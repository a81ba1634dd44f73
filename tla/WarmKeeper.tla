----------------------------- MODULE WarmKeeper -----------------------------
(***************************************************************************)
(* The warm keeper (internal/warmkeeper/keeper.go): a process of its own on *)
(* the node that locks the files of recently used models in the page cache *)
(* and gives the memory back under pressure.  It runs one loop; the router  *)
(* it polls, the model files and the other users of memory change under it. *)
(*                                                                         *)
(* A model has one file, identified by id and size; several files are       *)
(* pinned all or none.  Time is a counter that advances with the router's   *)
(* changes, the poll interval is left open and the cooldown is a flag.      *)
(***************************************************************************)
EXTENDS Integers, Sequences, FiniteSets, FiniteSetsExt

CONSTANTS
  RouterModels,   \* models of the router: numbers, in the order of their ids
  Always,         \* the configured always-warm models, in order
  BudgetBytes, FloorBytes, HeadroomBytes,
  Memory,         \* what MemAvailable would be with nobody using memory
  Demands,        \* what the rest of the machine may use of it
  FileSizes       \* sizes a model file may have

ASSUME KeeperAssumption ==
  /\ RouterModels \subseteq Nat
  /\ Always \in Seq(RouterModels)
  /\ {BudgetBytes, FloorBytes, HeadroomBytes, Memory} \subseteq Nat
  /\ Demands \subseteq 0..Memory
  /\ FileSizes \subseteq Nat \ {0}

VARIABLES
  router,        \* model -> [listed, loaded, file] as the router and disk have it
  demand,        \* memory the rest of the machine uses
  known,         \* the keeper's models
  pins,          \* model -> [file: as recorded, bytes, locked: the real file]
  cooling,       \* now is before cooldownUntil
  usedFile,      \* StatePath: model -> LastUsed
  clock,         \* time, as LastUsed can tell it
  keeperTrouble  \* bounds: changes of the router and files, of demand; faults; kills;
                 \* and whether the node runs a keeper at all

keeperVars == <<router, demand, known, pins, cooling, usedFile, clock, keeperTrouble>>

NoFile == [id |-> 0, size |-> 0]
NoPin == [file |-> NoFile, bytes |-> 0, locked |-> NoFile]
Unknown == [file |-> NoFile, present |-> FALSE, used |-> 0]

Costs(kind) == /\ keeperTrouble[kind] > 0
               /\ keeperTrouble' = [keeperTrouble EXCEPT ![kind] = @ - 1]
NoCost == UNCHANGED keeperTrouble

PinnedModels == {m \in RouterModels : pins[m] # NoPin}
MemAvailable ==
  Memory - demand - MapThenSumSet(LAMBDA m : pins[m].locked.size, RouterModels)

----------------------------------------------------------------------------
\* observe, with the files of the listed models.
Observed ==
  [m \in RouterModels |->
     LET seen == router[m].listed /\ router[m].file # NoFile
     IN  [file |-> IF router[m].listed THEN router[m].file ELSE known[m].file,
          present |-> seen,
          used |-> IF seen /\ router[m].loaded THEN clock ELSE known[m].used]]

\* observe saves when a LastUsed moved; a failed save is only logged and not
\* tried again for its own sake.
KeeperPolls ==
  LET used == [m \in RouterModels |-> Observed[m].used]
      dirty == \E m \in RouterModels : used[m] # known[m].used
  IN  /\ \/ /\ known' = Observed
            /\ \/ usedFile' = (IF dirty THEN used ELSE usedFile) /\ NoCost
               \/ dirty /\ UNCHANGED usedFile /\ Costs("faults")
         \/ UNCHANGED <<known, usedFile>> /\ Costs("faults")
      /\ UNCHANGED <<router, demand, pins, cooling, clock>>

----------------------------------------------------------------------------
(* Tick *)

AlwaysRank(m) == LET at == {i \in DOMAIN Always : Always[i] = m}
           IN  IF at = {} THEN 0 ELSE Max(at)

Precedes(a, b) ==
  IF (AlwaysRank(a) > 0) # (AlwaysRank(b) > 0) THEN AlwaysRank(a) > 0
  ELSE IF AlwaysRank(a) # AlwaysRank(b) THEN AlwaysRank(a) < AlwaysRank(b)
  ELSE IF known[a].used # known[b].used THEN known[a].used > known[b].used
  ELSE a < b

SizeOf(models) == MapThenSumSet(LAMBDA m : known[m].file.size, models)

\* desired: a model is wanted when it fits the budget beside the wanted models
\* that precede it; one that does not is skipped.
Desired ==
  LET eligible == {m \in RouterModels : known[m].present /\ (AlwaysRank(m) > 0 \/ known[m].used > 0)}
  IN  CHOOSE want \in SUBSET eligible :
        \A m \in eligible :
          m \in want <=> SizeOf({n \in want : Precedes(n, m)} \union {m}) <= BudgetBytes

LowestOf(models) == {m \in models : \A n \in models \ {m} : Precedes(n, m)}
HighestOf(models) == {m \in models : \A n \in models \ {m} : Precedes(m, n)}

\* Mutant: a pin that left the desired set is not a victim.
LowestDesiredPin == LowestOf(PinnedModels \intersect Desired)

\* lowestPriorityPin: any pin that is no longer desired, or the last in order.
LowestPriorityPin ==
  LET want == Desired
  IN  IF PinnedModels \subseteq want THEN LowestOf(PinnedModels) ELSE PinnedModels \ want

\* A pin stays while its model is wanted and its file is the recorded one.
KeptPins(want) ==
  [m \in RouterModels |-> IF m \in want /\ pins[m].file = known[m].file
                          THEN pins[m] ELSE NoPin]

Under(pressure) == (MemAvailable < FloorBytes) = pressure

KeeperYields ==
  /\ Under(TRUE)
  /\ \E victim \in LowestPriorityPin : pins' = [pins EXCEPT ![victim] = NoPin]
  /\ cooling' = TRUE
  /\ NoCost
  /\ UNCHANGED <<router, demand, known, usedFile, clock>>

Fits(m) == MemAvailable - known[m].file.size >= FloorBytes + HeadroomBytes

\* PinFile maps and locks what is at the path now.
PinFile(m) == [file |-> known[m].file, bytes |-> known[m].file.size,
               locked |-> router[m].file]

\* pinModel: it succeeds, or fails or is stopped by pressure with everything
\* it locked released.
PinModel(kept, m) ==
  \/ /\ pins' = IF router[m].file = NoFile THEN kept ELSE [kept EXCEPT ![m] = PinFile(m)]
     /\ UNCHANGED cooling /\ NoCost
  \/ /\ pins' = kept /\ cooling' \in BOOLEAN /\ Costs("faults")

\* The first desired model that is not pinned is waited for.
KeeperReconciles ==
  LET want == Desired
      kept == KeptPins(want)
      next == IF cooling THEN {}
              ELSE {m \in HighestOf({n \in want : kept[n] = NoPin}) : Fits(m)}
  IN  /\ Under(FALSE)
      /\ \/ /\ next = {} /\ pins' = kept /\ UNCHANGED cooling /\ NoCost
         \/ \E m \in next : PinModel(kept, m)
      /\ UNCHANGED <<router, demand, known, usedFile, clock>>

KeeperTicks == KeeperYields \/ KeeperReconciles

\* The cooldown passes.
KeeperCools == /\ cooling /\ cooling' = FALSE /\ NoCost
               /\ UNCHANGED <<router, demand, known, pins, usedFile, clock>>

\* The process ends, its locks with it, and loadState reads the file.
KeeperRestarts ==
  /\ Costs("kills")
  /\ pins' = [m \in RouterModels |-> NoPin]
  /\ cooling' = FALSE
  /\ known' = [m \in RouterModels |-> [Unknown EXCEPT !.used = usedFile[m]]]
  /\ UNCHANGED <<router, demand, usedFile, clock>>

----------------------------------------------------------------------------
\* External: a model is loaded, unloaded, listed or not; its file is replaced
\* or removed.
RouterChanges ==
  /\ Costs("changes")
  /\ clock' = clock + 1
  /\ \E m \in RouterModels :
       \E r \in [listed : BOOLEAN, loaded : BOOLEAN,
                 file : {router[m].file, NoFile} \union
                        [id : {router[m].file.id + 1}, size : FileSizes]] :
         /\ r # router[m] /\ (r.loaded => r.listed /\ r.file # NoFile)
         /\ router' = [router EXCEPT ![m] = r]
  /\ UNCHANGED <<demand, known, pins, cooling, usedFile>>

\* External: the rest of the machine needs more memory, or less.
DemandChanges ==
  /\ Costs("demands")
  /\ demand' \in Demands \ {demand}
  /\ UNCHANGED <<router, known, pins, cooling, usedFile, clock>>

\* The router starts with every model listed and none loaded.
KeeperInit(limits, sizes) ==
  /\ router = [m \in RouterModels |-> [listed |-> TRUE, loaded |-> FALSE,
                                       file |-> [id |-> 1, size |-> sizes[m]]]]
  /\ demand = 0
  /\ known = [m \in RouterModels |-> Unknown]
  /\ pins = [m \in RouterModels |-> NoPin]
  /\ cooling = FALSE
  /\ usedFile = [m \in RouterModels |-> 0]
  /\ clock = 1
  /\ keeperTrouble \in limits

KeeperStep ==
  /\ keeperTrouble.deployed
  /\ \/ KeeperPolls \/ KeeperTicks \/ KeeperCools \/ KeeperRestarts
     \/ RouterChanges \/ DemandChanges

\* Run ticks and polls for as long as the process lives, and time passes.
KeeperFairness ==
  /\ WF_keeperVars(keeperTrouble.deployed /\ KeeperPolls)
  /\ WF_keeperVars(keeperTrouble.deployed /\ KeeperTicks)
  /\ WF_keeperVars(keeperTrouble.deployed /\ KeeperCools)

----------------------------------------------------------------------------
(* Properties *)

\* Once nothing changes, the keeper comes to rest (Tick): below the floor it
\* holds nothing; otherwise every pin is of a desired model and of the file on
\* disk, and the first desired model without one does not fit.
KeeperRests ==
  IF MemAvailable < FloorBytes THEN PinnedModels = {}
  ELSE /\ PinnedModels \subseteq Desired
       /\ \A m \in PinnedModels : pins[m].locked = router[m].file
       /\ \A m \in HighestOf(Desired \ PinnedModels) : ~Fits(m)
KeeperSettles == <>[](keeperTrouble.deployed => KeeperRests)
====
