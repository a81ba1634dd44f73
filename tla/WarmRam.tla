------------------------------ MODULE WarmRam ------------------------------
(***************************************************************************)
(* Warm models on a node: model files the agent keeps mapped and locked in  *)
(* RAM after the runtime gave up their VRAM (internal/nodeagent/warmram.go  *)
(* and the warm commands of commands.go).                                   *)
(*                                                                         *)
(* The manager's entries live in the agent process, their manifests and the *)
(* write-ahead intents in the command state file, the models' residency in  *)
(* the runtime, which a kill of the agent leaves alone.  The command        *)
(* processor runs one command at a time under its mutex, and a new session  *)
(* reconciles before it reads commands, so reservations never overlap.      *)
(*                                                                         *)
(* One target.  Fences and replayed answers are NodeCommands' subject, a    *)
(* failing save CommandStateFile's.  warm_model stands for demote_model and *)
(* offload_model.  active_references > 0 and protected are one flag, the    *)
(* shield.  The RAM, cgroup, memlock, pressure and OOM limits of reserve    *)
(* are one refusal that may come or not.                                    *)
(***************************************************************************)
EXTENDS Integers, Sequences, FiniteSets, FiniteSetsExt

CONSTANTS
  Models,         \* the models of the target
  Size,           \* Size[m]: bytes of m's file
  MaxWarmBytes    \* the configured LRU budget

ASSUME WarmAssumption ==
  /\ MaxWarmBytes \in Nat \ {0}
  /\ \A m \in Models : Size[m] \in Nat \ {0}

VARIABLES
  warm,         \* model -> entry of the manager
  recency,      \* the models, least recently used first
  file,         \* identity of a model file: 0 or 1 with the configured hash, 2 not
  vram,         \* runtime: "loaded", "unloaded" or "moving"
  intents,      \* the processor's pending commands
  block,        \* whether the processor is blocked as warm_transient
  cmd,          \* the command being executed
  stage,        \* of the session: "down", "pending", "warm", "open"; warm: what is left
  disk,         \* the saved manifests and intents
  warmTrouble   \* bounds: sessions, commands and their models, faults,
                \* file changes, reloads; and the lives so far

warmVars == <<warm, recency, file, vram, intents, block, cmd, stage, disk,
              warmTrouble>>

NoEntry == [has |-> FALSE, verified |-> FALSE, released |-> FALSE,
            pin |-> "none", id |-> 0, shield |-> FALSE]
NoCommand == [at |-> "idle"]
Stage(at) == [at |-> at, todo |-> <<>>]

WarmKinds == {"warm_model", "reverify_warm_model", "protect_warm_model",
              "cleanup_warm_model"}
Kinds == WarmKinds \union {"load_model", "unload_model"}

Claim(entry) == entry.verified /\ entry.released
Flagged(entry) == [entry EXCEPT !.verified = FALSE, !.released = FALSE]
Touched(m) == Append(SelectSeq(recency, LAMBDA n : n # m), m)
Spend(kind, n) ==
  /\ warmTrouble[kind] >= n
  /\ warmTrouble' = [warmTrouble EXCEPT ![kind] = @ - n]

----------------------------------------------------------------------------
(* Pins and admission.  An operation's outcomes: whether it succeeded, the  *)
(* entries it leaves, and the faults it took.                               *)

Outcome(ok, entries, faults) == [ok |-> ok, warm |-> entries, faults |-> faults]

\* revalidateEntryLocked, for every entry.
Revalidated(entries) ==
  [m \in Models |-> IF Claim(entries[m]) /\ entries[m].id # file[m]
                    THEN Flagged(entries[m]) ELSE entries[m]]

Unverified(entries) == \E m \in Models : entries[m].has /\ ~Claim(entries[m])

\* A pin that failed to close may be unlocked, unmapped or intact.
CloseFailed(entries, m) ==
  [entries EXCEPT ![m] = [Flagged(@) EXCEPT !.pin = "failing"]]

\* ReleaseModelFor
Releases(entries, m) ==
  {Outcome(TRUE, [entries EXCEPT ![m] = NoEntry], 0)} \union
  (IF entries[m].pin = "none" THEN {}
   ELSE {Outcome(FALSE, CloseFailed(entries, m), 1)})

\* What reserve counts: every pin, whatever its proof is worth.
WarmBytes(entries) ==
  MapThenSumSet(LAMBDA m : Size[m], {m \in Models : entries[m].pin # "none"})

Evictable(entry) == entry.pin # "none" /\ ~entry.shield

\* evictLRULocked: least recently used first until the new bytes fit, or all.
EvictionRows(entries) == SelectSeq(recency, LAMBDA m : Evictable(entries[m]))

Dropped(entries, rows, k) ==
  [m \in Models |-> IF \E i \in 1..k : rows[i] = m THEN NoEntry ELSE entries[m]]

Fits(entries, need) == WarmBytes(entries) + need <= MaxWarmBytes

LastEvicted(entries, rows, need) ==
  Min({k \in 0..Len(rows) : Fits(Dropped(entries, rows, k), need)} \union {Len(rows)})

Evictions(entries, need) ==
  LET rows == EvictionRows(entries)
      last == LastEvicted(entries, rows, need)
      left == Dropped(entries, rows, last)
  IN  {Outcome(Fits(left, need), left, 0)} \union
      {Outcome(FALSE, CloseFailed(Dropped(entries, rows, i - 1), rows[i]), 1) :
         i \in 1..last}

\* reserve: the LRU budget, then the limits of the machine.
Admissions(entries, need) ==
  LET evictions == Evictions(entries, need)
  IN  evictions \union
      {Outcome(FALSE, e.warm, e.faults + 1) : e \in {x \in evictions : x.ok}}

\* validateWarmRAMResult holds for a pin that is resident and locked.
Pinned(m, shield) == [has |-> TRUE, verified |-> TRUE, released |-> TRUE,
                      pin |-> "live", id |-> file[m], shield |-> shield]

\* retainUnverifiedState: a handle for a later cleanup.
Retained(entries, m, pin, prior) ==
  [entries EXCEPT ![m] = [Flagged(prior) EXCEPT !.has = TRUE, !.pin = pin]]

RetainFailure(entries, m, pin, prior) ==
  IF prior.has \/ pin # "none" THEN Retained(entries, m, pin, prior) ELSE entries

\* pinWarmModelFileExpected and the identity check after it: the file may
\* change under the pin, whose closing may fail in turn.
PinFailures(entries, m, prior) ==
  {Outcome(FALSE, RetainFailure(entries, m, pin, prior), 1) :
     pin \in {"none", "failing"}}

\* reverifyModel: the old pin is given up before a new one is admitted.
Reverifications(m) ==
  LET prior == warm[m]
      without == [warm EXCEPT ![m] = NoEntry]
      admitted == Admissions(without, Size[m])
  IN  (IF prior.pin = "none" THEN {} ELSE {Outcome(FALSE, CloseFailed(warm, m), 1)})
      \union
      IF file[m] = 2
      THEN {Outcome(FALSE, RetainFailure(without, m, "none", prior), 0)}
      ELSE UNION {IF a.ok
                  THEN {Outcome(TRUE, [a.warm EXCEPT ![m] = Pinned(m, prior.shield)],
                                a.faults)}
                       \union PinFailures(a.warm, m, prior)
                  ELSE {Outcome(FALSE, RetainFailure(a.warm, m, "none", prior),
                                a.faults)} :
                  a \in admitted}

----------------------------------------------------------------------------
(* Handle *)

\* save writes what ManifestSnapshot sees after revalidating the entries.
Snapshot(entries, left) ==
  [warm |-> [m \in Models |-> [Revalidated(entries)[m] EXCEPT !.pin = "none"]],
   recency |-> recency, intents |-> left]

Saved(entries, left) ==
  /\ warm' = Revalidated(entries)
  /\ intents' = left
  /\ disk' = Snapshot(entries, left)

\* pendingWarmCleanupRetryFor
CleanupRetry(m) ==
  /\ block
  /\ warm[m].has /\ ~Claim(Revalidated(warm)[m])
  /\ \E p \in intents : p.kind \in WarmKinds

Replaced(kind, m) ==
  IF kind = "cleanup_warm_model" /\ CleanupRetry(m)
  THEN {p \in intents : p.m = m /\ p.kind \in WarmKinds}
  ELSE {}

\* The durable gates, then the write-ahead intent.
HandleWarm(kind, m, shield) ==
  LET intent == [kind |-> kind, m |-> m, shield |-> shield, done |-> FALSE]
  IN  /\ cmd = NoCommand /\ stage.at = "open"
      /\ m \in warmTrouble.models
      /\ \/ ~block /\ intents = {}
         \/ kind = "cleanup_warm_model" /\ CleanupRetry(m)
      /\ shield => kind \in {"warm_model", "protect_warm_model"}
      /\ Saved(warm, (intents \ Replaced(kind, m)) \union {intent})
      /\ cmd' = [at |-> "run", intent |-> intent, effect |-> FALSE, pin |-> "none",
                 id |-> 0]
      /\ Spend("commands", 1)
      /\ UNCHANGED <<recency, file, vram, block, stage>>

Running(kind) == cmd.at = "run" /\ cmd.intent.kind = kind
Ends(ok, effect) == cmd' = [at |-> "finish", intent |-> cmd.intent, ok |-> ok,
                            effect |-> effect]

\* Discovery fails or the runtime is not in the state the command asks for:
\* nothing has been touched.
Refuses ==
  /\ cmd.at = "run"
  /\ \/ UNCHANGED warmTrouble /\ ~Running("cleanup_warm_model")
                              /\ vram[cmd.intent.m] = "moving"
     \/ UNCHANGED warmTrouble /\ Running("warm_model") /\ vram[cmd.intent.m] # "loaded"
     \/ UNCHANGED warmTrouble
        /\ (Running("reverify_warm_model") \/ Running("protect_warm_model"))
        /\ vram[cmd.intent.m] # "unloaded"
     \/ Spend("faults", 1)
  /\ Ends(FALSE, FALSE)
  /\ UNCHANGED <<warm, recency, file, vram, intents, block, stage, disk>>

\* cleanup_warm_model: the pin goes first, the runtime is asked afterwards.
CleanupWarm ==
  LET m == cmd.intent.m
      cold == vram[m] = "unloaded"
  IN  /\ Running("cleanup_warm_model")
      /\ \E o \in Releases(warm, m), unseen \in 0..1 :
           LET done == o.ok /\ cold /\ unseen = 0
           IN  /\ warm' = o.warm
               /\ Spend("faults", o.faults + unseen)
               /\ Ends(done, warm[m].has)
               /\ intents' = IF done /\ warm[m].has /\ ~Unverified(o.warm)
                             THEN {p \in intents : p.kind \notin WarmKinds}
                             ELSE intents
      /\ UNCHANGED <<recency, file, vram, block, stage, disk>>

\* protect_warm_model: UpdateProtectionFor
ProtectWarm ==
  LET m == cmd.intent.m
      seen == Revalidated(warm)[m]
  IN  /\ Running("protect_warm_model")
      /\ vram[m] = "unloaded"
      /\ IF warm[m].has /\ Claim(seen)
         THEN /\ warm' = [warm EXCEPT ![m].shield = cmd.intent.shield]
              /\ recency' = Touched(m)
              /\ Ends(TRUE, TRUE)
         ELSE /\ warm' = [warm EXCEPT ![m] = seen]
              /\ Ends(FALSE, warm[m].has)
              /\ UNCHANGED recency
      /\ UNCHANGED <<file, vram, intents, block, stage, disk, warmTrouble>>

\* reverify_warm_model.  A pin closed again counts as a side effect.
ReverifyWarm ==
  LET m == cmd.intent.m
  IN  /\ Running("reverify_warm_model")
      /\ vram[m] = "unloaded"
      /\ \E o \in Reverifications(m) :
           /\ warm' = o.warm
           /\ Spend("faults", o.faults)
           /\ \E closed \in {FALSE, o.faults > 0} :
                Ends(o.ok, warm[m].has \/ o.warm # warm \/ closed)
      /\ recency' = Touched(m)
      /\ UNCHANGED <<file, vram, intents, block, stage, disk>>

\* warm_model, OffloadModel: an existing entry loses its proof and keeps its
\* pin; otherwise the file is admitted and pinned.
OffloadKnown ==
  LET m == cmd.intent.m
      seen == Revalidated(warm)[m]
  IN  /\ Running("warm_model")
      /\ vram[m] = "loaded"
      /\ warm[m].has
      /\ IF Claim(seen)
         THEN /\ warm' = [warm EXCEPT ![m] = [Flagged(@) EXCEPT
                                                !.shield = cmd.intent.shield]]
              /\ recency' = Touched(m)
              /\ cmd' = [cmd EXCEPT !.at = "release", !.effect = TRUE]
         ELSE /\ warm' = [warm EXCEPT ![m] = seen]
              /\ Ends(FALSE, TRUE)
              /\ UNCHANGED recency
      /\ UNCHANGED <<file, vram, intents, block, stage, disk, warmTrouble>>

\* warmModel marks a side effect when any unverified entry is left behind.
OffloadFresh ==
  LET m == cmd.intent.m
      Refused(entries, closed) ==
        Ends(FALSE, entries # warm \/ closed \/ Unverified(entries))
  IN  /\ Running("warm_model")
      /\ vram[m] = "loaded"
      /\ ~warm[m].has
      /\ IF file[m] = 2
         THEN Refused(warm, FALSE) /\ UNCHANGED <<warm, warmTrouble>>
         ELSE \E a \in Admissions(warm, Size[m]) :
                \/ /\ warm' = a.warm
                   /\ Spend("faults", a.faults)
                   /\ IF a.ok THEN cmd' = [cmd EXCEPT !.at = "release", !.pin = "live",
                                                    !.id = file[m]]
                              ELSE Refused(a.warm, FALSE)
                \/ /\ a.ok
                   /\ \E o \in PinFailures(a.warm, m, NoEntry), closed \in BOOLEAN :
                        /\ warm' = o.warm
                        /\ Spend("faults", o.faults)
                        /\ Refused(o.warm, closed)
      /\ UNCHANGED <<recency, file, vram, intents, block, stage, disk>>

\* ReleaseVRAM: the runtime unloads at once, later, or answers with an error.
ReleaseVRAM ==
  LET m == cmd.intent.m
  IN  /\ cmd.at = "release"
      /\ \/ /\ vram' \in {[vram EXCEPT ![m] = s] : s \in {"unloaded", "moving"}}
            /\ cmd' = [cmd EXCEPT !.at = "confirm", !.effect = TRUE]
            /\ UNCHANGED warmTrouble
         \/ /\ vram' \in {[vram EXCEPT ![m] = s] : s \in {vram[m], "unloaded", "moving"}}
            /\ cmd' = [cmd EXCEPT !.at = "undo", !.effect = TRUE]
            /\ Spend("faults", 1)
      /\ UNCHANGED <<warm, recency, file, intents, block, stage, disk>>

\* ConfirmReleased waits out a transition; then the entry, and warmModel's
\* own look at the runtime.
ConfirmReleased ==
  LET m == cmd.intent.m
  IN  /\ cmd.at = "confirm"
      /\ \/ /\ vram[m] = "unloaded"
            /\ warm' = [warm EXCEPT ![m] =
                          IF cmd.pin = "live" THEN [Pinned(m, cmd.intent.shield)
                                                     EXCEPT !.id = cmd.id]
                          ELSE [@ EXCEPT !.verified = TRUE, !.released = TRUE]]
            /\ recency' = Touched(m)
            /\ \/ Ends(TRUE, TRUE) /\ UNCHANGED warmTrouble
               \/ Ends(FALSE, TRUE) /\ Spend("faults", 1)
         \/ /\ \/ vram[m] = "loaded" /\ UNCHANGED warmTrouble
               \/ Spend("faults", 1)
            /\ cmd' = [cmd EXCEPT !.at = "undo"]
            /\ UNCHANGED <<warm, recency>>
      /\ UNCHANGED <<file, vram, intents, block, stage, disk>>

\* The failed offload: the new pin is closed, or kept as a handle when that
\* fails, and the model is asked back into VRAM.
RestoreVRAM ==
  LET m == cmd.intent.m
  IN  /\ cmd.at = "undo"
      /\ \/ UNCHANGED <<warm, recency, warmTrouble>>
         \/ /\ cmd.pin = "live"
            /\ warm' = Retained(warm, m, "failing", [NoEntry EXCEPT !.id = cmd.id])
            /\ recency' = Touched(m)
            /\ Spend("faults", 1)
      /\ vram' \in {[vram EXCEPT ![m] = s] : s \in {vram[m], "loaded", "moving"}}
      /\ Ends(FALSE, TRUE)
      /\ UNCHANGED <<file, intents, block, stage, disk>>

Wanted == IF cmd.intent.kind = "load_model" THEN "loaded" ELSE "unloaded"
Lifecycle == cmd.intent.kind \in {"load_model", "unload_model"}

\* load_model and unload_model: nothing to do but to give up the warm entry,
\* or the runtime is changed first.
MutateRuntime ==
  LET m == cmd.intent.m
  IN  /\ cmd.at = "run" /\ Lifecycle
      /\ vram[m] # "moving"
      /\ \/ /\ vram[m] = Wanted
            /\ \E o \in Releases(warm, m) :
                 warm' = o.warm /\ Spend("faults", o.faults) /\ Ends(o.ok, FALSE)
            /\ UNCHANGED vram
         \/ /\ vram[m] # Wanted
            /\ vram' \in {[vram EXCEPT ![m] = s] : s \in {Wanted, "moving"}}
            /\ cmd' = [cmd EXCEPT !.at = "observe"]
            /\ UNCHANGED <<warm, warmTrouble>>
         \/ /\ vram[m] # Wanted
            /\ vram' \in {[vram EXCEPT ![m] = s] : s \in {"loaded", "unloaded", "moving"}}
            /\ Ends(FALSE, TRUE)
            /\ Spend("faults", 1)
            /\ UNCHANGED warm
      /\ UNCHANGED <<recency, file, intents, block, stage, disk>>

ObserveRuntime ==
  LET m == cmd.intent.m
  IN  /\ cmd.at = "observe"
      /\ \/ /\ vram[m] = Wanted
            /\ \E o \in Releases(warm, m) :
                 warm' = o.warm /\ Spend("faults", o.faults) /\ Ends(o.ok, TRUE)
            /\ UNCHANGED vram
         \/ /\ vram' \in {[vram EXCEPT ![m] = s] : s \in {"loaded", "unloaded", "moving"}}
            /\ Spend("faults", 1)
            /\ Ends(FALSE, TRUE)
            /\ UNCHANGED warm
         \/ /\ vram[m] \notin {Wanted, "moving"}
            /\ Ends(FALSE, TRUE)
            /\ UNCHANGED <<warm, vram, warmTrouble>>
      /\ UNCHANGED <<recency, file, intents, block, stage, disk>>

\* The end of Handle: an error after a side effect keeps the intent and
\* blocks the processor.
FinishWarm ==
  LET retain == ~cmd.ok /\ cmd.effect
      left == IF retain THEN intents ELSE intents \ {cmd.intent}
  IN  /\ cmd.at = "finish"
      /\ Saved(warm, left)
      /\ block' = (retain \/ (block /\ left # {}))
      /\ cmd' = NoCommand
      /\ UNCHANGED <<recency, file, vram, stage, warmTrouble>>

\* queryResultProvesPendingAction: the tier a query sees settles an intent.
Proves(p, entries) ==
  LET e == entries[p.m]
      resident == vram[p.m] = "loaded"
      hot == resident /\ ~Claim(e)
      cold == ~resident /\ ~e.has
      proof == Claim(e) /\ ~resident
  IN  CASE p.kind = "warm_model" -> proof \/ hot
        [] p.kind = "reverify_warm_model" -> proof \/ cold
        [] p.kind = "protect_warm_model" -> (proof /\ e.shield = p.shield) \/ cold
        [] OTHER -> hot \/ cold

\* query_model_state for a pending command: settlePendingFromQuery
QuerySettles(p) ==
  LET left == intents \ {p}
  IN  /\ cmd = NoCommand /\ stage.at = "open"
      /\ vram[p.m] # "moving"
      /\ Proves(p, Revalidated(warm))
      /\ Saved(warm, left)
      /\ block' = (block /\ left # {})
      /\ UNCHANGED <<recency, file, vram, cmd, stage, warmTrouble>>

----------------------------------------------------------------------------
(* A new session reconciles the intents, then the manifests, then reads.    *)

\* What ReconcileWarmManifests works through: the manifests of this moment.
Manifests ==
  LET seen == Revalidated(warm)
      rows == SelectSeq(recency, LAMBDA m : seen[m].has)
  IN  [i \in DOMAIN rows |-> [m |-> rows[i], entry |-> seen[rows[i]]]]

ToWarm == /\ stage' = [at |-> "warm", todo |-> Manifests]
          /\ warm' = Revalidated(warm)

\* HasPending waits for the command an earlier session left behind.
SessionStarts ==
  /\ stage.at = "down" /\ cmd = NoCommand
  /\ Spend("sessions", 1)
  /\ IF intents # {} THEN stage' = Stage("pending") /\ UNCHANGED warm ELSE ToWarm
  /\ UNCHANGED <<recency, file, vram, intents, block, cmd, disk>>

\* The runtime states in which ReconcilePending can settle an intent.
IntentReady(p) == IF p.kind \in WarmKinds THEN vram[p.m] = "unloaded"
                                          ELSE vram[p.m] # "moving"

\* What settling it does to the entries.
IntentOutcomes(p) ==
  CASE p.done -> {Outcome(TRUE, warm, 0)}
    [] p.kind = "cleanup_warm_model" -> Releases(warm, p.m)
    [] p.kind = "protect_warm_model" ->
         {IF o.ok THEN [o EXCEPT !.warm[p.m].shield = p.shield] ELSE o :
            o \in Reverifications(p.m)}
    [] p.kind \in WarmKinds -> Reverifications(p.m)
    [] OTHER -> {Outcome(TRUE, warm, 0)}

\* recordReconciledResult saves the result beside the intent, which leaves the
\* memory at once and the file with the last save.
ReconcileIntent(p) ==
  /\ stage.at = "pending"
  /\ p.done \/ IntentReady(p)
  /\ \E o \in IntentOutcomes(p) :
       /\ Spend("faults", o.faults)
       /\ IF o.ok
          THEN /\ warm' = IF p.done THEN warm ELSE Revalidated(o.warm)
               /\ intents' = intents \ {p}
               /\ disk' = IF p.done THEN disk
                          ELSE Snapshot(o.warm, (intents \ {p}) \union
                                                {[p EXCEPT !.done = TRUE]})
               /\ UNCHANGED stage
          ELSE /\ warm' = o.warm
               /\ stage' = Stage("stopped")
               /\ UNCHANGED <<intents, disk>>
  /\ UNCHANGED <<recency, file, vram, block, cmd>>

\* An intent that cannot be settled ends the pass, and the next one begins.
ReconcileStops ==
  /\ \/ stage.at = "stopped" /\ UNCHANGED warmTrouble
     \/ /\ stage.at = "pending"
        /\ \E p \in intents : ~p.done /\ ~IntentReady(p)
        /\ UNCHANGED warmTrouble
     \/ stage.at = "pending" /\ intents # {} /\ Spend("faults", 1)
  /\ ToWarm
  /\ UNCHANGED <<recency, file, vram, intents, block, cmd, disk>>

ReconcilePendingDone ==
  /\ stage.at = "pending" /\ intents = {}
  /\ Saved(warm, {})
  /\ block' = FALSE
  /\ stage' = [at |-> "warm", todo |-> Manifests]
  /\ UNCHANGED <<recency, file, vram, cmd, warmTrouble>>

\* One manifest: an unverified one is cleaned up, one whose model is loaded
\* again is given up, a restored one is pinned anew.
ManifestOutcomes(row) ==
  LET m == row.m
  IN  CASE ~row.entry.verified -> Releases(warm, m)
        [] row.entry.id # file[m] \/ vram[m] = "moving" -> {Outcome(FALSE, warm, 0)}
        [] vram[m] = "loaded" -> Releases(warm, m)
        [] row.entry.released -> {Outcome(TRUE, warm, 0)}
        [] OTHER -> Reverifications(m)

ReconcileManifest ==
  LET row == Head(stage.todo)
  IN  /\ stage.at = "warm" /\ stage.todo # <<>>
      /\ \E o \in ManifestOutcomes(row) \union {Outcome(FALSE, warm, 1)} :
           /\ warm' = o.warm
           /\ Spend("faults", o.faults)
           /\ stage' = IF o.ok THEN [stage EXCEPT !.todo = Tail(@)] ELSE Stage("open")
           /\ block' = (block \/ ~o.ok)
           /\ recency' = IF o.ok THEN recency ELSE Touched(row.m)
      /\ UNCHANGED <<file, vram, intents, cmd, disk>>

ReconcileWarmDone ==
  /\ stage.at = "warm" /\ stage.todo = <<>>
  /\ Saved(warm, intents)
  /\ block' = (Unverified(Revalidated(warm)) \/ intents # {})
  /\ stage' = Stage("open")
  /\ UNCHANGED <<recency, file, vram, cmd, warmTrouble>>

----------------------------------------------------------------------------
(* The agent dies; the runtime and the files do not.                        *)

\* Mutant: a saved claim is taken at its word.
RestoredClaim(entry) == [entry EXCEPT !.pin = "none"]

\* RestoreManifests: a claim comes back as metadata that has yet to be pinned.
RestoreManifests(entry) ==
  IF entry.verified THEN [entry EXCEPT !.released = FALSE] ELSE Flagged(entry)

\* restoreWarmManifests: a pending cleanup wins over the manifest.
RestoredWarm ==
  [m \in Models |->
     IF ~disk.warm[m].has
        \/ \E p \in disk.intents : p.m = m /\ p.kind = "cleanup_warm_model"
     THEN NoEntry ELSE RestoreManifests(disk.warm[m])]

WarmLost ==
  /\ warm' = RestoredWarm
  /\ recency' = disk.recency
  /\ intents' = disk.intents
  /\ block' = (disk.intents # {} \/ \E m \in Models : RestoredWarm[m].has)
  /\ cmd' = NoCommand
  /\ stage' = Stage("down")
  /\ warmTrouble' = [warmTrouble EXCEPT !.lives = @ + 1]
  /\ UNCHANGED <<file, vram, disk>>

\* The session ends; a command in progress goes on without it.
SessionDrops ==
  /\ stage.at = "open" /\ warmTrouble.sessions > 0
  /\ stage' = Stage("down")
  /\ UNCHANGED <<warm, recency, file, vram, intents, block, cmd, disk, warmTrouble>>

\* External: the runtime completes a transition, or a request loads a model.
RuntimeMoves(m) ==
  /\ \/ vram[m] = "moving" /\ UNCHANGED warmTrouble
     \/ vram[m] = "unloaded" /\ Spend("reloads", 1)
  /\ vram' \in {[vram EXCEPT ![m] = s] :
                 s \in IF vram[m] = "moving" THEN {"loaded", "unloaded"} ELSE {"loaded"}}
  /\ UNCHANGED <<warm, recency, file, intents, block, cmd, stage, disk>>

\* External: a model file is written again with the same bytes, or others.
FileChanges(m) ==
  /\ file[m] < 2 /\ m \in warmTrouble.models
  /\ Spend("changes", 1)
  /\ file' \in {[file EXCEPT ![m] = n] : n \in (file[m] + 1)..2}
  /\ UNCHANGED <<warm, recency, vram, intents, block, cmd, stage, disk>>

WarmInit(limits) ==
  /\ warm = [m \in Models |-> NoEntry]
  /\ recency = CHOOSE f \in [1..Cardinality(Models) -> Models] : IsInjective(f)
  /\ file = [m \in Models |-> 0]
  /\ vram = [m \in Models |-> "loaded"]
  /\ intents = {}
  /\ block = FALSE
  /\ cmd = NoCommand
  /\ stage = Stage("down")
  /\ disk = [warm |-> warm, recency |-> recency, intents |-> {}]
  /\ warmTrouble \in limits

WarmCommand ==
  \/ \E kind \in Kinds, m \in Models, shield \in BOOLEAN : HandleWarm(kind, m, shield)
  \/ Refuses \/ CleanupWarm \/ ProtectWarm \/ ReverifyWarm
  \/ OffloadKnown \/ OffloadFresh \/ ReleaseVRAM \/ ConfirmReleased \/ RestoreVRAM
  \/ MutateRuntime \/ ObserveRuntime \/ FinishWarm
  \/ \E p \in intents : QuerySettles(p)

WarmReconcile ==
  \/ SessionStarts \/ SessionDrops
  \/ \E p \in intents : ReconcileIntent(p)
  \/ ReconcileStops \/ ReconcilePendingDone
  \/ ReconcileManifest \/ ReconcileWarmDone

WarmWorld == \E m \in Models : RuntimeMoves(m) \/ FileChanges(m)

WarmNext == WarmCommand \/ WarmReconcile \/ WarmWorld \/ WarmLost

WarmSpec(limits) == WarmInit(limits) /\ [][WarmNext]_warmVars

----------------------------------------------------------------------------
(* Properties *)

\* A model whose entry claims verified warm RAM is locked in memory by a live
\* pin, whatever failed, was evicted, reconciled or restored on the way.
WarmIsPinned == \A m \in Models : Claim(warm[m]) => warm[m].pin = "live"

====
