-------------------------- MODULE CheckpointOwners --------------------------
(***************************************************************************)
(* The node's KV snapshots and who may still resume from them               *)
(* (internal/nodeagent/llamacpp_checkpoint.go, executeCheckpoint in         *)
(* commands.go): the .kv files llama.cpp writes in the checkpoint root, one *)
(* manifest per owner with a reference per resumable operation, the file    *)
(* quota and the expiry sweep.  The process-local set of terminalized        *)
(* operations only words the answer to a repeated finish and is left out.   *)
(*                                                                         *)
(* Checkpoint commands run one at a time.  Every file operation is a step,  *)
(* may fail once it has changed the file or before, and the agent may be    *)
(* killed between any two.  A bundle (.kv, .json, .commit) is one file of   *)
(* unit size, so the byte quota is the file quota.  A workload keeps its    *)
(* generation, so its commands use one snapshot name.                       *)
(***************************************************************************)
EXTENDS Integers, Sequences, FiniteSets, Functions

CONSTANTS MaxFiles, PerOwnerMaxFiles   \* the configured quotas

ASSUME QuotasConfigured ==
  /\ MaxFiles \in Nat \ {0}
  /\ PerOwnerMaxFiles \in Nat \ {0}

VARIABLES
  kv,             \* the .kv files: name -> the operation that wrote it
  manifests,      \* owner -> (snapshot name -> entry)
  job,            \* the checkpoint command being executed
  lives,          \* per workload, its checkpoint commands still to come
  saved,          \* operations whose save was answered with success
  kept,           \* those of them a restore may still ask for
  diskTrouble     \* failing file operations still allowed

ownerVars == <<kv, manifests, job, lives, saved, kept, diskTrouble>>

NoJob == [at |-> "none"]
NoOp == "none"

\* The name the controller gives a workload's snapshot (CheckpointWithLease): a
\* digest of the owner, the workload and its generation, taken to be injective.
SnapshotName(owner, workload) == <<owner, workload>>

\* The commands of a workload: save under an operation, or the end of a
\* restore (reuse_verify) or of its stream (cancel), which releases the
\* snapshot saved by `of`.
Save(op, owner, w) == [kind |-> "save", op |-> op, of |-> op, owner |-> owner,
                       name |-> SnapshotName(owner, w)]
Finish(op, of, owner, w) == [kind |-> "finish", op |-> op, of |-> of, owner |-> owner,
                             name |-> SnapshotName(owner, w)]

\* How the controller drives its workloads: a workload has one owner, a save
\* operation is used once, and the end of a restore follows the save it restored
\* with no save of the workload in between.
EndsItsSave(life, i) ==
  \E j \in 1..(i - 1) :
    /\ life[j].kind = "save" /\ life[j].op = life[i].of
    /\ \A k \in (j + 1)..(i - 1) : life[k].kind # "save"

InOrder(plan, owners) ==
  /\ \A w \in DOMAIN plan :
       /\ plan[w] \in Seq(Range(plan[w]))
       /\ \A i, j \in DOMAIN plan[w] : plan[w][i].owner = plan[w][j].owner
       /\ \A i \in DOMAIN plan[w] :
            LET cmd == plan[w][i]
            IN  /\ cmd.owner \in owners
                /\ cmd.name = SnapshotName(cmd.owner, w)
                /\ \/ cmd.kind = "save"
                   \/ /\ cmd.kind = "finish" /\ cmd.of # cmd.op
                      /\ EndsItsSave(plan[w], i)
  /\ \A w, v \in DOMAIN plan : \A i \in DOMAIN plan[w], j \in DOMAIN plan[v] :
       /\ plan[w][i].kind = "save" /\ plan[v][j].kind = "save"
       /\ plan[w][i].op = plan[v][j].op
       => w = v /\ i = j

Entry(owner, name) == manifests[owner][name]
Claimed(owner, name) == name \in DOMAIN manifests[owner]

WithEntry(owner, name, entry) ==
  [manifests EXCEPT ![owner] =
     [n \in DOMAIN @ \union {name} |-> IF n = name THEN entry ELSE @[n]]]

\* writeCheckpointOwnerManifest removes the file of an owner without entries;
\* readCheckpointOwnerManifest reads a missing file as no entries.
WithoutEntries(owner, names) ==
  [manifests EXCEPT ![owner] = Restrict(@, DOMAIN @ \ names)]

Without(files, names) == Restrict(files, DOMAIN files \ names)

FailDisk == /\ diskTrouble > 0
            /\ diskTrouble' = diskTrouble - 1

\* A manifest write is a rename and a directory sync: the error may come
\* before or after the new manifest is in place.
ManifestWriteFails(new) == FailDisk /\ manifests' \in {manifests, new}

----------------------------------------------------------------------------
(* The sweep and the quota. *)

\* Mutant: the sweep goes by age alone.
ExpiredByAge(entry) == entry.old

\* What cleanupCheckpointRoot may remove.
Expired(entry) == /\ entry.refs = {}
                  /\ entry.terminal # NoOp
                  /\ entry.old

Sweepable(owner) ==
  {n \in DOMAIN manifests[owner] : Expired(manifests[owner][n])}

Swept == [o \in DOMAIN manifests |->
            Restrict(manifests[o], DOMAIN manifests[o] \ Sweepable(o))]

\* checkpointQuotaAllowed: every file counts for the node, a file the owner's
\* manifest claims for the owner; a claimed file of that name is replaced, any
\* other is added, the one this save has just written included.
QuotaAllowed(owner, name) ==
  LET own == {n \in DOMAIN kv : Claimed(owner, n)}
      new == IF name \in own THEN 0 ELSE 1
  IN  /\ Cardinality(DOMAIN kv) + new <= MaxFiles
      /\ Cardinality(own) + new <= PerOwnerMaxFiles

----------------------------------------------------------------------------
(* executeCheckpoint *)

\* Every checkpoint command begins with the sweep, whose manifest write may
\* fail unnoticed.  A finish has verified or cancelled the restore of its
\* snapshot: nobody asks for it again.
CheckpointBegin(w) ==
  LET cmd == Head(lives[w])
      dead == UNION {Sweepable(o) : o \in DOMAIN manifests}
  IN  /\ job = NoJob
      /\ lives[w] # <<>>
      /\ cmd.of = cmd.op \/ cmd.of \in saved
      /\ lives' = [lives EXCEPT ![w] = Tail(@)]
      /\ kv' = Without(kv, dead)
      /\ \/ manifests' = Swept /\ UNCHANGED diskTrouble
         \/ Swept # manifests /\ FailDisk /\ UNCHANGED manifests
      /\ job' = [at |-> cmd.kind, cmd |-> cmd]
      /\ kept' = {k \in kept : cmd.kind = "save" \/ k.op # cmd.of}
      /\ UNCHANGED saved

\* The controller never sends the workload's next command.
CheckpointSkipped(w) ==
  /\ job = NoJob
  /\ lives[w] # <<>>
  /\ lives' = [lives EXCEPT ![w] = Tail(@)]
  /\ UNCHANGED <<kv, manifests, job, saved, kept, diskTrouble>>

\* "save": the quota, whether the file exists, and the runtime's SaveKV, which
\* overwrites the workload's earlier snapshot.
SaveKV ==
  LET cmd == job.cmd
      written == [n \in DOMAIN kv \union {cmd.name} |->
                    IF n = cmd.name THEN cmd.op ELSE kv[n]]
  IN  /\ job.at = "save"
      /\ IF ~QuotaAllowed(cmd.owner, cmd.name)
         THEN job' = NoJob /\ UNCHANGED <<kv, kept, diskTrouble>>
         ELSE /\ kept' = {k \in kept : k.name # cmd.name}
              /\ \/ /\ kv' = written
                    /\ job' = [at |-> "record", cmd |-> cmd,
                               fresh |-> cmd.name \notin DOMAIN kv]
                    /\ UNCHANGED diskTrouble
                 \/ /\ FailDisk
                    /\ kv' \in {kv, written}
                    /\ job' = NoJob
      /\ UNCHANGED <<manifests, lives, saved>>

\* removeFreshCheckpointBundle, called for a file this save created.
RemoveFresh(cmd, fresh) == IF fresh THEN Without(kv, {cmd.name}) ELSE kv

\* recordOwnedCheckpoint: one reference per operation, added to those the
\* entry already has.
Recorded(cmd) ==
  LET claimed == Claimed(cmd.owner, cmd.name)
  IN  WithEntry(cmd.owner, cmd.name,
        [refs |-> {cmd.op} \union IF claimed THEN Entry(cmd.owner, cmd.name).refs
                                  ELSE {},
         terminal |-> NoOp,
         old |-> claimed /\ Entry(cmd.owner, cmd.name).old])

RecordOwnedCheckpoint ==
  LET cmd == job.cmd
  IN  /\ job.at = "record"
      /\ \/ /\ QuotaAllowed(cmd.owner, cmd.name)
            /\ manifests' = Recorded(cmd)
            /\ saved' = saved \union {cmd.op}
            /\ kept' = kept \union {cmd}
            /\ UNCHANGED <<kv, diskTrouble>>
         \/ /\ QuotaAllowed(cmd.owner, cmd.name)
            /\ ManifestWriteFails(Recorded(cmd))
            /\ kv' = RemoveFresh(cmd, job.fresh)
            /\ UNCHANGED <<saved, kept>>
         \/ /\ ~QuotaAllowed(cmd.owner, cmd.name)
            /\ kv' = RemoveFresh(cmd, job.fresh)
            /\ UNCHANGED <<manifests, saved, kept, diskTrouble>>
      /\ job' = NoJob
      /\ UNCHANGED lives

\* finalizeCheckpointOwnership: the operation's own reference, or the only one
\* there is; an ambiguous one is left alone.
Reference(cmd) ==
  LET refs == Entry(cmd.owner, cmd.name).refs
  IN  IF cmd.op \in refs THEN cmd.op
      ELSE IF Cardinality(refs) = 1 THEN CHOOSE r \in refs : TRUE ELSE NoOp

Terminal(cmd) ==
  LET entry == Entry(cmd.owner, cmd.name)
      left == entry.refs \ {Reference(cmd)}
  IN  WithEntry(cmd.owner, cmd.name,
        [entry EXCEPT !.refs = left,
                      !.terminal = IF left = {} THEN Reference(cmd) ELSE NoOp])

\* markOwnedCheckpointTerminal up to the manifest write.
MarkOwnedCheckpointTerminal ==
  LET cmd == job.cmd
      found == /\ Claimed(cmd.owner, cmd.name)
               /\ Reference(cmd) # NoOp
  IN  /\ job.at = "finish"
      /\ \/ ~found /\ job' = NoJob /\ UNCHANGED <<manifests, diskTrouble>>
         \/ /\ found
            /\ manifests' = Terminal(cmd)
            /\ job' = IF Terminal(cmd)[cmd.owner][cmd.name].refs = {}
                      THEN [at |-> "remove", cmd |-> cmd]
                      ELSE NoJob
            /\ UNCHANGED diskTrouble
         \/ found /\ ManifestWriteFails(Terminal(cmd)) /\ job' = NoJob
      /\ UNCHANGED <<kv, lives, saved, kept>>

\* removeOwnedCheckpointForOwner: the bundle first, then its entry.
RemoveOwnedCheckpoint ==
  LET cmd == job.cmd
      gone == WithoutEntries(cmd.owner, {cmd.name})
  IN  /\ \/ /\ job.at = "remove"
            /\ \/ /\ kv' = Without(kv, {cmd.name})
                  /\ job' = [job EXCEPT !.at = "forget"]
                  /\ UNCHANGED diskTrouble
               \/ FailDisk /\ job' = NoJob /\ UNCHANGED kv
            /\ UNCHANGED manifests
         \/ /\ job.at = "forget"
            /\ \/ manifests' = gone /\ UNCHANGED diskTrouble
               \/ ManifestWriteFails(gone)
            /\ job' = NoJob
            /\ UNCHANGED kv
      /\ UNCHANGED <<lives, saved, kept>>

\* The expiry age of an entry passes.
EntryAges ==
  /\ job = NoJob
  /\ \E o \in DOMAIN manifests : \E n \in DOMAIN manifests[o] :
       /\ ~manifests[o][n].old
       /\ manifests' = [manifests EXCEPT ![o][n].old = TRUE]
  /\ UNCHANGED <<kv, job, lives, saved, kept, diskTrouble>>

\* A kill loses the command in progress.
OwnersLost ==
  /\ job' = NoJob
  /\ UNCHANGED <<kv, manifests, lives, saved, kept, diskTrouble>>

OwnersInit(owners, work, failures) ==
  /\ kv = <<>>
  /\ manifests = [o \in owners |-> <<>>]
  /\ saved = {} /\ kept = {}
  /\ job = NoJob
  /\ lives \in work
  /\ diskTrouble \in failures

CheckpointCommand ==
  \/ \E w \in DOMAIN lives : CheckpointBegin(w) \/ CheckpointSkipped(w)
  \/ SaveKV \/ RecordOwnedCheckpoint
  \/ MarkOwnedCheckpointTerminal \/ RemoveOwnedCheckpoint

OwnersNext == CheckpointCommand \/ EntryAges \/ OwnersLost

OwnersSpec(owners, work, failures) ==
  OwnersInit(owners, work, failures) /\ [][OwnersNext]_ownerVars

----------------------------------------------------------------------------

\* A snapshot whose save was answered with success is on disk, with the
\* reference that protects it, until its own workload saves again or finishes
\* the restore: no sweep, no other owner's command, no failed save of another
\* workload and no kill takes it away (recordOwnedCheckpoint: "a later
\* operation sharing the raw KV file adds its own durable reference instead of
\* stealing the first one").
ResumableSnapshotKept ==
  \A k \in kept : /\ k.name \in DOMAIN kv
                  /\ kv[k.name] = k.op
                  /\ Claimed(k.owner, k.name)
                  /\ k.op \in Entry(k.owner, k.name).refs

====
