-------------------------- MODULE CommandStateFile --------------------------
(***************************************************************************)
(* The node agent's command state on disk (internal/nodeagent/commands.go): *)
(* the primary file with fences, results and pending intents, the journal   *)
(* that anchors it, the recovery marker, and the quarantined copy of an     *)
(* unreadable primary.                                                      *)
(*                                                                         *)
(*   save                 temp file, "prepared" journal record, rename,     *)
(*                        directory sync, "committed" journal record        *)
(*   load                 marker, primary, journal; finalizes a prepared    *)
(*                        record the primary already carries                *)
(*   quarantineState      marker, rename to .corrupt, sync, marker          *)
(*   recoverCommandState  the administrator's recovery: prepared marker,    *)
(*                        save of a state without pending work, committed   *)
(*                        marker                                            *)
(*                                                                         *)
(* Every file operation is a step of its own, each may fail, and the agent  *)
(* may be killed between any two of them.  A checksum is modelled by the    *)
(* value it covers, and so is a file's identity (size and mtime), because   *)
(* every write of this module carries a new journal sequence.  `history` is *)
(* the chain of recoveries behind the anchor hash: its last member is the   *)
(* recovery generation, its epochs are the used ones.  Warm manifests and   *)
(* the persisted transient block are left out; `pending` stands for both.   *)
(***************************************************************************)
EXTENDS Integers, Sequences, Functions

CONSTANTS Recoveries   \* [gen, epoch] pairs an administrator may configure

ASSUME RecoveriesAreGenerations ==
  \A r \in Recoveries : r.gen \in Nat \ {0}

VARIABLES
  primary,    \* the state file: None, Garbage or a payload
  corrupt,    \* the .corrupt file beside it: None or Garbage
  journal,    \* records [phase, state], or Torn for an unparsable last line
  marker,     \* the .recovery file: None or a marker record
  proc,       \* the agent's memory: commandProcessor
  saving,     \* the file operation in progress
  acked,      \* highest fence a successful save has acknowledged, and when
  damage,     \* what has touched the files from outside: corrupted, rolled back, torn
  trouble     \* failures, kills, damage and saves still allowed

stateVars == <<primary, corrupt, journal, marker, proc, saving, acked, damage,
               trouble>>

None == [file |-> "none"]
Garbage == [file |-> "garbage"]
Torn == [phase |-> "torn"]
NoConfig == [gen |-> 0, epoch |-> "none"]

Generation(history) == IF history = <<>> THEN 0 ELSE history[Len(history)].gen
UsedEpochs(history) == {history[i].epoch : i \in DOMAIN history}

IsPayload(f) == f.file = "payload"

\* blockReasonRank and block: a reason replaces one of a lower rank only.
Rank(reason) == CASE reason \in {"quarantine", "durability"} -> 4
                  [] reason = "corrupt" -> 3
                  [] reason = "transient" -> 1
                  [] reason = "none" -> 0
Block(p, reason) ==
  IF Rank(reason) > Rank(p.block) THEN [p EXCEPT !.block = reason] ELSE p

\* The payload the next save writes, commandStatePayload.
Payload(p) == [file |-> "payload", seq |-> p.seq + 1, prev |-> p.hash,
               history |-> p.history, fence |-> p.fence,
               pending |-> p.pending]

----------------------------------------------------------------------------
(* The journal. *)

\* A record written behind a torn line becomes part of that line.
AppendJournal(records, phase, state) ==
  IF records # <<>> /\ records[Len(records)] = Torn THEN records
  ELSE Append(records, [phase |-> phase, state |-> state])

Committed(records) == {i \in DOMAIN records : records[i].phase = "committed"}
LatestBefore(records, n) ==
  LET c == {i \in Committed(records) : i < n}
  IN  IF c = {} THEN None ELSE records[CHOOSE i \in c : \A j \in c : j <= i].state

\* latestJournalHash; the caller keeps its empty hash when a line is torn.
LatestJournalHash(records) ==
  IF Torn \in Range(records) THEN None
  ELSE LatestBefore(records, Len(records) + 1)

\* The chain validateJournal walks: every record continues the last committed
\* one, and a commit answers the record prepared just before it.
ChainValid(records) ==
  /\ Torn \notin Range(records)
  /\ \A i \in DOMAIN records :
       /\ records[i].state.prev = LatestBefore(records, i)
       /\ records[i].phase = "committed" =>
            /\ i > 1
            /\ records[i - 1] = [phase |-> "prepared", state |-> records[i].state]

\* Mutant: a chain whose last save is complete anchors any primary.
AnchoredByAnyChain(records, state) ==
  /\ records # <<>>
  /\ ChainValid(records)
  /\ records[Len(records)].phase = "committed" \/ records[Len(records)].state = state

Anchored(records, state) ==
  /\ records # <<>>
  /\ ChainValid(records)
  /\ records[Len(records)].state = state

\* The commit load appends when the primary already is the prepared state.
Finalized(records, state) ==
  IF Anchored(records, state) /\ records[Len(records)].phase = "prepared"
  THEN AppendJournal(records, "committed", state) ELSE records

----------------------------------------------------------------------------
(* The recovery marker. *)

\* writeRecoveryMarkerTarget
Marker(p, reason, phase, original, quarantine, target, recovery) ==
  [file |-> "marker", phase |-> phase, reason |-> reason,
   gen |-> recovery.gen, epoch |-> recovery.epoch, anchor |-> p.history,
   target |-> target, fence |-> p.fence, original |-> original,
   quarantine |-> quarantine]

\* writeRecoveryMarker: the generation and epoch are the ones in memory.
Current(p) == IF p.history = <<>> THEN NoConfig ELSE p.history[Len(p.history)]
stateFileChecksum == IF IsPayload(primary) THEN primary ELSE None

\* committedRecoveryStateValid
CommittedRecoveryStateValid(m) ==
  /\ IsPayload(primary)
  /\ Generation(primary.history) >= m.gen
  /\ primary.history = m.anchor
  /\ m.epoch # "none" => m.epoch \in UsedEpochs(primary.history)
  /\ primary.fence >= m.fence

\* The identity test of loadRecoveryMarker.
IdentityOK(m) ==
  \/ /\ m.phase \in {"prepared", "recovery_prepared"}
     /\ primary = m.original
     /\ corrupt = m.quarantine
  \/ /\ m.phase \in {"quarantined", "recovery_committed"}
     /\ corrupt = m.quarantine
     /\ primary \in {None, m.original}
  \/ /\ m.phase = "recovery_prepared"
     /\ m.target # None
     /\ m.target = stateFileChecksum
     /\ corrupt = m.quarantine
  \/ m.phase = "recovery_committed" /\ CommittedRecoveryStateValid(m)

\* loadRecoveryMarker: a committed recovery whose state is in place is an audit
\* record; every other marker blocks until an administrator recovers.
LoadRecoveryMarker(p) ==
  IF marker = None THEN p
  ELSE IF ~IdentityOK(marker) THEN Block(p, "quarantine")
  ELSE LET imported == [p EXCEPT !.marker = marker,
                          !.history = IF marker.phase = "recovery_prepared"
                                      THEN p.history ELSE marker.anchor]
       IN  IF marker.phase = "recovery_committed"
                /\ CommittedRecoveryStateValid(marker)
           THEN imported ELSE Block(imported, marker.reason)

MarkerRefused == marker # None /\ ~IdentityOK(marker)

----------------------------------------------------------------------------
(* Starting: newCommandProcessor. *)

Down == [up |-> FALSE, block |-> "none", init |-> FALSE, fence |-> 0,
         pending |-> FALSE, seq |-> 0, hash |-> None, history |-> <<>>,
         marker |-> None, config |-> NoConfig]

Idle == [at |-> "idle", kind |-> "none", next |-> None]
At(where) == saving.at = where
Goto(where) == saving' = [saving EXCEPT !.at = where]

\* The state the primary and its journal give the processor.
Restored(p, records) ==
  LET anchored == IF Anchored(records, primary) THEN p
                  ELSE Block(p, "durability")
      restored == [anchored EXCEPT
                     !.fence = primary.fence, !.pending = primary.pending,
                     !.seq = primary.seq, !.hash = LatestJournalHash(records),
                     !.history = IF primary.history = <<>> THEN p.history
                                 ELSE primary.history]
  IN  IF primary.pending THEN Block(restored, "transient") ELSE restored

\* blockIfDurableStateEvidence: a missing primary is first boot only when
\* neither a marker nor a journal lies beside it.
Missing(p) == IF p.marker # None \/ journal # <<>>
              THEN Block(p, "durability") ELSE p

\* load: what the agent holds before any recovery.
Loaded(config) ==
  LET p == LoadRecoveryMarker([Down EXCEPT !.up = TRUE, !.config = config])
  IN  CASE MarkerRefused -> p
        [] ~MarkerRefused /\ primary = None -> Missing(p)
        [] ~MarkerRefused /\ primary = Garbage -> p
        [] ~MarkerRefused /\ IsPayload(primary) ->
             Restored(p, Finalized(journal, primary))

Start(config) ==
  /\ ~proc.up
  /\ proc' = Loaded(config)
  /\ saving' = [Idle EXCEPT !.at = IF ~MarkerRefused /\ primary = Garbage
                                   THEN "quarantine" ELSE "finalize"]
  /\ journal' = IF ~MarkerRefused /\ IsPayload(primary)
                THEN Finalized(journal, primary) ELSE journal
  /\ UNCHANGED <<primary, corrupt, marker, acked, damage, trouble>>

Fail == /\ trouble.fails > 0
        /\ trouble' = [trouble EXCEPT !.fails = @ - 1]

\* What a failed append leaves: nothing, the whole record, or a torn line.
TornOrNot(phase, state) ==
  \/ journal' = journal /\ UNCHANGED damage
  \/ journal' = AppendJournal(journal, phase, state) /\ UNCHANGED damage
  \/ journal' = (IF journal # <<>> /\ journal[Len(journal)] = Torn THEN journal
                 ELSE Append(journal, Torn)) /\ damage' = damage \union {"torn"}

\* validateJournal cannot append the commit of the prepared record it found.
StartUnfinalized(config) ==
  /\ ~proc.up
  /\ ~MarkerRefused
  /\ IsPayload(primary)
  /\ Finalized(journal, primary) # journal
  /\ Fail
  /\ TornOrNot("committed", primary)
  /\ proc' = Block(Restored(LoadRecoveryMarker([Down EXCEPT
               !.up = TRUE, !.config = config]), journal'), "durability")
  /\ saving' = [Idle EXCEPT !.at = "finalize"]
  /\ UNCHANGED <<primary, corrupt, marker, acked>>

\* quarantineState: the prepared marker first, so that a kill before the
\* rename is found again; then the rename, its sync and the second marker.
QuarantineMark ==
  /\ At("quarantine")
  /\ \/ /\ marker' = Marker(proc, "corrupt", "prepared", primary, None, None,
                            Current(proc))
        /\ Goto("move")
        /\ UNCHANGED <<proc, trouble>>
     \/ /\ Fail
        /\ proc' = Block(proc, "quarantine")
        /\ Goto("finalize")
        /\ UNCHANGED marker
  /\ UNCHANGED <<primary, corrupt, journal, acked, damage>>

QuarantineMove ==
  /\ At("move")
  /\ \/ /\ primary' = None
        /\ corrupt' = primary
        /\ \/ proc' = Block(proc, "corrupt") /\ UNCHANGED trouble
           \/ Fail /\ proc' = Block(proc, "quarantine")
     \/ /\ Fail
        /\ proc' = Block(proc, "quarantine")
        /\ UNCHANGED <<primary, corrupt>>
  /\ Goto("moved")
  /\ UNCHANGED <<journal, marker, acked, damage>>

\* The second marker names the primary as it was before the rename.
QuarantineDone ==
  /\ At("moved")
  /\ \/ /\ marker' = Marker(proc, proc.block, "quarantined", Garbage, corrupt,
                            stateFileChecksum, Current(proc))
        /\ UNCHANGED <<proc, trouble>>
     \/ /\ Fail
        /\ proc' = Block(proc, "quarantine")
        /\ UNCHANGED marker
  /\ Goto("finalize")
  /\ UNCHANGED <<primary, corrupt, journal, acked, damage>>

\* finalizePreparedRecovery: the primary already is the recovery's target, so
\* only the committed marker is missing.
RecoveryUnconfirmed(m) ==
  /\ m # None
  /\ m.phase = "recovery_prepared"
  /\ m.target # None
  /\ m.target = stateFileChecksum

FinalizePreparedRecovery ==
  LET m == proc.marker
  IN  /\ At("finalize")
      /\ IF ~RecoveryUnconfirmed(m) THEN UNCHANGED <<marker, proc, trouble>>
         ELSE \/ /\ marker' = Marker(proc, m.reason, "recovery_committed",
                                     primary, corrupt, m.target,
                                     [gen |-> m.gen, epoch |-> m.epoch])
                 /\ proc' = IF proc.block \in {m.reason, "durability"}
                            THEN [proc EXCEPT !.block = "none"] ELSE proc
                 /\ UNCHANGED trouble
              \/ /\ Fail
                 /\ proc' = [Block(proc, "durability") EXCEPT !.init = TRUE]
                 /\ UNCHANGED marker
      /\ Goto("recover")
      /\ UNCHANGED <<primary, corrupt, journal, acked, damage>>

----------------------------------------------------------------------------
(* The administrator's recovery: startupRecovery and recoverCommandState. *)

RecoveryRequested ==
  /\ proc.config.gen > Generation(proc.history)
  /\ proc.marker # None

QuarantineLost(p) == /\ p.marker.phase # "recovery_committed"
                     /\ corrupt = None
                     /\ p.block # "durability"

\* The guards of recoverCommandState.
RecoveryRefused(p) ==
  LET m == p.marker
  IN  \/ m.phase = "recovery_committed" /\ m.target # None
           /\ stateFileChecksum # m.target
      \/ m.phase = "recovery_prepared"
           /\ p.config # [gen |-> m.gen, epoch |-> m.epoch]
      \/ p.config.epoch \in UsedEpochs(p.history)
      \/ QuarantineLost(p)

\* What the recovery leaves in memory and saves: completed results and fences
\* are kept, uncertain work is cleared, the epoch is spent.
Rebuilt(p) == [p EXCEPT !.history = Append(@, p.config), !.pending = FALSE,
                        !.block = "none"]

\* newCommandProcessor ends: a configured recovery that found a block without a
\* marker is an initialization error.
Started(p) ==
  IF p.config.gen > 0 /\ p.block # "none" /\ p.marker = None
  THEN [p EXCEPT !.init = TRUE] ELSE p

NoRecovery ==
  /\ At("recover")
  /\ ~RecoveryRequested
  /\ proc' = Started(proc)
  /\ saving' = Idle
  /\ UNCHANGED <<primary, corrupt, journal, marker, acked, damage, trouble>>

RefuseRecovery ==
  /\ At("recover")
  /\ RecoveryRequested
  /\ RecoveryRefused(proc)
  /\ proc' = [Block(proc, IF QuarantineLost(proc) THEN "quarantine"
                          ELSE "durability") EXCEPT
                !.init = @ \/ proc.config.epoch \notin UsedEpochs(proc.history)]
  /\ saving' = Idle
  /\ UNCHANGED <<primary, corrupt, journal, marker, acked, damage, trouble>>

\* The prepared marker binds the checksum of the state about to be saved.
PrepareRecovery ==
  /\ At("recover")
  /\ RecoveryRequested
  /\ ~RecoveryRefused(proc)
  /\ \/ /\ marker' = Marker(proc, "durability", "recovery_prepared", primary,
                            corrupt, Payload(Rebuilt(proc)), proc.config)
        /\ proc' = Rebuilt(proc)
        /\ saving' = [at |-> "prepare", kind |-> "recovery",
                      next |-> Payload(Rebuilt(proc))]
        /\ UNCHANGED trouble
     \/ /\ Fail
        /\ proc' = [Block(proc, "durability") EXCEPT !.init = TRUE]
        /\ saving' = Idle
        /\ UNCHANGED marker
  /\ UNCHANGED <<primary, corrupt, journal, acked, damage>>

CommitRecovery ==
  /\ At("confirm")
  /\ \/ /\ marker' = Marker(proc, "durability", "recovery_committed", primary,
                            corrupt, saving.next, proc.config)
        /\ proc' = [proc EXCEPT !.marker = marker']
        /\ UNCHANGED trouble
     \/ /\ Fail
        /\ proc' = [Block(proc, "durability") EXCEPT !.init = TRUE]
        /\ UNCHANGED marker
  /\ saving' = Idle
  /\ UNCHANGED <<primary, corrupt, journal, acked, damage>>

----------------------------------------------------------------------------
(* save, and the commands that call it. *)

Ready == /\ proc.up
         /\ At("idle")
         /\ ~proc.init
         /\ proc.block = "none"
         /\ ~proc.pending

BeginSave(p) ==
  /\ trouble.saves > 0
  /\ trouble' = [trouble EXCEPT !.saves = @ - 1]
  /\ saving' = [at |-> "prepare", kind |-> "command", next |-> Payload(p)]
  /\ proc' = [p EXCEPT !.seq = @ + 1]
  /\ UNCHANGED <<primary, corrupt, journal, marker, acked, damage>>

\* Handle makes the intent durable before the mutation starts.
AcceptCommand ==
  /\ Ready
  /\ BeginSave([proc EXCEPT !.fence = @ + 1, !.pending = TRUE])

\* Handle records the result; ReconcilePending does the same for an intent a
\* restart found pending, and lifts the transient block.
SettleCommand ==
  /\ proc.up
  /\ At("idle")
  /\ ~proc.init
  /\ proc.pending
  /\ proc.block \in {"none", "transient"}
  /\ BeginSave([proc EXCEPT !.pending = FALSE, !.block = "none"])

\* The temporary file is written and the prepared record is appended.
Prepare ==
  /\ At("prepare")
  /\ journal' = AppendJournal(journal, "prepared", saving.next)
  /\ Goto("rename")
  /\ UNCHANGED <<primary, corrupt, marker, proc, acked, damage, trouble>>

Rename ==
  /\ At("rename")
  /\ primary' = saving.next
  /\ Goto("commit")
  /\ UNCHANGED <<corrupt, journal, marker, proc, acked, damage, trouble>>

\* The directory is synced and the committed record is appended: save returns.
Commit ==
  /\ At("commit")
  /\ journal' = AppendJournal(journal, "committed", saving.next)
  /\ proc' = [proc EXCEPT !.hash = saving.next, !.seq = saving.next.seq]
  /\ IF saving.kind = "command"
     THEN /\ saving' = Idle
          /\ acked' = [fence |-> proc.fence,
                       gen |-> Generation(proc.history)]
     ELSE Goto("confirm") /\ UNCHANGED acked
  /\ UNCHANGED <<primary, corrupt, marker, damage, trouble>>

\* Any step of save may return an error; an append may have left a part.
SaveFails ==
  /\ saving.at \in {"prepare", "rename", "commit"}
  /\ Fail
  /\ \/ At("prepare") /\ TornOrNot("prepared", saving.next)
     \/ At("commit") /\ TornOrNot("committed", saving.next)
     \/ At("rename") /\ UNCHANGED <<journal, damage>>
  /\ Goto("failed")
  /\ UNCHANGED <<primary, corrupt, marker, proc, acked>>

\* The deferred end of a failed save: block, and leave a marker that names the
\* files as they are now; the marker's own failure is ignored.  Inside a
\* recovery the caller reports the error instead.
SaveFailed ==
  /\ At("failed")
  /\ IF saving.kind = "recovery"
     THEN /\ proc' = [Block(proc, "durability") EXCEPT !.init = TRUE]
          /\ UNCHANGED <<marker, trouble>>
     ELSE /\ proc' = Block(proc, "durability")
          /\ \/ /\ marker' = Marker(proc, "durability", "quarantined", primary,
                                    corrupt, stateFileChecksum, Current(proc))
                /\ UNCHANGED trouble
             \/ Fail /\ UNCHANGED marker
  /\ saving' = Idle
  /\ UNCHANGED <<primary, corrupt, journal, acked, damage>>

----------------------------------------------------------------------------
(* What happens to the agent and to its files from outside. *)

Kill ==
  /\ proc.up
  /\ trouble.kills > 0
  /\ trouble' = [trouble EXCEPT !.kills = @ - 1]
  /\ proc' = Down
  /\ saving' = Idle
  /\ UNCHANGED <<primary, corrupt, journal, marker, acked, damage>>

\* The primary becomes unreadable, or an older copy of it is put back.
Damage ==
  /\ ~proc.up
  /\ trouble.damage > 0
  /\ trouble' = [trouble EXCEPT !.damage = @ - 1]
  /\ \/ /\ primary' = Garbage
        /\ damage' = damage \union {"corrupted"}
     \/ /\ primary' \in {journal[i].state : i \in Committed(journal)} \ {primary}
        /\ damage' = damage \union {"rolled back"}
  /\ UNCHANGED <<corrupt, journal, marker, proc, saving, acked>>

StateInit(limits) ==
  /\ primary = None /\ corrupt = None /\ marker = None
  /\ journal = <<>>
  /\ proc = Down
  /\ saving = Idle
  /\ acked = [fence |-> 0, gen |-> 0]
  /\ damage = {}
  /\ trouble \in limits

StateStep ==
  \/ \E config \in trouble.configs \union {NoConfig} :
       Start(config) \/ StartUnfinalized(config)
  \/ QuarantineMark \/ QuarantineMove \/ QuarantineDone
  \/ FinalizePreparedRecovery
  \/ NoRecovery \/ RefuseRecovery \/ PrepareRecovery \/ CommitRecovery
  \/ AcceptCommand \/ SettleCommand
  \/ Prepare \/ Rename \/ Commit \/ SaveFails \/ SaveFailed
  \/ Damage

----------------------------------------------------------------------------

\* A node that accepts commands knows every fence it has acknowledged, through
\* failed saves, kills between any two file operations, a primary put back from
\* an older copy, and recoveries (RecoverCommandState: "Fences, idempotency
\* results, and completed command fingerprints are deliberately retained").
\* Only damage to the primary followed by an administrator's recovery excuses
\* a lower fence.
FenceHighWaterKept ==
  Ready => \/ proc.fence >= acked.fence
           \/ /\ damage \intersect {"corrupted", "rolled back"} # {}
              /\ Generation(proc.history) > acked.gen

====
