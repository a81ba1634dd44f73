---------------------------- MODULE NodeSessions ----------------------------
(***************************************************************************)
(* The controller's side of a node's control channel (internal/api/ws.go    *)
(* and server.go): accepting a WebSocket, the register frame, arbitration   *)
(* between sessions of one node, the node row and the targets a session     *)
(* publishes, capability refreshes, the liveness sweep, the replay journal  *)
(* of checkpoint proofs, Server.Close and a controller restart.             *)
(*                                                                         *)
(* sessionMutationMu is the variable mutex; nodeConnMu, the proof mutex and *)
(* a store transaction cover one step each.  The deferred clean-up of an    *)
(* ending session takes only nodeConnMu, the sweep and the operator take no *)
(* session lock.  A session's number is its generation.  One node, whose    *)
(* checkpoint proofs are for one target; capacity is one field.             *)
(***************************************************************************)
EXTENDS Integers, Sequences

CONSTANTS
  MaxSessions,      \* bound: sessions the node opens in all
  RegisterFrames,   \* the register payloads a node may send
  RefreshFrames     \* the capability refreshes a node may send

ASSUME SessionsAssumption == MaxSessions \in Nat \ {0}

NoFrame == [kind |-> "none"]

\* A checkpoint proof: its number, its fence and its generation.
CheckpointProofs == [kind : {"proof"}, n : Int, fence : Int, gen : Int]

ASSUME FramesAssumption ==
  \A frame \in RegisterFrames \union RefreshFrames :
    /\ DOMAIN frame = {"ready", "max", "reserve", "ceiling", "adapters", "proof"}
    /\ frame.proof = NoFrame \/ frame.proof \in CheckpointProofs

VARIABLES
  sessions,     \* session -> its handler
  registry,     \* nodeConnections of the node, 0 for none
  mutex,        \* holder of sessionMutationMu, 0 for none
  nodeRow,      \* the stored node
  targets,      \* the node's registered targets: adapter -> facts
  managed,      \* session whose GPU performance indices are managed, or 0
  closing,      \* "open", "closing", "waiting", "returned"
  proofs,       \* the replay journal in memory
  proofFile,    \* .proof-nonces.json
  expired,      \* nonces older than the journal's retention
  accepted,     \* history: proofs accepted for the first time, in order
  sweep,        \* the liveness sweep in progress
  linkTrouble   \* bounds: sessions, drops, store failures, restarts, drains, refreshes,
                \* journal expiries and time steps still to come

sessionVars == <<sessions, registry, mutex, nodeRow, targets, managed, closing,
                 proofs, proofFile, expired, accepted, sweep, linkTrouble>>

proofVars == <<proofs, proofFile, expired, accepted>>

Absent == -1
NoTold == [partial |-> TRUE]
Unused == [at |-> "none", open |-> FALSE, frame |-> NoFrame, told |-> NoTold]
Gone == [Unused EXCEPT !.at = "gone"]
NoSweep == [at |-> "none"]
EmptyJournal == [nonces |-> {}, high |-> 0, fence |-> 0, gen |-> 0]
NoRow == [exists |-> FALSE, ready |-> FALSE, max |-> 0, reserve |-> 0,
          drained |-> FALSE, link |-> "lost", age |-> 0]

Tracked(s) == sessions[s].at \notin {"none", "gone"}
InStep(s, label) == sessions[s].at = label
MutexFree == mutex = 0

LinkFails(kind) ==
  /\ linkTrouble[kind] > 0
  /\ linkTrouble' = [linkTrouble EXCEPT ![kind] = @ - 1]

----------------------------------------------------------------------------
(* Checkpoint proofs: validateCheckpointAdvertisementProofSession. *)

\* Mutant: compaction forgets the high-water marks of the nonces it drops.
CompactedWithHighWater(journal) ==
  IF journal.nonces \subseteq expired THEN EmptyJournal
  ELSE [journal EXCEPT !.nonces = @ \ expired]

\* compactCheckpointProofJournalLocked
Compacted(journal) == [journal EXCEPT !.nonces = @ \ expired]

\* loadCheckpointProofNonces: what a starting controller knows.
LoadedJournal == Compacted(proofFile)

Known(p) == p.n \in Compacted(proofs.journal).nonces

Fresh(p) == /\ ~Known(p)
            /\ proofs.journal.high < p.n
            /\ proofs.journal.fence <= p.fence
            /\ proofs.journal.gen <= p.gen

Repeated(p, s) == /\ Known(p)
                  /\ <<s, p.n>> \in proofs.sessions

Consumed(p) ==
  LET old == Compacted(proofs.journal)
  IN  [nonces |-> old.nonces \union {p.n}, high |-> p.n,
       fence |-> p.fence, gen |-> p.gen]

\* The answer for session s, `ok`, and the journal after it.  A write that
\* fails rolls the memory back whether or not the new file is in place.
ValidateProof(p, s, ok) ==
  \/ /\ ok = TRUE
     /\ \/ /\ Repeated(p, s)
           /\ UNCHANGED <<proofs, proofFile, accepted, linkTrouble>>
        \/ /\ Fresh(p)
           /\ proofs' = [journal |-> Consumed(p),
                         sessions |-> proofs.sessions \union {<<s, p.n>>}]
           /\ proofFile' = Consumed(p)
           /\ accepted' = Append(accepted, p)
           /\ UNCHANGED linkTrouble
  \/ /\ ok = FALSE
     /\ \/ /\ ~Fresh(p) /\ ~Repeated(p, s)
           /\ UNCHANGED <<proofs, proofFile, accepted, linkTrouble>>
        \/ /\ Fresh(p)
           /\ LinkFails("fails")
           /\ proofFile' \in {proofFile, Consumed(p)}
           /\ proofs' = [proofs EXCEPT !.sessions = @ \union {<<s, p.n>>}]
           /\ UNCHANGED accepted

\* The frame with its proof kept or revoked.
Judged(frame, ok) == IF ok THEN frame ELSE [frame EXCEPT !.proof = NoFrame]

JudgeFrame(frame, s, ok) ==
  /\ IF frame.proof = NoFrame
     THEN ok = TRUE /\ UNCHANGED <<proofs, proofFile, accepted, linkTrouble>>
     ELSE ValidateProof(frame.proof, s, ok)
  /\ UNCHANGED expired

RetentionPasses ==
  /\ proofs.journal.nonces \ expired # {}
  /\ LinkFails("expiries")
  /\ expired' = expired \union proofs.journal.nonces
  /\ UNCHANGED <<sessions, registry, mutex, nodeRow, targets, managed, closing,
                 proofs, proofFile, accepted, sweep>>

----------------------------------------------------------------------------
(* Capability contracts. *)

\* normalizeAdapterCapabilitiesWithSource: an adapter's ceiling, the node's
\* when it sends none.
AdapterCeiling(frame, ceiling) ==
  IF frame.ceiling \in {0, Absent} THEN ceiling ELSE frame.ceiling

\* buildAdapterPlans refuses an adapter above the node's ceiling.
Plannable(frame, ceiling) == AdapterCeiling(frame, ceiling) <= ceiling

Planned(frame, ceiling) ==
  [a \in frame.adapters |-> [max |-> AdapterCeiling(frame, ceiling),
                             proof |-> frame.proof]]

\* The ceiling of a frame: an explicit zero is one accelerator.
SentCeiling(frame) == IF frame.max = 0 THEN 1 ELSE frame.max

\* buildRegistrationPlan with validateNodeCapabilityEnvelope.
Registrable(frame) == /\ frame.max >= 0
                      /\ Plannable(frame, SentCeiling(frame))

\* mergeNodeCapacityBudget: a field the refresh does not send is kept.
MergedCapacity(stored, frame) ==
  IF frame.reserve = Absent THEN stored ELSE frame.reserve

\* mergeNodeCapabilityRefresh
Merged(row, frame) ==
  [row EXCEPT !.max = IF frame.max = Absent THEN @ ELSE SentCeiling(frame),
              !.reserve = MergedCapacity(@, frame)]

\* applyAdapterPlans: register every planned target, then ReconcileNodeTargets
\* retires the others.  A failing capacity write stops it in between.
Applied(plan) == targets' = plan

AppliedInPart(plan) ==
  /\ LinkFails("fails")
  /\ \E some \in SUBSET DOMAIN plan :
       /\ some # {}
       /\ targets' = [a \in DOMAIN targets \union some |->
                        IF a \in some THEN plan[a] ELSE targets[a]]

----------------------------------------------------------------------------
(* handleNodeWS *)

\* The handler returns before its deferred clean-up was installed.
Return(s) == sessions' = [sessions EXCEPT ![s] = Gone]

\* trackNodeConnection: a closing server takes no session.
AcceptSession(s) ==
  /\ InStep(s, "none")
  /\ \A t \in DOMAIN sessions : t < s => ~InStep(t, "none")
  /\ s <= linkTrouble.sessions
  /\ closing = "open"
  /\ sessions' = [sessions EXCEPT ![s].at = "registering", ![s].open = TRUE]
  /\ UNCHANGED <<registry, mutex, nodeRow, targets, managed, closing,
                 proofVars, sweep, linkTrouble>>

\* The register frame, its plan and its proof.
ReadRegister(s, frame) ==
  /\ InStep(s, "registering") /\ sessions[s].open
  /\ IF Registrable(frame)
     THEN \E ok \in BOOLEAN :
            /\ JudgeFrame(frame, s, ok)
            /\ sessions' = [sessions EXCEPT ![s].at = "proved",
                                            ![s].frame = Judged(frame, ok)]
     ELSE Return(s) /\ UNCHANGED <<proofVars, linkTrouble>>
  /\ UNCHANGED <<registry, mutex, nodeRow, targets, managed, closing, sweep>>

Superseded(s) == registry > s

\* The newest session wins; the mutation lease is kept through registration.
Arbitrate(s) ==
  /\ InStep(s, "proved")
  /\ MutexFree
  /\ IF closing # "open" \/ Superseded(s)
     THEN Return(s) /\ UNCHANGED <<registry, mutex>>
     ELSE /\ registry' = s
          /\ mutex' = s
          /\ sessions' = [sessions EXCEPT
               ![s] = [at |-> "arbitrated", open |-> @.open, frame |-> @.frame,
                       told |-> @.told, old |-> registry, read |-> nodeRow]]
  /\ UNCHANGED <<nodeRow, targets, managed, closing, proofVars, sweep,
                 linkTrouble>>

\* registerNodeWithPlan: observed facts are new, operator intent is the one
\* read; then the managed indices, and the old session is closed.  A failing
\* store leaves no session registered.
RegisterNode(s) ==
  LET frame == sessions[s].frame
      old == sessions[s].old
  IN  /\ InStep(s, "arbitrated")
      /\ mutex' = 0
      /\ \/ /\ nodeRow' = [exists |-> TRUE, ready |-> frame.ready,
                           max |-> SentCeiling(frame), reserve |-> frame.reserve,
                           drained |-> sessions[s].read.drained,
                           link |-> "connected", age |-> 0]
            /\ managed' = s
            /\ sessions' = [t \in DOMAIN sessions |->
                 IF t = s THEN [sessions[s] EXCEPT !.at = "registered"]
                 ELSE IF t = old THEN [sessions[t] EXCEPT !.open = FALSE]
                 ELSE sessions[t]]
            /\ UNCHANGED <<registry, linkTrouble>>
         \/ /\ LinkFails("fails")
            /\ registry' = IF registry = s THEN 0 ELSE registry
            /\ Return(s)
            /\ UNCHANGED <<nodeRow, managed>>
      /\ UNCHANGED <<targets, closing, proofVars, sweep>>

\* Mutant: the targets are applied without asking who is current.
CurrentAlways(s) == closing = "open"

\* withCurrentNodeSession
CurrentSession(s) == closing = "open" /\ registry = s

\* applyRegistrationTargets; a failure closes the session before its clean-up
\* is installed.
ApplyTargets(s) ==
  LET frame == sessions[s].frame
      plan == Planned(frame, SentCeiling(frame))
      told == [partial |-> FALSE, max |-> SentCeiling(frame),
               reserve |-> frame.reserve, targets |-> plan]
  IN  /\ InStep(s, "registered")
      /\ MutexFree
      /\ \/ /\ CurrentSession(s)
            /\ Applied(plan)
            /\ sessions' = [sessions EXCEPT ![s] =
                 [at |-> "serving", open |-> @.open, frame |-> NoFrame,
                  told |-> told]]
            /\ UNCHANGED linkTrouble
         \/ CurrentSession(s) /\ AppliedInPart(plan) /\ Return(s)
         \/ ~CurrentSession(s) /\ Return(s) /\ UNCHANGED <<targets, linkTrouble>>
      /\ UNCHANGED <<registry, mutex, nodeRow, managed, closing, proofVars,
                     sweep>>

\* The deferred clean-up of a serving session.
ClearRegistry(s) ==
  IF registry = s THEN registry' = 0 /\ managed' = 0
  ELSE UNCHANGED <<registry, managed>>

Leave(s) == Return(s) /\ ClearRegistry(s)

\* A read or an acknowledgement fails on a closed connection.
SessionEnds(s) ==
  /\ ~sessions[s].open
  /\ \/ InStep(s, "registering") /\ Return(s) /\ UNCHANGED <<registry, managed>>
     \/ InStep(s, "serving") /\ Leave(s)
  /\ UNCHANGED <<mutex, nodeRow, targets, closing, proofVars, sweep,
                 linkTrouble>>

\* handleHeartbeat, or the end of a session that is no longer current.
Heartbeat(s, ready) ==
  /\ InStep(s, "serving") /\ sessions[s].open
  /\ MutexFree
  /\ \/ /\ CurrentSession(s)
        /\ nodeRow' = [nodeRow EXCEPT !.ready = ready, !.link = "connected",
                                      !.age = 0]
        /\ UNCHANGED <<sessions, registry, managed, linkTrouble>>
     \/ /\ CurrentSession(s)
        /\ LinkFails("fails")
        /\ Leave(s)
        /\ UNCHANGED nodeRow
     \/ ~CurrentSession(s) /\ Leave(s) /\ UNCHANGED <<nodeRow, linkTrouble>>
  /\ UNCHANGED <<mutex, targets, closing, proofVars, sweep>>

\* A capability refresh: the proof outside the session lock ...
RefreshProof(s, frame) ==
  /\ InStep(s, "serving") /\ sessions[s].open
  /\ registry = s
  /\ linkTrouble.refreshes > 0
  /\ \E ok \in BOOLEAN :
       /\ JudgeFrame(frame, s, ok)
       /\ sessions' = [sessions EXCEPT ![s].at = "refreshing",
                                       ![s].frame = Judged(frame, ok)]
  /\ UNCHANGED <<registry, mutex, nodeRow, targets, managed, closing, sweep>>

\* ... then the stored node is read under it ...
RefreshRead(s) ==
  /\ InStep(s, "refreshing")
  /\ MutexFree
  /\ IF CurrentSession(s)
     THEN /\ mutex' = s
          /\ sessions' = [sessions EXCEPT ![s] =
               [at |-> "merging", open |-> @.open, frame |-> @.frame,
                told |-> @.told, read |-> nodeRow]]
          /\ UNCHANGED <<registry, managed>>
     ELSE Leave(s) /\ UNCHANGED mutex
  /\ UNCHANGED <<nodeRow, targets, closing, proofVars, sweep, linkTrouble>>

\* What the session has told the controller once the refresh is applied.
Told(told, frame, ceiling) ==
  [partial |-> FALSE, max |-> ceiling,
   reserve |-> IF frame.reserve = Absent THEN told.reserve ELSE frame.reserve,
   targets |-> Planned(frame, ceiling)]

\* ... merged, stored and projected on the targets.
RefreshApply(s) ==
  LET frame == sessions[s].frame
      told == sessions[s].told
      row == Merged(sessions[s].read, frame)
      ceiling == IF frame.max = Absent THEN told.max
                 ELSE SentCeiling(frame)
      Serving(t) == sessions' = [sessions EXCEPT ![s] =
                      [at |-> "serving", open |-> @.open, frame |-> NoFrame,
                       told |-> t]]
  IN  /\ InStep(s, "merging")
      /\ mutex' = 0
      /\ \/ /\ Plannable(frame, row.max)
            /\ nodeRow' = [row EXCEPT !.age = nodeRow.age]
            /\ Applied(Planned(frame, row.max))
            /\ Serving(Told(told, frame, ceiling))
            /\ linkTrouble' = [linkTrouble EXCEPT !.refreshes = @ - 1]
         \/ /\ Plannable(frame, row.max)
            /\ nodeRow' = [row EXCEPT !.age = nodeRow.age]
            /\ AppliedInPart(Planned(frame, row.max))
            /\ Serving([Told(told, frame, ceiling) EXCEPT !.partial = TRUE])
         \/ /\ Plannable(frame, row.max)
            /\ LinkFails("fails")
            /\ Serving(told)
            /\ UNCHANGED <<nodeRow, targets>>
         \/ /\ ~Plannable(frame, row.max)
            /\ Serving(told)
            /\ linkTrouble' = [linkTrouble EXCEPT !.refreshes = @ - 1]
            /\ UNCHANGED <<nodeRow, targets>>
      /\ UNCHANGED <<registry, managed, closing, proofVars, sweep>>

----------------------------------------------------------------------------
(* The sweep, the operator, the network and the controller's life. *)

\* Mutant: a node with a connection is never lost.
SilenceWithTransport(age, connected) ==
  CASE age >= 2 /\ ~connected -> "lost"
    [] age >= 1 -> "suspect"
    [] OTHER -> "connected"

\* sweepLiveness: age counts suspectAfter, lostAfter and hardLostAfter.
Silence(age, connected) ==
  CASE age >= 2 /\ (~connected \/ age >= 3) -> "lost"
    [] age >= 1 -> "suspect"
    [] OTHER -> "connected"

SweepRead ==
  /\ sweep = NoSweep
  /\ nodeRow.exists
  /\ Silence(nodeRow.age, registry # 0) # nodeRow.link
  /\ sweep' = [at |-> "write", want |-> Silence(nodeRow.age, registry # 0)]
  /\ UNCHANGED <<sessions, registry, mutex, nodeRow, targets, managed, closing,
                 proofVars, linkTrouble>>

SweepWrite ==
  /\ sweep # NoSweep
  /\ nodeRow' = [nodeRow EXCEPT !.link = sweep.want,
                                !.ready = @ /\ sweep.want # "lost"]
  /\ sweep' = NoSweep
  /\ UNCHANGED <<sessions, registry, mutex, targets, managed, closing,
                 proofVars, linkTrouble>>

TimePasses ==
  /\ nodeRow.exists /\ nodeRow.age < 3
  /\ LinkFails("ticks")
  /\ nodeRow' = [nodeRow EXCEPT !.age = @ + 1]
  /\ UNCHANGED <<sessions, registry, mutex, targets, managed, closing,
                 proofVars, sweep>>

\* UpdateDesired from the admin API.
OperatorDrains ==
  /\ nodeRow.exists /\ ~nodeRow.drained
  /\ LinkFails("drains")
  /\ nodeRow' = [nodeRow EXCEPT !.drained = TRUE]
  /\ UNCHANGED <<sessions, registry, mutex, targets, managed, closing,
                 proofVars, sweep>>

ConnectionDrops(s) ==
  /\ Tracked(s) /\ sessions[s].open
  /\ LinkFails("drops")
  /\ sessions' = [sessions EXCEPT ![s].open = FALSE]
  /\ UNCHANGED <<registry, mutex, nodeRow, targets, managed, closing,
                 proofVars, sweep>>

\* Server.Close: no more sessions, the registry emptied and every tracked
\* connection closed under the session lock, then the wait for the handlers.
CloseBegin ==
  /\ closing = "open"
  /\ LinkFails("restarts")
  /\ closing' = "closing"
  /\ UNCHANGED <<sessions, registry, mutex, nodeRow, targets, managed,
                 proofVars, sweep>>

CloseConnections ==
  /\ closing = "closing"
  /\ MutexFree
  /\ registry' = 0
  /\ sessions' = [s \in DOMAIN sessions |-> [sessions[s] EXCEPT !.open = FALSE]]
  /\ closing' = "waiting"
  /\ UNCHANGED <<mutex, nodeRow, targets, managed, proofVars, sweep,
                 linkTrouble>>

CloseReturns ==
  /\ closing = "waiting"
  /\ \A s \in DOMAIN sessions : ~Tracked(s)
  /\ closing' = "returned"
  /\ UNCHANGED <<sessions, registry, mutex, nodeRow, targets, managed,
                 proofVars, sweep, linkTrouble>>

\* NewServer after Close, or after the process was killed: nothing of the
\* memory survives, the journal is read back.
StartServer ==
  /\ closing' = "open"
  /\ sessions' = [s \in DOMAIN sessions |->
                    IF InStep(s, "none") THEN Unused ELSE Gone]
  /\ registry' = 0 /\ mutex' = 0 /\ managed' = 0
  /\ targets' = <<>>
  /\ sweep' = NoSweep
  /\ proofs' = [journal |-> LoadedJournal, sessions |-> {}]
  /\ UNCHANGED <<nodeRow, proofFile, expired, accepted>>

ControllerRestarts ==
  \/ closing = "returned" /\ StartServer /\ UNCHANGED linkTrouble
  \/ closing # "returned" /\ LinkFails("restarts") /\ StartServer

\* The agent's process is gone, and its connections with it.
ConnectionsLost ==
  /\ sessions' = [s \in DOMAIN sessions |-> [sessions[s] EXCEPT !.open = FALSE]]
  /\ UNCHANGED <<registry, mutex, nodeRow, targets, managed, closing,
                 proofVars, sweep, linkTrouble>>

SessionsInit(limits) ==
  /\ sessions = [s \in 1..MaxSessions |-> Unused]
  /\ registry = 0 /\ mutex = 0 /\ managed = 0
  /\ nodeRow = NoRow
  /\ targets = <<>>
  /\ closing = "open"
  /\ proofs = [journal |-> EmptyJournal, sessions |-> {}]
  /\ proofFile = EmptyJournal
  /\ expired = {} /\ accepted = <<>>
  /\ sweep = NoSweep
  /\ linkTrouble \in limits

Sweeps == SweepRead \/ SweepWrite

SessionHandler(s) ==
  \/ Arbitrate(s) \/ RegisterNode(s) \/ ApplyTargets(s)
  \/ SessionEnds(s) \/ RefreshRead(s) \/ RefreshApply(s)

\* Bound: whether the node's frames carry checkpoint proofs.
Sendable(frame) == linkTrouble.proofs = (frame.proof # NoFrame)

\* What the node sends.  `ready` is what the agent reports of itself.
NodeSends(s, ready) ==
  \/ \E frame \in RegisterFrames :
       /\ Sendable(frame)
       /\ ReadRegister(s, [frame EXCEPT !.ready = ready])
  \/ Heartbeat(s, ready)
  \/ \E frame \in RefreshFrames : Sendable(frame) /\ RefreshProof(s, frame)

ControllerStep ==
  \/ \E s \in DOMAIN sessions : SessionHandler(s) \/ ConnectionDrops(s)
  \/ Sweeps \/ TimePasses \/ OperatorDrains \/ RetentionPasses
  \/ CloseBegin \/ CloseConnections \/ CloseReturns \/ ControllerRestarts

\* The channel alone: the node may report itself ready or not at any time.
ChannelNext ==
  \/ \E s \in DOMAIN sessions : \/ AcceptSession(s)
                               \/ \E ready \in BOOLEAN : NodeSends(s, ready)
  \/ ControllerStep
  \/ ConnectionsLost

ChannelSpec(limits) == SessionsInit(limits) /\ [][ChannelNext]_sessionVars

----------------------------------------------------------------------------

\* Checkpoint proofs are accepted in the order the node issued them, each
\* once, with fences and generations that never go back: over reconnects,
\* failed journal writes, the journal's retention and controller restarts
\* (validateCheckpointAdvertisementProofSession, loadCheckpointProofNonces).
ProofsInOrder ==
  \A i, j \in DOMAIN accepted : i < j =>
    /\ accepted[i].n < accepted[j].n
    /\ accepted[i].fence <= accepted[j].fence
    /\ accepted[i].gen <= accepted[j].gen

\* While a session serves and is the registered one, the node row, the targets
\* and the managed indices are what this session has told, field by field: no
\* superseded, late or failed session, and no clean-up of one, leaves its own
\* facts there ("so a delayed lower-generation handler cannot publish
\* node/target state after a newer session is arbitrated", handleNodeWS).
CurrentFactsPublished ==
  \A s \in DOMAIN sessions :
    LET told == sessions[s].told
    IN  registry = s /\ sessions[s].at \in {"serving", "refreshing"}
          /\ ~told.partial
        => /\ nodeRow.max = told.max
           /\ nodeRow.reserve = told.reserve
           /\ targets = told.targets
           /\ managed = s

\* A node that stays silent is shown lost, also when a connection of it is
\* still, or wrongly, registered (sweepLiveness, hardLostAfter).
SilentNodeLost ==
  nodeRow.age = 3 ~> nodeRow.link = "lost" \/ nodeRow.age # 3
====
