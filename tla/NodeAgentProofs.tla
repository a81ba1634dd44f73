-------------------------- MODULE NodeAgentProofs --------------------------
(***************************************************************************)
(* What holds of a node agent's warm models and of its control channel in   *)
(* every instance of WarmRam and NodeSessions: any models, sessions and     *)
(* frames, any number of failing calls, kills, drops and restarts.          *)
(***************************************************************************)
EXTENDS NodeSessions, WarmRam, TLAPS

----------------------------------------------------------------------------
(* Checkpoint proofs: the marks of the journal, in memory and on disk, are  *)
(* never below a proof that was accepted.                                   *)

Journals == [nonces : SUBSET Int, high : Int, fence : Int, gen : Int]

Covers(marks, p) ==
  p.n <= marks.high /\ p.fence <= marks.fence /\ p.gen <= marks.gen

ProofTypes ==
  /\ proofs \in [journal : Journals, sessions : SUBSET (Nat \X Int)]
  /\ proofFile \in Journals
  /\ accepted \in Seq(CheckpointProofs)

MarksKept ==
  \A i \in DOMAIN accepted :
    Covers(proofs.journal, accepted[i]) /\ Covers(proofFile, accepted[i])

ProofInv == ProofTypes /\ MarksKept /\ ProofsInOrder

LEMMA CompactedKeepsMarks ==
  ASSUME NEW marks \in Journals
  PROVE  /\ Compacted(marks) \in Journals
         /\ Compacted(marks).high = marks.high
         /\ Compacted(marks).fence = marks.fence
         /\ Compacted(marks).gen = marks.gen
BY DEF Compacted, Journals

LEMMA ProofsUnchanged ==
  ASSUME ProofInv, UNCHANGED <<proofs, proofFile, accepted>>
  PROVE  ProofInv'
BY DEF ProofInv, ProofTypes, MarksKept, ProofsInOrder, Covers

\* A fresh proof is at or above every mark, so the journal that consumes it
\* covers what was accepted before.
LEMMA ConsumedCovers ==
  ASSUME ProofInv, NEW p \in CheckpointProofs, Fresh(p)
  PROVE  /\ Consumed(p) \in Journals
         /\ Covers(Consumed(p), p)
         /\ \A i \in DOMAIN accepted :
              /\ Covers(Consumed(p), accepted[i])
              /\ accepted[i].n < p.n
              /\ accepted[i].fence <= p.fence
              /\ accepted[i].gen <= p.gen
<1>1. proofs.journal \in Journals /\ Compacted(proofs.journal).nonces \in SUBSET Int
  BY CompactedKeepsMarks DEF ProofInv, ProofTypes, Journals
<1>2. /\ Consumed(p) \in Journals
      /\ Consumed(p).high = p.n /\ Consumed(p).fence = p.fence /\ Consumed(p).gen = p.gen
  BY <1>1 DEF Consumed, Journals, CheckpointProofs
<1>3. ASSUME NEW i \in DOMAIN accepted
      PROVE  /\ accepted[i].n < p.n
             /\ accepted[i].fence <= p.fence
             /\ accepted[i].gen <= p.gen
  <2>1. accepted[i] \in CheckpointProofs
    BY DEF ProofInv, ProofTypes
  <2>2. Covers(proofs.journal, accepted[i])
    BY DEF ProofInv, MarksKept
  <2> QED BY <1>1, <2>1, <2>2 DEF Covers, Fresh, Journals, CheckpointProofs
<1>4. ASSUME NEW i \in DOMAIN accepted
      PROVE  Covers(Consumed(p), accepted[i])
  <2>1. accepted[i] \in CheckpointProofs
    BY DEF ProofInv, ProofTypes
  <2> QED BY <1>2, <1>3, <2>1 DEF Covers, CheckpointProofs
<1> QED BY <1>2, <1>3, <1>4 DEF Covers, CheckpointProofs

LEMMA ValidateProofKeeps ==
  ASSUME ProofInv, NEW p \in CheckpointProofs, NEW s \in Nat, NEW ok,
         ValidateProof(p, s, ok)
  PROVE  ProofInv'
<1>1. CASE UNCHANGED <<proofs, proofFile, accepted>>
  BY <1>1, ProofsUnchanged
<1>2. CASE /\ Fresh(p)
           /\ proofs' = [journal |-> Consumed(p),
                         sessions |-> proofs.sessions \union {<<s, p.n>>}]
           /\ proofFile' = Consumed(p)
           /\ accepted' = Append(accepted, p)
  <2>1. /\ Consumed(p) \in Journals
        /\ Covers(Consumed(p), p)
        /\ \A i \in DOMAIN accepted :
             /\ Covers(Consumed(p), accepted[i])
             /\ accepted[i].n < p.n
             /\ accepted[i].fence <= p.fence
             /\ accepted[i].gen <= p.gen
    BY <1>2, ConsumedCovers
  <2>2. accepted \in Seq(CheckpointProofs)
    BY DEF ProofInv, ProofTypes
  <2>3. /\ accepted' \in Seq(CheckpointProofs)
        /\ DOMAIN accepted' = 1..(Len(accepted) + 1)
        /\ \A i \in DOMAIN accepted : accepted'[i] = accepted[i]
        /\ accepted'[Len(accepted) + 1] = p
    BY <1>2, <2>2
  <2>4. DOMAIN accepted = 1..Len(accepted) /\ Len(accepted) \in Nat
    BY <2>2
  <2>5. ProofTypes'
    BY <1>2, <2>1, <2>3 DEF ProofInv, ProofTypes, CheckpointProofs
  <2>6. MarksKept'
    BY <1>2, <2>1, <2>3, <2>4 DEF MarksKept
  <2>7. ProofsInOrder'
    <3> SUFFICES ASSUME NEW i \in DOMAIN accepted', NEW j \in DOMAIN accepted', i < j
                 PROVE  /\ accepted'[i].n < accepted'[j].n
                        /\ accepted'[i].fence <= accepted'[j].fence
                        /\ accepted'[i].gen <= accepted'[j].gen
      BY DEF ProofsInOrder
    <3>1. i \in DOMAIN accepted
      BY <2>3, <2>4
    <3>2. CASE j \in DOMAIN accepted
      BY <2>3, <3>1, <3>2 DEF ProofInv, ProofsInOrder
    <3>3. CASE j = Len(accepted) + 1
      BY <2>1, <2>3, <3>1, <3>3
    <3> QED BY <2>3, <2>4, <3>2, <3>3
  <2> QED BY <2>5, <2>6, <2>7 DEF ProofInv
<1>3. CASE /\ Fresh(p)
           /\ proofFile' \in {proofFile, Consumed(p)}
           /\ proofs' = [proofs EXCEPT !.sessions = @ \union {<<s, p.n>>}]
           /\ accepted' = accepted
  <2>1. /\ Consumed(p) \in Journals
        /\ \A i \in DOMAIN accepted : Covers(Consumed(p), accepted[i])
    BY <1>3, ConsumedCovers
  <2>2. proofs'.journal = proofs.journal
    BY <1>3 DEF ProofInv, ProofTypes
  <2>3. ProofTypes'
    BY <1>3, <2>1 DEF ProofInv, ProofTypes, CheckpointProofs
  <2>4. MarksKept'
    BY <1>3, <2>1, <2>2 DEF ProofInv, MarksKept
  <2>5. ProofsInOrder'
    BY <1>3 DEF ProofInv, ProofsInOrder
  <2> QED BY <2>3, <2>4, <2>5 DEF ProofInv
<1> QED BY <1>1, <1>2, <1>3 DEF ValidateProof

LEMMA JudgeFrameKeeps ==
  ASSUME ProofInv, NEW frame, NEW s \in Nat, NEW ok,
         frame.proof = NoFrame \/ frame.proof \in CheckpointProofs,
         JudgeFrame(frame, s, ok)
  PROVE  ProofInv'
<1>1. CASE frame.proof = NoFrame
  BY <1>1, ProofsUnchanged DEF JudgeFrame
<1>2. CASE frame.proof # NoFrame
  BY <1>2, ValidateProofKeeps DEF JudgeFrame
<1> QED BY <1>1, <1>2

----------------------------------------------------------------------------
(* Published facts: the mutation lease, who is current, and what the row,   *)
(* the targets and the managed indices say of the current session.          *)

RowFields == {"exists", "ready", "max", "reserve", "drained", "link", "age"}

SessionTypes ==
  /\ sessions = [s \in 1..MaxSessions |-> sessions[s]]
  /\ \A s \in 1..MaxSessions :
       /\ {"at", "open", "frame", "told"} \subseteq DOMAIN sessions[s]
       /\ sessions[s].at \in {"arbitrated", "merging"} =>
            /\ "read" \in DOMAIN sessions[s]
            /\ RowFields \subseteq DOMAIN sessions[s].read
  /\ RowFields \subseteq DOMAIN nodeRow
  /\ mutex \in 0..MaxSessions
  /\ registry \in 0..MaxSessions

\* sessionMutationMu is held by a session between its arbitration and its
\* registration or between the two halves of a refresh, and by nobody else.
MutexHeld ==
  \A s \in 1..MaxSessions :
    sessions[s].at \in {"arbitrated", "merging"} <=> mutex = s

\* The holder is the registered session.
HolderIsCurrent == mutex # 0 => registry = mutex

\* The facts of the current session, stage by stage.
Registering(s) ==
  sessions[s].at = "registered" =>
    /\ nodeRow.max = SentCeiling(sessions[s].frame)
    /\ nodeRow.reserve = sessions[s].frame.reserve
    /\ managed = s

Serving(s) ==
  sessions[s].at \in {"serving", "refreshing", "merging"} =>
    /\ nodeRow.max = sessions[s].told.max
    /\ nodeRow.reserve = sessions[s].told.reserve
    /\ managed = s
    /\ ~sessions[s].told.partial => targets = sessions[s].told.targets

Merging(s) ==
  sessions[s].at = "merging" =>
    /\ sessions[s].read.max = nodeRow.max
    /\ sessions[s].read.reserve = nodeRow.reserve

FactsOf(s) == Registering(s) /\ Serving(s) /\ Merging(s)

CurrentFacts == \A s \in 1..MaxSessions : registry = s => FactsOf(s)

FactsInv == SessionTypes /\ MutexHeld /\ HolderIsCurrent /\ CurrentFacts

Locked == {"arbitrated", "merging"}

\* A session's record is the same, its connection apart.
Alike(s) ==
  \/ sessions'[s] = sessions[s]
  \/ \E open \in BOOLEAN : sessions'[s] = [sessions[s] EXCEPT !.open = open]

SameFacts == /\ nodeRow'.max = nodeRow.max /\ nodeRow'.reserve = nodeRow.reserve
             /\ targets' = targets /\ managed' = managed

LEMMA AlikeKeeps ==
  ASSUME SessionTypes, NEW s \in 1..MaxSessions, Alike(s)
  PROVE  /\ DOMAIN sessions'[s] = DOMAIN sessions[s]
         /\ sessions'[s].at = sessions[s].at
         /\ sessions'[s].frame = sessions[s].frame
         /\ sessions'[s].told = sessions[s].told
         /\ sessions[s].at \in Locked => sessions'[s].read = sessions[s].read
<1>1. /\ {"at", "open", "frame", "told"} \subseteq DOMAIN sessions[s]
      /\ sessions[s].at \in Locked => "read" \in DOMAIN sessions[s]
  BY DEF SessionTypes, Locked
<1>2. CASE sessions'[s] = sessions[s]
  BY <1>2
<1>3. ASSUME NEW open \in BOOLEAN, sessions'[s] = [sessions[s] EXCEPT !.open = open]
      PROVE  /\ DOMAIN sessions'[s] = DOMAIN sessions[s]
             /\ sessions'[s].at = sessions[s].at
             /\ sessions'[s].frame = sessions[s].frame
             /\ sessions'[s].told = sessions[s].told
             /\ sessions[s].at \in Locked => sessions'[s].read = sessions[s].read
  BY <1>1, <1>3
<1> QED BY <1>2, <1>3, Zenon DEF Alike

LEMMA AlikeFacts ==
  ASSUME SessionTypes, NEW s \in 1..MaxSessions, Alike(s), SameFacts, FactsOf(s)
  PROVE  FactsOf(s)'
<1>1. /\ sessions'[s].at = sessions[s].at
      /\ sessions'[s].frame = sessions[s].frame
      /\ sessions'[s].told = sessions[s].told
      /\ sessions[s].at \in Locked => sessions'[s].read = sessions[s].read
  BY AlikeKeeps
<1>2. Registering(s)'
  BY <1>1 DEF FactsOf, Registering, SameFacts, SentCeiling
<1>3. Serving(s)'
  BY <1>1 DEF FactsOf, Serving, SameFacts
<1>4. Merging(s)'
  BY <1>1 DEF FactsOf, Merging, SameFacts, Locked
<1> QED BY <1>2, <1>3, <1>4 DEF FactsOf

\* One session moves to another stage; the other sessions keep theirs.
LEMMA OneMoves ==
  ASSUME FactsInv, NEW s \in 1..MaxSessions,
         sessions' = [t \in 1..MaxSessions |-> sessions'[t]],
         \A t \in 1..MaxSessions \ {s} : Alike(t),
         {"at", "open", "frame", "told"} \subseteq DOMAIN sessions'[s],
         sessions'[s].at \in Locked => /\ "read" \in DOMAIN sessions'[s]
                                       /\ RowFields \subseteq DOMAIN sessions'[s].read
                                       /\ mutex \in {0, s},
         RowFields \subseteq DOMAIN nodeRow',
         mutex' = IF sessions'[s].at \in Locked THEN s
                  ELSE IF mutex = s THEN 0 ELSE mutex,
         registry' \in {registry, 0, s},
         mutex' # 0 => registry' = mutex',
         registry' \notin {0, s} => SameFacts,
         registry' = s => FactsOf(s)'
  PROVE  FactsInv'
<1>1. /\ SessionTypes /\ MutexHeld /\ HolderIsCurrent /\ CurrentFacts
      /\ mutex \in 0..MaxSessions /\ registry \in 0..MaxSessions
      /\ MaxSessions \in Nat /\ s \in Nat /\ s # 0
  BY SessionsAssumption DEF FactsInv, SessionTypes
<1>2. \A t \in 1..MaxSessions \ {s} :
        /\ DOMAIN sessions'[t] = DOMAIN sessions[t]
        /\ sessions'[t].at = sessions[t].at
        /\ sessions[t].at \in Locked => sessions'[t].read = sessions[t].read
  BY <1>1, AlikeKeeps
<1>3. \A t \in 1..MaxSessions :
        /\ {"at", "open", "frame", "told"} \subseteq DOMAIN sessions'[t]
        /\ sessions'[t].at \in Locked =>
             /\ "read" \in DOMAIN sessions'[t]
             /\ RowFields \subseteq DOMAIN sessions'[t].read
  BY <1>1, <1>2 DEF SessionTypes, Locked
<1>4. mutex' \in 0..MaxSessions /\ registry' \in 0..MaxSessions
  BY <1>1
<1>5. SessionTypes'
  BY <1>3, <1>4 DEF SessionTypes, Locked
<1>6. MutexHeld'
  <2> SUFFICES ASSUME NEW t \in 1..MaxSessions
               PROVE  sessions'[t].at \in Locked <=> mutex' = t
    BY DEF MutexHeld, Locked
  <2>1. t \in Nat /\ t # 0
    BY <1>1
  <2>2. sessions[t].at \in Locked <=> mutex = t
    BY <1>1 DEF MutexHeld, Locked
  <2>3. CASE t = s
    BY <1>1, <2>3
  <2>4. CASE t # s
    BY <1>1, <1>2, <2>1, <2>2, <2>4
  <2> QED BY <2>3, <2>4
<1>7. HolderIsCurrent'
  BY DEF HolderIsCurrent
<1>8. CurrentFacts'
  <2> SUFFICES ASSUME NEW t \in 1..MaxSessions, registry' = t, t # s
               PROVE  FactsOf(t)'
    BY DEF CurrentFacts
  <2>1. registry = t /\ SameFacts
    BY <1>1
  <2>2. FactsOf(t)
    BY <1>1, <2>1 DEF CurrentFacts
  <2> QED BY <1>1, <2>1, <2>2, AlikeFacts
<1> QED BY <1>5, <1>6, <1>7, <1>8 DEF FactsInv

\* No session changes its stage.
LEMMA NoneMoves ==
  ASSUME FactsInv,
         sessions' = [t \in 1..MaxSessions |-> sessions'[t]],
         \A t \in 1..MaxSessions : Alike(t),
         RowFields \subseteq DOMAIN nodeRow', SameFacts,
         mutex' = mutex,
         registry' = registry \/ (registry' = 0 /\ mutex = 0)
  PROVE  FactsInv'
<1>1. /\ SessionTypes /\ MutexHeld /\ HolderIsCurrent /\ CurrentFacts
      /\ mutex \in 0..MaxSessions /\ registry \in 0..MaxSessions
      /\ MaxSessions \in Nat
  BY SessionsAssumption DEF FactsInv, SessionTypes
<1>2. \A t \in 1..MaxSessions :
        /\ DOMAIN sessions'[t] = DOMAIN sessions[t]
        /\ sessions'[t].at = sessions[t].at
        /\ sessions[t].at \in Locked => sessions'[t].read = sessions[t].read
  BY <1>1, AlikeKeeps
<1>3. registry' \in 0..MaxSessions
  BY <1>1
<1>4. SessionTypes'
  BY <1>1, <1>2, <1>3 DEF SessionTypes, Locked
<1>5. MutexHeld'
  BY <1>1, <1>2 DEF MutexHeld
<1>6. HolderIsCurrent'
  BY <1>1 DEF HolderIsCurrent
<1>7. CurrentFacts'
  <2> SUFFICES ASSUME NEW t \in 1..MaxSessions, registry' = t
               PROVE  FactsOf(t)'
    BY DEF CurrentFacts
  <2>1. registry = t
    BY <1>1
  <2>2. FactsOf(t)
    BY <1>1, <2>1 DEF CurrentFacts
  <2> QED BY <1>1, <2>2, AlikeFacts
<1> QED BY <1>4, <1>5, <1>6, <1>7 DEF FactsInv

----------------------------------------------------------------------------
(* The handler of a session. *)

LEMMA SessionDomain ==
  ASSUME FactsInv
  PROVE  /\ DOMAIN sessions = 1..MaxSessions
         /\ \A s \in 1..MaxSessions :
              {"at", "open", "frame", "told"} \subseteq DOMAIN sessions[s]
         /\ RowFields \subseteq DOMAIN nodeRow
         /\ \A s \in 1..MaxSessions : sessions[s].at \in Locked => mutex = s
         /\ \A s \in 1..MaxSessions : sessions[s].at \notin Locked => mutex # s
         /\ mutex # 0 => registry = mutex
         /\ MaxSessions \in Nat
BY SessionsAssumption
   DEF FactsInv, SessionTypes, MutexHeld, HolderIsCurrent, Locked

\* Return, with or without the clean-up of the registry.
LEMMA ReturnKeeps ==
  ASSUME FactsInv, NEW s \in 1..MaxSessions, Return(s),
         RowFields \subseteq DOMAIN nodeRow',
         mutex' = IF mutex = s THEN 0 ELSE mutex,
         \/ registry' = registry /\ (registry = s \/ SameFacts)
         \/ registry' = 0 /\ registry = s,
         sessions[s].at \in Locked => registry' # s
  PROVE  FactsInv'
<1>1. /\ sessions' = [t \in 1..MaxSessions |-> sessions'[t]]
      /\ \A t \in 1..MaxSessions \ {s} : Alike(t)
      /\ sessions'[s] = Gone
  BY SessionDomain, Zenon DEF Return, Alike
<1>2. /\ {"at", "open", "frame", "told"} \subseteq DOMAIN sessions'[s]
      /\ sessions'[s].at = "gone"
  BY <1>1 DEF Gone, Unused
<1>3. mutex' # 0 => registry' = mutex'
  BY SessionDomain
<1>4. FactsOf(s)'
  BY <1>2 DEF FactsOf, Registering, Serving, Merging
<1>5. s # 0
  BY SessionDomain
<1> QED BY <1>1, <1>2, <1>3, <1>4, <1>5, OneMoves DEF Locked

LEMMA AcceptSessionFacts ==
  ASSUME FactsInv, NEW s \in 1..MaxSessions, AcceptSession(s)
  PROVE  FactsInv'
<1>1. /\ sessions' = [t \in 1..MaxSessions |-> sessions'[t]]
      /\ \A t \in 1..MaxSessions \ {s} : Alike(t)
      /\ DOMAIN sessions'[s] = DOMAIN sessions[s]
      /\ sessions'[s].at = "registering"
      /\ mutex # s
  BY SessionDomain, Zenon DEF AcceptSession, Alike, InStep, Locked
<1>2. FactsOf(s)'
  BY <1>1 DEF FactsOf, Registering, Serving, Merging
<1>3. UNCHANGED <<registry, mutex, nodeRow, targets, managed>>
  BY DEF AcceptSession
<1> QED BY <1>1, <1>2, <1>3, SessionDomain, OneMoves DEF Locked, SameFacts

LEMMA ReadRegisterFacts ==
  ASSUME FactsInv, NEW s \in 1..MaxSessions, NEW frame, ReadRegister(s, frame)
  PROVE  FactsInv'
<1>1. /\ UNCHANGED <<registry, mutex, nodeRow, targets, managed>>
      /\ sessions[s].at = "registering" /\ mutex # s
  BY SessionDomain DEF ReadRegister, InStep, Locked
<1>2. CASE Return(s)
  BY <1>1, <1>2, SessionDomain, ReturnKeeps DEF SameFacts, Locked
<1>3. ASSUME NEW ok \in BOOLEAN,
             sessions' = [sessions EXCEPT ![s].at = "proved",
                                          ![s].frame = Judged(frame, ok)]
      PROVE  FactsInv'
  <2>1. /\ sessions' = [t \in 1..MaxSessions |-> sessions'[t]]
        /\ \A t \in 1..MaxSessions \ {s} : Alike(t)
        /\ DOMAIN sessions'[s] = DOMAIN sessions[s]
        /\ sessions'[s].at = "proved"
    BY <1>3, SessionDomain, Zenon DEF Alike
  <2>2. FactsOf(s)'
    BY <2>1 DEF FactsOf, Registering, Serving, Merging
  <2> QED BY <1>1, <2>1, <2>2, SessionDomain, OneMoves DEF Locked, SameFacts
<1> QED BY <1>2, <1>3 DEF ReadRegister

LEMMA ArbitrateFacts ==
  ASSUME FactsInv, NEW s \in 1..MaxSessions, Arbitrate(s)
  PROVE  FactsInv'
<1>1. /\ UNCHANGED <<nodeRow, targets, managed>>
      /\ sessions[s].at = "proved" /\ mutex = 0
  BY DEF Arbitrate, InStep, MutexFree
<1>2. CASE Return(s) /\ UNCHANGED <<registry, mutex>>
  BY <1>1, <1>2, SessionDomain, ReturnKeeps DEF SameFacts, Locked
<1>3. CASE /\ registry' = s /\ mutex' = s
           /\ sessions' = [sessions EXCEPT
               ![s] = [at |-> "arbitrated", open |-> @.open, frame |-> @.frame,
                       told |-> @.told, old |-> registry, read |-> nodeRow]]
  <2>1. /\ sessions' = [t \in 1..MaxSessions |-> sessions'[t]]
        /\ \A t \in 1..MaxSessions \ {s} : Alike(t)
        /\ DOMAIN sessions'[s] = {"at", "open", "frame", "told", "old", "read"}
        /\ sessions'[s].at = "arbitrated"
        /\ sessions'[s].read = nodeRow
    BY <1>3, SessionDomain, Zenon DEF Alike
  <2>2. FactsOf(s)'
    BY <2>1 DEF FactsOf, Registering, Serving, Merging
  <2> QED BY <1>1, <1>3, <2>1, <2>2, SessionDomain, OneMoves, Zenon DEF Locked
<1> QED BY <1>2, <1>3 DEF Arbitrate

LEMMA RegisterNodeFacts ==
  ASSUME FactsInv, NEW s \in 1..MaxSessions, RegisterNode(s)
  PROVE  FactsInv'
<1> DEFINE frame == sessions[s].frame
<1>1. /\ UNCHANGED targets
      /\ sessions[s].at = "arbitrated" /\ mutex = s /\ mutex' = 0 /\ registry = s
  BY SessionDomain DEF RegisterNode, InStep, Locked
<1>2. CASE /\ nodeRow' = [exists |-> TRUE, ready |-> frame.ready,
                          max |-> SentCeiling(frame), reserve |-> frame.reserve,
                          drained |-> sessions[s].read.drained,
                          link |-> "connected", age |-> 0]
           /\ managed' = s
           /\ sessions' = [t \in DOMAIN sessions |->
                IF t = s THEN [sessions[s] EXCEPT !.at = "registered"]
                ELSE IF t = sessions[s].old THEN [sessions[t] EXCEPT !.open = FALSE]
                ELSE sessions[t]]
           /\ registry' = registry
  <2>1. /\ sessions' = [t \in 1..MaxSessions |-> sessions'[t]]
        /\ sessions'[s] = [sessions[s] EXCEPT !.at = "registered"]
    BY <1>2, SessionDomain
  <2>2. \A t \in 1..MaxSessions \ {s} : Alike(t)
    BY <1>2, SessionDomain, Zenon DEF Alike
  <2>3. /\ DOMAIN sessions'[s] = DOMAIN sessions[s]
        /\ sessions'[s].at = "registered"
        /\ sessions'[s].frame = frame
    BY <2>1, SessionDomain
  <2>4. /\ RowFields \subseteq DOMAIN nodeRow'
        /\ nodeRow'.max = SentCeiling(frame) /\ nodeRow'.reserve = frame.reserve
    BY <1>2 DEF RowFields
  <2>5. FactsOf(s)'
    BY <1>2, <2>3, <2>4 DEF FactsOf, Registering, Serving, Merging, SentCeiling
  <2> QED BY <1>1, <1>2, <2>1, <2>2, <2>3, <2>4, <2>5, SessionDomain, OneMoves
          DEF Locked
<1>3. CASE /\ registry' = IF registry = s THEN 0 ELSE registry
           /\ Return(s)
           /\ UNCHANGED <<nodeRow, managed>>
  BY <1>1, <1>3, SessionDomain, ReturnKeeps
<1> QED BY <1>2, <1>3 DEF RegisterNode

LEMMA ApplyTargetsFacts ==
  ASSUME FactsInv, NEW s \in 1..MaxSessions, ApplyTargets(s)
  PROVE  FactsInv'
<1> DEFINE frame == sessions[s].frame
           plan == Planned(frame, SentCeiling(frame))
           told == [partial |-> FALSE, max |-> SentCeiling(frame),
                    reserve |-> frame.reserve, targets |-> plan]
<1>1. /\ UNCHANGED <<registry, mutex, nodeRow, managed>>
      /\ sessions[s].at = "registered" /\ mutex = 0
  BY DEF ApplyTargets, InStep, MutexFree
<1>2. CASE registry = s /\ Return(s)
  BY <1>1, <1>2, SessionDomain, ReturnKeeps DEF Locked
<1>3. CASE Return(s) /\ targets' = targets
  BY <1>1, <1>3, SessionDomain, ReturnKeeps DEF Locked, SameFacts
<1>4. CASE /\ registry = s
           /\ targets' = plan
           /\ sessions' = [sessions EXCEPT ![s] =
                [at |-> "serving", open |-> @.open, frame |-> NoFrame,
                 told |-> told]]
  <2>1. /\ sessions' = [t \in 1..MaxSessions |-> sessions'[t]]
        /\ \A t \in 1..MaxSessions \ {s} : Alike(t)
        /\ DOMAIN sessions'[s] = {"at", "open", "frame", "told"}
        /\ sessions'[s].at = "serving"
        /\ sessions'[s].told = told
    BY <1>4, SessionDomain, Zenon DEF Alike
  <2>2. nodeRow.max = SentCeiling(frame) /\ nodeRow.reserve = frame.reserve /\ managed = s
    BY <1>1, <1>4 DEF FactsInv, CurrentFacts, FactsOf, Registering
  <2>3. FactsOf(s)'
    BY <1>1, <1>4, <2>1, <2>2 DEF FactsOf, Registering, Serving, Merging
  <2> QED BY <1>1, <1>4, <2>1, <2>3, SessionDomain, OneMoves, Zenon DEF Locked
<1> QED BY <1>2, <1>3, <1>4 DEF ApplyTargets, CurrentSession, Applied

LEMMA LeaveKeeps ==
  ASSUME FactsInv, NEW s \in 1..MaxSessions, Leave(s), sessions[s].at \notin Locked,
         UNCHANGED <<mutex, nodeRow, targets>>
  PROVE  FactsInv'
<1>1. mutex' = IF mutex = s THEN 0 ELSE mutex
  BY SessionDomain
<1>2. \/ registry' = registry /\ (registry = s \/ SameFacts)
      \/ registry' = 0 /\ registry = s
  BY DEF Leave, ClearRegistry, SameFacts
<1> QED BY <1>1, <1>2, SessionDomain, ReturnKeeps DEF Leave

LEMMA SessionEndsFacts ==
  ASSUME FactsInv, NEW s \in 1..MaxSessions, SessionEnds(s)
  PROVE  FactsInv'
<1>1. UNCHANGED <<mutex, nodeRow, targets>> /\ sessions[s].at \notin Locked
  BY DEF SessionEnds, InStep, Locked
<1>2. CASE Return(s) /\ UNCHANGED <<registry, managed>>
  BY <1>1, <1>2, SessionDomain, ReturnKeeps DEF SameFacts
<1>3. CASE Leave(s)
  BY <1>1, <1>3, LeaveKeeps
<1> QED BY <1>2, <1>3 DEF SessionEnds

LEMMA RowChanges ==
  ASSUME FactsInv, UNCHANGED <<sessions, registry, mutex, targets, managed>>,
         DOMAIN nodeRow' = DOMAIN nodeRow,
         nodeRow'.max = nodeRow.max, nodeRow'.reserve = nodeRow.reserve
  PROVE  FactsInv'
<1>1. /\ sessions' = [t \in 1..MaxSessions |-> sessions'[t]]
      /\ \A t \in 1..MaxSessions : Alike(t)
  BY DEF FactsInv, SessionTypes, Alike
<1> QED BY <1>1, SessionDomain, NoneMoves DEF SameFacts

LEMMA HeartbeatFacts ==
  ASSUME FactsInv, NEW s \in 1..MaxSessions, NEW ready, Heartbeat(s, ready)
  PROVE  FactsInv'
<1>1. UNCHANGED <<mutex, targets>> /\ sessions[s].at \notin Locked
  BY DEF Heartbeat, InStep, Locked
<1>2. CASE /\ nodeRow' = [nodeRow EXCEPT !.ready = ready, !.link = "connected",
                                         !.age = 0]
           /\ UNCHANGED <<sessions, registry, managed>>
  <2>1. /\ DOMAIN nodeRow' = DOMAIN nodeRow
        /\ nodeRow'.max = nodeRow.max /\ nodeRow'.reserve = nodeRow.reserve
    BY <1>2, SessionDomain DEF RowFields
  <2> QED BY <1>1, <1>2, <2>1, RowChanges
<1>3. CASE Leave(s) /\ UNCHANGED nodeRow
  BY <1>1, <1>3, LeaveKeeps
<1> QED BY <1>2, <1>3 DEF Heartbeat

LEMMA RefreshProofFacts ==
  ASSUME FactsInv, NEW s \in 1..MaxSessions, NEW frame, RefreshProof(s, frame)
  PROVE  FactsInv'
<1>1. /\ UNCHANGED <<registry, mutex, nodeRow, targets, managed>>
      /\ sessions[s].at = "serving" /\ registry = s /\ mutex # s
  BY SessionDomain DEF RefreshProof, InStep, Locked
<1>2. PICK ok \in BOOLEAN :
        sessions' = [sessions EXCEPT ![s].at = "refreshing",
                                     ![s].frame = Judged(frame, ok)]
  BY Zenon DEF RefreshProof
<1>3. /\ sessions' = [t \in 1..MaxSessions |-> sessions'[t]]
      /\ \A t \in 1..MaxSessions \ {s} : Alike(t)
      /\ DOMAIN sessions'[s] = DOMAIN sessions[s]
      /\ sessions'[s].at = "refreshing"
      /\ sessions'[s].told = sessions[s].told
  BY <1>2, SessionDomain, Zenon DEF Alike
<1>4. Serving(s)
  BY <1>1 DEF FactsInv, CurrentFacts, FactsOf
<1>5. FactsOf(s)'
  BY <1>1, <1>3, <1>4 DEF FactsOf, Registering, Serving, Merging
<1> QED BY <1>1, <1>3, <1>5, SessionDomain, OneMoves DEF Locked

LEMMA RefreshReadFacts ==
  ASSUME FactsInv, NEW s \in 1..MaxSessions, RefreshRead(s)
  PROVE  FactsInv'
<1>1. /\ UNCHANGED <<nodeRow, targets>>
      /\ sessions[s].at = "refreshing" /\ mutex = 0
  BY DEF RefreshRead, InStep, MutexFree
<1>2. CASE Leave(s) /\ UNCHANGED mutex
  BY <1>1, <1>2, LeaveKeeps DEF Locked
<1>3. CASE /\ registry = s /\ mutex' = s
           /\ sessions' = [sessions EXCEPT ![s] =
                [at |-> "merging", open |-> @.open, frame |-> @.frame,
                 told |-> @.told, read |-> nodeRow]]
           /\ UNCHANGED <<registry, managed>>
  <2>1. /\ sessions' = [t \in 1..MaxSessions |-> sessions'[t]]
        /\ \A t \in 1..MaxSessions \ {s} : Alike(t)
        /\ DOMAIN sessions'[s] = {"at", "open", "frame", "told", "read"}
        /\ sessions'[s].at = "merging"
        /\ sessions'[s].told = sessions[s].told
        /\ sessions'[s].read = nodeRow
    BY <1>3, SessionDomain, Zenon DEF Alike
  <2>2. Serving(s)
    BY <1>3 DEF FactsInv, CurrentFacts, FactsOf
  <2>3. FactsOf(s)'
    BY <1>1, <1>3, <2>1, <2>2 DEF FactsOf, Registering, Serving, Merging
  <2> QED BY <1>1, <1>3, <2>1, <2>3, SessionDomain, OneMoves, Zenon DEF Locked
<1> QED BY <1>2, <1>3 DEF RefreshRead, CurrentSession

\* The end of a refresh: the session serves again and has told t.
LEMMA ServesAgain ==
  ASSUME FactsInv, NEW s \in 1..MaxSessions, NEW t,
         sessions[s].at = "merging", mutex' = 0, UNCHANGED <<registry, managed>>,
         sessions' = [sessions EXCEPT ![s] =
                        [at |-> "serving", open |-> @.open, frame |-> NoFrame,
                         told |-> t]],
         RowFields \subseteq DOMAIN nodeRow',
         nodeRow'.max = t.max, nodeRow'.reserve = t.reserve,
         ~t.partial => targets' = t.targets
  PROVE  FactsInv'
<1>1. mutex = s /\ registry = s
  BY SessionDomain DEF Locked
<1>2. managed = s
  BY <1>1 DEF FactsInv, CurrentFacts, FactsOf, Serving
<1>3. /\ sessions' = [u \in 1..MaxSessions |-> sessions'[u]]
      /\ \A u \in 1..MaxSessions \ {s} : Alike(u)
      /\ DOMAIN sessions'[s] = {"at", "open", "frame", "told"}
      /\ sessions'[s].at = "serving"
      /\ sessions'[s].told = t
  BY SessionDomain, Zenon DEF Alike
<1>4. FactsOf(s)'
  BY <1>2, <1>3 DEF FactsOf, Registering, Serving, Merging
<1> QED BY <1>1, <1>3, <1>4, SessionDomain, OneMoves, Zenon DEF Locked

LEMMA RefreshApplyFacts ==
  ASSUME FactsInv, NEW s \in 1..MaxSessions, RefreshApply(s)
  PROVE  FactsInv'
<1> DEFINE frame == sessions[s].frame
           told == sessions[s].told
           row == Merged(sessions[s].read, frame)
           ceiling == IF frame.max = Absent THEN told.max ELSE SentCeiling(frame)
           new == Told(told, frame, ceiling)
           Again(t) == sessions' = [sessions EXCEPT ![s] =
                         [at |-> "serving", open |-> @.open, frame |-> NoFrame,
                          told |-> t]]
<1>1. /\ sessions[s].at = "merging" /\ mutex' = 0 /\ UNCHANGED <<registry, managed>>
      /\ registry = s
  BY SessionDomain DEF RefreshApply, InStep, Locked
<1>2. FactsOf(s) /\ RowFields \subseteq DOMAIN sessions[s].read
  BY <1>1 DEF FactsInv, CurrentFacts, SessionTypes
<1>3. /\ nodeRow.max = told.max /\ nodeRow.reserve = told.reserve
      /\ ~told.partial => targets = told.targets
      /\ sessions[s].read.max = nodeRow.max /\ sessions[s].read.reserve = nodeRow.reserve
  BY <1>1, <1>2 DEF FactsOf, Serving, Merging
<1>4. /\ row.max = ceiling /\ row.reserve = new.reserve /\ RowFields \subseteq DOMAIN row
      /\ new.max = ceiling /\ new.targets = Planned(frame, ceiling)
  BY <1>2, <1>3 DEF Merged, MergedCapacity, RowFields, Told
<1>4a. DOMAIN new = {"partial", "max", "reserve", "targets"}
  BY DEF Told
<1> HIDE DEF row, new, ceiling
<1>5. ASSUME nodeRow' = [row EXCEPT !.age = nodeRow.age]
      PROVE  /\ RowFields \subseteq DOMAIN nodeRow'
             /\ nodeRow'.max = new.max /\ nodeRow'.reserve = new.reserve
  BY <1>4, <1>5 DEF RowFields
<1>6. CASE /\ nodeRow' = [row EXCEPT !.age = nodeRow.age]
           /\ targets' = Planned(frame, row.max)
           /\ Again(new)
  <2>1. new.targets = targets'
    BY <1>4, <1>6
  <2> QED BY <1>1, <1>5, <1>6, <2>1, ServesAgain, Zenon
<1>7. CASE /\ nodeRow' = [row EXCEPT !.age = nodeRow.age]
           /\ Again([new EXCEPT !.partial = TRUE])
  <2> DEFINE t == [new EXCEPT !.partial = TRUE]
  <2>1. t.max = new.max /\ t.reserve = new.reserve /\ t.partial
    BY <1>4a
  <2> HIDE DEF t
  <2>2. Again(t)
    BY <1>7 DEF t
  <2> QED BY <1>1, <1>5, <1>7, <2>1, <2>2, ServesAgain, Zenon
<1>8. CASE Again(told) /\ UNCHANGED <<nodeRow, targets>>
  BY <1>1, <1>3, <1>8, SessionDomain, ServesAgain, Zenon
<1> QED BY <1>6, <1>7, <1>8, Zenon DEF RefreshApply, Applied, row, new, ceiling

----------------------------------------------------------------------------
(* What happens around the handlers. *)

LEMMA RowStepsFacts ==
  ASSUME FactsInv, SweepWrite \/ TimePasses \/ OperatorDrains
  PROVE  FactsInv'
<1>1. RowFields \subseteq DOMAIN nodeRow
  BY SessionDomain
<1>2. CASE SweepWrite
  <2>1. /\ DOMAIN nodeRow' = DOMAIN nodeRow
        /\ nodeRow'.max = nodeRow.max /\ nodeRow'.reserve = nodeRow.reserve
    BY <1>1, <1>2 DEF SweepWrite, RowFields
  <2> QED BY <1>2, <2>1, RowChanges DEF SweepWrite
<1>3. CASE TimePasses
  <2>1. /\ DOMAIN nodeRow' = DOMAIN nodeRow
        /\ nodeRow'.max = nodeRow.max /\ nodeRow'.reserve = nodeRow.reserve
    BY <1>1, <1>3 DEF TimePasses, RowFields
  <2> QED BY <1>3, <2>1, RowChanges DEF TimePasses
<1>4. CASE OperatorDrains
  <2>1. /\ DOMAIN nodeRow' = DOMAIN nodeRow
        /\ nodeRow'.max = nodeRow.max /\ nodeRow'.reserve = nodeRow.reserve
    BY <1>1, <1>4 DEF OperatorDrains, RowFields
  <2> QED BY <1>4, <2>1, RowChanges DEF OperatorDrains
<1> QED BY <1>2, <1>3, <1>4

LEMMA ConnectionStepsFacts ==
  ASSUME FactsInv,
         \/ \E s \in 1..MaxSessions : ConnectionDrops(s)
         \/ ConnectionsLost \/ CloseConnections
  PROVE  FactsInv'
<1>1. DOMAIN sessions = 1..MaxSessions /\ RowFields \subseteq DOMAIN nodeRow
  BY SessionDomain
<1>2. ASSUME NEW s \in 1..MaxSessions, ConnectionDrops(s)
      PROVE  FactsInv'
  <2>1. /\ sessions' = [t \in 1..MaxSessions |-> sessions'[t]]
        /\ \A t \in 1..MaxSessions : Alike(t)
    BY <1>1, <1>2, Zenon DEF ConnectionDrops, Alike
  <2> QED BY <1>1, <1>2, <2>1, NoneMoves DEF ConnectionDrops, SameFacts
<1>3. CASE ConnectionsLost
  <2>1. /\ sessions' = [t \in 1..MaxSessions |-> sessions'[t]]
        /\ \A t \in 1..MaxSessions : Alike(t)
    BY <1>1, <1>3, Zenon DEF ConnectionsLost, Alike
  <2> QED BY <1>1, <1>3, <2>1, NoneMoves DEF ConnectionsLost, SameFacts
<1>4. CASE CloseConnections
  <2>1. /\ sessions' = [t \in 1..MaxSessions |-> sessions'[t]]
        /\ \A t \in 1..MaxSessions : Alike(t)
    BY <1>1, <1>4, Zenon DEF CloseConnections, Alike
  <2> QED BY <1>1, <1>4, <2>1, NoneMoves DEF CloseConnections, SameFacts, MutexFree
<1> QED BY <1>2, <1>3, <1>4

LEMMA StartServerFacts ==
  ASSUME FactsInv, StartServer
  PROVE  FactsInv'
<1>1. /\ sessions' = [s \in 1..MaxSessions |-> sessions'[s]]
      /\ \A s \in 1..MaxSessions : sessions'[s] \in {Unused, Gone}
      /\ registry' = 0 /\ mutex' = 0 /\ RowFields \subseteq DOMAIN nodeRow'
      /\ MaxSessions \in Nat
  BY SessionDomain DEF StartServer
<1>2. \A s \in 1..MaxSessions :
        /\ DOMAIN sessions'[s] = {"at", "open", "frame", "told"}
        /\ sessions'[s].at \in {"none", "gone"}
  BY <1>1 DEF Unused, Gone
<1>3. SessionTypes'
  BY <1>1, <1>2 DEF SessionTypes
<1>4. MutexHeld'
  BY <1>1, <1>2 DEF MutexHeld
<1>5. HolderIsCurrent' /\ CurrentFacts'
  BY <1>1 DEF HolderIsCurrent, CurrentFacts
<1> QED BY <1>3, <1>4, <1>5 DEF FactsInv

----------------------------------------------------------------------------
(* All steps of the channel. *)

SessionInv == ProofInv /\ FactsInv

LEMMA FramesHaveProofs ==
  /\ \A frame \in RegisterFrames : \A ready :
       LET sent == [frame EXCEPT !.ready = ready]
       IN  sent.proof = NoFrame \/ sent.proof \in CheckpointProofs
  /\ \A frame \in RefreshFrames :
       frame.proof = NoFrame \/ frame.proof \in CheckpointProofs
BY FramesAssumption

LEMMA NodeSendsKeeps ==
  ASSUME SessionInv, NEW s \in DOMAIN sessions, NEW ready, NodeSends(s, ready)
  PROVE  SessionInv'
<1>1. s \in 1..MaxSessions /\ s \in Nat
  BY SessionDomain DEF SessionInv
<1>2. ASSUME NEW frame \in RegisterFrames,
             ReadRegister(s, [frame EXCEPT !.ready = ready])
      PROVE  SessionInv'
  <2> DEFINE sent == [frame EXCEPT !.ready = ready]
  <2>1. sent.proof = NoFrame \/ sent.proof \in CheckpointProofs
    BY FramesHaveProofs
  <2> HIDE DEF sent
  <2>2. ReadRegister(s, sent)
    BY <1>2 DEF sent
  <2>3. FactsInv'
    BY <1>1, <2>2, ReadRegisterFacts DEF SessionInv
  <2>4. ASSUME UNCHANGED proofVars PROVE ProofInv'
    BY <2>4, ProofsUnchanged DEF SessionInv, proofVars
  <2>5. ASSUME NEW ok \in BOOLEAN, JudgeFrame(sent, s, ok)
        PROVE  ProofInv'
    BY <1>1, <2>1, <2>5, JudgeFrameKeeps DEF SessionInv
  <2>6. ProofInv'
    BY <2>2, <2>4, <2>5, Zenon DEF ReadRegister
  <2> QED BY <2>3, <2>6 DEF SessionInv
<1>3. CASE Heartbeat(s, ready)
  <2>1. FactsInv'
    BY <1>1, <1>3, HeartbeatFacts DEF SessionInv
  <2>2. ProofInv'
    BY <1>3, ProofsUnchanged DEF Heartbeat, SessionInv, proofVars
  <2> QED BY <2>1, <2>2 DEF SessionInv
<1>4. ASSUME NEW frame \in RefreshFrames, RefreshProof(s, frame)
      PROVE  SessionInv'
  <2>1. FactsInv'
    BY <1>1, <1>4, RefreshProofFacts DEF SessionInv
  <2>2. PICK ok \in BOOLEAN : JudgeFrame(frame, s, ok)
    BY <1>4 DEF RefreshProof
  <2>3. ProofInv'
    BY <1>1, <2>2, FramesHaveProofs, JudgeFrameKeeps DEF SessionInv
  <2> QED BY <2>1, <2>3 DEF SessionInv
<1> QED BY <1>2, <1>3, <1>4, Zenon DEF NodeSends

LEMMA SessionHandlerKeeps ==
  ASSUME SessionInv, NEW s \in DOMAIN sessions,
         AcceptSession(s) \/ SessionHandler(s) \/ ConnectionDrops(s)
  PROVE  SessionInv'
<1>1. s \in 1..MaxSessions /\ FactsInv
  BY SessionDomain DEF SessionInv
<1>2. FactsInv'
  BY <1>1, AcceptSessionFacts, ArbitrateFacts, RegisterNodeFacts, ApplyTargetsFacts,
     SessionEndsFacts, RefreshReadFacts, RefreshApplyFacts, ConnectionStepsFacts, Zenon
     DEF SessionHandler
<1>3. UNCHANGED <<proofs, proofFile, accepted>>
  BY Zenon DEF SessionHandler, AcceptSession, Arbitrate, RegisterNode, ApplyTargets,
               SessionEnds, RefreshRead, RefreshApply, ConnectionDrops, proofVars
<1> QED BY <1>2, <1>3, ProofsUnchanged DEF SessionInv

LEMMA ServerKeeps ==
  ASSUME SessionInv,
         \/ Sweeps \/ TimePasses \/ OperatorDrains \/ RetentionPasses
         \/ CloseBegin \/ CloseConnections \/ CloseReturns
         \/ ConnectionsLost
  PROVE  SessionInv'
<1>1. UNCHANGED <<proofs, proofFile, accepted>>
  BY DEF Sweeps, SweepRead, SweepWrite, TimePasses, OperatorDrains, RetentionPasses,
         CloseBegin, CloseConnections, CloseReturns, ConnectionsLost, proofVars
<1>2. CASE SweepRead \/ RetentionPasses \/ CloseBegin \/ CloseReturns
  <2>1. UNCHANGED <<sessions, registry, mutex, targets, managed, nodeRow>>
    BY <1>2 DEF SweepRead, RetentionPasses, CloseBegin, CloseReturns
  <2>2. FactsInv'
    BY <2>1, RowChanges DEF SessionInv
  <2> QED BY <1>1, <2>2, ProofsUnchanged DEF SessionInv
<1>3. CASE SweepWrite \/ TimePasses \/ OperatorDrains
  BY <1>1, <1>3, RowStepsFacts, ProofsUnchanged DEF SessionInv
<1>4. CASE CloseConnections \/ ConnectionsLost
  BY <1>1, <1>4, ConnectionStepsFacts, ProofsUnchanged DEF SessionInv
<1> QED BY <1>2, <1>3, <1>4 DEF Sweeps

\* A new server reads the journal back with its marks.
LEMMA RestartKeeps ==
  ASSUME SessionInv, ControllerRestarts
  PROVE  SessionInv'
<1>1. StartServer
  BY DEF ControllerRestarts
<1>2. FactsInv'
  BY <1>1, StartServerFacts DEF SessionInv
<1>3. /\ LoadedJournal \in Journals
      /\ LoadedJournal.high = proofFile.high
      /\ LoadedJournal.fence = proofFile.fence
      /\ LoadedJournal.gen = proofFile.gen
  BY CompactedKeepsMarks DEF LoadedJournal, SessionInv, ProofInv, ProofTypes
<1>4. /\ proofs' = [journal |-> LoadedJournal, sessions |-> {}]
      /\ UNCHANGED <<proofFile, accepted>>
  BY <1>1 DEF StartServer
<1>5. ProofTypes'
  BY <1>3, <1>4 DEF SessionInv, ProofInv, ProofTypes
<1>6. MarksKept'
  BY <1>3, <1>4 DEF SessionInv, ProofInv, MarksKept, Covers
<1>7. ProofsInOrder'
  BY <1>4 DEF SessionInv, ProofInv, ProofsInOrder
<1> QED BY <1>2, <1>5, <1>6, <1>7 DEF SessionInv, ProofInv

LEMMA ChannelKeeps ==
  ASSUME SessionInv, ChannelNext
  PROVE  SessionInv'
BY NodeSendsKeeps, SessionHandlerKeeps, ServerKeeps, RestartKeeps
   DEF ChannelNext, ControllerStep

LEMMA SessionsUnchanged ==
  ASSUME SessionInv, UNCHANGED sessionVars
  PROVE  SessionInv'
<1>1. FactsInv'
  BY RowChanges DEF SessionInv, sessionVars
<1>2. ProofInv'
  BY ProofsUnchanged DEF SessionInv, sessionVars
<1> QED BY <1>1, <1>2 DEF SessionInv

LEMMA SessionsStart ==
  ASSUME NEW limits, SessionsInit(limits)
  PROVE  SessionInv
<1>1. /\ sessions = [s \in 1..MaxSessions |-> Unused]
      /\ registry = 0 /\ mutex = 0 /\ nodeRow = NoRow /\ MaxSessions \in Nat
  BY SessionsAssumption DEF SessionsInit
<1>2. /\ DOMAIN Unused = {"at", "open", "frame", "told"} /\ Unused.at = "none"
      /\ DOMAIN NoRow = RowFields
  BY DEF Unused, NoRow, RowFields
<1>3. SessionTypes /\ MutexHeld
  BY <1>1, <1>2 DEF SessionTypes, MutexHeld
<1>4. HolderIsCurrent /\ CurrentFacts
  BY <1>1 DEF HolderIsCurrent, CurrentFacts
<1>5. /\ proofs = [journal |-> EmptyJournal, sessions |-> {}]
      /\ proofFile = EmptyJournal /\ accepted = <<>>
  BY DEF SessionsInit
<1>6. ProofTypes
  BY <1>5 DEF ProofTypes, EmptyJournal, Journals
<1>7. MarksKept /\ ProofsInOrder
  BY <1>5 DEF MarksKept, ProofsInOrder
<1> QED BY <1>3, <1>4, <1>6, <1>7 DEF SessionInv, ProofInv, FactsInv

LEMMA FactsPublished ==
  ASSUME SessionInv
  PROVE  CurrentFactsPublished
BY SessionDomain
   DEF SessionInv, FactsInv, CurrentFacts, FactsOf, Serving, CurrentFactsPublished

----------------------------------------------------------------------------
(* Warm models. *)

Entries == [has : BOOLEAN, verified : BOOLEAN, released : BOOLEAN,
            pin : {"none", "live", "failing"}, id : Nat, shield : BOOLEAN]

\* An entry that claims verified warm RAM has a live pin.
TrueEntries == {e \in Entries : Claim(e) => e.pin = "live"}

Intents == [kind : Kinds, m : Models, shield : BOOLEAN, done : BOOLEAN]

CommandTypes ==
  \/ cmd = NoCommand
  \/ /\ cmd.at \in {"run", "release", "confirm", "undo", "observe"}
     /\ DOMAIN cmd = {"at", "intent", "effect", "pin", "id"}
     /\ cmd.intent \in Intents
     /\ cmd.id \in Nat
  \/ cmd.at = "finish" /\ cmd.intent \in Intents

WarmTypes ==
  /\ warm \in [Models -> TrueEntries]
  /\ file \in [Models -> Nat]
  /\ intents \in SUBSET Intents
  /\ disk.warm \in [Models -> Entries]
  /\ disk.intents \in SUBSET Intents
  /\ CommandTypes

\* An offload of a known entry relies on the pin that the entry still has.
KnownStaysPinned ==
  cmd.at \in {"release", "confirm"} /\ cmd.pin # "live" =>
    warm[cmd.intent.m].pin = "live"

\* No session reconciles while a command runs.
OneAtWork == cmd # NoCommand => stage.at \in {"open", "down"}

WarmInv == WarmTypes /\ KnownStaysPinned /\ OneAtWork

LEMMA FlaggedIsTrue ==
  ASSUME NEW e \in Entries
  PROVE  /\ Flagged(e) \in TrueEntries
         /\ \A pin \in {"none", "live", "failing"} :
              /\ [Flagged(e) EXCEPT !.pin = pin] \in TrueEntries
              /\ [Flagged(e) EXCEPT !.has = TRUE, !.pin = pin] \in TrueEntries
         /\ \A shield \in BOOLEAN : [Flagged(e) EXCEPT !.shield = shield] \in TrueEntries
BY Zenon DEF Flagged, TrueEntries, Entries, Claim

LEMMA NoEntryIsTrue == NoEntry \in TrueEntries
BY DEF NoEntry, TrueEntries, Entries, Claim

LEMMA WithTrueEntry ==
  ASSUME NEW entries \in [Models -> TrueEntries], NEW m, NEW e,
         m \in Models => e \in TrueEntries
  PROVE  [entries EXCEPT ![m] = e] \in [Models -> TrueEntries]
BY Zenon

LEMMA RevalidatedIsTrue ==
  ASSUME NEW entries \in [Models -> TrueEntries]
  PROVE  /\ Revalidated(entries) \in [Models -> TrueEntries]
         /\ \A m \in Models : /\ Revalidated(entries)[m].pin = entries[m].pin
                              /\ Claim(Revalidated(entries)[m]) => Claim(entries[m])
<1>1. \A m \in Models : entries[m] \in Entries /\ Flagged(entries[m]) \in TrueEntries
  BY FlaggedIsTrue, Zenon DEF TrueEntries
<1>2. \A m \in Models : /\ Flagged(entries[m]).pin = entries[m].pin
                        /\ ~Claim(Flagged(entries[m]))
  BY <1>1, Zenon DEF Flagged, Entries, Claim
<1> QED BY <1>1, <1>2 DEF Revalidated

LEMMA CloseFailedIsTrue ==
  ASSUME NEW entries \in [Models -> TrueEntries], NEW m
  PROVE  CloseFailed(entries, m) \in [Models -> TrueEntries]
<1>1. m \in Models => [Flagged(entries[m]) EXCEPT !.pin = "failing"] \in TrueEntries
  BY FlaggedIsTrue, Zenon DEF TrueEntries
<1> QED BY <1>1, WithTrueEntry DEF CloseFailed

LEMMA ReleasesAreTrue ==
  ASSUME NEW entries \in [Models -> TrueEntries], NEW m, NEW o \in Releases(entries, m)
  PROVE  o.warm \in [Models -> TrueEntries]
<1>1. [entries EXCEPT ![m] = NoEntry] \in [Models -> TrueEntries]
  BY NoEntryIsTrue, WithTrueEntry
<1>2. CloseFailed(entries, m) \in [Models -> TrueEntries]
  BY CloseFailedIsTrue
<1> QED BY <1>1, <1>2 DEF Releases, Outcome

LEMMA DroppedIsTrue ==
  ASSUME NEW entries \in [Models -> TrueEntries], NEW rows, NEW k
  PROVE  Dropped(entries, rows, k) \in [Models -> TrueEntries]
BY NoEntryIsTrue DEF Dropped

LEMMA AdmissionsAreTrue ==
  ASSUME NEW entries \in [Models -> TrueEntries], NEW need,
         NEW a \in Admissions(entries, need)
  PROVE  a.warm \in [Models -> TrueEntries]
<1>1. ASSUME NEW e \in Evictions(entries, need)
      PROVE  e.warm \in [Models -> TrueEntries]
  <2> DEFINE rows == EvictionRows(entries)
             last == LastEvicted(entries, rows, need)
  <2>1. \A k : Dropped(entries, rows, k) \in [Models -> TrueEntries]
    BY DroppedIsTrue
  <2>2. \A i : CloseFailed(Dropped(entries, rows, i - 1), rows[i]) \in [Models -> TrueEntries]
    BY <2>1, CloseFailedIsTrue
  <2> QED BY <2>1, <2>2 DEF Evictions, Outcome
<1>2. \/ a \in Evictions(entries, need)
      \/ \E e \in Evictions(entries, need) : a = Outcome(FALSE, e.warm, e.faults + 1)
  BY Zenon DEF Admissions
<1> QED BY <1>1, <1>2 DEF Outcome

LEMMA RetainIsTrue ==
  ASSUME NEW entries \in [Models -> TrueEntries], NEW m, NEW prior,
         m \in Models => prior \in Entries, NEW pin \in {"none", "failing"}
  PROVE  /\ Retained(entries, m, pin, prior) \in [Models -> TrueEntries]
         /\ RetainFailure(entries, m, pin, prior) \in [Models -> TrueEntries]
<1>1. m \in Models => [Flagged(prior) EXCEPT !.has = TRUE, !.pin = pin] \in TrueEntries
  BY FlaggedIsTrue, Zenon
<1>2. Retained(entries, m, pin, prior) \in [Models -> TrueEntries]
  BY <1>1, WithTrueEntry DEF Retained
<1> QED BY <1>2 DEF RetainFailure

LEMMA PinFailuresAreTrue ==
  ASSUME NEW entries \in [Models -> TrueEntries], NEW m, NEW prior,
         m \in Models => prior \in Entries, NEW o \in PinFailures(entries, m, prior)
  PROVE  o.warm \in [Models -> TrueEntries]
<1>1. PICK pin \in {"none", "failing"} :
        o = Outcome(FALSE, RetainFailure(entries, m, pin, prior), 1)
  BY Zenon DEF PinFailures
<1> QED BY <1>1, RetainIsTrue DEF Outcome

LEMMA ReverificationsAreTrue ==
  ASSUME WarmTypes, NEW m, NEW o \in Reverifications(m)
  PROVE  o.warm \in [Models -> TrueEntries]
<1> DEFINE prior == warm[m]
           without == [warm EXCEPT ![m] = NoEntry]
<1>1. warm \in [Models -> TrueEntries] /\ m \in Models => prior \in Entries
  BY DEF WarmTypes, TrueEntries
<1>2. without \in [Models -> TrueEntries]
  BY NoEntryIsTrue, WithTrueEntry DEF WarmTypes
<1>3. m \in Models => file[m] \in Nat
  BY DEF WarmTypes
<1>4. m \in Models => Pinned(m, prior.shield) \in TrueEntries
  BY <1>1, <1>3 DEF Pinned, TrueEntries, Entries, Claim, WarmTypes
<1> HIDE DEF prior, without
<1>5. CASE o = Outcome(FALSE, CloseFailed(warm, m), 1)
  BY <1>5, CloseFailedIsTrue DEF Outcome, WarmTypes
<1>6. CASE o = Outcome(FALSE, RetainFailure(without, m, "none", prior), 0)
  BY <1>1, <1>2, <1>6, RetainIsTrue DEF Outcome, WarmTypes
<1>7. ASSUME NEW a \in Admissions(without, Size[m]),
             \/ o = Outcome(TRUE, [a.warm EXCEPT ![m] = Pinned(m, prior.shield)], a.faults)
             \/ o \in PinFailures(a.warm, m, prior)
             \/ o = Outcome(FALSE, RetainFailure(a.warm, m, "none", prior), a.faults)
      PROVE  o.warm \in [Models -> TrueEntries]
  <2>1. a.warm \in [Models -> TrueEntries]
    BY <1>2, AdmissionsAreTrue
  <2>2. CASE o = Outcome(TRUE, [a.warm EXCEPT ![m] = Pinned(m, prior.shield)], a.faults)
    BY <1>4, <2>1, <2>2, WithTrueEntry DEF Outcome
  <2>3. CASE o \in PinFailures(a.warm, m, prior)
    BY <1>1, <2>1, <2>3, PinFailuresAreTrue DEF WarmTypes
  <2>4. CASE o = Outcome(FALSE, RetainFailure(a.warm, m, "none", prior), a.faults)
    BY <1>1, <2>1, <2>4, RetainIsTrue DEF Outcome, WarmTypes
  <2> QED BY <1>7, <2>2, <2>3, <2>4, Zenon
<1> QED BY <1>5, <1>6, <1>7, Zenon DEF Reverifications, prior, without

----------------------------------------------------------------------------
(* The warm commands. *)

LEMMA SnapshotTypes ==
  ASSUME NEW entries \in [Models -> TrueEntries], NEW left \in SUBSET Intents
  PROVE  /\ Snapshot(entries, left).warm \in [Models -> Entries]
         /\ Snapshot(entries, left).intents \in SUBSET Intents
<1>1. \A m \in Models : Revalidated(entries)[m] \in Entries
  BY RevalidatedIsTrue DEF TrueEntries
<1>2. \A m \in Models : [Revalidated(entries)[m] EXCEPT !.pin = "none"] \in Entries
  BY <1>1 DEF Entries
<1> QED BY <1>2 DEF Snapshot

\* A command ends or nothing of it changes, whatever it left in the entries.
LEMMA CommandEnds ==
  ASSUME WarmInv, cmd.at # "idle", NEW ok, NEW effect, Ends(ok, effect),
         warm' \in [Models -> TrueEntries], intents' \in SUBSET intents,
         UNCHANGED <<file, stage, disk>>
  PROVE  WarmInv'
<1>1. cmd.intent \in Intents /\ cmd # NoCommand
  BY DEF WarmInv, WarmTypes, CommandTypes, NoCommand
<1>2. cmd'.at = "finish" /\ cmd'.intent \in Intents
  BY <1>1 DEF Ends
<1>3. WarmTypes'
  BY <1>2 DEF WarmInv, WarmTypes, CommandTypes
<1>4. KnownStaysPinned'
  BY <1>2 DEF KnownStaysPinned
<1>5. OneAtWork'
  BY <1>1 DEF WarmInv, OneAtWork
<1> QED BY <1>3, <1>4, <1>5 DEF WarmInv

\* A command goes on to its next step.
LEMMA CommandGoesOn ==
  ASSUME WarmInv, cmd.at \in {"run", "release", "confirm", "undo", "observe"},
         DOMAIN cmd' = DOMAIN cmd, cmd'.intent = cmd.intent, cmd'.id \in Nat,
         cmd'.at \in {"release", "confirm", "undo", "observe"},
         warm' \in [Models -> TrueEntries],
         KnownStaysPinned',
         UNCHANGED <<file, intents, stage, disk>>
  PROVE  WarmInv'
<1>1. cmd.intent \in Intents /\ cmd # NoCommand
      /\ DOMAIN cmd = {"at", "intent", "effect", "pin", "id"}
  BY DEF WarmInv, WarmTypes, CommandTypes, NoCommand
<1>2. CommandTypes'
  BY <1>1 DEF CommandTypes
<1>3. WarmTypes'
  BY <1>2 DEF WarmInv, WarmTypes
<1>4. OneAtWork'
  BY <1>1 DEF WarmInv, OneAtWork
<1> QED BY <1>3, <1>4 DEF WarmInv

\* No command is running, before or after.
LEMMA NoCommandKeeps ==
  ASSUME WarmInv, cmd' = NoCommand,
         warm' \in [Models -> TrueEntries], intents' \in SUBSET Intents,
         disk'.warm \in [Models -> Entries], disk'.intents \in SUBSET Intents,
         UNCHANGED file
  PROVE  WarmInv'
<1>1. WarmTypes'
  BY DEF WarmInv, WarmTypes, CommandTypes
<1>2. KnownStaysPinned'
  BY DEF KnownStaysPinned, NoCommand
<1> QED BY <1>1, <1>2 DEF WarmInv, OneAtWork

LEMMA SavedTypes ==
  ASSUME WarmInv, NEW left \in SUBSET Intents, Saved(warm, left)
  PROVE  /\ warm' \in [Models -> TrueEntries] /\ intents' \in SUBSET Intents
         /\ disk'.warm \in [Models -> Entries] /\ disk'.intents \in SUBSET Intents
BY RevalidatedIsTrue, SnapshotTypes DEF WarmInv, WarmTypes, Saved

LEMMA HandleWarmKeeps ==
  ASSUME WarmInv, NEW kind \in Kinds, NEW m \in Models, NEW shield \in BOOLEAN,
         HandleWarm(kind, m, shield)
  PROVE  WarmInv'
<1> DEFINE intent == [kind |-> kind, m |-> m, shield |-> shield, done |-> FALSE]
           left == (intents \ Replaced(kind, m)) \union {intent}
<1>1. intent \in Intents
  BY DEF Intents
<1>2. left \in SUBSET Intents
  BY <1>1, Zenon DEF WarmInv, WarmTypes
<1>3. /\ cmd = NoCommand /\ stage.at = "open" /\ UNCHANGED <<file, stage>>
      /\ Saved(warm, left)
      /\ cmd' = [at |-> "run", intent |-> intent, effect |-> FALSE, pin |-> "none",
                 id |-> 0]
  BY DEF HandleWarm
<1> HIDE DEF intent, left
<1>4. /\ warm' \in [Models -> TrueEntries] /\ intents' \in SUBSET Intents
      /\ disk'.warm \in [Models -> Entries] /\ disk'.intents \in SUBSET Intents
  BY <1>2, <1>3, SavedTypes
<1>5. CommandTypes' /\ KnownStaysPinned'
  BY <1>1, <1>3 DEF CommandTypes, KnownStaysPinned
<1> QED BY <1>3, <1>4, <1>5 DEF WarmInv, WarmTypes, OneAtWork

LEMMA RefusesKeeps ==
  ASSUME WarmInv, Refuses
  PROVE  WarmInv'
BY CommandEnds, Zenon DEF Refuses, WarmInv, WarmTypes

LEMMA CleanupWarmKeeps ==
  ASSUME WarmInv, CleanupWarm
  PROVE  WarmInv'
<1>1. PICK o \in Releases(warm, cmd.intent.m) :
        warm' = o.warm /\ \E ok, effect : Ends(ok, effect)
  BY DEF CleanupWarm
<1>2. cmd.at # "idle" /\ intents' \in SUBSET intents /\ UNCHANGED <<file, stage, disk>>
  BY DEF CleanupWarm, Running
<1>3. warm' \in [Models -> TrueEntries]
  BY <1>1, ReleasesAreTrue DEF WarmInv, WarmTypes
<1> QED BY <1>1, <1>2, <1>3, CommandEnds, Zenon

LEMMA ProtectWarmKeeps ==
  ASSUME WarmInv, ProtectWarm
  PROVE  WarmInv'
<1> DEFINE m == cmd.intent.m
<1>1. /\ cmd.at # "idle" /\ UNCHANGED <<file, intents, stage, disk>>
      /\ \E ok, effect : Ends(ok, effect)
  BY Zenon DEF ProtectWarm, Running
<1>2. cmd.intent.shield \in BOOLEAN /\ m \in Models
  BY <1>1 DEF WarmInv, WarmTypes, CommandTypes, Intents, NoCommand
<1>3. warm \in [Models -> TrueEntries]
  BY DEF WarmInv, WarmTypes
<1>4. [warm[m] EXCEPT !.shield = cmd.intent.shield] \in TrueEntries
  BY <1>2, <1>3 DEF TrueEntries, Entries, Claim
<1>5. [warm EXCEPT ![m].shield = cmd.intent.shield] \in [Models -> TrueEntries]
  BY <1>3, <1>4, Zenon
<1>6. [warm EXCEPT ![m] = Revalidated(warm)[m]] \in [Models -> TrueEntries]
  BY <1>2, <1>3, RevalidatedIsTrue
<1>7. warm' \in [Models -> TrueEntries]
  BY <1>5, <1>6, Zenon DEF ProtectWarm
<1> QED BY <1>1, <1>7, CommandEnds

LEMMA ReverifyWarmKeeps ==
  ASSUME WarmInv, ReverifyWarm
  PROVE  WarmInv'
<1>1. PICK o \in Reverifications(cmd.intent.m) :
        warm' = o.warm /\ \E ok, effect : Ends(ok, effect)
  BY DEF ReverifyWarm
<1>2. cmd.at # "idle" /\ UNCHANGED <<file, intents, stage, disk>>
  BY DEF ReverifyWarm, Running
<1>3. warm' \in [Models -> TrueEntries]
  BY <1>1, ReverificationsAreTrue DEF WarmInv
<1> QED BY <1>1, <1>2, <1>3, CommandEnds

LEMMA RunningCommand ==
  ASSUME WarmInv, cmd.at \in {"run", "release", "confirm", "undo", "observe"}
  PROVE  /\ DOMAIN cmd = {"at", "intent", "effect", "pin", "id"}
         /\ cmd.intent.m \in Models /\ cmd.intent.shield \in BOOLEAN /\ cmd.id \in Nat
         /\ warm \in [Models -> TrueEntries] /\ file \in [Models -> Nat]
         /\ cmd.at # "idle"
BY DEF WarmInv, WarmTypes, CommandTypes, NoCommand, Intents

\* The proof is dropped while the pin stays, so the offload of a known entry
\* finds the pin that backed its claim.
LEMMA OffloadKnownKeeps ==
  ASSUME WarmInv, OffloadKnown
  PROVE  WarmInv'
<1> DEFINE m == cmd.intent.m
           flagged == [Flagged(warm[m]) EXCEPT !.shield = cmd.intent.shield]
<1>1. cmd.at = "run" /\ UNCHANGED <<file, intents, stage, disk>>
  BY DEF OffloadKnown, Running
<1>2. m \in Models /\ cmd.intent.shield \in BOOLEAN /\ warm[m] \in Entries
      /\ warm \in [Models -> TrueEntries]
  BY <1>1, RunningCommand DEF TrueEntries
<1>3. CASE /\ Claim(Revalidated(warm)[m])
           /\ warm' = [warm EXCEPT ![m] = flagged]
           /\ cmd' = [cmd EXCEPT !.at = "release", !.effect = TRUE]
  <2>1. warm[m].pin = "live"
    BY <1>2, <1>3, RevalidatedIsTrue DEF TrueEntries
  <2>2. flagged \in TrueEntries /\ flagged.pin = "live"
    BY <1>2, <2>1, FlaggedIsTrue, Zenon DEF Flagged, Entries
  <2>3. warm' \in [Models -> TrueEntries] /\ warm'[m].pin = "live"
    BY <1>2, <1>3, <2>2
  <2>4. /\ DOMAIN cmd' = DOMAIN cmd /\ cmd'.intent = cmd.intent /\ cmd'.id \in Nat
        /\ cmd'.at = "release"
    BY <1>1, <1>3, RunningCommand
  <2>5. KnownStaysPinned'
    BY <2>3, <2>4 DEF KnownStaysPinned
  <2> QED BY <1>1, <2>3, <2>4, <2>5, CommandGoesOn
<1>4. CASE warm' = [warm EXCEPT ![m] = Revalidated(warm)[m]] /\ Ends(FALSE, TRUE)
  <2>1. warm' \in [Models -> TrueEntries]
    BY <1>2, <1>4, RevalidatedIsTrue
  <2> QED BY <1>1, <1>4, <2>1, CommandEnds, Zenon
<1> QED BY <1>3, <1>4, Zenon DEF OffloadKnown

LEMMA OffloadFreshKeeps ==
  ASSUME WarmInv, OffloadFresh
  PROVE  WarmInv'
<1> DEFINE m == cmd.intent.m
<1>1. cmd.at = "run" /\ UNCHANGED <<file, intents, stage, disk>>
  BY DEF OffloadFresh, Running
<1>2. /\ m \in Models /\ warm \in [Models -> TrueEntries] /\ file[m] \in Nat
      /\ NoEntry \in Entries
  BY <1>1, RunningCommand, NoEntryIsTrue DEF TrueEntries
<1>3. ASSUME warm' = warm, NEW effect, Ends(FALSE, effect)
      PROVE  WarmInv'
  BY <1>1, <1>2, <1>3, CommandEnds, Zenon
<1>4. ASSUME NEW a \in Admissions(warm, Size[m]), warm' = a.warm,
             cmd' = [cmd EXCEPT !.at = "release", !.pin = "live", !.id = file[m]]
      PROVE  WarmInv'
  <2>1. warm' \in [Models -> TrueEntries]
    BY <1>2, <1>4, AdmissionsAreTrue
  <2>2. /\ DOMAIN cmd' = DOMAIN cmd /\ cmd'.intent = cmd.intent /\ cmd'.id \in Nat
        /\ cmd'.at = "release" /\ cmd'.pin = "live"
    BY <1>1, <1>2, <1>4, RunningCommand
  <2>3. KnownStaysPinned'
    BY <2>2 DEF KnownStaysPinned
  <2> QED BY <1>1, <2>1, <2>2, <2>3, CommandGoesOn
<1>5. ASSUME NEW a \in Admissions(warm, Size[m]), NEW effect, Ends(FALSE, effect),
             \/ warm' = a.warm
             \/ \E o \in PinFailures(a.warm, m, NoEntry) : warm' = o.warm
      PROVE  WarmInv'
  <2>1. a.warm \in [Models -> TrueEntries]
    BY <1>2, AdmissionsAreTrue
  <2>2. warm' \in [Models -> TrueEntries]
    BY <1>2, <1>5, <2>1, PinFailuresAreTrue
  <2> QED BY <1>1, <1>5, <2>2, CommandEnds, Zenon
<1> QED BY <1>3, <1>4, <1>5, Zenon DEF OffloadFresh

LEMMA ReleaseVRAMKeeps ==
  ASSUME WarmInv, ReleaseVRAM
  PROVE  WarmInv'
<1>1. /\ cmd.at = "release" /\ UNCHANGED <<warm, file, intents, stage, disk>>
      /\ \/ cmd' = [cmd EXCEPT !.at = "confirm", !.effect = TRUE]
         \/ cmd' = [cmd EXCEPT !.at = "undo", !.effect = TRUE]
  BY DEF ReleaseVRAM
<1>2. /\ DOMAIN cmd' = DOMAIN cmd /\ cmd'.intent = cmd.intent /\ cmd'.id \in Nat
      /\ cmd'.at \in {"confirm", "undo"} /\ cmd'.pin = cmd.pin
      /\ warm' \in [Models -> TrueEntries]
  BY <1>1, RunningCommand, Zenon
<1>3. KnownStaysPinned'
  BY <1>1, <1>2 DEF KnownStaysPinned, WarmInv
<1> QED BY <1>1, <1>2, <1>3, CommandGoesOn

LEMMA ConfirmReleasedKeeps ==
  ASSUME WarmInv, ConfirmReleased
  PROVE  WarmInv'
<1> DEFINE m == cmd.intent.m
           fresh == [Pinned(m, cmd.intent.shield) EXCEPT !.id = cmd.id]
           known == [warm[m] EXCEPT !.verified = TRUE, !.released = TRUE]
<1>1. cmd.at = "confirm" /\ UNCHANGED <<file, intents, stage, disk>>
  BY DEF ConfirmReleased
<1>2. /\ m \in Models /\ cmd.intent.shield \in BOOLEAN /\ cmd.id \in Nat
      /\ warm \in [Models -> TrueEntries] /\ file[m] \in Nat /\ warm[m] \in Entries
  BY <1>1, RunningCommand DEF TrueEntries
<1>3. CASE /\ warm' = [warm EXCEPT ![m] = IF cmd.pin = "live" THEN fresh ELSE known]
           /\ \E ok, effect : Ends(ok, effect)
  <2>1. fresh \in TrueEntries
    BY <1>2, Zenon DEF Pinned, TrueEntries, Entries, Claim
  <2>2. cmd.pin # "live" => warm[m].pin = "live"
    BY <1>1 DEF WarmInv, KnownStaysPinned
  <2>3. cmd.pin # "live" => known \in TrueEntries
    BY <1>2, <2>2, Zenon DEF TrueEntries, Entries, Claim
  <2>4. warm' \in [Models -> TrueEntries]
    BY <1>2, <1>3, <2>1, <2>3
  <2> QED BY <1>1, <1>3, <2>4, CommandEnds
<1>4. CASE cmd' = [cmd EXCEPT !.at = "undo"] /\ UNCHANGED warm
  <2>1. /\ DOMAIN cmd' = DOMAIN cmd /\ cmd'.intent = cmd.intent /\ cmd'.id \in Nat
        /\ cmd'.at = "undo"
    BY <1>1, <1>4, RunningCommand
  <2>2. KnownStaysPinned'
    BY <2>1 DEF KnownStaysPinned
  <2> QED BY <1>1, <1>2, <1>4, <2>1, <2>2, CommandGoesOn
<1> QED BY <1>3, <1>4, Zenon DEF ConfirmReleased

LEMMA RestoreVRAMKeeps ==
  ASSUME WarmInv, RestoreVRAM
  PROVE  WarmInv'
<1> DEFINE m == cmd.intent.m
           handle == [NoEntry EXCEPT !.id = cmd.id]
<1>1. /\ cmd.at = "undo" /\ UNCHANGED <<file, intents, stage, disk>>
      /\ Ends(FALSE, TRUE)
      /\ warm' = warm \/ warm' = Retained(warm, m, "failing", handle)
  BY Zenon DEF RestoreVRAM
<1>2. handle \in Entries
  BY <1>1, RunningCommand, Zenon DEF NoEntry, Entries
<1>3. warm' \in [Models -> TrueEntries]
  BY <1>1, <1>2, RunningCommand, RetainIsTrue
<1> QED BY <1>1, <1>3, CommandEnds, Zenon

\* load_model and unload_model give up the entry or leave it.
LEMMA RuntimeKeeps ==
  ASSUME WarmInv, MutateRuntime \/ ObserveRuntime
  PROVE  WarmInv'
<1> DEFINE m == cmd.intent.m
<1>1. cmd.at \in {"run", "observe"} /\ UNCHANGED <<file, intents, stage, disk>>
  BY Zenon DEF MutateRuntime, ObserveRuntime
<1>2. CASE /\ cmd' = [cmd EXCEPT !.at = "observe"]
           /\ UNCHANGED warm
  <2>1. /\ DOMAIN cmd' = DOMAIN cmd /\ cmd'.intent = cmd.intent /\ cmd'.id \in Nat
        /\ cmd'.at = "observe" /\ warm' \in [Models -> TrueEntries]
    BY <1>1, <1>2, RunningCommand
  <2>2. KnownStaysPinned'
    BY <2>1 DEF KnownStaysPinned
  <2> QED BY <1>1, <2>1, <2>2, CommandGoesOn
<1>3. CASE /\ \E ok, effect : Ends(ok, effect)
           /\ warm' = warm \/ \E o \in Releases(warm, m) : warm' = o.warm
  <2>1. warm' \in [Models -> TrueEntries]
    BY <1>1, <1>3, RunningCommand, ReleasesAreTrue
  <2> QED BY <1>1, <1>3, <2>1, CommandEnds
<1> QED BY <1>2, <1>3, Zenon DEF MutateRuntime, ObserveRuntime

LEMMA FinishWarmKeeps ==
  ASSUME WarmInv, FinishWarm \/ \E p \in intents : QuerySettles(p)
  PROVE  WarmInv'
<1>1. cmd' = NoCommand /\ UNCHANGED file
  BY Zenon DEF FinishWarm, QuerySettles
<1>2. PICK left \in SUBSET intents : Saved(warm, left)
  BY Zenon DEF FinishWarm, QuerySettles
<1>3. left \in SUBSET Intents
  BY DEF WarmInv, WarmTypes
<1> QED BY <1>1, <1>2, <1>3, SavedTypes, NoCommandKeeps

----------------------------------------------------------------------------
(* Reconciliation, restart and the world outside. *)

LEMMA ReconcileIsAlone ==
  ASSUME WarmInv, stage.at \notin {"open", "down"} \/ cmd = NoCommand
  PROVE  /\ cmd = NoCommand
         /\ warm \in [Models -> TrueEntries] /\ intents \in SUBSET Intents
         /\ disk.warm \in [Models -> Entries] /\ disk.intents \in SUBSET Intents
BY DEF WarmInv, WarmTypes, OneAtWork

LEMMA SessionStartsKeeps ==
  ASSUME WarmInv, SessionStarts \/ ReconcileStops
  PROVE  WarmInv'
<1>1. /\ UNCHANGED <<file, intents, cmd, disk>>
      /\ warm' = warm \/ warm' = Revalidated(warm)
      /\ stage.at \notin {"open", "down"} \/ cmd = NoCommand
  BY DEF SessionStarts, ReconcileStops, ToWarm
<1>2. warm' \in [Models -> TrueEntries]
  BY <1>1, ReconcileIsAlone, RevalidatedIsTrue
<1> QED BY <1>1, <1>2, ReconcileIsAlone, NoCommandKeeps

LEMMA SessionDropsKeeps ==
  ASSUME WarmInv, SessionDrops
  PROVE  WarmInv'
<1>1. UNCHANGED <<warm, file, intents, cmd, disk>> /\ stage'.at = "down"
  BY DEF SessionDrops, Stage
<1>2. WarmTypes'
  BY <1>1 DEF WarmInv, WarmTypes, CommandTypes
<1>3. KnownStaysPinned'
  BY <1>1 DEF WarmInv, KnownStaysPinned
<1> QED BY <1>1, <1>2, <1>3 DEF WarmInv, OneAtWork

LEMMA IntentOutcomesAreTrue ==
  ASSUME WarmTypes, NEW p \in Intents, NEW o \in IntentOutcomes(p)
  PROVE  o.warm \in [Models -> TrueEntries]
<1>1. warm \in [Models -> TrueEntries] /\ p.m \in Models /\ p.shield \in BOOLEAN
  BY DEF WarmTypes, Intents
<1>2. CASE o = Outcome(TRUE, warm, 0)
  BY <1>1, <1>2 DEF Outcome
<1>3. CASE o \in Releases(warm, p.m)
  BY <1>1, <1>3, ReleasesAreTrue
<1>4. CASE o \in Reverifications(p.m)
  BY <1>4, ReverificationsAreTrue
<1>5. ASSUME NEW v \in Reverifications(p.m),
             o = [v EXCEPT !.warm[p.m].shield = p.shield]
      PROVE  o.warm \in [Models -> TrueEntries]
  <2>1. v.warm \in [Models -> TrueEntries]
    BY ReverificationsAreTrue
  <2>2. [v.warm[p.m] EXCEPT !.shield = p.shield] \in TrueEntries
    BY <1>1, <2>1 DEF TrueEntries, Entries, Claim
  <2>3. [v.warm EXCEPT ![p.m].shield = p.shield] \in [Models -> TrueEntries]
    BY <2>1, <2>2, Zenon
  <2>4. "warm" \in DOMAIN v
    <3>1. \A ok, entries, faults : "warm" \in DOMAIN Outcome(ok, entries, faults)
      BY DEF Outcome
    <3> QED BY <3>1, Zenon DEF Reverifications, PinFailures
  <2>5. o.warm = [v.warm EXCEPT ![p.m].shield = p.shield]
    BY <1>5, <2>4
  <2> QED BY <2>3, <2>5
<1> QED BY <1>2, <1>3, <1>4, <1>5, Zenon DEF IntentOutcomes

LEMMA ReconcileIntentKeeps ==
  ASSUME WarmInv, NEW p \in intents, ReconcileIntent(p)
  PROVE  WarmInv'
<1>1. /\ stage.at = "pending" /\ UNCHANGED <<file, cmd>>
  BY DEF ReconcileIntent
<1>2. p \in Intents /\ WarmTypes
  BY DEF WarmInv, WarmTypes
<1>3. PICK o \in IntentOutcomes(p) :
        \/ /\ warm' = warm \/ warm' = Revalidated(o.warm)
           /\ intents' = intents \ {p}
           /\ \/ disk' = disk
              \/ disk' = Snapshot(o.warm, (intents \ {p}) \union
                                          {[p EXCEPT !.done = TRUE]})
        \/ warm' = o.warm /\ UNCHANGED <<intents, disk>>
  BY DEF ReconcileIntent
<1>4. o.warm \in [Models -> TrueEntries]
  BY <1>2, IntentOutcomesAreTrue
<1>5. [p EXCEPT !.done = TRUE] \in Intents
  BY <1>2, Zenon DEF Intents
<1>6. warm' \in [Models -> TrueEntries]
  BY <1>1, <1>3, <1>4, ReconcileIsAlone, RevalidatedIsTrue
<1>7. (intents \ {p}) \union {[p EXCEPT !.done = TRUE]} \in SUBSET Intents
  BY <1>1, <1>5, ReconcileIsAlone, Zenon
<1>8. disk'.warm \in [Models -> Entries] /\ disk'.intents \in SUBSET Intents
  BY <1>1, <1>3, <1>4, <1>7, ReconcileIsAlone, SnapshotTypes
<1>9. cmd' = NoCommand /\ intents' \in SUBSET Intents
  BY <1>1, <1>3, ReconcileIsAlone
<1> QED BY <1>1, <1>6, <1>8, <1>9, NoCommandKeeps

LEMMA ReconcileSavesKeeps ==
  ASSUME WarmInv, ReconcilePendingDone \/ ReconcileWarmDone
  PROVE  WarmInv'
<1>1. stage.at \notin {"open", "down"} /\ UNCHANGED <<file, cmd>>
  BY DEF ReconcilePendingDone, ReconcileWarmDone
<1>2. PICK left \in SUBSET Intents : Saved(warm, left)
  BY <1>1, ReconcileIsAlone DEF ReconcilePendingDone, ReconcileWarmDone
<1> QED BY <1>1, <1>2, ReconcileIsAlone, SavedTypes, NoCommandKeeps

LEMMA ReconcileManifestKeeps ==
  ASSUME WarmInv, ReconcileManifest
  PROVE  WarmInv'
<1> DEFINE row == Head(stage.todo)
<1>1. stage.at = "warm" /\ UNCHANGED <<file, intents, cmd, disk>>
  BY DEF ReconcileManifest
<1>2. PICK o \in ManifestOutcomes(row) \union {Outcome(FALSE, warm, 1)} : warm' = o.warm
  BY Zenon DEF ReconcileManifest
<1>3. \/ o \in Releases(warm, row.m) \/ o \in Reverifications(row.m)
      \/ o.warm = warm
  BY <1>2 DEF ManifestOutcomes, Outcome
<1>4. warm' \in [Models -> TrueEntries]
  BY <1>1, <1>2, <1>3, ReconcileIsAlone, ReleasesAreTrue, ReverificationsAreTrue
     DEF WarmInv
<1> QED BY <1>1, <1>4, ReconcileIsAlone, NoCommandKeeps

\* A restarted agent has the manifests and no pins, and no claims either.
LEMMA WarmLostKeeps ==
  ASSUME WarmInv, WarmLost
  PROVE  WarmInv'
<1>1. /\ warm' = RestoredWarm /\ intents' = disk.intents /\ cmd' = NoCommand
      /\ UNCHANGED <<file, disk>>
  BY DEF WarmLost
<1>2. disk.warm \in [Models -> Entries] /\ disk.intents \in SUBSET Intents
  BY DEF WarmInv, WarmTypes
<1>3. \A e \in Entries : RestoreManifests(e) \in TrueEntries
  BY FlaggedIsTrue, Zenon DEF RestoreManifests, TrueEntries, Entries, Claim
<1>4. RestoredWarm \in [Models -> TrueEntries]
  BY <1>2, <1>3, NoEntryIsTrue DEF RestoredWarm
<1> QED BY <1>1, <1>2, <1>4, NoCommandKeeps

LEMMA WarmWorldKeeps ==
  ASSUME WarmInv, WarmWorld
  PROVE  WarmInv'
<1>1. UNCHANGED <<warm, intents, cmd, stage, disk>>
  BY DEF WarmWorld, RuntimeMoves, FileChanges
<1>2. file' \in [Models -> Nat]
  <2>1. CASE file' = file
    BY <2>1 DEF WarmInv, WarmTypes
  <2>2. ASSUME NEW m \in Models, NEW n \in (file[m] + 1)..2,
               file' = [file EXCEPT ![m] = n]
        PROVE  file' \in [Models -> Nat]
    BY <2>2 DEF WarmInv, WarmTypes
  <2> QED BY <2>1, <2>2 DEF WarmWorld, RuntimeMoves, FileChanges
<1>3. WarmTypes'
  BY <1>1, <1>2 DEF WarmInv, WarmTypes, CommandTypes
<1> QED BY <1>1, <1>3 DEF WarmInv, KnownStaysPinned, OneAtWork

LEMMA WarmStepKeeps ==
  ASSUME WarmInv, WarmNext
  PROVE  WarmInv'
<1>1. CASE WarmCommand
  BY <1>1, HandleWarmKeeps, RefusesKeeps, CleanupWarmKeeps, ProtectWarmKeeps,
     ReverifyWarmKeeps, OffloadKnownKeeps, OffloadFreshKeeps, ReleaseVRAMKeeps,
     ConfirmReleasedKeeps, RestoreVRAMKeeps, RuntimeKeeps, FinishWarmKeeps
     DEF WarmCommand
<1>2. CASE WarmReconcile
  BY <1>2, SessionStartsKeeps, SessionDropsKeeps, ReconcileIntentKeeps,
     ReconcileSavesKeeps, ReconcileManifestKeeps DEF WarmReconcile
<1> QED BY <1>1, <1>2, WarmWorldKeeps, WarmLostKeeps DEF WarmNext

LEMMA WarmUnchanged ==
  ASSUME WarmInv, UNCHANGED warmVars
  PROVE  WarmInv'
BY DEF WarmInv, WarmTypes, CommandTypes, KnownStaysPinned, OneAtWork, warmVars

LEMMA WarmStarts ==
  ASSUME NEW limits, WarmInit(limits)
  PROVE  WarmInv
<1>1. /\ warm = [m \in Models |-> NoEntry] /\ file = [m \in Models |-> 0]
      /\ intents = {} /\ cmd = NoCommand
      /\ disk.warm = warm /\ disk.intents = {}
  BY DEF WarmInit
<1>2. WarmTypes
  BY <1>1, NoEntryIsTrue DEF WarmTypes, CommandTypes, TrueEntries
<1> QED BY <1>1, <1>2 DEF WarmInv, KnownStaysPinned, OneAtWork, NoCommand

----------------------------------------------------------------------------
(* The theorems. *)

\* The controller accepts a node's checkpoint proofs in the order the node
\* issued them and each once, over reconnects, failing journal writes, expiry of
\* the journal and restarts (validateCheckpointAdvertisementProofSession).
THEOREM ProofsKeepOrder ==
  ASSUME NEW limits
  PROVE  ChannelSpec(limits) => []ProofsInOrder
<1>1. SessionsInit(limits) => SessionInv
  BY SessionsStart
<1>2. SessionInv /\ [ChannelNext]_sessionVars => SessionInv'
  BY ChannelKeeps, SessionsUnchanged
<1>3. SessionInv => ProofsInOrder
  BY DEF SessionInv, ProofInv
<1> QED BY <1>1, <1>2, <1>3, PTL DEF ChannelSpec

\* The node row, the targets and the managed indices are what the current
\* session has told (handleNodeWS and sessionMutationMu).
THEOREM FactsAreCurrent ==
  ASSUME NEW limits
  PROVE  ChannelSpec(limits) => []CurrentFactsPublished
<1>1. SessionsInit(limits) => SessionInv
  BY SessionsStart
<1>2. SessionInv /\ [ChannelNext]_sessionVars => SessionInv'
  BY ChannelKeeps, SessionsUnchanged
<1>3. SessionInv => CurrentFactsPublished
  BY FactsPublished
<1> QED BY <1>1, <1>2, <1>3, PTL DEF ChannelSpec

\* An entry that claims verified warm RAM has a live pin, whatever failed, was
\* evicted, reconciled or restored on the way (warmram.go).
THEOREM WarmStaysPinned ==
  ASSUME NEW limits
  PROVE  WarmSpec(limits) => []WarmIsPinned
<1>1. WarmInit(limits) => WarmInv
  BY WarmStarts
<1>2. WarmInv /\ [WarmNext]_warmVars => WarmInv'
  BY WarmStepKeeps, WarmUnchanged
<1>3. WarmInv => WarmIsPinned
  BY DEF WarmInv, WarmTypes, TrueEntries, WarmIsPinned
<1> QED BY <1>1, <1>2, <1>3, PTL DEF WarmSpec
====
