------------------------- MODULE CheckpointCustodyProofs -------------------------
(***************************************************************************)
(* The custody of the generation a segment resumes, and with it of the      *)
(* accelerator, when no pass of the loop runs beside a resuming segment:    *)
(* the recovery implements AcceleratorCustody.                              *)
(***************************************************************************)
EXTENDS CheckpointRecoveryProofs

\* While a segment is resumed the loop rests and the lease is the segment's.
ResumeAlone ==
  /\ s.pc \in ResumePcs => l.pc = "idle" /\ lease.owner = "v" /\ lease.fence = s.fence
  /\ s.pc = "resume" => rows["seg"].cl = "pending" /\ rows["seg"].fence = s.fence

\* A resumed generation runs under the lease its row names, the row is open, and
\* the goroutine, when there is one, has the same token and has not proven a stop.
SegInCustody ==
  gen["seg"] = "live" =>
    /\ lease.owner = "v" /\ lease.fence = rows["seg"].fence
    /\ rows["seg"].cl \in {"pending", "owned", "failed"}
    /\ s.pc # "none" => s.fence = rows["seg"].fence
    /\ s.pc \in {"none", "own", "publish", "seg", "cancel", "cancel_deferred",
                 "cancel_retained", "fenced"}
    /\ s.pc = "fenced" => s.h # "stopped"
    /\ l.pc \in StopPcs /\ l.row = "seg" =>
         /\ l.op.fence = rows["seg"].fence /\ l.pc \in {"stop", "cancel", "mark_failed"}
         /\ l.pc = "stop" => l.op.cl # "stopped"

SegInv == ResumeAlone /\ SegInCustody

NoneRestored == gen["fresh"] # "live" /\ gen["seg"] # "live"

\* A step keeps holder and token and restores nothing, or restores one generation
\* for the holder, or takes the accelerator back, or grants it anew.
CustodyStep ==
  \/ /\ lease'.owner = lease.owner /\ fence' = fence
     /\ \A g \in Restored : gen'[g] = "live" => gen[g] = "live"
  \/ /\ lease.owner = "v" /\ NoneRestored /\ UNCHANGED <<lease, fence>>
     /\ \E g \in Restored : gen' = [gen EXCEPT ![g] = "live"]
  \/ lease'.owner = "none" /\ NoneRestored /\ UNCHANGED <<gen, fence>>
  \/ lease'.owner \in {"v", "u"} /\ NoneRestored /\ fence' = fence + 1 /\ UNCHANGED gen

\* The two restored generations never run together.
LEMMA OneRestored ==
  ASSUME OuterInv, SegInv, gen["seg"] = "live"
  PROVE  /\ gen["fresh"] # "live" /\ gen["orig"] # "live"
         /\ rows["seg"].cl # "unset" /\ rows["outer"].fence < rows["seg"].fence
         /\ l.pc \notin ToIntent \cup ToGrant \cup ToRestore
<1>1. rows["seg"].cl # "unset" /\ lease.fence = rows["seg"].fence
  BY DEF SegInv, SegInCustody
<1>2. rows["outer"].fence < rows["seg"].fence
  BY <1>1, SMTT(20) DEF OuterInv, OuterIsOlder
<1>3. gen["fresh"] # "live"
  BY <1>1, <1>2, FencesAreNumbers DEF OuterInv, FreshInCustody
<1> QED BY <1>1, <1>2, <1>3, SMTT(20) DEF OuterInv, OrigFirst, Preempting

LEMMA LoopRests ==
  ASSUME ~Overlap, SegInv, LoopStep
  PROVE  s.pc \notin ResumePcs
<1>1. CASE StartPass
  BY <1>1 DEF StartPass, Quiet, ResumePcs
<1>2. CASE ~StartPass
  <2>1. l.pc # "idle"
    <3>1. CASE StopProcedure
      BY <3>1 DEF StopProcedure, MarkFailed, CheckLease, CancelBackend, RecordStopped, ReleaseFence,
                  Confirm, Dispose, At
    <3>2. CASE RecoverPass
      BY <3>2 DEF RecoverPass, Recover, AdoptLate, MarkAdoptedLate, Requeue, MarkRequeued,
                  Terminalize, At
    <3>3. CASE StartCleanup \/ CleanupRow \/ EndPass \/ Admit \/ Restart
      BY <3>3, SMTT(20) DEF StartCleanup, CleanupRow, EndPass, Admit, Restart, At
    <3>4. CASE PreemptVictim
      BY <3>4 DEF PreemptVictim, Preempt, CASVictim, CASNewcomer, PersistIntent, ReleaseOld,
                  Reacquire, ArmFresh, Restore, RecordRestored, Adopt, MarkAdopted, Abandoned,
                  MarkAbandoned, At
    <3> QED BY <1>2, <3>1, <3>2, <3>3, <3>4, SMTT(20) DEF LoopStep
  <2> QED BY <2>1 DEF SegInv, ResumeAlone
<1> QED BY <1>1, <1>2

\* The loop's step leaves a running segment in custody.
LEMMA LoopKeeps ==
  ASSUME OuterInv, SegInv, s.pc \notin ResumePcs, UNCHANGED <<fence, s>>,
         lease'.owner = lease.owner, lease'.fence = lease.fence,
         \A g \in Restored : gen'[g] = "live" => gen[g] = "live",
         gen'["seg"] = "live" =>
           /\ rows'["seg"].cl \in {"pending", "owned", "failed"}
           /\ rows'["seg"].fence = rows["seg"].fence
           /\ l'.pc \in StopPcs /\ l'.row = "seg" =>
                /\ l'.op.fence = rows["seg"].fence /\ l'.pc \in {"stop", "cancel", "mark_failed"}
                /\ l'.pc = "stop" => l'.op.cl # "stopped"
  PROVE  SegInv' /\ CustodyStep
<1>1. CustodyStep
  BY DEF CustodyStep
<1>2. "seg" \in Restored /\ "resume" \in ResumePcs
  BY DEF Restored, ResumePcs
<1>3. ResumeAlone'
  BY <1>2, SMTT(20) DEF ResumeAlone
<1>4. SegInCustody'
  BY <1>2, SMTT(20) DEF SegInv, SegInCustody
<1> QED BY <1>1, <1>3, <1>4, SMTT(20) DEF SegInv

\* A step of the loop that has nothing to do with the segment's row.
LEMMA LoopAside ==
  ASSUME OuterInv, SegInv, s.pc \notin ResumePcs, UNCHANGED <<lease, fence, gen, s>>,
         rows'["seg"] = rows["seg"], l'.pc \in StopPcs => l'.row = "outer"
  PROVE  SegInv' /\ CustodyStep
  BY LoopKeeps, RowNames DEF SegInv, SegInCustody

LEMMA PassesAside ==
  ASSUME OuterInv, SegInv, s.pc \notin ResumePcs,
         \/ RecoverPass \/ StartCleanup \/ EndPass \/ Restart
         \/ RecordRestored \/ Adopt \/ MarkAdopted \/ Abandoned \/ MarkAbandoned
  PROVE  SegInv' /\ CustodyStep
<1>1. l \in LoopRec /\ rows \in [Rows -> RowRec] /\ Idle \in LoopRec
  BY Resting DEF OuterInv, TypeOK
<1>2. \A pc \in {"recover", "cleanup", "cleanup_all", "idle", "reconcile", "adopt_late",
                  "mark_adopted_late", "mark_requeued", "terminalize", "requeue_pending",
                  "adopt", "mark_adopted", "abandon_requeued"} : pc \notin StopPcs
  BY DEF StopPcs
<1>3. ASSUME \/ rows' = rows
             \/ \E row : rows' = [rows EXCEPT !["outer"] = row]
             \/ rows' = [rows EXCEPT !["outer"].rec = "adopted"]
      PROVE  rows'["seg"] = rows["seg"]
  BY <1>1, <1>3, RowNames
<1>4. ASSUME NEW pc, NEW k \in LoopRec,
             \/ l' = [k EXCEPT !.pc = pc] \/ l' = Look([k EXCEPT !.pc = pc])
             \/ l' = [k EXCEPT !.pc = pc, !.todo = Rows]
             \/ l' = [k EXCEPT !.pc = pc, !.boot = TRUE]
      PROVE  l'.pc = pc
  BY <1>4, Zenon DEF LoopRec, Look
<1>5. ASSUME NEW mode, NEW ok, NEW err, NEW op,
             \/ l' = StopFirst("outer", mode, ok, err, op)
             \/ l' = Look(StopFirst("outer", mode, ok, err, op))
      PROVE  l'.row = "outer"
  BY <1>1, <1>5, ZenonT(40) DEF LoopRec, Look, StopFirst
<1>6. CASE Recover
  <2>1. UNCHANGED <<lease, fence, gen, s>>
    BY <1>6 DEF Recover, Store4
  <2>2. rows'["seg"] = rows["seg"]
    BY <1>3, <1>6 DEF Recover, LWrite
  <2>3. \/ \E pc \in {"cleanup", "cleanup_all", "adopt_late", "terminalize", "requeue_pending"} :
             \/ l' = [l EXCEPT !.pc = pc] \/ l' = [l EXCEPT !.pc = pc, !.todo = Rows]
             \/ l' = Look([l EXCEPT !.pc = pc])
        \/ \E mode, ok, err, op : l' = Look(StopFirst("outer", mode, ok, err, op))
    BY <1>6 DEF Recover, LWrite, Goto
  <2>4. l'.pc \in StopPcs => l'.row = "outer"
    BY <1>1, <1>2, <1>4, <1>5, <2>3, ZenonT(40)
  <2> QED BY <2>1, <2>2, <2>4, LoopAside, SMTT(20)
<1>7. CASE \/ AdoptLate \/ MarkAdoptedLate \/ Requeue \/ MarkRequeued \/ Terminalize
  <2>1. UNCHANGED <<lease, fence, gen, s>>
    BY <1>7 DEF AdoptLate, MarkAdoptedLate, Requeue, MarkRequeued, Terminalize, Store4
  <2>2. rows'["seg"] = rows["seg"]
    BY <1>3, <1>7, SMTT(20) DEF AdoptLate, MarkAdoptedLate, Requeue, MarkRequeued, Terminalize, LWrite
  <2>3. \/ \E pc \in {"cleanup_all", "mark_adopted_late", "mark_requeued"} : l' = [l EXCEPT !.pc = pc]
        \/ \E mode, ok, err, op : l' = StopFirst("outer", mode, ok, err, op)
    BY <1>7 DEF AdoptLate, MarkAdoptedLate, Requeue, MarkRequeued, Terminalize, LWrite, Goto
  <2>4. l'.pc \in StopPcs => l'.row = "outer"
    BY <1>1, <1>2, <1>4, <1>5, <2>3, ZenonT(40)
  <2> QED BY <2>1, <2>2, <2>4, LoopAside
<1>8. CASE StartCleanup \/ EndPass \/ Restart
  <2>1. UNCHANGED <<lease, fence, rows, gen, s>>
    BY <1>8 DEF StartCleanup, EndPass, Restart
  <2>2. \E pc \in {"cleanup", "idle", "reconcile", "recover"} :
          \/ l' = [l EXCEPT !.pc = pc, !.todo = Rows] \/ l' = [Idle EXCEPT !.pc = pc]
          \/ l' = [Idle EXCEPT !.pc = pc, !.boot = TRUE]
    BY <1>8 DEF StartCleanup, EndPass, Restart
  <2>3. l'.pc \notin StopPcs
    BY <1>1, <1>2, <1>4, <2>2, ZenonT(40)
  <2> QED BY <2>1, <2>3, LoopAside, SMTT(20)
<1>9. CASE RecordRestored \/ Adopt \/ MarkAdopted \/ Abandoned \/ MarkAbandoned
  <2>1. UNCHANGED <<lease, fence, gen, s>>
    BY <1>9, SMTT(20) DEF RecordRestored, Adopt, MarkAdopted, Abandoned, MarkAbandoned, Store4
  <2>2. rows'["seg"] = rows["seg"]
    BY <1>3, <1>9, SMTT(20) DEF RecordRestored, Adopt, MarkAdopted, Abandoned, MarkAbandoned, LWrite
  <2>3. \/ \E pc \in {"adopt", "mark_adopted", "idle", "abandon_requeued"} : l' = [l EXCEPT !.pc = pc]
        \/ \E mode, ok, err, op : l' = StopFirst("outer", mode, ok, err, op)
    BY <1>9 DEF RecordRestored, Adopt, MarkAdopted, Abandoned, MarkAbandoned, LWrite, Goto
  <2>4. l'.pc \in StopPcs => l'.row = "outer"
    BY <1>1, <1>2, <1>4, <1>5, <2>3, ZenonT(40)
  <2> QED BY <2>1, <2>2, <2>4, LoopAside
<1> QED BY <1>6, <1>7, <1>8, <1>9, SMTT(20) DEF RecoverPass

\* On the way to the fresh generation nothing restored is running, so the lease
\* may change hands, and the restore is for the workload that has it.
LEMMA PreemptSeg ==
  ASSUME OuterInv, SegInv, s.pc \notin ResumePcs,
         \/ Preempt \/ CASVictim \/ CASNewcomer \/ PersistIntent \/ ReleaseOld \/ Reacquire
         \/ ArmFresh \/ Restore
  PROVE  SegInv' /\ CustodyStep
<1>1. /\ l \in LoopRec /\ rows \in [Rows -> RowRec]
      /\ gen \in [Generations -> {"none", "live", "off"}]
  BY DEF OuterInv, TypeOK
<1>2. CASE Preempt /\ gen' = gen
  <2>1. UNCHANGED <<lease, fence, rows, s>> /\ l' = [l EXCEPT !.pc = "idle"]
    BY <1>1, <1>2 DEF Preempt, Goto, Generations
  <2>2. l'.pc \notin StopPcs
    BY <1>1, <2>1 DEF LoopRec, StopPcs
  <2> QED BY <1>2, <2>1, <2>2, LoopAside, SMTT(20)
<1>3. CASE ~(Preempt /\ gen' = gen)
  <2>1. NoneRestored
    <3>1. CASE gen["orig"] = "live"
      BY <3>1, OneRestored, SMTT(20) DEF NoneRestored, OuterInv, OrigFirst, FreshInCustody
    <3>2. CASE l.pc \in ToIntent \cup ToGrant \cup ToRestore
      BY <3>2, OneRestored, SMTT(20) DEF NoneRestored, OuterInv, Preempting
    <3> QED BY <1>3, <3>1, <3>2, SMTT(20) DEF Preempt, CASVictim, CASNewcomer, PersistIntent, ReleaseOld,
          Reacquire, ArmFresh, Restore, At, ToIntent, ToGrant, ToRestore
  <2>2. /\ s'.pc \notin ResumePcs
        /\ gen'["seg"] # "live"
    BY <1>1, <2>1, SMTT(20) DEF NoneRestored, Preempt, CASVictim, CASNewcomer, PersistIntent, ReleaseOld,
         Reacquire, ArmFresh, Restore, Store4, Generations, OuterInv, TypeOK, SegmentRec, ResumePcs
  <2>3. SegInv'
    BY <2>2 DEF SegInv, ResumeAlone, SegInCustody, ResumePcs
  <2>4. CustodyStep
    <3>1. CASE Preempt \/ CASVictim \/ CASNewcomer \/ PersistIntent
      BY <1>1, <2>1, <3>1, SMTT(20) DEF Preempt, CASVictim, CASNewcomer, PersistIntent, Store4, CustodyStep,
           NoneRestored, Restored, Generations
    <3>2. CASE ReleaseOld \/ ArmFresh
      BY <2>1, <3>2, Resting DEF ReleaseOld, ArmFresh, AfterRelease, Store4, CustodyStep
    <3>3. CASE Reacquire
      BY <2>1, <3>3 DEF Reacquire, Granted, Store4, CustodyStep
    <3>4. CASE Restore
      <4>1. lease.owner = "v" /\ UNCHANGED <<lease, fence>>
        BY <3>4 DEF Restore, At, OuterInv, FreshInCustody, ToRestore
      <4>2. gen' = gen \/ gen' = [gen EXCEPT !["fresh"] = "live"] \/ gen' = [gen EXCEPT !["fresh"] = "off"]
        BY <3>4, SMTT(20) DEF Restore
      <4>3. ASSUME gen' = [gen EXCEPT !["fresh"] = "off"], NEW g \in Restored
            PROVE  gen'[g] = "live" => gen[g] = "live"
        BY <1>1, <4>3 DEF Restored, Generations
      <4>4. "fresh" \in Restored
        BY DEF Restored
      <4> QED BY <2>1, <4>1, <4>2, <4>3, <4>4, Zenon DEF CustodyStep
    <3> QED BY <3>1, <3>2, <3>3, <3>4, SMTT(20)
  <2> QED BY <2>3, <2>4, SMTT(20)
<1> QED BY <1>2, <1>3

LEMMA NothingResumed ==
  ASSUME gen'["seg"] # "live", s'.pc \notin ResumePcs
  PROVE  SegInv'
  BY DEF SegInv, ResumeAlone, SegInCustody, ResumePcs

\* A stop procedure on the segment's row reaches a record only after the stop.
LEMMA SegStopped ==
  ASSUME SegInv, l.pc \in {"record_stopped", "release", "confirm", "dispose"}, l.row = "seg"
  PROVE  gen["seg"] # "live"
  BY DEF SegInv, SegInCustody, StopPcs

LEMMA MarkFailedSeg ==
  ASSUME OuterInv, SegInv, s.pc \notin ResumePcs, MarkFailed
  PROVE  SegInv' /\ CustodyStep
<1>1. /\ l.pc = "mark_failed" /\ UNCHANGED <<lease, fence, gen, s>>
      /\ l' = [l EXCEPT !.pc = l.err] /\ l \in LoopRec
  BY DEF MarkFailed, LWrite, Goto, At, Store4, OuterInv, TypeOK
<1>2. /\ l.row \in Rows /\ l.op \in RowRec /\ rows[l.row] \in RowRec /\ l.op.fence \in Int
      /\ rows \in [Rows -> RowRec] /\ l.row \in {"outer", "seg"}
  BY <1>1, RowNames DEF OuterInv, TypeOK, LoopRec, RowRec
<1>3. l'.pc \notin StopPcs
  <2>1. l'.pc = l.err
    BY <1>1 DEF LoopRec
  <2> QED BY <1>1, <1>2, <2>1 DEF OuterInv, OuterStop, StopPcs
<1>4. gen["seg"] = "live" /\ l.row = "seg" =>
        /\ rows'["seg"].cl \in {"pending", "owned", "failed"}
        /\ rows'["seg"].fence = rows["seg"].fence
  <2> SUFFICES ASSUME gen["seg"] = "live", l.row = "seg"
               PROVE  /\ rows'["seg"].cl \in {"pending", "owned", "failed"}
                      /\ rows'["seg"].fence = rows["seg"].fence
    OBVIOUS
  <2> DEFINE R == Recorded(rows["seg"], "failed", JournalHandle("seg", l.op), l.op.fence)
             F == [rows["seg"] EXCEPT !.rec = "failed"]
  <2>1. /\ l.op.fence = rows["seg"].fence
        /\ rows["seg"].cl \in {"pending", "owned", "failed"}
    BY <1>1 DEF SegInv, SegInCustody, StopPcs
  <2>2. "failed" \in Cleanups /\ JournalHandle("seg", l.op) \in Handles
    BY <1>2, Names, HandleKnown, SMTT(20)
  <2>3. R.cl = "failed" /\ R.fence = l.op.fence
    BY <1>2, <2>2, RecordedRow
  <2>4. F.cl = rows["seg"].cl /\ F.fence = rows["seg"].fence
    BY <1>2 DEF RowRec
  <2>5. \/ rows' = rows \/ rows' = [rows EXCEPT !["seg"] = R] \/ rows' = [rows EXCEPT !["seg"] = F]
    BY DEF MarkFailed, LWrite
  <2> HIDE DEF R, F
  <2>6. rows'["seg"] = rows["seg"] \/ rows'["seg"] = R \/ rows'["seg"] = F
    BY <1>2, <2>5
  <2> QED BY <2>1, <2>3, <2>4, <2>6, SMTT(20)
<1>5. l.row = "outer" => rows'["seg"] = rows["seg"]
  BY <1>2, RowNames DEF MarkFailed, LWrite
<1> QED BY <1>1, <1>2, <1>3, <1>4, <1>5, LoopKeeps, SMTT(20) DEF SegInv, SegInCustody

LEMMA CheckLeaseSeg ==
  ASSUME OuterInv, SegInv, s.pc \notin ResumePcs, CheckLease
  PROVE  SegInv' /\ CustodyStep
<1>1. PICK pc \in {"confirm", "mark_failed", "release", "cancel"} :
        /\ l' = [l EXCEPT !.pc = pc]
        /\ pc \in {"confirm", "release"} => l.op.cl = "stopped"
  BY DEF CheckLease, Goto
<1>2. l.pc = "stop" /\ UNCHANGED <<fence, rows, gen, s>> /\ l \in LoopRec
  BY DEF CheckLease, At, Store4, OuterInv, TypeOK
<1>3. lease'.owner = lease.owner /\ lease'.fence = lease.fence
  <2>1. lease' = lease \/ lease' = [lease EXCEPT !.expired = FALSE]
    BY DEF CheckLease
  <2> QED BY <2>1 DEF OuterInv, TypeOK, LeaseRec
<1>4. l'.pc = pc /\ l'.row = l.row /\ l'.op = l.op
  BY <1>1, <1>2, SMTT(20) DEF LoopRec
<1>5. gen["seg"] = "live" /\ l.row = "seg" => l.op.fence = rows["seg"].fence /\ l.op.cl # "stopped"
  BY <1>2 DEF SegInv, SegInCustody, StopPcs
<1> QED BY <1>1, <1>2, <1>3, <1>4, <1>5, LoopKeeps, SMTT(20) DEF SegInv, SegInCustody

LEMMA CancelSeg ==
  ASSUME OuterInv, SegInv, s.pc \notin ResumePcs, CancelBackend
  PROVE  SegInv' /\ CustodyStep
<1>1. PICK pc \in {"record_stopped", "mark_failed"} :
        /\ l' = [l EXCEPT !.pc = pc]
        /\ \/ gen' = [gen EXCEPT ![GenerationOf(l.row)] =
                         IF gen[GenerationOf(l.row)] = "live" THEN "off"
                         ELSE gen[GenerationOf(l.row)]]
           \/ gen' = gen /\ pc = "mark_failed"
  BY SMTT(20) DEF CancelBackend, Goto
<1>2. l.pc = "cancel" /\ UNCHANGED <<lease, fence, rows, s>> /\ l \in LoopRec
  BY DEF CancelBackend, At, OuterInv, TypeOK
<1>3. l'.pc = pc /\ l'.row = l.row /\ l'.op = l.op /\ l.row \in {"outer", "seg"}
  BY <1>1, <1>2, RowNames, SMTT(20) DEF LoopRec
<1>4. /\ \A g \in Restored : gen'[g] = "live" => gen[g] = "live"
      /\ l.row = "seg" /\ pc = "record_stopped" => gen'["seg"] # "live"
  BY <1>1, <1>3, SMTT(20) DEF OuterInv, TypeOK, GenerationOf, Generations, Restored
<1>5. gen["seg"] = "live" /\ l.row = "seg" => l.op.fence = rows["seg"].fence
  BY <1>2 DEF SegInv, SegInCustody, StopPcs
<1>6. gen'["seg"] = "live" => gen["seg"] = "live"
  BY <1>4 DEF Restored
<1> QED BY <1>1, <1>2, <1>3, <1>4, <1>5, <1>6, LoopKeeps, RowNames, SMTT(20) DEF SegInv, SegInCustody

\* A stop procedure gives back the lease of its own generation, which is stopped.
LEMMA ReleaseSeg ==
  ASSUME OuterInv, SegInv, s.pc \notin ResumePcs, ReleaseFence
  PROVE  SegInv' /\ CustodyStep
<1>1. l.pc = "release" /\ UNCHANGED <<fence, rows, gen, s>> /\ l \in LoopRec
  BY DEF ReleaseFence, At, Store4, OuterInv, TypeOK
<1>2. l.row \in {"outer", "seg"} /\ l.pc \in StopPcs
  BY <1>1, RowNames DEF LoopRec, StopPcs
<1>3. PICK pc \in {"confirm", "mark_failed", l.err} : l' = [l EXCEPT !.pc = pc]
  BY DEF ReleaseFence, Goto
<1>4. l'.pc = pc /\ l'.row = l.row /\ l'.op = l.op
  BY <1>1, <1>3 DEF LoopRec
<1>5. CASE lease' = lease
  <2>1. l.row = "seg" => gen["seg"] # "live"
    BY <1>1, SegStopped
  <2> QED BY <1>1, <1>2, <1>4, <1>5, <2>1, LoopKeeps, RowNames, ZenonT(40) DEF SegInv, SegInCustody
<1>6. CASE lease' # lease
  <2>1. lease' = NoLease /\ Holds(l.op.fence)
    BY <1>6, Zenon DEF ReleaseFence, AfterRelease
  <2>2. CASE l.row = "outer"
    <3>1. l.op.fence = rows["outer"].fence /\ gen["fresh"] # "live"
      BY <1>1, <1>2, <2>2, SMTT(20) DEF OuterInv, OuterStop
    <3>2. gen["seg"] # "live"
      BY <2>1, <3>1, OneRestored, FencesAreNumbers, SMTT(20) DEF OuterInv, SegInv, SegInCustody, Holds
    <3> QED BY <1>1, <2>1, <3>1, <3>2, NothingResumed, Resting, SMTT(20) DEF CustodyStep, NoneRestored
  <2>3. CASE l.row = "seg"
    <3>1. gen["seg"] # "live" /\ rows["outer"].fence < l.op.fence
      BY <1>1, <1>2, <2>3, SegStopped, SMTT(20) DEF OuterInv, OuterIsOlder
    <3>2. gen["fresh"] # "live"
      BY <2>1, <3>1, FencesAreNumbers, SMTT(20) DEF OuterInv, FreshInCustody, Holds
    <3> QED BY <1>1, <2>1, <3>1, <3>2, NothingResumed, Resting, SMTT(20) DEF CustodyStep, NoneRestored
  <2> QED BY <1>2, <2>2, <2>3
<1> QED BY <1>5, <1>6, SMTT(20)

LEMMA StopRecordsSeg ==
  ASSUME OuterInv, SegInv, s.pc \notin ResumePcs, RecordStopped \/ Confirm \/ Dispose
  PROVE  SegInv' /\ CustodyStep
<1>1. /\ l.pc \in {"record_stopped", "confirm", "dispose"} /\ UNCHANGED <<lease, fence, gen>>
      /\ l \in LoopRec /\ l.row \in {"outer", "seg"} /\ l.pc \in StopPcs
  BY RowNames DEF RecordStopped, Confirm, Dispose, At, Store4, OuterInv, TypeOK, LoopRec, StopPcs
<1>2. CASE l.row = "outer"
  <2>1. s' = s
    BY <1>1, <1>2, SMTT(20) DEF RecordStopped, Confirm, Dispose, Store4, OuterInv, OuterStop
  <2>2. rows'["seg"] = rows["seg"]
    BY <1>2, RowNames DEF RecordStopped, Confirm, Dispose, LWrite, OuterInv, TypeOK
  <2>3. \E pc : l' = [l EXCEPT !.pc = pc]
    BY DEF RecordStopped, Confirm, Dispose, LWrite, Goto
  <2>4. l'.row = "outer"
    BY <1>1, <1>2, <2>3, SMTT(20) DEF LoopRec
  <2> QED BY <1>1, <2>1, <2>2, <2>4, LoopAside, SMTT(20)
<1>3. CASE l.row = "seg"
  <2>1. gen["seg"] # "live"
    BY <1>1, <1>3, SegStopped
  <2>2. s' = s \/ s' = AtRest
    BY DEF RecordStopped, Confirm, Dispose, Store4
  <2>3. s'.pc \notin ResumePcs
    BY <2>2, Resting DEF ResumePcs
  <2> QED BY <1>1, <2>1, <2>3, NothingResumed, SMTT(20) DEF CustodyStep
<1> QED BY <1>1, <1>2, <1>3, SMTT(20)

\* The retry of an in-memory release works with the segment's own token.
LEMMA StartPassSeg ==
  ASSUME OuterInv, SegInv, s.pc \notin ResumePcs, StartPass
  PROVE  SegInv' /\ CustodyStep
<1>1. UNCHANGED <<lease, fence, rows, gen, s>> /\ l \in LoopRec /\ rows["seg"] \in RowRec
  BY RowNames DEF StartPass, OuterInv, TypeOK
<1>2. CASE ~(s.pc = "fenced" /\ s.h # "none")
  <2>1. l' = [l EXCEPT !.pc = "recover"]
    BY <1>2 DEF StartPass
  <2>2. l'.pc \notin StopPcs
    BY <1>1, <2>1 DEF LoopRec, StopPcs
  <2> QED BY <1>1, <2>2, LoopAside
<1>3. CASE s.pc = "fenced" /\ s.h # "none"
  <2> DEFINE op == [rows["seg"] EXCEPT !.fence = s.fence,
                                       !.cl = IF s.h = "stopped" THEN "pending" ELSE @]
             k == StopFirst("seg", "memory", "recover", "recover", op)
  <2>1. l' = [k EXCEPT !.pc = IF s.h = "stopped" THEN "record_stopped" ELSE "cancel"]
    BY <1>3 DEF StartPass
  <2>2. op.fence = s.fence
    BY <1>1 DEF RowRec
  <2> HIDE DEF op
  <2>3. k.op = op /\ l'.op = k.op /\ (s.h # "stopped" => l'.pc = "cancel")
    BY <1>1, <2>1, SMTT(20) DEF StopFirst, LoopRec
  <2> HIDE DEF k
  <2>4. gen["seg"] = "live" => s.h # "stopped" /\ s.fence = rows["seg"].fence
    BY <1>3 DEF SegInv, SegInCustody
  <2> QED BY <1>1, <2>2, <2>3, <2>4, LoopKeeps, ZenonT(40) DEF SegInv, SegInCustody
<1> QED BY <1>2, <1>3

LEMMA CleanupRowSeg ==
  ASSUME OuterInv, SegInv, s.pc \notin ResumePcs, CleanupRow
  PROVE  SegInv' /\ CustodyStep
<1>1. /\ l.pc = "cleanup" /\ UNCHANGED <<fence, gen, s>> /\ l \in LoopRec
      /\ rows \in [Rows -> RowRec] /\ lease \in LeaseRec
  BY DEF CleanupRow, At, Store4, OuterInv, TypeOK
<1>2. PICK r \in l.todo :
        LET op == Resolved(r) IN
           \/ /\ l' = [l EXCEPT !.todo = @ \ {r}] /\ UNCHANGED <<lease, rows>>
           \/ /\ l' = [l EXCEPT !.todo = @ \ {r}]
              /\ lease' = IF Holds(op.fence) THEN [lease EXCEPT !.expired = FALSE] ELSE lease
              /\ rows' = [rows EXCEPT ![r] = Recorded(op, "owned", "real", op.fence)]
           \/ /\ UNCHANGED lease
              /\ l' = [StopFirst(r, "cleanup", "cleanup", "cleanup", op) EXCEPT !.todo = @ \ {r}]
              /\ rows' = [rows EXCEPT ![r] = op]
  BY DEF CleanupRow
<1> DEFINE op == Resolved(r)
<1>3. r \in Rows /\ r \in {"outer", "seg"}
  BY <1>1, RowNames, SMTT(20) DEF LoopRec
<1>4. op \in RowRec /\ op.cl = rows[r].cl /\ op.fence = rows[r].fence
  BY <1>3, ResolvedRow DEF OuterInv
<1> HIDE DEF op
<1>5. l' = [l EXCEPT !.todo = @ \ {r}] => l'.pc \notin StopPcs
  BY <1>1 DEF LoopRec, StopPcs
<1>6. CASE l' = [l EXCEPT !.todo = @ \ {r}] /\ UNCHANGED <<lease, rows>>
  BY <1>1, <1>5, <1>6, LoopAside, SMTT(20)
<1>7. CASE /\ l' = [l EXCEPT !.todo = @ \ {r}]
           /\ lease' = IF Holds(op.fence) THEN [lease EXCEPT !.expired = FALSE] ELSE lease
           /\ rows' = [rows EXCEPT ![r] = Recorded(op, "owned", "real", op.fence)]
  <2>1. lease'.owner = lease.owner /\ lease'.fence = lease.fence
    BY <1>1, <1>7, SMTT(20) DEF LeaseRec
  <2>2. "owned" \in Cleanups /\ "real" \in Handles /\ op.fence \in Int
    BY <1>4, Names, SMTT(20) DEF RowRec
  <2> DEFINE row == Recorded(op, "owned", "real", op.fence)
  <2>3. row.cl = "owned" /\ row.fence = op.fence
    BY <1>4, <2>2, RecordedRow
  <2> HIDE DEF row
  <2>4. rows'["seg"] = rows["seg"] \/ (r = "seg" /\ rows'["seg"] = row)
    BY <1>1, <1>3, <1>7, RowNames, SMTT(20) DEF row
  <2> QED BY <1>1, <1>4, <1>5, <1>7, <2>1, <2>3, <2>4, LoopKeeps, SMTT(20) DEF SegInv, SegInCustody
<1>8. CASE /\ UNCHANGED lease
           /\ l' = [StopFirst(r, "cleanup", "cleanup", "cleanup", op) EXCEPT !.todo = @ \ {r}]
           /\ rows' = [rows EXCEPT ![r] = op]
  <2> DEFINE k == StopFirst(r, "cleanup", "cleanup", "cleanup", op)
  <2>1. "cleanup" \in Modes /\ "cleanup" \in LoopPcs
    BY SMTT(20) DEF Modes, LoopPcs
  <2>2. k \in LoopRec /\ k.pc = "stop" /\ k.row = r /\ k.op = op
    BY <1>1, <1>3, <1>4, <2>1, LoopStops, SMTT(20)
  <2> HIDE DEF k
  <2>3. l'.pc = "stop" /\ l'.row = r /\ l'.op = op
    BY <1>3, <1>8, <2>2, LoopNotes DEF k
  <2>4. rows'["seg"] = rows["seg"] \/ (r = "seg" /\ rows'["seg"] = op)
    BY <1>1, <1>3, <1>8, RowNames, SMTT(20)
  <2> QED BY <1>1, <1>4, <1>8, <2>3, <2>4, LoopKeeps, RowNames, SMTT(20) DEF SegInv, SegInCustody
<1> QED BY <1>2, <1>6, <1>7, <1>8, SMTT(20) DEF op

\* A plain grant is refused by every open row, so nothing restored is running; a
\* segment that is going to be resumed has the lease before it does anything.
LEMMA AdmitSeg ==
  ASSUME OuterInv, SegInv, s.pc \notin ResumePcs, Admit
  PROVE  SegInv' /\ CustodyStep
<1>1. /\ UNCHANGED <<rows, gen>> /\ l' = [l EXCEPT !.pc = "idle"] /\ l \in LoopRec
      /\ s \in SegmentRec /\ fence \in Int
  BY DEF Admit, Goto, OuterInv, TypeOK
<1>2. l'.pc = "idle" /\ "idle" \notin StopPcs
  BY <1>1 DEF LoopRec, StopPcs
<1>3. CASE UNCHANGED <<wl, lease, fence, s>>
  BY <1>1, <1>2, <1>3, LoopAside, SMTT(20)
<1>4. CanAcquire => NoneRestored
  <2>1. CanAcquire => rows["outer"].cl \notin Open /\ rows["seg"].cl \notin Open
    BY RowNames DEF CanAcquire, Unresolved
  <2> QED BY <2>1 DEF NoneRestored, Open, OuterInv, FreshInCustody, SegInv, SegInCustody
<1>5. CASE CanAcquire /\ lease' = Granted("u") /\ fence' = fence + 1 /\ UNCHANGED s
  BY <1>1, <1>4, <1>5, NothingResumed DEF CustodyStep, NoneRestored, Granted
<1>6. CASE /\ CanAcquire /\ lease' = Granted("v") /\ fence' = fence + 1
           /\ s' = [AtRest EXCEPT !.pc = "arm", !.fence = fence + 1, !.rev = wl.rev + 1]
  <2>1. AtRest \in SegmentRec
    BY Resting
  <2>2. s'.pc = "arm" /\ s'.fence = fence + 1
    BY <1>6, <2>1 DEF SegmentRec
  <2>3. lease'.owner = "v" /\ lease'.fence = fence + 1
    BY <1>6 DEF Granted
  <2>4. SegInv'
    BY <1>1, <1>2, <1>4, <1>6, <2>2, <2>3, SMTT(20) DEF SegInv, ResumeAlone, SegInCustody, NoneRestored
  <2> QED BY <1>1, <1>4, <1>6, <2>3, <2>4, SMTT(20) DEF CustodyStep
<1> QED BY <1>3, <1>5, <1>6 DEF Admit

LEMMA LoopSeg ==
  ASSUME ~Overlap, OuterInv, SegInv, LoopStep
  PROVE  SegInv' /\ CustodyStep
<1>1. s.pc \notin ResumePcs
  BY LoopRests
<1>2. CASE StopProcedure
  BY <1>1, <1>2, MarkFailedSeg, CheckLeaseSeg, CancelSeg, ReleaseSeg, StopRecordsSeg, SMTT(20)
     DEF StopProcedure
<1>3. CASE StartPass \/ CleanupRow \/ Admit
  BY <1>1, <1>3, StartPassSeg, CleanupRowSeg, AdmitSeg, SMTT(20)
<1>4. CASE RecoverPass \/ StartCleanup \/ EndPass \/ Restart
  BY <1>1, <1>4, PassesAside
<1>5. CASE PreemptVictim
  BY <1>1, <1>5, PassesAside, PreemptSeg, SMTT(20) DEF PreemptVictim
<1> QED BY <1>2, <1>3, <1>4, <1>5 DEF LoopStep

\* A segment that has no running generation gives back its own lease only, which
\* a fresh generation does not run under.
LEMMA EndingSeg ==
  ASSUME OuterInv, SegInv,
         \/ SProgress \/ SPrepareEnd \/ SFinish \/ SPreempted \/ SFail \/ SRecordStopped
         \/ SReleaseTerminal \/ STerminal \/ SConfirm
  PROVE  SegInv' /\ CustodyStep
<1>1. /\ s \in SegmentRec /\ gen \in [Generations -> {"none", "live", "off"}]
      /\ s.pc \in {"orig", "finish", "preempted", "fail", "record_stopped", "release_terminal",
                    "terminal", "confirm"}
  BY DEF OuterInv, TypeOK, SProgress, SPrepareEnd, SFinish, SPreempted, SFail, SRecordStopped,
         SReleaseTerminal, STerminal, SConfirm, SAt
<1>2. gen["seg"] # "live"
  BY <1>1 DEF SegInv, SegInCustody
<1>3. /\ UNCHANGED fence
      /\ gen' = gen \/ gen' = [gen EXCEPT !["orig"] = "off"]
      /\ lease' = lease \/ (gen' = gen /\ lease' = AfterRelease(s.fence))
  BY DEF SProgress, SPrepareEnd, SFinish, SPreempted, SFail, SRecordStopped, SReleaseTerminal,
         STerminal, SConfirm, Loop3
<1>4. gen'["seg"] # "live" /\ gen'["fresh"] = gen["fresh"]
  BY <1>1, <1>2, <1>3, SMTT(20) DEF Generations
<1>5. \/ s' = s /\ s.pc = "orig"
      \/ s' = AtRest
      \/ \E n : s' = [s EXCEPT !.pc = "finish", !.rev = n]
      \/ \E pc \in {"confirm", "release_terminal", "terminal"} : s' = [s EXCEPT !.pc = pc]
      \/ s' = [s EXCEPT !.pc = "fenced", !.h = "stopped"]
  BY ZenonT(40) DEF SProgress, SPrepareEnd, SFinish, SPreempted, SFail, SRecordStopped, SReleaseTerminal,
         STerminal, SConfirm, SAt, SGoto
<1>6. s'.pc \notin ResumePcs
  BY <1>1, <1>5, Resting, ZenonT(40) DEF SegmentRec, ResumePcs
<1>7. CASE lease' = lease
  BY <1>2, <1>3, <1>4, <1>6, <1>7, NothingResumed, SMTT(20) DEF CustodyStep, Restored
<1>8. CASE lease' # lease
  <2>1. Holds(s.fence) /\ lease' = NoLease /\ gen' = gen
    BY <1>3, <1>8 DEF AfterRelease
  <2>2. gen["fresh"] # "live"
    BY <2>1 DEF OuterInv, FreshInCustody, Holds
  <2> QED BY <1>2, <1>3, <1>4, <1>6, <2>1, <2>2, NothingResumed, Resting, SMTT(20) DEF CustodyStep, NoneRestored
<1> QED BY <1>7, <1>8, SMTT(20)

LEMMA ArmingSeg ==
  ASSUME OuterInv, SegInv, SArm \/ SPend
  PROVE  SegInv' /\ CustodyStep
<1>1. /\ s \in SegmentRec /\ s.pc \in {"arm", "pend"} /\ UNCHANGED <<lease, fence, gen, l>>
      /\ rows["seg"] \in RowRec /\ rows \in [Rows -> RowRec]
  BY RowNames, SMTT(20) DEF OuterInv, TypeOK, SArm, SPend, SAt, Loop3
<1>2. gen["seg"] # "live" /\ l.pc = "idle" /\ lease.owner = "v" /\ lease.fence = s.fence
  BY <1>1 DEF SegInv, SegInCustody, ResumeAlone, ResumePcs
<1>3. PICK pc \in {"pend", "resume", "fail"} :
        /\ s' = [s EXCEPT !.pc = pc]
        /\ pc = "resume" => rows' = [rows EXCEPT !["seg"] =
                 [Recorded(rows["seg"], "pending", "none", s.fence) EXCEPT !.fail = TRUE]]
  BY DEF SArm, SPend, SWrite, SGoto
<1>4. s'.pc = pc /\ s'.fence = s.fence
  BY <1>1, <1>3, SMTT(20) DEF SegmentRec
<1>5. pc = "resume" => rows'["seg"].cl = "pending" /\ rows'["seg"].fence = s.fence
  <2>1. "pending" \in Cleanups /\ "none" \in Handles /\ s.fence \in Int
    BY Names, FencesAreNumbers, SMTT(20) DEF OuterInv
  <2> DEFINE R == Recorded(rows["seg"], "pending", "none", s.fence)
             F == [R EXCEPT !.fail = TRUE]
  <2>2. R \in RowRec /\ R.cl = "pending" /\ R.fence = s.fence
    BY <1>1, <2>1, RecordedRow
  <2>3. pc = "resume" => rows' = [rows EXCEPT !["seg"] = F]
    BY <1>3
  <2> HIDE DEF R
  <2>4. F.cl = "pending" /\ F.fence = s.fence
    BY <2>2, SMTT(20) DEF RowRec
  <2> HIDE DEF F
  <2> QED BY <1>1, <2>3, <2>4, RowNames, SMTT(20)
<1>6. SegInv'
  BY <1>1, <1>2, <1>4, <1>5, SMTT(20) DEF SegInv, ResumeAlone, SegInCustody
<1> QED BY <1>1, <1>6 DEF CustodyStep

\* The segment's generation comes to life under the lease the pending row names,
\* and nothing else restored is running then.
LEMMA ResumeSeg ==
  ASSUME OuterInv, SegInv, SResume
  PROVE  SegInv' /\ CustodyStep
<1>1. /\ s \in SegmentRec /\ s.pc = "resume" /\ UNCHANGED <<lease, fence, l>>
      /\ rows["seg"] \in RowRec /\ rows \in [Rows -> RowRec]
      /\ gen \in [Generations -> {"none", "live", "off"}]
  <2>1. s.pc = "resume" /\ UNCHANGED <<lease, fence, l>>
    BY Zenon DEF SResume, SAt, Loop3
  <2> QED BY <2>1, RowNames DEF OuterInv, TypeOK
<1>2. /\ gen["seg"] # "live" /\ l.pc = "idle" /\ lease.owner = "v" /\ lease.fence = s.fence
      /\ rows["seg"].cl = "pending" /\ rows["seg"].fence = s.fence
  BY <1>1, SMTT(20) DEF SegInv, SegInCustody, ResumeAlone, ResumePcs
<1>3. NoneRestored
  BY <1>2 DEF NoneRestored, OuterInv, FreshInCustody
<1>4. /\ gen' = gen \/ gen' = [gen EXCEPT !["seg"] = "live"] \/ gen' = [gen EXCEPT !["seg"] = "off"]
      /\ \/ s' = [s EXCEPT !.pc = "own"]
         \/ s' = [s EXCEPT !.pc = "record_stopped", !.h = "deferred"] /\ gen' = [gen EXCEPT !["seg"] = "off"]
         \/ s' = [s EXCEPT !.pc = "fenced", !.h = "none"]
      /\ \/ rows' = rows
         \/ rows' = [rows EXCEPT !["seg"] = Recorded(rows["seg"], "pending", "none", s.fence)]
  BY DEF SResume, SGoto
<1>5. /\ s'.fence = s.fence /\ s'.pc \in {"own", "record_stopped", "fenced"}
      /\ s'.pc = "fenced" => s'.h = "none"
      /\ s'.pc = "record_stopped" => gen'["seg"] # "live"
  BY <1>1, <1>4, Zenon DEF SegmentRec, Generations
<1>6. rows'["seg"].cl = "pending" /\ rows'["seg"].fence = s.fence
  <2>1. "pending" \in Cleanups /\ "none" \in Handles /\ s.fence \in Int
    BY Names, FencesAreNumbers, SMTT(20) DEF OuterInv
  <2> DEFINE R == Recorded(rows["seg"], "pending", "none", s.fence)
  <2>2. R.cl = "pending" /\ R.fence = s.fence
    BY <1>1, <2>1, RecordedRow
  <2>3. rows' = rows \/ rows' = [rows EXCEPT !["seg"] = R]
    BY <1>4, Zenon
  <2> HIDE DEF R
  <2> QED BY <1>1, <1>2, <2>2, <2>3, RowNames, SMTT(20)
<1>7. SegInv'
  BY <1>1, <1>2, <1>5, <1>6, SMTT(20) DEF SegInv, ResumeAlone, SegInCustody, ResumePcs, StopPcs
<1>8. CustodyStep
  BY <1>1, <1>2, <1>3, <1>4, SMTT(20) DEF CustodyStep, Restored, Generations
<1> QED BY <1>7, <1>8

\* A segment with a generation to look after keeps its row open under its token.
LEMMA HoldingSeg ==
  ASSUME OuterInv, SegInv, SOwn \/ SPublish \/ SObserve \/ SCancel
  PROVE  SegInv' /\ CustodyStep
<1>1. /\ s \in SegmentRec /\ UNCHANGED <<lease, fence, l>>
      /\ s.pc \in {"own", "publish", "seg", "cancel", "cancel_deferred", "cancel_retained"}
      /\ rows["seg"] \in RowRec /\ rows \in [Rows -> RowRec]
      /\ gen \in [Generations -> {"none", "live", "off"}]
  BY RowNames DEF OuterInv, TypeOK, SOwn, SPublish, SObserve, SCancel, SAt, Loop3
<1>2. \A g \in Restored : gen'[g] = "live" => gen[g] = "live"
  BY <1>1, SMTT(20) DEF SOwn, SPublish, SObserve, SCancel, Restored, Generations
<1>3. /\ s'.fence = s.fence
      /\ gen'["seg"] = "live" => s'.pc \in {"publish", "seg", "cancel", "cancel_deferred",
                                             "cancel_retained", "fenced"}
      /\ gen'["seg"] = "live" /\ s'.pc = "fenced" => s'.h = "real"
      /\ s'.pc \in ResumePcs => s.pc = "own" /\ s'.pc = "publish"
  <2>1. CASE SOwn
    BY <1>1, <2>1, Zenon DEF SOwn, SAt, SGoto, SegmentRec, ResumePcs
  <2>2. CASE SPublish
    BY <1>1, <2>2 DEF SPublish, SGoto, SegmentRec, ResumePcs
  <2>3. CASE SObserve
    BY <1>1, <2>3 DEF SObserve, SGoto, SegmentRec, ResumePcs, Generations
  <2>4. CASE SCancel
    <3>1. \/ /\ gen' = [gen EXCEPT !["seg"] = IF gen["seg"] = "live" THEN "off" ELSE gen["seg"]]
             /\ \/ s' = [s EXCEPT !.pc = "release_terminal"]
                \/ s' = [s EXCEPT !.pc = "record_stopped", !.h = "deferred"]
                \/ s' = [s EXCEPT !.pc = "fenced", !.h = "stopped"]
          \/ s' = [s EXCEPT !.pc = "fenced", !.h = "real"]
      BY <2>4, SMTT(20) DEF SCancel, SGoto
    <3> QED BY <1>1, <3>1, ZenonT(40) DEF SegmentRec, ResumePcs, Generations
  <2> QED BY <2>1, <2>2, <2>3, <2>4, SMTT(20)
<1>4. gen'["seg"] = "live" =>
        \/ rows'["seg"] = rows["seg"]
        \/ rows'["seg"].cl \in {"pending", "owned"} /\ rows'["seg"].fence = s.fence
  <2>1. /\ "pending" \in Cleanups /\ "owned" \in Cleanups /\ "real" \in Handles
        /\ s.fence \in Int
    BY Names, FencesAreNumbers, SMTT(20) DEF OuterInv
  <2> DEFINE P == Recorded(rows["seg"], "pending", "real", s.fence)
             O == Recorded(rows["seg"], "owned", "real", s.fence)
             F == [P EXCEPT !.fail = TRUE]
  <2>2. /\ P \in RowRec /\ P.cl = "pending" /\ P.fence = s.fence
        /\ O.cl = "owned" /\ O.fence = s.fence
    BY <1>1, <2>1, RecordedRow
  <2>3. gen'["seg"] = "live" =>
          \/ rows' = rows \/ rows' = [rows EXCEPT !["seg"] = P]
          \/ rows' = [rows EXCEPT !["seg"] = O] \/ rows' = [rows EXCEPT !["seg"] = F]
    <3>1. CASE SCancel
      <4>1. \/ gen' = [gen EXCEPT !["seg"] = IF gen["seg"] = "live" THEN "off" ELSE gen["seg"]]
               /\ UNCHANGED budget
            \/ rows' = [rows EXCEPT !["seg"] = F]
        BY <3>1 DEF SCancel
      <4> QED BY <1>1, <4>1 DEF Generations
    <3>2. CASE SOwn \/ SPublish \/ SObserve
      BY <3>2 DEF SOwn, SPublish, SObserve
    <3> QED BY <3>1, <3>2
  <2> HIDE DEF P
  <2>4. F.cl = "pending" /\ F.fence = s.fence
    BY <2>2 DEF RowRec
  <2> HIDE DEF O, F
  <2> QED BY <1>1, <2>2, <2>3, <2>4, RowNames, SMTT(20)
<1>5. gen'["seg"] = "live" => gen["seg"] = "live"
  BY <1>2, SMTT(20) DEF Restored
<1>6. ResumeAlone'
  BY <1>1, <1>3, SMTT(20) DEF SegInv, ResumeAlone, ResumePcs
<1>7. SegInCustody'
  BY <1>1, <1>3, <1>4, <1>5, SMTT(20) DEF SegInv, SegInCustody
<1> QED BY <1>1, <1>2, <1>6, <1>7, SMTT(20) DEF SegInv, CustodyStep

LEMMA OtherSeg ==
  ASSUME OuterInv, SegInv, SAssign \/ NewcomerEnds \/ Crash \/ Expire \/ UNCHANGED vars
  PROVE  SegInv' /\ CustodyStep
<1>1. CASE SAssign \/ UNCHANGED vars
  <2>1. UNCHANGED <<lease, fence, rows, gen, l, s>>
    BY <1>1 DEF SAssign, vars
  <2> QED BY <2>1, ZenonT(40) DEF SegInv, ResumeAlone, SegInCustody, CustodyStep
<1>2. CASE NewcomerEnds
  <2>1. UNCHANGED <<fence, gen, s>> /\ lease.owner = "u" /\ lease' = NoLease
    BY <1>2, Zenon DEF NewcomerEnds
  <2>2. NoneRestored /\ s.pc \notin ResumePcs
    BY <2>1 DEF NoneRestored, OuterInv, FreshInCustody, SegInv, ResumeAlone, SegInCustody
  <2> QED BY <2>1, <2>2, NothingResumed, Resting, SMTT(20) DEF NoneRestored, CustodyStep
<1>3. CASE Crash
  <2>1. /\ UNCHANGED <<lease, fence, rows>> /\ s' = AtRest
        /\ l' = [Idle EXCEPT !.pc = "down"]
    BY <1>3 DEF Crash
  <2>2. \A g \in Generations : gen'[g] = "live" => gen[g] = "live"
    BY <1>3 DEF Crash
  <2>3. l'.pc \notin StopPcs
    <3>1. Idle \in LoopRec
      BY Resting
    <3> QED BY <2>1, <3>1 DEF LoopRec, StopPcs
  <2>4. gen'["seg"] = "live" => gen["seg"] = "live"
    BY <2>2 DEF Generations
  <2>5. SegInv'
    BY <2>1, <2>3, <2>4, Resting, SMTT(20) DEF SegInv, ResumeAlone, SegInCustody, ResumePcs
  <2> QED BY <2>1, <2>2, <2>5 DEF CustodyStep, Restored, Generations
<1>4. CASE Expire
  <2>1. /\ UNCHANGED <<fence, rows, gen, l, s>> /\ lease' = [lease EXCEPT !.expired = TRUE]
        /\ lease \in LeaseRec
    BY <1>4 DEF Expire, OuterInv, TypeOK
  <2>2. lease'.owner = lease.owner /\ lease'.fence = lease.fence
    BY <2>1 DEF LeaseRec
  <2> QED BY <2>1, <2>2 DEF SegInv, ResumeAlone, SegInCustody, CustodyStep
<1> QED BY <1>1, <1>2, <1>3, <1>4, SMTT(20)

LEMMA NextSeg ==
  ASSUME ~Overlap, OuterInv, SegInv, [Next]_vars
  PROVE  SegInv' /\ CustodyStep
<1>1. CASE LoopStep
  BY <1>1, LoopSeg
<1>2. CASE Segment
  BY <1>2, EndingSeg, ArmingSeg, ResumeSeg, HoldingSeg, OtherSeg, SMTT(20) DEF Segment
<1>3. CASE NewcomerEnds \/ Crash \/ Expire \/ UNCHANGED vars
  BY <1>3, OtherSeg
<1> QED BY <1>1, <1>2, <1>3 DEF Next

-----------------------------------------------------------------------------
\* The refinement.

LEMMA CustodyStepRefines ==
  ASSUME TypeOK, TypeOK', CustodyStep
  PROVE  [Custody!Next]_(Custody!vars)
<1> DEFINE S == {g \in Restored : gen[g] = "live"}
           T == {g \in Restored : gen'[g] = "live"}
<1>1. /\ "fresh" \in Generations /\ "seg" \in Generations
      /\ gen \in [Generations -> {"none", "live", "off"}] /\ fence \in Int
  BY DEF Generations, TypeOK
<1>2. NoneRestored => S = {}
  BY SMTT(20) DEF NoneRestored, Restored
<1>3. CASE /\ lease'.owner = lease.owner /\ fence' = fence
           /\ \A g \in Restored : gen'[g] = "live" => gen[g] = "live"
  <2>1. T \in SUBSET S
    BY <1>3
  <2>2. Custody!Stop
    BY <1>3, <2>1 DEF Custody!Stop
  <2> QED BY <2>2 DEF Custody!Next
<1>4. CASE /\ lease.owner = "v" /\ NoneRestored /\ UNCHANGED <<lease, fence>>
           /\ \E g \in Restored : gen' = [gen EXCEPT ![g] = "live"]
  <2> PICK g \in Restored : gen' = [gen EXCEPT ![g] = "live"]
    BY <1>4, Zenon
  <2>1. g \in Generations /\ gen'[g] = "live"
    BY <1>1 DEF Restored
  <2>2. \A h \in Restored : h # g => gen'[h] # "live"
    BY <1>1, <1>4 DEF NoneRestored, Restored
  <2>3. T = {g}
    BY <2>1, <2>2, SMTT(20)
  <2>4. Custody!Restore(g)
    BY <1>2, <1>4, <2>3 DEF Custody!Restore
  <2> QED BY <2>4 DEF Custody!Next
<1>5. CASE lease'.owner = "none" /\ NoneRestored /\ UNCHANGED <<gen, fence>>
  <2>1. Custody!Release
    BY <1>2, <1>5 DEF Custody!Release
  <2> QED BY <2>1 DEF Custody!Next
<1>6. CASE lease'.owner \in {"v", "u"} /\ NoneRestored /\ fence' = fence + 1 /\ UNCHANGED gen
  <2>1. fence' > fence
    BY <1>1, <1>6
  <2>2. Custody!Grant(lease'.owner)
    BY <1>2, <1>6, <2>1 DEF Custody!Grant
  <2> QED BY <1>6, <2>2 DEF Custody!Next
<1> QED BY <1>3, <1>4, <1>5, <1>6, ZenonT(40) DEF CustodyStep

LEMMA InitRefines ==
  ASSUME Init
  PROVE  SegInv /\ Custody!Init
<1>1. gen["seg"] # "live" /\ gen["fresh"] # "live" /\ s.pc = "orig"
  BY SMTT(20) DEF Init, Generations, AtRest
<1>2. SegInv
  BY <1>1 DEF SegInv, ResumeAlone, SegInCustody, ResumePcs
<1>3. {g \in Restored : gen[g] = "live"} = {}
  BY <1>1 DEF Restored
<1>4. lease.owner = "v" /\ fence = 1
  BY DEF Init
<1> QED BY <1>2, <1>3, <1>4 DEF Custody!Init

\* A generation that a segment resumed runs under the accelerator lease whose fence
\* its row in the checkpoint journal names, the row is open, and whoever works on
\* the row, the goroutine or a pass, has that fence and has not proven a stop.
\* It needs that no pass of the loop runs while ResumeWithLease is under way:
\* cleanupCheckpointOperation may otherwise confirm the row of a generation that
\* the resume then starts.
THEOREM SegmentIsInCustody ==
  ASSUME ~Overlap
  PROVE  Spec => []SegInv
<1>1. Init => OuterInv /\ SegInv
  BY InitOuter, InitRefines
<1>2. OuterInv /\ SegInv /\ [Next]_vars => OuterInv' /\ SegInv'
  BY NextOuter, NextSeg
<1> QED BY <1>1, <1>2, PTL DEF Spec

\* The checkpoint recovery of the manager implements the custody promise: the
\* accelerator is granted to one workload at a time under a newer token, and is
\* taken back or granted anew only while no restored generation runs on it, for any
\* number of crashes, failed writes and cancellations, grants and revisions, under
\* the same assumption about the passes.
THEOREM RecoveryKeepsCustody ==
  ASSUME ~Overlap
  PROVE  Spec => CustodyKept
<1>1. Init => Custody!Init
  BY InitRefines
<1>2. OuterInv /\ OuterInv' /\ SegInv /\ [Next]_vars => [Custody!Next]_(Custody!vars)
  BY NextSeg, CustodyStepRefines DEF OuterInv
<1> QED BY <1>1, <1>2, SpecOuter, SegmentIsInCustody, PTL DEF Spec, CustodyKept, Custody!Spec

=============================================================================
