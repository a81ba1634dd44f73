------------------------ MODULE CheckpointRecovery ------------------------
(***************************************************************************)
(* Custody of restored generations (internal/workloads/manager.go).        *)
(*                                                                         *)
(* A running stream of the victim workload v is checkpointed to make room  *)
(* for a newcomer u.  When the checkpoint cannot be turned into a queued   *)
(* victim, the manager restores it ("fresh"); when it can, a later stream  *)
(* segment resumes it ("seg").  Either way a generation comes to life      *)
(* whose only durable owner is a row of the checkpoint journal:            *)
(*   rows.outer   the recovery intent <transition>:outer-recovery          *)
(*   rows.seg     the segment's own row restore:<workload>:<checkpoint>    *)
(* Two threads of the controller work on them: l, the manager's loop, with *)
(* its recovery and cleanup passes and the preemption it starts, and s,    *)
(* the goroutine of the stream segment.  The controller may crash between  *)
(* any two steps; store writes and backend cancellations may fail.         *)
(***************************************************************************)
EXTENDS Integers

CONSTANTS Troubles,     \* records [faults, crashes]: failures one behaviour may meet
          MaxRevision,  \* bound on the progress writes to the workload row
          MaxFence,     \* bound on accelerator grants
          Overlap       \* may a pass of the loop run while a segment is being resumed?

VARIABLES wl,      \* workload row of v: status, execution handle, checkpoint ref, revision
          lease,   \* accelerator lease row: owner, fence, expired
          fence,   \* the store's fencing counter
          rows,    \* custody rows of the checkpoint journal
          phys,    \* has the row's physical operation an assigned slot?
          gen,     \* backend generations: none, live, off
          l,       \* the manager's loop
          s,       \* the stream segment
          budget   \* failures still to come

vars == <<wl, lease, fence, rows, phys, gen, l, s, budget>>

Rows == {"outer", "seg"}
Generations == {"orig", "fresh", "seg"}
Restored == {"fresh", "seg"}
GenerationOf(r) == IF r = "outer" THEN "fresh" ELSE "seg"
Open == {"armed", "pending", "owned", "failed", "stopped"}
NoRow == [cl |-> "unset", rec |-> "unset", hd |-> "none", slot |-> FALSE, fence |-> 0, rev |-> 0, fail |-> FALSE]
NoLease == [owner |-> "none", fence |-> 0, expired |-> FALSE]
AtRest == [pc |-> "none", fence |-> 0, h |-> "none", rev |-> 0]
Idle == [pc |-> "idle", row |-> "outer", mode |-> "unset", ok |-> "unset", err |-> "unset", op |-> NoRow,
         seen |-> [status |-> "unset", exec |-> "none", ref |-> FALSE, rev |-> 0], todo |-> {}, boot |-> FALSE]

Init ==
  /\ wl = [status |-> "running", exec |-> "orig", ref |-> FALSE, rev |-> 1]
  /\ lease = [owner |-> "v", fence |-> 1, expired |-> FALSE]
  /\ fence = 1
  /\ rows = [r \in Rows |-> NoRow]
  /\ phys = [r \in Rows |-> FALSE]
  /\ gen = [g \in Generations |-> IF g = "orig" THEN "live" ELSE "none"]
  /\ l = Idle
  /\ s = [AtRest EXCEPT !.pc = "orig", !.fence = 1]
  /\ budget \in Troubles

-----------------------------------------------------------------------------
\* The store.

Unresolved(r) == rows[r].cl \in Open

\* A plain Acquire is refused by a live lease and by every open custody row.
CanAcquire == /\ \A r \in Rows : ~Unresolved(r)
              /\ lease.owner = "none" \/ lease.expired
              /\ fence < MaxFence

Granted(w) == [owner |-> w, fence |-> fence + 1, expired |-> FALSE]

Holds(f) == lease.owner = "v" /\ lease.fence = f

\* Release: absent is fine, another owner's or another token's lease is not.
AfterRelease(f) == IF Holds(f) THEN NoLease ELSE lease
ReleaseFails(f) == lease.owner # "none" /\ ~Holds(f)

Fault == budget.faults > 0 /\ budget' = [budget EXCEPT !.faults = @ - 1]

\* The row after recording state c with handle h under fence f.
Recorded(row, c, h, f) ==
  [row EXCEPT !.cl = c, !.fence = f, !.hd = IF h = "none" THEN @ ELSE h,
              !.slot = @ \/ h \in {"real", "synth"}]

\* cleanupJournalHandle: the recorded handle, else one rebuilt from the row.
JournalHandle(r, op) ==
  IF op.hd # "none" THEN op.hd
  ELSE IF op.slot \/ (r = "seg" /\ phys["seg"]) THEN "synth" ELSE "blank"

\* resolveCheckpointCleanupIdentity: the outer row learns the slot of :compensate.
Resolved(r) == IF r = "outer" /\ phys["outer"] THEN [rows[r] EXCEPT !.slot = TRUE] ELSE rows[r]

-----------------------------------------------------------------------------
\* Steps of the loop.  A write either lands (next pc a) or fails (next pc b).

At(pc) == l.pc = pc
Goto(pc) == l' = [l EXCEPT !.pc = pc]

LWrite(r, row, a, b) ==
  \/ rows' = [rows EXCEPT ![r] = row] /\ Goto(a) /\ UNCHANGED budget
  \/ Fault /\ Goto(b) /\ UNCHANGED rows

\* Entering a stop procedure on row r: "cleanup" is cleanupCheckpointOperation,
\* "recovery" cancelCheckpointRecoveryHandle, "fresh" cleanupFreshCheckpointRestore,
\* "memory" retryInMemoryLeaseReleases.  Control returns to pc ok or err.
StopFirst(r, mode, ok, err, op) ==
  [l EXCEPT !.pc = "stop", !.row = r, !.mode = mode, !.ok = ok, !.err = err, !.op = op]

Store4 == <<wl, phys, gen, s>>

\* markCheckpointCleanupFailed or markCheckpointRecoveryIntentFailed, by procedure.
MarkFailed ==
  /\ At("mark_failed")
  /\ IF l.mode = "memory" THEN Goto(l.err) /\ UNCHANGED <<rows, budget>>
     ELSE LWrite(l.row,
                 IF l.mode = "cleanup"
                   THEN Recorded(rows[l.row], "failed", JournalHandle(l.row, l.op), l.op.fence)
                   ELSE [rows[l.row] EXCEPT !.rec = "failed"],
                 l.err, l.err)
  /\ UNCHANGED <<lease, fence, Store4>>

\* The exact lease is the proof that the generation is still ours to stop.
CheckLease ==
  /\ At("stop")
  /\ LET mine == Holds(l.op.fence)
         renews == l.mode \in {"cleanup", "recovery"}
         known == l.mode # "cleanup" \/ l.op.slot \/ l.op.hd # "none"
     IN /\ lease' = IF renews /\ mine THEN [lease EXCEPT !.expired = FALSE] ELSE lease
        /\ Goto(IF renews /\ ~mine
                  THEN IF l.mode = "cleanup" /\ lease.owner = "none" /\ l.op.cl = "stopped"
                         THEN "confirm" ELSE "mark_failed"
                ELSE IF l.op.cl = "stopped" THEN "release"
                ELSE IF known THEN "cancel" ELSE "mark_failed")
  /\ UNCHANGED <<fence, rows, budget, Store4>>

\* Mutant: a cancellation error is taken for a stop.
CancelIgnoringError ==
  /\ At("cancel")
  /\ \/ gen' = [gen EXCEPT ![GenerationOf(l.row)] = IF @ = "live" THEN "off" ELSE @] /\ UNCHANGED budget
     \/ Fault /\ UNCHANGED gen
  /\ Goto("record_stopped")
  /\ UNCHANGED <<wl, lease, fence, rows, phys, s>>

\* The adapter's Cancel: success proves the stop; an error proves nothing.
CancelBackend ==
  /\ At("cancel")
  /\ LET g == GenerationOf(l.row)
         stoppedGen == [gen EXCEPT ![g] = IF @ = "live" THEN "off" ELSE @]
         h == IF l.mode = "memory" THEN "real" ELSE JournalHandle(l.row, l.op)
     IN \/ h # "blank" /\ gen' = stoppedGen /\ Goto("record_stopped") /\ UNCHANGED budget
        \/ h = "blank" /\ Goto("mark_failed") /\ UNCHANGED <<gen, budget>>
        \/ h # "blank" /\ Fault /\ gen' \in {gen, stoppedGen} /\ Goto("mark_failed")
  /\ UNCHANGED <<wl, lease, fence, rows, phys, s>>

RecordStopped ==
  /\ At("record_stopped")
  /\ LWrite(l.row, Recorded(rows[l.row], "stopped", JournalHandle(l.row, l.op), l.op.fence),
            "release", l.err)
  /\ UNCHANGED <<lease, fence, Store4>>

ReleaseFence ==
  /\ At("release")
  /\ \/ /\ ~ReleaseFails(l.op.fence)
        /\ lease' = AfterRelease(l.op.fence) /\ Goto("confirm") /\ UNCHANGED budget
     \/ /\ IF ReleaseFails(l.op.fence) THEN UNCHANGED budget ELSE Fault
        /\ Goto(IF l.mode = "fresh" THEN "mark_failed" ELSE l.err) /\ UNCHANGED lease
  /\ UNCHANGED <<fence, rows, Store4>>

Confirm ==
  /\ At("confirm")
  /\ LWrite(l.row, Recorded(rows[l.row], "confirmed", "none", l.op.fence),
            "dispose", IF l.mode = "memory" THEN "dispose" ELSE l.err)
  /\ UNCHANGED <<lease, fence, Store4>>

\* The terminal disposition the row carries; the in-memory entry is dropped.
Dispose ==
  /\ At("dispose")
  /\ wl' = IF (l.mode = "memory" \/ (l.mode = "cleanup" /\ rows[l.row].fail)) /\ wl.status # "ended"
             THEN [wl EXCEPT !.status = "ended", !.rev = @ + 1] ELSE wl
  /\ s' = IF l.mode = "memory" THEN AtRest ELSE s
  /\ Goto(l.ok)
  /\ UNCHANGED <<lease, fence, rows, phys, gen, budget>>

StopProcedure == \/ MarkFailed \/ CheckLease \/ CancelBackend \/ RecordStopped
                 \/ ReleaseFence \/ Confirm \/ Dispose

-----------------------------------------------------------------------------
\* recoverCheckpointRecoveryIntents: the outer row decides what becomes of v.

Intent == rows["outer"].rec \in {"pending", "restored", "failed"}
Look(rec) == [rec EXCEPT !.seen = wl]

\* The passes of the loop follow one another.  Unless Overlap, none of them
\* runs while ResumeWithLease is under way.
Quiet == Overlap \/ s.pc \notin {"arm", "pend", "resume", "own", "publish"}

StartPass ==
  /\ At("idle") /\ Quiet
  /\ l' = IF s.pc = "fenced" /\ s.h # "none"
            THEN [StopFirst("seg", "memory", "recover", "recover",
                            [rows["seg"] EXCEPT !.fence = s.fence, !.cl = IF s.h = "stopped" THEN "pending" ELSE @])
                    EXCEPT !.pc = IF s.h = "stopped" THEN "record_stopped" ELSE "cancel"]
            ELSE [l EXCEPT !.pc = "recover"]
  /\ UNCHANGED <<wl, lease, fence, rows, phys, gen, s, budget>>

\* A published fresh handle is an adoption whose marker was lost.  As in the
\* code, this is tested before the stopped marker.
Adopted == LET op == rows["outer"] IN
  op.rec = "restored" /\ wl.status = "running" /\ wl.rev > op.rev /\ wl.exec = "fresh" /\ ~wl.ref

Recover ==
  /\ At("recover")
  /\ LET op == Resolved("outer")
         unowned == ~Intent
         settled == op.rec = "pending" /\ op.cl = "confirmed"
     IN \/ /\ unowned
           /\ l' = [l EXCEPT !.pc = "cleanup", !.todo = Rows] /\ UNCHANGED <<rows, budget>>
        \/ /\ Intent /\ op.rec # "pending" /\ Adopted
           /\ LWrite("outer", [rows["outer"] EXCEPT !.rec = "adopted"], "cleanup_all", "cleanup_all")
        \/ /\ Intent /\ op.rec # "pending" /\ ~Adopted
           /\ l' = Look(IF op.cl = "stopped"
                          THEN StopFirst("outer", "cleanup", "requeue", "cleanup_all", op)
                        ELSE IF op.rec = "restored" /\ wl.status = "running" /\ wl.rev = op.rev
                          THEN [l EXCEPT !.pc = "adopt_late"]
                        ELSE StopFirst("outer", "recovery", "requeue", "cleanup_all", op))
           /\ rows' = [rows EXCEPT !["outer"] = op] /\ UNCHANGED budget
        \/ /\ op.rec = "pending" /\ wl.status # "running"
           /\ l' = Look(IF settled THEN [l EXCEPT !.pc = "terminalize"]
                        ELSE StopFirst("outer", "cleanup", "terminalize", "cleanup_all", op))
           /\ rows' = [rows EXCEPT !["outer"] = op] /\ UNCHANGED budget
        \/ /\ op.rec = "pending" /\ wl.status = "running" /\ lease.owner # "none"
           /\ l' = Look(IF settled THEN [l EXCEPT !.pc = "requeue_pending"]
                        ELSE StopFirst("outer", "cleanup", "requeue_pending", "cleanup_all", op))
           /\ rows' = [rows EXCEPT !["outer"] = op] /\ UNCHANGED budget
        \/ /\ op.rec = "pending" /\ wl.status = "running" /\ lease.owner = "none" /\ ~op.slot
           /\ LWrite("outer", [op EXCEPT !.cl = "confirmed"], "requeue_pending", "cleanup_all")
        \/ /\ op.rec = "pending" /\ wl.status = "running" /\ lease.owner = "none" /\ op.slot
           /\ Goto("cleanup_all")
           /\ rows' = [rows EXCEPT !["outer"] = op] /\ UNCHANGED budget
  /\ UNCHANGED <<lease, fence, Store4>>

Queued == [wl EXCEPT !.status = "queued", !.exec = "none", !.ref = TRUE, !.rev = @ + 1]

\* Adoption by the pass: a CAS on the running row, then the marker.
AdoptLate ==
  /\ At("adopt_late")
  /\ IF wl.status = "running"
       THEN /\ wl' = [wl EXCEPT !.exec = "fresh", !.ref = FALSE, !.rev = @ + 1]
            /\ Goto("mark_adopted_late")
       ELSE /\ l' = StopFirst("outer", "recovery", "requeue", "cleanup_all", rows["outer"])
            /\ UNCHANGED wl
  /\ UNCHANGED <<lease, fence, rows, phys, gen, s, budget>>

MarkAdoptedLate ==
  /\ At("mark_adopted_late")
  /\ LWrite("outer", [rows["outer"] EXCEPT !.rec = "adopted"], "cleanup_all", "cleanup_all")
  /\ UNCHANGED <<lease, fence, Store4>>

\* After a confirmed stop the victim goes back to the queue with its snapshot.
Requeue ==
  /\ l.pc \in {"requeue", "requeue_pending"}
  /\ IF wl.status = "running" /\ l.seen.status = "running"
       THEN wl' = Queued /\ Goto("mark_requeued")
       ELSE UNCHANGED wl /\ Goto(IF l.pc = "requeue" THEN "mark_requeued" ELSE "cleanup_all")
  /\ UNCHANGED <<lease, fence, rows, phys, gen, s, budget>>

MarkRequeued ==
  /\ At("mark_requeued")
  /\ LWrite("outer", [rows["outer"] EXCEPT !.rec = IF l.seen.status = "ended" THEN "terminalized" ELSE "requeued"],
            "cleanup_all", "cleanup_all")
  /\ UNCHANGED <<lease, fence, Store4>>

Terminalize ==
  /\ At("terminalize")
  /\ LWrite("outer", [rows["outer"] EXCEPT !.rec = "terminalized"], "cleanup_all", "cleanup_all")
  /\ UNCHANGED <<lease, fence, Store4>>

RecoverPass == Recover \/ AdoptLate \/ MarkAdoptedLate \/ Requeue \/ MarkRequeued \/ Terminalize

\* recoverCheckpointCleanupIntents: every open row, whatever its recovery state.
StartCleanup ==
  /\ At("cleanup_all")
  /\ l' = [l EXCEPT !.pc = "cleanup", !.todo = Rows]
  /\ UNCHANGED <<wl, lease, fence, rows, phys, gen, s, budget>>

\* Mutant: a row whose cleanup has failed once is not tried again.
CleanupRowOnce ==
  /\ At("cleanup")
  /\ \E r \in l.todo :
       LET op == Resolved(r)
           rest == [l EXCEPT !.todo = @ \ {r}]
           skipped == ~Unresolved(r) \/ rows[r].cl = "failed" \/ (r = "outer" /\ op.rec = "pending" /\ ~rows[r].slot)
           live == wl.status = "running" /\ op.hd = "real" /\ op.cl # "stopped" /\ wl.exec = GenerationOf(r)
       IN \/ (skipped \/ live) /\ l' = rest /\ UNCHANGED rows
          \/ /\ ~skipped /\ ~live
             /\ l' = [StopFirst(r, "cleanup", "cleanup", "cleanup", op) EXCEPT !.todo = @ \ {r}]
             /\ rows' = [rows EXCEPT ![r] = op]
  /\ UNCHANGED <<lease, fence, budget, Store4>>

CleanupRow ==
  /\ At("cleanup")
  /\ \E r \in l.todo :
       LET op == Resolved(r)
           rest == [l EXCEPT !.todo = @ \ {r}]
           skipped == ~Unresolved(r) \/ (r = "outer" /\ op.rec = "pending" /\ ~rows[r].slot)
           live == wl.status = "running" /\ op.hd = "real" /\ op.cl # "stopped" /\ wl.exec = GenerationOf(r)
       IN \/ skipped /\ l' = rest /\ UNCHANGED <<lease, rows, budget>>
          \/ /\ ~skipped /\ live
             /\ lease' = IF Holds(op.fence) THEN [lease EXCEPT !.expired = FALSE] ELSE lease
             /\ l' = rest
             /\ rows' = [rows EXCEPT ![r] = Recorded(op, "owned", "real", op.fence)]
             /\ UNCHANGED budget
          \/ /\ ~skipped /\ ~live
             /\ l' = [StopFirst(r, "cleanup", "cleanup", "cleanup", op) EXCEPT !.todo = @ \ {r}]
             /\ rows' = [rows EXCEPT ![r] = op]
             /\ UNCHANGED <<lease, budget>>
  /\ UNCHANGED <<fence, Store4>>

\* Start reads the running rows once after its passes: those no custody row
\* fences go back to the queue, or wait for their backend to be stopped.
EndPass ==
  /\ At("cleanup") /\ l.todo = {}
  /\ l' = [Idle EXCEPT !.pc = IF l.boot THEN "idle" ELSE "reconcile"]
  /\ wl' = IF l.boot /\ wl.status = "running" /\ \A r \in Rows : ~Unresolved(r)
             THEN [wl EXCEPT !.status = IF wl.exec = "none" THEN "queued" ELSE "waiting", !.rev = @ + 1]
             ELSE wl
  /\ UNCHANGED <<lease, fence, rows, phys, gen, s, budget>>

-----------------------------------------------------------------------------
\* tryPreempt on behalf of u: checkpoint v, queue it, and undo when that fails.

Preempt ==
  /\ At("reconcile")
  /\ wl.status = "running" /\ wl.exec = "orig" /\ lease.owner = "v"
  /\ \/ /\ gen["orig"] = "live"
        /\ gen' = [gen EXCEPT !["orig"] = "off"]
        /\ l' = [Idle EXCEPT !.pc = "cas_victim", !.seen = wl, !.op = [NoRow EXCEPT !.fence = lease.fence]]
        /\ UNCHANGED budget
     \/ Fault /\ Goto("idle") /\ UNCHANGED gen
  /\ UNCHANGED <<wl, lease, fence, rows, phys, s>>

\* One CAS on the revision tryPreempt read; losing it starts the compensation.
CASVictim ==
  /\ At("cas_victim")
  /\ \/ /\ wl.rev = l.seen.rev /\ wl.status = "running"
        /\ wl' = Queued /\ l' = [l EXCEPT !.pc = "cas_newcomer", !.seen = Queued] /\ UNCHANGED budget
     \/ /\ IF wl.rev = l.seen.rev /\ wl.status = "running" THEN Fault ELSE UNCHANGED budget
        /\ Goto("intent") /\ UNCHANGED wl
  /\ UNCHANGED <<lease, fence, rows, phys, gen, s>>

CASNewcomer ==
  /\ At("cas_newcomer")
  /\ \/ /\ s' = IF s.pc = "orig" THEN [s EXCEPT !.pc = "preempted"] ELSE s
        /\ Goto("idle") /\ UNCHANGED budget
     \/ Fault /\ Goto("intent") /\ UNCHANGED s
  /\ UNCHANGED <<wl, lease, fence, rows, phys, gen>>

\* persistCheckpointRecoveryIntent, before the old fence is given up.
PersistIntent ==
  /\ At("intent")
  /\ LWrite("outer", [NoRow EXCEPT !.cl = "armed", !.rec = "pending", !.fence = l.op.fence, !.rev = l.seen.rev],
            "release_old", "idle")
  /\ UNCHANGED <<lease, fence, Store4>>

ReleaseOld ==
  /\ At("release_old")
  /\ \/ lease' = AfterRelease(l.op.fence) /\ Goto("reacquire") /\ UNCHANGED budget
     \/ Fault /\ Goto("idle") /\ UNCHANGED lease
  /\ UNCHANGED <<fence, rows, Store4>>

\* AcquireAcceleratorLeaseForCheckpointRecovery admits past the armed row it names
\* and turns it pending under the fresh token in the same transaction.
Reacquire ==
  /\ At("reacquire")
  /\ IF lease.owner = "none" /\ ~Unresolved("seg") /\ fence < MaxFence
       THEN /\ lease' = Granted("v") /\ fence' = fence + 1
            /\ rows' = [rows EXCEPT !["outer"].cl = "pending", !["outer"].fence = fence + 1]
            /\ Goto("arm_fresh")
       ELSE Goto("idle") /\ UNCHANGED <<lease, fence, rows>>
  /\ UNCHANGED <<budget, Store4>>

\* The pending record; when it fails the unused lease is given back at once.
ArmFresh ==
  /\ At("arm_fresh")
  /\ \/ Goto("restore") /\ UNCHANGED <<lease, rows, budget>>
     \/ /\ Fault /\ lease' = NoLease /\ Goto("idle")
        /\ rows' = [rows EXCEPT !["outer"].cl = "confirmed"]
  /\ UNCHANGED <<fence, Store4>>

\* ResumeWithLease for :compensate.  Its failure may leave no operation, a
\* slot with nothing running, or a generation running with no handle.
Restore ==
  /\ At("restore")
  /\ \/ /\ gen' = [gen EXCEPT !["fresh"] = "live"] /\ phys' = [phys EXCEPT !["outer"] = TRUE]
        /\ Goto("record_restored") /\ UNCHANGED budget
     \/ /\ Fault /\ Goto("idle")
        /\ \/ UNCHANGED <<gen, phys>>
           \/ /\ phys' = [phys EXCEPT !["outer"] = TRUE]
              /\ \E x \in {"off", "live"} : gen' = [gen EXCEPT !["fresh"] = x]
  /\ UNCHANGED <<wl, lease, fence, rows, s>>

RecordRestored ==
  /\ At("record_restored")
  /\ LWrite("outer", [Recorded(rows["outer"], "owned", "real", rows["outer"].fence) EXCEPT !.rec = "restored"],
            "adopt", "idle")
  /\ UNCHANGED <<lease, fence, Store4>>

\* adoptRestoredCheckpointVictim (the row is still running) or the one-shot CAS
\* of the queued row (the newcomer's CAS had failed).
Adopt ==
  /\ At("adopt")
  /\ IF (wl.status = "running" /\ l.seen.status = "running")
        \/ (l.seen.status = "queued" /\ wl.status = "queued" /\ wl.rev = l.seen.rev)
       THEN /\ wl' = [wl EXCEPT !.status = "running", !.exec = "fresh", !.ref = FALSE, !.rev = @ + 1]
            /\ Goto("mark_adopted")
       ELSE l' = StopFirst("outer", "fresh", "abandoned", "mark_recovery_failed", rows["outer"]) /\ UNCHANGED wl
  /\ UNCHANGED <<lease, fence, rows, phys, gen, s, budget>>

MarkAdopted ==
  /\ At("mark_adopted")
  /\ \/ rows' = [rows EXCEPT !["outer"].rec = "adopted"] /\ Goto("idle") /\ UNCHANGED budget
     \/ /\ Fault /\ UNCHANGED rows
        /\ l' = IF l.seen.status = "queued" THEN [l EXCEPT !.pc = "idle"]
                ELSE StopFirst("outer", "fresh", "abandoned", "mark_recovery_failed", rows["outer"])
  /\ UNCHANGED <<lease, fence, Store4>>

Abandoned ==
  /\ At("abandoned")
  /\ wl' = IF wl.status = "running" THEN Queued ELSE wl
  /\ Goto("abandon_requeued")
  /\ UNCHANGED <<lease, fence, rows, phys, gen, s, budget>>

\* Mutant: the intent is marked requeued whatever became of the stop.
MarkAbandonedRequeued ==
  /\ l.pc \in {"abandon_requeued", "mark_recovery_failed"}
  /\ LWrite("outer", [rows["outer"] EXCEPT !.rec = "requeued"], "idle", "idle")
  /\ UNCHANGED <<lease, fence, Store4>>

MarkAbandoned ==
  /\ \/ At("abandon_requeued") /\ LWrite("outer", [rows["outer"] EXCEPT !.rec = "requeued"], "idle", "idle")
     \/ At("mark_recovery_failed") /\ LWrite("outer", [rows["outer"] EXCEPT !.rec = "failed"], "idle", "idle")
  /\ UNCHANGED <<lease, fence, Store4>>

PreemptVictim ==
  \/ Preempt \/ CASVictim \/ CASNewcomer \/ PersistIntent \/ ReleaseOld \/ Reacquire \/ ArmFresh
  \/ Restore \/ RecordRestored \/ Adopt \/ MarkAdopted \/ Abandoned \/ MarkAbandoned

\* The rest of reconcile: grant the accelerator to the newcomer or to v again.
Admit ==
  /\ At("reconcile")
  /\ \/ Goto("idle") /\ UNCHANGED <<wl, lease, fence, s>>
     \/ CanAcquire /\ lease' = Granted("u") /\ fence' = fence + 1 /\ Goto("idle") /\ UNCHANGED <<wl, s>>
     \/ /\ CanAcquire /\ wl.status = "queued" /\ wl.ref /\ s.pc = "none"
        /\ lease' = Granted("v") /\ fence' = fence + 1
        /\ wl' = [wl EXCEPT !.status = "running", !.rev = @ + 1]
        /\ s' = [AtRest EXCEPT !.pc = "arm", !.fence = fence + 1, !.rev = wl.rev + 1]
        /\ Goto("idle")
  /\ UNCHANGED <<rows, phys, gen, budget>>

NewcomerEnds ==
  /\ lease.owner = "u" /\ l.pc # "down"
  /\ lease' = NoLease
  /\ UNCHANGED <<wl, fence, rows, phys, gen, l, s, budget>>

-----------------------------------------------------------------------------
\* executeStreamSegment.

SAt(pc) == s.pc = pc
SGoto(pc) == s' = [s EXCEPT !.pc = pc]
SWrite(row, a, b) ==
  \/ rows' = [rows EXCEPT !["seg"] = row] /\ SGoto(a) /\ UNCHANGED budget
  \/ Fault /\ SGoto(b) /\ UNCHANGED rows
Loop3 == <<fence, phys, l>>
\* Progress written while the original stream runs; it moves the revision on.
SProgress ==
  /\ SAt("orig") /\ wl.status = "running" /\ wl.rev < MaxRevision
  /\ wl' = [wl EXCEPT !.rev = @ + 1]
  /\ UNCHANGED <<lease, rows, gen, s, budget, Loop3>>

\* The original stream ends, fails or loses its lease: prepareTerminalWorkload
\* writes the segment's copy of the row under the current status and revision.
SPrepareEnd ==
  /\ SAt("orig")
  /\ gen' = [gen EXCEPT !["orig"] = "off"]
  /\ wl' = IF wl.status = "ended" THEN wl ELSE [wl EXCEPT !.exec = "orig", !.ref = FALSE, !.rev = @ + 1]
  /\ s' = [s EXCEPT !.pc = "finish", !.rev = wl'.rev]
  /\ UNCHANGED <<lease, rows, budget, Loop3>>

\* Release, then the terminal status, unless the revision has drifted.
SFinish ==
  /\ SAt("finish")
  /\ lease' = AfterRelease(s.fence)
  /\ wl' = IF wl.rev = s.rev /\ ~ReleaseFails(s.fence) THEN [wl EXCEPT !.status = "ended", !.rev = @ + 1] ELSE wl
  /\ s' = AtRest
  /\ UNCHANGED <<rows, gen, budget, Loop3>>

\* A preempted segment drops its lease; the checkpoint proved the stop.
SPreempted ==
  /\ SAt("preempted")
  /\ lease' = AfterRelease(s.fence)
  /\ s' = AtRest
  /\ UNCHANGED <<wl, rows, gen, budget, Loop3>>

\* prepareResumeCleanupJournal: a confirmed row is left as it is.
SArm ==
  /\ SAt("arm")
  /\ SWrite(IF rows["seg"].cl = "confirmed" THEN rows["seg"]
            ELSE Recorded(rows["seg"], "armed", "none", s.fence), "pend", "fail")
  /\ UNCHANGED <<wl, lease, gen, Loop3>>

SPend ==
  /\ SAt("pend")
  /\ SWrite([Recorded(rows["seg"], "pending", "none", s.fence) EXCEPT !.fail = TRUE], "resume", "fail")
  /\ UNCHANGED <<wl, lease, gen, Loop3>>

\* failAfterReservation before anything reached the backend.
SFail ==
  /\ SAt("fail")
  /\ lease' = AfterRelease(s.fence)
  /\ wl' = IF wl.status = "ended" THEN wl ELSE [wl EXCEPT !.status = "ended", !.rev = @ + 1]
  /\ SGoto("confirm")
  /\ UNCHANGED <<rows, gen, budget, Loop3>>

\* The journal row gets its slot while ResumeWithLease runs.
SAssign ==
  /\ SAt("resume") /\ ~phys["seg"]
  /\ phys' = [phys EXCEPT !["seg"] = TRUE]
  /\ UNCHANGED <<wl, lease, fence, rows, gen, l, s, budget>>

\* ResumeWithLease, watched: it returns a live handle; or the watcher stops a
\* malformed resumed stream; or it fails without a handle, and nothing is known.
SResume ==
  /\ SAt("resume")
  /\ \/ /\ phys["seg"]
        /\ gen' = [gen EXCEPT !["seg"] = "live"] /\ SGoto("own") /\ UNCHANGED <<rows, budget>>
     \/ /\ phys["seg"] /\ Fault
        /\ gen' = [gen EXCEPT !["seg"] = "off"]
        /\ s' = [s EXCEPT !.pc = "record_stopped", !.h = "deferred"] /\ UNCHANGED rows
     \/ /\ Fault /\ s' = [s EXCEPT !.pc = "fenced", !.h = "none"]
        /\ gen' \in {gen} \cup (IF phys["seg"] THEN {[gen EXCEPT !["seg"] = "live"]} ELSE {})
        /\ rows' = [rows EXCEPT !["seg"] = Recorded(@, "pending", "none", s.fence)]
  /\ UNCHANGED <<wl, lease, Loop3>>

SOwn ==
  /\ SAt("own")
  /\ \/ /\ rows' = [rows EXCEPT !["seg"] = Recorded(@, "owned", "real", s.fence)]
        /\ SGoto("publish") /\ UNCHANGED budget
     \/ /\ Fault /\ s' = [s EXCEPT !.pc = "fenced", !.h = "real"]
        /\ rows' \in {rows, [rows EXCEPT !["seg"] = Recorded(@, "pending", "real", s.fence)]}
  /\ UNCHANGED <<wl, lease, gen, Loop3>>

\* The live handle is published before observation; losing that CAS stops it.
SPublish ==
  /\ SAt("publish")
  /\ LET current == wl.status = "running" /\ wl.rev = s.rev IN
     \/ /\ current
        /\ wl' = [wl EXCEPT !.exec = "seg", !.ref = FALSE, !.rev = @ + 1] /\ SGoto("seg") /\ UNCHANGED budget
     \/ /\ IF current THEN Fault ELSE UNCHANGED budget
        /\ SGoto("cancel_retained") /\ UNCHANGED wl
  /\ UNCHANGED <<lease, rows, gen, Loop3>>

\* Observation: the stream ends by itself, or has to be stopped (client gone,
\* protocol error: release first; renewal failed: the deferred cleanup).
SObserve ==
  /\ SAt("seg")
  /\ \/ gen' = [gen EXCEPT !["seg"] = "off"] /\ SGoto("release_terminal") /\ UNCHANGED budget
     \/ SGoto("cancel") /\ UNCHANGED <<gen, budget>>
     \/ Fault /\ SGoto("cancel_deferred") /\ UNCHANGED gen
  /\ UNCHANGED <<wl, lease, rows, Loop3>>

\* cancelReservationBackend; a stop that is not confirmed keeps the reservation.
SCancel ==
  /\ s.pc \in {"cancel", "cancel_deferred", "cancel_retained"}
  /\ LET stoppedGen == [gen EXCEPT !["seg"] = IF @ = "live" THEN "off" ELSE @] IN
     \/ /\ gen' = stoppedGen /\ UNCHANGED budget
        /\ \/ s.pc = "cancel" /\ SGoto("release_terminal") /\ UNCHANGED <<rows, wl>>
           \/ /\ s.pc = "cancel_deferred" /\ s' = [s EXCEPT !.pc = "record_stopped", !.h = "deferred"]
              /\ UNCHANGED <<rows, wl>>
           \/ /\ s.pc = "cancel_retained" /\ s' = [s EXCEPT !.pc = "fenced", !.h = "stopped"]
              /\ rows' = [rows EXCEPT !["seg"] = Recorded(@, "stopped", "none", s.fence)] /\ UNCHANGED wl
     \/ /\ Fault /\ gen' \in {gen, stoppedGen}
        /\ s' = [s EXCEPT !.pc = "fenced", !.h = "real"]
        /\ rows' = [rows EXCEPT !["seg"] = [Recorded(@, "pending", "real", s.fence) EXCEPT !.fail = TRUE]]
        /\ wl' = IF s.pc = "cancel" /\ wl.status # "ended" THEN [wl EXCEPT !.status = "ended", !.rev = @ + 1] ELSE wl
  /\ UNCHANGED <<lease, Loop3>>

SRecordStopped ==
  /\ SAt("record_stopped")
  /\ \/ rows' = [rows EXCEPT !["seg"] = Recorded(@, "stopped", "real", s.fence)] /\ SGoto("release_terminal") /\ UNCHANGED budget
     \/ Fault /\ s' = [s EXCEPT !.pc = "fenced", !.h = "stopped"] /\ UNCHANGED rows
  /\ UNCHANGED <<wl, lease, gen, Loop3>>

\* releaseBeforeTerminal and the terminal status, then the deferred confirmation;
\* a deferred cleanup confirms first and fails the workload last.
SReleaseTerminal ==
  /\ SAt("release_terminal")
  /\ lease' = AfterRelease(s.fence)
  /\ SGoto(IF s.h = "deferred" THEN "confirm" ELSE "terminal")
  /\ UNCHANGED <<wl, rows, gen, budget, Loop3>>

STerminal ==
  /\ SAt("terminal")
  /\ wl' = IF wl.status = "ended" THEN wl ELSE [wl EXCEPT !.status = "ended", !.rev = @ + 1]
  /\ s' = IF s.h = "deferred" THEN AtRest ELSE [s EXCEPT !.pc = "confirm"]
  /\ UNCHANGED <<lease, rows, gen, budget, Loop3>>

\* The deferred confirmation marker; its failure is only logged.
SConfirm ==
  /\ SAt("confirm")
  /\ \/ rows' = [rows EXCEPT !["seg"] = IF @ = NoRow THEN @ ELSE Recorded(@, "confirmed", "none", s.fence)] /\ UNCHANGED budget
     \/ Fault /\ UNCHANGED rows
  /\ s' = IF s.h = "deferred" THEN [s EXCEPT !.pc = "terminal"] ELSE AtRest
  /\ UNCHANGED <<wl, lease, gen, Loop3>>

Segment ==
  \/ SProgress \/ SPrepareEnd \/ SFinish \/ SPreempted \/ SArm \/ SPend \/ SFail \/ SAssign \/ SResume \/ SOwn
  \/ SPublish \/ SObserve \/ SCancel \/ SRecordStopped \/ SReleaseTerminal \/ STerminal \/ SConfirm

-----------------------------------------------------------------------------
\* The controller dies: both threads are gone, streams it carried may end.
Crash ==
  /\ budget.crashes > 0 /\ l.pc # "down"
  /\ budget' = [budget EXCEPT !.crashes = @ - 1]
  /\ l' = [Idle EXCEPT !.pc = "down"] /\ s' = AtRest
  /\ \E X \in SUBSET {g \in Generations : gen[g] = "live"} :
       gen' = [g \in Generations |-> IF g \in X THEN "off" ELSE gen[g]]
  /\ UNCHANGED <<wl, lease, fence, rows, phys>>

Expire ==
  /\ l.pc = "down" /\ lease.owner # "none" /\ ~lease.expired
  /\ lease' = [lease EXCEPT !.expired = TRUE]
  /\ UNCHANGED <<wl, fence, rows, phys, gen, l, s, budget>>

\* Start runs both passes before anything is admitted.
Restart ==
  /\ l.pc = "down"
  /\ l' = [Idle EXCEPT !.pc = "recover", !.boot = TRUE]
  /\ UNCHANGED <<wl, lease, fence, rows, phys, gen, s, budget>>

LoopStep == StartPass \/ StopProcedure \/ RecoverPass \/ StartCleanup \/ CleanupRow \/ EndPass \/ PreemptVictim \/ Admit \/ Restart

Next == LoopStep \/ Segment \/ NewcomerEnds \/ Crash \/ Expire

Spec == Init /\ [][Next]_vars
FairSpec == Spec /\ WF_vars(LoopStep) /\ WF_vars(Segment)

-----------------------------------------------------------------------------
\* The custody promise, by refinement: the newest token is the counter, the
\* holder the lease row, and restored generations are those still running.
Custody == INSTANCE AcceleratorCustody
             WITH Victim <- "v", Newcomer <- "u", None <- "none", Generations <- Restored,
                  holder <- lease.owner, token <- fence, restored <- {g \in Restored : gen[g] = "live"}
CustodyKept == Custody!Spec

\* markCheckpointRecoveryIntent("requeued"): the fresh generation has been
\* stopped and its fence given back before the intent says so.
RequeuedAfterStop ==
  rows["outer"].rec = "requeued" => gen["fresh"] # "live" /\ ~(Holds(rows["outer"].fence) /\ rows["outer"].cl # "unset")

\* A row that names its slot and still holds its fence, left behind between two
\* passes by a segment that is gone, is resolved by the passes of the loop, or
\* its generation is the execution the workload row publishes.
Left(r) == /\ Unresolved(r) /\ rows[r].slot /\ Holds(rows[r].fence)
           /\ s.pc \in {"none", "fenced"} /\ l.pc \in {"idle", "down"}
CustodyEnds ==
  \A r \in Rows : Left(r) ~> (~Unresolved(r) \/ (wl.status = "running" /\ wl.exec = GenerationOf(r)))

\* recoverCheckpointRecoveryIntents: "A stopped cleanup marker is stronger than
\* the projection", so that an intent whose generation has been stopped is
\* requeued or finalized and never marked adopted.
StoppedNeverAdopted ==
  [][rows["outer"].cl = "stopped" /\ rows["outer"].rec # "adopted" =>
       rows'["outer"].rec # "adopted"]_vars

=============================================================================
