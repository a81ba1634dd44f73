------------------------ MODULE CheckpointRecoveryProofs ------------------------
(***************************************************************************)
(* The custody of the generation that a recovery intent (the outer row)     *)
(* restores, for any number of faults, crashes, progress writes and grants, *)
(* and whatever passes run beside a resuming segment.                       *)
(***************************************************************************)
EXTENDS CheckpointRecovery, TLAPS

Cleanups == {"unset", "armed", "pending", "owned", "failed", "stopped", "confirmed"}
Intents == {"unset", "pending", "restored", "failed", "adopted", "requeued", "terminalized"}
Handles == {"none", "blank", "real", "synth"}
Statuses == {"unset", "running", "queued", "waiting", "ended"}
Executions == {"none", "orig", "fresh", "seg"}
Modes == {"unset", "cleanup", "recovery", "fresh", "memory"}
LoopPcs == {"unset", "idle", "down", "recover", "cleanup_all", "cleanup", "reconcile",
            "stop", "mark_failed", "cancel", "record_stopped", "release", "confirm",
            "dispose", "cas_victim", "cas_newcomer", "intent", "release_old", "reacquire",
            "arm_fresh", "restore", "record_restored", "adopt", "mark_adopted",
            "adopt_late", "mark_adopted_late", "requeue", "requeue_pending",
            "mark_requeued", "terminalize", "abandoned", "abandon_requeued",
            "mark_recovery_failed"}
SegmentPcs == {"none", "orig", "finish", "preempted", "arm", "pend", "fail", "resume",
               "own", "publish", "seg", "cancel", "cancel_deferred", "cancel_retained",
               "record_stopped", "release_terminal", "terminal", "confirm", "fenced"}
Outcomes == {"none", "real", "stopped", "deferred"}

RowRec == [cl : Cleanups, rec : Intents, hd : Handles, slot : BOOLEAN, fence : Int,
           rev : Int, fail : BOOLEAN]
WlRec == [status : Statuses, exec : Executions, ref : BOOLEAN, rev : Int]
LeaseRec == [owner : {"none", "v", "u"}, fence : Int, expired : BOOLEAN]
LoopRec == [pc : LoopPcs, row : Rows, mode : Modes, ok : LoopPcs, err : LoopPcs, op : RowRec,
            seen : WlRec, todo : SUBSET Rows, boot : BOOLEAN]
SegmentRec == [pc : SegmentPcs, fence : Int, h : Outcomes, rev : Int]

TypeOK ==
  /\ wl \in WlRec
  /\ lease \in LeaseRec
  /\ fence \in Int
  /\ rows \in [Rows -> RowRec]
  /\ gen \in [Generations -> {"none", "live", "off"}]
  /\ l \in LoopRec
  /\ s \in SegmentRec

\* Where the loop is: between the steps of its passes, in a stop procedure, or on
\* the way from the checkpoint of v to the fresh generation.
PassPcs == {"idle", "down", "recover", "cleanup_all", "cleanup", "reconcile"}
StopPcs == {"stop", "mark_failed", "cancel", "record_stopped", "release", "confirm", "dispose"}
ToIntent == {"cas_victim", "cas_newcomer", "intent"}
ToGrant == {"release_old", "reacquire"}
ToRestore == {"arm_fresh", "restore"}
\* The steps that follow a confirmed stop, and those of a restored generation.
AfterStop == {"requeue", "requeue_pending", "mark_requeued", "terminalize", "abandoned",
              "abandon_requeued"}
Adopting == {"record_restored", "adopt", "mark_adopted", "adopt_late"}
\* The segment before it was preempted, and while it is resumed.
OrigPcs == {"none", "orig", "finish", "preempted"}
ResumePcs == {"arm", "pend", "resume", "own", "publish"}

\* Grants are counted by the store, nobody has a token it has not given out.
TokensGiven ==
  /\ fence >= 1 /\ lease.fence <= fence /\ rows["outer"].fence <= fence
  /\ s.fence >= 0 /\ s.fence <= fence /\ (lease.owner # "none" => lease.fence >= 1)
  /\ l.pc \in ToIntent \cup ToGrant => l.op.fence <= fence

\* As long as the checkpointed stream runs there is nothing to recover, so that v
\* is preempted at most once.
OrigFirst ==
  gen["orig"] = "live" =>
    /\ rows["outer"].cl = "unset" /\ rows["outer"].rec = "unset" /\ rows["seg"].cl = "unset"
    /\ s.pc \in {"orig", "none"} /\ ~wl.ref /\ l.pc \in PassPcs

\* On the way to the fresh generation no segment is resumed and nothing restored.
Preempting ==
  l.pc \in ToIntent \cup ToGrant \cup ToRestore =>
    /\ rows["seg"].cl = "unset" /\ s.pc \in OrigPcs /\ gen["fresh"] # "live"
    /\ l.pc \in ToIntent => rows["outer"].cl = "unset"
    /\ l.pc \in ToGrant => rows["outer"].cl = "armed"
    /\ l.pc \in ToRestore => rows["outer"].cl = "pending"

\* The outer row's token is older than all that a segment was resumed under.
OuterIsOlder ==
  /\ rows["seg"].cl # "unset" => rows["outer"].fence < rows["seg"].fence
  /\ s.pc \notin OrigPcs => rows["outer"].fence < s.fence
  /\ l.pc \in StopPcs /\ l.row = "seg" => rows["outer"].fence < l.op.fence

\* A fresh generation runs under the lease its row names, the row is open, and the
\* segment's goroutine has another token.
FreshInCustody ==
  gen["fresh"] = "live" \/ l.pc \in ToRestore =>
    /\ lease.owner = "v" /\ lease.fence = rows["outer"].fence
    /\ s.fence # rows["outer"].fence
    /\ rows["outer"].cl \in {"pending", "owned", "failed"}

\* A stop procedure on the outer row works with what the row says; from a proven
\* stop on nothing runs, and what follows it starts from the confirmation.
OuterStop ==
  /\ l.pc \in StopPcs /\ l.row = "outer" =>
       /\ l.op.fence = rows["outer"].fence
       /\ l.pc = "stop" => l.op.cl = rows["outer"].cl
       /\ l.pc \in {"record_stopped", "release", "confirm", "dispose"} => gen["fresh"] # "live"
       /\ l.pc = "confirm" => ~Holds(rows["outer"].fence)
       /\ l.pc = "dispose" => rows["outer"].cl = "confirmed"
       /\ l.mode # "memory"
       /\ l.ok \in {"requeue", "requeue_pending", "terminalize", "cleanup", "abandoned"}
       /\ l.err \in {"cleanup_all", "cleanup", "mark_recovery_failed"}
  /\ l.pc \in StopPcs /\ l.row = "seg" => l.ok \in {"cleanup", "recover"} /\ l.err = l.ok
  /\ l.pc \in AfterStop => rows["outer"].cl = "confirmed"

\* The outer row is confirmed when its fence is gone for good, and marked requeued
\* only then; a row somebody works on is not marked.
OuterSettled ==
  /\ rows["outer"].cl = "confirmed" => ~Holds(rows["outer"].fence)
  /\ rows["outer"].rec = "requeued" => rows["outer"].cl = "confirmed"
  /\ \/ l.pc \in ToGrant \cup ToRestore \cup Adopting
     \/ l.pc \in StopPcs /\ l.row = "outer"
     => rows["outer"].rec # "requeued"

OuterInv == /\ TypeOK /\ TokensGiven /\ OrigFirst /\ Preempting /\ OuterIsOlder
            /\ FreshInCustody /\ OuterStop /\ OuterSettled

-----------------------------------------------------------------------------
\* What the writes of the model leave in a record.

LEMMA RowNames ==
  /\ "outer" \in Rows /\ "seg" \in Rows /\ "outer" # "seg"
  /\ \A r \in Rows : r = "outer" \/ r = "seg"
  BY DEF Rows

LEMMA Names ==
  /\ "unset" \in Cleanups /\ "armed" \in Cleanups /\ "pending" \in Cleanups
  /\ "owned" \in Cleanups /\ "failed" \in Cleanups /\ "stopped" \in Cleanups
  /\ "confirmed" \in Cleanups
  /\ "unset" \in Intents /\ "pending" \in Intents /\ "restored" \in Intents
  /\ "failed" \in Intents /\ "adopted" \in Intents /\ "requeued" \in Intents
  /\ "terminalized" \in Intents
  /\ "none" \in Handles /\ "blank" \in Handles /\ "real" \in Handles /\ "synth" \in Handles
  BY DEF Cleanups, Intents, Handles

\* The values everything starts from and goes back to.
LEMMA Resting ==
  /\ NoLease \in LeaseRec /\ NoLease.owner = "none" /\ NoLease.fence = 0
  /\ AtRest \in SegmentRec /\ AtRest.pc = "none" /\ AtRest.fence = 0 /\ AtRest.h = "none"
  /\ NoRow \in RowRec /\ NoRow.cl = "unset" /\ NoRow.rec = "unset" /\ NoRow.fence = 0
  /\ Idle \in LoopRec /\ Idle.pc = "idle" /\ Idle.row = "outer"
<1>1. NoLease \in LeaseRec /\ NoLease.owner = "none" /\ NoLease.fence = 0
  BY DEF NoLease, LeaseRec
<1>2. AtRest \in SegmentRec /\ AtRest.pc = "none" /\ AtRest.fence = 0 /\ AtRest.h = "none"
  BY DEF AtRest, SegmentRec, SegmentPcs, Outcomes
<1>3. NoRow \in RowRec /\ NoRow.cl = "unset" /\ NoRow.rec = "unset" /\ NoRow.fence = 0
  BY DEF NoRow, RowRec, Cleanups, Intents, Handles
<1>4. Idle \in LoopRec /\ Idle.pc = "idle" /\ Idle.row = "outer"
  <2>1. [status |-> "unset", exec |-> "none", ref |-> FALSE, rev |-> 0] \in WlRec
    BY DEF WlRec, Statuses, Executions
  <2>2. "idle" \in LoopPcs /\ "unset" \in LoopPcs /\ "unset" \in Modes /\ "outer" \in Rows
    BY DEF LoopPcs, Modes, Rows
  <2> QED BY <1>3, <2>1, <2>2 DEF Idle, LoopRec
<1> QED BY <1>1, <1>2, <1>3, <1>4

LEMMA FencesAreNumbers ==
  ASSUME TypeOK
  PROVE  /\ rows["outer"].fence \in Int /\ rows["seg"].fence \in Int /\ lease.fence \in Int
         /\ s.fence \in Int /\ fence \in Int /\ l.op.fence \in Int
<1>1. rows["outer"] \in RowRec /\ rows["seg"] \in RowRec /\ l \in LoopRec
  BY RowNames DEF TypeOK
<1>2. l.op \in RowRec
  BY <1>1 DEF LoopRec
<1>3. s \in SegmentRec /\ lease \in LeaseRec /\ fence \in Int
  BY DEF TypeOK
<1> QED BY <1>1, <1>2, <1>3 DEF LeaseRec, SegmentRec, RowRec

LEMMA RecordedRow ==
  ASSUME NEW row \in RowRec, NEW c \in Cleanups, NEW h \in Handles, NEW f \in Int
  PROVE  /\ Recorded(row, c, h, f) \in RowRec
         /\ Recorded(row, c, h, f).cl = c /\ Recorded(row, c, h, f).fence = f
         /\ Recorded(row, c, h, f).rec = row.rec
  BY Zenon DEF RowRec, Recorded

LEMMA ResolvedRow ==
  ASSUME TypeOK, NEW r \in Rows
  PROVE  /\ Resolved(r) \in RowRec
         /\ Resolved(r).cl = rows[r].cl /\ Resolved(r).fence = rows[r].fence
         /\ Resolved(r).rec = rows[r].rec
  BY Zenon DEF TypeOK, RowRec, Resolved

LEMMA HandleKnown ==
  ASSUME NEW r \in Rows, NEW op \in RowRec
  PROVE  JournalHandle(r, op) \in Handles
  BY DEF RowRec, JournalHandle, Handles

LEMMA LoopGoes ==
  ASSUME NEW k \in LoopRec, NEW pc \in LoopPcs, NEW q, q = [k EXCEPT !.pc = pc]
  PROVE  /\ q \in LoopRec /\ q.pc = pc
         /\ q.row = k.row /\ q.mode = k.mode /\ q.ok = k.ok /\ q.err = k.err
         /\ q.op = k.op /\ q.seen = k.seen /\ q.todo = k.todo
  BY DEF LoopRec

LEMMA LoopStops ==
  ASSUME NEW r \in Rows, NEW mode \in Modes, NEW ok \in LoopPcs, NEW err \in LoopPcs,
         NEW op \in RowRec, l \in LoopRec, NEW q, q = StopFirst(r, mode, ok, err, op)
  PROVE  /\ q \in LoopRec /\ q.pc = "stop" /\ q.row = r /\ q.mode = mode
         /\ q.ok = ok /\ q.err = err /\ q.op = op
<1>1. "stop" \in LoopPcs
  BY DEF LoopPcs
<1> QED BY <1>1, Zenon DEF LoopRec, StopFirst

\* The loop's record with its reading of v, or with one row less to do.
LEMMA LoopNotes ==
  ASSUME NEW k \in LoopRec
  PROVE  /\ wl \in WlRec =>
              /\ Look(k) \in LoopRec /\ Look(k).pc = k.pc /\ Look(k).row = k.row
              /\ Look(k).mode = k.mode /\ Look(k).ok = k.ok /\ Look(k).err = k.err
              /\ Look(k).op = k.op
         /\ \A r \in Rows : LET q == [k EXCEPT !.todo = @ \ {r}] IN
              /\ q \in LoopRec /\ q.pc = k.pc /\ q.row = k.row /\ q.mode = k.mode
              /\ q.ok = k.ok /\ q.err = k.err /\ q.op = k.op
<1>1. wl \in WlRec =>
        /\ Look(k) \in LoopRec /\ Look(k).pc = k.pc /\ Look(k).row = k.row
        /\ Look(k).mode = k.mode /\ Look(k).ok = k.ok /\ Look(k).err = k.err
        /\ Look(k).op = k.op
  BY DEF LoopRec, Look
<1>2. \A T \in SUBSET Rows : LET q == [k EXCEPT !.todo = T] IN
        /\ q \in LoopRec /\ q.pc = k.pc /\ q.row = k.row /\ q.mode = k.mode
        /\ q.ok = k.ok /\ q.err = k.err /\ q.op = k.op
  BY DEF LoopRec
<1>3. \A r \in Rows : k.todo \ {r} \in SUBSET Rows
  BY DEF LoopRec
<1>4. \A r \in Rows : LET q == [k EXCEPT !.todo = @ \ {r}] IN
        /\ q \in LoopRec /\ q.pc = k.pc /\ q.row = k.row /\ q.mode = k.mode
        /\ q.ok = k.ok /\ q.err = k.err /\ q.op = k.op
  BY <1>2, <1>3
<1> QED BY <1>1, <1>4

\* The workload row with a new revision.
LEMMA Revised ==
  ASSUME NEW w \in WlRec
  PROVE  /\ \A st \in Statuses : /\ [w EXCEPT !.status = st, !.rev = @ + 1] \in WlRec
                                /\ [w EXCEPT !.status = st, !.rev = @ + 1].ref = w.ref
         /\ [w EXCEPT !.rev = @ + 1] \in WlRec /\ [w EXCEPT !.rev = @ + 1].ref = w.ref
         /\ \A ex \in Executions :
              /\ [w EXCEPT !.exec = ex, !.ref = FALSE, !.rev = @ + 1] \in WlRec
              /\ [w EXCEPT !.exec = ex, !.ref = FALSE, !.rev = @ + 1].ref = FALSE
         /\ \A st \in Statuses, ex \in Executions, b \in BOOLEAN :
              [w EXCEPT !.status = st, !.exec = ex, !.ref = b, !.rev = @ + 1] \in WlRec
<1>1. w.rev + 1 \in Int
  BY DEF WlRec
<1>2. \A n \in Int, st \in Statuses : /\ [w EXCEPT !.status = st, !.rev = n] \in WlRec
                                     /\ [w EXCEPT !.status = st, !.rev = n].ref = w.ref
  BY Zenon DEF WlRec
<1>3. \A n \in Int : [w EXCEPT !.rev = n] \in WlRec /\ [w EXCEPT !.rev = n].ref = w.ref
  BY DEF WlRec
<1>4. \A n \in Int, ex \in Executions :
        /\ [w EXCEPT !.exec = ex, !.ref = FALSE, !.rev = n] \in WlRec
        /\ [w EXCEPT !.exec = ex, !.ref = FALSE, !.rev = n].ref = FALSE
  BY Zenon DEF WlRec
<1>5. \A n \in Int, st \in Statuses, ex \in Executions, b \in BOOLEAN :
        [w EXCEPT !.status = st, !.exec = ex, !.ref = b, !.rev = n] \in WlRec
  BY Zenon DEF WlRec
<1>6. \A st \in Statuses : /\ [w EXCEPT !.status = st, !.rev = @ + 1] \in WlRec
                          /\ [w EXCEPT !.status = st, !.rev = @ + 1].ref = w.ref
  BY <1>1, <1>2, Zenon
<1>7. [w EXCEPT !.rev = @ + 1] \in WlRec /\ [w EXCEPT !.rev = @ + 1].ref = w.ref
  BY <1>1, <1>3
<1>8. \A ex \in Executions :
        /\ [w EXCEPT !.exec = ex, !.ref = FALSE, !.rev = @ + 1] \in WlRec
        /\ [w EXCEPT !.exec = ex, !.ref = FALSE, !.rev = @ + 1].ref = FALSE
  BY <1>1, <1>4, ZenonT(40)
<1>9. \A st \in Statuses, ex \in Executions, b \in BOOLEAN :
        [w EXCEPT !.status = st, !.exec = ex, !.ref = b, !.rev = @ + 1] \in WlRec
  BY <1>1, <1>5, Zenon
<1> QED BY <1>6, <1>7, <1>8, <1>9, Zenon

LEMMA QueuedRow ==
  ASSUME wl \in WlRec
  PROVE  Queued \in WlRec
<1>1. "queued" \in Statuses /\ "none" \in Executions /\ TRUE \in BOOLEAN
  BY DEF Statuses, Executions
<1>2. [wl EXCEPT !.status = "queued", !.exec = "none", !.ref = TRUE, !.rev = @ + 1] \in WlRec
  BY <1>1, Revised, Zenon
<1> QED BY <1>2 DEF Queued

LEMMA RowWritten ==
  ASSUME TypeOK, NEW r \in Rows, NEW row \in RowRec,
         rows' = rows \/ rows' = [rows EXCEPT ![r] = row]
  PROVE  /\ rows' \in [Rows -> RowRec]
         /\ rows'["outer"] = rows["outer"] \/ (r = "outer" /\ rows'["outer"] = row)
         /\ rows'["seg"] = rows["seg"] \/ (r = "seg" /\ rows'["seg"] = row)
  BY RowNames DEF TypeOK

-----------------------------------------------------------------------------
\* Steps that leave custody alone.

\* The loop moves on.  It may renew the lease, rewrite the workload row, refresh an
\* owned row, mark the intent, or confirm a row whose lease is gone.
LEMMA LoopMoves ==
  ASSUME OuterInv, UNCHANGED <<fence, gen, s>>,
         wl' \in WlRec, gen["orig"] = "live" => wl'.ref = wl.ref,
         lease' \in LeaseRec, lease'.owner = lease.owner, lease'.fence = lease.fence,
         rows' \in [Rows -> RowRec],
         rows'["seg"].fence = rows["seg"].fence,
         rows["seg"].cl = "unset" => rows'["seg"].cl = "unset",
         rows'["outer"].fence = rows["outer"].fence,
         \/ rows'["outer"].cl = rows["outer"].cl
         \/ rows'["outer"].cl = "owned" /\ gen["orig"] # "live"
         \/ rows'["outer"].cl = "confirmed" /\ lease.owner = "none" /\ gen["orig"] # "live",
         rows'["outer"].rec = rows["outer"].rec \/ gen["orig"] # "live",
         rows'["outer"].rec = "requeued" => rows'["outer"].cl = "confirmed",
         l' \in LoopRec,
         l'.pc \in PassPcs \cup AfterStop \cup Adopting
                   \cup {"mark_recovery_failed", "mark_adopted_late"},
         gen["orig"] = "live" => l'.pc \in PassPcs,
         l'.pc \in AfterStop => rows'["outer"].cl = "confirmed",
         l'.pc \in Adopting => rows'["outer"].rec # "requeued"
  PROVE  OuterInv'
<1> USE DEF OuterInv
<1>1. TypeOK'
  BY DEF TypeOK
<1>2. l'.pc \notin ToIntent \cup ToGrant \cup ToRestore \cup StopPcs
  BY DEF PassPcs, AfterStop, Adopting, ToIntent, ToGrant, ToRestore, StopPcs
<1>3. TokensGiven' /\ OrigFirst' /\ Preempting' /\ OuterIsOlder'
  BY <1>2 DEF TokensGiven, OrigFirst, Preempting, OuterIsOlder
<1>4. FreshInCustody'
  BY <1>2 DEF FreshInCustody
<1>5. OuterStop' /\ OuterSettled'
  BY <1>2 DEF OuterStop, OuterSettled, Holds
<1> QED BY <1>1, <1>3, <1>4, <1>5

\* The loop enters a stop procedure.
LEMMA LoopEntersStop ==
  ASSUME OuterInv, UNCHANGED <<wl, lease, fence, gen, s>>, gen["orig"] # "live",
         rows' \in [Rows -> RowRec],
         rows'["seg"].fence = rows["seg"].fence, rows'["seg"].cl = rows["seg"].cl,
         rows'["outer"].fence = rows["outer"].fence, rows'["outer"].cl = rows["outer"].cl,
         rows'["outer"].rec = rows["outer"].rec,
         l' \in LoopRec,
         \/ /\ l'.row = "outer" /\ l'.pc = "stop" /\ rows["outer"].rec # "requeued"
            /\ l'.op.fence = rows["outer"].fence /\ l'.op.cl = rows["outer"].cl
            /\ l'.mode # "memory"
            /\ l'.ok \in {"requeue", "requeue_pending", "terminalize", "cleanup", "abandoned"}
            /\ l'.err \in {"cleanup_all", "cleanup", "mark_recovery_failed"}
         \/ /\ l'.row = "seg" /\ l'.pc \in {"stop", "cancel", "record_stopped"}
            /\ rows["outer"].fence < l'.op.fence
            /\ l'.ok \in {"cleanup", "recover"} /\ l'.err = l'.ok
  PROVE  OuterInv'
<1> USE DEF OuterInv
<1>1. TypeOK'
  BY DEF TypeOK
<1>2. /\ l'.pc \notin ToIntent \cup ToGrant \cup ToRestore \cup AfterStop \cup Adopting
      /\ l'.row = "outer" => l'.pc = "stop"
  BY DEF AfterStop, Adopting, ToIntent, ToGrant, ToRestore
<1>3. TokensGiven' /\ OrigFirst' /\ Preempting' /\ OuterIsOlder'
  BY <1>2 DEF TokensGiven, OrigFirst, Preempting, OuterIsOlder
<1>4. FreshInCustody'
  BY <1>2 DEF FreshInCustody
<1>5. OuterStop' /\ OuterSettled'
  BY <1>2 DEF OuterStop, OuterSettled, Holds
<1> QED BY <1>1, <1>3, <1>4, <1>5

\* The segment moves on: it writes its own row under its own token, gives back
\* nothing but its own lease, and starts nothing on its own.
LEMMA SegmentMoves ==
  ASSUME OuterInv, UNCHANGED <<fence, l>>,
         wl' \in WlRec, wl'.ref = wl.ref \/ ~wl'.ref,
         lease' = lease \/ (Holds(s.fence) /\ lease' = NoLease),
         rows' \in [Rows -> RowRec], rows'["outer"] = rows["outer"],
         \/ rows'["seg"].cl = rows["seg"].cl /\ rows'["seg"].fence = rows["seg"].fence
         \/ s.pc \notin OrigPcs /\ rows'["seg"].fence = s.fence,
         gen' \in [Generations -> {"none", "live", "off"}], gen'["fresh"] = gen["fresh"],
         gen'["orig"] = "live" => gen["orig"] = "live" /\ s'.pc \in {"orig", "none"},
         s' \in SegmentRec,
         s'.fence = s.fence \/ (s'.fence = 0 /\ s'.pc = "none"),
         s'.pc \in OrigPcs \/ s.pc \notin OrigPcs
  PROVE  OuterInv'
<1> USE DEF OuterInv
<1>1. lease' \in LeaseRec
  BY Resting DEF TypeOK
<1>2. TypeOK'
  BY <1>1 DEF TypeOK
<1>3. "none" \in OrigPcs /\ "orig" \in OrigPcs
  BY DEF OrigPcs
<1>4. \/ lease'.owner = lease.owner /\ lease'.fence = lease.fence
      \/ lease'.owner = "none" /\ lease'.fence = 0 /\ lease.fence = s.fence
  BY DEF NoLease, Holds
<1>5. TokensGiven'
  BY <1>3, <1>4, FencesAreNumbers DEF TokensGiven
<1>6. OrigFirst' /\ Preempting' /\ OuterIsOlder'
  BY <1>3, <1>4, FencesAreNumbers DEF OrigFirst, Preempting, OuterIsOlder
<1>7. FreshInCustody'
  BY <1>3, <1>4, FencesAreNumbers DEF FreshInCustody, TokensGiven
<1>8. OuterStop' /\ OuterSettled'
  BY <1>4 DEF OuterStop, OuterSettled, Holds
<1> QED BY <1>2, <1>5, <1>6, <1>7, <1>8

-----------------------------------------------------------------------------
\* The stop procedure.

LEMMA MarkFailedOuter ==
  ASSUME OuterInv, MarkFailed
  PROVE  OuterInv'
<1> USE DEF OuterInv
<1>1. /\ l.pc = "mark_failed" /\ UNCHANGED <<wl, lease, fence, gen, s>>
      /\ l' = [l EXCEPT !.pc = l.err] /\ l.err \in LoopPcs
  BY DEF MarkFailed, LWrite, Goto, At, Store4, TypeOK, LoopRec
<1>2. /\ l' \in LoopRec /\ l'.pc = l.err
      /\ l'.row = l.row /\ l'.mode = l.mode /\ l'.ok = l.ok /\ l'.err = l.err
      /\ l'.op = l.op
  BY <1>1, LoopGoes DEF TypeOK
<1>3. PICK row \in RowRec :
        /\ rows' = rows \/ rows' = [rows EXCEPT ![l.row] = row]
        /\ \/ row.cl = rows[l.row].cl /\ row.fence = rows[l.row].fence /\ row.rec = "failed"
           \/ row.cl = "failed" /\ row.fence = l.op.fence /\ row.rec = rows[l.row].rec
  <2>1. /\ rows[l.row] \in RowRec /\ l.op \in RowRec /\ l.op.fence \in Int
        /\ JournalHandle(l.row, l.op) \in Handles
    BY HandleKnown DEF TypeOK, LoopRec, RowRec
  <2>2. [rows[l.row] EXCEPT !.rec = "failed"] \in RowRec
    BY <2>1, Names DEF RowRec
  <2> DEFINE R == Recorded(rows[l.row], "failed", JournalHandle(l.row, l.op), l.op.fence)
  <2>3. R \in RowRec /\ R.cl = "failed" /\ R.fence = l.op.fence /\ R.rec = rows[l.row].rec
    <3>1. "failed" \in Cleanups
      BY Names
    <3> QED BY <2>1, <3>1, RecordedRow
  <2>4. \/ rows' = rows \/ rows' = [rows EXCEPT ![l.row] = R]
        \/ rows' = [rows EXCEPT ![l.row] = [rows[l.row] EXCEPT !.rec = "failed"]]
    BY DEF MarkFailed, LWrite
  <2> HIDE DEF R
  <2> QED BY <2>1, <2>2, <2>3, <2>4 DEF RowRec
<1>4. /\ rows' \in [Rows -> RowRec]
      /\ rows'["outer"] = rows["outer"] \/ (l.row = "outer" /\ rows'["outer"] = row)
      /\ rows'["seg"] = rows["seg"] \/ (l.row = "seg" /\ rows'["seg"] = row)
  BY <1>3, RowWritten DEF TypeOK, LoopRec
<1>5. l.row = "outer" \/ l.row = "seg"
  BY RowNames DEF TypeOK, LoopRec
<1>6. TypeOK'
  BY <1>1, <1>2, <1>4 DEF TypeOK
<1>7. TokensGiven' /\ OrigFirst' /\ Preempting'
  BY <1>1, <1>2, <1>3, <1>4, <1>5 DEF TokensGiven, OrigFirst, Preempting, PassPcs, StopPcs, ToIntent, ToGrant, ToRestore, OuterStop
<1>8. OuterIsOlder'
  BY <1>1, <1>2, <1>3, <1>4, <1>5, SMTT(20) DEF OuterIsOlder, OuterStop, StopPcs
<1>9. FreshInCustody' /\ OuterStop' /\ OuterSettled'
  BY <1>1, <1>2, <1>3, <1>4, <1>5 DEF FreshInCustody, OuterStop, OuterSettled, OuterIsOlder, StopPcs, AfterStop, Adopting, ToIntent, ToGrant, ToRestore, Holds
<1> QED BY <1>6, <1>7, <1>8, <1>9

LEMMA CheckLeaseOuter ==
  ASSUME OuterInv, CheckLease
  PROVE  OuterInv'
<1> USE DEF OuterInv
<1>1. PICK pc \in {"confirm", "mark_failed", "release", "cancel"} :
        /\ l' = [l EXCEPT !.pc = pc]
        /\ pc = "confirm" => lease.owner = "none" /\ l.op.cl = "stopped"
        /\ pc = "release" => l.op.cl = "stopped"
  BY DEF CheckLease, Goto
<1>2. l.pc = "stop" /\ UNCHANGED <<wl, fence, rows, gen, s>>
  BY DEF CheckLease, At, Store4
<1>3. lease' \in LeaseRec /\ lease'.owner = lease.owner /\ lease'.fence = lease.fence
  <2>1. lease' = lease \/ lease' = [lease EXCEPT !.expired = FALSE]
    BY DEF CheckLease
  <2>2. lease \in LeaseRec
    BY DEF TypeOK
  <2> QED BY <2>1, <2>2, Zenon DEF LeaseRec
<1>4. pc \in LoopPcs /\ l \in LoopRec
  BY DEF LoopPcs, TypeOK
<1>5. /\ l' \in LoopRec /\ l'.pc = pc
      /\ l'.row = l.row /\ l'.mode = l.mode /\ l'.ok = l.ok /\ l'.err = l.err
      /\ l'.op = l.op
  BY <1>1, <1>4, LoopGoes
<1>6. l.row = "outer" \/ l.row = "seg"
  BY <1>4, RowNames DEF LoopRec
<1>7. TypeOK'
  BY <1>2, <1>3, <1>5 DEF TypeOK
<1>8. /\ l.pc \in StopPcs /\ l'.pc \in StopPcs
      /\ l'.pc \notin ToIntent \cup ToGrant \cup ToRestore \cup AfterStop \cup Adopting \cup PassPcs
      /\ l.pc \notin PassPcs
  BY <1>2, <1>5 DEF StopPcs, ToIntent, ToGrant, ToRestore, AfterStop, Adopting, PassPcs
<1>9. TokensGiven' /\ OrigFirst' /\ Preempting' /\ OuterIsOlder'
  BY <1>2, <1>3, <1>5, <1>8 DEF TokensGiven, OrigFirst, Preempting, OuterIsOlder
<1>10. FreshInCustody'
  BY <1>2, <1>3, <1>5, <1>8 DEF FreshInCustody
<1>11. OuterStop'
  BY <1>1, <1>2, <1>3, <1>5, <1>6, <1>8, SMTT(20) DEF OuterStop, FreshInCustody, Holds
<1>12. OuterSettled'
  BY <1>2, <1>3, <1>5, <1>8 DEF OuterSettled, Holds
<1> QED BY <1>7, <1>9, <1>10, <1>11, <1>12

\* The stop is proven when Cancel returns without an error, and only then.
LEMMA CancelOuter ==
  ASSUME OuterInv, CancelBackend
  PROVE  OuterInv'
<1> USE DEF OuterInv
<1>1. PICK pc \in {"record_stopped", "mark_failed"} :
        /\ l' = [l EXCEPT !.pc = pc]
        /\ \/ gen' = [gen EXCEPT ![GenerationOf(l.row)] =
                         IF gen[GenerationOf(l.row)] = "live" THEN "off"
                         ELSE gen[GenerationOf(l.row)]]
           \/ gen' = gen /\ pc = "mark_failed"
  BY DEF CancelBackend, Goto
<1>2. l.pc = "cancel" /\ UNCHANGED <<wl, lease, fence, rows, s>>
  BY DEF CancelBackend, At
<1>3. pc \in LoopPcs /\ l \in LoopRec
  BY DEF LoopPcs, TypeOK
<1>4. /\ l' \in LoopRec /\ l'.pc = pc
      /\ l'.row = l.row /\ l'.mode = l.mode /\ l'.ok = l.ok /\ l'.err = l.err
      /\ l'.op = l.op
  BY <1>1, <1>3, LoopGoes
<1>5. l.row = "outer" \/ l.row = "seg"
  BY <1>3, RowNames DEF LoopRec
<1>6. /\ gen' \in [Generations -> {"none", "live", "off"}]
      /\ gen'["orig"] = gen["orig"]
      /\ gen'["fresh"] = "live" => gen["fresh"] = "live"
      /\ l.row = "outer" /\ pc = "record_stopped" => gen'["fresh"] # "live"
  BY <1>1, <1>5 DEF TypeOK, GenerationOf, Generations
<1>7. TypeOK'
  BY <1>2, <1>4, <1>6 DEF TypeOK
<1>8. /\ l.pc \in StopPcs /\ l'.pc \in StopPcs
      /\ l'.pc \notin ToIntent \cup ToGrant \cup ToRestore \cup AfterStop \cup Adopting \cup PassPcs
      /\ l.pc \notin PassPcs
  BY <1>2, <1>4, SMTT(20) DEF StopPcs, ToIntent, ToGrant, ToRestore, AfterStop, Adopting, PassPcs
<1>9. TokensGiven' /\ OrigFirst' /\ Preempting' /\ OuterIsOlder'
  BY <1>2, <1>4, <1>6, <1>8, SMTT(20) DEF TokensGiven, OrigFirst, Preempting, OuterIsOlder
<1>10. FreshInCustody'
  BY <1>2, <1>4, <1>6, <1>8, SMTT(20) DEF FreshInCustody
<1>11. OuterStop'
  BY <1>2, <1>4, <1>5, <1>6, <1>8 DEF OuterStop
<1>12. OuterSettled'
  BY <1>2, <1>4, <1>8 DEF OuterSettled, Holds
<1> QED BY <1>7, <1>9, <1>10, <1>11, <1>12

LEMMA ReleaseOuter ==
  ASSUME OuterInv, ReleaseFence
  PROVE  OuterInv'
<1> USE DEF OuterInv
<1>1. l.pc = "release" /\ UNCHANGED <<wl, fence, rows, gen, s>>
  BY DEF ReleaseFence, At, Store4
<1>2. l.row = "outer" \/ l.row = "seg"
  BY RowNames DEF TypeOK, LoopRec
<1>3. PICK pc \in {"confirm", "mark_failed", l.err} :
        /\ l' = [l EXCEPT !.pc = pc]
        /\ \/ pc = "confirm" /\ lease' = NoLease
           \/ pc = "confirm" /\ lease' = lease /\ lease.owner = "none"
           \/ pc # "confirm" /\ lease' = lease
        /\ lease' # lease => Holds(l.op.fence)
  <2>1. l.err # "confirm"
    BY <1>1, <1>2 DEF OuterStop, StopPcs
  <2>2. CASE ~ReleaseFails(l.op.fence) /\ lease' = AfterRelease(l.op.fence) /\ Goto("confirm")
    BY <2>2 DEF ReleaseFails, AfterRelease, Goto
  <2>3. CASE /\ Goto(IF l.mode = "fresh" THEN "mark_failed" ELSE l.err)
             /\ UNCHANGED lease
    BY <2>1, <2>3 DEF Goto
  <2> QED BY <2>2, <2>3 DEF ReleaseFence
<1>4. pc \in LoopPcs /\ l \in LoopRec
  BY DEF LoopPcs, TypeOK, LoopRec
<1>5. /\ l' \in LoopRec /\ l'.pc = pc
      /\ l'.row = l.row /\ l'.mode = l.mode /\ l'.ok = l.ok /\ l'.err = l.err
      /\ l'.op = l.op
  BY <1>3, <1>4, LoopGoes
<1>6. /\ lease' \in LeaseRec /\ (lease'.owner = "none" \/ lease' = lease)
      /\ pc = "confirm" => lease'.owner = "none"
      /\ lease'.fence = lease.fence \/ lease'.fence = 0
      /\ lease' # lease => lease.fence = l.op.fence /\ lease.owner = "v"
  BY <1>3, Resting DEF TypeOK, Holds
<1>7. TypeOK'
  BY <1>1, <1>5, <1>6 DEF TypeOK
<1>8. l.pc \in StopPcs /\ l.pc \notin PassPcs
  BY <1>1 DEF StopPcs, PassPcs
<1>9. /\ l'.pc \notin ToIntent \cup ToGrant \cup ToRestore \cup AfterStop \cup Adopting
      /\ l'.pc \in StopPcs => l'.pc \in {"confirm", "mark_failed"}
  BY <1>2, <1>3, <1>5, <1>8, SMTT(20) DEF OuterStop, StopPcs, ToIntent, ToGrant, ToRestore, AfterStop, Adopting
<1>10. TokensGiven' /\ OrigFirst' /\ Preempting' /\ OuterIsOlder'
  BY <1>1, <1>5, <1>6, <1>8, <1>9, FencesAreNumbers, SMTT(20)
     DEF TokensGiven, OrigFirst, Preempting, OuterIsOlder
<1>11. FreshInCustody'
  <2>1. gen["fresh"] = "live" => lease' = lease
    BY <1>1, <1>2, <1>6, <1>8, FencesAreNumbers, SMTT(20) DEF FreshInCustody, OuterStop, OuterIsOlder
  <2> QED BY <1>1, <1>5, <1>9, <2>1, SMTT(20) DEF FreshInCustody
<1>12. OuterStop'
  BY <1>1, <1>2, <1>5, <1>6, <1>8, <1>9, SMTT(20) DEF OuterStop, Holds
<1>13. OuterSettled'
  BY <1>1, <1>5, <1>6, <1>8, <1>9 DEF OuterSettled, Holds
<1> QED BY <1>7, <1>10, <1>11, <1>12, <1>13

\* The proven stop is recorded, and after the release confirmed.
LEMMA StopRecordsOuter ==
  ASSUME OuterInv, RecordStopped \/ Confirm
  PROVE  OuterInv'
<1> USE DEF OuterInv
<1>1. l.pc \in {"record_stopped", "confirm"} /\ UNCHANGED <<wl, lease, fence, gen, s>>
  BY DEF RecordStopped, Confirm, At, Store4
<1>2. l.row = "outer" \/ l.row = "seg"
  BY RowNames DEF TypeOK, LoopRec
<1>3. /\ rows[l.row] \in RowRec /\ l.op.fence \in Int
      /\ JournalHandle(l.row, l.op) \in Handles
  <2>1. l \in LoopRec /\ l.row \in Rows /\ l.op \in RowRec
    BY DEF TypeOK, LoopRec
  <2> QED BY <2>1, HandleKnown, FencesAreNumbers DEF TypeOK
<1>4. PICK row \in RowRec, pc \in {"release", "dispose", l.err} :
        /\ l' = [l EXCEPT !.pc = pc]
        /\ row.fence = l.op.fence /\ row.rec = rows[l.row].rec
        /\ \/ row.cl = "stopped" /\ l.pc = "record_stopped"
           \/ row.cl = "confirmed" /\ l.pc = "confirm"
        /\ \/ rows' = [rows EXCEPT ![l.row] = row]
              /\ pc = IF l.pc = "confirm" THEN "dispose" ELSE "release"
           \/ rows' = rows /\ pc \in {"dispose", l.err} /\ (l.mode # "memory" => pc = l.err)
  <2>1. CASE RecordStopped
    <3> DEFINE R == Recorded(rows[l.row], "stopped", JournalHandle(l.row, l.op), l.op.fence)
    <3>1. "stopped" \in Cleanups
      BY Names
    <3>2. R \in RowRec /\ R.cl = "stopped" /\ R.fence = l.op.fence /\ R.rec = rows[l.row].rec
      BY <1>3, <3>1, RecordedRow
    <3>3. /\ l.pc = "record_stopped"
          /\ \/ rows' = [rows EXCEPT ![l.row] = R] /\ l' = [l EXCEPT !.pc = "release"]
             \/ rows' = rows /\ l' = [l EXCEPT !.pc = l.err]
      BY <2>1 DEF RecordStopped, LWrite, Goto, At
    <3> HIDE DEF R
    <3> QED BY <3>2, <3>3
  <2>2. CASE Confirm
    <3> DEFINE R == Recorded(rows[l.row], "confirmed", "none", l.op.fence)
    <3>1. "confirmed" \in Cleanups /\ "none" \in Handles
      BY Names
    <3>2. R \in RowRec /\ R.cl = "confirmed" /\ R.fence = l.op.fence /\ R.rec = rows[l.row].rec
      BY <1>3, <3>1, RecordedRow
    <3>3. /\ l.pc = "confirm"
          /\ \/ rows' = [rows EXCEPT ![l.row] = R] /\ l' = [l EXCEPT !.pc = "dispose"]
             \/ rows' = rows /\ l' = [l EXCEPT !.pc = IF l.mode = "memory" THEN "dispose" ELSE l.err]
      BY <2>2 DEF Confirm, LWrite, Goto, At
    <3> HIDE DEF R
    <3> QED BY <3>2, <3>3
  <2> QED BY <2>1, <2>2
<1>5. pc \in LoopPcs /\ l \in LoopRec /\ l.row \in Rows
  BY DEF LoopPcs, TypeOK, LoopRec
<1>6. /\ l' \in LoopRec /\ l'.pc = pc
      /\ l'.row = l.row /\ l'.mode = l.mode /\ l'.ok = l.ok /\ l'.err = l.err
      /\ l'.op = l.op
  BY <1>4, <1>5, LoopGoes
<1>7. /\ rows' \in [Rows -> RowRec]
      /\ rows'["outer"] = rows["outer"] \/ (l.row = "outer" /\ rows'["outer"] = row)
      /\ rows'["seg"] = rows["seg"] \/ (l.row = "seg" /\ rows'["seg"] = row)
      /\ pc \in {"release", "dispose"} /\ l.row = "outer" /\ l.mode # "memory" /\ pc # l.err
         => rows'["outer"] = row
  <2>1. rows' = rows \/ rows' = [rows EXCEPT ![l.row] = row]
    BY <1>4
  <2>2. rows' = [rows EXCEPT ![l.row] = row] => rows'[l.row] = row
    BY <1>5 DEF TypeOK
  <2> QED BY <1>4, <1>5, <2>1, <2>2, RowWritten
<1>8. TypeOK'
  BY <1>1, <1>6, <1>7 DEF TypeOK
<1>9. l.pc \in StopPcs /\ l.pc \notin PassPcs
  BY <1>1 DEF StopPcs, PassPcs
<1>10. /\ l'.pc \notin ToIntent \cup ToGrant \cup ToRestore \cup AfterStop \cup Adopting
       /\ l'.pc \in StopPcs => l'.pc \in {"release", "dispose"}
       /\ l.err \notin {"release", "dispose"}
  BY <1>2, <1>4, <1>6, <1>9, SMTT(20) DEF OuterStop, StopPcs, ToIntent, ToGrant, ToRestore, AfterStop, Adopting
<1>11. l.row = "outer" => /\ row.fence = rows["outer"].fence /\ gen["fresh"] # "live"
                          /\ l.mode # "memory" /\ rows["outer"].rec # "requeued"
                          /\ l.pc = "confirm" => ~Holds(rows["outer"].fence)
  BY <1>1, <1>4, <1>9 DEF OuterStop, OuterSettled
<1>12. TokensGiven' /\ OrigFirst' /\ Preempting'
  BY <1>1, <1>4, <1>6, <1>7, <1>9, <1>10, <1>11, SMTT(20) DEF TokensGiven, OrigFirst, Preempting
<1>13. OuterIsOlder'
  BY <1>1, <1>4, <1>6, <1>7, <1>9, <1>11, SMTT(20) DEF OuterIsOlder
<1>14. FreshInCustody'
  BY <1>1, <1>4, <1>6, <1>7, <1>10, <1>11, SMTT(20) DEF FreshInCustody
<1>15. OuterStop'
  BY <1>1, <1>2, <1>4, <1>6, <1>7, <1>9, <1>10, <1>11, SMTT(20) DEF OuterStop, Holds
<1>16. OuterSettled'
  BY <1>1, <1>2, <1>4, <1>6, <1>7, <1>9, <1>10, <1>11, SMTT(20) DEF OuterSettled, Holds
<1> QED BY <1>8, <1>12, <1>13, <1>14, <1>15, <1>16, SMTT(20)

\* The procedure returns to where it was called, after a confirmed stop.
LEMMA DisposeOuter ==
  ASSUME OuterInv, Dispose
  PROVE  OuterInv'
<1> USE DEF OuterInv
<1>1. /\ l.pc = "dispose" /\ UNCHANGED <<lease, fence, rows, gen>>
      /\ l' = [l EXCEPT !.pc = l.ok] /\ (s' = AtRest \/ s' = s)
  BY DEF Dispose, At, Goto
<1>2. l.row = "outer" \/ l.row = "seg"
  BY RowNames DEF TypeOK, LoopRec
<1>3. wl' \in WlRec
  <2>1. wl' = wl \/ wl' = [wl EXCEPT !.status = "ended", !.rev = @ + 1]
    BY DEF Dispose
  <2>2. "ended" \in Statuses /\ wl \in WlRec
    BY DEF Statuses, TypeOK
  <2> QED BY <2>1, <2>2, Revised, Zenon
<1>4. l.ok \in LoopPcs /\ l \in LoopRec
  BY DEF TypeOK, LoopRec
<1>5. l' \in LoopRec /\ l'.pc = l.ok
  BY <1>1, <1>4, LoopGoes
<1>6. s' \in SegmentRec /\ (s' = s \/ (s'.pc = "none" /\ s'.fence = 0))
  BY <1>1, Resting DEF TypeOK
<1>7. TypeOK'
  BY <1>1, <1>3, <1>5, <1>6 DEF TypeOK
<1>8. /\ l.pc \in StopPcs /\ l.pc \notin PassPcs /\ "none" \in OrigPcs
      /\ l'.pc \notin StopPcs \cup ToIntent \cup ToGrant \cup ToRestore \cup Adopting
      /\ l'.pc \in AfterStop => rows["outer"].cl = "confirmed"
  BY <1>1, <1>2, <1>5 DEF OuterStop, StopPcs, PassPcs, ToIntent, ToGrant, ToRestore,
     AfterStop, Adopting, OrigPcs
<1>9. TokensGiven' /\ OrigFirst' /\ Preempting' /\ OuterIsOlder'
  BY <1>1, <1>5, <1>6, <1>8, FencesAreNumbers
     DEF TokensGiven, OrigFirst, Preempting, OuterIsOlder
<1>10. FreshInCustody'
  BY <1>1, <1>5, <1>6, <1>8, FencesAreNumbers DEF FreshInCustody, TokensGiven
<1>11. OuterStop' /\ OuterSettled'
  BY <1>1, <1>5, <1>6, <1>8 DEF OuterStop, OuterSettled, Holds
<1> QED BY <1>7, <1>9, <1>10, <1>11

LEMMA StopOuter ==
  ASSUME OuterInv, StopProcedure
  PROVE  OuterInv'
  BY MarkFailedOuter, CheckLeaseOuter, CancelOuter, StopRecordsOuter, ReleaseOuter,
     DisposeOuter DEF StopProcedure

-----------------------------------------------------------------------------
\* The passes.

LEMMA StartPassOuter ==
  ASSUME OuterInv, StartPass
  PROVE  OuterInv'
<1> USE DEF OuterInv
<1>1. l.pc = "idle" /\ UNCHANGED <<wl, lease, fence, rows, gen, s>>
  BY DEF StartPass, At
<1>2. l \in LoopRec /\ rows["seg"] \in RowRec /\ s \in SegmentRec
  BY RowNames DEF TypeOK
<1>3. CASE s.pc = "fenced" /\ s.h # "none"
  <2> DEFINE op == [rows["seg"] EXCEPT !.fence = s.fence,
                                       !.cl = IF s.h = "stopped" THEN "pending" ELSE @]
             k == StopFirst("seg", "memory", "recover", "recover", op)
  <2>1. op \in RowRec /\ op.fence = s.fence
    <3>1. s.fence \in Int /\ "pending" \in Cleanups
      BY FencesAreNumbers, Names
    <3> QED BY <1>2, <3>1, Zenon DEF RowRec
  <2>2. "seg" \in Rows /\ "memory" \in Modes /\ "recover" \in LoopPcs
    BY DEF Rows, Modes, LoopPcs
  <2>3. /\ k \in LoopRec /\ k.row = "seg" /\ k.op = op
        /\ k.ok = "recover" /\ k.err = "recover"
    <3> HIDE DEF op
    <3> QED BY <1>2, <2>1, <2>2, LoopStops
  <2>4. PICK pc \in {"record_stopped", "cancel"} : l' = [k EXCEPT !.pc = pc]
    BY <1>3 DEF StartPass
  <2>5. pc \in LoopPcs
    BY DEF LoopPcs
  <2> HIDE DEF k, op
  <2>6. /\ l' \in LoopRec /\ l'.pc = pc /\ l'.row = "seg" /\ l'.op = op
        /\ l'.ok = "recover" /\ l'.err = "recover"
    BY <2>3, <2>4, <2>5, LoopGoes
  <2>7. gen["orig"] # "live" /\ rows["outer"].fence < l'.op.fence
    BY <1>3, <2>1, <2>6 DEF OrigFirst, OuterIsOlder, OrigPcs
  <2> QED BY <1>1, <2>6, <2>7, LoopEntersStop DEF TypeOK
<1>4. CASE ~(s.pc = "fenced" /\ s.h # "none")
  <2>1. l' = [l EXCEPT !.pc = "recover"] /\ "recover" \in LoopPcs /\ "recover" \in PassPcs
    BY <1>4 DEF StartPass, LoopPcs, PassPcs
  <2>2. l' \in LoopRec /\ l'.pc = "recover"
    BY <1>2, <2>1, LoopGoes
  <2>3. l'.pc \notin AfterStop \cup Adopting
    BY <2>2 DEF AfterStop, Adopting
  <2> QED BY <1>1, <2>1, <2>2, <2>3, LoopMoves DEF TypeOK, OuterSettled
<1> QED BY <1>3, <1>4

\* Recover has found an open intent: nothing else is under way for v.
LEMMA RecoverOuter ==
  ASSUME OuterInv, Recover
  PROVE  OuterInv'
<1> USE DEF OuterInv
<1> DEFINE op == Resolved("outer")
<1>1. l.pc = "recover" /\ UNCHANGED <<wl, lease, fence, gen, s>>
  BY DEF Recover, At, Store4
<1>2. /\ l \in LoopRec /\ wl \in WlRec /\ lease \in LeaseRec /\ rows["outer"] \in RowRec
      /\ rows \in [Rows -> RowRec] /\ "outer" \in Rows
  BY RowNames DEF TypeOK
<1>3. /\ op \in RowRec /\ op.cl = rows["outer"].cl /\ op.fence = rows["outer"].fence
      /\ op.rec = rows["outer"].rec
  BY <1>2, ResolvedRow
<1>4. Intent => gen["orig"] # "live" /\ rows["outer"].rec # "requeued"
  BY DEF Intent, OrigFirst
\* The row learns its slot, or is left alone, or gets another mark.
<1>5. ASSUME NEW row \in RowRec, rows' = rows \/ rows' = [rows EXCEPT !["outer"] = row],
             row.fence = rows["outer"].fence
      PROVE  /\ rows' \in [Rows -> RowRec] /\ rows'["seg"] = rows["seg"]
             /\ rows'["outer"] = rows["outer"] \/ rows'["outer"] = row
  BY <1>2, <1>5, RowWritten, RowNames
<1>6. ASSUME NEW pc \in {"cleanup", "cleanup_all", "adopt_late", "terminalize",
                         "requeue_pending"}
      PROVE  /\ pc \in LoopPcs
             /\ pc \in PassPcs \cup AfterStop \cup Adopting
             /\ pc \in AfterStop => pc \in {"terminalize", "requeue_pending"}
             /\ pc \in Adopting => pc = "adopt_late"
             /\ pc \in {"cleanup", "cleanup_all"} => pc \in PassPcs
  BY <1>6 DEF LoopPcs, PassPcs, AfterStop, Adopting
<1>7. CASE ~Intent /\ l' = [l EXCEPT !.pc = "cleanup", !.todo = Rows] /\ rows' = rows
  <2>1. l' \in LoopRec /\ l'.pc = "cleanup"
    <3>1. "cleanup" \in LoopPcs /\ Rows \in SUBSET Rows
      BY <1>6
    <3> QED BY <1>2, <1>7, <3>1, Zenon DEF LoopRec
  <2>2. l'.pc \notin AfterStop \cup Adopting /\ l'.pc \in PassPcs
    BY <1>6, <2>1 DEF AfterStop, Adopting
  <2> QED BY <1>1, <1>2, <1>7, <2>1, <2>2, LoopMoves DEF OuterSettled
<1>8. ASSUME Intent, NEW row \in RowRec,
             rows' = rows \/ rows' = [rows EXCEPT !["outer"] = row],
             row.fence = rows["outer"].fence, row.rec # "requeued",
             row.cl = rows["outer"].cl \/ (row.cl = "confirmed" /\ lease.owner = "none"),
             NEW pc \in {"cleanup_all", "adopt_late", "terminalize", "requeue_pending"},
             \/ l' = [l EXCEPT !.pc = pc] \/ l' = Look([l EXCEPT !.pc = pc]),
             pc \in {"terminalize", "requeue_pending"} => rows'["outer"].cl = "confirmed"
      PROVE  OuterInv'
  <2>1. /\ [l EXCEPT !.pc = pc] \in LoopRec /\ [l EXCEPT !.pc = pc].pc = pc
    BY <1>2, <1>6, LoopGoes
  <2>2. l' \in LoopRec /\ l'.pc = pc
    BY <1>2, <1>8, <2>1, LoopNotes, Zenon
  <2>3. /\ rows' \in [Rows -> RowRec] /\ rows'["seg"] = rows["seg"]
        /\ rows'["outer"] = rows["outer"] \/ rows'["outer"] = row
    BY <1>5, <1>8, SMTT(20)
  <2> QED BY <1>1, <1>2, <1>4, <1>6, <1>8, <2>2, <2>3, LoopMoves, SMTT(20)
<1>9. ASSUME Intent, rows' = [rows EXCEPT !["outer"] = op],
             NEW mode \in {"cleanup", "recovery"},
             NEW ok \in {"requeue", "requeue_pending", "terminalize"},
             l' = Look(StopFirst("outer", mode, ok, "cleanup_all", op))
      PROVE  OuterInv'
  <2>1. mode \in Modes /\ ok \in LoopPcs /\ "cleanup_all" \in LoopPcs /\ mode # "memory"
    BY DEF Modes, LoopPcs
  <2> DEFINE k == StopFirst("outer", mode, ok, "cleanup_all", op)
  <2>2. /\ k \in LoopRec /\ k.pc = "stop" /\ k.row = "outer" /\ k.mode = mode
        /\ k.ok = ok /\ k.err = "cleanup_all" /\ k.op = op
    <3> HIDE DEF op
    <3> QED BY <1>2, <1>3, <2>1, LoopStops
  <2> HIDE DEF k, op
  <2>3. /\ l' \in LoopRec /\ l'.pc = "stop" /\ l'.row = "outer" /\ l'.mode = mode
        /\ l'.ok = ok /\ l'.err = "cleanup_all" /\ l'.op = op
    BY <1>2, <1>9, <2>2, LoopNotes DEF k
  <2>4. rows' \in [Rows -> RowRec] /\ rows'["seg"] = rows["seg"] /\ rows'["outer"] = op
    BY <1>2, <1>3, <1>9, RowNames
  <2> QED BY <1>1, <1>3, <1>4, <1>9, <2>1, <2>3, <2>4, LoopEntersStop, SMTT(20)
<1>10. ASSUME Intent, LWrite("outer", [rows["outer"] EXCEPT !.rec = "adopted"],
                            "cleanup_all", "cleanup_all")
       PROVE  OuterInv'
  <2> DEFINE row == [rows["outer"] EXCEPT !.rec = "adopted"]
  <2>1. "adopted" \in Intents
    BY Names
  <2>2. /\ row \in RowRec /\ row.fence = rows["outer"].fence /\ row.cl = rows["outer"].cl
        /\ row.rec = "adopted"
    BY <1>2, <2>1 DEF RowRec
  <2>3. /\ rows' = rows \/ rows' = [rows EXCEPT !["outer"] = row]
        /\ l' = [l EXCEPT !.pc = "cleanup_all"]
    BY <1>10 DEF LWrite, Goto
  <2> HIDE DEF row
  <2> QED BY <1>8, <1>10, <2>2, <2>3
<1>11. ASSUME Intent, lease.owner = "none",
              LWrite("outer", [op EXCEPT !.cl = "confirmed"], "requeue_pending", "cleanup_all")
       PROVE  OuterInv'
  <2> DEFINE row == [op EXCEPT !.cl = "confirmed"]
  <2>1. "confirmed" \in Cleanups
    BY Names
  <2>2. /\ row \in RowRec /\ row.fence = rows["outer"].fence /\ row.cl = "confirmed"
        /\ row.rec = rows["outer"].rec
    <3> HIDE DEF op
    <3> QED BY <1>3, <2>1 DEF RowRec
  <2>3. \/ rows' = [rows EXCEPT !["outer"] = row] /\ l' = [l EXCEPT !.pc = "requeue_pending"]
        \/ rows' = rows /\ l' = [l EXCEPT !.pc = "cleanup_all"]
    BY <1>11 DEF LWrite, Goto
  <2> HIDE DEF row, op
  <2>4. rows' = [rows EXCEPT !["outer"] = row] => rows'["outer"].cl = "confirmed"
    BY <1>2, <2>2
  <2> QED BY <1>4, <1>8, <1>11, <2>2, <2>3, <2>4
<1>12. ASSUME Intent, rows' = [rows EXCEPT !["outer"] = op],
              NEW pc \in {"cleanup_all", "adopt_late", "terminalize", "requeue_pending"},
              \/ l' = [l EXCEPT !.pc = pc] \/ l' = Look([l EXCEPT !.pc = pc]),
              pc \in {"terminalize", "requeue_pending"} => rows["outer"].cl = "confirmed"
       PROVE  OuterInv'
  <2> HIDE DEF op
  <2>1. rows'["outer"] = op
    BY <1>2, <1>12
  <2> QED BY <1>3, <1>4, <1>8, <1>12, <2>1, Zenon
<1>13. CASE Intent /\ op.rec # "pending" /\ ~Adopted
            /\ rows' = [rows EXCEPT !["outer"] = op]
            /\ l' = Look(IF op.cl = "stopped"
                            THEN StopFirst("outer", "cleanup", "requeue", "cleanup_all", op)
                          ELSE IF op.rec = "restored" /\ wl.status = "running" /\ wl.rev = op.rev
                            THEN [l EXCEPT !.pc = "adopt_late"]
                          ELSE StopFirst("outer", "recovery", "requeue", "cleanup_all", op))
  BY <1>9, <1>12, <1>13
<1>14. CASE op.rec = "pending" /\ rows' = [rows EXCEPT !["outer"] = op]
            /\ \E pc \in {"terminalize", "requeue_pending"} :
                 l' = Look(IF op.rec = "pending" /\ op.cl = "confirmed"
                             THEN [l EXCEPT !.pc = pc]
                           ELSE StopFirst("outer", "cleanup", pc, "cleanup_all", op))
  <2>1. Intent
    BY <1>3, <1>14 DEF Intent
  <2> QED BY <1>3, <1>9, <1>12, <1>14, <2>1, SMTT(20)
<1>15. CASE op.rec = "pending" /\ lease.owner = "none"
            /\ \/ LWrite("outer", [op EXCEPT !.cl = "confirmed"], "requeue_pending", "cleanup_all")
               \/ Goto("cleanup_all") /\ rows' = [rows EXCEPT !["outer"] = op]
  <2>1. Intent
    BY <1>3, <1>15, SMTT(20) DEF Intent
  <2> QED BY <1>11, <1>12, <1>15, <2>1 DEF Goto
<1> QED BY <1>7, <1>10, <1>13, <1>14, <1>15 DEF Recover

\* The loop marks the intent, or fails to, and goes on.
LEMMA OuterMarked ==
  ASSUME OuterInv, gen["orig"] # "live", UNCHANGED <<wl, lease, fence, gen, s>>,
         NEW m \in Intents, m = "requeued" => rows["outer"].cl = "confirmed",
         \/ rows' = rows
         \/ rows' = [rows EXCEPT !["outer"] = [rows["outer"] EXCEPT !.rec = m]],
         NEW pc \in {"cleanup_all", "idle"}, l' = [l EXCEPT !.pc = pc]
  PROVE  OuterInv'
<1> USE DEF OuterInv
<1>1. rows["outer"] \in RowRec /\ rows \in [Rows -> RowRec] /\ "outer" \in Rows /\ l \in LoopRec
  BY RowNames DEF TypeOK
<1> DEFINE row == [rows["outer"] EXCEPT !.rec = m]
<1>2. /\ row \in RowRec /\ row.fence = rows["outer"].fence /\ row.cl = rows["outer"].cl
      /\ row.rec = m
  BY <1>1 DEF RowRec
<1> HIDE DEF row
<1>3. /\ rows' \in [Rows -> RowRec] /\ rows'["seg"] = rows["seg"]
      /\ rows'["outer"] = rows["outer"] \/ rows'["outer"] = row
  BY <1>1, <1>2, RowNames DEF row
<1>4. pc \in LoopPcs /\ pc \in PassPcs /\ pc \notin AfterStop \cup Adopting
  BY DEF LoopPcs, PassPcs, AfterStop, Adopting
<1>5. l' \in LoopRec /\ l'.pc = pc
  BY <1>1, <1>4, LoopGoes, SMTT(20)
<1> QED BY <1>2, <1>3, <1>4, <1>5, LoopMoves DEF TypeOK, OuterSettled

\* The loop moves on without a write to the journal.
LEMMA LoopMovesOnly ==
  ASSUME OuterInv, UNCHANGED <<lease, fence, rows, gen, s>>,
         wl' \in WlRec, gen["orig"] = "live" => wl'.ref = wl.ref,
         l' \in LoopRec,
         l'.pc \in PassPcs \cup AfterStop \cup Adopting
                   \cup {"mark_recovery_failed", "mark_adopted_late"},
         gen["orig"] = "live" => l'.pc \in PassPcs,
         l'.pc \in AfterStop => rows["outer"].cl = "confirmed",
         l'.pc \in Adopting => rows["outer"].rec # "requeued"
  PROVE  OuterInv'
  BY LoopMoves, SMTT(20) DEF OuterInv, TypeOK, OuterSettled

\* A stop procedure on the outer row starts from the row.
LEMMA OuterStopStarts ==
  ASSUME OuterInv, UNCHANGED <<wl, lease, fence, rows, gen, s>>,
         gen["orig"] # "live", rows["outer"].rec # "requeued",
         NEW mode \in {"cleanup", "recovery", "fresh"},
         NEW ok \in {"requeue", "abandoned"},
         NEW err \in {"cleanup_all", "mark_recovery_failed"},
         l' = StopFirst("outer", mode, ok, err, rows["outer"])
  PROVE  OuterInv'
<1> USE DEF OuterInv
<1>1. /\ mode \in Modes /\ ok \in LoopPcs /\ err \in LoopPcs /\ mode # "memory"
      /\ "outer" \in Rows /\ rows["outer"] \in RowRec /\ l \in LoopRec
  BY DEF Modes, LoopPcs, Rows, TypeOK
<1>2. /\ l' \in LoopRec /\ l'.pc = "stop" /\ l'.row = "outer" /\ l'.mode = mode
      /\ l'.ok = ok /\ l'.err = err /\ l'.op = rows["outer"]
  BY <1>1, LoopStops
<1> QED BY <1>1, <1>2, LoopEntersStop DEF TypeOK

\* What the pass does after it has looked at the intent.
LEMMA RecoverPassOuter ==
  ASSUME OuterInv, RecoverPass
  PROVE  OuterInv'
<1> USE DEF OuterInv
<1>1. l \in LoopRec /\ wl \in WlRec
  BY DEF TypeOK
<1>2. l.pc \notin PassPcs => gen["orig"] # "live"
  BY DEF OrigFirst
<1>3. CASE Recover
  BY <1>3, RecoverOuter
<1>4. CASE AdoptLate
  <2>1. l.pc = "adopt_late" /\ UNCHANGED <<lease, fence, rows, gen, s>>
    BY <1>4 DEF AdoptLate, At
  <2>2. gen["orig"] # "live" /\ rows["outer"].rec # "requeued"
    BY <1>2, <2>1 DEF PassPcs, Adopting, OuterSettled
  <2>3. CASE /\ wl' = [wl EXCEPT !.exec = "fresh", !.ref = FALSE, !.rev = @ + 1]
             /\ Goto("mark_adopted_late")
    <3>1. "fresh" \in Executions /\ "mark_adopted_late" \in LoopPcs
      BY DEF Executions, LoopPcs
    <3>2. wl' \in WlRec
      BY <1>1, <2>3, <3>1, Revised, Zenon
    <3>3. l' \in LoopRec /\ l'.pc = "mark_adopted_late"
      BY <1>1, <2>3, <3>1, LoopGoes DEF Goto
    <3>4. l'.pc \notin AfterStop \cup Adopting
      BY <3>3 DEF AfterStop, Adopting
    <3> QED BY <2>1, <2>2, <3>2, <3>3, <3>4, LoopMovesOnly
  <2>4. CASE l' = StopFirst("outer", "recovery", "requeue", "cleanup_all", rows["outer"])
             /\ UNCHANGED wl
    BY <2>1, <2>2, <2>4, OuterStopStarts, SMTT(20)
  <2> QED BY <1>4, <2>3, <2>4 DEF AdoptLate
<1>5. CASE Requeue
  <2>1. l.pc \in {"requeue", "requeue_pending"} /\ UNCHANGED <<lease, fence, rows, gen, s>>
    BY <1>5 DEF Requeue
  <2>2. gen["orig"] # "live" /\ rows["outer"].cl = "confirmed"
    BY <1>2, <2>1 DEF PassPcs, AfterStop, OuterStop
  <2>3. wl' \in WlRec
    <3>1. wl' = wl \/ wl' = Queued
      BY <1>5 DEF Requeue
    <3> QED BY <1>1, <3>1, QueuedRow
  <2>4. PICK pc \in {"mark_requeued", "cleanup_all"} : l' = [l EXCEPT !.pc = pc]
    BY <1>5 DEF Requeue, Goto
  <2>5. pc \in LoopPcs /\ pc \in PassPcs \cup AfterStop /\ pc \notin Adopting
    BY DEF LoopPcs, PassPcs, AfterStop, Adopting
  <2>6. l' \in LoopRec /\ l'.pc = pc
    BY <1>1, <2>4, <2>5, LoopGoes
  <2> QED BY <2>1, <2>2, <2>3, <2>5, <2>6, LoopMovesOnly
<1>6. CASE MarkAdoptedLate \/ MarkRequeued \/ Terminalize
  <2>1. /\ l.pc \in {"mark_adopted_late", "mark_requeued", "terminalize"}
        /\ UNCHANGED <<wl, lease, fence, gen, s>>
    BY <1>6 DEF MarkAdoptedLate, MarkRequeued, Terminalize, At, Store4
  <2>2. PICK m \in {"adopted", "requeued", "terminalized"} :
          /\ LWrite("outer", [rows["outer"] EXCEPT !.rec = m], "cleanup_all", "cleanup_all")
          /\ m = "requeued" => l.pc = "mark_requeued"
    BY <1>6 DEF MarkAdoptedLate, MarkRequeued, Terminalize, At
  <2>3. /\ m \in Intents /\ gen["orig"] # "live"
        /\ m = "requeued" => rows["outer"].cl = "confirmed"
    BY <1>2, <2>1, <2>2, Names DEF PassPcs, AfterStop, OuterStop
  <2> QED BY <2>1, <2>2, <2>3, OuterMarked DEF LWrite, Goto
<1> QED BY <1>3, <1>4, <1>5, <1>6 DEF RecoverPass

LEMMA CleanupRowOuter ==
  ASSUME OuterInv, CleanupRow
  PROVE  OuterInv'
<1> USE DEF OuterInv
<1>1. l.pc = "cleanup" /\ UNCHANGED <<wl, fence, gen, s>>
  BY DEF CleanupRow, At, Store4
<1>2. /\ l \in LoopRec /\ wl \in WlRec /\ lease \in LeaseRec /\ rows \in [Rows -> RowRec]
      /\ l.todo \subseteq Rows
  BY DEF TypeOK, LoopRec
<1>3. PICK r \in l.todo :
        LET op == Resolved(r)
            rest == [l EXCEPT !.todo = @ \ {r}]
        IN \/ l' = rest /\ UNCHANGED <<lease, rows>>
           \/ /\ Unresolved(r) /\ l' = rest
              /\ lease' = IF Holds(op.fence) THEN [lease EXCEPT !.expired = FALSE] ELSE lease
              /\ rows' = [rows EXCEPT ![r] = Recorded(op, "owned", "real", op.fence)]
           \/ /\ Unresolved(r) /\ UNCHANGED lease
              /\ l' = [StopFirst(r, "cleanup", "cleanup", "cleanup", op) EXCEPT !.todo = @ \ {r}]
              /\ rows' = [rows EXCEPT ![r] = op]
  BY DEF CleanupRow
<1> DEFINE op == Resolved(r)
           rest == [l EXCEPT !.todo = @ \ {r}]
<1>4. /\ r \in Rows /\ op \in RowRec /\ op.cl = rows[r].cl /\ op.fence = rows[r].fence
      /\ op.rec = rows[r].rec
  BY <1>2, ResolvedRow
<1>5. rest \in LoopRec /\ rest.pc = "cleanup"
  BY <1>1, <1>2, <1>4, LoopNotes
<1>6. "cleanup" \in PassPcs /\ "cleanup" \notin AfterStop \cup Adopting
  BY DEF PassPcs, AfterStop, Adopting
<1>7. Unresolved(r) =>
        /\ gen["orig"] # "live"
        /\ r = "outer" => rows["outer"].rec # "requeued"
        /\ r = "seg" => rows["outer"].fence < rows["seg"].fence
  <2>1. \A c \in Open : c \notin {"unset", "confirmed"}
    BY DEF Open
  <2> QED BY <1>4, <2>1, RowNames DEF Unresolved, OrigFirst, OuterSettled, OuterIsOlder
<1>8. CASE l' = rest /\ UNCHANGED <<lease, rows>>
  <2> HIDE DEF rest
  <2> QED BY <1>1, <1>2, <1>5, <1>6, <1>8, LoopMovesOnly, SMTT(20)
<1>9. CASE /\ Unresolved(r) /\ l' = rest
           /\ lease' = IF Holds(op.fence) THEN [lease EXCEPT !.expired = FALSE] ELSE lease
           /\ rows' = [rows EXCEPT ![r] = Recorded(op, "owned", "real", op.fence)]
  <2> HIDE DEF rest, op
  <2>1. lease' \in LeaseRec /\ lease'.owner = lease.owner /\ lease'.fence = lease.fence
    BY <1>2, <1>9, Zenon DEF LeaseRec
  <2>2. "owned" \in Cleanups /\ "real" \in Handles /\ op.fence \in Int
    BY <1>4, Names DEF RowRec
  <2> DEFINE row == Recorded(op, "owned", "real", op.fence)
  <2>3. row \in RowRec /\ row.cl = "owned" /\ row.fence = op.fence /\ row.rec = op.rec
    BY <1>4, <2>2, RecordedRow
  <2> HIDE DEF row
  <2>4. /\ rows' \in [Rows -> RowRec]
        /\ rows'["outer"] = rows["outer"] \/ (r = "outer" /\ rows'["outer"] = row)
        /\ rows'["seg"] = rows["seg"] \/ (r = "seg" /\ rows'["seg"] = row)
    BY <1>4, <1>9, <2>3, RowWritten, Zenon DEF row
  <2>5. rows["seg"].cl = "unset" => rows'["seg"].cl = "unset"
    BY <1>9, <2>4 DEF Unresolved, Open
  <2> QED BY <1>1, <1>2, <1>4, <1>5, <1>6, <1>7, <1>9, <2>1, <2>3, <2>4, <2>5, LoopMoves, SMTT(20)
             DEF OuterSettled
<1>10. CASE /\ Unresolved(r) /\ UNCHANGED lease
            /\ l' = [StopFirst(r, "cleanup", "cleanup", "cleanup", op) EXCEPT !.todo = @ \ {r}]
            /\ rows' = [rows EXCEPT ![r] = op]
  <2> HIDE DEF rest, op
  <2>1. "cleanup" \in Modes /\ "cleanup" \in LoopPcs
    BY DEF Modes, LoopPcs
  <2> DEFINE k == StopFirst(r, "cleanup", "cleanup", "cleanup", op)
  <2>2. /\ k \in LoopRec /\ k.pc = "stop" /\ k.row = r /\ k.mode = "cleanup"
        /\ k.ok = "cleanup" /\ k.err = "cleanup" /\ k.op = op
    BY <1>2, <1>4, <2>1, LoopStops
  <2> HIDE DEF k
  <2>3. /\ l' \in LoopRec /\ l'.pc = "stop" /\ l'.row = r /\ l'.mode = "cleanup"
        /\ l'.ok = "cleanup" /\ l'.err = "cleanup" /\ l'.op = op
    BY <1>4, <1>10, <2>2, LoopNotes DEF k
  <2>4. /\ rows' \in [Rows -> RowRec]
        /\ rows'["outer"] = rows["outer"] \/ (r = "outer" /\ rows'["outer"] = op)
        /\ rows'["seg"] = rows["seg"] \/ (r = "seg" /\ rows'["seg"] = op)
    BY <1>4, <1>10, RowWritten, Zenon
  <2> QED BY <1>1, <1>4, <1>7, <1>10, <2>3, <2>4, RowNames, LoopEntersStop, SMTT(20)
<1> QED BY <1>3, <1>8, <1>9, <1>10

LEMMA EndPassOuter ==
  ASSUME OuterInv, StartCleanup \/ EndPass \/ Restart
  PROVE  OuterInv'
<1> USE DEF OuterInv
<1>1. UNCHANGED <<lease, fence, rows, gen, s>> /\ l \in LoopRec /\ wl \in WlRec
  BY DEF StartCleanup, EndPass, Restart, TypeOK
<1>2. wl' \in WlRec /\ wl'.ref = wl.ref
  <2>1. "queued" \in Statuses /\ "waiting" \in Statuses
    BY DEF Statuses
  <2>2. \/ wl' = wl
        \/ \E st \in Statuses : wl' = [wl EXCEPT !.status = st, !.rev = @ + 1]
    BY <2>1, Zenon DEF StartCleanup, EndPass, Restart
  <2> QED BY <1>1, <2>2, Revised, ZenonT(40)
<1>3. PICK pc \in {"cleanup", "idle", "reconcile", "recover"} :
        \/ l' = [l EXCEPT !.pc = pc, !.todo = Rows]
        \/ l' = [Idle EXCEPT !.pc = pc] \/ l' = [Idle EXCEPT !.pc = pc, !.boot = TRUE]
  BY DEF StartCleanup, EndPass, Restart
<1>4. /\ pc \in LoopPcs /\ pc \in PassPcs /\ pc \notin AfterStop \cup Adopting
      /\ Rows \in SUBSET Rows
  BY DEF LoopPcs, PassPcs, AfterStop, Adopting
<1>5. l' \in LoopRec /\ l'.pc = pc
  <2>1. Idle \in LoopRec
    BY Resting
  <2> QED BY <1>1, <1>3, <1>4, <2>1, Zenon DEF LoopRec
<1> QED BY <1>1, <1>2, <1>4, <1>5, LoopMovesOnly

-----------------------------------------------------------------------------
\* The preemption of v and its compensation.

LEMMA PreemptOuter ==
  ASSUME OuterInv, Preempt
  PROVE  OuterInv'
<1> USE DEF OuterInv
<1>1. l.pc = "reconcile" /\ UNCHANGED <<wl, lease, fence, rows, s>>
  BY DEF Preempt, At
<1>2. l \in LoopRec /\ wl \in WlRec
  BY DEF TypeOK
<1>3. CASE Goto("idle") /\ UNCHANGED gen
  <2>1. "idle" \in LoopPcs /\ "idle" \in PassPcs /\ "idle" \notin AfterStop \cup Adopting
    BY DEF LoopPcs, PassPcs, AfterStop, Adopting
  <2>2. l' \in LoopRec /\ l'.pc = "idle"
    BY <1>2, <1>3, <2>1, LoopGoes DEF Goto
  <2> QED BY <1>1, <1>2, <1>3, <2>1, <2>2, LoopMovesOnly
<1>4. CASE /\ gen["orig"] = "live" /\ gen' = [gen EXCEPT !["orig"] = "off"]
           /\ l' = [Idle EXCEPT !.pc = "cas_victim", !.seen = wl,
                                !.op = [NoRow EXCEPT !.fence = lease.fence]]
  <2>1. /\ rows["outer"].cl = "unset" /\ rows["outer"].rec = "unset" /\ rows["seg"].cl = "unset"
        /\ s.pc \in OrigPcs
    BY <1>4 DEF OrigFirst, OrigPcs
  <2>2. gen["fresh"] # "live"
    BY <2>1 DEF FreshInCustody
  <2>3. /\ gen' \in [Generations -> {"none", "live", "off"}] /\ gen'["orig"] = "off"
        /\ gen'["fresh"] = gen["fresh"]
    BY <1>4 DEF TypeOK, Generations
  <2> DEFINE op == [NoRow EXCEPT !.fence = lease.fence]
  <2>4. op \in RowRec /\ op.fence = lease.fence
    <3>1. NoRow \in RowRec /\ lease.fence \in Int
      BY Resting, FencesAreNumbers
    <3> QED BY <3>1 DEF RowRec
  <2> HIDE DEF op
  <2>5. l' \in LoopRec /\ l'.pc = "cas_victim" /\ l'.op = op
    <3>1. Idle \in LoopRec /\ "cas_victim" \in LoopPcs
      BY Resting DEF LoopPcs
    <3>2. l' = [Idle EXCEPT !.pc = "cas_victim", !.seen = wl, !.op = op]
      BY <1>4 DEF op
    <3> QED BY <1>2, <2>4, <3>1, <3>2, ZenonT(40) DEF LoopRec
  <2>6. /\ "cas_victim" \in ToIntent
        /\ "cas_victim" \notin ToGrant \cup ToRestore \cup StopPcs \cup AfterStop \cup Adopting
    BY DEF ToIntent, ToGrant, ToRestore, StopPcs, AfterStop, Adopting
  <2>7. TypeOK'
    BY <1>1, <2>3, <2>5, SMTT(20) DEF TypeOK
  <2>8. TokensGiven' /\ OrigFirst' /\ Preempting' /\ OuterIsOlder'
    BY <1>1, <2>1, <2>2, <2>3, <2>4, <2>5, <2>6, SMTT(20)
       DEF TokensGiven, OrigFirst, Preempting, OuterIsOlder
  <2>9. FreshInCustody' /\ OuterStop' /\ OuterSettled'
    BY <1>1, <2>1, <2>2, <2>3, <2>5, <2>6, SMTT(20) DEF FreshInCustody, OuterStop, OuterSettled, Holds
  <2> QED BY <2>7, <2>8, <2>9
<1> QED BY <1>3, <1>4 DEF Preempt

\* Until the intent is written, and after a failure, only the loop's place changes.
LEMMA CASOuter ==
  ASSUME OuterInv, l.pc \in ToIntent, UNCHANGED <<lease, fence, rows, gen>>,
         wl' \in WlRec, s' \in SegmentRec, s'.fence = s.fence,
         s.pc \in OrigPcs => s'.pc \in OrigPcs,
         l' \in LoopRec, l'.pc \in ToIntent \cup {"idle"}, l'.op = l.op
  PROVE  OuterInv'
<1> USE DEF OuterInv
<1>1. TypeOK'
  BY DEF TypeOK
<1>2. /\ l'.pc \notin ToGrant \cup ToRestore \cup StopPcs \cup AfterStop \cup Adopting
      /\ l.pc \notin PassPcs
  BY DEF ToIntent, ToGrant, ToRestore, StopPcs, AfterStop, Adopting, PassPcs
<1>3. gen["orig"] # "live" /\ rows["seg"].cl = "unset" /\ s'.pc \in OrigPcs
  BY <1>2, SMTT(20) DEF OrigFirst, Preempting
<1>4. TokensGiven' /\ OrigFirst' /\ Preempting' /\ OuterIsOlder'
  BY <1>2, <1>3, SMTT(20) DEF TokensGiven, OrigFirst, Preempting, OuterIsOlder
<1>5. FreshInCustody' /\ OuterStop' /\ OuterSettled'
  BY <1>2, <1>3 DEF FreshInCustody, OuterStop, OuterSettled, Holds
<1> QED BY <1>1, <1>4, <1>5

LEMMA ToIntentOuter ==
  ASSUME OuterInv, CASVictim \/ CASNewcomer \/ PersistIntent
  PROVE  OuterInv'
<1> USE DEF OuterInv
<1>1. l \in LoopRec /\ wl \in WlRec /\ s \in SegmentRec /\ Queued \in WlRec
  BY QueuedRow DEF TypeOK
<1>2. /\ "intent" \in LoopPcs /\ "idle" \in LoopPcs /\ "cas_newcomer" \in LoopPcs
      /\ "release_old" \in LoopPcs
      /\ "intent" \in ToIntent /\ "cas_newcomer" \in ToIntent /\ "cas_victim" \in ToIntent
  BY DEF LoopPcs, ToIntent
<1>3. CASE CASVictim
  <2>1. l.pc \in ToIntent /\ UNCHANGED <<lease, fence, rows, gen, s>>
    BY <1>2, <1>3 DEF CASVictim, At
  <2>2. /\ wl' = wl \/ wl' = Queued
        /\ \/ l' = [l EXCEPT !.pc = "cas_newcomer", !.seen = Queued]
           \/ l' = [l EXCEPT !.pc = "intent"]
    BY <1>3 DEF CASVictim, Goto
  <2>3. l' \in LoopRec /\ l'.pc \in ToIntent /\ l'.op = l.op
    BY <1>1, <1>2, <2>2, Zenon DEF LoopRec
  <2> QED BY <1>1, <2>1, <2>2, <2>3, CASOuter
<1>4. CASE CASNewcomer
  <2>1. l.pc \in ToIntent /\ UNCHANGED <<wl, lease, fence, rows, gen>>
    BY <1>2, <1>4 DEF CASNewcomer, At
  <2>2. PICK pc \in {"idle", "intent"} : l' = [l EXCEPT !.pc = pc]
    BY <1>4 DEF CASNewcomer, Goto
  <2>3. l' \in LoopRec /\ l'.pc = pc /\ l'.op = l.op
    BY <1>1, <1>2, <2>2, LoopGoes
  <2>4. s' = s \/ s' = [s EXCEPT !.pc = "preempted"]
    BY <1>4 DEF CASNewcomer
  <2>5. "preempted" \in SegmentPcs /\ "preempted" \in OrigPcs
    BY DEF SegmentPcs, OrigPcs
  <2>6. /\ s' \in SegmentRec /\ s'.fence = s.fence
        /\ s.pc \in OrigPcs => s'.pc \in OrigPcs
    BY <1>1, <2>4, <2>5 DEF SegmentRec
  <2> QED BY <1>1, <1>2, <2>1, <2>2, <2>3, <2>6, CASOuter, SMTT(20)
<1>5. CASE PersistIntent
  <2>1. l.pc = "intent" /\ UNCHANGED <<wl, lease, fence, gen, s>>
    BY <1>5 DEF PersistIntent, At, Store4
  <2> DEFINE row == [NoRow EXCEPT !.cl = "armed", !.rec = "pending", !.fence = l.op.fence,
                                  !.rev = l.seen.rev]
  <2>2. CASE rows' = rows /\ l' = [l EXCEPT !.pc = "idle"]
    <3>1. l' \in LoopRec /\ l'.pc = "idle" /\ l'.op = l.op
      BY <1>1, <1>2, <2>2, LoopGoes
    <3> QED BY <1>1, <1>2, <2>1, <2>2, <3>1, CASOuter
  <2>3. CASE rows' = [rows EXCEPT !["outer"] = row] /\ l' = [l EXCEPT !.pc = "release_old"]
    <3>1. l' \in LoopRec /\ l'.pc = "release_old" /\ l'.op = l.op
      BY <1>1, <1>2, <2>3, LoopGoes
    <3>2. row \in RowRec /\ row.cl = "armed" /\ row.rec = "pending" /\ row.fence = l.op.fence
      <4>1. l.op.fence \in Int /\ l.seen.rev \in Int
        BY <1>1, FencesAreNumbers DEF LoopRec, WlRec
      <4>2. "armed" \in Cleanups /\ "pending" \in Intents /\ NoRow \in RowRec
        BY Names, Resting
      <4> QED BY <4>1, <4>2, Zenon DEF RowRec
    <3> HIDE DEF row
    <3>3. /\ rows' \in [Rows -> RowRec] /\ rows'["outer"] = row /\ rows'["seg"] = rows["seg"]
      BY <2>3, <3>2, RowNames DEF TypeOK
    <3>4. /\ "release_old" \in ToGrant
          /\ "release_old" \notin ToIntent \cup ToRestore \cup StopPcs \cup AfterStop \cup Adopting
          /\ "intent" \notin PassPcs
      BY DEF ToIntent, ToGrant, ToRestore, StopPcs, AfterStop, Adopting, PassPcs
    <3>5. /\ gen["orig"] # "live" /\ gen["fresh"] # "live" /\ rows["seg"].cl = "unset"
          /\ s.pc \in OrigPcs
      BY <1>2, <2>1, <3>4 DEF OrigFirst, Preempting
    <3>6. TypeOK'
      BY <2>1, <3>1, <3>3, SMTT(20) DEF TypeOK
    <3>7. TokensGiven' /\ OrigFirst' /\ Preempting' /\ OuterIsOlder'
      BY <1>2, <2>1, <3>1, <3>2, <3>3, <3>4, <3>5, SMTT(20)
         DEF TokensGiven, OrigFirst, Preempting, OuterIsOlder
    <3>8. FreshInCustody' /\ OuterStop' /\ OuterSettled'
      BY <2>1, <3>1, <3>2, <3>3, <3>4, <3>5, ZenonT(40) DEF FreshInCustody, OuterStop, OuterSettled, Holds
    <3> QED BY <3>6, <3>7, <3>8
  <2> QED BY <1>5, <2>2, <2>3 DEF PersistIntent, LWrite, Goto
<1> QED BY <1>3, <1>4, <1>5

\* The old lease is given up, the intent is armed.
LEMMA ReleaseOldOuter ==
  ASSUME OuterInv, ReleaseOld
  PROVE  OuterInv'
<1> USE DEF OuterInv
<1>1. l.pc = "release_old" /\ UNCHANGED <<wl, fence, rows, gen, s>>
  BY DEF ReleaseOld, At, Store4
<1>2. PICK pc \in {"reacquire", "idle"} : l' = [l EXCEPT !.pc = pc]
  BY DEF ReleaseOld, Goto
<1>3. pc \in LoopPcs
  BY DEF LoopPcs
<1>4. l' \in LoopRec /\ l'.pc = pc /\ l'.op = l.op
  BY <1>2, <1>3, LoopGoes DEF TypeOK
<1>5. lease' = lease \/ lease' = NoLease
  BY DEF ReleaseOld, AfterRelease
<1>6. /\ l.pc \in ToGrant /\ l.pc \notin PassPcs
      /\ pc \notin ToIntent \cup ToRestore \cup StopPcs \cup AfterStop \cup Adopting
  BY <1>1, SMTT(20) DEF ToIntent, ToGrant, ToRestore, StopPcs, AfterStop, Adopting, PassPcs
<1>7. /\ gen["orig"] # "live" /\ gen["fresh"] # "live" /\ rows["seg"].cl = "unset"
      /\ s.pc \in OrigPcs /\ rows["outer"].cl = "armed" /\ rows["outer"].rec # "requeued"
  BY <1>6 DEF OrigFirst, Preempting, OuterSettled
<1>8. TypeOK'
  BY <1>1, <1>4, <1>5, Resting, SMTT(20) DEF TypeOK
<1>9. TokensGiven'
  BY <1>1, <1>4, <1>5, <1>6, Resting, FencesAreNumbers, SMTT(20) DEF TokensGiven
<1>10. OrigFirst' /\ Preempting' /\ OuterIsOlder'
  BY <1>1, <1>4, <1>6, <1>7, SMTT(20) DEF OrigFirst, Preempting, OuterIsOlder
<1>11. FreshInCustody' /\ OuterStop' /\ OuterSettled'
  BY <1>1, <1>4, <1>6, <1>7, ZenonT(40) DEF FreshInCustody, OuterStop, OuterSettled
<1> QED BY <1>8, <1>9, <1>10, <1>11

\* The fresh token is the newest: no lease, row or goroutine has it yet.
LEMMA ReacquireOuter ==
  ASSUME OuterInv, Reacquire
  PROVE  OuterInv'
<1> USE DEF OuterInv
<1>1. l.pc = "reacquire" /\ UNCHANGED <<wl, gen, s>>
  BY DEF Reacquire, At, Store4
<1>2. l \in LoopRec /\ rows["outer"] \in RowRec /\ rows \in [Rows -> RowRec]
  BY RowNames DEF TypeOK
<1>3. /\ "arm_fresh" \in LoopPcs /\ "idle" \in LoopPcs
      /\ l.pc \in ToGrant /\ l.pc \notin PassPcs
  BY <1>1 DEF LoopPcs, ToGrant, PassPcs
<1>4. /\ gen["orig"] # "live" /\ gen["fresh"] # "live" /\ rows["seg"].cl = "unset"
      /\ s.pc \in OrigPcs /\ rows["outer"].cl = "armed" /\ rows["outer"].rec # "requeued"
  BY <1>3 DEF OrigFirst, Preempting, OuterSettled
<1>5. CASE Goto("idle") /\ UNCHANGED <<lease, fence, rows>>
  <2>1. l' \in LoopRec /\ l'.pc = "idle"
    BY <1>2, <1>3, <1>5, LoopGoes DEF Goto
  <2>2. "idle" \in PassPcs /\ "idle" \notin AfterStop \cup Adopting
    BY DEF PassPcs, AfterStop, Adopting
  <2> QED BY <1>1, <1>5, <2>1, <2>2, LoopMovesOnly DEF TypeOK
<1>6. CASE /\ lease' = Granted("v") /\ fence' = fence + 1
           /\ rows' = [rows EXCEPT !["outer"].cl = "pending", !["outer"].fence = fence + 1]
           /\ Goto("arm_fresh")
  <2>1. l' \in LoopRec /\ l'.pc = "arm_fresh"
    BY <1>2, <1>3, <1>6, LoopGoes DEF Goto
  <2>2. /\ lease' \in LeaseRec /\ lease'.owner = "v" /\ lease'.fence = fence + 1
        /\ fence' \in Int
    BY <1>6, FencesAreNumbers DEF Granted, LeaseRec
  <2> DEFINE row == [rows["outer"] EXCEPT !.cl = "pending", !.fence = fence + 1]
  <2>3. row \in RowRec /\ row.cl = "pending" /\ row.fence = fence + 1 /\ row.rec = rows["outer"].rec
    <3>1. "pending" \in Cleanups /\ fence + 1 \in Int
      BY Names, FencesAreNumbers
    <3> QED BY <1>2, <3>1, Zenon DEF RowRec
  <2>4. /\ rows' \in [Rows -> RowRec] /\ rows'["outer"] = row /\ rows'["seg"] = rows["seg"]
    <3>1. rows' = [rows EXCEPT !["outer"] = row]
      BY <1>2, <1>6, RowNames, ZenonT(40)
    <3> HIDE DEF row
    <3> QED BY <1>2, <2>3, <3>1, RowNames
  <2> HIDE DEF row
  <2>5. /\ "arm_fresh" \in ToRestore
        /\ "arm_fresh" \notin ToIntent \cup ToGrant \cup StopPcs \cup AfterStop \cup Adopting
    BY DEF ToIntent, ToGrant, ToRestore, StopPcs, AfterStop, Adopting
  <2>6. TypeOK'
    BY <1>1, <2>1, <2>2, <2>4 DEF TypeOK
  <2>7. TokensGiven'
    BY <1>1, <1>6, <2>1, <2>2, <2>3, <2>4, <2>5, FencesAreNumbers, SMTT(20) DEF TokensGiven
  <2>8. OrigFirst' /\ Preempting' /\ OuterIsOlder'
    <3>1. OrigFirst'
      BY <1>1, <1>4, <2>1, <2>3, <2>4, <2>5, SMTT(20) DEF OrigFirst
    <3>2. Preempting'
      BY <1>1, <1>4, <2>1, <2>3, <2>4, <2>5, SMTT(20) DEF Preempting
    <3>3. OuterIsOlder'
      BY <1>1, <1>4, <2>1, <2>3, <2>4, <2>5, SMTT(20) DEF OuterIsOlder
    <3> QED BY <3>1, <3>2, <3>3
  <2>9. s.fence # fence + 1
    BY FencesAreNumbers DEF TokensGiven
  <2>10. FreshInCustody'
    BY <1>1, <2>2, <2>3, <2>4, <2>9, SMTT(20) DEF FreshInCustody
  <2>11. OuterStop' /\ OuterSettled'
    BY <1>4, <2>1, <2>3, <2>4, <2>5 DEF OuterStop, OuterSettled
  <2> QED BY <2>6, <2>7, <2>8, <2>10, <2>11
<1> QED BY <1>5, <1>6 DEF Reacquire

LEMMA ArmFreshOuter ==
  ASSUME OuterInv, ArmFresh
  PROVE  OuterInv'
<1> USE DEF OuterInv
<1>1. l.pc = "arm_fresh" /\ UNCHANGED <<wl, fence, gen, s>>
  BY DEF ArmFresh, At, Store4
<1>2. l \in LoopRec /\ rows["outer"] \in RowRec /\ rows \in [Rows -> RowRec]
  BY RowNames DEF TypeOK
<1>3. /\ "restore" \in LoopPcs /\ "idle" \in LoopPcs
      /\ l.pc \in ToRestore /\ l.pc \notin PassPcs /\ "restore" \in ToRestore
      /\ "restore" \notin ToIntent \cup ToGrant \cup StopPcs \cup AfterStop \cup Adopting
      /\ "idle" \notin ToIntent \cup ToGrant \cup ToRestore \cup StopPcs \cup AfterStop \cup Adopting
  BY <1>1, SMTT(20) DEF LoopPcs, ToIntent, ToGrant, ToRestore, StopPcs, AfterStop, Adopting, PassPcs
<1>4. /\ gen["orig"] # "live" /\ gen["fresh"] # "live" /\ rows["seg"].cl = "unset"
      /\ s.pc \in OrigPcs /\ rows["outer"].cl = "pending" /\ rows["outer"].rec # "requeued"
  BY <1>3 DEF OrigFirst, Preempting, OuterSettled
<1>5. CASE Goto("restore") /\ UNCHANGED <<lease, rows>>
  <2>1. l' \in LoopRec /\ l'.pc = "restore"
    BY <1>2, <1>3, <1>5, LoopGoes, SMTT(20) DEF Goto
  <2>2. TypeOK' /\ TokensGiven'
    BY <1>1, <1>3, <1>5, <2>1, SMTT(20) DEF TypeOK, TokensGiven
  <2>3. OrigFirst' /\ Preempting' /\ OuterIsOlder'
    <3>1. OrigFirst'
      BY <1>1, <1>3, <1>4, <1>5, <2>1, SMTT(20) DEF OrigFirst
    <3>2. Preempting'
      BY <1>1, <1>3, <1>4, <1>5, <2>1, SMTT(20) DEF Preempting
    <3>3. OuterIsOlder'
      BY <1>1, <1>3, <1>4, <1>5, <2>1, SMTT(20) DEF OuterIsOlder
    <3> QED BY <3>1, <3>2, <3>3
  <2>4. FreshInCustody' /\ OuterStop' /\ OuterSettled'
    BY <1>1, <1>3, <1>4, <1>5, <2>1, SMTT(20) DEF FreshInCustody, OuterStop, OuterSettled
  <2> QED BY <2>2, <2>3, <2>4
<1>6. CASE lease' = NoLease /\ Goto("idle") /\ rows' = [rows EXCEPT !["outer"].cl = "confirmed"]
  <2>1. l' \in LoopRec /\ l'.pc = "idle"
    BY <1>2, <1>3, <1>6, LoopGoes DEF Goto
  <2> DEFINE row == [rows["outer"] EXCEPT !.cl = "confirmed"]
  <2>2. /\ row \in RowRec /\ row.cl = "confirmed" /\ row.fence = rows["outer"].fence
        /\ row.rec = rows["outer"].rec
    <3>1. "confirmed" \in Cleanups
      BY Names
    <3> QED BY <1>2, <3>1 DEF RowRec
  <2>3. /\ rows' \in [Rows -> RowRec] /\ rows'["outer"] = row /\ rows'["seg"] = rows["seg"]
    <3>1. rows' = [rows EXCEPT !["outer"] = row]
      BY <1>2, <1>6, RowNames
    <3> HIDE DEF row
    <3> QED BY <1>2, <2>2, <3>1, RowNames
  <2> HIDE DEF row
  <2>4. lease' \in LeaseRec /\ lease'.owner = "none" /\ lease'.fence = 0
    BY <1>6, Resting, SMTT(20)
  <2>5. TypeOK' /\ TokensGiven'
    BY <1>1, <1>3, <2>1, <2>2, <2>3, <2>4, FencesAreNumbers, SMTT(20) DEF TypeOK, TokensGiven
  <2>6. OrigFirst' /\ Preempting' /\ OuterIsOlder'
    <3>1. OrigFirst'
      BY <1>1, <1>3, <1>4, <2>1, <2>3, SMTT(20) DEF OrigFirst
    <3>2. Preempting'
      BY <1>1, <1>3, <1>4, <2>1, <2>3, SMTT(20) DEF Preempting
    <3>3. OuterIsOlder'
      BY <1>1, <1>3, <1>4, <2>1, <2>3, SMTT(20) DEF OuterIsOlder
    <3> QED BY <3>1, <3>2, <3>3
  <2>7. FreshInCustody' /\ OuterStop' /\ OuterSettled'
    BY <1>1, <1>3, <1>4, <2>1, <2>2, <2>3, <2>4, ZenonT(40)
       DEF FreshInCustody, OuterStop, OuterSettled, Holds
  <2> QED BY <2>5, <2>6, <2>7
<1> QED BY <1>5, <1>6 DEF ArmFresh

\* The generation comes to life under the lease the pending row names.
LEMMA RestoreOuter ==
  ASSUME OuterInv, Restore
  PROVE  OuterInv'
<1> USE DEF OuterInv
<1>1. l.pc = "restore" /\ UNCHANGED <<wl, lease, fence, rows, s>>
  BY DEF Restore, At
<1>2. PICK pc \in {"record_restored", "idle"} : l' = [l EXCEPT !.pc = pc]
  BY DEF Restore, Goto
<1>3. /\ pc \in LoopPcs /\ l.pc \in ToRestore /\ l.pc \notin PassPcs
      /\ pc \notin ToIntent \cup ToGrant \cup ToRestore \cup StopPcs \cup AfterStop
  BY <1>1 DEF LoopPcs, ToIntent, ToGrant, ToRestore, StopPcs, AfterStop, PassPcs
<1>4. l' \in LoopRec /\ l'.pc = pc
  BY <1>2, <1>3, LoopGoes DEF TypeOK
<1>5. gen' = gen \/ \E x \in {"off", "live"} : gen' = [gen EXCEPT !["fresh"] = x]
  BY DEF Restore
<1>6. gen' \in [Generations -> {"none", "live", "off"}] /\ gen'["orig"] = gen["orig"]
  BY <1>5, SMTT(20) DEF TypeOK, Generations
<1>7. /\ gen["orig"] # "live" /\ rows["seg"].cl = "unset"
      /\ s.pc \in OrigPcs /\ rows["outer"].cl = "pending" /\ rows["outer"].rec # "requeued"
  BY <1>3, SMTT(20) DEF OrigFirst, Preempting, OuterSettled
<1>8. TypeOK' /\ TokensGiven'
  BY <1>1, <1>3, <1>4, <1>6, SMTT(20) DEF TypeOK, TokensGiven
<1>9. OrigFirst' /\ Preempting' /\ OuterIsOlder'
  <2>1. OrigFirst'
    BY <1>1, <1>3, <1>4, <1>6, <1>7, SMTT(20) DEF OrigFirst
  <2>2. Preempting'
    BY <1>1, <1>3, <1>4, <1>6, <1>7, SMTT(20) DEF Preempting
  <2>3. OuterIsOlder'
    BY <1>1, <1>3, <1>4, <1>6, <1>7, SMTT(20) DEF OuterIsOlder
  <2> QED BY <2>1, <2>2, <2>3
<1>10. FreshInCustody' /\ OuterStop' /\ OuterSettled'
  BY <1>1, <1>3, <1>4, <1>7, ZenonT(40) DEF FreshInCustody, OuterStop, OuterSettled
<1> QED BY <1>8, <1>9, <1>10

\* A restored generation is recorded, then adopted or stopped again.
LEMMA AdoptionOuter ==
  ASSUME OuterInv, RecordRestored \/ Adopt \/ MarkAdopted
  PROVE  OuterInv'
<1> USE DEF OuterInv
<1>1. /\ l \in LoopRec /\ wl \in WlRec /\ rows["outer"] \in RowRec /\ rows \in [Rows -> RowRec]
      /\ lease \in LeaseRec
  BY RowNames DEF TypeOK
<1>2. l.pc \in Adopting /\ l.pc \notin PassPcs
  BY SMTT(20) DEF RecordRestored, Adopt, MarkAdopted, At, Adopting, PassPcs
<1>3. gen["orig"] # "live" /\ rows["outer"].rec # "requeued"
  BY <1>2 DEF OrigFirst, OuterSettled
<1>4. /\ "adopt" \in LoopPcs /\ "idle" \in LoopPcs /\ "mark_adopted" \in LoopPcs
      /\ "adopt" \in Adopting /\ "mark_adopted" \in Adopting /\ "idle" \in PassPcs
      /\ "adopt" \notin AfterStop /\ "mark_adopted" \notin AfterStop /\ "idle" \notin AfterStop
  BY SMTT(20) DEF LoopPcs, Adopting, PassPcs, AfterStop
<1>5. CASE RecordRestored
  <2>1. UNCHANGED <<wl, lease, fence, gen, s>>
    BY <1>5 DEF RecordRestored, Store4
  <2> DEFINE rec == Recorded(rows["outer"], "owned", "real", rows["outer"].fence)
             row == [rec EXCEPT !.rec = "restored"]
  <2>2. /\ "owned" \in Cleanups /\ "real" \in Handles /\ rows["outer"].fence \in Int
        /\ "restored" \in Intents
    BY Names, FencesAreNumbers
  <2>3. rec \in RowRec /\ rec.cl = "owned" /\ rec.fence = rows["outer"].fence
    BY <1>1, <2>2, RecordedRow
  <2>4. PICK pc \in {"adopt", "idle"} :
          /\ rows' = rows \/ rows' = [rows EXCEPT !["outer"] = row]
          /\ l' = [l EXCEPT !.pc = pc]
    BY <1>5 DEF RecordRestored, LWrite, Goto
  <2> HIDE DEF rec
  <2>5. row \in RowRec /\ row.cl = "owned" /\ row.fence = rows["outer"].fence /\ row.rec = "restored"
    BY <2>2, <2>3 DEF RowRec
  <2> HIDE DEF row
  <2>6. /\ rows' \in [Rows -> RowRec] /\ rows'["seg"] = rows["seg"]
        /\ rows'["outer"] = rows["outer"] \/ rows'["outer"] = row
    BY <1>1, <2>4, <2>5, RowNames
  <2>7. l' \in LoopRec /\ l'.pc = pc
    BY <1>1, <1>4, <2>4, LoopGoes, SMTT(20)
  <2>8. rows'["outer"].rec # "requeued"
    BY <1>3, <2>5, <2>6
  <2> QED BY <1>1, <1>3, <1>4, <2>1, <2>5, <2>6, <2>7, <2>8, LoopMoves, SMTT(20)
<1>6. CASE Adopt
  <2>1. UNCHANGED <<lease, fence, rows, gen, s>>
    BY <1>6 DEF Adopt
  <2>2. CASE /\ wl' = [wl EXCEPT !.status = "running", !.exec = "fresh", !.ref = FALSE, !.rev = @ + 1]
             /\ Goto("mark_adopted")
    <3>1. "running" \in Statuses /\ "fresh" \in Executions /\ FALSE \in BOOLEAN
      BY DEF Statuses, Executions
    <3>2. wl' \in WlRec
      BY <1>1, <2>2, <3>1, Revised, Zenon
    <3>3. l' \in LoopRec /\ l'.pc = "mark_adopted"
      BY <1>1, <1>4, <2>2, LoopGoes, SMTT(20) DEF Goto
    <3> QED BY <1>3, <1>4, <2>1, <3>2, <3>3, LoopMovesOnly, ZenonT(40)
  <2>3. CASE l' = StopFirst("outer", "fresh", "abandoned", "mark_recovery_failed", rows["outer"])
             /\ UNCHANGED wl
    BY <1>3, <2>1, <2>3, OuterStopStarts, Zenon
  <2> QED BY <1>6, <2>2, <2>3 DEF Adopt
<1>7. CASE MarkAdopted
  <2>1. UNCHANGED <<wl, lease, fence, gen, s>>
    BY <1>7 DEF MarkAdopted, Store4
  <2>2. CASE /\ rows' = rows \/ rows' = [rows EXCEPT !["outer"].rec = "adopted"]
             /\ l' = [l EXCEPT !.pc = "idle"]
    <3>1. "adopted" \in Intents
      BY Names
    <3>2. \/ rows' = rows
          \/ rows' = [rows EXCEPT !["outer"] = [rows["outer"] EXCEPT !.rec = "adopted"]]
      BY <1>1, <2>2, RowNames, SMTT(20)
    <3> QED BY <1>3, <2>1, <2>2, <3>1, <3>2, OuterMarked
  <2>3. CASE /\ UNCHANGED rows
             /\ l' = StopFirst("outer", "fresh", "abandoned", "mark_recovery_failed", rows["outer"])
    BY <1>3, <2>1, <2>3, OuterStopStarts, Zenon
  <2> QED BY <1>7, <2>2, <2>3 DEF MarkAdopted, Goto
<1> QED BY <1>5, <1>6, <1>7

LEMMA AbandonOuter ==
  ASSUME OuterInv, Abandoned \/ MarkAbandoned
  PROVE  OuterInv'
<1> USE DEF OuterInv
<1>1. l \in LoopRec /\ wl \in WlRec
  BY DEF TypeOK
<1>2. l.pc \in {"abandoned", "abandon_requeued", "mark_recovery_failed"}
  BY DEF Abandoned, MarkAbandoned, At
<1>3. /\ gen["orig"] # "live"
      /\ l.pc # "mark_recovery_failed" => rows["outer"].cl = "confirmed"
  BY <1>2 DEF OrigFirst, PassPcs, OuterStop, AfterStop
<1>4. CASE Abandoned
  <2>1. /\ UNCHANGED <<lease, fence, rows, gen, s>>
        /\ wl' = wl \/ wl' = Queued
        /\ l' = [l EXCEPT !.pc = "abandon_requeued"] /\ l.pc = "abandoned"
    BY <1>4 DEF Abandoned, Goto, At
  <2>2. /\ "abandon_requeued" \in LoopPcs /\ "abandon_requeued" \in AfterStop
        /\ "abandon_requeued" \notin Adopting
    BY DEF LoopPcs, AfterStop, Adopting
  <2>3. l' \in LoopRec /\ l'.pc = "abandon_requeued" /\ wl' \in WlRec
    BY <1>1, <2>1, <2>2, LoopGoes, QueuedRow
  <2> QED BY <1>3, <2>1, <2>2, <2>3, LoopMovesOnly
<1>5. CASE MarkAbandoned
  <2>1. UNCHANGED <<wl, lease, fence, gen, s>>
    BY <1>5 DEF MarkAbandoned, Store4
  <2>2. PICK m \in {"requeued", "failed"} :
          /\ LWrite("outer", [rows["outer"] EXCEPT !.rec = m], "idle", "idle")
          /\ m = "requeued" => l.pc = "abandon_requeued"
    BY <1>5 DEF MarkAbandoned, At
  <2>3. m \in Intents
    BY Names
  <2> QED BY <1>3, <2>1, <2>2, <2>3, OuterMarked DEF LWrite, Goto
<1> QED BY <1>4, <1>5

-----------------------------------------------------------------------------
\* Grants, crashes and the clock.

\* A plain grant needs that no row is open, so nothing restored is running.
LEMMA AdmitOuter ==
  ASSUME OuterInv, Admit
  PROVE  OuterInv'
<1> USE DEF OuterInv
<1>1. l.pc = "reconcile" /\ UNCHANGED <<rows, gen>> /\ l' = [l EXCEPT !.pc = "idle"]
  BY DEF Admit, At, Goto
<1>2. l \in LoopRec /\ wl \in WlRec /\ s \in SegmentRec /\ fence + 1 \in Int
  BY DEF TypeOK
<1>3. /\ "idle" \in LoopPcs /\ "idle" \in PassPcs
      /\ "idle" \notin ToIntent \cup ToGrant \cup ToRestore \cup StopPcs \cup AfterStop \cup Adopting
  BY DEF LoopPcs, PassPcs, ToIntent, ToGrant, ToRestore, StopPcs, AfterStop, Adopting
<1>4. l' \in LoopRec /\ l'.pc = "idle"
  BY <1>1, <1>2, <1>3, LoopGoes
<1>5. CASE UNCHANGED <<wl, lease, fence, s>>
  BY <1>1, <1>2, <1>3, <1>4, <1>5, LoopMovesOnly, SMTT(20)
<1>6. ASSUME CanAcquire, NEW w \in {"v", "u"}, lease' = Granted(w), fence' = fence + 1,
             wl' \in WlRec, s' \in SegmentRec, gen["orig"] = "live" => wl'.ref = wl.ref,
             \/ s' = s
             \/ s'.pc = "arm" /\ s'.fence = fence + 1 /\ gen["orig"] # "live"
      PROVE  OuterInv'
  <2>1. /\ lease' \in LeaseRec /\ lease'.owner = w /\ lease'.fence = fence + 1
    BY <1>2, <1>6, SMTT(20) DEF Granted, LeaseRec
  <2>2. gen["fresh"] # "live"
    BY <1>6, RowNames DEF CanAcquire, Unresolved, Open, FreshInCustody
  <2>3. TypeOK' /\ TokensGiven'
    BY <1>1, <1>3, <1>4, <1>6, <2>1, FencesAreNumbers, SMTT(20) DEF TypeOK, TokensGiven
  <2>4. OrigFirst' /\ Preempting' /\ OuterIsOlder'
    BY <1>1, <1>3, <1>4, <1>6, FencesAreNumbers, SMTT(20)
       DEF OrigFirst, Preempting, OuterIsOlder, TokensGiven
  <2>5. FreshInCustody' /\ OuterStop' /\ OuterSettled'
    BY <1>1, <1>3, <1>4, <2>1, <2>2, FencesAreNumbers, SMTT(20)
       DEF FreshInCustody, OuterStop, OuterSettled, Holds, TokensGiven
  <2> QED BY <2>3, <2>4, <2>5
<1>7. CASE CanAcquire /\ lease' = Granted("u") /\ fence' = fence + 1 /\ UNCHANGED <<wl, s>>
  BY <1>2, <1>6, <1>7
<1>8. CASE /\ CanAcquire /\ wl.ref /\ lease' = Granted("v") /\ fence' = fence + 1
           /\ wl' = [wl EXCEPT !.status = "running", !.rev = @ + 1]
           /\ s' = [AtRest EXCEPT !.pc = "arm", !.fence = fence + 1, !.rev = wl.rev + 1]
  <2>1. "running" \in Statuses /\ "arm" \in SegmentPcs /\ wl.rev + 1 \in Int
    BY <1>2 DEF Statuses, SegmentPcs, WlRec
  <2>2. wl' \in WlRec /\ wl'.ref = wl.ref
    BY <1>2, <1>8, <2>1, Revised, Zenon
  <2>3. s' \in SegmentRec /\ s'.pc = "arm" /\ s'.fence = fence + 1
    <3>1. AtRest \in SegmentRec
      BY Resting
    <3> QED BY <1>2, <1>8, <2>1, <3>1, Zenon DEF SegmentRec
  <2>4. gen["orig"] # "live"
    BY <1>8 DEF OrigFirst
  <2> QED BY <1>6, <1>8, <2>2, <2>3, <2>4, Zenon
<1> QED BY <1>5, <1>7, <1>8 DEF Admit

\* The newcomer gives back its own lease, which no restored generation runs under.
LEMMA NewcomerEndsOuter ==
  ASSUME OuterInv, NewcomerEnds
  PROVE  OuterInv'
<1> USE DEF OuterInv
<1>1. lease.owner = "u" /\ UNCHANGED <<wl, fence, rows, gen, l, s>>
  BY DEF NewcomerEnds
<1>2. lease' \in LeaseRec /\ lease'.owner = "none" /\ lease'.fence = 0
  BY Resting DEF NewcomerEnds
<1>3. gen["fresh"] # "live" /\ l.pc \notin ToRestore
  BY <1>1, SMTT(20) DEF FreshInCustody
<1>4. TypeOK' /\ TokensGiven'
  BY <1>1, <1>2, FencesAreNumbers, SMTT(20) DEF TypeOK, TokensGiven
<1>5. OrigFirst' /\ Preempting' /\ OuterIsOlder'
  <2>1. OrigFirst'
    BY <1>1, SMTT(20) DEF OrigFirst
  <2>2. Preempting'
    BY <1>1, SMTT(20) DEF Preempting
  <2>3. OuterIsOlder'
    BY <1>1, SMTT(20) DEF OuterIsOlder
  <2> QED BY <2>1, <2>2, <2>3
<1>6. FreshInCustody' /\ OuterStop' /\ OuterSettled'
  BY <1>1, <1>2, <1>3 DEF FreshInCustody, OuterStop, OuterSettled, Holds
<1> QED BY <1>4, <1>5, <1>6

\* A crash ends both threads and perhaps some generations; the rows stay.
LEMMA CrashOuter ==
  ASSUME OuterInv, Crash
  PROVE  OuterInv'
<1> USE DEF OuterInv
<1>1. /\ UNCHANGED <<wl, lease, fence, rows>> /\ s' = AtRest
      /\ l' = [Idle EXCEPT !.pc = "down"]
  BY DEF Crash
<1>2. l' \in LoopRec /\ l'.pc = "down"
  <2>1. Idle \in LoopRec /\ "down" \in LoopPcs
    BY Resting DEF LoopPcs
  <2> QED BY <1>1, <2>1, LoopGoes
<1>3. s' \in SegmentRec /\ s'.pc = "none" /\ s'.fence = 0
  BY <1>1, Resting
<1>4. /\ gen' \in [Generations -> {"none", "live", "off"}]
      /\ \A g \in Generations : gen'[g] = "live" => gen[g] = "live"
  BY DEF Crash, TypeOK
<1>5. "orig" \in Generations /\ "fresh" \in Generations
  BY DEF Generations
<1>6. /\ "down" \notin ToIntent \cup ToGrant \cup ToRestore \cup StopPcs \cup AfterStop \cup Adopting
      /\ "down" \in PassPcs /\ "none" \in OrigPcs
  BY DEF ToIntent, ToGrant, ToRestore, StopPcs, AfterStop, Adopting, PassPcs, OrigPcs
<1>7. TypeOK' /\ TokensGiven'
  BY <1>1, <1>2, <1>3, <1>4, <1>6, FencesAreNumbers, SMTT(20) DEF TypeOK, TokensGiven
<1>8. OrigFirst' /\ Preempting' /\ OuterIsOlder'
  BY <1>1, <1>2, <1>3, <1>4, <1>5, <1>6, SMTT(20) DEF OrigFirst, Preempting, OuterIsOlder
<1>9. FreshInCustody'
  BY <1>1, <1>2, <1>3, <1>4, <1>5, <1>6, FencesAreNumbers, SMTT(20) DEF FreshInCustody, TokensGiven
<1>10. OuterStop' /\ OuterSettled'
  BY <1>1, <1>2, <1>6, SMTT(20) DEF OuterStop, OuterSettled, Holds
<1> QED BY <1>7, <1>8, <1>9, <1>10

LEMMA ExpireOuter ==
  ASSUME OuterInv, Expire
  PROVE  OuterInv'
<1> USE DEF OuterInv
<1>1. /\ l.pc = "down" /\ UNCHANGED <<wl, fence, rows, gen, l, s>>
      /\ lease' = [lease EXCEPT !.expired = TRUE] /\ lease \in LeaseRec
  BY DEF Expire, TypeOK
<1>2. lease' \in LeaseRec /\ lease'.owner = lease.owner /\ lease'.fence = lease.fence
  BY <1>1, ZenonT(40) DEF LeaseRec
<1>3. "down" \in PassPcs /\ "down" \notin AfterStop \cup Adopting
  BY DEF PassPcs, AfterStop, Adopting
<1> QED BY <1>1, <1>2, <1>3, LoopMoves DEF TypeOK, OuterSettled

-----------------------------------------------------------------------------
\* The segment.

LEMMA Released ==
  ASSUME lease' = lease \/ lease' = AfterRelease(s.fence)
  PROVE  lease' = lease \/ (Holds(s.fence) /\ lease' = NoLease)
  BY DEF AfterRelease

\* The workload row as a segment leaves it.
LEMMA SegmentRevises ==
  ASSUME wl \in WlRec,
         \/ wl' = wl \/ wl' = [wl EXCEPT !.rev = @ + 1]
         \/ wl' = [wl EXCEPT !.status = "ended", !.rev = @ + 1]
         \/ \E e \in {"orig", "seg"} : wl' = [wl EXCEPT !.exec = e, !.ref = FALSE, !.rev = @ + 1]
  PROVE  wl' \in WlRec /\ (wl'.ref = wl.ref \/ ~wl'.ref)
<1>1. "ended" \in Statuses /\ \A e \in {"orig", "seg"} : e \in Executions
  BY DEF Statuses, Executions
<1>2. CASE wl' = [wl EXCEPT !.rev = @ + 1]
  BY <1>2, Revised, Zenon
<1>3. CASE wl' = [wl EXCEPT !.status = "ended", !.rev = @ + 1]
  BY <1>1, <1>3, Revised, ZenonT(40)
<1>4. ASSUME NEW e \in {"orig", "seg"}, wl' = [wl EXCEPT !.exec = e, !.ref = FALSE, !.rev = @ + 1]
      PROVE  wl' \in WlRec /\ ~wl'.ref
  BY <1>1, <1>4, Revised, ZenonT(40)
<1> QED BY <1>2, <1>3, <1>4

\* Before it was preempted the segment only has the workload row and its lease.
LEMMA OrigSegmentOuter ==
  ASSUME OuterInv, SProgress \/ SPrepareEnd \/ SFinish \/ SPreempted
  PROVE  OuterInv'
<1> USE DEF OuterInv
<1>1. UNCHANGED <<fence, l, rows>>
  BY DEF SProgress, SPrepareEnd, SFinish, SPreempted, Loop3
<1>2. wl \in WlRec /\ s \in SegmentRec /\ rows \in [Rows -> RowRec]
  BY DEF TypeOK
<1>3. wl' \in WlRec /\ (wl'.ref = wl.ref \/ ~wl'.ref)
  BY <1>2, SegmentRevises DEF SProgress, SPrepareEnd, SFinish, SPreempted
<1>4. lease' = lease \/ (Holds(s.fence) /\ lease' = NoLease)
  BY Released DEF SProgress, SPrepareEnd, SFinish, SPreempted
<1>5. /\ gen' \in [Generations -> {"none", "live", "off"}] /\ gen'["fresh"] = gen["fresh"]
      /\ gen'["orig"] = "live" => gen["orig"] = "live" /\ gen' = gen
  BY DEF SProgress, SPrepareEnd, SFinish, SPreempted, TypeOK, Generations
<1>6. \/ s' = s /\ s.pc = "orig"
      \/ s' = AtRest
      \/ s' = [s EXCEPT !.pc = "finish", !.rev = wl'.rev] /\ gen'["orig"] # "live"
  BY DEF SProgress, SPrepareEnd, SFinish, SPreempted, SAt, TypeOK, Generations
<1>7. /\ "finish" \in SegmentPcs /\ wl'.rev \in Int /\ "none" \in OrigPcs
      /\ "finish" \in OrigPcs /\ "orig" \in OrigPcs
  BY <1>3 DEF SegmentPcs, WlRec, OrigPcs
<1>8. /\ s' \in SegmentRec /\ s'.pc \in OrigPcs
      /\ s'.fence = s.fence \/ (s'.fence = 0 /\ s'.pc = "none")
      /\ gen'["orig"] = "live" => s'.pc \in {"orig", "none"}
  <2>1. CASE s' = [s EXCEPT !.pc = "finish", !.rev = wl'.rev] /\ gen'["orig"] # "live"
    BY <1>2, <1>7, <2>1, ZenonT(40) DEF SegmentRec
  <2> QED BY <1>2, <1>6, <1>7, <2>1, Resting
<1> QED BY <1>1, <1>2, <1>3, <1>4, <1>5, <1>8, SegmentMoves, SMTT(20)

\* A segment that is resumed, runs or is stopped writes its row under its token.
LEMMA ResumedOuter ==
  ASSUME OuterInv, s.pc \notin OrigPcs, UNCHANGED <<fence, l>>,
         wl' \in WlRec, wl'.ref = wl.ref \/ ~wl'.ref,
         lease' = lease \/ lease' = AfterRelease(s.fence),
         \/ rows' = rows
         \/ \E row \in RowRec : row.fence = s.fence /\ rows' = [rows EXCEPT !["seg"] = row],
         gen' = gen \/ \E x \in {"live", "off"} : gen' = [gen EXCEPT !["seg"] = x],
         \/ s' = AtRest
         \/ \E pc \in SegmentPcs : s' = [s EXCEPT !.pc = pc]
         \/ \E pc \in SegmentPcs, h \in Outcomes : s' = [s EXCEPT !.pc = pc, !.h = h]
  PROVE  OuterInv'
<1> USE DEF OuterInv
<1>1. s \in SegmentRec /\ rows \in [Rows -> RowRec] /\ "orig" \in OrigPcs /\ "none" \in OrigPcs
  BY ZenonT(40) DEF TypeOK, OrigPcs
<1>2. gen["orig"] # "live"
  BY <1>1, ZenonT(40) DEF OrigFirst
<1>3. /\ gen' \in [Generations -> {"none", "live", "off"}] /\ gen'["fresh"] = gen["fresh"]
      /\ gen'["orig"] = gen["orig"]
  BY ZenonT(40) DEF TypeOK, Generations
<1>4. /\ rows' \in [Rows -> RowRec] /\ rows'["outer"] = rows["outer"]
      /\ rows'["seg"] = rows["seg"] \/ rows'["seg"].fence = s.fence
  BY <1>1, RowNames, ZenonT(40)
<1>5. s' \in SegmentRec /\ (s'.fence = s.fence \/ (s'.fence = 0 /\ s'.pc = "none"))
  BY <1>1, Resting, ZenonT(40) DEF SegmentRec
<1>6. lease' = lease \/ (Holds(s.fence) /\ lease' = NoLease)
  BY Released, ZenonT(40)
<1> QED BY <1>2, <1>3, <1>4, <1>5, <1>6, SegmentMoves, Zenon

LEMMA ResumedSegmentOuter ==
  ASSUME OuterInv,
         \/ SArm \/ SPend \/ SFail \/ SResume \/ SOwn \/ SPublish \/ SObserve \/ SCancel
         \/ SRecordStopped \/ SReleaseTerminal \/ STerminal \/ SConfirm
  PROVE  OuterInv'
<1> USE DEF OuterInv
<1>1. /\ wl \in WlRec /\ s \in SegmentRec /\ rows["seg"] \in RowRec /\ rows \in [Rows -> RowRec]
      /\ s.fence \in Int
  BY RowNames, FencesAreNumbers DEF TypeOK
<1>2. \A pc \in {"pend", "fail", "resume", "own", "publish", "seg", "cancel", "cancel_deferred",
                  "cancel_retained", "record_stopped", "release_terminal", "terminal",
                  "confirm", "fenced"} : pc \in SegmentPcs /\ pc \notin OrigPcs
  BY DEF SegmentPcs, OrigPcs
<1>3. "arm" \notin OrigPcs /\ \A h \in {"none", "real", "stopped", "deferred"} : h \in Outcomes
  BY SMTT(20) DEF OrigPcs, Outcomes
<1>4. UNCHANGED <<fence, l>>
  BY SMTT(20) DEF SArm, SPend, SFail, SResume, SOwn, SPublish, SObserve, SCancel, SRecordStopped,
         SReleaseTerminal, STerminal, SConfirm, Loop3
<1>5. s.pc \notin OrigPcs
  BY <1>2, <1>3, SMTT(20) DEF SArm, SPend, SFail, SResume, SOwn, SPublish, SObserve, SCancel, SRecordStopped,
                    SReleaseTerminal, STerminal, SConfirm, SAt
<1>6. wl' \in WlRec /\ (wl'.ref = wl.ref \/ ~wl'.ref)
  BY <1>1, SegmentRevises, SMTT(20)
     DEF SArm, SPend, SFail, SResume, SOwn, SPublish, SObserve, SCancel, SRecordStopped,
         SReleaseTerminal, STerminal, SConfirm
<1>7. lease' = lease \/ lease' = AfterRelease(s.fence)
  BY SMTT(20) DEF SArm, SPend, SFail, SResume, SOwn, SPublish, SObserve, SCancel, SRecordStopped,
         SReleaseTerminal, STerminal, SConfirm
<1>8. gen' = gen \/ \E x \in {"live", "off"} : gen' = [gen EXCEPT !["seg"] = x]
  <2>1. CASE SCancel
    <3>1. gen' = gen \/ gen' = [gen EXCEPT !["seg"] = IF @ = "live" THEN "off" ELSE @]
      BY <2>1 DEF SCancel
    <3> QED BY <3>1 DEF TypeOK, Generations
  <2> QED BY <2>1 DEF SArm, SPend, SFail, SResume, SOwn, SPublish, SObserve, SRecordStopped,
                      SReleaseTerminal, STerminal, SConfirm
<1>9. \/ s' = AtRest
      \/ \E pc \in SegmentPcs : s' = [s EXCEPT !.pc = pc]
      \/ \E pc \in SegmentPcs, h \in Outcomes : s' = [s EXCEPT !.pc = pc, !.h = h]
  <2>1. CASE SArm \/ SPend \/ SFail \/ SPublish \/ SObserve \/ SReleaseTerminal \/ STerminal \/ SConfirm
    BY <1>2, <2>1, ZenonT(40) DEF SArm, SPend, SWrite, SGoto, SFail, SPublish, SObserve, SReleaseTerminal,
                      STerminal, SConfirm
  <2>2. CASE SResume \/ SOwn \/ SCancel \/ SRecordStopped
    BY <1>2, <1>3, <2>2, Zenon DEF SResume, SOwn, SCancel, SRecordStopped, SGoto
  <2> QED BY <2>1, <2>2, ZenonT(40)
<1>10. \A c \in Cleanups, h \in Handles :
         LET q == Recorded(rows["seg"], c, h, s.fence) IN
           /\ q \in RowRec /\ q.fence = s.fence
           /\ [q EXCEPT !.fail = TRUE] \in RowRec /\ [q EXCEPT !.fail = TRUE].fence = s.fence
  <2> TAKE c \in Cleanups, h \in Handles
  <2> DEFINE q == Recorded(rows["seg"], c, h, s.fence)
  <2>1. q \in RowRec /\ q.fence = s.fence
    BY <1>1, RecordedRow
  <2> HIDE DEF q
  <2>2. [q EXCEPT !.fail = TRUE] \in RowRec /\ [q EXCEPT !.fail = TRUE].fence = s.fence
    BY <2>1, Zenon DEF RowRec
  <2> QED BY <2>1, <2>2 DEF q
<1>11. \/ rows' = rows
       \/ \E c \in Cleanups, h \in Handles :
            LET q == Recorded(rows["seg"], c, h, s.fence) IN
              \/ rows' = [rows EXCEPT !["seg"] = q]
              \/ rows' = [rows EXCEPT !["seg"] = [q EXCEPT !.fail = TRUE]]
  <2>1. rows = [rows EXCEPT !["seg"] = rows["seg"]]
    BY <1>1
  <2>2. CASE SArm
    BY <2>1, <2>2, Names DEF SArm, SWrite
  <2>3. CASE SPend
    BY <2>3, Names DEF SPend, SWrite
  <2>4. CASE SConfirm
    BY <2>1, <2>4, Names DEF SConfirm
  <2>5. CASE SResume
    BY <2>5, Names DEF SResume
  <2>6. CASE SOwn
    BY <2>6, Names DEF SOwn
  <2>7. CASE SCancel
    BY <2>7, Names DEF SCancel
  <2>8. CASE SRecordStopped
    BY <2>8, Names DEF SRecordStopped
  <2>9. CASE SFail \/ SPublish \/ SObserve \/ SReleaseTerminal \/ STerminal
    BY <2>9 DEF SFail, SPublish, SObserve, SReleaseTerminal, STerminal
  <2> QED BY <2>2, <2>3, <2>4, <2>5, <2>6, <2>7, <2>8, <2>9, SMTT(20)
<1>12. \/ rows' = rows
       \/ \E row \in RowRec : row.fence = s.fence /\ rows' = [rows EXCEPT !["seg"] = row]
  BY <1>10, <1>11, Zenon
<1> QED BY <1>4, <1>5, <1>6, <1>7, <1>8, <1>9, <1>12, ResumedOuter, ZenonT(40)

\* The invariant is about nothing else.
LEMMA StutterOuter ==
  ASSUME OuterInv, UNCHANGED <<wl, lease, fence, rows, gen, l, s>>
  PROVE  OuterInv'
<1> USE DEF OuterInv
<1>1. TypeOK'
  BY DEF TypeOK
<1>2. TokensGiven' /\ OrigFirst'
  BY DEF TokensGiven, OrigFirst
<1>3. Preempting' /\ OuterIsOlder'
  BY DEF Preempting, OuterIsOlder
<1>4. FreshInCustody'
  BY DEF FreshInCustody
<1>5. OuterStop'
  BY DEF OuterStop, Holds
<1>6. OuterSettled'
  BY DEF OuterSettled, Holds
<1> QED BY <1>1, <1>2, <1>3, <1>4, <1>5, <1>6

LEMMA SegmentOuter ==
  ASSUME OuterInv, Segment
  PROVE  OuterInv'
<1>1. CASE SAssign
  <2>1. UNCHANGED <<wl, lease, fence, rows, gen, l, s>>
    BY <1>1 DEF SAssign
  <2> QED BY <2>1, StutterOuter
<1> QED BY <1>1, OrigSegmentOuter, ResumedSegmentOuter, SMTT(20) DEF Segment

-----------------------------------------------------------------------------
\* The recovery intent, whatever runs beside it.

LEMMA InitOuter ==
  ASSUME Init
  PROVE  OuterInv
<1> USE DEF OuterInv
<1>1. /\ rows = [r \in Rows |-> NoRow] /\ rows["outer"] = NoRow /\ rows["seg"] = NoRow
      /\ fence = 1 /\ l = Idle
  BY RowNames DEF Init
<1>2. lease \in LeaseRec /\ lease.owner = "v" /\ lease.fence = 1
  BY DEF Init, LeaseRec
<1>3. wl \in WlRec /\ ~wl.ref
  BY DEF Init, WlRec, Statuses, Executions
<1>4. gen \in [Generations -> {"none", "live", "off"}] /\ gen["fresh"] # "live"
  BY DEF Init, Generations
<1>5. s \in SegmentRec /\ s.pc = "orig" /\ s.fence = 1
  <2>1. PICK n \in Int, k \in SegmentRec, pc \in SegmentPcs : n = 1 /\ k = AtRest /\ pc = "orig"
    BY Resting DEF SegmentPcs
  <2> DEFINE q == [k EXCEPT !.pc = pc, !.fence = n]
  <2>2. q \in SegmentRec /\ q.pc = pc /\ q.fence = n
    BY Zenon DEF SegmentRec
  <2>3. s = q
    BY <2>1 DEF Init
  <2> HIDE DEF q
  <2> QED BY <2>1, <2>2, <2>3
<1>6. TypeOK
  BY <1>1, <1>2, <1>3, <1>4, <1>5, Resting, SMTT(20) DEF TypeOK
<1>7. /\ "idle" \notin ToIntent \cup ToGrant \cup ToRestore \cup StopPcs \cup AfterStop \cup Adopting
      /\ "idle" \in PassPcs /\ "orig" \in OrigPcs
  BY DEF PassPcs, ToIntent, ToGrant, ToRestore, StopPcs, AfterStop, Adopting, OrigPcs
<1>8. TokensGiven
  BY <1>1, <1>2, <1>5, <1>7, Resting, SMTT(20) DEF TokensGiven
<1>9. OrigFirst /\ Preempting /\ OuterIsOlder
  BY <1>1, <1>3, <1>5, <1>7, Resting, SMTT(20) DEF OrigFirst, Preempting, OuterIsOlder
<1>10. FreshInCustody /\ OuterStop /\ OuterSettled
  BY <1>1, <1>4, <1>7, Resting, SMTT(20) DEF FreshInCustody, OuterStop, OuterSettled
<1> QED BY <1>6, <1>8, <1>9, <1>10

LEMMA NextOuter ==
  ASSUME OuterInv, [Next]_vars
  PROVE  OuterInv'
<1>1. CASE StartPass
  BY <1>1, StartPassOuter
<1>2. CASE StopProcedure
  BY <1>2, StopOuter
<1>3. CASE RecoverPass
  BY <1>3, RecoverPassOuter
<1>4. CASE CleanupRow
  BY <1>4, CleanupRowOuter
<1>5. CASE StartCleanup \/ EndPass \/ Restart
  BY <1>5, EndPassOuter
<1>6. CASE PreemptVictim
  BY <1>6, PreemptOuter, ToIntentOuter, ReleaseOldOuter, ReacquireOuter, ArmFreshOuter,
     RestoreOuter, AdoptionOuter, AbandonOuter, SMTT(20) DEF PreemptVictim
<1>7. CASE Admit
  BY <1>7, AdmitOuter
<1>8. CASE Segment
  BY <1>8, SegmentOuter
<1>9. CASE NewcomerEnds \/ Crash \/ Expire
  BY <1>9, NewcomerEndsOuter, CrashOuter, ExpireOuter, SMTT(20)
<1>10. CASE UNCHANGED vars
  BY <1>10, StutterOuter DEF vars
<1> QED BY <1>1, <1>2, <1>3, <1>4, <1>5, <1>6, <1>7, <1>8, <1>9, <1>10, SMTT(20) DEF Next, LoopStep

LEMMA SpecOuter == Spec => []OuterInv
<1>1. Init => OuterInv
  BY InitOuter
<1>2. OuterInv /\ [Next]_vars => OuterInv'
  BY NextOuter
<1> QED BY <1>1, <1>2, PTL DEF Spec

\* The intent of a checkpointed workload is marked requeued
\* (markCheckpointRecoveryIntent) only when the fresh generation restored for it is
\* not running and its fence has been given back, for any number of crashes, failed
\* writes and failed cancellations, and also when a pass runs beside a segment.
THEOREM RequeuedIsStopped == Spec => []RequeuedAfterStop
<1>1. OuterInv => RequeuedAfterStop
  BY DEF OuterInv, OuterSettled, FreshInCustody, RequeuedAfterStop
<1> QED BY <1>1, SpecOuter, PTL

\* A fresh generation that tryPreempt restored runs under the accelerator lease
\* whose fence its row in the checkpoint journal names, that row is still open, and
\* no goroutine that could release a lease for the workload has the same fence.
THEOREM FreshIsInCustody == Spec => []FreshInCustody
<1>1. OuterInv => FreshInCustody
  BY DEF OuterInv
<1> QED BY <1>1, SpecOuter, PTL

=============================================================================
