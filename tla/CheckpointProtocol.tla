------------------------- MODULE CheckpointProtocol -------------------------
(***************************************************************************)
(* The checkpoint protocol of one llama.cpp conversation, controller to    *)
(* node: the procedures of the llama adapter (start a stream on a leased   *)
(* slot, observe its end, cancel it, resume it), the CheckpointCoordinator *)
(* they drive (checkpoint with compensation, restore, terminalization,     *)
(* start-up recovery), the controller's journal rows and snapshot bundle,  *)
(* and, on the node, the phase journal, the slot owner, the owner manifest *)
(* and the llama.cpp slot.                                                 *)
(*                                                                         *)
(* A procedure of the controller is straight-line code: a call, and where  *)
(* to go when it succeeds and when it fails.  It is written here as a      *)
(* record of such steps; the actions below carry out one step, with every  *)
(* outcome the call may have.  A node command may be refused, be executed, *)
(* be executed with its answer lost, or never arrive; a row write may      *)
(* fail; the controller may crash between any two steps.                   *)
(*                                                                         *)
(* One target with one slot.  "stream" is the operation of the original    *)
(* conversation and of its checkpoint, "undo" the compensation of that     *)
(* checkpoint, "urgent" the operation of the work that displaces it and    *)
(* "restore" the operation that resumes it.                                *)
(***************************************************************************)
EXTENDS Integers, FiniteSets, TLC

CONSTANTS
  Troubles,    \* bounds on lost calls, failed writes and controller crashes
  MaxTries     \* how often a failed cancel or an incomplete recovery is retried

VARIABLES
  phases,      \* controller journal: operation -> phase, "none" if absent
  named,       \* the stream's row carries the snapshot's name
  nodeOp,      \* node journal: operation -> [phase, action], phase 0 if absent
  known,       \* operations whose node journal carries the snapshot's name
  slotOwner,   \* checkpointSlots: the operation that owns the slot
  live,        \* operations whose generation is running in the slot
  file,        \* the saved KV file exists on the node
  refs,        \* references of the owner manifest to that file
  bundle,      \* controller bundle: "none", "kv", "json" or "full"
  held,        \* the bundle's metadata: one reference, not terminalized
  active,      \* coordinator memory: operations with resumable metadata
  unresolved,  \* coordinator memory: targetRecoveryErr of the target
  wl,          \* what the manager knows of the workload
  c,           \* the running procedure
  left         \* remaining faults, crashes and retries

protocolVars == <<phases, named, nodeOp, known, slotOwner, live, file, refs, bundle, held,
                  active, unresolved, wl, c, left>>

journal == <<phases, named>>
nodeVars == <<nodeOp, known, slotOwner, live, file, refs>>
bundleVars == <<bundle, held>>
memory == <<active, unresolved>>

Ops == {"stream", "undo", "urgent", "restore"}
Fence == [stream |-> 1, undo |-> 1, urgent |-> 2, restore |-> 3]

----------------------------------------------------------------------------
(* The controller's journal rows (store). *)

\* Phases that end an operation, and the phases in which a row names a slot
\* it holds (a row gets its slot with the assignment).
Final == {"completed", "failed", "cancelled", "restore_failed"}
HoldsSlot == {"assigned", "started", "paused", "saved", "stopped", "restore_assigned",
              "reloaded", "restored", "resumed", "continued", "reused"}

\* The explicit phase graph of llmCheckpointTransitionAllowed.
llmCheckpointTransitionAllowed(from, to) ==
  \/ from = to
  \/ <<from, to>> \in
       {<<"planned", "assigned">>, <<"assigned", "started">>, <<"started", "paused">>,
        <<"started", "stopped">>, <<"paused", "saved">>, <<"saved", "stopped">>,
        <<"stopped", "released">>, <<"released", "restore_planned">>,
        <<"released", "completed">>, <<"restore_planned", "restore_assigned">>,
        <<"restore_assigned", "reloaded">>, <<"reloaded", "restored">>,
        <<"restored", "resumed">>, <<"resumed", "continued">>,
        <<"continued", "reused">>, <<"reused", "completed">>}
  \/ from \notin Final /\ to \in {"failed", "cancelled"}
  \/ /\ to = "restore_failed"
     /\ from \in {"restore_planned", "restore_assigned", "reloaded", "restored",
                  "resumed", "continued"}

\* checkpointRecoveryOrdinal: the ordinal a row's phase stands for.
Ordinal == [planned |-> 1, assigned |-> 1, started |-> 2, paused |-> 3, saved |-> 4,
            stopped |-> 5, released |-> 6, restore_planned |-> 6, restore_assigned |-> 8,
            reloaded |-> 9, restored |-> 10, resumed |-> 11, continued |-> 12,
            reused |-> 13, completed |-> 15, failed |-> 15, cancelled |-> 15,
            restore_failed |-> 15]

\* A row's snapshot name: a restore or a compensation is created with it.
SnapshotNamed(op) ==
  (op \in {"restore", "undo"} /\ phases[op] # "none") \/ (op = "stream" /\ named)

\* prepareLLMCheckpointCreate: a root row is planned, or a restore that names
\* its snapshot.  The compensation names savedKV, set once the bundle is put.
CreateOperation(op, phase) ==
  \/ phase = "planned"
  \/ phase = "restore_planned" /\ (op = "undo" => bundle = "full")

\* UpdateLLMCheckpointOperation: a legal transition, and no other row holding
\* the slot while this one claims it.
UpdateOperation(op, phase) ==
  /\ llmCheckpointTransitionAllowed(phases[op], phase)
  /\ phase \in HoldsSlot => \A o \in Ops \ {op} : phases[o] \notin HoldsSlot

\* persistOperation: re-asserting planned or assigned never takes a row back.
Reasserted(op, phase) ==
  \/ phase = "planned" /\ phases[op] \notin {"none", "planned"}
  \/ phase = "assigned" /\ phases[op] \notin {"none", "planned"}

CanPersist(op, phase) ==
  IF phases[op] = "none" THEN CreateOperation(op, phase)
  ELSE Reasserted(op, phase) \/ UpdateOperation(op, phase)

persistOperation(op, phase) ==
  /\ phases' = IF Reasserted(op, phase) THEN phases ELSE [phases EXCEPT ![op] = phase]
  /\ named' = (named \/ (op = "stream" /\ phase = "saved"))

----------------------------------------------------------------------------
(* The node: phase journal, slot owner, owner manifest, llama.cpp slot. *)

checkpointPhase ==
  [slot_assign |-> 1, start |-> 2, pause |-> 3, save |-> 4, stop_confirm |-> 5,
   release |-> 6, reload |-> 9, restore |-> 10, resume |-> 11, rollback_resume |-> 0,
   continue |-> 12, reuse_verify |-> 13, cancel |-> 14, state_query |-> 0]

\* The ordinal an action reaches from a journalled state.
checkpointPhaseFor(st, action) ==
  CASE action = "slot_assign" /\ st.phase \in {6, 8} -> 8
    [] action = "rollback_resume" /\ st.phase \in 1..11 -> 11
    [] action = "release" /\ st.phase \in 9..15 -> 15
    [] OTHER -> checkpointPhase[action]

checkpointNodeTransitionAllowed(st, action) ==
  IF st.phase = 0 THEN action = "slot_assign"
  ELSE
    \/ checkpointPhaseFor(st, action) = st.phase /\ action = st.action
    \/ action = "start" /\ st.phase = 1
    \/ action = "pause" /\ st.phase \in 1..2
    \/ action = "save" /\ st.action = "pause"
    \/ action = "stop_confirm" /\ st.phase \in 1..4
    \/ action = "release" /\ (st.phase \in 1..2 \cup 9..14 \/ st.action = "stop_confirm")
    \/ action = "slot_assign" /\ st.phase = 6
    \/ action = "reload" /\ st.action = "slot_assign"
    \/ action = "restore" /\ st.phase = 9
    \/ action = "resume" /\ st.phase = 10
    \/ action = "reuse_verify" /\ st.phase = 12

\* The journal a command is authorized against: a rollback borrows the state
\* of the operation it compensates.
JournalOf(op, action) ==
  IF action = "rollback_resume" /\ nodeOp[op].phase = 0 THEN nodeOp["stream"] ELSE nodeOp[op]

\* The assignment of a stream or of a restore asks for any slot (slot_id -1).
NamesSlot(op, action) == action # "slot_assign" \/ op = "undo"

\* No other operation owns the slot, and every other operation journalled on
\* it has an older fence.
SlotIsOurs(op, action) ==
  /\ NamesSlot(op, action) => slotOwner \in {"none", op}
  /\ \A o \in Ops \ {op} : nodeOp[o].phase > 0 => Fence[op] > Fence[o]

authorizeCheckpointPhase(op, action) ==
  LET st == JournalOf(op, action) IN
  CASE action = "state_query" -> st.phase > 0
    [] action = "start" -> st.phase = 1
    [] action = "continue" -> st.phase = 11
    [] action = "rollback_resume" -> st.phase \in 1..11
    [] action = "cancel" -> st.phase >= 11
    [] OTHER -> SlotIsOurs(op, action) /\ checkpointNodeTransitionAllowed(st, action)

\* The command repeats the journalled phase: only a release is answered from
\* the journal, any other repetition under a new key lacks its result.
Replayed(op, action) ==
  LET st == JournalOf(op, action) IN
  checkpointPhaseFor(st, action) = st.phase /\ st.action = action

\* The generation a pause or a cancel deletes.  Only the cancel of a published
\* handle names the live continuation.
Deletes(op, action) ==
  IF action = "pause" \/ (action = "cancel" /\ c.pc = "x_cancel") THEN {op} ELSE {}

\* The driver calls that wait until the slot is idle: an assignment, a stop
\* confirmation, a release, a resume and, after its DELETE, a pause or cancel.
WaitsForIdle ==
  {"slot_assign", "stop_confirm", "release", "resume", "rollback_resume", "pause", "cancel"}

waitExternalIdle(op, action) == live \ Deletes(op, action) = {}

\* Mutant: a release does not wait until the slot is idle.
ReleaseWithoutIdle(op, action) ==
  /\ action \in WaitsForIdle \ {"release"} => waitExternalIdle(op, action)
  /\ action = "restore" => file

Executable(op, action) ==
  /\ action \in WaitsForIdle => waitExternalIdle(op, action)
  /\ action = "restore" => file

\* commitCheckpointPhase: the journal advances and the slot owner follows it.
commitCheckpointPhase(op, action) ==
  IF action = "state_query" THEN UNCHANGED <<nodeOp, known, slotOwner>>
  ELSE
    /\ nodeOp' = [nodeOp EXCEPT ![op] = [phase |-> checkpointPhaseFor(JournalOf(op, action), action),
                                     action |-> action]]
    /\ known' = IF \/ action = "save"
                   \/ action \in {"restore", "release", "cancel"} /\ op = "restore"
                   \/ action = "rollback_resume" /\ "stream" \in known
                THEN known \cup {op} ELSE known
    /\ slotOwner' = IF action = "release" THEN "none" ELSE op

\* Mutant: releasing the slot also gives up the snapshot's reference.
ReferencesDroppedByRelease(op, action) ==
  CASE action = "save" -> refs' = {op} /\ file' = TRUE
    [] action \in {"reuse_verify", "cancel", "release"} -> refs' = {} /\ file' = FALSE
    [] OTHER -> UNCHANGED <<refs, file>>

\* recordOwnedCheckpoint at a save.  Reuse evidence and a cancelled resumed
\* conversation finalize the ownership: the last reference goes, and the file
\* with it.  A release keeps both (markOwnedCheckpointInactive).
OwnerManifest(op, action) ==
  CASE action = "save" -> refs' = {op} /\ file' = TRUE
    [] action \in {"reuse_verify", "cancel"} /\ op \in known' -> refs' = {} /\ file' = FALSE
    [] OTHER -> UNCHANGED <<refs, file>>

\* finalizeCheckpointOwnership finds no reference left: the command fails
\* although its phase has been committed.
FinalizeRefused(op, action) ==
  action \in {"reuse_verify", "cancel"} /\ op \in known' /\ refs = {}

executeCheckpoint(op, action) ==
  /\ commitCheckpointPhase(op, action)
  /\ OwnerManifest(op, action)
  /\ live' = live \ Deletes(op, action)

----------------------------------------------------------------------------
(* The controller's procedures.  A step is a node command, a row write, the *)
(* mirror of a node phase in the row, a bundle operation or the opening of  *)
(* the live response; "ok" and "err" say where it continues.                *)

Step(kind, op, arg, ok, err) ==
  [kind |-> kind, op |-> op, arg |-> arg, ok |-> ok, err |-> err]
Node(arg, ok, err) == Step("node", "own", arg, ok, err)
Row(arg, ok, err) == Step("row", "own", arg, ok, err)
Mirror(arg, ok, err) == Step("mirror", "own", arg, ok, err)
File(arg, ok, err) == Step("file", "own", arg, ok, err)
Undo(step) == [step EXCEPT !.op = "undo"]
Main(step) == [step EXCEPT !.op = "stream"]

\* StartStreamWithLease: reserve the row, take the slot, register the
\* conversation, open the response.
StartStreamWithLease ==
  [s_plan |-> Row("planned", "s_assign", "refused"),
   s_assign |-> Node("slot_assign", "s_assigned", "refused"),
   s_assigned |-> Row("assigned", "s_start", "rb_pause"),
   s_start |-> Node("start", "s_started", "rb_pause"),
   s_started |-> Row("started", "s_live", "rb_pause"),
   s_live |-> Step("open", "own", "", "streaming", "rb_pause")]

\* Its rollbackSlot: errors of pause and stop do not keep it from releasing.
rollbackSlot ==
  [rb_pause |-> Node("pause", "rb_stop", "rb_stop"),
   rb_stop |-> Node("stop_confirm", "rb_release", "rb_release"),
   rb_release |-> Node("release", "rb_released", "refused"),
   rb_released |-> Row("released", "t_source", "refused")]

\* CheckpointCoordinator.checkpoint on the slot the stream already owns.
checkpoint ==
  [k_planned |-> Row("planned", "k_assigned", "streaming"),
   k_assigned |-> Row("assigned", "k_pause", "u_plan"),
   k_pause |-> Node("pause", "k_paused", "u_plan"),
   k_paused |-> Row("paused", "k_save", "u_plan"),
   k_save |-> Node("save", "k_saved", "u_plan"),
   k_saved |-> Row("saved", "k_stop", "u_plan"),
   k_stop |-> Node("stop_confirm", "k_stopped", "u_plan"),
   k_stopped |-> Row("stopped", "p_kv", "u_plan"),
   k_release |-> Node("release", "k_released", "u_plan"),
   k_released |-> Row("released", "queued", "a_plan")]

\* SnapshotStore.Put publishes the bundle in three renames.
Put ==
  [p_kv |-> File("kv", "p_json", "u_plan"),
   p_json |-> File("json", "p_commit", "u_plan"),
   p_commit |-> File("full", "k_release", "u_plan")]

\* Compensation before a confirmed release: resume the original conversation
\* under the linked operation, and drop the bundle when there is one.
compensate ==
  [u_plan |-> Undo(Row("restore_planned", "u_resume", "k_failed")),
   u_resume |-> Undo(Node("rollback_resume", "u_inactive", "u_stop")),
   u_inactive |-> File("inactive", "u_delete", "u_failed"),
   u_delete |-> File("delete", "u_completed", "u_failed"),
   u_stop |-> Undo(Node("stop_confirm", "u_release", "u_release")),
   u_release |-> Undo(Node("release", "u_failed", "u_failed")),
   u_completed |-> Undo(Row("completed", "k_failed", "k_failed")),
   u_failed |-> Undo(Row("failed", "k_failed", "k_failed")),
   k_failed |-> Main(Row("failed", "streaming", "streaming"))]

\* Compensation after a confirmed release: reacquire, reload and restore.
reacquire ==
  [a_plan |-> Undo(Row("restore_planned", "a_assign", "k_failed")),
   a_assign |-> Undo(Node("slot_assign", "a_assigned", "a_release")),
   a_assigned |-> Undo(Row("restore_assigned", "a_reload", "a_release")),
   a_reload |-> Undo(Node("reload", "a_reloaded", "a_release")),
   a_reloaded |-> Undo(Row("reloaded", "a_restore", "a_release")),
   a_restore |-> Undo(Node("restore", "a_restored", "a_release")),
   a_restored |-> Undo(Row("restored", "a_resume", "a_release")),
   a_resume |-> Undo(Node("rollback_resume", "a_resumed", "a_release")),
   a_resumed |-> Undo(Row("resumed", "u_inactive", "a_release")),
   a_release |-> Undo(Node("release", "u_failed", "u_failed"))]

\* CheckpointCoordinator.restore, for a runtime that defers the continuation.
restore ==
  [r_get |-> File("get", "r_planned", "c_cancel"),
   r_planned |-> Row("restore_planned", "r_assign", "c_cancel"),
   r_assign |-> Node("slot_assign", "r_assigned", "r_failed"),
   r_assigned |-> Row("restore_assigned", "r_reload", "r_release"),
   r_reload |-> Node("reload", "r_reloaded", "r_release"),
   r_reloaded |-> Row("reloaded", "r_restore", "r_release"),
   r_restore |-> Node("restore", "r_restored", "r_release"),
   r_restored |-> Row("restored", "r_resume", "r_release"),
   r_release |-> Node("release", "r_failed", "r_failed"),
   r_failed |-> Row("restore_failed", "c_cancel", "c_cancel")]

\* ResumeWithLease after the physical restore: bind the continuation, open
\* the response, record continuation and reuse.
ResumeWithLease ==
  [r_resume |-> Node("resume", "r_live", "c_cancel"),
   r_live |-> Step("open", "own", "", "r_continue", "c_cancel"),
   r_continue |-> Node("continue", "r_reuse", "x_cancel"),
   r_reuse |-> Node("reuse_verify", "f_resumed", "x_cancel")]

FinalizeRestoreContinuation ==
  [f_resumed |-> Row("resumed", "f_continued", "x_cancel"),
   f_continued |-> Row("continued", "f_reused", "x_cancel"),
   f_reused |-> Row("reused", "streaming", "x_cancel")]

\* cleanupResumed without a published handle: never release after a failed
\* cancel.
cleanupResumed ==
  [c_cancel |-> Node("cancel", "c_release", "unconfirmed"),
   c_release |-> Node("release", "refused", "unconfirmed")]

\* Mutant: the error of a release is not returned to the manager.
ReleaseErrorIgnored ==
  [q_query |-> Node("state_query", "q_release", "unconfirmed"),
   q_release |-> Node("release", "q_stopped", "t_source"),
   q_stopped |-> Mirror("stopped", "q_released", "unconfirmed"),
   q_released |-> Mirror("released", "t_source", "unconfirmed"),
   b_query |-> Node("state_query", "x_release", "unconfirmed"),
   x_cancel |-> Node("cancel", "x_release", "unconfirmed"),
   x_release |-> Node("release", "t_source", "t_source")]

\* releaseCheckpointBindingMode: an initial stream asks for the node's state,
\* releases and mirrors both boundaries; a resumed one is cancelled first
\* unless it has ended.
releaseCheckpointBindingMode ==
  [q_query |-> Node("state_query", "q_release", "unconfirmed"),
   q_release |-> Node("release", "q_stopped", "unconfirmed"),
   q_stopped |-> Mirror("stopped", "q_released", "unconfirmed"),
   q_released |-> Mirror("released", "t_source", "unconfirmed"),
   b_query |-> Node("state_query", "x_release", "unconfirmed"),
   x_cancel |-> Node("cancel", "x_release", "unconfirmed"),
   x_release |-> Node("release", "t_source", "unconfirmed")]

\* The correction hook of Recover, by the phase the node reports.
recoveryCorrection ==
  [v_pause |-> Node("pause", "v_stop", "v_bad"),
   v_stop |-> Node("stop_confirm", "v_release", "v_bad"),
   v_cancel |-> Node("cancel", "v_release", "v_bad"),
   v_release |-> Node("release", "t_source", "v_bad")]

Steps ==
  StartStreamWithLease @@ rollbackSlot @@ checkpoint @@ Put @@ compensate @@ reacquire
  @@ restore @@ ResumeWithLease @@ FinalizeRestoreContinuation @@ cleanupResumed
  @@ releaseCheckpointBindingMode @@ recoveryCorrection

Procedure == DOMAIN Steps

----------------------------------------------------------------------------
(* Carrying out a step. *)

Here == Steps[c.pc]
OpHere == IF Here.op = "own" THEN c.op ELSE Here.op
Goto(l) == c' = [c EXCEPT !.pc = l]
Fault == left.faults > 0 /\ left' = [left EXCEPT !.faults = @ - 1]
NoFault == left' = left

\* A command the node refuses, or repeats a phase whose result is not kept.
Refused(op, action) ==
  \/ ~authorizeCheckpointPhase(op, action)
  \/ Replayed(op, action) /\ action # "release"

CallNode ==
  /\ c.pc \in Procedure /\ Here.kind = "node"
  /\ LET op == OpHere
         action == Here.arg
         runs == ~Refused(op, action) /\ ~Replayed(op, action) IN
     \/ /\ Refused(op, action)
        /\ Goto(Here.err) /\ NoFault /\ UNCHANGED nodeVars
     \/ /\ ~Refused(op, action) /\ Replayed(op, action)
        /\ Goto(Here.ok) /\ NoFault /\ UNCHANGED nodeVars
     \/ /\ runs /\ Executable(op, action)
        /\ executeCheckpoint(op, action)
        /\ \/ NoFault /\ Goto(IF FinalizeRefused(op, action) THEN Here.err ELSE Here.ok)
           \/ Fault /\ Goto(Here.err)                       \* the answer is lost
     \/ \* the slot is busy, the file is gone, or the conversation has no text
        /\ runs /\ (~Executable(op, action) \/ action \in {"pause", "cancel"})
        /\ live' = live \ Deletes(op, action)
        /\ Goto(Here.err) /\ NoFault
        /\ UNCHANGED <<nodeOp, known, slotOwner, file, refs>>
     \/ Fault /\ Goto(Here.err) /\ UNCHANGED nodeVars       \* never delivered
  /\ UNCHANGED <<journal, bundleVars, memory, wl>>

PersistRow ==
  /\ c.pc \in Procedure /\ Here.kind = "row"
  /\ \/ CanPersist(OpHere, Here.arg) /\ persistOperation(OpHere, Here.arg)
        /\ Goto(Here.ok) /\ NoFault
     \/ ~CanPersist(OpHere, Here.arg) /\ Goto(Here.err) /\ NoFault /\ UNCHANGED journal
     \/ Goto(Here.err) /\ Fault /\ UNCHANGED journal
  /\ UNCHANGED <<nodeVars, bundleVars, memory, wl>>

\* The mirror of a boundary the row has passed already is not written.
MirrorPhase ==
  /\ c.pc \in Procedure /\ Here.kind = "mirror"
  /\ LET passed == phases[c.op] \in Final \cup {"released", Here.arg} IN
     \/ passed /\ Goto(Here.ok) /\ NoFault /\ UNCHANGED journal
     \/ /\ ~passed /\ CanPersist(c.op, Here.arg)
        /\ persistOperation(c.op, Here.arg) /\ Goto(Here.ok) /\ NoFault
     \/ /\ ~passed /\ ~CanPersist(c.op, Here.arg)
        /\ Goto(Here.err) /\ NoFault /\ UNCHANGED journal
     \/ ~passed /\ Goto(Here.err) /\ Fault /\ UNCHANGED journal
  /\ UNCHANGED <<nodeVars, bundleVars, memory, wl>>

\* startLiveStream; the request may reach the backend and its response be lost.
startLiveStream ==
  /\ c.pc \in Procedure /\ Here.kind = "open"
  /\ \/ /\ live' = live \cup {c.op} /\ Goto(Here.ok) /\ NoFault
        /\ wl' = CASE c.op = "stream" -> "running" [] c.op = "restore" -> "resuming" [] OTHER -> wl
     \/ live' \in {live, live \cup {c.op}} /\ Goto(Here.err) /\ Fault /\ UNCHANGED wl
  /\ UNCHANGED <<journal, nodeOp, known, slotOwner, file, refs, bundleVars, memory>>

\* The bundle operations of SnapshotStore.  A bundle is named after its
\* operation, so Put meets none from before.  A Put that fails removes what it
\* has published; a delete removes metadata, marker and data in that order.
SnapshotFile ==
  /\ c.pc \in Procedure /\ Here.kind = "file"
  /\ CASE Here.arg \in {"kv", "json", "full"} ->
            \/ bundle' = Here.arg /\ held' = (Here.arg = "full") /\ Goto(Here.ok) /\ NoFault
            \/ bundle' = "none" /\ held' = FALSE /\ Goto(Here.err) /\ Fault
       [] Here.arg = "get" ->
            /\ Goto(IF bundle = "full" THEN Here.ok ELSE Here.err) /\ NoFault
            /\ UNCHANGED bundleVars
       [] Here.arg = "inactive" ->
            \/ held' = FALSE /\ Goto(Here.ok) /\ NoFault /\ UNCHANGED bundle
            \/ Goto(Here.err) /\ Fault /\ UNCHANGED bundleVars
       [] Here.arg = "delete" ->
            \/ bundle' = "none" /\ Goto(Here.ok) /\ NoFault /\ UNCHANGED held
            \/ bundle' \in {"full", "kv"} /\ Goto(Here.err) /\ Fault /\ UNCHANGED held
  /\ UNCHANGED <<journal, nodeVars, memory, wl>>

----------------------------------------------------------------------------
(* TerminalizeOperation: the source row, the operation's row, the bundle. *)

\* The row that owns the snapshot the operation adopted.
Source(op) ==
  CASE op = "undo" /\ named -> {"stream"}
    [] op = "restore" /\ phases["stream"] = "released" -> {"stream"}
    [] OTHER -> {}

\* A completed row passes through stopped and released where it may.
CanTerminalize(op, phase) ==
  IF phase = "completed" THEN phases[op] \in {"started", "saved", "stopped", "released", "reused"}
  ELSE llmCheckpointTransitionAllowed(phases[op], phase)

Terminalize(ops, next) ==
  LET open == {o \in ops : phases[o] \notin Final} IN
  \/ /\ \A o \in open : CanTerminalize(o, c.fin)
     /\ phases' = [o \in Ops |-> IF o \in open THEN c.fin ELSE phases[o]]
     /\ c' = [c EXCEPT !.pc = next, !.src = IF next = "t_op" THEN ops ELSE @] /\ NoFault
  \/ /\ open # {} /\ Goto(c.bad) /\ UNCHANGED phases
     /\ IF \A o \in open : CanTerminalize(o, c.fin) THEN Fault ELSE NoFault

\* MarkInactiveForOperation: the bundle belongs to the stream's command, so
\* an operation that no longer finds its source is refused.
MarkInactive ==
  LET owner == IF c.src = {} THEN c.op ELSE "stream" IN
  \/ /\ ~SnapshotNamed(c.op) \/ bundle # "full"
     /\ Goto(c.ret) /\ NoFault /\ UNCHANGED held
  \/ /\ SnapshotNamed(c.op) /\ bundle = "full" /\ owner = "stream"
     /\ held' = FALSE /\ Goto(c.ret) /\ NoFault
  \/ /\ SnapshotNamed(c.op) /\ bundle = "full" /\ owner # "stream"
     /\ Goto(c.bad) /\ NoFault /\ UNCHANGED held

TerminalizeOperation ==
  /\ \/ c.pc = "t_source" /\ Terminalize(Source(c.op), "t_op") /\ UNCHANGED held
     \/ c.pc = "t_op" /\ Terminalize({c.op}, "t_inactive") /\ UNCHANGED held
     \/ c.pc = "t_inactive" /\ MarkInactive /\ UNCHANGED phases
  /\ UNCHANGED <<named, nodeVars, bundle, memory, wl>>

----------------------------------------------------------------------------
(* Recover: at start-up, and again when a node registers. *)

\* The node action that a row's phase mirrors (checkpointRecoveryPhaseMatches).
MirrorOf ==
  [planned |-> "none", assigned |-> "slot_assign", started |-> "start", paused |-> "pause",
   saved |-> "save", stopped |-> "stop_confirm", released |-> "release",
   restore_planned |-> "release", restore_assigned |-> "slot_assign",
   reloaded |-> "reload", restored |-> "restore", resumed |-> "resume",
   continued |-> "continue", reused |-> "reuse_verify"]

\* The signed state query is exact: it is refused when the row names a
\* snapshot the node has not journalled, or no slot where the node has one.
EvidenceRefused(op, phase) ==
  (SnapshotNamed(op) /\ op \notin known) \/ phase \in {"planned", "restore_planned"}

EvidenceMatches(op, phase) ==
  /\ SnapshotNamed(op) <=> op \in known
  /\ MirrorOf[phase] = nodeOp[op].action /\ Ordinal[phase] = nodeOp[op].phase

\* The rows as they are listed at the start: correcting one of them may end
\* another, which is then reconciled by its old phase.
Rows == {<<o, phases[o]>> : o \in {o \in Ops : phases[o] \notin Final \cup {"none"}}}

RecoverOperations(reached) ==
  /\ active' = {}
  /\ c' = [pc |-> "recover", op |-> "stream", fin |-> "failed", ret |-> "v_done", bad |-> "v_bad",
           src |-> {}, todo |-> reached, lost |-> FALSE]

\* Ends with target readiness decided by the rows left unreconciled.
RecoverEnds ==
  /\ c.pc = "recover" /\ c.todo = {}
  /\ unresolved' = c.lost
  /\ Goto("idle")
  /\ UNCHANGED <<journal, nodeVars, bundleVars, active, wl, left>>

RecoverRow ==
  /\ c.pc = "recover"
  /\ \E r \in c.todo :
       LET op == r[1]
           seen == nodeOp[op].action
           answered == ~EvidenceRefused(op, r[2])
           to(l, phase, ret) == c' = [c EXCEPT !.pc = l, !.op = op, !.todo = @ \ {r}, !.src = {},
                                               !.fin = phase, !.ret = ret] IN
       \/ to("v_bad", "failed", "recover") /\ Fault               \* the node is not reached
       \/ nodeOp[op].phase = 0 /\ to("t_source", "failed", "recover") /\ NoFault
       \/ nodeOp[op].phase > 0 /\ ~answered /\ to("v_bad", "failed", "recover") /\ NoFault
       \/ /\ nodeOp[op].phase > 0 /\ answered /\ EvidenceMatches(op, r[2]) /\ NoFault
          /\ IF SnapshotNamed(op) \/ seen = "release" THEN to("v_done", "failed", "v_done")
             ELSE to("t_source", "failed", "recover")
       \/ /\ nodeOp[op].phase > 0 /\ answered /\ ~EvidenceMatches(op, r[2]) /\ NoFault
          /\ CASE seen \in {"slot_assign", "start", "pause"} -> to("v_pause", "failed", "v_done")
               [] seen \in {"save", "stop_confirm"} -> to("v_stop", "failed", "v_done")
               [] seen \in {"reload", "restore", "resume", "continue", "reuse_verify"} ->
                    to("v_cancel", "restore_failed", "v_done")
               [] seen = "release" -> to(IF r[2] = "restore_assigned" THEN "v_done" ELSE "t_source",
                                         "failed", "v_done")
               [] OTHER -> to("v_bad", "failed", "recover")
  /\ UNCHANGED <<journal, nodeVars, bundleVars, memory, wl>>

\* A reconciled row with a complete bundle is resumable metadata; a missing
\* bundle ends the operation.
RecoveredRow ==
  /\ c.pc = "v_done"
  /\ LET kept == SnapshotNamed(c.op) /\ bundle = "full" IN
     /\ active' = IF kept THEN active \cup {c.op} ELSE active
     /\ c' = [c EXCEPT !.pc = IF SnapshotNamed(c.op) /\ ~kept THEN "t_source" ELSE "recover",
                       !.fin = "failed", !.ret = "recover"]
  /\ UNCHANGED <<journal, nodeVars, bundleVars, unresolved, wl, left>>

UnreconciledRow ==
  /\ c.pc = "v_bad"
  /\ c' = [c EXCEPT !.pc = "recover", !.lost = TRUE]
  /\ UNCHANGED <<journal, nodeVars, bundleVars, memory, wl, left>>

\* The controller dies and starts again: its memory is gone, NewSnapshotStore
\* removes an uncommitted bundle whose metadata proves what it is, and the
\* coordinator recovers.  The response of a dead controller ends on its own.
ControllerCrash ==
  /\ left.crashes > 0 /\ left' = [left EXCEPT !.crashes = @ - 1]
  /\ bundle' = IF bundle = "json" THEN "none" ELSE bundle
  /\ unresolved' = FALSE
  /\ RecoverOperations(Rows)
  /\ UNCHANGED <<journal, nodeVars, held, wl>>

RecoverAgain ==
  /\ c.pc = "idle" /\ unresolved /\ left.tries > 0
  /\ left' = [left EXCEPT !.tries = @ - 1]
  /\ RecoverOperations(Rows)
  /\ UNCHANGED <<journal, nodeVars, bundleVars, unresolved, wl>>

----------------------------------------------------------------------------
(* What the manager asks of the adapter. *)

\* A target with an unreconciled row takes no new operation.
ReadyForTarget == ~unresolved

BeginProcedure(l, op, phase, ret, bad) ==
  c' = [c EXCEPT !.pc = l, !.op = op, !.fin = phase, !.ret = ret, !.bad = bad, !.src = {}]

\* The urgent work is admitted once the stream's stop has been reported, or
\* its start has failed.
BeginStream ==
  /\ c.pc = "idle" /\ ReadyForTarget
  /\ \E op \in {"stream", "urgent"} :
       /\ phases[op] = "none"
       /\ op = "urgent" => /\ phases["stream"] # "none" /\ phases["restore"] = "none"
                           /\ wl \in {"queued", "ended", "new"}
       /\ BeginProcedure("s_plan", op, "failed", "refused", "refused")
  /\ UNCHANGED <<journal, nodeVars, bundleVars, memory, wl, left>>

\* An operation whose snapshot is active is answered with that snapshot, and
\* not checkpointed again.
CheckpointAdmitted == "stream" \notin active

\* CheckpointWithLease of the live stream.
CheckpointWithLease ==
  /\ c.pc = "streaming" /\ c.op = "stream" /\ ReadyForTarget
  /\ CheckpointAdmitted
  /\ BeginProcedure("k_planned", "stream", "failed", "streaming", "streaming")
  /\ UNCHANGED <<journal, nodeVars, bundleVars, memory, wl, left>>

\* Observe after the response has ended, or with a backend error.
Observe ==
  /\ c.pc = "streaming" /\ c.op \notin live
  /\ \/ BeginProcedure(IF c.op = "restore" THEN "b_query" ELSE "q_query", c.op, "completed", "ended", "unconfirmed")
     \/ BeginProcedure(IF c.op = "restore" THEN "x_cancel" ELSE "q_query", c.op, "failed", "ended", "unconfirmed")
  /\ UNCHANGED <<journal, nodeVars, bundleVars, memory, wl, left>>

\* Cancel of a live execution, of one whose stop is unconfirmed, or, after a
\* restart, of the durable handle.
Cancel ==
  /\ \/ c.pc = "streaming" /\ left' = left
     \/ c.pc \in {"unconfirmed", "idle"} /\ left.tries > 0 /\ left' = [left EXCEPT !.tries = @ - 1]
  /\ \E op \in {"stream", "urgent", "restore"} :
       /\ c.pc = "idle" => \/ op = "stream" /\ wl = "running"
                           \/ op = "restore" /\ phases[op] # "none" /\ wl # "ended"
       /\ c.pc # "idle" => op = c.op
       /\ BeginProcedure(IF op = "restore" THEN "x_cancel" ELSE "q_query", op, "cancelled", "ended", "unconfirmed")
  /\ UNCHANGED <<journal, nodeVars, bundleVars, memory, wl>>

\* Resume of the queued conversation, once the urgent work is over.
Resume ==
  /\ c.pc = "idle" /\ ReadyForTarget /\ wl = "queued" /\ phases["restore"] = "none"
  /\ BeginProcedure("r_get", "restore", "cancelled", "refused", "unconfirmed")
  /\ UNCHANGED <<journal, nodeVars, bundleVars, memory, wl, left>>

Return ==
  /\ c.pc \in {"queued", "ended", "refused"}
  /\ wl' = CASE c.pc = "queued" -> "queued"
             [] c.pc = "ended" /\ c.op # "urgent" -> "ended"
             [] c.pc = "refused" /\ c.op = "stream" -> "ended"
             [] OTHER -> wl
  /\ active' = IF c.pc = "queued" THEN active \cup {"stream"} ELSE active
  /\ Goto("idle")
  /\ UNCHANGED <<journal, nodeVars, bundleVars, unresolved, left>>

\* The generation reaches its end, or its response is closed.
GenerationEnds ==
  /\ \E op \in live : live' = live \ {op}
  /\ UNCHANGED <<journal, nodeOp, known, slotOwner, file, refs, bundleVars, memory, wl, c, left>>

----------------------------------------------------------------------------
ProtocolInit ==
  /\ phases = [o \in Ops |-> "none"] /\ named = FALSE
  /\ nodeOp = [o \in Ops |-> [phase |-> 0, action |-> "none"]] /\ known = {}
  /\ slotOwner = "none" /\ live = {} /\ file = FALSE /\ refs = {}
  /\ bundle = "none" /\ held = FALSE
  /\ active = {} /\ unresolved = FALSE
  /\ wl = "new"
  /\ c = [pc |-> "idle", op |-> "stream", fin |-> "failed", ret |-> "refused", bad |-> "refused",
          src |-> {}, todo |-> {}, lost |-> FALSE]
  /\ \E t \in Troubles : left = [faults |-> t.faults, crashes |-> t.crashes, tries |-> MaxTries]

ProtocolNext ==
  \/ CallNode \/ PersistRow \/ MirrorPhase \/ startLiveStream \/ SnapshotFile
  \/ TerminalizeOperation \/ RecoverRow \/ RecoveredRow \/ UnreconciledRow \/ RecoverEnds
  \/ ControllerCrash \/ RecoverAgain \/ BeginStream \/ CheckpointWithLease \/ Observe \/ Cancel \/ Resume
  \/ Return \/ GenerationEnds

----------------------------------------------------------------------------
(* Properties *)

\* At most one generation runs in the slot, and it is the one whose operation
\* the node journal names as the slot's owner: no stale release, replayed
\* command or late assignment takes the slot from under a live generation
\* (authorizeCheckpointPhase, waitExternalIdle).
SlotExclusive ==
  /\ Cardinality(live) <= 1
  /\ \A op \in live : slotOwner = op

\* A conversation that is queued on its checkpoint can be restored: the
\* controller's bundle is complete and the node's file is referenced, until a
\* resumed conversation consumes the snapshot (reuse evidence) or is
\* cancelled.  Slot releases, crashes, failed restores and recovery keep it.
SnapshotKept ==
  wl = "queued" /\ nodeOp["restore"].action \notin {"reuse_verify", "cancel"}
    /\ ~(nodeOp["restore"].action = "release" /\ nodeOp["restore"].phase = 15)
  => bundle = "full" /\ file /\ refs # {}

\* When a cancel, an observed end or a checkpoint is reported to the manager
\* as done, the generation has stopped and the slot is no longer the
\* operation's: the manager gives the accelerator away on this report.
StopIsReal ==
  c.pc \in {"ended", "queued"} => c.op \notin live /\ slotOwner # c.op

=============================================================================
