---------------------------- MODULE PlanRotation ----------------------------
(***************************************************************************)
(* Displacing one model by another on an accelerator that is served by the *)
(* fixed systemd unit: the node agent, the unit's supervisor and the root  *)
(* plan broker walk through                                                *)
(*    victim_stop, urgent_load, urgent_stop, victim_reload                 *)
(* under one operation fence.  A stop is acknowledged by a receipt the     *)
(* supervisor signs; a load is carried out by the broker, which publishes  *)
(* the approved launch plan, asks systemd for exactly one start and signs  *)
(* a receipt once it has observed the new worker.                          *)
(*                                                                         *)
(* Sources: nodeagent/commands.go (the node's durable journal),            *)
(* checkpoint_lifecycle_broker*.go and checkpoint_plan_rotation.go (the    *)
(* broker), checkpoint_unit_lifecycle_linux.go (the stop server, in detail *)
(* in CheckpointLaunch).  Signatures, digests and catalog entries stand    *)
(* for the step they bind: an operation is a number that is also its       *)
(* fence, a command is its operation and step, an invocation is a number.  *)
(***************************************************************************)
EXTENDS Naturals, Sequences, FiniteSets, TLC

CONSTANTS
  Ops,           \* operation identities, which are their own fences
  Limits         \* set of [faults, redeliveries, ops asked for], one per run

VARIABLES
  node,          \* commandProcessor's durable state for the accelerator
  call,          \* the command the node is executing
  unit,          \* the fixed systemd unit and its supervisor
  plan,          \* the active plan file
  root,          \* the broker's durable journal entry
  broker,        \* the request the broker is working on
  stopReceipts,  \* signed stop receipts on disk
  loadReceipts,  \* signed relaunch receipts on disk
  runs,          \* history: the plan each invocation of the unit was started with
  left           \* faults and redeliveries left, and the operations asked for

vars == <<node, call, unit, plan, root, broker, stopReceipts, loadReceipts,
          runs, left>>

StopSteps == {"victim_stop", "urgent_stop"}
LoadSteps == {"urgent_load", "victim_reload"}
Steps == StopSteps \cup LoadSteps
NoStep == "none"
Status == {"none", "pending", "acknowledged"}

\* The stop that must precede a load, and the plan a load publishes.
PriorStop(s) == IF s = "urgent_load" THEN "victim_stop" ELSE "urgent_stop"
PlanOf(s) == IF s = "urgent_load" THEN "urgent" ELSE "victim"
PriorPlan(s) == IF s = "urgent_load" THEN "victim" ELSE "urgent"

NoCall == [step |-> NoStep, query |-> FALSE, reply |-> "none"]
IdleBroker == [at |-> "idle", step |-> NoStep, stopped |-> FALSE, inv |-> 0, query |-> FALSE]
EmptyEntry(op) == [op |-> op, stage |-> "none", of |-> NoStep,
                   steps |-> [s \in LoadSteps |-> "none"], prior |-> 0]

Init ==
  /\ node = [op |-> 0, stops |-> [s \in StopSteps |-> "none"], proven |-> {},
             loadOp |-> 0, loadFence |-> 0, loads |-> [s \in LoadSteps |-> "none"],
             pending |-> NoStep, blocked |-> FALSE]
  /\ call = NoCall
  /\ unit = [state |-> "active", inv |-> 1, sup |-> "serving", for |-> NoStep,
             named |-> TRUE]
  /\ plan = "victim"
  /\ root = EmptyEntry(0)
  /\ broker = IdleBroker
  /\ stopReceipts = {} /\ loadReceipts = {}
  /\ runs = <<"victim">>
  /\ left \in Limits

Fault == left.faults > 0 /\ left' = [left EXCEPT !.faults = @ - 1]

-----------------------------------------------------------------------------
(* The node agent *)

\* Handle refuses every mutation while an intent is pending or the state is
\* blocked, before it looks at the command itself.
Admits == call = NoCall /\ node.pending = NoStep /\ ~node.blocked

\* checkOwnedStopTransition
AllSettled == \A s \in StopSteps : node.stops[s] # "pending"
StopAllowed(op, s) ==
  \/ /\ op > node.op /\ s = "victim_stop" /\ AllSettled
  \/ /\ op = node.op /\ AllSettled /\ node.stops[s] = "none"
     /\ s = "urgent_stop" => node.stops["victim_stop"] = "acknowledged"

\* recordOwnedStopStep: a new operation replaces the journaled one.
StopOperation(op) ==
  IF op = node.op THEN node
  ELSE [node EXCEPT !.op = op, !.stops = [x \in StopSteps |-> "none"], !.proven = {}]

\* The write-ahead intent of an owned stop
AcceptStop(op, s) ==
  /\ Admits /\ StopAllowed(op, s)
  /\ node' = [StopOperation(op) EXCEPT !.stops[s] = "pending", !.pending = s]
  /\ call' = [step |-> s, query |-> FALSE, reply |-> "none"]
  /\ UNCHANGED <<unit, plan, root, broker, stopReceipts, loadReceipts, runs, left>>

\* A settled stop delivered again is refused as already used, and the refusal
\* is stored as the result of that command identity.
RedeliverStop(s) ==
  /\ Admits /\ node.stops[s] = "acknowledged"
  /\ left.redeliveries > 0
  /\ left' = [left EXCEPT !.redeliveries = @ - 1]
  /\ node' = [node EXCEPT !.proven = @ \ {s}]
  /\ UNCHANGED <<call, unit, plan, root, broker, stopReceipts, loadReceipts, runs>>

\* checkPlanRelaunchTransition
LoadAllowed(op, s) ==
  /\ op = node.op /\ node.stops[PriorStop(s)] = "acknowledged"
  /\ IF s = "urgent_load"
     THEN /\ op > node.loadFence
          /\ node.loadOp # 0 => node.loads["victim_reload"] = "acknowledged"
     ELSE /\ op = node.loadOp
          /\ node.loads["urgent_load"] = "acknowledged"
          /\ node.loads["victim_reload"] = "none"

\* recordPlanRelaunchStep: urgent_load opens the operation.
LoadOperation(op) ==
  IF op = node.loadOp THEN node
  ELSE [node EXCEPT !.loadOp = op, !.loads = [x \in LoadSteps |-> "none"]]

\* The write-ahead intent of a relaunch, saved before the broker is called
AcceptLoad(op, s) ==
  /\ Admits /\ LoadAllowed(op, s)
  /\ node' = [LoadOperation(op) EXCEPT !.loads[s] = "pending", !.loadFence = op, !.pending = s]
  /\ call' = [step |-> s, query |-> FALSE, reply |-> "none"]
  /\ UNCHANGED <<unit, plan, root, broker, stopReceipts, loadReceipts, runs, left>>

\* The command expires between its intent and the external call: the intent
\* and its fence are taken back, but the operation it replaced is gone.
ExpireStop(op, s) ==
  /\ Fault /\ Admits /\ StopAllowed(op, s) /\ op # node.op
  /\ node' = StopOperation(op)
  /\ UNCHANGED <<call, unit, plan, root, broker, stopReceipts, loadReceipts, runs>>

ExpireLoad(op, s) ==
  /\ Fault /\ Admits /\ LoadAllowed(op, s) /\ op # node.loadOp
  /\ node' = [node EXCEPT !.loadOp = 0, !.loads = [x \in LoadSteps |-> "none"]]
  /\ UNCHANGED <<call, unit, plan, root, broker, stopReceipts, loadReceipts, runs>>

\* A query that names the journaled original crosses the transient block.
QueryLoad(s) ==
  /\ call = NoCall /\ node.pending \in {NoStep, s}
  /\ node.loads[s] = "pending" /\ node.loadOp = node.op
  /\ call' = [step |-> s, query |-> TRUE, reply |-> "none"]
  /\ UNCHANGED <<node, unit, plan, root, broker, stopReceipts, loadReceipts, runs, left>>

Acknowledge(s) ==
  IF s \in StopSteps
  THEN [node EXCEPT !.stops[s] = "acknowledged", !.proven = @ \cup {s}, !.pending = NoStep]
  ELSE [node EXCEPT !.loads[s] = "acknowledged", !.pending = NoStep]

\* A verified receipt settles the step; every other outcome of a mutation is
\* uncertain, keeps the intent and blocks the processor.  A query that brings
\* the receipt also lifts the transient block; one that does not changes nothing.
Finish ==
  /\ call.reply # "none"
  /\ node' = CASE call.reply = "receipt" /\ ~call.query -> Acknowledge(call.step)
               [] call.reply = "receipt" /\ call.query ->
                    [Acknowledge(call.step) EXCEPT !.blocked = FALSE]
               [] call.reply # "receipt" /\ ~call.query -> [node EXCEPT !.blocked = TRUE]
               [] OTHER -> node
  /\ call' = NoCall
  /\ UNCHANGED <<unit, plan, root, broker, stopReceipts, loadReceipts, runs, left>>

\* ownedStopQueryMatchesPending
StopQueryMatches(s) == s \in StopSteps /\ node.pending = s /\ node.stops[s] = "pending"

\* The stop query joins the signed receipt to the pending original.  The block
\* the uncertain stop left behind stays until the next session.
QueryStop(s) ==
  /\ call = NoCall /\ StopQueryMatches(s)
  /\ \E r \in stopReceipts : r.op = node.op /\ r.step = s
  /\ node' = Acknowledge(s)
  /\ UNCHANGED <<call, unit, plan, root, broker, stopReceipts, loadReceipts, runs, left>>

\* A session start reconciles warm manifests and lifts a transient block that
\* no pending intent justifies.
Reconnect ==
  /\ call = NoCall /\ node.blocked /\ node.pending = NoStep
  /\ node' = [node EXCEPT !.blocked = FALSE]
  /\ UNCHANGED <<call, unit, plan, root, broker, stopReceipts, loadReceipts, runs, left>>

\* The call's deadline passes or the answer is lost.
LoseAnswer ==
  /\ Fault /\ call # NoCall /\ call.reply = "none"
  /\ call' = [call EXCEPT !.reply = "lost"]
  /\ UNCHANGED <<node, unit, plan, root, broker, stopReceipts, loadReceipts, runs>>

\* The agent restarts: what it saved survives, the running call does not.
NodeCrash ==
  /\ Fault /\ call # NoCall
  /\ call' = NoCall
  /\ node' = [node EXCEPT !.blocked = @ \/ node.pending # NoStep]
  /\ UNCHANGED <<unit, plan, root, broker, stopReceipts, loadReceipts, runs>>

-----------------------------------------------------------------------------
(* The unit and its supervisor *)

\* handleStop: the intent is verified against the node's journal, the worker
\* must be the live child of this supervisor, and it is signalled once.
SignalWorker ==
  /\ call.step \in StopSteps /\ ~call.query /\ call.reply = "none"
  /\ node.pending = call.step
  /\ unit.state = "active" /\ unit.sup = "serving"
  /\ unit' = [unit EXCEPT !.sup = "signalled", !.for = call.step]
  /\ UNCHANGED <<node, call, plan, root, broker, stopReceipts, loadReceipts, runs, left>>

\* No live supervisor to ask, or one that already serves another request.
StopRefused ==
  /\ call.step \in StopSteps /\ call.reply = "none"
  /\ unit.state # "active" \/ unit.sup = "retained" \/ (unit.sup # "serving" /\ unit.for # call.step)
  /\ call' = [call EXCEPT !.reply = "error"]
  /\ UNCHANGED <<node, unit, plan, root, broker, stopReceipts, loadReceipts, runs, left>>

\* The child is reaped and its custody released before the receipt is signed.
ReleaseWorker ==
  /\ unit.state = "active" /\ unit.sup = "signalled"
  /\ unit' = [unit EXCEPT !.sup = "released"]
  /\ UNCHANGED <<node, call, plan, root, broker, stopReceipts, loadReceipts, runs, left>>

\* writeOwnedStopReceiptAt, after the intent has been verified once more
WriteStopReceipt ==
  /\ unit.state = "active" /\ unit.sup = "released" /\ node.pending = unit.for
  /\ stopReceipts' = stopReceipts \cup {[op |-> node.op, step |-> unit.for, inv |-> unit.inv]}
  /\ unit' = [unit EXCEPT !.sup = "acked"]
  /\ call' = IF call.step = unit.for /\ call.reply = "none"
             THEN [call EXCEPT !.reply = "receipt"] ELSE call
  /\ UNCHANGED <<node, plan, root, broker, loadReceipts, runs, left>>

\* handleStop fails after the signal, perhaps with the receipt already on disk
\* but not confirmed: the supervisor stays, waiting for an acknowledgement.
StopFails ==
  /\ Fault /\ unit.state = "active" /\ unit.sup \in {"signalled", "released"}
  /\ unit' = [unit EXCEPT !.sup = "retained"]
  /\ \/ UNCHANGED stopReceipts
     \/ /\ unit.sup = "released" /\ node.pending = unit.for
        /\ stopReceipts' = stopReceipts \cup
             {[op |-> node.op, step |-> unit.for, inv |-> unit.inv]}
  /\ call' = IF call.step = unit.for /\ call.reply = "none"
             THEN [call EXCEPT !.reply = "error"] ELSE call
  /\ UNCHANGED <<node, plan, root, broker, loadReceipts, runs>>

\* The supervisor returns once the stop is acknowledged.
SupervisorExits ==
  /\ unit.state = "active" /\ unit.sup = "acked"
  /\ unit' = [unit EXCEPT !.state = "inactive"]
  /\ UNCHANGED <<node, call, plan, root, broker, stopReceipts, loadReceipts, runs, left>>

\* The launcher reports readiness, or fails; a running unit may also die.
StartCompletes ==
  /\ unit.state = "starting"
  /\ unit' = [unit EXCEPT !.state = "active", !.sup = "serving", !.for = NoStep]
  /\ UNCHANGED <<node, call, plan, root, broker, stopReceipts, loadReceipts, runs, left>>

UnitDies ==
  /\ Fault /\ unit.state # "inactive"
  /\ unit' = [unit EXCEPT !.state = "inactive"]
  /\ UNCHANGED <<node, call, plan, root, broker, stopReceipts, loadReceipts, runs>>

\* The machine restarts: the agent, the broker and the unit go down together
\* and systemd forgets the unit's last invocation.
Reboot ==
  /\ Fault
  /\ unit' = [unit EXCEPT !.state = "inactive", !.named = FALSE]
  /\ call' = NoCall /\ broker' = IdleBroker
  /\ node' = [node EXCEPT !.blocked = @ \/ node.pending # NoStep]
  /\ UNCHANGED <<plan, root, stopReceipts, loadReceipts, runs>>

-----------------------------------------------------------------------------
(* The root plan broker.  checkpointPlanBrokerMu serializes its requests. *)

ReceiptOfStop(s) == {r \in stopReceipts : r.op = node.op /\ r.step = s}
ReceiptOfLoad(s) == {r \in loadReceipts : r.op = node.op /\ r.step = s}

\* verifyCheckpointPlanBrokerPriorStopResult: besides the receipt, the node's
\* journal must still hold the successful result of the stop command.
PriorProven(s) == node.stops[PriorStop(s)] = "acknowledged" /\ PriorStop(s) \in node.proven

\* checkpointPlanBrokerUnitState: one running main process
Running == unit.state = "active"

\* checkpointPlanBrokerStoppedWorkerEmpty: an inactive unit without a pending
\* job whose last invocation is the one the stop receipt names, or is forgotten.
StoppedAs(s) ==
  /\ unit.state = "inactive"
  /\ \E r \in ReceiptOfStop(s) : unit.named => unit.inv = r.inv

\* validateCheckpointPlanRelaunchNodeIntent and the checks that follow it
Authorized(s) ==
  /\ node.pending = s /\ PriorProven(s)
  /\ StoppedAs(PriorStop(s))
  /\ IF s = "urgent_load"
     THEN root.op # node.op
     ELSE /\ root.op = node.op
          /\ root.steps["urgent_load"] = "acknowledged" /\ root.steps[s] = "none"
          /\ \E u \in ReceiptOfLoad("urgent_load"), r \in ReceiptOfStop("urgent_stop") :
               u.inv = r.inv
  /\ \E r \in ReceiptOfStop(PriorStop(s)) : plan = runs[r.inv]
  /\ plan = PriorPlan(s)

\* The accepted intent is made durable before anything is changed.
BrokerAccepts ==
  /\ broker = IdleBroker /\ call.step \in LoadSteps /\ ~call.query /\ call.reply = "none"
  /\ Authorized(call.step)
  /\ LET s == call.step
         entry == IF root.op = node.op THEN root ELSE EmptyEntry(node.op)
         prior == (CHOOSE r \in ReceiptOfStop(PriorStop(s)) : TRUE).inv
     IN /\ root' = [entry EXCEPT !.stage = "prepared", !.of = s, !.steps[s] = "pending",
                                 !.prior = prior]
        /\ broker' = [at |-> "publish", step |-> s, stopped |-> TRUE, inv |-> 0, query |-> FALSE]
  /\ UNCHANGED <<node, call, unit, plan, stopReceipts, loadReceipts, runs, left>>

BrokerRejects ==
  /\ broker = IdleBroker /\ call.step \in LoadSteps /\ ~call.query /\ call.reply = "none"
  /\ ~Authorized(call.step)
  /\ call' = [call EXCEPT !.reply = "error"]
  /\ UNCHANGED <<node, unit, plan, root, broker, stopReceipts, loadReceipts, runs, left>>

\* Mutant: a cold broker repeats a start it had only requested.
MayRepeatStart(stage) == stage \in {"published", "start_requested"}

\* checkpointPlanRelaunchMayIssueFirstStart and MayJoinStartedProcess
MayIssueFirstStart(stage) == stage = "published"
MayJoinStartedProcess(stage) == stage \in {"start_requested", "start_accepted"}

\* reconcileCheckpointPlanBrokerPending: where a recovery resumes, from the
\* durable stage, the plan file, the receipt file and the unit; "pending" is
\* an answer that leaves everything as it is.
ResumeAt(s) ==
  LET stopped == StoppedAs(PriorStop(s)) IN
  CASE root.op # node.op \/ root.steps[s] = "none" -> "error"
    [] root.steps[s] = "acknowledged" -> "receipt"
    [] ~PriorProven(s) -> "pending"
    [] ReceiptOfLoad(s) # {} -> "saveAcknowledged"
    [] ~stopped /\ ~Running -> "pending"
    [] root.stage = "prepared" /\ plan = PriorPlan(s) ->
         IF stopped THEN "publish" ELSE "pending"
    [] plan # PlanOf(s) -> "pending"
    [] root.stage = "prepared" -> "savePublished"
    [] stopped /\ MayIssueFirstStart(root.stage) -> "saveRequested"
    [] Running /\ MayJoinStartedProcess(root.stage) ->
         IF root.stage = "start_requested" THEN "saveAccepted" ELSE "await"
    [] OTHER -> "pending"

BrokerQuery ==
  /\ broker = IdleBroker /\ call.step \in LoadSteps /\ call.query /\ call.reply = "none"
  /\ LET s == call.step
         at == ResumeAt(s)
         known == ReceiptOfLoad(s) IN
     IF at \in {"error", "pending", "receipt"}
     THEN /\ call' = [call EXCEPT !.reply = at]
          /\ UNCHANGED broker
     ELSE /\ broker' = [at |-> at, step |-> s, stopped |-> StoppedAs(PriorStop(s)),
                        inv |-> IF known = {} THEN 0 ELSE (CHOOSE r \in known : TRUE).inv,
                        query |-> TRUE]
          /\ UNCHANGED call
  /\ UNCHANGED <<node, unit, plan, root, stopReceipts, loadReceipts, runs, left>>

\* The answer reaches the call that waits for it, if there is one.
Answer(reply) ==
  call' = IF call.step = broker.step /\ call.query = broker.query /\ call.reply = "none"
          THEN [call EXCEPT !.reply = reply] ELSE call

\* Any check, write or wait that fails ends the request; the journal decides
\* what a later query may do.  A broker crash leaves the same state behind.
BrokerGivesUp ==
  /\ Fault /\ broker # IdleBroker
  /\ broker' = IdleBroker
  /\ Answer("pending")
  /\ UNCHANGED <<node, unit, plan, root, stopReceipts, loadReceipts, runs>>

\* publishCheckpointPlanBrokerPlan: compare and swap of the plan file while
\* the stopped worker is still the stopped worker.
PublishPlan ==
  /\ broker.at = "publish" /\ plan = PriorPlan(broker.step)
  /\ StoppedAs(PriorStop(broker.step))
  /\ plan' = PlanOf(broker.step)
  /\ broker' = [broker EXCEPT !.at = "savePublished"]
  /\ UNCHANGED <<node, call, unit, root, stopReceipts, loadReceipts, runs, left>>

SaveStage(at, stage, next) ==
  /\ broker.at = at
  /\ root' = [root EXCEPT !.stage = stage]
  /\ broker' = [broker EXCEPT !.at = next]
  /\ UNCHANGED <<node, call, unit, plan, stopReceipts, loadReceipts, runs, left>>

SavePublished == SaveStage("savePublished", "published", "saveRequested")
SaveStartRequested == SaveStage("saveRequested", "start_requested", "start")
SaveStartAccepted == SaveStage("saveAccepted", "start_accepted", "await")

\* verifyCheckpointPlanBrokerStartState, then systemctl start
IssueStart ==
  /\ broker.at = "start"
  /\ plan = PlanOf(broker.step) /\ StoppedAs(PriorStop(broker.step))
  /\ unit' = [unit EXCEPT !.state = "starting", !.inv = Len(runs) + 1, !.named = TRUE]
  /\ runs' = Append(runs, plan)
  /\ broker' = [broker EXCEPT !.at = "saveAccepted"]
  /\ UNCHANGED <<node, call, plan, root, stopReceipts, loadReceipts, left>>

\* awaitCheckpointPlanBrokerBinding: a live worker of a new invocation under
\* the selected plan, seen twice.
AwaitBinding ==
  /\ broker.at = "await" /\ unit.state = "active" /\ unit.sup = "serving"
  /\ runs[unit.inv] = PlanOf(broker.step) /\ unit.inv # root.prior
  /\ broker' = [broker EXCEPT !.at = "receipt", !.inv = unit.inv]
  /\ UNCHANGED <<node, call, unit, plan, root, stopReceipts, loadReceipts, runs, left>>

\* The wait ends without a fresh worker.
AwaitTimeout ==
  /\ broker.at = "await" /\ unit.state = "inactive"
  /\ broker' = IdleBroker
  /\ Answer("pending")
  /\ UNCHANGED <<node, unit, plan, root, stopReceipts, loadReceipts, runs, left>>

WriteLoadReceipt ==
  /\ broker.at = "receipt"
  /\ loadReceipts' = loadReceipts \cup
       {[op |-> root.op, step |-> broker.step, inv |-> broker.inv, plan |-> PlanOf(broker.step)]}
  /\ broker' = [broker EXCEPT !.at = "saveAcknowledged"]
  /\ UNCHANGED <<node, call, unit, plan, root, stopReceipts, runs, left>>

SaveAcknowledged ==
  /\ broker.at = "saveAcknowledged"
  /\ root' = [root EXCEPT !.steps[broker.step] = "acknowledged", !.stage = "acknowledged",
                          !.prior = broker.inv]
  /\ broker' = IdleBroker
  /\ Answer("receipt")
  /\ UNCHANGED <<node, unit, plan, stopReceipts, loadReceipts, runs, left>>

-----------------------------------------------------------------------------
NodeNext ==
  \/ \E op \in left.ops, s \in StopSteps : AcceptStop(op, s) \/ ExpireStop(op, s)
  \/ \E op \in left.ops, s \in LoadSteps : AcceptLoad(op, s) \/ ExpireLoad(op, s)
  \/ \E s \in StopSteps : RedeliverStop(s) \/ QueryStop(s)
  \/ \E s \in LoadSteps : QueryLoad(s)
  \/ Finish \/ Reconnect \/ LoseAnswer \/ NodeCrash
UnitNext ==
  \/ SignalWorker \/ StopRefused \/ ReleaseWorker \/ WriteStopReceipt \/ StopFails
  \/ SupervisorExits \/ StartCompletes \/ UnitDies \/ Reboot
BrokerStep ==
  \/ BrokerAccepts \/ BrokerRejects \/ BrokerQuery \/ PublishPlan \/ SavePublished
  \/ SaveStartRequested \/ IssueStart \/ SaveStartAccepted \/ AwaitBinding
  \/ AwaitTimeout \/ WriteLoadReceipt \/ SaveAcknowledged
Next == NodeNext \/ UnitNext \/ BrokerStep \/ BrokerGivesUp

-----------------------------------------------------------------------------
\* A start is issued only for the plan of the step in hand, after the worker
\* that used the accelerator was signalled, reaped and released under a signed
\* receipt, and with the request already in the journal: once per stopped worker,
\* whatever crashes between the journal writes, however often the step is
\* queried, and even when systemd no longer remembers the started invocation
\* (checkpoint_plan_rotation.go:177-187).
StartReplacesStopped ==
  [][runs' # runs =>
       /\ root.stage = "start_requested"
       /\ runs'[Len(runs')] = PlanOf(root.of) /\ plan = PlanOf(root.of)
       /\ unit.state = "inactive"
       /\ \E r \in stopReceipts :
            r.op = root.op /\ r.step = PriorStop(root.of) /\ r.inv = Len(runs)]_vars

=============================================================================
