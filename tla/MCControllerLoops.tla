-------------------------- MODULE MCControllerLoops --------------------------
(***************************************************************************)
(* TLC instance of the controller's work queue and of its webhook outbox,   *)
(* two loops that share no state.  A behaviour follows one of them: the     *)
(* outbox stays silent where its scenario has no event to publish.          *)
(***************************************************************************)
EXTENDS JobQueue, NotificationOutbox, TLC

CONSTANTS fast, slow

SlotsOf == fast :> 2 @@ slow :> 1
ThreeItems == <<1, 1, 1>>
MCWebhooks == <<"first", "second">>

Silent == [events |-> {}, faults |-> 0, answers |-> 0, kills |-> 0]
Finish == [Silent EXCEPT !.events = {"finished"}, !.faults = 2, !.answers = 1, !.kills = 1]
Both == [Silent EXCEPT !.events = {"started", "finished"}]
Start == [Silent EXCEPT !.events = {"started"}, !.faults = 1, !.kills = 1]
MCOutboxLimits == {Silent, Finish, Start, Both}

MCInit == Init /\ OutboxInit(OutboxLimits)
QueueRuns == outboxTrouble.events = {}
MCNext ==
  \/ QueueRuns /\ Next /\ UNCHANGED outboxVars
  \/ OutboxNext /\ UNCHANGED vars

\* The fairness of the queue, in the behaviours that follow it.
QueueFairness ==
  /\ \A w \in Workers : WF_vars(QueueRuns /\ RegisterWorker(w))
  /\ WF_vars(QueueRuns /\ \E c \in calls : StartItem(c))
  /\ WF_vars(QueueRuns /\ \E c \in calls : \E ok \in BOOLEAN : CompleteItem(c, ok))

MCSpec == MCInit /\ [][MCNext]_<<vars, outboxVars>> /\ QueueFairness /\ OutboxFairness
=============================================================================
