-------------------------- MODULE NotificationOutbox --------------------------
(***************************************************************************)
(* The webhook outbox of one workload: enqueueNotification writes one row   *)
(* per destination under a key made of the workload, the event and the      *)
(* destination; one dispatcher lists the due rows, posts them one after the *)
(* other and writes each row back.  Who enqueues "finished" is the terminal *)
(* continuation, which retries until its NotificationPublished mark is      *)
(* stored; "started" is enqueued once and its error is dropped.             *)
(***************************************************************************)
EXTENDS Naturals, FiniteSets, Sequences, Functions

CONSTANTS
  Webhooks,      \* the destinations of the workload, in the order of its request
  NotificationAttempts, \* options.MaxAttempts
  OutboxLimits   \* the budgets of store failures, lost answers and kills

ASSUME NotificationAttemptsAssumption == NotificationAttempts \in Nat \ {0}

VARIABLES
  outbox,      \* key -> the stored row, NoRow before it is created
  publisher,   \* enqueueNotification under way: the event and the destinations left
  marked,      \* the events nobody will publish again
  batch,       \* the rows dispatchNotifications listed and has not delivered
  posting,     \* the row deliverNotification holds, and the outcome of its post
  received,    \* key -> how often the receiver accepted it
  lost,        \* key -> accepted posts whose outcome no stored row tells
  outboxTrouble

outboxVars == <<outbox, publisher, marked, batch, posting, received, lost, outboxTrouble>>

Dests == Range(Webhooks)
Events == {"started", "finished"}
Keys == Events \X Dests

ASSUME WebhooksAssumption == Webhooks \in Seq(Dests)

NoRow == [state |-> "absent", attempts |-> 0, due |-> FALSE]
NewRow == [state |-> "pending", attempts |-> 0, due |-> TRUE]

NoPublisher == [event |-> "none", left |-> <<>>]
NotPosting == [key |-> <<"none", "none">>, row |-> NoRow, outcome |-> "none"]

OutboxInit(limits) ==
  /\ outbox = [k \in Keys |-> NoRow]
  /\ publisher = NoPublisher
  /\ marked = {}
  /\ batch = {} /\ posting = NotPosting
  /\ received = [k \in Keys |-> 0] /\ lost = [k \in Keys |-> 0]
  /\ outboxTrouble \in limits

OutboxMeets(kind) ==
  /\ outboxTrouble[kind] > 0
  /\ outboxTrouble' = [outboxTrouble EXCEPT ![kind] = @ - 1]

-----------------------------------------------------------------------------
(* Publishing *)

\* Mutant: the insert replaces the row of the same key.
CreateReplacing(k) == outbox' = [outbox EXCEPT ![k] = NewRow]

\* The insert does nothing when a row has the key already, whatever its state.
CreateNotification(k) ==
  outbox' = [outbox EXCEPT ![k] = IF @ = NoRow THEN NewRow ELSE @]

\* An event happens: its publisher walks the destinations in their order.  The
\* continuation comes back for "finished" as long as its mark is not stored.
PublishEvent(e) ==
  /\ publisher = NoPublisher /\ e \in outboxTrouble.events \ marked
  /\ publisher' = [event |-> e, left |-> Webhooks]
  /\ marked' = marked \cup ({e} \ {"finished"})
  /\ UNCHANGED <<outbox, batch, posting, received, lost, outboxTrouble>>

\* A failed insert ends enqueueNotification with the rows written so far.  The
\* continuation leaves its mark unset; the other callers drop the error.
EnqueueFails == OutboxMeets("faults") /\ publisher' = NoPublisher

EnqueueNotification ==
  /\ publisher.left # <<>>
  /\ \/ /\ CreateNotification(<<publisher.event, Head(publisher.left)>>)
        /\ publisher' = [publisher EXCEPT !.left = Tail(@)]
        /\ UNCHANGED outboxTrouble
     \/ EnqueueFails /\ UNCHANGED outbox
  /\ UNCHANGED <<marked, batch, posting, received, lost>>

\* With every destination enqueued the continuation stores its mark; when that
\* fails it enqueues everything again on its next pass.
MarkPublished ==
  /\ publisher # NoPublisher /\ publisher.left = <<>>
  /\ publisher' = NoPublisher
  /\ \/ marked' = marked \cup {publisher.event} /\ UNCHANGED outboxTrouble
     \/ publisher.event = "finished" /\ OutboxMeets("faults") /\ UNCHANGED marked
  /\ UNCHANGED <<outbox, batch, posting, received, lost>>

-----------------------------------------------------------------------------
(* Dispatching *)

ListPendingNotifications ==
  {k \in Keys : outbox[k].state = "pending" /\ outbox[k].due}

\* A tick lists the due rows, as copies, unless the list is still being worked
\* off; a failed list waits for the next tick.
DispatchNotifications ==
  /\ batch = {} /\ posting = NotPosting /\ ListPendingNotifications # {}
  /\ batch' = {<<k, outbox[k]>> : k \in ListPendingNotifications}
  /\ UNCHANGED <<outbox, publisher, marked, posting, received, lost, outboxTrouble>>

\* Mutant: the attempt is not counted.
AttemptUncounted(r) == r

\* deliverNotification counts the attempt on its copy.
CountAttempt(r) == [r EXCEPT !.attempts = @ + 1]

\* The next row of the list is taken up and its attempt ends with this outcome.
Attempted(copy, outcome) ==
  /\ posting = NotPosting /\ copy \in batch
  /\ batch' = batch \ {copy}
  /\ posting' = [key |-> copy[1], row |-> CountAttempt(copy[2]), outcome |-> outcome]
  /\ UNCHANGED <<outbox, publisher, marked>>

\* Nothing is posted to a destination that is no longer allowed or does not resolve.
RefuseDestination(copy) ==
  Attempted(copy, "error") /\ UNCHANGED <<received, lost, outboxTrouble>>

\* The receiver refuses, for ever if it likes, accepts, or accepts and its answer
\* is lost.
PostPinnedWebhook(copy) ==
  LET k == copy[1] IN
  \/ Attempted(copy, "error") /\ UNCHANGED <<received, lost, outboxTrouble>>
  \/ /\ Attempted(copy, "ok")
     /\ received' = [received EXCEPT ![k] = @ + 1]
     /\ UNCHANGED <<lost, outboxTrouble>>
  \/ /\ Attempted(copy, "error")
     /\ received' = [received EXCEPT ![k] = @ + 1]
     /\ lost' = [lost EXCEPT ![k] = @ + 1]
     /\ OutboxMeets("answers")

\* What the answer makes of the copy: delivered, given up after the last
\* attempt, or due again after a delay.
Settled(r, outcome) ==
  IF outcome = "ok" THEN [r EXCEPT !.state = "delivered"]
  ELSE IF r.attempts >= NotificationAttempts THEN [r EXCEPT !.state = "failed"]
  ELSE [r EXCEPT !.due = FALSE]

UpdateNotification(k, r) == outbox' = [outbox EXCEPT ![k] = r]

\* UpdateNotification stores the whole copy.  Its error is dropped: the stored
\* row stays due and knows nothing of this attempt.
DeliverNotification ==
  /\ posting # NotPosting
  /\ \/ /\ UpdateNotification(posting.key, Settled(posting.row, posting.outcome))
        /\ UNCHANGED <<lost, outboxTrouble>>
     \/ /\ OutboxMeets("faults")
        /\ lost' = [lost EXCEPT ![posting.key] = @ + (IF posting.outcome = "ok" THEN 1 ELSE 0)]
        /\ UNCHANGED outbox
  /\ posting' = NotPosting
  /\ UNCHANGED <<publisher, marked, batch, received>>

\* The delay of a row passes.
NotificationDue(k) ==
  /\ outbox[k].state = "pending" /\ ~outbox[k].due
  /\ outbox' = [outbox EXCEPT ![k].due = TRUE]
  /\ UNCHANGED <<publisher, marked, batch, posting, received, lost, outboxTrouble>>

\* The controller is killed: the list, the copy and the publisher are gone.
OutboxRestarts ==
  /\ OutboxMeets("kills")
  /\ lost' = [k \in Keys |-> lost[k] + (IF posting.key = k /\ posting.outcome = "ok" THEN 1 ELSE 0)]
  /\ publisher' = NoPublisher /\ batch' = {} /\ posting' = NotPosting
  /\ UNCHANGED <<outbox, marked, received>>

OutboxNext ==
  \/ \E e \in Events : PublishEvent(e)
  \/ EnqueueNotification \/ MarkPublished
  \/ DispatchNotifications \/ DeliverNotification
  \/ \E copy \in batch : RefuseDestination(copy) \/ PostPinnedWebhook(copy)
  \/ \E k \in Keys : NotificationDue(k)
  \/ OutboxRestarts

OutboxSpec == OutboxInit(OutboxLimits) /\ [][OutboxNext]_outboxVars

\* The ticker, the sequential dispatcher, time and the continuation's retry loop
\* go on.
OutboxFairness ==
  /\ WF_outboxVars(\/ DispatchNotifications \/ DeliverNotification
                   \/ \E copy \in batch : RefuseDestination(copy) \/ PostPinnedWebhook(copy))
  /\ WF_outboxVars(\E k \in Keys : NotificationDue(k))

-----------------------------------------------------------------------------
(* Properties *)

\* A receiver sees one event again only for an accepted post whose outcome was
\* lost: the answer, the row's update or the process that held it.  Enqueuing an
\* event again, or listing rows while others are posted, never sends one twice.
DuplicatesExplained == \A k \in Keys : received[k] <= 1 + lost[k]

\* Every row is in the end delivered or given up at options.MaxAttempts, even when
\* its receiver refuses for ever, and none is taken up again after that.  Once the
\* terminal continuation has stored its NotificationPublished mark, every
\* destination of the request has such a row: a failed insert half way through the
\* list, a failed mark or a kill leaves the mark unset and the list is walked again.
NotificationsEnd ==
  <>[](/\ \A k \in Keys : outbox[k].state # "pending"
       /\ "finished" \in marked => \A d \in Dests : outbox[<<"finished", d>>] # NoRow)
=============================================================================
