---------------------------- MODULE NodeCommands ----------------------------
(***************************************************************************)
(* The signed residency commands (load_model, unload_model) a controller   *)
(* sends to one node for one model, from the durable row to the runtime.   *)
(*                                                                         *)
(* Controller (internal/api/node_commands.go): a row per command, delivery *)
(* over the current WebSocket session, the result handler, and the query-  *)
(* first recovery of an uncertain command.  Node (internal/nodeagent):     *)
(* the write-ahead command processor, whose durable state survives a crash *)
(* and whose answers are lost with the session they belong to.             *)
(*                                                                         *)
(* Command c carries fencing token c.  The runtime is the tier of the one  *)
(* model.  A query names its original, so it is identified by it; only the *)
(* newest attempt is kept.                                                 *)
(***************************************************************************)
EXTENDS Naturals, Sequences, FiniteSets

CONSTANTS
    MaxCommand,     \* commands 1..MaxCommand, in the order they are created
    Loads,          \* the commands that load; the others unload
    MaxFaults,      \* router probes and state-file writes that fail
    Troubles,       \* the bounds a behaviour may be given, see Trouble
    MaxInFlight     \* messages in flight in one direction

ASSUME CommandAssumption ==
    /\ MaxCommand \in Nat
    /\ Loads \subseteq 1..MaxCommand
    /\ {MaxFaults, MaxInFlight} \subseteq Nat

\* commands: how many are created; drops: sessions that may be lost; restarts:
\* of the controller or the node process; expires: whether the signed window of
\* a command may pass.
Trouble == [commands : 0..MaxCommand, drops : Nat, restarts : Nat, expires : BOOLEAN]
ASSUME TroublesAssumption == \A t \in Troubles : t \in Trouble

Commands == 1..MaxCommand
None == 0

VARIABLES
    row,        \* row[c]: the durable node_commands row of the mutation
    query,      \* query[c]: status of the newest query that reconciles c
    waiting,    \* commands an executeNodeCommand caller is waiting for
    reading,    \* those of them whose caller has just read an open row
    writing,    \* commands marked sent whose WebSocket write has not returned
    expired,    \* commands whose signed window has passed
    session,    \* "down", "registered" (reconciling) or "open" (reading)
    toNode,     \* command frames in flight
    toCtl,      \* result frames in flight
    node,       \* durable state of the node's command processor
    running,    \* the command being executed, and whether its session lives
    tier,       \* where the runtime holds the model
    applied,    \* applied[c]: c changed the runtime and was not rolled back
    starts,     \* starts[c]: times the node entered c's mutation
    budget      \* what is left of the bounds

ctlVars == <<row, query, waiting, reading, writing>>
nodeVars == <<node, running, tier, applied, starts>>
netVars == <<session, toNode, toCtl>>
vars == <<row, query, waiting, reading, writing, expired, session, toNode, toCtl,
          node, running, tier, applied, starts, budget>>

Tiers == {"hot_vram", "cold_disk"}
Terminal == {"succeeded", "failed", "late"}

DesiredTier(c) == IF c \in Loads THEN "hot_vram" ELSE "cold_disk"
InverseTier(c) == IF c \in Loads THEN "cold_disk" ELSE "hot_vram"

Idle == [c |-> None, live |-> FALSE, entered |-> FALSE, prev |-> 0]

Init ==
    /\ row = [c \in Commands |->
                [status |-> "none", uncertain |-> FALSE, proved |-> FALSE]]
    /\ query = [c \in Commands |-> "none"]
    /\ waiting = {} /\ reading = {} /\ writing = {} /\ expired = {}
    /\ session = "down" /\ toNode = <<>> /\ toCtl = <<>>
    /\ node = [fence |-> 0, pending |-> None, blocked |-> FALSE,
               result |-> [c \in Commands |-> "none"]]
    /\ running = Idle
    /\ tier \in Tiers
    /\ applied = [c \in Commands |-> FALSE]
    /\ starts = [c \in Commands |-> 0]
    /\ \E t \in Troubles :
         budget = [commands |-> t.commands, drops |-> t.drops, restarts |-> t.restarts,
                   expires |-> t.expires, faults |-> MaxFaults]

-----------------------------------------------------------------------------
(* Controller: rows and delivery                                           *)

\* handleCreateNodeCommand (no waiter) and executeNodeCommand (a waiter).
\* Tokens are handed out in the order of creation.
CreateCommand(c, waits) ==
    /\ row[c].status = "none"
    /\ c > 1 => row[c - 1].status # "none"
    /\ c <= budget.commands
    /\ row' = [row EXCEPT ![c].status = "queued"]
    /\ waiting' = IF waits THEN waiting \cup {c} ELSE waiting
    /\ UNCHANGED <<query, reading, writing, expired, budget>> /\ UNCHANGED nodeVars
    /\ UNCHANGED netVars

\* sendNodeCommand up to the compare-and-swap: the row says sent before the
\* frame exists.  Every caller holds a row that is not uncertain.
MarkSent(c) ==
    /\ row[c].status \in {"queued", "sent"}
    /\ ~row[c].uncertain
    /\ session # "down"
    /\ c \notin writing
    /\ row' = [row EXCEPT ![c].status = "sent"]
    /\ writing' = writing \cup {c}
    /\ UNCHANGED <<query, waiting, reading, expired, budget>> /\ UNCHANGED nodeVars
    /\ UNCHANGED netVars

\* The write succeeds: the write deadline is at most the command's expiry.
WriteFrame(c) ==
    /\ c \in writing
    /\ session # "down" /\ c \notin expired
    /\ Len(toNode) < MaxInFlight
    /\ toNode' = Append(toNode, [kind |-> "mutate", c |-> c])
    /\ writing' = writing \ {c}
    /\ UNCHANGED <<row, query, waiting, reading, expired, session, toCtl, budget>>
    /\ UNCHANGED nodeVars

\* The write fails: the row is read again and reopened unless a result has
\* made it terminal or uncertain in the meantime.
WriteFails(c) ==
    /\ c \in writing
    /\ session = "down" \/ c \in expired
    /\ writing' = writing \ {c}
    /\ row' = IF row[c].status = "sent" /\ ~row[c].uncertain
              THEN [row EXCEPT ![c].status = "queued"] ELSE row
    /\ UNCHANGED <<query, waiting, reading, expired, budget>> /\ UNCHANGED nodeVars
    /\ UNCHANGED netVars

\* dispatchNodeCommands on a row whose window has passed.
ExpireUndelivered(c) ==
    /\ session # "down"
    /\ c \in expired /\ c \notin writing
    /\ row[c].status \in {"queued", "sent"} /\ ~row[c].uncertain
    /\ row' = [row EXCEPT ![c].status = "expired"]
    /\ UNCHANGED <<query, waiting, reading, writing, expired, budget>>
    /\ UNCHANGED nodeVars /\ UNCHANGED netVars

\* PromoteNodeCommandUncertain: the row is sent and uncertain, unless an
\* authoritative observation has already settled it.
Promote(c) ==
    IF row[c].proved THEN row
    ELSE [row EXCEPT ![c].status = "sent", ![c].uncertain = TRUE]

\* waitForNodeCommand reads the row, finds it open, and looks at the clock
\* afterwards.  At expiry it promotes whatever the row has become meanwhile.
WaiterReads(c) ==
    /\ c \in waiting \ reading
    /\ row[c].status \in {"queued", "sent"} /\ ~row[c].uncertain
    /\ reading' = reading \cup {c}
    /\ UNCHANGED <<row, query, waiting, writing, expired, budget>>
    /\ UNCHANGED nodeVars /\ UNCHANGED netVars

WaiterExpires(c) ==
    /\ c \in reading /\ c \in expired
    /\ row' = Promote(c)
    /\ waiting' = waiting \ {c} /\ reading' = reading \ {c}
    /\ UNCHANGED <<query, writing, expired, budget>> /\ UNCHANGED nodeVars
    /\ UNCHANGED netVars

\* The clock has not run out: the next poll reads the row again.
WaiterPolls(c) ==
    /\ c \in reading /\ c \notin expired
    /\ reading' = reading \ {c}
    /\ UNCHANGED <<row, query, waiting, writing, expired, budget>>
    /\ UNCHANGED nodeVars /\ UNCHANGED netVars

\* waitForNodeCommand: the caller sees a settled row, or its own context ends.
WaiterReturns(c) ==
    /\ c \in waiting \ reading
    /\ waiting' = waiting \ {c}
    /\ UNCHANGED <<row, query, reading, writing, expired, budget>>
    /\ UNCHANGED nodeVars /\ UNCHANGED netVars

-----------------------------------------------------------------------------
(* Controller: results and recovery                                        *)

\* Mutant: an ordinary answer is applied to an uncertain row.
MutationResultClearing(r) ==
    IF r.out = "uncertain" THEN Promote(r.c)
    ELSE IF row[r.c].status \in Terminal THEN row
    ELSE [row EXCEPT ![r.c].status = IF r.out = "ok" THEN "succeeded" ELSE "failed",
                     ![r.c].uncertain = FALSE]

\* handleNodeCommandResult for a mutation's answer r.
MutationResult(r) ==
    LET c == r.c IN
    CASE r.out = "uncertain" -> Promote(c)
      [] r.out # "uncertain" /\ (row[c].status \in Terminal \/ row[c].uncertain)
           -> row
      [] OTHER -> [row EXCEPT ![c].status =
                     IF r.late THEN "late"
                     ELSE IF r.out = "ok" THEN "succeeded" ELSE "failed"]

\* settleUncertainOriginal: the observed tier decides.
Settled(c, observed) ==
    IF row[c].status \in {"succeeded", "failed"} THEN row
    ELSE [row EXCEPT ![c] =
            [status |-> IF observed = DesiredTier(c) THEN "succeeded"
                        ELSE "failed",
             uncertain |-> FALSE, proved |-> TRUE]]

ReceiveMutationResult ==
    /\ session # "down" /\ toCtl # <<>>
    /\ Head(toCtl).kind = "mutate"
    /\ row' = MutationResult(Head(toCtl))
    /\ toCtl' = Tail(toCtl)
    /\ UNCHANGED <<query, waiting, reading, writing, expired, session, toNode, budget>>
    /\ UNCHANGED nodeVars

\* handleNodeCommandResult for a query's answer: the query row, then the
\* original it reconciles.  A controller that stops in between leaves the
\* query row settled and the original uncertain (CrashBeforeSettle).
QueryRow(r) ==
    IF query[r.c] \notin {"queued", "sent"} THEN query
    ELSE [query EXCEPT ![r.c] = IF r.late THEN "failed" ELSE r.out]

ReceiveQueryResult ==
    /\ session # "down" /\ toCtl # <<>>
    /\ Head(toCtl).kind = "query"
    /\ LET r == Head(toCtl) IN
       /\ query' = QueryRow(r)
       /\ row' = IF query'[r.c] # query[r.c] /\ query'[r.c] \in Tiers
                 THEN Settled(r.c, r.out) ELSE row
    /\ toCtl' = Tail(toCtl)
    /\ UNCHANGED <<waiting, reading, writing, expired, session, toNode, budget>>
    /\ UNCHANGED nodeVars

\* The recovery timer and the reconnect dispatch: reconcileUncertainNodeCommand
\* and issueAuthoritativeQuery.  Nothing is asked past the signed window.  An
\* open query is sent again, a failed one is replaced by a fresh attempt.
IssueQuery(c) ==
    /\ row[c].uncertain /\ c \notin expired
    /\ query[c] \notin Tiers
    /\ session # "down" /\ Len(toNode) < MaxInFlight
    /\ query' = [query EXCEPT ![c] = "sent"]
    /\ toNode' = Append(toNode, [kind |-> "query", c |-> c])
    /\ UNCHANGED <<row, waiting, reading, writing, expired, session, toCtl, budget>>
    /\ UNCHANGED nodeVars

\* The same loop finds a query row that was answered before a restart.
SettleFromQueryRow(c) ==
    /\ row[c].uncertain /\ c \notin expired
    /\ query[c] \in Tiers
    /\ row' = Settled(c, query[c])
    /\ UNCHANGED <<query, waiting, reading, writing, expired, budget>>
    /\ UNCHANGED nodeVars /\ UNCHANGED netVars

-----------------------------------------------------------------------------
(* The session                                                             *)

\* A lost session loses every frame of it and orphans a running command.
SessionLost ==
    /\ session' = "down" /\ toNode' = <<>> /\ toCtl' = <<>>

Disconnect ==
    /\ session # "down" /\ budget.drops > 0
    /\ budget' = [budget EXCEPT !.drops = @ - 1]
    /\ SessionLost
    /\ running' = [running EXCEPT !.live = FALSE]
    /\ UNCHANGED ctlVars /\ UNCHANGED <<expired, node, tier, applied, starts>>

\* handleNodeWS registers the node; runOnce reconciles before it reads.
Connect ==
    /\ session = "down"
    /\ session' = "registered"
    /\ UNCHANGED <<toNode, toCtl, expired, budget>>
    /\ UNCHANGED ctlVars /\ UNCHANGED nodeVars

RestartController ==
    /\ budget.restarts > 0
    /\ budget' = [budget EXCEPT !.restarts = @ - 1]
    /\ SessionLost
    /\ waiting' = {} /\ reading' = {} /\ writing' = {}
    /\ running' = [running EXCEPT !.live = FALSE]
    /\ UNCHANGED <<row, query, expired, node, tier, applied, starts>>

CrashBeforeSettle ==
    /\ session # "down" /\ toCtl # <<>> /\ budget.restarts > 0
    /\ Head(toCtl).kind = "query"
    /\ query' = QueryRow(Head(toCtl))
    /\ budget' = [budget EXCEPT !.restarts = @ - 1]
    /\ SessionLost
    /\ waiting' = {} /\ reading' = {} /\ writing' = {}
    /\ running' = [running EXCEPT !.live = FALSE]
    /\ UNCHANGED <<row, expired, node, tier, applied, starts>>

\* newCommandProcessor reloads the state file; what was running is only known
\* by its pending intent.
RestartNode ==
    /\ budget.restarts > 0
    /\ budget' = [budget EXCEPT !.restarts = @ - 1]
    /\ SessionLost
    /\ running' = Idle
    /\ UNCHANGED ctlVars /\ UNCHANGED <<expired, node, tier, applied, starts>>

Expire(c) ==
    /\ budget.expires
    /\ row[c].status # "none" /\ c \notin expired
    /\ expired' = expired \cup {c}
    /\ UNCHANGED budget /\ UNCHANGED ctlVars /\ UNCHANGED nodeVars
    /\ UNCHANGED netVars

-----------------------------------------------------------------------------
(* Node: reconciliation at the start of a session                          *)

\* ReconcilePending for a load or unload: the settled runtime decides, and the
\* outcome is journalled with the intent still present, then the intent goes.
ReconciledOutcome(c) ==
    IF tier = DesiredTier(c) THEN "reconciled" ELSE "not_effective"

ReconcilePending ==
    /\ session = "registered" /\ running = Idle
    /\ session' = "open"
    /\ node' = IF node.pending = None \/ node.blocked THEN node
               ELSE [node EXCEPT !.pending = None,
                       !.result[node.pending] = ReconciledOutcome(node.pending)]
    /\ UNCHANGED <<toNode, toCtl, expired, budget, running, tier, applied, starts>>
    /\ UNCHANGED ctlVars

\* The router cannot be probed, or is in a transitional state: the intent and
\* the block stay, and the session opens all the same.
ReconcileFails ==
    /\ session = "registered" /\ running = Idle
    /\ node.pending # None /\ budget.faults > 0
    /\ budget' = [budget EXCEPT !.faults = @ - 1]
    /\ session' = "open"
    /\ UNCHANGED <<toNode, toCtl, expired>> /\ UNCHANGED ctlVars
    /\ UNCHANGED nodeVars

-----------------------------------------------------------------------------
(* Node: Handle                                                            *)

Answer(kind, c, out) ==
    [kind |-> kind, c |-> c, out |-> out, late |-> c \in expired]

\* cachedMutationReplay: the cached outcomes that validate as a proof.  A
\* reconciled failure lacks the rolled_back evidence and does not.
Replayable == {"ok", "reconciled", "rolled_back"}

\* Mutant: a token that is not newer than the committed one passes.
RefusedWithoutFence(c) ==
    \/ c \in expired
    \/ node.blocked
    \/ node.result[c] # "none"
    \/ node.pending # None

\* Handle answers mutation c without touching the runtime, or does not (Enter).
Refused(c) ==
    \/ c \in expired
    \/ node.blocked
    \/ node.result[c] # "none"
    \/ node.pending # None
    \/ c <= node.fence

RefusalAnswer(c) ==
    IF c \notin expired /\ ~node.blocked /\ node.result[c] \in {"ok", "reconciled"}
    THEN "ok" ELSE "failed"

\* A refusal by the fence is itself recorded as the command's result.
RefusalResult(c) ==
    IF c \in expired \/ node.blocked \/ node.result[c] # "none"
       \/ node.pending # None
    THEN node.result ELSE [node.result EXCEPT ![c] = "failed"]

HandleRefused ==
    /\ session = "open" /\ running = Idle
    /\ toNode # <<>> /\ Head(toNode).kind = "mutate"
    /\ Len(toCtl) < MaxInFlight
    /\ LET c == Head(toNode).c IN
       /\ Refused(c)
       /\ toCtl' = Append(toCtl, Answer("mutate", c, RefusalAnswer(c)))
       /\ node' = [node EXCEPT !.result = RefusalResult(c)]
    /\ toNode' = Tail(toNode)
    /\ UNCHANGED <<session, expired, running, tier, applied, starts, budget>>
    /\ UNCHANGED ctlVars

\* currentCacheRuntimeBindingsMatch cannot probe the router: the cached proof
\* does not validate and the redelivery fails closed.
HandleReplayUnprovable ==
    /\ session = "open" /\ running = Idle
    /\ toNode # <<>> /\ Head(toNode).kind = "mutate"
    /\ Len(toCtl) < MaxInFlight /\ budget.faults > 0
    /\ node.result[Head(toNode).c] \in Replayable
    /\ budget' = [budget EXCEPT !.faults = @ - 1]
    /\ toCtl' = Append(toCtl, Answer("mutate", Head(toNode).c, "failed"))
    /\ toNode' = Tail(toNode)
    /\ UNCHANGED <<session, expired>> /\ UNCHANGED ctlVars
    /\ UNCHANGED nodeVars

\* The write-ahead intent: fence and pending are saved before the mutation.
HandleEnter ==
    /\ session = "open" /\ running = Idle
    /\ toNode # <<>> /\ Head(toNode).kind = "mutate"
    /\ LET c == Head(toNode).c IN
       /\ ~Refused(c)
       /\ node' = [node EXCEPT !.fence = c, !.pending = c]
       /\ running' = [c |-> c, live |-> TRUE, entered |-> FALSE,
                      prev |-> node.fence]
    /\ toNode' = Tail(toNode)
    /\ UNCHANGED <<session, toCtl, expired, tier, applied, starts, budget>>
    /\ UNCHANGED ctlVars

\* execute: the runtime call.  markSideEffect comes first, and the call may
\* take effect whatever it returns.
Mutate(effective) ==
    /\ running.c # None /\ ~running.entered
    /\ tier # DesiredTier(running.c)
    /\ running' = [running EXCEPT !.entered = TRUE]
    /\ starts' = [starts EXCEPT ![running.c] = @ + 1]
    /\ tier' = IF effective THEN DesiredTier(running.c) ELSE tier
    /\ applied' = [applied EXCEPT ![running.c] = effective]
    /\ UNCHANGED <<node, expired, budget>> /\ UNCHANGED ctlVars
    /\ UNCHANGED netVars

\* The end of Handle: the result is saved under the command and the answer
\* goes to the session it came from, if that session still lives.
FinishWith(c, reply, newNode) ==
    /\ node' = newNode
    /\ running' = Idle
    /\ Len(toCtl) < MaxInFlight
    /\ toCtl' = IF running.live THEN Append(toCtl, Answer("mutate", c, reply))
                ELSE toCtl

Recorded(c, out) == [node EXCEPT !.pending = None, !.result[c] = out]

\* Mutant: success is reported from the call's return, without observing.
FinishOkUnobserved ==
    /\ running.c # None /\ (running.entered \/ tier = DesiredTier(running.c))
    /\ FinishWith(running.c, "ok", Recorded(running.c, "ok"))
    /\ UNCHANGED <<session, toNode, expired, tier, applied, starts, budget>>
    /\ UNCHANGED ctlVars

\* The requested tier is observed, by the mutation or because it was there.
FinishOk ==
    /\ running.c # None /\ tier = DesiredTier(running.c)
    /\ FinishWith(running.c, "ok", Recorded(running.c, "ok"))
    /\ UNCHANGED <<session, toNode, expired, tier, applied, starts, budget>>
    /\ UNCHANGED ctlVars

\* An error before the side effect: a definite failure; the fence is kept,
\* unless the window closed first, which gives the token back.
FinishRejected ==
    /\ running.c # None /\ ~running.entered
    /\ \E kept \in BOOLEAN :
         /\ ~kept => running.c \in expired
         /\ FinishWith(running.c, "failed",
              [Recorded(running.c, "failed") EXCEPT !.fence =
                 IF kept THEN @ ELSE running.prev])
    /\ UNCHANGED <<session, toNode, expired, tier, applied, starts, budget>>
    /\ UNCHANGED ctlVars

\* An error after it, rolled back or not: uncertain, the intent is retained.
FinishUncertain ==
    /\ running.entered
    /\ \E rollback \in BOOLEAN :
         /\ tier' = IF rollback THEN InverseTier(running.c) ELSE tier
         /\ applied' = IF rollback THEN [applied EXCEPT ![running.c] = FALSE]
                       ELSE applied
    /\ FinishWith(running.c, "uncertain",
                  [node EXCEPT !.result[running.c] = "uncertain"])
    /\ UNCHANGED <<session, toNode, expired, starts, budget>>
    /\ UNCHANGED ctlVars

\* The mutation succeeded and its result could not be saved: the node blocks,
\* the file still holds the intent, and the answer is a plain failure.
FinishUnsaved ==
    /\ running.c # None /\ tier = DesiredTier(running.c)
    /\ budget.faults > 0
    /\ budget' = [budget EXCEPT !.faults = @ - 1]
    /\ FinishWith(running.c, "failed", [node EXCEPT !.blocked = TRUE])
    /\ UNCHANGED <<session, toNode, expired, tier, applied, starts>>
    /\ UNCHANGED ctlVars

\* Handle for query_model_state.  pendingQueryMatches or completedQueryMatches:
\* the named original is the pending intent, or has a proof, and its fence is
\* the committed one.
QueryAllowed(c) ==
    /\ c \notin expired
    /\ node.pending = c \/ node.result[c] \in Replayable
    /\ node.fence = c

\* settlePendingFromQuery: the observation also retires the node's intent.
\* A durability block is left alone.
HandleQuery ==
    /\ session = "open" /\ running = Idle
    /\ toNode # <<>> /\ Head(toNode).kind = "query"
    /\ Len(toCtl) < MaxInFlight
    /\ LET c == Head(toNode).c IN
       /\ toCtl' = Append(toCtl, Answer("query", c,
                     IF QueryAllowed(c) THEN tier ELSE "failed"))
       /\ node' = IF QueryAllowed(c) /\ node.pending = c
                  THEN Recorded(c, IF tier = DesiredTier(c) THEN "reconciled"
                                   ELSE "rolled_back")
                  ELSE node
    /\ toNode' = Tail(toNode)
    /\ UNCHANGED <<session, expired, running, tier, applied, starts, budget>>
    /\ UNCHANGED ctlVars

HandleQueryFails ==
    /\ session = "open" /\ running = Idle
    /\ toNode # <<>> /\ Head(toNode).kind = "query"
    /\ Len(toCtl) < MaxInFlight /\ budget.faults > 0
    /\ budget' = [budget EXCEPT !.faults = @ - 1]
    /\ toCtl' = Append(toCtl, Answer("query", Head(toNode).c, "failed"))
    /\ toNode' = Tail(toNode)
    /\ UNCHANGED <<session, expired>> /\ UNCHANGED ctlVars
    /\ UNCHANGED nodeVars

-----------------------------------------------------------------------------

Controller ==
    \/ \E c \in Commands :
         \/ \E waits \in BOOLEAN : CreateCommand(c, waits)
         \/ MarkSent(c) \/ WriteFrame(c) \/ WriteFails(c)
         \/ ExpireUndelivered(c) \/ WaiterReads(c) \/ WaiterExpires(c)
         \/ WaiterPolls(c) \/ WaiterReturns(c)
         \/ IssueQuery(c) \/ SettleFromQueryRow(c)
    \/ ReceiveMutationResult \/ ReceiveQueryResult

Node ==
    \/ ReconcilePending \/ ReconcileFails
    \/ HandleRefused \/ HandleReplayUnprovable \/ HandleEnter
    \/ \E effective \in BOOLEAN : Mutate(effective)
    \/ FinishOk \/ FinishRejected \/ FinishUncertain \/ FinishUnsaved
    \/ HandleQuery \/ HandleQueryFails

Environment ==
    \/ Disconnect \/ Connect \/ RestartController \/ CrashBeforeSettle
    \/ RestartNode \/ \E c \in Commands : Expire(c)

Next == Controller \/ Node \/ Environment

Spec == Init /\ [][Next]_vars

-----------------------------------------------------------------------------
(* Properties                                                              *)

\* The node enters the runtime at most once for a command and never for a
\* command older than one it has entered, however often the frame is
\* redelivered after reconnects, write failures and restarts, and only with
\* the intent already in its state file (Handle, checkFence).
EffectsInFenceOrder ==
    [][\A c \in Commands : starts'[c] # starts[c] =>
         /\ \A d \in c..MaxCommand : starts[d] = 0
         /\ node.pending = c /\ node.fence = c]_vars

\* The answers of the controller are true of the runtime.  As long as no newer
\* command has taken the fence, a succeeded command's model is where the command
\* put it (handleNodeCommandResult, settleUncertainOriginal).  A command that
\* failed did not leave its change in the runtime (waitForNodeCommand,
\* nodeCommandFailure), as long as it is the only one and no probe or state-file
\* write has failed.
AnswersAreTrue ==
    \A c \in Commands :
        /\ row[c].status = "succeeded" /\ node.fence = c => tier = DesiredTier(c)
        /\ /\ row[c].status = "failed" /\ budget.faults = MaxFaults
           /\ \A d \in Commands \ {c} : row[d].status = "none"
           => ~applied[c]

\* Uncertainty is monotone evidence: only an observation of the runtime under
\* the command's own fence clears it, and it clears it to what the runtime
\* shows; late ordinary results never do (PromoteNodeCommandUncertain).
UncertaintySettledByProof ==
    [][\A c \in Commands : row[c].uncertain /\ ~row'[c].uncertain =>
         /\ row'[c].proved
         /\ node.fence = c =>
              row'[c].status = IF tier = DesiredTier(c) THEN "succeeded"
                               ELSE "failed"]_vars

=============================================================================
