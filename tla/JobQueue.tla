------------------------------- MODULE JobQueue -------------------------------
(***************************************************************************)
(* The work queue of internal/jobs: jobs made of work items, a flat pool   *)
(* of workers with measured slots, leases with generation tokens, a reaper *)
(* for expired leases, retry on workers not tried yet, and dispatch at     *)
(* every event that creates work or headroom.                              *)
(*                                                                         *)
(* Every operation runs under the manager's mutex and is one action; what  *)
(* interleaves is the calls to the workers, which run off the lock and     *)
(* report back through CompleteItem, possibly long after their lease was   *)
(* reaped.                                                                 *)
(***************************************************************************)
EXTENDS Integers, FiniteSets

CONSTANTS
    Jobs,           \* job numbers 1 .. n, submitted in this order
    Items,          \* item numbers 1 .. m, in the order of submission
    JobOf,          \* the job of each item
    Workers,
    Slots,          \* measured concurrency of each worker
    NoWorker,
    MaxAttempts,    \* the job's attempt cap
    MaxReaps        \* bound: passes of the reaper that find something

ASSUME ItemsAssumption ==
    /\ Items \subseteq Nat /\ IsFiniteSet(Items)
    /\ JobOf \in [Items -> Jobs]
ASSUME SlotsAssumption == Slots \in [Workers -> Nat \ {0}] /\ NoWorker \notin Workers

VARIABLES
    job,        \* status and progress counters of each job
    item,       \* state, lease owner, attempts and tried workers of each item
    registered, \* the workers of the pool
    active,     \* slots the manager believes occupied
    leaseTok,   \* current lease generation of each item
    calls,      \* worker calls in flight
    reaps

vars == <<job, item, registered, active, leaseTok, calls, reaps>>

Live == {"leased", "running"}
Closed == {"paused", "cancelled", "completed", "completed_with_errors"}
ItemsOf(j) == {i \in Items : JobOf[i] = j}

Init ==
    /\ job = [j \in Jobs |-> [status |-> "new", queued |-> 0, running |-> 0,
                              success |-> 0, failed |-> 0]]
    /\ item = [i \in Items |-> [state |-> "new", owner |-> NoWorker,
                                attempt |-> 0, tried |-> {}]]
    /\ registered = {}
    /\ active = [w \in Workers |-> 0]
    /\ leaseTok = [i \in Items |-> 0]
    /\ calls = {}
    /\ reaps = 0

-----------------------------------------------------------------------------
(* Zero-gap dispatch.  The operations compute their effect on the queue    *)
(* (jb, it, ac, tk, cl) and hand it to TryDispatch, which fills the slots. *)

\* pickWorkerLocked: the workers with a free slot that the item has not tried,
\* given the picks for the items before it.
Eligible(it, ac, pick, reg, i) ==
    {w \in reg :
        /\ ac[w] + Cardinality({k \in DOMAIN pick : k < i /\ pick[k] = w}) < Slots[w]
        /\ w \notin it[i].tried}

\* tryDispatchLocked: the queued items of open jobs, in order, each to one of
\* its eligible workers; leaseLocked for every pick.
TryDispatch(jb, it, ac, tk, cl, reg) ==
    LET ready == {i \in Items : it[i].state = "queued" /\ jb[JobOf[i]].status \notin Closed} IN
    \E pick \in [ready -> Workers \cup {NoWorker}] :
        LET leased == {i \in ready : pick[i] # NoWorker}
            count(j) == Cardinality(leased \cap ItemsOf(j)) IN
        /\ \A i \in ready :
             IF Eligible(it, ac, pick, reg, i) = {} THEN pick[i] = NoWorker
             ELSE pick[i] \in Eligible(it, ac, pick, reg, i)
        /\ item' = [i \in Items |-> IF i \in leased
               THEN [it[i] EXCEPT !.state = "leased", !.owner = pick[i], !.attempt = @ + 1]
               ELSE it[i]]
        /\ job' = [j \in Jobs |-> [jb[j] EXCEPT !.queued = @ - count(j),
                                                !.running = @ + count(j)]]
        /\ active' = [w \in Workers |-> ac[w] + Cardinality({i \in leased : pick[i] = w})]
        /\ leaseTok' = [i \in Items |-> IF i \in leased THEN tk[i] + 1 ELSE tk[i]]
        /\ calls' = cl \cup {[item |-> i, worker |-> pick[i], tok |-> tk[i] + 1,
                              started |-> FALSE] : i \in leased}

Release(ac, w) == [ac EXCEPT ![w] = IF @ > 0 THEN @ - 1 ELSE 0]

\* recomputeJobStatusLocked.
Recomputed(jb, j) ==
    [jb EXCEPT ![j].status =
        IF @ \in {"cancelled", "paused"} \/ jb[j].queued > 0 \/ jb[j].running > 0 THEN @
        ELSE IF jb[j].failed > 0 THEN "completed_with_errors" ELSE "completed"]

\* failItemLocked and the reaper: back to the queue unless every worker of the
\* pool was tried or the attempts are used up.
Exhausted(i, tried) ==
    \/ registered # {} /\ Cardinality(tried) >= Cardinality(registered)
    \/ item[i].attempt >= MaxAttempts
FailedItem(i, w) ==
    LET tried == item[i].tried \cup {w} IN
    [item[i] EXCEPT !.tried = tried,
                    !.state = IF Exhausted(i, tried) THEN "failed" ELSE "queued"]
FailedJob(r, i, w) ==
    LET dead == FailedItem(i, w).state = "failed" IN
    [r EXCEPT !.failed = IF dead THEN @ + 1 ELSE @, !.queued = IF dead THEN @ ELSE @ + 1]

-----------------------------------------------------------------------------
\* Mutant: a new worker waits for the next event before it gets work.
RegisterWithoutDispatch(w) ==
    /\ w \notin registered
    /\ registered' = registered \cup {w}
    /\ UNCHANGED <<job, item, active, leaseTok, calls, reaps>>

RegisterWorker(w) ==
    /\ w \notin registered
    /\ registered' = registered \cup {w}
    /\ TryDispatch(job, item, active, leaseTok, calls, registered \cup {w})
    /\ UNCHANGED reaps

SubmitJob(j) ==
    /\ job[j].status = "new"
    /\ \A k \in Jobs : k < j => job[k].status # "new"
    /\ TryDispatch([job EXCEPT ![j] = [@ EXCEPT !.status = "running",
                                                !.queued = Cardinality(ItemsOf(j))]],
                   [i \in Items |-> IF JobOf[i] = j THEN [item[i] EXCEPT !.state = "queued"]
                                    ELSE item[i]],
                   active, leaseTok, calls, registered)
    /\ UNCHANGED <<registered, reaps>>

\* runItem, before the call to the worker; it does not look at the token.
StartItem(c) ==
    /\ ~c.started
    /\ calls' = (calls \ {c}) \cup {[c EXCEPT !.started = TRUE]}
    /\ item' = [item EXCEPT ![c.item].state = IF @ = "leased" THEN "running" ELSE @]
    /\ UNCHANGED <<job, registered, active, leaseTok, reaps>>

\* completeItem: the slot is freed in any case; a stale result is dropped, the
\* result for a cancelled job only ends the item.
CompleteItem(c, ok) ==
    LET i == c.item
        j == JobOf[i]
        ended == [job[j] EXCEPT !.running = @ - 1]
        Apply(jb, it) == TryDispatch(jb, it, Release(active, c.worker), leaseTok,
                                     calls \ {c}, registered) IN
    /\ c.started
    /\ \/ /\ leaseTok[i] # c.tok
          /\ Apply(job, item)
       \/ /\ leaseTok[i] = c.tok /\ job[j].status = "cancelled"
          /\ IF item[i].state \in Live
             THEN Apply([job EXCEPT ![j] = ended], [item EXCEPT ![i].state = "cancelled"])
             ELSE Apply(job, item)
       \/ /\ leaseTok[i] = c.tok /\ job[j].status # "cancelled"
          /\ IF item[i].state \in {"success", "failed"} THEN Apply(job, item)
             ELSE Apply(Recomputed([job EXCEPT ![j] = IF ok THEN [ended EXCEPT !.success = @ + 1]
                                                      ELSE FailedJob(ended, i, c.worker)], j),
                        [item EXCEPT ![i] = IF ok THEN [@ EXCEPT !.state = "success"]
                                            ELSE FailedItem(i, c.worker)])
    /\ UNCHANGED <<registered, reaps>>

\* Mutant: the reaper does not look whether the job is over.
ReapWithoutRecompute(expired) ==
    LET touched(j) == expired \cap ItemsOf(j)
        Dead(i) == FailedItem(i, item[i].owner).state = "failed" IN
    /\ expired # {} /\ reaps < MaxReaps
    /\ \A i \in expired : item[i].state \in Live
    /\ reaps' = reaps + 1
    /\ TryDispatch([j \in Jobs |-> [job[j] EXCEPT
                        !.running = @ - Cardinality(touched(j)),
                        !.failed = @ + Cardinality({i \in touched(j) : Dead(i)}),
                        !.queued = @ + Cardinality({i \in touched(j) : ~Dead(i)})]],
                   [i \in Items |-> IF i \in expired THEN FailedItem(i, item[i].owner) ELSE item[i]],
                   active, [i \in Items |-> IF i \in expired THEN leaseTok[i] + 1 ELSE leaseTok[i]],
                   calls, registered)
    /\ UNCHANGED registered

\* reapExpiredLeases: one pass over the expired leases.
ReapExpiredLeases(expired) ==
    LET touched(j) == expired \cap ItemsOf(j)
        Dead(i) == FailedItem(i, item[i].owner).state = "failed"
        jb == [j \in Jobs |-> [job[j] EXCEPT
                  !.running = @ - Cardinality(touched(j)),
                  !.failed = @ + Cardinality({i \in touched(j) : Dead(i)}),
                  !.queued = @ + Cardinality({i \in touched(j) : ~Dead(i)})]]
        owned(w) == Cardinality({i \in expired : item[i].owner = w}) IN
    /\ expired # {} /\ reaps < MaxReaps
    /\ \A i \in expired : item[i].state \in Live
    /\ reaps' = reaps + 1
    /\ TryDispatch([j \in Jobs |-> IF touched(j) = {} THEN jb[j] ELSE Recomputed(jb, j)[j]],
                   [i \in Items |-> IF i \in expired THEN FailedItem(i, item[i].owner) ELSE item[i]],
                   [w \in Workers |-> IF active[w] > owned(w) THEN active[w] - owned(w) ELSE 0],
                   [i \in Items |-> IF i \in expired THEN leaseTok[i] + 1 ELSE leaseTok[i]],
                   calls, registered)
    /\ UNCHANGED registered

PauseJob(j) ==
    /\ job[j].status = "running"
    /\ job' = [job EXCEPT ![j].status = "paused"]
    /\ UNCHANGED <<item, registered, active, leaseTok, calls, reaps>>

\* CancelJob: the queued items end, those in flight are left to resolve.
CancelJob(j) ==
    LET queued == {i \in ItemsOf(j) : item[i].state = "queued"} IN
    /\ job[j].status \in {"running", "paused"}
    /\ item' = [i \in Items |-> IF i \in queued THEN [item[i] EXCEPT !.state = "cancelled"]
                                ELSE item[i]]
    /\ job' = [job EXCEPT ![j] = [job[j] EXCEPT !.status = "cancelled",
                                                !.queued = @ - Cardinality(queued)]]
    /\ UNCHANGED <<registered, active, leaseTok, calls, reaps>>

Next ==
    \/ \E w \in Workers : RegisterWorker(w)
    \/ \E j \in Jobs : SubmitJob(j) \/ PauseJob(j) \/ CancelJob(j)
    \/ \E c \in calls : StartItem(c) \/ \E ok \in BOOLEAN : CompleteItem(c, ok)
    \/ \E expired \in SUBSET Items : ReapExpiredLeases(expired)

Spec == Init /\ [][Next]_vars

\* Workers are registered at start-up, and every call returns: its context
\* carries the lease deadline.
Fairness ==
    /\ \A w \in Workers : WF_vars(RegisterWorker(w))
    /\ WF_vars(\E c \in calls : StartItem(c))
    /\ WF_vars(\E c \in calls : \E ok \in BOOLEAN : CompleteItem(c, ok))

FairSpec == Spec /\ Fairness

-----------------------------------------------------------------------------
\* Zero-gap dispatch: between two operations no item of an open job waits while
\* a worker it has not tried has a slot that the manager believes free.
ZeroGapDispatch ==
    \A i \in Items, w \in registered :
        item[i].state = "queued" /\ job[JobOf[i]].status = "running" /\ w \notin item[i].tried
            => active[w] >= Slots[w]

\* Every submitted job that nobody pauses or cancels completes.
JobEnds ==
    \A j \in Jobs : job[j].status = "running" ~> job[j].status # "running"

=============================================================================
