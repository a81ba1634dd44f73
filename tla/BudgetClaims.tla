------------------------------ MODULE BudgetClaims ------------------------------
(***************************************************************************)
(* Admission of priced work and the budget claims it takes                  *)
(* (internal/workloads/manager.go: reconcilePass, tryAdmit and the budget   *)
(* procedures; internal/store/memory.go and postgres_workloads.go: the      *)
(* budget tables).                                                          *)
(*                                                                          *)
(* One reconcile pass runs at a time. It lists the workloads once, and for  *)
(* each queued one tries the targets in order: a priced target takes a      *)
(* claim on the principal's budget, linked to the workload row in the same  *)
(* transaction; a target without capacity gives the claim back through a    *)
(* durable cleanup intent. A workload that ends carries a settlement intent *)
(* from the very write that ends it. The intents are carried out by the     *)
(* goroutine that wrote them, and again by a retry loop, while cancellation,*)
(* preemption, other writers of the row and controller restarts interleave. *)
(*                                                                          *)
(* The revision of a row is kept as the set "stale" of rows written since   *)
(* the pass read them: a CAS of the pass succeeds when its row is not in    *)
(* that set. A claim's ownership token and its attempt number are always    *)
(* written together and stand here for one another.                         *)
(***************************************************************************)
EXTENDS Naturals, Sequences, FiniteSets, FiniteSetsExt

CONSTANTS
  Workloads,    \* the workloads of one principal
  Candidates,   \* the targets, in the order admission tries them
  Price,        \* estimated cost on each target, 0 on one that is not priced
  Limit,        \* the principal's budget
  FailFast,     \* the workloads with queue policy fail_fast
  Recoverable,  \* the workloads that may be executed again
  Urgent,       \* the workloads that may preempt the others
  Usage,        \* the costs a finished workload may report
  Troubles      \* how much trouble a behaviour may meet, a set of Trouble records

\* A scenario, of which Init picks one: the workloads submitted, the targets
\* free and busy at first (by place in Candidates), the executions after which
\* a failure is final (4 in the code), the preemption budget, and a bound on each
\* kind of trouble: restarts, failing store calls, cancellations, other writes of
\* a row, deadlines that pass, changes of a target or losses of its node.
Trouble == [crash: Nat, fault: Nat, cancel: Nat, touch: Nat, late: Nat, change: Nat,
            runs: Nat, preempt: Nat,
            work: SUBSET Workloads, free: SUBSET Nat, busy: SUBSET Nat]

Targets == {Candidates[i] : i \in DOMAIN Candidates}

ASSUME CandidatesListed == Candidates \in Seq(Targets)
ASSUME Prices == Price \in [Targets -> Nat]
ASSUME Bounded == /\ IsFiniteSet(Workloads)
                  /\ Troubles \subseteq Trouble
                  /\ \A s \in Troubles : s.free \cup s.busy \subseteq DOMAIN Candidates
                  /\ Limit \in Nat /\ Usage \subseteq Nat \ {0}

VARIABLES
  row,      \* the workload rows
  claim,    \* the budget reservations
  adm,      \* the reconcile pass
  todo,     \* the listed workloads the pass has still to consider
  seen,     \* what the pass knows of a row's tokens
  stale,    \* the rows written since the pass read them
  proc,     \* the budget procedures under way
  exec,     \* the workloads with an execution goroutine
  stopping, \* the workloads with a cancellation under way
  cond,     \* the condition of each target: closed, busy or free
  late,     \* the workloads whose deadline has passed
  phase,    \* the controller: starting or up
  trouble   \* what is left of the trouble of this behaviour

vars == <<row, claim, adm, todo, seen, stale, proc, exec, stopping, cond, late,
          phase, trouble>>

Ended == {"succeeded", "failed", "rejected", "cancelled"}

\* A waiting row whose execution a restart has still to reconcile is "recovering".
Waiting == {"queued", "waiting", "recovering"}
Admissible == {"queued", "waiting"}

Row == [status: Waiting \cup Ended \cup {"absent", "running"}, owner: BOOLEAN,
        token: Nat, cleanup: Nat, settling: BOOLEAN, cost: Nat,
        handle: BOOLEAN, target: Targets \cup {"none"}, runs: Nat]

Claim == [status: {"none", "reserved", "settled", "released"}, token: Nat,
          cents: Nat, paid: Nat]

\* The goroutine that executes or recovers a workload, the pass, the retry
\* loop, and the API call that cancels.
Procs == Workloads \cup {"pass", "loop", "api"}
Idle == [pc |-> "idle", work |-> "none", token |-> 0]
At(pc, w, k) == [pc |-> pc, work |-> w, token |-> k]
NoPass == [pc |-> "idle", work |-> "none", left |-> <<>>, token |-> 0]

Init ==
  /\ trouble \in Troubles
  /\ row = [w \in Workloads |->
              [status |-> IF w \in trouble.work THEN "queued" ELSE "absent",
               owner |-> FALSE, token |-> 0, cleanup |-> 0, settling |-> FALSE,
               cost |-> 0, handle |-> FALSE, target |-> "none", runs |-> 0]]
  /\ claim = [w \in Workloads |-> [status |-> "none", token |-> 0, cents |-> 0, paid |-> 0]]
  /\ adm = NoPass /\ todo = {} /\ stale = {}
  /\ seen = [w \in Workloads |-> [token |-> 0, cleanup |-> 0]]
  /\ proc = [p \in Procs |-> Idle]
  /\ exec = {} /\ stopping = {} /\ late = {}
  /\ cond = [t \in Targets |->
               IF t \in {Candidates[i] : i \in trouble.free} THEN "free"
               ELSE IF t \in {Candidates[i] : i \in trouble.busy} THEN "busy"
               ELSE "closed"]
  /\ phase = "up"

-----------------------------------------------------------------------------
(* Writes of a workload row. *)

\* A write by anyone but the pass itself: the pass's copy is now old.
Write(w, r) ==
  /\ row' = [row EXCEPT ![w] = r]
  /\ stale' = IF adm.pc = "idle" THEN stale ELSE stale \cup {w}

\* The pass's own CAS, which fails on a row written since.
Fresh(w) == w \notin stale /\ row[w].status \in Admissible /\ ~row[w].owner

\* ensureBudgetSettlementIntent: the write that ends a workload with a claim
\* also records that the claim is to be settled, and at which cost.
EndedAt(r, s, cents) ==
  [r EXCEPT !.status = s, !.settling = r.token # 0,
            !.cost = IF r.token # 0 THEN cents ELSE 0]

Priced(w) == row[w].target # "none" /\ Price[row[w].target] > 0

\* budgetActualCents without reported usage: the price of the plan, or the
\* amount reserved when the row has no plan for a priced target.
Estimate(w) == IF Priced(w) THEN Price[row[w].target] ELSE claim[w].cents

\* budgetActualCents of a finished workload.
Actual(w) == IF Priced(w) THEN Usage \cup {Estimate(w)} ELSE {Estimate(w)}

\* Queued again without its handle; some writers keep the plan, some drop it.
Queued(r) == [r EXCEPT !.status = "queued", !.handle = FALSE]
Requeued(r) == [Queued(r) EXCEPT !.target = "none"]

Spend(kind) == trouble[kind] > 0 /\ trouble' = [trouble EXCEPT ![kind] = @ - 1]

-----------------------------------------------------------------------------
(* The budget procedures, one store call at a time. *)

\* Mutant: what was charged is forgotten.
CommittedIsReserved ==
  SumFunction([w \in Workloads |-> IF claim[w].status = "reserved" THEN claim[w].cents ELSE 0])

Committed ==
  SumFunction([w \in Workloads |-> CASE claim[w].status = "reserved" -> claim[w].cents
                                     [] claim[w].status = "settled" -> claim[w].paid
                                     [] OTHER -> 0])

Step(p, pc) == proc' = [proc EXCEPT ![p].pc = pc]
Return(p) == proc' = [proc EXCEPT ![p] = Idle]

\* A procedure ends with an error, which only the head of tryAdmit looks at.
Fail(p) ==
  proc' = [proc EXCEPT ![p] = IF p = "pass" /\ adm.pc = "cleaning"
                              THEN [Idle EXCEPT !.pc = "failed"] ELSE Idle]

\* Before a claim is released the row records the intent, under the same
\* conditions and in the same write (releaseBudgetClaimAfterWorkloadCAS).
RecordCleanup(p) ==
  LET w == proc[p].work  r == row[w]  k == proc[p].token IN
  /\ proc[p].pc = "record"
  /\ \/ /\ r.cleanup = k
        /\ Step(p, "release")
        /\ UNCHANGED <<row, stale>>
     \/ /\ r.cleanup = 0 /\ r.token = k /\ ~r.owner /\ r.status \in Waiting
        /\ Write(w, [r EXCEPT !.cleanup = k])
        /\ Step(p, "release")
     \/ /\ r.cleanup # k
        /\ ~(r.cleanup = 0 /\ r.token = k /\ ~r.owner /\ r.status \in Waiting)
        /\ Fail(p)
        /\ UNCHANGED <<row, stale>>
  /\ UNCHANGED <<claim, adm, todo, seen, exec, stopping, cond, late, phase, trouble>>

\* Mutants: a release that ignores who owns the claim, and one that ignores
\* what has become of it.
ReleaseOfAnyToken(p) ==
  LET w == proc[p].work IN
  /\ proc[p].pc = "release" /\ Step(p, "unlink")
  /\ claim' = IF claim[w].status = "reserved"
              THEN [claim EXCEPT ![w].status = "released"] ELSE claim
  /\ UNCHANGED <<row, stale, adm, todo, seen, exec, stopping, cond, late, phase, trouble>>

ReleaseOfAnyStatus(p) ==
  LET w == proc[p].work IN
  /\ proc[p].pc = "release" /\ Step(p, "unlink")
  /\ claim' = IF claim[w].token = proc[p].token
              THEN [claim EXCEPT ![w].status = "released"] ELSE claim
  /\ UNCHANGED <<row, stale, adm, todo, seen, exec, stopping, cond, late, phase, trouble>>

\* ReleaseBudgetClaim: only the exact claim, and only while it is reserved.
ReleaseBudgetClaim(p) ==
  LET w == proc[p].work  c == claim[w] IN
  /\ proc[p].pc = "release"
  /\ IF c.status = "none" \/ (c.token = proc[p].token /\ c.status \in {"reserved", "released"})
     THEN /\ claim' = IF c.status = "reserved"
                      THEN [claim EXCEPT ![w].status = "released"] ELSE claim
          /\ Step(p, "unlink")
     ELSE Fail(p) /\ UNCHANGED claim
  /\ UNCHANGED <<row, stale, adm, todo, seen, exec, stopping, cond, late, phase, trouble>>

\* The row forgets the claim and the intent in one write.
UnlinkClaim(p) ==
  LET w == proc[p].work  r == row[w] IN
  /\ proc[p].pc = "unlink"
  /\ IF r.cleanup = proc[p].token /\ r.status \in Waiting
     THEN Write(w, [r EXCEPT !.token = 0, !.cleanup = 0]) /\ Return(p)
     ELSE UNCHANGED <<row, stale>> /\ Fail(p)
  /\ UNCHANGED <<claim, adm, todo, seen, exec, stopping, cond, late, phase, trouble>>

\* settleWorkloadBudget, run by whoever ended the workload, records the
\* settlement intent again if the retry loop has already carried it out.
RecordSettlement(p) ==
  LET w == proc[p].work  r == row[w] IN
  /\ proc[p].pc = "arm"
  /\ IF r.token # 0 /\ ~r.owner
     THEN /\ Write(w, [r EXCEPT !.settling = TRUE])
          /\ proc' = [proc EXCEPT ![p] = At("settle", w, r.token)]
     ELSE Return(p) /\ UNCHANGED <<row, stale>>
  /\ UNCHANGED <<claim, adm, todo, seen, exec, stopping, cond, late, phase, trouble>>

\* SettleBudgetClaim: the exact claim, once, and again only at the same cost.
SettleBudgetClaim(p) ==
  LET w == proc[p].work  c == claim[w]  cost == row[w].cost IN
  /\ proc[p].pc = "settle"
  /\ IF /\ c.token = proc[p].token
        /\ c.status = "reserved" \/ (c.status = "settled" /\ c.paid = cost)
     THEN /\ claim' = [claim EXCEPT ![w].status = "settled", ![w].paid = cost]
          /\ Step(p, "settled")
     ELSE Return(p) /\ UNCHANGED claim
  /\ UNCHANGED <<row, stale, adm, todo, seen, exec, stopping, cond, late, phase, trouble>>

\* The settlement intent is cleared, except on a rejected row.
ClearSettlement(p) ==
  LET w == proc[p].work  r == row[w] IN
  /\ proc[p].pc = "settled"
  /\ IF r.token = proc[p].token /\ r.status \in Ended \ {"rejected"}
     THEN Write(w, [r EXCEPT !.settling = FALSE])
     ELSE UNCHANGED <<row, stale>>
  /\ Return(p)
  /\ UNCHANGED <<claim, adm, todo, seen, exec, stopping, cond, late, phase, trouble>>

\* Mutant: the loop retries releases only.
RetryCleanupsOnly(w) ==
  /\ proc["loop"] = Idle /\ row[w].cleanup # 0
  /\ proc' = [proc EXCEPT !["loop"] = At("release", w, row[w].cleanup)]
  /\ UNCHANGED <<row, claim, adm, todo, seen, stale, exec, stopping, cond, late, phase,
                 trouble>>

\* retryBudgetIntents: both loops, and Start, take up the intents of the rows.
RetryBudgetIntents(w) ==
  LET r == row[w] IN
  /\ proc["loop"] = Idle
  /\ \/ /\ r.cleanup # 0 /\ r.token \in {0, r.cleanup}
        /\ proc' = [proc EXCEPT !["loop"] = At("release", w, r.cleanup)]
     \/ /\ r.settling /\ r.token # 0
        /\ proc' = [proc EXCEPT !["loop"] = At("settle", w, r.token)]
  /\ UNCHANGED <<row, claim, adm, todo, seen, stale, exec, stopping, cond, late, phase,
                 trouble>>

\* A store call of a procedure fails, or its CAS meets another writer.
StoreFails(p) ==
  /\ proc[p].pc \notin {"idle", "failed"} /\ Spend("fault")
  /\ Fail(p)
  /\ UNCHANGED <<row, claim, adm, todo, seen, stale, exec, stopping, cond, late, phase>>

BudgetStep(p) ==
  \/ RecordCleanup(p) \/ ReleaseBudgetClaim(p) \/ UnlinkClaim(p)
  \/ RecordSettlement(p) \/ SettleBudgetClaim(p) \/ ClearSettlement(p)

-----------------------------------------------------------------------------
(* The reconcile pass. *)

rest == <<exec, stopping, cond, late, phase, trouble>>

StartPass ==
  LET listed == {w \in Workloads : row[w].status \in Admissible /\ ~row[w].owner} IN
  /\ adm.pc = "idle" /\ phase = "up" /\ listed # {}
  /\ todo' = listed
  /\ seen' = [w \in Workloads |-> [token |-> row[w].token, cleanup |-> row[w].cleanup]]
  /\ adm' = [NoPass EXCEPT !.pc = "next"]
  /\ UNCHANGED <<row, claim, stale, proc, rest>>

\* tryAdmit first carries out a cleanup intent the listed row shows.
NextWorkload(w) ==
  /\ adm.pc = "next" /\ w \in todo
  /\ todo' = todo \ {w}
  /\ IF seen[w].cleanup # 0
     THEN /\ proc' = [proc EXCEPT !["pass"] = At("release", w, seen[w].cleanup)]
          /\ adm' = [adm EXCEPT !.pc = "cleaning", !.work = w]
     ELSE adm' = [adm EXCEPT !.pc = "enter", !.work = w] /\ UNCHANGED proc
  /\ UNCHANGED <<row, claim, seen, stale, rest>>

\* Then it reads the row again and goes on with what it reads, unless the
\* procedure failed or an intent is still there.
Cleaned ==
  LET w == adm.work IN
  /\ adm.pc = "cleaning" /\ proc["pass"].pc \in {"idle", "failed"}
  /\ Return("pass")
  /\ IF proc["pass"].pc = "failed" \/ row[w].cleanup # 0
     THEN adm' = [NoPass EXCEPT !.pc = "next"] /\ UNCHANGED <<seen, stale>>
     ELSE /\ seen' = [seen EXCEPT ![w] = [token |-> row[w].token, cleanup |-> 0]]
          /\ stale' = stale \ {w}
          /\ adm' = [adm EXCEPT !.pc = "enter"]
  /\ UNCHANGED <<row, claim, todo, rest>>

\* A missed deadline rejects the workload; otherwise the targets are tried.
EnterAdmission ==
  LET w == adm.work IN
  /\ adm.pc = "enter"
  /\ IF w \in late
     THEN /\ row' = IF Fresh(w) THEN [row EXCEPT ![w] = EndedAt(@, "rejected", Estimate(w))]
                                ELSE row
          /\ adm' = [NoPass EXCEPT !.pc = "next"]
     ELSE /\ adm' = [adm EXCEPT !.pc = "candidate", !.left = Candidates]
          /\ UNCHANGED row
  /\ UNCHANGED <<claim, todo, seen, stale, proc, rest>>

\* The checks that need no claim: a target that is disabled, quarantined,
\* cooling down, lacks the model or is in transition is passed over.
TryCandidate ==
  /\ adm.pc = "candidate"
  /\ IF adm.left = <<>>
     THEN adm' = [adm EXCEPT !.pc = "finish"]
     ELSE IF cond[Head(adm.left)] = "closed"
     THEN adm' = [adm EXCEPT !.left = Tail(@)]
     ELSE adm' = [adm EXCEPT !.pc = "reserve", !.token = seen[adm.work].token]
  /\ UNCHANGED <<row, claim, todo, seen, stale, proc, rest>>

\* The candidate is given up: its deferred cleanup gives back a claim, if any.
GiveUp(k) ==
  IF k # 0
  THEN /\ adm' = [adm EXCEPT !.pc = "undo", !.token = 0]
       /\ proc' = [proc EXCEPT !["pass"] = At("record", adm.work, k)]
  ELSE /\ adm' = [adm EXCEPT !.pc = "candidate", !.left = Tail(@), !.token = 0]
       /\ UNCHANGED proc

Undone ==
  /\ adm.pc = "undo" /\ proc["pass"] = Idle
  /\ adm' = [adm EXCEPT !.pc = "candidate", !.left = Tail(@)]
  /\ UNCHANGED <<row, claim, todo, seen, stale, proc, rest>>

\* newID: a token no row, claim or goroutine of this workload holds.
NewToken(w) ==
  LET held == {claim[w].token, row[w].token, row[w].cleanup, seen[w].token, seen[w].cleanup}
                \cup {proc[p].token : p \in {q \in Procs : proc[q].work = w}}
  IN CHOOSE k \in 1..Cardinality(held) + 1 :
       k \notin held /\ \A j \in 1..k - 1 : j \in held

\* ReserveAndLinkBudgetClaim: one transaction that checks the row's revision,
\* takes or confirms the claim, and links it.
Link(w, k) ==
  /\ row' = [row EXCEPT ![w].token = k]
  /\ seen' = [seen EXCEPT ![w].token = k]
  /\ adm' = [adm EXCEPT !.pc = "place", !.token = k]
  /\ UNCHANGED <<proc, stale>>

ReserveAndLinkBudgetClaim ==
  LET w == adm.work  c == claim[w]  mine == adm.token
      price == Price[Head(adm.left)]
      unlinkable == w \in stale \/ (mine # 0 /\ c.cents # price)
  IN
  /\ adm.pc = "reserve" /\ price > 0
  /\ CASE unlinkable ->
            GiveUp(mine) /\ UNCHANGED <<row, claim, seen, stale>>
       [] ~unlinkable /\ c.status \in {"reserved", "settled"} ->
            IF c.status = "reserved" /\ c.token = mine
            THEN Link(w, mine) /\ UNCHANGED claim
            ELSE GiveUp(c.token) /\ UNCHANGED <<row, claim, seen, stale>>
       [] ~unlinkable /\ c.status \notin {"reserved", "settled"} ->
            IF Committed + price > Limit
            THEN GiveUp(mine) /\ UNCHANGED <<row, claim, seen, stale>>
            ELSE LET k == IF mine # 0 THEN mine ELSE NewToken(w) IN
                 /\ claim' = [claim EXCEPT ![w] = [status |-> "reserved", token |-> k,
                                                   cents |-> price, paid |-> 0]]
                 /\ Link(w, k)
  /\ UNCHANGED <<todo, rest>>

UnpricedTarget ==
  /\ adm.pc = "reserve" /\ Price[Head(adm.left)] = 0
  /\ adm' = [adm EXCEPT !.pc = "place"]
  /\ UNCHANGED <<row, claim, todo, seen, stale, proc, rest>>

\* A target has one slot, taken by a workload here or by work of others.
HasRoom(t) ==
  cond[t] = "free" /\ \A v \in Workloads : ~(row[v].status = "running" /\ row[v].target = t)

\* Placement: a target without capacity is given up; one with capacity has
\* been leased, loaded and validated when the pass gets to the runnable CAS.
PlaceOnTarget ==
  /\ adm.pc = "place"
  /\ IF HasRoom(Head(adm.left))
     THEN adm' = [adm EXCEPT !.pc = "run"] /\ UNCHANGED proc
     ELSE GiveUp(adm.token)
  /\ UNCHANGED <<row, claim, todo, seen, stale, rest>>

\* tryPreempt instead stops a running workload of the target. A recoverable
\* victim is queued again with its claim, another is cancelled. The newcomer's
\* row is written too, and not read back.
PreemptVictim(v) ==
  LET w == adm.work IN
  /\ adm.pc = "place" /\ ~HasRoom(Head(adm.left))
  /\ w \in Urgent /\ v \notin Urgent /\ row[v].status = "running" /\ row[v].handle /\ ~row[v].owner
  /\ row[v].target = Head(adm.left) /\ proc[v] = Idle /\ Spend("preempt")
  /\ row' = [row EXCEPT ![v] = IF v \in Recoverable THEN Queued(@)
                               ELSE EndedAt(@, "cancelled", Estimate(v))]
  /\ stale' = stale \cup {v, w}
  /\ exec' = exec \ {v}
  /\ adm' = [adm EXCEPT !.pc = "undo", !.token = 0]
  /\ proc' = [proc EXCEPT !["pass"] = IF adm.token # 0 THEN At("record", w, adm.token) ELSE Idle,
                          ![v] = IF v \in Recoverable THEN Idle ELSE At("arm", v, 0)]
  /\ UNCHANGED <<claim, todo, seen, stopping, cond, late, phase>>

\* The runnable CAS. The claim belongs to the running workload from here on. A
\* pass whose CAS failed keeps a copy marked running, which matches no row.
PublishRunning ==
  LET w == adm.work IN
  /\ adm.pc = "run"
  /\ IF Fresh(w)
     THEN /\ row' = [row EXCEPT ![w].status = "running", ![w].runs = @ + 1,
                                ![w].target = Head(adm.left),
                                ![w].token = IF adm.token # 0 THEN adm.token ELSE @]
          /\ exec' = exec \cup {w}
          /\ adm' = [NoPass EXCEPT !.pc = "next"]
          /\ UNCHANGED <<proc, stale>>
     ELSE GiveUp(adm.token) /\ stale' = stale \cup {w} /\ UNCHANGED <<row, exec>>
  /\ UNCHANGED <<claim, todo, seen, stopping, cond, late, phase, trouble>>

\* No target took it: the row waits, or is rejected.
FinishAdmission ==
  LET w == adm.work IN
  /\ adm.pc = "finish"
  /\ row' = IF ~Fresh(w) THEN row
            ELSE IF w \in FailFast
            THEN [row EXCEPT ![w] = EndedAt(@, "rejected", Estimate(w))]
            ELSE [row EXCEPT ![w].status = "waiting"]
  /\ adm' = [NoPass EXCEPT !.pc = "next"]
  /\ UNCHANGED <<claim, todo, seen, stale, proc, rest>>

EndPass ==
  /\ adm.pc = "next" /\ todo = {}
  /\ adm' = NoPass /\ stale' = {}
  /\ seen' = [w \in Workloads |-> [token |-> 0, cleanup |-> 0]]
  /\ UNCHANGED <<row, claim, todo, proc, rest>>

Pass ==
  \/ StartPass \/ Cleaned \/ EnterAdmission \/ TryCandidate \/ Undone
  \/ ReserveAndLinkBudgetClaim \/ UnpricedTarget \/ PlaceOnTarget
  \/ PublishRunning \/ FinishAdmission \/ EndPass
  \/ \E w \in Workloads : NextWorkload(w) \/ PreemptVictim(w)

-----------------------------------------------------------------------------
(* Executions, cancellation and restarts. *)

env == <<claim, adm, todo, seen, cond, late, phase>>

Live(w) == w \in exec /\ row[w].status = "running" /\ ~row[w].owner /\ proc[w] = Idle

\* The backend's handle is persisted on the running row.
PublishHandle(w) ==
  /\ Live(w) /\ ~row[w].handle
  /\ Write(w, [row[w] EXCEPT !.handle = TRUE])
  /\ UNCHANGED <<env, proc, exec, stopping, trouble>>

\* The execution ends: its row is terminal, then its claim is settled.
FinishExecution(w) ==
  /\ Live(w)
  /\ \/ row[w].handle /\ \E cents \in Actual(w) : Write(w, EndedAt(row[w], "succeeded", cents))
     \/ Write(w, EndedAt(row[w], "failed", Estimate(w)))
  /\ exec' = exec \ {w}
  /\ proc' = [proc EXCEPT ![w] = At("arm", w, 0)]
  /\ UNCHANGED <<env, stopping, trouble>>

\* A provider failure, or a target changed before dispatch: the workload is
\* queued again, then its claim is given back.
RequeueExecution(w) ==
  /\ Live(w) /\ row[w].runs < trouble.runs
  /\ w \in Recoverable \/ ~row[w].handle
  /\ Write(w, Requeued(row[w]))
  /\ exec' = exec \ {w}
  /\ proc' = [proc EXCEPT ![w] = IF row[w].token # 0 THEN At("record", w, row[w].token)
                                                     ELSE Idle]
  /\ UNCHANGED <<env, stopping, trouble>>

\* The node of a local target is lost: a pass queues the workload again when
\* it may and the backend is known to be stopped, and fails it otherwise.
NodeLost(w) ==
  LET r == row[w] IN
  /\ adm.pc = "idle" /\ phase = "up" /\ Spend("change")
  /\ r.status = "running" /\ ~r.owner /\ ~Priced(w) /\ proc[w] = Idle
  /\ \/ /\ w \in Recoverable
        /\ Write(w, Requeued(r))
        /\ proc' = [proc EXCEPT ![w] = IF r.token # 0 THEN At("record", w, r.token) ELSE Idle]
     \/ /\ w \notin Recoverable \/ r.handle
        /\ Write(w, EndedAt(r, "failed", Estimate(w)))
        /\ proc' = [proc EXCEPT ![w] = At("arm", w, 0)]
  /\ exec' = exec \ {w}
  /\ UNCHANGED <<env, stopping>>

\* Cancel claims the row, stops the backend, then publishes the outcome.
ClaimCancellation(w) ==
  /\ phase = "up" /\ Spend("cancel")
  /\ row[w].status \in Waiting \cup {"running"} /\ ~row[w].owner
  /\ Write(w, [row[w] EXCEPT !.owner = TRUE])
  /\ stopping' = stopping \cup {w}
  /\ UNCHANGED <<env, proc, exec>>

PublishCancelled(w) ==
  /\ w \in stopping /\ row[w].owner /\ proc["api"] = Idle
  /\ Write(w, [EndedAt(row[w], "cancelled", Estimate(w)) EXCEPT !.owner = FALSE])
  /\ stopping' = stopping \ {w}
  /\ exec' = exec \ {w}
  /\ proc' = [proc EXCEPT !["api"] = At("arm", w, 0)]
  /\ UNCHANGED <<env, trouble>>

\* The backend could not be stopped: the claim on the row is withdrawn.
WithdrawCancellation(w) ==
  /\ w \in stopping /\ row[w].owner /\ row[w].status = "running" /\ row[w].handle
  /\ Write(w, [row[w] EXCEPT !.owner = FALSE])
  /\ stopping' = stopping \ {w}
  /\ UNCHANGED <<env, proc, exec, trouble>>

\* Another writer of a queued or running row: a new priority, progress.
Reprioritize(w) ==
  /\ Spend("touch")
  /\ adm.work = w \/ w \in todo
  /\ row[w].status \in Admissible \cup {"running"} /\ ~row[w].owner
  /\ Write(w, row[w])
  /\ UNCHANGED <<env, proc, exec, stopping>>

\* A restart forgets the pass, the goroutines and the cancellations.
Crash ==
  /\ Spend("crash")
  /\ phase' = "starting"
  /\ adm' = NoPass /\ todo' = {} /\ stale' = {}
  /\ seen' = [w \in Workloads |-> [token |-> 0, cleanup |-> 0]]
  /\ proc' = [p \in Procs |-> Idle]
  /\ exec' = {} /\ stopping' = {}
  /\ UNCHANGED <<row, claim, cond, late>>

\* Start: a running row goes back to the queue, waits for its backend to be
\* reconciled, or fails.
RecoverRow(w) ==
  LET r == row[w] IN
  /\ phase = "starting" /\ r.status = "running" /\ ~r.owner /\ proc[w] = Idle
  /\ CASE w \in Recoverable /\ ~r.handle ->
            /\ Write(w, Queued(r))
            /\ proc' = [proc EXCEPT ![w] = IF r.token # 0 THEN At("record", w, r.token) ELSE Idle]
       [] w \in Recoverable /\ r.handle ->
            /\ Write(w, [r EXCEPT !.status = "recovering"])
            /\ UNCHANGED proc
       [] w \notin Recoverable ->
            /\ Write(w, EndedAt(r, "failed", Estimate(w)))
            /\ proc' = [proc EXCEPT ![w] = At("arm", w, 0)]
  /\ UNCHANGED <<env, exec, stopping, trouble>>

Started ==
  /\ phase = "starting" /\ phase' = "up"
  /\ \A w \in Workloads : (row[w].status # "running" \/ row[w].owner) /\ proc[w] = Idle
  /\ UNCHANGED <<row, claim, adm, todo, seen, stale, proc, exec, stopping, cond, late,
                 trouble>>

\* The backend of a recovered execution is found finished, failed, or stopped.
ReconcileRecovered(w) ==
  LET r == row[w] IN
  /\ r.status = "recovering" /\ ~r.owner /\ proc[w] = Idle
  /\ \/ /\ \/ \E cents \in Actual(w) : Write(w, EndedAt(r, "succeeded", cents))
           \/ Write(w, EndedAt(r, "failed", Estimate(w)))
        /\ proc' = [proc EXCEPT ![w] = At("arm", w, 0)]
     \/ /\ Write(w, Requeued(r))
        /\ proc' = [proc EXCEPT ![w] = IF r.token # 0 THEN At("record", w, r.token) ELSE Idle]
  /\ UNCHANGED <<env, exec, stopping, trouble>>

ChangeTarget(t) ==
  /\ Spend("change")
  /\ \E c \in {"closed", "busy", "free"} \ {cond[t]} : cond' = [cond EXCEPT ![t] = c]
  /\ UNCHANGED <<row, claim, adm, todo, seen, stale, proc, exec, stopping, late, phase>>

DeadlinePasses(w) ==
  /\ Spend("late")
  /\ row[w].status \in Admissible /\ w \notin late
  /\ late' = late \cup {w}
  /\ UNCHANGED <<row, claim, adm, todo, seen, stale, proc, exec, stopping, cond, phase>>

Next ==
  \/ Pass \/ Crash \/ Started
  \/ \E p \in Procs : BudgetStep(p) \/ StoreFails(p)
  \/ \E t \in Targets : ChangeTarget(t)
  \/ \E w \in Workloads :
       \/ RetryBudgetIntents(w) \/ PublishHandle(w) \/ FinishExecution(w)
       \/ RequeueExecution(w) \/ NodeLost(w) \/ ClaimCancellation(w) \/ PublishCancelled(w)
       \/ WithdrawCancellation(w) \/ Reprioritize(w) \/ RecoverRow(w)
       \/ ReconcileRecovered(w) \/ DeadlinePasses(w)

Spec == Init /\ [][Next]_vars

\* The retry loop runs for ever and every scan visits every row: an intent that
\* stays is taken up, and a procedure the loop began goes on.
RetryFairness ==
  /\ \A w \in Workloads : SF_vars(RetryBudgetIntents(w))
  /\ WF_vars(BudgetStep("loop"))

RetrySpec == Spec /\ RetryFairness

-----------------------------------------------------------------------------
(* Properties *)

\* A workload runs on a priced target only under its own reserved claim: no
\* late cleanup of an earlier attempt can take it away.
RunningHoldsClaim ==
  \A w \in Workloads :
    row[w].status = "running" /\ Price[row[w].target] > 0
      => /\ claim[w].status = "reserved"
         /\ claim[w].token = row[w].token
         /\ row[w].cleanup = 0

\* Reserved and settled amounts stay within the principal's budget; only the
\* part of a reported cost above its own reservation may exceed it.
WithinBudget ==
  SumFunction([w \in Workloads |->
                 CASE claim[w].status = "reserved" -> claim[w].cents
                   [] claim[w].status = "settled" -> Min({claim[w].paid, claim[w].cents})
                   [] OTHER -> 0]) <= Limit

\* A workload is charged once, at one cost, and a charge is never taken back.
ChargedOnce ==
  [][\A w \in Workloads : claim[w].status = "settled" => claim'[w] = claim[w]]_vars

\* An intent is carried out: a claim that is to be settled or released does not
\* stay reserved, whatever becomes of the goroutine that wrote the intent
\* (retryBudgetIntents).
IntentsCarriedOut ==
  \A w \in Workloads :
    row[w].settling \/ row[w].cleanup # 0
      ~> claim[w].status # "reserved" \/ ~(row[w].settling \/ row[w].cleanup # 0)

=============================================================================
