----------------------------- MODULE MCBudgetClaims -----------------------------
(***************************************************************************)
(* Two workloads of one principal, a priced target, a local one and a       *)
(* cheaper priced one, and a budget that holds one dear claim or two cheap. *)
(***************************************************************************)
EXTENDS BudgetClaims

MCCandidates == <<"dear", "local", "cheap">>
MCPrice == [dear |-> 2, local |-> 0, cheap |-> 1]

None == [crash |-> 0, fault |-> 0, cancel |-> 0, touch |-> 0, late |-> 0, change |-> 0,
         runs |-> 2, preempt |-> 0,
         work |-> {"w1"}, free |-> {1}, busy |-> {2, 3}]

\* One workload that meets several kinds of trouble, then two that compete for
\* one budget or one target.
MCTroubles ==
  {[None EXCEPT !.crash = 1, !.cancel = 1, !.fault = 1],
   [None EXCEPT !.crash = 1, !.cancel = 1, !.fault = 1, !.free = {3}, !.busy = {1}],
   [None EXCEPT !.late = 1, !.touch = 1, !.cancel = 1, !.busy = {}],
   [None EXCEPT !.change = 1, !.cancel = 1, !.busy = {3}, !.runs = 1],
   [None EXCEPT !.change = 1, !.free = {2, 3}, !.busy = {}],
   [None EXCEPT !.work = {"w1", "w2"}, !.busy = {}, !.runs = 1],
   [None EXCEPT !.work = {"w1", "w2"}, !.free = {2}, !.busy = {1}, !.preempt = 1],
   [None EXCEPT !.work = {"w1", "w2"}, !.free = {3}, !.busy = {}, !.preempt = 1, !.runs = 0]}

=============================================================================
