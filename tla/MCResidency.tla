----------------------------- MODULE MCResidency -----------------------------
(***************************************************************************)
(* TLC instance of Residency: a request that loads the model and one that   *)
(* unloads it (its rollback reloads), under small budgets of trouble.       *)
(***************************************************************************)
EXTENDS Residency

MCToTier == [load |-> "hot", unload |-> "cold"]

Calm == [keys |-> Keys, crash |-> 0, lost |-> 0, wrong |-> 0, death |-> 0,
         lease |-> 0, offline |-> 0, route |-> 0, replay |-> 0]

\* Both requests with a restart, with a lost answer, with a wrong answer, and with
\* a replay; the load alone with the troubles that meet in the adapter.
MCLimits ==
  {[Calm EXCEPT !.crash = 1, !.lost = 1],
   [Calm EXCEPT !.lost = 1],
   [Calm EXCEPT !.wrong = 1],
   [Calm EXCEPT !.replay = 1],
   [Calm EXCEPT !.keys = {"load"}, !.crash = 1, !.wrong = 2, !.lost = 1],
   [Calm EXCEPT !.keys = {"load"}, !.route = 1, !.lost = 1],
   [Calm EXCEPT !.keys = {"load"}, !.lease = 1, !.death = 1, !.offline = 1]}

=============================================================================
