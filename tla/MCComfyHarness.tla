---------------------------- MODULE MCComfyHarness ----------------------------
(***************************************************************************)
(* Plans of two chunks under failing writes, failing calls, late arrivals,  *)
(* and two plans at a time.                                                 *)
(***************************************************************************)
EXTENDS ComfyHarness

Quiet == [plans |-> {"a"}, crash |-> 0, fault |-> 0, lost |-> FALSE, cancel |-> 2, yield |-> 1, comfy |-> 0,
          lag |-> FALSE]

MCTroubles ==
  {[Quiet EXCEPT !.fault = 2, !.crash = 1],
   [Quiet EXCEPT !.lost = TRUE, !.crash = 2, !.comfy = 1],
   [Quiet EXCEPT !.lag = TRUE, !.lost = TRUE, !.crash = 1],
   [Quiet EXCEPT !.plans = {"a", "b"}, !.yield = 0, !.cancel = 1],
   [Quiet EXCEPT !.plans = {"a", "b"}, !.yield = 0, !.cancel = 0, !.fault = 1, !.crash = 1]}
=============================================================================
