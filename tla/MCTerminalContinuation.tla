----------------------- MODULE MCTerminalContinuation -----------------------
(* TLC instances of TerminalContinuation. *)
EXTENDS TerminalContinuation, TLC

CONSTANTS w1, w2

AllEffectsInOrder == <<"audit", "notification", "budget">>

Quiet == [placed |-> {w1}, faults |-> 0, crashes |-> 0, cancels |-> 0,
          successors |-> 1, stalls |-> FALSE]
Unreliable == [Quiet EXCEPT !.faults = 2, !.crashes = 2, !.successors = 2, !.stalls = TRUE]
Cancelled == [Quiet EXCEPT !.crashes = 1, !.cancels = 2, !.stalls = TRUE]
Shared == [Quiet EXCEPT !.placed = {w1, w2}]

SafetyLimits == {Unreliable, Cancelled, Shared}
EndingLimits == {[Quiet EXCEPT !.crashes = 1, !.cancels = 1],
                 [Quiet EXCEPT !.faults = 2, !.crashes = 1]}
=============================================================================
