------------------------- MODULE AcceleratorCustody -------------------------
(***************************************************************************)
(* What the checkpoint recovery machinery promises about one accelerator,  *)
(* with no journal in sight.  A generation restored from a checkpoint runs *)
(* on it or not; the accelerator is granted to one workload at a time, and *)
(* it changes hands, and another generation is restored on it, only when   *)
(* no restored generation is running on it.                                *)
(* CheckpointRecovery is shown to implement this specification.            *)
(***************************************************************************)
EXTENDS Integers

CONSTANTS Victim,      \* the workload whose checkpoint is restored
          Newcomer,    \* any other workload
          None,
          Generations  \* what a restore can start

VARIABLES holder,      \* workload the accelerator is granted to
          token,       \* fencing token of the newest grant
          restored     \* the restored generations that are running

vars == <<holder, token, restored>>

Init == holder = Victim /\ token = 1 /\ restored = {}

\* A new grant carries a newer token and never overlaps a restored generation.
Grant(w) ==
  /\ restored = {}
  /\ holder' = w /\ token' > token
  /\ UNCHANGED restored

Release == restored = {} /\ holder' = None /\ UNCHANGED <<token, restored>>

\* Only the holder of the accelerator restores a generation on it, one at a time.
Restore(g) == holder = Victim /\ restored = {} /\ restored' = {g} /\ UNCHANGED <<holder, token>>

Stop == restored' \in SUBSET restored /\ UNCHANGED <<holder, token>>

Next ==
  \/ Release \/ Stop
  \/ \E g \in Generations : Restore(g)
  \/ \E w \in {Victim, Newcomer} : Grant(w)

Spec == Init /\ [][Next]_vars
=============================================================================
