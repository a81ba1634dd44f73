--------------------------- MODULE MCNodeCommands ---------------------------
(***************************************************************************)
(* Instances of NodeCommands for TLC: a load followed by an unload of one  *)
(* model, or the load alone.                                               *)
(***************************************************************************)
EXTENDS NodeCommands

MCLoads == {1}

Restarting == [commands |-> 2, drops |-> 1, restarts |-> 1, expires |-> FALSE]
Expiring == [commands |-> 2, drops |-> 0, restarts |-> 0, expires |-> TRUE]
Alone == [commands |-> 1, drops |-> 1, restarts |-> 2, expires |-> TRUE]

SafetyTroubles == {Restarting, Expiring, Alone}
=============================================================================
