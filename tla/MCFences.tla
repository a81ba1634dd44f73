------------------------------ MODULE MCFences ------------------------------
(* TLC instance of the two protocols in which the controller fences off stale *)
(* owners of an accelerator: the lease table (AcceleratorLease) and the       *)
(* checkpoint of a stream that gives its slot away (CheckpointProtocol).      *)
(* They share no step, so a behaviour runs one of them, named by part, and    *)
(* the other stands still.                                                    *)
EXTENDS AcceleratorLease, CheckpointProtocol, TLC

VARIABLE part

\* Accelerators, workloads and checkpoint operations of the lease table are
\* interchangeable.
Symmetry ==
    Permutations(Accelerators) \cup Permutations(Workloads) \cup Permutations(Operations)

\* Two failures and two crashes, or three failures and a crash, in any order.
CrashAndFaults == {[faults |-> 2, crashes |-> 2], [faults |-> 3, crashes |-> 1]}

MCInit ==
    /\ part \in {"leases", "checkpoint"}
    /\ Init /\ ProtocolInit
    /\ part # "leases" => checkpointOps = [id \in Operations |-> NoRow]
    /\ part # "checkpoint" => left.crashes = 1

MCNext ==
    /\ UNCHANGED part
    /\ \/ part = "leases" /\ Next /\ UNCHANGED protocolVars
       \/ part = "checkpoint" /\ ProtocolNext /\ UNCHANGED vars

MCSpec == MCInit /\ [][MCNext]_<<part, vars, protocolVars>>
=============================================================================
