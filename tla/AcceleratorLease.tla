--------------------------- MODULE AcceleratorLease ---------------------------
(***************************************************************************)
(* The fenced accelerator leases of the workload store, together with the  *)
(* two kinds of durable row that keep an accelerator in custody:           *)
(*                                                                         *)
(*   - checkpoint operations, whose cleanup columns say which physical     *)
(*     generation (fence) still has to be stopped and released;            *)
(*   - displacement operations, which own the accelerator from the moment  *)
(*     they are planned until they complete.                               *)
(*                                                                         *)
(* Every operation of the store runs under one mutex (memory) or in one    *)
(* transaction that locks the fence row (PostgreSQL), so each is one       *)
(* atomic action.  Callers are arbitrary: any credential that was ever     *)
(* granted may be presented again at any time, by a holder that is late,   *)
(* retrying, or already replaced.  A call that the store refuses leaves    *)
(* the tables alone and is not an action.                                  *)
(***************************************************************************)
EXTENDS Integers, FiniteSets

CONSTANTS
    Accelerators,   \* accelerator ids, the virtual/<target> ones included
    Workloads,      \* lease owners
    Operations,     \* ids of checkpoint operations
    NoLease,        \* no row in the lease table
    NoRow,          \* no row in an operation table
    MaxFence        \* bound: highest fencing token the model issues

ASSUME MaxFenceAssumption == MaxFence \in Nat \ {0}
ASSUME NoLeaseAssumption == NoLease \notin [owner : Workloads, fence : 1 .. MaxFence, live : BOOLEAN]

VARIABLES
    leases,         \* accelerator -> its lease row; live is ExpiresAt.After(now)
    leaseFences,    \* accelerator -> the last token issued
    granted,        \* the credentials handed out to callers so far
    checkpointOps,  \* operation id -> its cleanup custody columns
    displacementOps \* accelerator -> its latest displacement operation

vars == <<leases, leaseFences, granted, checkpointOps, displacementOps>>

Fences == 1 .. MaxFence

Lease == [owner : Workloads, fence : Fences, live : BOOLEAN]

Credential == [acc : Accelerators, owner : Workloads, fence : Fences]

\* CleanupState: the values validateLLMCheckpointCleanup accepts.
CleanupStates == {"armed", "owned", "pending", "failed", "stopped", "confirmed"}

CheckpointRow == [workload : Workloads, acc : Accelerators,
                  state : CleanupStates, fence : Fences]

DisplacementRow == [victim : Workloads, fence : Fences, completed : BOOLEAN]

\* displacementRecordRetainsCustody, for some row of the accelerator.
DisplacementRetainsCustody(a) ==
    displacementOps[a] # NoRow /\ ~displacementOps[a].completed

\* A checkpoint row whose physical generation is not yet known to be gone.
CleanupUnresolved(o) ==
    checkpointOps[o] # NoRow /\ checkpointOps[o].state # "confirmed"

HoldsCleanupCustody(o, a) ==
    CleanupUnresolved(o) /\ checkpointOps[o].acc = a

LeaseLive(a) == leases[a] # NoLease /\ leases[a].live

\* The exact armed row that a recovery acquisition may name.
IsRecoveryRow(o, a, w) ==
    /\ HoldsCleanupCustody(o, a)
    /\ checkpointOps[o].state = "armed"
    /\ checkpointOps[o].workload = w

-----------------------------------------------------------------------------
\* A controller may start on a database whose fence counters are behind the
\* fence of a checkpoint row that is still armed.
Init ==
    /\ leases = [a \in Accelerators |-> NoLease]
    /\ leaseFences = [a \in Accelerators |-> 0]
    /\ granted = {}
    /\ checkpointOps \in [Operations -> {NoRow} \cup
                              {r \in CheckpointRow : r.state = "armed"}]
    /\ displacementOps = [a \in Accelerators |-> NoRow]

\* Issue the next token above floor to w and install its lease.
IssueLease(a, w, floor) ==
    LET last == IF leaseFences[a] < floor THEN floor ELSE leaseFences[a]
        token == last + 1
    IN  /\ token <= MaxFence
        /\ leaseFences' = [leaseFences EXCEPT ![a] = token]
        /\ leases' = [leases EXCEPT ![a] = [owner |-> w, fence |-> token, live |-> TRUE]]
        /\ granted' = granted \cup {[acc |-> a, owner |-> w, fence |-> token]}

AcquireAcceleratorLease(a, w) ==
    /\ ~DisplacementRetainsCustody(a)
    /\ \A o \in Operations : ~HoldsCleanupCustody(o, a)
    /\ ~LeaseLive(a)
    /\ IssueLease(a, w, 0)
    /\ UNCHANGED <<checkpointOps, displacementOps>>

\* The only exception to the cleanup fence.  The row moves to pending with the
\* new fence under the same lock as the lease allocation.
AcquireAcceleratorLeaseForCheckpointRecovery(a, w, o) ==
    /\ ~DisplacementRetainsCustody(a)
    /\ IsRecoveryRow(o, a, w)
    /\ \A p \in Operations \ {o} : ~HoldsCleanupCustody(p, a)
    /\ ~LeaseLive(a)
    /\ IssueLease(a, w, checkpointOps[o].fence)
    /\ checkpointOps' = [checkpointOps EXCEPT ![o].state = "pending",
                                              ![o].fence = leaseFences'[a]]
    /\ UNCHANGED displacementOps

\* Mutant of Matches: the owner is compared, its fencing token is not.
MatchesOwner(c) ==
    /\ leases[c.acc] # NoLease
    /\ leases[c.acc].owner = c.owner

\* The row of the lease table is exactly the credential c.
Matches(c) ==
    /\ leases[c.acc] # NoLease
    /\ leases[c.acc].owner = c.owner
    /\ leases[c.acc].fence = c.fence

\* Renewal looks only at the exact tuple: an expired lease that nobody has
\* taken over yet is brought back to life.
RenewAcceleratorLease(c) ==
    /\ Matches(c)
    /\ leases' = [leases EXCEPT ![c.acc].live = TRUE]
    /\ UNCHANGED <<leaseFences, granted, checkpointOps, displacementOps>>

ReleaseAcceleratorLease(c) ==
    /\ Matches(c)
    /\ leases' = [leases EXCEPT ![c.acc] = NoLease]
    /\ UNCHANGED <<leaseFences, granted, checkpointOps, displacementOps>>

\* The clock passes ExpiresAt.
LeaseExpires(a) ==
    /\ LeaseLive(a)
    /\ leases' = [leases EXCEPT ![a].live = FALSE]
    /\ UNCHANGED <<leaseFences, granted, checkpointOps, displacementOps>>

\* Journal rows are created armed, for a lease the caller was granted.
CreateLLMCheckpointOperation(o, c) ==
    /\ checkpointOps[o] = NoRow
    /\ checkpointOps' = [checkpointOps EXCEPT ![o] =
           [workload |-> c.owner, acc |-> c.acc, state |-> "armed", fence |-> c.fence]]
    /\ UNCHANGED <<leases, leaseFences, granted, displacementOps>>

\* A compare-and-swap on the row's revision: it succeeds only against the row
\* it read.  The caller rewrites the state and the lease tuple; the workload is
\* immutable identity.
UpdateLLMCheckpointOperation(o, s, c) ==
    /\ checkpointOps[o] # NoRow
    /\ checkpointOps[o].workload = c.owner
    /\ checkpointOps' = [checkpointOps EXCEPT ![o].state = s,
                                              ![o].acc = c.acc, ![o].fence = c.fence]
    /\ UNCHANGED <<leases, leaseFences, granted, displacementOps>>

\* A displacement may only be planned against the victim's own live lease.
CreateLLMDisplacementOperation(c) ==
    /\ ~DisplacementRetainsCustody(c.acc)
    /\ Matches(c)
    /\ LeaseLive(c.acc)
    /\ displacementOps' = [displacementOps EXCEPT ![c.acc] =
           [victim |-> c.owner, fence |-> c.fence, completed |-> FALSE]]
    /\ UNCHANGED <<leases, leaseFences, granted, checkpointOps>>

\* The update that takes the journal to its last phase; the phases before it
\* keep custody and are the subject of LLMDisplacement.
CompleteLLMDisplacementOperation(a) ==
    /\ DisplacementRetainsCustody(a)
    /\ displacementOps' = [displacementOps EXCEPT ![a].completed = TRUE]
    /\ UNCHANGED <<leases, leaseFences, granted, checkpointOps>>

Next ==
    \/ \E a \in Accelerators, w \in Workloads : AcquireAcceleratorLease(a, w)
    \/ \E a \in Accelerators, w \in Workloads, o \in Operations :
           AcquireAcceleratorLeaseForCheckpointRecovery(a, w, o)
    \/ \E c \in granted : RenewAcceleratorLease(c)
    \/ \E c \in granted : ReleaseAcceleratorLease(c)
    \/ \E a \in Accelerators : LeaseExpires(a)
    \/ \E o \in Operations, c \in granted : CreateLLMCheckpointOperation(o, c)
    \/ \E o \in Operations, s \in CleanupStates, c \in granted :
           UpdateLLMCheckpointOperation(o, s, c)
    \/ \E c \in granted : CreateLLMDisplacementOperation(c)
    \/ \E a \in Accelerators : CompleteLLMDisplacementOperation(a)

Spec == Init /\ [][Next]_vars

-----------------------------------------------------------------------------
TypeOK ==
    /\ leases \in [Accelerators -> Lease \cup {NoLease}]
    /\ leaseFences \in [Accelerators -> 0 .. MaxFence]
    /\ granted \subseteq Credential
    /\ checkpointOps \in [Operations -> CheckpointRow \cup {NoRow}]
    /\ displacementOps \in [Accelerators -> DisplacementRow \cup {NoRow}]

\* A fencing token identifies one grant: acquireAcceleratorLease never hands
\* the same token of an accelerator to two callers, however leases expire, are
\* released, or are re-acquired for checkpoint recovery.
TokensUnique ==
    \A c, d \in granted : c.acc = d.acc /\ c.fence = d.fence => c = d

\* The lease in the table is the newest grant of its accelerator, so every
\* other credential is below it and a node that compares tokens rejects it.
CurrentLeaseIsNewest ==
    \A a \in Accelerators : leases[a] # NoLease =>
        /\ leases[a].fence = leaseFences[a]
        /\ \A c \in granted : c.acc = a => c.fence <= leases[a].fence

\* The strengthening that makes the invariants below inductive: every
\* credential handed out is at most the counter of its accelerator, and the row
\* of the lease table is one of them.
GrantsBelowCounter ==
    /\ \A c \in granted : c.fence <= leaseFences[c.acc]
    /\ \A a \in Accelerators : leases[a] # NoLease =>
           [acc |-> a, owner |-> leases[a].owner, fence |-> leases[a].fence] \in granted

\* From the moment a displacement is planned until it completes, no token is
\* issued on its accelerator: its victim's token stays the newest one, although
\* the lease may meanwhile expire or be released, and although a checkpoint
\* recovery may ask for the accelerator.
DisplacementKeepsNewestFence ==
    \A a \in Accelerators :
        DisplacementRetainsCustody(a) => leaseFences[a] = displacementOps[a].fence

\* A stale execution cannot renew or release a successor's lease: a credential
\* below the newest token is never the one a renewal or a release acts for, even
\* when the successor is the same workload.  A row replaced by a successor had
\* expired, and the successor's token is higher.
StaleCredentialIsPowerless ==
    [][/\ \A c \in granted : c.fence < leaseFences[c.acc] =>
              ~RenewAcceleratorLease(c) /\ ~ReleaseAcceleratorLease(c)
       /\ \A a \in Accelerators :
              /\ leases[a] # NoLease /\ leases'[a] # NoLease
              /\ leases'[a].fence # leases[a].fence
              => ~leases[a].live /\ leases'[a].fence > leases[a].fence]_vars

\* A token drawn while a checkpoint row keeps the accelerator in custody is
\* drawn for that row, above the physical fence it recorded, and recorded in it
\* by the same step: there is no instant at which a crash leaves the new
\* generation without a journal row.
CustodyTokenIsJournalled ==
    [][\A a \in Accelerators, o \in Operations :
          leaseFences'[a] # leaseFences[a] /\ HoldsCleanupCustody(o, a) =>
              /\ checkpointOps'[o].state = "pending"
              /\ checkpointOps'[o].fence = leaseFences'[a]
              /\ leaseFences'[a] > checkpointOps[o].fence
              /\ leases'[a].owner = checkpointOps[o].workload]_vars

=============================================================================
