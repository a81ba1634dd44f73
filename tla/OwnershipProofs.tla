--------------------------- MODULE OwnershipProofs ---------------------------
(***************************************************************************)
(* Who owns what, in every instance.  The lease store: one holder of an     *)
(* accelerator under the newest token, for any number of accelerators,      *)
(* workloads and operations.  The checkpoint bundles of a node: the         *)
(* snapshot a workload may still resume from is its own to give up, for any *)
(* number of owners, workloads, quotas, failing writes and kills.           *)
(***************************************************************************)
EXTENDS AcceleratorLease, CheckpointOwners, TLAPS

----------------------------------------------------------------------------
(* The lease store. *)

\* The inductive invariant.  TokensUnique alone is not inductive: that the next
\* token is new needs every old one to be at most the counter.
IInv ==
    /\ TypeOK
    /\ GrantsBelowCounter
    /\ TokensUnique
    /\ CurrentLeaseIsNewest
    /\ DisplacementKeepsNewestFence

\* Issuing a lease for a workload keeps every fact about tokens, whatever floor
\* the recovery row asks for, provided no displacement owns the accelerator.
LEMMA IssueLeasePreserves ==
    ASSUME IInv, NEW a \in Accelerators, NEW w \in Workloads, NEW floor \in 0 .. MaxFence,
           IssueLease(a, w, floor),
           ~DisplacementRetainsCustody(a), displacementOps' = displacementOps
    PROVE  /\ leases' \in [Accelerators -> Lease \cup {NoLease}]
           /\ leaseFences' \in [Accelerators -> 0 .. MaxFence]
           /\ leaseFences'[a] \in Fences
           /\ leaseFences'[a] > floor
           /\ granted' \subseteq Credential
           /\ GrantsBelowCounter'
           /\ TokensUnique'
           /\ CurrentLeaseIsNewest'
           /\ DisplacementKeepsNewestFence'
<1> DEFINE last == IF leaseFences[a] < floor THEN floor ELSE leaseFences[a]
           token == last + 1
           row == [owner |-> w, fence |-> token, live |-> TRUE]
           cred == [acc |-> a, owner |-> w, fence |-> token]
<1>1. /\ token <= MaxFence
      /\ leaseFences' = [leaseFences EXCEPT ![a] = token]
      /\ leases' = [leases EXCEPT ![a] = row]
      /\ granted' = granted \cup {cred}
  BY DEF IssueLease
<1>2. /\ token \in Fences
      /\ token > leaseFences[a]
      /\ token > floor
  BY <1>1, MaxFenceAssumption DEF IInv, TypeOK, Fences
<1>3. row \in Lease /\ cred \in Credential
  BY <1>2 DEF Lease, Credential
<1>4. /\ leases' \in [Accelerators -> Lease \cup {NoLease}]
      /\ leaseFences' \in [Accelerators -> 0 .. MaxFence]
      /\ granted' \subseteq Credential
      /\ leaseFences'[a] = token
      /\ leases'[a] = row
      /\ \A b \in Accelerators \ {a} : leaseFences'[b] = leaseFences[b] /\ leases'[b] = leases[b]
  BY <1>1, <1>2, <1>3 DEF IInv, TypeOK, Fences
<1> HIDE DEF last, token
<1>5. GrantsBelowCounter'
  <2>1. \A c \in granted' : c.fence <= leaseFences'[c.acc]
    BY <1>1, <1>2, <1>4 DEF IInv, TypeOK, GrantsBelowCounter, Credential, Fences
  <2>2. ASSUME NEW b \in Accelerators, leases'[b] # NoLease
        PROVE  [acc |-> b, owner |-> leases'[b].owner, fence |-> leases'[b].fence] \in granted'
    <3>1. CASE b = a
      BY <1>1, <1>4, <3>1
    <3>2. CASE b # a
      BY <1>1, <1>4, <2>2, <3>2 DEF IInv, GrantsBelowCounter
    <3> QED BY <3>1, <3>2
  <2> QED BY <2>1, <2>2 DEF GrantsBelowCounter
<1>6. TokensUnique'
  BY <1>1, <1>2 DEF IInv, TypeOK, TokensUnique, GrantsBelowCounter, Credential, Fences
<1>7. CurrentLeaseIsNewest'
  <2> SUFFICES ASSUME NEW b \in Accelerators, leases'[b] # NoLease
               PROVE  /\ leases'[b].fence = leaseFences'[b]
                      /\ \A c \in granted' : c.acc = b => c.fence <= leases'[b].fence
    BY DEF CurrentLeaseIsNewest
  <2>1. leases'[b].fence = leaseFences'[b]
    BY <1>4 DEF IInv, CurrentLeaseIsNewest
  <2> QED BY <1>5, <2>1 DEF GrantsBelowCounter
<1>8. DisplacementKeepsNewestFence'
  BY <1>4 DEF IInv, DisplacementKeepsNewestFence, DisplacementRetainsCustody
<1> QED BY <1>2, <1>4, <1>5, <1>6, <1>7, <1>8

LEMMA InitIInv == Init => IInv
  BY MaxFenceAssumption
  DEF Init, IInv, TypeOK, GrantsBelowCounter, TokensUnique, CurrentLeaseIsNewest,
      DisplacementKeepsNewestFence, DisplacementRetainsCustody

\* One step per action; only the acquisitions touch the tokens.
LEMMA NextIInv == IInv /\ [Next]_vars => IInv'
<1> SUFFICES ASSUME IInv, [Next]_vars PROVE IInv'
  OBVIOUS
<1> USE DEF IInv
<1>1. ASSUME NEW a \in Accelerators, NEW w \in Workloads, AcquireAcceleratorLease(a, w)
      PROVE  IInv'
  <2>1. /\ IssueLease(a, w, 0)
        /\ ~DisplacementRetainsCustody(a)
        /\ UNCHANGED <<checkpointOps, displacementOps>>
    BY <1>1 DEF AcquireAcceleratorLease
  <2>2. 0 \in 0 .. MaxFence
    BY MaxFenceAssumption
  <2>3. TypeOK'
    BY <2>1, <2>2, IssueLeasePreserves DEF TypeOK
  <2> QED BY <2>1, <2>2, <2>3, IssueLeasePreserves
<1>2. ASSUME NEW a \in Accelerators, NEW w \in Workloads, NEW o \in Operations,
             AcquireAcceleratorLeaseForCheckpointRecovery(a, w, o)
      PROVE  IInv'
  <2>1. /\ IssueLease(a, w, checkpointOps[o].fence)
        /\ ~DisplacementRetainsCustody(a)
        /\ checkpointOps[o] \in CheckpointRow
        /\ checkpointOps' = [checkpointOps EXCEPT ![o].state = "pending",
                                                  ![o].fence = leaseFences'[a]]
        /\ displacementOps' = displacementOps
    BY <1>2 DEF AcquireAcceleratorLeaseForCheckpointRecovery, IsRecoveryRow,
                HoldsCleanupCustody, CleanupUnresolved, TypeOK
  <2>2. checkpointOps[o].fence \in 0 .. MaxFence
    BY <2>1 DEF CheckpointRow, Fences
  <2>3. leaseFences'[a] \in Fences
    BY <2>1, <2>2, IssueLeasePreserves
  <2>4. checkpointOps' \in [Operations -> CheckpointRow \cup {NoRow}]
    BY <2>1, <2>3, Zenon DEF TypeOK, CheckpointRow, CleanupStates
  <2>5. TypeOK'
    BY <2>1, <2>2, <2>4, IssueLeasePreserves DEF TypeOK
  <2> QED BY <2>1, <2>2, <2>5, IssueLeasePreserves
<1>3. ASSUME NEW c \in granted, RenewAcceleratorLease(c)
      PROVE  IInv'
  <2>1. c \in Credential /\ leases[c.acc] \in Lease
    BY <1>3 DEF RenewAcceleratorLease, Matches, TypeOK, Credential
  <2>2. /\ leases' = [leases EXCEPT ![c.acc].live = TRUE]
        /\ UNCHANGED <<leaseFences, granted, checkpointOps, displacementOps>>
    BY <1>3 DEF RenewAcceleratorLease
  <2>3. TypeOK'
    BY <2>1, <2>2, Zenon DEF TypeOK, Lease, Credential
  <2>4. \A a \in Accelerators : leases'[a] # NoLease =>
           leases[a] # NoLease /\ leases'[a].owner = leases[a].owner
                              /\ leases'[a].fence = leases[a].fence
    BY <2>1, <2>2, <1>3 DEF TypeOK, Lease, Credential, RenewAcceleratorLease, Matches
  <2> QED BY <2>2, <2>3, <2>4
          DEF GrantsBelowCounter, TokensUnique, CurrentLeaseIsNewest,
              DisplacementKeepsNewestFence, DisplacementRetainsCustody
<1>4. ASSUME NEW c \in granted, ReleaseAcceleratorLease(c)
      PROVE  IInv'
  <2>1. /\ leases' = [leases EXCEPT ![c.acc] = NoLease]
        /\ UNCHANGED <<leaseFences, granted, checkpointOps, displacementOps>>
        /\ c.acc \in Accelerators
    BY <1>4 DEF ReleaseAcceleratorLease, TypeOK, Credential
  <2> QED BY <2>1
          DEF TypeOK, GrantsBelowCounter, TokensUnique, CurrentLeaseIsNewest,
              DisplacementKeepsNewestFence, DisplacementRetainsCustody
<1>5. ASSUME NEW a \in Accelerators, LeaseExpires(a)
      PROVE  IInv'
  <2>1. leases[a] \in Lease
    BY <1>5 DEF LeaseExpires, LeaseLive, TypeOK
  <2>2. /\ leases' = [leases EXCEPT ![a].live = FALSE]
        /\ UNCHANGED <<leaseFences, granted, checkpointOps, displacementOps>>
    BY <1>5 DEF LeaseExpires
  <2>3. TypeOK'
    BY <2>1, <2>2, Zenon DEF TypeOK, Lease
  <2>4. \A b \in Accelerators : leases'[b] # NoLease =>
           leases[b] # NoLease /\ leases'[b].owner = leases[b].owner
                              /\ leases'[b].fence = leases[b].fence
    BY <2>1, <2>2, <1>5 DEF TypeOK, Lease, LeaseExpires, LeaseLive
  <2> QED BY <2>2, <2>3, <2>4
          DEF GrantsBelowCounter, TokensUnique, CurrentLeaseIsNewest,
              DisplacementKeepsNewestFence, DisplacementRetainsCustody
<1>6. ASSUME NEW o \in Operations, NEW c \in granted, CreateLLMCheckpointOperation(o, c)
      PROVE  IInv'
  BY <1>6 DEF CreateLLMCheckpointOperation, TypeOK, Credential, CheckpointRow, CleanupStates,
              GrantsBelowCounter, TokensUnique, CurrentLeaseIsNewest,
              DisplacementKeepsNewestFence, DisplacementRetainsCustody
<1>7. ASSUME NEW o \in Operations, NEW s \in CleanupStates, NEW c \in granted,
             UpdateLLMCheckpointOperation(o, s, c)
      PROVE  IInv'
  <2>1. checkpointOps[o] \in CheckpointRow /\ c \in Credential
    BY <1>7 DEF UpdateLLMCheckpointOperation, TypeOK
  <2>2. checkpointOps' \in [Operations -> CheckpointRow \cup {NoRow}]
    BY <1>7, <2>1, Zenon DEF UpdateLLMCheckpointOperation, TypeOK, Credential, CheckpointRow
  <2> QED BY <1>7, <2>2
          DEF UpdateLLMCheckpointOperation, TypeOK, GrantsBelowCounter, TokensUnique,
              CurrentLeaseIsNewest, DisplacementKeepsNewestFence, DisplacementRetainsCustody
<1>8. ASSUME NEW c \in granted, CreateLLMDisplacementOperation(c)
      PROVE  IInv'
  <2>1. /\ c \in Credential
        /\ c.fence = leaseFences[c.acc]
        /\ displacementOps' = [displacementOps EXCEPT ![c.acc] =
              [victim |-> c.owner, fence |-> c.fence, completed |-> FALSE]]
        /\ UNCHANGED <<leases, leaseFences, granted, checkpointOps>>
    BY <1>8 DEF CreateLLMDisplacementOperation, Matches, TypeOK, Credential, CurrentLeaseIsNewest
  <2>2. TypeOK'
    BY <2>1 DEF TypeOK, Credential, DisplacementRow
  <2> QED BY <2>1, <2>2
          DEF TypeOK, Credential, GrantsBelowCounter, TokensUnique, CurrentLeaseIsNewest,
              DisplacementKeepsNewestFence, DisplacementRetainsCustody
<1>9. ASSUME NEW a \in Accelerators, CompleteLLMDisplacementOperation(a)
      PROVE  IInv'
  <2>1. displacementOps[a] \in DisplacementRow
    BY <1>9 DEF CompleteLLMDisplacementOperation, DisplacementRetainsCustody, TypeOK
  <2>2. TypeOK'
    BY <1>9, <2>1, Zenon DEF CompleteLLMDisplacementOperation, TypeOK, DisplacementRow
  <2> QED BY <1>9, <2>1, <2>2
          DEF CompleteLLMDisplacementOperation, TypeOK, DisplacementRow, GrantsBelowCounter,
              TokensUnique, CurrentLeaseIsNewest, DisplacementKeepsNewestFence,
              DisplacementRetainsCustody
<1>10. CASE UNCHANGED vars
  BY <1>10 DEF vars, TypeOK, GrantsBelowCounter, TokensUnique, CurrentLeaseIsNewest,
               DisplacementKeepsNewestFence, DisplacementRetainsCustody
<1> QED
  BY <1>1, <1>2, <1>3, <1>4, <1>5, <1>6, <1>7, <1>8, <1>9, <1>10 DEF Next

LEMMA SpecIInv == Spec => []IInv
  BY InitIInv, NextIInv, PTL DEF Spec

\* Type correctness of the lease, checkpoint and displacement tables.
THEOREM TypeCorrect == Spec => []TypeOK
  BY SpecIInv, PTL DEF IInv

\* No fencing token of an accelerator is ever granted twice.
THEOREM TokenUniqueness == Spec => []TokensUnique
  BY SpecIInv, PTL DEF IInv

\* The row of the lease table carries the newest token of its accelerator.
THEOREM LeaseIsNewest == Spec => []CurrentLeaseIsNewest
  BY SpecIInv, PTL DEF IInv

\* No token is issued under an unsettled displacement.
THEOREM DisplacementFence == Spec => []DisplacementKeepsNewestFence
  BY SpecIInv, PTL DEF IInv

\* A replaced execution can neither renew nor release its successor's lease,
\* and a successor only ever replaces an expired row.
THEOREM StalePowerless == Spec => StaleCredentialIsPowerless
<1> DEFINE Powerless == \A c \in granted : c.fence < leaseFences[c.acc] =>
                            ~RenewAcceleratorLease(c) /\ ~ReleaseAcceleratorLease(c)
           Replaces == \A a \in Accelerators :
                            /\ leases[a] # NoLease /\ leases'[a] # NoLease
                            /\ leases'[a].fence # leases[a].fence
                            => ~leases[a].live /\ leases'[a].fence > leases[a].fence
<1>1. IInv => Powerless
  BY DEF IInv, TypeOK, CurrentLeaseIsNewest, RenewAcceleratorLease, ReleaseAcceleratorLease,
         Matches, Credential, Fences, Lease
<1>2. IInv /\ [Next]_vars => Replaces
  <2> SUFFICES ASSUME IInv, [Next]_vars, NEW a \in Accelerators,
                      leases[a] # NoLease, leases'[a] # NoLease,
                      leases'[a].fence # leases[a].fence
               PROVE  ~leases[a].live /\ leases'[a].fence > leases[a].fence
    OBVIOUS
  <2> USE DEF IInv
  <2>0. leases[a] \in Lease /\ leases \in [Accelerators -> Lease \cup {NoLease}]
    BY DEF TypeOK
  <2>1. ASSUME NEW b \in Accelerators, NEW w \in Workloads, NEW f \in 0 .. MaxFence,
               ~LeaseLive(b), IssueLease(b, w, f)
        PROVE  ~leases[a].live /\ leases'[a].fence > leases[a].fence
    BY <2>0, <2>1 DEF IssueLease, LeaseLive, TypeOK, CurrentLeaseIsNewest
  <2>2. ASSUME NEW b \in Accelerators, NEW w \in Workloads, AcquireAcceleratorLease(b, w)
        PROVE  ~leases[a].live /\ leases'[a].fence > leases[a].fence
    <3>1. 0 \in 0 .. MaxFence
      BY MaxFenceAssumption
    <3> QED BY <2>1, <2>2, <3>1 DEF AcquireAcceleratorLease
  <2>3. ASSUME NEW b \in Accelerators, NEW w \in Workloads, NEW o \in Operations,
               AcquireAcceleratorLeaseForCheckpointRecovery(b, w, o)
        PROVE  ~leases[a].live /\ leases'[a].fence > leases[a].fence
    <3>1. checkpointOps[o].fence \in 0 .. MaxFence
      BY <2>3 DEF AcquireAcceleratorLeaseForCheckpointRecovery, IsRecoveryRow, CheckpointRow,
                  HoldsCleanupCustody, CleanupUnresolved, TypeOK, Fences
    <3> QED BY <2>1, <2>3, <3>1 DEF AcquireAcceleratorLeaseForCheckpointRecovery
  <2>4. ASSUME NEW c \in granted, RenewAcceleratorLease(c) \/ ReleaseAcceleratorLease(c)
        PROVE  FALSE
    BY <2>0, <2>4 DEF RenewAcceleratorLease, ReleaseAcceleratorLease, TypeOK, Credential, Lease
  <2>5. ASSUME NEW b \in Accelerators, LeaseExpires(b)
        PROVE  FALSE
    BY <2>0, <2>5 DEF LeaseExpires, TypeOK, Lease
  <2>6. ~UNCHANGED leases
    OBVIOUS
  <2> QED
    BY <2>2, <2>3, <2>4, <2>5, <2>6, Zenon
    DEF Next, vars, CreateLLMCheckpointOperation, UpdateLLMCheckpointOperation,
        CreateLLMDisplacementOperation, CompleteLLMDisplacementOperation
<1>3. IInv /\ [Next]_vars => [Powerless /\ Replaces]_vars
  BY <1>1, <1>2
<1> QED
  BY <1>3, SpecIInv, PTL DEF Spec, StaleCredentialIsPowerless

\* Only a recovery acquisition that names the row draws a token on an
\* accelerator in cleanup custody, and the row records that token at once.
THEOREM CustodyJournalled == Spec => CustodyTokenIsJournalled
<1> DEFINE Journalled(a, o) == /\ checkpointOps'[o].state = "pending"
                               /\ checkpointOps'[o].fence = leaseFences'[a]
                               /\ leaseFences'[a] > checkpointOps[o].fence
                               /\ leases'[a].owner = checkpointOps[o].workload
           Custody == \A a \in Accelerators, o \in Operations :
                          leaseFences'[a] # leaseFences[a] /\ HoldsCleanupCustody(o, a)
                              => Journalled(a, o)
<1>1. IInv /\ [Next]_vars => Custody
  <2> SUFFICES ASSUME IInv, [Next]_vars, NEW a \in Accelerators, NEW o \in Operations,
                      leaseFences'[a] # leaseFences[a], HoldsCleanupCustody(o, a)
               PROVE  Journalled(a, o)
    OBVIOUS
  <2> USE DEF IInv
  <2>1. ASSUME NEW b \in Accelerators, NEW w \in Workloads, AcquireAcceleratorLease(b, w)
        PROVE  FALSE
    BY <2>1 DEF AcquireAcceleratorLease, IssueLease, TypeOK
  <2>2. ASSUME NEW b \in Accelerators, NEW w \in Workloads, NEW p \in Operations,
               AcquireAcceleratorLeaseForCheckpointRecovery(b, w, p)
        PROVE  Journalled(a, o)
    <3>1. /\ IssueLease(b, w, checkpointOps[p].fence)
          /\ IsRecoveryRow(p, b, w)
          /\ ~DisplacementRetainsCustody(b)
          /\ displacementOps' = displacementOps
          /\ \A q \in Operations \ {p} : ~HoldsCleanupCustody(q, b)
          /\ checkpointOps' = [checkpointOps EXCEPT ![p].state = "pending",
                                                    ![p].fence = leaseFences'[b]]
      BY <2>2 DEF AcquireAcceleratorLeaseForCheckpointRecovery
    <3>2. b = a
      BY <3>1 DEF IssueLease, TypeOK
    <3>3. p = o
      BY <3>1, <3>2
    <3>4. checkpointOps[o] \in CheckpointRow
      BY DEF HoldsCleanupCustody, CleanupUnresolved, TypeOK
    <3>5. checkpointOps'[o].state = "pending" /\ checkpointOps'[o].fence = leaseFences'[a]
      BY <3>1, <3>2, <3>3, <3>4 DEF TypeOK, CheckpointRow
    <3>6. checkpointOps[o].fence \in 0 .. MaxFence
      BY <3>4 DEF CheckpointRow, Fences
    <3>7. leaseFences'[a] > checkpointOps[o].fence
      BY <3>1, <3>2, <3>3, <3>6, IssueLeasePreserves
    <3>8. leases'[a].owner = checkpointOps[o].workload
      BY <3>1, <3>2, <3>3 DEF IssueLease, IsRecoveryRow, TypeOK
    <3> QED BY <3>5, <3>7, <3>8
  <2>3. ~UNCHANGED leaseFences
    OBVIOUS
  <2> QED
    BY <2>1, <2>2, <2>3, Zenon
    DEF Next, vars, RenewAcceleratorLease, ReleaseAcceleratorLease, LeaseExpires,
        CreateLLMCheckpointOperation, UpdateLLMCheckpointOperation,
        CreateLLMDisplacementOperation, CompleteLLMDisplacementOperation
<1>2. IInv /\ [Next]_vars => [Custody]_vars
  BY <1>1
<1> QED
  BY <1>2, SpecIInv, PTL DEF Spec, CustodyTokenIsJournalled

----------------------------------------------------------------------------
(* The snapshots: no command but the workload's own touches what it keeps. *)

\* How many of the workload's commands are behind it.
Past(plan, w) == Len(plan[w]) - Len(lives[w])

PlanFollowed(plan) ==
  /\ DOMAIN lives = DOMAIN plan
  /\ \A w \in DOMAIN plan :
       /\ lives[w] \in Seq(Range(plan[w]))
       /\ Len(lives[w]) <= Len(plan[w])
       /\ \A i \in 1..Len(lives[w]) : lives[w][i] = plan[w][Past(plan, w) + i]

\* A running command is the last one its workload sent, and the snapshot it
\* writes or releases is not one that must stay.
JobIsLatest(plan) ==
  job = NoJob \/
  /\ DOMAIN job \in {{"at", "cmd"}, {"at", "cmd", "fresh"}}
  /\ \E w \in DOMAIN plan : /\ Past(plan, w) > 0
                            /\ job.cmd = plan[w][Past(plan, w)]
  /\ \/ job.at \in {"save", "record"} /\ job.cmd.kind = "save"
     \/ job.at \in {"finish", "remove", "forget"} /\ job.cmd.kind = "finish"
  /\ job.at # "save" => \A k \in kept : k.name # job.cmd.name
  /\ job.at = "record" => /\ job.cmd.name \in DOMAIN kv
                          /\ kv[job.cmd.name] = job.cmd.op

SavedIsPast(plan) ==
  \A o \in saved : \E w \in DOMAIN plan : \E j \in 1..Past(plan, w) :
    plan[w][j].kind = "save" /\ plan[w][j].op = o

\* A snapshot that must stay is the last its workload was told is saved.
LatestSave(plan, k, w, j) ==
  /\ k = plan[w][j] /\ k.kind = "save" /\ k.op \in saved
  /\ \A i \in (j + 1)..Past(plan, w) : plan[w][i].kind = "save" =>
                                         plan[w][i].op \notin saved

KeptIsLatest(plan) ==
  \A k \in kept : \E w \in DOMAIN plan : \E j \in 1..Past(plan, w) :
    LatestSave(plan, k, w, j)

\* An owner's manifest lists its own snapshots.
EntryFields == {"refs", "terminal", "old"}
OwnManifests(owners) ==
  /\ DOMAIN manifests = owners
  /\ \A o \in owners : \A n \in DOMAIN manifests[o] :
       /\ n[1] = o
       /\ DOMAIN manifests[o][n] = EntryFields

OwnersInv(plan, owners) ==
  /\ InOrder(plan, owners)
  /\ PlanFollowed(plan)
  /\ JobIsLatest(plan)
  /\ SavedIsPast(plan)
  /\ KeptIsLatest(plan)
  /\ OwnManifests(owners)
  /\ ResumableSnapshotKept

LEMMA PastIsCount ==
  ASSUME NEW plan, NEW owners, InOrder(plan, owners), PlanFollowed(plan),
         NEW w \in DOMAIN plan
  PROVE  /\ Past(plan, w) \in Nat /\ Past(plan, w) <= Len(plan[w])
         /\ Len(plan[w]) \in Nat /\ DOMAIN plan[w] = 1..Len(plan[w])
         /\ Len(lives[w]) \in Nat
         /\ 1..Past(plan, w) \subseteq DOMAIN plan[w]
<1>1. plan[w] \in Seq(Range(plan[w])) /\ lives[w] \in Seq(Range(plan[w]))
  BY DEF InOrder, PlanFollowed
<1>2. /\ Len(plan[w]) \in Nat /\ DOMAIN plan[w] = 1..Len(plan[w])
      /\ Len(lives[w]) \in Nat /\ Len(lives[w]) <= Len(plan[w])
  BY <1>1 DEF PlanFollowed
<1> QED BY <1>2 DEF Past

LEMMA PlannedCommand ==
  ASSUME NEW plan, NEW owners, InOrder(plan, owners), PlanFollowed(plan),
         NEW w \in DOMAIN plan, NEW j \in DOMAIN plan[w]
  PROVE  /\ plan[w][j].owner \in owners
         /\ plan[w][j].name = SnapshotName(plan[w][j].owner, w)
         /\ plan[w][j].name[1] = plan[w][j].owner
         /\ plan[w][j].name[2] = w
         /\ plan[w][j].kind \in {"save", "finish"}
         /\ plan[w][j].kind = "finish" => /\ plan[w][j].of # plan[w][j].op
                                          /\ EndsItsSave(plan[w], j)
BY DEF InOrder, SnapshotName

LEMMA SavesOnce ==
  ASSUME NEW plan, NEW owners, InOrder(plan, owners),
         NEW w \in DOMAIN plan, NEW v \in DOMAIN plan,
         NEW i \in DOMAIN plan[w], NEW j \in DOMAIN plan[v],
         plan[w][i].kind = "save", plan[v][j].kind = "save",
         plan[w][i].op = plan[v][j].op
  PROVE  w = v /\ i = j
BY DEF InOrder

LEMMA OneOwner ==
  ASSUME NEW plan, NEW owners, InOrder(plan, owners), NEW w \in DOMAIN plan,
         NEW i \in DOMAIN plan[w], NEW j \in DOMAIN plan[w]
  PROVE  plan[w][i].owner = plan[w][j].owner
BY DEF InOrder

\* What an owner's entry says, by the manifests after the step.
LEMMA OthersKept ==
  ASSUME NEW owners, NEW name, ResumableSnapshotKept,
         kept' \subseteq kept, \A k \in kept' : k.name # name /\ k.owner \in owners,
         \A n \in DOMAIN kv : n # name => n \in DOMAIN kv' /\ kv'[n] = kv[n],
         \A o \in owners : \A n \in DOMAIN manifests[o] : n # name =>
           n \in DOMAIN manifests'[o] /\ manifests'[o][n].refs = manifests[o][n].refs
  PROVE  ResumableSnapshotKept'
BY DEF ResumableSnapshotKept, Claimed, Entry

LEMMA KeptCommand ==
  ASSUME NEW plan, NEW owners, OwnersInv(plan, owners), NEW k \in kept
  PROVE  k.owner \in owners /\ k.name[1] = k.owner
<1>1. PICK w \in DOMAIN plan : \E j \in 1..Past(plan, w) : k = plan[w][j]
  BY DEF OwnersInv, KeptIsLatest, LatestSave
<1>2. PICK j \in 1..Past(plan, w) : k = plan[w][j]
  BY <1>1
<1>3. j \in DOMAIN plan[w]
  BY PastIsCount DEF OwnersInv
<1> QED BY <1>2, <1>3, PlannedCommand DEF OwnersInv

LEMMA JobCommand ==
  ASSUME NEW plan, NEW owners, OwnersInv(plan, owners), job # NoJob
  PROVE  /\ job.cmd.owner \in owners /\ job.cmd.name[1] = job.cmd.owner
         /\ "at" \in DOMAIN job
<1>1. PICK w \in DOMAIN plan : Past(plan, w) > 0 /\ job.cmd = plan[w][Past(plan, w)]
  BY DEF OwnersInv, JobIsLatest
<1>2. Past(plan, w) \in DOMAIN plan[w]
  BY <1>1, PastIsCount DEF OwnersInv
<1>3. "at" \in DOMAIN job
  BY DEF OwnersInv, JobIsLatest
<1> QED BY <1>1, <1>2, <1>3, PlannedCommand DEF OwnersInv

\* A write of one entry leaves the others.
EntriesStay(owners, name) ==
  \A o \in owners : \A n \in DOMAIN manifests[o] : n # name =>
    n \in DOMAIN manifests'[o] /\ manifests'[o][n] = manifests[o][n]

LEMMA OneEntryWritten ==
  ASSUME NEW owners, OwnManifests(owners), NEW owner \in owners, NEW name,
         name[1] = owner, NEW entry, DOMAIN entry = EntryFields,
         manifests' = WithEntry(owner, name, entry)
  PROVE  OwnManifests(owners)' /\ EntriesStay(owners, name)
BY DEF OwnManifests, WithEntry, EntriesStay

LEMMA OneEntryRemoved ==
  ASSUME NEW owners, OwnManifests(owners), NEW owner \in owners, NEW name,
         manifests' = WithoutEntries(owner, {name})
  PROVE  OwnManifests(owners)' /\ EntriesStay(owners, name)
BY DEF OwnManifests, WithoutEntries, Restrict, EntriesStay

\* A step of the running command: the plan and what is saved stay.
LEMMA CommandMoves ==
  ASSUME NEW plan, NEW owners, OwnersInv(plan, owners),
         UNCHANGED <<lives, saved>>, kept' \subseteq kept,
         JobIsLatest(plan)', OwnManifests(owners)', ResumableSnapshotKept'
  PROVE  OwnersInv(plan, owners)'
<1>1. \A w : Past(plan, w)' = Past(plan, w)
  BY DEF Past
<1>2. PlanFollowed(plan)'
  BY <1>1 DEF OwnersInv, PlanFollowed
<1>3. SavedIsPast(plan)'
  BY <1>1 DEF OwnersInv, SavedIsPast
<1>4. KeptIsLatest(plan)'
  BY <1>1 DEF OwnersInv, KeptIsLatest, LatestSave
<1> QED BY <1>2, <1>3, <1>4 DEF OwnersInv

LEMMA NotSwept ==
  ASSUME NEW plan, NEW owners, OwnersInv(plan, owners), NEW k \in kept, NEW o \in owners
  PROVE  k.name \notin Sweepable(o)
<1>1. SUFFICES ASSUME k.name \in Sweepable(o) PROVE FALSE
  OBVIOUS
<1>2. k.name \in DOMAIN manifests[o] /\ manifests[o][k.name].refs = {}
  BY <1>1 DEF Sweepable, Expired
<1>3. o = k.owner
  BY <1>2, KeptCommand DEF OwnersInv, OwnManifests
<1>4. k.op \in manifests[k.owner][k.name].refs
  BY DEF OwnersInv, ResumableSnapshotKept, Entry
<1> QED BY <1>2, <1>3, <1>4

\* The next command of a workload is behind it.
LEMMA PlanAdvances ==
  ASSUME NEW plan, NEW owners, InOrder(plan, owners), PlanFollowed(plan),
         NEW w \in DOMAIN lives, lives[w] # <<>>,
         lives' = [lives EXCEPT ![w] = Tail(@)]
  PROVE  /\ w \in DOMAIN plan
         /\ PlanFollowed(plan)'
         /\ Past(plan, w)' = Past(plan, w) + 1
         /\ Head(lives[w]) = plan[w][Past(plan, w) + 1]
         /\ Past(plan, w) + 1 \in DOMAIN plan[w]
         /\ \A v \in DOMAIN plan : v # w => Past(plan, v)' = Past(plan, v)
<1>1. /\ w \in DOMAIN plan /\ DOMAIN lives' = DOMAIN plan
      /\ lives'[w] = Tail(lives[w])
      /\ \A v \in DOMAIN plan : v # w => lives'[v] = lives[v]
  BY DEF PlanFollowed
<1>2. /\ lives[w] \in Seq(Range(plan[w])) /\ Len(lives[w]) <= Len(plan[w])
      /\ \A i \in 1..Len(lives[w]) : lives[w][i] = plan[w][Past(plan, w) + i]
      /\ Len(lives[w]) \in Nat /\ Len(plan[w]) \in Nat
      /\ DOMAIN plan[w] = 1..Len(plan[w])
  BY <1>1, PastIsCount DEF PlanFollowed
<1>3. /\ Tail(lives[w]) \in Seq(Range(plan[w]))
      /\ Len(Tail(lives[w])) = Len(lives[w]) - 1 /\ Len(lives[w]) > 0
      /\ \A i \in 1..(Len(lives[w]) - 1) : Tail(lives[w])[i] = lives[w][i + 1]
      /\ Head(lives[w]) = lives[w][1]
  BY <1>2
<1>4. Past(plan, w)' = Past(plan, w) + 1
  BY <1>1, <1>2, <1>3 DEF Past
<1>5. \A v \in DOMAIN plan : v # w => Past(plan, v)' = Past(plan, v)
  BY <1>1 DEF Past
<1>6. \A i \in 1..Len(lives'[w]) : lives'[w][i] = plan[w][Past(plan, w)' + i]
  <2>1. TAKE i \in 1..Len(lives'[w])
  <2>2. i \in Nat /\ i + 1 \in 1..Len(lives[w]) /\ i \in 1..(Len(lives[w]) - 1)
    BY <1>1, <1>2, <1>3
  <2>3. Past(plan, w) \in Int
    BY <1>2 DEF Past
  <2>4. lives'[w][i] = plan[w][Past(plan, w) + (i + 1)]
    BY <1>1, <1>2, <1>3, <2>2
  <2>5. Past(plan, w) + (i + 1) = Past(plan, w)' + i
    BY <1>4, <2>2, <2>3
  <2> QED BY <2>4, <2>5
<1>7. PlanFollowed(plan)'
  <2>1. \A v \in DOMAIN plan : v # w =>
          /\ lives'[v] \in Seq(Range(plan[v])) /\ Len(lives'[v]) <= Len(plan[v])
          /\ \A i \in 1..Len(lives'[v]) : lives'[v][i] = plan[v][Past(plan, v)' + i]
    BY <1>1, <1>5 DEF PlanFollowed
  <2>2. /\ lives'[w] \in Seq(Range(plan[w])) /\ Len(lives'[w]) <= Len(plan[w])
    BY <1>1, <1>2, <1>3
  <2> QED BY <1>1, <1>6, <2>1, <2>2 DEF PlanFollowed
<1>8. Head(lives[w]) = plan[w][Past(plan, w) + 1] /\ Past(plan, w) + 1 \in DOMAIN plan[w]
  BY <1>2, <1>3 DEF Past
<1> QED BY <1>1, <1>4, <1>5, <1>7, <1>8

\* What is saved, and what must stay of it, is so after any further command.
LEMMA HistoryAdvances ==
  ASSUME NEW plan, NEW owners, OwnersInv(plan, owners),
         NEW w \in DOMAIN lives, lives[w] # <<>>,
         lives' = [lives EXCEPT ![w] = Tail(@)], kept' \subseteq kept, saved' = saved
  PROVE  SavedIsPast(plan)' /\ KeptIsLatest(plan)'
<1>1. /\ w \in DOMAIN plan /\ Past(plan, w)' = Past(plan, w) + 1
      /\ Past(plan, w) + 1 \in DOMAIN plan[w]
      /\ \A v \in DOMAIN plan : v # w => Past(plan, v)' = Past(plan, v)
  BY PlanAdvances, Zenon DEF OwnersInv
<1>2. \A v \in DOMAIN plan : /\ Past(plan, v) \in Nat
                             /\ 1..Past(plan, v) \subseteq DOMAIN plan[v]
                             /\ 1..Past(plan, v) \subseteq 1..Past(plan, v)'
  BY <1>1, PastIsCount DEF OwnersInv
<1>3. SavedIsPast(plan)'
  BY <1>2 DEF OwnersInv, SavedIsPast
<1>4. plan[w][Past(plan, w) + 1].kind = "save" =>
        plan[w][Past(plan, w) + 1].op \notin saved
  <2>1. SUFFICES ASSUME plan[w][Past(plan, w) + 1].kind = "save",
                        plan[w][Past(plan, w) + 1].op \in saved
                 PROVE  FALSE
    OBVIOUS
  <2>2. PICK v \in DOMAIN plan : \E j \in 1..Past(plan, v) :
          plan[v][j].kind = "save" /\ plan[v][j].op = plan[w][Past(plan, w) + 1].op
    BY <2>1 DEF OwnersInv, SavedIsPast
  <2>3. PICK j \in 1..Past(plan, v) :
          plan[v][j].kind = "save" /\ plan[v][j].op = plan[w][Past(plan, w) + 1].op
    BY <2>2
  <2>4. j \in DOMAIN plan[v]
    BY <1>2
  <2>5. v = w /\ j = Past(plan, w) + 1
    BY <1>1, <2>1, <2>3, <2>4, SavesOnce DEF OwnersInv
  <2> QED BY <1>2, <2>5
<1>5. KeptIsLatest(plan)'
  <2>1. SUFFICES ASSUME NEW k \in kept
                 PROVE  \E v \in DOMAIN plan : \E j \in 1..Past(plan, v)' :
                          LatestSave(plan, k, v, j)'
    BY DEF KeptIsLatest
  <2>2. PICK v \in DOMAIN plan : \E j \in 1..Past(plan, v) : LatestSave(plan, k, v, j)
    BY DEF OwnersInv, KeptIsLatest
  <2>3. PICK j \in 1..Past(plan, v) : LatestSave(plan, k, v, j)
    BY <2>2
  <2>4. \A i \in (j + 1)..Past(plan, v)' :
          plan[v][i].kind = "save" => plan[v][i].op \notin saved
    <3>1. CASE v = w
      BY <1>1, <1>2, <1>4, <2>3, <3>1 DEF LatestSave
    <3>2. CASE v # w
      BY <1>1, <2>3, <3>2 DEF LatestSave
    <3> QED BY <3>1, <3>2
  <2>5. LatestSave(plan, k, v, j)'
    BY <2>3, <2>4 DEF LatestSave
  <2> QED BY <1>2, <2>5
<1> QED BY <1>3, <1>5

\* The end of a restore is about the snapshot its workload keeps, if it keeps one.
LEMMA FinishEndsKept ==
  ASSUME NEW plan, NEW owners, OwnersInv(plan, owners), NEW w \in DOMAIN plan,
         NEW i \in DOMAIN plan[w], i = Past(plan, w) + 1,
         plan[w][i].kind = "finish", plan[w][i].of \in saved,
         NEW k \in kept, k.name = plan[w][i].name
  PROVE  k.op = plan[w][i].of
<1>1. PICK v \in DOMAIN plan : \E j \in 1..Past(plan, v) : LatestSave(plan, k, v, j)
  BY DEF OwnersInv, KeptIsLatest
<1>2. PICK j \in 1..Past(plan, v) : LatestSave(plan, k, v, j)
  BY <1>1
<1>3. j \in DOMAIN plan[v] /\ Past(plan, v) \in Nat
  BY PastIsCount DEF OwnersInv
<1>4. v = w
  BY <1>2, <1>3, PlannedCommand DEF OwnersInv, LatestSave
<1>5. EndsItsSave(plan[w], i)
  BY PlannedCommand DEF OwnersInv
<1>6. PICK l \in 1..(i - 1) :
        /\ plan[w][l].kind = "save" /\ plan[w][l].op = plan[w][i].of
        /\ \A m \in (l + 1)..(i - 1) : plan[w][m].kind # "save"
  BY <1>5 DEF EndsItsSave
<1>7. ~(l < j)
  BY <1>2, <1>3, <1>4, <1>6 DEF LatestSave
<1>8. ~(l > j)
  BY <1>2, <1>3, <1>4, <1>6 DEF LatestSave
<1>9. l = j
  BY <1>3, <1>4, <1>6, <1>7, <1>8
<1> QED BY <1>2, <1>4, <1>6, <1>9 DEF LatestSave

LEMMA SweepKeeps ==
  ASSUME NEW plan, NEW owners, OwnersInv(plan, owners), kept' \subseteq kept,
         kv' = Without(kv, UNION {Sweepable(o) : o \in DOMAIN manifests}),
         manifests' \in {manifests, Swept}
  PROVE  OwnManifests(owners)' /\ ResumableSnapshotKept'
<1> DEFINE dead == UNION {Sweepable(o) : o \in DOMAIN manifests}
<1>1. DOMAIN manifests = owners
  BY DEF OwnersInv, OwnManifests
<1>2. \A o \in owners : /\ DOMAIN Swept[o] = DOMAIN manifests[o] \ Sweepable(o)
                         /\ \A n \in DOMAIN Swept[o] : Swept[o][n] = manifests[o][n]
  <2>1. TAKE o \in owners
  <2>2. Swept[o] = [n \in DOMAIN manifests[o] \ Sweepable(o) |-> manifests[o][n]]
    BY <1>1 DEF Swept, Restrict
  <2> QED BY <2>2
<1>3. \A o \in owners :
        /\ DOMAIN manifests'[o] \subseteq DOMAIN manifests[o]
        /\ DOMAIN manifests[o] \ Sweepable(o) \subseteq DOMAIN manifests'[o]
        /\ \A n \in DOMAIN manifests'[o] : manifests'[o][n] = manifests[o][n]
  BY <1>2
<1>4. OwnManifests(owners)'
  <2>1. DOMAIN manifests' = owners
    BY <1>1 DEF Swept
  <2> QED BY <1>3, <2>1 DEF OwnersInv, OwnManifests
<1>5. ASSUME NEW k \in kept
      PROVE  /\ k.name \in DOMAIN kv' /\ kv'[k.name] = k.op
             /\ k.name \in DOMAIN manifests'[k.owner]
             /\ k.op \in manifests'[k.owner][k.name].refs
  <2>1. /\ k.name \in DOMAIN kv /\ kv[k.name] = k.op
        /\ k.name \in DOMAIN manifests[k.owner]
        /\ k.op \in manifests[k.owner][k.name].refs
    BY DEF OwnersInv, ResumableSnapshotKept, Claimed, Entry
  <2>2. k.owner \in owners /\ k.name \notin dead
    BY <1>1, KeptCommand, NotSwept
  <2>3. k.name \in DOMAIN kv' /\ kv'[k.name] = k.op
    BY <2>1, <2>2 DEF Without, Restrict
  <2>4. k.name \notin Sweepable(k.owner)
    BY <2>2, NotSwept
  <2>5. k.name \in DOMAIN manifests'[k.owner]
    BY <1>3, <2>1, <2>2, <2>4
  <2> QED BY <1>3, <2>1, <2>2, <2>3, <2>5
<1>6. ResumableSnapshotKept'
  BY <1>5 DEF ResumableSnapshotKept, Claimed, Entry
<1> QED BY <1>4, <1>6

LEMMA CheckpointBeginKeeps ==
  ASSUME NEW plan, NEW owners, OwnersInv(plan, owners),
         NEW w \in DOMAIN lives, CheckpointBegin(w)
  PROVE  OwnersInv(plan, owners)'
<1> DEFINE sent == Head(lives[w])
           last == Past(plan, w) + 1
<1>1. /\ lives[w] # <<>> /\ lives' = [lives EXCEPT ![w] = Tail(@)]
      /\ sent.of = sent.op \/ sent.of \in saved
      /\ kv' = Without(kv, UNION {Sweepable(o) : o \in DOMAIN manifests})
      /\ manifests' \in {manifests, Swept}
      /\ job' = [at |-> sent.kind, cmd |-> sent]
      /\ kept' = {k \in kept : sent.kind = "save" \/ k.op # sent.of}
      /\ saved' = saved
  BY DEF CheckpointBegin
<1>2. /\ w \in DOMAIN plan /\ sent = plan[w][last] /\ last \in DOMAIN plan[w]
      /\ Past(plan, w)' = last /\ PlanFollowed(plan)'
  BY <1>1, PlanAdvances, Zenon DEF OwnersInv
<1>3. SavedIsPast(plan)' /\ KeptIsLatest(plan)'
  BY <1>1, HistoryAdvances, Zenon
<1>4. OwnManifests(owners)' /\ ResumableSnapshotKept'
  BY <1>1, SweepKeeps
<1>5. sent.kind \in {"save", "finish"} /\ (sent.kind = "finish" => sent.of # sent.op)
  BY <1>2, PlannedCommand DEF OwnersInv
<1>6. sent.kind = "finish" => \A k \in kept' : k.name # sent.name
  BY <1>1, <1>2, <1>5, FinishEndsKept
<1>7. last > 0
  BY <1>2, PastIsCount DEF OwnersInv
<1>8. JobIsLatest(plan)'
  <2>1. /\ job'.at = sent.kind /\ job'.cmd = sent /\ DOMAIN job' = {"at", "cmd"}
    BY <1>1
  <2>2. \E v \in DOMAIN plan : Past(plan, v)' > 0 /\ job'.cmd = plan[v][Past(plan, v)']
    BY <1>2, <1>7, <2>1
  <2> QED BY <1>5, <1>6, <2>1, <2>2 DEF JobIsLatest
<1> QED BY <1>2, <1>3, <1>4, <1>8 DEF OwnersInv

LEMMA CheckpointSkippedKeeps ==
  ASSUME NEW plan, NEW owners, OwnersInv(plan, owners),
         NEW w \in DOMAIN lives, CheckpointSkipped(w)
  PROVE  OwnersInv(plan, owners)'
<1>1. /\ lives[w] # <<>> /\ lives' = [lives EXCEPT ![w] = Tail(@)]
      /\ job = NoJob /\ UNCHANGED <<kv, manifests, job, saved, kept>>
  BY DEF CheckpointSkipped
<1>2. PlanFollowed(plan)'
  BY <1>1, PlanAdvances, Zenon DEF OwnersInv
<1>3. SavedIsPast(plan)' /\ KeptIsLatest(plan)'
  BY <1>1, HistoryAdvances, Zenon
<1>4. OwnManifests(owners)' /\ ResumableSnapshotKept' /\ JobIsLatest(plan)'
  BY <1>1 DEF OwnersInv, OwnManifests, ResumableSnapshotKept, Claimed, Entry, JobIsLatest
<1> QED BY <1>2, <1>3, <1>4 DEF OwnersInv

\* The command goes on with the snapshot of its name, which nobody keeps.
LEMMA JobGoesOn ==
  ASSUME NEW plan, NEW owners, OwnersInv(plan, owners), job # NoJob,
         UNCHANGED <<lives, saved>>, kept' \subseteq kept,
         \A k \in kept' : k.name # job.cmd.name,
         \A n \in DOMAIN kv : n # job.cmd.name => n \in DOMAIN kv' /\ kv'[n] = kv[n],
         NEW entry, DOMAIN entry = EntryFields,
         manifests' \in {manifests, WithEntry(job.cmd.owner, job.cmd.name, entry),
                         WithoutEntries(job.cmd.owner, {job.cmd.name})},
         \/ job' = NoJob
         \/ /\ DOMAIN job' \in {{"at", "cmd"}, {"at", "cmd", "fresh"}}
            /\ job'.cmd = job.cmd
            /\ \/ /\ job'.at = "record" /\ job.cmd.kind = "save"
                  /\ job.cmd.name \in DOMAIN kv' /\ kv'[job.cmd.name] = job.cmd.op
               \/ job'.at \in {"remove", "forget"} /\ job.cmd.kind = "finish"
  PROVE  OwnersInv(plan, owners)'
<1>1. /\ job.cmd.owner \in owners /\ job.cmd.name[1] = job.cmd.owner
      /\ OwnManifests(owners)
  BY JobCommand DEF OwnersInv
<1>2. OwnManifests(owners)' /\ EntriesStay(owners, job.cmd.name)
  <2>1. CASE manifests' = manifests
    BY <1>1, <2>1 DEF OwnManifests, EntriesStay
  <2>2. CASE manifests' = WithEntry(job.cmd.owner, job.cmd.name, entry)
    BY <1>1, <2>2, OneEntryWritten
  <2>3. CASE manifests' = WithoutEntries(job.cmd.owner, {job.cmd.name})
    BY <1>1, <2>3, OneEntryRemoved
  <2> QED BY <2>1, <2>2, <2>3
<1>3. \A k \in kept' : k.owner \in owners
  BY KeptCommand
<1>4. ResumableSnapshotKept'
  BY <1>2, <1>3, OthersKept DEF OwnersInv, EntriesStay
<1>5. \A v : Past(plan, v)' = Past(plan, v)
  BY DEF Past
<1>6. JobIsLatest(plan)'
  BY <1>5 DEF OwnersInv, JobIsLatest
<1> QED BY <1>2, <1>4, <1>6, CommandMoves

LEMMA SaveKVKeeps ==
  ASSUME NEW plan, NEW owners, OwnersInv(plan, owners), SaveKV
  PROVE  OwnersInv(plan, owners)'
<1> DEFINE sent == job.cmd
           written == [n \in DOMAIN kv \union {sent.name} |->
                         IF n = sent.name THEN sent.op ELSE kv[n]]
           any == [refs |-> {}, terminal |-> NoOp, old |-> FALSE]
<1>1. job.at = "save" /\ UNCHANGED <<manifests, lives, saved>>
  BY DEF SaveKV
<1>2. job # NoJob /\ sent.kind = "save"
  BY <1>1 DEF NoJob, OwnersInv, JobIsLatest
<1>3. CASE job' = NoJob /\ UNCHANGED <<kv, kept>>
  <2>1. OwnManifests(owners)' /\ ResumableSnapshotKept' /\ JobIsLatest(plan)'
    BY <1>1, <1>3 DEF OwnersInv, OwnManifests, ResumableSnapshotKept, Claimed, Entry,
                      JobIsLatest
  <2> QED BY <1>1, <1>3, <2>1, CommandMoves
<1>4. CASE /\ kept' = {k \in kept : k.name # sent.name}
           /\ \/ /\ kv' = written
                 /\ job' = [at |-> "record", cmd |-> sent,
                            fresh |-> sent.name \notin DOMAIN kv]
              \/ kv' \in {kv, written} /\ job' = NoJob
  <2>1. \A n \in DOMAIN kv : n # sent.name => n \in DOMAIN kv' /\ kv'[n] = kv[n]
    BY <1>4
  <2>2. \/ job' = NoJob
        \/ /\ DOMAIN job' = {"at", "cmd", "fresh"} /\ job'.cmd = sent
           /\ job'.at = "record" /\ sent.name \in DOMAIN kv' /\ kv'[sent.name] = sent.op
    BY <1>4
  <2>3. DOMAIN any = EntryFields
    BY DEF EntryFields
  <2> HIDE DEF any
  <2> QED BY <1>1, <1>2, <1>4, <2>1, <2>2, <2>3, JobGoesOn
<1> QED BY <1>3, <1>4 DEF SaveKV

LEMMA RecordOwnedCheckpointKeeps ==
  ASSUME NEW plan, NEW owners, OwnersInv(plan, owners), RecordOwnedCheckpoint
  PROVE  OwnersInv(plan, owners)'
<1> DEFINE sent == job.cmd
           claimed == Claimed(sent.owner, sent.name)
           entry == [refs |-> {sent.op} \union IF claimed
                                              THEN Entry(sent.owner, sent.name).refs
                                              ELSE {},
                     terminal |-> NoOp,
                     old |-> claimed /\ Entry(sent.owner, sent.name).old]
<1>1. job.at = "record" /\ job' = NoJob /\ lives' = lives
  BY DEF RecordOwnedCheckpoint
<1>2. /\ job # NoJob /\ sent.kind = "save" /\ \A k \in kept : k.name # sent.name
      /\ sent.name \in DOMAIN kv /\ kv[sent.name] = sent.op
  BY <1>1 DEF NoJob, OwnersInv, JobIsLatest
<1>3. /\ Recorded(sent) = WithEntry(sent.owner, sent.name, entry)
      /\ DOMAIN entry = EntryFields /\ sent.op \in entry.refs
  BY DEF Recorded, EntryFields
<1> HIDE DEF entry
<1>4. CASE /\ UNCHANGED <<saved, kept>>
           /\ kv' = RemoveFresh(sent, job.fresh)
           /\ manifests' \in {manifests, Recorded(sent)}
  <2>1. \A n \in DOMAIN kv : n # sent.name => n \in DOMAIN kv' /\ kv'[n] = kv[n]
    BY <1>4 DEF RemoveFresh, Without, Restrict
  <2> QED BY <1>1, <1>2, <1>3, <1>4, <2>1, JobGoesOn, Zenon
<1>5. CASE /\ manifests' = Recorded(sent) /\ saved' = saved \union {sent.op}
           /\ kept' = kept \union {sent} /\ kv' = kv
  <2>1. /\ sent.owner \in owners /\ sent.name[1] = sent.owner
        /\ OwnManifests(owners)
    BY <1>2, JobCommand DEF OwnersInv
  <2>2. OwnManifests(owners)' /\ EntriesStay(owners, sent.name)
    BY <1>3, <1>5, <2>1, OneEntryWritten
  <2>3. /\ sent.name \in DOMAIN manifests'[sent.owner]
        /\ sent.op \in manifests'[sent.owner][sent.name].refs
    BY <1>3, <1>5, <2>1 DEF WithEntry, OwnManifests
  <2>4. \A k \in kept : k.owner \in owners
    BY KeptCommand
  <2>5. ResumableSnapshotKept'
    BY <1>2, <1>5, <2>2, <2>3, <2>4
       DEF OwnersInv, ResumableSnapshotKept, Claimed, Entry, EntriesStay
  <2>6. \A v : Past(plan, v)' = Past(plan, v)
    BY <1>1 DEF Past
  <2>7. PICK w \in DOMAIN plan : Past(plan, w) > 0 /\ sent = plan[w][Past(plan, w)]
    BY <1>2 DEF OwnersInv, JobIsLatest
  <2>8. \A v \in DOMAIN plan : /\ Past(plan, v) \in Nat
                               /\ 1..Past(plan, v) \subseteq DOMAIN plan[v]
    BY PastIsCount DEF OwnersInv
  <2>9. Past(plan, w) \in 1..Past(plan, w)
    BY <2>7, <2>8
  <2>10. SavedIsPast(plan)'
    BY <1>2, <1>5, <2>6, <2>7, <2>9 DEF OwnersInv, SavedIsPast
  <2>11. PICK c, p : c = sent /\ p = Past(plan, w)
    OBVIOUS
  <2>12. LatestSave(plan, c, w, p)'
    BY <1>2, <1>5, <2>6, <2>7, <2>8, <2>11 DEF LatestSave
  <2>13. ASSUME NEW k \in kept
         PROVE  \E v \in DOMAIN plan : \E j \in 1..Past(plan, v) :
                  LatestSave(plan, k, v, j)'
    <3>1. PICK v \in DOMAIN plan : \E j \in 1..Past(plan, v) : LatestSave(plan, k, v, j)
      BY DEF OwnersInv, KeptIsLatest
    <3>2. PICK j \in 1..Past(plan, v) : LatestSave(plan, k, v, j)
      BY <3>1
    <3>3. v # w
      <4>1. SUFFICES ASSUME v = w PROVE FALSE
        OBVIOUS
      <4>2. /\ j \in DOMAIN plan[w] /\ Past(plan, w) \in DOMAIN plan[w]
            /\ k = plan[w][j] /\ InOrder(plan, owners) /\ PlanFollowed(plan)
        BY <2>8, <2>9, <3>2, <4>1 DEF OwnersInv, LatestSave
      <4>3. k.owner = sent.owner
        BY <2>7, <4>2, OneOwner
      <4>4. k.name = SnapshotName(k.owner, w) /\ sent.name = SnapshotName(sent.owner, w)
        BY <2>7, <4>2, PlannedCommand
      <4> QED BY <1>2, <4>3, <4>4
    <3>4. ASSUME NEW i \in (j + 1)..Past(plan, v), plan[v][i].kind = "save"
          PROVE  plan[v][i].op # sent.op
      <4>1. /\ i \in DOMAIN plan[v] /\ Past(plan, w) \in DOMAIN plan[w]
            /\ InOrder(plan, owners)
        BY <2>8, <2>9, <3>4 DEF OwnersInv
      <4> QED BY <1>2, <2>7, <3>3, <3>4, <4>1, SavesOnce
    <3>5. LatestSave(plan, k, v, j)'
      BY <1>5, <2>6, <3>2, <3>4 DEF LatestSave
    <3> QED BY <3>5
  <2>14. KeptIsLatest(plan)'
    BY <1>5, <2>6, <2>9, <2>11, <2>12, <2>13 DEF KeptIsLatest
  <2>15. PlanFollowed(plan)'
    BY <1>1, <2>6 DEF OwnersInv, PlanFollowed
  <2> QED BY <1>1, <2>2, <2>5, <2>10, <2>14, <2>15 DEF OwnersInv, JobIsLatest
<1> QED BY <1>4, <1>5 DEF RecordOwnedCheckpoint, ManifestWriteFails

LEMMA MarkOwnedCheckpointTerminalKeeps ==
  ASSUME NEW plan, NEW owners, OwnersInv(plan, owners), MarkOwnedCheckpointTerminal
  PROVE  OwnersInv(plan, owners)'
<1> DEFINE sent == job.cmd
           left == Entry(sent.owner, sent.name).refs \ {Reference(sent)}
           entry == [Entry(sent.owner, sent.name) EXCEPT
                       !.refs = left,
                       !.terminal = IF left = {} THEN Reference(sent) ELSE NoOp]
           any == [refs |-> {}, terminal |-> NoOp, old |-> FALSE]
<1>1. job.at = "finish" /\ UNCHANGED <<kv, lives, saved, kept>>
  BY DEF MarkOwnedCheckpointTerminal
<1>2. job # NoJob /\ sent.kind = "finish" /\ \A k \in kept : k.name # sent.name
  BY <1>1 DEF NoJob, OwnersInv, JobIsLatest
<1>3. \/ job' = NoJob
      \/ DOMAIN job' = {"at", "cmd"} /\ job'.at = "remove" /\ job'.cmd = sent
  BY DEF MarkOwnedCheckpointTerminal
<1>4. CASE manifests' = manifests
  <2>1. DOMAIN any = EntryFields
    BY DEF EntryFields
  <2> HIDE DEF any
  <2> QED BY <1>1, <1>2, <1>3, <1>4, <2>1, JobGoesOn, Zenon
<1>5. CASE Claimed(sent.owner, sent.name) /\ manifests' = Terminal(sent)
  <2>1. Terminal(sent) = WithEntry(sent.owner, sent.name, entry)
    BY DEF Terminal
  <2>2. sent.owner \in owners
    BY <1>2, JobCommand
  <2>3. DOMAIN Entry(sent.owner, sent.name) = EntryFields
    BY <1>5, <2>2 DEF OwnersInv, OwnManifests, Claimed, Entry
  <2>4. DOMAIN entry = EntryFields
    BY <2>3
  <2> HIDE DEF entry
  <2> QED BY <1>1, <1>2, <1>3, <1>5, <2>1, <2>4, JobGoesOn
<1> QED BY <1>4, <1>5 DEF MarkOwnedCheckpointTerminal, ManifestWriteFails

LEMMA RemoveOwnedCheckpointKeeps ==
  ASSUME NEW plan, NEW owners, OwnersInv(plan, owners), RemoveOwnedCheckpoint
  PROVE  OwnersInv(plan, owners)'
<1> DEFINE sent == job.cmd
           any == [refs |-> {}, terminal |-> NoOp, old |-> FALSE]
<1>1. /\ job.at \in {"remove", "forget"} /\ UNCHANGED <<lives, saved, kept>>
      /\ kv' = kv \/ kv' = Without(kv, {sent.name})
      /\ manifests' \in {manifests, WithoutEntries(sent.owner, {sent.name})}
      /\ job' = NoJob \/ job' = [job EXCEPT !.at = "forget"]
  BY DEF RemoveOwnedCheckpoint, ManifestWriteFails
<1>2. /\ job # NoJob /\ sent.kind = "finish" /\ \A k \in kept : k.name # sent.name
      /\ DOMAIN job \in {{"at", "cmd"}, {"at", "cmd", "fresh"}}
  BY <1>1 DEF NoJob, OwnersInv, JobIsLatest
<1>3. \/ job' = NoJob
      \/ /\ DOMAIN job' \in {{"at", "cmd"}, {"at", "cmd", "fresh"}}
         /\ job'.at = "forget" /\ job'.cmd = sent
  BY <1>1, <1>2
<1>4. \A n \in DOMAIN kv : n # sent.name => n \in DOMAIN kv' /\ kv'[n] = kv[n]
  BY <1>1 DEF Without, Restrict
<1>5. DOMAIN any = EntryFields
  BY DEF EntryFields
<1> HIDE DEF any
<1> QED BY <1>1, <1>2, <1>3, <1>4, <1>5, JobGoesOn

\* Age changes no reference, and a kill only the command.
LEMMA EntryAgesKeeps ==
  ASSUME NEW plan, NEW owners, OwnersInv(plan, owners), EntryAges
  PROVE  OwnersInv(plan, owners)'
<1>1. job = NoJob /\ UNCHANGED <<kv, job, lives, saved, kept>>
  BY DEF EntryAges
<1>2. PICK o \in DOMAIN manifests : \E n \in DOMAIN manifests[o] :
        manifests' = [manifests EXCEPT ![o][n].old = TRUE]
  BY Zenon DEF EntryAges
<1>3. PICK n \in DOMAIN manifests[o] :
        manifests' = [manifests EXCEPT ![o][n].old = TRUE]
  BY <1>2, Zenon
<1>4. \A p \in owners : /\ DOMAIN manifests'[p] = DOMAIN manifests[p]
                        /\ \A m \in DOMAIN manifests[p] :
                             /\ DOMAIN manifests'[p][m] = EntryFields
                             /\ manifests'[p][m].refs = manifests[p][m].refs
  <2>1. /\ DOMAIN manifests' = owners /\ o \in owners
        /\ \A p \in owners : p # o => manifests'[p] = manifests[p]
        /\ manifests'[o] = [manifests[o] EXCEPT ![n].old = TRUE]
    BY <1>3 DEF OwnersInv, OwnManifests
  <2>2. /\ DOMAIN manifests'[o] = DOMAIN manifests[o]
        /\ \A m \in DOMAIN manifests[o] : m # n => manifests'[o][m] = manifests[o][m]
        /\ manifests'[o][n] = [manifests[o][n] EXCEPT !.old = TRUE]
    BY <2>1
  <2>3. DOMAIN manifests[o][n] = EntryFields
    BY <2>1 DEF OwnersInv, OwnManifests
  <2>4. /\ DOMAIN manifests'[o][n] = EntryFields
        /\ manifests'[o][n].refs = manifests[o][n].refs
    BY <2>2, <2>3 DEF EntryFields
  <2>5. TAKE p \in owners
  <2>6. CASE p = o
    <3>1. \A m \in DOMAIN manifests[o] : DOMAIN manifests[o][m] = EntryFields
      BY <2>1 DEF OwnersInv, OwnManifests
    <3> QED BY <2>2, <2>4, <2>6, <3>1, Zenon
  <2>7. CASE p # o
    BY <2>1, <2>7 DEF OwnersInv, OwnManifests
  <2> QED BY <2>6, <2>7
<1>5. OwnManifests(owners)'
  BY <1>3, <1>4 DEF OwnersInv, OwnManifests
<1>6. \A k \in kept : k.owner \in owners
  BY KeptCommand
<1>7. ResumableSnapshotKept'
  BY <1>1, <1>4, <1>6 DEF OwnersInv, ResumableSnapshotKept, Claimed, Entry
<1>8. JobIsLatest(plan)'
  BY <1>1 DEF JobIsLatest
<1> QED BY <1>1, <1>5, <1>7, <1>8, CommandMoves

LEMMA OwnersLostKeeps ==
  ASSUME NEW plan, NEW owners, OwnersInv(plan, owners), OwnersLost \/ UNCHANGED ownerVars
  PROVE  OwnersInv(plan, owners)'
<1>1. UNCHANGED <<kv, manifests, lives, saved, kept>> /\ (job' = NoJob \/ job' = job)
  BY DEF OwnersLost, ownerVars
<1>2. \A v : Past(plan, v)' = Past(plan, v)
  BY <1>1 DEF Past
<1>3. JobIsLatest(plan)'
  BY <1>1, <1>2 DEF OwnersInv, JobIsLatest
<1>4. OwnManifests(owners)' /\ ResumableSnapshotKept'
  BY <1>1 DEF OwnersInv, OwnManifests, ResumableSnapshotKept, Claimed, Entry
<1> QED BY <1>1, <1>3, <1>4, CommandMoves

LEMMA OwnersStepKeeps ==
  ASSUME NEW plan, NEW owners, OwnersInv(plan, owners), [OwnersNext]_ownerVars
  PROVE  OwnersInv(plan, owners)'
BY CheckpointBeginKeeps, CheckpointSkippedKeeps, SaveKVKeeps, RecordOwnedCheckpointKeeps,
   MarkOwnedCheckpointTerminalKeeps, RemoveOwnedCheckpointKeeps, EntryAgesKeeps,
   OwnersLostKeeps DEF OwnersNext, CheckpointCommand

LEMMA OwnersStart ==
  ASSUME NEW owners, NEW work, NEW failures, OwnersInit(owners, work, failures),
         NEW plan \in work, lives = plan, InOrder(plan, owners)
  PROVE  OwnersInv(plan, owners)
<1>1. /\ lives = plan /\ manifests = [o \in owners |-> <<>>]
      /\ saved = {} /\ kept = {} /\ job = NoJob
  BY DEF OwnersInit
<1>2. \A w \in DOMAIN plan : plan[w] \in Seq(Range(plan[w])) /\ Len(plan[w]) \in Nat
  BY DEF InOrder
<1>3. \A w \in DOMAIN plan : Past(plan, w) = 0
  BY <1>1, <1>2 DEF Past
<1>4. PlanFollowed(plan)
  BY <1>1, <1>2, <1>3 DEF PlanFollowed
<1>5. OwnManifests(owners)
  BY <1>1 DEF OwnManifests
<1> QED BY <1>1, <1>4, <1>5 DEF OwnersInv, JobIsLatest, SavedIsPast, KeptIsLatest,
                                ResumableSnapshotKept

\* A snapshot whose save was answered with success is on disk, with the reference
\* that protects it, until its own workload saves again or finishes the restore
\* (executeCheckpoint and the owner manifests of llamacpp_checkpoint.go).
THEOREM SnapshotsStay ==
  ASSUME NEW owners, NEW work, NEW failures, \A plan \in work : InOrder(plan, owners)
  PROVE  OwnersSpec(owners, work, failures) => []ResumableSnapshotKept
<1> DEFINE Inv == \E plan : OwnersInv(plan, owners)
<1>1. OwnersInit(owners, work, failures) => Inv
  BY OwnersStart DEF OwnersInit
<1>2. Inv /\ [OwnersNext]_ownerVars => Inv'
  BY OwnersStepKeeps
<1>3. Inv => ResumableSnapshotKept
  BY DEF OwnersInv
<1> QED BY <1>1, <1>2, <1>3, PTL DEF OwnersSpec
====
