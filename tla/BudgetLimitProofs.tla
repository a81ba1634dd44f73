---------------------------- MODULE BudgetLimitProofs ----------------------------
(***************************************************************************)
(* The theorems about budget claims.  This module adds what needs facts     *)
(* about finite sets to the steps of BudgetClaimsProofs: that a new claim   *)
(* token is one nobody holds, and sums over the workloads.                  *)
(***************************************************************************)
EXTENDS BudgetClaimsProofs, FiniteSetTheorems

\* New tokens.

LEMMA SmallestExists ==
  ASSUME NEW S \in SUBSET Nat, S # {}
  PROVE  \E k \in S : \A j \in S : k <= j
<1>1. PICK k \in S : \A j \in S : ~(<<j, k>> \in OpToRel(<, Nat))
  BY NatLessThanWellFounded, WFMin, Zenon
<1>2. ASSUME NEW j \in S PROVE k <= j
  <2>1. <<j, k>> \in Nat \X Nat /\ <<j, k>>[1] = j /\ <<j, k>>[2] = k
    OBVIOUS
  <2>2. ~(j < k)
    BY <1>1, <2>1 DEF OpToRel
  <2> QED BY <2>2
<1> QED BY <1>2

LEMMA SmallestFree ==
  ASSUME NEW H, IsFiniteSet(H)
  PROVE  \E k \in 1 .. Cardinality(H) + 1 : k \notin H /\ \A j \in 1 .. k - 1 : j \in H
<1> DEFINE n == Cardinality(H)  free == (1 .. n + 1) \ H
<1>1. n \in Nat
  BY FS_CardinalityType
<1> HIDE DEF n
<1>2. Cardinality(1 .. n + 1) = n + 1
  BY <1>1, FS_Interval
<1>3. ~(1 .. n + 1 \subseteq H)
  BY <1>1, <1>2, FS_Subset DEF n
<1>4. free \in SUBSET Nat /\ free # {}
  BY <1>1, <1>3
<1>5. PICK k \in free : \A j \in free : k <= j
  BY <1>4, SmallestExists, Zenon
<1>6. \A j \in 1 .. k - 1 : j \in H
  BY <1>1, <1>5
<1> QED BY <1>5, <1>6 DEF n

LEMMA FiveFinite ==
  ASSUME NEW a, NEW b, NEW c, NEW d, NEW e
  PROVE  IsFiniteSet({a, b, c, d, e})
<1>1. IsFiniteSet({a} \cup {b})
  BY FS_Singleton, FS_AddElement, Zenon
<1>2. IsFiniteSet(({a} \cup {b}) \cup {c})
  BY <1>1, FS_AddElement
<1>3. IsFiniteSet((({a} \cup {b}) \cup {c}) \cup {d})
  BY <1>2, FS_AddElement
<1>4. IsFiniteSet(((({a} \cup {b}) \cup {c}) \cup {d}) \cup {e})
  BY <1>3, FS_AddElement
<1>5. {a, b, c, d, e} = ((({a} \cup {b}) \cup {c}) \cup {d}) \cup {e}
  OBVIOUS
<1> QED BY <1>4, <1>5

LEMMA NewTokenIsFree ==
  ASSUME TypeOK, NEW w \in Workloads
  PROVE  /\ NewToken(w) \in Nat /\ NewToken(w) # 0
         /\ NewToken(w) # seen[w].cleanup
         /\ \A p \in Procs : proc[p].work = w => proc[p].token # NewToken(w)
<1> DEFINE tokens == {proc[p].token : p \in {q \in Procs : proc[q].work = w}}
           held == {claim[w].token, row[w].token, row[w].cleanup, seen[w].token, seen[w].cleanup}
                     \cup tokens
<1>1. IsFiniteSet(Procs)
  <2>1. IsFiniteSet(Workloads \cup {"pass"})
    BY Bounded, FS_AddElement
  <2>2. IsFiniteSet((Workloads \cup {"pass"}) \cup {"loop"})
    BY <2>1, FS_AddElement
  <2>3. IsFiniteSet(((Workloads \cup {"pass"}) \cup {"loop"}) \cup {"api"})
    BY <2>2, FS_AddElement
  <2>4. Procs = ((Workloads \cup {"pass"}) \cup {"loop"}) \cup {"api"}
    BY DEF Procs
  <2> QED BY <2>3, <2>4
<1>2. IsFiniteSet(tokens)
  <2> DEFINE P == {q \in Procs : proc[q].work = w}
             f == [q \in P |-> proc[q].token]
  <2>1. IsFiniteSet(P)
    BY <1>1, FS_Subset
  <2>2. f \in Surjection(P, tokens)
    BY DEF Surjection
  <2> HIDE DEF P, f, tokens
  <2> QED BY <2>1, <2>2, FS_Surjection
<1>3. IsFiniteSet({claim[w].token, row[w].token, row[w].cleanup, seen[w].token, seen[w].cleanup})
  BY FiveFinite, Zenon
<1> HIDE DEF tokens
<1>4. IsFiniteSet(held)
  BY <1>2, <1>3, FS_Union, Zenon
<1> HIDE DEF held
<1>5. \E k \in 1 .. Cardinality(held) + 1 : k \notin held /\ \A j \in 1 .. k - 1 : j \in held
  BY <1>4, SmallestFree
<1>6. NewToken(w) = CHOOSE k \in 1 .. Cardinality(held) + 1 :
                      k \notin held /\ \A j \in 1 .. k - 1 : j \in held
  BY DEF NewToken, held, tokens
<1>7. NewToken(w) \in 1 .. Cardinality(held) + 1 /\ NewToken(w) \notin held
  BY <1>5, <1>6
<1>8. NewToken(w) \in Nat /\ NewToken(w) # 0
  BY <1>4, <1>7, FS_CardinalityType
<1> QED BY <1>7, <1>8 DEF held, tokens

LEMMA ReserveKeeps ==
  ASSUME IInv, ReserveAndLinkBudgetClaim
  PROVE  IInv'
<1> DEFINE w == adm.work  mine == adm.token  price == Price[Head(adm.left)]
<1>1. /\ adm.pc = "reserve" /\ w \in Workloads /\ mine \in Nat /\ claim[w] \in Claim
      /\ claim[w].token \in Nat /\ adm.left # <<>> /\ todo' = todo
  BY DEF ReserveAndLinkBudgetClaim, IInv, TypeOK, PassKnows, Trying, PassRec, Claim
<1>2. price \in Nat
  BY <1>1, ListedTargets, SMTT(20) DEF IInv
<1>3. w \notin stale => row[w].token = mine /\ row[w].cleanup = 0
  BY <1>1 DEF IInv, PassKnows, Trying
<1>4. CASE /\ GiveUp(mine) \/ GiveUp(claim[w].token)
           /\ UNCHANGED <<row, claim, seen, stale>>
  BY <1>1, <1>4, GiveUpKeeps, ZenonT(40) DEF IInv, TypeOK
<1>5. CASE w \notin stale /\ Reserved(w, mine) /\ Link(w, mine) /\ UNCHANGED claim
  <2>1. mine # 0
    BY <1>1, <1>5, SMTT(20) DEF IInv, RowsHoldClaims, Reserved
  <2> QED BY <1>1, <1>5, <2>1, LinkKeeps, SMTT(20) DEF Reserved
<1>6. CASE /\ w \notin stale /\ claim[w].status \notin {"reserved", "settled"}
           /\ \E k : /\ k = IF mine # 0 THEN mine ELSE NewToken(w)
                     /\ claim' = [claim EXCEPT ![w] = [status |-> "reserved", token |-> k,
                                                       cents |-> price, paid |-> 0]]
                     /\ Link(w, k)
  <2>1. mine = 0
    BY <1>1, <1>3, <1>6, ZenonT(40) DEF IInv, RowsHoldClaims
  <2>2. /\ NewToken(w) \in Nat /\ NewToken(w) # 0 /\ NewToken(w) # seen[w].cleanup
        /\ \A q \in Procs : proc[q].work = w => proc[q].token # NewToken(w)
    BY <1>1, NewTokenIsFree, Zenon DEF IInv
  <2>3. PICK k \in Nat : /\ k = NewToken(w)
                         /\ claim' = [claim EXCEPT ![w] = [status |-> "reserved", token |-> k,
                                                           cents |-> price, paid |-> 0]]
                         /\ Link(w, k)
    BY <1>6, <2>1, <2>2, ZenonT(40)
  <2> DEFINE c == [status |-> "reserved", token |-> k, cents |-> price, paid |-> 0]
  <2>4. c \in Claim /\ c.status = "reserved" /\ c.token = k
    BY <1>2 DEF Claim
  <2> HIDE DEF c
  <2>5. /\ claim' \in [Workloads -> Claim] /\ claim'[w].status = "reserved" /\ claim'[w].token = k
        /\ \A v \in Workloads : v # w => claim'[v] = claim[v]
    BY <1>1, <2>3, <2>4, ZenonT(40) DEF c, IInv, TypeOK
  <2>6. /\ k # 0 /\ Link(w, k) /\ k # seen[w].cleanup
        /\ \A q \in Procs : proc[q].work = w => proc[q].token # k
    BY <2>2, <2>3, Zenon
  <2> QED BY <1>1, <1>6, <2>1, <2>5, <2>6, LinkKeeps, SMTT(20)
<1> QED BY <1>4, <1>5, <1>6, ZenonT(40) DEF ReserveAndLinkBudgetClaim, Reserved

-----------------------------------------------------------------------------
\* The theorems.

LEMMA NextIInv ==
  ASSUME IInv, [Next]_vars
  PROVE  IInv'
<1>1. CASE Pass
  <2>1. ASSUME NEW w \in Workloads, NextWorkload(w) \/ PreemptVictim(w) PROVE IInv'
    BY <2>1, NextWorkloadKeeps, PreemptKeeps
  <2> QED BY <1>1, <2>1, StartPassKeeps, CleanedKeeps, EnterKeeps, TryCandidateKeeps, UndoneKeeps,
             ReserveKeeps, PlaceKeeps, PublishRunningKeeps, FinishKeeps, EndPassKeeps, SMTT(20) DEF Pass
<1>2. CASE Crash
  BY <1>2, CrashKeeps, SMTT(20)
<1>3. CASE Started
  BY <1>3, AsideKeeps, ZenonT(40) DEF Started
<1>4. ASSUME NEW p \in Procs, BudgetStep(p) PROVE IInv'
  BY <1>4, RecordCleanupKeeps, ReleaseKeeps, UnlinkKeeps, MarkSettlementKeeps, SettleKeeps, SMTT(20) DEF BudgetStep
<1>5. ASSUME NEW p \in Procs, StoreFails(p) PROVE IInv'
  BY <1>5, ProcEnds, ZenonT(40) DEF StoreFails
<1>6. ASSUME NEW t \in Targets, ChangeTarget(t) PROVE IInv'
  BY <1>6, AsideKeeps DEF ChangeTarget
<1>7. ASSUME NEW w \in Workloads, DeadlinePasses(w) PROVE IInv'
  BY <1>7, AsideKeeps DEF DeadlinePasses
<1>8. ASSUME NEW w \in Workloads,
             \/ PublishHandle(w) \/ FinishExecution(w) \/ RequeueExecution(w) \/ NodeLost(w)
      PROVE  IInv'
  BY <1>8, ExecutionKeeps
<1>9. ASSUME NEW w \in Workloads,
             \/ ClaimCancellation(w) \/ PublishCancelled(w) \/ WithdrawCancellation(w) \/ Reprioritize(w)
      PROVE  IInv'
  BY <1>9, CancellationKeeps
<1>10. ASSUME NEW w \in Workloads, RecoverRow(w) \/ ReconcileRecovered(w) PROVE IInv'
  BY <1>10, RestartKeeps
<1>11. ASSUME NEW w \in Workloads, RetryBudgetIntents(w) PROVE IInv'
  BY <1>11, RetryKeeps, SMTT(20)
<1>12. CASE UNCHANGED vars
  BY <1>12, AsideKeeps DEF vars
<1> QED BY <1>1, <1>2, <1>3, <1>4, <1>5, <1>6, <1>7, <1>8, <1>9, <1>10, <1>11, <1>12, SMTT(20) DEF Next

LEMMA SpecIInv == Spec => []IInv
  BY InitIInv, NextIInv, PTL DEF Spec

\* A workload runs on a priced target only under its own reserved claim
\* (ReserveAndLinkBudgetClaim): no cleanup that an earlier attempt, a late
\* goroutine, the retry loop or a restart carries out can take it away.
THEOREM RunningKeepsClaim == Spec => []RunningHoldsClaim
<1>1. IInv => RunningHoldsClaim
  <2> SUFFICES ASSUME IInv, NEW w \in Workloads, row[w].status = "running", Price[row[w].target] > 0
               PROVE  /\ claim[w].status = "reserved" /\ claim[w].token = row[w].token
                      /\ row[w].cleanup = 0
    BY DEF RunningHoldsClaim
  <2>1. "running" \notin Ended
    BY DEF Ended
  <2> QED BY <2>1 DEF IInv, RowsHoldClaims
<1> QED BY <1>1, SpecIInv, PTL

\* A claim is settled only after its workload has ended, and a row that names a
\* claim without a cleanup intent (budgetCleanup) has exactly that claim, reserved
\* or settled: no cleanup runs ahead of its intent.
THEOREM RowsKeepClaims == Spec => []RowsHoldClaims
<1>1. IInv => RowsHoldClaims
  BY DEF IInv
<1> QED BY <1>1, SpecIInv, PTL

\* SettleBudgetClaim charges a workload once and at one cost, and no release,
\* retry or new reservation takes a charge back.
THEOREM ClaimsChargedOnce == Spec => ChargedOnce
<1>1. ASSUME IInv, [Next]_vars, NEW w \in Workloads, claim[w].status = "settled"
      PROVE  claim'[w] = claim[w]
  BY <1>1, SettledStays
<1>2. IInv /\ [Next]_vars => [\A w \in Workloads : claim[w].status = "settled" => claim'[w] = claim[w]]_vars
  BY <1>1
<1> QED BY <1>2, SpecIInv, PTL DEF Spec, ChargedOnce

-----------------------------------------------------------------------------
(* Sums over the workloads. SumFunction folds over a set in the order CHOOSE *)
(* takes its members; each fact about it is proved on a smallest subset that *)
(* would contradict it.                                                      *)

\* A family of subsets of a finite set that is not empty has a smallest member.
LEMMA MinimalSubset ==
  ASSUME NEW S, IsFiniteSet(S), NEW B \in SUBSET (SUBSET S), B # {}
  PROVE  \E m \in B : \A t \in SUBSET m : t # m => t \notin B
<1>1. IsWellFoundedOn(StrictSubsetOrdering(S), FiniteSubsetsOf(S))
  BY FS_StrictSubsetOrderingWellFounded
<1>2. B \subseteq FiniteSubsetsOf(S)
  BY FS_Subset DEF FiniteSubsetsOf
<1>3. PICK m \in B : \A t \in B : ~(<<t, m>> \in StrictSubsetOrdering(S))
  BY <1>1, <1>2, WFMin
<1>4. ASSUME NEW t \in SUBSET m, t # m, t \in B PROVE FALSE
  <2>1. <<t, m>> \in (SUBSET S) \X (SUBSET S) /\ <<t, m>>[1] = t /\ <<t, m>>[2] = m
    BY <1>4
  <2>2. <<t, m>> \in StrictSubsetOrdering(S)
    BY <1>4, <2>1 DEF StrictSubsetOrdering
  <2> QED BY <1>3, <1>4, <2>2
<1> QED BY <1>4

pick(s) == CHOOSE x \in s : TRUE

\* g adds up the values of f, over the subsets of A.
Adds(g, f, A) ==
  g = [s \in SUBSET A |-> IF s = {} THEN 0 ELSE f[pick(s)] + g[s \ {pick(s)}]]

\* The member the sum takes next.
LEMMA PickIsIn ==
  ASSUME NEW s, s # {}
  PROVE  pick(s) \in s /\ s \ {pick(s)} \in SUBSET s /\ s \ {pick(s)} # s
<1>1. pick(s) \in s
  BY DEF pick
<1> QED BY <1>1

\* What such a function is worth on the empty set and on any other.
LEMMA AddsAt ==
  ASSUME NEW f, NEW A, NEW g, Adds(g, f, A)
  PROVE  /\ g[{}] = 0
         /\ \A s \in SUBSET A : s # {} => g[s] = f[pick(s)] + g[s \ {pick(s)}]
<1>1. \A h : g = [s \in SUBSET A |-> IF s = {} THEN 0 ELSE f[pick(s)] + h[s \ {pick(s)}]] =>
        /\ g[{}] = 0
        /\ \A s \in SUBSET A : s # {} => g[s] = f[pick(s)] + h[s \ {pick(s)}]
  OBVIOUS
<1>2. g = [s \in SUBSET A |-> IF s = {} THEN 0 ELSE f[pick(s)] + g[s \ {pick(s)}]]
  BY ZenonT(40) DEF Adds
<1> QED BY <1>1, <1>2, Zenon

\* Two of them agree wherever both are defined.
LEMMA AddsUnique ==
  ASSUME NEW f, NEW A, NEW B, IsFiniteSet(A), NEW g, NEW h, Adds(g, f, A), Adds(h, f, B),
         NEW s \in SUBSET A, s \in SUBSET B
  PROVE  g[s] = h[s]
<1> DEFINE bad == {t \in SUBSET A : t \in SUBSET B /\ g[t] # h[t]}
<1> SUFFICES ASSUME bad # {} PROVE FALSE
  OBVIOUS
<1>1. bad \in SUBSET (SUBSET A)
  OBVIOUS
<1> HIDE DEF bad
<1>2. PICK m \in bad : \A t \in SUBSET m : t # m => t \notin bad
  BY <1>1, MinimalSubset, SMTT(20)
<1>3. m \in SUBSET A /\ m \in SUBSET B /\ g[m] # h[m]
  BY SMTT(20) DEF bad
<1>4. g[{}] = 0 /\ h[{}] = 0
  BY AddsAt, SMTT(20)
<1>5. m # {}
  BY <1>3, <1>4, SMTT(20)
<1>6. g[m] = f[pick(m)] + g[m \ {pick(m)}] /\ h[m] = f[pick(m)] + h[m \ {pick(m)}]
  BY <1>3, <1>5, AddsAt
<1>7. m \ {pick(m)} \in SUBSET m /\ m \ {pick(m)} # m
  BY <1>5, PickIsIn, SMTT(20)
<1>8. g[m \ {pick(m)}] = h[m \ {pick(m)}]
  BY <1>2, <1>3, <1>7 DEF bad
<1> QED BY <1>3, <1>6, <1>8

\* There is one for every finite set, so the one CHOOSE takes is one.
LEMMA AddsExists ==
  ASSUME NEW f, NEW S, IsFiniteSet(S)
  PROVE  \E g : Adds(g, f, S)
<1> DEFINE bad == {A \in SUBSET S : ~ \E g : Adds(g, f, A)}
<1> SUFFICES ASSUME bad # {} PROVE FALSE
  OBVIOUS
<1>1. bad \in SUBSET (SUBSET S)
  OBVIOUS
<1> HIDE DEF bad
<1>2. PICK A \in bad : \A t \in SUBSET A : t # A => t \notin bad
  BY <1>1, MinimalSubset
<1>3. A \in SUBSET S /\ ~ \E g : Adds(g, f, A)
  BY DEF bad
<1> DEFINE sol(t) == CHOOSE g : Adds(g, f, t)
           less(s) == s \ {pick(s)}
           G == [s \in SUBSET A |-> IF s = {} THEN 0 ELSE f[pick(s)] + sol(less(s))[less(s)]]
<1>4. ASSUME NEW t \in SUBSET A, t # A PROVE Adds(sol(t), f, t) /\ IsFiniteSet(t)
  BY <1>2, <1>3, <1>4, FS_Subset, ZenonT(40) DEF bad
<1>5. ASSUME NEW s \in SUBSET A, s # {}
      PROVE  less(s) \in SUBSET s /\ less(s) # s /\ less(s) \in SUBSET A /\ less(s) # A
  <2>1. less(s) \in SUBSET s /\ less(s) # s
    BY <1>5, PickIsIn, SMTT(20)
  <2> QED BY <1>5, <2>1
<1>6. ASSUME NEW s \in SUBSET A, s # {} PROVE G[less(s)] = sol(less(s))[less(s)]
  <2> DEFINE t == less(s)
  <2>1. t \in SUBSET A /\ t # A
    BY <1>5, <1>6
  <2>2. Adds(sol(t), f, t) /\ IsFiniteSet(t)
    BY <1>4, <2>1, Zenon
  <2> HIDE DEF t
  <2>3. CASE t = {}
    <3>1. sol(t)[t] = 0
      BY <2>2, <2>3, AddsAt
    <3>2. G[t] = 0
      BY <2>1, <2>3, SMTT(20)
    <3> QED BY <3>1, <3>2, SMTT(20) DEF t
  <2>4. CASE t # {}
    <3>1. sol(t)[t] = f[pick(t)] + sol(t)[less(t)]
      BY <2>1, <2>2, <2>4, AddsAt, SMTT(20)
    <3>2. less(t) \in SUBSET t /\ less(t) \in SUBSET A /\ less(t) # A
      BY <1>5, <2>1, <2>4, SMTT(20)
    <3>3. Adds(sol(less(t)), f, less(t))
      BY <1>4, <3>2, ZenonT(40)
    <3> HIDE DEF sol, less
    <3>4. sol(t)[less(t)] = sol(less(t))[less(t)]
      BY <2>2, <3>2, <3>3, AddsUnique, SMTT(20)
    <3>5. G[t] = f[pick(t)] + sol(less(t))[less(t)]
      BY <2>1, <2>4, SMTT(20)
    <3> QED BY <3>1, <3>4, <3>5, SMTT(20) DEF t
  <2> QED BY <2>3, <2>4
<1> HIDE DEF sol, less
<1>7. G = [s \in SUBSET A |-> IF s = {} THEN 0 ELSE f[pick(s)] + G[less(s)]]
  BY <1>6, Zenon
<1>8. Adds(G, f, A)
  BY <1>7, Zenon DEF Adds, less
<1> QED BY <1>3, <1>8

\* SumFunction, by which the budget is added up, is the value of such a function.
LEMMA SumIsAdded ==
  ASSUME NEW f, NEW S, DOMAIN f = S, IsFiniteSet(S)
  PROVE  \E g : Adds(g, f, S) /\ SumFunction(f) = g[S]
<1> DEFINE G == CHOOSE g : Adds(g, f, S)
<1>1. Adds(G, f, S)
  BY AddsExists
<1>2. SumFunction(f) = G[S]
  BY DEF SumFunction, SumFunctionOnSet, FoldFunctionOnSet, MapThenFoldSet, Adds, pick
<1> QED BY <1>1, <1>2, Zenon

\* What holds of the empty set and of a set whenever of the rest of it, holds.
LEMMA PickInduction ==
  ASSUME NEW S, IsFiniteSet(S), NEW good, {} \in good,
         \A s \in SUBSET S : s # {} /\ s \ {pick(s)} \in good => s \in good
  PROVE  \A s \in SUBSET S : s \in good
<1> DEFINE bad == {s \in SUBSET S : s \notin good}
<1> SUFFICES ASSUME bad # {} PROVE FALSE
  OBVIOUS
<1>1. bad \in SUBSET (SUBSET S)
  OBVIOUS
<1> HIDE DEF bad
<1>2. PICK m \in bad : \A t \in SUBSET m : t # m => t \notin bad
  BY <1>1, MinimalSubset
<1>3. m \in SUBSET S /\ m \notin good /\ m # {}
  BY ZenonT(40) DEF bad
<1>4. m \ {pick(m)} \in SUBSET m /\ m \ {pick(m)} # m
  BY <1>3, PickIsIn
<1>5. m \ {pick(m)} \in good
  BY <1>2, <1>3, <1>4, SMTT(20) DEF bad
<1> QED BY <1>3, <1>5

\* A sum of natural numbers is one.
LEMMA SumNat ==
  ASSUME NEW S, IsFiniteSet(S), NEW f \in [S -> Nat]
  PROVE  SumFunction(f) \in Nat
<1>1. PICK F : Adds(F, f, S) /\ SumFunction(f) = F[S]
  BY SumIsAdded, SMTT(20)
<1> DEFINE good == {s \in SUBSET S : F[s] \in Nat}
<1>2. {} \in good
  BY <1>1, AddsAt, SMTT(20)
<1>3. ASSUME NEW s \in SUBSET S, s # {}, s \ {pick(s)} \in good PROVE s \in good
  BY <1>1, <1>3, AddsAt, PickIsIn, SMTT(20)
<1> HIDE DEF good
<1>4. S \in good
  BY <1>2, <1>3, PickInduction, SMTT(20)
<1> QED BY <1>1, <1>4 DEF good

\* A sum of zeros is zero.
LEMMA SumZero ==
  ASSUME NEW S, IsFiniteSet(S), NEW f \in [S -> Nat], \A x \in S : f[x] = 0
  PROVE  SumFunction(f) = 0
<1>1. PICK F : Adds(F, f, S) /\ SumFunction(f) = F[S]
  BY SumIsAdded, SMTT(20)
<1> DEFINE good == {s \in SUBSET S : F[s] = 0}
<1>2. {} \in good
  BY <1>1, AddsAt, SMTT(20)
<1>3. ASSUME NEW s \in SUBSET S, s # {}, s \ {pick(s)} \in good PROVE s \in good
  BY <1>1, <1>3, AddsAt, PickIsIn, SMTT(20)
<1> HIDE DEF good
<1>4. S \in good
  BY <1>2, <1>3, PickInduction, SMTT(20)
<1> QED BY <1>1, <1>4 DEF good

\* A sum grows with its terms.
LEMMA SumMonotone ==
  ASSUME NEW S, IsFiniteSet(S), NEW f \in [S -> Nat], NEW g \in [S -> Nat],
         \A x \in S : f[x] =< g[x]
  PROVE  SumFunction(f) =< SumFunction(g)
<1>1. PICK F : Adds(F, f, S) /\ SumFunction(f) = F[S]
  BY SumIsAdded, SMTT(20)
<1>2. PICK G : Adds(G, g, S) /\ SumFunction(g) = G[S]
  BY SumIsAdded, SMTT(20)
<1> DEFINE good == {s \in SUBSET S : F[s] \in Nat /\ G[s] \in Nat /\ F[s] =< G[s]}
<1>3. {} \in good
  BY <1>1, <1>2, AddsAt, SMTT(20)
<1>4. ASSUME NEW s \in SUBSET S, s # {}, s \ {pick(s)} \in good PROVE s \in good
  <2>1. pick(s) \in S
    BY <1>4, PickIsIn, SMTT(20)
  <2>2. F[s] = f[pick(s)] + F[s \ {pick(s)}] /\ G[s] = g[pick(s)] + G[s \ {pick(s)}]
    BY <1>1, <1>2, <1>4, AddsAt, SMTT(20)
  <2> QED BY <1>4, <2>1, <2>2, SMTT(20)
<1> HIDE DEF good
<1>5. S \in good
  BY <1>3, <1>4, PickInduction, SMTT(20)
<1> QED BY <1>1, <1>2, <1>5, SMTT(20) DEF good

\* A sum changes by as much as its only term that does.
LEMMA SumOneChange ==
  ASSUME NEW S, IsFiniteSet(S), NEW f \in [S -> Nat], NEW g \in [S -> Nat], NEW w \in S,
         \A x \in S \ {w} : f[x] = g[x]
  PROVE  SumFunction(g) + f[w] = SumFunction(f) + g[w]
<1>1. PICK F : Adds(F, f, S) /\ SumFunction(f) = F[S]
  BY SumIsAdded
<1>2. PICK G : Adds(G, g, S) /\ SumFunction(g) = G[S]
  BY SumIsAdded, SMTT(20)
<1> DEFINE good == {s \in SUBSET S : /\ F[s] \in Nat /\ G[s] \in Nat
                                     /\ w \notin s => F[s] = G[s]
                                     /\ w \in s => G[s] + f[w] = F[s] + g[w]}
<1>3. {} \in good
  BY <1>1, <1>2, AddsAt, SMTT(20)
<1>4. ASSUME NEW s \in SUBSET S, s # {}, s \ {pick(s)} \in good PROVE s \in good
  <2>1. pick(s) \in S /\ pick(s) \in s
    BY <1>4, PickIsIn, SMTT(20)
  <2>2. F[s] = f[pick(s)] + F[s \ {pick(s)}] /\ G[s] = g[pick(s)] + G[s \ {pick(s)}]
    BY <1>1, <1>2, <1>4, AddsAt, SMTT(20)
  <2>3. CASE pick(s) = w
    BY <1>4, <2>1, <2>2, <2>3, SMTT(20)
  <2>4. CASE pick(s) # w
    BY <1>4, <2>1, <2>2, <2>4, SMTT(20)
  <2> QED BY <2>3, <2>4, SMTT(20)
<1> HIDE DEF good
<1>5. S \in good
  BY <1>3, <1>4, PickInduction
<1> QED BY <1>1, <1>2, <1>5, SMTT(20) DEF good

-----------------------------------------------------------------------------
(* The budget *)

\* A claim that takes no more than before leaves the sum no larger.
LEMMA SumShrinks ==
  ASSUME NEW cs \in [Workloads -> Claim], NEW ds \in [Workloads -> Claim],
         \A w \in Workloads : Backed(ds[w]) =< Backed(cs[w]),
         SumFunction(BackedBy(cs)) =< Limit
  PROVE  SumFunction(BackedBy(ds)) =< Limit
<1>1. BackedBy(cs) \in [Workloads -> Nat] /\ BackedBy(ds) \in [Workloads -> Nat]
  BY BackedValues DEF BackedBy
<1>2. \A w \in Workloads : BackedBy(ds)[w] =< BackedBy(cs)[w]
  BY SMTT(20) DEF BackedBy
<1>3. SumFunction(BackedBy(ds)) =< SumFunction(BackedBy(cs))
  BY <1>1, <1>2, SumMonotone, Bounded, SMTT(20)
<1>4. SumFunction(BackedBy(ds)) \in Nat /\ SumFunction(BackedBy(cs)) \in Nat
  BY <1>1, SumNat, Bounded, SMTT(20)
<1> QED BY <1>3, <1>4, Bounded, SMTT(20)

\* A claim of nothing that takes a price the budget still has leaves the sum within it.
LEMMA SumGrowsWithin ==
  ASSUME NEW cs \in [Workloads -> Claim], NEW w \in Workloads, NEW c \in Claim,
         Backed(cs[w]) = 0,
         SumFunction([x \in Workloads |-> Counted(cs[x])]) + Backed(c) =< Limit
  PROVE  SumFunction(BackedBy([cs EXCEPT ![w] = c])) =< Limit
<1> DEFINE ds == [cs EXCEPT ![w] = c]
           f == BackedBy(cs)  g == BackedBy(ds)
           all == [x \in Workloads |-> Counted(cs[x])]
<1>1. ds \in [Workloads -> Claim] /\ ds[w] = c /\ \A x \in Workloads \ {w} : ds[x] = cs[x]
  OBVIOUS
<1> HIDE DEF ds
<1>2. f \in [Workloads -> Nat] /\ g \in [Workloads -> Nat] /\ all \in [Workloads -> Nat]
  BY <1>1, BackedValues DEF BackedBy
<1>3. \A x \in Workloads : f[x] =< all[x]
  BY BackedValues DEF BackedBy
<1>4. f[w] = 0 /\ g[w] = Backed(c) /\ \A x \in Workloads \ {w} : f[x] = g[x]
  BY <1>1, SMTT(20) DEF BackedBy
<1> HIDE DEF f, g, all
<1>5. SumFunction(f) =< SumFunction(all)
  BY <1>2, <1>3, SumMonotone, Bounded, SMTT(20)
<1>6. SumFunction(g) + f[w] = SumFunction(f) + g[w]
  BY <1>2, <1>4, SumOneChange, Bounded, SMTT(20)
<1>7. SumFunction(f) \in Nat /\ SumFunction(g) \in Nat /\ SumFunction(all) \in Nat
  BY <1>2, SumNat, Bounded, SMTT(20)
<1>8. SumFunction(all) + Backed(c) =< Limit
  BY DEF all
<1>9. Backed(c) \in Nat
  BY BackedValues, SMTT(20)
<1>10. SumFunction(g) =< Limit
  BY <1>4, <1>5, <1>6, <1>7, <1>8, <1>9, Bounded, SMTT(20)
<1> QED BY <1>10 DEF g, ds

LEMMA BudgetSums ==
  /\ WithinBudget <=> SumFunction(BackedBy(claim)) =< Limit
  /\ Committed = SumFunction([w \in Workloads |-> Counted(claim[w])])
BY DEF WithinBudget, Committed, BackedBy, Backed, Counted

\* ReserveAndLinkBudgetClaim takes a price only if the budget still has it beside
\* everything reserved and charged, ReleaseBudgetClaim gives back what was reserved and
\* SettleBudgetClaim charges against it: whatever the interleaving, what is reserved and
\* charged stays within the budget, up to costs reported above their own reservation.
THEOREM BudgetNeverExceeded == Spec => []WithinBudget
<1>1. Init => WithinBudget
  <2> SUFFICES ASSUME Init PROVE SumFunction(BackedBy(claim)) =< Limit
    BY BudgetSums
  <2>1. BackedBy(claim) \in [Workloads -> Nat] /\ \A w \in Workloads : BackedBy(claim)[w] = 0
    BY DEF Init, BackedBy, Backed
  <2>2. SumFunction(BackedBy(claim)) = 0
    BY <2>1, SumZero, Bounded, SMTT(20)
  <2> QED BY <2>2, Bounded
<1>2. ASSUME IInv, IInv', WithinBudget, [Next]_vars PROVE WithinBudget'
  <2>1. claim \in [Workloads -> Claim] /\ claim' \in [Workloads -> Claim]
    BY <1>2 DEF IInv, TypeOK
  <2>2. SumFunction(BackedBy(claim)) =< Limit
    BY <1>2, BudgetSums
  <2>3. SUFFICES SumFunction(BackedBy(claim')) =< Limit
    BY DEF WithinBudget, BackedBy, Backed
  <2>4. CASE claim' = claim
    BY <2>2, <2>4
  <2>5. ASSUME NEW p \in Procs, ReleaseBudgetClaim(p) \/ SettleBudgetClaim(p)
        PROVE  \A w \in Workloads : Backed(claim'[w]) =< Backed(claim[w])
    BY <1>2, <2>1, <2>5, ReleaseFrees, SettleFrees
  <2>7. CASE ReserveAndLinkBudgetClaim
    <3>1. adm.work \in Workloads
      BY <1>2, <2>7 DEF ReserveAndLinkBudgetClaim, IInv, PassKnows, Trying
    <3>2. CASE claim' = claim
      BY <2>4, <3>2, SMTT(20)
    <3>3. CASE claim' # claim
      <4> DEFINE w == adm.work  price == Price[Head(adm.left)]
      <4>1. /\ claim[w].status \notin {"reserved", "settled"}
            /\ ~(Committed + price > Limit)
            /\ \E k : claim' = [claim EXCEPT ![w] = [status |-> "reserved", token |-> k,
                                                     cents |-> price, paid |-> 0]]
        BY <2>7, <3>3, Zenon DEF ReserveAndLinkBudgetClaim
      <4>2. PICK k : claim' = [claim EXCEPT ![w] = [status |-> "reserved", token |-> k,
                                                    cents |-> price, paid |-> 0]]
        BY <4>1, ZenonT(40)
      <4> DEFINE c == [status |-> "reserved", token |-> k, cents |-> price, paid |-> 0]
      <4>3. claim'[w] = c /\ claim'[w] \in Claim
        BY <2>1, <3>1, <4>2
      <4>4. Backed(claim[w]) = 0 /\ Backed(c) = price /\ price \in Nat
        BY <4>1, <4>3, SMTT(20) DEF Backed, Claim
      <4>5. Committed \in Nat
        <5>1. [x \in Workloads |-> Counted(claim[x])] \in [Workloads -> Nat]
          BY <2>1, BackedValues, SMTT(20)
        <5> QED BY <5>1, BudgetSums, SumNat, Bounded, SMTT(20)
      <4>6. SumFunction([x \in Workloads |-> Counted(claim[x])]) + Backed(c) =< Limit
        <5> HIDE DEF c, price, w
        <5>1. Committed + price =< Limit
          BY <4>1, <4>4, <4>5, Bounded, SMTT(20)
        <5> QED BY <4>4, <5>1, BudgetSums, SMTT(20)
      <4>7. claim' = [claim EXCEPT ![w] = c]
        BY <4>2
      <4> HIDE DEF c, w
      <4> QED BY <2>1, <3>1, <4>3, <4>4, <4>6, <4>7, SumGrowsWithin, Zenon DEF w
    <3> QED BY <3>2, <3>3, SMTT(20)
  <2>8. (\A w \in Workloads : Backed(claim'[w]) =< Backed(claim[w])) => SumFunction(BackedBy(claim')) =< Limit
    BY <2>1, <2>2, SumShrinks
  <2> QED BY <1>2, <2>4, <2>5, <2>7, <2>8, ClaimSteps, SMTT(20)
<1> QED BY <1>1, <1>2, SpecIInv, PTL DEF Spec

=============================================================================
