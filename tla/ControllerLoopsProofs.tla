------------------------ MODULE ControllerLoopsProofs ------------------------
(***************************************************************************)
(* The controller's two loops in every instance.  The work queue: zero-gap  *)
(* dispatch for any number of jobs, items, workers and slots.  The webhook  *)
(* outbox: every duplicate is explained, for any number of events,          *)
(* destinations, faults and kills.                                          *)
(***************************************************************************)
EXTENDS JobQueue, NotificationOutbox, FiniteSetTheorems, TLAPS

----------------------------------------------------------------------------
(* The work queue. *)

JobRow == [status : {"new", "running"} \cup Closed, queued : Int, running : Int,
           success : Int, failed : Int]
ItemRow == [state : {"new", "queued", "leased", "running", "success", "failed", "cancelled"},
            owner : Workers \cup {NoWorker}, attempt : Nat,
            tried : SUBSET (Workers \cup {NoWorker})]
Call == [item : Items, worker : Workers, tok : Nat, started : BOOLEAN]

TypeOK ==
    /\ job \in [Jobs -> JobRow]
    /\ item \in [Items -> ItemRow]
    /\ registered \in SUBSET Workers
    /\ active \in [Workers -> Nat]
    /\ leaseTok \in [Items -> Nat]
    /\ calls \in SUBSET Call
    /\ reaps \in Nat

\* The manager never believes more slots of a worker occupied than it measured.
SlotsRespected == \A w \in Workers : active[w] <= Slots[w]

IInv == TypeOK /\ ZeroGapDispatch /\ SlotsRespected

\* A finite set of numbers has a largest one: a smallest subset without one would
\* have one as soon as some element is put back.
LEMMA LargestExists ==
    ASSUME NEW S \in SUBSET Int, IsFiniteSet(S), S # {}
    PROVE  \E m \in S : \A x \in S : x <= m
<1> DEFINE Largest(A, m) == m \in A /\ \A x \in A : x <= m
           bad == {A \in FiniteSubsetsOf(S) : A # {} /\ ~ \E m \in S : Largest(A, m)}
<1> SUFFICES ASSUME bad # {} PROVE FALSE
  BY DEF FiniteSubsetsOf
<1>1. IsWellFoundedOn(StrictSubsetOrdering(S), FiniteSubsetsOf(S))
  BY FS_StrictSubsetOrderingWellFounded
<1>2. PICK A \in bad : \A B \in bad : <<B, A>> \notin StrictSubsetOrdering(S)
  <2>1. bad \subseteq FiniteSubsetsOf(S)
    OBVIOUS
  <2> HIDE DEF bad
  <2> QED BY <1>1, <2>1, WFMin
<1>3. PICK x \in A : x \in Int
  BY Zenon DEF FiniteSubsetsOf
<1> DEFINE B == A \ {x}
<1>4. B \in FiniteSubsetsOf(S) /\ <<B, A>> \in StrictSubsetOrdering(S)
  BY <1>3, FS_Subset, Zenon DEF FiniteSubsetsOf, StrictSubsetOrdering
<1>5. CASE B = {}
  <2>1. Largest(A, x)
    BY <1>3, <1>5
  <2> QED BY <2>1 DEF FiniteSubsetsOf
<1>6. CASE B # {}
  <2>1. PICK m \in S : Largest(B, m)
    BY <1>2, <1>4, <1>6
  <2>2. Largest(A, IF m >= x THEN m ELSE x)
    BY <1>3, <2>1 DEF FiniteSubsetsOf
  <2> QED BY <2>2 DEF FiniteSubsetsOf
<1> QED BY <1>5, <1>6

\* The updates of leaseLocked and of the progress counters keep the rows' types.
LEMMA LeasedRow ==
    ASSUME NEW r \in ItemRow, NEW w \in Workers \cup {NoWorker}, NEW n \in Nat
    PROVE  [r EXCEPT !.state = "leased", !.owner = w, !.attempt = n] \in ItemRow
  BY Zenon DEF ItemRow

LEMMA CountedRow ==
    ASSUME NEW r \in JobRow, NEW q \in Int, NEW n \in Int
    PROVE  /\ [r EXCEPT !.queued = q, !.running = n] \in JobRow
           /\ [r EXCEPT !.queued = q, !.running = n].status = r.status
  BY Zenon DEF JobRow

LEMMA RestatedRow ==
    ASSUME NEW r \in JobRow, NEW s \in {"new", "running"} \cup Closed, NEW q \in Int
    PROVE  /\ [r EXCEPT !.status = s, !.queued = q] \in JobRow
           /\ [r EXCEPT !.status = s, !.queued = q].status = s
  BY ZenonT(40) DEF JobRow

\* What tryDispatchLocked leaves behind, whatever the operation before it did to
\* the queue: well-formed tables, no gap for the workers it was given, and no more
\* picks of a worker than it has slots.
LEMMA DispatchLeavesNoGap ==
    ASSUME NEW jb \in [Jobs -> JobRow], NEW it \in [Items -> ItemRow],
           NEW ac \in [Workers -> Nat], NEW tk \in [Items -> Nat],
           NEW cl \in SUBSET Call, NEW reg \in SUBSET Workers,
           TryDispatch(jb, it, ac, tk, cl, reg)
    PROVE  /\ job' \in [Jobs -> JobRow]
           /\ item' \in [Items -> ItemRow]
           /\ active' \in [Workers -> Nat]
           /\ leaseTok' \in [Items -> Nat]
           /\ calls' \in SUBSET Call
           /\ \A i \in Items, w \in reg :
                item'[i].state = "queued" /\ job'[JobOf[i]].status = "running"
                  /\ w \notin item'[i].tried => active'[w] >= Slots[w]
           /\ (\A w \in Workers : ac[w] <= Slots[w]) => SlotsRespected'
<1> DEFINE ready == {i \in Items : it[i].state = "queued" /\ jb[JobOf[i]].status \notin Closed}
<1>1. PICK pick \in [ready -> Workers \cup {NoWorker}] :
        LET leased == {i \in ready : pick[i] # NoWorker}
            count(j) == Cardinality(leased \cap ItemsOf(j)) IN
        /\ \A i \in ready :
             IF Eligible(it, ac, pick, reg, i) = {} THEN pick[i] = NoWorker
             ELSE pick[i] \in Eligible(it, ac, pick, reg, i)
        /\ item' = [i \in Items |-> IF i \in leased
               THEN [it[i] EXCEPT !.state = "leased", !.owner = pick[i], !.attempt = @ + 1]
               ELSE it[i]]
        /\ job' = [j \in Jobs |-> [jb[j] EXCEPT !.queued = @ - count(j),
                                                !.running = @ + count(j)]]
        /\ active' = [w \in Workers |-> ac[w] + Cardinality({i \in leased : pick[i] = w})]
        /\ leaseTok' = [i \in Items |-> IF i \in leased THEN tk[i] + 1 ELSE tk[i]]
        /\ calls' = cl \cup {[item |-> i, worker |-> pick[i], tok |-> tk[i] + 1,
                              started |-> FALSE] : i \in leased}
  BY Zenon DEF TryDispatch
<1> DEFINE leased == {i \in ready : pick[i] # NoWorker}
           count(j) == Cardinality(leased \cap ItemsOf(j))
           taken(w) == {i \in leased : pick[i] = w}
<1>2. /\ item' = [i \in Items |-> IF i \in leased
             THEN [it[i] EXCEPT !.state = "leased", !.owner = pick[i], !.attempt = @ + 1]
             ELSE it[i]]
      /\ job' = [j \in Jobs |-> [jb[j] EXCEPT !.queued = @ - count(j), !.running = @ + count(j)]]
      /\ active' = [w \in Workers |-> ac[w] + Cardinality(taken(w))]
      /\ leaseTok' = [i \in Items |-> IF i \in leased THEN tk[i] + 1 ELSE tk[i]]
      /\ calls' = cl \cup {[item |-> i, worker |-> pick[i], tok |-> tk[i] + 1,
                            started |-> FALSE] : i \in leased}
  BY <1>1, Zenon
<1>3. /\ \A j \in Jobs : count(j) \in Nat
      /\ \A w \in Workers : IsFiniteSet(taken(w)) /\ Cardinality(taken(w)) \in Nat
  <2>1. IsFiniteSet(Items)
    BY ItemsAssumption
  <2>2. \A j \in Jobs : IsFiniteSet(leased \cap ItemsOf(j))
    BY <2>1, FS_Subset
  <2>3. \A w \in Workers : IsFiniteSet(taken(w))
    BY <2>1, FS_Subset
  <2> QED BY <2>2, <2>3, FS_CardinalityType, SMTT(20)
<1>4. /\ leased \subseteq Items
      /\ \A i \in leased : pick[i] \in Workers
  OBVIOUS
<1>5. item' \in [Items -> ItemRow]
  <2> HIDE DEF leased
  <2>1. ASSUME NEW i \in leased
        PROVE  [it[i] EXCEPT !.state = "leased", !.owner = pick[i], !.attempt = @ + 1] \in ItemRow
    <3>1. pick[i] \in Workers /\ it[i] \in ItemRow
      BY <1>4
    <3>2. it[i].attempt + 1 \in Nat
      BY <3>1 DEF ItemRow
    <3> QED BY <3>1, <3>2, LeasedRow, Zenon
  <2> QED BY <1>2, <2>1, ZenonT(40)
<1>6. /\ job' \in [Jobs -> JobRow]
      /\ \A j \in Jobs : job'[j].status = jb[j].status
  <2> HIDE DEF count
  <2>1. ASSUME NEW j \in Jobs
        PROVE  /\ [jb[j] EXCEPT !.queued = @ - count(j), !.running = @ + count(j)] \in JobRow
               /\ [jb[j] EXCEPT !.queued = @ - count(j), !.running = @ + count(j)].status
                    = jb[j].status
    <3>1. jb[j] \in JobRow
      OBVIOUS
    <3>2. jb[j].queued - count(j) \in Int /\ jb[j].running + count(j) \in Int
      BY <1>3, <3>1 DEF JobRow
    <3> QED BY <3>1, <3>2, CountedRow, ZenonT(40)
  <2> QED BY <1>2, <2>1, ZenonT(40)
<1>7. active' \in [Workers -> Nat]
  <2> HIDE DEF taken
  <2>1. \A w \in Workers : ac[w] + Cardinality(taken(w)) \in Nat
    BY <1>3
  <2> QED BY <1>2, <2>1, Zenon
<1>8. leaseTok' \in [Items -> Nat]
  <2>1. \A i \in Items : tk[i] \in Nat /\ tk[i] + 1 \in Nat
    OBVIOUS
  <2> HIDE DEF leased
  <2> QED BY <1>2, <2>1, Zenon
<1>9. calls' \in SUBSET Call
  <2> HIDE DEF leased
  <2>1. \A i \in leased : [item |-> i, worker |-> pick[i], tok |-> tk[i] + 1, started |-> FALSE]
                            \in Call
    BY <1>4 DEF Call
  <2> QED BY <1>2, <2>1, Zenon
\* An item that stays queued found no eligible worker: each one it has not tried
\* was full with the items before it, which are among those leased now.
<1>10. ASSUME NEW i \in Items, NEW w \in reg,
             item'[i].state = "queued", job'[JobOf[i]].status = "running",
             w \notin item'[i].tried
      PROVE  active'[w] >= Slots[w]
  <2>1. i \notin leased /\ item'[i] = it[i]
    <3>1. CASE i \in leased
      <4>1. item'[i].state = "leased"
        BY <1>2, <3>1, ZenonT(40) DEF ItemRow
      <4> QED BY <1>10, <4>1
    <3>2. CASE i \notin leased
      BY <1>2, <3>2, Zenon
    <3> QED BY <3>1, <3>2
  <2>2. jb[JobOf[i]].status = "running"
    BY <1>6, <1>10, ItemsAssumption
  <2>3. i \in ready /\ pick[i] = NoWorker
    BY <1>10, <2>1, <2>2 DEF Closed
  <2>4. NoWorker \notin Eligible(it, ac, pick, reg, i)
    BY SlotsAssumption DEF Eligible
  <2>5. Eligible(it, ac, pick, reg, i) = {}
    BY <1>1, <2>3, <2>4, Zenon
  <2> DEFINE before == {k \in DOMAIN pick : k < i /\ pick[k] = w}
  <2>6. ~(ac[w] + Cardinality(before) < Slots[w])
    BY <1>10, <2>1, <2>5 DEF Eligible
  <2>7. before \subseteq taken(w)
    BY SlotsAssumption
  <2>8. IsFiniteSet(taken(w)) /\ w \in Workers
    BY <1>3
  <2> HIDE DEF before, taken
  <2>9. /\ Cardinality(before) \in Nat
        /\ Cardinality(taken(w)) \in Nat
        /\ Cardinality(before) <= Cardinality(taken(w))
    BY <2>7, <2>8, FS_Subset, FS_CardinalityType
  <2>10. active'[w] = ac[w] + Cardinality(taken(w))
    BY <1>2, <2>8, Zenon
  <2>11. Slots[w] \in Nat /\ ac[w] \in Nat
    BY <2>8, SlotsAssumption
  <2> QED BY <2>6, <2>9, <2>10, <2>11
\* The last item a worker was picked for found a slot free beside all the others.
<1>11. ASSUME \A w \in Workers : ac[w] <= Slots[w], NEW w \in Workers
       PROVE  active'[w] <= Slots[w]
  <2>1. active'[w] = ac[w] + Cardinality(taken(w))
    BY <1>2, Zenon
  <2>2. Slots[w] \in Nat /\ ac[w] \in Nat /\ IsFiniteSet(taken(w))
    BY <1>3, SlotsAssumption
  <2>3. CASE taken(w) = {}
    <3>1. active'[w] = ac[w] + Cardinality({})
      BY <2>1, <2>3, Zenon
    <3> QED BY <1>11, <2>2, <3>1, FS_EmptySet
  <2>4. CASE taken(w) # {}
    <3>1. taken(w) \in SUBSET Int
      <4>1. taken(w) \subseteq Items
        OBVIOUS
      <4>2. \A k \in Items : k \in Int
        BY ItemsAssumption
      <4> HIDE DEF taken
      <4> QED BY <4>1, <4>2
    <3>2. PICK last \in taken(w) : \A k \in taken(w) : k <= last
      <4> HIDE DEF taken
      <4> QED BY <2>2, <2>4, <3>1, LargestExists
    <3> DEFINE before == {k \in DOMAIN pick : k < last /\ pick[k] = w}
    <3>3. last \in ready /\ pick[last] = w /\ w # NoWorker
      BY SlotsAssumption
    <3>4. w \in Eligible(it, ac, pick, reg, last)
      BY <1>1, <3>3, Zenon
    <3>5. ac[w] + Cardinality(before) < Slots[w]
      BY <3>4 DEF Eligible
    <3>6. before = taken(w) \ {last}
      <4>1. \A k : k \in taken(w) <=> k \in DOMAIN pick /\ pick[k] = w
        BY <3>3
      <4> HIDE DEF taken
      <4>2. \A k \in taken(w) : k < last <=> k # last
        BY <3>1, <3>2, SMTT(20)
      <4> QED BY <4>1, <4>2
    <3> HIDE DEF before, taken
    <3>7. Cardinality(before) = Cardinality(taken(w)) - 1 /\ Cardinality(taken(w)) \in Nat
      BY <2>2, <3>2, <3>6, FS_RemoveElement, FS_CardinalityType
    <3> QED BY <2>1, <2>2, <3>5, <3>7
  <2> QED BY <2>3, <2>4
<1> QED BY <1>5, <1>6, <1>7, <1>8, <1>9, <1>10, <1>11 DEF SlotsRespected

\* What an operation that ends with tryDispatchLocked has to show: the tables it
\* hands over are well formed, and it occupies no slots itself.
LEMMA DispatchPreserves ==
    ASSUME TypeOK, NEW jb \in [Jobs -> JobRow], NEW it \in [Items -> ItemRow],
           NEW ac \in [Workers -> Nat], NEW tk \in [Items -> Nat],
           NEW cl \in SUBSET Call,
           \A w \in Workers : ac[w] <= Slots[w],
           registered' \in SUBSET Workers, reaps' \in Nat,
           TryDispatch(jb, it, ac, tk, cl, registered')
    PROVE  IInv'
  BY DispatchLeavesNoGap, Zenon DEF IInv, TypeOK, ZeroGapDispatch

\* A failed attempt, of an item in either reader of its owner.
LEMMA FailedRows ==
    ASSUME TypeOK, NEW i \in Items, NEW w \in Workers \cup {NoWorker}, NEW r \in JobRow
    PROVE  FailedItem(i, w) \in ItemRow /\ FailedJob(r, i, w) \in JobRow
<1>1. item[i] \in ItemRow
  BY DEF TypeOK
<1>2. FailedItem(i, w) \in ItemRow
  BY <1>1, Zenon DEF FailedItem, ItemRow
<1>3. /\ r.failed \in Int /\ r.failed + 1 \in Int
      /\ r.queued \in Int /\ r.queued + 1 \in Int
  BY DEF JobRow
<1>4. ASSUME NEW f \in Int, NEW q \in Int PROVE [r EXCEPT !.failed = f, !.queued = q] \in JobRow
  BY Zenon DEF JobRow
<1>5. FailedJob(r, i, w) \in JobRow
  BY <1>3, <1>4, Zenon DEF FailedJob
<1> QED BY <1>2, <1>5

LEMMA RecomputedRows ==
    ASSUME NEW jb \in [Jobs -> JobRow], NEW j \in Jobs
    PROVE  Recomputed(jb, j) \in [Jobs -> JobRow]
<1> DEFINE status == IF \/ jb[j].status \in {"cancelled", "paused"}
                        \/ jb[j].queued > 0 \/ jb[j].running > 0 THEN jb[j].status
                     ELSE IF jb[j].failed > 0 THEN "completed_with_errors" ELSE "completed"
<1>1. status \in {"new", "running"} \cup Closed
  BY DEF JobRow, Closed
<1>2. Recomputed(jb, j) = [jb EXCEPT ![j].status = status]
  BY DEF Recomputed
<1> HIDE DEF status
<1>3. [jb[j] EXCEPT !.status = status] \in JobRow
  BY <1>1 DEF JobRow
<1> QED BY <1>2, <1>3

LEMMA InitIInv == Init => IInv
<1> SUFFICES ASSUME Init PROVE IInv
  OBVIOUS
<1>1. TypeOK
  BY DEF Init, TypeOK, JobRow, ItemRow
<1>2. ZeroGapDispatch
  BY DEF Init, ZeroGapDispatch
<1>3. SlotsRespected
  BY SlotsAssumption DEF Init, SlotsRespected
<1> QED BY <1>1, <1>2, <1>3 DEF IInv

LEMMA SubmitPreserves ==
    ASSUME IInv, NEW j \in Jobs, SubmitJob(j)
    PROVE  IInv'
<1> DEFINE jb == [job EXCEPT ![j] = [@ EXCEPT !.status = "running",
                                              !.queued = Cardinality(ItemsOf(j))]]
           it == [i \in Items |-> IF JobOf[i] = j THEN [item[i] EXCEPT !.state = "queued"]
                                  ELSE item[i]]
<1>1. Cardinality(ItemsOf(j)) \in Nat
  BY ItemsAssumption, FS_Subset, FS_CardinalityType DEF ItemsOf
<1>2. jb \in [Jobs -> JobRow]
  <2>1. /\ job[j] \in JobRow
        /\ "running" \in {"new", "running"} \cup Closed
        /\ Cardinality(ItemsOf(j)) \in Int
    BY <1>1 DEF IInv, TypeOK
  <2>2. [job[j] EXCEPT !.status = "running", !.queued = Cardinality(ItemsOf(j))] \in JobRow
    BY <2>1, RestatedRow, Zenon
  <2> QED BY <2>2 DEF IInv, TypeOK
<1>3. it \in [Items -> ItemRow]
  BY DEF IInv, TypeOK, ItemRow
<1>4. /\ TryDispatch(jb, it, active, leaseTok, calls, registered')
      /\ registered' = registered /\ reaps' = reaps
  BY DEF SubmitJob
<1> HIDE DEF jb, it
<1> QED BY <1>2, <1>3, <1>4, DispatchPreserves DEF IInv, TypeOK, SlotsRespected

LEMMA CompletePreserves ==
    ASSUME IInv, NEW c \in calls, NEW ok \in BOOLEAN, CompleteItem(c, ok)
    PROVE  IInv'
<1> DEFINE i == c.item
           j == JobOf[i]
           ended == [job[j] EXCEPT !.running = @ - 1]
           released == Release(active, c.worker)
           settledJob == IF ok THEN [ended EXCEPT !.success = @ + 1]
                         ELSE FailedJob(ended, i, c.worker)
           settledItem == IF ok THEN [item[i] EXCEPT !.state = "success"]
                          ELSE FailedItem(i, c.worker)
<1>1. /\ i \in Items /\ j \in Jobs /\ c.worker \in Workers
      /\ job[j] \in JobRow /\ item[i] \in ItemRow
  BY ItemsAssumption, Zenon DEF IInv, TypeOK, Call
<1>2. /\ released \in [Workers -> Nat]
      /\ \A w \in Workers : released[w] <= Slots[w]
  <2>1. active[c.worker] > 0 => active[c.worker] - 1 \in Nat
    BY <1>1 DEF IInv, TypeOK
  <2>2. released \in [Workers -> Nat]
    BY <1>1, <2>1 DEF IInv, TypeOK, Release
  <2>3. ASSUME NEW w \in Workers PROVE released[w] <= active[w]
    BY <1>1 DEF IInv, TypeOK, Release
  <2> HIDE DEF released
  <2>4. ASSUME NEW w \in Workers PROVE released[w] <= Slots[w]
    BY <2>2, <2>3, SlotsAssumption DEF IInv, TypeOK, SlotsRespected
  <2> QED BY <2>2, <2>4
<1>3. ended \in JobRow
  BY <1>1 DEF JobRow
<1>4. [job EXCEPT ![j] = ended] \in [Jobs -> JobRow]
  BY <1>1, <1>3 DEF IInv, TypeOK
<1>5. [item EXCEPT ![i].state = "cancelled"] \in [Items -> ItemRow]
  BY <1>1 DEF IInv, TypeOK, ItemRow
<1>6. settledJob \in JobRow
  <2> HIDE DEF ended
  <2>1. [ended EXCEPT !.success = @ + 1] \in JobRow
    BY <1>3 DEF JobRow
  <2> QED BY <1>1, <1>3, <2>1, FailedRows DEF IInv
<1>7. settledItem \in ItemRow
  <2>1. [item[i] EXCEPT !.state = "success"] \in ItemRow
    BY <1>1 DEF ItemRow
  <2> QED BY <1>1, <2>1, FailedRows DEF IInv
<1>8. /\ Recomputed([job EXCEPT ![j] = settledJob], j) \in [Jobs -> JobRow]
      /\ [item EXCEPT ![i] = settledItem] \in [Items -> ItemRow]
  <2> HIDE DEF settledJob, settledItem
  <2>1. [job EXCEPT ![j] = settledJob] \in [Jobs -> JobRow]
    BY <1>1, <1>6 DEF IInv, TypeOK
  <2> QED BY <1>1, <1>7, <2>1, RecomputedRows, Zenon DEF IInv, TypeOK
<1>9. \E jb \in [Jobs -> JobRow], it \in [Items -> ItemRow] :
        TryDispatch(jb, it, released, leaseTok, calls \ {c}, registered)
  <2>1. job \in [Jobs -> JobRow] /\ item \in [Items -> ItemRow]
    BY DEF IInv, TypeOK
  <2>2. \/ TryDispatch(job, item, released, leaseTok, calls \ {c}, registered)
        \/ TryDispatch([job EXCEPT ![j] = ended], [item EXCEPT ![i].state = "cancelled"],
                       released, leaseTok, calls \ {c}, registered)
        \/ TryDispatch(Recomputed([job EXCEPT ![j] = settledJob], j),
                       [item EXCEPT ![i] = settledItem],
                       released, leaseTok, calls \ {c}, registered)
    BY DEF CompleteItem
  <2> HIDE DEF ended, settledJob, settledItem, released
  <2> QED BY <1>4, <1>5, <1>8, <2>1, <2>2, Zenon
<1>10. registered' = registered /\ reaps' = reaps /\ calls \ {c} \in SUBSET Call
  BY DEF CompleteItem, IInv, TypeOK
<1> HIDE DEF released
<1> QED BY <1>2, <1>9, <1>10, DispatchPreserves DEF IInv, TypeOK

LEMMA ReapPreserves ==
    ASSUME IInv, NEW expired \in SUBSET Items, ReapExpiredLeases(expired)
    PROVE  IInv'
<1> DEFINE touched(j) == expired \cap ItemsOf(j)
           Dead(i) == FailedItem(i, item[i].owner).state = "failed"
           run(j) == Cardinality(touched(j))
           fail(j) == Cardinality({i \in touched(j) : Dead(i)})
           queue(j) == Cardinality({i \in touched(j) : ~Dead(i)})
           owned(w) == Cardinality({i \in expired : item[i].owner = w})
           jb == [j \in Jobs |-> [job[j] EXCEPT !.running = @ - run(j), !.failed = @ + fail(j),
                                                !.queued = @ + queue(j)]]
           jobs == [j \in Jobs |-> IF touched(j) = {} THEN jb[j] ELSE Recomputed(jb, j)[j]]
           it == [i \in Items |-> IF i \in expired THEN FailedItem(i, item[i].owner) ELSE item[i]]
           ac == [w \in Workers |-> IF active[w] > owned(w) THEN active[w] - owned(w) ELSE 0]
           tk == [i \in Items |-> IF i \in expired THEN leaseTok[i] + 1 ELSE leaseTok[i]]
<1>1. /\ TryDispatch(jobs, it, ac, tk, calls, registered)
      /\ registered' = registered /\ reaps' = reaps + 1
  BY Zenon DEF ReapExpiredLeases
<1>2. /\ \A j \in Jobs : run(j) \in Nat /\ fail(j) \in Nat /\ queue(j) \in Nat
      /\ \A w \in Workers : owned(w) \in Nat
  <2>1. \A S \in SUBSET Items : Cardinality(S) \in Nat
    BY ItemsAssumption, FS_Subset, FS_CardinalityType, Zenon
  <2>2. ASSUME NEW j \in Jobs
        PROVE  /\ touched(j) \in SUBSET Items
               /\ {i \in touched(j) : Dead(i)} \in SUBSET Items
               /\ {i \in touched(j) : ~Dead(i)} \in SUBSET Items
    OBVIOUS
  <2>3. ASSUME NEW w \in Workers PROVE {i \in expired : item[i].owner = w} \in SUBSET Items
    OBVIOUS
  <2> QED BY <2>1, <2>2, <2>3
<1> HIDE DEF run, fail, queue, owned
<1>3. jb \in [Jobs -> JobRow]
  <2>1. ASSUME NEW r \in JobRow, NEW a \in Int, NEW b \in Int, NEW d \in Int
        PROVE  [r EXCEPT !.running = a, !.failed = b, !.queued = d] \in JobRow
    BY Zenon DEF JobRow
  <2>2. ASSUME NEW j \in Jobs
        PROVE  /\ job[j] \in JobRow
               /\ job[j].running - run(j) \in Int
               /\ job[j].failed + fail(j) \in Int
               /\ job[j].queued + queue(j) \in Int
    BY <1>2 DEF IInv, TypeOK, JobRow
  <2>3. ASSUME NEW j \in Jobs
        PROVE  [job[j] EXCEPT !.running = @ - run(j), !.failed = @ + fail(j),
                              !.queued = @ + queue(j)] \in JobRow
    BY <2>1, <2>2, Zenon
  <2> QED BY <2>3, Zenon
<1>4. jobs \in [Jobs -> JobRow]
  <2> HIDE DEF jb, touched
  <2> QED BY <1>3, RecomputedRows
<1>5. it \in [Items -> ItemRow]
  <2>1. \A i \in Items : item[i] \in ItemRow /\ item[i].owner \in Workers \cup {NoWorker}
    BY DEF IInv, TypeOK, ItemRow
  <2>2. \E r \in JobRow : TRUE
    <3>1. [status |-> "new", queued |-> 0, running |-> 0, success |-> 0, failed |-> 0] \in JobRow
      BY DEF JobRow
    <3> QED BY <3>1
  <2>3. \A i \in Items : FailedItem(i, item[i].owner) \in ItemRow
    BY <2>1, <2>2, FailedRows DEF IInv
  <2> QED BY <2>1, <2>3
<1>6. /\ ac \in [Workers -> Nat]
      /\ \A w \in Workers : ac[w] <= Slots[w]
  <2>1. \A w \in Workers : active[w] > owned(w) => active[w] - owned(w) \in Nat
    BY <1>2 DEF IInv, TypeOK
  <2>2. ac \in [Workers -> Nat]
    BY <2>1
  <2>3. ASSUME NEW w \in Workers PROVE ac[w] <= active[w]
    BY <1>2 DEF IInv, TypeOK
  <2> HIDE DEF ac
  <2>4. ASSUME NEW w \in Workers PROVE ac[w] <= Slots[w]
    BY <2>2, <2>3, SlotsAssumption DEF IInv, TypeOK, SlotsRespected
  <2> QED BY <2>2, <2>4
<1>7. tk \in [Items -> Nat]
  <2>1. \A i \in Items : leaseTok[i] \in Nat /\ leaseTok[i] + 1 \in Nat
    BY DEF IInv, TypeOK
  <2> QED BY <2>1
<1>8. reaps + 1 \in Nat
  BY DEF IInv, TypeOK
<1> HIDE DEF jobs, it, ac, tk
<1> QED BY <1>1, <1>4, <1>5, <1>6, <1>7, <1>8, DispatchPreserves DEF IInv, TypeOK

LEMMA CancelPreserves ==
    ASSUME IInv, NEW j \in Jobs, CancelJob(j)
    PROVE  IInv'
<1> DEFINE queued == {i \in ItemsOf(j) : item[i].state = "queued"}
           left == job[j].queued - Cardinality(queued)
           r == [job[j] EXCEPT !.status = "cancelled", !.queued = left]
<1>1. /\ item' = [i \in Items |-> IF i \in queued THEN [item[i] EXCEPT !.state = "cancelled"]
                                   ELSE item[i]]
      /\ job' = [job EXCEPT ![j] = r]
      /\ UNCHANGED <<registered, active, leaseTok, calls, reaps>>
  BY DEF CancelJob
<1>2. Cardinality(queued) \in Nat
  BY ItemsAssumption, FS_Subset, FS_CardinalityType DEF ItemsOf
<1> HIDE DEF queued
<1>3. /\ job[j] \in JobRow
      /\ "cancelled" \in {"new", "running"} \cup Closed
      /\ left \in Int
  BY <1>2 DEF IInv, TypeOK, JobRow, Closed
<1> HIDE DEF left
<1>4. r \in JobRow /\ r.status = "cancelled"
  BY <1>3, RestatedRow, Zenon
<1> HIDE DEF r
<1>5. job' \in [Jobs -> JobRow] /\ job'[j].status = "cancelled"
  BY <1>1, <1>4 DEF IInv, TypeOK
<1>6. item' \in [Items -> ItemRow]
  <2>1. \A i \in Items : [item[i] EXCEPT !.state = "cancelled"] \in ItemRow
    BY DEF IInv, TypeOK, ItemRow
  <2> QED BY <1>1, <2>1 DEF IInv, TypeOK
<1>7. TypeOK'
  BY <1>1, <1>5, <1>6 DEF IInv, TypeOK
<1>8. ZeroGapDispatch'
  BY <1>1, <1>5, ItemsAssumption DEF IInv, TypeOK, ZeroGapDispatch, JobRow, ItemRow
<1> QED BY <1>1, <1>7, <1>8 DEF IInv, SlotsRespected

\* One step per operation of the manager.
LEMMA NextIInv == IInv /\ [Next]_vars => IInv'
<1> SUFFICES ASSUME IInv, [Next]_vars PROVE IInv'
  OBVIOUS
<1>1. ASSUME NEW w \in Workers, RegisterWorker(w) PROVE IInv'
  BY <1>1, DispatchPreserves, Zenon DEF RegisterWorker, IInv, TypeOK, SlotsRespected
<1>2. ASSUME NEW j \in Jobs, SubmitJob(j) PROVE IInv'
  BY <1>2, SubmitPreserves
<1>3. ASSUME NEW j \in Jobs, PauseJob(j) PROVE IInv'
  <2>1. TypeOK'
    BY <1>3 DEF PauseJob, IInv, TypeOK, JobRow, Closed
  <2>2. ZeroGapDispatch'
    BY <1>3, ItemsAssumption DEF PauseJob, IInv, TypeOK, ZeroGapDispatch, JobRow
  <2> QED BY <1>3, <2>1, <2>2 DEF PauseJob, IInv, SlotsRespected
<1>4. ASSUME NEW j \in Jobs, CancelJob(j) PROVE IInv'
  BY <1>4, CancelPreserves
<1>5. ASSUME NEW c \in calls, StartItem(c) PROVE IInv'
  <2>1. c \in Call
    BY DEF IInv, TypeOK
  <2>2. TypeOK'
    <3>1. item' \in [Items -> ItemRow]
      <4>1. c.item \in Items /\ item[c.item] \in ItemRow
        BY <2>1 DEF IInv, TypeOK, Call
      <4>2. [item[c.item] EXCEPT !.state = IF @ = "leased" THEN "running" ELSE @] \in ItemRow
        BY <4>1 DEF ItemRow
      <4> QED BY <1>5, <4>1, <4>2 DEF StartItem, IInv, TypeOK
    <3>2. [c EXCEPT !.started = TRUE] \in Call
      BY <2>1, Zenon DEF Call
    <3> QED BY <1>5, <3>1, <3>2, Zenon DEF StartItem, IInv, TypeOK
  <2>3. ZeroGapDispatch'
    BY <1>5, <2>1 DEF StartItem, IInv, TypeOK, ZeroGapDispatch, ItemRow, Call
  <2> QED BY <1>5, <2>2, <2>3 DEF StartItem, IInv, SlotsRespected
<1>6. ASSUME NEW c \in calls, NEW ok \in BOOLEAN, CompleteItem(c, ok) PROVE IInv'
  BY <1>6, CompletePreserves
<1>7. ASSUME NEW expired \in SUBSET Items, ReapExpiredLeases(expired) PROVE IInv'
  BY <1>7, ReapPreserves
<1>8. CASE UNCHANGED vars
  BY <1>8 DEF vars, IInv, TypeOK, ZeroGapDispatch, SlotsRespected
<1> QED BY <1>1, <1>2, <1>3, <1>4, <1>5, <1>6, <1>7, <1>8 DEF Next

\* The tables of the queue keep their types, and no slot count or lease
\* generation of the manager goes below zero.
THEOREM TypeCorrect == Spec => []TypeOK
<1>1. IInv => TypeOK
  BY DEF IInv
<1> QED BY <1>1, InitIInv, NextIInv, PTL DEF Spec

\* Between two operations of the manager no item of an open job waits while a
\* worker of the pool that it has not tried has a slot tryDispatchLocked could use:
\* whatever jobs are submitted, paused or cancelled, whatever workers come,
\* answer late, fail or lose their leases.
THEOREM NoGap == Spec => []ZeroGapDispatch
<1>1. IInv => ZeroGapDispatch
  BY DEF IInv
<1> QED BY <1>1, InitIInv, NextIInv, PTL DEF Spec

\* However leases are taken, reaped and answered late, tryDispatchLocked never
\* leases an item to a worker whose measured slots are all believed occupied.
THEOREM SlotsNeverExceeded == Spec => []SlotsRespected
<1>1. IInv => SlotsRespected
  BY DEF IInv
<1> QED BY <1>1, InitIInv, NextIInv, PTL DEF Spec

----------------------------------------------------------------------------
(* The webhook outbox. *)

Row == [state : {"absent", "pending", "delivered", "failed"}, attempts : Nat, due : BOOLEAN]
Posting == [key : Keys, row : Row, outcome : {"ok", "error"}]

OutboxTypeOK ==
  /\ outbox \in [Keys -> Row]
  /\ publisher \in [event : Events, left : Seq(Dests)] \cup {NoPublisher}
  /\ marked \in SUBSET Events
  /\ batch \in SUBSET (Keys \X Row)
  /\ posting \in Posting \cup {NotPosting}
  /\ received \in [Keys -> Nat]
  /\ lost \in [Keys -> Nat]

\* The dispatcher's copies are of rows that are still pending in the store, and
\* there is one of each at most: nobody settles a row behind its back.
CopiesArePending ==
  /\ \A c \in batch : /\ c[2].state = "pending" /\ outbox[c[1]].state = "pending"
                      /\ c[1] # posting.key
  /\ \A c, d \in batch : c[1] = d[1] => c = d
  /\ posting # NotPosting => posting.row.state = "pending" /\ outbox[posting.key].state = "pending"

\* An accepted post is told by the row, by the outcome in the dispatcher's hands,
\* or is lost.
Told(k) == outbox[k].state = "delivered" \/ (posting.key = k /\ posting.outcome = "ok")
AcceptsAccounted == \A k \in Keys : received[k] <= lost[k] + (IF Told(k) THEN 1 ELSE 0)

\* A row counts at most options.MaxAttempts attempts, and as long as it is
\* pending, in the store or in a copy, it has one left.
AttemptsLeft(r) == /\ r.attempts <= NotificationAttempts
                   /\ r.state = "pending" => r.attempts < NotificationAttempts
AttemptsBounded ==
  /\ \A k \in Keys : AttemptsLeft(outbox[k])
  /\ \A c \in batch : AttemptsLeft(c[2])
  /\ posting.row.attempts <= NotificationAttempts

\* Behind a publisher of "finished" every destination has its row.
ListEnqueued ==
  publisher.event = "finished" =>
    \A d \in Dests : outbox[<<"finished", d>>] # NoRow \/ d \in Range(publisher.left)

\* With the continuation's NotificationPublished mark every destination has its row.
MarkedIsEnqueued ==
  "finished" \in marked => \A d \in Dests : outbox[<<"finished", d>>] # NoRow

OutboxIInv ==
  /\ OutboxTypeOK
  /\ CopiesArePending
  /\ AcceptsAccounted
  /\ AttemptsBounded
  /\ ListEnqueued
  /\ MarkedIsEnqueued

\* The placeholders of the model are no rows, posts or publishers of the program.
LEMMA Placeholders ==
  /\ NoRow \in Row /\ NewRow \in Row /\ NoRow # NewRow
  /\ NoRow.state = "absent" /\ NoRow.attempts = 0
  /\ NewRow.state = "pending" /\ NewRow.attempts = 0
  /\ NotPosting.key \notin Keys /\ NotPosting.row = NoRow /\ NotPosting.outcome = "none"
  /\ NoPublisher.event = "none"
  BY DEF NoRow, NewRow, Row, NotPosting, NoPublisher, Keys, Events

\* deliverNotification changes the attempts of its copy and nothing else.
LEMMA CountedCopy ==
  ASSUME NEW r \in Row
  PROVE  /\ CountAttempt(r) \in Row
         /\ CountAttempt(r).state = r.state
         /\ CountAttempt(r).attempts = r.attempts + 1
  BY DEF CountAttempt, Row

\* What is written back of a pending copy: delivered for an accepted post and for
\* nothing else, and pending only with an attempt left.
LEMMA SettledRow ==
  ASSUME NEW r \in Row, r.state = "pending", NEW outcome \in {"ok", "error"}
  PROVE  /\ Settled(r, outcome) \in Row
         /\ Settled(r, outcome).attempts = r.attempts
         /\ Settled(r, outcome).state = "delivered" <=> outcome = "ok"
         /\ Settled(r, outcome).state = "pending" => r.attempts < NotificationAttempts
         /\ Settled(r, outcome) # NoRow
<1>1. r.attempts \in Nat
  BY DEF Row
<1>2. CASE outcome = "ok"
  BY <1>2 DEF Settled, Row, NoRow
<1>3. CASE outcome # "ok" /\ r.attempts >= NotificationAttempts
  BY <1>3 DEF Settled, Row, NoRow
<1>4. CASE outcome # "ok" /\ ~(r.attempts >= NotificationAttempts)
  <2>1. r.attempts < NotificationAttempts
    BY <1>1, <1>4, NotificationAttemptsAssumption
  <2>2. Settled(r, outcome) = [r EXCEPT !.due = FALSE]
    BY <1>4 DEF Settled
  <2>3. /\ [r EXCEPT !.due = FALSE] \in Row
        /\ [r EXCEPT !.due = FALSE].state = "pending"
        /\ [r EXCEPT !.due = FALSE].attempts = r.attempts
    BY Zenon DEF Row
  <2> QED BY <1>4, <2>1, <2>2, <2>3 DEF NoRow
<1> QED BY <1>2, <1>3, <1>4

LEMMA OutboxInitIInv == OutboxInit(OutboxLimits) => OutboxIInv
<1> SUFFICES ASSUME OutboxInit(OutboxLimits) PROVE OutboxIInv
  OBVIOUS
<1>1. OutboxTypeOK
  BY Placeholders DEF OutboxInit, OutboxTypeOK
<1>2. CopiesArePending
  BY DEF OutboxInit, CopiesArePending
<1>3. AcceptsAccounted
  BY DEF OutboxInit, AcceptsAccounted
<1>4. AttemptsBounded
  BY Placeholders, NotificationAttemptsAssumption DEF OutboxInit, AttemptsBounded, AttemptsLeft
<1>5. ListEnqueued /\ MarkedIsEnqueued
  BY Placeholders DEF OutboxInit, ListEnqueued, MarkedIsEnqueued
<1> QED BY <1>1, <1>2, <1>3, <1>4, <1>5 DEF OutboxIInv

\* Of a list that is walked from its head nothing is passed over.
LEMMA HeadTail ==
  ASSUME NEW S, NEW l \in Seq(S), l # <<>>
  PROVE  /\ Head(l) \in S /\ Tail(l) \in Seq(S)
         /\ \A d \in Range(l) : d = Head(l) \/ d \in Range(Tail(l))
<1>1. Head(l) \in S /\ Tail(l) \in Seq(S) /\ Len(l) \in Nat \ {0} /\ Len(Tail(l)) = Len(l) - 1
  OBVIOUS
<1>2. \A j \in 1 .. Len(Tail(l)) : Tail(l)[j] = l[j + 1]
  BY <1>1
<1>3. ASSUME NEW i \in 1 .. Len(l), i # 1
      PROVE  l[i] \in Range(Tail(l))
  <2>1. i - 1 \in 1 .. Len(Tail(l)) /\ (i - 1) + 1 = i
    BY <1>1, <1>3
  <2>2. Tail(l)[i - 1] = l[i] /\ i - 1 \in DOMAIN Tail(l)
    BY <1>1, <1>2, <2>1
  <2> QED BY <2>2, Zenon DEF Range
<1>4. \A d \in Range(l) : d = Head(l) \/ d \in Range(Tail(l))
  <2>1. Range(l) = {l[i] : i \in 1 .. Len(l)} /\ Head(l) = l[1]
    BY DEF Range
  <2> QED BY <1>3, <2>1
<1> QED BY <1>1, <1>4

-----------------------------------------------------------------------------
(* Publishing *)

LEMMA PublishPreserves ==
  ASSUME OutboxIInv, NEW e \in Events, PublishEvent(e)
  PROVE  OutboxIInv'
<1>1. OutboxTypeOK'
  BY WebhooksAssumption DEF OutboxIInv, OutboxTypeOK, PublishEvent
<1>2. CopiesArePending' /\ AcceptsAccounted' /\ AttemptsBounded'
  BY DEF OutboxIInv, PublishEvent, CopiesArePending, AcceptsAccounted, Told, AttemptsBounded
<1>3. ListEnqueued'
  BY DEF PublishEvent, ListEnqueued, Dests
<1>4. MarkedIsEnqueued'
  BY Zenon DEF OutboxIInv, PublishEvent, MarkedIsEnqueued
<1> QED BY <1>1, <1>2, <1>3, <1>4 DEF OutboxIInv

\* Creating a row changes only an absent one, which no copy and no post is about.
LEMMA CreatePreserves ==
  ASSUME OutboxIInv, NEW k \in Keys, CreateNotification(k),
         UNCHANGED <<batch, posting, received, lost>>
  PROVE  /\ outbox' \in [Keys -> Row]
         /\ outbox'[k] # NoRow
         /\ \A q \in Keys : outbox[q] # NoRow => outbox'[q] = outbox[q]
         /\ CopiesArePending' /\ AcceptsAccounted' /\ AttemptsBounded'
<1>1. /\ outbox' \in [Keys -> Row]
      /\ \A q \in Keys : \/ outbox'[q] = outbox[q]
                         \/ q = k /\ outbox[k] = NoRow /\ outbox'[k] = NewRow
      /\ outbox'[k] # NoRow
  BY Placeholders DEF OutboxIInv, OutboxTypeOK, CreateNotification
<1>2. CopiesArePending'
  BY <1>1, Placeholders, SMTT(20) DEF OutboxIInv, OutboxTypeOK, CopiesArePending, Posting
<1>3. AcceptsAccounted'
  <2>1. \A q \in Keys : Told(q) => Told(q)'
    BY <1>1, Placeholders DEF Told
  <2> QED BY <2>1 DEF OutboxIInv, OutboxTypeOK, AcceptsAccounted
<1>4. AttemptsBounded'
  BY <1>1, Placeholders, NotificationAttemptsAssumption DEF OutboxIInv, AttemptsBounded, AttemptsLeft
<1> QED BY <1>1, <1>2, <1>3, <1>4

LEMMA EnqueuePreserves ==
  ASSUME OutboxIInv, EnqueueNotification
  PROVE  OutboxIInv'
<1>1. CASE EnqueueFails /\ UNCHANGED outbox
  <2>1. publisher' = NoPublisher /\ UNCHANGED <<outbox, marked, batch, posting, received, lost>>
    BY <1>1 DEF EnqueueNotification, EnqueueFails
  <2>2. ListEnqueued'
    BY <2>1, Placeholders DEF ListEnqueued
  <2> QED BY <2>1, <2>2 DEF OutboxIInv, OutboxTypeOK, CopiesArePending, AcceptsAccounted, Told,
                            AttemptsBounded, MarkedIsEnqueued
<1>2. CASE /\ CreateNotification(<<publisher.event, Head(publisher.left)>>)
           /\ publisher' = [publisher EXCEPT !.left = Tail(@)]
  <2> DEFINE k == <<publisher.event, Head(publisher.left)>>
  <2>1. /\ publisher \in [event : Events, left : Seq(Dests)]
        /\ publisher.left # <<>>
        /\ UNCHANGED <<marked, batch, posting, received, lost>>
    BY DEF EnqueueNotification, OutboxIInv, OutboxTypeOK, NoPublisher
  <2>2. /\ Head(publisher.left) \in Dests /\ Tail(publisher.left) \in Seq(Dests)
        /\ \A d \in Range(publisher.left) :
             d = Head(publisher.left) \/ d \in Range(Tail(publisher.left))
    <3>1. publisher.left \in Seq(Dests) /\ publisher.left # <<>>
      BY <2>1
    <3> QED BY <3>1, HeadTail
  <2>3. k \in Keys
    BY <2>1, <2>2 DEF Keys
  <2>4. /\ outbox' \in [Keys -> Row] /\ outbox'[k] # NoRow
        /\ \A q \in Keys : outbox[q] # NoRow => outbox'[q] = outbox[q]
        /\ CopiesArePending' /\ AcceptsAccounted' /\ AttemptsBounded'
    BY <1>2, <2>1, <2>3, CreatePreserves
  <2>5. /\ publisher' \in [event : Events, left : Seq(Dests)]
        /\ publisher'.event = publisher.event /\ publisher'.left = Tail(publisher.left)
    BY <1>2, <2>1, <2>2, ZenonT(40)
  <2>6. OutboxTypeOK'
    BY <2>1, <2>4, <2>5 DEF OutboxIInv, OutboxTypeOK
  <2>7. ASSUME NEW d \in Dests, outbox[<<"finished", d>>] # NoRow
        PROVE  outbox'[<<"finished", d>>] # NoRow
    BY <2>4, <2>7 DEF Keys, Events
  <2>8. MarkedIsEnqueued'
    BY <2>1, <2>7, Zenon DEF OutboxIInv, MarkedIsEnqueued
  <2>9. ListEnqueued'
    BY <2>2, <2>4, <2>5, <2>7, Zenon DEF OutboxIInv, ListEnqueued
  <2> QED BY <2>4, <2>6, <2>8, <2>9, SMTT(20) DEF OutboxIInv
<1> QED BY <1>1, <1>2 DEF EnqueueNotification

LEMMA MarkPreserves ==
  ASSUME OutboxIInv, MarkPublished
  PROVE  OutboxIInv'
<1>1. /\ publisher' = NoPublisher /\ publisher.left = <<>>
      /\ marked' \in {marked, marked \cup {publisher.event}}
      /\ publisher.event \in Events
      /\ UNCHANGED <<outbox, batch, posting, received, lost>>
  BY DEF MarkPublished, OutboxIInv, OutboxTypeOK
<1>2. OutboxTypeOK'
  BY <1>1 DEF OutboxIInv, OutboxTypeOK
<1>3. ListEnqueued'
  BY <1>1, Placeholders DEF ListEnqueued
<1>4. MarkedIsEnqueued'
  <2>1. Range(<<>>) = {}
    BY DEF Range
  <2> QED BY <1>1, <2>1, Zenon DEF OutboxIInv, ListEnqueued, MarkedIsEnqueued
<1>5. CopiesArePending' /\ AcceptsAccounted' /\ AttemptsBounded'
  BY <1>1 DEF OutboxIInv, CopiesArePending, AcceptsAccounted, Told, AttemptsBounded
<1> QED BY <1>2, <1>3, <1>4, <1>5 DEF OutboxIInv

-----------------------------------------------------------------------------
(* Dispatching *)

LEMMA OutboxDispatchPreserves ==
  ASSUME OutboxIInv, DispatchNotifications
  PROVE  OutboxIInv'
<1>1. /\ batch' = {<<k, outbox[k]>> : k \in ListPendingNotifications}
      /\ posting = NotPosting
      /\ UNCHANGED <<outbox, publisher, marked, posting, received, lost>>
  BY DEF DispatchNotifications
<1>2. \A k \in ListPendingNotifications : k \in Keys /\ outbox[k].state = "pending"
  BY DEF ListPendingNotifications
<1>3. OutboxTypeOK'
  BY <1>1, <1>2 DEF OutboxIInv, OutboxTypeOK
<1>4. CopiesArePending'
  BY <1>1, <1>2, Placeholders DEF CopiesArePending
<1>5. AttemptsBounded'
  BY <1>1, <1>2 DEF OutboxIInv, AttemptsBounded
<1>6. AcceptsAccounted' /\ ListEnqueued' /\ MarkedIsEnqueued'
  BY <1>1 DEF OutboxIInv, AcceptsAccounted, Told, ListEnqueued, MarkedIsEnqueued
<1> QED BY <1>3, <1>4, <1>5, <1>6 DEF OutboxIInv

\* Every way an attempt can end: with the accept counted for an outcome "ok", and
\* counted and lost for an answer that does not arrive.
LEMMA AttemptPreserves ==
  ASSUME OutboxIInv, NEW copy \in batch, NEW outcome \in {"ok", "error"},
         Attempted(copy, outcome),
         \/ /\ outcome = "error" /\ UNCHANGED <<received, lost>>
         \/ /\ outcome = "ok"
            /\ received' = [received EXCEPT ![copy[1]] = @ + 1] /\ UNCHANGED lost
         \/ /\ outcome = "error"
            /\ received' = [received EXCEPT ![copy[1]] = @ + 1]
            /\ lost' = [lost EXCEPT ![copy[1]] = @ + 1]
  PROVE  OutboxIInv'
<1> DEFINE k == copy[1]
<1>1. /\ k \in Keys /\ copy[2] \in Row /\ copy = <<k, copy[2]>>
      /\ copy[2].state = "pending" /\ outbox[k].state = "pending" /\ AttemptsLeft(copy[2])
  BY DEF OutboxIInv, OutboxTypeOK, CopiesArePending, AttemptsBounded
<1>2. /\ posting = NotPosting /\ batch' = batch \ {copy}
      /\ posting' = [key |-> k, row |-> CountAttempt(copy[2]), outcome |-> outcome]
      /\ UNCHANGED <<outbox, publisher, marked>>
  BY DEF Attempted
<1>3. /\ posting' \in Posting
      /\ posting'.key = k /\ posting'.outcome = outcome
      /\ posting'.row.state = "pending"
      /\ posting'.row.attempts = copy[2].attempts + 1
  BY <1>1, <1>2, CountedCopy DEF Posting
<1>4. received' \in [Keys -> Nat] /\ lost' \in [Keys -> Nat]
  <2>1. /\ received \in [Keys -> Nat] /\ received[k] + 1 \in Nat
        /\ lost \in [Keys -> Nat] /\ lost[k] + 1 \in Nat
    BY <1>1 DEF OutboxIInv, OutboxTypeOK
  <2> QED BY <2>1
<1>5. OutboxTypeOK'
  BY <1>2, <1>3, <1>4, SMTT(20) DEF OutboxIInv, OutboxTypeOK
<1>6. CopiesArePending'
  <2>1. \A c \in batch' : c \in batch /\ c[1] # k
    BY <1>2 DEF OutboxIInv, CopiesArePending
  <2> QED BY <1>1, <1>2, <1>3, <2>1, SMTT(20) DEF OutboxIInv, CopiesArePending
<1>7. AcceptsAccounted'
  <2>1. \A q \in Keys : q # k => /\ received'[q] = received[q] /\ lost'[q] = lost[q]
                                /\ Told(q)' = Told(q)
    BY <1>1, <1>2, <1>3, Placeholders, SMTT(20) DEF OutboxIInv, OutboxTypeOK, Told
  <2>2. ~Told(k) /\ (Told(k)' <=> outcome = "ok")
    BY <1>1, <1>2, <1>3, Placeholders, SMTT(20) DEF Told
  <2>3. received[k] <= lost[k]
    BY <1>1, <2>2 DEF OutboxIInv, OutboxTypeOK, AcceptsAccounted
  <2>4. received'[k] <= lost'[k] + (IF Told(k)' THEN 1 ELSE 0)
    BY <1>1, <2>2, <2>3, SMTT(20) DEF OutboxIInv, OutboxTypeOK
  <2> QED BY <2>1, <2>4 DEF OutboxIInv, AcceptsAccounted
<1>8. AttemptsBounded'
  <2>1. posting'.row.attempts <= NotificationAttempts
    BY <1>1, <1>3, NotificationAttemptsAssumption, SMTT(20) DEF AttemptsLeft, Row
  <2> QED BY <1>2, <2>1 DEF OutboxIInv, AttemptsBounded
<1>9. ListEnqueued' /\ MarkedIsEnqueued'
  BY <1>2 DEF OutboxIInv, ListEnqueued, MarkedIsEnqueued
<1> QED BY <1>5, <1>6, <1>7, <1>8, <1>9, SMTT(20) DEF OutboxIInv

LEMMA PostPreserves ==
  ASSUME OutboxIInv, NEW copy \in batch, RefuseDestination(copy) \/ PostPinnedWebhook(copy)
  PROVE  OutboxIInv'
<1>1. CASE Attempted(copy, "error") /\ UNCHANGED <<received, lost>>
  BY <1>1, AttemptPreserves
<1>2. CASE /\ Attempted(copy, "ok")
           /\ received' = [received EXCEPT ![copy[1]] = @ + 1] /\ UNCHANGED lost
  BY <1>2, AttemptPreserves, Zenon
<1>3. CASE /\ Attempted(copy, "error")
           /\ received' = [received EXCEPT ![copy[1]] = @ + 1]
           /\ lost' = [lost EXCEPT ![copy[1]] = @ + 1]
  BY <1>3, AttemptPreserves, ZenonT(40)
<1> QED BY <1>1, <1>2, <1>3 DEF RefuseDestination, PostPinnedWebhook

LEMMA DeliverPreserves ==
  ASSUME OutboxIInv, DeliverNotification
  PROVE  OutboxIInv'
<1> DEFINE settled == Settled(posting.row, posting.outcome)
<1>1. PICK k \in Keys :
      /\ posting \in Posting /\ posting.key = k /\ posting.row \in Row
      /\ posting.outcome \in {"ok", "error"}
      /\ posting.row.state = "pending" /\ outbox[k].state = "pending"
      /\ posting.row.attempts <= NotificationAttempts
      /\ \A c \in batch : c[1] # k
  BY DEF DeliverNotification, OutboxIInv, OutboxTypeOK, CopiesArePending, AttemptsBounded, Posting
<1>2. /\ posting' = NotPosting /\ UNCHANGED <<publisher, marked, batch, received>>
  BY DEF DeliverNotification
<1>3. /\ settled \in Row /\ settled.attempts = posting.row.attempts
      /\ settled.state = "delivered" <=> posting.outcome = "ok"
      /\ settled.state = "pending" => posting.row.attempts < NotificationAttempts
      /\ settled # NoRow
  BY <1>1, SettledRow
<1> HIDE DEF settled
<1>4. CASE outbox' = [outbox EXCEPT ![k] = settled] /\ UNCHANGED lost
  <2>1. /\ outbox' \in [Keys -> Row] /\ outbox'[k] = settled
        /\ \A q \in Keys : q # k => outbox'[q] = outbox[q]
    BY <1>1, <1>3, <1>4, SMTT(20) DEF OutboxIInv, OutboxTypeOK
  <2>2. OutboxTypeOK'
    BY <1>2, <1>4, <2>1, SMTT(20) DEF OutboxIInv, OutboxTypeOK
  <2>3. CopiesArePending'
    BY <1>1, <1>2, <2>1, Placeholders, SMTT(20) DEF OutboxIInv, OutboxTypeOK, CopiesArePending
  <2>4. AcceptsAccounted'
    <3>1. \A q \in Keys : Told(q)' <=> Told(q)
      BY <1>1, <1>2, <1>3, <2>1, Placeholders, SMTT(20) DEF Told
    <3> QED BY <1>2, <1>4, <3>1, SMTT(20) DEF OutboxIInv, AcceptsAccounted
  <2>5. AttemptsBounded'
    BY <1>1, <1>2, <1>3, <2>1, Placeholders, NotificationAttemptsAssumption, SMTT(20)
    DEF OutboxIInv, AttemptsBounded, AttemptsLeft
  <2>6. \A q \in Keys : outbox[q] # NoRow => outbox'[q] # NoRow
    BY <1>3, <2>1
  <2>7. ListEnqueued' /\ MarkedIsEnqueued'
    BY <1>2, <2>6 DEF OutboxIInv, ListEnqueued, MarkedIsEnqueued, Keys, Events
  <2> QED BY <2>2, <2>3, <2>4, <2>5, <2>7, SMTT(20) DEF OutboxIInv
<1>5. CASE /\ lost' = [lost EXCEPT ![k] = @ + (IF posting.outcome = "ok" THEN 1 ELSE 0)]
           /\ UNCHANGED outbox
  <2>1. OutboxTypeOK'
    BY <1>1, <1>2, <1>5 DEF OutboxIInv, OutboxTypeOK
  <2>2. CopiesArePending'
    BY <1>2, <1>5, Placeholders DEF OutboxIInv, OutboxTypeOK, CopiesArePending
  <2>3. AcceptsAccounted'
    <3>1. ASSUME NEW q \in Keys, q # k
          PROVE  received'[q] <= lost'[q] + (IF Told(q)' THEN 1 ELSE 0)
      <4>1. Told(q)' <=> Told(q)
        BY <1>1, <1>2, <1>5, <3>1, Placeholders, SMTT(20) DEF Told
      <4>2. lost'[q] = lost[q] /\ received'[q] = received[q]
        BY <1>2, <1>5, <3>1 DEF OutboxIInv, OutboxTypeOK
      <4> QED BY <4>1, <4>2 DEF OutboxIInv, AcceptsAccounted
    <3>2. ~Told(k)' /\ (Told(k) <=> posting.outcome = "ok")
      BY <1>1, <1>2, <1>5, Placeholders, SMTT(20) DEF Told
    <3>3. received[k] <= lost'[k]
      BY <1>1, <1>5, <3>2 DEF OutboxIInv, OutboxTypeOK, AcceptsAccounted
    <3>4. received'[k] <= lost'[k] + (IF Told(k)' THEN 1 ELSE 0)
      BY <1>1, <1>2, <2>1, <3>2, <3>3, SMTT(20) DEF OutboxTypeOK
    <3> QED BY <3>1, <3>4 DEF AcceptsAccounted
  <2>4. AttemptsBounded' /\ ListEnqueued' /\ MarkedIsEnqueued'
    BY <1>2, <1>5, Placeholders, NotificationAttemptsAssumption
    DEF OutboxIInv, AttemptsBounded, ListEnqueued, MarkedIsEnqueued
  <2> QED BY <2>1, <2>2, <2>3, <2>4, SMTT(20) DEF OutboxIInv
<1> QED BY <1>1, <1>4, <1>5, SMTT(20) DEF DeliverNotification, UpdateNotification, settled

LEMMA DuePreserves ==
  ASSUME OutboxIInv, NEW k \in Keys, NotificationDue(k)
  PROVE  OutboxIInv'
<1>1. /\ outbox' = [outbox EXCEPT ![k].due = TRUE]
      /\ outbox[k].state = "pending"
      /\ UNCHANGED <<publisher, marked, batch, posting, received, lost>>
  BY DEF NotificationDue
<1>2. /\ [outbox[k] EXCEPT !.due = TRUE] \in Row
      /\ [outbox[k] EXCEPT !.due = TRUE].state = "pending"
      /\ [outbox[k] EXCEPT !.due = TRUE].attempts = outbox[k].attempts
  BY <1>1, Zenon DEF OutboxIInv, OutboxTypeOK, Row
<1>3. /\ outbox' \in [Keys -> Row]
      /\ \A q \in Keys : /\ outbox'[q].state = outbox[q].state
                         /\ outbox'[q].attempts = outbox[q].attempts
                         /\ q # k => outbox'[q] = outbox[q]
  BY <1>1, <1>2 DEF OutboxIInv, OutboxTypeOK
<1>4. OutboxTypeOK'
  BY <1>1, <1>3 DEF OutboxIInv, OutboxTypeOK
<1>5. CopiesArePending'
  BY <1>1, <1>3 DEF OutboxIInv, OutboxTypeOK, CopiesArePending, Posting
<1>6. AcceptsAccounted'
  <2>1. \A q \in Keys : Told(q)' <=> Told(q)
    BY <1>1, <1>3 DEF Told
  <2> QED BY <1>1, <2>1 DEF OutboxIInv, AcceptsAccounted
<1>7. AttemptsBounded'
  BY <1>1, <1>3 DEF OutboxIInv, AttemptsBounded, AttemptsLeft
<1>8. \A q \in Keys : outbox[q] # NoRow => outbox'[q] # NoRow
  BY <1>1, <1>3, Placeholders, Zenon
<1>9. ListEnqueued' /\ MarkedIsEnqueued'
  BY <1>1, <1>8 DEF OutboxIInv, ListEnqueued, MarkedIsEnqueued, Keys, Events
<1> QED BY <1>4, <1>5, <1>6, <1>7, <1>9, SMTT(20) DEF OutboxIInv

LEMMA RestartPreserves ==
  ASSUME OutboxIInv, OutboxRestarts
  PROVE  OutboxIInv'
<1> DEFINE told(k) == IF posting.key = k /\ posting.outcome = "ok" THEN 1 ELSE 0
<1>1. /\ lost' = [k \in Keys |-> lost[k] + told(k)]
      /\ publisher' = NoPublisher /\ batch' = {} /\ posting' = NotPosting
      /\ UNCHANGED <<outbox, marked, received>>
  BY DEF OutboxRestarts
<1>2. \A k \in Keys : lost[k] \in Nat /\ lost[k] + told(k) \in Nat
  BY DEF OutboxIInv, OutboxTypeOK
<1>3. OutboxTypeOK'
  <2> HIDE DEF told
  <2> QED BY <1>1, <1>2 DEF OutboxIInv, OutboxTypeOK
<1>4. CopiesArePending'
  BY <1>1 DEF CopiesArePending
<1>5. AcceptsAccounted'
  <2> SUFFICES ASSUME NEW k \in Keys
               PROVE  received'[k] <= lost'[k] + (IF Told(k)' THEN 1 ELSE 0)
    BY DEF AcceptsAccounted
  <2>1. Told(k)' <=> outbox[k].state = "delivered"
    BY <1>1, Placeholders DEF Told
  <2>2. lost'[k] = lost[k] + told(k) /\ received'[k] = received[k]
    BY <1>1
  <2>3. received[k] <= lost[k] + (IF Told(k) THEN 1 ELSE 0) /\ received[k] \in Nat
    BY DEF OutboxIInv, OutboxTypeOK, AcceptsAccounted
  <2> QED BY <1>2, <2>1, <2>2, <2>3 DEF Told
<1>6. AttemptsBounded'
  BY <1>1, Placeholders, NotificationAttemptsAssumption DEF OutboxIInv, AttemptsBounded
<1>7. ListEnqueued' /\ MarkedIsEnqueued'
  BY <1>1, Placeholders DEF OutboxIInv, ListEnqueued, MarkedIsEnqueued
<1> QED BY <1>3, <1>4, <1>5, <1>6, <1>7, SMTT(20) DEF OutboxIInv

-----------------------------------------------------------------------------
LEMMA OutboxNextIInv == OutboxIInv /\ [OutboxNext]_outboxVars => OutboxIInv'
<1> SUFFICES ASSUME OutboxIInv, [OutboxNext]_outboxVars PROVE OutboxIInv'
  OBVIOUS
<1>1. CASE UNCHANGED outboxVars
  BY <1>1, Zenon DEF outboxVars, OutboxIInv, OutboxTypeOK, CopiesArePending,
                     AcceptsAccounted, Told, AttemptsBounded, ListEnqueued, MarkedIsEnqueued
<1> QED BY <1>1, PublishPreserves, EnqueuePreserves, MarkPreserves, OutboxDispatchPreserves,
           DeliverPreserves, PostPreserves, DuePreserves, RestartPreserves, SMTT(20) DEF OutboxNext

LEMMA OutboxSpecIInv == OutboxSpec => []OutboxIInv
  BY OutboxInitIInv, OutboxNextIInv, PTL DEF OutboxSpec

\* A receiver sees an event again only for an accepted post whose outcome was lost,
\* for any number of destinations, retries, republished events and kills: the list
\* of copies and the write of the whole copy never send one twice by themselves.
THEOREM NoUnexplainedDuplicate == OutboxSpec => []DuplicatesExplained
<1>1. OutboxIInv => DuplicatesExplained
  <2> SUFFICES ASSUME OutboxIInv, NEW k \in Keys PROVE received[k] <= 1 + lost[k]
    BY DEF DuplicatesExplained
  <2>1. received[k] <= lost[k] + (IF Told(k) THEN 1 ELSE 0)
    BY DEF OutboxIInv, AcceptsAccounted
  <2> QED BY <2>1 DEF OutboxIInv, OutboxTypeOK
<1> QED BY <1>1, OutboxSpecIInv, PTL

\* No row counts more attempts than options.MaxAttempts, and one that is listed
\* again always has an attempt left, although updates are lost.
THEOREM AttemptsCapped == OutboxSpec => []AttemptsBounded
<1>1. OutboxIInv => AttemptsBounded
  BY DEF OutboxIInv
<1> QED BY <1>1, OutboxSpecIInv, PTL

\* The continuation's mark is never stored before every destination of the request
\* has its row, whatever insert failed half way and whenever the process was killed.
THEOREM MarkIsHonest == OutboxSpec => []MarkedIsEnqueued
<1>1. OutboxIInv => MarkedIsEnqueued
  BY DEF OutboxIInv
<1> QED BY <1>1, OutboxSpecIInv, PTL
====
