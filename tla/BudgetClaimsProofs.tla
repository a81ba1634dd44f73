--------------------------- MODULE BudgetClaimsProofs ---------------------------
(***************************************************************************)
(* The claims of running workloads and the amounts charged, for any         *)
(* workloads, targets, prices and budget, and any number of crashes, failed *)
(* store calls, cancellations and preemptions.                              *)
(***************************************************************************)
EXTENDS BudgetClaims, TLAPS

ProcPcs == {"idle", "failed", "record", "release", "unlink", "arm", "settle", "settled"}
PassPcs == {"idle", "next", "cleaning", "enter", "candidate", "reserve", "place", "run",
            "undo", "finish"}
ProcRec == [pc : ProcPcs, work : Workloads \cup {"none"}, token : Nat]
PassRec == [pc : PassPcs, work : Workloads \cup {"none"}, left : Seq(Targets), token : Nat]
SeenRec == [token : Nat, cleanup : Nat]

TypeOK ==
  /\ row \in [Workloads -> Row]
  /\ claim \in [Workloads -> Claim]
  /\ proc \in [Procs -> ProcRec]
  /\ seen \in [Workloads -> SeenRec]
  /\ adm \in PassRec
  /\ todo \in SUBSET Workloads
  /\ stale \in SUBSET Workloads

\* The claim that a cleanup of token k would release.
Reserved(w, k) == claim[w].status = "reserved" /\ claim[w].token = k

\* A claim is settled only after the end of its workload. A row that names a claim
\* without wanting it released has it. A running row does, if it pays.
RowsHoldClaims ==
  \A w \in Workloads :
    /\ row[w].settling \/ claim[w].status = "settled" => row[w].status \in Ended
    /\ claim[w].status = "reserved" => claim[w].token # 0
    /\ row[w].token # 0 /\ row[w].cleanup = 0 =>
         claim[w].token = row[w].token /\ claim[w].status \in {"reserved", "settled"}
    /\ row[w].status = "running" =>
         row[w].cleanup = 0 /\ (Price[row[w].target] > 0 => row[w].token # 0)

\* A procedure that releases a claim does so for an intent of the row that is still
\* there; once released the token is never reserved again. Settlements follow the end.
HasCause(q, rs, cs) ==
  LET reserved == cs[q.work].status = "reserved" /\ cs[q.work].token = q.token IN
  /\ q.pc \notin {"idle", "failed"} => q.work \in Workloads
  /\ q.pc \in {"record", "release", "unlink"} => q.token # 0
  /\ q.pc \in {"arm", "settle", "settled"} => rs[q.work].status \in Ended
  /\ q.pc = "release" /\ reserved => rs[q.work].cleanup = q.token
  /\ q.pc = "unlink" => ~reserved

ProcsHaveCause == \A p \in Procs : HasCause(proc[p], row, claim)

\* What the pass knows of a row is true as long as nobody else wrote it; what it
\* knows of an intent is true as long as the claim is there.
Trying == {"enter", "candidate", "reserve", "place", "run", "undo", "finish"}
PassKnows ==
  /\ adm.pc = "idle" => todo = {}
  /\ \A w \in todo \ stale : seen[w].token = row[w].token /\ seen[w].cleanup = row[w].cleanup
  /\ \A w \in Workloads : Reserved(w, seen[w].cleanup) => row[w].cleanup = seen[w].cleanup
  /\ adm.pc \in Trying \cup {"cleaning"} => adm.work \in Workloads
  /\ adm.pc \in Trying /\ adm.work \notin stale =>
       seen[adm.work].token = row[adm.work].token /\ row[adm.work].cleanup = 0
  /\ adm.pc \in {"reserve", "place", "run", "undo"} => adm.left # <<>>
  /\ adm.pc \in {"reserve", "place", "run"} /\ adm.work \notin stale =>
       adm.token = seen[adm.work].token
  /\ adm.pc \in {"place", "run"} /\ adm.work \notin stale /\ Price[Head(adm.left)] > 0 =>
       adm.token # 0

IInv == TypeOK /\ RowsHoldClaims /\ ProcsHaveCause /\ PassKnows

-----------------------------------------------------------------------------
\* The values of the records the model writes.

LEMMA RowValues ==
  ASSUME NEW r \in Row
  PROVE  /\ \A s \in Ended, c \in Nat : EndedAt(r, s, c) \in Row
         /\ \A x \in BOOLEAN : [r EXCEPT !.owner = x] \in Row /\ [r EXCEPT !.settling = x] \in Row
         /\ \A k \in Nat : [r EXCEPT !.cleanup = k] \in Row /\ [r EXCEPT !.token = k] \in Row
         /\ [r EXCEPT !.handle = TRUE] \in Row
         /\ Queued(r) \in Row /\ Requeued(r) \in Row
         /\ \A s \in Waiting : [r EXCEPT !.status = s] \in Row
<1>1. "queued" \in Waiting
  BY DEF Waiting
<1>2. \A s : s \in Ended \/ s \in Waiting => s \in Waiting \cup Ended \cup {"absent", "running"}
  OBVIOUS
<1>3. ASSUME NEW s \in Ended, NEW c \in Nat PROVE EndedAt(r, s, c) \in Row
  <2>1. (r.token # 0) \in BOOLEAN /\ (IF r.token # 0 THEN c ELSE 0) \in Nat
    OBVIOUS
  <2> QED BY <1>2, <2>1, Zenon DEF EndedAt, Row
<1>4. Queued(r) \in Row
  BY <1>1, <1>2, Zenon DEF Queued, Row
<1>5. Requeued(r) \in Row
  BY <1>4 DEF Requeued, Row
<1>6. \A x \in BOOLEAN : [r EXCEPT !.owner = x] \in Row /\ [r EXCEPT !.settling = x] \in Row
  BY DEF Row
<1>7. \A k \in Nat : [r EXCEPT !.cleanup = k] \in Row /\ [r EXCEPT !.token = k] \in Row
  BY DEF Row
<1>8. [r EXCEPT !.handle = TRUE] \in Row /\ \A s \in Waiting : [r EXCEPT !.status = s] \in Row
  BY <1>2, Zenon DEF Row
<1> QED BY <1>3, <1>4, <1>5, <1>6, <1>7, <1>8

LEMMA ProcValues ==
  /\ Idle \in ProcRec /\ [Idle EXCEPT !.pc = "failed"] \in ProcRec
  /\ \A pc \in ProcPcs, w \in Workloads, k \in Nat : At(pc, w, k) \in ProcRec
  /\ \A q \in ProcRec, pc \in ProcPcs : [q EXCEPT !.pc = pc] \in ProcRec
<1>1. "idle" \in ProcPcs /\ "failed" \in ProcPcs
  BY DEF ProcPcs
<1>2. Idle \in ProcRec
  BY <1>1 DEF Idle, ProcRec
<1>3. \A q \in ProcRec, pc \in ProcPcs : [q EXCEPT !.pc = pc] \in ProcRec
  BY DEF ProcRec
<1>4. \A pc \in ProcPcs, w \in Workloads, k \in Nat : At(pc, w, k) \in ProcRec
  BY DEF At, ProcRec
<1> QED BY <1>1, <1>2, <1>3, <1>4

LEMMA ListedTargets ==
  ASSUME TypeOK
  PROVE  /\ Candidates \in Seq(Targets)
         /\ adm.left # <<>> => Head(adm.left) \in Targets /\ Tail(adm.left) \in Seq(Targets)
         /\ adm.left # <<>> => Price[Head(adm.left)] \in Nat
<1>1. adm.left \in Seq(Targets)
  BY DEF TypeOK, PassRec
<1>2. adm.left # <<>> => Head(adm.left) \in Targets /\ Tail(adm.left) \in Seq(Targets)
  BY <1>1
<1> QED BY <1>2, CandidatesListed, Prices

LEMMA Costs ==
  ASSUME TypeOK, NEW w \in Workloads
  PROVE  Estimate(w) \in Nat /\ Actual(w) \in SUBSET Nat
<1>1. row[w].target \in Targets \cup {"none"} /\ claim[w].cents \in Nat
  BY DEF TypeOK, Row, Claim
<1>2. Estimate(w) \in Nat
  BY <1>1, Prices DEF Estimate, Priced
<1> QED BY <1>2, Bounded, Zenon DEF Actual

-----------------------------------------------------------------------------
\* The link of a claim to the row the pass has read, which nobody has written since.
LEMMA LinkKeeps ==
  ASSUME IInv, adm.pc = "reserve", NEW w \in Workloads, w = adm.work, w \notin stale,
         NEW k \in Nat, k # 0, Link(w, k), UNCHANGED todo,
         \/ claim' = claim /\ claim[w].status = "reserved" /\ claim[w].token = k /\ adm.token = k
         \/ /\ adm.token = 0 /\ claim[w].status \notin {"reserved", "settled"}
            /\ k # seen[w].cleanup /\ \A p \in Procs : proc[p].work = w => proc[p].token # k
            /\ claim' \in [Workloads -> Claim]
            /\ claim'[w].status = "reserved" /\ claim'[w].token = k
            /\ \A v \in Workloads : v # w => claim'[v] = claim[v]
  PROVE  IInv'
<1>1. /\ row[w] \in Row /\ seen[w] \in SeenRec /\ adm \in PassRec /\ adm.left # <<>> /\ "place" \in PassPcs
      /\ row[w].token = adm.token /\ row[w].cleanup = 0 /\ seen[w].token = adm.token
  BY Zenon DEF IInv, TypeOK, PassKnows, Trying, PassPcs
<1>2. row' = [row EXCEPT ![w] = [row[w] EXCEPT !.token = k]] /\ UNCHANGED <<proc, stale>>
  BY DEF Link
<1>3. seen' = [seen EXCEPT ![w] = [seen[w] EXCEPT !.token = k]]
  BY DEF Link
<1> DEFINE r == [row[w] EXCEPT !.token = k]  s == [seen[w] EXCEPT !.token = k]
<1>4. /\ r \in Row /\ r.token = k /\ r.cleanup = 0 /\ r.status = row[w].status
      /\ r.settling = row[w].settling /\ r.target = row[w].target
  BY <1>1, RowValues DEF Row
<1>5. s \in SeenRec /\ s.token = k /\ s.cleanup = seen[w].cleanup
  BY <1>1 DEF SeenRec
<1> HIDE DEF r, s
<1>6. row' \in [Workloads -> Row] /\ row'[w] = r /\ \A v \in Workloads : v # w => row'[v] = row[v]
  BY <1>2, <1>4 DEF IInv, TypeOK, r
<1>7. /\ seen' \in [Workloads -> SeenRec] /\ seen'[w] = s
      /\ \A v \in Workloads : v # w => seen'[v] = seen[v]
  BY <1>3, <1>5 DEF IInv, TypeOK, s
<1>8. /\ adm' \in PassRec /\ adm'.pc = "place" /\ adm'.work = w /\ adm'.left = adm.left
      /\ adm'.token = k
  BY <1>1, ZenonT(40) DEF Link, PassRec
<1>9. claim' \in [Workloads -> Claim] /\ claim'[w].status = "reserved" /\ claim'[w].token = k
      /\ \A v \in Workloads : v # w => claim'[v] = claim[v]
  BY DEF IInv, TypeOK
<1>10. TypeOK'
  BY <1>2, <1>6, <1>7, <1>8, <1>9 DEF IInv, TypeOK
<1>11. RowsHoldClaims'
  <2> SUFFICES ASSUME NEW v \in Workloads
               PROVE  /\ row'[v].settling \/ claim'[v].status = "settled" => row'[v].status \in Ended
                      /\ claim'[v].status = "reserved" => claim'[v].token # 0
                      /\ row'[v].token # 0 /\ row'[v].cleanup = 0 =>
                           /\ claim'[v].token = row'[v].token
                           /\ claim'[v].status \in {"reserved", "settled"}
                      /\ row'[v].status = "running" =>
                           row'[v].cleanup = 0 /\ (Price[row'[v].target] > 0 => row'[v].token # 0)
    BY ZenonT(40) DEF RowsHoldClaims
  <2>1. CASE v = w
    BY <1>4, <1>6, <1>9, <2>1, ZenonT(40) DEF IInv, RowsHoldClaims
  <2>2. CASE v # w
    BY <1>6, <1>9, <2>2, SMTT(20) DEF IInv, RowsHoldClaims
  <2> QED BY <2>1, <2>2, ZenonT(40)
<1>12. \/ Reserved(w, k)
       \/ k # seen[w].cleanup /\ \A p \in Procs : proc[p].work = w => proc[p].token # k
  BY Zenon DEF Reserved
<1>13. ASSUME NEW o \in Procs PROVE HasCause(proc'[o], row', claim')
  <2>1. HasCause(proc[o], row, claim) /\ proc'[o] = proc[o]
    BY <1>2, SMTT(20) DEF IInv, ProcsHaveCause
  <2>2. CASE proc[o].work = w
    <3>1. proc[o].pc \in {"release", "unlink"} => proc[o].token # k
      BY <1>1, <1>12, <2>1, <2>2, SMTT(20) DEF HasCause, Reserved
    <3>2. row'[w].status = row[w].status /\ claim'[w].token = k
      BY <1>4, <1>6, <1>9
    <3> QED BY <2>1, <2>2, <3>1, <3>2, ZenonT(40) DEF HasCause
  <2>3. CASE proc[o].work # w
    BY <1>6, <1>9, <2>1, <2>3, ZenonT(40) DEF HasCause
  <2> QED BY <2>2, <2>3, Zenon
<1>14. PassKnows'
  <2>1. \A v \in todo' \ stale' : seen'[v].token = row'[v].token /\ seen'[v].cleanup = row'[v].cleanup
    BY <1>1, <1>2, <1>4, <1>5, <1>6, <1>7, SMTT(20) DEF IInv, TypeOK, PassKnows
  <2>2. \A v \in Workloads : Reserved(v, seen[v].cleanup)' => row'[v].cleanup = seen'[v].cleanup
    <3>1. Reserved(w, seen[w].cleanup)' => row'[w].cleanup = seen'[w].cleanup
      <4>1. row'[w].cleanup = row[w].cleanup /\ seen'[w].cleanup = seen[w].cleanup /\ claim'[w].token = k
        BY <1>1, <1>4, <1>5, <1>6, <1>7, <1>9, SMTT(20)
      <4>2. k = seen[w].cleanup => Reserved(w, seen[w].cleanup)
        BY <1>12, SMTT(20)
      <4>3. Reserved(w, seen[w].cleanup) => row[w].cleanup = seen[w].cleanup
        BY ZenonT(40) DEF IInv, PassKnows
      <4> QED BY <4>1, <4>2, <4>3, SMTT(20) DEF Reserved
    <3>2. ASSUME NEW v \in Workloads, v # w
          PROVE  Reserved(v, seen[v].cleanup)' => row'[v].cleanup = seen'[v].cleanup
      <4>1. row'[v] = row[v] /\ seen'[v] = seen[v] /\ claim'[v] = claim[v]
        BY <1>6, <1>7, <1>9, <3>2, SMTT(20)
      <4>2. Reserved(v, seen[v].cleanup) => row[v].cleanup = seen[v].cleanup
        BY DEF IInv, PassKnows
      <4> QED BY <4>1, <4>2, SMTT(20) DEF Reserved
    <3> QED BY <3>1, <3>2, SMTT(20)
  <2> QED BY <1>1, <1>4, <1>5, <1>6, <1>7, <1>8, <2>1, <2>2, ZenonT(40) DEF PassKnows, Trying
<1> QED BY <1>10, <1>11, <1>13, <1>14, SMTT(20) DEF IInv, ProcsHaveCause

-----------------------------------------------------------------------------
\* Steps that leave the claims and the tokens of the rows alone.

RowsQuiet ==
  \A w \in Workloads :
    /\ row'[w].token = row[w].token /\ row'[w].cleanup = row[w].cleanup
    /\ row[w].status \in Ended => row'[w].status \in Ended
    /\ row'[w].settling => row[w].settling \/ row'[w].status \in Ended
    /\ row'[w].status = "running" => row[w].status = "running" /\ row'[w].target = row[w].target

ProcsQuiet == \A p \in Procs : proc'[p] = proc[p] \/ HasCause(proc'[p], row', claim')

PassQuiet ==
  /\ seen' = seen /\ stale \subseteq stale' /\ todo' = todo
  /\ adm' = adm \/ (adm'.pc = "next" /\ adm.pc # "idle")

LEMMA RowsQuietKeeps ==
  ASSUME IInv, RowsQuiet, claim' = claim
  PROVE  RowsHoldClaims'
<1> SUFFICES ASSUME NEW w \in Workloads
             PROVE  /\ row'[w].settling \/ claim[w].status = "settled" => row'[w].status \in Ended
                    /\ claim[w].status = "reserved" => claim[w].token # 0
                    /\ row'[w].token # 0 /\ row'[w].cleanup = 0 =>
                         claim[w].token = row'[w].token /\ claim[w].status \in {"reserved", "settled"}
                    /\ row'[w].status = "running" =>
                         row'[w].cleanup = 0 /\ (Price[row'[w].target] > 0 => row'[w].token # 0)
  BY DEF RowsHoldClaims
<1> QED BY DEF IInv, RowsHoldClaims, RowsQuiet

LEMMA ProcsQuietKeep ==
  ASSUME IInv, RowsQuiet, ProcsQuiet, claim' = claim
  PROVE  ProcsHaveCause'
<1>1. ASSUME NEW p \in Procs, proc'[p] = proc[p]
      PROVE  HasCause(proc'[p], row', claim')
  BY <1>1 DEF IInv, ProcsHaveCause, HasCause, RowsQuiet
<1> QED BY <1>1 DEF ProcsQuiet, ProcsHaveCause

LEMMA PassQuietKeeps ==
  ASSUME IInv, RowsQuiet, PassQuiet, claim' = claim
  PROVE  PassKnows'
<1>1. /\ \A w \in todo' \ stale' : seen'[w].token = row'[w].token /\ seen'[w].cleanup = row'[w].cleanup
      /\ \A w \in Workloads : Reserved(w, seen[w].cleanup)' => row'[w].cleanup = seen'[w].cleanup
  BY DEF IInv, TypeOK, PassKnows, RowsQuiet, PassQuiet, Reserved
<1>2. CASE adm' = adm
  BY <1>1, <1>2 DEF IInv, PassKnows, RowsQuiet, PassQuiet, Trying
<1>3. CASE adm'.pc = "next"
  BY <1>1, <1>3 DEF PassKnows, Trying
<1> QED BY <1>2, <1>3 DEF PassQuiet

\* A write of one row that keeps its tokens.
KeepsClaim(o, r) ==
  /\ r.token = o.token /\ r.cleanup = o.cleanup
  /\ o.status \in Ended => r.status \in Ended
  /\ r.settling => o.settling \/ r.status \in Ended
  /\ r.status = "running" => o.status = "running" /\ r.target = o.target

LEMMA OneRowWritten ==
  ASSUME TypeOK, NEW w \in Workloads, NEW r \in Row, KeepsClaim(row[w], r),
         row' = [row EXCEPT ![w] = r]
  PROVE  RowsQuiet /\ row' \in [Workloads -> Row] /\ row'[w] = r
<1>1. row' \in [Workloads -> Row] /\ row'[w] = r /\ \A v \in Workloads : v # w => row'[v] = row[v]
  BY DEF TypeOK
<1> QED BY <1>1 DEF RowsQuiet, KeepsClaim

LEMMA WriteIsQuiet ==
  ASSUME TypeOK, NEW w \in Workloads, NEW r \in Row, KeepsClaim(row[w], r), Write(w, r)
  PROVE  /\ RowsQuiet /\ row' \in [Workloads -> Row] /\ row'[w] = r
         /\ stale \subseteq stale' /\ stale' \in SUBSET Workloads
<1>1. stale \subseteq stale' /\ stale' \in SUBSET Workloads
  BY DEF Write, TypeOK
<1>2. row' = [row EXCEPT ![w] = r]
  BY DEF Write
<1> QED BY <1>1, <1>2, OneRowWritten, Zenon

LEMMA OneProcBegins ==
  ASSUME TypeOK, NEW p \in Procs, NEW q \in ProcRec, q = proc[p] \/ HasCause(q, row', claim'),
         proc' = [proc EXCEPT ![p] = q]
  PROVE  ProcsQuiet /\ proc' \in [Procs -> ProcRec]
  BY DEF TypeOK, ProcsQuiet

\* The writes of the executions, cancellations and restarts in these terms.
LEMMA RowWrite ==
  ASSUME IInv, NEW w \in Workloads, NEW r \in Row, KeepsClaim(row[w], r), Write(w, r),
         NEW p \in Procs, NEW q \in ProcRec, q = proc[p] \/ HasCause(q, row', claim'),
         proc' = [proc EXCEPT ![p] = q], UNCHANGED <<claim, adm, todo, seen>>
  PROVE  IInv'
<1>1. /\ RowsQuiet /\ row' \in [Workloads -> Row]
      /\ stale \subseteq stale' /\ stale' \in SUBSET Workloads
  BY WriteIsQuiet DEF IInv
<1>2. ProcsQuiet /\ proc' \in [Procs -> ProcRec]
  BY OneProcBegins, Zenon DEF IInv
<1>3. PassQuiet
  BY <1>1 DEF PassQuiet
<1>4. TypeOK'
  BY <1>1, <1>2 DEF IInv, TypeOK
<1> QED BY <1>1, <1>2, <1>3, <1>4, RowsQuietKeeps, ProcsQuietKeep, PassQuietKeeps DEF IInv

LEMMA EndWrite ==
  ASSUME IInv, NEW w \in Workloads, NEW s \in Ended, NEW c \in Nat,
         Write(w, EndedAt(row[w], s, c)), NEW p \in Procs,
         proc' = [proc EXCEPT ![p] = At("arm", w, 0)], UNCHANGED <<claim, adm, todo, seen>>
  PROVE  IInv'
<1> DEFINE r == EndedAt(row[w], s, c)  q == At("arm", w, 0)
<1>1. row[w] \in Row
  BY DEF IInv, TypeOK
<1>2. r \in Row
  BY <1>1, RowValues, Zenon
<1>3. r.token = row[w].token /\ r.cleanup = row[w].cleanup /\ r.status = s
  BY <1>1 DEF EndedAt, Row
<1>4. "running" \notin Ended
  BY DEF Ended
<1>5. q \in ProcRec /\ q.pc = "arm" /\ q.work = w
  BY ProcValues, Zenon DEF At, ProcPcs
<1> HIDE DEF r, q
<1>6. Write(w, r) /\ proc' = [proc EXCEPT ![p] = q]
  BY DEF r, q
<1>7. KeepsClaim(row[w], r)
  BY <1>3, <1>4 DEF KeepsClaim
<1>8. row'[w] = r
  BY <1>2, <1>6, <1>7, WriteIsQuiet DEF IInv
<1>9. HasCause(q, row', claim')
  BY <1>3, <1>5, <1>8 DEF HasCause
<1> QED BY <1>2, <1>5, <1>6, <1>7, <1>9, RowWrite, Zenon

LEMMA QueueWrite ==
  ASSUME IInv, NEW w \in Workloads, row[w].status \notin Ended,
         NEW r, r = Queued(row[w]) \/ r = Requeued(row[w]), Write(w, r), w \in Procs,
         proc' = [proc EXCEPT ![w] = IF row[w].token # 0 THEN At("record", w, row[w].token) ELSE Idle],
         UNCHANGED <<claim, adm, todo, seen>>
  PROVE  IInv'
<1> DEFINE q == IF row[w].token # 0 THEN At("record", w, row[w].token) ELSE Idle
<1>1. row[w] \in Row /\ row[w].token \in Nat
  BY DEF IInv, TypeOK, Row
<1>2. r \in Row
  BY <1>1, RowValues, Zenon
<1>3. /\ r.token = row[w].token /\ r.cleanup = row[w].cleanup /\ r.status = "queued"
      /\ r.settling = row[w].settling
  BY <1>1, Zenon DEF Queued, Requeued, Row
<1>4. KeepsClaim(row[w], r)
  BY <1>3 DEF KeepsClaim
<1>5. q \in ProcRec
  BY <1>1, ProcValues DEF ProcPcs
<1>6. HasCause(q, row', claim')
  BY <1>1 DEF HasCause, At, Idle
<1> QED BY <1>2, <1>4, <1>5, <1>6, RowWrite, Zenon

\* A write that keeps the claim, with no procedure begun.
LEMMA PlainWrite ==
  ASSUME IInv, NEW w \in Workloads, NEW r \in Row, KeepsClaim(row[w], r), Write(w, r),
         UNCHANGED <<claim, adm, todo, seen, proc>>
  PROVE  IInv'
<1>1. w \in Procs
  BY DEF Procs
<1>2. proc[w] \in ProcRec /\ proc' = [proc EXCEPT ![w] = proc[w]]
  BY <1>1 DEF IInv, TypeOK
<1> QED BY <1>1, <1>2, RowWrite, Zenon

LEMMA ExecutionKeeps ==
  ASSUME IInv, NEW w \in Workloads,
         PublishHandle(w) \/ FinishExecution(w) \/ RequeueExecution(w) \/ NodeLost(w)
  PROVE  IInv'
<1>1. w \in Procs /\ row[w] \in Row /\ "running" \notin Ended
  BY DEF Procs, IInv, TypeOK, Ended
<1>2. "succeeded" \in Ended /\ "failed" \in Ended
  BY DEF Ended
<1>3. Estimate(w) \in Nat /\ Actual(w) \in SUBSET Nat
  BY Costs DEF IInv
<1>4. CASE PublishHandle(w)
  <2> DEFINE r == [row[w] EXCEPT !.handle = TRUE]
  <2>1. r \in Row
    BY <1>1, RowValues
  <2>2. KeepsClaim(row[w], r)
    BY <1>1 DEF KeepsClaim, Row
  <2>3. Write(w, r) /\ UNCHANGED <<claim, adm, todo, seen, proc>>
    BY <1>4 DEF PublishHandle, env
  <2> QED BY <2>1, <2>2, <2>3, PlainWrite
<1>5. CASE FinishExecution(w)
  <2>1. proc' = [proc EXCEPT ![w] = At("arm", w, 0)] /\ UNCHANGED <<claim, adm, todo, seen>>
    BY <1>5 DEF FinishExecution, env
  <2>2. \E s \in Ended, c \in Nat : Write(w, EndedAt(row[w], s, c))
    BY <1>2, <1>3, <1>5 DEF FinishExecution
  <2> QED BY <1>1, <2>1, <2>2, EndWrite, Zenon
<1>6. CASE RequeueExecution(w)
  BY <1>1, <1>6, QueueWrite, Zenon DEF RequeueExecution, Live, env
<1>7. CASE NodeLost(w)
  <2>1. row[w].status = "running" /\ UNCHANGED <<claim, adm, todo, seen>>
    BY <1>7 DEF NodeLost, env
  <2>2. CASE /\ Write(w, Requeued(row[w]))
             /\ proc' = [proc EXCEPT ![w] = IF row[w].token # 0 THEN At("record", w, row[w].token) ELSE Idle]
    BY <1>1, <2>1, <2>2, QueueWrite, Zenon
  <2>3. CASE /\ Write(w, EndedAt(row[w], "failed", Estimate(w)))
             /\ proc' = [proc EXCEPT ![w] = At("arm", w, 0)]
    BY <1>1, <1>2, <1>3, <2>1, <2>3, EndWrite, Zenon
  <2> QED BY <1>7, <2>2, <2>3 DEF NodeLost
<1> QED BY <1>4, <1>5, <1>6, <1>7

LEMMA CancellationKeeps ==
  ASSUME IInv, NEW w \in Workloads,
         \/ ClaimCancellation(w) \/ PublishCancelled(w) \/ WithdrawCancellation(w) \/ Reprioritize(w)
  PROVE  IInv'
<1>1. row[w] \in Row /\ Estimate(w) \in Nat
  BY Costs DEF IInv, TypeOK
<1>2. \A x \in BOOLEAN : /\ [row[w] EXCEPT !.owner = x] \in Row
                         /\ KeepsClaim(row[w], [row[w] EXCEPT !.owner = x])
  <2>1. \A x \in BOOLEAN : [row[w] EXCEPT !.owner = x] \in Row
    BY <1>1, RowValues, Zenon
  <2>2. \A x \in BOOLEAN : KeepsClaim(row[w], [row[w] EXCEPT !.owner = x])
    BY <1>1 DEF KeepsClaim, Row
  <2> QED BY <2>1, <2>2
<1>3. CASE ClaimCancellation(w)
  BY <1>2, <1>3, PlainWrite, Zenon DEF ClaimCancellation, env
<1>4. CASE WithdrawCancellation(w)
  BY <1>2, <1>4, PlainWrite, Zenon DEF WithdrawCancellation, env
<1>5. CASE Reprioritize(w)
  <2>1. KeepsClaim(row[w], row[w])
    BY DEF KeepsClaim
  <2> QED BY <1>1, <1>5, <2>1, PlainWrite DEF Reprioritize, env
<1>6. CASE PublishCancelled(w)
  <2> DEFINE e == EndedAt(row[w], "cancelled", Estimate(w))  r == [e EXCEPT !.owner = FALSE]
             q == At("arm", w, 0)
  <2>1. "cancelled" \in Ended /\ "running" \notin Ended
    BY DEF Ended
  <2>2. e \in Row
    BY <1>1, <2>1, RowValues, Zenon
  <2>3. e.token = row[w].token /\ e.cleanup = row[w].cleanup /\ e.status = "cancelled"
    BY <1>1 DEF EndedAt, Row
  <2>4. Write(w, r) /\ proc' = [proc EXCEPT !["api"] = q] /\ UNCHANGED <<claim, adm, todo, seen>>
    BY <1>6 DEF PublishCancelled, env
  <2> HIDE DEF e
  <2>5. r \in Row
    BY <2>2, RowValues, Zenon
  <2>6. r.token = row[w].token /\ r.cleanup = row[w].cleanup /\ r.status = "cancelled"
    BY <2>2, <2>3 DEF Row
  <2>7. q \in ProcRec /\ q.pc = "arm" /\ q.work = w /\ "api" \in Procs
    BY ProcValues DEF At, ProcPcs, Procs
  <2> HIDE DEF r, q
  <2>8. KeepsClaim(row[w], r)
    BY <2>1, <2>6 DEF KeepsClaim
  <2>9. row'[w] = r
    BY <2>4, <2>5, <2>8, WriteIsQuiet DEF IInv
  <2>10. HasCause(q, row', claim')
    BY <2>1, <2>6, <2>7, <2>9 DEF HasCause
  <2> QED BY <2>4, <2>5, <2>7, <2>8, <2>10, RowWrite, Zenon
<1> QED BY <1>3, <1>4, <1>5, <1>6

LEMMA RestartKeeps ==
  ASSUME IInv, NEW w \in Workloads, RecoverRow(w) \/ ReconcileRecovered(w)
  PROVE  IInv'
<1>1. w \in Procs /\ row[w] \in Row /\ "running" \notin Ended /\ "recovering" \notin Ended
  BY DEF Procs, IInv, TypeOK, Ended
<1>2. "succeeded" \in Ended /\ "failed" \in Ended
  BY DEF Ended
<1>3. Estimate(w) \in Nat /\ Actual(w) \in SUBSET Nat
  BY Costs DEF IInv
<1>4. row[w].status \notin Ended /\ UNCHANGED <<claim, adm, todo, seen>>
  BY <1>1, Zenon DEF RecoverRow, ReconcileRecovered, env
<1>5. CASE \E r : /\ r = Queued(row[w]) \/ r = Requeued(row[w])
                  /\ Write(w, r)
                  /\ proc' = [proc EXCEPT ![w] = IF row[w].token # 0 THEN At("record", w, row[w].token)
                                                                     ELSE Idle]
  BY <1>1, <1>4, <1>5, QueueWrite, Zenon
<1>6. CASE /\ \E s \in Ended, c \in Nat : Write(w, EndedAt(row[w], s, c))
           /\ proc' = [proc EXCEPT ![w] = At("arm", w, 0)]
  BY <1>1, <1>4, <1>6, EndWrite, Zenon
<1>7. CASE Write(w, [row[w] EXCEPT !.status = "recovering"]) /\ UNCHANGED proc
  <2>1. [row[w] EXCEPT !.status = "recovering"] \in Row
    BY <1>1, RowValues, Zenon DEF Waiting
  <2>2. KeepsClaim(row[w], [row[w] EXCEPT !.status = "recovering"])
    BY <1>1, <1>4 DEF KeepsClaim, Row
  <2> QED BY <1>4, <1>7, <2>1, <2>2, PlainWrite
<1>8. RecoverRow(w) => \/ \E r : /\ r = Queued(row[w]) \/ r = Requeued(row[w])
                                 /\ Write(w, r)
                                 /\ proc' = [proc EXCEPT ![w] = IF row[w].token # 0
                                                               THEN At("record", w, row[w].token) ELSE Idle]
                       \/ /\ \E s \in Ended, c \in Nat : Write(w, EndedAt(row[w], s, c))
                          /\ proc' = [proc EXCEPT ![w] = At("arm", w, 0)]
                       \/ Write(w, [row[w] EXCEPT !.status = "recovering"]) /\ UNCHANGED proc
  BY <1>2, <1>3, Zenon DEF RecoverRow
<1>9. ReconcileRecovered(w) =>
        \/ \E r : /\ r = Queued(row[w]) \/ r = Requeued(row[w])
                  /\ Write(w, r)
                  /\ proc' = [proc EXCEPT ![w] = IF row[w].token # 0 THEN At("record", w, row[w].token)
                                                                     ELSE Idle]
        \/ /\ \E s \in Ended, c \in Nat : Write(w, EndedAt(row[w], s, c))
           /\ proc' = [proc EXCEPT ![w] = At("arm", w, 0)]
  BY <1>2, <1>3 DEF ReconcileRecovered
<1> QED BY <1>5, <1>6, <1>7, <1>8, <1>9

LEMMA CrashKeeps ==
  ASSUME IInv, Crash
  PROVE  IInv'
<1>1. row' = row /\ claim' = claim /\ adm' = NoPass /\ todo' = {} /\ stale' = {}
  BY DEF Crash
<1>2. seen' = [w \in Workloads |-> [token |-> 0, cleanup |-> 0]] /\ proc' = [p \in Procs |-> Idle]
  BY DEF Crash
<1>3. NoPass \in PassRec /\ NoPass.pc = "idle"
  BY DEF NoPass, PassRec, PassPcs
<1>4. TypeOK'
  BY <1>1, <1>2, <1>3, ProcValues DEF IInv, TypeOK, SeenRec
<1>5. RowsQuiet /\ ProcsQuiet
  BY <1>1, <1>2 DEF RowsQuiet, ProcsQuiet, HasCause, Idle
<1>6. PassKnows'
  <2>1. \A w \in Workloads : claim[w].status = "reserved" => claim[w].token # 0
    BY DEF IInv, RowsHoldClaims
  <2>2. \A w \in Workloads : Reserved(w, seen[w].cleanup)' => row'[w].cleanup = seen'[w].cleanup
    BY <1>1, <1>2, <2>1 DEF Reserved
  <2> QED BY <1>1, <1>3, <2>2 DEF PassKnows, Trying
<1> QED BY <1>1, <1>4, <1>5, <1>6, RowsQuietKeeps, ProcsQuietKeep DEF IInv

-----------------------------------------------------------------------------
\* The budget procedures.

LEMMA Steps ==
  ASSUME IInv, NEW p \in Procs
  PROVE  /\ \A pc \in ProcPcs : Step(p, pc) => /\ proc' = [proc EXCEPT ![p] = [proc[p] EXCEPT !.pc = pc]]
                                             /\ proc' \in [Procs -> ProcRec] /\ proc'[p].pc = pc
                                             /\ proc'[p].work = proc[p].work
                                             /\ proc'[p].token = proc[p].token
         /\ Return(p) \/ Fail(p) => /\ proc' \in [Procs -> ProcRec] /\ proc'[p].pc \in {"idle", "failed"}
                                   /\ \A q \in Procs : q # p => proc'[q] = proc[q]
<1>1. proc \in [Procs -> ProcRec] /\ proc[p] \in ProcRec
  BY DEF IInv, TypeOK
<1>2. ASSUME NEW pc \in ProcPcs, Step(p, pc)
      PROVE  /\ proc' = [proc EXCEPT ![p] = [proc[p] EXCEPT !.pc = pc]]
             /\ proc' \in [Procs -> ProcRec] /\ proc'[p].pc = pc
             /\ proc'[p].work = proc[p].work /\ proc'[p].token = proc[p].token
  <2>1. proc' = [proc EXCEPT ![p] = [proc[p] EXCEPT !.pc = pc]]
    BY <1>2 DEF Step
  <2>2. [proc[p] EXCEPT !.pc = pc] \in ProcRec
    BY <1>1, ProcValues
  <2> QED BY <1>1, <2>1, <2>2 DEF ProcRec
<1>3. ASSUME Return(p) \/ Fail(p)
      PROVE  /\ proc' \in [Procs -> ProcRec] /\ proc'[p].pc \in {"idle", "failed"}
             /\ \A q \in Procs : q # p => proc'[q] = proc[q]
  <2>1. PICK q \in {Idle, [Idle EXCEPT !.pc = "failed"]} : proc' = [proc EXCEPT ![p] = q]
    BY <1>3 DEF Return, Fail
  <2>2. q \in ProcRec /\ q.pc \in {"idle", "failed"}
    BY ProcValues DEF Idle
  <2> QED BY <1>1, <2>1, <2>2
<1> QED BY <1>2, <1>3

\* A procedure that ends without having written anything.
LEMMA ProcEnds ==
  ASSUME IInv, NEW p \in Procs, Return(p) \/ Fail(p),
         UNCHANGED <<row, claim, adm, todo, seen, stale>>
  PROVE  IInv'
<1>1. /\ proc' \in [Procs -> ProcRec] /\ proc'[p].pc \in {"idle", "failed"}
      /\ \A q \in Procs : q # p => proc'[q] = proc[q]
  BY Steps
<1>2. RowsQuiet /\ PassQuiet
  BY DEF RowsQuiet, PassQuiet
<1>3. ProcsQuiet
  BY <1>1 DEF ProcsQuiet, HasCause
<1>4. TypeOK'
  BY <1>1 DEF IInv, TypeOK
<1> QED BY <1>2, <1>3, <1>4, RowsQuietKeeps, ProcsQuietKeep, PassQuietKeeps DEF IInv

\* A procedure that goes on to a step it has a cause for, with nothing written.
LEMMA ProcGoesOn ==
  ASSUME IInv, NEW p \in Procs, NEW q \in ProcRec, HasCause(q, row, claim),
         proc' = [proc EXCEPT ![p] = q], UNCHANGED <<row, claim, adm, todo, seen, stale>>
  PROVE  IInv'
<1>1. proc' \in [Procs -> ProcRec] /\ proc'[p] = q /\ \A o \in Procs : o # p => proc'[o] = proc[o]
  BY DEF IInv, TypeOK
<1>2. RowsQuiet /\ PassQuiet
  BY DEF RowsQuiet, PassQuiet
<1>3. ProcsQuiet
  BY <1>1 DEF ProcsQuiet
<1>4. TypeOK'
  BY <1>1 DEF IInv, TypeOK
<1> QED BY <1>2, <1>3, <1>4, RowsQuietKeeps, ProcsQuietKeep, PassQuietKeeps DEF IInv

LEMMA RecordCleanupKeeps ==
  ASSUME IInv, NEW p \in Procs, RecordCleanup(p)
  PROVE  IInv'
<1> DEFINE w == proc[p].work  k == proc[p].token
<1>1. w \in Workloads /\ k # 0 /\ k \in Nat /\ row[w] \in Row /\ "release" \in ProcPcs
  BY DEF RecordCleanup, IInv, TypeOK, ProcsHaveCause, HasCause, ProcRec, ProcPcs
<1>2. UNCHANGED <<claim, adm, todo, seen>>
  BY DEF RecordCleanup
<1>3. CASE row[w].cleanup = k /\ Step(p, "release") /\ UNCHANGED <<row, stale>>
  <2> DEFINE q == [proc[p] EXCEPT !.pc = "release"]
  <2>1. proc' = [proc EXCEPT ![p] = q]
    BY <1>1, <1>3, Steps
  <2>2. q \in ProcRec /\ q.pc = "release" /\ q.work = w /\ q.token = k
    BY <1>1, ProcValues DEF IInv, TypeOK, ProcRec
  <2> HIDE DEF q
  <2>3. HasCause(q, row, claim)
    BY <1>1, <1>3, <2>2 DEF HasCause
  <2> QED BY <1>2, <1>3, <2>1, <2>2, <2>3, ProcGoesOn, Zenon
<1>4. CASE Fail(p) /\ UNCHANGED <<row, stale>>
  BY <1>2, <1>4, ProcEnds
<1>5. CASE /\ row[w].cleanup = 0 /\ row[w].token = k /\ row[w].status \in Waiting
           /\ Write(w, [row[w] EXCEPT !.cleanup = k]) /\ Step(p, "release")
  <2> DEFINE r == [row[w] EXCEPT !.cleanup = k]
  <2>1. r \in Row /\ r.cleanup = k /\ r.status = row[w].status /\ r.settling = row[w].settling
    BY <1>1, RowValues DEF Row
  <2> HIDE DEF r
  <2>2. /\ row' = [row EXCEPT ![w] = r] /\ (adm.pc # "idle" => w \in stale')
        /\ stale \subseteq stale' /\ stale' \in SUBSET Workloads
    BY <1>1, <1>5 DEF Write, r, IInv, TypeOK
  <2>3. row' \in [Workloads -> Row] /\ row'[w] = r /\ \A v \in Workloads : v # w => row'[v] = row[v]
    BY <1>1, <2>1, <2>2 DEF IInv, TypeOK
  <2>4. "running" \notin Waiting
    BY DEF Waiting
  <2>5. /\ proc' \in [Procs -> ProcRec] /\ proc'[p].pc = "release" /\ proc'[p].work = w
        /\ proc'[p].token = k /\ \A o \in Procs : o # p => proc'[o] = proc[o]
    BY <1>1, <1>5, Steps DEF IInv, TypeOK
  <2>6. TypeOK'
    BY <1>2, <2>2, <2>3, <2>5, SMTT(20) DEF IInv, TypeOK
  <2>7. RowsHoldClaims'
    BY <1>1, <1>2, <1>5, <2>1, <2>3, <2>4 DEF IInv, RowsHoldClaims
  <2>8. ASSUME NEW o \in Procs PROVE HasCause(proc'[o], row', claim')
    <3>1. CASE o = p
      BY <1>1, <1>2, <2>1, <2>3, <2>5, <3>1, SMTT(20) DEF HasCause
    <3>2. CASE o # p
      <4>1. HasCause(proc[o], row, claim) /\ proc'[o] = proc[o]
        BY <2>5, <3>2, SMTT(20) DEF IInv, ProcsHaveCause
      <4> QED BY <1>1, <1>2, <1>5, <2>1, <2>3, <4>1, SMTT(20) DEF HasCause
    <3> QED BY <3>1, <3>2, SMTT(20)
  <2>9. PassKnows'
    <3>1. \A v \in todo' \ stale' : seen'[v].token = row'[v].token /\ seen'[v].cleanup = row'[v].cleanup
      BY <1>2, <2>2, <2>3, SMTT(20) DEF IInv, TypeOK, PassKnows
    <3>2. \A v \in Workloads : Reserved(v, seen[v].cleanup)' => row'[v].cleanup = seen'[v].cleanup
      BY <1>2, <1>5, <2>3 DEF IInv, RowsHoldClaims, PassKnows, Reserved
    <3> QED BY <1>2, <2>2, <2>3, <3>1, <3>2, SMTT(20) DEF IInv, PassKnows, Trying
  <2> QED BY <2>6, <2>7, <2>8, <2>9, SMTT(20) DEF IInv, ProcsHaveCause
<1> QED BY <1>3, <1>4, <1>5, SMTT(20) DEF RecordCleanup

LEMMA UnlinkKeeps ==
  ASSUME IInv, NEW p \in Procs, UnlinkClaim(p)
  PROVE  IInv'
<1> DEFINE w == proc[p].work  k == proc[p].token
<1>1. w \in Workloads /\ k # 0 /\ row[w] \in Row /\ ~Reserved(w, k)
  BY DEF UnlinkClaim, IInv, TypeOK, ProcsHaveCause, HasCause, Reserved
<1>2. UNCHANGED <<claim, adm, todo, seen>>
  BY DEF UnlinkClaim
<1>3. CASE Fail(p) /\ UNCHANGED <<row, stale>>
  BY <1>2, <1>3, ProcEnds
<1>4. CASE /\ row[w].cleanup = k /\ row[w].status \in Waiting
           /\ Write(w, [row[w] EXCEPT !.token = 0, !.cleanup = 0]) /\ Return(p)
  <2> DEFINE r == [row[w] EXCEPT !.token = 0, !.cleanup = 0]
  <2>1. /\ r \in Row /\ r.cleanup = 0 /\ r.token = 0 /\ r.status = row[w].status
        /\ r.settling = row[w].settling
    BY <1>1, ZenonT(40) DEF Row
  <2> HIDE DEF r
  <2>2. /\ row' = [row EXCEPT ![w] = r] /\ (adm.pc # "idle" => w \in stale')
        /\ stale \subseteq stale' /\ stale' \in SUBSET Workloads
    BY <1>1, <1>4 DEF Write, r, IInv, TypeOK
  <2>3. row' \in [Workloads -> Row] /\ row'[w] = r /\ \A v \in Workloads : v # w => row'[v] = row[v]
    BY <1>1, <2>1, <2>2 DEF IInv, TypeOK
  <2>4. "running" \notin Waiting
    BY DEF Waiting
  <2>5. /\ proc' \in [Procs -> ProcRec] /\ proc'[p].pc \in {"idle", "failed"}
        /\ \A o \in Procs : o # p => proc'[o] = proc[o]
    BY <1>4, Steps
  <2>6. TypeOK'
    BY <1>2, <2>2, <2>3, <2>5, SMTT(20) DEF IInv, TypeOK
  <2>7. RowsHoldClaims'
    BY <1>1, <1>2, <1>4, <2>1, <2>3, <2>4, SMTT(20) DEF IInv, RowsHoldClaims
  <2>8. ASSUME NEW o \in Procs PROVE HasCause(proc'[o], row', claim')
    <3>1. CASE o = p
      BY <2>5, <3>1, SMTT(20) DEF HasCause
    <3>2. CASE o # p
      <4>1. HasCause(proc[o], row, claim) /\ proc'[o] = proc[o]
        BY <2>5, <3>2, SMTT(20) DEF IInv, ProcsHaveCause
      <4> QED BY <1>1, <1>2, <1>4, <2>1, <2>3, <4>1 DEF HasCause, Reserved
    <3> QED BY <3>1, <3>2
  <2>9. PassKnows'
    <3>1. \A v \in todo' \ stale' : seen'[v].token = row'[v].token /\ seen'[v].cleanup = row'[v].cleanup
      BY <1>2, <2>2, <2>3 DEF IInv, TypeOK, PassKnows
    <3>2. \A v \in Workloads : Reserved(v, seen[v].cleanup)' => row'[v].cleanup = seen'[v].cleanup
      BY <1>1, <1>2, <1>4, <2>3 DEF IInv, PassKnows, Reserved
    <3> QED BY <1>2, <2>2, <2>3, <3>1, <3>2 DEF IInv, PassKnows, Trying
  <2> QED BY <2>6, <2>7, <2>8, <2>9 DEF IInv, ProcsHaveCause
<1> QED BY <1>3, <1>4 DEF UnlinkClaim

\* A claim that is released or settled: no claim becomes reserved by it.
LEMMA ClaimWrite ==
  ASSUME IInv, NEW p \in Procs, NEW pc \in {"unlink", "settled"}, Step(p, pc),
         NEW w \in Workloads, w = proc[p].work, NEW c \in Claim, c.token = claim[w].token,
         proc[p].pc = "release" \/ proc[p].pc = "settle",
         proc[p].pc = "settle" <=> pc = "settled",
         c = claim[w] \/ c.status \in {"released", "settled"},
         c.status = "settled" /\ c # claim[w] => row[w].status \in Ended,
         c.status = "released" /\ c # claim[w] => row[w].cleanup # 0,
         pc = "unlink" => ~(c.status = "reserved" /\ c.token = proc[p].token),
         claim' = [claim EXCEPT ![w] = c], UNCHANGED <<row, stale, adm, todo, seen>>
  PROVE  IInv'
<1>1. /\ claim' \in [Workloads -> Claim] /\ claim'[w] = c
      /\ \A v \in Workloads : v # w => claim'[v] = claim[v]
  BY DEF IInv, TypeOK
<1>2. /\ proc' \in [Procs -> ProcRec] /\ proc'[p].pc = pc /\ proc'[p].work = w
      /\ proc'[p].token = proc[p].token /\ \A o \in Procs : o # p => proc'[o] = proc[o]
  BY Steps, SMTT(20) DEF ProcPcs, IInv, TypeOK
<1>3. TypeOK'
  BY <1>1, <1>2, SMTT(20) DEF IInv, TypeOK
<1>4. \A v \in Workloads : claim'[v].status = "reserved" => claim'[v] = claim[v]
  BY <1>1, SMTT(20)
<1>5. RowsHoldClaims'
  <2> SUFFICES ASSUME NEW v \in Workloads
               PROVE  /\ row[v].settling \/ claim'[v].status = "settled" => row[v].status \in Ended
                      /\ claim'[v].status = "reserved" => claim'[v].token # 0
                      /\ row[v].token # 0 /\ row[v].cleanup = 0 =>
                           /\ claim'[v].token = row[v].token
                           /\ claim'[v].status \in {"reserved", "settled"}
                      /\ row[v].status = "running" =>
                           row[v].cleanup = 0 /\ (Price[row[v].target] > 0 => row[v].token # 0)
    BY DEF RowsHoldClaims
  <2> QED BY <1>1, <1>4, SMTT(20) DEF IInv, RowsHoldClaims
<1>6. ASSUME NEW o \in Procs PROVE HasCause(proc'[o], row', claim')
  <2>1. HasCause(proc[o], row, claim)
    BY DEF IInv, ProcsHaveCause
  <2>2. CASE o = p
    BY <1>1, <1>2, <2>1, <2>2, ZenonT(40) DEF HasCause
  <2>3. CASE o # p
    <3>1. proc'[o] = proc[o]
      BY <1>2, <2>3, SMTT(20)
    <3> DEFINE q == proc[o]
    <3>2. q.work \in Workloads /\ claim'[q.work].status = "reserved" => claim'[q.work] = claim[q.work]
      BY <1>4
    <3>3. HasCause(q, row, claim)
      BY <2>1
    <3> HIDE DEF q
    <3>4. HasCause(q, row, claim')
      BY <3>2, <3>3 DEF HasCause
    <3> QED BY <3>1, <3>4 DEF q
  <2> QED BY <2>2, <2>3
<1>7. PassKnows'
  <2>1. \A v \in Workloads : Reserved(v, seen[v].cleanup)' => row'[v].cleanup = seen'[v].cleanup
    BY <1>4 DEF IInv, PassKnows, Reserved
  <2> QED BY <2>1, SMTT(20) DEF IInv, PassKnows
<1> QED BY <1>3, <1>5, <1>6, <1>7, ZenonT(40) DEF IInv, ProcsHaveCause

LEMMA ReleaseKeeps ==
  ASSUME IInv, NEW p \in Procs, ReleaseBudgetClaim(p)
  PROVE  IInv'
<1> DEFINE w == proc[p].work  k == proc[p].token
<1>1. /\ w \in Workloads /\ k # 0 /\ claim[w] \in Claim /\ proc[p].pc = "release"
      /\ Reserved(w, k) => row[w].cleanup = k
  BY DEF ReleaseBudgetClaim, IInv, TypeOK, ProcsHaveCause, HasCause, Reserved
<1>2. UNCHANGED <<row, stale, adm, todo, seen>>
  BY DEF ReleaseBudgetClaim
<1>3. CASE Fail(p) /\ UNCHANGED claim
  BY <1>2, <1>3, ProcEnds, SMTT(20)
<1>4. CASE /\ claim[w].status = "none" \/ (claim[w].token = k /\ claim[w].status \in {"reserved", "released"})
           /\ claim' = IF claim[w].status = "reserved"
                       THEN [claim EXCEPT ![w].status = "released"] ELSE claim
           /\ Step(p, "unlink")
  <2> DEFINE c == IF claim[w].status = "reserved" THEN [claim[w] EXCEPT !.status = "released"]
                                                  ELSE claim[w]
  <2>1. c \in Claim /\ c.token = claim[w].token /\ c.status # "reserved"
    BY <1>1 DEF Claim
  <2>2. c # claim[w] => claim[w].status = "reserved" /\ c.status = "released"
    BY <1>1 DEF Claim
  <2>3. claim' = [claim EXCEPT ![w] = c]
    BY <1>1, <1>4, ZenonT(40) DEF IInv, TypeOK
  <2> HIDE DEF c
  <2>4. c.status = "released" /\ c # claim[w] => row[w].cleanup # 0
    BY <1>1, <1>4, <2>2 DEF Reserved
  <2>5. /\ Step(p, "unlink") /\ "unlink" \in {"unlink", "settled"} /\ proc[p].pc # "settle"
        /\ c = claim[w] \/ c.status \in {"released", "settled"}
        /\ c.status = "settled" /\ c # claim[w] => row[w].status \in Ended
    BY <1>1, <1>4, <2>2
  <2> QED BY <1>1, <1>2, <2>1, <2>3, <2>4, <2>5, ClaimWrite, Zenon
<1> QED BY <1>3, <1>4 DEF ReleaseBudgetClaim

LEMMA SettleKeeps ==
  ASSUME IInv, NEW p \in Procs, SettleBudgetClaim(p)
  PROVE  IInv'
<1> DEFINE w == proc[p].work
<1>1. /\ w \in Workloads /\ claim[w] \in Claim /\ proc[p].pc = "settle" /\ row[w].status \in Ended
      /\ row[w].cost \in Nat
  BY DEF SettleBudgetClaim, IInv, TypeOK, ProcsHaveCause, HasCause, Row
<1>2. UNCHANGED <<row, stale, adm, todo, seen>>
  BY DEF SettleBudgetClaim
<1>3. CASE Return(p) /\ UNCHANGED claim
  BY <1>2, <1>3, ProcEnds, SMTT(20)
<1>4. CASE /\ claim' = [claim EXCEPT ![w].status = "settled", ![w].paid = row[w].cost]
           /\ Step(p, "settled")
  <2> DEFINE c == [claim[w] EXCEPT !.status = "settled", !.paid = row[w].cost]
  <2>1. c \in Claim /\ c.token = claim[w].token /\ c.status = "settled"
    BY <1>1, Zenon DEF Claim
  <2>2. claim' = [claim EXCEPT ![w] = c]
    BY <1>1, <1>4, Zenon DEF IInv, TypeOK
  <2> HIDE DEF c
  <2> QED BY <1>1, <1>2, <1>4, <2>1, <2>2, ClaimWrite, Zenon
<1> QED BY <1>3, <1>4, SMTT(20) DEF SettleBudgetClaim

LEMMA MarkSettlementKeeps ==
  ASSUME IInv, NEW p \in Procs, RecordSettlement(p) \/ ClearSettlement(p)
  PROVE  IInv'
<1> DEFINE w == proc[p].work
<1>1. w \in Workloads /\ row[w] \in Row /\ row[w].status \in Ended
  BY DEF RecordSettlement, ClearSettlement, IInv, TypeOK, ProcsHaveCause, HasCause
<1>2. UNCHANGED <<claim, adm, todo, seen>>
  BY DEF RecordSettlement, ClearSettlement
<1>3. \A x \in BOOLEAN : /\ [row[w] EXCEPT !.settling = x] \in Row
                         /\ [row[w] EXCEPT !.settling = x].status \in Ended
                         /\ KeepsClaim(row[w], [row[w] EXCEPT !.settling = x])
  <2>1. \A x \in BOOLEAN : [row[w] EXCEPT !.settling = x] \in Row
    BY <1>1, RowValues, Zenon
  <2>2. \A x \in BOOLEAN : [row[w] EXCEPT !.settling = x].status \in Ended
    BY <1>1 DEF Row
  <2>3. \A x \in BOOLEAN : KeepsClaim(row[w], [row[w] EXCEPT !.settling = x])
    BY <1>1 DEF KeepsClaim, Row
  <2> QED BY <2>1, <2>2, <2>3
<1>4. CASE Return(p) /\ UNCHANGED <<row, stale>>
  BY <1>2, <1>4, ProcEnds
<1>5. CASE Return(p) /\ Write(w, [row[w] EXCEPT !.settling = FALSE])
  <2>1. HasCause(Idle, row', claim')
    BY DEF HasCause, Idle
  <2> QED BY <1>1, <1>2, <1>3, <1>5, <2>1, RowWrite, ProcValues, Zenon DEF Return
<1>6. CASE /\ Write(w, [row[w] EXCEPT !.settling = TRUE]) /\ row[w].token # 0
           /\ proc' = [proc EXCEPT ![p] = At("settle", w, row[w].token)]
  <2> DEFINE r == [row[w] EXCEPT !.settling = TRUE]  q == At("settle", w, row[w].token)
  <2>1. r \in Row /\ r.status \in Ended /\ KeepsClaim(row[w], r) /\ row[w].token \in Nat
    BY <1>1, <1>3, Zenon DEF Row
  <2>2. q \in ProcRec /\ q.pc = "settle" /\ q.work = w
    BY <1>1, <2>1, ProcValues, SMTT(20) DEF At, ProcPcs
  <2>3. Write(w, r) /\ proc' = [proc EXCEPT ![p] = q]
    BY <1>6
  <2> HIDE DEF r, q
  <2>4. row'[w] = r
    BY <1>1, <2>1, <2>3, WriteIsQuiet, SMTT(20) DEF IInv
  <2>5. HasCause(q, row', claim')
    BY <1>1, <2>1, <2>2, <2>4, SMTT(20) DEF HasCause
  <2> QED BY <1>1, <1>2, <2>1, <2>2, <2>3, <2>5, RowWrite, Zenon
<1> QED BY <1>4, <1>5, <1>6, SMTT(20) DEF RecordSettlement, ClearSettlement

LEMMA RetryKeeps ==
  ASSUME IInv, NEW w \in Workloads, RetryBudgetIntents(w)
  PROVE  IInv'
<1> DEFINE a == At("release", w, row[w].cleanup)  b == At("settle", w, row[w].token)
<1>1. row[w].cleanup \in Nat /\ row[w].token \in Nat /\ "loop" \in Procs
  BY DEF IInv, TypeOK, Row, Procs
<1>2. a \in ProcRec /\ a.pc = "release" /\ a.work = w /\ a.token = row[w].cleanup
  BY <1>1, ProcValues DEF At, ProcPcs
<1>3. b \in ProcRec /\ b.pc = "settle" /\ b.work = w
  BY <1>1, ProcValues, SMTT(20) DEF At, ProcPcs
<1>4. UNCHANGED <<row, claim, adm, todo, seen, stale>>
  BY DEF RetryBudgetIntents
<1>5. \/ row[w].cleanup # 0 /\ proc' = [proc EXCEPT !["loop"] = a]
      \/ row[w].settling /\ proc' = [proc EXCEPT !["loop"] = b]
  BY DEF RetryBudgetIntents
<1> HIDE DEF a, b
<1>6. row[w].cleanup # 0 => HasCause(a, row, claim)
  BY <1>2 DEF HasCause
<1>7. row[w].settling => HasCause(b, row, claim)
  BY <1>3 DEF HasCause, IInv, RowsHoldClaims
<1> QED BY <1>1, <1>2, <1>3, <1>4, <1>5, <1>6, <1>7, ProcGoesOn, SMTT(20)

-----------------------------------------------------------------------------
\* The reconcile pass.

LEMMA RestsBetween ==
  /\ NoPass \in PassRec /\ NoPass.pc = "idle"
  /\ [NoPass EXCEPT !.pc = "next"] \in PassRec /\ [NoPass EXCEPT !.pc = "next"].pc = "next"
<1>1. NoPass \in PassRec /\ NoPass.pc = "idle" /\ "next" \in PassPcs
  BY DEF NoPass, PassRec, PassPcs
<1> QED BY <1>1 DEF PassRec

\* A step of the pass that writes no row and no claim.
LEMMA PassMoves ==
  ASSUME IInv, UNCHANGED <<row, claim>>, ProcsQuiet, proc' \in [Procs -> ProcRec],
         adm' \in PassRec, seen' \in [Workloads -> SeenRec], todo' \in SUBSET Workloads,
         stale' \in SUBSET Workloads, PassKnows'
  PROVE  IInv'
<1>1. RowsQuiet
  BY DEF RowsQuiet
<1>2. TypeOK'
  BY DEF IInv, TypeOK
<1> QED BY <1>1, <1>2, RowsQuietKeeps, ProcsQuietKeep DEF IInv

LEMMA StartPassKeeps ==
  ASSUME IInv, StartPass
  PROVE  IInv'
<1>1. UNCHANGED <<row, claim, stale, proc>> /\ todo' \in SUBSET Workloads
  BY DEF StartPass
<1>2. seen' = [w \in Workloads |-> [token |-> row[w].token, cleanup |-> row[w].cleanup]]
  BY DEF StartPass
<1>3. \A w \in Workloads : row[w].token \in Nat /\ row[w].cleanup \in Nat
  BY DEF IInv, TypeOK, Row
<1>4. /\ seen' \in [Workloads -> SeenRec]
      /\ \A w \in Workloads : seen'[w].token = row[w].token /\ seen'[w].cleanup = row[w].cleanup
  BY <1>2, <1>3 DEF SeenRec
<1>5. adm' \in PassRec /\ adm'.pc = "next"
  BY RestsBetween DEF StartPass
<1>6. PassKnows'
  BY <1>1, <1>4, <1>5 DEF PassKnows, Trying
<1>7. ProcsQuiet /\ proc' \in [Procs -> ProcRec] /\ stale' \in SUBSET Workloads
  BY <1>1 DEF ProcsQuiet, IInv, TypeOK
<1> QED BY <1>1, <1>4, <1>5, <1>6, <1>7, PassMoves

LEMMA NextWorkloadKeeps ==
  ASSUME IInv, NEW w \in Workloads, NextWorkload(w)
  PROVE  IInv'
<1>1. UNCHANGED <<row, claim, seen, stale>> /\ todo' = todo \ {w} /\ w \in todo /\ adm.pc = "next"
  BY DEF NextWorkload
<1>2. seen[w].cleanup \in Nat /\ adm \in PassRec /\ "pass" \in Procs
  BY DEF IInv, TypeOK, SeenRec, Procs
<1>3. "cleaning" \in PassPcs /\ "enter" \in PassPcs
  BY SMTT(20) DEF PassPcs
<1>4. \A v \in todo' \ stale' : seen'[v].token = row'[v].token /\ seen'[v].cleanup = row'[v].cleanup
  BY <1>1 DEF IInv, PassKnows
<1>5. \A v \in Workloads : Reserved(v, seen[v].cleanup)' => row'[v].cleanup = seen'[v].cleanup
  BY <1>1 DEF IInv, PassKnows, Reserved
<1>6. CASE /\ seen[w].cleanup # 0 /\ adm' = [adm EXCEPT !.pc = "cleaning", !.work = w]
           /\ proc' = [proc EXCEPT !["pass"] = At("release", w, seen[w].cleanup)]
  <2> DEFINE q == At("release", w, seen[w].cleanup)
  <2>1. q \in ProcRec /\ q.pc = "release" /\ q.work = w /\ q.token = seen[w].cleanup
    BY <1>2, ProcValues DEF At, ProcPcs
  <2> HIDE DEF q
  <2>2. HasCause(q, row', claim')
    BY <1>1, <1>6, <2>1 DEF HasCause, IInv, PassKnows, Reserved
  <2>3. ProcsQuiet /\ proc' \in [Procs -> ProcRec]
    BY <1>2, <1>6, <2>1, <2>2, OneProcBegins, Zenon DEF q, IInv
  <2>4. adm' \in PassRec /\ adm'.pc = "cleaning" /\ adm'.work = w
    BY <1>2, <1>3, <1>6, ZenonT(40) DEF PassRec
  <2>5. PassKnows'
    BY <1>4, <1>5, <2>4 DEF PassKnows, Trying
  <2> QED BY <1>1, <2>3, <2>4, <2>5, PassMoves DEF IInv, TypeOK
<1>7. CASE /\ seen[w].cleanup = 0 /\ adm' = [adm EXCEPT !.pc = "enter", !.work = w] /\ UNCHANGED proc
  <2>1. ProcsQuiet /\ proc' \in [Procs -> ProcRec]
    BY <1>7 DEF ProcsQuiet, IInv, TypeOK
  <2>2. adm' \in PassRec /\ adm'.pc = "enter" /\ adm'.work = w
    BY <1>2, <1>3, <1>7, Zenon DEF PassRec
  <2>3. w \notin stale => seen[w].token = row[w].token /\ row[w].cleanup = 0
    BY <1>1, <1>7, SMTT(20) DEF IInv, PassKnows
  <2>4. PassKnows'
    BY <1>1, <1>4, <1>5, <2>2, <2>3 DEF PassKnows, Trying
  <2> QED BY <1>1, <2>1, <2>2, <2>4, PassMoves DEF IInv, TypeOK
<1> QED BY <1>6, <1>7 DEF NextWorkload

LEMMA CleanedKeeps ==
  ASSUME IInv, Cleaned
  PROVE  IInv'
<1> DEFINE w == adm.work
<1>1. UNCHANGED <<row, claim, todo>> /\ adm.pc = "cleaning" /\ Return("pass") /\ "pass" \in Procs
  BY SMTT(20) DEF Cleaned, Procs
<1>2. w \in Workloads /\ row[w].token \in Nat /\ adm \in PassRec /\ "enter" \in PassPcs
  BY <1>1 DEF IInv, TypeOK, PassKnows, Row, PassPcs
<1>3. ProcsQuiet /\ proc' \in [Procs -> ProcRec]
  BY <1>1, Steps DEF ProcsQuiet, HasCause
<1>4. CASE adm' = [NoPass EXCEPT !.pc = "next"] /\ UNCHANGED <<seen, stale>>
  <2>1. adm' \in PassRec /\ adm'.pc = "next"
    BY <1>4, RestsBetween
  <2>2. RowsQuiet /\ PassQuiet
    BY <1>1, <1>4, <2>1 DEF RowsQuiet, PassQuiet
  <2>3. PassKnows'
    BY <1>1, <2>2, PassQuietKeeps, SMTT(20)
  <2> QED BY <1>1, <1>3, <1>4, <2>1, <2>3, PassMoves DEF IInv, TypeOK
<1>5. CASE /\ row[w].cleanup = 0 /\ seen' = [seen EXCEPT ![w] = [token |-> row[w].token, cleanup |-> 0]]
           /\ stale' = stale \ {w} /\ adm' = [adm EXCEPT !.pc = "enter"]
  <2>1. [token |-> row[w].token, cleanup |-> 0] \in SeenRec
    BY <1>2 DEF SeenRec
  <2>2. /\ seen' \in [Workloads -> SeenRec] /\ seen'[w].token = row[w].token /\ seen'[w].cleanup = 0
        /\ \A v \in Workloads : v # w => seen'[v] = seen[v]
    BY <1>2, <1>5, <2>1 DEF IInv, TypeOK
  <2>3. adm' \in PassRec /\ adm'.pc = "enter" /\ adm'.work = w
    BY <1>2, <1>5 DEF PassRec
  <2>4. \A v \in todo' \ stale' : seen'[v].token = row'[v].token /\ seen'[v].cleanup = row'[v].cleanup
    BY <1>1, <1>5, <2>2 DEF IInv, TypeOK, PassKnows
  <2>5. \A v \in Workloads : Reserved(v, seen[v].cleanup)' => row'[v].cleanup = seen'[v].cleanup
    BY <1>1, <1>5, <2>2 DEF IInv, PassKnows, Reserved
  <2>6. PassKnows'
    BY <1>1, <1>2, <1>5, <2>2, <2>3, <2>4, <2>5, SMTT(20) DEF PassKnows, Trying
  <2>7. todo' \in SUBSET Workloads /\ stale' \in SUBSET Workloads
    BY <1>1, <1>5 DEF IInv, TypeOK
  <2> QED BY <1>1, <1>3, <2>2, <2>3, <2>6, <2>7, PassMoves, SMTT(20)
<1> QED BY <1>4, <1>5 DEF Cleaned

\* The end of an attempt at one workload, whose row ends, waits or is left alone.
LEMMA AttemptEnds ==
  ASSUME IInv, RowsQuiet, row' \in [Workloads -> Row], adm.pc # "idle",
         adm' = [NoPass EXCEPT !.pc = "next"], UNCHANGED <<claim, todo, seen, stale, proc>>
  PROVE  IInv'
<1>1. adm' \in PassRec /\ adm'.pc = "next"
  BY RestsBetween
<1>2. ProcsQuiet /\ PassQuiet
  BY <1>1 DEF ProcsQuiet, PassQuiet
<1>3. TypeOK'
  BY <1>1 DEF IInv, TypeOK
<1> QED BY <1>2, <1>3, RowsQuietKeeps, ProcsQuietKeep, PassQuietKeeps DEF IInv

LEMMA RejectionIsQuiet ==
  ASSUME IInv, NEW w \in Workloads,
         \/ row' = row
         \/ row' = [row EXCEPT ![w] = EndedAt(@, "rejected", Estimate(w))]
         \/ row[w].status \in Admissible /\ row' = [row EXCEPT ![w].status = "waiting"]
  PROVE  RowsQuiet /\ row' \in [Workloads -> Row]
<1>1. row[w] \in Row /\ Estimate(w) \in Nat /\ "rejected" \in Ended /\ "running" \notin Ended
  BY Costs DEF IInv, TypeOK, Ended
<1>2. CASE row' = row
  BY <1>2 DEF RowsQuiet, IInv, TypeOK
<1>3. CASE row' = [row EXCEPT ![w] = EndedAt(@, "rejected", Estimate(w))]
  <2> DEFINE r == EndedAt(row[w], "rejected", Estimate(w))
  <2>1. r \in Row
    BY <1>1, RowValues, Zenon
  <2>2. r.token = row[w].token /\ r.cleanup = row[w].cleanup /\ r.status = "rejected"
    BY <1>1 DEF EndedAt, Row
  <2>3. row' = [row EXCEPT ![w] = r]
    BY <1>3
  <2> HIDE DEF r
  <2>4. KeepsClaim(row[w], r)
    BY <1>1, <2>2, SMTT(20) DEF KeepsClaim
  <2> QED BY <2>1, <2>3, <2>4, OneRowWritten, Zenon DEF IInv
<1>4. CASE row[w].status \in Admissible /\ row' = [row EXCEPT ![w].status = "waiting"]
  <2> DEFINE r == [row[w] EXCEPT !.status = "waiting"]
  <2>1. r \in Row
    BY <1>1, RowValues, ZenonT(40) DEF Waiting
  <2>2. /\ r.token = row[w].token /\ r.cleanup = row[w].cleanup /\ r.status = "waiting"
        /\ r.settling = row[w].settling
    BY <1>1 DEF Row
  <2>3. row' = [row EXCEPT ![w] = r]
    BY <1>4 DEF IInv, TypeOK
  <2>4. row[w].status \notin Ended
    BY <1>4 DEF Admissible, Ended
  <2> HIDE DEF r
  <2>5. KeepsClaim(row[w], r)
    BY <2>2, <2>4, SMTT(20) DEF KeepsClaim
  <2> QED BY <2>1, <2>3, <2>5, OneRowWritten, Zenon DEF IInv
<1> QED BY <1>2, <1>3, <1>4

\* A step to another place of the attempt, with the tokens as they were.
LEMMA AttemptGoesOn ==
  ASSUME IInv, adm.pc \in Trying, adm' \in PassRec, adm'.work = adm.work,
         adm'.pc \in {"candidate", "undo", "finish"}, stale \subseteq stale',
         adm'.pc = "undo" => adm'.left # <<>>, UNCHANGED <<row, claim, todo, seen>>
  PROVE  PassKnows'
<1>1. adm.work \in Workloads /\ adm'.pc \in Trying
  BY SMTT(20) DEF IInv, PassKnows, Trying
<1>2. \A v \in todo' \ stale' : seen'[v].token = row'[v].token /\ seen'[v].cleanup = row'[v].cleanup
  BY DEF IInv, PassKnows
<1>3. \A v \in Workloads : Reserved(v, seen[v].cleanup)' => row'[v].cleanup = seen'[v].cleanup
  BY SMTT(20) DEF IInv, PassKnows, Reserved
<1>4. adm.work \notin stale' => seen[adm.work].token = row[adm.work].token /\ row[adm.work].cleanup = 0
  BY DEF IInv, PassKnows
<1> QED BY <1>1, <1>2, <1>3, <1>4, SMTT(20) DEF PassKnows

LEMMA GiveUpKeeps ==
  ASSUME IInv, adm.pc \in {"reserve", "place", "run"}, NEW k \in Nat, GiveUp(k),
         stale \subseteq stale', stale' \in SUBSET Workloads, UNCHANGED <<row, claim, todo, seen>>
  PROVE  IInv'
<1>1. adm \in PassRec /\ adm.pc \in Trying /\ adm.left # <<>> /\ adm.work \in Workloads
  BY SMTT(20) DEF IInv, TypeOK, PassKnows, Trying
<1>2. Tail(adm.left) \in Seq(Targets)
  BY <1>1, ListedTargets DEF IInv
<1>3. "undo" \in PassPcs /\ "candidate" \in PassPcs /\ 0 \in Nat /\ "pass" \in Procs
  BY DEF PassPcs, Procs
<1>4. CASE /\ k # 0 /\ adm' = [adm EXCEPT !.pc = "undo", !.token = 0]
           /\ proc' = [proc EXCEPT !["pass"] = At("record", adm.work, k)]
  <2> DEFINE q == At("record", adm.work, k)
  <2>1. q \in ProcRec /\ q.pc = "record" /\ q.work = adm.work /\ q.token = k
    BY <1>1, ProcValues DEF At, ProcPcs
  <2>2. proc' = [proc EXCEPT !["pass"] = q]
    BY <1>4
  <2> HIDE DEF q
  <2>3. HasCause(q, row', claim')
    BY <1>1, <1>4, <2>1, SMTT(20) DEF HasCause
  <2>4. ProcsQuiet /\ proc' \in [Procs -> ProcRec]
    BY <1>3, <2>1, <2>2, <2>3, OneProcBegins, Zenon DEF IInv
  <2>5. adm' \in PassRec /\ adm'.pc = "undo" /\ adm'.work = adm.work /\ adm'.left = adm.left
    BY <1>1, <1>3, <1>4, ZenonT(40) DEF PassRec
  <2>6. PassKnows'
    BY <1>1, <2>5, AttemptGoesOn, SMTT(20)
  <2> QED BY <2>4, <2>5, <2>6, PassMoves DEF IInv, TypeOK
<1>5. CASE adm' = [adm EXCEPT !.pc = "candidate", !.left = Tail(@), !.token = 0] /\ UNCHANGED proc
  <2>1. ProcsQuiet /\ proc' \in [Procs -> ProcRec]
    BY <1>5 DEF ProcsQuiet, IInv, TypeOK
  <2>2. adm' \in PassRec /\ adm'.pc = "candidate" /\ adm'.work = adm.work
    BY <1>1, <1>2, <1>3, <1>5, Zenon DEF PassRec
  <2>3. PassKnows'
    BY <1>1, <2>2, AttemptGoesOn
  <2> QED BY <2>1, <2>2, <2>3, PassMoves DEF IInv, TypeOK
<1> QED BY <1>4, <1>5, SMTT(20) DEF GiveUp

LEMMA EnterKeeps ==
  ASSUME IInv, EnterAdmission
  PROVE  IInv'
<1>1. UNCHANGED <<claim, todo, seen, stale, proc>> /\ adm.pc = "enter" /\ adm \in PassRec
  BY DEF EnterAdmission, IInv, TypeOK
<1>2. adm.work \in Workloads
  BY <1>1 DEF IInv, PassKnows, Trying
<1>3. CASE /\ row' = IF Fresh(adm.work) THEN [row EXCEPT ![adm.work] = EndedAt(@, "rejected", Estimate(adm.work))]
                                        ELSE row
           /\ adm' = [NoPass EXCEPT !.pc = "next"]
  BY <1>1, <1>2, <1>3, RejectionIsQuiet, AttemptEnds, Zenon
<1>4. CASE adm' = [adm EXCEPT !.pc = "candidate", !.left = Candidates] /\ UNCHANGED row
  <2>1. Candidates \in Seq(Targets) /\ "candidate" \in PassPcs
    BY CandidatesListed DEF PassPcs
  <2>2. adm' \in PassRec /\ adm'.pc = "candidate" /\ adm'.work = adm.work
    BY <1>1, <1>4, <2>1, Zenon DEF PassRec
  <2>3. PassKnows'
    BY <1>1, <1>4, <2>2, AttemptGoesOn DEF Trying
  <2>4. ProcsQuiet
    BY <1>1 DEF ProcsQuiet
  <2> QED BY <1>1, <1>4, <2>2, <2>3, <2>4, PassMoves DEF IInv, TypeOK
<1> QED BY <1>3, <1>4 DEF EnterAdmission

LEMMA FinishKeeps ==
  ASSUME IInv, FinishAdmission
  PROVE  IInv'
<1>1. /\ UNCHANGED <<claim, todo, seen, stale, proc>> /\ adm.pc = "finish"
      /\ adm' = [NoPass EXCEPT !.pc = "next"]
  BY DEF FinishAdmission
<1>2. adm.work \in Workloads
  BY <1>1 DEF IInv, PassKnows, Trying
<1>3. RowsQuiet /\ row' \in [Workloads -> Row]
  BY <1>2, RejectionIsQuiet, Zenon DEF FinishAdmission, Fresh
<1> QED BY <1>1, <1>3, AttemptEnds

LEMMA TryCandidateKeeps ==
  ASSUME IInv, TryCandidate
  PROVE  IInv'
<1>1. UNCHANGED <<row, claim, todo, seen, stale, proc>> /\ adm.pc = "candidate" /\ adm \in PassRec
  BY DEF TryCandidate, IInv, TypeOK
<1>2. adm.work \in Workloads /\ adm.pc \in Trying
  BY <1>1 DEF IInv, PassKnows, Trying
<1>3. seen[adm.work].token \in Nat /\ "finish" \in PassPcs /\ "reserve" \in PassPcs
  BY <1>2 DEF IInv, TypeOK, SeenRec, PassPcs
<1>4. ProcsQuiet
  BY <1>1 DEF ProcsQuiet
<1>5. CASE adm' = [adm EXCEPT !.pc = "finish"]
  <2>1. adm' \in PassRec /\ adm'.pc = "finish" /\ adm'.work = adm.work
    BY <1>1, <1>3, <1>5 DEF PassRec
  <2>2. PassKnows'
    BY <1>1, <1>2, <2>1, AttemptGoesOn, SMTT(20)
  <2> QED BY <1>1, <1>4, <2>1, <2>2, PassMoves DEF IInv, TypeOK
<1>6. CASE adm.left # <<>> /\ adm' = [adm EXCEPT !.left = Tail(@)]
  <2>1. Tail(adm.left) \in Seq(Targets)
    BY <1>6, ListedTargets DEF IInv
  <2>2. adm' \in PassRec /\ adm'.pc = "candidate" /\ adm'.work = adm.work
    BY <1>1, <1>6, <2>1, SMTT(20) DEF PassRec
  <2>3. PassKnows'
    BY <1>1, <1>2, <2>2, AttemptGoesOn, SMTT(20)
  <2> QED BY <1>1, <1>4, <2>2, <2>3, PassMoves DEF IInv, TypeOK
<1>7. CASE adm.left # <<>> /\ adm' = [adm EXCEPT !.pc = "reserve", !.token = seen[adm.work].token]
  <2>1. /\ adm' \in PassRec /\ adm'.pc = "reserve" /\ adm'.work = adm.work /\ adm'.left = adm.left
        /\ adm'.token = seen[adm.work].token
    BY <1>1, <1>3, <1>7, Zenon DEF PassRec
  <2>2. PassKnows'
    BY <1>1, <1>2, <1>7, <2>1 DEF IInv, PassKnows, Trying, Reserved
  <2> QED BY <1>1, <1>4, <2>1, <2>2, PassMoves DEF IInv, TypeOK
<1> QED BY <1>5, <1>6, <1>7 DEF TryCandidate

LEMMA UndoneKeeps ==
  ASSUME IInv, Undone
  PROVE  IInv'
<1>1. /\ UNCHANGED <<row, claim, todo, seen, stale, proc>> /\ adm.pc = "undo" /\ adm \in PassRec
      /\ adm' = [adm EXCEPT !.pc = "candidate", !.left = Tail(@)] /\ "candidate" \in PassPcs
  BY DEF Undone, IInv, TypeOK, PassPcs
<1>2. adm.left # <<>>
  BY <1>1 DEF IInv, PassKnows
<1>3. Tail(adm.left) \in Seq(Targets)
  BY <1>2, ListedTargets DEF IInv
<1>4. adm' \in PassRec /\ adm'.pc = "candidate" /\ adm'.work = adm.work
  BY <1>1, <1>3, Zenon DEF PassRec
<1>5. PassKnows'
  BY <1>1, <1>4, AttemptGoesOn DEF Trying
<1>6. ProcsQuiet
  BY <1>1 DEF ProcsQuiet
<1> QED BY <1>1, <1>4, <1>5, <1>6, PassMoves DEF IInv, TypeOK

LEMMA PlaceKeeps ==
  ASSUME IInv, UnpricedTarget \/ PlaceOnTarget
  PROVE  IInv'
<1>1. /\ UNCHANGED <<row, claim, todo, seen, stale>> /\ adm \in PassRec /\ adm.token \in Nat
      /\ adm.pc \in {"reserve", "place", "run"} /\ "place" \in PassPcs /\ "run" \in PassPcs
  BY DEF UnpricedTarget, PlaceOnTarget, IInv, TypeOK, PassRec, PassPcs
<1>2. CASE UnpricedTarget
  <2>1. /\ adm' \in PassRec /\ adm'.pc = "place" /\ adm'.work = adm.work /\ adm'.left = adm.left
        /\ adm'.token = adm.token
    BY <1>1, <1>2 DEF UnpricedTarget, PassRec
  <2>2. adm.pc = "reserve" /\ ~(Price[Head(adm.left)] > 0) /\ proc' = proc
    BY <1>2, SMTT(20) DEF UnpricedTarget
  <2>3. PassKnows'
    BY <1>1, <2>1, <2>2 DEF IInv, PassKnows, Trying, Reserved
  <2> QED BY <1>1, <2>1, <2>2, <2>3, PassMoves DEF IInv, TypeOK, ProcsQuiet
<1>3. CASE PlaceOnTarget /\ adm' = [adm EXCEPT !.pc = "run"] /\ UNCHANGED proc
  <2>1. /\ adm' \in PassRec /\ adm'.pc = "run" /\ adm'.work = adm.work /\ adm'.left = adm.left
        /\ adm'.token = adm.token
    BY <1>1, <1>3 DEF PassRec
  <2>2. adm.pc = "place"
    BY <1>3, SMTT(20) DEF PlaceOnTarget
  <2>3. PassKnows'
    BY <1>1, <2>1, <2>2, SMTT(20) DEF IInv, PassKnows, Trying, Reserved
  <2> QED BY <1>1, <1>3, <2>1, <2>3, PassMoves DEF IInv, TypeOK, ProcsQuiet
<1>4. CASE GiveUp(adm.token)
  BY <1>1, <1>4, GiveUpKeeps, SMTT(20) DEF IInv, TypeOK
<1> QED BY <1>2, <1>3, <1>4 DEF PlaceOnTarget

LEMMA EndPassKeeps ==
  ASSUME IInv, EndPass
  PROVE  IInv'
<1>1. UNCHANGED <<row, claim, todo, proc>> /\ todo = {} /\ adm' = NoPass /\ stale' = {}
  BY DEF EndPass
<1>2. seen' = [w \in Workloads |-> [token |-> 0, cleanup |-> 0]]
  BY DEF EndPass
<1>3. seen' \in [Workloads -> SeenRec] /\ \A w \in Workloads : seen'[w].cleanup = 0
  BY <1>2 DEF SeenRec
<1>4. \A w \in Workloads : Reserved(w, seen[w].cleanup)' => row'[w].cleanup = seen'[w].cleanup
  BY <1>1, <1>3 DEF IInv, RowsHoldClaims, Reserved
<1>5. adm' \in PassRec /\ adm'.pc = "idle"
  BY <1>1, RestsBetween, SMTT(20)
<1>6. PassKnows'
  BY <1>1, <1>4, <1>5, SMTT(20) DEF PassKnows, Trying
<1> QED BY <1>1, <1>3, <1>5, <1>6, PassMoves DEF IInv, TypeOK, ProcsQuiet

LEMMA PreemptKeeps ==
  ASSUME IInv, NEW v \in Workloads, PreemptVictim(v)
  PROVE  IInv'
<1> DEFINE w == adm.work
<1>1. /\ UNCHANGED <<claim, todo, seen>> /\ adm \in PassRec /\ adm.token \in Nat
      /\ adm.pc = "place" /\ row[v].status = "running" /\ row[v] \in Row /\ "pass" \in Procs /\ v \in Procs
      /\ stale' = stale \cup {v, w}
  BY SMTT(20) DEF PreemptVictim, IInv, TypeOK, PassRec, Procs
<1>2. w \in Workloads
  BY <1>1 DEF IInv, PassKnows, Trying
<1>3. Estimate(v) \in Nat /\ "cancelled" \in Ended /\ "running" \notin Ended
  BY Costs DEF IInv, Ended
<1> DEFINE r == IF v \in Recoverable THEN Queued(row[v]) ELSE EndedAt(row[v], "cancelled", Estimate(v))
           a == IF adm.token # 0 THEN At("record", w, adm.token) ELSE Idle
           b == IF v \in Recoverable THEN Idle ELSE At("arm", v, 0)
<1>4. r \in Row
  BY <1>1, <1>3, RowValues, Zenon
<1>5. /\ r.token = row[v].token /\ r.cleanup = row[v].cleanup /\ r.status # "running"
      /\ v \notin Recoverable => r.status \in Ended
      /\ v \in Recoverable => r.settling = row[v].settling
  BY <1>1, <1>3 DEF Queued, EndedAt, Row
<1>6. row' = [row EXCEPT ![v] = r]
  BY <1>1 DEF PreemptVictim
<1>7. a \in ProcRec /\ b \in ProcRec
  BY <1>1, <1>2, ProcValues DEF ProcPcs
<1>8. proc' = [[proc EXCEPT !["pass"] = a] EXCEPT ![v] = b]
  BY DEF PreemptVictim
<1>9. adm' = [adm EXCEPT !.pc = "undo", !.token = 0] /\ "undo" \in PassPcs
  BY SMTT(20) DEF PreemptVictim, PassPcs
<1> HIDE DEF r
<1>10. KeepsClaim(row[v], r)
  BY <1>1, <1>3, <1>5 DEF KeepsClaim
<1>11. RowsQuiet /\ row' \in [Workloads -> Row] /\ row'[v] = r
  BY <1>4, <1>6, <1>10, OneRowWritten, ZenonT(40) DEF IInv
<1>12. HasCause(a, row', claim')
  BY <1>2 DEF HasCause, At, Idle
<1>13. HasCause(b, row', claim')
  BY <1>5, <1>11, ZenonT(40) DEF HasCause, At, Idle
<1> HIDE DEF a, b
<1>14. ProcsQuiet /\ proc' \in [Procs -> ProcRec]
  BY <1>1, <1>7, <1>8, <1>12, <1>13, SMTT(20) DEF ProcsQuiet, IInv, TypeOK
<1>15. adm' \in PassRec /\ adm'.pc = "undo" /\ adm'.work = w /\ adm'.left = adm.left
  BY <1>1, <1>9, ZenonT(40) DEF PassRec
<1>16. TypeOK'
  BY <1>1, <1>2, <1>11, <1>14, <1>15, SMTT(20) DEF IInv, TypeOK
<1>17. PassKnows'
  <2>1. \A x \in todo' \ stale' : seen'[x].token = row'[x].token /\ seen'[x].cleanup = row'[x].cleanup
    BY <1>1, <1>11, ZenonT(40) DEF IInv, TypeOK, PassKnows, RowsQuiet
  <2>2. \A x \in Workloads : Reserved(x, seen[x].cleanup)' => row'[x].cleanup = seen'[x].cleanup
    BY <1>1, <1>11, ZenonT(40) DEF IInv, PassKnows, RowsQuiet, Reserved
  <2>3. w \in stale' /\ adm.left # <<>>
    BY <1>1, ZenonT(40) DEF IInv, PassKnows
  <2> QED BY <1>1, <1>2, <1>15, <2>1, <2>2, <2>3, SMTT(20) DEF PassKnows, Trying
<1> QED BY <1>1, <1>11, <1>14, <1>16, <1>17, RowsQuietKeeps, ProcsQuietKeep, SMTT(20) DEF IInv

LEMMA RunningValue ==
  ASSUME NEW r \in Row, NEW n \in Nat, NEW t \in Targets, NEW k \in Nat
  PROVE  [r EXCEPT !.status = "running", !.runs = n, !.target = t, !.token = k] \in Row
  BY ZenonT(40) DEF Row

LEMMA PublishRunningKeeps ==
  ASSUME IInv, PublishRunning
  PROVE  IInv'
<1> DEFINE w == adm.work
<1>1. /\ UNCHANGED <<claim, todo, seen>> /\ adm.pc = "run" /\ adm.token \in Nat /\ w \in Workloads
      /\ row[w] \in Row /\ adm.left # <<>> /\ stale \in SUBSET Workloads
  BY DEF PublishRunning, IInv, TypeOK, PassKnows, PassRec, Trying
<1>2. CASE GiveUp(adm.token) /\ stale' = stale \cup {w} /\ UNCHANGED row
  BY <1>1, <1>2, GiveUpKeeps, SMTT(20)
<1>3. CASE /\ Fresh(w) /\ UNCHANGED <<proc, stale>> /\ adm' = [NoPass EXCEPT !.pc = "next"]
           /\ row' = [row EXCEPT ![w] = [row[w] EXCEPT
                         !.status = "running", !.runs = row[w].runs + 1, !.target = Head(adm.left),
                         !.token = IF adm.token # 0 THEN adm.token ELSE row[w].token]]
  <2> DEFINE r == [row[w] EXCEPT !.status = "running", !.runs = row[w].runs + 1,
                                 !.target = Head(adm.left),
                                 !.token = IF adm.token # 0 THEN adm.token ELSE row[w].token]
  <2>1. /\ w \notin stale /\ row[w].token = adm.token /\ row[w].cleanup = 0
        /\ Price[Head(adm.left)] > 0 => row[w].token # 0
    BY <1>1, <1>3 DEF IInv, PassKnows, Fresh, Trying
  <2>2. row[w].status \notin Ended /\ ~row[w].settling /\ claim[w].status # "settled"
    BY <1>1, <1>3, SMTT(20) DEF Fresh, Admissible, Ended, IInv, RowsHoldClaims
  <2>3. Head(adm.left) \in Targets
    BY <1>1, ListedTargets, SMTT(20) DEF IInv
  <2>4. r \in Row
    <3>1. /\ row[w].runs + 1 \in Nat
          /\ (IF adm.token # 0 THEN adm.token ELSE row[w].token) \in Nat
      BY <1>1 DEF Row
    <3> QED BY <1>1, <2>3, <3>1, RunningValue, ZenonT(40)
  <2>5. /\ r.status = "running" /\ r.target = Head(adm.left) /\ r.cleanup = 0
        /\ r.token = row[w].token /\ r.settling = row[w].settling
    BY <1>1, <2>1 DEF Row
  <2> HIDE DEF r
  <2>6. row' \in [Workloads -> Row] /\ row'[w] = r /\ \A v \in Workloads : v # w => row'[v] = row[v]
    BY <1>1, <1>3, <2>4, ZenonT(40) DEF IInv, TypeOK, r
  <2>7. adm' \in PassRec /\ adm'.pc = "next"
    BY <1>3, RestsBetween
  <2>8. TypeOK'
    BY <1>1, <1>3, <2>6, <2>7, SMTT(20) DEF IInv, TypeOK
  <2>9. RowsHoldClaims'
    BY <1>1, <2>1, <2>2, <2>5, <2>6, SMTT(20) DEF IInv, RowsHoldClaims
  <2>10. ASSUME NEW o \in Procs PROVE HasCause(proc'[o], row', claim')
    <3>1. HasCause(proc[o], row, claim) /\ proc'[o] = proc[o]
      BY <1>3, SMTT(20) DEF IInv, ProcsHaveCause
    <3> QED BY <1>1, <2>1, <2>2, <2>5, <2>6, <3>1, ZenonT(40) DEF HasCause
  <2>11. PassKnows'
    <3>1. \A v \in todo' \ stale' : seen'[v].token = row'[v].token /\ seen'[v].cleanup = row'[v].cleanup
      BY <1>1, <1>3, <2>1, <2>5, <2>6, SMTT(20) DEF IInv, TypeOK, PassKnows
    <3>2. \A v \in Workloads : Reserved(v, seen[v].cleanup)' => row'[v].cleanup = seen'[v].cleanup
      BY <1>1, <2>1, <2>5, <2>6, SMTT(20) DEF IInv, PassKnows, Reserved
    <3> QED BY <2>7, <3>1, <3>2, SMTT(20) DEF PassKnows, Trying
  <2> QED BY <2>8, <2>9, <2>10, <2>11, SMTT(20) DEF IInv, ProcsHaveCause
<1>4. CASE Fresh(w)
  <2>1. row' = [row EXCEPT ![w] = [row[w] EXCEPT
                   !.status = "running", !.runs = row[w].runs + 1, !.target = Head(adm.left),
                   !.token = IF adm.token # 0 THEN adm.token ELSE row[w].token]]
    BY <1>1, <1>4, Zenon DEF PublishRunning, IInv, TypeOK
  <2> QED BY <1>3, <1>4, <2>1, SMTT(20) DEF PublishRunning
<1> QED BY <1>2, <1>4 DEF PublishRunning

-----------------------------------------------------------------------------
\* The initial state, and the steps that leave all of this alone.

LEMMA InitIInv ==
  ASSUME Init
  PROVE  IInv
<1>1. ASSUME NEW w \in Workloads
      PROVE  /\ row[w] \in Row /\ row[w].token = 0 /\ row[w].cleanup = 0 /\ ~row[w].settling
             /\ row[w].status # "running"
  <2> DEFINE st == IF w \in trouble.work THEN "queued" ELSE "absent"
  <2>1. st \in Waiting \cup Ended \cup {"absent", "running"} /\ st # "running"
    BY SMTT(20) DEF Waiting
  <2> HIDE DEF st
  <2>2. row[w] = [status |-> st, owner |-> FALSE, token |-> 0, cleanup |-> 0, settling |-> FALSE,
                  cost |-> 0, handle |-> FALSE, target |-> "none", runs |-> 0]
    BY SMTT(20) DEF Init, st
  <2> QED BY <2>1, <2>2 DEF Row
<1>2. ASSUME NEW w \in Workloads
      PROVE  claim[w] \in Claim /\ claim[w].status = "none"
  BY DEF Init, Claim
<1>3. /\ DOMAIN row = Workloads /\ row = [w \in Workloads |-> row[w]]
      /\ DOMAIN claim = Workloads /\ claim = [w \in Workloads |-> claim[w]]
  BY Zenon DEF Init
<1>4. row \in [Workloads -> Row] /\ claim \in [Workloads -> Claim]
  BY <1>1, <1>2, <1>3, SMTT(20)
<1>5. seen \in [Workloads -> SeenRec]
  BY DEF Init, SeenRec
<1>6. proc \in [Procs -> ProcRec] /\ \A p \in Procs : proc[p].pc = "idle"
  BY ProcValues DEF Init, Idle
<1>7. adm \in PassRec /\ adm.pc = "idle" /\ todo = {} /\ stale = {}
  BY RestsBetween DEF Init
<1>8. TypeOK
  BY <1>4, <1>5, <1>6, <1>7, SMTT(20) DEF TypeOK
<1>9. RowsHoldClaims
  BY <1>1, <1>2, SMTT(20) DEF RowsHoldClaims
<1>10. ProcsHaveCause
  BY <1>6 DEF ProcsHaveCause, HasCause
<1>11. PassKnows
  BY <1>2, <1>7, ZenonT(40) DEF PassKnows, Trying, Reserved
<1> QED BY <1>8, <1>9, <1>10, <1>11, SMTT(20) DEF IInv

\* The steps that touch nothing the invariant speaks of.
LEMMA AsideKeeps ==
  ASSUME IInv, UNCHANGED <<row, claim, adm, todo, seen, stale, proc>>
  PROVE  IInv'
  BY ZenonT(40) DEF IInv, TypeOK, RowsHoldClaims, ProcsHaveCause, PassKnows, Reserved

-----------------------------------------------------------------------------
\* The steps that write a claim, and what they leave of it.

LEMMA ClaimSteps ==
  ASSUME [Next]_vars
  PROVE  \/ claim' = claim
         \/ \E p \in Procs : ReleaseBudgetClaim(p) \/ SettleBudgetClaim(p)
         \/ ReserveAndLinkBudgetClaim
<1>1. ASSUME NEW p \in Procs, BudgetStep(p)
      PROVE  claim' = claim \/ ReleaseBudgetClaim(p) \/ SettleBudgetClaim(p)
  BY <1>1, ZenonT(40) DEF BudgetStep, RecordCleanup, UnlinkClaim, RecordSettlement, ClearSettlement
<1>2. ASSUME Pass PROVE claim' = claim \/ ReserveAndLinkBudgetClaim
  BY <1>2, ZenonT(40) DEF Pass, StartPass, Cleaned, EnterAdmission, TryCandidate, Undone, UnpricedTarget,
     PlaceOnTarget, PublishRunning, FinishAdmission, EndPass, NextWorkload, PreemptVictim
<1>3. ~Pass /\ ~(\E p \in Procs : BudgetStep(p)) => claim' = claim
  BY ZenonT(40) DEF Next, vars, env, Crash, Started, StoreFails, ChangeTarget, RetryBudgetIntents, PublishHandle,
     FinishExecution, RequeueExecution, NodeLost, ClaimCancellation, PublishCancelled,
     WithdrawCancellation, Reprioritize, RecoverRow, ReconcileRecovered, DeadlinePasses
<1> QED BY <1>1, <1>2, <1>3

\* No step writes a settled claim.
LEMMA SettledStays ==
  ASSUME IInv, [Next]_vars, NEW w \in Workloads, claim[w].status = "settled"
  PROVE  claim'[w] = claim[w]
<1>1. CASE claim' = claim
  BY <1>1
<1>2. claim \in [Workloads -> Claim] /\ claim[w] \in Claim
  BY DEF IInv, TypeOK
<1>3. ASSUME NEW p \in Procs, ReleaseBudgetClaim(p) PROVE claim'[w] = claim[w]
  <2>1. proc[p].work \in Workloads
    BY <1>3 DEF ReleaseBudgetClaim, IInv, ProcsHaveCause, HasCause
  <2> QED BY <1>2, <1>3, <2>1, SMTT(20) DEF ReleaseBudgetClaim
<1>4. ASSUME NEW p \in Procs, SettleBudgetClaim(p) PROVE claim'[w] = claim[w]
  <2>1. proc[p].work \in Workloads
    BY <1>4 DEF SettleBudgetClaim, IInv, ProcsHaveCause, HasCause
  <2>2. CASE proc[p].work = w
    <3>1. \/ claim' = claim
          \/ /\ claim[w].paid = row[w].cost
             /\ claim' = [claim EXCEPT ![w].status = "settled", ![w].paid = row[w].cost]
      BY <1>4, <2>2 DEF SettleBudgetClaim
    <3>2. [claim[w] EXCEPT !.status = claim[w].status, !.paid = claim[w].paid] = claim[w]
      BY <1>2, Zenon DEF Claim
    <3> QED BY <1>2, <3>1, <3>2, Zenon
  <2>3. CASE proc[p].work # w
    BY <1>2, <1>4, <2>1, <2>3 DEF SettleBudgetClaim
  <2> QED BY <2>2, <2>3, SMTT(20)
<1>5. CASE ReserveAndLinkBudgetClaim
  <2>1. adm.work \in Workloads
    BY <1>5, SMTT(20) DEF ReserveAndLinkBudgetClaim, IInv, PassKnows, Trying
  <2>2. \/ claim' = claim
        \/ /\ claim[adm.work].status \notin {"reserved", "settled"}
           /\ \E c : claim' = [claim EXCEPT ![adm.work] = c]
    BY <1>5, ZenonT(40) DEF ReserveAndLinkBudgetClaim
  <2> QED BY <1>2, <2>1, <2>2, SMTT(20)
<1> QED BY <1>1, <1>3, <1>4, <1>5, ClaimSteps, SMTT(20)

\* What a claim takes of the budget: as Committed counts it, and without the part of
\* a reported cost above the reservation.
Counted(c) == CASE c.status = "reserved" -> c.cents [] c.status = "settled" -> c.paid [] OTHER -> 0
Backed(c) ==
  CASE c.status = "reserved" -> c.cents [] c.status = "settled" -> Min({c.paid, c.cents}) [] OTHER -> 0

BackedBy(cs) == [w \in Workloads |-> Backed(cs[w])]

LEMMA MinOfTwo ==
  ASSUME NEW a \in Nat, NEW b \in Nat
  PROVE  Min({a, b}) \in Nat /\ Min({a, b}) =< a /\ Min({a, b}) =< b
<1>1. \E x \in {a, b} : \A y \in {a, b} : x =< y
  BY SMT
<1>2. Min({a, b}) \in {a, b} /\ \A y \in {a, b} : Min({a, b}) =< y
  BY <1>1 DEF Min
<1> QED BY <1>2

LEMMA BackedValues ==
  ASSUME NEW c \in Claim
  PROVE  Backed(c) \in Nat /\ Counted(c) \in Nat /\ Backed(c) =< Counted(c)
<1>1. c.cents \in Nat /\ c.paid \in Nat
  BY DEF Claim
<1>2. Min({c.paid, c.cents}) \in Nat /\ Min({c.paid, c.cents}) =< c.paid
  BY <1>1, MinOfTwo, SMTT(20)
<1> QED BY <1>1, <1>2 DEF Backed, Counted

\* A release gives its claim's cents back.
LEMMA ReleaseFrees ==
  ASSUME IInv, claim \in [Workloads -> Claim], claim' \in [Workloads -> Claim],
         NEW p \in Procs, ReleaseBudgetClaim(p)
  PROVE  \A w \in Workloads : Backed(claim'[w]) =< Backed(claim[w])
<1> SUFFICES ASSUME NEW w \in Workloads PROVE Backed(claim'[w]) =< Backed(claim[w])
  BY SMTT(20)
<1>1. proc[p].work \in Workloads
  BY SMTT(20) DEF ReleaseBudgetClaim, IInv, ProcsHaveCause, HasCause
<1>2. Backed(claim[w]) \in Nat
  BY BackedValues
<1>3. claim'[w] = claim[w] \/ claim'[w].status = "released"
  BY <1>1 DEF ReleaseBudgetClaim, Claim
<1>4. claim'[w].status = "released" => Backed(claim'[w]) = 0
  BY SMTT(20) DEF Backed
<1> QED BY <1>2, <1>3, <1>4, SMTT(20)

\* A settlement takes no more of the budget than the reservation it replaces.
LEMMA SettleFrees ==
  ASSUME IInv, claim \in [Workloads -> Claim], claim' \in [Workloads -> Claim],
         NEW p \in Procs, SettleBudgetClaim(p)
  PROVE  \A w \in Workloads : Backed(claim'[w]) =< Backed(claim[w])
<1> SUFFICES ASSUME NEW w \in Workloads PROVE Backed(claim'[w]) =< Backed(claim[w])
  OBVIOUS
<1>1. proc[p].work \in Workloads
  BY DEF SettleBudgetClaim, IInv, ProcsHaveCause, HasCause
<1>2. Backed(claim[w]) \in Nat /\ claim[w] \in Claim /\ claim'[w] \in Claim
  BY BackedValues, SMTT(20)
<1>3. \/ claim'[w] = claim[w]
      \/ /\ claim'[w].status = "settled" /\ claim'[w].cents = claim[w].cents
         /\ \/ claim[w].status = "reserved"
            \/ claim[w].status = "settled" /\ claim'[w].paid = claim[w].paid
  BY <1>1 DEF SettleBudgetClaim, Claim
<1>4. claim'[w].status = "settled" /\ claim[w].status = "reserved" /\ claim'[w].cents = claim[w].cents
        => Backed(claim'[w]) =< Backed(claim[w])
  <2>1. claim'[w].paid \in Nat /\ claim'[w].cents \in Nat
    BY <1>2 DEF Claim
  <2>2. Min({claim'[w].paid, claim'[w].cents}) =< claim'[w].cents
    BY <2>1, MinOfTwo
  <2> QED BY <2>2 DEF Backed
<1>5. claim'[w].status = "settled" /\ claim[w].status = "settled"
      /\ claim'[w].cents = claim[w].cents /\ claim'[w].paid = claim[w].paid
        => Backed(claim'[w]) = Backed(claim[w])
  BY DEF Backed
<1> QED BY <1>2, <1>3, <1>4, <1>5, SMTT(20)

=============================================================================
