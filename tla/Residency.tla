------------------------------- MODULE Residency -------------------------------
(***************************************************************************)
(* Moving one model of one target between VRAM, host RAM and disk           *)
(* (internal/workloads/residency.go, warmram.go, the generation part of     *)
(* manager.go, and the residency tables of internal/store/memory.go).       *)
(*                                                                          *)
(* A request with an idempotency key becomes a durable manager row, the     *)
(* controller's node adapter adds a durable row of its own, and a fenced    *)
(* command goes to the node. The node's answer is first recorded on the     *)
(* adapter's row, then projected on the model's residency row, and last on  *)
(* the manager's row. Between any two of these the controller may restart,  *)
(* and all the time the node advertises what it holds, which writes the     *)
(* same projection under the same generation fence.                         *)
(*                                                                          *)
(* One residency operation runs at a time (beginResidencyOperation):        *)
(* admission, the idle sweep, the operator's commands, drain and recovery   *)
(* all hold the marker. Registration of an advertisement does not.          *)
(***************************************************************************)
EXTENDS Integers, FiniteSets, FiniteSetsExt

CONSTANTS
  Keys,     \* the idempotency keys of the requests
  ToTier,   \* [Keys -> Tiers], the tier each request asks for
  Limits    \* how much trouble a behaviour may meet, a set of Limit records

Tiers == {"hot", "warm", "cold"}

\* A bound on each kind of trouble, of which Init picks one scenario: the
\* requests that are made, controller restarts, lost answers, answers naming an unexpected tier,
\* models that leave VRAM by themselves, lost leases, offline nodes, changed
\* routes and replayed requests.
Limit == [keys: SUBSET Keys, crash: Nat, lost: Nat, wrong: Nat, death: Nat, lease: Nat,
          offline: Nat, route: Nat, replay: Nat]

ASSUME KeyTiers == ToTier \in [Keys -> Tiers]

ASSUME LimitsBounded == Limits \subseteq Limit

VARIABLES
  row,       \* durable transition rows: manager's, adapter's and rollback's
  proj,      \* the durable ModelResidency row of the model
  target,    \* the controller's registered target: generation and facts
  fenceMem,  \* ControllerResidencyAdapter.fences of this model
  oper,      \* the residency operation that holds the marker
  observer,  \* the observation a registration is persisting
  advert,    \* an advertisement on its way from the node
  cmd,       \* the signed node commands, by the row they belong to
  node,      \* the node: the tier the model is in, its fence, its route
  latest,    \* the row that finished last and whether its grace still runs
  budget     \* what is left of the trouble of this behaviour

residencyVars == <<row, proj, target, fenceMem, oper, observer, advert, cmd, node, latest,
                   budget>>

Kinds == {"mgr", "adp", "rbk"}
Ids == Kinds \X Keys
NoId == <<"none", "none">>

Facts(t) == <<t.route, t.resident>>

NoTransition == [status |-> "none", from |-> "cold", to |-> "cold", fence |-> 0,
                 observed |-> "none", repair |-> FALSE, gen |-> 0, facts |-> <<0, FALSE>>]
NoProj == [tier |-> "none", desired |-> "none", gen |-> 0, facts |-> <<0, FALSE>>]
Unregistered == [gen |-> 0, route |-> 0, resident |-> FALSE]
NoCmd == [state |-> "none", to |-> "cold", fence |-> 0, tier |-> "none"]
Idle == [pc |-> "idle", recover |-> FALSE, id |-> NoId, stale |-> FALSE,
         snap |-> Unregistered, out |-> "none"]
Watching == [pc |-> "idle", snap |-> Unregistered, stale |-> FALSE]

ResidencyInit ==
  /\ row = [i \in Ids |-> NoTransition]
  /\ proj = NoProj
  /\ target = Unregistered
  /\ fenceMem = 0
  /\ oper = Idle
  /\ observer = Watching
  /\ advert = {}
  /\ cmd = [i \in Ids |-> NoCmd]
  /\ node = [tier |-> "cold", fence |-> 0, route |-> 0]
  /\ latest = [id |-> NoId, fresh |-> FALSE]
  /\ budget \in Limits

Spend(what) ==
  /\ budget[what] > 0
  /\ budget' = [budget EXCEPT ![what] = @ - 1]

-----------------------------------------------------------------------------
(***************************************************************************)
(* The store.                                                               *)
(***************************************************************************)
\* MaxResidencyFencingToken.
Highwater == Max({row[i].fence : i \in Ids})

\* Mutant: an equal generation may bring other facts.
AnyFactsCompatible(gen, facts) == gen >= proj.gen

\* residencyGenerationCompatible: an older generation never writes, an equal
\* one must carry the same execution fingerprint.
GenerationCompatible(gen, facts) ==
  \/ gen > proj.gen
  \/ gen = proj.gen /\ facts = proj.facts

\* A write of the projection moves its revision: the snapshots that the
\* operation and the observation took of it are stale from then on.
WriteProjection(p) ==
  /\ proj' = p
  /\ observer' = [observer EXCEPT !.stale = TRUE]

Projected(tier, desired, t) ==
  [tier |-> tier, desired |-> desired, gen |-> t.gen, facts |-> Facts(t)]

\* A transition that was planned and not yet started counts as running: every
\* reader of the rows treats the two alike.
AllocateResidencyTransition(i, from, to, t) ==
  row' = [row EXCEPT ![i] = [NoTransition EXCEPT !.status = "running", !.from = from,
            !.to = to, !.fence = Highwater + 1, !.gen = t.gen, !.facts = Facts(t)]]

Running(i) == row[i].status = "running"
RepairPending(i) == row[i].status = "succeeded" /\ row[i].repair

Finished(i) == latest' = [id |-> i, fresh |-> TRUE]

\* hasFencedHotTransition: the transition that finished last loaded the model
\* and is no older than fencedHotGrace.
FencedHot ==
  /\ latest.id # NoId /\ latest.fresh
  /\ LET r == row[latest.id]
     IN r.status = "succeeded" /\ r.to = "hot" /\ r.observed = "hot"

-----------------------------------------------------------------------------
(***************************************************************************)
(* transitionModel: the manager's side of a request.                        *)
(***************************************************************************)
\* reconcileResidencyGeneration: move above the durable row before writing.
Reconciled(t) ==
  IF \/ proj.gen > t.gen
     \/ proj.gen = t.gen /\ proj.facts # Facts(t)
  THEN [t EXCEPT !.gen = proj.gen + 1]
  ELSE t

\* Whether a caller would ask for the request: a demand load needs a model
\* that the target does not list, an eviction one that it lists, and the
\* operator a tier other than the projected one.
Wanted(k) ==
  CASE ToTier[k] = "hot"  -> ~target.resident
    [] ToTier[k] = "cold" -> target.resident \/ proj.tier # "cold"
    [] ToTier[k] = "warm" -> proj.tier # "warm"

\* A request whose key has no row yet: allocate the manager's row.
Begin(k) ==
  /\ k \in budget.keys
  /\ oper.pc = "idle" /\ target.gen > 0 /\ proj.tier # "none"
  /\ row[<<"mgr", k>>].status = "none"
  /\ Wanted(k)
  /\ target' = Reconciled(target)
  /\ AllocateResidencyTransition(<<"mgr", k>>, proj.tier, ToTier[k], target')
  /\ oper' = [Idle EXCEPT !.pc = "dispatch", !.id = <<"mgr", k>>, !.snap = target']
  /\ UNCHANGED <<proj, fenceMem, observer, advert, cmd, node, latest, budget>>

\* A request whose key has succeeded before: the recorded tier is projected
\* again and nothing is sent. (A key whose row is running or failed is
\* refused.)
Replay(k) ==
  LET r == row[<<"mgr", k>>]
      t == Reconciled(target)
  IN
  /\ oper.pc = "idle" /\ target.gen > 0
  /\ r.status = "succeeded"
  /\ Wanted(k)
  /\ Spend("replay")
  /\ target' = t
  /\ WriteProjection(Projected(r.observed, r.to, t))
  /\ UNCHANGED <<row, fenceMem, oper, advert, cmd, node, latest>>

\* The route as it was when the operation started, facts that the operation
\* itself changes left aside (lifecycleRouteFingerprint).
RouteStable == target.gen > 0 /\ target.route = oper.snap.route

\* The target moved between the allocation and the dispatch.
DispatchOnChangedTarget ==
  /\ oper.pc = "dispatch" /\ ~oper.recover
  /\ target # oper.snap
  /\ row' = [row EXCEPT ![oper.id].status = "failed"]
  /\ oper' = Idle
  /\ UNCHANGED <<proj, target, fenceMem, observer, advert, cmd, node, latest,
                 budget>>

\* The owning node is offline: a request fails, a recovery waits.
DispatchOffline ==
  /\ oper.pc = "dispatch"
  /\ Spend("offline")
  /\ oper' = IF oper.recover THEN Idle
           ELSE [oper EXCEPT !.pc = "finish", !.out = "failed"]
  /\ UNCHANGED <<row, proj, target, fenceMem, observer, advert, cmd, node, latest>>

Conclude(out) == oper' = [oper EXCEPT !.pc = "finish", !.out = out]

\* The other keys' adapter rows that are not settled.
PendingElsewhere(k) == \E j \in Keys \ {k} : Running(<<"adp", j>>)

\* The command of a row, sent under fence f. The key is the command's
\* identity: sending it again changes nothing, and the node command table
\* refuses it under another fence.
SendCommand(c, to, f) ==
  IF cmd[c].state = "none"
  THEN /\ cmd' = [cmd EXCEPT ![c] = [NoCmd EXCEPT !.state = "sent", !.to = to, !.fence = f]]
       /\ oper' = [oper EXCEPT !.pc = "wait"]
  ELSE /\ UNCHANGED cmd
       /\ oper' = [oper EXCEPT !.pc = "wait",
                          !.out = IF cmd[c].fence = f THEN "none" ELSE "conflict"]

\* prepareDurableTransition and the dispatch that follows it.
Dispatch ==
  LET k == oper.id[2]
      a == <<"adp", k>>
      status == row[a].status
      allocated == Highwater + 1
      fresh == IF allocated > fenceMem THEN allocated ELSE fenceMem + 1
      again == Max({fenceMem, row[a].fence})
  IN
  /\ oper.pc = "dispatch"
  /\ oper.recover \/ target = oper.snap
  /\ \/ /\ status = "none" /\ PendingElsewhere(k)
        /\ Conclude("indeterminate")
        /\ UNCHANGED <<row, fenceMem, cmd>>
     \/ /\ status = "none" /\ ~PendingElsewhere(k)
        /\ AllocateResidencyTransition(a, row[oper.id].from, row[oper.id].to, Unregistered)
        /\ fenceMem' = fresh
        /\ SendCommand(a, row[oper.id].to, fresh)
     \/ /\ status = "running"
        /\ fenceMem' = again
        /\ SendCommand(a, row[oper.id].to, again)
        /\ UNCHANGED row
     \/ /\ status \in {"succeeded", "failed"}
        /\ Conclude(IF status = "succeeded" THEN "ok" ELSE "failed")
        /\ UNCHANGED <<row, fenceMem, cmd>>
  /\ UNCHANGED <<proj, target, observer, advert, node, latest, budget>>

-----------------------------------------------------------------------------
(***************************************************************************)
(* The node, as the controller uses it: it runs a command once per key,     *)
(* refuses a fence older than one it has seen, and advertises what it holds.*)
(***************************************************************************)
NodeExecutes(c) ==
  /\ cmd[c].state = "sent"
  /\ IF cmd[c].fence < node.fence
     THEN /\ cmd' = [cmd EXCEPT ![c].state = "failed"]
          /\ UNCHANGED node
     ELSE /\ cmd' = [cmd EXCEPT ![c].state = "done", ![c].tier = cmd[c].to]
          /\ node' = [node EXCEPT !.tier = cmd[c].to, !.fence = cmd[c].fence]
  /\ UNCHANGED <<row, proj, target, fenceMem, oper, observer, advert, latest, budget>>

\* The runtime reports an error and the model stays where it is.
NodeFails(c) ==
  /\ cmd[c].state = "sent" /\ cmd[c].fence >= node.fence
  /\ Spend("wrong")
  /\ cmd' = [cmd EXCEPT ![c].state = "failed"]
  /\ node' = [node EXCEPT !.fence = cmd[c].fence]
  /\ UNCHANGED <<row, proj, target, fenceMem, oper, observer, advert, latest>>

\* The runtime answers with a tier other than the one asked for.
NodeEndsElsewhere(c) ==
  /\ cmd[c].state = "sent" /\ cmd[c].fence >= node.fence
  /\ Spend("wrong")
  /\ \E t \in Tiers \ {cmd[c].to} :
       /\ cmd' = [cmd EXCEPT ![c].state = "done", ![c].tier = t]
       /\ node' = [node EXCEPT !.tier = t, !.fence = cmd[c].fence]
  /\ UNCHANGED <<row, proj, target, fenceMem, oper, observer, advert, latest>>

\* The model's process dies on the node.
ModelDies ==
  /\ node.tier # "cold"
  /\ Spend("death")
  /\ node' = [node EXCEPT !.tier = "cold"]
  /\ UNCHANGED <<row, proj, target, fenceMem, oper, observer, advert, cmd, latest>>

\* The node's endpoint or runtime is reconfigured.
RouteChanges ==
  /\ Spend("route")
  /\ node' = [node EXCEPT !.route = @ + 1]
  /\ UNCHANGED <<row, proj, target, fenceMem, oper, observer, advert, cmd, latest>>

Advertise ==
  /\ advert = {}
  /\ advert' = {[route |-> node.route, resident |-> node.tier = "hot"]}
  /\ UNCHANGED <<row, proj, target, fenceMem, oper, observer, cmd, node, latest, budget>>

-----------------------------------------------------------------------------
(***************************************************************************)
(* ControllerResidencyAdapter: what the answer of a command settles.        *)
(***************************************************************************)
Waited == <<"adp", oper.id[2]>>
Undone == <<"rbk", oper.id[2]>>

\* persistTransitionObservation: the node's proof becomes durable before the
\* projection knows of it.
PersistObservation(i, tier) ==
  /\ row' = [row EXCEPT ![i].status = "succeeded", ![i].observed = tier,
                        ![i].repair = TRUE]
  /\ Finished(i)

\* persistTransitionFailure of a settled command.
PersistFailure(i) ==
  /\ row' = [row EXCEPT ![i].status = "failed"]
  /\ Finished(i)

ResultProvesTier ==
  /\ oper.pc = "wait" /\ oper.out = "none"
  /\ cmd[Waited].state = "done" /\ cmd[Waited].tier = cmd[Waited].to
  /\ PersistObservation(Waited, cmd[Waited].to)
  /\ Conclude("ok")
  /\ UNCHANGED <<proj, target, fenceMem, observer, advert, cmd, node, budget>>

ResultFailed ==
  /\ oper.pc = "wait"
  /\ oper.out = "conflict" \/ cmd[Waited].state = "failed"
  /\ PersistFailure(Waited)
  /\ Conclude("failed")
  /\ UNCHANGED <<proj, target, fenceMem, observer, advert, cmd, node, budget>>

\* Mutant: a lost answer is taken for the requested tier.
TrustLostAnswer ==
  /\ oper.pc = "wait" /\ oper.out = "none"
  /\ Spend("lost")
  /\ PersistObservation(Waited, cmd[Waited].to)
  /\ Conclude("ok")
  /\ UNCHANGED <<proj, target, fenceMem, observer, advert, cmd, node>>

\* The wait ends without a result. A read-only query of the node settles the
\* command when it proves the requested tier at the command's fence or a newer
\* one; otherwise the row stays running for recovery.
ResultUnresolved ==
  /\ oper.pc = "wait" /\ oper.out = "none"
  /\ Spend("lost")
  /\ \/ /\ node.tier = cmd[Waited].to /\ node.fence >= cmd[Waited].fence
        /\ PersistObservation(Waited, cmd[Waited].to)
        /\ Conclude("ok")
     \/ /\ Conclude("indeterminate")
        /\ UNCHANGED <<row, latest>>
  /\ UNCHANGED <<proj, target, fenceMem, observer, advert, cmd, node>>

ResultNamesOtherTier ==
  /\ oper.pc = "wait" /\ oper.out = "none"
  /\ cmd[Waited].state = "done" /\ cmd[Waited].tier # cmd[Waited].to
  /\ oper' = [oper EXCEPT !.pc = "rollback"]
  /\ UNCHANGED <<row, proj, target, fenceMem, observer, advert, cmd, node, latest,
                 budget>>

\* prepareRollbackTransition and the inverse command. An unfinished rollback of
\* the same request is taken up again, one whose proof still awaits projection
\* is not repeated, and any other gets a new row in place of the old one.
Rollback ==
  LET b == Undone
      a == row[Waited]
      resumed == Running(b)
      f == Max({fenceMem, IF resumed THEN row[b].fence ELSE Highwater + 1})
  IN
  /\ oper.pc = "rollback"
  /\ ~RepairPending(b)
  /\ IF resumed THEN UNCHANGED row
     ELSE AllocateResidencyTransition(b, a.to, a.from, Unregistered)
  /\ fenceMem' = f
  /\ IF resumed /\ cmd[b].state # "none"
     THEN /\ UNCHANGED cmd
          /\ oper' = [oper EXCEPT !.pc = "rbwait",
                             !.out = IF cmd[b].fence = f THEN "none" ELSE "conflict"]
     ELSE /\ cmd' = [cmd EXCEPT ![b] = [NoCmd EXCEPT !.state = "sent", !.to = a.from, !.fence = f]]
          /\ oper' = [oper EXCEPT !.pc = "rbwait"]
  /\ UNCHANGED <<proj, target, observer, advert, node, latest, budget>>

RollbackDoneBefore ==
  /\ oper.pc = "rollback"
  /\ RepairPending(Undone)
  /\ PersistFailure(Waited)
  /\ Conclude("failed")
  /\ UNCHANGED <<proj, target, fenceMem, observer, advert, cmd, node, budget>>

\* The inverse command restored the tier the model came from.
RollbackProven ==
  LET b == Undone IN
  /\ oper.pc = "rbwait" /\ oper.out = "none"
  /\ cmd[b].state = "done" /\ cmd[b].tier = cmd[b].to
  /\ IF oper.id = b
     THEN PersistObservation(b, cmd[b].to) /\ Conclude("ok")
     ELSE /\ row' = [row EXCEPT ![b].status = "succeeded", ![b].observed = cmd[b].to,
                                ![b].repair = TRUE,
                                ![Waited].status = "failed"]
          /\ Finished(Waited)
          /\ Conclude("failed")
  /\ UNCHANGED <<proj, target, fenceMem, observer, advert, cmd, node, budget>>

\* The inverse command did not: its row fails when the node proved another
\* tier and stays running when the command failed or its answer is lost.
RollbackNotProven ==
  LET b == Undone IN
  /\ oper.pc = "rbwait"
  /\ \/ /\ oper.out = "conflict" \/ cmd[b].state = "failed"
        /\ UNCHANGED <<row, latest, budget>>
     \/ /\ Spend("lost")
        /\ UNCHANGED <<row, latest>>
     \/ /\ oper.out = "none" /\ cmd[b].state = "done" /\ cmd[b].tier # cmd[b].to
        /\ PersistFailure(b)
        /\ UNCHANGED budget
  /\ IF oper.id = b THEN oper' = Idle ELSE Conclude("indeterminate")
  /\ UNCHANGED <<proj, target, fenceMem, observer, advert, cmd, node>>

-----------------------------------------------------------------------------
(***************************************************************************)
(* transitionModel after the command, and acceptSucceededResidencyTransition*)
(***************************************************************************)
\* The projection of an unsuccessful transition: the last error and the
\* target's facts, written only if nobody wrote since the operation read it.
TouchProjection ==
  IF ~oper.stale /\ GenerationCompatible(target.gen, Facts(target))
  THEN WriteProjection(Projected(proj.tier, proj.desired, target))
  ELSE UNCHANGED <<proj, observer>>

FinishChangedRoute ==
  /\ oper.pc = "finish" /\ ~oper.recover /\ ~RouteStable
  /\ oper' = Idle
  /\ UNCHANGED <<row, proj, target, fenceMem, observer, advert, cmd, node, latest,
                 budget>>

FinishFailed ==
  /\ oper.pc = "finish" /\ oper.out = "failed"
  /\ oper.recover \/ RouteStable
  /\ row' = [row EXCEPT ![oper.id].status = "failed"]
  /\ Finished(oper.id)
  /\ IF oper.recover THEN UNCHANGED <<proj, observer>> ELSE TouchProjection
  /\ oper' = Idle
  /\ UNCHANGED <<target, fenceMem, advert, cmd, node, budget>>

FinishIndeterminate ==
  /\ oper.pc = "finish" /\ oper.out = "indeterminate"
  /\ oper.recover \/ RouteStable
  /\ IF oper.recover THEN UNCHANGED <<proj, observer>> ELSE TouchProjection
  /\ oper' = Idle
  /\ UNCHANGED <<row, target, fenceMem, advert, cmd, node, latest, budget>>

\* The accelerator lease was lost while the command ran: the manager's row
\* fails although the adapter's has recorded the proof.
FinishLeaseLost ==
  /\ oper.pc = "finish" /\ oper.out = "ok" /\ ~oper.recover /\ RouteStable
  /\ Spend("lease")
  /\ row' = [row EXCEPT ![oper.id].status = "failed"]
  /\ Finished(oper.id)
  /\ TouchProjection
  /\ oper' = Idle
  /\ UNCHANGED <<target, fenceMem, advert, cmd, node>>

FinishProven ==
  /\ oper.pc = "finish" /\ oper.out = "ok"
  /\ oper.recover \/ RouteStable
  /\ oper' = [oper EXCEPT !.pc = "project", !.snap = IF oper.recover THEN @ ELSE target]
  /\ UNCHANGED <<row, proj, target, fenceMem, observer, advert, cmd, node, latest,
                 budget>>

\* The tier the accepted row proves.
Proof(i) == IF i[1] = "mgr" THEN row[<<"adp", i[2]>>].observed ELSE row[i].observed

\* What the acceptance checks of the target and of the row's own generation.
Acceptable(i) ==
  /\ RouteStable
  /\ \/ row[i].gen < target.gen
     \/ row[i].gen = target.gen /\ row[i].facts = Facts(target)

\* A proof kept for projection repair is not projected over a newer fence.
Superseded(i) == row[i].repair /\ Highwater > row[i].fence

\* setTargetResident: the in-memory target lists the model, or no longer does,
\* and every change of the list is a new generation.
SetTargetResident(resident) ==
  target' = IF target.gen # oper.snap.gen THEN target
            ELSE [target EXCEPT !.resident = resident,
                                !.gen = IF target.resident = resident THEN @ ELSE @ + 1]

AcceptRefused(i) ==
  IF oper.recover
  THEN /\ oper' = Idle
       /\ UNCHANGED <<row, target, latest>>
  ELSE /\ row' = [row EXCEPT ![i].status = "failed"]
       /\ Finished(i)
       /\ SetTargetResident(row[i].to = "hot")
       /\ oper' = Idle

\* The first half of the acceptance: the projection. A stale snapshot is read
\* again once; the same tier is taken as accepted, another is overwritten.
AcceptProject ==
  LET i == oper.id
      p == Projected(Proof(i), row[i].to, target)
      writable == GenerationCompatible(target.gen, Facts(target))
      adopted == oper.stale /\ proj.tier = Proof(i)
  IN
  /\ oper.pc = "project"
  /\ \/ /\ ~Acceptable(i) \/ (~Superseded(i) /\ ~adopted /\ ~writable)
        /\ AcceptRefused(i)
        /\ UNCHANGED <<proj, observer>>
     \/ /\ Acceptable(i)
        /\ Superseded(i) \/ adopted
        /\ oper' = [oper EXCEPT !.pc = "commit"]
        /\ UNCHANGED <<row, target, proj, observer, latest>>
     \/ /\ Acceptable(i) /\ ~Superseded(i) /\ ~adopted /\ writable
        /\ WriteProjection(p)
        /\ oper' = [oper EXCEPT !.pc = "commit"]
        /\ UNCHANGED <<row, target, latest>>
  /\ UNCHANGED <<fenceMem, advert, cmd, node, budget>>

\* The second half: the row itself, and for a request the target's list.
AcceptCommit ==
  LET i == oper.id IN
  /\ oper.pc = "commit"
  /\ IF ~RouteStable /\ ~Superseded(i)
     THEN AcceptRefused(i)
     ELSE /\ row' = [row EXCEPT ![i].status = "succeeded", ![i].repair = FALSE,
                                ![i].observed = Proof(i)]
          /\ IF i[1] = "mgr" THEN Finished(i) ELSE UNCHANGED latest
          /\ IF oper.recover THEN UNCHANGED target
             ELSE SetTargetResident(row[i].to = "hot")
          /\ oper' = Idle
  /\ UNCHANGED <<proj, fenceMem, observer, advert, cmd, node, budget>>

-----------------------------------------------------------------------------
(***************************************************************************)
(* Recovery: every pass takes up the rows that are running and the proofs   *)
(* that are not projected yet. An adapter's row is taken up through the     *)
(* manager's row that caused it: on its own it blocks itself.               *)
(***************************************************************************)
\* Mutant: only the proofs that await projection are taken up.
RecoverProofs(i) ==
  /\ oper.pc = "idle" /\ target.gen > 0 /\ RepairPending(i)
  /\ oper' = [Idle EXCEPT !.recover = TRUE, !.id = i, !.snap = target, !.pc = "project"]
  /\ UNCHANGED <<row, proj, target, fenceMem, observer, advert, cmd, node, latest,
                 budget>>

Recover(i) ==
  /\ oper.pc = "idle" /\ target.gen > 0
  /\ Running(i) \/ RepairPending(i)
  /\ ~(Running(i) /\ i[1] = "adp")
  /\ oper' = [Idle EXCEPT !.recover = TRUE, !.id = i, !.snap = target,
                        !.pc = CASE RepairPending(i) -> "project"
                                 [] Running(i) /\ i[1] = "mgr" -> "dispatch"
                                 [] Running(i) /\ i[1] = "rbk" -> "rollback"]
  /\ UNCHANGED <<row, proj, target, fenceMem, observer, advert, cmd, node, latest,
                 budget>>

-----------------------------------------------------------------------------
(***************************************************************************)
(* RegisterTarget and observeTargetResidencyLocked.                         *)
(***************************************************************************)
\* The generations the durable rows carry, for the given facts or for any.
DurableGenerations == {proj.gen} \cup {row[i].gen : i \in Ids}
DurableGenerationsOf(f) ==
  {0} \cup {g \in DurableGenerations : \/ proj.gen = g /\ proj.facts = f
                                       \/ \E i \in Ids : row[i].gen = g /\ row[i].facts = f}

\* The generation a target is seeded with when the controller does not know it:
\* one below the newest durable row of exactly these facts, or the newest of all.
SeedGeneration(f) ==
  LET exact == Max(DurableGenerationsOf(f))
  IN IF exact > 0 THEN exact - 1 ELSE Max(DurableGenerations)

\* An advertisement without the model does not take it off the list of a target
\* that a request is working on.
AdvertisedResident(a) ==
  IF target.gen > 0 /\ ~a.resident /\ oper.pc # "idle" /\ ~oper.recover
  THEN target.resident ELSE a.resident

RegisterTarget ==
  /\ observer.pc = "idle"
  /\ \E a \in advert :
       LET t == [gen |-> IF target.gen > 0 THEN target.gen
                         ELSE SeedGeneration(<<a.route, a.resident>>),
                 route |-> a.route, resident |-> AdvertisedResident(a)]
       IN target' = IF target.gen > 0 /\ Facts(t) = Facts(target) THEN target
                    ELSE [t EXCEPT !.gen = @ + 1]
  /\ observer' = [pc |-> "read", snap |-> target', stale |-> FALSE]
  /\ advert' = {}
  /\ UNCHANGED <<row, proj, fenceMem, oper, cmd, node, latest, budget>>

ObservedTier(t) == IF t.resident THEN "hot" ELSE "cold"
FactsCurrent == Facts(target) = Facts(observer.snap)

\* The first look at the row: create it, leave it to a fresh load, or go on to
\* update it.
ObserveRead ==
  LET t == [observer.snap EXCEPT !.gen = target.gen] IN
  /\ observer.pc = "read"
  /\ \/ /\ proj.tier = "none" /\ FactsCurrent
        /\ proj' = Projected(ObservedTier(t), ObservedTier(t), t)
        /\ observer' = Watching
     \/ /\ \/ proj.tier = "none" /\ ~FactsCurrent
           \/ ~t.resident /\ proj.tier = "hot" /\ FencedHot
        /\ observer' = Watching
        /\ UNCHANGED proj
     \/ /\ proj.tier # "none"
        /\ ~(~t.resident /\ proj.tier = "hot" /\ FencedHot)
        /\ observer' = [pc |-> "write", snap |-> t, stale |-> FALSE]
        /\ UNCHANGED proj
  /\ UNCHANGED <<row, target, fenceMem, oper, advert, cmd, node, latest, budget>>

\* The update, under the revision read before. A row that moved is adopted when
\* it names another tier or is newer, and tried again otherwise.
ObserveWrite ==
  LET t == observer.snap
      same == proj.tier = ObservedTier(t) /\ proj.desired = ObservedTier(t)
      writes == FactsCurrent /\ ~observer.stale /\ GenerationCompatible(t.gen, Facts(t))
  IN
  /\ observer.pc = "write"
  /\ \/ /\ writes
        /\ proj' = Projected(ObservedTier(t), proj.desired, t)
        /\ oper' = [oper EXCEPT !.stale = oper.pc # "idle"]
        /\ observer' = Watching
     \/ /\ ~writes
        /\ observer' = Watching
        /\ UNCHANGED <<proj, oper>>
     \/ /\ FactsCurrent /\ observer.stale /\ same
        /\ observer' = [observer EXCEPT !.stale = FALSE]
        /\ UNCHANGED <<proj, oper>>
  /\ UNCHANGED <<row, target, fenceMem, advert, cmd, node, latest, budget>>

\* fencedHotGrace runs out.
GraceExpires ==
  /\ latest.fresh
  /\ latest' = [latest EXCEPT !.fresh = FALSE]
  /\ UNCHANGED <<row, proj, target, fenceMem, oper, observer, advert, cmd, node, budget>>

\* The controller restarts: its memory goes, the rows and the node stay.
Crash ==
  /\ Spend("crash")
  /\ target' = Unregistered
  /\ fenceMem' = 0
  /\ oper' = Idle
  /\ observer' = Watching
  /\ advert' = {}
  /\ UNCHANGED <<row, proj, cmd, node, latest>>

-----------------------------------------------------------------------------
OperationSteps ==
  \/ DispatchOnChangedTarget \/ Dispatch
  \/ ResultProvesTier \/ ResultFailed \/ ResultNamesOtherTier
  \/ Rollback \/ RollbackDoneBefore \/ RollbackProven \/ RollbackNotProven
  \/ FinishChangedRoute \/ FinishFailed \/ FinishIndeterminate \/ FinishProven
  \/ AcceptProject \/ AcceptCommit

ObservationSteps == Advertise \/ RegisterTarget \/ ObserveRead \/ ObserveWrite

ResidencyNext ==
  \/ \E k \in Keys : Begin(k) \/ Replay(k)
  \/ OperationSteps \/ ObservationSteps
  \/ DispatchOffline \/ ResultUnresolved \/ FinishLeaseLost
  \/ \E i \in Ids : Recover(i) \/ NodeExecutes(i) \/ NodeFails(i) \/ NodeEndsElsewhere(i)
  \/ ModelDies \/ RouteChanges \/ GraceExpires \/ Crash

\* The operation runs on, recovery takes up every row in turn, the node works
\* off its commands and advertises again and again, and the grace runs out.
Fairness ==
  /\ WF_residencyVars(OperationSteps)
  /\ WF_residencyVars(ObservationSteps)
  /\ WF_residencyVars(GraceExpires)
  /\ WF_residencyVars(\E i \in Ids : NodeExecutes(i))
  /\ \A k \in Keys : SF_residencyVars(Recover(<<"mgr", k>>))

ResidencySpec == ResidencyInit /\ [][ResidencyNext]_residencyVars /\ Fairness

-----------------------------------------------------------------------------
(***************************************************************************)
(* Properties.                                                              *)
(***************************************************************************)
\* The final statuses tell the truth.  A row says succeeded only if the node
\* really ran the command to the end: the manager's success rests on the
\* adapter's, and the adapter's on a finished command that reached the requested
\* tier (observeResidencyResult and the read-only query after a lost answer).
\* A request is failed only when its command can no longer take effect
\* (ResidencyAdapterError.IsIndeterminate, expireUnresolvedResidencyTransitions).
SettledRowsAreTrue ==
  \A k \in Keys :
    /\ row[<<"adp", k>>].status = "succeeded" =>
         cmd[<<"adp", k>>].state = "done" /\ row[<<"adp", k>>].observed = ToTier[k]
    /\ row[<<"mgr", k>>].status = "succeeded" =>
         row[<<"adp", k>>].status = "succeeded"
    /\ row[<<"mgr", k>>].status = "failed" => ~Running(<<"adp", k>>)

\* The durable projection never goes back to an older target generation, and a
\* generation stands for one execution fingerprint, across restarts that seed
\* the generation anew (residencyGenerationCompatible, RegisterTarget,
\* reconcileResidencyGeneration).
GenerationFence ==
  [][\/ proj'.gen > proj.gen
     \/ proj'.gen = proj.gen /\ proj'.facts = proj.facts]_proj

\* Every request reaches a final status (lost answers and failed rollbacks are
\* taken up by recovery until the node command is settled,
\* residencyRecoveryLoop), and the projection ends up saying hot exactly when the
\* node holds the model in VRAM, also when the model died by itself right after a
\* load (fencedHotGrace runs out and the omission counts).  A restart is included
\* when one request was made; among several, the generation seeded after it may
\* stay below the projection's, or an older proof is projected over a newer one.
ResidencySettles ==
  (budget.crash = 0 \/ Cardinality(budget.keys) = 1) =>
    <>[](/\ \A k \in Keys : ~Running(<<"mgr", k>>)
         /\ (proj.tier = "hot") <=> (node.tier = "hot"))

=============================================================================
