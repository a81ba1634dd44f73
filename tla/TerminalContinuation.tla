------------------------- MODULE TerminalContinuation -------------------------
(***************************************************************************)
(* How the workload manager ends a workload that holds an accelerator:     *)
(* write the result without its terminal status, journal a cleanup intent, *)
(* release the placement, then publish the terminal status and its side    *)
(* effects, recording every phase in the intent so that a retry loop or a  *)
(* restarted controller can continue.                                      *)
(*                                                                         *)
(* The workloads of the model share one accelerator under one lease (they  *)
(* are co-scheduled); a single workload is the ordinary case.  Each has an *)
(* execution thread and, if it is in Cancellable, a thread for the Cancel  *)
(* calls of its owner; the thread Loop is the manager's one-second loop.   *)
(* The physical backend has already stopped.                               *)
(*                                                                         *)
(* A store call may fail without effect, at most limit.faults times; the   *)
(* controller may crash at most limit.crashes times.                       *)
(***************************************************************************)
EXTENDS Integers, Sequences, FiniteSets

CONSTANTS
    Workloads,
    Cancellable,    \* the workloads whose owner may call Cancel
    LeaseOwner,     \* the workload under whose name the lease was acquired
    Loop,           \* the manager loop
    NoIntent,       \* no cleanup intent row / no local copy of one
    Effects,        \* side effects of a terminal status, in their order
    Limits          \* the bounds a behaviour may be given, see Limit

ASSUME LoopAssumption == Loop \notin Workloads
ASSUME OwnerAssumption == LeaseOwner \in Workloads /\ Cancellable \subseteq Workloads

\* placed: the workloads that start on the accelerator; faults: store calls
\* that fail; crashes: controller crashes; cancels: Cancel calls per workload;
\* successors: later holders of the accelerator; stalls: may a thread be slower
\* than the retry delay of its intent?
Limit == [placed : SUBSET Workloads, faults : Nat, crashes : Nat, cancels : Nat,
          successors : Nat, stalls : BOOLEAN]
ASSUME LimitsAssumption == \A l \in Limits : l \in Limit

VARIABLES
    row,        \* durable workload rows: status, revision, CancellationOwner set
    lease,      \* the shared lease: held, expired, free, or other (a successor's)
    intents,    \* durable terminal cleanup intents, one per workload
    generic,    \* durable cleanup intent of the lease alone
    resv,       \* in-memory reservations
    cancelling, \* in-memory marks of the Cancel calls in progress
    th,         \* threads: program counter, call being made, local intent copy
    effects,    \* side effects delivered so far, with the event they carry
    phase,      \* the controller: up, down, or starting
    limit,      \* the bounds of this behaviour
    faults, crashes, cancels, successors

vars == <<row, lease, intents, generic, resv, cancelling, th, effects, phase,
          limit, faults, crashes, cancels, successors>>
bounds == <<limit, crashes, cancels, successors>>

Exec(w) == <<w, "exec">>
Canceller(w) == <<w, "cancel">>
Execs == {Exec(w) : w \in Workloads}
Cancellers == {Canceller(w) : w \in Cancellable}
Threads == Execs \cup Cancellers \cup {Loop}

Dispositions == {"success", "failure", "cancel"}
TerminalStatuses == {"succeeded", "failed", "cancelled"}
StatusOf(d) == CASE d = "success" -> "succeeded"
                 [] d = "failure" -> "failed"
                 [] d = "cancel" -> "cancelled"

Intent == [exp : Nat, disp : Dispositions, released : BOOLEAN,
           published : BOOLEAN, done : 0 .. Len(Effects)]
AllEffects == {Effects[k] : k \in 1 .. Len(Effects)}

IsTerminal(w) == row[w].status \in TerminalStatuses
Up == phase = "up"

\* The reservation is still in the manager's map, and counted as a placement.
Placed(w) == resv[w].present

Idle == [pc |-> "idle", mode |-> "none", w |-> LeaseOwner, disp |-> "none", cp |-> NoIntent]
Done == [Idle EXCEPT !.pc = "done"]

NoReservation == [present |-> FALSE, requested |-> FALSE, inFlight |-> FALSE,
                  intent |-> NoIntent, disp |-> "none"]

Init ==
    /\ limit \in Limits
    /\ row = [w \in Workloads |->
                 [status |-> IF w \in limit.placed THEN "running" ELSE "queued",
                  rev |-> 1, claimed |-> FALSE]]
    /\ lease = "held"
    /\ intents = [w \in Workloads |-> NoIntent]
    /\ generic = FALSE
    /\ resv = [w \in Workloads |-> [NoReservation EXCEPT !.present = w \in limit.placed]]
    /\ cancelling = {}
    /\ th = [t \in Threads |-> IF t \in {Exec(w) : w \in Workloads \ limit.placed}
                               THEN Done ELSE Idle]
    /\ effects = [w \in Workloads |-> {}]
    /\ phase = "up"
    /\ faults = 0 /\ crashes = 0 /\ successors = 0
    /\ cancels = [w \in Cancellable |-> 0]

At(t, pc) == phase # "down" /\ th[t].pc = pc
Goto(t, pc) == th' = [th EXCEPT ![t].pc = pc]
GotoWith(t, pc, cp) == th' = [th EXCEPT ![t].pc = pc, ![t].cp = cp]
Fault == faults < limit.faults /\ faults' = faults + 1
NoFault == UNCHANGED faults

\* RecordAcceleratorLeaseCleanupIntent: the phases of an existing row are only
\* ever added to, its identity is immutable.
Conflicts(w, i) ==
    /\ intents[w] # NoIntent
    /\ intents[w].exp # i.exp \/ intents[w].disp # i.disp
Merged(w, i) ==
    IF intents[w] = NoIntent THEN i
    ELSE [i EXCEPT !.released = @ \/ intents[w].released,
                   !.published = @ \/ intents[w].published,
                   !.done = IF @ < intents[w].done THEN intents[w].done ELSE @]
Record(w, i) == [intents EXCEPT ![w] = Merged(w, i)]

\* Where a thread goes when the call it makes returns an error.  The execution
\* falls into its deferred cleanup; Cancel and the loop give up for now.
AfterError(t) ==
    [th EXCEPT ![t] =
        CASE th[t].mode \in {"terminal", "requeue"} /\ t \in Execs ->
                 [@ EXCEPT !.pc = "deferred", !.cp = NoIntent]
          [] th[t].mode = "deferred" -> [@ EXCEPT !.pc = "retain"]
          [] t = Loop -> Idle
          [] OTHER -> Done]

-----------------------------------------------------------------------------
(* The ending of a workload: releaseBeforeTerminal and its callers.        *)

\* The observer saw the end of the backend and no cancellation: success,
\* failure, or (mode requeue) a drift or provider failure after which the
\* workload may go back to the queue.
FinishExecution(w, d, mode) ==
    /\ Up /\ At(Exec(w), "idle")
    /\ row[w].status = "running" /\ w \notin cancelling
    /\ mode = "requeue" => d = "failure"
    /\ th' = [th EXCEPT ![Exec(w)] = [pc |-> "prepare", mode |-> mode, w |-> w,
                                      disp |-> d, cp |-> NoIntent]]
    /\ UNCHANGED <<row, lease, intents, generic, resv, cancelling, effects, phase, faults, bounds>>

\* The observer finds the row ended by somebody else.
LeaveExecution(w) ==
    /\ Up /\ At(Exec(w), "idle")
    /\ row[w].status # "running"
    /\ th' = [th EXCEPT ![Exec(w)] = [Idle EXCEPT !.pc = "deferred", !.w = w]]
    /\ UNCHANGED <<row, lease, intents, generic, resv, cancelling, effects, phase, faults, bounds>>

\* Cancel: the durable claim; a second call of the same owner goes on with the
\* first one's work as long as there is a reservation.
ClaimCancellation(w) ==
    LET t == Canceller(w) IN
    /\ Up /\ th[t].pc \in {"idle", "done"} /\ cancels[w] < limit.cancels
    /\ ~IsTerminal(w)
    /\ \/ /\ ~row[w].claimed
          /\ row' = [row EXCEPT ![w].claimed = TRUE, ![w].rev = @ + 1]
       \/ /\ row[w].claimed /\ Placed(w)
          /\ UNCHANGED row
    /\ th' = [th EXCEPT ![t] = [Idle EXCEPT !.pc = "claimed", !.w = w,
                                            !.mode = "terminal", !.disp = "cancel"]]
    /\ cancels' = [cancels EXCEPT ![w] = @ + 1]
    /\ UNCHANGED <<lease, intents, generic, resv, cancelling, effects, phase, limit, faults, crashes, successors>>

\* Cancel marks the workload and picks up its reservation.
MarkCancelling(w) ==
    LET t == Canceller(w) IN
    /\ At(t, "claimed")
    /\ cancelling' = cancelling \cup {w}
    /\ Goto(t, IF Placed(w) THEN "prepare" ELSE "cancel")
    /\ UNCHANGED <<row, lease, intents, generic, resv, effects, phase, faults, bounds>>

\* The end of Cancel: the row is terminal, or is made so directly.
PublishCancelled(w) ==
    LET t == Canceller(w) IN
    /\ At(t, "cancel")
    /\ cancelling' = cancelling \ {w}
    /\ IF ~IsTerminal(w) /\ row[w].claimed
       THEN /\ row' = [row EXCEPT ![w] = [status |-> "cancelled", rev |-> @.rev + 1,
                                          claimed |-> FALSE]]
            /\ Goto(t, "direct")
       ELSE /\ UNCHANGED row
            /\ th' = [th EXCEPT ![t] = Done]
    /\ UNCHANGED <<lease, intents, generic, resv, effects, phase, faults, bounds>>

\* prepareTerminalWorkload: the result is written under the current status and
\* under whatever cancellation owner the row has.
PrepareTerminalWorkload(t) ==
    LET w == th[t].w
        rev == IF IsTerminal(w) THEN row[w].rev ELSE row[w].rev + 1
        i == [exp |-> rev, disp |-> th[t].disp, released |-> FALSE,
              published |-> FALSE, done |-> 0]
    IN  /\ At(t, "prepare")
        /\ \/ /\ NoFault
              /\ row' = [row EXCEPT ![w].rev = rev]
              /\ GotoWith(t, "record", i)
           \/ /\ Fault
              /\ UNCHANGED row
              /\ th' = AfterError(t)
        /\ UNCHANGED <<lease, intents, generic, resv, cancelling, effects, phase, bounds>>

\* prepareTerminalLeaseIntent: the reservation remembers the intent even when
\* the store refuses it.
PrepareTerminalLeaseIntent(t) ==
    LET w == th[t].w
        i == th[t].cp
    IN  /\ At(t, "record")
        /\ \/ /\ NoFault /\ ~Conflicts(w, i)
              /\ intents' = Record(w, i)
              /\ resv' = [resv EXCEPT ![w].intent = IF Placed(w) THEN Merged(w, i) ELSE @]
              /\ GotoWith(t, "elect", Merged(w, i))
           \/ /\ (Conflicts(w, i) /\ NoFault) \/ Fault
              /\ resv' = [resv EXCEPT ![w].intent = IF Placed(w) THEN i ELSE @]
              /\ UNCHANGED intents
              /\ th' = AfterError(t)
        /\ UNCHANGED <<row, lease, generic, cancelling, effects, phase, bounds>>

\* What a caller of releaseTarget does when it returns nil.
AfterRelease(t) ==
    CASE th[t].mode \in {"terminal", "requeue", "intent"} -> "confirm"
      [] th[t].mode = "deferred" -> "done"
      [] th[t].mode = "memory" -> "after"
      [] th[t].mode = "generic" -> "idle"

\* releaseTargetWithIntent, the part under placementMu: a workload that is not
\* the last one on the accelerator only gives up its placement, and a release
\* that is done or in flight counts as this caller's own.
ElectReleaser(t) ==
    LET w == th[t].w IN
    /\ At(t, "elect")
    /\ \/ /\ ~Placed(w) \/ resv[w].inFlight
          /\ UNCHANGED resv
          /\ Goto(t, AfterRelease(t))
       \/ /\ Placed(w) /\ ~resv[w].inFlight
          /\ \E v \in Workloads \ {w} : Placed(v)
          /\ resv' = [resv EXCEPT ![w] = NoReservation]
          /\ Goto(t, AfterRelease(t))
       \/ /\ Placed(w) /\ ~resv[w].inFlight
          /\ \A v \in Workloads \ {w} : ~Placed(v)
          /\ resv' = [resv EXCEPT ![w].requested = TRUE, ![w].inFlight = TRUE]
          /\ Goto(t, "release")
    /\ UNCHANGED <<row, lease, intents, generic, cancelling, effects, phase, faults, bounds>>

\* Mutant: a recorded cleanup intent counts as a release.
StoreReleaseOrRecord(t) ==
    LET w == th[t].w IN
    /\ At(t, "release")
    /\ \/ NoFault /\ lease' = IF lease = "other" THEN lease ELSE "free"
       \/ Fault /\ UNCHANGED lease
    /\ Goto(t, IF th[t].cp = NoIntent THEN "finish" ELSE "confirm")
    /\ UNCHANGED <<row, intents, generic, resv, cancelling, effects, phase, bounds>>

\* rollbackAcceleratorLeaseWithIntentMode: the exact fenced release.  An absent
\* or expired lease counts as released; a live successor's does not, and the
\* failure is recorded in the intent of the caller or in one of the lease.
StoreRelease(t) ==
    LET w == th[t].w IN
    /\ At(t, "release")
    /\ \/ /\ NoFault /\ lease # "other"
          /\ lease' = "free"
          /\ Goto(t, IF th[t].mode = "intent" THEN "finish" ELSE "delete")
          /\ UNCHANGED <<intents, generic, resv>>
       \/ /\ (lease = "other" /\ NoFault) \/ Fault
          /\ UNCHANGED lease
          /\ resv' = IF th[t].mode \in {"intent", "generic"} THEN resv
                     ELSE [resv EXCEPT ![w].inFlight = FALSE]
          /\ IF th[t].cp = NoIntent
             THEN generic' = TRUE /\ UNCHANGED intents
             ELSE /\ intents' = IF Conflicts(w, th[t].cp) THEN intents ELSE Record(w, th[t].cp)
                  /\ UNCHANGED generic
          /\ th' = AfterError(t)
    /\ UNCHANGED <<row, cancelling, effects, phase, bounds>>

\* The intent is deleted after the release: the workload's own row, or, when
\* the caller carries none, every row of the lease.
DeleteAfterRelease(t) ==
    /\ At(t, "delete")
    /\ IF th[t].cp # NoIntent
       THEN /\ intents' = [intents EXCEPT ![th[t].w] = NoIntent]
            /\ UNCHANGED generic
       ELSE /\ intents' = [v \in Workloads |-> NoIntent]
            /\ generic' = FALSE
    /\ Goto(t, "finish")
    /\ UNCHANGED <<row, lease, resv, cancelling, effects, phase, faults, bounds>>

FinishReleasedReservation(t) ==
    /\ At(t, "finish")
    /\ resv' = [resv EXCEPT ![th[t].w] = NoReservation]
    /\ th' = [th EXCEPT ![t] = IF AfterRelease(t) = "idle" THEN Idle
                               ELSE [@ EXCEPT !.pc = AfterRelease(t)]]
    /\ UNCHANGED <<row, lease, intents, generic, cancelling, effects, phase, faults, bounds>>

\* A continuation that fails is rescheduled: its copy is recorded once more,
\* best effort (the fault that stopped it may also stop this call).
Rescheduled(w, i) == IF Conflicts(w, i) THEN intents ELSE Record(w, i)

\* The release is recorded in the intent, which may have to be created again.
ConfirmRelease(t) ==
    LET w == th[t].w
        i == [th[t].cp EXCEPT !.released = TRUE]
    IN  /\ At(t, "confirm")
        /\ \/ /\ NoFault /\ ~Conflicts(w, i)
              /\ intents' = Record(w, i)
              /\ GotoWith(t, IF th[t].mode = "requeue" THEN "drop" ELSE "publish",
                          IF th[t].mode = "terminal" THEN Merged(w, i) ELSE i)
           \/ /\ (Conflicts(w, i) /\ NoFault) \/ Fault
              /\ intents' \in {intents, Rescheduled(w, i)}
              /\ th' = AfterError(t)
        /\ UNCHANGED <<row, lease, generic, resv, cancelling, effects, phase, bounds>>

\* Mutant: a row that is terminal already counts as published, whatever its status.
PublishIgnoringMismatch(t) ==
    LET w == th[t].w
        i == th[t].cp
    IN  /\ At(t, "publish")
        /\ row' = IF ~i.published /\ ~IsTerminal(w)
                  THEN [row EXCEPT ![w].status = StatusOf(i.disp), ![w].rev = @ + 1] ELSE row
        /\ GotoWith(t, "recphase", [i EXCEPT !.published = TRUE])
        /\ UNCHANGED <<lease, intents, generic, resv, cancelling, effects, phase, faults, bounds>>

\* finalizeTerminalLeaseIntent, first phase: the terminal status.  A row that
\* moved since the intent was prepared, or that ended otherwise, is a conflict.
\* The cancellation owner stays on the row: replaceWorkloadCAS restores it.
PublishTerminal(t) ==
    LET w == th[t].w
        i == th[t].cp
    IN  /\ At(t, "publish")
        /\ \/ /\ i.published
              /\ Goto(t, "effect")
              /\ UNCHANGED <<row, intents>>
           \/ /\ ~i.published
              /\ IsTerminal(w) /\ row[w].status = StatusOf(i.disp)
              /\ GotoWith(t, "recphase", [i EXCEPT !.published = TRUE])
              /\ UNCHANGED <<row, intents>>
           \/ /\ ~i.published
              /\ ~IsTerminal(w) /\ row[w].rev = i.exp
              /\ row' = [row EXCEPT ![w].status = StatusOf(i.disp), ![w].rev = @ + 1]
              /\ GotoWith(t, "recphase", [i EXCEPT !.published = TRUE])
              /\ UNCHANGED intents
           \/ /\ ~i.published
              /\ IF IsTerminal(w) THEN row[w].status # StatusOf(i.disp)
                                  ELSE row[w].rev # i.exp
              /\ th' = AfterError(t)
              /\ intents' = Rescheduled(w, i)
              /\ UNCHANGED row
        /\ UNCHANGED <<lease, generic, resv, cancelling, effects, phase, faults, bounds>>

\* The next side effect that the local copy does not yet know as delivered.
\* Each is keyed by workload and event, so that a repeat adds nothing.  The
\* budget of a row that still has a cancellation owner is not settled here.
DeliverEffect(t) ==
    LET w == th[t].w
        i == th[t].cp
        e == <<Effects[i.done + 1], i.disp>>
        blocked == e[1] = "budget" /\ row[w].claimed /\ e \notin effects[w]
    IN  /\ At(t, "effect")
        /\ \/ /\ i.done = Len(Effects)
              /\ Goto(t, "drop")
              /\ UNCHANGED <<intents, effects, faults>>
           \/ /\ i.done < Len(Effects) /\ ~blocked /\ NoFault
              /\ effects' = [effects EXCEPT ![w] = @ \cup {e}]
              /\ GotoWith(t, "recphase", [i EXCEPT !.done = @ + 1])
              /\ UNCHANGED intents
           \/ /\ i.done < Len(Effects)
              /\ (blocked /\ NoFault) \/ Fault
              /\ th' = AfterError(t)
              /\ intents' \in {intents, Rescheduled(w, i)}
              /\ UNCHANGED effects
        /\ UNCHANGED <<row, lease, generic, resv, cancelling, phase, bounds>>

\* Every finished phase is recorded before the next one starts.
RecordPhase(t) ==
    LET w == th[t].w
        i == th[t].cp
    IN  /\ At(t, "recphase")
        /\ \/ /\ NoFault /\ ~Conflicts(w, i)
              /\ intents' = Record(w, i)
              /\ Goto(t, "effect")
           \/ /\ (Conflicts(w, i) /\ NoFault) \/ Fault
              /\ intents' \in {intents, Rescheduled(w, i)}
              /\ th' = AfterError(t)
        /\ UNCHANGED <<row, lease, generic, resv, cancelling, effects, phase, bounds>>

\* deleteLeaseCleanupIntent: best effort, only this workload's row.  The end
\* of Cancel clears its mark, the execution runs its deferred function.
DropIntent(t) ==
    LET w == th[t].w IN
    /\ At(t, "drop")
    /\ \/ NoFault /\ intents' = [intents EXCEPT ![w] = NoIntent]
       \/ Fault /\ UNCHANGED intents
    /\ th' = [th EXCEPT ![t] =
          CASE th[t].mode = "requeue" -> [@ EXCEPT !.pc = "requeue"]
            [] t = Loop -> Idle
            [] t \in Cancellers -> [@ EXCEPT !.pc = "cancel"]
            [] OTHER -> [@ EXCEPT !.pc = "deferred", !.cp = NoIntent]]
    /\ UNCHANGED <<row, lease, generic, resv, cancelling, effects, phase, bounds>>

\* requeueAfterPreDispatchDrift and retryProviderFailure after the release:
\* back to the queue, or a direct failure when no attempt is left.
RequeueOrFail(w) ==
    LET t == Exec(w) IN
    /\ At(t, "requeue")
    /\ \/ /\ ~IsTerminal(w) /\ ~row[w].claimed
          /\ row' = [row EXCEPT ![w].status = "queued", ![w].rev = @ + 1]
          /\ Goto(t, "deferred")
       \/ /\ UNCHANGED row
          /\ Goto(t, "fail")
    /\ UNCHANGED <<lease, intents, generic, resv, cancelling, effects, phase, faults, bounds>>

AfterDirect(t) == IF t = Loop THEN Idle
                  ELSE IF t \in Execs THEN [th[t] EXCEPT !.pc = "deferred"] ELSE Done

\* fail: publishes only from a live row that no cancellation owns, then
\* delivers directly.
PublishDirect(t) ==
    LET w == th[t].w IN
    /\ At(t, "fail")
    /\ IF ~IsTerminal(w) /\ ~row[w].claimed /\ w \notin cancelling
       THEN /\ row' = [row EXCEPT ![w].status = "failed", ![w].rev = @ + 1]
            /\ th' = [th EXCEPT ![t].pc = "direct", ![t].disp = "failure"]
       ELSE /\ UNCHANGED row
            /\ th' = [th EXCEPT ![t] = AfterDirect(t)]
    /\ UNCHANGED <<lease, intents, generic, resv, cancelling, effects, phase, faults, bounds>>

DirectEffects(t) ==
    LET w == th[t].w IN
    /\ At(t, "direct")
    /\ effects' = [effects EXCEPT ![w] = @ \cup (AllEffects \X {th[t].disp})]
    /\ th' = [th EXCEPT ![t] = AfterDirect(t)]
    /\ UNCHANGED <<row, lease, intents, generic, resv, cancelling, phase, faults, bounds>>

-----------------------------------------------------------------------------
(* The deferred function of execute.                                       *)

\* A placement that is still there is released, unless a cancellation owns it.
DeferredCleanup(w) ==
    LET t == Exec(w) IN
    /\ At(t, "deferred")
    /\ th' = [th EXCEPT ![t] =
          IF Placed(w) /\ w \notin cancelling
          THEN [@ EXCEPT !.pc = "elect", !.mode = "deferred", !.w = w, !.cp = resv[w].intent]
          ELSE Done]
    /\ UNCHANGED <<row, lease, intents, generic, resv, cancelling, effects, phase, faults, bounds>>

\* retainReservationForBackendCleanup: the placement stays, the row gets a
\* diagnostic, which is one more revision.
RetainReservation(w) ==
    LET t == Exec(w) IN
    /\ At(t, "retain")
    /\ resv' = [resv EXCEPT ![w] =
          IF Placed(w) THEN [@ EXCEPT !.requested = TRUE,
                                      !.disp = IF w \in cancelling THEN "none" ELSE "failure"]
          ELSE @]
    /\ row' = IF IsTerminal(w) THEN row ELSE [row EXCEPT ![w].rev = @ + 1]
    /\ th' = [th EXCEPT ![t] = Done]
    /\ UNCHANGED <<lease, intents, generic, cancelling, effects, phase, faults, bounds>>

-----------------------------------------------------------------------------
(* The manager loop.                                                       *)

LoopCall(pc, mode, w, d, cp) ==
    /\ At(Loop, "idle")
    /\ th' = [th EXCEPT ![Loop] = [pc |-> pc, mode |-> mode, w |-> w, disp |-> d, cp |-> cp]]
    /\ UNCHANGED <<row, lease, intents, generic, resv, cancelling, effects, phase, faults, bounds>>

Working(w) == \E t \in Threads \ {Loop} : th[t].w = w /\ th[t].pc \notin {"idle", "done"}

\* Mutant: the retry leaves alone what is published already.
RetryUnpublishedIntent(w) ==
    /\ intents[w] # NoIntent /\ ~intents[w].published /\ (limit.stalls \/ ~Working(w))
    /\ LoopCall("release", "intent", w, intents[w].disp, intents[w])

\* retryAcceleratorLeaseCleanupIntents, terminal rows that are due (a second
\* after they were last recorded); the loop and Start call it.
RetryIntent(w) ==
    /\ intents[w] # NoIntent /\ (limit.stalls \/ ~Working(w))
    /\ LoopCall("release", "intent", w, intents[w].disp, intents[w])

\* retryAcceleratorLeaseCleanupIntents, rows of a lease alone.
RetryGenericIntent ==
    /\ generic
    /\ LoopCall("release", "generic", LeaseOwner, "none", NoIntent)

\* retryInMemoryLeaseReleases.
RetryReservation(w) ==
    /\ Up /\ Placed(w) /\ resv[w].requested
    /\ LoopCall("elect", "memory", w, resv[w].disp, resv[w].intent)

AfterMemoryRelease ==
    /\ At(Loop, "after")
    /\ th' = [th EXCEPT ![Loop] = IF @.disp = "failure" THEN [@ EXCEPT !.pc = "fail"] ELSE Idle]
    /\ UNCHANGED <<row, lease, intents, generic, resv, cancelling, effects, phase, faults, bounds>>

\* retryBudgetIntents: a terminal row with a pending settlement is settled.
RetryBudgetSettlement(w) ==
    /\ Up /\ At(Loop, "idle")
    /\ IsTerminal(w) /\ "budget" \in AllEffects
    /\ LET d == CHOOSE d \in Dispositions : StatusOf(d) = row[w].status IN
       /\ <<"budget", d>> \notin effects[w]
       /\ effects' = [effects EXCEPT ![w] = @ \cup {<<"budget", d>>}]
    /\ UNCHANGED <<row, lease, intents, generic, resv, cancelling, th, phase, faults, bounds>>

-----------------------------------------------------------------------------
(* Crash and restart, and the rest of the cluster.                         *)

Crash ==
    /\ phase # "down" /\ crashes < limit.crashes
    /\ crashes' = crashes + 1
    /\ phase' = "down"
    /\ th' = [t \in Threads |-> Idle]
    /\ resv' = [w \in Workloads |-> NoReservation]
    /\ cancelling' = {}
    /\ UNCHANGED <<row, lease, intents, generic, effects, limit, faults, cancels, successors>>

\* Start, up to the intents it retries.
Restart ==
    /\ phase = "down"
    /\ phase' = "starting"
    /\ th' = [t \in Threads |-> IF t \in Execs THEN Done ELSE Idle]
    /\ UNCHANGED <<row, lease, intents, generic, resv, cancelling, effects, faults, bounds>>

\* Start, the running rows that no cancellation owns: back to the queue when
\* nothing was started, to reconciliation when the backend may still run, or
\* failed when the workload is not recoverable.
RecoverRows ==
    /\ phase = "starting" /\ At(Loop, "idle")
    /\ phase' = "up"
    /\ \E fate \in [Workloads -> {"queued", "waiting", "failed"}] :
         LET Handled(w) == row[w].status = "running" /\ ~row[w].claimed IN
         /\ row' = [w \in Workloads |-> IF Handled(w)
                      THEN [row[w] EXCEPT !.status = fate[w], !.rev = @ + 1] ELSE row[w]]
         /\ effects' = [w \in Workloads |-> IF Handled(w) /\ fate[w] = "failed"
                      THEN effects[w] \cup ((AllEffects \ {"audit"}) \X {"failure"})
                      ELSE effects[w]]
    /\ UNCHANGED <<lease, intents, generic, resv, cancelling, th, faults, bounds>>

\* reconcileRecoveredExecutionsForTarget: the backend's own account.
ReconcileRecovered(w) ==
    /\ Up /\ row[w].status = "waiting" /\ ~row[w].claimed
    /\ \E s \in {"succeeded", "failed", "queued"} :
         row' = [row EXCEPT ![w].status = s, ![w].rev = @ + 1]
    /\ UNCHANGED <<lease, intents, generic, resv, cancelling, th, effects, phase, faults, bounds>>

\* Nothing renews the lease once the executions on the accelerator are over.
LeaseExpires ==
    /\ lease = "held"
    /\ \A w \in Workloads : phase # "down" => th[Exec(w)].pc = "done"
    /\ lease' = "expired"
    /\ UNCHANGED <<row, intents, generic, resv, cancelling, th, effects, phase, faults, bounds>>

SuccessorAcquires ==
    /\ lease \in {"expired", "free"} /\ successors < limit.successors
    /\ lease' = "other"
    /\ successors' = successors + 1
    /\ UNCHANGED <<row, intents, generic, resv, cancelling, th, effects, phase,
                   limit, faults, crashes, cancels>>

SuccessorReleases ==
    /\ lease = "other"
    /\ lease' = "free"
    /\ UNCHANGED <<row, intents, generic, resv, cancelling, th, effects, phase, faults, bounds>>

ThreadStep(t) ==
    \/ PrepareTerminalWorkload(t) \/ PrepareTerminalLeaseIntent(t)
    \/ ElectReleaser(t) \/ StoreRelease(t) \/ DeleteAfterRelease(t)
    \/ FinishReleasedReservation(t) \/ ConfirmRelease(t) \/ PublishTerminal(t)
    \/ DeliverEffect(t) \/ RecordPhase(t) \/ DropIntent(t)
    \/ PublishDirect(t) \/ DirectEffects(t)

ExecutionStep(w) ==
    \/ \E d \in {"success", "failure"}, mode \in {"terminal", "requeue"} : FinishExecution(w, d, mode)
    \/ LeaveExecution(w)
    \/ RequeueOrFail(w) \/ DeferredCleanup(w) \/ RetainReservation(w)

CancelStep(w) == MarkCancelling(w) \/ PublishCancelled(w)

Next ==
    \/ \E t \in Threads : ThreadStep(t)
    \/ \E w \in Workloads : ExecutionStep(w)
    \/ \E w \in Cancellable : ClaimCancellation(w) \/ CancelStep(w)
    \/ \E w \in Workloads : \/ RetryIntent(w) \/ RetryReservation(w)
                            \/ RetryBudgetSettlement(w) \/ ReconcileRecovered(w)
    \/ RetryGenericIntent \/ AfterMemoryRelease
    \/ Crash \/ Restart \/ RecoverRows
    \/ LeaseExpires \/ SuccessorAcquires \/ SuccessorReleases

Spec == Init /\ [][Next]_vars

\* Every execution ends, every thread runs, a crashed controller is restarted
\* and finishes its start, a registered target is reconciled, and a successor
\* gives the accelerator back.  The loop walks over all its rows every second,
\* so each of them is served again and again.  Nobody has to call Cancel twice.
Fairness ==
    /\ \A t \in Threads : WF_vars(ThreadStep(t))
    /\ \A w \in Workloads : WF_vars(ExecutionStep(w)) /\ WF_vars(ReconcileRecovered(w))
    /\ \A w \in Cancellable : WF_vars(CancelStep(w))
    /\ \A w \in Workloads : /\ SF_vars(RetryIntent(w)) /\ SF_vars(RetryReservation(w))
                            /\ SF_vars(RetryBudgetSettlement(w))
    /\ SF_vars(RetryGenericIntent) /\ WF_vars(AfterMemoryRelease)
    /\ WF_vars(Restart) /\ SF_vars(RecoverRows) /\ WF_vars(SuccessorReleases)

FairSpec == Spec /\ Fairness

-----------------------------------------------------------------------------
\* Terminal visibility ordering (failAfterReservation): no reader sees a
\* terminal status while the workload's placement still holds the lease.
TerminalAfterRelease ==
    \A w \in Workloads : IsTerminal(w) => ~(Placed(w) /\ lease = "held")

\* The side effects tell the truth: an audit event, a notification or a
\* settlement is only ever delivered for the status the row has, however many
\* threads finalize the workload.
EffectsMatchStatus ==
    \A w \in Workloads : \A e \in effects[w] : row[w].status = StatusOf(e[2])

\* Once an intent knows its status as published, every side effect of it is
\* delivered in the end, by whichever thread or controller carries on.
ContinuationDelivers ==
    \A w \in Workloads :
        (intents[w] # NoIntent /\ intents[w].published) ~>
            {e[1] : e \in effects[w]} = AllEffects

=============================================================================
