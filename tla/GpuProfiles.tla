----------------------------- MODULE GpuProfiles -----------------------------
(***************************************************************************)
(* The clocks of one accelerator: the controller asks its node for the      *)
(* active profile before a placement runs and for the idle one after the    *)
(* last placement has left, one command at a time behind an in-flight       *)
(* marker, with fences the node compares.  A failed idle command leaves a   *)
(* note that telemetry takes up.  Callers are the placements, the parking   *)
(* goroutine each release starts, and the reconciliation of telemetry.      *)
(***************************************************************************)
EXTENDS Naturals, FiniteSets

CONSTANTS
  Placements,   \* workloads that may hold the accelerator, together or in turn
  MaxProfileFence,  \* bound: commands sent in one behaviour
  ProfileLimits

VARIABLES
  clocks,       \* the node: the profile the card runs with, its fence, a kept intent
  wire,         \* commands sent and not handled
  caller,       \* setGPUPerformanceProfile per caller, and what follows it
  inFlight,     \* powerProfileInFlight
  placed,       \* activePlacements
  running,      \* placements that started on an answered active command
  applied,      \* gpuAppliedProfile
  power,        \* managed, generation, pending idle, retry time, reconciliation;
                \* history: overlooked
  profileFence, \* gpuCommandFences
  facts,        \* generation of the accelerator's targets
  profileTrouble

profileVars == <<clocks, wire, caller, inFlight, placed, running, applied, power,
                 profileFence, facts, profileTrouble>>

Run(w) == <<"run", w>>
Park(w) == <<"park", w>>
Telemetry == <<"telemetry", "node">>
Nobody == <<"none", "none">>
Callers == {Run(w) : w \in Placements} \cup {Park(w) : w \in Placements} \cup {Telemetry}
Profile(p) == IF p[1] = "run" THEN "active" ELSE "idle"

NotCalling == [pc |-> "none", fence |-> 0, facts |-> 0, attempt |-> 0, answer |-> "none"]
Calling == [NotCalling EXCEPT !.pc = "enter"]

Unmanaged == [managed |-> FALSE, generation |-> 0, pending |-> FALSE, later |-> FALSE,
              reconciling |-> FALSE, seen |-> 0, overlooked |-> FALSE]

\* The node connects to a controller that has just started; an active profile may
\* have been left behind.
ProfilesInit(limits) ==
  /\ profileTrouble \in limits
  /\ clocks = [profile |-> "active", fence |-> 0, blocked |-> FALSE]
  /\ wire = {} /\ caller = [p \in Callers |-> NotCalling] /\ inFlight = Nobody
  /\ placed = {} /\ running = {} /\ applied = "none"
  /\ power = Unmanaged /\ profileFence = 0 /\ facts = 0

ProfileMeets(kind) ==
  /\ profileTrouble[kind] > 0
  /\ profileTrouble' = [profileTrouble EXCEPT ![kind] = @ - 1]

Goes(p, pc) == caller' = [caller EXCEPT ![p].pc = pc]

-----------------------------------------------------------------------------
(* setGPUPerformanceProfile *)

\* An accelerator the node does not advertise is left alone, without an error; so is
\* one whose node cannot be looked up.
EnterProfile(p) ==
  /\ caller[p].pc = "enter"
  /\ \/ /\ caller' = [caller EXCEPT ![p].pc = IF power.managed THEN "wait" ELSE "back",
                                    ![p].answer = "unmanaged"]
        /\ UNCHANGED <<power, profileTrouble>>
     \/ /\ power.managed /\ ProfileMeets("faults")
        /\ caller' = [caller EXCEPT ![p].pc = "back", ![p].answer = "unmanaged"]
        /\ power' = [power EXCEPT !.overlooked = @ \/ Profile(p) = "idle"]
  /\ UNCHANGED <<clocks, wire, inFlight, placed, running, applied, profileFence, facts>>

\* One caller at a time; one that waits may run into its deadline.
TakeMarker(p) ==
  /\ caller[p].pc = "wait"
  /\ \/ inFlight = Nobody /\ inFlight' = p /\ Goes(p, "cached") /\ UNCHANGED profileTrouble
     \/ /\ inFlight # Nobody /\ ProfileMeets("faults")
        /\ caller' = [caller EXCEPT ![p].pc = "back", ![p].answer = "error"]
        /\ UNCHANGED inFlight
  /\ UNCHANGED <<clocks, wire, placed, running, applied, power, profileFence, facts>>

\* The caller returns without an error and gives the marker back.
Skips(p) ==
  /\ caller' = [caller EXCEPT ![p].pc = "back", ![p].answer = "skipped"]
  /\ inFlight' = Nobody

\* Idle is not sent again to a card it was applied to; active always is.
CheckApplied(p) ==
  /\ caller[p].pc = "cached"
  /\ IF Profile(p) = "idle" /\ applied = "idle"
     THEN Skips(p)
     ELSE Goes(p, "placements") /\ UNCHANGED inFlight
  /\ UNCHANGED <<clocks, wire, placed, running, applied, power, profileFence, facts,
                 profileTrouble>>

\* Mutant: idle is sent without a look at the placements.
CheckNoPlacements(p) ==
  /\ caller[p].pc = "placements"
  /\ Goes(p, "send")
  /\ UNCHANGED <<clocks, wire, inFlight, placed, running, applied, power, profileFence,
                 facts, profileTrouble>>

\* Idle is not sent while a placement holds the card.
CheckPlacements(p) ==
  /\ caller[p].pc = "placements"
  /\ IF Profile(p) = "idle" /\ placed # {}
     THEN Skips(p)
     ELSE Goes(p, "send") /\ UNCHANGED inFlight
  /\ UNCHANGED <<clocks, wire, placed, running, applied, power, profileFence, facts,
                 profileTrouble>>

\* Every attempt has a fence above all earlier ones, also those of an earlier
\* process: the clock sees to that.
SendProfile(p) ==
  /\ caller[p].pc = "send" /\ profileFence < MaxProfileFence
  /\ profileFence' = profileFence + 1
  /\ wire' = wire \cup {[by |-> p, fence |-> profileFence']}
  /\ caller' = [caller EXCEPT ![p].pc = "sent", ![p].fence = profileFence',
                              ![p].facts = facts, ![p].attempt = @ + 1]
  /\ UNCHANGED <<clocks, inFlight, placed, running, applied, power, facts, profileTrouble>>

\* The wait ends without an answer: a deadline, or the command's row is uncertain.
\* The command may still reach the node.
WaitEnds(p) ==
  /\ caller[p].pc = "sent" /\ ProfileMeets("faults")
  /\ caller' = [caller EXCEPT ![p].pc = "answered", ![p].answer = "error"]
  /\ UNCHANGED <<clocks, wire, inFlight, placed, running, applied, power, profileFence, facts>>

\* A target that was refreshed meanwhile makes the answer worthless: the command is
\* sent again, three times at most.
Outdated(p) == caller[p].answer = "ok" /\ caller[p].facts # facts

SendAgain(p) ==
  /\ caller[p].pc = "answered" /\ Outdated(p) /\ caller[p].attempt < 3
  /\ Goes(p, "send")
  /\ UNCHANGED <<clocks, wire, inFlight, placed, running, applied, power, profileFence,
                 facts, profileTrouble>>

\* The outcome is published and the marker given back; a failed idle leaves its note.
PublishProfile(p) ==
  LET ok == caller[p].answer = "ok" /\ ~Outdated(p) IN
  /\ caller[p].pc = "answered" /\ ~(Outdated(p) /\ caller[p].attempt < 3)
  /\ applied' = IF ok THEN Profile(p) ELSE "none"
  /\ power' = IF ok \/ Profile(p) = "active" THEN power
              ELSE [power EXCEPT !.generation = @ + 1, !.pending = TRUE, !.later = TRUE]
  /\ inFlight' = Nobody
  /\ caller' = [caller EXCEPT ![p].pc = "back", ![p].answer = IF ok THEN "ok" ELSE "error"]
  /\ UNCHANGED <<clocks, wire, placed, running, profileFence, facts, profileTrouble>>

-----------------------------------------------------------------------------
(* The node *)

Answers(c, answer) ==
  caller' = IF caller[c.by].pc = "sent" /\ caller[c.by].fence = c.fence
            THEN [caller EXCEPT ![c.by].pc = "answered", ![c.by].answer = answer]
            ELSE caller

\* A node that keeps an unfinished intent refuses everything, one that has seen a
\* newer fence refuses this command.  A fixed command that fails may or may not have
\* changed the clocks, and its intent stays until an operator settles it.
NodeSetsProfile(c) ==
  /\ c \in wire /\ wire' = wire \ {c}
  /\ IF clocks.blocked \/ c.fence <= clocks.fence
     THEN Answers(c, "error") /\ UNCHANGED <<clocks, profileTrouble>>
     ELSE \/ /\ clocks' = [clocks EXCEPT !.profile = Profile(c.by), !.fence = c.fence]
             /\ Answers(c, "ok") /\ UNCHANGED profileTrouble
          \/ /\ ProfileMeets("failures")
             /\ \E profile \in {clocks.profile, Profile(c.by)} :
                  clocks' = [profile |-> profile, fence |-> c.fence, blocked |-> TRUE]
             /\ Answers(c, "error")
  /\ UNCHANGED <<inFlight, placed, running, applied, power, profileFence, facts>>

\* A command is lost with its session.
CommandLost(c) ==
  /\ c \in wire /\ wire' = wire \ {c} /\ ProfileMeets("faults")
  /\ Answers(c, "error")
  /\ UNCHANGED <<clocks, inFlight, placed, running, applied, power, profileFence, facts>>

-----------------------------------------------------------------------------
(* Placements *)

\* reserveTarget: the placement counts before its row is running.
Reserve(w) ==
  /\ caller[Run(w)].pc = "none" /\ caller[Park(w)].pc = "none" /\ ProfileMeets("places")
  /\ placed' = placed \cup {w} /\ Goes(Run(w), "admitted")
  /\ UNCHANGED <<clocks, wire, inFlight, running, applied, power, profileFence, facts>>

Execute(w) ==
  /\ caller[Run(w)].pc = "admitted"
  /\ caller' = [caller EXCEPT ![Run(w)] = Calling]
  /\ UNCHANGED <<clocks, wire, inFlight, placed, running, applied, power, profileFence,
                 facts, profileTrouble>>

\* execute goes on when the call returned without an error, and ends at once when
\* it did not.
ExecutionStarts(w) ==
  /\ caller[Run(w)].pc = "back"
  /\ running' = IF caller[Run(w)].answer = "ok" THEN running \cup {w} ELSE running
  /\ Goes(Run(w), IF caller[Run(w)].answer = "error" THEN "ends" ELSE "runs")
  /\ UNCHANGED <<clocks, wire, inFlight, placed, applied, power, profileFence, facts,
                 profileTrouble>>

\* releaseTargetWithIntent: one of several placements just leaves, the last one
\* first releases the lease.
EndPlacement(w) ==
  /\ caller[Run(w)].pc \in {"runs", "ends"}
  /\ running' = running \ {w}
  /\ IF placed = {w}
     THEN Goes(Run(w), "releasing") /\ UNCHANGED placed
     ELSE placed' = placed \ {w} /\ caller' = [caller EXCEPT ![Run(w)] = NotCalling]
  /\ UNCHANGED <<clocks, wire, inFlight, applied, power, profileFence, facts, profileTrouble>>

\* With the lease gone the placement goes, and the card is parked, at once or after
\* the linger.
Released(w) ==
  /\ caller[Run(w)].pc = "releasing"
  /\ placed' = placed \ {w}
  /\ caller' = [caller EXCEPT ![Run(w)] = NotCalling, ![Park(w)] = Calling]
  /\ UNCHANGED <<clocks, wire, inFlight, running, applied, power, profileFence, facts,
                 profileTrouble>>

\* The error of parking is only logged.
Parked(w) ==
  /\ caller[Park(w)].pc = "back"
  /\ caller' = [caller EXCEPT ![Park(w)] = NotCalling]
  /\ UNCHANGED <<clocks, wire, inFlight, placed, running, applied, power, profileFence,
                 facts, profileTrouble>>
-----------------------------------------------------------------------------
(* Telemetry, sessions and restarts *)

\* Telemetry takes up the note of a managed node, unless it did so already or a
\* failed idle has still to wait.
TakeUpIdle ==
  /\ power.pending /\ ~power.reconciling /\ ~power.later
  /\ power' = [power EXCEPT !.reconciling = TRUE, !.seen = power.generation]
  /\ UNCHANGED <<clocks, wire, caller, inFlight, placed, running, applied, profileFence,
                 facts, profileTrouble>>

\* Mutant: the note is dropped whatever happened since it was taken up.
DropAnyNote(settled) ==
  power' = [power EXCEPT !.reconciling = FALSE, !.pending = @ /\ ~settled,
                         !.later = @ /\ ~settled]

\* The note goes when it was settled and is still the one taken up.
DropNote(settled) ==
  LET same == settled /\ power.generation = power.seen IN
  power' = [power EXCEPT !.reconciling = FALSE, !.pending = @ /\ ~same, !.later = @ /\ ~same]

RunningRows == {w \in Placements : caller[Run(w)].pc \notin {"none", "admitted"}}

\* The node and the rows are read: without them the note stays; a running row
\* drops it, its release will park the card; otherwise idle is sent.
ReadRows ==
  /\ power.reconciling /\ caller[Telemetry].pc = "none"
  /\ \/ /\ ProfileMeets("faults") /\ DropNote(FALSE) /\ UNCHANGED <<applied, caller>>
     \/ /\ RunningRows # {} /\ DropNote(TRUE)
        /\ UNCHANGED <<applied, caller, profileTrouble>>
     \/ /\ RunningRows = {} /\ applied' = "none"
        /\ caller' = [caller EXCEPT ![Telemetry] = Calling]
        /\ UNCHANGED <<power, profileTrouble>>
  /\ UNCHANGED <<clocks, wire, inFlight, placed, running, profileFence, facts>>

IdleReconciled ==
  /\ caller[Telemetry].pc = "back"
  /\ caller' = [caller EXCEPT ![Telemetry] = NotCalling]
  /\ DropNote(caller[Telemetry].answer # "error")
  /\ UNCHANGED <<clocks, wire, inFlight, placed, running, applied, profileFence, facts,
                 profileTrouble>>

\* The thirty seconds after a failed idle pass.
RetryTimePasses ==
  /\ power.later /\ power' = [power EXCEPT !.later = FALSE]
  /\ UNCHANGED <<clocks, wire, caller, inFlight, placed, running, applied, profileFence,
                 facts, profileTrouble>>

\* A session registers the node's cards, its end withdraws them.
SetManagedGPUPerformance(managed) ==
  /\ ProfileMeets("sessions") /\ (power.managed => ~managed)
  /\ power' = [power EXCEPT !.managed = managed, !.generation = @ + 1,
                            !.pending = managed, !.later = FALSE, !.overlooked = FALSE]
  /\ applied' = "none"
  /\ UNCHANGED <<clocks, wire, caller, inFlight, placed, running, profileFence, facts>>

\* A refresh of a target of the card.
FactsChange ==
  /\ ProfileMeets("facts") /\ facts' = facts + 1
  /\ UNCHANGED <<clocks, wire, caller, inFlight, placed, running, applied, power, profileFence>>

\* The controller restarts and knows nothing; its commands may still be on the wire.
ProfilesLost ==
  /\ ProfileMeets("restarts")
  /\ caller' = [p \in Callers |-> NotCalling] /\ inFlight' = Nobody
  /\ placed' = {} /\ running' = {} /\ applied' = "none" /\ power' = Unmanaged
  /\ UNCHANGED <<clocks, wire, profileFence, facts>>

CallerSteps(p) ==
  \/ EnterProfile(p) \/ TakeMarker(p) \/ CheckApplied(p) \/ CheckPlacements(p)
  \/ SendProfile(p) \/ SendAgain(p) \/ PublishProfile(p)

\* What happens by itself once it can.
ProfileProgress ==
  \/ \E p \in Callers : CallerSteps(p)
  \/ \E c \in wire : NodeSetsProfile(c)
  \/ \E w \in Placements :
       Execute(w) \/ ExecutionStarts(w) \/ EndPlacement(w) \/ Released(w) \/ Parked(w)
  \/ TakeUpIdle \/ ReadRows \/ IdleReconciled \/ RetryTimePasses

ProfileWorld ==
  \/ \E p \in Callers : WaitEnds(p)
  \/ \E c \in wire : CommandLost(c)
  \/ \E w \in Placements : Reserve(w)
  \/ \E managed \in BOOLEAN : SetManagedGPUPerformance(managed)
  \/ FactsChange \/ ProfilesLost

ProfilesNext == ProfileProgress \/ ProfileWorld

ProfilesSpec == ProfilesInit(ProfileLimits) /\ [][ProfilesNext]_profileVars

\* Goroutines, executions, the node, telemetry and time go on; every loop among
\* these steps uses up a fault, so that none can starve another.
ProfileFairness == WF_profileVars(ProfileProgress)

-----------------------------------------------------------------------------
(* Properties *)

\* A placement that started on an answered active command runs with active clocks:
\* no parking of an earlier release, reconciliation of telemetry or late idle
\* command of a call that gave up slows it down.
ActiveWhileRunning == running # {} => clocks.profile = "active"

\* A managed card without placements is parked in the end, although idle commands
\* fail, are lost or race with placements that come and go, unless the node keeps an
\* intent only an operator can settle, or the node of an idle command could not be
\* looked up, which the code takes for success.
CardIsParked ==
  []<>(\/ placed # {} \/ ~power.managed \/ clocks.profile = "idle"
       \/ clocks.blocked \/ power.overlooked)
=============================================================================
