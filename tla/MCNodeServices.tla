--------------------------- MODULE MCNodeServices ---------------------------
(* Services beside the agent's command path: the root broker's plan rotation, *)
(* the warm keeper, the clocks of a card, and the launch of a checkpoint        *)
(* worker.  They share no state; a behaviour exercises one of them, named by    *)
(* service: a full displacement under four faults of any kind and the beginning *)
(* of a second operation under a higher fence; a keeper of two models, one of   *)
(* them always warm; two placements of one card; a launcher with two stop       *)
(* commands.                                                                    *)
EXTENDS PlanRotation, WarmKeeper, GpuProfiles, CheckpointLaunch

VARIABLE service

MCOps == 1..2
Rotating == [faults |-> 4, redeliveries |-> 2, ops |-> MCOps]
Resting == [faults |-> 0, redeliveries |-> 0, ops |-> {}]
MCLimits == {Rotating, Resting}

NoKeeper == [deployed |-> FALSE, changes |-> 0, demands |-> 0, faults |-> 0, kills |-> 0]
Keepers == {[NoKeeper EXCEPT !.deployed = TRUE, !.changes = 2, !.demands = 1],
            [NoKeeper EXCEPT !.deployed = TRUE, !.changes = 1, !.demands = 1,
                             !.faults = 1, !.kills = 1]}
MCAlways == <<2>>
MCFileSizes == <<2, 2>>

NoCard == [places |-> 0, faults |-> 0, failures |-> 0, facts |-> 0, sessions |-> 0,
           restarts |-> 0]
Cards == {[NoCard EXCEPT !.places = 2, !.faults = 1, !.sessions = 1],
          [NoCard EXCEPT !.places = 1, !.failures = 1, !.facts = 1, !.sessions = 1],
          [NoCard EXCEPT !.places = 1, !.faults = 1, !.sessions = 2, !.restarts = 1]}
MCProfileLimits == Cards \cup {NoCard}

\* Three faults in one lifetime, or two faults in two, at any step.
NoUnit == [faults |-> 0, lives |-> 0]
MCLaunchLimits == {[faults |-> 3, lives |-> 1], [faults |-> 2, lives |-> 2], NoUnit}

MCInit ==
  /\ service \in {"rotation", "keeper", "card", "launch"}
  /\ Init /\ (service = "rotation") = (left = Rotating)
  /\ KeeperInit(IF service = "keeper" THEN Keepers ELSE {NoKeeper}, MCFileSizes)
  /\ ProfilesInit(IF service = "card" THEN Cards ELSE {NoCard})
  /\ LaunchInit /\ (service = "launch") = (lives > 0)
MCNext ==
  /\ UNCHANGED service
  /\ \/ service = "rotation" /\ Next /\ UNCHANGED <<keeperVars, profileVars, launchVars>>
     \/ service = "keeper" /\ KeeperStep /\ UNCHANGED <<vars, profileVars, launchVars>>
     \/ service = "card" /\ ProfilesNext /\ UNCHANGED <<vars, keeperVars, launchVars>>
     \/ service = "launch" /\ LaunchNext /\ UNCHANGED <<vars, keeperVars, profileVars>>
\* A service that is not exercised has nothing to do, so its fairness asks nothing.
MCSpec ==
  /\ MCInit /\ [][MCNext]_<<service, vars, keeperVars, profileVars, launchVars>>
  /\ KeeperFairness /\ ProfileFairness /\ LaunchFairness
=============================================================================
