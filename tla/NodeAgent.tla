------------------------------ MODULE NodeAgent ------------------------------
(***************************************************************************)
(* A node agent process and what hangs on its life: the command state file  *)
(* it must have loaded to work, the checkpoint bundles on its disk, the     *)
(* models it keeps warm in RAM, and the control channel over which it       *)
(* reports whether it is ready (internal/nodeagent/agent.go, runOnce).  A   *)
(* kill of the agent interrupts all four at once.                           *)
(***************************************************************************)
EXTENDS CommandStateFile, CheckpointOwners, WarmRam, NodeSessions

agentVars == <<stateVars, ownerVars, warmVars, sessionVars>>

\* runOnce dials only with a command processor that initialised.
AgentConnects(s) ==
  /\ proc.up /\ ~proc.init /\ At("idle")
  /\ AcceptSession(s)
  /\ UNCHANGED <<stateVars, ownerVars, warmVars>>

\* Every frame carries the readiness of this moment: Ready().
AgentSends(s) ==
  /\ proc.up
  /\ NodeSends(s, Ready /\ ~block)
  /\ UNCHANGED <<stateVars, ownerVars, warmVars>>

\* executeCheckpoint runs in the one command goroutine of a ready agent.
AgentCheckpoints ==
  /\ Ready
  /\ CheckpointCommand
  /\ UNCHANGED <<stateVars, warmVars, sessionVars>>

\* Warm commands and their reconciliation need the same goroutine.
AgentWarms ==
  /\ Ready
  /\ WarmCommand \/ WarmReconcile
  /\ UNCHANGED <<stateVars, ownerVars, sessionVars>>

AgentKilled ==
  /\ Kill
  /\ OwnersLost
  /\ WarmLost
  /\ ConnectionsLost

AgentInit(scenarios, owners) ==
  \E c \in scenarios :
    /\ StateInit({c.state})
    /\ OwnersInit(owners, {c.lives}, {c.disk})
    /\ WarmInit({c.warm})
    /\ SessionsInit({c.link})

AgentNext ==
  \/ StateStep /\ UNCHANGED <<ownerVars, warmVars, sessionVars>>
  \/ AgentCheckpoints \/ AgentWarms
  \/ WarmWorld /\ UNCHANGED <<stateVars, ownerVars, sessionVars>>
  \/ EntryAges /\ UNCHANGED <<stateVars, warmVars, sessionVars>>
  \/ \E s \in DOMAIN sessions : AgentConnects(s) \/ AgentSends(s)
  \/ ControllerStep /\ UNCHANGED <<stateVars, ownerVars, warmVars>>
  \/ AgentKilled

\* The monitor's ticker runs on in the controller.
AgentFairness == WF_agentVars(Sweeps /\ UNCHANGED <<stateVars, ownerVars, warmVars>>)
====
