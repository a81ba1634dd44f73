------------------------------ MODULE MCNodeDisk ------------------------------
(* One node agent.  Each scenario spends its bounds on one part: the command  *)
(* state file, the checkpoint bundles, the warm models, or the control channel. *)
EXTENDS NodeAgent

MCRecoveries == {[gen |-> g, epoch |-> e] : g \in 1..2, e \in {"e1", "e2"}}

Proof(n, fence) == [kind |-> "proof", n |-> n, fence |-> fence, gen |-> 1]
Frame(max, reserve, ceiling, adapters, proof) ==
  [ready |-> TRUE, max |-> max, reserve |-> reserve, ceiling |-> ceiling,
   adapters |-> adapters, proof |-> proof]

MCRegisterFrames ==
  {Frame(2, 1, 0, {"a", "b"}, NoFrame), Frame(1, 0, 1, {"a"}, NoFrame),
   Frame(0, 0, 2, {"a"}, NoFrame),
   Frame(2, 0, 0, {"a"}, Proof(1, 1)), Frame(2, 0, 0, {"a"}, Proof(2, 2))}

MCRefreshFrames ==
  {Frame(1, Absent, Absent, {"b"}, NoFrame),
   Frame(Absent, 0, 2, {"a"}, NoFrame),
   Frame(Absent, Absent, 2, {"a"}, Proof(1, 1)),
   Frame(Absent, Absent, 2, {"a"}, Proof(3, 1)),
   Frame(Absent, Absent, 2, {"a"}, Proof(4, 2))}

Calm == [fails |-> 0, kills |-> 0, damage |-> 0, saves |-> 0, configs |-> {}]
Storms == {[Calm EXCEPT !.fails = 2, !.kills = 2, !.saves = 3,
                        !.configs = MCRecoveries],
           [Calm EXCEPT !.fails = 1, !.kills = 2, !.saves = 3, !.damage = 1,
                        !.configs = MCRecoveries]}

NoWork == <<>>
Work ==
  {[a |-> <<Save("o1", "A", "a"), Finish("r1", "o1", "A", "a"),
            Finish("r1", "o1", "A", "a"), Save("o3", "A", "a"),
            Finish("r3", "o3", "A", "a")>>,
    b |-> <<Save("o2", "B", "b"), Finish("r2", "o2", "B", "b")>>],
   [a |-> <<Save("o1", "A", "a")>>,
    b |-> <<Save("o2", "B", "b"), Finish("r2", "o2", "B", "b")>>,
    c |-> <<Save("o4", "B", "c")>>, d |-> <<Save("o5", "A", "d")>>]}

Offline == [sessions |-> 0, drops |-> 0, fails |-> 0, restarts |-> 0,
            drains |-> 0, refreshes |-> 0, expiries |-> 0, ticks |-> 0,
            proofs |-> FALSE]
Links ==
  {[Offline EXCEPT !.sessions = 3, !.drops = 1, !.refreshes = 1],
   [Offline EXCEPT !.sessions = 2, !.drops = 1, !.fails = 1, !.refreshes = 1,
                   !.drains = 1],
   [Offline EXCEPT !.sessions = 2, !.drops = 1, !.fails = 1, !.ticks = 3],
   [Offline EXCEPT !.sessions = 2, !.fails = 1, !.restarts = 2],
   [Offline EXCEPT !.sessions = 2, !.fails = 1, !.refreshes = 1,
                   !.restarts = 1, !.expiries = 1, !.proofs = TRUE],
   [Offline EXCEPT !.sessions = 2, !.refreshes = 2, !.restarts = 1,
                   !.expiries = 1, !.proofs = TRUE]}

Cold == [sessions |-> 0, commands |-> 0, models |-> {"a", "b", "c"}, faults |-> 0,
         changes |-> 0, reloads |-> 0, lives |-> 1]
Warmth == {[Cold EXCEPT !.sessions = 2, !.commands = 2, !.models = {"a"},
                        !.faults = 2, !.changes = 1],
           [Cold EXCEPT !.sessions = 2, !.commands = 2, !.models = {"a", "c"},
                        !.faults = 1, !.reloads = 1]}
Use == {[Cold EXCEPT !.sessions = 1, !.commands = 3, !.faults = 1],
        [Cold EXCEPT !.sessions = 1, !.commands = 3, !.models = {"a"},
                     !.faults = 1, !.reloads = 1]}
MCSize == [a |-> 1, b |-> 1, c |-> 2]

Scenario(st, work, disks, ram, link) ==
  [state |-> st, lives |-> work, disk |-> disks, warm |-> ram, link |-> link]
OneKill == [Calm EXCEPT !.kills = 1]

Scenarios ==
  {Scenario(s, NoWork, 0, Cold, Offline) : s \in Storms}
  \union {Scenario(OneKill, w, 2, Cold, Offline) : w \in Work}
  \union {Scenario(OneKill, NoWork, 0, w, Offline) : w \in Warmth}
  \union {Scenario(Calm, NoWork, 0, w, Offline) : w \in Use}
  \union {Scenario(Calm, NoWork, 0, Cold, l) : l \in Links}
  \union {Scenario(OneKill, NoWork, 0, Cold, [Offline EXCEPT !.sessions = 2,
                                                             !.ticks = 3])}

MCOwners == {"A", "B"}
ASSUME WorkInOrder == \A c \in Scenarios : InOrder(c.lives, MCOwners)

Init == AgentInit(Scenarios, MCOwners)
Spec == Init /\ [][AgentNext]_agentVars /\ AgentFairness
================================================================================
