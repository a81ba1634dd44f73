--------------------------- MODULE GpuProfilesProofs ---------------------------
(***************************************************************************)
(* A placement keeps active clocks, for any number of placements, commands, *)
(* faults, sessions and restarts.                                           *)
(***************************************************************************)
EXTENDS GpuProfiles, TLAPS

PCs == {"none", "admitted", "enter", "wait", "cached", "placements", "send", "sent",
        "answered", "back", "runs", "ends", "releasing"}
CallState == [pc : PCs, fence : Nat, facts : Nat, attempt : Nat,
              answer : {"none", "ok", "error", "skipped", "unmanaged"}]
Command == [by : Callers, fence : Nat]

TypeOK ==
  /\ clocks \in [profile : {"active", "idle"}, fence : Nat, blocked : BOOLEAN]
  /\ wire \in SUBSET Command
  /\ caller \in [Callers -> CallState]
  /\ inFlight \in Callers \cup {Nobody}
  /\ placed \in SUBSET Placements
  /\ running \in SUBSET Placements
  /\ profileFence \in Nat
  /\ facts \in Nat

\* powerProfileInFlight: whoever is between taking the marker and giving it back
\* is the one it names, so that at most one caller is.
HoldsMarker(p) == caller[p].pc \in {"cached", "placements", "send", "sent", "answered"}
OneAtATime == \A p \in Callers : HoldsMarker(p) => inFlight = p

\* Past the look at the placements, up to the answer.
Commanding(p) == caller[p].pc \in {"send", "sent", "answered"}

\* No command and no node is ahead of gpuCommandFences; the command that is
\* awaited is the newest one.
FencesInOrder ==
  /\ clocks.fence <= profileFence
  /\ \A c \in wire : c.fence <= profileFence
  /\ \A p \in Callers : caller[p].pc = "sent" => caller[p].fence = profileFence

\* A placement is counted from its reservation until it is released.
PlacementsCounted ==
  /\ \A w \in Placements : caller[Run(w)].pc # "none" => w \in placed
  /\ \A w \in running : caller[Run(w)].pc = "runs"

\* The node has answered this placement's active command.
Secured(w) ==
  \/ w \in running
  \/ caller[Run(w)].pc \in {"answered", "back"} /\ caller[Run(w)].answer = "ok"

\* From then on the clocks are active, no idle command on the wire can pass the
\* node's fence, and no caller is about to send one.
SecuredStaysActive ==
  \A w \in Placements : Secured(w) =>
    /\ clocks.profile = "active"
    /\ \A c \in wire : Profile(c.by) = "idle" => c.fence <= clocks.fence
    /\ \A p \in Callers : Profile(p) = "idle" => ~Commanding(p)

IInv == TypeOK /\ OneAtATime /\ FencesInOrder /\ PlacementsCounted /\ SecuredStaysActive

\* The callers are told apart, and only placements ask for active clocks.
LEMMA CallersDistinct ==
  /\ \A w \in Placements : Run(w) \in Callers /\ Park(w) \in Callers
  /\ Telemetry \in Callers /\ Nobody \notin Callers
  /\ \A w, v \in Placements : (Run(w) = Run(v) => w = v) /\ Run(w) # Park(v)
  /\ \A w \in Placements : Run(w) # Telemetry /\ Park(w) # Telemetry
  /\ \A w \in Placements : Profile(Run(w)) = "active" /\ Profile(Park(w)) = "idle"
  /\ Profile(Telemetry) = "idle"
  /\ \A p \in Callers : /\ Profile(p) \in {"active", "idle"}
                        /\ Profile(p) = "active" => \E w \in Placements : p = Run(w)
  BY DEF Callers, Run, Park, Telemetry, Nobody, Profile

LEMMA CallStates ==
  /\ NotCalling \in CallState /\ NotCalling.pc = "none"
  /\ Calling \in CallState /\ Calling.pc = "enter"
  BY DEF NotCalling, Calling, CallState, PCs

LEMMA InitIInv == ProfilesInit(ProfileLimits) => IInv
<1> SUFFICES ASSUME ProfilesInit(ProfileLimits) PROVE IInv
  OBVIOUS
<1>1. TypeOK
  BY CallStates DEF ProfilesInit, TypeOK
<1>2. \A p \in Callers : caller[p].pc = "none"
  BY CallStates DEF ProfilesInit
<1>3. OneAtATime /\ FencesInOrder
  BY <1>2 DEF ProfilesInit, OneAtATime, HoldsMarker, FencesInOrder
<1>4. PlacementsCounted /\ SecuredStaysActive
  BY <1>2, CallersDistinct DEF ProfilesInit, PlacementsCounted, SecuredStaysActive, Secured
<1> QED BY <1>1, <1>3, <1>4 DEF IInv

\* One caller makes a step of setGPUPerformanceProfile that sends nothing.  The
\* conditions say what such a step may not do: work without the marker, forget its
\* placement, take somebody else's marker, or go on to an idle command while a
\* placement holds the card.
LEMMA CallerMoves ==
  ASSUME IInv, NEW p \in Callers,
         UNCHANGED <<clocks, wire, placed, running, profileFence, facts>>,
         caller' \in [Callers -> CallState], inFlight' \in Callers \cup {Nobody},
         \A q \in Callers : q # p => caller'[q] = caller[q],
         inFlight' # inFlight => inFlight = Nobody \/ inFlight = p,
         HoldsMarker(p)' => inFlight' = p,
         caller[p].pc \notin {"none", "runs"}, caller'[p].pc \notin {"none", "sent"},
         \A w \in Placements : p = Run(w) /\ Secured(w)' => Secured(w),
         Commanding(p)' /\ ~Commanding(p) => Profile(p) = "active" \/ placed = {}
  PROVE  IInv'
<1>1. TypeOK'
  BY DEF IInv, TypeOK
<1>2. OneAtATime'
  BY CallersDistinct DEF IInv, OneAtATime, HoldsMarker
<1>3. FencesInOrder'
  BY DEF IInv, FencesInOrder
<1>4. PlacementsCounted'
  BY CallersDistinct DEF IInv, TypeOK, PlacementsCounted
<1>5. \A w \in Placements : Secured(w)' => Secured(w) /\ w \in placed
  <2> TAKE w \in Placements
  <2>1. CASE p = Run(w)
    BY <2>1 DEF IInv, PlacementsCounted
  <2>2. CASE p # Run(w)
    BY <2>2, CallersDistinct DEF IInv, PlacementsCounted, Secured
  <2> QED BY <2>1, <2>2
<1>6. \A q \in Callers : Commanding(q)' /\ ~Commanding(q) => q = p
  BY DEF Commanding
<1>7. SecuredStaysActive'
  BY <1>5, <1>6 DEF IInv, SecuredStaysActive
<1> QED BY <1>1, <1>2, <1>3, <1>4, <1>7 DEF IInv

\* What a caller's step writes: its place, and with it perhaps its answer.
LEMMA CallerWrites ==
  ASSUME TypeOK, NEW p \in Callers, NEW pc \in PCs,
         NEW answer \in {"none", "ok", "error", "skipped", "unmanaged"},
         \/ caller' = [caller EXCEPT ![p].pc = pc, ![p].answer = answer]
         \/ caller' = [caller EXCEPT ![p].pc = pc] /\ answer = caller[p].answer
  PROVE  /\ caller' \in [Callers -> CallState]
         /\ \A q \in Callers : q # p => caller'[q] = caller[q]
         /\ caller'[p].pc = pc /\ caller'[p].answer = answer
  BY DEF TypeOK, CallState

LEMMA CallerPreserves ==
  ASSUME IInv, NEW p \in Callers,
         \/ EnterProfile(p) \/ TakeMarker(p) \/ CheckApplied(p) \/ CheckPlacements(p)
         \/ SendAgain(p) \/ PublishProfile(p) \/ WaitEnds(p)
  PROVE  IInv'
<1> USE DEF IInv
<1>a. caller[p].answer \in {"none", "ok", "error", "skipped", "unmanaged"}
  BY DEF TypeOK, CallState
<1>1. CASE EnterProfile(p)
  <2>1. PICK pc \in {"wait", "back"} :
          caller' = [caller EXCEPT ![p].pc = pc, ![p].answer = "unmanaged"]
    BY <1>1 DEF EnterProfile
  <2>2. /\ UNCHANGED <<clocks, wire, inFlight, placed, running, profileFence, facts>>
        /\ caller[p].pc = "enter"
    BY <1>1 DEF EnterProfile
  <2>3. /\ caller' \in [Callers -> CallState]
        /\ \A q \in Callers : q # p => caller'[q] = caller[q]
        /\ caller'[p].pc = pc /\ caller'[p].answer = "unmanaged"
    BY <2>1, CallerWrites, Zenon DEF PCs
  <2>4. \A w \in Placements : p = Run(w) /\ Secured(w)' => Secured(w)
    BY <2>2, <2>3 DEF Secured
  <2> QED BY <2>2, <2>3, <2>4, CallerMoves DEF TypeOK, HoldsMarker, Commanding
<1>2. CASE TakeMarker(p)
  <2>1. CASE inFlight = Nobody /\ inFlight' = p /\ Goes(p, "cached")
    <3>1. UNCHANGED <<clocks, wire, placed, running, profileFence, facts>> /\ caller[p].pc = "wait"
      BY <1>2 DEF TakeMarker
    <3>2. /\ caller' \in [Callers -> CallState]
          /\ \A q \in Callers : q # p => caller'[q] = caller[q]
          /\ caller'[p].pc = "cached"
      BY <1>a, <2>1, CallerWrites, ZenonT(40) DEF PCs, Goes
    <3>3. \A w \in Placements : p = Run(w) /\ Secured(w)' => Secured(w)
      BY <3>1, <3>2 DEF Secured
    <3> QED BY <2>1, <3>1, <3>2, <3>3, CallerMoves DEF HoldsMarker, Commanding
  <2>2. CASE /\ caller' = [caller EXCEPT ![p].pc = "back", ![p].answer = "error"]
             /\ UNCHANGED inFlight
    <3>1. UNCHANGED <<clocks, wire, placed, running, profileFence, facts>> /\ caller[p].pc = "wait"
      BY <1>2 DEF TakeMarker
    <3>2. /\ caller' \in [Callers -> CallState]
          /\ \A q \in Callers : q # p => caller'[q] = caller[q]
          /\ caller'[p].pc = "back" /\ caller'[p].answer = "error"
      BY <2>2, CallerWrites, Zenon DEF PCs
    <3>3. \A w \in Placements : p = Run(w) /\ Secured(w)' => Secured(w)
      BY <3>1, <3>2 DEF Secured
    <3> QED BY <2>2, <3>1, <3>2, <3>3, CallerMoves DEF TypeOK, HoldsMarker, Commanding
  <2> QED BY <1>2, <2>1, <2>2 DEF TakeMarker
\* The three steps that leave the placements behind, with or without the marker.
<1>3. ASSUME caller[p].pc \in {"cached", "placements"}, Skips(p),
             UNCHANGED <<clocks, wire, placed, running, profileFence, facts>>
      PROVE  IInv'
  <2>1. inFlight = p
    BY <1>3 DEF OneAtATime, HoldsMarker
  <2>2. /\ caller' \in [Callers -> CallState]
        /\ \A q \in Callers : q # p => caller'[q] = caller[q]
        /\ caller'[p].pc = "back" /\ caller'[p].answer = "skipped" /\ inFlight' = Nobody
    BY <1>3, CallerWrites, Zenon DEF PCs, Skips
  <2>3. \A w \in Placements : p = Run(w) /\ Secured(w)' => Secured(w)
    BY <1>3, <2>2 DEF Secured
  <2> QED BY <1>3, <2>1, <2>2, <2>3, CallerMoves DEF HoldsMarker, Commanding
<1>4. ASSUME NEW pc \in {"placements", "send"}, HoldsMarker(p), Goes(p, pc),
             UNCHANGED <<clocks, wire, inFlight, placed, running, profileFence, facts>>,
             pc = "send" => Commanding(p) \/ Profile(p) = "active" \/ placed = {}
      PROVE  IInv'
  <2>1. inFlight = p /\ caller[p].pc \notin {"none", "runs"}
    BY <1>4 DEF OneAtATime, HoldsMarker
  <2>2. /\ caller' \in [Callers -> CallState]
        /\ \A q \in Callers : q # p => caller'[q] = caller[q]
        /\ caller'[p].pc = pc
    BY <1>a, <1>4, CallerWrites, ZenonT(40) DEF PCs, Goes
  <2>3. \A w \in Placements : p = Run(w) /\ Secured(w)' => Secured(w)
    BY <1>4, <2>2 DEF Secured
  <2> QED BY <1>4, <2>1, <2>2, <2>3, CallerMoves DEF TypeOK, HoldsMarker, Commanding
<1>5. CASE CheckApplied(p)
  BY <1>3, <1>4, <1>5, SMTT(20) DEF CheckApplied, HoldsMarker
<1>6. CASE CheckPlacements(p)
  BY <1>3, <1>4, <1>6, CallersDistinct, SMTT(20) DEF CheckPlacements, HoldsMarker
<1>7. CASE SendAgain(p)
  BY <1>4, <1>7 DEF SendAgain, HoldsMarker, Commanding
<1>8. CASE PublishProfile(p)
  <2>1. PICK answer \in {"ok", "error"} :
          /\ caller' = [caller EXCEPT ![p].pc = "back", ![p].answer = answer]
          /\ answer = "ok" => caller[p].answer = "ok"
    BY <1>8, Zenon DEF PublishProfile
  <2>2. /\ UNCHANGED <<clocks, wire, placed, running, profileFence, facts>>
        /\ caller[p].pc = "answered" /\ inFlight' = Nobody /\ inFlight = p
    BY <1>8 DEF PublishProfile, OneAtATime, HoldsMarker
  <2>3. /\ caller' \in [Callers -> CallState]
        /\ \A q \in Callers : q # p => caller'[q] = caller[q]
        /\ caller'[p].pc = "back" /\ caller'[p].answer = answer
    BY <2>1, CallerWrites, Zenon DEF PCs
  <2>4. \A w \in Placements : p = Run(w) /\ Secured(w)' => Secured(w)
    BY <2>1, <2>2, <2>3 DEF Secured
  <2> QED BY <2>2, <2>3, <2>4, CallerMoves DEF HoldsMarker, Commanding
<1>9. CASE WaitEnds(p)
  <2>1. /\ caller' = [caller EXCEPT ![p].pc = "answered", ![p].answer = "error"]
        /\ UNCHANGED <<clocks, wire, inFlight, placed, running, profileFence, facts>>
        /\ caller[p].pc = "sent" /\ inFlight = p
    BY <1>9 DEF WaitEnds, OneAtATime, HoldsMarker
  <2>2. /\ caller' \in [Callers -> CallState]
        /\ \A q \in Callers : q # p => caller'[q] = caller[q]
        /\ caller'[p].pc = "answered" /\ caller'[p].answer = "error"
    BY <2>1, CallerWrites, Zenon DEF PCs
  <2>3. \A w \in Placements : p = Run(w) /\ Secured(w)' => Secured(w)
    BY <2>1, <2>2 DEF Secured
  <2> QED BY <2>1, <2>2, <2>3, CallerMoves DEF TypeOK, HoldsMarker, Commanding
<1> QED BY <1>1, <1>2, <1>5, <1>6, <1>7, <1>8, <1>9

\* What sending writes: the place, the command's fence and the facts it relies on.
LEMMA SenderWrites ==
  ASSUME TypeOK, NEW p \in Callers, NEW m \in Nat, NEW f \in Nat, NEW n \in Nat,
         caller' = [caller EXCEPT ![p].pc = "sent", ![p].fence = m,
                                  ![p].facts = f, ![p].attempt = n]
  PROVE  /\ caller' \in [Callers -> CallState]
         /\ \A q \in Callers : q # p => caller'[q] = caller[q]
         /\ caller'[p].pc = "sent" /\ caller'[p].fence = m
<1>1. "sent" \in PCs
  BY DEF PCs
<1>2. caller' = [caller EXCEPT ![p] = [caller[p] EXCEPT !.pc = "sent", !.fence = m,
                                                      !.facts = f, !.attempt = n]]
  BY Zenon DEF TypeOK
<1>3. caller[p] \in CallState
  BY DEF TypeOK
<1>4. [caller[p] EXCEPT !.pc = "sent", !.fence = m, !.facts = f, !.attempt = n] \in CallState
  BY <1>1, <1>3, Zenon DEF CallState
<1> QED BY <1>2, <1>3, <1>4 DEF TypeOK, CallState

\* The new command is newer than everything sent before; when it asks for idle
\* clocks, no placement was secured, or its sender would not have come so far.
LEMMA SendPreserves ==
  ASSUME IInv, NEW p \in Callers, SendProfile(p)
  PROVE  IInv'
<1> USE DEF IInv
<1>1. /\ UNCHANGED <<clocks, inFlight, placed, running, facts>>
      /\ caller[p].pc = "send" /\ profileFence' = profileFence + 1
      /\ wire' = wire \cup {[by |-> p, fence |-> profileFence']}
  BY DEF SendProfile
<1>2. profileFence \in Nat /\ profileFence' \in Nat /\ caller[p].attempt + 1 \in Nat
  BY <1>1 DEF TypeOK, CallState
<1>3. /\ caller' \in [Callers -> CallState]
      /\ \A q \in Callers : q # p => caller'[q] = caller[q]
      /\ caller'[p].pc = "sent" /\ caller'[p].fence = profileFence'
  BY <1>2, SenderWrites, Zenon DEF SendProfile, TypeOK
<1>4. TypeOK'
  BY <1>1, <1>2, <1>3 DEF TypeOK, Command
<1>5. inFlight = p
  BY <1>1 DEF OneAtATime, HoldsMarker
<1>6. OneAtATime'
  BY <1>1, <1>3, <1>5 DEF OneAtATime, HoldsMarker
<1>7. FencesInOrder'
  <2>1. \A q \in Callers : caller'[q].pc = "sent" => q = p
    BY <1>1, <1>3, <1>5 DEF OneAtATime, HoldsMarker
  <2> QED BY <1>1, <1>2, <1>3, <2>1 DEF FencesInOrder, TypeOK, Command
<1>8. PlacementsCounted'
  BY <1>1, <1>3, CallersDistinct DEF PlacementsCounted, TypeOK
<1>9. \A w \in Placements : Secured(w)' => Secured(w)
  BY <1>1, <1>3, CallersDistinct DEF Secured
<1>10. \A q \in Callers : Commanding(q)' => Commanding(q)
  BY <1>1, <1>3 DEF Commanding
<1>11. SecuredStaysActive'
  <2> SUFFICES ASSUME NEW w \in Placements, Secured(w)'
               PROVE  /\ clocks'.profile = "active"
                      /\ \A c \in wire' : Profile(c.by) = "idle" => c.fence <= clocks'.fence
                      /\ \A q \in Callers : Profile(q) = "idle" => ~Commanding(q)'
    BY DEF SecuredStaysActive
  <2>1. /\ clocks.profile = "active"
        /\ \A c \in wire : Profile(c.by) = "idle" => c.fence <= clocks.fence
        /\ \A q \in Callers : Profile(q) = "idle" => ~Commanding(q)
    BY <1>9 DEF SecuredStaysActive
  <2>2. Profile(p) # "idle"
    BY <1>1, <2>1 DEF Commanding
  <2> QED BY <1>1, <1>10, <2>1, <2>2
<1> QED BY <1>4, <1>6, <1>7, <1>8, <1>11

\* An answer reaches the caller that awaits this command, or nobody.
LEMMA AnswerWrites ==
  ASSUME IInv, NEW c \in wire, NEW answer \in {"ok", "error"}, Answers(c, answer)
  PROVE  /\ caller' \in [Callers -> CallState]
         /\ \A q \in Callers : caller'[q] # caller[q] =>
              /\ q = c.by /\ caller[q].pc = "sent" /\ caller[q].fence = c.fence
              /\ caller'[q].pc = "answered" /\ caller'[q].answer = answer
<1>1. c \in Command /\ c.by \in Callers
  BY DEF IInv, TypeOK, Command
<1>2. CASE caller[c.by].pc = "sent" /\ caller[c.by].fence = c.fence
  <2>1. caller' = [caller EXCEPT ![c.by].pc = "answered", ![c.by].answer = answer]
    BY <1>2 DEF Answers
  <2>2. /\ caller' \in [Callers -> CallState]
        /\ \A q \in Callers : q # c.by => caller'[q] = caller[q]
        /\ caller'[c.by].pc = "answered" /\ caller'[c.by].answer = answer
    BY <1>1, <2>1, CallerWrites, Zenon DEF IInv, PCs
  <2> QED BY <1>2, <2>2
<1>3. CASE ~(caller[c.by].pc = "sent" /\ caller[c.by].fence = c.fence)
  BY <1>3 DEF Answers, IInv, TypeOK
<1> QED BY <1>2, <1>3

\* What an answer leaves in order by itself.
LEMMA AnswerKeeps ==
  ASSUME IInv, NEW c \in wire, NEW answer \in {"ok", "error"}, Answers(c, answer),
         wire' = wire \ {c}, UNCHANGED <<inFlight, placed, running, profileFence, facts>>,
         clocks' \in [profile : {"active", "idle"}, fence : Nat, blocked : BOOLEAN],
         clocks'.fence \in {clocks.fence, c.fence}
  PROVE  /\ TypeOK' /\ OneAtATime' /\ FencesInOrder' /\ PlacementsCounted'
         /\ \A q \in Callers : Commanding(q)' => Commanding(q)
         /\ \A w \in Placements : Secured(w)' =>
              Secured(w) \/ (answer = "ok" /\ c.by = Run(w) /\ caller[c.by].pc = "sent"
                             /\ caller[c.by].fence = c.fence)
<1> USE DEF IInv
<1>1. /\ caller' \in [Callers -> CallState]
      /\ \A q \in Callers : caller'[q] # caller[q] =>
           /\ q = c.by /\ caller[q].pc = "sent" /\ caller[q].fence = c.fence
           /\ caller'[q].pc = "answered" /\ caller'[q].answer = answer
  BY AnswerWrites
<1>2. TypeOK'
  BY <1>1 DEF TypeOK
<1>3. OneAtATime'
  BY <1>1 DEF OneAtATime, HoldsMarker
<1>4. FencesInOrder'
  BY <1>1 DEF FencesInOrder
<1>5. PlacementsCounted'
  <2>1. \A w \in Placements : caller'[Run(w)].pc # "none" => w \in placed'
    BY <1>1, CallersDistinct DEF PlacementsCounted
  <2>2. \A w \in running' : caller'[Run(w)].pc = "runs"
    <3> TAKE w \in running'
    <3>1. caller[Run(w)].pc = "runs" /\ Run(w) \in Callers
      BY CallersDistinct DEF PlacementsCounted, TypeOK
    <3> QED BY <1>1, <3>1
  <2> QED BY <2>1, <2>2 DEF PlacementsCounted
<1>6. \A q \in Callers : Commanding(q)' => Commanding(q)
  BY <1>1 DEF Commanding
<1>7. ASSUME NEW w \in Placements, Secured(w)', ~Secured(w)
      PROVE  /\ answer = "ok" /\ c.by = Run(w) /\ caller[c.by].pc = "sent"
             /\ caller[c.by].fence = c.fence
  BY <1>1, <1>7, CallersDistinct DEF Secured
<1> QED BY <1>2, <1>3, <1>4, <1>5, <1>6, <1>7

\* The node runs, refuses or botches a command, or it is lost.  An idle command
\* that passes the fence meets no secured placement; an active one that is awaited
\* is the newest, and its caller has the marker.
LEMMA CommandPreserves ==
  ASSUME IInv, NEW c \in wire, NodeSetsProfile(c) \/ CommandLost(c)
  PROVE  IInv'
<1> USE DEF IInv
<1>1. /\ UNCHANGED <<inFlight, placed, running, profileFence, facts>> /\ wire' = wire \ {c}
      /\ c \in Command /\ c.by \in Callers /\ c.fence \in Nat
      /\ clocks.fence \in Nat /\ Profile(c.by) \in {"active", "idle"}
      /\ clocks \in [profile : {"active", "idle"}, fence : Nat, blocked : BOOLEAN]
  BY CallersDistinct DEF NodeSetsProfile, CommandLost, TypeOK, Command
<1>2. PICK answer \in {"ok", "error"} :
        /\ Answers(c, answer)
        /\ \/ clocks' = clocks /\ answer = "error"
           \/ /\ c.fence > clocks.fence
              /\ \E profile \in {clocks.profile, Profile(c.by)}, blocked \in BOOLEAN :
                   clocks' = [profile |-> profile, fence |-> c.fence, blocked |-> blocked]
              /\ answer = "ok" => clocks'.profile = Profile(c.by)
  <2>1. CASE CommandLost(c)
    BY <2>1 DEF CommandLost
  <2>2. CASE NodeSetsProfile(c) /\ (clocks.blocked \/ c.fence <= clocks.fence)
    BY <2>2 DEF NodeSetsProfile
  <2>3. CASE NodeSetsProfile(c) /\ ~(clocks.blocked \/ c.fence <= clocks.fence)
    <3>1. c.fence > clocks.fence
      BY <1>1, <2>3
    <3>2. CASE clocks' = [clocks EXCEPT !.profile = Profile(c.by), !.fence = c.fence]
               /\ Answers(c, "ok")
      <4>1. clocks' = [profile |-> Profile(c.by), fence |-> c.fence, blocked |-> clocks.blocked]
        BY <1>1, <3>2, Zenon
      <4>2. clocks.blocked \in BOOLEAN
        BY <1>1
      <4> QED BY <3>1, <3>2, <4>1, <4>2, Zenon
    <3>3. CASE /\ \E profile \in {clocks.profile, Profile(c.by)} :
                    clocks' = [profile |-> profile, fence |-> c.fence, blocked |-> TRUE]
               /\ Answers(c, "error")
      BY <3>1, <3>3, Zenon
    <3> QED BY <2>3, <3>2, <3>3 DEF NodeSetsProfile
  <2> QED BY <2>1, <2>2, <2>3
<1>3. /\ clocks' \in [profile : {"active", "idle"}, fence : Nat, blocked : BOOLEAN]
      /\ clocks'.fence \in {clocks.fence, c.fence} /\ clocks'.fence >= clocks.fence
  BY <1>1, <1>2
<1>4. /\ TypeOK' /\ OneAtATime' /\ FencesInOrder' /\ PlacementsCounted'
      /\ \A q \in Callers : Commanding(q)' => Commanding(q)
      /\ \A w \in Placements : Secured(w)' =>
           Secured(w) \/ (answer = "ok" /\ c.by = Run(w) /\ caller[c.by].pc = "sent"
                          /\ caller[c.by].fence = c.fence)
  BY <1>1, <1>2, <1>3, AnswerKeeps
<1>5. SecuredStaysActive'
  <2> SUFFICES ASSUME NEW w \in Placements, Secured(w)'
               PROVE  /\ clocks'.profile = "active"
                      /\ \A d \in wire' : Profile(d.by) = "idle" => d.fence <= clocks'.fence
                      /\ \A q \in Callers : Profile(q) = "idle" => ~Commanding(q)'
    BY DEF SecuredStaysActive
  <2>1. CASE Secured(w)
    <3>1. /\ clocks.profile = "active"
          /\ \A d \in wire : Profile(d.by) = "idle" => d.fence <= clocks.fence
          /\ \A q \in Callers : Profile(q) = "idle" => ~Commanding(q)
      BY <2>1 DEF SecuredStaysActive
    <3>2. clocks'.profile = "active"
      <4>1. CASE clocks' = clocks
        BY <3>1, <4>1
      <4>2. CASE clocks' # clocks
        <5>1. c.fence > clocks.fence
          BY <1>2, <4>2
        <5>2. Profile(c.by) = "active"
          BY <1>1, <3>1, <5>1
        <5> QED BY <1>2, <3>1, <4>2, <5>2
      <4> QED BY <4>1, <4>2
    <3>3. ASSUME NEW d \in wire', Profile(d.by) = "idle"
          PROVE  d.fence <= clocks'.fence
      <4>1. d \in wire /\ d.fence \in Nat /\ clocks'.fence \in Nat
        BY <1>1, <1>3 DEF TypeOK, Command
      <4> QED BY <1>1, <1>3, <3>1, <3>3, <4>1
    <3> QED BY <1>4, <3>1, <3>2, <3>3
  <2>2. CASE ~Secured(w)
    <3>1. /\ answer = "ok" /\ c.by = Run(w) /\ caller[c.by].pc = "sent"
          /\ caller[c.by].fence = c.fence
      BY <1>4, <2>2
    <3>2. clocks'.profile = "active" /\ clocks'.fence = c.fence
      BY <1>2, <3>1, CallersDistinct
    <3>3. c.fence = profileFence /\ inFlight = Run(w)
      BY <1>1, <3>1, SMTT(20) DEF FencesInOrder, OneAtATime, HoldsMarker
    <3>4. \A q \in Callers : Profile(q) = "idle" => ~Commanding(q)'
      BY <1>4, <3>3, CallersDistinct DEF OneAtATime, HoldsMarker, Commanding
    <3>5. \A d \in wire' : d.fence <= clocks'.fence
      BY <1>1, <3>2, <3>3 DEF FencesInOrder
    <3> QED BY <3>2, <3>4, <3>5
  <2> QED BY <2>1, <2>2
<1> QED BY <1>4, <1>5

\* Steps outside setGPUPerformanceProfile: nobody gets the marker, nothing is sent,
\* and no placement is secured that was not before.
LEMMA OutsidePreserves ==
  ASSUME IInv, UNCHANGED <<clocks, wire, inFlight, profileFence>>, facts' \in Nat,
         caller' \in [Callers -> CallState],
         placed' \in SUBSET Placements, running' \in SUBSET Placements,
         \A q \in Callers : HoldsMarker(q)' => caller'[q] = caller[q],
         PlacementsCounted', \A w \in Placements : Secured(w)' => Secured(w)
  PROVE  IInv'
<1> USE DEF IInv
<1>1. TypeOK'
  BY DEF TypeOK
<1>2. OneAtATime'
  BY DEF OneAtATime, HoldsMarker
<1>3. FencesInOrder'
  BY DEF FencesInOrder, HoldsMarker
<1>4. \A q \in Callers : Commanding(q)' => Commanding(q)
  BY DEF Commanding, HoldsMarker
<1>5. SecuredStaysActive'
  BY <1>4 DEF SecuredStaysActive
<1> QED BY <1>1, <1>2, <1>3, <1>5

\* The steps of a placement.
LEMMA PlacementPreserves ==
  ASSUME IInv, NEW w \in Placements,
         \/ Reserve(w) \/ Execute(w) \/ ExecutionStarts(w) \/ EndPlacement(w)
         \/ Released(w) \/ Parked(w)
  PROVE  IInv'
<1> USE DEF IInv
<1>1. /\ Run(w) \in Callers /\ Park(w) \in Callers /\ Run(w) # Park(w)
      /\ caller \in [Callers -> CallState] /\ placed \in SUBSET Placements
      /\ running \in SUBSET Placements
      /\ caller[Run(w)].answer \in {"none", "ok", "error", "skipped", "unmanaged"}
      /\ UNCHANGED <<clocks, wire, inFlight, profileFence, facts>> /\ facts' \in Nat
  BY CallersDistinct DEF TypeOK, CallState, Reserve, Execute, ExecutionStarts,
     EndPlacement, Released, Parked
<1>2. CASE Reserve(w)
  <2>1. /\ caller' \in [Callers -> CallState]
        /\ \A q \in Callers : q # Run(w) => caller'[q] = caller[q]
        /\ caller'[Run(w)].pc = "admitted"
    BY <1>1, <1>2, CallerWrites, ZenonT(40) DEF Reserve, Goes, PCs
  <2>2. caller[Run(w)].pc = "none" /\ placed' = placed \cup {w} /\ running' = running
    BY <1>2, Zenon DEF Reserve
  <2>3. PlacementsCounted'
    BY <1>1, <2>1, <2>2, CallersDistinct, Zenon DEF PlacementsCounted
  <2>4. \A v \in Placements : Secured(v)' => Secured(v)
    BY <2>1, <2>2, CallersDistinct DEF Secured
  <2> QED BY <1>1, <2>1, <2>2, <2>3, <2>4, OutsidePreserves DEF HoldsMarker
<1>3. CASE Execute(w)
  <2>1. /\ caller' = [caller EXCEPT ![Run(w)] = Calling] /\ caller[Run(w)].pc = "admitted"
        /\ placed' = placed /\ running' = running
    BY <1>3 DEF Execute
  <2>2. /\ caller' \in [Callers -> CallState]
        /\ \A q \in Callers : q # Run(w) => caller'[q] = caller[q]
        /\ caller'[Run(w)].pc = "enter"
    BY <1>1, <2>1, CallStates
  <2>3. PlacementsCounted'
    BY <1>1, <2>1, <2>2, CallersDistinct DEF PlacementsCounted
  <2>4. \A v \in Placements : Secured(v)' => Secured(v)
    BY <2>1, <2>2, CallersDistinct DEF Secured
  <2> QED BY <1>1, <2>1, <2>2, <2>3, <2>4, OutsidePreserves DEF HoldsMarker
<1>4. CASE ExecutionStarts(w)
  <2>1. PICK pc \in {"ends", "runs"} :
          Goes(Run(w), pc) /\ (caller[Run(w)].answer = "ok" => pc = "runs")
    BY <1>4 DEF ExecutionStarts
  <2>2. /\ caller' \in [Callers -> CallState]
        /\ \A q \in Callers : q # Run(w) => caller'[q] = caller[q]
        /\ caller'[Run(w)].pc = pc
    BY <1>1, <2>1, CallerWrites, ZenonT(40) DEF Goes, PCs
  <2>3. /\ caller[Run(w)].pc = "back" /\ placed' = placed
        /\ running' = IF caller[Run(w)].answer = "ok" THEN running \cup {w} ELSE running
    BY <1>4 DEF ExecutionStarts
  <2>4. running' \in SUBSET Placements
    BY <1>1, <2>3
  <2>5. PlacementsCounted'
    BY <1>1, <2>1, <2>2, <2>3, CallersDistinct, SMTT(20) DEF PlacementsCounted
  <2>6. \A v \in Placements : Secured(v)' => Secured(v)
    BY <2>2, <2>3, CallersDistinct DEF Secured
  <2> QED BY <1>1, <2>2, <2>3, <2>4, <2>5, <2>6, OutsidePreserves, SMTT(20) DEF HoldsMarker
<1>5. CASE EndPlacement(w)
  <2>1. /\ caller' \in [Callers -> CallState]
        /\ \A q \in Callers : q # Run(w) => caller'[q] = caller[q]
        /\ \/ caller'[Run(w)].pc = "releasing" /\ placed' = placed
           \/ caller'[Run(w)].pc = "none" /\ placed' = placed \ {w}
    <3>1. CASE Goes(Run(w), "releasing") /\ UNCHANGED placed
      BY <1>1, <3>1, CallerWrites, Zenon DEF Goes, PCs
    <3>2. CASE placed' = placed \ {w} /\ caller' = [caller EXCEPT ![Run(w)] = NotCalling]
      BY <1>1, <3>2, CallStates
    <3> QED BY <1>5, <3>1, <3>2 DEF EndPlacement
  <2>2. running' = running \ {w} /\ placed' \in SUBSET Placements
    BY <1>1, <1>5, <2>1 DEF EndPlacement
  <2>3. PlacementsCounted'
    <3>1. ASSUME NEW v \in Placements, caller'[Run(v)].pc # "none" PROVE v \in placed'
      BY <1>5, <2>1, <3>1, CallersDistinct, SMTT(20) DEF PlacementsCounted, EndPlacement
    <3>2. ASSUME NEW v \in running' PROVE caller'[Run(v)].pc = "runs"
      BY <1>1, <2>1, <2>2, <3>2, CallersDistinct, SMTT(20) DEF PlacementsCounted
    <3> QED BY <3>1, <3>2 DEF PlacementsCounted
  <2>4. \A v \in Placements : Secured(v)' => Secured(v)
    BY <2>1, <2>2, CallersDistinct DEF Secured
  <2> QED BY <1>1, <2>1, <2>2, <2>3, <2>4, OutsidePreserves DEF HoldsMarker
<1>6. CASE Released(w)
  <2>1. /\ caller' = [caller EXCEPT ![Run(w)] = NotCalling, ![Park(w)] = Calling]
        /\ caller[Run(w)].pc = "releasing" /\ placed' = placed \ {w} /\ running' = running
    BY <1>6 DEF Released
  <2>2. /\ caller' \in [Callers -> CallState]
        /\ \A q \in Callers : q \notin {Run(w), Park(w)} => caller'[q] = caller[q]
        /\ caller'[Run(w)].pc = "none" /\ caller'[Park(w)].pc = "enter"
    BY <1>1, <2>1, CallStates, SMTT(20)
  <2>3. PlacementsCounted'
    BY <1>1, <2>1, <2>2, CallersDistinct DEF PlacementsCounted
  <2>4. \A v \in Placements : Secured(v)' => Secured(v)
    BY <2>1, <2>2, CallersDistinct DEF Secured
  <2> QED BY <1>1, <2>1, <2>2, <2>3, <2>4, OutsidePreserves DEF HoldsMarker
<1>7. CASE Parked(w)
  <2>1. /\ caller' = [caller EXCEPT ![Park(w)] = NotCalling]
        /\ placed' = placed /\ running' = running
    BY <1>7 DEF Parked
  <2>2. /\ caller' \in [Callers -> CallState]
        /\ \A q \in Callers : q # Park(w) => caller'[q] = caller[q]
        /\ caller'[Park(w)].pc = "none"
    BY <1>1, <2>1, CallStates, SMTT(20)
  <2>3. PlacementsCounted'
    BY <1>1, <2>1, <2>2, CallersDistinct DEF PlacementsCounted
  <2>4. \A v \in Placements : Secured(v)' => Secured(v)
    BY <2>1, <2>2, CallersDistinct DEF Secured
  <2> QED BY <1>1, <2>1, <2>2, <2>3, <2>4, OutsidePreserves DEF HoldsMarker
<1> QED BY <1>2, <1>3, <1>4, <1>5, <1>6, <1>7

\* Telemetry, the node's sessions and its facts.
LEMMA TelemetryPreserves ==
  ASSUME IInv,
         \/ TakeUpIdle \/ ReadRows \/ IdleReconciled \/ RetryTimePasses \/ FactsChange
         \/ \E managed \in BOOLEAN : SetManagedGPUPerformance(managed)
  PROVE  IInv'
<1> USE DEF IInv
<1>1. /\ UNCHANGED <<clocks, wire, inFlight, placed, running, profileFence>>
      /\ \/ caller' = caller
         \/ caller' = [caller EXCEPT ![Telemetry] = Calling] /\ caller[Telemetry].pc = "none"
         \/ caller' = [caller EXCEPT ![Telemetry] = NotCalling]
  BY Zenon DEF TakeUpIdle, ReadRows, IdleReconciled, RetryTimePasses, FactsChange,
     SetManagedGPUPerformance
<1>2. facts' \in Nat
  <2>1. facts' = facts \/ facts' = facts + 1
    BY Zenon DEF TakeUpIdle, ReadRows, IdleReconciled, RetryTimePasses, FactsChange,
       SetManagedGPUPerformance
  <2> QED BY <2>1 DEF TypeOK
<1>3. /\ caller' \in [Callers -> CallState]
      /\ \A q \in Callers : q # Telemetry => caller'[q] = caller[q]
      /\ caller'[Telemetry] = caller[Telemetry] \/ caller'[Telemetry].pc \in {"none", "enter"}
  BY <1>1, CallStates, CallersDistinct DEF TypeOK
<1>4. placed' \in SUBSET Placements /\ running' \in SUBSET Placements
  BY <1>1 DEF TypeOK
<1>5. PlacementsCounted'
  BY <1>1, <1>3, <1>4, CallersDistinct DEF PlacementsCounted
<1>6. \A w \in Placements : Secured(w)' => Secured(w)
  BY <1>1, <1>3, CallersDistinct DEF Secured
<1>7. \A q \in Callers : HoldsMarker(q)' => caller'[q] = caller[q]
  BY <1>3 DEF HoldsMarker
<1> QED BY <1>1, <1>2, <1>3, <1>4, <1>5, <1>6, <1>7, OutsidePreserves

\* A restarted controller has no placement, and its fences go on from the clock.
LEMMA RestartPreserves ==
  ASSUME IInv, ProfilesLost
  PROVE  IInv'
<1>1. \A q \in Callers : caller'[q].pc = "none"
  BY CallStates DEF ProfilesLost
<1>2. TypeOK'
  BY CallStates DEF IInv, TypeOK, ProfilesLost
<1>3. OneAtATime' /\ FencesInOrder'
  BY <1>1 DEF IInv, ProfilesLost, OneAtATime, HoldsMarker, FencesInOrder
<1>4. PlacementsCounted' /\ SecuredStaysActive'
  BY <1>1, CallersDistinct DEF ProfilesLost, PlacementsCounted, SecuredStaysActive, Secured
<1> QED BY <1>2, <1>3, <1>4 DEF IInv

LEMMA NextIInv == IInv /\ [ProfilesNext]_profileVars => IInv'
<1> SUFFICES ASSUME IInv, [ProfilesNext]_profileVars PROVE IInv'
  OBVIOUS
<1>1. CASE \E p \in Callers : CallerSteps(p) \/ WaitEnds(p)
  BY <1>1, CallerPreserves, SendPreserves DEF CallerSteps
<1>2. CASE \E c \in wire : NodeSetsProfile(c) \/ CommandLost(c)
  BY <1>2, CommandPreserves
<1>3. CASE \E w \in Placements :
             \/ Reserve(w) \/ Execute(w) \/ ExecutionStarts(w) \/ EndPlacement(w)
             \/ Released(w) \/ Parked(w)
  BY <1>3, PlacementPreserves
<1>4. CASE \/ TakeUpIdle \/ ReadRows \/ IdleReconciled \/ RetryTimePasses \/ FactsChange
           \/ \E managed \in BOOLEAN : SetManagedGPUPerformance(managed)
  BY <1>4, TelemetryPreserves
<1>5. CASE ProfilesLost
  BY <1>5, RestartPreserves
<1>6. CASE UNCHANGED profileVars
  BY <1>6 DEF profileVars, IInv, TypeOK, OneAtATime, HoldsMarker, FencesInOrder,
     PlacementsCounted, SecuredStaysActive, Secured, Commanding
<1> QED BY <1>1, <1>2, <1>3, <1>4, <1>5, <1>6 DEF ProfilesNext, ProfileProgress, ProfileWorld

LEMMA SpecIInv == ProfilesSpec => []IInv
<1> QED BY InitIInv, NextIInv, PTL DEF ProfilesSpec

\* A placement that started on an answered active command runs with active clocks,
\* whatever parking goroutines, reconciliations and commands of calls that gave up
\* are about: the marker of setGPUPerformanceProfile and the fences the node
\* compares are enough, with any number of placements, faults and restarts.
THEOREM PlacementsRunActive == ProfilesSpec => []ActiveWhileRunning
<1>1. IInv => ActiveWhileRunning
  BY DEF IInv, TypeOK, SecuredStaysActive, Secured, ActiveWhileRunning
<1> QED BY SpecIInv, <1>1, PTL

\* powerProfileInFlight is a lock: between taking the marker and giving it back a
\* caller is the one it names, also past timeouts, retries and early returns.
THEOREM MarkerIsExclusive == ProfilesSpec => []OneAtATime
<1>1. IInv => OneAtATime
  BY DEF IInv
<1> QED BY SpecIInv, <1>1, PTL

=============================================================================
