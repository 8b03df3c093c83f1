---- MODULE SceneBarrier ----
(***************************************************************************)
(* How a running session leaves the shared menus and starts a track        *)
(* (direct_session.cpp, "gameplay handoff" and "gameplay barrier", with    *)
(* the coordinator of runtime_netplay.cpp that drives them).               *)
(*                                                                         *)
(* Every machine runs the same game on the same committed inputs, so all   *)
(* of them load the same track after the same confirm press; but they load *)
(* at different moments and a few frames apart.  The handoff closes the    *)
(* input epoch of the menus at one boundary frame that Player 1 chooses.   *)
(* The barrier then takes everybody through the stages                     *)
(*   Prepare / Ready      the scene number of Player 1 is adopted,         *)
(*   Baseline / State     his frame-zero state is installed and            *)
(*   StateAcknowledge     acknowledged,                                    *)
(*   Arm / Armed          the new input epoch is opened,                   *)
(*   Go                   the first authored tick may run,                 *)
(* and the finish of a race takes everybody out of it again: Begin,        *)
(* Acknowledge, Resume.                                                    *)
(*                                                                         *)
(* The network: sent holds every datagram ever sent, and any of them may   *)
(* be handed to its addressee at any time, any number of times or never.   *)
(* That is loss, delay, duplication and reordering at once; the code's     *)
(* retransmissions are what makes delivery fair (Repeated, Fairness).      *)
(*                                                                         *)
(* The frame ledger appears by what it promises (FrameLedger): a guest     *)
(* consumes a frame of its input epoch only once Player 1 committed it,    *)
(* and Player 1 is at most Lead frames ahead of the slowest guest.         *)
(***************************************************************************)
EXTENDS Integers, FiniteSets

CONSTANTS Host,         \* Player 1
          Guests,       \* the other racers of the launch descriptor
          None,         \* an empty std::optional
          Scenes,       \* bound: the number of track loads
          Programmes,   \* the programmes of loads the game may go through
          MapOf,        \* the map of each load (racer count included)
          SceneFrames,  \* frames the game plays before the next load
          Lead,         \* how far the ledger lets Player 1 run ahead
          Slack,        \* bound: frames between the press and the load hook
          AcksArrive    \* the transport loses no StateAcknowledge

Node == {Host} \cup Guests

Maps == {MapOf[k] : k \in 1..Scenes}

(* What the players do with a load: a race is run to its finish or left    *)
(* from the pause menu; a cutscene has no racers.                          *)
Kind == {"race", "abandoned", "cutscene"}

ASSUME NodesAssumption == Host \notin Guests /\ None \notin Node /\ Guests # {}
ASSUME LoadsAssumption ==
    /\ Scenes \in Nat \ {0} /\ None \notin Maps
    /\ Programmes \subseteq [1..Scenes -> Kind] /\ Programmes # {}
ASSUME FramesAssumption ==
    /\ SceneFrames \in Nat /\ Lead \in Nat \ {0} /\ Slack \in Nat
    /\ Lead < SceneFrames
ASSUME TransportAssumption == AcksArrive \in BOOLEAN

VARIABLES
    cursor,    \* next_commit_frame_
    epoch,     \* input_epoch_
    origin,    \* the frame at which that epoch was opened
    handoff,   \* gameplay_handoff_
    barrier,   \* gameplay_barrier_
    phase,     \* authoritative_phase_active_
    scene,     \* scene_epoch_
    lastHost,  \* last_host_scene_epoch_ of the guests
    snapshot,  \* authoritative_states_[0]
    acks,      \* authoritative_acknowledgements_[0] of Player 1
    transition,\* transition_barrier_
    releases,  \* completed_releases_
    stage,     \* g_gameplay_start.stage and the game around it
    loads,     \* track loads the local game has begun
    programme, \* the kind of each load, the same for every machine
    failed,    \* machines whose session state is Failed
    sent       \* every datagram sent so far

inputVars == <<cursor, epoch, origin>>
stateVars == <<snapshot, acks>>
doneVars == <<transition, releases>>
vars == <<cursor, epoch, origin, handoff, barrier, phase, scene, lastHost,
          snapshot, acks, transition, releases, stage, loads, programme, failed,
          sent>>

Frame == Nat
Epoch == 1..(Scenes + 1)

Handoff == [current : Epoch, resume : Epoch \cup {0}, boundary : Frame,
            suspend : Frame, map : Maps, loading : BOOLEAN, armed : BOOLEAN]

Barrier == [scene : 1..Scenes, map : Maps, ready : SUBSET Node,
            armed : SUBSET Node, synced : BOOLEAN, baseline : BOOLEAN,
            arm : BOOLEAN, go : BOOLEAN]

Transition == [scene : 1..Scenes, frame : Frame, acks : SUBSET Node,
               resumed : BOOLEAN]

ASSUME NoneAssumption == None \notin Handoff \cup Barrier \cup Transition

Stage == {"frontend", "loading", "peers", "baseline", "acks", "go", "racing",
          "finish", "sealing", "results"}

Init ==
    /\ cursor = [n \in Node |-> 0]
    /\ epoch = [n \in Node |-> 1]
    /\ origin = [n \in Node |-> 0]
    /\ handoff = [n \in Node |-> None]
    /\ barrier = [n \in Node |-> None]
    /\ phase = [n \in Node |-> FALSE]
    /\ scene = [n \in Node |-> 0]
    /\ lastHost = [g \in Guests |-> 0]
    /\ snapshot = [n \in Node |-> None]
    /\ acks = {}
    /\ transition = [n \in Node |-> None]
    /\ releases = [n \in Node |-> {}]
    /\ stage = [n \in Node |-> "frontend"]
    /\ loads = [n \in Node |-> 0]
    /\ programme \in Programmes
    /\ failed = {}
    /\ sent = {}

Fail(n) ==
    /\ failed' = failed \cup {n}
    /\ UNCHANGED <<cursor, epoch, origin, handoff, barrier, phase, scene,
                   lastHost, stateVars, doneVars, stage, loads, sent>>

----
(* Datagrams.  A guest's carry its slot, Player 1's go to everybody.       *)

Request(g, h) == [type |-> "Request", slot |-> g, epoch |-> h.current,
                  boundary |-> h.boundary, map |-> h.map]

Suspend(h) == [type |-> "Suspend", slot |-> Host, epoch |-> h.current,
               resume |-> h.resume, boundary |-> h.boundary, map |-> h.map]

Stamp(type, n, s, map) ==
    [type |-> type, slot |-> n, scene |-> s, map |-> map]

Finish(type, n, s, frame) ==
    [type |-> type, slot |-> n, scene |-> s, frame |-> frame]

(* send_gameplay_handoff_locked: the host suspends, a guest requests. *)
HandoffMessage(n, h) == IF n = Host THEN Suspend(h) ELSE Request(n, h)

----
(* The handoff.                                                            *)

(* The two timelines adopt_gameplay_handoff_locked accepts: a request lies *)
(* at or behind the local cursor, an authoritative boundary at or before.  *)
TimelineMatches(n, h) ==
    /\ h.current = epoch[n]
    /\ IF h.resume = 0 THEN h.boundary <= cursor[n]
                       ELSE h.boundary >= cursor[n]

Conflicts(n, h) ==
    /\ handoff[n] # None
    /\ \/ handoff[n].current # h.current
       \/ handoff[n].map # h.map
       \/ 0 \notin {h.resume, handoff[n].resume} /\ handoff[n].resume # h.resume

Adoptable(n, h) == TimelineMatches(n, h) /\ ~Conflicts(n, h)

(* The first frame this machine may not consume in the old epoch. *)
SuspendFrame(n, h, local) ==
    LET old == handoff[n]
    IN  IF old = None
        THEN IF h.resume # 0 \/ local THEN h.boundary ELSE cursor[n]
        ELSE IF h.resume # 0
             THEN IF old.loading THEN old.suspend ELSE h.boundary
             ELSE IF local /\ old.resume = 0 /\ h.boundary < old.suspend
                  THEN h.boundary ELSE old.suspend

Adopted(n, h, local) ==
    LET old == handoff[n]
        authoritative == h.resume # 0 \/ old = None
    IN  [current  |-> h.current,
         resume   |-> IF authoritative THEN h.resume ELSE old.resume,
         boundary |-> IF authoritative THEN h.boundary ELSE old.boundary,
         suspend  |-> SuspendFrame(n, h, local),
         map      |-> h.map,
         loading  |-> local \/ (old # None /\ old.loading),
         armed    |-> old # None /\ old.armed]

Adopt(n, h, local) ==
    handoff' = [handoff EXCEPT ![n] = Adopted(n, h, local)]

\* Mutant: off by one, the boundary itself is still consumed.
SuspendedAfter(n) == handoff[n] # None /\ cursor[n] > handoff[n].suspend

(* gameplay_handoff_suspended and the checks of synchronize_inputs_result. *)
Suspended(n) == handoff[n] # None /\ cursor[n] >= handoff[n].suspend

(* Player 1's frames of a guest's input epoch: when he has opened the next *)
(* one, those below the frame at which he did.                             *)
Committed(g) == IF epoch[g] = epoch[Host] THEN cursor[Host] ELSE origin[Host]

(* host_should_backpressure: a guest still in the old epoch has completed  *)
(* nothing of this one.                                                    *)
MayLead ==
    \A g \in Guests :
        cursor[Host] < Lead + (IF epoch[g] = epoch[Host] THEN cursor[g]
                                                         ELSE origin[Host])

(* One authored tick consumes one committed frame. *)
Consume(n) ==
    /\ n \notin failed
    /\ stage[n] \in {"frontend", "loading", "racing", "results"}
    /\ ~Suspended(n)
    /\ IF n = Host THEN MayLead ELSE cursor[n] < Committed(n)
    /\ cursor[n] < origin[n] + SceneFrames + Slack
    /\ cursor' = [cursor EXCEPT ![n] = @ + 1]
    /\ UNCHANGED <<epoch, origin, handoff, barrier, phase, scene, lastHost,
                   stateVars, doneVars, stage, loads, failed, sent>>

(* What end_authoritative_phase and begin_authoritative_phase clear. *)
ClearAuthority(n) ==
    /\ barrier' = [barrier EXCEPT ![n] = None]
    /\ snapshot' = [snapshot EXCEPT ![n] = None]
    /\ acks' = IF n = Host THEN {} ELSE acks

(* end_authoritative_phase: Player 1 keeps a finish he has resumed. *)
EndAuthority(n) ==
    /\ phase' = [phase EXCEPT ![n] = FALSE]
    /\ ClearAuthority(n)
    /\ transition' = [transition EXCEPT ![n] =
                         IF n = Host /\ @ # None /\ @.resumed THEN @ ELSE None]

(* The native scene is over: a menu, the results, or a race that is left   *)
(* from its pause menu.                                                    *)
SceneOver(n) ==
    /\ \/ stage[n] \in {"frontend", "results"}
       \/ stage[n] = "racing" /\ programme[loads[n]] = "abandoned"
    /\ cursor[n] >= origin[n] + SceneFrames

(* begin_gameplay_level: the game enters level_load_game. *)
BeginLoad(n) ==
    /\ n \notin failed
    /\ SceneOver(n)
    /\ loads[n] < Scenes
    /\ LET h == [current  |-> epoch[n],
                 resume   |-> IF n = Host THEN epoch[n] + 1 ELSE 0,
                 boundary |-> cursor[n],
                 map      |-> MapOf[loads[n] + 1]]
       IN  IF ~Adoptable(n, h) THEN Fail(n)
           ELSE /\ Adopt(n, h, TRUE)
                /\ sent' = sent \cup {HandoffMessage(n, Adopted(n, h, TRUE))}
                /\ EndAuthority(n)
                /\ stage' = [stage EXCEPT ![n] = "loading"]
                /\ loads' = [loads EXCEPT ![n] = @ + 1]
                /\ UNCHANGED <<inputVars, scene, lastHost, releases, failed>>

(* Player 1 receives a guest's request: the boundary is his own cursor. *)
HandleRequest(m) ==
    /\ m.type = "Request"
    /\ m.epoch = epoch[Host] /\ m.boundary <= cursor[Host]
    /\ LET h == [current  |-> epoch[Host], resume |-> epoch[Host] + 1,
                 boundary |-> cursor[Host], map    |-> m.map]
       IN  IF ~Adoptable(Host, h) THEN Fail(Host)
           ELSE /\ Adopt(Host, h, FALSE)
                /\ sent' = sent \cup {Suspend(Adopted(Host, h, FALSE))}
                /\ UNCHANGED <<inputVars, barrier, phase, scene, lastHost,
                               stateVars, doneVars, stage, loads, failed>>

\* Mutant: a boundary that does not apply is an error instead of stale.
HandleAnySuspend(g, m) ==
    /\ m.type = "Suspend"
    /\ LET h == [current  |-> m.epoch, resume |-> m.resume,
                 boundary |-> m.boundary, map |-> m.map]
       IN  IF ~Adoptable(g, h) THEN Fail(g)
           ELSE /\ Adopt(g, h, FALSE)
                /\ UNCHANGED <<inputVars, barrier, phase, scene, lastHost,
                               stateVars, doneVars, stage, loads, failed,
                               sent>>

(* A guest receives Player 1's boundary; one it has passed is ignored. *)
HandleSuspend(g, m) ==
    /\ m.type = "Suspend"
    /\ m.epoch = epoch[g] /\ m.boundary >= cursor[g]
    /\ LET h == [current  |-> m.epoch, resume |-> m.resume,
                 boundary |-> m.boundary, map |-> m.map]
       IN  IF ~Adoptable(g, h) THEN Fail(g)
           ELSE /\ Adopt(g, h, FALSE)
                /\ UNCHANGED <<inputVars, barrier, phase, scene, lastHost,
                               stateVars, doneVars, stage, loads, failed,
                               sent>>

----
(* The barrier: the authored thread.                                       *)

(* complete_gameplay_level: the track is built, authority begins. *)
LevelReady(n) ==
    /\ n \notin failed
    /\ stage[n] = "loading"
    /\ phase' = [phase EXCEPT ![n] = TRUE]
    /\ scene' = [scene EXCEPT ![n] = @ + 1]
    /\ ClearAuthority(n)
    /\ transition' = [transition EXCEPT ![n] = None]
    /\ stage' = [stage EXCEPT ![n] = "peers"]
    /\ UNCHANGED <<inputVars, handoff, lastHost, releases, loads, failed, sent>>

(* The preconditions of poll_gameplay_ready. *)
InHandoff(n) ==
    /\ phase[n] /\ handoff[n] # None /\ handoff[n].loading
    /\ handoff[n].current = epoch[n]
    /\ handoff[n].boundary >= cursor[n]
    /\ handoff[n].map = MapOf[loads[n]]

(* gameplay_barrier_ when this machine has polled. *)
Polled(n) ==
    IF barrier[n] # None
    THEN [barrier[n] EXCEPT !.ready = @ \cup {n}]
    ELSE [scene |-> scene[n], map |-> MapOf[loads[n]], ready |-> {n},
          armed |-> {}, synced |-> n = Host, baseline |-> FALSE,
          arm |-> FALSE, go |-> FALSE]

(* Player 1 polls: Prepare until everybody is ready, then the baseline.    *)
(* The baseline's bytes stand for the map: two loads of one track may give *)
(* the same ones.                                                          *)
HostPollReady ==
    /\ Host \notin failed
    /\ stage[Host] = "peers"
    /\ IF ~InHandoff(Host) THEN Fail(Host)
       ELSE LET b == Polled(Host)
                released == b.ready = Node
            IN  /\ barrier' = [barrier EXCEPT ![Host] =
                                  [b EXCEPT !.baseline = released]]
                /\ sent' = sent \cup
                     (IF released
                      THEN {Stamp("Baseline", Host, scene[Host], b.map),
                            Stamp("State", Host, scene[Host], b.map)}
                      ELSE {Stamp("Prepare", Host, scene[Host], b.map)})
                /\ IF released
                   THEN /\ snapshot' = [snapshot EXCEPT ![Host] = b.map]
                        /\ acks' = {Host}
                        /\ stage' = [stage EXCEPT ![Host] = "acks"]
                   ELSE UNCHANGED <<stateVars, stage>>
                /\ UNCHANGED <<inputVars, handoff, phase, scene, lastHost,
                               doneVars, loads, failed>>

(* A guest polls: nothing until Player 1 has given the new input epoch,    *)
(* Ready once the scene is known, and on with the baseline.                *)
GuestPollReady(g) ==
    /\ g \notin failed
    /\ stage[g] = "peers"
    /\ IF ~InHandoff(g) THEN Fail(g)
       ELSE LET b == Polled(g)
            IN  /\ handoff[g].resume # 0
                /\ barrier' = [barrier EXCEPT ![g] = b]
                /\ sent' = IF b.synced
                           THEN sent \cup {Stamp("Ready", g, scene[g], b.map)}
                           ELSE sent
                /\ stage' = [stage EXCEPT ![g] = IF b.baseline
                                                 THEN "baseline" ELSE @]
                /\ UNCHANGED <<inputVars, handoff, phase, scene, lastHost,
                               stateVars, doneVars, loads, failed>>

(* A guest installs Player 1's state and acknowledges it, once. *)
InstallBaseline(g) ==
    /\ g \notin failed
    /\ stage[g] = "baseline"
    /\ IF ~phase[g] THEN Fail(g)
       ELSE /\ snapshot[g] # None
            /\ sent' = sent \cup {Stamp("StateAck", g, scene[g], snapshot[g])}
            /\ stage' = [stage EXCEPT ![g] = "go"]
            /\ UNCHANGED <<inputVars, handoff, barrier, phase, scene, lastHost,
                           stateVars, doneVars, loads, failed>>

(* poll_authoritative_acknowledgements. *)
PollAcks ==
    /\ Host \notin failed
    /\ stage[Host] = "acks"
    /\ IF ~(/\ phase[Host] /\ barrier[Host] # None
            /\ barrier[Host].scene = scene[Host]
            /\ barrier[Host].baseline /\ ~barrier[Host].arm)
       THEN Fail(Host)
       ELSE /\ acks = Node
            /\ stage' = [stage EXCEPT ![Host] = "go"]
            /\ UNCHANGED <<inputVars, handoff, barrier, phase, scene, lastHost,
                           stateVars, doneVars, loads, failed, sent>>

(* arm_gameplay_handoff_locked: the fresh input epoch starts at the        *)
(* boundary, whatever this machine had left to drain of the old one.       *)
ArmEpoch(n, b) ==
    /\ epoch' = [epoch EXCEPT ![n] = handoff[n].resume]
    /\ cursor' = [cursor EXCEPT ![n] = handoff[n].boundary]
    /\ origin' = [origin EXCEPT ![n] = handoff[n].boundary]
    /\ handoff' = [handoff EXCEPT ![n].armed = TRUE]
    /\ barrier' = [barrier EXCEPT ![n] = [b EXCEPT !.armed = @ \cup {n}]]

MayArm(n) == handoff[n] # None /\ handoff[n].loading /\ handoff[n].resume # 0

\* Mutant: nothing is kept when the barrier is torn down.
Forget(n, release) == UNCHANGED releases

(* remember_release_locked; the 16 entries and two minutes are not reached. *)
Remember(n, release) ==
    releases' = [releases EXCEPT ![n] = @ \cup {release}]

(* complete_gameplay_handoff; a scene without racers closes its authority  *)
(* at once and runs as a menu.                                             *)
Release(n, b) ==
    /\ handoff' = [handoff EXCEPT ![n] = None]
    /\ IF programme[loads[n]] = "cutscene"
       THEN /\ EndAuthority(n)
            /\ stage' = [stage EXCEPT ![n] = "frontend"]
       ELSE /\ barrier' = [barrier EXCEPT ![n] = b]
            /\ stage' = [stage EXCEPT ![n] = "racing"]
            /\ UNCHANGED <<phase, stateVars, transition>>
    /\ Remember(n, <<"gameplay", scene[n], b.map>>)

(* The preconditions of poll_gameplay_resume. *)
MayResume(n) ==
    /\ phase[n] /\ barrier[n] # None /\ barrier[n].synced
    /\ barrier[n].scene = scene[n]
    /\ barrier[n].map = MapOf[loads[n]]
    /\ barrier[n].baseline

\* Mutant: Player 1 does not wait for the guests.
HostArmed(b) == Host \in b.armed

AllArmed(b) == b.armed = Node

(* Player 1 announces Arm and arms himself; when all are armed he goes. *)
HostPollResume ==
    /\ Host \notin failed
    /\ stage[Host] = "go"
    /\ LET b == barrier[Host]
       IN  IF ~MayResume(Host) \/ (~b.arm /\ ~MayArm(Host)) THEN Fail(Host)
           ELSE IF ~b.arm
           THEN /\ ArmEpoch(Host, [b EXCEPT !.arm = TRUE])
                /\ sent' = sent \cup {Stamp("Arm", Host, scene[Host], b.map)}
                /\ UNCHANGED <<phase, scene, lastHost, stateVars, doneVars,
                               stage, loads, failed>>
           ELSE /\ AllArmed(b)
                /\ Release(Host, [b EXCEPT !.go = TRUE])
                /\ sent' = sent \cup {Stamp("Go", Host, scene[Host], b.map)}
                /\ UNCHANGED <<inputVars, scene, lastHost, loads, failed>>

(* A guest arms when Arm was announced and runs when Go was. *)
GuestPollResume(g) ==
    /\ g \notin failed
    /\ stage[g] = "go"
    /\ LET b == barrier[g]
       IN  IF ~MayResume(g) \/ (b.arm /\ g \notin b.armed /\ ~MayArm(g))
           THEN Fail(g)
           ELSE IF b.arm /\ g \notin b.armed
           THEN /\ ArmEpoch(g, b)
                /\ sent' = sent \cup {Stamp("Armed", g, scene[g], b.map)}
                /\ UNCHANGED <<phase, scene, lastHost, stateVars, doneVars,
                               stage, loads, failed>>
           ELSE /\ b.go
                /\ Release(g, b)
                /\ UNCHANGED <<inputVars, scene, lastHost, loads, failed, sent>>

(* end_gameplay_level: the track is unloaded. *)
EndLevel(n) ==
    /\ n \notin failed
    /\ stage[n] \in {"racing", "results"} /\ SceneOver(n)
    /\ EndAuthority(n)
    /\ stage' = [stage EXCEPT ![n] = "frontend"]
    /\ UNCHANGED <<inputVars, handoff, scene, lastHost, releases, loads,
                   failed, sent>>

----
(* The finish of a race: the authored thread.                              *)

(* seal_race_finish: the retail finish hook. *)
ReachFinish(n) ==
    /\ n \notin failed
    /\ stage[n] = "racing" /\ programme[loads[n]] = "race"
    /\ cursor[n] > origin[n]
    /\ stage' = [stage EXCEPT ![n] = "finish"]
    /\ UNCHANGED <<inputVars, handoff, barrier, phase, scene, lastHost,
                   stateVars, doneVars, loads, failed, sent>>

(* begin_finish_seal: Player 1 announces the frame before his cursor, a    *)
(* guest waits for that announcement and takes its frame.                  *)
BeginSeal(n) ==
    /\ n \notin failed
    /\ stage[n] = "finish"
    /\ IF n = Host
       THEN /\ transition' = [transition EXCEPT ![Host] =
                   [scene |-> scene[Host], frame |-> cursor[Host] - 1,
                    acks |-> {Host}, resumed |-> FALSE]]
            /\ sent' = sent \cup
                   {Finish("Begin", Host, scene[Host], cursor[Host] - 1)}
       ELSE /\ transition[n] # None
            /\ UNCHANGED <<transition, sent>>
    /\ IF n # Host /\ transition[n].scene # scene[n] THEN Fail(n)
       ELSE /\ snapshot' = [snapshot EXCEPT ![n] = None]
            /\ acks' = IF n = Host THEN {} ELSE acks
            /\ stage' = [stage EXCEPT ![n] = "sealing"]
            /\ UNCHANGED <<inputVars, handoff, barrier, phase, scene, lastHost,
                           releases, loads, failed>>

(* poll_transition and, when it is ready, complete_finish_seal. *)
PollTransition(n) ==
    /\ n \notin failed
    /\ stage[n] = "sealing"
    /\ IF transition[n].scene # scene[n] THEN Fail(n)
       ELSE LET t == [transition[n] EXCEPT !.acks = @ \cup {n},
                          !.resumed = @ \/ (n = Host /\ transition[n].acks = Node)]
                type == IF n # Host THEN "Acknowledge"
                        ELSE IF t.resumed THEN "Resume" ELSE "Begin"
            IN  /\ transition' = [transition EXCEPT ![n] = t]
                /\ IF t.resumed
                   THEN /\ Remember(n, <<"finish", scene[n], t.frame>>)
                        /\ phase' = [phase EXCEPT ![n] = FALSE]
                        /\ snapshot' = [snapshot EXCEPT ![n] = None]
                        /\ stage' = [stage EXCEPT ![n] = "results"]
                   ELSE UNCHANGED <<releases, phase, snapshot, stage>>
                /\ sent' = IF t.resumed /\ n # Host THEN sent
                           ELSE sent \cup {Finish(type, n, scene[n], t.frame)}
                /\ UNCHANGED <<inputVars, handoff, barrier, scene, lastHost,
                               acks, loads, failed>>

----
(* The barrier: the network worker.                                        *)

(* Player 1 receives Ready or Armed: a scene he has released is answered   *)
(* with Go, whatever has become of its barrier.                            *)
HandleReadyOrArmed(m) ==
    /\ m.type \in {"Ready", "Armed"}
    /\ IF <<"gameplay", m.scene, m.map>> \in releases[Host]
       THEN /\ sent' = sent \cup {Stamp("Go", Host, m.scene, m.map)}
            /\ UNCHANGED barrier
       ELSE LET b == barrier[Host]
            IN  /\ phase[Host] /\ b # None
                /\ m.scene = scene[Host] /\ m.scene = b.scene /\ m.map = b.map
                /\ IF m.type = "Ready"
                   THEN /\ ~b.baseline
                        /\ barrier' = [barrier EXCEPT ![Host].ready =
                                                          @ \cup {m.slot}]
                   ELSE /\ b.baseline /\ b.arm /\ ~b.go
                        /\ barrier' = [barrier EXCEPT ![Host].armed =
                                                          @ \cup {m.slot}]
                /\ UNCHANGED sent
    /\ UNCHANGED <<inputVars, handoff, phase, scene, lastHost, stateVars,
                   doneVars, stage, loads, failed>>

\* Mutant: the scene of the acknowledgement is not compared.
HandleAnyStateAck(m) ==
    /\ m.type = "StateAck"
    /\ phase[Host]
    /\ snapshot[Host] = m.map
    /\ acks' = acks \cup {m.slot}
    /\ UNCHANGED <<inputVars, handoff, barrier, phase, scene, lastHost,
                   snapshot, doneVars, stage, loads, failed, sent>>

(* Player 1 receives an acknowledgement of the state he has published. *)
HandleStateAck(m) ==
    /\ m.type = "StateAck"
    /\ phase[Host]
    /\ m.scene = scene[Host]
    /\ snapshot[Host] = m.map
    /\ acks' = acks \cup {m.slot}
    /\ UNCHANGED <<inputVars, handoff, barrier, phase, scene, lastHost,
                   snapshot, doneVars, stage, loads, failed, sent>>

\* Mutant: any scene number is taken.
NewerOrNot(g, m) == TRUE

(* A scene number Player 1 has not announced to this guest before. *)
Newer(g, m) == m.scene > lastHost[g]

(* A guest receives Prepare: the one point at which it adopts Player 1's   *)
(* scene number, and only a newer one than the last.                       *)
HandlePrepare(g, m) ==
    LET b == barrier[g]
    IN  /\ m.type = "Prepare"
        /\ phase[g] /\ b # None
        /\ IF m.map # b.map
           THEN /\ IF b.synced THEN m.scene = b.scene
                   ELSE /\ handoff[g] # None /\ handoff[g].loading
                        /\ Newer(g, m)
                /\ Fail(g)
           ELSE /\ IF b.synced THEN m.scene = b.scene ELSE Newer(g, m)
                /\ scene' = [scene EXCEPT ![g] = m.scene]
                /\ barrier' = [barrier EXCEPT ![g].scene = m.scene,
                                              ![g].synced = TRUE]
                /\ lastHost' = [lastHost EXCEPT ![g] = m.scene]
                /\ UNCHANGED <<inputVars, handoff, phase, stateVars, doneVars,
                               stage, loads, failed, sent>>

(* A guest receives a later stage of the scene it has adopted. *)
HandleStage(g, m) ==
    LET b == barrier[g]
    IN  /\ m.type \in {"Baseline", "Arm", "Go"}
        /\ phase[g] /\ b # None /\ b.synced
        /\ m.scene = b.scene
        /\ IF m.map # b.map THEN Fail(g)
           ELSE /\ m.scene = scene[g]
                /\ \/ /\ m.type = "Baseline"
                      /\ barrier' = [barrier EXCEPT ![g].baseline = TRUE]
                   \/ /\ m.type = "Arm" /\ b.baseline
                      /\ barrier' = [barrier EXCEPT ![g].arm = TRUE]
                   \/ /\ m.type = "Go" /\ b.baseline /\ b.arm /\ g \in b.armed
                      /\ barrier' = [barrier EXCEPT ![g].go = TRUE]
                /\ UNCHANGED <<inputVars, handoff, phase, scene, lastHost,
                               stateVars, doneVars, stage, loads, failed, sent>>

(* A guest receives the whole of Player 1's frame-zero state: it is taken  *)
(* only between Baseline and Arm of the scene it belongs to.               *)
HandleState(g, m) ==
    LET b == barrier[g]
    IN  /\ m.type = "State"
        /\ phase[g] /\ b # None
        /\ m.scene = scene[g] /\ b.scene = scene[g]
        /\ b.baseline /\ ~b.arm
        /\ snapshot' = [snapshot EXCEPT ![g] = m.map]
        /\ UNCHANGED <<inputVars, handoff, barrier, phase, scene, lastHost,
                       acks, doneVars, stage, loads, failed, sent>>

(* Player 1 receives a guest's Acknowledge.  A finish he has released is   *)
(* answered with Resume; without a finish, or for another one that he has  *)
(* not sealed, the datagram is stale.                                      *)
HandleAcknowledge(m) ==
    LET t == transition[Host]
        answer == Finish("Resume", Host, m.scene, m.frame)
    IN  /\ m.type = "Acknowledge"
        /\ IF <<"finish", m.scene, m.frame>> \in releases[Host]
           THEN /\ sent' = sent \cup {answer}
                /\ UNCHANGED <<inputVars, handoff, barrier, phase, scene,
                               lastHost, stateVars, doneVars, stage, loads,
                               failed>>
           ELSE /\ m.scene = scene[Host]
                /\ IF t = None \/ t.frame # m.frame
                   THEN stage[Host] = "sealing" /\ Fail(Host)
                   ELSE /\ transition' = [transition EXCEPT ![Host].acks =
                                                               @ \cup {m.slot}]
                        /\ sent' = IF t.resumed THEN sent \cup {answer} ELSE sent
                        /\ UNCHANGED <<inputVars, handoff, barrier, phase,
                                       scene, lastHost, stateVars, releases,
                                       stage, loads, failed>>

\* Mutant: Begin already releases the guest.
ResumedByAny(g, m) == TRUE

ResumedBy(g, m) ==
    m.type = "Resume" \/ (transition[g] # None /\ transition[g].resumed)

(* A guest receives Begin or Resume of its scene, and ignores a finish it  *)
(* has left.                                                               *)
HandleTransition(g, m) ==
    LET t == transition[g]
    IN  /\ m.type \in {"Begin", "Resume"}
        /\ m.scene = scene[g]
        /\ <<"finish", m.scene, m.frame>> \notin releases[g]
        /\ IF t # None /\ t.frame # m.frame THEN Fail(g)
           ELSE /\ transition' = [transition EXCEPT ![g] =
                     [scene |-> m.scene, frame |-> m.frame,
                      acks |-> {Host} \cup (IF t = None THEN {} ELSE t.acks),
                      resumed |-> ResumedBy(g, m)]]
                /\ UNCHANGED <<inputVars, handoff, barrier, phase, scene,
                               lastHost, stateVars, releases, stage, loads,
                               failed, sent>>

(* A datagram reaches Player 1 from g, or g from Player 1. *)
Deliver(g, m) ==
    /\ \/ /\ m.slot = g /\ Host \notin failed
          /\ \/ HandleRequest(m)
             \/ HandleReadyOrArmed(m)
             \/ HandleStateAck(m)
             \/ HandleAcknowledge(m)
       \/ /\ m.slot = Host /\ g \notin failed
          /\ \/ HandleSuspend(g, m)
             \/ HandlePrepare(g, m)
             \/ HandleStage(g, m)
             \/ HandleState(g, m)
             \/ HandleTransition(g, m)
    /\ UNCHANGED programme

(* A step of the authored thread. *)
Step(n) ==
    /\ \/ Consume(n)
       \/ BeginLoad(n)
       \/ LevelReady(n)
       \/ EndLevel(n)
       \/ ReachFinish(n)
       \/ BeginSeal(n)
       \/ PollTransition(n)
       \/ n = Host /\ HostPollReady
       \/ n = Host /\ PollAcks
       \/ n = Host /\ HostPollResume
       \/ n \in Guests /\ GuestPollReady(n)
       \/ n \in Guests /\ InstallBaseline(n)
       \/ n \in Guests /\ GuestPollResume(n)
    /\ UNCHANGED programme

Next ==
    \/ \E n \in Node : Step(n)
    \/ \E g \in Guests : \E m \in sent : Deliver(g, m)

Spec == Init /\ [][Next]_vars

----
(* Fairness.  The authored thread is serviced every tick.  A datagram that *)
(* a machine goes on repeating (every 100 ms, or at the checkpoint retry   *)
(* interval) eventually arrives; one that is sent once need not.           *)

Repeated(g, m) ==
    CASE m.type = "Request" ->
           handoff[g] # None /\ handoff[g].resume = 0 /\ m = Request(g, handoff[g])
      [] m.type = "Suspend" -> handoff[Host] # None /\ m = Suspend(handoff[Host])
      [] m.type = "Prepare" -> stage[Host] = "peers" /\ m.scene = scene[Host]
      [] m.type = "Ready" -> stage[g] = "peers" /\ m.scene = scene[g]
      [] m.type \in {"Baseline", "State"} ->
           stage[Host] = "acks" /\ m.scene = scene[Host]
      [] m.type = "StateAck" -> AcksArrive
      [] m.type = "Arm" ->
           /\ barrier[Host] # None /\ m.scene = barrier[Host].scene
           /\ barrier[Host].arm /\ barrier[Host].armed # Node
      [] m.type = "Armed" ->
           /\ barrier[g] # None /\ m.scene = barrier[g].scene
           /\ g \in barrier[g].armed /\ ~barrier[g].go
      [] m.type = "Go" ->          \* the answer to a repeated Armed
           /\ barrier[g] # None /\ m.scene = barrier[g].scene
           /\ g \in barrier[g].armed
           /\ <<"gameplay", m.scene, m.map>> \in releases[Host]
      [] m.type = "Begin" ->
           stage[Host] \in {"finish", "sealing"} /\ m.scene = scene[Host]
      [] m.type = "Acknowledge" -> stage[g] = "sealing" /\ m.scene = scene[g]
      [] m.type = "Resume" ->      \* the answer to a repeated Acknowledge
           stage[g] = "sealing" /\ m.scene = scene[g]

Fairness ==
    /\ \A n \in Node : WF_vars(Step(n))
    /\ \A g \in Guests :
         WF_vars(\E m \in sent : Repeated(g, m) /\ Deliver(g, m))

FairSpec == Spec /\ Fairness

----
(* Properties.                                                             *)

(* Every variable has its type; the acknowledgements are the host's only. *)
TypeOK ==
    /\ cursor \in [Node -> Frame] /\ origin \in [Node -> Frame]
    /\ epoch \in [Node -> Epoch]
    /\ handoff \in [Node -> Handoff \cup {None}]
    /\ barrier \in [Node -> Barrier \cup {None}]
    /\ phase \in [Node -> BOOLEAN]
    /\ scene \in [Node -> 0..Scenes]
    /\ lastHost \in [Guests -> 0..Scenes]
    /\ snapshot \in [Node -> Maps \cup {None}]
    /\ acks \subseteq Node
    /\ transition \in [Node -> Transition \cup {None}]
    /\ releases \in [Node -> SUBSET (({"gameplay"} \X (1..Scenes) \X Maps)
                                \cup ({"finish"} \X (1..Scenes) \X Frame))]
    /\ stage \in [Node -> Stage]
    /\ loads \in [Node -> 0..Scenes]
    /\ programme \in Programmes
    /\ failed \subseteq Node

(* No error path of the handoff or the barrier is ever taken: whatever the *)
(* order in which the machines load and the datagrams arrive, no "did not  *)
(* match the active input timeline", "conflicting tracks", "conflicting    *)
(* gameplay input epochs" or "not ready" ends a healthy session.           *)
NobodyFails == failed = {}

(* One boundary: machines in the same input epoch opened it at the same    *)
(* frame, and while one of them has not, it has consumed no frame of the   *)
(* old epoch at or after that frame (adopt_gameplay_handoff_locked: "names *)
(* the first frame that must not be consumed in the old frontend epoch").  *)
OneBoundary ==
    \A m, n \in Node :
        /\ epoch[m] = epoch[n] => origin[m] = origin[n]
        /\ epoch[m] < epoch[n] => epoch[n] = epoch[m] + 1 /\ cursor[m] <= origin[n]

(* Nobody runs alone: when a machine runs a frame of a scene, every other  *)
(* machine has loaded that scene and opened its input epoch (poll_gameplay *)
(* _resume: Go only after everybody armed).                                *)
NobodyRunsAlone ==
    \A m, n \in Node :
        stage[n] \in {"frontend", "racing", "finish", "sealing", "results"} =>
            loads[m] >= loads[n] /\ epoch[m] >= epoch[n]

(* The input epoch is opened for nobody before Player 1's frame-zero state *)
(* of this very load is installed everywhere: an acknowledgement or a      *)
(* release of an earlier load of the same track does not count.            *)
BaselineFirst ==
    \A m, n \in Node :
        /\ barrier[n] # None /\ barrier[n].arm
        => /\ loads[m] >= loads[n]
           /\ loads[m] = loads[n] =>
                stage[m] \notin {"loading", "peers", "baseline"}

(* Nobody leaves a race alone: when a machine shows the results, every     *)
(* other machine has reached the finish of the same race, so that no race  *)
(* frame or late repair crosses into its teardown (begin_finish_seal).     *)
FinishIsShared ==
    \A m, n \in Node :
        stage[n] = "results" /\ loads[m] = loads[n] =>
            stage[m] \in {"sealing", "results", "frontend"}

(* A guest that has adopted a scene number is in the load of that number   *)
(* at Player 1, and never in one of an earlier scene.                      *)
SceneIsShared ==
    \A g \in Guests :
        barrier[g] # None /\ barrier[g].synced =>
            /\ barrier[g].scene = scene[g]
            /\ scene[g] = loads[g]

(* Every scene starts on every machine: all loads are begun, and the last  *)
(* one is released everywhere.                                             *)
EverySceneStarts ==
    <>(\A n \in Node : /\ loads[n] = Scenes
                       /\ stage[n] \in {"frontend", "racing", "results"})
====
