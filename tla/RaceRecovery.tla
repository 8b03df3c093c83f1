---------------------------- MODULE RaceRecovery ----------------------------
(***************************************************************************)
(* The repair of a race in which a machine's state has drifted away from   *)
(* Player 1's (direct_session.cpp, runtime_netplay.cpp).  Player 1 compares*)
(* digests, chooses a boundary in the future and announces it; every       *)
(* machine stops after exactly that frame, the guests install Player 1's   *)
(* state and acknowledge it, and Player 1 releases everybody.  The race may*)
(* meanwhile reach its finish or be left.                                  *)
(*                                                                         *)
(* A machine's game thread admits a frame, plays it (the native tick and   *)
(* the hooks in it) and then looks after the coordinators; its network     *)
(* thread handles packets in between.  The input ledger is FrameLedger's:  *)
(* a guest can admit a frame once Player 1 has.  The finish barrier is     *)
(* SceneBarrier's: here a machine reads whether the others have reached it.*)
(* The network loses, repeats and reorders: sent only grows and a packet in*)
(* it is handled any number of times or never.                             *)
(***************************************************************************)
EXTENDS Integers, FiniteSets

CONSTANTS Guests,         \* the guests' machines
          Host,           \* Player 1's machine
          None,           \* an empty std::optional
          Lead,           \* how far the ledger lets Player 1 run ahead
          Runway,         \* frames from the decision to the earliest boundary
          Interval,       \* kAuthorityCheckpointInterval
          Digests,        \* kDeterminismHashInterval
          Ends,           \* the frames in which the race may end
          MaxDrifts,      \* bound: how often a guest's state drifts
          MaxRecoveries   \* bound: the recoveries of one race

Node == {Host} \cup Guests

LastFrame == CHOOSE f \in Ends : \A e \in Ends : e <= f

ASSUME RecoveryAssumption ==
    /\ IsFiniteSet(Guests) /\ Guests # {} /\ Host \notin Guests
    /\ Lead \in Nat \ {0} /\ Runway \in Nat \ {0}
    /\ Interval \in Nat \ {0} /\ Digests \in Nat \ {0}
    /\ Ends \subseteq Nat /\ Ends # {} /\ IsFiniteSet(Ends)
    /\ MaxDrifts \in Nat /\ MaxRecoveries \in Nat
    /\ None \notin Nat

VARIABLES
    next,       \* next_commit_frame_
    playing,    \* a frame has been admitted and its native tick is under way
    life,       \* authority_lifecycle_, and g_finish before the seal begins
    recovery,   \* recovery_frame_
    resumed,    \* recovery_resumed_
    acks,       \* Player 1's recovery_acks_
    coord,      \* g_recovery: stage and frame
    states,     \* the recovery states a guest holds (authoritative_states_)
    done,       \* the remembered releases (completed_releases_)
    epoch,      \* rollback_transport_epoch_
    announced,  \* the guests that know of the finish (transition_barrier_)
    ending,     \* the frame in which the race ends, and how
    drifted,    \* the guests whose state is not Player 1's
    failed,     \* the first failure of the session, and where
    sent,       \* every packet sent so far
    \* history and bounds
    installed,  \* <<g, b>>: g has installed Player 1's state of boundary b
    drifts, recoveries

sessionVars == <<recovery, resumed, acks, states, done, epoch, announced>>
gameVars == <<next, playing, life, coord, drifted, drifts>>
vars == <<sessionVars, gameVars, ending, failed, sent, installed, recoveries>>

Frame == 0..(LastFrame + 1)
Boundary == 0..(LastFrame + Runway + Interval)
Idle == [stage |-> "idle", frame |-> 0]

Packet == [type : {"Digest"}, from : Guests, frame : Frame]
     \cup [type : {"RecoveryAck"}, from : Guests, frame : Boundary]
     \cup [type : {"RecoveryBegin", "RecoveryResume", "State"}, frame : Boundary]
     \cup [type : {"TransitionBegin"}, frame : Frame]

Init ==
    /\ next = [p \in Node |-> 0]
    /\ playing = [p \in Node |-> FALSE]
    /\ life = [p \in Node |-> "racing"]
    /\ recovery = [p \in Node |-> None]
    /\ resumed = [p \in Node |-> FALSE]
    /\ acks = {}
    /\ coord = [p \in Node |-> Idle]
    /\ states = [g \in Guests |-> {}]
    /\ done = [p \in Node |-> {}]
    /\ epoch = [p \in Node |-> 1]
    /\ announced = {}
    /\ ending \in [frame : Ends, kind : {"finish", "exit"}]
    /\ drifted = {} /\ drifts = 0
    /\ failed = None
    /\ sent = {}
    /\ installed = {} /\ recoveries = 0

(* fail_locked: a machine that fails takes the session with it.            *)
Fail(p, why) ==
    /\ failed' = [who |-> p, why |-> why]
    /\ UNCHANGED <<sessionVars, gameVars, ending, sent, installed, recoveries>>

(* The lifecycle is Racing until the seal of the finish begins.            *)
Racing(p) == life[p] \in {"racing", "crossed"}
Active(p) == life[p] # "over"

----
(* Player 1 decides.                                                       *)

RoundedUp(f) == ((f + Interval - 1) \div Interval) * Interval

(* Mutant: a recovery is scheduled while another one is under way. *)
MayScheduleAgain == Racing(Host)

MaySchedule == recovery[Host] = None /\ Racing(Host)

BoundaryFor(f) ==
    RoundedUp((IF f > next[Host] THEN f ELSE next[Host]) + Runway)

(* schedule_recovery_locked                                                *)
Schedule(f) ==
    /\ MaySchedule
    /\ recovery' = [recovery EXCEPT ![Host] = BoundaryFor(f)]
    /\ resumed' = [resumed EXCEPT ![Host] = FALSE]
    /\ acks' = {}
    /\ sent' = sent \cup {[type |-> "RecoveryBegin", frame |-> BoundaryFor(f)]}

(* A digest that differs from Player 1's of the same frame, which he has   *)
(* submitted before any guest could admit that frame.  (A digest that      *)
(* agrees only moves last_verified_frame_ and is not modelled.)  The       *)
(* digests of old frames are kept and compared again whenever another of   *)
(* the frame arrives.  A guest's RollbackRecoveryRequest takes the same    *)
(* path.                                                                   *)
HandleDigest(m) ==
    /\ recoveries < MaxRecoveries
    /\ Schedule(m.frame)
    /\ recoveries' = recoveries + 1
    /\ UNCHANGED <<states, done, epoch, announced, gameVars, ending, failed, installed>>

(* Everybody, Player 1 included, has acknowledged boundary b.              *)
Complete(a) == Node \subseteq a

Released(b, a) ==
    /\ acks' = a
    /\ IF Complete(a) /\ ~resumed[Host]
       THEN /\ resumed' = [resumed EXCEPT ![Host] = TRUE]
            /\ done' = [done EXCEPT ![Host] = @ \cup {b}]
            /\ sent' = sent \cup {[type |-> "RecoveryResume", frame |-> b]}
       ELSE UNCHANGED <<resumed, done, sent>>

(* Mutant: the boundary an acknowledgement is about is not looked at. *)
HandleAnyRecoveryAck(m) ==
    /\ recovery[Host] # None
    /\ Released(recovery[Host], acks \cup {m.from})
    /\ UNCHANGED <<recovery, states, epoch, announced, gameVars, ending, failed,
                   installed, recoveries>>

(* A late acknowledgement of a completed recovery is answered with its     *)
(* Resume, which is in sent already.                                       *)
HandleRecoveryAck(m) ==
    /\ m.frame \notin done[Host]
    /\ recovery[Host] = m.frame
    /\ Released(m.frame, acks \cup {m.from})
    /\ UNCHANGED <<recovery, states, epoch, announced, gameVars, ending, failed,
                   installed, recoveries>>

----
(* A guest is told.                                                        *)

(* The frame this machine's game has completed (native_completed_frame_).  *)
Completed(p) == IF playing[p] THEN next[p] - 2 ELSE next[p] - 1

Passed(g, b) == Completed(g) > b \/ next[g] > b + 1

HandleRecoveryBegin(g, m) ==
    /\ Racing(g)
    /\ m.frame \notin done[g]
    /\ recovery[g] # m.frame
    /\ IF recovery[g] # None THEN Fail(g, "conflict")
       ELSE IF Passed(g, m.frame) THEN Fail(g, "passed")
       ELSE /\ recovery' = [recovery EXCEPT ![g] = m.frame]
            /\ resumed' = [resumed EXCEPT ![g] = FALSE]
            /\ UNCHANGED <<acks, states, done, epoch, announced, gameVars, ending,
                           failed, sent, installed, recoveries>>

(* A state without its Begin is kept if it is near the guest's cursor; a   *)
(* rejected one is like a lost one.                                        *)
HandleState(g, m) ==
    /\ Active(g)
    /\ recovery[g] # None => m.frame <= recovery[g]
    /\ states' = [states EXCEPT ![g] = @ \cup {m.frame}]
    /\ UNCHANGED <<recovery, resumed, acks, done, epoch, announced, gameVars,
                   ending, failed, sent, installed, recoveries>>

HandleRecoveryResume(g, m) ==
    /\ recovery[g] = m.frame
    /\ resumed' = [resumed EXCEPT ![g] = TRUE]
    /\ UNCHANGED <<recovery, acks, states, done, epoch, announced, gameVars,
                   ending, failed, sent, installed, recoveries>>

(* Player 1's finish supersedes a repair that is still to come.            *)
HandleTransitionBegin(g, m) ==
    /\ announced' = announced \cup {g}
    /\ resumed' = [resumed EXCEPT ![g] = @ \/ (Racing(g) /\ recovery[g] # None)]
    /\ UNCHANGED <<recovery, acks, states, done, epoch, gameVars, ending, failed,
                   sent, installed, recoveries>>

Deliver(p, m) ==
    \/ m.type = "Digest" /\ p = Host /\ HandleDigest(m)
    \/ m.type = "RecoveryAck" /\ p = Host /\ HandleRecoveryAck(m)
    \/ m.type = "RecoveryBegin" /\ p \in Guests /\ HandleRecoveryBegin(p, m)
    \/ m.type = "State" /\ p \in Guests /\ HandleState(p, m)
    \/ m.type = "RecoveryResume" /\ p \in Guests /\ HandleRecoveryResume(p, m)
    \/ m.type = "TransitionBegin" /\ p \in Guests /\ HandleTransitionBegin(p, m)

----
(* A machine plays.                                                        *)

(* The admission guard of synchronize_inputs_result.                       *)
Parked(p, f) == recovery[p] # None /\ ~resumed[p] /\ f > recovery[p]

(* The ledger: Player 1 commits a frame, within his lead; a guest follows. *)
InLedger(p) ==
    IF p = Host THEN \A g \in Guests : next[Host] - next[g] <= Lead
    ELSE next[p] < next[Host]

(* The boundary is the frame this machine has just completed.              *)
AtBoundary(p) == recovery[p] # None /\ Completed(p) = recovery[p]

Admit(p) ==
    /\ ~playing[p] /\ life[p] = "racing" /\ coord[p] = Idle
    /\ ~Parked(p, next[p])
    /\ InLedger(p)
    /\ next' = [next EXCEPT ![p] = @ + 1]
    /\ playing' = [playing EXCEPT ![p] = TRUE]
    /\ sent' = IF p \in drifted /\ next[p] % Digests = 0
               THEN sent \cup {[type |-> "Digest", from |-> p, frame |-> next[p]]}
               ELSE sent
    /\ UNCHANGED <<sessionVars, life, coord, drifted, drifts, ending, failed,
                   installed, recoveries>>

(* Mutant: Player 1 does not acknowledge his own state. *)
BeginCompletedSilently(p, b) ==
    /\ coord' = [coord EXCEPT ![p] = [stage |-> IF p = Host THEN "resume" ELSE "baseline",
                                      frame |-> b]]
    /\ sent' = IF p = Host THEN sent \cup {[type |-> "State", frame |-> b]} ELSE sent
    /\ UNCHANGED acks

(* begin_completed_recovery: Player 1 publishes his state and acknowledges *)
(* it himself, a guest waits for it.                                       *)
BeginCompleted(p, b) ==
    IF p = Host
    THEN /\ coord' = [coord EXCEPT ![p] = [stage |-> "resume", frame |-> b]]
         /\ acks' = acks \cup {Host}
         /\ sent' = sent \cup {[type |-> "State", frame |-> b]}
    ELSE /\ coord' = [coord EXCEPT ![p] = [stage |-> "baseline", frame |-> b]]
         /\ UNCHANGED <<acks, sent>>

(* The native tick of the frame before next[p] ends; then comes the hook   *)
(* that commits the frame.  A drifted guest's own race may end earlier than*)
(* Player 1's, or not in the same frame.                                   *)
EndsHere(p) == next[p] - 1 = ending.frame

PostHook(p) ==
    IF recovery[p] # None /\ next[p] - 1 = recovery[p]
    THEN BeginCompleted(p, recovery[p])
    ELSE UNCHANGED <<coord, acks, sent>>

PassedHook(p) == recovery[p] # None /\ next[p] - 1 > recovery[p]

Played(p, stage) ==
    /\ playing' = [playing EXCEPT ![p] = FALSE]
    /\ life' = [life EXCEPT ![p] = stage]
    /\ PostHook(p)
    /\ UNCHANGED <<next, recovery, resumed, states, done, epoch, announced, ending,
                   failed, installed, recoveries>>

PlayOn(p) ==
    /\ playing[p] /\ ~PassedHook(p)
    /\ p \in drifted \/ ~EndsHere(p)
    /\ Played(p, "racing")
    /\ UNCHANGED <<drifted, drifts>>

(* State that is not in the ledger takes another value on this machine.    *)
Drift(g) ==
    /\ playing[g] /\ ~PassedHook(g) /\ ~EndsHere(g)
    /\ drifts < MaxDrifts
    /\ Played(g, "racing")
    /\ drifted' = drifted \cup {g}
    /\ drifts' = drifts + 1

(* seal_race_finish: g_recovery is reset, which is idle during a tick; the *)
(* hook that commits the frame is still to come.                           *)
CrossFinish(p) ==
    /\ playing[p] /\ ~PassedHook(p) /\ ending.kind = "finish"
    /\ p \in drifted \/ EndsHere(p)
    /\ Played(p, "crossed")
    /\ UNCHANGED <<drifted, drifts>>

PassBoundary(p) == playing[p] /\ PassedHook(p) /\ Fail(p, "passed")

(* end_gameplay_level: the race is left from the pause menu.  The hook at  *)
(* the end of the frame has nothing to do any more.                        *)
LeaveLevel(p) ==
    /\ playing[p] /\ ending.kind = "exit"
    /\ p \in drifted \/ EndsHere(p)
    /\ IF recovery[p] # None /\ ~resumed[p] THEN Fail(p, "unload")
       ELSE /\ playing' = [playing EXCEPT ![p] = FALSE]
            /\ life' = [life EXCEPT ![p] = "over"]
            /\ coord' = [coord EXCEPT ![p] = Idle]
            /\ recovery' = [recovery EXCEPT ![p] = None]
            /\ resumed' = [resumed EXCEPT ![p] = FALSE]
            /\ acks' = IF p = Host THEN {} ELSE acks
            /\ UNCHANGED <<next, drifted, drifts, states, done, epoch, announced,
                           ending, failed, sent, installed, recoveries>>

----
(* Between two ticks: the finish first, then the recovery.                 *)

(* begin_finish_seal: whatever repair was planned is dropped.              *)
BeginSeal(p) ==
    /\ ~playing[p] /\ life[p] = "crossed"
    /\ p = Host \/ p \in announced
    /\ life' = [life EXCEPT ![p] = "sealing"]
    /\ recovery' = [recovery EXCEPT ![p] = None]
    /\ resumed' = [resumed EXCEPT ![p] = FALSE]
    /\ acks' = IF p = Host THEN {} ELSE acks
    /\ states' = IF p = Host THEN states ELSE [states EXCEPT ![p] = {}]
    /\ sent' = IF p = Host
               THEN sent \cup {[type |-> "TransitionBegin", frame |-> next[p] - 1]}
               ELSE sent
    /\ UNCHANGED <<next, playing, coord, drifted, drifts, done, epoch, announced,
                   ending, failed, installed, recoveries>>

(* complete_finish_seal, after the barrier.                                *)
CompleteSeal(p) ==
    /\ life[p] = "sealing"
    /\ IF p = Host THEN \A g \in Guests : life[g] \in {"sealing", "over"}
       ELSE life[Host] = "over"
    /\ life' = [life EXCEPT ![p] = "over"]
    /\ recovery' = [recovery EXCEPT ![p] = None]
    /\ resumed' = [resumed EXCEPT ![p] = FALSE]
    /\ acks' = IF p = Host THEN {} ELSE acks
    /\ UNCHANGED <<next, playing, coord, drifted, drifts, states, done, epoch,
                   announced, ending, failed, sent, installed, recoveries>>

InTick(p) == ~playing[p] /\ life[p] \in {"racing", "over"}

(* Begin arrived after the hook that would have stopped the machine.       *)
LateBegin(p) ==
    /\ InTick(p) /\ Active(p) /\ coord[p] = Idle /\ AtBoundary(p)
    /\ BeginCompleted(p, recovery[p])
    /\ UNCHANGED <<next, playing, life, drifted, drifts, recovery, resumed, states,
                   done, epoch, announced, ending, failed, installed, recoveries>>

(* A guest's service_recovery: the state is installed and acknowledged.    *)
(* The acknowledgement is repeated until Resume.                           *)
InstallState(g) ==
    /\ InTick(g) /\ coord[g].stage = "baseline"
    /\ IF ~Active(g) THEN Fail(g, "baseline")
       ELSE /\ coord[g].frame \in states[g]
            /\ drifted' = drifted \ {g}
            /\ coord' = [coord EXCEPT ![g].stage = "resume"]
            /\ sent' = sent \cup {[type |-> "RecoveryAck", from |-> g,
                                   frame |-> coord[g].frame]}
            /\ installed' = installed \cup {<<g, coord[g].frame>>}
            /\ UNCHANGED <<sessionVars, next, playing, life, drifts, ending, failed,
                           recoveries>>

(* Mutant: only the guests advance their epoch. *)
NextEpochOfGuests(p) == IF p = Host THEN epoch[p] ELSE epoch[p] + 1

(* Whose packets of the rollback transport this machine reads from now on. *)
NextEpoch(p) == epoch[p] + 1

(* poll_recovery_complete.                                                 *)
PollRecovery(p) ==
    /\ InTick(p) /\ coord[p].stage = "resume"
    /\ IF recovery[p] = None
       THEN coord' = [coord EXCEPT ![p] = Idle] /\ UNCHANGED <<sessionVars, failed>>
       ELSE IF recovery[p] # coord[p].frame
       THEN failed' = [who |-> p, why |-> "different"] /\ UNCHANGED <<sessionVars, coord>>
       ELSE /\ resumed[p]
            /\ coord' = [coord EXCEPT ![p] = Idle]
            /\ done' = [done EXCEPT ![p] = @ \cup {recovery[p]}]
            /\ recovery' = [recovery EXCEPT ![p] = None]
            /\ resumed' = [resumed EXCEPT ![p] = FALSE]
            /\ acks' = IF p = Host THEN {} ELSE acks
            /\ states' = IF p = Host THEN states ELSE [states EXCEPT ![p] = {}]
            /\ epoch' = [epoch EXCEPT ![p] = NextEpoch(p)]
            /\ UNCHANGED <<announced, failed>>
    /\ UNCHANGED <<next, playing, life, drifted, drifts, ending, sent, installed,
                   recoveries>>

Step(p) ==
    \/ Admit(p) \/ PlayOn(p) \/ CrossFinish(p) \/ LeaveLevel(p) \/ PassBoundary(p)
    \/ BeginSeal(p) \/ CompleteSeal(p) \/ LateBegin(p) \/ PollRecovery(p)
    \/ p \in Guests /\ (Drift(p) \/ InstallState(p))

Next ==
    /\ failed = None
    /\ \E p \in Node : Step(p) \/ \E m \in sent : Deliver(p, m)

Spec == Init /\ [][Next]_vars

----
(* Fairness: the game threads run, and a packet somebody waits for is      *)
(* repeated until it has arrived: Begin by Player 1's pump while he has    *)
(* not passed the boundary, the state as the answer to a guest's requests, *)
(* RecoveryAck by the waiting guest's poll and Resume as its answer,       *)
(* TransitionBegin until the guests have acknowledged the finish.          *)
Repeated(p, m) ==
    CASE m.type = "RecoveryBegin" ->
           /\ recovery[Host] = m.frame /\ ~resumed[Host]
           /\ next[Host] <= m.frame + 1
      [] m.type = "State" ->
           /\ p \in Guests /\ coord[p] = [stage |-> "baseline", frame |-> m.frame]
           /\ recovery[Host] = m.frame
      [] m.type = "RecoveryAck" ->
           /\ coord[m.from] = [stage |-> "resume", frame |-> m.frame]
           /\ recovery[m.from] = m.frame
      [] m.type = "RecoveryResume" ->
           p \in Guests /\ coord[p] = [stage |-> "resume", frame |-> m.frame]
      [] m.type = "TransitionBegin" -> life[Host] = "sealing"
      [] OTHER -> FALSE

Running(A) == failed = None /\ A

Fairness ==
    /\ \A p \in Node : WF_vars(Running(Step(p)))
    /\ \A p \in Node :
         WF_vars(Running(\E m \in sent : Repeated(p, m) /\ Deliver(p, m)))

FairSpec == Spec /\ Fairness

----
(* Properties.                                                             *)

(* Every variable has its type.                                            *)
TypeOK ==
    /\ next \in [Node -> Frame] /\ playing \in [Node -> BOOLEAN]
    /\ life \in [Node -> {"racing", "crossed", "sealing", "over"}]
    /\ recovery \in [Node -> Boundary \cup {None}] /\ resumed \in [Node -> BOOLEAN]
    /\ acks \subseteq Node
    /\ coord \in [Node -> [stage : {"idle", "baseline", "resume"}, frame : Boundary]]
    /\ states \in [Guests -> SUBSET Boundary] /\ done \in [Node -> SUBSET Boundary]
    /\ epoch \in [Node -> Nat] /\ announced \subseteq Guests
    /\ ending \in [frame : Ends, kind : {"finish", "exit"}]
    /\ drifted \subseteq Guests /\ drifts \in 0..MaxDrifts
    /\ sent \subseteq Packet
    /\ installed \subseteq Guests \X Boundary /\ recoveries \in 0..MaxRecoveries

(* No machine plays a frame after an announced boundary before every guest *)
(* has installed Player 1's state of that boundary, however late Begin, the*)
(* state and the acknowledgements of this or an earlier recovery arrive.   *)
RepairedTogether ==
    \A m \in sent :
        m.type = "RecoveryBegin" /\ (\E p \in Node : next[p] > m.frame + 1)
            => \A g \in Guests : <<g, m.frame>> \in installed

(* A recovery ends the session in three situations only: the race is left  *)
(* while one is planned (end_authoritative_phase says so); Player 1        *)
(* announces another one to a guest that still waits for, or has not yet   *)
(* acted on, the Resume of one he has released; and the boundary is the    *)
(* frame in which the guest crosses the finish.  No machine passes a       *)
(* boundary and none waits at another than its session's.                  *)
FailsOnlyWhen ==
    failed # None =>
        \/ failed.why = "unload" /\ recovery[failed.who] \notin done[Host]
        \/ failed.why = "conflict" /\ recovery[failed.who] \in done[Host]
        \/ failed.why = "baseline" /\ coord[failed.who].frame = ending.frame

(* The transport epoch of rollback names one history: machines in the same *)
(* one have gone through the same recoveries, so neither reads packets from*)
(* before a repair the other has made.                                     *)
EpochNamesRepairs ==
    \A p, q \in Node :
        Racing(p) /\ Racing(q) /\ epoch[p] = epoch[q]
            => done[p] \ {recovery[p]} = done[q] \ {recovery[q]}

(* A recovery Player 1 has announced comes to an end, by the release or the*)
(* finish, unless the session ends or a guest whose state drifted has ended*)
(* the race by itself and can not stop at the boundary any more.           *)
RecoveryEnds ==
    recovery[Host] # None ~>
        \/ recovery[Host] = None
        \/ failed # None
        \/ \E g \in Guests : life[g] # "racing"

----
(* The inductive invariant behind the safety properties.                   *)

(* The boundaries Player 1 has announced, and the repairs all have made.   *)
Begun == {m.frame : m \in {x \in sent : x.type = "RecoveryBegin"}}
Repaired(b) == \A g \in Guests : <<g, b>> \in installed

(* The types, without the lengths of the races.                            *)
Shapes ==
    /\ next \in [Node -> Nat] /\ playing \in [Node -> BOOLEAN]
    /\ life \in [Node -> {"racing", "crossed", "sealing", "over"}]
    /\ recovery \in [Node -> Nat \cup {None}] /\ resumed \in [Node -> BOOLEAN]
    /\ acks \subseteq Node
    /\ coord \in [Node -> [stage : {"idle", "baseline", "resume"}, frame : Nat]]
    /\ done \in [Node -> SUBSET Nat] /\ epoch \in [Node -> Nat]
    /\ ending.frame \in Nat /\ drifted \subseteq Guests
    /\ \A m \in sent :
          /\ m.type = "RecoveryBegin" => m.frame \in Nat
          /\ m.type = "RecoveryAck" => m.from \in Guests /\ m.frame \in Nat
          /\ m.type = "Digest" => m.frame \in Nat

(* Where a machine is: a coordinator works between two frames, at the      *)
(* boundary of its session, which is gone when the race is.                *)
Machine(p) ==
    /\ playing[p] => life[p] = "racing" /\ coord[p] = Idle
    /\ ~Racing(p) => recovery[p] = None
    /\ coord[p].stage = "idle" => coord[p] = Idle
    /\ coord[p].stage # "idle" =>
          /\ next[p] = coord[p].frame + 1
          /\ Racing(p) => recovery[p] = coord[p].frame

(* Player 1: what an acknowledgement, a release and an announcement mean.  *)
HostRecovery ==
    /\ \A g \in Guests : next[g] <= next[Host]
    /\ coord[Host].stage # "baseline"
    /\ recovery[Host] # None =>
          /\ recovery[Host] \in Begun
          /\ \A g \in Guests \cap acks : <<g, recovery[Host]>> \in installed
          /\ Host \in acks => coord[Host].stage = "resume"
          /\ ~resumed[Host] => next[Host] <= recovery[Host] + 1
          /\ recovery[Host] \in done[Host] <=> resumed[Host]
          /\ \A b \in done[Host] : b <= recovery[Host]
    /\ resumed[Host] => recovery[Host] # None /\ Node \subseteq acks
    /\ \A b \in done[Host] : b \in Begun /\ Repaired(b) /\ b < next[Host]
    /\ \A b \in Begun :
          \/ b \in done[Host] \/ recovery[Host] = b
          \/ ~Racing(Host) /\ next[Host] <= b + 1
    /\ \A b, c \in Begun : b < c => b \in done[Host]

(* A guest: what it has installed it has gone through, or is about to.     *)
GuestRecovery(g) ==
    /\ recovery[g] # None =>
          /\ recovery[g] \in Begun /\ recovery[g] \notin done[g]
          /\ \A b \in done[g] : b < recovery[g]
    /\ \A b \in done[g] : b \in Begun /\ <<g, b>> \in installed
    /\ \A i \in installed : i[1] = g =>
          \/ i[2] \in done[g] \/ ~Racing(g)
          \/ recovery[g] = i[2] /\ coord[g].stage = "resume"
    /\ coord[g].stage = "resume" => <<g, coord[g].frame>> \in installed
    /\ coord[g].stage = "baseline" =>
          /\ <<g, coord[g].frame>> \notin installed
          /\ ~Racing(g) => coord[g].frame = ending.frame

(* What the packets say, and where the race ends.                          *)
Finishing ==
    /\ \A m \in sent : m.type = "RecoveryAck" => <<m.from, m.frame>> \in installed
    /\ (\E m \in sent : m.type = "TransitionBegin") \/ announced # {} =>
          ~Racing(Host) /\ next[Host] = ending.frame + 1
    /\ life[Host] \in {"crossed", "sealing"} => next[Host] = ending.frame + 1

(* The epoch counts the recoveries a machine has left behind.              *)
EpochCounts ==
    \A p \in Node :
        /\ IsFiniteSet(done[p])
        /\ Racing(p) => epoch[p] = Cardinality(done[p] \ {recovery[p]}) + 1

RecoveryInv ==
    /\ Shapes
    /\ \A p \in Node : Machine(p)
    /\ HostRecovery
    /\ \A g \in Guests : GuestRecovery(g)
    /\ Finishing
=============================================================================
