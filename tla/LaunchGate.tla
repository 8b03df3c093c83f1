----------------------------- MODULE LaunchGate -----------------------------
(***************************************************************************)
(* The synchronized start of an online session (direct_session.cpp): from  *)
(* the starting grid through the countdown, the launch descriptor, every   *)
(* machine's cold boot and the start gate to simulation frame 0.           *)
(*                                                                         *)
(* Every method of DirectSession, every packet handler and every step of   *)
(* pump_locked runs under the session mutex, so each one is an action.     *)
(* Player 1 and the guests exchange datagrams that may be lost, delayed,   *)
(* reordered and duplicated: a sent message stays in toGuest or toHost for *)
(* good and may be received at any later time, or never.  Staying there    *)
(* also stands for the 250 ms repetitions of LobbyState, Start(0) and      *)
(* Loaded, which add no message that was not sent before.                  *)
(*                                                                         *)
(* The room starts when the guests have been admitted and their online     *)
(* saves verified (that part is StartingGrid); each guest has seen any one *)
(* of the lobby states sent since it joined, or none.                      *)
(***************************************************************************)
EXTENDS Room

CONSTANTS Hashes,           \* cold-boot checkpoint hashes a machine may compute
          MaxGeneration,    \* bound: no ready toggle at this room generation
          MaxCountdowns,    \* bound: countdowns Player 1 starts
          MaxStops          \* bound: machines that leave, fail to boot or time out

ASSUME BoundsAssumption ==
    MaxGeneration \in Nat /\ MaxCountdowns \in Nat /\ MaxStops \in Nat

ASSUME GridFits == Cardinality(Guests) \in GuestSlots

NoHash == "no hash"
ASSUME HashesAssumption == NoHash \notin Hashes

NoDescriptor == [gen |-> 0, mask |-> {}]

VARIABLES
    room,         \* lobby_, on Player 1's machine
    state,        \* state[p]: ConnectionState of machine p
    countdown,    \* launch_countdown_active_ on Player 1's machine
    countdowns,   \* launch_countdown_generation_
    descriptor,   \* descriptor[p]: launch_descriptor_ of machine p
    launch,       \* launch[p]: launch_requested_, until the launcher consumes it
    launches,     \* history: launches[p], launch requests raised so far
    booted,       \* booted[p]: local_bootstrap_hash_, NoHash until local_loaded_
    hashAt,       \* hashAt[s]: Player 1's bootstrap_hashes_ for slot s
    localSlot,    \* localSlot[g]: local_slot_ of guest g
    view,         \* view[g]: room_view_ of guest g
    toGuest,      \* toGuest[g]: datagrams sealed for guest g
    toHost,       \* datagrams sealed for Player 1
    stops         \* departures, boot failures and timeouts so far (for MaxStops)

vars == <<room, state, countdown, countdowns, descriptor, launch, launches,
          booted, hashAt, localSlot, view, toGuest, toHost, stops>>

States == {"Hosting", "Lobby", "Loading", "Running", "Failed", "Offline"}

(* A LobbyState payload; a guest's room_view_ is the last one it applied. *)
Views == [gen : Nat, phase : Phases, occupied : SUBSET Slots,
          loaded : SUBSET Slots]

Descriptors == [gen : Nat, mask : SUBSET Slots]

LobbyPayload(r) == [gen |-> r.gen, phase |-> r.phase,
                    occupied |-> OccupiedSlots(r), loaded |-> LoadedSlots(r)]

GuestMessages ==
    [type : {"LobbyState"}, lobby : Views]
        \cup [type : {"Start"}, stage : {0, 1}, descriptor : Descriptors]
        \cup [type : {"Disconnect"}]

HostMessages ==
    [type : {"Loaded"}, from : Guests, slot : Slots, hash : Hashes]
        \cup [type : {"Disconnect"}, from : Guests]

LobbyState(r) == [type |-> "LobbyState", lobby |-> LobbyPayload(r)]
Start(s, d) == [type |-> "Start", stage |-> s, descriptor |-> d]
Goodbye == [type |-> "Disconnect"]
Departure(g) == [type |-> "Disconnect", from |-> g]

(* broadcast: one datagram for every active peer of room r. *)
Broadcast(r, messages) ==
    [g \in Guests |-> IF InRoom(r, g) THEN toGuest[g] \cup messages
                                      ELSE toGuest[g]]

(* Mutant: a failed machine keeps handling packets. *)
AliveUnlessOffline(p) == state[p] # "Offline"

(* handle_client_packet returns at once on a failed machine, and an        *)
(* offline one has closed its transport.                                   *)
Alive(p) == state[p] \notin {"Failed", "Offline"}

(* make_launch_descriptor *)
Descriptor(r) == [gen |-> r.gen, mask |-> OccupiedSlots(r)]

(* The REMOVE button is guarded by the presentation view alone, which      *)
(* network_loop publishes every 50 ms, and kick_player looks at no state:  *)
(* a view of the waiting grid still offers REMOVE when the session has     *)
(* begun to load.  The launcher that draws it is left as soon as its next  *)
(* frame consumes the launch request.                                      *)
OffersRemove ==
    \/ state[Host] \notin {"Loading", "Running"}
    \/ state[Host] = "Loading" /\ launch[Host]

-----------------------------------------------------------------------------
(* The lobby states sent while the guests joined one after the other: the  *)
(* guest in slot i joined at generation i + 1.                             *)
JoinView(v) == [gen |-> v, phase |-> "Waiting",
                occupied |-> IF v = 0 THEN {} ELSE 0 .. v - 1, loaded |-> {}]

Init ==
    /\ room \in [phase : {"Waiting"}, gen : {Cardinality(Guests) + 1},
                 slot : [Guests -> 1 .. Cardinality(Guests)],
                 ready : {{}}, loaded : {{}}]
    /\ \A g, h \in Guests : room.slot[g] = room.slot[h] => g = h
    /\ room.slot \in [Guests -> Slots]
    /\ state = [p \in Players |-> IF p = Host THEN "Hosting" ELSE "Lobby"]
    /\ countdown = FALSE
    /\ countdowns = 0
    /\ descriptor = [p \in Players |-> NoDescriptor]
    /\ launch = [p \in Players |-> FALSE]
    /\ launches = [p \in Players |-> 0]
    /\ booted = [p \in Players |-> NoHash]
    /\ hashAt = [s \in Slots |-> NoHash]
    /\ localSlot = room.slot
    /\ view \in [Guests -> {JoinView(v) : v \in 0 .. room.gen}]
    /\ \A g \in Guests : view[g].gen = 0 \/ view[g].gen > room.slot[g]
    /\ toGuest = [g \in Guests |-> {LobbyState(room)}]
    /\ toHost = {}
    /\ stops = 0

-----------------------------------------------------------------------------
Stops ==
    /\ stops < MaxStops
    /\ stops' = stops + 1

(* Player 1's machine                                                      *)

(* set_ready by Player 1, or a guest's ReadyRequest: the handler ignores a *)
(* request whose player_slot is not the slot the guest now has.            *)
Ready(p, ready) ==
    /\ room.gen < MaxGeneration
    /\ state[Host] = "Hosting"
    /\ CanSetReady(room, p)
    /\ p \in Guests => state[p] = "Lobby" /\ localSlot[p] = room.slot[p]
    /\ room' = SetReady(room, p, ready)
    /\ toGuest' = Broadcast(room', {LobbyState(room')})
    /\ UNCHANGED <<state, countdown, countdowns, descriptor, launch, launches,
                   booted, hashAt, localSlot, view, toHost, stops>>

(* request_start; the online saves are verified and the lanes open. *)
RequestStart ==
    /\ countdowns < MaxCountdowns
    /\ state[Host] # "Offline"
    /\ ~countdown
    /\ CanStart(room)
    /\ countdown' = TRUE
    /\ countdowns' = countdowns + 1
    /\ toGuest' = Broadcast(room, {LobbyState(room)})
    /\ UNCHANGED <<room, state, descriptor, launch, launches, booted, hashAt,
                   localSlot, view, toHost, stops>>

(* pump_locked while counting down: cancel_launch_locked. *)
CancelCountdown ==
    /\ countdown
    /\ state[Host] # "Hosting" \/ ~CanStart(room)
    /\ countdown' = FALSE
    /\ descriptor' = [descriptor EXCEPT ![Host] = NoDescriptor]
    /\ toGuest' = Broadcast(room, {LobbyState(room)})
    /\ UNCHANGED <<room, state, countdowns, launch, launches, booted, hashAt,
                   localSlot, view, toHost, stops>>

(* pump_locked at the countdown's deadline: prepare_launch_locked.  The    *)
(* input, commit and authority ledgers it resets are the frame ledger's.   *)
PrepareLaunch ==
    /\ countdown
    /\ state[Host] = "Hosting"
    /\ CanStart(room)
    /\ countdown' = FALSE
    /\ room' = BeginLoading(room)
    /\ descriptor' = [descriptor EXCEPT ![Host] = Descriptor(room')]
    /\ state' = [state EXCEPT ![Host] = "Loading"]
    /\ booted' = [booted EXCEPT ![Host] = NoHash]
    /\ hashAt' = [s \in Slots |-> NoHash]
    /\ launch' = [launch EXCEPT ![Host] = TRUE]
    /\ launches' = [launches EXCEPT ![Host] = @ + 1]
    /\ toGuest' = Broadcast(room', {Start(0, descriptor'[Host]), LobbyState(room')})
    /\ UNCHANGED <<countdowns, localSlot, view, toHost, stops>>

(* kick_player; the method itself does not look at the session state. *)
Kick(g) ==
    /\ Stops
    /\ OffersRemove
    /\ state[Host] # "Offline"
    /\ InRoom(room, g)
    /\ room' = Leave(room, g)
    /\ toGuest' = [Broadcast(room', {LobbyState(room')})
                     EXCEPT ![g] = @ \cup {Goodbye}]
    /\ UNCHANGED <<state, countdown, countdowns, descriptor, launch, launches,
                   booted, hashAt, localSlot, view, toHost>>

(* fail_locked on Player 1's machine. *)
HostFails ==
    /\ state' = [state EXCEPT ![Host] = "Failed"]
    /\ toGuest' = Broadcast(room, {Goodbye})

(* Mutant: only a departure from the running race stops the session. *)
DepartureStopsRaceOnly == state[Host] = "Running"

DepartureStopsSession == state[Host] \in {"Loading", "Running"}

(* handle_host_packet: Disconnect. *)
HostReceivesDeparture(g) ==
    /\ state[Host] # "Offline"
    /\ Departure(g) \in toHost
    /\ InRoom(room, g)
    /\ \/ /\ DepartureStopsSession
          /\ HostFails
          /\ UNCHANGED room
       \/ /\ ~DepartureStopsSession
          /\ room' = Leave(room, g)
          /\ toGuest' = Broadcast(room', {LobbyState(room')})
          /\ UNCHANGED state
    /\ UNCHANGED <<countdown, countdowns, descriptor, launch, launches, booted,
                   hashAt, localSlot, view, toHost, stops>>

(* Mutant: any slot of the sender's choice is taken for its own. *)
FromAnySlot(m) == TRUE

(* handle_host_packet drops a Loaded whose player_slot is not the slot its *)
(* sender now has on Player 1's grid.                                      *)
FromItsSlot(m) == m.slot = room.slot[m.from]

(* handle_host_packet: Loaded.  The save it names is the one HelloAck      *)
(* installed, which mark_game_loaded compared before sending.              *)
HostReceivesLoaded(m) ==
    /\ state[Host] # "Offline"
    /\ m \in toHost
    /\ m.type = "Loaded"
    /\ InRoom(room, m.from)
    /\ FromItsSlot(m)
    /\ hashAt' = [hashAt EXCEPT ![m.slot] = m.hash]
    /\ room' = SetLoaded(room, m.from)
    /\ toGuest' = Broadcast(room', {LobbyState(room')})
    /\ UNCHANGED <<state, countdown, countdowns, descriptor, launch, launches,
                   booted, localSlot, view, toHost, stops>>

(* pump_locked's condition for evaluating the gate. *)
GateOpens ==
    /\ state[Host] = "Loading"
    /\ booted[Host] # NoHash
    /\ EveryoneLoaded(room)

(* Mutant: the gate looks for every report but does not compare them. *)
CheckpointsPresent == \A s \in OccupiedSlots(room) : hashAt[s] # NoHash

(* The gate's loop over the occupied slots. *)
CheckpointsMatch ==
    /\ \A s \in OccupiedSlots(room) : hashAt[s] # NoHash
    /\ \A s, t \in OccupiedSlots(room) : hashAt[s] = hashAt[t]

(* pump_locked's start gate, when every occupied slot reported Loaded. *)
ReleaseStart ==
    /\ GateOpens
    /\ CheckpointsMatch
    /\ room' = BeginRunning(room)
    /\ state' = [state EXCEPT ![Host] = "Running"]
    /\ toGuest' = Broadcast(room', {Start(1, descriptor[Host]), LobbyState(room')})
    /\ UNCHANGED <<countdown, countdowns, descriptor, launch, launches, booted,
                   hashAt, localSlot, view, toHost, stops>>

RefuseStart ==
    /\ GateOpens
    /\ ~CheckpointsMatch
    /\ HostFails
    /\ UNCHANGED <<room, countdown, countdowns, descriptor, launch, launches,
                   booted, hashAt, localSlot, view, toHost, stops>>

-----------------------------------------------------------------------------
(* A guest's machine                                                       *)

GuestFails(g) ==
    /\ state' = [state EXCEPT ![g] = "Failed"]
    /\ toHost' = toHost \cup {Departure(g)}

(* Mutant: a lobby state only refreshes the guest's picture of the room. *)
LobbyNeverReleases(g, lobby) == FALSE

(* A guest that lost Start(1) is released by the lobby state instead. *)
LobbyReleases(g, lobby) == lobby.phase = "Running" /\ booted[g] # NoHash

(* apply_lobby_payload: an older generation is ignored, an equal one only  *)
(* refreshes the metrics and the countdown.                                *)
GuestReceivesLobby(g, m) ==
    /\ Alive(g)
    /\ m \in toGuest[g]
    /\ m.type = "LobbyState"
    /\ m.lobby.gen > view[g].gen
    /\ view' = [view EXCEPT ![g] = m.lobby]
    /\ state' = IF LobbyReleases(g, m.lobby)
                THEN [state EXCEPT ![g] = "Running"] ELSE state
    /\ UNCHANGED <<room, countdown, countdowns, descriptor, launch, launches,
                   booted, hashAt, localSlot, toGuest, toHost, stops>>

(* validate_start_descriptor *)
AcceptsDescriptor(g, d) ==
    /\ localSlot[g] \in d.mask
    /\ view[g].occupied = d.mask
    /\ descriptor[g] \in {NoDescriptor, d}

(* Mutant: every Start(0) raises a launch request. *)
StartAlwaysLaunches(g) == TRUE

StartLaunches(g) == state[g] \notin {"Loading", "Running"}

(* handle_client_packet: Start. *)
GuestReceivesStart(g, m) ==
    /\ Alive(g)
    /\ m \in toGuest[g]
    /\ m.type = "Start"
    /\ \/ /\ ~AcceptsDescriptor(g, m.descriptor)
          /\ GuestFails(g)
          /\ UNCHANGED <<descriptor, launch, launches>>
       \/ /\ AcceptsDescriptor(g, m.descriptor)
          /\ m.stage = 0
          /\ descriptor' = [descriptor EXCEPT ![g] = m.descriptor]
          /\ IF StartLaunches(g)
             THEN /\ state' = [state EXCEPT ![g] = "Loading"]
                  /\ launch' = [launch EXCEPT ![g] = TRUE]
                  /\ launches' = [launches EXCEPT ![g] = @ + 1]
             ELSE UNCHANGED <<state, launch, launches>>
          /\ UNCHANGED toHost
       \/ /\ AcceptsDescriptor(g, m.descriptor)
          /\ m.stage = 1
          /\ descriptor' = [descriptor EXCEPT ![g] = m.descriptor]
          /\ state' = [state EXCEPT ![g] = "Running"]
          /\ UNCHANGED <<launch, launches, toHost>>
    /\ UNCHANGED <<room, countdown, countdowns, booted, hashAt, localSlot,
                   view, toGuest, stops>>

(* handle_client_packet: Disconnect. *)
GuestReceivesGoodbye(g) ==
    /\ Alive(g)
    /\ Goodbye \in toGuest[g]
    /\ state' = [state EXCEPT ![g] = "Failed"]
    /\ UNCHANGED <<room, countdown, countdowns, descriptor, launch, launches,
                   booted, hashAt, localSlot, view, toGuest, toHost, stops>>

-----------------------------------------------------------------------------
(* Either machine                                                          *)

(* consume_launch_request: the launcher starts the game, which boots and,  *)
(* at its first authored frame, calls mark_game_loaded with the checkpoint *)
(* hash of the state it booted into.                                       *)
Boot(p, hash) ==
    /\ launch[p]
    /\ booted[p] = NoHash
    /\ Alive(p)
    /\ launch' = [launch EXCEPT ![p] = FALSE]
    /\ booted' = [booted EXCEPT ![p] = hash]
    /\ state' = [state EXCEPT ![p] = "Loading"]
    /\ IF p = Host
       THEN /\ hashAt' = [hashAt EXCEPT ![0] = hash]
            /\ room' = SetLoaded(room, Host)
            /\ toGuest' = Broadcast(room', {LobbyState(room')})
            /\ UNCHANGED toHost
       ELSE /\ toHost' = toHost \cup {[type |-> "Loaded", from |-> p,
                                       slot |-> localSlot[p], hash |-> hash]}
            /\ UNCHANGED <<room, hashAt, toGuest>>
    /\ UNCHANGED <<countdown, countdowns, descriptor, launches, localSlot, view,
                   stops>>

Fails(p) ==
    IF p = Host THEN HostFails /\ UNCHANGED toHost
                ELSE GuestFails(p) /\ UNCHANGED toGuest

(* The game opened a save that is not the lobby's: fail_runtime_start and  *)
(* mark_game_loaded's comparison.                                          *)
BootFails(p) ==
    /\ Stops
    /\ launch[p]
    /\ booted[p] = NoHash
    /\ Alive(p)
    /\ launch' = [launch EXCEPT ![p] = FALSE]
    /\ Fails(p)
    /\ UNCHANGED <<room, countdown, countdowns, descriptor, launches, booted,
                   hashAt, localSlot, view>>

(* wait_until_running gives up after its 90 seconds. *)
WaitTimesOut(p) ==
    /\ Stops
    /\ booted[p] # NoHash
    /\ state[p] = "Loading"
    /\ Fails(p)
    /\ UNCHANGED <<room, countdown, countdowns, descriptor, launch, launches,
                   booted, hashAt, localSlot, view>>

(* disconnect: the machine leaves, telling the others once.  What else it  *)
(* clears is never read again: every handler checks the state first.       *)
GuestLeaves(g) ==
    /\ Stops
    /\ state[g] # "Offline"
    /\ state' = [state EXCEPT ![g] = "Offline"]
    /\ toHost' = toHost \cup {Departure(g)}
    /\ UNCHANGED <<room, countdown, countdowns, descriptor, launch, launches,
                   booted, hashAt, localSlot, view, toGuest>>

HostLeaves ==
    /\ Stops
    /\ state[Host] # "Offline"
    /\ state' = [state EXCEPT ![Host] = "Offline"]
    /\ countdown' = FALSE
    /\ toGuest' = Broadcast(room, {Goodbye})
    /\ UNCHANGED <<room, countdowns, descriptor, launch, launches, booted,
                   hashAt, localSlot, view, toHost>>

-----------------------------------------------------------------------------
HostStep ==
    \/ \E p \in Players, b \in BOOLEAN : Ready(p, b)
    \/ RequestStart
    \/ CancelCountdown
    \/ PrepareLaunch
    \/ \E g \in Guests : Kick(g) \/ HostReceivesDeparture(g)
    \/ \E m \in toHost : HostReceivesLoaded(m)
    \/ ReleaseStart
    \/ RefuseStart

GuestStep(g) ==
    \/ \E m \in toGuest[g] : GuestReceivesLobby(g, m) \/ GuestReceivesStart(g, m)
    \/ GuestReceivesGoodbye(g)
    \/ GuestLeaves(g)

Next ==
    \/ HostStep
    \/ HostLeaves
    \/ \E g \in Guests : GuestStep(g)
    \/ \E p \in Players : BootFails(p) \/ WaitTimesOut(p)
    \/ \E p \in Players, h \in Hashes : Boot(p, h)

Spec == Init /\ [][Next]_vars

-----------------------------------------------------------------------------
(* What is repeated until it is observed: the current lobby state while    *)
(* Player 1's session lives, Start(0) while it loads, and Loaded while the *)
(* guest's own picture of the room does not show it loaded.  Start(1) and  *)
(* the disconnects are not repeated for ever, so nothing is assumed of     *)
(* their delivery.  The launcher consumes a launch request and the game    *)
(* boots; the network worker never stops pumping.  Nothing is assumed of   *)
(* the people at the controls, and no timeout is assumed to fire.          *)
HearsLobby(g) ==
    Alive(Host) /\ InRoom(room, g) /\ GuestReceivesLobby(g, LobbyState(room))

HearsStart(g) ==
    /\ state[Host] = "Loading"
    /\ InRoom(room, g)
    /\ GuestReceivesStart(g, Start(0, descriptor[Host]))

HearsLoaded(g) ==
    /\ state[g] = "Loading"
    /\ localSlot[g] \notin view[g].loaded
    /\ \E m \in toHost : m.type = "Loaded" /\ m.from = g /\ HostReceivesLoaded(m)

Fairness ==
    /\ WF_vars(CancelCountdown) /\ WF_vars(PrepareLaunch)
    /\ WF_vars(ReleaseStart) /\ WF_vars(RefuseStart)
    /\ \A g \in Guests :
          WF_vars(HearsLobby(g)) /\ WF_vars(HearsStart(g)) /\ WF_vars(HearsLoaded(g))
    /\ \A p \in Players : WF_vars(\E h \in Hashes : Boot(p, h))

FairSpec == Spec /\ Fairness

-----------------------------------------------------------------------------
TypeOK ==
    /\ room \in RoomType
    /\ state \in [Players -> States]
    /\ countdown \in BOOLEAN
    /\ countdowns \in Nat
    /\ descriptor \in [Players -> Descriptors]
    /\ launch \in [Players -> BOOLEAN]
    /\ launches \in [Players -> Nat]
    /\ booted \in [Players -> Hashes \cup {NoHash}]
    /\ hashAt \in [Slots -> Hashes \cup {NoHash}]
    /\ localSlot \in [Guests -> Slots]
    /\ view \in [Guests -> Views]
    /\ toGuest \in [Guests -> SUBSET GuestMessages]
    /\ toHost \subseteq HostMessages
    /\ stops \in Nat

Simulating(p) == state[p] = "Running"

(* "The game does not execute simulation frame 0 if any peer boots into    *)
(* different state" (docs/ONLINE_MULTIPLAYER.md:61): two machines that run *)
(* booted into the same checkpoint, whatever was lost or delayed.          *)
FrameZeroAgreement ==
    \A p, q \in Players :
        Simulating(p) /\ Simulating(q) =>
            booted[p] # NoHash /\ booted[p] = booted[q]

(* "cannot ... launch the game twice" (docs/ONLINE_MULTIPLAYER.md:57): a   *)
(* duplicated or late Start raises no second launch request.               *)
LaunchedOnce == \A p \in Players : launches[p] <= 1

(* "Delayed LobbyState/Start retries must never revive a halted client"    *)
(* (direct_session.cpp:6304); a machine that failed only ever leaves.      *)
FailureIsTerminal ==
    [][\A p \in Players : state[p] = "Failed" => state'[p] \in {"Failed", "Offline"}]_vars

(* Player 1 has broadcast the launch to guest g, or has removed it. *)
Summoned(g) == Start(0, descriptor[Host]) \in toGuest[g]
Removed(g) == Goodbye \in toGuest[g]

(* A racer that leaves while the others boot is never passed over: when    *)
(* Player 1 simulates, everyone it called to the launch is in the room,    *)
(* but for those it removed itself (through a stale view, kick_player      *)
(* reaches into the loading phase and the start goes on without them).     *)
GridIsComplete ==
    Simulating(Host) => \A g \in Guests : Summoned(g) => InRoom(room, g) \/ Removed(g)

(* local_slot_ is told once, by HelloAck, while Lobby::leave renumbers the *)
(* guests behind a racer that left or was removed.  No race starts on two  *)
(* numberings: when Player 1 simulates, every racer in the room and every  *)
(* guest that simulates has on its own machine the slot it has on the grid *)
(* of Player 1, although a removal may hit a launch under way.             *)
RacersInTheirSlots ==
    Simulating(Host) =>
        \A g \in Guests : InRoom(room, g) \/ Simulating(g) =>
            InRoom(room, g) /\ localSlot[g] = room.slot[g]

(* "Ready, load and start state is repeated until observed"                *)
(* (docs/ONLINE_MULTIPLAYER.md:145): once Player 1 loads, every racer in   *)
(* the room ends up simulating, even when Start(1) is lost, unless one of  *)
(* the machines failed or left.                                            *)
StartReachesEveryone ==
    state[Host] = "Loading" ~>
        \/ \A p \in Occupants(room) : Simulating(p)
        \/ \E p \in Occupants(room) : ~Alive(p)

-----------------------------------------------------------------------------
(* The inductive invariant behind FrameZeroAgreement.                      *)

SlotsDistinct ==
    \A g, h \in Guests :
        room.slot[g] # 0 /\ room.slot[g] = room.slot[h] => g = h

(* A Loaded datagram names the checkpoint its sender booted into. *)
ReportsTruthful ==
    \A m \in toHost : m.type = "Loaded" => m.hash = booted[m.from]

(* A loaded flag says that Player 1 holds that racer's own checkpoint,     *)
(* although bootstrap_hashes_ is indexed by slot and racers change slots.  *)
LoadedMeansReported ==
    \A p \in room.loaded : InRoom(room, p) =>
        booted[p] # NoHash /\ hashAt[SlotOf(room, p)] = booted[p]

(* Guest g runs, or holds a datagram that would let it run. *)
Released(g) ==
    \/ Simulating(g)
    \/ \E m \in toGuest[g] : m.type = "Start" /\ m.stage = 1
    \/ \E m \in toGuest[g] : m.type = "LobbyState" /\ m.lobby.phase = "Running"

(* Nobody is released before the gate, and who is agrees with Player 1. *)
ReleaseAgrees ==
    /\ Simulating(Host) => room.phase = "Running"
    /\ room.phase = "Running" =>
          \A p \in Occupants(room) : booted[p] # NoHash /\ booted[p] = booted[Host]
    /\ \A g \in Guests : Released(g) =>
          room.phase = "Running" /\ booted[g] # NoHash /\ booted[g] = booted[Host]

LaunchInv ==
    /\ TypeOK
    /\ SlotsDistinct
    /\ ReportsTruthful
    /\ LoadedMeansReported
    /\ ReleaseAgrees

(* The inductive invariants behind LaunchedOnce and GridIsComplete. *)

(* A machine that still waits at the grid was not asked to launch. *)
WaitingUnlaunched ==
    \A p \in Players :
        /\ launches[p] <= 1
        /\ state[p] \in {"Hosting", "Lobby"} => launches[p] = 0

(* From the end of the countdown on no countdown runs that could be        *)
(* cancelled, the room is past waiting, and whoever was called is there.   *)
GridFrozen ==
    /\ state[Host] \in {"Loading", "Running"} =>
          /\ ~countdown
          /\ room.phase # "Waiting"
          /\ \A g \in Guests : Summoned(g) => InRoom(room, g) \/ Removed(g)
    /\ launch[Host] /\ Alive(Host) => state[Host] \in {"Loading", "Running"}
    /\ state[Host] = "Hosting" =>
          \A g \in Guests : \A m \in toGuest[g] : m.type # "Start"

(* The inductive invariant behind RacersInTheirSlots: a loaded flag proves *)
(* the slot of its racer, because every removal clears all of them.        *)
SlotsProved ==
    /\ \A m \in toHost : m.type = "Loaded" => m.slot = localSlot[m.from]
    /\ \A g \in Guests \cap room.loaded :
          InRoom(room, g) => localSlot[g] = room.slot[g]
    /\ state[Host] = "Loading" => room.phase # "Running"
    /\ Simulating(Host) =>
          \A g \in Guests :
              /\ InRoom(room, g) => localSlot[g] = room.slot[g]
              /\ Released(g) => InRoom(room, g)

=============================================================================
