-------------------------- MODULE LaunchGateProofs --------------------------
(* Proofs about LaunchGate for any number of guests, slots and checkpoint  *)
(* hashes.                                                                 *)
EXTENDS LaunchGate, TLAPS

-----------------------------------------------------------------------------
(* The room operators keep the room a room (netplay_lobby.cpp). *)

LEMMA SlotOfType ==
    ASSUME NEW r \in RoomType, NEW p \in Players
    PROVE  SlotOf(r, p) \in Slots
BY MaxGuestsAssumption DEF SlotOf, RoomType, Players, Slots

LEMMA PayloadType ==
    ASSUME NEW r \in RoomType
    PROVE  /\ OccupiedSlots(r) \subseteq Slots
           /\ LobbyPayload(r) \in Views
           /\ LobbyState(r) \in GuestMessages
           /\ Descriptor(r) \in Descriptors
<1>1. OccupiedSlots(r) \subseteq Slots /\ LoadedSlots(r) \subseteq Slots
  BY SlotOfType DEF OccupiedSlots, LoadedSlots, Occupants
<1>2. LobbyPayload(r) \in Views /\ Descriptor(r) \in Descriptors
  BY <1>1 DEF LobbyPayload, Descriptor, Views, Descriptors, RoomType
<1> QED BY <1>1, <1>2 DEF LobbyState, GuestMessages

LEMMA LeaveType ==
    ASSUME NEW r \in RoomType, NEW g \in Guests, r.slot[g] # 0
    PROVE  Leave(r, g) \in RoomType
<1>1. \A h \in Guests : r.slot[h] \in 0 .. MaxGuests
  BY DEF RoomType, Slots
<1>2. [h \in Guests |-> IF h = g THEN 0
                        ELSE IF r.slot[h] > r.slot[g] THEN r.slot[h] - 1
                        ELSE r.slot[h]] \in [Guests -> Slots]
  BY <1>1, MaxGuestsAssumption DEF Slots
<1> QED BY <1>2 DEF Leave, WithSlots, RoomType

(* normalize_slots never puts two racers into one slot. *)
LEMMA LeaveKeepsSlotsDistinct ==
    ASSUME NEW r \in RoomType, NEW g \in Guests, r.slot[g] # 0,
           \A x, y \in Guests : r.slot[x] # 0 /\ r.slot[x] = r.slot[y] => x = y
    PROVE  \A x, y \in Guests :
              Leave(r, g).slot[x] # 0 /\ Leave(r, g).slot[x] = Leave(r, g).slot[y]
                => x = y
<1>1. \A h \in Guests : r.slot[h] \in 0 .. MaxGuests
  BY DEF RoomType, Slots
<1>2. \A h \in Guests : Leave(r, g).slot[h] =
          IF h = g THEN 0
          ELSE IF r.slot[h] > r.slot[g] THEN r.slot[h] - 1 ELSE r.slot[h]
  BY DEF Leave, WithSlots, RoomType
<1> SUFFICES ASSUME NEW x \in Guests, NEW y \in Guests,
                    Leave(r, g).slot[x] # 0,
                    Leave(r, g).slot[x] = Leave(r, g).slot[y]
             PROVE  x = y
  OBVIOUS
<1>3. x # g /\ y # g
  BY <1>2
<1>4. r.slot[x] # r.slot[g] /\ r.slot[y] # r.slot[g]
  BY <1>3
<1>5. r.slot[x] = r.slot[y] /\ r.slot[x] # 0
  BY <1>1, <1>2, <1>3, <1>4, MaxGuestsAssumption
<1> QED BY <1>5

LEMMA LeaveKeepsOthers ==
    ASSUME NEW r \in RoomType, NEW g \in Guests, r.slot[g] # 0,
           NEW x \in Guests, x # g, InRoom(r, x)
    PROVE  InRoom(Leave(r, g), x)
<1> USE GuestsAssumption
<1>1. r.slot[x] \in 1 .. MaxGuests /\ r.slot[g] \in 1 .. MaxGuests
  BY DEF RoomType, Slots, InRoom
<1>2. Leave(r, g).slot[x] = IF r.slot[x] > r.slot[g] THEN r.slot[x] - 1 ELSE r.slot[x]
  BY DEF Leave, WithSlots, RoomType
<1> QED BY <1>1, <1>2, MaxGuestsAssumption DEF InRoom

LEMMA SetReadyType ==
    ASSUME NEW r \in RoomType, NEW p \in Players, NEW b \in BOOLEAN
    PROVE  SetReady(r, p, b) \in RoomType
BY DEF SetReady, RoomType

LEMMA SetLoadedType ==
    ASSUME NEW r \in RoomType, NEW p \in Players
    PROVE  SetLoaded(r, p) \in RoomType
BY DEF SetLoaded, RoomType

LEMMA PhaseType ==
    ASSUME NEW r \in RoomType
    PROVE  BeginLoading(r) \in RoomType /\ BeginRunning(r) \in RoomType
BY DEF BeginLoading, BeginRunning, RoomType, Phases

LEMMA BroadcastType ==
    ASSUME TypeOK, NEW r, NEW ms \in SUBSET GuestMessages
    PROVE  Broadcast(r, ms) \in [Guests -> SUBSET GuestMessages]
BY DEF Broadcast, TypeOK

LEMMA MessageType ==
    /\ Goodbye \in GuestMessages
    /\ \A g \in Guests : Departure(g) \in HostMessages
    /\ \A d \in Descriptors : Start(0, d) \in GuestMessages /\ Start(1, d) \in GuestMessages
BY DEF Goodbye, GuestMessages, Departure, HostMessages, Start

-----------------------------------------------------------------------------
(* Type correctness. *)

LEMMA FailsType ==
    ASSUME TypeOK, NEW p \in Players, Fails(p)
    PROVE  /\ state' \in [Players -> States]
           /\ toGuest' \in [Guests -> SUBSET GuestMessages]
           /\ toHost' \subseteq HostMessages
<1>1. CASE p = Host
  BY <1>1, BroadcastType, MessageType DEF Fails, HostFails, TypeOK, States
<1>2. CASE p \in Guests
  BY <1>2, MessageType, GuestsAssumption
     DEF Fails, GuestFails, TypeOK, States
<1> QED BY <1>1, <1>2 DEF Players

LEMMA TypeStep == TypeOK /\ [Next]_vars => TypeOK'
<1> SUFFICES ASSUME TypeOK, [Next]_vars PROVE TypeOK'
  OBVIOUS
<1> USE GuestsAssumption, MaxGuestsAssumption
<1>0. Host \in Players /\ Guests \subseteq Players
  BY DEF Players
<1>1. ASSUME NEW p \in Players, NEW b \in BOOLEAN, Ready(p, b) PROVE TypeOK'
  <2>1. room' \in RoomType
    BY <1>1, SetReadyType DEF Ready, TypeOK
  <2>2. toGuest' \in [Guests -> SUBSET GuestMessages]
    BY <1>1, <2>1, PayloadType, BroadcastType DEF Ready
  <2> QED BY <1>1, <2>1, <2>2 DEF Ready, TypeOK
<1>2. CASE RequestStart
  <2>1. toGuest' \in [Guests -> SUBSET GuestMessages]
    BY <1>2, PayloadType, BroadcastType DEF RequestStart, TypeOK
  <2>2. countdown' \in BOOLEAN /\ countdowns' \in Nat
    BY <1>2 DEF RequestStart, TypeOK
  <2> QED BY <1>2, <2>1, <2>2 DEF RequestStart, TypeOK
<1>3. CASE CancelCountdown
  <2>1. toGuest' \in [Guests -> SUBSET GuestMessages]
    BY <1>3, PayloadType, BroadcastType DEF CancelCountdown, TypeOK
  <2>2. NoDescriptor \in Descriptors
    BY DEF NoDescriptor, Descriptors
  <2> QED BY <1>3, <2>1, <2>2, <1>0 DEF CancelCountdown, TypeOK
<1>4. CASE PrepareLaunch
  <2>1. room' \in RoomType
    BY <1>4, PhaseType DEF PrepareLaunch, TypeOK
  <2>2. Descriptor(room') \in Descriptors /\ descriptor'[Host] = Descriptor(room')
    BY <1>0, <1>4, <2>1, PayloadType DEF PrepareLaunch, TypeOK
  <2>3. toGuest' \in [Guests -> SUBSET GuestMessages]
    BY <1>4, <2>1, <2>2, PayloadType, MessageType, BroadcastType DEF PrepareLaunch
  <2>4. descriptor' \in [Players -> Descriptors]
    BY <1>0, <1>4, <2>2 DEF PrepareLaunch, TypeOK
  <2>5. /\ state' \in [Players -> States]
        /\ booted' \in [Players -> Hashes \cup {NoHash}]
        /\ hashAt' \in [Slots -> Hashes \cup {NoHash}]
        /\ launch' \in [Players -> BOOLEAN]
        /\ launches' \in [Players -> Nat]
    BY <1>0, <1>4 DEF PrepareLaunch, TypeOK, States
  <2> QED BY <1>4, <2>1, <2>3, <2>4, <2>5 DEF PrepareLaunch, TypeOK
<1>5. ASSUME NEW g \in Guests, Kick(g) PROVE TypeOK'
  <2>1. room' \in RoomType
    BY <1>5, LeaveType DEF Kick, TypeOK, InRoom
  <2>2. Broadcast(room', {LobbyState(room')}) \in [Guests -> SUBSET GuestMessages]
    BY <2>1, PayloadType, BroadcastType
  <2>3. toGuest' \in [Guests -> SUBSET GuestMessages]
    BY <1>5, <2>2, MessageType DEF Kick
  <2>4. stops' \in Nat
    BY <1>5 DEF Kick, Stops, TypeOK
  <2> QED BY <1>5, <2>1, <2>3, <2>4 DEF Kick, TypeOK
<1>6. ASSUME NEW g \in Guests, HostReceivesDeparture(g) PROVE TypeOK'
  <2>1. CASE HostFails /\ UNCHANGED room
    <3>1. state' \in [Players -> States]
          /\ toGuest' \in [Guests -> SUBSET GuestMessages]
      BY <1>0, <2>1, BroadcastType, MessageType DEF HostFails, TypeOK, States
    <3> QED BY <1>6, <2>1, <3>1 DEF HostReceivesDeparture, TypeOK
  <2>2. CASE /\ room' = Leave(room, g)
             /\ toGuest' = Broadcast(room', {LobbyState(room')})
             /\ UNCHANGED state
    <3>1. room' \in RoomType
      BY <1>6, <2>2, LeaveType DEF HostReceivesDeparture, TypeOK, InRoom
    <3>2. toGuest' \in [Guests -> SUBSET GuestMessages]
      BY <2>2, <3>1, PayloadType, BroadcastType
    <3> QED BY <1>6, <2>2, <3>1, <3>2 DEF HostReceivesDeparture, TypeOK
  <2> QED BY <1>6, <2>1, <2>2 DEF HostReceivesDeparture
<1>7. ASSUME NEW m \in toHost, HostReceivesLoaded(m) PROVE TypeOK'
  <2>1. m.from \in Guests /\ m.hash \in Hashes
    BY <1>7 DEF HostReceivesLoaded, TypeOK, HostMessages
  <2>2. room' \in RoomType
    BY <1>0, <1>7, <2>1, SetLoadedType DEF HostReceivesLoaded, TypeOK
  <2>3. toGuest' \in [Guests -> SUBSET GuestMessages]
    BY <1>7, <2>2, PayloadType, BroadcastType DEF HostReceivesLoaded
  <2>4. hashAt' \in [Slots -> Hashes \cup {NoHash}]
    BY <1>7, <2>1 DEF HostReceivesLoaded, TypeOK
  <2> QED BY <1>7, <2>2, <2>3, <2>4 DEF HostReceivesLoaded, TypeOK
<1>8. CASE ReleaseStart
  <2>1. room' \in RoomType
    BY <1>8, PhaseType DEF ReleaseStart, TypeOK
  <2>2. toGuest' \in [Guests -> SUBSET GuestMessages]
    BY <1>0, <1>8, <2>1, PayloadType, MessageType, BroadcastType DEF ReleaseStart, TypeOK
  <2> QED BY <1>0, <1>8, <2>1, <2>2 DEF ReleaseStart, TypeOK, States
<1>9. CASE RefuseStart
  <2>1. state' \in [Players -> States]
        /\ toGuest' \in [Guests -> SUBSET GuestMessages]
    BY <1>0, <1>9, BroadcastType, MessageType DEF RefuseStart, HostFails, TypeOK, States
  <2> QED BY <1>9, <2>1 DEF RefuseStart, TypeOK
<1>10. ASSUME NEW g \in Guests, NEW m \in toGuest[g], GuestReceivesLobby(g, m)
       PROVE  TypeOK'
  <2>1. m.lobby \in Views
    BY <1>10 DEF GuestReceivesLobby, TypeOK, GuestMessages
  <2>2. state' \in [Players -> States]
    BY <1>0, <1>10 DEF GuestReceivesLobby, TypeOK, States
  <2> QED BY <1>10, <2>1, <2>2 DEF GuestReceivesLobby, TypeOK
<1>11. ASSUME NEW g \in Guests, NEW m \in toGuest[g], GuestReceivesStart(g, m)
       PROVE  TypeOK'
  <2>1. m.descriptor \in Descriptors
    BY <1>11 DEF GuestReceivesStart, TypeOK, GuestMessages
  <2>2. /\ state' \in [Players -> States]
        /\ toHost' \subseteq HostMessages
        /\ descriptor' \in [Players -> Descriptors]
        /\ launch' \in [Players -> BOOLEAN]
        /\ launches' \in [Players -> Nat]
    <3>1. CASE GuestFails(g) /\ UNCHANGED <<descriptor, launch, launches>>
      BY <1>0, <3>1, MessageType DEF GuestFails, TypeOK, States
    <3>2. CASE /\ descriptor' = [descriptor EXCEPT ![g] = m.descriptor]
               /\ UNCHANGED <<state, launch, launches, toHost>>
      BY <1>0, <3>2, <2>1 DEF TypeOK, States
    <3>3. CASE /\ descriptor' = [descriptor EXCEPT ![g] = m.descriptor]
               /\ state' = [state EXCEPT ![g] = "Loading"]
               /\ launch' = [launch EXCEPT ![g] = TRUE]
               /\ launches' = [launches EXCEPT ![g] = @ + 1]
               /\ UNCHANGED toHost
      <4>1. launch' \in [Players -> BOOLEAN] /\ launches' \in [Players -> Nat]
        BY <1>0, <3>3 DEF TypeOK
      <4> QED BY <1>0, <3>3, <4>1, <2>1 DEF TypeOK, States
    <3>4. CASE /\ descriptor' = [descriptor EXCEPT ![g] = m.descriptor]
               /\ state' = [state EXCEPT ![g] = "Running"]
               /\ UNCHANGED <<launch, launches, toHost>>
      BY <1>0, <3>4, <2>1 DEF TypeOK, States
    <3> QED BY <1>11, <3>1, <3>2, <3>3, <3>4, Zenon DEF GuestReceivesStart
  <2> QED BY <1>11, <2>2 DEF GuestReceivesStart, TypeOK
<1>12. ASSUME NEW g \in Guests, GuestReceivesGoodbye(g) PROVE TypeOK'
  BY <1>0, <1>12 DEF GuestReceivesGoodbye, TypeOK, States
<1>13. ASSUME NEW g \in Guests, GuestLeaves(g) PROVE TypeOK'
  BY <1>0, <1>13, MessageType DEF GuestLeaves, Stops, TypeOK, States
<1>14. CASE HostLeaves
  <2>1. toGuest' \in [Guests -> SUBSET GuestMessages]
    BY <1>14, BroadcastType, MessageType DEF HostLeaves
  <2>2. stops' \in Nat
    BY <1>14 DEF HostLeaves, Stops, TypeOK
  <2>3. state' \in [Players -> States]
    BY <1>0, <1>14 DEF HostLeaves, TypeOK, States
  <2> QED BY <1>14, <2>1, <2>2, <2>3 DEF HostLeaves, TypeOK
<1>15. ASSUME NEW p \in Players, BootFails(p) PROVE TypeOK'
  BY <1>15, FailsType DEF BootFails, Stops, TypeOK
<1>16. ASSUME NEW p \in Players, WaitTimesOut(p) PROVE TypeOK'
  BY <1>16, FailsType DEF WaitTimesOut, Stops, TypeOK
<1>17. ASSUME NEW p \in Players, NEW h \in Hashes, Boot(p, h) PROVE TypeOK'
  <2>1. /\ launch' \in [Players -> BOOLEAN]
        /\ booted' \in [Players -> Hashes \cup {NoHash}]
        /\ state' \in [Players -> States]
    BY <1>17 DEF Boot, TypeOK, States
  <2>2. CASE p = Host
    <3>1. room' \in RoomType
      BY <1>0, <1>17, <2>2, SetLoadedType DEF Boot, TypeOK
    <3>2. toGuest' \in [Guests -> SUBSET GuestMessages]
      BY <1>17, <2>2, <3>1, PayloadType, BroadcastType DEF Boot
    <3>3. hashAt' \in [Slots -> Hashes \cup {NoHash}]
      BY <1>17, <2>2 DEF Boot, TypeOK
    <3> QED BY <1>17, <2>1, <2>2, <3>1, <3>2, <3>3 DEF Boot, TypeOK
  <2>3. CASE p \in Guests
    <3>1. p # Host
      BY <2>3
    <3>2. [type |-> "Loaded", from |-> p, slot |-> localSlot[p], hash |-> h]
             \in HostMessages
      BY <2>3 DEF TypeOK, HostMessages
    <3> QED BY <1>17, <2>1, <3>1, <3>2 DEF Boot, TypeOK
  <2> QED BY <2>2, <2>3 DEF Players
<1>18. CASE UNCHANGED vars
  BY <1>18 DEF vars, TypeOK
<1> QED
  BY <1>1, <1>2, <1>3, <1>4, <1>5, <1>6, <1>7, <1>8, <1>9, <1>10,
     <1>11, <1>12, <1>13, <1>14, <1>15, <1>16, <1>17, <1>18
     DEF Next, HostStep, GuestStep

LEMMA TypeInit == Init => TypeOK
<1> SUFFICES ASSUME Init PROVE TypeOK
  OBVIOUS
<1> USE GuestsAssumption, MaxGuestsAssumption, GridFits
<1>1. Cardinality(Guests) \in Nat /\ Cardinality(Guests) <= MaxGuests
  BY DEF GuestSlots
<1>2. room \in RoomType
  BY <1>1 DEF Init, RoomType, Phases
<1>3. \A v \in 0 .. room.gen : JoinView(v) \in Views
  <2>1. room.gen = Cardinality(Guests) + 1
    BY DEF Init
  <2>2. \A v \in 0 .. room.gen : 0 .. v - 1 \subseteq Slots
    BY <1>1, <2>1 DEF Slots
  <2> QED BY <1>1, <2>1, <2>2 DEF JoinView, Views, Phases
<1>4. view \in [Guests -> Views]
  BY <1>3 DEF Init
<1>5. toGuest \in [Guests -> SUBSET GuestMessages]
  BY <1>2, PayloadType DEF Init
<1>6. NoDescriptor \in Descriptors
  BY DEF NoDescriptor, Descriptors
<1>7. state \in [Players -> States]
  BY DEF Init, States
<1> QED BY <1>2, <1>4, <1>5, <1>6, <1>7 DEF Init, TypeOK

(* Every reachable state of the launch is well formed: slots stay on the   *)
(* grid although Lobby::leave renumbers them, and every datagram names a   *)
(* slot, phase and checkpoint that exist.                                  *)
THEOREM TypeCorrect == Spec => []TypeOK
BY TypeInit, TypeStep, PTL DEF Spec

-----------------------------------------------------------------------------
(* FrameZeroAgreement.  Every action but PrepareLaunch and ReleaseStart    *)
(* keeps the invariant for the same reasons, stated by four lemmas.        *)

(* local_bootstrap_hash_ is set once per launch. *)
BootKept == \A p \in Players : booted[p] # NoHash => booted'[p] = booted[p]

(* A step that sends no new kind of datagram and releases nobody. *)
Quiet ==
    /\ room'.phase = room.phase
    /\ \A p \in Players : InRoom(room', p) => InRoom(room, p)
    /\ BootKept
    /\ state'[Host] = "Running" => state[Host] = "Running"
    /\ \A g \in Guests : state'[g] = "Running" => Released(g)
    /\ \A g \in Guests : \A m \in toGuest'[g] :
          \/ m \in toGuest[g]
          \/ m = Goodbye
          \/ InRoom(room', g) /\ m = LobbyState(room')

LEMMA QuietKeepsRelease ==
    ASSUME TypeOK, ReleaseAgrees, Quiet
    PROVE  ReleaseAgrees'
<1>0. Host \in Players /\ Guests \subseteq Players
  BY DEF Players
<1>1. Simulating(Host)' => room'.phase = "Running"
  BY DEF Quiet, ReleaseAgrees, Simulating
<1>2. room'.phase = "Running" =>
         \A p \in Occupants(room') : booted'[p] # NoHash /\ booted'[p] = booted'[Host]
  <2> SUFFICES ASSUME room'.phase = "Running", NEW p \in Occupants(room')
               PROVE  booted'[p] # NoHash /\ booted'[p] = booted'[Host]
    OBVIOUS
  <2>1. p \in Occupants(room) /\ Host \in Occupants(room)
    BY <1>0 DEF Quiet, Occupants, InRoom
  <2>2. booted[p] # NoHash /\ booted[p] = booted[Host] /\ p \in Players
    BY <2>1 DEF ReleaseAgrees, Quiet, Occupants
  <2> QED BY <1>0, <2>2 DEF Quiet, BootKept
<1>3. ASSUME NEW g \in Guests, Released(g)'
      PROVE  room'.phase = "Running" /\ booted'[g] # NoHash /\ booted'[g] = booted'[Host]
  <2>1. Released(g) \/ (room'.phase = "Running" /\ g \in Occupants(room'))
    <3>1. CASE state'[g] = "Running"
      BY <3>1 DEF Quiet
    <3>2. ASSUME NEW m \in toGuest'[g], m.type = "Start", m.stage = 1
          PROVE  Released(g)
      <4>1. m # Goodbye /\ m # LobbyState(room')
        BY <3>2 DEF Goodbye, LobbyState
      <4> QED BY <3>2, <4>1 DEF Quiet, Released
    <3>3. ASSUME NEW m \in toGuest'[g], m.type = "LobbyState", m.lobby.phase = "Running"
          PROVE  Released(g) \/ (room'.phase = "Running" /\ g \in Occupants(room'))
      <4>1. m # Goodbye
        BY <3>3 DEF Goodbye
      <4>2. m = LobbyState(room') => room'.phase = "Running"
        BY <3>3 DEF LobbyState, LobbyPayload
      <4>3. InRoom(room', g) => g \in Occupants(room')
        BY <1>0 DEF Occupants
      <4>4. CASE m \in toGuest[g]
        BY <3>3, <4>4 DEF Released
      <4> QED BY <4>1, <4>2, <4>3, <4>4 DEF Quiet
    <3> QED BY <1>3, <3>1, <3>2, <3>3 DEF Released, Simulating
  <2>2. CASE Released(g)
    <3>1. room.phase = "Running" /\ booted[g] # NoHash /\ booted[g] = booted[Host]
      BY <2>2 DEF ReleaseAgrees
    <3> QED BY <1>0, <3>1 DEF Quiet, BootKept
  <2>3. CASE room'.phase = "Running" /\ g \in Occupants(room')
    BY <2>3, <1>2
  <2> QED BY <2>1, <2>2, <2>3
<1> QED BY <1>1, <1>2, <1>3 DEF ReleaseAgrees

LEMMA KeepsReports ==
    ASSUME TypeOK, ReportsTruthful, BootKept,
           \A m \in toHost' : m.type = "Loaded" => m \in toHost
    PROVE  ReportsTruthful'
<1> SUFFICES ASSUME NEW m \in toHost', m.type = "Loaded"
             PROVE  m.hash = booted'[m.from]
  BY DEF ReportsTruthful
<1>1. m \in toHost /\ m.hash = booted[m.from]
  BY DEF ReportsTruthful
<1>2. m.hash \in Hashes /\ m.from \in Players
  BY <1>1 DEF TypeOK, HostMessages, Players
<1> QED BY <1>1, <1>2, HashesAssumption DEF BootKept

LEMMA KeepsLoaded ==
    ASSUME TypeOK, LoadedMeansReported, BootKept,
           room'.slot = room.slot, room'.loaded \subseteq room.loaded, hashAt' = hashAt
    PROVE  LoadedMeansReported'
<1> SUFFICES ASSUME NEW p \in room'.loaded, InRoom(room', p)
             PROVE  booted'[p] # NoHash /\ hashAt'[SlotOf(room', p)] = booted'[p]
  BY DEF LoadedMeansReported
<1>1. p \in Players /\ InRoom(room, p) /\ SlotOf(room', p) = SlotOf(room, p)
  BY DEF InRoom, SlotOf, TypeOK, RoomType
<1>2. booted[p] # NoHash /\ hashAt[SlotOf(room, p)] = booted[p]
  BY <1>1 DEF LoadedMeansReported
<1> QED BY <1>1, <1>2 DEF BootKept

(* The Kick and Disconnect handlers' Lobby::leave. *)
LEMMA LeaveStep ==
    ASSUME TypeOK, SlotsDistinct, NEW g \in Guests, InRoom(room, g),
           room' = Leave(room, g)
    PROVE  /\ SlotsDistinct'
           /\ LoadedMeansReported'
           /\ room'.phase = room.phase
           /\ \A p \in Players : InRoom(room', p) => InRoom(room, p)
<1> USE GuestsAssumption
<1>1. SlotsDistinct'
  BY LeaveKeepsSlotsDistinct DEF SlotsDistinct, TypeOK, InRoom
<1>2. room'.loaded = {} /\ room'.phase = room.phase
  BY DEF Leave, WithSlots
<1>3. LoadedMeansReported'
  BY <1>2 DEF LoadedMeansReported
<1>4. ASSUME NEW p \in Guests, InRoom(room', p) PROVE InRoom(room, p)
  <2>1. room.slot[p] \in Slots /\ room.slot[g] \in Slots
    BY DEF TypeOK, RoomType
  <2>2. room'.slot[p] = IF p = g THEN 0
                        ELSE IF room.slot[p] > room.slot[g] THEN room.slot[p] - 1
                        ELSE room.slot[p]
    BY DEF Leave, WithSlots
  <2> QED BY <1>4, <2>1, <2>2, MaxGuestsAssumption DEF InRoom, Slots
<1>5. InRoom(room, Host)
  BY DEF InRoom
<1> QED BY <1>1, <1>2, <1>3, <1>4, <1>5 DEF Players

LEMMA BroadcastSends ==
    ASSUME TypeOK, NEW r, NEW ms, NEW g \in Guests, NEW m \in Broadcast(r, ms)[g]
    PROVE  m \in toGuest[g] \/ (InRoom(r, g) /\ m \in ms)
BY DEF Broadcast, TypeOK

(* The parts of LaunchInv beside TypeOK. *)
Agreement ==
    SlotsDistinct /\ ReportsTruthful /\ LoadedMeansReported /\ ReleaseAgrees

(* A step that changes nothing of the room but the ready flags. *)
LEMMA PlainStep ==
    ASSUME TypeOK, Agreement, Quiet,
           room'.slot = room.slot, room'.loaded \subseteq room.loaded, hashAt' = hashAt,
           \A m \in toHost' : m.type = "Loaded" => m \in toHost
    PROVE  Agreement'
<1>1. SlotsDistinct'
  BY DEF Agreement, SlotsDistinct
<1>2. ReportsTruthful' /\ LoadedMeansReported' /\ ReleaseAgrees'
  BY KeepsReports, KeepsLoaded, QuietKeepsRelease DEF Agreement, Quiet
<1> QED BY <1>1, <1>2 DEF Agreement

LEMMA FailsStep ==
    ASSUME TypeOK, Agreement, NEW p \in Players, Fails(p),
           UNCHANGED <<room, hashAt, booted>>
    PROVE  Agreement'
<1>0. Host \in Players /\ Guests \subseteq Players
  BY DEF Players
<1>1. CASE p = Host
  <2>1. \A g \in Guests : \A m \in toGuest'[g] : m \in toGuest[g] \/ m = Goodbye
    BY <1>1, BroadcastSends DEF Fails, HostFails
  <2>2. state' = [state EXCEPT ![Host] = "Failed"] /\ toHost' = toHost
    BY <1>1 DEF Fails, HostFails
  <2>3. Quiet
    BY <1>0, <2>1, <2>2 DEF Quiet, BootKept, TypeOK, Released, Simulating
  <2> QED BY <2>2, <2>3, PlainStep
<1>2. CASE p # Host
  <2>1. /\ state' = [state EXCEPT ![p] = "Failed"]
        /\ toHost' = toHost \cup {Departure(p)}
        /\ toGuest' = toGuest
    BY <1>2 DEF Fails, GuestFails
  <2>2. Quiet
    BY <1>0, <2>1 DEF Quiet, BootKept, TypeOK, Released, Simulating
  <2>3. \A m \in toHost' : m.type = "Loaded" => m \in toHost
    BY <2>1 DEF Departure
  <2> QED BY <2>2, <2>3, PlainStep
<1> QED BY <1>1, <1>2

LEMMA PrepareStep ==
    ASSUME TypeOK, Agreement, PrepareLaunch
    PROVE  Agreement'
<1>0. Host \in Players /\ Guests \subseteq Players
  BY DEF Players
<1>1. /\ room.phase = "Waiting" /\ room'.phase = "Loading"
      /\ room'.slot = room.slot /\ room'.loaded = {}
  BY DEF PrepareLaunch, CanStart, BeginLoading
<1>2. SlotsDistinct' /\ LoadedMeansReported'
  BY <1>1 DEF Agreement, SlotsDistinct, LoadedMeansReported
<1>3. ReportsTruthful'
  <2>1. toHost' = toHost /\ \A g \in Guests : booted'[g] = booted[g]
    BY <1>0, GuestsAssumption DEF PrepareLaunch, TypeOK
  <2>2. \A m \in toHost : m.type = "Loaded" => m.from \in Guests
    BY DEF TypeOK, HostMessages
  <2> QED BY <2>1, <2>2 DEF Agreement, ReportsTruthful
<1>4. ASSUME NEW g \in Guests PROVE ~Released(g)'
  <2>1. ~Released(g)
    BY <1>1 DEF Agreement, ReleaseAgrees
  <2>2. state'[g] = state[g]
    BY <1>0, GuestsAssumption DEF PrepareLaunch, TypeOK
  <2>3. ASSUME NEW m \in toGuest'[g]
        PROVE  \/ m \in toGuest[g]
               \/ m = Start(0, descriptor'[Host])
               \/ m = LobbyState(room')
    BY BroadcastSends DEF PrepareLaunch
  <2>4. /\ Start(0, descriptor'[Host]).stage = 0
        /\ Start(0, descriptor'[Host]).type = "Start"
    BY DEF Start
  <2>5. /\ LobbyState(room').type = "LobbyState"
        /\ LobbyState(room').lobby.phase = "Loading"
    BY <1>1 DEF LobbyState, LobbyPayload
  <2> QED BY <2>1, <2>2, <2>3, <2>4, <2>5 DEF Released, Simulating
<1>5. state'[Host] = "Loading"
  BY <1>0 DEF PrepareLaunch, TypeOK
<1>6. ReleaseAgrees'
  BY <1>1, <1>4, <1>5 DEF ReleaseAgrees, Simulating
<1> QED BY <1>2, <1>3, <1>6 DEF Agreement

LEMMA GateStep ==
    ASSUME TypeOK, Agreement, ReleaseStart
    PROVE  Agreement'
<1>0. Host \in Players /\ Guests \subseteq Players
  BY DEF Players
<1>1. /\ room'.phase = "Running" /\ room'.slot = room.slot /\ room'.loaded = room.loaded
      /\ booted' = booted /\ hashAt' = hashAt /\ toHost' = toHost
  BY DEF ReleaseStart, BeginRunning
<1>2. SlotsDistinct'
  BY <1>1 DEF Agreement, SlotsDistinct
<1>3. ReportsTruthful' /\ LoadedMeansReported'
  BY <1>1, KeepsReports, KeepsLoaded DEF Agreement, BootKept
<1>4. ASSUME NEW p \in Players, InRoom(room, p)
      PROVE  /\ booted[p] # NoHash
             /\ hashAt[SlotOf(room, p)] = booted[p]
             /\ SlotOf(room, p) \in OccupiedSlots(room)
  BY <1>4 DEF ReleaseStart, GateOpens, EveryoneLoaded, Agreement,
              LoadedMeansReported, Occupants, OccupiedSlots
<1>5. ASSUME NEW p \in Players, InRoom(room, p)
      PROVE  booted[p] # NoHash /\ booted[p] = booted[Host]
  <2>1. InRoom(room, Host)
    BY DEF InRoom
  <2> QED BY <1>0, <1>4, <1>5, <2>1 DEF ReleaseStart, CheckpointsMatch
<1>6. \A p \in Players : InRoom(room', p) => InRoom(room, p)
  BY <1>1 DEF InRoom
<1>7. ASSUME NEW g \in Guests, Released(g)'
      PROVE  booted[g] # NoHash /\ booted[g] = booted[Host]
  <2>1. state'[g] = state[g]
    BY <1>0, GuestsAssumption DEF ReleaseStart, TypeOK
  <2>2. \A m \in toGuest'[g] : m \in toGuest[g] \/ InRoom(room', g)
    BY BroadcastSends DEF ReleaseStart
  <2>3. Released(g) \/ InRoom(room', g)
    BY <1>7, <2>1, <2>2 DEF Released, Simulating
  <2> QED BY <1>0, <1>5, <1>6, <2>3 DEF Agreement, ReleaseAgrees
<1>8. ReleaseAgrees'
  BY <1>1, <1>5, <1>6, <1>7 DEF ReleaseAgrees, Occupants
<1> QED BY <1>2, <1>3, <1>8 DEF Agreement

(* A racer's report reaches Player 1: bootstrap_hashes_ of its slot.  No   *)
(* other racer has that slot, so no other loaded flag changes its meaning. *)
LEMMA LoadedReportStep ==
    ASSUME TypeOK, Agreement, NEW m \in toHost, HostReceivesLoaded(m)
    PROVE  Agreement'
<1> USE GuestsAssumption
<1>0. Host \in Players /\ Guests \subseteq Players
  BY DEF Players
<1>1. m.from \in Guests /\ m.hash \in Hashes /\ m.hash = booted[m.from]
  BY DEF HostReceivesLoaded, TypeOK, HostMessages, Agreement, ReportsTruthful
<1>2. /\ room'.slot = room.slot /\ room'.phase = room.phase
      /\ room'.loaded \subseteq room.loaded \cup {m.from}
  BY DEF HostReceivesLoaded, SetLoaded
<1>3. Quiet
  <2>1. \A g \in Guests : \A x \in toGuest'[g] :
           x \in toGuest[g] \/ (InRoom(room', g) /\ x = LobbyState(room'))
    BY BroadcastSends DEF HostReceivesLoaded
  <2>2. \A p \in Players : InRoom(room', p) => InRoom(room, p)
    BY <1>2 DEF InRoom
  <2>3. state' = state /\ booted' = booted
    BY DEF HostReceivesLoaded
  <2> QED BY <1>2, <2>1, <2>2, <2>3 DEF Quiet, BootKept, Released, Simulating
<1>4. SlotsDistinct' /\ ReportsTruthful' /\ ReleaseAgrees'
  <2>1. toHost' = toHost
    BY DEF HostReceivesLoaded
  <2> QED BY <1>2, <1>3, <2>1, KeepsReports, QuietKeepsRelease
          DEF Agreement, SlotsDistinct, Quiet
<1>5. ASSUME NEW p \in room'.loaded, InRoom(room', p)
      PROVE  booted'[p] # NoHash /\ hashAt'[SlotOf(room', p)] = booted'[p]
  <2>1. booted' = booted /\ hashAt' = [hashAt EXCEPT ![m.slot] = m.hash]
        /\ m.slot = room.slot[m.from] /\ InRoom(room, m.from)
    BY DEF HostReceivesLoaded, FromItsSlot
  <2>2. InRoom(room, p) /\ SlotOf(room', p) = SlotOf(room, p)
    BY <1>2, <1>5 DEF InRoom, SlotOf
  <2>3. SlotOf(room, m.from) = m.slot /\ m.slot \in Slots /\ m.slot # 0
    BY <1>1, <2>1 DEF SlotOf, InRoom, TypeOK, RoomType
  <2>4. CASE p = m.from
    BY <1>1, <2>1, <2>2, <2>3, <2>4, HashesAssumption DEF TypeOK
  <2>5. CASE p # m.from
    <3>1. p \in room.loaded /\ p \in Players
      BY <1>2, <1>5, <2>5 DEF TypeOK, RoomType
    <3>2. booted[p] # NoHash /\ hashAt[SlotOf(room, p)] = booted[p]
      BY <2>2, <3>1 DEF Agreement, LoadedMeansReported
    <3>3. SlotOf(room, p) # m.slot
      BY <1>1, <2>1, <2>2, <2>3, <2>5, <3>1
         DEF SlotOf, Agreement, SlotsDistinct, InRoom, Players
    <3>4. SlotOf(room, p) \in Slots
      BY <3>1, SlotOfType DEF TypeOK
    <3> QED BY <2>1, <2>2, <3>2, <3>3, <3>4 DEF TypeOK
  <2> QED BY <2>4, <2>5
<1>6. LoadedMeansReported'
  BY <1>5 DEF LoadedMeansReported
<1> QED BY <1>4, <1>6 DEF Agreement

LEMMA BootStep ==
    ASSUME TypeOK, Agreement, NEW p \in Players, NEW h \in Hashes, Boot(p, h)
    PROVE  Agreement'
<1> USE GuestsAssumption, HashesAssumption
<1>0. Host \in Players /\ Guests \subseteq Players
  BY DEF Players
<1>1. /\ booted' = [booted EXCEPT ![p] = h]
      /\ booted[p] = NoHash
      /\ state' = [state EXCEPT ![p] = "Loading"]
  BY DEF Boot
<1>2. BootKept /\ booted'[p] = h
  BY <1>1 DEF BootKept, TypeOK
<1>3. /\ state'[Host] = "Running" => state[Host] = "Running"
      /\ \A g \in Guests : state'[g] = "Running" => Released(g)
  BY <1>0, <1>1 DEF TypeOK, Released, Simulating
<1>4. CASE p = Host
  <2>1. /\ hashAt' = [hashAt EXCEPT ![0] = h] /\ toHost' = toHost
        /\ room' = SetLoaded(room, Host)
        /\ toGuest' = Broadcast(room', {LobbyState(room')})
    BY <1>4 DEF Boot
  <2>2. /\ room'.slot = room.slot /\ room'.phase = room.phase
        /\ room'.loaded \subseteq room.loaded \cup {Host}
    BY <2>1 DEF SetLoaded
  <2>3. Quiet
    <3>1. \A g \in Guests : \A x \in toGuest'[g] :
             x \in toGuest[g] \/ (InRoom(room', g) /\ x = LobbyState(room'))
      BY <2>1, BroadcastSends
    <3>2. \A q \in Players : InRoom(room', q) => InRoom(room, q)
      BY <2>2 DEF InRoom
    <3> QED BY <1>2, <1>3, <2>2, <3>1, <3>2 DEF Quiet
  <2>4. SlotsDistinct' /\ ReportsTruthful' /\ ReleaseAgrees'
    BY <1>2, <2>1, <2>2, <2>3, KeepsReports, QuietKeepsRelease
       DEF Agreement, SlotsDistinct
  <2>5. ASSUME NEW q \in room'.loaded, InRoom(room', q)
        PROVE  booted'[q] # NoHash /\ hashAt'[SlotOf(room', q)] = booted'[q]
    <3>1. InRoom(room, q) /\ SlotOf(room', q) = SlotOf(room, q)
      BY <2>2, <2>5 DEF InRoom, SlotOf
    <3>2. CASE q = Host
      <4>1. SlotOf(room, q) = 0 /\ 0 \in Slots
        BY <3>2, MaxGuestsAssumption DEF SlotOf, Slots
      <4> QED BY <1>2, <1>4, <2>1, <3>1, <3>2, <4>1 DEF TypeOK
    <3>3. CASE q # Host
      <4>1. q \in room.loaded /\ q \in Players
        BY <2>2, <2>5, <3>3 DEF TypeOK, RoomType
      <4>2. booted[q] # NoHash /\ hashAt[SlotOf(room, q)] = booted[q]
        BY <3>1, <4>1 DEF Agreement, LoadedMeansReported
      <4>3. SlotOf(room, q) # 0 /\ SlotOf(room, q) \in Slots
        BY <3>1, <3>3, <4>1, SlotOfType DEF SlotOf, InRoom, TypeOK
      <4> QED BY <1>2, <2>1, <3>1, <4>1, <4>2, <4>3 DEF TypeOK, BootKept
    <3> QED BY <3>2, <3>3
  <2>6. LoadedMeansReported'
    BY <2>5 DEF LoadedMeansReported
  <2> QED BY <2>4, <2>6 DEF Agreement
<1>5. CASE p # Host
  <2>1. /\ toHost' = toHost \cup {[type |-> "Loaded", from |-> p,
                                  slot |-> localSlot[p], hash |-> h]}
        /\ UNCHANGED <<room, hashAt, toGuest>>
    BY <1>5 DEF Boot
  <2>2. Quiet
    BY <1>2, <1>3, <2>1 DEF Quiet
  <2>3. SlotsDistinct' /\ LoadedMeansReported' /\ ReleaseAgrees'
    BY <1>2, <2>1, <2>2, KeepsLoaded, QuietKeepsRelease DEF Agreement, SlotsDistinct
  <2>4. ASSUME NEW m \in toHost', m.type = "Loaded"
        PROVE  m.hash = booted'[m.from]
    <3>1. CASE m \in toHost
      <4>1. m.hash = booted[m.from] /\ m.hash \in Hashes /\ m.from \in Players
        BY <1>0, <2>4, <3>1
           DEF Agreement, ReportsTruthful, TypeOK, HostMessages
      <4> QED BY <4>1, <1>2 DEF BootKept
    <3>2. CASE m = [type |-> "Loaded", from |-> p, slot |-> localSlot[p], hash |-> h]
      BY <1>2, <3>2
    <3> QED BY <2>1, <3>1, <3>2
  <2>5. ReportsTruthful'
    BY <2>4 DEF ReportsTruthful
  <2> QED BY <2>3, <2>5 DEF Agreement
<1> QED BY <1>4, <1>5

LEMMA LaunchStep == LaunchInv /\ [Next]_vars => LaunchInv'
<1> SUFFICES ASSUME TypeOK, Agreement, [Next]_vars PROVE Agreement'
  BY TypeStep DEF LaunchInv, Agreement
<1> USE GuestsAssumption
<1>0. Host \in Players /\ Guests \subseteq Players
  BY DEF Players
<1>1. ASSUME NEW p \in Players, NEW b \in BOOLEAN, Ready(p, b) PROVE Agreement'
  <2>1. /\ room'.slot = room.slot /\ room'.loaded = room.loaded
        /\ room'.phase = room.phase
    BY <1>1 DEF Ready, SetReady
  <2>2. \A g \in Guests : \A m \in toGuest'[g] :
           m \in toGuest[g] \/ (InRoom(room', g) /\ m = LobbyState(room'))
    BY <1>1, BroadcastSends DEF Ready
  <2>3. /\ state' = state /\ booted' = booted /\ hashAt' = hashAt /\ toHost' = toHost
    BY <1>1 DEF Ready
  <2>4. \A q \in Players : InRoom(room', q) => InRoom(room, q)
    BY <2>1 DEF InRoom
  <2>5. Quiet
    BY <2>1, <2>2, <2>3, <2>4 DEF Quiet, BootKept, Released, Simulating
  <2> QED BY <2>1, <2>3, <2>5, PlainStep
<1>2. ASSUME UNCHANGED <<room, booted, hashAt, state, toGuest, toHost>>
      PROVE  Agreement'
  <2>1. Quiet
    BY <1>2 DEF Quiet, BootKept, Released, Simulating
  <2> QED BY <1>2, <2>1, PlainStep
<1>3. CASE RequestStart \/ CancelCountdown
  <2>1. \A g \in Guests : \A m \in toGuest'[g] :
           m \in toGuest[g] \/ (InRoom(room', g) /\ m = LobbyState(room'))
    BY <1>3, BroadcastSends DEF RequestStart, CancelCountdown
  <2>2. UNCHANGED <<room, booted, hashAt, state, toHost>>
    BY <1>3 DEF RequestStart, CancelCountdown
  <2>3. Quiet
    BY <2>1, <2>2 DEF Quiet, BootKept, Released, Simulating
  <2> QED BY <2>2, <2>3, PlainStep
<1>4. ASSUME NEW g \in Guests, InRoom(room, g), room' = Leave(room, g),
             UNCHANGED <<booted, hashAt, state, toHost>>,
             \A x \in Guests : \A m \in toGuest'[x] :
                \/ m \in toGuest[x]
                \/ m = Goodbye
                \/ InRoom(room', x) /\ m = LobbyState(room')
      PROVE  Agreement'
  <2>1. /\ SlotsDistinct' /\ LoadedMeansReported'
        /\ room'.phase = room.phase
        /\ \A p \in Players : InRoom(room', p) => InRoom(room, p)
    BY <1>4, LeaveStep DEF Agreement
  <2>2. Quiet
    BY <1>4, <2>1 DEF Quiet, BootKept, Released, Simulating
  <2>3. ReportsTruthful' /\ ReleaseAgrees'
    BY <1>4, <2>2, KeepsReports, QuietKeepsRelease DEF Agreement, Quiet
  <2> QED BY <2>1, <2>3 DEF Agreement
<1>5. ASSUME NEW g \in Guests, Kick(g) PROVE Agreement'
  <2>1. ASSUME NEW x \in Guests, NEW m \in toGuest'[x]
        PROVE  \/ m \in toGuest[x]
               \/ m = Goodbye
               \/ InRoom(room', x) /\ m = LobbyState(room')
    <3>1. DOMAIN Broadcast(room', {LobbyState(room')}) = Guests
      BY DEF Broadcast
    <3>2. m \in Broadcast(room', {LobbyState(room')})[x] \/ m = Goodbye
      BY <1>5, <2>1, <3>1 DEF Kick
    <3> QED BY <3>2, BroadcastSends
  <2> QED BY <1>4, <1>5, <2>1 DEF Kick
<1>6. ASSUME NEW g \in Guests, HostReceivesDeparture(g) PROVE Agreement'
  <2>1. CASE HostFails /\ UNCHANGED room
    BY <1>0, <1>6, <2>1, FailsStep DEF HostReceivesDeparture, Fails
  <2>2. CASE /\ room' = Leave(room, g)
             /\ toGuest' = Broadcast(room', {LobbyState(room')})
             /\ UNCHANGED state
    <3>1. \A x \in Guests : \A m \in toGuest'[x] :
             m \in toGuest[x] \/ (InRoom(room', x) /\ m = LobbyState(room'))
      BY <2>2, BroadcastSends
    <3> QED BY <1>4, <1>6, <2>2, <3>1 DEF HostReceivesDeparture
  <2> QED BY <1>6, <2>1, <2>2 DEF HostReceivesDeparture
<1>7. CASE RefuseStart
  BY <1>0, <1>7, FailsStep DEF RefuseStart, Fails
<1>8. ASSUME NEW g \in Guests, NEW m \in toGuest[g], GuestReceivesLobby(g, m)
      PROVE  Agreement'
  <2>1. UNCHANGED <<room, booted, hashAt, toGuest, toHost>>
    BY <1>8 DEF GuestReceivesLobby
  <2>2. /\ state'[Host] = state[Host]
        /\ \A x \in Guests : state'[x] = "Running" => Released(x)
    BY <1>0, <1>8 DEF GuestReceivesLobby, LobbyReleases, TypeOK, Released, Simulating
  <2>3. Quiet
    BY <2>1, <2>2 DEF Quiet, BootKept
  <2> QED BY <2>1, <2>3, PlainStep
<1>9. ASSUME NEW g \in Guests, NEW m \in toGuest[g], GuestReceivesStart(g, m)
      PROVE  Agreement'
  <2>1. UNCHANGED <<room, booted, hashAt, toGuest>>
    BY <1>9 DEF GuestReceivesStart
  <2>2. CASE GuestFails(g)
    BY <1>0, <2>1, <2>2, FailsStep DEF Fails
  <2>3. CASE /\ \/ state' = state
                \/ state' = [state EXCEPT ![g] = "Loading"]
                \/ m.stage = 1 /\ state' = [state EXCEPT ![g] = "Running"]
             /\ UNCHANGED toHost
    <3>1. /\ state'[Host] = state[Host]
          /\ \A x \in Guests : state'[x] = "Running" => Released(x)
      BY <1>0, <1>9, <2>3 DEF GuestReceivesStart, TypeOK, Released, Simulating
    <3>2. Quiet
      BY <2>1, <3>1 DEF Quiet, BootKept
    <3> QED BY <2>1, <2>3, <3>2, PlainStep
  <2> QED BY <1>9, <2>2, <2>3, Zenon DEF GuestReceivesStart
<1>10. ASSUME NEW g \in Guests, NEW s \in {"Failed", "Offline"},
              state' = [state EXCEPT ![g] = s],
              toHost' \subseteq toHost \cup {Departure(g)},
              UNCHANGED <<room, booted, hashAt, toGuest>>
       PROVE  Agreement'
  <2>1. Quiet
    BY <1>0, <1>10 DEF Quiet, BootKept, TypeOK, Released, Simulating
  <2>2. \A m \in toHost' : m.type = "Loaded" => m \in toHost
    BY <1>10 DEF Departure
  <2> QED BY <1>10, <2>1, <2>2, PlainStep
<1>11. ASSUME NEW g \in Guests, GuestReceivesGoodbye(g) PROVE Agreement'
  BY <1>10, <1>11 DEF GuestReceivesGoodbye
<1>12. ASSUME NEW g \in Guests, GuestLeaves(g) PROVE Agreement'
  BY <1>10, <1>12 DEF GuestLeaves
<1>13. CASE HostLeaves
  <2>1. /\ state' = [state EXCEPT ![Host] = "Offline"]
        /\ UNCHANGED <<room, booted, hashAt, toHost>>
    BY <1>13 DEF HostLeaves
  <2>2. \A g \in Guests : \A m \in toGuest'[g] : m \in toGuest[g] \/ m = Goodbye
    BY <1>13, BroadcastSends DEF HostLeaves
  <2>3. Quiet
    BY <1>0, <2>1, <2>2 DEF Quiet, BootKept, TypeOK, Released, Simulating
  <2> QED BY <2>1, <2>3, PlainStep
<1>14. ASSUME NEW p \in Players, BootFails(p) PROVE Agreement'
  BY <1>14, FailsStep DEF BootFails
<1>15. ASSUME NEW p \in Players, WaitTimesOut(p) PROVE Agreement'
  BY <1>15, FailsStep DEF WaitTimesOut
<1>16. CASE UNCHANGED vars
  BY <1>2, <1>16 DEF vars
<1> QED
  BY <1>1, <1>3, <1>5, <1>6, <1>7, <1>8, <1>9, <1>11, <1>12, <1>13, <1>14,
     <1>15, <1>16, PrepareStep, GateStep, LoadedReportStep, BootStep
     DEF Next, HostStep, GuestStep

LEMMA LaunchInit == Init => LaunchInv
<1> SUFFICES ASSUME Init PROVE Agreement
  BY TypeInit DEF LaunchInv, Agreement
<1> USE GuestsAssumption
<1>1. SlotsDistinct /\ ReportsTruthful /\ LoadedMeansReported
  BY DEF Init, SlotsDistinct, ReportsTruthful, LoadedMeansReported
<1>2. room.phase = "Waiting" /\ state[Host] = "Hosting"
  BY DEF Init, Players
<1>3. ASSUME NEW g \in Guests PROVE ~Released(g)
  <2>1. state[g] = "Lobby" /\ toGuest[g] = {LobbyState(room)}
    BY DEF Init, Players
  <2>2. LobbyState(room).type = "LobbyState" /\ LobbyState(room).lobby.phase = "Waiting"
    BY <1>2 DEF LobbyState, LobbyPayload
  <2> QED BY <2>1, <2>2 DEF Released, Simulating
<1>4. ReleaseAgrees
  BY <1>2, <1>3 DEF ReleaseAgrees, Simulating
<1> QED BY <1>1, <1>4 DEF Agreement

(* LaunchInv is an invariant: a loaded flag always stands for the racer's  *)
(* own checkpoint, although bootstrap_hashes_ is indexed by a slot that    *)
(* Lobby::leave may give to somebody else.                                 *)
THEOREM LaunchInvariant == Spec => []LaunchInv
BY LaunchInit, LaunchStep, PTL DEF Spec

(* However datagrams are lost, delayed, duplicated or reordered, whoever   *)
(* leaves or is removed and whenever, two machines that simulate booted    *)
(* into the same state.                                                    *)
THEOREM FrameZeroSafety == Spec => []FrameZeroAgreement
<1>1. LaunchInv => FrameZeroAgreement
  <2> SUFFICES ASSUME LaunchInv, NEW p \in Players, NEW q \in Players,
                      Simulating(p), Simulating(q)
               PROVE  booted[p] # NoHash /\ booted[p] = booted[q]
    BY DEF FrameZeroAgreement
  <2>1. ASSUME NEW x \in Players, Simulating(x)
        PROVE  booted[x] # NoHash /\ booted[x] = booted[Host]
    <3>1. CASE x = Host
      <4>1. Host \in Occupants(room)
        BY DEF Occupants, InRoom, Players
      <4> QED BY <2>1, <3>1, <4>1 DEF LaunchInv, ReleaseAgrees
    <3>2. CASE x \in Guests
      BY <2>1, <3>2 DEF LaunchInv, ReleaseAgrees, Released
    <3> QED BY <3>1, <3>2 DEF Players
  <2> QED BY <2>1
<1> QED BY <1>1, LaunchInvariant, PTL

-----------------------------------------------------------------------------
(* What one step does to the state and the launch requests of a machine. *)

Rests(p) == state'[p] = state[p] /\ launches'[p] = launches[p]

Launches(p) ==
    /\ state[p] \in {"Hosting", "Lobby"} /\ state'[p] = "Loading"
    /\ launches'[p] = launches[p] + 1

Proceeds(p) ==
    Alive(p) /\ state'[p] \in {"Loading", "Running"} /\ launches'[p] = launches[p]

Stopped(p) == state'[p] \in {"Failed", "Offline"} /\ launches'[p] = launches[p]

Moves == \A p \in Players : Rests(p) \/ Launches(p) \/ Proceeds(p) \/ Stopped(p)

LEMMA StoppedMoves ==
    ASSUME TypeOK, NEW p \in Players, NEW s \in {"Failed", "Offline"},
           state' = [state EXCEPT ![p] = s], UNCHANGED launches
    PROVE  Moves
BY DEF Moves, Rests, Stopped, TypeOK

LEMMA ProceedsMoves ==
    ASSUME TypeOK, NEW p \in Players, Alive(p), NEW s \in {"Loading", "Running"},
           state' = [state EXCEPT ![p] = s], UNCHANGED launches
    PROVE  Moves
BY DEF Moves, Rests, Proceeds, TypeOK

LEMMA LaunchesMoves ==
    ASSUME TypeOK, NEW p \in Players, state[p] \in {"Hosting", "Lobby"},
           state' = [state EXCEPT ![p] = "Loading"],
           launches' = [launches EXCEPT ![p] = @ + 1]
    PROVE  Moves
BY DEF Moves, Rests, Launches, TypeOK

LEMMA RestsMoves == ASSUME UNCHANGED <<state, launches>> PROVE Moves
BY DEF Moves, Rests

LEMMA FailsMoves ==
    ASSUME TypeOK, NEW p \in Players, Fails(p), UNCHANGED launches
    PROVE  Moves
<1>1. state' = [state EXCEPT ![p] = "Failed"]
  BY DEF Fails, HostFails, GuestFails
<1> QED BY <1>1, StoppedMoves

(* No other handler of either machine touches them. *)
LEMMA EveryStepMoves == ASSUME TypeOK, [Next]_vars PROVE Moves
<1>0. Host \in Players /\ Guests \subseteq Players
  BY DEF Players
<1>1. ASSUME NEW p \in Players, NEW b \in BOOLEAN, Ready(p, b) PROVE Moves
  BY <1>1, RestsMoves DEF Ready
<1>2. CASE RequestStart \/ CancelCountdown
  BY <1>2, RestsMoves DEF RequestStart, CancelCountdown
<1>3. CASE PrepareLaunch
  BY <1>0, <1>3, LaunchesMoves DEF PrepareLaunch
<1>4. ASSUME NEW g \in Guests, Kick(g) PROVE Moves
  BY <1>4, RestsMoves DEF Kick
<1>5. ASSUME NEW g \in Guests, HostReceivesDeparture(g) PROVE Moves
  <2>1. UNCHANGED launches /\ (HostFails \/ UNCHANGED state)
    BY <1>5 DEF HostReceivesDeparture
  <2>2. CASE HostFails
    BY <1>0, <2>1, <2>2, StoppedMoves DEF HostFails
  <2> QED BY <2>1, <2>2, RestsMoves
<1>6. ASSUME NEW m \in toHost, HostReceivesLoaded(m) PROVE Moves
  BY <1>6, RestsMoves DEF HostReceivesLoaded
<1>7. CASE ReleaseStart
  <2>1. Alive(Host) /\ state' = [state EXCEPT ![Host] = "Running"] /\ UNCHANGED launches
    BY <1>7 DEF ReleaseStart, GateOpens, Alive
  <2> QED BY <1>0, <2>1, ProceedsMoves
<1>8. CASE RefuseStart
  BY <1>0, <1>8, StoppedMoves DEF RefuseStart, HostFails
<1>9. ASSUME NEW g \in Guests, NEW m \in toGuest[g], GuestReceivesLobby(g, m) PROVE Moves
  <2>1. /\ Alive(g) /\ UNCHANGED launches
        /\ state' = [state EXCEPT ![g] = "Running"] \/ UNCHANGED state
    BY <1>9 DEF GuestReceivesLobby
  <2> QED BY <1>0, <2>1, ProceedsMoves, RestsMoves
<1>10. ASSUME NEW g \in Guests, NEW m \in toGuest[g], GuestReceivesStart(g, m) PROVE Moves
  <2>1. Alive(g)
    BY <1>10 DEF GuestReceivesStart
  <2>2. CASE GuestFails(g) /\ UNCHANGED launches
    BY <1>0, <2>2, StoppedMoves DEF GuestFails
  <2>3. CASE UNCHANGED <<state, launches>>
    BY <2>3, RestsMoves
  <2>4. CASE /\ StartLaunches(g)
             /\ state' = [state EXCEPT ![g] = "Loading"]
             /\ launches' = [launches EXCEPT ![g] = @ + 1]
    <3>1. state[g] \in {"Hosting", "Lobby"}
      BY <1>0, <2>1, <2>4 DEF StartLaunches, Alive, TypeOK, States
    <3> QED BY <1>0, <2>4, <3>1, LaunchesMoves
  <2>5. CASE state' = [state EXCEPT ![g] = "Running"] /\ UNCHANGED launches
    BY <1>0, <2>1, <2>5, ProceedsMoves
  <2> QED BY <1>10, <2>2, <2>3, <2>4, <2>5, Zenon DEF GuestReceivesStart
<1>11. ASSUME NEW g \in Guests, GuestReceivesGoodbye(g) \/ GuestLeaves(g) PROVE Moves
  BY <1>0, <1>11, StoppedMoves DEF GuestReceivesGoodbye, GuestLeaves
<1>12. CASE HostLeaves
  BY <1>0, <1>12, StoppedMoves DEF HostLeaves
<1>13. ASSUME NEW p \in Players, BootFails(p) \/ WaitTimesOut(p) PROVE Moves
  BY <1>13, FailsMoves DEF BootFails, WaitTimesOut
<1>14. ASSUME NEW p \in Players, NEW h \in Hashes, Boot(p, h) PROVE Moves
  BY <1>14, ProceedsMoves DEF Boot
<1>15. CASE UNCHANGED vars
  BY <1>15, RestsMoves DEF vars
<1> QED
  BY <1>1, <1>2, <1>3, <1>4, <1>5, <1>6, <1>7, <1>8, <1>9, <1>10, <1>11, <1>12,
     <1>13, <1>14, <1>15 DEF Next, HostStep, GuestStep

(* "cannot ... launch the game twice" (docs/ONLINE_MULTIPLAYER.md:57): a   *)
(* machine raises its launch request when it leaves the grid and never     *)
(* comes back to it, however often Start is repeated.                      *)
THEOREM LaunchesOnce == Spec => []LaunchedOnce
<1>1. Init => WaitingUnlaunched
  BY DEF Init, WaitingUnlaunched
<1>2. TypeOK /\ WaitingUnlaunched /\ [Next]_vars => WaitingUnlaunched'
  <2> SUFFICES ASSUME TypeOK, WaitingUnlaunched, [Next]_vars, NEW p \in Players
               PROVE  /\ launches'[p] <= 1
                      /\ state'[p] \in {"Hosting", "Lobby"} => launches'[p] = 0
    BY DEF WaitingUnlaunched
  <2>1. launches[p] \in Nat /\ launches[p] <= 1
        /\ (state[p] \in {"Hosting", "Lobby"} => launches[p] = 0)
    BY DEF TypeOK, WaitingUnlaunched
  <2>2. Rests(p) \/ Launches(p) \/ Proceeds(p) \/ Stopped(p)
    BY EveryStepMoves DEF Moves
  <2> QED BY <2>1, <2>2 DEF Rests, Launches, Proceeds, Stopped
<1>3. WaitingUnlaunched => LaunchedOnce
  BY DEF WaitingUnlaunched, LaunchedOnce
<1> QED BY <1>1, <1>2, <1>3, TypeCorrect, PTL DEF Spec

(* "Delayed LobbyState/Start retries must never revive a halted client"    *)
(* (direct_session.cpp:6304): no datagram, boot or timeout takes a machine *)
(* that has failed back into the session.                                  *)
THEOREM FailuresAreTerminal == Spec => FailureIsTerminal
<1>1. TypeOK /\ [Next]_vars =>
        [\A p \in Players : state[p] = "Failed" => state'[p] \in {"Failed", "Offline"}]_vars
  <2> SUFFICES ASSUME TypeOK, [Next]_vars, NEW p \in Players, state[p] = "Failed"
               PROVE  state'[p] \in {"Failed", "Offline"}
    OBVIOUS
  <2>1. Rests(p) \/ Launches(p) \/ Proceeds(p) \/ Stopped(p)
    BY EveryStepMoves DEF Moves
  <2> QED BY <2>1 DEF Rests, Launches, Proceeds, Stopped, Alive
<1> QED BY <1>1, TypeCorrect, PTL DEF Spec, FailureIsTerminal

-----------------------------------------------------------------------------
(* Whoever was called to the launch is there when Player 1 simulates. *)

LEMMA BroadcastGrows ==
    ASSUME TypeOK, NEW r, NEW ms, NEW g \in Guests
    PROVE  toGuest[g] \subseteq Broadcast(r, ms)[g]
BY DEF Broadcast, TypeOK

(* What the steps of Player 1's session that follow the launch do at most. *)
NoNewCall ==
    /\ \A g \in Guests : toGuest[g] \subseteq toGuest'[g]
    /\ \A g \in Guests : \A m \in toGuest'[g] : m \in toGuest[g] \/ m.type # "Start"

GridRests ==
    /\ state'[Host] = state[Host] /\ descriptor'[Host] = descriptor[Host]
    /\ launch'[Host] = launch[Host] /\ countdown' = countdown
    /\ room'.phase = room.phase
    /\ NoNewCall
    /\ \A g \in Guests : InRoom(room, g) => InRoom(room', g) \/ Removed(g)'

LEMMA NoNewSummons ==
    ASSUME NoNewCall, descriptor'[Host] = descriptor[Host],
           NEW g \in Guests, Summoned(g)'
    PROVE  Summoned(g)
<1>1. Start(0, descriptor'[Host]) \in toGuest'[g]
  BY DEF Summoned
<1>2. Start(0, descriptor'[Host]).type = "Start"
  BY DEF Start
<1>3. Start(0, descriptor'[Host]) = Start(0, descriptor[Host])
  OBVIOUS
<1> QED BY <1>1, <1>2, <1>3 DEF NoNewCall, Summoned

LEMMA GridRestsKeeps == ASSUME GridFrozen, GridRests PROVE GridFrozen'
<1>1. ASSUME state[Host] \in {"Loading", "Running"}, NEW g \in Guests, Summoned(g)'
      PROVE  InRoom(room', g) \/ Removed(g)'
  <2>1. Summoned(g)
    BY <1>1, NoNewSummons DEF GridRests
  <2>2. InRoom(room, g) \/ Removed(g)
    BY <1>1, <2>1 DEF GridFrozen
  <2>3. Removed(g) => Removed(g)'
    BY DEF GridRests, NoNewCall, Removed
  <2> QED BY <2>2, <2>3 DEF GridRests
<1>2. ASSUME state[Host] = "Hosting", NEW g \in Guests, NEW m \in toGuest'[g]
      PROVE  m.type # "Start"
  BY <1>2 DEF GridFrozen, GridRests, NoNewCall
<1> QED BY <1>1, <1>2 DEF GridFrozen, GridRests, Alive

(* While Player 1 neither loads nor runs there is nothing to keep but that *)
(* nobody has been called.                                                 *)
LEMMA GridOpenKeeps ==
    ASSUME GridFrozen, state'[Host] \notin {"Loading", "Running"},
           ~Alive(Host)' \/ (state'[Host] = state[Host] /\ launch'[Host] = launch[Host]
                             /\ NoNewCall)
    PROVE  GridFrozen'
<1>1. ASSUME state'[Host] = "Hosting", NEW g \in Guests, NEW m \in toGuest'[g]
      PROVE  m.type # "Start"
  BY <1>1 DEF GridFrozen, NoNewCall, Alive
<1>2. ~(launch'[Host] /\ Alive(Host)')
  BY DEF GridFrozen, Alive
<1> QED BY <1>1, <1>2 DEF GridFrozen

(* Broadcasting lobby states calls nobody. *)
LEMMA LobbyCallsNobody ==
    ASSUME TypeOK, NEW r, toGuest' = Broadcast(r, {LobbyState(r)})
    PROVE  NoNewCall
<1>1. ASSUME NEW g \in Guests, NEW m \in toGuest'[g]
      PROVE  m \in toGuest[g] \/ m.type # "Start"
  BY <1>1, BroadcastSends DEF LobbyState
<1> QED BY <1>1, BroadcastGrows DEF NoNewCall

LEMMA GridPrepares ==
    ASSUME TypeOK, GridFrozen, PrepareLaunch PROVE GridFrozen'
<1>0. Host \in Players /\ descriptor' = [descriptor EXCEPT ![Host] = Descriptor(room')]
  BY DEF Players, PrepareLaunch
<1>1. /\ state'[Host] = "Loading" /\ ~countdown' /\ room' = BeginLoading(room)
      /\ toGuest' = Broadcast(room', {Start(0, descriptor'[Host]), LobbyState(room')})
  BY <1>0 DEF PrepareLaunch, TypeOK
<1>2. room'.phase # "Waiting"
  BY <1>1 DEF BeginLoading
<1>3. ASSUME NEW g \in Guests, Summoned(g)' PROVE InRoom(room', g)
  <2>1. Start(0, descriptor'[Host]) \in toGuest'[g]
    BY <1>3 DEF Summoned
  <2>2. Start(0, descriptor'[Host]).type = "Start"
    BY DEF Start
  <2>3. Start(0, descriptor'[Host]) \notin toGuest[g]
    BY <2>2 DEF GridFrozen, PrepareLaunch
  <2> QED BY <1>1, <2>1, <2>3, BroadcastSends
<1> QED BY <1>1, <1>2, <1>3 DEF GridFrozen

LEMMA GridStep ==
    ASSUME TypeOK, GridFrozen, [Next]_vars
    PROVE  GridFrozen'
<1> USE GuestsAssumption
<1>0. /\ Host \in Players /\ Guests \subseteq Players /\ Host \notin Guests
      /\ state \in [Players -> States] /\ descriptor \in [Players -> Descriptors]
      /\ launch \in [Players -> BOOLEAN] /\ toGuest \in [Guests -> SUBSET GuestMessages]
  BY DEF Players, TypeOK
<1>1. ASSUME NEW p \in Players, NEW b \in BOOLEAN, Ready(p, b) PROVE GridFrozen'
  <2>1. UNCHANGED <<state, launch>> /\ state[Host] = "Hosting" /\ NoNewCall
    BY <1>1, LobbyCallsNobody DEF Ready
  <2> QED BY <2>1, GridOpenKeeps
<1>2. CASE RequestStart \/ CancelCountdown
  <2>1. UNCHANGED <<state, launch>> /\ NoNewCall
    BY <1>2, LobbyCallsNobody DEF RequestStart, CancelCountdown
  <2>2. state[Host] \notin {"Loading", "Running"}
    BY <1>2 DEF RequestStart, CancelCountdown, CanStart, GridFrozen
  <2> QED BY <2>1, <2>2, GridOpenKeeps
<1>3. CASE PrepareLaunch
  BY <1>3, GridPrepares
<1>4. ASSUME NEW g \in Guests, Kick(g) PROVE GridFrozen'
  <2>1. /\ UNCHANGED <<state, launch, descriptor, countdown>>
        /\ room' = Leave(room, g) /\ InRoom(room, g)
        /\ toGuest' = [Broadcast(room', {LobbyState(room')}) EXCEPT ![g] = @ \cup {Goodbye}]
    BY <1>4 DEF Kick
  <2>2. DOMAIN Broadcast(room', {LobbyState(room')}) = Guests
    BY DEF Broadcast
  <2>3. NoNewCall
    <3>1. ASSUME NEW x \in Guests, NEW m \in toGuest'[x]
          PROVE  m \in toGuest[x] \/ m.type # "Start"
      <4>1. m \in Broadcast(room', {LobbyState(room')})[x] \/ m = Goodbye
        BY <2>1, <2>2, <3>1
      <4> QED BY <4>1, BroadcastSends DEF Goodbye, LobbyState
    <3>2. ASSUME NEW x \in Guests PROVE toGuest[x] \subseteq toGuest'[x]
      BY <2>1, <2>2, BroadcastGrows
    <3> QED BY <3>1, <3>2 DEF NoNewCall
  <2>4. ASSUME NEW x \in Guests, InRoom(room, x)
        PROVE  InRoom(room', x) \/ Removed(x)'
    <3>1. CASE x = g
      BY <2>1, <2>2, <3>1 DEF Removed
    <3>2. CASE x # g
      <4>1. room \in RoomType /\ room.slot[g] # 0
        BY <2>1 DEF TypeOK, InRoom
      <4>2. InRoom(Leave(room, g), x)
        BY <2>4, <3>2, <4>1, LeaveKeepsOthers
      <4> QED BY <2>1, <4>2
    <3> QED BY <3>1, <3>2
  <2>5. room'.phase = room.phase
    BY <2>1 DEF Leave, WithSlots
  <2> QED BY <2>1, <2>3, <2>4, <2>5, GridRestsKeeps DEF GridRests
<1>5. CASE state'[Host] \in {"Failed", "Offline"}
  BY <1>5, GridOpenKeeps DEF Alive
<1>6. ASSUME NEW g \in Guests, HostReceivesDeparture(g) PROVE GridFrozen'
  <2>1. CASE HostFails
    <3>1. state'[Host] = "Failed"
      BY <1>0, <2>1 DEF HostFails
    <3> QED BY <1>5, <3>1
  <2>2. CASE ~HostFails
    <3>1. ~DepartureStopsSession /\ UNCHANGED <<state, launch>> /\ NoNewCall
      BY <1>6, <2>2, LobbyCallsNobody DEF HostReceivesDeparture
    <3> QED BY <3>1, GridOpenKeeps DEF DepartureStopsSession
  <2> QED BY <2>1, <2>2
<1>7. ASSUME NEW m \in toHost, HostReceivesLoaded(m) PROVE GridFrozen'
  <2>1. room'.phase = room.phase /\ room'.slot = room.slot /\ NoNewCall
    BY <1>7, LobbyCallsNobody DEF HostReceivesLoaded, SetLoaded
  <2>2. GridRests
    BY <1>7, <2>1 DEF HostReceivesLoaded, InRoom, GridRests
  <2> QED BY <2>2, GridRestsKeeps
<1>8. CASE ReleaseStart
  <2>1. /\ state[Host] = "Loading" /\ state'[Host] = "Running" /\ room' = BeginRunning(room)
        /\ UNCHANGED <<countdown, descriptor, launch>>
        /\ toGuest' = Broadcast(room', {Start(1, descriptor[Host]), LobbyState(room')})
    BY <1>0, <1>8 DEF ReleaseStart, GateOpens
  <2>2. room'.phase # "Waiting" /\ room'.slot = room.slot
    BY <2>1 DEF BeginRunning
  <2>3. ASSUME NEW g \in Guests, Summoned(g)' PROVE InRoom(room', g) \/ Removed(g)'
    <3>1. Start(0, descriptor[Host]) \in toGuest'[g]
      BY <2>1, <2>3 DEF Summoned
    <3>2. Start(0, descriptor[Host]) \notin {Start(1, descriptor[Host]), LobbyState(room')}
      BY DEF Start, LobbyState
    <3>3. Summoned(g)
      BY <2>1, <3>1, <3>2, BroadcastSends DEF Summoned
    <3>4. InRoom(room, g) \/ Removed(g)
      BY <2>1, <3>3 DEF GridFrozen
    <3>5. toGuest[g] \subseteq toGuest'[g]
      BY <2>1, BroadcastGrows
    <3> QED BY <2>2, <3>4, <3>5 DEF InRoom, Removed
  <2> QED BY <2>1, <2>2, <2>3 DEF GridFrozen
<1>9. CASE RefuseStart \/ HostLeaves
  <2>1. state'[Host] \in {"Failed", "Offline"}
    BY <1>0, <1>9 DEF RefuseStart, HostLeaves, HostFails
  <2> QED BY <1>5, <2>1
<1>10. ASSUME NEW g \in Guests, state'[Host] = state[Host], launch'[Host] = launch[Host],
              descriptor'[Host] = descriptor[Host], UNCHANGED <<room, countdown, toGuest>>
       PROVE  GridFrozen'
  BY <1>10, GridRestsKeeps DEF GridRests, NoNewCall
<1>11. ASSUME NEW g \in Guests, NEW m \in toGuest[g],
              GuestReceivesLobby(g, m) \/ GuestReceivesStart(g, m)
       PROVE  GridFrozen'
  <2>1. g # Host
    BY <1>0
  <2>2. CASE GuestReceivesLobby(g, m)
    BY <1>0, <1>10, <2>1, <2>2 DEF GuestReceivesLobby
  <2>3. CASE GuestReceivesStart(g, m)
    <3>1. UNCHANGED <<room, countdown, toGuest>>
      BY <2>3 DEF GuestReceivesStart
    <3>2. state'[Host] = state[Host] /\ descriptor'[Host] = descriptor[Host]
          /\ launch'[Host] = launch[Host]
      BY <1>0, <2>1, <2>3 DEF GuestReceivesStart, GuestFails
    <3> QED BY <1>10, <3>1, <3>2
  <2> QED BY <1>11, <2>2, <2>3
<1>12. ASSUME NEW g \in Guests, GuestReceivesGoodbye(g) \/ GuestLeaves(g) PROVE GridFrozen'
  <2>1. g # Host
    BY <1>0
  <2> QED BY <1>0, <1>10, <1>12, <2>1 DEF GuestReceivesGoodbye, GuestLeaves
<1>13. ASSUME NEW p \in Players, BootFails(p) \/ WaitTimesOut(p) PROVE GridFrozen'
  <2>1. state' = [state EXCEPT ![p] = "Failed"]
    BY <1>13 DEF BootFails, WaitTimesOut, Fails, HostFails, GuestFails
  <2>2. CASE p = Host
    <3>1. state'[Host] = "Failed"
      BY <1>0, <2>1, <2>2
    <3> QED BY <1>5, <3>1
  <2>3. CASE p # Host
    <3>1. state'[Host] = state[Host] /\ launch'[Host] = launch[Host]
          /\ UNCHANGED <<room, countdown, descriptor, toGuest>>
      BY <1>0, <1>13, <2>1, <2>3 DEF BootFails, WaitTimesOut, Fails
    <3>2. p \in Guests
      BY <2>3 DEF Players
    <3> QED BY <1>10, <3>1, <3>2
  <2> QED BY <2>2, <2>3
<1>14. ASSUME NEW p \in Players, NEW h \in Hashes, Boot(p, h) PROVE GridFrozen'
  <2>1. CASE p = Host
    <3>1. /\ launch[Host] /\ Alive(Host) /\ ~launch'[Host] /\ state'[Host] = "Loading"
          /\ room' = SetLoaded(room, Host) /\ UNCHANGED <<countdown, descriptor>>
          /\ toGuest' = Broadcast(room', {LobbyState(room')})
      BY <1>0, <1>14, <2>1 DEF Boot
    <3>2. room'.phase = room.phase /\ room'.slot = room.slot /\ NoNewCall
      BY <3>1, LobbyCallsNobody DEF SetLoaded
    <3>3. ASSUME NEW g \in Guests, Summoned(g)' PROVE InRoom(room', g) \/ Removed(g)'
      <4>1. Summoned(g)
        BY <3>1, <3>2, <3>3, NoNewSummons
      <4>2. InRoom(room, g) \/ Removed(g)
        BY <3>1, <4>1 DEF GridFrozen
      <4> QED BY <3>2, <4>2 DEF InRoom, Removed, NoNewCall
    <3> QED BY <3>1, <3>2, <3>3 DEF GridFrozen
  <2>2. CASE p # Host
    <3>1. state'[Host] = state[Host] /\ launch'[Host] = launch[Host]
          /\ UNCHANGED <<room, countdown, descriptor, toGuest>>
      BY <1>0, <1>14, <2>2 DEF Boot
    <3>2. p \in Guests
      BY <2>2 DEF Players
    <3> QED BY <1>10, <3>1, <3>2
  <2> QED BY <2>1, <2>2
<1>15. CASE UNCHANGED vars
  BY <1>15, GridRestsKeeps DEF vars, GridRests, NoNewCall
<1> QED
  BY <1>1, <1>2, <1>3, <1>4, <1>6, <1>7, <1>8, <1>9, <1>11, <1>12, <1>13, <1>14,
     <1>15 DEF Next, HostStep, GuestStep

(* However late a departure, a lobby state or a report arrives, and        *)
(* although kick_player may act on an old view: when Player 1 simulates,   *)
(* nobody it called to the launch is missing but whom it removed.          *)
THEOREM GridCompleteness == Spec => []GridIsComplete
<1>1. Init => GridFrozen
  <2> SUFFICES ASSUME Init PROVE GridFrozen
    OBVIOUS
  <2>1. state[Host] = "Hosting" /\ ~launch[Host]
    BY DEF Init, Players
  <2>2. \A g \in Guests : \A m \in toGuest[g] : m.type # "Start"
    BY DEF Init, LobbyState
  <2> QED BY <2>1, <2>2 DEF GridFrozen
<1>2. TypeOK /\ GridFrozen /\ [Next]_vars => GridFrozen'
  BY GridStep
<1>3. GridFrozen => GridIsComplete
  BY DEF GridFrozen, GridIsComplete, Simulating
<1> QED BY <1>1, <1>2, <1>3, TypeCorrect, PTL DEF Spec

-----------------------------------------------------------------------------
(* The slots of those who start.                                           *)

(* A step that marks nobody loaded, releases nobody and renumbers nobody. *)
SlotsRest ==
    /\ localSlot' = localSlot
    /\ room'.phase = room.phase /\ room'.slot = room.slot
    /\ room'.loaded \subseteq room.loaded
    /\ \A m \in toHost' : m.type = "Loaded" => m \in toHost
    /\ state'[Host] \in {"Loading", "Running"} => state'[Host] = state[Host]
    /\ \A g \in Guests : state'[g] = "Running" => Released(g)
    /\ \A g \in Guests : \A m \in toGuest'[g] :
          m \in toGuest[g] \/ m.type = "Disconnect" \/ InRoom(room', g)

LEMMA ReleasedOrInRoom ==
    ASSUME NEW g \in Guests, Released(g)',
           state'[g] = "Running" => Released(g),
           \A m \in toGuest'[g] :
              m \in toGuest[g] \/ m.type = "Disconnect" \/ InRoom(room', g)
    PROVE  Released(g) \/ InRoom(room', g)
BY DEF Released, Simulating

LEMMA SlotsRestKeeps ==
    ASSUME TypeOK, SlotsProved, SlotsRest PROVE SlotsProved'
<1>1. \A g : InRoom(room', g) <=> InRoom(room, g)
  BY DEF SlotsRest, InRoom
<1>2. \A m \in toHost' : m.type = "Loaded" => m.slot = localSlot'[m.from]
  BY DEF SlotsProved, SlotsRest
<1>3. \A g \in Guests \cap room'.loaded : InRoom(room', g) => localSlot'[g] = room'.slot[g]
  BY <1>1 DEF SlotsProved, SlotsRest
<1>4. state'[Host] = "Loading" => room'.phase # "Running"
  BY DEF SlotsProved, SlotsRest
<1>5. ASSUME Simulating(Host)', NEW g \in Guests
      PROVE  /\ InRoom(room', g) => localSlot'[g] = room'.slot[g]
             /\ Released(g)' => InRoom(room', g)
  <2>1. Simulating(Host)
    BY <1>5 DEF Simulating, SlotsRest
  <2>2. InRoom(room, g) => localSlot[g] = room.slot[g]
    BY <2>1 DEF SlotsProved
  <2>3. Released(g) => InRoom(room, g)
    BY <2>1 DEF SlotsProved
  <2>4. Released(g)' => Released(g) \/ InRoom(room', g)
    BY ReleasedOrInRoom DEF SlotsRest
  <2> QED BY <1>1, <2>2, <2>3, <2>4 DEF SlotsRest
<1> QED BY <1>2, <1>3, <1>4, <1>5 DEF SlotsProved

(* Lobby::leave empties the loaded flags, and is never called in a race. *)
LEMMA SlotsLeave ==
    ASSUME TypeOK, SlotsProved, NEW g \in Guests, room' = Leave(room, g),
           state'[Host] = state[Host], state[Host] # "Running",
           localSlot' = localSlot, toHost' = toHost
    PROVE  SlotsProved'
<1>1. room'.loaded = {} /\ room'.phase = room.phase
  BY DEF Leave, WithSlots
<1> QED BY <1>1 DEF SlotsProved, Simulating

LEMMA SlotsReport ==
    ASSUME TypeOK, SlotsProved, NEW m \in toHost, HostReceivesLoaded(m)
    PROVE  SlotsProved'
<1>1. /\ m.type = "Loaded" /\ m.slot = room.slot[m.from] /\ m.slot = localSlot[m.from]
      /\ UNCHANGED <<state, localSlot, toHost>>
  BY DEF HostReceivesLoaded, FromItsSlot, SlotsProved
<1>2. /\ room'.slot = room.slot /\ room'.phase = room.phase
      /\ room'.loaded \subseteq room.loaded \cup {m.from}
  BY DEF HostReceivesLoaded, SetLoaded
<1>3. \A g : InRoom(room', g) <=> InRoom(room, g)
  BY <1>2 DEF InRoom
<1>4. ASSUME NEW g \in Guests PROVE Released(g)' => Released(g) \/ InRoom(room', g)
  <2>1. \A x \in toGuest'[g] : x \in toGuest[g] \/ InRoom(room', g)
    BY BroadcastSends DEF HostReceivesLoaded
  <2>2. state'[g] = "Running" => Released(g)
    BY <1>1 DEF Released, Simulating
  <2> QED BY <2>1, <2>2, ReleasedOrInRoom
<1>5. Simulating(Host)' <=> Simulating(Host)
  BY <1>1 DEF Simulating
<1>6. \A x \in toHost' : x.type = "Loaded" => x.slot = localSlot'[x.from]
  BY <1>1 DEF SlotsProved
<1>7. \A g \in Guests \cap room'.loaded : InRoom(room', g) => localSlot'[g] = room'.slot[g]
  BY <1>1, <1>2, <1>3 DEF SlotsProved
<1>8. state'[Host] = "Loading" => room'.phase # "Running"
  BY <1>1, <1>2 DEF SlotsProved
<1>9. Simulating(Host)' => \A g \in Guests :
         /\ InRoom(room', g) => localSlot'[g] = room'.slot[g]
         /\ Released(g)' => InRoom(room', g)
  BY <1>1, <1>2, <1>3, <1>4, <1>5 DEF SlotsProved
<1> QED BY <1>6, <1>7, <1>8, <1>9 DEF SlotsProved

(* Everybody in the room is loaded when the gate opens, and nobody was     *)
(* released before it.                                                     *)
LEMMA SlotsGate ==
    ASSUME TypeOK, SlotsProved, ReleaseAgrees, ReleaseStart
    PROVE  SlotsProved'
<1>0. Host \in Players /\ Guests \subseteq Players
  BY DEF Players
<1>1. /\ state[Host] = "Loading" /\ state' = [state EXCEPT ![Host] = "Running"]
      /\ Occupants(room) \subseteq room.loaded
      /\ room' = BeginRunning(room) /\ UNCHANGED <<localSlot, toHost>>
  BY DEF ReleaseStart, GateOpens, EveryoneLoaded
<1>2. /\ room'.slot = room.slot /\ room'.loaded = room.loaded
      /\ state'[Host] = "Running"
  BY <1>0, <1>1 DEF BeginRunning, TypeOK
<1>3. \A g : InRoom(room', g) <=> InRoom(room, g)
  BY <1>2 DEF InRoom
<1>4. ASSUME NEW g \in Guests, InRoom(room, g) PROVE localSlot[g] = room.slot[g]
  <2>1. g \in room.loaded
    BY <1>0, <1>1, <1>4 DEF Occupants
  <2> QED BY <1>4, <2>1 DEF SlotsProved
<1>5. ASSUME NEW g \in Guests, Released(g)' PROVE InRoom(room', g)
  <2>1. ~Released(g)
    BY <1>1 DEF SlotsProved, ReleaseAgrees
  <2>2. \A m \in toGuest'[g] : m \in toGuest[g] \/ InRoom(room', g)
    BY BroadcastSends DEF ReleaseStart
  <2>3. state'[g] = "Running" => Released(g)
    BY <1>0, <1>1, GuestsAssumption DEF TypeOK, Released, Simulating
  <2> QED BY <1>5, <2>1, <2>2, <2>3, ReleasedOrInRoom
<1>6. \A x \in toHost' : x.type = "Loaded" => x.slot = localSlot'[x.from]
  BY <1>1 DEF SlotsProved
<1>7. \A g \in Guests \cap room'.loaded : InRoom(room', g) => localSlot'[g] = room'.slot[g]
  BY <1>1, <1>2, <1>3, <1>4
<1> QED BY <1>1, <1>2, <1>3, <1>4, <1>5, <1>6, <1>7 DEF SlotsProved

LEMMA SlotsBoot ==
    ASSUME TypeOK, SlotsProved, ReleaseAgrees, NEW p \in Players, NEW h \in Hashes,
           Boot(p, h)
    PROVE  SlotsProved'
<1> USE GuestsAssumption
<1>0. /\ Host \in Players /\ Guests \subseteq Players /\ Host \notin Guests
      /\ state' = [state EXCEPT ![p] = "Loading"] /\ localSlot' = localSlot
      /\ booted[p] = NoHash
  BY DEF Players, Boot
<1>1. CASE p = Host
  <2>1. /\ room' = SetLoaded(room, Host) /\ toHost' = toHost
        /\ state'[Host] = "Loading"
    BY <1>0, <1>1 DEF Boot, TypeOK
  <2>2. /\ room'.slot = room.slot /\ room'.phase = room.phase
        /\ room'.loaded \subseteq room.loaded \cup {Host}
    BY <2>1 DEF SetLoaded
  <2>3. room.phase # "Running"
    BY <1>0, <1>1 DEF ReleaseAgrees, Occupants, InRoom
  <2>4. \A g \in Guests \cap room'.loaded : InRoom(room', g) => localSlot'[g] = room'.slot[g]
    BY <1>0, <2>2 DEF SlotsProved, InRoom
  <2>5. \A x \in toHost' : x.type = "Loaded" => x.slot = localSlot'[x.from]
    BY <1>0, <2>1 DEF SlotsProved
  <2> QED BY <2>1, <2>2, <2>3, <2>4, <2>5 DEF SlotsProved, Simulating
<1>2. CASE p # Host
  <2>1. /\ p \in Guests /\ UNCHANGED <<room, toGuest>>
        /\ toHost' = toHost \cup {[type |-> "Loaded", from |-> p,
                                   slot |-> localSlot[p], hash |-> h]}
    BY <1>2 DEF Boot, Players
  <2>2. \A x \in toHost' : x.type = "Loaded" => x.slot = localSlot'[x.from]
    BY <1>0, <2>1 DEF SlotsProved
  <2>3. state'[Host] = state[Host] /\ \A g \in Guests : state'[g] = "Running" => Released(g)
    BY <1>0, <1>2 DEF TypeOK, Released, Simulating
  <2>4. \A g \in Guests : Released(g)' => Released(g) \/ InRoom(room', g)
    BY <2>1, <2>3, ReleasedOrInRoom
  <2>5. \A g \in Guests \cap room'.loaded : InRoom(room', g) => localSlot'[g] = room'.slot[g]
    BY <1>0, <2>1 DEF SlotsProved
  <2>6. state'[Host] = "Loading" => room'.phase # "Running"
    BY <2>1, <2>3 DEF SlotsProved
  <2>7. Simulating(Host)' => \A g \in Guests :
           /\ InRoom(room', g) => localSlot'[g] = room'.slot[g]
           /\ Released(g)' => InRoom(room', g)
    BY <1>0, <2>1, <2>3, <2>4 DEF SlotsProved, Simulating
  <2> QED BY <2>2, <2>5, <2>6, <2>7 DEF SlotsProved
<1> QED BY <1>1, <1>2

LEMMA SlotsStep ==
    ASSUME TypeOK, ReleaseAgrees, SlotsProved, [Next]_vars
    PROVE  SlotsProved'
<1> USE GuestsAssumption
<1>0. /\ Host \in Players /\ Guests \subseteq Players /\ Host \notin Guests
      /\ state \in [Players -> States]
      /\ \A g \in Guests : state[g] = "Running" => Released(g)
      /\ \A g \in Guests : Goodbye.type = "Disconnect" /\ Departure(g).type = "Disconnect"
  BY DEF Players, TypeOK, Released, Simulating, Goodbye, Departure
<1>1. ASSUME NEW r, NEW ms, toGuest' = Broadcast(r, ms), room'.slot = r.slot
      PROVE  \A g \in Guests : \A m \in toGuest'[g] :
                m \in toGuest[g] \/ InRoom(room', g)
  BY <1>1, BroadcastSends DEF InRoom
<1>2. ASSUME NEW p \in Players, NEW b \in BOOLEAN, Ready(p, b) PROVE SlotsProved'
  <2>1. /\ room'.slot = room.slot /\ room'.phase = room.phase
        /\ room'.loaded = room.loaded /\ UNCHANGED <<state, localSlot, toHost>>
        /\ toGuest' = Broadcast(room', {LobbyState(room')})
    BY <1>2 DEF Ready, SetReady
  <2> QED BY <1>0, <1>1, <2>1, SlotsRestKeeps DEF SlotsRest
<1>3. CASE RequestStart \/ CancelCountdown
  <2>1. /\ UNCHANGED <<room, state, localSlot, toHost>>
        /\ toGuest' = Broadcast(room, {LobbyState(room)})
    BY <1>3 DEF RequestStart, CancelCountdown
  <2> QED BY <1>0, <1>1, <2>1, SlotsRestKeeps DEF SlotsRest
<1>4. CASE PrepareLaunch
  <2>1. /\ room' = BeginLoading(room) /\ UNCHANGED <<localSlot, toHost>>
        /\ state'[Host] = "Loading"
    BY <1>0, <1>4 DEF PrepareLaunch
  <2>2. room'.loaded = {} /\ room'.phase = "Loading"
    BY <2>1 DEF BeginLoading
  <2> QED BY <2>1, <2>2 DEF SlotsProved, Simulating
<1>5. ASSUME NEW g \in Guests, Kick(g) PROVE SlotsProved'
  <2>1. state[Host] # "Running"
    BY <1>5 DEF Kick, OffersRemove
  <2> QED BY <1>5, <2>1, SlotsLeave DEF Kick
<1>6. ASSUME NEW p \in Players, Fails(p), UNCHANGED <<room, localSlot>> PROVE SlotsProved'
  <2>1. /\ state' = [state EXCEPT ![p] = "Failed"]
        /\ \A m \in toHost' : m.type = "Loaded" => m \in toHost
    BY <1>0, <1>6 DEF Fails, HostFails, GuestFails, Departure
  <2>2. \A g \in Guests : \A m \in toGuest'[g] :
           m \in toGuest[g] \/ m.type = "Disconnect" \/ InRoom(room', g)
    BY <1>0, <1>1, <1>6 DEF Fails, HostFails
  <2>3. \A q \in Players : state'[q] = "Running" => state[q] = "Running"
    BY <1>0, <2>1
  <2>4. state'[Host] \in {"Loading", "Running"} => state'[Host] = state[Host]
    BY <1>0, <2>1
  <2> QED BY <1>0, <1>6, <2>1, <2>2, <2>3, <2>4, SlotsRestKeeps DEF SlotsRest
<1>7. ASSUME NEW g \in Guests, HostReceivesDeparture(g) PROVE SlotsProved'
  <2>1. CASE HostFails /\ UNCHANGED room
    <3>1. Fails(Host)
      BY <1>7, <2>1 DEF HostReceivesDeparture, Fails
    <3> QED BY <1>0, <1>6, <1>7, <2>1, <3>1 DEF HostReceivesDeparture
  <2>2. CASE ~DepartureStopsSession /\ room' = Leave(room, g) /\ UNCHANGED state
    <3>1. state[Host] # "Running"
      BY <2>2 DEF DepartureStopsSession
    <3> QED BY <1>7, <2>2, <3>1, SlotsLeave DEF HostReceivesDeparture
  <2> QED BY <1>7, <2>1, <2>2 DEF HostReceivesDeparture
<1>8. CASE RefuseStart
  <2>1. Fails(Host)
    BY <1>8 DEF RefuseStart, Fails
  <2> QED BY <1>0, <1>6, <1>8, <2>1 DEF RefuseStart
<1>9. ASSUME UNCHANGED <<room, localSlot, toGuest>>,
             state'[Host] = state[Host],
             \A g \in Guests : state'[g] = "Running" => Released(g),
             \A m \in toHost' : m.type = "Loaded" => m \in toHost
      PROVE  SlotsProved'
  BY <1>9, SlotsRestKeeps DEF SlotsRest
<1>10. ASSUME NEW g \in Guests, NEW m \in toGuest[g], GuestReceivesLobby(g, m)
       PROVE  SlotsProved'
  <2>1. UNCHANGED <<room, localSlot, toGuest, toHost>>
    BY <1>10 DEF GuestReceivesLobby
  <2>2. /\ state'[Host] = state[Host]
        /\ \A x \in Guests : state'[x] = "Running" => Released(x)
    BY <1>0, <1>10 DEF GuestReceivesLobby, LobbyReleases, Released, Simulating
  <2> QED BY <1>9, <2>1, <2>2
<1>11. ASSUME NEW g \in Guests, NEW m \in toGuest[g], GuestReceivesStart(g, m)
       PROVE  SlotsProved'
  <2>1. UNCHANGED <<room, localSlot, toGuest>>
    BY <1>11 DEF GuestReceivesStart
  <2>2. CASE GuestFails(g)
    <3>1. Fails(g)
      BY <1>0, <2>1, <2>2 DEF Fails
    <3> QED BY <1>0, <1>6, <2>1, <3>1
  <2>3. CASE /\ \/ state' = state
                \/ state' = [state EXCEPT ![g] = "Loading"]
                \/ m.stage = 1 /\ state' = [state EXCEPT ![g] = "Running"]
             /\ UNCHANGED toHost
    <3>1. /\ state'[Host] = state[Host]
          /\ \A x \in Guests : state'[x] = "Running" => Released(x)
      BY <1>0, <1>11, <2>3 DEF GuestReceivesStart, Released, Simulating
    <3> QED BY <1>9, <2>1, <2>3, <3>1
  <2> QED BY <1>11, <2>2, <2>3, Zenon DEF GuestReceivesStart
<1>12. ASSUME NEW g \in Guests, GuestReceivesGoodbye(g) \/ GuestLeaves(g) PROVE SlotsProved'
  <2>1. UNCHANGED <<room, localSlot, toGuest>>
    BY <1>12 DEF GuestReceivesGoodbye, GuestLeaves
  <2>2. /\ state'[Host] = state[Host]
        /\ \A x \in Guests : state'[x] = "Running" => Released(x)
    BY <1>0, <1>12 DEF GuestReceivesGoodbye, GuestLeaves
  <2>3. \A m \in toHost' : m.type = "Loaded" => m \in toHost
    BY <1>0, <1>12 DEF GuestReceivesGoodbye, GuestLeaves
  <2> QED BY <1>9, <2>1, <2>2, <2>3
<1>13. CASE HostLeaves
  <2>1. /\ state' = [state EXCEPT ![Host] = "Offline"]
        /\ UNCHANGED <<room, localSlot, toHost>>
        /\ toGuest' = Broadcast(room, {Goodbye})
    BY <1>13 DEF HostLeaves
  <2>2. /\ state'[Host] = "Offline"
        /\ \A g \in Guests : state'[g] = "Running" => Released(g)
    BY <1>0, <2>1
  <2> QED BY <1>1, <2>1, <2>2, SlotsRestKeeps DEF SlotsRest
<1>14. ASSUME NEW p \in Players, BootFails(p) \/ WaitTimesOut(p) PROVE SlotsProved'
  BY <1>6, <1>14 DEF BootFails, WaitTimesOut
<1>15. CASE UNCHANGED vars
  BY <1>0, <1>9, <1>15 DEF vars
<1> QED
  BY <1>2, <1>3, <1>4, <1>5, <1>7, <1>8, <1>10, <1>11, <1>12, <1>13, <1>14, <1>15,
     SlotsReport, SlotsGate, SlotsBoot DEF Next, HostStep, GuestStep

(* Guests keep the slot HelloAck told them while Player 1's grid closes    *)
(* its gaps, in the lobby and, through a stale REMOVE, even in a launch:   *)
(* no race starts with a machine that plays another slot than Player 1     *)
(* gave it, or with one that Player 1 no longer counts.                    *)
THEOREM SlotsAtStart == Spec => []RacersInTheirSlots
<1>1. Init => SlotsProved
  <2> SUFFICES ASSUME Init PROVE SlotsProved
    OBVIOUS
  <2>1. toHost = {} /\ room.loaded = {} /\ state[Host] = "Hosting"
    BY DEF Init, Players
  <2> QED BY <2>1 DEF SlotsProved, Simulating
<1>2. TypeOK /\ ReleaseAgrees /\ SlotsProved /\ [Next]_vars => SlotsProved'
  BY SlotsStep
<1>3. SlotsProved => RacersInTheirSlots
  BY DEF SlotsProved, RacersInTheirSlots, Released
<1>4. LaunchInv => TypeOK /\ ReleaseAgrees
  BY DEF LaunchInv
<1> QED BY <1>1, <1>2, <1>3, <1>4, LaunchInvariant, PTL DEF Spec

=============================================================================
