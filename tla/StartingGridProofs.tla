------------------------- MODULE StartingGridProofs -------------------------
(***************************************************************************)
(* Proofs about StartingGrid, for any number of guests, slots and          *)
(* admissions and any bounds: what an admission, the lock, a verified save *)
(* and a confirmed NOT READY promise, however datagrams are lost, delayed, *)
(* repeated and reordered.                                                 *)
(***************************************************************************)
EXTENDS StartingGrid, FiniteSetTheorems, WellFoundedInduction, TLAPS

-----------------------------------------------------------------------------
(* The room operators keep the room a room (netplay_lobby.cpp). *)

(* Lobby::join finds the first free slot. *)
LEMMA FirstFreeType ==
  ASSUME NEW r \in RoomType, FreeSlots(r) # {}
  PROVE  FirstFree(r) \in GuestSlots
<1> DEFINE S == FreeSlots(r)
           T == {0 .. x : x \in S}
           R == StrictSubsetOrdering(Nat)
<1>1. S \subseteq 1 .. MaxGuests /\ MaxGuests \in Nat
  BY MaxGuestsAssumption DEF FreeSlots, GuestSlots
<1> HIDE DEF S
<1>2. T \subseteq FiniteSubsetsOf(Nat) /\ T # {}
  <2>1. ASSUME NEW x \in S PROVE 0 .. x \in FiniteSubsetsOf(Nat)
    <3>1. x \in Int /\ 0 \in Int /\ x \in Nat
      BY <1>1
    <3>2. IsFiniteSet(0 .. x)
      BY <3>1, FS_Interval
    <3>3. 0 .. x \in SUBSET Nat
      BY <3>1
    <3> QED
      BY <3>2, <3>3 DEF FiniteSubsetsOf
  <2>2. S # {}
    BY DEF S
  <2> QED
    BY <2>1, <2>2
<1>3. IsWellFoundedOn(R, FiniteSubsetsOf(Nat))
  BY FS_StrictSubsetOrderingWellFounded
<1>4. PICK t \in T : \A u \in T : ~ (<<u, t>> \in R)
  <2> HIDE DEF T, R
  <2> QED
    BY <1>2, <1>3, WFMin
<1>5. PICK x \in S : t = 0 .. x
  OBVIOUS
<1>6. ASSUME NEW y \in S PROVE x <= y
  <2>1. x \in Nat /\ y \in Nat
    BY <1>1
  <2>2. SUFFICES ASSUME y < x PROVE FALSE
    BY <2>1
  <2>3. 0 .. y \subseteq 0 .. x /\ x \in 0 .. x /\ x \notin 0 .. y
    BY <2>1, <2>2
  <2>4. 0 .. y \subseteq Nat /\ 0 .. x \subseteq Nat
    BY <2>1
  <2>5. <<0 .. y, 0 .. x>> \in R
    BY <2>3, <2>4 DEF StrictSubsetOrdering
  <2> QED
    BY <1>4, <1>5, <2>5
<1>7. FirstFree(r) \in S
  BY <1>6 DEF FirstFree, S
<1> QED
  BY <1>1, <1>7 DEF GuestSlots

LEMMA JoinType ==
  ASSUME NEW r \in RoomType, NEW g \in Guests, CanJoin(r, g)
  PROVE  /\ Join(r, g) \in RoomType /\ Join(r, g).slot[g] \in Slots
         /\ Join(r, g).ready = {} /\ Join(r, g).phase = "Waiting" /\ r.phase = "Waiting"
         /\ \A h \in Guests \ {g} : Join(r, g).slot[h] = r.slot[h]
<1>1. FirstFree(r) \in Slots
  BY FirstFreeType, MaxGuestsAssumption DEF CanJoin, GuestSlots, Slots
<1> QED
  BY <1>1 DEF Join, WithSlots, RoomType, CanJoin

LEMMA LeaveType ==
  ASSUME NEW r \in RoomType, NEW g \in Guests, InRoom(r, g)
  PROVE  /\ Leave(r, g) \in RoomType
         /\ Leave(r, g).ready = {} /\ Leave(r, g).phase = r.phase
         /\ \A h \in Guests : InRoom(Leave(r, g), h) => InRoom(r, h)
         /\ \A h \in Guests \ {g} : InRoom(r, h) => InRoom(Leave(r, g), h)
<1>1. \A h \in Guests : r.slot[h] \in 0 .. MaxGuests
  BY DEF RoomType, Slots
<1>2. r.slot[g] # 0
  BY GuestsAssumption DEF InRoom
<1> DEFINE f == [h \in Guests |-> IF h = g THEN 0
                                  ELSE IF r.slot[h] > r.slot[g] THEN r.slot[h] - 1
                                  ELSE r.slot[h]]
<1>3. /\ f \in [Guests -> Slots]
      /\ \A h \in Guests : f[h] # 0 => r.slot[h] # 0
      /\ \A h \in Guests \ {g} : r.slot[h] # 0 => f[h] # 0
  BY <1>1, <1>2, MaxGuestsAssumption DEF Slots
<1>4. Leave(r, g) = WithSlots(r, f)
  BY DEF Leave
<1> HIDE DEF f
<1> QED
  BY <1>3, <1>4 DEF WithSlots, RoomType, InRoom

LEMMA SetReadyType ==
  ASSUME NEW r \in RoomType, NEW p \in Players, NEW b \in BOOLEAN
  PROVE  /\ SetReady(r, p, b) \in RoomType
         /\ SetReady(r, p, b).slot = r.slot /\ SetReady(r, p, b).phase = r.phase
         /\ p \in SetReady(r, p, b).ready <=> b
         /\ SetReady(r, p, b).ready \subseteq r.ready \cup {p}
BY DEF SetReady, RoomType

LEMMA LoadingType ==
  ASSUME NEW r \in RoomType
  PROVE  BeginLoading(r) \in RoomType
BY DEF BeginLoading, RoomType, Phases

-----------------------------------------------------------------------------
(* The messages are well formed. *)

LEMMA OccupiedType ==
  ASSUME NEW r \in RoomType
  PROVE  OccupiedSlots(r) \subseteq Slots
BY MaxGuestsAssumption DEF OccupiedSlots, Occupants, SlotOf, InRoom, Players, RoomType, Slots

LEMMA NewsType ==
  ASSUME NEW r \in RoomType, NEW sv \in SUBSET Guests
  PROVE  LobbyNews(r, sv) \subseteq GuestMessages
         /\ \A m \in LobbyNews(r, sv) : m.type \in {"LobbyState", "OnlineSaveStatus"}
<1>1. LobbyState(r) \in GuestMessages /\ LobbyState(r).type = "LobbyState"
  BY OccupiedType DEF LobbyState, GuestMessages, RoomType
<1>2. SaveStatus(r, sv) \in GuestMessages /\ SaveStatus(r, sv).type = "OnlineSaveStatus"
  <2>1. {0} \cup {r.slot[g] : g \in {h \in sv : InRoom(r, h)}} \subseteq Slots
    BY MaxGuestsAssumption DEF RoomType, Slots
  <2> QED
    BY <2>1 DEF SaveStatus, GuestMessages, RoomType
<1> QED
  BY <1>1, <1>2 DEF LobbyNews

(* A broadcast of the lobby adds lobby states and save statuses. *)
LEMMA BroadcastAdds ==
  ASSUME NEW to \in [Guests -> SUBSET GuestMessages], NEW r \in RoomType,
         NEW sv \in SUBSET Guests
  PROVE  /\ Broadcast(to, r, sv) \in [Guests -> SUBSET GuestMessages]
         /\ \A g \in Guests : to[g] \subseteq Broadcast(to, r, sv)[g]
         /\ \A g \in Guests : \A k \in Broadcast(to, r, sv)[g] :
               k \in to[g] \/ k.type \in {"LobbyState", "OnlineSaveStatus"}
BY NewsType DEF Broadcast

LEMMA SentAdds ==
  ASSUME TypeOK, NEW g \in Guests, NEW ms \in SUBSET GuestMessages
  PROVE  /\ Sent(g, ms) \in [Guests -> SUBSET GuestMessages]
         /\ \A h \in Guests : toGuest[h] \subseteq Sent(g, ms)[h]
         /\ \A h \in Guests : \A k \in Sent(g, ms)[h] : k \in toGuest[h] \/ k \in ms
BY DEF Sent, TypeOK

LEMMA AnswerType ==
  /\ JoinPending \in GuestMessages /\ Refused \in GuestMessages /\ Goodbye \in GuestMessages
  /\ \A s \in Slots : Accepted(s) \in GuestMessages /\ SaveAck(s) \in GuestMessages
  /\ \A s \in Slots, r \in Requests : ReadyAck(s, r) \in GuestMessages
BY MaxGuestsAssumption
   DEF JoinPending, Refused, Goodbye, Accepted, SaveAck, ReadyAck, GuestMessages, Slots

-----------------------------------------------------------------------------
(* What most steps leave alone. *)

NoNewRequests ==
    /\ toHost \subseteq toHost'
    /\ \A m \in toHost' : m \in toHost \/ m.type # "ReadyRequest"

NoNewAcks ==
    \A g \in Guests :
        /\ toGuest[g] \subseteq toGuest'[g]
        /\ \A k \in toGuest'[g] : k \in toGuest[g] \/ k.type # "ReadyAck"

(* Who leaves the grid has parted, and the number of a guest's last        *)
(* request is forgotten only when it comes (back) to the grid.             *)
GridKept ==
    \A g \in Guests :
        /\ InRoom(room, g) => InRoom(room', g) \/ Parted(g)'
        /\ \/ lastRequest'[g] = lastRequest[g]
           \/ lastRequest'[g] = 0 /\ ~InRoom(room, g)

(* A step outside the ready protocol: it sends no request and no           *)
(* acknowledgement and makes no guest ready.                               *)
Apart ==
    /\ UNCHANGED <<requests, request, confirmed>>
    /\ NoNewRequests /\ NoNewAcks /\ GridKept
    /\ room'.ready \cap Guests \subseteq room.ready
    /\ \A g \in pending' : ~InRoom(room', g)

GateInv == TypeOK /\ UsedIsGone /\ LockedAdmitsNobody /\ SavesVerified

(* Such a step keeps what the ready protocol relies on. *)
LEMMA ApartKeepsReady ==
  ASSUME TypeOK, TypeOK', ReadyInv, Apart
  PROVE  ReadyInv'
<1>1. PendingOutside'
  BY DEF Apart, PendingOutside
<1>2. RequestsNumbered'
  <2>1. ASSUME NEW g \in Guests PROVE lastRequest'[g] <= requests'[g]
    <3>1. lastRequest[g] <= requests[g] /\ requests[g] \in Nat
      BY DEF ReadyInv, RequestsNumbered, TypeOK, GuestTypes
    <3>2. lastRequest'[g] = lastRequest[g] \/ lastRequest'[g] = 0
      BY DEF Apart, GridKept
    <3> QED
      BY <3>1, <3>2 DEF Apart
  <2>2. ASSUME NEW g \in Guests, NEW m \in toHost', ReadyRequestOf(m, g)
        PROVE  m \in toHost /\ m.request \in Requests
               /\ m.request.id \in 1 .. requests'[g]
    <3>1. m \in toHost
      BY <2>2 DEF Apart, NoNewRequests, ReadyRequestOf
    <3>2. m.request \in Requests /\ m.request.id \in 1 .. requests[g]
      BY <2>2, <3>1 DEF ReadyInv, RequestsNumbered
    <3> QED
      BY <3>1, <3>2 DEF Apart
  <2> QED
    BY <2>1, <2>2 DEF ReadyInv, RequestsNumbered, ReadyRequestOf
<1>3. LastApplied'
  <2> SUFFICES ASSUME NEW g \in Guests, NEW m \in toHost', ReadyRequestOf(m, g),
                      ~m.request.ready, lastRequest'[g] = m.request.id
               PROVE  g \notin room'.ready
    BY DEF LastApplied, ReadyRequestOf
  <2>1. m \in toHost
    BY DEF Apart, NoNewRequests, ReadyRequestOf
  <2>2. m.request.id \in 1 .. requests[g]
    BY <2>1 DEF ReadyInv, RequestsNumbered
  <2>3. lastRequest[g] = m.request.id
    BY <2>2 DEF Apart, GridKept
  <2>4. g \notin room.ready
    BY <2>1, <2>3 DEF ReadyInv, LastApplied
  <2> QED
    BY <2>4 DEF Apart
<1>4. AcksApplied'
  <2> SUFFICES ASSUME NEW g \in Guests, NEW k \in toGuest'[g], k.type = "ReadyAck"
               PROVE  /\ k.request.id \in 1 .. requests'[g]
                      /\ ~Parted(g)' => InRoom(room', g)
                      /\ ~Parted(g)' /\ ~k.request.ready =>
                            \A m \in toHost' : ReadyRequestOf(m, g) /\ m.request = k.request =>
                               lastRequest'[g] >= k.request.id
    BY DEF AcksApplied, ReadyRequestOf
  <2>1. k \in toGuest[g]
    BY DEF Apart, NoNewAcks
  <2>2. /\ k.request.id \in 1 .. requests[g]
        /\ ~Parted(g) => InRoom(room, g)
        /\ ~Parted(g) /\ ~k.request.ready =>
              \A m \in toHost : ReadyRequestOf(m, g) /\ m.request = k.request =>
                 lastRequest[g] >= k.request.id
    BY <2>1 DEF ReadyInv, AcksApplied
  <2>3. Parted(g) => Parted(g)'
    BY DEF Apart, NoNewRequests, NoNewAcks, Parted
  <2>4. ~Parted(g)' => InRoom(room', g) /\ lastRequest'[g] = lastRequest[g]
    BY <2>2, <2>3 DEF Apart, GridKept
  <2>5. requests'[g] = requests[g]
    BY DEF Apart
  <2>6. \A m \in toHost' : ReadyRequestOf(m, g) => m \in toHost
    BY DEF Apart, NoNewRequests, ReadyRequestOf
  <2> QED
    BY <2>2, <2>3, <2>4, <2>5, <2>6
<1>5. RequestsSent'
  BY DEF ReadyInv, RequestsSent, Apart, NoNewRequests, NoNewAcks, ReadyRequestOf
<1> QED
  BY <1>1, <1>2, <1>3, <1>4, <1>5 DEF ReadyInv

-----------------------------------------------------------------------------
(* The guests' machines. *)

(* A step of a guest that changes nothing on Player 1's machine. *)
LEMMA GuestKeeps ==
  ASSUME GateInv, UNCHANGED <<hostVars, created, admitted, locks, case>>,
         GuestTypes', stops' \in Nat, confirmed' \in [Guests -> Requests],
         toHost \subseteq toHost', toHost' \subseteq HostMessages, UNCHANGED toGuest
  PROVE  GateInv'
<1>1. HostTypes'
  BY DEF GateInv, TypeOK, HostTypes, hostVars
<1>2. HistoryTypes'
  BY DEF GateInv, TypeOK, HistoryTypes
<1>3. TypeOK'
  BY <1>1, <1>2 DEF GateInv, TypeOK
<1>4. UsedIsGone' /\ LockedAdmitsNobody'
  BY DEF GateInv, UsedIsGone, LockedAdmitsNobody, hostVars
<1>5. SavesVerified'
  <2>1. UNCHANGED <<room, saved>>
    BY DEF hostVars
  <2> QED
    BY <2>1 DEF GateInv, SavesVerified, Waiting
<1> QED
  BY <1>3, <1>4, <1>5 DEF GateInv

LEMMA GuestApart ==
  ASSUME ReadyInv, UNCHANGED <<hostVars, requests, request, confirmed, toGuest>>,
         NoNewRequests
  PROVE  Apart
<1>1. UNCHANGED <<room, pending, lastRequest>>
  BY DEF hostVars
<1> QED
  BY <1>1 DEF Apart, GridKept, NoNewAcks, ReadyInv, PendingOutside

GuestActions(g) ==
    \/ Connect(g) \/ GuestReceivesPending(g)
    \/ \E m \in toGuest[g] : \/ GuestReceivesHelloAck(g, m)
                             \/ GuestReceivesStatus(g, m)
                             \/ GuestReceivesLobby(g, m)
    \/ GuestReceivesSaveAck(g) \/ GuestReceivesGoodbye(g) \/ GuestGoes(g)

(* What they all have in common. *)
GuestOnly ==
    /\ UNCHANGED <<hostVars, created, admitted, locks, case,
                   requests, request, confirmed, toGuest>>
    /\ stops' \in Nat /\ GuestTypes'
    /\ toHost' \subseteq HostMessages
    /\ NoNewRequests

LEMMA GuestOnlyKeeps ==
  ASSUME GateInv, ReadyInv, GuestOnly
  PROVE  GateInv' /\ ReadyInv'
<1>1. confirmed' \in [Guests -> Requests] /\ toHost \subseteq toHost'
  BY DEF GuestOnly, GateInv, TypeOK, HistoryTypes, NoNewRequests
<1>2. GateInv'
  BY <1>1, GuestKeeps DEF GuestOnly
<1>3. Apart
  BY GuestApart DEF GuestOnly
<1> QED
  BY <1>2, <1>3, ApartKeepsReady DEF GateInv

LEMMA ConnectOnly ==
  ASSUME GateInv, NEW g \in Guests, Connect(g)
  PROVE  GuestOnly
<1>1. PICK i \in 1 .. invitation, a \in created \cup {NoAdmission} :
        ticket' = [ticket EXCEPT ![g] = [invitation |-> i, admission |-> a]]
  BY DEF Connect
<1>2. [invitation |-> i, admission |-> a] \in Tickets
  BY DEF GateInv, TypeOK, HostTypes, HistoryTypes, Tickets
<1>3. GuestTypes'
  BY <1>1, <1>2 DEF Connect, GateInv, TypeOK, GuestTypes, States
<1>4. ticket'[g] \in Tickets
  BY <1>3 DEF GuestTypes
<1>5. [type |-> "Hello", from |-> g, ticket |-> ticket'[g]] \in HostMessages
  BY <1>4 DEF HostMessages
<1>6. toHost' \subseteq HostMessages /\ NoNewRequests
  BY <1>5 DEF Connect, GateInv, TypeOK, NoNewRequests
<1> QED
  BY <1>3, <1>6 DEF Connect, GuestOnly, historyVars, GateInv, TypeOK, HistoryTypes

LEMMA HelloAckOnly ==
  ASSUME GateInv, NEW g \in Guests, NEW m \in toGuest[g], GuestReceivesHelloAck(g, m)
  PROVE  GuestOnly
<1>1. m \in GuestMessages /\ m.type = "HelloAck"
  BY DEF GuestReceivesHelloAck, GateInv, TypeOK
<1>2. m.slot \in Slots
  BY <1>1 DEF GuestMessages
<1>3. OnlineSaveReady(g, m.slot) \in HostMessages
      /\ OnlineSaveReady(g, m.slot).type # "ReadyRequest"
  BY <1>2 DEF OnlineSaveReady, HostMessages
<1>4. GuestTypes'
  <2>1. GuestTypes /\ UNCHANGED <<ticket, view, request, requests>>
    BY DEF GateInv, TypeOK, GuestReceivesHelloAck
  <2>2. state' = [state EXCEPT ![g] = "Lobby"] \/ state' = [state EXCEPT ![g] = "Failed"]
    BY DEF GuestReceivesHelloAck
  <2>3. localSlot' = [localSlot EXCEPT ![g] = m.slot] \/ localSlot' = localSlot
    BY DEF GuestReceivesHelloAck
  <2>4. acked' = [acked EXCEPT ![g] = FALSE] \/ acked' = acked
    BY DEF GuestReceivesHelloAck
  <2>5. status' = [status EXCEPT ![g] = NoStatus] \/ status' = status
    BY DEF GuestReceivesHelloAck
  <2>6. state' \in [Guests -> States] /\ localSlot' \in [Guests -> Slots]
    BY <1>2, <2>1, <2>2, <2>3 DEF GuestTypes, States
  <2>7. acked' \in [Guests -> BOOLEAN]
    BY <2>1, <2>4 DEF GuestTypes
  <2>8. status' \in [Guests -> [gen : Nat, mask : SUBSET Slots]]
    <3>1. NoStatus \in [gen : Nat, mask : SUBSET Slots]
      BY DEF NoStatus
    <3> QED
      BY <2>1, <2>5, <3>1 DEF GuestTypes
  <2> QED
    BY <2>1, <2>6, <2>7, <2>8 DEF GuestTypes
<1>5. toHost' \subseteq HostMessages /\ NoNewRequests
  BY <1>3 DEF GuestReceivesHelloAck, GateInv, TypeOK, NoNewRequests
<1>6. stops' \in Nat
  BY DEF GuestReceivesHelloAck, Stops, GateInv, TypeOK, HistoryTypes
<1> QED
  BY <1>4, <1>5, <1>6 DEF GuestReceivesHelloAck, GuestOnly

LEMMA StatusType ==
  ASSUME GateInv, NEW g \in Guests, NEW v, NEW s, s.gen \in Nat, s.mask \in SUBSET Slots
  PROVE  StatusWith(g, s, v) \in [gen : Nat, mask : SUBSET Slots]
<1>1. status[g] \in [gen : Nat, mask : SUBSET Slots]
  BY DEF GateInv, TypeOK, GuestTypes
<1> QED
  BY <1>1 DEF StatusWith

(* The guest's actions that only change what it knows. *)
LEMMA LearningOnly ==
  ASSUME GateInv, NEW g \in Guests,
         \/ GuestReceivesPending(g) \/ GuestReceivesSaveAck(g) \/ GuestReceivesGoodbye(g)
         \/ \E m \in toGuest[g] : GuestReceivesStatus(g, m) \/ GuestReceivesLobby(g, m)
  PROVE  GuestOnly
<1>1. UNCHANGED <<hostVars, request, requests, toHost, toGuest, historyVars>>
  BY DEF GuestReceivesPending, GuestReceivesSaveAck, GuestReceivesGoodbye,
         GuestReceivesStatus, GuestReceivesLobby
<1>2. GuestTypes'
  <2>1. CASE GuestReceivesPending(g) \/ GuestReceivesSaveAck(g) \/ GuestReceivesGoodbye(g)
    BY <2>1 DEF GuestReceivesPending, GuestReceivesSaveAck, GuestReceivesGoodbye,
                GateInv, TypeOK, GuestTypes, States
  <2>2. CASE \E m \in toGuest[g] : GuestReceivesStatus(g, m)
    <3>1. PICK m \in toGuest[g] : GuestReceivesStatus(g, m)
      BY <2>2
    <3>2. m \in GuestMessages /\ m.type = "OnlineSaveStatus"
      BY <3>1 DEF GuestReceivesStatus, GateInv, TypeOK
    <3>3. m.gen \in Nat /\ m.mask \in SUBSET Slots
      BY <3>2 DEF GuestMessages
    <3>4. StatusWith(g, m, view[g]) \in [gen : Nat, mask : SUBSET Slots]
      BY <3>3, StatusType
    <3>5. status' \in [Guests -> [gen : Nat, mask : SUBSET Slots]]
      BY <3>1, <3>4 DEF GuestReceivesStatus, GateInv, TypeOK, GuestTypes
    <3>6. acked' \in [Guests -> BOOLEAN]
      BY <3>1 DEF GuestReceivesStatus, GateInv, TypeOK, GuestTypes
    <3> QED
      BY <3>1, <3>5, <3>6 DEF GuestReceivesStatus, GateInv, TypeOK, GuestTypes
  <2>3. CASE \E m \in toGuest[g] : GuestReceivesLobby(g, m)
    <3>1. PICK m \in toGuest[g] : GuestReceivesLobby(g, m)
      BY <2>3
    <3>2. m \in GuestMessages /\ m.type = "LobbyState"
      BY <3>1 DEF GuestReceivesLobby, GateInv, TypeOK
    <3>3. m.gen \in Nat /\ m.occupied \in SUBSET Slots
      BY <3>2 DEF GuestMessages
    <3>5. view' \in [Guests -> [gen : Nat, occupied : SUBSET Slots]]
      BY <3>1, <3>3 DEF GuestReceivesLobby, GateInv, TypeOK, GuestTypes
    <3>6. acked' \in [Guests -> BOOLEAN]
      BY <3>1 DEF GuestReceivesLobby, GateInv, TypeOK, GuestTypes
    <3> QED
      BY <3>1, <3>5, <3>6 DEF GuestReceivesLobby, GateInv, TypeOK, GuestTypes
  <2> QED
    BY <2>1, <2>2, <2>3
<1> QED
  BY <1>1, <1>2
     DEF GuestOnly, historyVars, GateInv, TypeOK, HistoryTypes, NoNewRequests

LEMMA GoesOnly ==
  ASSUME GateInv, NEW g \in Guests, GuestGoes(g)
  PROVE  GuestOnly
<1>1. GuestTypes'
  BY DEF GuestGoes, GateInv, TypeOK, GuestTypes, States
<1>2. Departure(g) \in HostMessages /\ Departure(g).type # "ReadyRequest"
  BY DEF Departure, HostMessages
<1>3. toHost' \subseteq HostMessages /\ NoNewRequests
  BY <1>2 DEF GuestGoes, GateInv, TypeOK, NoNewRequests
<1>4. stops' \in Nat
  BY DEF GuestGoes, Stops, GateInv, TypeOK, HistoryTypes
<1> QED
  BY <1>1, <1>3, <1>4 DEF GuestGoes, GuestOnly

LEMMA GuestActionsKeep ==
  ASSUME GateInv, ReadyInv, NEW g \in Guests, GuestActions(g)
  PROVE  GateInv' /\ ReadyInv'
<1>1. GuestOnly
  BY ConnectOnly, HelloAckOnly, LearningOnly, GoesOnly DEF GuestActions
<1> QED
  BY <1>1, GuestOnlyKeeps

-----------------------------------------------------------------------------
(* The ready protocol. *)

(* A guest's new request has a number nobody has seen. *)
LEMMA RequestReadyKeeps ==
  ASSUME GateInv, ReadyInv, NEW g \in Guests, NEW b \in BOOLEAN, RequestReady(g, b)
  PROVE  GateInv' /\ ReadyInv'
<1> DEFINE q == [id |-> requests[g] + 1, ready |-> b]
           msg == ReadyRequest(g, localSlot[g], q)
<1>1. requests[g] \in Nat /\ localSlot[g] \in Slots /\ g \in Guests
      /\ request \in [Guests -> Requests] /\ requests \in [Guests -> Nat]
  BY DEF GateInv, TypeOK, GuestTypes
<1>2. q \in Requests /\ q.id = requests[g] + 1
  BY <1>1 DEF Requests
<1>3. /\ request' = [request EXCEPT ![g] = q]
      /\ requests' = [requests EXCEPT ![g] = requests[g] + 1]
      /\ UNCHANGED <<hostVars, state, ticket, localSlot, view, status, acked,
                     toGuest, historyVars>>
      /\ state[g] = "Lobby"
  BY <1>1 DEF RequestReady
<1>4. request'[g] = q /\ requests'[g] = requests[g] + 1
      /\ \A h \in Guests \ {g} : request'[h] = request[h] /\ requests'[h] = requests[h]
  BY <1>1, <1>3
<1>5. toHost' = toHost \cup {msg}
  BY <1>4 DEF RequestReady
<1>6. msg \in HostMessages /\ msg.type = "ReadyRequest" /\ msg.from = g /\ msg.request = q
  BY <1>1, <1>2 DEF ReadyRequest, HostMessages
<1>7. GuestTypes'
  BY <1>1, <1>2, <1>3 DEF GateInv, TypeOK, GuestTypes
<1> HIDE DEF q, msg
<1>8. toHost \subseteq toHost' /\ toHost' \subseteq HostMessages
  BY <1>5, <1>6 DEF GateInv, TypeOK
<1>9. GateInv'
  BY <1>3, <1>7, <1>8, GuestKeeps DEF GateInv, TypeOK, HistoryTypes, historyVars
<1>10. UNCHANGED <<room, pending, lastRequest, state, toGuest, confirmed>>
       /\ lastRequest \in [Guests -> Nat]
  BY <1>3 DEF hostVars, historyVars, GateInv, TypeOK, HostTypes
<1>11. \A h \in Guests : requests[h] \in Nat /\ requests'[h] \in Nat /\ requests[h] <= requests'[h]
  BY <1>1, <1>4
<1>12. \A h \in Guests, m \in toHost' : ReadyRequestOf(m, h) =>
          \/ m \in toHost /\ m.request.id \in 1 .. requests[h] /\ m.request \in Requests
          \/ m = msg /\ h = g /\ m.request = q
  BY <1>5, <1>6 DEF ReadyInv, RequestsNumbered, ReadyRequestOf
<1>13. PendingOutside'
  BY <1>10 DEF ReadyInv, PendingOutside
<1>14. RequestsNumbered'
  <2>1. \A h \in Guests : lastRequest'[h] <= requests'[h]
    BY <1>10, <1>11 DEF ReadyInv, RequestsNumbered
  <2>2. \A h \in Guests, m \in toHost' : ReadyRequestOf(m, h) =>
          m.request \in Requests /\ m.request.id \in 1 .. requests'[h]
    BY <1>2, <1>4, <1>11, <1>12
  <2>3. \A h \in Guests, m, n \in toHost' :
          ReadyRequestOf(m, h) /\ ReadyRequestOf(n, h) /\ m.request.id = n.request.id
             => m.request = n.request
    <3> SUFFICES ASSUME NEW h \in Guests, NEW m \in toHost', NEW n \in toHost',
                        ReadyRequestOf(m, h), ReadyRequestOf(n, h), m.request.id = n.request.id
                 PROVE  m.request = n.request
      OBVIOUS
    <3>1. CASE m \in toHost /\ n \in toHost
      BY <3>1 DEF ReadyInv, RequestsNumbered
    <3>2. CASE ~(m \in toHost /\ n \in toHost)
      BY <1>1, <1>2, <1>12, <3>2
    <3> QED
      BY <3>1, <3>2
  <2> QED
    BY <2>1, <2>2, <2>3 DEF RequestsNumbered, ReadyRequestOf
<1>15. LastApplied'
  <2> SUFFICES ASSUME NEW h \in Guests, NEW m \in toHost', ReadyRequestOf(m, h),
                      ~m.request.ready, lastRequest'[h] = m.request.id
               PROVE  h \notin room'.ready
    BY DEF LastApplied, ReadyRequestOf
  <2>1. lastRequest[h] <= requests[h] /\ lastRequest[h] \in Nat
    BY <1>10 DEF ReadyInv, RequestsNumbered
  <2>2. m \in toHost
    BY <1>1, <1>2, <1>10, <1>12, <2>1
  <2> QED
    BY <1>10, <2>2 DEF ReadyInv, LastApplied
<1>16. AcksApplied'
  <2> SUFFICES ASSUME NEW h \in Guests, NEW k \in toGuest'[h], k.type = "ReadyAck"
               PROVE  /\ k.request.id \in 1 .. requests'[h]
                      /\ ~Parted(h)' => InRoom(room', h)
                      /\ ~Parted(h)' /\ ~k.request.ready =>
                            \A m \in toHost' : ReadyRequestOf(m, h) /\ m.request = k.request =>
                               lastRequest'[h] >= k.request.id
    BY DEF AcksApplied, ReadyRequestOf
  <2>1. /\ k.request.id \in 1 .. requests[h]
        /\ ~Parted(h) => InRoom(room, h)
        /\ ~Parted(h) /\ ~k.request.ready =>
              \A m \in toHost : ReadyRequestOf(m, h) /\ m.request = k.request =>
                 lastRequest[h] >= k.request.id
    BY <1>10 DEF ReadyInv, AcksApplied
  <2>2. k.request.id \in 1 .. requests'[h]
    BY <1>11, <2>1
  <2>3. \A m \in toHost' : ReadyRequestOf(m, h) /\ m.request = k.request => m \in toHost
    BY <1>1, <1>2, <1>12, <2>1
  <2>4. Parted(h) => Parted(h)'
    BY <1>8, <1>10 DEF Parted
  <2> QED
    BY <1>10, <2>1, <2>2, <2>3, <2>4
<1>17. RequestsSent'
  <2>1. ASSUME NEW h \in Guests, request'[h].id # 0
        PROVE  \E m \in toHost' : ReadyRequestOf(m, h) /\ m.request = request'[h]
    <3>1. CASE h = g
      BY <1>4, <1>5, <1>6, <3>1 DEF ReadyRequestOf
    <3>2. CASE h # g
      BY <1>4, <1>8, <2>1, <3>2 DEF ReadyInv, RequestsSent
    <3> QED
      BY <3>1, <3>2
  <2>2. ASSUME NEW h \in Guests, confirmed'[h].id # 0
        PROVE  /\ \E m \in toHost' : ReadyRequestOf(m, h) /\ m.request = confirmed'[h]
               /\ \E k \in toGuest'[h] : k.type = "ReadyAck" /\ k.request = confirmed'[h]
    BY <1>8, <1>10, <2>2 DEF ReadyInv, RequestsSent
  <2> QED
    BY <2>1, <2>2 DEF RequestsSent, ReadyRequestOf
<1> QED
  BY <1>9, <1>13, <1>14, <1>15, <1>16, <1>17 DEF ReadyInv

(* The guest takes the acknowledgement of the request it waits for. *)
LEMMA ReadyAckKeeps ==
  ASSUME GateInv, ReadyInv, NEW g \in Guests, GuestReceivesReadyAck(g)
  PROVE  GateInv' /\ ReadyInv'
<1>1. request \in [Guests -> Requests] /\ confirmed \in [Guests -> Requests]
      /\ NoRequest \in Requests /\ stops \in Nat
  BY DEF GateInv, TypeOK, GuestTypes, HistoryTypes, NoRequest, Requests
<1>2. request' \in [Guests -> Requests] /\ confirmed' \in [Guests -> Requests]
  BY <1>1 DEF GuestReceivesReadyAck
<1>3. GuestTypes'
  BY <1>2 DEF GuestReceivesReadyAck, GateInv, TypeOK, GuestTypes
<1>4. GateInv'
  BY <1>1, <1>2, <1>3, GuestKeeps DEF GuestReceivesReadyAck, GateInv, TypeOK
<1>5. UNCHANGED <<room, pending, lastRequest, requests, state, toHost, toGuest>>
  BY DEF GuestReceivesReadyAck, hostVars
<1>6. PendingOutside' /\ RequestsNumbered'
  BY <1>5 DEF ReadyInv, PendingOutside, RequestsNumbered, ReadyRequestOf
<1>7. LastApplied' /\ AcksApplied'
  BY <1>5 DEF ReadyInv, LastApplied, AcksApplied, Parted, ReadyRequestOf
<1>8. RequestsSent'
  <2> SUFFICES ASSUME NEW h \in Guests
        PROVE  /\ request'[h].id # 0 =>
                    \E m \in toHost : ReadyRequestOf(m, h) /\ m.request = request'[h]
               /\ confirmed'[h].id # 0 =>
                    /\ \E m \in toHost : ReadyRequestOf(m, h) /\ m.request = confirmed'[h]
                    /\ \E k \in toGuest[h] : k.type = "ReadyAck" /\ k.request = confirmed'[h]
    BY <1>5 DEF RequestsSent, ReadyRequestOf
  <2>1. CASE h = g
    <3>1. request'[h].id = 0 /\ confirmed'[h] = request[h] /\ request[h].id # 0
      BY <1>1, <2>1 DEF GuestReceivesReadyAck, NoRequest
    <3>2. \E m \in toHost : ReadyRequestOf(m, h) /\ m.request = request[h]
      BY <3>1 DEF ReadyInv, RequestsSent
    <3>3. \E k \in toGuest[h] : k.type = "ReadyAck" /\ k.request = request[h]
      BY <2>1 DEF GuestReceivesReadyAck, ReadyAck
    <3> QED
      BY <3>1, <3>2, <3>3
  <2>2. CASE h # g
    <3>1. request'[h] = request[h] /\ confirmed'[h] = confirmed[h]
      BY <1>1, <2>2 DEF GuestReceivesReadyAck
    <3> QED
      BY <3>1 DEF ReadyInv, RequestsSent
  <2> QED
    BY <2>1, <2>2
<1> QED
  BY <1>4, <1>6, <1>7, <1>8 DEF ReadyInv

-----------------------------------------------------------------------------
(* Player 1's machine. *)

(* What every host step has in common. *)
HostOnly ==
    /\ UNCHANGED <<guestVars, toHost, confirmed, case>>
    /\ locks' \in Nat /\ stops' \in Nat
    /\ toGuest' \in [Guests -> SUBSET GuestMessages]

(* A host step outside the ready protocol. *)
HostApart ==
    /\ NoNewAcks /\ GridKept
    /\ room'.ready \cap Guests \subseteq room.ready
    /\ \A g \in pending' : ~InRoom(room', g)

LEMMA HostKeeps ==
  ASSUME GateInv, ReadyInv, HostOnly, HostApart, HostTypes',
         created' \subseteq Admissions, admitted' \in [Admissions -> SUBSET Guests],
         UsedIsGone', LockedAdmitsNobody', SavesVerified'
  PROVE  GateInv' /\ ReadyInv'
<1>1. GuestTypes'
  BY DEF HostOnly, guestVars, GateInv, TypeOK, GuestTypes
<1>2. HistoryTypes'
  BY DEF HostOnly, GateInv, TypeOK, HistoryTypes
<1>3. TypeOK'
  BY <1>1, <1>2 DEF HostOnly, GateInv, TypeOK
<1>4. Apart
  BY DEF HostOnly, HostApart, guestVars, Apart, NoNewRequests
<1> QED
  BY <1>3, <1>4, ApartKeepsReady DEF GateInv

(* The two ways Player 1 answers outside the ready protocol. *)
LEMMA AnswersGuest ==
  ASSUME TypeOK, NEW g \in Guests, NEW k \in GuestMessages, k.type # "ReadyAck",
         toGuest' = Sent(g, {k})
  PROVE  toGuest' \in [Guests -> SUBSET GuestMessages] /\ NoNewAcks
<1>1. {k} \in SUBSET GuestMessages
  OBVIOUS
<1> QED
  BY <1>1, SentAdds DEF NoNewAcks

LEMMA BroadcastsTo ==
  ASSUME TypeOK, NEW r \in RoomType, NEW sv \in SUBSET Guests,
         toGuest' = Broadcast(toGuest, r, sv)
  PROVE  toGuest' \in [Guests -> SUBSET GuestMessages] /\ NoNewAcks
<1>1. toGuest \in [Guests -> SUBSET GuestMessages]
  BY DEF TypeOK
<1> QED
  BY <1>1, BroadcastAdds DEF NoNewAcks

LEMMA AnswersAndBroadcasts ==
  ASSUME TypeOK, NEW r \in RoomType, NEW sv \in SUBSET Guests,
         NEW g \in Guests, NEW k \in GuestMessages, k.type # "ReadyAck",
         toGuest' = Broadcast(Sent(g, {k}), r, sv)
  PROVE  toGuest' \in [Guests -> SUBSET GuestMessages] /\ NoNewAcks /\ k \in toGuest'[g]
<1> DEFINE to == Sent(g, {k})
<1>1. {k} \in SUBSET GuestMessages
  OBVIOUS
<1>2. /\ to \in [Guests -> SUBSET GuestMessages]
      /\ \A h \in Guests : toGuest[h] \subseteq to[h]
      /\ \A h \in Guests : \A n \in to[h] : n \in toGuest[h] \/ n.type # "ReadyAck"
      /\ k \in to[g]
  <2>1. toGuest \in [Guests -> SUBSET GuestMessages]
    BY DEF TypeOK
  <2> QED
    BY <1>1, <2>1, SentAdds DEF Sent
<1>3. toGuest' = Broadcast(to, r, sv)
  OBVIOUS
<1> HIDE DEF to
<1>4. /\ Broadcast(to, r, sv) \in [Guests -> SUBSET GuestMessages]
      /\ \A h \in Guests : to[h] \subseteq Broadcast(to, r, sv)[h]
      /\ \A h \in Guests : \A n \in Broadcast(to, r, sv)[h] :
            n \in to[h] \/ n.type \in {"LobbyState", "OnlineSaveStatus"}
  BY <1>2, BroadcastAdds
<1> QED
  BY <1>2, <1>3, <1>4 DEF NoNewAcks

(* A step that only takes waiting requests and admissions away. *)
Shrinks ==
    /\ UNCHANGED <<room, saved, lastRequest, created, admitted>>
    /\ pending' \subseteq pending /\ admissions' \subseteq admissions
    /\ locked' => locked \/ (pending' = {} /\ admissions' = {})
    /\ locked' \in BOOLEAN /\ countdown' \in BOOLEAN /\ invitation' \in Nat
    /\ blocked' \subseteq Guests

LEMMA ShrinksKeeps ==
  ASSUME GateInv, ReadyInv, HostOnly, NoNewAcks, Shrinks
  PROVE  GateInv' /\ ReadyInv'
<1>1. HostTypes'
  <2>1. IsFiniteSet(pending) /\ Cardinality(pending) <= case.pending /\ case.pending \in Nat
    BY GuestsAssumption, GridAssumption, FS_Subset
       DEF GateInv, TypeOK, HostTypes, HistoryTypes, Case
  <2>2. Cardinality(pending') <= Cardinality(pending) /\ Cardinality(pending) \in Nat
        /\ Cardinality(pending') \in Nat
    <3>1. IsFiniteSet(pending')
      BY <2>1, FS_Subset DEF Shrinks
    <3> QED
      BY <2>1, <3>1, FS_Subset, FS_CardinalityType DEF Shrinks
  <2>3. Cardinality(pending') <= case'.pending
    BY <2>1, <2>2 DEF HostOnly
  <2> QED
    BY <2>3 DEF Shrinks, GateInv, TypeOK, HostTypes
<1>2. UsedIsGone'
  BY DEF Shrinks, GateInv, UsedIsGone
<1>3. LockedAdmitsNobody'
  BY DEF Shrinks, GateInv, LockedAdmitsNobody
<1>4. SavesVerified'
  BY DEF Shrinks, HostOnly, GateInv, SavesVerified, Waiting
<1>5. HostApart
  BY DEF Shrinks, HostApart, GridKept, ReadyInv, PendingOutside
<1> QED
  BY <1>1, <1>2, <1>3, <1>4, <1>5, HostKeeps DEF Shrinks, GateInv, TypeOK, HistoryTypes

LEMMA RejectKeeps ==
  ASSUME GateInv, ReadyInv, NEW g \in Guests, NEW b \in BOOLEAN, Reject(g, b)
  PROVE  GateInv' /\ ReadyInv'
<1>1. Refused \in GuestMessages /\ Refused.type # "ReadyAck"
  BY AnswerType DEF Refused
<1>2. toGuest' \in [Guests -> SUBSET GuestMessages] /\ NoNewAcks
  BY <1>1, AnswersGuest DEF Reject, GateInv
<1>3. HostOnly
  <2>1. stops' = stops + 1 /\ stops \in Nat
    BY DEF Reject, Stops, GateInv, TypeOK, HistoryTypes
  <2>2. UNCHANGED <<guestVars, toHost, confirmed, case, locks>> /\ locks \in Nat
    BY DEF Reject, GateInv, TypeOK, HistoryTypes
  <2> QED
    BY <1>2, <2>1, <2>2 DEF HostOnly
<1>4. Shrinks
  BY DEF Reject, Shrinks, GateInv, TypeOK, HostTypes
<1> QED
  BY <1>2, <1>3, <1>4, ShrinksKeeps

LEMMA ExpirePendingKeeps ==
  ASSUME GateInv, ReadyInv, NEW g \in Guests, ExpirePending(g)
  PROVE  GateInv' /\ ReadyInv'
<1>1. HostOnly /\ NoNewAcks
  BY DEF ExpirePending, HostOnly, NoNewAcks, historyVars, GateInv, TypeOK, HistoryTypes
<1>2. Shrinks
  BY DEF ExpirePending, Shrinks, historyVars, GateInv, TypeOK, HostTypes
<1> QED
  BY <1>1, <1>2, ShrinksKeeps

LEMMA DropAdmissionKeeps ==
  ASSUME GateInv, ReadyInv, NEW a \in Admissions, DropAdmission(a)
  PROVE  GateInv' /\ ReadyInv'
<1>1. HostOnly /\ NoNewAcks
  BY DEF DropAdmission, HostOnly, NoNewAcks, historyVars, GateInv, TypeOK, HistoryTypes
<1>2. Shrinks
  BY DEF DropAdmission, Shrinks, historyVars, GateInv, TypeOK, HostTypes
<1> QED
  BY <1>1, <1>2, ShrinksKeeps

LEMMA ReplaceInvitationKeeps ==
  ASSUME GateInv, ReadyInv, ReplaceInvitation
  PROVE  GateInv' /\ ReadyInv'
<1>1. HostOnly /\ NoNewAcks
  BY DEF ReplaceInvitation, HostOnly, NoNewAcks, historyVars, GateInv, TypeOK, HistoryTypes
<1>2. Shrinks
  BY DEF ReplaceInvitation, Shrinks, historyVars, GateInv, TypeOK, HostTypes
<1> QED
  BY <1>1, <1>2, ShrinksKeeps

LEMMA SetLockedKeeps ==
  ASSUME GateInv, ReadyInv, NEW b \in BOOLEAN, SetLocked(b)
  PROVE  GateInv' /\ ReadyInv'
<1>1. Refused \in GuestMessages /\ Refused.type # "ReadyAck"
  BY AnswerType DEF Refused
<1>2. toGuest' \in [Guests -> SUBSET GuestMessages] /\ NoNewAcks
  <2>1. toGuest \in [Guests -> SUBSET GuestMessages]
    BY DEF GateInv, TypeOK
  <2>2. toGuest' = [g \in Guests |-> IF b /\ g \in pending
                                     THEN toGuest[g] \cup {Refused} ELSE toGuest[g]]
    BY DEF SetLocked
  <2>3. \A g \in Guests : toGuest'[g] = toGuest[g] \/ toGuest'[g] = toGuest[g] \cup {Refused}
    BY <2>2
  <2>4. toGuest' \in [Guests -> SUBSET GuestMessages]
    BY <1>1, <2>1, <2>2
  <2> QED
    BY <1>1, <2>3, <2>4 DEF NoNewAcks
<1>3. HostOnly
  BY <1>2 DEF SetLocked, HostOnly, GateInv, TypeOK, HistoryTypes
<1>4. Shrinks
  BY DEF SetLocked, PendingAfterLock, Shrinks, GateInv, TypeOK, HostTypes
<1> QED
  BY <1>2, <1>3, <1>4, ShrinksKeeps

(* The steps that only tell the guests of the room as it is. *)
LEMMA TellingKeeps ==
  ASSUME GateInv, ReadyInv, RepeatLobby \/ RequestStart \/ CancelCountdown
  PROVE  GateInv' /\ ReadyInv'
<1>1. toGuest' = Broadcast(toGuest, room, saved)
  BY DEF RepeatLobby, RequestStart, CancelCountdown
<1>2. toGuest' \in [Guests -> SUBSET GuestMessages] /\ NoNewAcks
  BY <1>1, BroadcastsTo DEF GateInv, TypeOK, HostTypes
<1>3. HostOnly
  BY <1>2 DEF RepeatLobby, RequestStart, CancelCountdown, HostOnly, historyVars,
              GateInv, TypeOK, HistoryTypes
<1>4. Shrinks
  <2>1. HostTypes
    BY DEF GateInv, TypeOK
  <2>2. CASE RepeatLobby
    BY <2>1, <2>2 DEF RepeatLobby, Shrinks, historyVars, hostVars, HostTypes
  <2>3. CASE RequestStart
    BY <2>1, <2>3 DEF RequestStart, Shrinks, historyVars, HostTypes
  <2>4. CASE CancelCountdown
    BY <2>1, <2>4 DEF CancelCountdown, Shrinks, historyVars, HostTypes
  <2> QED
    BY <2>2, <2>3, <2>4
<1> QED
  BY <1>2, <1>3, <1>4, ShrinksKeeps

LEMMA CreateAdmissionKeeps ==
  ASSUME GateInv, ReadyInv, NEW a \in Admissions, CreateAdmission(a)
  PROVE  GateInv' /\ ReadyInv'
<1>1. HostOnly
  BY DEF CreateAdmission, HostOnly, GateInv, TypeOK, HistoryTypes
<1>2. HostTypes'
  BY DEF CreateAdmission, GateInv, TypeOK, HostTypes
<1>3. created' \subseteq Admissions /\ admitted' \in [Admissions -> SUBSET Guests]
  BY DEF CreateAdmission, GateInv, TypeOK, HistoryTypes
<1>4. UsedIsGone'
  BY DEF CreateAdmission, GateInv, UsedIsGone
<1>5. LockedAdmitsNobody'
  BY DEF CreateAdmission, GateInv, LockedAdmitsNobody
<1>6. SavesVerified'
  BY DEF CreateAdmission, GateInv, SavesVerified, Waiting
<1>7. HostApart
  BY DEF CreateAdmission, HostApart, GridKept, NoNewAcks, ReadyInv, PendingOutside
<1> QED
  BY <1>1, <1>2, <1>3, <1>4, <1>5, <1>6, <1>7, HostKeeps

(* A racer leaves the waiting grid or is removed from it. *)
Leaves(g) ==
    /\ Waiting /\ InRoom(room, g)
    /\ room' = Leave(room, g)
    /\ saved' = saved \ {g}
    /\ UNCHANGED <<locked, invitation, pending, admissions, blocked, lastRequest,
                   countdown, created, admitted>>

LEMMA LeavesKeeps ==
  ASSUME GateInv, ReadyInv, NEW g \in Guests, Leaves(g), HostOnly, NoNewAcks,
         Parted(g)'
  PROVE  GateInv' /\ ReadyInv'
<1>1. room \in RoomType
  BY DEF GateInv, TypeOK, HostTypes
<1>2. /\ room' \in RoomType /\ room'.ready = {} /\ room'.phase = "Waiting"
      /\ \A h \in Guests : InRoom(room', h) => InRoom(room, h)
      /\ \A h \in Guests \ {g} : InRoom(room, h) => InRoom(room', h)
  BY <1>1, LeaveType DEF Leaves, Waiting
<1>3. HostTypes'
  BY <1>2 DEF Leaves, HostOnly, GateInv, TypeOK, HostTypes
<1>4. created' \subseteq Admissions /\ admitted' \in [Admissions -> SUBSET Guests]
  BY DEF Leaves, GateInv, TypeOK, HistoryTypes
<1>5. UsedIsGone' /\ LockedAdmitsNobody'
  BY DEF Leaves, GateInv, UsedIsGone, LockedAdmitsNobody
<1>6. SavesVerified'
  BY <1>2 DEF Leaves, HostOnly, GateInv, SavesVerified, Waiting
<1>7. HostApart
  <2>1. \A h \in pending' : h \in Guests /\ h \in pending /\ ~InRoom(room', h)
    BY <1>2 DEF Leaves, ReadyInv, PendingOutside, GateInv, TypeOK, HostTypes
  <2>2. GridKept
    BY <1>2 DEF Leaves, GridKept
  <2> QED
    BY <1>2, <2>1, <2>2 DEF HostApart
<1> QED
  BY <1>3, <1>4, <1>5, <1>6, <1>7, HostKeeps

LEMMA KickKeeps ==
  ASSUME GateInv, ReadyInv, NEW g \in Guests, Kick(g)
  PROVE  GateInv' /\ ReadyInv'
<1>1. Leaves(g)
  BY DEF Kick, Leaves
<1>2. room' \in RoomType /\ saved' \in SUBSET Guests
  BY <1>1, LeaveType DEF Leaves, GateInv, TypeOK, HostTypes
<1>3. Goodbye \in GuestMessages /\ Goodbye.type # "ReadyAck"
  BY AnswerType DEF Goodbye
<1>4. /\ toGuest' \in [Guests -> SUBSET GuestMessages] /\ NoNewAcks
      /\ Goodbye \in toGuest'[g]
  BY <1>2, <1>3, AnswersAndBroadcasts DEF Kick, GateInv
<1>5. HostOnly
  <2>1. stops' = stops + 1 /\ stops \in Nat
    BY DEF Kick, Stops, GateInv, TypeOK, HistoryTypes
  <2>2. UNCHANGED <<guestVars, toHost, confirmed, case, locks>> /\ locks \in Nat
    BY DEF Kick, GateInv, TypeOK, HistoryTypes
  <2> QED
    BY <1>4, <2>1, <2>2 DEF HostOnly
<1>6. Parted(g)'
  BY <1>4 DEF Parted
<1> QED
  BY <1>1, <1>4, <1>5, <1>6, LeavesKeeps

LEMMA DepartureKeeps ==
  ASSUME GateInv, ReadyInv, NEW g \in Guests, HostReceivesDeparture(g)
  PROVE  GateInv' /\ ReadyInv'
<1>1. Leaves(g)
  BY DEF HostReceivesDeparture, Leaves, historyVars
<1>2. room' \in RoomType /\ saved' \in SUBSET Guests
  BY <1>1, LeaveType DEF Leaves, GateInv, TypeOK, HostTypes
<1>3. toGuest' \in [Guests -> SUBSET GuestMessages] /\ NoNewAcks
  BY <1>2, BroadcastsTo DEF HostReceivesDeparture, GateInv
<1>4. HostOnly
  BY <1>3 DEF HostReceivesDeparture, HostOnly, historyVars, GateInv, TypeOK, HistoryTypes
<1>5. Parted(g)'
  BY DEF HostReceivesDeparture, Parted, Departure
<1> QED
  BY <1>1, <1>3, <1>4, <1>5, LeavesKeeps

LEMMA SaveReadyKeeps ==
  ASSUME GateInv, ReadyInv, NEW m \in toHost, HostReceivesSaveReady(m)
  PROVE  GateInv' /\ ReadyInv'
<1>1. m \in HostMessages /\ m.type = "OnlineSaveReady"
  BY DEF HostReceivesSaveReady, GateInv, TypeOK
<1>2. m.from \in Guests /\ m.slot \in Slots
  BY <1>1 DEF HostMessages
<1>3. SaveAck(m.slot) \in GuestMessages /\ SaveAck(m.slot).type # "ReadyAck"
  BY <1>2, AnswerType DEF SaveAck
<1>4. toGuest' \in [Guests -> SUBSET GuestMessages] /\ NoNewAcks
  BY <1>2, <1>3, AnswersGuest DEF HostReceivesSaveReady, GateInv
<1>5. HostOnly
  BY <1>4 DEF HostReceivesSaveReady, HostOnly, historyVars, GateInv, TypeOK, HistoryTypes
<1>6. HostTypes'
  BY <1>2 DEF HostReceivesSaveReady, HostOnly, historyVars, GateInv, TypeOK, HostTypes
<1>7. created' \subseteq Admissions /\ admitted' \in [Admissions -> SUBSET Guests]
  BY DEF HostReceivesSaveReady, historyVars, GateInv, TypeOK, HistoryTypes
<1>8. UsedIsGone' /\ LockedAdmitsNobody'
  BY DEF HostReceivesSaveReady, historyVars, GateInv, UsedIsGone, LockedAdmitsNobody
<1>9. SavesVerified'
  BY <1>1 DEF HostReceivesSaveReady, GateInv, SavesVerified, Waiting
<1>10. HostApart
  BY <1>4 DEF HostReceivesSaveReady, HostApart, GridKept, ReadyInv, PendingOutside
<1> QED
  BY <1>5, <1>6, <1>7, <1>8, <1>9, <1>10, HostKeeps

LEMMA HostReadyKeeps ==
  ASSUME GateInv, ReadyInv, NEW b \in BOOLEAN, HostReady(b)
  PROVE  GateInv' /\ ReadyInv'
<1>1. room \in RoomType /\ Host \in Players /\ Host \notin Guests /\ saved \in SUBSET Guests
  BY GuestsAssumption DEF GateInv, TypeOK, HostTypes, Players
<1>2. /\ room' \in RoomType /\ room'.slot = room.slot /\ room'.phase = room.phase
      /\ room'.ready \subseteq room.ready \cup {Host}
  BY <1>1, SetReadyType DEF HostReady
<1>3. toGuest' \in [Guests -> SUBSET GuestMessages] /\ NoNewAcks
  BY <1>1, <1>2, BroadcastsTo DEF HostReady, GateInv
<1>4. HostOnly
  BY <1>3 DEF HostReady, HostOnly, historyVars, GateInv, TypeOK, HistoryTypes
<1>5. HostTypes'
  BY <1>2 DEF HostReady, historyVars, GateInv, TypeOK, HostTypes
<1>6. created' \subseteq Admissions /\ admitted' \in [Admissions -> SUBSET Guests]
  BY DEF HostReady, historyVars, GateInv, TypeOK, HistoryTypes
<1>7. UsedIsGone' /\ LockedAdmitsNobody'
  BY DEF HostReady, historyVars, GateInv, UsedIsGone, LockedAdmitsNobody
<1>8. room'.ready \cap Guests \subseteq room.ready
      /\ \A h \in Guests : InRoom(room', h) <=> InRoom(room, h)
  BY <1>1, <1>2 DEF InRoom
<1>9. SavesVerified'
  BY <1>2, <1>8 DEF HostReady, GateInv, SavesVerified, Waiting
<1>10. HostApart
  BY <1>3, <1>8 DEF HostReady, HostApart, GridKept, ReadyInv, PendingOutside,
                        GateInv, TypeOK, HostTypes
<1> QED
  BY <1>4, <1>5, <1>6, <1>7, <1>9, <1>10, HostKeeps

(* The launch looks at the ready flags, and they stand for verified saves. *)
LEMMA PrepareLaunchKeeps ==
  ASSUME GateInv, ReadyInv, PrepareLaunch
  PROVE  GateInv' /\ ReadyInv'
<1>1. room \in RoomType /\ saved \in SUBSET Guests
  BY DEF GateInv, TypeOK, HostTypes
<1>2. /\ room' \in RoomType /\ room'.slot = room.slot /\ room'.ready = room.ready
      /\ CanStart(room)
  BY <1>1, LoadingType DEF PrepareLaunch, BeginLoading
<1>3. toGuest' \in [Guests -> SUBSET GuestMessages] /\ NoNewAcks
  BY <1>1, <1>2, BroadcastsTo DEF PrepareLaunch, GateInv
<1>4. HostOnly
  BY <1>3 DEF PrepareLaunch, HostOnly, historyVars, GateInv, TypeOK, HistoryTypes
<1>5. HostTypes'
  BY <1>2 DEF PrepareLaunch, historyVars, GateInv, TypeOK, HostTypes
<1>6. created' \subseteq Admissions /\ admitted' \in [Admissions -> SUBSET Guests]
  BY DEF PrepareLaunch, historyVars, GateInv, TypeOK, HistoryTypes
<1>7. UsedIsGone' /\ LockedAdmitsNobody'
  BY DEF PrepareLaunch, historyVars, GateInv, UsedIsGone, LockedAdmitsNobody
<1>8. \A h \in Guests : InRoom(room', h) <=> InRoom(room, h)
  BY <1>1, <1>2 DEF InRoom
<1>9. \A h \in Guests : InRoom(room, h) => h \in saved
  BY <1>2 DEF CanStart, Occupants, Players, GateInv, SavesVerified
<1>10. SavesVerified'
  BY <1>2, <1>8, <1>9 DEF PrepareLaunch, GateInv, SavesVerified
<1>11. HostApart
  BY <1>2, <1>3, <1>8
     DEF PrepareLaunch, HostApart, GridKept, ReadyInv, PendingOutside, GateInv, TypeOK, HostTypes
<1> QED
  BY <1>4, <1>5, <1>6, <1>7, <1>10, <1>11, HostKeeps

(* A racer that is not on the grid is admitted. *)
LEMMA AdmitKeeps ==
  ASSUME GateInv, ReadyInv, NEW g \in Guests, CanJoin(room, g), Admit(g),
         ~InRoom(room, g),
         pending' = pending \ {g}, admissions' \subseteq admissions,
         UNCHANGED <<locked, invitation, blocked, countdown, created>>,
         UNCHANGED <<guestVars, toHost, confirmed, case, locks, stops>>,
         admitted' \in [Admissions -> SUBSET Guests], UsedIsGone'
  PROVE  GateInv' /\ ReadyInv'
<1>1. room \in RoomType /\ saved \in SUBSET Guests
  BY DEF GateInv, TypeOK, HostTypes
<1>2. room' = Join(room, g) /\ saved' = saved \ {g}
      /\ lastRequest' = [lastRequest EXCEPT ![g] = 0]
      /\ toGuest' = Broadcast(Sent(g, {Accepted(room'.slot[g])}), room', saved')
  BY DEF Admit
<1>3. /\ room' \in RoomType /\ room'.slot[g] \in Slots
      /\ room'.ready = {} /\ room'.phase = "Waiting"
      /\ \A h \in Guests \ {g} : room'.slot[h] = room.slot[h]
  BY <1>1, <1>2, JoinType
<1>4. saved' \in SUBSET Guests
  BY <1>1, <1>2
<1>5. Accepted(room'.slot[g]) \in GuestMessages /\ Accepted(room'.slot[g]).type # "ReadyAck"
  BY <1>3, AnswerType DEF Accepted
<1>6. toGuest' \in [Guests -> SUBSET GuestMessages] /\ NoNewAcks
  BY <1>2, <1>3, <1>4, <1>5, AnswersAndBroadcasts DEF GateInv
<1>7. HostOnly
  BY <1>6 DEF HostOnly, GateInv, TypeOK, HistoryTypes
<1>8. Cardinality(pending') <= case'.pending
  <2>1. IsFiniteSet(pending) /\ Cardinality(pending) <= case.pending /\ case.pending \in Nat
    BY GuestsAssumption, GridAssumption, FS_Subset
       DEF GateInv, TypeOK, HostTypes, HistoryTypes, Case
  <2>2. IsFiniteSet(pending \ {g}) /\ Cardinality(pending \ {g}) <= Cardinality(pending)
    BY <2>1, FS_Subset
  <2>3. Cardinality(pending) \in Nat /\ Cardinality(pending \ {g}) \in Nat
    BY <2>1, <2>2, FS_CardinalityType
  <2> QED
    BY <2>1, <2>2, <2>3
<1>9. HostTypes'
  BY <1>2, <1>3, <1>4, <1>8 DEF GateInv, TypeOK, HostTypes
<1>10. created' \subseteq Admissions
  BY DEF GateInv, TypeOK, HistoryTypes
<1>11. LockedAdmitsNobody'
  BY DEF GateInv, LockedAdmitsNobody
<1>12. SavesVerified'
  BY <1>2, <1>3 DEF GateInv, SavesVerified, Waiting
<1>13. HostApart
  <2>1. GridKept
    <3>1. \A h \in Guests : lastRequest'[h] = lastRequest[h]
             \/ (lastRequest'[h] = 0 /\ ~InRoom(room, h))
      BY <1>2 DEF GateInv, TypeOK, HostTypes
    <3>2. \A h \in Guests : InRoom(room, h) => InRoom(room', h)
      BY <1>3, GuestsAssumption DEF InRoom
    <3> QED
      BY <3>1, <3>2 DEF GridKept
  <2>2. \A h \in pending' : h \in pending /\ ~InRoom(room', h)
    BY <1>3 DEF ReadyInv, PendingOutside, InRoom, GateInv, TypeOK, HostTypes
  <2> QED
    BY <1>3, <1>6, <2>1, <2>2 DEF HostApart
<1> QED
  BY <1>7, <1>9, <1>10, <1>11, <1>12, <1>13, HostKeeps

LEMMA ApproveKeeps ==
  ASSUME GateInv, ReadyInv, NEW g \in Guests, Approve(g)
  PROVE  GateInv' /\ ReadyInv'
<1>1. /\ CanJoin(room, g) /\ Admit(g) /\ g \in pending
      /\ pending' = pending \ {g} /\ admissions' \subseteq admissions
      /\ UNCHANGED <<locked, invitation, blocked, countdown, created>>
      /\ UNCHANGED <<guestVars, toHost, confirmed, case, locks, stops>>
  BY DEF Approve, historyVars
<1>2. admitted' \in [Admissions -> SUBSET Guests]
  BY DEF Approve, historyVars, GateInv, TypeOK, HistoryTypes
<1>3. UsedIsGone'
  BY DEF Approve, historyVars, GateInv, UsedIsGone
<1>4. ~InRoom(room, g)
  BY DEF Approve, ReadyInv, PendingOutside
<1> QED
  BY <1>1, <1>2, <1>3, <1>4, AdmitKeeps

LEMMA HelloKeeps ==
  ASSUME GateInv, ReadyInv, NEW m \in toHost, HostReceivesHello(m)
  PROVE  GateInv' /\ ReadyInv'
<1> DEFINE g == m.from
           a == m.ticket.admission
<1>1. m \in HostMessages /\ m.type = "Hello"
  BY DEF HostReceivesHello, GateInv, TypeOK
<1>2. g \in Guests
  BY <1>1 DEF HostMessages
<1>4. /\ UNCHANGED <<locked, invitation, blocked, countdown, created>>
      /\ UNCHANGED <<guestVars, toHost, confirmed, case, locks, stops>>
  BY DEF HostReceivesHello
<1>5. room \in RoomType /\ saved \in SUBSET Guests /\ TypeOK
      /\ room.slot[g] \in Slots /\ case \in Case
  BY <1>2, GridAssumption DEF GateInv, TypeOK, HostTypes, HistoryTypes, RoomType
<1>6. Refused \in GuestMessages /\ Refused.type # "ReadyAck"
      /\ JoinPending \in GuestMessages /\ JoinPending.type # "ReadyAck"
      /\ Accepted(room.slot[g]) \in GuestMessages
      /\ Accepted(room.slot[g]).type # "ReadyAck"
  BY <1>5, AnswerType DEF Refused, JoinPending, Accepted
<1>7. ASSUME toGuest' \in [Guests -> SUBSET GuestMessages] PROVE HostOnly
  BY <1>4, <1>7 DEF HostOnly, GateInv, TypeOK, HistoryTypes
<1>8. ASSUME UNCHANGED <<room, saved, lastRequest, admitted>>,
             pending' \subseteq pending, admissions' \subseteq admissions
      PROVE  Shrinks
  BY <1>4, <1>8 DEF Shrinks, GateInv, TypeOK, HostTypes
<1>9. CASE /\ InRoom(room, g)
           /\ toGuest' = Broadcast(Sent(g, {Accepted(room.slot[g])}), room, saved)
           /\ UNCHANGED <<room, pending, admissions, saved, lastRequest, admitted>>
  <2>1. toGuest' \in [Guests -> SUBSET GuestMessages] /\ NoNewAcks
    BY <1>2, <1>5, <1>6, <1>9, AnswersAndBroadcasts
  <2> QED
    BY <1>7, <1>8, <1>9, <2>1, ShrinksKeeps
<1>10. CASE /\ toGuest' = Sent(g, {Refused})
            /\ UNCHANGED <<room, pending, admissions, saved, lastRequest, admitted>>
  <2>1. toGuest' \in [Guests -> SUBSET GuestMessages] /\ NoNewAcks
    BY <1>2, <1>5, <1>6, <1>10, AnswersGuest
  <2> QED
    BY <1>7, <1>8, <1>10, <2>1, ShrinksKeeps
<1>11. CASE /\ ~InRoom(room, g) /\ a \in admissions /\ CanJoin(room, g) /\ Admit(g)
            /\ pending' = pending \ {g} /\ admissions' = AdmissionsAfter(a)
            /\ admitted' = [admitted EXCEPT ![a] = @ \cup {g}]
  <2>1. a \in Admissions /\ admissions' = admissions \ {a}
        /\ a \in created /\ admitted \in [Admissions -> SUBSET Guests]
    BY <1>11 DEF AdmissionsAfter, GateInv, TypeOK, HostTypes, HistoryTypes
  <2>2. admitted' \in [Admissions -> SUBSET Guests]
    BY <1>2, <1>11, <2>1
  <2>3. admitted[a] = {}
    BY <1>11, <2>1 DEF GateInv, UsedIsGone
  <2>4. admitted'[a] = {g} /\ \A b \in Admissions \ {a} : admitted'[b] = admitted[b]
    BY <1>11, <2>1, <2>3
  <2>5. UsedIsGone'
    BY <1>4, <2>1, <2>4 DEF GateInv, UsedIsGone
  <2> QED
    BY <1>2, <1>4, <1>11, <2>1, <2>2, <2>5, AdmitKeeps
<1>12. CASE /\ pending' = pending \ {g} /\ admissions' = AdmissionsAfter(a)
            /\ toGuest' = Sent(g, {Refused})
            /\ UNCHANGED <<room, saved, lastRequest, admitted>>
  <2>1. toGuest' \in [Guests -> SUBSET GuestMessages] /\ NoNewAcks
    BY <1>2, <1>5, <1>6, <1>12, AnswersGuest
  <2>2. pending' \subseteq pending /\ admissions' \subseteq admissions
    BY <1>12 DEF AdmissionsAfter
  <2> QED
    BY <1>7, <1>8, <1>12, <2>1, <2>2, ShrinksKeeps
<1>13. CASE /\ ~InRoom(room, g) /\ ~locked /\ ~PendingFull(g)
            /\ pending' = pending \cup {g}
            /\ toGuest' = Sent(g, {JoinPending})
            /\ UNCHANGED <<room, admissions, saved, lastRequest, admitted>>
  <2>1. toGuest' \in [Guests -> SUBSET GuestMessages] /\ NoNewAcks
    BY <1>2, <1>5, <1>6, <1>13, AnswersGuest
  <2>2. HostOnly
    BY <1>7, <2>1
  <2>3. Cardinality(pending') <= case'.pending
    <3>1. IsFiniteSet(pending) /\ Cardinality(pending) <= case.pending
          /\ case.pending \in Nat /\ Cardinality(pending) \in Nat
      BY GuestsAssumption, GridAssumption, FS_Subset, FS_CardinalityType
         DEF GateInv, TypeOK, HostTypes, HistoryTypes, Case
    <3>2. CASE g \in pending
      <4>1. pending' = pending
        BY <1>13, <3>2
      <4> QED
        BY <1>4, <3>1, <4>1
    <3>3. CASE g \notin pending
      <4>1. Cardinality(pending) < case.pending
        BY <1>13, <3>1, <3>3 DEF PendingFull
      <4>2. Cardinality(pending \cup {g}) = Cardinality(pending) + 1
        BY <3>1, <3>3, FS_AddElement
      <4> QED
        BY <1>4, <1>13, <3>1, <4>1, <4>2
    <3> QED
      BY <3>2, <3>3
  <2>4. HostTypes'
    BY <1>2, <1>4, <1>13, <2>3 DEF GateInv, TypeOK, HostTypes
  <2>5. created' \subseteq Admissions /\ admitted' \in [Admissions -> SUBSET Guests]
    BY <1>4, <1>13 DEF GateInv, TypeOK, HistoryTypes
  <2>6. UsedIsGone' /\ LockedAdmitsNobody'
    BY <1>4, <1>13 DEF GateInv, UsedIsGone, LockedAdmitsNobody
  <2>7. SavesVerified'
    BY <1>4, <1>13 DEF GateInv, SavesVerified, Waiting
  <2>8. HostApart
    BY <1>13, <2>1 DEF HostApart, GridKept, ReadyInv, PendingOutside
  <2> QED
    BY <2>2, <2>4, <2>5, <2>6, <2>7, <2>8, HostKeeps
<1> QED
  BY <1>9, <1>10, <1>11, <1>12, <1>13 DEF HostReceivesHello

(* What an acknowledgement a of the request m to g has to say. *)
Acknowledges(a, m, g) ==
    /\ a.type = "ReadyAck" /\ a.request.id = m.request.id
    /\ ~a.request.ready =>
          \A n \in toHost : ReadyRequestOf(n, g) /\ n.request = a.request =>
             lastRequest'[g] >= a.request.id

LEMMA AckKeepsReady ==
  ASSUME GateInv, TypeOK', ReadyInv, UNCHANGED <<guestVars, toHost, confirmed, pending>>,
         NEW g \in Guests, NEW m \in toHost, ReadyRequestOf(m, g), InRoom(room, g),
         NEW a, Acknowledges(a, m, g),
         \A h \in Guests : /\ toGuest[h] \subseteq toGuest'[h]
                           /\ \A k \in toGuest'[h] :
                                 k \in toGuest[h] \/ k.type # "ReadyAck" \/ (h = g /\ k = a),
         room'.slot = room.slot, LastApplied',
         \A h \in Guests : lastRequest[h] <= lastRequest'[h] /\ lastRequest'[h] <= requests[h]
  PROVE  ReadyInv'
<1>1. UNCHANGED <<requests, request, state>>
  BY DEF guestVars
<1>2. PendingOutside'
  BY DEF ReadyInv, PendingOutside, InRoom
<1>3. RequestsNumbered'
  BY <1>1 DEF ReadyInv, RequestsNumbered, ReadyRequestOf
<1>4. AcksApplied'
  <2> SUFFICES ASSUME NEW h \in Guests, NEW k \in toGuest'[h], k.type = "ReadyAck"
               PROVE  /\ k.request.id \in 1 .. requests[h]
                      /\ ~Parted(h)' => InRoom(room', h)
                      /\ ~Parted(h)' /\ ~k.request.ready =>
                            \A n \in toHost : ReadyRequestOf(n, h) /\ n.request = k.request =>
                               lastRequest'[h] >= k.request.id
    BY <1>1 DEF AcksApplied, ReadyRequestOf
  <2>1. InRoom(room, h) => InRoom(room', h)
    BY DEF InRoom
  <2>2. CASE k \in toGuest[h]
    <3>1. /\ k.request.id \in 1 .. requests[h]
          /\ ~Parted(h) => InRoom(room, h)
          /\ ~Parted(h) /\ ~k.request.ready =>
                \A n \in toHost : ReadyRequestOf(n, h) /\ n.request = k.request =>
                   lastRequest[h] >= k.request.id
      BY <2>2 DEF ReadyInv, AcksApplied
    <3>2. lastRequest[h] \in Nat /\ lastRequest'[h] \in Nat /\ k.request.id \in Int
          /\ lastRequest[h] <= lastRequest'[h]
      BY <3>1 DEF GateInv, TypeOK, HostTypes
    <3>3. Parted(h) => Parted(h)'
      BY DEF Parted
    <3> QED
      BY <2>1, <3>1, <3>2, <3>3
  <2>3. CASE h = g /\ k = a
    <3>1. m.request.id \in 1 .. requests[g]
      BY DEF ReadyInv, RequestsNumbered
    <3> QED
      BY <2>1, <2>3, <3>1 DEF Acknowledges
  <2> QED
    BY <2>2, <2>3
<1>5. RequestsSent'
  BY <1>1 DEF ReadyInv, RequestsSent, ReadyRequestOf
<1> QED
  BY <1>2, <1>3, <1>4, <1>5 DEF ReadyInv

LEMMA AckSent ==
  ASSUME TypeOK, NEW g \in Guests, NEW a \in GuestMessages, NEW r \in RoomType,
         toGuest' = Sent(g, {a}) \/ toGuest' = Broadcast(Sent(g, {a}), r, saved)
  PROVE  /\ toGuest' \in [Guests -> SUBSET GuestMessages]
         /\ \A h \in Guests : /\ toGuest[h] \subseteq toGuest'[h]
                              /\ \A k \in toGuest'[h] :
                                    k \in toGuest[h] \/ k.type # "ReadyAck" \/ (h = g /\ k = a)
<1> DEFINE to == Sent(g, {a})
<1>1. /\ to \in [Guests -> SUBSET GuestMessages]
      /\ \A h \in Guests : toGuest[h] \subseteq to[h]
      /\ \A h \in Guests : \A k \in to[h] : k \in toGuest[h] \/ (h = g /\ k = a)
  BY DEF Sent, TypeOK
<1>2. toGuest' = to \/ toGuest' = Broadcast(to, r, saved)
  OBVIOUS
<1> HIDE DEF to
<1>3. /\ Broadcast(to, r, saved) \in [Guests -> SUBSET GuestMessages]
      /\ \A h \in Guests : to[h] \subseteq Broadcast(to, r, saved)[h]
      /\ \A h \in Guests : \A k \in Broadcast(to, r, saved)[h] :
            k \in to[h] \/ k.type \in {"LobbyState", "OnlineSaveStatus"}
  <2>1. saved \in SUBSET Guests
    BY DEF TypeOK, HostTypes
  <2> QED
    BY <1>1, <2>1, BroadcastAdds
<1> QED
  BY <1>1, <1>2, <1>3

LEMMA ReadyRequestKeeps ==
  ASSUME GateInv, ReadyInv, NEW m \in toHost, HostReceivesReadyRequest(m)
  PROVE  GateInv' /\ ReadyInv'
<1> DEFINE g == m.from
<1>1. m \in HostMessages /\ m.type = "ReadyRequest"
  BY DEF HostReceivesReadyRequest, GateInv, TypeOK
<1>2. /\ g \in Guests /\ m.slot \in Slots /\ m.request \in Requests
      /\ m.request.id \in Nat /\ m.request.ready \in BOOLEAN
  BY <1>1 DEF HostMessages, Requests
<1>3. ReadyRequestOf(m, g) /\ InRoom(room, g) /\ m.request.id >= lastRequest[g]
  BY <1>1 DEF ReadyRequestOf, HostReceivesReadyRequest, RequestIsCurrent
<1>4. m.request.id \in 1 .. requests[g]
      /\ \A n \in toHost : ReadyRequestOf(n, g) /\ n.request.id = m.request.id
                              => n.request = m.request
  BY <1>2, <1>3 DEF ReadyInv, RequestsNumbered
<1>5. /\ UNCHANGED <<locked, invitation, pending, admissions, blocked, saved, countdown>>
      /\ UNCHANGED <<guestVars, toHost, confirmed, case, locks, stops, created, admitted>>
  BY DEF HostReceivesReadyRequest, historyVars
<1>6. /\ room \in RoomType /\ TypeOK /\ g \in Players
      /\ lastRequest \in [Guests -> Nat] /\ requests \in [Guests -> Nat]
      /\ \A h \in Guests : lastRequest[h] <= requests[h]
  BY <1>2 DEF GateInv, TypeOK, HostTypes, GuestTypes, Players, ReadyInv, RequestsNumbered
<1>7. ASSUME NEW a \in GuestMessages, Acknowledges(a, m, g),
             toGuest' = Sent(g, {a}) \/ toGuest' = Broadcast(Sent(g, {a}), room', saved),
             room' \in RoomType, room'.slot = room.slot, room'.phase = room.phase,
             room'.ready \cap Guests \subseteq saved, LastApplied',
             lastRequest' \in [Guests -> Nat],
             \A h \in Guests : /\ lastRequest[h] <= lastRequest'[h]
                               /\ lastRequest'[h] <= requests[h]
      PROVE  GateInv' /\ ReadyInv'
  <2>1. /\ toGuest' \in [Guests -> SUBSET GuestMessages]
        /\ \A h \in Guests : /\ toGuest[h] \subseteq toGuest'[h]
                             /\ \A k \in toGuest'[h] :
                                   k \in toGuest[h] \/ k.type # "ReadyAck" \/ (h = g /\ k = a)
    BY <1>2, <1>6, <1>7, AckSent
  <2>2. HostTypes'
    BY <1>5, <1>6, <1>7 DEF TypeOK, HostTypes
  <2>3. GuestTypes' /\ HistoryTypes'
    BY <1>5, <1>6 DEF guestVars, TypeOK, GuestTypes, HistoryTypes
  <2>4. TypeOK'
    BY <1>5, <1>6, <2>1, <2>2, <2>3 DEF TypeOK
  <2>5. UsedIsGone' /\ LockedAdmitsNobody'
    BY <1>5 DEF GateInv, UsedIsGone, LockedAdmitsNobody
  <2>6. SavesVerified'
    BY <1>5, <1>7 DEF GateInv, SavesVerified, Waiting, InRoom
  <2>7. ReadyInv'
    BY <1>2, <1>3, <1>5, <1>7, <2>1, <2>4, AckKeepsReady
  <2> QED
    BY <2>4, <2>5, <2>6, <2>7 DEF GateInv
<1>8. CASE /\ ~ReadyNeedsSave(m)
           /\ toGuest' = Sent(g, {ReadyAck(m.slot, [id |-> m.request.id, ready |-> FALSE])})
           /\ UNCHANGED <<room, lastRequest>>
  <2> DEFINE r == [id |-> m.request.id, ready |-> FALSE]
             a == ReadyAck(m.slot, r)
  <2>1. r \in Requests /\ r.id = m.request.id /\ r.ready = FALSE /\ m.request.ready
    BY <1>2, <1>8 DEF Requests, ReadyNeedsSave
  <2>2. a.type = "ReadyAck" /\ a.request = r /\ a \in GuestMessages
    BY <1>2, <2>1, AnswerType DEF ReadyAck
  <2>3. toGuest' = Sent(g, {a})
    BY <1>8
  <2> HIDE DEF r, a
  <2>4. Acknowledges(a, m, g)
    BY <1>4, <2>1, <2>2 DEF Acknowledges
  <2>5. LastApplied'
    BY <1>5, <1>8 DEF ReadyInv, LastApplied, ReadyRequestOf
  <2>6. room'.ready \cap Guests \subseteq saved
    BY <1>8 DEF GateInv, SavesVerified
  <2>7. \A h \in Guests : lastRequest[h] <= lastRequest'[h] /\ lastRequest'[h] <= requests[h]
    BY <1>6, <1>8
  <2> QED
    BY <1>6, <1>7, <1>8, <2>2, <2>3, <2>4, <2>5, <2>6, <2>7
<1>9. CASE ReadyNeedsSave(m)
  <2>1. PICK q : q = [id |-> m.request.id, ready |-> g \in room'.ready]
    OBVIOUS
  <2> DEFINE a == ReadyAck(m.slot, q)
  <2>2. /\ room' = RoomAfterRequest(m)
        /\ lastRequest' = [lastRequest EXCEPT ![g] = m.request.id]
        /\ toGuest' = Sent(g, {a}) \/ toGuest' = Broadcast(Sent(g, {a}), room', saved)
    BY <1>9, <2>1 DEF HostReceivesReadyRequest, LastRequestAfter
  <2>3. q \in Requests /\ q.id = m.request.id
    BY <1>2, <2>1 DEF Requests
  <2>4. a.type = "ReadyAck" /\ a.request = q /\ a \in GuestMessages
    BY <1>2, <2>3, AnswerType DEF ReadyAck
  <2>5. /\ lastRequest' \in [Guests -> Nat] /\ lastRequest'[g] = m.request.id
        /\ \A h \in Guests \ {g} : lastRequest'[h] = lastRequest[h]
    BY <1>2, <1>6, <2>2
  <2>6. \A h \in Guests : lastRequest[h] <= lastRequest'[h] /\ lastRequest'[h] <= requests[h]
    BY <1>2, <1>3, <1>4, <1>6, <2>5
  <2> HIDE DEF a
  <2>7. Acknowledges(a, m, g)
    BY <1>2, <2>3, <2>4, <2>5 DEF Acknowledges
  <2>8. /\ room' \in RoomType /\ room'.slot = room.slot /\ room'.phase = room.phase
        /\ room'.ready \subseteq room.ready \cup {g}
        /\ g \in room'.ready /\ g \notin room.ready => m.request.ready
        /\ m.request.id > lastRequest[g] /\ ~m.request.ready => g \notin room'.ready
        /\ ~(m.request.id > lastRequest[g]) => room' = room
    <3>1. CASE m.request.id > lastRequest[g]
      <4>1. room' = SetReady(room, g, m.request.ready)
        BY <2>2, <3>1 DEF RoomAfterRequest
      <4> QED
        BY <1>2, <1>6, <3>1, <4>1, SetReadyType
    <3>2. CASE ~(m.request.id > lastRequest[g])
      <4>1. room' = room
        BY <2>2, <3>2 DEF RoomAfterRequest
      <4> QED
        BY <1>6, <3>2, <4>1
    <3> QED
      BY <3>1, <3>2
  <2>9. room'.ready \cap Guests \subseteq saved
    <3>1. m.request.ready => g \in saved
      BY <1>9 DEF ReadyNeedsSave
    <3> QED
      BY <2>8, <3>1 DEF GateInv, SavesVerified
  <2>10. LastApplied'
    <3> SUFFICES ASSUME NEW h \in Guests, NEW n \in toHost, ReadyRequestOf(n, h),
                        ~n.request.ready, lastRequest'[h] = n.request.id
                 PROVE  h \notin room'.ready
      BY <1>5 DEF LastApplied, ReadyRequestOf
    <3>1. CASE h # g
      BY <2>5, <2>8, <3>1 DEF ReadyInv, LastApplied
    <3>2. CASE h = g /\ m.request.id > lastRequest[g]
      <4>1. n.request = m.request
        BY <1>4, <2>5, <3>2
      <4> QED
        BY <2>8, <3>2, <4>1
    <3>3. CASE h = g /\ ~(m.request.id > lastRequest[g])
      <4>1. n.request.id = lastRequest[g]
        BY <1>2, <1>3, <1>6, <2>5, <3>3
      <4> QED
        BY <2>8, <3>3, <4>1 DEF ReadyInv, LastApplied
    <3> QED
      BY <3>1, <3>2, <3>3
  <2> QED
    BY <1>7, <2>2, <2>4, <2>5, <2>6, <2>7, <2>8, <2>9, <2>10
<1> QED
  BY <1>8, <1>9 DEF HostReceivesReadyRequest

-----------------------------------------------------------------------------
(* The theorems. *)

LEMMA InitGate ==
  ASSUME Init
  PROVE  GateInv /\ ReadyInv
<1>1. CreatedRoom \in RoomType /\ CreatedRoom.ready = {} /\ CreatedRoom.phase = "Waiting"
  BY MaxGuestsAssumption DEF CreatedRoom, RoomType, Phases, Slots
<1>2. HostTypes
  <2>1. Cardinality({}) = 0
    BY FS_EmptySet
  <2>2. case.pending \in Nat
    BY GridAssumption DEF Init, Case
  <2>3. Cardinality(pending) <= case.pending
    BY <2>1, <2>2 DEF Init
  <2>4. lastRequest \in [Guests -> Nat]
    BY DEF Init
  <2> QED
    BY <1>1, <2>3, <2>4 DEF Init, HostTypes
<1>3. GuestTypes
  BY MaxGuestsAssumption
     DEF Init, GuestTypes, States, Tickets, Slots, NoView, NoStatus, NoRequest, Requests
<1>4. HistoryTypes
  BY DEF Init, HistoryTypes, NoRequest, Requests
<1>5. TypeOK
  BY <1>2, <1>3, <1>4 DEF Init, TypeOK
<1>6. UsedIsGone /\ LockedAdmitsNobody
  BY DEF Init, UsedIsGone, LockedAdmitsNobody
<1>7. SavesVerified
  BY <1>1 DEF Init, SavesVerified, Waiting
<1>8. ReadyInv
  BY DEF Init, ReadyInv, PendingOutside, RequestsNumbered, LastApplied, AcksApplied,
         RequestsSent, NoRequest
<1> QED
  BY <1>5, <1>6, <1>7, <1>8 DEF GateInv

LEMMA StutterGate ==
  ASSUME GateInv, ReadyInv, UNCHANGED vars
  PROVE  GateInv' /\ ReadyInv'
<1>1. HostOnly /\ NoNewAcks
  BY DEF vars, historyVars, HostOnly, NoNewAcks, GateInv, TypeOK, HistoryTypes
<1>2. Shrinks
  BY DEF vars, hostVars, historyVars, Shrinks, GateInv, TypeOK, HostTypes
<1> QED
  BY <1>1, <1>2, ShrinksKeeps

LEMMA NextGate ==
  ASSUME GateInv, ReadyInv, Next
  PROVE  GateInv' /\ ReadyInv'
<1>1. CASE HostStep
  BY <1>1, ApproveKeeps, ExpirePendingKeeps, KickKeeps, DepartureKeeps, RejectKeeps,
     CreateAdmissionKeeps, DropAdmissionKeeps, SetLockedKeeps, HostReadyKeeps, HelloKeeps,
     SaveReadyKeeps, ReadyRequestKeeps, ReplaceInvitationKeeps, TellingKeeps,
     PrepareLaunchKeeps
     DEF HostStep
<1>2. ASSUME NEW g \in Guests, GuestStep(g) PROVE GateInv' /\ ReadyInv'
  BY <1>2, GuestActionsKeep, RequestReadyKeeps, ReadyAckKeeps DEF GuestStep, GuestActions
<1> QED
  BY <1>1, <1>2 DEF Next

(* The inductive invariant, which all the theorems follow from. *)
LEMMA GridInvariant == Spec => [](GateInv /\ ReadyInv)
<1>1. Init => GateInv /\ ReadyInv
  BY InitGate
<1>2. (GateInv /\ ReadyInv) /\ [Next]_vars => (GateInv /\ ReadyInv)'
  BY NextGate, StutterGate
<1> QED
  BY <1>1, <1>2, PTL DEF Spec

(* The state of the starting grid and its datagrams stay well formed, and  *)
(* pending_joins_ never holds more requests than its array has records.    *)
THEOREM GridTyped == Spec => []TypeOK
<1>1. GateInv => TypeOK
  BY DEF GateInv
<1> QED
  BY <1>1, GridInvariant, PTL

(* A friend's admission lets at most one racer in: handle_join_request     *)
(* consumes it in the step that admits, so no repeated or forwarded Hello  *)
(* finds it again.                                                         *)
THEOREM AdmissionsAreSingleUse == Spec => []AdmissionUsedOnce
<1>1. GateInv => AdmissionUsedOnce
  <2> SUFFICES ASSUME GateInv, NEW a \in Admissions
               PROVE  Cardinality(admitted[a]) <= 1
    BY DEF AdmissionUsedOnce
  <2>1. CASE admitted[a] = {}
    BY <2>1, FS_EmptySet
  <2>2. CASE admitted[a] # {}
    <3>1. PICK g : g \in admitted[a]
      BY <2>2
    <3>2. admitted[a] = {g}
      BY <3>1 DEF GateInv, UsedIsGone
    <3>3. Cardinality({g}) = 1
      BY FS_Singleton
    <3> QED
      BY <3>2, <3>3
  <2> QED
    BY <2>1, <2>2
<1> QED
  BY <1>1, GridInvariant, PTL

(* set_lobby_locked takes back every waiting request and admission, and no *)
(* later Hello adds one: APPROVE, which does not look at the lock, has     *)
(* nothing to approve.                                                     *)
THEOREM LockHolds == Spec => []LockedAdmitsNobody
<1>1. GateInv => LockedAdmitsNobody
  BY DEF GateInv
<1> QED
  BY <1>1, GridInvariant, PTL

(* prepare_launch_locked looks at the ready flags only, and still every    *)
(* racer of the frozen grid has told Player 1 that the session's save is   *)
(* installed.                                                              *)
THEOREM FrozenGridVerified == Spec => []GridIsVerified
<1>1. GateInv => GridIsVerified
  BY DEF GateInv, SavesVerified, GridIsVerified
<1> QED
  BY <1>1, GridInvariant, PTL

(* A NOT READY that Player 1 confirmed and the guest has not withdrawn     *)
(* stands until the guest leaves or is removed, whichever of its older     *)
(* ready requests and join requests arrive late or twice.                  *)
THEOREM NotReadyHolds == Spec => []NotReadyStays
<1>1. GateInv /\ ReadyInv => NotReadyStays
  <2> SUFFICES ASSUME GateInv, ReadyInv, NEW g \in Guests,
                      confirmed[g].id # 0, ~confirmed[g].ready,
                      confirmed[g].id = requests[g], ~Parted(g)
               PROVE  g \notin room.ready
    BY DEF NotReadyStays
  <2>1. PICK m \in toHost : ReadyRequestOf(m, g) /\ m.request = confirmed[g]
    BY DEF ReadyInv, RequestsSent
  <2>2. PICK k \in toGuest[g] : k.type = "ReadyAck" /\ k.request = confirmed[g]
    BY DEF ReadyInv, RequestsSent
  <2>3. lastRequest[g] >= confirmed[g].id
    BY <2>1, <2>2 DEF ReadyInv, AcksApplied
  <2>4. lastRequest[g] <= requests[g] /\ lastRequest[g] \in Nat /\ requests[g] \in Nat
    BY DEF ReadyInv, RequestsNumbered, GateInv, TypeOK, HostTypes, GuestTypes
  <2>5. lastRequest[g] = m.request.id
    BY <2>1, <2>3, <2>4
  <2> QED
    BY <2>1, <2>5 DEF ReadyInv, LastApplied
<1> QED
  BY <1>1, GridInvariant, PTL

=============================================================================
