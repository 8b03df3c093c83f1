---------------------------- MODULE StartingGrid ----------------------------
(***************************************************************************)
(* Admission to the starting grid and everything a racer agrees on there   *)
(* (direct_session.cpp): join requests, Player 1's approval, single-use    *)
(* friend admissions, the lock and the replacement of the invitation, the  *)
(* verification of the isolated online save, and the ready protocol up to  *)
(* the moment the grid is frozen (LaunchGate goes on from there).          *)
(*                                                                         *)
(* Every method and handler runs under the session mutex and is an action. *)
(* The datagrams of both directions may be lost, delayed, reordered and    *)
(* repeated: Hello, OnlineSaveReady and ReadyRequest are retried until     *)
(* they are answered and copies may still be under way afterwards, so a    *)
(* sent message stays in toHost or toGuest.                                *)
(*                                                                         *)
(* A guest is one session of one machine (a random sender id); joining     *)
(* again is another guest.  A machine whose manifest is refused never gets *)
(* further and is left out.                                                *)
(***************************************************************************)
EXTENDS Room

CONSTANTS Admissions,      \* friend admission capabilities Player 1 may create
          NoAdmission,     \* the zero key of an ordinary join request
          Cases            \* the cases examined

(* A behaviour belongs to one case: whether the guests' builds know        *)
(* OnlineSaveStatus, the size of pending_joins_, and the bounds, which are *)
(* the invitations issued, the first included; the admissions created; the *)
(* ready requests of each guest; the generation at which nobody is         *)
(* admitted and Player 1 does not get ready; the locks of the lobby; the   *)
(* guests that join at all; and the stops: departures, removals, refusals  *)
(* and failures.                                                           *)
Case == [advisory : BOOLEAN, pending : Nat, invitations : Nat, admissions : Nat,
         requests : Nat, generation : Nat, locks : Nat, joiners : Nat, stops : Nat]

ASSUME GridAssumption == NoAdmission \notin Admissions /\ Cases \subseteq Case

VARIABLES
    \* Player 1's machine
    room,        \* lobby_
    locked,      \* lobby_locked_
    invitation,  \* the number of invitation_capability_ and host_key_pair_
    pending,     \* the active records of pending_joins_
    admissions,  \* the active records of friend_admissions_
    blocked,     \* blocked_senders_
    saved,       \* the guests with PeerRecord::online_save_ready
    lastRequest, \* lastRequest[g]: PeerRecord::last_ready_request_id
    countdown,   \* launch_countdown_active_
    \* the guests' machines
    state,       \* state[g]: ConnectionState
    ticket,      \* ticket[g]: the invitation and admission g joins with
    localSlot,   \* localSlot[g]: local_slot_
    view,        \* view[g]: generation and occupied slots of room_view_
    status,      \* status[g]: online_save_status_
    acked,       \* acked[g]: local_online_save_acknowledged_
    request,     \* request[g]: pending_ready_request_id_ and desired_ready_
    requests,    \* requests[g]: next_ready_request_id_ - 1
    \* the network
    toHost,
    toGuest,
    \* history and bounds
    created,     \* admissions created so far
    admitted,    \* admitted[a]: the guests admitted with a
    confirmed,   \* confirmed[g]: the flag of g's last confirmed request
    locks,
    stops,
    case         \* the case this behaviour belongs to

hostVars == <<room, locked, invitation, pending, admissions, blocked, saved,
              lastRequest, countdown>>
guestVars == <<state, ticket, localSlot, view, status, acked, request, requests>>
historyVars == <<created, admitted, confirmed, locks, stops, case>>
vars == <<hostVars, guestVars, toHost, toGuest, historyVars>>

States == {"Idle", "Connecting", "AwaitingApproval", "Lobby", "Failed", "Offline"}

(* admission_pending *)
AdmissionPending(g) == state[g] \in {"Connecting", "AwaitingApproval"}

NoView == [gen |-> 0, occupied |-> {}]
NoStatus == [gen |-> 0, mask |-> {}]
NoRequest == [id |-> 0, ready |-> FALSE]

-----------------------------------------------------------------------------
(* Messages *)

Hello(g) == [type |-> "Hello", from |-> g, ticket |-> ticket[g]]
OnlineSaveReady(g, s) == [type |-> "OnlineSaveReady", from |-> g, slot |-> s]
ReadyRequest(g, s, r) == [type |-> "ReadyRequest", from |-> g, slot |-> s, request |-> r]
Departure(g) == [type |-> "Disconnect", from |-> g]

JoinPending == [type |-> "JoinPending"]
Accepted(s) == [type |-> "HelloAck", accepted |-> TRUE, slot |-> s]
Refused == [type |-> "HelloAck", accepted |-> FALSE, slot |-> 0]
SaveAck(s) == [type |-> "OnlineSaveReadyAck", slot |-> s]
ReadyAck(s, r) == [type |-> "ReadyAck", slot |-> s, request |-> r]
Goodbye == [type |-> "Disconnect"]
LobbyState(r) == [type |-> "LobbyState", gen |-> r.gen, occupied |-> OccupiedSlots(r)]

(* The mask of racers whose online save Player 1 has verified. *)
SaveStatus(r, sv) ==
    [type |-> "OnlineSaveStatus", gen |-> r.gen,
     mask |-> {0} \cup {r.slot[g] : g \in {h \in sv : InRoom(r, h)}}]

(* broadcast_lobby: the save status goes with it while the grid waits; an  *)
(* older build of a guest discards it.                                     *)
LobbyNews(r, sv) ==
    {LobbyState(r)} \cup (IF case.advisory /\ r.phase = "Waiting" THEN {SaveStatus(r, sv)} ELSE {})

Broadcast(to, r, sv) ==
    [g \in Guests |-> IF InRoom(r, g) THEN to[g] \cup LobbyNews(r, sv) ELSE to[g]]

Sent(g, messages) == [toGuest EXCEPT ![g] = @ \cup messages]

-----------------------------------------------------------------------------
Init ==
    /\ room = CreatedRoom
    /\ locked = FALSE
    /\ invitation = 1
    /\ pending = {}
    /\ admissions = {}
    /\ blocked = {}
    /\ saved = {}
    /\ lastRequest = [g \in Guests |-> 0]
    /\ countdown = FALSE
    /\ state = [g \in Guests |-> "Idle"]
    /\ ticket = [g \in Guests |-> [invitation |-> 0, admission |-> NoAdmission]]
    /\ localSlot = [g \in Guests |-> 0]
    /\ view = [g \in Guests |-> NoView]
    /\ status = [g \in Guests |-> NoStatus]
    /\ acked = [g \in Guests |-> FALSE]
    /\ request = [g \in Guests |-> NoRequest]
    /\ requests = [g \in Guests |-> 0]
    /\ toHost = {}
    /\ toGuest = [g \in Guests |-> {}]
    /\ created = {}
    /\ admitted = [a \in Admissions |-> {}]
    /\ confirmed = [g \in Guests |-> NoRequest]
    /\ locks = 0
    /\ stops = 0
    /\ case \in Cases

Stops == stops < case.stops /\ stops' = stops + 1

Waiting == room.phase = "Waiting"

-----------------------------------------------------------------------------
(* Player 1: admission                                                     *)

(* approve_join_locked *)
Admit(g) ==
    /\ room.gen < case.generation
    /\ room' = Join(room, g)
    /\ saved' = saved \ {g}
    /\ lastRequest' = [lastRequest EXCEPT ![g] = 0]
    /\ toGuest' = Broadcast(Sent(g, {Accepted(room'.slot[g])}), room', saved')

(* approve_join, from the APPROVE button. *)
Approve(g) ==
    /\ g \in pending
    /\ CanJoin(room, g)
    /\ Admit(g)
    /\ pending' = pending \ {g}
    /\ UNCHANGED <<locked, invitation, admissions, blocked, countdown,
                   guestVars, toHost, historyVars>>

(* reject_join *)
Reject(g, block) ==
    /\ Stops
    /\ g \in pending
    /\ pending' = pending \ {g}
    /\ blocked' = IF block THEN blocked \cup {g} ELSE blocked
    /\ toGuest' = Sent(g, {Refused})
    /\ UNCHANGED <<room, locked, invitation, admissions, saved, lastRequest, countdown,
                   guestVars, toHost, created, admitted, confirmed, locks, case>>

(* expire_pending_joins, 30 s after the last retry. *)
ExpirePending(g) ==
    /\ g \in pending
    /\ pending' = pending \ {g}
    /\ UNCHANGED <<room, locked, invitation, admissions, blocked, saved, lastRequest,
                   countdown, guestVars, toHost, toGuest, historyVars>>

(* create_friend_admission *)
CreateAdmission(a) ==
    /\ Waiting /\ ~locked
    /\ a \notin created
    /\ Cardinality(created) < case.admissions
    /\ created' = created \cup {a}
    /\ admissions' = admissions \cup {a}
    /\ UNCHANGED <<room, locked, invitation, pending, blocked, saved, lastRequest,
                   countdown, guestVars, toHost, toGuest, admitted, confirmed, locks, stops, case>>

(* revoke_friend_admission, or the record's lifetime ends. *)
DropAdmission(a) ==
    /\ a \in admissions
    /\ admissions' = admissions \ {a}
    /\ UNCHANGED <<room, locked, invitation, pending, blocked, saved, lastRequest,
                   countdown, guestVars, toHost, toGuest, historyVars>>

(* Mutant: locking the lobby forgets the requests that already wait. *)
LockKeepsPending(lock) == pending

PendingAfterLock(lock) == IF lock THEN {} ELSE pending

(* set_lobby_locked *)
SetLocked(lock) ==
    /\ Waiting
    /\ lock => locks < case.locks
    /\ locks' = IF lock THEN locks + 1 ELSE locks
    /\ locked' = lock
    /\ admissions' = IF lock THEN {} ELSE admissions
    /\ pending' = PendingAfterLock(lock)
    /\ toGuest' = [g \in Guests |-> IF lock /\ g \in pending
                                    THEN toGuest[g] \cup {Refused} ELSE toGuest[g]]
    /\ UNCHANGED <<room, invitation, blocked, saved, lastRequest, countdown,
                   guestVars, toHost, created, admitted, confirmed, stops, case>>

(* revoke_invitation, and pump_locked when Quick Join has registered the   *)
(* replacement: until then nothing changes.                                *)
ReplaceInvitation ==
    /\ invitation < case.invitations
    /\ ~countdown
    /\ invitation' = invitation + 1
    /\ admissions' = {}
    /\ pending' = {}
    /\ UNCHANGED <<room, locked, blocked, saved, lastRequest, countdown,
                   guestVars, toHost, toGuest, historyVars>>

(* Mutant: an admission stays valid after it was used. *)
AdmissionsForever(a) == admissions

(* consume_friend_admission_locked *)
AdmissionsAfter(a) == admissions \ {a}

(* The requests handle_join_request answers at all: sealed with the        *)
(* current invitation, from a sender that is not blocked.  It cannot see   *)
(* whether its sender still waits: a late copy of the Hello of a racer     *)
(* that has left or was removed is a join request like any other.          *)
Opens(m) == m.ticket.invitation = invitation /\ m.from \notin blocked

(* No record of pending_joins_ is free for a new request. *)
PendingFull(g) == g \notin pending /\ Cardinality(pending) >= case.pending

(* handle_join_request *)
HostReceivesHello(m) ==
    /\ m \in toHost
    /\ m.type = "Hello"
    /\ Opens(m)
    /\ LET g == m.from
           a == m.ticket.admission
       IN
       \/ (* welcome back *)
          /\ InRoom(room, g)
          /\ toGuest' = Broadcast(Sent(g, {Accepted(room.slot[g])}), room, saved)
          /\ UNCHANGED <<room, pending, admissions, saved, lastRequest, admitted>>
       \/ (* not accepting new racers, or too many pending requests *)
          /\ ~InRoom(room, g)
          /\ locked \/ ~Waiting \/ PendingFull(g)
          /\ toGuest' = Sent(g, {Refused})
          /\ UNCHANGED <<room, pending, admissions, saved, lastRequest, admitted>>
       \/ /\ ~InRoom(room, g)
          /\ ~locked /\ Waiting
          /\ ~PendingFull(g)
          /\ \/ (* a friend's single-use admission, and a free slot *)
                /\ a \in admissions
                /\ CanJoin(room, g)
                /\ Admit(g)
                /\ pending' = pending \ {g}
                /\ admissions' = AdmissionsAfter(a)
                /\ admitted' = [admitted EXCEPT ![a] = @ \cup {g}]
             \/ (* the same, but the lobby is full *)
                /\ a \in admissions
                /\ ~CanJoin(room, g)
                /\ pending' = pending \ {g}
                /\ admissions' = AdmissionsAfter(a)
                /\ toGuest' = Sent(g, {Refused})
                /\ UNCHANGED <<room, saved, lastRequest, admitted>>
             \/ (* waits for Player 1 *)
                /\ a \notin admissions
                /\ pending' = pending \cup {g}
                /\ toGuest' = Sent(g, {JoinPending})
                /\ UNCHANGED <<room, admissions, saved, lastRequest, admitted>>
    /\ UNCHANGED <<locked, invitation, blocked, countdown,
                   guestVars, toHost, created, confirmed, locks, stops, case>>

(* kick_player *)
Kick(g) ==
    /\ Stops
    /\ Waiting
    /\ InRoom(room, g)
    /\ room' = Leave(room, g)
    /\ saved' = saved \ {g}
    /\ toGuest' = Broadcast(Sent(g, {Goodbye}), room', saved')
    /\ UNCHANGED <<locked, invitation, pending, admissions, blocked, lastRequest,
                   countdown, guestVars, toHost, created, admitted, confirmed, locks, case>>

(* handle_host_packet: Disconnect, while the grid waits. *)
HostReceivesDeparture(g) ==
    /\ Waiting
    /\ Departure(g) \in toHost
    /\ InRoom(room, g)
    /\ room' = Leave(room, g)
    /\ saved' = saved \ {g}
    /\ toGuest' = Broadcast(toGuest, room', saved')
    /\ UNCHANGED <<locked, invitation, pending, admissions, blocked, lastRequest,
                   countdown, guestVars, toHost, historyVars>>

-----------------------------------------------------------------------------
(* Player 1: saves, ready flags, launch                                    *)

(* handle_host_packet: OnlineSaveReady of the session save HelloAck gave.  *)
HostReceivesSaveReady(m) ==
    /\ m \in toHost
    /\ m.type = "OnlineSaveReady"
    /\ InRoom(room, m.from)
    /\ m.slot = room.slot[m.from]
    /\ saved' = saved \cup {m.from}
    /\ toGuest' = Sent(m.from, {SaveAck(m.slot)})
    /\ UNCHANGED <<room, locked, invitation, pending, admissions, blocked, lastRequest,
                   countdown, guestVars, toHost, historyVars>>

RequestIsCurrent(m) == m.request.id >= lastRequest[m.from]

ReadyNeedsSave(m) == m.request.ready => m.from \in saved

RoomAfterRequest(m) ==
    IF m.request.id > lastRequest[m.from] THEN SetReady(room, m.from, m.request.ready)
                                          ELSE room

(* Mutant: the number of the applied request is not remembered. *)
ForgetsRequest(m) == lastRequest

LastRequestAfter(m) == [lastRequest EXCEPT ![m.from] = m.request.id]

(* handle_host_packet: ReadyRequest.  A repeated request only repeats the  *)
(* answer, with the flag as it is now.                                     *)
HostReceivesReadyRequest(m) ==
    /\ m \in toHost
    /\ m.type = "ReadyRequest"
    /\ InRoom(room, m.from)
    /\ m.slot = room.slot[m.from]
    /\ RequestIsCurrent(m)
    /\ \/ /\ ~ReadyNeedsSave(m)
          /\ toGuest' = Sent(m.from, {ReadyAck(m.slot, [id |-> m.request.id, ready |-> FALSE])})
          /\ UNCHANGED <<room, lastRequest>>
       \/ /\ ReadyNeedsSave(m)
          /\ m.request.id > lastRequest[m.from] => CanSetReady(room, m.from)
          /\ room' = RoomAfterRequest(m)
          /\ lastRequest' = LastRequestAfter(m)
          /\ LET ack == Sent(m.from, {ReadyAck(m.slot,
                            [id |-> m.request.id, ready |-> m.from \in room'.ready])})
             IN toGuest' = IF room'.gen # room.gen THEN Broadcast(ack, room', saved) ELSE ack
    /\ UNCHANGED <<locked, invitation, pending, admissions, blocked, saved, countdown,
                   guestVars, toHost, historyVars>>

(* set_ready by Player 1, whose own save is the session's. *)
HostReady(ready) ==
    /\ room.gen < case.generation
    /\ CanSetReady(room, Host)
    /\ room' = SetReady(room, Host, ready)
    /\ toGuest' = Broadcast(toGuest, room', saved)
    /\ UNCHANGED <<locked, invitation, pending, admissions, blocked, saved, lastRequest,
                   countdown, guestVars, toHost, historyVars>>

(* pump_locked repeats the lobby state; the save status may be news. *)
RepeatLobby ==
    /\ Broadcast(toGuest, room, saved) # toGuest
    /\ toGuest' = Broadcast(toGuest, room, saved)
    /\ UNCHANGED <<hostVars, guestVars, toHost, historyVars>>

(* request_start *)
RequestStart ==
    /\ ~countdown
    /\ \A g \in Guests : InRoom(room, g) => g \in saved
    /\ CanStart(room)
    /\ countdown' = TRUE
    /\ toGuest' = Broadcast(toGuest, room, saved)
    /\ UNCHANGED <<room, locked, invitation, pending, admissions, blocked, saved,
                   lastRequest, guestVars, toHost, historyVars>>

(* pump_locked: cancel_launch_locked *)
CancelCountdown ==
    /\ countdown
    /\ ~CanStart(room)
    /\ countdown' = FALSE
    /\ toGuest' = Broadcast(toGuest, room, saved)
    /\ UNCHANGED <<room, locked, invitation, pending, admissions, blocked, saved,
                   lastRequest, guestVars, toHost, historyVars>>

(* prepare_launch_locked freezes the grid; it does not look at the saves. *)
PrepareLaunch ==
    /\ countdown
    /\ CanStart(room)
    /\ countdown' = FALSE
    /\ room' = BeginLoading(room)
    /\ admissions' = {}
    /\ toGuest' = Broadcast(toGuest, room', saved)
    /\ UNCHANGED <<locked, invitation, pending, blocked, saved, lastRequest,
                   guestVars, toHost, historyVars>>

-----------------------------------------------------------------------------
(* A guest                                                                 *)

(* join: with an invitation received any time ago, and with a friend's     *)
(* admission or without one.  Retries repeat the same Hello.               *)
Connect(g) ==
    /\ state[g] = "Idle"
    /\ Cardinality({h \in Guests : state[h] # "Idle"}) < case.joiners
    /\ \E i \in 1 .. invitation, a \in created \cup {NoAdmission} :
          ticket' = [ticket EXCEPT ![g] = [invitation |-> i, admission |-> a]]
    /\ state' = [state EXCEPT ![g] = "Connecting"]
    /\ toHost' = toHost \cup {[type |-> "Hello", from |-> g, ticket |-> ticket'[g]]}
    /\ UNCHANGED <<hostVars, localSlot, view, status, acked, request, requests,
                   toGuest, historyVars>>

GuestReceivesPending(g) ==
    /\ state[g] = "Connecting"
    /\ JoinPending \in toGuest[g]
    /\ state' = [state EXCEPT ![g] = "AwaitingApproval"]
    /\ UNCHANGED <<hostVars, ticket, localSlot, view, status, acked, request, requests,
                   toHost, toGuest, historyVars>>

(* handle_client_packet: HelloAck.  The save is installed atomically, or   *)
(* the session fails without a word to Player 1.                           *)
GuestReceivesHelloAck(g, m) ==
    /\ AdmissionPending(g)
    /\ m \in toGuest[g]
    /\ m.type = "HelloAck"
    /\ \/ /\ m.accepted
          /\ state' = [state EXCEPT ![g] = "Lobby"]
          /\ localSlot' = [localSlot EXCEPT ![g] = m.slot]
          /\ acked' = [acked EXCEPT ![g] = FALSE]
          /\ status' = [status EXCEPT ![g] = NoStatus]
          /\ toHost' = toHost \cup {OnlineSaveReady(g, m.slot)}
          /\ UNCHANGED stops
       \/ /\ \/ m.accepted /\ Stops
             \/ ~m.accepted /\ UNCHANGED stops
          /\ state' = [state EXCEPT ![g] = "Failed"]
          /\ UNCHANGED <<localSlot, acked, status, toHost>>
    /\ UNCHANGED <<hostVars, ticket, view, request, requests, toGuest,
                   created, admitted, confirmed, locks, case>>

(* handle_client_packet: OnlineSaveReadyAck. *)
GuestReceivesSaveAck(g) ==
    /\ state[g] = "Lobby"
    /\ SaveAck(localSlot[g]) \in toGuest[g]
    /\ acked' = [acked EXCEPT ![g] = TRUE]
    /\ UNCHANGED <<hostVars, state, ticket, localSlot, view, status, request, requests,
                   toHost, toGuest, historyVars>>

(* apply_online_save_status_locked: the status g keeps when s arrives and  *)
(* its picture of the room is v, ...                                       *)
TakesStatus(g, s, v) ==
    state[g] = "Lobby" /\ s.gen >= v.gen /\ s.gen >= status[g].gen

StatusWith(g, s, v) ==
    IF ~TakesStatus(g, s, v) THEN status[g]
    ELSE [gen  |-> s.gen,
          mask |-> s.mask \cup (IF status[g].gen = s.gen THEN status[g].mask ELSE {})]

(* ... and whether it says that Player 1 verified g's save. *)
StatusVerifies(g, s, v) ==
    /\ TakesStatus(g, s, v)
    /\ s.gen = v.gen
    /\ localSlot[g] \in v.occupied
    /\ localSlot[g] \in StatusWith(g, s, v).mask

GuestReceivesStatus(g, m) ==
    /\ state[g] = "Lobby"
    /\ m \in toGuest[g]
    /\ m.type = "OnlineSaveStatus"
    /\ status' = [status EXCEPT ![g] = StatusWith(g, m, view[g])]
    /\ acked' = [acked EXCEPT ![g] = @ \/ StatusVerifies(g, m, view[g])]
    /\ UNCHANGED <<hostVars, state, ticket, localSlot, view, request, requests,
                   toHost, toGuest, historyVars>>

(* apply_lobby_payload, with the status that waited for its roster. *)
GuestReceivesLobby(g, m) ==
    /\ AdmissionPending(g) \/ state[g] = "Lobby"
    /\ m \in toGuest[g]
    /\ m.type = "LobbyState"
    /\ m.gen > view[g].gen
    /\ view' = [view EXCEPT ![g] = [gen |-> m.gen, occupied |-> m.occupied]]
    /\ acked' = [acked EXCEPT ![g] =
          @ \/ (status[g] # NoStatus /\ StatusVerifies(g, status[g], view'[g]))]
    /\ UNCHANGED <<hostVars, state, ticket, localSlot, status, request, requests,
                   toHost, toGuest, historyVars>>

(* set_ready by a guest. *)
RequestReady(g, ready) ==
    /\ state[g] = "Lobby"
    /\ requests[g] < case.requests
    /\ ready => acked[g]
    /\ requests' = [requests EXCEPT ![g] = @ + 1]
    /\ request' = [request EXCEPT ![g] = [id |-> requests[g] + 1, ready |-> ready]]
    /\ toHost' = toHost \cup {ReadyRequest(g, localSlot[g], request'[g])}
    /\ UNCHANGED <<hostVars, state, ticket, localSlot, view, status, acked,
                   toGuest, historyVars>>

(* handle_client_packet: ReadyAck. *)
GuestReceivesReadyAck(g) ==
    /\ state[g] = "Lobby"
    /\ request[g].id # 0
    /\ ReadyAck(localSlot[g], request[g]) \in toGuest[g]
    /\ confirmed' = [confirmed EXCEPT ![g] = request[g]]
    /\ request' = [request EXCEPT ![g] = NoRequest]
    /\ UNCHANGED <<hostVars, state, ticket, localSlot, view, status, acked, requests,
                   toHost, toGuest, created, admitted, locks, stops, case>>

(* handle_client_packet: Disconnect. *)
GuestReceivesGoodbye(g) ==
    /\ AdmissionPending(g) \/ state[g] = "Lobby"
    /\ Goodbye \in toGuest[g]
    /\ state' = [state EXCEPT ![g] = "Failed"]
    /\ UNCHANGED <<hostVars, ticket, localSlot, view, status, acked, request, requests,
                   toHost, toGuest, historyVars>>

(* The 20 s without an answer while joining (fail_locked), or disconnect;  *)
(* both tell Player 1.                                                     *)
GuestGoes(g) ==
    /\ Stops
    /\ AdmissionPending(g) \/ state[g] = "Lobby"
    /\ \E s \in {"Failed", "Offline"} : state' = [state EXCEPT ![g] = s]
    /\ toHost' = toHost \cup {Departure(g)}
    /\ UNCHANGED <<hostVars, ticket, localSlot, view, status, acked, request, requests,
                   toGuest, created, admitted, confirmed, locks, case>>

-----------------------------------------------------------------------------
HostStep ==
    \/ \E g \in Guests : Approve(g) \/ ExpirePending(g) \/ Kick(g) \/ HostReceivesDeparture(g)
    \/ \E g \in Guests, b \in BOOLEAN : Reject(g, b)
    \/ \E a \in Admissions : CreateAdmission(a) \/ DropAdmission(a)
    \/ \E b \in BOOLEAN : SetLocked(b) \/ HostReady(b)
    \/ \E m \in toHost : \/ HostReceivesHello(m)
                         \/ HostReceivesSaveReady(m)
                         \/ HostReceivesReadyRequest(m)
    \/ ReplaceInvitation
    \/ RepeatLobby
    \/ RequestStart
    \/ CancelCountdown
    \/ PrepareLaunch

GuestStep(g) ==
    \/ Connect(g)
    \/ GuestReceivesPending(g)
    \/ \E m \in toGuest[g] : \/ GuestReceivesHelloAck(g, m)
                             \/ GuestReceivesStatus(g, m)
                             \/ GuestReceivesLobby(g, m)
    \/ GuestReceivesSaveAck(g)
    \/ \E b \in BOOLEAN : RequestReady(g, b)
    \/ GuestReceivesReadyAck(g)
    \/ GuestReceivesGoodbye(g)
    \/ GuestGoes(g)

Next == HostStep \/ \E g \in Guests : GuestStep(g)

Spec == Init /\ [][Next]_vars

(* A guest in the lobby repeats one request every 250 ms: OnlineSaveReady  *)
(* until it is acknowledged, from then on the ready request until it is    *)
(* answered.  What is repeated is received again and again, and so is the  *)
(* answer Player 1 gives each time.                                        *)
HearsSaveReady(g) ==
    /\ state[g] = "Lobby"
    /\ ~acked[g]
    /\ HostReceivesSaveReady(OnlineSaveReady(g, localSlot[g]))

HearsReadyRequest(g) ==
    /\ state[g] = "Lobby"
    /\ acked[g]
    /\ request[g].id # 0
    /\ HostReceivesReadyRequest(ReadyRequest(g, localSlot[g], request[g]))

Fairness ==
    \A g \in Guests : /\ WF_vars(HearsSaveReady(g))
                      /\ WF_vars(GuestReceivesSaveAck(g))
                      /\ WF_vars(HearsReadyRequest(g))

FairSpec == Spec /\ Fairness

-----------------------------------------------------------------------------
Tickets == [invitation : Nat, admission : Admissions \cup {NoAdmission}]
Requests == [id : Nat, ready : BOOLEAN]

HostMessages ==
    [type : {"Hello"}, from : Guests, ticket : Tickets]
        \cup [type : {"OnlineSaveReady"}, from : Guests, slot : Slots]
        \cup [type : {"ReadyRequest"}, from : Guests, slot : Slots, request : Requests]
        \cup [type : {"Disconnect"}, from : Guests]

GuestMessages ==
    [type : {"JoinPending", "Disconnect"}]
        \cup [type : {"HelloAck"}, accepted : BOOLEAN, slot : Slots]
        \cup [type : {"OnlineSaveReadyAck"}, slot : Slots]
        \cup [type : {"ReadyAck"}, slot : Slots, request : Requests]
        \cup [type : {"LobbyState"}, gen : Nat, occupied : SUBSET Slots]
        \cup [type : {"OnlineSaveStatus"}, gen : Nat, mask : SUBSET Slots]

HostTypes ==
    /\ room \in RoomType
    /\ locked \in BOOLEAN /\ countdown \in BOOLEAN /\ invitation \in Nat
    /\ pending \subseteq Guests /\ Cardinality(pending) <= case.pending
    /\ admissions \subseteq created
    /\ blocked \subseteq Guests /\ saved \subseteq Guests
    /\ lastRequest \in [Guests -> Nat]

GuestTypes ==
    /\ state \in [Guests -> States]
    /\ ticket \in [Guests -> Tickets]
    /\ localSlot \in [Guests -> Slots]
    /\ view \in [Guests -> [gen : Nat, occupied : SUBSET Slots]]
    /\ status \in [Guests -> [gen : Nat, mask : SUBSET Slots]]
    /\ acked \in [Guests -> BOOLEAN]
    /\ request \in [Guests -> Requests] /\ requests \in [Guests -> Nat]

HistoryTypes ==
    /\ case \in Cases
    /\ created \subseteq Admissions
    /\ admitted \in [Admissions -> SUBSET Guests]
    /\ confirmed \in [Guests -> Requests]
    /\ locks \in Nat /\ stops \in Nat

(* pending_joins_ never overflows its array, among the types. *)
TypeOK ==
    /\ HostTypes
    /\ GuestTypes
    /\ HistoryTypes
    /\ toHost \subseteq HostMessages
    /\ toGuest \in [Guests -> SUBSET GuestMessages]

(* "a random, single-use admission capability" (ONLINE_MULTIPLAYER.md:101): *)
(* a friend's admission lets one racer in, however often the request that  *)
(* carries it is repeated or handed on.                                    *)
AdmissionUsedOnce == \A a \in Admissions : Cardinality(admitted[a]) <= 1

(* A locked lobby holds no request Player 1 could still approve by         *)
(* mistake, although APPROVE itself does not look at the lock.             *)
LockedAdmitsNobody == locked => pending = {} /\ admissions = {}

(* The frozen grid holds only racers that installed the session's save and *)
(* whose machine told Player 1 so, although the launch itself looks at the *)
(* ready flags only.                                                       *)
GridIsVerified ==
    /\ room.ready \cap Guests \subseteq saved
    /\ ~Waiting => \A g \in Guests : InRoom(room, g) =>
          g \in saved /\ \E m \in toHost : m.type = "OnlineSaveReady" /\ m.from = g

(* Player 1 has removed g, or g has said that it leaves. *)
Parted(g) == Goodbye \in toGuest[g] \/ Departure(g) \in toHost

(* A racer whose NOT READY Player 1 confirmed is not made ready again by   *)
(* an older request that arrives late, until it leaves or is removed.  (A  *)
(* late copy of its Hello can put it on the grid again after that, with    *)
(* its requests counted from 0: then an older READY is applied.)           *)
NotReadyStays ==
    \A g \in Guests :
        /\ confirmed[g].id # 0 /\ ~confirmed[g].ready
        /\ confirmed[g].id = requests[g]
        /\ ~Parted(g)
        => g \notin room.ready

(* "Ready, load and start state is repeated until observed"                *)
(* (docs/ONLINE_MULTIPLAYER.md:145): Player 1 takes notice of a racer's    *)
(* ready request while both stay at the waiting grid.                      *)
ReadyIsObserved ==
    \A g \in Guests :
        request[g].id # 0 ~>
            \/ lastRequest[g] >= request[g].id
            \/ state[g] # "Lobby" \/ ~InRoom(room, g) \/ ~Waiting

-----------------------------------------------------------------------------
(* The inductive invariants behind them. *)

(* A used admission is gone, and was used for one guest. *)
UsedIsGone ==
    \A a \in Admissions :
        /\ admitted[a] # {} => a \notin admissions /\ a \in created
        /\ \A g, h \in admitted[a] : g = h

(* The ready flag needs the verified save, and the save the guest's word. *)
SavesVerified ==
    /\ room.ready \cap Guests \subseteq saved
    /\ \A g \in saved : \E m \in toHost : m.type = "OnlineSaveReady" /\ m.from = g
    /\ ~Waiting => \A g \in Guests : InRoom(room, g) => g \in saved

(* A guest in the room does not wait for approval as well, so Player 1     *)
(* does not admit it again and forget the number of its last request.      *)
PendingOutside == \A g \in pending : ~InRoom(room, g)

ReadyRequestOf(m, g) == m.type = "ReadyRequest" /\ m.from = g

(* A guest numbers its requests; two with one number are copies. *)
RequestsNumbered ==
    /\ \A g \in Guests : lastRequest[g] <= requests[g]
    /\ \A g \in Guests, m \in toHost : ReadyRequestOf(m, g) =>
          m.request \in Requests /\ m.request.id \in 1 .. requests[g]
    /\ \A g \in Guests, m, n \in toHost :
          ReadyRequestOf(m, g) /\ ReadyRequestOf(n, g) /\ m.request.id = n.request.id
             => m.request = n.request

(* While the last request applied is a NOT READY, the guest is not ready. *)
LastApplied ==
    \A g \in Guests, m \in toHost :
        /\ ReadyRequestOf(m, g) /\ ~m.request.ready
        /\ lastRequest[g] = m.request.id
        => g \notin room.ready

(* What an acknowledgement under way to g says: until g parts it is on the *)
(* grid, so it is not admitted again, and a NOT READY that is acknowledged *)
(* was applied.                                                            *)
AcksApplied ==
    \A g \in Guests : \A k \in toGuest[g] : k.type = "ReadyAck" =>
        /\ k.request.id \in 1 .. requests[g]
        /\ ~Parted(g) => InRoom(room, g)
        /\ ~Parted(g) /\ ~k.request.ready =>
              \A m \in toHost : ReadyRequestOf(m, g) /\ m.request = k.request =>
                 lastRequest[g] >= k.request.id

(* A guest waits for the answer to a request it sent, and what it took as  *)
(* confirmed it both sent and was told.                                    *)
RequestsSent ==
    \A g \in Guests :
        /\ request[g].id # 0 =>
              \E m \in toHost : ReadyRequestOf(m, g) /\ m.request = request[g]
        /\ confirmed[g].id # 0 =>
              /\ \E m \in toHost : ReadyRequestOf(m, g) /\ m.request = confirmed[g]
              /\ \E k \in toGuest[g] : k.type = "ReadyAck" /\ k.request = confirmed[g]

ReadyInv ==
    /\ PendingOutside
    /\ RequestsNumbered
    /\ LastApplied
    /\ AcksApplied
    /\ RequestsSent

=============================================================================
