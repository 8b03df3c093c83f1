-------------------------------- MODULE Room --------------------------------
(***************************************************************************)
(* The lobby room that Player 1 owns (netplay_lobby.cpp): who sits in      *)
(* which slot of the starting grid, who is ready, who has loaded, and the  *)
(* generation that numbers every change of it.  Each operator is one       *)
(* method of Lobby and returns the room the method leaves behind; the      *)
(* guard of a method that can refuse is an operator of its own.            *)
(*                                                                         *)
(* The room is a record:                                                   *)
(*   phase   Waiting, Loading or Running                                   *)
(*   gen     Room::generation                                              *)
(*   slot    slot[g], the slot of guest g, 0 when g is not in the room     *)
(*   ready   the players whose ready flag is set                           *)
(*   loaded  the players whose loaded flag is set                          *)
(* Player 1 is Host and always sits in slot 0.                             *)
(***************************************************************************)
EXTENDS Integers, FiniteSets

CONSTANTS Guests,      \* peer ids that may be admitted
          Host,        \* Player 1's peer id
          MaxGuests    \* rules.maximum_players - 1

ASSUME GuestsAssumption == IsFiniteSet(Guests) /\ Host \notin Guests
ASSUME MaxGuestsAssumption == MaxGuests \in Nat \ {0}

Players == Guests \cup {Host}

Phases == {"Waiting", "Loading", "Running"}

GuestSlots == 1 .. MaxGuests

Slots == 0 .. MaxGuests

RoomType == [phase  : Phases,
             gen    : Nat,
             slot   : [Guests -> Slots],
             ready  : SUBSET Players,
             loaded : SUBSET Players]

(* Lobby::create: Player 1 alone at the grid. *)
CreatedRoom == [phase  |-> "Waiting",
                gen    |-> 1,
                slot   |-> [g \in Guests |-> 0],
                ready  |-> {},
                loaded |-> {}]

(* Lobby::find *)
InRoom(room, p) == p = Host \/ (p \in Guests /\ room.slot[p] # 0)

Occupants(room) == {p \in Players : InRoom(room, p)}

SlotOf(room, p) == IF p = Host THEN 0 ELSE room.slot[p]

(* The occupied flags as a lobby payload or a descriptor's mask shows them. *)
OccupiedSlots(room) == {SlotOf(room, p) : p \in Occupants(room)}

LoadedSlots(room) == {SlotOf(room, p) : p \in Occupants(room) \cap room.loaded}

(* Lobby::invalidate_ready, after the slots have changed. *)
WithSlots(room, slots) ==
    [phase |-> room.phase, gen |-> room.gen + 1, slot |-> slots,
     ready |-> {}, loaded |-> {}]

(* Lobby::join's loop over the slots. *)
FreeSlots(room) == {i \in GuestSlots : \A g \in Guests : room.slot[g] # i}

FirstFree(room) ==
    CHOOSE i \in FreeSlots(room) : \A j \in FreeSlots(room) : i <= j

CanJoin(room, g) ==
    /\ room.phase = "Waiting"
    /\ ~InRoom(room, g)
    /\ FreeSlots(room) # {}

Join(room, g) ==
    WithSlots(room, [room.slot EXCEPT ![g] = FirstFree(room)])

(* Mutant: normalize_slots moves every remaining guest up. *)
LeaveMovesEveryone(room, g) ==
    WithSlots(room, [h \in Guests |-> IF h = g THEN 0 ELSE room.slot[h] - 1])

(* Lobby::leave of a guest.  normalize_slots closes the gap, so every      *)
(* guest behind the one that leaves moves up by one slot.                  *)
Leave(room, g) ==
    WithSlots(room,
        [h \in Guests |->
            IF h = g THEN 0
            ELSE IF room.slot[h] > room.slot[g] THEN room.slot[h] - 1
            ELSE room.slot[h]])

(* Lobby::set_ready *)
CanSetReady(room, p) == InRoom(room, p) /\ room.phase = "Waiting"

SetReady(room, p, ready) ==
    IF (p \in room.ready) = ready THEN room
    ELSE [phase |-> room.phase, gen |-> room.gen + 1, slot |-> room.slot,
          ready |-> IF ready THEN room.ready \cup {p} ELSE room.ready \ {p},
          loaded |-> room.loaded]

(* Lobby::set_loaded(peer, true): no effect outside the loading phase. *)
SetLoaded(room, p) ==
    IF ~InRoom(room, p) \/ room.phase # "Loading" \/ p \in room.loaded
    THEN room
    ELSE [phase |-> room.phase, gen |-> room.gen + 1, slot |-> room.slot,
          ready |-> room.ready, loaded |-> room.loaded \cup {p}]

(* Mutant: the loop over the ready flags is gone. *)
StartsUnready(room) ==
    /\ room.phase = "Waiting"
    /\ \E g \in Guests : InRoom(room, g)

(* Lobby::can_start *)
CanStart(room) ==
    /\ room.phase = "Waiting"
    /\ \E g \in Guests : InRoom(room, g)
    /\ Occupants(room) \subseteq room.ready

(* Lobby::begin_loading *)
BeginLoading(room) ==
    [phase |-> "Loading", gen |-> room.gen + 1, slot |-> room.slot,
     ready |-> room.ready, loaded |-> {}]

EveryoneLoaded(room) == Occupants(room) \subseteq room.loaded

(* Lobby::begin_running *)
BeginRunning(room) ==
    [phase |-> "Running", gen |-> room.gen + 1, slot |-> room.slot,
     ready |-> room.ready, loaded |-> room.loaded]

=============================================================================
