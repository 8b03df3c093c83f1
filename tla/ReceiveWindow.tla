--------------------------- MODULE ReceiveWindow ---------------------------
(***************************************************************************)
(* The authenticated replay windows of one direction of one peer route     *)
(* (sequence_window.hpp, and the send and receive ends of                  *)
(* direct_session.cpp that use it).                                        *)
(*                                                                         *)
(* A sender numbers every packet it seals from ONE counter, whatever its   *)
(* message type; the receiver keeps one window of W sequence numbers per   *)
(* traffic lane, because a lane that is busy must not age the packets of a *)
(* slower lane out.  The network may lose, delay, reorder and duplicate    *)
(* what was sent.                                                          *)
(***************************************************************************)
EXTENDS Integers

CONSTANTS Lanes,        \* receive_sequence_lane's results
          W,            \* kReceiveSequenceWindowBits
          MaxSequence   \* bound: packets the sender seals

ASSUME LanesAssumption == Lanes # {}
ASSUME WindowAssumption == W \in Nat \ {0}
ASSUME SequenceAssumption == MaxSequence \in Nat

VARIABLES nextSequence,  \* PeerRecord::next_sequence, the next number to seal
          laneOf,        \* laneOf[s]: the lane of the packet sealed as s
          window,        \* window[l]: the ReceiveSequenceWindow of lane l
          handled        \* history: handled[s], how often handle_packet ran

vars == <<nextSequence, laneOf, window, handled>>

Sequences == 1 .. MaxSequence

Sealed == 1 .. nextSequence - 1

Ages == 0 .. W - 1

(* A lane's window: the highest sequence taken and the ages already seen,  *)
(* age a standing for the sequence highest - a.                            *)
Windows == [highest : Nat, seen : SUBSET Ages]

Fresh == [highest |-> 0, seen |-> {}]

(* The lane recorded for a number that no packet carries yet. *)
AnyLane == CHOOSE l \in Lanes : TRUE

(* Mutant: the old bits are kept where they are instead of shifted. *)
ShiftKeepsAges(seen, advance) == IF advance >= W THEN {} ELSE seen

(* seen <<= advance, or reset when nothing of the old window survives. *)
Shift(seen, advance) ==
    IF advance >= W THEN {} ELSE {a \in Ages : a - advance \in seen}

Accepts(w, s) ==
    /\ s # 0
    /\ \/ s > w.highest
       \/ w.highest - s < W /\ w.highest - s \notin w.seen

(* Mutant: the late path returns true without setting its bit. *)
AcceptForgets(w, s) ==
    IF s > w.highest
    THEN [highest |-> s, seen |-> Shift(w.seen, s - w.highest) \cup {0}]
    ELSE w

(* ReceiveSequenceWindow::accept on the path that returns true. *)
Accept(w, s) ==
    IF s > w.highest
    THEN [highest |-> s, seen |-> Shift(w.seen, s - w.highest) \cup {0}]
    ELSE [w EXCEPT !.seen = @ \cup {w.highest - s}]

-----------------------------------------------------------------------------
Init ==
    /\ nextSequence = 1
    /\ laneOf = [s \in Sequences |-> AnyLane]
    /\ window = [l \in Lanes |-> Fresh]
    /\ handled = [s \in Sequences |-> 0]

(* send_with_key: seal the next packet, of some message type, onto its     *)
(* lane.                                                                   *)
Send(l) ==
    /\ nextSequence \in Sequences
    /\ laneOf' = [laneOf EXCEPT ![nextSequence] = l]
    /\ nextSequence' = nextSequence + 1
    /\ UNCHANGED <<window, handled>>

(* Mutant: one window for the whole peer instead of one for each lane. *)
ReceiveSharedWindow(s) ==
    /\ s \in Sealed
    /\ Accepts(window[laneOf[s]], s)
    /\ window' = [l \in Lanes |-> Accept(window[laneOf[s]], s)]
    /\ handled' = [handled EXCEPT ![s] = @ + 1]
    /\ UNCHANGED <<nextSequence, laneOf>>

(* pump_locked: a packet, fresh or duplicated, comes out of the transport  *)
(* and the window of its lane lets it through to handle_packet.            *)
Receive(s) ==
    /\ s \in Sealed
    /\ Accepts(window[laneOf[s]], s)
    /\ window' = [window EXCEPT ![laneOf[s]] = Accept(@, s)]
    /\ handled' = [handled EXCEPT ![s] = @ + 1]
    /\ UNCHANGED <<nextSequence, laneOf>>

(* pump_locked: the window refuses the packet and the loop continues. *)
Discard(s) ==
    /\ s \in Sealed
    /\ ~Accepts(window[laneOf[s]], s)
    /\ UNCHANGED vars

Next ==
    \/ \E l \in Lanes : Send(l)
    \/ \E s \in Sequences : Receive(s) \/ Discard(s)

Spec == Init /\ [][Next]_vars

-----------------------------------------------------------------------------
TypeOK ==
    /\ nextSequence \in 1 .. MaxSequence + 1
    /\ laneOf \in [Sequences -> Lanes]
    /\ window \in [Lanes -> Windows]
    /\ handled \in [Sequences -> Nat]

(* The window remembers exactly: a lane's bit for a sequence inside the    *)
(* horizon is set if and only if that packet of that lane was handled.     *)
(* This is what shifting the bitset must keep true.                        *)
WindowExact ==
    \A l \in Lanes : \A a \in Ages :
        LET s == window[l].highest - a
        IN  a \in window[l].seen <=> s \in Sealed /\ laneOf[s] = l /\ handled[s] > 0

(* Nothing above a lane's highest was handled, and highest itself is a     *)
(* packet of the lane that was (or no packet was).                         *)
HighestIsLast ==
    \A l \in Lanes :
        /\ LET h == window[l].highest
           IN  h = 0 \/ (h \in Sealed /\ laneOf[h] = l /\ handled[h] > 0)
        /\ \A s \in Sealed : laneOf[s] = l /\ handled[s] > 0 => s <= window[l].highest

(* A number that was not sealed yet was not handled. *)
UnsealedUntouched == \A s \in Sequences : s >= nextSequence => handled[s] = 0

(* "accepting every authenticated sequence at most once"                   *)
(* (sequence_window.hpp:15): whatever the network duplicates or replays,   *)
(* no packet reaches handle_packet twice.                                  *)
AtMostOnce == \A s \in Sequences : handled[s] <= 1

(* A packet that was not handled and is still within W of its own lane's   *)
(* highest is never refused, however busy the other lanes are (the reason  *)
(* direct_session.cpp keeps a window per lane).                            *)
NoFalseReplay ==
    \A s \in Sealed :
        /\ handled[s] = 0
        /\ \A t \in Sealed : laneOf[t] = laneOf[s] /\ handled[t] > 0 => t - s < W
        => Accepts(window[laneOf[s]], s)

(* The inductive invariant behind AtMostOnce. *)
WindowInv ==
    /\ TypeOK
    /\ WindowExact
    /\ HighestIsLast
    /\ UnsealedUntouched
    /\ AtMostOnce

=============================================================================
