-------------------------- MODULE TransportProofs --------------------------
(* Proofs about the two mechanisms that keep the transport's past out of   *)
(* its present: the replay windows of a peer route (ReceiveWindow), for    *)
(* every set of lanes, window size and number of packets, and the lifetime *)
(* gate of its callbacks (CallbackGate), for any number of invocations and *)
(* openings.                                                               *)
EXTENDS ReceiveWindow, CallbackGate, FiniteSetTheorems, TLAPS

-----------------------------------------------------------------------------
(* The replay windows.                                                     *)

(* accept() only lets through a packet that no earlier accept() of its     *)
(* lane let through (the two branches of sequence_window.hpp:25-41).       *)
LEMMA AcceptsIsFresh ==
    ASSUME WindowInv, NEW s \in Sequences, s \in Sealed,
           Accepts(window[laneOf[s]], s)
    PROVE  handled[s] = 0
<1> DEFINE w == window[laneOf[s]]
<1>1. w \in Windows /\ laneOf[s] \in Lanes /\ handled[s] \in Nat
  BY DEF WindowInv, TypeOK
<1>2. CASE s > w.highest
  <2>1. ~(handled[s] > 0)
    BY <1>1, <1>2, SequenceAssumption
       DEF WindowInv, HighestIsLast, Windows, Sequences
  <2> QED BY <1>1, <2>1
<1>3. CASE w.highest - s < W /\ w.highest - s \notin w.seen /\ s <= w.highest
  <2> DEFINE a == w.highest - s
  <2>1. a \in Ages /\ w.highest - a = s
    BY <1>1, <1>3, WindowAssumption, SequenceAssumption
       DEF Windows, Ages, Sequences
  <2>2. ~(handled[s] > 0)
    BY <1>1, <1>3, <2>1 DEF WindowInv, WindowExact
  <2> QED BY <1>1, <2>2
<1> QED
  BY <1>1, <1>2, <1>3, SequenceAssumption DEF Accepts, Windows, Sequences

(* One step of the sender or of the receiver keeps the window exact. *)
LEMMA WindowStep == WindowInv /\ [Next]_vars => WindowInv'
<1> SUFFICES ASSUME WindowInv, [Next]_vars PROVE WindowInv'
  OBVIOUS
<1> USE WindowAssumption, SequenceAssumption
<1>1. ASSUME NEW l \in Lanes, Send(l) PROVE WindowInv'
  <2>1. TypeOK'
    BY <1>1 DEF WindowInv, TypeOK, Send, Sequences
  <2>2. /\ handled[nextSequence] = 0
        /\ \A t \in Sealed : laneOf'[t] = laneOf[t]
        /\ Sealed' = Sealed \cup {nextSequence}
        /\ nextSequence \notin Sealed
    BY <1>1 DEF WindowInv, TypeOK, Send, Sequences, Sealed, UnsealedUntouched
  <2>3. WindowExact'
    BY <1>1, <2>2 DEF WindowInv, WindowExact, Send, TypeOK, Ages, Windows
  <2>4. HighestIsLast'
    BY <1>1, <2>2 DEF WindowInv, HighestIsLast, Send
  <2>5. UnsealedUntouched' /\ AtMostOnce'
    BY <1>1 DEF WindowInv, UnsealedUntouched, AtMostOnce, Send, TypeOK
  <2> QED BY <2>1, <2>3, <2>4, <2>5 DEF WindowInv
<1>2. ASSUME NEW s \in Sequences, Receive(s) PROVE WindowInv'
  <2> DEFINE l == laneOf[s]
             w == window[l]
  <2>0. /\ handled[s] = 0 /\ s \in Sealed /\ l \in Lanes /\ w \in Windows
        /\ s \in Nat /\ w.highest \in Nat
    BY <1>2, AcceptsIsFresh DEF Receive, WindowInv, TypeOK, Sequences, Windows
  <2>1. Accept(w, s) \in Windows
    BY <2>0, <1>2 DEF Receive, Accept, Accepts, Windows, Shift, Ages
  <2>2. TypeOK'
    BY <1>2, <2>0, <2>1 DEF WindowInv, TypeOK, Receive
  <2>3. /\ window' = [window EXCEPT ![l] = Accept(w, s)]
        /\ handled' = [handled EXCEPT ![s] = 1]
        /\ UNCHANGED <<laneOf, nextSequence>>
        /\ Sealed' = Sealed
    BY <1>2, <2>0 DEF Receive, Sealed, WindowInv, TypeOK
  <2>4. ASSUME NEW k \in Lanes, NEW a \in Ages
        PROVE  LET t == window'[k].highest - a
               IN  a \in window'[k].seen
                     <=> t \in Sealed' /\ laneOf'[t] = k /\ handled'[t] > 0
    <3>1. CASE k # l
      BY <3>1, <2>3, <2>0 DEF WindowInv, WindowExact, TypeOK, Sealed, Sequences
    <3>2. CASE k = l /\ s > w.highest
      <4> DEFINE d == s - w.highest
      <4>1. /\ window'[k].highest = s
            /\ a \in window'[k].seen <=> a = 0 \/ (d < W /\ a - d \in w.seen)
        BY <3>2, <2>3, <2>0 DEF Accept, Shift, WindowInv, TypeOK, Ages
      <4>2. CASE a = 0
        BY <4>1, <4>2, <3>2, <2>0, <2>3 DEF WindowInv, TypeOK
      <4>3. CASE a # 0 /\ a - d \in Ages
        <5>1. a - d \in w.seen
                <=> w.highest - (a - d) \in Sealed
                    /\ laneOf[w.highest - (a - d)] = l
                    /\ handled[w.highest - (a - d)] > 0
          BY <4>3, <2>0 DEF WindowInv, WindowExact
        <5>2. w.highest - (a - d) = s - a /\ s - a # s /\ d < W
          BY <4>3, <2>0, <3>2 DEF Ages
        <5> QED
          BY <4>1, <4>3, <5>1, <5>2, <2>0, <2>3, <3>2
             DEF WindowInv, TypeOK, Sealed, Sequences
      <4>4. CASE a # 0 /\ a - d \notin Ages
        <5>1. a - d \notin w.seen
          BY <4>4, <2>0 DEF Windows
        <5>2. s - a > w.highest /\ s - a # s
          BY <4>4, <2>0, <3>2 DEF Ages
        <5>3. s - a \in Sealed /\ laneOf[s - a] = l => ~(handled[s - a] > 0)
          BY <5>2, <2>0 DEF WindowInv, HighestIsLast, Sealed
        <5> QED
          BY <4>1, <4>4, <5>1, <5>2, <5>3, <2>0, <2>3, <3>2
             DEF WindowInv, TypeOK, Sealed, Sequences
      <4> QED BY <4>2, <4>3, <4>4
    <3>3. CASE k = l /\ s <= w.highest
      <4>1. /\ window'[k].highest = w.highest
            /\ a \in window'[k].seen <=> a \in w.seen \/ a = w.highest - s
        BY <3>3, <2>3, <2>0 DEF Accept, WindowInv, TypeOK, Windows
      <4>2. a \in w.seen <=> w.highest - a \in Sealed
                              /\ laneOf[w.highest - a] = l
                              /\ handled[w.highest - a] > 0
        BY <2>0 DEF WindowInv, WindowExact
      <4>3. a = w.highest - s <=> w.highest - a = s
        BY <2>0 DEF Ages
      <4> QED
        BY <4>1, <4>2, <4>3, <2>0, <2>3, <3>3
           DEF WindowInv, TypeOK, Sealed, Sequences
    <3> QED BY <3>1, <3>2, <3>3, <2>0
  <2>5. WindowExact'
    BY <2>4 DEF WindowExact
  <2>6. HighestIsLast'
    <3>1. window'[l].highest = IF s > w.highest THEN s ELSE w.highest
      BY <2>0, <2>3 DEF Accept, WindowInv, TypeOK, Windows
    <3> QED
      BY <3>1, <2>0, <2>3
         DEF WindowInv, HighestIsLast, TypeOK, Sealed, Sequences, Windows
  <2>7. UnsealedUntouched' /\ AtMostOnce'
    BY <2>0, <2>3
       DEF WindowInv, UnsealedUntouched, AtMostOnce, TypeOK, Sealed, Sequences
  <2> QED BY <2>2, <2>5, <2>6, <2>7 DEF WindowInv
<1>3. CASE UNCHANGED vars
  BY <1>3 DEF WindowInv, TypeOK, WindowExact, HighestIsLast,
              UnsealedUntouched, AtMostOnce, Sealed, vars
<1> QED
  BY <1>1, <1>2, <1>3 DEF Next, Discard

LEMMA WindowInit == Init => WindowInv
<1> SUFFICES ASSUME Init PROVE WindowInv
  OBVIOUS
<1> USE WindowAssumption, SequenceAssumption, LanesAssumption
<1>1. TypeOK
  <2>1. AnyLane \in Lanes
    BY DEF AnyLane
  <2>2. Fresh \in Windows
    BY DEF Fresh, Windows
  <2>3. nextSequence \in 1 .. MaxSequence + 1
    BY DEF Init
  <2> QED BY <2>1, <2>2, <2>3 DEF Init, TypeOK
<1>2. Sealed = {}
  BY DEF Init, Sealed
<1>3. \A l \in Lanes : window[l].highest = 0 /\ window[l].seen = {}
  BY DEF Init, Fresh
<1>4. WindowExact /\ HighestIsLast
  BY <1>2, <1>3 DEF WindowExact, HighestIsLast
<1>5. UnsealedUntouched /\ AtMostOnce
  BY DEF Init, UnsealedUntouched, AtMostOnce
<1> QED
  BY <1>1, <1>4, <1>5 DEF WindowInv

(* sequence_window.hpp promises that every authenticated sequence is       *)
(* accepted at most once: it holds for every window size and any           *)
(* interleaving of the lanes.                                              *)
THEOREM ReplaySafety == Spec => []AtMostOnce
<1>1. WindowInv => AtMostOnce
  BY DEF WindowInv
<1> QED BY <1>1, WindowInit, WindowStep, PTL DEF Spec

(* The bitset of a lane says exactly which packets of its horizon were     *)
(* handled: neither the shift of accept's forward path nor the bit its     *)
(* late path sets ever loses or invents one.                               *)
THEOREM WindowExactness == Spec => []WindowExact
<1>1. WindowInv => WindowExact
  BY DEF WindowInv
<1> QED BY <1>1, WindowInit, WindowStep, PTL DEF Spec

(* A delayed packet inside its own lane's horizon is never mistaken for a  *)
(* replay, which is why direct_session.cpp keeps a window for every lane.  *)
THEOREM DelayedPacketSafety == Spec => []NoFalseReplay
<1>1. ASSUME WindowInv PROVE NoFalseReplay
  <2> SUFFICES ASSUME NEW s \in Sealed, handled[s] = 0,
                      \A t \in Sealed : laneOf[t] = laneOf[s] /\ handled[t] > 0
                                          => t - s < W
               PROVE  Accepts(window[laneOf[s]], s)
    BY DEF NoFalseReplay
  <2> DEFINE w == window[laneOf[s]]
  <2>1. s \in Sequences /\ laneOf[s] \in Lanes /\ w \in Windows /\ s # 0
    BY <1>1, SequenceAssumption DEF WindowInv, TypeOK, Sealed, Sequences
  <2>2. CASE s <= w.highest
    <3>1. w.highest - s < W
      <4>1. w.highest \in Sealed /\ laneOf[w.highest] = laneOf[s]
            /\ handled[w.highest] > 0
        BY <2>1, <2>2, <1>1 DEF WindowInv, HighestIsLast, Sequences, Windows
      <4> QED BY <4>1
    <3>2. w.highest - s \notin w.seen
      BY <3>1, <2>1, <2>2, <1>1, WindowAssumption
         DEF WindowInv, WindowExact, Ages, Windows, Sequences
    <3> QED BY <3>1, <3>2, <2>1 DEF Accepts
  <2>3. CASE s > w.highest
    BY <2>1, <2>3 DEF Accepts
  <2> QED BY <2>1, <2>2, <2>3 DEF Windows, Sequences
<1> QED BY <1>1, WindowInit, WindowStep, PTL DEF Spec

-----------------------------------------------------------------------------
(* The lifetime gate.                                                      *)

(* Starting or ending one invocation changes one count by one. *)
LEMMA CountAdd ==
    ASSUME NEW S, IsFiniteSet(S), NEW c, c \notin S
    PROVE  IsFiniteSet(S \cup {c}) /\ Cardinality(S \cup {c}) = Cardinality(S) + 1
  BY FS_AddElement

LEMMA CountRemove ==
    ASSUME NEW S, IsFiniteSet(S), NEW c \in S
    PROVE  Cardinality(S \ {c}) = Cardinality(S) - 1 /\ Cardinality(S) > 0
  <1>1. Cardinality(S \ {c}) = Cardinality(S) - 1
    BY FS_RemoveElement
  <1>2. Cardinality(S) \in Nat /\ (Cardinality(S) = 0 <=> S = {})
    BY FS_CardinalityType, FS_EmptySet
  <1> QED
    BY <1>1, <1>2

LEMMA RunningFinite ==
    ASSUME NEW n
    PROVE  IsFiniteSet(Running(n)) /\ Cardinality(Running(n)) \in Nat
  <1>1. Running(n) \subseteq Calls
    BY DEF Running
  <1>2. IsFiniteSet(Running(n))
    BY <1>1, FS_Subset, GateAssumption
  <1> QED
    BY <1>2, FS_CardinalityType

LEMMA InitKeeps == GateInit => GateInv
  <1> SUFFICES ASSUME GateInit PROVE GateInv
    OBVIOUS
  <1> USE GateAssumption DEF GateInit, Openings
  <1>1. GateTypeOK
    BY DEF GateTypeOK
  <1>2. \A n \in Openings : active[n] = Cardinality(Running(n))
    <2> SUFFICES ASSUME NEW n \in Openings PROVE active[n] = Cardinality(Running(n))
      OBVIOUS
    <2>1. Running(n) = {}
      BY DEF Running
    <2> QED
      BY <2>1, FS_EmptySet
  <1>3. \A n \in Openings : retired[n] <=> n < gate \/ (n = gate /\ owner # "open")
    OBVIOUS
  <1>4. NoLateCallback
    BY DEF NoLateCallback
  <1> QED
    BY <1>1, <1>2, <1>3, <1>4 DEF GateInv

LEMMA EnterKeeps ==
    ASSUME GateInv, NEW c \in Calls, NEW n \in Openings, Enter(c, n)
    PROVE  GateInv'
  <1> USE GateAssumption DEF Openings
  <1>1. n = gate /\ owner = "open"
    BY DEF GateInv, GateTypeOK, Enter, Admits
  <1>2. GateTypeOK'
    BY DEF GateInv, GateTypeOK, Enter, TakesLease
  <1>3. \A m \in Openings : active'[m] = Cardinality(Running(m)')
    <2> SUFFICES ASSUME NEW m \in Openings PROVE active'[m] = Cardinality(Running(m)')
      OBVIOUS
    <2>1. CASE m = n
      <3>1. Running(m)' = Running(m) \cup {c} /\ c \notin Running(m)
        BY <2>1 DEF Running, Enter, GateInv, GateTypeOK
      <3>2. Cardinality(Running(m)') = Cardinality(Running(m)) + 1
        BY <3>1, RunningFinite, CountAdd
      <3> QED
        BY <2>1, <3>2 DEF Enter, TakesLease, GateInv, GateTypeOK
    <2>2. CASE m # n
      <3>1. Running(m)' = Running(m)
        BY <2>2 DEF Running, Enter, GateInv, GateTypeOK
      <3> QED
        BY <2>2, <3>1 DEF Enter, TakesLease, GateInv, GateTypeOK
    <2> QED
      BY <2>1, <2>2
  <1>4. (\A m \in Openings : retired[m] <=> m < gate \/ (m = gate /\ owner # "open"))'
    BY DEF Enter, GateInv
  <1>5. NoLateCallback'
    BY <1>1 DEF NoLateCallback, Enter, GateInv, GateTypeOK
  <1> QED
    BY <1>2, <1>3, <1>4, <1>5 DEF GateInv

LEMMA LeaveKeeps ==
    ASSUME GateInv, NEW c \in Calls, Leave(c)
    PROVE  GateInv'
  <1> USE GateAssumption DEF Openings
  <1> DEFINE n == runs[c]
  <1>1. n \in Openings
    BY DEF GateInv, GateTypeOK, Leave
  <1>2. \A m \in Openings : active'[m] = Cardinality(Running(m)') /\ active'[m] \in Nat
    <2> SUFFICES ASSUME NEW m \in Openings
                 PROVE  active'[m] = Cardinality(Running(m)') /\ active'[m] \in Nat
      OBVIOUS
    <2>1. CASE m = n
      <3>1. Running(m)' = Running(m) \ {c} /\ c \in Running(m)
        BY <2>1, <1>1 DEF Running, Leave, GateInv, GateTypeOK
      <3>2. /\ Cardinality(Running(m)') = Cardinality(Running(m)) - 1
            /\ Cardinality(Running(m)) \in Nat /\ Cardinality(Running(m)) > 0
        BY <3>1, RunningFinite, CountRemove
      <3> QED
        BY <2>1, <3>2, <1>1 DEF Leave, ReturnsLease, GateInv, GateTypeOK
    <2>2. CASE m # n
      <3>1. Running(m)' = Running(m)
        BY <2>2, <1>1 DEF Running, Leave, GateInv, GateTypeOK
      <3> QED
        BY <2>2, <3>1, <1>1 DEF Leave, ReturnsLease, GateInv, GateTypeOK
    <2> QED
      BY <2>1, <2>2
  <1>3. GateTypeOK'
    BY <1>1, <1>2 DEF GateInv, GateTypeOK, Leave, ReturnsLease
  <1>4. (\A m \in Openings : retired[m] <=> m < gate \/ (m = gate /\ owner # "open"))'
    BY DEF Leave, GateInv
  <1>5. NoLateCallback'
    BY DEF NoLateCallback, Leave, GateInv, GateTypeOK
  <1> QED
    BY <1>2, <1>3, <1>4, <1>5 DEF GateInv

(* The owner's steps start and end no invocation. *)
LEMMA OwnerKeeps ==
    ASSUME GateInv, Open \/ Retire \/ Release \/ UNCHANGED gateVars
    PROVE  GateInv'
  <1> USE GateAssumption DEF Openings
  <1>0. UNCHANGED <<active, runs>>
    BY DEF Open, Retire, Release, gateVars
  <1>1. \A m \in Openings : active'[m] = Cardinality(Running(m)')
    <2> SUFFICES ASSUME NEW m \in Openings PROVE active'[m] = Cardinality(Running(m)')
      OBVIOUS
    <2>1. Running(m)' = Running(m)
      BY <1>0 DEF Running
    <2> QED
      BY <1>0, <2>1 DEF GateInv
  <1>2. CASE Open
    <2>1. \A c \in Calls : runs[c] = 0
      BY <1>2 DEF GateInv, NoLateCallback, Open
    <2> QED
      BY <1>1, <1>2, <2>1 DEF GateInv, GateTypeOK, NoLateCallback, Open
  <1>3. CASE Retire
    BY <1>1, <1>3 DEF GateInv, GateTypeOK, NoLateCallback, Retire
  <1>4. CASE Release
    <2>1. Running(gate) = {}
      <3>1. Cardinality(Running(gate)) = 0
        BY <1>4 DEF Release, GateInv, GateTypeOK
      <3> QED
        BY <3>1, RunningFinite, FS_EmptySet
    <2>2. \A c \in Calls : runs[c] = 0
      BY <2>1 DEF Running, GateInv, NoLateCallback
    <2> QED
      BY <1>1, <1>4, <2>2 DEF GateInv, GateTypeOK, NoLateCallback, Release
  <1>5. CASE UNCHANGED gateVars
    BY <1>1, <1>5 DEF GateInv, GateTypeOK, NoLateCallback, gateVars
  <1> QED
    BY <1>2, <1>3, <1>4, <1>5

(* The gate's count is the number of invocations under way, and an earlier *)
(* gate is retired (callback_lifetime.hpp).                                *)
THEOREM GateInvariant == GateSpec => []GateInv
  <1>1. GateInit => GateInv
    BY InitKeeps
  <1>2. GateInv /\ [GateNext]_gateVars => GateInv'
    BY EnterKeeps, LeaveKeeps, OwnerKeeps DEF GateNext
  <1> QED
    BY <1>1, <1>2, PTL DEF GateSpec

(* No callback runs once close has released the transport's state, nor in  *)
(* a later opening than its own (QuickJoinTransport::close and open).      *)
THEOREM CallbackSafety == GateSpec => []NoLateCallback
  <1>1. GateInv => NoLateCallback
    BY DEF GateInv
  <1> QED
    BY <1>1, GateInvariant, PTL
=============================================================================
