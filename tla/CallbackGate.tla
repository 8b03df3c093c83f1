---------------------------- MODULE CallbackGate ----------------------------
(***************************************************************************)
(* The lifetime gate between the Quick Join transport and the callbacks it *)
(* hands to the WebRTC library (callback_lifetime.hpp), which calls them   *)
(* from threads of its own, also nested and also long after the transport  *)
(* was closed and opened again.  Every opening wraps its callbacks with a  *)
(* new gate; the transport's state is released only behind a retired one.  *)
(*                                                                         *)
(* The counter is guarded by the gate's mutex, so entering, leaving and    *)
(* retiring are one step each; the wrapped function runs between two.      *)
(*                                                                         *)
(* Init, Next and the rest carry the gate's name: TransportProofs extends  *)
(* this module together with ReceiveWindow.                                *)
(***************************************************************************)
EXTENDS Integers, FiniteSets

CONSTANTS Calls,       \* invocations that may be under way at a time
          MaxOpenings  \* bound: times the transport is opened

ASSUME GateAssumption == IsFiniteSet(Calls) /\ MaxOpenings \in Nat

VARIABLES
    owner,    \* what QuickJoinTransport's owner is doing
    gate,     \* the opening callbacks_ belongs to
    retired,  \* retired[n]: State::retired of opening n's gate
    active,   \* active[n]: State::active
    runs      \* runs[c]: the opening whose callback invocation c executes, 0 for none

gateVars == <<owner, gate, retired, active, runs>>

Openings == 1 .. MaxOpenings

Running(n) == {c \in Calls : runs[c] = n}

GateInit ==
    /\ owner = "released"
    /\ gate = 0
    /\ retired = [n \in Openings |-> FALSE]
    /\ active = [n \in Openings |-> 0]
    /\ runs = [c \in Calls |-> 0]

(* open: the gate is replaced, and the sockets are wrapped with it. *)
Open ==
    /\ owner = "released"
    /\ gate < MaxOpenings
    /\ gate' = gate + 1
    /\ owner' = "open"
    /\ UNCHANGED <<retired, active, runs>>

(* Mutant: the gate's flag is not looked at. *)
AlwaysAdmits(n) == TRUE

Admits(n) == ~retired[n]

TakesLease(n) == [active EXCEPT ![n] = @ + 1]

(* The library invokes a callback of opening n, at once or late: wrap's    *)
(* prologue.  A refused invocation returns without a trace.                *)
Enter(c, n) ==
    /\ n <= gate
    /\ runs[c] = 0
    /\ Admits(n)
    /\ active' = TakesLease(n)
    /\ runs' = [runs EXCEPT ![c] = n]
    /\ UNCHANGED <<owner, gate, retired>>

(* Mutant: a lease is not given back. *)
KeepsLease(n) == active

ReturnsLease(n) == [active EXCEPT ![n] = @ - 1]

(* The wrapped function returns and ~Lease runs. *)
Leave(c) ==
    /\ runs[c] # 0
    /\ active' = ReturnsLease(runs[c])
    /\ runs' = [runs EXCEPT ![c] = 0]
    /\ UNCHANGED <<owner, gate, retired>>

(* close: retire marks the gate, ... *)
Retire ==
    /\ owner = "open"
    /\ owner' = "retiring"
    /\ retired' = [retired EXCEPT ![gate] = TRUE]
    /\ UNCHANGED <<gate, active, runs>>

(* ... waits until the last invocation has left, and lets close release    *)
(* the queues, the peers and the sockets.                                  *)
Release ==
    /\ owner = "retiring"
    /\ active[gate] = 0
    /\ owner' = "released"
    /\ UNCHANGED <<gate, retired, active, runs>>

GateNext ==
    \/ Open
    \/ \E c \in Calls, n \in Openings : Enter(c, n)
    \/ \E c \in Calls : Leave(c)
    \/ Retire
    \/ Release

GateSpec == GateInit /\ [][GateNext]_gateVars

(* A callback ends: it waits for no lock that close holds while it         *)
(* retires.  The closing thread is scheduled.                              *)
GateFairSpec == GateSpec /\ WF_gateVars(Release) /\ \A c \in Calls : WF_gateVars(Leave(c))

-----------------------------------------------------------------------------
GateTypeOK ==
    /\ owner \in {"released", "open", "retiring"}
    /\ gate \in 0 .. MaxOpenings
    /\ owner # "released" => gate \in Openings
    /\ retired \in [Openings -> BOOLEAN]
    /\ active \in [Openings -> Nat]
    /\ runs \in [Calls -> 0 .. MaxOpenings]

(* No callback touches the transport once close has released its state,    *)
(* and none of an earlier opening runs inside a later one, however late    *)
(* the library invokes it.                                                 *)
NoLateCallback ==
    \A c \in Calls : runs[c] # 0 => owner # "released" /\ runs[c] = gate

(* close returns: retiring waits only for invocations that end, although   *)
(* the library may go on invoking callbacks.                               *)
CloseReturns == owner = "retiring" ~> owner = "released"

-----------------------------------------------------------------------------
(* The inductive invariant behind NoLateCallback. *)
GateInv ==
    /\ GateTypeOK
    /\ \A n \in Openings : active[n] = Cardinality(Running(n))
    /\ \A n \in Openings : retired[n] <=> n < gate \/ (n = gate /\ owner # "open")
    /\ NoLateCallback
=============================================================================
