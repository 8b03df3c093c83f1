------------------------- MODULE SceneBarrierProofs -------------------------
(***************************************************************************)
(* Proofs about SceneBarrier for any number of guests, loads and frames.   *)
(*                                                                         *)
(* The network may deliver a datagram at any time after it was sent, so    *)
(* the invariant has a meaning for every datagram that no later step takes *)
(* back (Says): Go, for instance, says that Player 1 has run the scene it  *)
(* names, and StateAck that its sender has installed the state.  The rest  *)
(* of it says what each machine is doing in the stage it is in (Local),    *)
(* how far the machines are apart (Order), what the barriers' sets of      *)
(* machines and flags stand for (Collected), where an input epoch ends     *)
(* (Frames), and what a finish that is sealed or released stands for       *)
(* (Finishing, OneFinish).  There is one lemma for every action.           *)
(***************************************************************************)
EXTENDS SceneBarrier, TLAPS

(* The stages in which the game runs on the input epoch of its last load.  *)
RunStages == {"frontend", "racing", "finish", "sealing", "results"}

Opened(n) == stage[n] = "go" /\ n \in barrier[n].armed

(* How far machine m has come with load k; none of these is ever undone.   *)
Installed(m, k) ==
    loads[m] > k \/ (loads[m] = k /\ stage[m] \notin {"loading", "peers", "baseline"})
Ran(m, k) == loads[m] > k \/ (loads[m] = k /\ stage[m] \in RunStages)
Sealed(m, k) ==
    loads[m] > k \/ (loads[m] = k /\ stage[m] \in {"sealing", "results", "frontend"})

Where(n) ==
    /\ epoch[n] = IF stage[n] \in RunStages \/ Opened(n) THEN loads[n] + 1 ELSE loads[n]
    /\ stage[n] # "frontend" => loads[n] >= 1
    /\ scene[n] = IF stage[n] = "loading" THEN loads[n] - 1 ELSE loads[n]
    /\ phase[n] <=> (stage[n] \notin {"loading", "results", "frontend"})
    /\ origin[n] <= cursor[n]
    /\ stage[n] = "finish" => cursor[n] >= 1
    /\ IF n = Host THEN stage[n] # "baseline" ELSE stage[n] # "acks"

HandoffOK(n) ==
    /\ stage[n] \notin RunStages => handoff[n] # None /\ handoff[n].loading
    /\ handoff[n] # None =>
         /\ handoff[n].loading => stage[n] \notin RunStages
         /\ handoff[n].current \in 1..Scenes
         /\ handoff[n].map = MapOf[handoff[n].current]
         /\ epoch[n] = IF Opened(n) THEN handoff[n].current + 1 ELSE handoff[n].current
         /\ Opened(n) => cursor[n] = origin[n]
         /\ ~Opened(n) => /\ cursor[n] <= handoff[n].suspend
                          /\ handoff[n].suspend <= handoff[n].boundary
         /\ handoff[n].resume \in {0, handoff[n].current + 1}
         /\ handoff[n].resume = 0 => /\ handoff[n].loading /\ n # Host
                                     /\ stage[n] \notin {"baseline", "go"}
                                     /\ handoff[n].suspend = cursor[n]
         /\ n = Host => handoff[n].boundary = cursor[n] /\ handoff[n].suspend = cursor[n]

BarrierOK(n) ==
    /\ stage[n] \in {"loading", "frontend"} => barrier[n] = None
    /\ stage[n] \notin {"loading", "frontend", "peers"} =>
         barrier[n] # None /\ barrier[n].synced /\ barrier[n].baseline
    /\ barrier[n] # None =>
         /\ barrier[n].scene = loads[n] /\ barrier[n].map = MapOf[loads[n]]
         /\ n \in barrier[n].armed => barrier[n].arm
         /\ barrier[n].go => n \in barrier[n].armed
         /\ stage[n] \in RunStages => n \in barrier[n].armed
         /\ barrier[n].arm => stage[n] = "go" \/ stage[n] \in RunStages
         /\ n = Host => barrier[n].synced
         /\ barrier[n].baseline => barrier[n].synced
    /\ n = Host /\ stage[n] = "peers" /\ barrier[n] # None => ~barrier[n].baseline

Adopting(g) == stage[g] \in {"loading", "peers"} /\ ~(barrier[g] # None /\ barrier[g].synced)

Local ==
    /\ \A n \in Node : Where(n) /\ HandoffOK(n) /\ BarrierOK(n)
    /\ \A g \in Guests : lastHost[g] = IF Adopting(g) THEN loads[g] - 1 ELSE loads[g]

(* How far the machines are apart. *)
Order ==
    /\ \A m, n \in Node : loads[n] > loads[m] =>
                             loads[n] = loads[m] + 1 /\ stage[m] \in RunStages
    /\ \A m, n \in Node : stage[n] \in RunStages => epoch[m] >= loads[n] + 1
    /\ \A g \in Guests : epoch[g] <= epoch[Host]
    /\ \A g \in Guests : stage[g] \in RunStages => Ran(Host, loads[g])
    /\ stage[Host] \in RunStages \cup {"go"} => \A g \in Guests : Installed(g, loads[Host])

Collected ==
    /\ \A g \in acks \ {Host} : Installed(g, loads[Host])
    /\ stage[Host] = "loading" => acks = {}
    /\ \A g \in Guests : barrier[g] # None =>
         /\ barrier[g].arm => epoch[Host] >= loads[g] + 1
         /\ barrier[g].go => Ran(Host, loads[g])
    /\ barrier[Host] # None =>
         \A g \in barrier[Host].armed : epoch[g] >= loads[Host] + 1

(* Where the input epochs end. *)
Bound(e, f) ==
    \/ epoch[Host] = e /\ handoff[Host] # None /\ handoff[Host].current = e /\ cursor[Host] = f
    \/ epoch[Host] = e + 1 /\ origin[Host] = f
    \/ epoch[Host] > e + 1

Frames ==
    /\ \A m, n \in Node : epoch[m] = epoch[n] => origin[m] = origin[n]
    /\ \A g \in Guests :
         /\ cursor[g] <= Committed(g)
         /\ cursor[Host] <= Lead + (IF epoch[g] = epoch[Host] THEN cursor[g] ELSE origin[Host])
         /\ handoff[g] # None /\ handoff[g].resume # 0 /\ ~Opened(g) =>
              Bound(handoff[g].current, handoff[g].boundary)

Announced(s, f) == Finish("Begin", Host, s, f) \in sent

TransitionOK(n) ==
    /\ stage[n] = "sealing" => transition[n] # None
    /\ transition[n] # None =>
         /\ transition[n].scene = scene[n] /\ scene[n] \in 1..Scenes
         /\ Announced(scene[n], transition[n].frame)
         /\ transition[n].resumed => \A m \in Node : Sealed(m, scene[n])
         /\ n = Host => \A g \in transition[n].acks \ {Host} : Sealed(g, scene[n])

ReleaseOK(r) ==
    /\ r[1] = "gameplay" => Ran(Host, r[2]) /\ r[3] = MapOf[r[2]]
    /\ r[1] = "finish" => Announced(r[2], r[3]) /\ \A m \in Node : Sealed(m, r[2])

Finishing ==
    /\ \A n \in Node : TransitionOK(n)
    /\ \A m, n \in Node : stage[n] = "results" => Sealed(m, loads[n])
    /\ \A r \in releases[Host] : ReleaseOK(r)

(* What a datagram says of the machines, at whatever time it is delivered. *)
Says(m) ==
    /\ m.slot \in Node
    /\ m.type \in {"Request", "Suspend"} =>
         /\ m.epoch \in 1..Scenes /\ m.map = MapOf[m.epoch] /\ m.boundary \in Nat
         /\ \A n \in Node : Ran(n, m.epoch - 1)
    /\ m.type = "Suspend" => m.resume = m.epoch + 1 /\ Bound(m.epoch, m.boundary)
    /\ m.type \notin {"Request", "Suspend"} => m.scene \in 1..Scenes
    /\ m.type \in {"Prepare", "Baseline", "State", "Arm", "Go"} => m.map = MapOf[m.scene]
    /\ m.type \in {"Ready", "Armed", "StateAck"} => m.map \in Maps
    /\ m.type = "Prepare" => loads[Host] >= m.scene
    /\ m.type = "StateAck" => Installed(m.slot, m.scene)
    /\ m.type = "Arm" => epoch[Host] >= m.scene + 1
    /\ m.type = "Armed" => epoch[m.slot] >= m.scene + 1
    /\ m.type = "Go" => Ran(Host, m.scene)
    /\ m.type \in {"Begin", "Acknowledge", "Resume"} =>
         m.frame \in Nat /\ Announced(m.scene, m.frame)
    /\ m.type = "Begin" => Sealed(Host, m.scene)
    /\ m.type = "Acknowledge" => Sealed(m.slot, m.scene)
    /\ m.type = "Resume" => \A n \in Node : Sealed(n, m.scene)

Told == \A m \in sent : Says(m)

OneFinish == \A s, f1, f2 \in Nat : Announced(s, f1) /\ Announced(s, f2) => f1 = f2

BarrierInv ==
    /\ TypeOK /\ failed = {}
    /\ Local /\ Order /\ Collected /\ Frames /\ Finishing /\ Told /\ OneFinish
-----------------------------------------------------------------------------
(* What holds of one machine by its type.                                  *)

LEMMA Basics ==
    /\ Scenes \in Nat \ {0} /\ Host \in Node /\ Guests \subseteq Node
    /\ Host \notin Guests /\ None \notin Handoff /\ None \notin Barrier
    /\ None \notin Transition /\ None \notin Maps
    /\ SceneFrames \in Nat /\ Lead \in Nat \ {0} /\ Lead < SceneFrames
  BY NodesAssumption, LoadsAssumption, FramesAssumption, NoneAssumption DEF Node

LEMMA MapsOf == ASSUME NEW k \in 1..Scenes PROVE MapOf[k] \in Maps
  BY DEF Maps

LEMMA Typed ==
    ASSUME TypeOK, NEW n \in Node
    PROVE  /\ cursor[n] \in Nat /\ origin[n] \in Nat
           /\ epoch[n] \in 1..(Scenes + 1)
           /\ scene[n] \in 0..Scenes /\ loads[n] \in 0..Scenes
           /\ stage[n] \in Stage
           /\ handoff[n] \in Handoff \cup {None}
           /\ barrier[n] \in Barrier \cup {None}
           /\ transition[n] \in Transition \cup {None}
  BY DEF TypeOK, Frame, Epoch

LEMMA HandoffTyped ==
    ASSUME NEW h \in Handoff
    PROVE  /\ h.current \in 1..(Scenes + 1) /\ h.resume \in 0..(Scenes + 1)
           /\ h.boundary \in Nat /\ h.suspend \in Nat /\ h.map \in Maps
           /\ h.loading \in BOOLEAN /\ h.armed \in BOOLEAN
  BY Basics DEF Handoff, Frame, Epoch

-----------------------------------------------------------------------------
(* No step takes a machine back.                                           *)

Later(s, t) ==
    /\ s \notin {"loading", "peers", "baseline"} => t \notin {"loading", "peers", "baseline"}
    /\ s \in RunStages => t \in RunStages
    /\ s \in {"sealing", "results", "frontend"} => t \in {"sealing", "results", "frontend"}

Onward ==
    \A m \in Node :
        /\ epoch'[m] >= epoch[m]
        /\ \/ loads'[m] = loads[m] /\ Later(stage[m], stage'[m])
           \/ loads'[m] > loads[m]

BoundKept == \A e \in 1..Scenes, f \in Nat : Bound(e, f) => Bound(e, f)'

LEMMA OnwardKeeps ==
    ASSUME TypeOK, TypeOK', Onward, NEW m \in Node, NEW k \in Int
    PROVE  /\ loads'[m] >= loads[m] /\ epoch'[m] >= epoch[m]
           /\ Installed(m, k) => Installed(m, k)'
           /\ Ran(m, k) => Ran(m, k)'
           /\ Sealed(m, k) => Sealed(m, k)'
<1>1. loads[m] \in Int /\ loads'[m] \in Int
  BY DEF TypeOK
<1>2. CASE loads'[m] = loads[m] /\ Later(stage[m], stage'[m])
  BY <1>1, <1>2 DEF Onward, Later, Installed, Ran, Sealed
<1>3. CASE loads'[m] > loads[m]
  BY <1>1, <1>3 DEF Onward, Installed, Ran, Sealed
<1> QED
  BY <1>2, <1>3 DEF Onward

(* What was said stays true. *)
LEMMA SaysKept ==
    ASSUME TypeOK, TypeOK', Onward, BoundKept, sent \subseteq sent', NEW m, Says(m)
    PROVE  Says(m)'
<1>1. /\ m.slot \in Node
      /\ m.type \in {"Request", "Suspend"} => m.epoch \in 1..Scenes /\ m.boundary \in Nat
      /\ m.type \notin {"Request", "Suspend"} => m.scene \in 1..Scenes
  BY DEF Says
<1>2. \A n \in Node : epoch[n] \in Int /\ epoch'[n] \in Int /\ loads[n] \in Int /\ loads'[n] \in Int
  BY Basics DEF TypeOK, Epoch
<1>3. m.type \in {"Request", "Suspend"} => \A n \in Node : Ran(n, m.epoch - 1)'
  BY <1>1, OnwardKeeps, Basics DEF Says
<1>4. m.type = "Suspend" => Bound(m.epoch, m.boundary)'
  BY <1>1 DEF Says, BoundKept
<1>5. m.type = "Prepare" => loads'[Host] >= m.scene
  <2>1. loads'[Host] >= loads[Host]
    BY OnwardKeeps, Basics
  <2> QED
    BY <1>1, <1>2, <2>1, Basics DEF Says
<1>6. /\ m.type = "StateAck" => Installed(m.slot, m.scene)'
      /\ m.type = "Go" => Ran(Host, m.scene)'
  BY <1>1, OnwardKeeps, Basics DEF Says
<1>7. /\ m.type = "Begin" => Sealed(Host, m.scene)'
      /\ m.type = "Acknowledge" => Sealed(m.slot, m.scene)'
      /\ m.type = "Resume" => \A n \in Node : Sealed(n, m.scene)'
  BY <1>1, OnwardKeeps, Basics DEF Says
<1>8. m.type = "Arm" => epoch'[Host] >= m.scene + 1
  <2>1. epoch'[Host] >= epoch[Host]
    BY Basics DEF Onward
  <2> QED
    BY <1>1, <1>2, <2>1, Basics DEF Says
<1>9. m.type = "Armed" => epoch'[m.slot] >= m.scene + 1
  <2>1. epoch'[m.slot] >= epoch[m.slot]
    BY <1>1 DEF Onward
  <2> QED
    BY <1>1, <1>2, <2>1, Basics DEF Says
<1>10. m.type \in {"Begin", "Acknowledge", "Resume"} => Announced(m.scene, m.frame)'
  BY DEF Says, Announced
<1> QED
  BY <1>3, <1>4, <1>5, <1>6, <1>7, <1>8, <1>9, <1>10 DEF Says

LEMMA ToldKept ==
    ASSUME TypeOK, TypeOK', Onward, BoundKept, sent \subseteq sent', Told,
           \A m \in sent' \ sent : Says(m)'
    PROVE  Told'
<1>1. ASSUME NEW m \in sent' PROVE Says(m)'
  BY SaysKept DEF Told
<1> QED
  BY <1>1 DEF Told

-----------------------------------------------------------------------------
(* The parts of the invariant that a step leaves alone.                    *)

Same(m) ==
    /\ cursor'[m] = cursor[m] /\ epoch'[m] = epoch[m] /\ origin'[m] = origin[m]
    /\ handoff'[m] = handoff[m] /\ barrier'[m] = barrier[m]
    /\ phase'[m] = phase[m] /\ scene'[m] = scene[m]
    /\ transition'[m] = transition[m] /\ stage'[m] = stage[m]
    /\ loads'[m] = loads[m]
    /\ m \in Guests => lastHost'[m] = lastHost[m]

Others(n) == \A m \in Node \ {n} : Same(m)

LastOK(g) == lastHost[g] = IF Adopting(g) THEN loads[g] - 1 ELSE loads[g]

LEMMA LocalKept ==
    ASSUME Local, NEW n \in Node, Others(n), Where(n)', HandoffOK(n)', BarrierOK(n)',
           n \in Guests => LastOK(n)'
    PROVE  Local'
<1>1. ASSUME NEW m \in Node PROVE Where(m)'
  BY DEF Local, Others, Same, Where, Opened
<1>2. ASSUME NEW m \in Node PROVE HandoffOK(m)'
  BY DEF Local, Others, Same, HandoffOK, Opened
<1>3. ASSUME NEW m \in Node PROVE BarrierOK(m)'
  BY DEF Local, Others, Same, BarrierOK
<1>4. ASSUME NEW g \in Guests PROVE LastOK(g)'
  BY Basics DEF Local, Others, Same, LastOK, Adopting
<1> QED
  BY <1>1, <1>2, <1>3, <1>4 DEF Local, LastOK

LEMMA OrderKept ==
    ASSUME TypeOK, TypeOK', Order, Onward,
           \A m \in Node : /\ loads'[m] = loads[m] /\ epoch'[m] = epoch[m]
                           /\ stage'[m] \in RunStages <=> stage[m] \in RunStages,
           stage'[Host] = "go" => \/ stage[Host] \in RunStages \cup {"go"}
                                  \/ \A g \in Guests : Installed(g, loads[Host])
    PROVE  Order'
<1>1. \A m \in Node : loads[m] \in Int
  BY DEF TypeOK
<1>2. ASSUME NEW g \in Guests, stage'[g] \in RunStages PROVE Ran(Host, loads[g])'
  <2>1. Ran(Host, loads[g])
    BY <1>2, Basics DEF Order
  <2>2. loads'[g] = loads[g] /\ loads[g] \in Int
    BY <1>1, Basics
  <2> QED
    BY <2>1, <2>2, Basics DEF Ran
<1>3. ASSUME NEW g \in Guests, stage'[Host] \in RunStages \cup {"go"}
      PROVE  Installed(g, loads[Host])'
  <2>1. Installed(g, loads[Host])
    BY <1>3, Basics DEF Order
  <2>2. loads'[g] = loads[g] /\ loads'[Host] = loads[Host] /\ Later(stage[g], stage'[g])
        /\ loads[g] \in Int
    BY <1>1, Basics DEF Onward
  <2> QED
    BY <2>1, <2>2 DEF Installed, Later
<1> QED
  BY <1>2, <1>3, Basics DEF Order

LEMMA CollectedKept ==
    ASSUME TypeOK, TypeOK', Collected, Onward,
           \A g \in acks' \ {Host} : \/ g \in acks /\ loads'[Host] = loads[Host]
                                     \/ Installed(g, loads[Host])',
           stage'[Host] = "loading" => acks' = {},
           \A g \in Guests : barrier'[g] # None =>
               /\ loads'[g] = loads[g]
               /\ barrier'[g].arm => \/ barrier[g] # None /\ barrier[g].arm
                                     \/ epoch'[Host] >= loads[g] + 1
               /\ barrier'[g].go => \/ barrier[g] # None /\ barrier[g].go
                                    \/ Ran(Host, loads[g])',
           barrier'[Host] # None =>
               /\ loads'[Host] = loads[Host]
               /\ \A g \in barrier'[Host].armed :
                    \/ barrier[Host] # None /\ g \in barrier[Host].armed
                    \/ epoch'[g] >= loads[Host] + 1
    PROVE  Collected'
<1>1. \A m \in Node : loads[m] \in Int /\ epoch[m] \in Int /\ epoch'[m] \in Int
                      /\ epoch'[m] >= epoch[m]
  BY Basics DEF TypeOK, Epoch, Onward
<1>2. ASSUME NEW g \in acks' \ {Host} PROVE Installed(g, loads[Host])'
  <2> SUFFICES ASSUME g \in acks, loads'[Host] = loads[Host] PROVE Installed(g, loads[Host])'
    OBVIOUS
  <2>1. Installed(g, loads[Host]) /\ loads'[Host] = loads[Host] /\ g \in Node
    BY DEF Collected, TypeOK
  <2>2. Installed(g, loads[Host]) => Installed(g, loads[Host])'
    <3>1. loads[g] \in Int /\ loads'[g] \in Int /\ loads[Host] \in Int
      BY <2>1, Basics DEF TypeOK
    <3> QED
      BY <2>1, <3>1 DEF Onward, Later, Installed
  <2> QED
    BY <2>1, <2>2
<1>3. ASSUME NEW g \in Guests, barrier'[g] # None
      PROVE  /\ barrier'[g].arm => epoch'[Host] >= loads'[g] + 1
             /\ barrier'[g].go => Ran(Host, loads[g])'
  <2>1. loads'[g] = loads[g] /\ loads[g] \in Int
    BY <1>1, <1>3, Basics
  <2>2. barrier'[g].arm => epoch'[Host] >= loads'[g] + 1
    <3>1. barrier'[g].arm => epoch[Host] >= loads[g] + 1 \/ epoch'[Host] >= loads[g] + 1
      BY <1>3 DEF Collected
    <3> QED
      BY <1>1, <2>1, <3>1, Basics
  <2>3. barrier'[g].go => Ran(Host, loads[g])'
    <3>1. barrier'[g].go => Ran(Host, loads[g]) \/ Ran(Host, loads[g])'
      BY <1>3 DEF Collected
    <3>2. Host \in Node /\ loads[Host] \in Int /\ loads'[Host] \in Int
      BY Basics DEF TypeOK
    <3> QED
      BY <2>1, <3>1, <3>2 DEF Onward, Later, Ran
  <2> QED
    BY <2>2, <2>3
<1>4. ASSUME barrier'[Host] # None, NEW g \in barrier'[Host].armed
      PROVE  epoch'[g] >= loads'[Host] + 1
  <2> SUFFICES ASSUME barrier[Host] # None, g \in barrier[Host].armed
               PROVE  epoch'[g] >= loads'[Host] + 1
    BY <1>4
  <2>1. loads'[Host] = loads[Host] /\ epoch[g] >= loads[Host] + 1 /\ barrier[Host] # None
        /\ g \in barrier[Host].armed
    BY <1>4 DEF Collected
  <2>2. g \in Node
    <3>1. barrier[Host] \in Barrier
      BY <2>1, Typed, Basics
    <3> QED
      BY <2>1, <3>1 DEF Barrier
  <2> QED
    BY <1>1, <2>1, <2>2, Basics
<1> QED
  BY <1>2, <1>3, <1>4 DEF Collected

LEMMA FramesKept ==
    ASSUME Frames, BoundKept, UNCHANGED inputVars,
           \A g \in Guests : handoff'[g] # None /\ handoff'[g].resume # 0 /\ ~Opened(g)' =>
              \/ /\ handoff'[g] = handoff[g] /\ ~Opened(g)
                 /\ handoff[g].current \in 1..Scenes /\ handoff[g].boundary \in Nat
              \/ Bound(handoff[g].current, handoff[g].boundary)'
    PROVE  Frames'
<1>1. \A g \in Guests : Committed(g)' = Committed(g)
  BY DEF Committed, inputVars
<1>2. ASSUME NEW g \in Guests, handoff'[g] # None, handoff'[g].resume # 0, ~Opened(g)'
      PROVE  Bound(handoff[g].current, handoff[g].boundary)'
  <2>1. CASE /\ handoff'[g] = handoff[g] /\ ~Opened(g)
             /\ handoff[g].current \in 1..Scenes /\ handoff[g].boundary \in Nat
    <3>1. Bound(handoff[g].current, handoff[g].boundary)
      BY <1>2, <2>1 DEF Frames
    <3> QED
      BY <2>1, <3>1 DEF BoundKept, Bound
  <2> QED
    BY <1>2, <2>1
<1> QED
  BY <1>1, <1>2 DEF Frames, inputVars

LEMMA TransitionKept ==
    ASSUME TypeOK, TypeOK', Onward, sent \subseteq sent', NEW n \in Node, TransitionOK(n),
           \/ transition'[n] = None /\ stage'[n] # "sealing"
           \/ /\ transition'[n] = transition[n] /\ scene'[n] = scene[n]
              /\ stage'[n] = "sealing" => stage[n] = "sealing" \/ transition[n] # None
    PROVE  TransitionOK(n)'
<1>1. CASE transition'[n] = None /\ stage'[n] # "sealing"
  BY <1>1 DEF TransitionOK
<1>2. CASE /\ transition'[n] = transition[n] /\ scene'[n] = scene[n]
           /\ stage'[n] = "sealing" => stage[n] = "sealing" \/ transition[n] # None
  <2> SUFFICES ASSUME transition[n] # None PROVE TransitionOK(n)'
    BY <1>2 DEF TransitionOK
  <2>1. transition[n] \in Transition /\ scene[n] \in Int
    BY Typed, Basics
  <2>2. transition[n].acks \subseteq Node
    BY <2>1 DEF Transition
  <2>3. Announced(scene[n], transition[n].frame)'
    BY <1>2 DEF TransitionOK, Announced
  <2>4. ASSUME NEW m \in Node, Sealed(m, scene[n]) PROVE Sealed(m, scene[n])'
    <3>1. Sealed(m, scene[n]) => (loads'[m] > scene[n] \/ (loads'[m] = scene[n]
                                   /\ stage'[m] \in {"sealing", "results", "frontend"}))
      <4>1. loads[m] \in Int /\ loads'[m] \in Int
        BY DEF TypeOK
      <4> QED
        BY <2>1, <4>1 DEF Onward, Later, Sealed
    <3> QED
      BY <1>2, <2>4, <3>1 DEF Sealed
  <2> QED
    BY <1>2, <2>2, <2>3, <2>4 DEF TransitionOK
<1> QED
  BY <1>1, <1>2

LEMMA ResultsKept ==
    ASSUME TypeOK, TypeOK', Onward, Finishing,
           \A n \in Node : stage'[n] = "results" =>
               stage[n] = "results" /\ loads'[n] = loads[n]
    PROVE  \A m, n \in Node : stage'[n] = "results" => Sealed(m, loads[n])'
<1> SUFFICES ASSUME NEW m \in Node, NEW n \in Node, stage'[n] = "results"
             PROVE  Sealed(m, loads[n])'
  OBVIOUS
<1>1. Sealed(m, loads[n]) /\ loads'[n] = loads[n]
  BY DEF Finishing
<1>2. loads[m] \in Int /\ loads'[m] \in Int /\ loads[n] \in Int
  BY DEF TypeOK
<1> QED
  BY <1>1, <1>2 DEF Onward, Later, Sealed

LEMMA ReleasesKept ==
    ASSUME TypeOK, TypeOK', Onward, Finishing, sent \subseteq sent',
           \A r \in releases'[Host] \ releases[Host] : ReleaseOK(r)'
    PROVE  \A r \in releases'[Host] : ReleaseOK(r)'
<1> SUFFICES ASSUME NEW r \in releases[Host] PROVE ReleaseOK(r)'
  OBVIOUS
<1>1. ReleaseOK(r)
  BY DEF Finishing
<1>2. r[2] \in Int
  <2>1. releases[Host] \subseteq (({"gameplay"} \X (1..Scenes) \X Maps)
                                \cup ({"finish"} \X (1..Scenes) \X Frame))
    BY Basics DEF TypeOK
  <2> QED
    BY <2>1, Basics
<1>3. r[1] = "gameplay" => Ran(Host, r[2])'
  BY <1>1, <1>2, OnwardKeeps, Basics DEF ReleaseOK
<1>4. r[1] = "finish" => \A m \in Node : Sealed(m, r[2])'
  BY <1>1, <1>2, OnwardKeeps DEF ReleaseOK
<1>5. r[1] = "finish" => Announced(r[2], r[3])'
  BY <1>1 DEF ReleaseOK, Announced
<1> QED
  BY <1>1, <1>3, <1>4, <1>5 DEF ReleaseOK

LEMMA OneFinishKept ==
    ASSUME OneFinish, \A m \in sent' \ sent : m.type # "Begin"
    PROVE  OneFinish'
<1>1. ASSUME NEW s \in Nat, NEW f \in Nat, Announced(s, f)' PROVE Announced(s, f)
  <2>1. Finish("Begin", Host, s, f).type = "Begin"
    BY DEF Finish
  <2> QED
    BY <1>1, <2>1 DEF Announced
<1> QED
  BY <1>1 DEF OneFinish

-----------------------------------------------------------------------------
(* One lemma for every action.                                             *)

(* What the invariant says of one machine. *)
LEMMA Facts ==
    ASSUME BarrierInv, NEW n \in Node
    PROVE  /\ TypeOK /\ failed = {} /\ Where(n) /\ HandoffOK(n) /\ BarrierOK(n)
           /\ (n \in Guests => LastOK(n)) /\ TransitionOK(n)
           /\ cursor[n] \in Nat /\ origin[n] \in Nat
           /\ epoch[n] \in 1..(Scenes + 1)
           /\ scene[n] \in 0..Scenes /\ loads[n] \in 0..Scenes /\ stage[n] \in Stage
           /\ barrier[n] # None => barrier[n] \in Barrier
           /\ transition[n] # None => transition[n] \in Transition
           /\ handoff[n] # None =>
                /\ handoff[n] \in Handoff /\ handoff[n].current \in 1..Scenes
                /\ handoff[n].boundary \in Nat /\ handoff[n].suspend \in Nat
                /\ handoff[n].resume \in 0..(Scenes + 1)
  <1>1. TypeOK /\ failed = {} /\ Local /\ Finishing
    BY DEF BarrierInv
  <1>2. /\ Where(n) /\ HandoffOK(n) /\ BarrierOK(n) /\ TransitionOK(n)
        /\ (n \in Guests => LastOK(n))
    BY <1>1 DEF Local, Finishing, LastOK
  <1>3. handoff[n] # None =>
                /\ handoff[n] \in Handoff /\ handoff[n].current \in 1..Scenes
                /\ handoff[n].boundary \in Nat /\ handoff[n].suspend \in Nat
                /\ handoff[n].resume \in 0..(Scenes + 1)
    <2> SUFFICES ASSUME handoff[n] # None
                 PROVE  /\ handoff[n] \in Handoff /\ handoff[n].current \in 1..Scenes
                        /\ handoff[n].boundary \in Nat /\ handoff[n].suspend \in Nat
                        /\ handoff[n].resume \in 0..(Scenes + 1)
      OBVIOUS
    <2>1. handoff[n] \in Handoff /\ handoff[n].current \in 1..Scenes
      BY <1>1, <1>2, Typed DEF HandoffOK
    <2> QED
      BY <2>1, HandoffTyped
  <1>4. /\ cursor[n] \in Nat /\ origin[n] \in Nat
        /\ epoch[n] \in 1..(Scenes + 1)
        /\ scene[n] \in 0..Scenes /\ loads[n] \in 0..Scenes /\ stage[n] \in Stage
        /\ barrier[n] # None => barrier[n] \in Barrier
        /\ transition[n] # None => transition[n] \in Transition
    BY <1>1, Typed
  <1> QED
    BY <1>1, <1>2, <1>3, <1>4

LEMMA ConsumeKeeps ==
    ASSUME BarrierInv, NEW n \in Node, Consume(n), UNCHANGED programme
    PROVE  BarrierInv'
<1>1. /\ UNCHANGED <<epoch, origin, handoff, barrier, phase, scene, lastHost, snapshot, acks,
                     transition, releases, stage, loads, failed, sent, programme>>
      /\ cursor' = [cursor EXCEPT ![n] = @ + 1]
      /\ stage[n] \in {"frontend", "loading", "racing", "results"}
  BY DEF Consume, stateVars, doneVars
<1>2. TypeOK /\ Where(n) /\ HandoffOK(n) /\ BarrierOK(n)
  BY DEF BarrierInv, Local
<1>3. cursor[n] \in Nat /\ cursor'[n] = cursor[n] + 1
      /\ \A m \in Node \ {n} : cursor'[m] = cursor[m]
  BY <1>1, <1>2 DEF TypeOK, Frame
<1>4. TypeOK'
  <2>1. cursor' \in [Node -> Frame]
    BY <1>1, <1>2, <1>3 DEF TypeOK, Frame
  <2> QED
    BY <1>1, <1>2, <2>1 DEF TypeOK
<1>5. handoff[n] # None => cursor[n] < handoff[n].suspend /\ n # Host
  <2> SUFFICES ASSUME handoff[n] # None
               PROVE  cursor[n] < handoff[n].suspend /\ n # Host
    OBVIOUS
  <2>1. handoff[n] \in Handoff
    BY <1>2, Typed
  <2>2. cursor[n] < handoff[n].suspend
    BY <1>3, <2>1, HandoffTyped DEF Consume, Suspended
  <2> QED
    BY <1>2, <1>3, <2>1, <2>2, HandoffTyped DEF HandoffOK
<1>6. Onward
  <2>1. \A m \in Node : epoch[m] \in Int
    BY <1>2, Basics DEF TypeOK, Epoch
  <2> QED
    BY <1>1, <2>1 DEF Onward, Later
<1>7. BoundKept
  BY <1>1, <1>3, <1>5, Basics DEF BoundKept, Bound
<1>8. Local'
  <2>1. Others(n)
    BY <1>1, <1>3 DEF Others, Same
  <2>2. Where(n)'
    <3>1. origin[n] \in Nat
      BY <1>2, Typed
    <3> QED
      BY <1>1, <1>2, <1>3, <3>1 DEF Where, Opened
  <2>3. HandoffOK(n)'
    <3>1. CASE handoff[n] = None
      BY <1>1, <1>2, <3>1 DEF HandoffOK
    <3>2. CASE handoff[n] # None
      <4>1. handoff[n] \in Handoff
        BY <1>2, <3>2, Typed
      <4>2. cursor[n] < handoff[n].suspend /\ handoff[n].suspend \in Nat /\ n # Host
        BY <1>5, <3>2, <4>1, HandoffTyped
      <4>3. ~Opened(n) /\ ~Opened(n)' /\ handoff[n].resume # 0
        BY <1>1, <1>2, <1>3, <3>2, <4>2 DEF Opened, HandoffOK
      <4> QED
        BY <1>1, <1>2, <1>3, <3>2, <4>2, <4>3 DEF HandoffOK
    <3> QED
      BY <3>1, <3>2
  <2>4. BarrierOK(n)' /\ (n \in Guests => LastOK(n)')
    BY <1>1, <1>2 DEF BarrierOK, LastOK, Adopting, BarrierInv, Local
  <2> QED
    BY <2>1, <2>2, <2>3, <2>4, LocalKept DEF BarrierInv
<1>9. Order' /\ Collected' /\ OneFinish'
  BY <1>1 DEF BarrierInv, Order, Collected, OneFinish, Ran, Installed, Announced
<1>10. Told'
  BY <1>1, <1>2, <1>4, <1>6, <1>7, ToldKept DEF BarrierInv
<1>11. Finishing'
  BY <1>1 DEF BarrierInv, Finishing, TransitionOK, ReleaseOK, Ran, Sealed, Announced
<1>12. Frames'
  <2>1. \A m, k \in Node : epoch'[m] = epoch'[k] => origin'[m] = origin'[k]
    BY <1>1 DEF BarrierInv, Frames
  <2>2. ASSUME NEW g \in Guests
        PROVE  /\ cursor'[g] <= Committed(g)'
               /\ cursor'[Host] <= Lead + (IF epoch[g] = epoch[Host] THEN cursor'[g] ELSE origin[Host])
    <3>1. /\ cursor[g] <= Committed(g)
          /\ cursor[Host] <= Lead + (IF epoch[g] = epoch[Host] THEN cursor[g] ELSE origin[Host])
      BY DEF BarrierInv, Frames
    <3>2. cursor[g] \in Nat /\ cursor[Host] \in Nat /\ origin[Host] \in Nat /\ Lead \in Nat
          /\ g # Host /\ g \in Node /\ Host \in Node
      BY <1>2, Typed, Basics
    <3>3. CASE n = Host
      <4>1. cursor[Host] < Lead + (IF epoch[g] = epoch[Host] THEN cursor[g] ELSE origin[Host])
        BY <3>3 DEF Consume, MayLead
      <4>2. cursor'[g] = cursor[g] /\ cursor'[Host] = cursor[Host] + 1
        BY <1>3, <3>2, <3>3
      <4> QED
        BY <1>1, <3>1, <3>2, <4>1, <4>2 DEF Committed
    <3>4. CASE n = g
      <4>1. cursor[g] < Committed(g)
        BY <3>2, <3>4 DEF Consume
      <4>2. cursor'[g] = cursor[g] + 1 /\ cursor'[Host] = cursor[Host]
        BY <1>3, <3>2, <3>4
      <4> QED
        BY <1>1, <3>1, <3>2, <4>1, <4>2 DEF Committed
    <3>5. CASE n # Host /\ n # g
      BY <1>1, <1>3, <3>1, <3>2, <3>5 DEF Committed
    <3> QED
      BY <3>3, <3>4, <3>5
  <2>3. ASSUME NEW g \in Guests, handoff[g] # None, handoff[g].resume # 0, ~Opened(g)
        PROVE  Bound(handoff[g].current, handoff[g].boundary)'
    <3>1. Bound(handoff[g].current, handoff[g].boundary)
      BY <2>3 DEF BarrierInv, Frames
    <3>2. handoff[g].current \in 1..Scenes /\ handoff[g].boundary \in Nat
      BY <2>3, Facts, Basics
    <3> QED
      BY <1>1, <1>7, <3>1, <3>2 DEF BoundKept, Bound
  <2> QED
    BY <1>1, <2>1, <2>2, <2>3 DEF Frames, Opened
<1> QED
  BY <1>1, <1>4, <1>8, <1>9, <1>10, <1>11, <1>12 DEF BarrierInv

(* A step of n that opens no epoch, begins no load and releases nobody. *)
Quiet(n) ==
    /\ Others(n) /\ failed' = failed
    /\ UNCHANGED <<cursor, epoch, origin, handoff, loads>>
    /\ Opened(n)' <=> Opened(n)
    /\ Later(stage[n], stage'[n])
    /\ stage'[n] \in RunStages <=> stage[n] \in RunStages
    /\ n = Host /\ stage'[n] = "go" =>
         stage[n] = "go" \/ \A g \in Guests : Installed(g, loads[Host])
    /\ sent \subseteq sent'

LEMMA QuietOnward ==
    ASSUME BarrierInv, NEW n \in Node, Quiet(n)
    PROVE  Onward /\ BoundKept
<1>1. \A m \in Node : epoch[m] \in Int
  BY Facts
<1>2. \A m \in Node \ {n} : stage'[m] = stage[m]
  BY DEF Quiet, Others, Same
<1> QED
  BY <1>1, <1>2 DEF Quiet, Onward, Later, BoundKept, Bound

LEMMA QuietKeeps ==
    ASSUME BarrierInv, TypeOK', NEW n \in Node, Quiet(n),
           Where(n)', HandoffOK(n)', BarrierOK(n)', n \in Guests => LastOK(n)',
           \A m \in sent' \ sent : Says(m)'
    PROVE  failed' = {} /\ Local' /\ Order' /\ Frames' /\ Told'
<1>1. TypeOK /\ Local /\ Order /\ Frames /\ Told /\ failed = {}
  BY DEF BarrierInv
<1>2. Onward /\ BoundKept
  BY QuietOnward
<1>3. Local'
  BY <1>1, LocalKept DEF Quiet
<1>4. Told'
  BY <1>1, <1>2, ToldKept DEF Quiet
<1>5. \A m \in Node \ {n} : /\ stage'[m] = stage[m] /\ barrier'[m] = barrier[m]
                            /\ Opened(m)' <=> Opened(m)
  BY DEF Quiet, Others, Same, Opened
<1>6. Order'
  <2>1. \A m \in Node : /\ loads'[m] = loads[m] /\ epoch'[m] = epoch[m]
                        /\ stage'[m] \in RunStages <=> stage[m] \in RunStages
    BY <1>5 DEF Quiet
  <2>2. stage'[Host] = "go" => \/ stage[Host] \in RunStages \cup {"go"}
                               \/ \A g \in Guests : Installed(g, loads[Host])
    BY <1>5, Basics DEF Quiet
  <2> QED
    BY <1>1, <1>2, <2>1, <2>2, OrderKept
<1>7. Frames'
  <2>1. ASSUME NEW g \in Guests, handoff'[g] # None, ~Opened(g)'
        PROVE  /\ handoff'[g] = handoff[g] /\ ~Opened(g)
               /\ handoff[g].current \in 1..Scenes /\ handoff[g].boundary \in Nat
    <3>1. handoff'[g] = handoff[g] /\ g \in Node
      BY Basics DEF Quiet
    <3>2. ~Opened(g)
      BY <1>5, <2>1, <3>1 DEF Quiet
    <3> QED
      BY <2>1, <3>1, <3>2, Facts
  <2>2. UNCHANGED inputVars
    BY DEF Quiet, inputVars
  <2> QED
    BY <1>1, <1>2, <2>1, <2>2, FramesKept
<1> QED
  BY <1>1, <1>3, <1>4, <1>6, <1>7 DEF Quiet

(* The finish barrier, when a step neither seals nor shows results. *)
LEMMA FinishingKept ==
    ASSUME BarrierInv, TypeOK', Onward, sent \subseteq sent',
           \A n \in Node :
             \/ transition'[n] = None /\ stage'[n] # "sealing"
             \/ /\ transition'[n] = transition[n] /\ scene'[n] = scene[n]
                /\ stage'[n] = "sealing" => stage[n] = "sealing" \/ transition[n] # None,
           \A n \in Node : stage'[n] = "results" =>
               stage[n] = "results" /\ loads'[n] = loads[n],
           \A r \in releases'[Host] \ releases[Host] : ReleaseOK(r)'
    PROVE  Finishing'
<1>1. TypeOK /\ Finishing
  BY DEF BarrierInv
<1>2. \A n \in Node : TransitionOK(n)'
  BY <1>1, TransitionKept DEF Finishing
<1>3. \A m, n \in Node : stage'[n] = "results" => Sealed(m, loads[n])'
  BY <1>1, ResultsKept
<1>4. \A r \in releases'[Host] : ReleaseOK(r)'
  BY <1>1, ReleasesKept
<1> QED
  BY <1>2, <1>3, <1>4 DEF Finishing

LEMMA ReachFinishKeeps ==
    ASSUME BarrierInv, NEW n \in Node, ReachFinish(n), UNCHANGED programme
    PROVE  BarrierInv'
<1>1. /\ UNCHANGED <<cursor, epoch, origin, handoff, barrier, phase, scene, lastHost, snapshot, acks,
                     transition, releases, loads, failed, sent, programme>>
      /\ stage' = [stage EXCEPT ![n] = "finish"]
      /\ stage[n] = "racing" /\ cursor[n] > origin[n]
  BY DEF ReachFinish, inputVars, stateVars, doneVars
<1>2. TypeOK /\ Where(n) /\ HandoffOK(n) /\ BarrierOK(n) /\ (n \in Guests => LastOK(n))
      /\ cursor[n] \in Nat /\ origin[n] \in Nat
  BY Facts
<1>3. stage'[n] = "finish" /\ \A m \in Node \ {n} : stage'[m] = stage[m]
  BY <1>1, <1>2 DEF TypeOK
<1>4. TypeOK'
  <2>1. stage' \in [Node -> Stage]
    BY <1>1, <1>2 DEF TypeOK, Stage
  <2> QED
    BY <1>1, <1>2, <2>1 DEF TypeOK
<1>5. Quiet(n)
  BY <1>1, <1>3 DEF Quiet, Others, Same, Opened, Later, RunStages
<1>6. Where(n)' /\ HandoffOK(n)' /\ BarrierOK(n)' /\ (n \in Guests => LastOK(n)')
  <2>1. Where(n)'
    BY <1>1, <1>2, <1>3 DEF Where, Opened, RunStages
  <2>2. HandoffOK(n)'
    BY <1>1, <1>2, <1>3 DEF HandoffOK, Opened, RunStages
  <2>3. BarrierOK(n)' /\ (n \in Guests => LastOK(n)')
    BY <1>1, <1>2, <1>3 DEF BarrierOK, LastOK, Adopting, RunStages
  <2> QED
    BY <2>1, <2>2, <2>3
<1>7. failed' = {} /\ Local' /\ Order' /\ Frames' /\ Told'
  BY <1>1, <1>4, <1>5, <1>6, QuietKeeps
<1>8. Onward
  BY <1>5, QuietOnward
<1>9. Collected'
  BY <1>1, <1>2, <1>3, <1>4, <1>8, CollectedKept DEF BarrierInv, Collected
<1>10. Finishing'
  BY <1>1, <1>3, <1>4, <1>8, FinishingKept
<1>11. OneFinish'
  BY <1>1 DEF BarrierInv, OneFinish, Announced
<1> QED
  BY <1>4, <1>7, <1>9, <1>10, <1>11 DEF BarrierInv

LEMMA LevelReadyKeeps ==
    ASSUME BarrierInv, NEW n \in Node, LevelReady(n), UNCHANGED programme
    PROVE  BarrierInv'
<1>1. /\ UNCHANGED <<cursor, epoch, origin, handoff, lastHost, releases, loads, failed, sent, programme>>
      /\ phase' = [phase EXCEPT ![n] = TRUE]
      /\ scene' = [scene EXCEPT ![n] = @ + 1]
      /\ barrier' = [barrier EXCEPT ![n] = None]
      /\ snapshot' = [snapshot EXCEPT ![n] = None]
      /\ acks' = IF n = Host THEN {} ELSE acks
      /\ transition' = [transition EXCEPT ![n] = None]
      /\ stage' = [stage EXCEPT ![n] = "peers"]
      /\ stage[n] = "loading"
  BY DEF LevelReady, ClearAuthority, inputVars
<1>2. /\ TypeOK /\ Where(n) /\ HandoffOK(n) /\ BarrierOK(n) /\ (n \in Guests => LastOK(n))
      /\ scene[n] \in 0..Scenes /\ loads[n] \in 0..Scenes
  BY Facts
<1>3. /\ stage'[n] = "peers" /\ phase'[n] /\ scene'[n] = scene[n] + 1 /\ barrier'[n] = None
      /\ transition'[n] = None
      /\ \A m \in Node \ {n} : /\ stage'[m] = stage[m] /\ phase'[m] = phase[m]
                               /\ scene'[m] = scene[m] /\ barrier'[m] = barrier[m]
                               /\ transition'[m] = transition[m]
  BY <1>1, <1>2 DEF TypeOK
<1>4. scene'[n] = loads[n] /\ barrier[n] = None
  BY <1>1, <1>2, <1>3 DEF Where, BarrierOK
<1>5. TypeOK'
  <2>1. stage' \in [Node -> Stage] /\ phase' \in [Node -> BOOLEAN]
    BY <1>1, <1>2 DEF TypeOK, Stage
  <2>2. scene' \in [Node -> 0..Scenes]
    <3>1. scene[n] + 1 \in 0..Scenes
      BY <1>2, <1>3, <1>4
    <3> QED
      BY <1>1, <1>2, <3>1 DEF TypeOK
  <2>3. barrier' \in [Node -> Barrier \cup {None}] /\ transition' \in [Node -> Transition \cup {None}]
        /\ snapshot' \in [Node -> Maps \cup {None}] /\ acks' \subseteq Node
    BY <1>1, <1>2 DEF TypeOK
  <2> QED
    BY <1>1, <1>2, <2>1, <2>2, <2>3 DEF TypeOK
<1>6. Quiet(n)
  BY <1>1, <1>3 DEF Quiet, Others, Same, Opened, Later, RunStages
<1>7. Where(n)' /\ HandoffOK(n)' /\ BarrierOK(n)' /\ (n \in Guests => LastOK(n)')
  <2>1. Where(n)'
    BY <1>1, <1>2, <1>3, <1>4 DEF Where, Opened, RunStages
  <2>2. HandoffOK(n)'
    BY <1>1, <1>2, <1>3 DEF HandoffOK, Opened, RunStages
  <2>3. BarrierOK(n)' /\ (n \in Guests => LastOK(n)')
    BY <1>1, <1>2, <1>3, <1>4 DEF BarrierOK, LastOK, Adopting, RunStages
  <2> QED
    BY <2>1, <2>2, <2>3
<1>8. failed' = {} /\ Local' /\ Order' /\ Frames' /\ Told'
  BY <1>1, <1>5, <1>6, <1>7, QuietKeeps
<1>9. Onward
  BY <1>6, QuietOnward
<1>10. Collected'
  <2>1. Collected
    BY DEF BarrierInv
  <2>2. stage'[Host] = "loading" => acks' = {}
    BY <1>1, <1>3, <2>1, Basics DEF Collected
  <2>3. acks' \subseteq acks /\ (acks' # {} => stage'[Host] # "loading")
    BY <1>1, <2>2
  <2> QED
    BY <1>1, <1>2, <1>3, <1>5, <1>9, <2>1, <2>2, <2>3, CollectedKept
<1>11. Finishing'
  BY <1>1, <1>3, <1>5, <1>9, FinishingKept
<1>12. OneFinish'
  BY <1>1 DEF BarrierInv, OneFinish, Announced
<1> QED
  BY <1>5, <1>8, <1>10, <1>11, <1>12 DEF BarrierInv

LEMMA EndLevelKeeps ==
    ASSUME BarrierInv, NEW n \in Node, EndLevel(n), UNCHANGED programme
    PROVE  BarrierInv'
<1> DEFINE t == IF n = Host /\ transition[n] # None /\ transition[n].resumed
                THEN transition[n] ELSE None
<1>1. /\ UNCHANGED <<cursor, epoch, origin, handoff, scene, lastHost, releases, loads, failed,
                     sent, programme>>
      /\ phase' = [phase EXCEPT ![n] = FALSE]
      /\ barrier' = [barrier EXCEPT ![n] = None]
      /\ snapshot' = [snapshot EXCEPT ![n] = None]
      /\ acks' = IF n = Host THEN {} ELSE acks
      /\ stage' = [stage EXCEPT ![n] = "frontend"]
      /\ stage[n] \in {"racing", "results"}
  BY DEF EndLevel, EndAuthority, ClearAuthority, inputVars
<1>2. /\ TypeOK /\ Where(n) /\ HandoffOK(n) /\ BarrierOK(n) /\ (n \in Guests => LastOK(n))
      /\ scene[n] \in 0..Scenes /\ loads[n] \in 0..Scenes
  BY Facts
<1>t. transition' = [transition EXCEPT ![n] = t]
  BY <1>2 DEF EndLevel, EndAuthority, TypeOK
<1>3. /\ stage'[n] = "frontend" /\ ~phase'[n] /\ barrier'[n] = None
      /\ transition'[n] = t
      /\ \A m \in Node \ {n} : /\ stage'[m] = stage[m] /\ phase'[m] = phase[m]
                               /\ barrier'[m] = barrier[m]
                               /\ transition'[m] = transition[m]
  BY <1>1, <1>2, <1>t DEF TypeOK
<1>5. TypeOK'
  <2>1. stage' \in [Node -> Stage] /\ phase' \in [Node -> BOOLEAN]
    BY <1>1, <1>2 DEF TypeOK, Stage
  <2>2. transition' \in [Node -> Transition \cup {None}]
    BY <1>2, <1>t DEF TypeOK
  <2>3. barrier' \in [Node -> Barrier \cup {None}]
        /\ snapshot' \in [Node -> Maps \cup {None}] /\ acks' \subseteq Node
    BY <1>1, <1>2 DEF TypeOK
  <2> QED
    BY <1>1, <1>2, <2>1, <2>2, <2>3 DEF TypeOK
<1>6. Quiet(n)
  BY <1>1, <1>3 DEF Quiet, Others, Same, Opened, Later, RunStages
<1>7. Where(n)' /\ HandoffOK(n)' /\ BarrierOK(n)' /\ (n \in Guests => LastOK(n)')
  <2>1. Where(n)'
    BY <1>1, <1>2, <1>3 DEF Where, Opened, RunStages
  <2>2. HandoffOK(n)'
    BY <1>1, <1>2, <1>3 DEF HandoffOK, Opened, RunStages
  <2>3. BarrierOK(n)' /\ (n \in Guests => LastOK(n)')
    BY <1>1, <1>2, <1>3 DEF BarrierOK, LastOK, Adopting, RunStages
  <2> QED
    BY <2>1, <2>2, <2>3
<1>8. failed' = {} /\ Local' /\ Order' /\ Frames' /\ Told'
  BY <1>1, <1>5, <1>6, <1>7, QuietKeeps
<1>9. Onward
  BY <1>6, QuietOnward
<1>10. Collected'
  <2>1. Collected
    BY DEF BarrierInv
  <2>2. stage'[Host] = "loading" => acks' = {}
    BY <1>1, <1>3, <2>1, Basics DEF Collected
  <2>3. acks' \subseteq acks /\ (acks' # {} => stage'[Host] # "loading")
    BY <1>1, <2>2
  <2> QED
    BY <1>1, <1>2, <1>3, <1>5, <1>9, <2>1, <2>2, <2>3, CollectedKept
<1>11. Finishing'
  BY <1>1, <1>3, <1>5, <1>9, FinishingKept
<1>12. OneFinish'
  BY <1>1 DEF BarrierInv, OneFinish, Announced
<1> QED
  BY <1>5, <1>8, <1>10, <1>11, <1>12 DEF BarrierInv

LEMMA BeginSealKeeps ==
    ASSUME BarrierInv, NEW n \in Node, BeginSeal(n), UNCHANGED programme
    PROVE  BarrierInv'
<1> DEFINE t == [scene |-> scene[Host], frame |-> cursor[Host] - 1, acks |-> {Host}, resumed |-> FALSE]
           b == Finish("Begin", Host, scene[Host], cursor[Host] - 1)
<1>1. /\ TypeOK /\ Where(n) /\ HandoffOK(n) /\ BarrierOK(n) /\ (n \in Guests => LastOK(n))
      /\ TransitionOK(n)
      /\ scene[n] \in 0..Scenes /\ loads[n] \in 0..Scenes /\ cursor[n] \in Nat
  BY Facts
<1>2. /\ UNCHANGED <<cursor, epoch, origin, handoff, barrier, phase, scene, lastHost, releases, loads,
                     failed, programme>>
      /\ snapshot' = [snapshot EXCEPT ![n] = None]
      /\ acks' = IF n = Host THEN {} ELSE acks
      /\ stage' = [stage EXCEPT ![n] = "sealing"]
      /\ stage[n] = "finish"
      /\ n = Host => /\ transition' = [transition EXCEPT ![Host] = t]
                     /\ sent' = sent \cup {b}
      /\ n # Host => transition[n] # None /\ UNCHANGED <<transition, sent>>
  <2>1. n # Host => transition[n] # None /\ transition[n].scene = scene[n]
    BY <1>1 DEF BeginSeal, TransitionOK
  <2> QED
    BY <2>1 DEF BeginSeal, inputVars
<1>3. /\ stage'[n] = "sealing"
      /\ \A m \in Node \ {n} : stage'[m] = stage[m] /\ transition'[m] = transition[m]
      /\ n = Host => transition'[n] = t
      /\ n # Host => transition'[n] = transition[n]
  BY <1>1, <1>2 DEF TypeOK
<1>4. scene[n] = loads[n] /\ loads[n] \in 1..Scenes /\ cursor[n] - 1 \in Nat
  BY <1>1, <1>2 DEF Where
<1>s. n = Host => t \in Transition
  BY <1>4, Basics DEF Transition, Frame
<1>5. TypeOK'
  <2>1. stage' \in [Node -> Stage]
    BY <1>1, <1>2 DEF TypeOK, Stage
  <2>2. transition' \in [Node -> Transition \cup {None}]
    <3>1. CASE n = Host
      BY <1>1, <1>2, <1>s, <3>1 DEF TypeOK
    <3>2. CASE n # Host
      BY <1>1, <1>2, <3>2 DEF TypeOK
    <3> QED
      BY <3>1, <3>2
  <2>3. snapshot' \in [Node -> Maps \cup {None}] /\ acks' \subseteq Node
    BY <1>1, <1>2 DEF TypeOK
  <2> QED
    BY <1>1, <1>2, <2>1, <2>2, <2>3 DEF TypeOK
<1>6. Quiet(n)
  <2>1. sent \subseteq sent'
    BY <1>2
  <2> QED
    BY <1>2, <1>3, <2>1 DEF Quiet, Others, Same, Opened, Later, RunStages
<1>7. Where(n)' /\ HandoffOK(n)' /\ BarrierOK(n)' /\ (n \in Guests => LastOK(n)')
  <2>1. Where(n)'
    BY <1>1, <1>2, <1>3 DEF Where, Opened, RunStages
  <2>2. HandoffOK(n)'
    BY <1>1, <1>2, <1>3 DEF HandoffOK, Opened, RunStages
  <2>3. BarrierOK(n)' /\ (n \in Guests => LastOK(n)')
    BY <1>1, <1>2, <1>3 DEF BarrierOK, LastOK, Adopting, RunStages
  <2> QED
    BY <2>1, <2>2, <2>3
<1>8. ASSUME NEW m \in sent' \ sent PROVE Says(m)'
  <2>1. /\ n = Host /\ m = [type |-> "Begin", slot |-> Host, scene |-> scene[Host],
                            frame |-> cursor[Host] - 1]
    BY <1>2 DEF Finish
  <2>2. Announced(m.scene, m.frame)'
    BY <1>2, <2>1 DEF Announced, Finish
  <2>3. Sealed(Host, m.scene)'
    BY <1>2, <1>3, <1>4, <2>1 DEF Sealed
  <2>4. m.scene \in 1..Scenes /\ m.frame \in Nat /\ m.type = "Begin" /\ m.slot = Host
    BY <1>4, <2>1
  <2> QED
    BY <2>2, <2>3, <2>4, Basics DEF Says
<1>9. failed' = {} /\ Local' /\ Order' /\ Frames' /\ Told'
  BY <1>5, <1>6, <1>7, <1>8, QuietKeeps
<1>10. Onward /\ sent \subseteq sent'
  BY <1>6, QuietOnward DEF Quiet
<1>11. Collected'
  <2>1. Collected
    BY DEF BarrierInv
  <2>2. stage'[Host] = "loading" => acks' = {}
    BY <1>2, <1>3, <2>1, Basics DEF Collected
  <2>3. acks' \subseteq acks /\ (acks' # {} => stage'[Host] # "loading")
    BY <1>2, <2>2
  <2> QED
    BY <1>1, <1>2, <1>3, <1>5, <1>10, <2>1, <2>2, <2>3, CollectedKept
<1>12. Finishing'
  <2>1. \A m \in Node \ {n} : TransitionOK(m)'
    BY <1>1, <1>2, <1>3, <1>5, <1>10, TransitionKept DEF BarrierInv, Finishing
  <2>2. TransitionOK(n)'
    <3>1. CASE n = Host
      <4>1. Finish("Begin", Host, scene[n], t.frame) \in sent'
        BY <1>2, <3>1
      <4>2. transition'[n] = t /\ t.scene = scene[n] /\ t.resumed = FALSE /\ t.acks = {Host}
            /\ scene'[n] = scene[n] /\ scene[n] \in 1..Scenes
        BY <1>2, <1>3, <1>4, <3>1
      <4>3. transition'[n] # None
        BY <1>3, <1>s, <3>1, Basics
      <4> HIDE DEF t
      <4> QED
        BY <4>1, <4>2, <4>3 DEF TransitionOK, Announced
    <3>2. CASE n # Host
      BY <1>1, <1>2, <1>3, <1>5, <1>10, <3>2, TransitionKept
    <3> QED
      BY <3>1, <3>2
  <2>3. \A m, k \in Node : stage'[k] = "results" => Sealed(m, loads[k])'
    BY <1>1, <1>2, <1>3, <1>5, <1>10, ResultsKept DEF BarrierInv
  <2>4. \A r \in releases'[Host] : ReleaseOK(r)'
    BY <1>1, <1>2, <1>5, <1>10, ReleasesKept DEF BarrierInv
  <2> QED
    BY <2>1, <2>2, <2>3, <2>4 DEF Finishing
<1>13. OneFinish'
  <2>1. CASE n # Host
    BY <1>2, <2>1 DEF BarrierInv, OneFinish, Announced
  <2>2. CASE n = Host
    <3>1. ASSUME NEW f \in Nat, Announced(scene[Host], f) PROVE FALSE
      <4> DEFINE m == Finish("Begin", Host, scene[Host], f)
      <4>1. Says(m) /\ m.type = "Begin" /\ m.scene = scene[Host]
        BY <3>1 DEF BarrierInv, Told, Announced, Finish
      <4> HIDE DEF m
      <4>2. Sealed(Host, scene[Host])
        BY <4>1 DEF Says
      <4> QED
        BY <1>1, <1>2, <1>4, <2>2, <4>2 DEF Sealed
    <3>2. ASSUME NEW s \in Nat, NEW f \in Nat, Announced(s, f)'
          PROVE  Announced(s, f) \/ (s = scene[Host] /\ f = cursor[Host] - 1)
      <4>1. Finish("Begin", Host, s, f) \in sent \/ Finish("Begin", Host, s, f) = b
        BY <1>2, <2>2, <3>2 DEF Announced
      <4> QED
        BY <4>1 DEF Finish, Announced
    <3> QED
      BY <3>1, <3>2 DEF BarrierInv, OneFinish
  <2> QED
    BY <2>1, <2>2
<1> QED
  BY <1>5, <1>9, <1>11, <1>12, <1>13 DEF BarrierInv

LEMMA PollTransitionKeeps ==
    ASSUME BarrierInv, NEW n \in Node, PollTransition(n), UNCHANGED programme
    PROVE  BarrierInv'
<1> DEFINE old == transition[n]
           t == [old EXCEPT !.acks = @ \cup {n}, !.resumed = @ \/ (n = Host /\ old.acks = Node)]
           type == IF n # Host THEN "Acknowledge" ELSE IF t.resumed THEN "Resume" ELSE "Begin"
<1>1. /\ TypeOK /\ Where(n) /\ HandoffOK(n) /\ BarrierOK(n) /\ (n \in Guests => LastOK(n))
      /\ TransitionOK(n) /\ scene[n] \in 0..Scenes /\ loads[n] \in 0..Scenes
      /\ transition[n] # None => transition[n] \in Transition
  BY Facts
<1>2. stage[n] = "sealing" /\ old \in Transition /\ old.scene = scene[n]
      /\ Announced(scene[n], old.frame) /\ scene[n] = loads[n] /\ scene[n] \in 1..Scenes
  BY <1>1 DEF PollTransition, TransitionOK, Where
<1>3. /\ old.scene \in 1..Scenes /\ old.frame \in Nat /\ old.acks \in SUBSET Node
      /\ old.resumed \in BOOLEAN
  BY <1>2 DEF Transition, Frame
<1>4. /\ t \in Transition /\ t.scene = scene[n] /\ t.frame = old.frame
      /\ t.acks = old.acks \cup {n}
      /\ t.resumed <=> old.resumed \/ (n = Host /\ old.acks = Node)
  <2> DEFINE t1 == [old EXCEPT !.acks = @ \cup {n}]
             r == old.resumed \/ (n = Host /\ old.acks = Node)
  <2>1. t1 \in Transition /\ t1.scene = old.scene /\ t1.frame = old.frame
        /\ t1.acks = old.acks \cup {n} /\ t1.resumed = old.resumed
    BY <1>2, <1>3 DEF Transition
  <2>2. t = [t1 EXCEPT !.resumed = r]
    BY <1>2 DEF Transition
  <2>3. r \in BOOLEAN
    BY <1>3
  <2> HIDE DEF t1, r, t
  <2>4. t \in Transition /\ t.scene = t1.scene /\ t.frame = t1.frame /\ t.acks = t1.acks
        /\ t.resumed = r
    BY <2>1, <2>2, <2>3 DEF Transition
  <2> QED
    BY <1>2, <2>1, <2>4 DEF r
<1>5. t.resumed => \A m \in Node : Sealed(m, scene[n])
  <2>1. CASE old.resumed
    BY <1>1, <1>2, <2>1 DEF TransitionOK
  <2>2. CASE n = Host /\ old.acks = Node
    <3>1. Sealed(Host, scene[n])
      BY <1>2, <2>2 DEF Sealed
    <3>2. \A g \in Node \ {Host} : Sealed(g, scene[n])
      BY <1>1, <1>2, <2>2 DEF TransitionOK
    <3> QED
      BY <3>1, <3>2
  <2> QED
    BY <1>4, <2>1, <2>2
<1>6. /\ UNCHANGED <<cursor, epoch, origin, handoff, barrier, scene, lastHost, acks, loads, failed,
                     programme>>
      /\ transition' = [transition EXCEPT ![n] = t]
      /\ t.resumed => /\ releases' = [releases EXCEPT ![n] = @ \cup {<<"finish", scene[n], t.frame>>}]
                      /\ phase' = [phase EXCEPT ![n] = FALSE]
                      /\ snapshot' = [snapshot EXCEPT ![n] = None]
                      /\ stage' = [stage EXCEPT ![n] = "results"]
      /\ ~t.resumed => UNCHANGED <<releases, phase, snapshot, stage>>
      /\ sent' = IF t.resumed /\ n # Host THEN sent
                 ELSE sent \cup {Finish(type, n, scene[n], t.frame)}
  BY <1>2 DEF PollTransition, inputVars, Remember
<1> HIDE DEF t
<1>7. /\ transition'[n] = t /\ transition'[n] # None
      /\ \A m \in Node \ {n} : /\ stage'[m] = stage[m] /\ transition'[m] = transition[m]
                               /\ phase'[m] = phase[m]
      /\ t.resumed => stage'[n] = "results" /\ ~phase'[n]
      /\ ~t.resumed => stage'[n] = "sealing" /\ phase'[n] = phase[n]
  <2>1. /\ transition'[n] = t /\ transition'[n] # None
        /\ \A m \in Node \ {n} : transition'[m] = transition[m]
    BY <1>1, <1>4, <1>6, Basics DEF TypeOK
  <2>2. CASE t.resumed
    BY <1>1, <1>6, <2>1, <2>2 DEF TypeOK
  <2>3. CASE ~t.resumed
    BY <1>2, <1>6, <2>1, <2>3
  <2> QED
    BY <2>2, <2>3
<1>8. TypeOK'
  <2>1. transition' \in [Node -> Transition \cup {None}]
    BY <1>1, <1>4, <1>6 DEF TypeOK
  <2>2. /\ stage' \in [Node -> Stage] /\ phase' \in [Node -> BOOLEAN]
        /\ snapshot' \in [Node -> Maps \cup {None}]
    BY <1>1, <1>6 DEF TypeOK, Stage
  <2>3. releases' \in [Node -> SUBSET (({"gameplay"} \X (1..Scenes) \X Maps)
                                \cup ({"finish"} \X (1..Scenes) \X Frame))]
    <3>1. <<"finish", scene[n], t.frame>> \in {"finish"} \X (1..Scenes) \X Frame
      BY <1>2, <1>3, <1>4 DEF Frame
    <3> QED
      BY <1>1, <1>6, <3>1 DEF TypeOK
  <2> QED
    BY <1>1, <1>6, <2>1, <2>2, <2>3 DEF TypeOK
<1>9. Quiet(n)
  <2>1. sent \subseteq sent'
    BY <1>6
  <2>2. stage'[n] \in {"sealing", "results"}
    BY <1>7
  <2>3. Others(n)
    BY <1>6, <1>7 DEF Others, Same
  <2> QED
    BY <1>2, <1>6, <2>1, <2>2, <2>3 DEF Quiet, Opened, Later, RunStages
<1>10. Onward /\ sent \subseteq sent'
  BY <1>9, QuietOnward DEF Quiet
<1>11. Where(n)' /\ HandoffOK(n)' /\ BarrierOK(n)' /\ (n \in Guests => LastOK(n)')
  <2>0. stage'[n] \in {"sealing", "results"} /\ (stage'[n] = "results" <=> t.resumed)
    BY <1>7
  <2>1. Where(n)'
    <3>1. phase'[n] <=> stage'[n] \notin {"loading", "results", "frontend"}
      BY <1>1, <1>2, <1>7 DEF Where
    <3> QED
      BY <1>1, <1>2, <1>6, <2>0, <3>1 DEF Where, Opened, RunStages
  <2>2. HandoffOK(n)'
    BY <1>1, <1>2, <1>6, <2>0 DEF HandoffOK, Opened, RunStages
  <2>3. BarrierOK(n)' /\ (n \in Guests => LastOK(n)')
    BY <1>1, <1>2, <1>6, <2>0 DEF BarrierOK, LastOK, Adopting, RunStages
  <2> QED
    BY <2>1, <2>2, <2>3
<1>12. ASSUME NEW m \in sent' \ sent
       PROVE  Says(m)' /\ m.type # "Begin"
  <2>1. m = [type |-> type, slot |-> n, scene |-> scene[n], frame |-> t.frame]
        /\ ~(t.resumed /\ n # Host)
    BY <1>6 DEF Finish
  <2>2. type # "Begin"
    BY <1>2, <1>4, <2>1 DEF Announced, Finish
  <2>3. m.scene \in 1..Scenes /\ m.frame \in Nat /\ m.type = type /\ m.slot = n
        /\ m.scene = scene[n] /\ m.frame = old.frame
    BY <1>2, <1>3, <1>4, <2>1
  <2>4. Announced(m.scene, m.frame)'
    BY <1>2, <1>10, <2>3 DEF Announced
  <2>5. type = "Acknowledge" => Sealed(m.slot, m.scene)'
    BY <1>2, <1>6, <1>7, <2>3 DEF Sealed
  <2>6. type = "Resume" => \A k \in Node : Sealed(k, m.scene)'
    <3> SUFFICES ASSUME type = "Resume", NEW k \in Node PROVE Sealed(k, m.scene)'
      OBVIOUS
    <3>1. Sealed(k, m.scene)
      BY <1>5, <2>2, <2>3
    <3> QED
      BY <1>1, <1>8, <1>10, <2>3, <3>1, OnwardKeeps
  <2> QED
    BY <2>2, <2>3, <2>4, <2>5, <2>6 DEF Says
<1>13. failed' = {} /\ Local' /\ Order' /\ Frames' /\ Told'
  BY <1>8, <1>9, <1>11, <1>12, QuietKeeps
<1>14. Collected'
  <2>1. Collected
    BY DEF BarrierInv
  <2>2. stage'[Host] = "loading" => stage[Host] = "loading"
    BY <1>2, <1>7, Basics
  <2> QED
    BY <1>1, <1>6, <1>8, <1>10, <2>1, <2>2, CollectedKept DEF Collected
<1>15. Finishing'
  <2>1. \A m \in Node \ {n} : TransitionOK(m)'
    BY <1>1, <1>6, <1>7, <1>8, <1>10, TransitionKept DEF BarrierInv, Finishing
  <2>2. ASSUME NEW m \in Node, Sealed(m, scene[n]) PROVE Sealed(m, scene[n])'
    <3>1. loads[m] \in Int /\ loads'[m] = loads[m] /\ Later(stage[m], stage'[m])
      BY <1>6, <1>10, Facts DEF Onward
    <3> QED
      BY <1>6, <2>2, <3>1 DEF Sealed, Later
  <2>3. TransitionOK(n)'
    <3>1. Announced(scene[n], transition[n].frame)'
      BY <1>2, <1>4, <1>6, <1>7, <1>10 DEF Announced
    <3>2. t.resumed => \A m \in Node : Sealed(m, scene[n])'
      BY <1>5, <2>2
    <3>3. n = Host => \A g \in t.acks \ {Host} : Sealed(g, scene[n])'
      BY <1>1, <1>2, <1>3, <1>4, <2>2 DEF TransitionOK
    <3>4. scene'[n] = scene[n]
      BY <1>6
    <3> QED
      BY <1>2, <1>4, <1>7, <3>1, <3>2, <3>3, <3>4 DEF TransitionOK
  <2>4. ASSUME NEW m \in Node, NEW k \in Node, stage'[k] = "results" PROVE Sealed(m, loads[k])'
    <3>1. CASE k = n
      <4>1. Sealed(m, scene[n])'
        BY <1>5, <1>7, <2>2, <2>4, <3>1
      <4>2. loads'[n] = scene'[n]
        BY <1>2, <1>6
      <4> QED
        BY <3>1, <4>1, <4>2 DEF Sealed
    <3>2. CASE k # n
      <4>1. Sealed(m, loads[k])
        BY <1>7, <2>4, <3>2 DEF BarrierInv, Finishing
      <4>2. loads[m] \in Int /\ loads'[m] = loads[m] /\ Later(stage[m], stage'[m])
        BY <1>6, <1>10, Facts DEF Onward
      <4> QED
        BY <1>6, <4>1, <4>2 DEF Sealed, Later
    <3> QED
      BY <3>1, <3>2
  <2>5. \A r \in releases'[Host] : ReleaseOK(r)'
    <3>1. ASSUME NEW r \in releases'[Host] \ releases[Host] PROVE ReleaseOK(r)'
      <4>1. t.resumed /\ n = Host /\ r = <<"finish", scene[n], t.frame>>
        <5>1. t.resumed
          BY <1>6, <3>1
        <5>2. n = Host
          BY <1>1, <1>6, <3>1, <5>1, Basics DEF TypeOK
        <5> QED
          BY <1>1, <1>6, <3>1, <5>1, <5>2 DEF TypeOK
      <4>2. r[1] = "finish" /\ r[2] = scene[n] /\ r[3] = t.frame
        BY <4>1
      <4>3. \A m \in Node : Sealed(m, r[2])'
        <5>1. \A m \in Node : Sealed(m, scene[n])'
          BY <1>5, <2>2, <4>1
        <5> QED
          BY <1>6, <4>2, <5>1 DEF Sealed
      <4>4. Announced(r[2], r[3])'
        BY <1>2, <1>4, <1>10, <4>2 DEF Announced
      <4> QED
        BY <4>2, <4>3, <4>4 DEF ReleaseOK
    <3> QED
      BY <1>1, <1>8, <1>10, <3>1, ReleasesKept DEF BarrierInv
  <2> QED
    BY <2>1, <2>3, <2>4, <2>5 DEF Finishing
<1>16. OneFinish'
  BY <1>12, OneFinishKept DEF BarrierInv
<1> QED
  BY <1>8, <1>13, <1>14, <1>15, <1>16 DEF BarrierInv

(* A machine that has built its track and waits for the others. *)
LEMMA PolledFacts ==
    ASSUME BarrierInv, NEW n \in Node, stage[n] = "peers"
    PROVE  /\ InHandoff(n)
           /\ loads[n] \in 1..Scenes /\ scene[n] = loads[n] /\ MapOf[loads[n]] \in Maps
           /\ Polled(n) \in Barrier
           /\ Polled(n).scene = loads[n] /\ Polled(n).map = MapOf[loads[n]]
           /\ Polled(n).arm = FALSE /\ Polled(n).go = FALSE /\ n \notin Polled(n).armed
           /\ barrier[n] = None => /\ Polled(n).armed = {} /\ Polled(n).baseline = FALSE
                                   /\ Polled(n).synced = (n = Host)
           /\ barrier[n] # None => /\ Polled(n).armed = barrier[n].armed
                                   /\ Polled(n).baseline = barrier[n].baseline
                                   /\ Polled(n).synced = barrier[n].synced
           /\ n = Host => Polled(n).synced
<1>1. /\ TypeOK /\ Where(n) /\ HandoffOK(n) /\ BarrierOK(n)
      /\ loads[n] \in 0..Scenes /\ epoch[n] \in 1..(Scenes + 1) /\ cursor[n] \in Nat
      /\ barrier[n] # None => barrier[n] \in Barrier
      /\ handoff[n] # None =>
                /\ handoff[n] \in Handoff /\ handoff[n].current \in 1..Scenes
                /\ handoff[n].boundary \in Nat /\ handoff[n].suspend \in Nat
  BY Facts
<1>2. loads[n] \in 1..Scenes /\ scene[n] = loads[n] /\ MapOf[loads[n]] \in Maps
      /\ epoch[n] = loads[n] /\ ~Opened(n) /\ phase[n]
  BY <1>1, MapsOf, Basics DEF Where, Opened, RunStages
<1>3. InHandoff(n)
  <2>1. /\ handoff[n] # None /\ handoff[n].loading /\ handoff[n].current = epoch[n]
        /\ handoff[n].map = MapOf[handoff[n].current]
        /\ cursor[n] <= handoff[n].suspend /\ handoff[n].suspend <= handoff[n].boundary
    BY <1>1, <1>2 DEF HandoffOK, RunStages
  <2> QED
    BY <1>1, <1>2, <2>1 DEF InHandoff
<1>4. CASE barrier[n] = None
  <2> DEFINE b == [scene |-> scene[n], map |-> MapOf[loads[n]], ready |-> {n},
          armed |-> {}, synced |-> n = Host, baseline |-> FALSE,
          arm |-> FALSE, go |-> FALSE]
  <2>1. Polled(n) = b
    BY <1>4 DEF Polled
  <2>2. b \in Barrier
    BY <1>2 DEF Barrier
  <2>3. /\ b.scene = scene[n] /\ b.map = MapOf[loads[n]] /\ b.armed = {}
        /\ b.baseline = FALSE /\ b.arm = FALSE /\ b.go = FALSE
    OBVIOUS
  <2>4. b.synced = (n = Host)
    OBVIOUS
  <2>5. n = Host => b.synced
    BY <2>4
  <2> HIDE DEF b
  <2> QED
    BY <1>2, <1>3, <1>4, <2>1, <2>2, <2>3, <2>4, <2>5
<1>5. CASE barrier[n] # None
  <2>1. Polled(n) = [barrier[n] EXCEPT !.ready = @ \cup {n}] /\ barrier[n] \in Barrier
    BY <1>1, <1>5 DEF Polled
  <2>2. /\ Polled(n) \in Barrier
        /\ Polled(n).scene = barrier[n].scene /\ Polled(n).map = barrier[n].map
        /\ Polled(n).arm = barrier[n].arm /\ Polled(n).go = barrier[n].go
        /\ Polled(n).armed = barrier[n].armed
        /\ Polled(n).baseline = barrier[n].baseline /\ Polled(n).synced = barrier[n].synced
    BY <2>1 DEF Barrier
  <2>3. barrier[n].arm \in BOOLEAN /\ barrier[n].go \in BOOLEAN
    BY <2>1 DEF Barrier
  <2>4. ~barrier[n].arm /\ n \notin barrier[n].armed /\ ~barrier[n].go
    BY <1>1, <1>5 DEF BarrierOK, RunStages
  <2> QED
    BY <1>1, <1>2, <1>3, <1>5, <2>2, <2>3, <2>4 DEF BarrierOK
<1> QED
  BY <1>4, <1>5

LEMMA HostPollReadyKeeps ==
    ASSUME BarrierInv, HostPollReady, UNCHANGED programme
    PROVE  BarrierInv'
<1> DEFINE b == Polled(Host)
           released == b.ready = Node
           c == [b EXCEPT !.baseline = released]
<1>0. Host \in Node
  BY Basics
<1>1. /\ TypeOK /\ Where(Host) /\ HandoffOK(Host) /\ BarrierOK(Host)
  BY <1>0, Facts
<1>2. stage[Host] = "peers"
  BY DEF HostPollReady
<1>3. /\ InHandoff(Host)
      /\ loads[Host] \in 1..Scenes /\ scene[Host] = loads[Host] /\ MapOf[loads[Host]] \in Maps
      /\ b \in Barrier
      /\ b.scene = loads[Host] /\ b.map = MapOf[loads[Host]]
      /\ b.arm = FALSE /\ b.go = FALSE /\ Host \notin b.armed /\ b.synced
      /\ barrier[Host] = None => b.armed = {}
      /\ barrier[Host] # None => b.armed = barrier[Host].armed
  BY <1>0, <1>2, PolledFacts
<1>4. /\ UNCHANGED <<cursor, epoch, origin, handoff, phase, scene, lastHost, transition, releases,
                     loads, failed, programme>>
      /\ barrier' = [barrier EXCEPT ![Host] = c]
      /\ released => /\ snapshot' = [snapshot EXCEPT ![Host] = b.map]
                     /\ acks' = {Host}
                     /\ stage' = [stage EXCEPT ![Host] = "acks"]
                     /\ sent' = sent \cup {Stamp("Baseline", Host, scene[Host], b.map),
                                           Stamp("State", Host, scene[Host], b.map)}
      /\ ~released => /\ UNCHANGED <<snapshot, acks, stage>>
                      /\ sent' = sent \cup {Stamp("Prepare", Host, scene[Host], b.map)}
  BY <1>3 DEF HostPollReady, inputVars, stateVars, doneVars
<1> HIDE DEF b
<1>5. /\ c \in Barrier /\ c.scene = b.scene /\ c.map = b.map /\ c.armed = b.armed
      /\ c.synced = b.synced /\ c.arm = b.arm /\ c.go = b.go /\ (c.baseline <=> released)
  <2>1. released \in BOOLEAN
    OBVIOUS
  <2> HIDE DEF released
  <2> QED
    BY <1>3, <2>1 DEF Barrier
<1> HIDE DEF c, released
<1>6. /\ barrier'[Host] = c /\ c # None
      /\ \A m \in Node \ {Host} : stage'[m] = stage[m] /\ barrier'[m] = barrier[m]
      /\ released => stage'[Host] = "acks"
      /\ ~released => stage'[Host] = "peers"
  BY <1>0, <1>1, <1>2, <1>4, <1>5, Basics DEF TypeOK
<1>7. TypeOK'
  <2>1. barrier' \in [Node -> Barrier \cup {None}]
    BY <1>1, <1>4, <1>5 DEF TypeOK
  <2>2. stage' \in [Node -> Stage] /\ snapshot' \in [Node -> Maps \cup {None}] /\ acks' \subseteq Node
    BY <1>0, <1>1, <1>3, <1>4 DEF TypeOK, Stage
  <2> QED
    BY <1>1, <1>4, <2>1, <2>2 DEF TypeOK
<1>8. Quiet(Host)
  <2>1. sent \subseteq sent'
    BY <1>4
  <2>2. stage'[Host] \in {"acks", "peers"}
    BY <1>6
  <2>3. Others(Host)
    BY <1>4, <1>6 DEF Others, Same
  <2> QED
    BY <1>2, <1>4, <2>1, <2>2, <2>3 DEF Quiet, Opened, Later, RunStages
<1>9. Onward /\ sent \subseteq sent'
  BY <1>0, <1>8, QuietOnward DEF Quiet
<1>10. Where(Host)' /\ HandoffOK(Host)' /\ BarrierOK(Host)'
  <2>1. stage'[Host] \in {"acks", "peers"} /\ (stage'[Host] = "acks" <=> released)
    BY <1>6
  <2>2. Where(Host)'
    BY <1>1, <1>2, <1>4, <2>1 DEF Where, Opened, RunStages
  <2>3. HandoffOK(Host)'
    BY <1>1, <1>2, <1>4, <2>1 DEF HandoffOK, Opened, RunStages
  <2>4. BarrierOK(Host)'
    BY <1>1, <1>2, <1>3, <1>4, <1>5, <1>6, <2>1 DEF BarrierOK, RunStages
  <2> QED
    BY <2>2, <2>3, <2>4
<1>11. ASSUME NEW m \in sent' \ sent PROVE Says(m)' /\ m.type # "Begin"
  <2>1. /\ m.type \in {"Prepare", "Baseline", "State"} /\ m.slot = Host
        /\ m.scene = scene[Host] /\ m.map = b.map
    BY <1>4 DEF Stamp
  <2>2. loads'[Host] >= m.scene
    BY <1>3, <1>4, <2>1
  <2> QED
    BY <1>0, <1>3, <2>1, <2>2 DEF Says
<1>12. failed' = {} /\ Local' /\ Order' /\ Frames' /\ Told'
  BY <1>0, <1>7, <1>8, <1>10, <1>11, QuietKeeps, Basics
<1>13. Collected'
  <2>1. Collected
    BY DEF BarrierInv
  <2>2. stage'[Host] # "loading" /\ acks' \ {Host} \subseteq acks
    BY <1>4, <1>6
  <2>3. \A g \in Guests : barrier'[g] = barrier[g]
    BY <1>6, Basics
  <2>4. \A g \in c.armed : barrier[Host] # None /\ g \in barrier[Host].armed
    BY <1>3, <1>5
  <2> QED
    BY <1>1, <1>4, <1>6, <1>7, <1>9, <2>1, <2>2, <2>3, <2>4, CollectedKept
<1>14. Finishing'
  <2>1. \A n \in Node : stage'[n] = "sealing" \/ stage'[n] = "results" => stage'[n] = stage[n]
    BY <1>6
  <2> QED
    BY <1>4, <1>7, <1>9, <2>1, FinishingKept
<1>15. OneFinish'
  BY <1>11, OneFinishKept DEF BarrierInv
<1> QED
  BY <1>7, <1>12, <1>13, <1>14, <1>15 DEF BarrierInv

LEMMA GuestPollReadyKeeps ==
    ASSUME BarrierInv, NEW g \in Guests, GuestPollReady(g), UNCHANGED programme
    PROVE  BarrierInv'
<1> DEFINE b == Polled(g)
<1>0. g \in Node /\ g # Host
  BY Basics
<1>1. /\ TypeOK /\ Where(g) /\ HandoffOK(g) /\ BarrierOK(g) /\ LastOK(g)
      /\ barrier[g] # None => barrier[g] \in Barrier
  BY <1>0, Facts
<1>2. stage[g] = "peers"
  BY DEF GuestPollReady
<1>3. /\ InHandoff(g)
      /\ loads[g] \in 1..Scenes /\ scene[g] = loads[g] /\ MapOf[loads[g]] \in Maps
      /\ b \in Barrier
      /\ b.scene = loads[g] /\ b.map = MapOf[loads[g]]
      /\ b.arm = FALSE /\ b.go = FALSE /\ g \notin b.armed
      /\ barrier[g] = None => b.baseline = FALSE /\ b.synced = (g = Host)
      /\ barrier[g] # None => b.baseline = barrier[g].baseline /\ b.synced = barrier[g].synced
  BY <1>0, <1>2, PolledFacts
<1>4. /\ UNCHANGED <<cursor, epoch, origin, handoff, phase, scene, lastHost, snapshot, acks,
                     transition, releases, loads, failed, programme>>
      /\ handoff[g].resume # 0
      /\ barrier' = [barrier EXCEPT ![g] = b]
      /\ stage' = [stage EXCEPT ![g] = IF b.baseline THEN "baseline" ELSE stage[g]]
      /\ sent' = IF b.synced THEN sent \cup {Stamp("Ready", g, scene[g], b.map)} ELSE sent
  BY <1>0, <1>1, <1>3 DEF GuestPollReady, inputVars, stateVars, doneVars, TypeOK
<1>5. /\ b.baseline => b.synced
      /\ b.synced <=> (barrier[g] # None /\ barrier[g].synced)
  <2>1. CASE barrier[g] = None
    BY <1>0, <1>3, <2>1
  <2>2. CASE barrier[g] # None
    BY <1>1, <1>3, <2>2 DEF BarrierOK
  <2> QED
    BY <2>1, <2>2
<1> HIDE DEF b
<1>6. /\ barrier'[g] = b /\ b # None
      /\ \A m \in Node \ {g} : stage'[m] = stage[m] /\ barrier'[m] = barrier[m]
      /\ stage'[g] \in {"peers", "baseline"}
      /\ stage'[g] = "baseline" <=> b.baseline
  BY <1>0, <1>1, <1>2, <1>3, <1>4, Basics DEF TypeOK
<1>7. TypeOK'
  <2>1. barrier' \in [Node -> Barrier \cup {None}]
    BY <1>1, <1>3, <1>4 DEF TypeOK
  <2>2. stage' \in [Node -> Stage]
    BY <1>0, <1>1, <1>2, <1>4 DEF TypeOK, Stage
  <2> QED
    BY <1>1, <1>4, <2>1, <2>2 DEF TypeOK
<1>8. Quiet(g)
  <2>1. sent \subseteq sent'
    BY <1>4
  <2>2. Others(g)
    BY <1>4, <1>6 DEF Others, Same
  <2> QED
    BY <1>2, <1>4, <1>6, <2>1, <2>2 DEF Quiet, Opened, Later, RunStages
<1>9. Onward /\ sent \subseteq sent'
  BY <1>0, <1>8, QuietOnward DEF Quiet
<1>10. Where(g)' /\ HandoffOK(g)' /\ BarrierOK(g)' /\ LastOK(g)'
  <2>2. Where(g)'
    BY <1>0, <1>1, <1>2, <1>4, <1>6 DEF Where, Opened, RunStages
  <2>3. HandoffOK(g)'
    BY <1>0, <1>1, <1>2, <1>4, <1>6 DEF HandoffOK, Opened, RunStages
  <2>4. BarrierOK(g)'
    BY <1>0, <1>1, <1>2, <1>3, <1>4, <1>5, <1>6 DEF BarrierOK, RunStages
  <2>5. Adopting(g)' <=> Adopting(g)
    BY <1>2, <1>5, <1>6 DEF Adopting
  <2>6. LastOK(g)'
    BY <1>1, <1>4, <2>5 DEF LastOK
  <2> QED
    BY <2>2, <2>3, <2>4, <2>6
<1>11. ASSUME NEW m \in sent' \ sent PROVE Says(m)' /\ m.type # "Begin"
  <2>1. m.type = "Ready" /\ m.slot = g /\ m.scene = scene[g] /\ m.map = b.map
    BY <1>4 DEF Stamp
  <2> QED
    BY <1>0, <1>3, <2>1 DEF Says
<1>12. failed' = {} /\ Local' /\ Order' /\ Frames' /\ Told'
  BY <1>0, <1>7, <1>8, <1>10, <1>11, QuietKeeps, Basics
<1>13. Collected'
  <2>1. Collected
    BY DEF BarrierInv
  <2>2. stage'[Host] = stage[Host] /\ barrier'[Host] = barrier[Host]
    BY <1>0, <1>6, Basics
  <2>3. \A k \in Guests : barrier'[k] = barrier[k] \/ (~barrier'[k].arm /\ ~barrier'[k].go)
    BY <1>3, <1>6, Basics
  <2> QED
    BY <1>1, <1>4, <1>6, <1>7, <1>9, <2>1, <2>2, <2>3, CollectedKept DEF Collected
<1>14. Finishing'
  <2>1. \A n \in Node : stage'[n] = "sealing" \/ stage'[n] = "results" => stage'[n] = stage[n]
    BY <1>6
  <2> QED
    BY <1>4, <1>7, <1>9, <2>1, FinishingKept
<1>15. OneFinish'
  BY <1>11, OneFinishKept DEF BarrierInv
<1> QED
  BY <1>7, <1>12, <1>13, <1>14, <1>15 DEF BarrierInv

LEMMA InstallBaselineKeeps ==
    ASSUME BarrierInv, NEW g \in Guests, InstallBaseline(g), UNCHANGED programme
    PROVE  BarrierInv'
<1>0. g \in Node /\ g # Host
  BY Basics
<1>1. /\ TypeOK /\ Where(g) /\ HandoffOK(g) /\ BarrierOK(g) /\ LastOK(g)
      /\ loads[g] \in 0..Scenes
  BY <1>0, Facts
<1>2. stage[g] = "baseline" /\ phase[g]
  BY <1>1 DEF InstallBaseline, Where
<1>3. /\ UNCHANGED <<cursor, epoch, origin, handoff, barrier, phase, scene, lastHost, snapshot, acks,
                     transition, releases, loads, failed, programme>>
      /\ snapshot[g] # None
      /\ stage' = [stage EXCEPT ![g] = "go"]
      /\ sent' = sent \cup {Stamp("StateAck", g, scene[g], snapshot[g])}
  BY <1>2 DEF InstallBaseline, inputVars, stateVars, doneVars
<1>4. stage'[g] = "go" /\ \A m \in Node \ {g} : stage'[m] = stage[m]
  BY <1>0, <1>1, <1>3 DEF TypeOK
<1>5. /\ barrier[g] # None /\ g \notin barrier[g].armed /\ scene[g] = loads[g]
      /\ loads[g] \in 1..Scenes /\ snapshot[g] \in Maps
  BY <1>0, <1>1, <1>2, <1>3 DEF BarrierOK, Where, RunStages, TypeOK
<1>7. TypeOK'
  <2>1. stage' \in [Node -> Stage]
    BY <1>0, <1>1, <1>3 DEF TypeOK, Stage
  <2> QED
    BY <1>1, <1>3, <2>1 DEF TypeOK
<1>8. Quiet(g)
  <2>1. sent \subseteq sent'
    BY <1>3
  <2>2. Others(g)
    BY <1>3, <1>4 DEF Others, Same
  <2> QED
    BY <1>0, <1>2, <1>3, <1>4, <1>5, <2>1, <2>2 DEF Quiet, Opened, Later, RunStages
<1>9. Onward /\ sent \subseteq sent'
  BY <1>0, <1>8, QuietOnward DEF Quiet
<1>10. Where(g)' /\ HandoffOK(g)' /\ BarrierOK(g)' /\ LastOK(g)'
  <2>1. ~Opened(g) /\ ~Opened(g)'
    BY <1>3, <1>5 DEF Opened
  <2>2. Where(g)'
    BY <1>0, <1>1, <1>2, <1>3, <1>4, <2>1 DEF Where, RunStages
  <2>3. HandoffOK(g)'
    BY <1>0, <1>1, <1>2, <1>3, <1>4, <2>1 DEF HandoffOK, RunStages
  <2>4. BarrierOK(g)' /\ LastOK(g)'
    BY <1>0, <1>1, <1>2, <1>3, <1>4 DEF BarrierOK, RunStages, LastOK, Adopting
  <2> QED
    BY <2>2, <2>3, <2>4
<1>11. ASSUME NEW m \in sent' \ sent PROVE Says(m)' /\ m.type # "Begin"
  <2>1. m.type = "StateAck" /\ m.slot = g /\ m.scene = scene[g] /\ m.map = snapshot[g]
    BY <1>3 DEF Stamp
  <2>2. Installed(m.slot, m.scene)'
    BY <1>3, <1>4, <1>5, <2>1 DEF Installed
  <2> QED
    BY <1>0, <1>5, <2>1, <2>2 DEF Says
<1>12. failed' = {} /\ Local' /\ Order' /\ Frames' /\ Told'
  BY <1>0, <1>7, <1>8, <1>10, <1>11, QuietKeeps, Basics
<1>13. Collected'
  <2>1. Collected
    BY DEF BarrierInv
  <2>2. stage'[Host] = stage[Host]
    BY <1>0, <1>4, Basics
  <2> QED
    BY <1>1, <1>3, <1>7, <1>9, <2>1, <2>2, CollectedKept DEF Collected
<1>14. Finishing'
  <2>1. \A n \in Node : stage'[n] = "sealing" \/ stage'[n] = "results" => stage'[n] = stage[n]
    BY <1>4
  <2> QED
    BY <1>3, <1>7, <1>9, <2>1, FinishingKept
<1>15. OneFinish'
  BY <1>11, OneFinishKept DEF BarrierInv
<1> QED
  BY <1>7, <1>12, <1>13, <1>14, <1>15 DEF BarrierInv

LEMMA PollAcksKeeps ==
    ASSUME BarrierInv, PollAcks, UNCHANGED programme
    PROVE  BarrierInv'
<1>0. Host \in Node /\ Host \notin Guests
  BY Basics
<1>1. /\ TypeOK /\ Where(Host) /\ HandoffOK(Host) /\ BarrierOK(Host)
  BY <1>0, Facts
<1>2. stage[Host] = "acks" /\ phase[Host] /\ barrier[Host] # None
      /\ barrier[Host].scene = scene[Host] /\ barrier[Host].baseline /\ ~barrier[Host].arm
      /\ Host \notin barrier[Host].armed
  BY <1>1 DEF PollAcks, Where, BarrierOK, RunStages
<1>3. /\ UNCHANGED <<cursor, epoch, origin, handoff, barrier, phase, scene, lastHost, snapshot, acks,
                     transition, releases, loads, failed, sent, programme>>
      /\ acks = Node
      /\ stage' = [stage EXCEPT ![Host] = "go"]
  BY <1>2 DEF PollAcks, inputVars, stateVars, doneVars
<1>4. stage'[Host] = "go" /\ \A m \in Node \ {Host} : stage'[m] = stage[m]
  BY <1>0, <1>1, <1>3 DEF TypeOK
<1>5. \A g \in Guests : Installed(g, loads[Host])
  BY <1>3, Basics DEF BarrierInv, Collected
<1>7. TypeOK'
  <2>1. stage' \in [Node -> Stage]
    BY <1>0, <1>1, <1>3 DEF TypeOK, Stage
  <2> QED
    BY <1>1, <1>3, <2>1 DEF TypeOK
<1>8. Quiet(Host)
  <2>2. Others(Host)
    BY <1>3, <1>4 DEF Others, Same
  <2> QED
    BY <1>2, <1>3, <1>4, <1>5, <2>2 DEF Quiet, Opened, Later, RunStages
<1>9. Onward /\ sent \subseteq sent'
  BY <1>0, <1>8, QuietOnward DEF Quiet
<1>10. Where(Host)' /\ HandoffOK(Host)' /\ BarrierOK(Host)'
  <2>1. ~Opened(Host) /\ ~Opened(Host)'
    BY <1>2, <1>3 DEF Opened
  <2>2. Where(Host)'
    BY <1>1, <1>2, <1>3, <1>4, <2>1 DEF Where, RunStages
  <2>3. HandoffOK(Host)'
    BY <1>1, <1>2, <1>3, <1>4, <2>1 DEF HandoffOK, RunStages
  <2>4. BarrierOK(Host)'
    BY <1>1, <1>2, <1>3, <1>4 DEF BarrierOK, RunStages
  <2> QED
    BY <2>2, <2>3, <2>4
<1>12. failed' = {} /\ Local' /\ Order' /\ Frames' /\ Told'
  BY <1>0, <1>3, <1>7, <1>8, <1>10, QuietKeeps
<1>13. Collected'
  BY <1>1, <1>3, <1>4, <1>7, <1>9, CollectedKept DEF Collected, BarrierInv
<1>14. Finishing'
  <2>1. \A n \in Node : stage'[n] = "sealing" \/ stage'[n] = "results" => stage'[n] = stage[n]
    BY <1>4
  <2> QED
    BY <1>3, <1>7, <1>9, <2>1, FinishingKept
<1>15. OneFinish'
  BY <1>3 DEF BarrierInv, OneFinish, Announced
<1> QED
  BY <1>7, <1>12, <1>13, <1>14, <1>15 DEF BarrierInv

-----------------------------------------------------------------------------
(* The network worker.                                                     *)

LEMMA ReadyOrArmedKeeps ==
    ASSUME BarrierInv, NEW m \in sent, m.slot \in Guests, HandleReadyOrArmed(m), UNCHANGED programme
    PROVE  BarrierInv'
<1> DEFINE b == barrier[Host]
           known == <<"gameplay", m.scene, m.map>> \in releases[Host]
<1>0. Host \in Node /\ Host \notin Guests /\ Guests \subseteq Node
  BY Basics
<1>1. /\ TypeOK /\ Where(Host) /\ HandoffOK(Host) /\ BarrierOK(Host) /\ Says(m)
      /\ b # None => b \in Barrier
  BY <1>0, Facts DEF BarrierInv, Told
<1>2. /\ UNCHANGED <<cursor, epoch, origin, handoff, phase, scene, lastHost, snapshot, acks,
                     transition, releases, stage, loads, failed, programme>>
      /\ m.type \in {"Ready", "Armed"}
      /\ known => UNCHANGED barrier /\ sent' = sent \cup {Stamp("Go", Host, m.scene, m.map)}
      /\ ~known => UNCHANGED sent /\ b # None /\ m.scene = b.scene
  BY DEF HandleReadyOrArmed, inputVars, stateVars, doneVars
<1>3. /\ \A k \in Node \ {Host} : barrier'[k] = barrier[k]
      /\ b = None => barrier'[Host] = None
      /\ b # None =>
           /\ barrier'[Host] \in Barrier
           /\ barrier'[Host].scene = b.scene /\ barrier'[Host].map = b.map
           /\ barrier'[Host].synced = b.synced /\ barrier'[Host].baseline = b.baseline
           /\ barrier'[Host].arm = b.arm /\ barrier'[Host].go = b.go
           /\ \/ barrier'[Host].armed = b.armed
              \/ /\ barrier'[Host].armed = b.armed \cup {m.slot}
                 /\ m.type = "Armed" /\ m.scene = b.scene
  <2>1. CASE known
    BY <1>1, <1>2, <2>1
  <2>2. CASE ~known /\ m.type = "Ready"
    <3>1. b # None /\ b \in Barrier
      BY <1>1, <1>2, <2>2
    <3>2. barrier' = [barrier EXCEPT ![Host] = [b EXCEPT !.ready = @ \cup {m.slot}]]
      BY <1>0, <1>1, <1>2, <2>2 DEF HandleReadyOrArmed, TypeOK
    <3>3. m.slot \in Node
      BY <1>0
    <3> HIDE DEF known
    <3>4. barrier'[Host] = [b EXCEPT !.ready = @ \cup {m.slot}]
          /\ \A k \in Node \ {Host} : barrier'[k] = barrier[k]
      BY <1>0, <1>1, <3>2 DEF TypeOK
    <3> QED
      BY <3>1, <3>3, <3>4 DEF Barrier
  <2>3. CASE ~known /\ m.type = "Armed"
    <3>1. b # None /\ b \in Barrier /\ m.scene = b.scene
      BY <1>1, <1>2, <2>3
    <3>2. barrier' = [barrier EXCEPT ![Host] = [b EXCEPT !.armed = @ \cup {m.slot}]]
      BY <1>0, <1>1, <1>2, <2>3 DEF HandleReadyOrArmed, TypeOK
    <3>3. m.slot \in Node
      BY <1>0
    <3> HIDE DEF known
    <3>4. barrier'[Host] = [b EXCEPT !.armed = @ \cup {m.slot}]
          /\ \A k \in Node \ {Host} : barrier'[k] = barrier[k]
      BY <1>0, <1>1, <3>2 DEF TypeOK
    <3> QED
      BY <2>3, <3>1, <3>3, <3>4 DEF Barrier
  <2> QED
    BY <1>2, <2>1, <2>2, <2>3
<1>4. b # None => barrier'[Host] # None /\ (Host \in barrier'[Host].armed <=> Host \in b.armed)
  BY <1>0, <1>3, Basics
<1>5. TypeOK'
  <2>1. barrier' \in [Node -> Barrier \cup {None}]
    <3>1. \A k \in Node : barrier'[k] \in Barrier \cup {None}
      BY <1>1, <1>3 DEF TypeOK
    <3>2. barrier' = [k \in Node |-> barrier'[k]]
      <4>1. CASE known
        BY <1>1, <1>2, <4>1 DEF TypeOK
      <4>2. CASE ~known
        BY <1>0, <1>1, <1>2, <4>2 DEF HandleReadyOrArmed, TypeOK
      <4> QED
        BY <4>1, <4>2
    <3> QED
      BY <3>1, <3>2
  <2> QED
    BY <1>1, <1>2, <2>1 DEF TypeOK
<1> HIDE DEF known
<1>6. Opened(Host)' <=> Opened(Host)
  <2>1. CASE stage[Host] = "go"
    <3>1. b # None
      BY <1>1, <2>1 DEF BarrierOK
    <3> QED
      BY <1>2, <1>4, <3>1 DEF Opened
  <2>2. CASE stage[Host] # "go"
    BY <1>2, <2>2 DEF Opened
  <2> QED
    BY <2>1, <2>2
<1>7. Quiet(Host)
  <2>1. sent \subseteq sent'
    BY <1>2
  <2>2. Others(Host)
    BY <1>2, <1>3 DEF Others, Same
  <2> QED
    BY <1>2, <1>6, <2>1, <2>2 DEF Quiet, Later
<1>8. Onward /\ sent \subseteq sent'
  BY <1>0, <1>7, QuietOnward DEF Quiet
<1>9. Where(Host)' /\ HandoffOK(Host)' /\ BarrierOK(Host)'
  <2>1. Where(Host)'
    BY <1>1, <1>2, <1>6 DEF Where
  <2>2. HandoffOK(Host)'
    BY <1>1, <1>2, <1>6 DEF HandoffOK
  <2>3. BarrierOK(Host)'
    <3>1. CASE b = None
      BY <1>1, <1>2, <1>3, <3>1 DEF BarrierOK
    <3>2. CASE b # None
      BY <1>1, <1>2, <1>3, <1>4, <3>2 DEF BarrierOK
    <3> QED
      BY <3>1, <3>2
  <2> QED
    BY <2>1, <2>2, <2>3
<1>10. ASSUME NEW x \in sent' \ sent PROVE Says(x)' /\ x.type # "Begin"
  <2>1. known /\ x.type = "Go" /\ x.slot = Host /\ x.scene = m.scene /\ x.map = m.map
    BY <1>2 DEF Stamp
  <2>2. Ran(Host, m.scene) /\ m.map = MapOf[m.scene] /\ m.scene \in 1..Scenes
    <3> DEFINE r == <<"gameplay", m.scene, m.map>>
    <3>1. ReleaseOK(r)
      BY <2>1 DEF BarrierInv, Finishing, known
    <3>2. r[1] = "gameplay" /\ r[2] = m.scene /\ r[3] = m.map
      OBVIOUS
    <3> HIDE DEF r
    <3> QED
      BY <1>1, <1>2, <3>1, <3>2 DEF ReleaseOK, Says
  <2>3. Ran(Host, x.scene)'
    BY <1>2, <2>1, <2>2 DEF Ran
  <2> QED
    BY <1>0, <2>1, <2>2, <2>3 DEF Says
<1>11. failed' = {} /\ Local' /\ Order' /\ Frames' /\ Told'
  BY <1>0, <1>5, <1>7, <1>9, <1>10, QuietKeeps
<1>12. Collected'
  <2>1. Collected
    BY DEF BarrierInv
  <2>2. \A g \in Guests : barrier'[g] = barrier[g]
    BY <1>0, <1>3
  <2>3. barrier'[Host] # None =>
           \A g \in barrier'[Host].armed : \/ barrier[Host] # None /\ g \in barrier[Host].armed
                                           \/ epoch'[g] >= loads[Host] + 1
    <3>1. m.type = "Armed" => epoch[m.slot] >= m.scene + 1
      BY <1>1 DEF Says
    <3>2. b # None => b.scene = loads[Host]
      BY <1>1 DEF BarrierOK
    <3> QED
      BY <1>2, <1>3, <3>1, <3>2
  <2> QED
    BY <1>1, <1>2, <1>5, <1>8, <2>1, <2>2, <2>3, CollectedKept DEF Collected
<1>13. Finishing'
  BY <1>2, <1>5, <1>8, FinishingKept
<1>14. OneFinish'
  BY <1>10, OneFinishKept DEF BarrierInv
<1> QED
  BY <1>5, <1>11, <1>12, <1>13, <1>14 DEF BarrierInv

LEMMA StateAckKeeps ==
    ASSUME BarrierInv, NEW m \in sent, m.slot \in Guests, HandleStateAck(m), UNCHANGED programme
    PROVE  BarrierInv'
<1>0. Host \in Node /\ Host \notin Guests /\ Guests \subseteq Node
  BY Basics
<1>1. TypeOK /\ Where(Host) /\ Says(m) /\ HandoffOK(Host) /\ BarrierOK(Host)
  BY <1>0, Facts DEF BarrierInv, Told
<1>2. /\ UNCHANGED <<cursor, epoch, origin, handoff, barrier, phase, scene, lastHost, snapshot,
                     transition, releases, stage, loads, failed, sent, programme>>
      /\ m.type = "StateAck" /\ phase[Host] /\ m.scene = scene[Host]
      /\ acks' = acks \cup {m.slot}
  BY DEF HandleStateAck, inputVars, doneVars
<1>3. stage[Host] # "loading" /\ Installed(m.slot, loads[Host])
  BY <1>1, <1>2 DEF Where, Says
<1>4. TypeOK'
  BY <1>0, <1>1, <1>2 DEF TypeOK
<1>5. Quiet(Host)
  BY <1>2 DEF Quiet, Others, Same, Opened, Later
<1>6. Onward
  BY <1>0, <1>5, QuietOnward
<1>7. Where(Host)' /\ HandoffOK(Host)' /\ BarrierOK(Host)'
  BY <1>1, <1>2 DEF Where, HandoffOK, BarrierOK, Opened
<1>8. failed' = {} /\ Local' /\ Order' /\ Frames' /\ Told'
  BY <1>0, <1>2, <1>4, <1>5, <1>7, QuietKeeps
<1>9. Collected'
  <2>1. Collected
    BY DEF BarrierInv
  <2>2. Installed(m.slot, loads[Host])'
    BY <1>2, <1>3 DEF Installed
  <2> QED
    BY <1>1, <1>2, <1>3, <1>4, <1>6, <2>1, <2>2, CollectedKept
<1>10. Finishing'
  BY <1>2, <1>4, <1>6, FinishingKept
<1>11. OneFinish'
  BY <1>2 DEF BarrierInv, OneFinish, Announced
<1> QED
  BY <1>4, <1>8, <1>9, <1>10, <1>11 DEF BarrierInv

LEMMA StateKeeps ==
    ASSUME BarrierInv, NEW g \in Guests, NEW m \in sent, HandleState(g, m), UNCHANGED programme
    PROVE  BarrierInv'
<1>0. g \in Node /\ g # Host
  BY Basics
<1>1. TypeOK /\ Where(g) /\ Says(m) /\ HandoffOK(g) /\ BarrierOK(g) /\ LastOK(g)
  BY <1>0, Facts DEF BarrierInv, Told
<1>2. /\ UNCHANGED <<cursor, epoch, origin, handoff, barrier, phase, scene, lastHost, acks,
                     transition, releases, stage, loads, failed, sent, programme>>
      /\ m.type = "State"
      /\ snapshot' = [snapshot EXCEPT ![g] = m.map]
  BY DEF HandleState, inputVars, doneVars
<1>4. TypeOK'
  <2>1. m.map \in Maps
    BY <1>1, <1>2, MapsOf DEF Says
  <2> QED
    BY <1>0, <1>1, <1>2, <2>1 DEF TypeOK
<1>5. Quiet(g)
  BY <1>0, <1>2 DEF Quiet, Others, Same, Opened, Later
<1>6. Onward
  BY <1>0, <1>5, QuietOnward
<1>7. Where(g)' /\ HandoffOK(g)' /\ BarrierOK(g)' /\ LastOK(g)'
  BY <1>1, <1>2 DEF Where, HandoffOK, BarrierOK, Opened, LastOK, Adopting
<1>8. failed' = {} /\ Local' /\ Order' /\ Frames' /\ Told'
  BY <1>0, <1>2, <1>4, <1>5, <1>7, QuietKeeps
<1>9. Collected'
  BY <1>2 DEF BarrierInv, Collected, Installed, Ran
<1>10. Finishing'
  BY <1>2, <1>4, <1>6, FinishingKept
<1>11. OneFinish'
  BY <1>2 DEF BarrierInv, OneFinish, Announced
<1> QED
  BY <1>4, <1>8, <1>9, <1>10, <1>11 DEF BarrierInv

(* Once an input epoch is open, its baseline is installed everywhere. *)
LEMMA AllInstalled ==
    ASSUME BarrierInv, NEW k \in Nat, epoch[Host] >= k + 1, NEW m \in Node
    PROVE  Installed(m, k)
<1>0. Host \in Node
  BY Basics
<1>1. /\ Where(Host) /\ loads[Host] \in Nat /\ loads[m] \in Nat /\ Order
      /\ (epoch[Host] = loads[Host] + 1 \/ epoch[Host] = loads[Host])
  BY <1>0, Facts DEF BarrierInv, Where
<1>2. CASE loads[Host] > k
  <2>1. CASE loads[m] >= loads[Host]
    BY <1>1, <1>2, <2>1 DEF Installed
  <2>2. CASE loads[Host] > loads[m]
    <3>1. loads[Host] = loads[m] + 1 /\ stage[m] \in RunStages
      BY <1>0, <1>1, <2>2 DEF Order
    <3> QED
      BY <1>1, <1>2, <3>1 DEF Installed, RunStages
  <2> QED
    BY <1>1, <2>1, <2>2
<1>3. CASE loads[Host] = k
  <2>1. stage[Host] \in RunStages \/ Opened(Host)
    BY <1>1, <1>3 DEF Where
  <2>2. stage[Host] \in RunStages \cup {"go"}
    BY <2>1 DEF Opened
  <2>3. m = Host \/ m \in Guests
    BY DEF Node
  <2> QED
    BY <1>1, <1>3, <2>2, <2>3 DEF Order, Installed, RunStages
<1> QED
  BY <1>1, <1>2, <1>3

LEMMA PrepareKeeps ==
    ASSUME BarrierInv, NEW g \in Guests, NEW m \in sent, HandlePrepare(g, m), UNCHANGED programme
    PROVE  BarrierInv'
<1> DEFINE b == barrier[g]
<1>0. g \in Node /\ g # Host /\ Host \in Node
  BY Basics
<1>1. /\ TypeOK /\ Where(g) /\ Says(m) /\ HandoffOK(g) /\ BarrierOK(g) /\ LastOK(g)
      /\ loads[g] \in 0..Scenes /\ loads[Host] \in 0..Scenes /\ lastHost[g] \in 0..Scenes
      /\ (b # None => b \in Barrier) /\ Order
  <2>1. lastHost[g] \in 0..Scenes
    BY <1>0, Facts DEF TypeOK
  <2> QED
    BY <1>0, <2>1, Facts DEF BarrierInv, Told
<1>2. /\ m.type = "Prepare" /\ phase[g] /\ b # None /\ b \in Barrier
      /\ m.scene \in 1..Scenes /\ m.map = MapOf[m.scene] /\ loads[Host] >= m.scene
      /\ b.scene = loads[g] /\ b.map = MapOf[loads[g]] /\ scene[g] = loads[g]
      /\ stage[g] \notin {"loading", "results", "frontend"}
  BY <1>1 DEF HandlePrepare, Says, BarrierOK, Where
<1>3. m.scene = loads[g]
  <2>1. CASE b.synced
    BY <1>2, <2>1 DEF HandlePrepare
  <2>2. CASE ~b.synced
    <3>1. m.scene > lastHost[g]
      BY <2>2 DEF HandlePrepare, Newer
    <3>2. stage[g] = "peers" /\ Adopting(g)
      BY <1>1, <1>2, <2>2 DEF BarrierOK, Adopting
    <3>3. lastHost[g] = loads[g] - 1
      BY <1>1, <3>2 DEF LastOK
    <3>4. ~(loads[Host] > loads[g])
      BY <1>0, <1>1, <3>2 DEF Order, RunStages
    <3> QED
      BY <1>1, <1>2, <3>1, <3>3, <3>4
  <2> QED
    BY <2>1, <2>2
<1>4. /\ UNCHANGED <<cursor, epoch, origin, handoff, phase, snapshot, acks, transition, releases,
                     stage, loads, failed, sent, programme>>
      /\ scene' = [scene EXCEPT ![g] = m.scene]
      /\ barrier' = [barrier EXCEPT ![g].scene = m.scene, ![g].synced = TRUE]
      /\ lastHost' = [lastHost EXCEPT ![g] = m.scene]
  BY <1>2, <1>3 DEF HandlePrepare, inputVars, stateVars, doneVars
<1>5. /\ scene' = scene /\ lastHost'[g] = loads[g]
      /\ \A k \in Guests \ {g} : lastHost'[k] = lastHost[k]
      /\ \A k \in Node \ {g} : barrier'[k] = barrier[k]
      /\ barrier' = [barrier EXCEPT ![g] = barrier'[g]]
      /\ barrier'[g] \in Barrier
      /\ barrier'[g].scene = b.scene /\ barrier'[g].map = b.map
      /\ barrier'[g].synced /\ barrier'[g].baseline = b.baseline
      /\ barrier'[g].arm = b.arm /\ barrier'[g].go = b.go /\ barrier'[g].armed = b.armed
  <2>1. /\ scene' = scene /\ lastHost'[g] = loads[g]
        /\ \A k \in Guests \ {g} : lastHost'[k] = lastHost[k]
    BY <1>0, <1>1, <1>2, <1>3, <1>4 DEF TypeOK
  <2> DEFINE c == [b EXCEPT !.scene = m.scene]
  <2>2. c \in Barrier /\ c.scene = b.scene /\ c.map = b.map /\ c.baseline = b.baseline
        /\ c.arm = b.arm /\ c.go = b.go /\ c.armed = b.armed
    BY <1>2, <1>3 DEF Barrier
  <2>3. barrier' = [barrier EXCEPT ![g] = [c EXCEPT !.synced = TRUE]]
    BY <1>0, <1>1, <1>4 DEF TypeOK
  <2> HIDE DEF c
  <2>4. barrier'[g] = [c EXCEPT !.synced = TRUE] /\ \A k \in Node \ {g} : barrier'[k] = barrier[k]
    BY <1>0, <1>1, <2>3 DEF TypeOK
  <2>5. barrier' = [barrier EXCEPT ![g] = barrier'[g]]
    BY <2>3, <2>4
  <2>6. /\ barrier'[g] \in Barrier
        /\ barrier'[g].scene = c.scene /\ barrier'[g].map = c.map
        /\ barrier'[g].synced /\ barrier'[g].baseline = c.baseline
        /\ barrier'[g].arm = c.arm /\ barrier'[g].go = c.go /\ barrier'[g].armed = c.armed
    BY <2>2, <2>4 DEF Barrier
  <2> QED
    BY <2>1, <2>2, <2>4, <2>5, <2>6
<1>6. TypeOK'
  <2>1. barrier' \in [Node -> Barrier \cup {None}]
    BY <1>0, <1>1, <1>5 DEF TypeOK
  <2>2. lastHost' \in [Guests -> 0..Scenes]
    BY <1>1, <1>3, <1>4 DEF TypeOK
  <2> QED
    BY <1>1, <1>4, <1>5, <2>1, <2>2 DEF TypeOK
<1>7. Quiet(g)
  <2>1. Others(g)
    BY <1>4, <1>5 DEF Others, Same
  <2> QED
    BY <1>0, <1>4, <1>5, <2>1 DEF Quiet, Opened, Later
<1>8. Onward
  BY <1>0, <1>7, QuietOnward
<1>9. Where(g)' /\ HandoffOK(g)' /\ BarrierOK(g)' /\ LastOK(g)'
  <2>1. Opened(g)' <=> Opened(g)
    BY <1>4, <1>5 DEF Opened
  <2>2. barrier'[g] # None
    BY <1>5, Basics
  <2>3. Where(g)'
    BY <1>1, <1>4, <1>5, <2>1 DEF Where
  <2>4. HandoffOK(g)'
    BY <1>1, <1>4, <2>1 DEF HandoffOK
  <2>5. BarrierOK(g)'
    BY <1>0, <1>1, <1>2, <1>4, <1>5, <2>2 DEF BarrierOK
  <2>6. LastOK(g)'
    BY <1>4, <1>5, <2>2 DEF LastOK, Adopting
  <2> QED
    BY <2>3, <2>4, <2>5, <2>6
<1>10. failed' = {} /\ Local' /\ Order' /\ Frames' /\ Told'
  BY <1>0, <1>4, <1>6, <1>7, <1>9, QuietKeeps
<1>11. Collected'
  <2>1. Collected
    BY DEF BarrierInv
  <2>2. \A k \in Guests : barrier'[k] # None =>
           barrier[k] # None /\ barrier'[k].arm = barrier[k].arm /\ barrier'[k].go = barrier[k].go
    BY <1>2, <1>5, Basics
  <2>3. barrier'[Host] = barrier[Host]
    BY <1>0, <1>5
  <2> QED
    BY <1>1, <1>4, <1>6, <1>8, <2>1, <2>2, <2>3, CollectedKept DEF Collected
<1>12. Finishing'
  BY <1>4, <1>5, <1>6, <1>8, FinishingKept
<1>13. OneFinish'
  BY <1>4 DEF BarrierInv, OneFinish, Announced
<1> QED
  BY <1>6, <1>10, <1>11, <1>12, <1>13 DEF BarrierInv

LEMMA StageKeeps ==
    ASSUME BarrierInv, NEW g \in Guests, NEW m \in sent, HandleStage(g, m), UNCHANGED programme
    PROVE  BarrierInv'
<1> DEFINE b == barrier[g]
           c == barrier'[g]
<1>0. g \in Node /\ g # Host /\ Host \in Node
  BY Basics
<1>1. /\ TypeOK /\ Where(g) /\ Says(m) /\ HandoffOK(g) /\ BarrierOK(g) /\ LastOK(g)
      /\ loads[g] \in 0..Scenes /\ stage[g] \in Stage
      /\ (b # None => b \in Barrier)
  BY <1>0, Facts DEF BarrierInv, Told
<1>2. /\ m.type \in {"Baseline", "Arm", "Go"} /\ phase[g] /\ b # None /\ b \in Barrier /\ b.synced
      /\ m.scene = loads[g] /\ m.map = b.map /\ b.scene = loads[g] /\ m.scene \in 1..Scenes
  BY <1>1 DEF HandleStage, Says, BarrierOK
<1>3. /\ UNCHANGED <<cursor, epoch, origin, handoff, phase, scene, lastHost, snapshot, acks,
                     transition, releases, stage, loads, failed, sent, programme>>
      /\ \/ m.type = "Baseline" /\ barrier' = [barrier EXCEPT ![g] = [b EXCEPT !.baseline = TRUE]]
         \/ m.type = "Arm" /\ b.baseline /\ barrier' = [barrier EXCEPT ![g] = [b EXCEPT !.arm = TRUE]]
         \/ /\ m.type = "Go" /\ b.baseline /\ b.arm /\ g \in b.armed
            /\ barrier' = [barrier EXCEPT ![g] = [b EXCEPT !.go = TRUE]]
  BY <1>0, <1>1, <1>2 DEF HandleStage, inputVars, stateVars, doneVars, TypeOK
<1>4. /\ \A k \in Node \ {g} : barrier'[k] = barrier[k]
      /\ barrier' = [barrier EXCEPT ![g] = c]
      /\ c \in Barrier
      /\ c.scene = b.scene /\ c.map = b.map /\ c.armed = b.armed /\ c.synced = b.synced
      /\ b.baseline => c.baseline
      /\ c.arm = b.arm \/ m.type = "Arm"
      /\ c.go = b.go \/ (m.type = "Go" /\ g \in b.armed)
  <2>1. CASE m.type = "Baseline" /\ barrier' = [barrier EXCEPT ![g] = [b EXCEPT !.baseline = TRUE]]
    <3>1. c = [b EXCEPT !.baseline = TRUE] /\ \A k \in Node \ {g} : barrier'[k] = barrier[k]
      BY <1>0, <1>1, <2>1 DEF TypeOK
    <3>2. barrier' = [barrier EXCEPT ![g] = c]
      BY <2>1, <3>1
    <3> HIDE DEF c
    <3>3. /\ c \in Barrier
          /\ c.scene = b.scene /\ c.map = b.map /\ c.armed = b.armed /\ c.synced = b.synced
          /\ c.baseline /\ c.arm = b.arm /\ c.go = b.go
      BY <1>2, <3>1 DEF Barrier
    <3> QED
      BY <2>1, <3>1, <3>2, <3>3
  <2>2. CASE m.type = "Arm" /\ barrier' = [barrier EXCEPT ![g] = [b EXCEPT !.arm = TRUE]]
    <3>1. c = [b EXCEPT !.arm = TRUE] /\ \A k \in Node \ {g} : barrier'[k] = barrier[k]
      BY <1>0, <1>1, <2>2 DEF TypeOK
    <3>2. barrier' = [barrier EXCEPT ![g] = c]
      BY <2>2, <3>1
    <3> HIDE DEF c
    <3>3. /\ c \in Barrier
          /\ c.scene = b.scene /\ c.map = b.map /\ c.armed = b.armed /\ c.synced = b.synced
          /\ c.baseline = b.baseline /\ c.arm /\ c.go = b.go
      BY <1>2, <3>1 DEF Barrier
    <3> QED
      BY <2>2, <3>1, <3>2, <3>3
  <2>3. CASE m.type = "Go" /\ g \in b.armed /\ barrier' = [barrier EXCEPT ![g] = [b EXCEPT !.go = TRUE]]
    <3>1. c = [b EXCEPT !.go = TRUE] /\ \A k \in Node \ {g} : barrier'[k] = barrier[k]
      BY <1>0, <1>1, <2>3 DEF TypeOK
    <3>2. barrier' = [barrier EXCEPT ![g] = c]
      BY <2>3, <3>1
    <3> HIDE DEF c
    <3>3. /\ c \in Barrier
          /\ c.scene = b.scene /\ c.map = b.map /\ c.armed = b.armed /\ c.synced = b.synced
          /\ c.baseline = b.baseline /\ c.arm = b.arm /\ c.go
      BY <1>2, <3>1 DEF Barrier
    <3> QED
      BY <2>3, <3>1, <3>2, <3>3
  <2> QED
    BY <1>3, <2>1, <2>2, <2>3
<1> HIDE DEF c
<1>5. TypeOK'
  <2>1. barrier' \in [Node -> Barrier \cup {None}]
    BY <1>0, <1>1, <1>4 DEF TypeOK
  <2> QED
    BY <1>1, <1>3, <2>1 DEF TypeOK
<1>6. m.type = "Arm" => epoch[Host] >= loads[g] + 1 /\ stage[g] \in RunStages \cup {"go"}
  <2> SUFFICES ASSUME m.type = "Arm"
               PROVE  epoch[Host] >= loads[g] + 1 /\ stage[g] \in RunStages \cup {"go"}
    OBVIOUS
  <2>1. epoch[Host] >= loads[g] + 1
    BY <1>1, <1>2 DEF Says
  <2>2. Installed(g, loads[g])
    BY <1>0, <1>1, <2>1, AllInstalled
  <2>3. stage[g] \notin {"loading", "peers", "baseline", "acks"}
    BY <1>0, <1>1, <2>2 DEF Installed, Where
  <2> QED
    BY <1>1, <2>1, <2>3 DEF Stage, RunStages
<1>7. c = barrier'[g] /\ c # None
  BY <1>4, Basics DEF c
<1>8. Quiet(g)
  <2>1. Others(g)
    BY <1>3, <1>4 DEF Others, Same
  <2> QED
    BY <1>0, <1>3, <1>4, <1>7, <2>1 DEF Quiet, Opened, Later
<1>9. Onward
  BY <1>0, <1>8, QuietOnward
<1>10. Where(g)' /\ HandoffOK(g)' /\ BarrierOK(g)' /\ LastOK(g)'
  <2>1. Opened(g)' <=> Opened(g)
    BY <1>3, <1>4, <1>7 DEF Opened
  <2>3. Where(g)'
    BY <1>1, <1>3, <2>1 DEF Where
  <2>4. HandoffOK(g)'
    BY <1>1, <1>3, <2>1 DEF HandoffOK
  <2>5. BarrierOK(g)'
    <3>1. c.arm => stage[g] = "go" \/ stage[g] \in RunStages
      BY <1>1, <1>2, <1>4, <1>6 DEF BarrierOK
    <3>2. g \in c.armed => c.arm
      <4>1. g \in c.armed => b.arm
        BY <1>1, <1>2, <1>4 DEF BarrierOK
      <4>2. m.type = "Arm" => c.arm
        BY <1>0, <1>1, <1>2, <1>3, <1>7 DEF Barrier, TypeOK
      <4> QED
        BY <1>4, <4>1, <4>2
    <3>3. c.go => g \in c.armed
      BY <1>1, <1>2, <1>4 DEF BarrierOK
    <3> QED
      BY <1>0, <1>1, <1>2, <1>3, <1>4, <1>7, <3>1, <3>2, <3>3 DEF BarrierOK
  <2>6. LastOK(g)'
    BY <1>1, <1>2, <1>3, <1>4, <1>7 DEF LastOK, Adopting
  <2> QED
    BY <2>3, <2>4, <2>5, <2>6
<1>11. failed' = {} /\ Local' /\ Order' /\ Frames' /\ Told'
  BY <1>0, <1>3, <1>5, <1>8, <1>10, QuietKeeps
<1>12. Collected'
  <2>1. Collected
    BY DEF BarrierInv
  <2>2. m.type = "Go" => Ran(Host, loads[g])'
    BY <1>1, <1>2, <1>3 DEF Says, Ran
  <2>3. \A k \in Guests : barrier'[k] # None =>
               /\ barrier'[k].arm => \/ barrier[k] # None /\ barrier[k].arm
                                     \/ epoch'[Host] >= loads[k] + 1
               /\ barrier'[k].go => \/ barrier[k] # None /\ barrier[k].go
                                    \/ Ran(Host, loads[k])'
    <3> SUFFICES ASSUME NEW k \in Guests, barrier'[k] # None
                 PROVE /\ barrier'[k].arm => \/ barrier[k] # None /\ barrier[k].arm
                                     \/ epoch'[Host] >= loads[k] + 1
                       /\ barrier'[k].go => \/ barrier[k] # None /\ barrier[k].go
                                    \/ Ran(Host, loads[k])'
      OBVIOUS
    <3>1. CASE k = g
      BY <1>2, <1>3, <1>4, <1>6, <1>7, <2>2, <3>1
    <3>2. CASE k # g
      BY <1>4, <3>2, Basics
    <3> QED
      BY <3>1, <3>2
  <2>4. barrier'[Host] = barrier[Host]
    BY <1>0, <1>4
  <2> QED
    BY <1>1, <1>3, <1>5, <1>9, <2>1, <2>3, <2>4, CollectedKept DEF Collected
<1>13. Finishing'
  BY <1>3, <1>5, <1>9, FinishingKept
<1>14. OneFinish'
  BY <1>3 DEF BarrierInv, OneFinish, Announced
<1> QED
  BY <1>5, <1>11, <1>12, <1>13, <1>14 DEF BarrierInv

(* The frame of a finish has one name. *)
LEMMA SameFinish ==
    ASSUME BarrierInv, NEW n \in Node, transition[n] # None,
           NEW f \in Nat, Announced(scene[n], f)
    PROVE  transition[n].frame = f
<1>1. transition[n] \in Transition /\ TransitionOK(n) /\ scene[n] \in Nat
  BY Facts
<1>2. transition[n].frame \in Nat
  BY <1>1 DEF Transition, Frame
<1>3. Announced(scene[n], transition[n].frame)
  BY <1>1 DEF TransitionOK
<1> QED
  BY <1>1, <1>2, <1>3 DEF BarrierInv, OneFinish

LEMMA AcknowledgeKeeps ==
    ASSUME BarrierInv, NEW m \in sent, m.slot \in Guests, HandleAcknowledge(m), UNCHANGED programme
    PROVE  BarrierInv'
<1> DEFINE t == transition[Host]
           known == <<"finish", m.scene, m.frame>> \in releases[Host]
           answer == Finish("Resume", Host, m.scene, m.frame)
<1>0. Host \in Node /\ Host \notin Guests /\ Guests \subseteq Node
  BY Basics
<1>1. /\ TypeOK /\ Where(Host) /\ HandoffOK(Host) /\ BarrierOK(Host) /\ Says(m) /\ TransitionOK(Host)
      /\ t # None => t \in Transition
  BY <1>0, Facts DEF BarrierInv, Told
<1>2. /\ m.type = "Acknowledge" /\ m.scene \in 1..Scenes /\ m.frame \in Nat
      /\ Announced(m.scene, m.frame) /\ Sealed(m.slot, m.scene)
  BY <1>1 DEF HandleAcknowledge, Says
<1>3. ~known => m.scene = scene[Host] /\ t # None /\ t.frame = m.frame
  <2> SUFFICES ASSUME ~known PROVE m.scene = scene[Host] /\ t # None /\ t.frame = m.frame
    OBVIOUS
  <2>1. m.scene = scene[Host]
    BY DEF HandleAcknowledge
  <2>2. t # None => t.frame = m.frame
    BY <1>0, <1>2, <2>1, SameFinish
  <2>3. t = None => FALSE
    BY <1>1 DEF HandleAcknowledge, TransitionOK
  <2> QED
    BY <2>1, <2>2, <2>3
<1>4. /\ UNCHANGED <<cursor, epoch, origin, handoff, barrier, phase, scene, lastHost, snapshot, acks,
                     releases, stage, loads, failed, programme>>
      /\ known => UNCHANGED transition /\ sent' = sent \cup {answer}
      /\ ~known => /\ transition' = [transition EXCEPT ![Host].acks = @ \cup {m.slot}]
                   /\ sent' = IF t.resumed THEN sent \cup {answer} ELSE sent
  BY <1>3 DEF HandleAcknowledge, inputVars, stateVars, doneVars
<1>5. /\ \A k \in Node \ {Host} : transition'[k] = transition[k]
      /\ transition' \in [Node -> Transition \cup {None}]
      /\ known => transition'[Host] = t
      /\ ~known => /\ transition'[Host] \in Transition
                   /\ transition'[Host].scene = t.scene /\ transition'[Host].frame = t.frame
                   /\ transition'[Host].resumed = t.resumed
                   /\ transition'[Host].acks = t.acks \cup {m.slot}
  <2>1. CASE known
    BY <1>1, <1>4, <2>1 DEF TypeOK
  <2>2. CASE ~known
    <3>1. t \in Transition /\ m.slot \in Node
      BY <1>0, <1>1, <1>3, <2>2
    <3> DEFINE u == [t EXCEPT !.acks = @ \cup {m.slot}]
    <3>2. u \in Transition /\ u.scene = t.scene /\ u.frame = t.frame /\ u.resumed = t.resumed
          /\ u.acks = t.acks \cup {m.slot}
      BY <3>1 DEF Transition
    <3>3. transition' = [transition EXCEPT ![Host] = u]
      BY <1>0, <1>1, <1>4, <2>2 DEF TypeOK
    <3> HIDE DEF u
    <3>4. transition'[Host] = u /\ \A k \in Node \ {Host} : transition'[k] = transition[k]
      BY <1>0, <1>1, <3>3 DEF TypeOK
    <3>5. transition' \in [Node -> Transition \cup {None}]
      BY <1>1, <3>2, <3>3 DEF TypeOK
    <3> QED
      BY <2>2, <3>2, <3>4, <3>5
  <2> QED
    BY <2>1, <2>2
<1>6. TypeOK'
  BY <1>1, <1>4, <1>5 DEF TypeOK
<1>7. Quiet(Host)
  <2>1. sent \subseteq sent'
    BY <1>4
  <2>2. Others(Host)
    BY <1>4, <1>5 DEF Others, Same
  <2> QED
    BY <1>4, <2>1, <2>2 DEF Quiet, Opened, Later
<1>8. Onward /\ sent \subseteq sent'
  BY <1>0, <1>7, QuietOnward DEF Quiet
<1>9. Where(Host)' /\ HandoffOK(Host)' /\ BarrierOK(Host)'
  BY <1>1, <1>4 DEF Where, HandoffOK, BarrierOK, Opened
<1>10. ASSUME NEW x \in sent' \ sent PROVE Says(x)' /\ x.type # "Begin"
  <2>1. /\ x.type = "Resume" /\ x.slot = Host /\ x.scene = m.scene /\ x.frame = m.frame
        /\ (known \/ (~known /\ t.resumed))
    BY <1>4 DEF Finish
  <2>2. \A k \in Node : Sealed(k, m.scene)
    <3>1. CASE known
      <4> DEFINE r == <<"finish", m.scene, m.frame>>
      <4>1. ReleaseOK(r)
        BY <3>1 DEF BarrierInv, Finishing
      <4>2. r[1] = "finish" /\ r[2] = m.scene
        OBVIOUS
      <4> HIDE DEF r
      <4> QED
        BY <4>1, <4>2 DEF ReleaseOK
    <3>2. CASE ~known
      BY <1>1, <1>3, <2>1, <3>2 DEF TransitionOK
    <3> QED
      BY <3>1, <3>2
  <2>3. \A k \in Node : Sealed(k, x.scene)'
    BY <1>4, <2>1, <2>2 DEF Sealed
  <2>4. Announced(x.scene, x.frame)'
    BY <1>2, <1>8, <2>1 DEF Announced
  <2> QED
    BY <1>0, <1>2, <2>1, <2>3, <2>4 DEF Says
<1>11. failed' = {} /\ Local' /\ Order' /\ Frames' /\ Told'
  BY <1>0, <1>6, <1>7, <1>9, <1>10, QuietKeeps
<1>12. Collected'
  BY <1>4 DEF BarrierInv, Collected, Installed, Ran
<1> HIDE DEF known
<1>13. Finishing'
  <2>1. \A k \in Node \ {Host} : TransitionOK(k)'
    BY <1>1, <1>4, <1>5, <1>6, <1>8, TransitionKept DEF BarrierInv, Finishing
  <2>2. TransitionOK(Host)'
    <3>1. CASE known
      BY <1>0, <1>1, <1>4, <1>5, <1>6, <1>8, <3>1, TransitionKept
    <3>2. CASE ~known
      <4>1. /\ scene'[Host] = scene[Host] /\ t.scene = scene[Host] /\ scene[Host] \in 1..Scenes
            /\ transition'[Host] # None /\ Announced(scene[Host], t.frame)
        BY <1>1, <1>3, <1>4, <1>5, <3>2, Basics DEF TransitionOK
      <4>2. Announced(scene[Host], transition[Host].frame)'
        BY <1>5, <1>8, <3>2, <4>1 DEF Announced
      <4>3. t.resumed => \A k \in Node : Sealed(k, scene[Host])'
        BY <1>1, <1>3, <1>4, <3>2 DEF TransitionOK, Sealed
      <4>4. \A k \in (t.acks \cup {m.slot}) \ {Host} : Sealed(k, scene[Host])'
        <5>1. \A k \in (t.acks \cup {m.slot}) \ {Host} : Sealed(k, scene[Host])
          BY <1>1, <1>2, <1>3, <3>2 DEF TransitionOK
        <5> QED
          BY <1>4, <5>1 DEF Sealed
      <4> QED
        BY <1>5, <3>2, <4>1, <4>2, <4>3, <4>4 DEF TransitionOK
    <3> QED
      BY <3>1, <3>2
  <2>3. \A x, k \in Node : stage'[k] = "results" => Sealed(x, loads[k])'
    BY <1>1, <1>4, <1>6, <1>8, ResultsKept DEF BarrierInv
  <2>4. \A r \in releases'[Host] : ReleaseOK(r)'
    BY <1>1, <1>4, <1>6, <1>8, ReleasesKept DEF BarrierInv
  <2> QED
    BY <2>1, <2>2, <2>3, <2>4 DEF Finishing
<1>14. OneFinish'
  BY <1>10, OneFinishKept DEF BarrierInv
<1> QED
  BY <1>6, <1>11, <1>12, <1>13, <1>14 DEF BarrierInv

LEMMA TransitionKeeps ==
    ASSUME BarrierInv, NEW g \in Guests, NEW m \in sent, HandleTransition(g, m), UNCHANGED programme
    PROVE  BarrierInv'
<1> DEFINE t == transition[g]
           u == [scene |-> m.scene, frame |-> m.frame,
                 acks |-> {Host} \cup (IF t = None THEN {} ELSE t.acks),
                 resumed |-> ResumedBy(g, m)]
<1>0. g \in Node /\ g # Host /\ Host \in Node
  BY Basics
<1>1. /\ TypeOK /\ Where(g) /\ HandoffOK(g) /\ BarrierOK(g) /\ LastOK(g) /\ Says(m) /\ TransitionOK(g)
      /\ t # None => t \in Transition
  BY <1>0, Facts DEF BarrierInv, Told
<1>2. /\ m.type \in {"Begin", "Resume"} /\ m.scene \in 1..Scenes /\ m.frame \in Nat
      /\ Announced(m.scene, m.frame) /\ m.scene = scene[g]
      /\ m.type = "Resume" => \A k \in Node : Sealed(k, m.scene)
  BY <1>1 DEF HandleTransition, Says
<1>3. t # None => t.frame = m.frame
  BY <1>0, <1>2, SameFinish
<1>4. /\ UNCHANGED <<cursor, epoch, origin, handoff, barrier, phase, scene, lastHost, snapshot, acks,
                     releases, stage, loads, failed, sent, programme>>
      /\ transition' = [transition EXCEPT ![g] = u]
  BY <1>3 DEF HandleTransition, inputVars, stateVars, doneVars
<1>5. u \in Transition /\ u.scene = m.scene /\ u.frame = m.frame /\ (u.resumed <=> ResumedBy(g, m))
  <2>1. ResumedBy(g, m) \in BOOLEAN
    BY DEF ResumedBy
  <2>2. {Host} \cup (IF t = None THEN {} ELSE t.acks) \in SUBSET Node
    BY <1>0, <1>1 DEF Transition
  <2> QED
    BY <1>2, <2>1, <2>2 DEF Transition, Frame
<1> HIDE DEF u
<1>6. /\ transition'[g] = u /\ u # None
      /\ \A k \in Node \ {g} : transition'[k] = transition[k]
  BY <1>0, <1>1, <1>4, <1>5, Basics DEF TypeOK
<1>7. TypeOK'
  <2>1. transition' \in [Node -> Transition \cup {None}]
    BY <1>1, <1>4, <1>5 DEF TypeOK
  <2> QED
    BY <1>1, <1>4, <2>1 DEF TypeOK
<1>8. Quiet(g)
  <2>2. Others(g)
    BY <1>4, <1>6 DEF Others, Same
  <2> QED
    BY <1>0, <1>4, <2>2 DEF Quiet, Opened, Later
<1>9. Onward
  BY <1>0, <1>8, QuietOnward
<1>10. Where(g)' /\ HandoffOK(g)' /\ BarrierOK(g)' /\ LastOK(g)'
  BY <1>1, <1>4 DEF Where, HandoffOK, BarrierOK, Opened, LastOK, Adopting
<1>11. failed' = {} /\ Local' /\ Order' /\ Frames' /\ Told'
  BY <1>0, <1>4, <1>7, <1>8, <1>10, QuietKeeps
<1>12. Collected'
  BY <1>4 DEF BarrierInv, Collected, Installed, Ran
<1>13. Finishing'
  <2>1. \A k \in Node \ {g} : TransitionOK(k)'
    BY <1>1, <1>4, <1>6, <1>7, <1>9, TransitionKept DEF BarrierInv, Finishing
  <2>2. TransitionOK(g)'
    <3>1. u.resumed => \A k \in Node : Sealed(k, scene[g])
      BY <1>1, <1>2, <1>5 DEF TransitionOK, ResumedBy
    <3>2. u.resumed => \A k \in Node : Sealed(k, scene[g])'
      BY <1>4, <3>1 DEF Sealed
    <3>3. Announced(scene[g], transition[g].frame)'
      BY <1>2, <1>4, <1>5, <1>6 DEF Announced
    <3> QED
      BY <1>0, <1>2, <1>4, <1>5, <1>6, <3>2, <3>3 DEF TransitionOK
  <2>3. \A x, k \in Node : stage'[k] = "results" => Sealed(x, loads[k])'
    BY <1>1, <1>4, <1>7, <1>9, ResultsKept DEF BarrierInv
  <2>4. \A r \in releases'[Host] : ReleaseOK(r)'
    BY <1>1, <1>4, <1>7, <1>9, ReleasesKept DEF BarrierInv
  <2> QED
    BY <2>1, <2>2, <2>3, <2>4 DEF Finishing
<1>14. OneFinish'
  BY <1>4 DEF BarrierInv, OneFinish, Announced
<1> QED
  BY <1>7, <1>11, <1>12, <1>13, <1>14 DEF BarrierInv

-----------------------------------------------------------------------------
(* The handoff.                                                            *)

(* A guest is at most one input epoch behind Player 1. *)
LEMMA EpochsClose ==
    ASSUME BarrierInv, NEW g \in Guests
    PROVE  epoch[Host] <= epoch[g] + 1 /\ epoch[g] <= epoch[Host]
<1>1. g \in Node /\ Host \in Node
  BY Basics
<1>2. /\ loads[g] \in Nat /\ loads[Host] \in Nat /\ epoch[g] \in Nat /\ epoch[Host] \in Nat
      /\ epoch[Host] <= loads[Host] + 1 /\ epoch[g] >= loads[g]
      /\ stage[g] \in RunStages => epoch[g] = loads[g] + 1
  BY <1>1, Facts DEF Where
<1>3. loads[Host] > loads[g] => loads[Host] = loads[g] + 1 /\ stage[g] \in RunStages
  BY <1>1 DEF BarrierInv, Order
<1>4. epoch[g] <= epoch[Host]
  BY DEF BarrierInv, Order
<1> QED
  BY <1>2, <1>3, <1>4

LEMMA AdoptedTyped ==
    ASSUME BarrierInv, NEW n \in Node, NEW h, NEW local \in BOOLEAN,
           h.current \in 1..Scenes, h.resume \in 0..(Scenes + 1), h.boundary \in Nat,
           h.map \in Maps, SuspendFrame(n, h, local) \in Nat
    PROVE  Adopted(n, h, local) \in Handoff /\ Adopted(n, h, local) # None
<1> DEFINE a == Adopted(n, h, local)
           authoritative == h.resume # 0 \/ handoff[n] = None
           r == IF authoritative THEN h.resume ELSE handoff[n].resume
           f == IF authoritative THEN h.boundary ELSE handoff[n].boundary
           l == local \/ (handoff[n] # None /\ handoff[n].loading)
           d == handoff[n] # None /\ handoff[n].armed
<1>1. a = [current |-> h.current, resume |-> r, boundary |-> f, suspend |-> SuspendFrame(n, h, local),
           map |-> h.map, loading |-> l, armed |-> d]
  BY DEF Adopted
<1>2. r \in Epoch \cup {0} /\ f \in Frame
  BY Facts, Basics DEF Epoch, Frame
<1>3. l \in BOOLEAN /\ d \in BOOLEAN
  OBVIOUS
<1>4. h.current \in Epoch
  BY Basics DEF Epoch
<1> HIDE DEF r, f, l, d, a
<1>5. a \in Handoff
  BY <1>1, <1>2, <1>3, <1>4 DEF Handoff, Frame
<1> QED
  BY <1>5, Basics DEF a

LEMMA RequestKeeps ==
    ASSUME BarrierInv, NEW m \in sent, m.slot \in Guests, HandleRequest(m), UNCHANGED programme
    PROVE  BarrierInv'
<1> DEFINE E == epoch[Host]
           old == handoff[Host]
           h == [current |-> E, resume |-> E + 1, boundary |-> cursor[Host], map |-> m.map]
           a == Adopted(Host, h, FALSE)
<1>0. Host \in Node /\ Host \notin Guests /\ Guests \subseteq Node
  BY Basics
<1>1. /\ TypeOK /\ Where(Host) /\ HandoffOK(Host) /\ BarrierOK(Host) /\ Says(m)
      /\ cursor[Host] \in Nat /\ loads[Host] \in 0..Scenes /\ E \in 1..(Scenes + 1)
      /\ old # None => old \in Handoff /\ old.suspend \in Nat
  BY <1>0, Facts DEF BarrierInv, Told
<1>2. /\ m.type = "Request" /\ m.epoch = E /\ E \in 1..Scenes /\ m.map = MapOf[E]
      /\ \A n \in Node : Ran(n, E - 1)
  BY <1>1 DEF HandleRequest, Says
<1>3. ~Opened(Host)
  <2>1. Opened(Host) => E = loads[Host] + 1
    BY <1>1 DEF Where
  <2>2. Ran(Host, E - 1)
    BY <1>0, <1>2
  <2> QED
    BY <1>1, <2>1, <2>2 DEF Ran, Opened, RunStages
<1>4. old # None => /\ old.current = E /\ old.map = MapOf[E] /\ old.resume = E + 1
                    /\ old.suspend = cursor[Host] /\ old.boundary = cursor[Host]
  BY <1>1, <1>3 DEF HandoffOK
<1>5. h.current = E /\ h.resume = E + 1 /\ h.boundary = cursor[Host] /\ h.map = MapOf[E]
      /\ h.resume # 0
  BY <1>1, <1>2
<1>6. /\ UNCHANGED <<cursor, epoch, origin, barrier, phase, scene, lastHost, snapshot, acks,
                     transition, releases, stage, loads, failed, programme>>
      /\ handoff' = [handoff EXCEPT ![Host] = a]
      /\ sent' = sent \cup {Suspend(a)}
  <2>1. Adoptable(Host, h)
    <3>1. TimelineMatches(Host, h)
      BY <1>1, <1>5 DEF TimelineMatches
    <3>2. ~Conflicts(Host, h)
      BY <1>1, <1>4, <1>5 DEF Conflicts
    <3> QED
      BY <3>1, <3>2 DEF Adoptable
  <2> QED
    BY <2>1 DEF HandleRequest, Adopt, inputVars, stateVars, doneVars
<1> HIDE DEF h
<1>7. SuspendFrame(Host, h, FALSE) = cursor[Host]
  BY <1>4, <1>5 DEF SuspendFrame
<1>8. /\ a \in Handoff /\ a # None /\ a.current = E /\ a.map = MapOf[E]
      /\ a.suspend = cursor[Host] /\ a.resume = E + 1 /\ a.boundary = cursor[Host]
      /\ a.loading <=> old # None /\ old.loading
  <2>1. MapOf[E] \in Maps /\ E + 1 \in 0..(Scenes + 1)
    BY <1>2, MapsOf, Basics
  <2>2. a \in Handoff /\ a # None
    BY <1>0, <1>1, <1>2, <1>5, <1>7, <2>1, AdoptedTyped
  <2>3. /\ a.current = h.current /\ a.map = h.map /\ a.suspend = SuspendFrame(Host, h, FALSE)
        /\ h.resume # 0 => a.resume = h.resume /\ a.boundary = h.boundary
    BY DEF Adopted
  <2>4. a.loading = (FALSE \/ (old # None /\ old.loading))
    BY DEF Adopted
  <2>5. a.loading <=> old # None /\ old.loading
    BY <2>4
  <2> HIDE DEF a
  <2> QED
    BY <1>5, <1>7, <2>2, <2>3, <2>5
<1> HIDE DEF a
<1>9. handoff'[Host] = a /\ \A k \in Node \ {Host} : handoff'[k] = handoff[k]
  BY <1>0, <1>1, <1>6 DEF TypeOK
<1>10. TypeOK'
  <2>1. handoff' \in [Node -> Handoff \cup {None}]
    BY <1>1, <1>6, <1>8 DEF TypeOK
  <2> QED
    BY <1>1, <1>6, <2>1 DEF TypeOK
<1>11. Onward /\ sent \subseteq sent'
  <2>1. \A k \in Node : epoch[k] \in Int
    BY Facts
  <2> QED
    BY <1>6, <2>1 DEF Onward, Later
<1>12. BoundKept
  BY <1>6, <1>8, <1>9 DEF BoundKept, Bound
<1>13. Local'
  <2>1. Others(Host)
    BY <1>6, <1>9 DEF Others, Same
  <2>2. Where(Host)' /\ BarrierOK(Host)'
    BY <1>1, <1>6 DEF Where, BarrierOK, Opened
  <2>3. HandoffOK(Host)'
    <3>1. ~Opened(Host)'
      BY <1>3, <1>6 DEF Opened
    <3>2. stage[Host] \notin RunStages <=> a.loading
      BY <1>1, <1>8 DEF HandoffOK
    <3> QED
      BY <1>1, <1>2, <1>6, <1>8, <1>9, <3>1, <3>2 DEF HandoffOK
  <2> QED
    BY <1>0, <2>1, <2>2, <2>3, LocalKept DEF BarrierInv
<1>14. Told'
  <2>1. ASSUME NEW x \in sent' \ sent PROVE Says(x)'
    <3>1. /\ x.type = "Suspend" /\ x.slot = Host /\ x.epoch = E /\ x.resume = E + 1
          /\ x.boundary = cursor[Host] /\ x.map = MapOf[E]
      BY <1>6, <1>8 DEF Suspend
    <3>2. \A n \in Node : Ran(n, x.epoch - 1)'
      BY <1>2, <1>6, <3>1 DEF Ran
    <3>3. Bound(x.epoch, x.boundary)'
      BY <1>6, <1>8, <1>9, <3>1 DEF Bound
    <3> QED
      BY <1>0, <1>1, <1>2, <3>1, <3>2, <3>3 DEF Says
  <2> QED
    BY <1>1, <1>10, <1>11, <1>12, <2>1, ToldKept DEF BarrierInv
<1>15. Order' /\ Collected'
  BY <1>6 DEF BarrierInv, Order, Collected, Installed, Ran
<1>16. Frames'
  <2>1. ASSUME NEW g \in Guests, handoff'[g] # None, ~Opened(g)'
        PROVE  /\ handoff'[g] = handoff[g] /\ ~Opened(g)
               /\ handoff[g].current \in 1..Scenes /\ handoff[g].boundary \in Nat
    <3>1. handoff'[g] = handoff[g] /\ g \in Node
      BY <1>0, <1>9
    <3>2. ~Opened(g)
      BY <1>6, <2>1 DEF Opened
    <3> QED
      BY <2>1, <3>1, <3>2, Facts
  <2>2. UNCHANGED inputVars
    BY <1>6 DEF inputVars
  <2> QED
    BY <1>12, <2>1, <2>2, FramesKept DEF BarrierInv
<1>17. Finishing'
  BY <1>6, <1>10, <1>11, FinishingKept
<1>18. OneFinish'
  <2>1. \A x \in sent' \ sent : x.type # "Begin"
    BY <1>6 DEF Suspend
  <2> QED
    BY <2>1, OneFinishKept DEF BarrierInv
<1> QED
  BY <1>6, <1>10, <1>13, <1>14, <1>15, <1>16, <1>17, <1>18 DEF BarrierInv

LEMMA SuspendKeeps ==
    ASSUME BarrierInv, NEW g \in Guests, NEW m \in sent, HandleSuspend(g, m), UNCHANGED programme
    PROVE  BarrierInv'
<1> DEFINE E == epoch[g]
           old == handoff[g]
           h == [current |-> m.epoch, resume |-> m.resume, boundary |-> m.boundary, map |-> m.map]
           a == Adopted(g, h, FALSE)
<1>0. g \in Node /\ g # Host /\ Host \in Node
  BY Basics
<1>1. /\ TypeOK /\ Where(g) /\ HandoffOK(g) /\ BarrierOK(g) /\ LastOK(g) /\ Says(m)
      /\ cursor[g] \in Nat /\ loads[g] \in 0..Scenes /\ E \in 1..(Scenes + 1)
      /\ old # None => /\ old \in Handoff /\ old.suspend \in Nat /\ old.boundary \in Nat
                       /\ old.current \in 1..Scenes
  BY <1>0, Facts DEF BarrierInv, Told
<1>2. /\ m.type = "Suspend" /\ m.epoch = E /\ E \in 1..Scenes /\ m.map = MapOf[E]
      /\ m.resume = E + 1 /\ m.boundary \in Nat /\ m.boundary >= cursor[g]
      /\ \A n \in Node : Ran(n, E - 1)
      /\ Bound(E, m.boundary)
  BY <1>1 DEF HandleSuspend, Says
<1>3. ~Opened(g)
  <2>1. Opened(g) => E = loads[g] + 1
    BY <1>1 DEF Where
  <2>2. Ran(g, E - 1)
    BY <1>0, <1>2
  <2> QED
    BY <1>1, <2>1, <2>2 DEF Ran, Opened, RunStages
<1>4. old # None => /\ old.current = E /\ old.map = MapOf[E] /\ old.resume \in {0, E + 1}
                    /\ old.resume = 0 => old.suspend = cursor[g] /\ old.loading
                    /\ cursor[g] <= old.suspend /\ old.suspend <= old.boundary
  BY <1>1, <1>3 DEF HandoffOK
<1>5. h.current = E /\ h.resume = E + 1 /\ h.boundary = m.boundary /\ h.map = MapOf[E]
      /\ h.resume # 0
  BY <1>1, <1>2
<1>6. /\ UNCHANGED <<cursor, epoch, origin, barrier, phase, scene, lastHost, snapshot, acks,
                     transition, releases, stage, loads, failed, sent, programme>>
      /\ handoff' = [handoff EXCEPT ![g] = a]
  <2>1. Adoptable(g, h)
    <3>1. TimelineMatches(g, h)
      BY <1>1, <1>2, <1>5 DEF TimelineMatches
    <3>2. ~Conflicts(g, h)
      BY <1>1, <1>4, <1>5 DEF Conflicts
    <3> QED
      BY <3>1, <3>2 DEF Adoptable
  <2> QED
    BY <2>1 DEF HandleSuspend, Adopt, inputVars, stateVars, doneVars
<1> HIDE DEF h
(* Two boundaries of one epoch are the same. *)
<1>7. old # None /\ old.resume # 0 => old.boundary = m.boundary
  <2> SUFFICES ASSUME old # None, old.resume # 0 PROVE old.boundary = m.boundary
    OBVIOUS
  <2>1. Bound(E, old.boundary)
    BY <1>3, <1>4 DEF BarrierInv, Frames
  <2>2. epoch[Host] <= E + 1 /\ epoch[Host] \in Int
    BY <1>0, EpochsClose, Facts
  <2> QED
    BY <1>1, <1>2, <2>1, <2>2 DEF Bound
<1>8. /\ SuspendFrame(g, h, FALSE) \in Nat /\ cursor[g] <= SuspendFrame(g, h, FALSE)
      /\ SuspendFrame(g, h, FALSE) <= m.boundary
  <2>1. CASE old = None
    BY <1>1, <1>2, <1>5, <2>1 DEF SuspendFrame
  <2>2. CASE old # None /\ old.loading
    <3>1. SuspendFrame(g, h, FALSE) = old.suspend
      BY <1>5, <2>2 DEF SuspendFrame
    <3>2. old.suspend <= m.boundary
      BY <1>1, <1>2, <1>4, <1>7, <2>2
    <3> QED
      BY <1>1, <1>4, <2>2, <3>1, <3>2
  <2>3. CASE old # None /\ ~old.loading
    BY <1>1, <1>2, <1>5, <2>3 DEF SuspendFrame
  <2> QED
    BY <2>1, <2>2, <2>3
<1>9. /\ a \in Handoff /\ a # None /\ a.current = E /\ a.map = MapOf[E]
      /\ a.suspend = SuspendFrame(g, h, FALSE) /\ a.resume = E + 1 /\ a.boundary = m.boundary
      /\ a.loading <=> old # None /\ old.loading
  <2>1. MapOf[E] \in Maps /\ E + 1 \in 0..(Scenes + 1)
    BY <1>2, MapsOf, Basics
  <2>2. a \in Handoff /\ a # None
    BY <1>0, <1>1, <1>2, <1>5, <1>8, <2>1, AdoptedTyped
  <2>3. /\ a.current = h.current /\ a.map = h.map /\ a.suspend = SuspendFrame(g, h, FALSE)
        /\ h.resume # 0 => a.resume = h.resume /\ a.boundary = h.boundary
    BY DEF Adopted
  <2>4. a.loading = (FALSE \/ (old # None /\ old.loading))
    BY DEF Adopted
  <2>5. a.loading <=> old # None /\ old.loading
    BY <2>4
  <2> HIDE DEF a
  <2> QED
    BY <1>5, <2>2, <2>3, <2>5
<1> HIDE DEF a
<1>10. handoff'[g] = a /\ \A k \in Node \ {g} : handoff'[k] = handoff[k]
  BY <1>0, <1>1, <1>6 DEF TypeOK
<1>11. TypeOK'
  <2>1. handoff' \in [Node -> Handoff \cup {None}]
    BY <1>1, <1>6, <1>9 DEF TypeOK
  <2> QED
    BY <1>1, <1>6, <2>1 DEF TypeOK
<1>12. Onward
  <2>1. \A k \in Node : epoch[k] \in Int
    BY Facts
  <2> QED
    BY <1>6, <2>1 DEF Onward, Later
<1>13. BoundKept
  BY <1>0, <1>6, <1>10 DEF BoundKept, Bound
<1>14. Local'
  <2>1. Others(g)
    BY <1>6, <1>10 DEF Others, Same
  <2>2. Where(g)' /\ BarrierOK(g)' /\ LastOK(g)'
    BY <1>1, <1>6 DEF Where, BarrierOK, Opened, LastOK, Adopting
  <2>3. HandoffOK(g)'
    <3>1. ~Opened(g)'
      BY <1>3, <1>6 DEF Opened
    <3>2. stage[g] \notin RunStages <=> a.loading
      BY <1>1, <1>9 DEF HandoffOK
    <3>3. epoch[g] = a.current /\ a.current \in 1..Scenes /\ a.resume # 0
      BY <1>2, <1>9
    <3> QED
      BY <1>0, <1>6, <1>8, <1>9, <1>10, <3>1, <3>2, <3>3 DEF HandoffOK
  <2> QED
    BY <1>0, <2>1, <2>2, <2>3, LocalKept DEF BarrierInv
<1>15. Told'
  BY <1>1, <1>6, <1>11, <1>12, <1>13, ToldKept DEF BarrierInv
<1>16. Order' /\ Collected'
  BY <1>6 DEF BarrierInv, Order, Collected, Installed, Ran
<1>17. Frames'
  <2>1. UNCHANGED inputVars
    BY <1>6 DEF inputVars
  <2>2. \A k \in Guests : Committed(k)' = Committed(k)
    BY <1>6 DEF Committed
  <2>3. ASSUME NEW k \in Guests, handoff'[k] # None, handoff'[k].resume # 0, ~Opened(k)',
               NEW e, NEW f, e = handoff'[k].current, f = handoff'[k].boundary
        PROVE  Bound(e, f)'
    <3>1. CASE k = g
      <4>1. Bound(e, f)
        BY <1>2, <1>9, <1>10, <2>3, <3>1
      <4>2. e \in 1..Scenes /\ f \in Nat
        BY <1>2, <1>9, <1>10, <2>3, <3>1
      <4> QED
        BY <1>13, <4>1, <4>2 DEF BoundKept
    <3>2. CASE k # g
      <4>1. k \in Node /\ handoff'[k] = handoff[k] /\ ~Opened(k)
        BY <1>6, <1>10, <2>3, <3>2, Basics DEF Opened
      <4>2. Bound(e, f)
        BY <2>3, <4>1 DEF BarrierInv, Frames
      <4>3. e \in 1..Scenes /\ f \in Nat
        BY <2>3, <4>1, Facts
      <4> QED
        BY <1>13, <4>2, <4>3 DEF BoundKept
    <3> QED
      BY <3>1, <3>2
  <2>4. ASSUME NEW k \in Guests, handoff'[k] # None, handoff'[k].resume # 0, ~Opened(k)'
        PROVE  Bound(handoff[k].current, handoff[k].boundary)'
    BY <2>3, <2>4 DEF Bound
  <2> QED
    BY <2>1, <2>2, <2>4 DEF BarrierInv, Frames, inputVars
<1>18. Finishing'
  BY <1>6, <1>11, <1>12, FinishingKept
<1>19. OneFinish'
  BY <1>6 DEF BarrierInv, OneFinish, Announced
<1> QED
  BY <1>6, <1>11, <1>14, <1>15, <1>16, <1>17, <1>18, <1>19 DEF BarrierInv

(* Who leaves a scene leaves nobody behind in its barrier: the frames he   *)
(* played of it are more than Player 1's lead.                             *)
LEMMA AllRan ==
    ASSUME BarrierInv, NEW n \in Node, SceneOver(n), NEW m \in Node
    PROVE  Ran(m, loads[n])
<1>0. Host \in Node
  BY Basics
<1>1. /\ Where(n) /\ Where(m) /\ HandoffOK(m) /\ Order /\ Frames
      /\ loads[n] \in Nat /\ loads[m] \in Nat /\ epoch[n] \in Nat /\ epoch[m] \in Nat
      /\ cursor[n] \in Nat /\ cursor[m] \in Nat /\ origin[n] \in Nat /\ origin[m] \in Nat
      /\ cursor[Host] \in Nat /\ origin[Host] \in Nat /\ epoch[Host] \in Nat
      /\ Lead \in Nat \ {0} /\ SceneFrames \in Nat /\ Lead < SceneFrames
  BY <1>0, Facts, Basics DEF BarrierInv
<1>2. stage[n] \in RunStages /\ cursor[n] >= origin[n] + SceneFrames
      /\ epoch[n] = loads[n] + 1 /\ epoch[m] >= epoch[n]
  <2>1. stage[n] \in RunStages /\ cursor[n] >= origin[n] + SceneFrames
    BY DEF SceneOver, RunStages
  <2> QED
    BY <1>1, <2>1 DEF Where, Order
<1>3. CASE stage[m] \in RunStages
  <2>1. epoch[m] = loads[m] + 1
    BY <1>1, <1>3 DEF Where
  <2> QED
    BY <1>1, <1>2, <1>3, <2>1 DEF Ran
<1>4. CASE stage[m] \notin RunStages /\ ~Opened(m)
  <2>1. epoch[m] = loads[m]
    BY <1>1, <1>4 DEF Where
  <2> QED
    BY <1>1, <1>2, <2>1 DEF Ran
<1>5. CASE Opened(m)
  <2>1. epoch[m] = loads[m] + 1 /\ cursor[m] = origin[m] /\ stage[m] \notin RunStages
    BY <1>1, <1>5 DEF Where, HandoffOK, Opened, RunStages
  <2> SUFFICES ASSUME epoch[m] = epoch[n] PROVE FALSE
    BY <1>1, <1>2, <2>1 DEF Ran
  <2>2. origin[m] = origin[n]
    BY <1>1 DEF Frames
  <2>3. epoch[Host] = epoch[m]
    <3>1. m = Host \/ m \in Guests
      BY DEF Node
    <3>2. m \in Guests => epoch[m] <= epoch[Host]
      BY <1>1 DEF Order
    <3>3. epoch[Host] > epoch[m] => FALSE
      <4>1. epoch[Host] <= loads[Host] + 1 /\ loads[Host] \in Nat
        BY <1>0, Facts DEF Where
      <4>2. loads[Host] > loads[m] => stage[m] \in RunStages
        BY <1>0, <1>1 DEF Order
      <4> QED
        BY <1>1, <2>1, <4>1, <4>2
    <3> QED
      BY <1>1, <3>1, <3>2, <3>3
  <2>4. cursor[n] <= cursor[Host]
    <3>1. CASE n = Host
      BY <1>1, <3>1
    <3>2. CASE n \in Guests
      <4>1. cursor[n] <= Committed(n)
        BY <1>1, <3>2 DEF Frames
      <4> QED
        BY <2>3, <4>1 DEF Committed
    <3> QED
      BY <3>1, <3>2 DEF Node
  <2>5. cursor[Host] <= Lead + cursor[m]
    <3>1. CASE m = Host
      BY <1>1, <3>1
    <3>2. CASE m \in Guests
      BY <1>1, <2>3, <3>2 DEF Frames
    <3> QED
      BY <3>1, <3>2 DEF Node
  <2> QED
    BY <1>1, <1>2, <2>1, <2>2, <2>4, <2>5
<1> QED
  BY <1>3, <1>4, <1>5

LEMMA BeginLoadKeeps ==
    ASSUME BarrierInv, NEW n \in Node, BeginLoad(n), UNCHANGED programme
    PROVE  BarrierInv'
<1> DEFINE E == epoch[n]
           old == handoff[n]
           h == [current |-> E, resume |-> IF n = Host THEN E + 1 ELSE 0,
                 boundary |-> cursor[n], map |-> MapOf[loads[n] + 1]]
           a == Adopted(n, h, TRUE)
           b == HandoffMessage(n, a)
           t == IF n = Host /\ transition[n] # None /\ transition[n].resumed
                THEN transition[n] ELSE None
<1>0. Host \in Node /\ Scenes \in Nat
  BY Basics
<1>1. /\ TypeOK /\ Where(n) /\ HandoffOK(n) /\ BarrierOK(n) /\ (n \in Guests => LastOK(n))
      /\ cursor[n] \in Nat /\ scene[n] \in 0..Scenes /\ loads[n] \in 0..Scenes
      /\ E \in 1..(Scenes + 1)
      /\ old # None => /\ old \in Handoff /\ old.suspend \in Nat /\ old.boundary \in Nat
                       /\ old.current \in 1..Scenes
  BY Facts
<1>2. SceneOver(n) /\ loads[n] < Scenes /\ stage[n] \in {"frontend", "racing", "results"}
  BY DEF BeginLoad, SceneOver
<1>3. /\ E = loads[n] + 1 /\ E \in 1..Scenes /\ scene[n] = loads[n]
      /\ stage[n] \in RunStages /\ ~Opened(n)
  BY <1>0, <1>1, <1>2 DEF Where, Opened, RunStages
<1>r. \A m \in Node : Ran(m, loads[n])
  BY <1>2, AllRan
<1>4. old # None => /\ old.current = E /\ old.map = MapOf[E] /\ old.resume = E + 1
                    /\ old.resume # 0 /\ ~old.loading
                    /\ cursor[n] <= old.suspend /\ old.suspend <= old.boundary
                    /\ n = Host => old.boundary = cursor[n] /\ old.suspend = cursor[n]
  BY <1>1, <1>3 DEF HandoffOK
<1>5. /\ h.current = E /\ h.boundary = cursor[n] /\ h.map = MapOf[E]
      /\ n = Host => h.resume = E + 1 /\ h.resume # 0
      /\ n # Host => h.resume = 0
  BY <1>1, <1>3
<1>6. Adoptable(n, h)
  <2>1. TimelineMatches(n, h)
    BY <1>1, <1>5 DEF TimelineMatches
  <2>2. ~Conflicts(n, h)
    BY <1>1, <1>4, <1>5 DEF Conflicts
  <2> QED
    BY <2>1, <2>2 DEF Adoptable
<1>7. /\ UNCHANGED <<cursor, epoch, origin, scene, lastHost, releases, failed, programme>>
      /\ handoff' = [handoff EXCEPT ![n] = a]
      /\ sent' = sent \cup {b}
      /\ phase' = [phase EXCEPT ![n] = FALSE]
      /\ barrier' = [barrier EXCEPT ![n] = None]
      /\ snapshot' = [snapshot EXCEPT ![n] = None]
      /\ acks' = IF n = Host THEN {} ELSE acks
      /\ stage' = [stage EXCEPT ![n] = "loading"]
      /\ loads' = [loads EXCEPT ![n] = @ + 1]
  BY <1>6 DEF BeginLoad, Adopt, EndAuthority, ClearAuthority, inputVars
<1>t. transition' = [transition EXCEPT ![n] = t]
  BY <1>1, <1>6 DEF BeginLoad, EndAuthority, TypeOK
<1> HIDE DEF h
<1>8. SuspendFrame(n, h, TRUE) = IF n # Host /\ old # None THEN old.suspend ELSE cursor[n]
  <2>1. CASE old = None
    BY <1>5, <2>1 DEF SuspendFrame
  <2>2. CASE old # None
    BY <1>4, <1>5, <2>2 DEF SuspendFrame
  <2> QED
    BY <2>1, <2>2
<1>9. /\ a \in Handoff /\ a # None /\ a.current = E /\ a.map = MapOf[E]
      /\ n = Host \/ old = None => a.suspend = cursor[n] /\ a.boundary = cursor[n]
      /\ n = Host => a.resume = E + 1
      /\ n # Host /\ old = None => a.resume = 0
      /\ n # Host /\ old # None => /\ a.resume = E + 1 /\ a.boundary = old.boundary
                                   /\ a.suspend = old.suspend
  <2>1. MapOf[E] \in Maps /\ E + 1 \in 0..(Scenes + 1) /\ 0 \in 0..(Scenes + 1)
    BY <1>0, <1>3, MapsOf
  <2>2. SuspendFrame(n, h, TRUE) \in Nat
    BY <1>1, <1>8
  <2>3. a \in Handoff /\ a # None
    BY <1>1, <1>3, <1>5, <2>1, <2>2, AdoptedTyped
  <2>4. /\ a.current = h.current /\ a.map = h.map /\ a.suspend = SuspendFrame(n, h, TRUE)
        /\ h.resume # 0 \/ old = None => a.resume = h.resume /\ a.boundary = h.boundary
        /\ ~(h.resume # 0 \/ old = None) => a.resume = old.resume /\ a.boundary = old.boundary
    BY DEF Adopted
  <2> HIDE DEF a
  <2> QED
    BY <1>4, <1>5, <1>8, <2>3, <2>4
<1>l. a.loading
  BY DEF Adopted
<1> HIDE DEF a
<1>10. /\ handoff'[n] = a /\ ~phase'[n] /\ barrier'[n] = None /\ stage'[n] = "loading"
       /\ loads'[n] = loads[n] + 1 /\ transition'[n] = t
       /\ \A m \in Node \ {n} : /\ handoff'[m] = handoff[m] /\ phase'[m] = phase[m]
                                /\ barrier'[m] = barrier[m] /\ stage'[m] = stage[m]
                                /\ loads'[m] = loads[m] /\ transition'[m] = transition[m]
  BY <1>1, <1>7, <1>t DEF TypeOK
<1>11. TypeOK'
  <2>1. handoff' \in [Node -> Handoff \cup {None}] /\ stage' \in [Node -> Stage]
    BY <1>1, <1>7, <1>9 DEF TypeOK, Stage
  <2>2. loads' \in [Node -> 0..Scenes]
    <3>1. loads[n] + 1 \in 0..Scenes
      BY <1>0, <1>1, <1>2
    <3> QED
      BY <1>1, <1>7, <3>1 DEF TypeOK
  <2>3. barrier' \in [Node -> Barrier \cup {None}] /\ phase' \in [Node -> BOOLEAN]
        /\ snapshot' \in [Node -> Maps \cup {None}] /\ acks' \subseteq Node
    BY <1>1, <1>7 DEF TypeOK
  <2>4. transition' \in [Node -> Transition \cup {None}]
    BY <1>1, <1>t DEF TypeOK
  <2> QED
    BY <1>1, <1>7, <2>1, <2>2, <2>3, <2>4 DEF TypeOK
<1>12. Onward /\ sent \subseteq sent'
  <2>1. \A k \in Node : epoch[k] \in Int /\ loads[k] \in Int
    BY Facts
  <2> QED
    BY <1>7, <1>10, <2>1 DEF Onward, Later
<1>13. BoundKept
  <2>1. CASE n = Host
    BY <1>3, <1>7, <1>9, <1>10, <2>1 DEF BoundKept, Bound
  <2>2. CASE n # Host
    BY <1>0, <1>7, <1>10, <2>2 DEF BoundKept, Bound
  <2> QED
    BY <2>1, <2>2
<1>14. Local'
  <2>1. Others(n)
    BY <1>7, <1>10 DEF Others, Same
  <2>2. ~Opened(n)'
    BY <1>10 DEF Opened
  <2>3. Where(n)'
    BY <1>1, <1>3, <1>7, <1>10, <2>2 DEF Where, RunStages
  <2>4. HandoffOK(n)'
    <3>1. /\ cursor[n] <= a.suspend /\ a.suspend <= a.boundary /\ a.resume \in {0, E + 1}
          /\ a.resume = 0 => n # Host /\ a.suspend = cursor[n]
      BY <1>1, <1>3, <1>4, <1>9
    <3> QED
      BY <1>3, <1>7, <1>9, <1>l, <1>10, <2>2, <3>1 DEF HandoffOK, RunStages
  <2>5. BarrierOK(n)'
    BY <1>10 DEF BarrierOK
  <2>6. n \in Guests => LastOK(n)'
    <3>1. n \in Guests => lastHost[n] = loads[n]
      BY <1>1, <1>3 DEF LastOK, Adopting, RunStages
    <3> QED
      BY <1>1, <1>7, <1>10, <3>1 DEF LastOK, Adopting
  <2> QED
    BY <2>1, <2>3, <2>4, <2>5, <2>6, LocalKept DEF BarrierInv
<1>15. Told'
  <2>1. ASSUME NEW x \in sent' \ sent PROVE Says(x)'
    <3>1. /\ x.type \in {"Request", "Suspend"} /\ x.slot = n /\ x.epoch = E
          /\ x.boundary = a.boundary /\ x.map = MapOf[E]
          /\ x.type = "Suspend" => n = Host /\ x.resume = E + 1
      <4>1. x = IF n = Host THEN Suspend(a) ELSE Request(n, a)
        BY <1>7 DEF HandoffMessage
      <4>2. CASE n = Host
        BY <1>9, <4>1, <4>2 DEF Suspend
      <4>3. CASE n # Host
        BY <1>9, <4>1, <4>3 DEF Request
      <4> QED
        BY <4>2, <4>3
    <3>2. \A m \in Node : Ran(m, x.epoch - 1)'
      <4>1. ASSUME NEW m \in Node, NEW k \in Int, k = loads[n] PROVE Ran(m, k)'
        <5>1. Ran(m, k)
          BY <1>r, <4>1
        <5> QED
          BY <1>1, <1>11, <1>12, <5>1, OnwardKeeps
      <4>2. x.epoch - 1 = loads[n] /\ loads[n] \in Int
        BY <1>1, <1>3, <3>1
      <4> QED
        BY <4>1, <4>2
    <3>3. x.type = "Suspend" => Bound(x.epoch, x.boundary)'
      BY <1>7, <1>9, <1>10, <3>1 DEF Bound
    <3>4. x.boundary \in Nat
      BY <1>1, <1>9, <3>1
    <3> QED
      BY <1>3, <3>1, <3>2, <3>3, <3>4 DEF Says
  <2> QED
    BY <1>1, <1>11, <1>12, <1>13, <2>1, ToldKept DEF BarrierInv
<1>16. Order'
  <2>0. Order /\ \A m \in Node : loads[m] \in Int
    BY Facts DEF BarrierInv
  <2>1. ASSUME NEW m \in Node, NEW k \in Node, loads'[k] > loads'[m]
        PROVE  loads'[k] = loads'[m] + 1 /\ stage'[m] \in RunStages
    <3>1. CASE k = n /\ m # n
      <4>1. Ran(m, loads[n]) /\ loads'[k] = loads[n] + 1 /\ loads'[m] = loads[m]
            /\ stage'[m] = stage[m]
        BY <1>r, <1>10, <3>1
      <4> QED
        BY <2>0, <2>1, <4>1 DEF Ran
    <3>2. CASE m = n
      <4>1. k # n /\ loads'[k] = loads[k] /\ loads'[n] = loads[n] + 1
        BY <1>10, <2>0, <2>1, <3>2
      <4>2. loads[k] > loads[n] => loads[k] = loads[n] + 1
        BY <2>0 DEF Order
      <4> QED
        BY <2>0, <2>1, <3>2, <4>1, <4>2
    <3>3. CASE k # n /\ m # n
      BY <1>10, <2>0, <2>1, <3>3 DEF Order
    <3> QED
      BY <3>1, <3>2, <3>3
  <2>2. ASSUME NEW m \in Node, NEW k \in Node, stage'[k] \in RunStages
        PROVE  epoch'[m] >= loads'[k] + 1
    <3>1. k # n
      BY <1>10, <2>2 DEF RunStages
    <3> QED
      BY <1>7, <1>10, <2>0, <2>2, <3>1 DEF Order
  <2>3. ASSUME NEW g \in Guests, stage'[g] \in RunStages PROVE Ran(Host, loads[g])'
    <3>1. g # n /\ g \in Node
      BY <1>10, <2>3, Basics DEF RunStages
    <3>2. Ran(Host, loads[g]) /\ loads'[g] = loads[g]
      BY <1>10, <2>0, <2>3, <3>1 DEF Order
    <3>3. \A k \in Int : Ran(Host, k) => Ran(Host, k)'
      BY <1>0, <1>1, <1>11, <1>12, OnwardKeeps
    <3> QED
      BY <2>0, <3>1, <3>2, <3>3 DEF Ran
  <2>4. ASSUME NEW g \in Guests, stage'[Host] \in RunStages \cup {"go"}
        PROVE  Installed(g, loads[Host])'
    <3>1. Host # n /\ g \in Node
      BY <1>10, <2>4, Basics DEF RunStages
    <3>2. Installed(g, loads[Host]) /\ loads'[Host] = loads[Host]
      BY <1>0, <1>10, <2>0, <2>4, <3>1 DEF Order
    <3>3. \A k \in Int : Installed(g, k) => Installed(g, k)'
      BY <1>1, <1>11, <1>12, <3>1, OnwardKeeps
    <3> QED
      BY <1>0, <2>0, <3>2, <3>3 DEF Installed
  <2> QED
    BY <1>7, <2>0, <2>1, <2>2, <2>3, <2>4 DEF Order
<1>17. Collected'
  <2>1. Collected
    BY DEF BarrierInv
  <2>2. stage'[Host] = "loading" => acks' = {}
    BY <1>0, <1>7, <1>10, <2>1 DEF Collected
  <2>3. \A g \in acks' \ {Host} : g \in acks /\ loads'[Host] = loads[Host]
    BY <1>0, <1>7, <1>10
  <2>4. \A m \in Node : barrier'[m] # None => barrier'[m] = barrier[m] /\ loads'[m] = loads[m]
    BY <1>10
  <2> QED
    BY <1>0, <1>1, <1>11, <1>12, <2>1, <2>2, <2>3, <2>4, CollectedKept, Basics
<1>18. Frames'
  <2>1. UNCHANGED inputVars
    BY <1>7 DEF inputVars
  <2>2. \A k \in Guests : Committed(k)' = Committed(k)
    BY <1>7 DEF Committed
  <2>3. ASSUME NEW k \in Guests, handoff'[k] # None, handoff'[k].resume # 0, ~Opened(k)',
               NEW e, NEW f, e = handoff'[k].current, f = handoff'[k].boundary
        PROVE  Bound(e, f)'
    <3>1. CASE k = n
      <4>1. old # None /\ old.resume # 0 /\ e = old.current /\ f = old.boundary
            /\ e \in 1..Scenes /\ f \in Nat
        BY <1>1, <1>4, <1>9, <1>10, <2>3, <3>1, Basics
      <4>2. Bound(e, f)
        BY <1>3, <3>1, <4>1 DEF BarrierInv, Frames
      <4> QED
        BY <1>13, <4>1, <4>2 DEF BoundKept
    <3>2. CASE k # n
      <4>1. k \in Node /\ handoff'[k] = handoff[k] /\ ~Opened(k)
        BY <1>10, <2>3, <3>2, Basics DEF Opened
      <4>2. Bound(e, f)
        BY <2>3, <4>1 DEF BarrierInv, Frames
      <4>3. e \in 1..Scenes /\ f \in Nat
        BY <2>3, <4>1, Facts
      <4> QED
        BY <1>13, <4>2, <4>3 DEF BoundKept
    <3> QED
      BY <3>1, <3>2
  <2>4. ASSUME NEW k \in Guests, handoff'[k] # None, handoff'[k].resume # 0, ~Opened(k)'
        PROVE  Bound(handoff[k].current, handoff[k].boundary)'
    BY <2>3, <2>4 DEF Bound
  <2> QED
    BY <2>1, <2>2, <2>4 DEF BarrierInv, Frames, inputVars
<1>19. Finishing'
  <2>1. \A m \in Node : \/ transition'[m] = None /\ stage'[m] # "sealing"
                        \/ /\ transition'[m] = transition[m] /\ scene'[m] = scene[m]
                           /\ stage'[m] = "sealing" => stage[m] = "sealing" \/ transition[m] # None
    BY <1>7, <1>10
  <2>2. \A m \in Node : stage'[m] = "results" => stage[m] = "results" /\ loads'[m] = loads[m]
    BY <1>10
  <2> QED
    BY <1>7, <1>11, <1>12, <2>1, <2>2, FinishingKept
<1>20. OneFinish'
  <2>1. \A x \in sent' \ sent : x.type # "Begin"
    <3>1. b = IF n = Host THEN Suspend(a) ELSE Request(n, a)
      BY DEF HandoffMessage
    <3>2. b.type # "Begin"
      BY <3>1 DEF Suspend, Request
    <3> QED
      BY <1>7, <3>2
  <2> QED
    BY <2>1, OneFinishKept DEF BarrierInv
<1> QED
  BY <1>7, <1>11, <1>14, <1>15, <1>16, <1>17, <1>18, <1>19, <1>20, Facts DEF BarrierInv

(* Behind the barrier the checks of poll_gameplay_resume cannot fail. *)
LEMMA GoFacts ==
    ASSUME BarrierInv, NEW n \in Node, stage[n] = "go"
    PROVE  /\ MayResume(n) /\ MayArm(n)
           /\ barrier[n] \in Barrier /\ barrier[n] # None
           /\ barrier[n].scene = loads[n] /\ barrier[n].map = MapOf[loads[n]]
           /\ scene[n] = loads[n] /\ loads[n] \in 1..Scenes /\ phase[n]
           /\ handoff[n] # None /\ handoff[n] \in Handoff
           /\ handoff[n].current = loads[n] /\ handoff[n].resume = loads[n] + 1
           /\ handoff[n].boundary \in Nat
           /\ n \notin barrier[n].armed => epoch[n] = loads[n]
           /\ n \in barrier[n].armed => epoch[n] = loads[n] + 1
<1>1. /\ Where(n) /\ HandoffOK(n) /\ BarrierOK(n)
      /\ barrier[n] # None => barrier[n] \in Barrier
      /\ loads[n] \in 0..Scenes /\ epoch[n] \in 1..(Scenes + 1) /\ Scenes \in Nat
      /\ handoff[n] # None => /\ handoff[n] \in Handoff /\ handoff[n].current \in 1..Scenes
                              /\ handoff[n].boundary \in Nat
  BY Facts, Basics
<1>2. /\ scene[n] = loads[n] /\ loads[n] \in 1..Scenes /\ phase[n]
      /\ epoch[n] = IF Opened(n) THEN loads[n] + 1 ELSE loads[n]
      /\ Opened(n) <=> n \in barrier[n].armed
  BY <1>1 DEF Where, RunStages, Opened
<1>3. /\ barrier[n] # None /\ barrier[n].synced /\ barrier[n].baseline
      /\ barrier[n].scene = loads[n] /\ barrier[n].map = MapOf[loads[n]]
  BY <1>1 DEF BarrierOK
<1>4. /\ handoff[n] # None /\ handoff[n].loading
      /\ epoch[n] = IF Opened(n) THEN handoff[n].current + 1 ELSE handoff[n].current
      /\ handoff[n].resume \in {0, handoff[n].current + 1} /\ handoff[n].resume # 0
  BY <1>1 DEF HandoffOK, RunStages
<1>5. handoff[n].current = loads[n]
  BY <1>1, <1>2, <1>4
<1>6. handoff[n].resume = loads[n] + 1
  BY <1>4, <1>5
<1> QED
  BY <1>1, <1>2, <1>3, <1>4, <1>5, <1>6 DEF MayResume, MayArm

(* Opening the next input epoch at the boundary, by Player 1 or by a guest *)
(* that Player 1 told to.                                                  *)
LEMMA ArmKeeps ==
    ASSUME BarrierInv, NEW n \in Node, stage[n] = "go", n \notin barrier[n].armed,
           n \in Guests => barrier[n].arm,
           NEW b, b = [barrier[n] EXCEPT !.arm = TRUE], ArmEpoch(n, b),
           NEW type, type = IF n = Host THEN "Arm" ELSE "Armed",
           sent' = sent \cup {Stamp(type, n, scene[n], b.map)},
           UNCHANGED <<phase, scene, lastHost, stateVars, doneVars, stage, loads,
                       failed, programme>>
    PROVE  BarrierInv'
<1> DEFINE k == loads[n]
           f == handoff[n].boundary
           x == Stamp(type, n, scene[n], b.map)
           c == [b EXCEPT !.armed = @ \cup {n}]
<1>0. /\ Host \in Node /\ Host \notin Guests /\ Guests \subseteq Node /\ Scenes \in Nat
      /\ Lead \in Nat
  BY Basics
<1>1. /\ TypeOK /\ Where(n) /\ HandoffOK(n) /\ BarrierOK(n) /\ (n \in Guests => LastOK(n))
      /\ cursor[n] \in Nat
  BY Facts
<1>2. /\ barrier[n] \in Barrier /\ barrier[n] # None
      /\ barrier[n].scene = k /\ barrier[n].map = MapOf[k]
      /\ scene[n] = k /\ k \in 1..Scenes /\ epoch[n] = k
      /\ handoff[n] # None /\ handoff[n] \in Handoff
      /\ handoff[n].current = k /\ handoff[n].resume = k + 1 /\ f \in Nat
  BY GoFacts
<1>3. ~Opened(n)
  BY DEF Opened
<1>4. /\ UNCHANGED <<phase, scene, lastHost, snapshot, acks, transition, releases, stage, loads,
                     failed, programme>>
      /\ epoch' = [epoch EXCEPT ![n] = k + 1]
      /\ cursor' = [cursor EXCEPT ![n] = f]
      /\ origin' = [origin EXCEPT ![n] = f]
      /\ handoff' = [handoff EXCEPT ![n].armed = TRUE]
      /\ barrier' = [barrier EXCEPT ![n] = c]
  BY <1>2 DEF ArmEpoch, stateVars, doneVars
<1>5. /\ c \in Barrier /\ c # None /\ c.scene = k /\ c.map = MapOf[k]
      /\ c.armed = barrier[n].armed \cup {n} /\ c.arm = TRUE /\ c.go = barrier[n].go
      /\ c.synced = barrier[n].synced /\ c.baseline = barrier[n].baseline
      /\ b.map = MapOf[k]
  <2>1. b \in Barrier
    BY <1>2 DEF Barrier
  <2>2. /\ b.scene = k /\ b.map = MapOf[k] /\ b.armed = barrier[n].armed /\ b.arm = TRUE
        /\ b.go = barrier[n].go /\ b.synced = barrier[n].synced
        /\ b.baseline = barrier[n].baseline
    BY <1>2 DEF Barrier
  <2>3. c \in Barrier
    BY <2>1 DEF Barrier
  <2>4. /\ c.scene = b.scene /\ c.map = b.map /\ c.armed = b.armed \cup {n} /\ c.arm = b.arm
        /\ c.go = b.go /\ c.synced = b.synced /\ c.baseline = b.baseline
    BY <2>1 DEF Barrier
  <2> QED
    BY <2>2, <2>3, <2>4, Basics
<1>6. x.type = type /\ x.slot = n /\ x.scene = k /\ x.map = MapOf[k]
  BY <1>2, <1>5 DEF Stamp
<1> HIDE DEF c, x
<1>7. /\ epoch'[n] = k + 1 /\ cursor'[n] = f /\ origin'[n] = f /\ barrier'[n] = c
      /\ \A m \in Node \ {n} : /\ epoch'[m] = epoch[m] /\ cursor'[m] = cursor[m]
                               /\ origin'[m] = origin[m] /\ handoff'[m] = handoff[m]
                               /\ barrier'[m] = barrier[m]
  BY <1>1, <1>4 DEF TypeOK
<1>8. /\ handoff'[n] \in Handoff /\ handoff'[n] # None
      /\ handoff'[n].current = k /\ handoff'[n].resume = k + 1 /\ handoff'[n].boundary = f
      /\ handoff'[n].suspend = handoff[n].suspend /\ handoff'[n].map = handoff[n].map
      /\ handoff'[n].loading = handoff[n].loading
  <2>1. handoff'[n] = [handoff[n] EXCEPT !.armed = TRUE]
    BY <1>1, <1>4 DEF TypeOK
  <2>2. handoff'[n] \in Handoff
    BY <1>2, <2>1 DEF Handoff
  <2> QED
    BY <1>2, <2>1, <2>2, Basics DEF Handoff
<1>9. TypeOK'
  <2>1. cursor' \in [Node -> Frame] /\ origin' \in [Node -> Frame]
    BY <1>1, <1>2, <1>4 DEF TypeOK, Frame
  <2>2. epoch' \in [Node -> Epoch]
    BY <1>0, <1>1, <1>2, <1>4 DEF TypeOK, Epoch
  <2>3. barrier' \in [Node -> Barrier \cup {None}]
    BY <1>1, <1>4, <1>5 DEF TypeOK
  <2>4. handoff' \in [Node -> Handoff \cup {None}]
    <3>1. handoff' = [handoff EXCEPT ![n] = handoff'[n]]
      BY <1>1, <1>4 DEF TypeOK
    <3> QED
      BY <1>1, <1>8, <3>1 DEF TypeOK
  <2> QED
    BY <1>1, <1>4, <2>1, <2>2, <2>3, <2>4 DEF TypeOK
<1>10. Onward /\ sent \subseteq sent'
  <2>1. \A m \in Node : epoch[m] \in Int
    BY Facts
  <2> QED
    BY <1>2, <1>4, <1>7, <2>1 DEF Onward, Later
(* Everybody waits for Player 1, and a guest opens the epoch he opened.    *)
<1>11. n = Host => \A g \in Guests : epoch[g] = k /\ g # n
  <2> SUFFICES ASSUME n = Host, NEW g \in Guests PROVE epoch[g] = k
    BY <1>0
  <2>1. epoch[g] <= k /\ Installed(g, k)
    BY <1>2 DEF BarrierInv, Order
  <2>2. Where(g) /\ loads[g] \in Nat /\ epoch[g] \in Nat
    BY <1>0, Facts
  <2> QED
    BY <1>2, <2>1, <2>2 DEF Where, Installed
<1>12. n \in Guests => epoch[Host] = k + 1 /\ origin[Host] = f /\ n # Host
  <2> SUFFICES ASSUME n \in Guests PROVE epoch[Host] = k + 1 /\ origin[Host] = f
    BY <1>0
  <2>1. epoch[Host] >= k + 1 /\ epoch[Host] \in Nat
    BY <1>0, <1>2, Facts DEF BarrierInv, Collected
  <2>2. epoch[Host] = k + 1
    BY <1>2, <2>1, EpochsClose
  <2>3. Bound(k, f)
    BY <1>2, <1>3 DEF BarrierInv, Frames
  <2> QED
    BY <1>2, <2>2, <2>3 DEF Bound
<1>13. n = Host => cursor[Host] = f
  BY <1>1, <1>2 DEF HandoffOK
<1>14. BoundKept
  <2>1. CASE n = Host
    <3>1. epoch[Host] = k /\ epoch'[Host] = k + 1 /\ origin'[Host] = f /\ cursor[Host] = f
      BY <1>2, <1>7, <1>13, <2>1
    <3> QED
      BY <1>2, <3>1 DEF BoundKept, Bound
  <2>2. CASE n # Host
    BY <1>0, <1>7, <2>2 DEF BoundKept, Bound
  <2> QED
    BY <2>1, <2>2
<1>15. Local'
  <2>1. Others(n)
    BY <1>4, <1>7 DEF Others, Same
  <2>2. Opened(n)' /\ stage'[n] = "go"
    BY <1>4, <1>5, <1>7 DEF Opened
  <2>3. Where(n)'
    BY <1>1, <1>2, <1>4, <1>7, <2>2 DEF Where, RunStages
  <2>4. HandoffOK(n)'
    <3>1. /\ handoff[n].map = MapOf[k] /\ handoff[n].loading
          /\ n = Host => handoff[n].suspend = f
      BY <1>1, <1>2, <1>13 DEF HandoffOK, RunStages
    <3> QED
      BY <1>2, <1>7, <1>8, <2>2, <3>1 DEF HandoffOK, RunStages
  <2>5. BarrierOK(n)'
    BY <1>1, <1>2, <1>4, <1>5, <1>7, <2>2 DEF BarrierOK, RunStages
  <2>6. n \in Guests => LastOK(n)'
    BY <1>1, <1>4, <2>2 DEF LastOK, Adopting
  <2> QED
    BY <2>1, <2>3, <2>4, <2>5, <2>6, LocalKept DEF BarrierInv
<1>16. Told'
  <2>1. ASSUME NEW y \in sent' \ sent PROVE Says(y)'
    <3>1. y = x
      BY DEF x
    <3>2. MapOf[k] \in Maps
      BY <1>2, MapsOf
    <3>3. y.type = "Arm" => epoch'[Host] >= y.scene + 1
      BY <1>2, <1>6, <1>7, <3>1
    <3>4. y.type = "Armed" => epoch'[y.slot] >= y.scene + 1
      BY <1>2, <1>6, <1>7, <3>1
    <3>5. y.type \in {"Arm", "Armed"} /\ y.slot = n /\ y.scene = k /\ y.map = MapOf[k]
      BY <1>6, <3>1
    <3> QED
      BY <1>2, <3>2, <3>3, <3>4, <3>5 DEF Says
  <2> QED
    BY <1>1, <1>9, <1>10, <1>14, <2>1, ToldKept DEF BarrierInv
<1>17. Order'
  <2>0. Order /\ \A m \in Node : epoch[m] \in Int /\ epoch'[m] \in Int /\ loads[m] \in Int
                                  /\ epoch'[m] >= epoch[m]
    BY <1>10, <1>9, Facts, Typed DEF BarrierInv, Onward, TypeOK, Epoch
  <2>1. \A m, j \in Node : loads'[j] > loads'[m] => loads'[j] = loads'[m] + 1 /\ stage'[m] \in RunStages
    BY <1>4, <2>0 DEF Order
  <2>2. \A m, j \in Node : stage'[j] \in RunStages => epoch'[m] >= loads'[j] + 1
    BY <1>4, <2>0 DEF Order
  <2>3. \A g \in Guests : epoch'[g] <= epoch'[Host]
    <3>1. CASE n = Host
      BY <1>0, <1>2, <1>7, <1>11, <3>1
    <3>2. CASE n \in Guests
      <4>1. epoch'[Host] = epoch[Host] /\ epoch'[n] = epoch[Host]
        BY <1>0, <1>7, <1>12, <3>2
      <4> QED
        BY <1>0, <1>7, <2>0, <4>1 DEF Order
    <3> QED
      BY <3>1, <3>2 DEF Node
  <2>4. \A g \in Guests : stage'[g] \in RunStages => Ran(Host, loads[g])'
    BY <1>4, <2>0 DEF Order, Ran
  <2>5. stage'[Host] \in RunStages \cup {"go"} => \A g \in Guests : Installed(g, loads[Host])'
    BY <1>4, <2>0 DEF Order, Installed
  <2> QED
    BY <2>1, <2>2, <2>3, <2>4, <2>5 DEF Order
<1>18. Collected'
  <2>1. Collected
    BY DEF BarrierInv
  <2>2. stage'[Host] = "loading" => acks' = {}
    BY <1>4, <2>1 DEF Collected
  <2>3. \A g \in acks' \ {Host} : g \in acks /\ loads'[Host] = loads[Host]
    BY <1>4
  <2>4. ASSUME NEW g \in Guests, barrier'[g] # None
        PROVE  /\ loads'[g] = loads[g] /\ barrier[g] # None
               /\ barrier'[g].arm => barrier[g].arm
               /\ barrier'[g].go => barrier[g].go
    <3>1. CASE g = n
      BY <1>2, <1>4, <1>5, <1>7, <3>1
    <3>2. CASE g # n
      BY <1>0, <1>4, <1>7, <2>4, <3>2
    <3> QED
      BY <3>1, <3>2
  <2>5. ASSUME barrier'[Host] # None, NEW g \in barrier'[Host].armed
        PROVE  \/ barrier[Host] # None /\ g \in barrier[Host].armed
               \/ epoch'[g] >= loads[Host] + 1
    <3>1. CASE n = Host
      BY <1>2, <1>5, <1>7, <2>5, <3>1
    <3>2. CASE n # Host
      BY <1>0, <1>7, <2>5, <3>2
    <3> QED
      BY <3>1, <3>2
  <2>6. loads'[Host] = loads[Host]
    BY <1>4
  <2> QED
    BY <1>1, <1>9, <1>10, <2>1, <2>2, <2>3, <2>4, <2>5, <2>6, CollectedKept
<1>19. Frames'
  <2>0. Frames /\ \A m \in Node : /\ cursor[m] \in Nat /\ origin[m] \in Nat /\ origin[m] <= cursor[m]
    BY Facts DEF BarrierInv, Where
  <2>1. \A m, j \in Node : epoch'[m] = epoch'[j] => origin'[m] = origin'[j]
    <3>1. CASE n = Host
      <4>1. \A g \in Node \ {n} : epoch'[g] = k
        BY <1>7, <1>11, <3>1 DEF Node
      <4> QED
        BY <1>2, <1>7, <1>11, <2>0, <3>1, <4>1 DEF Frames, Node
    <3>2. CASE n \in Guests
      <4>1. \A j \in Node : epoch[j] = k + 1 => origin[j] = f
        BY <1>0, <1>12, <2>0, <3>2 DEF Frames
      <4> QED
        BY <1>7, <2>0, <4>1 DEF Frames
    <3> QED
      BY <3>1, <3>2 DEF Node
  <2>2. ASSUME NEW g \in Guests
        PROVE  /\ cursor'[g] <= Committed(g)'
               /\ cursor'[Host] <= Lead + (IF epoch'[g] = epoch'[Host] THEN cursor'[g]
                                                                     ELSE origin'[Host])
    <3>0. /\ cursor[g] <= (IF epoch[g] = epoch[Host] THEN cursor[Host] ELSE origin[Host])
          /\ cursor[Host] <= Lead + (IF epoch[g] = epoch[Host] THEN cursor[g] ELSE origin[Host])
      BY <2>0 DEF Frames, Committed
    <3>1. CASE n = Host
      <4>1. /\ epoch'[g] = k /\ epoch'[Host] = k + 1 /\ cursor'[g] = cursor[g]
            /\ cursor'[Host] = f /\ origin'[Host] = f /\ cursor[Host] = f
            /\ epoch[g] = epoch[Host]
        BY <1>0, <1>2, <1>7, <1>11, <1>13, <3>1
      <4> QED
        BY <1>0, <1>2, <3>0, <4>1 DEF Committed
    <3>2. CASE n = g
      <4>1. /\ epoch'[g] = k + 1 /\ epoch'[Host] = k + 1 /\ cursor'[g] = f
            /\ cursor'[Host] = cursor[Host] /\ origin'[Host] = f /\ origin[Host] = f
            /\ epoch[g] # epoch[Host] /\ origin[Host] <= cursor[Host]
        BY <1>0, <1>2, <1>7, <1>12, <2>0, <3>2
      <4> QED
        BY <1>0, <1>2, <3>0, <4>1 DEF Committed
    <3>3. CASE n # Host /\ n # g
      BY <1>0, <1>7, <3>0, <3>3 DEF Committed
    <3> QED
      BY <3>1, <3>2, <3>3
  <2>3. ASSUME NEW j \in Guests, handoff'[j] # None, handoff'[j].resume # 0, ~Opened(j)',
               NEW e, NEW d, e = handoff'[j].current, d = handoff'[j].boundary
        PROVE  Bound(e, d)'
    <3>1. j # n
      BY <1>4, <1>5, <1>7, <2>3 DEF Opened
    <3>2. j \in Node /\ handoff'[j] = handoff[j] /\ ~Opened(j)
      BY <1>0, <1>4, <1>7, <2>3, <3>1 DEF Opened
    <3>3. Bound(e, d)
      BY <2>0, <2>3, <3>2 DEF Frames
    <3>4. e \in 1..Scenes /\ d \in Nat
      BY <2>3, <3>2, Facts
    <3> QED
      BY <1>14, <3>3, <3>4 DEF BoundKept
  <2>4. ASSUME NEW j \in Guests, handoff'[j] # None, handoff'[j].resume # 0, ~Opened(j)'
        PROVE  Bound(handoff[j].current, handoff[j].boundary)'
    BY <2>3, <2>4 DEF Bound
  <2> QED
    BY <2>1, <2>2, <2>4 DEF Frames
<1>20. Finishing'
  BY <1>4, <1>9, <1>10, FinishingKept
<1>21. OneFinish'
  <2>1. \A y \in sent' \ sent : y.type # "Begin"
    BY <1>6 DEF x
  <2> QED
    BY <2>1, OneFinishKept DEF BarrierInv
<1> QED
  BY <1>4, <1>9, <1>15, <1>16, <1>17, <1>18, <1>19, <1>20, <1>21, Facts DEF BarrierInv

(* Leaving the barrier, by Player 1 when all are armed or by a guest that  *)
(* Player 1 released.                                                      *)
LEMMA ReleaseKeeps ==
    ASSUME BarrierInv, NEW n \in Node, stage[n] = "go", n \in barrier[n].armed,
           \A m \in Node : epoch[m] >= loads[n] + 1,
           n \in Guests => Ran(Host, loads[n]),
           NEW b, b = [barrier[n] EXCEPT !.go = TRUE], Release(n, b),
           sent' = IF n = Host THEN sent \cup {Stamp("Go", Host, scene[n], b.map)} ELSE sent,
           UNCHANGED <<inputVars, scene, lastHost, loads, failed, programme>>
    PROVE  BarrierInv'
<1> DEFINE k == loads[n]
           x == Stamp("Go", Host, scene[n], b.map)
           r == <<"gameplay", scene[n], b.map>>
           t == IF n = Host /\ transition[n] # None /\ transition[n].resumed
                THEN transition[n] ELSE None
           over == programme[loads[n]] = "cutscene"
<1>0. /\ Host \in Node /\ Host \notin Guests /\ Guests \subseteq Node /\ Scenes \in Nat
  BY Basics
<1>1. /\ TypeOK /\ Where(n) /\ HandoffOK(n) /\ BarrierOK(n) /\ (n \in Guests => LastOK(n))
  BY Facts
<1>2. /\ barrier[n] \in Barrier /\ barrier[n] # None
      /\ barrier[n].scene = k /\ barrier[n].map = MapOf[k]
      /\ scene[n] = k /\ k \in 1..Scenes /\ epoch[n] = k + 1 /\ phase[n]
      /\ handoff[n] # None /\ handoff[n].current = k
  BY GoFacts
<1>3. /\ b \in Barrier /\ b # None /\ b.scene = k /\ b.map = MapOf[k]
      /\ b.armed = barrier[n].armed /\ b.arm = barrier[n].arm /\ b.go = TRUE
      /\ b.synced = barrier[n].synced /\ b.baseline = barrier[n].baseline
  <2>1. b \in Barrier
    BY <1>2 DEF Barrier
  <2> QED
    BY <1>2, <2>1, Basics DEF Barrier
<1>4. /\ UNCHANGED <<cursor, epoch, origin, scene, lastHost, loads, failed, programme>>
      /\ handoff' = [handoff EXCEPT ![n] = None]
      /\ releases' = [releases EXCEPT ![n] = @ \cup {r}]
      /\ over => /\ phase' = [phase EXCEPT ![n] = FALSE]
                 /\ barrier' = [barrier EXCEPT ![n] = None]
                 /\ snapshot' = [snapshot EXCEPT ![n] = None]
                 /\ acks' = IF n = Host THEN {} ELSE acks
                 /\ stage' = [stage EXCEPT ![n] = "frontend"]
      /\ ~over => /\ UNCHANGED <<phase, snapshot, acks, transition>>
                  /\ barrier' = [barrier EXCEPT ![n] = b]
                  /\ stage' = [stage EXCEPT ![n] = "racing"]
  BY DEF Release, Remember, EndAuthority, ClearAuthority, inputVars, stateVars
<1>t. over => transition' = [transition EXCEPT ![n] = t]
  BY <1>1 DEF Release, EndAuthority, TypeOK
<1>5. /\ x.type = "Go" /\ x.slot = Host /\ x.scene = k /\ x.map = MapOf[k]
      /\ r[1] = "gameplay" /\ r[2] = k /\ r[3] = MapOf[k]
  BY <1>2, <1>3 DEF Stamp
<1>6. r \in {"gameplay"} \X (1..Scenes) \X Maps
  BY <1>2, <1>3, MapsOf
<1> HIDE DEF x, r
<1>7. /\ handoff'[n] = None
      /\ over => stage'[n] = "frontend" /\ ~phase'[n] /\ barrier'[n] = None /\ transition'[n] = t
      /\ ~over => stage'[n] = "racing" /\ phase'[n] /\ barrier'[n] = b
                  /\ transition'[n] = transition[n]
      /\ \A m \in Node \ {n} : /\ handoff'[m] = handoff[m] /\ stage'[m] = stage[m]
                               /\ barrier'[m] = barrier[m] /\ releases'[m] = releases[m]
                               /\ transition'[m] = transition[m] /\ phase'[m] = phase[m]
      /\ releases'[n] = releases[n] \cup {r}
  <2>1. CASE over
    BY <1>1, <1>4, <1>t, <2>1 DEF TypeOK
  <2>2. CASE ~over
    BY <1>1, <1>2, <1>4, <2>2 DEF TypeOK
  <2> QED
    BY <2>1, <2>2
<1>8. stage'[n] \in {"frontend", "racing"} /\ acks' \subseteq acks
  BY <1>4, <1>7
<1>9. TypeOK'
  <2>1. handoff' \in [Node -> Handoff \cup {None}]
    BY <1>1, <1>4 DEF TypeOK
  <2>2. releases' \in [Node -> SUBSET (({"gameplay"} \X (1..Scenes) \X Maps)
                                \cup ({"finish"} \X (1..Scenes) \X Frame))]
    BY <1>1, <1>4, <1>6 DEF TypeOK
  <2>3. barrier' \in [Node -> Barrier \cup {None}] /\ stage' \in [Node -> Stage]
        /\ phase' \in [Node -> BOOLEAN]
    <3>1. CASE over
      BY <1>1, <1>4, <3>1 DEF TypeOK, Stage
    <3>2. CASE ~over
      <4>1. barrier' \in [Node -> Barrier \cup {None}]
        BY <1>1, <1>3, <1>4, <3>2 DEF TypeOK
      <4>2. stage' \in [Node -> Stage] /\ phase' \in [Node -> BOOLEAN]
        BY <1>1, <1>4, <3>2 DEF TypeOK, Stage
      <4> QED
        BY <4>1, <4>2
    <3> QED
      BY <3>1, <3>2
  <2>4. transition' \in [Node -> Transition \cup {None}]
        /\ snapshot' \in [Node -> Maps \cup {None}] /\ acks' \subseteq Node
    <3>1. CASE over
      BY <1>1, <1>4, <1>t, <3>1 DEF TypeOK
    <3>2. CASE ~over
      BY <1>1, <1>4, <3>2 DEF TypeOK
    <3> QED
      BY <3>1, <3>2
  <2> QED
    BY <1>1, <1>4, <2>1, <2>2, <2>3, <2>4 DEF TypeOK
<1>10. Onward /\ sent \subseteq sent'
  <2>1. \A m \in Node : epoch[m] \in Int
    BY Facts
  <2>2. Later(stage[n], stage'[n]) /\ \A m \in Node \ {n} : Later(stage[m], stage'[m])
    BY <1>7, <1>8 DEF Later, RunStages
  <2> QED
    BY <1>4, <2>1, <2>2 DEF Onward
<1>11. BoundKept
  <2>1. n = Host => ~(epoch[Host] = handoff[Host].current)
    BY <1>2
  <2> QED
    BY <1>0, <1>4, <1>7, <2>1 DEF BoundKept, Bound
<1>12. Local'
  <2>1. Others(n)
    BY <1>4, <1>7 DEF Others, Same
  <2>2. Where(n)'
    BY <1>1, <1>2, <1>4, <1>7 DEF Where, RunStages
  <2>3. HandoffOK(n)'
    BY <1>7, <1>8 DEF HandoffOK, RunStages
  <2>4. BarrierOK(n)'
    <3>1. CASE over
      BY <1>7, <3>1 DEF BarrierOK
    <3>2. CASE ~over
      <4>1. /\ barrier'[n] = b /\ stage'[n] = "racing" /\ loads'[n] = k
        BY <1>4, <1>7, <3>2
      <4>2. /\ b.synced /\ b.baseline /\ n \in b.armed /\ b.arm
        BY <1>1, <1>3 DEF BarrierOK
      <4> QED
        BY <1>3, <4>1, <4>2 DEF BarrierOK, RunStages
    <3> QED
      BY <3>1, <3>2
  <2>5. n \in Guests => LastOK(n)'
    BY <1>1, <1>4, <1>8 DEF LastOK, Adopting
  <2> QED
    BY <2>1, <2>2, <2>3, <2>4, <2>5, LocalKept DEF BarrierInv
<1>13. n = Host => Ran(Host, k)'
  BY <1>4, <1>8 DEF Ran, RunStages
<1>14. Told'
  <2>1. ASSUME NEW y \in sent' \ sent PROVE Says(y)'
    <3>1. y = x /\ n = Host
      BY DEF x
    <3> QED
      BY <1>0, <1>2, <1>5, <1>13, <3>1 DEF Says
  <2> QED
    BY <1>1, <1>9, <1>10, <1>11, <2>1, ToldKept DEF BarrierInv
<1>15. Order'
  <2>0. Order /\ \A m \in Node : epoch[m] \in Int /\ loads[m] \in Int
    BY Facts DEF BarrierInv
  <2>1. \A m \in Node : stage[m] \in RunStages => stage'[m] \in RunStages
    BY <1>7, <1>8 DEF RunStages
  <2>2. \A m, j \in Node : loads'[j] > loads'[m] => loads'[j] = loads'[m] + 1 /\ stage'[m] \in RunStages
    BY <1>4, <2>0, <2>1 DEF Order
  <2>3. \A m, j \in Node : stage'[j] \in RunStages => epoch'[m] >= loads'[j] + 1
    BY <1>4, <1>7, <2>0 DEF Order
  <2>4. ASSUME NEW g \in Guests, stage'[g] \in RunStages PROVE Ran(Host, loads[g])'
    <3>1. Ran(Host, loads[g])
      <4>1. CASE g = n
        BY <4>1
      <4>2. CASE g # n
        BY <1>0, <1>7, <2>0, <2>4, <4>2 DEF Order
      <4> QED
        BY <4>1, <4>2
    <3> QED
      BY <1>0, <1>4, <2>0, <2>1, <3>1 DEF Ran
  <2>5. ASSUME NEW g \in Guests, stage'[Host] \in RunStages \cup {"go"}
        PROVE  Installed(g, loads[Host])'
    <3>1. Installed(g, loads[Host])
      <4>1. CASE n = Host
        BY <2>0, <4>1 DEF Order
      <4>2. CASE n # Host
        BY <1>0, <1>7, <2>0, <2>5, <4>2 DEF Order
      <4> QED
        BY <4>1, <4>2
    <3>2. loads'[g] = loads[g] /\ loads'[Host] = loads[Host]
          /\ stage'[g] \in {"loading", "peers", "baseline"} => stage'[g] = stage[g]
      BY <1>0, <1>4, <1>7, <1>8
    <3> QED
      BY <3>1, <3>2 DEF Installed
  <2> QED
    BY <1>4, <2>0, <2>2, <2>3, <2>4, <2>5 DEF Order
<1>16. Collected'
  <2>1. Collected
    BY DEF BarrierInv
  <2>2. stage'[Host] = "loading" => acks' = {}
    <3>1. CASE n = Host
      BY <1>8, <3>1
    <3>2. CASE n # Host
      BY <1>0, <1>7, <1>8, <2>1, <3>2 DEF Collected
    <3> QED
      BY <3>1, <3>2
  <2>3. \A g \in acks' \ {Host} : g \in acks /\ loads'[Host] = loads[Host]
    BY <1>4, <1>8
  <2>4. ASSUME NEW g \in Guests, barrier'[g] # None
        PROVE  /\ loads'[g] = loads[g] /\ barrier[g] # None
               /\ barrier'[g].arm => barrier[g].arm
               /\ barrier'[g].go => barrier[g].go \/ Ran(Host, loads[g])
    <3>1. CASE g = n
      BY <1>2, <1>3, <1>4, <1>7, <2>4, <3>1
    <3>2. CASE g # n
      BY <1>0, <1>4, <1>7, <2>4, <3>2
    <3> QED
      BY <3>1, <3>2
  <2>5. barrier'[Host] # None => barrier[Host] # None /\ barrier'[Host].armed = barrier[Host].armed
    <3>1. CASE n = Host /\ ~over
      BY <1>2, <1>3, <1>7, <3>1
    <3>2. CASE n = Host /\ over
      BY <1>7, <3>2
    <3>3. CASE n # Host
      BY <1>0, <1>7, <3>3
    <3> QED
      BY <3>1, <3>2, <3>3
  <2>6. \A g \in Guests : Ran(Host, loads[g]) => Ran(Host, loads[g])'
    <3>1. stage[Host] \in RunStages => stage'[Host] \in RunStages
      BY <1>0, <1>7, <1>8 DEF RunStages
    <3> QED
      BY <1>4, <3>1 DEF Ran
  <2> QED
    BY <1>0, <1>1, <1>4, <1>9, <1>10, <2>1, <2>2, <2>3, <2>4, <2>5, <2>6, CollectedKept
<1>17. Frames'
  <2>1. ASSUME NEW g \in Guests, handoff'[g] # None, ~Opened(g)'
        PROVE  /\ handoff'[g] = handoff[g] /\ ~Opened(g)
               /\ handoff[g].current \in 1..Scenes /\ handoff[g].boundary \in Nat
    <3>1. g # n /\ g \in Node
      BY <1>0, <1>7, <2>1
    <3>2. handoff'[g] = handoff[g] /\ ~Opened(g)
      BY <1>7, <2>1, <3>1 DEF Opened
    <3> QED
      BY <2>1, <3>1, <3>2, Facts
  <2>2. UNCHANGED inputVars
    BY <1>4 DEF inputVars
  <2> QED
    BY <1>11, <2>1, <2>2, FramesKept DEF BarrierInv
<1>18. Finishing'
  <2>1. \A m \in Node : \/ transition'[m] = None /\ stage'[m] # "sealing"
                        \/ /\ transition'[m] = transition[m] /\ scene'[m] = scene[m]
                           /\ stage'[m] = "sealing" => stage[m] = "sealing" \/ transition[m] # None
    BY <1>4, <1>7
  <2>2. \A m \in Node : stage'[m] = "results" => stage[m] = "results" /\ loads'[m] = loads[m]
    BY <1>4, <1>7, <1>8
  <2>3. ASSUME NEW y \in releases'[Host] \ releases[Host] PROVE ReleaseOK(y)'
    <3>1. y = r /\ n = Host
      BY <1>0, <1>7, <2>3
    <3> QED
      BY <1>5, <1>13, <3>1 DEF ReleaseOK
  <2> QED
    BY <1>9, <1>10, <2>1, <2>2, <2>3, FinishingKept
<1>19. OneFinish'
  <2>1. \A y \in sent' \ sent : y.type # "Begin"
    BY <1>5 DEF x
  <2> QED
    BY <2>1, OneFinishKept DEF BarrierInv
<1> QED
  BY <1>4, <1>9, <1>12, <1>14, <1>15, <1>16, <1>17, <1>18, <1>19, Facts DEF BarrierInv

LEMMA HostPollResumeKeeps ==
    ASSUME BarrierInv, HostPollResume, UNCHANGED programme
    PROVE  BarrierInv'
<1> DEFINE b == barrier[Host]
<1>0. Host \in Node /\ Host \notin Guests
  BY Basics
<1>1. stage[Host] = "go"
  BY DEF HostPollResume
<1>2. /\ MayResume(Host) /\ MayArm(Host) /\ b \in Barrier /\ b # None
      /\ loads[Host] \in Nat
  BY <1>0, <1>1, GoFacts
<1>3. BarrierOK(Host)
  BY <1>0, Facts
<1>4. CASE ~b.arm
  <2>1. Host \notin b.armed
    BY <1>2, <1>3, <1>4 DEF BarrierOK
  <2>2. /\ ArmEpoch(Host, [b EXCEPT !.arm = TRUE])
        /\ sent' = sent \cup {Stamp("Arm", Host, scene[Host], b.map)}
        /\ UNCHANGED <<phase, scene, lastHost, stateVars, doneVars, stage, loads, failed>>
    BY <1>2, <1>4 DEF HostPollResume
  <2>3. [b EXCEPT !.arm = TRUE].map = b.map
    BY <1>2 DEF Barrier
  <2> QED
    BY <1>0, <1>1, <2>1, <2>2, <2>3, ArmKeeps
<1>5. CASE b.arm
  <2>1. /\ b.armed = Node /\ Release(Host, [b EXCEPT !.go = TRUE])
        /\ sent' = sent \cup {Stamp("Go", Host, scene[Host], b.map)}
        /\ UNCHANGED <<inputVars, scene, lastHost, loads, failed>>
    BY <1>2, <1>5 DEF HostPollResume, AllArmed
  <2>2. \A m \in Node : epoch[m] >= loads[Host] + 1
    BY <1>2, <2>1 DEF BarrierInv, Collected
  <2>3. [b EXCEPT !.go = TRUE].map = b.map
    BY <1>2 DEF Barrier
  <2> QED
    BY <1>0, <1>1, <2>1, <2>2, <2>3, ReleaseKeeps
<1> QED
  BY <1>4, <1>5

LEMMA GuestPollResumeKeeps ==
    ASSUME BarrierInv, NEW g \in Guests, GuestPollResume(g), UNCHANGED programme
    PROVE  BarrierInv'
<1> DEFINE b == barrier[g]
           k == loads[g]
<1>0. g \in Node /\ g # Host /\ Host \in Node
  BY Basics
<1>1. stage[g] = "go"
  BY DEF GuestPollResume
<1>2. /\ MayResume(g) /\ MayArm(g) /\ b \in Barrier /\ b # None /\ k \in Nat
  BY <1>0, <1>1, GoFacts
<1>3. BarrierOK(g)
  BY <1>0, Facts
<1>4. CASE b.arm /\ g \notin b.armed
  <2>1. /\ ArmEpoch(g, b)
        /\ sent' = sent \cup {Stamp("Armed", g, scene[g], b.map)}
        /\ UNCHANGED <<phase, scene, lastHost, stateVars, doneVars, stage, loads, failed>>
    BY <1>2, <1>4 DEF GuestPollResume
  <2>2. b = [b EXCEPT !.arm = TRUE]
    <3>1. b.arm = TRUE
      BY <1>2, <1>4 DEF Barrier
    <3> QED
      BY <1>2, <3>1 DEF Barrier
  <2> QED
    BY <1>0, <1>1, <1>4, <2>1, <2>2, ArmKeeps
<1>5. CASE ~(b.arm /\ g \notin b.armed)
  <2>1. /\ b.go /\ Release(g, b)
        /\ UNCHANGED <<inputVars, scene, lastHost, loads, failed, sent>>
    BY <1>2, <1>5 DEF GuestPollResume
  <2>2. b = [b EXCEPT !.go = TRUE]
    <3>1. b.go = TRUE
      BY <1>2, <2>1 DEF Barrier
    <3> QED
      BY <1>2, <3>1 DEF Barrier
  <2>3. g \in b.armed
    BY <1>2, <1>3, <2>1 DEF BarrierOK
  <2>4. Ran(Host, k)
    BY <1>2, <2>1 DEF BarrierInv, Collected
  <2>5. \A m \in Node : epoch[m] >= k + 1
    <3>1. loads[Host] = k /\ stage[Host] \in RunStages
      <4>1. loads[Host] > k => stage[g] \in RunStages
        BY <1>0 DEF BarrierInv, Order
      <4> QED
        BY <1>1, <2>4, <4>1 DEF Ran, RunStages
    <3> QED
      BY <1>0, <3>1 DEF BarrierInv, Order
  <2> QED
    BY <1>0, <1>1, <2>1, <2>2, <2>3, <2>4, <2>5, ReleaseKeeps
<1> QED
  BY <1>4, <1>5

-----------------------------------------------------------------------------
LEMMA InitKeeps == ASSUME Init PROVE BarrierInv
<1>0. /\ Scenes \in Nat \ {0} /\ Host \in Node /\ Guests \subseteq Node /\ Lead \in Nat
  BY Basics
<1>1. /\ epoch = [n \in Node |-> 1] /\ loads = [n \in Node |-> 0]
      /\ stage = [n \in Node |-> "frontend"] /\ scene = [n \in Node |-> 0]
      /\ phase = [n \in Node |-> FALSE] /\ cursor = [n \in Node |-> 0]
      /\ origin = [n \in Node |-> 0] /\ handoff = [n \in Node |-> None]
      /\ barrier = [n \in Node |-> None] /\ transition = [n \in Node |-> None]
      /\ snapshot = [n \in Node |-> None] /\ releases = [n \in Node |-> {}]
      /\ lastHost = [g \in Guests |-> 0] /\ acks = {} /\ failed = {} /\ sent = {}
      /\ programme \in Programmes
  BY DEF Init
<1>2. TypeOK
  <2>1. epoch \in [Node -> Epoch]
    BY <1>0, <1>1 DEF Epoch
  <2>2. /\ cursor \in [Node -> Frame] /\ origin \in [Node -> Frame]
        /\ scene \in [Node -> 0..Scenes] /\ lastHost \in [Guests -> 0..Scenes]
        /\ loads \in [Node -> 0..Scenes]
    BY <1>0, <1>1 DEF Frame
  <2>3. /\ handoff \in [Node -> Handoff \cup {None}] /\ barrier \in [Node -> Barrier \cup {None}]
        /\ transition \in [Node -> Transition \cup {None}]
        /\ snapshot \in [Node -> Maps \cup {None}]
    BY <1>1
  <2>4. phase \in [Node -> BOOLEAN] /\ stage \in [Node -> Stage]
    BY <1>1 DEF Stage
  <2>5. releases \in [Node -> SUBSET (({"gameplay"} \X (1..Scenes) \X Maps)
                                \cup ({"finish"} \X (1..Scenes) \X Frame))]
    BY <1>1
  <2> QED
    BY <1>1, <2>1, <2>2, <2>3, <2>4, <2>5 DEF TypeOK
<1>3. Local
  <2>1. \A n \in Node : Where(n)
    BY <1>1 DEF Where, RunStages
  <2>2. \A n \in Node : HandoffOK(n)
    BY <1>1 DEF HandoffOK, RunStages
  <2>3. \A n \in Node : BarrierOK(n)
    BY <1>1 DEF BarrierOK
  <2>4. \A g \in Guests : LastOK(g)
    BY <1>0, <1>1 DEF LastOK, Adopting
  <2> QED
    BY <2>1, <2>2, <2>3, <2>4 DEF Local, LastOK
<1>4. Order
  BY <1>0, <1>1 DEF Order, Ran, Installed, RunStages
<1>5. Collected
  BY <1>0, <1>1 DEF Collected
<1>6. Frames
  BY <1>0, <1>1 DEF Frames, Committed
<1>7. Finishing
  BY <1>0, <1>1 DEF Finishing, TransitionOK
<1>8. Told /\ OneFinish
  BY <1>1 DEF Told, OneFinish, Announced
<1> QED
  BY <1>1, <1>2, <1>3, <1>4, <1>5, <1>6, <1>7, <1>8 DEF BarrierInv

LEMMA StutterKeeps == ASSUME BarrierInv, UNCHANGED vars PROVE BarrierInv'
<1>1. /\ UNCHANGED <<cursor, epoch, origin, handoff, barrier, phase, scene, lastHost>>
      /\ UNCHANGED <<snapshot, acks, transition, releases, stage, loads, programme, failed, sent>>
  BY DEF vars
<1>2. TypeOK' /\ failed' = {}
  BY <1>1 DEF BarrierInv, TypeOK
<1>3. Local'
  BY <1>1 DEF BarrierInv, Local, Where, HandoffOK, BarrierOK, Opened, Adopting
<1>4. Order' /\ Collected'
  BY <1>1 DEF BarrierInv, Order, Collected, Ran, Installed
<1>5. Frames'
  BY <1>1 DEF BarrierInv, Frames, Committed, Bound, Opened
<1>6. Finishing' /\ OneFinish'
  BY <1>1 DEF BarrierInv, Finishing, TransitionOK, ReleaseOK, Ran, Sealed, Announced, OneFinish
<1>7. Told'
  BY <1>1 DEF BarrierInv, Told, Says, Ran, Sealed, Installed, Bound, Announced
<1> QED
  BY <1>2, <1>3, <1>4, <1>5, <1>6, <1>7 DEF BarrierInv

(* Every step of the authored threads. *)
LEMMA StepKeeps ==
    ASSUME BarrierInv, NEW n \in Node, Step(n)
    PROVE  BarrierInv'
<1>0. UNCHANGED programme
  BY DEF Step
<1>1. CASE Consume(n) \/ BeginLoad(n) \/ LevelReady(n) \/ EndLevel(n)
  BY <1>0, <1>1, ConsumeKeeps, BeginLoadKeeps, LevelReadyKeeps, EndLevelKeeps
<1>2. CASE ReachFinish(n) \/ BeginSeal(n) \/ PollTransition(n)
  BY <1>0, <1>2, ReachFinishKeeps, BeginSealKeeps, PollTransitionKeeps
<1>3. CASE n = Host /\ (HostPollReady \/ PollAcks \/ HostPollResume)
  BY <1>0, <1>3, HostPollReadyKeeps, PollAcksKeeps, HostPollResumeKeeps
<1>4. CASE n \in Guests /\ (GuestPollReady(n) \/ InstallBaseline(n) \/ GuestPollResume(n))
  BY <1>0, <1>4, GuestPollReadyKeeps, InstallBaselineKeeps, GuestPollResumeKeeps
<1> QED
  BY <1>1, <1>2, <1>3, <1>4 DEF Step

(* Every delivery, however old the datagram is. *)
LEMMA DeliverKeeps ==
    ASSUME BarrierInv, NEW g \in Guests, NEW m \in sent, Deliver(g, m)
    PROVE  BarrierInv'
<1>0. UNCHANGED programme
  BY DEF Deliver
<1>1. CASE m.slot = g /\ (HandleRequest(m) \/ HandleReadyOrArmed(m))
  BY <1>0, <1>1, RequestKeeps, ReadyOrArmedKeeps
<1>2. CASE m.slot = g /\ (HandleStateAck(m) \/ HandleAcknowledge(m))
  BY <1>0, <1>2, StateAckKeeps, AcknowledgeKeeps
<1>3. CASE HandleSuspend(g, m) \/ HandlePrepare(g, m) \/ HandleStage(g, m)
  BY <1>0, <1>3, SuspendKeeps, PrepareKeeps, StageKeeps
<1>4. CASE HandleState(g, m) \/ HandleTransition(g, m)
  BY <1>0, <1>4, StateKeeps, TransitionKeeps
<1> QED
  BY <1>1, <1>2, <1>3, <1>4 DEF Deliver

(* The invariant of the handoff and the barrier, for any number of guests, *)
(* loads and frames and a network that loses, repeats, delays and reorders *)
(* (the handlers of direct_session.cpp and the coordinator that polls).    *)
THEOREM BarrierInvariant == Spec => []BarrierInv
<1>1. Init => BarrierInv
  BY InitKeeps
<1>2. BarrierInv /\ [Next]_vars => BarrierInv'
  <2>1. ASSUME BarrierInv, Next PROVE BarrierInv'
    BY <2>1, StepKeeps, DeliverKeeps DEF Next
  <2> QED
    BY <2>1, StutterKeeps
<1> QED
  BY <1>1, <1>2, PTL DEF Spec

(* Every variable keeps its type. *)
THEOREM BarrierTyped == Spec => []TypeOK
<1>1. BarrierInv => TypeOK
  BY DEF BarrierInv
<1> QED
  BY <1>1, BarrierInvariant, PTL

(* No interleaving of loads and datagrams takes an error path of the       *)
(* handoff or the barrier.                                                 *)
THEOREM HealthySessions == Spec => []NobodyFails
<1>1. BarrierInv => NobodyFails
  BY DEF BarrierInv, NobodyFails
<1> QED
  BY <1>1, BarrierInvariant, PTL

(* All machines open an input epoch at one frame, and none of them has     *)
(* consumed that frame of the epoch before (adopt_gameplay_handoff_locked).*)
THEOREM BoundaryAgreement == Spec => []OneBoundary
<1>1. ASSUME BarrierInv, NEW m \in Node, NEW n \in Node
      PROVE  /\ epoch[m] = epoch[n] => origin[m] = origin[n]
             /\ epoch[m] < epoch[n] => epoch[n] = epoch[m] + 1 /\ cursor[m] <= origin[n]
  <2>1. Frames /\ epoch[m] \in Nat /\ epoch[n] \in Nat /\ epoch[Host] \in Nat /\ Host \in Node
    BY <1>1, Facts, Basics DEF BarrierInv
  <2>2. epoch[m] = epoch[n] => origin[m] = origin[n]
    BY <2>1 DEF Frames
  <2>3. \A g \in Guests : epoch[Host] <= epoch[g] + 1 /\ epoch[g] <= epoch[Host]
    BY <1>1, EpochsClose
  <2>4. ASSUME epoch[m] < epoch[n] PROVE epoch[n] = epoch[m] + 1 /\ cursor[m] <= origin[n]
    <3>1. m \in Guests /\ epoch[n] = epoch[Host] /\ epoch[n] = epoch[m] + 1
      BY <2>1, <2>3, <2>4 DEF Node
    <3>2. origin[n] = origin[Host]
      BY <2>1, <3>1 DEF Frames
    <3>3. cursor[m] <= origin[Host]
      <4>1. cursor[m] <= Committed(m)
        BY <2>1, <3>1 DEF Frames
      <4>2. epoch[m] # epoch[Host]
        BY <2>1, <3>1
      <4> QED
        BY <4>1, <4>2 DEF Committed
    <3> QED
      BY <3>1, <3>2, <3>3
  <2> QED
    BY <2>2, <2>4
<1>2. BarrierInv => OneBoundary
  BY <1>1 DEF OneBoundary
<1> QED
  BY <1>2, BarrierInvariant, PTL

(* A machine runs frames of a scene only after every other machine has     *)
(* loaded it and opened its input epoch (poll_gameplay_resume).            *)
THEOREM ScenesStartTogether == Spec => []NobodyRunsAlone
<1>1. ASSUME BarrierInv, NEW m \in Node, NEW n \in Node, stage[n] \in RunStages
      PROVE  loads[m] >= loads[n] /\ epoch[m] >= epoch[n]
  <2>1. /\ loads[m] \in Nat /\ loads[n] \in Nat /\ epoch[m] \in Nat
        /\ epoch[m] <= loads[m] + 1 /\ epoch[n] = loads[n] + 1
    BY <1>1, Facts DEF Where
  <2>2. epoch[m] >= loads[n] + 1
    BY <1>1 DEF BarrierInv, Order
  <2> QED
    BY <2>1, <2>2
<1>2. BarrierInv => NobodyRunsAlone
  BY <1>1 DEF NobodyRunsAlone, RunStages
<1> QED
  BY <1>2, BarrierInvariant, PTL

(* No input epoch is opened before Player 1's frame-zero state of this     *)
(* very load is installed everywhere.                                      *)
THEOREM BaselineBeforeInputs == Spec => []BaselineFirst
<1>1. ASSUME BarrierInv, NEW m \in Node, NEW n \in Node, barrier[n] # None, barrier[n].arm
      PROVE  Installed(m, loads[n])
  <2>1. /\ BarrierOK(n) /\ loads[n] \in Nat /\ loads[m] \in Nat
    BY <1>1, Facts
  <2>2. stage[n] = "go" \/ stage[n] \in RunStages
    BY <1>1, <2>1 DEF BarrierOK
  <2>3. CASE n \in Guests
    <3>1. epoch[Host] >= loads[n] + 1
      BY <1>1, <2>3 DEF BarrierInv, Collected
    <3> QED
      BY <1>1, <2>1, <3>1, AllInstalled
  <2>4. CASE n = Host
    BY <1>1, <2>1, <2>2, <2>4 DEF BarrierInv, Order, Installed, Node, RunStages
  <2> QED
    BY <2>3, <2>4 DEF Node
<1>2. ASSUME BarrierInv, NEW m \in Node, NEW n \in Node, Installed(m, loads[n])
      PROVE  /\ loads[m] >= loads[n]
             /\ loads[m] = loads[n] => stage[m] \notin {"loading", "peers", "baseline"}
  <2>1. loads[m] \in Nat /\ loads[n] \in Nat
    BY <1>2, Facts
  <2> QED
    BY <1>2, <2>1 DEF Installed
<1>3. BarrierInv => BaselineFirst
  BY <1>1, <1>2 DEF BaselineFirst
<1> QED
  BY <1>3, BarrierInvariant, PTL

(* When a machine shows the results, all others are sealed in the same     *)
(* race or have left it (begin_finish_seal, poll_transition).              *)
THEOREM FinishesAreShared == Spec => []FinishIsShared
<1>1. ASSUME BarrierInv, NEW m \in Node, NEW n \in Node, stage[n] = "results",
             loads[m] = loads[n]
      PROVE  stage[m] \in {"sealing", "results", "frontend"}
  <2>1. Sealed(m, loads[n]) /\ loads[n] \in Nat
    BY <1>1, Facts DEF BarrierInv, Finishing
  <2> QED
    BY <1>1, <2>1 DEF Sealed
<1>2. BarrierInv => FinishIsShared
  BY <1>1 DEF FinishIsShared
<1> QED
  BY <1>2, BarrierInvariant, PTL

(* A scene number a guest has adopted is that of the load it is in.        *)
THEOREM ScenesAreShared == Spec => []SceneIsShared
<1>1. ASSUME BarrierInv, NEW g \in Guests, barrier[g] # None
      PROVE  barrier[g].scene = scene[g] /\ scene[g] = loads[g]
  <2>1. Where(g) /\ BarrierOK(g)
    BY <1>1, Facts, Basics
  <2> QED
    BY <1>1, <2>1 DEF Where, BarrierOK
<1>2. BarrierInv => SceneIsShared
  BY <1>1 DEF SceneIsShared
<1> QED
  BY <1>2, BarrierInvariant, PTL
=============================================================================
