-------------------------- MODULE RaceRecoveryProofs --------------------------
(***************************************************************************)
(* That a drifted race is repaired by everybody or by nobody, proved for   *)
(* every number of guests, lead, runway, checkpoint interval and race      *)
(* length.                                                                 *)
(*                                                                         *)
(* RecoveryInv ties four things together: Player 1's cursor, which no      *)
(* guest passes and which an unreleased boundary holds back; his set of    *)
(* acknowledgements, each of which stands for a state that is installed;   *)
(* the announcements, which he makes one at a time; and for each guest     *)
(* that an installed boundary is one it has gone through or stands at with *)
(* its coordinator.  EpochCounts adds that the transport epoch counts the  *)
(* recoveries a machine has left behind.                                   *)
(***************************************************************************)
EXTENDS RaceRecovery, FiniteSetTheorems, TLAPS

Stages == {"racing", "crossed", "sealing", "over"}

(* Only machine p moves. *)
Alone(p) ==
    \A q \in Node \ {p} :
        /\ next'[q] = next[q] /\ playing'[q] = playing[q] /\ life'[q] = life[q]
        /\ recovery'[q] = recovery[q] /\ resumed'[q] = resumed[q]
        /\ coord'[q] = coord[q] /\ done'[q] = done[q]

LEMMA NodeFacts == Host \in Node /\ Host \notin Guests /\ Guests \subseteq Node /\ None \notin Nat
BY RecoveryAssumption DEF Node

(* A packet of another kind announces nothing. *)
LEMMA BegunStays ==
  ASSUME sent \subseteq sent', \A m \in sent' : m \in sent \/ m.type # "RecoveryBegin"
  PROVE  Begun' = Begun
BY DEF Begun

LEMMA MachineStays ==
  ASSUME NEW q, Machine(q), next'[q] = next[q], playing'[q] = playing[q],
         life'[q] = life[q], recovery'[q] = recovery[q], coord'[q] = coord[q]
  PROVE  Machine(q)'
BY DEF Machine, Racing

LEMMA GuestStays ==
  ASSUME NEW h, GuestRecovery(h), life'[h] = life[h], ending' = ending,
         recovery'[h] = recovery[h], coord'[h] = coord[h], done'[h] = done[h],
         Begun \subseteq Begun', installed \subseteq installed',
         \A i \in installed' \ installed : i[1] # h
  PROVE  GuestRecovery(h)'
<1>1. \A x : <<h, x>> \in installed' <=> <<h, x>> \in installed
  OBVIOUS
<1>2. \A i \in installed' : i[1] = h => i \in installed
  OBVIOUS
<1> QED BY <1>1, <1>2 DEF GuestRecovery, Racing

(* What a step of guest g has to show. *)
GuestMoves(g) ==
    /\ Alone(g) /\ acks' = acks /\ ending' = ending
    /\ next'[g] <= next[Host]
    /\ installed \subseteq installed'
    /\ \A i \in installed' \ installed : i[1] = g
    /\ sent \subseteq sent'
    /\ \A m \in sent' \ sent :
          m.type \in {"Digest", "RecoveryAck"}
    /\ \A m \in sent' \ sent :
          m.type = "RecoveryAck" => <<m.from, m.frame>> \in installed'
    /\ announced' # {} => ~Racing(Host) /\ next[Host] = ending.frame + 1

LEMMA GuestStep ==
  ASSUME RecoveryInv, NEW g \in Guests, GuestMoves(g), Shapes', Machine(g)',
         GuestRecovery(g)'
  PROVE  RecoveryInv'
<1>1. /\ Shapes /\ HostRecovery /\ Finishing /\ \A p \in Node : Machine(p)
      /\ \A h \in Guests : GuestRecovery(h)
  BY DEF RecoveryInv
<1>2. Begun' = Begun
  BY BegunStays DEF GuestMoves
<1>3. \A p \in Node : Machine(p)'
  BY <1>1, MachineStays DEF GuestMoves, Alone
<1>4. \A h \in Guests : GuestRecovery(h)'
  <2> SUFFICES ASSUME NEW h \in Guests, h # g PROVE GuestRecovery(h)'
    OBVIOUS
  <2> QED BY <1>1, <1>2, NodeFacts, GuestStays DEF GuestMoves, Alone
<1>5. /\ next'[Host] = next[Host] /\ life'[Host] = life[Host]
      /\ recovery'[Host] = recovery[Host] /\ resumed'[Host] = resumed[Host]
      /\ coord'[Host] = coord[Host] /\ done'[Host] = done[Host]
  BY NodeFacts DEF GuestMoves, Alone
<1>6. HostRecovery'
  <2>1. \A h \in Guests : next'[h] <= next'[Host]
    BY <1>1, <1>5, NodeFacts DEF GuestMoves, Alone, HostRecovery
  <2>2. \A b : Repaired(b) => Repaired(b)'
    BY DEF GuestMoves, Repaired
  <2>3. installed \subseteq installed' /\ acks' = acks
    BY DEF GuestMoves
  <2> QED BY <1>1, <1>2, <1>5, <2>1, <2>2, <2>3 DEF HostRecovery, Racing
<1>7. Finishing'
  <2>1. \A m \in sent' : m.type = "RecoveryAck" => <<m.from, m.frame>> \in installed'
    BY <1>1 DEF GuestMoves, Finishing
  <2>2. \A m \in sent' : m.type = "TransitionBegin" => m \in sent
    BY DEF GuestMoves
  <2> QED BY <1>1, <1>5, <2>1, <2>2 DEF GuestMoves, Finishing, Racing
<1> QED BY <1>3, <1>4, <1>6, <1>7 DEF RecoveryInv

(* What a step of Player 1 has to show. *)
HostMoves ==
    /\ Alone(Host) /\ ending' = ending /\ installed' = installed /\ announced' = announced
    /\ sent \subseteq sent'
    /\ \A m \in sent' \ sent : m.type # "RecoveryAck"
    /\ \A m \in sent' \ sent : m.type = "TransitionBegin" =>
          life'[Host] = "sealing"
    /\ ~Racing(Host) => ~Racing(Host)' /\ next'[Host] = next[Host]
    /\ life'[Host] \in {"crossed", "sealing"} => next'[Host] = ending.frame + 1

LEMMA HostStep ==
  ASSUME RecoveryInv, HostMoves, Shapes', Machine(Host)', HostRecovery'
  PROVE  RecoveryInv'
<1>1. /\ Shapes /\ HostRecovery /\ Finishing /\ \A p \in Node : Machine(p)
      /\ \A h \in Guests : GuestRecovery(h)
  BY DEF RecoveryInv
<1>2. Begun \subseteq Begun'
  BY DEF Begun, HostMoves
<1>3. \A p \in Node : Machine(p)'
  BY <1>1, MachineStays DEF HostMoves, Alone
<1>4. \A h \in Guests : GuestRecovery(h)'
  BY <1>1, <1>2, NodeFacts, GuestStays DEF HostMoves, Alone
<1>5. Finishing'
  <2>1. \A m \in sent' : m.type = "RecoveryAck" => <<m.from, m.frame>> \in installed'
    BY <1>1 DEF HostMoves, Finishing
  <2>2. (\E m \in sent' : m.type = "TransitionBegin") \/ announced' # {} =>
           ~Racing(Host)' /\ next'[Host] = ending'.frame + 1
    BY <1>1 DEF HostMoves, Finishing, Racing
  <2> QED BY <2>1, <2>2 DEF HostMoves, Finishing
<1> QED BY <1>3, <1>4, <1>5 DEF RecoveryInv

-----------------------------------------------------------------------------
(* Boundaries *)

(* A machine behind a boundary has seen every machine install its state.   *)
LEMMA PassedIsRepaired ==
  ASSUME RecoveryInv, NEW p \in Node, NEW b \in Begun, next[p] > b + 1
  PROVE  b \in done[Host] /\ Repaired(b)
<1>1. Shapes /\ HostRecovery
  BY DEF RecoveryInv
<1>2. next[Host] \in Nat /\ next[p] \in Nat /\ next[p] <= next[Host]
  BY <1>1, NodeFacts DEF Shapes, HostRecovery, Node
<1>3. b \in Nat
  BY <1>1 DEF Begun, Shapes
<1>4. next[Host] > b + 1
  BY <1>2, <1>3
<1>5. b \in done[Host] \/ recovery[Host] = b
  BY <1>1, <1>2, <1>3, <1>4 DEF HostRecovery
<1>6. CASE recovery[Host] = b
  <2>1. recovery[Host] # None
    BY <1>3, <1>6, NodeFacts
  <2>2. resumed[Host]
    BY <1>1, <1>2, <1>3, <1>4, <1>6, <2>1 DEF HostRecovery
  <2> QED BY <1>1, <1>6, <2>1, <2>2 DEF HostRecovery
<1> QED BY <1>1, <1>5, <1>6 DEF HostRecovery

(* What a guest has installed it has gone through unless it is at it.      *)
LEMMA InstalledIsDone ==
  ASSUME RecoveryInv, NEW g \in Guests, NEW b, <<g, b>> \in installed, Racing(g)
  PROVE  b \in done[g] \/ (recovery[g] = b /\ coord[g].stage = "resume")
BY DEF RecoveryInv, GuestRecovery

(* No machine plays behind the boundary of a recovery it takes part in.    *)
LEMMA NoPassedHook ==
  ASSUME RecoveryInv, NEW p \in Node, playing[p]
  PROVE  ~PassedHook(p)
<1> SUFFICES ASSUME recovery[p] # None, next[p] - 1 > recovery[p] PROVE FALSE
  BY DEF PassedHook
<1>1. Shapes /\ HostRecovery /\ Machine(p) /\ \A g \in Guests : GuestRecovery(g)
  BY DEF RecoveryInv
<1>2. coord[p].stage = "idle" /\ Racing(p)
  BY <1>1 DEF Machine, Idle, Racing
<1>3. recovery[p] \in Begun
  BY <1>1 DEF HostRecovery, GuestRecovery, Node
<1>4. recovery[p] \in Nat /\ next[p] \in Nat
  BY <1>1 DEF Shapes
<1>5. recovery[p] \in done[Host] /\ Repaired(recovery[p])
  BY <1>3, <1>4, PassedIsRepaired
<1>6. CASE p = Host
  <2>1. resumed[Host] /\ Host \in acks
    BY <1>1, <1>5, <1>6, NodeFacts DEF HostRecovery
  <2> QED BY <1>1, <1>2, <1>6, <2>1 DEF HostRecovery
<1>7. CASE p \in Guests
  <2>1. <<p, recovery[p]>> \in installed
    BY <1>5, <1>7 DEF Repaired
  <2>2. recovery[p] \in done[p]
    BY <1>2, <1>7, <2>1, InstalledIsDone
  <2> QED BY <1>1, <1>7, <2>2 DEF GuestRecovery
<1> QED BY <1>6, <1>7 DEF Node

(* A guest that can take part in an announced recovery is not behind it.   *)
LEMMA NoPassedBegin ==
  ASSUME RecoveryInv, NEW g \in Guests, NEW b \in Begun, b \notin done[g],
         Racing(g), recovery[g] # b
  PROVE  ~Passed(g, b) /\ <<g, b>> \notin installed
<1>1. Shapes
  BY DEF RecoveryInv
<1>2. next[g] \in Nat /\ b \in Nat /\ playing[g] \in BOOLEAN
  BY <1>1, NodeFacts DEF Shapes, Begun
<1>3. <<g, b>> \notin installed
  BY InstalledIsDone
<1>4. ~(next[g] > b + 1)
  BY <1>3, NodeFacts, PassedIsRepaired DEF Repaired
<1>5. Completed(g) <= next[g] - 1
  BY <1>2 DEF Completed
<1>6. Completed(g) \in Int
  BY <1>2 DEF Completed
<1> QED BY <1>2, <1>3, <1>4, <1>5, <1>6 DEF Passed

(* A failing step leaves everything else as it was. *)
LEMMA FailHolds ==
  ASSUME RecoveryInv, UNCHANGED <<sessionVars, gameVars, ending, sent, installed>>
  PROVE  RecoveryInv'
<1> USE DEF sessionVars, gameVars
<1>1. Shapes'
  BY DEF RecoveryInv, Shapes
<1>2. \A p \in Node : Machine(p)'
  BY DEF RecoveryInv, Machine, Racing
<1>3. HostRecovery'
  BY DEF RecoveryInv, HostRecovery, Racing, Begun, Repaired
<1>4. \A g \in Guests : GuestRecovery(g)'
  BY DEF RecoveryInv, GuestRecovery, Racing, Begun
<1>5. Finishing'
  BY DEF RecoveryInv, Finishing, Racing
<1> QED BY <1>1, <1>2, <1>3, <1>4, <1>5 DEF RecoveryInv

-----------------------------------------------------------------------------
(* The steps of a guest *)

(* What is said to a guest that is not about a new recovery. *)
LEMMA GuestListens ==
  ASSUME RecoveryInv, NEW g \in Guests, NEW m \in sent,
         \/ HandleState(g, m)
         \/ HandleRecoveryResume(g, m)
         \/ m.type = "TransitionBegin" /\ HandleTransitionBegin(g, m)
  PROVE  RecoveryInv'
<1> USE DEF gameVars
<1>1. Shapes /\ HostRecovery /\ Finishing /\ Machine(g) /\ GuestRecovery(g)
  BY NodeFacts DEF RecoveryInv
<1>2. /\ next' = next /\ playing' = playing /\ life' = life /\ recovery' = recovery
      /\ acks' = acks /\ coord' = coord /\ done' = done /\ epoch' = epoch
      /\ ending' = ending /\ sent' = sent /\ installed' = installed
      /\ drifted' = drifted
  BY DEF HandleState, HandleRecoveryResume, HandleTransitionBegin
<1>3. \/ resumed' = resumed
      \/ resumed' = [resumed EXCEPT ![g] = TRUE]
      \/ resumed' = [resumed EXCEPT ![g] = @ \/ (Racing(g) /\ recovery[g] # None)]
  BY DEF HandleState, HandleRecoveryResume, HandleTransitionBegin
<1>4. resumed' \in [Node -> BOOLEAN] /\ \A q \in Node \ {g} : resumed'[q] = resumed[q]
  BY <1>1, <1>3, NodeFacts DEF Shapes
<1>5. Shapes'
  BY <1>1, <1>2, <1>4 DEF Shapes
<1>6. announced' # {} => ~Racing(Host) /\ next[Host] = ending.frame + 1
  BY <1>1 DEF HandleState, HandleRecoveryResume, HandleTransitionBegin, Finishing
<1>7. GuestMoves(g)
  BY <1>1, <1>2, <1>4, <1>6, NodeFacts DEF GuestMoves, Alone, HostRecovery
<1>8. Machine(g)'
  BY <1>1, <1>2 DEF Machine, Racing
<1>9. GuestRecovery(g)'
  BY <1>1, <1>2 DEF GuestRecovery, Racing, Begun
<1> QED BY <1>5, <1>7, <1>8, <1>9, GuestStep

(* A guest is told of a recovery: it takes part, or holds another one. *)
LEMMA GuestBegins ==
  ASSUME RecoveryInv, NEW g \in Guests, NEW m \in sent, m.type = "RecoveryBegin",
         HandleRecoveryBegin(g, m)
  PROVE  RecoveryInv' /\ (failed' = failed \/ (failed' = [who |-> g, why |-> "conflict"]
                                            /\ recovery' = recovery /\ done' = done
                                            /\ recovery[g] \in done[Host]))
<1> USE DEF gameVars, sessionVars
<1>1. /\ Shapes /\ HostRecovery /\ Finishing /\ Machine(g) /\ GuestRecovery(g)
  BY NodeFacts DEF RecoveryInv
<1>2. Racing(g) /\ m.frame \notin done[g] /\ recovery[g] # m.frame
  BY DEF HandleRecoveryBegin
<1>3. m.frame \in Begun
  BY DEF Begun
<1>4. m.frame \in Nat /\ m.frame # None /\ g \in Node
  BY <1>1, NodeFacts DEF Shapes
<1>5. ~Passed(g, m.frame) /\ <<g, m.frame>> \notin installed
  BY <1>2, <1>3, NoPassedBegin
<1>a. \A b \in Begun : b \in Nat
  BY <1>1 DEF Shapes, Begun
<1>b. m.frame \notin done[Host]
  BY <1>1, <1>5 DEF HostRecovery, Repaired
<1>6. CASE recovery[g] # None
  <2>1. recovery[g] \in Begun
    BY <1>1, <1>6 DEF GuestRecovery
  <2>2. recovery[g] < m.frame \/ m.frame < recovery[g]
    BY <1>2, <1>4, <1>a, <2>1
  <2>3. recovery[g] \in done[Host]
    BY <1>1, <1>3, <1>b, <2>1, <2>2 DEF HostRecovery
  <2>4. Fail(g, "conflict")
    BY <1>6 DEF HandleRecoveryBegin
  <2> QED BY <2>3, <2>4, FailHolds DEF Fail
<1>7. CASE recovery[g] = None
  <2>1. /\ recovery' = [recovery EXCEPT ![g] = m.frame]
        /\ resumed' = [resumed EXCEPT ![g] = FALSE]
        /\ next' = next /\ playing' = playing /\ life' = life
        /\ acks' = acks /\ coord' = coord /\ done' = done /\ epoch' = epoch
        /\ ending' = ending /\ sent' = sent /\ installed' = installed
        /\ drifted' = drifted /\ announced' = announced /\ failed' = failed
    BY <1>5, <1>7 DEF HandleRecoveryBegin
  <2>2. /\ recovery'[g] = m.frame
        /\ \A q \in Node \ {g} : recovery'[q] = recovery[q] /\ resumed'[q] = resumed[q]
        /\ recovery' \in [Node -> Nat \cup {None}] /\ resumed' \in [Node -> BOOLEAN]
    BY <1>1, <1>4, <2>1 DEF Shapes
  <2>3. Shapes'
    BY <1>1, <2>1, <2>2 DEF Shapes
  <2>4. GuestMoves(g)
    BY <1>1, <2>1, <2>2 DEF GuestMoves, Alone, HostRecovery, Finishing
  <2>5. coord[g].stage = "idle"
    <3>1. coord[g] \in [stage : {"idle", "baseline", "resume"}, frame : Nat]
      BY <1>1, <1>4 DEF Shapes
    <3>2. coord[g].stage = "idle" \/ coord[g].frame = None
      BY <1>1, <1>2, <1>7 DEF Machine
    <3> QED BY <3>1, <3>2, NodeFacts
  <2>6. Machine(g)'
    BY <1>1, <1>2, <2>1, <2>5 DEF Machine, Racing
  <2>7. \A b \in done[g] : b < m.frame
    <3> TAKE b \in done[g]
    <3>1. b \in Begun
      BY <1>1 DEF GuestRecovery
    <3>2. ~(m.frame < b)
      BY <1>1, <1>3, <1>b, <3>1 DEF HostRecovery
    <3>3. b \in Nat /\ b # m.frame
      BY <1>2, <1>a, <3>1
    <3> QED BY <1>4, <3>2, <3>3
  <2>8. GuestRecovery(g)'
    <3>1. Begun' = Begun
      BY <2>1 DEF Begun
    <3>2. \A i \in installed : i[1] = g => i[2] \in done[g]
      BY <1>1, <1>2, <2>5 DEF GuestRecovery
    <3> QED BY <1>1, <1>2, <1>3, <2>1, <2>2, <2>5, <2>7, <3>1, <3>2 DEF GuestRecovery, Racing
  <2> QED BY <2>1, <2>3, <2>4, <2>6, <2>8, GuestStep
<1> QED BY <1>6, <1>7

(* A guest stops at the boundary it was told of. *)
GuestStops(g, b) ==
    IF recovery[g] # None /\ b = recovery[g]
    THEN coord' = [coord EXCEPT ![g] = [stage |-> "baseline", frame |-> b]]
    ELSE coord' = coord

(* A boundary a guest comes to it has not installed. *)
LEMMA GuestStopsHolds ==
  ASSUME RecoveryInv, NEW g \in Guests, coord[g] = Idle, life[g] = "racing",
         next' = next, recovery' = recovery, done' = done, installed' = installed,
         playing' = [playing EXCEPT ![g] = FALSE],
         NEW l \in {"racing", "crossed"}, life' = [life EXCEPT ![g] = l],
         resumed' = resumed, acks' = acks, epoch' = epoch, announced' = announced,
         ending' = ending, sent' = sent, drifted' \subseteq Guests,
         GuestStops(g, next[g] - 1)
  PROVE  RecoveryInv'
<1>1. /\ Shapes /\ HostRecovery /\ Finishing /\ Machine(g) /\ GuestRecovery(g)
      /\ g \in Node
  BY NodeFacts DEF RecoveryInv
<1>2. next[g] \in Nat /\ recovery[g] \in Nat \cup {None}
  BY <1>1 DEF Shapes
<1>3. /\ \A q \in Node \ {g} : coord'[q] = coord[q] /\ playing'[q] = playing[q]
                                /\ life'[q] = life[q]
      /\ coord' \in [Node -> [stage : {"idle", "baseline", "resume"}, frame : Nat]]
      /\ playing' \in [Node -> BOOLEAN] /\ life' \in [Node -> Stages]
      /\ ~playing'[g] /\ life'[g] = l
  <2>1. CASE recovery[g] # None /\ next[g] - 1 = recovery[g]
    <3>1. next[g] - 1 \in Nat
      BY <1>2, <2>1
    <3>2. [stage |-> "baseline", frame |-> next[g] - 1]
             \in [stage : {"idle", "baseline", "resume"}, frame : Nat]
      BY <3>1
    <3>3. coord' = [coord EXCEPT ![g] = [stage |-> "baseline", frame |-> next[g] - 1]]
      BY <2>1 DEF GuestStops
    <3> QED BY <1>1, <3>2, <3>3 DEF Shapes, Stages
  <2>2. CASE ~(recovery[g] # None /\ next[g] - 1 = recovery[g])
    <3>1. coord' = coord
      BY <2>2 DEF GuestStops
    <3> QED BY <1>1, <3>1 DEF Shapes, Stages
  <2> QED BY <2>1, <2>2
<1>4. Shapes'
  BY <1>1, <1>3 DEF Shapes, Stages
<1>5. GuestMoves(g)
  BY <1>1, <1>3 DEF GuestMoves, Alone, HostRecovery, Finishing
<1>6. Begun' = Begun
  BY DEF Begun
<1>7. Racing(g) /\ Racing(g)'
  BY <1>3 DEF Racing
<1>8. CASE recovery[g] # None /\ next[g] - 1 = recovery[g]
  <2>1. coord'[g] = [stage |-> "baseline", frame |-> recovery[g]]
    BY <1>1, <1>8 DEF GuestStops, Shapes
  <2>2. <<g, recovery[g]>> \notin installed
    BY <1>1, <1>7, <1>8, InstalledIsDone DEF GuestRecovery, Idle
  <2>3. next[g] = recovery[g] + 1
    BY <1>2, <1>8, NodeFacts
  <2>4. Machine(g)'
    BY <1>3, <1>7, <2>1, <2>3 DEF Machine
  <2>5. \A i \in installed : i[1] = g => i[2] \in done[g]
    BY <1>1, <1>7 DEF GuestRecovery, Idle
  <2>6. GuestRecovery(g)'
    BY <1>1, <1>6, <1>7, <2>1, <2>2, <2>5 DEF GuestRecovery
  <2> QED BY <1>4, <1>5, <2>4, <2>6, GuestStep
<1>9. CASE ~(recovery[g] # None /\ next[g] - 1 = recovery[g])
  <2>1. coord' = coord
    BY <1>9 DEF GuestStops
  <2>2. Machine(g)'
    BY <1>1, <1>3, <1>7, <2>1 DEF Machine, Idle
  <2>3. GuestRecovery(g)'
    BY <1>1, <1>6, <1>7, <2>1 DEF GuestRecovery
  <2> QED BY <1>4, <1>5, <2>2, <2>3, GuestStep
<1> QED BY <1>8, <1>9

(* The end of a frame, in the race or across its finish. *)
LEMMA GuestPlays ==
  ASSUME RecoveryInv, NEW g \in Guests, PlayOn(g) \/ Drift(g) \/ CrossFinish(g)
  PROVE  RecoveryInv'
<1>1. PICK l \in {"racing", "crossed"} : playing[g] /\ Played(g, l)
  BY DEF PlayOn, Drift, CrossFinish
<1>2. drifted' \subseteq Guests
  BY DEF PlayOn, Drift, CrossFinish, RecoveryInv, Shapes
<1>3. life[g] = "racing" /\ coord[g] = Idle /\ g # Host
  BY <1>1, NodeFacts DEF RecoveryInv, Machine
<1>4. /\ playing' = [playing EXCEPT ![g] = FALSE] /\ life' = [life EXCEPT ![g] = l]
      /\ next' = next /\ recovery' = recovery /\ resumed' = resumed /\ done' = done
      /\ epoch' = epoch /\ announced' = announced /\ ending' = ending
      /\ installed' = installed /\ PostHook(g)
  BY <1>1 DEF Played
<1>5. acks' = acks /\ sent' = sent /\ GuestStops(g, next[g] - 1)
  BY <1>3, <1>4 DEF PostHook, BeginCompleted, GuestStops
<1> QED BY <1>2, <1>3, <1>4, <1>5, GuestStopsHolds

LEMMA GuestBeginsLate ==
  ASSUME RecoveryInv, NEW g \in Guests, LateBegin(g)
  PROVE  RecoveryInv'
<1>1. Shapes /\ g # Host /\ g \in Node
  BY NodeFacts DEF RecoveryInv
<1>2. /\ ~playing[g] /\ life[g] = "racing" /\ coord[g] = Idle
      /\ recovery[g] # None /\ next[g] - 1 = recovery[g]
      /\ next' = next /\ playing' = playing /\ life' = life /\ recovery' = recovery
      /\ resumed' = resumed /\ done' = done /\ epoch' = epoch /\ announced' = announced
      /\ ending' = ending /\ installed' = installed /\ drifted' = drifted
      /\ BeginCompleted(g, recovery[g])
  BY DEF LateBegin, InTick, Active, AtBoundary, Completed
<1>3. acks' = acks /\ sent' = sent /\ GuestStops(g, next[g] - 1)
  BY <1>1, <1>2 DEF BeginCompleted, GuestStops
<1>4. playing' = [playing EXCEPT ![g] = FALSE] /\ life' = [life EXCEPT ![g] = "racing"]
  BY <1>1, <1>2 DEF Shapes
<1>5. drifted' \subseteq Guests
  BY <1>1, <1>2 DEF Shapes
<1> QED BY <1>2, <1>3, <1>4, <1>5, GuestStopsHolds

LEMMA GuestAdmits ==
  ASSUME RecoveryInv, NEW g \in Guests, Admit(g)
  PROVE  RecoveryInv'
<1> USE DEF sessionVars
<1>1. /\ Shapes /\ HostRecovery /\ Finishing /\ Machine(g) /\ GuestRecovery(g)
      /\ g \in Node /\ g # Host
  BY NodeFacts DEF RecoveryInv
<1>2. /\ life[g] = "racing" /\ coord[g] = Idle /\ next[g] < next[Host]
      /\ next' = [next EXCEPT ![g] = @ + 1] /\ playing' = [playing EXCEPT ![g] = TRUE]
      /\ life' = life /\ recovery' = recovery /\ resumed' = resumed /\ coord' = coord
      /\ acks' = acks /\ done' = done /\ epoch' = epoch /\ announced' = announced
      /\ ending' = ending /\ installed' = installed /\ drifted' = drifted
  BY <1>1 DEF Admit, InLedger
<1>3. next[g] \in Nat /\ next[Host] \in Nat
  BY <1>1, NodeFacts DEF Shapes
<1>4. /\ next' \in [Node -> Nat] /\ playing' \in [Node -> BOOLEAN]
      /\ next'[g] = next[g] + 1 /\ playing'[g] = TRUE
      /\ \A q \in Node \ {g} : next'[q] = next[q] /\ playing'[q] = playing[q]
  BY <1>1, <1>2, <1>3 DEF Shapes
<1>5. /\ sent \subseteq sent'
      /\ \A m \in sent' \ sent : m.type = "Digest" /\ m.frame = next[g]
  BY DEF Admit
<1>6. Shapes'
  <2>1. \A m \in sent' :
          /\ m.type = "RecoveryBegin" => m.frame \in Nat
          /\ m.type = "RecoveryAck" => m.from \in Guests /\ m.frame \in Nat
          /\ m.type = "Digest" => m.frame \in Nat
    BY <1>1, <1>3, <1>5 DEF Shapes
  <2> QED BY <1>1, <1>2, <1>4, <2>1 DEF Shapes
<1>7. GuestMoves(g)
  BY <1>1, <1>2, <1>3, <1>4, <1>5 DEF GuestMoves, Alone, Finishing
<1>8. Machine(g)'
  BY <1>1, <1>2, <1>4 DEF Machine, Racing, Idle
<1>9. GuestRecovery(g)'
  <2>1. Begun' = Begun
    BY <1>5, BegunStays
  <2> QED BY <1>1, <1>2, <2>1 DEF GuestRecovery, Racing
<1> QED BY <1>6, <1>7, <1>8, <1>9, GuestStep

(* Player 1's state replaces the guest's; the guest acknowledges it. *)
LEMMA GuestInstalls ==
  ASSUME RecoveryInv, NEW g \in Guests, InstallState(g)
  PROVE  RecoveryInv' /\ (failed' = failed \/ (failed' = [who |-> g, why |-> "baseline"]
                                            /\ coord' = coord /\ ending' = ending
                                            /\ coord[g].frame = ending.frame))
<1> USE DEF sessionVars, gameVars
<1>1. /\ Shapes /\ HostRecovery /\ Finishing /\ Machine(g) /\ GuestRecovery(g)
      /\ g \in Node /\ g # Host
  BY NodeFacts DEF RecoveryInv
<1>2. ~playing[g] /\ life[g] \in {"racing", "over"} /\ coord[g].stage = "baseline"
  BY DEF InstallState, InTick
<1>3. CASE ~Active(g)
  <2>1. Fail(g, "baseline") /\ ~Racing(g)
    BY <1>3 DEF InstallState, Active, Racing
  <2>2. RecoveryInv'
    BY <2>1, FailHolds DEF Fail
  <2>3. coord[g].frame = ending.frame
    BY <1>1, <1>2, <2>1 DEF GuestRecovery
  <2> QED BY <2>1, <2>2, <2>3 DEF Fail
<1>4. CASE Active(g)
  <2> DEFINE b == coord[g].frame
  <2>1. Racing(g) /\ recovery[g] = b /\ b \in Nat
    BY <1>1, <1>2, <1>4 DEF Active, Racing, Machine, Shapes
  <2>2. /\ drifted' = drifted \ {g}
        /\ coord' = [coord EXCEPT ![g].stage = "resume"]
        /\ sent' = sent \cup {[type |-> "RecoveryAck", from |-> g, frame |-> b]}
        /\ installed' = installed \cup {<<g, b>>}
        /\ next' = next /\ playing' = playing /\ life' = life /\ recovery' = recovery
        /\ resumed' = resumed /\ acks' = acks /\ done' = done /\ epoch' = epoch
        /\ announced' = announced /\ ending' = ending /\ failed' = failed
    BY <1>4 DEF InstallState
  <2>3. /\ coord' \in [Node -> [stage : {"idle", "baseline", "resume"}, frame : Nat]]
        /\ coord'[g].stage = "resume" /\ coord'[g].frame = b
        /\ \A q \in Node \ {g} : coord'[q] = coord[q]
    BY <1>1, <2>2 DEF Shapes
  <2> HIDE DEF b
  <2>4. \A m \in sent' \ sent : m.type = "RecoveryAck" /\ m.from = g /\ m.frame = b
    BY <2>2
  <2>5. Shapes'
    <3>1. \A m \in sent' :
            /\ m.type = "RecoveryBegin" => m.frame \in Nat
            /\ m.type = "RecoveryAck" => m.from \in Guests /\ m.frame \in Nat
            /\ m.type = "Digest" => m.frame \in Nat
      BY <1>1, <2>1, <2>4 DEF Shapes
    <3> QED BY <1>1, <2>2, <2>3, <3>1 DEF Shapes
  <2>6. GuestMoves(g)
    <3>1. \A i \in installed' \ installed : i[1] = g
      BY <2>2
    <3> QED BY <1>1, <2>2, <2>3, <2>4, <3>1 DEF GuestMoves, Alone, HostRecovery, Finishing
  <2>7. Machine(g)'
    BY <1>1, <1>2, <2>1, <2>2, <2>3 DEF Machine, Racing, b
  <2>8. GuestRecovery(g)'
    <3>1. Begun' = Begun
      BY <2>2, <2>4, BegunStays
    <3>2. \A i \in installed : i[1] = g => i[2] \in done[g]
      BY <1>1, <1>2, <2>1 DEF GuestRecovery
    <3>3. \A i \in installed' : i[1] = g => i[2] \in done[g] \/ i[2] = b
      BY <2>2, <3>2
    <3>4. <<g, b>> \in installed' /\ installed \subseteq installed'
      BY <2>2
    <3> QED BY <1>1, <2>1, <2>2, <2>3, <3>1, <3>3, <3>4 DEF GuestRecovery, Racing
  <2> QED BY <2>2, <2>5, <2>6, <2>7, <2>8, GuestStep
<1> QED BY <1>3, <1>4

(* A guest whose race is over, or being sealed, has no session any more; a *)
(* coordinator still waiting for the state waits at the last frame.        *)
LEMMA GuestDropsHolds ==
  ASSUME RecoveryInv, NEW g \in Guests,
         next' = next, done' = done, installed' = installed, acks' = acks,
         epoch' = epoch, announced' = announced, ending' = ending, sent' = sent,
         drifted' = drifted,
         recovery' = [recovery EXCEPT ![g] = None],
         resumed' = [resumed EXCEPT ![g] = FALSE],
         NEW l \in {"sealing", "over"}, life' = [life EXCEPT ![g] = l],
         \A q \in Node \ {g} : playing'[q] = playing[q],
         playing' \in [Node -> BOOLEAN], ~playing'[g],
         coord' = coord \/ coord' = [coord EXCEPT ![g] = Idle],
         coord[g].stage = "baseline" => coord[g].frame = ending.frame
  PROVE  RecoveryInv'
<1>1. /\ Shapes /\ HostRecovery /\ Finishing /\ Machine(g) /\ GuestRecovery(g)
      /\ g \in Node /\ g # Host
  BY NodeFacts DEF RecoveryInv
<1>2. /\ recovery'[g] = None /\ life'[g] = l /\ ~resumed'[g]
      /\ recovery' \in [Node -> Nat \cup {None}] /\ life' \in [Node -> Stages]
      /\ resumed' \in [Node -> BOOLEAN]
      /\ \A q \in Node \ {g} : recovery'[q] = recovery[q] /\ life'[q] = life[q]
                                /\ resumed'[q] = resumed[q]
  BY <1>1 DEF Shapes, Stages
<1>3. /\ coord' \in [Node -> [stage : {"idle", "baseline", "resume"}, frame : Nat]]
      /\ coord'[g] = coord[g] \/ coord'[g] = Idle
      /\ \A q \in Node \ {g} : coord'[q] = coord[q]
  BY <1>1 DEF Shapes, Idle
<1>4. Shapes'
  BY <1>1, <1>2, <1>3 DEF Shapes, Stages
<1>5. GuestMoves(g)
  BY <1>1, <1>2, <1>3 DEF GuestMoves, Alone, HostRecovery, Finishing
<1>6. ~Racing(g)'
  BY <1>2 DEF Racing
<1>7. Machine(g)'
  BY <1>1, <1>2, <1>3, <1>6 DEF Machine, Idle
<1>8. GuestRecovery(g)'
  <2>1. Begun' = Begun
    BY DEF Begun
  <2> QED BY <1>1, <1>2, <1>3, <1>6, <2>1 DEF GuestRecovery, Idle
<1> QED BY <1>4, <1>5, <1>7, <1>8, GuestStep

LEMMA GuestSeals ==
  ASSUME RecoveryInv, NEW g \in Guests, BeginSeal(g) \/ CompleteSeal(g)
  PROVE  RecoveryInv'
<1>1. /\ Shapes /\ HostRecovery /\ Finishing /\ Machine(g) /\ GuestRecovery(g)
      /\ Machine(Host) /\ g \in Node /\ g # Host /\ Host \in Node
  BY NodeFacts DEF RecoveryInv
<1>2. PICK l \in {"sealing", "over"} : life' = [life EXCEPT ![g] = l]
  BY DEF BeginSeal, CompleteSeal
<1>3. /\ next' = next /\ playing' = playing /\ coord' = coord /\ drifted' = drifted
      /\ acks' = acks /\ done' = done /\ epoch' = epoch /\ announced' = announced
      /\ ending' = ending /\ sent' = sent /\ installed' = installed
      /\ recovery' = [recovery EXCEPT ![g] = None]
      /\ resumed' = [resumed EXCEPT ![g] = FALSE]
  BY <1>1 DEF BeginSeal, CompleteSeal
<1>4. ~playing[g]
  BY <1>1 DEF BeginSeal, CompleteSeal, Machine
<1>5. coord[g].stage = "baseline" => coord[g].frame = ending.frame
  <2> SUFFICES ASSUME coord[g].stage = "baseline" PROVE coord[g].frame = ending.frame
    OBVIOUS
  <2>1. CASE CompleteSeal(g)
    BY <1>1, <2>1 DEF CompleteSeal, Racing, GuestRecovery
  <2>2. CASE BeginSeal(g)
    <3> DEFINE b == coord[g].frame
    <3>1. /\ Racing(g) /\ g \in announced /\ recovery[g] = b /\ next[g] = b + 1
          /\ b \in Nat
      BY <1>1, <2>2 DEF BeginSeal, Racing, Machine, Shapes
    <3>2. ~Racing(Host) /\ next[Host] = ending.frame + 1 /\ recovery[Host] = None
      BY <1>1, <3>1 DEF Finishing, Machine
    <3>3. b \in Begun /\ b # None
      BY <1>1, <3>1, NodeFacts DEF GuestRecovery
    <3>4. b \notin done[Host]
      BY <1>1 DEF HostRecovery, Repaired, GuestRecovery
    <3>5. next[Host] <= b + 1
      BY <1>1, <3>2, <3>3, <3>4 DEF HostRecovery
    <3>6. b + 1 <= next[Host]
      BY <1>1, <3>1 DEF HostRecovery
    <3>7. ending.frame \in Nat
      BY <1>1 DEF Shapes
    <3> HIDE DEF b
    <3>8. b = ending.frame
      BY <3>1, <3>2, <3>5, <3>6, <3>7
    <3> QED BY <3>8 DEF b
  <2> QED BY <2>1, <2>2
<1>6. playing' \in [Node -> BOOLEAN]
  BY <1>1, <1>3 DEF Shapes
<1> QED BY <1>2, <1>3, <1>4, <1>5, <1>6, GuestDropsHolds

LEMMA GuestLeaves ==
  ASSUME RecoveryInv, NEW g \in Guests, LeaveLevel(g)
  PROVE  RecoveryInv' /\ (failed' = failed \/ (failed' = [who |-> g, why |-> "unload"]
                                            /\ recovery' = recovery /\ done' = done
                                            /\ recovery[g] \notin done[Host]))
<1>1. /\ Shapes /\ HostRecovery /\ Machine(g) /\ GuestRecovery(g)
      /\ g \in Node /\ g # Host
  BY NodeFacts DEF RecoveryInv
<1>2. playing[g] /\ coord[g].stage = "idle" /\ Racing(g)
  BY <1>1 DEF LeaveLevel, Machine, Racing, Idle
<1>3. CASE recovery[g] # None /\ ~resumed[g]
  <2>1. Fail(g, "unload")
    BY <1>3 DEF LeaveLevel
  <2>2. <<g, recovery[g]>> \notin installed
    BY <1>1, <1>2, <1>3, InstalledIsDone DEF GuestRecovery
  <2>3. recovery[g] \notin done[Host]
    BY <1>1, <2>2 DEF HostRecovery, Repaired
  <2> QED BY <2>1, <2>3, FailHolds DEF Fail, gameVars, sessionVars
<1>4. CASE ~(recovery[g] # None /\ ~resumed[g])
  <2>1. /\ playing' = [playing EXCEPT ![g] = FALSE] /\ life' = [life EXCEPT ![g] = "over"]
        /\ next' = next /\ drifted' = drifted /\ coord' = [coord EXCEPT ![g] = Idle]
        /\ acks' = acks /\ done' = done /\ epoch' = epoch /\ announced' = announced
        /\ ending' = ending /\ sent' = sent /\ installed' = installed
        /\ recovery' = [recovery EXCEPT ![g] = None] /\ failed' = failed
        /\ resumed' = [resumed EXCEPT ![g] = FALSE]
    BY <1>1, <1>4 DEF LeaveLevel
  <2>2. /\ playing' \in [Node -> BOOLEAN] /\ ~playing'[g]
        /\ \A q \in Node \ {g} : playing'[q] = playing[q]
    BY <1>1, <2>1 DEF Shapes
  <2>3. coord[g].stage = "baseline" => coord[g].frame = ending.frame
    BY <1>2
  <2> QED BY <2>1, <2>2, <2>3, GuestDropsHolds
<1> QED BY <1>3, <1>4

(* No machine waits at another boundary than its session's. *)
LEMMA SameBoundary ==
  ASSUME RecoveryInv, NEW p \in Node, coord[p].stage = "resume", recovery[p] # None
  PROVE  Racing(p) /\ recovery[p] = coord[p].frame
BY DEF RecoveryInv, Machine

LEMMA GuestPolls ==
  ASSUME RecoveryInv, NEW g \in Guests, PollRecovery(g)
  PROVE  RecoveryInv' /\ failed' = failed
<1>1. /\ Shapes /\ HostRecovery /\ Finishing /\ Machine(g) /\ GuestRecovery(g)
      /\ g \in Node /\ g # Host
  BY NodeFacts DEF RecoveryInv
<1>2. /\ ~playing[g] /\ coord[g].stage = "resume"
      /\ next' = next /\ playing' = playing /\ life' = life /\ drifted' = drifted
      /\ ending' = ending /\ sent' = sent /\ installed' = installed
  BY DEF PollRecovery, InTick
<1>3. Begun' = Begun
  BY <1>2 DEF Begun
<1>4. ASSUME coord' = [coord EXCEPT ![g] = Idle]
      PROVE  /\ coord' \in [Node -> [stage : {"idle", "baseline", "resume"}, frame : Nat]]
             /\ coord'[g] = Idle /\ \A q \in Node \ {g} : coord'[q] = coord[q]
  BY <1>1, <1>4 DEF Shapes, Idle
<1>5. CASE recovery[g] = None
  <2>1. /\ coord' = [coord EXCEPT ![g] = Idle] /\ recovery' = recovery
        /\ resumed' = resumed /\ acks' = acks /\ done' = done /\ epoch' = epoch
        /\ announced' = announced /\ failed' = failed
    BY <1>5 DEF PollRecovery, sessionVars
  <2>2. Shapes'
    BY <1>1, <1>2, <1>4, <2>1 DEF Shapes
  <2>3. GuestMoves(g)
    BY <1>1, <1>2, <1>4, <2>1 DEF GuestMoves, Alone, HostRecovery, Finishing
  <2>4. Machine(g)'
    BY <1>1, <1>2, <1>4, <2>1 DEF Machine, Racing, Idle
  <2>5. coord[g].frame \in Nat
    BY <1>1 DEF Shapes
  <2>6. ~Racing(g)
    BY <1>1, <1>2, <1>5, <2>5, NodeFacts DEF Machine
  <2>7. GuestRecovery(g)'
    BY <1>1, <1>2, <1>3, <1>4, <2>1, <2>6 DEF GuestRecovery, Racing, Idle
  <2> QED BY <2>1, <2>2, <2>3, <2>4, <2>7, GuestStep
<1>6. CASE recovery[g] # None
  <2> DEFINE b == recovery[g]
  <2>1. recovery[g] = coord[g].frame /\ Racing(g)
    BY <1>1, <1>2, <1>6, SameBoundary
  <2>2. /\ coord' = [coord EXCEPT ![g] = Idle]
        /\ done' = [done EXCEPT ![g] = @ \cup {b}]
        /\ recovery' = [recovery EXCEPT ![g] = None]
        /\ resumed' = [resumed EXCEPT ![g] = FALSE]
        /\ acks' = acks /\ announced' = announced /\ failed' = failed
        /\ epoch' = [epoch EXCEPT ![g] = @ + 1]
    BY <1>1, <1>6, <2>1 DEF PollRecovery, NextEpoch
  <2>3. b \in Nat /\ b \in Begun /\ <<g, b>> \in installed
    BY <1>1, <1>2, <1>6, <2>1 DEF Shapes, GuestRecovery
  <2>4. /\ done' \in [Node -> SUBSET Nat] /\ done'[g] = done[g] \cup {b}
        /\ recovery' \in [Node -> Nat \cup {None}] /\ recovery'[g] = None
        /\ resumed' \in [Node -> BOOLEAN]
        /\ epoch' \in [Node -> Nat]
        /\ \A q \in Node \ {g} : /\ done'[q] = done[q] /\ recovery'[q] = recovery[q]
                                 /\ resumed'[q] = resumed[q]
    BY <1>1, <2>2, <2>3 DEF Shapes
  <2>5. Shapes'
    BY <1>1, <1>2, <1>4, <2>2, <2>4 DEF Shapes
  <2>6. GuestMoves(g)
    BY <1>1, <1>2, <1>4, <2>2, <2>4 DEF GuestMoves, Alone, HostRecovery, Finishing
  <2>7. Machine(g)'
    BY <1>1, <1>2, <1>4, <2>2, <2>4 DEF Machine, Racing, Idle
  <2>8. \A i \in installed : i[1] = g => i[2] \in done'[g]
    BY <1>1, <2>1, <2>4 DEF GuestRecovery
  <2>9. GuestRecovery(g)'
    BY <1>1, <1>2, <1>3, <1>4, <2>2, <2>3, <2>4, <2>8 DEF GuestRecovery, Idle
  <2> QED BY <2>2, <2>5, <2>6, <2>7, <2>9, GuestStep
<1> QED BY <1>5, <1>6

-----------------------------------------------------------------------------
(* The steps of Player 1 *)

LEMMA HostAdmits ==
  ASSUME RecoveryInv, Admit(Host)
  PROVE  RecoveryInv'
<1> USE DEF sessionVars
<1>1. /\ Shapes /\ HostRecovery /\ Finishing /\ Machine(Host) /\ Host \in Node
  BY NodeFacts DEF RecoveryInv
<1>2. /\ life[Host] = "racing" /\ coord[Host] = Idle /\ ~Parked(Host, next[Host])
      /\ next' = [next EXCEPT ![Host] = @ + 1] /\ playing' = [playing EXCEPT ![Host] = TRUE]
      /\ life' = life /\ recovery' = recovery /\ resumed' = resumed /\ coord' = coord
      /\ acks' = acks /\ done' = done /\ epoch' = epoch /\ announced' = announced
      /\ ending' = ending /\ installed' = installed /\ drifted' = drifted
      /\ sent' = sent
  BY <1>1, NodeFacts DEF Admit, Shapes
<1>3. /\ next' \in [Node -> Nat] /\ playing' \in [Node -> BOOLEAN]
      /\ next[Host] \in Nat
      /\ next'[Host] = next[Host] + 1 /\ playing'[Host] = TRUE
      /\ \A q \in Node \ {Host} : next'[q] = next[q] /\ playing'[q] = playing[q]
  BY <1>1, <1>2 DEF Shapes
<1>4. Shapes'
  BY <1>1, <1>2, <1>3 DEF Shapes
<1>5. HostMoves
  BY <1>1, <1>2, <1>3 DEF HostMoves, Alone, Racing
<1>6. Machine(Host)'
  BY <1>1, <1>2, <1>3 DEF Machine, Racing, Idle
<1>7. ~resumed[Host]
  BY <1>1, <1>2 DEF HostRecovery, Idle
<1>8. Begun' = Begun /\ \A b : Repaired(b)' <=> Repaired(b)
  BY <1>2 DEF Begun, Repaired
<1>9. recovery[Host] # None => next'[Host] <= recovery[Host] + 1
  <2>1. recovery[Host] # None => recovery[Host] \in Nat
    BY <1>1 DEF Shapes
  <2> QED BY <1>2, <1>3, <1>7, <2>1 DEF Parked
<1>10. \A g \in Guests : next'[g] <= next'[Host]
  <2>1. \A g \in Guests : next[g] \in Nat /\ next'[g] = next[g]
    BY <1>1, <1>3, NodeFacts DEF Shapes
  <2> QED BY <1>1, <1>3, <2>1 DEF HostRecovery
<1>11. \A b \in done[Host] : b < next'[Host]
  <2>1. \A b \in done[Host] : b \in Nat
    BY <1>1 DEF Shapes
  <2> QED BY <1>1, <1>3, <2>1 DEF HostRecovery
<1>12. Racing(Host)
  BY <1>2 DEF Racing
<1>13. HostRecovery'
  BY <1>1, <1>2, <1>7, <1>8, <1>9, <1>10, <1>11, <1>12 DEF HostRecovery
<1> QED BY <1>4, <1>5, <1>6, <1>13, HostStep

(* Player 1 stops at his boundary: he publishes his state and acknowledges *)
(* it himself.                                                             *)
HostStops(b) ==
    IF recovery[Host] # None /\ b = recovery[Host]
    THEN /\ coord' = [coord EXCEPT ![Host] = [stage |-> "resume", frame |-> b]]
         /\ acks' = acks \cup {Host}
         /\ sent' = sent \cup {[type |-> "State", frame |-> b]}
    ELSE coord' = coord /\ acks' = acks /\ sent' = sent

LEMMA HostStopsHolds ==
  ASSUME RecoveryInv, coord[Host] = Idle, life[Host] = "racing",
         next' = next, recovery' = recovery, done' = done, installed' = installed,
         playing' = [playing EXCEPT ![Host] = FALSE],
         NEW l \in {"racing", "crossed"}, life' = [life EXCEPT ![Host] = l],
         l = "crossed" => next[Host] - 1 = ending.frame,
         resumed' = resumed, epoch' = epoch, announced' = announced,
         ending' = ending, drifted' \subseteq Guests,
         HostStops(next[Host] - 1)
  PROVE  RecoveryInv'
<1>1. /\ Shapes /\ HostRecovery /\ Finishing /\ Machine(Host) /\ Host \in Node
  BY NodeFacts DEF RecoveryInv
<1>2. next[Host] \in Nat /\ recovery[Host] \in Nat \cup {None} /\ ending.frame \in Nat
  BY <1>1 DEF Shapes
<1> DEFINE stops == recovery[Host] # None /\ next[Host] - 1 = recovery[Host]
<1>3. /\ playing' \in [Node -> BOOLEAN] /\ life' \in [Node -> Stages]
      /\ ~playing'[Host] /\ life'[Host] = l
      /\ \A q \in Node \ {Host} : playing'[q] = playing[q] /\ life'[q] = life[q]
  BY <1>1 DEF Shapes, Stages
<1>4. /\ coord' \in [Node -> [stage : {"idle", "baseline", "resume"}, frame : Nat]]
      /\ \A q \in Node \ {Host} : coord'[q] = coord[q]
      /\ stops => coord'[Host] = [stage |-> "resume", frame |-> recovery[Host]]
      /\ ~stops => coord'[Host] = Idle /\ acks' = acks
      /\ acks' \subseteq Node /\ Guests \cap acks' = Guests \cap acks
      /\ acks \subseteq acks'
  <2>1. CASE stops
    <3>1. [stage |-> "resume", frame |-> next[Host] - 1]
             \in [stage : {"idle", "baseline", "resume"}, frame : Nat]
      BY <1>2, <2>1
    <3>2. /\ coord' = [coord EXCEPT ![Host] = [stage |-> "resume", frame |-> next[Host] - 1]]
          /\ acks' = acks \cup {Host}
      BY <2>1 DEF HostStops
    <3> QED BY <1>1, <2>1, <3>1, <3>2, NodeFacts DEF Shapes
  <2>2. CASE ~stops
    BY <1>1, <2>2 DEF HostStops, Shapes
  <2> QED BY <2>1, <2>2
<1>5. sent \subseteq sent' /\ \A m \in sent' \ sent : m.type = "State"
  BY DEF HostStops
<1>6. Begun' = Begun /\ \A b : Repaired(b)' <=> Repaired(b)
  BY <1>5, BegunStays DEF Repaired
<1>7. Racing(Host) /\ Racing(Host)'
  BY <1>3 DEF Racing
<1> HIDE DEF stops
<1>8. Shapes'
  <2>1. \A m \in sent' :
          /\ m.type = "RecoveryBegin" => m.frame \in Nat
          /\ m.type = "RecoveryAck" => m.from \in Guests /\ m.frame \in Nat
          /\ m.type = "Digest" => m.frame \in Nat
    BY <1>1, <1>5 DEF Shapes
  <2> QED BY <1>1, <1>3, <1>4, <2>1 DEF Shapes, Stages
<1>9. HostMoves
  <2>1. life'[Host] \in {"crossed", "sealing"} => next'[Host] = ending.frame + 1
    BY <1>2, <1>3
  <2> QED BY <1>3, <1>4, <1>5, <1>7, <2>1 DEF HostMoves, Alone
<1>10. Machine(Host)'
  <2>1. CASE stops
    <3>1. next[Host] = recovery[Host] + 1
      BY <1>2, <2>1 DEF stops
    <3> QED BY <1>3, <1>4, <1>7, <2>1, <3>1 DEF Machine
  <2>2. CASE ~stops
    BY <1>3, <1>4, <1>7, <2>2 DEF Machine, Idle
  <2> QED BY <2>1, <2>2
<1>11. HostRecovery'
  <2>1. Host \in acks' /\ recovery[Host] # None => coord'[Host].stage = "resume"
    BY <1>1, <1>4 DEF HostRecovery, Idle
  <2>2. coord'[Host].stage # "baseline"
    BY <1>4 DEF Idle
  <2> QED BY <1>1, <1>4, <1>6, <1>7, <2>1, <2>2 DEF HostRecovery
<1> QED BY <1>8, <1>9, <1>10, <1>11, HostStep

LEMMA HostPlays ==
  ASSUME RecoveryInv, PlayOn(Host) \/ CrossFinish(Host)
  PROVE  RecoveryInv'
<1>1. Shapes /\ Machine(Host) /\ Host \notin drifted
  BY NodeFacts DEF RecoveryInv, Shapes
<1>2. PICK l \in {"racing", "crossed"} :
        /\ playing[Host] /\ Played(Host, l)
        /\ l = "crossed" => next[Host] - 1 = ending.frame
  BY <1>1 DEF PlayOn, CrossFinish, EndsHere
<1>3. drifted' \subseteq Guests
  BY <1>1 DEF PlayOn, CrossFinish, Shapes
<1>4. life[Host] = "racing" /\ coord[Host] = Idle
  BY <1>1, <1>2 DEF Machine
<1>5. /\ playing' = [playing EXCEPT ![Host] = FALSE] /\ life' = [life EXCEPT ![Host] = l]
      /\ next' = next /\ recovery' = recovery /\ resumed' = resumed /\ done' = done
      /\ epoch' = epoch /\ announced' = announced /\ ending' = ending
      /\ installed' = installed /\ PostHook(Host)
  BY <1>2 DEF Played
<1>6. HostStops(next[Host] - 1)
  BY <1>5 DEF PostHook, BeginCompleted, HostStops
<1> QED BY <1>2, <1>3, <1>4, <1>5, <1>6, HostStopsHolds

LEMMA HostBeginsLate ==
  ASSUME RecoveryInv, LateBegin(Host)
  PROVE  RecoveryInv'
<1>1. Shapes
  BY DEF RecoveryInv
<1>2. /\ ~playing[Host] /\ life[Host] = "racing" /\ coord[Host] = Idle
      /\ recovery[Host] # None /\ next[Host] - 1 = recovery[Host]
      /\ next' = next /\ playing' = playing /\ life' = life /\ recovery' = recovery
      /\ resumed' = resumed /\ done' = done /\ epoch' = epoch /\ announced' = announced
      /\ ending' = ending /\ installed' = installed /\ drifted' = drifted
      /\ BeginCompleted(Host, recovery[Host])
  BY DEF LateBegin, InTick, Active, AtBoundary, Completed
<1>3. HostStops(next[Host] - 1)
  BY <1>2 DEF BeginCompleted, HostStops
<1>4. playing' = [playing EXCEPT ![Host] = FALSE] /\ life' = [life EXCEPT ![Host] = "racing"]
  BY <1>1, <1>2, NodeFacts DEF Shapes
<1>5. drifted' \subseteq Guests
  BY <1>1, <1>2 DEF Shapes
<1> QED BY <1>2, <1>3, <1>4, <1>5, HostStopsHolds

(* Player 1's race is over, or being sealed: whatever repair he planned is *)
(* dropped, and a boundary he had not released he has not played past.     *)
LEMMA HostDropsHolds ==
  ASSUME RecoveryInv,
         next' = next, done' = done, installed' = installed, acks' = {},
         epoch' = epoch, announced' = announced, ending' = ending,
         drifted' = drifted,
         recovery' = [recovery EXCEPT ![Host] = None],
         resumed' = [resumed EXCEPT ![Host] = FALSE],
         NEW l \in {"sealing", "over"}, life' = [life EXCEPT ![Host] = l],
         l = "sealing" => next[Host] = ending.frame + 1,
         sent \subseteq sent',
         \A m \in sent' \ sent : m.type = "TransitionBegin" /\ l = "sealing",
         \A q \in Node \ {Host} : playing'[q] = playing[q],
         playing' \in [Node -> BOOLEAN], ~playing'[Host],
         coord' = coord \/ coord' = [coord EXCEPT ![Host] = Idle]
  PROVE  RecoveryInv'
<1>1. Shapes /\ HostRecovery /\ Machine(Host) /\ Host \in Node
  BY NodeFacts DEF RecoveryInv
<1>2. /\ recovery'[Host] = None /\ life'[Host] = l /\ ~resumed'[Host]
      /\ recovery' \in [Node -> Nat \cup {None}] /\ life' \in [Node -> Stages]
      /\ resumed' \in [Node -> BOOLEAN]
      /\ \A q \in Node \ {Host} : recovery'[q] = recovery[q] /\ life'[q] = life[q]
                                   /\ resumed'[q] = resumed[q]
  BY <1>1 DEF Shapes, Stages
<1>3. /\ coord' \in [Node -> [stage : {"idle", "baseline", "resume"}, frame : Nat]]
      /\ coord'[Host] = coord[Host] \/ coord'[Host] = Idle
      /\ \A q \in Node \ {Host} : coord'[q] = coord[q]
  BY <1>1 DEF Shapes, Idle
<1>4. Shapes'
  <2>1. \A m \in sent' :
          /\ m.type = "RecoveryBegin" => m.frame \in Nat
          /\ m.type = "RecoveryAck" => m.from \in Guests /\ m.frame \in Nat
          /\ m.type = "Digest" => m.frame \in Nat
    BY <1>1 DEF Shapes
  <2> QED BY <1>1, <1>2, <1>3, <2>1 DEF Shapes, Stages
<1>5. ~Racing(Host)'
  BY <1>2 DEF Racing
<1>6. HostMoves
  BY <1>2, <1>3, <1>5 DEF HostMoves, Alone
<1>7. Machine(Host)'
  BY <1>1, <1>2, <1>3, <1>5 DEF Machine, Idle
<1>8. Begun' = Begun /\ \A b : Repaired(b)' <=> Repaired(b)
  BY BegunStays DEF Repaired
<1>9. \A b \in Begun : b \in done[Host] \/ next[Host] <= b + 1
  <2>1. \A b \in Begun : b # None
    BY <1>1, NodeFacts DEF Begun, Shapes
  <2> QED BY <1>1, <2>1 DEF HostRecovery
<1>10. HostRecovery'
  BY <1>1, <1>2, <1>3, <1>5, <1>8, <1>9 DEF HostRecovery, Idle
<1> QED BY <1>4, <1>6, <1>7, <1>10, HostStep

LEMMA HostSeals ==
  ASSUME RecoveryInv, BeginSeal(Host) \/ CompleteSeal(Host)
  PROVE  RecoveryInv'
<1>1. Shapes /\ Finishing /\ Machine(Host) /\ Host \in Node
  BY NodeFacts DEF RecoveryInv
<1>2. PICK l \in {"sealing", "over"} :
        /\ life' = [life EXCEPT ![Host] = l]
        /\ l = "sealing" => next[Host] = ending.frame + 1
        /\ \A m \in sent' \ sent : m.type = "TransitionBegin" /\ l = "sealing"
  <2>1. CASE BeginSeal(Host)
    BY <1>1, <2>1 DEF BeginSeal, Finishing
  <2>2. CASE CompleteSeal(Host)
    BY <1>1, <2>2 DEF CompleteSeal
  <2> QED BY <2>1, <2>2
<1>3. /\ next' = next /\ playing' = playing /\ coord' = coord /\ drifted' = drifted
      /\ acks' = {} /\ done' = done /\ epoch' = epoch /\ announced' = announced
      /\ ending' = ending /\ sent \subseteq sent' /\ installed' = installed
      /\ recovery' = [recovery EXCEPT ![Host] = None]
      /\ resumed' = [resumed EXCEPT ![Host] = FALSE]
  BY DEF BeginSeal, CompleteSeal
<1>4. ~playing[Host] /\ playing' \in [Node -> BOOLEAN]
  BY <1>1, <1>3 DEF BeginSeal, CompleteSeal, Machine, Shapes
<1> QED BY <1>2, <1>3, <1>4, HostDropsHolds

(* The race is left from the pause menu. *)
LEMMA HostLeaves ==
  ASSUME RecoveryInv, LeaveLevel(Host)
  PROVE  RecoveryInv' /\ (failed' = failed \/ (failed' = [who |-> Host, why |-> "unload"]
                                            /\ recovery' = recovery /\ done' = done
                                            /\ recovery[Host] \notin done[Host]))
<1>1. Shapes /\ HostRecovery /\ Host \in Node
  BY NodeFacts DEF RecoveryInv
<1>2. CASE recovery[Host] # None /\ ~resumed[Host]
  <2>1. Fail(Host, "unload")
    BY <1>2 DEF LeaveLevel
  <2>2. recovery[Host] \notin done[Host]
    BY <1>1, <1>2 DEF HostRecovery
  <2> QED BY <2>1, <2>2, FailHolds DEF Fail, gameVars, sessionVars
<1>3. CASE ~(recovery[Host] # None /\ ~resumed[Host])
  <2>1. /\ playing' = [playing EXCEPT ![Host] = FALSE]
        /\ life' = [life EXCEPT ![Host] = "over"]
        /\ next' = next /\ drifted' = drifted /\ coord' = [coord EXCEPT ![Host] = Idle]
        /\ acks' = {} /\ done' = done /\ epoch' = epoch /\ announced' = announced
        /\ ending' = ending /\ sent' = sent /\ installed' = installed
        /\ recovery' = [recovery EXCEPT ![Host] = None] /\ failed' = failed
        /\ resumed' = [resumed EXCEPT ![Host] = FALSE]
    BY <1>3 DEF LeaveLevel
  <2>2. /\ playing' \in [Node -> BOOLEAN] /\ ~playing'[Host]
        /\ \A q \in Node \ {Host} : playing'[q] = playing[q]
    BY <1>1, <2>1 DEF Shapes
  <2> QED BY <2>1, <2>2, HostDropsHolds
<1> QED BY <1>2, <1>3

(* Player 1 has released the boundary and goes on. *)
LEMMA HostPolls ==
  ASSUME RecoveryInv, PollRecovery(Host)
  PROVE  RecoveryInv' /\ failed' = failed
<1>1. Shapes /\ HostRecovery /\ Finishing /\ Machine(Host) /\ Host \in Node
  BY NodeFacts DEF RecoveryInv
<1>2. /\ ~playing[Host] /\ coord[Host].stage = "resume"
      /\ next' = next /\ playing' = playing /\ life' = life /\ drifted' = drifted
      /\ ending' = ending /\ sent' = sent /\ installed' = installed
  BY DEF PollRecovery, InTick
<1>3. Begun' = Begun /\ \A b : Repaired(b)' <=> Repaired(b)
  BY <1>2 DEF Begun, Repaired
<1>4. ASSUME coord' = [coord EXCEPT ![Host] = Idle]
      PROVE  /\ coord' \in [Node -> [stage : {"idle", "baseline", "resume"}, frame : Nat]]
             /\ coord'[Host] = Idle /\ \A q \in Node \ {Host} : coord'[q] = coord[q]
  BY <1>1, <1>4 DEF Shapes, Idle
<1>5. CASE recovery[Host] = None
  <2>1. /\ coord' = [coord EXCEPT ![Host] = Idle] /\ recovery' = recovery
        /\ resumed' = resumed /\ acks' = acks /\ done' = done /\ epoch' = epoch
        /\ announced' = announced /\ failed' = failed
    BY <1>5 DEF PollRecovery, sessionVars
  <2>2. Shapes'
    BY <1>1, <1>2, <1>4, <2>1 DEF Shapes
  <2>3. HostMoves
    BY <1>1, <1>2, <1>4, <2>1 DEF HostMoves, Alone, Finishing, Racing
  <2>4. Machine(Host)'
    BY <1>1, <1>2, <1>4, <2>1 DEF Machine, Racing, Idle
  <2>5. HostRecovery'
    BY <1>1, <1>2, <1>3, <1>4, <1>5, <2>1 DEF HostRecovery, Racing, Idle
  <2> QED BY <2>1, <2>2, <2>3, <2>4, <2>5, HostStep
<1>6. CASE recovery[Host] # None
  <2> DEFINE b == recovery[Host]
  <2>1. recovery[Host] = coord[Host].frame /\ Racing(Host)
    BY <1>1, <1>2, <1>6, SameBoundary
  <2>2. /\ resumed[Host] /\ coord' = [coord EXCEPT ![Host] = Idle]
        /\ done' = [done EXCEPT ![Host] = @ \cup {b}]
        /\ recovery' = [recovery EXCEPT ![Host] = None]
        /\ resumed' = [resumed EXCEPT ![Host] = FALSE]
        /\ acks' = {} /\ announced' = announced /\ failed' = failed
        /\ epoch' = [epoch EXCEPT ![Host] = @ + 1]
    BY <1>1, <1>6, <2>1 DEF PollRecovery, NextEpoch
  <2>3. b \in done[Host]
    BY <1>1, <1>6, <2>2 DEF HostRecovery
  <2>4. done' = done
    BY <1>1, <2>2, <2>3 DEF Shapes
  <2>5. /\ recovery' \in [Node -> Nat \cup {None}] /\ recovery'[Host] = None
        /\ resumed' \in [Node -> BOOLEAN] /\ ~resumed'[Host] /\ epoch' \in [Node -> Nat]
        /\ \A q \in Node \ {Host} : recovery'[q] = recovery[q] /\ resumed'[q] = resumed[q]
    BY <1>1, <2>2 DEF Shapes
  <2>6. Shapes'
    BY <1>1, <1>2, <1>4, <2>2, <2>4, <2>5 DEF Shapes
  <2>7. HostMoves
    BY <1>1, <1>2, <1>4, <2>2, <2>4, <2>5 DEF HostMoves, Alone, Finishing, Racing
  <2>8. Machine(Host)'
    BY <1>1, <1>2, <1>4, <2>2, <2>5 DEF Machine, Racing, Idle
  <2>9. HostRecovery'
    BY <1>1, <1>2, <1>3, <1>4, <2>1, <2>2, <2>3, <2>4, <2>5 DEF HostRecovery, Racing, Idle
  <2> QED BY <2>2, <2>6, <2>7, <2>8, <2>9, HostStep
<1> QED BY <1>5, <1>6

(* A boundary is a checkpoint not before the frame it is computed from. *)
LEMMA RoundedUpBounds ==
  ASSUME NEW f \in Nat
  PROVE  RoundedUp(f) \in Nat /\ RoundedUp(f) >= f
<1>1. Interval \in Nat \ {0}
  BY RecoveryAssumption
<1> DEFINE x == f + Interval - 1
           q == x \div Interval
           r == x % Interval
<1>2. x \in Nat
  BY <1>1
<1>3. x = q * Interval + r /\ 0 <= r /\ r < Interval /\ q \in Nat
  BY <1>1, <1>2, SMTT(30)
<1>4. q * Interval \in Nat
  BY <1>1, <1>3, SMTT(30)
<1>5. r \in Int
  BY <1>1, <1>2
<1>6. RoundedUp(f) = q * Interval
  BY DEF RoundedUp
<1> HIDE DEF q, r
<1>7. q * Interval >= f
  <2> DEFINE y == q * Interval
  <2>1. y \in Nat /\ x = y + r
    BY <1>3, <1>4
  <2> HIDE DEF y
  <2>2. y >= f
    BY <1>1, <1>3, <1>5, <2>1
  <2> QED BY <2>2 DEF y
<1> QED BY <1>4, <1>6, <1>7

(* Player 1 announces a recovery when he has finished the one before, at a *)
(* boundary behind every other.                                            *)
LEMMA HostSchedules ==
  ASSUME RecoveryInv, NEW m \in sent, m.type = "Digest", HandleDigest(m)
  PROVE  RecoveryInv'
<1> USE DEF gameVars
<1>1. Shapes /\ HostRecovery /\ Finishing /\ Machine(Host) /\ Host \in Node
  BY NodeFacts DEF RecoveryInv
<1> DEFINE b == BoundaryFor(m.frame)
<1>2. b \in Nat /\ next[Host] < b
  <2>1. Runway \in Nat /\ Runway > 0 /\ m.frame \in Nat /\ next[Host] \in Nat
    BY <1>1, RecoveryAssumption DEF Shapes
  <2> DEFINE f == (IF m.frame > next[Host] THEN m.frame ELSE next[Host]) + Runway
  <2>2. f \in Nat /\ next[Host] < f
    BY <2>1
  <2>3. b = RoundedUp(f)
    BY DEF BoundaryFor
  <2> HIDE DEF f, b
  <2>4. b \in Nat /\ b >= f
    BY <2>2, <2>3, RoundedUpBounds
  <2> QED BY <2>1, <2>2, <2>4
<1>3. /\ recovery[Host] = None /\ Racing(Host)
      /\ recovery' = [recovery EXCEPT ![Host] = b]
      /\ resumed' = [resumed EXCEPT ![Host] = FALSE]
      /\ acks' = {} /\ sent' = sent \cup {[type |-> "RecoveryBegin", frame |-> b]}
      /\ next' = next /\ playing' = playing /\ life' = life /\ coord' = coord
      /\ drifted' = drifted /\ done' = done /\ epoch' = epoch /\ announced' = announced
      /\ ending' = ending /\ installed' = installed
  BY DEF HandleDigest, Schedule, MaySchedule
<1> HIDE DEF b
<1>4. /\ recovery' \in [Node -> Nat \cup {None}] /\ recovery'[Host] = b
      /\ resumed' \in [Node -> BOOLEAN] /\ ~resumed'[Host]
      /\ \A q \in Node \ {Host} : recovery'[q] = recovery[q] /\ resumed'[q] = resumed[q]
  BY <1>1, <1>2, <1>3 DEF Shapes
<1>5. Begun' = Begun \cup {b} /\ \A c : Repaired(c)' <=> Repaired(c)
  <2> DEFINE n == [type |-> "RecoveryBegin", frame |-> b]
  <2>1. n.type = "RecoveryBegin" /\ n.frame = b
    OBVIOUS
  <2>2. sent' = sent \cup {n}
    BY <1>3
  <2> HIDE DEF n
  <2>3. \A c : c \in Begun' <=> c \in Begun \/ c = b
    BY <2>1, <2>2 DEF Begun
  <2> QED BY <1>3, <2>3 DEF Repaired
<1>6. Shapes'
  <2>1. \A x \in sent' :
          /\ x.type = "RecoveryBegin" => x.frame \in Nat
          /\ x.type = "RecoveryAck" => x.from \in Guests /\ x.frame \in Nat
          /\ x.type = "Digest" => x.frame \in Nat
    BY <1>1, <1>2, <1>3 DEF Shapes
  <2> QED BY <1>1, <1>3, <1>4, <2>1 DEF Shapes
<1>7. HostMoves
  BY <1>1, <1>3, <1>4 DEF HostMoves, Alone, Finishing, Racing
<1>8. coord[Host].stage = "idle"
  <2>1. coord[Host].frame \in Nat
    BY <1>1 DEF Shapes
  <2> QED BY <1>1, <1>3, <2>1, NodeFacts DEF Machine
<1>9. Machine(Host)'
  BY <1>1, <1>3, <1>8 DEF Machine, Racing
<1>10. \A c \in Begun : c \in Nat /\ c \in done[Host] /\ c < b
  <2> TAKE c \in Begun
  <2>1. c \in Nat /\ next[Host] \in Nat
    BY <1>1 DEF Begun, Shapes
  <2>2. c \in done[Host]
    BY <1>1, <1>3, <2>1, NodeFacts DEF HostRecovery
  <2>3. c < next[Host]
    BY <1>1, <2>2 DEF HostRecovery
  <2> QED BY <1>2, <2>1, <2>2, <2>3
<1>11. \A c \in done[Host] : c \in Nat /\ c < b
  BY <1>1, <1>10 DEF HostRecovery
<1>12. HostRecovery'
  <2>1. next[Host] <= b + 1
    BY <1>1, <1>2 DEF Shapes
  <2>2. b \notin done[Host] /\ \A c \in done[Host] : c <= b
    BY <1>2, <1>11
  <2>3. \A c, d \in Begun' : c < d => c \in done[Host]
    BY <1>2, <1>5, <1>10
  <2>4. \A c \in Begun' : c \in done[Host] \/ c = b
    BY <1>5, <1>10
  <2>5. \A c \in done[Host] : c \in Begun' /\ Repaired(c)' /\ c < next[Host]
    BY <1>1, <1>5 DEF HostRecovery
  <2> QED BY <1>1, <1>3, <1>4, <1>5, <1>8, <2>1, <2>2, <2>3, <2>4, <2>5 DEF HostRecovery
<1> QED BY <1>6, <1>7, <1>9, <1>12, HostStep

(* Player 1 releases a boundary when everybody has acknowledged it, he     *)
(* himself because he stands at it.                                        *)
LEMMA HostCollects ==
  ASSUME RecoveryInv, NEW m \in sent, m.type = "RecoveryAck", HandleRecoveryAck(m)
  PROVE  RecoveryInv'
<1> USE DEF gameVars
<1>1. Shapes /\ HostRecovery /\ Finishing /\ Machine(Host) /\ Host \in Node
  BY NodeFacts DEF RecoveryInv
<1> DEFINE b == m.frame
           a == acks \cup {m.from}
<1>2. m.from \in Guests /\ b \in Nat /\ <<m.from, b>> \in installed
  BY <1>1 DEF Shapes, Finishing
<1>3. /\ recovery[Host] = b /\ b \notin done[Host] /\ Released(b, a)
      /\ next' = next /\ playing' = playing /\ life' = life /\ coord' = coord
      /\ drifted' = drifted /\ recovery' = recovery /\ epoch' = epoch
      /\ announced' = announced /\ ending' = ending /\ installed' = installed
  BY DEF HandleRecoveryAck
<1> HIDE DEF b
<1>4. recovery[Host] # None /\ b \in Begun /\ ~resumed[Host] /\ next[Host] <= b + 1
  BY <1>1, <1>2, <1>3, NodeFacts DEF HostRecovery
<1>5. a \subseteq Node /\ \A g \in Guests \cap a : <<g, b>> \in installed
  BY <1>1, <1>2, <1>3, <1>4, NodeFacts DEF HostRecovery, Shapes
<1>6. Host \in a => coord[Host].stage = "resume" /\ next[Host] = b + 1
  <2>1. Host \in a => Host \in acks
    BY <1>2, NodeFacts
  <2>2. Host \in acks => coord[Host].stage = "resume"
    BY <1>1, <1>4 DEF HostRecovery
  <2>3. coord[Host].stage = "resume" => next[Host] = b + 1
    BY <1>1, <1>3, <1>4 DEF Machine
  <2> QED BY <2>1, <2>2, <2>3
<1> HIDE DEF a
<1>7. acks' = a
  BY <1>3 DEF Released
<1>8. CASE ~Complete(a)
  <2>1. resumed' = resumed /\ done' = done /\ sent' = sent
    BY <1>3, <1>8 DEF Released
  <2>2. Shapes'
    BY <1>1, <1>3, <1>5, <1>7, <2>1 DEF Shapes
  <2>3. HostMoves
    BY <1>1, <1>3, <2>1 DEF HostMoves, Alone, Finishing, Racing
  <2>4. Machine(Host)'
    BY <1>1, <1>3 DEF Machine, Racing
  <2>5. Begun' = Begun /\ \A c : Repaired(c)' <=> Repaired(c)
    BY <1>3, <2>1 DEF Begun, Repaired
  <2>6. HostRecovery'
    BY <1>1, <1>3, <1>4, <1>5, <1>6, <1>7, <2>1, <2>5 DEF HostRecovery, Racing
  <2> QED BY <2>2, <2>3, <2>4, <2>6, HostStep
<1>9. CASE Complete(a)
  <2>1. /\ resumed' = [resumed EXCEPT ![Host] = TRUE]
        /\ done' = [done EXCEPT ![Host] = @ \cup {b}]
        /\ sent' = sent \cup {[type |-> "RecoveryResume", frame |-> b]}
    BY <1>3, <1>4, <1>9 DEF Released
  <2>2. /\ resumed' \in [Node -> BOOLEAN] /\ resumed'[Host]
        /\ done' \in [Node -> SUBSET Nat] /\ done'[Host] = done[Host] \cup {b}
        /\ \A q \in Node \ {Host} : resumed'[q] = resumed[q] /\ done'[q] = done[q]
    BY <1>1, <1>2, <2>1 DEF Shapes
  <2>3. Repaired(b) /\ next[Host] = b + 1
    BY <1>1, <1>5, <1>6, <1>9, NodeFacts DEF Complete, Repaired
  <2>4. Begun' = Begun /\ \A c : Repaired(c)' <=> Repaired(c)
    BY <1>3, <2>1, BegunStays DEF Repaired
  <2>5. Shapes'
    <3>1. \A x \in sent' :
            /\ x.type = "RecoveryBegin" => x.frame \in Nat
            /\ x.type = "RecoveryAck" => x.from \in Guests /\ x.frame \in Nat
            /\ x.type = "Digest" => x.frame \in Nat
      BY <1>1, <2>1 DEF Shapes
    <3> QED BY <1>1, <1>3, <1>5, <1>7, <2>2, <3>1 DEF Shapes
  <2>6. HostMoves
    BY <1>1, <1>3, <2>1, <2>2 DEF HostMoves, Alone, Finishing, Racing
  <2>7. Machine(Host)'
    BY <1>1, <1>3 DEF Machine, Racing
  <2>8. b < next[Host] /\ b <= b
    BY <1>2, <2>3
  <2>9. Node \subseteq acks'
    BY <1>7, <1>9 DEF Complete
  <2>10. \A c \in done'[Host] : c <= b /\ c \in Begun /\ Repaired(c) /\ c < next[Host]
    BY <1>1, <1>3, <1>4, <2>2, <2>3, <2>8 DEF HostRecovery
  <2>11. HostRecovery'
    BY <1>1, <1>3, <1>4, <1>5, <1>6, <1>7, <2>2, <2>4, <2>9, <2>10 DEF HostRecovery, Racing
  <2> QED BY <2>5, <2>6, <2>7, <2>11, HostStep
<1> QED BY <1>8, <1>9

-----------------------------------------------------------------------------
(* The invariant of the specification *)

LEMMA RecoveryInit == Init => RecoveryInv
<1> SUFFICES ASSUME Init PROVE RecoveryInv
  OBVIOUS
<1>1. Begun = {}
  BY DEF Init, Begun
<1>2. ending.frame \in Nat
  BY RecoveryAssumption DEF Init
<1>3. Idle \in [stage : {"idle", "baseline", "resume"}, frame : Nat]
  BY DEF Idle
<1>4. Shapes
  BY <1>2, <1>3 DEF Init, Shapes
<1>5. \A p \in Node : Machine(p)
  BY DEF Init, Machine, Racing, Idle
<1>6. HostRecovery
  BY <1>1, NodeFacts DEF Init, HostRecovery, Idle
<1>7. \A g \in Guests : GuestRecovery(g)
  BY NodeFacts DEF Init, GuestRecovery, Idle
<1>8. Finishing
  BY NodeFacts DEF Init, Finishing
<1> QED BY <1>4, <1>5, <1>6, <1>7, <1>8 DEF RecoveryInv

(* A step keeps the invariant; when it ends the session, it does so in one *)
(* of the situations the code allows.                                      *)
LEMMA GuestActs ==
  ASSUME RecoveryInv, NEW g \in Guests, Step(g)
  PROVE  RecoveryInv' /\ (failed' = failed \/ FailsOnlyWhen')
<1>1. CASE Admit(g)
  BY <1>1, GuestAdmits DEF Admit
<1>2. CASE PlayOn(g) \/ CrossFinish(g) \/ Drift(g)
  BY <1>2, GuestPlays DEF PlayOn, CrossFinish, Drift, Played
<1>3. CASE LeaveLevel(g)
  <2>1. RecoveryInv' /\ (failed' = failed \/ (failed' = [who |-> g, why |-> "unload"]
                                            /\ recovery' = recovery /\ done' = done
                                            /\ recovery[g] \notin done[Host]))
    BY <1>3, GuestLeaves
  <2> QED BY <2>1 DEF FailsOnlyWhen
<1>4. CASE PassBoundary(g)
  BY <1>4, NodeFacts, NoPassedHook DEF PassBoundary
<1>5. CASE BeginSeal(g) \/ CompleteSeal(g)
  BY <1>5, GuestSeals DEF BeginSeal, CompleteSeal
<1>6. CASE LateBegin(g)
  BY <1>6, GuestBeginsLate DEF LateBegin
<1>7. CASE PollRecovery(g)
  BY <1>7, GuestPolls
<1>8. CASE InstallState(g)
  <2>1. RecoveryInv' /\ (failed' = failed \/ (failed' = [who |-> g, why |-> "baseline"]
                                            /\ coord' = coord /\ ending' = ending
                                            /\ coord[g].frame = ending.frame))
    BY <1>8, GuestInstalls
  <2> QED BY <2>1 DEF FailsOnlyWhen
<1> QED BY <1>1, <1>2, <1>3, <1>4, <1>5, <1>6, <1>7, <1>8 DEF Step

LEMMA HostActs ==
  ASSUME RecoveryInv, Step(Host)
  PROVE  RecoveryInv' /\ (failed' = failed \/ FailsOnlyWhen')
<1>1. CASE Admit(Host)
  BY <1>1, HostAdmits DEF Admit
<1>2. CASE PlayOn(Host) \/ CrossFinish(Host)
  BY <1>2, HostPlays DEF PlayOn, CrossFinish, Played
<1>3. CASE LeaveLevel(Host)
  <2>1. RecoveryInv' /\ (failed' = failed \/ (failed' = [who |-> Host, why |-> "unload"]
                                            /\ recovery' = recovery /\ done' = done
                                            /\ recovery[Host] \notin done[Host]))
    BY <1>3, HostLeaves
  <2> QED BY <2>1 DEF FailsOnlyWhen
<1>4. CASE PassBoundary(Host)
  BY <1>4, NodeFacts, NoPassedHook DEF PassBoundary
<1>5. CASE BeginSeal(Host) \/ CompleteSeal(Host)
  BY <1>5, HostSeals DEF BeginSeal, CompleteSeal
<1>6. CASE LateBegin(Host)
  BY <1>6, HostBeginsLate DEF LateBegin
<1>7. CASE PollRecovery(Host)
  BY <1>7, HostPolls
<1> QED BY <1>1, <1>2, <1>3, <1>4, <1>5, <1>6, <1>7, NodeFacts DEF Step

LEMMA Receives ==
  ASSUME RecoveryInv, NEW p \in Node, NEW m \in sent, Deliver(p, m)
  PROVE  RecoveryInv' /\ (failed' = failed \/ FailsOnlyWhen')
<1>1. CASE m.type = "Digest" /\ p = Host /\ HandleDigest(m)
  BY <1>1, HostSchedules DEF HandleDigest
<1>2. CASE m.type = "RecoveryAck" /\ p = Host /\ HandleRecoveryAck(m)
  BY <1>2, HostCollects DEF HandleRecoveryAck
<1>3. CASE m.type = "RecoveryBegin" /\ p \in Guests /\ HandleRecoveryBegin(p, m)
  <2>1. RecoveryInv' /\ (failed' = failed \/ (failed' = [who |-> p, why |-> "conflict"]
                                            /\ recovery' = recovery /\ done' = done
                                            /\ recovery[p] \in done[Host]))
    BY <1>3, GuestBegins
  <2> QED BY <2>1 DEF FailsOnlyWhen
<1>4. CASE m.type = "State" /\ p \in Guests /\ HandleState(p, m)
  BY <1>4, GuestListens DEF HandleState
<1>5. CASE m.type = "RecoveryResume" /\ p \in Guests /\ HandleRecoveryResume(p, m)
  BY <1>5, GuestListens DEF HandleRecoveryResume
<1>6. CASE m.type = "TransitionBegin" /\ p \in Guests /\ HandleTransitionBegin(p, m)
  BY <1>6, GuestListens DEF HandleTransitionBegin
<1> QED BY <1>1, <1>2, <1>3, <1>4, <1>5, <1>6 DEF Deliver

LEMMA RecoveryStep ==
  ASSUME RecoveryInv, FailsOnlyWhen, [Next]_vars
  PROVE  RecoveryInv' /\ FailsOnlyWhen'
<1>1. CASE UNCHANGED vars
  <2>1. RecoveryInv'
    BY <1>1, FailHolds DEF vars
  <2> QED BY <1>1, <2>1 DEF FailsOnlyWhen, vars, sessionVars, gameVars
<1>2. CASE Next
  <2>1. failed = None
    BY <1>2 DEF Next
  <2>2. PICK p \in Node : Step(p) \/ \E m \in sent : Deliver(p, m)
    BY <1>2 DEF Next
  <2>3. RecoveryInv' /\ (failed' = failed \/ FailsOnlyWhen')
    BY <2>2, GuestActs, HostActs, Receives DEF Node
  <2> QED BY <2>1, <2>3 DEF FailsOnlyWhen
<1> QED BY <1>1, <1>2

(* RecoveryInv holds throughout: Player 1's announcements, releases and    *)
(* acknowledgements agree with what the guests have installed, whatever is *)
(* lost, repeated or late.                                                 *)
THEOREM RecoveryInvariant == Spec => [](RecoveryInv /\ FailsOnlyWhen)
<1>1. Init => RecoveryInv /\ FailsOnlyWhen
  BY RecoveryInit DEF Init, FailsOnlyWhen
<1>2. RecoveryInv /\ FailsOnlyWhen /\ [Next]_vars => RecoveryInv' /\ FailsOnlyWhen'
  BY RecoveryStep
<1> QED BY <1>1, <1>2, PTL DEF Spec

(* No machine plays a frame after an announced boundary before every guest *)
(* has installed Player 1's state of that boundary: the admission guard    *)
(* parks a machine until the release, and a release needs every            *)
(* acknowledgement.                                                        *)
THEOREM BoundariesHold == Spec => []RepairedTogether
<1>1. RecoveryInv => RepairedTogether
  <2> SUFFICES ASSUME RecoveryInv, NEW m \in sent, m.type = "RecoveryBegin",
                      NEW p \in Node, next[p] > m.frame + 1
               PROVE  \A g \in Guests : <<g, m.frame>> \in installed
    BY DEF RepairedTogether
  <2>1. m.frame \in Begun
    BY DEF Begun
  <2> QED BY <2>1, PassedIsRepaired DEF Repaired
<1> QED BY <1>1, RecoveryInvariant, PTL

(* A recovery ends the session in three situations only: the race is left  *)
(* while one is planned, Player 1 announces another one to a guest that    *)
(* still holds one he has released, or the boundary is the frame in which  *)
(* the guest crosses the finish.  The checks for a machine behind its      *)
(* boundary, or at another than its session's, never fire.                 *)
THEOREM FailuresExplained == Spec => []FailsOnlyWhen
BY RecoveryInvariant, PTL

-----------------------------------------------------------------------------
(* The transport epoch *)

(* The recoveries machine p has left behind. *)
Behind(p) == done[p] \ {recovery[p]}

(* p leaves no recovery behind, or its race has ended. *)
Stays(p) ==
    /\ \E x : done'[p] \subseteq done[p] \cup {x}
    /\ Racing(p)' => /\ Racing(p) /\ epoch'[p] = epoch[p]
                     /\ Behind(p)' = Behind(p)

(* p leaves the recovery it took part in behind. *)
Polls(p) ==
    /\ recovery[p] # None /\ recovery'[p] = None
    /\ done'[p] = done[p] \cup {recovery[p]}
    /\ epoch'[p] = epoch[p] + 1 /\ life'[p] = life[p]

(* A step that moves neither sessions nor epochs. *)
LEMMA QuietStays ==
  ASSUME NEW q, done' = done, epoch' = epoch, recovery' = recovery, Racing(q)' => Racing(q)
  PROVE  Stays(q)
BY DEF Stays, Behind

(* A step at one machine, seen from another. *)
LEMMA OthersStay ==
  ASSUME NEW q, done'[q] = done[q], epoch'[q] = epoch[q], recovery'[q] = recovery[q],
         life'[q] = life[q]
  PROVE  Stays(q)
BY DEF Stays, Behind, Racing

LEMMA EpochOfStep ==
  ASSUME RecoveryInv, NEW p \in Node, Step(p), NEW q \in Node
  PROVE  Stays(q) \/ Polls(q)
<1> USE DEF sessionVars, gameVars
<1>1. Shapes /\ Machine(p)
  BY DEF RecoveryInv
<1>2. CASE Admit(p) \/ LateBegin(p) \/ PassBoundary(p) \/ (p \in Guests /\ InstallState(p))
  BY <1>2, QuietStays DEF Admit, LateBegin, PassBoundary, InstallState, Fail, Racing
<1>3. CASE PlayOn(p) \/ CrossFinish(p) \/ (p \in Guests /\ Drift(p))
  <2>1. PICK l : playing[p] /\ Played(p, l)
    BY <1>3 DEF PlayOn, CrossFinish, Drift
  <2>2. Racing(q)' => Racing(q)
    BY <1>1, <2>1 DEF Played, Racing, Machine, Shapes
  <2> QED BY <2>1, <2>2, QuietStays DEF Played
<1>4. CASE LeaveLevel(p) \/ BeginSeal(p) \/ CompleteSeal(p)
  <2>1. CASE LeaveLevel(p) /\ recovery[p] # None /\ ~resumed[p]
    BY <2>1, QuietStays DEF LeaveLevel, Fail, Racing
  <2>2. CASE ~(LeaveLevel(p) /\ recovery[p] # None /\ ~resumed[p])
    <3>1. PICK l \in {"sealing", "over"} : life' = [life EXCEPT ![p] = l]
      BY <1>4, <2>2 DEF LeaveLevel, BeginSeal, CompleteSeal
    <3>2. /\ done' = done /\ epoch' = epoch
          /\ recovery' = [recovery EXCEPT ![p] = None]
      BY <1>4, <2>2 DEF LeaveLevel, BeginSeal, CompleteSeal
    <3>3. CASE q = p
      BY <1>1, <3>1, <3>2, <3>3 DEF Stays, Racing, Shapes
    <3>4. CASE q # p
      BY <1>1, <3>1, <3>2, <3>4, OthersStay DEF Shapes
    <3> QED BY <3>3, <3>4
  <2> QED BY <2>1, <2>2
<1>5. CASE PollRecovery(p)
  <2>1. CASE recovery[p] = None
    BY <1>5, <2>1, QuietStays DEF PollRecovery, Racing
  <2>2. CASE recovery[p] # None
    <3>1. recovery[p] = coord[p].frame
      BY <1>5, <2>2, SameBoundary DEF PollRecovery
    <3>2. /\ done' = [done EXCEPT ![p] = @ \cup {recovery[p]}]
          /\ recovery' = [recovery EXCEPT ![p] = None]
          /\ epoch' = [epoch EXCEPT ![p] = @ + 1] /\ life' = life
      BY <1>5, <2>2, <3>1 DEF PollRecovery, NextEpoch
    <3>3. CASE q = p
      BY <1>1, <2>2, <3>2, <3>3 DEF Polls, Shapes
    <3>4. CASE q # p
      BY <1>1, <3>2, <3>4, OthersStay DEF Shapes
    <3> QED BY <3>3, <3>4
  <2> QED BY <2>1, <2>2
<1> QED BY <1>2, <1>3, <1>4, <1>5 DEF Step

LEMMA EpochOfPacket ==
  ASSUME RecoveryInv, NEW p \in Node, NEW m \in sent, Deliver(p, m), NEW q \in Node
  PROVE  Stays(q)
<1> USE DEF sessionVars, gameVars
<1>1. Shapes /\ HostRecovery /\ Host \in Node
  BY NodeFacts DEF RecoveryInv
<1>2. CASE m.type = "Digest" /\ p = Host /\ HandleDigest(m)
  <2>1. /\ recovery[Host] = None /\ done' = done /\ epoch' = epoch /\ life' = life
        /\ recovery' = [recovery EXCEPT ![Host] = BoundaryFor(m.frame)]
        /\ Racing(Host)
    BY <1>2 DEF HandleDigest, Schedule, MaySchedule
  <2>2. CASE q = Host
    <3>1. BoundaryFor(m.frame) \notin done[Host]
      <4>1. RecoveryInv'
        BY <1>2, HostSchedules
      <4>2. recovery'[Host] = BoundaryFor(m.frame)
        BY <1>1, <2>1 DEF Shapes
      <4>3. ~resumed'[Host]
        BY <1>1, <1>2 DEF HandleDigest, Schedule, Shapes
      <4>4. BoundaryFor(m.frame) # None
        <5>1. m.frame \in Nat /\ next[Host] \in Nat /\ Runway \in Nat
          BY <1>1, <1>2, RecoveryAssumption DEF Shapes
        <5> DEFINE f == (IF m.frame > next[Host] THEN m.frame ELSE next[Host]) + Runway
        <5>2. f \in Nat
          BY <5>1
        <5>3. BoundaryFor(m.frame) = RoundedUp(f)
          BY DEF BoundaryFor
        <5> HIDE DEF f
        <5> QED BY <5>2, <5>3, RoundedUpBounds, NodeFacts
      <4> QED BY <2>1, <4>1, <4>2, <4>3, <4>4 DEF RecoveryInv, HostRecovery
    <3>2. None \notin done[Host]
      BY <1>1, NodeFacts DEF Shapes
    <3>3. recovery'[Host] = BoundaryFor(m.frame)
      BY <1>1, <2>1 DEF Shapes
    <3>4. Behind(Host)' = Behind(Host)
      BY <2>1, <3>1, <3>2, <3>3 DEF Behind
    <3> QED BY <2>1, <2>2, <3>4 DEF Stays
  <2>3. CASE q # Host
    BY <1>1, <2>1, <2>3, OthersStay DEF Shapes
  <2> QED BY <2>2, <2>3
<1>3. CASE m.type = "RecoveryAck" /\ p = Host /\ HandleRecoveryAck(m)
  <2>1. /\ recovery[Host] = m.frame /\ recovery' = recovery /\ epoch' = epoch
        /\ life' = life
        /\ done' = done \/ done' = [done EXCEPT ![Host] = @ \cup {m.frame}]
    BY <1>3 DEF HandleRecoveryAck, Released
  <2>2. CASE q = Host
    <3>1. done'[Host] = done[Host] \/ done'[Host] = done[Host] \cup {m.frame}
      BY <1>1, <2>1 DEF Shapes
    <3>2. Behind(Host)' = Behind(Host)
      BY <2>1, <3>1 DEF Behind
    <3> QED BY <2>1, <2>2, <3>1, <3>2 DEF Stays, Racing
  <2>3. CASE q # Host
    BY <1>1, <2>1, <2>3, OthersStay DEF Shapes
  <2> QED BY <2>2, <2>3
<1>4. CASE m.type = "RecoveryBegin" /\ p \in Guests /\ HandleRecoveryBegin(p, m)
  <2>1. CASE recovery' = recovery
    BY <1>4, <2>1, QuietStays DEF HandleRecoveryBegin, Fail, Racing
  <2>2. CASE recovery' # recovery
    <3>1. /\ recovery[p] = None /\ m.frame \notin done[p] /\ done' = done
          /\ epoch' = epoch /\ life' = life
          /\ recovery' = [recovery EXCEPT ![p] = m.frame]
      BY <1>4, <2>2 DEF HandleRecoveryBegin, Fail
    <3>2. CASE q = p
      <4>1. None \notin done[p] /\ recovery'[p] = m.frame
        BY <1>1, <3>1, NodeFacts DEF Shapes
      <4>2. Behind(p)' = Behind(p)
        BY <3>1, <4>1 DEF Behind
      <4> QED BY <3>1, <3>2, <4>2 DEF Stays, Racing
    <3>3. CASE q # p
      BY <1>1, <3>1, <3>3, OthersStay DEF Shapes
    <3> QED BY <3>2, <3>3
  <2> QED BY <2>1, <2>2
<1>5. CASE m.type = "State" /\ p \in Guests /\ HandleState(p, m)
  BY <1>5, QuietStays DEF HandleState, Racing
<1>6. CASE m.type = "RecoveryResume" /\ p \in Guests /\ HandleRecoveryResume(p, m)
  BY <1>6, QuietStays DEF HandleRecoveryResume, Racing
<1>7. CASE m.type = "TransitionBegin" /\ p \in Guests /\ HandleTransitionBegin(p, m)
  BY <1>7, QuietStays DEF HandleTransitionBegin, Racing
<1> QED BY <1>2, <1>3, <1>4, <1>5, <1>6, <1>7 DEF Deliver

(* The epoch goes on counting. *)
LEMMA EpochStep ==
  ASSUME RecoveryInv, EpochCounts, [Next]_vars
  PROVE  EpochCounts'
<1>1. Shapes
  BY DEF RecoveryInv
<1> SUFFICES ASSUME NEW p \in Node
             PROVE  /\ IsFiniteSet(done'[p])
                    /\ Racing(p)' => epoch'[p] = Cardinality(Behind(p)') + 1
  BY DEF EpochCounts, Behind
<1>2. /\ IsFiniteSet(done[p]) /\ IsFiniteSet(Behind(p))
      /\ Racing(p) => epoch[p] = Cardinality(Behind(p)) + 1
  BY FS_RemoveElement DEF EpochCounts, Behind
<1>3. Stays(p) \/ Polls(p)
  <2>1. CASE UNCHANGED vars
    BY <2>1, OthersStay DEF vars, sessionVars, gameVars
  <2>2. CASE Next
    BY <2>2, EpochOfStep, EpochOfPacket DEF Next
  <2> QED BY <2>1, <2>2
<1>4. CASE Stays(p)
  <2>1. PICK x : done'[p] \subseteq done[p] \cup {x}
    BY <1>4 DEF Stays
  <2>2. IsFiniteSet(done[p] \cup {x})
    BY <1>2, FS_AddElement
  <2>3. IsFiniteSet(done'[p])
    BY <2>1, <2>2, FS_Subset
  <2> QED BY <1>2, <1>4, <2>3 DEF Stays
<1>5. CASE Polls(p)
  <2>1. IsFiniteSet(done'[p])
    BY <1>2, <1>5, FS_AddElement DEF Polls
  <2>2. recovery[p] \notin Behind(p)
    BY DEF Behind
  <2>3. None \notin done'[p]
    BY <1>1, <1>5, NodeFacts DEF Shapes, Polls
  <2>4. Behind(p)' = Behind(p) \cup {recovery[p]}
    BY <1>5, <2>3 DEF Polls, Behind
  <2>5. Cardinality(Behind(p)') = Cardinality(Behind(p)) + 1
    BY <1>2, <2>2, <2>4, FS_AddElement
  <2>6. Racing(p)' => Racing(p)
    BY <1>5 DEF Polls, Racing
  <2>7. Cardinality(Behind(p)) \in Nat
    BY <1>2, FS_CardinalityType
  <2> QED BY <1>2, <1>5, <2>1, <2>5, <2>6, <2>7 DEF Polls
<1> QED BY <1>3, <1>4, <1>5

(* A racing machine has left the boundaries behind in Player 1's order,    *)
(* none skipped.                                                           *)
LEMMA BehindInOrder ==
  ASSUME RecoveryInv, NEW p \in Node, Racing(p), NEW y \in Behind(p),
         NEW x \in Begun, x < y
  PROVE  x \in Behind(p)
<1>1. Shapes /\ HostRecovery /\ \A g \in Guests : GuestRecovery(g)
  BY DEF RecoveryInv
<1>2. y \in done[p] /\ y \in Begun
  BY <1>1 DEF Behind, HostRecovery, GuestRecovery, Node
<1>3. \A b \in Begun : b \in Nat /\ b # None
  BY <1>1, NodeFacts DEF Begun, Shapes
<1>4. x \in done[Host] /\ Repaired(x)
  BY <1>1, <1>2 DEF HostRecovery
<1>5. CASE p = Host
  <2>1. x # recovery[Host]
    BY <1>1, <1>2, <1>3, <1>5 DEF HostRecovery
  <2> QED BY <1>4, <1>5, <2>1 DEF Behind
<1>6. CASE p \in Guests
  <2>1. <<p, x>> \in installed
    BY <1>4, <1>6 DEF Repaired
  <2>2. x \in done[p] \/ recovery[p] = x
    BY <1>6, <2>1, InstalledIsDone
  <2>3. recovery[p] # x
    <3>1. x \in Nat /\ y \in Nat /\ x # None
      BY <1>2, <1>3
    <3>2. recovery[p] = x => y < x
      BY <1>1, <1>2, <1>6, <3>1 DEF GuestRecovery
    <3> QED BY <3>1, <3>2
  <2> QED BY <2>2, <2>3 DEF Behind
<1> QED BY <1>5, <1>6 DEF Node

LEMMA EqualEpochs ==
  ASSUME RecoveryInv, EpochCounts
  PROVE  EpochNamesRepairs
<1> SUFFICES ASSUME NEW p \in Node, NEW q \in Node, Racing(p), Racing(q), epoch[p] = epoch[q]
             PROVE  Behind(p) = Behind(q)
  BY DEF EpochNamesRepairs, Behind
<1>1. Shapes /\ HostRecovery /\ \A g \in Guests : GuestRecovery(g)
  BY DEF RecoveryInv
<1>2. \A r \in Node : Behind(r) \subseteq Begun
  BY <1>1 DEF Behind, HostRecovery, GuestRecovery, Node
<1>3. \A b \in Begun : b \in Nat
  BY <1>1 DEF Begun, Shapes
<1>4. /\ IsFiniteSet(Behind(p)) /\ IsFiniteSet(Behind(q))
      /\ epoch[p] = Cardinality(Behind(p)) + 1 /\ epoch[q] = Cardinality(Behind(q)) + 1
  BY FS_RemoveElement DEF EpochCounts, Behind
<1>5. Cardinality(Behind(p)) \in Nat /\ Cardinality(Behind(q)) \in Nat
  BY <1>4, FS_CardinalityType
<1>6. Cardinality(Behind(p)) = Cardinality(Behind(q))
  <2>1. \A m, n \in Nat : m + 1 = n + 1 => m = n
    OBVIOUS
  <2>2. Cardinality(Behind(p)) + 1 = Cardinality(Behind(q)) + 1
    BY <1>4
  <2> QED BY <1>5, <2>1, <2>2
<1>7. Behind(p) \subseteq Behind(q) \/ Behind(q) \subseteq Behind(p)
  <2> SUFFICES ASSUME NEW x \in Behind(p), x \notin Behind(q),
                      NEW y \in Behind(q), y \notin Behind(p)
               PROVE  FALSE
    OBVIOUS
  <2>1. x \in Nat /\ y \in Nat /\ x # y /\ x \in Begun /\ y \in Begun
    BY <1>2, <1>3
  <2>2. x < y \/ y < x
    BY <2>1
  <2> QED BY <2>1, <2>2, BehindInOrder
<1>8. CASE Behind(p) \subseteq Behind(q)
  BY <1>4, <1>6, <1>8, FS_Subset
<1>9. CASE Behind(q) \subseteq Behind(p)
  BY <1>4, <1>6, <1>9, FS_Subset
<1> QED BY <1>7, <1>8, <1>9

(* Two racing machines in the same transport epoch have gone through the   *)
(* same recoveries: an epoch is advanced once for each recovery a machine  *)
(* leaves, and none skips one.                                             *)
THEOREM EpochsAgree == Spec => []EpochNamesRepairs
<1>1. Init => EpochCounts
  <2> SUFFICES ASSUME Init, NEW p \in Node
               PROVE  IsFiniteSet(done[p]) /\ epoch[p] = Cardinality(done[p] \ {recovery[p]}) + 1
    BY DEF EpochCounts
  <2>1. done[p] = {} /\ done[p] \ {recovery[p]} = {} /\ epoch[p] = 1
    BY DEF Init
  <2> QED BY <2>1, FS_EmptySet
<1>2. RecoveryInv /\ EpochCounts /\ [Next]_vars => EpochCounts'
  BY EpochStep
<1>3. RecoveryInv /\ EpochCounts => EpochNamesRepairs
  BY EqualEpochs
<1> QED BY <1>1, <1>2, <1>3, RecoveryInvariant, PTL DEF Spec

=============================================================================
