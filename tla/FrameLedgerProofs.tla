------------------------- MODULE FrameLedgerProofs --------------------------
(***************************************************************************)
(* Every machine plays a prefix of what Player 1 plays, in a race nobody   *)
(* ever asks for a commit that is gone, and the frame ledger implements    *)
(* CommitLedger: for any number of guests, any delay, window, lead, ring   *)
(* and history.                                                            *)
(***************************************************************************)
EXTENDS FrameLedger, FiniteSetTheorems, WellFoundedInduction, TLAPS

(* The least and the greatest element of a set of frames belong to it. *)
LEMMA MinNat ==
  ASSUME NEW S \in SUBSET Nat, S # {}
  PROVE  Min(S) \in S /\ \A y \in S : Min(S) <= y
<1> DEFINE T == {0 .. x : x \in S}
<1> DEFINE R == StrictSubsetOrdering(Nat)
<1>1. T \subseteq FiniteSubsetsOf(Nat) /\ T # {}
  <2>1. ASSUME NEW x \in S PROVE 0 .. x \in FiniteSubsetsOf(Nat)
    <3>1. x \in Int /\ 0 \in Int
      OBVIOUS
    <3>2. IsFiniteSet(0 .. x)
      BY <3>1, FS_Interval
    <3>3. 0 .. x \in SUBSET Nat
      OBVIOUS
    <3> QED
      BY <3>2, <3>3 DEF FiniteSubsetsOf
  <2> QED
    BY <2>1
<1>2. IsWellFoundedOn(R, FiniteSubsetsOf(Nat))
  BY FS_StrictSubsetOrderingWellFounded
<1>3. PICK t \in T : \A u \in T : ~ (<<u, t>> \in R)
  <2> HIDE DEF T, R
  <2> QED
    BY <1>1, <1>2, WFMin
<1>4. PICK x \in S : t = 0 .. x
  OBVIOUS
<1>5. ASSUME NEW y \in S PROVE x <= y
  <2>1. SUFFICES ASSUME y < x PROVE FALSE
    OBVIOUS
  <2>2. <<0 .. y, 0 .. x>> \in R
    <3>1. 0 .. y \subseteq 0 .. x /\ x \in 0 .. x /\ x \notin 0 .. y
      BY <2>1
    <3>2. 0 .. y \subseteq Nat /\ 0 .. x \subseteq Nat
      OBVIOUS
    <3> QED
      BY <3>1, <3>2 DEF StrictSubsetOrdering
  <2> QED
    BY <1>3, <1>4, <2>2
<1> QED
  BY <1>5 DEF Min

LEMMA MaxBounded ==
  ASSUME NEW S \in SUBSET Nat, S # {}, NEW k \in Nat, \A y \in S : y <= k
  PROVE  Max(S) \in S /\ \A y \in S : Max(S) >= y
<1> DEFINE T == {k - y : y \in S}
<1>1. T \in SUBSET Nat /\ T # {}
  <2>1. \A y \in S : k - y \in Nat
    OBVIOUS
  <2> QED
    BY <2>1
<1>2. Min(T) \in T /\ \A z \in T : Min(T) <= z
  BY <1>1, MinNat
<1> HIDE DEF T
<1>3. PICK x \in S : Min(T) = k - x
  BY <1>2 DEF T
<1>4. \A y \in S : x >= y
  <2> TAKE y \in S
  <2>1. k - y \in T
    BY DEF T
  <2> QED
    BY <1>2, <1>3, <2>1
<1> QED
  BY <1>4 DEF Max

LEMMA MaxOfTwo ==
  ASSUME NEW a \in Nat, NEW b \in Nat
  PROVE  Max({a, b}) \in {a, b} /\ Max({a, b}) >= a /\ Max({a, b}) >= b
<1>1. \A y \in {a, b} : y <= a + b
  OBVIOUS
<1> QED
  BY <1>1, MaxBounded

LEMMA MinOfTwo ==
  ASSUME NEW a \in Nat, NEW b \in Nat
  PROVE  Min({a, b}) = IF a <= b THEN a ELSE b
  BY MinNat
-----------------------------------------------------------------------------
(* The ring of inputs. *)

LEMMA RingIndex ==
  ASSUME NEW f \in Int
  PROVE  f % Ring \in 0 .. Ring - 1
  BY LedgerConstants

LEMMA EntryType ==
  ASSUME NEW tl \in [0 .. Ring - 1 -> Entry], NEW f \in Frames
  PROVE  EntryOf(tl, f) \in Entry /\ EntryOf(tl, f).frame = f
<1>1. tl[f % Ring] \in Entry
  BY RingIndex DEF Frames
<1>2. EmptyEntry(f) \in Entry
  BY LedgerConstants DEF EmptyEntry, Entry, Inputs, Frames
<1> QED
  BY <1>1, <1>2 DEF EntryOf, Holds, EmptyEntry

LEMMA PreviousType ==
  ASSUME NEW tl \in [0 .. Ring - 1 -> Entry], NEW f \in Frames, NEW g \in Guests
  PROVE  Previous(tl, g, f) \in Pads
<1> DEFINE known == {d \in 1 .. Min({f, Ring}) :
                       Holds(tl, f - d) /\ g \in tl[(f - d) % Ring].present}
<1>1. CASE known = {}
  BY <1>1, LedgerConstants DEF Previous
<1>2. CASE known # {}
  <2>1. Min(known) \in Nat
    <3>1. Min({f, Ring}) \in Nat
      BY MinOfTwo, LedgerConstants DEF Frames
    <3>2. known \in SUBSET Nat
      BY <3>1
    <3> QED
      BY <1>2, <3>2, MinNat
  <2> HIDE DEF known
  <2>2. tl[(f - Min(known)) % Ring] \in Entry
    <3>1. f - Min(known) \in Int
      BY <2>1 DEF Frames
    <3> QED
      BY <3>1, RingIndex
  <2>3. tl[(f - Min(known)) % Ring].input[g] \in Pads
    BY <2>2 DEF Entry, Inputs
  <2> QED
    BY <1>2, <2>3 DEF Previous, known
<1> QED
  BY <1>1, <1>2

LEMMA InputsForType ==
  ASSUME NEW tl \in [0 .. Ring - 1 -> Entry], NEW f \in Frames
  PROVE  InputsFor(tl, f) \in Entry
<1> DEFINE e == EntryOf(tl, f)
<1> DEFINE missing == Guests \ e.present
<1> DEFINE input == [g \in Guests |-> IF g \in missing THEN Previous(tl, g, f) ELSE e.input[g]]
<1>1. e \in Entry
  BY EntryType
<1>2. input \in Inputs
  BY <1>1, PreviousType DEF Inputs, Entry
<1>3. e.predicted \cup missing \in SUBSET Guests
  BY <1>1 DEF Entry
<1>4. InputsFor(tl, f) = [e EXCEPT !.input = input, !.predicted = e.predicted \cup missing]
  BY DEF InputsFor
<1> HIDE DEF e, missing, input
<1> QED
  BY <1>1, <1>2, <1>3, <1>4 DEF Entry

LEMMA SetRemoteType ==
  ASSUME NEW tl \in [0 .. Ring - 1 -> Entry], NEW g \in Guests, NEW f \in Frames,
         NEW pad \in Pads
  PROVE  SetRemote(tl, g, f, pad) \in [0 .. Ring - 1 -> Entry]
<1> DEFINE e == EntryOf(tl, f)
<1> DEFINE n == [e EXCEPT !.input[g] = pad, !.present = @ \cup {g}, !.predicted = @ \ {g}]
<1>1. e \in Entry
  BY EntryType
<1>2. n \in Entry
  <2> HIDE DEF e
  <2> QED
    BY <1>1 DEF Entry, Inputs
<1>3. SetRemote(tl, g, f, pad) = [tl EXCEPT ![f % Ring] = n]
  BY DEF SetRemote
<1> HIDE DEF n
<1> QED
  BY <1>2, <1>3, RingIndex DEF Frames

LEMMA AdvanceMissingGrows ==
  ASSUME NEW tl, NEW g \in Guests, firstMissing[g] \in Nat
  PROVE  AdvanceMissing(tl, g) \in Nat /\ AdvanceMissing(tl, g) >= firstMissing[g]
<1> DEFINE confirmed(n) == \A f \in firstMissing[g] .. n - 1 : SlotConfirmed(tl, g, f)
<1> DEFINE S == {n \in firstMissing[g] .. firstMissing[g] + Ring : confirmed(n)}
<1>1. firstMissing[g] \in S
  BY LedgerConstants
<1>2. S \in SUBSET Nat /\ \A y \in S : y <= firstMissing[g] + Ring
  BY LedgerConstants
<1>3. Max(S) \in S /\ \A y \in S : Max(S) >= y
  <2> HIDE DEF S
  <2>1. firstMissing[g] + Ring \in Nat
    BY LedgerConstants
  <2> QED
    BY <1>1, <1>2, <2>1, MaxBounded
<1>4. AdvanceMissing(tl, g) = Max(S)
  BY DEF AdvanceMissing
<1> HIDE DEF S
<1> QED
  BY <1>1, <1>2, <1>3, <1>4

-----------------------------------------------------------------------------
(* The samples of a guest. *)

Samples == [Frames -> [rev : Nat, input : Pads]]

LEMMA TargetType ==
  ASSUME TypeOK, NEW g \in Guests
  PROVE  Target(g) \in Nat
<1>1. Len(chain[g]) \in Nat /\ newest[g] \in Nat /\ Delay \in Nat
  <2>1. chain[g] \in Seq(Inputs) /\ newest[g] \in 0 .. MaxFrame
    BY DEF TypeOK
  <2> QED
    BY <2>1, LedgerConstants
<1> QED
  BY <1>1, MaxOfTwo DEF Target

LEMMA StoreType ==
  ASSUME NEW h \in Samples, NEW g, NEW f \in Frames, NEW pad \in Pads,
         NEW physical \in BOOLEAN
  PROVE  Store(h, g, f, pad, physical) \in Samples
  BY DEF Store, Samples

LEMMA SamplesOfType ==
  ASSUME NEW g \in Guests, NEW h \in Samples
  PROVE  SamplesOf(g, h) \subseteq Sample
  BY DEF SamplesOf, Sample, Samples

LEMMA SubmitType ==
  ASSUME TypeOK, NEW g \in Guests, NEW pad \in Pads, Submit(g, pad)
  PROVE  /\ local' \in [Guests -> Samples]
         /\ submitted' \in [Guests -> [frame : Frames, input : Pads]]
         /\ samples' \subseteq Sample
<1> DEFINE target == Target(g)
<1> DEFINE h == local[g]
<1> DEFINE gap == IF \A f \in Frames : h[f].rev = 0 THEN {}
                  ELSE {f \in Frames : submitted[g].frame < f /\ f < target}
<1> DEFINE filled == [f \in Frames |-> IF f \in gap
                        THEN Store(h, g, f, submitted[g].input, FALSE)[f] ELSE h[f]]
<1> DEFINE stored == Store(filled, g, target, pad, TRUE)
<1>1. local \in [Guests -> Samples] /\ submitted[g].input \in Pads
  BY DEF TypeOK, Samples
<1>2. filled \in Samples
  <2>1. h \in Samples
    BY <1>1
  <2>2. \A f \in Frames : Store(h, g, f, submitted[g].input, FALSE) \in Samples
    BY <1>1, <2>1, StoreType
  <2> HIDE DEF gap, h
  <2> QED
    BY <2>1, <2>2 DEF Samples
<1>3. CASE UNCHANGED <<local, submitted, samples>>
  BY <1>1, <1>3 DEF TypeOK
<1>4. CASE /\ target \in Frames
           /\ local' = [local EXCEPT ![g] = stored]
           /\ submitted' = [submitted EXCEPT ![g] = [frame |-> target, input |-> pad]]
           /\ samples' = samples \cup SamplesOf(g, stored)
  <2> HIDE DEF target, filled
  <2>1. stored \in Samples
    BY <1>2, <1>4, StoreType
  <2> HIDE DEF stored
  <2>2. SamplesOf(g, stored) \subseteq Sample
    BY <2>1, SamplesOfType
  <2> QED
    BY <1>1, <1>4, <2>1, <2>2 DEF TypeOK
<1> QED
  BY <1>3, <1>4 DEF Submit

-----------------------------------------------------------------------------
(* The inductive invariant.                                                *)

(* Commits under way and commits held are frames of Player 1's sequence,   *)
(* one for each frame, and what a guest has played is a part of it.        *)
Chains ==
  /\ \A c \in sent : /\ FrameOf(c) < NextFrame
                     /\ \A i \in 1 .. FrameOf(c) + 1 : HashOf(c)[i] = hostChain[i]
  /\ \A c, d \in sent : FrameOf(c) = FrameOf(d) => c = d
  /\ \A g \in Guests : held[g] \subseteq sent
  /\ \A g \in Guests : /\ Len(chain[g]) <= NextFrame
                       /\ \A i \in 1 .. Len(chain[g]) : chain[g][i] = hostChain[i]

(* The history holds the newest frames, in order and without a hole. *)
HistoryInOrder ==
  \A i \in 1 .. Len(history) : FrameOf(history[i]) = NextFrame - Len(history) + i - 1

(* What Player 1 knows of a guest is never ahead of it; in a race he knows *)
(* every guest and stays within the lead of what he knows.                 *)
Watermarks ==
  /\ Gameplay => heard = Guests
  /\ \A g \in Guests : completed[g] < Len(chain[g])
  /\ Gameplay => \A g \in Guests : NextFrame <= completed[g] + Lead + 1

LedgerInv == TypeOK /\ Chains /\ HistoryInOrder /\ Watermarks /\ NobodyGivesUp

LEMMA CommitFacts ==
  ASSUME NEW c \in Commit
  PROVE  /\ FrameOf(c) \in Nat
         /\ HashOf(c) \in Seq(Inputs)
         /\ Len(HashOf(c)) = FrameOf(c) + 1
         /\ \A i \in 1 .. FrameOf(c) : HashOf(c)[i] = c.prev[i]
         /\ HashOf(c)[FrameOf(c) + 1] = c.inputs
  BY DEF Commit, FrameOf, HashOf

(* A commit of the frame a guest has reached continues what it has played. *)
LEMMA ChainContinues ==
  ASSUME LedgerInv, NEW g \in Guests, NEW c \in held[g], FrameOf(c) = Len(chain[g])
  PROVE  c.prev = chain[g]
<1>1. c \in sent /\ c \in Commit /\ c.prev \in Seq(Inputs) /\ chain[g] \in Seq(Inputs)
  BY DEF LedgerInv, TypeOK, Chains, Commit
<1>2. Len(c.prev) = Len(chain[g])
  BY DEF FrameOf
<1>3. \A i \in 1 .. Len(c.prev) : c.prev[i] = chain[g][i]
  BY <1>1, <1>2, CommitFacts DEF LedgerInv, Chains
<1> QED
  BY <1>1, <1>2, <1>3

-----------------------------------------------------------------------------
(* One lemma per action. *)

LEMMA ConsumeStep ==
  ASSUME LedgerInv, NEW g \in Guests, Consume(g), Len(chain[g]) <= MaxFrame
  PROVE  /\ UNCHANGED failed
         /\ newest' \in [Guests -> 0 .. MaxFrame]
         /\ timed' \subseteq Guests
         /\ pending' \in [Guests -> Nat \cup {-1}]
         /\ \/ UNCHANGED chain
            \/ \E c \in held[g] : /\ FrameOf(c) = Len(chain[g])
                                  /\ chain' = [chain EXCEPT ![g] = HashOf(c)]
<1> DEFINE f == Len(chain[g])
<1> DEFINE found == CommitAt(held[g], f)
<1> DEFINE c == CHOOSE x \in found : TRUE
<1>1. f \in Nat /\ newest[g] \in Nat /\ f <= MaxFrame /\ newest[g] <= MaxFrame /\ MaxFrame \in Nat
  <2>1. chain[g] \in Seq(Inputs) /\ newest[g] \in 0 .. MaxFrame
    BY DEF LedgerInv, TypeOK
  <2> QED
    BY <2>1, LedgerConstants
<1>2. CASE found = {}
  <2>1. pending' = [pending EXCEPT ![g] = Target(g)] /\ UNCHANGED <<chain, newest, timed, failed>>
    BY <1>2 DEF Consume
  <2> QED
    BY <2>1, TargetType DEF LedgerInv, TypeOK
<1>3. CASE found # {}
  <2>1. c \in held[g] /\ FrameOf(c) = f
    BY <1>3 DEF CommitAt
  <2>2. c.prev = chain[g]
    BY <2>1, ChainContinues
  <2>3. /\ chain' = [chain EXCEPT ![g] = HashOf(c)]
        /\ newest' = [newest EXCEPT ![g] = Max({@, f})]
        /\ timed' = timed \cup {g}
        /\ pending' = [pending EXCEPT ![g] = -1]
        /\ UNCHANGED failed
    BY <1>3, <2>2 DEF Consume
  <2> HIDE DEF c, f
  <2>4. Max({newest[g], f}) \in 0 .. MaxFrame
    BY <1>1, MaxOfTwo
  <2> QED
    BY <2>1, <2>3, <2>4 DEF LedgerInv, TypeOK, f
<1> QED
  BY <1>2, <1>3

(* A guest's cursor moves along the commits it holds; nothing of Player 1  *)
(* moves.                                                                  *)
LEMMA CursorMoves ==
  ASSUME LedgerInv, NEW g \in Guests, NEW c \in held[g],
         FrameOf(c) >= Len(chain[g]), chain' = [chain EXCEPT ![g] = HashOf(c)],
         UNCHANGED <<mode, hostVars, held, sent>>
  PROVE  /\ chain' \in [Guests -> Seq(Inputs)]
         /\ Chains' /\ HistoryInOrder' /\ Watermarks'
<1>1. c \in sent /\ c \in Commit
  BY DEF LedgerInv, TypeOK, Chains
<1>2. HashOf(c) \in Seq(Inputs) /\ Len(HashOf(c)) = FrameOf(c) + 1 /\ FrameOf(c) \in Nat
  BY <1>1, CommitFacts
<1>3. chain' \in [Guests -> Seq(Inputs)] /\ chain \in [Guests -> Seq(Inputs)]
      /\ completed \in [Guests -> -1 .. MaxFrame] /\ hostChain \in Seq(Inputs)
  BY <1>2 DEF LedgerInv, TypeOK
<1>4. /\ chain'[g] = HashOf(c) /\ Len(chain'[g]) > Len(chain[g]) /\ Len(chain'[g]) <= NextFrame
      /\ \A i \in 1 .. Len(chain'[g]) : chain'[g][i] = hostChain[i]
  <2>1. chain'[g] = HashOf(c)
    BY <1>3
  <2>2. Len(chain[g]) \in Nat /\ NextFrame \in Nat
    BY <1>3 DEF NextFrame
  <2>3. FrameOf(c) < NextFrame /\ \A i \in 1 .. FrameOf(c) + 1 : HashOf(c)[i] = hostChain[i]
    BY <1>1 DEF LedgerInv, Chains
  <2> QED
    BY <1>2, <2>1, <2>2, <2>3
<1>5. \A k \in Guests : k # g => chain'[k] = chain[k]
  BY <1>3
<1>6. hostChain' = hostChain /\ history' = history /\ heard' = heard /\ completed' = completed
      /\ mode' = mode /\ sent' = sent /\ held' = held
  BY DEF hostVars
<1>7. Chains'
  BY <1>4, <1>5, <1>6 DEF LedgerInv, Chains, NextFrame, FrameOf, HashOf
<1>8. HistoryInOrder'
  BY <1>6 DEF LedgerInv, HistoryInOrder, NextFrame, FrameOf
<1>9. Watermarks'
  <2>1. \A k \in Guests : completed'[k] < Len(chain'[k])
    <3> TAKE k \in Guests
    <3>1. completed[k] \in Int /\ Len(chain[k]) \in Nat /\ Len(chain'[k]) \in Nat
      BY <1>3
    <3>2. completed[k] < Len(chain[k])
      BY DEF LedgerInv, Watermarks
    <3> QED
      BY <1>4, <1>5, <1>6, <3>1, <3>2
  <2> QED
    BY <1>6, <2>1 DEF LedgerInv, Watermarks, Gameplay, NextFrame
<1> QED
  BY <1>3, <1>7, <1>8, <1>9

(* Nothing the invariant speaks of beyond the types has moved. *)
LEMMA LedgerRests ==
  ASSUME LedgerInv, UNCHANGED <<mode, failed, hostChain, history, heard, completed,
                                recovery, chain, held, sent>>
  PROVE  Chains' /\ HistoryInOrder' /\ Watermarks' /\ NobodyGivesUp'
<1>1. Chains'
  BY DEF LedgerInv, Chains, NextFrame, FrameOf, HashOf
<1>2. HistoryInOrder'
  BY DEF LedgerInv, HistoryInOrder, NextFrame, FrameOf
<1>3. Watermarks'
  BY DEF LedgerInv, Watermarks, Gameplay, NextFrame
<1>4. NobodyGivesUp'
  BY DEF LedgerInv, NobodyGivesUp, Gameplay
<1> QED
  BY <1>1, <1>2, <1>3, <1>4

LEMMA GuestSynchronizeStep ==
  ASSUME LedgerInv, NEW g \in Guests, NEW pad \in Pads, GuestSynchronize(g, pad)
  PROVE  LedgerInv'
<1>1. Len(chain[g]) <= MaxFrame /\ Submit(g, pad) /\ Consume(g)
      /\ UNCHANGED <<mode, hostVars, held, sent, asked>>
  BY DEF GuestSynchronize
<1>2. /\ local' \in [Guests -> Samples]
      /\ submitted' \in [Guests -> [frame : Frames, input : Pads]]
      /\ samples' \subseteq Sample
  BY <1>1, SubmitType DEF LedgerInv
<1>3. /\ UNCHANGED failed
      /\ newest' \in [Guests -> 0 .. MaxFrame]
      /\ timed' \subseteq Guests
      /\ pending' \in [Guests -> Nat \cup {-1}]
  BY <1>1, ConsumeStep
<1>4. chain' \in [Guests -> Seq(Inputs)] /\ Chains' /\ HistoryInOrder' /\ Watermarks'
  <2>1. CASE UNCHANGED chain
    BY <1>1, <1>3, <2>1, LedgerRests DEF hostVars, LedgerInv, TypeOK
  <2>2. CASE \E c \in held[g] : /\ FrameOf(c) = Len(chain[g])
                                /\ chain' = [chain EXCEPT ![g] = HashOf(c)]
    <3>1. PICK c \in held[g] : /\ FrameOf(c) = Len(chain[g])
                               /\ chain' = [chain EXCEPT ![g] = HashOf(c)]
      BY <2>2
    <3>2. FrameOf(c) >= Len(chain[g])
      BY <3>1 DEF LedgerInv, TypeOK, FrameOf
    <3> QED
      BY <1>1, <3>1, <3>2, CursorMoves
  <2> QED
    BY <1>1, <2>1, <2>2, ConsumeStep
<1>5. TypeOK'
  BY <1>1, <1>2, <1>3, <1>4 DEF LedgerInv, TypeOK, hostVars, NextFrame, Samples
<1>6. NobodyGivesUp'
  BY <1>1, <1>3 DEF LedgerInv, NobodyGivesUp, Gameplay, hostVars
<1> QED
  BY <1>4, <1>5, <1>6 DEF LedgerInv

LEMMA HandleFrameCommitStep ==
  ASSUME LedgerInv, NEW g \in Guests, NEW c, HandleFrameCommit(g, c)
  PROVE  LedgerInv'
<1>1. c \in sent /\ c \notin held[g]
      /\ UNCHANGED <<mode, hostVars, chain, timed, local, submitted, pending, netVars>>
  BY DEF HandleFrameCommit
<1>2. CommitAt(held[g], FrameOf(c)) = {}
  BY <1>1 DEF CommitAt, LedgerInv, Chains
<1>3. /\ held' = [held EXCEPT ![g] = @ \cup {c}]
      /\ newest' = [newest EXCEPT ![g] = Max({@, FrameOf(c)})]
      /\ UNCHANGED failed
  BY <1>2 DEF HandleFrameCommit
<1>4. c \in Commit /\ FrameOf(c) \in Nat /\ FrameOf(c) <= MaxFrame
  <2>1. c \in Commit
    BY <1>1 DEF LedgerInv, TypeOK
  <2>2. FrameOf(c) < NextFrame /\ NextFrame <= MaxFrame + 1 /\ NextFrame \in Nat
    BY <1>1 DEF LedgerInv, TypeOK, Chains, NextFrame
  <2> QED
    BY <2>1, <2>2, CommitFacts, LedgerConstants
<1>5. held' \in [Guests -> SUBSET Commit] /\ newest' \in [Guests -> 0 .. MaxFrame]
  <2>1. newest[g] \in 0 .. MaxFrame
    BY DEF LedgerInv, TypeOK
  <2>2. Max({newest[g], FrameOf(c)}) \in 0 .. MaxFrame
    BY <1>4, <2>1, MaxOfTwo
  <2> QED
    BY <1>3, <1>4, <2>2 DEF LedgerInv, TypeOK
<1>6. TypeOK'
  BY <1>1, <1>3, <1>5 DEF LedgerInv, TypeOK, hostVars, netVars, NextFrame
<1>7. Chains'
  <2>1. \A k \in Guests : held'[k] \subseteq sent'
    BY <1>1, <1>3 DEF LedgerInv, TypeOK, Chains, netVars
  <2>2. UNCHANGED <<hostChain, sent, chain>>
    BY <1>1 DEF hostVars, netVars
  <2> QED
    BY <2>1, <2>2 DEF LedgerInv, Chains, NextFrame, FrameOf, HashOf
<1>8. HistoryInOrder' /\ Watermarks' /\ NobodyGivesUp'
  BY <1>1, <1>3 DEF LedgerInv, HistoryInOrder, Watermarks, NobodyGivesUp, Gameplay,
                    NextFrame, FrameOf, hostVars
<1> QED
  BY <1>6, <1>7, <1>8 DEF LedgerInv

LEMMA HandleInputRepairRequestStep ==
  ASSUME LedgerInv, NEW g \in Guests, HandleInputRepairRequest(g)
  PROVE  LedgerInv'
<1> DEFINE h == local[g]
<1> DEFINE f == asked[g]
<1> DEFINE earlier == {x \in Frames : x < f /\ h[x].rev > 0}
<1> DEFINE pad == IF earlier = {} THEN submitted[g].input ELSE h[Max(earlier)].input
<1> DEFINE stored == Store(h, g, f, pad, FALSE)
<1>1. f \in Frames /\ h \in Samples /\ submitted[g] \in [frame : Frames, input : Pads]
  BY DEF HandleInputRepairRequest, LedgerInv, TypeOK, Samples
<1>2. pad \in Pads
  <2>1. CASE earlier = {}
    BY <1>1, <2>1
  <2>2. CASE earlier # {}
    <3>1. earlier \in SUBSET Nat /\ \A y \in earlier : y <= MaxFrame + 1
      BY LedgerConstants DEF Frames
    <3>2. MaxFrame + 1 \in Nat
      BY LedgerConstants
    <3>3. Max(earlier) \in earlier
      <4> HIDE DEF earlier
      <4> QED
        BY <2>2, <3>1, <3>2, MaxBounded
    <3>4. Max(earlier) \in Frames
      BY <3>3
    <3> HIDE DEF earlier, h
    <3> QED
      BY <1>1, <2>2, <3>4 DEF Samples
  <2> QED
    BY <2>1, <2>2
<1> HIDE DEF pad
<1>3. stored \in Samples
  BY <1>1, <1>2, StoreType
<1>4. SamplesOf(g, stored) \subseteq Sample
  BY <1>3, SamplesOfType
<1>5. /\ local' = [local EXCEPT ![g] = stored]
      /\ samples' = samples \cup SamplesOf(g, stored)
      /\ \/ /\ submitted' = [submitted EXCEPT ![g] = [frame |-> f, input |-> pad]]
            /\ pending' = [pending EXCEPT ![g] = f]
         \/ UNCHANGED <<submitted, pending>>
      /\ UNCHANGED <<mode, failed, hostVars, chain, held, newest, timed, sent, asked>>
  BY DEF HandleInputRepairRequest, pad
<1> HIDE DEF stored, f
<1>6. submitted' \in [Guests -> [frame : Frames, input : Pads]]
      /\ pending' \in [Guests -> Nat \cup {-1}]
  <2>1. f \in Nat
    BY <1>1, LedgerConstants DEF Frames
  <2>2. submitted \in [Guests -> [frame : Frames, input : Pads]]
        /\ pending \in [Guests -> Nat \cup {-1}]
    BY DEF LedgerInv, TypeOK
  <2>3. [frame |-> f, input |-> pad] \in [frame : Frames, input : Pads]
    BY <1>1, <1>2
  <2> QED
    BY <1>5, <2>1, <2>2, <2>3
<1>7. local' \in [Guests -> Samples] /\ samples' \subseteq Sample
  BY <1>3, <1>4, <1>5 DEF LedgerInv, TypeOK, Samples
<1>8. TypeOK'
  BY <1>5, <1>6, <1>7 DEF LedgerInv, TypeOK, hostVars, NextFrame, Samples
<1>9. Chains' /\ HistoryInOrder' /\ Watermarks' /\ NobodyGivesUp'
  BY <1>5, LedgerRests DEF hostVars
<1> QED
  BY <1>8, <1>9 DEF LedgerInv

LEMMA InstallFastForwardStep ==
  ASSUME LedgerInv, NEW g \in Guests, NEW next, InstallFastForward(g, next)
  PROVE  /\ LedgerInv'
         /\ \E c \in held[g] : /\ FrameOf(c) >= Len(chain[g])
                               /\ chain' = [chain EXCEPT ![g] = HashOf(c)]
<1> DEFINE c == CHOOSE x \in held[g] : FrameOf(x) = next - 1
<1>0. Len(chain[g]) \in Nat /\ newest[g] \in Nat
  <2>1. chain[g] \in Seq(Inputs) /\ newest[g] \in 0 .. MaxFrame
    BY DEF LedgerInv, TypeOK
  <2> QED
    BY <2>1, LedgerConstants
<1>1. next \in Len(chain[g]) + 1 .. newest[g]
  BY <1>0, LedgerConstants DEF InstallFastForward
<1>2. next - 1 \in Len(chain[g]) .. next - 1 /\ next - 1 >= Len(chain[g])
  BY <1>0, <1>1
<1>3. CommitAt(held[g], next - 1) # {}
  BY <1>2 DEF InstallFastForward
<1>4. c \in held[g] /\ FrameOf(c) = next - 1
  BY <1>3 DEF CommitAt
<1>5. /\ chain' = [chain EXCEPT ![g] = HashOf(c)]
      /\ pending' = [pending EXCEPT ![g] = -1]
      /\ UNCHANGED <<mode, failed, hostVars, held, newest, timed, local, submitted, netVars>>
  BY DEF InstallFastForward
<1> HIDE DEF c
<1>6. chain' \in [Guests -> Seq(Inputs)] /\ Chains' /\ HistoryInOrder' /\ Watermarks'
  BY <1>2, <1>4, <1>5, CursorMoves DEF netVars
<1>7. TypeOK'
  BY <1>5, <1>6 DEF LedgerInv, TypeOK, hostVars, netVars, NextFrame
<1>8. NobodyGivesUp'
  BY <1>5 DEF LedgerInv, NobodyGivesUp, Gameplay, hostVars
<1> QED
  BY <1>2, <1>4, <1>5, <1>6, <1>7, <1>8 DEF LedgerInv

LEMMA HandleInputStep ==
  ASSUME LedgerInv, NEW s \in samples, HandleInput(s)
  PROVE  LedgerInv'
<1>1. s \in Sample /\ s.slot \in Guests /\ s.frame \in Frames /\ s.rev \in Nat /\ s.input \in Pads
  BY DEF LedgerInv, TypeOK, Sample
<1>2. timeline' \in [0 .. Ring - 1 -> Entry]
  BY <1>1, SetRemoteType DEF HandleInput, LedgerInv, TypeOK
<1>3. accepted' \in [Guests -> [Frames -> Nat]]
  BY <1>1 DEF HandleInput, LedgerInv, TypeOK
<1>4. firstMissing' \in [Guests -> Nat]
  BY <1>1, AdvanceMissingGrows DEF HandleInput, LedgerInv, TypeOK
<1>5. UNCHANGED <<mode, failed, hostChain, history, heard, completed, holding,
                  recovery, guestVars, netVars>>
  BY DEF HandleInput
<1>6. TypeOK'
  BY <1>2, <1>3, <1>4, <1>5 DEF LedgerInv, TypeOK, guestVars, netVars, NextFrame
<1>7. Chains' /\ HistoryInOrder' /\ Watermarks' /\ NobodyGivesUp'
  BY <1>5, LedgerRests DEF guestVars, netVars
<1> QED
  BY <1>6, <1>7 DEF LedgerInv

LEMMA HandleProgressStep ==
  ASSUME LedgerInv, NEW g \in Guests, NEW f \in 0 .. MaxFrame, HandleProgress(g, f)
  PROVE  LedgerInv'
<1>1. /\ heard' = heard \cup {g}
      /\ completed' = [completed EXCEPT ![g] = f]
      /\ UNCHANGED <<mode, failed, timeline, hostChain, history, accepted, firstMissing,
                     holding, recovery, guestVars, netVars>>
      /\ f \in 0 .. Len(chain[g]) - 1
      /\ g \in heard => f > completed[g]
  BY DEF HandleProgress
<1>2. completed' \in [Guests -> -1 .. MaxFrame] /\ completed \in [Guests -> -1 .. MaxFrame]
  <2>1. completed \in [Guests -> -1 .. MaxFrame]
    BY DEF LedgerInv, TypeOK
  <2>2. f \in -1 .. MaxFrame
    BY LedgerConstants
  <2> QED
    BY <1>1, <2>1, <2>2
<1>3. TypeOK'
  BY <1>1, <1>2 DEF LedgerInv, TypeOK, guestVars, netVars, NextFrame
<1>4. Watermarks'
  <2>1. chain' = chain /\ hostChain' = hostChain /\ mode' = mode
    BY <1>1 DEF guestVars
  <2>2. Gameplay' => heard' = Guests
    BY <1>1, <2>1 DEF LedgerInv, Watermarks, Gameplay
  <2>3. \A k \in Guests : completed'[k] < Len(chain'[k])
    <3> TAKE k \in Guests
    <3>1. chain[g] \in Seq(Inputs)
      BY DEF LedgerInv, TypeOK
    <3> QED
      BY <1>1, <1>2, <2>1, <3>1 DEF LedgerInv, Watermarks
  <2>4. ASSUME Gameplay', NEW k \in Guests PROVE NextFrame' <= completed'[k] + Lead + 1
    <3>1. NextFrame <= completed[k] + Lead + 1 /\ heard = Guests
      BY <2>1, <2>4 DEF LedgerInv, Watermarks, Gameplay
    <3>2. completed'[k] >= completed[k] /\ completed[k] \in Int /\ completed'[k] \in Int
      BY <1>1, <1>2, <3>1
    <3>3. NextFrame \in Nat /\ NextFrame' = NextFrame
      BY <2>1 DEF NextFrame, LedgerInv, TypeOK
    <3> QED
      BY <3>1, <3>2, <3>3, LedgerConstants
  <2> QED
    BY <2>2, <2>3, <2>4 DEF Watermarks
<1>5. Chains' /\ HistoryInOrder' /\ NobodyGivesUp'
  BY <1>1 DEF LedgerInv, Chains, HistoryInOrder, NobodyGivesUp, Gameplay, NextFrame,
              FrameOf, HashOf, guestVars, netVars
<1> QED
  BY <1>3, <1>4, <1>5 DEF LedgerInv

LEMMA HostWaitsStep ==
  ASSUME LedgerInv, HostHolds \/ HostAsks
  PROVE  LedgerInv'
<1>1. /\ UNCHANGED <<timeline, hostChain, history, sent, mode, failed, accepted, firstMissing,
                     heard, completed, recovery, guestVars, samples>>
      /\ holding' \in BOOLEAN
      /\ asked' = asked \/ asked' = firstMissing
  BY DEF HostHolds, HostAsks, HostUnchanged
<1>2. TypeOK'
  BY <1>1 DEF LedgerInv, TypeOK, guestVars, NextFrame
<1>3. Chains' /\ HistoryInOrder' /\ Watermarks' /\ NobodyGivesUp'
  BY <1>1, LedgerRests DEF guestVars
<1> QED
  BY <1>2, <1>3 DEF LedgerInv

LEMMA HandleAgedRequestStep ==
  ASSUME LedgerInv, NEW g \in Guests, HandleAgedRequest(g)
  PROVE  LedgerInv'
<1>1. /\ Len(chain[g]) < NextFrame /\ Len(chain[g]) < FrameOf(history[1])
      /\ IF Gameplay THEN recovery' = TRUE /\ UNCHANGED failed
                     ELSE failed' = failed \cup {Host} /\ UNCHANGED recovery
      /\ UNCHANGED <<mode, timeline, hostChain, history, accepted, firstMissing, heard,
                     completed, holding, guestVars, netVars>>
  BY DEF HandleAgedRequest
<1>2. Len(chain[g]) \in Nat /\ NextFrame \in Nat /\ completed[g] \in Int /\ Len(history) \in Nat
  <2>1. chain[g] \in Seq(Inputs) /\ hostChain \in Seq(Inputs) /\ completed[g] \in -1 .. MaxFrame
        /\ history \in Seq(Commit)
    BY DEF LedgerInv, TypeOK
  <2> QED
    BY <2>1, LedgerConstants DEF NextFrame
<1>3. ~Gameplay
  <2>1. SUFFICES ASSUME Gameplay PROVE FALSE
    OBVIOUS
  <2>2. NextFrame <= completed[g] + Lead + 1 /\ completed[g] < Len(chain[g])
    BY <2>1 DEF LedgerInv, Watermarks
  <2>3. Len(history) = Min({NextFrame, HistoryCapacity})
    BY DEF LedgerInv, TypeOK
  <2>4. Len(history) = IF NextFrame <= HistoryCapacity THEN NextFrame ELSE HistoryCapacity
    BY <1>2, <2>3, MinOfTwo, LedgerConstants
  <2>5. Len(history) >= 1
    BY <1>1, <1>2, <2>4, LedgerConstants
  <2>6. FrameOf(history[1]) = NextFrame - Len(history) + 1 - 1
    BY <1>2, <2>5 DEF LedgerInv, HistoryInOrder
  <2> QED
    BY <1>1, <1>2, <2>2, <2>4, <2>6, LedgerConstants
<1>4. failed' = failed \cup {Host} /\ UNCHANGED recovery
  BY <1>1, <1>3
<1>5. TypeOK'
  BY <1>1, <1>4 DEF LedgerInv, TypeOK, guestVars, netVars, NextFrame, Machines
<1>6. Chains' /\ HistoryInOrder' /\ Watermarks'
  BY <1>1 DEF LedgerInv, Chains, HistoryInOrder, Watermarks, Gameplay, NextFrame,
              FrameOf, HashOf, guestVars, netVars
<1>7. NobodyGivesUp'
  BY <1>1, <1>3, <1>4 DEF LedgerInv, NobodyGivesUp, Gameplay
<1> QED
  BY <1>5, <1>6, <1>7 DEF LedgerInv

LEMMA HostCommitsStep ==
  ASSUME LedgerInv, HostCommits
  PROVE  /\ LedgerInv'
         /\ MakeCommit.inputs \in Inputs
         /\ hostChain' = Append(hostChain, MakeCommit.inputs)
         /\ chain' = chain
<1> DEFINE c == MakeCommit
<1> DEFINE full == Append(history, c)
<1>1. /\ NextFrame <= MaxFrame /\ ~ShouldHold
      /\ holding' = FALSE
      /\ timeline' = [timeline EXCEPT ![NextFrame % Ring] = InputsFor(timeline, NextFrame)]
      /\ hostChain' = HashOf(c)
      /\ history' = LastOf(full, HistoryCapacity)
      /\ sent' = sent \cup {c}
      /\ UNCHANGED <<asked, mode, failed, accepted, firstMissing, heard, completed,
                     recovery, guestVars, samples>>
  BY DEF HostCommits, HostUnchanged
<1>2. NextFrame \in Nat /\ NextFrame \in Frames /\ hostChain \in Seq(Inputs)
      /\ history \in Seq(Commit) /\ timeline \in [0 .. Ring - 1 -> Entry]
  <2>1. hostChain \in Seq(Inputs) /\ history \in Seq(Commit) /\ timeline \in [0 .. Ring - 1 -> Entry]
    BY DEF LedgerInv, TypeOK
  <2> QED
    BY <1>1, <2>1, LedgerConstants DEF NextFrame, Frames
<1>3. InputsFor(timeline, NextFrame) \in Entry
  BY <1>2, InputsForType
<1>4. c \in Commit /\ c.prev = hostChain /\ c.inputs \in Inputs
  <2>1. c = [prev |-> hostChain, inputs |-> InputsFor(timeline, NextFrame).input,
             predicted |-> InputsFor(timeline, NextFrame).predicted]
    BY DEF MakeCommit
  <2> QED
    BY <1>2, <1>3, <2>1 DEF Commit, Entry
<1>5. FrameOf(c) = NextFrame
  BY <1>4 DEF FrameOf, NextFrame
<1> HIDE DEF c
<1>6. /\ hostChain' = Append(hostChain, c.inputs) /\ hostChain' \in Seq(Inputs)
      /\ Len(hostChain') = NextFrame + 1
      /\ \A i \in 1 .. NextFrame : hostChain'[i] = hostChain[i]
  BY <1>1, <1>2, <1>4 DEF HashOf, NextFrame
<1>7. timeline' \in [0 .. Ring - 1 -> Entry]
  BY <1>1, <1>2, <1>3, RingIndex
<1>8. /\ history' \in Seq(Commit)
      /\ Len(history') = Min({(NextFrame + 1), HistoryCapacity})
      /\ \A i \in 1 .. Len(history') : FrameOf(history'[i]) = (NextFrame + 1) - Len(history') + i - 1
  <2>1. Len(history) = IF NextFrame <= HistoryCapacity THEN NextFrame ELSE HistoryCapacity
    BY <1>2, MinOfTwo, LedgerConstants DEF LedgerInv, TypeOK
  <2>2. full \in Seq(Commit) /\ Len(full) = Len(history) + 1
    BY <1>2, <1>4
  <2>3. \A i \in 1 .. Len(full) : FrameOf(full[i]) = NextFrame - Len(history) + i - 1
    <3> TAKE i \in 1 .. Len(full)
    <3>1. CASE i = Len(full)
      BY <1>2, <1>5, <2>2, <3>1
    <3>2. CASE i # Len(full)
      <4>1. i \in 1 .. Len(history) /\ full[i] = history[i]
        BY <1>2, <1>4, <2>2, <3>2
      <4> QED
        BY <4>1 DEF LedgerInv, HistoryInOrder
    <3> QED
      BY <3>1, <3>2
  <2>4. Min({(NextFrame + 1), HistoryCapacity}) =
          IF (NextFrame + 1) <= HistoryCapacity THEN (NextFrame + 1) ELSE HistoryCapacity
    <3>1. NextFrame + 1 \in Nat /\ HistoryCapacity \in Nat
      BY <1>2, LedgerConstants
    <3> QED
      BY <3>1, MinOfTwo
  <2> HIDE DEF full
  <2>5. CASE Len(full) <= HistoryCapacity
    <3>1. history' = full /\ NextFrame = Len(history)
      BY <1>1, <1>2, <2>1, <2>2, <2>5, LedgerConstants DEF LastOf
    <3>2. Len(history') = Min({(NextFrame + 1), HistoryCapacity}) /\ Len(history') = Len(history) + 1
      BY <1>2, <1>6, <2>2, <2>4, <2>5, <3>1, LedgerConstants
    <3>3. ASSUME NEW i \in 1 .. Len(history')
          PROVE  FrameOf(history'[i]) = (NextFrame + 1) - Len(history') + i - 1
      <4>1. i \in 1 .. Len(full) /\ history'[i] = full[i]
        BY <3>1
      <4>2. FrameOf(full[i]) = NextFrame - Len(history) + i - 1
        BY <2>3, <4>1
      <4> QED
        BY <1>2, <3>1, <3>2, <4>1, <4>2
    <3> QED
      BY <2>2, <3>1, <3>2, <3>3
  <2>6. CASE Len(full) > HistoryCapacity
    <3>1. Len(history) = HistoryCapacity /\ NextFrame >= HistoryCapacity /\ Len(full) = HistoryCapacity + 1
      BY <1>2, <2>1, <2>2, <2>6, LedgerConstants
    <3>2. history' = SubSeq(full, 2, HistoryCapacity + 1)
      BY <1>1, <2>2, <2>6, <3>1, LedgerConstants DEF LastOf
    <3>3. history' \in Seq(Commit) /\ Len(history') = HistoryCapacity
      BY <2>2, <3>1, <3>2, LedgerConstants
    <3>4. \A i \in 1 .. HistoryCapacity : history'[i] = full[i + 1]
      BY <2>2, <3>1, <3>2, LedgerConstants
    <3>5. ASSUME NEW i \in 1 .. Len(history')
          PROVE  FrameOf(history'[i]) = (NextFrame + 1) - Len(history') + i - 1
      <4>1. i \in 1 .. HistoryCapacity /\ i + 1 \in 1 .. Len(full)
        BY <3>1, <3>3, LedgerConstants
      <4>2. FrameOf(full[i + 1]) = NextFrame - Len(history) + (i + 1) - 1
        BY <2>3, <4>1
      <4> QED
        BY <1>2, <1>6, <3>1, <3>3, <3>4, <4>1, <4>2, LedgerConstants
    <3>6. Len(history') = Min({(NextFrame + 1), HistoryCapacity})
      BY <1>2, <1>6, <2>4, <3>1, <3>3, LedgerConstants
    <3> QED
      BY <3>3, <3>5, <3>6
  <2> QED
    BY <2>2, <2>5, <2>6, LedgerConstants
<1>9. TypeOK'
  <2>1. NextFrame' <= MaxFrame + 1 /\ NextFrame' = NextFrame + 1
    BY <1>1, <1>2, <1>6, LedgerConstants DEF NextFrame
  <2>2. sent' \subseteq Commit
    BY <1>1, <1>4 DEF LedgerInv, TypeOK
  <2> QED
    BY <1>1, <1>6, <1>7, <1>8, <2>1, <2>2 DEF LedgerInv, TypeOK, guestVars
<1>10. Chains'
  <2>1. ASSUME NEW d \in sent'
        PROVE  FrameOf(d) < NextFrame + 1 /\ \A i \in 1 .. FrameOf(d) + 1 : HashOf(d)[i] = hostChain'[i]
    <3>1. CASE d = c
      <4>1. FrameOf(d) = NextFrame /\ HashOf(d) = hostChain'
        BY <1>1, <1>5, <3>1
      <4> QED
        BY <1>2, <4>1
    <3>2. CASE d \in sent
      <4>1. d \in Commit
        BY <3>2 DEF LedgerInv, TypeOK
      <4>2. FrameOf(d) \in Nat
        BY <4>1, CommitFacts
      <4>3. FrameOf(d) < NextFrame /\ \A i \in 1 .. FrameOf(d) + 1 : HashOf(d)[i] = hostChain[i]
        BY <3>2 DEF LedgerInv, Chains
      <4>4. \A i \in 1 .. FrameOf(d) + 1 : i \in 1 .. NextFrame
        BY <1>2, <4>2, <4>3
      <4> QED
        BY <1>2, <1>6, <4>2, <4>3, <4>4
    <3> QED
      BY <1>1, <3>1, <3>2
  <2>2. ASSUME NEW d \in sent', NEW e \in sent', FrameOf(d) = FrameOf(e)
        PROVE  d = e
    <3>1. \A x \in sent : FrameOf(x) < NextFrame /\ FrameOf(x) \in Nat
      BY CommitFacts DEF LedgerInv, TypeOK, Chains
    <3> QED
      BY <1>1, <1>2, <1>5, <2>2, <3>1 DEF LedgerInv, Chains
  <2>3. \A g \in Guests : held'[g] \subseteq sent'
    BY <1>1 DEF LedgerInv, Chains, guestVars
  <2>4. ASSUME NEW g \in Guests
        PROVE  /\ Len(chain'[g]) <= NextFrame + 1
               /\ \A i \in 1 .. Len(chain'[g]) : chain'[g][i] = hostChain'[i]
    <3>1. chain' = chain /\ chain[g] \in Seq(Inputs)
      BY <1>1 DEF guestVars, LedgerInv, TypeOK
    <3>2. Len(chain[g]) <= NextFrame /\ \A i \in 1 .. Len(chain[g]) : chain[g][i] = hostChain[i]
      BY DEF LedgerInv, Chains
    <3>3. Len(chain[g]) \in Nat /\ Len(chain[g]) <= NextFrame + 1
      BY <1>2, <3>1, <3>2
    <3>4. \A i \in 1 .. Len(chain[g]) : i \in 1 .. NextFrame
      BY <1>2, <3>2, <3>3
    <3>5. \A i \in 1 .. Len(chain[g]) : chain[g][i] = hostChain'[i]
      BY <1>6, <3>2, <3>4
    <3> QED
      BY <3>1, <3>3, <3>5
  <2> QED
    BY <1>6, <2>1, <2>2, <2>3, <2>4 DEF Chains, FrameOf, HashOf, NextFrame
<1>11. Watermarks'
  <2>1. mode' = mode /\ heard' = heard /\ completed' = completed /\ chain' = chain
    BY <1>1 DEF guestVars
  <2>2. ASSUME Gameplay, NEW g \in Guests PROVE NextFrame + 1 <= completed[g] + Lead + 1
    <3>1. g \in heard
      BY <2>2 DEF LedgerInv, Watermarks
    <3>2. completed[g] \in Int
      BY DEF LedgerInv, TypeOK
    <3>3. Release \in Nat /\ Release <= Lead /\ Lead \in Nat
      BY LedgerConstants DEF Release
    <3>4. ~(Debt(g) > Lead) \/ ~(Debt(g) > Release)
      BY <1>1, <3>1 DEF ShouldHold
    <3> QED
      BY <1>2, <3>2, <3>3, <3>4 DEF Debt
  <2> QED
    BY <1>6, <2>1, <2>2 DEF LedgerInv, Watermarks, Gameplay, NextFrame
<1>12. NobodyGivesUp'
  BY <1>1 DEF LedgerInv, NobodyGivesUp, Gameplay
<1>13. HistoryInOrder'
  BY <1>6, <1>8 DEF HistoryInOrder, FrameOf, NextFrame
<1> QED
  BY <1>1, <1>4, <1>6, <1>13, <1>9, <1>10, <1>11, <1>12 DEF LedgerInv, c, guestVars

-----------------------------------------------------------------------------
LEMMA LedgerStarts == Init => LedgerInv
<1> SUFFICES ASSUME Init PROVE LedgerInv
  OBVIOUS
<1>1. timeline \in [0 .. Ring - 1 -> Entry]
  <2>1. \A f \in Nat \cup {-1} : EmptyEntry(f) \in Entry
    BY LedgerConstants DEF EmptyEntry, Entry, Inputs
  <2>2. \A f \in Nat : [EmptyEntry(f) EXCEPT !.present = Guests] \in Entry
    BY <2>1 DEF Entry
  <2>3. \A i \in 0 .. Ring - 1 : i \in Nat
    BY LedgerConstants
  <2> QED
    BY <2>1, <2>2, <2>3 DEF Init
<1>2. 0 \in Frames /\ Neutral \in Pads /\ 0 \in 0 .. MaxFrame
  BY LedgerConstants DEF Frames
<1>3. hostChain = << >> /\ history = << >> /\ NextFrame = 0
  BY DEF Init, NextFrame
<1>4. Len(history) = Min({NextFrame, HistoryCapacity})
  BY <1>3, MinOfTwo, LedgerConstants
<1>5. completed \in [Guests -> -1 .. MaxFrame]
  BY LedgerConstants DEF Init
<1>6. TypeOK
  <2>1. hostChain \in Seq(Inputs) /\ history \in Seq(Commit) /\ NextFrame <= MaxFrame + 1
    BY <1>3, LedgerConstants
  <2>2. /\ accepted \in [Guests -> [Frames -> Nat]]
        /\ firstMissing \in [Guests -> Nat]
    BY LedgerConstants DEF Init, Frames
  <2>3. /\ chain \in [Guests -> Seq(Inputs)]
        /\ held \in [Guests -> SUBSET Commit]
        /\ newest \in [Guests -> 0 .. MaxFrame]
    BY <1>2 DEF Init
  <2>4. local \in [Guests -> [Frames -> [rev : Nat, input : Pads]]]
    BY <1>2 DEF Init
  <2>5. submitted \in [Guests -> [frame : Frames, input : Pads]]
    BY <1>2 DEF Init
  <2>6. /\ pending \in [Guests -> Nat \cup {-1}]
        /\ asked \in [Guests -> Nat \cup {-1}]
    BY DEF Init
  <2>7. /\ mode \in Modes /\ failed \subseteq Machines /\ heard \subseteq Guests
        /\ holding \in BOOLEAN /\ recovery \in BOOLEAN /\ timed \subseteq Guests
        /\ samples \subseteq Sample /\ sent \subseteq Commit
    BY DEF Init
  <2> QED
    BY <1>1, <1>4, <1>5, <2>1, <2>2, <2>3, <2>4, <2>5, <2>6, <2>7 DEF TypeOK
<1>7. Chains /\ HistoryInOrder /\ NobodyGivesUp
  BY <1>3 DEF Init, Chains, HistoryInOrder, NobodyGivesUp
<1>8. Watermarks
  BY <1>3, LedgerConstants DEF Init, Watermarks, Gameplay
<1> QED
  BY <1>6, <1>7, <1>8 DEF LedgerInv

LEMMA LedgerStep == LedgerInv /\ [Next]_vars => LedgerInv'
<1> SUFFICES ASSUME LedgerInv, [Next]_vars PROVE LedgerInv'
  OBVIOUS
<1>1. ASSUME NEW g \in Guests, GuestStep(g) PROVE LedgerInv'
  BY <1>1, GuestSynchronizeStep, HandleFrameCommitStep, HandleInputRepairRequestStep,
     InstallFastForwardStep DEF GuestStep
<1>2. CASE HostStep
  BY <1>2, HandleInputStep, HandleProgressStep, HostWaitsStep, HostCommitsStep,
     HandleAgedRequestStep DEF HostStep
<1>3. CASE UNCHANGED vars
  <2>1. TypeOK'
    BY <1>3 DEF vars, hostVars, guestVars, netVars, LedgerInv, TypeOK, NextFrame
  <2> QED
    BY <1>3, <2>1, LedgerRests DEF vars, hostVars, guestVars, netVars, LedgerInv
<1> QED
  BY <1>1, <1>2, <1>3 DEF Next

(* The invariant holds in every reachable state. *)
THEOREM LedgerInvariant == Spec => []LedgerInv
  BY LedgerStarts, LedgerStep, PTL DEF Spec

(* Every machine plays a prefix of Player 1's frames (synchronize_inputs,  *)
(* apply_frame_commit), whatever the network loses, repeats or reorders    *)
(* and however late a sample is.                                           *)
THEOREM LedgerAgreement == Spec => []Agreement
<1>1. LedgerInv => Agreement
  <2> SUFFICES ASSUME LedgerInv, NEW g \in Guests PROVE IsPrefix(chain[g], hostChain)
    BY DEF Agreement
  <2>1. chain[g] \in Seq(Inputs) /\ hostChain \in Seq(Inputs)
    BY DEF LedgerInv, TypeOK
  <2>2. Len(chain[g]) <= Len(hostChain) /\ \A i \in 1 .. Len(chain[g]) : chain[g][i] = hostChain[i]
    BY DEF LedgerInv, Chains, NextFrame
  <2>3. SubSeq(chain[g], 1, Len(chain[g])) = SubSeq(hostChain, 1, Len(chain[g]))
    BY <2>1, <2>2
  <2> QED
    BY <2>2, <2>3 DEF IsPrefix
<1> QED
  BY <1>1, LedgerInvariant, PTL

(* In a race the commit a guest asks for is always still in the history    *)
(* (FrameCommitRequest), and no guest ever meets a broken chain.           *)
THEOREM LedgerAnswers == Spec => []NobodyGivesUp
<1>1. LedgerInv => NobodyGivesUp
  BY DEF LedgerInv
<1> QED
  BY <1>1, LedgerInvariant, PTL

(* Player 1 is never more than the lead ahead (host_should_backpressure).  *)
THEOREM LedgerLead == Spec => []LeadBounded
<1>1. LedgerInv => LeadBounded
  <2> SUFFICES ASSUME LedgerInv, Gameplay, NEW g \in Guests
               PROVE  NextFrame <= Len(chain[g]) + Lead
    BY DEF LeadBounded
  <2>1. chain[g] \in Seq(Inputs) /\ hostChain \in Seq(Inputs) /\ completed[g] \in -1 .. MaxFrame
    BY DEF LedgerInv, TypeOK
  <2>2. completed[g] < Len(chain[g]) /\ NextFrame <= completed[g] + Lead + 1
    BY DEF LedgerInv, Watermarks
  <2> QED
    BY <2>1, <2>2, LedgerConstants DEF NextFrame
<1> QED
  BY <1>1, LedgerInvariant, PTL

-----------------------------------------------------------------------------
(* What a step does to the frames that are played. *)

HostExtends == /\ \E f \in Inputs : hostChain' = Append(hostChain, f)
               /\ chain' = chain

\* Guest g plays the frames of the commit c, the next one or a later one.
Plays(g, c) == /\ FrameOf(c) >= Len(chain[g])
               /\ chain' = [chain EXCEPT ![g] = HashOf(c)]
               /\ hostChain' = hostChain

LEMMA StepsOfTheLedger ==
  ASSUME LedgerInv, [Next]_vars
  PROVE  \/ UNCHANGED <<hostChain, chain>>
         \/ HostExtends
         \/ \E g \in Guests : \E c \in held[g] : Plays(g, c)
<1>1. ASSUME NEW g \in Guests, NEW pad \in Pads, GuestSynchronize(g, pad)
      PROVE  UNCHANGED <<hostChain, chain>> \/ \E c \in held[g] : Plays(g, c)
  <2>1. Len(chain[g]) <= MaxFrame /\ Consume(g) /\ hostChain' = hostChain
    BY <1>1 DEF GuestSynchronize, hostVars
  <2>2. \A c \in held[g] : FrameOf(c) = Len(chain[g]) => FrameOf(c) >= Len(chain[g])
    BY DEF LedgerInv, TypeOK, FrameOf
  <2>3. \/ UNCHANGED chain
        \/ \E c \in held[g] : /\ FrameOf(c) = Len(chain[g])
                              /\ chain' = [chain EXCEPT ![g] = HashOf(c)]
    BY <2>1, ConsumeStep
  <2> QED
    BY <2>1, <2>2, <2>3 DEF Plays
<1>2. ASSUME NEW g \in Guests, NEW n, InstallFastForward(g, n)
      PROVE  \E c \in held[g] : Plays(g, c)
  <2>1. hostChain' = hostChain
    BY <1>2 DEF InstallFastForward, hostVars
  <2> QED
    BY <1>2, <2>1, InstallFastForwardStep DEF Plays
<1>3. CASE HostCommits
  BY <1>3, HostCommitsStep DEF HostExtends
<1>4. ASSUME NEW g \in Guests, NEW c, HandleFrameCommit(g, c) PROVE UNCHANGED <<hostChain, chain>>
  BY <1>4 DEF HandleFrameCommit, hostVars
<1>5. ASSUME NEW g \in Guests, HandleInputRepairRequest(g) PROVE UNCHANGED <<hostChain, chain>>
  BY <1>5 DEF HandleInputRepairRequest, hostVars
<1>6. ASSUME HostStep, ~HostCommits PROVE UNCHANGED <<hostChain, chain>>
  BY <1>6 DEF HostStep, HandleInput, HandleProgress, HostHolds, HostAsks, HostUnchanged,
              HandleAgedRequest, guestVars
<1>7. ASSUME UNCHANGED vars PROVE UNCHANGED <<hostChain, chain>>
  BY <1>7 DEF vars, hostVars, guestVars
<1> QED
  BY <1>1, <1>2, <1>3, <1>4, <1>5, <1>6, <1>7 DEF Next, GuestStep

\* A frame a machine has played is never taken back, and no other frame ever
\* stands in its place: not by a commit that arrives again or out of order, nor
\* by a fast-forward (apply_frame_commit, install_fast_forward).
FramesStay == [][ /\ IsPrefix(hostChain, hostChain')
                  /\ \A g \in Guests : IsPrefix(chain[g], chain'[g]) ]_vars

LEMMA PrefixOf ==
  ASSUME NEW S, NEW s \in Seq(S), NEW t \in Seq(S),
         Len(s) <= Len(t), \A i \in 1 .. Len(s) : s[i] = t[i]
  PROVE  IsPrefix(s, t)
<1>1. SubSeq(s, 1, Len(s)) = SubSeq(t, 1, Len(s))
  OBVIOUS
<1> QED
  BY <1>1 DEF IsPrefix

(* No step of any machine takes a frame back or replaces one that was      *)
(* played, Player 1's own and a guest's fast-forward included.             *)
THEOREM PlayedFramesStay == Spec => FramesStay
<1>1. ASSUME LedgerInv, LedgerInv', [Next]_vars
      PROVE  IsPrefix(hostChain, hostChain') /\ \A g \in Guests : IsPrefix(chain[g], chain'[g])
  <2>1. hostChain \in Seq(Inputs) /\ hostChain' \in Seq(Inputs)
    BY <1>1 DEF LedgerInv, TypeOK
  <2>2. \A g \in Guests : chain[g] \in Seq(Inputs) /\ chain'[g] \in Seq(Inputs)
    BY <1>1 DEF LedgerInv, TypeOK
  <2>3. /\ Len(hostChain) <= Len(hostChain')
        /\ \A i \in 1 .. Len(hostChain) : hostChain[i] = hostChain'[i]
    <3>1. CASE hostChain' = hostChain
      BY <2>1, <3>1
    <3>2. CASE HostExtends
      BY <2>1, <3>2 DEF HostExtends
    <3> QED
      BY <1>1, <3>1, <3>2, StepsOfTheLedger DEF Plays
  <2>4. ASSUME NEW g \in Guests PROVE Len(chain[g]) <= Len(chain'[g])
    <3>1. CASE chain' = chain
      BY <2>2, <3>1
    <3>2. ASSUME NEW h \in Guests, NEW c \in held[h], Plays(h, c)
          PROVE  Len(chain[g]) <= Len(chain'[g])
      <4>1. c \in Commit
        BY <1>1 DEF LedgerInv, TypeOK
      <4>2. FrameOf(c) \in Nat /\ Len(HashOf(c)) = FrameOf(c) + 1
        BY <4>1, CommitFacts
      <4>3. FrameOf(c) >= Len(chain[h]) /\ chain' = [chain EXCEPT ![h] = HashOf(c)]
        BY <3>2 DEF Plays
      <4>4. chain \in [Guests -> Seq(Inputs)]
        BY <1>1 DEF LedgerInv, TypeOK
      <4> QED
        BY <2>2, <4>2, <4>3, <4>4
    <3> QED
      BY <1>1, <3>1, <3>2, StepsOfTheLedger DEF HostExtends
  \* Both sequences run along Player 1's, of which nothing changes.
  <2>5. ASSUME NEW g \in Guests, NEW i \in 1 .. Len(chain[g]) PROVE chain[g][i] = chain'[g][i]
    <3>1. chain[g][i] = hostChain[i] /\ i \in 1 .. Len(hostChain)
      BY <1>1, <2>1, <2>2 DEF LedgerInv, Chains, NextFrame
    <3>2. i \in 1 .. Len(chain'[g])
      BY <2>2, <2>4
    <3>3. chain'[g][i] = hostChain'[i]
      BY <1>1, <3>2 DEF LedgerInv, Chains
    <3> QED
      BY <2>3, <3>1, <3>3
  <2> QED
    BY <2>1, <2>2, <2>3, <2>4, <2>5, PrefixOf
<1> QED
  BY <1>1, LedgerInvariant, PTL DEF Spec, FramesStay

-----------------------------------------------------------------------------
(* The refinement. *)

(* The detailed ledger implements CommitLedger: Player 1 only ever adds a  *)
(* frame at the end, and the others only ever move forward along it.       *)
THEOREM LedgerRefines == Spec => ImplementsLedger
<1>1. Init => Ledger!LedgerInit
  BY DEF Init, Ledger!LedgerInit
<1>2. ASSUME LedgerInv, LedgerInv', [Next]_vars
      PROVE  [Ledger!LedgerNext]_(Ledger!ledgerVars)
  <2>1. CASE UNCHANGED <<hostChain, chain>>
    BY <2>1 DEF Ledger!ledgerVars
  <2>2. CASE HostExtends
    BY <2>2 DEF HostExtends, Ledger!LedgerNext, Ledger!Extend
  <2>3. ASSUME NEW g \in Guests, NEW c \in held[g], Plays(g, c)
        PROVE  Ledger!LedgerNext
    <3> DEFINE pos == [k \in Guests |-> Len(chain[k])]
    <3>1. c \in Commit /\ c \in sent
      BY <1>2 DEF LedgerInv, TypeOK, Chains
    <3>2. FrameOf(c) \in Nat /\ Len(HashOf(c)) = FrameOf(c) + 1 /\ FrameOf(c) < Len(hostChain)
      BY <1>2, <3>1, CommitFacts DEF LedgerInv, Chains, NextFrame
    <3>3. chain \in [Guests -> Seq(Inputs)] /\ hostChain \in Seq(Inputs)
      BY <1>2 DEF LedgerInv, TypeOK
    <3>4. [k \in Guests |-> Len(chain'[k])] = [pos EXCEPT ![g] = FrameOf(c) + 1]
      BY <2>3, <3>2, <3>3 DEF Plays
    <3>5. FrameOf(c) + 1 \in pos[g] + 1 .. Len(hostChain)
      BY <2>3, <3>2, <3>3 DEF Plays
    <3> QED
      BY <2>3, <3>4, <3>5 DEF Plays, Ledger!LedgerNext, Ledger!Advance
  <2> QED
    BY <1>2, <2>1, <2>2, <2>3, StepsOfTheLedger
<1> QED
  BY <1>1, <1>2, LedgerInvariant, PTL DEF Spec, ImplementsLedger, Ledger!LedgerSpec

-----------------------------------------------------------------------------
(* What the published controls are made of.                                *)

InputInv ==
  /\ TimelineSampled /\ CommittedAsSampled
  /\ PredictionBounded
  /\ SamplesRetained /\ AcceptedInReach

(* Two frames that are looked at together lie less than the ring apart.    *)
LEMMA ReachDistance ==
  ASSUME NEW n \in Nat, NEW a \in Nat, NEW b \in Nat,
         n - Past <= a, a <= n + Future, n - Past <= b, b <= n + Future
  PROVE  a - b < Ring /\ b - a < Ring
<1>1. /\ Past \in Nat /\ Future \in Nat /\ Ring \in Nat
      /\ Ring >= Past + Future + 1
  BY LedgerConstants
<1> QED
  BY ONLY n \in Nat, a \in Nat, b \in Nat, <1>1,
          n - Past <= a, a <= n + Future, n - Past <= b, b <= n + Future

(* Frames less than the ring apart have entries of their own. *)
LEMMA RingDistinct ==
  ASSUME NEW a \in Nat, NEW b \in Nat, a # b, a - b < Ring, b - a < Ring
  PROVE  a % Ring # b % Ring
<1> DEFINE p == a \div Ring
           q == b \div Ring
<1>0. Ring \in Nat \ {0}
  BY LedgerConstants
<1>1. a = Ring * p + (a % Ring) /\ p \in Int /\ a % Ring \in Int
  BY <1>0
<1>2. b = Ring * q + (b % Ring) /\ q \in Int /\ b % Ring \in Int
  BY <1>0
<1>3. SUFFICES ASSUME a % Ring = b % Ring PROVE FALSE
  OBVIOUS
<1> HIDE DEF p, q
<1>4. Ring * p - Ring * q = a - b /\ Ring * p \in Int /\ Ring * q \in Int
  BY <1>0, <1>1, <1>2, <1>3
<1>5. p # q
  BY <1>4
<1>6. CASE p > q
  <2>1. p - q - 1 \in Nat
    BY <1>1, <1>2, <1>6
  <2>2. Ring * (p - q - 1) \in Nat
    BY <1>0, <2>1
  <2>3. Ring * p - Ring * q = Ring * (p - q - 1) + Ring
    BY <1>0, <1>1, <1>2
  <2> QED
    BY <1>0, <1>4, <2>2, <2>3
<1>7. CASE q > p
  <2>1. q - p - 1 \in Nat
    BY <1>1, <1>2, <1>7
  <2>2. Ring * (q - p - 1) \in Nat
    BY <1>0, <2>1
  <2>3. Ring * q - Ring * p = Ring * (q - p - 1) + Ring
    BY <1>0, <1>1, <1>2
  <2> QED
    BY <1>0, <1>4, <2>2, <2>3
<1> QED
  BY <1>1, <1>2, <1>5, <1>6, <1>7

LEMMA SampledStays ==
  ASSUME NEW ss, NEW tt, ss \subseteq tt, NEW g, NEW f, NEW pad, SampledFor(ss, g, f, pad)
  PROVE  SampledFor(tt, g, f, pad)
  BY DEF SampledFor

(* Samples are only added, and most steps change nothing else of this.     *)
LEMMA InputsRest ==
  ASSUME InputInv, samples \subseteq samples',
         UNCHANGED <<mode, timeline, hostChain, accepted, firstMissing, sent>>
  PROVE  InputInv'
<1>1. TimelineSampled'
  BY SampledStays DEF InputInv, TimelineSampled
<1>2. CommittedAsSampled'
  BY SampledStays DEF InputInv, CommittedAsSampled, FrameOf
<1>3. PredictionBounded'
  BY DEF InputInv, PredictionBounded, NextFrame
<1>4. SamplesRetained'
  BY DEF InputInv, SamplesRetained, InReach, NextFrame, SlotConfirmed, Holds
<1>5. AcceptedInReach'
  BY DEF InputInv, AcceptedInReach, NextFrame
<1> QED
  BY <1>1, <1>2, <1>3, <1>4, <1>5 DEF InputInv

(* What Player 1 makes of one sample. *)
SetsRemote(new, tl, g, f, pad, e) ==
  /\ tl \in [0 .. Ring - 1 -> Entry] /\ g \in Guests /\ f \in Frames /\ pad \in Pads
  /\ new = SetRemote(tl, g, f, pad) /\ e = EntryOf(tl, f)

LEMMA SetRemoteFacts ==
  ASSUME NEW new, NEW tl, NEW g, NEW f, NEW pad, NEW e, SetsRemote(new, tl, g, f, pad, e)
  PROVE  /\ new[f % Ring].frame = f
         /\ new[f % Ring].present = e.present \cup {g}
         /\ new[f % Ring].predicted = e.predicted \ {g}
         /\ new[f % Ring].input[g] = pad
         /\ \A h \in Guests \ {g} : new[f % Ring].input[h] = e.input[h]
         /\ \A i \in (0 .. Ring - 1) \ {f % Ring} : new[i] = tl[i]
<1> DEFINE n == [e EXCEPT !.input[g] = pad, !.present = @ \cup {g}, !.predicted = @ \ {g}]
<1>0. /\ tl \in [0 .. Ring - 1 -> Entry] /\ g \in Guests /\ f \in Frames /\ pad \in Pads
      /\ new = SetRemote(tl, g, f, pad) /\ e = EntryOf(tl, f)
  BY DEF SetsRemote
<1>1. e \in Entry /\ e.frame = f
  BY <1>0, EntryType
<1>2. new = [tl EXCEPT ![f % Ring] = n]
  BY <1>0 DEF SetRemote
<1>3. f % Ring \in 0 .. Ring - 1
  BY <1>0, RingIndex DEF Frames
<1>4. /\ n.frame = f /\ n.present = e.present \cup {g} /\ n.predicted = e.predicted \ {g}
      /\ n.input[g] = pad /\ \A h \in Guests \ {g} : n.input[h] = e.input[h]
  BY <1>0, <1>1 DEF Entry, Inputs
<1> HIDE DEF n
<1> QED
  BY <1>0, <1>2, <1>3, <1>4

LEMMA HandleInputSamples ==
  ASSUME LedgerInv, InputInv, NEW s \in samples, HandleInput(s)
  PROVE  InputInv'
<1> DEFINE x == s.slot
           f == s.frame
           e == EntryOf(timeline, f)
<1>1. /\ x \in Guests /\ f \in Frames /\ s.rev \in Nat \ {0} /\ s.input \in Pads
      /\ s = [slot |-> x, frame |-> f, rev |-> s.rev, input |-> s.input]
  <2>1. s \in [slot : Guests, frame : Frames, rev : Nat \ {0}, input : Pads]
    BY DEF LedgerInv, TypeOK, Sample
  <2> QED
    BY <2>1
<1>2. /\ timeline \in [0 .. Ring - 1 -> Entry] /\ f \in Nat /\ f % Ring \in 0 .. Ring - 1
      /\ accepted \in [Guests -> [Frames -> Nat]] /\ firstMissing \in [Guests -> Nat]
      /\ NextFrame \in Nat
  <2>1. f \in Nat
    BY <1>1, LedgerConstants DEF Frames
  <2>2. hostChain \in Seq(Inputs)
    BY DEF LedgerInv, TypeOK
  <2>3. NextFrame \in Nat
    BY <2>2 DEF NextFrame
  <2>4. f % Ring \in 0 .. Ring - 1
    <3> HIDE DEF f
    <3>1. f \in Int
      BY <2>1
    <3> QED
      BY <3>1, RingIndex
  <2> QED
    BY <2>1, <2>3, <2>4 DEF LedgerInv, TypeOK
<1>3. /\ timeline' = SetRemote(timeline, x, f, s.input)
      /\ InReach(f)
      /\ UNCHANGED <<mode, hostChain, samples, sent>> /\ NextFrame' = NextFrame
  BY DEF HandleInput, netVars, NextFrame
<1>4. /\ timeline'[f % Ring].frame = f
      /\ timeline'[f % Ring].present = e.present \cup {x}
      /\ timeline'[f % Ring].predicted = e.predicted \ {x}
      /\ timeline'[f % Ring].input[x] = s.input
      /\ \A h \in Guests \ {x} : timeline'[f % Ring].input[h] = e.input[h]
      /\ \A i \in (0 .. Ring - 1) \ {f % Ring} : timeline'[i] = timeline[i]
  <2>1. SetsRemote(timeline', timeline, x, f, s.input, e)
    BY <1>1, <1>2, <1>3 DEF SetsRemote
  <2> HIDE DEF e, x, f
  <2> QED
    BY <2>1, SetRemoteFacts
<1>5. /\ e \in Entry /\ e.frame = f
      /\ e = timeline[f % Ring] \/ (e = EmptyEntry(f) /\ timeline[f % Ring].frame # f)
  BY <1>1, <1>2, EntryType DEF EntryOf, Holds
<1> HIDE DEF e
<1>6. TimelineSampled'
  <2> SUFFICES ASSUME NEW i \in 0 .. Ring - 1,
                      NEW h \in timeline'[i].present \ timeline'[i].predicted
               PROVE  SampledFor(samples, h, timeline'[i].frame, timeline'[i].input[h])
    BY <1>3 DEF TimelineSampled
  <2>1. CASE i # f % Ring
    BY <1>4, <2>1 DEF InputInv, TimelineSampled
  <2>2. CASE i = f % Ring /\ h = x
    BY <1>4, <2>2 DEF SampledFor
  <2>3. CASE i = f % Ring /\ h # x
    <3>1. h \in e.present \ e.predicted /\ h \in Guests
      BY <1>4, <1>5, <2>3 DEF Entry
    <3>2. e = timeline[f % Ring]
      BY <1>5, <3>1 DEF EmptyEntry
    <3>3. SampledFor(samples, h, e.frame, e.input[h])
      BY <1>2, <3>1, <3>2 DEF InputInv, TimelineSampled
    <3> QED
      BY <1>4, <1>5, <2>3, <3>1, <3>3
  <2> QED
    BY <2>1, <2>2, <2>3
<1>7. CommittedAsSampled'
  BY <1>3 DEF InputInv, CommittedAsSampled, FrameOf
<1>8. PredictionBounded'
  <2>1. \A g \in Guests : firstMissing'[g] \in Nat /\ firstMissing'[g] >= firstMissing[g]
    BY <1>1, <1>2, AdvanceMissingGrows DEF HandleInput
  <2>2. Window \in Nat
    BY LedgerConstants
  <2> QED
    BY <1>2, <1>3, <2>1, <2>2 DEF InputInv, PredictionBounded
<1>9. \A g \in Guests, y \in Frames : accepted'[g][y] > 0 =>
         \/ g = x /\ y = f /\ accepted'[g][y] = s.rev
         \/ accepted'[g][y] = accepted[g][y] /\ (g # x \/ y # f)
  BY <1>1, <1>2 DEF HandleInput
<1>10. SamplesRetained'
  <2> SUFFICES ASSUME NEW g \in Guests, NEW y \in Frames, accepted'[g][y] > 0, InReach(y)
               PROVE  /\ SlotConfirmed(timeline', g, y)
                      /\ [slot |-> g, frame |-> y, rev |-> accepted'[g][y],
                          input |-> timeline'[y % Ring].input[g]] \in samples
    BY <1>3 DEF SamplesRetained, SlotConfirmed, Holds, InReach
  <2>1. CASE g = x /\ y = f /\ accepted'[g][y] = s.rev
    BY <1>1, <1>4, <2>1 DEF SlotConfirmed, Holds
  <2>2. CASE accepted'[g][y] = accepted[g][y] /\ (g # x \/ y # f)
    <3>1. /\ SlotConfirmed(timeline, g, y)
          /\ [slot |-> g, frame |-> y, rev |-> accepted[g][y],
              input |-> timeline[y % Ring].input[g]] \in samples
      BY <2>2 DEF InputInv, SamplesRetained
    <3>2. CASE y = f
      <4>1. e = timeline[f % Ring] /\ g # x
        BY <1>5, <2>2, <3>1, <3>2 DEF SlotConfirmed, Holds
      <4> QED
        BY <1>4, <2>2, <3>1, <3>2, <4>1 DEF SlotConfirmed, Holds
    <3>3. CASE y # f
      <4>1. y \in Nat /\ y - f < Ring /\ f - y < Ring
        <5>1. y \in Nat
          BY LedgerConstants DEF Frames
        <5>2. /\ NextFrame - Past <= f /\ f <= NextFrame + Future
              /\ NextFrame - Past <= y /\ y <= NextFrame + Future
          BY <1>3 DEF InReach
        <5>3. NextFrame \in Nat /\ f \in Nat
          BY <1>2
        <5> HIDE DEF f, NextFrame
        <5> QED
          BY <5>1, <5>2, <5>3, ReachDistance
      <4>2. y % Ring # f % Ring /\ y % Ring \in 0 .. Ring - 1
        <5>1. y \in Nat /\ f \in Nat /\ y # f /\ y - f < Ring /\ f - y < Ring
          BY <1>2, <3>3, <4>1
        <5>2. y % Ring \in 0 .. Ring - 1
          BY <5>1, RingIndex
        <5> HIDE DEF f
        <5>3. y % Ring # f % Ring
          BY <5>1, RingDistinct
        <5> QED
          BY <5>2, <5>3
      <4>3. timeline'[y % Ring] = timeline[y % Ring]
        BY <1>4, <4>2
      <4> QED
        BY <2>2, <3>1, <4>3 DEF SlotConfirmed, Holds
    <3> QED
      BY <3>2, <3>3
  <2> QED
    BY <1>9, <2>1, <2>2
<1>11. AcceptedInReach'
  BY <1>2, <1>3, <1>9 DEF InputInv, AcceptedInReach, InReach
<1> QED
  BY <1>6, <1>7, <1>8, <1>10, <1>11 DEF InputInv

(* What Player 1 publishes for one frame. *)
Publishes(p, tl, f, e) ==
  /\ tl \in [0 .. Ring - 1 -> Entry] /\ f \in Frames
  /\ p = InputsFor(tl, f) /\ e = EntryOf(tl, f)

LEMMA InputsForFacts ==
  ASSUME NEW p, NEW tl, NEW f, NEW e, Publishes(p, tl, f, e)
  PROVE  /\ p.frame = f /\ p.present = e.present
         /\ p.predicted = e.predicted \cup (Guests \ e.present)
         /\ \A g \in e.present : p.input[g] = e.input[g]
         /\ e \in Entry /\ e.frame = f
         /\ e = tl[f % Ring] \/ (e.present = {} /\ tl[f % Ring].frame # f)
<1> DEFINE input == [g \in Guests |-> IF g \in Guests \ e.present
                                      THEN Previous(tl, g, f) ELSE e.input[g]]
<1>1. /\ tl \in [0 .. Ring - 1 -> Entry] /\ f \in Frames
      /\ p = InputsFor(tl, f) /\ e = EntryOf(tl, f)
  BY DEF Publishes
<1>2. e \in Entry /\ e.frame = f
  BY <1>1, EntryType
<1>3. p = [e EXCEPT !.input = input, !.predicted = e.predicted \cup (Guests \ e.present)]
  BY <1>1 DEF InputsFor
<1>4. \A g \in e.present : input[g] = e.input[g]
  BY <1>2 DEF Entry
<1> HIDE DEF input
<1>5. /\ p.frame = f /\ p.present = e.present
      /\ p.predicted = e.predicted \cup (Guests \ e.present)
      /\ p.input = input
  BY <1>2, <1>3 DEF Entry
<1>6. e = tl[f % Ring] \/ (e.present = {} /\ tl[f % Ring].frame # f)
  BY <1>1 DEF EntryOf, Holds, EmptyEntry
<1> QED
  BY <1>2, <1>4, <1>5, <1>6

LEMMA HostCommitsSamples ==
  ASSUME LedgerInv, InputInv, HostCommits
  PROVE  InputInv'
<1> DEFINE n == NextFrame
           e == EntryOf(timeline, n)
           p == InputsFor(timeline, n)
<1>1. /\ timeline \in [0 .. Ring - 1 -> Entry] /\ hostChain \in Seq(Inputs)
      /\ accepted \in [Guests -> [Frames -> Nat]] /\ firstMissing \in [Guests -> Nat]
  BY DEF LedgerInv, TypeOK
<1>2. n \in Nat /\ n \in Frames /\ n % Ring \in 0 .. Ring - 1
  <2>1. n \in Nat
    BY <1>1 DEF NextFrame
  <2>2. n <= MaxFrame
    BY DEF HostCommits
  <2> HIDE DEF n
  <2>3. n \in Frames
    BY <2>1, <2>2, LedgerConstants DEF Frames
  <2> QED
    BY <2>1, <2>3, RingIndex
<1>3. /\ timeline' = [timeline EXCEPT ![n % Ring] = p]
      /\ hostChain' = Append(hostChain, p.input)
      /\ sent' = sent \cup {[prev |-> hostChain, inputs |-> p.input, predicted |-> p.predicted]}
      /\ UNCHANGED <<mode, accepted, firstMissing, samples>>
      /\ ~AwaitingInput
  BY DEF HostCommits, HostUnchanged, MakeCommit, HashOf
<1>4. Publishes(p, timeline, n, e)
  BY <1>1, <1>2 DEF Publishes
<1> HIDE DEF e, p
<1>5. /\ p.frame = n /\ p.present = e.present
      /\ p.predicted = e.predicted \cup (Guests \ e.present)
      /\ \A g \in e.present : p.input[g] = e.input[g]
      /\ e \in Entry /\ e.frame = n
      /\ e = timeline[n % Ring] \/ (e.present = {} /\ timeline[n % Ring].frame # n)
  <2> HIDE DEF n
  <2> QED
    BY <1>4, InputsForFacts
<1>6. NextFrame' = n + 1
  <2>1. Len(Append(hostChain, p.input)) = Len(hostChain) + 1
    BY <1>1
  <2> QED
    BY <1>3, <2>1 DEF NextFrame
<1>7. timeline'[n % Ring] = p
      /\ \A i \in (0 .. Ring - 1) \ {n % Ring} : timeline'[i] = timeline[i]
  BY <1>1, <1>2, <1>3
<1>8. ASSUME NEW h \in e.present \ e.predicted
      PROVE  SampledFor(samples, h, n, p.input[h])
  <2>1. e = timeline[n % Ring]
    BY <1>5
  <2>2. SampledFor(samples, h, e.frame, e.input[h])
    BY <1>2, <2>1 DEF InputInv, TimelineSampled
  <2> QED
    BY <1>5, <2>2
<1>9. TimelineSampled'
  <2> SUFFICES ASSUME NEW i \in 0 .. Ring - 1,
                      NEW h \in timeline'[i].present \ timeline'[i].predicted
               PROVE  SampledFor(samples, h, timeline'[i].frame, timeline'[i].input[h])
    BY <1>3 DEF TimelineSampled
  <2>1. CASE i # n % Ring
    BY <1>7, <2>1 DEF InputInv, TimelineSampled
  <2>2. CASE i = n % Ring
    BY <1>5, <1>7, <1>8, <2>2
  <2> QED
    BY <2>1, <2>2
<1>10. CommittedAsSampled'
  <2> SUFFICES ASSUME NEW c \in sent', NEW g \in Guests \ c.predicted
               PROVE  SampledFor(samples, g, FrameOf(c), c.inputs[g])
    BY <1>3 DEF CommittedAsSampled, FrameOf
  <2>1. CASE c \in sent
    BY <2>1 DEF InputInv, CommittedAsSampled
  <2>2. CASE c = [prev |-> hostChain, inputs |-> p.input, predicted |-> p.predicted]
    <3>1. FrameOf(c) = n /\ c.inputs[g] = p.input[g] /\ g \notin p.predicted
      BY <2>2 DEF FrameOf, NextFrame
    <3>2. g \in e.present \ e.predicted
      BY <1>5, <3>1
    <3> QED
      BY <1>8, <3>1, <3>2
  <2> QED
    BY <1>3, <2>1, <2>2
<1>11. PredictionBounded'
  <2>1. ASSUME mode = "Lockstep", NEW c \in sent' PROVE c.predicted = {}
    <3>1. CASE c \in sent
      BY <2>1, <3>1 DEF InputInv, PredictionBounded
    <3>2. CASE c = [prev |-> hostChain, inputs |-> p.input, predicted |-> p.predicted]
      <4>1. ConfirmedMask(timeline, n)
        BY <1>3, <2>1 DEF AwaitingInput, Predicts
      <4>2. \A g \in Guests : timeline[n % Ring].frame = n
                              /\ g \in timeline[n % Ring].present \ timeline[n % Ring].predicted
        BY <4>1 DEF ConfirmedMask, SlotConfirmed, Holds
      <4>3. e = timeline[n % Ring] /\ \A g \in Guests : g \in e.present \ e.predicted
        BY <1>5, <4>2, LedgerConstants
      <4>4. e.predicted \subseteq Guests
        BY <1>5 DEF Entry
      <4>5. p.predicted = {}
        BY <1>5, <4>3, <4>4
      <4> QED
        BY <3>2, <4>5
    <3> QED
      BY <1>3, <3>1, <3>2
  <2>2. ASSUME mode = "Rollback", NEW g \in Guests
        PROVE  NextFrame' <= firstMissing'[g] + Window
    <3>1. ~(n - firstMissing[g] >= Window)
      BY <1>3, <2>2 DEF AwaitingInput
    <3>2. firstMissing[g] \in Nat /\ Window \in Nat
      BY <1>1, LedgerConstants
    <3> HIDE DEF n
    <3> QED
      BY <1>2, <1>3, <1>6, <3>1, <3>2
  <2> QED
    BY <1>3, <2>1, <2>2 DEF PredictionBounded
<1>12. SamplesRetained'
  <2> SUFFICES ASSUME NEW g \in Guests, NEW y \in Frames, accepted[g][y] > 0,
                      (n + 1) - Past <= y
               PROVE  /\ SlotConfirmed(timeline', g, y)
                      /\ [slot |-> g, frame |-> y, rev |-> accepted[g][y],
                          input |-> timeline'[y % Ring].input[g]] \in samples
    <3>1. ASSUME NEW y, InReach(y)' PROVE (n + 1) - Past <= y
      <4>1. NextFrame' - Past <= y
        BY <3>1 DEF InReach
      <4> HIDE DEF n
      <4> QED
        BY <1>6, <4>1
    <3> QED
      BY <1>3, <3>1 DEF SamplesRetained, SlotConfirmed, Holds
  <2>1. y \in Nat /\ y <= n + Future /\ Past \in Nat /\ Future \in Nat /\ Ring \in Nat
        /\ Ring >= Past + Future + 1
    BY LedgerConstants DEF Frames, InputInv, AcceptedInReach
  <2>2. InReach(y) /\ y - n < Ring /\ n - y < Ring
    <3>1. n - Past <= y /\ y - n < Ring /\ n - y < Ring
      <4> HIDE DEF n
      <4> QED
        BY <1>2, <2>1
    <3> QED
      BY <2>1, <3>1 DEF InReach
  <2>3. /\ SlotConfirmed(timeline, g, y)
        /\ [slot |-> g, frame |-> y, rev |-> accepted[g][y],
            input |-> timeline[y % Ring].input[g]] \in samples
    BY <2>2 DEF InputInv, SamplesRetained
  <2> HIDE DEF n
  <2>4. CASE y = n
    <3>1. e = timeline[n % Ring] /\ g \in e.present \ e.predicted
      BY <1>5, <2>3, <2>4 DEF SlotConfirmed, Holds
    <3>2. p.input[g] = timeline[n % Ring].input[g] /\ g \in p.present \ p.predicted
      BY <1>5, <3>1
    <3> QED
      BY <1>5, <1>7, <2>3, <2>4, <3>2 DEF SlotConfirmed, Holds
  <2>5. CASE y # n
    <3>1. y % Ring # n % Ring /\ y % Ring \in 0 .. Ring - 1
      <4>1. y \in Nat /\ n \in Nat /\ y # n /\ y - n < Ring /\ n - y < Ring
        BY <1>2, <2>1, <2>2, <2>5
      <4>2. y % Ring \in 0 .. Ring - 1
        BY <4>1, RingIndex
      <4>3. y % Ring # n % Ring
        BY <4>1, RingDistinct
      <4> QED
        BY <4>2, <4>3
    <3>2. timeline'[y % Ring] = timeline[y % Ring]
      BY <1>7, <3>1
    <3> QED
      BY <2>3, <3>2 DEF SlotConfirmed, Holds
  <2> QED
    BY <2>4, <2>5
<1>13. AcceptedInReach'
  <2>1. ASSUME NEW g \in Guests, NEW y \in Frames, accepted[g][y] > 0
        PROVE  y <= n + 1 + Future
    <3>1. y <= n + Future /\ y \in Nat /\ Future \in Nat
      BY <2>1, LedgerConstants DEF InputInv, AcceptedInReach, Frames
    <3> HIDE DEF n
    <3> QED
      BY <1>2, <3>1
  <2> QED
    BY <1>3, <1>6, <2>1 DEF AcceptedInReach
<1> QED
  BY <1>9, <1>10, <1>11, <1>12, <1>13 DEF InputInv

LEMMA InputStarts == Init => InputInv
<1> SUFFICES ASSUME Init PROVE InputInv
  OBVIOUS
<1>1. TimelineSampled
  <2> SUFFICES ASSUME NEW i \in 0 .. Ring - 1,
                      NEW g \in timeline[i].present \ timeline[i].predicted
               PROVE  SampledFor(samples, g, timeline[i].frame, timeline[i].input[g])
    BY DEF TimelineSampled
  <2>1. CASE i < Delay
    <3>1. timeline[i] = [EmptyEntry(i) EXCEPT !.present = Guests]
      BY <2>1 DEF Init
    <3> QED
      BY <2>1, <3>1 DEF EmptyEntry, SampledFor
  <2>2. CASE ~(i < Delay)
    BY <2>2 DEF Init, EmptyEntry
  <2> QED
    BY <2>1, <2>2
<1>2. CommittedAsSampled /\ AcceptedInReach /\ SamplesRetained
  BY DEF Init, CommittedAsSampled, AcceptedInReach, SamplesRetained
<1>3. PredictionBounded
  <2>1. NextFrame = 0
    BY DEF Init, NextFrame
  <2> QED
    BY <2>1, LedgerConstants DEF Init, PredictionBounded
<1> QED
  BY <1>1, <1>2, <1>3 DEF InputInv

LEMMA InputStep == LedgerInv /\ InputInv /\ [Next]_vars => InputInv'
<1> SUFFICES ASSUME LedgerInv, InputInv, [Next]_vars PROVE InputInv'
  OBVIOUS
<1>1. ASSUME NEW g \in Guests, GuestStep(g) PROVE InputInv'
  <2>1. samples \subseteq samples' /\ UNCHANGED <<mode, hostVars, sent>>
    BY <1>1 DEF GuestStep, GuestSynchronize, Submit, HandleFrameCommit,
                HandleInputRepairRequest, InstallFastForward, netVars
  <2> QED
    BY <2>1, InputsRest DEF hostVars
<1>2. CASE HostStep
  <2>1. ASSUME NEW g \in Guests, NEW f \in 0 .. MaxFrame, HandleProgress(g, f)
        PROVE  InputInv'
    BY <2>1, InputsRest DEF HandleProgress, netVars
  <2>2. CASE HostHolds \/ HostAsks
    BY <2>2, InputsRest DEF HostHolds, HostAsks, HostUnchanged
  <2>3. ASSUME NEW g \in Guests, HandleAgedRequest(g) PROVE InputInv'
    BY <2>3, InputsRest DEF HandleAgedRequest, netVars
  <2> QED
    BY <1>2, <2>1, <2>2, <2>3, HandleInputSamples, HostCommitsSamples DEF HostStep
<1>3. CASE UNCHANGED vars
  BY <1>3, InputsRest DEF vars, hostVars, netVars
<1> QED
  BY <1>1, <1>2, <1>3 DEF Next

LEMMA InputInvariant == Spec => []InputInv
  BY LedgerInvariant, InputStarts, InputStep, PTL DEF Spec

(* What make_frame_commit_locked publishes as a guest's own control was    *)
(* sampled by that guest for that frame, however samples are revised, late *)
(* or repeated and whatever entries of the ring are reused.                *)
THEOREM LedgerGenuine == Spec => []CommittedAsSampled
<1>1. InputInv => CommittedAsSampled
  BY DEF InputInv
<1> QED
  BY <1>1, InputInvariant, PTL

(* Lockstep publishes no prediction, and a race with rollback predicts at  *)
(* most rollback_window frames past the first missing sample of a guest    *)
(* (awaiting_commit of synchronize_inputs_result).                         *)
THEOREM LedgerPredicts == Spec => []PredictionBounded
<1>1. InputInv => PredictionBounded
  BY DEF InputInv
<1> QED
  BY <1>1, InputInvariant, PTL

(* InputTimeline keeps the newest revision of every accepted sample while  *)
(* its frame can still be looked at: the ring is large enough that a       *)
(* sample in reach evicts no other in reach.                               *)
THEOREM LedgerRetains == Spec => []SamplesRetained
<1>1. InputInv => SamplesRetained
  BY DEF InputInv
<1> QED
  BY <1>1, InputInvariant, PTL

=============================================================================
