---------------------------- MODULE FrameLedger -----------------------------
(***************************************************************************)
(* The authoritative frame ledger of DirectSession within one input epoch: *)
(* guests sample their pads some frames ahead, Player 1 turns what arrived *)
(* into one commit per frame, and every machine plays the commits.         *)
(*                                                                         *)
(* The network loses, repeats and reorders.  A packet of several samples   *)
(* or commits is delivered as several of one each, because the handlers    *)
(* take them one at a time; what was sent may arrive late, repeatedly or   *)
(* never.  A commit hash is modelled by the frames it stands for, so two   *)
(* hashes are equal exactly when the histories are.  Player 1's own pad is *)
(* left out: it is in the ledger before its frame is asked for.  Frame     *)
(* numbers count from the first frame of the epoch.                        *)
(***************************************************************************)
EXTENDS Integers, Sequences, FiniteSets, SequencesExt

CONSTANTS
  Host, Guests,
  Pads, Neutral,      \* pad samples; the pad nobody touches
  Modes,              \* the timelines examined
  Delay,              \* input_delay_
  Window,             \* rollback_window
  Lead,               \* host_authority_lead_limit
  HistoryCapacity,    \* kCommitHistoryCapacity
  TargetDebt,         \* rollback_replica_target_debt
  MinimumSkip,        \* kMinimumReplicaFastForwardFrames
  Ring,               \* entries of the input timeline
  Past, Future,       \* how far from the next commit a sample is looked at
  MaxFrame,           \* bound: the frames Player 1 plays
  MaxRevision         \* bound: revisions of a sample

ASSUME LedgerConstants ==
  /\ Host \notin Guests /\ Guests # {} /\ IsFiniteSet(Guests)
  /\ Neutral \in Pads
  /\ Modes \subseteq {"Frontend", "Lockstep", "Rollback"}
  /\ Delay \in Nat \ {0} /\ Window \in Nat \ {0} /\ Lead \in Nat \ {0, 1}
  /\ HistoryCapacity \in Nat /\ HistoryCapacity >= Lead
  /\ TargetDebt \in Nat /\ MinimumSkip \in Nat \ {0}
  /\ Past \in Nat /\ Future \in Nat /\ Future >= Delay /\ Past >= Window
  /\ Ring \in Nat /\ Ring >= Past + Future + 1
  /\ MaxFrame \in Nat /\ MaxRevision \in Nat \ {0}

VARIABLES
  mode,         \* the timeline this epoch runs on
  failed,       \* the machines whose session has failed
  \* Player 1
  timeline,     \* entries of InputTimeline, by index
  hostChain,    \* the frames committed; its length is next_commit_frame_
  history,      \* commit_history_
  accepted,     \* received_input_revisions_, 0 for none
  firstMissing, \* peer_input_first_missing_frame_
  heard,        \* simulation_progress_present_
  completed,    \* simulation_completed_frame_
  holding,      \* host_backpressure_active_
  recovery,     \* schedule_recovery_locked was called
  \* the guests
  chain,        \* the frames played: last_consumed_commit_hash_
  held,         \* frame_commits_
  newest,       \* authoritative_input_frame_
  timed,        \* the guests with authoritative_inputs_valid_
  local,        \* local_history_ with the revisions of local_input_metadata_
  submitted,    \* local_input_submitted_frame_ and local_input_submitted_
  pending,      \* pending_local_submission_frame_, -1 for none
  \* packets under way
  samples,      \* Input and InputRepair
  sent,         \* FrameCommit
  asked         \* asked[g]: the newest InputRepairRequest, -1 for none

hostVars == <<timeline, hostChain, history, accepted, firstMissing, heard,
              completed, holding, recovery>>
guestVars == <<chain, held, newest, timed, local, submitted, pending>>
netVars == <<samples, sent, asked>>
vars == <<mode, failed, hostVars, guestVars, netVars>>

Machines == Guests \cup {Host}
Frames == 0 .. MaxFrame + 1
Inputs == [Guests -> Pads]
Running(m) == m \notin failed
NextFrame == Len(hostChain)               \* next_commit_frame_ of Player 1
FrameOf(commit) == Len(commit.prev)
HashOf(commit) == Append(commit.prev, commit.inputs)

Gameplay == mode # "Frontend"
Predicts == mode # "Lockstep"             \* host_may_predict_input

-----------------------------------------------------------------------------
(* InputTimeline: a ring of entries, one frame in each.                    *)

EmptyEntry(f) == [frame |-> f, input |-> [g \in Guests |-> Neutral],
                  present |-> {}, predicted |-> {}]

\* find: the entry of a frame if the ring still holds it.
Holds(tl, f) == tl[f % Ring].frame = f

\* Mutant: an entry is started anew whenever it is touched.
EntryAlwaysNew(tl, f) == EmptyEntry(f)

\* entry: the entry of a frame, made empty when another frame was there.
EntryOf(tl, f) == IF Holds(tl, f) THEN tl[f % Ring] ELSE EmptyEntry(f)

SetRemote(tl, g, f, pad) ==
  [tl EXCEPT ![f % Ring] =
     [EntryOf(tl, f) EXCEPT !.input[g] = pad, !.present = @ \cup {g},
                            !.predicted = @ \ {g}]]

SlotConfirmed(tl, g, f) ==
  Holds(tl, f) /\ g \in tl[f % Ring].present \ tl[f % Ring].predicted

ConfirmedMask(tl, f) == \A g \in Guests : SlotConfirmed(tl, g, f)

\* previous: the newest sample of a slot before a frame, hold-last.
Previous(tl, g, f) ==
  LET known == {d \in 1 .. Min({f, Ring}) :
                  Holds(tl, f - d) /\ g \in tl[(f - d) % Ring].present}
  IN IF known = {} THEN Neutral ELSE tl[(f - Min(known)) % Ring].input[g]

\* Mutant: a control that is guessed is not marked as a guess.
InputsForUnmarked(tl, f) ==
  LET e == EntryOf(tl, f)
  IN [e EXCEPT !.input = [g \in Guests |-> IF g \in e.present
                                           THEN @[g] ELSE Previous(tl, g, f)]]

\* inputs_for: what is missing is predicted, and marked so.
InputsFor(tl, f) ==
  LET e == EntryOf(tl, f)
      missing == Guests \ e.present
  IN [e EXCEPT !.input = [g \in Guests |-> IF g \in missing
                                           THEN Previous(tl, g, f) ELSE @[g]],
               !.predicted = @ \cup missing]

UnconfirmedRunway(tl, f) ==
  LET confirmed == {d \in 0 .. Min({f, Ring - 1}) : ConfirmedMask(tl, f - d)}
  IN IF confirmed = {} THEN Min({f + 1, Ring}) ELSE Min(confirmed)

-----------------------------------------------------------------------------
(* The guests: sampling ahead of Player 1's newest commit.                 *)

Target(g) ==
  LET own == Len(chain[g]) + Delay
  IN IF g \in timed THEN Max({own, newest[g] + 1 + Delay}) ELSE own

\* store_local_input_locked: a sample that is revised gets the next revision;
\* a sample of a frame that is committed is not taken from the pad any more.
Store(h, g, f, pad, physical) ==
  IF \/ physical /\ g \in timed /\ f <= newest[g]
     \/ h[f].rev > 0 /\ h[f].input = pad
  THEN h ELSE [h EXCEPT ![f] = [rev |-> h[f].rev + 1, input |-> pad]]

SamplesOf(g, h) == {[slot |-> g, frame |-> f, rev |-> h[f].rev, input |-> h[f].input] :
                      f \in {x \in DOMAIN h : h[x].rev > 0}}

\* The submission of synchronize_inputs_result: frames that were jumped over
\* hold the last pad, the target takes the new one.  (Samples beyond the bound on
\* frames are left out.)
Submit(g, pad) ==
  LET target == Target(g)
      h == local[g]
      gap == IF \A f \in Frames : h[f].rev = 0 THEN {}
             ELSE {f \in Frames : submitted[g].frame < f /\ f < target}
      filled == [f \in Frames |-> IF f \in gap
                   THEN Store(h, g, f, submitted[g].input, FALSE)[f] ELSE h[f]]
      stored == Store(filled, g, target, pad, TRUE)
  IN IF target \notin Frames \/ (pending[g] = target /\ submitted[g].input = pad)
     THEN UNCHANGED <<local, submitted, samples>>
     ELSE /\ stored[target].rev <= MaxRevision
          /\ local' = [local EXCEPT ![g] = stored]
          /\ submitted' = [submitted EXCEPT ![g] = [frame |-> target, input |-> pad]]
          /\ samples' = samples \cup SamplesOf(g, stored)

CommitAt(cs, f) == {c \in cs : FrameOf(c) = f}

\* The rest of the call: the commit of the frame is checked against the chain
\* and played, or it is asked for.
Consume(g) ==
  LET f == Len(chain[g])
      found == CommitAt(held[g], f)
      c == CHOOSE x \in found : TRUE
  IN \/ /\ found = {}
        /\ pending' = [pending EXCEPT ![g] = Target(g)]
        /\ UNCHANGED <<chain, newest, timed, failed>>
     \/ /\ found # {} /\ c.prev # chain[g]
        /\ failed' = failed \cup {g}
        /\ UNCHANGED <<chain, newest, timed, pending>>
     \/ /\ found # {} /\ c.prev = chain[g]
        /\ chain' = [chain EXCEPT ![g] = HashOf(c)]
        /\ newest' = [newest EXCEPT ![g] = Max({@, f})]
        /\ timed' = timed \cup {g}
        /\ pending' = [pending EXCEPT ![g] = -1]
        /\ UNCHANGED failed

\* synchronize_inputs_result on a guest, for the frame it is about to play.
GuestSynchronize(g, pad) ==
  /\ Running(g)
  /\ Len(chain[g]) <= MaxFrame
  /\ Submit(g, pad)
  /\ Consume(g)
  /\ UNCHANGED <<mode, hostVars, held, sent, asked>>

\* apply_frame_commit_locked.  Revisions never differ: nothing rebuilds a commit.
HandleFrameCommit(g, c) ==
  LET existing == CommitAt(held[g], FrameOf(c))
  IN /\ Running(g) /\ c \in sent /\ c \notin held[g]
     /\ IF existing # {}
        THEN failed' = failed \cup {g} /\ UNCHANGED <<held, newest>>
        ELSE /\ held' = [held EXCEPT ![g] = @ \cup {c}]
             /\ newest' = [newest EXCEPT ![g] = Max({@, FrameOf(c)})]
             /\ UNCHANGED failed
     /\ UNCHANGED <<mode, hostVars, chain, timed, local, submitted, pending, netVars>>

\* ensure_local_input_for_repair_locked: the frame Player 1 waits for gets the
\* pad that was last held if this machine has not come to it yet.
HandleInputRepairRequest(g) ==
  LET h == local[g]
      f == asked[g]
      earlier == {x \in Frames : x < f /\ h[x].rev > 0}
      pad == IF earlier = {} THEN submitted[g].input ELSE h[Max(earlier)].input
      stored == Store(h, g, f, pad, FALSE)
  IN /\ Running(g) /\ f \in Frames
     /\ h[f].rev = 0
     /\ local' = [local EXCEPT ![g] = stored]
     /\ samples' = samples \cup SamplesOf(g, stored)
     /\ IF f > submitted[g].frame
        THEN /\ submitted' = [submitted EXCEPT ![g] = [frame |-> f, input |-> pad]]
             /\ pending' = [pending EXCEPT ![g] = f]
        ELSE UNCHANGED <<submitted, pending>>
     /\ UNCHANGED <<mode, failed, hostVars, chain, held, newest, timed, sent, asked>>

\* Mutant: the boundary may lie behind the frame the guest has reached.
InstallFastForwardBack(g, next) ==
  /\ mode = "Rollback" /\ Running(g)
  /\ next \in 1 .. Len(chain[g])
  /\ chain' = [chain EXCEPT ![g] = SubSeq(@, 1, next)]
  /\ pending' = [pending EXCEPT ![g] = -1]
  /\ UNCHANGED <<mode, failed, hostVars, held, newest, timed, local, submitted, netVars>>

\* install_fast_forward: a guest far behind installs a state of Player 1 and
\* moves its cursor, once the chain of every skipped commit is complete.  The
\* states on offer lie in replica_fast_forward_window.
InstallFastForward(g, next) ==
  LET skipped == Len(chain[g]) .. next - 1
      commit(f) == CHOOSE c \in held[g] : FrameOf(c) = f
  IN /\ mode = "Rollback" /\ Running(g)
     /\ next \in Len(chain[g]) + MinimumSkip .. newest[g] - TargetDebt
     /\ \A f \in skipped : CommitAt(held[g], f) # {}
     /\ commit(Len(chain[g])).prev = chain[g]
     /\ \A f \in skipped \ {Len(chain[g])} : commit(f).prev = HashOf(commit(f - 1))
     /\ chain' = [chain EXCEPT ![g] = HashOf(commit(next - 1))]
     /\ pending' = [pending EXCEPT ![g] = -1]
     /\ UNCHANGED <<mode, failed, hostVars, held, newest, timed, local, submitted, netVars>>

-----------------------------------------------------------------------------
(* Player 1.                                                               *)

InReach(f) == NextFrame - Past <= f /\ f <= NextFrame + Future

AdvanceMissing(tl, g) ==
  LET confirmed(n) == \A f \in firstMissing[g] .. n - 1 : SlotConfirmed(tl, g, f)
  IN Max({n \in firstMissing[g] .. firstMissing[g] + Ring : confirmed(n)})

\* Mutant: a late sample still finds its way into the frame that was published.
HandleInputRewrites(s) ==
  /\ Running(Host) /\ s \in samples
  /\ InReach(s.frame) /\ s.rev > accepted[s.slot][s.frame]
  /\ timeline' = SetRemote(timeline, s.slot, s.frame, s.input)
  /\ accepted' = [accepted EXCEPT ![s.slot][s.frame] = s.rev]
  /\ firstMissing' = [firstMissing EXCEPT ![s.slot] = AdvanceMissing(timeline', s.slot)]
  /\ hostChain' = IF s.frame < NextFrame
                  THEN [hostChain EXCEPT ![s.frame + 1][s.slot] = s.input] ELSE hostChain
  /\ UNCHANGED <<mode, failed, history, heard, completed, holding,
                 recovery, guestVars, netVars>>

\* Input and InputRepair: only a newer revision within reach is taken.  A frame
\* that is committed stays as it is, the sample serves later predictions.
HandleInput(s) ==
  /\ Running(Host) /\ s \in samples
  /\ InReach(s.frame)
  /\ s.rev > accepted[s.slot][s.frame]
  /\ timeline' = SetRemote(timeline, s.slot, s.frame, s.input)
  /\ accepted' = [accepted EXCEPT ![s.slot] =
                    [f \in Frames |-> IF f = s.frame THEN s.rev
                                      ELSE IF f < NextFrame - Past THEN 0 ELSE @[f]]]
  /\ firstMissing' = [firstMissing EXCEPT ![s.slot] = AdvanceMissing(timeline', s.slot)]
  /\ UNCHANGED <<mode, failed, hostChain, history, heard, completed, holding,
                 recovery, guestVars, netVars>>

\* record_simulation_progress_locked: a guest reports a frame it has completed.
HandleProgress(g, f) ==
  /\ Running(Host)
  /\ f \in 0 .. Len(chain[g]) - 1 /\ f < NextFrame
  /\ g \in heard => f > completed[g]
  /\ heard' = heard \cup {g}
  /\ completed' = [completed EXCEPT ![g] = f]
  /\ UNCHANGED <<mode, failed, timeline, hostChain, history, accepted, firstMissing,
                 holding, recovery, guestVars, netVars>>

\* Mutant: the hold is released only when nobody is behind at all.
ReleaseAtZero == 0

Release == IF Lead > 3 THEN Lead - 3 ELSE Lead - 1   \* host_backpressure_release_limit

Debt(g) == IF NextFrame > completed[g] THEN NextFrame - completed[g] ELSE 0

\* Mutant: a guest that is behind never holds Player 1 back.
ShouldHoldNever == FALSE

\* Mutant: the limit is tested after the frame instead of before it.
ShouldHoldLate ==
  IF ~holding THEN \E g \in heard : Debt(g) > Lead + 1
  ELSE \E g \in heard : Debt(g) > Release

\* host_should_backpressure: held at the limit, released below it.
ShouldHold ==
  IF ~holding THEN \E g \in heard : Debt(g) > Lead
  ELSE \E g \in heard : Debt(g) > Release

\* Mutant: the window is exhausted one frame too late.
AwaitingInputLate ==
  \/ ~Predicts /\ ~ConfirmedMask(timeline, NextFrame)
  \/ mode = "Rollback" /\ \E g \in Guests : NextFrame - firstMissing[g] > Window

\* awaiting_commit of synchronize_inputs_result.
AwaitingInput ==
  \/ ~Predicts /\ ~ConfirmedMask(timeline, NextFrame)
  \/ /\ mode = "Rollback"
     /\ \/ UnconfirmedRunway(timeline, NextFrame) > Window
        \/ \E g \in Guests : NextFrame - firstMissing[g] >= Window

\* make_frame_commit_locked.
MakeCommit ==
  LET e == InputsFor(timeline, NextFrame)
  IN [prev |-> hostChain, inputs |-> e.input, predicted |-> e.predicted]

LastOf(s, n) == IF Len(s) <= n THEN s ELSE SubSeq(s, Len(s) - n + 1, Len(s))

HostUnchanged == UNCHANGED <<mode, failed, accepted, firstMissing, heard, completed,
                             recovery, guestVars, samples>>

\* The outer loop holds the frame back while a guest is too far behind.
HostHolds ==
  /\ Running(Host) /\ NextFrame <= MaxFrame
  /\ ShouldHold /\ ~holding
  /\ holding' = TRUE
  /\ UNCHANGED <<timeline, hostChain, history, sent, asked>>
  /\ HostUnchanged

\* synchronize_inputs_result on Player 1's machine with inputs missing.
HostAsks ==
  /\ Running(Host) /\ NextFrame <= MaxFrame
  /\ ~ShouldHold /\ AwaitingInput
  /\ holding' = FALSE
  /\ asked' = firstMissing
  /\ UNCHANGED <<timeline, hostChain, history, sent>>
  /\ HostUnchanged

\* ... and with the frame decided: the commit is published and played.
HostCommits ==
  /\ Running(Host) /\ NextFrame <= MaxFrame
  /\ ~ShouldHold /\ ~AwaitingInput
  /\ holding' = FALSE
  /\ timeline' = [timeline EXCEPT ![NextFrame % Ring] = InputsFor(timeline, NextFrame)]
  /\ hostChain' = HashOf(MakeCommit)
  /\ history' = LastOf(Append(history, MakeCommit), HistoryCapacity)
  /\ sent' = sent \cup {MakeCommit}
  /\ UNCHANGED asked
  /\ HostUnchanged

\* FrameCommitRequest, repeated every 50 ms by a guest that waits.  What the
\* history holds is sent again (it is still under way here); when the commit has
\* left the history a race schedules a recovery, a menu ends the session.
HandleAgedRequest(g) ==
  /\ Running(Host) /\ CommitAt(held[g], Len(chain[g])) = {}
  /\ Len(chain[g]) < NextFrame /\ Len(chain[g]) < FrameOf(history[1])
  /\ IF Gameplay THEN recovery' = TRUE /\ UNCHANGED failed
                 ELSE failed' = failed \cup {Host} /\ UNCHANGED recovery
  /\ UNCHANGED <<mode, timeline, hostChain, history, accepted, firstMissing, heard,
                 completed, holding, guestVars, netVars>>

-----------------------------------------------------------------------------
\* The frames of the delay start with neutral pads; a race starts with every
\* guest known to have completed the frame before it.
Init ==
  /\ mode \in Modes
  /\ failed = {}
  /\ timeline = [i \in 0 .. Ring - 1 |->
                   IF i < Delay
                   THEN [EmptyEntry(i) EXCEPT !.present = Guests]
                   ELSE EmptyEntry(-1)]
  /\ hostChain = << >> /\ history = << >>
  /\ accepted = [g \in Guests |-> [f \in Frames |-> 0]]
  /\ firstMissing = [g \in Guests |-> Delay]
  /\ heard = (IF mode = "Frontend" THEN {} ELSE Guests)
  /\ completed = [g \in Guests |-> -1]
  /\ holding = FALSE /\ recovery = FALSE
  /\ chain = [g \in Guests |-> << >>]
  /\ held = [g \in Guests |-> {}]
  /\ newest = [g \in Guests |-> 0]
  /\ timed = {}
  /\ local = [g \in Guests |-> [f \in Frames |-> [rev |-> 0, input |-> Neutral]]]
  /\ submitted = [g \in Guests |-> [frame |-> 0, input |-> Neutral]]
  /\ pending = [g \in Guests |-> -1]
  /\ samples = {} /\ sent = {}
  /\ asked = [g \in Guests |-> -1]

GuestStep(g) ==
  \/ \E pad \in Pads : GuestSynchronize(g, pad)
  \/ \E c \in sent : HandleFrameCommit(g, c)
  \/ HandleInputRepairRequest(g)
  \/ \E n \in 1 .. NextFrame : InstallFastForward(g, n)

HostStep ==
  \/ \E s \in samples : HandleInput(s)
  \/ \E g \in Guests, f \in 0 .. MaxFrame : HandleProgress(g, f)
  \/ HostHolds \/ HostAsks \/ HostCommits
  \/ \E g \in Guests : HandleAgedRequest(g)

Next == \/ \E g \in Guests : GuestStep(g)
        \/ HostStep

\* The game threads run.  Each side repeats what the other waits for: the first
\* missing sample, the next commit as long as the history holds it, the
\* watermark of completed frames.
Fairness ==
  /\ WF_vars(HostHolds \/ HostAsks \/ HostCommits)
  /\ \A g \in Guests :
       /\ WF_vars(\E pad \in Pads : GuestSynchronize(g, pad))
       /\ WF_vars(\E c \in Range(history) : FrameOf(c) = Len(chain[g]) /\ HandleFrameCommit(g, c))
       /\ WF_vars(\E s \in samples : s.slot = g /\ s.frame = firstMissing[g] /\ HandleInput(s))
       /\ WF_vars(HandleInputRepairRequest(g))
       /\ WF_vars(HandleProgress(g, Len(chain[g]) - 1))
       /\ WF_vars(HandleAgedRequest(g))

Spec == Init /\ [][Next]_vars
FairSpec == Spec /\ Fairness

-----------------------------------------------------------------------------
(* Properties *)

Commit == [prev : Seq(Inputs), inputs : Inputs, predicted : SUBSET Guests]
Sample == [slot : Guests, frame : Frames, rev : Nat \ {0}, input : Pads]
Entry == [frame : Nat \cup {-1}, input : Inputs,
          present : SUBSET Guests, predicted : SUBSET Guests]

\* Every variable has its type, and the commits kept end with the newest frame.
TypeOK ==
  /\ mode \in Modes
  /\ failed \subseteq Machines
  /\ timeline \in [0 .. Ring - 1 -> Entry]
  /\ hostChain \in Seq(Inputs) /\ NextFrame <= MaxFrame + 1
  /\ history \in Seq(Commit) /\ Len(history) = Min({NextFrame, HistoryCapacity})
  /\ accepted \in [Guests -> [Frames -> Nat]]
  /\ firstMissing \in [Guests -> Nat]
  /\ heard \subseteq Guests
  /\ completed \in [Guests -> -1 .. MaxFrame]
  /\ holding \in BOOLEAN /\ recovery \in BOOLEAN
  /\ chain \in [Guests -> Seq(Inputs)]
  /\ held \in [Guests -> SUBSET Commit]
  /\ newest \in [Guests -> 0 .. MaxFrame]
  /\ timed \subseteq Guests
  /\ local \in [Guests -> [Frames -> [rev : Nat, input : Pads]]]
  /\ submitted \in [Guests -> [frame : Frames, input : Pads]]
  /\ pending \in [Guests -> Nat \cup {-1}]
  /\ samples \subseteq Sample
  /\ sent \subseteq Commit
  /\ asked \in [Guests -> Nat \cup {-1}]

\* Whatever arrives, and in whichever order, every machine has played a prefix of
\* the frames Player 1 has played: a sample that comes after its frame was
\* published with a prediction never changes that frame.
Agreement == \A g \in Guests : IsPrefix(chain[g], hostChain)

\* No packet makes a machine give up: no guest finds conflicting commits or a
\* broken chain, and in a race no guest asks for a commit that has left Player
\* 1's history.  Only a menu that a guest has not answered yet may outrun it.
NobodyGivesUp ==
  /\ failed \subseteq (IF Gameplay THEN {} ELSE {Host})
  /\ ~recovery

\* Guest g sampled pad for frame f, or f is one of the neutral frames of the delay.
SampledFor(ss, g, f, pad) ==
  \/ f < Delay /\ pad = Neutral
  \/ \E s \in ss : s.slot = g /\ s.frame = f /\ s.input = pad

\* What Player 1 publishes as a guest's own control is what that guest sampled
\* for exactly this frame, or the neutral pad of the frames before the delay.
CommittedAsSampled ==
  \A c \in sent : \A g \in Guests \ c.predicted :
    SampledFor(samples, g, FrameOf(c), c.inputs[g])

\* Lockstep plays no guessed control; a race with prediction guesses at most the
\* window past the first sample that is missing.
PredictionBounded ==
  /\ mode = "Lockstep" => \A c \in sent : c.predicted = {}
  /\ mode = "Rollback" => \A g \in Guests : NextFrame <= firstMissing[g] + Window

\* In a race Player 1 is never further ahead of a guest than the lead, however
\* late the reports of completed frames are.
LeadBounded ==
  Gameplay => \A g \in Guests : NextFrame <= Len(chain[g]) + Lead

\* A sample that was accepted stays in the ring while its frame can be looked at,
\* in its newest revision: no packet evicts the entry of another frame in reach.
SamplesRetained ==
  \A g \in Guests, f \in Frames :
    accepted[g][f] > 0 /\ InReach(f) =>
      /\ SlotConfirmed(timeline, g, f)
      /\ [slot |-> g, frame |-> f, rev |-> accepted[g][f],
          input |-> timeline[f % Ring].input[g]] \in samples

\* Behind CommittedAsSampled: what the ring holds as a guest's own control was
\* sampled by that guest for the frame of the entry.
TimelineSampled ==
  \A i \in 0 .. Ring - 1 : \A g \in timeline[i].present \ timeline[i].predicted :
    SampledFor(samples, g, timeline[i].frame, timeline[i].input[g])

\* Behind SamplesRetained: no sample is accepted before its frame is in reach.
AcceptedInReach ==
  \A g \in Guests, f \in Frames : accepted[g][f] > 0 => f <= NextFrame + Future

\* Player 1, held back by the lead or by missing samples, and the guests, who
\* wait for his commits, never wait for each other for ever: everybody plays
\* every frame, unless the session has ended.
EveryFrameIsPlayed ==
  <>(failed # {} \/ \A g \in Guests : Len(chain[g]) = MaxFrame + 1)

\* The ledger implements one growing sequence of which everybody plays a prefix.
Ledger == INSTANCE CommitLedger
            WITH Machines <- Guests, Frame <- Inputs, ledger <- hostChain,
                 position <- [g \in Guests |-> Len(chain[g])]
ImplementsLedger == Ledger!LedgerSpec
=============================================================================
