# DKR-R: TLA+ models of the online session and its stores

DKR-R is a native port of a Nintendo 64 racing game: statically recompiled game
code, a renderer, a launcher, and an online mode in which two to four machines
run the same simulation. This directory models the parts of it whose
correctness depends on order, loss, concurrency or failure, checks them with
TLC and proves the central safety properties with TLAPS. `PROJECT.json` lists
the components, runs, mutants, the line map, hazards, findings and theorems.

All paths are relative to `src/runtime-recomp/src/game/` unless they begin with
`docs/`; netplay files are under `netplay/`.

## Inventory

| Part | State it keeps | Operations | What makes it hard | Module |
|---|---|---|---|---|
| Replay windows (`sequence_window.hpp`) | newest number and a bitset per lane | accept | duplicated, reordered packets; lanes advancing at different rates | `ReceiveWindow` |
| Lobby room (`netplay_lobby.cpp`) | players by slot, ready/loaded flags, phase, generation | create, join, leave, set_ready, set_loaded, begin_loading, begin_running | slots are renumbered when somebody leaves | `Room` |
| Starting grid (`direct_session.cpp`) | pending joins, admissions, lock, invitation, save verification, ready requests | join, approve, reject, lock, replace invitation, kick, set_ready, request_start | repeated and stale requests of several guests, renumbered slots | `StartingGrid` |
| Synchronized launch (`direct_session.cpp`, `runtime_ui.cpp`) | countdown, descriptor, launch request, checkpoint hashes, connection state | request_start, prepare_launch, Start, mark_game_loaded, start gate, departures | one-shot Start(1), departures during boot, stale UI snapshots | `LaunchGate` |
| Frame ledger (`direct_session.cpp`, `netplay_timeline.cpp`, `netplay_pacing_policy.hpp`) | input ring, commits, history, progress watermarks, hold | sample, input, repair, commit, commit request, backpressure, fast-forward | late inputs, aged-out history, mutual waiting | `FrameLedger`, abstract: `CommitLedger` |
| Handoff and scene barriers (`direct_session.cpp`, `runtime_netplay.cpp`) | input epoch, barrier stages, scene number, acknowledgements | handoff, Prepare, Ready, Baseline, Arm, Go, finish barrier | machines load at different frames; packets of an old scene | `SceneBarrier` |
| Recovery (`direct_session.cpp`, `runtime_netplay.cpp`) | boundary, generation, stages, epoch, digests | compare, schedule, Begin, capture, install, acknowledge, Resume, abandon at the finish | stale digests, a boundary against the finish, Resume against the next Begin | `RaceRecovery` |
| Callback gate (`callback_lifetime.hpp`) | retired flag, active count | wrap, retire | library threads against close and reopen | `CallbackGate` |
| Virtual Controller Pak (`virtual_pak.cpp`) | image, primary, `.bak`, `.tmp` | osPfs*, reformat, load | failing calls and process endings inside a save | `VirtualPak` |
| Save manager (`save_manager.cpp`) | Adventure, Pak, `.importing`, `.rollback`, backups | import, edit, reset, repair, bundle | several files replaced as one; endings between renames | `SaveGarage` |
| Countdown cue (`runtime_ui.cpp`) | displayed second | draw | local presentation | not modelled |
| Friend service, social executor | presence, invitations, job queue | post, tick, SDK callbacks | bounded queue, lost callbacks | planned |
| Quick Join transport | signaling and route generations, rekey | open, close, retry, rekey | generations of sockets | its callbacks: `CallbackGate`; the rest planned |
| Input broker, controller input | slot table, snapshots over a pipe | poll, reconnect | host process restarts | planned |
| Rollback state store (`rollback_state_store.cpp`), GekkoNet adapter | checkpoints and page deltas | save, load, discard_after | nothing: the replay path that uses them is inside `#if 0` (`runtime_netplay.cpp:2725-3058`) | not modelled |
| Renderer, HUD, UI drawing, audio, texture packs, mods, tools | | | conversions; correctness is a picture or a file | not modelled |

The parts meet as follows. `network_loop` is the only thread that pumps the
session; it, the UI and the game thread enter `DirectSession` under one mutex.
The session seals packets for the transport, which hands received ones back
through a window per lane. The UI draws a snapshot the worker publishes every
50 ms. The launcher consumes the launch request and starts the game, which
reports its cold-boot checkpoint; after the gate every frame goes through the
ledger. A track load hands the ledger over from the menus' input epoch to the
race's, through the scene barrier; a race is repaired by recovery and ends in
the finish barrier. WebRTC threads enter the transport through the callback gate
only. The launcher's save manager and the game's Pak write the same files at
different times of one process.

## Modules and the code

**`Room`** has one operator per method of `Lobby`. The occupied array is a slot
per guest; `Leave` states the outcome of `normalize_slots` for a room without
gaps: everybody behind moves up by one. A room has no gaps because `join` takes
the first free slot. Compatibility is not modelled: an incompatible machine is
refused before it gets a slot. The rule that JOINTVENTURE allows two racers only
is a constant of a room and left out.

**`ReceiveWindow`** is `ReceiveSequenceWindow::accept` with the bitset as a set
of ages, under one counter of sequence numbers shared by all lanes.

**`StartingGrid`** and **`LaunchGate`** both extend `Room` and divide the life
of a lobby at the frozen grid. Each method, packet handler and step of
`pump_locked` is one action, because each runs under the session mutex. The
network is a set per direction from which nothing is removed: a packet may be
handled late, in any order, repeatedly, or never. This also stands for the 250
ms repetitions; the replay windows only make it smaller. `StartingGrid` keeps
the bounds of a behaviour in a record, `case`, so that one run examines several
small grids (`MCStartingGrid`) instead of one large one. Player 1 handles a
Hello whatever its sender does: a copy that arrives late is answered, refused,
placed in the queue or admitted again by what Player 1 alone remembers. In
`LaunchGate` the guests are already admitted and have seen any one of the lobby
states sent so far. What a racer's session forgets when it goes offline is never
read again, so `disconnect` only changes the state. REMOVE is drawn from a
snapshot that may have been published before the session began to load, and
`kick_player` looks at no state, so a racer may be removed in any phase for
which the launcher still draws the button (`OffersRemove`): waiting, or loading
until the launcher takes the launch request and leaves its screen.
`MCLaunchGate` fixes the order in which the guests arrived; they are
interchangeable.

**`FrameLedger`** is the ledger within one input epoch. A packet of several
samples or commits is delivered as several of one each, because the handlers
take them one by one. A commit hash is the history it stands for, so equal hashes
are equal histories. The three modes are the menus' timeline, lockstep and
rollback. Left out: the pruning of acknowledged samples and of commits older
than 128 frames (they bound memory; nothing reads them), a FrameCommitRequest of
a guest that does not wait, the 90 s give-up, the pacing of ticks. The lead is a
constant although the code measures it again every tick; it stays within 8 and
24. The constants are related as in the code: `HistoryCapacity >= Lead`,
`Past >= Window`, `Ring >= Past + Future + 1` (there a history of 2048 commits, 512
frames back, 256 ahead, a ring of 1024).

**`CommitLedger`** is what the ledger promises: one sequence that only grows, and
machines that play prefixes of it and never go back. `ImplementsLedger` maps
Player 1's chain to that sequence and each guest's cursor to a position.

**`SceneBarrier`** takes machines that load at different frames through the
handoff, the barrier stages and the finish barrier, over several scenes. The
game thread's coordinator is a step per machine; packets are handled in between.
The frame window in which a StateSnapshot is accepted is kept to its frame-zero
case; a map stands for map and racer count; the deadlines (45 s and 90 s), the
1 s and 2 s resend windows and the bounded history of releases are left out: they
only decide how often something is sent or when a session that waits gives up.
`AcksArrive` distinguishes the reliable Quick Join channel (TRUE) from direct
UDP (FALSE), where a StateAcknowledge may be lost.

**`RaceRecovery`** follows a race from a drift to its repair. A machine admits a
frame, plays it with its hooks, and services its coordinators; a digest packet
stands for StateHash and for RollbackRecoveryRequest, of which only mismatches
do anything. The ledger is `FrameLedger`'s promise (a guest admits what Player 1
has committed, at most `Lead` behind), the finish barrier is `SceneBarrier`'s (a
machine sees whether the others have reached it). A guest whose state has drifted
may end the race at another frame. Chunks and compression, the live replica, the
limit of four repairs in 30 s and the deadlines are left out.

**`CallbackGate`** counts invocations; the gate's mutex makes entering, leaving
and retiring atomic, and the callback runs between two of them.

**`VirtualPak`** is one file operation per step. An image is a number, a file is
an image, missing or torn; a torn file is one whose checksum is wrong. The process may
end between any two operations, the remove and the rename included.

**`SaveGarage`** extends it with the Adventure save and the save manager: a task
is a list of files with new images, each backed up and then replaced through
`WriteAtomic`, with every file operation a step that may fail, a roll back of
what was already replaced, and endings of the process between any two steps. The
launcher works only while no game runs. Export, the separate saves of online
sessions and the codec of the formats are left out.

## Runs

| Run | Bounds | Shows |
|---|---|---|
| `receive_window` | 2 lanes, window 3, 6 packets | no packet handled twice, none inside its horizon refused |
| `grid` | 2 guests; five cases: a replaced invitation or a lock beside an admission and a departure, two ready requests each, one guest with two ready requests that goes or is removed, builds with OnlineSaveStatus | an admission admits one racer; a locked lobby holds no request; the frozen grid is verified; a confirmed NOT READY stays until the guest goes or is removed |
| `grid_ready_moved` | 2 guests, 1 departure | **violated**: a renumbered guest is never heard again |
| `launch_gate` | 2 guests, 2 hashes, 1 countdown, 1 stop, which may be a stale REMOVE | no second launch, no revival, nobody called to the launch is missing but whom Player 1 removed, racers sit in the slots Player 1 counts and agree on their checkpoint, the start reaches every racer |
| `frame_ledger` | 1 guest, 2 pads, 3 modes, delay 1, window 1, lead 2, 3 frames, 2 revisions | one history for all, nobody gives up, a published control is the one sampled for its frame, prediction and lead bounded, accepted samples kept, no mutual waiting; refinement of `CommitLedger` |
| `scene_barrier` | 2 guests, 2 loads of the same track, 3 programmes | no error path, one boundary per epoch, nobody runs or leaves a scene alone, state before start, every scene starts |
| `scene_barrier_lost_ack` | 1 guest, direct UDP | **violated**: one lost StateAcknowledge parks every machine |
| `race_recovery` | 2 guests, races of 4 or 7 frames, 1 drift, 2 recoveries | nobody plays past a boundary before all are repaired, errors only in three named situations, an epoch names one history, every recovery ends |
| `save_garage` | 2 Adventures, 2 Pak images, 2 tasks, 3 faults | the saves last acknowledged stay on disk, an import replaces everything or nothing or leaves a backup, the next start opens the acknowledged Pak, reports it, or leaves it in `.bak` |
| `garage_roll_back` | 2 Adventures, 2 Pak images, 1 task, 2 faults | **violated**: a bundle whose roll back fails too is reported as rolled back safely |
| `virtual_pak_gap` | 3 images, 3 faults | **violated**: an ending between remove and rename empties the Pak |
| `callback_gate` | 5 invocations, 4 openings | no late callback; close returns |

Type invariants are stated in every module; `launch_gate` checks one, and they are
proved as part of the inductive invariants (`RaceRecovery`'s without the lengths of
the races, `Shapes`).

Why the bounds suffice.

- Two guests are the smallest grid in which a departure renumbers somebody, a
  barrier waits for one guest while another has answered, and a repaired guest
  waits for one that is not. Two hashes make checkpoints differ. Two ready
  requests are needed to reorder them, two invitations to hold an old one.
- One more packet than the window has numbers, on each side of the other lane,
  reaches both edges of the window.
- Three frames with a history of two let a menu outrun a guest; a lead of two
  reaches the hold and its release; a window of one reaches the end of the
  prediction. `TargetDebt` and `MinimumSkip` are 0 and 1 (in the code at least 1
  and 2) so that a fast-forward happens within the lead; jumps over several
  frames are covered by the proofs only. The guests of the ledger meet only
  through Player 1's holds and waits, which range over all of them; the run has
  one guest, the theorems any number.
- Two loads of the same track give the second one nothing but its scene number
  and epoch to tell it from the first.
- A race of four frames can end on the boundary of a recovery, one of seven has
  room for two recoveries; both situations occur.
- Three faults let a failed restore be followed by another failure
  and an ending; two tasks, by a second import.
- The generation bound stops ready toggles that lead nowhere new; a guest that
  returns needs two requests, one removal and the late copies of its first Hello.
  A guest that joins between `request_start` and the freeze needs more joiners and
  generations than a run can afford; that the grid is verified then too is
  `FrozenGridVerified`.

`CHECK_DEADLOCK FALSE` is set where a behaviour ends: a session in which everyone
has left or failed, a transport closed for the last time, the last frame, scene,
race or task of the instance.

## Fairness

- `LaunchGate`: the worker pumps for ever, so the countdown ends and the gate is
  evaluated; the current lobby state and Start(0) are repeated while the session
  loads, and Loaded while the guest does not see itself loaded; the launcher
  consumes a launch request and the game boots. Start(1), disconnects, people
  and timeouts get no fairness.
- `StartingGrid`: one request is repeated every 250 ms, OnlineSaveReady first,
  the ready request once the save is acknowledged.
- `FrameLedger`: the game threads run. Player 1 repeats the request for the first
  missing sample and the guest answers it; a guest that waits repeats its request
  and gets the commit while the history holds it; progress is reported again and
  again.
- `SceneBarrier`, `RaceRecovery`: every machine's game thread runs, and of the
  datagrams only the `Repeated` ones arrive eventually: those the code sends again
  while it waits (stage packets of the barrier and Begin every 100 ms by the pump,
  a state and a Resume on request, an acknowledgement by the poll). A
  StateAcknowledge is one of them only under `AcksArrive`.
- `CallbackGate`: callbacks end, the closing thread is scheduled.

A repetition that is sent for ever is assumed to arrive eventually; nothing is
assumed of a packet that is sent once.

## Proofs

The theorems hold for every number of guests, lanes, threads, hashes, pads and
every bound; TLC checks the same formulas on the instances above. What they
assume are the named `ASSUME`s of the modules.

- `TransportProofs`, the replay windows: `ReplaySafety` (no packet is handled twice),
  `DelayedPacketSafety` (no packet inside its horizon is refused) and
  `WindowExactness`. The inductive invariant `WindowInv` says that an age is in the
  window exactly when the packet of that number was handled on that lane, that the
  newest number is the newest handled one, and that unsealed numbers are untouched.
  Without the exactness the step that shifts the window cannot be carried.
- `StartingGridProofs`: `AdmissionsAreSingleUse`, `LockHolds`, `FrozenGridVerified`,
  `NotReadyHolds` and `GridTyped`. The first three rest on `GateInv`: a used
  admission is no longer offered, nobody is pending while the lobby is locked, and a
  ready flag implies a verified save, which is why the freeze may look at the flags
  only. `NotReadyHolds` needs `ReadyInv`: requests are numbered by their sender and
  equal numbers mean equal requests; a guest that holds an acknowledgement and has
  neither left nor been removed is in the room, where a late Hello is only answered
  and does not admit it again, and the number of a NOT READY that was acknowledged
  is not forgotten (`AcksApplied`). Without the premise that the guest has not
  parted the statement is false: a kick and an old Hello, approved again, reset the
  number and let an older READY through.
- `LaunchGateProofs`: `TypeCorrect`, `LaunchInvariant` and `FrameZeroSafety`.
  The gate compares hashes by slot while racers change slots, so agreement is not
  inductive. `LaunchInv` adds: slots are distinct; a Loaded packet names the
  checkpoint its sender booted into; a loaded flag means Player 1 holds that
  racer's own hash at its current slot (a departure clears all the flags, which is
  what saves it); and nobody holds a packet that releases it before the gate has
  opened. `LaunchesOnce`
  and `FailuresAreTerminal` follow from a classification of every step by what it
  does to a machine's state (`EveryStepMoves`). `GridCompleteness`: whoever is
  missing from a race was removed by Player 1 himself; a departure during the boot
  stops the session instead. `SlotsAtStart`: a removal renumbers those behind on
  Player 1's machine only, and the gate does not open for one of them, because its
  Loaded names the old slot and is refused.
- `FrameLedgerProofs`: `LedgerInvariant`, and from it `LedgerAgreement` (every
  guest has played a prefix of Player 1's frames), `LedgerAnswers` (nobody gives
  up), `LedgerLead` (the lead is bounded), `PlayedFramesStay` (no step takes a frame back
  or replaces it: both sequences of a step run along Player 1's, which only grows) and `LedgerRefines` (the ledger implements `CommitLedger`). Agreement alone
  is not inductive: a guest plays what it holds. `LedgerInv` adds that every
  commit sent, held or kept continues Player 1's chain at its frame, and that
  there is one per frame; that the history is the newest frames in order; and that
  a reported frame was completed. The last gives the lead bound however late the
  reports are, and the lead bound with `HistoryCapacity >= Lead` gives that the
  history holds whatever a racing guest may ask for. `LedgerGenuine`,
  `LedgerPredicts` and `LedgerRetains` are about the input ring, through `InputInv`:
  what a place of the ring holds was sampled for the frame written on it, and an
  accepted sample lies within reach of the cursor. Two frames in reach are less than
  `Ring` apart (`RingDistinct`), so neither takes the other's place; this is where
  `Ring >= Past + Future + 1` is used.
- `SceneBarrierProofs`: `HealthySessions` (no error path is taken),
  `BoundaryAgreement`, `ScenesStartTogether`, `BaselineBeforeInputs`,
  `FinishesAreShared` and `ScenesAreShared`, from `BarrierInvariant`. Any datagram
  ever sent may still arrive, so the invariant must say what each of them means in
  terms that no later step takes back (`Says`): an Armed that its sender has opened
  the epoch of that scene, a Go that Player 1 has run it, a Suspend where the epoch
  it names ends (`Bound`: at Player 1's cursor while he is suspended, then at the
  origin of his next epoch). `Order` keeps the machines within one load of each
  other, and the one ahead only while the others run the scene before. That is also
  where `Lead < SceneFrames` is used: who has played a scene to its end has frames
  that Player 1 committed, and he could not have committed so many while anybody
  had played none (`AllRan`). The sets of acknowledgements and of armed machines
  then stand for machines that have come that far in this very load (`Collected`),
  although the map and the bytes of two loads may be the same, and every answer to
  Begin or Acknowledge names the one frame at which Player 1 sealed that race
  (`OneFinish`). `NoneAssumption` only says that an empty optional is not a record.
- `RaceRecoveryProofs`: `BoundariesHold`, `FailuresExplained` and `EpochsAgree`.
  `RecoveryInv` ties Player 1's cursor, which no guest passes and which an unreleased
  boundary holds back, to his acknowledgements, each of which stands for an installed
  state; says that he announces a recovery only when every earlier one is done; and
  that what a guest has installed it has gone through or stands at with its
  coordinator. It follows that the two checks for a machine behind its boundary, or
  at another than its session's, never fire. `EpochCounts` adds that an epoch is the
  number of recoveries left behind; since machines leave them in Player 1's order and
  skip none, equal numbers are equal sets.
- `SaveGarageProofs`: `AdventureNeverLost`, `ImportsAreAtomic`, `PakNeverLost` and
  `PakOpensOrStays`. The stronger claim that the next start always opens the
  acknowledged Pak is false (`virtual_pak_gap`); what is proved says where the Pak is
  then. `PakInv` says for each stage of `SavePakLocked` which
  file holds the acknowledged image; `GarageInv` adds what each stage of a task has
  in the file, in `.importing` and in `.rollback`. A roll back ever touches the
  Adventure alone, because only a bundle has a second file and that is the Pak.
  `OriginalsKept`, which is inductive beside it, says that a file is backed up before
  it is touched, so that what a failed roll back leaves behind is not lost.
- `TransportProofs`, the callback gate: `GateInvariant` and `CallbackSafety`. The
  counter of a gate is the number of invocations inside, and the retired gates are
  those of closed openings; then zero at the release means that nobody is inside.

TLC checked each inductive invariant on the instances above before it was proved.
Only model-checked: the liveness properties (fairness and ENABLED are out of the
prover's reach). Every safety property of a passing run is the statement of a
theorem.

## Findings

1. `grid_ready_moved`: a guest behind one that leaves is renumbered on Player 1's
   machine only; its requests are ignored from then on.
2. `scene_barrier_lost_ack`: a guest acknowledges the frame-zero state once; a
   repeated state is not acknowledged again.
3. `garage_roll_back`: `import_bundle` ignores the failures of its own roll back
   and says that the transaction was rolled back safely; what it replaced is in
   `save-backups`.
4. `virtual_pak_gap`: a process that ends between `remove` and `rename` of a Pak
   save leaves the Pak in `.bak`, which the next start does not look at.

Observations without a run of their own:

- `kick_player` does not look at the session state, so a REMOVE drawn from the
  last waiting view takes a racer out of a launch that is under way, and the race
  starts with fewer racers than its descriptor names, without a word to the others.
  Agreement holds all the same (`FrameZeroSafety`). Whoever sat behind the removed
  racer is renumbered, its Loaded is refused and the gate stays shut until the
  session is given up.
- A guest that left or was removed can be admitted again by an old copy of its
  Hello, with its old ready requests counted again; it stays on the grid until
  Player 1 removes it or it times out.
- A renumbered guest looks its save verification up by its old slot number, which
  may by then be another racer's.
- The process keeps the image of a Pak it has opened: after an import in the
  launcher a second game of the same process still sees the old Pak and may write
  it back (`virtual_pak.cpp:346`, `game_main.cpp:884`).
- A recovery whose boundary is the frame in which the race ends can fail a guest
  after the race. The finish hook drops the coordinator's recovery
  (`seal_race_finish`, `runtime_netplay.cpp:1921`, whose comment says "Never strand
  the race inside a stale recovery after DKR has begun its post-race object
  teardown"), but the session's recovery frame stays, and the end of the same tick
  starts the recovery again (`runtime_netplay.cpp:2169`); once the finish has ended
  the session's phase the guest's wait for the state is an error. The Begin of a
  second recovery that arrives before the Resume of the first fails as a conflict.
  Both are named cases of `FailsOnlyWhen`.
- Digests of frames before a repair can arrive after it and start a second,
  needless recovery.
- A drifted guest that ends the race by itself leaves Player 1 in the recovery
  until its deadline; `RecoveryEnds` exempts it.
- A lobby state delayed across a second sets a guest's countdown back, so a guest
  may hear a tone again, which `docs/ONLINE_MULTIPLAYER.md:57` rules out.

## Not modelled

Rendering, audio, layout, texture and mod conversion, sockets and router
configuration, encryption and encoding: no state machine, or third-party I/O.
They are most of the repository's lines. The recompiled game itself is not in
the repository. The countdown cue is presentation on one machine. LaunchPrepare,
LaunchCommit and LaunchRelease packets are handled by guests but no longer sent
by a host.

## Plan

1. `SocialExecutor` and the friend service: the bounded queue and the loss it
   reports; Quick Join rekeying; the input broker and the controller host.
2. A lead that changes from tick to tick in `FrameLedger`, and an instance in
   which a fast-forward skips several frames.
