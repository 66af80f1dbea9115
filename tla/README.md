# ShoopDaLoop: formal models

ShoopDaLoop is a live looper: an application thread edits a session of loops,
ports and effects while a real-time audio thread plays it. This directory holds
TLA+ modules translated from its Rust source, the TLC configurations that check
them on small instances, and theorems about them checked by TLAPS. File names
below without a directory are in `src/rust/shoop_engine/src/`; the lines of
every definition are in the `map` of `PROJECT.json`.

## 1. Inventory

| Component | State it keeps | Operations | Talks to |
|---|---|---|---|
| **Control/audio boundary** `engine.rs` | command ring, return ring, `next_sequence`, `last_applied_command`, `command_batch_in_flight`, `graph_stale`, `alive` | `try_reserve`, `send_reserved`, `send_for_result`, `reclaim`, `wait_*`; on the audio thread `apply_commands`, `publish_graph_staleness`, `Drop` | every control call; the driver callback |
| **Graph scheduler** `graph_scheduler.rs` | `deadline`, `dirty_gen`, `applied_gen`, `stop` under a mutex and condition variable | `arm`, the worker `run`, `flush_blocking`, `Drop` | mutators arm it, the worker calls the apply closure |
| **Graph rebuild** `app_backend.rs`, `session.rs` | `graph_request_id`, `graph_applied_id`, the installed schedule | the apply closure: `graph_may_need_rebuild`, `describe_topology`, `build_schedule`, `install_schedule`; `wait_process` | scheduler thread to audio thread through the command ring, twice per rebuild |
| **Loop mechanics** `basic_loop.rs`, `audio_midi_loop.rs` | mode, position, length, planned transitions, trigger flags, snapshot of the sync source | `set_*`, `handle_transition`, `plan_transition`, `process`, `handle_poi`, `trigger`, `handle_sync`, `clear` | channels; the loop group |
| **Session loop group** `session.rs` | arenas of loops, `sync_sources`, `loop_live`, a latched fault | `process_loop_group`, `refresh_sync_snapshots`, loop commands, `remove_loop` | commands from the ring between callbacks |
| **Composite loops** `composite_*.rs` | descriptions, compiled plans, per composite its iteration, its active targets, its pending transition and pending plan | `compile_composite_plan`, `sync_boundary`, `activate_*`, `resolve_boundary`, the installation of a new timeline | commands; the boundaries of the sync loop, where their effects on loops are committed |
| **Content snapshots** `content_snapshot/` | revisions, the announced mutation, update blocks, immutable manifests | begin and finish a mutation, publish a range, install a load, pump, exact read | control, audio and publisher threads, readers |
| **Carla plugin process** `carla_*.rs` | shared-memory slots, worker generations, lifecycle, checkpoint | submit, wait with a deadline, take, complete; requests and replies, crash, restart | audio thread, bridge thread, child process |
| **Worklet and its client** `shoop_worklet_client`, `shoop_audio_worklet`, `browser_audio.rs` | journal, sequence numbers, readiness, generation, transfers in chunks | journal, attach and replay, receive, detach, fail, poll; the host's handlers | the browser's audio graph, the page's event loop |
| **Application and backend facade** `shoop_app`, `shoop_backend` | `io_task`, `pending_io`, and the application's model | I/O intents and `advance_io` (modelled); the rest of the intents (not) | the backend trait |
| Session arenas, ports, channels | sample and MIDI routing, channel content | `process`, port and channel operations | schedule, drivers |
| Graph lowering `graph.rs`, `graph_build.rs` | none | `build_schedule` (topological sort) | the apply closure |
| State mirrors `state_mirror.rs` | relaxed atomics, a seqlock | `publish`, `read` | audio thread to control threads |
| Bounded buffers, MIDI state | ring buffers, MIDI storage, notes that are on | `put`, `snapshot`, truncation, differences | channels |
| Drivers, UI, scripting, files, tracing | | input and output | |

### What is hard here

* **Interleaving.** The audio thread may not lock. What it shares with other
  threads is a ring, a slot or an atomic, and each reader combines several of
  them: `graph_may_need_rebuild` reads the ring, the batch flag and the
  staleness; an exact read loads saturation, mutation, revision and manifest.
* **Staleness by design.** A follower sees its sync source through a snapshot;
  the scheduler rebuilds from a description older than the topology; a wait that
  timed out leaves its command queued; a composite that runs keeps its old plan
  until the pass ends.
* **Two sides that fail apart.** A plugin process misses deadlines, answers
  late, crashes and is restarted; a browser engine is lost and replaced while
  the application goes on, with commands and transfers half done.
* **Liveness.** A change must reach the schedule although rebuilds are
  coalesced, postponed and end early; recordings, transitions, loads, saves
  and calls must come to an end.
* **Ordering inside one callback.** Sub-blocks are cut at the earliest loop end,
  triggers spread in waves, composites resolve parents before children.

`PROJECT.json` lists the individual hazards at their lines, with the properties
that would catch each of them.

### What makes each component correct

* Boundary: commands run once, in order; reservations hold; a wait that
  succeeds is truthful; a quiet reading is final.
* Scheduler: no change is lost around a running apply; a flush returns, without
  waiting out the window, and only for an apply that began after its change.
* Rebuild: the applied id never claims more than the schedule holds; every
  change that is in no schedule is watched by someone; the newest lands.
* Loops: planned transitions are carried out one at a time and in time; triggers
  reach all followers in the sub-block they happen in; followers stay on their
  source's grid.
* Composites: every loop does what the active plan of its composite asks of it;
  plans change hands only where a pass ends; what was accepted ends or lands.
* Content: an exact read is exact; what has settled is published or said to be
  saturated; an announced load ends.
* Carla: a caller hears the whole answer to its own block or none; nobody uses a
  slot another side works on; a running chain is in the state its supervisor
  believes in; a save answers a state the plugins held while it was under way, or,
  when the worker fails, times out or is not running, what the application holds.
* Remote backend: an attached engine is on its way to what the application made;
  an attachment becomes usable.
* I/O tasks: what is saved was captured for that save; what a task says happened
  has happened to the engine; the engine commits only what is being asked for.

## 2. Modules

    CommandChannel        what the boundary promises      (abstract)
      ^ refined by
    EngineQueue           rings, flags, both threads, atomic access by atomic access

    GraphScheduler        the coalescing timer            (also the abstraction of
      ^ refined by          the worker in GraphRebuild)
    GraphRebuild          mutators, engine, worker with its apply closure, wait_process
    GraphRebuildProofs

    HandoverProofs        about EngineQueue, GraphScheduler and BlockSlots

    BasicLoop             one loop: operators on its record
    LoopGroup             the session's loops and one callback, EXTENDS BasicLoop
    LoopGroupProofs

    CompositePlan         what a description compiles to: operators
    CompositeRuntime      one composite: operators, EXTENDS CompositePlan
    CompositeTimeline     all composites and the loops they drive, EXTENDS CompositeRuntime
    CompositeProofs       about all three

    ContentSnapshots      one channel's content on its way to readers
    ContentSnapshotsProofs

    BlockSlots            the shared-memory slots, between threads and between processes
    CarlaSupervisor       the bridge thread, its conversation with the worker, restarts
    CarlaSupervisorProofs

    RemoteBackend         journal, replay, readiness, the browser's driver
    RemoteBackendProofs
    IoTasks               the application's I/O tasks over the remote backend
    IoTasksProofs

    MCGraphScheduler, MCGraphRebuild, MCLoopGroup, MCLoopGroupGrid, MCComposite
                          values for TLC

**EngineQueue.** `commands` and `returns` are the two `rtrb` rings; a box is
named by its sequence number. `handlePc` walks through `reclaim` (one pop per
step), the test of `alive`, the test of the ring's slots and, arbitrarily later,
`send_reserved`; or through the reads of `graph_may_need_rebuild`. The control
side is one process because every caller holds the handle's mutex from
`try_reserve` to `send_reserved` (`app_backend.rs`, `queue_result` and
`send_with_graph_effect`). `enginePc` walks through `apply_commands`: size the
batch once, raise the flag, then per command pop, run, store
`last_applied_command`, push the box back; then publish the staleness and lower
the flag. `waits` records, per sequence number, what a caller who waited was
told; waits poll and time out at any moment. What a command does to the session
is abstracted to its place in `executed`. The atomics are sequentially
consistent in the model; the code orders them with Acquire/Release on the ring
indices and the flag, and the relaxed staleness is stored before the flag is
lowered with Release.

**GraphScheduler.** One action per critical section of the mutex. A deadline is
`ahead` or `due`; when it becomes due is left open, which covers every window.
The apply closure runs without the mutex, between `TakeBatch` and `FinishApply`.

**GraphRebuild.** A topology is named by `graph_request_id`, a schedule by the
topology it was really built from, so `schedule` is a ghost against which
`appliedId` is judged. The command queue is the FIFO that EngineQueue shows it
to be. `workerPc` splits the scheduler's apply into the closure's steps: look at
the queue, look at the flag, ask for a description, build, ask for the install,
and each way out: nothing to do, work in flight (arm again), build error,
time-out. A query that times out stays queued, and its late answer is ignored.
`GraphScheduler` is instantiated with `workerPc` mapped to wait/applying.

**BasicLoop / LoopGroup.** A loop is a record; each operation of `basic_loop.rs`
is an operator on it. What the code caches and recomputes (the point of
interest) is a function of the record. `Process` merges `process_with`, the
channel's storage limit and `handle_poi`. `LoopGroup` follows
`process_loop_group`: refresh snapshots, cut at the earliest end, advance every
loop, then waves of refresh and `handle_sync` until no loop newly triggers, then
the next sub-block. Commands land only between callbacks, as the boundary
guarantees.

**CompositePlan / CompositeRuntime / CompositeTimeline.** A description is a
sequence of timelines of sections of entries, lengths in cycles of the sync
loop; `Compile` makes of it the table of what each target is to do in each
iteration. Each operation of `composite_runtime.rs` is an operator that returns
the new runtime, the transitions it commands and whether it succeeded.
`CompositeTimeline` has one action per command and one per boundary: `Resolve`
lets every composite, parents first, obey the strongest intent addressed to it
or advance, and `Commit` applies all effects together or latches the fault.
`Edit` recompiles every description and has the code's three ways to install
the result: keep what runs (plans wait for the end of the pass), restart what
runs through the controls, or replace what is stopped. Every composite is synced
to the same loop. The descriptions TLC is given name no loop in two composites
(`OneOwner`, which `MCComposite` assumes and TLC evaluates).

**ContentSnapshots.** Content is the set of changes it is made of, each named by
its revision. The atomics of `ContentStatus` are one record, and every load and
store of them that another thread can come between is a step: `FinishMutation`
is two, an exact read four. What a callback records is `queued` as copies, which
are applied and published when the callback ends (`finalize`), while a recording
settles and releases in the sub-block where it stops: the copies of earlier
sub-blocks are then `late`. An exact read in between is told that its content is
exact although these copies are missing; the model names it a `late answer`, and
tells it (`Behind`) from one that is wrong in any other way. `updates` is the transport of a fixed number of
blocks; a change that finds none free is `Lost` and the revision saturated.
`excuses` records that one of the known ways to lose exactness was taken, and
`Beyond` whether such behaviours are followed further.

**BlockSlots.** `role` distinguishes the two uses of the transport: between the
audio thread and the bridge thread, and between the bridge thread and the worker
process, which may die and come back with a new mapping. The state word of each
slot is accessed in steps of its own, and a region being copied is `Torn`.

**CarlaSupervisor.** The bridge thread is sequential, and `pc` says in which
request it is; `requests` and `replies` are the two directions of the stream. A
request that is given up is still served, and its reply is `late`. Each way out
of `start_generation` is an action. A save never fails: when the worker does, is
too slow or is not running, `save_state` answers the checkpoint that is held (the
empty string if there was none), and `confirmed`, the application's
`last_confirmed_state`, takes what it answers.

**RemoteBackend.** `Call` actions journal and send; `Attach` empties the queues,
starts an empty engine and replays; `HostServes` and `Deliver` are the worklet
and the port; `ClientPoll` drains. The lifecycle actions are the steps of
`browser_audio.rs` between two awaits. `wanted` is a history of what the
application made and set.

**IoTasks.** The application's operation (`work`) and what it shows of it
(`task`) are separate, as in the code: a duplicate has no task, and a task that
ended stays shown. A step of the client is an operator from a client and the
commands in flight to the same and a verdict, so that `Update` can chain the
poll, every response, the pumps and `advance_io` in the order of
`update_application`. The host's handlers are `Handled`. A capture is named by
the edition of the engine it was taken of. Links are lost, engines replaced and
recordings made at any point. The engine may refuse a commit, of a session as of a
loop's content; the track under an import or a copy may be removed (`Stale`); a
capture may hold nothing to copy (`NothingToCopy`). Polls, MIDI, controls and
journalled calls share the command queue: commands beside the transfers take its
room, at any point, and are answered, with an error if they were requests that
could be refused ("ask"). Posting and answering are one message
deep: an answer is in the client's hands as soon as the host gives it.

Two kinds of definition in the modules are not the code: properties, and
*mutants* (marked so), variants of one definition with a plausible mistake,
kept next to the original; every property of a passing run is violated by one.

## 3. Runs

| Run | Instance | What it shows |
|---|---|---|
| `engine_queue` | 2 slots per ring, 4 sends; 161,486 states | `RunOnceInOrder`, `ReservationHonoured`, `QuietMeansApplied`, `OkMeansRan`; refinement of CommandChannel; `QueuedIsRun`. |
| `graph_scheduler` | two flushers, 5 arms, dropping included; 2,456 states | `NoArmLost`, `FlushIsImmediate`, `FlushReturns`. |
| `graph_rebuild` | 3 changes (the first leaves a routing cycle, so its schedule cannot be built), one `wait_process`, one query that may time out, 5 arms; 487,841 states | `AppliedIdIsHonest`, `ChangeIsWatched`; refinement of GraphScheduler; `ChangesLandInTime`, `NextChangeRecovers`. |
| `loop_group` | three loops, in a chain or a cycle of sync sources, up to three of any commands, blocks of 3 samples against loops of 1 to 4 | `TriggersReachFollowers`, `WavesSettle`. |
| `loop_group_grid` | two followers of a playing loop, up to four planned transitions, blocks of 1 and 3 samples against a cycle of 2 | `FollowersOnGrid`, `PlansLand`. |
| `composites` | a song that contains a composite, three descriptions of the one and two of the other, 4 commands; 171,110 states | `LoopsFollowPlan`, `PlansSwapAtPassEnd`, `RecordingEnds`, `TransitionsLand`, `PlansLand`. |
| `content_snapshots` | a transport of 2 blocks, 1 command in flight, 3 revisions, up to 2 copies queued in a callback | `ExactReadsAreCurrent`, `SettledIsPublished`, `LoadsEnd`. |
| `block_slots` | 3 slots, 5 blocks per mapping, 2 mappings | `AnswerIsOwn`, `SlotsAreHeld`, `CallReturns`, `AbandonedComeBack`. |
| `carla_supervisor` | 3 commands, one time-out per process, 2 plugin states | `RunningIsRestored`, `SavesAreNewOrHeld`, `LateReplyIsNoticed`, `CommandsAreTaken`. |
| `remote_backend` | queues of 3, 3 calls, 2 attachments | `EngineFollows`, `AttachBecomesUsable`. |
| `io_tasks` | 2 tasks, captures and replacements of 2 chunks with one read in flight, queues of 3, 2 attachments, and up to two of a recording, a further attachment and a command beside the transfers; no operation begins after one that left its transfer behind; 1,099,842 states | `CapturesAreCurrent`, `VerdictsAreTrue`, `CommitsAreAsked`, `TasksEnd`. |
| `cancelled_load` | one task; **violated** | `CancelledIsNotCommitted`: finding 1. |

**Bounds, and why they are enough.** Two slots per ring is the smallest ring
that can be partly full while a command is popped, and four sends fill it twice;
the proofs remove the bound. Three topology changes allow one before, one during
and one after a build. `MaxArms` leaves room for every change's own arm; a
closure that would exceed it looks again instead of arming, which loses no
behaviour that matters because its work is still pending. Three loops are a
leader, a follower and a follower's follower, or a leader beside a cycle; cycles
of 2 samples in blocks of 1 and 3 make every phase between block and loop occur.
`MaxSubBlocks` and `MaxWaves` stand for 16 and the timeline's limit; the small
values make the sub-block fault reachable. A growing `Replacing` loop is stopped
by `MaxLength`, where the model's driver stops. Four composite commands allow a
start, an edit, an edit of the edit and a stop; plans of one to three cycles
make parent and child end together and apart. Two update blocks overflow while
the publisher holds one. Three slots are the code's number; five blocks use
each and come back to one that was abandoned. Two attachments are a first one
and a replacement under whatever the first left behind. Two chunks are the
fewest that can belong to two captures, and two tasks the fewest of which the
second can inherit from the first. A queue of 3 is the smallest in which half of it
can be full when a chunk is heard. What an operation inherits from one that left
its transfer behind is excepted from the properties of `io_tasks`, so its
configuration ends there (`MayGoOn`); `MCIoTasksCancel` goes on.

**Deadlock** is checked in `engine_queue`, `loop_group_grid` and
`carla_supervisor`. Elsewhere a bound ends the behaviour on purpose, or the
system stops: threads that have done their share (`graph_rebuild`), a scheduler
that was dropped, a page nobody uses, a fault the application never resets
(`composites`).

**Fairness.** Always weak, and only of what the code goes on doing by itself:
the audio callback (a driver calls back periodically, and a callback runs to its
end); the scheduler's worker and the passing of its window; a thread between its
push and its `arm()`, or between announcing a content mutation and sending its
command (consecutive statements); the content publisher, which polls every
millisecond; both threads of a slot transport while they have work, and its
deadline; the bridge thread and a worker process that is alive; a running
worklet, the port and the page's frames (`io_tasks` needs the frames only while
a task runs); the cycles of a playing sync loop. None on user commands,
time-outs, crashes, restarts, attachments, recoveries or a suspended worklet.
`PlansLand` of `loop_group_grid` uses that the leader keeps playing, which the
configuration guarantees by sending it no commands.

Several properties except what a history variable records. Those of `io_tasks`
except transfers that outlived their operation, because it was abandoned or
failed while the transfer went on (`abandoned`, `stale`), or that were carried
over to another engine (`carried`); `VerdictsAreTrue` moreover the two verdicts
that the application gives without asking the engine (`stale`, `unapplied`); and
`TasksEnd` excepts exactly `Deaf`, an answer lost behind a refused command, and
`Starved`, reads that nothing asks for again. `content_snapshots` excepts the
`excuses`, and late copies until they are published, which `SettledIsPublished`
says they are; `composites` a latched fault and the loops that the end of a script
left behind (`left`). In each case the unrestricted statement is false, and listed next.

## 4. Findings

What a comment, a document or a test of the repository says, and the code does
not do. The first is a run; the others can be reproduced with the configuration
named, which lists the one statement that TLC finds violated.

1. `MCIoTasksCancel`, `CancelledIsNotCommitted`. `docs/session_format_v1.md:116`:
   cancellation before commit leaves the prior mapping intact. `cancel_io_task`
   (`shoop_app/src/lib.rs:3576`) leaves the transfer with the client, whose
   `poll` pumps it to its commit. A load that is started next is refused
   ("another session replacement is active"); a save after a cancelled save
   gets the older capture.
2. `MCIoTasksIdle`, `IdleHoldsNothing`.
   `docs/worklet_backend_refactoring_plan.md:327`: cancellation and rejection
   leave no retained bytes. A link that fails under a replacement fails its
   task and leaves the transfer, and later its outcome, to the next one. The
   proof attempt found what that can lead to: `MCIoTasksCarried`,
   `FailedIsNotCommitted`, against "The operation failed; the prior session is
   unchanged" (`shoop_egui/src/app_widget.rs:1462`). The transfer a failed link
   left behind is ended by the first poll on a new attachment, because the
   generation of the transport changed; but intents are handled before the poll
   (`shoop_app/src/lib.rs`, `tick`), and a duplicate that begins a capture
   stores the new generation (`shoop_worklet_client/src/lib.rs:2061`). The old
   transfer is then pumped to the new engine, which rejects each of its chunks,
   and an error ends the transfer of its kind whatever its generation: one that
   began later fails, while its commit is already on its way.
3. `MCContentSnapshotsOverlap`, `EveryExactReadIsCurrent`.
   `content_snapshot/status.rs:114`, `audio_channel.rs:586`: the end of one
   mutation takes away the announcement of another that overlaps it, and an
   exact read answers with content the channel no longer has. The same statement
   fails without an overlap, by a late answer: a recording that stops inside a
   callback settles and releases there (`audio_channel.rs:571`), and the copies of
   its earlier sub-blocks are published at the callback's end
   (`audio_channel.rs:824`). `ExactReadsAreCurrent` allows this answer to lack
   exactly such copies.
4. `MCCompositeScriptEnd`, `StoppedIsSilent`. `composite_runtime.rs:468`,
   `composite_timeline.rs:589`: a script that ends where its edited plan takes
   over keeps a child with an explicit mode in iteration 0 of that plan; the
   child plays on under the stopped script (the test
   `deferred_replacement_preserves_continuations_and_script_completion_stays_stopped`
   asserts that no child is active).
5. `MCCompositeStop`, `StoppedRunsNewest`. `composite_runtime.rs:351`,
   `composite_timeline.rs:1086`: a stop that waited for the boundary stops the
   composite and leaves the newer plan pending; an immediate stop takes it over
   (`tests/composite_control.rs:451`).
6. `MCCompositeZero`, `ZeroRunsNewest`. `composite_timeline.rs:1040`: a composite
   brought to iteration zero by its parent or by a transition goes on with its
   old plan.
7. `MCEngineQueueReturns`, `ReturnNeverFails`. `engine.rs:12` says pushing to the
   return ring cannot fail. The popped command's slot can be refilled before its
   box is returned, so `capacity + 1` boxes exist and the last one is dropped on
   the audio thread.
8. `MCGraphSchedulerDrop`, `DropKeepsBatch`. `graph_scheduler.rs:62` says
   dropping never loses a pending batch. The worker tests `stop` first.
9. `MCGraphRebuildFlush`, `FlushMeansCurrent`. `app_backend.rs:3667` says that
   when `wait_process` returns the schedule has landed. An apply that found work
   in flight re-arms, does nothing, and still counts for the flush.
10. `MCGraphRebuildStranded`, `ChangesLand`. `graph_scheduler.rs:18` bounds
    staleness by one window. A query that times out ends the apply without
    arming: the change waits for the next one.
11. `MCLoopGroupDetached`, `DetachedIsUnsynced`. `session.rs:1345` stresses that
    followers of a removed loop are detached. They keep their last snapshot.
12. `MCLoopGroupEnd`, `EndIsTriggered`. `basic_loop.rs:241`: a follower that
    reached its end leaves the trigger to its playing source; if that stops
    first, the follower stays at its end, in a playing mode.
13. `MCLoopGroupAlign`, `AlignedToSource`. `basic_loop.rs:450`: an aligned
    transition applied in the same batch as `set_sync_source` aligns to a
    placeholder.
14. `MCBlockSlotsMiss`, `MissIsNoFault`. `run_shared_worker` says a stale
    realtime block must not turn one scheduling miss into a crash;
    `bridge_thread` latches a missed block as a fault.
15. `MCRemoteBackendReplay`, `OnlyStateIsReplayed`. `transport.rs:147` (client):
    a command that finds the live queue full stays in the journal although its
    sender was told it failed, and is replayed at the next attachment.
16. `MCIoTasksStarved`, `SavesEnd`. `shoop_worklet_client/src/lib.rs:474`: the reads
   of a capture are asked for when an answer to it is heard, and only while less
   than half of the command queue is taken. Nothing asks again. When commands
   beside the transfer take that half at the moment the last outstanding chunk is
   heard, the save waits for ever, however empty the queue is later. No document
   speaks of it; it is here because `TasksEnd` excepts it.

Met while modelling, and visible in the modules without a statement of their
own: a parent entry that outlasts its nested composite latches the composite
fault, which the application never resets (`composite_timeline.rs:1232`); a
countdown is not taken down at a boundary where a pending plan is activated
(`composite_runtime.rs:417`); an older plan that stays pending can override a
newer one, and installations are rejected while any plan names a removed loop
(`composite_timeline.rs:571`, `session.rs:999`); a restart after a changed
nesting drops pending transitions (`composite_timeline.rs:500`); an error answer
clears the transfer of its kind whatever its generation, and an error of a
request for display data ends the poll and loses the responses drained with it,
so that a task can hang (`shoop_worklet_client/src/lib.rs:2272`); an import or a copy
whose track is removed meanwhile is shown as failed ("stale loop"), though the
engine may have committed it or will (`shoop_app/src/lib.rs:3886`); a save stays
running on a link that failed without being detached; a session the engine
took and the application could not (`advance_io`) stays in the engine although
the UI says the prior one is unchanged.

## 5. Proofs

**HandoverProofs**, EngineQueue (any capacity, any number of sends; assumptions
`CapacityAssumption`, `MaxSendsAssumption`). The safety properties are not
inductive: that what ran, runs and is queued counts 1, 2, 3, ... needs the number
of the command between the ring and the session. `IInv` adds to the types

* `Numbering`: the number of every command wherever it is,
* `Publication`: `lastApplied` trails what ran by the command being stored,
* `Reserving`: nobody else sends between reservation and push,
* `Announced`: from the first pop to the published staleness the flag is up,
  and whenever it is down the published staleness reflects all that ran,
* `Reading`: what the reader of the staleness knows while it holds the handle,
* `Waited`, `Gone`, and the property `BatchIsQueued` itself.

`InitInv`, `ControlInv` and `AudioInv` show it inductive, one step per action;
`TypeCorrect`, `CommandsRunOnceInOrder`, `ReservationsHold`,
`BatchesAreQueued`, `QuietIsFinal` and `WaitsAreTruthful` follow.
`ImplementsCommandChannel` maps a push to accepting a command, a store of
`last_applied_command` to applying the oldest, the drop of the engine to
closing, and every other step to a stutter.

**HandoverProofs**, GraphScheduler (any flushers, any number of arms). `SchedInv`
adds to the properties that a flusher's target is a generation that exists.
`SchedulerTypeCorrect`, `ArmsAreKept`, `FlushesAreImmediate` and `AppliesCover`
follow.

**HandoverProofs**, BlockSlots (any number of slots, blocks and restarts).
`SlotsInv` relates the program counter of each side to the state word of its slot,
and the identity in the slot's header to the block each side believes it holds.
`SlotsTypeCorrect`, `SlotsHeld` and `AnswersAreOwn` follow.

**GraphRebuildProofs** (any mutators, flushers, changes, arms and time-outs).
`IInv` is `Typed`, `Honest` (no description, built schedule or queued
installation is newer than the session's topology), `Counted` (changes that
landed and changes in the queue are the changes sent), `Published` (what the
staleness and the flag say in each state of the engine, and that the closure
reads the flag over an empty queue), `Asked` (while no query has timed out, at
most one is queued, it is the one the closure waits for, and its answer can be no
other's) and `Watched` (while none has timed out and nobody owes the newest
topology a look, the schedule is up to date; `Owed` names who does in each
state of the senders, the worker and its closure).
`IdIsHonest` and `EveryChangeIsWatched` follow.
`ImplementsScheduler` needs only `Flushing`, the flushers' part; it maps
`ArmAfterSend` and the closure's re-arm to `Arm`, `WindowElapses`, `TakeBatch`,
`FinishApply`, `BeginFlush` and `EndFlush` to themselves, and all else to
stutters.

**LoopGroupProofs** (any loops, sessions and commands, any limits).
`TriggersReachFollowers` needs that a loop which has taken its trigger still
triggers, and that needs what every operation on a loop preserves: `Sane` (a
loop in a playing mode has content, its plans wait for ever more triggers, a
loop that has taken its trigger triggers). The lemmas of the first half prove it
of each operator of BasicLoop, so of whatever a command does. `IInv` is the
types, `LoopsAreSane`, `Placed` (where a callback is) and the property.
`TypeCorrect`, `LoopsStaySane` and `FollowersTrigger` follow.
`WavesAlwaysSettle` assumes fewer loops than `MaxWaves` (32 in the code,
`composite_timeline.rs:34` and `session.rs:2905`): every wave but the last makes
one more loop trigger, and within a sub-block a loop that triggers goes on doing
so. With more loops in a chain the fault can be latched; the code has no check
that keeps a session below the limit.
`FollowersKeepToGrid` assumes `Synchronised`, which `MCLoopGroupGrid` assumes too
and TLC evaluates: sources are playing loops that nobody commands, storage ends
where one of their cycles does, followers start on the grid and are only told to
transit at triggers. Each part is needed: a loop aligned to a stale snapshot, a
recording cut off by its storage and a source that is resized leave the grid.
`AllStay` carries, for every follower and in every phase, that a recording has the
source's position as remainder of its length and a playing loop as remainder of
its position (`InPhase`), and that a loop can only be at its end while a wave has
yet to bring it the trigger of a source at the start of its cycle. The lemmas about
remainders (`OneRemainder`, `Along`, `Around`, `AtLimit`) say that what moves along
with the source keeps its remainder or ends a cycle with it, and that a limit on
the grid is only passed from the limit itself, which is why a recording whose
storage is full holds whole cycles.

**CompositeProofs** (any loops and composites in any nesting, any descriptions,
modes and number of commands). Three layers, each about what the one below
returns:

* The compiler. `CompileSound`: whatever a description says, its plan is `Sound`,
  which is to say that both of its tables have at most one cell for a target and
  an iteration, and only for targets the plan lists: in `Written`, of the
  occurrences that cover an iteration exactly one is the last (`Ordered`).
* The runtime. `Settled` says that a runtime has the targets of its plan and one
  mode for each active one; `Follows` that what is active is what the plan wants
  in the present iteration. `ReconcileBrings` says of `reconcile` that it tells a
  target at most one thing, that what it told is active afterwards, and that
  targets it told nothing are as before (`Delivers`). Every operation of
  `composite_runtime.rs` that succeeds inherits that (`Yields`, `Resolves`).
* The boundary. `ResolvedAll` carries both through the composites in their order,
  parents first: each is at most once told what to do, and the intents that reach
  a basic loop are those of its composite. `CommitHolds` and `CommitAgrees` then
  take the effects to the loops.

`IInv` is the types and `Held`: every composite's active and pending plan is sound,
its runtime is settled and follows its active plan, and both plans and the
registry come from its descriptions. `TypeCorrect` follows, and
`PlansSwapOnlyAtPassEnd`, because `TakesOver` is what a boundary can do to a plan.
`LoopsFollowPlan` needs a second invariant, `Agree`: a loop is in the mode that
its composite holds active for it, and stopped where none does. That cannot be
had from the plans alone: a mode is commanded once, when it changes, so a loop is
right because nothing else was said to it since. Hence the hypothesis `OneOwner`
of `LoopsFollowTheirPlans`. The code accepts a loop in two composites; of what they
say in one sub-block the strongest counts, and the overruled composite goes on
taking its own word for carried out.

The recursive functions of these modules (where sections begin, the composites in
their order) are `LET` functions. That they exist, and that what holds of their
arguments holds of their values, is proved of each by its smallest
counterexample (`SmallestExists`), because the library's induction theorems
cannot be instantiated.

**CarlaSupervisorProofs** (any plugin states, commands and time-outs). `Talk` is
what the conversation guarantees by itself: `Counted` (each request that timed
out leaves one message more in the stream than is waited for), `Overtook` (those
lie before the message of the request in hand), `Own` (so in a process that
never timed out the only message belongs to the request waited for), and
`Effects` and `Current` (what that request has done to the plugins when its
answer is in the stream). `Asked` says which request the bridge waits for at each
of its steps, `Beliefs` where the supervisor's belief and the worker's state agree,
with the exception of a restore that is carried out and not yet heard of.
`Agreed` says that the
application holds what a restart would restore, which makes the answer of a save
that failed the one it had. `TypeCorrect`, `RunningChainsAreRestored` and
`SavesStayNewOrHeld` follow.

**ContentSnapshotsProofs** (any transport, queue and number of revisions). The
publisher trails the channel by the update blocks in the queue. The invariant
says that there is a replay `b` of these blocks (`IsReplay`), from what the
builder holds to what it will hold after each, and that it leads to the channel's
content as long as no update is missing (`Leads`), and to nothing a reader under
way could wrongly take for exact (`Answers`). Copies that come late make the last
two weaker than equality: what is published under a revision `Lacks` of the content
at most late copies with later revisions, whenever no mutation is announced
(`Rests`), and what a reader can still be given lacks at most that of something
the channel held during the read (`Observable`). `Turns`, `Loads` and `Counted`
are what the announcement of a mutation excludes. All of it holds while
no known way to lose exactness was taken (`excuses`). `TypeCorrect` and
`ExactReadsStayCurrent` follow.

**IoTasksProofs** (any loops, documents, chunks, queues, tasks and engines). The
invariant speaks of a client, its commands in flight and the answers of which the
first n were heard, so that it can be carried through a poll answer by answer
(`Flow`, `AnsweredFlow`), through the pumps and through what the operation does
then:

* `UsedOnce`: no generation is taken twice; `Ended`: an outcome nobody took is
  that of the last transfer of its kind;
* `Capturing`: a capture begins once and before anything of it is read
  (`Beginning`), and its chunks on both sides and between them are of one capture,
  taken since the operation began (`OneCapture`);
* `Replacing`: what is in flight of a kind belongs to the one transfer of that
  kind (`Owned`), in order (`InOrder`), with all that a command needs at the host
  or before it (`Reaches`), and is judged once, when all of it was served
  (`Judged`); a transfer that can still be committed is the work under way
  (`WorkedOn`), and what was committed for a task that does not know it is on its
  way to it (`Done`);
* `Idle`, `Shown`, `Asked`: nothing is in flight to an engine the client has not
  turned to, and what the task shows is what is being done.

`TypeCorrect`, `CapturesStayCurrent`, `VerdictsStayTrue` and `CommitsStayAsked`
follow. `WorkedOn` is what failed at first: a transfer that survives the loss of
its engine (finding 2) is nobody's work. `NothingLeftOver` excepts exactly that, and the transfers of a stale
loop with it. A commit that the engine refuses changes neither the session nor what
was committed, so its answer is judged as any error is; commands beside the
transfers only take room (`BesideKeepsSending`).

**RemoteBackendProofs** (any values, queue capacity, number of calls and
attachments). Two things lead an engine to the tracks the application made: the
commands that are still before it, and, for the next engine, the journal. They
are not the same sequence, because the journal replaces a setting where it
stands. `Leads(c, q, d)` says that an engine that holds `c` accepts every command
of `q` and holds `d` then: there is a history of what it holds, from `c` to `d`,
of which each command takes it one step on (`Runs`). The lemmas say what `Leads` makes of a
command appended, handled or put before a queue. `LeadsReplaced` is the core: a
setting may be replaced where it stands, because every later command either names
another track or writes another field, or creates or removes a track without
touching this one, so that the old setting and the new commute with it. `IInv` is
the types, `Idle` (an engine and a port nobody is attached to hold nothing),
`StartCounted`, and, while no call failed, `Follows`: the journal leads from a
fresh engine, and the queue from the engine as it is, to what was made
(`Made`); no command of the journal names a track before its creation, and what
was removed is not known (`JournalOrdered`); and no answer under way is an error. `TypeCorrect`
and `EngineKeepsFollowing` follow.

The latter assumes `OneSettingPerField`: no two settings write the same field.
`SetLoopTiming` and `SetLoopLength` both write the length, but only tests call
`set_loop_length` on a backend; the application sets lengths through
`set_loop_timing` (`shoop_app/src/lib.rs:1540`). Without the assumption the statement is false, and
`MCRemoteBackendTiming.cfg` shows it: after a timing, a length and another timing,
the third replaces the first where it stands, and a replay ends with the length.
That is how the assumption was found: the lemma about replacing could not be
proved without it.

**Model-checked only.** Liveness and everything under fairness (outside the
prover's reach): `QueuedIsRun`, `FlushReturns`, `ChangesLandInTime`,
`NextChangeRecovers`, `PlansLand` of the loops and of the composites,
`CallReturns`, `AbandonedComeBack`, `LateReplyIsNoticed`, `CommandsAreTaken`,
`AttachBecomesUsable`, `SettledIsPublished`, `LoadsEnd`, `RecordingEnds`,
`TransitionsLand` and `TasksEnd`. Every invariant, every action property and both
refinements that a passing run checks are theorems.

## 6. What is not modelled

Engine: the diagnostic snapshot boxes, the parked engine that control calls pump
themselves before a driver takes it, wrap-around of 64-bit sequence numbers, and
weak-memory reorderings. Rebuild: the content of a schedule and its buffers.
Loops: `cycle_count`, the predicted next trigger, the published mirror, channel
content (a recording ends where its storage does), pre-record storage; LoopGroup
takes the composite timeline to be empty, and CompositeTimeline takes a loop to
be what was last commanded of it. Composites: removal of a composite, seeks
(only tests call them), capacities, positions inside a cycle. Content: pre-recording, a recording whose first queued copy fails, the MIDI twin of the writer, retirement of
generations, the acknowledgement of dirty data, the session epoch. Carla: the
serialized reference transport, log forwarding, the spawn handshake. Remote
backend: waveform and MIDI detail transfers, and what else shares the command queue
with the I/O tasks (only that it takes room and may be refused), the device
worker. Application: exports and click tracks, which follow the pattern of saves
and imports, the native backend's synchronous operations, and everything that is
not an I/O task. The remaining components of the inventory are listed with their
reasons in `PROJECT.json`.

## 7. Plan

1. Proof that a session whose composites nest sanely never latches the composite
   fault; followers on the grid behind a chain of sources.
2. The application's model of tracks: optimistic controls, pending connections
   and their ages, refused creations, over RemoteBackend.
3. `SnapshotBoxes`, the three owners of the diagnostic boxes; the composite
   seqlock with its stores reordered as relaxed ordering allows.
4. The topological order of `graph.rs`, MIDI storage and the ring buffers as
   operators, each against a reference definition.
5. Removal of composites and the composition of CompositeTimeline with the
   waves of LoopGroup.
