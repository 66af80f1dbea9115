----------------------------- MODULE GraphRebuild -----------------------------
(***************************************************************************)
(* How a topology change reaches the audio thread's schedule:              *)
(* SharedSession::send_topology queues the change and arms the scheduler,  *)
(* the engine applies it between cycles, and the scheduler's apply closure *)
(* (BackendSession::create_with_capacity) asks the engine for a description*)
(* of the topology, builds a schedule off the audio thread and sends it    *)
(* back to be installed.                                                   *)
(*                                                                         *)
(* A topology is named by the session's graph_request_id and a schedule by *)
(* the topology it was really built from.  The command ring is the FIFO    *)
(* that EngineQueue shows it to be; its capacity does not matter here, a   *)
(* sender that finds it full only waits.                                   *)
(***************************************************************************)
EXTENDS Naturals, Sequences, FiniteSets

CONSTANTS
  Mutators,      \* threads that change the topology
  Flushers,      \* threads that call AudioDriver::wait_process
  MaxChanges,    \* bound on the topology changes of one behaviour
  MaxArms,       \* bound on the scheduler's dirty_gen
  MaxTimeouts,   \* bound on the engine queries that time out
  Unbuildable    \* topologies build_schedule rejects (a routing cycle)

ASSUME BoundsAssumption ==
  /\ MaxChanges \in Nat /\ MaxArms \in Nat /\ MaxTimeouts \in Nat
  /\ Unbuildable \subseteq Nat

VARIABLES
  queue,        \* commands sent and not popped, oldest first
  requestId,    \* Session::graph_request_id
  appliedId,    \* Session::graph_applied_id
  schedule,     \* the topology the installed schedule was built from
  enginePc,     \* "idle", "batch", "publish" or "clear"
  accepted,     \* commands of the batch still to run
  batchInFlight, graphStale,             \* the two published atomics
  mutatorPc,    \* "idle", or "sent" between the push and arm()
  sent,         \* topology changes queued so far
  deadline, dirtyGen, appliedGen, coveringGen, target,   \* GraphScheduler
  workerPc,     \* the worker, inside the apply closure too
  query,        \* names the closure's current query
  answer,       \* the result slot of the current query
  prepared,     \* topology the schedule being sent was built from
  flusherPc,    \* where a thread is in wait_process
  wanted        \* the changes sent when it called wait_process

engineVars    == <<queue, requestId, appliedId, schedule, enginePc, accepted,
                   batchInFlight, graphStale>>
schedulerVars == <<deadline, dirtyGen, appliedGen, coveringGen, target>>
closureVars   == <<workerPc, query, answer, prepared>>
callerVars    == <<mutatorPc, sent, flusherPc, wanted>>
vars == <<engineVars, schedulerVars, closureVars, callerVars>>

Topology == 0..MaxChanges
NoAnswer == [kind |-> "none", id |-> 0]
Change   == [kind |-> "topology", id |-> 0, query |-> 0]
Describe(q)    == [kind |-> "describe", id |-> 0, query |-> q]
Install(id, q) == [kind |-> "install", id |-> id, query |-> q]

WorkerPcs == {"wait", "pending", "flag", "describe", "described", "build",
              "install", "installed", "finish"}

TypeOK ==
  /\ \A i \in 1..Len(queue) : queue[i] \in
       [kind : {"topology", "describe", "install"}, id : Topology,
        query : 0..MaxTimeouts]
  /\ requestId \in Topology /\ appliedId \in Topology /\ schedule \in Topology
  /\ enginePc \in {"idle", "batch", "publish", "clear"}
  /\ accepted \in 0..Len(queue)
  /\ batchInFlight \in BOOLEAN /\ graphStale \in BOOLEAN
  /\ mutatorPc \in [Mutators -> {"idle", "sent"}]
  /\ sent \in Topology
  /\ deadline \in {"none", "ahead", "due"}
  /\ dirtyGen \in 0..MaxArms /\ appliedGen \in 0..MaxArms
  /\ coveringGen \in 0..MaxArms
  /\ target \in [Flushers -> 0..MaxArms]
  /\ workerPc \in WorkerPcs
  /\ query \in 0..MaxTimeouts
  /\ answer \in [kind : {"none", "current", "topology", "installed"},
                 id : Topology]
  /\ prepared \in Topology
  /\ flusherPc \in [Flushers -> {"idle", "drain", "flush", "waiting", "done"}]
  /\ wanted \in [Flushers -> Topology]

Init ==
  /\ queue = <<>> /\ requestId = 0 /\ appliedId = 0 /\ schedule = 0
  /\ enginePc = "idle" /\ accepted = 0
  /\ batchInFlight = FALSE /\ graphStale = FALSE
  /\ mutatorPc = [m \in Mutators |-> "idle"] /\ sent = 0
  /\ deadline = "none" /\ dirtyGen = 0 /\ appliedGen = 0 /\ coveringGen = 0
  /\ target = [f \in Flushers |-> 0]
  /\ workerPc = "wait" /\ query = 0 /\ answer = NoAnswer /\ prepared = 0
  /\ flusherPc = [f \in Flushers |-> "idle"]
  /\ wanted = [f \in Flushers |-> 0]

-----------------------------------------------------------------------------
(* Mutators: push, then arm.  The push needs the handle's mutex, which     *)
(* graph_may_need_rebuild holds across its reads.                          *)

HandleFree == workerPc # "flag"

SendTopology(m) ==
  /\ mutatorPc[m] = "idle"
  /\ sent < MaxChanges
  /\ HandleFree
  /\ queue' = Append(queue, Change)
  /\ sent' = sent + 1
  /\ mutatorPc' = [mutatorPc EXCEPT ![m] = "sent"]
  /\ UNCHANGED <<requestId, appliedId, schedule, enginePc, accepted,
                 batchInFlight, graphStale, schedulerVars, closureVars,
                 flusherPc, wanted>>

\* GraphScheduler::arm.
ArmDeadline ==
  /\ dirtyGen < MaxArms
  /\ dirtyGen' = dirtyGen + 1
  /\ deadline' = IF deadline = "none" THEN "ahead" ELSE deadline
  /\ UNCHANGED <<appliedGen, coveringGen, target>>

ArmAfterSend(m) ==
  /\ mutatorPc[m] = "sent"
  /\ ArmDeadline
  /\ mutatorPc' = [mutatorPc EXCEPT ![m] = "idle"]
  /\ UNCHANGED <<engineVars, closureVars, sent, flusherPc, wanted>>

-----------------------------------------------------------------------------
(* The engine, between cycles.                                             *)

\* Mutant: a batch of one command more than is queued.
TakeOneMore ==
  /\ enginePc = "idle"
  /\ queue # <<>>
  /\ accepted' = Len(queue) + 1
  /\ batchInFlight' = TRUE
  /\ enginePc' = "batch"
  /\ UNCHANGED <<queue, requestId, appliedId, schedule, graphStale,
                 schedulerVars, closureVars, callerVars>>

TakeCommands ==
  /\ enginePc = "idle"
  /\ queue # <<>>
  /\ accepted' = Len(queue)
  /\ batchInFlight' = TRUE
  /\ enginePc' = "batch"
  /\ UNCHANGED <<queue, requestId, appliedId, schedule, graphStale,
                 schedulerVars, closureVars, callerVars>>

\* The answer reaches the closure only if it still waits for that query.
Reply(command, reply) ==
  IF command.query = query /\ workerPc \in {"described", "installed"}
    THEN answer' = reply
    ELSE UNCHANGED answer

\* note_graph_change
RunChange(command) ==
  /\ command.kind = "topology"
  /\ requestId' = requestId + 1
  /\ UNCHANGED <<appliedId, schedule, answer>>

\* (!s.graph_up_to_date()).then(|| s.describe_topology())
RunDescribe(command) ==
  /\ command.kind = "describe"
  /\ Reply(command, IF requestId = appliedId
                      THEN [kind |-> "current", id |-> 0]
                      ELSE [kind |-> "topology", id |-> requestId])
  /\ UNCHANGED <<requestId, appliedId, schedule>>

\* Mutant: the schedule is taken to cover everything requested so far.
RunInstallCurrent(command) ==
  /\ command.kind = "install"
  /\ schedule' = command.id
  /\ appliedId' = requestId
  /\ Reply(command, [kind |-> "installed", id |-> 0])
  /\ UNCHANGED requestId

\* install_schedule: the id comes from the prepared schedule.
RunInstall(command) ==
  /\ command.kind = "install"
  /\ schedule' = command.id
  /\ appliedId' = command.id
  /\ Reply(command, [kind |-> "installed", id |-> 0])
  /\ UNCHANGED requestId

RunNext ==
  /\ enginePc = "batch"
  /\ accepted > 0
  /\ queue' = Tail(queue)
  /\ accepted' = accepted - 1
  /\ \/ RunChange(Head(queue))
     \/ RunDescribe(Head(queue))
     \/ RunInstall(Head(queue))
  /\ UNCHANGED <<enginePc, batchInFlight, graphStale, schedulerVars, workerPc,
                 query, prepared, callerVars>>

\* Mutant: the flag goes down before the staleness is published.
EndBatchEarly ==
  /\ enginePc = "batch"
  /\ accepted = 0
  /\ enginePc' = "publish"
  /\ batchInFlight' = FALSE
  /\ UNCHANGED <<queue, requestId, appliedId, schedule, accepted, graphStale,
                 schedulerVars, closureVars, callerVars>>

EndBatch ==
  /\ enginePc = "batch"
  /\ accepted = 0
  /\ enginePc' = "publish"
  /\ UNCHANGED <<queue, requestId, appliedId, schedule, accepted,
                 batchInFlight, graphStale, schedulerVars, closureVars,
                 callerVars>>

PublishStaleness ==
  /\ enginePc = "publish"
  /\ graphStale' = (requestId # appliedId)
  /\ enginePc' = "clear"
  /\ UNCHANGED <<queue, requestId, appliedId, schedule, accepted,
                 batchInFlight, schedulerVars, closureVars, callerVars>>

ClearBatchFlag ==
  /\ enginePc = "clear"
  /\ batchInFlight' = FALSE
  /\ enginePc' = "idle"
  /\ UNCHANGED <<queue, requestId, appliedId, schedule, accepted, graphStale,
                 schedulerVars, closureVars, callerVars>>

Engine == \/ TakeCommands \/ RunNext \/ EndBatch \/ PublishStaleness
          \/ ClearBatchFlag

-----------------------------------------------------------------------------
(* The scheduler's worker thread and the apply closure it calls.           *)

ClosureStep(from, to) == workerPc = from /\ workerPc' = to

WindowElapses ==
  /\ deadline = "ahead"
  /\ deadline' = "due"
  /\ UNCHANGED <<engineVars, dirtyGen, appliedGen, coveringGen, target,
                 closureVars, callerVars>>

TakeBatch ==
  /\ ClosureStep("wait", "pending")
  /\ deadline = "due"
  /\ deadline' = "none"
  /\ coveringGen' = dirtyGen
  /\ UNCHANGED <<engineVars, dirtyGen, appliedGen, target, query, answer,
                 prepared, callerVars>>

\* graph_may_need_rebuild: with work queued or a batch in flight the window
\* is armed again and nothing is rebuilt now.  The bound on dirty_gen keeps
\* the mutators' own arms free; a closure that meets it looks again later.
ArmsOwed    == MaxChanges - sent + Cardinality({m \in Mutators : mutatorPc[m] = "sent"})

\* Mutant: pending work ends the apply without another window.
PendingWorkForgotten ==
  /\ \/ workerPc = "pending" /\ queue # <<>>
     \/ workerPc = "flag" /\ batchInFlight
  /\ workerPc' = "finish"
  /\ UNCHANGED <<engineVars, schedulerVars, query, answer, prepared,
                 callerVars>>

PendingWork ==
  /\ \/ workerPc = "pending" /\ queue # <<>>
     \/ workerPc = "flag" /\ batchInFlight
  /\ dirtyGen + ArmsOwed < MaxArms
  /\ ArmDeadline
  /\ workerPc' = "finish"
  /\ UNCHANGED <<engineVars, query, answer, prepared, callerVars>>

NothingQueued ==
  /\ queue = <<>>
  /\ ClosureStep("pending", "flag")
  /\ UNCHANGED <<engineVars, schedulerVars, query, answer, prepared,
                 callerVars>>

ReadStaleness ==
  /\ workerPc = "flag"
  /\ ~batchInFlight
  /\ workerPc' = IF graphStale THEN "describe" ELSE "finish"
  /\ UNCHANGED <<engineVars, schedulerVars, query, answer, prepared,
                 callerVars>>

\* query_graph_scheduler_response: queue the query ...
SendDescribe ==
  /\ ClosureStep("describe", "described")
  /\ queue' = Append(queue, Describe(query))
  /\ answer' = NoAnswer
  /\ UNCHANGED <<requestId, appliedId, schedule, enginePc, accepted,
                 batchInFlight, graphStale, schedulerVars, query, prepared,
                 callerVars>>

\* ... and wait for its answer: the topology, or that it was current already.
ReceiveDescription ==
  /\ workerPc = "described"
  /\ answer.kind \in {"topology", "current"}
  /\ workerPc' = IF answer.kind = "topology" THEN "build" ELSE "finish"
  /\ UNCHANGED <<engineVars, schedulerVars, query, answer, prepared,
                 callerVars>>

\* build_schedule, on this thread; an error ends the apply.
Build ==
  /\ workerPc = "build"
  /\ IF answer.id \in Unbuildable
       THEN workerPc' = "finish" /\ UNCHANGED prepared
       ELSE workerPc' = "install" /\ prepared' = answer.id
  /\ UNCHANGED <<engineVars, schedulerVars, query, answer, callerVars>>

SendInstall ==
  /\ ClosureStep("install", "installed")
  /\ queue' = Append(queue, Install(prepared, query))
  /\ answer' = NoAnswer
  /\ UNCHANGED <<requestId, appliedId, schedule, enginePc, accepted,
                 batchInFlight, graphStale, schedulerVars, query, prepared,
                 callerVars>>

ReceiveDisplaced ==
  /\ answer.kind = "installed"
  /\ ClosureStep("installed", "finish")
  /\ UNCHANGED <<engineVars, schedulerVars, query, answer, prepared,
                 callerVars>>

\* DEFAULT_WAIT_TIMEOUT: the closure gives up and arms nothing.  The query
\* stays queued; nobody reads its answer.
QueryTimesOut ==
  /\ workerPc \in {"described", "installed"}
  /\ query < MaxTimeouts
  /\ query' = query + 1
  /\ answer' = NoAnswer
  /\ workerPc' = "finish"
  /\ UNCHANGED <<engineVars, schedulerVars, prepared, callerVars>>

\* Mutant: everything armed until now counts as applied.
FinishApplyAll ==
  /\ ClosureStep("finish", "wait")
  /\ appliedGen' = dirtyGen
  /\ UNCHANGED <<engineVars, deadline, dirtyGen, coveringGen, target, query,
                 answer, prepared, callerVars>>

FinishApply ==
  /\ ClosureStep("finish", "wait")
  /\ appliedGen' = IF coveringGen > appliedGen THEN coveringGen ELSE appliedGen
  /\ UNCHANGED <<engineVars, deadline, dirtyGen, coveringGen, target, query,
                 answer, prepared, callerVars>>

Worker == \/ TakeBatch \/ PendingWork \/ NothingQueued \/ ReadStaleness
          \/ SendDescribe \/ ReceiveDescription \/ Build \/ SendInstall
          \/ ReceiveDisplaced \/ FinishApply

-----------------------------------------------------------------------------
(* AudioDriver::wait_process: drain_queue, then flush_blocking.  Its caller*)
(* has finished its own mutations.                                         *)

FlusherStep(f, from, to) ==
  /\ flusherPc[f] = from
  /\ flusherPc' = [flusherPc EXCEPT ![f] = to]

BeginWaitProcess(f) ==
  /\ FlusherStep(f, "idle", "drain")
  /\ \A m \in Mutators : mutatorPc[m] = "idle"
  /\ wanted' = [wanted EXCEPT ![f] = sent]
  /\ UNCHANGED <<engineVars, schedulerVars, closureVars, mutatorPc, sent>>

QueueDrained(f) ==
  /\ FlusherStep(f, "drain", "flush")
  /\ HandleFree
  /\ queue = <<>>
  /\ UNCHANGED <<engineVars, schedulerVars, closureVars, mutatorPc, sent,
                 wanted>>

\* drain_queue's own deadline passes; the flush is entered all the same.
DrainTimesOut(f) ==
  /\ MaxTimeouts > 0
  /\ FlusherStep(f, "drain", "flush")
  /\ UNCHANGED <<engineVars, schedulerVars, closureVars, mutatorPc, sent,
                 wanted>>

BeginFlush(f) ==
  /\ flusherPc[f] = "flush"
  /\ IF appliedGen >= dirtyGen
       THEN /\ FlusherStep(f, "flush", "done")
            /\ UNCHANGED <<deadline, target>>
       ELSE /\ FlusherStep(f, "flush", "waiting")
            /\ target' = [target EXCEPT ![f] = dirtyGen]
            /\ deadline' = "due"
  /\ UNCHANGED <<engineVars, dirtyGen, appliedGen, coveringGen, closureVars,
                 mutatorPc, sent, wanted>>

EndFlush(f) ==
  /\ FlusherStep(f, "waiting", "done")
  /\ appliedGen >= target[f]
  /\ target' = [target EXCEPT ![f] = 0]
  /\ UNCHANGED <<engineVars, deadline, dirtyGen, appliedGen, coveringGen,
                 closureVars, mutatorPc, sent, wanted>>

Flusher(f) == \/ BeginWaitProcess(f) \/ QueueDrained(f) \/ DrainTimesOut(f)
              \/ BeginFlush(f) \/ EndFlush(f)

Next == \/ \E m \in Mutators : SendTopology(m) \/ ArmAfterSend(m)
        \/ Engine \/ Worker \/ WindowElapses \/ QueryTimesOut
        \/ \E f \in Flushers : Flusher(f)

\* The driver keeps calling the engine, the worker is a thread of its own,
\* time passes, and a thread between its push and its arm runs on.
Fairness == /\ WF_vars(Engine) /\ WF_vars(Worker) /\ WF_vars(WindowElapses)
            /\ \A m \in Mutators : WF_vars(ArmAfterSend(m))

Spec == Init /\ [][Next]_vars /\ Fairness

-----------------------------------------------------------------------------
(* Properties.                                                             *)

\* The session never claims a schedule covers more than it was built from,
\* although topology changes land while a build is under way: claiming the
\* current request id would leave routing that silently never updates.
AppliedIdIsHonest == appliedId = schedule /\ appliedId <= requestId

\* A change that is in no schedule is on its way: its sender is about to arm,
\* a window is open, or the closure is at a point from which it will still
\* see the change - unless the description under way is the newest topology
\* and cannot be built, or a query of the closure timed out.
Described == IF workerPc \in {"install", "installed"} THEN prepared ELSE answer.id
ClosureWillSee ==
  \/ workerPc \in {"pending", "flag", "describe"}
  \/ workerPc = "described" /\ (answer.kind = "none" \/ answer.id = sent)
  \/ workerPc \in {"build", "install", "installed"} /\ Described = sent

ChangeIsWatched ==
  (appliedId # sent /\ query = 0 /\ sent \notin Unbuildable) =>
    \/ \E m \in Mutators : mutatorPc[m] = "sent"
    \/ deadline # "none"
    \/ ClosureWillSee

\* The newest topology always ends up in the schedule, also when an earlier
\* one could not be built, unless a query of the closure timed out.
Settled == sent = MaxChanges /\ MaxChanges \notin Unbuildable

ChangesLandInTime == Settled ~> (appliedId = MaxChanges \/ query > 0)

\* A query that times out strands what it was about at most until the next
\* change: once the closure is answered again, a change still to come takes
\* every earlier one into the schedule with it.
NextChangeRecovers ==
  []((query = MaxTimeouts /\ sent < MaxChanges) =>
       (Settled ~> (appliedId = MaxChanges)))

\* A change is in the schedule at the latest one window later, for "worst-case
\* staleness is therefore exactly one window" (graph_scheduler.rs:18): in any
\* case it gets there.
ChangesLand == Settled ~> (appliedId = MaxChanges)

\* wait_process: "Control work first, then the schedule that may depend on
\* it, so that by the time this returns both have landed" (app_backend.rs:3667).
FlushMeansCurrent == \A f \in Flushers :
  flusherPc[f] = "done" => appliedId >= wanted[f]

\* The worker, its closure and the callers use the deadline as
\* graph_scheduler.rs lays down.
Scheduler == INSTANCE GraphScheduler WITH
  stop <- FALSE,
  workerPc <- IF workerPc = "wait" THEN "wait" ELSE "applying"

SchedulerSpec == Scheduler!SchedInit /\ [][Scheduler!SchedNext]_(Scheduler!schedVars)
=============================================================================
