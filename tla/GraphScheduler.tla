--------------------------- MODULE GraphScheduler ---------------------------
(***************************************************************************)
(* The coalescing timer of shoop_engine/src/graph_scheduler.rs: mutators   *)
(* arm a deadline, a worker thread applies one batch per deadline, and a   *)
(* flusher waits for an apply that has seen its change.  What an apply     *)
(* does is left open here; GraphRebuild fills it in.                       *)
(*                                                                         *)
(* The condition variable is modelled by its predicate: every wait of the  *)
(* code re-tests its condition under the mutex that every writer holds, so *)
(* a thread moves on exactly when the condition is true.                   *)
(***************************************************************************)
EXTENDS Naturals

CONSTANTS
  Flushers,   \* threads that call flush_blocking
  MaxArms     \* bound on dirty_gen

ASSUME MaxArmsAssumption == MaxArms \in Nat

VARIABLES
  deadline,     \* State::deadline: "none", "ahead" or "due"
  dirtyGen,     \* State::dirty_gen
  appliedGen,   \* State::applied_gen
  stop,         \* State::stop
  workerPc,     \* "wait" for a deadline, "applying", or "exited"
  coveringGen,  \* run's covering_gen
  target        \* flush_blocking's target per flusher; 0 when not flushing

schedVars == <<deadline, dirtyGen, appliedGen, stop, workerPc, coveringGen,
               target>>

SchedTypeOK ==
  /\ deadline \in {"none", "ahead", "due"}
  /\ dirtyGen \in 0..MaxArms
  /\ appliedGen \in 0..MaxArms
  /\ stop \in BOOLEAN
  /\ workerPc \in {"wait", "applying", "exited"}
  /\ coveringGen \in 0..MaxArms
  /\ target \in [Flushers -> 0..MaxArms]

SchedInit ==
  /\ deadline = "none" /\ dirtyGen = 0 /\ appliedGen = 0 /\ stop = FALSE
  /\ workerPc = "wait" /\ coveringGen = 0
  /\ target = [f \in Flushers |-> 0]

Larger(a, b) == IF a >= b THEN a ELSE b

\* Mutant: an apply that is running is trusted to see the change.
ArmIfWaiting ==
  /\ ~stop
  /\ dirtyGen < MaxArms
  /\ dirtyGen' = dirtyGen + 1
  /\ deadline' = IF deadline = "none" /\ workerPc = "wait" THEN "ahead"
                 ELSE deadline
  /\ UNCHANGED <<appliedGen, stop, workerPc, coveringGen, target>>

\* arm: the first change of a batch sets the deadline, later ones join it.
Arm ==
  /\ ~stop
  /\ dirtyGen < MaxArms
  /\ dirtyGen' = dirtyGen + 1
  /\ deadline' = IF deadline = "none" THEN "ahead" ELSE deadline
  /\ UNCHANGED <<appliedGen, stop, workerPc, coveringGen, target>>

\* Time passes the deadline.
WindowElapses ==
  /\ deadline = "ahead"
  /\ deadline' = "due"
  /\ UNCHANGED <<dirtyGen, appliedGen, stop, workerPc, coveringGen, target>>

\* Mutant: the generation is read one too high.
TakeBatchAhead ==
  /\ workerPc = "wait"
  /\ ~stop
  /\ deadline = "due"
  /\ deadline' = "none"
  /\ coveringGen' = dirtyGen + 1
  /\ workerPc' = "applying"
  /\ UNCHANGED <<dirtyGen, appliedGen, stop, target>>

\* run: the deadline is cleared and the generation read before the apply.
TakeBatch ==
  /\ workerPc = "wait"
  /\ ~stop
  /\ deadline = "due"
  /\ deadline' = "none"
  /\ coveringGen' = dirtyGen
  /\ workerPc' = "applying"
  /\ UNCHANGED <<dirtyGen, appliedGen, stop, target>>

\* Mutants: the deadline is cleared after the apply; everything armed until
\* now counts as applied; applies are counted instead of generations.
FinishApplyDisarms ==
  /\ workerPc = "applying"
  /\ appliedGen' = Larger(appliedGen, coveringGen)
  /\ deadline' = "none"
  /\ workerPc' = "wait"
  /\ UNCHANGED <<dirtyGen, stop, coveringGen, target>>

FinishApplyAll ==
  /\ workerPc = "applying"
  /\ appliedGen' = dirtyGen
  /\ workerPc' = "wait"
  /\ UNCHANGED <<deadline, dirtyGen, stop, coveringGen, target>>

FinishApplyCounts ==
  /\ workerPc = "applying"
  /\ appliedGen' = appliedGen + 1
  /\ workerPc' = "wait"
  /\ UNCHANGED <<deadline, dirtyGen, stop, coveringGen, target>>

FinishApply ==
  /\ workerPc = "applying"
  /\ appliedGen' = Larger(appliedGen, coveringGen)
  /\ workerPc' = "wait"
  /\ UNCHANGED <<deadline, dirtyGen, stop, coveringGen, target>>

\* run tests stop before it looks at the deadline.
WorkerExits ==
  /\ workerPc = "wait"
  /\ stop
  /\ workerPc' = "exited"
  /\ UNCHANGED <<deadline, dirtyGen, appliedGen, stop, coveringGen, target>>

\* Mutant: the window is left to run its course.
BeginFlushPatient(f) ==
  /\ ~stop
  /\ target[f] = 0
  /\ appliedGen < dirtyGen
  /\ target' = [target EXCEPT ![f] = dirtyGen]
  /\ UNCHANGED <<deadline, dirtyGen, appliedGen, stop, workerPc, coveringGen>>

\* flush_blocking returns at once when every change has been applied, and
\* otherwise brings the deadline forward and waits for its generation.
BeginFlush(f) ==
  /\ ~stop
  /\ target[f] = 0
  /\ appliedGen < dirtyGen
  /\ target' = [target EXCEPT ![f] = dirtyGen]
  /\ deadline' = "due"
  /\ UNCHANGED <<dirtyGen, appliedGen, stop, workerPc, coveringGen>>

EndFlush(f) ==
  /\ target[f] # 0
  /\ appliedGen >= target[f]
  /\ target' = [target EXCEPT ![f] = 0]
  /\ UNCHANGED <<deadline, dirtyGen, appliedGen, stop, workerPc, coveringGen>>

\* Drop: exclusive ownership, so no flusher and no mutator is inside.
Drop ==
  /\ ~stop
  /\ \A f \in Flushers : target[f] = 0
  /\ stop' = TRUE
  /\ UNCHANGED <<deadline, dirtyGen, appliedGen, workerPc, coveringGen, target>>

Worker == TakeBatch \/ FinishApply \/ WorkerExits

SchedNext ==
  \/ Arm \/ WindowElapses \/ Worker \/ Drop
  \/ \E f \in Flushers : BeginFlush(f) \/ EndFlush(f)

\* The worker is a thread of its own, time passes, and a flusher that may
\* return does.
SchedFairness ==
  /\ WF_schedVars(Worker)
  /\ WF_schedVars(WindowElapses)
  /\ \A f \in Flushers : WF_schedVars(EndFlush(f))

SchedSpec == SchedInit /\ [][SchedNext]_schedVars /\ SchedFairness

-----------------------------------------------------------------------------
(* Properties.                                                             *)

\* A change that no finished or running apply has observed is never without
\* a deadline: the worker cannot be asleep over it, so no arm is lost
\* between an apply that is running and the next one.
NoArmLost ==
  dirtyGen > Larger(appliedGen, IF workerPc = "applying" THEN coveringGen ELSE 0)
    => deadline # "none"

\* A flusher that waits never sits out a window and never depends on another
\* thread changing the graph again: an apply that covers its generation is
\* running, or the deadline has been brought forward for one.
FlushIsImmediate == \A f \in Flushers :
  target[f] > appliedGen =>
    \/ deadline = "due"
    \/ workerPc = "applying" /\ coveringGen >= target[f]

\* A flush returns for a change only after an apply that began with the change
\* already armed: what counts as applied was read before the latest apply
\* started, however many changes were armed while it ran.
AppliedIsCovered ==
  /\ appliedGen <= coveringGen /\ coveringGen <= dirtyGen
  /\ workerPc # "applying" => appliedGen = coveringGen

\* Every armed change is applied in the end, whatever the other changes and
\* flushes that join or overtake its batch, unless the scheduler is dropped.
BatchIsApplied == \A g \in 1..MaxArms :
  (dirtyGen >= g) ~> (appliedGen >= g \/ stop)

\* A flush always returns.
FlushReturns == \A f \in Flushers : (target[f] # 0) ~> (target[f] = 0)

\* "Dropping this stops the worker and waits for it, so a pending batch is
\* never lost" (graph_scheduler.rs:62).
DropKeepsBatch == workerPc = "exited" => appliedGen = dirtyGen
=============================================================================
