----------------------------- MODULE EngineQueue -----------------------------
(***************************************************************************)
(* The boundary between the control thread and the audio thread            *)
(* (shoop_engine/src/engine.rs): a ring of commands one way, a ring of     *)
(* spent command boxes the other way, and the atomics the audio thread     *)
(* publishes.                                                              *)
(*                                                                         *)
(* Two threads interleave.  The control side is one process because every  *)
(* caller reaches the EngineHandle through one mutex and keeps it from     *)
(* try_reserve to send_reserved; the audio side is the driver callback.    *)
(* A command box is named by its sequence number.  What a command does to  *)
(* the session is abstracted to its place in the history `executed`.       *)
(***************************************************************************)
EXTENDS Naturals, Sequences, FiniteSets

CONSTANTS
  Capacity,   \* the slots of each of the two rings (split's `capacity`)
  MaxSends    \* bound on the commands one behaviour sends

ASSUME CapacityAssumption == Capacity \in Nat \ {0}
ASSUME MaxSendsAssumption == MaxSends \in Nat

VARIABLES
  commands,       \* ring: sequence numbers queued, oldest first
  returns,        \* ring: boxes on their way back to be freed
  alive,          \* Engine::drop clears it
  nextSequence,   \* EngineHandle::next_sequence
  handlePc,       \* where the control thread is in try_reserve/send_reserved
                  \*   or in graph_may_need_rebuild's two reads
  reservation,    \* CommandReservation held between the two calls
  enginePc,       \* where the audio thread is in its callback
  accepted,       \* commands of this batch still to pop
  running,        \* box popped and not yet handed back; 0 is none
  batchInFlight,  \* Stats::command_batch_in_flight
  lastApplied,    \* Stats::last_applied_command
  published,      \* newest command the published graph_stale reflects
  executed,       \* history: commands run, in the order they ran
  waits,          \* outcome of the wait for each sequence number
  dropped         \* boxes the audio thread had to free itself

controlVars == <<nextSequence, handlePc, reservation, waits>>
engineVars  == <<enginePc, accepted, running, batchInFlight, lastApplied,
                 published, executed, dropped>>
vars == <<commands, returns, alive, controlVars, engineVars>>

Sequence == 1..MaxSends
None     == 0

HandlePcs == {"idle", "reclaim", "alive", "slots", "reserved",
              "pending", "flag", "quiet"}
EnginePcs == {"idle", "accept", "raise", "pop", "run", "store", "return",
              "publish", "clear", "gone"}
Outcomes  == {"none", "waiting", "ok", "timeout"}

TypeOK ==
  /\ commands \in Seq(Nat) /\ Len(commands) <= Capacity
  /\ returns \in Seq(Nat) /\ Len(returns) <= Capacity
  /\ alive \in BOOLEAN
  /\ nextSequence \in 1..(MaxSends + 1)
  /\ handlePc \in HandlePcs
  /\ reservation \in Nat
  /\ enginePc \in EnginePcs
  /\ accepted \in 0..Capacity
  /\ running \in Nat
  /\ batchInFlight \in BOOLEAN
  /\ lastApplied \in Nat
  /\ published \in Nat
  /\ executed \in Seq(Nat)
  /\ waits \in [Sequence -> Outcomes]
  /\ dropped \subseteq Nat

Init ==
  /\ commands = <<>> /\ returns = <<>> /\ alive = TRUE
  /\ nextSequence = 1 /\ handlePc = "idle" /\ reservation = None
  /\ waits = [s \in Sequence |-> "none"]
  /\ enginePc = "idle" /\ accepted = 0 /\ running = None
  /\ batchInFlight = FALSE /\ lastApplied = 0 /\ published = 0
  /\ executed = <<>> /\ dropped = {}

-----------------------------------------------------------------------------
(* The control thread.                                                     *)

HandleStep(from, to) == handlePc = from /\ handlePc' = to

\* send / send_for_result: the caller takes the handle's mutex.
BeginSend ==
  /\ nextSequence <= MaxSends
  /\ HandleStep("idle", "reclaim")
  /\ UNCHANGED <<commands, returns, alive, nextSequence, reservation, waits,
                 engineVars>>

\* One iteration of reclaim's `while returns.pop().is_ok()`.
ReclaimOne ==
  /\ handlePc = "reclaim"
  /\ returns # <<>>
  /\ returns' = Tail(returns)
  /\ UNCHANGED <<commands, alive, controlVars, engineVars>>

ReclaimDone ==
  /\ returns = <<>>
  /\ HandleStep("reclaim", "alive")
  /\ UNCHANGED <<commands, returns, alive, nextSequence, reservation, waits,
                 engineVars>>

CheckAlive ==
  /\ handlePc = "alive"
  /\ handlePc' = IF alive THEN "slots" ELSE "idle"   \* Err(Disconnected)
  /\ UNCHANGED <<commands, returns, alive, nextSequence, reservation, waits,
                 engineVars>>

\* Mutant: the room is tested one command too late.
CheckSlotsLate ==
  /\ handlePc = "slots"
  /\ IF Len(commands) > Capacity
       THEN handlePc' = "idle" /\ UNCHANGED reservation
       ELSE handlePc' = "reserved" /\ reservation' = nextSequence
  /\ UNCHANGED <<commands, returns, alive, nextSequence, waits, engineVars>>

CheckSlots ==
  /\ handlePc = "slots"
  /\ IF Len(commands) = Capacity
       THEN /\ handlePc' = "idle"                    \* Err(Full)
            /\ UNCHANGED reservation
       ELSE /\ handlePc' = "reserved"
            /\ reservation' = nextSequence
  /\ UNCHANGED <<commands, returns, alive, nextSequence, waits, engineVars>>

\* send_reserved.  A full ring here is the code's unreachable!().  The caller
\* either forgets the sequence number or goes on to wait for it.
SendReserved ==
  /\ Len(commands) < Capacity
  /\ HandleStep("reserved", "idle")
  /\ commands' = Append(commands, reservation)
  /\ nextSequence' = nextSequence + 1
  /\ reservation' = None
  /\ \E outcome \in {"none", "waiting"} :
       waits' = [waits EXCEPT ![reservation] = outcome]
  /\ UNCHANGED <<returns, alive, engineVars>>

\* graph_may_need_rebuild, with the handle locked: first n_pending() > 0 ...
LookPending ==
  /\ HandleStep("idle", "pending")
  /\ UNCHANGED <<commands, returns, alive, nextSequence, reservation, waits,
                 engineVars>>

ReadPending ==
  /\ handlePc = "pending"
  /\ handlePc' = IF commands = <<>> THEN "flag" ELSE "idle"
  /\ UNCHANGED <<commands, returns, alive, nextSequence, reservation, waits,
                 engineVars>>

\* ... then command_batch_in_flight.  Neither: the published staleness is
\* taken as final ("quiet") until the handle is released.
ReadFlag ==
  /\ handlePc = "flag"
  /\ handlePc' = IF batchInFlight THEN "idle" ELSE "quiet"
  /\ UNCHANGED <<commands, returns, alive, nextSequence, reservation, waits,
                 engineVars>>

ReleaseHandle ==
  /\ HandleStep("quiet", "idle")
  /\ UNCHANGED <<commands, returns, alive, nextSequence, reservation, waits,
                 engineVars>>

\* wait_for_result / wait_for_command poll: the answer is a pushed result
\* (send_for_result) or a published sequence number that has caught up.
WaitOk(s) ==
  /\ waits[s] = "waiting"
  /\ \/ \E i \in 1..Len(executed) : executed[i] = s
     \/ lastApplied >= s
  /\ waits' = [waits EXCEPT ![s] = "ok"]
  /\ UNCHANGED <<commands, returns, alive, nextSequence, handlePc,
                 reservation, engineVars>>

\* The deadline passes after a poll that found nothing.  The command stays
\* queued and runs later all the same.
WaitTimeout(s) ==
  /\ waits[s] = "waiting"
  /\ waits' = [waits EXCEPT ![s] = "timeout"]
  /\ UNCHANGED <<commands, returns, alive, nextSequence, handlePc,
                 reservation, engineVars>>

Control == \/ BeginSend \/ ReclaimOne \/ ReclaimDone \/ CheckAlive
           \/ CheckSlots \/ SendReserved
           \/ LookPending \/ ReadPending \/ ReadFlag \/ ReleaseHandle
           \/ \E s \in Sequence : WaitOk(s) \/ WaitTimeout(s)

-----------------------------------------------------------------------------
(* The audio thread: one callback of Engine::process or Engine::pump.      *)

EngineStep(from, to) == enginePc = from /\ enginePc' = to

BeginCallback ==
  /\ EngineStep("idle", "accept")
  /\ UNCHANGED <<commands, returns, alive, controlVars, accepted, running,
                 batchInFlight, lastApplied, published, executed, dropped>>

\* Mutants: a batch of a whole ring, and one that leaves the newest command.
AcceptRingful ==
  /\ enginePc = "accept"
  /\ accepted' = IF commands = <<>> THEN 0 ELSE Capacity
  /\ enginePc' = IF commands = <<>> THEN "publish" ELSE "raise"
  /\ UNCHANGED <<commands, returns, alive, controlVars, running,
                 batchInFlight, lastApplied, published, executed, dropped>>

AcceptAllButOne ==
  /\ enginePc = "accept"
  /\ accepted' = IF commands = <<>> THEN 0 ELSE Len(commands) - 1
  /\ enginePc' = IF commands = <<>> THEN "publish" ELSE "raise"
  /\ UNCHANGED <<commands, returns, alive, controlVars, running,
                 batchInFlight, lastApplied, published, executed, dropped>>

\* The size of the batch is fixed here, once.
AcceptBatch ==
  /\ enginePc = "accept"
  /\ accepted' = Len(commands)
  /\ enginePc' = IF commands = <<>> THEN "publish" ELSE "raise"
  /\ UNCHANGED <<commands, returns, alive, controlVars, running,
                 batchInFlight, lastApplied, published, executed, dropped>>

RaiseBatchFlag ==
  /\ EngineStep("raise", "pop")
  /\ batchInFlight' = TRUE
  /\ UNCHANGED <<commands, returns, alive, controlVars, accepted, running,
                 lastApplied, published, executed, dropped>>

\* Mutants: the head is read and left queued; the number is published as
\* applied before the command has run.
PopCopies ==
  /\ accepted > 0
  /\ commands # <<>>
  /\ EngineStep("pop", "run")
  /\ running' = Head(commands)
  /\ accepted' = accepted - 1
  /\ UNCHANGED <<commands, returns, alive, controlVars, batchInFlight,
                 lastApplied, published, executed, dropped>>

PopPublishes ==
  /\ accepted > 0
  /\ commands # <<>>
  /\ EngineStep("pop", "run")
  /\ running' = Head(commands)
  /\ lastApplied' = Head(commands)
  /\ commands' = Tail(commands)
  /\ accepted' = accepted - 1
  /\ UNCHANGED <<returns, alive, controlVars, batchInFlight, published,
                 executed, dropped>>

Pop ==
  /\ accepted > 0
  /\ commands # <<>>
  /\ EngineStep("pop", "run")
  /\ running' = Head(commands)
  /\ commands' = Tail(commands)
  /\ accepted' = accepted - 1
  /\ UNCHANGED <<returns, alive, controlVars, batchInFlight, lastApplied,
                 published, executed, dropped>>

\* The command runs against the session; a send_for_result command also
\* stores its result, which a waiter may read from here on.
RunCommand ==
  /\ EngineStep("run", "store")
  /\ executed' = Append(executed, running)
  /\ UNCHANGED <<commands, returns, alive, controlVars, accepted, running,
                 batchInFlight, lastApplied, published, dropped>>

\* Mutant: the sequence number is published once per batch.
StoreAppliedPerBatch ==
  /\ EngineStep("store", "return")
  /\ lastApplied' = IF accepted = 0 THEN running ELSE lastApplied
  /\ UNCHANGED <<commands, returns, alive, controlVars, accepted, running,
                 batchInFlight, published, executed, dropped>>

StoreApplied ==
  /\ EngineStep("store", "return")
  /\ lastApplied' = running
  /\ UNCHANGED <<commands, returns, alive, controlVars, accepted, running,
                 batchInFlight, published, executed, dropped>>

\* Mutant: the return ring is taken to have room.
ReturnBoxUnchecked ==
  /\ EngineStep("return", "pop")
  /\ returns' = Append(returns, running)
  /\ running' = None
  /\ UNCHANGED <<commands, alive, controlVars, accepted, batchInFlight,
                 lastApplied, published, executed, dropped>>

\* `let _ = self.returns.push(queued)`: a full ring drops the box right here.
ReturnBox ==
  /\ EngineStep("return", "pop")
  /\ IF Len(returns) < Capacity
       THEN /\ returns' = Append(returns, running)
            /\ UNCHANGED dropped
       ELSE /\ dropped' = dropped \cup {running}
            /\ UNCHANGED returns
  /\ running' = None
  /\ UNCHANGED <<commands, alive, controlVars, accepted, batchInFlight,
                 lastApplied, published, executed>>

\* Mutant: the flag goes down before the staleness is published.
EndBatchEarly ==
  /\ accepted = 0
  /\ EngineStep("pop", "publish")
  /\ batchInFlight' = FALSE
  /\ UNCHANGED <<commands, returns, alive, controlVars, accepted, running,
                 lastApplied, published, executed, dropped>>

EndBatch ==
  /\ accepted = 0
  /\ EngineStep("pop", "publish")
  /\ UNCHANGED <<commands, returns, alive, controlVars, accepted, running,
                 batchInFlight, lastApplied, published, executed, dropped>>

\* publish_graph_staleness: the flag stored now reflects what has been run.
PublishStaleness ==
  /\ EngineStep("publish", "clear")
  /\ published' = Len(executed)
  /\ UNCHANGED <<commands, returns, alive, controlVars, accepted, running,
                 batchInFlight, lastApplied, executed, dropped>>

\* The flag is lowered only if this callback raised it; a callback without a
\* batch finds it low anyway.  cycle_inner touches none of this state.
ClearBatchFlag ==
  /\ EngineStep("clear", "idle")
  /\ batchInFlight' = FALSE
  /\ UNCHANGED <<commands, returns, alive, controlVars, accepted, running,
                 lastApplied, published, executed, dropped>>

DropEngine ==
  /\ EngineStep("idle", "gone")
  /\ alive' = FALSE
  /\ UNCHANGED <<commands, returns, controlVars, accepted, running,
                 batchInFlight, lastApplied, published, executed, dropped>>

Callback == \/ AcceptBatch \/ RaiseBatchFlag \/ Pop \/ RunCommand
            \/ StoreApplied \/ ReturnBox \/ EndBatch \/ PublishStaleness
            \/ ClearBatchFlag

Audio == BeginCallback \/ Callback \/ DropEngine

Next == Control \/ Audio

\* The driver keeps calling back and a callback runs to its end; the control
\* thread owes nothing.
Fairness == WF_vars(BeginCallback) /\ WF_vars(Callback)

Spec == Init /\ [][Next]_vars /\ Fairness

-----------------------------------------------------------------------------
(* Properties.                                                             *)

\* Every command handed to a caller is run exactly once, in the order of the
\* sequence numbers: what has run, what is being run and what is queued,
\* read in that order, count 1, 2, 3, ... up to the newest number handed out.
InFlight == IF enginePc = "run" THEN <<running>> ELSE <<>>
History  == executed \o InFlight \o commands

RunOnceInOrder ==
  /\ Len(History) = nextSequence - 1
  /\ \A i \in 1..Len(History) : History[i] = i

\* A reserved slot is still there when the command is pushed, whatever the
\* audio thread did in between: send_reserved's unreachable!() is.
ReservationHonoured == handlePc = "reserved" => Len(commands) < Capacity

\* A callback never applies more than one ring of commands, however fast the
\* control thread sends: the batch still to apply is queued in full.
BatchIsQueued == enginePc \in {"raise", "pop", "run", "store", "return"}
                   => accepted <= Len(commands)

\* A `graph_stale = false` reading is final once n_pending() read 0 and then
\* command_batch_in_flight read false: by then every command handed out has
\* run and the published flag reflects them all (graph_may_need_rebuild).
QuietMeansApplied ==
  handlePc = "quiet" => /\ Len(executed) = nextSequence - 1
                        /\ published = nextSequence - 1

\* A wait that succeeded waited for a command that ran; and the published
\* sequence number never runs ahead of what ran, nor lags by more than one.
OkMeansRan ==
  /\ \A s \in Sequence : waits[s] = "ok" => s <= Len(executed)
  /\ lastApplied <= Len(executed)
  /\ Len(executed) <= lastApplied + 1

\* The return ring is as large as the command ring, "so returning one can
\* never fail" and the audio thread never frees a box (engine.rs:11-14, 473).
ReturnNeverFails == dropped = {}

\* While the driver keeps calling back, a queued command is eventually run,
\* unless the engine is dropped first.
QueuedIsRun == \A s \in Sequence :
  (s < nextSequence) ~> (s <= Len(executed) \/ ~alive)

\* The promise to callers, with the popped command as the one beyond the ring.
Channel == INSTANCE CommandChannel WITH
  sent <- nextSequence - 1, applied <- lastApplied, alive <- alive,
  Outstanding <- Capacity + 1

ChannelSpec == Channel!Spec
=============================================================================
