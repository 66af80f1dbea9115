----------------------------- MODULE BlockSlots -----------------------------
(***************************************************************************)
(* The shared-memory transport of the Carla plugin host: a fixed set of    *)
(* slots through which the audio side (the "parent") hands one block at a  *)
(* time to a worker and waits, up to a deadline, for the answer.           *)
(*                                                                         *)
(* The same transport is used twice in the code, and "role" says where:    *)
(*   "bridge"   the realtime endpoint calls a thread of the same process   *)
(*              (carla_processor.rs, CarlaRealtimeProcessor/bridge_thread) *)
(*   "process"  that thread calls the worker process                       *)
(*              (carla_subprocess.rs, SubprocessCarlaProcessor and         *)
(*              run_shared_worker), which may crash and be restarted with  *)
(*              a new generation and a new mapping.                        *)
(*                                                                         *)
(* The two sides share only the slots.  Every access to a slot's state     *)
(* word, and every block copied into or out of a slot, is a step.  The     *)
(* content of a block is abstracted to its identity, <<generation,         *)
(* sequence>>; Torn stands for a region someone is writing.                *)
(***************************************************************************)
EXTENDS Naturals, FiniteSets

CONSTANTS SlotCount,      \* SHARED_SLOT_COUNT (3 in the code)
          MaxBlocks,      \* bound: blocks submitted per generation
          MaxGenerations  \* bound: worker processes started

ASSUME SlotCountAssumption == SlotCount \in Nat \ {0}
ASSUME BoundsAssumption == MaxBlocks \in Nat /\ MaxGenerations \in Nat \ {0}

Slots == 0 .. SlotCount - 1
Identities == Nat \X Nat
Torn == <<0, 0>>

States == {"free", "writing", "ready", "processing", "done", "abandoned"}

VARIABLES
  role,        \* which of the two uses of the transport this is
  state,       \* state word of each slot ("writing" is PARENT_WRITING)
  header,      \* identity stored in the slot's header
  input,       \* block whose input fills the slot's input region
  output,      \* block whose output fills the slot's output region
  generation,  \* generation of the current mapping
  parent,      \* the calling thread: pc, slot, sequence, scan, seen, late, next, got
  worker,      \* the answering thread: pc, slot, scan, block
  fault        \* why the worker no longer takes blocks, "none" while it does

shared == <<state, header, input, output>>
slotVars == <<role, state, header, input, output, generation, parent, worker, fault>>

Resting == {"idle", "answered", "silent", "failed"}
ParentPcs == Resting \union {"claim", "header", "content", "publish", "wait",
                            "judge", "copy", "release"}
WorkerPcs == {"scan", "read", "run", "write", "fill", "complete"}
Faults == {"none", "host", "miss", "dead"}

Block == <<generation, parent.sequence>>

FreshMapping ==
  /\ state' = [s \in Slots |-> "free"]
  /\ header' = [s \in Slots |-> Torn]
  /\ input' = [s \in Slots |-> Torn]
  /\ output' = [s \in Slots |-> Torn]

IdleParent == [pc |-> "idle", slot |-> 0, sequence |-> 0, scan |-> 0,
               seen |-> "free", late |-> FALSE, next |-> 0, got |-> Torn]
IdleWorker == [pc |-> "scan", slot |-> 0, scan |-> 0, block |-> Torn]

SlotsInit ==
  /\ role \in {"bridge", "process"}
  /\ state = [s \in Slots |-> "free"]
  /\ header = [s \in Slots |-> Torn]
  /\ input = [s \in Slots |-> Torn]
  /\ output = [s \in Slots |-> Torn]
  /\ generation = 1
  /\ parent = IdleParent
  /\ worker = IdleWorker
  /\ fault = "none"

-----------------------------------------------------------------------------
(* The parent: submit, then wait_and_copy_reusing_midi. *)

(* process: take the next sequence number and look for a slot. *)
Submit ==
  /\ parent.pc \in {"idle", "answered", "silent"}
  /\ parent.sequence < MaxBlocks
  /\ parent' = [parent EXCEPT !.pc = "claim", !.sequence = @ + 1, !.scan = 0,
                              !.late = FALSE, !.got = Torn]
  /\ UNCHANGED <<role, shared, generation, worker, fault>>

ScannedSlot == (parent.next + parent.scan) % SlotCount

(* The compare-and-exchange FREE -> PARENT_WRITING succeeds on this slot. *)
Claim ==
  /\ parent.pc = "claim"
  /\ state[ScannedSlot] = "free"
  /\ state' = [state EXCEPT ![ScannedSlot] = "writing"]
  /\ parent' = [parent EXCEPT !.pc = "header", !.slot = ScannedSlot,
                              !.next = (ScannedSlot + 1) % SlotCount]
  /\ UNCHANGED <<role, header, input, output, generation, worker, fault>>

(* It fails: try the next slot, or give the block up as NoFreeSlot. *)
ClaimFails ==
  /\ parent.pc = "claim"
  /\ state[ScannedSlot] # "free"
  /\ parent' = IF parent.scan + 1 < SlotCount
               THEN [parent EXCEPT !.scan = @ + 1]
               ELSE [parent EXCEPT !.pc = "silent"]
  /\ UNCHANGED <<role, shared, generation, worker, fault>>

WriteHeader ==
  /\ parent.pc = "header"
  /\ header' = [header EXCEPT ![parent.slot] = Block]
  /\ input' = [input EXCEPT ![parent.slot] = Torn]
  /\ parent' = [parent EXCEPT !.pc = "content"]
  /\ UNCHANGED <<role, state, output, generation, worker, fault>>

WriteContent ==
  /\ parent.pc = "content"
  /\ input' = [input EXCEPT ![parent.slot] = Block]
  /\ parent' = [parent EXCEPT !.pc = "publish"]
  /\ UNCHANGED <<role, state, header, output, generation, worker, fault>>

(* More MIDI than the region holds: write_midi fails and "?" leaves the slot *)
(* in PARENT_WRITING, which no other step ever leaves.  The realtime endpoint *)
(* counts a miss and goes on; the subprocess fails until it is restarted.    *)
WriteOverflows ==
  /\ parent.pc = "content"
  /\ parent' = [parent EXCEPT !.pc = IF role = "bridge" THEN "silent" ELSE "failed"]
  /\ UNCHANGED <<role, shared, generation, worker, fault>>

(* The slot is published and the worker woken.  The wake-up of a worker      *)
(* process is a datagram: when it cannot be sent, process fails and leaves   *)
(* the slot READY.                                                           *)
Publish ==
  /\ parent.pc = "publish"
  /\ state' = [state EXCEPT ![parent.slot] = "ready"]
  /\ \E next \in {"wait", "failed"} :
       /\ next = "failed" => role = "process" /\ fault = "dead"
       /\ parent' = [parent EXCEPT !.pc = next]
  /\ UNCHANGED <<role, header, input, output, generation, worker, fault>>

(* The clock passes the deadline of the block. *)
DeadlinePasses ==
  /\ parent.pc \in {"wait", "judge"}
  /\ ~parent.late
  /\ parent' = [parent EXCEPT !.late = TRUE]
  /\ UNCHANGED <<role, shared, generation, worker, fault>>

LoadState ==
  /\ parent.pc = "wait"
  /\ parent' = [parent EXCEPT !.pc = "judge", !.seen = state[parent.slot]]
  /\ UNCHANGED <<role, shared, generation, worker, fault>>

(* DONE: copy it if the header still names this block, otherwise report *)
(* StaleCompletion and leave the slot to the worker.                    *)
SeeDone ==
  /\ parent.pc = "judge" /\ parent.seen = "done"
  /\ IF header[parent.slot] = Block
     THEN /\ parent' = [parent EXCEPT !.pc = "copy"]
          /\ UNCHANGED state
     ELSE /\ parent' = [parent EXCEPT !.pc = "silent"]
          /\ state' = [state EXCEPT ![parent.slot] = "abandoned"]
  /\ UNCHANGED <<role, header, input, output, generation, worker, fault>>

Spin ==
  /\ parent.pc = "judge" /\ parent.seen # "done" /\ ~parent.late
  /\ parent' = [parent EXCEPT !.pc = "wait"]
  /\ UNCHANGED <<role, shared, generation, worker, fault>>

\* Mutants: the slot is freed instead; a block in the worker's hands is waited for.
AbandonFrees ==
  /\ parent.pc = "judge" /\ parent.seen # "done" /\ parent.late
  /\ IF state[parent.slot] = parent.seen
     THEN /\ state' = [state EXCEPT ![parent.slot] = "free"]
          /\ parent' = [parent EXCEPT !.pc = "silent"]
     ELSE /\ parent' = [parent EXCEPT !.pc = "wait"]
          /\ UNCHANGED state
  /\ UNCHANGED <<role, header, input, output, generation, worker, fault>>

AbandonUntaken ==
  /\ parent.pc = "judge" /\ parent.seen # "done" /\ parent.late
  /\ IF state[parent.slot] = parent.seen /\ parent.seen = "ready"
     THEN /\ state' = [state EXCEPT ![parent.slot] = "abandoned"]
          /\ parent' = [parent EXCEPT !.pc = "silent"]
     ELSE /\ parent' = [parent EXCEPT !.pc = "wait"]
          /\ UNCHANGED state
  /\ UNCHANGED <<role, header, input, output, generation, worker, fault>>

(* Past the deadline: the exchange seen -> ABANDONED, which loops when the *)
(* worker changed the word in between.                                     *)
Abandon ==
  /\ parent.pc = "judge" /\ parent.seen # "done" /\ parent.late
  /\ IF state[parent.slot] = parent.seen
     THEN /\ state' = [state EXCEPT ![parent.slot] = "abandoned"]
          /\ parent' = [parent EXCEPT !.pc = "silent"]
     ELSE /\ parent' = [parent EXCEPT !.pc = "wait"]
          /\ UNCHANGED state
  /\ UNCHANGED <<role, header, input, output, generation, worker, fault>>

CopyOutput ==
  /\ parent.pc = "copy"
  /\ parent' = [parent EXCEPT !.pc = "release", !.got = output[parent.slot]]
  /\ UNCHANGED <<role, shared, generation, worker, fault>>

(* The slot is freed whether or not the MIDI of the answer fitted. *)
Release ==
  /\ parent.pc = "release"
  /\ state' = [state EXCEPT ![parent.slot] = "free"]
  /\ \E outcome \in {"answered", "silent"} :
       parent' = [parent EXCEPT !.pc = outcome]
  /\ UNCHANGED <<role, header, input, output, generation, worker, fault>>

Parent ==
  \/ Submit \/ Claim \/ ClaimFails \/ WriteHeader \/ WriteContent
  \/ WriteOverflows \/ Publish \/ LoadState \/ SeeDone \/ Spin
  \/ Abandon \/ CopyOutput \/ Release

-----------------------------------------------------------------------------
(* The worker: worker_take, the host's block, worker_complete. *)

\* Mutant: abandoned slots are passed over.
LookForReady ==
  /\ worker.pc = "scan" /\ fault = "none"
  /\ IF state[worker.scan] = "ready"
     THEN /\ state' = [state EXCEPT ![worker.scan] = "processing"]
          /\ worker' = [worker EXCEPT !.pc = "read", !.slot = worker.scan, !.scan = 0]
     ELSE /\ worker' = [worker EXCEPT !.scan = (@ + 1) % SlotCount]
          /\ UNCHANGED state
  /\ UNCHANGED <<role, header, input, output, generation, parent, fault>>

(* worker_take looks at one slot.  The load and the exchange that follows   *)
(* are one step: nobody else leaves ABANDONED, and an exchange that loses a *)
(* race leaves what an earlier look would have left.                        *)
Look ==
  /\ worker.pc = "scan" /\ fault = "none"
  /\ LET next == [worker EXCEPT !.scan = (@ + 1) % SlotCount]
     IN CASE state[worker.scan] = "abandoned" ->
               /\ state' = [state EXCEPT ![worker.scan] = "free"]
               /\ worker' = next
          [] state[worker.scan] = "ready" ->
               /\ state' = [state EXCEPT ![worker.scan] = "processing"]
               /\ worker' = [worker EXCEPT !.pc = "read", !.slot = worker.scan,
                                           !.scan = 0]
          [] OTHER -> worker' = next /\ UNCHANGED state
  /\ UNCHANGED <<role, header, input, output, generation, parent, fault>>

CopyInput ==
  /\ worker.pc = "read"
  /\ worker' = [worker EXCEPT !.pc = "run", !.block = input[worker.slot]]
  /\ UNCHANGED <<role, shared, generation, parent, fault>>

HostRuns ==
  /\ worker.pc = "run"
  /\ worker' = [worker EXCEPT !.pc = "write"]
  /\ UNCHANGED <<role, shared, generation, parent, fault>>

(* The host refuses the block: the bridge latches processing_faulted, the *)
(* worker process exits.  The slot stays PROCESSING.                      *)
HostFails ==
  /\ worker.pc = "run"
  /\ fault' = IF role = "bridge" THEN "host" ELSE "dead"
  /\ worker' = IdleWorker
  /\ UNCHANGED <<role, shared, generation, parent>>

(* The host panics: the thread, or the process, is gone.  The process may *)
(* also be killed at any point.                                           *)
WorkerDies ==
  /\ fault # "dead"
  /\ worker.pc = "run" \/ role = "process"
  /\ fault' = "dead"
  /\ worker' = IdleWorker
  /\ UNCHANGED <<role, shared, generation, parent>>

\* Mutant: the slot is DONE before its output is written.
StartOutputDone ==
  /\ worker.pc = "write"
  /\ state[worker.slot] = "processing"
  /\ state' = [state EXCEPT ![worker.slot] = "done"]
  /\ output' = [output EXCEPT ![worker.slot] = Torn]
  /\ worker' = [worker EXCEPT !.pc = "fill"]
  /\ UNCHANGED <<role, header, input, generation, parent, fault>>

StartOutput ==
  /\ worker.pc = "write"
  /\ output' = [output EXCEPT ![worker.slot] = Torn]
  /\ worker' = [worker EXCEPT !.pc = "fill"]
  /\ UNCHANGED <<role, state, header, input, generation, parent, fault>>

FillOutput ==
  /\ worker.pc = "fill"
  /\ output' = [output EXCEPT ![worker.slot] = worker.block]
  /\ worker' = [worker EXCEPT !.pc = "complete"]
  /\ UNCHANGED <<role, state, header, input, generation, parent, fault>>

Complete ==
  /\ worker.pc = "complete"
  /\ state[worker.slot] = "processing"
  /\ state' = [state EXCEPT ![worker.slot] = "done"]
  /\ worker' = IdleWorker
  /\ UNCHANGED <<role, header, input, output, generation, parent, fault>>

(* The parent gave the block up in the meantime: the worker frees the slot  *)
(* and reports DeadlineMiss.  run_shared_worker goes on; bridge_thread      *)
(* treats it like any other error.                                          *)
CompleteLate ==
  /\ worker.pc = "complete"
  /\ state[worker.slot] = "abandoned"
  /\ state' = [state EXCEPT ![worker.slot] = "free"]
  /\ worker' = IdleWorker
  /\ fault' = IF role = "bridge" THEN "miss" ELSE fault
  /\ UNCHANGED <<role, header, input, output, generation, parent>>

SlotWorker ==
  \/ Look \/ CopyInput \/ HostRuns \/ HostFails \/ StartOutput \/ FillOutput
  \/ Complete \/ CompleteLate

-----------------------------------------------------------------------------
(* ToggleOrRecover succeeds on the bridge thread: processing resumes. *)
Recover ==
  /\ role = "bridge" /\ fault \in {"host", "miss"}
  /\ fault' = "none"
  /\ UNCHANGED <<role, shared, generation, parent, worker>>

(* start_generation, on the thread that is the parent here: the old worker *)
(* is killed and the new one maps a new file.                              *)
Restart ==
  /\ role = "process"
  /\ generation < MaxGenerations
  /\ parent.pc \in Resting
  /\ generation' = generation + 1
  /\ FreshMapping
  /\ parent' = IdleParent
  /\ worker' = IdleWorker
  /\ fault' = "none"
  /\ UNCHANGED role

SlotsNext == Parent \/ DeadlinePasses \/ SlotWorker \/ WorkerDies \/ Recover \/ Restart

(* Both threads keep running while they have work, and clocks advance.  That *)
(* a host answers, dies, recovers or is restarted is never assumed.          *)
SlotsSpec == SlotsInit /\ [][SlotsNext]_slotVars
FairSpec ==
  /\ SlotsSpec
  /\ WF_slotVars(Parent /\ parent.pc \notin Resting)
  /\ WF_slotVars(DeadlinePasses)
  /\ WF_slotVars(SlotWorker)
-----------------------------------------------------------------------------
Waiting == {"wait", "judge", "copy", "release"}
Working == {"read", "run", "write", "fill", "complete"}

SlotsTypeOK ==
  /\ role \in {"bridge", "process"}
  /\ state \in [Slots -> States]
  /\ header \in [Slots -> Identities]
  /\ input \in [Slots -> Identities]
  /\ output \in [Slots -> Identities]
  /\ generation \in Nat \ {0}
  /\ parent \in [pc : ParentPcs, slot : Slots, sequence : Nat, scan : Slots,
                 seen : States, late : BOOLEAN, next : Slots, got : Identities]
  /\ worker \in [pc : WorkerPcs, slot : Slots, scan : Slots, block : Identities]
  /\ fault \in Faults

(* What the caller hears is the whole answer to the block it submitted: never *)
(* the answer to an earlier block, to a block of an earlier process, or a     *)
(* region the worker is still writing (wait_and_copy_reusing_midi).           *)
AnswerIsOwn == parent.pc = "answered" => parent.got = Block

(* A slot the parent is waiting on is never freed or reused under it, so the  *)
(* StaleCompletion branch of wait_and_copy is only a defence.                 *)
WaitedSlotIsHeld ==
  parent.pc \in Waiting =>
    /\ state[parent.slot] \in {"ready", "processing", "done"}
    /\ header[parent.slot] = Block

(* The worker works on whole blocks of a slot it holds.                       *)
WorkedSlotIsHeld ==
  worker.pc \in Working =>
    /\ state[worker.slot] \in {"processing", "abandoned"}
    /\ worker.pc # "read" => worker.block = header[worker.slot]

(* Two threads, one slot: neither side is ever handed a slot the other still  *)
(* reads or writes, although a block may be given up by one and completed     *)
(* late by the other (worker_take, worker_complete, submit).                  *)
SlotsAreHeld == WaitedSlotIsHeld /\ WorkedSlotIsHeld

(* Every call returns: the spin of wait_and_copy ends at the deadline at the  *)
(* latest, whatever the worker does, even when it is dead.                    *)
CallReturns ==
  parent.pc = "claim" ~> parent.pc \in Resting

(* An abandoned slot comes back while the worker takes blocks, so misses do   *)
(* not use the slots up (worker_take, worker_complete).                       *)
AbandonedComeBack ==
  \A s \in Slots : state[s] = "abandoned" ~> (state[s] = "free" \/ fault # "none")

(* run_shared_worker's comment: a stale realtime block "must not turn one     *)
(* scheduling miss into" a crash.  bridge_thread latches it as one.           *)
MissIsNoFault == fault # "miss"
=============================================================================
