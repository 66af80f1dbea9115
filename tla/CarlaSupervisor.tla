--------------------------- MODULE CarlaSupervisor ---------------------------
(***************************************************************************)
(* The life of a supervised Carla chain as its bridge thread drives it     *)
(* (carla_processor.rs bridge_thread, carla_subprocess.rs                  *)
(* SupervisedCarlaProcessor and run_carla_worker): control commands, the   *)
(* request/reply conversation with the worker process over a stream,       *)
(* replies that come too late, crashes, and restarts from the checkpoint.  *)
(*                                                                         *)
(* The bridge thread is sequential: it runs one command, one health poll   *)
(* or one block at a time, and blocks in each request until the reply, the *)
(* timeout or the end of the stream.  The worker process answers requests  *)
(* in order and may die at any point.  Audio blocks are BlockSlots'        *)
(* business; here a block only succeeds, fails or is missed.               *)
(***************************************************************************)
EXTENDS Naturals, Sequences

CONSTANTS PluginStates,  \* states the plugins of the chain can be in
          Default,       \* the state of a freshly instantiated host
          MaxCommands,   \* bound: commands sent to the bridge
          MaxTimeouts    \* bound: replies that outlast their timeout, per process

ASSUME DefaultAssumption == Default \in PluginStates
ASSUME BoundsAssumption == MaxCommands \in Nat /\ MaxTimeouts \in Nat

VARIABLES
  sup,         \* SupervisedCarlaProcessor: lifecycle, active, checkpoint, saved
  cur,         \* its current SubprocessCarlaProcessor: exists, ready, active
  pc,          \* where the bridge thread is
  clears,      \* the command in hand clears the fault when it succeeds
  call,        \* outcome of the request it waits for or has just made
  worker,      \* worker process: alive, plugin, active
  requests,    \* stream to the worker
  replies,     \* stream back; a message is late when another request followed its own
  timeouts,    \* timeouts of this process so far
  faulted,     \* processing_faulted of the bridge thread
  shown,       \* lifecycle published to the control handles
  taken,       \* commands taken so far
  confirmed,   \* last_confirmed_state of the chain's track, in the application
  during,      \* plugin states since the pending save was requested (history)
  edited       \* has the plugin left the state the supervisor knows (history)

host == <<sup, cur>>
stream == <<worker, requests, replies, timeouts>>
bridge == <<faulted, shown, taken, confirmed>>
history == <<during, edited>>
vars == <<host, pc, clears, call, stream, bridge, history>>

Lifecycles == {"starting", "running", "crashed", "restarting", "unavailable"}
Broken == {"crashed", "unavailable"}

Pcs == {"commands", "activated", "saved", "restored", "toggle", "shown", "start",
        "instantiated", "startRestored", "startActivated", "startShown", "look",
        "looked", "block", "recovered", "relooked", "health", "checked"}
Ops == {"none", "status", "active", "visible", "save", "restore", "instantiate"}
Args == BOOLEAN \cup PluginStates
NoState == ""   \* the checkpoint of a chain that was never saved or restored

TypeOK ==
  /\ sup \in [lifecycle : Lifecycles, active : BOOLEAN, checkpoint : PluginStates,
              saved : BOOLEAN]
  /\ cur \in [exists : BOOLEAN, ready : BOOLEAN, active : BOOLEAN]
  /\ pc \in Pcs /\ clears \in BOOLEAN
  /\ call \in [op : Ops, arg : Args, outcome : {"none", "waiting", "ok", "failed"},
               value : PluginStates]
  /\ worker \in [alive : BOOLEAN, plugin : PluginStates, active : BOOLEAN]
  /\ requests \in Seq([op : Ops, arg : Args, late : BOOLEAN])
  /\ replies \in Seq([ok : BOOLEAN, value : PluginStates, late : BOOLEAN])
  /\ timeouts \in 0..MaxTimeouts /\ taken \in 0..MaxCommands
  /\ faulted \in BOOLEAN /\ shown \in Lifecycles
  /\ confirmed \in PluginStates \cup {NoState}
  /\ during \subseteq PluginStates /\ edited \in BOOLEAN

NoCall == [op |-> "none", arg |-> TRUE, outcome |-> "none", value |-> Default]

(* launch: the first generation is started without a checkpoint. *)
Init ==
  /\ \E started \in BOOLEAN :
       /\ sup = [lifecycle |-> IF started THEN "running" ELSE "unavailable",
                 active |-> FALSE, checkpoint |-> Default, saved |-> FALSE]
       /\ cur = [exists |-> started, ready |-> started, active |-> FALSE]
       /\ worker = [alive |-> started, plugin |-> Default, active |-> FALSE]
       /\ shown = sup.lifecycle
  /\ pc = "commands" /\ clears = FALSE
  /\ call = NoCall
  /\ requests = <<>> /\ replies = <<>>
  /\ timeouts = 0
  /\ faulted = FALSE
  /\ taken = 0 /\ confirmed = NoState
  /\ during = {} /\ edited = FALSE

-----------------------------------------------------------------------------
(* One request of the control conversation. *)

Overtaken(messages) == [i \in DOMAIN messages |-> [messages[i] EXCEPT !.late = TRUE]]

(* control_with_timeout writes the request; the thread then waits at "next". *)
Request(op, arg, next) ==
  /\ requests' = IF worker.alive
                 THEN Append(Overtaken(requests), [op |-> op, arg |-> arg, late |-> FALSE])
                 ELSE requests
  /\ replies' = Overtaken(replies)
  /\ call' = [op |-> op, arg |-> arg, outcome |-> "waiting", value |-> Default]
  /\ during' = IF op = "save" THEN {worker.plugin} ELSE during
  /\ pc' = next
  /\ UNCHANGED <<worker, timeouts, edited>>

\* Mutant: any answer of the right kind will do.
ReceiveAny ==
  /\ call.outcome = "waiting" /\ replies # <<>>
  /\ replies' = Tail(replies)
  /\ LET reply == Head(replies)
     IN call' = [call EXCEPT !.outcome = IF reply.ok THEN "ok" ELSE "failed",
                             !.value = reply.value]
  /\ UNCHANGED <<host, pc, clears, worker, requests, timeouts, bridge, history>>

(* The next message of the stream is taken for the reply; the request number *)
(* tells a late reply to an earlier request apart, and it is an error.       *)
Receive ==
  /\ call.outcome = "waiting" /\ replies # <<>>
  /\ replies' = Tail(replies)
  /\ LET reply == Head(replies)
     IN call' = [call EXCEPT !.outcome = IF ~reply.late /\ reply.ok THEN "ok" ELSE "failed",
                             !.value = reply.value]
  /\ UNCHANGED <<host, pc, clears, worker, requests, timeouts, bridge, history>>

(* No reply in time, or the stream ended. *)
GiveUp ==
  /\ call.outcome = "waiting" /\ replies = <<>>
  /\ worker.alive => timeouts < MaxTimeouts
  /\ timeouts' = IF worker.alive THEN timeouts + 1 ELSE timeouts
  /\ call' = [call EXCEPT !.outcome = "failed"]
  /\ UNCHANGED <<host, pc, clears, worker, requests, replies, bridge, history>>

(* The worker's control loop answers the oldest request.  The host may refuse *)
(* to save, to restore or to show its window.                                 *)
Serve ==
  /\ worker.alive /\ requests # <<>>
  /\ LET request == Head(requests)
     IN \E ok \in BOOLEAN :
          /\ request.op \in {"status", "active"} => ok
          /\ worker' = CASE ok /\ request.op = "active" ->
                              [worker EXCEPT !.active = request.arg]
                         [] ok /\ request.op = "restore" ->
                              [worker EXCEPT !.plugin = request.arg]
                         [] OTHER -> worker
          /\ replies' = Append(replies, [ok |-> ok, value |-> worker.plugin,
                                         late |-> request.late])
  /\ requests' = Tail(requests)
  /\ UNCHANGED <<host, pc, clears, call, timeouts, bridge, history>>

(* The plugins change on their own: their window, MIDI or automation. *)
PluginChanges ==
  /\ worker.alive
  /\ \E state \in PluginStates \ {worker.plugin} :
       /\ worker' = [worker EXCEPT !.plugin = state]
       /\ during' = IF during = {} THEN {} ELSE during \union {state}
  /\ edited' = TRUE
  /\ UNCHANGED <<host, pc, clears, call, requests, replies, timeouts, bridge>>

WorkerDies ==
  /\ worker.alive
  /\ worker' = [worker EXCEPT !.alive = FALSE]
  /\ requests' = <<>>
  /\ UNCHANGED <<host, pc, clears, call, replies, timeouts, bridge, history>>

-----------------------------------------------------------------------------
(* Commands of the control handles: any may be next in the channel. *)

Running == sup.lifecycle = "running"
Answered == call.outcome \in {"ok", "failed"}
Ok == call.outcome = "ok"
Idle == UNCHANGED <<call, stream, history>>   \* no request is made

(* What a restart would restore, and a save that gets no new state answers. *)
Held == IF sup.saved THEN sup.checkpoint ELSE NoState

Take == /\ pc = "commands" /\ taken < MaxCommands
        /\ taken' = taken + 1
        /\ UNCHANGED <<cur, clears, faulted, shown>>

TakeActive ==
  /\ Take /\ UNCHANGED confirmed
  /\ \E active \in BOOLEAN :
       /\ sup' = [sup EXCEPT !.active = active]
       /\ IF Running THEN Request("active", active, "activated") ELSE pc' = pc /\ Idle

(* set_visible restarts a broken chain when asked to show it. *)
TakeVisible ==
  /\ Take
  /\ UNCHANGED <<sup, confirmed>>
  /\ \E visible \in BOOLEAN :
       IF visible /\ sup.lifecycle \in Broken
       THEN pc' = "start" /\ Idle
       ELSE IF cur.exists THEN Request("visible", visible, "shown")
                          ELSE pc' = pc /\ Idle

(* toggle_or_recover restarts a broken chain and toggles the window of any other. *)
TakeToggle ==
  /\ pc = "commands" /\ taken < MaxCommands
  /\ taken' = taken + 1
  /\ clears' = TRUE
  /\ IF sup.lifecycle \in Broken
     THEN pc' = "start" /\ Idle
     ELSE Request("status", TRUE, "toggle")
  /\ UNCHANGED <<host, faulted, shown, confirmed>>

(* A save always succeeds: a chain that does not run answers its checkpoint. *)
TakeSave ==
  /\ Take
  /\ UNCHANGED sup
  /\ IF Running THEN Request("save", TRUE, "saved") /\ UNCHANGED confirmed
                ELSE /\ confirmed' = Held
                     /\ pc' = pc /\ Idle

(* Restoring a chain that does not run only replaces its checkpoint. *)
TakeRestore ==
  /\ Take
  /\ \E state \in PluginStates :
       IF Running
       THEN Request("restore", state, "restored") /\ UNCHANGED <<sup, confirmed>>
       ELSE /\ sup' = [sup EXCEPT !.checkpoint = state, !.saved = TRUE]
            /\ confirmed' = state
            /\ pc' = pc /\ Idle

Done(next) == /\ pc' = next
              /\ call' = NoCall /\ during' = {}
              /\ clears' = (clears /\ next # "commands")
              /\ UNCHANGED <<stream, taken>>

(* SubprocessCarlaProcessor::set_active, then the supervisor looks at is_ready. *)
Activated ==
  /\ pc = "activated" /\ Answered
  /\ cur' = IF Ok THEN [cur EXCEPT !.active = call.arg] ELSE [cur EXCEPT !.ready = FALSE]
  /\ sup' = IF cur'.ready /\ worker.alive THEN sup ELSE [sup EXCEPT !.lifecycle = "crashed"]
  /\ Done("commands")
  /\ UNCHANGED <<faulted, shown, edited, confirmed>>

(* The new state, or the checkpoint when the request was refused, timed out or *)
(* got an answer that is not its own: to the caller both are a success.        *)
Saved ==
  /\ pc = "saved" /\ Answered
  /\ IF Ok THEN /\ sup' = [sup EXCEPT !.checkpoint = call.value, !.saved = TRUE]
                /\ edited' = (worker.plugin # call.value)
           ELSE UNCHANGED <<sup, edited>>
  /\ confirmed' = Held'
  /\ Done("commands")
  /\ UNCHANGED <<cur, faulted, shown>>

Restored ==
  /\ pc = "restored" /\ Answered
  /\ IF Ok THEN /\ sup' = [sup EXCEPT !.checkpoint = call.arg, !.saved = TRUE]
                /\ edited' = (worker.plugin # call.arg)
           ELSE UNCHANGED <<sup, edited>>
  /\ confirmed' = IF Ok THEN call.arg ELSE confirmed
  /\ Done("commands")
  /\ UNCHANGED <<cur, faulted, shown>>

\* Mutant: a status that cannot be had says nothing about readiness.
StatusIfOk == cur' = cur

(* is_visible: the worker's status, which also says whether it is ready. *)
Status == cur' = [cur EXCEPT !.ready = Ok]

Toggle ==
  /\ pc = "toggle" /\ Answered
  /\ Status
  /\ Request("visible", TRUE, "shown")
  /\ UNCHANGED <<sup, clears, bridge>>

(* The last step of set_visible, and so of toggle_or_recover.  When the latter *)
(* succeeds the bridge forgets its processing fault.                           *)
Shown ==
  /\ pc = "shown" /\ Answered
  /\ Done(IF clears /\ Ok THEN "recovered" ELSE "commands")
  /\ faulted' = (faulted /\ ~(clears /\ Ok))
  /\ UNCHANGED <<host, shown, edited, confirmed>>

-----------------------------------------------------------------------------
(* start_generation(true). *)

(* The previous worker is asked to stop, waited for and killed; a new one is *)
(* launched with a stream of its own, and asked to instantiate its host.     *)
StartWorker ==
  /\ pc = "start"
  /\ \E launched \in BOOLEAN :
       /\ worker' = [alive |-> launched, plugin |-> Default, active |-> FALSE]
       /\ cur' = [exists |-> FALSE, ready |-> launched, active |-> FALSE]
       /\ IF launched
          THEN /\ sup' = [sup EXCEPT !.lifecycle = "restarting"]
               /\ requests' = <<[op |-> "instantiate", arg |-> TRUE, late |-> FALSE]>>
               /\ call' = [op |-> "instantiate", arg |-> TRUE, outcome |-> "waiting",
                           value |-> Default]
               /\ pc' = "instantiated" /\ clears' = clears
          ELSE /\ sup' = [sup EXCEPT !.lifecycle = "unavailable"]
               /\ requests' = <<>>
               /\ pc' = "commands" /\ clears' = FALSE
               /\ UNCHANGED call
  /\ replies' = <<>> /\ timeouts' = 0
  /\ edited' = FALSE
  /\ UNCHANGED <<bridge, during>>

Unavailable == sup' = [sup EXCEPT !.lifecycle = "unavailable"]

(* No host: the half-made processor is dropped, and its worker with it. *)
NotInstantiated ==
  /\ pc = "instantiated" /\ Answered /\ ~Ok
  /\ Unavailable
  /\ worker' = [worker EXCEPT !.alive = FALSE]
  /\ requests' = <<>> /\ replies' = <<>>
  /\ pc' = "commands"
  /\ call' = NoCall /\ clears' = FALSE
  /\ UNCHANGED <<cur, timeouts, bridge, history>>

\* Mutant: the new worker starts without the checkpoint.
InstantiatedFresh ==
  /\ pc = "instantiated" /\ Answered /\ Ok
  /\ cur' = [cur EXCEPT !.exists = TRUE]
  /\ Request("active", sup.active, "startActivated")
  /\ UNCHANGED <<sup, clears, bridge>>

Instantiated ==
  /\ pc = "instantiated" /\ Answered /\ Ok
  /\ cur' = [cur EXCEPT !.exists = TRUE]
  /\ IF sup.saved THEN Request("restore", sup.checkpoint, "startRestored")
                  ELSE Request("active", sup.active, "startActivated")
  /\ UNCHANGED <<sup, clears, bridge>>

StartRestored ==
  /\ pc = "startRestored" /\ Answered
  /\ IF Ok THEN /\ Request("active", sup.active, "startActivated")
                /\ UNCHANGED <<sup, clears, bridge>>
           ELSE /\ Unavailable /\ Done("commands")
                /\ UNCHANGED <<faulted, shown, edited, confirmed>>
  /\ UNCHANGED cur

(* A failed set_active only clears "ready": the start goes on. *)
StartActivated ==
  /\ pc = "startActivated" /\ Answered
  /\ cur' = IF Ok THEN [cur EXCEPT !.active = call.arg] ELSE [cur EXCEPT !.ready = FALSE]
  /\ Request("visible", TRUE, "startShown")
  /\ UNCHANGED <<sup, clears, bridge>>

StartShown ==
  /\ pc = "startShown" /\ Answered
  /\ sup' = [sup EXCEPT !.lifecycle = IF Ok THEN "running" ELSE "unavailable"]
  /\ Done(IF clears /\ Ok THEN "recovered" ELSE "commands")
  /\ faulted' = (faulted /\ ~(clears /\ Ok))
  /\ UNCHANGED <<cur, shown, edited, confirmed>>

-----------------------------------------------------------------------------
(* The rest of the bridge thread's loop. *)

(* Ask for the window when the chain runs, then go on at "next". *)
LookFrom(here, asked, next) ==
  \/ /\ pc = here /\ Running
     /\ Request("status", TRUE, asked)
     /\ UNCHANGED <<host, clears, bridge>>
  \/ /\ pc = here /\ ~Running
     /\ pc' = next
     /\ UNCHANGED <<host, clears, call, stream, bridge, history>>
  \/ /\ pc = asked /\ Answered
     /\ Status /\ Done(next)
     /\ UNCHANGED <<sup, faulted, shown, edited, confirmed>>

NoCommand ==
  /\ pc = "commands"
  /\ pc' = "look"
  /\ UNCHANGED <<host, clears, call, stream, bridge, history>>

\* Mutant: the status is asked for until it is had.
LookUntilOk ==
  \/ LookFrom("look", "looked", "block") /\ (pc = "looked" => Ok)
  \/ /\ pc = "looked" /\ call.outcome = "failed"
     /\ Request("status", TRUE, "looked")
     /\ UNCHANGED <<host, clears, bridge>>

Look == LookFrom("look", "looked", "block")

(* ToggleOrRecover stores the window's state before it publishes health. *)
LookAgain == LookFrom("recovered", "relooked", "health")

SkipBlock ==
  /\ pc = "block" /\ faulted
  /\ pc' = "commands"
  /\ UNCHANGED <<host, clears, call, stream, bridge, history>>

(* No block is waiting, or it is answered in time (with silence, when the inner *)
(* transport misses its own deadline).                                         *)
GoodBlock ==
  /\ pc = "block" /\ ~faulted
  /\ pc' = "health"
  /\ UNCHANGED <<host, clears, call, stream, bridge, history>>

Fault == /\ faulted' = TRUE /\ shown' = "crashed" /\ pc' = "commands"
         /\ UNCHANGED <<cur, clears, call, stream, taken, confirmed, history>>

(* The supervised processor refuses or fails the block. *)
BadBlock ==
  /\ pc = "block" /\ ~faulted
  /\ Running => cur.active /\ cur.ready
  /\ sup' = IF Running THEN [sup EXCEPT !.lifecycle = "crashed"] ELSE sup
  /\ Fault

(* The block is answered after the realtime endpoint gave it up. *)
LateBlock ==
  /\ pc = "block" /\ ~faulted /\ Running
  /\ UNCHANGED sup
  /\ Fault

(* publish_health: is_ready decides about the lifecycle, is_visible asks. *)
Lost == Running /\ ~(cur.ready /\ worker.alive)
Health ==
  /\ pc = "health"
  /\ IF Running /\ ~Lost
     THEN /\ Request("status", TRUE, "checked")
          /\ UNCHANGED <<sup, clears, bridge>>
     ELSE /\ sup' = IF Lost THEN [sup EXCEPT !.lifecycle = "crashed"] ELSE sup
          /\ shown' = sup'.lifecycle
          /\ pc' = "commands" /\ clears' = FALSE
          /\ UNCHANGED <<call, stream, faulted, taken, confirmed, history>>
  /\ UNCHANGED cur

Checked ==
  /\ pc = "checked" /\ Answered
  /\ Status /\ Done("commands")
  /\ shown' = sup.lifecycle
  /\ UNCHANGED <<sup, faulted, edited, confirmed>>

Bridge ==
  \/ TakeActive \/ TakeVisible \/ TakeToggle \/ TakeSave \/ TakeRestore
  \/ Activated \/ Saved \/ Restored \/ Toggle \/ Shown
  \/ StartWorker \/ NotInstantiated \/ Instantiated \/ StartRestored
  \/ StartActivated \/ StartShown
  \/ NoCommand \/ Look \/ LookAgain \/ SkipBlock \/ GoodBlock \/ BadBlock
  \/ LateBlock \/ Health \/ Checked
  \/ Receive \/ GiveUp

Next == Bridge \/ Serve \/ PluginChanges \/ WorkerDies

(* The bridge thread never stops, and a worker that lives answers: at once,  *)
(* or after its timeout as often as the bound allows.                        *)
Spec == Init /\ [][Next]_vars /\ WF_vars(Bridge) /\ WF_vars(Serve)

-----------------------------------------------------------------------------
(* No reply to an earlier request is under way. *)
InStep == requests = <<>> /\ replies = <<>>

(* A save never fails, so the application cannot tell a new state from an old  *)
(* one: it holds what a restart would restore, and a save gives it either a    *)
(* state the plugins were in between this request and its own answer or what   *)
(* it held already, never the late answer to an earlier save and never a state *)
(* that was refused (save_state, restore_state, control_with_timeout).         *)
SavesAreNewOrHeld ==
  [][/\ confirmed' = Held'
     /\ pc = "saved" /\ pc' = "commands" =>
          IF Ok THEN confirmed' \in during ELSE confirmed' = confirmed]_vars

(* A chain that runs is in the state its supervisor believes: after any crash  *)
(* and restart its plugins are in the checkpoint's state unless they changed   *)
(* since, and the worker is as active as the application asked, whatever was   *)
(* refused, timed out or asked for while it was down (start_generation).       *)
RunningIsRestored ==
  pc = "commands" /\ Running /\ cur.ready /\ worker.alive /\ InStep =>
    /\ ~edited => worker.plugin = IF sup.saved THEN sup.checkpoint ELSE Default
    /\ worker.active = sup.active /\ cur.active = sup.active

(* A reply that comes after its timeout puts the conversation out of step for  *)
(* good.  The bridge notices: the chain is shown as crashed or is restarted.   *)
LateReplyIsNoticed ==
  (\E i \in DOMAIN replies : replies[i].late) ~> (shown # "running" \/ InStep)

(* The bridge always gets back to its commands, however its worker hangs or    *)
(* dies: no request waits for ever.                                            *)
CommandsAreTaken == pc # "commands" ~> pc = "commands"
=============================================================================
