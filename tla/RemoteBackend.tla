---------------------------- MODULE RemoteBackend ----------------------------
(***************************************************************************)
(* The browser backend: an application whose engine lives in an audio      *)
(* worklet.  The client (shoop_worklet_client) journals the commands that  *)
(* make durable state, sends every command over a port, and matches the    *)
(* numbered responses; the host (shoop_audio_worklet) runs the commands on *)
(* an engine of its own; the driver (browser_audio.rs) builds, attaches    *)
(* and tears down the two ends.  Each attachment starts an empty engine    *)
(* and replays the journal to it.                                          *)
(*                                                                         *)
(* The page's main thread runs one event handler at a time (a UI frame, a  *)
(* message of the port, a state change of the audio context); the worklet  *)
(* runs beside it.  Tracks stand for everything an identifier is reserved  *)
(* for; a track has a control and a length, each set by a command.         *)
(***************************************************************************)
EXTENDS Naturals, Sequences

CONSTANTS Values,       \* values of controls and lengths
          Default,      \* the value of a new track's control and length
          Settings,     \* commands the application sets values with
          Capacity,     \* COMMAND_CAPACITY: journal, pending commands, inbound events
          MaxCalls,     \* bound: journalled calls of the application
          MaxAttaches   \* bound: attachments

ASSUME DefaultAssumption == Default \in Values
ASSUME SettingsAssumption == Settings \subseteq {"control", "length", "timing"}
ASSUME CapacityAssumption == Capacity \in Nat /\ Capacity >= 2
ASSUME BoundsAssumption == MaxCalls \in Nat /\ MaxAttaches \in Nat

VARIABLES
  journal,     \* TransportCore::journal
  generation,  \* TransportCore::generation
  link,        \* RemoteReadiness without the driver state
  next,        \* next_sequence
  expected,    \* next_response_sequence
  pending,     \* commands in flight, oldest first: command, replay
  inbound,     \* responses received and not drained: kind, command
  client,      \* identifiers: next, known
  driver,      \* driver_state of the readiness
  graph,       \* audio graph: "none", "context" or "built"
  start,       \* the newest start_audio_graph: "none", "permission" or "loading"
  clock,       \* startup_started is set
  toHost,      \* port to the worklet: seq, cmd
  fromHost,    \* port back: seq, kind
  engine,      \* the engine behind the port: next sequence, next identifier, tracks
  wanted,      \* tracks as the application made and set them (history)
  failed,      \* what has gone wrong: "call" refused here, "command" by the engine (history)
  calls        \* journalled calls so far

transport == <<generation, link, next, expected, pending, inbound>>
ports == <<toHost, fromHost>>
history == <<wanted, failed, calls>>
vars == <<journal, transport, client, driver, graph, start, clock, ports, engine, history>>

-----------------------------------------------------------------------------
(* Commands and the engine that runs them. *)

Ids == 1 .. MaxCalls
NoTracks == [t \in {} |-> Default]
NewTrack == [control |-> Default, length |-> Default]
Without(tracks, id) == [t \in DOMAIN tracks \ {id} |-> tracks[t]]
With(tracks, id, track) ==
  [t \in DOMAIN tracks \union {id} |-> IF t = id THEN track ELSE tracks[t]]

Command(op, id, value) == [op |-> op, id |-> id, value |-> value]
Configure == Command("configure", 0, Default)
Poll == Command("poll", 0, Default)
Drain == Command("drain", 0, Default)

(* SetLoopLength and SetLoopTiming both write the length. *)
Field(op) == IF op = "control" THEN "control" ELSE "length"

\* Mutant: any setting of the same track.
SupersedesAnySetting(new, old) == {new.op, old.op} \subseteq Settings /\ new.id = old.id

(* supersedes_in_journal: the same setting of the same track. *)
Supersedes(new, old) == new.op \in Settings /\ new.op = old.op /\ new.id = old.id

(* What a command makes of an engine's tracks. *)
Applied(tracks, cmd, id) ==
  CASE cmd.op = "create" -> With(tracks, id, NewTrack)
    [] cmd.op = "remove" -> Without(tracks, cmd.id)
    [] OTHER -> [tracks EXCEPT ![cmd.id][Field(cmd.op)] = cmd.value]

FreshEngine == [next |-> 1, ids |-> 1, tracks |-> NoTracks]

(* The engine with other tracks. *)
Holding(eng, ids, tracks) == [next |-> eng.next, ids |-> ids, tracks |-> tracks]

(* WorkletHost::handle.  A creation takes the engine's next identifier, and is *)
(* an error when the client expected another; one the engine refuses (value    *)
(* other than Default) takes none.                                             *)
Handled(eng, cmd) ==
  CASE cmd.op = "create" /\ cmd.value = Default ->
         [engine |-> Holding(eng, eng.ids + 1, Applied(eng.tracks, cmd, eng.ids)),
          kind |-> IF eng.ids = cmd.id THEN "ack" ELSE "error"]
    [] cmd.op = "create" /\ cmd.value # Default -> [engine |-> eng, kind |-> "error"]
    [] cmd.op = "remove" ->
         [engine |-> Holding(eng, eng.ids, Applied(eng.tracks, cmd, 0)), kind |-> "ack"]
    [] cmd.op \in Settings ->
         IF cmd.id \in DOMAIN eng.tracks
         THEN [engine |-> Holding(eng, eng.ids, Applied(eng.tracks, cmd, 0)), kind |-> "ack"]
         ELSE [engine |-> eng, kind |-> "error"]
    [] cmd.op = "poll" -> [engine |-> eng, kind |-> "snapshot"]
    [] OTHER -> [engine |-> eng, kind |-> "ack"]

-----------------------------------------------------------------------------
(* TransportCore. *)

Attached == link.connection = "attached"
Full == Len(pending) >= Capacity
Replaying == \E i \in DOMAIN pending : pending[i].replay

(* send: number the command, post it, and remember it. *)
Send(cmds) ==
  /\ toHost' = toHost \o [i \in DOMAIN cmds |-> [seq |-> next + i - 1, cmd |-> cmds[i]]]
  /\ pending' = pending \o [i \in DOMAIN cmds |-> [cmd |-> cmds[i], replay |-> FALSE]]
  /\ next' = next + Len(cmds)

(* The entry a command replaces, searched from the newest one. *)
Superseded(cmd) == {i \in DOMAIN journal : Supersedes(cmd, journal[i])}
Newest(indices) == CHOOSE i \in indices : \A j \in indices : j <= i

Journalled(cmd) ==
  IF Superseded(cmd) # {} THEN [journal EXCEPT ![Newest(Superseded(cmd))] = cmd]
                          ELSE Append(journal, cmd)

(* journal: refused when the journal is full; the entry stays when the command *)
(* cannot be sent.  "ok" is what the application is told.                      *)
Submit(cmd, ok) ==
  LET room == Superseded(cmd) # {} \/ Len(journal) < Capacity
  IN /\ ok = (room /\ (Attached => ~Full))
     /\ journal' = IF room THEN Journalled(cmd) ELSE journal
     /\ IF ok /\ Attached THEN Send(<<cmd>>) ELSE UNCHANGED <<toHost, pending, next>>
     /\ UNCHANGED <<generation, link, expected, inbound, fromHost>>

Fresh == [connection |-> "attached", protocol |-> "initializing",
          replay |-> "replaying", engine |-> "unknown"]
Detached == [connection |-> "detached", protocol |-> "detached",
             replay |-> "notStarted", engine |-> "unknown"]
Failed == [connection |-> "failed", protocol |-> "failed",
           replay |-> "failed", engine |-> "failed"]

(* Closing an endpoint drops what its port still holds: the drivers take the *)
(* message handler off a port before they let go of it.                      *)
ClosePort == toHost' = <<>> /\ fromHost' = <<>>

Fail ==
  /\ link' = Failed /\ driver' = "failed"
  /\ pending' = <<>>
  /\ ClosePort
  /\ UNCHANGED <<generation, next, expected, inbound>>

Detach ==
  /\ link' = Detached
  /\ pending' = <<>> /\ inbound' = <<>>
  /\ ClosePort
  /\ UNCHANGED <<generation, next, expected>>

\* Mutant: the replay counts as complete with the first answer.
MilestonesEager(seq, kind, replaying) ==
  [link EXCEPT
     !.protocol = IF @ = "initializing" /\ seq = 1 THEN "negotiated" ELSE @,
     !.replay = "complete",
     !.engine = IF kind = "snapshot" THEN "observed" ELSE @]

(* The readiness milestones a response passes. *)
Milestones(seq, kind, replaying) ==
  [link EXCEPT
     !.protocol = IF @ = "initializing" /\ seq = 1 THEN "negotiated" ELSE @,
     !.replay = IF replaying THEN @ ELSE "complete",
     !.engine = IF kind = "snapshot" THEN "observed" ELSE @]

(* receive: a response is taken only in its turn. *)
Receive(response) ==
  IF response.seq # expected \/ pending = <<>> \/ Len(inbound) >= Capacity THEN Fail
  ELSE /\ pending' = Tail(pending)
       /\ expected' = expected + 1
       /\ link' = Milestones(response.seq, response.kind,
                             \E i \in 2 .. Len(pending) : pending[i].replay)
       /\ inbound' = Append(inbound, [kind |-> response.kind, cmd |-> Head(pending).cmd])
       /\ fromHost' = Tail(fromHost)
       /\ UNCHANGED <<generation, next, driver, toHost>>

-----------------------------------------------------------------------------
(* The port. *)

HostServes ==
  /\ toHost # <<>>
  /\ LET m == Head(toHost)
         inOrder == m.seq = engine.next
         handled == Handled([engine EXCEPT !.next = @ + 1], m.cmd)
     IN /\ engine' = IF inOrder THEN handled.engine ELSE engine
        /\ fromHost' = Append(fromHost, [seq |-> m.seq,
                                         kind |-> IF inOrder THEN handled.kind ELSE "error"])
  /\ toHost' = Tail(toHost)
  /\ UNCHANGED <<journal, transport, client, driver, graph, start, clock, history>>

Deliver ==
  /\ fromHost # <<>>
  /\ Receive(Head(fromHost))
  /\ UNCHANGED <<journal, client, graph, start, clock, engine, history>>

-----------------------------------------------------------------------------
(* RemoteAudioBackend: calls of the application. *)

CallFailure(ok) == IF ok THEN {} ELSE {"call"}

CreateTrack ==
  /\ calls < MaxCalls
  /\ \E ok \in BOOLEAN, valid \in Values :
       LET cmd == Command("create", client.next, valid)
       IN /\ Submit(cmd, ok)
          /\ client' = IF ok THEN [next |-> client.next + 1,
                                   known |-> client.known \union {client.next}]
                             ELSE client
          /\ wanted' = IF ok THEN With(wanted, client.next, NewTrack) ELSE wanted
          /\ failed' = failed \union CallFailure(ok)
                         \union (IF valid = Default THEN {} ELSE {"command"})
  /\ calls' = calls + 1
  /\ UNCHANGED <<driver, graph, start, clock, engine>>

RemoveTrack ==
  /\ calls < MaxCalls
  /\ \E ok \in BOOLEAN, id \in client.known :
       /\ Submit(Command("remove", id, Default), ok)
       /\ client' = IF ok THEN [client EXCEPT !.known = @ \ {id}] ELSE client
       /\ wanted' = IF ok THEN Without(wanted, id) ELSE wanted
       /\ failed' = failed \union CallFailure(ok)
  /\ calls' = calls + 1
  /\ UNCHANGED <<driver, graph, start, clock, engine>>

Set ==
  /\ calls < MaxCalls
  /\ \E ok \in BOOLEAN, op \in Settings, id \in client.known, value \in Values :
       /\ Submit(Command(op, id, value), ok)
       /\ wanted' = IF ok THEN [wanted EXCEPT ![id][Field(op)] = value] ELSE wanted
       /\ failed' = failed \union CallFailure(ok)
  /\ calls' = calls + 1
  /\ UNCHANGED <<client, driver, graph, start, clock, engine>>

\* Mutant: only an engine that was observed is polled.
PollableWhenObserved ==
  /\ Attached /\ link.protocol = "negotiated" /\ link.replay = "complete"
  /\ link.engine = "observed"
  /\ driver \in {"running", "suspended"}
  /\ Len(pending) < Capacity \div 2

Pollable ==
  /\ Attached /\ link.protocol = "negotiated" /\ link.replay = "complete"
  /\ driver \in {"running", "suspended"}
  /\ Len(pending) < Capacity \div 2

Refused == {i \in DOMAIN inbound : inbound[i].kind = "error"}
RefusedCommands == {inbound[i].cmd : i \in Refused}
RefusedIds(op) == {cmd.id : cmd \in {c \in RefusedCommands : c.op = op}}

\* The journal without the commands that were refused.
Retained ==
  LET kept[n \in 0 .. Len(journal)] ==
        IF n = 0 THEN <<>>
        ELSE IF journal[n] \in RefusedCommands THEN kept[n - 1] ELSE Append(kept[n - 1], journal[n])
  IN kept[Len(journal)]

\* Mutant: a refused creation leaves the journal only.
StillKnown == client.known \union RefusedIds("remove")

(* What the client knows once refusals are heard. *)
NowKnown == (client.known \ RefusedIds("create")) \union RefusedIds("remove")

(* poll: ask for a snapshot and the MIDI output when the interval is over, then *)
(* take what was received.  A refused command leaves the journal and what the   *)
(* client knows.  Polls are left out while one is under way or was answered:    *)
(* they change nothing.                                                         *)
ClientPoll ==
  /\ IF Pollable /\ link.engine = "unknown" /\ \A i \in DOMAIN pending : pending[i].cmd # Poll
     THEN Send(<<Poll, Drain>>)
     ELSE UNCHANGED <<toHost, pending, next>>
  /\ inbound' = <<>>
  /\ journal' = Retained
  /\ client' = [client EXCEPT !.known = NowKnown]
  /\ UNCHANGED <<generation, link, expected, driver, graph, start, clock, fromHost,
                 engine, history>>

-----------------------------------------------------------------------------
(* BrowserAudioDriver. *)

NoGraph == graph' = "none" /\ clock' = FALSE

(* begin_enable: a first start, a retry, or a restart of running audio with the *)
(* microphone.  Permission is asked for the microphone only.                    *)
Enable ==
  /\ driver \in {"stopped", "failed", "denied", "running", "suspended"}
  /\ generation + (IF start = "none" THEN 0 ELSE 1) < MaxAttaches
  /\ Detach
  /\ \E asks \in BOOLEAN :
       /\ driver \in {"running", "suspended"} => asks
       /\ driver' = IF asks THEN "requesting" ELSE "starting"
       /\ start' = IF asks THEN "permission" ELSE "loading"
  /\ graph' = "context" /\ clock' = TRUE
  /\ UNCHANGED <<journal, client, engine, history>>

PermissionGranted ==
  /\ start = "permission" /\ start' = "loading"
  /\ driver' = "starting" /\ clock' = TRUE
  /\ UNCHANGED <<journal, transport, client, graph, ports, engine, history>>

PermissionDenied ==
  /\ start = "permission" /\ start' = "none"
  /\ driver' = "denied" /\ NoGraph
  /\ UNCHANGED <<journal, transport, client, ports, engine, history>>

(* The end of start_audio_graph, also of one that timed out or was shut down    *)
(* meanwhile: attach, which replays the journal.  More than the queue holds     *)
(* cannot be replayed, and the start fails.                                     *)
Attach ==
  /\ start = "loading" /\ start' = "none"
  /\ generation' = generation + 1
  /\ engine' = FreshEngine
  /\ LET cmds == <<Configure>> \o journal
     IN IF Len(cmds) <= Capacity
        THEN /\ link' = Fresh
             /\ toHost' = [i \in DOMAIN cmds |-> [seq |-> i, cmd |-> cmds[i]]]
             /\ pending' = [i \in DOMAIN cmds |-> [cmd |-> cmds[i], replay |-> TRUE]]
             /\ next' = Len(cmds) + 1
             /\ driver' \in {"running", "suspended"}
             /\ graph' = IF graph = "context" THEN "built" ELSE graph
             /\ clock' = (clock /\ driver' = "suspended")
        ELSE /\ link' = Failed /\ driver' = "failed"
             /\ toHost' = <<>> /\ pending' = <<>> /\ next' = Capacity + 1
             /\ NoGraph
  /\ expected' = 1 /\ inbound' = <<>> /\ fromHost' = <<>>
  /\ UNCHANGED <<journal, client, history>>

(* The microphone, the module or the worklet node cannot be had. *)
StartFails ==
  /\ start # "none" /\ start' = "none"
  /\ Fail /\ NoGraph
  /\ UNCHANGED <<journal, client, engine, history>>

(* The processor terminates or the microphone ends. *)
GraphFails ==
  /\ graph = "built" /\ Attached
  /\ Fail
  /\ UNCHANGED <<journal, client, graph, start, clock, engine, history>>

(* The state handler of the context stays in place for as long as the graph. *)
ContextChanges ==
  /\ graph = "built"
  /\ driver' \in {"running", "suspended"} \ {driver}
  /\ clock' = (clock /\ driver' # "running")
  /\ UNCHANGED <<journal, transport, client, graph, start, ports, engine, history>>

(* update_presentation: a start that takes too long fails, and the graph of a *)
(* failed driver is taken down.                                               *)
StartTimesOut ==
  /\ driver \in {"starting", "suspended"} /\ clock
  /\ Fail /\ NoGraph
  /\ UNCHANGED <<journal, client, start, engine, history>>

TakeDown ==
  /\ driver = "failed" /\ graph # "none"
  /\ NoGraph
  /\ UNCHANGED <<journal, transport, client, driver, start, ports, engine, history>>

(* Taking the graph down removes the port's handler before the link goes. *)
Shutdown ==
  /\ driver # "stopped"
  /\ Detach /\ NoGraph
  /\ driver' = IF driver \in {"failed", "denied"} THEN driver ELSE "stopped"
  /\ UNCHANGED <<journal, client, start, engine, history>>

-----------------------------------------------------------------------------
Init ==
  /\ journal = <<>>
  /\ generation = 0 /\ link = Detached
  /\ next = 1 /\ expected = 1
  /\ pending = <<>> /\ inbound = <<>>
  /\ client = [next |-> 1, known |-> {}]
  /\ driver = "stopped" /\ graph = "none" /\ start = "none" /\ clock = FALSE
  /\ toHost = <<>> /\ fromHost = <<>>
  /\ engine = FreshEngine
  /\ wanted = NoTracks /\ failed = {} /\ calls = 0

Call == CreateTrack \/ RemoveTrack \/ Set
Lifecycle == Enable \/ PermissionGranted \/ PermissionDenied \/ Attach \/ StartFails
               \/ GraphFails \/ ContextChanges \/ StartTimesOut \/ TakeDown \/ Shutdown
Next == Call \/ ClientPoll \/ HostServes \/ Deliver \/ Lifecycle

(* A running worklet answers what it is sent, and the page handles its messages *)
(* and draws its frames.  Nothing says that a suspended worklet runs.           *)
Spec ==
  /\ Init /\ [][Next]_vars
  /\ WF_vars(HostServes /\ driver = "running") /\ WF_vars(Deliver) /\ WF_vars(ClientPoll)

-----------------------------------------------------------------------------
Commands ==
  {c \in [op : {"create", "remove", "configure", "poll", "drain"} \union Settings,
          id : 0 .. MaxCalls, value : Values] :
     c.op \in {"create", "remove"} \union Settings => c.id \in Ids}
Kinds == {"ack", "error", "snapshot"}
AreTracks(tracks) == tracks \in [DOMAIN tracks -> [control : Values, length : Values]]

TypeOK ==
  /\ journal \in Seq(Commands) /\ Len(journal) <= Capacity
  /\ generation \in 0 .. MaxAttaches
  /\ link \in {Fresh, Detached, Failed}
       \union [connection : {"attached"}, protocol : {"initializing", "negotiated"},
               replay : {"replaying", "complete"}, engine : {"unknown", "observed"}]
  /\ next \in Nat /\ expected \in Nat
  /\ pending \in Seq([cmd : Commands, replay : BOOLEAN]) /\ Len(pending) <= Capacity
  /\ inbound \in Seq([kind : Kinds, cmd : Commands]) /\ Len(inbound) <= Capacity
  /\ toHost \in Seq([seq : Nat, cmd : Commands]) /\ fromHost \in Seq([seq : Nat, kind : Kinds])
  /\ client \in [next : Nat, known : SUBSET Ids] /\ client.next >= 1 /\ client.next <= calls + 1
  /\ driver \in {"stopped", "requesting", "starting", "running", "suspended", "denied", "failed"}
  /\ graph \in {"none", "context", "built"} /\ start \in {"none", "permission", "loading"}
  /\ clock \in BOOLEAN
  /\ engine = [next |-> engine.next, ids |-> engine.ids, tracks |-> engine.tracks]
  /\ engine.next \in Nat /\ engine.ids \in Nat
  /\ AreTracks(engine.tracks) /\ AreTracks(wanted)
  /\ failed \subseteq {"call", "command"} /\ calls \in 0 .. MaxCalls

(* is_ready without the driver state. *)
Usable == /\ link.connection = "attached" /\ link.protocol = "negotiated"
          /\ link.replay = "complete" /\ link.engine = "observed"

(* What the engine's tracks become once the commands are all handled. *)
AfterHandling(eng, cmds) ==
  LET handling[n \in 0 .. Len(cmds)] ==
        IF n = 0 THEN eng ELSE Handled(handling[n - 1], cmds[n].cmd).engine
  IN handling[Len(cmds)].tracks

(* While no call fails and no command is refused, an attached engine is on its *)
(* way to the tracks the application made and set, with what the port still    *)
(* holds: across attachments, replays, superseded settings and removed tracks  *)
(* (transport.rs journal and attach).                                          *)
EngineFollows ==
  (Attached /\ failed = {}) => AfterHandling(engine, toHost) = wanted

(* A link that reports a complete replay has it all answered: what is still in *)
(* flight was submitted afterwards (transport.rs receive).                     *)
ReadyMeansReplayed ==
  (Attached /\ link.replay = "complete")
    => \A i \in DOMAIN toHost : ~pending[Len(pending) - Len(toHost) + i].replay

Settled == Usable /\ pending = <<>> /\ inbound = <<>>

(* When nothing is under way, each track the client works with exists in the   *)
(* engine, also after creations the engine refused (lib.rs poll, the error     *)
(* arm), as long as no call failed on the client's side.                       *)
KnownTracksExist ==
  (Settled /\ "call" \notin failed) => client.known \subseteq DOMAIN engine.tracks

(* The same whatever failed: only what the application was told it has is      *)
(* replayed.                                                                   *)
OnlyStateIsReplayed == Settled => client.known \subseteq DOMAIN engine.tracks

(* An attachment becomes usable, or ends, or its audio stops running           *)
(* (transport.rs receive, lib.rs poll).                                        *)
AttachBecomesUsable ==
  (Attached /\ driver = "running") ~> (Usable \/ ~Attached \/ driver # "running")
=============================================================================
