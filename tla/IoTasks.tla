------------------------------- MODULE IoTasks -------------------------------
(***************************************************************************)
(* The application's I/O tasks in the browser: saving and loading a        *)
(* session, importing into a loop and duplicating a loop, over an engine   *)
(* that is reached by messages only.  The application (shoop_app, io_task  *)
(* and pending_io) keeps one operation at a time and asks the client again *)
(* in every update; the client (shoop_worklet_client) cuts captures and    *)
(* replacements into chunks; the host (shoop_audio_worklet) collects them  *)
(* and commits them to its engine.  Engines are attached, detached and     *)
(* lost underneath.                                                        *)
(*                                                                         *)
(* An answer is received as soon as the host gives it.  The commands that  *)
(* share the queue with the transfers (polls, MIDI, controls, the journal) *)
(* take its room and are answered; what they do is left out.               *)
(***************************************************************************)
EXTENDS Naturals, Sequences, FiniteSetsExt

CONSTANTS Loops,       \* loops of the session
          Documents,   \* sessions there are to load
          Files,       \* media there are to import
          Chunks,      \* chunks of a capture or a replacement
          InFlight,    \* SESSION_CAPTURE_IN_FLIGHT_LIMIT
          Capacity,    \* COMMAND_CAPACITY
          MaxTasks,    \* bound: operations begun
          MaxEdits,    \* bound: recordings
          MaxLives,    \* bound: attachments
          MaxBeside,   \* bound: commands that belong to no transfer
          MaxEvents,   \* bound: these three together, the first attachment left out
          MayGoOn      \* bound: whether operations begin after one that left its transfer behind

Blank == "blank"    \* the content of a loop of a new engine
Played == "played"  \* the content of a loop that was recorded
None == "none"

ASSUME SizesAssumption == {Chunks, InFlight} \subseteq Nat \ {0} /\ Capacity \in Nat /\ Capacity >= 2
ASSUME BoundsAssumption == {MaxTasks, MaxEdits, MaxLives, MaxBeside, MaxEvents} \subseteq Nat
ASSUME MayGoOnAssumption == MayGoOn \in BOOLEAN
ASSUME NamesAssumption == {Blank, Played, None} \cap (Documents \union Files \union Loops) = {}

VARIABLES
  task,     \* io_task: kind, goal, status
  work,     \* pending_io: op, source, goal
  client,   \* RemoteWorkletBackend: seen, nextGen, capture, replace, errors
  link,     \* connection of the transport: "attached", "detached", "failed"
  life,     \* generation of the transport
  toHost,   \* commands in flight
  answers,  \* inbound: responses that were not drained
  engine,   \* the engine behind the port and what its host collects
  file,     \* the newest session file: its chunks, and the edition its save began at
  history   \* the edition the operation began at, what was committed since, lapses, counts

vars == <<task, work, client, link, life, toHost, answers, engine, file, history>>

-----------------------------------------------------------------------------
(* What is transferred: a goal is the content of one loop or of all loops. *)

Kinds == {"session", "loop"}
Kind(goal) == IF goal.loop = None THEN "session" ELSE "loop"
Goal(loop, take) == [loop |-> loop, take |-> take]
NoGoal == Goal(None, None)

Message(op, kind, gen, at, goal) == [op |-> op, kind |-> kind, gen |-> gen, at |-> at, goal |-> goal]
NoTransfer == [gen |-> 0]
NewCapture(gen) == [gen |-> gen, known |-> FALSE, got |-> <<>>, next |-> 0, flight |-> 0]
NewReplace(gen, goal) ==
  [gen |-> gen, goal |-> goal, next |-> 0, sent |-> FALSE, complete |-> FALSE]

Attached == link = "attached"
Less(a, b) == IF a > b THEN a - b ELSE 0

-----------------------------------------------------------------------------
(* The client.  A step of it is a record: c its state, out the commands in  *)
(* flight, ok whether it may go on (no error was returned), data the        *)
(* capture it gave out.                                                     *)

Step(c, out) == [c |-> c, out |-> out, ok |-> TRUE, data |-> <<>>]
Failing(s) == [s EXCEPT !.ok = FALSE]
HalfRoom(s) == Less(Capacity \div 2, Len(s.out))

\* ephemeral: refused without an endpoint or room.
CanPost(s) == Attached /\ Len(s.out) < Capacity
Post(s, m) == [s EXCEPT !.out = Append(@, m)]

(* Commands that belong to no transfer: "ask" is refused by the host, as a request *)
(* for the display data of a loop it refused to create is, "tell" is not.          *)
Beside(op) == Message(op, "beside", 0, 0, NoGoal)

(* request_session_capture_chunks: n reads are posted. *)
ReadsPosted(s, n) ==
  LET cap == s.c.capture
      reads == [i \in 1 .. n |-> Message("read", "capture", cap.gen, cap.next + i - 1, NoGoal)]
  IN [s EXCEPT !.c.capture.next = @ + n, !.c.capture.flight = @ + n, !.out = @ \o reads]

RequestChunks(s) ==
  LET cap == s.c.capture
      n == Min({Less(Chunks, cap.next), Less(InFlight, cap.flight), HalfRoom(s)})
  IN IF n > 0 /\ ~Attached THEN Failing([s EXCEPT !.c.capture.next = @ + 1])
                           ELSE ReadsPosted(s, n)

(* pump_session_replace and pump_loop_content_replace: the chunks while half the *)
(* queue is free, then the commit.                                               *)
WritesPosted(s, kind, n) ==
  LET rep == s.c.replace[kind]
      writes == [i \in 1 .. n |-> Message("write", kind, rep.gen, rep.next + i - 1, rep.goal)]
  IN [s EXCEPT !.c.replace[kind].next = @ + n, !.out = @ \o writes]

CommitPosted(s, kind) ==
  LET rep == s.c.replace[kind]
  IN Post([s EXCEPT !.c.replace[kind].sent = TRUE],
          Message("commit", kind, rep.gen, Chunks, rep.goal))

Pump(s, kind) ==
  LET rep == s.c.replace[kind]
      n == Min({Less(Chunks, rep.next), HalfRoom(s)})
      written == WritesPosted(s, kind, n)
      ends == rep.next + n = Chunks /\ ~rep.sent /\ Len(written.out) < Capacity
  IN CASE ~s.ok \/ rep.gen = 0 -> s
       [] s.ok /\ rep.gen # 0 /\ rep.complete -> s
       [] OTHER ->
            IF (n > 0 \/ ends) /\ ~Attached THEN Failing(s)
            ELSE IF ends THEN CommitPosted(written, kind) ELSE written

\* Mutant: the number of reads in flight is never taken down.
ChunkUncounted(s, a) ==
  IF s.c.capture.gen = 0 THEN s
  ELSE IF s.c.capture.gen # a.msg.gen \/ Len(s.c.capture.got) # a.msg.at THEN Failing(s)
  ELSE RequestChunks([s EXCEPT !.c.capture.got = Append(@, a.data)])

(* What a response does to the client; an error of a command that belongs to no *)
(* transfer ends the poll, and the responses after it are lost.                 *)
Ready(s, a) ==
  CASE s.c.capture.gen = 0 -> s
    [] s.c.capture.gen # 0 /\ s.c.capture.gen # a.msg.gen -> Failing(s)
    [] OTHER -> RequestChunks([s EXCEPT !.c.capture.known = TRUE, !.c.capture.next = 0,
                                        !.c.capture.flight = 0])

ChunkFits(cap, a) ==
  cap.gen = a.msg.gen /\ cap.known /\ Len(cap.got) = a.msg.at /\ cap.flight > 0

Chunk(s, a) ==
  IF s.c.capture.gen = 0 THEN s
  ELSE IF ~ChunkFits(s.c.capture, a) THEN Failing(s)
  ELSE RequestChunks([s EXCEPT !.c.capture.got = Append(@, a.data), !.c.capture.flight = @ - 1])

Complete(s, a) ==
  IF s.c.replace[a.msg.kind].gen # a.msg.gen THEN s
  ELSE [s EXCEPT !.c.replace[a.msg.kind].complete = TRUE]

\* The transfer of the command's kind ends, whichever generation it has.
Rejected(s, a) ==
  CASE a.msg.kind = "beside" -> Failing(s)
    [] a.msg.kind = "capture" ->
         [s EXCEPT !.c.capture = NoTransfer, !.c.errors = @ \union {"capture"}]
    [] OTHER ->
         [s EXCEPT !.c.replace[a.msg.kind] = NoTransfer, !.c.errors = @ \union {a.msg.kind}]

Heard(s, a) ==
  CASE ~s.ok \/ a.kind = "ack" -> s
    [] s.ok /\ a.kind = "ready" -> Ready(s, a)
    [] s.ok /\ a.kind = "chunk" -> Chunk(s, a)
    [] s.ok /\ a.kind = "complete" -> Complete(s, a)
    [] s.ok /\ a.kind = "error" -> Rejected(s, a)

(* cancel_transfers. *)
Transfers(c) == {k \in Kinds : c.replace[k].gen # 0}
                  \union (IF c.capture.gen # 0 THEN {"capture"} ELSE {})
Cancelled(c) ==
  [c EXCEPT !.errors = @ \union Transfers(c), !.capture = NoTransfer,
            !.replace = [k \in Kinds |-> NoTransfer]]

(* poll: an engine that was replaced or detached ends the transfers; then the *)
(* responses, then the pumps.                                                 *)
Answered ==
  LET lost == (client.seen # 0 /\ client.seen # life) \/ link = "detached"
      c == [IF lost THEN Cancelled(client) ELSE client EXCEPT !.seen = life]
      hearing[n \in 0 .. Len(answers)] ==
        IF n = 0 THEN Step(c, toHost) ELSE Heard(hearing[n - 1], answers[n])
  IN hearing[Len(answers)]
Pumped(s) == Pump(Pump(s, "session"), "loop")

(* A new transfer takes a generation of its own, also when it cannot be posted. *)
Begun(s, m) ==
  LET taken == [s EXCEPT !.c.nextGen = @ + 1, !.c.seen = life]
  IN IF CanPost(s) THEN Post(taken, m) ELSE Failing(taken)

CaptureBegun(s) ==
  LET gen == s.c.nextGen
      begun == Begun(s, Message("begin", "capture", gen, 0, NoGoal))
  IN IF begun.ok THEN [begun EXCEPT !.c.capture = NewCapture(gen)] ELSE begun

ReplaceBegun(s, goal) ==
  LET gen == s.c.nextGen
      begun == Begun(s, Message("begin", Kind(goal), gen, 0, goal))
  IN IF begun.ok THEN Pump([begun EXCEPT !.c.replace[Kind(goal)] = NewReplace(gen, goal)], Kind(goal))
                 ELSE begun

\* Mutant: a capture that was given out stays.
CaptureSessionKept(s) ==
  LET cap == s.c.capture
  IN CASE "capture" \in s.c.errors -> Failing([s EXCEPT !.c.errors = @ \ {"capture"}])
       [] "capture" \notin s.c.errors /\ cap.gen # 0 ->
            IF cap.known /\ Len(cap.got) = Chunks /\ cap.flight = 0
            THEN [s EXCEPT !.data = cap.got]
            ELSE s
       [] OTHER -> CaptureBegun(s)

(* capture_session_async: ok with data when it is ready, ok without while it is *)
(* pending.                                                                     *)
CaptureSession(s) ==
  LET cap == s.c.capture
  IN CASE "capture" \in s.c.errors -> Failing([s EXCEPT !.c.errors = @ \ {"capture"}])
       [] "capture" \notin s.c.errors /\ cap.gen # 0 ->
            IF cap.known /\ Len(cap.got) = Chunks /\ cap.flight = 0
            THEN [s EXCEPT !.c.capture = NoTransfer, !.data = cap.got]
            ELSE s
       [] OTHER -> CaptureBegun(s)

(* replace_session_async and replace_loop_content_async. *)
ReplaceBy(s, goal) ==
  LET kind == Kind(goal)
      rep == s.c.replace[kind]
  IN CASE kind \in s.c.errors -> Failing([s EXCEPT !.c.errors = @ \ {kind}])
       [] kind \notin s.c.errors /\ rep.gen # 0 ->
            IF rep.goal # goal THEN Failing(s)
            ELSE IF rep.complete THEN [s EXCEPT !.c.replace[kind] = NoTransfer, !.data = <<goal>>]
            ELSE Pump(s, kind)
       [] OTHER -> ReplaceBegun(s, goal)

-----------------------------------------------------------------------------
(* The host. *)

Answer(m, kind, data) == [msg |-> m, kind |-> kind, data |-> data]
NoData == [edition |-> 0, session |-> [l \in Loops |-> Blank]]

FreshEngine(edition) ==
  [edition |-> edition, session |-> [l \in Loops |-> Blank], busy |-> None,
   capture |-> NoTransfer, staged |-> [k \in Kinds |-> NoTransfer]]

Captured == [edition |-> engine.edition, session |-> engine.session]

\* What a commit makes of the engine: a session replaces it, loop content is
\* refused while the loop records.
Committed(goal) ==
  IF Kind(goal) = "session"
  THEN [engine EXCEPT !.edition = @ + 1, !.session = [l \in Loops |-> goal.take],
                      !.busy = None, !.capture = NoTransfer, !.staged["session"] = NoTransfer]
  ELSE [engine EXCEPT !.edition = @ + 1, !.session[goal.loop] = goal.take,
                      !.staged["loop"] = NoTransfer]

\* A commit needs every byte of the transfer it names, and bytes that make sense.
Whole(m) ==
  LET staged == engine.staged[m.kind]
  IN /\ staged.gen = m.gen
     /\ Len(staged.chunks) = Chunks /\ \A i \in 1 .. Chunks : staged.chunks[i] = staged.chunks[1]

StagedGoal(kind) == engine.staged[kind].chunks[1]

Takeable(m) == Whole(m) /\ engine.busy \notin {StagedGoal(m.kind).loop} \ {None}

\* Mutant: the engine is changed before it is found to refuse.
CommitHandledHalfway(m, refuses) ==
  [engine |-> IF Takeable(m) THEN Committed(StagedGoal(m.kind)) ELSE engine,
   kind |-> IF Takeable(m) /\ ~refuses THEN "complete" ELSE "error"]

(* The commits: the engine may refuse what it was sent (a session of another  *)
(* rate, shape or processor, content for a loop or a channel that is gone),   *)
(* and what was collected stays then.                                         *)
CommitHandled(m, refuses) ==
  IF Takeable(m) /\ ~refuses
  THEN [engine |-> Committed(StagedGoal(m.kind)), kind |-> "complete"]
  ELSE [engine |-> engine, kind |-> "error"]

(* WorkletHost::handle for the transfer commands: the engine afterwards and the *)
(* kind of the answer.                                                          *)
Handled(m, refuses) ==
  LET staged == IF m.kind \in Kinds THEN engine.staged[m.kind] ELSE NoTransfer
      keep(kind) == [engine |-> engine, kind |-> kind]
  IN CASE m.kind = "beside" -> keep(IF m.op = "ask" THEN "error" ELSE "ack")
       [] m.kind = "capture" /\ m.op = "begin" ->
            IF engine.busy # None THEN keep("error")
            ELSE [engine |-> [engine EXCEPT !.capture = [gen |-> m.gen, data |-> Captured]],
                  kind |-> "ready"]
       [] m.kind = "capture" /\ m.op = "read" ->
            keep(IF engine.capture.gen = m.gen THEN "chunk" ELSE "error")
       [] m.kind \in Kinds /\ m.op = "begin" ->
            [engine |-> [engine EXCEPT !.staged[m.kind] = [gen |-> m.gen, chunks |-> <<>>]],
             kind |-> "ack"]
       [] m.kind \in Kinds /\ m.op = "write" ->
            IF staged.gen # m.gen THEN keep("error")
            ELSE IF Len(staged.chunks) # m.at THEN keep("error")
            ELSE [engine |-> [engine EXCEPT !.staged[m.kind].chunks = Append(@, m.goal)],
                  kind |-> "ack"]
       [] m.kind \in Kinds /\ m.op = "commit" -> CommitHandled(m, refuses)

HostServes ==
  /\ toHost # <<>>
  /\ \E refuses \in BOOLEAN :
       LET m == Head(toHost)
           handled == Handled(m, refuses)
       IN /\ engine' = handled.engine
          /\ answers' = Append(answers, Answer(m, handled.kind,
                          IF handled.kind = "chunk" THEN engine.capture.data ELSE NoData))
          /\ history' = [history EXCEPT !.done =
               IF handled.engine.edition # engine.edition THEN @ \union {StagedGoal(m.kind)} ELSE @]
  /\ toHost' = Tail(toHost)
  /\ UNCHANGED <<task, work, client, link, life, file>>

MayDisturb == history.edits + history.beside + life <= MaxEvents

(* A loop records, by a transition that was planned earlier: the application *)
(* sees it later, if at all.                                                 *)
RecordingBegins ==
  /\ engine.busy = None /\ history.edits < MaxEdits /\ MayDisturb
  /\ \E l \in Loops : engine' = [engine EXCEPT !.busy = l]
  /\ history' = [history EXCEPT !.edits = @ + 1]
  /\ UNCHANGED <<task, work, client, link, life, toHost, answers, file>>

RecordingEnds ==
  /\ engine.busy # None
  /\ engine' = [engine EXCEPT !.busy = None, !.session[engine.busy] = Played, !.edition = @ + 1]
  /\ UNCHANGED <<task, work, client, link, life, toHost, answers, file, history>>

-----------------------------------------------------------------------------
(* The application. *)

NoWork == [op |-> "none", source |-> None, goal |-> NoGoal]
Work(op, source, goal) == [op |-> op, source |-> source, goal |-> goal]

(* finish_io. *)
Finished(status) == work' = NoWork /\ task' = [task EXCEPT !.status = status]

Lapse(name) == history' = [history EXCEPT !.lapses = @ \union {name}]

(* advance_io, one branch an operation, after the client's step s.  (A *)
(* quantifier over one value names it, and TLC computes it once.)      *)
SaveAdvances(s) ==
  /\ work.op = "save"
  /\ \E r \in {CaptureSession(s)} :
        /\ client' = r.c /\ toHost' = r.out
        /\ \/ ~r.ok /\ Finished("failed") /\ UNCHANGED file
           \/ r.ok /\ r.data = <<>> /\ UNCHANGED <<task, work, file>>
           \/ /\ r.data # <<>> /\ Finished("completed")
              /\ file' = [chunks |-> r.data, begun |-> history.begun]
           \* The capture cannot be made into a document, or not be encoded.
           \/ r.data # <<>> /\ Finished("failed") /\ UNCHANGED file
  /\ UNCHANGED history

(* A loaded session that the application cannot take over is left in the engine. *)
LoadAdvances(s) ==
  /\ work.op = "load"
  /\ \E r \in {ReplaceBy(s, work.goal)} :
        /\ client' = r.c /\ toHost' = r.out
        /\ \/ ~r.ok /\ Finished("failed") /\ UNCHANGED history
           \/ r.ok /\ r.data = <<>> /\ UNCHANGED <<task, work, history>>
           \/ r.data # <<>> /\ Finished("completed") /\ UNCHANGED history
           \/ r.data # <<>> /\ Finished("failed") /\ Lapse("unapplied")
  /\ UNCHANGED file

PrepareAdvances(s) ==
  /\ work.op = "prepare"
  /\ client' = s.c /\ toHost' = s.out
  /\ \/ work' = [work EXCEPT !.op = "import"] /\ UNCHANGED task
     \/ Finished("failed")
  /\ UNCHANGED <<file, history>>

(* The track of the loop was removed meanwhile, which no operation holds up: *)
(* the client is not asked any more, and keeps what it has.                  *)
Stale(s) == client' = s.c /\ toHost' = s.out /\ Lapse("stale")

ImportAdvances(s) ==
  /\ work.op = "import"
  /\ \/ \E r \in {ReplaceBy(s, work.goal)} :
          /\ client' = r.c /\ toHost' = r.out
          /\ \/ ~r.ok /\ Finished("failed")
             \/ r.ok /\ r.data = <<>> /\ UNCHANGED <<task, work>>
             \/ r.data # <<>> /\ Finished("completed")
          /\ UNCHANGED history
     \/ Stale(s) /\ Finished("failed")
  /\ UNCHANGED file

(* A duplicate has no task: it ends without a word when it is done. *)
Copied(r) == Work("copy", None, Goal(work.goal.loop, r.data[1].session[work.source]))

(* A source that is gone ends it, and so does one without channels: then the *)
(* target is cleared, by a command beside the transfers if there is room.    *)
NothingToCopy(r) ==
  /\ client' = r.c /\ work' = NoWork
  /\ toHost' \in {r.out} \union (IF CanPost(r) THEN {Post(r, Beside("tell")).out} ELSE {})

CaptureAdvances(s) ==
  /\ work.op = "capture"
  /\ \E r \in {CaptureSession(s)} :
        \/ /\ client' = r.c /\ toHost' = r.out
           /\ work' = IF ~r.ok THEN NoWork ELSE IF r.data = <<>> THEN work ELSE Copied(r)
           /\ history' = [history EXCEPT
                !.copied = IF r.data = <<>> THEN @ ELSE r.data[1].edition]
        \/ r.data # <<>> /\ NothingToCopy(r) /\ UNCHANGED history
  /\ UNCHANGED <<task, file>>

CopyAdvances(s) ==
  /\ work.op = "copy"
  /\ \/ \E r \in {ReplaceBy(s, work.goal)} :
          /\ client' = r.c /\ toHost' = r.out
          /\ work' = IF ~r.ok \/ r.data # <<>> THEN NoWork ELSE work
          /\ UNCHANGED history
     \/ Stale(s) /\ work' = NoWork
  /\ UNCHANGED <<task, file>>

NothingAdvances(s) ==
  /\ work.op \in {"none", "askLoad", "askImport"}
  /\ client' = s.c /\ toHost' = s.out
  /\ UNCHANGED <<task, work, file, history>>

(* update_application: poll, then advance_io, whatever the poll returned. *)
Update ==
  /\ \E heard \in {Answered} : \E s \in {[Pumped(heard) EXCEPT !.ok = TRUE]} :
       \/ SaveAdvances(s) \/ LoadAdvances(s) \/ PrepareAdvances(s) \/ ImportAdvances(s)
       \/ CaptureAdvances(s) \/ CopyAdvances(s) \/ NothingAdvances(s)
  /\ answers' = <<>>
  /\ UNCHANGED <<link, life, engine>>

-----------------------------------------------------------------------------
(* Intents of the user. *)

\* Mutant: nothing asks whether an operation is under way.
MayBeginAnyway == history.tasks < MaxTasks

(* ensure_io_idle. *)
MayBegin ==
  /\ work.op = "none" /\ history.tasks < MaxTasks
  /\ history.lapses \cap {"abandoned", "stale"} # {} => MayGoOn
Begins ==
  history' = [history EXCEPT !.tasks = @ + 1, !.begun = engine.edition, !.done = {}]

Task(kind, goal, status) == [kind |-> kind, goal |-> goal, status |-> status]

BeginSave ==
  /\ MayBegin /\ Begins
  /\ task' = Task("save", NoGoal, "running") /\ work' = Work("save", None, NoGoal)
  /\ UNCHANGED <<client, link, life, toHost, answers, engine, file>>

(* A file of another sample rate waits for the user; one that cannot be read *)
(* fails at once.                                                            *)
BeginTransfer(kind, goal, now, asks) ==
  /\ MayBegin /\ Begins
  /\ \/ task' = Task(kind, goal, "running") /\ work' = Work(now, None, goal)
     \/ task' = Task(kind, goal, "asking") /\ work' = Work(asks, None, goal)
     \/ task' = Task(kind, goal, "failed") /\ work' = NoWork
  /\ UNCHANGED <<client, link, life, toHost, answers, engine, file>>

BeginLoad == \E d \in Documents : BeginTransfer("load", Goal(None, d), "load", "askLoad")
BeginImport ==
  \E l \in Loops, f \in Files : BeginTransfer("import", Goal(l, f), "prepare", "askImport")

(* confirm_sample_rate_conversion: goes on, fails to resample, or is declined. *)
Confirm ==
  /\ task.status = "asking"
  /\ \/ /\ task' = [task EXCEPT !.status = "running"]
        /\ work' = [work EXCEPT !.op = IF @ = "askLoad" THEN "load" ELSE "prepare"]
     \/ Finished("failed")
     \/ Finished("cancelled")
  /\ UNCHANGED <<client, link, life, toHost, answers, engine, file, history>>

(* A transfer left over from an engine that is gone, which the next poll would *)
(* end, passes for one of the engine the client turns to now.                  *)
Carries == client.seen # life /\ Transfers(client) # {}

(* duplicate_loop: advance_io at once, twice.  Only a capture that is there *)
(* already makes the second call differ from a wait.                        *)
DuplicateLoop ==
  /\ MayBegin
  /\ \E source \in Loops, target \in Loops :
       LET first == CaptureSession(Step(client, toHost))
           goal == Goal(target, first.data[1].session[source])
           second == ReplaceBy([first EXCEPT !.data = <<>>], goal)
           found == first.ok /\ first.data # <<>>
           last == IF found THEN second ELSE first
       IN /\ source # target
          /\ \/ /\ client' = last.c /\ toHost' = last.out
                /\ work' = IF ~last.ok \/ (found /\ second.data # <<>>) THEN NoWork
                           ELSE IF found THEN Work("copy", None, goal)
                           ELSE Work("capture", source, Goal(target, None))
             \/ found /\ NothingToCopy(first)
          /\ history' = [history EXCEPT !.tasks = @ + 1, !.begun = engine.edition, !.done = {},
               !.copied = IF found THEN first.data[1].edition ELSE @,
               !.lapses = IF Carries THEN @ \union {"carried"} ELSE @]
  /\ UNCHANGED <<task, link, life, answers, engine, file>>

(* What ends an operation from outside leaves the client's transfer alone. *)
Abandons == work.op # "none" /\ Transfers(client) # {}
Outside ==
  history' = [history EXCEPT !.lapses = IF Abandons THEN @ \union {"abandoned"} ELSE @,
                             !.done = {}]

(* cancel_io_task, offered while the task runs. *)
CancelTask ==
  /\ task.status = "running"
  /\ Finished("cancelled") /\ Outside
  /\ UNCHANGED <<client, link, life, toHost, answers, engine, file>>

(* FailIoTask: the file of the newest task cannot be written, and whatever *)
(* began since is dropped with it.                                         *)
WriteFails ==
  /\ task.kind = "save" /\ task.status = "completed"
  /\ Finished("failed") /\ Outside
  /\ UNCHANGED <<client, link, life, toHost, answers, engine, file>>

(* Polls, MIDI, controls, the journal and requests for display data go through *)
(* the same queue.                                                             *)
PostBeside ==
  /\ CanPost(Step(client, toHost)) /\ history.beside < MaxBeside /\ MayDisturb
  /\ \E op \in {"ask", "tell"} :
        /\ toHost' = Append(toHost, Beside(op))
        /\ history' = [history EXCEPT !.beside = @ + 1,
             !.lapses = IF op = "ask" THEN @ \union {"refused"} ELSE @]
  /\ UNCHANGED <<task, work, client, link, life, answers, engine, file>>

-----------------------------------------------------------------------------
(* The link: attach starts another engine, fail keeps what was received. *)

Attach ==
  /\ life < MaxLives /\ MayDisturb
  /\ life' = life + 1 /\ link' = "attached"
  /\ toHost' = <<>> /\ answers' = <<>>
  /\ engine' = FreshEngine(engine.edition + 1)
  /\ history' = [history EXCEPT !.done = {}]
  /\ UNCHANGED <<task, work, client, file>>

Detach ==
  /\ Attached /\ link' = "detached"
  /\ toHost' = <<>> /\ answers' = <<>>
  /\ UNCHANGED <<task, work, client, life, engine, file, history>>

LinkFails ==
  /\ Attached /\ link' = "failed"
  /\ toHost' = <<>>
  /\ \E n \in 0 .. Len(answers) : answers' = SubSeq(answers, 1, n)
  /\ UNCHANGED <<task, work, client, life, engine, file, history>>

-----------------------------------------------------------------------------
Init ==
  /\ task = Task("none", NoGoal, "none") /\ work = NoWork
  /\ client = [seen |-> 1, nextGen |-> 1, capture |-> NoTransfer,
               replace |-> [k \in Kinds |-> NoTransfer], errors |-> {}]
  /\ link = "attached" /\ life = 1
  /\ toHost = <<>> /\ answers = <<>>
  /\ engine = FreshEngine(1)
  /\ file = [chunks |-> <<>>, begun |-> 0]
  /\ history = [begun |-> 0, copied |-> 0, done |-> {}, lapses |-> {}, tasks |-> 0, edits |-> 0,
                beside |-> 0]

Intent == BeginSave \/ BeginLoad \/ BeginImport \/ Confirm \/ DuplicateLoop \/ CancelTask
Next == Intent \/ Update \/ HostServes \/ RecordingBegins \/ RecordingEnds \/ WriteFails
          \/ PostBeside \/ Attach \/ Detach \/ LinkFails

(* The worklet answers, and the page draws its frames: it is enough that it  *)
(* does so while a task runs.                                                *)
Spec ==
  /\ Init /\ [][Next]_vars
  /\ WF_vars(task.status = "running" /\ Update) /\ WF_vars(HostServes)

-----------------------------------------------------------------------------
Takes == Documents \union Files \union {Blank, Played}
Goals == [loop : Loops \union {None}, take : Takes \union {None}]
Contents == [loop : Loops \union {None}, take : Takes]
Captures == [edition : Nat, session : [Loops -> Takes]]
Gens == Nat \ {0}

Messages ==
  {m \in [op : {"begin", "read", "write", "commit", "ask", "tell"},
          kind : Kinds \union {"capture", "beside"}, gen : Nat, at : 0 .. Chunks, goal : Goals] :
     \/ m.kind = "beside" /\ m.op \in {"ask", "tell"}
     \/ m.kind = "capture" /\ m.op \in {"begin", "read"} /\ m.gen \in Gens
     \/ /\ m.kind \in Kinds /\ m.op \in {"begin", "write", "commit"}
        /\ m.gen \in Gens /\ m.goal \in Contents}

Answers ==
  {a \in [msg : Messages, kind : {"ack", "error", "ready", "chunk", "complete"}, data : Captures] :
     /\ a.kind \in {"ready", "chunk"} => a.msg.kind = "capture"
     /\ a.kind = "complete" => a.msg.kind \in Kinds}

CaptureTransfers ==
  {NoTransfer} \union [gen : Gens, known : BOOLEAN, got : Seq(Captures), next : 0 .. Chunks,
                       flight : 0 .. InFlight]
ReplaceTransfers ==
  {NoTransfer} \union [gen : Gens, goal : Contents, next : 0 .. Chunks, sent : BOOLEAN,
                       complete : BOOLEAN]
Clients ==
  [seen : Gens, nextGen : Gens, capture : CaptureTransfers, replace : [Kinds -> ReplaceTransfers],
   errors : SUBSET (Kinds \union {"capture"})]
Engines ==
  [edition : Nat, session : [Loops -> Takes], busy : Loops \union {None},
   capture : {NoTransfer} \union [gen : Gens, data : Captures],
   staged : [Kinds -> {NoTransfer} \union [gen : Gens, chunks : Seq(Contents)]]]

TypeOK ==
  /\ task \in [kind : {"none", "save", "load", "import"}, goal : Goals,
               status : {"none", "running", "asking", "completed", "failed", "cancelled"}]
  /\ work \in [op : {"none", "save", "askLoad", "load", "askImport", "prepare", "import",
                     "capture", "copy"},
               source : Loops \union {None}, goal : Goals]
  /\ client \in Clients /\ client.seen <= life
  /\ link \in {"attached", "detached", "failed"} /\ life \in Gens
  /\ toHost \in Seq(Messages) /\ Len(toHost) <= Capacity
  /\ answers \in Seq(Answers)
  /\ engine \in Engines
  /\ file \in [chunks : Seq(Captures), begun : Nat]
  /\ history \in [begun : Nat, copied : Nat, done : SUBSET Goals,
                  lapses : SUBSET {"abandoned", "carried", "refused", "stale", "unapplied"},
                  tasks : 0 .. MaxTasks, edits : 0 .. MaxEdits, beside : 0 .. MaxBeside]

NothingAbandoned == history.lapses \cap {"abandoned", "stale"} = {}
NothingLeftOver == NothingAbandoned /\ "carried" \notin history.lapses

(* What is saved or duplicated was captured after the operation began, and a   *)
(* file is one capture and not parts of several: across engines that come and  *)
(* go, refused captures and recordings (lib.rs capture_session_async and       *)
(* apply_session_capture_chunk), as long as no transfer was abandoned by its   *)
(* operation.                                                                  *)
CapturesAreCurrent ==
  NothingAbandoned =>
    /\ \A i \in DOMAIN file.chunks :
         file.chunks[i] = file.chunks[1] /\ file.chunks[i].edition >= file.begun
    /\ work.op = "copy" => history.copied >= history.begun

Ends(status) == task.status = "running" /\ task'.status = status

(* A load or an import that is shown as completed was committed by the engine   *)
(* since it began, and one that is shown as failed was not, while that engine   *)
(* is there: "The operation failed; the prior session is unchanged"             *)
(* (app_widget.rs:1462), except for the sessions the application could not take *)
(* over (lib.rs advance_io), and as long as no transfer outlived its operation  *)
(* or its engine.                                                               *)
VerdictsAreTrue ==
  [][task.kind \in {"load", "import"} /\ NothingLeftOver =>
       /\ Ends("completed") => task.goal \in history.done
       /\ Ends("failed") /\ Attached /\ history'.lapses \cap {"stale", "unapplied"} = {}
            => task.goal \notin history.done]_vars

Commits == HostServes /\ engine'.edition # engine.edition

(* The engine commits nothing but what the operation under way transfers, as    *)
(* long as no transfer outlived its operation or its engine: nothing of an      *)
(* operation that ended, of another engine or of a rejected transfer (lib.rs    *)
(* pump_session_replace and the host's commits).                                *)
CommitsAreAsked ==
  [][Commits /\ NothingLeftOver => StagedGoal(Head(toHost).kind) = work.goal]_vars

(* "Failure or cancellation leaves the previous session usable", "Cancellation  *)
(* before commit leaves the prior model/backend mapping intact"                 *)
(* (session_format_v1.md:104, :116): what is cancelled before the engine has    *)
(* committed it is not committed afterwards.                                    *)
CancelledIsNotCommitted ==
  task.status = "cancelled" /\ work.op = "none" => task.goal \notin history.done

(* "The operation failed; the prior session is unchanged" (app_widget.rs:1462): *)
(* what failed is not committed afterwards either, unless the application could *)
(* not take over what was.                                                      *)
FailedIsNotCommitted ==
  [][task.status = "failed" /\ work.op = "none" /\ history'.lapses \cap {"abandoned", "stale", "unapplied"} = {}
       => ~(Commits /\ StagedGoal(Head(toHost).kind) = task.goal)]_vars

(* "Transfer cancellation and rejection leave no retained bytes, stale          *)
(* generations, or false completion" (worklet_backend_refactoring_plan.md:327): *)
(* without an operation the client holds no transfer and no outcome of one.     *)
IdleHoldsNothing == work.op = "none" => Transfers(client) = {} /\ client.errors = {}

(* What holds the client up for ever: an answer that was lost behind the error   *)
(* of a command beside the transfers, and reads that were not asked for because  *)
(* half the queue was full when the last chunk was heard.                        *)
Awaited(kind) ==
  \/ \E i \in DOMAIN toHost : toHost[i].kind = kind
  \/ \E i \in DOMAIN answers : answers[i].msg.kind = kind
AnswerDue(kind) ==
  kind = "capture" \/ (client.replace[kind].sent /\ ~client.replace[kind].complete)
Deaf ==
  "refused" \in history.lapses /\ \E kind \in Transfers(client) : AnswerDue(kind) /\ ~Awaited(kind)
Starved ==
  LET cap == client.capture
  IN cap.gen # 0 /\ cap.known /\ cap.next < Chunks /\ cap.flight = 0

(* A task that runs ends, unless the link breaks, a refused request took the    *)
(* answer it waits for with it (lib.rs poll), or nothing is left to ask for the *)
(* rest of a capture (lib.rs request_session_capture_chunks).                   *)
TasksEnd ==
  (task.status = "running") ~> (task.status # "running" \/ ~Attached \/ Deaf \/ Starved)

(* Without the last exception: a save would end, were its reads asked for again *)
(* once the queue is emptier (lib.rs request_session_capture_chunks, which only *)
(* answers call).                                                               *)
SavesEnd ==
  (task.kind = "save" /\ task.status = "running") ~> (task.status # "running" \/ ~Attached \/ Deaf)
=============================================================================
