-------------------------- MODULE GraphRebuildProofs --------------------------
(***************************************************************************)
(* Proofs about GraphRebuild for any mutators, flushers and bounds: the    *)
(* session never claims more than its schedule holds, no change goes       *)
(* unwatched, and the worker with its closure uses the deadline as         *)
(* GraphScheduler lays down.                                               *)
(***************************************************************************)
EXTENDS GraphRebuild, FiniteSetTheorems, TLAPS

Commands == [kind : {"topology", "describe", "install"}, id : Nat, query : Nat]

Typed ==
  /\ queue \in Seq(Commands)
  /\ requestId \in Nat /\ appliedId \in Nat /\ schedule \in Nat
  /\ enginePc \in {"idle", "batch", "publish", "clear"}
  /\ accepted \in Nat /\ accepted <= Len(queue)
  /\ batchInFlight \in BOOLEAN /\ graphStale \in BOOLEAN
  /\ sent \in Nat /\ query \in Nat /\ prepared \in Nat
  /\ mutatorPc \in [Mutators -> {"idle", "sent"}]
  /\ workerPc \in WorkerPcs
  /\ answer \in [kind : {"none", "current", "topology", "installed"}, id : Nat]

(* Everything that names a topology names one the session has reached. *)
Honest ==
  /\ AppliedIdIsHonest
  /\ \A i \in 1..Len(queue) : queue[i].id <= requestId
  /\ answer.id <= requestId /\ prepared <= requestId

\* Places of the queue that hold a topology change, and those that hold a query.
Changes(q) == {i \in 1..Len(q) : q[i].kind = "topology"}
Queries(q) == {i \in 1..Len(q) : q[i].kind # "topology"}

(* A change is queued until it is the session's. *)
Counted == requestId + Cardinality(Changes(queue)) = sent

(* What the closure may conclude from an empty queue and a low flag. *)
Published ==
  /\ batchInFlight <=> enginePc # "idle"
  /\ enginePc \in {"idle", "clear"} => graphStale = (requestId # appliedId)
  /\ workerPc = "flag" => queue = <<>>

(* While no query has timed out at most one is queued, the one waited for. *)
Asked == query = 0 =>
  /\ \A i \in Queries(queue) :
        /\ queue[i].query = 0 /\ answer.kind = "none"
        /\ \/ queue[i].kind = "describe" /\ workerPc = "described"
           \/ queue[i].kind = "install" /\ workerPc = "installed" /\ queue[i].id = prepared
  /\ \A i, j \in Queries(queue) : i = j
  /\ workerPc = "described" => answer.kind \in {"none", "current", "topology"}
  /\ workerPc = "installed" => answer.kind \in {"none", "installed"}

\* Another apply is certain.
Owed == deadline # "none" \/ \E m \in Mutators : mutatorPc[m] = "sent"

(* Where no other apply is certain, this one is about the newest topology. *)
UpToDate ==
  /\ workerPc \in {"wait", "finish"} => appliedId = sent \/ sent \in Unbuildable
  /\ workerPc = "described" =>
       /\ answer.kind = "none" => \A i \in Queries(queue), j \in Changes(queue) : j < i
       /\ answer.kind = "topology" => answer.id = sent
       /\ answer.kind = "current" => appliedId = sent
  /\ workerPc = "build" => answer.id = sent
  /\ workerPc = "install" => prepared = sent
  /\ workerPc = "installed" =>
       IF answer.kind = "installed" THEN appliedId = sent ELSE prepared = sent

Watched == query = 0 /\ ~Owed => UpToDate

IInv == Typed /\ Honest /\ Counted /\ Published /\ Asked /\ Watched

-----------------------------------------------------------------------------
(* Sequences of commands. *)

\* The places of some commands are finitely many.
LEMMA PlacesFinite ==
  ASSUME NEW q \in Seq(Commands)
  PROVE  IsFiniteSet(Changes(q)) /\ Cardinality(Changes(q)) \in Nat
<1>1. Len(q) \in Nat /\ Changes(q) \in SUBSET (1..Len(q))
  BY DEF Changes
<1>2. IsFiniteSet(1..Len(q))
  BY <1>1, FS_Interval
<1>3. IsFiniteSet(Changes(q))
  BY <1>1, <1>2, FS_Subset
<1>4. QED
  BY <1>3, FS_CardinalityType

\* Where the commands stand once one more is appended.
LEMMA AppendPlaces ==
  ASSUME NEW q \in Seq(Commands), NEW c \in Commands
  PROVE  /\ Append(q, c) \in Seq(Commands)
         /\ Len(Append(q, c)) = Len(q) + 1
         /\ \A i \in 1..Len(q) : Append(q, c)[i] = q[i]
         /\ Append(q, c)[Len(q) + 1] = c
         /\ c.kind = "topology" =>
               /\ Changes(Append(q, c)) = Changes(q) \cup {Len(q) + 1}
               /\ Queries(Append(q, c)) = Queries(q)
         /\ c.kind # "topology" =>
               /\ Changes(Append(q, c)) = Changes(q)
               /\ Queries(Append(q, c)) = Queries(q) \cup {Len(q) + 1}
  BY DEF Changes, Queries

\* One more change is counted.
LEMMA AppendCount ==
  ASSUME NEW q \in Seq(Commands), NEW c \in Commands
  PROVE  Cardinality(Changes(Append(q, c))) =
           Cardinality(Changes(q)) + (IF c.kind = "topology" THEN 1 ELSE 0)
<1>1. CASE c.kind = "topology"
  <2>1. Changes(Append(q, c)) = Changes(q) \cup {Len(q) + 1}
    BY <1>1, AppendPlaces
  <2>2. Len(q) + 1 \notin Changes(q)
    BY DEF Changes
  <2>3. Cardinality(Changes(q) \cup {Len(q) + 1}) = Cardinality(Changes(q)) + 1
    BY <2>2, PlacesFinite, FS_AddElement
  <2>4. QED
    BY <1>1, <2>1, <2>3
<1>2. CASE c.kind # "topology"
  <2>1. Changes(Append(q, c)) = Changes(q)
    BY <1>2, AppendPlaces
  <2>2. QED
    BY <1>2, <2>1, PlacesFinite
<1>3. QED
  BY <1>1, <1>2

\* Where the commands stand once the first is taken.
LEMMA TailPlaces ==
  ASSUME NEW q \in Seq(Commands), q # <<>>
  PROVE  /\ Tail(q) \in Seq(Commands) /\ Head(q) \in Commands
         /\ Len(q) \in Nat /\ Len(q) > 0 /\ Head(q) = q[1]
         /\ Len(Tail(q)) = Len(q) - 1
         /\ \A i \in 1..Len(Tail(q)) : Tail(q)[i] = q[i + 1] /\ i + 1 \in 1..Len(q)
  OBVIOUS

\* The first command is counted no longer.
LEMMA TailCount ==
  ASSUME NEW q \in Seq(Commands), q # <<>>
  PROVE  Cardinality(Changes(q)) =
           Cardinality(Changes(Tail(q))) + (IF Head(q).kind = "topology" THEN 1 ELSE 0)
<1> DEFINE Rest == Changes(q) \ {1}
           move == [i \in Changes(Tail(q)) |-> i + 1]
<1>1. move \in Bijection(Changes(Tail(q)), Rest)
  <2>1. \A i \in Changes(Tail(q)) : i \in Nat /\ i + 1 \in Rest
    BY TailPlaces DEF Changes
  <2>2. \A j \in Rest : j - 1 \in Changes(Tail(q)) /\ (j - 1) + 1 = j
    <3> SUFFICES ASSUME NEW j \in Rest PROVE j - 1 \in Changes(Tail(q)) /\ (j - 1) + 1 = j
      OBVIOUS
    <3>1. j \in 1..Len(q) /\ j # 1 /\ q[j].kind = "topology"
      BY DEF Changes
    <3>2. j - 1 \in 1..Len(Tail(q)) /\ (j - 1) + 1 = j
      BY <3>1, TailPlaces
    <3>3. Tail(q)[j - 1] = q[j]
      BY <3>2, TailPlaces
    <3>4. QED
      BY <3>1, <3>2, <3>3 DEF Changes
  <2>3. move \in [Changes(Tail(q)) -> Rest]
    BY <2>1
  <2>4. \A a, b \in Changes(Tail(q)) : move[a] = move[b] => a = b
    BY <2>1
  <2>5. \A j \in Rest : \E i \in Changes(Tail(q)) : move[i] = j
    BY <2>2
  <2>6. QED
    BY <2>3, <2>4, <2>5 DEF Bijection, Injection, Surjection, IsInjective
<1>2. Cardinality(Rest) = Cardinality(Changes(Tail(q)))
  <2>1. ExistsBijection(Changes(Tail(q)), Rest)
    BY <1>1 DEF ExistsBijection
  <2>2. QED
    BY <2>1, TailPlaces, PlacesFinite, FS_Bijection
<1>3. Cardinality(Rest) = IF 1 \in Changes(q) THEN Cardinality(Changes(q)) - 1
                                               ELSE Cardinality(Changes(q))
  BY PlacesFinite, FS_RemoveElement
<1>4. 1 \in Changes(q) <=> Head(q).kind = "topology"
  BY TailPlaces DEF Changes
<1>5. QED
  BY <1>2, <1>3, <1>4, PlacesFinite

\* No change is queued in an empty queue, or before the first command.
LEMMA EmptyCount == Cardinality(Changes(<<>>)) = 0
<1>1. Changes(<<>>) = {}
  BY DEF Changes
<1>2. QED
  BY <1>1, FS_EmptySet

-----------------------------------------------------------------------------
(* The invariant. *)

\* The initial state satisfies the invariant.
LEMMA InitInv == Init => IInv
<1> SUFFICES ASSUME Init PROVE IInv
  OBVIOUS
<1>0. <<>> \in Seq(Commands) /\ Len(<<>>) = 0
  OBVIOUS
<1>1. Typed
  <2>1. mutatorPc \in [Mutators -> {"idle", "sent"}]
    BY DEF Init
  <2>2. NoAnswer \in [kind : {"none", "current", "topology", "installed"}, id : Nat]
    BY DEF NoAnswer
  <2>3. /\ queue \in Seq(Commands) /\ Len(queue) = 0 /\ requestId = 0 /\ appliedId = 0
        /\ schedule = 0 /\ accepted = 0
        /\ enginePc = "idle" /\ batchInFlight \in BOOLEAN /\ graphStale \in BOOLEAN /\ sent = 0
        /\ query = 0 /\ prepared = 0 /\ workerPc = "wait" /\ answer = NoAnswer
    BY <1>0 DEF Init
  <2>4. QED
    BY <2>1, <2>2, <2>3 DEF Typed, WorkerPcs
<1>2. Honest /\ Published
  <2>1. \A i \in 1..Len(queue) : queue[i].id <= requestId
    BY <1>0 DEF Init
  <2>2. /\ requestId = 0 /\ appliedId = 0 /\ schedule = 0 /\ answer.id = 0 /\ prepared = 0
    BY DEF Init, NoAnswer
  <2>3. Honest
    BY <2>1, <2>2 DEF Honest, AppliedIdIsHonest
  <2>4. Published
    <3>1. (requestId # appliedId) = FALSE
      BY <2>2
    <3>2. batchInFlight = FALSE /\ graphStale = FALSE /\ enginePc = "idle" /\ workerPc # "flag"
      BY DEF Init
    <3>3. QED
      BY <3>1, <3>2, Zenon DEF Published
  <2>5. QED
    BY <2>3, <2>4
<1>3. Counted
  BY EmptyCount DEF Init, Counted
<1>4. Asked
  BY DEF Init, Asked, Queries
<1>5. Watched
  BY DEF Init, Watched, UpToDate
<1>6. QED
  BY <1>1, <1>2, <1>3, <1>4, <1>5 DEF IInv

\* Steps that append a command, take one, or leave the queue alone.
Asks == SendDescribe \/ SendInstall
RestOfClosure ==
  \/ WindowElapses \/ TakeBatch \/ PendingWork \/ NothingQueued \/ ReadStaleness
  \/ ReceiveDescription \/ Build \/ ReceiveDisplaced \/ QueryTimesOut \/ FinishApply
RestOfEngine == TakeCommands \/ EndBatch \/ PublishStaleness \/ ClearBatchFlag

\* Every step is one of these.
LEMMA Steps ==
  ASSUME [Next]_vars
  PROVE  \/ \E m \in Mutators : SendTopology(m)
         \/ \E m \in Mutators : ArmAfterSend(m)
         \/ RunNext \/ RestOfEngine \/ Asks \/ RestOfClosure
         \/ \E f \in Flushers : Flusher(f)
         \/ UNCHANGED vars
  BY DEF Next, Engine, Worker, RestOfEngine, Asks, RestOfClosure

\* What a flusher does, and nobody's step, leaves everything of the invariant alone but
\* for a deadline that is brought forward.
LEMMA FlusherSteps ==
  ASSUME (\E f \in Flushers : Flusher(f)) \/ UNCHANGED vars
  PROVE  /\ UNCHANGED <<engineVars, closureVars, mutatorPc, sent>>
         /\ deadline' = deadline \/ deadline' = "due"
<1>1. CASE \E f \in Flushers : Flusher(f)
  BY <1>1 DEF Flusher, BeginWaitProcess, QueueDrained, DrainTimesOut, BeginFlush, EndFlush,
     FlusherStep, engineVars, closureVars, schedulerVars
<1>2. CASE UNCHANGED vars
  BY <1>2 DEF vars, engineVars, closureVars, schedulerVars, callerVars
<1>3. QED
  BY <1>1, <1>2

\* The command at the head of the queue is taken.
LEMMA RunTakes ==
  ASSUME Typed, RunNext
  PROVE  /\ queue # <<>> /\ queue' = Tail(queue) /\ enginePc = "batch"
         /\ accepted' = accepted - 1 /\ accepted > 0
  BY DEF Typed, RunNext

\* A command has its type wherever it is.
LEMMA Elements ==
  ASSUME NEW q \in Seq(Commands), NEW i \in 1..Len(q)
  PROVE  /\ q[i] \in Commands /\ q[i].id \in Nat /\ q[i].query \in Nat
         /\ q[i].kind \in {"topology", "describe", "install"}
<1>1. q[i] \in Commands
  OBVIOUS
<1>2. QED
  BY <1>1 DEF Commands

\* Steps keep the types.
LEMMA StepTyped == Typed /\ [Next]_vars => Typed'
<1> SUFFICES ASSUME Typed, [Next]_vars PROVE Typed'
  OBVIOUS
<1>1. ASSUME NEW m \in Mutators, SendTopology(m) PROVE Typed'
  <2>1. Change \in Commands
    BY DEF Change, Commands
  <2>2. /\ Append(queue, Change) \in Seq(Commands)
        /\ Len(Append(queue, Change)) = Len(queue) + 1
    BY <2>1, AppendPlaces DEF Typed
  <2>3. Len(queue) \in Nat
    BY DEF Typed
  <2>4. mutatorPc' \in [Mutators -> {"idle", "sent"}]
    BY <1>1 DEF SendTopology, Typed
  <2>5. QED
    BY <1>1, <2>2, <2>3, <2>4 DEF SendTopology, Typed, closureVars
<1>2. ASSUME NEW m \in Mutators, ArmAfterSend(m) PROVE Typed'
  BY <1>2 DEF ArmAfterSend, Typed, engineVars, closureVars
<1>3. CASE RunNext
  <2>1. /\ Tail(queue) \in Seq(Commands) /\ Head(queue) \in Commands
        /\ Len(Tail(queue)) = Len(queue) - 1 /\ Len(queue) \in Nat
    BY <1>3, RunTakes, TailPlaces DEF Typed
  <2>2. queue' \in Seq(Commands) /\ accepted' \in Nat /\ accepted' <= Len(queue')
    <3>1. accepted \in Nat /\ accepted <= Len(queue)
      BY DEF Typed
    <3>2. queue' = Tail(queue) /\ accepted' = accepted - 1 /\ accepted > 0
      BY <1>3, RunTakes
    <3>3. QED
      BY <2>1, <3>1, <3>2
  <2>3. /\ requestId' \in Nat /\ appliedId' \in Nat /\ schedule' \in Nat
        /\ answer' \in [kind : {"none", "current", "topology", "installed"}, id : Nat]
    <3>1. Head(queue).id \in Nat
      BY <2>1 DEF Commands
    <3>2. /\ requestId \in Nat /\ appliedId \in Nat /\ schedule \in Nat
          /\ answer \in [kind : {"none", "current", "topology", "installed"}, id : Nat]
      BY DEF Typed
    <3>3. CASE RunChange(Head(queue))
      BY <3>2, <3>3 DEF RunChange
    <3>4. CASE RunDescribe(Head(queue))
      BY <3>2, <3>4 DEF RunDescribe, Reply
    <3>5. CASE RunInstall(Head(queue))
      BY <3>1, <3>2, <3>5 DEF RunInstall, Reply
    <3>6. QED
      BY <1>3, <3>3, <3>4, <3>5 DEF RunNext
  <2>4. UNCHANGED <<enginePc, batchInFlight, graphStale, workerPc, query, prepared,
                    mutatorPc, sent>>
    BY <1>3 DEF RunNext, callerVars
  <2>5. QED
    BY <2>2, <2>3, <2>4 DEF Typed
<1>4. CASE RestOfEngine
  <2>1. /\ UNCHANGED <<queue, requestId, appliedId, schedule, closureVars, callerVars>>
        /\ accepted' \in {accepted, Len(queue)}
        /\ enginePc' \in {"idle", "batch", "publish", "clear"}
        /\ batchInFlight' \in BOOLEAN /\ graphStale' \in BOOLEAN
    BY <1>4 DEF RestOfEngine, TakeCommands, EndBatch, PublishStaleness, ClearBatchFlag, Typed
  <2>2. accepted' \in Nat /\ accepted' <= Len(queue)
    <3>1. Len(queue) \in Nat /\ accepted \in Nat /\ accepted <= Len(queue)
      BY DEF Typed
    <3>2. QED
      BY <2>1, <3>1
  <2>3. QED
    BY <2>1, <2>2 DEF Typed, closureVars, callerVars
<1>5. CASE Asks
  <2>1. Describe(query) \in Commands /\ Install(prepared, query) \in Commands
    BY DEF Describe, Install, Commands, Typed
  <2>2. \A c \in Commands : /\ Append(queue, c) \in Seq(Commands)
                            /\ Len(Append(queue, c)) = Len(queue) + 1
    BY AppendPlaces DEF Typed
  <2>3. Len(queue) \in Nat
    BY DEF Typed
  <2>4. queue' \in Seq(Commands) /\ accepted' \in Nat /\ accepted' <= Len(queue')
    <3>1. accepted \in Nat /\ accepted <= Len(queue) /\ accepted' = accepted
      BY <1>5 DEF Asks, SendDescribe, SendInstall, Typed
    <3>2. PICK c \in Commands : queue' = Append(queue, c)
      BY <1>5, <2>1 DEF Asks, SendDescribe, SendInstall
    <3>3. QED
      BY <2>2, <2>3, <3>1, <3>2
  <2>5. /\ UNCHANGED <<requestId, appliedId, schedule, enginePc, batchInFlight, graphStale,
                       query, prepared, mutatorPc, sent>>
        /\ workerPc' \in WorkerPcs
    BY <1>5 DEF Asks, SendDescribe, SendInstall, ClosureStep, WorkerPcs, callerVars
  <2>6. answer' \in [kind : {"none", "current", "topology", "installed"}, id : Nat]
    BY <1>5 DEF Asks, SendDescribe, SendInstall, NoAnswer
  <2>7. QED
    BY <2>4, <2>5, <2>6 DEF Typed
<1>6. CASE RestOfClosure
  <2>1. UNCHANGED <<engineVars, mutatorPc, sent>>
    BY <1>6 DEF RestOfClosure, WindowElapses, TakeBatch, PendingWork, NothingQueued,
       ReadStaleness, ReceiveDescription, Build, ReceiveDisplaced, QueryTimesOut, FinishApply,
       callerVars
  <2>2. /\ answer' \in {answer, NoAnswer} /\ query' \in {query, query + 1}
        /\ prepared' \in {prepared, answer.id}
        /\ workerPc' \in WorkerPcs \cup {workerPc}
    BY <1>6 DEF RestOfClosure, WindowElapses, TakeBatch, PendingWork, NothingQueued,
       ReadStaleness, ReceiveDescription, Build, ReceiveDisplaced, QueryTimesOut, FinishApply,
       ClosureStep, WorkerPcs, closureVars
  <2>3. NoAnswer \in [kind : {"none", "current", "topology", "installed"}, id : Nat]
    BY DEF NoAnswer
  <2>4. QED
    BY <2>1, <2>2, <2>3 DEF Typed, engineVars
<1>7. CASE (\E f \in Flushers : Flusher(f)) \/ UNCHANGED vars
  BY <1>7, FlusherSteps DEF Typed, engineVars, closureVars
<1>8. QED
  BY <1>1, <1>2, <1>3, <1>4, <1>5, <1>6, <1>7, Steps

\* Steps never make anything name a topology that is still to come.
LEMMA StepHonest == Typed /\ Honest /\ [Next]_vars => Honest'
<1> SUFFICES ASSUME Typed, Honest, [Next]_vars PROVE Honest'
  OBVIOUS
<1>1. ASSUME NEW m \in Mutators, SendTopology(m) PROVE Honest'
  <2>1. Change \in Commands /\ Change.id = 0
    BY DEF Change, Commands
  <2>2. \A i \in 1..Len(queue') : queue'[i].id <= requestId
    <3>1. queue' = Append(queue, Change) /\ queue \in Seq(Commands) /\ requestId \in Nat
      BY <1>1 DEF SendTopology, Typed
    <3>2. QED
      BY <2>1, <3>1, AppendPlaces DEF Honest
  <2>3. QED
    BY <1>1, <2>2 DEF SendTopology, Honest, AppliedIdIsHonest, closureVars
<1>2. ASSUME NEW m \in Mutators, ArmAfterSend(m) PROVE Honest'
  BY <1>2 DEF ArmAfterSend, Honest, AppliedIdIsHonest, engineVars, closureVars
<1>3. CASE RunNext
  <2>1. /\ requestId' >= requestId /\ requestId' \in Nat
        /\ requestId \in Nat /\ answer.id \in Nat
    BY <1>3 DEF RunNext, RunChange, RunDescribe, RunInstall, Typed
  <2>2. Head(queue).id <= requestId /\ Head(queue).id \in Nat
    <3>1. Head(queue) = queue[1] /\ 1 \in 1..Len(queue) /\ Head(queue) \in Commands
      BY <1>3, RunTakes, TailPlaces DEF Typed
    <3>2. QED
      BY <3>1 DEF Honest, Commands
  <2>3. \A i \in 1..Len(queue') : queue'[i].id <= requestId'
    <3>0. queue \in Seq(Commands) /\ queue # <<>> /\ queue' = Tail(queue)
      BY <1>3, RunTakes DEF Typed
    <3>1. \A i \in 1..Len(queue') : \E j \in 1..Len(queue) : queue'[i] = queue[j]
      BY <3>0, TailPlaces
    <3>2. \A j \in 1..Len(queue) : queue[j].id \in Nat
      BY <3>0, Elements
    <3>3. QED
      BY <2>1, <3>1, <3>2 DEF Honest
  <2>4. answer'.id <= requestId' /\ appliedId' = schedule' /\ appliedId' <= requestId'
    BY <1>3, <2>1, <2>2 DEF RunNext, RunChange, RunDescribe, RunInstall, Reply, Honest,
       AppliedIdIsHonest, Typed
  <2>5. prepared' <= requestId'
    BY <1>3, <2>1 DEF RunNext, Honest, Typed
  <2>6. QED
    BY <2>3, <2>4, <2>5 DEF Honest, AppliedIdIsHonest
<1>4. CASE RestOfEngine
  BY <1>4 DEF RestOfEngine, TakeCommands, EndBatch, PublishStaleness, ClearBatchFlag,
     Honest, AppliedIdIsHonest, closureVars
<1>5. CASE Asks
  <2>1. /\ Describe(query) \in Commands /\ Install(prepared, query) \in Commands
        /\ Describe(query).id <= requestId /\ Install(prepared, query).id <= requestId
    BY DEF Describe, Install, Commands, Typed, Honest
  <2>2. \A i \in 1..Len(queue') : queue'[i].id <= requestId
    <3>1. PICK c \in Commands : c.id <= requestId /\ queue' = Append(queue, c)
      BY <1>5, <2>1 DEF Asks, SendDescribe, SendInstall
    <3>2. queue \in Seq(Commands)
      BY DEF Typed
    <3>3. QED
      BY <3>1, <3>2, AppendPlaces DEF Honest
  <2>3. QED
    BY <1>5, <2>2 DEF Asks, SendDescribe, SendInstall, Honest, AppliedIdIsHonest, NoAnswer,
       Typed
<1>6. CASE RestOfClosure
  BY <1>6 DEF RestOfClosure, WindowElapses, TakeBatch, PendingWork, NothingQueued,
     ReadStaleness, ReceiveDescription, Build, ReceiveDisplaced, QueryTimesOut, FinishApply,
     NoAnswer, Typed, Honest, AppliedIdIsHonest, engineVars, closureVars
<1>7. CASE (\E f \in Flushers : Flusher(f)) \/ UNCHANGED vars
  BY <1>7, FlusherSteps DEF Honest, AppliedIdIsHonest, engineVars, closureVars
<1>8. QED
  BY <1>1, <1>2, <1>3, <1>4, <1>5, <1>6, <1>7, Steps

\* Steps count every change once.
LEMMA StepCounted == Typed /\ Counted /\ [Next]_vars => Counted'
<1> SUFFICES ASSUME Typed, Counted, [Next]_vars PROVE Counted'
  OBVIOUS
<1>0. /\ queue \in Seq(Commands) /\ requestId \in Nat /\ sent \in Nat
      /\ Cardinality(Changes(queue)) \in Nat
  BY PlacesFinite DEF Typed
<1>1. ASSUME NEW m \in Mutators, SendTopology(m) PROVE Counted'
  <2>1. Change \in Commands /\ Change.kind = "topology"
    BY DEF Change, Commands
  <2>2. Cardinality(Changes(queue')) = Cardinality(Changes(queue)) + 1
    BY <1>0, <1>1, <2>1, AppendCount DEF SendTopology
  <2>3. requestId' = requestId /\ sent' = sent + 1
    BY <1>1 DEF SendTopology
  <2>4. QED
    BY <1>0, <2>2, <2>3 DEF Counted
<1>2. CASE RunNext
  <2>1. queue # <<>> /\ queue' = Tail(queue) /\ Cardinality(Changes(queue')) \in Nat
    BY <1>0, <1>2, RunTakes, TailPlaces, PlacesFinite
  <2>2. Cardinality(Changes(queue)) = Cardinality(Changes(queue'))
                                        + (IF Head(queue).kind = "topology" THEN 1 ELSE 0)
    BY <1>0, <2>1, TailCount
  <2>3. requestId' = requestId + (IF Head(queue).kind = "topology" THEN 1 ELSE 0)
        /\ sent' = sent
    BY <1>0, <1>2 DEF RunNext, RunChange, RunDescribe, RunInstall, callerVars
  <2>4. QED
    BY <1>0, <2>1, <2>2, <2>3 DEF Counted
<1>3. CASE Asks
  <2>1. /\ Describe(query) \in Commands /\ Install(prepared, query) \in Commands
        /\ Describe(query).kind # "topology" /\ Install(prepared, query).kind # "topology"
    BY DEF Describe, Install, Commands, Typed
  <2>2. PICK c \in Commands : c.kind # "topology" /\ queue' = Append(queue, c)
    BY <1>3, <2>1 DEF Asks, SendDescribe, SendInstall
  <2>3. Cardinality(Changes(queue')) = Cardinality(Changes(queue))
    BY <1>0, <2>2, AppendCount
  <2>4. QED
    BY <1>3, <2>3 DEF Asks, SendDescribe, SendInstall, Counted, callerVars
<1>4. ASSUME UNCHANGED <<queue, requestId, sent>> PROVE Counted'
  BY <1>4 DEF Counted
<1>5. QED
  <2>1. (\E m \in Mutators : ArmAfterSend(m)) \/ RestOfEngine \/ RestOfClosure
          => UNCHANGED <<queue, requestId, sent>>
    BY DEF ArmAfterSend, RestOfEngine, TakeCommands, EndBatch, PublishStaleness,
       ClearBatchFlag, RestOfClosure, WindowElapses, TakeBatch, PendingWork, NothingQueued,
       ReadStaleness, ReceiveDescription, Build, ReceiveDisplaced, QueryTimesOut,
       FinishApply, engineVars, callerVars
  <2>2. (\E f \in Flushers : Flusher(f)) \/ UNCHANGED vars
          => UNCHANGED <<queue, requestId, sent>>
    BY FlusherSteps DEF engineVars
  <2>3. QED
    BY <1>1, <1>2, <1>3, <1>4, <2>1, <2>2, Steps

\* What is published stays what the reader takes it for.
LEMMA StepPublished == Typed /\ Published /\ [Next]_vars => Published'
<1> SUFFICES ASSUME Typed, Published, [Next]_vars PROVE Published'
  OBVIOUS
<1>1. ASSUME NEW m \in Mutators, SendTopology(m) PROVE Published'
  BY <1>1, Zenon DEF SendTopology, HandleFree, Published, closureVars
<1>2. ASSUME NEW m \in Mutators, ArmAfterSend(m) PROVE Published'
  BY <1>2, Zenon DEF ArmAfterSend, Published, engineVars, closureVars
<1>3. CASE RunNext
  <2>1. /\ enginePc = "batch" /\ queue # <<>>
        /\ UNCHANGED <<enginePc, batchInFlight, workerPc>>
    BY <1>3, RunTakes DEF RunNext
  <2>2. workerPc' # "flag"
    BY <2>1 DEF Published
  <2>3. QED
    BY <2>1, <2>2, Zenon DEF Published
<1>4. CASE RestOfEngine
  <2>1. UNCHANGED <<queue, requestId, appliedId, workerPc>>
    BY <1>4 DEF RestOfEngine, TakeCommands, EndBatch, PublishStaleness, ClearBatchFlag,
       closureVars
  <2>2. workerPc' = "flag" => queue' = <<>>
    BY <2>1 DEF Published
  <2>3. CASE TakeCommands
    BY <2>2, <2>3 DEF TakeCommands, Published
  <2>4. CASE EndBatch
    BY <2>2, <2>4 DEF EndBatch, Published
  <2>5. CASE PublishStaleness
    BY <2>1, <2>2, <2>5, Zenon DEF PublishStaleness, Published
  <2>6. CASE ClearBatchFlag
    BY <2>1, <2>2, <2>6 DEF ClearBatchFlag, Published
  <2>7. QED
    BY <1>4, <2>3, <2>4, <2>5, <2>6 DEF RestOfEngine
<1>5. CASE Asks
  BY <1>5 DEF Asks, SendDescribe, SendInstall, ClosureStep, Published
<1>6. CASE RestOfClosure
  <2>1. UNCHANGED engineVars
    BY <1>6 DEF RestOfClosure, WindowElapses, TakeBatch, PendingWork, NothingQueued,
       ReadStaleness, ReceiveDescription, Build, ReceiveDisplaced, QueryTimesOut, FinishApply
  <2>2. workerPc' = "flag" => queue = <<>>
    BY <1>6 DEF RestOfClosure, WindowElapses, TakeBatch, PendingWork, NothingQueued,
       ReadStaleness, ReceiveDescription, Build, ReceiveDisplaced, QueryTimesOut, FinishApply,
       ClosureStep, Published, closureVars
  <2>3. QED
    BY <2>1, <2>2, Zenon DEF Published, engineVars
<1>7. CASE (\E f \in Flushers : Flusher(f)) \/ UNCHANGED vars
  <2>1. UNCHANGED <<engineVars, workerPc>>
    BY <1>7, FlusherSteps DEF closureVars
  <2>2. QED
    BY <2>1, Zenon DEF Published, engineVars
<1>8. QED
  BY <1>1, <1>2, <1>3, <1>4, <1>5, <1>6, <1>7, Steps

\* Queries and changes move up by one when the first command is taken.
LEMMA TailKinds ==
  ASSUME NEW q \in Seq(Commands), q # <<>>
  PROVE  /\ \A i \in Queries(Tail(q)) : i \in Nat /\ i + 1 \in Queries(q) /\ Tail(q)[i] = q[i + 1]
         /\ \A i \in Changes(Tail(q)) : i \in Nat /\ i + 1 \in Changes(q)
         /\ Head(q).kind # "topology" => 1 \in Queries(q)
<1>1. \A i \in 1..Len(Tail(q)) : i \in Nat /\ Tail(q)[i] = q[i + 1] /\ i + 1 \in 1..Len(q)
  BY TailPlaces
<1>2. Head(q) = q[1] /\ 1 \in 1..Len(q)
  BY TailPlaces
<1>3. QED
  BY <1>1, <1>2 DEF Queries, Changes

\* While no query has timed out, the queue holds only the query that is waited for.
LEMMA StepAsked == Typed /\ Asked /\ [Next]_vars => Asked'
<1> SUFFICES ASSUME Typed, Asked, [Next]_vars, query' = 0 PROVE Asked'
  BY DEF Asked
<1>0. queue \in Seq(Commands)
  BY DEF Typed
<1>a. ASSUME UNCHANGED <<queue, answer, workerPc, prepared, query>> PROVE Asked'
  BY <1>a DEF Asked, Queries
<1>b. ASSUME query = 0, Queries(queue') = {}, workerPc' \notin {"described", "installed"}
      PROVE  Asked'
  BY <1>b DEF Asked
<1>1. ASSUME NEW m \in Mutators, SendTopology(m) PROVE Asked'
  <2>1. Change \in Commands /\ Change.kind = "topology"
    BY DEF Change, Commands
  <2>2. /\ Queries(queue') = Queries(queue)
        /\ \A i \in Queries(queue) : queue'[i] = queue[i]
    BY <1>0, <1>1, <2>1, AppendPlaces DEF SendTopology, Queries
  <2>3. UNCHANGED <<answer, workerPc, prepared, query>>
    BY <1>1 DEF SendTopology, closureVars
  <2>4. QED
    BY <2>2, <2>3 DEF Asked
<1>2. ASSUME NEW m \in Mutators, ArmAfterSend(m) PROVE Asked'
  BY <1>2, <1>a DEF ArmAfterSend, engineVars, closureVars
<1>3. CASE RunNext
  <2>1. /\ queue # <<>> /\ queue' = Tail(queue)
        /\ UNCHANGED <<workerPc, query, prepared>> /\ query = 0
    BY <1>3, RunTakes DEF RunNext
  <2>2. \A i \in Queries(queue') :
          i \in Nat /\ i + 1 \in Queries(queue) /\ queue'[i] = queue[i + 1]
    BY <1>0, <2>1, TailKinds
  <2>3. CASE RunChange(Head(queue))
    <3>1. answer' = answer
      BY <2>3 DEF RunChange
    <3>2. \A i, j \in Queries(queue') : i = j
      <4> SUFFICES ASSUME NEW i \in Queries(queue'), NEW j \in Queries(queue') PROVE i = j
        OBVIOUS
      <4>1. i + 1 = j + 1 /\ i \in Nat /\ j \in Nat
        BY <2>1, <2>2 DEF Asked
      <4>2. QED
        BY <4>1
    <3>3. ASSUME NEW i \in Queries(queue')
          PROVE  /\ queue'[i].query = 0 /\ answer'.kind = "none"
                 /\ \/ queue'[i].kind = "describe" /\ workerPc' = "described"
                    \/ /\ queue'[i].kind = "install" /\ workerPc' = "installed"
                       /\ queue'[i].id = prepared'
      <4>1. i + 1 \in Queries(queue) /\ queue'[i] = queue[i + 1]
        BY <2>2
      <4>2. QED
        BY <2>1, <3>1, <4>1 DEF Asked
    <3>4. /\ workerPc' = "described" => answer'.kind \in {"none", "current", "topology"}
          /\ workerPc' = "installed" => answer'.kind \in {"none", "installed"}
      BY <2>1, <3>1 DEF Asked
    <3>5. QED
      BY <3>2, <3>3, <3>4 DEF Asked
  <2>4. ASSUME Head(queue).kind # "topology"
        PROVE  /\ Queries(queue') = {}
               /\ Head(queue).kind = "describe" => workerPc = "described"
               /\ Head(queue).kind = "install" => workerPc = "installed"
               /\ Head(queue).query = 0 /\ answer.kind = "none"
    <3>1. 1 \in Queries(queue) /\ Head(queue) = queue[1]
      BY <1>0, <2>1, <2>4, TailKinds, TailPlaces
    <3>2. \A i \in Queries(queue') : i = 0
      <4> SUFFICES ASSUME NEW i \in Queries(queue') PROVE i = 0
        OBVIOUS
      <4>1. i \in Nat /\ i + 1 = 1
        BY <2>1, <2>2, <3>1 DEF Asked
      <4>2. QED
        BY <4>1
    <3>3. 0 \notin Queries(queue')
      BY DEF Queries
    <3>4. QED
      BY <2>1, <3>1, <3>2, <3>3 DEF Asked
  <2>5. CASE RunDescribe(Head(queue))
    BY <2>1, <2>4, <2>5 DEF RunDescribe, Reply, Asked
  <2>6. CASE RunInstall(Head(queue))
    BY <2>1, <2>4, <2>6 DEF RunInstall, Reply, Asked
  <2>7. QED
    BY <1>3, <2>3, <2>5, <2>6 DEF RunNext
<1>4. CASE RestOfEngine
  BY <1>4, <1>a DEF RestOfEngine, TakeCommands, EndBatch, PublishStaleness, ClearBatchFlag,
     closureVars
<1>5. CASE Asks
  <2>1. /\ Describe(query) \in Commands /\ Install(prepared, query) \in Commands
        /\ Describe(query).kind = "describe" /\ Install(prepared, query).kind = "install"
        /\ Describe(query).query = query /\ Install(prepared, query).query = query
        /\ Install(prepared, query).id = prepared
    BY DEF Describe, Install, Commands, Typed
  <2>2. query = 0 /\ UNCHANGED <<query, prepared>> /\ answer'.kind = "none"
    BY <1>5 DEF Asks, SendDescribe, SendInstall, NoAnswer
  <2>3. Queries(queue) = {}
    BY <1>5, <2>2 DEF Asks, SendDescribe, SendInstall, ClosureStep, Asked
  <2>4. CASE SendDescribe
    <3>1. queue' = Append(queue, Describe(query)) /\ workerPc' = "described"
      BY <2>4 DEF SendDescribe, ClosureStep
    <3>2. Queries(queue') = {Len(queue) + 1} /\ queue'[Len(queue) + 1] = Describe(query)
      BY <1>0, <2>1, <2>3, <3>1, AppendPlaces
    <3>3. QED
      BY <2>1, <2>2, <3>1, <3>2 DEF Asked
  <2>5. CASE SendInstall
    <3>1. queue' = Append(queue, Install(prepared, query)) /\ workerPc' = "installed"
      BY <2>5 DEF SendInstall, ClosureStep
    <3>2. /\ Queries(queue') = {Len(queue) + 1}
          /\ queue'[Len(queue) + 1] = Install(prepared, query)
      BY <1>0, <2>1, <2>3, <3>1, AppendPlaces
    <3>3. QED
      BY <2>1, <2>2, <3>1, <3>2 DEF Asked
  <2>6. QED
    BY <1>5, <2>4, <2>5 DEF Asks
<1>6. CASE RestOfClosure
  <2>1. CASE WindowElapses
    BY <2>1, <1>a DEF WindowElapses, engineVars, closureVars
  <2>2. CASE QueryTimesOut
    BY <2>2 DEF QueryTimesOut, Typed
  <2>3. CASE ~WindowElapses /\ ~QueryTimesOut
    <3>1. /\ query = 0 /\ queue' = queue /\ workerPc' \notin {"described", "installed"}
          /\ workerPc \in {"described", "installed"} => answer.kind # "none"
      BY <1>6, <2>3 DEF RestOfClosure, TakeBatch, PendingWork, NothingQueued, ReadStaleness,
         ReceiveDescription, Build, ReceiveDisplaced, FinishApply, ClosureStep, engineVars
    <3>2. Queries(queue) = {}
      BY <3>1 DEF Asked
    <3>3. QED
      BY <3>1, <3>2, <1>b
  <2>4. QED
    BY <2>1, <2>2, <2>3
<1>7. CASE (\E f \in Flushers : Flusher(f)) \/ UNCHANGED vars
  BY <1>7, <1>a, FlusherSteps DEF engineVars, closureVars
<1>8. QED
  BY <1>1, <1>2, <1>3, <1>4, <1>5, <1>6, <1>7, Steps

\* Where no other apply is certain, the one under way stays about the newest topology.
LEMMA StepWatched == IInv /\ [Next]_vars => Watched'
<1> SUFFICES ASSUME IInv, [Next]_vars, query' = 0, ~Owed' PROVE UpToDate'
  BY DEF Watched
<1>0. /\ Typed /\ Counted /\ Published /\ Asked /\ Watched
      /\ queue \in Seq(Commands) /\ Cardinality(Changes(queue)) \in Nat
      /\ requestId \in Nat /\ sent \in Nat
  BY PlacesFinite DEF IInv, Typed
<1>n. Changes(queue) = {} => requestId = sent
  BY <1>0, FS_EmptySet DEF Counted
<1>a. ASSUME UpToDate, UNCHANGED <<queue, answer, workerPc, prepared, appliedId, sent>>
      PROVE  UpToDate'
  BY <1>a DEF UpToDate, Queries, Changes
<1>b. ASSUME UNCHANGED <<deadline, mutatorPc, query>> PROVE query = 0 /\ UpToDate
  BY <1>0, <1>b DEF Watched, Owed
<1>1. ASSUME NEW m \in Mutators, SendTopology(m) PROVE FALSE
  <2>1. mutatorPc'[m] = "sent"
    BY <1>0, <1>1 DEF SendTopology, Typed
  <2>2. QED
    BY <2>1 DEF Owed
<1>2. ASSUME NEW m \in Mutators, ArmAfterSend(m) PROVE FALSE
  BY <1>2 DEF ArmAfterSend, ArmDeadline, Owed
<1>3. CASE RunNext
  <2>1. /\ queue # <<>> /\ queue' = Tail(queue)
        /\ UNCHANGED <<deadline, mutatorPc, sent, workerPc, query, prepared>>
    BY <1>0, <1>3, RunTakes DEF RunNext, schedulerVars, callerVars
  <2>2. query = 0 /\ UpToDate
    BY <2>1, <1>b
  <2>3. CASE RunChange(Head(queue))
    <3>1. UNCHANGED <<answer, appliedId>>
      BY <2>3 DEF RunChange
    <3>2. ASSUME workerPc = "described", answer.kind = "none",
                 NEW i \in Queries(queue'), NEW j \in Changes(queue')
          PROVE  j < i
      <4>1. i \in Nat /\ i + 1 \in Queries(queue) /\ j \in Nat /\ j + 1 \in Changes(queue)
        BY <1>0, <2>1, TailKinds
      <4>2. j + 1 < i + 1
        BY <2>2, <3>2, <4>1 DEF UpToDate
      <4>3. QED
        BY <4>1, <4>2
    <3>3. QED
      BY <2>1, <2>2, <3>1, <3>2 DEF UpToDate
  <2>4. ASSUME Head(queue).kind # "topology"
        PROVE  /\ 1 \in Queries(queue) /\ Head(queue) = queue[1]
               /\ answer.kind = "none" /\ Head(queue).query = query
               /\ Head(queue).kind = "describe" => workerPc = "described"
               /\ Head(queue).kind = "install" =>
                    workerPc = "installed" /\ Head(queue).id = prepared
    <3>1. 1 \in Queries(queue) /\ Head(queue) = queue[1]
      BY <1>0, <2>1, <2>4, TailKinds, TailPlaces
    <3>2. QED
      BY <1>0, <2>2, <3>1 DEF Asked
  <2>5. CASE RunDescribe(Head(queue))
    <3>1. /\ Head(queue).kind = "describe" /\ UNCHANGED <<requestId, appliedId>>
          /\ workerPc = "described" /\ 1 \in Queries(queue) /\ answer.kind = "none"
          /\ Head(queue).query = query
      BY <2>4, <2>5 DEF RunDescribe
    <3>2. \A j \in Changes(queue) : j < 1
      BY <2>2, <3>1 DEF UpToDate
    <3>3. Changes(queue) = {}
      BY <1>0, <3>2 DEF Changes
    <3>4. requestId = sent
      BY <1>n, <3>3
    <3>5. answer' = IF requestId = appliedId THEN [kind |-> "current", id |-> 0]
                                             ELSE [kind |-> "topology", id |-> requestId]
      BY <2>5, <3>1 DEF RunDescribe, Reply
    <3>6. QED
      BY <2>1, <3>1, <3>4, <3>5 DEF UpToDate
  <2>6. CASE RunInstall(Head(queue))
    <3>1. /\ workerPc = "installed" /\ answer.kind = "none"
          /\ Head(queue).query = query /\ Head(queue).id = prepared
      BY <2>4, <2>6 DEF RunInstall
    <3>2. prepared = sent
      BY <2>2, <3>1 DEF UpToDate
    <3>3. appliedId' = sent /\ answer'.kind = "installed"
      BY <2>6, <3>1, <3>2 DEF RunInstall, Reply
    <3>4. QED
      BY <2>1, <3>1, <3>3 DEF UpToDate
  <2>7. QED
    BY <1>3, <2>3, <2>5, <2>6 DEF RunNext
<1>4. CASE RestOfEngine
  <2>1. UNCHANGED <<queue, appliedId, schedulerVars, closureVars, callerVars>>
    BY <1>4 DEF RestOfEngine, TakeCommands, EndBatch, PublishStaleness, ClearBatchFlag
  <2>2. QED
    BY <1>a, <1>b, <2>1 DEF schedulerVars, closureVars, callerVars
<1>5. CASE Asks
  <2>1. /\ Describe(query) \in Commands /\ Install(prepared, query) \in Commands
        /\ Describe(query).kind = "describe" /\ Install(prepared, query).kind = "install"
    BY <1>0 DEF Describe, Install, Commands, Typed
  <2>2. /\ UNCHANGED <<deadline, mutatorPc, query, prepared, appliedId, sent>>
        /\ answer'.kind = "none"
    BY <1>5 DEF Asks, SendDescribe, SendInstall, NoAnswer, schedulerVars, callerVars
  <2>3. query = 0 /\ UpToDate
    BY <2>2, <1>b
  <2>4. CASE SendDescribe
    <3>1. /\ queue' = Append(queue, Describe(query))
          /\ workerPc = "describe" /\ workerPc' = "described"
      BY <2>4 DEF SendDescribe, ClosureStep
    <3>2. Queries(queue) = {}
      BY <1>0, <2>3, <3>1 DEF Asked
    <3>3. Queries(queue') = {Len(queue) + 1} /\ Changes(queue') = Changes(queue)
      BY <1>0, <2>1, <3>1, <3>2, AppendPlaces
    <3>4. \A j \in Changes(queue) : j < Len(queue) + 1
      BY <1>0 DEF Changes
    <3>5. QED
      BY <2>2, <3>1, <3>3, <3>4 DEF UpToDate
  <2>5. CASE SendInstall
    BY <2>2, <2>3, <2>5 DEF SendInstall, ClosureStep, UpToDate
  <2>6. QED
    BY <1>5, <2>4, <2>5 DEF Asks
<1>6. CASE RestOfClosure
  <2>1. CASE WindowElapses
    BY <2>1 DEF WindowElapses, Owed
  <2>2. CASE TakeBatch
    BY <2>2 DEF TakeBatch, ClosureStep, UpToDate
  <2>3. CASE PendingWork
    BY <2>3 DEF PendingWork, ArmDeadline, Owed
  <2>4. CASE NothingQueued
    BY <2>4 DEF NothingQueued, ClosureStep, UpToDate
  <2>5. CASE ReadStaleness
    <3>1. /\ workerPc = "flag" /\ ~batchInFlight
          /\ UNCHANGED <<queue, requestId, appliedId, sent>>
          /\ workerPc' = IF graphStale THEN "describe" ELSE "finish"
      BY <2>5 DEF ReadStaleness, engineVars, callerVars
    <3>2. queue = <<>> /\ enginePc = "idle"
      BY <1>0, <3>1 DEF Published
    <3>3. requestId = sent
      BY <1>0, <3>2, EmptyCount DEF Counted
    <3>4. graphStale = (requestId # appliedId)
      BY <1>0, <3>2, Zenon DEF Published
    <3>5. CASE graphStale
      BY <3>1, <3>5 DEF UpToDate
    <3>6. CASE ~graphStale
      BY <3>1, <3>3, <3>4, <3>6 DEF UpToDate
    <3>7. QED
      BY <3>5, <3>6
  <2>6. CASE ReceiveDescription
    <3>1. UNCHANGED <<deadline, mutatorPc, query, answer, appliedId, sent>>
      BY <2>6 DEF ReceiveDescription, engineVars, schedulerVars, callerVars
    <3>2. UpToDate
      BY <3>1, <1>b
    <3>3. QED
      BY <2>6, <3>1, <3>2 DEF ReceiveDescription, UpToDate
  <2>7. CASE Build
    <3>1. UNCHANGED <<deadline, mutatorPc, query, answer, appliedId, sent>>
      BY <2>7 DEF Build, engineVars, schedulerVars, callerVars
    <3>2. UpToDate
      BY <3>1, <1>b
    <3>3. QED
      BY <2>7, <3>1, <3>2 DEF Build, UpToDate
  <2>8. CASE ReceiveDisplaced
    <3>1. UNCHANGED <<deadline, mutatorPc, query, answer, appliedId, sent>>
      BY <2>8 DEF ReceiveDisplaced, engineVars, schedulerVars, callerVars
    <3>2. UpToDate
      BY <3>1, <1>b
    <3>3. QED
      BY <2>8, <3>1, <3>2 DEF ReceiveDisplaced, ClosureStep, UpToDate
  <2>9. CASE QueryTimesOut
    BY <1>0, <2>9 DEF QueryTimesOut, Typed
  <2>10. CASE FinishApply
    <3>1. UNCHANGED <<deadline, mutatorPc, query, answer, appliedId, sent>>
      BY <2>10 DEF FinishApply, engineVars, callerVars
    <3>2. UpToDate
      BY <3>1, <1>b
    <3>3. QED
      BY <2>10, <3>1, <3>2 DEF FinishApply, ClosureStep, UpToDate
  <2>11. QED
    BY <1>6, <2>1, <2>2, <2>3, <2>4, <2>5, <2>6, <2>7, <2>8, <2>9, <2>10 DEF RestOfClosure
<1>7. CASE (\E f \in Flushers : Flusher(f)) \/ UNCHANGED vars
  <2>1. /\ UNCHANGED <<queue, answer, workerPc, prepared, appliedId, sent, mutatorPc, query>>
        /\ deadline' = deadline \/ deadline' = "due"
    BY <1>7, FlusherSteps DEF engineVars, closureVars
  <2>2. deadline' = deadline
    BY <2>1 DEF Owed
  <2>3. QED
    BY <2>1, <2>2, <1>a, <1>b
<1>8. QED
  BY <1>1, <1>2, <1>3, <1>4, <1>5, <1>6, <1>7, Steps

-----------------------------------------------------------------------------
(* What follows. *)

\* The invariant holds in every reachable state.
LEMMA Invariance == Spec => []IInv
<1>1. IInv /\ [Next]_vars => IInv'
  BY StepTyped, StepHonest, StepCounted, StepPublished, StepAsked, StepWatched DEF IInv
<1>2. QED
  BY InitInv, <1>1, PTL DEF Spec

\* The id of the applied graph is the id of the topology its schedule was built from,
\* however many topology changes land while the closure builds.
THEOREM IdIsHonest == Spec => []AppliedIdIsHonest
<1>1. IInv => AppliedIdIsHonest
  BY DEF IInv, Honest
<1>2. QED
  BY <1>1, Invariance, PTL

\* A change that is in no schedule always has a sender about to arm, a window, or a
\* closure that will still see it.
THEOREM EveryChangeIsWatched == Spec => []ChangeIsWatched
<1>1. IInv => ChangeIsWatched
  <2> SUFFICES ASSUME IInv, appliedId # sent, query = 0, sent \notin Unbuildable, ~Owed
               PROVE  ClosureWillSee
    BY DEF ChangeIsWatched, Owed
  <2>1. UpToDate /\ Asked /\ workerPc \in WorkerPcs
    BY DEF IInv, Watched, Typed
  <2>2. workerPc \notin {"wait", "finish"}
    BY <2>1 DEF UpToDate
  <2>3. CASE workerPc \in {"pending", "flag", "describe"}
    BY <2>3 DEF ClosureWillSee
  <2>4. CASE workerPc = "described"
    BY <2>1, <2>4 DEF UpToDate, Asked, ClosureWillSee
  <2>5. CASE workerPc \in {"build", "install", "installed"}
    BY <2>1, <2>5 DEF UpToDate, Described, ClosureWillSee
  <2>6. QED
    BY <2>1, <2>2, <2>3, <2>4, <2>5 DEF WorkerPcs
<1>2. QED
  BY <1>1, Invariance, PTL

(* The generations are numbers, and a flusher has a target exactly while it waits. *)
Flushing ==
  /\ dirtyGen \in Nat /\ appliedGen \in Nat /\ coveringGen \in Nat
  /\ target \in [Flushers -> Nat]
  /\ flusherPc \in [Flushers -> {"idle", "drain", "flush", "waiting", "done"}]
  /\ \A f \in Flushers : flusherPc[f] = "waiting" <=> target[f] # 0

\* What a flusher's step does to its target.
LEMMA FlusherMoves ==
  ASSUME Flushing, NEW f \in Flushers, Flusher(f)
  PROVE  Flushing'
<1>1. CASE BeginWaitProcess(f) \/ QueueDrained(f) \/ DrainTimesOut(f)
  <2>1. UNCHANGED schedulerVars
    BY <1>1 DEF BeginWaitProcess, QueueDrained, DrainTimesOut
  <2>2. PICK pc \in {"drain", "flush"} :
          flusherPc' = [flusherPc EXCEPT ![f] = pc] /\ flusherPc[f] \in {"idle", "drain"}
    BY <1>1 DEF BeginWaitProcess, QueueDrained, DrainTimesOut, FlusherStep
  <2>3. QED
    BY <2>1, <2>2 DEF Flushing, schedulerVars
<1>2. CASE BeginFlush(f)
  BY <1>2 DEF BeginFlush, FlusherStep, Flushing
<1>3. CASE EndFlush(f)
  BY <1>3 DEF EndFlush, FlusherStep, Flushing
<1>4. QED
  BY <1>1, <1>2, <1>3 DEF Flusher

\* Steps keep what is known of the generations and the targets.
LEMMA StepFlushing == Flushing /\ [Next]_vars => Flushing'
<1> SUFFICES ASSUME Flushing, [Next]_vars PROVE Flushing'
  OBVIOUS
<1>1. CASE \E f \in Flushers : Flusher(f)
  BY <1>1, FlusherMoves
<1>2. CASE (\E m \in Mutators : ArmAfterSend(m)) \/ PendingWork
  BY <1>2 DEF ArmAfterSend, PendingWork, ArmDeadline, Flushing, callerVars
<1>3. CASE TakeBatch
  BY <1>3 DEF TakeBatch, Flushing, callerVars
<1>4. CASE FinishApply
  BY <1>4 DEF FinishApply, Flushing, callerVars
<1>5. CASE \/ (\E m \in Mutators : SendTopology(m)) \/ RunNext \/ RestOfEngine \/ Asks
           \/ WindowElapses \/ NothingQueued \/ ReadStaleness \/ ReceiveDescription
           \/ Build \/ ReceiveDisplaced \/ QueryTimesOut \/ UNCHANGED vars
  <2>1. UNCHANGED <<dirtyGen, appliedGen, coveringGen, target, flusherPc>>
    BY <1>5 DEF SendTopology, RunNext, RestOfEngine, TakeCommands, EndBatch,
       PublishStaleness, ClearBatchFlag, Asks, SendDescribe, SendInstall, WindowElapses,
       NothingQueued, ReadStaleness, ReceiveDescription, Build, ReceiveDisplaced,
       QueryTimesOut, vars, schedulerVars, callerVars
  <2>2. QED
    BY <2>1 DEF Flushing
<1>6. QED
  BY <1>1, <1>2, <1>3, <1>4, <1>5, Steps DEF RestOfClosure

\* Senders, the worker with its whole closure, and the callers of wait_process arm,
\* take, apply and await batches as the scheduler lays down; all else is invisible to it.
THEOREM ImplementsScheduler == Spec => SchedulerSpec
<1>1. Init => Flushing /\ Scheduler!SchedInit
  BY DEF Init, Flushing, Scheduler!SchedInit
<1>2. Flushing /\ [Next]_vars => [Scheduler!SchedNext]_(Scheduler!schedVars)
  <2> SUFFICES ASSUME Flushing, [Next]_vars
               PROVE  [Scheduler!SchedNext]_(Scheduler!schedVars)
    OBVIOUS
  <2>1. CASE (\E m \in Mutators : ArmAfterSend(m)) \/ PendingWork
    BY <2>1 DEF ArmAfterSend, PendingWork, ArmDeadline, closureVars, Scheduler!SchedNext,
       Scheduler!Arm
  <2>2. CASE WindowElapses
    BY <2>2 DEF WindowElapses, closureVars, Scheduler!SchedNext, Scheduler!WindowElapses
  <2>3. CASE TakeBatch
    BY <2>3 DEF TakeBatch, ClosureStep, Scheduler!SchedNext, Scheduler!Worker,
       Scheduler!TakeBatch
  <2>4. CASE FinishApply
    BY <2>4 DEF FinishApply, ClosureStep, Flushing, Scheduler!SchedNext, Scheduler!Worker,
       Scheduler!FinishApply, Scheduler!Larger
  <2>5. ASSUME NEW f \in Flushers, Flusher(f)
        PROVE  [Scheduler!SchedNext]_(Scheduler!schedVars)
    <3>1. CASE BeginWaitProcess(f) \/ QueueDrained(f) \/ DrainTimesOut(f)
      BY <3>1 DEF BeginWaitProcess, QueueDrained, DrainTimesOut, schedulerVars,
         closureVars, Scheduler!schedVars
    <3>2. CASE BeginFlush(f)
      <4>1. CASE appliedGen >= dirtyGen
        BY <3>2, <4>1 DEF BeginFlush, closureVars, Scheduler!schedVars
      <4>2. CASE ~(appliedGen >= dirtyGen)
        BY <3>2, <4>2 DEF BeginFlush, FlusherStep, Flushing, closureVars,
           Scheduler!SchedNext, Scheduler!BeginFlush
      <4>3. QED
        BY <4>1, <4>2
    <3>3. CASE EndFlush(f)
      BY <3>3 DEF EndFlush, FlusherStep, Flushing, closureVars, Scheduler!SchedNext,
         Scheduler!EndFlush
    <3>4. QED
      BY <2>5, <3>1, <3>2, <3>3 DEF Flusher
  <2>6. CASE \/ (\E m \in Mutators : SendTopology(m)) \/ RunNext \/ RestOfEngine \/ Asks
             \/ NothingQueued \/ ReadStaleness \/ ReceiveDescription \/ Build
             \/ ReceiveDisplaced \/ QueryTimesOut \/ UNCHANGED vars
    <3>1. /\ UNCHANGED schedulerVars
          /\ (workerPc = "wait") <=> (workerPc' = "wait")
      BY <2>6 DEF SendTopology, RunNext, RestOfEngine, TakeCommands, EndBatch,
         PublishStaleness, ClearBatchFlag, Asks, SendDescribe, SendInstall,
         NothingQueued, ReadStaleness, ReceiveDescription, Build, ReceiveDisplaced,
         QueryTimesOut, ClosureStep, vars, closureVars
    <3>2. QED
      BY <3>1 DEF schedulerVars, Scheduler!schedVars
  <2>7. QED
    BY <2>1, <2>2, <2>3, <2>4, <2>5, <2>6, Steps DEF RestOfClosure
<1>3. Spec => []Flushing
  BY <1>1, StepFlushing, PTL DEF Spec
<1>4. QED
  BY <1>1, <1>2, <1>3, PTL DEF Spec, SchedulerSpec
=============================================================================
