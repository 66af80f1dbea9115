---------------------------- MODULE HandoverProofs ----------------------------
(***************************************************************************)
(* Proofs about the ways in which one thread or process hands work over to *)
(* another: the rings from a control thread to the audio thread            *)
(* (EngineQueue, for every ring size and any number of sends), with the    *)
(* inductive invariant behind their safety properties and the refinement   *)
(* of CommandChannel; the timer of the thread that rebuilds the graph      *)
(* (GraphScheduler, for any flushers and any number of arms); and the      *)
(* blocks of the Carla transport (BlockSlots, for any number of slots,     *)
(* blocks and generations).                                                *)
(***************************************************************************)
EXTENDS EngineQueue, GraphScheduler, BlockSlots, SequenceTheorems, TLAPS

-----------------------------------------------------------------------------
(* The inductive invariant.                                                *)

\* 1 while a popped command has not run yet.
Popped == IF enginePc = "run" THEN 1 ELSE 0

\* The number of every command, wherever it is.
Numbering ==
  /\ \A i \in 1..Len(executed) : executed[i] = i
  /\ enginePc = "run" => running = Len(executed) + 1
  /\ \A i \in 1..Len(commands) : commands[i] = Len(executed) + Popped + i
  /\ Len(executed) + Popped + Len(commands) = nextSequence - 1

\* Publication trails execution by the command being stored, if any.
Publication ==
  /\ enginePc = "store" => /\ running = Len(executed)
                           /\ Len(executed) = lastApplied + 1
  /\ enginePc # "store" => lastApplied = Len(executed)

\* From try_reserve to send_reserved nobody else sends.
Reserving ==
  /\ handlePc \in {"reclaim", "alive", "slots", "reserved"}
       => nextSequence <= MaxSends
  /\ handlePc = "reserved" => /\ Len(commands) < Capacity
                              /\ reservation = nextSequence

\* A batch is announced from its first pop until its staleness is published.
Announced ==
  /\ enginePc \in {"pop", "run", "store", "return"} => batchInFlight
  /\ enginePc = "raise" => accepted > 0
  /\ (enginePc \in {"idle", "accept", "raise", "clear", "gone"} \/ ~batchInFlight)
       => published = Len(executed)

\* What the reader of the staleness knows while it holds the handle.
Reading ==
  /\ handlePc \in {"flag", "quiet"} => commands = <<>>
  /\ handlePc = "quiet" =>
       /\ enginePc \in {"idle", "accept", "publish", "clear", "gone"}
       /\ ~batchInFlight

Waited == \A s \in Sequence : waits[s] = "ok" => s <= Len(executed)

Gone == enginePc = "gone" <=> ~alive

IInv == /\ TypeOK /\ Numbering /\ Publication /\ Reserving
        /\ BatchIsQueued /\ Announced /\ Reading /\ Waited /\ Gone

-----------------------------------------------------------------------------
(* The invariant is inductive.                                             *)

\* The initial state satisfies the invariant.
LEMMA InitInv == Init => IInv
<1>1. ASSUME Init PROVE IInv
  <2>1. Len(<<>>) = 0 /\ <<>> \in Seq(Nat)
    BY EmptySeq
  <2>a. waits \in [Sequence -> Outcomes] /\ alive \in BOOLEAN /\ batchInFlight \in BOOLEAN
    BY <1>1 DEF Init, Outcomes
  <2>2. TypeOK
    BY <1>1, <2>1, <2>a, CapacityAssumption, MaxSendsAssumption
    DEF Init, TypeOK, HandlePcs, EnginePcs, None
  <2>3. Numbering /\ Publication /\ Reserving
    BY <1>1, <2>1 DEF Init, Numbering, Publication, Reserving, Popped
  <2>4. BatchIsQueued /\ Announced /\ Reading /\ Waited /\ Gone
    BY <1>1, <2>1 DEF Init, BatchIsQueued, Announced, Reading, Waited, Gone
  <2>5. QED
    BY <2>2, <2>3, <2>4 DEF IInv
<1>2. QED
  BY <1>1

\* Every step of the control thread preserves the invariant.
LEMMA ControlInv == IInv /\ Control => IInv'
<1> SUFFICES ASSUME IInv, Control PROVE IInv'
  OBVIOUS
<1> USE CapacityAssumption, MaxSendsAssumption
<1>t. commands \in Seq(Nat) /\ returns \in Seq(Nat) /\ executed \in Seq(Nat)
      /\ Len(commands) \in Nat /\ Len(returns) \in Nat /\ Len(executed) \in Nat
  BY LenProperties DEF IInv, TypeOK
<1>1. CASE BeginSend
  BY <1>1, <1>t DEF BeginSend, HandleStep, engineVars, IInv, TypeOK, Numbering,
     Publication, Reserving, BatchIsQueued, Announced, Reading, Waited, Gone,
     Popped, HandlePcs
<1>2. CASE ReclaimOne
  <2>1. returns' \in Seq(Nat) /\ Len(returns') = Len(returns) - 1
    BY <1>2, <1>t, HeadTailProperties DEF ReclaimOne
  <2>2. QED
    BY <1>2, <1>t, <2>1 DEF ReclaimOne, controlVars, engineVars, IInv, TypeOK,
       Numbering, Publication, Reserving, BatchIsQueued, Announced, Reading,
       Waited, Gone, Popped
<1>3. CASE ReclaimDone
  BY <1>3, <1>t DEF ReclaimDone, HandleStep, engineVars, IInv, TypeOK, Numbering,
     Publication, Reserving, BatchIsQueued, Announced, Reading, Waited, Gone,
     Popped, HandlePcs
<1>4. CASE CheckAlive
  BY <1>4, <1>t DEF CheckAlive, engineVars, IInv, TypeOK, Numbering,
     Publication, Reserving, BatchIsQueued, Announced, Reading, Waited, Gone,
     Popped, HandlePcs
<1>5. CASE CheckSlots
  BY <1>5, <1>t DEF CheckSlots, engineVars, IInv, TypeOK, Numbering,
     Publication, Reserving, BatchIsQueued, Announced, Reading, Waited, Gone,
     Popped, HandlePcs
<1>6. CASE SendReserved
  <2>1. reservation = nextSequence /\ nextSequence \in 1..MaxSends
    BY <1>6 DEF SendReserved, HandleStep, IInv, Reserving, TypeOK
  <2>2. /\ commands' \in Seq(Nat) /\ Len(commands') = Len(commands) + 1
        /\ \A i \in 1..Len(commands) : commands'[i] = commands[i]
        /\ commands'[Len(commands) + 1] = nextSequence
    BY <1>6, <1>t, <2>1, AppendProperties DEF SendReserved
  <2>3. TypeOK'
    BY <1>6, <1>t, <2>1, <2>2 DEF SendReserved, HandleStep, engineVars, IInv,
       TypeOK, HandlePcs, None, Outcomes, Sequence
  <2>4. Numbering'
    <3>1. Popped' = Popped /\ executed' = executed /\ running' = running
          /\ enginePc' = enginePc /\ nextSequence' = nextSequence + 1
      BY <1>6 DEF SendReserved, engineVars, Popped
    <3>2. Len(executed) + Popped + Len(commands) = nextSequence - 1
          /\ Popped \in {0, 1} /\ nextSequence \in Nat
      BY DEF IInv, Numbering, Popped, TypeOK
    <3>3. ASSUME NEW i \in 1..Len(commands')
          PROVE  commands'[i] = Len(executed) + Popped + i
      <4>1. CASE i \in 1..Len(commands)
        BY <4>1, <2>2 DEF IInv, Numbering
      <4>2. CASE i = Len(commands) + 1
        BY <4>2, <2>2, <3>2, <1>t
      <4>3. QED
        BY <4>1, <4>2, <2>2, <1>t
    <3>4. QED
      BY <3>1, <3>2, <3>3, <2>2, <1>t DEF IInv, Numbering
  <2>5. Publication' /\ Reserving' /\ BatchIsQueued' /\ Announced' /\ Reading' /\ Gone'
    BY <1>6, <1>t, <2>2 DEF SendReserved, HandleStep, engineVars, IInv, TypeOK,
       Publication, Reserving, BatchIsQueued, Announced, Reading, Gone
  <2>6. Waited'
    BY <1>6, <2>1 DEF SendReserved, engineVars, IInv, TypeOK, Waited, Sequence
  <2>7. QED
    BY <2>3, <2>4, <2>5, <2>6 DEF IInv
<1>7. CASE LookPending
  BY <1>7, <1>t DEF LookPending, HandleStep, engineVars, IInv, TypeOK,
     Numbering, Publication, Reserving, BatchIsQueued, Announced, Reading,
     Waited, Gone, Popped, HandlePcs
<1>13. CASE ReleaseHandle
  BY <1>13, <1>t DEF ReleaseHandle, HandleStep, engineVars, IInv, TypeOK,
     Numbering, Publication, Reserving, BatchIsQueued, Announced, Reading,
     Waited, Gone, Popped, HandlePcs
<1>12. CASE ReadPending
  BY <1>12, <1>t DEF ReadPending, engineVars, IInv, TypeOK, Numbering,
     Publication, Reserving, BatchIsQueued, Announced, Reading, Waited, Gone,
     Popped, HandlePcs
<1>8. CASE ReadFlag
  <2>1. Len(commands) = 0
    BY <1>8, EmptySeq DEF ReadFlag, IInv, Reading
  <2>2. ~batchInFlight =>
          enginePc \in {"idle", "accept", "publish", "clear", "gone"}
    <3>1. enginePc # "raise"
      BY <2>1 DEF IInv, TypeOK, Announced, BatchIsQueued
    <3>2. ASSUME ~batchInFlight
          PROVE  enginePc \notin {"pop", "run", "store", "return"}
      BY <3>2, Zenon DEF IInv, Announced
    <3>3. enginePc \in EnginePcs
      BY DEF IInv, TypeOK
    <3>4. QED
      BY <3>1, <3>2, <3>3 DEF EnginePcs
  <2>3. Reading'
    <3>1. commands = <<>> /\ commands' = commands
          /\ enginePc' = enginePc /\ batchInFlight' = batchInFlight
      BY <1>8 DEF ReadFlag, engineVars, IInv, Reading
    <3>2. CASE batchInFlight
      BY <1>8, <3>1, <3>2 DEF ReadFlag, Reading
    <3>3. CASE ~batchInFlight
      BY <3>1, <3>3, <2>2 DEF Reading
    <3>4. QED
      BY <3>2, <3>3
  <2>4. QED
    BY <1>8, <1>t, <2>3 DEF ReadFlag, engineVars, IInv, TypeOK, Numbering,
       Publication, Reserving, BatchIsQueued, Announced, Waited, Gone, Popped,
       HandlePcs
<1>9. ASSUME NEW s \in Sequence, WaitOk(s) PROVE IInv'
  <2>1. s <= Len(executed)
    BY <1>9, <1>t DEF WaitOk, IInv, TypeOK, Numbering, Publication, Sequence
  <2>2. TypeOK' /\ Waited'
    BY <1>9, <2>1 DEF WaitOk, engineVars, IInv, TypeOK, Waited, Outcomes, Sequence
  <2>3. QED
    BY <1>9, <2>2 DEF WaitOk, engineVars, IInv, Numbering, Publication,
       Reserving, BatchIsQueued, Announced, Reading, Gone, Popped
<1>10. ASSUME NEW s \in Sequence, WaitTimeout(s) PROVE IInv'
  <2>1. TypeOK' /\ Waited'
    BY <1>10 DEF WaitTimeout, engineVars, IInv, TypeOK, Waited, Outcomes, Sequence
  <2>2. QED
    BY <1>10, <2>1 DEF WaitTimeout, engineVars, IInv, Numbering, Publication,
       Reserving, BatchIsQueued, Announced, Reading, Gone, Popped
<1>11. QED
  BY <1>1, <1>2, <1>3, <1>4, <1>5, <1>6, <1>7, <1>8, <1>9, <1>10,
     <1>12, <1>13 DEF Control

\* Every step of the audio thread preserves the invariant.
LEMMA AudioInv == IInv /\ Audio => IInv'
<1> SUFFICES ASSUME IInv, Audio PROVE IInv'
  OBVIOUS
<1> USE CapacityAssumption, MaxSendsAssumption
<1>t. commands \in Seq(Nat) /\ returns \in Seq(Nat) /\ executed \in Seq(Nat)
      /\ Len(commands) \in Nat /\ Len(returns) \in Nat /\ Len(executed) \in Nat
  BY LenProperties DEF IInv, TypeOK
<1>1. CASE BeginCallback
  BY <1>1, <1>t DEF BeginCallback, EngineStep, controlVars, IInv, TypeOK,
     Numbering, Publication, Reserving, BatchIsQueued, Announced, Reading,
     Waited, Gone, Popped, EnginePcs
<1>2. CASE AcceptBatch
  <2>1. commands = <<>> <=> Len(commands) = 0
    BY <1>t, EmptySeq
  <2>2. TypeOK' /\ Numbering' /\ Publication' /\ Reserving' /\ Waited' /\ Gone'
    BY <1>2, <1>t DEF AcceptBatch, controlVars, IInv, TypeOK, Numbering,
       Publication, Reserving, Waited, Gone, Popped, EnginePcs
  <2>3. BatchIsQueued' /\ Announced'
    BY <1>2, <1>t, <2>1 DEF AcceptBatch, controlVars, IInv, BatchIsQueued, Announced
  <2>4. Reading'
    BY <1>2 DEF AcceptBatch, controlVars, IInv, Reading
  <2>5. QED
    BY <2>2, <2>3, <2>4 DEF IInv
<1>3. CASE RaiseBatchFlag
  BY <1>3, <1>t DEF RaiseBatchFlag, EngineStep, controlVars, IInv, TypeOK,
     Numbering, Publication, Reserving, BatchIsQueued, Announced, Reading,
     Waited, Gone, Popped, EnginePcs
<1>4. CASE Pop
  <2>1. /\ commands' \in Seq(Nat) /\ Len(commands') = Len(commands) - 1
        /\ \A i \in 1..Len(commands') : commands'[i] = commands[i + 1]
        /\ running' = commands[1] /\ running' \in Nat
        /\ Len(commands) > 0
    BY <1>4, <1>t, HeadTailProperties, EmptySeq DEF Pop
  <2>2. enginePc = "pop" /\ enginePc' = "run" /\ executed' = executed
        /\ nextSequence' = nextSequence
    BY <1>4 DEF Pop, EngineStep, controlVars
  <2>3. TypeOK'
    BY <1>4, <1>t, <2>1 DEF Pop, EngineStep, controlVars, IInv, TypeOK, EnginePcs
  <2>4. Numbering'
    <3>1. Popped = 0 /\ Popped' = 1
      BY <2>2 DEF Popped
    <3>2. ASSUME NEW i \in 1..Len(commands')
          PROVE  commands'[i] = Len(executed) + 1 + i
      <4>1. i + 1 \in 1..Len(commands)
        BY <2>1, <1>t
      <4>2. commands[i + 1] = Len(executed) + 0 + (i + 1)
        BY <4>1, <3>1 DEF IInv, Numbering
      <4>3. QED
        BY <4>2, <2>1, <1>t
    <3>3. running' = Len(executed) + 1
      BY <2>1, <1>t, <3>1 DEF IInv, Numbering
    <3>4. QED
      BY <2>1, <2>2, <3>1, <3>2, <3>3, <1>t DEF IInv, Numbering, TypeOK
  <2>5. Publication' /\ Reserving' /\ BatchIsQueued' /\ Announced' /\ Waited' /\ Gone'
    BY <1>4, <1>t, <2>1 DEF Pop, EngineStep, controlVars, IInv, TypeOK,
       Publication, Reserving, BatchIsQueued, Announced, Waited, Gone
  <2>6. Reading'
    BY <1>4 DEF Pop, EngineStep, controlVars, IInv, Reading
  <2>7. QED
    BY <2>3, <2>4, <2>5, <2>6 DEF IInv
<1>5. CASE RunCommand
  <2>1. /\ executed' \in Seq(Nat) /\ Len(executed') = Len(executed) + 1
        /\ \A i \in 1..Len(executed) : executed'[i] = executed[i]
        /\ executed'[Len(executed) + 1] = running
    BY <1>5, <1>t, AppendProperties DEF RunCommand, IInv, TypeOK
  <2>2. enginePc = "run" /\ enginePc' = "store" /\ running = Len(executed) + 1
        /\ commands' = commands /\ running' = running /\ lastApplied' = lastApplied
        /\ nextSequence' = nextSequence /\ Popped = 1 /\ Popped' = 0
    BY <1>5 DEF RunCommand, EngineStep, controlVars, IInv, Numbering, Popped
  <2>3. TypeOK'
    BY <1>5, <2>1 DEF RunCommand, EngineStep, controlVars, IInv, TypeOK, EnginePcs
  <2>4. Numbering'
    <3>1. ASSUME NEW i \in 1..Len(executed') PROVE executed'[i] = i
      <4>1. CASE i \in 1..Len(executed)
        BY <4>1, <2>1 DEF IInv, Numbering
      <4>2. CASE i = Len(executed) + 1
        BY <4>2, <2>1, <2>2
      <4>3. QED
        BY <4>1, <4>2, <2>1, <1>t
    <3>2. QED
      BY <3>1, <2>1, <2>2, <1>t DEF IInv, Numbering, TypeOK
  <2>5. Publication' /\ Waited'
    BY <2>1, <2>2, <1>5, <1>t DEF RunCommand, controlVars, IInv, TypeOK,
       Publication, Waited, Sequence
  <2>6. Reserving' /\ BatchIsQueued' /\ Announced' /\ Reading' /\ Gone'
    BY <1>5, <2>2 DEF RunCommand, controlVars, IInv, Reserving, BatchIsQueued,
       Announced, Reading, Gone
  <2>7. QED
    BY <2>3, <2>4, <2>5, <2>6 DEF IInv
<1>6. CASE StoreApplied
  BY <1>6, <1>t DEF StoreApplied, EngineStep, controlVars, IInv, TypeOK,
     Numbering, Publication, Reserving, BatchIsQueued, Announced, Reading,
     Waited, Gone, Popped, EnginePcs
<1>7. CASE ReturnBox
  <2>1. returns' \in Seq(Nat) /\ Len(returns') <= Capacity /\ dropped' \subseteq Nat
    <3>1. running \in Nat /\ dropped \subseteq Nat /\ Len(returns) <= Capacity
      BY DEF IInv, TypeOK
    <3>2. Append(returns, running) \in Seq(Nat)
          /\ Len(Append(returns, running)) = Len(returns) + 1
      BY <3>1, <1>t, AppendProperties
    <3>3. CASE Len(returns) < Capacity
      <4>1. returns' = Append(returns, running) /\ dropped' = dropped
        BY <1>7, <3>3 DEF ReturnBox
      <4>2. QED
        BY <4>1, <3>1, <3>2, <3>3, <1>t
    <3>4. CASE ~(Len(returns) < Capacity)
      <4>1. returns' = returns /\ dropped' = dropped \cup {running}
        BY <1>7, <3>4 DEF ReturnBox
      <4>2. QED
        BY <4>1, <3>1, <1>t
    <3>5. QED
      BY <3>3, <3>4
  <2>2. QED
    BY <1>7, <1>t, <2>1 DEF ReturnBox, EngineStep, controlVars, IInv, TypeOK,
       Numbering, Publication, Reserving, BatchIsQueued, Announced, Reading,
       Waited, Gone, Popped, EnginePcs, None
<1>8. CASE EndBatch
  BY <1>8, <1>t DEF EndBatch, EngineStep, controlVars, IInv, TypeOK,
     Numbering, Publication, Reserving, BatchIsQueued, Announced, Reading,
     Waited, Gone, Popped, EnginePcs
<1>9. CASE PublishStaleness
  BY <1>9, <1>t DEF PublishStaleness, EngineStep, controlVars, IInv, TypeOK,
     Numbering, Publication, Reserving, BatchIsQueued, Announced, Reading,
     Waited, Gone, Popped, EnginePcs
<1>10. CASE ClearBatchFlag
  BY <1>10, <1>t DEF ClearBatchFlag, EngineStep, controlVars, IInv, TypeOK,
     Numbering, Publication, Reserving, BatchIsQueued, Announced, Reading,
     Waited, Gone, Popped, EnginePcs
<1>11. CASE DropEngine
  BY <1>11, <1>t DEF DropEngine, EngineStep, controlVars, IInv, TypeOK,
     Numbering, Publication, Reserving, BatchIsQueued, Announced, Reading,
     Waited, Gone, Popped, EnginePcs
<1>12. QED
  BY <1>1, <1>2, <1>3, <1>4, <1>5, <1>6, <1>7, <1>8, <1>9, <1>10, <1>11
  DEF Audio, Callback

\* The invariant holds throughout, whatever the fairness.
LEMMA Invariance == Spec => []IInv
<1>1. IInv /\ [Next]_vars => IInv'
  <2>1. CASE UNCHANGED vars
    BY <2>1 DEF vars, controlVars, engineVars, IInv, TypeOK, Numbering,
       Publication, Reserving, BatchIsQueued, Announced, Reading, Waited, Gone,
       Popped
  <2>2. QED
    BY <2>1, ControlInv, AudioInv DEF Next
<1>2. QED
  BY <1>1, InitInv, PTL DEF Spec

-----------------------------------------------------------------------------
(* The properties.                                                         *)

\* Every variable keeps its type: both rings within their capacity.
THEOREM TypeCorrect == Spec => []TypeOK
<1>1. IInv => TypeOK
  BY DEF IInv
<1>2. QED
  BY <1>1, Invariance, PTL

\* Every command handed to a caller runs exactly once, in order of its number.
THEOREM CommandsRunOnceInOrder == Spec => []RunOnceInOrder
<1>1. IInv => RunOnceInOrder
  <2> SUFFICES ASSUME IInv PROVE RunOnceInOrder
    OBVIOUS
  <2>1. /\ executed \in Seq(Nat) /\ commands \in Seq(Nat) /\ InFlight \in Seq(Nat)
        /\ Len(executed) \in Nat /\ Len(commands) \in Nat
        /\ Len(InFlight) = Popped /\ Popped \in {0, 1}
    BY LenProperties DEF IInv, TypeOK, InFlight, Popped
  <2>2. \A i \in 1..Popped : InFlight[i] = Len(executed) + i
    BY DEF IInv, Numbering, InFlight, Popped
  <2> DEFINE early == executed \o InFlight
  <2>3. /\ early \in Seq(Nat) /\ Len(early) = Len(executed) + Popped
        /\ \A i \in 1..Len(early) : early[i] =
             IF i <= Len(executed) THEN executed[i] ELSE InFlight[i - Len(executed)]
    BY <2>1, ConcatProperties
  <2>4. ASSUME NEW i \in 1..Len(early) PROVE early[i] = i
    <3>1. CASE i <= Len(executed)
      BY <3>1, <2>3, <2>1 DEF IInv, Numbering
    <3>2. CASE ~(i <= Len(executed))
      <4>1. i - Len(executed) \in 1..Popped
        BY <3>2, <2>1, <2>3
      <4>2. QED
        BY <4>1, <3>2, <2>1, <2>2, <2>3
    <3>3. QED
      BY <3>1, <3>2
  <2> HIDE DEF early
  <2>5. /\ Len(early \o commands) = Len(early) + Len(commands)
        /\ \A i \in 1..Len(early) + Len(commands) : (early \o commands)[i] =
             IF i <= Len(early) THEN early[i] ELSE commands[i - Len(early)]
    <3>1. early \in Seq(Nat) /\ commands \in Seq(Nat)
      BY <2>1, <2>3
    <3>2. QED
      BY <3>1, ConcatProperties, Zenon
  <2>6. ASSUME NEW i \in 1..Len(early) + Len(commands)
        PROVE  (early \o commands)[i] = i
    <3>1. CASE i <= Len(early)
      BY <3>1, <2>1, <2>3, <2>4, <2>5
    <3>2. CASE ~(i <= Len(early))
      <4>1. i - Len(early) \in 1..Len(commands)
        BY <3>2, <2>1, <2>3
      <4>2. commands[i - Len(early)] = Len(executed) + Popped + (i - Len(early))
        BY <4>1 DEF IInv, Numbering
      <4>3. QED
        BY <4>1, <4>2, <3>2, <2>1, <2>3, <2>5
    <3>3. QED
      BY <3>1, <3>2
  <2>7. History = early \o commands
    BY DEF History, early
  <2>8. QED
    BY <2>1, <2>3, <2>5, <2>6, <2>7 DEF RunOnceInOrder, IInv, Numbering
<1>2. QED
  BY <1>1, Invariance, PTL

\* send_reserved always finds the slot try_reserve saw.
THEOREM ReservationsHold == Spec => []ReservationHonoured
<1>1. IInv => ReservationHonoured
  BY DEF IInv, Reserving, ReservationHonoured
<1>2. QED
  BY <1>1, Invariance, PTL

\* No callback pops more than was queued when it began.
THEOREM BatchesAreQueued == Spec => []BatchIsQueued
<1>1. IInv => BatchIsQueued
  BY DEF IInv
<1>2. QED
  BY <1>1, Invariance, PTL

\* A quiet engine has applied every command and published their staleness.
THEOREM QuietIsFinal == Spec => []QuietMeansApplied
<1>1. IInv => QuietMeansApplied
  <2> SUFFICES ASSUME IInv, handlePc = "quiet" PROVE QuietMeansApplied
    BY DEF QuietMeansApplied
  <2>1. /\ commands = <<>> /\ ~batchInFlight
        /\ enginePc \in {"idle", "accept", "publish", "clear", "gone"}
    BY DEF IInv, Reading
  <2>2. Len(commands) = 0 /\ Popped = 0
    BY <2>1, EmptySeq DEF Popped
  <2>3. published = Len(executed)
    BY <2>1 DEF IInv, Announced
  <2>4. Len(executed) \in Nat /\ nextSequence \in Nat
    BY LenProperties DEF IInv, TypeOK
  <2>5. Len(executed) = nextSequence - 1
    BY <2>2, <2>4 DEF IInv, Numbering
  <2>6. QED
    BY <2>3, <2>5 DEF QuietMeansApplied
<1>2. QED
  BY <1>1, Invariance, PTL

\* A successful wait is for a command that has run.
THEOREM WaitsAreTruthful == Spec => []OkMeansRan
<1>1. IInv => OkMeansRan
  BY LenProperties DEF IInv, TypeOK, Waited, Publication, OkMeansRan
<1>2. QED
  BY <1>1, Invariance, PTL

\* The rings and flags implement the numbered channel of CommandChannel: a
\* push accepts the next command, a store of last_applied_command applies the
\* oldest outstanding one, and every other step is invisible.
THEOREM ImplementsCommandChannel == Spec => ChannelSpec
<1>1. Init => Channel!Init
  BY DEF Init, Channel!Init
<1>2. IInv /\ [Next]_vars => [Channel!Next]_(Channel!vars)
  <2> SUFFICES ASSUME IInv, [Next]_vars PROVE [Channel!Next]_(Channel!vars)
    OBVIOUS
  <2>t. /\ Len(commands) \in Nat /\ Len(executed) \in Nat
        /\ nextSequence \in Nat /\ lastApplied \in Nat /\ Capacity \in Nat
        /\ running \in Nat
    BY LenProperties, CapacityAssumption DEF IInv, TypeOK
  <2>1. CASE SendReserved
    <3>1. Len(executed) <= lastApplied + 1
      BY <2>t DEF IInv, Publication
    <3>2. nextSequence - 1 - lastApplied < Capacity + 1
      <4>1. CASE enginePc = "run"
        BY <4>1, <2>1, <2>t DEF SendReserved, IInv, Numbering, Publication, Popped
      <4>2. CASE enginePc # "run"
        BY <4>2, <3>1, <2>1, <2>t DEF SendReserved, IInv, Numbering, Popped
      <4>3. QED
        BY <4>1, <4>2
    <3>3. QED
      BY <2>1, <2>t, <3>2 DEF SendReserved, engineVars, Channel!Next, Channel!Accept
  <2>2. CASE StoreApplied
    <3>1. alive /\ lastApplied < nextSequence - 1 /\ lastApplied' = lastApplied + 1
      BY <2>2, <2>t DEF StoreApplied, EngineStep, IInv, Gone, TypeOK, Numbering,
         Publication, Popped
    <3>2. QED
      BY <2>2, <3>1 DEF StoreApplied, controlVars, Channel!Next, Channel!Apply
  <2>3. CASE DropEngine
    BY <2>3 DEF DropEngine, EngineStep, controlVars, IInv, TypeOK, Gone,
       Channel!Next, Channel!Close
  <2>4. CASE BeginSend \/ ReclaimOne \/ ReclaimDone \/ CheckAlive \/ CheckSlots
             \/ LookPending \/ ReadPending \/ ReadFlag \/ ReleaseHandle
    BY <2>4 DEF BeginSend, ReclaimOne, ReclaimDone, CheckAlive, CheckSlots,
       LookPending, ReadPending, ReadFlag, ReleaseHandle, controlVars,
       engineVars, Channel!vars
  <2>5. ASSUME NEW s \in Sequence, WaitOk(s) \/ WaitTimeout(s)
        PROVE  UNCHANGED Channel!vars
    BY <2>5 DEF WaitOk, WaitTimeout, engineVars, Channel!vars
  <2>6. CASE BeginCallback \/ AcceptBatch \/ RaiseBatchFlag \/ Pop \/ RunCommand
             \/ ReturnBox \/ EndBatch \/ PublishStaleness \/ ClearBatchFlag
    BY <2>6 DEF BeginCallback, AcceptBatch, RaiseBatchFlag, Pop, RunCommand,
       ReturnBox, EndBatch, PublishStaleness, ClearBatchFlag, controlVars,
       Channel!vars
  <2>7. CASE UNCHANGED vars
    BY <2>7 DEF vars, controlVars, engineVars, Channel!vars
  <2>8. QED
    BY <2>1, <2>2, <2>3, <2>4, <2>5, <2>6, <2>7
    DEF Next, Control, Audio, Callback
<1>3. QED
  BY <1>1, <1>2, Invariance, PTL DEF Spec, ChannelSpec, Channel!Spec
-----------------------------------------------------------------------------
(* GraphScheduler: its safety invariants are inductive together once a flusher *)
(* is known to wait for a generation that exists.                              *)

\* A flusher waits for a generation that has been armed.
TargetExists == \A f \in Flushers : target[f] <= dirtyGen

SchedInv ==
  /\ SchedTypeOK /\ TargetExists
  /\ NoArmLost /\ AppliedIsCovered /\ FlushIsImmediate

\* The initial state satisfies the invariant.
LEMMA SchedInitInv == SchedInit => SchedInv
<1> SUFFICES ASSUME SchedInit PROVE SchedInv
  OBVIOUS
<1>1. /\ \A f \in Flushers : target[f] = 0
      /\ target \in [Flushers -> 0..MaxArms]
  <2>1. target = [f \in Flushers |-> 0]
    BY DEF SchedInit
  <2>2. 0 \in 0..MaxArms
    BY MaxArmsAssumption
  <2>3. QED
    BY <2>1, <2>2, Zenon
<1>2. SchedTypeOK
  <2>1. deadline = "none" /\ dirtyGen = 0 /\ appliedGen = 0 /\ coveringGen = 0
        /\ workerPc = "wait" /\ stop \in BOOLEAN
    BY DEF SchedInit
  <2>2. QED
    BY <1>1, <2>1, MaxArmsAssumption DEF SchedTypeOK
<1>3. NoArmLost /\ AppliedIsCovered
  BY DEF SchedInit, NoArmLost, AppliedIsCovered, Larger
<1>4. FlushIsImmediate /\ TargetExists
  BY <1>1 DEF SchedInit, FlushIsImmediate, TargetExists
<1>5. QED
  BY <1>2, <1>3, <1>4 DEF SchedInv

\* Every step preserves the invariant.
LEMMA SchedStepInv == SchedInv /\ [SchedNext]_schedVars => SchedInv'
<1> SUFFICES ASSUME SchedInv, [SchedNext]_schedVars PROVE SchedInv'
  OBVIOUS
<1> USE MaxArmsAssumption
<1>1. CASE Arm
  <2>1. /\ dirtyGen' = dirtyGen + 1 /\ deadline' # "none"
        /\ deadline = "due" => deadline' = "due"
        /\ deadline' \in {"none", "ahead", "due"}
    BY <1>1 DEF Arm, SchedInv, SchedTypeOK
  <2>2. SchedTypeOK' /\ NoArmLost' /\ AppliedIsCovered'
    BY <1>1, <2>1 DEF Arm, SchedInv, SchedTypeOK, NoArmLost, AppliedIsCovered
  <2>3. FlushIsImmediate' /\ TargetExists'
    BY <1>1, <2>1 DEF Arm, SchedInv, SchedTypeOK, FlushIsImmediate, TargetExists
  <2>4. QED
    BY <2>2, <2>3 DEF SchedInv
<1>2. CASE WindowElapses
  BY <1>2 DEF WindowElapses, SchedInv, SchedTypeOK, NoArmLost, AppliedIsCovered,
     FlushIsImmediate, TargetExists
<1>3. CASE TakeBatch
  \* The apply now running covers every generation there is.
  <2>1. NoArmLost'
    BY <1>3 DEF TakeBatch, SchedInv, SchedTypeOK, NoArmLost, Larger
  <2>2. SchedTypeOK' /\ AppliedIsCovered' /\ FlushIsImmediate' /\ TargetExists'
    BY <1>3 DEF TakeBatch, SchedInv, SchedTypeOK, AppliedIsCovered,
       FlushIsImmediate, TargetExists
  <2>3. QED
    BY <2>1, <2>2 DEF SchedInv
<1>4. CASE FinishApply
  <2>1. appliedGen' = coveringGen /\ workerPc = "applying" /\ workerPc' = "wait"
    BY <1>4 DEF FinishApply, SchedInv, SchedTypeOK, AppliedIsCovered, Larger
  <2>2. NoArmLost'
    BY <1>4, <2>1 DEF FinishApply, SchedInv, SchedTypeOK, NoArmLost,
       AppliedIsCovered, Larger
  <2>3. FlushIsImmediate'
    BY <1>4, <2>1 DEF FinishApply, SchedInv, SchedTypeOK, FlushIsImmediate,
       AppliedIsCovered
  <2>4. SchedTypeOK' /\ AppliedIsCovered' /\ TargetExists'
    BY <1>4, <2>1 DEF FinishApply, SchedInv, SchedTypeOK, AppliedIsCovered,
       TargetExists
  <2>5. QED
    BY <2>2, <2>3, <2>4 DEF SchedInv
<1>5. CASE WorkerExits
  BY <1>5 DEF WorkerExits, SchedInv, SchedTypeOK, NoArmLost, AppliedIsCovered,
     FlushIsImmediate, TargetExists
<1>6. ASSUME NEW f \in Flushers, BeginFlush(f) PROVE SchedInv'
  BY <1>6 DEF BeginFlush, SchedInv, SchedTypeOK, NoArmLost, AppliedIsCovered,
     FlushIsImmediate, TargetExists
<1>7. ASSUME NEW f \in Flushers, EndFlush(f) PROVE SchedInv'
  BY <1>7 DEF EndFlush, SchedInv, SchedTypeOK, NoArmLost, AppliedIsCovered,
     FlushIsImmediate, TargetExists
<1>8. CASE Drop
  BY <1>8 DEF Drop, SchedInv, SchedTypeOK, NoArmLost, AppliedIsCovered,
     FlushIsImmediate, TargetExists
<1>9. CASE UNCHANGED schedVars
  BY <1>9 DEF schedVars, SchedInv, SchedTypeOK, NoArmLost, AppliedIsCovered,
     FlushIsImmediate, TargetExists
<1>10. QED
  BY <1>1, <1>2, <1>3, <1>4, <1>5, <1>6, <1>7, <1>8, <1>9 DEF SchedNext, Worker

\* The invariant holds throughout, whatever the fairness.
LEMMA SchedInvariance == SchedSpec => []SchedInv
  BY SchedInitInv, SchedStepInv, PTL DEF SchedSpec

\* Every variable keeps its type.
THEOREM SchedulerTypeCorrect == SchedSpec => []SchedTypeOK
<1>1. SchedInv => SchedTypeOK
  BY DEF SchedInv
<1>2. QED
  BY <1>1, SchedInvariance, PTL

\* The worker never sleeps over a change that no apply has observed.
THEOREM ArmsAreKept == SchedSpec => []NoArmLost
<1>1. SchedInv => NoArmLost
  BY DEF SchedInv
<1>2. QED
  BY <1>1, SchedInvariance, PTL

\* A waiting flusher is being served or next to be served.
THEOREM FlushesAreImmediate == SchedSpec => []FlushIsImmediate
<1>1. SchedInv => FlushIsImmediate
  BY DEF SchedInv
<1>2. QED
  BY <1>1, SchedInvariance, PTL

\* What counts as applied was armed before the latest apply began.
THEOREM AppliesCover == SchedSpec => []AppliedIsCovered
<1>1. SchedInv => AppliedIsCovered
  BY DEF SchedInv
<1>2. QED
  BY <1>1, SchedInvariance, PTL

-----------------------------------------------------------------------------
(* BlockSlots: no interleaving of the two sides hands a slot to both, and   *)
(* an answer is always the whole answer to the block that was submitted.   *)

(* The parent between its claim of a slot and its release. *)
ParentInv ==
  /\ parent.pc \in {"header", "content", "publish"} => state[parent.slot] = "writing"
  /\ parent.pc \in {"content", "publish"} => header[parent.slot] = Block
  /\ parent.pc = "publish" => input[parent.slot] = Block
  /\ parent.pc \in {"copy", "release"} => state[parent.slot] = "done"
  /\ parent.pc = "judge" /\ parent.seen = "done" => state[parent.slot] = "done"
  /\ parent.pc = "release" => parent.got = Block

(* What a slot's state word says about its content. *)
ContentInv ==
  \A s \in Slots : /\ state[s] = "ready" => input[s] = header[s]
                   /\ state[s] = "done" => output[s] = header[s]

(* The worker between taking a slot and completing it. *)
WorkerInv ==
  /\ worker.pc = "read" => input[worker.slot] = header[worker.slot]
  /\ worker.pc = "complete" => output[worker.slot] = worker.block

SlotsInv == SlotsTypeOK /\ SlotsAreHeld /\ AnswerIsOwn /\ ParentInv /\ ContentInv /\ WorkerInv

(* The remainder by the number of slots is a slot. *)
LEMMA ModIsSlot == ASSUME NEW a \in Nat PROVE a % SlotCount \in Slots
  BY SlotCountAssumption DEF Slots

(* The initial state satisfies the invariant. *)
LEMMA SlotsInitInv == SlotsInit => SlotsInv
<1> SUFFICES ASSUME SlotsInit PROVE SlotsInv
  OBVIOUS
<1>1. 0 \in Slots /\ Torn \in Identities
  BY SlotCountAssumption DEF Slots, Torn, Identities
<1>2. SlotsTypeOK
  BY <1>1 DEF SlotsInit, SlotsTypeOK, IdleParent, IdleWorker, ParentPcs, WorkerPcs, Resting,
     States, Faults
<1>3. SlotsAreHeld /\ AnswerIsOwn /\ ParentInv /\ ContentInv /\ WorkerInv
  BY DEF SlotsInit, SlotsAreHeld, WaitedSlotIsHeld, WorkedSlotIsHeld, AnswerIsOwn, ParentInv,
     ContentInv, WorkerInv, IdleParent, IdleWorker, Waiting, Working
<1>4. QED
  BY <1>2, <1>3 DEF SlotsInv

(* Every step preserves the type invariant. *)
LEMMA StepType == SlotsTypeOK /\ [SlotsNext]_slotVars => SlotsTypeOK'
<1> SUFFICES ASSUME SlotsTypeOK, [SlotsNext]_slotVars PROVE SlotsTypeOK'
  OBVIOUS
<1>0. /\ 0 \in Slots /\ Torn \in Identities
      /\ \A a \in Nat : a % SlotCount \in Slots
      /\ \A s \in Slots : s \in Nat /\ (s + 1) % SlotCount \in Slots
  <2>1. 0 \in Slots
    BY SlotCountAssumption DEF Slots
  <2>2. Torn \in Identities
    BY DEF Torn, Identities
  <2>3. \A s \in Slots : s \in Nat /\ s + 1 \in Nat
    BY SlotCountAssumption DEF Slots
  <2>4. QED
    BY <2>1, <2>2, <2>3, ModIsSlot
<1>b. Block \in Identities
  BY DEF Block, Identities, SlotsTypeOK
<1>c. ScannedSlot \in Slots
  <2>1. parent.next \in Nat /\ parent.scan \in Nat
    BY <1>0 DEF SlotsTypeOK
  <2>2. QED
    BY <1>0, <2>1 DEF ScannedSlot
<1> USE DEF SlotsTypeOK, ParentPcs, WorkerPcs, Resting, States, Faults
<1>1. CASE Submit
  <2>1. parent.sequence + 1 \in Nat
    OBVIOUS
  <2>2. parent' \in [pc : ParentPcs, slot : Slots, sequence : Nat, scan : Slots,
                    seen : States, late : BOOLEAN, next : Slots, got : Identities]
    BY <1>0, <1>1, <2>1 DEF Submit
  <2>3. QED
    BY <1>1, <2>2 DEF Submit, shared
<1>2. CASE Claim
  BY <1>0, <1>c, <1>2 DEF Claim, shared
<1>3. CASE ClaimFails
  <2>1. parent.scan + 1 < SlotCount => parent.scan + 1 \in Slots
    BY SlotCountAssumption DEF Slots
  <2>2. parent' \in [pc : ParentPcs, slot : Slots, sequence : Nat, scan : Slots,
                    seen : States, late : BOOLEAN, next : Slots, got : Identities]
    BY <1>3, <2>1 DEF ClaimFails
  <2>3. QED
    BY <1>3, <2>2 DEF ClaimFails, shared
<1>4. CASE WriteHeader
  BY <1>0, <1>b, <1>4 DEF WriteHeader, shared
<1>5. CASE WriteContent
  BY <1>0, <1>b, <1>5 DEF WriteContent, shared
<1>6. CASE WriteOverflows
  BY <1>0, <1>6 DEF WriteOverflows, shared
<1>7. CASE Publish
  BY <1>0, <1>7 DEF Publish, shared
<1>8. CASE LoadState
  BY <1>0, <1>8 DEF LoadState, shared
<1>9. CASE SeeDone
  BY <1>0, <1>9 DEF SeeDone, shared
<1>10. CASE Spin
  BY <1>0, <1>10 DEF Spin, shared
<1>11. CASE Abandon
  BY <1>0, <1>11 DEF Abandon, shared
<1>12. CASE CopyOutput
  BY <1>0, <1>12 DEF CopyOutput, shared
<1>13. CASE Release
  BY <1>0, <1>13 DEF Release, shared
<1>14. CASE DeadlinePasses
  BY <1>0, <1>14 DEF DeadlinePasses, shared
<1>15. CASE Look
  <2>1. worker.scan \in Slots /\ (worker.scan + 1) % SlotCount \in Slots
    BY <1>0
  <2>2. CASE state[worker.scan] = "abandoned"
    BY <1>0, <1>15, <2>1, <2>2 DEF Look
  <2>3. CASE state[worker.scan] = "ready"
    BY <1>0, <1>15, <2>1, <2>3 DEF Look
  <2>4. CASE state[worker.scan] \notin {"abandoned", "ready"}
    BY <1>0, <1>15, <2>1, <2>4 DEF Look
  <2>5. QED
    BY <2>2, <2>3, <2>4
<1>16. CASE CopyInput
  BY <1>0, <1>16 DEF CopyInput, shared
<1>17. CASE HostRuns
  BY <1>0, <1>17 DEF HostRuns, shared
<1>18. CASE HostFails
  BY <1>0, <1>18 DEF HostFails, IdleWorker, shared
<1>19. CASE StartOutput
  BY <1>0, <1>19 DEF StartOutput, shared
<1>20. CASE FillOutput
  BY <1>0, <1>20 DEF FillOutput, shared
<1>21. CASE Complete
  BY <1>0, <1>21 DEF Complete, IdleWorker, shared
<1>22. CASE CompleteLate
  BY <1>0, <1>22 DEF CompleteLate, IdleWorker, shared
<1>23. CASE WorkerDies
  BY <1>0, <1>23 DEF WorkerDies, IdleWorker, shared
<1>24. CASE Recover
  BY <1>0, <1>24 DEF Recover, shared
<1>25. CASE Restart
  BY <1>0, <1>25 DEF Restart, FreshMapping, IdleParent, IdleWorker, shared
<1>26. CASE UNCHANGED slotVars
  BY <1>26 DEF slotVars
<1>27. QED
  BY <1>1, <1>2, <1>3, <1>4, <1>5, <1>6, <1>7, <1>8, <1>9, <1>10, <1>11, <1>12, <1>13,
     <1>14, <1>15, <1>16, <1>17, <1>18, <1>19, <1>20, <1>21, <1>22, <1>23, <1>24, <1>25,
     <1>26 DEF SlotsNext, Parent, SlotWorker

(* Every step preserves the ownership of the slots and what they contain. *)
LEMMA StepInv == SlotsInv /\ [SlotsNext]_slotVars => SlotsInv'
<1> SUFFICES ASSUME SlotsInv, [SlotsNext]_slotVars PROVE SlotsInv'
  OBVIOUS
<1>t. SlotsTypeOK /\ SlotsTypeOK'
  BY StepType DEF SlotsInv
<1>s. ScannedSlot \in Slots
  <2>1. parent.next + parent.scan \in Nat
    BY <1>t, SlotCountAssumption DEF SlotsTypeOK, Slots
  <2>2. QED
    BY <2>1, ModIsSlot DEF ScannedSlot
<1> USE DEF SlotsTypeOK, SlotsAreHeld, WaitedSlotIsHeld, WorkedSlotIsHeld, AnswerIsOwn, Waiting,
            Working, ParentInv, ContentInv, WorkerInv, Block, SlotsInv
<1>1. CASE Submit
  BY <1>t, <1>1 DEF Submit, shared
<1>2. CASE Claim
  BY <1>t, <1>s, <1>2 DEF Claim, shared
<1>3. CASE ClaimFails
  BY <1>t, <1>3 DEF ClaimFails, shared
<1>4. CASE WriteHeader
  BY <1>t, <1>4 DEF WriteHeader, shared
<1>5. CASE WriteContent
  BY <1>t, <1>5 DEF WriteContent, shared
<1>6. CASE WriteOverflows
  BY <1>t, <1>6 DEF WriteOverflows, shared
<1>7. CASE Publish
  BY <1>t, <1>7 DEF Publish, shared
<1>8. CASE LoadState
  BY <1>t, <1>8 DEF LoadState, shared
<1>9. CASE SeeDone
  BY <1>t, <1>9 DEF SeeDone, shared
<1>10. CASE Spin
  BY <1>t, <1>10 DEF Spin, shared
<1>11. CASE Abandon
  BY <1>t, <1>11 DEF Abandon, shared
<1>12. CASE CopyOutput
  BY <1>t, <1>12 DEF CopyOutput, shared
<1>13. CASE Release
  BY <1>t, <1>13 DEF Release, shared
<1>14. CASE DeadlinePasses
  BY <1>t, <1>14 DEF DeadlinePasses, shared
<1>15. CASE Look
  <2>1. CASE state[worker.scan] = "abandoned"
    BY <1>t, <1>15, <2>1 DEF Look
  <2>2. CASE state[worker.scan] = "ready"
    <3>1. /\ state' = [state EXCEPT ![worker.scan] = "processing"]
          /\ worker' = [worker EXCEPT !.pc = "read", !.slot = worker.scan, !.scan = 0]
          /\ UNCHANGED <<header, input, output, generation, parent>>
      BY <1>15, <2>2 DEF Look
    <3>2. worker'.pc = "read" /\ worker'.slot = worker.scan /\ worker.scan \in Slots
      BY <1>t, <3>1
    <3>3. WaitedSlotIsHeld' /\ AnswerIsOwn' /\ ParentInv' /\ ContentInv'
      BY <1>t, <2>2, <3>1
    <3>4. WorkedSlotIsHeld' /\ WorkerInv'
      BY <1>t, <2>2, <3>1, <3>2
    <3>5. QED
      BY <1>t, <3>3, <3>4
  <2>3. CASE state[worker.scan] \notin {"abandoned", "ready"}
    BY <1>t, <1>15, <2>3 DEF Look
  <2>4. QED
    BY <2>1, <2>2, <2>3
<1>16. CASE CopyInput
  BY <1>t, <1>16 DEF CopyInput, shared
<1>17. CASE HostRuns
  BY <1>t, <1>17 DEF HostRuns, shared
<1>18. CASE HostFails
  BY <1>t, <1>18 DEF HostFails, IdleWorker, shared
<1>19. CASE StartOutput
  BY <1>t, <1>19 DEF StartOutput, shared
<1>20. CASE FillOutput
  BY <1>t, <1>20 DEF FillOutput, shared
<1>21. CASE Complete
  BY <1>t, <1>21 DEF Complete, IdleWorker, shared
<1>22. CASE CompleteLate
  BY <1>t, <1>22 DEF CompleteLate, IdleWorker, shared
<1>23. CASE WorkerDies
  BY <1>t, <1>23 DEF WorkerDies, IdleWorker, shared
<1>24. CASE Recover
  BY <1>t, <1>24 DEF Recover, shared
<1>25. CASE Restart
  BY <1>t, <1>25 DEF Restart, FreshMapping, IdleParent, IdleWorker, shared
<1>26. CASE UNCHANGED slotVars
  BY <1>t, <1>26 DEF slotVars
<1>27. QED
  BY <1>1, <1>2, <1>3, <1>4, <1>5, <1>6, <1>7, <1>8, <1>9, <1>10, <1>11, <1>12, <1>13,
     <1>14, <1>15, <1>16, <1>17, <1>18, <1>19, <1>20, <1>21, <1>22, <1>23, <1>24, <1>25,
     <1>26 DEF SlotsNext, Parent, SlotWorker

(* Type correctness: the words of the mapping and the two threads' own variables *)
(* stay in their ranges, however long the chain runs (SharedBlockTransport).      *)
THEOREM SlotsTypeCorrect == SlotsSpec => []SlotsTypeOK
<1>1. SlotsInv => SlotsTypeOK
  BY DEF SlotsInv
<1>2. QED
  BY SlotsInitInv, StepInv, <1>1, PTL DEF SlotsSpec

(* Neither side is handed a slot the other still uses, for any number of slots,  *)
(* missed deadlines, host failures and restarts (worker_take, worker_complete).  *)
THEOREM SlotsHeld == SlotsSpec => []SlotsAreHeld
<1>1. SlotsInv => SlotsAreHeld
  BY DEF SlotsInv
<1>2. QED
  BY SlotsInitInv, StepInv, <1>1, PTL DEF SlotsSpec

(* What process returns as a block's output was computed from that block's input *)
(* by the worker of this generation, whole (wait_and_copy_reusing_midi).         *)
THEOREM AnswersAreOwn == SlotsSpec => []AnswerIsOwn
<1>1. SlotsInv => AnswerIsOwn
  BY DEF SlotsInv
<1>2. QED
  BY SlotsInitInv, StepInv, <1>1, PTL DEF SlotsSpec
=============================================================================
