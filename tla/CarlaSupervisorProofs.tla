------------------------- MODULE CarlaSupervisorProofs -------------------------
(***************************************************************************)
(* Proofs about CarlaSupervisor for any plugin states and bounds: a chain  *)
(* that runs is in the state its supervisor believes, and a save records   *)
(* what the plugins were while it was under way.  Both rest on how the     *)
(* conversation keeps count: in a process that has never timed out, the    *)
(* only message there is belongs to the request that is waited for.        *)
(***************************************************************************)
EXTENDS CarlaSupervisor, SequenceTheorems, TLAPS

Messages == [op : Ops, arg : Args, late : BOOLEAN]
Answers == [ok : BOOLEAN, value : PluginStates, late : BOOLEAN]

Waiting == call.outcome = "waiting"
Start == {"start", "instantiated", "startRestored", "startActivated", "startShown"}

\* Where the bridge waits for the reply to each request.
AskedAt(op) ==
  CASE op = "active" -> {"activated", "startActivated"}
    [] op = "restore" -> {"restored", "startRestored"}
    [] op = "save" -> {"saved"}
    [] op = "visible" -> {"shown", "startShown"}
    [] op = "instantiate" -> {"instantiated"}
    [] op = "status" -> {"toggle", "looked", "relooked", "checked"}
    [] OTHER -> {}
Asking == UNION {AskedAt(op) : op \in Ops}

(* Only a request that sets something has an argument that matters. *)
Fits(op, arg) == /\ op = "active" => arg \in BOOLEAN
                 /\ op = "restore" => arg \in PluginStates

(* Each request that timed out leaves one message more in the stream than are *)
(* waited for, and those lie before the message of the request in hand.       *)
Counted ==
  /\ worker.alive => Len(replies) + Len(requests) = timeouts + (IF Waiting THEN 1 ELSE 0)
  /\ Len(replies) + Len(requests) <= timeouts + (IF Waiting THEN 1 ELSE 0)
  /\ ~worker.alive => requests = <<>>

Overtook == Waiting =>
  /\ \A i \in 1..Len(replies) : i <= timeouts => replies[i].late
  /\ \A i \in 1..Len(requests) : Len(replies) + i <= timeouts => requests[i].late

Own == Waiting /\ timeouts = 0 =>
  /\ \A i \in 1..Len(requests) :
       requests[i].op = call.op /\ requests[i].arg = call.arg /\ ~requests[i].late
  /\ \A i \in 1..Len(replies) : ~replies[i].late

Fitting == /\ Fits(call.op, call.arg)
           /\ \A i \in 1..Len(requests) : Fits(requests[i].op, requests[i].arg)

\* What the request in hand has done to the worker, once it is answered.
Effect(ok) ==
  /\ call.op = "active" => ok /\ worker.active = call.arg
  /\ call.op = "restore" /\ ok /\ ~edited => worker.plugin = call.arg

Effects == worker.alive /\ timeouts = 0 =>
  /\ Waiting => \A i \in 1..Len(replies) : Effect(replies[i].ok)
  /\ pc \in Asking /\ Answered => Effect(Ok)

\* What a save may answer.
Current == pc = "saved" =>
  /\ Ok => call.value \in during
  /\ timeouts = 0 => /\ worker.plugin \in during
                     /\ \A i \in 1..Len(replies) : replies[i].value \in during

(* The conversation, which knows nothing of the supervisor. *)
Talk ==
  /\ call \in [op : Ops, arg : Args, outcome : {"none", "waiting", "ok", "failed"},
               value : PluginStates]
  /\ worker \in [alive : BOOLEAN, plugin : PluginStates, active : BOOLEAN]
  /\ requests \in Seq(Messages) /\ replies \in Seq(Answers)
  /\ timeouts \in 0..MaxTimeouts
  /\ during \subseteq PluginStates /\ edited \in BOOLEAN
  /\ Counted /\ Overtook /\ Own /\ Fitting /\ Effects /\ Current

(* What the supervisor has asked for is what the bridge waits for. *)
Asked ==
  /\ Waiting => pc \in Asking
  /\ \A op \in Ops : pc \in AskedAt(op) => call.op = op /\ call.outcome # "none"
  /\ pc \in {"activated", "startActivated"} => call.arg = sup.active
  /\ pc = "startRestored" => sup.saved /\ call.arg = sup.checkpoint

\* TypeOK without what the application holds.
Typed ==
  /\ sup \in [lifecycle : Lifecycles, active : BOOLEAN, checkpoint : PluginStates,
              saved : BOOLEAN]
  /\ cur \in [exists : BOOLEAN, ready : BOOLEAN, active : BOOLEAN]
  /\ pc \in Pcs /\ clears \in BOOLEAN
  /\ call \in [op : Ops, arg : Args, outcome : {"none", "waiting", "ok", "failed"},
               value : PluginStates]
  /\ worker \in [alive : BOOLEAN, plugin : PluginStates, active : BOOLEAN]
  /\ requests \in Seq([op : Ops, arg : Args, late : BOOLEAN])
  /\ replies \in Seq([ok : BOOLEAN, value : PluginStates, late : BOOLEAN])
  /\ timeouts \in 0..MaxTimeouts /\ taken \in 0..MaxCommands
  /\ faulted \in BOOLEAN /\ shown \in Lifecycles
  /\ during \subseteq PluginStates /\ edited \in BOOLEAN

\* The state of the plugins as the supervisor believes it.
Believed == IF sup.saved THEN sup.checkpoint ELSE Default

\* A restore has been carried out, and the supervisor has yet to hear of it.
Unheard ==
  /\ pc = "restored"
  /\ call.outcome = "ok" \/ \E i \in 1..Len(replies) : replies[i].ok

Beliefs ==
  /\ Running => pc \notin Start
  /\ worker.alive /\ timeouts = 0 =>
       /\ pc = "instantiated" /\ ~edited => worker.plugin = Default
       /\ (Running /\ ~Unheard) \/ pc \in {"startActivated", "startShown"}
            => (~edited => worker.plugin = Believed)
       /\ (Running /\ pc # "activated") \/ pc = "startShown"
            => worker.active = sup.active /\ cur.active = sup.active

IInv == Typed /\ Talk /\ Asked /\ Beliefs

-----------------------------------------------------------------------------
(* What the bridge waits for at each of its steps. *)

LEMMA AskingPlaces ==
  Asking = {"activated", "startActivated", "restored", "startRestored", "saved", "shown",
            "startShown", "instantiated", "toggle", "looked", "relooked", "checked"}
BY DEF Asking, AskedAt, Ops

LEMMA AskedPlaces ==
  ASSUME Asked
  PROVE  /\ pc \in {"activated", "startActivated"} => call.op = "active"
         /\ pc \in {"restored", "startRestored"} => call.op = "restore"
         /\ pc = "saved" => call.op = "save"
         /\ pc \in {"shown", "startShown"} => call.op = "visible"
         /\ pc = "instantiated" => call.op = "instantiate"
         /\ pc \in {"toggle", "looked", "relooked", "checked"} => call.op = "status"
         /\ Waiting => pc \in Asking
BY DEF Asked, AskedAt, Ops

\* Overtaking keeps every message, and makes it late.
LEMMA OvertakenRequests ==
  ASSUME NEW s \in Seq(Messages)
  PROVE  /\ Overtaken(s) \in Seq(Messages)
         /\ Len(Overtaken(s)) = Len(s)
         /\ \A i \in 1..Len(s) : /\ Overtaken(s)[i].late
                                 /\ Overtaken(s)[i].op = s[i].op
                                 /\ Overtaken(s)[i].arg = s[i].arg
<1> DEFINE e(i) == [s[i] EXCEPT !.late = TRUE]
<1>1. Len(s) \in Nat /\ DOMAIN s = 1..Len(s)
  BY LenProperties
<1>2. \A i \in 1..Len(s) : s[i] \in Messages
  BY ElementOfSeq
<1>3. \A i \in 1..Len(s) : e(i) \in Messages
  BY <1>2 DEF Messages
<1>4. Overtaken(s) = [i \in 1..Len(s) |-> e(i)]
  BY <1>1 DEF Overtaken
<1>5. \A i \in 1..Len(s) : e(i).late /\ e(i).op = s[i].op /\ e(i).arg = s[i].arg
  BY <1>2 DEF Messages
<1> HIDE DEF e
<1>6. Overtaken(s) \in Seq(Messages)
  BY <1>1, <1>3, <1>4, IsASeq
<1>7. Len(Overtaken(s)) = Len(s)
  BY <1>1, <1>4, <1>6, LenProperties
<1>8. \A i \in 1..Len(s) : Overtaken(s)[i] = e(i)
  BY <1>4
<1>9. QED
  BY <1>5, <1>6, <1>7, <1>8

LEMMA OvertakenReplies ==
  ASSUME NEW s \in Seq(Answers)
  PROVE  /\ Overtaken(s) \in Seq(Answers)
         /\ Len(Overtaken(s)) = Len(s)
         /\ \A i \in 1..Len(s) : Overtaken(s)[i].late
<1> DEFINE e(i) == [s[i] EXCEPT !.late = TRUE]
<1>1. Len(s) \in Nat /\ DOMAIN s = 1..Len(s)
  BY LenProperties
<1>2. \A i \in 1..Len(s) : s[i] \in Answers
  BY ElementOfSeq
<1>3. \A i \in 1..Len(s) : e(i) \in Answers
  BY <1>2 DEF Answers
<1>4. Overtaken(s) = [i \in 1..Len(s) |-> e(i)]
  BY <1>1 DEF Overtaken
<1>5. \A i \in 1..Len(s) : e(i).late
  BY <1>2 DEF Answers
<1> HIDE DEF e
<1>6. Overtaken(s) \in Seq(Answers)
  BY <1>1, <1>3, <1>4, IsASeq
<1>7. Len(Overtaken(s)) = Len(s)
  BY <1>1, <1>4, <1>6, LenProperties
<1>8. \A i \in 1..Len(s) : Overtaken(s)[i] = e(i)
  BY <1>4
<1>9. QED
  BY <1>5, <1>6, <1>7, <1>8

\* A message put at the end of a stream.
LEMMA Appended ==
  ASSUME NEW S, NEW s \in Seq(S), NEW m \in S
  PROVE  /\ Append(s, m) \in Seq(S)
         /\ Len(Append(s, m)) = Len(s) + 1
         /\ \A i \in 1..Len(s) : Append(s, m)[i] = s[i]
         /\ Append(s, m)[Len(s) + 1] = m
BY AppendProperties

-----------------------------------------------------------------------------
(* What the operators of the bridge do to the conversation. *)

(* A bridge that waits for nothing and asks: everything that was under way is  *)
(* late now, and in a process that never timed out there was nothing.          *)
LEMMA RequestTalks ==
  ASSUME Talk, ~Waiting,
         NEW op \in Ops, NEW arg \in Args, NEW next \in AskedAt(op),
         Fits(op, arg), Request(op, arg, next)
  PROVE  /\ Talk'
         /\ call'.op = op /\ call'.arg = arg /\ call'.outcome = "waiting"
         /\ worker.alive /\ timeouts = 0 => Len(replies') = 0
<1> USE DEF Talk
<1>1. /\ Overtaken(requests) \in Seq(Messages)
      /\ Len(Overtaken(requests)) = Len(requests)
      /\ \A i \in 1..Len(requests) : /\ Overtaken(requests)[i].late
                                     /\ Overtaken(requests)[i].op = requests[i].op
                                     /\ Overtaken(requests)[i].arg = requests[i].arg
  BY OvertakenRequests
<1>2. /\ replies' \in Seq(Answers)
      /\ Len(replies') = Len(replies)
      /\ \A i \in 1..Len(replies) : replies'[i].late
  BY OvertakenReplies DEF Request
<1> DEFINE m == [op |-> op, arg |-> arg, late |-> FALSE]
<1>3. m \in Messages /\ m.op = op /\ m.arg = arg /\ m.late = FALSE
  BY DEF Messages
<1> HIDE DEF m
<1>4. Len(requests) \in Nat /\ Len(replies) \in Nat /\ timeouts \in Nat
  BY LenProperties, BoundsAssumption
<1>5. worker.alive =>
        /\ requests' \in Seq(Messages)
        /\ Len(requests') = Len(requests) + 1
        /\ \A i \in 1..Len(requests) : requests'[i] = Overtaken(requests)[i]
        /\ requests'[Len(requests) + 1] = m
  <2>1. worker.alive => requests' = Append(Overtaken(requests), m)
    BY DEF Request, m
  <2>2. \A s \in Seq(Messages) : \A x \in Messages :
           /\ Append(s, x) \in Seq(Messages)
           /\ Len(Append(s, x)) = Len(s) + 1
           /\ \A i \in 1..Len(s) : Append(s, x)[i] = s[i]
           /\ Append(s, x)[Len(s) + 1] = x
    BY Appended
  <2>3. Overtaken(requests) \in Seq(Messages)
    BY <1>1
  <2>4. m \in Messages
    BY <1>3
  <2>5. /\ Append(Overtaken(requests), m) \in Seq(Messages)
        /\ Len(Append(Overtaken(requests), m)) = Len(Overtaken(requests)) + 1
        /\ \A i \in 1..Len(Overtaken(requests)) :
               Append(Overtaken(requests), m)[i] = Overtaken(requests)[i]
        /\ Append(Overtaken(requests), m)[Len(Overtaken(requests)) + 1] = m
    BY <2>2, <2>3, <2>4, Zenon
  <2>6. QED
    BY <1>1, <2>1, <2>5
<1>6. ~worker.alive => requests' = <<>> /\ Len(requests') = 0
  BY EmptySeq DEF Request, Counted
<1>7. /\ call' = [op |-> op, arg |-> arg, outcome |-> "waiting", value |-> Default]
      /\ during' = (IF op = "save" THEN {worker.plugin} ELSE during)
      /\ pc' = next /\ worker' = worker /\ timeouts' = timeouts /\ edited' = edited
  BY DEF Request
<1>8. /\ call' \in [op : Ops, arg : Args, outcome : {"none", "waiting", "ok", "failed"},
                    value : PluginStates]
      /\ call'.op = op /\ call'.arg = arg /\ call'.outcome = "waiting"
  BY <1>7, DefaultAssumption
<1>9. requests' \in Seq(Messages) /\ during' \subseteq PluginStates
  BY <1>5, <1>6, <1>7, EmptySeq
<1>10. Waiting' /\ ~Answered'
  BY <1>8 DEF Waiting, Answered
<1>11. Counted'
  BY <1>2, <1>4, <1>5, <1>6, <1>7, <1>10 DEF Counted
<1>12. Overtook'
  <2>1. \A i \in 1..Len(requests)' : Len(replies)' + i <= timeouts' => requests'[i].late
    <3>1. CASE worker.alive
      <4>1. Len(replies) + Len(requests) = timeouts
        BY <3>1 DEF Counted
      <4>2. \A i \in 1..Len(requests') : Len(replies') + i <= timeouts => i \in 1..Len(requests)
        BY <1>2, <1>4, <1>5, <3>1, <4>1
      <4>3. QED
        BY <1>1, <1>5, <1>7, <3>1, <4>2
    <3>2. CASE ~worker.alive
      BY <1>6, <3>2
    <3>3. QED
      BY <3>1, <3>2
  <2>2. QED
    BY <1>2, <2>1 DEF Overtook
<1>13. worker.alive /\ timeouts = 0 => Len(replies) = 0 /\ Len(requests) = 0
  BY <1>4 DEF Counted
<1>14. Own'
  <2>1. timeouts = 0 => Len(replies) = 0
    BY <1>4 DEF Counted
  <2>2. timeouts = 0 => \A i \in 1..Len(requests') : requests'[i] = m
    BY <1>4, <1>5, <1>6, <1>13
  <2>3. QED
    BY <1>2, <1>3, <1>7, <1>8, <2>1, <2>2 DEF Own
<1>15. Fitting'
  <2>1. \A i \in 1..Len(requests) : Fits(requests[i].op, requests[i].arg)
    BY DEF Fitting
  <2>2. \A i \in 1..Len(requests') : Fits(requests'[i].op, requests'[i].arg)
    <3>1. CASE worker.alive
      <4>1. \A i \in 1..Len(requests') : i \in 1..Len(requests) \/ i = Len(requests) + 1
        BY <1>4, <1>5, <3>1
      <4>2. \A i \in 1..Len(requests) : requests'[i].op = requests[i].op
                                      /\ requests'[i].arg = requests[i].arg
        BY <1>1, <1>5, <3>1
      <4>3. QED
        BY <1>3, <1>5, <2>1, <3>1, <4>1, <4>2
    <3>2. CASE ~worker.alive
      BY <1>6, <3>2
    <3>3. QED
      BY <3>1, <3>2
  <2>3. Fits(call'.op, call'.arg)
    BY <1>8
  <2>4. QED
    BY <2>2, <2>3 DEF Fitting, Fits
<1>16. Effects'
  BY <1>2, <1>7, <1>10, <1>13 DEF Effects
<1>17. Current'
  <2>1. pc' = "saved" => op = "save"
    BY <1>7 DEF AskedAt, Ops
  <2>2. timeouts = 0 => Len(replies) = 0
    BY <1>4 DEF Counted
  <2>3. ~Ok'
    BY <1>8 DEF Ok
  <2>4. QED
    BY <1>2, <1>7, <2>1, <2>2, <2>3 DEF Current
<1>18. QED
  BY <1>2, <1>7, <1>8, <1>9, <1>11, <1>12, <1>13, <1>14, <1>15, <1>16, <1>17

\* A step of the bridge that neither waits nor asks leaves the conversation alone.
LEMMA SilenceTalks ==
  ASSUME Talk, ~Waiting, call' \in {call, NoCall}, pc' \notin Asking,
         worker' = worker, requests' = requests, replies' = replies,
         timeouts' = timeouts, during' \in {during, {}}, edited' \in BOOLEAN
  PROVE  Talk'
<1> USE DEF Talk
<1>1. call' \in [op : Ops, arg : Args, outcome : {"none", "waiting", "ok", "failed"},
                value : PluginStates]
  <2>1. NoCall \in [op : Ops, arg : Args, outcome : {"none", "waiting", "ok", "failed"},
                    value : PluginStates]
    BY DefaultAssumption DEF NoCall, Ops, Args
  <2>2. QED
    BY <2>1
<1>2. ~Waiting'
  BY DEF Waiting, NoCall
<1>3. Counted'
  BY <1>2 DEF Counted
<1>4. Overtook' /\ Own'
  BY <1>2 DEF Overtook, Own
<1>5. Fitting'
  BY DEF Fitting, Fits, NoCall
<1>6. Effects'
  BY <1>2 DEF Effects
<1>7. Current'
  BY AskingPlaces DEF Current
<1>8. QED
  BY <1>1, <1>3, <1>4, <1>5, <1>6, <1>7

\* The types of what is not the conversation's.
TypeRest ==
  /\ sup \in [lifecycle : Lifecycles, active : BOOLEAN, checkpoint : PluginStates,
              saved : BOOLEAN]
  /\ cur \in [exists : BOOLEAN, ready : BOOLEAN, active : BOOLEAN]
  /\ pc \in Pcs /\ clears \in BOOLEAN /\ taken \in 0..MaxCommands
  /\ faulted \in BOOLEAN /\ shown \in Lifecycles

LEMMA TypeParts == Talk /\ TypeRest => Typed
BY DEF Talk, TypeRest, Typed, Messages, Answers

-----------------------------------------------------------------------------
(* The steps of the stream and of the worker. *)

\* The bridge takes the next message for its reply: only an own one is believed.
LEMMA ReceiveKeeps == IInv /\ Receive => IInv'
<1> SUFFICES ASSUME IInv, Receive
             PROVE  IInv'
  OBVIOUS
<1> USE DEF IInv
<1> DEFINE reply == Head(replies)
<1>1. /\ Waiting /\ replies # <<>> /\ replies' = Tail(replies)
      /\ call' = [call EXCEPT !.outcome = IF ~reply.late /\ reply.ok THEN "ok" ELSE "failed",
                              !.value = reply.value]
      /\ UNCHANGED <<sup, cur, pc, clears, worker, requests, timeouts, faulted, shown, taken,
                     during, edited>>
  BY DEF Receive, Waiting, host, bridge, history
<1>2. /\ replies \in Seq(Answers) /\ requests \in Seq(Messages)
      /\ Len(replies) \in Nat /\ Len(requests) \in Nat /\ timeouts \in Nat
  BY LenProperties, BoundsAssumption DEF Talk
<1>3. /\ reply \in Answers /\ reply = replies[1]
      /\ replies' \in Seq(Answers) /\ Len(replies') = Len(replies) - 1 /\ Len(replies) > 0
      /\ Len(replies') \in Nat
      /\ \A i \in 1..Len(replies') : replies'[i] = replies[i + 1]
  <2>1. Len(replies) > 0
    BY <1>1, <1>2, EmptySeq
  <2>2. /\ Tail(replies) \in Seq(Answers) /\ Len(Tail(replies)) = Len(replies) - 1
        /\ Head(replies) \in Answers
        /\ \A i \in 1..Len(Tail(replies)) : Tail(replies)[i] = replies[i + 1]
    BY <1>1, <1>2, HeadTailProperties
  <2>3. Head(replies) = replies[1]
    BY <1>1, <1>2
  <2>4. QED
    BY <1>1, <1>2, <2>1, <2>2, <2>3
<1> HIDE DEF reply
<1>4. /\ call'.op = call.op /\ call'.arg = call.arg /\ call'.value = reply.value
      /\ call'.outcome = (IF ~reply.late /\ reply.ok THEN "ok" ELSE "failed")
      /\ call' \in [op : Ops, arg : Args, outcome : {"none", "waiting", "ok", "failed"},
                    value : PluginStates]
  <2>1. reply.value \in PluginStates
    BY <1>3 DEF Answers
  <2>2. QED
    BY <1>1, <2>1 DEF Talk
<1>5. /\ ~Waiting' /\ Answered' /\ Ok' = (~reply.late /\ reply.ok)
      /\ ~Ok /\ ~Answered
  BY <1>1, <1>3, <1>4 DEF Waiting, Answered, Ok, Answers
<1>6. /\ timeouts = 0 => ~reply.late
      /\ timeouts > 0 => reply.late
  BY <1>1, <1>2, <1>3 DEF Talk, Own, Overtook
<1>7. Talk'
  <2>1. Counted'
    <3>1. /\ worker.alive => Len(replies) + Len(requests) = timeouts + 1
          /\ Len(replies) + Len(requests) <= timeouts + 1
          /\ ~worker.alive => requests = <<>>
      BY <1>1 DEF Talk, Counted
    <3>2. Len(requests') = Len(requests) /\ timeouts' = timeouts /\ worker' = worker
      BY <1>1
    <3>3. QED
      BY <1>1, <1>2, <1>3, <1>5, <3>1, <3>2 DEF Counted
  <2>2. Overtook' /\ Own'
    BY <1>5 DEF Overtook, Own
  <2>3. Fitting'
    BY <1>1, <1>4 DEF Talk, Fitting, Fits
  <2>4. Effects'
    <3>1. worker.alive /\ timeouts = 0 => Effect(reply.ok)
      BY <1>1, <1>2, <1>3 DEF Talk, Effects
    <3>2. worker.alive /\ timeouts = 0 => Effect(Ok)'
      BY <1>1, <1>3, <1>4, <1>5, <1>6, <3>1 DEF Effect, Answers
    <3>3. QED
      BY <1>1, <1>5, <3>2 DEF Effects
  <2>5. Current'
    <3>1. CASE timeouts = 0
      BY <1>1, <1>2, <1>3, <1>4, <3>1 DEF Talk, Current
    <3>2. CASE timeouts > 0
      BY <1>1, <1>2, <1>5, <1>6, <3>2 DEF Current
    <3>3. QED
      BY <1>2, <3>1, <3>2
  <2>6. QED
    BY <1>1, <1>3, <1>4, <2>1, <2>2, <2>3, <2>4, <2>5 DEF Talk
<1>8. Asked'
  BY <1>1, <1>4, <1>5 DEF Asked
<1>9. timeouts = 0 /\ Unheard => Unheard'
  <2>1. ASSUME timeouts = 0, NEW i \in 1..Len(replies), replies[i].ok, pc = "restored"
        PROVE  Unheard'
    <3>1. CASE i = 1
      BY <1>1, <1>3, <1>4, <1>6, <2>1, <3>1 DEF Unheard
    <3>2. CASE i # 1
      <4>1. i - 1 \in 1..Len(replies') /\ replies'[i - 1] = replies[i]
        BY <1>2, <1>3, <2>1, <3>2
      <4>2. QED
        BY <1>1, <2>1, <4>1 DEF Unheard
    <3>3. QED
      BY <3>1, <3>2
  <2>2. QED
    BY <1>5, <2>1 DEF Unheard, Ok
<1>10. Beliefs'
  BY <1>1, <1>9 DEF Beliefs, Believed, Running
<1>11. TypeRest'
  BY <1>1 DEF TypeRest, Typed
<1>12. QED
  BY <1>7, <1>8, <1>10, <1>11, TypeParts, PTL

\* The bridge gives up: from now on the conversation is one message behind.
LEMMA GiveUpKeeps == IInv /\ GiveUp => IInv'
<1> SUFFICES ASSUME IInv, GiveUp
             PROVE  IInv'
  OBVIOUS
<1> USE DEF IInv
<1>1. /\ Waiting /\ replies = <<>>
      /\ worker.alive => timeouts < MaxTimeouts
      /\ timeouts' = (IF worker.alive THEN timeouts + 1 ELSE timeouts)
      /\ call' = [call EXCEPT !.outcome = "failed"]
      /\ UNCHANGED <<sup, cur, pc, clears, worker, requests, replies, faulted, shown, taken,
                     during, edited>>
  BY DEF GiveUp, Waiting, host, bridge, history
<1>2. /\ replies \in Seq(Answers) /\ requests \in Seq(Messages)
      /\ Len(replies) = 0 /\ Len(requests) \in Nat /\ timeouts \in Nat
      /\ timeouts' \in 0..MaxTimeouts
  BY <1>1, LenProperties, EmptySeq, BoundsAssumption DEF Talk
<1>3. /\ call'.op = call.op /\ call'.arg = call.arg /\ call'.value = call.value
      /\ call'.outcome = "failed"
      /\ call' \in [op : Ops, arg : Args, outcome : {"none", "waiting", "ok", "failed"},
                    value : PluginStates]
  BY <1>1 DEF Talk
<1>4. ~Waiting' /\ ~Ok' /\ ~Ok
  BY <1>1, <1>3 DEF Waiting, Ok
<1>5. worker.alive => timeouts' # 0
  BY <1>1, <1>2
<1>6. Talk'
  <2>1. Counted'
    <3>1. CASE worker.alive
      BY <1>1, <1>2, <1>4, <3>1 DEF Talk, Counted
    <3>2. CASE ~worker.alive
      <4>1. requests = <<>>
        BY <3>2 DEF Talk, Counted
      <4>2. Len(requests') = 0 /\ Len(replies') = 0 /\ requests' = <<>>
        BY <1>1, <4>1, EmptySeq
      <4>3. timeouts' = timeouts /\ worker' = worker
        BY <1>1, <3>2
      <4>4. QED
        BY <1>2, <1>4, <3>2, <4>2, <4>3 DEF Counted
    <3>3. QED
      BY <3>1, <3>2
  <2>2. Overtook' /\ Own'
    BY <1>4 DEF Overtook, Own
  <2>3. Fitting'
    BY <1>1, <1>3 DEF Talk, Fitting, Fits
  <2>4. Effects'
    BY <1>1, <1>5 DEF Effects
  <2>5. Current'
    <3>1. timeouts' = 0 => timeouts = 0
      BY <1>1, <1>2
    <3>2. QED
      BY <1>1, <1>4, <3>1 DEF Talk, Current
  <2>6. QED
    BY <1>1, <1>2, <1>3, <2>1, <2>2, <2>3, <2>4, <2>5 DEF Talk
<1>7. Asked'
  BY <1>1, <1>3, <1>4 DEF Asked
<1>8. Beliefs'
  BY <1>1, <1>5 DEF Beliefs, Running
<1>9. TypeRest'
  BY <1>1 DEF TypeRest, Typed
<1>10. QED
  BY <1>6, <1>7, <1>8, <1>9, TypeParts, PTL

(* The worker answers the oldest request.  In a process that never timed out  *)
(* that is the one the bridge waits for, and the only message there is.       *)
LEMMA ServeKeeps == IInv /\ Serve => IInv'
<1> SUFFICES ASSUME IInv, Serve
             PROVE  IInv'
  OBVIOUS
<1> USE DEF IInv
<1> DEFINE request == Head(requests)
           answer(ok) == [ok |-> ok, value |-> worker.plugin, late |-> request.late]
<1>1. PICK ok \in BOOLEAN :
        /\ request.op \in {"status", "active"} => ok
        /\ worker' = CASE ok /\ request.op = "active" ->
                            [worker EXCEPT !.active = request.arg]
                       [] ok /\ request.op = "restore" ->
                            [worker EXCEPT !.plugin = request.arg]
                       [] OTHER -> worker
        /\ replies' = Append(replies, answer(ok))
  BY DEF Serve
<1>2. /\ worker.alive /\ requests # <<>> /\ requests' = Tail(requests)
      /\ UNCHANGED <<sup, cur, pc, clears, call, timeouts, faulted, shown, taken,
                     during, edited>>
  BY DEF Serve, host, bridge, history
<1>3. /\ replies \in Seq(Answers) /\ requests \in Seq(Messages)
      /\ Len(replies) \in Nat /\ Len(requests) \in Nat /\ timeouts \in Nat
      /\ worker \in [alive : BOOLEAN, plugin : PluginStates, active : BOOLEAN]
  BY LenProperties, BoundsAssumption DEF Talk
<1>4. /\ request \in Messages /\ request = requests[1] /\ Len(requests) > 0
      /\ requests' \in Seq(Messages) /\ Len(requests') = Len(requests) - 1
      /\ \A i \in 1..Len(requests') : requests'[i] = requests[i + 1]
  <2>1. Len(requests) > 0
    BY <1>2, <1>3, EmptySeq
  <2>2. /\ Tail(requests) \in Seq(Messages) /\ Len(Tail(requests)) = Len(requests) - 1
        /\ Head(requests) \in Messages
        /\ \A i \in 1..Len(Tail(requests)) : Tail(requests)[i] = requests[i + 1]
    BY <1>2, <1>3, HeadTailProperties
  <2>3. Head(requests) = requests[1]
    BY <1>2, <1>3
  <2>4. QED
    BY <1>2, <2>1, <2>2, <2>3
<1>5. answer(ok) \in Answers /\ answer(ok).ok = ok /\ answer(ok).value = worker.plugin
        /\ answer(ok).late = request.late
  <2>1. request.late \in BOOLEAN
    BY <1>4 DEF Messages
  <2>2. QED
    BY <1>3, <2>1 DEF Answers
<1> HIDE DEF request, answer
<1>6. /\ replies' \in Seq(Answers) /\ Len(replies') = Len(replies) + 1
      /\ \A i \in 1..Len(replies) : replies'[i] = replies[i]
      /\ replies'[Len(replies) + 1] = answer(ok)
  <2>1. replies \in Seq(Answers)
    BY <1>3
  <2>2. answer(ok) \in Answers
    BY <1>5
  <2>3. /\ Append(replies, answer(ok)) \in Seq(Answers)
        /\ Len(Append(replies, answer(ok))) = Len(replies) + 1
        /\ \A i \in 1..Len(replies) : Append(replies, answer(ok))[i] = replies[i]
        /\ Append(replies, answer(ok))[Len(replies) + 1] = answer(ok)
    BY <2>1, <2>2, Appended, Zenon
  <2>4. QED
    BY <1>1, <2>3
<1>7. Fits(request.op, request.arg)
  BY <1>3, <1>4 DEF Talk, Fitting
<1>8. /\ worker' \in [alive : BOOLEAN, plugin : PluginStates, active : BOOLEAN]
      /\ worker'.alive = worker.alive
      /\ request.op # "restore" \/ ~ok => worker'.plugin = worker.plugin
      /\ request.op = "restore" /\ ok => worker'.plugin = request.arg
      /\ request.op # "active" => worker'.active = worker.active
      /\ request.op = "active" => ok /\ worker'.active = request.arg
  BY <1>1, <1>3, <1>7 DEF Fits
<1>9. timeouts = 0 =>
        /\ Waiting /\ Len(replies) = 0 /\ Len(requests) = 1
        /\ request.op = call.op /\ request.arg = call.arg /\ ~request.late
  <2>1. timeouts = 0 => Waiting /\ Len(replies) = 0 /\ Len(requests) = 1
    BY <1>2, <1>3, <1>4 DEF Talk, Counted
  <2>2. QED
    BY <1>3, <1>4, <2>1 DEF Talk, Own
<1>10. Waiting' = Waiting /\ Answered' = Answered /\ Ok' = Ok
  BY <1>2 DEF Waiting, Answered, Ok
<1>11. \A i \in 1..Len(replies') : i \in 1..Len(replies) \/ i = Len(replies) + 1
  BY <1>3, <1>6
<1>12. \A i \in 1..Len(requests') : i + 1 \in 1..Len(requests)
  BY <1>3, <1>4
<1>13. timeouts = 0 =>
         /\ Len(requests') = 0
         /\ \A i \in 1..Len(replies') : replies'[i] = answer(ok)
  BY <1>3, <1>4, <1>6, <1>9, <1>11
<1>14. Talk'
  <2>1. Counted'
    <3>1. Len(replies) + Len(requests) = timeouts + (IF Waiting THEN 1 ELSE 0)
      BY <1>2 DEF Talk, Counted
    <3>2. Len(replies') + Len(requests') = Len(replies) + Len(requests)
      BY <1>3, <1>4, <1>6
    <3>3. Len(replies') + Len(requests') = timeouts' + (IF Waiting' THEN 1 ELSE 0)
      BY <1>2, <1>10, <3>1, <3>2
    <3>4. QED
      BY <1>2, <1>3, <1>8, <3>3 DEF Counted
  <2>2. Overtook'
    <3>1. SUFFICES ASSUME Waiting
                   PROVE  /\ \A i \in 1..Len(replies') : i <= timeouts => replies'[i].late
                          /\ \A i \in 1..Len(requests') :
                                Len(replies') + i <= timeouts => requests'[i].late
      BY <1>2, <1>10 DEF Overtook
    <3>2. /\ \A i \in 1..Len(replies) : i <= timeouts => replies[i].late
          /\ \A i \in 1..Len(requests) : Len(replies) + i <= timeouts => requests[i].late
      BY <3>1 DEF Talk, Overtook
    <3>3. ASSUME NEW i \in 1..Len(replies'), i <= timeouts
          PROVE  replies'[i].late
      <4>1. CASE i \in 1..Len(replies)
        BY <1>6, <3>2, <3>3, <4>1
      <4>2. CASE i = Len(replies) + 1
        <5>1. requests[1].late
          BY <1>3, <1>4, <3>2, <3>3, <4>2
        <5>2. QED
          BY <1>4, <1>5, <1>6, <4>2, <5>1
      <4>3. QED
        BY <1>11, <4>1, <4>2
    <3>4. ASSUME NEW i \in 1..Len(requests'), Len(replies') + i <= timeouts
          PROVE  requests'[i].late
      <4>1. Len(replies) + (i + 1) <= timeouts
        BY <1>3, <1>6, <3>4
      <4>2. QED
        BY <1>4, <1>12, <3>2, <4>1
    <3>5. QED
      BY <3>3, <3>4
  <2>3. Own'
    BY <1>2, <1>3, <1>5, <1>9, <1>13 DEF Own
  <2>4. Fitting'
    BY <1>2, <1>4, <1>12 DEF Talk, Fitting, Fits
  <2>5. Effects'
    <3>1. timeouts = 0 => ~Answered'
      BY <1>9, <1>10 DEF Waiting, Answered
    <3>2. timeouts = 0 => Effect(ok)'
      BY <1>2, <1>8, <1>9 DEF Effect
    <3>3. timeouts = 0 => \A i \in 1..Len(replies') : replies'[i].ok = ok
      BY <1>5, <1>13
    <3>4. timeouts = 0 => \A i \in 1..Len(replies') : Effect(replies[i].ok)'
      BY <3>2, <3>3 DEF Effect
    <3>5. QED
      BY <1>2, <3>1, <3>4 DEF Effects
  <2>6. Current'
    <3>1. timeouts = 0 /\ pc = "saved" =>
            /\ worker'.plugin \in during
            /\ \A i \in 1..Len(replies') : replies'[i].value \in during
      <4>1. pc = "saved" => call.op = "save"
        BY AskedPlaces
      <4>2. QED
        BY <1>5, <1>8, <1>9, <1>13, <4>1 DEF Talk, Current
    <3>2. QED
      BY <1>2, <1>10, <3>1 DEF Talk, Current
  <2>7. QED
    BY <1>2, <1>4, <1>6, <1>8, <2>1, <2>2, <2>3, <2>4, <2>5, <2>6 DEF Talk
<1>15. Asked'
  BY <1>2, <1>10 DEF Asked
<1>16. Beliefs'
  <2>1. SUFFICES ASSUME timeouts = 0
                 PROVE  /\ pc = "instantiated" /\ ~edited => worker'.plugin = Default
                        /\ (Running /\ ~Unheard') \/ pc \in {"startActivated", "startShown"}
                              => (~edited => worker'.plugin = Believed)
                        /\ (Running /\ pc # "activated") \/ pc = "startShown"
                              => worker'.active = sup.active /\ cur.active = sup.active
    BY <1>2 DEF Beliefs, Running, Believed
  <2>2. Waiting /\ request.op = call.op /\ request.arg = call.arg
    BY <1>9, <2>1
  <2>3. Len(replies) = 0 /\ ~Unheard
    <3>1. Len(replies) = 0 /\ Waiting
      BY <1>9, <2>1
    <3>2. QED
      BY <3>1 DEF Unheard, Waiting
  <2>4. /\ pc = "instantiated" /\ ~edited => worker.plugin = Default
        /\ (Running \/ pc \in {"startActivated", "startShown"})
              => (~edited => worker.plugin = Believed)
        /\ (Running /\ pc # "activated") \/ pc = "startShown"
              => worker.active = sup.active /\ cur.active = sup.active
    BY <1>2, <2>1, <2>3 DEF Beliefs
  <2>5. pc \in Asking
    BY <2>2, AskedPlaces
  <2>6. worker'.plugin # worker.plugin => pc \in {"restored", "startRestored"} /\ ok
    BY <1>8, <2>2, <2>5, AskedPlaces, AskingPlaces
  <2>7. worker'.active # worker.active => pc \in {"activated", "startActivated"}
    BY <1>8, <2>2, <2>5, AskedPlaces, AskingPlaces
  <2>8. pc = "restored" /\ ok => Unheard'
    <3>1. 1 \in 1..Len(replies') /\ replies'[1].ok = ok
      BY <1>5, <1>6, <2>3
    <3>2. QED
      BY <1>2, <3>1 DEF Unheard
  <2>9. Running => pc \notin Start
    BY DEF Beliefs
  <2>10. QED
    BY <2>4, <2>6, <2>7, <2>8, <2>9 DEF Start
<1>17. TypeRest'
  BY <1>2 DEF TypeRest, Typed
<1>18. QED
  BY <1>14, <1>15, <1>16, <1>17, TypeParts, PTL

\* The plugins change on their own: nothing is believed of them any more.
LEMMA PluginChangesKeeps == IInv /\ PluginChanges => IInv'
<1> SUFFICES ASSUME IInv, PluginChanges
             PROVE  IInv'
  OBVIOUS
<1> USE DEF IInv
<1>1. PICK state \in PluginStates :
        /\ worker' = [worker EXCEPT !.plugin = state]
        /\ during' = (IF during = {} THEN {} ELSE during \union {state})
  BY DEF PluginChanges
<1>2. /\ edited' = TRUE
      /\ UNCHANGED <<sup, cur, pc, clears, call, requests, replies, timeouts, faulted, shown,
                     taken>>
  BY DEF PluginChanges, host, bridge
<1>3. /\ worker' \in [alive : BOOLEAN, plugin : PluginStates, active : BOOLEAN]
      /\ worker'.alive = worker.alive /\ worker'.active = worker.active
      /\ worker'.plugin = state
  BY <1>1 DEF Talk
<1>4. Waiting' = Waiting /\ Answered' = Answered /\ Ok' = Ok
  BY <1>2 DEF Waiting, Answered, Ok
<1>5. Talk'
  <2>1. Counted' /\ Overtook' /\ Own'
    BY <1>2, <1>3, <1>4 DEF Talk, Counted, Overtook, Own
  <2>2. Fitting'
    BY <1>2 DEF Talk, Fitting
  <2>3. Effects'
    <3>1. \A i \in 1..Len(replies) : Effect(replies[i].ok) => Effect(replies[i].ok)'
      BY <1>2, <1>3 DEF Effect
    <3>2. Effect(Ok) => Effect(Ok)'
      BY <1>2, <1>3, <1>4 DEF Effect
    <3>3. QED
      BY <1>2, <1>3, <1>4, <3>1, <3>2 DEF Talk, Effects
  <2>4. Current'
    BY <1>1, <1>2, <1>3, <1>4 DEF Talk, Current
  <2>5. during' \subseteq PluginStates
    BY <1>1 DEF Talk
  <2>6. QED
    BY <1>2, <1>3, <2>1, <2>2, <2>3, <2>4, <2>5 DEF Talk
<1>6. Asked'
  BY <1>2, <1>4 DEF Asked
<1>7. Beliefs'
  BY <1>2, <1>3 DEF Beliefs, Running
<1>8. TypeRest'
  BY <1>2 DEF TypeRest, Typed
<1>9. QED
  BY <1>5, <1>6, <1>7, <1>8, TypeParts, PTL

\* A dead worker answers nothing; what it answered before is still read.
LEMMA WorkerDiesKeeps == IInv /\ WorkerDies => IInv'
<1> SUFFICES ASSUME IInv, WorkerDies
             PROVE  IInv'
  OBVIOUS
<1> USE DEF IInv
<1>1. /\ worker.alive /\ worker' = [worker EXCEPT !.alive = FALSE] /\ requests' = <<>>
      /\ UNCHANGED <<sup, cur, pc, clears, call, replies, timeouts, faulted, shown, taken,
                     during, edited>>
  BY DEF WorkerDies, host, bridge, history
<1>2. /\ worker' \in [alive : BOOLEAN, plugin : PluginStates, active : BOOLEAN]
      /\ ~worker'.alive /\ worker'.plugin = worker.plugin
  BY <1>1 DEF Talk
<1>3. requests' \in Seq(Messages) /\ Len(requests') = 0
  BY <1>1, EmptySeq
<1>4. Waiting' = Waiting /\ Ok' = Ok
  BY <1>1 DEF Waiting, Ok
<1>5. Talk'
  <2>1. Counted'
    <3>1. Len(replies) \in Nat /\ Len(requests) \in Nat
      BY LenProperties DEF Talk
    <3>2. Len(replies) + Len(requests) <= timeouts + (IF Waiting THEN 1 ELSE 0)
      BY DEF Talk, Counted
    <3>3. timeouts \in Nat
      BY BoundsAssumption DEF Talk
    <3>4. Len(replies') + Len(requests') <= timeouts' + (IF Waiting' THEN 1 ELSE 0)
      BY <1>1, <1>3, <1>4, <3>1, <3>2, <3>3
    <3>5. QED
      BY <1>1, <1>2, <3>4 DEF Counted
  <2>2. Overtook' /\ Own'
    BY <1>1, <1>3, <1>4 DEF Talk, Overtook, Own
  <2>3. Fitting'
    BY <1>1, <1>3 DEF Talk, Fitting, Fits
  <2>4. Effects'
    BY <1>2 DEF Effects
  <2>5. Current'
    BY <1>1, <1>2, <1>4 DEF Talk, Current
  <2>6. QED
    BY <1>1, <1>2, <1>3, <2>1, <2>2, <2>3, <2>4, <2>5 DEF Talk
<1>6. Asked'
  BY <1>1, <1>4 DEF Asked
<1>7. Beliefs'
  BY <1>1, <1>2 DEF Beliefs, Running
<1>8. TypeRest'
  BY <1>1 DEF TypeRest, Typed
<1>9. QED
  BY <1>5, <1>6, <1>7, <1>8, TypeParts, PTL

-----------------------------------------------------------------------------
(* The steps of the bridge. *)

\* Whoever is not waiting for a reply, or has had it, waits for nothing.
LEMMA NotWaiting ==
  ASSUME Asked, pc \notin Asking \/ Answered
  PROVE  ~Waiting
BY DEF Asked, Waiting, Answered

(* When the bridge asks, the new request is the whole of what it waits for;   *)
(* what remains is what the supervisor and the plugins are.                   *)
LEMMA AskKeeps ==
  ASSUME IInv, ~Waiting,
         NEW op \in Ops, NEW arg \in Args, NEW next \in AskedAt(op),
         Fits(op, arg), Request(op, arg, next), TypeRest',
         next \in {"activated", "startActivated"} => arg = sup'.active,
         next = "startRestored" => sup'.saved /\ arg = sup'.checkpoint,
         Running' => next \notin Start,
         worker.alive /\ timeouts = 0 =>
           /\ next = "instantiated" /\ ~edited => worker.plugin = Default
           /\ Running' \/ next \in {"startActivated", "startShown"}
                => (~edited => worker.plugin = Believed')
           /\ (Running' /\ next # "activated") \/ next = "startShown"
                => worker.active = sup'.active /\ cur'.active = sup'.active
  PROVE  IInv'
<1>1. Talk
  BY DEF IInv
<1>2. /\ Talk'
      /\ call'.op = op /\ call'.arg = arg /\ call'.outcome = "waiting"
  BY <1>1, RequestTalks
<1>3. pc' = next /\ worker' = worker /\ timeouts' = timeouts /\ edited' = edited
  BY DEF Request
<1>4. Asked'
  <2>1. pc' \in Asking
    BY <1>3 DEF Asking
  <2>2. \A o \in Ops : next \in AskedAt(o) => o = op
    BY DEF AskedAt, Ops
  <2>3. QED
    BY <1>2, <1>3, <2>1, <2>2 DEF Asked
<1>5. Beliefs'
  BY <1>3 DEF Beliefs
<1>6. QED
  BY <1>2, <1>4, <1>5, TypeParts, PTL DEF IInv

(* When it neither waits nor asks. *)
LEMMA SilenceKeeps ==
  ASSUME IInv, ~Waiting, call' \in {call, NoCall}, pc' \notin Asking,
         worker' = worker, requests' = requests, replies' = replies,
         timeouts' = timeouts, during' \in {during, {}}, edited' \in BOOLEAN, TypeRest',
         Running' => pc' # "start",
         worker.alive /\ timeouts = 0 /\ Running' =>
           /\ ~edited' => worker.plugin = Believed'
           /\ worker.active = sup'.active /\ cur'.active = sup'.active
  PROVE  IInv'
<1>1. Talk'
  BY SilenceTalks DEF IInv
<1>2. pc' \notin Start \/ pc' = "start"
  BY AskingPlaces DEF Start
<1>3. Asked'
  <2>1. ~Waiting'
    BY DEF Waiting, NoCall
  <2>2. \A o \in Ops : pc' \notin AskedAt(o)
    BY DEF Asking
  <2>3. QED
    BY <2>1, <2>2, AskingPlaces DEF Asked
<1>4. Beliefs'
  BY <1>2, AskingPlaces DEF Beliefs, Start
<1>5. QED
  BY <1>1, <1>3, <1>4, TypeParts, PTL DEF IInv

(* What the invariant says where the bridge waits for nothing. *)
LEMMA AtRest ==
  ASSUME IInv, ~Waiting, worker.alive, timeouts = 0, Running, pc # "activated",
         pc = "restored" => ~Ok
  PROVE  /\ ~edited => worker.plugin = Believed
         /\ worker.active = sup.active /\ cur.active = sup.active
<1>1. ~Unheard
  <2>1. Len(replies) = 0
    BY LenProperties DEF IInv, Talk, Counted
  <2>2. QED
    BY <2>1 DEF Unheard, Ok
<1>2. QED
  BY <1>1 DEF IInv, Beliefs

\* What the answered request has done, in a process that never timed out.
LEMMA Heard ==
  ASSUME IInv, Answered, pc \in Asking, worker.alive, timeouts = 0
  PROVE  Effect(Ok)
BY DEF IInv, Talk, Effects

\* A command of the control handles.
LEMMA CommandKeeps ==
  IInv /\ (TakeActive \/ TakeVisible \/ TakeToggle \/ TakeSave \/ TakeRestore) => IInv'
<1> SUFFICES ASSUME IInv
             PROVE  TakeActive \/ TakeVisible \/ TakeToggle \/ TakeSave \/ TakeRestore => IInv'
  OBVIOUS
<1>1. TypeRest
  BY DEF IInv, Typed, TypeRest
<1>2. pc = "commands" => ~Waiting
  BY NotWaiting, AskingPlaces DEF IInv
<1>3. pc = "commands" /\ worker.alive /\ timeouts = 0 /\ Running =>
        /\ ~edited => worker.plugin = Believed
        /\ worker.active = sup.active /\ cur.active = sup.active
  BY <1>2, AtRest
<1>4. /\ taken < MaxCommands => taken + 1 \in 0..MaxCommands
      /\ edited \in BOOLEAN
  BY <1>1, BoundsAssumption DEF TypeRest, IInv, Talk
<1> USE DEF TypeRest
<1>5. ASSUME TakeActive
      PROVE  IInv'
  <2>1. PICK active \in BOOLEAN :
          /\ sup' = [sup EXCEPT !.active = active]
          /\ IF Running THEN Request("active", active, "activated") ELSE pc' = pc /\ Idle
    BY <1>5 DEF TakeActive
  <2>2. /\ pc = "commands" /\ taken' \in 0..MaxCommands /\ UNCHANGED <<cur, clears, faulted, shown>>
    BY <1>4, <1>5 DEF TakeActive, Take
  <2>3. /\ sup' \in [lifecycle : Lifecycles, active : BOOLEAN, checkpoint : PluginStates,
                     saved : BOOLEAN]
        /\ sup'.active = active /\ sup'.lifecycle = sup.lifecycle
        /\ sup'.saved = sup.saved /\ sup'.checkpoint = sup.checkpoint
    BY <1>1, <2>1
  <2>4. Running' = Running /\ Believed' = Believed
    BY <2>3 DEF Running, Believed
  <2>5. CASE Running
    <3>1. Request("active", active, "activated")
      BY <2>1, <2>5
    <3>2. TypeRest'
      BY <1>1, <2>2, <2>3, <3>1 DEF Request, Pcs
    <3>3. "active" \in Ops /\ active \in Args /\ Fits("active", active)
          /\ "activated" \in AskedAt("active")
      BY DEF Ops, Args, Fits, AskedAt
    <3>4. QED
      BY <1>2, <1>3, <2>2, <2>3, <2>4, <3>1, <3>2, <3>3, AskKeeps DEF Start
  <2>6. CASE ~Running
    <3>1. pc' = pc /\ Idle
      BY <2>1, <2>6
    <3>2. TypeRest'
      BY <1>1, <2>2, <2>3, <3>1
    <3>3. QED
      BY <1>2, <1>4, <2>2, <2>4, <2>6, <3>1, <3>2, SilenceKeeps, AskingPlaces
         DEF Idle, stream, history
  <2>7. QED
    BY <2>5, <2>6
<1>6. ASSUME TakeVisible
      PROVE  IInv'
  <2>1. PICK visible \in BOOLEAN :
          IF visible /\ sup.lifecycle \in Broken
          THEN pc' = "start" /\ Idle
          ELSE IF cur.exists THEN Request("visible", visible, "shown")
                             ELSE pc' = pc /\ Idle
    BY <1>6 DEF TakeVisible
  <2>2. /\ pc = "commands" /\ taken' \in 0..MaxCommands
        /\ UNCHANGED <<sup, cur, clears, faulted, shown>>
    BY <1>4, <1>6 DEF TakeVisible, Take
  <2>3. Running' = Running /\ Believed' = Believed
    BY <2>2 DEF Running, Believed
  <2>4. CASE Request("visible", visible, "shown")
    <3>1. TypeRest'
      BY <1>1, <2>2, <2>4 DEF Request, Pcs
    <3>2. "visible" \in Ops /\ visible \in Args /\ Fits("visible", visible)
          /\ "shown" \in AskedAt("visible")
      BY DEF Ops, Args, Fits, AskedAt
    <3>3. QED
      BY <1>2, <1>3, <2>2, <2>3, <2>4, <3>1, <3>2, AskKeeps DEF Start
  <2>5. CASE Idle /\ (pc' = pc \/ (pc' = "start" /\ sup.lifecycle \in Broken))
    <3>1. TypeRest'
      BY <1>1, <2>2, <2>5 DEF Pcs
    <3>2. Running' => pc' # "start"
      BY <2>2, <2>3, <2>5 DEF Running, Broken
    <3>3. QED
      BY <1>2, <1>3, <1>4, <2>2, <2>3, <2>5, <3>1, <3>2, SilenceKeeps, AskingPlaces
         DEF Idle, stream, history
  <2>6. QED
    BY <2>1, <2>4, <2>5
<1>7. ASSUME TakeToggle
      PROVE  IInv'
  <2>1. /\ pc = "commands" /\ taken' \in 0..MaxCommands /\ clears' = TRUE
        /\ UNCHANGED <<sup, cur, faulted, shown>>
        /\ IF sup.lifecycle \in Broken THEN pc' = "start" /\ Idle
                                       ELSE Request("status", TRUE, "toggle")
    BY <1>4, <1>7 DEF TakeToggle, host
  <2>2. Running' = Running /\ Believed' = Believed
    BY <2>1 DEF Running, Believed
  <2>3. CASE Request("status", TRUE, "toggle")
    <3>1. TypeRest'
      BY <1>1, <2>1, <2>3 DEF Request, Pcs
    <3>2. "status" \in Ops /\ TRUE \in Args /\ Fits("status", TRUE)
          /\ "toggle" \in AskedAt("status")
      BY DEF Ops, Args, Fits, AskedAt
    <3>3. QED
      BY <1>2, <1>3, <2>1, <2>2, <2>3, <3>1, <3>2, AskKeeps DEF Start
  <2>4. CASE Idle /\ pc' = "start" /\ sup.lifecycle \in Broken
    <3>1. TypeRest' /\ ~Running'
      BY <1>1, <2>1, <2>4 DEF Pcs, Running, Broken
    <3>2. QED
      BY <1>2, <1>4, <2>1, <2>4, <3>1, SilenceKeeps, AskingPlaces DEF Idle, stream, history
  <2>5. QED
    BY <2>1, <2>3, <2>4
<1>8. ASSUME TakeSave
      PROVE  IInv'
  <2>1. /\ pc = "commands" /\ taken' \in 0..MaxCommands
        /\ UNCHANGED <<sup, cur, clears, faulted, shown>>
        /\ IF Running THEN Request("save", TRUE, "saved") ELSE pc' = pc /\ Idle
    BY <1>4, <1>8 DEF TakeSave, Take
  <2>2. Running' = Running /\ Believed' = Believed
    BY <2>1 DEF Running, Believed
  <2>3. CASE Running
    <3>1. TypeRest'
      BY <1>1, <2>1, <2>3 DEF Request, Pcs
    <3>2. "save" \in Ops /\ TRUE \in Args /\ Fits("save", TRUE) /\ "saved" \in AskedAt("save")
      BY DEF Ops, Args, Fits, AskedAt
    <3>3. QED
      BY <1>2, <1>3, <2>1, <2>2, <2>3, <3>1, <3>2, AskKeeps DEF Start
  <2>4. CASE ~Running
    <3>1. TypeRest'
      BY <1>1, <2>1, <2>4
    <3>2. QED
      BY <1>2, <1>4, <2>1, <2>2, <2>4, <3>1, SilenceKeeps, AskingPlaces
         DEF Idle, stream, history
  <2>5. QED
    BY <2>3, <2>4
<1>9. ASSUME TakeRestore
      PROVE  IInv'
  <2>1. PICK state \in PluginStates :
          IF Running
          THEN Request("restore", state, "restored") /\ UNCHANGED sup
          ELSE /\ sup' = [sup EXCEPT !.checkpoint = state, !.saved = TRUE]
               /\ pc' = pc /\ Idle
    BY <1>9 DEF TakeRestore
  <2>2. pc = "commands" /\ taken' \in 0..MaxCommands /\ UNCHANGED <<cur, clears, faulted, shown>>
    BY <1>4, <1>9 DEF TakeRestore, Take
  <2>3. CASE Running
    <3>1. Request("restore", state, "restored") /\ UNCHANGED sup
      BY <2>1, <2>3
    <3>2. TypeRest'
      BY <1>1, <2>2, <3>1 DEF Request, Pcs
    <3>3. "restore" \in Ops /\ state \in Args /\ Fits("restore", state)
          /\ "restored" \in AskedAt("restore")
      BY DEF Ops, Args, Fits, AskedAt
    <3>4. Running' = Running /\ Believed' = Believed
      BY <3>1 DEF Running, Believed
    <3>5. QED
      BY <1>2, <1>3, <2>2, <2>3, <3>1, <3>2, <3>3, <3>4, AskKeeps DEF Start
  <2>4. CASE ~Running
    <3>1. /\ sup' = [sup EXCEPT !.checkpoint = state, !.saved = TRUE]
          /\ pc' = pc /\ Idle
      BY <2>1, <2>4
    <3>2. TypeRest' /\ ~Running'
      BY <1>1, <2>2, <2>4, <3>1 DEF Running
    <3>3. QED
      BY <1>2, <1>4, <2>2, <3>1, <3>2, SilenceKeeps, AskingPlaces DEF Idle, stream, history
  <2>5. QED
    BY <2>3, <2>4
<1>10. QED
  BY <1>5, <1>6, <1>7, <1>8, <1>9

\* A command hears its reply.
LEMMA AnswerKeeps ==
  IInv /\ (Activated \/ Saved \/ Restored \/ Toggle \/ Shown) => IInv'
<1> SUFFICES ASSUME IInv
             PROVE  Activated \/ Saved \/ Restored \/ Toggle \/ Shown => IInv'
  OBVIOUS
<1>1. TypeRest /\ edited \in BOOLEAN
  BY DEF IInv, Typed, TypeRest
<1>2. Answered => ~Waiting
  BY NotWaiting DEF IInv
<1>3. Answered /\ worker.alive /\ timeouts = 0 /\ Running /\ pc # "activated"
        /\ (pc = "restored" => ~Ok) =>
        /\ ~edited => worker.plugin = Believed
        /\ worker.active = sup.active /\ cur.active = sup.active
  BY <1>2, AtRest
<1>4. \A next : Done(next) =>
        /\ pc' = next /\ call' = NoCall /\ during' = {}
        /\ clears' = (clears /\ next # "commands")
        /\ UNCHANGED <<worker, requests, replies, timeouts, taken>>
  BY DEF Done, stream
<1>5. \A next : clears' = (clears /\ next # "commands") => clears' \in BOOLEAN
  BY <1>1 DEF TypeRest
<1>6. call.value \in PluginStates /\ (call.op = "restore" => call.arg \in PluginStates)
        /\ (call.op = "active" => call.arg \in BOOLEAN)
  BY DEF IInv, Talk, Fitting, Fits
<1>7. Asked
  BY DEF IInv
<1>8. Ok => Answered
  BY DEF Ok, Answered
<1> USE DEF TypeRest
<1>9. ASSUME Activated
      PROVE  IInv'
  <2>1. /\ pc = "activated" /\ Answered /\ Done("commands") /\ UNCHANGED <<faulted, shown, edited>>
        /\ cur' = (IF Ok THEN [cur EXCEPT !.active = call.arg] ELSE [cur EXCEPT !.ready = FALSE])
        /\ sup' = (IF cur'.ready /\ worker.alive THEN sup ELSE [sup EXCEPT !.lifecycle = "crashed"])
    BY <1>9 DEF Activated
  <2>2. call.op = "active" /\ call.arg = sup.active
    BY <1>7, <2>1, AskedPlaces DEF Asked
  <2>3. TypeRest'
    BY <1>1, <1>4, <1>5, <1>6, <2>1, <2>2 DEF Pcs, Lifecycles
  <2>4. Running' => Running /\ sup' = sup /\ Believed' = Believed
    BY <1>1, <2>1 DEF Running, Believed
  <2>5. worker.alive /\ timeouts = 0 => Ok /\ worker.active = call.arg
    BY <2>1, <2>2, Heard, AskingPlaces DEF Effect
  <2>6. worker.alive /\ timeouts = 0 /\ Running =>
          (~edited => worker.plugin = Believed)
    <3>1. ~Unheard
      BY <2>1 DEF Unheard
    <3>2. QED
      BY <3>1 DEF IInv, Beliefs
  <2>7. worker.alive /\ timeouts = 0 => cur'.active = sup.active
    BY <1>1, <2>1, <2>2, <2>5
  <2>8. QED
    BY <1>1, <1>2, <1>4, <2>1, <2>2, <2>3, <2>4, <2>5, <2>6, <2>7, SilenceKeeps, AskingPlaces
<1>10. ASSUME Saved
       PROVE  IInv'
  <2>1. /\ pc = "saved" /\ Answered /\ Done("commands") /\ UNCHANGED <<cur, faulted, shown>>
        /\ IF Ok THEN /\ sup' = [sup EXCEPT !.checkpoint = call.value, !.saved = TRUE]
                      /\ edited' = (worker.plugin # call.value)
                 ELSE UNCHANGED <<sup, edited>>
    BY <1>10 DEF Saved
  <2>2. TypeRest' /\ edited' \in BOOLEAN
    BY <1>1, <1>4, <1>5, <1>6, <2>1 DEF Pcs
  <2>3. Running' = Running /\ sup'.active = sup.active
    BY <1>1, <2>1 DEF Running
  <2>4. ~edited' /\ (~edited => worker.plugin = Believed) => worker.plugin = Believed'
    BY <1>1, <2>1 DEF Believed
  <2>5. QED
    BY <1>2, <1>3, <1>4, <2>1, <2>2, <2>3, <2>4, SilenceKeeps, AskingPlaces
<1>11. ASSUME Restored
       PROVE  IInv'
  <2>1. /\ pc = "restored" /\ Answered /\ Done("commands") /\ UNCHANGED <<cur, faulted, shown>>
        /\ IF Ok THEN /\ sup' = [sup EXCEPT !.checkpoint = call.arg, !.saved = TRUE]
                      /\ edited' = (worker.plugin # call.arg)
                 ELSE UNCHANGED <<sup, edited>>
    BY <1>11 DEF Restored
  <2>2. call.op = "restore"
    BY <1>7, <2>1, AskedPlaces
  <2>3. TypeRest' /\ edited' \in BOOLEAN
    BY <1>1, <1>4, <1>5, <1>6, <2>1, <2>2 DEF Pcs
  <2>4. Running' = Running /\ sup'.active = sup.active
    BY <1>1, <2>1 DEF Running
  <2>5. Ok => (~edited' => worker.plugin = Believed')
    BY <1>1, <2>1 DEF Believed
  <2>6. ~Ok => edited' = edited /\ Believed' = Believed
    BY <2>1 DEF Believed
  <2>7. worker.alive /\ timeouts = 0 /\ Running =>
          worker.active = sup.active /\ cur.active = sup.active
    BY <2>1 DEF IInv, Beliefs
  <2>8. QED
    BY <1>2, <1>3, <1>4, <2>1, <2>3, <2>4, <2>5, <2>6, <2>7, SilenceKeeps, AskingPlaces
<1>12. ASSUME Toggle
       PROVE  IInv'
  <2>1. /\ pc = "toggle" /\ Answered /\ cur' = [cur EXCEPT !.ready = Ok]
        /\ Request("visible", TRUE, "shown") /\ UNCHANGED <<sup, clears, faulted, shown, taken>>
    BY <1>12 DEF Toggle, Status, bridge
  <2>2. TypeRest' /\ cur'.active = cur.active
    BY <1>1, <2>1 DEF Request, Pcs, Ok
  <2>3. Running' = Running /\ Believed' = Believed
    BY <2>1 DEF Running, Believed
  <2>4. "visible" \in Ops /\ TRUE \in Args /\ Fits("visible", TRUE)
        /\ "shown" \in AskedAt("visible")
    BY DEF Ops, Args, Fits, AskedAt
  <2>5. QED
    BY <1>2, <1>3, <2>1, <2>2, <2>3, <2>4, AskKeeps DEF Start
<1>13. ASSUME Shown
       PROVE  IInv'
  <2>1. /\ pc = "shown" /\ Answered /\ UNCHANGED <<sup, cur, shown, edited>>
        /\ Done(IF clears /\ Ok THEN "recovered" ELSE "commands")
        /\ faulted' = (faulted /\ ~(clears /\ Ok))
    BY <1>13 DEF Shown, host
  <2>2. pc' \in {"recovered", "commands"}
    BY <1>4, <2>1
  <2>3. TypeRest'
    BY <1>1, <1>4, <1>5, <2>1, <2>2 DEF Pcs
  <2>4. Running' = Running /\ Believed' = Believed
    BY <2>1 DEF Running, Believed
  <2>5. QED
    BY <1>1, <1>2, <1>3, <1>4, <2>1, <2>2, <2>3, <2>4, SilenceKeeps, AskingPlaces
<1>14. QED
  BY <1>9, <1>10, <1>11, <1>12, <1>13

\* Starting a worker, from the launch to the chain that runs.
LEMMA StartKeeps ==
  IInv /\ (StartWorker \/ NotInstantiated \/ Instantiated \/ StartRestored
             \/ StartActivated \/ StartShown) => IInv'
<1> SUFFICES ASSUME IInv
             PROVE  StartWorker \/ NotInstantiated \/ Instantiated \/ StartRestored
                      \/ StartActivated \/ StartShown => IInv'
  OBVIOUS
<1>1. TypeRest /\ edited \in BOOLEAN
  BY DEF IInv, Typed, TypeRest
<1>2. Answered => ~Waiting
  BY NotWaiting DEF IInv
<1>3. Asked /\ Beliefs /\ Talk
  BY DEF IInv
<1>4. pc \in Start => ~Running
  BY <1>3 DEF Beliefs
<1>5. \A next : Done(next) =>
        /\ pc' = next /\ call' = NoCall /\ during' = {}
        /\ clears' = (clears /\ next # "commands")
        /\ UNCHANGED <<worker, requests, replies, timeouts, taken>>
  BY DEF Done, stream
<1>6. \A next : clears' = (clears /\ next # "commands") => clears' \in BOOLEAN
  BY <1>1 DEF TypeRest
<1>7. Unavailable => /\ sup' \in [lifecycle : Lifecycles, active : BOOLEAN,
                                  checkpoint : PluginStates, saved : BOOLEAN]
                     /\ ~Running'
  BY <1>1 DEF Unavailable, TypeRest, Lifecycles, Running
<1> USE DEF TypeRest
<1>8. ASSUME StartWorker
      PROVE  IInv'
  <2>1. PICK launched \in BOOLEAN :
          /\ worker' = [alive |-> launched, plugin |-> Default, active |-> FALSE]
          /\ cur' = [exists |-> FALSE, ready |-> launched, active |-> FALSE]
          /\ IF launched
             THEN /\ sup' = [sup EXCEPT !.lifecycle = "restarting"]
                  /\ requests' = <<[op |-> "instantiate", arg |-> TRUE, late |-> FALSE]>>
                  /\ call' = [op |-> "instantiate", arg |-> TRUE, outcome |-> "waiting",
                              value |-> Default]
                  /\ pc' = "instantiated" /\ clears' = clears
             ELSE /\ sup' = [sup EXCEPT !.lifecycle = "unavailable"]
                  /\ requests' = <<>>
                  /\ pc' = "commands" /\ clears' = FALSE
                  /\ UNCHANGED call
    BY <1>8 DEF StartWorker
  <2>2. /\ pc = "start" /\ replies' = <<>> /\ timeouts' = 0 /\ edited' = FALSE
        /\ UNCHANGED <<faulted, shown, taken, during>>
    BY <1>8 DEF StartWorker, bridge
  <2>3. /\ TypeRest' /\ ~Running' /\ timeouts' \in 0..MaxTimeouts /\ edited' \in BOOLEAN
        /\ worker' \in [alive : BOOLEAN, plugin : PluginStates, active : BOOLEAN]
        /\ worker'.plugin = Default /\ worker'.alive = launched
    <3>1. /\ sup' \in [lifecycle : Lifecycles, active : BOOLEAN, checkpoint : PluginStates,
                       saved : BOOLEAN]
          /\ ~Running'
      BY <1>1, <2>1 DEF Lifecycles, Running
    <3>2. cur' \in [exists : BOOLEAN, ready : BOOLEAN, active : BOOLEAN]
      BY <2>1
    <3>3. pc' \in Pcs /\ clears' \in BOOLEAN
      BY <1>1, <2>1 DEF Pcs
    <3>4. TypeRest'
      BY <1>1, <2>2, <3>1, <3>2, <3>3
    <3>5. /\ worker' \in [alive : BOOLEAN, plugin : PluginStates, active : BOOLEAN]
          /\ worker'.plugin = Default /\ worker'.alive = launched
      BY <2>1, DefaultAssumption
    <3>6. timeouts' \in 0..MaxTimeouts
      <4>1. 0 \in 0..MaxTimeouts
        BY BoundsAssumption
      <4>2. QED
        BY <2>2, <4>1
    <3>7. edited' \in BOOLEAN
      BY <2>2
    <3>8. QED
      BY <3>1, <3>4, <3>5, <3>6, <3>7
  <2>4. replies' \in Seq(Answers) /\ Len(replies') = 0 /\ during' \subseteq PluginStates
    BY <1>3, <2>2, EmptySeq DEF Talk
  <2>5. Beliefs'
    BY <2>1, <2>2, <2>3 DEF Beliefs
  <2>6. CASE launched
    <3> DEFINE m == [op |-> "instantiate", arg |-> TRUE, late |-> FALSE]
    <3>1. m \in Messages /\ m.op = "instantiate" /\ m.arg = TRUE /\ m.late = FALSE
      BY DEF Messages, Ops, Args
    <3>2. requests' = <<m>>
      BY <2>1, <2>6
    <3> HIDE DEF m
    <3>3. requests' \in Seq(Messages) /\ Len(requests') = 1 /\ requests'[1] = m
      BY <3>1, <3>2
    <3>4. /\ call' \in [op : Ops, arg : Args, outcome : {"none", "waiting", "ok", "failed"},
                        value : PluginStates]
          /\ call'.op = "instantiate" /\ call'.arg = TRUE /\ call'.outcome = "waiting"
          /\ pc' = "instantiated"
      <4>1. /\ call' = [op |-> "instantiate", arg |-> TRUE, outcome |-> "waiting",
                        value |-> Default]
            /\ pc' = "instantiated"
        BY <2>1, <2>6
      <4>2. "instantiate" \in Ops /\ TRUE \in Args
        BY DEF Ops, Args
      <4>3. QED
        BY <4>1, <4>2, DefaultAssumption
    <3>5. Waiting' /\ ~Answered' /\ ~Ok'
      BY <3>4 DEF Waiting, Answered, Ok
    <3>6. Counted'
      BY <2>2, <2>3, <2>4, <2>6, <3>3, <3>5 DEF Counted
    <3>7. Overtook' /\ Own'
      <4>1. \A i \in 1..Len(requests') : requests'[i] = m /\ ~(i <= 0)
        BY <3>3
      <4>2. Overtook'
        BY <2>2, <2>4, <4>1 DEF Overtook
      <4>3. Own'
        <5>1. \A i \in 1..Len(requests') : /\ requests'[i].op = call'.op
                                           /\ requests'[i].arg = call'.arg
                                           /\ ~requests'[i].late
          BY <3>1, <3>4, <4>1
        <5>2. QED
          BY <2>4, <5>1 DEF Own
      <4>4. QED
        BY <4>2, <4>3
    <3>8. Fitting'
      BY <3>1, <3>3, <3>4 DEF Fitting, Fits
    <3>9. Effects' /\ Current'
      BY <2>4, <3>4, <3>5 DEF Effects, Current
    <3>10. Talk'
      BY <2>3, <2>4, <3>3, <3>4, <3>6, <3>7, <3>8, <3>9 DEF Talk
    <3>11. Asked'
      BY <3>4, AskingPlaces DEF Asked, AskedAt, Ops
    <3>12. QED
      BY <2>3, <2>5, <3>10, <3>11, TypeParts, PTL DEF IInv
  <2>7. CASE ~launched
    <3>1. requests' = <<>> /\ call' = call /\ pc' = "commands"
      BY <2>1, <2>7
    <3>2. requests' \in Seq(Messages) /\ Len(requests') = 0
      BY <3>1, EmptySeq
    <3>3. ~Waiting
      BY <1>3, <2>2, NotWaiting, AskingPlaces
    <3>4. ~Waiting'
      BY <3>1, <3>3 DEF Waiting
    <3>5. Counted' /\ Overtook' /\ Own'
      BY <2>2, <2>3, <2>4, <2>7, <3>1, <3>2, <3>4 DEF Counted, Overtook, Own
    <3>6. Fitting' /\ Effects' /\ Current'
      BY <1>3, <2>3, <2>7, <3>1, <3>2 DEF Talk, Fitting, Fits, Effects, Current
    <3>7. Talk'
      BY <1>3, <2>3, <2>4, <3>1, <3>2, <3>5, <3>6 DEF Talk
    <3>8. Asked'
      BY <3>1, <3>4 DEF Asked, AskedAt, Ops
    <3>9. QED
      BY <2>3, <2>5, <3>7, <3>8, TypeParts, PTL DEF IInv
  <2>8. QED
    BY <2>6, <2>7
<1>9. ASSUME NotInstantiated
      PROVE  IInv'
  <2>1. /\ pc = "instantiated" /\ Answered /\ Unavailable
        /\ worker' = [worker EXCEPT !.alive = FALSE]
        /\ requests' = <<>> /\ replies' = <<>> /\ pc' = "commands"
        /\ call' = NoCall /\ clears' = FALSE
        /\ UNCHANGED <<cur, timeouts, faulted, shown, taken, during, edited>>
    BY <1>9 DEF NotInstantiated, bridge, history
  <2>2. TypeRest'
    BY <1>1, <1>7, <2>1 DEF Pcs
  <2>3. /\ worker' \in [alive : BOOLEAN, plugin : PluginStates, active : BOOLEAN]
        /\ ~worker'.alive
    BY <1>3, <2>1 DEF Talk
  <2>4. /\ requests' \in Seq(Messages) /\ Len(requests') = 0
        /\ replies' \in Seq(Answers) /\ Len(replies') = 0
    BY <2>1, EmptySeq
  <2>5. /\ call' \in [op : Ops, arg : Args, outcome : {"none", "waiting", "ok", "failed"},
                      value : PluginStates]
        /\ ~Waiting' /\ call'.op = "none"
    BY <2>1, DefaultAssumption DEF NoCall, Ops, Args, Waiting
  <2>6. timeouts' \in Nat
    BY <1>3, <2>1, BoundsAssumption DEF Talk
  <2>7. Counted' /\ Overtook' /\ Own'
    BY <2>1, <2>3, <2>4, <2>5, <2>6 DEF Counted, Overtook, Own
  <2>8. Fitting' /\ Effects' /\ Current'
    BY <2>1, <2>3, <2>4, <2>5 DEF Fitting, Fits, Effects, Current
  <2>9. Talk'
    BY <1>3, <2>1, <2>3, <2>4, <2>5, <2>7, <2>8 DEF Talk
  <2>10. Asked'
    BY <2>1, <2>5 DEF Asked, AskedAt, Ops
  <2>11. Beliefs'
    BY <1>7, <2>1, <2>3 DEF Beliefs
  <2>12. QED
    BY <2>2, <2>9, <2>10, <2>11, TypeParts, PTL DEF IInv
<1>10. ASSUME Instantiated
       PROVE  IInv'
  <2>1. /\ pc = "instantiated" /\ Answered /\ Ok /\ cur' = [cur EXCEPT !.exists = TRUE]
        /\ UNCHANGED <<sup, clears, faulted, shown, taken>>
        /\ IF sup.saved THEN Request("restore", sup.checkpoint, "startRestored")
                        ELSE Request("active", sup.active, "startActivated")
    BY <1>10 DEF Instantiated, bridge
  <2>2. ~Running' /\ Believed' = Believed
    BY <1>4, <2>1 DEF Running, Believed, Start
  <2>3. worker.alive /\ timeouts = 0 /\ ~edited => worker.plugin = Default
    BY <1>3, <2>1 DEF Beliefs
  <2>4. CASE sup.saved
    <3>1. Request("restore", sup.checkpoint, "startRestored")
      BY <2>1, <2>4
    <3>2. TypeRest'
      BY <1>1, <2>1, <3>1 DEF Request, Pcs
    <3>3. "restore" \in Ops /\ sup.checkpoint \in Args /\ Fits("restore", sup.checkpoint)
          /\ "startRestored" \in AskedAt("restore")
      BY <1>1 DEF Ops, Args, Fits, AskedAt
    <3>4. QED
      BY <1>2, <2>1, <2>2, <2>4, <3>1, <3>2, <3>3, AskKeeps
  <2>5. CASE ~sup.saved
    <3>1. Request("active", sup.active, "startActivated")
      BY <2>1, <2>5
    <3>2. TypeRest'
      BY <1>1, <2>1, <3>1 DEF Request, Pcs
    <3>3. "active" \in Ops /\ sup.active \in Args /\ Fits("active", sup.active)
          /\ "startActivated" \in AskedAt("active")
      BY <1>1 DEF Ops, Args, Fits, AskedAt
    <3>4. Believed = Default
      BY <2>5 DEF Believed
    <3>5. QED
      BY <1>2, <2>1, <2>2, <2>3, <3>1, <3>2, <3>3, <3>4, AskKeeps
  <2>6. QED
    BY <1>1, <2>4, <2>5
<1>11. ASSUME StartRestored
       PROVE  IInv'
  <2>1. /\ pc = "startRestored" /\ Answered /\ cur' = cur
        /\ IF Ok THEN /\ Request("active", sup.active, "startActivated")
                      /\ UNCHANGED <<sup, clears, faulted, shown, taken>>
                 ELSE Unavailable /\ Done("commands") /\ UNCHANGED <<faulted, shown, edited>>
    BY <1>11 DEF StartRestored, bridge
  <2>2. CASE Ok
    <3>1. Request("active", sup.active, "startActivated") /\ UNCHANGED sup
      BY <2>1, <2>2
    <3>2. TypeRest'
      BY <1>1, <2>1, <2>2 DEF Request, Pcs
    <3>3. "active" \in Ops /\ sup.active \in Args /\ Fits("active", sup.active)
          /\ "startActivated" \in AskedAt("active")
      BY <1>1 DEF Ops, Args, Fits, AskedAt
    <3>4. ~Running' /\ Believed' = Believed
      BY <1>4, <2>1, <3>1 DEF Running, Believed, Start
    <3>5. call.op = "restore" /\ sup.saved /\ call.arg = sup.checkpoint
      BY <1>3, <2>1, AskedPlaces DEF Asked
    <3>6. worker.alive /\ timeouts = 0 => (~edited => worker.plugin = Believed)
      <4>1. worker.alive /\ timeouts = 0 => Effect(Ok)
        BY <2>1, Heard, AskingPlaces
      <4>2. QED
        BY <2>2, <3>5, <4>1 DEF Effect, Believed
    <3>7. QED
      BY <1>2, <2>1, <3>1, <3>2, <3>3, <3>4, <3>6, AskKeeps
  <2>3. CASE ~Ok
    <3>1. Unavailable /\ Done("commands") /\ UNCHANGED <<faulted, shown, edited>>
      BY <2>1, <2>3
    <3>2. TypeRest'
      BY <1>1, <1>5, <1>6, <1>7, <2>1, <3>1 DEF Pcs
    <3>3. QED
      BY <1>1, <1>2, <1>5, <1>7, <2>1, <3>1, <3>2, SilenceKeeps, AskingPlaces
  <2>4. QED
    BY <2>2, <2>3
<1>12. ASSUME StartActivated
       PROVE  IInv'
  <2>1. /\ pc = "startActivated" /\ Answered
        /\ cur' = (IF Ok THEN [cur EXCEPT !.active = call.arg] ELSE [cur EXCEPT !.ready = FALSE])
        /\ Request("visible", TRUE, "startShown")
        /\ UNCHANGED <<sup, clears, faulted, shown, taken>>
    BY <1>12 DEF StartActivated, bridge
  <2>2. call.op = "active" /\ call.arg = sup.active /\ call.arg \in BOOLEAN
    BY <1>1, <1>3, <2>1, AskedPlaces DEF Asked
  <2>3. TypeRest'
    BY <1>1, <2>1, <2>2 DEF Request, Pcs
  <2>4. ~Running' /\ Believed' = Believed
    BY <1>4, <2>1 DEF Running, Believed, Start
  <2>5. worker.alive /\ timeouts = 0 => Ok /\ worker.active = call.arg
    <3>1. worker.alive /\ timeouts = 0 => Effect(Ok)
      BY <2>1, Heard, AskingPlaces
    <3>2. QED
      BY <2>2, <3>1 DEF Effect
  <2>6. worker.alive /\ timeouts = 0 => cur'.active = sup.active
    BY <1>1, <2>1, <2>2, <2>5
  <2>7. worker.alive /\ timeouts = 0 => (~edited => worker.plugin = Believed)
    BY <1>3, <2>1 DEF Beliefs
  <2>8. "visible" \in Ops /\ TRUE \in Args /\ Fits("visible", TRUE)
        /\ "startShown" \in AskedAt("visible")
    BY DEF Ops, Args, Fits, AskedAt
  <2>9. QED
    BY <1>2, <2>1, <2>2, <2>3, <2>4, <2>5, <2>6, <2>7, <2>8, AskKeeps
<1>13. ASSUME StartShown
       PROVE  IInv'
  <2>1. /\ pc = "startShown" /\ Answered /\ UNCHANGED <<cur, shown, edited>>
        /\ sup' = [sup EXCEPT !.lifecycle = IF Ok THEN "running" ELSE "unavailable"]
        /\ Done(IF clears /\ Ok THEN "recovered" ELSE "commands")
        /\ faulted' = (faulted /\ ~(clears /\ Ok))
    BY <1>13 DEF StartShown
  <2>2. pc' \in {"recovered", "commands"}
    BY <1>5, <2>1
  <2>3. TypeRest'
    BY <1>1, <1>5, <1>6, <2>1, <2>2 DEF Pcs, Lifecycles
  <2>4. Believed' = Believed /\ sup'.active = sup.active
    BY <1>1, <2>1 DEF Believed
  <2>5. worker.alive /\ timeouts = 0 =>
          /\ ~edited => worker.plugin = Believed
          /\ worker.active = sup.active /\ cur.active = sup.active
    BY <1>3, <2>1 DEF Beliefs
  <2>6. QED
    BY <1>1, <1>2, <1>5, <2>1, <2>2, <2>3, <2>4, <2>5, SilenceKeeps, AskingPlaces
<1>14. QED
  BY <1>8, <1>9, <1>10, <1>11, <1>12, <1>13

\* The rest of the bridge's loop: the window, a block, its health.
LEMMA LoopKeeps ==
  IInv /\ (NoCommand \/ Look \/ LookAgain \/ SkipBlock \/ GoodBlock \/ BadBlock
             \/ LateBlock \/ Health \/ Checked) => IInv'
<1> SUFFICES ASSUME IInv
             PROVE  NoCommand \/ Look \/ LookAgain \/ SkipBlock \/ GoodBlock \/ BadBlock
                      \/ LateBlock \/ Health \/ Checked => IInv'
  OBVIOUS
<1>1. TypeRest /\ edited \in BOOLEAN /\ Asked
  BY DEF IInv, Typed, TypeRest
<1>2. pc \notin Asking \/ Answered => ~Waiting
  BY <1>1, NotWaiting
<1>3. ~Waiting /\ worker.alive /\ timeouts = 0 /\ Running /\ pc \notin {"activated", "restored"} =>
        /\ ~edited => worker.plugin = Believed
        /\ worker.active = sup.active /\ cur.active = sup.active
  BY AtRest
<1>4. \A next : Done(next) =>
        /\ pc' = next /\ call' = NoCall /\ during' = {}
        /\ clears' = (clears /\ next # "commands")
        /\ UNCHANGED <<worker, requests, replies, timeouts, taken>>
  BY DEF Done, stream
<1>5. \A next : clears' = (clears /\ next # "commands") => clears' \in BOOLEAN
  BY <1>1 DEF TypeRest
<1> USE DEF TypeRest
\* A step that asks for nothing leaves the stream, and the plugins' activity.
<1>6. ASSUME pc \in {"commands", "look", "block", "health", "recovered"},
             pc' \in {"commands", "look", "block", "health"}, TypeRest',
             UNCHANGED <<call, stream, history>>, cur' = cur,
             Running' => sup' = sup
      PROVE  IInv'
  <2>1. ~Waiting /\ pc' \notin Asking
    BY <1>2, <1>6, AskingPlaces
  <2>2. Running' => Running /\ Believed' = Believed
    BY <1>6 DEF Running, Believed
  <2>3. QED
    BY <1>1, <1>3, <1>6, <2>1, <2>2, SilenceKeeps DEF stream, history
\* A status: the supervisor stays, and so does what the processor has been told.
<1>7. ASSUME NEW next \in {"looked", "relooked", "checked"}, pc \notin Asking, Running,
             Request("status", TRUE, next), UNCHANGED <<sup, cur, clears, faulted, shown, taken>>
      PROVE  IInv'
  <2>1. ~Waiting /\ pc \notin {"activated", "restored"}
    BY <1>2, <1>7, AskingPlaces
  <2>2. Running' = Running /\ Believed' = Believed
    BY <1>7 DEF Running, Believed
  <2>3. TypeRest'
    BY <1>1, <1>7 DEF Request, Pcs
  <2>4. "status" \in Ops /\ TRUE \in Args /\ Fits("status", TRUE) /\ next \in AskedAt("status")
    BY DEF Ops, Args, Fits, AskedAt
  <2>5. QED
    BY <1>3, <1>7, <2>1, <2>2, <2>3, <2>4, AskKeeps DEF Start
<1>8. ASSUME pc \in {"looked", "relooked", "checked"}, Answered,
             cur' = [cur EXCEPT !.ready = Ok], sup' = sup, faulted' = faulted,
             shown' \in Lifecycles, edited' = edited,
             NEW next \in {"commands", "block", "health"}, Done(next)
      PROVE  IInv'
  <2>1. ~Waiting /\ pc' \notin Asking /\ pc' # "start"
    BY <1>2, <1>4, <1>8, AskingPlaces
  <2>2. Running' = Running /\ Believed' = Believed
    BY <1>8 DEF Running, Believed
  <2>3. cur' \in [exists : BOOLEAN, ready : BOOLEAN, active : BOOLEAN] /\ cur'.active = cur.active
    BY <1>1, <1>8 DEF Ok
  <2>4. TypeRest'
    BY <1>1, <1>4, <1>5, <1>8, <2>3 DEF Pcs
  <2>5. QED
    BY <1>1, <1>3, <1>4, <1>8, <2>1, <2>2, <2>3, <2>4, SilenceKeeps
<1>9. ASSUME NoCommand \/ SkipBlock \/ GoodBlock
      PROVE  IInv'
  <2>1. /\ pc \in {"commands", "block"} /\ pc' \in {"commands", "look", "health"}
        /\ UNCHANGED <<sup, cur, clears, call, stream, faulted, shown, taken, history>>
    BY <1>9 DEF NoCommand, SkipBlock, GoodBlock, host, bridge
  <2>2. TypeRest'
    BY <1>1, <2>1 DEF Pcs
  <2>3. QED
    BY <1>6, <2>1, <2>2
<1>10. ASSUME NEW here \in {"look", "recovered"}, NEW asked \in {"looked", "relooked"},
              NEW next \in {"block", "health"}, LookFrom(here, asked, next)
       PROVE  IInv'
  <2>1. CASE pc = here /\ Running /\ Request("status", TRUE, asked)
             /\ UNCHANGED <<host, clears, bridge>>
    BY <1>7, <2>1, AskingPlaces DEF host, bridge
  <2>2. CASE pc = here /\ pc' = next /\ UNCHANGED <<host, clears, call, stream, bridge, history>>
    <3>1. TypeRest'
      BY <1>1, <2>2 DEF Pcs, host, bridge
    <3>2. QED
      BY <1>6, <2>2, <3>1 DEF host
  <2>3. CASE pc = asked /\ Answered /\ Status /\ Done(next)
             /\ UNCHANGED <<sup, faulted, shown, edited>>
    BY <1>1, <1>8, <2>3 DEF Status
  <2>4. QED
    BY <1>10, <2>1, <2>2, <2>3 DEF LookFrom
<1>11. ASSUME BadBlock \/ LateBlock
       PROVE  IInv'
  <2>1. /\ pc = "block" /\ faulted' = TRUE /\ shown' = "crashed" /\ pc' = "commands"
        /\ UNCHANGED <<cur, clears, call, stream, taken, history>>
        /\ sup' = (IF Running THEN [sup EXCEPT !.lifecycle = "crashed"] ELSE sup) \/ sup' = sup
    BY <1>11 DEF BadBlock, LateBlock, Fault
  <2>2. TypeRest' /\ (Running' => sup' = sup)
    BY <1>1, <2>1 DEF Pcs, Lifecycles, Running
  <2>3. QED
    BY <1>6, <2>1, <2>2
<1>12. ASSUME Health
       PROVE  IInv'
  <2>1. pc = "health" /\ cur' = cur
    BY <1>12 DEF Health
  <2>2. CASE Running /\ ~Lost
    BY <1>7, <1>12, <2>1, <2>2, AskingPlaces DEF Health, bridge
  <2>3. CASE ~(Running /\ ~Lost)
    <3>1. /\ sup' = (IF Lost THEN [sup EXCEPT !.lifecycle = "crashed"] ELSE sup)
          /\ shown' = sup'.lifecycle /\ pc' = "commands" /\ clears' = FALSE
          /\ UNCHANGED <<call, stream, faulted, taken, history>>
      BY <1>12, <2>3 DEF Health
    <3>2. sup' \in [lifecycle : Lifecycles, active : BOOLEAN, checkpoint : PluginStates,
                   saved : BOOLEAN]
          /\ (Running' => sup' = sup)
      BY <1>1, <3>1 DEF Lifecycles, Running
    <3>3. TypeRest'
      BY <1>1, <2>1, <3>1, <3>2 DEF Pcs
    <3>4. QED
      BY <1>6, <2>1, <3>1, <3>2, <3>3
  <2>4. QED
    BY <2>2, <2>3
<1>13. ASSUME Checked
       PROVE  IInv'
  <2>1. /\ pc = "checked" /\ Answered /\ Status /\ Done("commands")
        /\ shown' = sup.lifecycle /\ UNCHANGED <<sup, faulted, edited>>
    BY <1>13 DEF Checked
  <2>2. shown' \in Lifecycles
    BY <1>1, <2>1
  <2>3. QED
    BY <1>8, <2>1, <2>2 DEF Status
<1>14. Look => IInv'
  BY <1>10 DEF Look
<1>15. LookAgain => IInv'
  BY <1>10 DEF LookAgain
<1>16. QED
  BY <1>9, <1>11, <1>12, <1>13, <1>14, <1>15

-----------------------------------------------------------------------------
(* The invariant and what follows from it. *)

LEMMA InitInv == Init => IInv
<1> SUFFICES ASSUME Init
             PROVE  IInv
  OBVIOUS
<1>1. PICK started \in BOOLEAN :
        /\ sup = [lifecycle |-> IF started THEN "running" ELSE "unavailable",
                  active |-> FALSE, checkpoint |-> Default, saved |-> FALSE]
        /\ cur = [exists |-> started, ready |-> started, active |-> FALSE]
        /\ worker = [alive |-> started, plugin |-> Default, active |-> FALSE]
        /\ shown = sup.lifecycle
  BY DEF Init
<1>2. /\ pc = "commands" /\ clears = FALSE /\ call = NoCall
      /\ requests = <<>> /\ replies = <<>> /\ timeouts = 0 /\ faulted = FALSE /\ taken = 0
      /\ during = {} /\ edited = FALSE
  BY DEF Init
<1>3. TypeRest
  <2>1. sup \in [lifecycle : Lifecycles, active : BOOLEAN, checkpoint : PluginStates,
                 saved : BOOLEAN]
    BY <1>1, DefaultAssumption DEF Lifecycles
  <2>2. sup.lifecycle \in Lifecycles
    BY <2>1
  <2>3. cur \in [exists : BOOLEAN, ready : BOOLEAN, active : BOOLEAN]
    BY <1>1
  <2>4. 0 \in 0..MaxCommands
    BY BoundsAssumption
  <2>5. pc \in Pcs /\ clears \in BOOLEAN /\ faulted \in BOOLEAN
    BY <1>2 DEF Pcs
  <2>6. QED
    BY <1>1, <1>2, <2>1, <2>2, <2>3, <2>4, <2>5 DEF TypeRest
<1>4. /\ requests \in Seq(Messages) /\ Len(requests) = 0
      /\ replies \in Seq(Answers) /\ Len(replies) = 0
  BY <1>2, EmptySeq
<1>5. /\ call \in [op : Ops, arg : Args, outcome : {"none", "waiting", "ok", "failed"},
                   value : PluginStates]
      /\ ~Waiting /\ call.op = "none"
  BY <1>2, DefaultAssumption DEF NoCall, Ops, Args, Waiting
<1>6. /\ worker \in [alive : BOOLEAN, plugin : PluginStates, active : BOOLEAN]
      /\ worker.plugin = Default /\ worker.active = FALSE
  BY <1>1, DefaultAssumption
<1>7. Counted /\ Overtook /\ Own
  BY <1>2, <1>4, <1>5 DEF Counted, Overtook, Own
<1>8. Fitting /\ Effects /\ Current
  BY <1>2, <1>4, <1>5, AskingPlaces DEF Fitting, Fits, Effects, Current
<1>9. Talk
  <2>1. timeouts \in 0..MaxTimeouts
    <3>1. 0 \in 0..MaxTimeouts
      BY BoundsAssumption
    <3>2. QED
      BY <1>2, <3>1
  <2>2. during \subseteq PluginStates /\ edited \in BOOLEAN
    BY <1>2
  <2>3. QED
    BY <1>4, <1>5, <1>6, <1>7, <1>8, <2>1, <2>2 DEF Talk
<1>10. Asked
  BY <1>2, <1>5 DEF Asked, AskedAt, Ops
<1>11. Beliefs
  BY <1>1, <1>2, <1>6 DEF Beliefs, Believed, Start
<1>12. QED
  BY <1>3, <1>9, <1>10, <1>11, TypeParts DEF IInv

\* One step per kind of action; the lemmas above have one per action.
LEMMA StepInv == IInv /\ [Next]_vars => IInv'
<1> SUFFICES ASSUME IInv, [Next]_vars
             PROVE  IInv'
  OBVIOUS
<1>1. CASE UNCHANGED vars
  <2>1. UNCHANGED <<sup, cur, pc, clears, call, worker, requests, replies, timeouts, faulted,
                    shown, taken, during, edited>>
    BY <1>1 DEF vars, host, stream, bridge, history
  <2>2. Typed'
    BY <2>1 DEF IInv, Typed
  <2>3. Talk'
    BY <2>1 DEF IInv, Talk, Counted, Overtook, Own, Fitting, Effects, Effect, Current, Waiting,
                Answered, Ok
  <2>4. Asked' /\ Beliefs'
    BY <2>1 DEF IInv, Asked, Beliefs, Believed, Unheard, Running, Waiting
  <2>5. QED
    BY <2>2, <2>3, <2>4 DEF IInv
<1>2. CASE TakeActive \/ TakeVisible \/ TakeToggle \/ TakeSave \/ TakeRestore
  BY <1>2, CommandKeeps
<1>3. CASE Activated \/ Saved \/ Restored \/ Toggle \/ Shown
  BY <1>3, AnswerKeeps
<1>4. CASE StartWorker \/ NotInstantiated \/ Instantiated \/ StartRestored
           \/ StartActivated \/ StartShown
  BY <1>4, StartKeeps
<1>5. CASE NoCommand \/ Look \/ LookAgain \/ SkipBlock \/ GoodBlock \/ BadBlock
           \/ LateBlock \/ Health \/ Checked
  BY <1>5, LoopKeeps
<1>6. CASE Receive
  BY <1>6, ReceiveKeeps
<1>7. CASE GiveUp
  BY <1>7, GiveUpKeeps
<1>8. CASE Serve
  BY <1>8, ServeKeeps
<1>9. CASE PluginChanges
  BY <1>9, PluginChangesKeeps
<1>10. CASE WorkerDies
  BY <1>10, WorkerDiesKeeps
<1>11. QED
  BY <1>1, <1>2, <1>3, <1>4, <1>5, <1>6, <1>7, <1>8, <1>9, <1>10 DEF Next, Bridge

\* Every state of a run satisfies the inductive invariant.
THEOREM Invariance == Spec => []IInv
<1>1. Init => IInv
  BY InitInv
<1>2. IInv /\ [Next]_vars => IInv'
  BY StepInv
<1>3. QED
  BY <1>1, <1>2, PTL DEF Spec

(* What the application holds is what a restart would restore. *)
Agreed == confirmed = Held

\* Only a save, a restore and the calls that keep them touch either side.
LEMMA AgreedStep == IInv /\ Agreed /\ [Next]_vars => Agreed'
<1> SUFFICES ASSUME IInv, Agreed, [Next]_vars
             PROVE  confirmed' = Held'
  BY DEF Agreed
<1>1. /\ sup \in [lifecycle : Lifecycles, active : BOOLEAN, checkpoint : PluginStates,
                  saved : BOOLEAN]
      /\ confirmed = Held
  BY DEF IInv, Typed, Agreed
<1> USE <1>1 DEF Held
<1>2. CASE UNCHANGED vars
  BY <1>2 DEF vars, host, bridge
<1>3. CASE Serve \/ PluginChanges \/ WorkerDies \/ Receive \/ GiveUp
  BY <1>3 DEF Serve, PluginChanges, WorkerDies, Receive, GiveUp, host, bridge
<1>4. CASE TakeActive \/ TakeVisible \/ TakeToggle
  BY <1>4 DEF TakeActive, TakeVisible, TakeToggle, Take, host
<1>5. CASE TakeSave
  BY <1>5 DEF TakeSave, Take
<1>6. CASE TakeRestore
  <2>1. PICK state \in PluginStates :
           \/ UNCHANGED <<sup, confirmed>>
           \/ /\ sup' = [sup EXCEPT !.checkpoint = state, !.saved = TRUE]
              /\ confirmed' = state
    BY <1>6 DEF TakeRestore
  <2>2. QED
    BY <2>1
<1>7. CASE Saved
  BY <1>7 DEF Saved
<1>8. CASE Restored
  <2>1. \/ UNCHANGED <<sup, confirmed>>
        \/ /\ sup' = [sup EXCEPT !.checkpoint = call.arg, !.saved = TRUE]
           /\ confirmed' = call.arg
    BY <1>8 DEF Restored
  <2>2. QED
    BY <2>1
<1>9. CASE Activated \/ Toggle \/ Shown
  BY <1>9 DEF Activated, Toggle, Shown, host, bridge
<1>10. CASE StartWorker \/ NotInstantiated \/ Instantiated \/ StartRestored
            \/ StartActivated \/ StartShown
  BY <1>10 DEF StartWorker, NotInstantiated, Instantiated, StartRestored, StartActivated,
               StartShown, Unavailable, bridge
<1>11. CASE NoCommand \/ Look \/ LookAgain \/ SkipBlock \/ GoodBlock
  BY <1>11 DEF NoCommand, Look, LookAgain, LookFrom, SkipBlock, GoodBlock, host, bridge
<1>12. CASE BadBlock \/ LateBlock \/ Health \/ Checked
  BY <1>12 DEF BadBlock, LateBlock, Fault, Health, Checked, bridge
<1>13. QED
  BY <1>2, <1>3, <1>4, <1>5, <1>6, <1>7, <1>8, <1>9, <1>10, <1>11, <1>12 DEF Next, Bridge

LEMMA Agreement == Spec => []Agreed
<1>1. Init => Agreed
  BY DEF Init, Agreed, Held
<1>2. QED
  BY <1>1, AgreedStep, Invariance, PTL DEF Spec

\* Every variable keeps its type (CarlaSupervisor's state in carla_subprocess.rs).
THEOREM TypeCorrect == Spec => []TypeOK
<1>1. IInv /\ Agreed => TypeOK
  <2> SUFFICES ASSUME IInv, Agreed
               PROVE  TypeOK
    OBVIOUS
  <2>1. sup.checkpoint \in PluginStates
    BY DEF IInv, Typed
  <2>2. confirmed \in PluginStates \cup {NoState}
    BY <2>1 DEF Agreed, Held
  <2>3. QED
    BY <2>2 DEF IInv, Typed, TypeOK
<1>2. QED
  BY <1>1, Invariance, Agreement, PTL

(* A chain that runs is in the state its supervisor believes, however often it *)
(* crashed, was restarted, refused a request or answered too late: the effect   *)
(* of start_generation, set_active, restore_state and the poll of health.      *)
THEOREM RunningChainsAreRestored == Spec => []RunningIsRestored
<1>1. IInv => RunningIsRestored
  <2> SUFFICES ASSUME IInv, pc = "commands", Running, worker.alive, InStep
               PROVE  /\ ~edited => worker.plugin = Believed
                      /\ worker.active = sup.active /\ cur.active = sup.active
    BY DEF RunningIsRestored, Believed
  <2>1. ~Waiting
    BY NotWaiting, AskingPlaces DEF IInv
  <2>2. timeouts = 0
    <3>1. Len(requests) = 0 /\ Len(replies) = 0
      BY EmptySeq DEF InStep
    <3>2. timeouts \in Nat
      BY BoundsAssumption DEF IInv, Talk
    <3>3. QED
      BY <2>1, <3>1, <3>2 DEF IInv, Talk, Counted
  <2>3. QED
    BY <2>1, <2>2, AtRest
<1>2. QED
  BY <1>1, Invariance, PTL

(* A save gives the application a state the plugins were in while it was under *)
(* way, or what it held before, and what it holds is what a restart restores:   *)
(* a late answer to an earlier save is neither (save_state, restore_state).     *)
THEOREM SavesStayNewOrHeld == Spec => SavesAreNewOrHeld
<1>1. IInv /\ Agreed /\ Agreed' /\ [Next]_vars =>
        [/\ confirmed' = Held'
         /\ pc = "saved" /\ pc' = "commands" =>
              IF Ok THEN confirmed' \in during ELSE confirmed' = confirmed]_vars
  <2> SUFFICES ASSUME IInv, Agreed, Agreed', Next, pc = "saved", pc' = "commands"
               PROVE  IF Ok THEN confirmed' \in during ELSE confirmed' = confirmed
    BY DEF Agreed
  <2>1. Saved
    BY DEF Next, Bridge, Take, TakeActive, TakeVisible, TakeToggle, TakeSave, TakeRestore,
           Activated, Restored, Toggle, Shown, StartWorker, NotInstantiated, Instantiated,
           StartRestored, StartActivated, StartShown, NoCommand, Look, LookAgain, LookFrom,
           SkipBlock, GoodBlock, BadBlock, LateBlock, Health, Checked, Receive, GiveUp,
           Serve, PluginChanges, WorkerDies
  <2>2. CASE Ok
    <3>1. sup' = [sup EXCEPT !.checkpoint = call.value, !.saved = TRUE]
      BY <2>1, <2>2 DEF Saved
    <3>2. sup'.checkpoint = call.value /\ sup'.saved
      BY <3>1 DEF IInv, Typed
    <3>3. confirmed' = call.value
      BY <3>2 DEF Agreed, Held
    <3>4. QED
      BY <2>2, <3>3 DEF IInv, Talk, Current
  <2>3. CASE ~Ok
    BY <2>1, <2>3 DEF Saved, Agreed, Held
  <2>4. QED
    BY <2>2, <2>3
<1>2. QED
  BY <1>1, Invariance, Agreement, PTL DEF Spec, SavesAreNewOrHeld
=============================================================================
