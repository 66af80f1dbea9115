---------------------------- MODULE LoopGroupProofs ----------------------------
(***************************************************************************)
(* Proofs about BasicLoop and LoopGroup for any loops, sessions, block     *)
(* sizes and limits: what each operation makes of a loop, that triggers    *)
(* reach every follower, that the waves settle while there are no more     *)
(* loops than the wave limit, and that followers told to transit at        *)
(* triggers only stay on the grid of their source.                         *)
(***************************************************************************)
EXTENDS LoopGroup, FiniteSetTheorems, SequenceTheorems,
        WellFoundedInduction, TLAPS

-----------------------------------------------------------------------------
(* One loop.                                                               *)

\* The records of loops, with the planned transitions drawn from a given set.
LoopsWith(Queues) ==
  [mode : Modes, pos : Nat, len : Nat, planned : Queues,
   triggering : BOOLEAN, already : BOOLEAN, snap : Snapshots]

\* A playing loop has content.
HasContent(l) == IsPlaying(l.mode) => l.len > 0

\* What no operation but a trigger, a refresh or an advance disturbs.
KeepsMarks(l, m) ==
  /\ l.triggering => m.triggering
  /\ m.already = l.already /\ m.snap = l.snap /\ m.planned = l.planned

\* update_poi's first act stops a loop without content and disturbs nothing else.
LEMMA StopIfEmptyFacts ==
  ASSUME NEW Queues, NEW l \in LoopsWith(Queues)
  PROVE  /\ StopIfEmpty(l) \in LoopsWith(Queues)
         /\ HasContent(StopIfEmpty(l))
         /\ KeepsMarks(l, StopIfEmpty(l))
         /\ StopIfEmpty(l).triggering = l.triggering
<1> DEFINE stopped == [l EXCEPT !.mode = "Stopped", !.pos = 0]
<1>1. CASE IsPlaying(l.mode) /\ l.len = 0
  <2>1. StopIfEmpty(l) = stopped
    BY <1>1 DEF StopIfEmpty
  <2>2. stopped \in LoopsWith(Queues) /\ HasContent(stopped)
    BY DEF LoopsWith, HasContent, IsPlaying, Modes
  <2>3. KeepsMarks(l, stopped) /\ stopped.triggering = l.triggering
    BY DEF LoopsWith, KeepsMarks
  <2>4. QED
    BY <2>1, <2>2, <2>3
<1>2. CASE ~(IsPlaying(l.mode) /\ l.len = 0)
  <2>1. StopIfEmpty(l) = l /\ KeepsMarks(l, l)
    BY <1>2 DEF StopIfEmpty, KeepsMarks
  <2>2. HasContent(l)
    BY <1>2 DEF HasContent, LoopsWith
  <2>3. QED
    BY <2>1, <2>2
<1>3. QED
  BY <1>1, <1>2

\* A transition leads to a loop of its mode or to a stopped one.
LEMMA HandleTransitionFacts ==
  ASSUME NEW Queues, NEW l \in LoopsWith(Queues), NEW mode \in Modes
  PROVE  /\ HandleTransition(l, mode) \in LoopsWith(Queues)
         /\ HasContent(l) => HasContent(HandleTransition(l, mode))
         /\ KeepsMarks(l, HandleTransition(l, mode))
<1>1. CASE l.mode = mode
  BY <1>1 DEF HandleTransition, KeepsMarks
<1>2. CASE l.mode # mode
  <2> DEFINE pos == IF IsPlaying(l.mode) /\ IsPlaying(mode) THEN l.pos ELSE 0
             made == [l EXCEPT !.mode = mode, !.pos = pos,
                        !.len = IF mode = "Recording" THEN 0 ELSE @,
                        !.triggering = @ \/ (IsPlaying(mode) /\ pos = 0)]
  <2>1. HandleTransition(l, mode) = StopIfEmpty(made)
    BY <1>2 DEF HandleTransition
  <2>2. made \in LoopsWith(Queues) /\ KeepsMarks(l, made)
    BY DEF LoopsWith, KeepsMarks
  <2> HIDE DEF made
  <2>3. QED
    BY <2>1, <2>2, StopIfEmptyFacts DEF KeepsMarks
<1>3. QED
  BY <1>1, <1>2

\* A position may be any, and a length takes the position with it.
LEMMA SetPositionFacts ==
  ASSUME NEW Queues, NEW l \in LoopsWith(Queues), NEW p \in Nat
  PROVE  /\ SetPosition(l, p) \in LoopsWith(Queues)
         /\ HasContent(l) => HasContent(SetPosition(l, p))
         /\ KeepsMarks(l, SetPosition(l, p))
<1>1. CASE p = l.pos
  BY <1>1 DEF SetPosition, KeepsMarks
<1>2. CASE p # l.pos
  <2>1. [l EXCEPT !.pos = p] \in LoopsWith(Queues) /\ KeepsMarks(l, [l EXCEPT !.pos = p])
    BY DEF LoopsWith, KeepsMarks
  <2>2. QED
    BY <1>2, <2>1, StopIfEmptyFacts DEF SetPosition, KeepsMarks
<1>3. QED
  BY <1>1, <1>2

LEMMA SetLengthFacts ==
  ASSUME NEW Queues, NEW l \in LoopsWith(Queues), NEW n \in Nat
  PROVE  /\ SetLength(l, n) \in LoopsWith(Queues)
         /\ HasContent(l) => HasContent(SetLength(l, n))
         /\ KeepsMarks(l, SetLength(l, n))
<1>1. CASE n = l.len
  BY <1>1 DEF SetLength, KeepsMarks
<1>2. CASE n # l.len
  <2> DEFINE pos == IF l.pos < n THEN l.pos ELSE IF n = 0 THEN 0 ELSE l.pos % n
             made == [l EXCEPT !.len = n, !.pos = pos]
  <2>1. SetLength(l, n) = StopIfEmpty(made)
    BY <1>2 DEF SetLength, LoopsWith
  <2>2. pos \in Nat
    BY DEF LoopsWith
  <2> HIDE DEF pos
  <2>3. made \in LoopsWith(Queues) /\ KeepsMarks(l, made)
    BY <2>2 DEF LoopsWith, KeepsMarks
  <2> HIDE DEF made
  <2>4. QED
    BY <2>1, <2>3, StopIfEmptyFacts DEF KeepsMarks
<1>3. QED
  BY <1>1, <1>2

\* A function on an initial segment of the numbers is a sequence, and conversely.
LEMMA SeqOfFunction ==
  ASSUME NEW S, NEW n \in Nat, NEW f \in [1..n -> S]
  PROVE  f \in Seq(S) /\ Len(f) = n /\ DOMAIN f = 1..n
<1>1. f \in Seq(S)
  BY SeqDef
<1>2. Len(f) \in Nat /\ DOMAIN f = 1..Len(f)
  BY <1>1, LenProperties
<1>3. QED
  BY <1>1, <1>2

LEMMA FunctionOfSeq ==
  ASSUME NEW S, NEW q \in Seq(S)
  PROVE  /\ Len(q) \in Nat /\ DOMAIN q = 1..Len(q) /\ q \in [1..Len(q) -> S]
         /\ \A i \in 1..Len(q) : q[i] \in S
         /\ q # <<>> => Len(q) > 0
  BY LenProperties, ElementOfSeq, EmptySeq

\* One trigger less to wait for.
LEMMA OneLess ==
  ASSUME NEW p \in Plans, p.delay # 0
  PROVE  LET less == [p EXCEPT !.delay = @ - 1]
         IN less \in Plans /\ less.delay = p.delay - 1
  BY DEF Plans

\* What a trigger takes off every plan, when none is due.
LEMMA CountDownFacts ==
  ASSUME NEW q \in Seq(Plans), Ascending(q), q = <<>> \/ q[1].delay # 0
  PROVE  CountDown(q) \in Seq(Plans) /\ Ascending(CountDown(q))
<1> DEFINE c == CountDown(q)
<1>1. /\ DOMAIN q = 1..Len(q) /\ Len(q) \in Nat
      /\ q # <<>> => Len(q) > 0
      /\ \A i \in 1..Len(q) : q[i] \in Plans
  BY FunctionOfSeq
<1>2. \A i \in 1..Len(q) : q[i].delay \in Nat \ {0}
  BY <1>1 DEF Ascending, Plans
<1>3. /\ DOMAIN c = 1..Len(q)
      /\ \A i \in 1..Len(q) : c[i] \in Plans /\ c[i].delay = q[i].delay - 1
  BY <1>1, <1>2, OneLess DEF CountDown
<1>4. c \in Seq(Plans)
  <2>1. c \in [1..Len(q) -> Plans]
    BY <1>1, <1>3 DEF CountDown
  <2>2. QED
    BY <1>1, <2>1, SeqOfFunction
<1>5. Ascending(c)
  BY <1>1, <1>2, <1>3 DEF Ascending
<1>6. QED
  BY <1>4, <1>5

\* The same when the first is due: only that one is.
LEMMA CountDownDue ==
  ASSUME NEW q \in Seq(Plans), Ascending(q), q # <<>>, q[1].delay = 0
  PROVE  Tail(CountDown(q)) \in Seq(Plans) /\ Ascending(Tail(CountDown(q)))
<1> DEFINE c == CountDown(q)
           d == [i \in 1..(Len(q) - 1) |-> [q[i + 1] EXCEPT !.delay = @ - 1]]
<1>1. /\ DOMAIN q = 1..Len(q) /\ Len(q) \in Nat /\ Len(q) > 0
      /\ \A i \in 1..Len(q) : q[i] \in Plans
  BY FunctionOfSeq
<1>2. \A i \in 2..Len(q) : q[i].delay \in Nat \ {0}
  BY <1>1 DEF Ascending, Plans
<1>3. Tail(c) = d
  <2>1. c = [i \in 1..Len(q) |-> [q[i] EXCEPT !.delay = @ - 1]]
    BY <1>1 DEF CountDown
  <2> HIDE DEF c
  <2>2. c \in [1..Len(q) -> {c[i] : i \in 1..Len(q)}]
    BY <1>1, <2>1
  <2>3. c \in Seq({c[i] : i \in 1..Len(q)}) /\ Len(c) = Len(q) /\ c # <<>>
    BY <1>1, <2>2, SeqOfFunction, EmptySeq
  <2>4. Len(Tail(c)) = Len(q) - 1 /\ \A i \in 1..(Len(q) - 1) : Tail(c)[i] = c[i + 1]
    BY <2>3, HeadTailProperties
  <2>5. Tail(c) \in Seq({c[i] : i \in 1..Len(q)})
    BY <2>3, HeadTailProperties
  <2>6. Tail(c) \in [1..(Len(q) - 1) -> {c[i] : i \in 1..Len(q)}]
    BY <2>4, <2>5, FunctionOfSeq
  <2>7. \A i \in 1..(Len(q) - 1) : c[i + 1] = [q[i + 1] EXCEPT !.delay = @ - 1]
    BY <1>1, <2>1
  <2>8. QED
    BY <2>4, <2>6, <2>7
<1>4. \A i \in 1..(Len(q) - 1) : d[i] \in Plans /\ d[i].delay = q[i + 1].delay - 1
  <2> SUFFICES ASSUME NEW i \in 1..(Len(q) - 1)
               PROVE  d[i] \in Plans /\ d[i].delay = q[i + 1].delay - 1
    OBVIOUS
  <2>1. i + 1 \in 1..Len(q) /\ i + 1 \in 2..Len(q) /\ d[i] = [q[i + 1] EXCEPT !.delay = @ - 1]
    BY <1>1
  <2>2. q[i + 1] \in Plans /\ q[i + 1].delay \in Nat \ {0}
    BY <1>1, <1>2, <2>1
  <2> HIDE DEF d
  <2>3. QED
    BY <2>1, <2>2, OneLess
<1>5. d \in Seq(Plans) /\ DOMAIN d = 1..(Len(q) - 1)
  <2>1. d \in [1..(Len(q) - 1) -> Plans]
    BY <1>4
  <2>2. QED
    BY <1>1, <2>1, SeqOfFunction
<1>6. Ascending(d)
  <2> SUFFICES ASSUME NEW j \in 1..(Len(q) - 1), NEW k \in 1..(Len(q) - 1), j < k
               PROVE  d[j].delay < d[k].delay
    BY <1>5 DEF Ascending
  <2>1. j + 1 \in 1..Len(q) /\ k + 1 \in 1..Len(q) /\ j + 1 < k + 1
    BY <1>1
  <2>2. q[j + 1].delay < q[k + 1].delay /\ q[j + 1].delay \in Nat /\ q[k + 1].delay \in Nat
    BY <1>1, <2>1 DEF Ascending, Plans
  <2>3. d[j].delay = q[j + 1].delay - 1 /\ d[k].delay = q[k + 1].delay - 1
    BY <1>4
  <2>4. QED
    BY <2>2, <2>3
<1>7. QED
  BY <1>3, <1>5, <1>6

\* A trigger leaves a triggering loop that has taken it, its plans in order.
LEMMA TriggerFacts ==
  ASSUME NEW l \in LoopRecords, Ascending(l.planned), HasContent(l), l.already => l.triggering
  PROVE  /\ Trigger(l) \in LoopRecords
         /\ Sane(Trigger(l))
         /\ Trigger(l).triggering /\ Trigger(l).already
         /\ Trigger(l).snap = l.snap
<1> DEFINE pos == IF IsPlaying(l.mode) /\ l.pos >= l.len THEN 0 ELSE l.pos
           counted == [l EXCEPT !.already = TRUE, !.triggering = TRUE, !.pos = pos,
                                !.planned = CountDown(@)]
           q == CountDown(l.planned)
<1>1. CASE l.already
  BY <1>1 DEF Trigger, Sane, HasContent
<1>2. CASE ~l.already
  <2>1. /\ counted \in LoopsWith({q}) /\ counted.planned = q
        /\ HasContent(counted) /\ counted.already /\ counted.triggering
        /\ counted.snap = l.snap /\ l.planned \in Seq(Plans)
    BY DEF LoopsWith, LoopRecords, HasContent
  <2>2. CASE l.planned # <<>> /\ l.planned[1].delay = 0
    <3> DEFINE mode == l.planned[1].mode
               h == HandleTransition(counted, mode)
               t == [h EXCEPT !.planned = Tail(@)]
    <3>1. Trigger(l) = t
      BY <1>2, <2>2 DEF Trigger
    <3>2. mode \in Modes
      <4>1. l.planned[1] \in Plans
        BY <2>1, <2>2, FunctionOfSeq
      <4>2. QED
        BY <4>1 DEF Plans
    <3> HIDE DEF mode, counted
    <3>3. h \in LoopsWith({q}) /\ HasContent(h) /\ KeepsMarks(counted, h)
      BY <2>1, <3>2, HandleTransitionFacts
    <3>4. Tail(q) \in Seq(Plans) /\ Ascending(Tail(q))
      BY <2>1, <2>2, CountDownDue
    <3> HIDE DEF h, q
    <3>5. t \in LoopRecords /\ t.planned = Tail(q) /\ HasContent(t) /\ t.snap = l.snap
      BY <2>1, <3>3, <3>4 DEF LoopsWith, LoopRecords, HasContent, KeepsMarks
    <3>6. t.triggering /\ t.already
      BY <2>1, <3>3 DEF LoopsWith, KeepsMarks
    <3> HIDE DEF t
    <3>7. QED
      BY <3>1, <3>4, <3>5, <3>6 DEF Sane, HasContent
  <2>3. CASE ~(l.planned # <<>> /\ l.planned[1].delay = 0)
    <3>1. Trigger(l) = counted
      BY <1>2, <2>3 DEF Trigger
    <3>2. q \in Seq(Plans) /\ Ascending(q)
      BY <2>1, <2>3, CountDownFacts
    <3> HIDE DEF q
    <3>3. counted \in LoopRecords /\ Sane(counted)
      BY <2>1, <3>2 DEF LoopsWith, LoopRecords, Sane, HasContent
    <3> HIDE DEF counted
    <3>4. QED
      BY <2>1, <3>1, <3>3
  <2>4. QED
    BY <2>2, <2>3
<1>3. QED
  BY <1>1, <1>2

\* A follower reacts when its source triggers, and then it triggers too.
LEMMA HandleSyncFacts ==
  ASSUME NEW l \in LoopRecords, Sane(l)
  PROVE  /\ HandleSync(l) \in LoopRecords /\ Sane(HandleSync(l))
         /\ l.triggering => HandleSync(l).triggering
         /\ l.snap.synced /\ l.snap.triggering
              => HandleSync(l).triggering /\ HandleSync(l).already
<1>1. CASE l.snap.synced /\ l.snap.triggering
  <2> DEFINE t == Trigger(l)
  <2>1. t \in LoopRecords /\ Sane(t) /\ t.triggering /\ t.already
    BY TriggerFacts DEF Sane, HasContent
  <2>2. HandleSync(l) = StopIfEmpty(t)
    BY <1>1 DEF HandleSync
  <2> HIDE DEF t
  <2>3. /\ StopIfEmpty(t) \in LoopRecords /\ HasContent(StopIfEmpty(t))
        /\ KeepsMarks(t, StopIfEmpty(t))
    BY <2>1, StopIfEmptyFacts DEF LoopRecords, LoopsWith
  <2>4. QED
    BY <2>1, <2>2, <2>3 DEF Sane, HasContent, KeepsMarks
<1>2. CASE ~(l.snap.synced /\ l.snap.triggering)
  BY <1>2 DEF HandleSync
<1>3. QED
  BY <1>1, <1>2

\* An advance takes the marks of the last sub-block off.
LEMMA MovedFacts ==
  ASSUME NEW l \in LoopRecords, Sane(l), NEW n \in Nat
  PROVE  Moved(l, n) \in LoopRecords /\ Sane(Moved(l, n))
<1> DEFINE fresh == [l EXCEPT !.triggering = FALSE, !.already = FALSE]
           m == Moved(l, n)
<1>1. /\ fresh \in LoopRecords /\ fresh.already = FALSE /\ fresh.planned = l.planned
      /\ fresh.mode = l.mode /\ fresh.len = l.len /\ fresh.pos = l.pos
  BY DEF LoopRecords
<1> HIDE DEF fresh
<1>2. \E pos, len \in Nat :
        /\ m = [fresh EXCEPT !.pos = pos, !.len = len]
        /\ IsPlaying(l.mode) => len >= l.len
  <2>1. CASE l.mode = "Recording"
    <3>1. m = [fresh EXCEPT !.pos = l.pos, !.len = l.len + n]
      BY <1>1, <2>1 DEF Moved, fresh, LoopRecords
    <3>2. l.pos \in Nat /\ l.len + n \in Nat /\ ~IsPlaying(l.mode)
      BY <2>1 DEF LoopRecords, IsPlaying
    <3>3. QED
      BY <3>1, <3>2
  <2>2. CASE l.mode = "Replacing"
    <3>1. m = [fresh EXCEPT !.pos = l.pos + n, !.len = Greater(l.len, l.pos + n)]
      BY <1>1, <2>2 DEF Moved, fresh, LoopRecords
    <3>2. /\ l.pos + n \in Nat /\ Greater(l.len, l.pos + n) \in Nat
          /\ Greater(l.len, l.pos + n) >= l.len
      BY DEF LoopRecords, Greater
    <3>3. QED
      BY <3>1, <3>2
  <2>3. CASE l.mode \notin {"Recording", "Replacing"} /\ IsPlaying(l.mode)
    <3>1. m = [fresh EXCEPT !.pos = Smaller(l.pos + n, l.len), !.len = l.len]
      BY <1>1, <2>3 DEF Moved, fresh, LoopRecords
    <3>2. Smaller(l.pos + n, l.len) \in Nat /\ l.len \in Nat /\ l.len >= l.len
      BY DEF LoopRecords, Smaller
    <3>3. QED
      BY <3>1, <3>2
  <2>4. CASE l.mode # "Recording" /\ ~IsPlaying(l.mode)
    <3>1. l.mode # "Replacing"
      BY <2>4 DEF IsPlaying
    <3>2. m = fresh
      BY <2>4, <3>1 DEF Moved, fresh
    <3>3. fresh = [fresh EXCEPT !.pos = l.pos, !.len = l.len]
      BY <1>1 DEF LoopRecords
    <3>4. QED
      BY <2>4, <3>2, <3>3 DEF LoopRecords
  <2>5. QED
    BY <2>1, <2>2, <2>3, <2>4
<1> HIDE DEF m
<1>3. PICK pos \in Nat, len \in Nat :
        /\ m = [fresh EXCEPT !.pos = pos, !.len = len]
        /\ IsPlaying(l.mode) => len >= l.len
  BY <1>2
<1>4. m \in LoopRecords /\ m.mode = l.mode /\ m.len = len /\ m.planned = l.planned /\ m.already = FALSE
  BY <1>1, <1>3 DEF LoopRecords
<1>5. QED
  BY <1>3, <1>4 DEF Sane, LoopRecords, m

\* What a block makes of a loop: it moves, and stops or triggers at its end.
LEMMA ProcessFacts ==
  ASSUME NEW l \in LoopRecords, Sane(l), NEW n \in Nat
  PROVE  Process(l, n) \in LoopRecords /\ Sane(Process(l, n))
<1> DEFINE m == Moved(l, n)
<1>1. m \in LoopRecords /\ Sane(m) /\ LoopRecords = LoopsWith(Seq(Plans))
  BY MovedFacts DEF LoopRecords, LoopsWith
<1> HIDE DEF m
<1>2. CASE Exhausted(l, n)
  <2> DEFINE cut == SetLength(m, l.len)
             back == SetPosition(cut, 0)
             stopped == HandleTransition(back, "Stopped")
  <2>1. Process(l, n) = stopped
    BY <1>2 DEF Process, m
  <2>2. cut \in LoopRecords /\ HasContent(cut) /\ KeepsMarks(m, cut)
    BY <1>1, SetLengthFacts DEF Sane, HasContent, LoopRecords
  <2> HIDE DEF cut
  <2>3. back \in LoopRecords /\ HasContent(back) /\ KeepsMarks(cut, back)
    BY <1>1, <2>2, SetPositionFacts
  <2> HIDE DEF back
  <2>4. stopped \in LoopRecords /\ HasContent(stopped) /\ KeepsMarks(back, stopped)
    BY <1>1, <2>3, HandleTransitionFacts DEF Modes
  <2> HIDE DEF stopped
  <2>5. QED
    BY <1>1, <2>1, <2>2, <2>3, <2>4 DEF Sane, HasContent, KeepsMarks
<1>3. CASE ~Exhausted(l, n) /\ ReachesEnd(l, n) /\ ~SyncActive(l)
  <2> DEFINE t == Trigger(m)
  <2>1. Process(l, n) = StopIfEmpty(t)
    BY <1>3 DEF Process, m
  <2>2. t \in LoopRecords /\ Sane(t)
    BY <1>1, TriggerFacts DEF Sane, HasContent
  <2> HIDE DEF t
  <2>3. QED
    BY <1>1, <2>1, <2>2, StopIfEmptyFacts DEF Sane, HasContent, KeepsMarks
<1>4. CASE ~Exhausted(l, n) /\ ~(ReachesEnd(l, n) /\ ~SyncActive(l))
  BY <1>1, <1>4 DEF Process, m
<1>5. QED
  BY <1>2, <1>3, <1>4

\* A set of natural numbers has a smallest one.
LEMMA SmallestExists ==
  ASSUME NEW T, T \subseteq Nat, T # {}
  PROVE  \E i \in T : \A j \in T : i <= j
<1> DEFINE R == OpToRel(<, Nat)
<1>1. \A i, j \in Nat : <<j, i>> \in R <=> j < i
  BY Zenon DEF OpToRel
<1> HIDE DEF R
<1>2. PICK i \in T : \A j \in T : ~(<<j, i>> \in R)
  BY NatLessThanWellFounded, WFMin, Zenon DEF R
<1>3. \A j \in T : ~(j < i)
  BY <1>1, <1>2
<1>4. QED
  BY <1>3

\* A plan is inserted where its trigger is, and what lies behind it goes.
LEMMA InsertFacts ==
  ASSUME NEW q \in Seq(Plans), Ascending(q), NEW mode \in Modes, NEW delay \in Nat
  PROVE  Insert(q, mode, delay) \in Seq(Plans) /\ Ascending(Insert(q, mode, delay))
<1> DEFINE later == {i \in DOMAIN q : q[i].delay >= delay}
           plan == [mode |-> mode, delay |-> delay]
<1>1. /\ Len(q) \in Nat /\ DOMAIN q = 1..Len(q)
      /\ \A i \in 1..Len(q) : q[i] \in Plans /\ q[i].delay \in Nat
  <2>1. /\ Len(q) \in Nat /\ DOMAIN q = 1..Len(q)
        /\ \A i \in 1..Len(q) : q[i] \in Plans
    BY FunctionOfSeq
  <2>2. \A p \in Plans : p.delay \in Nat
    BY DEF Plans
  <2>3. QED
    BY <2>1, <2>2
<1>2. plan \in Plans /\ plan.delay = delay
  BY DEF Plans
<1>3. ASSUME NEW m \in 0..Len(q), NEW kept \in Seq(Plans), Len(kept) = m,
             \A i \in 1..m : kept[i] = q[i] /\ q[i].delay < delay
      PROVE  Append(kept, plan) \in Seq(Plans) /\ Ascending(Append(kept, plan))
  <2> DEFINE a == Append(kept, plan)
  <2>1. /\ a \in Seq(Plans) /\ Len(a) = m + 1
        /\ \A i \in 1..m : a[i] = q[i]
        /\ a[m + 1] = plan
    BY <1>2, <1>3, AppendProperties
  <2> HIDE DEF a
  <2>2. DOMAIN a = 1..(m + 1)
    BY <2>1, FunctionOfSeq
  <2> SUFFICES ASSUME NEW j \in 1..(m + 1), NEW k \in 1..(m + 1), j < k
               PROVE  a[j].delay < a[k].delay
    BY <2>1, <2>2 DEF Ascending, a
  <2>3. j \in 1..m /\ a[j] = q[j] /\ j \in DOMAIN q
    BY <1>1, <2>1
  <2>4. CASE k \in 1..m
    BY <1>1, <2>1, <2>3, <2>4 DEF Ascending
  <2>5. CASE k = m + 1
    BY <1>2, <1>3, <2>1, <2>3, <2>5
  <2>6. QED
    BY <2>4, <2>5
<1>4. CASE later = {}
  <2>1. Insert(q, mode, delay) = Append(q, plan)
    BY <1>4 DEF Insert
  <2>2. \A i \in 1..Len(q) : q[i].delay < delay
    BY <1>1, <1>4
  <2>3. QED
    BY <1>1, <1>3, <2>1, <2>2
<1>5. CASE later # {}
  <2> DEFINE first == CHOOSE i \in later : \A j \in later : i <= j
             kept == SubSeq(q, 1, first - 1)
  <2>1. Insert(q, mode, delay) = Append(kept, plan)
    BY <1>5 DEF Insert
  <2>2. \E i \in later : \A j \in later : i <= j
    <3>1. later \subseteq Nat
      BY <1>1
    <3> HIDE DEF later
    <3>2. QED
      BY <1>5, <3>1, SmallestExists
  <2>3. first \in later /\ \A j \in later : first <= j
    BY <2>2
  <2> HIDE DEF first
  <2>4. first \in 1..Len(q)
    BY <1>1, <2>3
  <2>5. /\ kept \in Seq(Plans) /\ Len(kept) = first - 1
        /\ \A i \in 1..(first - 1) : kept[i] = q[i]
    BY <1>1, <2>4, SubSeqProperties
  <2>6. \A i \in 1..(first - 1) : q[i].delay < delay
    BY <1>1, <2>3, <2>4
  <2> HIDE DEF kept
  <2>7. first - 1 \in 0..Len(q)
    BY <1>1, <2>4
  <2>8. QED
    BY <1>3, <2>1, <2>5, <2>6, <2>7
<1>6. QED
  BY <1>4, <1>5

\* set_loop_mode, plan_transition, set_length, clear and a new source keep a loop sane.
LEMMA CommandFacts ==
  ASSUME NEW l \in LoopRecords, Sane(l), NEW mode \in Modes, NEW n \in Nat
  PROVE  /\ HandleTransition(l, mode) \in LoopRecords /\ Sane(HandleTransition(l, mode))
         /\ PlanDelayed(l, mode, n) \in LoopRecords /\ Sane(PlanDelayed(l, mode, n))
         /\ SetLength(l, n) \in LoopRecords /\ Sane(SetLength(l, n))
         /\ Clear(l, n) \in LoopRecords /\ Sane(Clear(l, n))
<1> DEFINE h == HandleTransition(l, mode)
<1>1. LoopRecords = LoopsWith(Seq(Plans)) /\ HasContent(l) /\ <<>> \in Seq(Plans)
  BY EmptySeq DEF LoopRecords, LoopsWith, Sane, HasContent
<1>2. h \in LoopRecords /\ HasContent(h) /\ KeepsMarks(l, h)
  BY <1>1, HandleTransitionFacts
<1>3. h \in LoopRecords /\ Sane(h)
  BY <1>2 DEF Sane, HasContent, KeepsMarks
<1>4. PlanDelayed(l, mode, n) \in LoopRecords /\ Sane(PlanDelayed(l, mode, n))
  <2> HIDE DEF h
  <2>1. CASE ~l.snap.synced /\ l.mode # "Playing"
    <3>1. PlanDelayed(l, mode, n) = [h EXCEPT !.planned = <<>>]
      BY <2>1 DEF PlanDelayed, h
    <3>2. [h EXCEPT !.planned = <<>>] \in LoopRecords
      BY <1>1, <1>3 DEF LoopRecords
    <3>3. Sane([h EXCEPT !.planned = <<>>])
      BY <1>3 DEF LoopRecords, Sane, Ascending
    <3>4. QED
      BY <3>1, <3>2, <3>3
  <2>2. CASE ~(~l.snap.synced /\ l.mode # "Playing")
    <3> DEFINE q == Insert(l.planned, mode, n)
    <3>1. PlanDelayed(l, mode, n) = [l EXCEPT !.planned = q]
      BY <2>2 DEF PlanDelayed
    <3>2. q \in Seq(Plans) /\ Ascending(q)
      <4>1. l.planned \in Seq(Plans) /\ Ascending(l.planned)
        BY DEF LoopRecords, Sane
      <4>2. QED
        BY <4>1, InsertFacts
    <3> HIDE DEF q
    <3>3. QED
      BY <3>1, <3>2 DEF LoopRecords, Sane
  <2>3. QED
    BY <2>1, <2>2
<1>5. SetLength(l, n) \in LoopRecords /\ Sane(SetLength(l, n))
  BY <1>1, SetLengthFacts DEF Sane, HasContent, KeepsMarks
<1>6. Clear(l, n) \in LoopRecords /\ Sane(Clear(l, n))
  <2>1. Clear(l, n) \in LoopRecords
    BY <1>1 DEF Clear, LoopRecords, Modes
  <2>2. Sane(Clear(l, n))
    BY DEF Clear, LoopRecords, Sane, Ascending, IsPlaying
  <2>3. QED
    BY <2>1, <2>2
<1>7. QED
  BY <1>3, <1>4, <1>5, <1>6

LEMMA PlanAlignedFacts ==
  ASSUME NEW l \in LoopRecords, Sane(l), NEW mode \in Modes, NEW cycle \in Nat
  PROVE  PlanAligned(l, mode, cycle) \in LoopRecords /\ Sane(PlanAligned(l, mode, cycle))
<1> DEFINE moved == HandleTransition(l, mode)
           pos == l.snap.pos + cycle * l.snap.len
           back == SetPosition(moved, 0)
           aligned == IF ~l.snap.synced THEN moved
                      ELSE IF mode = "Recording" THEN SetLength(back, pos)
                                                 ELSE SetPosition(moved, pos)
           free == [aligned EXCEPT !.planned = <<>>]
<1>1. LoopRecords = LoopsWith(Seq(Plans)) /\ HasContent(l) /\ <<>> \in Seq(Plans)
  BY EmptySeq DEF LoopRecords, LoopsWith, Sane, HasContent
<1>2. pos \in Nat
  <2>1. l.snap.pos \in Nat /\ l.snap.len \in Nat
    BY DEF LoopRecords, Snapshots
  <2>2. QED
    BY <2>1
<1>3. PlanAligned(l, mode, cycle) = StopIfEmpty(free)
  BY DEF PlanAligned
<1> HIDE DEF pos
<1>4. moved \in LoopRecords /\ KeepsMarks(l, moved)
  BY <1>1, HandleTransitionFacts
<1> HIDE DEF moved
<1>5. back \in LoopRecords /\ KeepsMarks(moved, back)
  BY <1>1, <1>4, SetPositionFacts
<1> HIDE DEF back
<1>7. aligned \in LoopRecords /\ aligned.already = l.already /\ (l.triggering => aligned.triggering)
  BY <1>1, <1>2, <1>4, <1>5, SetPositionFacts, SetLengthFacts DEF KeepsMarks
<1> HIDE DEF aligned
<1>8. free \in LoopRecords /\ free.planned = <<>> /\ (free.already => free.triggering)
  BY <1>1, <1>7 DEF LoopRecords, Sane
<1> HIDE DEF free
<1>9. QED
  BY <1>1, <1>3, <1>8, StopIfEmptyFacts DEF Sane, HasContent, KeepsMarks, Ascending

-----------------------------------------------------------------------------
(* The group.                                                              *)

\* Where a callback is: its sub-block lies within it, and another wave is allowed.
Placed ==
  /\ phase \in {"waves", "settled"} => until <= remaining
  /\ phase = "waves" => waves < MaxWaves

IInv == TypeOK /\ LoopsAreSane /\ Placed /\ TriggersReachFollowers

\* Every follower sees its source as it is, and no loop loses its marks.
LEMMA RefreshFacts ==
  ASSUME TypeOK, LoopsAreSane, NEW i \in Loops
  PROVE  /\ Refreshed[i] \in LoopRecords /\ Sane(Refreshed[i])
         /\ Refreshed[i].triggering = loops[i].triggering
         /\ source[i] # None => /\ source[i] \in Loops
                                /\ Refreshed[i].snap = Snapshot(loops[source[i]])
<1>1. loops[i] \in LoopRecords /\ Sane(loops[i])
  BY DEF TypeOK, LoopsAreSane
<1>2. CASE source[i] = None
  BY <1>1, <1>2 DEF Refreshed
<1>3. CASE source[i] # None
  <2> DEFINE snap == Snapshot(loops[source[i]])
             seen == [loops[i] EXCEPT !.snap = snap]
  <2>1. source[i] \in Loops /\ loops[source[i]] \in LoopRecords
    BY <1>3 DEF TypeOK
  <2>2. snap \in Snapshots
    BY <2>1 DEF Snapshot, Snapshots, LoopRecords
  <2>3. Refreshed[i] = StopIfEmpty(seen)
    BY <1>3 DEF Refreshed
  <2> HIDE DEF snap
  <2>4. /\ seen \in LoopRecords /\ seen.planned = loops[i].planned /\ seen.snap = snap
        /\ seen.already = loops[i].already /\ seen.triggering = loops[i].triggering
    BY <1>1, <2>2 DEF LoopRecords
  <2> HIDE DEF seen
  <2>5. /\ StopIfEmpty(seen) \in LoopRecords /\ HasContent(StopIfEmpty(seen))
        /\ KeepsMarks(seen, StopIfEmpty(seen)) /\ StopIfEmpty(seen).triggering = seen.triggering
    BY <2>4, StopIfEmptyFacts DEF LoopRecords, LoopsWith
  <2>6. Sane(StopIfEmpty(seen))
    BY <1>1, <2>4, <2>5 DEF Sane, HasContent, KeepsMarks
  <2>7. QED
    BY <2>1, <2>3, <2>4, <2>5, <2>6 DEF KeepsMarks, snap
<1>4. QED
  BY <1>2, <1>3

\* The initial state satisfies the invariant.
LEMMA InitInv == Init => IInv
<1> SUFFICES ASSUME Init PROVE IInv
  OBVIOUS
<1>1. PICK s \in Sessions : loops = s.loops /\ source = s.source
  BY DEF Init
<1>2. /\ s.loops \in [Loops -> LoopRecords] /\ \A i \in Loops : Sane(s.loops[i])
      /\ s.source \in [Loops -> Loops \cup {None}]
      /\ MaxSubBlocks \in Nat \ {0} /\ MaxWaves \in Nat \ {0} /\ MaxCommands \in Nat
  BY LimitsAssumption
<1>3. LoopsAreSane
  BY <1>1, <1>2 DEF LoopsAreSane
<1>4. TypeOK
  BY <1>1, <1>2 DEF Init, TypeOK
<1>5. Placed /\ TriggersReachFollowers
  BY DEF Init, Placed, TriggersReachFollowers
<1>6. QED
  BY <1>3, <1>4, <1>5 DEF IInv

\* A command leaves one sane loop in the place of another.
LEMMA BecomeFacts ==
  ASSUME TypeOK, LoopsAreSane, NEW i \in Loops, NEW l \in LoopRecords, Sane(l), Become(i, l)
  PROVE  loops' \in [Loops -> LoopRecords] /\ LoopsAreSane'
  BY DEF TypeOK, LoopsAreSane, Become

\* What the commands have in common.
LEMMA CommandInv ==
  ASSUME IInv, NEW kind, NEW i \in Controlled, Command(kind, i),
         NEW l \in LoopRecords, Sane(l), Become(i, l),
         source' \in [Loops -> Loops \cup {None}], live' \in [Loops -> BOOLEAN]
  PROVE  IInv'
<1>1. i \in Loops /\ MaxCommands \in Nat
  BY LimitsAssumption
<1>2. loops' \in [Loops -> LoopRecords] /\ LoopsAreSane'
  BY <1>1, BecomeFacts DEF IInv
<1>3. TypeOK'
  BY <1>1, <1>2 DEF IInv, TypeOK, Command, callbackVars
<1>4. Placed' /\ TriggersReachFollowers'
  BY DEF IInv, Placed, TriggersReachFollowers, Command, callbackVars
<1>5. QED
  BY <1>2, <1>3, <1>4 DEF IInv

\* Every command preserves the invariant.
LEMMA ControlInv == IInv /\ Control => IInv'
<1> SUFFICES ASSUME IInv, Control PROVE IInv'
  OBVIOUS
<1>1. /\ Controlled \subseteq Loops /\ ModesUsed \subseteq Modes /\ Delays \subseteq Nat
      /\ Cycles \subseteq Nat /\ Lengths \subseteq Nat /\ None \notin Loops
  BY LimitsAssumption
<1>2. \A i \in Controlled : i \in Loops /\ loops[i] \in LoopRecords /\ Sane(loops[i])
  BY <1>1 DEF IInv, TypeOK, LoopsAreSane
<1>3. source \in [Loops -> Loops \cup {None}] /\ live \in [Loops -> BOOLEAN]
  BY DEF IInv, TypeOK
<1>4. ASSUME NEW i \in Controlled, NEW mode \in ModesUsed, SetMode(i, mode) PROVE IInv'
  <2>1. HandleTransition(loops[i], mode) \in LoopRecords /\ Sane(HandleTransition(loops[i], mode))
    BY <1>1, <1>2, CommandFacts
  <2>2. QED
    BY <1>3, <1>4, <2>1, CommandInv DEF SetMode
<1>5. ASSUME NEW i \in Controlled, NEW mode \in ModesUsed, NEW d \in Delays,
             PlanTransition(i, mode, d)
      PROVE  IInv'
  <2>1. PlanDelayed(loops[i], mode, d) \in LoopRecords /\ Sane(PlanDelayed(loops[i], mode, d))
    BY <1>1, <1>2, CommandFacts
  <2>2. QED
    BY <1>3, <1>5, <2>1, CommandInv DEF PlanTransition
<1>6. ASSUME NEW i \in Controlled, NEW mode \in ModesUsed, NEW c \in Cycles,
             AlignTransition(i, mode, c)
      PROVE  IInv'
  <2>1. PlanAligned(loops[i], mode, c) \in LoopRecords /\ Sane(PlanAligned(loops[i], mode, c))
    BY <1>1, <1>2, PlanAlignedFacts
  <2>2. QED
    BY <1>3, <1>6, <2>1, CommandInv DEF AlignTransition
<1>7. ASSUME NEW i \in Controlled, NEW n \in Lengths, ChangeLength(i, n) PROVE IInv'
  <2>1. SetLength(loops[i], n) \in LoopRecords /\ Sane(SetLength(loops[i], n))
    BY <1>1, <1>2, CommandFacts DEF Modes
  <2>2. QED
    BY <1>3, <1>7, <2>1, CommandInv DEF ChangeLength
<1>8. ASSUME NEW i \in Controlled, NEW n \in Lengths, ClearLoop(i, n) PROVE IInv'
  <2>1. Clear(loops[i], n) \in LoopRecords /\ Sane(Clear(loops[i], n))
    BY <1>1, <1>2, CommandFacts DEF Modes
  <2>2. QED
    BY <1>3, <1>8, <2>1, CommandInv DEF ClearLoop
<1>9. ASSUME NEW i \in Controlled, NEW src \in Loops \cup {None}, SetSyncSource(i, src)
      PROVE  IInv'
  <2> DEFINE snap == IF src = None THEN NoSync ELSE JustSynced
             linked == [loops[i] EXCEPT !.snap = snap]
  <2>1. snap \in Snapshots
    BY DEF NoSync, JustSynced, Snapshots, Modes
  <2> HIDE DEF snap
  <2>2. /\ linked \in LoopRecords /\ linked.planned = loops[i].planned
        /\ linked.already = loops[i].already /\ linked.triggering = loops[i].triggering
    BY <1>2, <2>1 DEF LoopRecords
  <2>3. Become(i, StopIfEmpty(linked))
    BY <1>9 DEF SetSyncSource, snap
  <2> HIDE DEF linked
  <2>4. StopIfEmpty(linked) \in LoopRecords /\ Sane(StopIfEmpty(linked))
    <3>1. /\ StopIfEmpty(linked) \in LoopRecords /\ HasContent(StopIfEmpty(linked))
          /\ KeepsMarks(linked, StopIfEmpty(linked))
      BY <2>2, StopIfEmptyFacts DEF LoopRecords, LoopsWith
    <3>2. QED
      BY <1>2, <2>2, <3>1 DEF Sane, HasContent, KeepsMarks
  <2>5. source' \in [Loops -> Loops \cup {None}] /\ live' \in [Loops -> BOOLEAN]
    BY <1>1, <1>3, <1>9 DEF SetSyncSource
  <2>6. QED
    BY <1>9, <2>3, <2>4, <2>5, CommandInv DEF SetSyncSource
<1>10. ASSUME NEW i \in Controlled, RemoveLoop(i) PROVE IInv'
  <2> DEFINE h == HandleTransition(loops[i], "Stopped")
             stopped == [h EXCEPT !.planned = <<>>]
             last == SetLength(PlanDelayed(stopped, "Stopped", 0), 0)
  <2>1. h \in LoopRecords /\ Sane(h)
    BY <1>2, CommandFacts DEF Modes
  <2>2. Become(i, last)
    BY <1>10 DEF RemoveLoop
  <2> HIDE DEF h
  <2>3. stopped \in LoopRecords /\ Sane(stopped)
    <3>1. <<>> \in Seq(Plans)
      BY EmptySeq
    <3>2. stopped \in LoopRecords
      BY <2>1, <3>1 DEF LoopRecords
    <3>3. Sane(stopped)
      BY <2>1 DEF LoopRecords, Sane, Ascending
    <3>4. QED
      BY <3>2, <3>3
  <2> HIDE DEF stopped
  <2>4. PlanDelayed(stopped, "Stopped", 0) \in LoopRecords /\ Sane(PlanDelayed(stopped, "Stopped", 0))
    BY <2>3, CommandFacts DEF Modes
  <2>5. last \in LoopRecords /\ Sane(last)
    BY <2>4, CommandFacts DEF Modes
  <2> HIDE DEF last
  <2>6. source' \in [Loops -> Loops \cup {None}] /\ live' \in [Loops -> BOOLEAN]
    BY <1>3, <1>10 DEF RemoveLoop
  <2>7. QED
    BY <1>10, <2>2, <2>5, <2>6, CommandInv DEF RemoveLoop
<1>11. CASE ResetFault
  BY <1>11 DEF ResetFault, IInv, TypeOK, LoopsAreSane, Placed, TriggersReachFollowers
<1>12. QED
  BY <1>4, <1>5, <1>6, <1>7, <1>8, <1>9, <1>10, <1>11 DEF Control

\* Every step of a callback preserves the invariant.
LEMMA AdvanceInv == IInv /\ Advance => IInv'
<1> SUFFICES ASSUME IInv, Advance PROVE IInv'
  OBVIOUS
<1> DEFINE seen == Refreshed
           points == Ends(seen) \cup {remaining}
<1>1. /\ MaxSubBlocks \in Nat \ {0} /\ MaxWaves \in Nat \ {0} /\ MaxCommands \in Nat
      /\ remaining \in Nat
  BY LimitsAssumption DEF IInv, TypeOK
<1>2. \A i \in Loops : seen[i] \in LoopRecords /\ Sane(seen[i])
  BY RefreshFacts DEF IInv
<1> HIDE DEF seen
<1>3. points \subseteq Nat
  <2>1. ASSUME NEW i \in Loops, HasPoi(seen[i]) PROVE NextPoi(seen[i]) \in Nat
    BY <1>2, <2>1 DEF HasPoi, NextPoi, LoopRecords
  <2>2. QED
    BY <1>1, <2>1 DEF Ends
<1>4. PICK n \in points :
        /\ \A e \in points : n <= e
        /\ loops' = [i \in Loops |-> Process(seen[i], n)]
        /\ until' = n
  BY DEF Advance, seen
<1>5. n \in Nat /\ n <= remaining
  BY <1>3, <1>4
<1>6. \A i \in Loops : Process(seen[i], n) \in LoopRecords /\ Sane(Process(seen[i], n))
  BY <1>2, <1>5, ProcessFacts
<1>7. loops' \in [Loops -> LoopRecords] /\ LoopsAreSane'
  BY <1>4, <1>6 DEF LoopsAreSane
<1>8. TypeOK'
  BY <1>1, <1>4, <1>5, <1>7 DEF IInv, TypeOK, Advance
<1>9. Placed' /\ TriggersReachFollowers'
  BY <1>1, <1>4, <1>5 DEF Advance, Placed, TriggersReachFollowers, IInv
<1>10. QED
  BY <1>7, <1>8, <1>9 DEF IInv

\* A wave in which nothing changes has reached every follower.
LEMMA SyncWaveInv == IInv /\ SyncWave => IInv'
<1> SUFFICES ASSUME IInv, SyncWave PROVE IInv'
  OBVIOUS
<1> DEFINE seen == Refreshed
           after == [i \in Loops |-> HandleSync(seen[i])]
<1>1. MaxSubBlocks \in Nat \ {0} /\ MaxWaves \in Nat \ {0} /\ MaxCommands \in Nat
  BY LimitsAssumption
<1>2. \A i \in Loops :
        /\ seen[i] \in LoopRecords /\ Sane(seen[i])
        /\ seen[i].triggering = loops[i].triggering
        /\ source[i] # None => source[i] \in Loops /\ seen[i].snap = Snapshot(loops[source[i]])
  BY RefreshFacts DEF IInv
<1>3. loops' = after
  BY DEF SyncWave
<1> HIDE DEF seen
<1>4. \A i \in Loops :
        /\ after[i] \in LoopRecords /\ Sane(after[i])
        /\ seen[i].snap.synced /\ seen[i].snap.triggering
              => after[i].triggering /\ after[i].already
  BY <1>2, HandleSyncFacts
<1>5. loops' \in [Loops -> LoopRecords] /\ LoopsAreSane'
  BY <1>3, <1>4 DEF LoopsAreSane
<1>6. CASE \E i \in Loops : ~seen[i].triggering /\ after[i].triggering
  <2>1. /\ waves' = waves + 1 /\ waves < MaxWaves /\ waves \in Nat
        /\ IF waves' >= MaxWaves THEN fault' = "waves" /\ phase' = "control"
                                  ELSE UNCHANGED <<fault, phase>>
        /\ phase = "waves"
    BY <1>6 DEF SyncWave, seen, IInv, Placed, TypeOK
  <2>2. TypeOK'
    BY <1>1, <1>5, <2>1 DEF IInv, TypeOK, SyncWave
  <2>3. Placed' /\ TriggersReachFollowers'
    BY <1>1, <2>1 DEF IInv, Placed, TriggersReachFollowers, SyncWave
  <2>4. QED
    BY <1>5, <2>2, <2>3 DEF IInv
<1>7. CASE ~\E i \in Loops : ~seen[i].triggering /\ after[i].triggering
  <2>1. phase' = "settled" /\ waves' = waves /\ fault' = fault /\ phase = "waves"
    BY <1>7 DEF SyncWave, seen
  <2>2. TypeOK'
    BY <1>1, <1>5, <2>1 DEF IInv, TypeOK, SyncWave
  <2>3. ASSUME NEW i \in Loops, source[i] # None, after[source[i]].triggering
        PROVE  after[i].triggering /\ after[i].already
    <3>1. source[i] \in Loops /\ seen[i].snap = Snapshot(loops[source[i]])
      BY <1>2, <2>3
    <3>2. seen[source[i]].triggering
      BY <1>7, <2>3, <3>1
    <3>3. loops[source[i]].triggering
      BY <1>2, <3>1, <3>2
    <3>4. seen[i].snap.synced /\ seen[i].snap.triggering
      BY <3>1, <3>3 DEF Snapshot
    <3>5. QED
      BY <1>4, <3>4
  <2>4. source' = source
    BY DEF SyncWave
  <2>5. TriggersReachFollowers'
    BY <1>3, <2>3, <2>4 DEF TriggersReachFollowers
  <2>6. Placed'
    BY <2>1 DEF IInv, Placed, SyncWave
  <2>7. QED
    BY <1>5, <2>2, <2>5, <2>6 DEF IInv
<1>8. QED
  BY <1>6, <1>7

\* Every step preserves the invariant.
LEMMA StepInv == IInv /\ [Next]_vars => IInv'
<1> SUFFICES ASSUME IInv, [Next]_vars PROVE IInv'
  OBVIOUS
<1>1. /\ MaxSubBlocks \in Nat \ {0} /\ MaxWaves \in Nat \ {0} /\ MaxCommands \in Nat
      /\ Frames \subseteq Nat \ {0}
  BY LimitsAssumption
<1>2. CASE TooManySubBlocks
  BY <1>1, <1>2 DEF TooManySubBlocks, IInv, TypeOK, LoopsAreSane, Placed, TriggersReachFollowers
<1>3. CASE FinishSubBlock
  <2>1. /\ remaining' = remaining - until /\ remaining \in Nat /\ until \in Nat /\ until <= remaining
        /\ phase' \in {"control", "split"}
    BY <1>3 DEF FinishSubBlock, IInv, TypeOK, Placed
  <2>2. QED
    BY <1>3, <2>1 DEF FinishSubBlock, IInv, TypeOK, LoopsAreSane, Placed, TriggersReachFollowers
<1>4. ASSUME NEW n \in Frames, BeginCallback(n) PROVE IInv'
  BY <1>1, <1>4 DEF BeginCallback, IInv, TypeOK, LoopsAreSane, Placed, TriggersReachFollowers
<1>5. CASE UNCHANGED vars
  BY <1>5 DEF vars, IInv, TypeOK, LoopsAreSane, Placed, TriggersReachFollowers
<1>6. QED
  BY <1>2, <1>3, <1>4, <1>5, ControlInv, AdvanceInv, SyncWaveInv DEF Next, Callback

\* The invariant holds throughout.
LEMMA Invariance == Spec => []IInv
  BY InitInv, StepInv, PTL DEF Spec

\* Every loop is a loop's record, the counters stay within their limits.
THEOREM TypeCorrect == Spec => []TypeOK
<1>1. IInv => TypeOK
  BY DEF IInv
<1>2. QED
  BY <1>1, Invariance, PTL

\* No operation leaves a loop that plays without content, holds two plans for one
\* trigger, or has taken a trigger without triggering.
THEOREM LoopsStaySane == Spec => []LoopsAreSane
<1>1. IInv => LoopsAreSane
  BY DEF IInv
<1>2. QED
  BY <1>1, Invariance, PTL

\* A trigger reaches every follower in the sub-block it happens in, through chains
\* and cycles of any length and whatever is wired anew or removed.
THEOREM FollowersTrigger == Spec => []TriggersReachFollowers
<1>1. IInv => TriggersReachFollowers
  BY DEF IInv
<1>2. QED
  BY <1>1, Invariance, PTL

-----------------------------------------------------------------------------
(* The waves.                                                              *)

Triggering == {i \in Loops : loops[i].triggering}

\* Every wave but the last made at least one more loop trigger.
EachWaveCounts == phase = "waves" => waves <= Cardinality(Triggering)

\* The loops that trigger are finitely many, and no more than the loops.
LEMMA TriggeringFinite ==
  ASSUME IsFiniteSet(Loops), NEW S, S \subseteq Loops
  PROVE  /\ IsFiniteSet(S) /\ Cardinality(S) \in Nat
         /\ Cardinality(Loops) \in Nat /\ Cardinality(S) <= Cardinality(Loops)
  BY FS_Subset, FS_CardinalityType

LEMMA WavesStep ==
  ASSUME IsFiniteSet(Loops), Cardinality(Loops) < MaxWaves,
         IInv, EachWaveCounts, WavesSettle, [Next]_vars
  PROVE  EachWaveCounts' /\ WavesSettle'
<1>1. MaxWaves \in Nat
  BY LimitsAssumption
<1>2. CASE SyncWave
  <2> DEFINE seen == Refreshed
             after == [i \in Loops |-> HandleSync(seen[i])]
             was == Triggering
             now == {i \in Loops : after[i].triggering}
  <2>1. /\ \A i \in Loops : seen[i].triggering = loops[i].triggering
        /\ \A i \in Loops : seen[i].triggering => after[i].triggering
    BY RefreshFacts, HandleSyncFacts DEF IInv
  <2>2. Triggering' = now /\ phase = "waves" /\ waves \in Nat
    BY <1>2 DEF SyncWave, Triggering, IInv, TypeOK
  <2> HIDE DEF seen, after
  <2>3. \A i \in Loops : loops[i].triggering => after[i].triggering
    BY <2>1
  <2>4. was \subseteq now /\ was \subseteq Loops /\ now \subseteq Loops
    BY <2>3 DEF Triggering
  <2>5. /\ IsFiniteSet(now) /\ Cardinality(was) \in Nat /\ Cardinality(now) \in Nat
        /\ Cardinality(Loops) \in Nat /\ Cardinality(now) <= Cardinality(Loops)
    BY <2>4, TriggeringFinite
  <2>6. CASE \E i \in Loops : ~seen[i].triggering /\ after[i].triggering
    <3>1. was # now
      <4>1. PICK i \in Loops : ~seen[i].triggering /\ after[i].triggering
        BY <2>6
      <4>2. ~loops[i].triggering
        BY <2>1, <4>1
      <4>3. i \in now /\ i \notin was
        BY <4>1, <4>2 DEF Triggering
      <4>4. QED
        BY <4>3
    <3> HIDE DEF was, now
    <3>2. Cardinality(was) < Cardinality(now)
      BY <2>4, <2>5, <3>1, FS_Subset
    <3>3. waves + 1 <= Cardinality(now) /\ waves + 1 < MaxWaves
      BY <1>1, <2>2, <2>5, <3>2 DEF EachWaveCounts, was
    <3>4. waves' = waves + 1 /\ fault' = fault
      BY <1>1, <1>2, <2>2, <2>6, <3>3 DEF SyncWave, seen, after
    <3>5. QED
      BY <2>2, <3>3, <3>4 DEF EachWaveCounts, WavesSettle
  <2>7. CASE ~\E i \in Loops : ~seen[i].triggering /\ after[i].triggering
    BY <1>2, <2>7 DEF SyncWave, EachWaveCounts, WavesSettle, seen, after
  <2>8. QED
    BY <2>6, <2>7
<1>3. CASE Advance
  <2>1. Triggering' \subseteq Loops
    BY DEF Triggering
  <2>2. Cardinality(Triggering') \in Nat
    BY <2>1, TriggeringFinite
  <2>3. QED
    BY <1>3, <2>2 DEF Advance, EachWaveCounts, WavesSettle
<1>4. CASE Control
  <2>1. phase = "control" /\ phase' = phase /\ fault' \in {fault, "none"}
    BY <1>4 DEF Control, SetMode, PlanTransition, AlignTransition, ChangeLength, ClearLoop,
       SetSyncSource, RemoveLoop, ResetFault, Command, callbackVars
  <2>2. QED
    BY <2>1 DEF EachWaveCounts, WavesSettle
<1>5. CASE TooManySubBlocks \/ FinishSubBlock \/ \E n \in Frames : BeginCallback(n)
  BY <1>5 DEF TooManySubBlocks, FinishSubBlock, BeginCallback, EachWaveCounts, WavesSettle
<1>6. CASE UNCHANGED vars
  BY <1>6 DEF vars, EachWaveCounts, WavesSettle, Triggering
<1>7. QED
  BY <1>2, <1>3, <1>4, <1>5, <1>6 DEF Next, Callback

\* As long as there are fewer loops than waves allowed, no wiring of them ever latches
\* the fault that silences the timeline.
THEOREM WavesAlwaysSettle ==
  ASSUME IsFiniteSet(Loops), Cardinality(Loops) < MaxWaves
  PROVE  Spec => []WavesSettle
<1>1. Init => EachWaveCounts /\ WavesSettle
  BY DEF Init, EachWaveCounts, WavesSettle
<1>2. IInv /\ (EachWaveCounts /\ WavesSettle) /\ [Next]_vars => (EachWaveCounts /\ WavesSettle)'
  BY WavesStep
<1>3. QED
  BY <1>1, <1>2, Invariance, PTL DEF Spec

-----------------------------------------------------------------------------
(* The grid of a source.                                                   *)

\* A factor that is at least 1 larger makes the product larger by the other factor.
LEMMA Products ==
  ASSUME NEW m \in Nat, NEW p \in Nat, NEW q \in Nat, p < q
  PROVE  p * m \in Nat /\ q * m \in Nat /\ p * m + m <= q * m
<1>1. q - p - 1 \in Nat /\ (q - p - 1) * m >= 0
  OBVIOUS
<1>2. q * m = p * m + m + (q - p - 1) * m
  OBVIOUS
<1>3. p * m \in Nat /\ q * m \in Nat
  OBVIOUS
<1>4. QED
  BY <1>1, <1>2, <1>3

\* The remainder is what division leaves.
LEMMA Remainder ==
  ASSUME NEW m \in Nat \ {0}, NEW x \in Nat
  PROVE  x % m \in 0..m-1 /\ \E q \in Nat : x = q * m + (x % m)
<1> DEFINE q == x \div m
<1>1. x % m \in 0..m-1 /\ q \in Nat /\ x = m * q + (x % m)
  OBVIOUS
<1> HIDE DEF q
<1>2. m * q = q * m
  BY <1>1
<1>3. x = q * m + (x % m)
  BY <1>1, <1>2
<1>4. QED
  BY <1>1, <1>3

\* There is one remainder.
LEMMA OneRemainder ==
  ASSUME NEW m \in Nat \ {0}, NEW x \in Nat, NEW q \in Nat, NEW r \in 0..m-1, x = q * m + r
  PROVE  x % m = r
<1>1. PICK p \in Nat : x = p * m + (x % m)
  BY Remainder
<1>2. x % m \in 0..m-1
  BY Remainder
<1>3. CASE p < q
  BY <1>1, <1>2, <1>3, Products
<1>4. CASE q < p
  BY <1>1, <1>2, <1>4, Products
<1>5. CASE p = q
  <2>1. q * m \in Nat
    OBVIOUS
  <2>2. QED
    BY <1>1, <1>2, <1>5, <2>1
<1>6. QED
  BY <1>3, <1>4, <1>5

\* Within a cycle what moves along with the source keeps its distance.
LEMMA Along ==
  ASSUME NEW m \in Nat \ {0}, NEW x \in Nat, NEW n \in Nat, (x % m) + n < m
  PROVE  (x + n) % m = (x % m) + n
<1>1. PICK q \in Nat : x = q * m + (x % m)
  BY Remainder
<1>2. x % m \in 0..m-1
  BY Remainder
<1> DEFINE r == x % m
<1> HIDE DEF r
<1>3. r \in 0..m-1 /\ x = q * m + r /\ r + n < m
  BY <1>1, <1>2 DEF r
<1>4. r + n \in 0..m-1 /\ x + n = q * m + (r + n)
  <2>1. q * m \in Nat
    OBVIOUS
  <2>2. QED
    BY <1>3, <2>1
<1>5. x + n \in Nat
  OBVIOUS
<1>6. (x + n) % m = r + n
  BY <1>3, <1>4, <1>5, OneRemainder
<1>7. QED
  BY <1>6 DEF r

\* It ends a cycle with the source.
LEMMA Around ==
  ASSUME NEW m \in Nat \ {0}, NEW x \in Nat, NEW n \in Nat, (x % m) + n = m
  PROVE  (x + n) % m = 0
<1>1. PICK q \in Nat : x = q * m + (x % m)
  BY Remainder
<1>2. x % m \in 0..m-1
  BY Remainder
<1> DEFINE r == x % m
<1> HIDE DEF r
<1>3. r \in 0..m-1 /\ x = q * m + r /\ r + n = m
  BY <1>1, <1>2 DEF r
<1>4. x + n = (q + 1) * m + 0 /\ q + 1 \in Nat /\ 0 \in 0..m-1
  <2>1. (q + 1) * m = q * m + m /\ q * m \in Nat
    OBVIOUS
  <2>2. QED
    BY <1>3, <2>1
<1>5. x + n \in Nat
  OBVIOUS
<1>6. QED
  BY <1>4, <1>5, OneRemainder

\* A position within the first cycle, and 0.
LEMMA Within ==
  ASSUME NEW m \in Nat \ {0}, NEW x \in 0..m-1
  PROVE  x % m = x
<1>1. x = 0 * m + x
  OBVIOUS
<1>2. QED
  BY <1>1, OneRemainder

\* A limit on the grid is only passed from the limit itself.
LEMMA AtLimit ==
  ASSUME NEW m \in Nat \ {0}, NEW limit \in Nat, limit % m = 0, NEW x \in Nat, x <= limit,
         NEW n \in Nat, (x % m) + n <= m, x + n > limit
  PROVE  x = limit
<1>1. PICK q \in Nat : x = q * m + (x % m)
  BY Remainder
<1>2. PICK k \in Nat : limit = k * m + (limit % m)
  BY Remainder
<1>3. x % m \in 0..m-1 /\ q * m \in Nat /\ k * m \in Nat
  BY Remainder
<1>4. CASE q < k
  <2>1. q * m + m <= k * m
    BY <1>4, Products
  <2>2. QED
    BY <1>1, <1>2, <1>3, <2>1
<1>5. CASE q = k
  BY <1>1, <1>2, <1>3, <1>5
<1>6. CASE k < q
  <2>1. k * m + m <= q * m
    BY <1>6, Products
  <2>2. QED
    BY <1>1, <1>2, <1>3, <2>1
<1>7. QED
  BY <1>4, <1>5, <1>6

\* A loop in step with a source of length m at position p.
InPhase(l, m, p) ==
  /\ l.mode = "Recording" => l.len % m = p /\ l.len <= StorageLimit
  /\ l.mode # "Recording" => l.len % m = 0
  /\ IsPlaying(l.mode) => l.pos % m = p /\ l.pos <= l.len

\* It is not at its end.
Inside(l) == IsPlaying(l.mode) => l.pos < l.len

\* A transition at the start of a cycle begins and ends whole cycles.
LEMMA TransitionInPhase ==
  ASSUME NEW Queues, NEW l \in LoopsWith(Queues), NEW mode \in Modes, NEW m \in Nat \ {0},
         InPhase(l, m, 0), Inside(l)
  PROVE  InPhase(HandleTransition(l, mode), m, 0) /\ Inside(HandleTransition(l, mode))
<1>1. CASE l.mode = mode
  BY <1>1 DEF HandleTransition
<1>2. CASE l.mode # mode
  <2> DEFINE pos == IF IsPlaying(l.mode) /\ IsPlaying(mode) THEN l.pos ELSE 0
             len == IF mode = "Recording" THEN 0 ELSE l.len
             made == [l EXCEPT !.mode = mode, !.pos = pos,
                        !.len = IF mode = "Recording" THEN 0 ELSE @,
                        !.triggering = @ \/ (IsPlaying(mode) /\ pos = 0)]
  <2>1. HandleTransition(l, mode) = StopIfEmpty(made)
    BY <1>2 DEF HandleTransition
  <2>2. /\ 0 % m = 0 /\ l.len \in Nat /\ l.pos \in Nat /\ l.len % m = 0
        /\ StorageLimit \in Nat
    BY Within, StorageLimitAssumption DEF InPhase, LoopsWith
  <2>3. /\ pos \in Nat /\ len \in Nat /\ len % m = 0
        /\ mode = "Recording" => len = 0
        /\ IsPlaying(mode) => pos % m = 0 /\ (len > 0 => pos < len)
    BY <2>2 DEF InPhase, Inside, IsPlaying
  <2>4. made.mode = mode /\ made.pos = pos /\ made.len = len /\ made \in LoopsWith(Queues)
    BY <2>3 DEF LoopsWith
  <2> HIDE DEF made, pos, len
  <2>5. CASE IsPlaying(mode) /\ len = 0
    <3> DEFINE stopped == [made EXCEPT !.mode = "Stopped", !.pos = 0]
    <3>1. StopIfEmpty(made) = stopped
      BY <2>4, <2>5 DEF StopIfEmpty
    <3>2. stopped.mode = "Stopped" /\ stopped.len = len
      BY <2>4 DEF LoopsWith
    <3> HIDE DEF stopped
    <3>3. QED
      BY <2>1, <2>3, <3>1, <3>2 DEF InPhase, Inside, IsPlaying
  <2>6. CASE ~(IsPlaying(mode) /\ len = 0)
    <3>1. StopIfEmpty(made) = made
      BY <2>4, <2>6 DEF StopIfEmpty
    <3>2. InPhase(made, m, 0) /\ Inside(made)
      BY <2>2, <2>3, <2>4, <2>6 DEF InPhase, Inside
    <3>3. QED
      BY <2>1, <3>1, <3>2
  <2>7. QED
    BY <2>5, <2>6
<1>3. QED
  BY <1>1, <1>2

\* A trigger at the start of a cycle sends a loop at its end back to its start.
LEMMA TriggerInPhase ==
  ASSUME NEW l \in LoopRecords, Sane(l), ~l.already, NEW m \in Nat \ {0}, InPhase(l, m, 0)
  PROVE  InPhase(Trigger(l), m, 0) /\ Inside(Trigger(l))
<1> DEFINE pos == IF IsPlaying(l.mode) /\ l.pos >= l.len THEN 0 ELSE l.pos
           q == CountDown(l.planned)
           counted == [l EXCEPT !.already = TRUE, !.triggering = TRUE, !.pos = pos,
                                !.planned = CountDown(@)]
<1>1. /\ counted \in LoopsWith({q}) /\ counted.mode = l.mode /\ counted.len = l.len
      /\ counted.pos = pos /\ l.planned \in Seq(Plans)
  BY DEF LoopsWith, LoopRecords
<1>2. InPhase(counted, m, 0) /\ Inside(counted)
  <2>1. 0 % m = 0 /\ l.pos \in Nat /\ l.len \in Nat
    BY Within DEF LoopRecords
  <2>2. IsPlaying(l.mode) => pos \in Nat /\ pos % m = 0 /\ pos < l.len
    BY <2>1 DEF InPhase, Sane
  <2> HIDE DEF pos, counted
  <2>3. QED
    BY <1>1, <2>1, <2>2 DEF InPhase, Inside
<1>3. CASE l.planned # <<>> /\ l.planned[1].delay = 0
  <2> DEFINE mode == l.planned[1].mode
             h == HandleTransition(counted, mode)
             t == [h EXCEPT !.planned = Tail(@)]
  <2>1. Trigger(l) = t
    BY <1>3 DEF Trigger
  <2>2. mode \in Modes
    <3>1. l.planned[1] \in Plans
      BY <1>1, <1>3, FunctionOfSeq
    <3>2. QED
      BY <3>1 DEF Plans
  <2> HIDE DEF mode, counted
  <2>3. h \in LoopsWith({q}) /\ InPhase(h, m, 0) /\ Inside(h)
    BY <1>1, <1>2, <2>2, HandleTransitionFacts, TransitionInPhase
  <2> HIDE DEF h
  <2>4. t.mode = h.mode /\ t.pos = h.pos /\ t.len = h.len
    BY <2>3 DEF LoopsWith
  <2> HIDE DEF t
  <2>5. QED
    BY <2>1, <2>3, <2>4 DEF InPhase, Inside
<1>4. CASE ~(l.planned # <<>> /\ l.planned[1].delay = 0)
  <2>1. Trigger(l) = counted
    BY <1>4 DEF Trigger
  <2>2. QED
    BY <1>2, <2>1
<1>5. QED
  BY <1>3, <1>4

\* A follower that hears its source trigger reacts once, at the start of a cycle.
LEMMA HandleSyncInPhase ==
  ASSUME NEW l \in LoopRecords, Sane(l), l.snap.synced, NEW m \in Nat \ {0}, NEW p \in Nat,
         InPhase(l, m, p), l.snap.triggering => p = 0,
         Inside(l) \/ (l.snap.triggering /\ ~l.already)
  PROVE  LET h == HandleSync(l)
         IN  InPhase(h, m, p) /\ Inside(h) /\ h.snap.synced
<1>1. CASE l.snap.triggering /\ ~l.already
  <2> DEFINE t == Trigger(l)
  <2>1. InPhase(t, m, 0) /\ Inside(t) /\ p = 0
    BY <1>1, TriggerInPhase
  <2>2. t \in LoopRecords /\ Sane(t) /\ t.snap = l.snap
    BY TriggerFacts DEF Sane, HasContent
  <2>3. HandleSync(l) = StopIfEmpty(t)
    BY <1>1 DEF HandleSync
  <2> HIDE DEF t
  <2>4. StopIfEmpty(t) = t
    BY <2>2 DEF StopIfEmpty, Sane
  <2>5. QED
    BY <2>1, <2>2, <2>3, <2>4
<1>2. CASE ~(l.snap.triggering /\ ~l.already)
  <2>1. StopIfEmpty(l) = l
    BY DEF StopIfEmpty, Sane
  <2>2. HandleSync(l) = l
    BY <1>2, <2>1 DEF HandleSync, Trigger
  <2>3. QED
    BY <1>2, <2>2
<1>3. QED
  BY <1>1, <1>2

\* The fields that an advance touches.
LEMMA MovedFields ==
  ASSUME NEW l \in LoopRecords, NEW n \in Nat, Inside(l), HasPoi(l) => l.pos + n <= l.len
  PROVE  LET k == Moved(l, n)
         IN  /\ k \in LoopRecords
             /\ k.mode = l.mode /\ k.planned = l.planned /\ k.snap = l.snap
             /\ k.triggering = FALSE /\ k.already = FALSE
             /\ k.len = IF l.mode = "Recording" THEN l.len + n ELSE l.len
             /\ k.pos = IF IsPlaying(l.mode) THEN l.pos + n ELSE l.pos
<1> DEFINE fresh == [l EXCEPT !.triggering = FALSE, !.already = FALSE]
           k == Moved(l, n)
<1>1. /\ fresh \in LoopRecords /\ fresh.mode = l.mode /\ fresh.planned = l.planned
      /\ fresh.snap = l.snap /\ fresh.triggering = FALSE /\ fresh.already = FALSE
      /\ fresh.len = l.len /\ fresh.pos = l.pos /\ l.len \in Nat /\ l.pos \in Nat
  BY DEF LoopRecords
<1>2. IsPlaying(l.mode) => l.pos + n <= l.len
  BY DEF Inside, HasPoi
<1>3. CASE l.mode = "Recording"
  <2>1. k = [fresh EXCEPT !.len = @ + n] /\ ~IsPlaying(l.mode)
    BY <1>3 DEF Moved, IsPlaying
  <2> HIDE DEF fresh, k
  <2>2. QED
    BY <1>1, <1>3, <2>1 DEF LoopRecords, k
<1>4. CASE l.mode = "Replacing"
  <2>1. k = [fresh EXCEPT !.pos = @ + n, !.len = Greater(@, l.pos + n)] /\ IsPlaying(l.mode)
    BY <1>4 DEF Moved, IsPlaying
  <2>2. Greater(fresh.len, l.pos + n) = l.len /\ fresh.pos + n = l.pos + n /\ l.pos + n \in Nat
    BY <1>1, <1>2, <2>1 DEF Greater
  <2> HIDE DEF fresh, k
  <2>3. QED
    BY <1>1, <1>4, <2>1, <2>2 DEF LoopRecords, k
<1>5. CASE l.mode \notin {"Recording", "Replacing"} /\ IsPlaying(l.mode)
  <2>1. k = [fresh EXCEPT !.pos = Smaller(@ + n, l.len)]
    BY <1>5 DEF Moved
  <2>2. Smaller(l.pos + n, l.len) = l.pos + n
    BY <1>1, <1>2, <1>5 DEF Smaller
  <2> HIDE DEF fresh, k
  <2>3. QED
    BY <1>1, <1>5, <2>1, <2>2 DEF LoopRecords, k
<1>6. CASE l.mode # "Recording" /\ ~IsPlaying(l.mode)
  <2>1. k = fresh
    BY <1>6 DEF Moved, IsPlaying
  <2> HIDE DEF fresh, k
  <2>2. QED
    BY <1>1, <1>6, <2>1 DEF k
<1>7. QED
  BY <1>3, <1>4, <1>5, <1>6

\* A source: it plays, nobody tells it anything, and storage ends at the end of
\* one of its cycles.
Leads(a) == /\ IsPlaying(a.mode) /\ a.pos < a.len /\ a.planned = <<>> /\ ~a.snap.synced
            /\ StorageLimit % a.len = 0

\* It triggers where its cycle ends, and starts again.
LEMMA LeadMoves ==
  ASSUME NEW a \in LoopRecords, Leads(a), NEW n \in Nat, a.pos + n <= a.len
  PROVE  LET b == Process(a, n)
         IN  /\ Leads(b) /\ b.len = a.len
             /\ a.pos + n = a.len => b.pos = 0 /\ b.triggering
             /\ a.pos + n < a.len => b.pos = a.pos + n /\ ~b.triggering
<1> DEFINE b == Process(a, n)
           k == Moved(a, n)
<1> SUFFICES /\ Leads(b) /\ b.len = a.len
             /\ a.pos + n = a.len => b.pos = 0 /\ b.triggering
             /\ a.pos + n < a.len => b.pos = a.pos + n /\ ~b.triggering
  OBVIOUS
<1>1. /\ a.pos \in Nat /\ a.len \in Nat /\ a.mode # "Recording" /\ IsPlaying(a.mode)
      /\ a.snap \in Snapshots /\ Inside(a)
  BY DEF Leads, LoopRecords, IsPlaying, Inside
<1>2. /\ k \in LoopRecords
      /\ k.mode = a.mode /\ k.planned = <<>> /\ k.snap = a.snap
      /\ k.triggering = FALSE /\ k.already = FALSE
      /\ k.len = a.len /\ k.pos = a.pos + n
  BY <1>1, MovedFields DEF Leads
<1>3. ~Exhausted(a, n) /\ ~SyncActive(a) /\ (ReachesEnd(a, n) <=> a.pos + n = a.len)
  BY <1>1 DEF Exhausted, SyncActive, ReachesEnd, HasPoi, NextPoi, Leads
<1>4. CASE a.pos + n = a.len
  <2> DEFINE t == Trigger(k)
             counted == [k EXCEPT !.already = TRUE, !.triggering = TRUE, !.pos = 0,
                                  !.planned = CountDown(@)]
  <2>1. b = StopIfEmpty(t)
    BY <1>3, <1>4 DEF Process
  <2> HIDE DEF k, b
  <2>2. t = counted
    BY <1>1, <1>2, <1>4 DEF Trigger
  <2>3. CountDown(<<>>) = <<>>
    BY DEF CountDown
  <2>4. /\ counted.mode = a.mode /\ counted.pos = 0 /\ counted.len = a.len
        /\ counted.planned = <<>> /\ counted.snap = a.snap /\ counted.triggering
    BY <1>2, <2>3 DEF LoopRecords
  <2> HIDE DEF counted, t
  <2>5. StopIfEmpty(t) = t
    BY <1>1, <2>2, <2>4 DEF StopIfEmpty, Leads
  <2>6. Leads(t)
    BY <1>1, <2>2, <2>4 DEF Leads
  <2>7. b = t /\ b.pos = 0 /\ b.len = a.len /\ b.triggering
    BY <2>1, <2>2, <2>4, <2>5
  <2>8. QED
    BY <1>1, <1>4, <2>6, <2>7
<1>5. CASE a.pos + n < a.len
  <2>1. b = k
    BY <1>1, <1>3, <1>5 DEF Process
  <2> HIDE DEF k, b
  <2>2. Leads(k)
    BY <1>1, <1>2, <1>5 DEF Leads
  <2>3. QED
    BY <1>1, <1>2, <1>5, <2>1, <2>2
<1>6. QED
  BY <1>1, <1>4, <1>5

\* A recording whose storage is full keeps what it has, which is whole cycles.
LEMMA ExhaustedStops ==
  ASSUME NEW l \in LoopRecords, NEW n \in Nat, Exhausted(l, n)
  PROVE  LET k == Process(l, n)
         IN  k.mode = "Stopped" /\ k.len = l.len /\ k.snap = l.snap
<1> DEFINE k == Process(l, n)
           moved == Moved(l, n)
           cut == SetLength(moved, l.len)
           back == SetPosition(cut, 0)
<1>1. l.mode = "Recording" /\ l.len \in Nat /\ LoopRecords = LoopsWith(Seq(Plans))
  BY DEF Exhausted, LoopRecords, LoopsWith
<1>2. moved \in LoopRecords /\ moved.mode = "Recording" /\ moved.snap = l.snap
  BY <1>1, MovedFields DEF Inside, HasPoi, IsPlaying
<1>3. k = HandleTransition(back, "Stopped")
  BY DEF Process
<1> HIDE DEF moved, k
<1>4. cut \in LoopRecords /\ cut.mode = "Recording" /\ cut.len = l.len /\ cut.snap = l.snap
  <2>1. cut \in LoopRecords /\ cut.snap = l.snap
    BY <1>1, <1>2, SetLengthFacts DEF KeepsMarks
  <2>2. CASE l.len = moved.len
    BY <1>2, <2>1, <2>2 DEF SetLength
  <2>3. CASE l.len # moved.len
    <3> DEFINE pos == IF moved.pos < l.len THEN moved.pos
                      ELSE IF l.len = 0 THEN 0 ELSE moved.pos % l.len
               made == [moved EXCEPT !.len = l.len, !.pos = pos]
    <3>1. cut = StopIfEmpty(made)
      BY <1>2, <2>3 DEF SetLength, LoopRecords
    <3>2. made.mode = "Recording" /\ made.len = l.len
      BY <1>2 DEF LoopRecords
    <3> HIDE DEF made, cut
    <3>3. StopIfEmpty(made) = made
      BY <3>2 DEF StopIfEmpty, IsPlaying
    <3>4. QED
      BY <2>1, <3>1, <3>2, <3>3
  <2>4. QED
    BY <2>2, <2>3
<1> HIDE DEF cut
<1>5. back \in LoopRecords /\ back.mode = "Recording" /\ back.len = l.len /\ back.snap = l.snap
  <2>1. back \in LoopRecords /\ back.snap = l.snap
    BY <1>1, <1>4, SetPositionFacts DEF KeepsMarks
  <2>2. CASE cut.pos = 0
    BY <1>4, <2>1, <2>2 DEF SetPosition
  <2>3. CASE cut.pos # 0
    <3> DEFINE made == [cut EXCEPT !.pos = 0]
    <3>1. back = StopIfEmpty(made)
      BY <2>3 DEF SetPosition
    <3>2. made.mode = "Recording" /\ made.len = l.len
      BY <1>4 DEF LoopRecords
    <3> HIDE DEF made, back
    <3>3. StopIfEmpty(made) = made
      BY <3>2 DEF StopIfEmpty, IsPlaying
    <3>4. QED
      BY <2>1, <3>1, <3>2, <3>3
  <2>4. QED
    BY <2>2, <2>3
<1> HIDE DEF back
<1>6. k.snap = l.snap
  <2>1. KeepsMarks(back, HandleTransition(back, "Stopped"))
    BY <1>1, <1>5, HandleTransitionFacts DEF Modes
  <2>2. QED
    BY <1>3, <1>5, <2>1 DEF KeepsMarks
<1>7. k.mode = "Stopped" /\ k.len = l.len
  <2> DEFINE made == [back EXCEPT !.mode = "Stopped", !.pos = 0, !.len = @,
                                  !.triggering = @ \/ FALSE]
  <2>1. k = StopIfEmpty(made)
    BY <1>3, <1>5 DEF HandleTransition, IsPlaying
  <2>2. made.mode = "Stopped" /\ made.len = l.len
    BY <1>5 DEF LoopRecords
  <2> HIDE DEF made
  <2>3. StopIfEmpty(made) = made
    BY <2>2 DEF StopIfEmpty, IsPlaying
  <2>4. QED
    BY <2>1, <2>2, <2>3
<1>8. QED
  BY <1>6, <1>7 DEF k

\* A follower moves along with its source, and is only at its end where the
\* source is at the end of a cycle.
LEMMA FollowerMoves ==
  ASSUME NEW l \in LoopRecords, Inside(l), SyncActive(l),
         NEW m \in Nat \ {0}, NEW p \in 0..m-1, InPhase(l, m, p), StorageLimit % m = 0,
         NEW n \in Nat, p + n <= m, HasPoi(l) => l.pos + n <= l.len
  PROVE  LET k == Process(l, n)
         IN  /\ InPhase(k, m, IF p + n = m THEN 0 ELSE p + n) /\ k.snap = l.snap
             /\ Inside(k) \/ (p + n = m /\ ~k.already)
<1> DEFINE k == Process(l, n)
           after == IF p + n = m THEN 0 ELSE p + n
<1> SUFFICES InPhase(k, m, after) /\ k.snap = l.snap /\ (Inside(k) \/ (p + n = m /\ ~k.already))
  OBVIOUS
<1>1. l.len \in Nat /\ l.pos \in Nat /\ StorageLimit \in Nat
  BY StorageLimitAssumption DEF LoopRecords
<1>2. ASSUME NEW x \in Nat, x % m = p PROVE (x + n) % m = after
  <2>1. CASE p + n = m
    <3>1. (x % m) + n = m
      BY <1>2, <2>1
    <3>2. QED
      BY <2>1, <3>1, Around
  <2>2. CASE p + n < m
    <3>1. (x % m) + n < m
      BY <1>2, <2>2
    <3>2. (x + n) % m = (x % m) + n
      BY <3>1, Along
    <3>3. QED
      BY <1>2, <2>2, <3>2
  <2>3. QED
    BY <2>1, <2>2
<1>3. CASE Exhausted(l, n)
  <2>1. k.mode = "Stopped" /\ k.len = l.len /\ k.snap = l.snap
    BY <1>3, ExhaustedStops
  <2> HIDE DEF k
  <2>2. l.len % m = 0
    BY <1>1, <1>3, AtLimit DEF Exhausted, InPhase
  <2>3. QED
    BY <2>1, <2>2 DEF InPhase, Inside, IsPlaying
<1>4. CASE ~Exhausted(l, n)
  <2>1. k = Moved(l, n)
    BY <1>4 DEF Process
  <2> HIDE DEF k
  <2>2. /\ k.mode = l.mode /\ k.snap = l.snap /\ k.already = FALSE
        /\ k.len = IF l.mode = "Recording" THEN l.len + n ELSE l.len
        /\ k.pos = IF IsPlaying(l.mode) THEN l.pos + n ELSE l.pos
    BY <2>1, MovedFields
  <2>3. CASE l.mode = "Recording"
    <3>1. k.len = l.len + n /\ ~IsPlaying(k.mode)
      BY <2>2, <2>3 DEF IsPlaying
    <3>2. k.len % m = after /\ k.len <= StorageLimit
      BY <1>1, <1>2, <1>4, <2>3, <3>1 DEF Exhausted, InPhase
    <3> HIDE DEF after
    <3>3. QED
      BY <2>2, <2>3, <3>1, <3>2 DEF InPhase, Inside
  <2>4. CASE IsPlaying(l.mode)
    <3>1. l.mode # "Recording" /\ k.len = l.len /\ k.pos = l.pos + n
      BY <2>2, <2>4 DEF IsPlaying
    <3>2. l.len % m = 0 /\ l.pos % m = p /\ l.pos < l.len /\ l.pos + n <= l.len
      BY <2>4, <3>1 DEF InPhase, Inside, HasPoi
    <3>3. (l.pos + n) % m = after
      BY <1>1, <1>2, <3>2
    <3>4. l.pos + n < l.len \/ p + n = m
      BY <1>1, <3>2, <3>3
    <3> HIDE DEF after
    <3>5. InPhase(k, m, after)
      BY <2>2, <3>1, <3>2, <3>3 DEF InPhase
    <3>6. QED
      BY <2>2, <3>1, <3>4, <3>5 DEF Inside
  <2>5. CASE l.mode # "Recording" /\ ~IsPlaying(l.mode)
    BY <2>2, <2>5 DEF InPhase, Inside
  <2>6. QED
    BY <2>3, <2>4, <2>5
<1>5. QED
  BY <1>3, <1>4

\* A plan is kept for a trigger, or carried out at once by a loop that knows no
\* source, while its source is at the start of a cycle.
LEMMA PlanInPhase ==
  ASSUME NEW l \in LoopRecords, NEW mode \in Modes, NEW delay \in Nat,
         NEW m \in Nat \ {0}, NEW p \in Nat, InPhase(l, m, p), Inside(l), l.snap.synced \/ p = 0
  PROVE  LET k == PlanDelayed(l, mode, delay)
         IN  InPhase(k, m, p) /\ Inside(k) /\ k.snap = l.snap
<1> DEFINE k == PlanDelayed(l, mode, delay)
<1>1. CASE ~l.snap.synced /\ l.mode # "Playing"
  <2> DEFINE h == HandleTransition(l, mode)
             made == [h EXCEPT !.planned = <<>>]
  <2>1. k = made /\ p = 0
    BY <1>1 DEF PlanDelayed
  <2>2. h \in LoopRecords /\ h.snap = l.snap /\ InPhase(h, m, 0) /\ Inside(h)
    <3>1. LoopRecords = LoopsWith(Seq(Plans))
      BY DEF LoopRecords, LoopsWith
    <3>2. QED
      BY <2>1, <3>1, HandleTransitionFacts, TransitionInPhase DEF KeepsMarks
  <2> HIDE DEF h, k
  <2>3. made.mode = h.mode /\ made.pos = h.pos /\ made.len = h.len /\ made.snap = h.snap
    BY <2>2 DEF LoopRecords
  <2> HIDE DEF made
  <2>4. QED
    BY <2>1, <2>2, <2>3 DEF InPhase, Inside, k
<1>2. CASE ~(~l.snap.synced /\ l.mode # "Playing")
  <2> DEFINE made == [l EXCEPT !.planned = Insert(@, mode, delay)]
  <2>1. k = made
    BY <1>2 DEF PlanDelayed
  <2> HIDE DEF k
  <2>2. made.mode = l.mode /\ made.pos = l.pos /\ made.len = l.len /\ made.snap = l.snap
    BY DEF LoopRecords
  <2> HIDE DEF made
  <2>3. QED
    BY <2>1, <2>2 DEF InPhase, Inside, k
<1>3. QED
  BY <1>1, <1>2

-----------------------------------------------------------------------------
(* Followers on the grid.                                                  *)

\* A follower i, its source and where the callback is.
Stays(i) ==
  LET a == loops[source[i]]
      l == loops[i]
  IN /\ source[i] \notin Controlled /\ source[source[i]] = None
     /\ Leads(a) /\ InPhase(l, a.len, a.pos)
     /\ Inside(l) \/ (phase = "waves" /\ a.triggering /\ ~l.already)
     /\ l.snap.synced \/ (phase \in {"control", "split"} /\ a.pos = 0)
     /\ phase = "waves" /\ a.triggering => a.pos = 0

AllStay == \A i \in Loops : source[i] # None => Stays(i)

\* The records of a follower and of its source.
LEMMA StaysRecords ==
  ASSUME IInv, AllStay, NEW i \in Loops, source[i] # None
  PROVE  LET a == loops[source[i]]
             l == loops[i]
         IN  /\ source[i] \in Loops /\ a \in LoopRecords /\ l \in LoopRecords
             /\ Sane(a) /\ Sane(l) /\ Leads(a) /\ Stays(i)
             /\ a.len \in Nat \ {0} /\ a.pos \in 0..(a.len - 1)
<1>1. /\ source[i] \in Loops /\ loops[source[i]] \in LoopRecords /\ loops[i] \in LoopRecords
      /\ Sane(loops[source[i]]) /\ Sane(loops[i])
  BY DEF IInv, TypeOK, LoopsAreSane
<1>2. Stays(i) /\ Leads(loops[source[i]])
  BY DEF AllStay, Stays
<1>3. loops[source[i]].len \in Nat /\ loops[source[i]].pos \in Nat
      /\ loops[source[i]].pos < loops[source[i]].len
  BY <1>1, <1>2 DEF Leads, LoopRecords
<1>4. QED
  BY <1>1, <1>2, <1>3

\* What a follower sees of its source, and its source of nobody.
LEMMA StaysSeen ==
  ASSUME IInv, AllStay, NEW i \in Loops, source[i] # None
  PROVE  /\ Refreshed[source[i]] = loops[source[i]]
         /\ Refreshed[i] = [loops[i] EXCEPT !.snap = Snapshot(loops[source[i]])]
         /\ Refreshed[i].mode = loops[i].mode /\ Refreshed[i].pos = loops[i].pos
         /\ Refreshed[i].len = loops[i].len /\ Refreshed[i].already = loops[i].already
         /\ Refreshed[i].snap = Snapshot(loops[source[i]])
<1>1. /\ source[i] \in Loops /\ source[source[i]] = None /\ loops[i] \in LoopRecords
      /\ Sane(loops[i])
  BY StaysRecords DEF Stays
<1>2. Refreshed[source[i]] = loops[source[i]]
  BY <1>1 DEF Refreshed
<1> DEFINE snap == Snapshot(loops[source[i]])
           seen == [loops[i] EXCEPT !.snap = snap]
<1>3. Refreshed[i] = StopIfEmpty(seen)
  BY DEF Refreshed
<1> HIDE DEF snap
<1>4. /\ seen.mode = loops[i].mode /\ seen.pos = loops[i].pos /\ seen.len = loops[i].len
      /\ seen.already = loops[i].already /\ seen.snap = snap
  BY <1>1 DEF LoopRecords
<1>5. seen = StopIfEmpty(seen)
  <2> HIDE DEF seen
  <2>1. QED
    BY <1>1, <1>4 DEF StopIfEmpty, Sane
<1>6. QED
  BY <1>2, <1>3, <1>4, <1>5 DEF snap

LEMMA InitStays == Synchronised /\ Init => AllStay
<1> SUFFICES ASSUME Synchronised, Init, NEW i \in Loops, source[i] # None PROVE Stays(i)
  BY DEF AllStay
<1>1. PICK s \in Sessions : loops = s.loops /\ source = s.source
  BY DEF Init
<1>2. StartsOnGrid(s, i)
  BY <1>1 DEF Synchronised
<1>3. source[i] \in Loops /\ loops[i] \in LoopRecords
  BY InitInv DEF IInv, TypeOK
<1>4. IsPlaying(loops[i].mode) => loops[i].pos <= loops[i].len /\ loops[i].mode # "Recording"
  BY <1>1, <1>2, <1>3 DEF StartsOnGrid, LoopRecords, IsPlaying
<1>5. QED
  BY <1>1, <1>2, <1>4 DEF StartsOnGrid, Stays, Leads, InPhase, Inside, Init

LEMMA ControlStays == Synchronised /\ IInv /\ AllStay /\ Control => AllStay'
<1> SUFFICES ASSUME Synchronised, IInv, AllStay, Control PROVE AllStay'
  OBVIOUS
<1>1. ASSUME NEW c \in Controlled, NEW mode \in ModesUsed, NEW d \in Delays,
             PlanTransition(c, mode, d)
      PROVE  AllStay'
  <2>1. /\ phase = "control" /\ phase' = phase /\ source' = source
        /\ loops' = [loops EXCEPT ![c] = PlanDelayed(loops[c], mode, d)]
    BY <1>1 DEF PlanTransition, Command, Become, callbackVars
  <2> SUFFICES ASSUME NEW i \in Loops, source[i] # None PROVE Stays(i)'
    BY <2>1 DEF AllStay
  <2> DEFINE a == loops[source[i]]
             l == loops[i]
  <2>2. /\ source[i] \in Loops /\ a \in LoopRecords /\ l \in LoopRecords /\ Stays(i)
        /\ a.len \in Nat \ {0} /\ a.pos \in 0..(a.len - 1)
    BY StaysRecords
  <2>3. source[i] # c /\ loops'[source[i]] = a /\ loops \in [Loops -> LoopRecords]
    BY <2>1, <2>2 DEF Stays, IInv, TypeOK
  <2>4. CASE i # c
    <3>1. loops'[i] = l
      BY <2>1, <2>3, <2>4
    <3>2. QED
      BY <2>1, <2>2, <2>3, <3>1 DEF Stays
  <2>5. CASE i = c
    <3> DEFINE k == PlanDelayed(l, mode, d)
    <3>1. loops'[i] = k
      BY <2>1, <2>3, <2>5
    <3>2. InPhase(k, a.len, a.pos) /\ Inside(k) /\ k.snap = l.snap
      <4>1. mode \in Modes /\ d \in Nat
        BY LimitsAssumption
      <4>2. InPhase(l, a.len, a.pos) /\ Inside(l) /\ (l.snap.synced \/ a.pos = 0)
        BY <2>1, <2>2 DEF Stays
      <4>3. QED
        BY <2>2, <4>1, <4>2, PlanInPhase
    <3> HIDE DEF k
    <3>3. QED
      BY <2>1, <2>2, <2>3, <3>1, <3>2 DEF Stays
  <2>6. QED
    BY <2>4, <2>5
<1>2. CASE ResetFault
  BY <1>2 DEF ResetFault, AllStay, Stays
<1>3. \A kind, c : Command(kind, c) => kind = "plan"
  BY DEF Command, Synchronised
<1>4. /\ \A c, mode : ~SetMode(c, mode)
      /\ \A c, mode, n : ~AlignTransition(c, mode, n)
      /\ \A c, n : ~ChangeLength(c, n) /\ ~ClearLoop(c, n) /\ ~SetSyncSource(c, n)
      /\ \A c : ~RemoveLoop(c)
  BY <1>3 DEF SetMode, AlignTransition, ChangeLength, ClearLoop, SetSyncSource, RemoveLoop
<1>5. QED
  BY <1>1, <1>2, <1>4 DEF Control

LEMMA AdvanceStays == IInv /\ AllStay /\ Advance => AllStay'
<1> SUFFICES ASSUME IInv, AllStay, Advance PROVE AllStay'
  OBVIOUS
<1> DEFINE seen == Refreshed
           points == Ends(seen) \cup {remaining}
<1>1. PICK n \in points :
        /\ \A e \in points : n <= e
        /\ loops' = [i \in Loops |-> Process(seen[i], n)]
  BY DEF Advance, seen
<1>2. source' = source /\ phase' = "waves"
  BY DEF Advance
<1>3. \A i \in Loops : seen[i] \in LoopRecords
  BY RefreshFacts DEF IInv
<1>4. \A i \in Loops : HasPoi(seen[i]) => NextPoi(seen[i]) \in points
  BY DEF Ends
<1>5. n \in Nat
  <2>1. ASSUME NEW i \in Loops, HasPoi(seen[i]) PROVE NextPoi(seen[i]) \in Nat
    BY <1>3, <2>1 DEF HasPoi, NextPoi, LoopRecords
  <2>2. remaining \in Nat
    BY DEF IInv, TypeOK
  <2>3. QED
    BY <2>1, <2>2 DEF Ends
<1> HIDE DEF points
<1>6. \A i \in Loops : HasPoi(seen[i]) => seen[i].pos + n <= seen[i].len
  <2> SUFFICES ASSUME NEW i \in Loops, HasPoi(seen[i]) PROVE seen[i].pos + n <= seen[i].len
    OBVIOUS
  <2>1. n <= NextPoi(seen[i])
    BY <1>1, <1>4
  <2>2. seen[i].pos \in Nat /\ seen[i].len \in Nat
    BY <1>3 DEF LoopRecords
  <2>3. QED
    BY <1>5, <2>1, <2>2 DEF NextPoi
<1> SUFFICES ASSUME NEW i \in Loops, source[i] # None PROVE Stays(i)'
  BY <1>2 DEF AllStay
<1> DEFINE a == loops[source[i]]
           l == seen[i]
           m == a.len
           p == a.pos
           b == Process(a, n)
           k == Process(l, n)
<1>7. /\ source[i] \in Loops /\ a \in LoopRecords /\ Stays(i) /\ Leads(a)
      /\ m \in Nat \ {0} /\ p \in 0..(m - 1) /\ phase = "split"
  BY StaysRecords DEF Advance
<1>8. /\ seen[source[i]] = a /\ l.mode = loops[i].mode /\ l.pos = loops[i].pos
      /\ l.len = loops[i].len /\ l.snap = Snapshot(a)
  BY StaysSeen
<1>9. p + n <= m
  BY <1>6, <1>7, <1>8 DEF HasPoi, Leads
<1>10. loops'[i] = k /\ loops'[source[i]] = b
  BY <1>1, <1>7, <1>8
<1>11. /\ Leads(b) /\ b.len = m /\ (p + n = m => b.pos = 0 /\ b.triggering)
       /\ p + n # m => b.pos = p + n /\ ~b.triggering
  BY <1>5, <1>7, <1>9, LeadMoves
<1>12. /\ InPhase(k, m, IF p + n = m THEN 0 ELSE p + n) /\ k.snap = l.snap
       /\ Inside(k) \/ (p + n = m /\ ~k.already)
  <2>1. l \in LoopRecords /\ (HasPoi(l) => l.pos + n <= l.len)
    BY <1>3, <1>6
  <2>2. Inside(l) /\ InPhase(l, m, p) /\ StorageLimit % m = 0
    BY <1>7, <1>8 DEF Stays, Inside, InPhase, Leads
  <2>3. SyncActive(l)
    BY <1>7, <1>8 DEF SyncActive, Snapshot, Leads
  <2> HIDE DEF l, m, p
  <2>4. QED
    BY <1>5, <1>7, <1>9, <2>1, <2>2, <2>3, FollowerMoves
<1>13. l.snap.synced
  BY <1>8 DEF Snapshot
<1> HIDE DEF k, b, l, a
<1>14. InPhase(k, b.len, b.pos)
  BY <1>11, <1>12
<1>15. /\ (source[i] \notin Controlled /\ source[source[i]] = None)'
  BY <1>2, <1>7 DEF Stays
<1>16. QED
  BY <1>2, <1>10, <1>11, <1>12, <1>13, <1>14, <1>15 DEF Stays

LEMMA SyncWaveStays == IInv /\ AllStay /\ SyncWave => AllStay'
<1> SUFFICES ASSUME IInv, AllStay, SyncWave, NEW i \in Loops, source[i] # None PROVE Stays(i)'
  BY DEF AllStay, SyncWave
<1> DEFINE seen == Refreshed
           a == loops[source[i]]
           l == seen[i]
           h == HandleSync(l)
<1>1. loops' = [j \in Loops |-> HandleSync(seen[j])] /\ source' = source /\ phase = "waves"
  BY DEF SyncWave
<1>2. /\ source[i] \in Loops /\ a \in LoopRecords /\ Stays(i) /\ Leads(a)
      /\ a.len \in Nat \ {0} /\ a.pos \in 0..(a.len - 1)
  BY StaysRecords
<1>3. l \in LoopRecords /\ Sane(l)
  BY RefreshFacts DEF IInv
<1>4. /\ seen[source[i]] = a /\ l.mode = loops[i].mode /\ l.pos = loops[i].pos
      /\ l.len = loops[i].len /\ l.already = loops[i].already /\ l.snap = Snapshot(a)
  BY StaysSeen
<1>5. HandleSync(a) = a
  BY <1>2 DEF HandleSync, Leads
<1>6. loops'[i] = h /\ loops'[source[i]] = a
  BY <1>1, <1>2, <1>4, <1>5
<1>7. l.snap.synced /\ l.snap.triggering = a.triggering
  BY <1>4 DEF Snapshot
<1> HIDE DEF seen
<1>8. InPhase(h, a.len, a.pos) /\ Inside(h) /\ h.snap.synced
  <2>1. InPhase(l, a.len, a.pos) /\ (Inside(l) \/ (a.triggering /\ ~l.already))
    BY <1>2, <1>4 DEF Stays, InPhase, Inside
  <2>2. a.triggering => a.pos = 0
    BY <1>1, <1>2 DEF Stays
  <2> HIDE DEF a, l
  <2>3. QED
    BY <1>2, <1>3, <1>7, <2>1, <2>2, HandleSyncInPhase
<1> HIDE DEF h, l
<1>9. QED
  BY <1>1, <1>2, <1>6, <1>8 DEF Stays

\* Every step keeps followers where they belong.
LEMMA StepStays == Synchronised /\ IInv /\ AllStay /\ [Next]_vars => AllStay'
<1> SUFFICES ASSUME Synchronised, IInv, AllStay, [Next]_vars PROVE AllStay'
  OBVIOUS
<1>1. CASE Control
  BY <1>1, ControlStays
<1>2. CASE Advance
  BY <1>2, AdvanceStays
<1>3. CASE SyncWave
  BY <1>3, SyncWaveStays
<1>4. CASE TooManySubBlocks
  BY <1>4 DEF TooManySubBlocks, AllStay, Stays
<1>5. CASE FinishSubBlock
  BY <1>5 DEF FinishSubBlock, AllStay, Stays
<1>6. ASSUME NEW n \in Frames, BeginCallback(n) PROVE AllStay'
  BY <1>6 DEF BeginCallback, AllStay, Stays
<1>7. CASE UNCHANGED vars
  BY <1>7 DEF vars, AllStay, Stays
<1>8. QED
  BY <1>1, <1>2, <1>3, <1>4, <1>5, <1>6, <1>7 DEF Next, Callback

(* Followers that are told to transit at triggers only hold whole cycles of    *)
(* their source and play in step with it, whatever the driver's blocks, the    *)
(* plans and the storage: for any number of loops, sources of any length and   *)
(* any position they start from (basic_loop.rs; process_loop_group).           *)
THEOREM FollowersKeepToGrid == Synchronised => (Spec => []FollowersOnGrid)
<1> SUFFICES ASSUME Synchronised PROVE Spec => []FollowersOnGrid
  OBVIOUS
<1>1. Init => AllStay
  BY InitStays
<1>2. IInv /\ AllStay /\ [Next]_vars => AllStay'
  BY StepStays
<1>3. IInv /\ AllStay => FollowersOnGrid
  <2> SUFFICES ASSUME IInv, AllStay, NEW i \in Loops, source[i] # None PROVE OnGrid(i)
    BY DEF FollowersOnGrid
  <2> DEFINE a == loops[source[i]]
  <2>1. Stays(i) /\ a.len \in Nat \ {0} /\ a.pos \in 0..(a.len - 1)
    BY StaysRecords
  <2>2. a.pos % a.len = a.pos
    BY <2>1, Within
  <2>3. QED
    BY <2>1, <2>2 DEF Stays, InPhase, OnGrid
<1>4. QED
  BY <1>1, <1>2, <1>3, Invariance, PTL DEF Spec
=============================================================================
