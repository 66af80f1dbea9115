----------------------------- MODULE IoTasksProofs -----------------------------
(***************************************************************************)
(* Proofs about IoTasks for any loops, documents, chunks, limits and       *)
(* bounds: what is saved or duplicated is one capture, taken after the     *)
(* operation began; the engine commits only what the operation under way   *)
(* transfers; and a task says of its transfer what became of it.           *)
(***************************************************************************)
EXTENDS IoTasks, SequenceTheorems, WellFoundedInduction, TLAPS

-----------------------------------------------------------------------------
(* Numbers and sequences.                                                  *)

\* A set of natural numbers has a smallest one.
LEMMA SmallestExists ==
  ASSUME NEW T, T \subseteq Nat, T # {}
  PROVE  \E i \in T : \A j \in T : i <= j
<1> DEFINE R == OpToRel(<, Nat)
<1>1. \A i, j \in Nat : <<j, i>> \in R <=> j < i
  BY Zenon DEF OpToRel
<1> HIDE DEF R
<1>2. PICK i \in T : \A j \in T : ~(<<j, i>> \in R)
  BY NatLessThanWellFounded, WFMin, Zenon DEF R
<1>3. \A j \in T : ~(j < i)
  BY <1>1, <1>2
<1>4. QED
  BY <1>3

LEMMA MinFacts ==
  ASSUME NEW T, T \subseteq Nat, T # {}
  PROVE  Min(T) \in T /\ \A j \in T : Min(T) <= j
<1>1. \E i \in T : \A j \in T : i <= j
  BY SmallestExists
<1>2. \E i \in T : \A j \in T : i =< j
  BY <1>1
<1>3. QED
  BY <1>2 DEF Min

\* More was appended, if anything.
Extends(long, short) ==
  Len(short) <= Len(long) /\ \A i \in DOMAIN short : i \in DOMAIN long /\ long[i] = short[i]
Added(long, short) == {i \in DOMAIN long : i > Len(short)}

LEMMA Domains ==
  ASSUME NEW S, NEW s \in Seq(S)
  PROVE  /\ Len(s) \in Nat /\ DOMAIN s = 1 .. Len(s)
         /\ \A i \in DOMAIN s : i \in Nat /\ i >= 1 /\ i <= Len(s) /\ s[i] \in S
BY LenProperties, ElementOfSeq

LEMMA Concatenated ==
  ASSUME NEW S, NEW s \in Seq(S), NEW t \in Seq(S)
  PROVE  /\ s \o t \in Seq(S) /\ Len(s \o t) = Len(s) + Len(t)
         /\ Extends(s \o t, s)
         /\ \A i \in DOMAIN t : Len(s) + i \in DOMAIN (s \o t) /\ (s \o t)[Len(s) + i] = t[i]
         /\ \A i \in Added(s \o t, s) : i - Len(s) \in DOMAIN t /\ (s \o t)[i] = t[i - Len(s)]
<1>1. /\ Len(s) \in Nat /\ DOMAIN s = 1 .. Len(s) /\ Len(t) \in Nat /\ DOMAIN t = 1 .. Len(t)
  BY Domains
<1>2. /\ s \o t \in Seq(S) /\ Len(s \o t) = Len(s) + Len(t)
      /\ \A i \in 1 .. Len(s) + Len(t) :
           (s \o t)[i] = IF i <= Len(s) THEN s[i] ELSE t[i - Len(s)]
  BY ConcatProperties
<1>3. DOMAIN (s \o t) = 1 .. Len(s) + Len(t)
  BY <1>2, Domains
<1>4. Extends(s \o t, s)
  BY <1>1, <1>2, <1>3 DEF Extends
<1>5. \A i \in DOMAIN t : Len(s) + i \in DOMAIN (s \o t) /\ (s \o t)[Len(s) + i] = t[i]
  BY <1>1, <1>2, <1>3
<1>6. \A i \in Added(s \o t, s) : i - Len(s) \in DOMAIN t /\ (s \o t)[i] = t[i - Len(s)]
  BY <1>1, <1>2, <1>3 DEF Added
<1>7. QED
  BY <1>2, <1>4, <1>5, <1>6

LEMMA Appended ==
  ASSUME NEW S, NEW s \in Seq(S), NEW x \in S
  PROVE  /\ Append(s, x) \in Seq(S) /\ Len(Append(s, x)) = Len(s) + 1
         /\ Extends(Append(s, x), s)
         /\ Added(Append(s, x), s) = {Len(s) + 1} /\ Append(s, x)[Len(s) + 1] = x
<1>1. /\ Len(s) \in Nat /\ DOMAIN s = 1 .. Len(s)
  BY Domains
<1>2. /\ Append(s, x) \in Seq(S) /\ Len(Append(s, x)) = Len(s) + 1
      /\ \A i \in 1 .. Len(s) : Append(s, x)[i] = s[i]
      /\ Append(s, x)[Len(s) + 1] = x
  BY AppendProperties
<1>3. DOMAIN Append(s, x) = 1 .. Len(s) + 1
  BY <1>2, Domains
<1>4. QED
  BY <1>1, <1>2, <1>3 DEF Extends, Added

LEMMA Popped ==
  ASSUME NEW S, NEW s \in Seq(S), s # <<>>
  PROVE  /\ 1 \in DOMAIN s /\ Head(s) = s[1] /\ Head(s) \in S
         /\ Tail(s) \in Seq(S) /\ Len(Tail(s)) = Len(s) - 1
         /\ \A i \in DOMAIN Tail(s) : i + 1 \in DOMAIN s /\ Tail(s)[i] = s[i + 1]
         /\ \A i \in DOMAIN s : i # 1 => i - 1 \in DOMAIN Tail(s) /\ Tail(s)[i - 1] = s[i]
<1>1. /\ Len(s) \in Nat /\ DOMAIN s = 1 .. Len(s)
  BY Domains
<1>2. /\ Head(s) \in S /\ Tail(s) \in Seq(S) /\ Len(s) # 0 /\ Len(Tail(s)) = Len(s) - 1
      /\ \A i \in 1 .. Len(Tail(s)) : Tail(s)[i] = s[i + 1]
  BY HeadTailProperties, EmptySeq
<1>3. DOMAIN Tail(s) = 1 .. Len(s) - 1
  BY <1>2, Domains
<1>4. Head(s) = s[1]
  OBVIOUS
<1>5. QED
  BY <1>1, <1>2, <1>3, <1>4

-----------------------------------------------------------------------------
(* The steps of the client.                                                *)

Steps ==
  [c : Clients, out : Seq(Messages), ok : BOOLEAN, data : Seq(Captures) \union Seq(Contents)]

\* The step r posted more than s did, and changed less than a poll.
Posts(r, s) ==
  /\ r \in Steps /\ Len(r.out) <= Capacity /\ Extends(r.out, s.out)
  /\ Attached \/ Len(r.out) = Len(s.out)
  /\ r.ok => s.ok
  /\ r.data = s.data

LEMMA Sizes ==
  /\ Chunks \in Nat /\ Chunks >= 1 /\ InFlight \in Nat /\ InFlight >= 1
  /\ Capacity \in Nat /\ Capacity >= 2
BY SizesAssumption

LEMMA Ranges ==
  ASSUME NEW n
  PROVE  /\ n \in 0 .. Chunks <=> n \in Nat /\ n <= Chunks
         /\ n \in 0 .. InFlight <=> n \in Nat /\ n <= InFlight
BY Sizes

LEMMA Names ==
  /\ None # Blank /\ None # Played /\ None \notin Loops
  /\ \A d \in Documents \union Files : d # None
BY NamesAssumption DEF None, Blank, Played

LEMMA KindNames == Kinds = {"session", "loop"} /\ \A g : Kind(g) \in Kinds
BY DEF Kinds, Kind

CaptureRecords ==
  [gen : Gens, known : BOOLEAN, got : Seq(Captures), next : 0 .. Chunks, flight : 0 .. InFlight]
ReplaceRecords ==
  [gen : Gens, goal : Contents, next : 0 .. Chunks, sent : BOOLEAN, complete : BOOLEAN]

LEMMA CaptureTypes ==
  ASSUME NEW cap
  PROVE  /\ cap \in CaptureTransfers => cap = NoTransfer \/ cap \in CaptureRecords
         /\ NoTransfer \in CaptureTransfers /\ NoTransfer.gen = 0
         /\ cap \in CaptureRecords =>
              /\ cap \in CaptureTransfers /\ cap.gen \in Nat /\ cap.gen # 0 /\ cap # NoTransfer
              /\ cap.known \in BOOLEAN /\ cap.got \in Seq(Captures)
              /\ cap.next \in Nat /\ cap.next <= Chunks
              /\ cap.flight \in Nat /\ cap.flight <= InFlight
         /\ cap \in CaptureTransfers /\ cap.gen # 0 => cap \in CaptureRecords
<1>1. NoTransfer.gen = 0
  BY DEF NoTransfer
<1>2. cap \in CaptureTransfers <=> cap = NoTransfer \/ cap \in CaptureRecords
  BY DEF CaptureTransfers, CaptureRecords
<1>3. cap \in CaptureRecords =>
        /\ cap.gen \in Nat /\ cap.gen # 0
        /\ cap.known \in BOOLEAN /\ cap.got \in Seq(Captures)
        /\ cap.next \in 0 .. Chunks /\ cap.flight \in 0 .. InFlight
  BY DEF CaptureRecords, Gens
<1>4. QED
  BY <1>1, <1>2, <1>3, Ranges DEF CaptureTransfers

LEMMA ReplaceTypes ==
  ASSUME NEW rep
  PROVE  /\ rep \in ReplaceTransfers => rep = NoTransfer \/ rep \in ReplaceRecords
         /\ NoTransfer \in ReplaceTransfers /\ NoTransfer.gen = 0
         /\ rep \in ReplaceRecords =>
              /\ rep \in ReplaceTransfers /\ rep.gen \in Nat /\ rep.gen # 0 /\ rep # NoTransfer
              /\ rep.sent \in BOOLEAN /\ rep.complete \in BOOLEAN /\ rep.goal \in Contents
              /\ rep.next \in Nat /\ rep.next <= Chunks
         /\ rep \in ReplaceTransfers /\ rep.gen # 0 => rep \in ReplaceRecords
<1>1. NoTransfer.gen = 0
  BY DEF NoTransfer
<1>2. rep \in ReplaceTransfers <=> rep = NoTransfer \/ rep \in ReplaceRecords
  BY DEF ReplaceTransfers, ReplaceRecords
<1>3. rep \in ReplaceRecords =>
        /\ rep.gen \in Nat /\ rep.gen # 0
        /\ rep.sent \in BOOLEAN /\ rep.complete \in BOOLEAN /\ rep.goal \in Contents
        /\ rep.next \in 0 .. Chunks
  BY DEF ReplaceRecords, Gens
<1>4. QED
  BY <1>1, <1>2, <1>3, Ranges DEF ReplaceTransfers

LEMMA StepTypes ==
  ASSUME NEW s
  PROVE  s \in Steps <=> /\ s = [c |-> s.c, out |-> s.out, ok |-> s.ok, data |-> s.data]
                         /\ s.c \in Clients /\ s.out \in Seq(Messages) /\ s.ok \in BOOLEAN
                         /\ s.data \in Seq(Captures) \union Seq(Contents)
BY DEF Steps

LEMMA ClientTypes ==
  ASSUME NEW c
  PROVE  c \in Clients <=>
           /\ c = [seen |-> c.seen, nextGen |-> c.nextGen, capture |-> c.capture,
                   replace |-> c.replace, errors |-> c.errors]
           /\ c.seen \in Gens /\ c.nextGen \in Gens /\ c.capture \in CaptureTransfers
           /\ c.replace \in [Kinds -> ReplaceTransfers]
           /\ c.errors \in SUBSET (Kinds \union {"capture"})
BY DEF Clients

LEMMA ReadFacts ==
  ASSUME NEW s \in Steps, s.c.capture.gen # 0, NEW n \in Nat, s.c.capture.next + n <= Chunks,
         s.c.capture.flight + n <= InFlight, Len(s.out) + n <= Capacity
  PROVE  /\ ReadsPosted(s, n) \in Steps /\ Len(ReadsPosted(s, n).out) = Len(s.out) + n
         /\ ReadsPosted(s, n).c = [s.c EXCEPT !.capture =
              [s.c.capture EXCEPT !.next = @ + n, !.flight = @ + n]]
         /\ Extends(ReadsPosted(s, n).out, s.out)
         /\ \A i \in Added(ReadsPosted(s, n).out, s.out) :
              /\ ReadsPosted(s, n).out[i].kind = "capture"
              /\ ReadsPosted(s, n).out[i].op = "read"
              /\ ReadsPosted(s, n).out[i].gen = s.c.capture.gen
         /\ ReadsPosted(s, n).ok = s.ok /\ ReadsPosted(s, n).data = s.data
<1> DEFINE cap == s.c.capture
           read(i) == Message("read", "capture", cap.gen, cap.next + i - 1, NoGoal)
           reads == [i \in 1 .. n |-> read(i)]
           more == [cap EXCEPT !.next = @ + n, !.flight = @ + n]
           c == [s.c EXCEPT !.capture = more]
           posted == ReadsPosted(s, n)
<1>1. /\ s.c \in Clients /\ s.out \in Seq(Messages) /\ s.ok \in BOOLEAN
      /\ s.data \in Seq(Captures) \union Seq(Contents)
  BY DEF Steps
<1>2. /\ cap \in CaptureRecords /\ cap.gen \in Gens
      /\ cap.next \in Nat /\ cap.flight \in Nat
  BY <1>1, CaptureTypes DEF Clients, Gens
<1>3. posted = [s EXCEPT !.c = c, !.out = s.out \o reads]
  BY <1>1, <1>2 DEF ReadsPosted, Steps, Clients, CaptureRecords
<1>4. c \in Clients
  <2>1. cap.next + n \in 0 .. Chunks /\ cap.flight + n \in 0 .. InFlight
    BY <1>2, Ranges
  <2>2. more \in CaptureRecords
    BY <1>2, <2>1 DEF CaptureRecords
  <2>3. more \in CaptureTransfers
    BY <2>2, CaptureTypes
  <2>4. QED
    BY <1>1, <2>3 DEF Clients
<1>5. reads \in Seq(Messages)
  <2>1. ASSUME NEW i \in 1 .. n
        PROVE  read(i) \in Messages
    <3>1. cap.next + i - 1 \in 0 .. Chunks
      <4> HIDE DEF cap
      <4>1. cap.next + i - 1 \in Nat /\ cap.next + i - 1 <= Chunks
        BY <1>2, Sizes DEF cap
      <4>2. QED
        BY <4>1, Ranges
    <3>2. NoGoal \in Goals
      BY DEF NoGoal, Goal, Goals
    <3>3. QED
      BY <1>2, <3>1, <3>2 DEF Message, Messages, Gens
  <2> HIDE DEF read
  <2>2. QED
    BY <2>1
<1>6. /\ \A i \in 1 .. n : reads[i].kind = "capture" /\ reads[i].op = "read"
                          /\ reads[i].gen = cap.gen
      /\ DOMAIN reads = 1 .. n
  BY DEF Message
<1>7. Len(reads) = n
  BY <1>5, <1>6, Domains
<1> HIDE DEF posted, reads, c, more, cap
<1>8. /\ posted.c = c /\ posted.out = s.out \o reads /\ posted.ok = s.ok /\ posted.data = s.data
  BY <1>3 DEF Steps
<1>9. /\ posted.out \in Seq(Messages) /\ Len(posted.out) = Len(s.out) + n
      /\ Extends(posted.out, s.out)
      /\ \A i \in Added(posted.out, s.out) :
           i - Len(s.out) \in DOMAIN reads /\ posted.out[i] = reads[i - Len(s.out)]
  <2>1. /\ s.out \o reads \in Seq(Messages) /\ Len(s.out \o reads) = Len(s.out) + Len(reads)
        /\ Extends(s.out \o reads, s.out)
        /\ \A i \in Added(s.out \o reads, s.out) :
             i - Len(s.out) \in DOMAIN reads /\ (s.out \o reads)[i] = reads[i - Len(s.out)]
    BY <1>1, <1>5, Concatenated
  <2>2. QED
    BY <1>7, <1>8, <2>1
<1>10. \A i \in Added(posted.out, s.out) :
         /\ posted.out[i].kind = "capture" /\ posted.out[i].op = "read"
         /\ posted.out[i].gen = cap.gen
  BY <1>6, <1>9
<1>11. posted \in Steps
  BY <1>1, <1>3, <1>4, <1>8, <1>9 DEF Steps
<1>12. QED
  BY <1>8, <1>9, <1>10, <1>11 DEF posted, c, more, cap

LEMMA LessFacts ==
  ASSUME NEW a \in Nat, NEW b \in Nat
  PROVE  /\ Less(a, b) \in Nat /\ (b <= a => b + Less(a, b) <= a)
         /\ Less(a, b) > 0 => b + 1 <= a
BY DEF Less

LEMMA RoomFacts ==
  ASSUME NEW s \in Steps, Len(s.out) <= Capacity
  PROVE  HalfRoom(s) \in Nat /\ \A n \in Nat : n <= HalfRoom(s) => Len(s.out) + n <= Capacity
<1>1. s.out \in Seq(Messages)
  BY DEF Steps
<1>2. Len(s.out) \in Nat
  BY <1>1, Domains
<1>3. Capacity \div 2 \in Nat /\ Capacity \div 2 <= Capacity
  BY Sizes
<1>4. QED
  BY <1>2, <1>3, Sizes DEF HalfRoom, Less

\* The reads of a capture that go out, or one that could not.
LEMMA RequestFacts ==
  ASSUME NEW s \in Steps, s.c.capture.gen # 0, Len(s.out) <= Capacity
  PROVE  /\ Posts(RequestChunks(s), s)
         /\ \E x, y \in Nat :
              /\ RequestChunks(s).c =
                   [s.c EXCEPT !.capture = [s.c.capture EXCEPT !.next = x, !.flight = y]]
              /\ s.c.capture.next + y <= x + s.c.capture.flight
         /\ \A i \in Added(RequestChunks(s).out, s.out) :
              /\ RequestChunks(s).out[i].kind = "capture" /\ RequestChunks(s).out[i].op = "read"
              /\ RequestChunks(s).out[i].gen = s.c.capture.gen
<1> DEFINE cap == s.c.capture
           T == {Less(Chunks, cap.next), Less(InFlight, cap.flight), HalfRoom(s)}
           n == Min(T)
<1>1. /\ s.c \in Clients /\ s.out \in Seq(Messages) /\ s.ok \in BOOLEAN
      /\ s.data \in Seq(Captures) \union Seq(Contents)
  BY DEF Steps
<1>2. cap \in CaptureRecords
  BY <1>1, CaptureTypes DEF Clients
<1>3. /\ cap.next \in Nat /\ cap.next <= Chunks /\ cap.flight \in Nat /\ cap.flight <= InFlight
  BY <1>2, CaptureTypes
<1>4. Len(s.out) \in Nat
  BY <1>1, Domains
<1>5. RequestChunks(s) = IF n > 0 /\ ~Attached
                         THEN Failing([s EXCEPT !.c.capture.next = @ + 1])
                         ELSE ReadsPosted(s, n)
  BY DEF RequestChunks
<1> HIDE DEF cap
<1>6. T \subseteq Nat
  BY <1>3, Sizes, LessFacts, RoomFacts
<1>7. n \in Nat /\ \A j \in T : n <= j
  BY <1>6, MinFacts
<1> HIDE DEF n
<1>8. /\ n <= Less(Chunks, cap.next) /\ n <= Less(InFlight, cap.flight) /\ n <= HalfRoom(s)
  BY <1>7
<1>9. /\ cap.next + n <= Chunks /\ cap.flight + n <= InFlight /\ Len(s.out) + n <= Capacity
  <2>1. cap.next + n <= Chunks
    BY <1>3, <1>7, <1>8, Sizes DEF Less
  <2>2. cap.flight + n <= InFlight
    BY <1>3, <1>7, <1>8, Sizes DEF Less
  <2>3. QED
    BY <2>1, <2>2, <1>7, <1>8, RoomFacts
<1>10. CASE n > 0 /\ ~Attached
  <2> DEFINE x == cap.next + 1
             more == [cap EXCEPT !.next = x]
             r == RequestChunks(s)
  <2>1. x \in Nat /\ x <= Chunks
    BY <1>3, <1>8, <1>7, <1>10, Sizes DEF Less
  <2>2. r = [s EXCEPT !.c = [s.c EXCEPT !.capture = more], !.ok = FALSE]
    BY <1>1, <1>2, <1>5, <1>10 DEF Failing, Steps, Clients, CaptureRecords, cap
  <2>3. x \in 0 .. Chunks
    BY <2>1, Ranges
  <2> HIDE DEF x
  <2>4. more \in CaptureRecords
    BY <1>2, <2>3 DEF CaptureRecords
  <2>5. more \in CaptureTransfers
    BY <2>4, CaptureTypes
  <2>6. more = [cap EXCEPT !.next = x, !.flight = cap.flight]
    BY <1>2 DEF CaptureRecords
  <2>7. [s.c EXCEPT !.capture = more] \in Clients
    BY <1>1, <2>5 DEF Clients
  <2> HIDE DEF more, r
  <2>8. /\ r.c = [s.c EXCEPT !.capture = more] /\ r.out = s.out /\ r.ok = FALSE /\ r.data = s.data
        /\ r \in Steps
    BY <1>1, <2>2, <2>7 DEF Steps
  <2>9. Extends(s.out, s.out) /\ Added(s.out, s.out) = {}
    BY <1>1, Domains DEF Extends, Added
  <2>10. cap.next + cap.flight <= x + cap.flight
    BY <1>3 DEF x
  <2>11. Posts(r, s)
    BY <2>8, <2>9 DEF Posts
  <2>12. QED
    BY <2>1, <2>6, <2>8, <2>9, <2>10, <2>11, <1>3 DEF r, cap
<1>11. CASE ~(n > 0 /\ ~Attached)
  <2> DEFINE r == RequestChunks(s)
             x == cap.next + n
             y == cap.flight + n
  <2>1. r = ReadsPosted(s, n)
    BY <1>5, <1>11
  <2>2. /\ r \in Steps /\ Len(r.out) = Len(s.out) + n
        /\ r.c = [s.c EXCEPT !.capture = [cap EXCEPT !.next = x, !.flight = y]]
        /\ Extends(r.out, s.out)
        /\ \A i \in Added(r.out, s.out) :
             r.out[i].kind = "capture" /\ r.out[i].op = "read" /\ r.out[i].gen = cap.gen
        /\ r.ok = s.ok /\ r.data = s.data
    <3>1. /\ s.c.capture.next + n <= Chunks /\ s.c.capture.flight + n <= InFlight
          /\ Len(s.out) + n <= Capacity
      BY <1>9 DEF cap
    <3>2. [s.c.capture EXCEPT !.next = @ + n, !.flight = @ + n]
            = [cap EXCEPT !.next = x, !.flight = y]
      BY <1>2 DEF cap, CaptureRecords
    <3> HIDE DEF x, y
    <3>3. /\ ReadsPosted(s, n) \in Steps /\ Len(ReadsPosted(s, n).out) = Len(s.out) + n
          /\ ReadsPosted(s, n).c = [s.c EXCEPT !.capture =
               [s.c.capture EXCEPT !.next = @ + n, !.flight = @ + n]]
          /\ Extends(ReadsPosted(s, n).out, s.out)
          /\ \A i \in Added(ReadsPosted(s, n).out, s.out) :
               /\ ReadsPosted(s, n).out[i].kind = "capture"
               /\ ReadsPosted(s, n).out[i].op = "read"
               /\ ReadsPosted(s, n).out[i].gen = s.c.capture.gen
          /\ ReadsPosted(s, n).ok = s.ok /\ ReadsPosted(s, n).data = s.data
      BY <1>7, <3>1, ReadFacts
    <3>4. QED
      BY <2>1, <3>2, <3>3, Zenon DEF cap
  <2> HIDE DEF r
  <2>3. x \in Nat /\ y \in Nat /\ cap.next + y <= x + cap.flight
    BY <1>3, <1>7
  <2>4. Attached \/ Len(r.out) = Len(s.out)
    BY <1>4, <1>7, <1>11, <2>2
  <2>5. Len(r.out) <= Capacity
    BY <1>9, <2>2
  <2>6. Posts(r, s)
    BY <2>2, <2>4, <2>5 DEF Posts
  <2> HIDE DEF x, y
  <2>7. QED
    BY <2>2, <2>3, <2>6 DEF r, cap
<1>12. QED
  BY <1>10, <1>11

\* The step r wrote the next n chunks of the transfer of kind k.
Written(r, s, k, n) ==
  /\ r \in Steps /\ Len(r.out) = Len(s.out) + n
  /\ r.c = [s.c EXCEPT !.replace = [s.c.replace EXCEPT ![k] =
       [s.c.replace[k] EXCEPT !.next = s.c.replace[k].next + n]]]
  /\ Extends(r.out, s.out)
  /\ \A i \in Added(r.out, s.out) :
       /\ r.out[i].kind = k /\ r.out[i].op = "write"
       /\ r.out[i].gen = s.c.replace[k].gen /\ r.out[i].goal = s.c.replace[k].goal
       /\ r.out[i].at = s.c.replace[k].next + (i - Len(s.out)) - 1
  /\ r.ok = s.ok /\ r.data = s.data

LEMMA WriteFacts ==
  ASSUME NEW s \in Steps, NEW k \in Kinds, s.c.replace[k].gen # 0, NEW n \in Nat,
         s.c.replace[k].next + n <= Chunks, Len(s.out) + n <= Capacity
  PROVE  Written(WritesPosted(s, k, n), s, k, n)
<1> DEFINE rep == s.c.replace[k]
           write(i) == Message("write", k, rep.gen, rep.next + i - 1, rep.goal)
           writes == [i \in 1 .. n |-> write(i)]
           more == [rep EXCEPT !.next = rep.next + n]
           replace == [s.c.replace EXCEPT ![k] = more]
           c == [s.c EXCEPT !.replace = replace]
           posted == WritesPosted(s, k, n)
<1>1. /\ s.c \in Clients /\ s.out \in Seq(Messages) /\ s.ok \in BOOLEAN
      /\ s.data \in Seq(Captures) \union Seq(Contents)
  BY DEF Steps
<1>2. s.c.replace \in [Kinds -> ReplaceTransfers]
  BY <1>1 DEF Clients
<1>3. /\ rep \in ReplaceRecords /\ rep.gen \in Gens /\ rep.goal \in Contents
      /\ rep.next \in Nat /\ rep.next <= Chunks
  <2>1. rep \in ReplaceTransfers
    BY <1>2
  <2> HIDE DEF rep
  <2>2. rep.gen # 0
    BY DEF rep
  <2>3. QED
    BY <2>1, <2>2, ReplaceTypes DEF Gens
<1>4. posted = [s EXCEPT !.c = c, !.out = s.out \o writes]
  BY <1>1, <1>2, <1>3 DEF WritesPosted, Steps, Clients, ReplaceRecords
<1>5. c \in Clients
  <2>1. rep.next + n \in 0 .. Chunks
    BY <1>3, Ranges
  <2>2. more \in ReplaceRecords
    BY <1>3, <2>1 DEF ReplaceRecords
  <2>3. more \in ReplaceTransfers
    BY <2>2, ReplaceTypes
  <2> HIDE DEF more
  <2>4. replace \in [Kinds -> ReplaceTransfers]
    BY <1>2, <2>3
  <2> HIDE DEF replace
  <2>5. QED
    BY <1>1, <2>4 DEF Clients
<1>6. writes \in Seq(Messages)
  <2>1. ASSUME NEW i \in 1 .. n
        PROVE  write(i) \in Messages
    <3>1. rep.next + i - 1 \in 0 .. Chunks
      <4> HIDE DEF rep
      <4>1. rep.next + i - 1 \in Nat /\ rep.next + i - 1 <= Chunks
        BY <1>3, Sizes DEF rep
      <4>2. QED
        BY <4>1, Ranges
    <3>2. rep.goal \in Goals
      BY <1>3 DEF Contents, Goals
    <3> HIDE DEF rep
    <3>3. QED
      BY <1>3, <3>1, <3>2 DEF Message, Messages, Gens
  <2> HIDE DEF write
  <2>2. QED
    BY <2>1
<1>7. /\ \A i \in 1 .. n : /\ writes[i].kind = k /\ writes[i].op = "write"
                          /\ writes[i].gen = rep.gen /\ writes[i].goal = rep.goal
                          /\ writes[i].at = rep.next + i - 1
      /\ DOMAIN writes = 1 .. n
  <2> HIDE DEF rep
  <2>1. QED
    BY DEF Message
<1>8. Len(writes) = n
  BY <1>6, <1>7, Domains
<1> HIDE DEF posted, writes, c, more, replace, rep
<1>9. /\ posted.c = c /\ posted.out = s.out \o writes /\ posted.ok = s.ok /\ posted.data = s.data
  BY <1>4 DEF Steps
<1>10. /\ posted.out \in Seq(Messages) /\ Len(posted.out) = Len(s.out) + n
       /\ Extends(posted.out, s.out)
       /\ \A i \in Added(posted.out, s.out) :
            i - Len(s.out) \in DOMAIN writes /\ posted.out[i] = writes[i - Len(s.out)]
  <2>1. /\ s.out \o writes \in Seq(Messages) /\ Len(s.out \o writes) = Len(s.out) + Len(writes)
        /\ Extends(s.out \o writes, s.out)
        /\ \A i \in Added(s.out \o writes, s.out) :
             i - Len(s.out) \in DOMAIN writes /\ (s.out \o writes)[i] = writes[i - Len(s.out)]
    BY <1>1, <1>6, Concatenated
  <2>2. QED
    BY <1>8, <1>9, <2>1
<1>11. \A i \in Added(posted.out, s.out) :
         /\ posted.out[i].kind = k /\ posted.out[i].op = "write"
         /\ posted.out[i].gen = rep.gen /\ posted.out[i].goal = rep.goal
         /\ posted.out[i].at = rep.next + (i - Len(s.out)) - 1
  BY <1>7, <1>10
<1>12. posted \in Steps
  BY <1>1, <1>4, <1>5, <1>9, <1>10 DEF Steps
<1>13. QED
  BY <1>9, <1>10, <1>11, <1>12, Zenon DEF Written, posted, c, more, replace, rep

\* A message is put behind the others.
LEMMA PostFacts ==
  ASSUME NEW s \in Steps, NEW m \in Messages, Len(s.out) < Capacity
  PROVE  /\ Post(s, m) \in Steps /\ Len(Post(s, m).out) = Len(s.out) + 1
         /\ Len(s.out) + 1 <= Capacity
         /\ Post(s, m).c = s.c /\ Post(s, m).ok = s.ok /\ Post(s, m).data = s.data
         /\ Extends(Post(s, m).out, s.out)
         /\ Added(Post(s, m).out, s.out) = {Len(s.out) + 1}
         /\ Post(s, m).out[Len(s.out) + 1] = m
<1>1. s.out \in Seq(Messages)
  BY DEF Steps
<1>2. /\ Append(s.out, m) \in Seq(Messages) /\ Len(Append(s.out, m)) = Len(s.out) + 1
      /\ Extends(Append(s.out, m), s.out)
      /\ Added(Append(s.out, m), s.out) = {Len(s.out) + 1}
      /\ Append(s.out, m)[Len(s.out) + 1] = m
  BY <1>1, Appended
<1>3. Post(s, m) = [s EXCEPT !.out = Append(s.out, m)]
  BY DEF Post
<1>4. /\ Post(s, m).out = Append(s.out, m) /\ Post(s, m).c = s.c /\ Post(s, m).ok = s.ok
      /\ Post(s, m).data = s.data
  BY <1>3 DEF Steps
<1>5. Post(s, m) \in Steps
  BY <1>2, <1>3 DEF Steps
<1>6. Len(s.out) + 1 <= Capacity
  BY <1>1, Domains, Sizes
<1>7. QED
  BY <1>2, <1>4, <1>5, <1>6

LEMMA CommitFacts ==
  ASSUME NEW s \in Steps, NEW k \in Kinds, s.c.replace[k].gen # 0, Len(s.out) < Capacity
  PROVE  /\ CommitPosted(s, k) \in Steps /\ Len(CommitPosted(s, k).out) = Len(s.out) + 1
         /\ Len(s.out) + 1 <= Capacity
         /\ CommitPosted(s, k).c = [s.c EXCEPT !.replace = [s.c.replace EXCEPT ![k] =
              [s.c.replace[k] EXCEPT !.sent = TRUE]]]
         /\ Extends(CommitPosted(s, k).out, s.out)
         /\ Added(CommitPosted(s, k).out, s.out) = {Len(s.out) + 1}
         /\ CommitPosted(s, k).out[Len(s.out) + 1] =
              Message("commit", k, s.c.replace[k].gen, Chunks, s.c.replace[k].goal)
         /\ CommitPosted(s, k).ok = s.ok /\ CommitPosted(s, k).data = s.data
<1> DEFINE rep == s.c.replace[k]
           m == Message("commit", k, rep.gen, Chunks, rep.goal)
           more == [rep EXCEPT !.sent = TRUE]
           replace == [s.c.replace EXCEPT ![k] = more]
           c == [s.c EXCEPT !.replace = replace]
           t == [s EXCEPT !.c = c]
<1>1. s.c \in Clients
  BY DEF Steps
<1>2. s.c.replace \in [Kinds -> ReplaceTransfers]
  BY <1>1 DEF Clients
<1>3. rep \in ReplaceRecords /\ rep.gen \in Gens /\ rep.goal \in Contents
  <2>1. rep \in ReplaceTransfers
    BY <1>2
  <2> HIDE DEF rep
  <2>2. rep.gen # 0
    BY DEF rep
  <2>3. QED
    BY <2>1, <2>2, ReplaceTypes DEF Gens
<1>4. m \in Messages
  <2>1. Chunks \in 0 .. Chunks /\ rep.goal \in Goals
    BY <1>3, Sizes, Ranges DEF Contents, Goals
  <2> HIDE DEF rep
  <2>2. QED
    BY <1>3, <2>1 DEF Message, Messages, Gens
<1>5. c \in Clients
  <2>1. more \in ReplaceRecords
    BY <1>3 DEF ReplaceRecords
  <2>2. more \in ReplaceTransfers
    BY <2>1, ReplaceTypes
  <2> HIDE DEF more
  <2>3. replace \in [Kinds -> ReplaceTransfers]
    BY <1>2, <2>2
  <2> HIDE DEF replace
  <2>4. QED
    BY <1>1, <2>3 DEF Clients
<1>6. t \in Steps /\ t.c = c /\ t.out = s.out /\ t.ok = s.ok /\ t.data = s.data
  BY <1>5 DEF Steps
<1>7. CommitPosted(s, k) = Post([s EXCEPT !.c.replace[k].sent = TRUE], m)
  BY DEF CommitPosted
<1>8. [s EXCEPT !.c.replace[k].sent = TRUE] = t
  BY <1>1, <1>2, <1>3 DEF Steps, Clients, ReplaceRecords
<1> HIDE DEF t, c, m
<1>9. CommitPosted(s, k) = Post(t, m)
  BY <1>7, <1>8
<1>10. /\ Post(t, m) \in Steps /\ Len(Post(t, m).out) = Len(t.out) + 1
       /\ Len(t.out) + 1 <= Capacity
       /\ Post(t, m).c = t.c /\ Post(t, m).ok = t.ok /\ Post(t, m).data = t.data
       /\ Extends(Post(t, m).out, t.out)
       /\ Added(Post(t, m).out, t.out) = {Len(t.out) + 1}
       /\ Post(t, m).out[Len(t.out) + 1] = m
  BY <1>4, <1>6, PostFacts
<1>11. CommitPosted(s, k).c = [s.c EXCEPT !.replace = [s.c.replace EXCEPT ![k] =
         [s.c.replace[k] EXCEPT !.sent = TRUE]]]
  BY <1>6, <1>9, <1>10 DEF c
<1>12. QED
  BY <1>6, <1>9, <1>10, <1>11 DEF m

\* What a pump can do.
Unpumped(s, k) ==
  ~Attached /\ s.c.replace[k].gen # 0 /\ (s.c.replace[k].next < Chunks \/ ~s.c.replace[k].sent)
Pumpable(s, k, n) ==
  /\ n \in Nat /\ s.c.replace[k].gen # 0 /\ ~s.c.replace[k].complete
  /\ s.c.replace[k].next + n <= Chunks /\ Len(s.out) + n <= Capacity
  /\ Attached \/ n = 0
Committable(s, k) ==
  /\ s.c.replace[k].gen # 0 /\ ~s.c.replace[k].complete /\ ~s.c.replace[k].sent
  /\ s.c.replace[k].next = Chunks /\ Len(s.out) < Capacity /\ Attached

LEMMA PumpCases ==
  ASSUME NEW s \in Steps, NEW k \in Kinds, Len(s.out) <= Capacity
  PROVE  \/ Pump(s, k) = s
         \/ Pump(s, k) = Failing(s) /\ Unpumped(s, k)
         \/ \E n \in Nat : Pumpable(s, k, n) /\ Pump(s, k) = WritesPosted(s, k, n)
         \/ \E n \in Nat : /\ Pumpable(s, k, n) /\ Committable(WritesPosted(s, k, n), k)
                           /\ Pump(s, k) = CommitPosted(WritesPosted(s, k, n), k)
<1> DEFINE rep == s.c.replace[k]
           T == {Less(Chunks, rep.next), HalfRoom(s)}
           n == Min(T)
           written == WritesPosted(s, k, n)
           ends == rep.next + n = Chunks /\ ~rep.sent /\ Len(written.out) < Capacity
<1>1. /\ s.c \in Clients /\ s.out \in Seq(Messages) /\ s.ok \in BOOLEAN
      /\ s.c.replace \in [Kinds -> ReplaceTransfers]
  BY DEF Steps, Clients
<1>2. CASE ~s.ok \/ rep.gen = 0 \/ rep.complete
  BY <1>1, <1>2 DEF Pump
<1>3. CASE s.ok /\ rep.gen # 0 /\ ~rep.complete
  <2>1. Pump(s, k) = IF (n > 0 \/ ends) /\ ~Attached THEN Failing(s)
                     ELSE IF ends THEN CommitPosted(written, k) ELSE written
    BY <1>3 DEF Pump
  <2>2. rep \in ReplaceTransfers
    BY <1>1
  <2>3. rep.next \in Nat /\ rep.next <= Chunks /\ rep \in ReplaceRecords
    <3> HIDE DEF rep
    <3>1. QED
      BY <1>3, <2>2, ReplaceTypes
  <2> HIDE DEF rep
  <2>4. T \subseteq Nat
    BY <2>3, Sizes, LessFacts, RoomFacts
  <2>5. n \in Nat /\ \A j \in T : n <= j
    BY <2>4, MinFacts
  <2> HIDE DEF n
  <2>6. n <= Less(Chunks, rep.next) /\ n <= HalfRoom(s)
    BY <2>5
  <2>7. rep.next + n <= Chunks /\ (n > 0 => rep.next < Chunks)
    BY <2>3, <2>5, <2>6, Sizes DEF Less
  <2>8. Len(s.out) + n <= Capacity
    BY <2>5, <2>6, RoomFacts
  <2>9. CASE (n > 0 \/ ends) /\ ~Attached
    <3>1. Unpumped(s, k)
      BY <1>3, <2>7, <2>9 DEF Unpumped, rep
    <3>2. QED
      BY <2>1, <2>9, <3>1
  <2>10. CASE ~((n > 0 \/ ends) /\ ~Attached)
    <3>1. Attached \/ n = 0
      BY <2>5, <2>10
    <3>2. Pumpable(s, k, n)
      BY <1>3, <2>5, <2>7, <2>8, <3>1 DEF Pumpable, rep
    <3>3. CASE ~ends
      BY <2>1, <2>5, <2>10, <3>2, <3>3
    <3>4. CASE ends
      <4> DEFINE more == [rep EXCEPT !.next = rep.next + n]
      <4>1. written.c = [s.c EXCEPT !.replace = [s.c.replace EXCEPT ![k] = more]]
        <5>1. s.c.replace[k].gen # 0 /\ s.c.replace[k].next + n <= Chunks
          BY <1>3, <2>7 DEF rep
        <5>2. written.c = [s.c EXCEPT !.replace = [s.c.replace EXCEPT ![k] =
                [s.c.replace[k] EXCEPT !.next = s.c.replace[k].next + n]]]
          BY <5>1, <2>5, <2>8, WriteFacts DEF Written
        <5>3. QED
          BY <5>2, Zenon DEF rep
      <4>2. written.c.replace[k] = more
        <5> HIDE DEF more, written
        <5>1. QED
          BY <1>1, <4>1 DEF Clients
      <4>3. /\ more.gen = rep.gen /\ more.complete = rep.complete /\ more.sent = rep.sent
            /\ more.next = rep.next + n
        BY <2>3 DEF ReplaceRecords
      <4> HIDE DEF more
      <4>4. Committable(written, k)
        BY <1>3, <2>10, <3>4, <4>2, <4>3 DEF Committable
      <4>5. QED
        BY <2>1, <2>5, <2>10, <3>2, <3>4, <4>4
    <3>5. QED
      BY <3>3, <3>4
  <2>11. QED
    BY <2>9, <2>10
<1>4. QED
  BY <1>2, <1>3, <1>1 DEF ReplaceTransfers

-----------------------------------------------------------------------------
(* The invariant: of the client c, the commands out in flight and the       *)
(* answers of which n were heard.                                           *)

Unheard(n) == {i \in DOMAIN answers : i > n}
Of(m, kind, gen) == m.kind = kind /\ m.gen = gen

\* A generation is taken once.
UsedOnce(c, out) ==
  /\ \A i \in DOMAIN out : out[i].gen < c.nextGen
  /\ \A i \in DOMAIN answers : answers[i].msg.gen < c.nextGen
  /\ engine.capture.gen < c.nextGen /\ c.capture.gen < c.nextGen
  /\ \A k \in Kinds : engine.staged[k].gen < c.nextGen /\ c.replace[k].gen < c.nextGen

\* An outcome that was not taken is that of the last transfer of its kind.
Ended(c) ==
  /\ "capture" \in c.errors => c.capture.gen = 0
  /\ \A k \in Kinds : k \in c.errors => c.replace[k].gen = 0

\* Reads that were asked for and not answered leave room for what is missing.
Counted(c) ==
  c.capture.gen # 0 => /\ Len(c.capture.got) + c.capture.flight <= c.capture.next
                       /\ ~c.capture.known => c.capture.got = <<>>

\* A capture begins once, and nothing of it is read before.
Beginning(c, out, n) ==
  LET Here(m) == Of(m, "capture", c.capture.gen)
  IN c.capture.gen # 0 /\ c.seen = life =>
      /\ \A i \in DOMAIN out : Here(out[i]) /\ out[i].op = "begin" =>
           /\ ~c.capture.known /\ engine.capture.gen # c.capture.gen
           /\ \A j \in DOMAIN out : j # i => ~Here(out[j])
           /\ \A j \in Unheard(n) : ~Here(answers[j].msg)
      /\ \A i \in DOMAIN out : Here(out[i]) /\ out[i].op # "begin" => c.capture.known
      /\ \A i \in Unheard(n) : Here(answers[i].msg) /\ answers[i].kind = "ready" =>
           /\ ~c.capture.known
           /\ \A j \in DOMAIN out : ~Here(out[j])
           /\ \A j \in Unheard(n) : j # i => ~Here(answers[j].msg)
      /\ \A i \in Unheard(n) :
           Here(answers[i].msg) /\ answers[i].kind = "chunk" => c.capture.known

\* All there is of a capture, on both sides and between them, is D.
Gathered(c, n, D) ==
  /\ NothingAbandoned => D.edition >= history.begun
  /\ \A i \in DOMAIN c.capture.got : c.capture.got[i] = D
  /\ \A i \in Unheard(n) :
       Of(answers[i].msg, "capture", c.capture.gen) /\ answers[i].kind = "chunk"
         => answers[i].data = D
  /\ engine.capture.gen = c.capture.gen => engine.capture.data = D
OneCapture(c, n) ==
  c.capture.gen # 0 /\ c.seen = life => \E D \in Captures : Gathered(c, n, D)

Capturing(c, out, n) == Counted(c) /\ Beginning(c, out, n) /\ OneCapture(c, n)

CaptureOwned(c) == NothingAbandoned /\ c.capture.gen # 0 => work.op \in {"save", "capture"}

\* The chunks that the host has when it has served a command.
Place(m) == IF m.op = "begin" THEN 0 ELSE m.at + 1

\* Everything of kind k in flight belongs to the transfer of k.
Owned(c, out, k) ==
  LET r == c.replace[k]
  IN \A i \in DOMAIN out : out[i].kind = k =>
       /\ r.gen # 0 /\ out[i].gen = r.gen /\ out[i].goal = r.goal
       /\ out[i].op = "begin" => engine.staged[k].gen # r.gen
       /\ out[i].op = "write" => out[i].at < r.next
       /\ out[i].op = "commit" => r.sent /\ out[i].at = Chunks

InOrder(out, k) ==
  \A i, j \in DOMAIN out :
    out[i].kind = k /\ out[j].kind = k /\ i < j => Place(out[i]) < Place(out[j])

StagedUpTo(r, k, n) == engine.staged[k].gen = r.gen /\ Len(engine.staged[k].chunks) = n

\* What a command needs at the host is there, or in flight before it.
Reaches(c, out, k) ==
  LET r == c.replace[k]
  IN /\ \A i \in DOMAIN out : out[i].kind = k /\ out[i].op # "begin" =>
          \/ \E j \in DOMAIN out : j < i /\ out[j].kind = k /\ Place(out[j]) = out[i].at
          \/ StagedUpTo(r, k, out[i].at)
     /\ r.gen # 0 /\ ~r.sent /\ Attached =>
          \/ \E j \in DOMAIN out : out[j].kind = k /\ Place(out[j]) = r.next
          \/ StagedUpTo(r, k, r.next)

Sound(c, k) ==
  LET r == c.replace[k]
  IN r.gen # 0 =>
       /\ r.sent => r.next = Chunks
       /\ engine.staged[k].gen = r.gen =>
           \A i \in DOMAIN engine.staged[k].chunks : engine.staged[k].chunks[i] = r.goal
       /\ r.complete => r.sent /\ r.goal \in history.done

\* A transfer is judged once, after everything of it was served.
Verdict(a) == a.kind \in {"error", "complete"}
Judged(c, out, n, k) ==
  LET r == c.replace[k]
  IN /\ \A i \in Unheard(n) : answers[i].msg.kind = k /\ Verdict(answers[i]) =>
          /\ r.gen # 0 /\ answers[i].msg.gen = r.gen /\ r.sent
          /\ \A j \in DOMAIN out : out[j].kind # k
          /\ \A j \in Unheard(n) : j # i /\ answers[j].msg.kind = k => ~Verdict(answers[j])
          /\ answers[i].kind = "complete" => r.goal \in history.done
     /\ r.gen # 0 /\ r.complete => \A j \in DOMAIN out : out[j].kind # k

Transferring(c, out, n, k) ==
  Owned(c, out, k) /\ InOrder(out, k) /\ Reaches(c, out, k) /\ Sound(c, k) /\ Judged(c, out, n, k)

\* A transfer that can still be committed is the work under way.
Working(k, goal) ==
  work.op \in {"load", "import", "copy"} /\ work.goal = goal /\ Kind(goal) = k
WorkedOn(c, k) ==
  LET r == c.replace[k]
  IN r.gen # 0 /\ (r.sent \/ Attached) => Working(k, r.goal)

\* What was committed for a task that does not know it yet is on its way.
Requested == work.op \in {"askLoad", "load", "askImport", "prepare", "import"}
Done(c, out, n) ==
  LET r == c.replace[Kind(work.goal)]
  IN Requested /\ Attached /\ work.goal \in history.done =>
       /\ c.seen = life
       /\ r.gen # 0 /\ r.goal = work.goal /\ r.sent
       /\ \A i \in DOMAIN out : out[i].kind # Kind(work.goal)
       /\ \A i \in Unheard(n) :
            answers[i].msg.kind = Kind(work.goal) => answers[i].kind # "error"

Replacing(c, out, n) ==
  NothingLeftOver =>
    /\ c.seen = life => \A k \in Kinds : Transferring(c, out, n, k) /\ WorkedOn(c, k)
    /\ Done(c, out, n)

\* For an engine the client did not see there is nothing.
Idle ==
  NothingLeftOver /\ client.seen # life =>
    /\ \A i \in DOMAIN toHost : toHost[i].kind = "beside"
    /\ \A i \in DOMAIN answers : answers[i].msg.kind = "beside"

\* A task that runs is the work under way.
Shown ==
  /\ task.status = "running" =>
       \/ task.kind = "save" /\ work.op = "save"
       \/ task.kind = "load" /\ work.op = "load" /\ work.goal = task.goal
       \/ task.kind = "import" /\ work.op \in {"prepare", "import"} /\ work.goal = task.goal
  /\ task.status = "asking" =>
       \/ task.kind = "load" /\ work.op = "askLoad" /\ work.goal = task.goal
       \/ task.kind = "import" /\ work.op = "askImport" /\ work.goal = task.goal

Asked ==
  /\ Requested \/ work.op = "copy" => work.goal \in Contents
  /\ work.op = "capture" => work.source \in Loops /\ work.goal.loop \in Loops

Silent(out) == Attached \/ Len(out) = 0

Talking(c, out, n) ==
  /\ UsedOnce(c, out) /\ Ended(c) /\ Silent(out)
  /\ Capturing(c, out, n) /\ CaptureOwned(c) /\ Replacing(c, out, n)

IInv ==
  /\ TypeOK
  /\ Talking(client, toHost, 0)
  /\ link = "detached" => Len(answers) = 0
  /\ Idle /\ Shown /\ Asked
  /\ history.begun <= engine.edition
  /\ CapturesAreCurrent

-----------------------------------------------------------------------------
(* What does not concern a transfer leaves it as it was.                   *)

LEMMA Parts ==
  ASSUME NEW S, NEW long \in Seq(S), NEW short \in Seq(S), Extends(long, short)
  PROVE  /\ \A i \in DOMAIN long :
              i \in Nat /\ (i \in Added(long, short) \/ (i \in DOMAIN short /\ long[i] = short[i]))
         /\ \A i \in DOMAIN short : i \in DOMAIN long /\ long[i] = short[i]
         /\ \A i \in Added(long, short), j \in DOMAIN short :
              i \in DOMAIN long /\ i > Len(short) /\ j <= Len(short) /\ j < i
BY Domains DEF Extends, Added

LEMMA CaptureFrame ==
  ASSUME NEW c, NEW d, NEW out \in Seq(Messages), NEW more \in Seq(Messages),
         NEW n \in Nat, NEW m \in Nat, n <= m, answers \in Seq(Answers),
         d.capture = c.capture, d.seen = c.seen,
         Extends(more, out), \A i \in Added(more, out) : more[i].kind # "capture",
         Capturing(c, out, n)
  PROVE  Capturing(d, more, m)
<1>1. Counted(d)
  BY DEF Capturing, Counted
<1>2. \A i \in Unheard(m) : i \in Unheard(n)
  BY Domains DEF Unheard
<1>3. \A i \in DOMAIN more : more[i].kind = "capture" => i \in DOMAIN out /\ more[i] = out[i]
  BY Parts
<1>4. Beginning(d, more, m)
  BY <1>2, <1>3 DEF Capturing, Beginning, Of
<1>5. \A D : Gathered(c, n, D) => Gathered(d, m, D)
  BY <1>2 DEF Gathered
<1>6. OneCapture(d, m)
  BY <1>5 DEF Capturing, OneCapture
<1>7. QED
  BY <1>1, <1>4, <1>6 DEF Capturing

LEMMA ReplaceFrame ==
  ASSUME NEW c, NEW d, NEW out \in Seq(Messages), NEW more \in Seq(Messages),
         NEW n \in Nat, NEW m \in Nat, n <= m, answers \in Seq(Answers), NEW k,
         d.replace[k] = c.replace[k],
         Extends(more, out), \A i \in Added(more, out) : more[i].kind # k,
         Transferring(c, out, n, k)
  PROVE  Transferring(d, more, m, k)
<1>1. \A i \in Unheard(m) : i \in Unheard(n)
  BY Domains DEF Unheard
<1>2. \A i \in DOMAIN more : more[i].kind = k => i \in DOMAIN out /\ more[i] = out[i]
  BY Parts
<1>3. \A i \in DOMAIN out : i \in DOMAIN more /\ more[i] = out[i]
  BY Parts
<1>4. Owned(d, more, k)
  BY <1>2 DEF Transferring, Owned
<1>5. InOrder(more, k)
  BY <1>2 DEF Transferring, InOrder
<1>6. Reaches(d, more, k)
  BY <1>2, <1>3 DEF Transferring, Reaches
<1>7. Sound(d, k)
  BY DEF Transferring, Sound
<1>8. Judged(d, more, m, k)
  BY <1>1, <1>2 DEF Transferring, Judged
<1>9. QED
  BY <1>4, <1>5, <1>6, <1>7, <1>8 DEF Transferring

\* The same where nothing has been heard yet.
LEMMA ReplaceStays ==
  ASSUME NEW c, NEW d, NEW out \in Seq(Messages), NEW more \in Seq(Messages),
         answers \in Seq(Answers), NEW k,
         d.replace[k] = c.replace[k],
         Extends(more, out), \A i \in Added(more, out) : more[i].kind # k,
         Transferring(c, out, 0, k)
  PROVE  Transferring(d, more, 0, k)
<1>1. 0 \in Nat /\ 0 <= 0
  OBVIOUS
<1>2. QED
  BY <1>1, ReplaceFrame

LEMMA DoneFrame ==
  ASSUME NEW c, NEW d, NEW out \in Seq(Messages), NEW more \in Seq(Messages),
         NEW n \in Nat, NEW m \in Nat, n <= m, answers \in Seq(Answers),
         d.seen = c.seen, Extends(more, out),
         \/ d.replace[Kind(work.goal)] = c.replace[Kind(work.goal)]
         \/ /\ d.replace[Kind(work.goal)].gen = c.replace[Kind(work.goal)].gen
            /\ d.replace[Kind(work.goal)].goal = c.replace[Kind(work.goal)].goal
            /\ c.replace[Kind(work.goal)].sent => d.replace[Kind(work.goal)].sent,
         c.replace[Kind(work.goal)].sent =>
           \A i \in Added(more, out) : more[i].kind # Kind(work.goal),
         Done(c, out, n)
  PROVE  Done(d, more, m)
<1>1. \A i \in Unheard(m) : i \in Unheard(n)
  BY Domains DEF Unheard
<1>2. c.replace[Kind(work.goal)].sent =>
        \A i \in DOMAIN more :
          more[i].kind = Kind(work.goal) => i \in DOMAIN out /\ more[i] = out[i]
  BY Parts
<1>3. QED
  BY <1>1, <1>2 DEF Done

LEMMA WorkedFrame ==
  ASSUME NEW c, NEW d, NEW k, WorkedOn(c, k),
         \/ d.replace[k] = c.replace[k]
         \/ d.replace[k].gen = 0
         \/ /\ d.replace[k].gen = c.replace[k].gen /\ d.replace[k].goal = c.replace[k].goal
            /\ d.replace[k].sent = c.replace[k].sent \/ Attached
  PROVE  WorkedOn(d, k)
BY DEF WorkedOn

-----------------------------------------------------------------------------
(* What the steps of the client keep.                                      *)

Basic(s) ==
  s \in Steps /\ Len(s.out) <= Capacity /\ UsedOnce(s.c, s.out) /\ Ended(s.c) /\ Silent(s.out)
Flow(s, n) ==
  /\ Basic(s) /\ s.c.seen = life /\ s.data = <<>>
  /\ Capturing(s.c, s.out, n) /\ CaptureOwned(s.c) /\ Replacing(s.c, s.out, n)

LEMMA StepParts ==
  ASSUME NEW s \in Steps
  PROVE  /\ s.c \in Clients /\ s.out \in Seq(Messages) /\ s.ok \in BOOLEAN /\ Len(s.out) \in Nat
         /\ s.c.capture \in CaptureTransfers
         /\ s.c.replace \in [Kinds -> ReplaceTransfers]
         /\ s.c.nextGen \in Nat /\ s.c.nextGen # 0
         /\ s.c.capture.gen \in Nat /\ \A k \in Kinds : s.c.replace[k].gen \in Nat
         /\ s.c.errors \in SUBSET (Kinds \union {"capture"})
<1>1. s.c \in Clients /\ s.out \in Seq(Messages) /\ s.ok \in BOOLEAN
  BY DEF Steps
<1>2. /\ s.c.capture \in CaptureTransfers /\ s.c.replace \in [Kinds -> ReplaceTransfers]
      /\ s.c.nextGen \in Nat /\ s.c.nextGen # 0
      /\ s.c.errors \in SUBSET (Kinds \union {"capture"})
  BY <1>1 DEF Clients, Gens
<1>3. Len(s.out) \in Nat
  BY <1>1, Domains
<1>4. \A cap \in CaptureTransfers : cap.gen \in Nat
  BY CaptureTypes
<1>5. \A rep \in ReplaceTransfers : rep.gen \in Nat
  BY ReplaceTypes
<1>6. QED
  BY <1>1, <1>2, <1>3, <1>4, <1>5

\* The outcome of a step is not in the invariant.
LEMMA FlowOf ==
  ASSUME NEW s, NEW r \in Steps, NEW n \in Nat, NEW m \in Nat, n <= m,
         answers \in Seq(Answers), r.c = s.c, r.out = s.out, r.data = s.data, Flow(s, n)
  PROVE  Flow(r, m)
<1>1. s.out \in Seq(Messages)
  BY DEF Flow, Basic, Steps
<1>2. Extends(s.out, s.out) /\ Added(s.out, s.out) = {}
  BY <1>1, Domains DEF Extends, Added
<1>3. Basic(r) /\ r.c.seen = life /\ CaptureOwned(r.c)
  BY DEF Flow, Basic
<1>4. Capturing(r.c, r.out, m)
  BY <1>1, <1>2, CaptureFrame DEF Flow
<1>5. \A k \in Kinds : Transferring(s.c, s.out, n, k) => Transferring(r.c, r.out, m, k)
  BY <1>1, <1>2, ReplaceFrame
<1>6. Done(s.c, s.out, n) => Done(r.c, r.out, m)
  BY <1>1, <1>2, DoneFrame
<1>7. Replacing(r.c, r.out, m)
  BY <1>5, <1>6 DEF Flow, Replacing
<1>8. QED
  BY <1>3, <1>4, <1>7 DEF Flow

LEMMA FailingFacts ==
  ASSUME NEW s \in Steps
  PROVE  /\ Failing(s) \in Steps /\ Failing(s).c = s.c /\ Failing(s).out = s.out
         /\ Failing(s).ok = FALSE /\ Failing(s).data = s.data
BY DEF Failing, Steps

LEMMA PostsKeepBasic ==
  ASSUME NEW s, NEW r, Basic(s), Posts(r, s),
         r.c.nextGen = s.c.nextGen, r.c.errors = s.c.errors,
         r.c.capture.gen = s.c.capture.gen,
         \A k \in Kinds : r.c.replace[k].gen = s.c.replace[k].gen,
         \A i \in Added(r.out, s.out) : r.out[i].gen < s.c.nextGen
  PROVE  Basic(r)
<1>1. r \in Steps /\ s \in Steps /\ Len(r.out) <= Capacity /\ Extends(r.out, s.out)
  BY DEF Posts, Basic
<1>2. \A i \in DOMAIN r.out : r.out[i].gen < r.c.nextGen
  BY <1>1, StepParts, Parts DEF Basic, UsedOnce
<1>3. UsedOnce(r.c, r.out)
  BY <1>2 DEF Basic, UsedOnce
<1>4. Ended(r.c)
  BY DEF Basic, Ended
<1>5. Silent(r.out)
  BY DEF Basic, Posts, Silent
<1>6. QED
  BY <1>1, <1>3, <1>4, <1>5 DEF Basic

LEMMA Sums ==
  ASSUME NEW a \in Nat, NEW b \in Nat, NEW d \in Nat, NEW x \in Nat, NEW y \in Nat,
         a + b <= d, d + y <= x + b
  PROVE  a + y <= x
OBVIOUS

\* A capture that is known is read.
LEMMA RequestsFlow ==
  ASSUME NEW s, NEW n \in Nat, answers \in Seq(Answers), Flow(s, n),
         s.c.capture.gen # 0, s.c.capture.known
  PROVE  Flow(RequestChunks(s), n)
<1> DEFINE r == RequestChunks(s)
<1>1. s \in Steps /\ Len(s.out) <= Capacity
  BY DEF Flow, Basic
<1>2. Posts(r, s)
  BY <1>1, RequestFacts
<1>3. PICK x \in Nat, y \in Nat :
        /\ r.c = [s.c EXCEPT !.capture = [s.c.capture EXCEPT !.next = x, !.flight = y]]
        /\ s.c.capture.next + y <= x + s.c.capture.flight
  BY <1>1, RequestFacts
<1>4. \A i \in Added(r.out, s.out) :
        r.out[i].kind = "capture" /\ r.out[i].op = "read" /\ r.out[i].gen = s.c.capture.gen
  BY <1>1, RequestFacts
<1> HIDE DEF r
<1>5. s.c.capture \in CaptureRecords
  BY <1>1, StepParts, CaptureTypes
<1>6. /\ r.c.seen = s.c.seen /\ r.c.nextGen = s.c.nextGen /\ r.c.errors = s.c.errors
      /\ r.c.replace = s.c.replace
      /\ r.c.capture = [s.c.capture EXCEPT !.next = x, !.flight = y]
  BY <1>1, <1>3 DEF Steps, Clients
<1>7. /\ r.c.capture.gen = s.c.capture.gen /\ r.c.capture.known = s.c.capture.known
      /\ r.c.capture.got = s.c.capture.got
      /\ r.c.capture.next = x /\ r.c.capture.flight = y
  BY <1>5, <1>6 DEF CaptureRecords
<1>8. Basic(r)
  <2>1. s.c.capture.gen < s.c.nextGen /\ Basic(s)
    BY DEF Flow, Basic, UsedOnce
  <2>2. QED
    BY <1>2, <1>4, <1>6, <1>7, <2>1, PostsKeepBasic
<1>9. r \in Steps /\ Extends(r.out, s.out)
  BY <1>2 DEF Posts
<1>10. Counted(r.c)
  <2>1. Len(s.c.capture.got) \in Nat
    BY <1>5, CaptureTypes, Domains
  <2>2. /\ s.c.capture.next \in Nat /\ s.c.capture.flight \in Nat
        /\ Len(s.c.capture.got) + s.c.capture.flight <= s.c.capture.next
    BY <1>5, CaptureTypes DEF Flow, Capturing, Counted
  <2>3. s.c.capture.next + y <= x + s.c.capture.flight
    BY <1>3
  <2>4. Len(s.c.capture.got) + y <= x
    BY <2>1, <2>2, <2>3, Sums, Zenon
  <2>5. QED
    BY <1>7, <2>2, <2>4, Zenon DEF Flow, Capturing, Counted
<1>11. Beginning(r.c, r.out, n)
  <2>1. \A i \in DOMAIN r.out : \/ i \in DOMAIN s.out /\ r.out[i] = s.out[i]
                                \/ r.out[i].op = "read"
    BY <1>1, <1>4, <1>9, StepParts, Parts
  <2>2. Beginning(s.c, s.out, n) /\ s.c.seen = life
    BY DEF Flow, Capturing
  <2>3. \A i \in DOMAIN s.out :
          Of(s.out[i], "capture", s.c.capture.gen) => s.out[i].op # "begin"
    BY <2>2 DEF Beginning
  <2>4. \A i \in Unheard(n) :
          Of(answers[i].msg, "capture", s.c.capture.gen) => answers[i].kind # "ready"
    BY <2>2 DEF Beginning
  <2>5. QED
    BY <1>7, <2>1, <2>3, <2>4 DEF Beginning
<1>12. OneCapture(r.c, n)
  <2>1. \A D : Gathered(s.c, n, D) => Gathered(r.c, n, D)
    BY <1>7 DEF Gathered
  <2>2. QED
    BY <1>6, <1>7, <2>1 DEF Flow, Capturing, OneCapture
<1>13. CaptureOwned(r.c)
  BY <1>7 DEF Flow, CaptureOwned
<1>14. Replacing(r.c, r.out, n)
  <2>1. s.out \in Seq(Messages) /\ r.out \in Seq(Messages)
    BY <1>1, <1>9, StepParts
  <2>2. "capture" \notin Kinds
    BY DEF Kinds
  <2>3. ASSUME NEW k \in Kinds, Transferring(s.c, s.out, n, k)
        PROVE  Transferring(r.c, r.out, n, k)
    <3>1. r.c.replace[k] = s.c.replace[k] /\ \A i \in Added(r.out, s.out) : r.out[i].kind # k
      BY <1>4, <1>6, <2>2
    <3>2. QED
      BY <1>9, <2>1, <2>3, <3>1, ReplaceFrame, n <= n
  <2>4. \A k \in Kinds : WorkedOn(s.c, k) => WorkedOn(r.c, k)
    BY <1>6, WorkedFrame
  <2>5. ASSUME Done(s.c, s.out, n)
        PROVE  Done(r.c, r.out, n)
    <3>1. /\ r.c.replace[Kind(work.goal)] = s.c.replace[Kind(work.goal)]
          /\ \A i \in Added(r.out, s.out) : r.out[i].kind # Kind(work.goal)
      BY <1>4, <1>6, <2>2, KindNames
    <3>2. QED
      BY <1>6, <1>9, <2>1, <2>5, <3>1, DoneFrame
  <2>6. QED
    BY <1>6, <2>3, <2>4, <2>5 DEF Flow, Replacing
<1>15. QED
  BY <1>2, <1>6, <1>8, <1>10, <1>11, <1>12, <1>13, <1>14 DEF Flow, Posts, Capturing, r

\* The commands of a transfer are in order.
LEMMA OwnedPlaces ==
  ASSUME NEW c, NEW out \in Seq(Messages), NEW k \in Kinds, Owned(c, out, k), Sound(c, k),
         c.replace[k] \in ReplaceTransfers, NEW i \in DOMAIN out, out[i].kind = k
  PROVE  /\ out[i].op \in {"begin", "write", "commit"} /\ out[i].at \in Nat
         /\ Place(out[i]) \in Nat
         /\ out[i].op # "commit" => Place(out[i]) <= c.replace[k].next
         /\ out[i].op = "commit" => Place(out[i]) = Chunks + 1 /\ c.replace[k].sent
<1> DEFINE rep == c.replace[k]
<1>1. out[i] \in Messages
  BY Domains
<1>2. out[i].at \in 0 .. Chunks /\ out[i].op \in {"begin", "write", "commit"}
  BY <1>1 DEF Messages, Kinds
<1>3. out[i].at \in Nat
  BY <1>2, Ranges
<1>4. /\ rep.gen # 0 /\ out[i].op = "write" => out[i].at < rep.next
      /\ out[i].op = "commit" => rep.sent /\ out[i].at = Chunks
  BY DEF Owned
<1>5. rep.gen # 0
  BY DEF Owned
<1>6. rep \in ReplaceTransfers
  OBVIOUS
<1> HIDE DEF rep
<1>7. rep.next \in Nat
  BY <1>5, <1>6, ReplaceTypes
<1>8. /\ out[i].op # "commit" => Place(out[i]) <= rep.next
      /\ out[i].op = "commit" => Place(out[i]) = Chunks + 1
      /\ Place(out[i]) \in Nat
  BY <1>2, <1>3, <1>4, <1>5, <1>7, Sizes DEF Place
<1>9. QED
  BY <1>2, <1>3, <1>4, <1>5, <1>8 DEF rep

LEMMA WritesTransferring ==
  ASSUME NEW c, NEW d, NEW out \in Seq(Messages), NEW more \in Seq(Messages),
         NEW n \in Nat, NEW m \in Nat, NEW k \in Kinds,
         c.replace[k] \in ReplaceTransfers, c.replace[k].gen # 0, ~c.replace[k].complete,
         c.replace[k].next + m <= Chunks, Attached \/ m = 0,
         d.replace[k] = [c.replace[k] EXCEPT !.next = c.replace[k].next + m],
         Extends(more, out), Len(more) = Len(out) + m,
         \A i \in Added(more, out) :
           /\ more[i].kind = k /\ more[i].op = "write"
           /\ more[i].gen = c.replace[k].gen /\ more[i].goal = c.replace[k].goal
           /\ more[i].at = c.replace[k].next + (i - Len(out)) - 1,
         Transferring(c, out, n, k)
  PROVE  Transferring(d, more, n, k)
<1> DEFINE rep == c.replace[k]
           l == Len(out)
<1>1. rep \in ReplaceRecords /\ rep.next \in Nat
  <2>1. rep \in ReplaceTransfers /\ rep.gen # 0
    OBVIOUS
  <2> HIDE DEF rep
  <2>2. QED
    BY <2>1, ReplaceTypes
<1>2. /\ d.replace[k].gen = rep.gen /\ d.replace[k].goal = rep.goal
      /\ d.replace[k].sent = rep.sent /\ d.replace[k].complete = rep.complete
      /\ d.replace[k].next = rep.next + m
  BY <1>1 DEF ReplaceRecords
<1>3. /\ l \in Nat /\ DOMAIN out = 1 .. l /\ DOMAIN more = 1 .. l + m
  BY Domains
<1>4. /\ \A i \in 1 .. l : more[i] = out[i]
      /\ \A i \in l + 1 .. l + m :
           /\ more[i].kind = k /\ more[i].op = "write" /\ more[i].gen = rep.gen
           /\ more[i].goal = rep.goal /\ more[i].at = rep.next + (i - l) - 1
  BY <1>3 DEF Extends, Added
<1>5. /\ Owned(c, out, k) /\ InOrder(out, k) /\ Reaches(c, out, k) /\ Sound(c, k)
      /\ Judged(c, out, n, k)
  BY DEF Transferring
<1>6. m # 0 => ~rep.sent
  BY <1>1, <1>5, Sizes DEF Sound
<1>7. \A i \in 1 .. l : out[i].kind = k =>
        /\ out[i].op \in {"begin", "write", "commit"} /\ out[i].at \in Nat
        /\ Place(out[i]) \in Nat
        /\ m # 0 => Place(out[i]) <= rep.next
  BY <1>3, <1>5, <1>6, OwnedPlaces
<1> HIDE DEF rep, l
<1>8. ASSUME NEW i \in l + 1 .. l + m
      PROVE  Place(more[i]) = rep.next + (i - l)
  <2>1. Place(more[i]) = rep.next + (i - l) - 1 + 1
    BY <1>4 DEF Place
  <2>2. rep.next \in Nat /\ i - l \in Nat
    BY <1>1, <1>3
  <2>3. QED
    BY <2>1, <2>2
<1>9. Owned(d, more, k)
  <2>1. ASSUME NEW i \in 1 .. l, more[i].kind = k
        PROVE  /\ more[i].gen = rep.gen /\ more[i].goal = rep.goal
               /\ more[i].op = "begin" => engine.staged[k].gen # rep.gen
               /\ more[i].op = "write" => more[i].at < rep.next + m
               /\ more[i].op = "commit" => rep.sent /\ more[i].at = Chunks
    <3>1. /\ more[i].gen = rep.gen /\ more[i].goal = rep.goal
          /\ more[i].op = "begin" => engine.staged[k].gen # rep.gen
          /\ more[i].op = "write" => more[i].at < rep.next
          /\ more[i].op = "commit" => rep.sent /\ more[i].at = Chunks
      BY <1>3, <1>4, <1>5, <2>1 DEF Owned, rep
    <3>2. more[i].at \in Nat
      BY <1>4, <1>7, <2>1
    <3>3. QED
      BY <1>1, <3>1, <3>2
  <2>2. ASSUME NEW i \in l + 1 .. l + m
        PROVE  more[i].at < rep.next + m
    BY <1>1, <1>3, <1>4
  <2>3. \A i \in 1 .. l + m : i \in 1 .. l \/ i \in l + 1 .. l + m
    BY <1>3
  <2>4. QED
    BY <1>2, <1>3, <1>4, <2>1, <2>2, <2>3 DEF Owned, rep
<1>10. InOrder(more, k)
  <2>1. ASSUME NEW i \in 1 .. l + m, NEW j \in 1 .. l + m, i < j,
               more[i].kind = k, more[j].kind = k
        PROVE  Place(more[i]) < Place(more[j])
    <3>1. CASE j \in 1 .. l
      <4>1. i \in 1 .. l
        BY <1>3, <2>1, <3>1
      <4>2. QED
        BY <1>3, <1>4, <1>5, <2>1, <3>1, <4>1 DEF InOrder
    <3>2. CASE i \in 1 .. l /\ j \in l + 1 .. l + m
      <4>1. Place(more[i]) \in Nat /\ Place(more[i]) <= rep.next
        BY <1>3, <1>4, <1>7, <2>1, <3>2
      <4>2. Place(more[j]) = rep.next + (j - l) /\ j - l > 0
        BY <1>3, <1>8, <3>2
      <4>3. j - l \in Nat
        BY <1>3, <3>2
      <4>4. QED
        BY <1>1, <4>1, <4>2, <4>3
    <3>3. CASE i \in l + 1 .. l + m
      <4>1. j \in l + 1 .. l + m
        BY <1>3, <2>1, <3>3
      <4>2. QED
        BY <1>1, <1>3, <1>8, <2>1, <3>3, <4>1
    <3>4. QED
      BY <1>3, <3>1, <3>2, <3>3
  <2>2. QED
    BY <1>3, <2>1 DEF InOrder
<1>11. Reaches(d, more, k)
  <2>1. ASSUME NEW i \in 1 .. l, more[i].kind = k, more[i].op # "begin"
        PROVE  \/ \E j \in DOMAIN more : j < i /\ more[j].kind = k /\ Place(more[j]) = more[i].at
               \/ StagedUpTo(rep, k, more[i].at)
    <3>1. \/ \E j \in DOMAIN out : j < i /\ out[j].kind = k /\ Place(out[j]) = out[i].at
          \/ StagedUpTo(rep, k, out[i].at)
      BY <1>3, <1>4, <1>5, <2>1 DEF Reaches, rep
    <3>2. \A j \in DOMAIN out : j \in DOMAIN more /\ more[j] = out[j]
      BY <1>3, <1>4
    <3>3. QED
      BY <1>4, <3>1, <3>2
  <2>2. m # 0 => \/ \E j \in DOMAIN out : out[j].kind = k /\ Place(out[j]) = rep.next
                 \/ StagedUpTo(rep, k, rep.next)
    BY <1>5, <1>6 DEF Reaches, rep
  <2>3. ASSUME NEW i \in l + 1 .. l + m
        PROVE  \/ \E j \in DOMAIN more : j < i /\ more[j].kind = k /\ Place(more[j]) = more[i].at
               \/ StagedUpTo(rep, k, more[i].at)
    <3>1. CASE i = l + 1
      <4>1. more[i].at = rep.next /\ m # 0
        <5>1. more[i].at = rep.next + (i - l) - 1
          BY <1>4
        <5>2. i - l = 1 /\ rep.next \in Nat /\ m # 0
          BY <1>1, <1>3, <3>1
        <5>3. QED
          BY <5>1, <5>2
      <4>2. \A j \in DOMAIN out : j \in DOMAIN more /\ more[j] = out[j] /\ j < i
        BY <1>3, <1>4, <3>1
      <4>3. QED
        BY <2>2, <4>1, <4>2
    <3>2. CASE i # l + 1
      <4>1. i - 1 \in l + 1 .. l + m /\ i - 1 \in DOMAIN more /\ i - 1 < i
        BY <1>3, <2>3, <3>2
      <4>2. Place(more[i - 1]) = rep.next + ((i - 1) - l) /\ more[i - 1].kind = k
        BY <1>4, <1>8, <4>1
      <4>3. more[i].at = rep.next + ((i - 1) - l)
        BY <1>1, <1>3, <1>4, <2>3
      <4>4. QED
        BY <4>1, <4>2, <4>3
    <3>3. QED
      BY <3>1, <3>2
  <2>4. ASSUME ~rep.sent, Attached
        PROVE  \/ \E j \in DOMAIN more : more[j].kind = k /\ Place(more[j]) = rep.next + m
               \/ StagedUpTo(rep, k, rep.next + m)
    <3>1. CASE m = 0
      <4>1. \/ \E j \in DOMAIN out : out[j].kind = k /\ Place(out[j]) = rep.next
            \/ StagedUpTo(rep, k, rep.next)
        BY <1>5, <2>4 DEF Reaches, rep
      <4>2. \A j \in DOMAIN out : j \in DOMAIN more /\ more[j] = out[j]
        BY <1>3, <1>4
      <4>3. rep.next + m = rep.next
        BY <1>1, <3>1
      <4>4. QED
        BY <4>1, <4>2, <4>3
    <3>2. CASE m # 0
      <4>1. l + m \in l + 1 .. l + m /\ l + m \in DOMAIN more
        BY <1>3, <3>2
      <4>2. Place(more[l + m]) = rep.next + ((l + m) - l) /\ more[l + m].kind = k
        BY <1>4, <1>8, <4>1
      <4>3. (l + m) - l = m
        BY <1>3
      <4>4. QED
        BY <4>1, <4>2, <4>3
    <3>3. QED
      BY <3>1, <3>2
  <2>5. \A i \in DOMAIN more : i \in 1 .. l \/ i \in l + 1 .. l + m
    BY <1>3
  <2>6. \A x : StagedUpTo(d.replace[k], k, x) <=> StagedUpTo(rep, k, x)
    BY <1>2 DEF StagedUpTo
  <2>7. QED
    BY <1>2, <2>1, <2>3, <2>4, <2>5, <2>6 DEF Reaches
<1>12. Sound(d, k)
  BY <1>1, <1>2, <1>5, <1>6 DEF Sound, rep
<1>13. Judged(d, more, n, k)
  <2>1. rep.sent => \A j \in DOMAIN more : j \in DOMAIN out /\ more[j] = out[j]
    BY <1>3, <1>4, <1>6
  <2>2. QED
    BY <1>2, <1>5, <2>1 DEF Judged, rep
<1>14. QED
  BY <1>9, <1>10, <1>11, <1>12, <1>13 DEF Transferring

LEMMA CommitTransferring ==
  ASSUME NEW c, NEW d, NEW out \in Seq(Messages), NEW more \in Seq(Messages),
         NEW n \in Nat, NEW k \in Kinds,
         c.replace[k] \in ReplaceTransfers, c.replace[k].gen # 0, ~c.replace[k].complete,
         ~c.replace[k].sent, c.replace[k].next = Chunks, Attached,
         d.replace[k] = [c.replace[k] EXCEPT !.sent = TRUE],
         Extends(more, out), Added(more, out) = {Len(out) + 1},
         more[Len(out) + 1] = Message("commit", k, c.replace[k].gen, Chunks, c.replace[k].goal),
         Transferring(c, out, n, k)
  PROVE  Transferring(d, more, n, k)
<1> DEFINE rep == c.replace[k]
           l == Len(out)
<1>1. rep \in ReplaceRecords
  <2>1. rep \in ReplaceTransfers /\ rep.gen # 0
    OBVIOUS
  <2> HIDE DEF rep
  <2>2. QED
    BY <2>1, ReplaceTypes
<1>2. /\ d.replace[k].gen = rep.gen /\ d.replace[k].goal = rep.goal
      /\ d.replace[k].sent /\ d.replace[k].complete = rep.complete
      /\ d.replace[k].next = rep.next /\ rep.next = Chunks
  BY <1>1 DEF ReplaceRecords
<1>3. l \in Nat /\ l + 1 \in DOMAIN more /\ l + 1 \notin DOMAIN out
  BY Domains DEF Added
<1>4. /\ \A i \in DOMAIN more : i = l + 1 \/ (i \in DOMAIN out /\ more[i] = out[i])
      /\ \A i \in DOMAIN out : i \in DOMAIN more /\ more[i] = out[i] /\ i < l + 1
      /\ \A i \in DOMAIN more : i <= l + 1
  BY Parts, Domains
<1>5. /\ more[l + 1].kind = k /\ more[l + 1].op = "commit" /\ more[l + 1].gen = rep.gen
      /\ more[l + 1].goal = rep.goal /\ more[l + 1].at = Chunks
      /\ Place(more[l + 1]) = Chunks + 1
  BY DEF Message, Place
<1>6. /\ Owned(c, out, k) /\ InOrder(out, k) /\ Reaches(c, out, k) /\ Sound(c, k)
      /\ Judged(c, out, n, k)
  BY DEF Transferring
<1>7. ASSUME NEW i \in DOMAIN out, out[i].kind = k
      PROVE  out[i].op # "commit" /\ Place(out[i]) \in Nat /\ Place(out[i]) <= Chunks
  <2>1. /\ Place(out[i]) \in Nat
        /\ out[i].op # "commit" => Place(out[i]) <= c.replace[k].next
        /\ out[i].op = "commit" => c.replace[k].sent
    BY <1>6, <1>7, OwnedPlaces
  <2>2. QED
    BY <2>1
<1> HIDE DEF rep, l
<1>8. Owned(d, more, k)
  BY <1>2, <1>4, <1>5, <1>6, <1>7 DEF Owned, rep
<1>9. InOrder(more, k)
  <2>1. ASSUME NEW i \in DOMAIN more, NEW j \in DOMAIN more, i < j,
               more[i].kind = k, more[j].kind = k
        PROVE  Place(more[i]) < Place(more[j])
    <3>1. i \in DOMAIN out /\ more[i] = out[i]
      <4>1. i # l + 1
        BY <1>3, <1>4, <2>1, Domains
      <4>2. QED
        BY <1>4, <4>1
    <3>2. CASE j = l + 1
      BY <1>5, <1>7, <2>1, <3>1, <3>2, Sizes
    <3>3. CASE j # l + 1
      BY <1>4, <1>6, <2>1, <3>1, <3>3 DEF InOrder
    <3>4. QED
      BY <3>2, <3>3
  <2>2. QED
    BY <2>1 DEF InOrder
<1>10. Reaches(d, more, k)
  <2>1. \A x : StagedUpTo(d.replace[k], k, x) <=> StagedUpTo(rep, k, x)
    BY <1>2 DEF StagedUpTo
  <2>2. ASSUME NEW i \in DOMAIN more, more[i].kind = k, more[i].op # "begin"
        PROVE  \/ \E j \in DOMAIN more : j < i /\ more[j].kind = k /\ Place(more[j]) = more[i].at
               \/ StagedUpTo(rep, k, more[i].at)
    <3>1. CASE i = l + 1
      <4>1. \/ \E j \in DOMAIN out : out[j].kind = k /\ Place(out[j]) = rep.next
            \/ StagedUpTo(rep, k, rep.next)
        BY <1>6 DEF Reaches, rep
      <4>2. QED
        BY <1>2, <1>4, <1>5, <3>1, <4>1
    <3>2. CASE i # l + 1
      <4>1. \/ \E j \in DOMAIN out : j < i /\ out[j].kind = k /\ Place(out[j]) = out[i].at
            \/ StagedUpTo(rep, k, out[i].at)
        BY <1>4, <1>6, <2>2, <3>2 DEF Reaches, rep
      <4>2. QED
        BY <1>4, <3>2, <4>1
    <3>3. QED
      BY <3>1, <3>2
  <2>3. QED
    BY <1>2, <2>1, <2>2 DEF Reaches
<1>11. Sound(d, k)
  BY <1>2, <1>6 DEF Sound, rep
<1>12. Judged(d, more, n, k)
  BY <1>2, <1>6 DEF Judged, rep
<1>13. QED
  BY <1>8, <1>9, <1>10, <1>11, <1>12 DEF Transferring

LEMMA BegunTransferring ==
  ASSUME NEW c, NEW d, NEW out \in Seq(Messages), NEW more \in Seq(Messages),
         NEW n \in Nat, NEW k \in Kinds, NEW goal, NEW gen, gen # 0,
         c.replace[k].gen = 0, engine.staged[k].gen # gen,
         d.replace[k] = NewReplace(gen, goal),
         Extends(more, out), Added(more, out) = {Len(out) + 1},
         more[Len(out) + 1] = Message("begin", k, gen, 0, goal),
         Transferring(c, out, n, k)
  PROVE  Transferring(d, more, n, k)
<1> DEFINE l == Len(out)
<1>1. /\ d.replace[k].gen = gen /\ d.replace[k].goal = goal /\ d.replace[k].sent = FALSE
      /\ d.replace[k].complete = FALSE /\ d.replace[k].next = 0
  BY DEF NewReplace
<1>2. l \in Nat /\ l + 1 \in DOMAIN more
  BY Domains DEF Added
<1>3. \A i \in DOMAIN out : out[i].kind # k
  BY DEF Transferring, Owned
<1>4. \A i \in DOMAIN more : i \in Nat /\ (more[i].kind = k => i = l + 1)
  BY <1>3, Parts
<1>5. /\ more[l + 1].kind = k /\ more[l + 1].op = "begin" /\ more[l + 1].gen = gen
      /\ more[l + 1].goal = goal /\ Place(more[l + 1]) = 0
  BY DEF Message, Place
<1> HIDE DEF l
<1>6. Owned(d, more, k)
  BY <1>1, <1>4, <1>5 DEF Owned
<1>7. InOrder(more, k)
  BY <1>4 DEF InOrder
<1>8. Reaches(d, more, k)
  BY <1>1, <1>2, <1>4, <1>5 DEF Reaches
<1>9. Sound(d, k)
  BY <1>1 DEF Sound
<1>10. Judged(d, more, n, k)
  BY <1>1 DEF Judged, Transferring
<1>11. QED
  BY <1>6, <1>7, <1>8, <1>9, <1>10 DEF Transferring

\* A kind without a transfer has nothing under way.
LEMMA NoneTransferring ==
  ASSUME NEW d, NEW out, NEW n, NEW k,
         d.replace[k].gen = 0, \A i \in DOMAIN out : out[i].kind # k,
         \A i \in Unheard(n) : answers[i].msg.kind = k => ~Verdict(answers[i])
  PROVE  Transferring(d, out, n, k)
BY DEF Transferring, Owned, InOrder, Reaches, Sound, Judged

LEMMA NoneCapturing ==
  ASSUME NEW d, NEW out, NEW n, d.capture.gen = 0
  PROVE  Capturing(d, out, n) /\ CaptureOwned(d)
BY DEF Capturing, Counted, Beginning, OneCapture, CaptureOwned

\* A transfer that goes on leaves everything else as it was.
LEMMA ReplaceFlow ==
  ASSUME NEW s, NEW r, NEW n \in Nat, NEW k \in Kinds, NEW rep, answers \in Seq(Answers),
         Flow(s, n), Posts(r, s),
         r.c = [s.c EXCEPT !.replace = [s.c.replace EXCEPT ![k] = rep]],
         rep.gen = s.c.replace[k].gen, rep.goal = s.c.replace[k].goal,
         rep.sent = s.c.replace[k].sent \/ Attached,
         s.c.replace[k].sent => rep.sent,
         \A i \in Added(r.out, s.out) :
           r.out[i].kind = k /\ r.out[i].gen = s.c.replace[k].gen,
         Sound(s.c, k) /\ s.c.replace[k].gen # 0 /\ s.c.replace[k].sent
           => Added(r.out, s.out) = {},
         Transferring(s.c, s.out, n, k) => Transferring(r.c, r.out, n, k)
  PROVE  Flow(r, n)
<1>1. /\ s \in Steps /\ Basic(s) /\ r \in Steps /\ Extends(r.out, s.out)
      /\ s.c.replace \in [Kinds -> ReplaceTransfers]
  BY StepParts DEF Flow, Basic, Posts
<1>2. /\ r.c.seen = s.c.seen /\ r.c.nextGen = s.c.nextGen /\ r.c.errors = s.c.errors
      /\ r.c.capture = s.c.capture
      /\ r.c.replace = [s.c.replace EXCEPT ![k] = rep]
  BY <1>1 DEF Steps, Clients
<1>3. /\ r.c.replace[k] = rep
      /\ \A j \in Kinds : j # k => r.c.replace[j] = s.c.replace[j]
  BY <1>1, <1>2
<1>4. s.c.replace[k].gen < s.c.nextGen
  BY <1>1 DEF Basic, UsedOnce
<1>5. \A j \in Kinds : r.c.replace[j].gen = s.c.replace[j].gen
  BY <1>3
<1>6. Basic(r)
  BY <1>1, <1>2, <1>4, <1>5, PostsKeepBasic
<1>7. s.out \in Seq(Messages) /\ r.out \in Seq(Messages)
  BY <1>1, StepParts
<1>8. "capture" \notin Kinds
  BY DEF Kinds
<1>9. Capturing(r.c, r.out, n)
  <2>1. \A i \in Added(r.out, s.out) : r.out[i].kind # "capture"
    BY <1>8
  <2>2. Capturing(s.c, s.out, n)
    BY DEF Flow
  <2>3. QED
    BY <1>1, <1>2, <1>7, <2>1, <2>2, CaptureFrame, n <= n
<1>10. CaptureOwned(r.c)
  BY <1>2 DEF Flow, CaptureOwned
<1>11. Replacing(r.c, r.out, n)
  <2> SUFFICES ASSUME NothingLeftOver
               PROVE  /\ \A j \in Kinds : Transferring(r.c, r.out, n, j) /\ WorkedOn(r.c, j)
                      /\ Done(r.c, r.out, n)
    BY DEF Replacing
  <2>1. /\ \A j \in Kinds : Transferring(s.c, s.out, n, j) /\ WorkedOn(s.c, j)
        /\ Done(s.c, s.out, n)
    BY DEF Flow, Replacing
  <2>2. ASSUME NEW j \in Kinds
        PROVE  Transferring(r.c, r.out, n, j)
    <3>1. CASE j = k
      BY <2>1, <3>1
    <3>2. CASE j # k
      <4>1. r.c.replace[j] = s.c.replace[j] /\ \A i \in Added(r.out, s.out) : r.out[i].kind # j
        BY <1>3, <3>2
      <4>2. Transferring(s.c, s.out, n, j)
        BY <2>1
      <4>3. QED
        BY <1>1, <1>7, <4>1, <4>2, ReplaceFrame, n <= n
    <3>3. QED
      BY <3>1, <3>2
  <2>3. ASSUME NEW j \in Kinds
        PROVE  WorkedOn(r.c, j)
    <3>1. /\ WorkedOn(s.c, j)
          /\ \/ r.c.replace[j] = s.c.replace[j]
             \/ /\ r.c.replace[j].gen = s.c.replace[j].gen
                /\ r.c.replace[j].goal = s.c.replace[j].goal
                /\ r.c.replace[j].sent = s.c.replace[j].sent \/ Attached
      BY <1>3, <2>1
    <3>2. QED
      BY <3>1, WorkedFrame
  <2>4. Done(r.c, r.out, n)
    <3>1. CASE Kind(work.goal) = k
      <4>1. Done(s.c, s.out, n) /\ Sound(s.c, k)
        BY <2>1 DEF Transferring
      <4>2. CASE s.c.replace[k].gen = 0
        BY <1>3, <3>1, <4>1, <4>2 DEF Done
      <4>3. CASE s.c.replace[k].gen # 0
        <5>1. s.c.replace[k].sent => \A i \in Added(r.out, s.out) : r.out[i].kind # k
          BY <4>1, <4>3
        <5>2. QED
          BY <1>1, <1>2, <1>3, <1>7, <3>1, <4>1, <5>1, DoneFrame, n <= n
      <4>4. QED
        BY <4>2, <4>3
    <3>2. CASE Kind(work.goal) # k
      <4>1. /\ r.c.replace[Kind(work.goal)] = s.c.replace[Kind(work.goal)]
            /\ \A i \in Added(r.out, s.out) : r.out[i].kind # Kind(work.goal)
        BY <1>3, <3>2, KindNames
      <4>2. QED
        BY <1>1, <1>2, <1>7, <2>1, <4>1, DoneFrame, n <= n
    <3>3. QED
      BY <3>1, <3>2
  <2>5. QED
    BY <2>2, <2>3, <2>4
<1>12. QED
  BY <1>2, <1>6, <1>9, <1>10, <1>11 DEF Flow, Posts

LEMMA WritesFlow ==
  ASSUME NEW s, NEW n \in Nat, NEW k \in Kinds, NEW m \in Nat, answers \in Seq(Answers),
         Flow(s, n), Pumpable(s, k, m)
  PROVE  Flow(WritesPosted(s, k, m), n)
<1> DEFINE r == WritesPosted(s, k, m)
           old == s.c.replace[k]
           rep == [s.c.replace[k] EXCEPT !.next = s.c.replace[k].next + m]
<1>1. s \in Steps /\ Len(s.out) <= Capacity /\ s.out \in Seq(Messages) /\ Len(s.out) \in Nat
  BY StepParts DEF Flow, Basic
<1>2. /\ old.gen # 0 /\ ~old.complete /\ old.next + m <= Chunks /\ Len(s.out) + m <= Capacity
      /\ Attached \/ m = 0
  BY DEF Pumpable
<1>3. /\ r \in Steps /\ Len(r.out) = Len(s.out) + m
      /\ r.c = [s.c EXCEPT !.replace = [s.c.replace EXCEPT ![k] = rep]]
      /\ Extends(r.out, s.out)
      /\ \A i \in Added(r.out, s.out) :
           /\ r.out[i].kind = k /\ r.out[i].op = "write" /\ r.out[i].gen = old.gen
           /\ r.out[i].goal = old.goal /\ r.out[i].at = old.next + (i - Len(s.out)) - 1
      /\ r.ok = s.ok /\ r.data = s.data
  <2>1. s.c.replace[k].gen # 0 /\ s.c.replace[k].next + m <= Chunks
    BY <1>2
  <2>2. Written(r, s, k, m)
    BY <1>1, <1>2, <2>1, WriteFacts
  <2>3. QED
    BY <2>2, Zenon DEF Written
<1> HIDE DEF r
<1>4. old \in ReplaceTransfers /\ old \in ReplaceRecords
  BY <1>1, <1>2, StepParts, ReplaceTypes
<1>5. Posts(r, s)
  BY <1>1, <1>2, <1>3 DEF Posts
<1>6. rep.gen = old.gen /\ rep.goal = old.goal /\ rep.sent = old.sent
  BY <1>4 DEF ReplaceRecords
<1>7. r.c.replace[k] = rep
  <2> HIDE DEF rep
  <2>1. QED
    BY <1>1, <1>3, StepParts DEF Clients
<1>8. r.out \in Seq(Messages)
  BY <1>3, StepParts
<1>9. ASSUME Transferring(s.c, s.out, n, k)
      PROVE  Transferring(r.c, r.out, n, k)
  BY <1>1, <1>2, <1>3, <1>4, <1>7, <1>8, <1>9, WritesTransferring
<1>10. ASSUME Sound(s.c, k), old.sent
       PROVE  Added(r.out, s.out) = {}
  <2>1. m = 0
    <3>1. old.next = Chunks /\ old.next \in Nat
      BY <1>2, <1>4, <1>10, ReplaceTypes DEF Sound
    <3> HIDE DEF old
    <3>2. QED
      BY <1>2, <3>1
  <2>2. QED
    BY <1>1, <1>3, <1>8, <2>1, Domains DEF Added
<1> HIDE DEF rep
<1>11. QED
  BY <1>3, <1>5, <1>6, <1>9, <1>10, ReplaceFlow DEF r

LEMMA CommitFlow ==
  ASSUME NEW s, NEW n \in Nat, NEW k \in Kinds, answers \in Seq(Answers),
         Flow(s, n), Committable(s, k)
  PROVE  Flow(CommitPosted(s, k), n)
<1> DEFINE r == CommitPosted(s, k)
           old == s.c.replace[k]
           rep == [s.c.replace[k] EXCEPT !.sent = TRUE]
<1>1. s \in Steps /\ Len(s.out) <= Capacity /\ s.out \in Seq(Messages)
  BY StepParts DEF Flow, Basic
<1>2. /\ old.gen # 0 /\ ~old.complete /\ ~old.sent /\ old.next = Chunks
      /\ Len(s.out) < Capacity /\ Attached
  BY DEF Committable
<1>3. /\ r \in Steps /\ Len(r.out) <= Capacity
      /\ r.c = [s.c EXCEPT !.replace = [s.c.replace EXCEPT ![k] = rep]]
      /\ Extends(r.out, s.out) /\ Added(r.out, s.out) = {Len(s.out) + 1}
      /\ r.out[Len(s.out) + 1] = Message("commit", k, old.gen, Chunks, old.goal)
      /\ r.ok = s.ok /\ r.data = s.data
  BY <1>1, <1>2, CommitFacts
<1> HIDE DEF r
<1>4. old \in ReplaceTransfers /\ old \in ReplaceRecords
  BY <1>1, <1>2, StepParts, ReplaceTypes
<1>5. Posts(r, s)
  BY <1>2, <1>3 DEF Posts
<1>6. rep.gen = old.gen /\ rep.goal = old.goal /\ rep.sent
  BY <1>4 DEF ReplaceRecords
<1>7. r.c.replace[k] = rep
  <2> HIDE DEF rep
  <2>1. QED
    BY <1>1, <1>3, StepParts DEF Clients
<1>8. r.out \in Seq(Messages)
  BY <1>3, StepParts
<1>9. ASSUME Transferring(s.c, s.out, n, k)
      PROVE  Transferring(r.c, r.out, n, k)
  BY <1>1, <1>2, <1>3, <1>4, <1>7, <1>8, <1>9, CommitTransferring
<1>10. \A i \in Added(r.out, s.out) : r.out[i].kind = k /\ r.out[i].gen = old.gen
  BY <1>3 DEF Message
<1> HIDE DEF rep
<1>11. QED
  BY <1>2, <1>3, <1>5, <1>6, <1>9, <1>10, ReplaceFlow DEF r

LEMMA PumpFlow ==
  ASSUME NEW s, NEW n \in Nat, NEW k \in Kinds, answers \in Seq(Answers), Flow(s, n)
  PROVE  Flow(Pump(s, k), n)
<1>1. s \in Steps /\ Len(s.out) <= Capacity
  BY DEF Flow, Basic
<1>2. CASE Pump(s, k) = s
  BY <1>2
<1>3. CASE Pump(s, k) = Failing(s)
  BY <1>1, <1>3, FailingFacts, FlowOf, n <= n
<1>4. ASSUME NEW m \in Nat, Pumpable(s, k, m)
      PROVE  Flow(WritesPosted(s, k, m), n)
  BY <1>4, WritesFlow
<1>5. ASSUME NEW m \in Nat, Pumpable(s, k, m), Committable(WritesPosted(s, k, m), k)
      PROVE  Flow(CommitPosted(WritesPosted(s, k, m), k), n)
  BY <1>4, <1>5, CommitFlow
<1>6. QED
  BY <1>1, <1>2, <1>3, <1>4, <1>5, PumpCases

-----------------------------------------------------------------------------
(* What is heard.                                                          *)

LEMMA AnswerFacts ==
  ASSUME answers \in Seq(Answers), NEW n \in Nat, n + 1 \in DOMAIN answers
  PROVE  /\ n + 1 \in Unheard(n) /\ n + 1 \notin Unheard(n + 1)
         /\ \A i \in Unheard(n + 1) : i \in Unheard(n) /\ i # n + 1
         /\ answers[n + 1] \in Answers /\ n <= n + 1
<1>1. \A i \in DOMAIN answers : i \in Nat
  BY Domains
<1>2. answers[n + 1] \in Answers
  BY Domains
<1>3. QED
  BY <1>1, <1>2 DEF Unheard

LEMMA AnswerTypes ==
  ASSUME NEW a \in Answers
  PROVE  /\ a.msg \in Messages /\ a.msg.gen \in Nat /\ a.msg.at \in Nat /\ a.data \in Captures
         /\ a.msg.kind \in Kinds \union {"capture", "beside"}
         /\ a.kind \in {"ack", "error", "ready", "chunk", "complete"}
         /\ a.kind \in {"ready", "chunk"} => a.msg.kind = "capture"
         /\ a.kind = "complete" => a.msg.kind \in Kinds
         /\ a.msg.kind # "beside" => a.msg.gen # 0
<1>1. /\ a.msg \in Messages /\ a.data \in Captures
      /\ a.kind \in {"ack", "error", "ready", "chunk", "complete"}
      /\ a.kind \in {"ready", "chunk"} => a.msg.kind = "capture"
      /\ a.kind = "complete" => a.msg.kind \in Kinds
  BY DEF Answers
<1>2. /\ a.msg.gen \in Nat /\ a.msg.at \in 0 .. Chunks
      /\ a.msg.kind \in Kinds \union {"capture", "beside"}
      /\ a.msg.kind # "beside" => a.msg.gen # 0
  BY <1>1 DEF Messages, Gens
<1>3. a.msg.at \in Nat
  BY <1>2, Ranges
<1>4. QED
  BY <1>1, <1>2, <1>3

\* A step that posts nothing and touches one transfer only.
LEMMA CaptureFlow ==
  ASSUME NEW s, NEW r \in Steps, NEW n \in Nat, NEW m \in Nat, n <= m, answers \in Seq(Answers),
         Flow(s, n), r.out = s.out, r.data = s.data,
         r.c.seen = s.c.seen, r.c.nextGen = s.c.nextGen,
         r.c.replace = s.c.replace, Ended(r.c),
         r.c.capture.gen = s.c.capture.gen \/ r.c.capture.gen = 0,
         Capturing(r.c, r.out, m)
  PROVE  Flow(r, m)
<1>1. /\ s \in Steps /\ s.out \in Seq(Messages) /\ s.c.nextGen \in Nat /\ s.c.nextGen # 0
      /\ Len(s.out) <= Capacity /\ Silent(s.out) /\ UsedOnce(s.c, s.out)
  BY StepParts DEF Flow, Basic
<1>2. Basic(r)
  <2>1. r.c.capture.gen < r.c.nextGen
    BY <1>1 DEF UsedOnce
  <2>2. UsedOnce(r.c, r.out)
    BY <1>1, <2>1 DEF UsedOnce
  <2>3. QED
    BY <1>1, <2>2 DEF Basic
<1>3. CaptureOwned(r.c)
  BY DEF Flow, CaptureOwned
<1>4. Extends(s.out, s.out) /\ Added(s.out, s.out) = {}
  BY <1>1, Domains DEF Extends, Added
<1>5. \A k \in Kinds : Transferring(s.c, s.out, n, k) => Transferring(r.c, r.out, m, k)
  BY <1>1, <1>4, ReplaceFrame
<1>6. Done(s.c, s.out, n) => Done(r.c, r.out, m)
  BY <1>1, <1>4, DoneFrame
<1>7. Replacing(r.c, r.out, m)
  BY <1>5, <1>6 DEF Flow, Replacing, WorkedOn
<1>8. QED
  BY <1>2, <1>3, <1>7 DEF Flow

LEMMA TransferFlow ==
  ASSUME NEW s, NEW r \in Steps, NEW n \in Nat, NEW m \in Nat, n <= m, answers \in Seq(Answers),
         Flow(s, n), NEW k \in Kinds, NEW rep,
         r.out = s.out, r.data = s.data, r.c.seen = s.c.seen, r.c.nextGen = s.c.nextGen,
         r.c.capture = s.c.capture, Ended(r.c),
         r.c.replace = [s.c.replace EXCEPT ![k] = rep],
         \/ rep.gen = 0
         \/ /\ rep.gen = s.c.replace[k].gen /\ rep.goal = s.c.replace[k].goal
            /\ rep.sent = s.c.replace[k].sent,
         NothingLeftOver /\ Transferring(s.c, s.out, n, k) => Transferring(r.c, r.out, m, k),
         NothingLeftOver /\ Transferring(s.c, s.out, n, k) /\ Done(s.c, s.out, n)
           => Done(r.c, r.out, m) \/ (rep.gen # 0 \/ Kind(work.goal) # k)
  PROVE  Flow(r, m)
<1>1. /\ s \in Steps /\ s.out \in Seq(Messages) /\ s.c.nextGen \in Nat /\ s.c.nextGen # 0
      /\ Len(s.out) <= Capacity /\ Silent(s.out) /\ UsedOnce(s.c, s.out)
      /\ s.c.replace \in [Kinds -> ReplaceTransfers]
  BY StepParts DEF Flow, Basic
<1>2. /\ r.c.replace[k] = rep
      /\ \A j \in Kinds : j # k => r.c.replace[j] = s.c.replace[j]
  BY <1>1
<1>3. Basic(r)
  <2>1. \A j \in Kinds : r.c.replace[j].gen < r.c.nextGen
    BY <1>1, <1>2 DEF UsedOnce
  <2>2. UsedOnce(r.c, r.out)
    BY <1>1, <2>1 DEF UsedOnce
  <2>3. QED
    BY <1>1, <2>2 DEF Basic
<1>4. CaptureOwned(r.c)
  BY DEF Flow, CaptureOwned
<1>5. Extends(s.out, s.out) /\ Added(s.out, s.out) = {}
  BY <1>1, Domains DEF Extends, Added
<1>6. Capturing(r.c, r.out, m)
  BY <1>1, <1>5, CaptureFrame DEF Flow
<1>7. ASSUME NothingLeftOver
      PROVE  /\ \A j \in Kinds : Transferring(r.c, r.out, m, j) /\ WorkedOn(r.c, j)
             /\ Done(r.c, r.out, m)
  <2>1. /\ \A j \in Kinds : Transferring(s.c, s.out, n, j) /\ WorkedOn(s.c, j)
        /\ Done(s.c, s.out, n)
    BY <1>7 DEF Flow, Replacing
  <2>2. ASSUME NEW j \in Kinds
        PROVE  Transferring(r.c, r.out, m, j)
    <3>1. Transferring(s.c, s.out, n, j)
      BY <2>1
    <3>2. CASE j = k
      BY <1>7, <3>1, <3>2
    <3>3. CASE j # k
      BY <1>1, <1>2, <1>5, <3>1, <3>3, ReplaceFrame
    <3>4. QED
      BY <3>2, <3>3
  <2>3. ASSUME NEW j \in Kinds
        PROVE  WorkedOn(r.c, j)
    BY <1>2, <2>1 DEF WorkedOn
  <2>4. Done(r.c, r.out, m)
    <3>1. CASE Kind(work.goal) # k
      BY <1>1, <1>2, <1>5, <2>1, <3>1, KindNames, DoneFrame
    <3>2. CASE Kind(work.goal) = k /\ rep.gen # 0
      BY <1>1, <1>2, <1>5, <2>1, <3>2, DoneFrame
    <3>3. CASE Kind(work.goal) = k /\ rep.gen = 0
      BY <1>7, <2>1, <3>3
    <3>4. QED
      BY <3>1, <3>2, <3>3
  <2>5. QED
    BY <2>2, <2>3, <2>4
<1>8. Replacing(r.c, r.out, m)
  BY <1>7 DEF Replacing
<1>9. QED
  BY <1>3, <1>4, <1>6, <1>8 DEF Flow

LEMMA ReadyFlow ==
  ASSUME NEW s, NEW n \in Nat, answers \in Seq(Answers), n + 1 \in DOMAIN answers, Flow(s, n),
         answers[n + 1].kind = "ready"
  PROVE  Flow(Ready(s, answers[n + 1]), n + 1)
<1> DEFINE a == answers[n + 1]
           cap == [s.c.capture EXCEPT !.known = TRUE, !.next = 0, !.flight = 0]
           r == [s EXCEPT !.c = [s.c EXCEPT !.capture = cap]]
<1>1. s \in Steps /\ s.c \in Clients /\ s.c.capture \in CaptureTransfers /\ n + 1 \in Nat
  BY StepParts DEF Flow, Basic
<1>2. a \in Answers /\ a.msg.kind = "capture"
  BY AnswerFacts, AnswerTypes
<1>3. Flow(s, n + 1)
  BY <1>1, AnswerFacts, FlowOf
<1>4. CASE s.c.capture.gen = 0
  <2>1. Ready(s, a) = s
    BY <1>4 DEF Ready
  <2>2. QED
    BY <1>3, <2>1
<1>5. CASE s.c.capture.gen # 0 /\ s.c.capture.gen # a.msg.gen
  <2>1. Ready(s, a) = Failing(s)
    BY <1>5 DEF Ready
  <2>2. Flow(Failing(s), n + 1)
    BY <1>1, <1>3, FailingFacts, FlowOf, n + 1 <= n + 1
  <2>3. QED
    BY <2>1, <2>2
<1>6. CASE s.c.capture.gen # 0 /\ s.c.capture.gen = a.msg.gen
  <2>1. s.c.capture \in CaptureRecords
    BY <1>1, <1>6, CaptureTypes
  <2>2. Ready(s, a) = RequestChunks([s EXCEPT !.c.capture.known = TRUE, !.c.capture.next = 0,
                                              !.c.capture.flight = 0])
    BY <1>6 DEF Ready
  <2>3. [s EXCEPT !.c.capture.known = TRUE, !.c.capture.next = 0, !.c.capture.flight = 0] = r
    BY <1>1, <2>1 DEF Steps, Clients, CaptureRecords
  <2>4. 0 \in 0 .. Chunks /\ 0 \in 0 .. InFlight
    BY Ranges, Sizes
  <2>5. cap \in CaptureRecords
    BY <2>1, <2>4 DEF CaptureRecords
  <2>6. /\ cap.gen = s.c.capture.gen /\ cap.known = TRUE /\ cap.got = s.c.capture.got
        /\ cap.next = 0 /\ cap.flight = 0
    BY <2>1 DEF CaptureRecords
  <2>7. cap \in CaptureTransfers
    BY <2>5, CaptureTypes
  <2> HIDE DEF cap
  <2>8. [s.c EXCEPT !.capture = cap] \in Clients
    BY <1>1, <2>7 DEF Clients
  <2>9. /\ r \in Steps /\ r.c = [s.c EXCEPT !.capture = cap] /\ r.out = s.out
         /\ r.data = s.data
    BY <1>1, <2>8 DEF Steps
  <2> HIDE DEF r
  <2>10. /\ r.c.capture = cap /\ r.c.seen = s.c.seen /\ r.c.nextGen = s.c.nextGen
         /\ r.c.replace = s.c.replace /\ r.c.errors = s.c.errors
    BY <1>1, <2>9 DEF Clients
  <2>11. /\ ~s.c.capture.known
         /\ \A i \in DOMAIN s.out : ~Of(s.out[i], "capture", cap.gen)
         /\ \A i \in Unheard(n + 1) : ~Of(answers[i].msg, "capture", cap.gen)
    <3>1. /\ n + 1 \in Unheard(n) /\ Of(answers[n + 1].msg, "capture", cap.gen)
          /\ \A i \in Unheard(n + 1) : i \in Unheard(n) /\ i # n + 1
      BY <1>2, <1>6, <2>6, AnswerFacts DEF Of
    <3>2. Beginning(s.c, s.out, n) /\ s.c.seen = life
      BY DEF Flow, Capturing
    <3>3. QED
      BY <1>6, <2>6, <3>1, <3>2 DEF Beginning
  <2>12. Capturing(r.c, r.out, n + 1)
    <3>1. Capturing(s.c, s.out, n) /\ s.c.seen = life
      BY DEF Flow
    <3>2. s.c.capture.got = <<>>
      BY <1>6, <2>11, <3>1 DEF Capturing, Counted
    <3>3. Counted(r.c)
      BY <2>6, <2>10, <3>2 DEF Counted
    <3>4. Beginning(r.c, r.out, n + 1)
      BY <2>6, <2>9, <2>10, <2>11 DEF Beginning
    <3>5. \A D : Gathered(s.c, n, D) => Gathered(r.c, n + 1, D)
      BY <2>6, <2>10, AnswerFacts DEF Gathered
    <3>6. OneCapture(r.c, n + 1)
      BY <2>6, <2>10, <3>1, <3>5 DEF Capturing, OneCapture
    <3>7. QED
      BY <3>3, <3>4, <3>6 DEF Capturing
  <2>13. Ended(r.c)
    BY <2>6, <2>10 DEF Flow, Basic, Ended
  <2>14. Flow(r, n + 1)
    BY <1>1, <2>6, <2>9, <2>10, <2>12, <2>13, AnswerFacts, CaptureFlow
  <2>15. r.c.capture.gen # 0 /\ r.c.capture.known
    BY <1>6, <2>6, <2>10
  <2>16. Flow(RequestChunks(r), n + 1)
    BY <1>1, <2>14, <2>15, RequestsFlow
  <2>17. QED
    BY <2>2, <2>3, <2>16 DEF r
<1>7. QED
  BY <1>4, <1>5, <1>6

LEMMA ChunkFlow ==
  ASSUME NEW s, NEW n \in Nat, answers \in Seq(Answers), n + 1 \in DOMAIN answers, Flow(s, n),
         answers[n + 1].kind = "chunk"
  PROVE  Flow(Chunk(s, answers[n + 1]), n + 1)
<1> DEFINE a == answers[n + 1]
           old == s.c.capture
           got == Append(old.got, a.data)
           left == old.flight - 1
           cap == [old EXCEPT !.got = got, !.flight = left]
           r == [s EXCEPT !.c = [s.c EXCEPT !.capture = cap]]
<1>1. s \in Steps /\ s.c \in Clients /\ old \in CaptureTransfers /\ n + 1 \in Nat
  BY StepParts DEF Flow, Basic
<1>2. a \in Answers /\ a.msg.kind = "capture" /\ a.data \in Captures
  BY AnswerFacts, AnswerTypes
<1>3. Flow(s, n + 1)
  BY <1>1, AnswerFacts, FlowOf
<1>4. CASE s.c.capture.gen = 0
  <2>1. Chunk(s, a) = s
    BY <1>4 DEF Chunk
  <2>2. QED
    BY <1>3, <2>1
<1>5. CASE s.c.capture.gen # 0 /\ ~ChunkFits(old, a)
  <2>1. Chunk(s, a) = Failing(s)
    BY <1>5 DEF Chunk
  <2>2. Flow(Failing(s), n + 1)
    BY <1>1, <1>3, FailingFacts, FlowOf, n + 1 <= n + 1
  <2>3. QED
    BY <2>1, <2>2
<1>6. CASE s.c.capture.gen # 0 /\ ChunkFits(old, a)
  <2>1. old \in CaptureRecords
    BY <1>1, <1>6, CaptureTypes
  <2>2. /\ old.got \in Seq(Captures) /\ old.next \in Nat /\ old.flight \in Nat
        /\ old.flight <= InFlight
    BY <2>1, CaptureTypes
  <2>3. old.gen = a.msg.gen /\ old.known /\ old.flight > 0
    BY <1>6 DEF ChunkFits
  <2>4. Chunk(s, a) = RequestChunks([s EXCEPT !.c.capture.got = Append(@, a.data),
                                              !.c.capture.flight = @ - 1])
    BY <1>6 DEF Chunk
  <2>5. [s EXCEPT !.c.capture.got = Append(@, a.data), !.c.capture.flight = @ - 1] = r
    BY <1>1, <2>1 DEF Steps, Clients, CaptureRecords
  <2>6. /\ got \in Seq(Captures) /\ Len(got) = Len(old.got) + 1
        /\ \A i \in DOMAIN got : (i \in DOMAIN old.got /\ got[i] = old.got[i]) \/ got[i] = a.data
    <3> HIDE DEF old, a
    <3>1. /\ got \in Seq(Captures) /\ Len(got) = Len(old.got) + 1
          /\ Extends(got, old.got) /\ Added(got, old.got) = {Len(old.got) + 1}
          /\ got[Len(old.got) + 1] = a.data
      BY <1>2, <2>2, Appended
    <3> HIDE DEF got
    <3>2. QED
      BY <2>2, <3>1, Parts
  <2>7. left \in Nat /\ left <= InFlight /\ left + 1 = old.flight
    <3> HIDE DEF old
    <3>1. QED
      BY <2>2, <2>3, Sizes
  <2>8. left \in 0 .. InFlight
    BY <2>7, Ranges
  <2> HIDE DEF got, left
  <2>9. cap \in CaptureRecords
    BY <2>1, <2>6, <2>8 DEF CaptureRecords
  <2>10. /\ cap.gen = old.gen /\ cap.known = old.known /\ cap.got = got
         /\ cap.next = old.next /\ cap.flight = left
    BY <2>1 DEF CaptureRecords
  <2>11. cap \in CaptureTransfers
    BY <2>9, CaptureTypes
  <2> HIDE DEF cap
  <2>12. [s.c EXCEPT !.capture = cap] \in Clients
    BY <1>1, <2>11 DEF Clients
  <2>13. /\ r \in Steps /\ r.c = [s.c EXCEPT !.capture = cap] /\ r.out = s.out
         /\ r.data = s.data
    BY <1>1, <2>12 DEF Steps
  <2> HIDE DEF r
  <2>14. /\ r.c.capture = cap /\ r.c.seen = s.c.seen /\ r.c.nextGen = s.c.nextGen
         /\ r.c.replace = s.c.replace /\ r.c.errors = s.c.errors
    BY <1>1, <2>13 DEF Clients
  <2>15. Capturing(r.c, r.out, n + 1)
    <3>1. Capturing(s.c, s.out, n) /\ s.c.seen = life /\ s.out \in Seq(Messages)
      BY <1>1, StepParts DEF Flow
    <3>2. Counted(r.c)
      <4>1. Len(old.got) + old.flight <= old.next /\ Len(old.got) \in Nat
        BY <1>6, <2>2, <3>1, Domains DEF Capturing, Counted
      <4> HIDE DEF old
      <4>2. Len(got) + left <= old.next
        BY <2>2, <2>6, <2>7, <4>1
      <4>3. QED
        BY <2>3, <2>10, <2>14, <4>2 DEF Counted
    <3>3. Beginning(r.c, r.out, n + 1)
      <4>1. Beginning(s.c, s.out, n)
        BY <3>1 DEF Capturing
      <4>2. QED
        BY <2>10, <2>13, <2>14, <4>1, AnswerFacts DEF Beginning
    <3>4. ASSUME NEW D, Gathered(s.c, n, D)
          PROVE  Gathered(r.c, n + 1, D)
      <4>1. a.data = D
        BY <1>2, <2>3, <3>4, AnswerFacts DEF Gathered, Of
      <4>2. \A i \in DOMAIN got : got[i] = D
        BY <2>6, <3>4, <4>1 DEF Gathered
      <4>3. QED
        BY <2>10, <2>14, <3>4, <4>2, AnswerFacts DEF Gathered
    <3>5. OneCapture(r.c, n + 1)
      BY <1>6, <2>10, <2>14, <3>1, <3>4 DEF Capturing, OneCapture
    <3>6. QED
      BY <3>2, <3>3, <3>5 DEF Capturing
  <2>16. Ended(r.c)
    BY <2>10, <2>14 DEF Flow, Basic, Ended
  <2>17. Flow(r, n + 1)
    BY <1>1, <2>10, <2>13, <2>14, <2>15, <2>16, AnswerFacts, CaptureFlow
  <2>18. r.c.capture.gen # 0 /\ r.c.capture.known
    BY <1>6, <2>3, <2>10, <2>14
  <2>19. Flow(RequestChunks(r), n + 1)
    BY <1>1, <2>17, <2>18, RequestsFlow
  <2>20. QED
    BY <2>4, <2>5, <2>19 DEF r
<1>7. QED
  BY <1>4, <1>5, <1>6

LEMMA CompleteFlow ==
  ASSUME NEW s, NEW n \in Nat, answers \in Seq(Answers), n + 1 \in DOMAIN answers, Flow(s, n),
         answers[n + 1].kind = "complete"
  PROVE  Flow(Complete(s, answers[n + 1]), n + 1)
<1> DEFINE a == answers[n + 1]
           k == a.msg.kind
           old == s.c.replace[k]
           rep == [old EXCEPT !.complete = TRUE]
           replace == [s.c.replace EXCEPT ![k] = rep]
           r == [s EXCEPT !.c = [s.c EXCEPT !.replace = replace]]
<1>1. /\ s \in Steps /\ s.c \in Clients /\ s.c.replace \in [Kinds -> ReplaceTransfers]
      /\ n + 1 \in Nat
  BY StepParts DEF Flow, Basic
<1>2. a \in Answers /\ k \in Kinds /\ a.msg.gen # 0
  <2>1. a \in Answers
    BY AnswerFacts
  <2>2. "beside" \notin Kinds
    BY DEF Kinds
  <2>3. QED
    BY <2>1, <2>2, AnswerTypes
<1>3. Flow(s, n + 1)
  BY <1>1, AnswerFacts, FlowOf
<1>4. CASE old.gen # a.msg.gen
  <2>1. Complete(s, a) = s
    BY <1>4 DEF Complete
  <2>2. QED
    BY <1>3, <2>1
<1>5. CASE old.gen = a.msg.gen
  <2>1. old \in ReplaceTransfers /\ old.gen # 0
    BY <1>1, <1>2, <1>5
  <2>2. old \in ReplaceRecords
    <3> HIDE DEF old
    <3>1. QED
      BY <2>1, ReplaceTypes
  <2>3. Complete(s, a) = r
    <3>1. Complete(s, a) = [s EXCEPT !.c.replace[k].complete = TRUE]
      BY <1>5 DEF Complete
    <3>2. [s EXCEPT !.c.replace[k].complete = TRUE] = r
      <4> HIDE DEF k
      <4>1. QED
        BY <1>1, <1>2, <2>2 DEF Steps, Clients, ReplaceRecords
    <3>3. QED
      BY <3>1, <3>2
  <2>4. rep \in ReplaceTransfers
    <3>1. rep \in ReplaceRecords
      BY <2>2 DEF ReplaceRecords
    <3> HIDE DEF rep
    <3>2. QED
      BY <3>1, ReplaceTypes
  <2>5. /\ rep.gen = old.gen /\ rep.goal = old.goal /\ rep.sent = old.sent
        /\ rep.next = old.next /\ rep.complete = TRUE
    BY <2>2 DEF ReplaceRecords
  <2> HIDE DEF rep, a, k
  <2>6. replace \in [Kinds -> ReplaceTransfers] /\ replace[k] = rep
    BY <1>1, <1>2, <2>4
  <2>7. [s.c EXCEPT !.replace = replace] \in Clients
    <3> HIDE DEF replace
    <3>1. QED
      BY <1>1, <2>6 DEF Clients
  <2>8. /\ r \in Steps /\ r.c = [s.c EXCEPT !.replace = replace] /\ r.out = s.out
         /\ r.data = s.data
    BY <1>1, <2>7 DEF Steps
  <2> HIDE DEF r
  <2>9. /\ r.c.replace = replace /\ r.c.seen = s.c.seen /\ r.c.nextGen = s.c.nextGen
        /\ r.c.capture = s.c.capture /\ r.c.errors = s.c.errors
    BY <1>1, <2>8 DEF Clients
  <2>10. Ended(r.c)
    BY <2>5, <2>6, <2>9, <1>1, <1>2 DEF Flow, Basic, Ended
  <2>11. ASSUME Transferring(s.c, s.out, n, k)
         PROVE  Transferring(r.c, r.out, n + 1, k)
    <3>1. Transferring(s.c, s.out, n + 1, k)
      <4>1. s.out \in Seq(Messages) /\ Extends(s.out, s.out) /\ Added(s.out, s.out) = {}
        BY <1>1, StepParts, Domains DEF Extends, Added
      <4>2. QED
        BY <1>1, <2>11, <4>1, AnswerFacts, ReplaceFrame
    <3>2. /\ old.sent /\ old.goal \in history.done
          /\ \A j \in DOMAIN s.out : s.out[j].kind # k
      <4>1. n + 1 \in Unheard(n) /\ Verdict(answers[n + 1]) /\ answers[n + 1].msg.kind = k
        BY AnswerFacts DEF Verdict, a, k
      <4>2. QED
        BY <2>11, <4>1 DEF Transferring, Judged
    <3>3. r.c.replace[k] = rep /\ r.out = s.out
      BY <2>6, <2>8, <2>9
    <3>4. Owned(r.c, r.out, k) /\ InOrder(r.out, k)
      BY <3>1, <3>2, <3>3 DEF Transferring, Owned, InOrder
    <3>5. Reaches(r.c, r.out, k)
      BY <2>5, <3>2, <3>3 DEF Reaches
    <3>6. Sound(r.c, k)
      BY <2>5, <3>1, <3>2, <3>3 DEF Transferring, Sound
    <3>7. Judged(r.c, r.out, n + 1, k)
      BY <2>5, <3>1, <3>2, <3>3 DEF Transferring, Judged
    <3>8. QED
      BY <3>4, <3>5, <3>6, <3>7 DEF Transferring
  <2>12. Flow(r, n + 1)
    BY <1>1, <1>2, <2>1, <2>5, <2>8, <2>9, <2>10, <2>11, AnswerFacts, TransferFlow
  <2>13. QED
    BY <2>3, <2>12 DEF a
<1>6. QED
  BY <1>4, <1>5

LEMMA RejectedFlow ==
  ASSUME NEW s, NEW n \in Nat, answers \in Seq(Answers), n + 1 \in DOMAIN answers, Flow(s, n),
         answers[n + 1].kind = "error"
  PROVE  Flow(Rejected(s, answers[n + 1]), n + 1)
<1> DEFINE a == answers[n + 1]
           k == a.msg.kind
<1>1. /\ s \in Steps /\ s.c \in Clients /\ s.c.replace \in [Kinds -> ReplaceTransfers]
      /\ n + 1 \in Nat /\ s.c.errors \in SUBSET (Kinds \union {"capture"})
      /\ s.c.capture \in CaptureTransfers
  BY StepParts DEF Flow, Basic
<1>2. a \in Answers /\ k \in Kinds \union {"capture", "beside"}
  BY AnswerFacts, AnswerTypes
<1>3. Flow(s, n + 1)
  BY <1>1, AnswerFacts, FlowOf
<1>4. "capture" \notin Kinds /\ "beside" \notin Kinds /\ "capture" # "beside"
  BY DEF Kinds
<1>5. NoTransfer \in CaptureTransfers /\ NoTransfer \in ReplaceTransfers /\ NoTransfer.gen = 0
  BY CaptureTypes, ReplaceTypes
<1>6. CASE k = "beside"
  <2>1. Rejected(s, a) = Failing(s)
    BY <1>6 DEF Rejected
  <2>2. Flow(Failing(s), n + 1)
    BY <1>1, <1>3, FailingFacts, FlowOf, n + 1 <= n + 1
  <2>3. QED
    BY <2>1, <2>2
<1>7. CASE k = "capture"
  <2> DEFINE errors == s.c.errors \union {"capture"}
             c == [s.c EXCEPT !.capture = NoTransfer, !.errors = errors]
             r == [s EXCEPT !.c = c]
  <2>1. Rejected(s, a) = r
    <3>1. Rejected(s, a) = [s EXCEPT !.c.capture = NoTransfer,
                                     !.c.errors = @ \union {"capture"}]
      BY <1>4, <1>7 DEF Rejected
    <3>2. QED
      BY <1>1, <3>1 DEF Steps, Clients
  <2>2. c \in Clients
    BY <1>1, <1>5 DEF Clients
  <2>3. r \in Steps /\ r.c = c /\ r.out = s.out /\ r.data = s.data
    BY <1>1, <2>2 DEF Steps
  <2> HIDE DEF r
  <2>4. /\ r.c.capture = NoTransfer /\ r.c.seen = s.c.seen /\ r.c.nextGen = s.c.nextGen
        /\ r.c.replace = s.c.replace /\ r.c.errors = errors
    BY <1>1, <2>3 DEF Clients
  <2>5. Ended(r.c)
    BY <1>4, <1>5, <2>4 DEF Flow, Basic, Ended
  <2>6. Capturing(r.c, r.out, n + 1)
    BY <1>5, <2>4, NoneCapturing
  <2>7. Flow(r, n + 1)
    BY <1>1, <1>5, <2>3, <2>4, <2>5, <2>6, AnswerFacts, CaptureFlow
  <2>8. QED
    BY <2>1, <2>7
<1>8. CASE k \in Kinds
  <2> DEFINE errors == s.c.errors \union {k}
             replace == [s.c.replace EXCEPT ![k] = NoTransfer]
             c == [s.c EXCEPT !.replace = replace, !.errors = errors]
             r == [s EXCEPT !.c = c]
  <2>1. Rejected(s, a) = r
    <3>1. Rejected(s, a) = [s EXCEPT !.c.replace[k] = NoTransfer, !.c.errors = @ \union {k}]
      BY <1>4, <1>8 DEF Rejected
    <3> HIDE DEF k
    <3>2. QED
      BY <1>1, <1>8, <3>1 DEF Steps, Clients
  <2> HIDE DEF a, k
  <2>2. /\ replace \in [Kinds -> ReplaceTransfers] /\ replace[k] = NoTransfer
        /\ errors \in SUBSET (Kinds \union {"capture"})
        /\ \A j \in Kinds : j # k => replace[j] = s.c.replace[j]
    BY <1>1, <1>5, <1>8
  <2>3. c \in Clients
    <3> HIDE DEF replace, errors
    <3>1. QED
      BY <1>1, <2>2 DEF Clients
  <2>4. r \in Steps /\ r.c = c /\ r.out = s.out /\ r.data = s.data
    BY <1>1, <2>3 DEF Steps
  <2> HIDE DEF r
  <2>5. /\ r.c.replace = replace /\ r.c.seen = s.c.seen /\ r.c.nextGen = s.c.nextGen
        /\ r.c.capture = s.c.capture /\ r.c.errors = errors
    BY <1>1, <2>4 DEF Clients
  <2>6. Ended(r.c)
    BY <1>4, <1>5, <1>8, <2>2, <2>5 DEF Flow, Basic, Ended
  <2>7. n + 1 \in Unheard(n) /\ Verdict(answers[n + 1]) /\ answers[n + 1].msg.kind = k
    BY AnswerFacts DEF Verdict, a, k
  <2>8. ASSUME Transferring(s.c, s.out, n, k)
        PROVE  Transferring(r.c, r.out, n + 1, k)
    <3>1. /\ \A j \in DOMAIN s.out : s.out[j].kind # k
          /\ \A i \in Unheard(n) : i # n + 1 /\ answers[i].msg.kind = k => ~Verdict(answers[i])
      BY <2>7, <2>8 DEF Transferring, Judged
    <3>2. \A i \in Unheard(n + 1) : answers[i].msg.kind = k => ~Verdict(answers[i])
      BY <3>1, AnswerFacts
    <3>3. r.c.replace[k].gen = 0 /\ r.out = s.out
      BY <1>5, <2>2, <2>4, <2>5
    <3>4. QED
      BY <3>1, <3>2, <3>3, NoneTransferring
  <2>9. ASSUME Done(s.c, s.out, n), Kind(work.goal) = k
        PROVE  Done(r.c, r.out, n + 1)
    BY <2>7, <2>9 DEF Done
  <2>10. Flow(r, n + 1)
    <3>1. /\ NothingLeftOver /\ Transferring(s.c, s.out, n, k) => Transferring(r.c, r.out, n + 1, k)
          /\ NothingLeftOver /\ Transferring(s.c, s.out, n, k) /\ Done(s.c, s.out, n)
               => Done(r.c, r.out, n + 1) \/ (NoTransfer.gen # 0 \/ Kind(work.goal) # k)
      BY <2>8, <2>9
    <3>2. /\ r.c.replace = [s.c.replace EXCEPT ![k] = NoTransfer]
          /\ r \in Steps /\ r.out = s.out /\ r.data = s.data /\ n <= n + 1
      BY <2>4, <2>5
    <3>3. QED
      BY <1>1, <1>5, <1>8, <2>5, <2>6, <3>1, <3>2, TransferFlow
  <2>11. QED
    BY <2>1, <2>10 DEF a
<1>9. QED
  BY <1>2, <1>6, <1>7, <1>8

LEMMA HeardFlow ==
  ASSUME NEW s, NEW n \in Nat, answers \in Seq(Answers), n + 1 \in DOMAIN answers, Flow(s, n)
  PROVE  Flow(Heard(s, answers[n + 1]), n + 1)
<1> DEFINE a == answers[n + 1]
<1>1. s \in Steps /\ s.ok \in BOOLEAN /\ n + 1 \in Nat
  BY StepParts DEF Flow, Basic
<1>2. a.kind \in {"ack", "error", "ready", "chunk", "complete"}
  BY AnswerFacts, AnswerTypes
<1>3. Flow(s, n + 1)
  BY <1>1, AnswerFacts, FlowOf
<1>4. CASE ~s.ok \/ a.kind = "ack"
  <2>1. Heard(s, a) = s
    BY <1>4 DEF Heard
  <2>2. QED
    BY <1>3, <2>1
<1>5. CASE s.ok /\ a.kind = "ready"
  BY <1>5, ReadyFlow DEF Heard
<1>6. CASE s.ok /\ a.kind = "chunk"
  BY <1>6, ChunkFlow DEF Heard
<1>7. CASE s.ok /\ a.kind = "complete"
  BY <1>7, CompleteFlow DEF Heard
<1>8. CASE s.ok /\ a.kind = "error"
  BY <1>8, RejectedFlow DEF Heard
<1>9. QED
  BY <1>1, <1>2, <1>4, <1>5, <1>6, <1>7, <1>8

-----------------------------------------------------------------------------
(* The answers, one after the other.                                       *)

Hears(h, L, s) ==
  h = [n \in 0 .. L |-> IF n = 0 THEN s ELSE Heard(h[n - 1], answers[n])]

LEMMA HearingExists ==
  ASSUME NEW L \in Nat, NEW s
  PROVE  \E h : Hears(h, L, s)
<1> DEFINE Is(h, m) == h = [n \in 0 .. m |-> IF n = 0 THEN s ELSE Heard(h[n - 1], answers[n])]
           T == {m \in Nat : ~\E h : Is(h, m)}
<1>1. T = {}
  <2> SUFFICES ASSUME T # {}
               PROVE  FALSE
    OBVIOUS
  <2>1. PICK m \in T : \A j \in T : m <= j
    BY SmallestExists
  <2>2. m \in Nat
    OBVIOUS
  <2>3. CASE m = 0
    <3> DEFINE h == [n \in 0 .. 0 |-> s]
    <3>1. Is(h, 0)
      OBVIOUS
    <3>2. QED
      BY <2>1, <2>3, <3>1
  <2>4. CASE m # 0
    <3>1. m - 1 \in Nat /\ m - 1 \notin T
      BY <2>1, <2>2, <2>4
    <3>2. PICK g : Is(g, m - 1)
      BY <3>1
    <3> DEFINE h == [n \in 0 .. m |-> IF n = m THEN Heard(g[m - 1], answers[m]) ELSE g[n]]
    <3>3. ASSUME NEW n \in 0 .. m
          PROVE  h[n] = IF n = 0 THEN s ELSE Heard(h[n - 1], answers[n])
      <4>1. CASE n = 0
        <5>1. 0 \in 0 .. m - 1 /\ 0 \in 0 .. m
          BY <2>2, <3>1
        <5>2. h[0] = g[0]
          BY <2>4, <5>1
        <5>3. g[0] = s
          BY <3>2, <5>1
        <5>4. QED
          BY <4>1, <5>2, <5>3
      <4>2. CASE n # 0 /\ n # m
        <5>1. n \in 0 .. m - 1 /\ n - 1 \in 0 .. m - 1 /\ n - 1 \in 0 .. m /\ n - 1 # m
          BY <2>2, <4>2
        <5>2. h[n] = g[n] /\ h[n - 1] = g[n - 1]
          BY <4>2, <5>1
        <5>3. g[n] = Heard(g[n - 1], answers[n])
          BY <3>2, <4>2, <5>1
        <5>4. QED
          BY <4>2, <5>2, <5>3
      <4>3. CASE n = m
        <5>1. m - 1 \in 0 .. m /\ m - 1 # m
          BY <2>2, <2>4
        <5>2. h[m - 1] = g[m - 1]
          BY <5>1
        <5>3. QED
          BY <2>4, <4>3, <5>2
      <4>4. QED
        BY <4>1, <4>2, <4>3
    <3>4. Is(h, m)
      BY <3>3
    <3>5. QED
      BY <2>1, <3>4
  <2>5. QED
    BY <2>3, <2>4
<1>2. \E h : Is(h, L)
  BY <1>1
<1>3. QED
  BY <1>2 DEF Hears

\* The client when it turns to the engine that is there.
Turned ==
  [IF (client.seen # 0 /\ client.seen # life) \/ link = "detached"
   THEN Cancelled(client) ELSE client EXCEPT !.seen = life]

LEMMA AnsweredIs ==
  ASSUME answers \in Seq(Answers)
  PROVE  \E h : /\ h[0] = Step(Turned, toHost) /\ Answered = h[Len(answers)]
                /\ \A n \in 1 .. Len(answers) : h[n] = Heard(h[n - 1], answers[n])
<1> DEFINE L == Len(answers)
           Is(h) == h = [n \in 0 .. L |->
                           IF n = 0 THEN Step(Turned, toHost) ELSE Heard(h[n - 1], answers[n])]
           g == CHOOSE h : Is(h)
<1>1. L \in Nat
  BY Domains
<1>2. \E h : Is(h)
  <2>1. \E h : Hears(h, L, Step(Turned, toHost))
    BY <1>1, HearingExists
  <2>2. QED
    BY <2>1 DEF Hears
<1>3. Is(g)
  BY <1>2
<1>4. Answered = g[L]
  BY DEF Answered, Turned
<1> HIDE DEF g
<1>5. g[0] = Step(Turned, toHost)
  <2>1. 0 \in 0 .. L
    BY <1>1
  <2>2. QED
    BY <1>3, <2>1
<1>6. ASSUME NEW n \in 1 .. L
      PROVE  g[n] = Heard(g[n - 1], answers[n])
  <2>1. n \in 0 .. L /\ n # 0
    BY <1>1
  <2>2. QED
    BY <1>3, <2>1
<1>7. QED
  BY <1>4, <1>5, <1>6

LEMMA CancelledFacts ==
  ASSUME NEW c \in Clients, life \in Gens
  PROVE  LET d == [Cancelled(c) EXCEPT !.seen = life]
         IN /\ d \in Clients /\ d.seen = life /\ d.nextGen = c.nextGen
            /\ d.capture.gen = 0 /\ \A k \in Kinds : d.replace[k].gen = 0
<1> DEFINE replace == [k \in Kinds |-> NoTransfer]
           errors == c.errors \union Transfers(c)
           d == [c EXCEPT !.errors = errors, !.capture = NoTransfer, !.replace = replace,
                          !.seen = life]
<1>1. NoTransfer \in CaptureTransfers /\ NoTransfer \in ReplaceTransfers /\ NoTransfer.gen = 0
  BY CaptureTypes, ReplaceTypes
<1>2. errors \in SUBSET (Kinds \union {"capture"}) /\ replace \in [Kinds -> ReplaceTransfers]
  BY <1>1 DEF Clients, Transfers
<1>3. [Cancelled(c) EXCEPT !.seen = life] = d
  BY DEF Cancelled, Clients
<1>4. \A k \in Kinds : replace[k].gen = 0
  BY <1>1
<1> HIDE DEF errors, replace
<1>5. /\ d \in Clients /\ d.seen = life /\ d.nextGen = c.nextGen
      /\ d.capture = NoTransfer /\ d.replace = replace
  BY <1>1, <1>2 DEF Clients
<1>6. QED
  BY <1>1, <1>3, <1>4, <1>5

LEMMA StartFlow ==
  ASSUME IInv
  PROVE  Flow(Step(Turned, toHost), 0)
<1> DEFINE s == Step(Turned, toHost)
<1>1. /\ client \in Clients /\ life \in Gens /\ toHost \in Seq(Messages) /\ Len(toHost) <= Capacity
      /\ answers \in Seq(Answers) /\ client.seen # 0
  BY DEF IInv, TypeOK, Clients, Gens
<1>2. /\ s.c = Turned /\ s.out = toHost /\ s.data = <<>>
      /\ Turned \in Clients => s \in Steps
  <2>1. <<>> \in Seq(Captures)
    BY EmptySeq
  <2>2. s = [c |-> Turned, out |-> toHost, ok |-> TRUE, data |-> <<>>]
    BY DEF Step
  <2> HIDE DEF s
  <2>3. QED
    BY <1>1, <2>1, <2>2 DEF Steps
<1> HIDE DEF s
<1>3. CASE client.seen = life /\ link # "detached"
  <2>1. Turned = client
    <3>1. Turned = [client EXCEPT !.seen = life]
      BY <1>3 DEF Turned
    <3> HIDE DEF Turned
    <3>2. QED
      BY <1>1, <1>3, <3>1 DEF Clients
  <2>2. s \in Steps /\ s.c = client /\ s.out = toHost
    BY <1>1, <1>2, <2>1
  <2>3. Basic(s)
    BY <1>1, <2>2 DEF IInv, Talking, Basic
  <2>4. QED
    BY <1>2, <1>3, <2>2, <2>3 DEF IInv, Talking, Flow, s
<1>4. CASE client.seen # life \/ link = "detached"
  <2>1. Turned = [Cancelled(client) EXCEPT !.seen = life]
    BY <1>1, <1>4 DEF Turned
  <2>2. /\ Turned \in Clients /\ Turned.seen = life /\ Turned.nextGen = client.nextGen
        /\ Turned.capture.gen = 0 /\ \A k \in Kinds : Turned.replace[k].gen = 0
    BY <1>1, <2>1, CancelledFacts
  <2>3. /\ s \in Steps /\ s.c.seen = life /\ s.c.nextGen = client.nextGen /\ s.out = toHost
        /\ s.c.capture.gen = 0 /\ \A k \in Kinds : s.c.replace[k].gen = 0
    BY <1>2, <2>2
  <2>4. client.nextGen \in Nat /\ client.nextGen # 0
    BY <1>1 DEF Clients, Gens
  <2>5. Basic(s)
    <3>1. UsedOnce(client, toHost) /\ Silent(toHost)
      BY DEF IInv, Talking
    <3>2. UsedOnce(s.c, s.out)
      BY <2>3, <2>4, <3>1 DEF UsedOnce
    <3>3. Ended(s.c)
      BY <2>3 DEF Ended
    <3>4. QED
      BY <1>1, <2>3, <3>1, <3>2, <3>3 DEF Basic
  <2>6. Capturing(s.c, s.out, 0) /\ CaptureOwned(s.c)
    BY <2>3, NoneCapturing
  <2>7. Replacing(s.c, s.out, 0)
    <3> SUFFICES ASSUME NothingLeftOver
                 PROVE  /\ \A k \in Kinds : Transferring(s.c, s.out, 0, k) /\ WorkedOn(s.c, k)
                        /\ Done(s.c, s.out, 0)
      BY DEF Replacing
    <3>1. \A i \in DOMAIN toHost : toHost[i].kind = "beside"
      <4>1. CASE client.seen # life
        BY <4>1 DEF IInv, Idle
      <4>2. CASE link = "detached"
        <5>1. Len(toHost) = 0
          BY <4>2 DEF IInv, Talking, Silent, Attached
        <5>2. QED
          BY <1>1, <5>1, Domains
      <4>3. QED
        BY <1>4, <4>1, <4>2
    <3>2. \A i \in DOMAIN answers : answers[i].msg.kind = "beside"
      <4>1. CASE client.seen # life
        BY <4>1 DEF IInv, Idle
      <4>2. CASE link = "detached"
        <5>1. Len(answers) = 0
          BY <4>2 DEF IInv
        <5>2. QED
          BY <1>1, <5>1, Domains
      <4>3. QED
        BY <1>4, <4>1, <4>2
    <3>3. "beside" \notin Kinds
      BY DEF Kinds
    <3>4. ASSUME NEW k \in Kinds
          PROVE  Transferring(s.c, s.out, 0, k) /\ WorkedOn(s.c, k)
      <4>1. Transferring(s.c, s.out, 0, k)
        BY <2>3, <3>1, <3>2, <3>3, NoneTransferring DEF Unheard
      <4>2. WorkedOn(s.c, k)
        BY <2>3 DEF WorkedOn
      <4>3. QED
        BY <4>1, <4>2
    <3>5. ~(Requested /\ Attached /\ work.goal \in history.done)
      <4>1. Done(client, toHost, 0)
        BY DEF IInv, Talking, Replacing
      <4>2. QED
        BY <1>4, <4>1 DEF Done, Attached
    <3>6. Done(s.c, s.out, 0)
      BY <3>5 DEF Done
    <3>7. QED
      BY <3>4, <3>6
  <2>8. QED
    BY <1>2, <2>3, <2>5, <2>6, <2>7 DEF Flow, s
<1>5. QED
  BY <1>3, <1>4

LEMMA AnsweredFlow ==
  ASSUME IInv
  PROVE  Flow(Answered, Len(answers))
<1> DEFINE L == Len(answers)
<1>1. answers \in Seq(Answers) /\ L \in Nat /\ DOMAIN answers = 1 .. L
  <2>1. answers \in Seq(Answers)
    BY DEF IInv, TypeOK
  <2>2. QED
    BY <2>1, Domains
<1>2. PICK h : /\ h[0] = Step(Turned, toHost) /\ Answered = h[L]
               /\ \A n \in 1 .. L : h[n] = Heard(h[n - 1], answers[n])
  BY <1>1, AnsweredIs
<1> HIDE DEF L
<1> DEFINE T == {n \in 0 .. L : ~Flow(h[n], n)}
<1>3. T = {}
  <2> SUFFICES ASSUME T # {}
               PROVE  FALSE
    OBVIOUS
  <2>1. PICK n \in T : \A j \in T : n <= j
    <3>1. T \subseteq Nat
      BY <1>1
    <3>2. QED
      BY <3>1, SmallestExists
  <2>2. n \in Nat /\ n <= L /\ ~Flow(h[n], n)
    BY <1>1
  <2>3. n # 0
    BY <1>2, <2>2, StartFlow
  <2>4. n - 1 \in Nat /\ n - 1 \in 0 .. L /\ n - 1 \notin T /\ (n - 1) + 1 = n /\ n \in 1 .. L
    BY <1>1, <2>1, <2>2, <2>3
  <2>5. Flow(h[n - 1], n - 1)
    BY <2>4
  <2> DEFINE m == n - 1
  <2>6. m \in Nat /\ m + 1 = n /\ m + 1 \in DOMAIN answers /\ Flow(h[m], m)
    BY <1>1, <2>4, <2>5
  <2>7. h[n] = Heard(h[m], answers[n])
    BY <1>2, <2>4
  <2> HIDE DEF m
  <2>8. Flow(Heard(h[m], answers[m + 1]), m + 1)
    BY <1>1, <2>6, HeardFlow
  <2>9. QED
    BY <2>2, <2>6, <2>7, <2>8
<1>4. L \in 0 .. L
  BY <1>1
<1>5. QED
  BY <1>2, <1>3, <1>4 DEF L

-----------------------------------------------------------------------------
(* Transfers that begin.                                                   *)

Taken(c) == [c EXCEPT !.nextGen = c.nextGen + 1, !.seen = life]

LEMMA TakenFacts ==
  ASSUME NEW c \in Clients, life \in Gens
  PROVE  /\ Taken(c) \in Clients /\ Taken(c).nextGen = c.nextGen + 1 /\ Taken(c).seen = life
         /\ Taken(c).capture = c.capture /\ Taken(c).replace = c.replace
         /\ Taken(c).errors = c.errors
<1>1. c.nextGen \in Gens /\ c.nextGen + 1 \in Gens
  <2>1. c.nextGen \in Gens
    BY DEF Clients
  <2>2. QED
    BY <2>1 DEF Gens
<1>2. QED
  BY <1>1 DEF Taken, Clients

\* The step r took a generation for the message m, and posted it if it could.
BegunBy(r, s, m) ==
  /\ r \in Steps /\ r.c = Taken(s.c) /\ r.data = s.data
  /\ \/ r.ok = FALSE /\ r.out = s.out
     \/ /\ r.ok = s.ok /\ Attached /\ Len(r.out) = Len(s.out) + 1 /\ Len(r.out) <= Capacity
        /\ Extends(r.out, s.out) /\ Added(r.out, s.out) = {Len(s.out) + 1}
        /\ r.out[Len(s.out) + 1] = m

LEMMA BegunFacts ==
  ASSUME NEW s \in Steps, s.ok, NEW m \in Messages, life \in Gens
  PROVE  BegunBy(Begun(s, m), s, m)
<1> DEFINE t == [s EXCEPT !.c = Taken(s.c)]
<1>1. s.c \in Clients
  BY DEF Steps
<1>2. t \in Steps /\ t.c = Taken(s.c) /\ t.out = s.out /\ t.ok = s.ok /\ t.data = s.data
  BY <1>1, TakenFacts DEF Steps
<1>3. [s EXCEPT !.c.nextGen = @ + 1, !.c.seen = life] = t
  BY <1>1 DEF Taken, Steps, Clients
<1>4. Begun(s, m) = IF CanPost(s) THEN Post(t, m) ELSE Failing(t)
  BY <1>3 DEF Begun
<1> HIDE DEF t
<1>5. CASE CanPost(s)
  <2>1. Attached /\ Len(t.out) < Capacity
    BY <1>2, <1>5 DEF CanPost
  <2>2. /\ Post(t, m) \in Steps /\ Len(Post(t, m).out) = Len(t.out) + 1
        /\ Len(t.out) + 1 <= Capacity
        /\ Post(t, m).c = t.c /\ Post(t, m).ok = t.ok /\ Post(t, m).data = t.data
        /\ Extends(Post(t, m).out, t.out)
        /\ Added(Post(t, m).out, t.out) = {Len(t.out) + 1}
        /\ Post(t, m).out[Len(t.out) + 1] = m
    BY <1>2, <2>1, PostFacts
  <2>3. QED
    BY <1>2, <1>4, <1>5, <2>1, <2>2 DEF BegunBy
<1>6. CASE ~CanPost(s)
  BY <1>2, <1>4, <1>6, FailingFacts DEF BegunBy
<1>7. QED
  BY <1>5, <1>6

LEMMA Generations ==
  ASSUME TypeOK
  PROVE  /\ engine.capture.gen \in Nat /\ \A k \in Kinds : engine.staged[k].gen \in Nat
         /\ \A i \in DOMAIN answers : answers[i].msg.gen \in Nat
         /\ life \in Gens /\ answers \in Seq(Answers)
<1>1. engine \in Engines /\ answers \in Seq(Answers) /\ life \in Gens
  BY DEF TypeOK
<1>2. NoTransfer.gen = 0
  BY DEF NoTransfer
<1>3. engine.capture.gen \in Nat /\ \A k \in Kinds : engine.staged[k].gen \in Nat
  <2>1. /\ engine.capture \in {NoTransfer} \union [gen : Gens, data : Captures]
        /\ engine.staged \in
             [Kinds -> {NoTransfer} \union [gen : Gens, chunks : Seq(Contents)]]
    BY <1>1 DEF Engines
  <2>2. engine.capture.gen \in Nat
    BY <1>2, <2>1 DEF Gens
  <2>3. ASSUME NEW k \in Kinds
        PROVE  engine.staged[k].gen \in Nat
    <3>1. engine.staged[k] \in {NoTransfer} \union [gen : Gens, chunks : Seq(Contents)]
      BY <2>1
    <3>2. QED
      BY <1>2, <3>1 DEF Gens
  <2>4. QED
    BY <2>2, <2>3
<1>4. \A i \in DOMAIN answers : answers[i].msg.gen \in Nat
  BY <1>1, Domains, AnswerTypes
<1>5. QED
  BY <1>1, <1>3, <1>4

LEMMA BegunBasic ==
  ASSUME TypeOK, NEW s, NEW r, NEW m, Basic(s), life \in Gens, BegunBy(r, s, m), m.gen = s.c.nextGen
  PROVE  /\ Basic(r) /\ r.c.seen = life /\ Extends(r.out, s.out)
         /\ \A i \in Added(r.out, s.out) : r.out[i] = m
<1>1. /\ s \in Steps /\ s.c \in Clients /\ s.out \in Seq(Messages) /\ Len(s.out) <= Capacity
      /\ r \in Steps /\ r.out \in Seq(Messages) /\ r.c = Taken(s.c)
  BY StepParts DEF Basic, BegunBy
<1>2. /\ r.c.nextGen = s.c.nextGen + 1 /\ r.c.seen = life
      /\ r.c.capture = s.c.capture /\ r.c.replace = s.c.replace /\ r.c.errors = s.c.errors
  BY <1>1, TakenFacts
<1>3. Extends(s.out, s.out) /\ Added(s.out, s.out) = {}
  BY <1>1, Domains DEF Extends, Added
<1>4. /\ Extends(r.out, s.out) /\ \A i \in Added(r.out, s.out) : r.out[i] = m
      /\ Len(r.out) <= Capacity
  BY <1>1, <1>3 DEF BegunBy
<1>5. s.c.nextGen \in Nat
  BY <1>1, StepParts
<1>6. \A i \in DOMAIN r.out : r.out[i] = m \/ (i \in DOMAIN s.out /\ r.out[i] = s.out[i])
  BY <1>1, <1>4, Parts
<1>7. UsedOnce(r.c, r.out)
  <2>1. UsedOnce(s.c, s.out)
    BY DEF Basic
  <2>2. \A i \in DOMAIN s.out : s.out[i].gen \in Nat
    <3>1. \A x \in Messages : x.gen \in Nat
      BY DEF Messages
    <3>2. QED
      BY <1>1, <3>1, Domains
  <2>3. \A x \in Nat : x < s.c.nextGen => x < s.c.nextGen + 1
    BY <1>5
  <2>4. m.gen < s.c.nextGen + 1
    BY <1>5
  <2>5. QED
    BY <1>1, <1>2, <1>6, <2>1, <2>2, <2>3, <2>4, Generations, StepParts DEF UsedOnce
<1>8. Ended(r.c)
  BY <1>2 DEF Basic, Ended
<1>9. Silent(r.out)
  BY DEF Basic, Silent, BegunBy
<1>10. QED
  BY <1>1, <1>2, <1>4, <1>7, <1>8, <1>9 DEF Basic

LEMMA FreshCapture ==
  ASSUME TypeOK, history.begun <= engine.edition,
         NEW c, NEW d, NEW out \in Seq(Messages), NEW more \in Seq(Messages), NEW n \in Nat,
         c.nextGen \in Nat, UsedOnce(c, out), d.capture = NewCapture(c.nextGen),
         Extends(more, out), Added(more, out) = {Len(out) + 1},
         more[Len(out) + 1] = Message("begin", "capture", c.nextGen, 0, NoGoal)
  PROVE  Capturing(d, more, n)
<1> DEFINE g == c.nextGen
           l == Len(out)
<1>1. /\ d.capture.gen = g /\ d.capture.known = FALSE /\ d.capture.got = <<>>
      /\ d.capture.next = 0 /\ d.capture.flight = 0
  BY DEF NewCapture
<1>2. Counted(d)
  BY <1>1 DEF Counted
<1>3. /\ engine.capture.gen # g
      /\ \A i \in DOMAIN answers : answers[i].msg.gen # g
      /\ \A i \in DOMAIN out : out[i].gen # g
  <2>1. \A x \in Messages : x.gen \in Nat
    BY DEF Messages
  <2>2. \A i \in DOMAIN out : out[i].gen \in Nat
    BY <2>1, Domains
  <2>3. \A x \in Nat : x < g => x # g
    OBVIOUS
  <2>4. QED
    BY <2>2, <2>3, Generations DEF UsedOnce
<1>4. more[l + 1].op = "begin" /\ more[l + 1].kind = "capture" /\ more[l + 1].gen = g
  BY DEF Message
<1>5. \A i \in DOMAIN more : Of(more[i], "capture", g) => i = l + 1
  <2>1. \A i \in DOMAIN more : i = l + 1 \/ (i \in DOMAIN out /\ more[i] = out[i])
    BY Parts
  <2>2. QED
    BY <1>3, <2>1 DEF Of
<1>6. \A i \in Unheard(n) : ~Of(answers[i].msg, "capture", g)
  BY <1>3 DEF Of, Unheard
<1> HIDE DEF g, l
<1>7. Beginning(d, more, n)
  BY <1>1, <1>3, <1>4, <1>5, <1>6 DEF Beginning
<1>8. OneCapture(d, n)
  <2>1. Captured \in Captures /\ Captured.edition = engine.edition
    BY DEF Captured, Captures, TypeOK, Engines
  <2>2. Gathered(d, n, Captured)
    BY <1>1, <1>3, <1>6, <2>1 DEF Gathered
  <2>3. QED
    BY <2>1, <2>2 DEF OneCapture
<1>9. QED
  BY <1>2, <1>7, <1>8 DEF Capturing

LEMMA CaptureBegunFacts ==
  ASSUME TypeOK, history.begun <= engine.edition, NEW n \in Nat,
         NEW s, Basic(s), s.ok, s.c.capture.gen = 0, "capture" \notin s.c.errors
  PROVE  /\ Basic(CaptureBegun(s)) /\ CaptureBegun(s).c.seen = life
         /\ Capturing(CaptureBegun(s).c, CaptureBegun(s).out, n)
         /\ CaptureBegun(s).data = s.data /\ CaptureBegun(s).c.replace = s.c.replace
         /\ Extends(CaptureBegun(s).out, s.out)
         /\ \A i \in Added(CaptureBegun(s).out, s.out) :
              CaptureBegun(s).out[i].kind = "capture"
         /\ IF CaptureBegun(s).ok THEN CaptureBegun(s).c.capture = NewCapture(s.c.nextGen)
                                  ELSE CaptureBegun(s).c.capture.gen = 0
<1> DEFINE gen == s.c.nextGen
           m == Message("begin", "capture", gen, 0, NoGoal)
           begun == Begun(s, m)
           c == [begun.c EXCEPT !.capture = NewCapture(gen)]
           r == [begun EXCEPT !.c = c]
<1>1. /\ s \in Steps /\ s.c \in Clients /\ s.out \in Seq(Messages) /\ gen \in Nat /\ gen # 0
      /\ gen \in Gens /\ life \in Gens
  BY StepParts, Generations DEF Basic, Gens
<1>2. m \in Messages /\ m.gen = gen /\ m.kind = "capture"
  <2>1. 0 \in 0 .. Chunks /\ NoGoal \in Goals
    BY Ranges, Sizes DEF NoGoal, Goal, Goals
  <2> HIDE DEF gen
  <2>2. QED
    BY <1>1, <2>1 DEF Message, Messages
<1>3. BegunBy(begun, s, m)
  BY <1>1, <1>2, BegunFacts
<1>4. CaptureBegun(s) = IF begun.ok THEN [begun EXCEPT !.c.capture = NewCapture(gen)] ELSE begun
  BY DEF CaptureBegun
<1> HIDE DEF begun
<1>5. /\ Basic(begun) /\ begun.c.seen = life /\ Extends(begun.out, s.out)
      /\ \A i \in Added(begun.out, s.out) : begun.out[i] = m
  BY <1>1, <1>2, <1>3, BegunBasic
<1>6. /\ begun \in Steps /\ begun.c \in Clients /\ begun.c = Taken(s.c) /\ begun.data = s.data
      /\ begun.c.capture = s.c.capture /\ begun.c.replace = s.c.replace
      /\ begun.c.nextGen = gen + 1 /\ begun.c.errors = s.c.errors
  BY <1>1, <1>3, TakenFacts, StepParts DEF BegunBy
<1>7. CASE ~begun.ok
  BY <1>2, <1>4, <1>5, <1>6, <1>7, NoneCapturing
<1>8. CASE begun.ok
  <2>1. /\ begun.ok = s.ok /\ Attached /\ Len(begun.out) <= Capacity
        /\ Added(begun.out, s.out) = {Len(s.out) + 1}
        /\ begun.out[Len(s.out) + 1] = m
    BY <1>3, <1>8 DEF BegunBy
  <2>2. CaptureBegun(s) = r
    BY <1>4, <1>6, <1>8 DEF Steps, Clients
  <2>3. NewCapture(gen) \in CaptureTransfers /\ NewCapture(gen).gen = gen
    <3>1. 0 \in 0 .. Chunks /\ 0 \in 0 .. InFlight /\ <<>> \in Seq(Captures)
      BY Ranges, Sizes, EmptySeq
    <3> HIDE DEF gen
    <3>2. NewCapture(gen) \in CaptureRecords
      BY <1>1, <3>1 DEF NewCapture, CaptureRecords
    <3>3. QED
      BY <3>2, CaptureTypes DEF NewCapture
  <2>4. c \in Clients
    BY <1>6, <2>3 DEF Clients
  <2>5. r \in Steps /\ r.c = c /\ r.out = begun.out /\ r.ok = begun.ok /\ r.data = begun.data
    BY <1>6, <2>4 DEF Steps
  <2> HIDE DEF r
  <2>6. /\ r.c.capture = NewCapture(gen) /\ r.c.seen = life /\ r.c.replace = s.c.replace
        /\ r.c.nextGen = gen + 1 /\ r.c.errors = s.c.errors
    BY <1>5, <1>6, <2>5 DEF Clients
  <2>7. UsedOnce(r.c, r.out)
    <3>1. UsedOnce(begun.c, begun.out)
      BY <1>5 DEF Basic
    <3>2. gen < gen + 1
      BY <1>1
    <3>3. QED
      BY <1>6, <2>3, <2>5, <2>6, <3>1, <3>2 DEF UsedOnce
  <2>8. Ended(r.c)
    BY <1>6, <2>6 DEF Basic, Ended
  <2>9. Basic(r)
    BY <1>5, <2>1, <2>5, <2>7, <2>8 DEF Basic
  <2>10. Capturing(r.c, r.out, n)
    <3>1. UsedOnce(s.c, s.out) /\ r.out \in Seq(Messages)
      BY <2>5, StepParts DEF Basic
    <3>2. /\ Extends(r.out, s.out) /\ Added(r.out, s.out) = {Len(s.out) + 1}
          /\ r.out[Len(s.out) + 1] = Message("begin", "capture", s.c.nextGen, 0, NoGoal)
          /\ r.c.capture = NewCapture(s.c.nextGen)
      BY <1>5, <2>1, <2>5, <2>6
    <3>3. QED
      BY <1>1, <3>1, <3>2, FreshCapture
  <2>11. QED
    BY <1>2, <1>5, <1>6, <1>8, <2>2, <2>5, <2>6, <2>9, <2>10
<1>9. QED
  BY <1>7, <1>8

LEMMA NewReplaceFacts ==
  ASSUME NEW gen \in Gens, NEW goal \in Contents
  PROVE  /\ NewReplace(gen, goal) \in ReplaceTransfers
         /\ NewReplace(gen, goal).gen = gen /\ NewReplace(gen, goal).goal = goal
         /\ NewReplace(gen, goal).sent = FALSE /\ NewReplace(gen, goal).complete = FALSE
<1>1. 0 \in 0 .. Chunks
  BY Ranges, Sizes
<1>2. NewReplace(gen, goal) \in ReplaceRecords
  BY <1>1 DEF NewReplace, ReplaceRecords
<1>3. QED
  BY <1>2, ReplaceTypes DEF NewReplace

\* What a replacement begins with.
Opened(s, goal) ==
  Begun(s, Message("begin", Kind(goal), s.c.nextGen, 0, goal))
Opening(s, goal) ==
  [Opened(s, goal) EXCEPT !.c = [Opened(s, goal).c EXCEPT !.replace =
     [s.c.replace EXCEPT ![Kind(goal)] = NewReplace(s.c.nextGen, goal)]]]

LEMMA OpeningFacts ==
  ASSUME TypeOK, NEW s, Basic(s), s.ok, NEW goal \in Contents, Kind(goal) \notin s.c.errors
  PROVE  LET k == Kind(goal)
             begun == Opened(s, goal)
             t == Opening(s, goal)
         IN /\ ReplaceBegun(s, goal) = IF begun.ok THEN Pump(t, k) ELSE begun
            /\ Basic(begun) /\ begun.c.seen = life /\ begun.data = s.data
            /\ begun.c.capture = s.c.capture /\ begun.c.replace = s.c.replace
            /\ Extends(begun.out, s.out)
            /\ ~begun.ok => Added(begun.out, s.out) = {}
            /\ begun.ok =>
                 /\ Basic(t) /\ t.c.seen = life /\ t.ok /\ t.data = s.data /\ Attached
                 /\ t.c.capture = s.c.capture
                 /\ t.c.replace =
                      [s.c.replace EXCEPT ![k] = NewReplace(s.c.nextGen, goal)]
                 /\ Extends(t.out, s.out) /\ Added(t.out, s.out) = {Len(s.out) + 1}
                 /\ t.out[Len(s.out) + 1] = Message("begin", k, s.c.nextGen, 0, goal)
<1> DEFINE gen == s.c.nextGen
           k == Kind(goal)
           m == Message("begin", k, gen, 0, goal)
           begun == Opened(s, goal)
           new == NewReplace(gen, goal)
           replace == [s.c.replace EXCEPT ![k] = new]
           c == [begun.c EXCEPT !.replace = replace]
           t == Opening(s, goal)
<1>1. /\ s \in Steps /\ s.c \in Clients /\ s.out \in Seq(Messages) /\ gen \in Nat /\ gen # 0
      /\ gen \in Gens /\ life \in Gens /\ s.c.replace \in [Kinds -> ReplaceTransfers]
  BY StepParts, Generations DEF Basic, Gens
<1>2. k \in Kinds
  BY KindNames
<1>3. m \in Messages /\ m.gen = gen
  <2>1. 0 \in 0 .. Chunks /\ goal \in Goals
    BY Ranges, Sizes DEF Contents, Goals
  <2> HIDE DEF gen, k
  <2>2. QED
    BY <1>1, <1>2, <2>1 DEF Message, Messages
<1>4. BegunBy(begun, s, m)
  BY <1>1, <1>3, BegunFacts DEF Opened
<1>5. ReplaceBegun(s, goal) =
        IF begun.ok THEN Pump([begun EXCEPT !.c.replace[k] = new], k) ELSE begun
  BY DEF ReplaceBegun, Opened
<1>6. t = [begun EXCEPT !.c = c]
  BY DEF Opening
<1> HIDE DEF begun, t
<1>7. /\ Basic(begun) /\ begun.c.seen = life /\ Extends(begun.out, s.out)
      /\ \A i \in Added(begun.out, s.out) : begun.out[i] = m
  BY <1>1, <1>3, <1>4, BegunBasic
<1>8. /\ begun \in Steps /\ begun.c \in Clients /\ begun.c = Taken(s.c) /\ begun.data = s.data
      /\ begun.c.capture = s.c.capture /\ begun.c.replace = s.c.replace
      /\ begun.c.nextGen = gen + 1 /\ begun.c.errors = s.c.errors
  BY <1>1, <1>4, TakenFacts, StepParts DEF BegunBy
<1>9. ~begun.ok => Added(begun.out, s.out) = {}
  <2>1. Added(s.out, s.out) = {}
    BY <1>1, Domains DEF Added
  <2>2. QED
    BY <1>1, <1>4, <2>1 DEF BegunBy
<1>10. /\ new \in ReplaceTransfers /\ new.gen = gen
  BY <1>1, NewReplaceFacts
<1> HIDE DEF new
<1>11. /\ replace \in [Kinds -> ReplaceTransfers] /\ replace[k] = new
       /\ \A j \in Kinds : j # k => replace[j] = s.c.replace[j]
  BY <1>1, <1>2, <1>10
<1>12. [begun EXCEPT !.c.replace[k] = new] = t
  BY <1>6, <1>8 DEF Steps, Clients
<1> HIDE DEF replace
<1>13. c \in Clients
  BY <1>8, <1>11 DEF Clients
<1>14. t \in Steps /\ t.c = c /\ t.out = begun.out /\ t.ok = begun.ok /\ t.data = begun.data
  BY <1>6, <1>8, <1>13 DEF Steps
<1>15. /\ t.c.replace = replace /\ t.c.seen = life /\ t.c.capture = s.c.capture
       /\ t.c.nextGen = gen + 1 /\ t.c.errors = s.c.errors
  BY <1>7, <1>8, <1>14 DEF Clients
<1>16. ASSUME begun.ok
       PROVE  /\ Basic(t) /\ t.c.seen = life /\ t.ok /\ t.data = s.data /\ Attached
              /\ t.c.capture = s.c.capture /\ t.c.replace = replace
              /\ Extends(t.out, s.out) /\ Added(t.out, s.out) = {Len(s.out) + 1}
              /\ t.out[Len(s.out) + 1] = m
  <2>1. /\ begun.ok = s.ok /\ Attached /\ Len(begun.out) <= Capacity
        /\ Added(begun.out, s.out) = {Len(s.out) + 1}
        /\ begun.out[Len(s.out) + 1] = m
    BY <1>4, <1>16 DEF BegunBy
  <2>2. UsedOnce(t.c, t.out)
    <3>1. UsedOnce(begun.c, begun.out)
      BY <1>7 DEF Basic
    <3>2. gen < gen + 1
      BY <1>1
    <3>3. \A j \in Kinds : t.c.replace[j].gen < t.c.nextGen
      BY <1>8, <1>10, <1>11, <1>15, <3>1, <3>2 DEF UsedOnce
    <3>4. QED
      BY <1>8, <1>14, <1>15, <3>1, <3>3 DEF UsedOnce
  <2>3. Ended(t.c)
    <3>1. Ended(s.c)
      BY DEF Basic
    <3>2. k \notin t.c.errors
      BY <1>15
    <3> HIDE DEF k
    <3>3. QED
      BY <1>11, <1>15, <3>1, <3>2 DEF Ended
  <2>4. Basic(t)
    BY <1>7, <1>14, <2>1, <2>2, <2>3 DEF Basic
  <2>5. QED
    BY <1>7, <1>8, <1>14, <1>15, <2>1, <2>4
<1>17. QED
  BY <1>5, <1>7, <1>8, <1>9, <1>12, <1>16 DEF replace, new, begun, t

LEMMA ReplaceBegunFlow ==
  ASSUME TypeOK, NEW n \in Nat, NEW s, Flow(s, n), s.ok, NEW goal \in Contents,
         Kind(goal) \notin s.c.errors, s.c.replace[Kind(goal)].gen = 0,
         Working(Kind(goal), goal)
  PROVE  /\ Flow(ReplaceBegun(s, goal), n)
         /\ ReplaceBegun(s, goal).ok \/ ReplaceBegun(s, goal).c.replace[Kind(goal)].gen = 0
<1> DEFINE k == Kind(goal)
           begun == Opened(s, goal)
           t == Opening(s, goal)
           new == NewReplace(s.c.nextGen, goal)
<1>1. /\ Basic(s) /\ s \in Steps /\ s.out \in Seq(Messages) /\ s.c.seen = life
      /\ s.c.nextGen \in Gens /\ answers \in Seq(Answers)
      /\ s.c.replace \in [Kinds -> ReplaceTransfers] /\ s.data = <<>>
  BY StepParts, Generations DEF Flow, Basic, Gens
<1>2. k \in Kinds /\ "capture" \notin Kinds
  BY KindNames
<1>3. /\ ReplaceBegun(s, goal) = IF begun.ok THEN Pump(t, k) ELSE begun
      /\ Basic(begun) /\ begun.c.seen = life /\ begun.data = s.data
      /\ begun.c.capture = s.c.capture /\ begun.c.replace = s.c.replace
      /\ Extends(begun.out, s.out)
      /\ ~begun.ok => Added(begun.out, s.out) = {}
      /\ begun.ok =>
           /\ Basic(t) /\ t.c.seen = life /\ t.ok /\ t.data = s.data /\ Attached
           /\ t.c.capture = s.c.capture
           /\ t.c.replace = [s.c.replace EXCEPT ![k] = new]
           /\ Extends(t.out, s.out) /\ Added(t.out, s.out) = {Len(s.out) + 1}
           /\ t.out[Len(s.out) + 1] = Message("begin", k, s.c.nextGen, 0, goal)
  BY <1>1, OpeningFacts
<1>4. new.gen = s.c.nextGen /\ new.goal = goal /\ new.sent = FALSE /\ new.gen # 0
  <2>1. s.c.nextGen # 0
    BY <1>1 DEF Gens
  <2>2. QED
    BY <1>1, <2>1, NewReplaceFacts
<1>5. /\ Capturing(s.c, s.out, n) /\ CaptureOwned(s.c)
      /\ NothingLeftOver => /\ \A j \in Kinds : Transferring(s.c, s.out, n, j) /\ WorkedOn(s.c, j)
                            /\ Done(s.c, s.out, n)
  BY <1>1 DEF Flow, Replacing
<1> HIDE DEF begun, t, new, k
<1>6. CASE ~begun.ok
  <2>1. begun.out \in Seq(Messages)
    BY <1>3, StepParts DEF Basic
  <2>2. Capturing(begun.c, begun.out, n)
    <3>1. \A i \in Added(begun.out, s.out) : begun.out[i].kind # "capture"
      BY <1>3, <1>6
    <3>2. QED
      BY <1>1, <1>3, <1>5, <2>1, <3>1, CaptureFrame, n <= n
  <2>3. CaptureOwned(begun.c)
    BY <1>3, <1>5 DEF CaptureOwned
  <2>4. ASSUME NEW j \in Kinds, NothingLeftOver
        PROVE  Transferring(begun.c, begun.out, n, j) /\ WorkedOn(begun.c, j)
    <3>1. Transferring(s.c, s.out, n, j) /\ WorkedOn(s.c, j)
      BY <1>5, <2>4
    <3>2. begun.c.replace[j] = s.c.replace[j]
              /\ \A i \in Added(begun.out, s.out) : begun.out[i].kind # j
      BY <1>3, <1>6
    <3>3. QED
      BY <1>1, <1>3, <2>1, <3>1, <3>2, ReplaceFrame, WorkedFrame, n <= n
  <2>5. ASSUME NothingLeftOver
        PROVE  Done(begun.c, begun.out, n)
    <3>1. /\ begun.c.replace[Kind(work.goal)] = s.c.replace[Kind(work.goal)]
          /\ \A i \in Added(begun.out, s.out) : begun.out[i].kind # Kind(work.goal)
      BY <1>3, <1>6
    <3>2. QED
      BY <1>1, <1>3, <1>5, <2>1, <2>5, <3>1, DoneFrame, n <= n
  <2>6. Replacing(begun.c, begun.out, n)
    BY <2>4, <2>5 DEF Replacing
  <2>7. Flow(begun, n)
    BY <1>1, <1>3, <2>2, <2>3, <2>6 DEF Flow
  <2>8. QED
    BY <1>3, <1>6, <2>7 DEF k
<1>7. CASE begun.ok
  <2>1. /\ t \in Steps /\ t.out \in Seq(Messages) /\ Len(t.out) <= Capacity
        /\ t.c.replace[k] = new
        /\ \A j \in Kinds : j # k => t.c.replace[j] = s.c.replace[j]
    BY <1>1, <1>2, <1>3, <1>7, StepParts DEF Basic
  <2>2. \A i \in Added(t.out, s.out) : t.out[i].kind = k
    BY <1>3, <1>7 DEF Message
  <2>3. Capturing(t.c, t.out, n)
    <3>1. \A i \in Added(t.out, s.out) : t.out[i].kind # "capture"
      BY <1>2, <2>2
    <3>2. /\ t.c.capture = s.c.capture /\ t.c.seen = s.c.seen /\ Extends(t.out, s.out)
          /\ Capturing(s.c, s.out, n)
      BY <1>1, <1>3, <1>5, <1>7
    <3>3. QED
      BY <1>1, <2>1, <3>1, <3>2, CaptureFrame, n <= n
  <2>4. CaptureOwned(t.c)
    BY <1>3, <1>5, <1>7 DEF CaptureOwned
  <2>5. ASSUME NEW j \in Kinds, NothingLeftOver
        PROVE  Transferring(t.c, t.out, n, j) /\ WorkedOn(t.c, j)
    <3>1. Transferring(s.c, s.out, n, j) /\ WorkedOn(s.c, j)
      BY <1>5, <2>5
    <3>2. CASE j # k
      <4>1. /\ t.c.replace[j] = s.c.replace[j]
            /\ \A i \in Added(t.out, s.out) : t.out[i].kind # j
        BY <2>1, <2>2, <3>2
      <4>2. QED
        BY <1>1, <1>3, <1>7, <2>1, <3>1, <4>1, ReplaceFrame, WorkedFrame, n <= n
    <3>3. CASE j = k
      <4>1. engine.staged[k].gen # s.c.nextGen
        <5>1. UsedOnce(s.c, s.out)
          BY <1>1 DEF Basic
        <5>2. engine.staged[k].gen < s.c.nextGen
          BY <1>2, <5>1 DEF UsedOnce
        <5>3. engine.staged[k].gen \in Nat /\ s.c.nextGen \in Nat
          BY <1>1, <1>2, Generations DEF Gens
        <5>4. QED
          BY <5>2, <5>3
      <4>2. Transferring(t.c, t.out, n, k)
        <5>1. s.c.nextGen # 0 /\ s.c.replace[k].gen = 0
                  /\ t.c.replace[k] = NewReplace(s.c.nextGen, goal)
          BY <1>1, <2>1 DEF Gens, k, new
        <5>2. /\ Extends(t.out, s.out) /\ Added(t.out, s.out) = {Len(s.out) + 1}
              /\ t.out[Len(s.out) + 1] = Message("begin", k, s.c.nextGen, 0, goal)
              /\ Transferring(s.c, s.out, n, k)
          BY <1>3, <1>7, <3>1, <3>3
        <5>3. s.out \in Seq(Messages) /\ t.out \in Seq(Messages) /\ k \in Kinds
          BY <1>1, <1>2, <2>1
        <5>4. \A c, d, out, more, gen :
                out \in Seq(Messages) /\ more \in Seq(Messages) /\ gen # 0
                /\ c.replace[k].gen = 0 /\ engine.staged[k].gen # gen
                /\ d.replace[k] = NewReplace(gen, goal)
                /\ Extends(more, out) /\ Added(more, out) = {Len(out) + 1}
                /\ more[Len(out) + 1] = Message("begin", k, gen, 0, goal)
                /\ Transferring(c, out, n, k)
                => Transferring(d, more, n, k)
          BY <5>3, BegunTransferring
        <5>5. QED
          BY <4>1, <5>1, <5>2, <5>3, <5>4
      <4>3. WorkedOn(t.c, k)
        BY <1>4, <2>1 DEF WorkedOn, k
      <4>4. QED
        BY <3>3, <4>2, <4>3
    <3>4. QED
      BY <3>2, <3>3
  <2>6. ASSUME NothingLeftOver
        PROVE  Done(t.c, t.out, n)
    <3>1. Done(s.c, s.out, n)
      BY <1>5, <2>6
    <3>2. CASE Kind(work.goal) = k
      BY <1>3, <3>1, <3>2 DEF Done, k
    <3>3. CASE Kind(work.goal) # k
      <4>1. /\ t.c.replace[Kind(work.goal)] = s.c.replace[Kind(work.goal)]
            /\ \A i \in Added(t.out, s.out) : t.out[i].kind # Kind(work.goal)
        BY <2>1, <2>2, <3>3, KindNames
      <4>2. QED
        BY <1>1, <1>3, <1>7, <2>1, <3>1, <4>1, DoneFrame, n <= n
    <3>4. QED
      BY <3>2, <3>3
  <2>7. Replacing(t.c, t.out, n)
    BY <2>5, <2>6 DEF Replacing
  <2>8. Flow(t, n)
    BY <1>1, <1>3, <1>7, <2>3, <2>4, <2>7 DEF Flow
  <2>9. Flow(Pump(t, k), n)
    BY <1>1, <1>2, <2>8, PumpFlow
  <2>10. Pump(t, k).ok
    <3>1. t.ok /\ Attached
      BY <1>3, <1>7
    <3>2. ASSUME NEW m \in Nat, Pumpable(t, k, m)
          PROVE  /\ WritesPosted(t, k, m).ok
                 /\ Committable(WritesPosted(t, k, m), k)
                      => CommitPosted(WritesPosted(t, k, m), k).ok
      <4>1. Written(WritesPosted(t, k, m), t, k, m)
        BY <1>2, <2>1, <3>2, WriteFacts DEF Pumpable
      <4>2. WritesPosted(t, k, m) \in Steps /\ WritesPosted(t, k, m).ok
        BY <3>1, <4>1 DEF Written
      <4>3. QED
        BY <1>2, <4>2, CommitFacts DEF Committable
    <3>3. QED
      BY <1>2, <2>1, <3>1, <3>2, PumpCases DEF Unpumped
  <2>11. QED
    BY <1>3, <1>7, <2>9, <2>10
<1>8. QED
  BY <1>6, <1>7

-----------------------------------------------------------------------------
(* A poll, and what the operation makes of it.                             *)

Polled == [Pumped(Answered) EXCEPT !.ok = TRUE]

LEMMA PolledFlow ==
  ASSUME IInv
  PROVE  Flow(Polled, Len(answers)) /\ Polled.ok
<1>1. answers \in Seq(Answers) /\ Len(answers) \in Nat
  BY Domains DEF IInv, TypeOK
<1>2. Flow(Answered, Len(answers))
  BY AnsweredFlow
<1>3. "session" \in Kinds /\ "loop" \in Kinds
  BY KindNames
<1>4. Flow(Pump(Answered, "session"), Len(answers))
  BY <1>1, <1>2, <1>3, PumpFlow
<1>5. Flow(Pumped(Answered), Len(answers))
  BY <1>1, <1>3, <1>4, PumpFlow DEF Pumped
<1> DEFINE p == Pumped(Answered)
<1>6. p \in Steps
  BY <1>5 DEF Flow, Basic
<1>7. Polled = [p EXCEPT !.ok = TRUE]
  BY DEF Polled
<1> HIDE DEF p
<1>8. /\ Polled \in Steps /\ Polled.c = p.c /\ Polled.out = p.out /\ Polled.data = p.data
      /\ Polled.ok
  BY <1>6, <1>7 DEF Steps
<1>9. Flow(p, Len(answers)) /\ Len(answers) <= Len(answers)
  BY <1>1, <1>5 DEF p
<1>10. QED
  BY <1>1, <1>8, <1>9, FlowOf

\* What holds of a step whether or not its operation goes on.
Sending(s, n) ==
  /\ Basic(s) /\ s.c.seen = life /\ Capturing(s.c, s.out, n)
  /\ NothingLeftOver => \A k \in Kinds : Transferring(s.c, s.out, n, k)
\* What holds of it while the operation goes on.
Going(s, n) ==
  /\ CaptureOwned(s.c)
  /\ NothingLeftOver => (\A k \in Kinds : WorkedOn(s.c, k)) /\ Done(s.c, s.out, n)

LEMMA SendingFlow ==
  ASSUME NEW s, NEW n, s.c.seen = life
  PROVE  Sending(s, n) /\ Going(s, n) /\ s.data = <<>> <=> Flow(s, n)
BY DEF Sending, Going, Flow, Replacing

\* What is left of transfers when an operation ends cannot reach an engine.
Loose(c) == \A k \in Kinds : c.replace[k].gen # 0 => ~c.replace[k].sent /\ ~Attached

LEMMA CaptureSessionFlow ==
  ASSUME TypeOK, history.begun <= engine.edition, NEW n \in Nat, NEW s, Flow(s, n), s.ok,
         work.op \in {"save", "capture"}
  PROVE  LET r == CaptureSession(s)
         IN /\ Sending(r, n) /\ Going(r, n)
            /\ ~r.ok \/ r.data # <<>> => r.c.capture.gen = 0
            /\ r.data # <<>> => r.ok /\ r.data \in Seq(Captures)
            /\ r.data # <<>> => \E D \in Captures :
                 /\ NothingAbandoned => D.edition >= history.begun
                 /\ \A i \in DOMAIN r.data : r.data[i] = D
<1> DEFINE r == CaptureSession(s)
           cap == s.c.capture
<1>1. /\ Basic(s) /\ s \in Steps /\ s.c \in Clients /\ s.out \in Seq(Messages) /\ s.data = <<>>
      /\ s.c.seen = life /\ cap \in CaptureTransfers /\ answers \in Seq(Answers)
      /\ Capturing(s.c, s.out, n) /\ CaptureOwned(s.c) /\ Ended(s.c) /\ life \in Gens
  BY StepParts, Generations DEF Flow, Basic
<1>2. Sending(s, n) /\ Going(s, n)
  BY <1>1, SendingFlow
<1>3. CASE "capture" \in s.c.errors
  <2> DEFINE d == [s.c EXCEPT !.errors = s.c.errors \ {"capture"}]
             t == [s EXCEPT !.c = d]
  <2>1. r = Failing(t)
    BY <1>1, <1>3 DEF CaptureSession, Steps, Clients
  <2>2. d \in Clients /\ d.capture = cap /\ d.replace = s.c.replace /\ d.seen = s.c.seen
        /\ d.nextGen = s.c.nextGen /\ d.errors = s.c.errors \ {"capture"}
    BY <1>1 DEF Clients
  <2> HIDE DEF d
  <2>3. t \in Steps /\ t.c = d /\ t.out = s.out /\ t.data = s.data
    BY <1>1, <2>2 DEF Steps
  <2> HIDE DEF t
  <2>4. r \in Steps /\ r.c = d /\ r.out = s.out /\ r.ok = FALSE /\ r.data = <<>>
    BY <1>1, <2>1, <2>3, FailingFacts
  <2>5. cap.gen = 0
    BY <1>1, <1>3 DEF Ended
  <2> HIDE DEF r
  <2>6. UsedOnce(r.c, r.out) /\ Ended(r.c)
    BY <1>1, <2>2, <2>4 DEF Basic, UsedOnce, Ended
  <2>7. Basic(r)
    BY <1>1, <2>4, <2>6 DEF Basic
  <2>8. Capturing(r.c, r.out, n) /\ CaptureOwned(r.c)
    BY <2>2, <2>4, <2>5, NoneCapturing
  <2>9. \A k \in Kinds : Transferring(s.c, s.out, n, k) => Transferring(r.c, r.out, n, k)
    BY <2>2, <2>4 DEF Transferring, Owned, InOrder, Reaches, Sound, Judged
  <2>10. \A k \in Kinds : WorkedOn(s.c, k) => WorkedOn(r.c, k)
    BY <2>2, <2>4 DEF WorkedOn
  <2>11. Done(s.c, s.out, n) => Done(r.c, r.out, n)
    BY <2>2, <2>4 DEF Done
  <2>12. Sending(r, n) /\ Going(r, n)
    BY <1>1, <1>2, <2>2, <2>4, <2>7, <2>8, <2>9, <2>10, <2>11 DEF Sending, Going
  <2>13. QED
    BY <2>2, <2>4, <2>5, <2>12 DEF r
<1>4. CASE "capture" \notin s.c.errors /\ cap.gen # 0
  <2>1. cap \in CaptureRecords
    BY <1>1, <1>4, CaptureTypes
  <2>2. CASE cap.known /\ Len(cap.got) = Chunks /\ cap.flight = 0
    <3> DEFINE d == [s.c EXCEPT !.capture = NoTransfer]
    <3>1. r = [s EXCEPT !.c = d, !.data = cap.got]
      BY <1>1, <1>4, <2>2 DEF CaptureSession, Steps, Clients
    <3>2. d \in Clients /\ d.capture = NoTransfer /\ d.replace = s.c.replace /\ d.seen = s.c.seen
          /\ d.nextGen = s.c.nextGen /\ d.errors = s.c.errors
      BY <1>1, CaptureTypes DEF Clients
    <3> HIDE DEF d
    <3>3. cap.got \in Seq(Captures) /\ cap.got # <<>>
      <4>1. cap.got \in Seq(Captures) /\ Len(cap.got) >= 1
        BY <2>1, <2>2, CaptureTypes, Sizes
      <4>2. QED
        BY <4>1
    <3>4. r \in Steps /\ r.c = d /\ r.out = s.out /\ r.ok = s.ok /\ r.data = cap.got
      BY <1>1, <3>1, <3>2, <3>3 DEF Steps
    <3>5. r.c.capture.gen = 0
      BY <3>2, <3>4, CaptureTypes
    <3> HIDE DEF r
    <3>6. UsedOnce(r.c, r.out) /\ Ended(r.c)
      <4>1. 0 < s.c.nextGen
        BY <1>1, StepParts
      <4>2. QED
        BY <1>1, <3>2, <3>4, <3>5, <4>1 DEF Basic, UsedOnce, Ended
    <3>7. Basic(r)
      BY <1>1, <3>4, <3>6 DEF Basic
    <3>8. Capturing(r.c, r.out, n) /\ CaptureOwned(r.c)
      BY <3>5, NoneCapturing
    <3>9. \A k \in Kinds : Transferring(s.c, s.out, n, k) => Transferring(r.c, r.out, n, k)
      BY <3>2, <3>4 DEF Transferring, Owned, InOrder, Reaches, Sound, Judged
    <3>10. \A k \in Kinds : WorkedOn(s.c, k) => WorkedOn(r.c, k)
      BY <3>2, <3>4 DEF WorkedOn
    <3>11. Done(s.c, s.out, n) => Done(r.c, r.out, n)
      BY <3>2, <3>4 DEF Done
    <3>12. Sending(r, n) /\ Going(r, n)
      BY <1>1, <1>2, <3>2, <3>4, <3>7, <3>8, <3>9, <3>10, <3>11 DEF Sending, Going
    <3>13. \E D \in Captures : Gathered(s.c, n, D)
      BY <1>1, <1>4 DEF Capturing, OneCapture
    <3>14. \E D \in Captures : /\ NothingAbandoned => D.edition >= history.begun
                               /\ \A i \in DOMAIN r.data : r.data[i] = D
      BY <3>4, <3>13 DEF Gathered
    <3>15. QED
      BY <3>3, <3>4, <3>5, <3>12, <3>14 DEF r
  <2>3. CASE ~(cap.known /\ Len(cap.got) = Chunks /\ cap.flight = 0)
    <3>1. r = s
      BY <1>4, <2>3 DEF CaptureSession
    <3>2. QED
      BY <1>1, <1>2, <3>1
  <2>4. QED
    BY <2>2, <2>3
<1>5. CASE "capture" \notin s.c.errors /\ cap.gen = 0
  <2>1. r = CaptureBegun(s)
    BY <1>5 DEF CaptureSession
  <2>2. /\ Basic(r) /\ r.c.seen = life /\ Capturing(r.c, r.out, n)
        /\ r.data = s.data /\ r.c.replace = s.c.replace /\ Extends(r.out, s.out)
        /\ \A i \in Added(r.out, s.out) : r.out[i].kind = "capture"
        /\ ~r.ok => r.c.capture.gen = 0
    BY <1>1, <1>5, <2>1, CaptureBegunFacts
  <2> HIDE DEF r
  <2>3. r.out \in Seq(Messages) /\ "capture" \notin Kinds
    BY <2>2, StepParts, KindNames DEF Basic
  <2>4. ASSUME NEW k \in Kinds
        PROVE  \A i \in Added(r.out, s.out) : r.out[i].kind # k
    BY <2>2, <2>3
  <2>5. ASSUME NEW k \in Kinds, Transferring(s.c, s.out, n, k)
        PROVE  Transferring(r.c, r.out, n, k)
    BY <1>1, <2>2, <2>3, <2>4, <2>5, ReplaceFrame, n <= n
  <2>6. \A k \in Kinds : WorkedOn(s.c, k) => WorkedOn(r.c, k)
    BY <2>2 DEF WorkedOn
  <2>7. ASSUME Done(s.c, s.out, n)
        PROVE  Done(r.c, r.out, n)
    <3>1. /\ r.c.replace[Kind(work.goal)] = s.c.replace[Kind(work.goal)]
          /\ \A i \in Added(r.out, s.out) : r.out[i].kind # Kind(work.goal)
      BY <2>2, <2>4, KindNames
    <3>2. QED
      BY <1>1, <2>2, <2>3, <2>7, <3>1, DoneFrame, n <= n
  <2>8. CaptureOwned(r.c)
    BY DEF CaptureOwned
  <2>9. Sending(r, n) /\ Going(r, n)
    BY <1>2, <2>2, <2>5, <2>6, <2>7, <2>8 DEF Sending, Going
  <2>10. QED
    BY <1>1, <2>2, <2>9 DEF r
<1>6. QED
  BY <1>3, <1>4, <1>5

LEMMA PumpOk ==
  ASSUME NEW s, Basic(s), s.ok, NEW k \in Kinds, ~Pump(s, k).ok
  PROVE  Pump(s, k) = Failing(s) /\ Unpumped(s, k)
<1>1. s \in Steps /\ Len(s.out) <= Capacity
  BY DEF Basic
<1>2. ASSUME NEW m \in Nat, Pumpable(s, k, m)
      PROVE  /\ WritesPosted(s, k, m).ok
             /\ Committable(WritesPosted(s, k, m), k)
                  => CommitPosted(WritesPosted(s, k, m), k).ok
  <2>1. Written(WritesPosted(s, k, m), s, k, m)
    BY <1>1, <1>2, WriteFacts DEF Pumpable
  <2>2. WritesPosted(s, k, m) \in Steps /\ WritesPosted(s, k, m).ok
    BY <2>1 DEF Written
  <2>3. QED
    BY <2>2, CommitFacts DEF Committable
<1>3. QED
  BY <1>1, <1>2, PumpCases

\* A step that takes the outcome of a kind, or its transfer, away.
LEMMA TakesKind ==
  ASSUME NEW s, NEW r, NEW n \in Nat, NEW k \in Kinds, NEW rep, Flow(s, n),
         r \in Steps, r.out = s.out, r.c.seen = s.c.seen, r.c.nextGen = s.c.nextGen,
         r.c.capture = s.c.capture, r.c.errors \subseteq s.c.errors,
         r.c.replace = [s.c.replace EXCEPT ![k] = rep], rep.gen = 0, Unheard(n) = {},
         s.c.replace[k].gen # 0 => s.c.replace[k].complete
  PROVE  /\ Sending(r, n) /\ CaptureOwned(r.c)
         /\ NothingLeftOver => \A j \in Kinds : WorkedOn(r.c, j)
<1>1. /\ Basic(s) /\ s \in Steps /\ s.c \in Clients /\ s.out \in Seq(Messages)
      /\ s.c.seen = life /\ s.c.replace \in [Kinds -> ReplaceTransfers]
      /\ Capturing(s.c, s.out, n) /\ CaptureOwned(s.c)
  BY StepParts DEF Flow, Basic
<1>2. r.c.replace[k] = rep /\ \A j \in Kinds : j # k => r.c.replace[j] = s.c.replace[j]
  BY <1>1
<1>3. 0 < s.c.nextGen
  BY <1>1, StepParts
<1>4. UsedOnce(r.c, r.out) /\ Ended(r.c)
  BY <1>1, <1>2, <1>3 DEF Basic, UsedOnce, Ended
<1>5. Basic(r)
  BY <1>1, <1>4 DEF Basic
<1>6. Capturing(r.c, r.out, n) /\ CaptureOwned(r.c)
  BY <1>1 DEF Capturing, Counted, Beginning, OneCapture, Gathered, CaptureOwned
<1>7. ASSUME NothingLeftOver
      PROVE  \A j \in Kinds : Transferring(s.c, s.out, n, j) /\ WorkedOn(s.c, j)
  BY <1>1, <1>7 DEF Flow, Replacing
<1>8. ASSUME NothingLeftOver, NEW j \in Kinds
      PROVE  Transferring(r.c, r.out, n, j) /\ WorkedOn(r.c, j)
  <2>1. Transferring(s.c, s.out, n, j) /\ WorkedOn(s.c, j)
    BY <1>7, <1>8
  <2>2. CASE j # k
    BY <1>2, <2>1, <2>2 DEF Transferring, Owned, InOrder, Reaches, Sound, Judged, WorkedOn
  <2>3. CASE j = k
    <3>1. \A i \in DOMAIN s.out : s.out[i].kind # k
      BY <2>1, <2>3 DEF Transferring, Owned, Judged
    <3>2. Transferring(r.c, r.out, n, k)
      BY <1>2, <3>1, NoneTransferring
    <3>3. QED
      BY <1>2, <2>3, <3>2 DEF WorkedOn
  <2>4. QED
    BY <2>2, <2>3
<1>9. QED
  BY <1>1, <1>5, <1>6, <1>8 DEF Sending

LEMMA ReplaceByFlow ==
  ASSUME TypeOK, NEW n \in Nat, NEW s, Flow(s, n), s.ok, Unheard(n) = {},
         work.goal \in Contents, Working(Kind(work.goal), work.goal)
  PROVE  LET r == ReplaceBy(s, work.goal)
         IN /\ Sending(r, n) /\ CaptureOwned(r.c)
            /\ r.ok /\ r.data = <<>> => Going(r, n)
            /\ ~r.ok \/ r.data # <<>> => (NothingLeftOver => Loose(r.c))
            /\ ~r.ok => r.data = <<>> /\ (NothingLeftOver => Done(r.c, r.out, n))
            /\ r.data # <<>> => r.ok /\ (NothingLeftOver => work.goal \in history.done)
<1> DEFINE goal == work.goal
           k == Kind(goal)
           rep == s.c.replace[k]
           r == ReplaceBy(s, goal)
<1>1. /\ Basic(s) /\ s \in Steps /\ s.c \in Clients /\ s.out \in Seq(Messages) /\ s.data = <<>>
      /\ s.c.seen = life /\ s.c.replace \in [Kinds -> ReplaceTransfers] /\ answers \in Seq(Answers)
      /\ Ended(s.c) /\ k \in Kinds
  BY StepParts, Generations, KindNames DEF Flow, Basic
<1>2. Sending(s, n) /\ Going(s, n)
  BY <1>1, SendingFlow
<1>3. ASSUME NothingLeftOver
      PROVE  /\ \A j \in Kinds : Transferring(s.c, s.out, n, j) /\ WorkedOn(s.c, j)
             /\ Done(s.c, s.out, n)
  BY <1>1, <1>3 DEF Flow, Replacing
\* What is not the work under way can reach nothing.
<1>4. ASSUME NothingLeftOver, NEW j \in Kinds, s.c.replace[j].gen # 0,
             s.c.replace[j].goal # goal \/ j # k
      PROVE  ~s.c.replace[j].sent /\ ~Attached
  BY <1>3, <1>4 DEF WorkedOn, Working
<1>5. CASE k \in s.c.errors
  <2> DEFINE d == [s.c EXCEPT !.errors = s.c.errors \ {k}]
             t == [s EXCEPT !.c = d]
  <2>1. r = Failing(t)
    BY <1>1, <1>5 DEF ReplaceBy, Steps, Clients
  <2>2. d \in Clients /\ d.capture = s.c.capture /\ d.replace = s.c.replace /\ d.seen = s.c.seen
        /\ d.nextGen = s.c.nextGen /\ d.errors = s.c.errors \ {k}
    BY <1>1 DEF Clients
  <2> HIDE DEF d
  <2>3. t \in Steps /\ t.c = d /\ t.out = s.out /\ t.data = s.data
    BY <1>1, <2>2 DEF Steps
  <2> HIDE DEF t
  <2>4. r \in Steps /\ r.c = d /\ r.out = s.out /\ r.ok = FALSE /\ r.data = <<>>
    BY <1>1, <2>1, <2>3, FailingFacts
  <2>5. rep.gen = 0
    BY <1>1, <1>5 DEF Ended
  <2>6. /\ s.c.replace[k].gen = 0 /\ d.replace = [s.c.replace EXCEPT ![k] = s.c.replace[k]]
    BY <1>1, <2>2, <2>5
  <2> HIDE DEF r, k
  <2>7. r.c.replace = [s.c.replace EXCEPT ![k] = s.c.replace[k]] /\ r.c.errors \subseteq s.c.errors
    BY <2>2, <2>4, <2>6
  <2>8. /\ Sending(r, n) /\ CaptureOwned(r.c)
        /\ NothingLeftOver => \A j \in Kinds : WorkedOn(r.c, j)
    BY <1>1, <2>2, <2>4, <2>6, <2>7, TakesKind
  <2>9. NothingLeftOver => Loose(r.c)
    BY <1>4, <2>2, <2>4, <2>6 DEF Loose
  <2>10. NothingLeftOver => Done(r.c, r.out, n)
    BY <1>3, <2>2, <2>4 DEF Done
  <2>11. QED
    BY <2>4, <2>8, <2>9, <2>10 DEF r
<1>6. CASE k \notin s.c.errors /\ rep.gen # 0 /\ rep.goal # goal
  <2>1. r = Failing(s)
    BY <1>6 DEF ReplaceBy
  <2> HIDE DEF r
  <2>2. r \in Steps /\ r.c = s.c /\ r.out = s.out /\ r.ok = FALSE /\ r.data = <<>>
    BY <1>1, <2>1, FailingFacts
  <2>3. NothingLeftOver => Loose(r.c)
    BY <1>4, <1>6, <2>2 DEF Loose
  <2>4. Sending(r, n) /\ Going(r, n)
    BY <1>2, <2>2 DEF Sending, Going, Basic
  <2>5. QED
    BY <2>2, <2>3, <2>4 DEF r, Going
<1>7. CASE k \notin s.c.errors /\ rep.gen # 0 /\ rep.goal = goal /\ rep.complete
  <2> DEFINE replace == [s.c.replace EXCEPT ![k] = NoTransfer]
             d == [s.c EXCEPT !.replace = replace]
  <2>1. r = [s EXCEPT !.c = d, !.data = <<goal>>]
    BY <1>1, <1>7 DEF ReplaceBy, Steps, Clients
  <2>2. replace \in [Kinds -> ReplaceTransfers] /\ NoTransfer.gen = 0
    BY <1>1, ReplaceTypes
  <2> HIDE DEF replace
  <2>3. d \in Clients /\ d.capture = s.c.capture /\ d.replace = replace /\ d.seen = s.c.seen
        /\ d.nextGen = s.c.nextGen /\ d.errors = s.c.errors
    BY <1>1, <2>2 DEF Clients
  <2> HIDE DEF d
  <2>4. <<goal>> \in Seq(Contents) /\ <<goal>> # <<>>
    OBVIOUS
  <2>5. r \in Steps /\ r.c = d /\ r.out = s.out /\ r.ok = s.ok /\ r.data = <<goal>>
    BY <1>1, <2>1, <2>3, <2>4 DEF Steps
  <2> HIDE DEF r
  <2>6. /\ s.c.replace[k].gen # 0 => s.c.replace[k].complete
        /\ r.c.replace = [s.c.replace EXCEPT ![k] = NoTransfer] /\ r.c.errors \subseteq s.c.errors
    BY <1>7, <2>3, <2>5 DEF replace
  <2> HIDE DEF k
  <2>7. /\ Sending(r, n) /\ CaptureOwned(r.c)
        /\ NothingLeftOver => \A j \in Kinds : WorkedOn(r.c, j)
    BY <1>1, <2>2, <2>3, <2>5, <2>6, TakesKind
  <2>8. NothingLeftOver => Loose(r.c)
    BY <1>1, <1>4, <2>2, <2>6 DEF Loose
  <2>9. NothingLeftOver => goal \in history.done
    BY <1>1, <1>3, <1>7 DEF Transferring, Sound
  <2>10. QED
    BY <1>1, <2>4, <2>5, <2>7, <2>8, <2>9 DEF r
<1>8. CASE k \notin s.c.errors /\ rep.gen # 0 /\ rep.goal = goal /\ ~rep.complete
  <2>1. r = Pump(s, k)
    BY <1>8 DEF ReplaceBy
  <2>2. Flow(r, n)
    BY <1>1, <2>1, PumpFlow
  <2>3. r.c.seen = life /\ r.data = <<>>
    BY <2>2 DEF Flow
  <2>4. Sending(r, n) /\ Going(r, n)
    BY <2>2, <2>3, SendingFlow
  <2>5. ASSUME ~r.ok, NothingLeftOver
        PROVE  Loose(r.c)
    <3>1. r = Failing(s) /\ Unpumped(s, k)
      BY <1>1, <2>1, <2>5, PumpOk
    <3>2. r.c = s.c
      BY <1>1, <3>1, FailingFacts
    <3>3. rep \in ReplaceRecords /\ rep.next \in Nat /\ Chunks \in Nat
      BY <1>1, <1>8, ReplaceTypes, Sizes
    <3>4. ~rep.sent /\ ~Attached
      BY <1>1, <1>3, <1>8, <2>5, <3>1, <3>3 DEF Unpumped, Transferring, Sound
    <3>5. QED
      BY <1>4, <2>5, <3>2, <3>4 DEF Loose
  <2> HIDE DEF r
  <2>6. QED
    BY <2>3, <2>4, <2>5 DEF r, Going
<1>9. CASE k \notin s.c.errors /\ rep.gen = 0
  <2>1. r = ReplaceBegun(s, goal)
    BY <1>9 DEF ReplaceBy
  <2>2. Flow(r, n) /\ (r.ok \/ r.c.replace[k].gen = 0)
    BY <1>9, <2>1, ReplaceBegunFlow
  <2>3. r.c.seen = life /\ r.data = <<>>
    BY <2>2 DEF Flow
  <2>4. Sending(r, n) /\ Going(r, n)
    BY <2>2, <2>3, SendingFlow
  <2>5. ASSUME ~r.ok, NothingLeftOver
        PROVE  Loose(r.c)
    <3>1. \A j \in Kinds : WorkedOn(r.c, j)
      BY <2>4, <2>5 DEF Going
    <3>2. QED
      BY <2>2, <2>5, <3>1 DEF Loose, WorkedOn, Working
  <2> HIDE DEF r
  <2>6. QED
    BY <2>3, <2>4, <2>5 DEF r, Going
<1>10. QED
  BY <1>5, <1>6, <1>7, <1>8, <1>9

-----------------------------------------------------------------------------
(* The update of the application.                                          *)

\* The part of the types that is the application's own.
Kept ==
  /\ task \in [kind : {"none", "save", "load", "import"}, goal : Goals,
               status : {"none", "running", "asking", "completed", "failed", "cancelled"}]
  /\ work \in [op : {"none", "save", "askLoad", "load", "askImport", "prepare", "import",
                     "capture", "copy"},
               source : Loops \union {None}, goal : Goals]
  /\ file \in [chunks : Seq(Captures), begun : Nat]
  /\ history \in [begun : Nat, copied : Nat, done : SUBSET Goals,
                  lapses : SUBSET {"abandoned", "carried", "refused", "stale", "unapplied"},
                  tasks : 0 .. MaxTasks, edits : 0 .. MaxEdits, beside : 0 .. MaxBeside]
\* What the history says of transfers, which an update does not change but for lapses.
SameHistory ==
  /\ history'.begun = history.begun /\ history'.done = history.done
  /\ NothingAbandoned' => NothingAbandoned
  /\ NothingLeftOver' => NothingLeftOver

\* The transfers of an operation that ends, or changes what it does.
Ending(s) == (NothingAbandoned => s.c.capture.gen = 0) /\ (NothingLeftOver => Loose(s.c))

LEMMA UpdateTalks ==
  ASSUME TypeOK, NEW s, Sending(s, Len(answers)), client' = s.c, toHost' = s.out, answers' = <<>>,
         UNCHANGED <<link, life, engine>>, SameHistory,
         \/ work' = work /\ Going(s, Len(answers))
         \/ Ending(s) /\ ~Requested'
         \/ Ending(s) /\ Going(s, Len(answers)) /\ work'.goal = work.goal /\ Requested
         \/ ~NothingAbandoned'
  PROVE  Talking(client, toHost, 0)'
<1> DEFINE L == Len(answers)
<1>1. /\ answers \in Seq(Answers) /\ L \in Nat /\ DOMAIN answers = 1 .. L
      /\ Len(<<>>) = 0 /\ DOMAIN <<>> = {}
  <2>1. answers \in Seq(Answers)
    BY DEF TypeOK
  <2>2. QED
    BY <2>1, Domains
<1>2. Unheard(L) = {} /\ Unheard(0)' = {} /\ DOMAIN answers' = {}
  BY <1>1 DEF Unheard
<1> HIDE DEF L
<1>3. /\ Basic(s) /\ s.c.seen = life /\ Capturing(s.c, s.out, L)
      /\ NothingLeftOver => \A k \in Kinds : Transferring(s.c, s.out, L, k)
  BY DEF Sending, L
<1>4. UsedOnce(client, toHost)' /\ Ended(client)' /\ Silent(toHost)'
  BY <1>2, <1>3 DEF Basic, UsedOnce, Ended, Silent, Attached
<1>5. Capturing(client, toHost, 0)'
  <2>1. Counted(client)'
    BY <1>3 DEF Capturing, Counted
  <2>2. Beginning(client, toHost, 0)'
    BY <1>2, <1>3 DEF Capturing, Beginning, Of
  <2>3. OneCapture(client, 0)'
    <3>1. \A D : Gathered(s.c, L, D) => Gathered(client, 0, D)'
      BY <1>2 DEF Gathered, SameHistory
    <3>2. QED
      BY <1>3, <3>1 DEF Capturing, OneCapture
  <2>4. QED
    BY <2>1, <2>2, <2>3 DEF Capturing
<1>6. CaptureOwned(client)'
  BY DEF CaptureOwned, Going, Ending, SameHistory
<1>7. ASSUME NothingLeftOver', NEW k \in Kinds
      PROVE  Transferring(client, toHost, 0, k)' /\ WorkedOn(client, k)'
  <2>1. NothingLeftOver /\ Transferring(s.c, s.out, L, k)
    BY <1>3, <1>7 DEF SameHistory
  <2>2. Owned(client, toHost, k)'
    BY <2>1 DEF Transferring, Owned
  <2>3. InOrder(toHost, k)'
    BY <2>1 DEF Transferring, InOrder
  <2>4. Reaches(client, toHost, k)'
    BY <2>1 DEF Transferring, Reaches, StagedUpTo, Attached
  <2>5. Sound(client, k)'
    BY <2>1 DEF Transferring, Sound, SameHistory
  <2>6. Judged(client, toHost, 0, k)'
    BY <1>2, <2>1 DEF Transferring, Judged
  <2>7. WorkedOn(client, k)'
    <3>1. CASE work' = work /\ Going(s, Len(answers))
      BY <2>1, <3>1 DEF Going, WorkedOn, Working, Attached
    <3>2. CASE Ending(s)
      BY <2>1, <3>2 DEF Ending, Loose, WorkedOn, Attached
    <3>3. QED
      BY <1>7, <3>1, <3>2 DEF NothingLeftOver
  <2>8. QED
    BY <2>2, <2>3, <2>4, <2>5, <2>6, <2>7 DEF Transferring
<1>8. ASSUME NothingLeftOver'
      PROVE  Done(client, toHost, 0)'
  <2>1. CASE ~Requested'
    BY <2>1 DEF Done
  <2>2. CASE /\ Going(s, Len(answers)) /\ work'.goal = work.goal
             /\ Requested' => Requested
    <3>1. Done(s.c, s.out, L)
      BY <1>8, <2>2 DEF Going, SameHistory, L
    <3>2. QED
      BY <1>2, <1>3, <2>2, <3>1 DEF Done, Attached, SameHistory
  <2>3. QED
    BY <1>8, <2>1, <2>2 DEF Requested, NothingLeftOver
<1>9. Replacing(client, toHost, 0)'
  BY <1>7, <1>8 DEF Replacing
<1>10. QED
  BY <1>4, <1>5, <1>6, <1>9 DEF Talking

LEMMA UpdateKeeps ==
  ASSUME IInv, NEW s, Sending(s, Len(answers)), client' = s.c, toHost' = s.out, answers' = <<>>,
         UNCHANGED <<link, life, engine>>, SameHistory, Kept',
         \/ work' = work /\ Going(s, Len(answers))
         \/ Ending(s) /\ ~Requested'
         \/ Ending(s) /\ Going(s, Len(answers)) /\ work'.goal = work.goal /\ Requested
         \/ ~NothingAbandoned',
         Shown', Asked', CapturesAreCurrent'
  PROVE  IInv'
<1>1. TypeOK
  BY DEF IInv
<1>2. /\ Basic(s) /\ s.c \in Clients /\ s.out \in Seq(Messages) /\ Len(s.out) <= Capacity
      /\ s.c.seen = life /\ life \in Gens
  BY <1>1, StepParts, Generations DEF Sending, Basic
<1>3. <<>> \in Seq(Answers) /\ Len(<<>>) = 0
  BY EmptySeq
<1>4. life <= life
  BY <1>2 DEF Gens
<1>5. TypeOK'
  BY <1>1, <1>2, <1>3, <1>4 DEF TypeOK, Kept
<1>6. Talking(client, toHost, 0)'
  BY <1>1, UpdateTalks
<1>7. Idle'
  BY <1>2 DEF Idle
<1>8. (history.begun <= engine.edition)'
  BY DEF IInv, SameHistory
<1>9. QED
  BY <1>3, <1>5, <1>6, <1>7, <1>8 DEF IInv

LEMMA AllHeard ==
  ASSUME TypeOK
  PROVE  Len(answers) \in Nat /\ Unheard(Len(answers)) = {}
<1>1. answers \in Seq(Answers)
  BY DEF TypeOK
<1>2. QED
  BY <1>1, Domains DEF Unheard

LEMMA KeptParts ==
  ASSUME IInv
  PROVE  Kept
BY DEF IInv, TypeOK, Kept

LEMMA EndedKept ==
  ASSUME Kept, NEW status \in {"completed", "failed", "cancelled"}, Finished(status)
  PROVE  /\ work' = NoWork /\ work'.op = "none" /\ ~Requested'
         /\ task' \in [kind : {"none", "save", "load", "import"}, goal : Goals,
                       status : {"none", "running", "asking", "completed", "failed", "cancelled"}]
         /\ work' \in [op : {"none", "save", "askLoad", "load", "askImport", "prepare", "import",
                             "capture", "copy"},
                       source : Loops \union {None}, goal : Goals]
         /\ task'.status = status /\ task'.kind = task.kind /\ task'.goal = task.goal
         /\ Shown' /\ Asked'
<1>1. NoGoal \in Goals
  BY DEF NoGoal, Goal, Goals
<1>2. work' = NoWork /\ work' = [op |-> "none", source |-> None, goal |-> NoGoal]
  BY DEF Finished, NoWork
<1>3. work'.op = "none" /\ ~Requested'
  BY <1>2 DEF Requested
<1>4. /\ task'.status = status /\ task'.kind = task.kind /\ task'.goal = task.goal
      /\ task' \in [kind : {"none", "save", "load", "import"}, goal : Goals,
                    status : {"none", "running", "asking", "completed", "failed", "cancelled"}]
  BY DEF Finished, Kept
<1>5. Shown' /\ Asked'
  BY <1>3, <1>4 DEF Shown, Asked, Requested
<1>6. QED
  BY <1>1, <1>2, <1>3, <1>4, <1>5

LEMMA FileKept ==
  ASSUME CapturesAreCurrent, SameHistory, file' = file, history'.copied = history.copied,
         work'.op = "copy" => work.op = "copy"
  PROVE  CapturesAreCurrent'
BY DEF CapturesAreCurrent, SameHistory

LEMMA HistoryKept ==
  ASSUME history' = history
  PROVE  SameHistory
BY DEF SameHistory, NothingAbandoned, NothingLeftOver

LEMMA SaveKeeps ==
  ASSUME IInv, SaveAdvances(Polled), answers' = <<>>, UNCHANGED <<link, life, engine>>
  PROVE  IInv'
<1> DEFINE L == Len(answers)
           r == CaptureSession(Polled)
<1>1. /\ TypeOK /\ history.begun <= engine.edition /\ L \in Nat /\ Kept /\ Shown /\ Asked
      /\ CapturesAreCurrent
  BY AllHeard, KeptParts DEF IInv
<1>2. work.op = "save" /\ history' = history /\ client' = r.c /\ toHost' = r.out
  BY DEF SaveAdvances
<1>3. /\ Sending(r, L) /\ Going(r, L)
      /\ ~r.ok \/ r.data # <<>> => r.c.capture.gen = 0
      /\ r.data # <<>> => r.ok /\ r.data \in Seq(Captures)
      /\ r.data # <<>> => \E D \in Captures :
           /\ NothingAbandoned => D.edition >= history.begun
           /\ \A i \in DOMAIN r.data : r.data[i] = D
  BY <1>1, <1>2, PolledFlow, CaptureSessionFlow
<1>4. \/ ~r.ok /\ Finished("failed") /\ UNCHANGED file
      \/ r.ok /\ r.data = <<>> /\ UNCHANGED <<task, work, file>>
      \/ /\ r.data # <<>> /\ Finished("completed")
         /\ file' = [chunks |-> r.data, begun |-> history.begun]
      \/ r.data # <<>> /\ Finished("failed") /\ UNCHANGED file
  BY DEF SaveAdvances
<1>5. SameHistory
  BY <1>2, HistoryKept
<1> HIDE DEF r, L
<1>6. ~r.ok \/ r.data # <<>> => Ending(r)
  <2>1. \A k \in Kinds : NothingLeftOver => WorkedOn(r.c, k)
    BY <1>3 DEF Going
  <2>2. NothingLeftOver => Loose(r.c)
    BY <1>2, <2>1 DEF Loose, WorkedOn, Working
  <2>3. QED
    BY <1>3, <2>2 DEF Ending
<1>7. CASE r.ok /\ r.data = <<>> /\ UNCHANGED <<task, work, file>>
  <2>1. Kept'
    BY <1>1, <1>2, <1>7 DEF Kept
  <2>2. Shown' /\ Asked'
    BY <1>1, <1>7 DEF Shown, Asked, Requested
  <2>3. CapturesAreCurrent'
    BY <1>1, <1>2, <1>5, <1>7, FileKept
  <2>4. QED
    BY <1>2, <1>3, <1>5, <1>7, <2>1, <2>2, <2>3, UpdateKeeps DEF L
<1>8. CASE ~r.ok \/ r.data # <<>>
  <2>1. PICK status \in {"completed", "failed", "cancelled"} : Finished(status)
    BY <1>4, <1>8
  <2>2. \/ file' = file
        \/ r.data # <<>> /\ file' = [chunks |-> r.data, begun |-> history.begun]
    BY <1>4, <1>8
  <2>3. Kept'
    <3>1. file' \in [chunks : Seq(Captures), begun : Nat]
      BY <1>1, <1>3, <2>2 DEF Kept
    <3>2. QED
      BY <1>1, <1>2, <2>1, <3>1, EndedKept DEF Kept
  <2>4. Shown' /\ Asked' /\ ~Requested' /\ work'.op = "none"
    BY <1>1, <2>1, EndedKept
  <2>5. CapturesAreCurrent'
    <3>1. CASE file' = file
      BY <1>1, <1>2, <1>5, <2>4, <3>1, FileKept
    <3>2. CASE r.data # <<>> /\ file' = [chunks |-> r.data, begun |-> history.begun]
      <4>1. file'.chunks = r.data /\ file'.begun = history.begun
        BY <3>2
      <4>2. PICK D \in Captures : /\ NothingAbandoned => D.edition >= history.begun
                                  /\ \A i \in DOMAIN r.data : r.data[i] = D
        BY <1>3, <3>2
      <4>3. r.data \in Seq(Captures) /\ r.data # <<>>
        BY <1>3, <3>2
      <4>4. 1 \in DOMAIN r.data
        BY <4>3
      <4>5. QED
        BY <1>5, <2>4, <4>1, <4>2, <4>4 DEF CapturesAreCurrent, SameHistory
    <3>3. QED
      BY <2>2, <3>1, <3>2
  <2>6. Ending(r)
    BY <1>6, <1>8
  <2>7. QED
    BY <1>2, <1>3, <1>5, <2>3, <2>4, <2>5, <2>6, UpdateKeeps DEF L
<1>9. QED
  BY <1>4, <1>7, <1>8

LEMMA ReplacingWork ==
  ASSUME IInv, work.op \in {"load", "import", "copy"}
  PROVE  /\ work.goal \in Contents /\ Kind(work.goal) \in Kinds
         /\ Working(Kind(work.goal), work.goal)
BY KindNames DEF IInv, Asked, Requested, Working

\* The updates whose loop is still there.
ImportAnswered(s) ==
  LET r == ReplaceBy(s, work.goal)
  IN /\ work.op = "import" /\ client' = r.c /\ toHost' = r.out
     /\ \/ ~r.ok /\ Finished("failed")
        \/ r.ok /\ r.data = <<>> /\ UNCHANGED <<task, work>>
        \/ r.data # <<>> /\ Finished("completed")
     /\ UNCHANGED <<file, history>>
CopyAnswered(s) ==
  LET r == ReplaceBy(s, work.goal)
  IN /\ work.op = "copy" /\ client' = r.c /\ toHost' = r.out
     /\ work' = IF ~r.ok \/ r.data # <<>> THEN NoWork ELSE work
     /\ UNCHANGED <<task, file, history>>
StaleEnds(s) ==
  /\ Stale(s) /\ file' = file
  /\ \/ work.op = "import" /\ Finished("failed")
     \/ work.op = "copy" /\ work' = NoWork /\ task' = task

LEMMA AnsweredCases ==
  ASSUME NEW s
  PROVE  /\ ImportAdvances(s) => ImportAnswered(s) \/ StaleEnds(s)
         /\ CopyAdvances(s) => CopyAnswered(s) \/ StaleEnds(s)
BY DEF ImportAdvances, ImportAnswered, CopyAdvances, CopyAnswered, StaleEnds

\* What is left behind is forgiven by the lapse.
LEMMA StaleKeeps ==
  ASSUME IInv, StaleEnds(Polled), answers' = <<>>, UNCHANGED <<link, life, engine>>
  PROVE  IInv' /\ "stale" \in history'.lapses
<1>1. /\ TypeOK /\ Kept /\ Shown /\ Asked /\ NoGoal \in Goals
  BY KeptParts DEF IInv, NoGoal, Goal, Goals
<1>2. /\ client' = Polled.c /\ toHost' = Polled.out /\ file' = file /\ work' = NoWork
      /\ history' = [history EXCEPT !.lapses = @ \union {"stale"}]
  BY DEF StaleEnds, Stale, Lapse, Finished
<1>3. Sending(Polled, Len(answers))
  BY PolledFlow, SendingFlow DEF Flow
<1>4. /\ history'.begun = history.begun /\ history'.done = history.done
      /\ "stale" \in history'.lapses
      /\ history' \in [begun : Nat, copied : Nat, done : SUBSET Goals,
                       lapses : SUBSET {"abandoned", "carried", "refused", "stale", "unapplied"},
                       tasks : 0 .. MaxTasks, edits : 0 .. MaxEdits, beside : 0 .. MaxBeside]
  BY <1>1, <1>2 DEF Kept
<1>5. ~NothingAbandoned' /\ ~NothingLeftOver' /\ SameHistory
  BY <1>4 DEF NothingAbandoned, NothingLeftOver, SameHistory
<1>6. /\ task' \in [kind : {"none", "save", "load", "import"}, goal : Goals,
                    status : {"none", "running", "asking", "completed", "failed", "cancelled"}]
      /\ task'.status = "failed" \/ (work.op = "copy" /\ task' = task)
  BY <1>1 DEF StaleEnds, Finished, Kept
<1>7. /\ work' \in [op : {"none", "save", "askLoad", "load", "askImport", "prepare", "import",
                          "capture", "copy"},
                    source : Loops \union {None}, goal : Goals]
      /\ work'.op = "none"
  BY <1>1, <1>2 DEF NoWork
<1>8. Kept'
  BY <1>1, <1>2, <1>4, <1>6, <1>7 DEF Kept
<1>9. Shown' /\ Asked' /\ CapturesAreCurrent'
  BY <1>1, <1>5, <1>6, <1>7 DEF Shown, Asked, Requested, CapturesAreCurrent
<1>10. QED
  BY <1>2, <1>3, <1>4, <1>5, <1>8, <1>9, UpdateKeeps

LEMMA LoadKeeps ==
  ASSUME IInv, LoadAdvances(Polled) \/ ImportAnswered(Polled), answers' = <<>>,
         UNCHANGED <<link, life, engine>>
  PROVE  /\ IInv'
         /\ NothingLeftOver =>
              /\ Ends("completed") => work.goal \in history.done
              /\ Ends("failed") /\ Attached /\ history'.lapses \cap {"stale", "unapplied"} = {}
                   => work.goal \notin history.done
<1> DEFINE L == Len(answers)
           r == ReplaceBy(Polled, work.goal)
<1>1. /\ TypeOK /\ history.begun <= engine.edition /\ L \in Nat /\ Kept /\ Shown /\ Asked
      /\ CapturesAreCurrent /\ Unheard(L) = {}
  BY AllHeard, KeptParts DEF IInv
<1>2. /\ work.op \in {"load", "import"} /\ client' = r.c /\ toHost' = r.out /\ file' = file
      /\ Working(Kind(work.goal), work.goal) /\ work.goal \in Contents /\ Requested
  BY ReplacingWork DEF LoadAdvances, ImportAnswered, Working, IInv, Asked, Requested
<1>3. /\ Sending(r, L) /\ CaptureOwned(r.c)
      /\ r.ok /\ r.data = <<>> => Going(r, L)
      /\ ~r.ok \/ r.data # <<>> => (NothingLeftOver => Loose(r.c))
      /\ ~r.ok => r.data = <<>> /\ (NothingLeftOver => Done(r.c, r.out, L))
      /\ r.data # <<>> => r.ok /\ (NothingLeftOver => work.goal \in history.done)
  BY <1>1, <1>2, PolledFlow, ReplaceByFlow
<1>4. \/ ~r.ok /\ Finished("failed") /\ UNCHANGED history
      \/ r.ok /\ r.data = <<>> /\ UNCHANGED <<task, work, history>>
      \/ r.data # <<>> /\ Finished("completed") /\ UNCHANGED history
      \/ r.data # <<>> /\ Finished("failed") /\ Lapse("unapplied")
  BY DEF LoadAdvances, ImportAnswered
<1> HIDE DEF r, L
<1>5. history' = history \/ Lapse("unapplied")
  BY <1>4
<1>6. /\ SameHistory /\ history'.copied = history.copied
      /\ history' \in [begun : Nat, copied : Nat, done : SUBSET Goals,
                       lapses : SUBSET {"abandoned", "carried", "refused", "stale", "unapplied"},
                       tasks : 0 .. MaxTasks, edits : 0 .. MaxEdits, beside : 0 .. MaxBeside]
      /\ Lapse("unapplied") => "unapplied" \in history'.lapses
  BY <1>1, <1>5 DEF Lapse, SameHistory, NothingAbandoned, NothingLeftOver, Kept
<1>7. CASE r.ok /\ r.data = <<>> /\ UNCHANGED <<task, work, history>>
  <2>1. Kept'
    BY <1>1, <1>2, <1>7 DEF Kept
  <2>2. Shown' /\ Asked'
    BY <1>1, <1>7 DEF Shown, Asked, Requested
  <2>3. CapturesAreCurrent'
    BY <1>1, <1>2, <1>6, <1>7, FileKept
  <2>4. IInv'
    BY <1>2, <1>3, <1>6, <1>7, <2>1, <2>2, <2>3, UpdateKeeps DEF L
  <2>5. QED
    BY <1>7, <2>4 DEF Ends
<1>8. CASE ~r.ok \/ r.data # <<>>
  <2>1. PICK status \in {"completed", "failed", "cancelled"} : Finished(status)
    BY <1>4, <1>8
  <2>2. Kept'
    BY <1>1, <1>2, <1>6, <2>1, EndedKept DEF Kept
  <2>3. Shown' /\ Asked' /\ ~Requested' /\ work'.op = "none"
    BY <1>1, <2>1, EndedKept
  <2>4. CapturesAreCurrent'
    BY <1>1, <1>2, <1>6, <2>3, FileKept
  <2>5. Ending(r)
    BY <1>2, <1>3, <1>8 DEF Ending, CaptureOwned
  <2>6. IInv'
    BY <1>2, <1>3, <1>6, <2>2, <2>3, <2>4, <2>5, UpdateKeeps DEF L
  <2>7. Finished("completed") => task'.status = "completed"
    BY <1>1 DEF Kept, Finished
  <2>8. Finished("failed") => task'.status = "failed"
    BY <1>1 DEF Kept, Finished
  <2>9. NothingLeftOver /\ Ends("completed") => work.goal \in history.done
    BY <1>3, <1>4, <2>7, <2>8 DEF Ends
  <2>10. ASSUME NothingLeftOver, Ends("failed"), Attached, history'.lapses \cap {"stale", "unapplied"} = {}
         PROVE  work.goal \notin history.done
    <3>1. ~r.ok
      BY <1>4, <1>6, <2>7, <2>10 DEF Ends
    <3>2. Done(r.c, r.out, L) /\ Loose(r.c)
      BY <1>3, <2>10, <3>1
    <3>3. QED
      BY <1>2, <2>10, <3>2, ReplacingWork DEF Done, Loose
  <2>11. QED
    BY <2>6, <2>9, <2>10
<1>9. QED
  BY <1>4, <1>7, <1>8

LEMMA CopyKeeps ==
  ASSUME IInv, CopyAnswered(Polled), answers' = <<>>, UNCHANGED <<link, life, engine>>
  PROVE  IInv'
<1> DEFINE L == Len(answers)
           r == ReplaceBy(Polled, work.goal)
<1>1. /\ TypeOK /\ history.begun <= engine.edition /\ L \in Nat /\ Kept /\ Shown /\ Asked
      /\ CapturesAreCurrent /\ Unheard(L) = {}
  BY AllHeard, KeptParts DEF IInv
<1>2. /\ work.op = "copy" /\ client' = r.c /\ toHost' = r.out /\ file' = file
      /\ history' = history /\ task' = task
      /\ work' = IF ~r.ok \/ r.data # <<>> THEN NoWork ELSE work
      /\ Working(Kind(work.goal), work.goal) /\ work.goal \in Contents
  BY ReplacingWork DEF CopyAnswered
<1>3. /\ Sending(r, L) /\ CaptureOwned(r.c)
      /\ r.ok /\ r.data = <<>> => Going(r, L)
      /\ ~r.ok \/ r.data # <<>> => (NothingLeftOver => Loose(r.c))
  BY <1>1, <1>2, PolledFlow, ReplaceByFlow
<1> HIDE DEF r, L
<1>4. SameHistory
  BY <1>2, HistoryKept
<1>5. work' = work \/ (work' = NoWork /\ work'.op = "none")
  BY <1>2 DEF NoWork
<1>6. Kept'
  <2>1. NoWork \in [op : {"none", "save", "askLoad", "load", "askImport", "prepare", "import",
                          "capture", "copy"},
                    source : Loops \union {None}, goal : Goals]
    BY DEF NoWork, NoGoal, Goal, Goals
  <2>2. QED
    BY <1>1, <1>2, <1>5, <2>1 DEF Kept
<1>7. Shown' /\ Asked'
  BY <1>1, <1>2, <1>5 DEF Shown, Asked, Requested
<1>8. CapturesAreCurrent'
  BY <1>1, <1>2, <1>4, FileKept
<1>9. CASE r.ok /\ r.data = <<>>
  BY <1>2, <1>3, <1>4, <1>6, <1>7, <1>8, <1>9, UpdateKeeps DEF L
<1>10. CASE ~r.ok \/ r.data # <<>>
  <2>1. Ending(r) /\ ~Requested'
    BY <1>2, <1>3, <1>5, <1>10 DEF Ending, CaptureOwned, Requested, NoWork
  <2>2. QED
    BY <1>2, <1>3, <1>4, <1>6, <1>7, <1>8, <2>1, UpdateKeeps DEF L
<1>11. QED
  BY <1>9, <1>10

\* An operation that transfers nothing has nothing that could reach an engine.
LEMMA IdleLoose ==
  ASSUME NEW s, NEW n, Going(s, n),
         work.op \in {"none", "askLoad", "askImport", "prepare", "capture"},
         work.op = "capture" => s.c.capture.gen = 0
  PROVE  Ending(s)
BY DEF Going, CaptureOwned, Ending, Loose, WorkedOn, Working

LEMMA PrepareKeeps ==
  ASSUME IInv, PrepareAdvances(Polled), answers' = <<>>, UNCHANGED <<link, life, engine>>
  PROVE  IInv' /\ (Ends("failed") /\ Attached /\ NothingLeftOver => work.goal \notin history.done)
               /\ ~Ends("completed")
<1> DEFINE L == Len(answers)
           s == Polled
<1>1. /\ TypeOK /\ history.begun <= engine.edition /\ L \in Nat /\ Kept /\ Shown /\ Asked
      /\ CapturesAreCurrent
  BY AllHeard, KeptParts DEF IInv
<1>2. /\ work.op = "prepare" /\ client' = s.c /\ toHost' = s.out /\ file' = file
      /\ history' = history
      /\ \/ work' = [work EXCEPT !.op = "import"] /\ task' = task
         \/ Finished("failed")
  BY DEF PrepareAdvances
<1>3. Sending(s, L) /\ Going(s, L)
  BY PolledFlow, SendingFlow DEF Flow
<1> HIDE DEF s, L
<1>4. Ending(s)
  BY <1>2, <1>3, IdleLoose
<1>5. SameHistory
  BY <1>2, HistoryKept
<1>6. CASE work' = [work EXCEPT !.op = "import"] /\ task' = task
  <2>1. Kept' /\ work'.op = "import" /\ work'.goal = work.goal
    BY <1>1, <1>2, <1>6 DEF Kept
  <2>2. Shown' /\ Asked' /\ Requested
    BY <1>1, <1>2, <1>6, <2>1 DEF Shown, Asked, Requested
  <2>3. CapturesAreCurrent'
    BY <1>1, <1>2, <1>5, <2>1, FileKept
  <2>4. IInv'
    BY <1>2, <1>3, <1>4, <1>5, <2>1, <2>2, <2>3, UpdateKeeps DEF L
  <2>5. QED
    BY <1>6, <2>4 DEF Ends
<1>7. CASE Finished("failed")
  <2>1. Kept' /\ work'.op = "none"
    BY <1>1, <1>2, <1>7, EndedKept DEF Kept
  <2>2. Shown' /\ Asked' /\ ~Requested' /\ task'.status = "failed"
    BY <1>1, <1>7, EndedKept
  <2>3. CapturesAreCurrent'
    BY <1>1, <1>2, <1>5, <2>1, FileKept
  <2>4. IInv'
    BY <1>2, <1>3, <1>4, <1>5, <2>1, <2>2, <2>3, UpdateKeeps DEF L
  <2>5. Attached /\ NothingLeftOver => work.goal \notin history.done
    BY <1>2, <1>3, <1>4, KindNames DEF Going, Done, Requested, Ending, Loose
  <2>6. QED
    BY <2>2, <2>4, <2>5 DEF Ends
<1>8. QED
  BY <1>2, <1>6, <1>7

LEMMA NothingKeeps ==
  ASSUME IInv, NothingAdvances(Polled), answers' = <<>>, UNCHANGED <<link, life, engine>>
  PROVE  IInv'
<1> DEFINE L == Len(answers)
           s == Polled
<1>1. /\ TypeOK /\ Kept /\ Shown /\ Asked /\ CapturesAreCurrent
  BY AllHeard, KeptParts DEF IInv
<1>2. /\ client' = s.c /\ toHost' = s.out
      /\ file' = file /\ history' = history /\ work' = work /\ task' = task
  BY DEF NothingAdvances
<1>3. Sending(s, L) /\ Going(s, L)
  BY PolledFlow, SendingFlow DEF Flow
<1> HIDE DEF s, L
<1>4. SameHistory
  BY <1>2, HistoryKept
<1>5. Kept' /\ Shown' /\ Asked'
  BY <1>1, <1>2 DEF Kept, Shown, Asked, Requested
<1>6. CapturesAreCurrent'
  BY <1>1, <1>2, <1>4, FileKept
<1>7. QED
  BY <1>2, <1>3, <1>4, <1>5, <1>6, UpdateKeeps DEF L

\* A command beside the transfers that is posted while there is room.
BesidePosted(s, r) == r = s \/ (CanPost(s) /\ r = Post(s, Beside("tell")))

LEMMA BesideFacts ==
  ASSUME NEW s \in Steps, NEW op \in {"ask", "tell"}, CanPost(s)
  PROVE  LET r == Post(s, Beside(op))
         IN /\ Posts(r, s) /\ r.c = s.c
            /\ \A i \in Added(r.out, s.out) : r.out[i].kind = "beside" /\ r.out[i].gen = 0
<1>1. /\ Beside(op) \in Messages /\ Beside(op).kind = "beside" /\ Beside(op).gen = 0
  <2>1. NoGoal \in Goals /\ 0 \in 0 .. Chunks /\ 0 \in Nat
    BY Sizes DEF NoGoal, Goal, Goals
  <2>2. QED
    BY <2>1 DEF Beside, Message, Messages
<1>2. Attached /\ Len(s.out) < Capacity
  BY DEF CanPost
<1> DEFINE r == Post(s, Beside(op))
<1>3. /\ r \in Steps /\ Len(r.out) = Len(s.out) + 1 /\ Len(s.out) + 1 <= Capacity
      /\ r.c = s.c /\ r.ok = s.ok /\ r.data = s.data /\ Extends(r.out, s.out)
      /\ Added(r.out, s.out) = {Len(s.out) + 1} /\ r.out[Len(s.out) + 1] = Beside(op)
  BY <1>1, <1>2, PostFacts
<1> HIDE DEF r
<1>4. Posts(r, s)
  BY <1>2, <1>3 DEF Posts
<1>5. QED
  BY <1>1, <1>3, <1>4 DEF r

LEMMA BesideKeepsBasic ==
  ASSUME NEW s, Basic(s), NEW r, BesidePosted(s, r)
  PROVE  Basic(r) /\ r.c = s.c
<1>1. CASE r = s
  BY <1>1
<1>2. CASE CanPost(s) /\ r = Post(s, Beside("tell"))
  <2>1. s \in Steps
    BY DEF Basic
  <2>2. /\ Posts(r, s) /\ r.c = s.c
        /\ \A i \in Added(r.out, s.out) : r.out[i].kind = "beside" /\ r.out[i].gen = 0
    BY <1>2, <2>1, BesideFacts
  <2>3. 0 < s.c.nextGen
    BY <2>1, StepParts
  <2>4. QED
    BY <2>2, <2>3, PostsKeepBasic
<1>3. QED
  BY <1>1, <1>2 DEF BesidePosted

LEMMA BesideKeepsSending ==
  ASSUME TypeOK, NEW n \in Nat, NEW s, Sending(s, n), NEW r, BesidePosted(s, r)
  PROVE  Sending(r, n) /\ r.c = s.c
<1>1. CASE r = s
  BY <1>1
<1>2. CASE CanPost(s) /\ r = Post(s, Beside("tell"))
  <2>1. s \in Steps /\ Basic(s) /\ s.c.seen = life /\ answers \in Seq(Answers)
    BY DEF Sending, Basic, TypeOK
  <2>2. /\ Posts(r, s) /\ r.c = s.c
        /\ \A i \in Added(r.out, s.out) : r.out[i].kind = "beside" /\ r.out[i].gen = 0
    BY <1>2, <2>1, BesideFacts
  <2>3. /\ s.out \in Seq(Messages) /\ r.out \in Seq(Messages) /\ Extends(r.out, s.out)
    BY <2>1, <2>2, StepParts DEF Posts, Steps
  <2>4. Basic(r)
    BY <2>1, BesideKeepsBasic
  <2>5. Capturing(r.c, r.out, n)
    BY <2>1, <2>2, <2>3, CaptureFrame DEF Sending
  <2>6. ASSUME NEW k \in Kinds, Transferring(s.c, s.out, n, k)
        PROVE  Transferring(r.c, r.out, n, k)
    <3>1. k # "beside" /\ n <= n
      BY DEF Kinds
    <3>2. r.c.replace[k] = s.c.replace[k] /\ \A i \in Added(r.out, s.out) : r.out[i].kind # k
      BY <2>2, <3>1
    <3>3. QED
      BY <2>1, <2>3, <2>6, <3>1, <3>2, ReplaceFrame
  <2>7. QED
    BY <2>1, <2>2, <2>4, <2>5, <2>6 DEF Sending
<1>3. QED
  BY <1>1, <1>2 DEF BesidePosted

\* The updates that copy what was captured, and those that find nothing to copy.
CaptureAnswered(s) ==
  LET r == CaptureSession(s)
  IN /\ work.op = "capture" /\ client' = r.c /\ toHost' = r.out
     /\ work' = IF ~r.ok THEN NoWork ELSE IF r.data = <<>> THEN work ELSE Copied(r)
     /\ history' = [history EXCEPT !.copied = IF r.data = <<>> THEN @ ELSE r.data[1].edition]
     /\ UNCHANGED <<task, file>>
CaptureDropped(s) ==
  LET r == CaptureSession(s)
  IN work.op = "capture" /\ r.data # <<>> /\ NothingToCopy(r) /\ UNCHANGED <<task, file, history>>

LEMMA CaptureCases ==
  ASSUME NEW s, CaptureAdvances(s)
  PROVE  CaptureAnswered(s) \/ CaptureDropped(s)
BY DEF CaptureAdvances, CaptureAnswered, CaptureDropped

LEMMA DroppedPosts ==
  ASSUME NEW r, NothingToCopy(r)
  PROVE  \E last : BesidePosted(r, last) /\ toHost' = last.out /\ client' = r.c /\ work' = NoWork
BY DEF NothingToCopy, BesidePosted

LEMMA DroppedKeeps ==
  ASSUME IInv, CaptureDropped(Polled), answers' = <<>>, UNCHANGED <<link, life, engine>>
  PROVE  IInv'
<1> DEFINE L == Len(answers)
           r == CaptureSession(Polled)
<1>1. /\ TypeOK /\ history.begun <= engine.edition /\ L \in Nat /\ Kept /\ Shown /\ Asked
      /\ CapturesAreCurrent
  BY AllHeard, KeptParts DEF IInv
<1>2. /\ work.op = "capture" /\ r.data # <<>> /\ NothingToCopy(r)
      /\ task' = task /\ file' = file /\ history' = history
  BY DEF CaptureDropped
<1>3. Sending(r, L) /\ Going(r, L) /\ r.c.capture.gen = 0
  BY <1>1, <1>2, PolledFlow, CaptureSessionFlow
<1> HIDE DEF r, L
<1>4. PICK last : BesidePosted(r, last) /\ toHost' = last.out /\ client' = r.c /\ work' = NoWork
  BY <1>2, DroppedPosts
<1>5. Sending(last, L) /\ client' = last.c /\ last.c = r.c
  BY <1>1, <1>3, <1>4, BesideKeepsSending
<1>6. Ending(last)
  BY <1>2, <1>3, <1>5, IdleLoose DEF Ending
<1>7. work'.op = "none" /\ ~Requested' /\ NoWork \in
        [op : {"none", "save", "askLoad", "load", "askImport", "prepare", "import", "capture",
               "copy"},
         source : Loops \union {None}, goal : Goals]
  BY <1>4 DEF NoWork, Requested, NoGoal, Goal, Goals
<1>8. Kept' /\ Shown' /\ Asked'
  BY <1>1, <1>2, <1>4, <1>7 DEF Kept, Shown, Asked, Requested
<1>9. SameHistory /\ CapturesAreCurrent'
  BY <1>1, <1>2, <1>7, HistoryKept, FileKept
<1>10. QED
  BY <1>4, <1>5, <1>6, <1>7, <1>8, <1>9, UpdateKeeps DEF L

LEMMA CaptureKeeps ==
  ASSUME IInv, CaptureAnswered(Polled), answers' = <<>>, UNCHANGED <<link, life, engine>>
  PROVE  IInv'
<1> DEFINE L == Len(answers)
           r == CaptureSession(Polled)
<1>1. /\ TypeOK /\ history.begun <= engine.edition /\ L \in Nat /\ Kept /\ Shown /\ Asked
      /\ CapturesAreCurrent
  BY AllHeard, KeptParts DEF IInv
<1>2. /\ work.op = "capture" /\ client' = r.c /\ toHost' = r.out /\ task' = task /\ file' = file
      /\ work' = IF ~r.ok THEN NoWork ELSE IF r.data = <<>> THEN work ELSE Copied(r)
      /\ history' = [history EXCEPT !.copied = IF r.data = <<>> THEN @ ELSE r.data[1].edition]
      /\ work.source \in Loops /\ work.goal.loop \in Loops
  BY <1>1 DEF CaptureAnswered, Asked
<1>3. /\ Sending(r, L) /\ Going(r, L)
      /\ ~r.ok \/ r.data # <<>> => r.c.capture.gen = 0
      /\ r.data # <<>> => r.ok /\ r.data \in Seq(Captures)
      /\ r.data # <<>> => \E D \in Captures :
           /\ NothingAbandoned => D.edition >= history.begun
           /\ \A i \in DOMAIN r.data : r.data[i] = D
  BY <1>1, <1>2, PolledFlow, CaptureSessionFlow
<1> HIDE DEF r, L
<1>4. r.data # <<>> => r.data[1] \in Captures
  <2>1. r.data # <<>> => 1 \in DOMAIN r.data
    BY <1>3
  <2>2. QED
    BY <1>3, <2>1, Domains
<1>5. /\ history'.begun = history.begun /\ history'.done = history.done
      /\ history'.lapses = history.lapses
      /\ history'.copied = IF r.data = <<>> THEN history.copied ELSE r.data[1].edition
      /\ history' \in [begun : Nat, copied : Nat, done : SUBSET Goals,
                       lapses : SUBSET {"abandoned", "carried", "refused", "stale", "unapplied"},
                       tasks : 0 .. MaxTasks, edits : 0 .. MaxEdits, beside : 0 .. MaxBeside]
  <2>1. history.copied \in Nat /\ (r.data # <<>> => r.data[1].edition \in Nat)
    BY <1>1, <1>4 DEF Kept, Captures
  <2>2. PICK x \in Nat : /\ history' = [history EXCEPT !.copied = x]
                         /\ x = IF r.data = <<>> THEN history.copied ELSE r.data[1].edition
    BY <1>2, <2>1
  <2>3. QED
    BY <1>1, <2>2 DEF Kept
<1>6. SameHistory
  BY <1>5 DEF SameHistory, NothingAbandoned, NothingLeftOver
<1>7. CASE r.ok /\ r.data = <<>>
  <2>1. work' = work
    BY <1>2, <1>7
  <2>2. Kept' /\ Shown' /\ Asked'
    BY <1>1, <1>2, <1>5, <2>1 DEF Kept, Shown, Asked, Requested
  <2>3. CapturesAreCurrent'
    BY <1>1, <1>2, <1>5, <1>6, <1>7, <2>1, FileKept
  <2>4. QED
    BY <1>2, <1>3, <1>6, <2>1, <2>2, <2>3, UpdateKeeps DEF L
<1>8. CASE ~r.ok \/ r.data # <<>>
  <2>1. Ending(r)
    BY <1>2, <1>3, <1>8, IdleLoose
  <2>2. CASE ~r.ok
    <3>1. work' = NoWork /\ work'.op = "none" /\ r.data = <<>>
      BY <1>2, <1>3, <2>2 DEF NoWork
    <3>2. Kept'
      <4>1. NoWork \in [op : {"none", "save", "askLoad", "load", "askImport", "prepare", "import",
                              "capture", "copy"},
                        source : Loops \union {None}, goal : Goals]
        BY DEF NoWork, NoGoal, Goal, Goals
      <4>2. /\ task' \in [kind : {"none", "save", "load", "import"}, goal : Goals,
                     status : {"none", "running", "asking", "completed", "failed", "cancelled"}]
            /\ file' \in [chunks : Seq(Captures), begun : Nat]
        BY <1>1, <1>2 DEF Kept
      <4>3. QED
        BY <1>5, <3>1, <4>1, <4>2 DEF Kept
    <3>3. Shown' /\ Asked' /\ ~Requested'
      BY <1>1, <1>2, <3>1 DEF Shown, Asked, Requested
    <3>4. CapturesAreCurrent'
      BY <1>1, <1>2, <1>5, <1>6, <3>1, FileKept
    <3>5. QED
      BY <1>2, <1>3, <1>6, <2>1, <3>2, <3>3, <3>4, UpdateKeeps DEF L
  <2>3. CASE r.ok /\ r.data # <<>>
    <3> DEFINE take == r.data[1].session[work.source]
               goal == Goal(work.goal.loop, take)
    <3>1. r.data[1] \in Captures
      BY <1>4, <2>3
    <3>2. take \in Takes
      BY <1>2, <3>1 DEF Captures
    <3>3. goal \in Contents /\ goal \in Goals
      BY <1>2, <3>2 DEF Goal, Contents, Goals
    <3>4. work' = Work("copy", None, goal)
      BY <1>2, <2>3 DEF Copied
    <3> HIDE DEF goal, take
    <3>5. work'.op = "copy" /\ work'.goal = goal /\ work'.source = None
      BY <3>4 DEF Work
    <3>6. Kept'
      <4>1. work' \in [op : {"none", "save", "askLoad", "load", "askImport", "prepare", "import",
                            "capture", "copy"},
                      source : Loops \union {None}, goal : Goals]
        BY <3>3, <3>4 DEF Work
      <4>2. QED
        BY <1>1, <1>2, <1>5, <4>1 DEF Kept
    <3>7. Shown' /\ Asked' /\ ~Requested'
      BY <1>1, <1>2, <3>3, <3>5 DEF Shown, Asked, Requested
    <3>8. CapturesAreCurrent'
      <4>1. PICK D \in Captures : /\ NothingAbandoned => D.edition >= history.begun
                                  /\ \A i \in DOMAIN r.data : r.data[i] = D
        BY <1>3, <2>3
      <4>2. 1 \in DOMAIN r.data
        BY <1>3, <2>3
      <4>3. NothingAbandoned => history'.copied >= history.begun
        BY <1>5, <2>3, <4>1, <4>2
      <4>4. QED
        BY <1>1, <1>2, <1>6, <4>3 DEF CapturesAreCurrent, SameHistory
    <3>9. QED
      BY <1>2, <1>3, <1>6, <2>1, <3>6, <3>7, <3>8, UpdateKeeps DEF L
  <2>4. QED
    BY <1>8, <2>2, <2>3
<1>9. QED
  BY <1>7, <1>8

\* What an update does to the invariant and says of a task.
LEMMA UpdateStep ==
  ASSUME IInv, Update
  PROVE  /\ IInv'
         /\ NothingLeftOver /\ task.kind \in {"load", "import"} =>
              /\ Ends("completed") => task.goal \in history.done
              /\ Ends("failed") /\ Attached /\ history'.lapses \cap {"stale", "unapplied"} = {}
                   => task.goal \notin history.done
<1> DEFINE Verdicts ==
             NothingLeftOver /\ task.kind \in {"load", "import"} =>
               /\ Ends("completed") => task.goal \in history.done
               /\ Ends("failed") /\ Attached /\ history'.lapses \cap {"stale", "unapplied"} = {}
                    => task.goal \notin history.done
<1>1. /\ answers' = <<>> /\ UNCHANGED <<link, life, engine>>
      /\ \/ SaveAdvances(Polled) \/ LoadAdvances(Polled) \/ PrepareAdvances(Polled)
         \/ ImportAdvances(Polled) \/ CaptureAdvances(Polled) \/ CopyAdvances(Polled)
         \/ NothingAdvances(Polled)
  BY DEF Update, Polled
<1>2. Shown
  BY DEF IInv
<1>3. CASE SaveAdvances(Polled)
  <2>1. work.op = "save"
    BY <1>3 DEF SaveAdvances
  <2>2. Verdicts
    BY <1>2, <2>1 DEF Shown, Ends
  <2>3. QED
    BY <1>1, <1>3, <2>2, SaveKeeps
<1>4. CASE LoadAdvances(Polled) \/ ImportAnswered(Polled)
  <2>1. work.op \in {"load", "import"}
    BY <1>4 DEF LoadAdvances, ImportAnswered
  <2>2. IInv' /\ (NothingLeftOver =>
                    /\ Ends("completed") => work.goal \in history.done
                    /\ Ends("failed") /\ Attached /\ history'.lapses \cap {"stale", "unapplied"} = {}
                         => work.goal \notin history.done)
    BY <1>1, <1>4, LoadKeeps
  <2>3. Ends("completed") \/ Ends("failed") => work.goal = task.goal
    BY <1>2, <2>1 DEF Shown, Ends
  <2>4. QED
    BY <2>2, <2>3
<1>5. CASE PrepareAdvances(Polled)
  <2>1. work.op = "prepare"
    BY <1>5 DEF PrepareAdvances
  <2>2. /\ IInv' /\ (Ends("failed") /\ Attached /\ NothingLeftOver => work.goal \notin history.done)
        /\ ~Ends("completed")
    BY <1>1, <1>5, PrepareKeeps
  <2>3. Ends("failed") => work.goal = task.goal
    BY <1>2, <2>1 DEF Shown, Ends
  <2>4. QED
    BY <2>2, <2>3
<1>6. CASE CaptureAdvances(Polled)
  <2>1. IInv'
    BY <1>1, <1>6, CaptureCases, CaptureKeeps, DroppedKeeps
  <2>2. work.op = "capture"
    BY <1>6 DEF CaptureAdvances
  <2>3. QED
    BY <1>2, <2>1, <2>2 DEF Shown, Ends
<1>7. CASE CopyAnswered(Polled)
  <2>1. IInv'
    BY <1>1, <1>7, CopyKeeps
  <2>2. work.op = "copy"
    BY <1>7 DEF CopyAnswered
  <2>3. QED
    BY <1>2, <2>1, <2>2 DEF Shown, Ends
<1>8. CASE NothingAdvances(Polled)
  <2>1. IInv'
    BY <1>1, <1>8, NothingKeeps
  <2>2. work.op \in {"none", "askLoad", "askImport"}
    BY <1>8 DEF NothingAdvances
  <2>3. QED
    BY <1>2, <2>1, <2>2 DEF Shown, Ends
<1>9. CASE StaleEnds(Polled)
  <2>1. IInv' /\ "stale" \in history'.lapses
    BY <1>1, <1>9, StaleKeeps
  <2>2. ~Ends("completed")
    BY <1>2, <1>9, KeptParts DEF StaleEnds, Finished, Ends, Kept
  <2>3. QED
    BY <2>1, <2>2
<1>10. QED
  BY <1>1, <1>3, <1>4, <1>5, <1>6, <1>7, <1>8, <1>9, AnsweredCases

-----------------------------------------------------------------------------
(* The host.                                                               *)

Fits(m) == engine.staged[m.kind].gen = m.gen /\ Len(engine.staged[m.kind].chunks) = m.at

\* What a command makes of the engine, which is e afterwards, and its answer.
LeftAlone(e, kind, m) ==
  /\ e = engine
  /\ kind = "error" \/ (kind = "ack" /\ m.kind = "beside")
  /\ m.kind \in Kinds => m.op # "begin" /\ (m.op = "write" => ~Fits(m))
TakesCapture(e, kind, m) ==
  /\ m.kind = "capture" /\ m.op = "begin" /\ kind = "ready"
  /\ e.edition = engine.edition /\ e.staged = engine.staged
  /\ e.capture.gen = m.gen /\ e.capture.data = Captured
Reads(e, kind, m) ==
  m.kind = "capture" /\ m.op = "read" /\ kind = "chunk" /\ e = engine /\ engine.capture.gen = m.gen
Stages(e, kind, m, staged) ==
  /\ m.kind \in Kinds /\ kind = "ack"
  /\ e.edition = engine.edition /\ e.capture = engine.capture
  /\ e.staged = [engine.staged EXCEPT ![m.kind] = staged]
BeginsStaging(e, kind, m) == m.op = "begin" /\ Stages(e, kind, m, [gen |-> m.gen, chunks |-> <<>>])
Writes(e, kind, m) ==
  /\ m.op = "write" /\ Fits(m)
  /\ Stages(e, kind, m,
            [gen |-> m.gen, chunks |-> Append(engine.staged[m.kind].chunks, m.goal)])
Replaces(e, kind, m) ==
  /\ m.kind \in Kinds /\ m.op = "commit" /\ kind = "complete" /\ Whole(m)
  /\ StagedGoal(m.kind) \in Contents /\ e.edition = engine.edition + 1
  /\ e.capture.gen \in {engine.capture.gen, 0}
  /\ e.capture.gen # 0 => e.capture = engine.capture
  /\ e.staged = [engine.staged EXCEPT ![Kind(StagedGoal(m.kind))] = NoTransfer]
Outcome(e, kind, m) ==
  \/ LeftAlone(e, kind, m) \/ TakesCapture(e, kind, m) \/ Reads(e, kind, m)
  \/ BeginsStaging(e, kind, m) \/ Writes(e, kind, m) \/ Replaces(e, kind, m)

StagedTransfers == {NoTransfer} \union [gen : Gens, chunks : Seq(Contents)]

LEMMA EngineTypes ==
  ASSUME engine \in Engines
  PROVE  /\ engine.edition \in Nat /\ engine.session \in [Loops -> Takes]
         /\ engine.busy \in Loops \union {None}
         /\ engine.capture \in {NoTransfer} \union [gen : Gens, data : Captures]
         /\ engine.staged \in [Kinds -> StagedTransfers]
         /\ Captured \in Captures /\ Captured.edition = engine.edition
         /\ \A k \in Kinds : engine.staged[k].gen # 0 => engine.staged[k].chunks \in Seq(Contents)
<1>1. /\ engine.edition \in Nat /\ engine.session \in [Loops -> Takes]
      /\ engine.busy \in Loops \union {None}
      /\ engine.capture \in {NoTransfer} \union [gen : Gens, data : Captures]
      /\ engine.staged \in [Kinds -> StagedTransfers]
  BY DEF Engines, StagedTransfers
<1>2. Captured \in Captures /\ Captured.edition = engine.edition
  BY <1>1 DEF Captured, Captures
<1>3. \A t \in StagedTransfers : t.gen # 0 => t.chunks \in Seq(Contents)
  BY DEF StagedTransfers, NoTransfer
<1>4. QED
  BY <1>1, <1>2, <1>3

\* The types of messages.
LEMMA MessageTypes ==
  ASSUME NEW m \in Messages
  PROVE  /\ m.gen \in Nat /\ m.at \in 0 .. Chunks /\ m.goal \in Goals
         /\ \/ m.kind = "beside" /\ m.op \in {"ask", "tell"}
            \/ m.kind = "capture" /\ m.op \in {"begin", "read"} /\ m.gen \in Gens
            \/ /\ m.kind \in Kinds /\ m.op \in {"begin", "write", "commit"}
               /\ m.gen \in Gens /\ m.goal \in Contents
         /\ "beside" \notin Kinds /\ "capture" \notin Kinds
BY DEF Messages, Kinds

LEMMA StagedKept ==
  ASSUME engine \in Engines, NEW k \in Kinds, NEW staged \in StagedTransfers
  PROVE  /\ [engine EXCEPT !.staged[k] = staged] \in Engines
         /\ [engine EXCEPT !.staged[k] = staged].edition = engine.edition
         /\ [engine EXCEPT !.staged[k] = staged].capture = engine.capture
         /\ [engine EXCEPT !.staged[k] = staged].staged = [engine.staged EXCEPT ![k] = staged]
<1> DEFINE f == [engine.staged EXCEPT ![k] = staged]
<1>1. f \in [Kinds -> StagedTransfers]
  BY EngineTypes
<1>2. [engine EXCEPT !.staged[k] = staged] = [engine EXCEPT !.staged = f]
  BY DEF Engines
<1> HIDE DEF f
<1>3. QED
  BY <1>1, <1>2 DEF Engines, StagedTransfers, f

LEMMA CommittedFacts ==
  ASSUME engine \in Engines, NEW goal \in Contents
  PROVE  /\ Committed(goal) \in Engines /\ Committed(goal).edition = engine.edition + 1
         /\ Committed(goal).capture.gen \in {engine.capture.gen, 0}
         /\ Committed(goal).capture.gen # 0 => Committed(goal).capture = engine.capture
         /\ Committed(goal).staged = [engine.staged EXCEPT ![Kind(goal)] = NoTransfer]
<1> DEFINE f == [engine.staged EXCEPT ![Kind(goal)] = NoTransfer]
           e == Committed(goal)
<1>1. /\ Kind(goal) \in Kinds /\ NoTransfer \in StagedTransfers /\ NoTransfer.gen = 0
      /\ goal.take \in Takes
  BY KindNames DEF StagedTransfers, NoTransfer, Contents
<1>2. f \in [Kinds -> StagedTransfers]
  BY <1>1, EngineTypes
<1>3. engine.edition + 1 \in Nat
  BY EngineTypes
<1>4. CASE Kind(goal) = "session"
  <2> DEFINE g == [l \in Loops |-> goal.take]
  <2>1. g \in [Loops -> Takes]
    BY <1>1
  <2>2. e = [engine EXCEPT !.edition = engine.edition + 1, !.session = g, !.busy = None,
                           !.capture = NoTransfer, !.staged = f]
    BY <1>4 DEF Committed, Engines
  <2> HIDE DEF f, g, e
  <2>3. /\ e \in Engines /\ e.edition = engine.edition + 1 /\ e.capture = NoTransfer
        /\ e.staged = f
    BY <1>2, <1>3, <2>1, <2>2 DEF Engines, StagedTransfers
  <2>4. QED
    BY <1>1, <2>3 DEF e, f
<1>5. CASE Kind(goal) # "session"
  <2> DEFINE g == [engine.session EXCEPT ![goal.loop] = goal.take]
  <2>1. Kind(goal) = "loop" /\ goal.loop \in Loops
    BY <1>5 DEF Kind, Contents
  <2>2. g \in [Loops -> Takes]
    BY <1>1, <2>1, EngineTypes
  <2>3. e = [engine EXCEPT !.edition = engine.edition + 1, !.session = g, !.staged = f]
    BY <1>5, <2>1 DEF Committed, Engines
  <2> HIDE DEF f, g, e
  <2>4. /\ e \in Engines /\ e.edition = engine.edition + 1 /\ e.capture = engine.capture
        /\ e.staged = f
    BY <1>2, <1>3, <2>2, <2>3 DEF Engines, StagedTransfers
  <2>5. QED
    BY <1>1, <2>4 DEF e, f
<1>6. QED
  BY <1>4, <1>5

LEMMA HandledCases ==
  ASSUME engine \in Engines, NEW m \in Messages, NEW refuses \in BOOLEAN
  PROVE  /\ Handled(m, refuses).engine \in Engines
         /\ Outcome(Handled(m, refuses).engine, Handled(m, refuses).kind, m)
<1> DEFINE h == Handled(m, refuses)
<1>1. CASE m.kind = "beside"
  <2>1. h = [engine |-> engine, kind |-> IF m.op = "ask" THEN "error" ELSE "ack"]
    BY <1>1, MessageTypes DEF Handled
  <2> HIDE DEF h
  <2>2. QED
    BY <1>1, <2>1, MessageTypes DEF h, Outcome, LeftAlone
<1>2. CASE m.kind = "capture" /\ m.op = "begin"
  <2>1. h = IF engine.busy # None THEN [engine |-> engine, kind |-> "error"]
            ELSE [engine |-> [engine EXCEPT !.capture = [gen |-> m.gen, data |-> Captured]],
                  kind |-> "ready"]
    BY <1>2, MessageTypes DEF Handled
  <2> DEFINE cap == [gen |-> m.gen, data |-> Captured]
             e == [engine EXCEPT !.capture = cap]
  <2>2. cap \in [gen : Gens, data : Captures] /\ cap.gen = m.gen /\ cap.data = Captured
    BY <1>2, EngineTypes, MessageTypes
  <2> HIDE DEF cap
  <2>3. /\ e \in Engines /\ e.capture = cap /\ e.edition = engine.edition
        /\ e.staged = engine.staged
    BY <2>2 DEF Engines
  <2> HIDE DEF e
  <2>4. \/ h.engine = engine /\ h.kind = "error"
        \/ h.engine = e /\ h.kind = "ready"
    BY <2>1 DEF e, cap
  <2> HIDE DEF h
  <2>5. QED
    BY <1>2, <2>2, <2>3, <2>4, MessageTypes DEF h, Outcome, LeftAlone, TakesCapture
<1>3. CASE m.kind = "capture" /\ m.op = "read"
  <2>1. h = [engine |-> engine,
             kind |-> IF engine.capture.gen = m.gen THEN "chunk" ELSE "error"]
    BY <1>3 DEF Handled
  <2> HIDE DEF h
  <2>2. QED
    BY <1>3, <2>1, MessageTypes DEF h, Outcome, LeftAlone, Reads
<1>4. CASE m.kind \in Kinds /\ m.op = "begin"
  <2> DEFINE staged == [gen |-> m.gen, chunks |-> <<>>]
             e == [engine EXCEPT !.staged[m.kind] = staged]
  <2>1. h = [engine |-> e, kind |-> "ack"]
    BY <1>4, MessageTypes DEF Handled
  <2>2. staged \in StagedTransfers
    <3>1. <<>> \in Seq(Contents) /\ m.gen \in Gens
      BY <1>4, EmptySeq, MessageTypes
    <3>2. QED
      BY <3>1 DEF StagedTransfers
  <2> HIDE DEF staged
  <2>3. /\ e \in Engines /\ e.edition = engine.edition /\ e.capture = engine.capture
        /\ e.staged = [engine.staged EXCEPT ![m.kind] = staged]
    BY <1>4, <2>2, StagedKept
  <2> HIDE DEF e
  <2>4. h.engine = e /\ h.kind = "ack"
    BY <2>1
  <2> HIDE DEF h
  <2>5. QED
    BY <1>4, <2>3, <2>4 DEF h, Outcome, BeginsStaging, Stages, staged
<1>5. CASE m.kind \in Kinds /\ m.op = "write"
  <2> DEFINE chunks == Append(engine.staged[m.kind].chunks, m.goal)
             staged == [gen |-> m.gen, chunks |-> chunks]
             e == [engine EXCEPT !.staged[m.kind] = staged]
             f == [engine EXCEPT !.staged[m.kind].chunks = Append(@, m.goal)]
  <2>1. h = IF Fits(m) THEN [engine |-> f, kind |-> "ack"]
            ELSE [engine |-> engine, kind |-> "error"]
    BY <1>5, MessageTypes DEF Handled, Fits
  <2>2. CASE ~Fits(m)
    <3>1. h.engine = engine /\ h.kind = "error"
      BY <2>1, <2>2
    <3> HIDE DEF h
    <3>2. QED
      BY <1>5, <2>2, <3>1 DEF h, Outcome, LeftAlone
  <2>3. CASE Fits(m)
    <3>1. /\ engine.staged[m.kind] \in [gen : Gens, chunks : Seq(Contents)]
          /\ m.gen \in Gens /\ m.goal \in Contents
      <4>1. engine.staged[m.kind] \in StagedTransfers /\ engine.staged[m.kind].gen = m.gen
        BY <1>5, <2>3, EngineTypes DEF Fits
      <4>2. m.gen \in Gens /\ m.goal \in Contents
        BY <1>5, MessageTypes
      <4>3. QED
        BY <4>1, <4>2 DEF StagedTransfers, NoTransfer, Gens
    <3>2. f = e
      <4>1. [engine.staged[m.kind] EXCEPT !.chunks = chunks] = staged
        <5>1. engine.staged[m.kind].gen = m.gen
          BY <2>3 DEF Fits
        <5>2. \A c : \A x \in [gen : Gens, chunks : Seq(Contents)] :
                [x EXCEPT !.chunks = c] = [gen |-> x.gen, chunks |-> c]
          OBVIOUS
        <5> HIDE DEF chunks
        <5>3. [engine.staged[m.kind] EXCEPT !.chunks = chunks]
                = [gen |-> engine.staged[m.kind].gen, chunks |-> chunks]
          BY <3>1, <5>2
        <5>4. QED
          BY <5>1, <5>3
      <4>2. f = [engine EXCEPT !.staged[m.kind] =
                   [engine.staged[m.kind] EXCEPT !.chunks = chunks]]
        OBVIOUS
      <4>3. QED
        BY <4>1, <4>2
    <3>3. chunks \in Seq(Contents)
      BY <3>1
    <3> HIDE DEF chunks
    <3>4. staged \in StagedTransfers
      BY <3>1, <3>3 DEF StagedTransfers
    <3> HIDE DEF staged, f
    <3>5. /\ e \in Engines /\ e.edition = engine.edition /\ e.capture = engine.capture
          /\ e.staged = [engine.staged EXCEPT ![m.kind] = staged]
      BY <1>5, <3>4, StagedKept
    <3> HIDE DEF e
    <3>6. h.engine = e /\ h.kind = "ack"
      BY <2>1, <2>3, <3>2
    <3> HIDE DEF h
    <3>7. QED
      BY <1>5, <2>3, <3>5, <3>6 DEF h, Outcome, Writes, Stages, staged, chunks
  <2>4. QED
    BY <2>2, <2>3
<1>6. CASE m.kind \in Kinds /\ m.op = "commit"
  <2> DEFINE goal == StagedGoal(m.kind)
  <2>1. h = CommitHandled(m, refuses)
    BY <1>6, MessageTypes DEF Handled
  <2>2. CASE h.engine = engine /\ h.kind = "error"
    <3> HIDE DEF h
    <3>1. QED
      BY <1>6, <2>2 DEF h, Outcome, LeftAlone
  <2>3. CASE Whole(m) /\ h.engine = Committed(goal) /\ h.kind = "complete"
    <3>1. goal \in Contents
      <4>1. m.gen # 0
        BY <1>6, MessageTypes DEF Gens
      <4>2. engine.staged[m.kind].chunks \in Seq(Contents)
        BY <1>6, <2>3, <4>1, EngineTypes DEF Whole
      <4>3. Len(engine.staged[m.kind].chunks) >= 1
        BY <2>3, Sizes DEF Whole
      <4>4. QED
        BY <4>2, <4>3 DEF StagedGoal
    <3> HIDE DEF h, goal
    <3>2. /\ Committed(goal) \in Engines /\ Committed(goal).edition = engine.edition + 1
          /\ Committed(goal).capture.gen \in {engine.capture.gen, 0}
          /\ Committed(goal).capture.gen # 0 => Committed(goal).capture = engine.capture
          /\ Committed(goal).staged = [engine.staged EXCEPT ![Kind(goal)] = NoTransfer]
      BY <3>1, CommittedFacts
    <3>3. QED
      BY <1>6, <2>3, <3>1, <3>2 DEF h, Outcome, Replaces, goal
  <2>4. QED
    BY <2>1, <2>2, <2>3 DEF CommitHandled, Takeable
<1>7. QED
  BY <1>1, <1>2, <1>3, <1>4, <1>5, <1>6, MessageTypes

\* The host serves the command m with the answer a.
Serves(m, a) ==
  /\ toHost # <<>> /\ m = Head(toHost) /\ m \in Messages /\ a \in Answers /\ a.msg = m
  /\ toHost' = Tail(toHost) /\ answers' = Append(answers, a)
  /\ engine' \in Engines /\ Outcome(engine', a.kind, m)
  /\ a.kind = "chunk" => a.data = engine.capture.data
  /\ history'.begun = history.begun /\ history'.copied = history.copied
  /\ NothingAbandoned' = NothingAbandoned /\ NothingLeftOver' = NothingLeftOver
  /\ history'.done = IF engine'.edition # engine.edition
                     THEN history.done \union {StagedGoal(m.kind)} ELSE history.done
  /\ Kept' /\ UNCHANGED <<task, work, client, link, life, file>>

LEMMA ServesExists ==
  ASSUME TypeOK, HostServes
  PROVE  \E m, a : Serves(m, a)
<1>0. PICK refuses \in BOOLEAN :
        LET m == Head(toHost)
            handled == Handled(m, refuses)
        IN /\ engine' = handled.engine
           /\ answers' = Append(answers, Answer(m, handled.kind,
                           IF handled.kind = "chunk" THEN engine.capture.data ELSE NoData))
           /\ history' = [history EXCEPT !.done =
                IF handled.engine.edition # engine.edition
                THEN @ \union {StagedGoal(m.kind)} ELSE @]
  BY DEF HostServes
<1> DEFINE m == Head(toHost)
           h == Handled(m, refuses)
           data == IF h.kind = "chunk" THEN engine.capture.data ELSE NoData
           a == Answer(m, h.kind, data)
           done == IF h.engine.edition # engine.edition
                   THEN history.done \union {StagedGoal(m.kind)} ELSE history.done
<1>1. toHost \in Seq(Messages) /\ toHost # <<>> /\ engine \in Engines
  BY DEF TypeOK, HostServes
<1>2. m \in Messages
  BY <1>1, Popped
<1>3. /\ engine' = h.engine /\ answers' = Append(answers, a) /\ toHost' = Tail(toHost)
      /\ history' = [history EXCEPT !.done = done]
      /\ UNCHANGED <<task, work, client, link, life, file>>
  BY <1>0 DEF HostServes
<1> HIDE DEF m
<1>4. h.engine \in Engines /\ Outcome(h.engine, h.kind, m)
  BY <1>1, <1>2, HandledCases
<1> HIDE DEF h
<1>5. a.msg = m /\ a.kind = h.kind /\ a.data = data
  BY DEF Answer
<1>6. data \in Captures
  <2>1. NoData \in Captures
    BY DEF NoData, Captures, Takes
  <2>2. h.kind = "chunk" => m.kind = "capture" /\ engine.capture.gen = m.gen
    BY <1>4 DEF Outcome, LeftAlone, TakesCapture, Reads, BeginsStaging, Stages, Writes, Replaces
  <2>3. engine.capture \in {NoTransfer} \union [gen : Gens, data : Captures] /\ NoTransfer.gen = 0
    BY <1>1, EngineTypes DEF NoTransfer
  <2>4. m.kind = "capture" => m.gen # 0
    BY <1>2, MessageTypes DEF Gens, Kinds
  <2>5. h.kind = "chunk" => engine.capture.data \in Captures
    BY <2>2, <2>3, <2>4
  <2>6. QED
    BY <2>1, <2>5
<1>7. /\ h.kind \in {"ack", "error", "ready", "chunk", "complete"}
      /\ h.kind \in {"ready", "chunk"} => m.kind = "capture"
      /\ h.kind = "complete" => m.kind \in Kinds
  BY <1>4 DEF Outcome, LeftAlone, TakesCapture, Reads, BeginsStaging, Stages, Writes, Replaces
<1> HIDE DEF data
<1>8. a \in Answers
  BY <1>2, <1>6, <1>7 DEF Answer, Answers
<1>9. done \in SUBSET Goals
  <2>1. history.done \in SUBSET Goals
    BY DEF TypeOK
  <2>2. h.engine.edition # engine.edition => StagedGoal(m.kind) \in Contents
    BY <1>4 DEF Outcome, LeftAlone, TakesCapture, Reads, BeginsStaging, Stages, Writes, Replaces
  <2>3. Contents \subseteq Goals
    BY DEF Contents, Goals
  <2>4. QED
    BY <2>1, <2>2, <2>3
<1> HIDE DEF done, a
<1>10. /\ history'.begun = history.begun /\ history'.copied = history.copied
       /\ history'.lapses = history.lapses /\ history'.done = done
       /\ Kept'
  BY <1>3, <1>9 DEF TypeOK, Kept
<1>11. NothingAbandoned' = NothingAbandoned /\ NothingLeftOver' = NothingLeftOver
  BY <1>10 DEF NothingAbandoned, NothingLeftOver
<1>12. Serves(m, a)
  BY <1>1, <1>2, <1>3, <1>4, <1>5, <1>8, <1>10, <1>11 DEF Serves, m, done, data
<1>13. QED
  BY <1>12

LEMMA ServedParts ==
  ASSUME TypeOK, NEW m, NEW a, Serves(m, a)
  PROVE  /\ 1 \in DOMAIN toHost /\ toHost[1] = m
         /\ \A i \in DOMAIN toHost' :
              i \in Nat /\ i + 1 \in DOMAIN toHost /\ toHost'[i] = toHost[i + 1] /\ i + 1 # 1
         /\ \A i \in DOMAIN toHost : i \in Nat /\ i >= 1
         /\ \A i \in DOMAIN toHost :
              i # 1 => i - 1 \in DOMAIN toHost' /\ toHost'[i - 1] = toHost[i]
         /\ Len(answers) + 1 \in DOMAIN answers' /\ answers'[Len(answers) + 1] = a
         /\ \A i \in DOMAIN answers' :
              i = Len(answers) + 1 \/ (i \in DOMAIN answers /\ answers'[i] = answers[i])
         /\ Unheard(0) = DOMAIN answers /\ Unheard(0)' = DOMAIN answers'
         /\ toHost' \in Seq(Messages) /\ Len(toHost') <= Capacity /\ answers' \in Seq(Answers)
<1>1. /\ toHost \in Seq(Messages) /\ toHost # <<>> /\ answers \in Seq(Answers) /\ a \in Answers
      /\ toHost' = Tail(toHost) /\ answers' = Append(answers, a) /\ m = Head(toHost)
      /\ Len(toHost) <= Capacity
  BY DEF TypeOK, Serves
<1>2. /\ 1 \in DOMAIN toHost /\ toHost[1] = m
      /\ toHost' \in Seq(Messages) /\ Len(toHost') = Len(toHost) - 1
      /\ \A i \in DOMAIN toHost' : i + 1 \in DOMAIN toHost /\ toHost'[i] = toHost[i + 1]
      /\ \A i \in DOMAIN toHost :
           i # 1 => i - 1 \in DOMAIN toHost' /\ toHost'[i - 1] = toHost[i]
  BY <1>1, Popped
<1>3. /\ answers' \in Seq(Answers) /\ Len(answers') = Len(answers) + 1
      /\ Extends(answers', answers) /\ Added(answers', answers) = {Len(answers) + 1}
      /\ answers'[Len(answers) + 1] = a
  BY <1>1, Appended
<1>4. \A i \in DOMAIN answers' :
        i = Len(answers) + 1 \/ (i \in DOMAIN answers /\ answers'[i] = answers[i])
  BY <1>1, <1>3, Parts
<1>5. Len(answers) + 1 \in DOMAIN answers'
  BY <1>3 DEF Added
<1>6. \A i \in DOMAIN toHost' : i \in Nat /\ i >= 1
  BY <1>2, Domains
<1>7. \A i \in DOMAIN toHost' : i + 1 # 1
  BY <1>6
<1>8. Len(toHost') <= Capacity
  <2>1. Len(toHost) \in Nat /\ Len(toHost') = Len(toHost) - 1
    BY <1>1, <1>2, Domains
  <2>2. QED
    BY <1>1, <2>1, Sizes
<1>9. Unheard(0) = DOMAIN answers
  <2>1. \A i \in DOMAIN answers : i \in Nat /\ i >= 1
    BY <1>1, Domains
  <2>2. QED
    BY <2>1 DEF Unheard
<1>10. Unheard(0)' = DOMAIN answers'
  <2>1. \A i \in DOMAIN answers' : i \in Nat /\ i >= 1
    BY <1>3, Domains
  <2>2. QED
    BY <2>1 DEF Unheard
<1>11. \A i \in DOMAIN toHost : i \in Nat /\ i >= 1
  BY <1>1, Domains
<1>12. QED
  BY <1>2, <1>3, <1>4, <1>5, <1>6, <1>7, <1>8, <1>9, <1>10, <1>11

LEMMA ServedBasic ==
  ASSUME IInv, NEW m, NEW a, Serves(m, a)
  PROVE  UsedOnce(client, toHost)' /\ Ended(client)' /\ Silent(toHost)' /\ TypeOK' /\ Attached
<1>1. TypeOK /\ UsedOnce(client, toHost) /\ Ended(client) /\ Silent(toHost)
  BY DEF IInv, Talking
<1>2. /\ client' = client /\ link' = link /\ life' = life /\ Outcome(engine', a.kind, m)
      /\ engine' \in Engines /\ Kept' /\ a.msg = m /\ m \in Messages
  BY DEF Serves
<1>3. /\ 1 \in DOMAIN toHost /\ toHost[1] = m
      /\ \A i \in DOMAIN toHost' : i + 1 \in DOMAIN toHost /\ toHost'[i] = toHost[i + 1]
      /\ \A i \in DOMAIN answers' :
           answers'[i] = a \/ (i \in DOMAIN answers /\ answers'[i] = answers[i])
      /\ toHost' \in Seq(Messages) /\ Len(toHost') <= Capacity /\ answers' \in Seq(Answers)
  BY <1>1, ServedParts
<1>4. m.gen < client.nextGen
  BY <1>1, <1>3 DEF UsedOnce
<1>5. 0 < client.nextGen
  BY <1>1 DEF TypeOK, Clients, Gens
<1>6. /\ engine'.capture.gen \in {engine.capture.gen, m.gen, 0}
      /\ \A k \in Kinds : engine'.staged[k].gen \in {engine.staged[k].gen, m.gen, 0}
  <2>1. engine.staged \in [Kinds -> StagedTransfers] /\ NoTransfer.gen = 0
    BY <1>1, EngineTypes DEF TypeOK, NoTransfer
  <2>2. CASE LeftAlone(engine', a.kind, m) \/ Reads(engine', a.kind, m)
    BY <2>2 DEF LeftAlone, Reads
  <2>3. CASE TakesCapture(engine', a.kind, m)
    BY <2>3 DEF TakesCapture
  <2>4. CASE BeginsStaging(engine', a.kind, m)
    BY <2>1, <2>4 DEF BeginsStaging, Stages
  <2>5. CASE Writes(engine', a.kind, m)
    BY <2>1, <2>5 DEF Writes, Stages
  <2>6. CASE Replaces(engine', a.kind, m)
    BY <2>1, <2>6 DEF Replaces
  <2>7. QED
    BY <1>2, <2>2, <2>3, <2>4, <2>5, <2>6 DEF Outcome
<1>7. UsedOnce(client, toHost)'
  <2>1. \A k \in Kinds : engine'.staged[k].gen < client.nextGen
    BY <1>1, <1>4, <1>5, <1>6 DEF UsedOnce
  <2>2. engine'.capture.gen < client.nextGen
    BY <1>1, <1>4, <1>5, <1>6 DEF UsedOnce
  <2>3. QED
    BY <1>1, <1>2, <1>3, <1>4, <2>1, <2>2 DEF UsedOnce
<1>8. Ended(client)'
  BY <1>1, <1>2 DEF Ended
<1>9. Attached
  BY <1>1, <1>3, Domains DEF Silent, TypeOK
<1>10. Silent(toHost)'
  BY <1>2, <1>9 DEF Silent, Attached
<1>11. TypeOK'
  BY <1>1, <1>2, <1>3 DEF TypeOK, Kept
<1>12. QED
  BY <1>7, <1>8, <1>9, <1>10, <1>11

LEMMA ServedCapturing ==
  ASSUME IInv, NEW m, NEW a, Serves(m, a)
  PROVE  Capturing(client, toHost, 0)'
<1> DEFINE g == client.capture.gen
           Here(x) == Of(x, "capture", g)
<1>1. /\ TypeOK /\ Counted(client) /\ Beginning(client, toHost, 0) /\ OneCapture(client, 0)
      /\ history.begun <= engine.edition
  BY DEF IInv, Talking, Capturing
<1>2. /\ client' = client /\ life' = life /\ Outcome(engine', a.kind, m)
      /\ a.msg = m /\ m \in Messages
      /\ a.kind = "chunk" => a.data = engine.capture.data
      /\ history'.begun = history.begun /\ NothingAbandoned' = NothingAbandoned
  BY DEF Serves
<1>3. /\ 1 \in DOMAIN toHost /\ toHost[1] = m
      /\ \A i \in DOMAIN toHost' :
           i \in Nat /\ i + 1 \in DOMAIN toHost /\ toHost'[i] = toHost[i + 1] /\ i + 1 # 1
      /\ \A i \in DOMAIN answers' :
           \/ i = Len(answers) + 1 /\ answers'[i] = a
           \/ i \in DOMAIN answers /\ answers'[i] = answers[i]
      /\ Unheard(0) = DOMAIN answers /\ Unheard(0)' = DOMAIN answers'
  BY <1>1, ServedParts
<1>4. Counted(client)'
  BY <1>1, <1>2 DEF Counted
<1>5. CASE g = 0 \/ client.seen # life
  <2>1. (client.capture.gen = 0 \/ client.seen # life)'
    BY <1>2, <1>5
  <2>2. QED
    BY <1>4, <2>1 DEF Capturing, Beginning, OneCapture
<1>6. CASE g # 0 /\ client.seen = life
  <2>1. /\ \A i \in DOMAIN toHost : Here(toHost[i]) /\ toHost[i].op = "begin" =>
             /\ ~client.capture.known /\ engine.capture.gen # g
             /\ \A j \in DOMAIN toHost : j # i => ~Here(toHost[j])
             /\ \A j \in DOMAIN answers : ~Here(answers[j].msg)
        /\ \A i \in DOMAIN toHost : Here(toHost[i]) /\ toHost[i].op # "begin"
               => client.capture.known
        /\ \A i \in DOMAIN answers : Here(answers[i].msg) /\ answers[i].kind = "ready" =>
             /\ ~client.capture.known
             /\ \A j \in DOMAIN toHost : ~Here(toHost[j])
             /\ \A j \in DOMAIN answers : j # i => ~Here(answers[j].msg)
        /\ \A i \in DOMAIN answers :
             Here(answers[i].msg) /\ answers[i].kind = "chunk" => client.capture.known
    BY <1>1, <1>3, <1>6 DEF Beginning
  <2>2. PICK D \in Captures : Gathered(client, 0, D)
    BY <1>1, <1>6 DEF OneCapture
  <2>3. /\ NothingAbandoned => D.edition >= history.begun
        /\ \A i \in DOMAIN client.capture.got : client.capture.got[i] = D
        /\ \A i \in DOMAIN answers :
             Here(answers[i].msg) /\ answers[i].kind = "chunk" => answers[i].data = D
        /\ engine.capture.gen = g => engine.capture.data = D
    BY <1>3, <2>2 DEF Gathered
  \* What is left of the commands, and the answers that were there, are as before.
  <2>4. Here(m) /\ m.op = "begin" =>
          /\ ~client.capture.known /\ engine.capture.gen # g
          /\ \A i \in DOMAIN toHost' : ~Here(toHost'[i])
          /\ \A i \in DOMAIN answers : ~Here(answers[i].msg)
    BY <1>3, <2>1
  <2>5. Here(m) /\ m.op # "begin" => client.capture.known
    BY <1>3, <2>1
  <2> HIDE DEF Here
  \* The capture of the engine, if it is this one.
  <2>6. engine'.capture.gen = g =>
          \/ engine.capture.gen = g /\ engine'.capture = engine.capture
          \/ Here(m) /\ m.op = "begin" /\ engine'.capture.data = Captured
    BY <1>2, <1>6 DEF Here, Of, Outcome, LeftAlone, TakesCapture, Reads, BeginsStaging, Stages,
                      Writes, Replaces
  <2>7. /\ a.kind = "ready" /\ Here(m) => m.op = "begin"
        /\ a.kind = "chunk" /\ Here(m) => m.op # "begin" /\ engine.capture.gen = g
    BY <1>2 DEF Here, Of, Outcome, LeftAlone, TakesCapture, Reads, BeginsStaging, Stages,
                Writes, Replaces
  <2>8. \A i \in DOMAIN toHost' : Here(toHost'[i]) /\ toHost'[i].op = "begin" =>
          /\ ~client.capture.known /\ engine'.capture.gen # g
          /\ \A j \in DOMAIN toHost' : j # i => ~Here(toHost'[j])
          /\ \A j \in DOMAIN answers' : ~Here(answers'[j].msg)
    <3> SUFFICES ASSUME NEW i \in DOMAIN toHost', Here(toHost'[i]), toHost'[i].op = "begin"
                 PROVE  /\ ~client.capture.known /\ engine'.capture.gen # g
                        /\ \A j \in DOMAIN toHost' : j # i => ~Here(toHost'[j])
                        /\ \A j \in DOMAIN answers' : ~Here(answers'[j].msg)
      OBVIOUS
    <3>1. /\ i + 1 \in DOMAIN toHost /\ toHost'[i] = toHost[i + 1] /\ i + 1 # 1 /\ i \in Nat
      BY <1>3
    <3>2. /\ ~client.capture.known /\ engine.capture.gen # g
          /\ \A j \in DOMAIN toHost : j # i + 1 => ~Here(toHost[j])
          /\ \A j \in DOMAIN answers : ~Here(answers[j].msg)
      BY <2>1, <3>1
    <3>3. ~Here(m)
      BY <1>3, <3>1, <3>2
    <3>4. \A j \in DOMAIN toHost' : j # i => ~Here(toHost'[j])
      <4>1. ASSUME NEW j \in DOMAIN toHost', j # i
            PROVE  ~Here(toHost'[j])
        <5>1. j \in Nat /\ j + 1 \in DOMAIN toHost /\ toHost'[j] = toHost[j + 1]
          BY <1>3
        <5>2. j + 1 # i + 1
          BY <3>1, <4>1, <5>1
        <5>3. QED
          BY <3>2, <5>1, <5>2
      <4>2. QED
        BY <4>1
    <3>5. QED
      BY <1>2, <1>3, <2>6, <3>2, <3>3, <3>4
  <2>9. \A i \in DOMAIN toHost' : Here(toHost'[i]) /\ toHost'[i].op # "begin"
            => client.capture.known
    BY <1>3, <2>1
  <2>10. \A i \in DOMAIN answers' : Here(answers'[i].msg) /\ answers'[i].kind = "ready" =>
           /\ ~client.capture.known
           /\ \A j \in DOMAIN toHost' : ~Here(toHost'[j])
           /\ \A j \in DOMAIN answers' : j # i => ~Here(answers'[j].msg)
    <3> SUFFICES ASSUME NEW i \in DOMAIN answers', Here(answers'[i].msg), answers'[i].kind = "ready"
                 PROVE  /\ ~client.capture.known
                        /\ \A j \in DOMAIN toHost' : ~Here(toHost'[j])
                        /\ \A j \in DOMAIN answers' : j # i => ~Here(answers'[j].msg)
      OBVIOUS
    <3>1. CASE i = Len(answers) + 1 /\ answers'[i] = a
      <4>1. Here(m) /\ m.op = "begin"
        BY <1>2, <2>7, <3>1
      <4>2. QED
        BY <1>3, <2>4, <3>1, <4>1
    <3>2. CASE i \in DOMAIN answers /\ answers'[i] = answers[i]
      <4>1. /\ ~client.capture.known
            /\ \A j \in DOMAIN toHost : ~Here(toHost[j])
            /\ \A j \in DOMAIN answers : j # i => ~Here(answers[j].msg)
        BY <2>1, <3>2
      <4>2. ~Here(m)
        BY <1>3, <4>1
      <4>3. QED
        BY <1>2, <1>3, <4>1, <4>2
    <3>3. QED
      BY <1>3, <3>1, <3>2
  <2>11. \A i \in DOMAIN answers' :
           Here(answers'[i].msg) /\ answers'[i].kind = "chunk" => client.capture.known
    BY <1>2, <1>3, <2>1, <2>5, <2>7
  <2>12. Beginning(client, toHost, 0)'
    BY <1>2, <1>3, <2>8, <2>9, <2>10, <2>11 DEF Beginning, Here
  <2>13. \E E \in Captures : Gathered(client, 0, E)'
    <3>1. CASE Here(m) /\ m.op = "begin"
      <4>1. client.capture.got = <<>>
        BY <1>1, <1>6, <2>4, <3>1 DEF Counted
      <4>2. /\ engine'.capture.gen = g => engine'.capture.data = Captured
            /\ Captured \in Captures /\ Captured.edition = engine.edition
        BY <1>1, <2>4, <2>6, <3>1, EngineTypes DEF TypeOK
      <4>3. \A i \in DOMAIN answers' : ~(Here(answers'[i].msg) /\ answers'[i].kind = "chunk")
        BY <1>2, <1>3, <2>4, <2>7, <3>1
      <4>4. QED
        BY <1>1, <1>2, <1>3, <4>1, <4>2, <4>3 DEF Gathered, Here
    <3>2. CASE ~(Here(m) /\ m.op = "begin")
      <4>1. engine'.capture.gen = g => engine'.capture.data = D
        BY <2>3, <2>6, <3>2
      <4>2. \A i \in DOMAIN answers' :
              Here(answers'[i].msg) /\ answers'[i].kind = "chunk" => answers'[i].data = D
        BY <1>2, <1>3, <2>3, <2>7
      <4>3. Gathered(client, 0, D)'
        BY <1>2, <1>3, <2>3, <4>1, <4>2 DEF Gathered, Here
      <4>4. QED
        BY <4>3
    <3>3. QED
      BY <3>1, <3>2
  <2>14. OneCapture(client, 0)'
    BY <2>13 DEF OneCapture
  <2>15. QED
    BY <1>4, <2>12, <2>14 DEF Capturing
<1>7. QED
  BY <1>5, <1>6

\* What is known of a kind of replacement, told of every command and answer.
LEMMA TransferringParts ==
  ASSUME TypeOK, NEW k \in Kinds, Transferring(client, toHost, 0, k)
  PROVE  LET r == client.replace[k]
         IN /\ \A i \in DOMAIN toHost : toHost[i].kind = k =>
                 /\ r.gen # 0 /\ toHost[i].gen = r.gen /\ toHost[i].goal = r.goal
                 /\ toHost[i].op \in {"begin", "write", "commit"} /\ toHost[i].at \in Nat
                 /\ toHost[i].op = "begin" => engine.staged[k].gen # r.gen
                 /\ toHost[i].op = "write" => toHost[i].at < r.next
                 /\ toHost[i].op = "commit" => r.sent /\ toHost[i].at = Chunks
            /\ \A i, j \in DOMAIN toHost :
                 toHost[i].kind = k /\ toHost[j].kind = k /\ i < j
                   => Place(toHost[i]) < Place(toHost[j])
            /\ \A i \in DOMAIN toHost : toHost[i].kind = k =>
                 /\ Place(toHost[i]) \in Nat
                 /\ toHost[i].op # "commit" => Place(toHost[i]) <= r.next
                 /\ toHost[i].op = "commit" => Place(toHost[i]) = Chunks + 1
            /\ r.gen # 0 => r.next \in Nat /\ r.next <= Chunks /\ (r.sent => r.next = Chunks)
<1>1. /\ toHost \in Seq(Messages) /\ client.replace[k] \in ReplaceTransfers
      /\ Owned(client, toHost, k) /\ InOrder(toHost, k) /\ Sound(client, k)
  BY DEF TypeOK, Clients, Transferring
<1>2. \A i \in DOMAIN toHost : toHost[i].kind = k =>
        /\ toHost[i].op \in {"begin", "write", "commit"} /\ toHost[i].at \in Nat
        /\ Place(toHost[i]) \in Nat
        /\ toHost[i].op # "commit" => Place(toHost[i]) <= client.replace[k].next
        /\ toHost[i].op = "commit" => Place(toHost[i]) = Chunks + 1
  BY <1>1, OwnedPlaces
<1>3. client.replace[k].gen # 0 =>
        /\ client.replace[k].next \in Nat /\ client.replace[k].next <= Chunks
        /\ client.replace[k].sent => client.replace[k].next = Chunks
  BY <1>1, ReplaceTypes DEF Sound
<1>4. QED
  BY <1>1, <1>2, <1>3 DEF Owned, InOrder

LEMMA ServedOther ==
  ASSUME TypeOK, NEW m, NEW a, Serves(m, a), NEW k \in Kinds, m.kind # k,
         engine'.staged[k] = engine.staged[k], Transferring(client, toHost, 0, k)
  PROVE  Transferring(client, toHost, 0, k)'
<1>1. /\ client' = client /\ link' = link /\ a.msg = m /\ history.done \subseteq history'.done
      /\ Attached' = Attached
  BY DEF Serves, Attached
<1>2. /\ 1 \in DOMAIN toHost /\ toHost[1] = m
      /\ \A i \in DOMAIN toHost' :
           i \in Nat /\ i + 1 \in DOMAIN toHost /\ toHost'[i] = toHost[i + 1] /\ i + 1 # 1
      /\ \A i \in DOMAIN toHost : i \in Nat
      /\ \A i \in DOMAIN toHost : i # 1 => i - 1 \in DOMAIN toHost' /\ toHost'[i - 1] = toHost[i]
      /\ \A i \in DOMAIN answers' :
           \/ i = Len(answers) + 1 /\ answers'[i] = a
           \/ i \in DOMAIN answers /\ answers'[i] = answers[i]
      /\ Unheard(0) = DOMAIN answers /\ Unheard(0)' = DOMAIN answers'
  BY ServedParts
<1>3. Owned(client, toHost, k)'
  BY <1>1, <1>2 DEF Transferring, Owned
<1>4. InOrder(toHost, k)'
  <2>1. ASSUME NEW i \in DOMAIN toHost', NEW j \in DOMAIN toHost',
               toHost'[i].kind = k, toHost'[j].kind = k, i < j
        PROVE  Place(toHost'[i]) < Place(toHost'[j])
    <3>1. i + 1 \in DOMAIN toHost /\ j + 1 \in DOMAIN toHost /\ i + 1 < j + 1
      BY <1>2, <2>1
    <3>2. QED
      BY <1>2, <2>1, <3>1 DEF Transferring, InOrder
  <2>2. QED
    BY <2>1 DEF InOrder, Place
\* A command that something needs is not the one that was served.
<1>5. ASSUME NEW j \in DOMAIN toHost, toHost[j].kind = k
      PROVE  j - 1 \in DOMAIN toHost' /\ toHost'[j - 1] = toHost[j] /\ j \in Nat
  BY <1>2, <1>5
<1>6. Reaches(client, toHost, k)'
  <2>1. ASSUME NEW i \in DOMAIN toHost', toHost'[i].kind = k, toHost'[i].op # "begin"
        PROVE  \/ \E j \in DOMAIN toHost' :
                    j < i /\ toHost'[j].kind = k /\ Place(toHost'[j]) = toHost'[i].at
               \/ StagedUpTo(client.replace[k], k, toHost'[i].at)
    <3>1. i \in Nat /\ i + 1 \in DOMAIN toHost /\ toHost'[i] = toHost[i + 1]
      BY <1>2
    <3>2. CASE StagedUpTo(client.replace[k], k, toHost'[i].at)
      BY <3>2
    <3>3. CASE \E j \in DOMAIN toHost :
                 j < i + 1 /\ toHost[j].kind = k /\ Place(toHost[j]) = toHost[i + 1].at
      <4>1. PICK j \in DOMAIN toHost :
              j < i + 1 /\ toHost[j].kind = k /\ Place(toHost[j]) = toHost[i + 1].at
        BY <3>3
      <4>2. j - 1 \in DOMAIN toHost' /\ toHost'[j - 1] = toHost[j] /\ j - 1 < i
        BY <1>5, <3>1, <4>1
      <4>3. QED
        BY <3>1, <4>1, <4>2
    <3>4. QED
      BY <2>1, <3>1, <3>2, <3>3 DEF Transferring, Reaches
  <2>2. ASSUME client.replace[k].gen # 0, ~client.replace[k].sent, Attached
        PROVE  \/ \E j \in DOMAIN toHost' :
                    toHost'[j].kind = k /\ Place(toHost'[j]) = client.replace[k].next
               \/ StagedUpTo(client.replace[k], k, client.replace[k].next)
    BY <1>5, <2>2 DEF Transferring, Reaches
  <2>3. \A n : StagedUpTo(client.replace[k], k, n) => StagedUpTo(client.replace[k], k, n)'
    BY <1>1 DEF StagedUpTo
  <2>4. QED
    BY <1>1, <2>1, <2>2, <2>3 DEF Reaches, Place
<1>7. Sound(client, k)'
  BY <1>1 DEF Transferring, Sound
<1>8. Judged(client, toHost, 0, k)'
  BY <1>1, <1>2 DEF Transferring, Judged, Verdict
<1>9. QED
  BY <1>3, <1>4, <1>6, <1>7, <1>8 DEF Transferring

\* The commands of the kind that is served, and what they need of the engine.
LEMMA ServedBegins ==
  ASSUME TypeOK, NEW m, NEW a, Serves(m, a), m.kind \in Kinds, BeginsStaging(engine', a.kind, m),
         Transferring(client, toHost, 0, m.kind)
  PROVE  Transferring(client, toHost, 0, m.kind)'
<1> DEFINE k == m.kind
           r == client.replace[k]
<1>1. /\ client' = client /\ link' = link /\ a.msg = m /\ history.done \subseteq history'.done
      /\ Attached' = Attached /\ m \in Messages /\ k \in Kinds
  BY DEF Serves, Attached
<1>2. /\ 1 \in DOMAIN toHost /\ toHost[1] = m
      /\ \A i \in DOMAIN toHost' :
           i \in Nat /\ i + 1 \in DOMAIN toHost /\ toHost'[i] = toHost[i + 1] /\ i + 1 # 1
      /\ \A i \in DOMAIN toHost : i \in Nat /\ i >= 1
      /\ \A i \in DOMAIN toHost : i # 1 => i - 1 \in DOMAIN toHost' /\ toHost'[i - 1] = toHost[i]
      /\ \A i \in DOMAIN answers' :
           \/ i = Len(answers) + 1 /\ answers'[i] = a
           \/ i \in DOMAIN answers /\ answers'[i] = answers[i]
      /\ Unheard(0) = DOMAIN answers /\ Unheard(0)' = DOMAIN answers'
  BY ServedParts
<1>3. /\ m.op = "begin" /\ a.kind = "ack"
      /\ engine'.staged[k].gen = m.gen /\ engine'.staged[k].chunks = <<>>
  <2>1. engine.staged \in [Kinds -> StagedTransfers]
    BY EngineTypes DEF TypeOK
  <2>2. QED
    BY <1>1, <2>1 DEF BeginsStaging, Stages
<1>4. /\ \A i \in DOMAIN toHost : toHost[i].kind = k =>
           /\ r.gen # 0 /\ toHost[i].gen = r.gen /\ toHost[i].goal = r.goal
           /\ toHost[i].op \in {"begin", "write", "commit"} /\ toHost[i].at \in Nat
           /\ toHost[i].op = "begin" => engine.staged[k].gen # r.gen
           /\ toHost[i].op = "write" => toHost[i].at < r.next
           /\ toHost[i].op = "commit" => r.sent /\ toHost[i].at = Chunks
      /\ \A i, j \in DOMAIN toHost :
           toHost[i].kind = k /\ toHost[j].kind = k /\ i < j
             => Place(toHost[i]) < Place(toHost[j])
  BY <1>1, TransferringParts
<1> HIDE DEF k
<1>5. /\ r.gen # 0 /\ m.gen = r.gen /\ engine.staged[k].gen # r.gen /\ Place(m) = 0
  BY <1>2, <1>3, <1>4 DEF k, Place
<1>6. \A i \in DOMAIN toHost : toHost[i].kind = k /\ i # 1 => toHost[i].op # "begin"
  <2>1. ASSUME NEW i \in DOMAIN toHost, toHost[i].kind = k, i # 1, toHost[i].op = "begin"
        PROVE  FALSE
    <3>1. 1 < i
      BY <1>2, <2>1
    <3>2. Place(toHost[1]) < Place(toHost[i])
      BY <1>2, <1>4, <2>1, <3>1 DEF k
    <3>3. Place(toHost[1]) = 0 /\ Place(toHost[i]) = 0
      BY <1>2, <1>5, <2>1 DEF Place
    <3>4. QED
      BY <3>2, <3>3
  <2>2. QED
    BY <2>1
<1>7. Owned(client, toHost, k)'
  BY <1>1, <1>2, <1>4, <1>6 DEF Owned
<1>8. InOrder(toHost, k)'
  <2>1. ASSUME NEW i \in DOMAIN toHost', NEW j \in DOMAIN toHost',
               toHost'[i].kind = k, toHost'[j].kind = k, i < j
        PROVE  Place(toHost'[i]) < Place(toHost'[j])
    <3>1. i + 1 \in DOMAIN toHost /\ j + 1 \in DOMAIN toHost /\ i + 1 < j + 1
      BY <1>2, <2>1
    <3>2. QED
      BY <1>2, <1>4, <2>1, <3>1
  <2>2. QED
    BY <2>1 DEF InOrder, Place
<1>9. Reaches(client, toHost, k)'
  <2>1. \A n : ~StagedUpTo(r, k, n)
    BY <1>5 DEF StagedUpTo
  <2>2. StagedUpTo(r, k, 0)'
    BY <1>1, <1>3, <1>5 DEF StagedUpTo
  \* What needed the beginning finds it staged.
  <2>3. ASSUME NEW p, NEW j \in DOMAIN toHost, toHost[j].kind = k, Place(toHost[j]) = p
        PROVE  p = 0 \/ (j - 1 \in DOMAIN toHost' /\ toHost'[j - 1] = toHost[j] /\ j \in Nat)
    BY <1>2, <1>5, <2>3
  <2>4. ASSUME NEW i \in DOMAIN toHost', toHost'[i].kind = k, toHost'[i].op # "begin"
        PROVE  \/ \E j \in DOMAIN toHost' :
                    j < i /\ toHost'[j].kind = k /\ Place(toHost'[j]) = toHost'[i].at
               \/ toHost'[i].at = 0
    <3>1. i \in Nat /\ i + 1 \in DOMAIN toHost /\ toHost'[i] = toHost[i + 1]
      BY <1>2
    <3>2. PICK j \in DOMAIN toHost :
            j < i + 1 /\ toHost[j].kind = k /\ Place(toHost[j]) = toHost[i + 1].at
      BY <2>1, <2>4, <3>1 DEF Transferring, Reaches, k
    <3>3. CASE toHost[i + 1].at = 0
      BY <3>1, <3>3
    <3>4. CASE toHost[i + 1].at # 0
      <4>1. j - 1 \in DOMAIN toHost' /\ toHost'[j - 1] = toHost[j] /\ j \in Nat
        BY <2>3, <3>2, <3>4
      <4>2. j - 1 < i
        BY <3>1, <3>2, <4>1
      <4>3. QED
        BY <3>1, <3>2, <4>1, <4>2
    <3>5. QED
      BY <3>3, <3>4
  <2>5. ASSUME ~r.sent, Attached
        PROVE  \/ \E j \in DOMAIN toHost' : toHost'[j].kind = k /\ Place(toHost'[j]) = r.next
               \/ r.next = 0
    <3>1. PICK j \in DOMAIN toHost : toHost[j].kind = k /\ Place(toHost[j]) = r.next
      BY <1>5, <2>1, <2>5 DEF Transferring, Reaches, k
    <3>2. QED
      BY <2>3, <3>1
  <2>6. QED
    BY <1>1, <2>2, <2>4, <2>5 DEF Reaches, Place
<1>10. Sound(client, k)'
  BY <1>1, <1>3 DEF Transferring, Sound, k
<1>11. Judged(client, toHost, 0, k)'
  BY <1>1, <1>2, <1>3 DEF Transferring, Judged, Verdict, k
<1>12. QED
  BY <1>1, <1>7, <1>8, <1>9, <1>10, <1>11 DEF Transferring, k

LEMMA ServedWrites ==
  ASSUME TypeOK, NEW m, NEW a, Serves(m, a), m.kind \in Kinds, m.op = "write",
         Transferring(client, toHost, 0, m.kind)
  PROVE  Transferring(client, toHost, 0, m.kind)' /\ a.kind = "ack"
<1> DEFINE k == m.kind
           r == client.replace[k]
<1>1. /\ client' = client /\ link' = link /\ a.msg = m /\ history.done \subseteq history'.done
      /\ Attached' = Attached /\ m \in Messages /\ k \in Kinds /\ Outcome(engine', a.kind, m)
  BY DEF Serves, Attached
<1>2. /\ 1 \in DOMAIN toHost /\ toHost[1] = m
      /\ \A i \in DOMAIN toHost' :
           i \in Nat /\ i + 1 \in DOMAIN toHost /\ toHost'[i] = toHost[i + 1] /\ i + 1 # 1
      /\ \A i \in DOMAIN toHost : i \in Nat /\ i >= 1
      /\ \A i \in DOMAIN toHost : i # 1 => i - 1 \in DOMAIN toHost' /\ toHost'[i - 1] = toHost[i]
      /\ \A i \in DOMAIN answers' :
           \/ i = Len(answers) + 1 /\ answers'[i] = a
           \/ i \in DOMAIN answers /\ answers'[i] = answers[i]
      /\ Unheard(0) = DOMAIN answers /\ Unheard(0)' = DOMAIN answers'
  BY ServedParts
<1>3. /\ \A i \in DOMAIN toHost : toHost[i].kind = k =>
           /\ r.gen # 0 /\ toHost[i].gen = r.gen /\ toHost[i].goal = r.goal
           /\ toHost[i].op \in {"begin", "write", "commit"} /\ toHost[i].at \in Nat
           /\ toHost[i].op = "begin" => engine.staged[k].gen # r.gen
           /\ toHost[i].op = "write" => toHost[i].at < r.next
           /\ toHost[i].op = "commit" => r.sent /\ toHost[i].at = Chunks
      /\ \A i, j \in DOMAIN toHost :
           toHost[i].kind = k /\ toHost[j].kind = k /\ i < j
             => Place(toHost[i]) < Place(toHost[j])
      /\ r.gen # 0 => r.next \in Nat
  BY <1>1, TransferringParts
<1>4. /\ r.gen # 0 /\ m.gen = r.gen /\ m.goal = r.goal /\ m.at \in Nat /\ m.at < r.next
      /\ Place(m) = m.at + 1 /\ r.next \in Nat
  BY <1>2, <1>3 DEF Place
\* Everything before it was served.
<1>5. StagedUpTo(r, k, m.at)
  <2>1. ~\E j \in DOMAIN toHost : j < 1
    BY <1>2
  <2>2. QED
    BY <1>2, <2>1 DEF Transferring, Reaches
<1> DEFINE old == engine.staged[k].chunks
<1>6. Writes(engine', a.kind, m)
  <2>1. Fits(m)
    BY <1>4, <1>5 DEF Fits, StagedUpTo
  <2>2. QED
    BY <1>1, <2>1, MessageTypes DEF Outcome, LeftAlone, TakesCapture, Reads, BeginsStaging, Replaces
<1>7. /\ a.kind = "ack" /\ old \in Seq(Contents) /\ m.goal \in Contents
      /\ engine'.staged[k].gen = r.gen /\ engine'.staged[k].chunks = Append(old, m.goal)
  <2>1. engine.staged \in [Kinds -> StagedTransfers] /\ old \in Seq(Contents)
    BY <1>1, <1>4, <1>5, EngineTypes DEF TypeOK, StagedUpTo
  <2>2. m.goal \in Contents
    BY <1>1, MessageTypes
  <2>3. QED
    BY <1>1, <1>4, <1>6, <2>1, <2>2 DEF Writes, Stages
<1>8. /\ Len(engine'.staged[k].chunks) = m.at + 1
      /\ \A i \in DOMAIN engine'.staged[k].chunks : engine'.staged[k].chunks[i] = r.goal
  <2>1. Len(old) = m.at
    BY <1>5 DEF StagedUpTo
  <2>2. \A i \in DOMAIN old : old[i] = r.goal
    BY <1>4, <1>5 DEF Transferring, Sound, StagedUpTo
  <2> HIDE DEF old
  <2>3. Len(Append(old, m.goal)) = Len(old) + 1
    BY <1>7
  <2>4. \A i \in DOMAIN Append(old, m.goal) : Append(old, m.goal)[i] = r.goal
    BY <1>4, <1>7, <2>2
  <2>5. QED
    BY <1>7, <2>1, <2>3, <2>4
<1> HIDE DEF k, old
<1>9. \A i \in DOMAIN toHost : toHost[i].kind = k => toHost[i].op # "begin"
  BY <1>3, <1>5 DEF StagedUpTo
<1>10. Owned(client, toHost, k)'
  BY <1>1, <1>2, <1>3, <1>9 DEF Owned
<1>11. InOrder(toHost, k)'
  <2>1. ASSUME NEW i \in DOMAIN toHost', NEW j \in DOMAIN toHost',
               toHost'[i].kind = k, toHost'[j].kind = k, i < j
        PROVE  Place(toHost'[i]) < Place(toHost'[j])
    <3>1. i + 1 \in DOMAIN toHost /\ j + 1 \in DOMAIN toHost /\ i + 1 < j + 1
      BY <1>2, <2>1
    <3>2. QED
      BY <1>2, <1>3, <2>1, <3>1
  <2>2. QED
    BY <2>1 DEF InOrder, Place
<1>12. Reaches(client, toHost, k)'
  <2>1. \A n : StagedUpTo(r, k, n) => n = m.at
    BY <1>5 DEF StagedUpTo
  <2>2. StagedUpTo(r, k, m.at + 1)'
    BY <1>1, <1>7, <1>8 DEF StagedUpTo
  <2>3. ASSUME NEW p, NEW j \in DOMAIN toHost, toHost[j].kind = k, Place(toHost[j]) = p
        PROVE  p = m.at + 1 \/ (j - 1 \in DOMAIN toHost' /\ toHost'[j - 1] = toHost[j] /\ j \in Nat)
    BY <1>2, <1>4, <2>3
  <2>4. ASSUME NEW i \in DOMAIN toHost', toHost'[i].kind = k, toHost'[i].op # "begin"
        PROVE  \/ \E j \in DOMAIN toHost' :
                    j < i /\ toHost'[j].kind = k /\ Place(toHost'[j]) = toHost'[i].at
               \/ toHost'[i].at = m.at + 1
    <3>1. i \in Nat /\ i + 1 \in DOMAIN toHost /\ toHost'[i] = toHost[i + 1] /\ i + 1 # 1
              /\ 1 < i + 1
      BY <1>2
    \* It comes after what was served.
    <3>2. toHost[i + 1].at # m.at
      <4>1. Place(m) < Place(toHost[i + 1])
        BY <1>2, <1>3, <2>4, <3>1 DEF k
      <4>2. Place(toHost[i + 1]) = toHost[i + 1].at + 1 /\ toHost[i + 1].at \in Nat
        BY <1>3, <2>4, <3>1 DEF Place
      <4>3. QED
        BY <1>4, <4>1, <4>2
    <3>3. PICK j \in DOMAIN toHost :
            j < i + 1 /\ toHost[j].kind = k /\ Place(toHost[j]) = toHost[i + 1].at
      BY <2>1, <2>4, <3>1, <3>2 DEF Transferring, Reaches, k
    <3>4. CASE toHost[i + 1].at = m.at + 1
      BY <3>1, <3>4
    <3>5. CASE toHost[i + 1].at # m.at + 1
      <4>1. j - 1 \in DOMAIN toHost' /\ toHost'[j - 1] = toHost[j] /\ j \in Nat
        BY <2>3, <3>3, <3>5
      <4>2. j - 1 < i
        BY <3>1, <3>3, <4>1
      <4>3. QED
        BY <3>1, <3>3, <4>1, <4>2
    <3>6. QED
      BY <3>4, <3>5
  <2>5. ASSUME ~r.sent, Attached
        PROVE  \/ \E j \in DOMAIN toHost' : toHost'[j].kind = k /\ Place(toHost'[j]) = r.next
               \/ r.next = m.at + 1
    <3>1. r.next # m.at
      BY <1>4
    <3>2. PICK j \in DOMAIN toHost : toHost[j].kind = k /\ Place(toHost[j]) = r.next
      BY <1>4, <2>1, <2>5, <3>1 DEF Transferring, Reaches, k
    <3>3. QED
      BY <2>3, <3>2
  <2>6. QED
    BY <1>1, <2>2, <2>4, <2>5 DEF Reaches, Place
<1>13. Sound(client, k)'
  BY <1>1, <1>8 DEF Transferring, Sound, k
<1>14. Judged(client, toHost, 0, k)'
  BY <1>1, <1>2, <1>7 DEF Transferring, Judged, Verdict, k
<1>15. QED
  BY <1>1, <1>7, <1>10, <1>11, <1>12, <1>13, <1>14 DEF Transferring, k

\* The commit finds all of the transfer staged, and is the last of it.
LEMMA CommitFinds ==
  ASSUME TypeOK, NEW m, NEW a, Serves(m, a), m.kind \in Kinds, m.op = "commit",
         Transferring(client, toHost, 0, m.kind)
  PROVE  LET r == client.replace[m.kind]
         IN /\ r.gen # 0 /\ m.gen = r.gen /\ r.sent /\ StagedGoal(m.kind) = r.goal
            /\ \A i \in DOMAIN toHost : toHost[i].kind = m.kind => i = 1
<1> DEFINE k == m.kind
           r == client.replace[k]
<1>1. m \in Messages /\ k \in Kinds
  BY DEF Serves
<1>2. /\ 1 \in DOMAIN toHost /\ toHost[1] = m /\ \A i \in DOMAIN toHost : i \in Nat /\ i >= 1
  BY ServedParts
<1>3. /\ \A i \in DOMAIN toHost : toHost[i].kind = k =>
           /\ r.gen # 0 /\ toHost[i].gen = r.gen /\ toHost[i].goal = r.goal
           /\ toHost[i].op = "commit" => r.sent /\ toHost[i].at = Chunks
      /\ \A i, j \in DOMAIN toHost :
           toHost[i].kind = k /\ toHost[j].kind = k /\ i < j
             => Place(toHost[i]) < Place(toHost[j])
      /\ \A i \in DOMAIN toHost : toHost[i].kind = k =>
           /\ Place(toHost[i]) \in Nat
           /\ toHost[i].op # "commit" => Place(toHost[i]) <= r.next
           /\ toHost[i].op = "commit" => Place(toHost[i]) = Chunks + 1
      /\ r.gen # 0 => r.next \in Nat /\ r.next <= Chunks
  BY <1>1, TransferringParts
<1>4. r.gen # 0 /\ m.gen = r.gen /\ r.sent /\ m.at = Chunks /\ Place(m) = Chunks + 1
  BY <1>2, <1>3
<1>5. ASSUME NEW i \in DOMAIN toHost, toHost[i].kind = k, i # 1
      PROVE  FALSE
  <2>1. 1 < i
    BY <1>2, <1>5
  <2>2. Chunks + 1 < Place(toHost[i])
    BY <1>2, <1>3, <1>4, <1>5, <2>1
  <2>3. QED
    BY <1>3, <1>4, <1>5, <2>2, Sizes
<1>6. StagedUpTo(r, k, Chunks)
  <2>1. ~\E j \in DOMAIN toHost : j < 1
    BY <1>2
  <2>2. QED
    BY <1>2, <1>4, <2>1 DEF Transferring, Reaches
<1>7. StagedGoal(k) = r.goal
  <2>1. engine.staged[k].chunks \in Seq(Contents)
    BY <1>1, <1>4, <1>6, EngineTypes DEF TypeOK, StagedUpTo
  <2>2. 1 \in DOMAIN engine.staged[k].chunks
    BY <1>6, <2>1, Sizes DEF StagedUpTo
  <2>3. QED
    BY <1>4, <1>6, <2>2 DEF Transferring, Sound, StagedUpTo, StagedGoal
<1>8. QED
  BY <1>4, <1>5, <1>7

LEMMA ServedCommits ==
  ASSUME TypeOK, NEW m, NEW a, Serves(m, a), m.kind \in Kinds, m.op = "commit",
         Transferring(client, toHost, 0, m.kind), Kind(client.replace[m.kind].goal) = m.kind
  PROVE  /\ Transferring(client, toHost, 0, m.kind)'
         /\ \A k \in Kinds : k # m.kind => engine'.staged[k] = engine.staged[k]
<1> DEFINE k == m.kind
           r == client.replace[k]
<1>1. /\ client' = client /\ link' = link /\ a.msg = m /\ history.done \subseteq history'.done
      /\ Attached' = Attached /\ m \in Messages /\ k \in Kinds /\ Outcome(engine', a.kind, m)
      /\ history'.done = IF engine'.edition # engine.edition
                         THEN history.done \union {StagedGoal(k)} ELSE history.done
  BY DEF Serves, Attached
<1>2. /\ 1 \in DOMAIN toHost /\ toHost[1] = m
      /\ \A i \in DOMAIN toHost' :
           i \in Nat /\ i + 1 \in DOMAIN toHost /\ toHost'[i] = toHost[i + 1] /\ i + 1 # 1
      /\ \A i \in DOMAIN answers' :
           \/ i = Len(answers) + 1 /\ answers'[i] = a
           \/ i \in DOMAIN answers /\ answers'[i] = answers[i]
      /\ Unheard(0) = DOMAIN answers /\ Unheard(0)' = DOMAIN answers'
      /\ Len(answers) + 1 \notin DOMAIN answers
  <2>1. answers \in Seq(Answers)
    BY DEF TypeOK
  <2>2. Len(answers) + 1 \notin DOMAIN answers
    BY <2>1, Domains
  <2>3. QED
    BY <2>2, ServedParts
<1>3. /\ r.gen # 0 /\ m.gen = r.gen /\ r.sent /\ StagedGoal(k) = r.goal
      /\ \A i \in DOMAIN toHost : toHost[i].kind = k => i = 1
  BY CommitFinds
<1>4. \A i \in DOMAIN toHost' : toHost'[i].kind # k
  BY <1>2, <1>3
<1>5. \/ engine' = engine /\ a.kind = "error"
      \/ /\ a.kind = "complete" /\ engine'.edition = engine.edition + 1
         /\ engine'.staged = [engine.staged EXCEPT ![k] = NoTransfer]
  BY <1>1, <1>3, MessageTypes DEF Outcome, LeftAlone, TakesCapture, Reads, BeginsStaging, Writes, Replaces
<1>6. /\ engine.staged \in [Kinds -> StagedTransfers] /\ engine.edition \in Nat
      /\ NoTransfer.gen = 0
  BY EngineTypes DEF TypeOK, NoTransfer
<1>7. a.kind = "complete" => r.goal \in history'.done
  BY <1>1, <1>3, <1>5, <1>6
<1>8. \A j \in Kinds : j # k => engine'.staged[j] = engine.staged[j]
  BY <1>5, <1>6
<1>9. engine'.staged[k].gen = r.gen => engine'.staged[k] = engine.staged[k]
  BY <1>1, <1>3, <1>5, <1>6
\* Nothing of the transfer was judged before its commit.
<1>10. \A i \in DOMAIN answers : answers[i].msg.kind = k => ~Verdict(answers[i])
  BY <1>2 DEF Transferring, Judged
<1> HIDE DEF k
<1>11. Owned(client, toHost, k)' /\ InOrder(toHost, k)' /\ Reaches(client, toHost, k)'
  BY <1>1, <1>3, <1>4 DEF Owned, InOrder, Reaches
<1>12. Sound(client, k)'
  BY <1>1, <1>9 DEF Transferring, Sound, k
<1>13. Judged(client, toHost, 0, k)'
  <2>1. ASSUME NEW i \in DOMAIN answers', answers'[i].msg.kind = k, Verdict(answers'[i])
        PROVE  i = Len(answers) + 1 /\ answers'[i] = a
    BY <1>2, <1>10, <2>1
  <2>2. ASSUME NEW i \in DOMAIN answers', answers'[i].msg.kind = k, Verdict(answers'[i])
        PROVE  /\ answers'[i].msg.gen = r.gen
               /\ \A j \in DOMAIN answers' : j # i /\ answers'[j].msg.kind = k
                      => ~Verdict(answers'[j])
               /\ answers'[i].kind = "complete" => r.goal \in history'.done
    BY <1>1, <1>3, <1>7, <2>1, <2>2
  <2>3. QED
    BY <1>1, <1>2, <1>3, <1>4, <2>2 DEF Judged, Verdict
<1>14. QED
  BY <1>1, <1>8, <1>11, <1>12, <1>13 DEF Transferring, k

LEMMA ServedReplacing ==
  ASSUME IInv, NEW m, NEW a, Serves(m, a), NothingLeftOver, client.seen = life
  PROVE  /\ \A k \in Kinds : Transferring(client, toHost, 0, k)' /\ WorkedOn(client, k)'
         /\ Done(client, toHost, 0)'
         /\ engine'.edition # engine.edition => StagedGoal(m.kind) = work.goal
<1>1. /\ TypeOK /\ Done(client, toHost, 0) /\ Attached
      /\ \A k \in Kinds : Transferring(client, toHost, 0, k) /\ WorkedOn(client, k)
  BY ServedBasic DEF IInv, Talking, Replacing
<1>2. /\ client' = client /\ link' = link /\ life' = life /\ work' = work /\ a.msg = m
      /\ m \in Messages /\ Attached' = Attached /\ Outcome(engine', a.kind, m)
      /\ history'.done = IF engine'.edition # engine.edition
                         THEN history.done \union {StagedGoal(m.kind)} ELSE history.done
  BY DEF Serves, Attached
<1>3. /\ engine.staged \in [Kinds -> StagedTransfers] /\ engine.edition \in Nat
  BY <1>1, EngineTypes DEF TypeOK
<1>4. ASSUME NEW k \in Kinds
      PROVE  WorkedOn(client, k)'
  BY <1>1, <1>2 DEF WorkedOn, Working
\* Only a commit changes the edition, or the staged transfers of another kind.
<1>5. ~(m.kind \in Kinds /\ m.op = "commit") =>
        /\ engine'.edition = engine.edition
        /\ \A k \in Kinds : k # m.kind => engine'.staged[k] = engine.staged[k]
  BY <1>2, <1>3 DEF Outcome, LeftAlone, TakesCapture, Reads, BeginsStaging, Writes, Stages, Replaces
<1>6. ASSUME m.kind \in Kinds, m.op = "commit"
      PROVE  LET r == client.replace[m.kind]
             IN /\ r.gen # 0 /\ r.sent /\ StagedGoal(m.kind) = r.goal /\ r.goal = work.goal
                /\ Kind(work.goal) = m.kind
                /\ \A i \in DOMAIN toHost : toHost[i].kind = m.kind => i = 1
  <2>1. /\ client.replace[m.kind].gen # 0 /\ client.replace[m.kind].sent
        /\ StagedGoal(m.kind) = client.replace[m.kind].goal
        /\ \A i \in DOMAIN toHost : toHost[i].kind = m.kind => i = 1
    BY <1>1, <1>6, CommitFinds
  <2>2. Working(m.kind, client.replace[m.kind].goal)
    BY <1>1, <1>6, <2>1 DEF WorkedOn
  <2>3. QED
    BY <2>1, <2>2 DEF Working
<1>7. ASSUME NEW k \in Kinds
      PROVE  Transferring(client, toHost, 0, k)'
  <2>1. CASE k # m.kind
    <3>1. engine'.staged[k] = engine.staged[k]
      <4>1. CASE m.kind \in Kinds /\ m.op = "commit"
        BY <1>1, <1>6, <2>1, <4>1, ServedCommits
      <4>2. CASE ~(m.kind \in Kinds /\ m.op = "commit")
        BY <1>5, <2>1, <4>2
      <4>3. QED
        BY <4>1, <4>2
    <3>2. QED
      BY <1>1, <2>1, <3>1, ServedOther
  <2>2. CASE k = m.kind /\ m.op = "begin"
    <3>1. BeginsStaging(engine', a.kind, m)
      BY <1>2, <2>2, MessageTypes
        DEF Outcome, LeftAlone, TakesCapture, Reads, Writes, Replaces
    <3>2. QED
      BY <1>1, <2>2, <3>1, ServedBegins
  <2>3. CASE k = m.kind /\ m.op = "write"
    BY <1>1, <2>3, ServedWrites
  <2>4. CASE k = m.kind /\ m.op = "commit"
    BY <1>1, <1>6, <2>4, ServedCommits
  <2>5. QED
    BY <1>2, <2>1, <2>2, <2>3, <2>4, MessageTypes
<1>8. engine'.edition # engine.edition => StagedGoal(m.kind) = work.goal
  BY <1>5, <1>6
<1>9. /\ 1 \in DOMAIN toHost /\ toHost[1] = m
      /\ \A i \in DOMAIN toHost' :
           i \in Nat /\ i + 1 \in DOMAIN toHost /\ toHost'[i] = toHost[i + 1] /\ i + 1 # 1
      /\ \A i \in DOMAIN answers' :
           \/ i = Len(answers) + 1 /\ answers'[i] = a
           \/ i \in DOMAIN answers /\ answers'[i] = answers[i]
      /\ Unheard(0) = DOMAIN answers /\ Unheard(0)' = DOMAIN answers'
  BY <1>1, ServedParts
<1>10. Done(client, toHost, 0)'
  <2>1. CASE engine'.edition = engine.edition
    BY <1>1, <1>2, <1>9, <2>1 DEF Done, Requested
  <2>2. CASE engine'.edition # engine.edition
    <3>1. m.kind \in Kinds /\ m.op = "commit"
      BY <1>5, <2>2
    <3>2. /\ client.replace[Kind(work.goal)].gen # 0 /\ client.replace[Kind(work.goal)].sent
          /\ client.replace[Kind(work.goal)].goal = work.goal /\ Kind(work.goal) = m.kind
          /\ \A i \in DOMAIN toHost' : toHost'[i].kind # Kind(work.goal)
      BY <1>6, <1>9, <3>1
    <3>3. a.kind # "error"
      BY <1>2, <2>2 DEF Outcome, LeftAlone, TakesCapture, Reads, BeginsStaging, Writes, Stages,
         Replaces
    <3>4. \A i \in DOMAIN answers : answers[i].msg.kind = m.kind => answers[i].kind # "error"
      BY <1>1, <1>9, <3>1 DEF Transferring, Judged, Verdict
    <3>5. QED
      BY <1>2, <1>9, <3>2, <3>3, <3>4 DEF Done
  <2>3. QED
    BY <2>1, <2>2
<1>11. QED
  BY <1>4, <1>7, <1>8, <1>10

\* What serving a command does to the invariant, and what it commits.
LEMMA HostStep ==
  ASSUME IInv, HostServes
  PROVE  /\ IInv'
         /\ engine'.edition # engine.edition /\ NothingLeftOver
              => StagedGoal(Head(toHost).kind) = work.goal
<1>1. PICK m, a : Serves(m, a)
  BY ServesExists DEF IInv
<1>2. /\ m = Head(toHost) /\ m \in Messages /\ a.msg = m /\ Outcome(engine', a.kind, m)
      /\ NothingLeftOver' = NothingLeftOver /\ NothingAbandoned' = NothingAbandoned
      /\ history'.begun = history.begun /\ history'.copied = history.copied
      /\ UNCHANGED <<task, work, client, link, life, file>>
      /\ history'.done = IF engine'.edition # engine.edition
                         THEN history.done \union {StagedGoal(m.kind)} ELSE history.done
  BY <1>1 DEF Serves
<1>3. UsedOnce(client, toHost)' /\ Ended(client)' /\ Silent(toHost)' /\ TypeOK' /\ Attached
  BY <1>1, ServedBasic
<1>4. Capturing(client, toHost, 0)'
  BY <1>1, ServedCapturing
<1>5. CaptureOwned(client)'
  BY <1>2 DEF IInv, Talking, CaptureOwned
\* With an engine the client does not know it talks of display data only.
<1>6. ASSUME NothingLeftOver, client.seen # life
      PROVE  /\ engine'.edition = engine.edition /\ Idle' /\ Done(client, toHost, 0)'
  <2>1. /\ \A i \in DOMAIN toHost : toHost[i].kind = "beside"
        /\ \A i \in DOMAIN answers : answers[i].msg.kind = "beside"
    BY <1>6 DEF IInv, Idle
  <2>2. /\ 1 \in DOMAIN toHost /\ toHost[1] = m
        /\ \A i \in DOMAIN toHost' : i + 1 \in DOMAIN toHost /\ toHost'[i] = toHost[i + 1]
        /\ \A i \in DOMAIN answers' :
             answers'[i] = a \/ (i \in DOMAIN answers /\ answers'[i] = answers[i])
    BY <1>1, ServedParts DEF IInv
  <2>3. engine'.edition = engine.edition
    <3>1. m.kind = "beside"
      BY <2>1, <2>2
    <3>2. QED
      BY <1>2, <3>1, MessageTypes
        DEF Outcome, LeftAlone, TakesCapture, Reads, BeginsStaging, Writes, Stages, Replaces
  <2>4. Idle'
    BY <1>2, <2>1, <2>2 DEF Idle
  <2>5. ~(Requested /\ work.goal \in history.done)
    BY <1>3, <1>6 DEF IInv, Talking, Replacing, Done
  <2>6. Done(client, toHost, 0)'
    BY <1>2, <2>3, <2>5 DEF Done, Requested
  <2>7. QED
    BY <2>3, <2>4, <2>6
<1>7. ASSUME NothingLeftOver, client.seen = life
      PROVE  /\ \A k \in Kinds : Transferring(client, toHost, 0, k)' /\ WorkedOn(client, k)'
             /\ Done(client, toHost, 0)'
             /\ engine'.edition # engine.edition => StagedGoal(m.kind) = work.goal
  BY <1>1, <1>7, ServedReplacing
<1>8. Replacing(client, toHost, 0)'
  BY <1>2, <1>6, <1>7 DEF Replacing
<1>9. Idle'
  BY <1>2, <1>6 DEF Idle
<1>10. Shown' /\ Asked'
  BY <1>2 DEF IInv, Shown, Asked, Requested
<1>11. (history.begun <= engine.edition)'
  <2>1. engine'.edition \in {engine.edition, engine.edition + 1}
    BY <1>2 DEF Outcome, LeftAlone, TakesCapture, Reads, BeginsStaging, Writes, Stages, Replaces
  <2>2. history.begun <= engine.edition /\ history.begun \in Nat /\ engine.edition \in Nat
    BY EngineTypes DEF IInv, TypeOK
  <2>3. QED
    BY <1>2, <2>1, <2>2
<1>12. CapturesAreCurrent'
  BY <1>2 DEF IInv, CapturesAreCurrent
<1>13. link' # "detached"
  BY <1>2, <1>3 DEF Attached
<1>14. QED
  BY <1>2, <1>3, <1>4, <1>5, <1>6, <1>7, <1>8, <1>9, <1>10, <1>11, <1>12, <1>13 DEF IInv, Talking

-----------------------------------------------------------------------------
(* Recordings, the link, and requests beside the transfers.                *)

LEMMA RecordingStep ==
  ASSUME IInv, RecordingBegins \/ RecordingEnds
  PROVE  IInv'
<1>1. /\ UNCHANGED <<task, work, client, link, life, toHost, answers, file>>
      /\ engine.edition \in Nat /\ history.begun \in Nat /\ history.begun <= engine.edition
  BY EngineTypes DEF RecordingBegins, RecordingEnds, IInv, TypeOK
<1>2. /\ engine' \in Engines /\ engine'.capture = engine.capture /\ engine'.staged = engine.staged
      /\ engine'.edition \in {engine.edition, engine.edition + 1}
  <2>1. engine \in Engines /\ Played \in Takes
    BY DEF IInv, TypeOK, Takes
  <2>2. CASE RecordingBegins
    <3>1. PICK l \in Loops : engine' = [engine EXCEPT !.busy = l]
      BY <2>2 DEF RecordingBegins
    <3>2. QED
      BY <2>1, <3>1 DEF Engines
  <2>3. CASE RecordingEnds
    <3> DEFINE session == [engine.session EXCEPT ![engine.busy] = Played]
               edition == engine.edition + 1
    <3>1. session \in [Loops -> Takes]
      BY <2>1 DEF Engines
    <3>2. engine' = [engine EXCEPT !.busy = None, !.session = session, !.edition = edition]
      BY <2>1, <2>3 DEF RecordingEnds, Engines
    <3>3. edition \in Nat
      BY <1>1
    <3> HIDE DEF session, edition
    <3>4. engine' \in Engines /\ engine'.edition = edition
      BY <2>1, <3>1, <3>2, <3>3 DEF Engines
    <3>5. engine'.capture = engine.capture /\ engine'.staged = engine.staged
      BY <2>1, <3>2 DEF Engines
    <3>6. QED
      BY <3>4, <3>5 DEF edition
  <2>4. QED
    BY <2>2, <2>3
<1>3. /\ history'.begun = history.begun /\ history'.done = history.done
      /\ history'.copied = history.copied /\ history'.lapses = history.lapses /\ Kept'
  <2>1. Kept
    BY KeptParts
  <2>2. CASE RecordingBegins
    <3>1. /\ history.edits < MaxEdits /\ history' = [history EXCEPT !.edits = history.edits + 1]
          /\ history.edits \in Nat /\ MaxEdits \in Nat
      BY <2>1, <2>2, BoundsAssumption DEF RecordingBegins, Kept
    <3>2. history.edits + 1 \in 0 .. MaxEdits
      BY <3>1
    <3>3. QED
      BY <1>1, <2>1, <3>1, <3>2 DEF Kept
  <2>3. CASE RecordingEnds
    BY <1>1, <2>1, <2>3 DEF RecordingEnds, Kept
  <2>4. QED
    BY <2>2, <2>3
<1>4. NothingAbandoned' = NothingAbandoned /\ NothingLeftOver' = NothingLeftOver
  BY <1>3 DEF NothingAbandoned, NothingLeftOver
<1>5. TypeOK'
  BY <1>1, <1>2, <1>3 DEF IInv, TypeOK, Kept
<1>6. UsedOnce(client, toHost)' /\ Ended(client)' /\ Silent(toHost)'
  BY <1>1, <1>2 DEF IInv, Talking, UsedOnce, Ended, Silent, Attached
<1>7. Capturing(client, toHost, 0)' /\ CaptureOwned(client)'
  <2>1. Counted(client)' /\ CaptureOwned(client)'
    BY <1>1, <1>4 DEF IInv, Talking, Capturing, Counted, CaptureOwned
  <2>2. Beginning(client, toHost, 0)'
    BY <1>1, <1>2 DEF IInv, Talking, Capturing, Beginning, Of, Unheard
  <2>3. OneCapture(client, 0)'
    <3>1. \A D : Gathered(client, 0, D) => Gathered(client, 0, D)'
      BY <1>1, <1>2, <1>3, <1>4 DEF Gathered, Of, Unheard
    <3>2. QED
      BY <1>1, <3>1 DEF IInv, Talking, Capturing, OneCapture
  <2>4. QED
    BY <2>1, <2>2, <2>3 DEF Capturing
<1>8. ASSUME NEW k \in Kinds, Transferring(client, toHost, 0, k), WorkedOn(client, k)
      PROVE  Transferring(client, toHost, 0, k)' /\ WorkedOn(client, k)'
  <2>1. Owned(client, toHost, k)' /\ InOrder(toHost, k)'
    BY <1>1, <1>2, <1>8 DEF Transferring, Owned, InOrder, Place
  <2>2. Reaches(client, toHost, k)'
    BY <1>1, <1>2, <1>8 DEF Transferring, Reaches, StagedUpTo, Place, Attached
  <2>3. Sound(client, k)' /\ Judged(client, toHost, 0, k)'
    BY <1>1, <1>2, <1>3, <1>8 DEF Transferring, Sound, Judged, Verdict, Unheard
  <2>4. WorkedOn(client, k)'
    BY <1>1, <1>8 DEF WorkedOn, Working, Attached
  <2>5. QED
    BY <2>1, <2>2, <2>3, <2>4 DEF Transferring
<1>9. Done(client, toHost, 0) => Done(client, toHost, 0)'
  BY <1>1, <1>3 DEF Done, Requested, Attached, Unheard
<1>10. Replacing(client, toHost, 0)'
  BY <1>1, <1>4, <1>8, <1>9 DEF IInv, Talking, Replacing
<1>11. Idle' /\ Shown' /\ Asked'
  BY <1>1, <1>4 DEF IInv, Idle, Shown, Asked, Requested
<1>12. (history.begun <= engine.edition)'
  BY <1>1, <1>2, <1>3
<1>13. CapturesAreCurrent'
  BY <1>1, <1>3, <1>4 DEF IInv, CapturesAreCurrent
<1>14. link' = "detached" => Len(answers') = 0
  BY <1>1 DEF IInv
<1>15. QED
  BY <1>5, <1>6, <1>7, <1>10, <1>11, <1>12, <1>13, <1>14 DEF IInv, Talking

LEMMA TypesOf ==
  ASSUME Kept', (client \in Clients)', (client.seen <= life)',
         (link \in {"attached", "detached", "failed"})', (life \in Gens)',
         (toHost \in Seq(Messages))', (Len(toHost) <= Capacity)', (answers \in Seq(Answers))',
         (engine \in Engines)'
  PROVE  TypeOK'
BY DEF TypeOK, Kept

LEMMA AttachStep ==
  ASSUME IInv, Attach
  PROVE  IInv'
<1>1. /\ life' = life + 1 /\ link' = "attached" /\ toHost' = <<>> /\ answers' = <<>>
      /\ engine' = FreshEngine(engine.edition + 1) /\ history' = [history EXCEPT !.done = {}]
      /\ UNCHANGED <<task, work, client, file>>
  BY DEF Attach
<1>2. /\ TypeOK /\ client \in Clients /\ client.seen <= life /\ life \in Gens
      /\ engine.edition \in Nat /\ history.begun \in Nat /\ history.begun <= engine.edition
  BY EngineTypes DEF IInv, TypeOK
<1>3. client.seen # life' /\ life' \in Gens /\ client.seen <= life' /\ client.seen \in Nat
  BY <1>1, <1>2 DEF Clients, Gens
<1>4. /\ engine' \in Engines /\ engine'.edition = engine.edition + 1
      /\ engine'.capture.gen = 0 /\ \A k \in Kinds : engine'.staged[k].gen = 0
  <2> DEFINE edition == engine.edition + 1
  <2>1. edition \in Nat /\ Blank \in Takes
    BY <1>2 DEF Takes
  <2>2. engine' = FreshEngine(edition)
    BY <1>1
  <2> HIDE DEF edition
  <2>3. engine' \in Engines /\ engine'.edition = edition
    BY <2>1, <2>2 DEF FreshEngine, Engines
  <2>4. engine'.capture.gen = 0 /\ \A k \in Kinds : engine'.staged[k].gen = 0
    BY <2>2 DEF FreshEngine, NoTransfer
  <2>5. QED
    BY <2>3, <2>4 DEF edition
<1>5. /\ <<>> \in Seq(Messages) /\ <<>> \in Seq(Answers) /\ Len(<<>>) = 0 /\ DOMAIN <<>> = {}
  BY EmptySeq
<1>6. /\ history'.begun = history.begun /\ history'.done = {} /\ history'.copied = history.copied
      /\ history'.lapses = history.lapses /\ Kept'
  BY <1>1, KeptParts DEF Kept
<1>7. NothingAbandoned' = NothingAbandoned /\ NothingLeftOver' = NothingLeftOver
  BY <1>6 DEF NothingAbandoned, NothingLeftOver
<1>8. TypeOK'
  <2>1. (client \in Clients)' /\ (client.seen <= life)' /\ (life \in Gens)'
    BY <1>1, <1>2, <1>3
  <2>2. (toHost \in Seq(Messages))' /\ (answers \in Seq(Answers))'
    BY <1>1, <1>5
  <2>3. (Len(toHost) <= Capacity)'
    BY <1>1, <1>5, Sizes
  <2>4. (link \in {"attached", "detached", "failed"})'
    BY <1>1
  <2>5. QED
    BY <1>4, <1>6, <2>1, <2>2, <2>3, <2>4, TypesOf
<1>9. UsedOnce(client, toHost)' /\ Ended(client)' /\ Silent(toHost)'
  <2>1. 0 < client.nextGen
    BY <1>2 DEF Clients, Gens
  <2>2. QED
    BY <1>1, <1>4, <1>5, <2>1 DEF IInv, Talking, UsedOnce, Ended, Silent, Attached
<1>10. Capturing(client, toHost, 0)' /\ CaptureOwned(client)'
  BY <1>1, <1>3, <1>7
    DEF IInv, Talking, Capturing, Counted, Beginning, OneCapture, CaptureOwned
<1>11. Replacing(client, toHost, 0)'
  BY <1>1, <1>3, <1>6 DEF Replacing, Done
<1>12. Idle' /\ Shown' /\ Asked'
  BY <1>1, <1>5 DEF IInv, Idle, Shown, Asked, Requested
<1>13. (history.begun <= engine.edition)'
  BY <1>2, <1>4, <1>6
<1>14. CapturesAreCurrent'
  BY <1>1, <1>6, <1>7 DEF IInv, CapturesAreCurrent
<1>15. QED
  BY <1>1, <1>8, <1>9, <1>10, <1>11, <1>12, <1>13, <1>14 DEF IInv, Talking

LEMMA LinkEndsStep ==
  ASSUME IInv, Detach \/ LinkFails
  PROVE  IInv'
<1>1. /\ link' \in {"detached", "failed"} /\ toHost' = <<>>
      /\ UNCHANGED <<task, work, client, life, engine, file, history>> /\ ~Attached'
  BY DEF Detach, LinkFails, Attached
<1>2. TypeOK /\ answers \in Seq(Answers) /\ Len(answers) \in Nat
  BY Domains DEF IInv, TypeOK
<1>3. /\ <<>> \in Seq(Messages) /\ <<>> \in Seq(Answers) /\ Len(<<>>) = 0 /\ DOMAIN <<>> = {}
  BY EmptySeq
<1>4. /\ answers' \in Seq(Answers)
      /\ link' = "detached" => Len(answers') = 0
      /\ \A i \in DOMAIN answers' : i \in DOMAIN answers /\ answers'[i] = answers[i]
  <2>1. CASE Detach
    BY <1>3, <2>1 DEF Detach
  <2>2. CASE LinkFails
    <3>1. PICK n \in 0 .. Len(answers) : answers' = SubSeq(answers, 1, n)
      BY <2>2 DEF LinkFails
    <3>2. link' = "failed"
      BY <2>2 DEF LinkFails
    <3>3. n \in Nat /\ n <= Len(answers)
      BY <1>2, <3>1
    <3>4. /\ SubSeq(answers, 1, n) \in Seq(Answers) /\ Len(SubSeq(answers, 1, n)) = n
          /\ \A i \in 1 .. n : SubSeq(answers, 1, n)[i] = answers[i]
      BY <1>2, <3>3
    <3>5. DOMAIN answers' = 1 .. n /\ DOMAIN answers = 1 .. Len(answers)
      BY <1>2, <3>1, <3>4, Domains
    <3>6. QED
      BY <1>2, <3>1, <3>2, <3>3, <3>4, <3>5
  <2>3. QED
    BY <2>1, <2>2
<1>5. TypeOK'
  <2>1. /\ (client \in Clients)' /\ (client.seen <= life)' /\ (life \in Gens)'
        /\ (engine \in Engines)'
    BY <1>1, <1>2 DEF TypeOK
  <2>2. (toHost \in Seq(Messages))' /\ (answers \in Seq(Answers))'
    BY <1>1, <1>3, <1>4
  <2>3. (Len(toHost) <= Capacity)'
    BY <1>1, <1>3, Sizes
  <2>4. (link \in {"attached", "detached", "failed"})'
    BY <1>1
  <2>5. Kept'
    BY <1>1, <1>2 DEF TypeOK, Kept
  <2>6. QED
    BY <2>1, <2>2, <2>3, <2>4, <2>5, TypesOf
<1>6. NothingAbandoned' = NothingAbandoned /\ NothingLeftOver' = NothingLeftOver
  BY <1>1 DEF NothingAbandoned, NothingLeftOver
<1>7. UsedOnce(client, toHost)' /\ Ended(client)' /\ Silent(toHost)'
  BY <1>1, <1>3, <1>4 DEF IInv, Talking, UsedOnce, Ended, Silent
<1>8. Unheard(0)' = DOMAIN answers' /\ Unheard(0) = DOMAIN answers
  <2>1. \A i \in DOMAIN answers : i \in Nat /\ i >= 1
    BY <1>2, Domains
  <2>2. \A i \in DOMAIN answers' : i \in Nat /\ i >= 1
    BY <1>4, Domains
  <2>3. QED
    BY <2>1, <2>2 DEF Unheard
<1>9. Capturing(client, toHost, 0)' /\ CaptureOwned(client)'
  <2>1. Counted(client)' /\ CaptureOwned(client)'
    BY <1>1, <1>6 DEF IInv, Talking, Capturing, Counted, CaptureOwned
  <2>2. Beginning(client, toHost, 0)'
    BY <1>1, <1>3, <1>4, <1>8 DEF IInv, Talking, Capturing, Beginning, Of
  <2>3. OneCapture(client, 0)'
    <3>1. \A D : Gathered(client, 0, D) => Gathered(client, 0, D)'
      BY <1>1, <1>4, <1>6, <1>8 DEF Gathered, Of
    <3>2. QED
      BY <1>1, <3>1 DEF IInv, Talking, Capturing, OneCapture
  <2>4. QED
    BY <2>1, <2>2, <2>3 DEF Capturing
<1>10. ASSUME NEW k \in Kinds, Transferring(client, toHost, 0, k), WorkedOn(client, k)
       PROVE  Transferring(client, toHost, 0, k)' /\ WorkedOn(client, k)'
  <2>1. Owned(client, toHost, k)' /\ InOrder(toHost, k)' /\ Reaches(client, toHost, k)'
    BY <1>1, <1>3 DEF Owned, InOrder, Reaches
  <2>2. Sound(client, k)'
    BY <1>1, <1>10 DEF Transferring, Sound
  <2>3. Judged(client, toHost, 0, k)'
    BY <1>1, <1>3, <1>4, <1>8, <1>10 DEF Transferring, Judged, Verdict
  <2>4. WorkedOn(client, k)'
    BY <1>1, <1>10 DEF WorkedOn, Working
  <2>5. QED
    BY <2>1, <2>2, <2>3, <2>4 DEF Transferring
<1>11. Done(client, toHost, 0)'
  BY <1>1 DEF Done
<1>12. Replacing(client, toHost, 0)'
  BY <1>1, <1>6, <1>10, <1>11 DEF IInv, Talking, Replacing
<1>13. Idle' /\ Shown' /\ Asked'
  BY <1>1, <1>3, <1>4, <1>6 DEF IInv, Idle, Shown, Asked, Requested
<1>14. (history.begun <= engine.edition)' /\ CapturesAreCurrent'
  BY <1>1, <1>6 DEF IInv, CapturesAreCurrent
<1>15. QED
  BY <1>4, <1>5, <1>7, <1>9, <1>12, <1>13, <1>14 DEF IInv, Talking

-----------------------------------------------------------------------------
(* The user: operations that begin, go on and end.                         *)

\* An operation that transfers nothing has no transfer that matters.
LEMMA QuietClient ==
  ASSUME IInv, work.op \in {"none", "askLoad", "askImport", "prepare"} \/ Transfers(client) = {}
  PROVE  /\ NothingAbandoned => client.capture.gen = 0
         /\ NothingLeftOver /\ client.seen = life => Loose(client)
<1>1. CaptureOwned(client) /\ Replacing(client, toHost, 0)
  BY DEF IInv, Talking
<1>2. CASE work.op \in {"none", "askLoad", "askImport", "prepare"}
  <2>1. NothingAbandoned => client.capture.gen = 0
    BY <1>1, <1>2 DEF CaptureOwned
  <2>2. ASSUME NothingLeftOver, client.seen = life
        PROVE  Loose(client)
    <3>1. \A k \in Kinds : WorkedOn(client, k)
      BY <1>1, <2>2 DEF Replacing
    <3>2. QED
      BY <1>2, <3>1 DEF WorkedOn, Working, Loose
  <2>3. QED
    BY <2>1, <2>2
<1>3. CASE Transfers(client) = {}
  <2>1. client.capture.gen = 0 /\ \A k \in Kinds : client.replace[k].gen = 0
    BY <1>3 DEF Transfers
  <2>2. QED
    BY <2>1 DEF Loose
<1>4. QED
  BY <1>2, <1>3

\* What the user does beside the client, when no transfer matters.
LEMMA DeskKeeps ==
  ASSUME IInv, UNCHANGED <<client, link, life, toHost, answers, engine>>,
         Kept', Shown', Asked', CapturesAreCurrent', history'.begun <= engine.edition,
         NothingAbandoned' => NothingAbandoned /\ client.capture.gen = 0,
         NothingLeftOver' => NothingLeftOver,
         NothingLeftOver' /\ client.seen = life => Loose(client),
         \/ history'.done = {}
         \/ /\ history'.done = history.done
            /\ Requested' => Requested /\ work'.goal = work.goal
  PROVE  IInv'
<1>1. TypeOK'
  <2>1. /\ client \in Clients /\ client.seen <= life /\ link \in {"attached", "detached", "failed"}
        /\ life \in Gens /\ toHost \in Seq(Messages) /\ Len(toHost) <= Capacity
        /\ answers \in Seq(Answers) /\ engine \in Engines
    BY DEF IInv, TypeOK
  <2>2. QED
    BY <2>1, TypesOf
<1>2. UsedOnce(client, toHost)' /\ Ended(client)' /\ Silent(toHost)'
  BY DEF IInv, Talking, UsedOnce, Ended, Silent, Attached
<1>3. Capturing(client, toHost, 0)' /\ CaptureOwned(client)'
  <2>1. Counted(client)' /\ CaptureOwned(client)'
    BY DEF IInv, Talking, Capturing, Counted, CaptureOwned
  <2>2. Beginning(client, toHost, 0)'
    BY DEF IInv, Talking, Capturing, Beginning, Of, Unheard
  <2>3. OneCapture(client, 0)'
    <3>1. ASSUME client.capture.gen # 0, NEW D, Gathered(client, 0, D)
          PROVE  Gathered(client, 0, D)'
      BY <3>1 DEF Gathered, Of, Unheard
    <3>2. QED
      BY <3>1 DEF IInv, Talking, Capturing, OneCapture
  <2>4. QED
    BY <2>1, <2>2, <2>3 DEF Capturing
<1>4. ASSUME NothingLeftOver', client.seen = life, NEW k \in Kinds
      PROVE  Transferring(client, toHost, 0, k)' /\ WorkedOn(client, k)'
  <2>1. Transferring(client, toHost, 0, k) /\ Loose(client)
    BY <1>4 DEF IInv, Talking, Replacing
  <2>2. Owned(client, toHost, k)' /\ InOrder(toHost, k)'
    BY <2>1 DEF Transferring, Owned, InOrder, Place
  <2>3. Reaches(client, toHost, k)'
    BY <2>1 DEF Transferring, Reaches, StagedUpTo, Place, Attached
  <2>4. Sound(client, k)'
    BY <2>1 DEF Transferring, Sound, Loose
  <2>5. Judged(client, toHost, 0, k)'
    <3>1. client.replace[k].gen # 0 => ~client.replace[k].sent
      BY <2>1 DEF Loose
    <3>2. client.replace[k].gen # 0 => ~client.replace[k].complete
      BY <2>1, <3>1 DEF Transferring, Sound
    <3>3. \A i \in Unheard(0) : answers[i].msg.kind = k => ~Verdict(answers[i])
      BY <2>1, <3>1 DEF Transferring, Judged
    <3>4. QED
      BY <3>2, <3>3 DEF Judged, Unheard, Verdict
  <2>6. WorkedOn(client, k)'
    BY <2>1 DEF WorkedOn, Loose, Attached
  <2>7. QED
    BY <2>2, <2>3, <2>4, <2>5, <2>6 DEF Transferring
<1>5. NothingLeftOver' => Done(client, toHost, 0)'
  <2>1. CASE history'.done = {}
    BY <2>1 DEF Done
  <2>2. CASE /\ history'.done = history.done
             /\ Requested' => Requested /\ work'.goal = work.goal
    <3>1. NothingLeftOver' => Done(client, toHost, 0)
      BY DEF IInv, Talking, Replacing
    <3>2. QED
      BY <2>2, <3>1 DEF Done, Attached, Unheard
  <2>3. QED
    BY <2>1, <2>2
<1>6. Replacing(client, toHost, 0)'
  BY <1>4, <1>5 DEF Replacing
<1>7. Idle'
  BY DEF IInv, Idle
<1>8. link' = "detached" => Len(answers') = 0
  BY DEF IInv
<1>9. QED
  BY <1>1, <1>2, <1>3, <1>6, <1>7, <1>8 DEF IInv, Talking

\* An operation that begins finds no transfer that matters.
LEMMA BeginsFacts ==
  ASSUME IInv, MayBegin, Begins
  PROVE  /\ history'.begun = engine.edition /\ history'.done = {}
         /\ history'.copied = history.copied
         /\ NothingAbandoned' = NothingAbandoned /\ NothingLeftOver' = NothingLeftOver
         /\ history' \in [begun : Nat, copied : Nat, done : SUBSET Goals,
                          lapses : SUBSET {"abandoned", "carried", "refused", "stale", "unapplied"},
                          tasks : 0 .. MaxTasks, edits : 0 .. MaxEdits,
                          beside : 0 .. MaxBeside]
         /\ NothingAbandoned => client.capture.gen = 0
         /\ NothingLeftOver /\ client.seen = life => Loose(client)
<1>1. Kept /\ engine.edition \in Nat
  BY KeptParts, EngineTypes DEF IInv, TypeOK
<1>2. history.tasks + 1 \in 0 .. MaxTasks
  <2>1. history.tasks \in 0 .. MaxTasks
    BY <1>1 DEF Kept
  <2>2. history.tasks < MaxTasks /\ MaxTasks \in Nat
    BY BoundsAssumption DEF MayBegin
  <2>3. QED
    BY <2>1, <2>2
<1>3. history' = [history EXCEPT !.tasks = history.tasks + 1, !.begun = engine.edition, !.done = {}]
  BY DEF Begins
<1> DEFINE tasks == history.tasks + 1
<1>4. history' = [history EXCEPT !.tasks = tasks, !.begun = engine.edition, !.done = {}]
      /\ tasks \in 0 .. MaxTasks
  BY <1>2, <1>3
<1> HIDE DEF tasks
<1>5. /\ history'.begun = engine.edition /\ history'.done = {}
      /\ history'.copied = history.copied /\ history'.lapses = history.lapses
      /\ history' \in [begun : Nat, copied : Nat, done : SUBSET Goals,
                       lapses : SUBSET {"abandoned", "carried", "refused", "stale", "unapplied"},
                       tasks : 0 .. MaxTasks, edits : 0 .. MaxEdits, beside : 0 .. MaxBeside]
  BY <1>1, <1>4 DEF Kept
<1>6. NothingAbandoned' = NothingAbandoned /\ NothingLeftOver' = NothingLeftOver
  BY <1>5 DEF NothingAbandoned, NothingLeftOver
<1>7. QED
  BY <1>5, <1>6, QuietClient DEF MayBegin

Tasks ==
  [kind : {"none", "save", "load", "import"}, goal : Goals,
   status : {"none", "running", "asking", "completed", "failed", "cancelled"}]
Works ==
  [op : {"none", "save", "askLoad", "load", "askImport", "prepare", "import", "capture", "copy"},
   source : Loops \union {None}, goal : Goals]

LEMMA NoWorkTyped == NoGoal \in Goals /\ NoWork \in Works /\ NoWork.op = "none"
<1>1. NoGoal \in Goals
  BY DEF NoGoal, Goal, Goals
<1>2. QED
  BY <1>1 DEF NoWork, Works

LEMMA TaskTypes ==
  /\ Kept => task \in Tasks /\ work \in Works /\ NoWork \in Works
  /\ NoWork.op = "none" /\ NoGoal \in Goals
  /\ \A kind \in {"none", "save", "load", "import"}, goal \in Goals,
        status \in {"none", "running", "asking", "completed", "failed", "cancelled"} :
       Task(kind, goal, status) \in Tasks
  /\ \A op \in {"none", "save", "askLoad", "load", "askImport", "prepare", "import", "capture",
                "copy"}, source \in Loops \union {None}, goal \in Goals :
       Work(op, source, goal) \in Works
  BY NoWorkTyped DEF Kept, Tasks, Works, Task, Work

LEMMA BeginStep ==
  ASSUME IInv, BeginSave \/ BeginLoad \/ BeginImport
  PROVE  IInv'
<1>1. /\ MayBegin /\ Begins /\ UNCHANGED <<client, link, life, toHost, answers, engine, file>>
      /\ \E kind \in {"save", "load", "import"}, goal \in Goals,
            status \in {"running", "asking", "failed"},
            op \in {"save", "load", "askLoad", "prepare", "askImport", "none"} :
           /\ task' = Task(kind, goal, status)
           /\ work' = IF op = "none" THEN NoWork ELSE Work(op, None, goal)
           /\ status = "running" => \/ kind = "save" /\ op = "save"
                                    \/ kind = "load" /\ op = "load"
                                    \/ kind = "import" /\ op = "prepare"
           /\ status = "asking" => \/ kind = "load" /\ op = "askLoad"
                                   \/ kind = "import" /\ op = "askImport"
           /\ kind = "save" \/ goal \in Contents
           /\ kind = "save" => op = "save"
  <2>1. CASE BeginSave
    BY <2>1, TaskTypes DEF BeginSave
  <2>2. ASSUME NEW kind \in {"load", "import"}, NEW goal \in Contents, NEW now, NEW asks,
               BeginTransfer(kind, goal, now, asks),
               kind = "load" => now = "load" /\ asks = "askLoad",
               kind = "import" => now = "prepare" /\ asks = "askImport"
        PROVE  <1>1!1 /\ <1>1!2
    <3>1. goal \in Goals
      BY DEF Contents, Goals
    <3>2. /\ MayBegin /\ Begins /\ UNCHANGED <<client, link, life, toHost, answers, engine, file>>
          /\ \/ task' = Task(kind, goal, "running") /\ work' = Work(now, None, goal)
             \/ task' = Task(kind, goal, "asking") /\ work' = Work(asks, None, goal)
             \/ task' = Task(kind, goal, "failed") /\ work' = NoWork
      BY <2>2 DEF BeginTransfer
    <3>3. CASE task' = Task(kind, goal, "running") /\ work' = Work(now, None, goal)
      BY <2>2, <3>1, <3>2, <3>3
    <3>4. CASE task' = Task(kind, goal, "asking") /\ work' = Work(asks, None, goal)
      BY <2>2, <3>1, <3>2, <3>4
    <3>5. CASE task' = Task(kind, goal, "failed") /\ work' = NoWork
      BY <2>2, <3>1, <3>2, <3>5
    <3>6. QED
      BY <3>2, <3>3, <3>4, <3>5
  <2>3. CASE BeginLoad
    <3>1. PICK d \in Documents : BeginTransfer("load", Goal(None, d), "load", "askLoad")
      BY <2>3 DEF BeginLoad
    <3>2. Goal(None, d) \in Contents
      BY DEF Goal, Contents, Takes
    <3>3. QED
      BY <2>2, <3>1, <3>2
  <2>4. CASE BeginImport
    <3>1. PICK l \in Loops, f \in Files :
            BeginTransfer("import", Goal(l, f), "prepare", "askImport")
      BY <2>4 DEF BeginImport
    <3>2. Goal(l, f) \in Contents
      BY DEF Goal, Contents, Takes
    <3>3. QED
      BY <2>2, <3>1, <3>2
  <2>5. QED
    BY <2>1, <2>3, <2>4
<1>2. PICK kind \in {"save", "load", "import"}, goal \in Goals,
            status \in {"running", "asking", "failed"},
            op \in {"save", "load", "askLoad", "prepare", "askImport", "none"} :
           /\ task' = Task(kind, goal, status)
           /\ work' = IF op = "none" THEN NoWork ELSE Work(op, None, goal)
           /\ status = "running" => \/ kind = "save" /\ op = "save"
                                    \/ kind = "load" /\ op = "load"
                                    \/ kind = "import" /\ op = "prepare"
           /\ status = "asking" => \/ kind = "load" /\ op = "askLoad"
                                   \/ kind = "import" /\ op = "askImport"
           /\ kind = "save" \/ goal \in Contents
           /\ kind = "save" => op = "save"
  BY <1>1
<1>3. /\ task' \in Tasks /\ work' \in Works
      /\ task'.kind = kind /\ task'.goal = goal /\ task'.status = status
      /\ work'.op = op /\ (op # "none" => work'.goal = goal)
  BY <1>2, TaskTypes, KeptParts DEF Task, Work
<1>4. /\ history'.begun = engine.edition /\ history'.done = {}
      /\ history'.copied = history.copied
      /\ NothingAbandoned' = NothingAbandoned /\ NothingLeftOver' = NothingLeftOver
      /\ history' \in [begun : Nat, copied : Nat, done : SUBSET Goals,
                       lapses : SUBSET {"abandoned", "carried", "refused", "stale", "unapplied"},
                       tasks : 0 .. MaxTasks, edits : 0 .. MaxEdits, beside : 0 .. MaxBeside]
      /\ NothingAbandoned => client.capture.gen = 0
      /\ NothingLeftOver /\ client.seen = life => Loose(client)
  BY <1>1, BeginsFacts
<1>5. Kept'
  <2>1. Kept
    BY KeptParts
  <2>2. QED
    BY <1>1, <1>3, <1>4, <2>1 DEF Kept, Tasks, Works
<1>6. Shown' /\ Asked'
  BY <1>2, <1>3 DEF Shown, Asked, Requested
<1>7. CapturesAreCurrent'
  BY <1>1, <1>3, <1>4 DEF IInv, CapturesAreCurrent
<1>8. history'.begun <= engine.edition
  <2>1. engine.edition \in Nat
    BY EngineTypes DEF IInv, TypeOK
  <2>2. QED
    BY <1>4, <2>1
<1>9. QED
  BY <1>1, <1>4, <1>5, <1>6, <1>7, <1>8, DeskKeeps

\* What ends, or is confirmed, asks the client for nothing.
LEMMA ConfirmStep ==
  ASSUME IInv, Confirm
  PROVE  IInv'
<1>1. /\ task.status = "asking" /\ Shown /\ Asked /\ Kept /\ CapturesAreCurrent
      /\ UNCHANGED <<client, link, life, toHost, answers, engine, file, history>>
      /\ history.begun <= engine.edition
      /\ \/ /\ task' = [task EXCEPT !.status = "running"]
            /\ work' = [work EXCEPT !.op = IF @ = "askLoad" THEN "load" ELSE "prepare"]
         \/ \E status \in {"completed", "failed", "cancelled"} : Finished(status)
  BY KeptParts DEF IInv, Confirm
<1>2. work.op \in {"askLoad", "askImport"} /\ Requested
  BY <1>1 DEF Shown, Requested
<1>3. SameHistory
  BY <1>1, HistoryKept
<1>4. /\ NothingAbandoned => client.capture.gen = 0
      /\ NothingLeftOver /\ client.seen = life => Loose(client)
  BY <1>2, QuietClient
<1>5. CASE /\ task' = [task EXCEPT !.status = "running"]
           /\ work' = [work EXCEPT !.op = IF @ = "askLoad" THEN "load" ELSE "prepare"]
  <2>1. PICK op \in {"load", "prepare"} : /\ work' = [work EXCEPT !.op = op]
                                          /\ op = IF work.op = "askLoad" THEN "load" ELSE "prepare"
    BY <1>5
  <2>2. /\ Kept' /\ work'.op = op /\ work'.goal = work.goal
        /\ task'.status = "running" /\ task'.kind = task.kind /\ task'.goal = task.goal
    BY <1>1, <1>5, <2>1 DEF Kept
  <2>3. Shown' /\ Asked'
    BY <1>1, <1>2, <2>1, <2>2 DEF Shown, Asked, Requested
  <2>4. CapturesAreCurrent'
    BY <1>1, <1>3, <2>2, FileKept
  <2>5. QED
    BY <1>1, <1>2, <1>3, <1>4, <2>2, <2>3, <2>4, DeskKeeps DEF SameHistory
<1>6. ASSUME NEW status \in {"completed", "failed", "cancelled"}, Finished(status)
      PROVE  IInv'
  <2>1. Kept' /\ work'.op = "none" /\ ~Requested' /\ Shown' /\ Asked'
    BY <1>1, <1>6, EndedKept DEF Kept
  <2>2. CapturesAreCurrent'
    BY <1>1, <1>3, <2>1, FileKept
  <2>3. QED
    BY <1>1, <1>3, <1>4, <2>1, <2>2, DeskKeeps DEF SameHistory
<1>7. QED
  BY <1>1, <1>5, <1>6

LEMMA OutsideStep ==
  ASSUME IInv, CancelTask \/ WriteFails
  PROVE  IInv'
<1>1. /\ Kept /\ CapturesAreCurrent /\ history.begun <= engine.edition /\ Outside
      /\ UNCHANGED <<client, link, life, toHost, answers, engine, file>>
      /\ \E status \in {"completed", "failed", "cancelled"} : Finished(status)
  BY KeptParts DEF IInv, CancelTask, WriteFails
<1>2. PICK lapses \in SUBSET {"abandoned", "carried", "refused", "stale", "unapplied"} :
        /\ history' = [history EXCEPT !.lapses = lapses, !.done = {}]
        /\ lapses = IF Abandons THEN history.lapses \union {"abandoned"} ELSE history.lapses
  BY <1>1 DEF Outside, Kept
<1>3. /\ history'.begun = history.begun /\ history'.copied = history.copied
      /\ history'.done = {} /\ history'.lapses = lapses
      /\ history' \in [begun : Nat, copied : Nat, done : SUBSET Goals,
                       lapses : SUBSET {"abandoned", "carried", "refused", "stale", "unapplied"},
                       tasks : 0 .. MaxTasks, edits : 0 .. MaxEdits, beside : 0 .. MaxBeside]
  BY <1>1, <1>2 DEF Kept
<1>4. /\ NothingAbandoned' => NothingAbandoned /\ ~Abandons
      /\ NothingLeftOver' => NothingLeftOver /\ ~Abandons
  BY <1>2, <1>3 DEF NothingAbandoned, NothingLeftOver
<1>5. ~Abandons => /\ NothingAbandoned => client.capture.gen = 0
                   /\ NothingLeftOver /\ client.seen = life => Loose(client)
  BY QuietClient DEF Abandons
<1>6. /\ Kept' /\ work'.op = "none" /\ Shown' /\ Asked'
  BY <1>1, <1>3, EndedKept DEF Kept
<1>7. CapturesAreCurrent'
  BY <1>1, <1>3, <1>4, <1>6 DEF CapturesAreCurrent
<1>8. QED
  BY <1>1, <1>3, <1>4, <1>5, <1>6, <1>7, DeskKeeps

\* A command beside the transfers belongs to none.
LEMMA BesideStep ==
  ASSUME IInv, PostBeside
  PROVE  IInv'
<1>0. PICK op \in {"ask", "tell"} :
        /\ toHost' = Append(toHost, Beside(op))
        /\ history' = [history EXCEPT !.beside = @ + 1,
             !.lapses = IF op = "ask" THEN @ \union {"refused"} ELSE @]
  BY DEF PostBeside
<1> DEFINE m == Beside(op)
           lapses == IF op = "ask" THEN history.lapses \union {"refused"} ELSE history.lapses
<1>1. /\ Attached /\ Len(toHost) < Capacity /\ history.beside < MaxBeside
      /\ toHost' = Append(toHost, m)
      /\ history' = [history EXCEPT !.beside = @ + 1, !.lapses = lapses]
      /\ UNCHANGED <<task, work, client, link, life, answers, engine, file>>
  BY <1>0 DEF PostBeside, CanPost, Step
<1>2. /\ toHost \in Seq(Messages) /\ answers \in Seq(Answers) /\ client \in Clients
      /\ client.nextGen \in Nat /\ 0 < client.nextGen /\ Kept /\ Len(toHost) \in Nat
  <2>1. toHost \in Seq(Messages) /\ answers \in Seq(Answers) /\ client \in Clients
    BY DEF IInv, TypeOK
  <2>2. client.nextGen \in Gens
    BY <2>1 DEF Clients
  <2>3. QED
    BY <2>1, <2>2, KeptParts, Domains DEF Gens
<1>3. m \in Messages /\ m.kind = "beside" /\ m.gen = 0
  <2>1. 0 \in 0 .. Chunks
    BY Ranges, Sizes
  <2>2. QED
    BY <2>1, TaskTypes DEF Beside, Message, Messages
<1> HIDE DEF m, lapses
<1>4. /\ toHost' \in Seq(Messages) /\ Len(toHost') = Len(toHost) + 1
      /\ Extends(toHost', toHost)
      /\ \A i \in Added(toHost', toHost) : toHost'[i] = m
  BY <1>1, <1>2, <1>3, Appended
<1>5. \A i \in DOMAIN toHost' : toHost'[i] = m \/ (i \in DOMAIN toHost /\ toHost'[i] = toHost[i])
  BY <1>2, <1>4, Parts
<1>6. /\ history'.begun = history.begun /\ history'.done = history.done
      /\ history'.copied = history.copied
      /\ NothingAbandoned' = NothingAbandoned /\ NothingLeftOver' = NothingLeftOver /\ Kept'
  <2> DEFINE beside == history.beside + 1
  <2>1. beside \in 0 .. MaxBeside
    <3>1. history.beside \in 0 .. MaxBeside /\ MaxBeside \in Nat
      BY <1>2, BoundsAssumption DEF Kept
    <3>2. QED
      BY <1>1, <3>1
  <2>2. /\ history' = [history EXCEPT !.beside = beside, !.lapses = lapses]
        /\ lapses \in SUBSET {"abandoned", "carried", "refused", "stale", "unapplied"}
    BY <1>1, <1>2 DEF lapses, Kept
  <2> HIDE DEF beside
  <2>3. /\ history'.begun = history.begun /\ history'.done = history.done
        /\ history'.copied = history.copied
        /\ history'.lapses = lapses
        /\ history' \in [begun : Nat, copied : Nat, done : SUBSET Goals,
                         lapses : SUBSET {"abandoned", "carried", "refused", "stale", "unapplied"},
                         tasks : 0 .. MaxTasks, edits : 0 .. MaxEdits, beside : 0 .. MaxBeside]
    BY <1>2, <2>1, <2>2 DEF Kept
  <2>4. QED
    BY <1>1, <1>2, <2>3 DEF NothingAbandoned, NothingLeftOver, Kept, lapses
<1>7. TypeOK'
  <2>1. /\ client \in Clients /\ client.seen <= life /\ link \in {"attached", "detached", "failed"}
        /\ life \in Gens /\ engine \in Engines
    BY DEF IInv, TypeOK
  <2>2. (Len(toHost) <= Capacity)'
    BY <1>1, <1>2, <1>4, Sizes
  <2>3. QED
    BY <1>1, <1>2, <1>4, <1>6, <2>1, <2>2, TypesOf
<1>8. UsedOnce(client, toHost)' /\ Ended(client)' /\ Silent(toHost)'
  <2>1. UsedOnce(client, toHost) /\ Ended(client)
    BY DEF IInv, Talking
  <2>2. \A i \in DOMAIN toHost' : toHost'[i].gen < client.nextGen
    BY <1>2, <1>3, <1>5, <2>1 DEF UsedOnce
  <2>3. QED
    BY <1>1, <2>1, <2>2 DEF UsedOnce, Ended, Silent, Attached
<1>9. "beside" # "capture" /\ "beside" \notin Kinds /\ 0 <= 0
  BY DEF Kinds
<1>10. Capturing(client, toHost', 0)
  <2>1. Capturing(client, toHost, 0) /\ \A i \in Added(toHost', toHost) : toHost'[i].kind # "capture"
    BY <1>3, <1>4, <1>9 DEF IInv, Talking
  <2>2. QED
    BY <1>2, <1>4, <1>9, <2>1, CaptureFrame
<1>11. Capturing(client, toHost, 0)' /\ CaptureOwned(client)'
  <2>1. Counted(client)' /\ CaptureOwned(client)'
    BY <1>1, <1>6 DEF IInv, Talking, Capturing, Counted, CaptureOwned
  <2>2. Beginning(client, toHost, 0)'
    BY <1>1, <1>10 DEF Capturing, Beginning, Of, Unheard
  <2>3. OneCapture(client, 0)'
    <3>1. \A D : Gathered(client, 0, D) => Gathered(client, 0, D)'
      BY <1>1, <1>6 DEF Gathered, Of, Unheard
    <3>2. QED
      BY <1>1, <1>10, <3>1 DEF Capturing, OneCapture
  <2>4. QED
    BY <2>1, <2>2, <2>3 DEF Capturing
<1>12. ASSUME NEW k \in Kinds, Transferring(client, toHost, 0, k), WorkedOn(client, k)
       PROVE  Transferring(client, toHost, 0, k)' /\ WorkedOn(client, k)'
  <2>1. Transferring(client, toHost', 0, k)
    <3>1. \A i \in Added(toHost', toHost) : toHost'[i].kind # k
      BY <1>3, <1>4, <1>9
    <3>2. QED
      BY <1>2, <1>4, <1>9, <1>12, <3>1, ReplaceFrame
  <2>2. Owned(client, toHost, k)' /\ InOrder(toHost, k)' /\ Reaches(client, toHost, k)'
    BY <1>1, <2>1 DEF Transferring, Owned, InOrder, Reaches, StagedUpTo, Place, Attached
  <2>3. Sound(client, k)'
    BY <1>1, <1>6, <2>1 DEF Transferring, Sound
  <2>4. Judged(client, toHost, 0, k)'
    BY <1>1, <1>6, <2>1 DEF Transferring, Judged, Verdict, Unheard
  <2>5. WorkedOn(client, k)'
    BY <1>1, <1>12 DEF WorkedOn, Working, Attached
  <2>6. QED
    BY <2>2, <2>3, <2>4, <2>5 DEF Transferring
<1>13. ASSUME Done(client, toHost, 0)
       PROVE  Done(client, toHost, 0)'
  <2>1. \A i \in DOMAIN toHost' :
          toHost'[i].kind = Kind(work.goal) => i \in DOMAIN toHost /\ toHost'[i] = toHost[i]
    BY <1>3, <1>5, <1>9, KindNames
  <2>2. QED
    BY <1>1, <1>6, <1>13, <2>1 DEF Done, Requested, Attached, Unheard
<1>14. Replacing(client, toHost, 0)'
  BY <1>1, <1>6, <1>12, <1>13 DEF IInv, Talking, Replacing
<1>15. Idle'
  BY <1>1, <1>3, <1>5, <1>6 DEF IInv, Idle
<1>16. Shown' /\ Asked' /\ (history.begun <= engine.edition)' /\ CapturesAreCurrent'
  BY <1>1, <1>6 DEF IInv, Shown, Asked, Requested, CapturesAreCurrent
<1>17. link' = "detached" => Len(answers') = 0
  BY <1>1 DEF IInv
<1>18. QED
  BY <1>7, <1>8, <1>11, <1>14, <1>15, <1>16, <1>17 DEF IInv, Talking

-----------------------------------------------------------------------------
(* A duplicate asks the client outside of an update.                       *)

LEMMA DeskBasic ==
  ASSUME IInv
  PROVE  LET s == Step(client, toHost)
         IN Basic(s) /\ s.c = client /\ s.out = toHost /\ s.ok /\ s.data = <<>>
<1> DEFINE s == Step(client, toHost)
<1>1. /\ client \in Clients /\ toHost \in Seq(Messages) /\ Len(toHost) <= Capacity
      /\ UsedOnce(client, toHost) /\ Ended(client) /\ Silent(toHost) /\ <<>> \in Seq(Captures)
  BY EmptySeq DEF IInv, TypeOK, Talking
<1>2. /\ s \in Steps /\ s.c = client /\ s.out = toHost /\ s.ok = TRUE /\ s.data = <<>>
  BY <1>1 DEF Step, Steps
<1>3. QED
  BY <1>1, <1>2 DEF Basic

LEMMA ReplaceBasic ==
  ASSUME NEW s, NEW r, NEW k \in Kinds, NEW rep, Basic(s), Posts(r, s),
         r.c = [s.c EXCEPT !.replace = [s.c.replace EXCEPT ![k] = rep]],
         rep.gen = s.c.replace[k].gen,
         \A i \in Added(r.out, s.out) : r.out[i].gen = s.c.replace[k].gen
  PROVE  Basic(r) /\ r.c.capture = s.c.capture /\ r.c.seen = s.c.seen /\ r.data = s.data
<1>1. /\ s \in Steps /\ s.c \in Clients /\ r.data = s.data
      /\ s.c.replace \in [Kinds -> ReplaceTransfers]
  BY StepParts DEF Basic, Posts
<1>2. /\ r.c.seen = s.c.seen /\ r.c.nextGen = s.c.nextGen /\ r.c.errors = s.c.errors
      /\ r.c.capture = s.c.capture
      /\ r.c.replace = [s.c.replace EXCEPT ![k] = rep]
  BY <1>1 DEF Clients
<1>3. \A j \in Kinds : r.c.replace[j].gen = s.c.replace[j].gen
  BY <1>1, <1>2
<1>4. s.c.replace[k].gen < s.c.nextGen
  BY DEF Basic, UsedOnce
<1>5. QED
  BY <1>1, <1>2, <1>3, <1>4, PostsKeepBasic

LEMMA PumpBasic ==
  ASSUME NEW s, Basic(s), NEW k \in Kinds
  PROVE  /\ Basic(Pump(s, k)) /\ Pump(s, k).c.capture = s.c.capture
         /\ Pump(s, k).c.seen = s.c.seen /\ Pump(s, k).data = s.data
<1> DEFINE Fine(r) == Basic(r) /\ r.c.capture = s.c.capture /\ r.c.seen = s.c.seen
    /\ r.data = s.data
<1>1. s \in Steps /\ Len(s.out) <= Capacity /\ s.c.replace \in [Kinds -> ReplaceTransfers]
  BY StepParts DEF Basic
<1>2. CASE Pump(s, k) = s
  BY <1>2
<1>3. CASE Pump(s, k) = Failing(s)
  BY <1>1, <1>3, FailingFacts DEF Basic
<1>4. ASSUME NEW m \in Nat, Pumpable(s, k, m)
      PROVE  /\ Fine(WritesPosted(s, k, m))
             /\ Committable(WritesPosted(s, k, m), k)
                  => Fine(CommitPosted(WritesPosted(s, k, m), k))
  <2> DEFINE t == WritesPosted(s, k, m)
             old == s.c.replace[k]
             rep == [old EXCEPT !.next = old.next + m]
             r == CommitPosted(t, k)
             full == [t.c.replace[k] EXCEPT !.sent = TRUE]
  <2>1. /\ old.gen # 0 /\ old.next + m <= Chunks /\ Len(s.out) + m <= Capacity
        /\ Attached \/ m = 0
    BY <1>4 DEF Pumpable
  <2>2. Written(t, s, k, m)
    BY <1>1, <2>1, WriteFacts
  <2>3. /\ t \in Steps /\ Len(t.out) = Len(s.out) + m
        /\ t.c = [s.c EXCEPT !.replace = [s.c.replace EXCEPT ![k] = rep]]
        /\ Extends(t.out, s.out)
        /\ \A i \in Added(t.out, s.out) : t.out[i].gen = old.gen
        /\ t.ok = s.ok /\ t.data = s.data
    BY <2>2, Zenon DEF Written
  <2>4. rep.gen = old.gen
    BY <1>1, <2>1, ReplaceTypes DEF ReplaceRecords
  <2>5. Posts(t, s)
    BY <1>1, <2>1, <2>3, StepParts DEF Posts
  <2> HIDE DEF t, rep
  <2>6. Fine(t)
    BY <2>3, <2>4, <2>5, ReplaceBasic
  <2>7. ASSUME Committable(t, k)
        PROVE  Fine(r)
    <3>1. t.c.replace[k].gen # 0 /\ Len(t.out) < Capacity /\ Attached
      BY <2>7 DEF Committable
    <3>2. /\ r \in Steps /\ Len(r.out) <= Capacity
          /\ r.c = [t.c EXCEPT !.replace = [t.c.replace EXCEPT ![k] = full]]
          /\ Extends(r.out, t.out) /\ Added(r.out, t.out) = {Len(t.out) + 1}
          /\ r.out[Len(t.out) + 1] = Message("commit", k, t.c.replace[k].gen, Chunks, t.c.replace[k].goal)
          /\ r.ok = t.ok /\ r.data = t.data
      BY <2>3, <3>1, CommitFacts
    <3> HIDE DEF r
    <3>3. Posts(r, t)
      BY <3>1, <3>2 DEF Posts
    <3>4. full.gen = t.c.replace[k].gen
      BY <2>3, <3>1, StepParts, ReplaceTypes DEF ReplaceRecords
    <3>5. \A i \in Added(r.out, t.out) : r.out[i].gen = t.c.replace[k].gen
      BY <3>2 DEF Message
    <3> HIDE DEF full
    <3>6. Basic(t)
      BY <2>6
    <3>7. Basic(r) /\ r.c.capture = t.c.capture /\ r.c.seen = t.c.seen /\ r.data = t.data
      BY <3>2, <3>3, <3>4, <3>5, <3>6, ReplaceBasic
    <3>8. QED
      BY <2>6, <3>7
  <2>8. QED
    BY <2>6, <2>7 DEF t
<1>5. QED
  BY <1>1, <1>2, <1>3, <1>4, PumpCases

\* The step of a replacement, whatever was asked for before.
LEMMA ReplaceByBasic ==
  ASSUME TypeOK, NEW s, Basic(s), s.ok, NEW goal \in Contents
  PROVE  LET r == ReplaceBy(s, goal)
         IN Basic(r) /\ r.c.capture = s.c.capture /\ r.c.seen \in {s.c.seen, life}
<1> DEFINE k == Kind(goal)
           rep == s.c.replace[k]
           r == ReplaceBy(s, goal)
           Fine(t) == Basic(t) /\ t.c.capture = s.c.capture /\ t.c.seen \in {s.c.seen, life}
<1>1. /\ s \in Steps /\ s.c \in Clients /\ k \in Kinds
      /\ s.c.replace \in [Kinds -> ReplaceTransfers] /\ UsedOnce(s.c, s.out) /\ Ended(s.c)
      /\ s.c.nextGen \in Nat /\ 0 < s.c.nextGen
  BY StepParts, KindNames DEF Basic
<1>2. CASE k \in s.c.errors
  <2> DEFINE d == [s.c EXCEPT !.errors = s.c.errors \ {k}]
             t == [s EXCEPT !.c = d]
  <2>1. r = Failing(t)
    BY <1>1, <1>2 DEF ReplaceBy, Steps, Clients
  <2>2. d \in Clients /\ d.capture = s.c.capture /\ d.replace = s.c.replace /\ d.seen = s.c.seen
        /\ d.nextGen = s.c.nextGen /\ d.errors = s.c.errors \ {k}
    BY <1>1 DEF Clients
  <2> HIDE DEF d
  <2>3. t \in Steps /\ t.c = d /\ t.out = s.out
    BY <1>1, <2>2 DEF Steps
  <2> HIDE DEF t
  <2>4. r \in Steps /\ r.c = d /\ r.out = s.out
    BY <1>1, <2>1, <2>3, FailingFacts
  <2> HIDE DEF r
  <2>5. UsedOnce(r.c, r.out) /\ Ended(r.c)
    BY <1>1, <2>2, <2>4 DEF UsedOnce, Ended
  <2>6. QED
    BY <2>2, <2>4, <2>5 DEF Basic, r
<1>3. CASE k \notin s.c.errors /\ rep.gen # 0 /\ rep.goal # goal
  <2>1. r = Failing(s)
    BY <1>3 DEF ReplaceBy
  <2> HIDE DEF r
  <2>2. r \in Steps /\ r.c = s.c /\ r.out = s.out
    BY <1>1, <2>1, FailingFacts
  <2>3. QED
    BY <2>2 DEF Basic, r
<1>4. CASE k \notin s.c.errors /\ rep.gen # 0 /\ rep.goal = goal /\ rep.complete
  <2> DEFINE replace == [s.c.replace EXCEPT ![k] = NoTransfer]
             d == [s.c EXCEPT !.replace = replace]
  <2>1. r = [s EXCEPT !.c = d, !.data = <<goal>>]
    BY <1>1, <1>4 DEF ReplaceBy, Steps, Clients
  <2>2. /\ replace \in [Kinds -> ReplaceTransfers] /\ NoTransfer.gen = 0
        /\ \A j \in Kinds : replace[j].gen = IF j = k THEN 0 ELSE s.c.replace[j].gen
    BY <1>1, ReplaceTypes
  <2> HIDE DEF replace
  <2>3. d \in Clients /\ d.capture = s.c.capture /\ d.replace = replace /\ d.seen = s.c.seen
        /\ d.nextGen = s.c.nextGen /\ d.errors = s.c.errors
    BY <1>1, <2>2 DEF Clients
  <2> HIDE DEF d
  <2>4. <<goal>> \in Seq(Contents)
    OBVIOUS
  <2>5. r \in Steps /\ r.c = d /\ r.out = s.out
    BY <1>1, <2>1, <2>3, <2>4 DEF Steps
  <2> HIDE DEF r, k
  <2>6. UsedOnce(r.c, r.out) /\ Ended(r.c)
    BY <1>1, <2>2, <2>3, <2>5 DEF UsedOnce, Ended
  <2>7. QED
    BY <2>3, <2>5, <2>6 DEF Basic, r
<1>5. CASE k \notin s.c.errors /\ rep.gen # 0 /\ rep.goal = goal /\ ~rep.complete
  <2>1. r = Pump(s, k)
    BY <1>5 DEF ReplaceBy
  <2>2. QED
    BY <1>1, <2>1, PumpBasic
<1>6. CASE k \notin s.c.errors /\ rep.gen = 0
  <2>1. r = ReplaceBegun(s, goal)
    BY <1>6 DEF ReplaceBy
  <2> DEFINE begun == Opened(s, goal)
             t == Opening(s, goal)
  <2>2. /\ ReplaceBegun(s, goal) = IF begun.ok THEN Pump(t, k) ELSE begun
        /\ Basic(begun) /\ begun.c.seen = life /\ begun.c.capture = s.c.capture
        /\ begun.ok => Basic(t) /\ t.c.seen = life /\ t.c.capture = s.c.capture
    BY <1>6, OpeningFacts
  <2>3. QED
    BY <1>1, <2>1, <2>2, PumpBasic
<1>7. QED
  BY <1>2, <1>3, <1>4, <1>5, <1>6

\* What a duplicate leaves behind it, in four cases that are told apart below.
LEMMA DuplicateKeeps ==
  ASSUME IInv, MayBegin, NEW r, Basic(r), client' = r.c, toHost' = r.out,
         UNCHANGED <<task, link, life, answers, engine, file>>,
         Kept', Asked', CapturesAreCurrent', work'.op \in {"none", "capture", "copy"},
         history'.begun = engine.edition, history'.done = {},
         NothingAbandoned' = NothingAbandoned, NothingLeftOver' => NothingLeftOver,
         r.c.seen \in {client.seen, life},
         Counted(r.c), Beginning(r.c, r.out, 0), OneCapture(client, 0)',
         NothingAbandoned /\ r.c.capture.gen # 0 => work'.op = "capture",
         NothingLeftOver' /\ r.c.seen = life =>
           Loose(r.c) /\ \A k \in Kinds : Transferring(r.c, r.out, 0, k),
         NothingLeftOver' /\ r.c.seen # life => client.seen # life /\ toHost' = toHost
  PROVE  IInv'
<1>1. r.c \in Clients /\ r.out \in Seq(Messages) /\ Len(r.out) <= Capacity
  BY StepParts DEF Basic
<1>2. TypeOK'
  <2>1. /\ client.seen <= life /\ link \in {"attached", "detached", "failed"}
        /\ life \in Gens /\ answers \in Seq(Answers) /\ engine \in Engines
    BY DEF IInv, TypeOK
  <2>2. (client.seen <= life)'
    BY <2>1 DEF Gens
  <2>3. QED
    BY <1>1, <2>1, <2>2, TypesOf
<1>3. UsedOnce(client, toHost)' /\ Ended(client)' /\ Silent(toHost)'
  BY DEF Basic, UsedOnce, Ended, Silent, Attached
<1>4. Capturing(client, toHost, 0)' /\ CaptureOwned(client)'
  <2>1. Counted(client)' /\ CaptureOwned(client)'
    BY DEF Counted, CaptureOwned
  <2>2. Beginning(client, toHost, 0)'
    BY DEF Beginning, Of, Unheard
  <2>3. QED
    BY <2>1, <2>2 DEF Capturing
<1>5. ASSUME NothingLeftOver', r.c.seen = life, NEW k \in Kinds
      PROVE  Transferring(client, toHost, 0, k)' /\ WorkedOn(client, k)'
  <2>1. Transferring(r.c, r.out, 0, k) /\ Loose(r.c)
    BY <1>5
  <2>2. Owned(client, toHost, k)' /\ InOrder(toHost, k)'
    BY <2>1 DEF Transferring, Owned, InOrder, Place
  <2>3. Reaches(client, toHost, k)'
    BY <2>1 DEF Transferring, Reaches, StagedUpTo, Place, Attached
  <2>4. Sound(client, k)'
    BY <2>1 DEF Transferring, Sound, Loose
  <2>5. Judged(client, toHost, 0, k)'
    <3>1. r.c.replace[k].gen # 0 => ~r.c.replace[k].sent
      BY <2>1 DEF Loose
    <3>2. r.c.replace[k].gen # 0 => ~r.c.replace[k].complete
      BY <2>1, <3>1 DEF Transferring, Sound
    <3>3. \A i \in Unheard(0) : answers[i].msg.kind = k => ~Verdict(answers[i])
      BY <2>1, <3>1 DEF Transferring, Judged
    <3>4. QED
      BY <3>2, <3>3 DEF Judged, Unheard, Verdict
  <2>6. WorkedOn(client, k)'
    BY <2>1 DEF WorkedOn, Loose, Attached
  <2>7. QED
    BY <2>2, <2>3, <2>4, <2>5, <2>6 DEF Transferring
<1>6. Done(client, toHost, 0)'
  BY DEF Done
<1>7. Replacing(client, toHost, 0)'
  BY <1>5, <1>6 DEF Replacing
<1>8. Idle'
  BY DEF IInv, Idle
<1>9. Shown'
  BY DEF IInv, MayBegin, Shown
<1>10. (history.begun <= engine.edition)'
  <2>1. engine.edition \in Nat
    BY EngineTypes DEF IInv, TypeOK
  <2>2. QED
    BY <2>1
<1>11. link' = "detached" => Len(answers') = 0
  BY DEF IInv
<1>12. QED
  BY <1>2, <1>3, <1>4, <1>7, <1>8, <1>9, <1>10, <1>11 DEF IInv, Talking

\* A capture that just began.
LEMMA DuplicateBegins ==
  ASSUME IInv, MayBegin, client.capture.gen = 0, "capture" \notin client.errors,
         client' = CaptureBegun(Step(client, toHost)).c,
         toHost' = CaptureBegun(Step(client, toHost)).out,
         UNCHANGED <<task, link, life, answers, engine, file>>,
         Kept', Asked', CapturesAreCurrent',
         work'.op = IF CaptureBegun(Step(client, toHost)).ok THEN "capture" ELSE "none",
         history'.begun = engine.edition, history'.done = {},
         NothingAbandoned' = NothingAbandoned,
         NothingLeftOver' => NothingLeftOver /\ ~Carries
  PROVE  IInv'
<1> DEFINE s == Step(client, toHost)
           r == CaptureBegun(s)
<1>1. /\ TypeOK /\ history.begun <= engine.edition /\ Basic(s) /\ s.ok
      /\ s.c = client /\ s.out = toHost
      /\ toHost \in Seq(Messages) /\ answers \in Seq(Answers) /\ 0 \in Nat /\ 0 <= 0
  BY DeskBasic DEF IInv, TypeOK
<1> HIDE DEF s
<1>2. /\ Basic(r) /\ r.c.seen = life /\ Capturing(r.c, r.out, 0)
      /\ r.c.replace = client.replace /\ Extends(r.out, toHost)
      /\ \A i \in Added(r.out, toHost) : r.out[i].kind = "capture"
      /\ IF r.ok THEN r.c.capture = NewCapture(client.nextGen) ELSE r.c.capture.gen = 0
  BY <1>1, CaptureBegunFacts
<1>3. client' = r.c /\ toHost' = r.out /\ work'.op = IF r.ok THEN "capture" ELSE "none"
  BY DEF s
<1> HIDE DEF r
<1>4. r.out \in Seq(Messages) /\ "capture" \notin Kinds
  BY <1>2, StepParts, KindNames DEF Basic
<1>5. OneCapture(client, 0)'
  <2>1. CASE ~r.ok
    BY <1>2, <1>3, <2>1 DEF OneCapture
  <2>2. CASE r.ok
    <3>1. /\ r.c.capture.gen = client.nextGen /\ r.c.capture.got = <<>> /\ DOMAIN <<>> = {}
      BY <1>2, <2>2, EmptySeq DEF NewCapture
    <3>2. /\ engine.capture.gen # client.nextGen
          /\ \A i \in DOMAIN answers : answers[i].msg.gen # client.nextGen
      <4>1. client.nextGen \in Nat
        BY <1>1, StepParts DEF Basic
      <4>2. \A x \in Nat : x < client.nextGen => x # client.nextGen
        BY <4>1
      <4>3. UsedOnce(client, toHost)
        BY DEF IInv, Talking
      <4>4. QED
        BY <1>1, <4>2, <4>3, Generations DEF UsedOnce
    <3>3. Captured \in Captures /\ Captured.edition = engine.edition /\ engine.edition \in Nat
      BY <1>1 DEF Captured, Captures, TypeOK, Engines
    <3>4. /\ (engine.capture.gen # client.capture.gen)'
          /\ \A i \in DOMAIN answers' : answers'[i].msg.gen # client'.capture.gen
          /\ client'.capture.got = <<>>
      BY <1>3, <3>1, <3>2
    <3>5. Captured.edition >= history'.begun
      BY <3>3
    <3>6. ASSUME NEW D, D.edition >= history'.begun
          PROVE  Gathered(client, 0, D)'
      BY <3>1, <3>4, <3>6 DEF Gathered, Of, Unheard
    <3>7. \E D \in Captures : Gathered(client, 0, D)'
      BY <3>3, <3>5, <3>6
    <3>8. QED
      BY <3>7 DEF OneCapture
  <2>3. QED
    BY <2>1, <2>2
<1>6. ASSUME NothingLeftOver'
      PROVE  Loose(r.c) /\ \A k \in Kinds : Transferring(r.c, r.out, 0, k)
  <2>1. NothingLeftOver /\ (client.seen = life \/ Transfers(client) = {})
    BY <1>6 DEF Carries
  <2>2. CASE client.seen = life
    <3>1. Loose(client)
      BY <2>1, <2>2, QuietClient DEF MayBegin
    <3>2. ASSUME NEW k \in Kinds
          PROVE  Transferring(r.c, r.out, 0, k)
      <4>1. Transferring(client, toHost, 0, k)
        BY <2>1, <2>2 DEF IInv, Talking, Replacing
      <4>2. \A i \in Added(r.out, toHost) : r.out[i].kind # k
        BY <1>2, <1>4
      <4>3. r.c.replace[k] = client.replace[k] /\ Extends(r.out, toHost)
        BY <1>2
      <4>4. toHost \in Seq(Messages) /\ r.out \in Seq(Messages) /\ answers \in Seq(Answers)
        BY <1>1, <1>4
      <4>5. QED
        BY <4>1, <4>2, <4>3, <4>4, ReplaceStays
    <3>3. QED
      BY <1>2, <3>1, <3>2 DEF Loose
  <2>3. CASE client.seen # life /\ Transfers(client) = {}
    <3>1. \A k \in Kinds : r.c.replace[k].gen = 0
      BY <1>2, <2>3 DEF Transfers
    <3>2. /\ \A i \in DOMAIN toHost : toHost[i].kind = "beside"
          /\ \A i \in DOMAIN answers : answers[i].msg.kind = "beside"
      BY <2>1, <2>3 DEF IInv, Idle
    <3>3. \A i \in DOMAIN r.out : r.out[i].kind \in {"beside", "capture"}
      BY <1>1, <1>2, <1>4, <3>2, Parts
    <3>4. ASSUME NEW k \in Kinds
          PROVE  Transferring(r.c, r.out, 0, k)
      <4>1. k # "beside" /\ k # "capture"
        BY DEF Kinds
      <4>2. \A i \in Unheard(0) : answers[i].msg.kind # k
        BY <3>2, <4>1 DEF Unheard
      <4>3. QED
        BY <3>1, <3>3, <4>1, <4>2, NoneTransferring
    <3>5. QED
      BY <3>1, <3>4 DEF Loose
  <2>4. QED
    BY <2>1, <2>2, <2>3
<1>7. Counted(r.c) /\ Beginning(r.c, r.out, 0)
  BY <1>2 DEF Capturing
<1>8. NothingAbandoned /\ r.c.capture.gen # 0 => work'.op = "capture"
  BY <1>2, <1>3
<1>9. work'.op \in {"none", "capture", "copy"}
  BY <1>3
<1>10. QED
  BY <1>2, <1>3, <1>5, <1>6, <1>7, <1>8, <1>9, DuplicateKeeps

LEMMA DuplicateHistory ==
  ASSUME IInv, MayBegin, NEW copied \in Nat,
         history' = [history EXCEPT !.tasks = @ + 1, !.begun = engine.edition, !.done = {},
                       !.copied = copied,
                       !.lapses = IF Carries THEN @ \union {"carried"} ELSE @]
  PROVE  /\ history'.begun = engine.edition /\ history'.done = {}
         /\ history' \in [begun : Nat, copied : Nat, done : SUBSET Goals,
                          lapses : SUBSET {"abandoned", "carried", "refused", "stale", "unapplied"},
                          tasks : 0 .. MaxTasks, edits : 0 .. MaxEdits,
                          beside : 0 .. MaxBeside]
         /\ NothingAbandoned' = NothingAbandoned
         /\ NothingLeftOver' => NothingLeftOver /\ ~Carries
<1> DEFINE tasks == history.tasks + 1
           lapses == IF Carries THEN history.lapses \union {"carried"} ELSE history.lapses
<1>1. Kept /\ engine.edition \in Nat
  BY KeptParts, EngineTypes DEF IInv, TypeOK
<1>2. tasks \in 0 .. MaxTasks
  <2>1. history.tasks \in 0 .. MaxTasks
    BY <1>1 DEF Kept
  <2>2. history.tasks < MaxTasks /\ MaxTasks \in Nat
    BY BoundsAssumption DEF MayBegin
  <2>3. QED
    BY <2>1, <2>2
<1>3. lapses \in SUBSET {"abandoned", "carried", "refused", "stale", "unapplied"}
  BY <1>1 DEF Kept
<1>4. history' = [history EXCEPT !.tasks = tasks, !.begun = engine.edition, !.done = {},
                                 !.copied = copied, !.lapses = lapses]
  OBVIOUS
<1> HIDE DEF tasks, lapses
<1>5. /\ history'.begun = engine.edition /\ history'.done = {} /\ history'.lapses = lapses
      /\ history' \in [begun : Nat, copied : Nat, done : SUBSET Goals,
                       lapses : SUBSET {"abandoned", "carried", "refused", "stale", "unapplied"},
                       tasks : 0 .. MaxTasks, edits : 0 .. MaxEdits, beside : 0 .. MaxBeside]
  <2> DEFINE T == 0 .. MaxTasks
             E == 0 .. MaxEdits
             R == 0 .. MaxBeside
             P == SUBSET {"abandoned", "carried", "refused", "stale", "unapplied"}
  <2>1. history \in [begun : Nat, copied : Nat, done : SUBSET Goals, lapses : P, tasks : T,
                     edits : E, beside : R]
    BY <1>1 DEF Kept
  <2>2. tasks \in T /\ lapses \in P /\ engine.edition \in Nat /\ {} \in SUBSET Goals
    BY <1>1, <1>2, <1>3
  <2> HIDE DEF T, E, R, P
  <2>3. /\ history'.begun = engine.edition /\ history'.done = {} /\ history'.lapses = lapses
        /\ history' \in [begun : Nat, copied : Nat, done : SUBSET Goals, lapses : P, tasks : T,
                         edits : E, beside : R]
    BY <1>4, <2>1, <2>2
  <2>4. QED
    BY <2>3 DEF T, E, R, P
<1>6. /\ NothingAbandoned' = NothingAbandoned
      /\ NothingLeftOver' => NothingLeftOver /\ ~Carries
  BY <1>5 DEF NothingAbandoned, NothingLeftOver, lapses
<1>7. QED
  BY <1>5, <1>6

LEMMA DuplicateStep ==
  ASSUME IInv, DuplicateLoop
  PROVE  IInv'
<1> DEFINE s == Step(client, toHost)
           cap == client.capture
           first == CaptureSession(s)
<1>1. /\ TypeOK /\ Basic(s) /\ s \in Steps /\ s.ok /\ s.data = <<>> /\ s.c = client
             /\ s.out = toHost
      /\ client \in Clients /\ cap \in CaptureTransfers /\ Kept /\ MayBegin
      /\ UNCHANGED <<task, link, life, answers, engine, file>>
      /\ CapturesAreCurrent /\ client.seen \in Nat /\ client.seen <= life
      /\ history.copied \in Nat
  BY DeskBasic, StepParts, KeptParts
    DEF IInv, TypeOK, Basic, Kept, DuplicateLoop, Clients, Gens
<1>2. PICK source \in Loops, target \in Loops :
        LET goal == Goal(target, first.data[1].session[source])
            second == ReplaceBy([first EXCEPT !.data = <<>>], goal)
            found == first.ok /\ first.data # <<>>
            last == IF found THEN second ELSE first
        IN /\ \/ /\ client' = last.c /\ toHost' = last.out
                 /\ work' = IF ~last.ok \/ (found /\ second.data # <<>>) THEN NoWork
                            ELSE IF found THEN Work("copy", None, goal)
                            ELSE Work("capture", source, Goal(target, None))
              \/ found /\ NothingToCopy(first)
           /\ history' = [history EXCEPT !.tasks = @ + 1, !.begun = engine.edition, !.done = {},
                !.copied = IF found THEN first.data[1].edition ELSE @,
                !.lapses = IF Carries THEN @ \union {"carried"} ELSE @]
  BY DEF DuplicateLoop
<1> HIDE DEF s
<1>3. /\ NothingAbandoned => cap.gen = 0
      /\ NothingLeftOver /\ client.seen = life => Loose(client)
  BY <1>1, QuietClient DEF MayBegin
<1>4. /\ UsedOnce(client, toHost) /\ Ended(client) /\ Silent(toHost)
      /\ Counted(client) /\ Beginning(client, toHost, 0)
  BY DEF IInv, Talking, Capturing
<1>5. /\ Goal(target, None) \in Goals /\ Goal(target, None).loop = target
      /\ NoWork \in Works /\ NoWork.op = "none"
      /\ Work("capture", source, Goal(target, None)) \in Works
  <2>1. Goal(target, None) \in Goals /\ Goal(target, None).loop = target
    BY DEF Goal, Goals
  <2>2. \A goal \in Goals : Work("capture", source, goal) \in Works
    BY DEF Work, Works
  <2>3. NoWork \in Works /\ NoWork.op = "none"
    BY NoWorkTyped
  <2>4. QED
    BY <2>1, <2>2, <2>3
\* What is the same in all cases where nothing was found.
<1>6. ASSUME ~(first.ok /\ first.data # <<>>)
      PROVE  /\ client' = first.c /\ toHost' = first.out
             /\ work'.op = IF first.ok THEN "capture" ELSE "none"
             /\ history'.begun = engine.edition /\ history'.done = {}
             /\ NothingAbandoned' = NothingAbandoned
             /\ NothingLeftOver' => NothingLeftOver /\ ~Carries
             /\ Kept' /\ Asked' /\ CapturesAreCurrent'
  <2>1. /\ client' = first.c /\ toHost' = first.out
        /\ work' = IF ~first.ok THEN NoWork ELSE Work("capture", source, Goal(target, None))
        /\ history' = [history EXCEPT !.tasks = @ + 1, !.begun = engine.edition, !.done = {},
             !.copied = history.copied,
             !.lapses = IF Carries THEN @ \union {"carried"} ELSE @]
    BY <1>2, <1>6
  <2>2. /\ history'.begun = engine.edition /\ history'.done = {}
        /\ history' \in [begun : Nat, copied : Nat, done : SUBSET Goals,
                         lapses : SUBSET {"abandoned", "carried", "refused", "stale", "unapplied"},
                         tasks : 0 .. MaxTasks, edits : 0 .. MaxEdits, beside : 0 .. MaxBeside]
        /\ NothingAbandoned' = NothingAbandoned
        /\ NothingLeftOver' => NothingLeftOver /\ ~Carries
    <3>1. \A copied \in Nat :
            history' = [history EXCEPT !.tasks = @ + 1, !.begun = engine.edition, !.done = {},
                          !.copied = copied,
                          !.lapses = IF Carries THEN @ \union {"carried"} ELSE @]
            => /\ history'.begun = engine.edition /\ history'.done = {}
               /\ history' \in [begun : Nat, copied : Nat, done : SUBSET Goals,
                                lapses : SUBSET {"abandoned", "carried", "refused", "stale", "unapplied"},
                                tasks : 0 .. MaxTasks, edits : 0 .. MaxEdits,
                                beside : 0 .. MaxBeside]
               /\ NothingAbandoned' = NothingAbandoned
               /\ NothingLeftOver' => NothingLeftOver /\ ~Carries
      BY <1>1, DuplicateHistory
    <3>2. QED
      BY <1>1, <2>1, <3>1
  <2>3. work' \in Works /\ work'.op = IF first.ok THEN "capture" ELSE "none"
    BY <1>5, <2>1 DEF Work
  <2>4. work'.op = "capture" => work'.source = source /\ work'.goal = Goal(target, None)
    BY <1>5, <2>1 DEF Work
  <2>5. Kept'
    BY <1>1, <2>2, <2>3 DEF Kept, Works
  <2>6. Asked'
    BY <1>5, <2>3, <2>4 DEF Asked, Requested
  <2>7. CapturesAreCurrent'
    BY <1>1, <2>2, <2>3 DEF CapturesAreCurrent
  <2>8. QED
    BY <2>1, <2>2, <2>3, <2>5, <2>6, <2>7
<1>7. CASE "capture" \in client.errors
  <2> DEFINE d == [client EXCEPT !.errors = client.errors \ {"capture"}]
             t == [s EXCEPT !.c = d]
  <2>1. first = Failing(t)
    BY <1>1, <1>7 DEF CaptureSession, Steps, Clients
  <2>2. d \in Clients /\ d.capture = cap /\ d.replace = client.replace /\ d.seen = client.seen
        /\ d.nextGen = client.nextGen /\ d.errors = client.errors \ {"capture"}
    BY <1>1 DEF Clients
  <2> HIDE DEF d
  <2>3. t \in Steps /\ t.c = d /\ t.out = toHost /\ t.data = s.data
    BY <1>1, <2>2 DEF Steps
  <2> HIDE DEF t
  <2>4. first \in Steps /\ first.c = d /\ first.out = toHost /\ first.ok = FALSE
    BY <1>1, <2>1, <2>3, FailingFacts
  <2>5. cap.gen = 0
    BY <1>4, <1>7 DEF Ended
  <2> HIDE DEF first
  <2>6. Basic(first)
    <3>1. UsedOnce(first.c, first.out) /\ Ended(first.c)
      BY <1>4, <2>2, <2>4 DEF UsedOnce, Ended
    <3>2. QED
      BY <1>1, <1>4, <2>4, <3>1 DEF Basic
  <2>7. OneCapture(client, 0)' /\ Counted(first.c) /\ Beginning(first.c, first.out, 0)
    BY <1>6, <2>2, <2>4, <2>5 DEF OneCapture, Counted, Beginning
  <2>8. ASSUME NothingLeftOver', client.seen = life
        PROVE  Loose(first.c) /\ \A k \in Kinds : Transferring(first.c, first.out, 0, k)
    <3>1. NothingLeftOver /\ Loose(client) /\ \A k \in Kinds : Transferring(client, toHost, 0, k)
      BY <1>3, <1>6, <2>4, <2>8 DEF IInv, Talking, Replacing
    <3>2. Loose(first.c)
      BY <2>2, <2>4, <3>1 DEF Loose
    <3>3. ASSUME NEW k \in Kinds
          PROVE  Transferring(first.c, first.out, 0, k)
      BY <2>2, <2>4, <3>1 DEF Transferring, Owned, InOrder, Reaches, Sound, Judged
    <3>4. QED
      BY <3>2, <3>3
  <2>9. first.c.seen = client.seen /\ first.c.capture.gen = 0
    BY <2>2, <2>4, <2>5
  <2>10. QED
    BY <1>1, <1>6, <2>4, <2>6, <2>7, <2>8, <2>9, DuplicateKeeps
<1>8. CASE /\ "capture" \notin client.errors /\ cap.gen # 0
           /\ ~(cap.known /\ Len(cap.got) = Chunks /\ cap.flight = 0)
  <2>1. first = s
    BY <1>1, <1>8 DEF CaptureSession
  <2>2. first.c = client /\ first.out = toHost /\ first.ok /\ first.data = <<>>
    BY <1>1, <2>1
  <2> HIDE DEF first
  <2>3. ~NothingAbandoned' /\ ~NothingAbandoned
    BY <1>3, <1>6, <1>8, <2>2
  <2>4. OneCapture(client, 0)'
    <3>1. \A D : Gathered(client, 0, D) => Gathered(client, 0, D)'
      BY <1>1, <1>6, <2>2, <2>3 DEF Gathered, Of, Unheard
    <3>2. QED
      BY <1>1, <1>6, <2>2, <3>1 DEF IInv, Talking, Capturing, OneCapture
  <2>5. ~NothingLeftOver'
    BY <2>3 DEF NothingLeftOver
  <2>6. Basic(first)
    BY <1>1, <2>1
  <2>7. QED
    BY <1>1, <1>4, <1>6, <2>2, <2>3, <2>4, <2>5, <2>6, DuplicateKeeps
<1>9. CASE /\ "capture" \notin client.errors /\ cap.gen # 0
           /\ cap.known /\ Len(cap.got) = Chunks /\ cap.flight = 0
  <2> DEFINE d == [client EXCEPT !.capture = NoTransfer]
             goal == Goal(target, first.data[1].session[source])
             asking == [first EXCEPT !.data = <<>>]
             second == ReplaceBy(asking, goal)
  <2>1. first = [s EXCEPT !.c = d, !.data = cap.got]
    BY <1>1, <1>9 DEF CaptureSession, Steps, Clients
  <2>2. d \in Clients /\ d.capture = NoTransfer /\ d.replace = client.replace
        /\ d.seen = client.seen /\ d.nextGen = client.nextGen /\ d.errors = client.errors
    BY <1>1, CaptureTypes DEF Clients
  <2> HIDE DEF d
  <2>3. cap.got \in Seq(Captures) /\ cap.got # <<>> /\ cap.got[1] \in Captures
    <3>1. cap \in CaptureRecords
      BY <1>1, <1>9, CaptureTypes
    <3>2. cap.got \in Seq(Captures) /\ Len(cap.got) >= 1
      BY <1>9, <3>1, CaptureTypes, Sizes
    <3>3. 1 \in DOMAIN cap.got
      BY <3>2, Domains
    <3>4. QED
      BY <3>2, <3>3, Domains
  <2> HIDE DEF cap
  <2>4. first \in Steps /\ first.c = d /\ first.out = toHost /\ first.ok /\ first.data = cap.got
    BY <1>1, <2>1, <2>2, <2>3 DEF Steps
  <2> HIDE DEF first
  <2>5. /\ asking \in Steps /\ asking.c = d /\ asking.out = toHost /\ asking.ok
    BY <2>4, EmptySeq DEF Steps
  <2>6. goal \in Contents /\ goal \in Goals /\ first.data[1].edition \in Nat
    BY <2>3, <2>4 DEF Goal, Contents, Goals, Captures
  <2> HIDE DEF asking
  <2>7. d.capture.gen = 0
    BY <2>2, CaptureTypes
  <2>8. Basic(asking) /\ Basic(first)
    <3>1. UsedOnce(asking.c, asking.out) /\ Ended(asking.c)
      <4>1. 0 < client.nextGen
        BY <1>1, StepParts
      <4>2. QED
        BY <1>4, <2>2, <2>5, <2>7, <4>1 DEF UsedOnce, Ended
    <3>2. QED
      BY <1>1, <1>4, <2>4, <2>5, <3>1 DEF Basic
  <2>9. Basic(second) /\ second.c.capture = d.capture /\ second.c.seen \in {client.seen, life}
    <3> HIDE DEF goal
    <3>1. QED
      BY <1>1, <2>2, <2>5, <2>6, <2>8, ReplaceByBasic
  <2>10. /\ \/ /\ client' = second.c /\ toHost' = second.out
               /\ work' = IF ~second.ok \/ second.data # <<>> THEN NoWork
                          ELSE Work("copy", None, goal)
            \/ NothingToCopy(first)
         /\ history' = [history EXCEPT !.tasks = @ + 1, !.begun = engine.edition, !.done = {},
              !.copied = first.data[1].edition,
              !.lapses = IF Carries THEN @ \union {"carried"} ELSE @]
    BY <1>2, <2>3, <2>4 DEF asking
  <2> HIDE DEF second, goal
  <2>11. PICK last :
           /\ Basic(last) /\ last.c.capture = d.capture /\ last.c.seen \in {client.seen, life}
           /\ client' = last.c /\ toHost' = last.out
           /\ work' \in {NoWork, Work("copy", None, goal)}
    <3>1. CASE NothingToCopy(first)
      <4>1. PICK last : /\ BesidePosted(first, last) /\ toHost' = last.out
                        /\ client' = first.c /\ work' = NoWork
        BY <3>1, DroppedPosts
      <4>2. Basic(last) /\ last.c = first.c
        BY <2>8, <4>1, BesideKeepsBasic
      <4>3. QED
        BY <2>2, <2>4, <4>1, <4>2
    <3>2. CASE ~NothingToCopy(first)
      BY <2>9, <2>10, <3>2
    <3>3. QED
      BY <3>1, <3>2
  <2>12. /\ history'.begun = engine.edition /\ history'.done = {}
         /\ history' \in [begun : Nat, copied : Nat, done : SUBSET Goals,
                          lapses : SUBSET {"abandoned", "carried", "refused", "stale", "unapplied"},
                          tasks : 0 .. MaxTasks, edits : 0 .. MaxEdits, beside : 0 .. MaxBeside]
         /\ NothingAbandoned' = NothingAbandoned
         /\ NothingLeftOver' => NothingLeftOver /\ ~Carries
    BY <1>1, <2>6, <2>10, DuplicateHistory
  <2>13. ~NothingAbandoned' /\ ~NothingAbandoned /\ ~NothingLeftOver'
    BY <1>3, <1>9, <2>12 DEF NothingLeftOver, cap
  <2>14. /\ work' \in Works /\ work'.op \in {"none", "copy"}
         /\ work'.op = "copy" => work'.goal = goal
    BY <1>5, <2>6, <2>11, TaskTypes DEF Work
  <2>15. Kept' /\ Asked' /\ CapturesAreCurrent'
    BY <1>1, <2>6, <2>12, <2>13, <2>14
      DEF Kept, Works, Asked, Requested, CapturesAreCurrent
  <2>16. OneCapture(client, 0)' /\ Counted(last.c) /\ Beginning(last.c, last.out, 0)
    BY <2>7, <2>11 DEF OneCapture, Counted, Beginning
  <2>17. QED
    BY <1>1, <2>7, <2>12, <2>13, <2>14, <2>15, <2>16, <2>11, DuplicateKeeps
<1>10. CASE "capture" \notin client.errors /\ cap.gen = 0
  <2>1. first = CaptureBegun(s)
    BY <1>1, <1>10 DEF CaptureSession
  <2>2. TypeOK /\ history.begun <= engine.edition /\ 0 \in Nat
    BY DEF IInv
  <2>3. first.data = <<>>
    BY <1>1, <1>10, <2>1, <2>2, CaptureBegunFacts
  <2>4. QED
    BY <1>1, <1>6, <1>10, <2>1, <2>3, DuplicateBegins DEF s
<1>11. QED
  BY <1>7, <1>8, <1>9, <1>10

-----------------------------------------------------------------------------
(* The invariant is one.                                                   *)

LEMMA InitInv == Init => IInv
<1> SUFFICES ASSUME Init PROVE IInv
  OBVIOUS
<1>1. /\ task = Task("none", NoGoal, "none") /\ work = NoWork
      /\ client = [seen |-> 1, nextGen |-> 1, capture |-> NoTransfer,
                   replace |-> [k \in Kinds |-> NoTransfer], errors |-> {}]
      /\ link = "attached" /\ life = 1 /\ toHost = <<>> /\ answers = <<>>
      /\ engine = FreshEngine(1) /\ file = [chunks |-> <<>>, begun |-> 0]
      /\ history = [begun |-> 0, copied |-> 0, done |-> {}, lapses |-> {}, tasks |-> 0,
                    edits |-> 0, beside |-> 0]
  BY DEF Init
<1>2. /\ NoTransfer \in CaptureTransfers /\ NoTransfer \in ReplaceTransfers /\ NoTransfer.gen = 0
      /\ 1 \in Gens
  BY CaptureTypes, ReplaceTypes DEF Gens
<1>3. client \in Clients
  BY <1>1, <1>2 DEF Clients
<1>4. /\ client.seen = 1 /\ client.nextGen = 1 /\ client.capture.gen = 0 /\ client.errors = {}
      /\ \A k \in Kinds : client.replace[k].gen = 0
  BY <1>1, <1>2
<1>5. engine \in Engines
  <2>1. Blank \in Takes
    BY DEF Takes
  <2>2. QED
    BY <1>1, <2>1 DEF FreshEngine, Engines
<1>6. engine.edition = 1 /\ engine.capture.gen = 0 /\ \A k \in Kinds : engine.staged[k].gen = 0
  BY <1>1, <1>2 DEF FreshEngine
<1>7. /\ <<>> \in Seq(Messages) /\ <<>> \in Seq(Answers) /\ <<>> \in Seq(Captures)
      /\ Len(<<>>) = 0 /\ DOMAIN <<>> = {}
  BY EmptySeq
<1>8. /\ task \in Tasks /\ task.status = "none" /\ work \in Works /\ work.op = "none"
  <2>1. task = [kind |-> "none", goal |-> NoGoal, status |-> "none"]
    BY <1>1 DEF Task
  <2>2. work = [op |-> "none", source |-> None, goal |-> NoGoal]
    BY <1>1 DEF NoWork
  <2>3. QED
    BY <2>1, <2>2, TaskTypes DEF Tasks, Works
<1>9. /\ file \in [chunks : Seq(Captures), begun : Nat] /\ file.chunks = <<>>
  BY <1>1, <1>7
<1>10. /\ history.begun = 0 /\ history.copied = 0 /\ history.done = {} /\ history.lapses = {}
       /\ history \in [begun : Nat, copied : Nat, done : SUBSET Goals,
                       lapses : SUBSET {"abandoned", "carried", "refused", "stale", "unapplied"},
                       tasks : 0 .. MaxTasks, edits : 0 .. MaxEdits, beside : 0 .. MaxBeside]
  <2>1. 0 \in 0 .. MaxTasks /\ 0 \in 0 .. MaxEdits /\ 0 \in 0 .. MaxBeside
    BY BoundsAssumption
  <2>2. QED
    BY <1>1, <2>1
<1>11. TypeOK
  <2>1. Len(toHost) <= Capacity
    BY <1>1, <1>7, Sizes
  <2>2. client.seen <= life /\ life \in Gens
    BY <1>1, <1>2, <1>4
  <2>3. toHost \in Seq(Messages) /\ answers \in Seq(Answers)
    BY <1>1, <1>7
  <2>4. QED
    BY <1>1, <1>3, <1>5, <1>8, <1>9, <1>10, <2>1, <2>2, <2>3 DEF TypeOK, Tasks, Works
<1>12. UsedOnce(client, toHost) /\ Ended(client) /\ Silent(toHost)
  BY <1>1, <1>4, <1>6, <1>7 DEF UsedOnce, Ended, Silent, Attached
<1>13. Capturing(client, toHost, 0) /\ CaptureOwned(client)
  BY <1>4, NoneCapturing
<1>14. Replacing(client, toHost, 0)
  <2>1. ASSUME NEW k \in Kinds
        PROVE  Transferring(client, toHost, 0, k) /\ WorkedOn(client, k)
    <3>1. /\ \A i \in DOMAIN toHost : toHost[i].kind # k
          /\ \A i \in Unheard(0) : answers[i].msg.kind = k => ~Verdict(answers[i])
      BY <1>1, <1>7 DEF Unheard
    <3>2. QED
      BY <1>4, <3>1, NoneTransferring DEF WorkedOn
  <2>2. Done(client, toHost, 0)
    BY <1>10 DEF Done
  <2>3. QED
    BY <2>1, <2>2 DEF Replacing
<1>15. Idle /\ Shown /\ Asked
  BY <1>1, <1>7, <1>8 DEF Idle, Shown, Asked, Requested
<1>16. history.begun <= engine.edition
  BY <1>6, <1>10
<1>17. CapturesAreCurrent
  BY <1>7, <1>8, <1>9 DEF CapturesAreCurrent
<1>18. link = "detached" => Len(answers) = 0
  BY <1>1
<1>19. QED
  BY <1>11, <1>12, <1>13, <1>14, <1>15, <1>16, <1>17, <1>18 DEF IInv, Talking

LEMMA StutterInv ==
  ASSUME IInv, UNCHANGED vars
  PROVE  IInv'
<1>1. UNCHANGED <<task, work, client, link, life, toHost, answers, engine, file, history>>
  BY DEF vars
<1>2. TypeOK'
  BY <1>1 DEF IInv, TypeOK
<1>3. NothingAbandoned' = NothingAbandoned /\ NothingLeftOver' = NothingLeftOver
  BY <1>1 DEF NothingAbandoned, NothingLeftOver
<1>4. UsedOnce(client, toHost)' /\ Ended(client)' /\ Silent(toHost)'
  BY <1>1 DEF IInv, Talking, UsedOnce, Ended, Silent, Attached
<1>5. Capturing(client, toHost, 0)' /\ CaptureOwned(client)'
  <2>1. Counted(client)' /\ CaptureOwned(client)'
    BY <1>1, <1>3 DEF IInv, Talking, Capturing, Counted, CaptureOwned
  <2>2. Beginning(client, toHost, 0)'
    BY <1>1 DEF IInv, Talking, Capturing, Beginning, Of, Unheard
  <2>3. OneCapture(client, 0)'
    <3>1. \A D : Gathered(client, 0, D) => Gathered(client, 0, D)'
      BY <1>1, <1>3 DEF Gathered, Of, Unheard
    <3>2. QED
      BY <1>1, <3>1 DEF IInv, Talking, Capturing, OneCapture
  <2>4. QED
    BY <2>1, <2>2, <2>3 DEF Capturing
<1>6. ASSUME NEW k \in Kinds, Transferring(client, toHost, 0, k), WorkedOn(client, k)
      PROVE  Transferring(client, toHost, 0, k)' /\ WorkedOn(client, k)'
  <2>1. Owned(client, toHost, k)' /\ InOrder(toHost, k)' /\ Reaches(client, toHost, k)'
    BY <1>1, <1>6 DEF Transferring, Owned, InOrder, Reaches, StagedUpTo, Place, Attached
  <2>2. Sound(client, k)' /\ Judged(client, toHost, 0, k)' /\ WorkedOn(client, k)'
    BY <1>1, <1>6 DEF Transferring, Sound, Judged, Verdict, Unheard, WorkedOn, Working, Attached
  <2>3. QED
    BY <2>1, <2>2 DEF Transferring
<1>7. Done(client, toHost, 0) => Done(client, toHost, 0)'
  BY <1>1 DEF Done, Requested, Attached, Unheard
<1>8. Replacing(client, toHost, 0)'
  BY <1>1, <1>3, <1>6, <1>7 DEF IInv, Talking, Replacing
<1>9. Idle' /\ Shown' /\ Asked' /\ (history.begun <= engine.edition)' /\ CapturesAreCurrent'
  BY <1>1, <1>3 DEF IInv, Idle, Shown, Asked, Requested, CapturesAreCurrent
<1>10. link' = "detached" => Len(answers') = 0
  BY <1>1 DEF IInv
<1>11. QED
  BY <1>2, <1>4, <1>5, <1>8, <1>9, <1>10 DEF IInv, Talking

LEMMA StepInv == IInv /\ [Next]_vars => IInv'
<1>1. ASSUME IInv, Next
      PROVE  IInv'
  BY <1>1, BeginStep, ConfirmStep, DuplicateStep, OutsideStep, UpdateStep, HostStep,
     RecordingStep, BesideStep, AttachStep, LinkEndsStep DEF Next, Intent
<1>2. QED
  BY <1>1, StutterInv

THEOREM Invariance == Spec => []IInv
<1>1. Init => IInv
  BY InitInv
<1>2. IInv /\ [Next]_vars => IInv'
  BY StepInv
<1>3. QED
  BY <1>1, <1>2, PTL DEF Spec

(* Every variable keeps its type, the sequences in flight their capacity and  *)
(* a capture no more reads in flight than the limit (RemoteWorkletBackend in  *)
(* shoop_worklet_client/src/lib.rs).                                          *)
THEOREM TypeCorrect == Spec => []TypeOK
<1>1. IInv => TypeOK
  BY DEF IInv
<1>2. QED
  BY <1>1, Invariance, PTL

(* What is saved or duplicated is one capture that was taken after the         *)
(* operation began, whatever engines came and went and whatever was recorded   *)
(* between its chunks, as long as no transfer was abandoned by its operation   *)
(* (capture_session_async, apply_session_capture_chunk and the host's          *)
(* capture).                                                                   *)
THEOREM CapturesStayCurrent == Spec => []CapturesAreCurrent
<1>1. IInv => CapturesAreCurrent
  BY DEF IInv
<1>2. QED
  BY <1>1, Invariance, PTL

LEMMA EndsInUpdates ==
  ASSUME IInv, Next, Ends("completed") \/ Ends("failed")
  PROVE  Update
<1>1. task.status = "running" /\ work.op # "none" /\ Kept
  BY KeptParts DEF Ends, IInv, Shown
<1>2. ~MayBegin
  BY <1>1 DEF MayBegin
<1>3. ~BeginSave /\ ~BeginLoad /\ ~BeginImport /\ ~DuplicateLoop
  BY <1>2 DEF BeginSave, BeginLoad, BeginImport, BeginTransfer, DuplicateLoop
<1>4. ~Confirm /\ ~WriteFails
  BY <1>1 DEF Confirm, WriteFails
<1>5. ~CancelTask
  <2>1. CancelTask => task'.status = "cancelled"
    BY <1>1, EndedKept DEF CancelTask
  <2>2. QED
    BY <2>1 DEF Ends
<1>6. task' # task
  BY <1>1 DEF Ends
<1>7. ~HostServes /\ ~RecordingBegins /\ ~RecordingEnds /\ ~PostBeside /\ ~Attach /\ ~Detach
          /\ ~LinkFails
  BY <1>6 DEF HostServes, RecordingBegins, RecordingEnds, PostBeside, Attach, Detach, LinkFails
<1>8. QED
  BY <1>3, <1>4, <1>5, <1>7 DEF Next, Intent

(* A load or an import that is shown as completed was committed by the engine  *)
(* since it began, and one that is shown as failed was not, while that engine  *)
(* is there (advance_io in shoop_app/src/lib.rs, and the pumps and answers it  *)
(* depends on), as long as no transfer outlived its operation or its engine.   *)
THEOREM VerdictsStayTrue == Spec => VerdictsAreTrue
<1>1. IInv /\ [Next]_vars =>
        [task.kind \in {"load", "import"} /\ NothingLeftOver =>
           /\ Ends("completed") => task.goal \in history.done
           /\ Ends("failed") /\ Attached /\ history'.lapses \cap {"stale", "unapplied"} = {}
                => task.goal \notin history.done]_vars
  <2> SUFFICES ASSUME IInv, Next, task.kind \in {"load", "import"}, NothingLeftOver,
                      Ends("completed") \/ Ends("failed")
               PROVE  /\ Ends("completed") => task.goal \in history.done
                      /\ Ends("failed") /\ Attached /\ history'.lapses \cap {"stale", "unapplied"} = {}
                           => task.goal \notin history.done
    OBVIOUS
  <2>1. Update
    BY EndsInUpdates
  <2>2. QED
    BY <2>1, UpdateStep
<1>2. QED
  BY <1>1, Invariance, PTL DEF Spec, VerdictsAreTrue

(* The engine commits nothing but what the operation under way transfers       *)
(* (pump_session_replace and pump_loop_content_replace, and the host's         *)
(* commits), as long as no transfer outlived its operation or its engine.      *)
THEOREM CommitsStayAsked == Spec => CommitsAreAsked
<1>1. IInv /\ [Next]_vars =>
        [Commits /\ NothingLeftOver => StagedGoal(Head(toHost).kind) = work.goal]_vars
  <2> SUFFICES ASSUME IInv, Commits, NothingLeftOver
               PROVE  StagedGoal(Head(toHost).kind) = work.goal
    OBVIOUS
  <2>1. HostServes /\ engine'.edition # engine.edition
    BY DEF Commits
  <2>2. QED
    BY <2>1, HostStep
<1>2. QED
  BY <1>1, Invariance, PTL DEF Spec, CommitsAreAsked
=============================================================================
