------------------------- MODULE ContentSnapshotsProofs -------------------------
(***************************************************************************)
(* Proofs about ContentSnapshots for any transport, command queue and      *)
(* number of revisions: an exact read answers with content the channel     *)
(* held during the read.  The argument follows the updates that are under  *)
(* way: replaying them from where the publisher stands leads to the        *)
(* content of the channel, as long as no update is missing.                *)
(***************************************************************************)
EXTENDS ContentSnapshots, SequenceTheorems, TLAPS

\* What the publisher's builder can hold, and what a block makes of it.
Builds == [chunks : Contents, committed : Contents]
Now == [chunks |-> publisher.chunks, committed |-> publisher.committed]
BuiltFrom(b, block) ==
  CASE block.kind = "working" -> b.committed
    [] block.kind = "range" -> b.chunks \cup {block.rev}
    [] block.kind = "final" -> b.chunks
    [] OTHER -> {block.rev}
After(b, block) ==
  [chunks |-> BuiltFrom(b, block),
   committed |-> IF block.publish THEN BuiltFrom(b, block) ELSE b.committed]

(* A replay of a queue: what the builder will hold after each of its blocks. *)
IsReplay(b, queue) ==
  /\ b \in [0..Len(queue) -> Builds]
  /\ b[0] = Now
  /\ \A i \in 1..Len(queue) : b[i] = After(b[i - 1], queue[i])

\* Only one actor at a time is about to change the content.
Free == step \in {"free", "finalize"}
Calm == phase = "idle" /\ Free
NoneAnnounced == \A i \in 1..Len(commands) : commands[i] \in Unannounced
Turns ==
  /\ status.mutation = "none" => Calm /\ control = NoCommand /\ NoneAnnounced
  /\ control # NoCommand => control \notin Unannounced /\ Calm /\ NoneAnnounced
  /\ \A i \in 1..Len(commands) : commands[i] \notin Unannounced =>
       Calm /\ \A j \in 1..Len(commands) : commands[j] \notin Unannounced => j = i
  /\ phase # "idle" => Free

\* Announced loads are ahead of everything that was published.
Ahead(command) ==
  command.kind = "load" => /\ latest < command.rev /\ command.rev < status.next
                           /\ command.rev \in prepared \cup unseen
                           /\ status.mutation = "loading"
Loads == Ahead(control) /\ \A i \in 1..Len(commands) : Ahead(commands[i])

Counted == latest < status.next /\ status.settled <= latest /\ manifest.rev <= latest

Reading == reader.pc \in {"published", "manifest"}
Right == reader.pc # "wrong answer"

Observed ==
  /\ unrepaired => status.saturated
  /\ reader.pc # "idle" => ~unrepaired /\ content \in reader.since
  /\ Reading => reader.settled <= status.settled
  /\ Right

\* Revisions grow along a queue, and its installs find their samples.
OrderedIn(queue) == \A i \in 1..Len(queue) :
  /\ queue[i].rev <= latest
  /\ queue[i].kind = "working" => queue[i] = NoBlock
  /\ queue[i].kind = "install" => queue[i].rev \in prepared \cup unseen
  /\ \A j \in 1..Len(queue) :
       i < j /\ queue[j].kind # "working" => queue[i].rev < queue[j].rev

\* What a replay leads to, while no update is missing.
Leads(b, queue) == ~unrepaired =>
  /\ b[Len(queue)].chunks = content
  /\ phase # "replacing" => b[Len(queue)].committed = content
  /\ manifest.rev = latest => manifest.content = content
  /\ \A i \in 1..Len(queue) :
       queue[i].publish /\ queue[i].rev = latest => b[i].committed = content

\* What was published under rev lacks of all only late copies that are published after it.
Lacks(held, rev, all) == held \subseteq all /\ all \ held \subseteq {r \in late : r > rev}

\* Nothing but late copies came after the settled revision.
AtRest == status.mutation = "none" \/ control # NoCommand \/ step = "release"
Rests(b, queue) == ~unrepaired /\ AtRest =>
  /\ manifest.rev >= status.settled => Lacks(manifest.content, manifest.rev, content)
  /\ \A i \in 1..Len(queue) : queue[i].publish /\ queue[i].rev >= status.settled =>
       Lacks(b[i].committed, queue[i].rev, content)

\* Whatever the reader can still be given for exact was held during its read, but for what
\* late copies added.
Observable(held, rev) == \E all \in reader.since : Lacks(held, rev, all)
Answers(b, queue) == Reading =>
  /\ manifest.rev >= reader.settled => Observable(manifest.content, manifest.rev)
  /\ \A i \in 1..Len(queue) : queue[i].publish /\ queue[i].rev >= reader.settled =>
       Observable(b[i].committed, queue[i].rev)

Queue(b, queue) ==
  /\ queue \in Seq(UpdateBlocks) /\ Len(queue) <= Blocks
  /\ OrderedIn(queue) /\ IsReplay(b, queue)
  /\ Leads(b, queue) /\ Rests(b, queue) /\ Answers(b, queue)

Follows ==
  /\ Turns /\ Counted /\ Loads /\ Observed
  /\ \E b : Queue(b, updates)

IInv == TypeOK /\ (excuses = {} => Follows)

-----------------------------------------------------------------------------
(* Sequences. *)

LEMMA Appended ==
  ASSUME NEW S, NEW s \in Seq(S), NEW x \in S
  PROVE  /\ Append(s, x) \in Seq(S)
         /\ Len(Append(s, x)) = Len(s) + 1 /\ Len(s) \in Nat
         /\ \A i \in 1..Len(s) : Append(s, x)[i] = s[i]
         /\ Append(s, x)[Len(s) + 1] = x
BY AppendProperties, LenProperties

LEMMA Popped ==
  ASSUME NEW S, NEW s \in Seq(S), s # <<>>
  PROVE  /\ Head(s) \in S /\ Head(s) = s[1]
         /\ Tail(s) \in Seq(S)
         /\ Len(Tail(s)) = Len(s) - 1 /\ Len(s) \in Nat /\ Len(s) > 0
         /\ \A i \in 1..Len(Tail(s)) : Tail(s)[i] = s[i + 1]
<1>1. Len(s) \in Nat /\ Len(s) > 0
  BY LenProperties, EmptySeq
<1>2. /\ Head(s) \in S /\ Tail(s) \in Seq(S) /\ Len(Tail(s)) = Len(s) - 1
      /\ \A i \in 1..Len(Tail(s)) : Tail(s)[i] = s[i + 1]
  BY HeadTailProperties
<1>3. Head(s) = s[1]
  OBVIOUS
<1>4. QED
  BY <1>1, <1>2, <1>3

-----------------------------------------------------------------------------
(* Replays. *)

LEMMA AfterBuilds ==
  ASSUME NEW b \in Builds, NEW block \in UpdateBlocks
  PROVE  After(b, block) \in Builds
<1>1. BuiltFrom(b, block) \in Contents
  BY DEF BuiltFrom, Builds, Contents, UpdateBlocks
<1>2. QED
  BY <1>1 DEF After, Builds

\* A block at the end is replayed after the others.
LEMMA ReplayAppended ==
  ASSUME NEW queue \in Seq(UpdateBlocks), NEW b, IsReplay(b, queue), NEW block \in UpdateBlocks
  PROVE  \E c : /\ IsReplay(c, Append(queue, block))
                /\ c[Len(queue) + 1] = After(b[Len(queue)], block)
                /\ \A i \in 0..Len(queue) : c[i] = b[i]
<1> DEFINE n == Len(queue)
           longer == Append(queue, block)
           last == After(b[n], block)
           c == [i \in 0..(n + 1) |-> IF i = n + 1 THEN last ELSE b[i]]
<1>1. /\ longer \in Seq(UpdateBlocks) /\ Len(longer) = n + 1 /\ n \in Nat
      /\ \A i \in 1..n : longer[i] = queue[i]
      /\ longer[n + 1] = block
  BY Appended
<1>2. /\ b \in [0..n -> Builds] /\ b[0] = Now
      /\ \A i \in 1..n : b[i] = After(b[i - 1], queue[i])
  BY DEF IsReplay
<1>3. last \in Builds
  BY <1>1, <1>2, AfterBuilds
<1> HIDE DEF longer, last
<1>4. c \in [0..(n + 1) -> Builds]
  BY <1>1, <1>2, <1>3
<1>5. /\ c[n + 1] = last
      /\ \A i \in 0..n : c[i] = b[i]
  BY <1>1
<1> HIDE DEF c
<1>6. c[0] = Now
  BY <1>1, <1>2, <1>5
<1>7. ASSUME NEW i \in 1..(n + 1)
      PROVE  c[i] = After(c[i - 1], longer[i])
  <2>1. CASE i = n + 1
    BY <1>1, <1>5, <2>1 DEF last
  <2>2. CASE i \in 1..n
    <3>1. i - 1 \in 0..n /\ i \in 0..n
      BY <1>1, <2>2
    <3>2. QED
      BY <1>1, <1>2, <1>5, <2>2, <3>1
  <2>3. QED
    BY <1>1, <2>1, <2>2
<1>8. IsReplay(c, longer)
  BY <1>1, <1>4, <1>6, <1>7 DEF IsReplay
<1>9. QED
  BY <1>5, <1>8 DEF longer, last

LEMMA Numbers ==
  ASSUME TypeOK
  PROVE  /\ latest \in Nat /\ manifest.rev \in Nat /\ reader.settled \in Nat
         /\ status.next \in Nat /\ status.settled \in Nat /\ status.published \in Nat
<1>1. MaxRevisions \in Nat
  BY BoundsAssumption
<1>2. \A x : x \in 0..MaxRevisions \/ x \in 1..MaxRevisions + 1 => x \in Nat
  BY <1>1
<1>3. /\ latest \in 0..MaxRevisions /\ manifest.rev \in 0..MaxRevisions
      /\ reader.settled \in 0..MaxRevisions /\ status.next \in 1..MaxRevisions + 1
      /\ status.settled \in 0..MaxRevisions /\ status.published \in 0..MaxRevisions
  BY DEF TypeOK
<1>4. QED
  BY <1>2, <1>3

\* What can be observed still can be later, and a new late copy is lacking too.
LEMMA ObservableStays ==
  ASSUME reader.since \subseteq reader'.since, late \subseteq late', NEW held, NEW rev,
         Observable(held, rev)
  PROVE  \E all \in reader'.since : /\ held \subseteq all
                                     /\ all \ held \subseteq {r \in late' : r > rev}
BY DEF Observable, Lacks

LEMMA LacksMore ==
  ASSUME NEW held, NEW rev, NEW new, rev < new, Lacks(held, rev, content), late \subseteq late',
         content' = content \cup {new}, new \in late', new \in Nat, rev \in Nat
  PROVE  held \subseteq content' /\ content' \ held \subseteq {r \in late' : r > rev}
BY DEF Lacks

(* An update with a new revision is queued: the replay of the longer queue     *)
(* leads to the new content.                                                   *)
LEMMA QueueGrows ==
  ASSUME TypeOK, NEW b, NEW queue, Queue(b, queue), Fits(queue), manifest.rev <= latest,
         NEW block \in UpdateBlocks, block.kind # "working", latest < block.rev,
         block.kind = "install" => block.rev \in prepared \cup unseen,
         updates' = Append(queue, block), latest' = block.rev,
         UNCHANGED <<publisher, manifest, prepared, unseen>>,
         status'.settled = status.settled, late \subseteq late',
         AtRest' => /\ AtRest /\ (unrepaired => unrepaired')
                    /\ content' = content \cup {block.rev} /\ block.rev \in late',
         ~unrepaired' => BuiltFrom(b[Len(queue)], block) = content',
         phase' # "replacing" => block.publish,
         unrepaired' => reader.pc = "idle", unrepaired' \/ ~unrepaired \/ reader.pc = "idle",
         reader' = (IF reader.pc = "idle" THEN Idle
                    ELSE [reader EXCEPT !.since = @ \cup {content'}])
  PROVE  \E c : Queue(c, updates)'
<1> DEFINE n == Len(queue)
<1>1. /\ queue \in Seq(UpdateBlocks) /\ n \in Nat /\ n < Blocks /\ Blocks \in Nat
      /\ IsReplay(b, queue) /\ OrderedIn(queue)
  BY LenProperties, BlocksAssumption DEF Queue, Fits
<1>2. /\ updates' \in Seq(UpdateBlocks) /\ Len(updates') = n + 1
      /\ \A i \in 1..n : updates'[i] = queue[i]
      /\ updates'[n + 1] = block
  BY <1>1, Appended
<1>3. PICK c : /\ IsReplay(c, updates')
               /\ c[n + 1] = After(b[n], block)
               /\ \A i \in 0..n : c[i] = b[i]
  BY <1>1, ReplayAppended
<1>4. IsReplay(c, updates)'
  BY <1>3 DEF IsReplay, Now
<1>5. /\ c[n + 1].chunks = BuiltFrom(b[n], block)
      /\ block.publish => c[n + 1].committed = BuiltFrom(b[n], block)
  BY <1>3 DEF After
<1>6. \A i \in 1..(n + 1) : i \in 1..n \/ i = n + 1
  BY <1>1
<1>7. latest \in Nat /\ latest' \in Nat /\ manifest.rev \in Nat /\ block.rev \in Nat
  <2>1. \A x \in 0..MaxRevisions : x \in Nat
    BY BoundsAssumption
  <2>2. block.rev \in 0..MaxRevisions
    BY DEF UpdateBlocks
  <2>3. QED
    BY <2>1, <2>2, Numbers
<1>8. \A i \in 1..n : queue[i].rev \in Nat /\ queue[i].rev <= latest
  <2>1. \A i \in 1..n : queue[i] \in UpdateBlocks
    BY <1>1, ElementOfSeq
  <2>2. \A x \in 0..MaxRevisions : x \in Nat
    BY BoundsAssumption
  <2>3. \A i \in 1..n : queue[i].rev \in 0..MaxRevisions
    BY <2>1 DEF UpdateBlocks
  <2>4. QED
    BY <1>1, <2>2, <2>3 DEF OrderedIn
<1> HIDE DEF n
<1>9. OrderedIn(updates)'
  <2>1. SUFFICES ASSUME NEW i \in 1..(n + 1)
                 PROVE  /\ updates'[i].rev <= latest'
                        /\ updates'[i].kind = "working" => updates'[i] = NoBlock
                        /\ updates'[i].kind = "install" =>
                             updates'[i].rev \in prepared \cup unseen
                        /\ \A j \in 1..(n + 1) :
                             i < j /\ updates'[j].kind # "working" =>
                               updates'[i].rev < updates'[j].rev
    BY <1>2 DEF OrderedIn
  <2>2. CASE i \in 1..n
    <3>1. updates'[i].rev <= latest'
      BY <1>2, <1>7, <1>8, <2>2
    <3>2. /\ updates'[i].kind = "working" => updates'[i] = NoBlock
          /\ updates'[i].kind = "install" => updates'[i].rev \in prepared \cup unseen
      BY <1>1, <1>2, <2>2 DEF OrderedIn, n
    <3>3. ASSUME NEW j \in 1..(n + 1), i < j, updates'[j].kind # "working"
          PROVE  updates'[i].rev < updates'[j].rev
      <4>1. CASE j \in 1..n
        BY <1>1, <1>2, <2>2, <3>3, <4>1 DEF OrderedIn, n
      <4>2. CASE j = n + 1
        BY <1>2, <1>7, <1>8, <2>2, <4>2
      <4>3. QED
        BY <1>6, <4>1, <4>2
    <3>4. QED
      BY <3>1, <3>2, <3>3
  <2>3. CASE i = n + 1
    <3>1. \A j \in 1..(n + 1) : ~(i < j)
      BY <1>1, <2>3 DEF n
    <3>2. QED
      BY <1>2, <1>7, <2>3, <3>1
  <2>4. QED
    BY <1>6, <2>2, <2>3
<1>10. Leads(c, updates)'
  <2>1. SUFFICES ASSUME ~unrepaired'
                 PROVE  /\ c[n + 1].chunks = content'
                        /\ phase' # "replacing" => c[n + 1].committed = content'
                        /\ manifest.rev = latest' => manifest.content = content'
                        /\ \A i \in 1..(n + 1) :
                             updates'[i].publish /\ updates'[i].rev = latest' =>
                               c[i].committed = content'
    BY <1>2 DEF Leads
  <2>2. \A i \in 1..n : updates'[i].rev # latest'
    <3>1. \A i \in 1..n : updates'[i].rev \in Nat /\ updates'[i].rev <= latest
      BY <1>2, <1>8
    <3>2. latest < latest'
      OBVIOUS
    <3>3. \A x \in Nat : x <= latest => x # latest'
      BY <1>7, <3>2
    <3>4. QED
      BY <3>1, <3>3, Zenon
  <2>3. manifest.rev # latest'
    BY <1>7
  <2>4. c[n + 1].chunks = content' /\ (block.publish => c[n + 1].committed = content')
    BY <1>5, <2>1 DEF n
  <2>5. QED
    BY <1>2, <1>6, <2>2, <2>3, <2>4
<1>11. Answers(c, updates)'
  <2>1. SUFFICES ASSUME Reading'
                 PROVE  /\ manifest.rev >= reader'.settled =>
                             Observable(manifest.content, manifest.rev)'
                        /\ \A i \in 1..(n + 1) :
                             updates'[i].publish /\ updates'[i].rev >= reader'.settled =>
                               Observable(c[i].committed, updates[i].rev)'
    BY <1>2 DEF Answers
  <2>2. /\ reader.pc # "idle" /\ Reading
        /\ reader'.settled = reader.settled /\ reader'.since = reader.since \cup {content'}
    BY <2>1 DEF Reading, Idle, TypeOK
  <2>3. \A held, rev : Observable(held, rev) =>
          \E all \in reader'.since : held \subseteq all /\ all \ held \subseteq {r \in late' : r > rev}
    BY <2>2, ObservableStays
  <2>4. block.publish => Observable(c[n + 1].committed, updates[n + 1].rev)'
    <3>1. block.publish => c[n + 1].committed = content'
      BY <1>5, <2>2 DEF n
    <3>2. QED
      BY <2>2, <3>1 DEF Observable, Lacks
  <2>5. \A i \in 1..n : queue[i].publish /\ queue[i].rev >= reader.settled
                          => Observable(b[i].committed, queue[i].rev)
    BY <2>2 DEF Queue, Answers, n
  <2>6. \A i \in 1..n : c[i] = b[i]
    BY <1>1, <1>3 DEF n
  <2>7. \A i \in 1..n : updates'[i].publish /\ updates'[i].rev >= reader'.settled
                          => Observable(c[i].committed, updates[i].rev)'
    BY <1>2, <2>2, <2>3, <2>5, <2>6 DEF Observable, Lacks
  <2>8. manifest.rev >= reader.settled => Observable(manifest.content, manifest.rev)
    BY <2>2 DEF Queue, Answers
  <2>9. manifest.rev >= reader'.settled => Observable(manifest.content, manifest.rev)'
    BY <2>2, <2>3, <2>8 DEF Observable, Lacks
  <2>10. QED
    BY <1>2, <1>6, <2>4, <2>7, <2>9
<1>14. Rests(c, updates)'
  <2>1. SUFFICES ASSUME ~unrepaired', AtRest'
                 PROVE  /\ manifest.rev >= status.settled =>
                             Lacks(manifest.content, manifest.rev, content)'
                        /\ \A i \in 1..(n + 1) :
                             updates'[i].publish /\ updates'[i].rev >= status.settled =>
                               Lacks(c[i].committed, updates[i].rev, content)'
    BY <1>2 DEF Rests
  <2>2. /\ AtRest /\ ~unrepaired /\ late \subseteq late'
        /\ content' = content \cup {block.rev} /\ block.rev \in late'
    BY <2>1
  <2>3. ASSUME NEW held, NEW rev \in Nat, Lacks(held, rev, content), rev < block.rev
        PROVE  Lacks(held, rev, content)'
    <3>1. held \subseteq content' /\ content' \ held \subseteq {r \in late' : r > rev}
      BY <1>7, <2>2, <2>3, LacksMore
    <3>2. QED
      BY <3>1 DEF Lacks
  <2>4. /\ manifest.rev >= status.settled => Lacks(manifest.content, manifest.rev, content)
        /\ \A i \in 1..n : queue[i].publish /\ queue[i].rev >= status.settled =>
             Lacks(b[i].committed, queue[i].rev, content)
    BY <2>2 DEF Queue, Rests, n
  <2>5. manifest.rev >= status.settled => Lacks(manifest.content, manifest.rev, content)'
    <3>1. manifest.rev < block.rev
      BY <1>7
    <3>2. QED
      BY <1>7, <2>3, <2>4, <3>1 DEF Lacks
  <2>6. ASSUME NEW i \in 1..n, updates'[i].publish, updates'[i].rev >= status.settled
        PROVE  Lacks(c[i].committed, updates[i].rev, content)'
    <3>1. updates'[i] = queue[i] /\ c[i] = b[i]
      BY <1>1, <1>2, <1>3 DEF n
    <3>2. queue[i].rev < block.rev /\ queue[i].rev \in Nat
      BY <1>7, <1>8
    <3>3. Lacks(b[i].committed, queue[i].rev, content)
      BY <2>4, <2>6, <3>1
    <3>4. Lacks(b[i].committed, queue[i].rev, content)'
      BY <2>3, <3>2, <3>3 DEF Lacks
    <3>5. QED
      BY <3>1, <3>4 DEF Lacks
  <2>7. block.publish => Lacks(c[n + 1].committed, updates[n + 1].rev, content)'
    <3>1. block.publish => c[n + 1].committed = content'
      BY <1>5, <2>1 DEF n
    <3>2. QED
      BY <3>1 DEF Lacks
  <2>8. QED
    BY <1>2, <1>6, <2>5, <2>6, <2>7
<1>12. n + 1 <= Blocks
  BY <1>1 DEF n
<1>13. Queue(c, updates)'
  BY <1>2, <1>4, <1>9, <1>10, <1>11, <1>12, <1>14 DEF Queue
<1>15. QED
  BY <1>13

(* An update finds no room: nothing is promised until a replacing one does.    *)
LEMMA QueueLoses ==
  ASSUME NEW b, NEW queue, Queue(b, queue), updates' = queue, latest' = latest, unrepaired',
         UNCHANGED <<publisher, prepared, unseen>>, reader' = Idle
  PROVE  \E c : Queue(c, updates)'
<1>1. OrderedIn(updates)'
  BY DEF Queue, OrderedIn
<1>2. IsReplay(b, updates)'
  BY DEF Queue, IsReplay, Now
<1>3. Leads(b, updates)' /\ Rests(b, updates)' /\ Answers(b, updates)'
  BY DEF Leads, Rests, Answers, Reading, Idle
<1>4. Queue(b, updates)'
  BY <1>1, <1>2, <1>3 DEF Queue
<1>5. QED
  BY <1>4

(* begin_working_generation changes nothing of what the replay leads to: the   *)
(* builder holds what it has committed, as no range waits for its end.         *)
LEMMA QueueWorks ==
  ASSUME TypeOK, NEW b, Queue(b, updates), phase = "idle"
  PROVE  \E c : Queue(c, WithWorking)
<1>1. CASE ~Fits(updates)
  BY <1>1 DEF WithWorking
<1>2. CASE Fits(updates)
  <2> DEFINE n == Len(updates)
             longer == Append(updates, NoBlock)
  <2>1. /\ updates \in Seq(UpdateBlocks) /\ n \in Nat /\ n < Blocks /\ Blocks \in Nat
        /\ IsReplay(b, updates) /\ OrderedIn(updates)
    BY <1>2, LenProperties, BlocksAssumption DEF Queue, Fits
  <2>2. /\ NoBlock \in UpdateBlocks /\ NoBlock.kind = "working" /\ NoBlock.rev = 0
        /\ ~NoBlock.publish /\ WithWorking = longer
    BY <1>2, BoundsAssumption DEF NoBlock, UpdateBlocks, Kinds, WithWorking
  <2>3. /\ longer \in Seq(UpdateBlocks) /\ Len(longer) = n + 1
        /\ \A i \in 1..n : longer[i] = updates[i]
        /\ longer[n + 1] = NoBlock
    BY <2>1, <2>2, Appended
  <2>4. PICK c : /\ IsReplay(c, longer)
                 /\ c[n + 1] = After(b[n], NoBlock)
                 /\ \A i \in 0..n : c[i] = b[i]
    BY <2>1, <2>2, ReplayAppended
  <2> HIDE DEF longer
  <2>5. c[n + 1].chunks = b[n].committed /\ c[n + 1].committed = b[n].committed
    BY <2>2, <2>4 DEF After, BuiltFrom
  <2>6. \A i \in 1..(n + 1) : i \in 1..n \/ i = n + 1
    BY <2>1
  <2>7. latest \in Nat
    BY Numbers
  <2>8. OrderedIn(longer)
    <3>1. SUFFICES ASSUME NEW i \in 1..(n + 1)
                   PROVE  /\ longer[i].rev <= latest
                          /\ longer[i].kind = "working" => longer[i] = NoBlock
                          /\ longer[i].kind = "install" => longer[i].rev \in prepared \cup unseen
                          /\ \A j \in 1..(n + 1) :
                               i < j /\ longer[j].kind # "working" => longer[i].rev < longer[j].rev
      BY <2>3 DEF OrderedIn
    <3>2. CASE i \in 1..n
      BY <2>1, <2>2, <2>3, <2>6, <3>2 DEF OrderedIn
    <3>3. CASE i = n + 1
      <4>1. \A j \in 1..(n + 1) : ~(i < j)
        BY <2>1, <3>3
      <4>2. QED
        BY <2>2, <2>3, <2>7, <3>3, <4>1
    <3>4. QED
      BY <2>6, <3>2, <3>3
  <2>9. Leads(c, longer)
    BY <2>1, <2>2, <2>3, <2>4, <2>5, <2>6 DEF Queue, Leads
  <2>10. Answers(c, longer)
    BY <2>1, <2>2, <2>3, <2>4, <2>6 DEF Queue, Answers
  <2>11. n + 1 <= Blocks
    BY <2>1
  <2>14. Rests(c, longer)
    BY <2>1, <2>2, <2>3, <2>4, <2>6 DEF Queue, Rests
  <2>12. Queue(c, longer)
    BY <2>3, <2>4, <2>8, <2>9, <2>10, <2>11, <2>14 DEF Queue
  <2>13. QED
    BY <2>2, <2>12
<1>3. QED
  BY <1>1, <1>2

\* A step that leaves the queue, the content and the readers alone.
LEMMA QueueStays ==
  ASSUME NEW b, Queue(b, updates), Now' = Now,
         UNCHANGED <<content, phase, latest, updates, manifest, reader, late, unrepaired>>,
         status'.settled = status.settled, AtRest' => AtRest,
         prepared \cup unseen \subseteq prepared' \cup unseen'
  PROVE  \E c : Queue(c, updates)'
<1>1. OrderedIn(updates)'
  BY DEF Queue, OrderedIn
<1>2. IsReplay(b, updates)'
  BY DEF Queue, IsReplay
<1>3. Leads(b, updates)' /\ Rests(b, updates)' /\ Answers(b, updates)'
  BY DEF Queue, Leads, Rests, Lacks, Answers, Observable, Reading
<1>4. Queue(b, updates)'
  BY <1>1, <1>2, <1>3 DEF Queue
<1>5. QED
  BY <1>4

-----------------------------------------------------------------------------
(* Types. *)

StatusTypes == [mutation : Mutations, next : 1..MaxRevisions + 1, settled : 0..MaxRevisions,
                published : 0..MaxRevisions, saturated : BOOLEAN]
Readers == [pc : {"idle", "mutation", "published", "manifest", "late answer",
                  "wrong answer"},
            settled : 0..MaxRevisions, since : SUBSET Contents]

LEMMA Bounds ==
  /\ 0 \in 0..MaxRevisions /\ 1 \in 1..MaxRevisions + 1
  /\ Revisions \subseteq 0..MaxRevisions
  /\ \A rev \in Revisions : rev + 1 \in 1..MaxRevisions + 1 /\ rev \in Nat /\ rev > 0
BY BoundsAssumption DEF Revisions

LEMMA SpareRevision ==
  ASSUME TypeOK, Spare
  PROVE  status.next \in Revisions
<1>1. status.next \in 1..MaxRevisions + 1 /\ queued \in 0..MaxCopies
  BY DEF TypeOK
<1>2. MaxRevisions \in Nat /\ MaxCopies \in Nat /\ status.next + queued \in 1..MaxRevisions
  BY BoundsAssumption DEF Spare, Revisions
<1>3. QED
  BY <1>1, <1>2 DEF Revisions

LEMMA UnannouncedKinds ==
  ASSUME NEW c \in Unannounced
  PROVE  c.kind \in {"clear loop", "resize loop"}
<1>1. c = [kind |-> "clear loop", rev |-> 0] \/ c = [kind |-> "resize loop", rev |-> 0]
  BY DEF Unannounced
<1>2. CASE c = [kind |-> "clear loop", rev |-> 0]
  <2>1. c.kind = "clear loop"
    BY <1>2
  <2>2. QED
    BY <2>1
<1>3. CASE c = [kind |-> "resize loop", rev |-> 0]
  <2>1. c.kind = "resize loop"
    BY <1>3
  <2>2. QED
    BY <2>1
<1>4. QED
  BY <1>1, <1>2, <1>3

LEMMA CommandKinds ==
  ASSUME NEW command \in AllCommands
  PROVE  /\ command.kind \in {"clear", "load", "clear loop", "resize loop"}
         /\ command \in Unannounced <=> command.kind \in {"clear loop", "resize loop"}
         /\ command.kind = "load" => command.rev \in Revisions
         /\ command # NoCommand
<1>1. \A c \in Unannounced : c.kind \in {"clear loop", "resize loop"}
  BY UnannouncedKinds
<1>2. ClearCommand.kind = "clear" /\ NoCommand.kind = "none"
  BY DEF ClearCommand, NoCommand
<1>3. \A rev \in Revisions : LoadCommand(rev).kind = "load" /\ LoadCommand(rev).rev = rev
  BY DEF LoadCommand
<1>4. command = ClearCommand \/ command \in Unannounced
        \/ \E rev \in Revisions : command = LoadCommand(rev)
  BY DEF AllCommands
<1>5. CASE command = ClearCommand
  BY <1>1, <1>2, <1>5
<1>6. CASE command \in Unannounced
  BY <1>1, <1>2, <1>6
<1>7. CASE \E rev \in Revisions : command = LoadCommand(rev)
  BY <1>1, <1>2, <1>3, <1>7
<1>8. QED
  BY <1>4, <1>5, <1>6, <1>7

LEMMA ObserveTypes ==
  ASSUME TypeOK, NEW held \in Contents, NEW lost, Observe(held, lost)
  PROVE  reader' \in Readers
<1>1. reader \in Readers /\ Idle \in Readers
  BY Bounds DEF TypeOK, Readers, Idle
<1>2. [reader EXCEPT !.since = @ \cup {held}] \in Readers
  BY <1>1 DEF Readers
<1>3. QED
  BY <1>1, <1>2 DEF Observe

LEMMA WorkingTypes ==
  ASSUME TypeOK
  PROVE  /\ WithWorking \in Seq(UpdateBlocks) /\ Len(WithWorking) <= Blocks
         /\ Fits(WithWorking) => Fits(updates)
<1>1. /\ updates \in Seq(UpdateBlocks) /\ Len(updates) <= Blocks /\ Len(updates) \in Nat
      /\ Blocks \in Nat
  BY LenProperties, BlocksAssumption DEF TypeOK
<1>2. NoBlock \in UpdateBlocks
  BY Bounds DEF NoBlock, UpdateBlocks, Kinds
<1>3. Append(updates, NoBlock) \in Seq(UpdateBlocks) /\ Len(Append(updates, NoBlock)) = Len(updates) + 1
  BY <1>1, <1>2, Appended
<1>4. CASE Fits(updates)
  BY <1>1, <1>3, <1>4 DEF WithWorking, Fits
<1>5. CASE ~Fits(updates)
  BY <1>1, <1>5 DEF WithWorking
<1>6. QED
  BY <1>4, <1>5

\* An update is queued with the next revision, or it is lost.
LEMMA PublishFacts ==
  ASSUME TypeOK, NEW queue \in Seq(UpdateBlocks), Len(queue) <= Blocks,
         NEW kind \in Kinds, NEW publish \in BOOLEAN, NEW saturated,
         NEW mutation \in Mutations,
         Publish(queue, kind, publish, FALSE), status' = StatusAfter(queue, mutation, saturated)
  PROVE  /\ updates' \in Seq(UpdateBlocks) /\ Len(updates') <= Blocks
         /\ latest' \in 0..MaxRevisions /\ unrepaired' \in BOOLEAN /\ status' \in StatusTypes
         /\ Named(queue) \in 0..MaxRevisions
         /\ status'.mutation = mutation /\ status'.settled = status.settled
         /\ status.saturated \/ saturated => status'.saturated
         /\ Fits(queue) =>
              /\ Named(queue) = status.next /\ Named(queue) \in Revisions
              /\ Block(kind, status.next, publish) \in UpdateBlocks
              /\ updates' = Append(queue, Block(kind, status.next, publish))
              /\ latest' = status.next /\ status'.next = status.next + 1
              /\ unrepaired' => unrepaired /\ kind # "silence"
              /\ unrepaired /\ kind # "silence" => unrepaired'
         /\ ~Fits(queue) =>
              /\ updates' = queue /\ latest' = latest /\ status'.next = status.next
              /\ unrepaired' /\ status'.saturated
<1>1. /\ status \in StatusTypes /\ latest \in 0..MaxRevisions /\ unrepaired \in BOOLEAN
      /\ Len(queue) \in Nat /\ Blocks \in Nat
  BY LenProperties, BlocksAssumption DEF TypeOK, StatusTypes
<1>2. /\ status'.mutation = mutation /\ status'.settled = status.settled
      /\ status'.published = status.published
      /\ status'.next = (IF Fits(queue) THEN status.next + 1 ELSE status.next)
      /\ status'.saturated = (status.saturated \/ saturated \/ ~Fits(queue))
      /\ status' = [status EXCEPT !.mutation = mutation,
                     !.next = IF Fits(queue) THEN status.next + 1 ELSE status.next,
                     !.saturated = status.saturated \/ saturated \/ ~Fits(queue)]
  BY <1>1 DEF StatusAfter, StatusTypes
<1>3. CASE Fits(queue)
  <2> DEFINE block == Block(kind, status.next, publish)
  <2>1. /\ status.next \in Revisions /\ updates' = Append(queue, block) /\ latest' = status.next
        /\ unrepaired' = (IF kind = "silence" THEN FALSE ELSE unrepaired)
    BY <1>1, <1>3 DEF Publish
  <2>2. block \in UpdateBlocks
    BY <2>1, Bounds DEF Block, UpdateBlocks
  <2> HIDE DEF block
  <2>3. updates' \in Seq(UpdateBlocks) /\ Len(updates') = Len(queue) + 1
    BY <2>1, <2>2, Appended
  <2>4. Len(updates') <= Blocks
    BY <1>1, <1>3, <2>3 DEF Fits
  <2>5. status' \in StatusTypes
    BY <1>1, <1>2, <1>3, <2>1, Bounds DEF StatusTypes
  <2>6. unrepaired' \in BOOLEAN /\ (unrepaired' => unrepaired /\ kind # "silence")
        /\ (unrepaired /\ kind # "silence" => unrepaired')
    BY <1>1, <2>1
  <2>7. Named(queue) = status.next
    BY <1>3 DEF Named
  <2>8. status.saturated \/ saturated => status'.saturated
    BY <1>2
  <2>9. latest' \in 0..MaxRevisions
    BY <2>1, Bounds
  <2>10. QED
    BY <1>2, <1>3, <2>1, <2>2, <2>3, <2>4, <2>5, <2>6, <2>7, <2>8, <2>9, Bounds DEF block
<1>4. CASE ~Fits(queue)
  <2>1. updates' = queue /\ latest' = latest /\ unrepaired' = TRUE
    BY <1>4 DEF Publish
  <2>2. status' \in StatusTypes
    BY <1>1, <1>2, <1>4 DEF StatusTypes
  <2>3. Named(queue) \in 0..MaxRevisions
    BY <1>4, Bounds DEF Named, Lost
  <2>4. status'.saturated
    BY <1>2, <1>4
  <2>5. QED
    BY <1>1, <1>2, <1>4, <2>1, <2>2, <2>3, <2>4
<1>5. QED
  BY <1>3, <1>4

LEMMA CommandsTaken ==
  ASSUME TypeOK, commands # <<>>, commands' = Tail(commands)
  PROVE  /\ commands' \in Seq(AllCommands) /\ Len(commands') <= MaxCommands
         /\ Head(commands) \in AllCommands /\ Head(commands) = commands[1]
         /\ 1 \in 1..Len(commands) /\ Len(commands) \in Nat
         /\ \A i \in 1..Len(commands') : i + 1 \in 1..Len(commands) /\ i + 1 # 1
                                         /\ commands'[i] = commands[i + 1]
<1>1. commands \in Seq(AllCommands) /\ Len(commands) <= MaxCommands /\ MaxCommands \in Nat
  BY BoundsAssumption DEF TypeOK
<1>2. /\ Head(commands) \in AllCommands /\ Head(commands) = commands[1]
      /\ commands' \in Seq(AllCommands)
      /\ Len(commands') = Len(commands) - 1 /\ Len(commands) \in Nat /\ Len(commands) > 0
      /\ \A i \in 1..Len(commands') : commands'[i] = commands[i + 1]
  BY <1>1, Popped
<1>3. QED
  BY <1>1, <1>2

LEMMA CommandsSent ==
  ASSUME TypeOK, NEW command \in AllCommands, Len(commands) < MaxCommands,
         commands' = Append(commands, command)
  PROVE  /\ commands' \in Seq(AllCommands) /\ Len(commands') <= MaxCommands
         /\ Len(commands') = Len(commands) + 1 /\ Len(commands) \in Nat
         /\ \A i \in 1..Len(commands) : commands'[i] = commands[i]
         /\ commands'[Len(commands) + 1] = command
         /\ \A i \in 1..Len(commands') : i \in 1..Len(commands) \/ i = Len(commands) + 1
<1>1. commands \in Seq(AllCommands) /\ MaxCommands \in Nat
  BY BoundsAssumption DEF TypeOK
<1>2. /\ commands' \in Seq(AllCommands) /\ Len(commands') = Len(commands) + 1
      /\ Len(commands) \in Nat
      /\ \A i \in 1..Len(commands) : commands'[i] = commands[i]
      /\ commands'[Len(commands) + 1] = command
  BY <1>1, Appended
<1>3. QED
  BY <1>1, <1>2

\* The replacing of all samples: Named is what the channel holds afterwards.
LEMMA ReplaceFacts ==
  ASSUME TypeOK, NEW kind \in {"truncate", "silence"}, NEW announced, ReplaceAll(kind, announced)
  PROVE  /\ updates' \in Seq(UpdateBlocks) /\ Len(updates') <= Blocks
         /\ latest' \in 0..MaxRevisions /\ unrepaired' \in BOOLEAN /\ status' \in StatusTypes
         /\ content' \in Contents /\ reader' \in Readers
         /\ Begun("clearing") \in Mutations \ {"none"} /\ kind \in Kinds
<1>1. Begun("clearing") \in Mutations \ {"none"} /\ kind \in Kinds
  BY DEF TypeOK, Begun, Mutations, Kinds
<1>2. /\ WithWorking \in Seq(UpdateBlocks) /\ Len(WithWorking) <= Blocks
  BY WorkingTypes
<1>3. /\ Publish(WithWorking, kind, TRUE, FALSE)
      /\ status' = StatusAfter(WithWorking, Begun("clearing"), ~Fits(updates))
      /\ content' = {Named(WithWorking)} /\ Observe(content', ~Fits(WithWorking))
  BY DEF ReplaceAll
<1>4. /\ updates' \in Seq(UpdateBlocks) /\ Len(updates') <= Blocks
      /\ latest' \in 0..MaxRevisions /\ unrepaired' \in BOOLEAN /\ status' \in StatusTypes
      /\ Named(WithWorking) \in 0..MaxRevisions
  BY <1>1, <1>2, <1>3, PublishFacts
<1>5. content' \in Contents
  BY <1>3, <1>4 DEF Contents
<1>6. reader' \in Readers
  BY <1>3, <1>5, ObserveTypes
<1>7. QED
  BY <1>1, <1>4, <1>5, <1>6

\* Copies are queued and applied one by one, and stay late.
LEMMA CopyTypes ==
  ASSUME TypeOK, [Next]_vars
  PROVE  queued' \in 0..MaxCopies /\ late' \subseteq Revisions /\ late \subseteq late'
<1>1. queued \in 0..MaxCopies /\ late \subseteq Revisions /\ MaxCopies \in Nat
  BY BoundsAssumption DEF TypeOK
<1>2. CASE \/ GoOn
           \/ \E mutation \in {"recording", "replacing"} : Start(mutation)
  BY <1>1, <1>2 DEF GoOn, Start, QueueCopy
<1>3. CASE WriteRange
  <2>1. /\ queued > 0 /\ queued' = queued - 1
        /\ late' = late \cup (IF phase = "idle" /\ Fits(updates) THEN {status.next} ELSE {})
        /\ Fits(updates) => status.next \in Revisions
    BY <1>3 DEF WriteRange, Publish
  <2>2. QED
    BY <1>1, <2>1
<1>4. CASE UNCHANGED <<queued, late>>
  BY <1>1, <1>4
<1>5. QED
  BY <1>2, <1>3, <1>4
     DEF Next, vars, PrepareLoad, BeginClear, SendAccepted, SendRefused, SendUnannounced,
         AudioStep, ApplyCommand, ApplyClear, ApplyClearLoop, ApplyResizeLoop, ReplaceAll,
         ApplyLoad, FinishMutation, Settle, Release, Stop, PublisherStep, NextPump, TakeUpdate,
         MarkPublished, ReaderStep, LoadSaturated, LoadMutation, LoadPublished, LoadManifest,
         Reads, Everything

LEMMA StepTypes == TypeOK /\ [Next]_vars => TypeOK'
<1> SUFFICES ASSUME TypeOK, [Next]_vars
             PROVE  TypeOK'
  OBVIOUS
<1>0. queued' \in 0..MaxCopies /\ late' \subseteq Revisions
  BY CopyTypes
<1> USE <1>0
<1>1. ASSUME PrepareLoad \/ BeginClear \/ SendAccepted \/ SendRefused \/ SendUnannounced
      PROVE  TypeOK'
  <2>1. CASE PrepareLoad
    <3>1. status.next \in Revisions /\ LoadCommand(status.next) \in AllCommands
      BY <2>1, SpareRevision DEF PrepareLoad, AllCommands
    <3>2. status' \in StatusTypes
      BY <2>1, <3>1, Bounds DEF PrepareLoad, TypeOK, StatusTypes, Mutations
    <3>3. unseen' \subseteq Revisions
      BY <2>1, <3>1 DEF PrepareLoad, TypeOK
    <3>4. QED
      BY <2>1, <3>1, <3>2, <3>3 DEF PrepareLoad, TypeOK, StatusTypes
  <2>2. CASE BeginClear
    <3>1. ClearCommand \in AllCommands
      BY DEF AllCommands
    <3>2. status' \in StatusTypes
      BY <2>2 DEF BeginClear, TypeOK, StatusTypes, Mutations
    <3>3. QED
      BY <2>2, <3>1, <3>2 DEF BeginClear, TypeOK, StatusTypes
  <2>3. CASE SendAccepted
    <3>1. commands' \in Seq(AllCommands) /\ Len(commands') <= MaxCommands
      BY <2>3, CommandsSent DEF SendAccepted, TypeOK
    <3>2. QED
      BY <2>3, <3>1 DEF SendAccepted, TypeOK
  <2>4. CASE SendRefused
    <3>1. status' \in StatusTypes
      BY <2>4 DEF SendRefused, TypeOK, StatusTypes, Mutations
    <3>2. QED
      BY <2>4, <3>1 DEF SendRefused, TypeOK, StatusTypes
  <2>5. CASE SendUnannounced
    <3>1. commands' \in Seq(AllCommands) /\ Len(commands') <= MaxCommands
      BY <2>5, CommandsSent DEF SendUnannounced, TypeOK, AllCommands
    <3>2. QED
      BY <2>5, <3>1 DEF SendUnannounced, TypeOK
  <2>6. QED
    BY <1>1, <2>1, <2>2, <2>3, <2>4, <2>5
<1>2. ASSUME NEW kind \in {"truncate", "silence"}, NEW announced, ReplaceAll(kind, announced),
             commands # <<>>, commands' = Tail(commands)
      PROVE  TypeOK'
  <2>1. commands' \in Seq(AllCommands) /\ Len(commands') <= MaxCommands
    BY <1>2, CommandsTaken
  <2>2. /\ updates' \in Seq(UpdateBlocks) /\ Len(updates') <= Blocks
        /\ latest' \in 0..MaxRevisions /\ unrepaired' \in BOOLEAN /\ status' \in StatusTypes
        /\ content' \in Contents /\ reader' \in Readers
    BY <1>2, ReplaceFacts
  <2>3. /\ step' = "settle" /\ excuses' \subseteq {"overlap", "early recovery"}
        /\ UNCHANGED <<phase, control, unseen, prepared, publisher, manifest>>
    BY <1>2 DEF ReplaceAll, TypeOK
  <2>4. QED
    BY <2>1, <2>2, <2>3 DEF TypeOK, StatusTypes, Readers
<1>3. ASSUME ApplyLoad
      PROVE  TypeOK'
  <2>1. /\ commands # <<>> /\ Head(commands).kind = "load" /\ commands' = Tail(commands)
        /\ content' = {Head(commands).rev}
        /\ Observe(content', ~Fits(updates)) /\ excuses' \subseteq {"overlap", "early recovery"}
        /\ UNCHANGED <<phase, control, unseen, prepared, publisher, manifest>>
    BY <1>3 DEF ApplyLoad, Applies, TypeOK
  <2>2. /\ commands' \in Seq(AllCommands) /\ Len(commands') <= MaxCommands
        /\ Head(commands).rev \in Revisions
    BY <2>1, CommandsTaken, CommandKinds
  <2>3. content' \in Contents
    BY <2>1, <2>2, Bounds DEF Contents
  <2>4. reader' \in Readers
    BY <2>1, <2>3, ObserveTypes
  <2>5. /\ updates' \in Seq(UpdateBlocks) /\ Len(updates') <= Blocks
        /\ latest' \in 0..MaxRevisions /\ step' \in {"free", "settle", "release", "finalize"}
        /\ unrepaired' \in BOOLEAN
    <3>1. CASE Fits(updates)
      <4>1. /\ updates' = Append(updates, Block("install", Head(commands).rev, TRUE))
            /\ latest' = Head(commands).rev /\ step' = "settle" /\ unrepaired' = FALSE
        BY <1>3, <3>1 DEF ApplyLoad
      <4>2. Block("install", Head(commands).rev, TRUE) \in UpdateBlocks
        BY <2>2, Bounds DEF Block, UpdateBlocks, Kinds
      <4>3. updates' \in Seq(UpdateBlocks) /\ Len(updates') = Len(updates) + 1
            /\ Len(updates) \in Nat
        <5>1. updates \in Seq(UpdateBlocks)
          BY DEF TypeOK
        <5>2. QED
          BY <4>1, <4>2, <5>1, Appended, Zenon
      <4>4. Len(updates') <= Blocks
        BY <3>1, <4>3, BlocksAssumption DEF Fits
      <4>5. QED
        BY <2>2, <4>1, <4>3, <4>4, Bounds
    <3>2. CASE ~Fits(updates)
      BY <1>3, <3>2 DEF ApplyLoad, TypeOK
    <3>3. QED
      BY <3>1, <3>2
  <2>6. status' \in StatusTypes
    BY <1>3 DEF ApplyLoad, TypeOK, StatusTypes
  <2>7. QED
    BY <2>1, <2>2, <2>3, <2>4, <2>5, <2>6 DEF TypeOK, StatusTypes, Readers
<1>4. ASSUME NEW mutation \in {"recording", "replacing"}, Start(mutation)
      PROVE  TypeOK'
  <2>1. /\ updates' = WithWorking /\ phase' = mutation /\ Observe(content, ~Fits(updates))
        /\ status' = [status EXCEPT !.mutation = Begun(mutation),
                                    !.saturated = @ \/ ~Fits(updates)]
        /\ unrepaired' \in BOOLEAN /\ excuses' \subseteq {"overlap", "early recovery"}
        /\ UNCHANGED <<content, step, latest, commands, control, unseen, prepared, publisher,
                       manifest>>
    BY <1>4 DEF Start, TypeOK
  <2>2. reader' \in Readers
    BY <2>1, ObserveTypes DEF TypeOK
  <2>3. status' \in StatusTypes
    BY <2>1 DEF TypeOK, StatusTypes, Begun, Mutations
  <2>4. QED
    BY <2>1, <2>2, <2>3, WorkingTypes DEF TypeOK, StatusTypes, Readers
<1>5. ASSUME WriteRange
      PROVE  TypeOK'
  <2>1. /\ Publish(updates, "range", phase # "replacing", FALSE)
        /\ status' = StatusAfter(updates, status.mutation, FALSE)
        /\ content' = content \cup {Named(updates)} /\ Observe(content', ~Fits(updates))
        /\ step' \in {"free", "finalize"} /\ excuses' \subseteq {"overlap", "early recovery"}
        /\ UNCHANGED <<phase, commands, control, unseen, prepared, publisher, manifest>>
    BY <1>5 DEF WriteRange, TypeOK
  <2>2. /\ updates \in Seq(UpdateBlocks) /\ Len(updates) <= Blocks /\ "range" \in Kinds
        /\ (phase # "replacing") \in BOOLEAN /\ status.mutation \in Mutations
    BY DEF TypeOK, Kinds
  <2>3. /\ updates' \in Seq(UpdateBlocks) /\ Len(updates') <= Blocks
        /\ latest' \in 0..MaxRevisions /\ unrepaired' \in BOOLEAN /\ status' \in StatusTypes
        /\ Named(updates) \in 0..MaxRevisions
    BY <2>1, <2>2, PublishFacts
  <2>4. content' \in Contents
    BY <2>1, <2>3 DEF Contents, TypeOK
  <2>5. reader' \in Readers
    BY <2>1, <2>4, ObserveTypes
  <2>6. QED
    BY <2>1, <2>3, <2>4, <2>5 DEF TypeOK, StatusTypes, Readers
<1>6. ASSUME Stop
      PROVE  TypeOK'
  <2>1. /\ phase' = "idle" /\ step' = "settle"
        /\ UNCHANGED <<content, commands, control, unseen, prepared, publisher, manifest, excuses>>
    BY <1>6 DEF Stop
  <2>2. CASE phase = "replacing"
    <3>1. /\ Publish(updates, "final", TRUE, FALSE)
          /\ status' = StatusAfter(updates, status.mutation, FALSE)
          /\ Observe(content, ~Fits(updates))
      BY <1>6, <2>2 DEF Stop
    <3>2. /\ updates \in Seq(UpdateBlocks) /\ Len(updates) <= Blocks /\ "final" \in Kinds
          /\ status.mutation \in Mutations
      BY DEF TypeOK, Kinds
    <3>3. /\ updates' \in Seq(UpdateBlocks) /\ Len(updates') <= Blocks
          /\ latest' \in 0..MaxRevisions /\ unrepaired' \in BOOLEAN /\ status' \in StatusTypes
      BY <3>1, <3>2, PublishFacts
    <3>4. reader' \in Readers
      BY <3>1, ObserveTypes DEF TypeOK
    <3>5. QED
      BY <2>1, <3>3, <3>4 DEF TypeOK, StatusTypes, Readers
  <2>3. CASE phase # "replacing"
    BY <1>6, <2>1, <2>3 DEF Stop, TypeOK
  <2>4. QED
    BY <2>2, <2>3
<1>15. ASSUME GoOn
       PROVE  TypeOK'
  BY <1>15 DEF GoOn, TypeOK
<1>7. ASSUME FinishMutation
      PROVE  TypeOK'
  BY <1>7 DEF FinishMutation, Settle, Release, TypeOK, Mutations
<1>8. ASSUME NextPump
      PROVE  TypeOK'
  BY <1>8 DEF NextPump, TypeOK
<1>9. ASSUME TakeUpdate
      PROVE  TypeOK'
  <2> DEFINE block == Head(updates)
             known == KnownLoads(block)
             missing == block.kind = "install" /\ block.rev \notin known
             built == IF missing THEN publisher.chunks ELSE Built(block)
             visible == block.publish /\ ~missing
  <2>1. /\ updates # <<>> /\ updates' = Tail(updates)
        /\ prepared' = known \ {block.rev}
        /\ unseen' = (IF block.kind = "install" THEN unseen \ known ELSE unseen)
        /\ publisher' = [pc |-> IF visible THEN "mark" ELSE "pumping", chunks |-> built,
                         committed |-> IF visible THEN built ELSE publisher.committed,
                         block |-> block]
        /\ manifest' = (IF visible THEN [rev |-> block.rev, content |-> built] ELSE manifest)
        /\ UNCHANGED <<content, phase, step, queued, latest, commands, control, status, reader,
                       late, unrepaired, excuses>>
    BY <1>9 DEF TakeUpdate
  <2>2. /\ updates' \in Seq(UpdateBlocks) /\ Len(updates') <= Blocks /\ block \in UpdateBlocks
    <3>1. /\ Head(updates) \in UpdateBlocks /\ Tail(updates) \in Seq(UpdateBlocks)
          /\ Len(Tail(updates)) = Len(updates) - 1 /\ Len(updates) \in Nat
      BY <2>1, Popped DEF TypeOK
    <3>2. Len(updates) <= Blocks /\ Blocks \in Nat
      BY BlocksAssumption DEF TypeOK
    <3>3. QED
      BY <2>1, <3>1, <3>2
  <2>3. built \in Contents
    <3>1. Built(block) \in Contents
      BY <2>2 DEF Built, TypeOK, Contents, UpdateBlocks
    <3>2. QED
      BY <3>1 DEF TypeOK
  <2>4. known \subseteq Revisions
    BY DEF KnownLoads, TypeOK
  <2> HIDE DEF built, known, visible, missing
  <2>5. publisher' \in [pc : {"pumping", "mark"}, chunks : Contents, committed : Contents,
                        block : UpdateBlocks]
    BY <2>1, <2>2, <2>3 DEF TypeOK
  <2>6. manifest' \in [rev : 0..MaxRevisions, content : Contents]
    BY <2>1, <2>2, <2>3 DEF TypeOK, UpdateBlocks
  <2>7. prepared' \subseteq Revisions /\ unseen' \subseteq Revisions
    BY <2>1, <2>4 DEF TypeOK
  <2>8. QED
    BY <2>1, <2>2, <2>5, <2>6, <2>7 DEF TypeOK
<1>10. ASSUME MarkPublished
       PROVE  TypeOK'
  <2>1. NoBlock \in UpdateBlocks /\ publisher.block.rev \in 0..MaxRevisions
    BY Bounds DEF NoBlock, UpdateBlocks, Kinds, TypeOK
  <2>2. publisher' \in [pc : {"pumping", "mark"}, chunks : Contents, committed : Contents,
                        block : UpdateBlocks]
    BY <1>10, <2>1 DEF MarkPublished, TypeOK
  <2>3. status' \in StatusTypes
    BY <1>10, <2>1 DEF MarkPublished, TypeOK, StatusTypes
  <2>4. excuses' \subseteq {"overlap", "early recovery"}
    BY <1>10 DEF MarkPublished, TypeOK
  <2>5. QED
    BY <1>10, <2>2, <2>3, <2>4 DEF MarkPublished, TypeOK, StatusTypes
<1>11. ASSUME ReaderStep
       PROVE  TypeOK'
  <2>1. reader' \in Readers
    <3>1. /\ Idle \in Readers /\ reader \in Readers /\ {content} \in SUBSET Contents
          /\ status.settled \in 0..MaxRevisions
      BY Bounds DEF Idle, Readers, TypeOK
    <3>2. LoadSaturated => reader' \in Readers
      <4>1. [pc |-> "mutation", settled |-> 0, since |-> {content}] \in Readers
        BY <3>1, Bounds DEF Readers
      <4>2. QED
        BY <3>1, <4>1 DEF LoadSaturated, Reads
    <3>3. LoadMutation => reader' \in Readers
      BY <3>1 DEF LoadMutation, Reads, Readers
    <3>4. LoadPublished => reader' \in Readers
      BY <3>1 DEF LoadPublished, Reads, Readers
    <3>5. LoadManifest => reader' \in Readers
      BY <3>1 DEF LoadManifest, Reads, Readers
    <3>6. QED
      BY <1>11, <3>2, <3>3, <3>4, <3>5 DEF ReaderStep
  <2>2. UNCHANGED Everything
    BY <1>11 DEF ReaderStep, LoadSaturated, LoadMutation, LoadPublished, LoadManifest, Reads
  <2>3. QED
    BY <2>1, <2>2 DEF Everything, TypeOK, Readers
<1>12. CASE UNCHANGED vars
  BY <1>12 DEF vars, TypeOK
<1>13. ASSUME ApplyCommand
       PROVE  TypeOK'
  BY <1>2, <1>3, <1>13
     DEF ApplyCommand, ApplyClear, ApplyClearLoop, ApplyResizeLoop, Applies
<1>14. QED
  BY <1>1, <1>4, <1>5, <1>6, <1>7, <1>8, <1>9, <1>10, <1>11, <1>12, <1>13, <1>15
     DEF Next, AudioStep, PublisherStep

-----------------------------------------------------------------------------
(* The parts that do not speak of the queue. *)

\* Whatever is on its way is not announced, and the audio thread owns the content.
LEMMA BusyTurns ==
  ASSUME NoneAnnounced', control' = NoCommand, status'.mutation # "none",
         phase' # "idle" => Free'
  PROVE  Turns'
BY DEF Turns, NoneAnnounced

LEMMA NothingLoads ==
  ASSUME commands' \in Seq(AllCommands), NoneAnnounced', control' = NoCommand
  PROVE  Loads'
<1>1. Ahead(control)'
  BY DEF Ahead, NoCommand
<1>2. \A i \in 1..Len(commands') : Ahead(commands[i])'
  <2>1. SUFFICES ASSUME NEW i \in 1..Len(commands')
                 PROVE  commands'[i].kind # "load"
    BY DEF Ahead
  <2>2. commands'[i] \in Unannounced
    BY DEF NoneAnnounced
  <2>3. commands'[i].kind \in {"clear loop", "resize loop"}
    BY <2>2, UnannouncedKinds
  <2>4. QED
    BY <2>3
<1>3. QED
  BY <1>1, <1>2 DEF Loads

\* The command the audio thread takes: an announced one was the only one.
LEMMA HeadTaken ==
  ASSUME TypeOK, Turns, Loads, commands # <<>>, commands' = Tail(commands)
  PROVE  /\ commands' \in Seq(AllCommands) /\ Head(commands) \in AllCommands
         /\ Ahead(Head(commands))
         /\ Head(commands) \notin Unannounced => Calm /\ control = NoCommand /\ NoneAnnounced'
         /\ NoneAnnounced => NoneAnnounced'
<1>1. /\ commands' \in Seq(AllCommands) /\ Head(commands) \in AllCommands
      /\ Head(commands) = commands[1] /\ 1 \in 1..Len(commands)
      /\ \A i \in 1..Len(commands') : i + 1 \in 1..Len(commands) /\ i + 1 # 1
                                      /\ commands'[i] = commands[i + 1]
  BY CommandsTaken
<1>2. Ahead(Head(commands))
  BY <1>1 DEF Loads
<1>3. NoneAnnounced => NoneAnnounced'
  BY <1>1 DEF NoneAnnounced
<1>4. ASSUME Head(commands) \notin Unannounced
      PROVE  Calm /\ control = NoCommand /\ NoneAnnounced'
  <2>1. Calm /\ \A j \in 1..Len(commands) : commands[j] \notin Unannounced => j = 1
    BY <1>1, <1>4 DEF Turns
  <2>2. ~NoneAnnounced
    BY <1>1, <1>4 DEF NoneAnnounced
  <2>3. control = NoCommand
    BY <2>2 DEF Turns
  <2>4. NoneAnnounced'
    BY <1>1, <2>1 DEF NoneAnnounced
  <2>5. QED
    BY <2>1, <2>3, <2>4
<1>5. QED
  BY <1>1, <1>2, <1>3, <1>4

\* While the channel records or replaces, nobody else is about to change it.
LEMMA Recording ==
  ASSUME TypeOK, Turns, phase # "idle"
  PROVE  /\ status.mutation # "none" /\ control = NoCommand /\ NoneAnnounced
         /\ Free
<1>1. \A i \in 1..Len(commands) : commands[i] \in Unannounced
  BY DEF Turns, Calm
<1>2. QED
  BY <1>1 DEF Turns, Calm, Free, NoneAnnounced

-----------------------------------------------------------------------------
(* The control thread. *)

LEMMA PrepareLoadFollows ==
  ASSUME TypeOK, Follows, PrepareLoad
  PROVE  Follows'
<1>1. /\ control = NoCommand /\ status.mutation = "none" /\ status.next \in Revisions
      /\ status' = [status EXCEPT !.mutation = "loading", !.next = @ + 1]
      /\ control' = LoadCommand(status.next)
      /\ unseen' = unseen \cup {status.next}
      /\ UNCHANGED <<content, phase, step, queued, latest, commands, updates, prepared, publisher,
                     manifest, reader, late, unrepaired, excuses>>
  BY SpareRevision DEF PrepareLoad
<1>2. /\ status'.mutation = "loading" /\ status'.next = status.next + 1
      /\ status'.settled = status.settled /\ status'.saturated = status.saturated
      /\ status.next \in Nat /\ latest \in Nat
  BY <1>1, Numbers DEF TypeOK
<1>3. Calm /\ NoneAnnounced /\ control' \notin Unannounced /\ control' # NoCommand
  <2>1. control'.kind = "load" /\ control' \in AllCommands
    BY <1>1 DEF LoadCommand, AllCommands
  <2>2. control' \notin Unannounced /\ control' # NoCommand
    BY <2>1, CommandKinds
  <2>3. QED
    BY <1>1, <2>2 DEF Follows, Turns
<1>4. Turns'
  BY <1>1, <1>2, <1>3 DEF Turns, NoneAnnounced, Calm, Free
<1>5. Counted' /\ Observed'
  <2>1. latest < status.next + 1
    BY <1>2 DEF Follows, Counted
  <2>2. Counted'
    BY <1>1, <1>2, <2>1 DEF Follows, Counted
  <2>3. Observed'
    BY <1>1, <1>2 DEF Follows, Observed, Reading, Right
  <2>4. QED
    BY <2>2, <2>3
<1>6. Loads'
  <2>1. Ahead(control)'
    BY <1>1, <1>2 DEF Ahead, LoadCommand, Follows, Counted
  <2>2. ASSUME NEW i \in 1..Len(commands)
        PROVE  commands[i].kind # "load"
    <3>1. commands[i] \in Unannounced
      BY <1>3 DEF NoneAnnounced
    <3>2. commands[i].kind \in {"clear loop", "resize loop"}
      BY <3>1, UnannouncedKinds
    <3>3. QED
      BY <3>2
  <2>3. QED
    BY <1>1, <2>1, <2>2 DEF Loads, Ahead
<1>7. \E b : Queue(b, updates)'
  <2>1. PICK b : Queue(b, updates)
    BY DEF Follows
  <2>2. Now' = Now /\ prepared \cup unseen \subseteq prepared' \cup unseen'
    BY <1>1 DEF Now
  <2>4. AtRest
    BY <1>1 DEF AtRest
  <2>3. QED
    BY <1>1, <1>2, <2>1, <2>2, <2>4, QueueStays
<1>8. QED
  BY <1>4, <1>5, <1>6, <1>7 DEF Follows

\* Steps of the control thread that touch neither the queue nor the content.
LEMMA QuietFollows ==
  ASSUME Follows,
         UNCHANGED <<content, phase, latest, updates, unseen, prepared, publisher, manifest,
                     reader, late, unrepaired>>,
         status'.settled = status.settled, AtRest' => AtRest
  PROVE  \E b : Queue(b, updates)'
<1>1. PICK b : Queue(b, updates)
  BY DEF Follows
<1>2. Now' = Now /\ prepared \cup unseen \subseteq prepared' \cup unseen'
  BY DEF Now
<1>3. QED
  BY <1>1, <1>2, QueueStays

LEMMA BeginClearFollows ==
  ASSUME TypeOK, Follows, BeginClear
  PROVE  Follows'
<1>1. /\ control = NoCommand /\ status.mutation = "none"
      /\ status' = [status EXCEPT !.mutation = "clearing"]
      /\ control' = ClearCommand
      /\ UNCHANGED <<content, phase, step, queued, latest, commands, updates, unseen, prepared,
                     publisher, manifest, reader, late, unrepaired, excuses>>
  BY DEF BeginClear
<1>2. /\ status'.mutation = "clearing" /\ status'.next = status.next
      /\ status'.settled = status.settled /\ status'.saturated = status.saturated
  BY <1>1 DEF TypeOK
<1>3. Calm /\ NoneAnnounced /\ control' \notin Unannounced /\ control'.kind = "clear"
  <2>1. control'.kind = "clear" /\ control' \in AllCommands
    BY <1>1 DEF ClearCommand, AllCommands
  <2>2. control' \notin Unannounced
    BY <2>1, CommandKinds
  <2>3. QED
    BY <1>1, <2>1, <2>2 DEF Follows, Turns
<1>4. Turns'
  BY <1>1, <1>2, <1>3 DEF Turns, NoneAnnounced, Calm, Free
<1>5. Counted' /\ Observed' /\ Loads'
  BY <1>1, <1>2, <1>3 DEF Follows, Counted, Observed, Reading, Right, Loads, Ahead
<1>6. \E b : Queue(b, updates)'
  BY <1>1, <1>2, QuietFollows DEF AtRest
<1>7. QED
  BY <1>4, <1>5, <1>6 DEF Follows

LEMMA SendAcceptedFollows ==
  ASSUME TypeOK, Follows, SendAccepted
  PROVE  Follows'
<1>1. /\ control # NoCommand /\ Len(commands) < MaxCommands
      /\ commands' = Append(commands, control) /\ control' = NoCommand
      /\ UNCHANGED <<content, phase, step, queued, latest, status, updates, unseen, prepared,
                     publisher, manifest, reader, late, unrepaired, excuses>>
      /\ control \in AllCommands
  BY DEF SendAccepted, TypeOK
<1>2. /\ Len(commands') = Len(commands) + 1 /\ Len(commands) \in Nat
      /\ \A i \in 1..Len(commands) : commands'[i] = commands[i]
      /\ commands'[Len(commands) + 1] = control
      /\ \A i \in 1..Len(commands') : i \in 1..Len(commands) \/ i = Len(commands) + 1
  BY <1>1, CommandsSent
<1>3. Calm /\ NoneAnnounced /\ status.mutation # "none"
  BY <1>1 DEF Follows, Turns
<1>4. Turns'
  <2>1. \A i \in 1..Len(commands') : commands'[i] \notin Unannounced => i = Len(commands) + 1
    BY <1>2, <1>3 DEF NoneAnnounced
  <2>2. QED
    BY <1>1, <1>3, <2>1 DEF Turns, Calm, Free
<1>5. Counted' /\ Observed'
  BY <1>1 DEF Follows, Counted, Observed, Reading, Right
<1>6. Loads'
  <2>1. Ahead(control) /\ \A i \in 1..Len(commands) : Ahead(commands[i])
    BY DEF Follows, Loads
  <2>2. \A i \in 1..Len(commands') : Ahead(commands'[i])
    BY <1>2, <2>1
  <2>3. \A i \in 1..Len(commands') : Ahead(commands[i])'
    BY <1>1, <2>2 DEF Ahead
  <2>4. Ahead(control)'
    BY <1>1 DEF Ahead, NoCommand
  <2>5. QED
    BY <2>3, <2>4 DEF Loads
<1>7. \E b : Queue(b, updates)'
  BY <1>1, QuietFollows DEF AtRest
<1>8. QED
  BY <1>4, <1>5, <1>6, <1>7 DEF Follows

LEMMA SendRefusedFollows ==
  ASSUME TypeOK, Follows, SendRefused
  PROVE  Follows'
<1>1. /\ control # NoCommand /\ control' = NoCommand
      /\ status' = [status EXCEPT !.mutation = "none"]
      /\ UNCHANGED <<content, phase, step, queued, latest, commands, updates, unseen, prepared,
                     publisher, manifest, reader, late, unrepaired, excuses>>
  BY DEF SendRefused
<1>2. /\ status'.mutation = "none" /\ status'.next = status.next
      /\ status'.settled = status.settled /\ status'.saturated = status.saturated
  BY <1>1 DEF TypeOK
<1>3. Turns'
  BY <1>1, <1>2 DEF Follows, Turns, Calm, Free, NoneAnnounced
<1>4. Counted' /\ Observed'
  BY <1>1, <1>2 DEF Follows, Counted, Observed, Reading, Right
<1>5. Loads'
  BY <1>1, NothingLoads DEF Follows, Turns, NoneAnnounced, TypeOK
<1>6. \E b : Queue(b, updates)'
  BY <1>1, <1>2, QuietFollows DEF AtRest
<1>7. QED
  BY <1>3, <1>4, <1>5, <1>6 DEF Follows

LEMMA SendUnannouncedFollows ==
  ASSUME TypeOK, Follows, SendUnannounced
  PROVE  Follows'
<1>1. PICK command \in Unannounced : commands' = Append(commands, command)
  BY DEF SendUnannounced
<1>2. /\ control = NoCommand /\ Len(commands) < MaxCommands
      /\ UNCHANGED <<content, phase, step, queued, latest, control, status, updates, unseen, prepared,
                     publisher, manifest, reader, late, unrepaired, excuses>>
      /\ command \in AllCommands
  BY DEF SendUnannounced, AllCommands
<1>3. /\ Len(commands') = Len(commands) + 1 /\ Len(commands) \in Nat
      /\ \A i \in 1..Len(commands) : commands'[i] = commands[i]
      /\ commands'[Len(commands) + 1] = command
      /\ \A i \in 1..Len(commands') : i \in 1..Len(commands) \/ i = Len(commands) + 1
  BY <1>1, <1>2, CommandsSent
<1>4. \A i \in 1..Len(commands') : commands'[i] \notin Unannounced =>
        i \in 1..Len(commands) /\ commands[i] \notin Unannounced
  BY <1>1, <1>3
<1>5. Turns'
  BY <1>2, <1>4 DEF Follows, Turns, NoneAnnounced, Calm, Free
<1>6. Counted' /\ Observed'
  BY <1>2 DEF Follows, Counted, Observed, Reading, Right
<1>7. Loads'
  <2>1. Ahead(control) /\ \A i \in 1..Len(commands) : Ahead(commands[i])
    BY DEF Follows, Loads
  <2>2. Ahead(command)
    <3>1. command.kind \in {"clear loop", "resize loop"}
      BY UnannouncedKinds
    <3>2. QED
      BY <3>1 DEF Ahead
  <2>3. \A i \in 1..Len(commands') : Ahead(commands'[i])
    BY <1>3, <2>1, <2>2
  <2>4. QED
    BY <1>2, <2>1, <2>3 DEF Loads, Ahead
<1>8. \E b : Queue(b, updates)'
  BY <1>2, QuietFollows DEF AtRest
<1>9. QED
  BY <1>5, <1>6, <1>7, <1>8 DEF Follows

-----------------------------------------------------------------------------
(* The audio thread. *)

\* What an accepted or a lost update makes of the counters and of a read under way.
LEMMA PublishedCounts ==
  ASSUME TypeOK, TypeOK', Counted, Observed, NEW grows \in BOOLEAN,
         UNCHANGED manifest, status'.settled = status.settled,
         grows => latest' = status.next /\ status'.next = status.next + 1,
         ~grows => latest' = latest /\ status'.next = status.next /\ status'.saturated
                   /\ unrepaired',
         status.saturated => status'.saturated,
         grows => (unrepaired' => unrepaired),
         Observe(content', ~grows)
  PROVE  /\ Counted' /\ Observed' /\ (grows => latest < latest')
         /\ reader.pc = "idle" \/ ~unrepaired
         /\ grows => reader' = (IF reader.pc = "idle" THEN Idle
                               ELSE [reader EXCEPT !.since = @ \cup {content'}])
         /\ ~grows => reader' = Idle
<1>1. /\ latest \in Nat /\ manifest.rev \in Nat /\ status.next \in Nat /\ status.settled \in Nat
      /\ reader \in Readers
  BY Numbers DEF TypeOK, Readers
<1>2. Counted'
  BY <1>1 DEF Counted
<1>3. grows => latest < latest'
  BY DEF Counted
<1>4. /\ grows => reader' = (IF reader.pc = "idle" THEN Idle
                             ELSE [reader EXCEPT !.since = @ \cup {content'}])
      /\ ~grows => reader' = Idle
  BY DEF Observe
<1>5. reader.pc = "idle" \/ ~unrepaired
  BY DEF Observed
<1>6. Observed'
  <2>1. CASE reader' = Idle
    <3>1. unrepaired' => status'.saturated
      BY DEF Observed
    <3>2. QED
      BY <2>1, <3>1 DEF Observed, Idle, Reading, Right
  <2>2. CASE grows /\ reader.pc # "idle"
    <3>1. /\ reader'.pc = reader.pc /\ reader'.settled = reader.settled
          /\ reader'.since = reader.since \cup {content'}
      BY <1>1, <1>4, <2>2 DEF Readers
    <3>2. QED
      BY <2>2, <3>1 DEF Observed, Reading, Right
  <2>3. QED
    BY <1>4, <2>1, <2>2
<1>7. QED
  BY <1>2, <1>3, <1>4, <1>5, <1>6

LEMMA ReplaceAllFollows ==
  ASSUME TypeOK, TypeOK', Follows, NEW kind \in {"truncate", "silence"},
         NEW announced \in {"clearing", "none"}, ReplaceAll(kind, announced), excuses' = {},
         commands # <<>>, commands' = Tail(commands),
         announced = "clearing" => Head(commands) \notin Unannounced
  PROVE  Follows'
<1>1. /\ Publish(WithWorking, kind, TRUE, FALSE)
      /\ content' = {Named(WithWorking)}
      /\ status' = StatusAfter(WithWorking, Begun("clearing"), ~Fits(updates))
      /\ Observe(content', ~Fits(WithWorking)) /\ step' = "settle"
      /\ status.mutation = announced
      /\ UNCHANGED <<phase, control, unseen, prepared, publisher, manifest, late>>
  BY DEF ReplaceAll
<1>2. /\ commands' \in Seq(AllCommands)
      /\ Head(commands) \notin Unannounced => Calm /\ control = NoCommand /\ NoneAnnounced'
      /\ NoneAnnounced => NoneAnnounced'
  BY HeadTaken DEF Follows
<1>3. /\ phase = "idle" /\ control = NoCommand /\ NoneAnnounced'
      /\ phase' = "idle" /\ control' = NoCommand
  <2>1. CASE announced = "clearing"
    BY <1>1, <1>2, <2>1 DEF Calm
  <2>2. CASE announced = "none"
    BY <1>1, <1>2, <2>2 DEF Follows, Turns, Calm
  <2>3. QED
    BY <1>1, <2>1, <2>2
<1>4. /\ Begun("clearing") \in Mutations /\ Begun("clearing") # "none" /\ kind \in Kinds
  BY ReplaceFacts
<1>5. /\ WithWorking \in Seq(UpdateBlocks) /\ Len(WithWorking) <= Blocks
      /\ Fits(WithWorking) => Fits(updates)
  BY WorkingTypes
<1>6. /\ status'.mutation = Begun("clearing") /\ status'.settled = status.settled
      /\ status.saturated => status'.saturated
      /\ Fits(WithWorking) =>
           /\ Named(WithWorking) = status.next
           /\ Block(kind, status.next, TRUE) \in UpdateBlocks
           /\ updates' = Append(WithWorking, Block(kind, status.next, TRUE))
           /\ latest' = status.next /\ status'.next = status.next + 1
           /\ unrepaired' => unrepaired
      /\ ~Fits(WithWorking) =>
           /\ updates' = WithWorking /\ latest' = latest /\ status'.next = status.next
           /\ unrepaired' /\ status'.saturated
  BY <1>1, <1>4, <1>5, PublishFacts
<1>7. /\ Counted' /\ Observed' /\ (Fits(WithWorking) => latest < latest')
      /\ reader.pc = "idle" \/ ~unrepaired
      /\ Fits(WithWorking) => reader' = (IF reader.pc = "idle" THEN Idle
                                        ELSE [reader EXCEPT !.since = @ \cup {content'}])
      /\ ~Fits(WithWorking) => reader' = Idle
  <2>1. Fits(WithWorking) \in BOOLEAN
    BY DEF Fits
  <2>2. Counted /\ Observed
    BY DEF Follows
  <2>3. QED
    BY <1>1, <1>6, <2>1, <2>2, PublishedCounts
<1>8. Turns'
  BY <1>3, <1>4, <1>6, BusyTurns
<1>9. Loads'
  BY <1>2, <1>3, NothingLoads
<1>10. ~AtRest'
  BY <1>1, <1>3, <1>4, <1>6 DEF AtRest
<1>11. \E c : Queue(c, updates)'
  <2>1. PICK b : Queue(b, WithWorking)
    BY <1>3, QueueWorks DEF Follows
  <2>2. CASE Fits(WithWorking)
    <3> DEFINE block == Block(kind, status.next, TRUE)
    <3>1. /\ block \in UpdateBlocks /\ block.kind = kind /\ block.rev = status.next
          /\ block.publish /\ kind \notin {"working", "install", "range", "final"}
      BY <1>6, <2>2 DEF Block
    <3> HIDE DEF block
    <3>2. BuiltFrom(b[Len(WithWorking)], block) = content'
      BY <1>1, <1>6, <2>2, <3>1 DEF BuiltFrom
    <3>3. manifest.rev <= latest /\ updates' = Append(WithWorking, block)
      BY <1>6, <2>2 DEF Follows, Counted, block
    <3>4. QED
      BY <1>1, <1>6, <1>7, <1>10, <2>1, <2>2, <3>1, <3>2, <3>3, QueueGrows
  <2>3. CASE ~Fits(WithWorking)
    BY <1>1, <1>6, <1>7, <2>1, <2>3, QueueLoses
  <2>4. QED
    BY <2>2, <2>3
<1>12. QED
  BY <1>7, <1>8, <1>9, <1>11 DEF Follows

LEMMA ApplyLoadFollows ==
  ASSUME TypeOK, TypeOK', Follows, ApplyLoad, excuses' = {}
  PROVE  Follows'
<1>1. /\ step = "free" /\ commands # <<>> /\ Head(commands).kind = "load"
      /\ commands' = Tail(commands) /\ content' = {Head(commands).rev}
      /\ status.mutation = "loading" /\ phase = "idle"
      /\ Observe(content', ~Fits(updates))
      /\ UNCHANGED <<phase, control, unseen, prepared, publisher, manifest, late>>
  BY DEF ApplyLoad, Applies
<1>2. Fits(updates) =>
        /\ updates' = Append(updates, Block("install", Head(commands).rev, TRUE))
        /\ latest' = Head(commands).rev /\ step' = "settle" /\ unrepaired' = FALSE
        /\ status' = status
  BY DEF ApplyLoad
<1>3. ~Fits(updates) =>
        /\ status' = [status EXCEPT !.saturated = TRUE] /\ unrepaired' = TRUE
        /\ UNCHANGED <<updates, latest, step>>
  BY DEF ApplyLoad
<1>4. /\ commands' \in Seq(AllCommands) /\ Head(commands) \in AllCommands
      /\ latest < Head(commands).rev /\ Head(commands).rev < status.next
      /\ Head(commands).rev \in prepared \cup unseen
      /\ control = NoCommand /\ NoneAnnounced'
  <2>1. Head(commands) \in AllCommands
    BY <1>1, HeadTaken DEF Follows
  <2>2. Head(commands) \notin Unannounced
    BY <1>1, <2>1, CommandKinds
  <2>3. QED
    BY <1>1, <2>2, HeadTaken DEF Follows, Ahead
<1>5. /\ status'.mutation = "loading" /\ status'.settled = status.settled
      /\ status'.next = status.next
      /\ status.saturated => status'.saturated
      /\ ~Fits(updates) => status'.saturated
  BY <1>1, <1>2, <1>3 DEF TypeOK
<1>6. /\ latest \in Nat /\ manifest.rev \in Nat /\ status.next \in Nat /\ status.settled \in Nat
      /\ latest' \in Nat /\ reader \in Readers
  BY Numbers, Bounds, <1>2, <1>3, <1>4 DEF TypeOK, Readers
<1>7. Counted'
  <2>1. latest < status.next /\ status.settled <= latest /\ manifest.rev <= latest
    BY DEF Follows, Counted
  <2>2. latest' = Head(commands).rev \/ latest' = latest
    BY <1>2, <1>3
  <2>3. latest' < status.next /\ status.settled <= latest' /\ manifest.rev <= latest'
    BY <1>4, <1>6, <2>1, <2>2
  <2>4. QED
    BY <1>1, <1>5, <2>3 DEF Counted
<1>8. /\ Fits(updates) => reader' = (IF reader.pc = "idle" THEN Idle
                                    ELSE [reader EXCEPT !.since = @ \cup {content'}])
      /\ ~Fits(updates) => reader' = Idle
  BY <1>1 DEF Observe
<1>9. Observed'
  <2>1. CASE reader' = Idle
    <3>1. unrepaired' => status'.saturated
      BY <1>2, <1>3, <1>5
    <3>2. QED
      BY <2>1, <3>1 DEF Observed, Idle, Reading, Right
  <2>2. CASE Fits(updates) /\ reader.pc # "idle"
    <3>1. /\ reader'.pc = reader.pc /\ reader'.settled = reader.settled
          /\ reader'.since = reader.since \cup {content'}
      BY <1>6, <1>8, <2>2 DEF Readers
    <3>2. QED
      BY <1>2, <1>5, <2>2, <3>1 DEF Follows, Observed, Reading, Right
  <2>3. QED
    BY <1>8, <2>1, <2>2
<1>10. Turns'
  BY <1>1, <1>4, <1>5, BusyTurns
<1>11. Loads'
  BY <1>1, <1>4, NothingLoads
<1>12. ~AtRest'
  BY <1>1, <1>2, <1>3, <1>4, <1>5 DEF AtRest
<1>13. \E c : Queue(c, updates)'
  <2>1. PICK b : Queue(b, updates)
    BY DEF Follows
  <2>2. CASE Fits(updates)
    <3> DEFINE block == Block("install", Head(commands).rev, TRUE)
    <3>1. block.kind = "install" /\ block.rev = Head(commands).rev /\ block.publish
      BY DEF Block
    <3>2. block \in UpdateBlocks
      <4>1. Head(commands).rev \in 0..MaxRevisions
        BY <1>1, <1>4, CommandKinds, Bounds
      <4>2. QED
        BY <4>1 DEF Block, UpdateBlocks, Kinds
    <3>3. updates' = Append(updates, block) /\ latest' = block.rev /\ latest < block.rev
      BY <1>2, <1>4, <2>2, <3>1
    <3> HIDE DEF block
    <3>4. BuiltFrom(b[Len(updates)], block) = content'
      BY <1>1, <3>1 DEF BuiltFrom
    <3>5. manifest.rev <= latest /\ (~unrepaired \/ reader.pc = "idle")
      BY DEF Follows, Counted, Observed
    <3>6. ~unrepaired' /\ block.rev \in prepared \cup unseen
      BY <1>2, <1>4, <2>2, <3>1
    <3>7. QED
      BY <1>1, <1>5, <1>8, <1>12, <2>1, <2>2, <3>1, <3>2, <3>3, <3>4, <3>5, <3>6, QueueGrows
  <2>3. CASE ~Fits(updates)
    BY <1>1, <1>3, <1>8, <2>1, <2>3, QueueLoses
  <2>4. QED
    BY <2>2, <2>3
<1>14. QED
  BY <1>7, <1>9, <1>10, <1>11, <1>13 DEF Follows

\* The content stays what it was: only the working generation may be queued.
LEMMA StartFollows ==
  ASSUME TypeOK, TypeOK', Follows, NEW mutation \in {"recording", "replacing"}, Start(mutation),
         excuses' = {}
  PROVE  Follows'
<1>1. /\ step = "free" /\ phase = "idle" /\ phase' = mutation
      /\ updates' = WithWorking
      /\ status' = [status EXCEPT !.mutation = Begun(mutation),
                                  !.saturated = @ \/ ~Fits(updates)]
      /\ unrepaired' = (unrepaired \/ ~Fits(updates))
      /\ status.mutation = "none"
      /\ Observe(content, ~Fits(updates))
      /\ UNCHANGED <<content, step, latest, commands, control, unseen, prepared, publisher,
                     manifest, late>>
  BY DEF Start
<1>2. /\ status'.mutation = mutation /\ status'.settled = status.settled
      /\ status'.next = status.next
      /\ status'.saturated = (status.saturated \/ ~Fits(updates))
      /\ reader \in Readers
  BY <1>1 DEF TypeOK, Begun, Readers
<1>3. control = NoCommand /\ NoneAnnounced
  BY <1>1 DEF Follows, Turns
<1>4. Turns'
  BY <1>1, <1>2, <1>3, BusyTurns DEF NoneAnnounced, Free
<1>5. Counted' /\ Loads'
  BY <1>1, <1>2, <1>3 DEF Follows, Counted, Loads, Ahead
<1>6. /\ reader'.pc # "idle" => Fits(updates) /\ reader.pc # "idle"
      /\ Fits(updates) /\ reader.pc # "idle" =>
           /\ reader'.pc = reader.pc /\ reader'.settled = reader.settled
           /\ reader'.since = reader.since \cup {content}
      /\ reader'.pc = "idle" \/ reader'.pc = reader.pc
  BY <1>1, <1>2 DEF Observe, Idle, Readers
<1>7. Observed'
  BY <1>1, <1>2, <1>6 DEF Follows, Observed, Reading, Right
<1>8. \E c : Queue(c, updates)'
  <2>1. PICK b : Queue(b, updates)
    BY DEF Follows
  <2>2. PICK c : Queue(c, WithWorking)
    BY <1>1, <2>1, QueueWorks
  <2>3. OrderedIn(updates)' /\ IsReplay(c, updates)'
    BY <1>1, <2>2 DEF Queue, OrderedIn, IsReplay, Now
  <2>4. Leads(c, updates)'
    BY <1>1, <2>2 DEF Queue, Leads
  <2>5. Answers(c, updates)'
    BY <1>1, <1>6, <2>2 DEF Queue, Answers, Observable, Lacks, Reading
  <2>8. Rests(c, updates)'
    BY <1>1, <1>2, <1>3 DEF Rests, AtRest
  <2>6. Queue(c, updates)'
    BY <1>1, <2>2, <2>3, <2>4, <2>5, <2>8 DEF Queue
  <2>7. QED
    BY <2>6
<1>9. QED
  BY <1>4, <1>5, <1>7, <1>8 DEF Follows

\* One range, or the end of a replacement: the next of the updates of the mutation.
LEMMA PublishFollows ==
  ASSUME TypeOK, TypeOK', Follows, phase # "idle", NEW kind \in {"range", "final"},
         NEW publish \in BOOLEAN,
         Publish(updates, kind, publish, FALSE),
         status' = StatusAfter(updates, status.mutation, FALSE),
         Observe(content', ~Fits(updates)),
         content' = (IF kind = "range" THEN content \cup {Named(updates)} ELSE content),
         phase' # "replacing" => publish,
         phase' # "idle" => Free', step' # "release",
         UNCHANGED <<commands, control, unseen, prepared, publisher, manifest, late>>
  PROVE  Follows'
<1>1. /\ status.mutation # "none" /\ status.mutation \in Mutations
      /\ control = NoCommand /\ NoneAnnounced /\ Free
  BY Recording DEF Follows, TypeOK
<1>2. updates \in Seq(UpdateBlocks) /\ Len(updates) <= Blocks /\ kind \in Kinds
  BY DEF TypeOK, Kinds
<1>3. /\ status'.mutation = status.mutation /\ status'.settled = status.settled
      /\ status.saturated => status'.saturated
      /\ Fits(updates) =>
           /\ Named(updates) = status.next
           /\ Block(kind, status.next, publish) \in UpdateBlocks
           /\ updates' = Append(updates, Block(kind, status.next, publish))
           /\ latest' = status.next /\ status'.next = status.next + 1
           /\ unrepaired' => unrepaired
           /\ unrepaired => unrepaired'
      /\ ~Fits(updates) =>
           /\ updates' = updates /\ latest' = latest /\ status'.next = status.next
           /\ unrepaired' /\ status'.saturated
  BY <1>1, <1>2, PublishFacts
<1>4. /\ Counted' /\ Observed' /\ (Fits(updates) => latest < latest')
      /\ reader.pc = "idle" \/ ~unrepaired
      /\ Fits(updates) => reader' = (IF reader.pc = "idle" THEN Idle
                                    ELSE [reader EXCEPT !.since = @ \cup {content'}])
      /\ ~Fits(updates) => reader' = Idle
  <2>1. Fits(updates) \in BOOLEAN
    BY DEF Fits
  <2>2. Counted /\ Observed
    BY DEF Follows
  <2>3. QED
    BY <1>3, <2>1, <2>2, PublishedCounts
<1>5. Turns'
  BY <1>1, <1>3, BusyTurns DEF NoneAnnounced
<1>6. Loads'
  BY <1>1, NothingLoads DEF NoneAnnounced, TypeOK
<1>7. ~AtRest'
  BY <1>1, <1>3 DEF AtRest
<1>8. \E c : Queue(c, updates)'
  <2>1. PICK b : Queue(b, updates)
    BY DEF Follows
  <2>2. CASE Fits(updates)
    <3> DEFINE block == Block(kind, status.next, publish)
    <3>1. /\ block \in UpdateBlocks /\ block.kind = kind /\ block.rev = status.next
          /\ block.publish = publish /\ kind \notin {"working", "install"}
      BY <1>3, <2>2 DEF Block
    <3> HIDE DEF block
    <3>2. ~unrepaired' => BuiltFrom(b[Len(updates)], block) = content'
      <4>1. SUFFICES ASSUME ~unrepaired'
                     PROVE  BuiltFrom(b[Len(updates)], block) = content'
        OBVIOUS
      <4>2. b[Len(updates)].chunks = content
        BY <1>3, <2>1, <2>2, <4>1 DEF Queue, Leads
      <4>3. CASE kind = "range"
        BY <1>3, <2>2, <3>1, <4>2, <4>3 DEF BuiltFrom
      <4>4. CASE kind = "final"
        BY <1>3, <2>2, <3>1, <4>2, <4>4 DEF BuiltFrom
      <4>5. QED
        BY <4>3, <4>4
    <3>3. manifest.rev <= latest /\ updates' = Append(updates, block)
      BY <1>3, <2>2 DEF Follows, Counted, block
    <3>4. /\ latest < block.rev /\ latest' = block.rev
          /\ unrepaired' => reader.pc = "idle"
          /\ unrepaired' \/ ~unrepaired \/ reader.pc = "idle"
      BY <1>3, <1>4, <2>2, <3>1
    <3>5. phase' # "replacing" => block.publish
      BY <3>1
    <3>6. QED
      BY <1>3, <1>4, <1>7, <2>1, <2>2, <3>1, <3>2, <3>3, <3>4, <3>5, QueueGrows
  <2>3. CASE ~Fits(updates)
    BY <1>3, <1>4, <2>1, <2>3, QueueLoses
  <2>4. QED
    BY <2>2, <2>3
<1>9. QED
  BY <1>4, <1>5, <1>6, <1>8 DEF Follows

LEMMA WriteRangeFollows ==
  ASSUME TypeOK, TypeOK', Follows, WriteRange, phase # "idle"
  PROVE  Follows'
<1>1. /\ Publish(updates, "range", phase # "replacing", FALSE)
      /\ content' = content \cup {Named(updates)}
      /\ status' = StatusAfter(updates, status.mutation, FALSE)
      /\ Observe(content', ~Fits(updates))
      /\ UNCHANGED <<phase, commands, control, unseen, prepared, publisher, manifest, late>>
  BY DEF WriteRange
<1>2. Free' /\ step' # "release"
  BY DEF WriteRange, Free
<1>3. (phase # "replacing") \in BOOLEAN
  OBVIOUS
<1>4. QED
  BY <1>1, <1>2, <1>3, PublishFollows

\* A copy whose recording has settled: what the readers may be given lacks it from now on.
LEMMA LateRangeFollows ==
  ASSUME TypeOK, TypeOK', Follows, WriteRange, phase = "idle", excuses' = {}
  PROVE  Follows'
<1>1. /\ Free /\ Free' /\ status.mutation # "loading"
      /\ Publish(updates, "range", TRUE, FALSE)
      /\ content' = content \cup {Named(updates)}
      /\ status' = StatusAfter(updates, status.mutation, FALSE)
      /\ Observe(content', ~Fits(updates))
      /\ late' = late \cup (IF Fits(updates) THEN {status.next} ELSE {})
      /\ UNCHANGED <<phase, commands, control, unseen, prepared, publisher, manifest>>
  BY DEF WriteRange, Free
<1>2. /\ updates \in Seq(UpdateBlocks) /\ Len(updates) <= Blocks /\ "range" \in Kinds
      /\ status.mutation \in Mutations
  BY DEF TypeOK, Kinds
<1>3. /\ status'.mutation = status.mutation /\ status'.settled = status.settled
      /\ status.saturated => status'.saturated
      /\ Fits(updates) =>
           /\ Named(updates) = status.next
           /\ Block("range", status.next, TRUE) \in UpdateBlocks
           /\ updates' = Append(updates, Block("range", status.next, TRUE))
           /\ latest' = status.next /\ status'.next = status.next + 1
           /\ unrepaired' => unrepaired
           /\ unrepaired => unrepaired'
      /\ ~Fits(updates) =>
           /\ updates' = updates /\ latest' = latest /\ status'.next = status.next
           /\ unrepaired' /\ status'.saturated
  BY <1>1, <1>2, PublishFacts
<1>4. /\ Counted' /\ Observed' /\ (Fits(updates) => latest < latest')
      /\ reader.pc = "idle" \/ ~unrepaired
      /\ Fits(updates) => reader' = (IF reader.pc = "idle" THEN Idle
                                    ELSE [reader EXCEPT !.since = @ \cup {content'}])
      /\ ~Fits(updates) => reader' = Idle
  <2>1. Fits(updates) \in BOOLEAN
    BY DEF Fits
  <2>2. Counted /\ Observed
    BY DEF Follows
  <2>3. QED
    BY <1>1, <1>3, <2>1, <2>2, PublishedCounts
<1>5. Turns'
  BY <1>1, <1>3 DEF Follows, Turns, Calm, Free, NoneAnnounced
<1>6. Loads'
  BY <1>1, <1>3 DEF Follows, Loads, Ahead
<1>7. AtRest' => AtRest
  BY <1>1, <1>3 DEF AtRest, Free
<1>8. \E c : Queue(c, updates)'
  <2>1. PICK b : Queue(b, updates)
    BY DEF Follows
  <2>2. CASE Fits(updates)
    <3> DEFINE block == Block("range", status.next, TRUE)
    <3>1. /\ block \in UpdateBlocks /\ block.kind = "range" /\ block.rev = status.next
          /\ block.publish
      BY <1>3, <2>2 DEF Block
    <3>2. updates' = Append(updates, block)
      BY <1>3, <2>2
    <3> HIDE DEF block
    <3>3. ~unrepaired' => BuiltFrom(b[Len(updates)], block) = content'
      <4>1. SUFFICES ASSUME ~unrepaired'
                     PROVE  BuiltFrom(b[Len(updates)], block) = content'
        OBVIOUS
      <4>2. b[Len(updates)].chunks = content
        BY <1>3, <2>1, <2>2, <4>1 DEF Queue, Leads
      <4>3. QED
        BY <1>1, <1>3, <2>2, <3>1, <4>2 DEF BuiltFrom
    <3>4. /\ manifest.rev <= latest /\ latest < block.rev /\ latest' = block.rev
          /\ unrepaired' => reader.pc = "idle"
          /\ unrepaired' \/ ~unrepaired \/ reader.pc = "idle"
      BY <1>3, <1>4, <2>2, <3>1 DEF Follows, Counted
    <3>5. /\ late \subseteq late' /\ block.rev \in late'
          /\ content' = content \cup {block.rev} /\ (unrepaired => unrepaired')
      BY <1>1, <1>3, <2>2, <3>1
    <3>6. UNCHANGED <<publisher, manifest, prepared, unseen>>
      BY <1>1
    <3>7. reader' = (IF reader.pc = "idle" THEN Idle
                     ELSE [reader EXCEPT !.since = @ \cup {content'}])
      BY <1>4, <2>2
    <3>8. QED
      BY <1>3, <1>7, <2>1, <2>2, <3>1, <3>2, <3>3, <3>4, <3>5, <3>6, <3>7, QueueGrows
  <2>3. CASE ~Fits(updates)
    BY <1>1, <1>3, <1>4, <2>1, <2>3, QueueLoses
  <2>4. QED
    BY <2>2, <2>3
<1>9. QED
  BY <1>4, <1>5, <1>6, <1>8 DEF Follows

\* The next copy waits.
LEMMA GoOnFollows ==
  ASSUME Follows, GoOn
  PROVE  Follows'
<1>1. UNCHANGED <<content, phase, step, latest, commands, control, status, updates, unseen,
                  prepared, publisher, manifest, reader, late, unrepaired>>
  BY DEF GoOn
<1>2. Turns' /\ Counted' /\ Loads' /\ Observed'
  BY <1>1 DEF Follows, Turns, Calm, Free, NoneAnnounced, Counted, Loads, Ahead, Observed,
              Reading, Right
<1>3. \E b : Queue(b, updates)'
  BY <1>1, QuietFollows DEF AtRest
<1>4. QED
  BY <1>2, <1>3 DEF Follows

LEMMA StopFollows ==
  ASSUME TypeOK, TypeOK', Follows, Stop
  PROVE  Follows'
<1>1. /\ step = "free" /\ phase # "idle" /\ phase' = "idle" /\ step' = "settle"
      /\ UNCHANGED <<content, commands, control, unseen, prepared, publisher, manifest,
                     late, excuses>>
  BY DEF Stop
<1>2. CASE phase = "replacing"
  <2>1. /\ Publish(updates, "final", TRUE, FALSE)
        /\ status' = StatusAfter(updates, status.mutation, FALSE)
        /\ Observe(content', ~Fits(updates))
    BY <1>1, <1>2 DEF Stop, Observe
  <2>2. QED
    BY <1>1, <2>1, PublishFollows
<1>3. CASE phase # "replacing"
  <2>1. UNCHANGED <<updates, latest, unrepaired, status, reader>>
    BY <1>3 DEF Stop
  <2>2. /\ status.mutation # "none" /\ control = NoCommand /\ NoneAnnounced
    BY <1>1, Recording DEF Follows
  <2>3. Turns'
    BY <1>1, <2>1, <2>2, BusyTurns DEF NoneAnnounced
  <2>4. Counted' /\ Loads' /\ Observed'
    BY <1>1, <2>1, <2>2 DEF Follows, Counted, Loads, Ahead, Observed, Reading, Right
  <2>5. \E c : Queue(c, updates)'
    <3>1. PICK b : Queue(b, updates)
      BY DEF Follows
    <3>2. OrderedIn(updates)' /\ IsReplay(b, updates)' /\ Answers(b, updates)'
      BY <1>1, <2>1, <3>1 DEF Queue, OrderedIn, IsReplay, Now, Answers, Observable, Lacks,
                                  Reading
    <3>3. Leads(b, updates)'
      BY <1>1, <1>3, <2>1, <3>1 DEF Queue, Leads
    <3>6. Rests(b, updates)'
      BY <1>1, <2>1, <2>2 DEF Rests, AtRest
    <3>4. Queue(b, updates)'
      BY <2>1, <3>1, <3>2, <3>3, <3>6 DEF Queue
    <3>5. QED
      BY <3>4
  <2>6. QED
    BY <2>3, <2>4, <2>5 DEF Follows
<1>4. QED
  BY <1>2, <1>3

LEMMA FinishMutationFollows ==
  ASSUME TypeOK, Follows, FinishMutation
  PROVE  Follows'
<1>1. CASE Settle
  <2>1. /\ step = "settle" /\ step' = "release"
        /\ status' = [status EXCEPT !.settled = latest]
        /\ UNCHANGED <<content, phase, latest, commands, control, updates, unseen, prepared,
                       publisher, manifest, reader, late, unrepaired, excuses>>
    BY <1>1 DEF Settle
  <2>2. /\ status'.settled = latest /\ status'.mutation = status.mutation
        /\ status'.next = status.next /\ status'.saturated = status.saturated
        /\ latest \in Nat /\ status.settled \in Nat /\ reader.settled \in Nat
    BY <2>1, Numbers DEF TypeOK
  <2>3. status.settled <= latest /\ phase = "idle"
    BY <2>1 DEF Follows, Counted, Turns, Free
  <2>4. Turns'
    BY <2>1, <2>2, <2>3 DEF Follows, Turns, Calm, Free, NoneAnnounced
  <2>5. Counted' /\ Loads'
    BY <2>1, <2>2 DEF Follows, Counted, Loads, Ahead
  <2>6. Observed'
    <3>1. Reading => reader.settled <= latest
      BY <2>2, <2>3 DEF Follows, Observed
    <3>2. QED
      BY <2>1, <2>2, <3>1 DEF Follows, Observed, Reading, Right
  <2>7. \E b : Queue(b, updates)'
    <3>1. PICK b : Queue(b, updates)
      BY DEF Follows
    <3>2. OrderedIn(updates)' /\ IsReplay(b, updates)'
      BY <2>1, <3>1 DEF Queue, OrderedIn, IsReplay, Now
    <3>3. Leads(b, updates)' /\ Answers(b, updates)'
      BY <2>1, <3>1 DEF Queue, Leads, Answers, Observable, Lacks, Reading
    <3>4. Rests(b, updates)'
      <4>1. SUFFICES ASSUME ~unrepaired
                     PROVE  /\ manifest.rev >= latest =>
                                 Lacks(manifest.content, manifest.rev, content)
                            /\ \A i \in 1..Len(updates) :
                                 updates[i].publish /\ updates[i].rev >= latest =>
                                   Lacks(b[i].committed, updates[i].rev, content)
        BY <2>1, <2>2 DEF Rests, Lacks
      <4>2. /\ manifest.rev = latest => manifest.content = content
            /\ \A i \in 1..Len(updates) :
                 updates[i].publish /\ updates[i].rev = latest => b[i].committed = content
        BY <3>1, <4>1 DEF Queue, Leads
      <4>3. manifest.rev >= latest => manifest.rev = latest
        BY <2>2, Numbers DEF Follows, Counted
      <4>4. \A i \in 1..Len(updates) : updates[i].rev >= latest => updates[i].rev = latest
        <5>1. TAKE i \in 1..Len(updates)
        <5>2. updates[i] \in UpdateBlocks
          BY ElementOfSeq DEF TypeOK
        <5>3. updates[i].rev \in 0..MaxRevisions
          BY <5>2 DEF UpdateBlocks
        <5>4. updates[i].rev <= latest
          BY <3>1 DEF Queue, OrderedIn
        <5>5. QED
          BY <2>2, <5>3, <5>4, BoundsAssumption
      <4>5. QED
        BY <4>2, <4>3, <4>4 DEF Lacks
    <3>5. Queue(b, updates)'
      BY <2>1, <3>1, <3>2, <3>3, <3>4 DEF Queue
    <3>6. QED
      BY <3>5
  <2>8. QED
    BY <2>4, <2>5, <2>6, <2>7 DEF Follows
<1>2. CASE Release
  <2>1. /\ step = "release" /\ step' = "free"
        /\ status' = [status EXCEPT !.mutation = "none"]
        /\ UNCHANGED <<content, phase, latest, commands, control, updates, unseen, prepared,
                       publisher, manifest, reader, late, unrepaired, excuses>>
    BY <1>2 DEF Release
  <2>2. /\ status'.settled = status.settled /\ status'.mutation = "none"
        /\ status'.next = status.next /\ status'.saturated = status.saturated
    BY <2>1 DEF TypeOK
  <2>3. phase = "idle" /\ control = NoCommand /\ NoneAnnounced
    BY <2>1 DEF Follows, Turns, Calm, Free, NoneAnnounced
  <2>4. Turns'
    BY <2>1, <2>2, <2>3 DEF Turns, Calm, Free, NoneAnnounced
  <2>5. Counted' /\ Loads' /\ Observed'
    <3>1. NoneAnnounced' /\ control' = NoCommand /\ commands' \in Seq(AllCommands)
      BY <2>1, <2>3 DEF NoneAnnounced, TypeOK
    <3>2. Loads'
      BY <3>1, NothingLoads
    <3>3. QED
      BY <2>1, <2>2, <3>2 DEF Follows, Counted, Observed, Reading, Right
  <2>6. \E b : Queue(b, updates)'
    BY <2>1, <2>2, QuietFollows DEF AtRest
  <2>7. QED
    BY <2>4, <2>5, <2>6 DEF Follows
<1>3. QED
  BY <1>1, <1>2 DEF FinishMutation

-----------------------------------------------------------------------------
(* The publisher thread. *)

\* The block the publisher takes is never an install it cannot serve.
LEMMA TakeUpdateFollows ==
  ASSUME TypeOK, TypeOK', Follows, TakeUpdate
  PROVE  Follows'
<1> DEFINE n == Len(updates)
           block == Head(updates)
           built == BuiltFrom(Now, block)
<1>1. /\ updates # <<>> /\ updates' = Tail(updates)
      /\ UNCHANGED <<content, phase, step, queued, latest, commands, control, status, reader,
                     late, unrepaired, excuses>>
  BY DEF TakeUpdate
<1>2. PICK b : Queue(b, updates)
  BY DEF Follows
<1>3. /\ block \in UpdateBlocks /\ block = updates[1] /\ n \in Nat /\ 1 \in 1..n
      /\ updates' \in Seq(UpdateBlocks) /\ Len(updates') = n - 1
      /\ \A i \in 1..(n - 1) : updates'[i] = updates[i + 1]
  <2>1. updates \in Seq(UpdateBlocks)
    BY DEF TypeOK
  <2>2. /\ Head(updates) \in UpdateBlocks /\ Head(updates) = updates[1]
        /\ Tail(updates) \in Seq(UpdateBlocks)
        /\ Len(Tail(updates)) = n - 1 /\ n \in Nat /\ n > 0
        /\ \A i \in 1..Len(Tail(updates)) : Tail(updates)[i] = updates[i + 1]
    BY <1>1, <2>1, Popped
  <2>3. QED
    BY <1>1, <2>2
<1>4. /\ block.rev <= latest
      /\ block.kind = "install" => block.rev \in prepared \cup unseen
  BY <1>2, <1>3 DEF Queue, OrderedIn
<1>5. block.kind = "install" => block.rev \in KnownLoads(block)
  BY <1>4 DEF KnownLoads
<1>6. Built(block) = built
  BY DEF Built, BuiltFrom, Now
<1>7. /\ publisher'.chunks = built
      /\ publisher'.committed = (IF block.publish THEN built ELSE publisher.committed)
      /\ manifest' = (IF block.publish THEN [rev |-> block.rev, content |-> built] ELSE manifest)
      /\ prepared' = KnownLoads(block) \ {block.rev}
      /\ unseen' = (IF block.kind = "install" THEN unseen \ KnownLoads(block) ELSE unseen)
  BY <1>5, <1>6 DEF TakeUpdate
<1>8. \A rev \in prepared \cup unseen : rev # block.rev => rev \in prepared' \cup unseen'
  BY <1>7 DEF KnownLoads
<1> HIDE DEF n, block
<1>9. n - 1 \in Nat /\ \A i \in 0..(n - 1) : i + 1 \in 1..n /\ i + 1 \in 0..n
  BY <1>3
<1>10. /\ b \in [0..n -> Builds] /\ b[0] = Now
       /\ \A i \in 1..n : b[i] = After(b[i - 1], updates[i])
  BY <1>2 DEF Queue, IsReplay, n
<1>11. b[1] = Now' /\ b[1].committed = (IF block.publish THEN built ELSE publisher.committed)
  <2>1. b[1] = After(b[0], updates[1])
    BY <1>3, <1>10
  <2>2. b[1] = After(Now, block)
    BY <1>3, <1>10, <2>1
  <2>3. QED
    BY <1>7, <2>2 DEF After, Now
<1>12. PICK c : c \in [0..(n - 1) -> Builds] /\ \A i \in 0..(n - 1) : c[i] = b[i + 1]
  <2> DEFINE d == [i \in 0..(n - 1) |-> b[i + 1]]
  <2>1. d \in [0..(n - 1) -> Builds] /\ \A i \in 0..(n - 1) : d[i] = b[i + 1]
    BY <1>9, <1>10
  <2> HIDE DEF d
  <2>2. QED
    BY <2>1
<1>13. IsReplay(c, updates)'
  <2>1. c[0] = Now'
    BY <1>9, <1>11, <1>12
  <2>2. ASSUME NEW i \in 1..(n - 1)
        PROVE  c[i] = After(c[i - 1], updates'[i])
    <3>1. /\ i \in 0..(n - 1) /\ i - 1 \in 0..(n - 1) /\ i + 1 \in 1..n
          /\ (i - 1) + 1 = i /\ (i + 1) - 1 = i
      BY <1>9
    <3>2. c[i] = b[i + 1] /\ c[i - 1] = b[i]
      <4>1. c[i - 1] = b[(i - 1) + 1]
        BY <1>12, <3>1
      <4>2. QED
        BY <1>12, <3>1, <4>1
    <3>3. b[i + 1] = After(b[i], updates[i + 1])
      <4>1. b[i + 1] = After(b[(i + 1) - 1], updates[i + 1])
        BY <1>10, <3>1
      <4>2. QED
        BY <3>1, <4>1
    <3>4. QED
      BY <1>3, <3>2, <3>3
  <2>3. QED
    BY <1>3, <1>12, <2>1, <2>2 DEF IsReplay
<1>14. latest \in Nat /\ block.rev \in Nat
  <2>1. block.rev \in 0..MaxRevisions /\ latest \in 0..MaxRevisions
    BY <1>3 DEF UpdateBlocks, TypeOK
  <2>2. \A x \in 0..MaxRevisions : x \in Nat
    BY BoundsAssumption
  <2>3. QED
    BY <2>1, <2>2
<1>15. \A i \in 1..(n - 1) : i \in 0..(n - 1) /\ i + 1 \in 1..n /\ 1 < i + 1
  BY <1>9
<1>16. \A i \in 1..n : updates[i].rev \in Nat
  <2>1. \A i \in 1..n : updates[i] \in UpdateBlocks
    BY ElementOfSeq DEF TypeOK, n
  <2>2. \A x \in 0..MaxRevisions : x \in Nat
    BY BoundsAssumption
  <2>3. \A i \in 1..n : updates[i].rev \in 0..MaxRevisions
    BY <2>1 DEF UpdateBlocks
  <2>4. QED
    BY <2>2, <2>3
<1>17. OrderedIn(updates)'
  <2>1. \A i \in 1..n :
          /\ updates[i].rev <= latest
          /\ updates[i].kind = "working" => updates[i] = NoBlock
          /\ updates[i].kind = "install" => updates[i].rev \in prepared \cup unseen
          /\ \A j \in 1..n : i < j /\ updates[j].kind # "working" => updates[i].rev < updates[j].rev
    BY <1>2 DEF Queue, OrderedIn, n
  <2>2. SUFFICES ASSUME NEW i \in 1..(n - 1)
                 PROVE  /\ updates'[i].rev <= latest
                        /\ updates'[i].kind = "working" => updates'[i] = NoBlock
                        /\ updates'[i].kind = "install" => updates'[i].rev \in prepared' \cup unseen'
                        /\ \A j \in 1..(n - 1) : i < j /\ updates'[j].kind # "working" =>
                                                  updates'[i].rev < updates'[j].rev
    BY <1>1, <1>3 DEF OrderedIn
  <2>3. updates'[i] = updates[i + 1] /\ i + 1 \in 1..n
    BY <1>3, <1>15
  <2>4. updates'[i].rev <= latest /\ (updates'[i].kind = "working" => updates'[i] = NoBlock)
    BY <2>1, <2>3
  <2>5. ASSUME updates'[i].kind = "install"
        PROVE  updates'[i].rev \in prepared' \cup unseen'
    <3>1. updates[i + 1].rev \in prepared \cup unseen
      BY <2>1, <2>3, <2>5
    <3>2. block.rev < updates[i + 1].rev
      BY <1>3, <1>15, <2>1, <2>3, <2>5
    <3>3. updates[i + 1].rev # block.rev
      BY <1>14, <1>16, <2>3, <3>2
    <3>4. QED
      BY <1>8, <2>3, <3>1, <3>3
  <2>6. ASSUME NEW j \in 1..(n - 1), i < j, updates'[j].kind # "working"
        PROVE  updates'[i].rev < updates'[j].rev
    <3>1. updates'[j] = updates[j + 1] /\ j + 1 \in 1..n /\ i + 1 < j + 1
      BY <1>3, <1>9, <1>15, <2>6
    <3>2. QED
      BY <2>1, <2>3, <2>6, <3>1
  <2>7. QED
    BY <2>4, <2>5, <2>6
<1>18. c[n - 1] = b[n]
  <2>1. n - 1 \in 0..(n - 1) /\ (n - 1) + 1 = n
    BY <1>3, <1>9
  <2>2. QED
    BY <1>12, <2>1
<1>19. \A i \in 1..(n - 1) : c[i] = b[i + 1] /\ updates'[i] = updates[i + 1] /\ i + 1 \in 1..n
  BY <1>3, <1>12, <1>15
<1>20. block.publish => manifest'.rev = block.rev /\ manifest'.content = b[1].committed
  BY <1>7, <1>11
<1>21. ~block.publish => manifest' = manifest
  BY <1>7
<1>22. Leads(c, updates)'
  <2>1. SUFFICES ASSUME ~unrepaired
                 PROVE  /\ c[n - 1].chunks = content
                        /\ phase # "replacing" => c[n - 1].committed = content
                        /\ manifest'.rev = latest => manifest'.content = content
                        /\ \A i \in 1..(n - 1) :
                             updates'[i].publish /\ updates'[i].rev = latest =>
                               c[i].committed = content
    BY <1>1, <1>3 DEF Leads
  <2>2. /\ b[n].chunks = content
        /\ phase # "replacing" => b[n].committed = content
        /\ manifest.rev = latest => manifest.content = content
        /\ \A i \in 1..n : updates[i].publish /\ updates[i].rev = latest =>
                            b[i].committed = content
    BY <1>2, <2>1 DEF Queue, Leads, n
  <2>3. manifest'.rev = latest => manifest'.content = content
    BY <1>3, <1>20, <1>21, <2>2
  <2>4. QED
    BY <1>18, <1>19, <2>2, <2>3
<1>23. Answers(c, updates)' /\ Rests(c, updates)'
  <2>1. /\ \A held, rev : Observable(held, rev) <=>
             \E all \in reader'.since :
               held \subseteq all /\ all \ held \subseteq {r \in late' : r > rev}
        /\ \A held, rev : Lacks(held, rev, content) <=>
             held \subseteq content' /\ content' \ held \subseteq {r \in late' : r > rev}
    BY <1>1 DEF Observable, Lacks
  <2>2. Answers(c, updates)'
    <3>1. SUFFICES ASSUME Reading
                   PROVE  /\ manifest'.rev >= reader.settled =>
                               Observable(manifest'.content, manifest'.rev)
                          /\ \A i \in 1..(n - 1) :
                               updates'[i].publish /\ updates'[i].rev >= reader.settled =>
                                 Observable(c[i].committed, updates'[i].rev)
      BY <1>1, <1>3 DEF Answers, Reading, Observable, Lacks
    <3>2. /\ manifest.rev >= reader.settled => Observable(manifest.content, manifest.rev)
          /\ \A i \in 1..n : updates[i].publish /\ updates[i].rev >= reader.settled =>
                              Observable(b[i].committed, updates[i].rev)
      BY <1>2, <3>1 DEF Queue, Answers, n
    <3>3. manifest'.rev >= reader.settled => Observable(manifest'.content, manifest'.rev)
      BY <1>3, <1>20, <1>21, <3>2
    <3>4. QED
      BY <1>19, <3>2, <3>3
  <2>3. Rests(c, updates)'
    <3>1. SUFFICES ASSUME ~unrepaired, AtRest
                   PROVE  /\ manifest'.rev >= status.settled =>
                               Lacks(manifest'.content, manifest'.rev, content)
                          /\ \A i \in 1..(n - 1) :
                               updates'[i].publish /\ updates'[i].rev >= status.settled =>
                                 Lacks(c[i].committed, updates'[i].rev, content)
      BY <1>1, <1>3 DEF Rests, AtRest, Lacks
    <3>2. /\ manifest.rev >= status.settled => Lacks(manifest.content, manifest.rev, content)
          /\ \A i \in 1..n : updates[i].publish /\ updates[i].rev >= status.settled =>
                              Lacks(b[i].committed, updates[i].rev, content)
      BY <1>2, <3>1 DEF Queue, Rests, n
    <3>3. manifest'.rev >= status.settled => Lacks(manifest'.content, manifest'.rev, content)
      BY <1>3, <1>20, <1>21, <3>2
    <3>4. QED
      BY <1>19, <3>2, <3>3
  <2>4. QED
    BY <2>2, <2>3
<1>24. Queue(c, updates)'
  <2>1. Len(updates') <= Blocks
    BY DEF TypeOK
  <2>2. QED
    BY <1>3, <1>13, <1>17, <1>22, <1>23, <2>1 DEF Queue
<1>25. Turns' /\ Observed'
  BY <1>1 DEF Follows, Turns, Calm, Free, NoneAnnounced, Observed, Reading, Right
<1>26. Counted'
  <2>1. manifest'.rev <= latest
    BY <1>4, <1>20, <1>21 DEF Follows, Counted, block
  <2>2. QED
    BY <1>1, <2>1 DEF Follows, Counted
<1>27. Loads'
  <2>1. ASSUME NEW command, Ahead(command), command.kind = "load" => command.rev \in Nat
        PROVE  /\ command.kind = "load" =>
                    latest' < command.rev /\ command.rev < status'.next
                    /\ command.rev \in prepared' \cup unseen'
    <3>1. SUFFICES ASSUME command.kind = "load"
                   PROVE  latest' < command.rev /\ command.rev < status'.next
                          /\ command.rev \in prepared' \cup unseen'
      OBVIOUS
    <3>2. latest < command.rev /\ command.rev < status.next /\ command.rev \in prepared \cup unseen
      BY <2>1, <3>1 DEF Ahead
    <3>3. command.rev # block.rev
      BY <1>4, <1>14, <2>1, <3>1, <3>2 DEF block
    <3>4. QED
      BY <1>1, <1>8, <3>2, <3>3
  <2>2. ASSUME NEW command \in AllCommands
        PROVE  command.kind = "load" => command.rev \in Nat
    BY CommandKinds, Bounds
  <2>3. Ahead(control)'
    <3>1. CASE control = NoCommand
      BY <1>1, <3>1 DEF Ahead, NoCommand
    <3>2. CASE control \in AllCommands
      BY <1>1, <2>1, <2>2, <3>2 DEF Follows, Loads, Ahead
    <3>3. QED
      BY <3>1, <3>2 DEF TypeOK
  <2>4. \A i \in 1..Len(commands) : Ahead(commands[i])'
    <3>1. TAKE i \in 1..Len(commands)
    <3>2. commands[i] \in AllCommands
      BY ElementOfSeq DEF TypeOK
    <3>3. QED
      BY <1>1, <2>1, <2>2, <3>2 DEF Follows, Loads, Ahead
  <2>5. QED
    BY <1>1, <2>3, <2>4 DEF Loads
<1>28. QED
  BY <1>24, <1>25, <1>26, <1>27 DEF Follows

LEMMA NextPumpFollows ==
  ASSUME Follows, NextPump
  PROVE  Follows'
<1>1. /\ prepared' = prepared \cup unseen /\ unseen' = {}
      /\ UNCHANGED <<content, phase, step, queued, latest, commands, control, status, updates,
                     publisher, manifest, reader, late, unrepaired, excuses>>
  BY DEF NextPump
<1>2. prepared' \cup unseen' = prepared \cup unseen /\ Now' = Now
  BY <1>1 DEF Now
<1>3. Turns' /\ Counted' /\ Observed'
  BY <1>1 DEF Follows, Turns, Calm, Free, NoneAnnounced, Counted, Observed, Reading, Right
<1>4. Loads'
  BY <1>1, <1>2 DEF Follows, Loads, Ahead
<1>5. \E b : Queue(b, updates)'
  <2>1. PICK b : Queue(b, updates)
    BY DEF Follows
  <2>2. QED
    BY <1>1, <1>2, <2>1, QueueStays DEF AtRest
<1>6. QED
  BY <1>3, <1>4, <1>5 DEF Follows

LEMMA MarkPublishedFollows ==
  ASSUME TypeOK, Follows, MarkPublished, excuses' = {}
  PROVE  Follows'
<1>1. /\ publisher' = [publisher EXCEPT !.pc = "pumping", !.block = NoBlock]
      /\ UNCHANGED <<content, phase, step, queued, latest, commands, control, updates, unseen,
                     prepared, manifest, reader, late, unrepaired>>
  BY DEF MarkPublished
<1>2. /\ status'.mutation = status.mutation /\ status'.next = status.next
      /\ status'.settled = status.settled
      /\ status.saturated => status'.saturated \/ ~unrepaired
  BY DEF MarkPublished, TypeOK
<1>3. Now' = Now
  BY <1>1 DEF Now, TypeOK
<1>4. Turns' /\ Counted' /\ Observed' /\ Loads'
  BY <1>1, <1>2 DEF Follows, Turns, Calm, Free, NoneAnnounced, Counted, Observed, Reading,
                    Right, Loads, Ahead
<1>5. \E b : Queue(b, updates)'
  <2>1. PICK b : Queue(b, updates)
    BY DEF Follows
  <2>2. QED
    BY <1>1, <1>2, <1>3, <2>1, QueueStays DEF AtRest
<1>6. QED
  BY <1>4, <1>5 DEF Follows

-----------------------------------------------------------------------------
(* The reader. *)

\* A reader's step changes the reader only.
LEMMA ReaderChanges ==
  ASSUME Follows, UNCHANGED Everything, Observed',
         \A b : Queue(b, updates) => Answers(b, updates)'
  PROVE  Follows'
<1>1. Turns' /\ Counted' /\ Loads'
  BY DEF Everything, Follows, Turns, Calm, Free, NoneAnnounced, Counted, Loads, Ahead
<1>2. PICK b : Queue(b, updates)
  BY DEF Follows
<1>3. /\ OrderedIn(updates)' /\ IsReplay(b, updates)'
      /\ Leads(b, updates)' /\ Rests(b, updates)'
  BY <1>2 DEF Everything, Queue, OrderedIn, IsReplay, Now, Leads, Rests, AtRest, Lacks
<1>4. Queue(b, updates)'
  BY <1>2, <1>3 DEF Everything, Queue
<1>5. QED
  BY <1>1, <1>4 DEF Follows

LEMMA ReaderStepFollows ==
  ASSUME TypeOK, Follows, ReaderStep
  PROVE  Follows'
<1>1. /\ reader \in Readers
      /\ UNCHANGED Everything
      /\ UNCHANGED <<content, phase, latest, updates, manifest, status, unrepaired>>
  BY DEF TypeOK, Readers, ReaderStep, LoadSaturated, LoadMutation, LoadPublished, LoadManifest,
         Reads, Everything
<1>2. CASE reader' = Idle
  <2>1. Observed'
    BY <1>1, <1>2 DEF Follows, Observed, Idle, Reading, Right
  <2>2. \A b : Answers(b, updates)'
    BY <1>2 DEF Answers, Idle, Reading
  <2>3. QED
    BY <1>1, <2>1, <2>2, ReaderChanges
<1>3. CASE LoadSaturated /\ reader' # Idle
  <2>1. ~status.saturated /\ reader' = [pc |-> "mutation", settled |-> 0, since |-> {content}]
    BY <1>3 DEF LoadSaturated, Reads
  <2>2. Observed'
    BY <1>1, <2>1 DEF Follows, Observed, Reading, Right
  <2>3. \A b : Answers(b, updates)'
    BY <2>1 DEF Answers, Reading
  <2>4. QED
    BY <1>1, <2>2, <2>3, ReaderChanges
<1>4. CASE LoadMutation /\ reader' # Idle
  <2>1. /\ status.mutation = "none" /\ reader.pc = "mutation"
        /\ reader' = [reader EXCEPT !.pc = "published", !.settled = status.settled]
    BY <1>4 DEF LoadMutation, Reads
  <2>2. /\ reader'.pc = "published" /\ reader'.settled = status.settled
        /\ reader'.since = reader.since
    BY <1>1, <2>1 DEF Readers
  <2>3. ~unrepaired /\ content \in reader.since /\ AtRest /\ status.settled \in Nat
    BY <2>1, Numbers DEF Follows, Observed, AtRest
  <2>4. Observed'
    <3>1. status.settled <= status.settled
      BY <2>3
    <3>2. QED
      BY <1>1, <2>2, <2>3, <3>1 DEF Follows, Observed, Reading, Right
  <2>5. ASSUME NEW b, Queue(b, updates)
        PROVE  Answers(b, updates)'
    <3>1. /\ manifest.rev >= status.settled => Lacks(manifest.content, manifest.rev, content)
          /\ \A i \in 1..Len(updates) :
               updates[i].publish /\ updates[i].rev >= status.settled =>
                 Lacks(b[i].committed, updates[i].rev, content)
      BY <2>3, <2>5 DEF Queue, Rests
    <3>2. \A held, rev : Lacks(held, rev, content) => Observable(held, rev)
      BY <2>3 DEF Observable
    <3>3. /\ manifest.rev >= status.settled => Observable(manifest.content, manifest.rev)
          /\ \A i \in 1..Len(updates) :
               updates[i].publish /\ updates[i].rev >= status.settled =>
                 Observable(b[i].committed, updates[i].rev)
      BY <3>1, <3>2
    <3>4. late' = late
      BY <1>1 DEF Everything
    <3>5. QED
      BY <1>1, <2>2, <3>3, <3>4 DEF Answers, Observable, Lacks
  <2>6. QED
    BY <1>1, <2>4, <2>5, ReaderChanges
<1>5. CASE LoadPublished /\ reader' # Idle
  <2>1. /\ reader.pc = "published"
        /\ reader' = [reader EXCEPT !.pc = "manifest", !.settled = status.settled]
    BY <1>5 DEF LoadPublished, Reads
  <2>2. /\ reader'.pc = "manifest" /\ reader'.settled = status.settled
        /\ reader'.since = reader.since
    BY <1>1, <2>1 DEF Readers
  <2>3. /\ Reading /\ reader.settled <= status.settled
        /\ reader.settled \in Nat /\ status.settled \in Nat /\ manifest.rev \in Nat
    BY <2>1, Numbers DEF Follows, Observed, Reading
  <2>4. Observed'
    <3>1. status.settled <= status.settled
      BY <2>3
    <3>2. QED
      BY <1>1, <2>1, <2>2, <3>1 DEF Follows, Observed, Reading, Right
  <2>5. ASSUME NEW b, Queue(b, updates)
        PROVE  Answers(b, updates)'
    <3>1. /\ manifest.rev >= reader.settled => Observable(manifest.content, manifest.rev)
          /\ \A i \in 1..Len(updates) : updates[i].publish /\ updates[i].rev >= reader.settled =>
                                          Observable(b[i].committed, updates[i].rev)
      BY <2>3, <2>5 DEF Queue, Answers
    <3>2. manifest.rev >= status.settled => manifest.rev >= reader.settled
      BY <2>3
    <3>3. ASSUME NEW i \in 1..Len(updates), updates[i].rev >= status.settled
          PROVE  updates[i].rev >= reader.settled
      <4>1. updates[i] \in UpdateBlocks
        BY ElementOfSeq DEF TypeOK
      <4>2. updates[i].rev \in 0..MaxRevisions
        BY <4>1 DEF UpdateBlocks
      <4>3. QED
        BY <2>3, <3>3, <4>2, BoundsAssumption
    <3>4. late' = late
      BY <1>1 DEF Everything
    <3>5. QED
      BY <1>1, <2>2, <3>1, <3>2, <3>3, <3>4 DEF Answers, Observable, Lacks
  <2>6. QED
    BY <1>1, <2>4, <2>5, ReaderChanges
<1>6. CASE LoadManifest /\ reader' # Idle
  <2>1. /\ reader.pc = "manifest" /\ manifest.rev >= reader.settled
        /\ reader' = [reader EXCEPT !.pc = IF \E held \in reader.since : Behind(held)
                                           THEN "late answer" ELSE "wrong answer"]
    BY <1>6 DEF LoadManifest, Reads
  <2>2. PICK b : Queue(b, updates)
    BY DEF Follows
  <2>3. \E held \in reader.since : Behind(held)
    BY <2>1, <2>2 DEF Queue, Answers, Reading, Observable, Lacks, Behind
  <2>4. /\ reader'.pc = "late answer" /\ reader'.settled = reader.settled
        /\ reader'.since = reader.since
    BY <1>1, <2>1, <2>3 DEF Readers
  <2>5. Observed'
    BY <1>1, <2>1, <2>4 DEF Follows, Observed, Reading, Right
  <2>6. \A c : Answers(c, updates)'
    BY <2>4 DEF Answers, Reading
  <2>7. QED
    BY <1>1, <2>5, <2>6, ReaderChanges
<1>7. QED
  BY <1>2, <1>3, <1>4, <1>5, <1>6 DEF ReaderStep

-----------------------------------------------------------------------------
(* The invariant. *)

LEMMA InitInv == Init => IInv
<1> SUFFICES ASSUME Init
             PROVE  IInv
  OBVIOUS
<1>1. /\ content = {} /\ phase = "idle" /\ step = "free" /\ queued = 0 /\ latest = 0
      /\ commands = <<>> /\ control = NoCommand
      /\ status = [mutation |-> "none", next |-> 1, settled |-> 0, published |-> 0,
                   saturated |-> FALSE]
      /\ updates = <<>> /\ unseen = {} /\ prepared = {}
      /\ publisher = [pc |-> "pumping", chunks |-> {}, committed |-> {}, block |-> NoBlock]
      /\ manifest = [rev |-> 0, content |-> {}]
      /\ reader = Idle
      /\ late = {} /\ unrepaired = FALSE /\ excuses = {}
  BY DEF Init
<1>2. TypeOK
  <2>1. /\ {} \in Contents /\ latest \in 0..MaxRevisions
    BY <1>1, Bounds DEF Contents
  <2>2. commands \in Seq(AllCommands) /\ Len(commands) = 0 /\ updates \in Seq(UpdateBlocks)
        /\ Len(updates) = 0
    BY <1>1, EmptySeq
  <2>3. status \in StatusTypes
    BY <1>1, Bounds DEF StatusTypes, Mutations
  <2>4. NoBlock \in UpdateBlocks
    BY Bounds DEF NoBlock, UpdateBlocks, Kinds
  <2>5. publisher \in [pc : {"pumping", "mark"}, chunks : Contents, committed : Contents,
                        block : UpdateBlocks]
    BY <1>1, <2>1, <2>4
  <2>6. manifest \in [rev : 0..MaxRevisions, content : Contents]
    BY <1>1, <2>1, Bounds
  <2>7. reader \in Readers
    BY <1>1, Bounds DEF Readers, Idle
  <2>8. 0 <= MaxCommands /\ 0 <= Blocks /\ 0 \in 0..MaxCopies
    BY BoundsAssumption, BlocksAssumption
  <2>9. QED
    BY <1>1, <2>1, <2>2, <2>3, <2>5, <2>6, <2>7, <2>8 DEF TypeOK, StatusTypes, Readers
<1>3. Len(commands) = 0 /\ Len(updates) = 0
  BY <1>1, EmptySeq
<1>4. \A i \in 1..0 : FALSE
  OBVIOUS
<1>5. Turns /\ Loads
  BY <1>1, <1>3, <1>4 DEF Turns, Calm, Free, NoneAnnounced, Loads, Ahead, NoCommand
<1>6. Counted /\ Observed
  BY <1>1 DEF Counted, Observed, Idle, Reading, Right
<1>7. \E b : Queue(b, updates)
  <2> DEFINE b == [i \in 0..0 |-> Now]
  <2>1. 0 \in 0..0 /\ b[0] = Now
    OBVIOUS
  <2>2. Now \in Builds /\ Now.chunks = {} /\ Now.committed = {}
    BY <1>1 DEF Now, Builds, Contents
  <2>3. b \in [0..0 -> Builds]
    BY <2>2
  <2> HIDE DEF b
  <2>4. IsReplay(b, updates)
    BY <1>3, <1>4, <2>1, <2>3 DEF IsReplay
  <2>5. OrderedIn(updates)
    BY <1>3, <1>4 DEF OrderedIn
  <2>6. Leads(b, updates) /\ Rests(b, updates) /\ Answers(b, updates)
    BY <1>1, <1>3, <1>4, <2>1, <2>2 DEF Leads, Rests, Lacks, Answers, Reading, Idle
  <2>7. Queue(b, updates)
    BY <1>2, <2>4, <2>5, <2>6 DEF Queue, TypeOK
  <2>8. QED
    BY <2>7
<1>8. QED
  BY <1>2, <1>5, <1>6, <1>7 DEF IInv, Follows

\* Exactness is given up once and for all.
LEMMA ExcusesStay ==
  ASSUME [Next]_vars, excuses' = {}
  PROVE  excuses = {}
BY DEF Next, vars, PrepareLoad, BeginClear, SendAccepted, SendRefused, SendUnannounced,
       AudioStep, ApplyCommand, ApplyClear, ApplyClearLoop, ApplyResizeLoop, ReplaceAll,
       ApplyLoad, FinishMutation, Settle, Release, Start, GoOn, WriteRange, Stop, PublisherStep,
       NextPump, TakeUpdate, MarkPublished, ReaderStep, LoadSaturated, LoadMutation,
       LoadPublished, LoadManifest, Reads, Everything

LEMMA StepInv == IInv /\ [Next]_vars => IInv'
<1> SUFFICES ASSUME IInv, [Next]_vars
             PROVE  IInv'
  OBVIOUS
<1>1. TypeOK /\ TypeOK'
  BY StepTypes DEF IInv
<1>2. SUFFICES ASSUME excuses' = {}
               PROVE  Follows'
  BY <1>1 DEF IInv
<1>3. Follows
  BY <1>2, ExcusesStay DEF IInv
<1>4. CASE PrepareLoad \/ BeginClear \/ SendAccepted \/ SendRefused \/ SendUnannounced
  BY <1>1, <1>3, <1>4, PrepareLoadFollows, BeginClearFollows, SendAcceptedFollows,
     SendRefusedFollows, SendUnannouncedFollows
<1>5. CASE ApplyCommand
  <2>1. CASE ApplyClear
    <3>1. /\ commands # <<>> /\ Head(commands).kind = "clear" /\ commands' = Tail(commands)
          /\ ReplaceAll("truncate", "clearing")
      BY <2>1 DEF ApplyClear, Applies
    <3>2. Head(commands) \notin Unannounced
      BY <1>1, <3>1, CommandsTaken, CommandKinds
    <3>3. QED
      BY <1>1, <1>2, <1>3, <3>1, <3>2, ReplaceAllFollows
  <2>2. CASE ApplyClearLoop
    BY <1>1, <1>2, <1>3, <2>2, ReplaceAllFollows DEF ApplyClearLoop, Applies
  <2>3. CASE ApplyResizeLoop
    BY <1>1, <1>2, <1>3, <2>3, ReplaceAllFollows DEF ApplyResizeLoop, Applies
  <2>4. CASE ApplyLoad
    BY <1>1, <1>2, <1>3, <2>4, ApplyLoadFollows
  <2>5. QED
    BY <1>5, <2>1, <2>2, <2>3, <2>4 DEF ApplyCommand
<1>6. CASE FinishMutation
  BY <1>1, <1>3, <1>6, FinishMutationFollows
<1>7. CASE \E mutation \in {"recording", "replacing"} : Start(mutation)
  BY <1>1, <1>2, <1>3, <1>7, StartFollows
<1>8. CASE GoOn \/ WriteRange \/ Stop
  BY <1>1, <1>2, <1>3, <1>8, GoOnFollows, WriteRangeFollows, LateRangeFollows, StopFollows
<1>9. CASE PublisherStep
  BY <1>1, <1>2, <1>3, <1>9, NextPumpFollows, TakeUpdateFollows, MarkPublishedFollows
     DEF PublisherStep
<1>10. CASE ReaderStep
  BY <1>1, <1>3, <1>10, ReaderStepFollows
<1>11. CASE UNCHANGED vars
  <2>1. Turns' /\ Counted' /\ Loads' /\ Observed'
    BY <1>3, <1>11 DEF vars, Follows, Turns, Calm, Free, NoneAnnounced, Counted, Loads, Ahead,
                       Observed, Reading, Right
  <2>2. \E b : Queue(b, updates)'
    BY <1>3, <1>11, QuietFollows DEF vars, AtRest
  <2>3. QED
    BY <2>1, <2>2 DEF Follows
<1>12. QED
  BY <1>4, <1>5, <1>6, <1>7, <1>8, <1>9, <1>10, <1>11 DEF Next, AudioStep

\* What is said of the updates under way holds of every state (finish_mutation, pump_updates
\* and try_current taken together).
THEOREM Invariance == Spec => []IInv
<1>1. Init => IInv
  BY InitInv
<1>2. IInv /\ [Next]_vars => IInv'
  BY StepInv
<1>3. QED
  BY <1>1, <1>2, PTL DEF Spec

\* Every variable stays within its type, the transport within its blocks.
THEOREM TypeCorrect == Spec => []TypeOK
<1>1. IInv => TypeOK
  BY DEF IInv
<1>2. QED
  BY <1>1, Invariance, PTL

\* For any transport, command queue and number of revisions, an exact read (try_current)
\* answers with content the channel held at some moment of the read, or with such content
\* but for copies that were applied when their recording had settled and are published
\* later; as long as no two mutations overlapped and saturation was not taken back early.
THEOREM ExactReadsStayCurrent == Spec => []ExactReadsAreCurrent
<1>1. IInv => ExactReadsAreCurrent
  BY DEF IInv, Follows, Observed, Right, ExactReadsAreCurrent
<1>2. QED
  BY <1>1, Invariance, PTL
=============================================================================
