-------------------------- MODULE RemoteBackendProofs --------------------------
(***************************************************************************)
(* Proofs about RemoteBackend for any values, queue capacity, number of    *)
(* calls and attachments: an engine that is attached is on its way to the  *)
(* tracks the application made.  The core of the argument is that the      *)
(* journal, in which a setting is replaced where it stands, replays to the *)
(* same tracks as the calls of the application led to.                     *)
(***************************************************************************)
EXTENDS RemoteBackend, SequenceTheorems, WellFoundedInduction, TLAPS

(* The commands that set the same field supersede each other, as they do in *)
(* the application, which changes a loop's length by one of them only.      *)
OneSettingPerField == \A a, b \in Settings : Field(a) = Field(b) => a = b

-----------------------------------------------------------------------------
(* Numbers and sequences. *)

\* A set of natural numbers has a smallest one.
LEMMA SmallestExists ==
  ASSUME NEW T, T \subseteq Nat, T # {}
  PROVE  \E i \in T : \A j \in T : i <= j
<1> DEFINE R == OpToRel(<, Nat)
<1>1. \A i, j \in Nat : <<j, i>> \in R <=> j < i
  BY Zenon DEF OpToRel
<1> HIDE DEF R
<1>2. PICK i \in T : \A j \in T : ~(<<j, i>> \in R)
  BY NatLessThanWellFounded, WFMin, Zenon DEF R
<1>3. \A j \in T : ~(j < i)
  BY <1>1, <1>2
<1>4. QED
  BY <1>3

\* And one that is bounded has a largest one.
LEMMA LargestExists ==
  ASSUME NEW T, NEW n \in Nat, T \subseteq 1..n, T # {}
  PROVE  \E i \in T : \A j \in T : j <= i
<1> DEFINE U == {m \in 0..n : n - m \in T}
<1>1. U \subseteq Nat /\ U # {}
  <2>1. PICK i \in T : TRUE
    OBVIOUS
  <2>2. i \in 1..n /\ n - i \in 0..n /\ n - (n - i) = i
    BY <2>1
  <2>3. n - i \in U
    BY <2>1, <2>2
  <2>4. U \subseteq Nat
    OBVIOUS
  <2>5. QED
    BY <2>3, <2>4
<1>2. PICK m \in U : \A k \in U : m <= k
  BY <1>1, SmallestExists
<1>3. ASSUME NEW j \in T
      PROVE  j <= n - m
  <2>1. j \in 1..n /\ n - j \in 0..n /\ n - (n - j) = j
    OBVIOUS
  <2>2. n - j \in U
    BY <2>1
  <2>3. m <= n - j /\ m \in Nat
    BY <1>2, <2>2
  <2>4. QED
    BY <2>1, <2>3
<1>4. QED
  BY <1>2, <1>3

LEMMA Indices ==
  ASSUME NEW S, NEW s \in Seq(S)
  PROVE  /\ Len(s) \in Nat /\ DOMAIN s = 1..Len(s)
         /\ \A i \in 1..Len(s) : s[i] \in S /\ i \in Nat
BY LenProperties, ElementOfSeq

LEMMA Appended ==
  ASSUME NEW S, NEW s \in Seq(S), NEW x \in S
  PROVE  /\ Append(s, x) \in Seq(S)
         /\ Len(Append(s, x)) = Len(s) + 1
         /\ \A i \in 1..Len(s) : Append(s, x)[i] = s[i]
         /\ Append(s, x)[Len(s) + 1] = x
BY AppendProperties, LenProperties

LEMMA Popped ==
  ASSUME NEW S, NEW s \in Seq(S), s # <<>>
  PROVE  /\ Head(s) \in S /\ Head(s) = s[1]
         /\ Tail(s) \in Seq(S)
         /\ Len(Tail(s)) = Len(s) - 1 /\ Len(s) > 0
         /\ \A i \in 1..Len(Tail(s)) : Tail(s)[i] = s[i + 1]
<1>1. Len(s) \in Nat /\ Len(s) > 0
  BY LenProperties, EmptySeq
<1>2. /\ Head(s) \in S /\ Tail(s) \in Seq(S) /\ Len(Tail(s)) = Len(s) - 1
      /\ \A i \in 1..Len(Tail(s)) : Tail(s)[i] = s[i + 1]
  BY HeadTailProperties
<1>3. Head(s) = s[1]
  OBVIOUS
<1>4. QED
  BY <1>1, <1>2, <1>3

-----------------------------------------------------------------------------
(* Tracks. *)

TrackRecords == [control : Values, length : Values]

LEMMA SettingFields ==
  /\ Settings \cap {"create", "remove", "configure", "poll", "drain"} = {}
  /\ \A op \in Settings : Field(op) \in {"control", "length"}
BY SettingsAssumption DEF Field

\* A field of a track is set.
Put(tracks, id, field, value) == [tracks EXCEPT ![id][field] = value]
Changed(track, field, value) == [track EXCEPT ![field] = value]
IsChanged(c, track, field, value) ==
  /\ c \in TrackRecords
  /\ c.control = IF field = "control" THEN value ELSE track.control
  /\ c.length = IF field = "length" THEN value ELSE track.length
IsPut(p, tracks, id, field, value) ==
  /\ AreTracks(p) /\ DOMAIN p = DOMAIN tracks
  /\ \A x \in DOMAIN tracks :
       p[x] = IF x = id THEN Changed(tracks[x], field, value) ELSE tracks[x]

LEMMA ChangedFacts ==
  ASSUME NEW r \in TrackRecords, NEW f \in {"control", "length"}, NEW v \in Values
  PROVE  IsChanged(Changed(r, f, v), r, f, v)
BY DEF Changed, TrackRecords, IsChanged

LEMMA SameRecords ==
  ASSUME NEW r \in TrackRecords, NEW s \in TrackRecords,
         r.control = s.control, r.length = s.length
  PROVE  r = s
BY DEF TrackRecords

LEMMA ChangesCommute ==
  ASSUME NEW r \in TrackRecords, NEW f \in {"control", "length"}, NEW v \in Values,
         NEW g \in {"control", "length"}, NEW w \in Values, f # g
  PROVE  Changed(Changed(r, f, v), g, w) = Changed(Changed(r, g, w), f, v)
<1>1. PICK a : a = Changed(r, f, v) /\ IsChanged(a, r, f, v)
  BY ChangedFacts
<1>2. PICK b : b = Changed(r, g, w) /\ IsChanged(b, r, g, w)
  BY ChangedFacts
<1>3. a \in TrackRecords /\ b \in TrackRecords
  BY <1>1, <1>2 DEF IsChanged
<1>4. PICK c : c = Changed(a, g, w) /\ IsChanged(c, a, g, w)
  BY <1>3, ChangedFacts
<1>5. PICK d : d = Changed(b, f, v) /\ IsChanged(d, b, f, v)
  BY <1>3, ChangedFacts
<1>6. c \in TrackRecords /\ d \in TrackRecords /\ c.control = d.control /\ c.length = d.length
  BY <1>1, <1>2, <1>4, <1>5 DEF IsChanged
<1>7. c = d
  BY <1>6, SameRecords
<1>8. QED
  BY <1>1, <1>2, <1>4, <1>5, <1>7

LEMMA ChangedTwice ==
  ASSUME NEW r \in TrackRecords, NEW f \in {"control", "length"}, NEW v \in Values,
         NEW w \in Values
  PROVE  Changed(Changed(r, f, v), f, w) = Changed(r, f, w)
<1>1. PICK a : a = Changed(r, f, v) /\ IsChanged(a, r, f, v)
  BY ChangedFacts
<1>2. PICK b : b = Changed(r, f, w) /\ IsChanged(b, r, f, w)
  BY ChangedFacts
<1>3. a \in TrackRecords
  BY <1>1 DEF IsChanged
<1>4. PICK c : c = Changed(a, f, w) /\ IsChanged(c, a, f, w)
  BY <1>3, ChangedFacts
<1>5. b \in TrackRecords /\ c \in TrackRecords /\ c.control = b.control /\ c.length = b.length
  BY <1>1, <1>2, <1>4 DEF IsChanged
<1>6. c = b
  BY <1>5, SameRecords
<1>7. QED
  BY <1>1, <1>2, <1>4, <1>6

LEMMA PutFacts ==
  ASSUME NEW t, AreTracks(t), NEW id, NEW f \in {"control", "length"}, NEW v \in Values
  PROVE  IsPut(Put(t, id, f, v), t, id, f, v)
<1> DEFINE p == Put(t, id, f, v)
<1>1. DOMAIN p = DOMAIN t
      /\ \A x \in DOMAIN t : p[x] = IF x = id THEN Changed(t[x], f, v) ELSE t[x]
  BY DEF Put, AreTracks, Changed
<1>2. \A x \in DOMAIN t : t[x] \in TrackRecords
  BY DEF AreTracks, TrackRecords
<1>3. \A x \in DOMAIN t : Changed(t[x], f, v) \in TrackRecords
  BY <1>2, ChangedFacts DEF IsChanged
<1>4. \A x \in DOMAIN t : p[x] \in TrackRecords
  BY <1>1, <1>2, <1>3
<1>5. p = [x \in DOMAIN t |-> p[x]]
  BY DEF Put, AreTracks
<1> HIDE DEF p
<1>6. AreTracks(p)
  BY <1>1, <1>4, <1>5 DEF AreTracks, TrackRecords
<1>7. IsPut(p, t, id, f, v)
  BY <1>1, <1>6 DEF IsPut
<1>8. QED
  BY <1>7 DEF p

IsWith(p, tracks, id) ==
  /\ AreTracks(p) /\ DOMAIN p = DOMAIN tracks \union {id}
  /\ \A x \in DOMAIN tracks \union {id} : p[x] = IF x = id THEN NewTrack ELSE tracks[x]
IsWithout(p, tracks, id) ==
  /\ AreTracks(p) /\ DOMAIN p = DOMAIN tracks \ {id}
  /\ \A x \in DOMAIN tracks \ {id} : p[x] = tracks[x]

LEMMA WithFacts ==
  ASSUME NEW t, AreTracks(t), NEW id
  PROVE  IsWith(With(t, id, NewTrack), t, id)
<1>1. NewTrack \in TrackRecords
  BY DefaultAssumption DEF NewTrack, TrackRecords
<1>2. \A x \in DOMAIN t : t[x] \in TrackRecords
  BY DEF AreTracks, TrackRecords
<1> DEFINE p == With(t, id, NewTrack)
<1>3. /\ p = [x \in DOMAIN t \union {id} |-> p[x]]
      /\ DOMAIN p = DOMAIN t \union {id}
      /\ \A x \in DOMAIN t \union {id} : p[x] = IF x = id THEN NewTrack ELSE t[x]
  BY DEF With
<1> HIDE DEF p
<1>4. \A x \in DOMAIN p : p[x] \in TrackRecords
  BY <1>1, <1>2, <1>3
<1>5. AreTracks(p)
  BY <1>3, <1>4 DEF AreTracks, TrackRecords
<1>6. IsWith(p, t, id)
  BY <1>3, <1>5 DEF IsWith
<1>7. QED
  BY <1>6 DEF p

LEMMA WithoutFacts ==
  ASSUME NEW t, AreTracks(t), NEW id
  PROVE  IsWithout(Without(t, id), t, id)
BY DEF Without, AreTracks, IsWithout

LEMMA NoTracksFacts == AreTracks(NoTracks) /\ DOMAIN NoTracks = {}
BY DEF AreTracks, NoTracks

LEMMA SameTracks ==
  ASSUME NEW t, NEW u, AreTracks(t), AreTracks(u), DOMAIN t = DOMAIN u,
         \A x \in DOMAIN t : t[x] = u[x]
  PROVE  t = u
BY DEF AreTracks

\* Settings of different fields or tracks commute, and the last of one field counts.
LEMMA PutsCommute ==
  ASSUME NEW t, AreTracks(t), NEW id, NEW f \in {"control", "length"}, NEW v \in Values,
         NEW jd, NEW g \in {"control", "length"}, NEW w \in Values, id # jd \/ f # g
  PROVE  Put(Put(t, id, f, v), jd, g, w) = Put(Put(t, jd, g, w), id, f, v)
<1>1. PICK a : a = Put(t, id, f, v) /\ IsPut(a, t, id, f, v)
  BY PutFacts
<1>2. PICK b : b = Put(t, jd, g, w) /\ IsPut(b, t, jd, g, w)
  BY PutFacts
<1>3. AreTracks(a) /\ AreTracks(b)
  BY <1>1, <1>2 DEF IsPut, IsWith, IsWithout
<1>4. PICK c : c = Put(a, jd, g, w) /\ IsPut(c, a, jd, g, w)
  BY <1>3, PutFacts
<1>5. PICK d : d = Put(b, id, f, v) /\ IsPut(d, b, id, f, v)
  BY <1>3, PutFacts
<1>6. AreTracks(c) /\ AreTracks(d) /\ DOMAIN c = DOMAIN d
  BY <1>1, <1>2, <1>4, <1>5 DEF IsPut, IsWith, IsWithout
<1>7. ASSUME NEW x \in DOMAIN c
      PROVE  c[x] = d[x]
  <2>1. x \in DOMAIN t /\ x \in DOMAIN a /\ x \in DOMAIN b
    BY <1>1, <1>2, <1>4 DEF IsPut
  <2>2. t[x] \in TrackRecords
    BY <2>1 DEF AreTracks, TrackRecords
  <2>3. f # g => Changed(Changed(t[x], f, v), g, w) = Changed(Changed(t[x], g, w), f, v)
    BY <2>2, ChangesCommute
  <2>4. QED
    BY <1>1, <1>2, <1>4, <1>5, <2>1, <2>3 DEF IsPut
<1>8. c = d
  BY <1>6, <1>7, SameTracks
<1>9. QED
  BY <1>1, <1>2, <1>4, <1>5, <1>8

LEMMA PutTwice ==
  ASSUME NEW t, AreTracks(t), NEW id, NEW f \in {"control", "length"}, NEW v \in Values,
         NEW w \in Values
  PROVE  Put(Put(t, id, f, v), id, f, w) = Put(t, id, f, w)
<1>1. PICK a : a = Put(t, id, f, v) /\ IsPut(a, t, id, f, v)
  BY PutFacts
<1>2. PICK b : b = Put(t, id, f, w) /\ IsPut(b, t, id, f, w)
  BY PutFacts
<1>3. AreTracks(a) /\ AreTracks(b)
  BY <1>1, <1>2 DEF IsPut
<1>4. PICK c : c = Put(a, id, f, w) /\ IsPut(c, a, id, f, w)
  BY <1>3, PutFacts
<1>5. AreTracks(c) /\ DOMAIN c = DOMAIN b
  BY <1>1, <1>2, <1>4 DEF IsPut
<1>6. ASSUME NEW x \in DOMAIN c
      PROVE  c[x] = b[x]
  <2>1. x \in DOMAIN t /\ x \in DOMAIN a
    BY <1>1, <1>4 DEF IsPut
  <2>2. t[x] \in TrackRecords
    BY <2>1 DEF AreTracks, TrackRecords
  <2>3. Changed(Changed(t[x], f, v), f, w) = Changed(t[x], f, w)
    BY <2>2, ChangedTwice
  <2>4. QED
    BY <1>1, <1>2, <1>4, <2>1, <2>3 DEF IsPut
<1>7. c = b
  BY <1>3, <1>5, <1>6, SameTracks
<1>8. QED
  BY <1>1, <1>2, <1>4, <1>7

LEMMA PutBeforeWith ==
  ASSUME NEW t, AreTracks(t), NEW id, NEW f \in {"control", "length"}, NEW v \in Values,
         NEW new, new # id
  PROVE  With(Put(t, id, f, v), new, NewTrack) = Put(With(t, new, NewTrack), id, f, v)
<1>1. PICK a : a = Put(t, id, f, v) /\ IsPut(a, t, id, f, v)
  BY PutFacts
<1>2. PICK b : b = With(t, new, NewTrack) /\ IsWith(b, t, new)
  BY WithFacts
<1>3. AreTracks(a) /\ AreTracks(b)
  BY <1>1, <1>2 DEF IsPut, IsWith, IsWithout
<1>4. PICK c : c = With(a, new, NewTrack) /\ IsWith(c, a, new)
  BY <1>3, WithFacts
<1>5. PICK d : d = Put(b, id, f, v) /\ IsPut(d, b, id, f, v)
  BY <1>3, PutFacts
<1>6. AreTracks(c) /\ AreTracks(d) /\ DOMAIN c = DOMAIN d
  BY <1>1, <1>2, <1>4, <1>5 DEF IsPut, IsWith, IsWithout
<1>7. \A x \in DOMAIN c : c[x] = d[x]
  BY <1>1, <1>2, <1>4, <1>5 DEF IsPut, IsWith, IsWithout
<1>8. c = d
  BY <1>6, <1>7, SameTracks
<1>9. QED
  BY <1>1, <1>2, <1>4, <1>5, <1>8

LEMMA PutBeforeWithout ==
  ASSUME NEW t, AreTracks(t), NEW id, NEW f \in {"control", "length"}, NEW v \in Values,
         NEW old, old # id
  PROVE  Without(Put(t, id, f, v), old) = Put(Without(t, old), id, f, v)
<1>1. PICK a : a = Put(t, id, f, v) /\ IsPut(a, t, id, f, v)
  BY PutFacts
<1>2. PICK b : b = Without(t, old) /\ IsWithout(b, t, old)
  BY WithoutFacts
<1>3. AreTracks(a) /\ AreTracks(b)
  BY <1>1, <1>2 DEF IsPut, IsWith, IsWithout
<1>4. PICK c : c = Without(a, old) /\ IsWithout(c, a, old)
  BY <1>3, WithoutFacts
<1>5. PICK d : d = Put(b, id, f, v) /\ IsPut(d, b, id, f, v)
  BY <1>3, PutFacts
<1>6. AreTracks(c) /\ AreTracks(d) /\ DOMAIN c = DOMAIN d
  BY <1>1, <1>2, <1>4, <1>5 DEF IsPut, IsWith, IsWithout
<1>7. \A x \in DOMAIN c : c[x] = d[x]
  BY <1>1, <1>2, <1>4, <1>5 DEF IsPut, IsWith, IsWithout
<1>8. c = d
  BY <1>6, <1>7, SameTracks
<1>9. QED
  BY <1>1, <1>2, <1>4, <1>5, <1>8

-----------------------------------------------------------------------------
(* What a command makes of the engine's tracks, as a relation.  An engine that *)
(* takes a command neither refuses it nor gives another identifier.            *)

Core(eng) == [ids |-> eng.ids, tracks |-> eng.tracks]
IsCore(c) == c = [ids |-> c.ids, tracks |-> c.tracks] /\ c.ids \in Nat /\ AreTracks(c.tracks)
IsEngine(eng) == /\ eng = [next |-> eng.next, ids |-> eng.ids, tracks |-> eng.tracks]
                 /\ eng.next \in Nat /\ eng.ids \in Nat /\ AreTracks(eng.tracks)

Creates(c, cmd, d) == /\ cmd.op = "create" /\ cmd.value = Default /\ cmd.id = c.ids
                      /\ d.ids = c.ids + 1 /\ d.tracks = With(c.tracks, cmd.id, NewTrack)
Removes(c, cmd, d) == /\ cmd.op = "remove"
                      /\ d.ids = c.ids /\ d.tracks = Without(c.tracks, cmd.id)
Sets(c, cmd, d) == /\ cmd.op \in Settings /\ cmd.value \in Values /\ cmd.id \in DOMAIN c.tracks
                   /\ d.ids = c.ids
                   /\ d.tracks = Put(c.tracks, cmd.id, Field(cmd.op), cmd.value)
Keeps(c, cmd, d) == /\ cmd.op \in {"configure", "poll", "drain"}
                    /\ d.ids = c.ids /\ d.tracks = c.tracks
Takes(c, cmd, d) == Creates(c, cmd, d) \/ Removes(c, cmd, d) \/ Sets(c, cmd, d) \/ Keeps(c, cmd, d)

LEMMA HoldingFacts ==
  ASSUME NEW eng, NEW ids, NEW tracks
  PROVE  /\ Holding(eng, ids, tracks) = [next |-> eng.next, ids |-> ids, tracks |-> tracks]
         /\ Holding(eng, ids, tracks).next = eng.next
         /\ Holding(eng, ids, tracks).ids = ids /\ Holding(eng, ids, tracks).tracks = tracks
BY DEF Holding

\* The engine does what the relation says.
LEMMA TakesHandled ==
  ASSUME NEW eng, IsEngine(eng), NEW cmd, NEW d, IsCore(d), Takes(Core(eng), cmd, d)
  PROVE  /\ Core(Handled(eng, cmd).engine) = d
         /\ Handled(eng, cmd).kind \in {"ack", "snapshot"}
         /\ Handled(eng, cmd).engine.next = eng.next
         /\ IsEngine(Handled(eng, cmd).engine)
<1> DEFINE e == Handled(eng, cmd).engine
<1>1. Core(eng).ids = eng.ids /\ Core(eng).tracks = eng.tracks
  BY DEF Core
<1>2. /\ e = [next |-> eng.next, ids |-> d.ids, tracks |-> d.tracks]
      /\ Handled(eng, cmd).kind \in {"ack", "snapshot"}
  <2>1. CASE Creates(Core(eng), cmd, d)
    <3>1. Handled(eng, cmd) = [engine |-> Holding(eng, eng.ids + 1,
                                               Applied(eng.tracks, cmd, eng.ids)),
                               kind |-> "ack"]
      BY <1>1, <2>1, SettingFields DEF Handled, Creates
    <3>2. Applied(eng.tracks, cmd, eng.ids) = d.tracks /\ d.ids = eng.ids + 1
      BY <1>1, <2>1 DEF Applied, Creates
    <3>3. QED
      BY <3>1, <3>2, HoldingFacts
  <2>2. CASE Removes(Core(eng), cmd, d)
    <3>1. Handled(eng, cmd) = [engine |-> Holding(eng, eng.ids, Applied(eng.tracks, cmd, 0)),
                               kind |-> "ack"]
      BY <2>2, SettingFields DEF Handled, Removes
    <3>2. Applied(eng.tracks, cmd, 0) = d.tracks /\ d.ids = eng.ids
      BY <1>1, <2>2 DEF Applied, Removes
    <3>3. QED
      BY <3>1, <3>2, HoldingFacts
  <2>3. CASE Sets(Core(eng), cmd, d)
    <3>1. cmd.op \notin {"create", "remove", "configure", "poll", "drain"}
      BY <2>3, SettingFields DEF Sets
    <3>2. Handled(eng, cmd) = [engine |-> Holding(eng, eng.ids, Applied(eng.tracks, cmd, 0)),
                               kind |-> "ack"]
      BY <1>1, <2>3, <3>1 DEF Handled, Sets
    <3>3. Applied(eng.tracks, cmd, 0) = d.tracks /\ d.ids = eng.ids
      BY <1>1, <2>3, <3>1 DEF Applied, Sets, Put
    <3>4. QED
      BY <3>2, <3>3, HoldingFacts
  <2>4. CASE Keeps(Core(eng), cmd, d)
    <3>1. cmd.op \notin Settings
      BY <2>4, SettingFields DEF Keeps
    <3>2. Handled(eng, cmd).engine = eng /\ Handled(eng, cmd).kind \in {"ack", "snapshot"}
      BY <2>4, <3>1 DEF Handled, Keeps
    <3>3. d.tracks = eng.tracks /\ d.ids = eng.ids
      BY <1>1, <2>4 DEF Keeps
    <3>4. QED
      BY <3>2, <3>3 DEF IsEngine
  <2>5. QED
    BY <2>1, <2>2, <2>3, <2>4 DEF Takes
<1> HIDE DEF e
<1>3. e.next = eng.next /\ e.ids = d.ids /\ e.tracks = d.tracks
  BY <1>2
<1>4. IsEngine(e)
  BY <1>2, <1>3 DEF IsEngine, IsCore
<1>5. Core(e) = d
  BY <1>3 DEF Core, IsCore
<1>6. QED
  BY <1>2, <1>3, <1>4, <1>5 DEF e

\* Whatever the command, the engine stays one.
LEMMA HandledType ==
  ASSUME NEW eng, IsEngine(eng), NEW cmd \in Commands
  PROVE  IsEngine(Handled(eng, cmd).engine) /\ Handled(eng, cmd).kind \in Kinds
<1>1. /\ cmd.value \in Values
      /\ cmd.op \in {"create", "remove", "configure", "poll", "drain"} \union Settings
  BY DEF Commands
<1>2. CASE cmd.op = "create" /\ cmd.value = Default
  <2> DEFINE t == With(eng.tracks, eng.ids, NewTrack)
  <2>1. AreTracks(t)
    BY WithFacts DEF IsWith, IsEngine
  <2>2. Applied(eng.tracks, cmd, eng.ids) = t
    BY <1>2 DEF Applied
  <2>3. /\ Handled(eng, cmd).engine = Holding(eng, eng.ids + 1, Applied(eng.tracks, cmd, eng.ids))
        /\ Handled(eng, cmd).kind \in Kinds
    BY <1>2, SettingFields DEF Handled, Kinds
  <2> HIDE DEF t
  <2>4. QED
    BY <2>1, <2>2, <2>3, HoldingFacts DEF IsEngine
<1>3. CASE cmd.op = "remove"
  <2> DEFINE t == Without(eng.tracks, cmd.id)
  <2>1. AreTracks(t)
    BY WithoutFacts DEF IsWithout, IsEngine
  <2>2. Applied(eng.tracks, cmd, 0) = t
    BY <1>3 DEF Applied
  <2>3. /\ Handled(eng, cmd).engine = Holding(eng, eng.ids, Applied(eng.tracks, cmd, 0))
        /\ Handled(eng, cmd).kind \in Kinds
    BY <1>3, SettingFields DEF Handled, Kinds
  <2> HIDE DEF t
  <2>4. QED
    BY <2>1, <2>2, <2>3, HoldingFacts DEF IsEngine
<1>4. CASE cmd.op \in Settings /\ cmd.id \in DOMAIN eng.tracks
  <2>1. cmd.op \notin {"create", "remove", "configure", "poll", "drain"}
        /\ Field(cmd.op) \in {"control", "length"}
    BY <1>4, SettingFields
  <2> DEFINE t == Put(eng.tracks, cmd.id, Field(cmd.op), cmd.value)
  <2>2. AreTracks(t)
    BY <1>1, <2>1, PutFacts DEF IsPut, IsEngine
  <2>3. Applied(eng.tracks, cmd, 0) = t
    BY <2>1 DEF Applied, Put
  <2>4. /\ Handled(eng, cmd).engine = Holding(eng, eng.ids, Applied(eng.tracks, cmd, 0))
        /\ Handled(eng, cmd).kind \in Kinds
    BY <1>4, <2>1 DEF Handled, Kinds
  <2> HIDE DEF t
  <2>5. QED
    BY <2>2, <2>3, <2>4, HoldingFacts DEF IsEngine
<1>5. CASE cmd.op \in Settings /\ cmd.id \notin DOMAIN eng.tracks
  <2>1. cmd.op \notin {"create", "remove", "configure", "poll", "drain"}
    BY <1>5, SettingFields
  <2>2. Handled(eng, cmd).engine = eng /\ Handled(eng, cmd).kind \in Kinds
    BY <1>5, <2>1 DEF Handled, Kinds
  <2>3. QED
    BY <2>2
<1>6. CASE cmd.op = "create" /\ cmd.value # Default
  <2>1. Handled(eng, cmd).engine = eng /\ Handled(eng, cmd).kind \in Kinds
    BY <1>6, SettingFields DEF Handled, Kinds
  <2>2. QED
    BY <2>1
<1>7. CASE cmd.op \in {"configure", "poll", "drain"}
  <2>1. cmd.op \notin Settings
    BY <1>7, SettingFields
  <2>2. Handled(eng, cmd).engine = eng /\ Handled(eng, cmd).kind \in Kinds
    BY <1>7, <2>1 DEF Handled, Kinds
  <2>3. QED
    BY <2>2
<1>8. QED
  BY <1>1, <1>2, <1>3, <1>4, <1>5, <1>6, <1>7

\* The next state is the only one.
LEMMA TakesOne ==
  ASSUME NEW c, NEW cmd, NEW d, NEW e, IsCore(d), IsCore(e), Takes(c, cmd, d), Takes(c, cmd, e)
  PROVE  d = e
<1>1. d.ids = e.ids /\ d.tracks = e.tracks
  BY SettingFields DEF Takes, Creates, Removes, Sets, Keeps
<1>2. QED
  BY <1>1 DEF IsCore

-----------------------------------------------------------------------------
(* Where a list of commands leads an engine that takes them all. *)

Runs(h, q) == /\ \A n \in 0 .. Len(q) : IsCore(h[n])
              /\ \A n \in 1 .. Len(q) : Takes(h[n - 1], q[n], h[n])
Leads(c, q, d) == \E h : h[0] = c /\ h[Len(q)] = d /\ Runs(h, q)

LEMMA LeadsNothing ==
  ASSUME NEW c, IsCore(c), NEW q, Len(q) = 0
  PROVE  Leads(c, q, c) /\ \A d : Leads(c, q, d) => d = c
<1> DEFINE h == [n \in 0 .. 0 |-> c]
<1>1. h[0] = c /\ Runs(h, q)
  BY DEF Runs
<1>2. Leads(c, q, c)
  BY <1>1 DEF Leads
<1>3. ASSUME NEW d, Leads(c, q, d)
      PROVE  d = c
  BY <1>3 DEF Leads
<1>4. QED
  BY <1>2, <1>3

LEMMA LeadsAppend ==
  ASSUME NEW c, NEW d, NEW e, NEW q, NEW r, Len(q) \in Nat, Len(r) = Len(q) + 1,
         \A i \in 1 .. Len(q) : r[i] = q[i],
         Leads(c, q, d), IsCore(e), Takes(d, r[Len(q) + 1], e)
  PROVE  Leads(c, r, e)
<1>1. PICK g : g[0] = c /\ g[Len(q)] = d /\ Runs(g, q)
  BY DEF Leads
<1> DEFINE L == Len(q)
           h == [n \in 0 .. L + 1 |-> IF n <= L THEN g[n] ELSE e]
<1>2. h[L + 1] = e /\ L + 1 \in 0 .. L + 1 /\ \A n \in 0 .. L : h[n] = g[n]
  OBVIOUS
<1> HIDE DEF h
<1>3. h[0] = c
  BY <1>1, <1>2
<1>4. ASSUME NEW n \in 0 .. L + 1
      PROVE  IsCore(h[n])
  <2>1. CASE n <= L
    <3>1. n \in 0 .. L
      BY <2>1
    <3>2. IsCore(g[n])
      BY <1>1, <3>1 DEF Runs
    <3>3. QED
      BY <1>2, <3>1, <3>2
  <2>2. CASE n = L + 1
    BY <1>2, <2>2
  <2>3. QED
    BY <2>1, <2>2
<1>5. ASSUME NEW n \in 1 .. L + 1
      PROVE  Takes(h[n - 1], r[n], h[n])
  <2>1. CASE n <= L
    <3>1. n \in 1 .. L /\ n \in 0 .. L /\ n - 1 \in 0 .. L
      BY <2>1
    <3>2. Takes(g[n - 1], q[n], g[n])
      BY <1>1, <3>1 DEF Runs
    <3>3. QED
      BY <1>2, <3>1, <3>2
  <2>2. CASE n = L + 1
    <3>1. n - 1 = L /\ L \in 0 .. L
      BY <2>2
    <3>2. QED
      BY <1>1, <1>2, <2>2, <3>1
  <2>3. QED
    BY <2>1, <2>2
<1>6. Runs(h, r)
  BY <1>4, <1>5 DEF Runs
<1>7. QED
  BY <1>2, <1>3, <1>6 DEF Leads

LEMMA LeadsPrepend ==
  ASSUME NEW b, NEW c, NEW d, NEW q, NEW r, Len(q) \in Nat, Len(r) = Len(q) + 1,
         \A i \in 1 .. Len(q) : r[i + 1] = q[i],
         Leads(c, q, d), IsCore(b), Takes(b, r[1], c)
  PROVE  Leads(b, r, d)
<1>1. PICK g : g[0] = c /\ g[Len(q)] = d /\ Runs(g, q)
  BY DEF Leads
<1> DEFINE L == Len(q)
           h == [n \in 0 .. L + 1 |-> IF n = 0 THEN b ELSE g[n - 1]]
<1>2. h[0] = b /\ \A n \in 1 .. L + 1 : h[n] = g[n - 1]
  OBVIOUS
<1> HIDE DEF h
<1>3. h[L + 1] = d
  <2>1. L + 1 \in 1 .. L + 1 /\ L + 1 - 1 = L
    OBVIOUS
  <2>2. QED
    BY <1>1, <1>2, <2>1
<1>4. ASSUME NEW n \in 0 .. L + 1
      PROVE  IsCore(h[n])
  <2>1. CASE n # 0
    <3>1. n \in 1 .. L + 1 /\ n - 1 \in 0 .. L
      BY <2>1
    <3>2. IsCore(g[n - 1])
      BY <1>1, <3>1 DEF Runs
    <3>3. QED
      BY <1>2, <3>1, <3>2
  <2>2. CASE n = 0
    BY <1>2, <2>2
  <2>3. QED
    BY <2>1, <2>2
<1>5. ASSUME NEW n \in 1 .. L + 1
      PROVE  Takes(h[n - 1], r[n], h[n])
  <2>1. CASE n # 1
    <3>1. /\ n - 1 \in 1 .. L /\ n \in 1 .. L + 1 /\ n - 1 \in 1 .. L + 1
          /\ (n - 1) + 1 = n
      BY <2>1
    <3>2. Takes(g[(n - 1) - 1], q[n - 1], g[n - 1])
      BY <1>1, <3>1 DEF Runs
    <3>3. r[n] = q[n - 1]
      BY <3>1
    <3>4. h[n] = g[n - 1] /\ h[n - 1] = g[(n - 1) - 1]
      BY <1>2, <3>1
    <3>5. QED
      BY <3>2, <3>3, <3>4
  <2>2. CASE n = 1
    <3>1. 1 \in 1 .. L + 1 /\ 1 - 1 = 0
      OBVIOUS
    <3>2. h[1] = c
      BY <1>1, <1>2, <3>1
    <3>3. QED
      BY <1>2, <2>2, <3>1, <3>2
  <2>3. QED
    BY <2>1, <2>2
<1>6. Runs(h, r)
  BY <1>4, <1>5 DEF Runs
<1>7. QED
  BY <1>2, <1>3, <1>6 DEF Leads

LEMMA LeadsTail ==
  ASSUME NEW c, NEW d, NEW q, NEW r, Len(r) \in Nat, Len(q) = Len(r) + 1,
         \A i \in 1 .. Len(r) : r[i] = q[i + 1], Leads(c, q, d)
  PROVE  \E b : IsCore(b) /\ Takes(c, q[1], b) /\ Leads(b, r, d)
<1>1. PICK g : g[0] = c /\ g[Len(q)] = d /\ Runs(g, q)
  BY DEF Leads
<1> DEFINE L == Len(r)
           h == [n \in 0 .. L |-> g[n + 1]]
<1>2. \A n \in 0 .. L : h[n] = g[n + 1]
  OBVIOUS
<1> HIDE DEF h
<1>3. h[0] = g[1] /\ h[L] = d
  BY <1>1, <1>2
<1>4. IsCore(g[1]) /\ Takes(c, q[1], g[1])
  <2>1. 1 \in 0 .. Len(q) /\ 1 \in 1 .. Len(q) /\ 1 - 1 = 0
    OBVIOUS
  <2>2. IsCore(g[1]) /\ Takes(g[1 - 1], q[1], g[1])
    BY <1>1, <2>1, Zenon DEF Runs
  <2>3. QED
    BY <1>1, <2>1, <2>2
<1>5. ASSUME NEW n \in 0 .. L
      PROVE  IsCore(h[n])
  <2>1. n + 1 \in 0 .. Len(q)
    OBVIOUS
  <2>2. IsCore(g[n + 1])
    BY <1>1, <2>1 DEF Runs
  <2>3. QED
    BY <1>2, <2>2
<1>6. ASSUME NEW n \in 1 .. L
      PROVE  Takes(h[n - 1], r[n], h[n])
  <2>1. n + 1 \in 1 .. Len(q) /\ n \in 0 .. L /\ n - 1 \in 0 .. L /\ (n + 1) - 1 = n
        /\ (n - 1) + 1 = n
    OBVIOUS
  <2>2. Takes(g[(n + 1) - 1], q[n + 1], g[n + 1])
    BY <1>1, <2>1 DEF Runs
  <2>3. h[n] = g[n + 1] /\ h[n - 1] = g[n]
    BY <1>2, <2>1
  <2>4. QED
    BY <2>1, <2>2, <2>3
<1>7. Runs(h, r)
  BY <1>5, <1>6 DEF Runs
<1>8. Leads(g[1], r, d)
  BY <1>3, <1>7 DEF Leads
<1>9. QED
  BY <1>4, <1>8

\* Only the commands matter.
LEMMA LeadsSame ==
  ASSUME NEW c, NEW d, NEW q, NEW r, Len(r) = Len(q), \A i \in 1 .. Len(q) : r[i] = q[i],
         Leads(c, q, d)
  PROVE  Leads(c, r, d)
<1>1. PICK g : g[0] = c /\ g[Len(q)] = d /\ Runs(g, q)
  BY DEF Leads
<1>2. Runs(g, r)
  BY <1>1 DEF Runs
<1>3. QED
  BY <1>1, <1>2 DEF Leads

LEMMA LeadsCore ==
  ASSUME NEW c, NEW d, NEW q, Len(q) \in Nat, Leads(c, q, d)
  PROVE  IsCore(d) /\ IsCore(c)
<1>1. PICK g : g[0] = c /\ g[Len(q)] = d /\ Runs(g, q)
  BY DEF Leads
<1>2. 0 \in 0 .. Len(q) /\ Len(q) \in 0 .. Len(q)
  OBVIOUS
<1>3. QED
  BY <1>1, <1>2, Zenon DEF Runs

-----------------------------------------------------------------------------
(* A setting that replaces the newest one of its kind where it stands leads to *)
(* what the replaced one and the setting after all others would have led to.   *)

Setting(c, id, field, value) ==
  [ids |-> c.ids, tracks |-> Put(c.tracks, id, field, value)]

LEMMA SettingFacts ==
  ASSUME NEW c, IsCore(c), NEW id, NEW f \in {"control", "length"}, NEW v \in Values
  PROVE  /\ IsCore(Setting(c, id, f, v)) /\ Setting(c, id, f, v).ids = c.ids
         /\ Setting(c, id, f, v).tracks = Put(c.tracks, id, f, v)
         /\ DOMAIN Setting(c, id, f, v).tracks = DOMAIN c.tracks
<1> DEFINE t == Put(c.tracks, id, f, v)
<1>1. AreTracks(t) /\ DOMAIN t = DOMAIN c.tracks
  <2>1. AreTracks(c.tracks)
    BY DEF IsCore
  <2>2. IsPut(t, c.tracks, id, f, v)
    BY <2>1, PutFacts
  <2>3. QED
    BY <2>2 DEF IsPut
<1> HIDE DEF t
<1>2. Setting(c, id, f, v) = [ids |-> c.ids, tracks |-> t]
  BY DEF Setting, t
<1>3. t = Put(c.tracks, id, f, v)
  BY DEF t
<1>4. QED
  BY <1>1, <1>2, <1>3 DEF IsCore

\* What sets another field or track, or makes or removes another track, does the same after it.
LEMMA TakesLater ==
  ASSUME NEW c, NEW d, IsCore(c), IsCore(d), NEW cmd, Takes(c, cmd, d),
         NEW id, NEW f \in {"control", "length"}, NEW v \in Values,
         cmd.op \in {"create", "remove"} => cmd.id # id,
         cmd.op \in Settings => cmd.id # id \/ Field(cmd.op) # f
  PROVE  Takes(Setting(c, id, f, v), cmd, Setting(d, id, f, v))
<1> DEFINE t == Put(c.tracks, id, f, v)
           u == Put(d.tracks, id, f, v)
<1>1. PICK a : a = Setting(c, id, f, v) /\ a.ids = c.ids /\ a.tracks = t
               /\ DOMAIN a.tracks = DOMAIN c.tracks
  BY SettingFacts
<1>2. PICK b : b = Setting(d, id, f, v) /\ b.ids = d.ids /\ b.tracks = u
  BY SettingFacts
<1>3. AreTracks(c.tracks) /\ AreTracks(d.tracks)
  BY DEF IsCore
<1>4. Takes(a, cmd, b)
  <2>1. CASE Creates(c, cmd, d)
    <3>1. cmd.id # id /\ d.tracks = With(c.tracks, cmd.id, NewTrack)
      BY <2>1 DEF Creates
    <3>2. With(t, cmd.id, NewTrack) = u
      BY <1>3, <3>1, PutBeforeWith
    <3>3. QED
      BY <1>1, <1>2, <2>1, <3>2 DEF Takes, Creates
  <2>2. CASE Removes(c, cmd, d)
    <3>1. cmd.id # id /\ d.tracks = Without(c.tracks, cmd.id)
      BY <2>2 DEF Removes
    <3>2. Without(t, cmd.id) = u
      BY <1>3, <3>1, PutBeforeWithout
    <3>3. QED
      BY <1>1, <1>2, <2>2, <3>2 DEF Takes, Removes
  <2>3. CASE Sets(c, cmd, d)
    <3>1. /\ cmd.id # id \/ Field(cmd.op) # f
          /\ Field(cmd.op) \in {"control", "length"} /\ cmd.value \in Values
          /\ d.tracks = Put(c.tracks, cmd.id, Field(cmd.op), cmd.value)
      BY <2>3, SettingFields DEF Sets
    <3>2. Put(t, cmd.id, Field(cmd.op), cmd.value) = u
      BY <1>3, <3>1, PutsCommute
    <3>3. QED
      BY <1>1, <1>2, <2>3, <3>2 DEF Takes, Sets
  <2>4. CASE Keeps(c, cmd, d)
    BY <1>1, <1>2, <2>4 DEF Takes, Keeps
  <2>5. QED
    BY <2>1, <2>2, <2>3, <2>4 DEF Takes
<1>5. QED
  BY <1>1, <1>2, <1>4

LEMMA TakesReplaced ==
  ASSUME NEW c, NEW d, IsCore(c), IsCore(d), NEW cmd, cmd.op \in Settings, Takes(c, cmd, d),
         NEW v \in Values
  PROVE  Takes(c, Command(cmd.op, cmd.id, v), Setting(d, cmd.id, Field(cmd.op), v))
<1> DEFINE f == Field(cmd.op)
<1>1. Sets(c, cmd, d) /\ f \in {"control", "length"}
  BY SettingFields DEF Takes, Creates, Removes, Keeps
<1>2. Put(d.tracks, cmd.id, f, v) = Put(c.tracks, cmd.id, f, v)
  BY <1>1, PutTwice DEF Sets, IsCore
<1>3. PICK b : /\ b = Setting(d, cmd.id, f, v) /\ b.ids = d.ids
               /\ b.tracks = Put(d.tracks, cmd.id, f, v)
  BY <1>1, SettingFacts
<1> DEFINE new == Command(cmd.op, cmd.id, v)
<1>4. new.op = cmd.op /\ new.id = cmd.id /\ new.value = v
  BY DEF Command
<1> HIDE DEF new
<1>5. Sets(c, new, b)
  BY <1>1, <1>2, <1>3, <1>4 DEF Sets
<1>6. QED
  BY <1>3, <1>5 DEF Takes, new

LEMMA LeadsReplaced ==
  ASSUME NEW c, NEW d, NEW q, NEW r, Len(q) \in Nat, Len(r) = Len(q), Leads(c, q, d),
         NEW i \in 1 .. Len(q), q[i].op \in Settings, NEW v \in Values,
         r[i] = Command(q[i].op, q[i].id, v),
         \A j \in 1 .. Len(q) : j # i => r[j] = q[j],
         \A j \in i + 1 .. Len(q) :
           /\ q[j].op \in {"create", "remove"} => q[j].id # q[i].id
           /\ q[j].op \in Settings => q[j].id # q[i].id \/ Field(q[j].op) # Field(q[i].op)
  PROVE  Leads(c, r, Setting(d, q[i].id, Field(q[i].op), v))
<1> DEFINE L == Len(q)
           f == Field(q[i].op)
           id == q[i].id
<1>1. PICK g : g[0] = c /\ g[L] = d /\ Runs(g, q)
  BY DEF Leads
<1>2. f \in {"control", "length"}
  BY SettingFields
<1> DEFINE h == [n \in 0 .. L |-> IF n < i THEN g[n] ELSE Setting(g[n], id, f, v)]
<1>3. /\ \A n \in 0 .. L : n < i => h[n] = g[n]
      /\ \A n \in 0 .. L : n >= i => h[n] = Setting(g[n], id, f, v)
  OBVIOUS
<1> HIDE DEF h, f
<1>4. h[0] = c /\ h[L] = Setting(d, id, f, v)
  BY <1>1, <1>3
<1>5. \A n \in 0 .. L : IsCore(g[n])
  BY <1>1 DEF Runs
<1>6. ASSUME NEW n \in 0 .. L
      PROVE  IsCore(h[n])
  <2>1. IsCore(g[n]) /\ IsCore(Setting(g[n], id, f, v))
    BY <1>2, <1>5, SettingFacts
  <2>2. QED
    BY <1>3, <2>1
<1>7. ASSUME NEW n \in 1 .. L
      PROVE  Takes(h[n - 1], r[n], h[n])
  <2>1. n \in 0 .. L /\ n - 1 \in 0 .. L
    OBVIOUS
  <2>2. Takes(g[n - 1], q[n], g[n])
    BY <1>1 DEF Runs
  <2>3. IsCore(g[n - 1]) /\ IsCore(g[n])
    BY <1>5, <2>1
  <2>4. CASE n < i
    <3>1. h[n] = g[n] /\ h[n - 1] = g[n - 1] /\ r[n] = q[n]
      BY <1>3, <2>1, <2>4
    <3>2. QED
      BY <2>2, <3>1
  <2>5. CASE n = i
    <3>1. h[n] = Setting(g[n], id, f, v) /\ h[n - 1] = g[n - 1]
      BY <1>3, <2>1, <2>5
    <3>2. q[n].op \in Settings
      BY <2>5
    <3>3. Takes(g[n - 1], Command(q[n].op, q[n].id, v), Setting(g[n], q[n].id, Field(q[n].op), v))
      BY <2>2, <2>3, <3>2, TakesReplaced
    <3>4. QED
      BY <2>5, <3>1, <3>3 DEF f
  <2>6. CASE n > i
    <3>1. /\ h[n] = Setting(g[n], id, f, v) /\ h[n - 1] = Setting(g[n - 1], id, f, v)
          /\ r[n] = q[n] /\ n \in i + 1 .. L
      BY <1>3, <2>1, <2>6
    <3>2. /\ q[n].op \in {"create", "remove"} => q[n].id # id
          /\ q[n].op \in Settings => q[n].id # id \/ Field(q[n].op) # f
      BY <3>1 DEF f
    <3>3. Takes(Setting(g[n - 1], id, f, v), q[n], Setting(g[n], id, f, v))
      BY <1>2, <2>2, <2>3, <3>2, TakesLater
    <3>4. QED
      BY <3>1, <3>3
  <2>7. QED
    BY <2>4, <2>5, <2>6
<1>8. Runs(h, r)
  BY <1>6, <1>7 DEF Runs
<1>9. Leads(c, r, Setting(d, id, f, v))
  BY <1>4, <1>8 DEF Leads
<1>10. QED
  BY <1>9 DEF f

-----------------------------------------------------------------------------
(* Handling the commands one after the other leads there too. *)

Handling(h, L, eng, cmds) ==
  h = [n \in 0 .. L |-> IF n = 0 THEN eng ELSE Handled(h[n - 1], cmds[n].cmd).engine]

LEMMA HandlingExists ==
  ASSUME NEW L \in Nat, NEW eng, NEW cmds
  PROVE  \E h : Handling(h, L, eng, cmds)
<1> DEFINE Is(h, m) == h = [n \in 0 .. m |->
                              IF n = 0 THEN eng ELSE Handled(h[n - 1], cmds[n].cmd).engine]
           T == {m \in Nat : ~\E h : Is(h, m)}
<1>1. T = {}
  <2> SUFFICES ASSUME T # {}
               PROVE  FALSE
    OBVIOUS
  <2>1. PICK m \in T : \A j \in T : m <= j
    BY SmallestExists
  <2>2. m \in Nat
    OBVIOUS
  <2>3. CASE m = 0
    <3> DEFINE h == [n \in 0 .. 0 |-> eng]
    <3>1. Is(h, 0)
      OBVIOUS
    <3>2. QED
      BY <2>1, <2>3, <3>1
  <2>4. CASE m # 0
    <3>1. m - 1 \in Nat /\ m - 1 \notin T
      <4>1. m - 1 \in Nat /\ ~(m <= m - 1)
        BY <2>2, <2>4
      <4>2. QED
        BY <2>1, <4>1
    <3>2. PICK g : Is(g, m - 1)
      BY <3>1
    <3> DEFINE h == [n \in 0 .. m |->
                       IF n = m THEN Handled(g[m - 1], cmds[m].cmd).engine ELSE g[n]]
    <3>3. ASSUME NEW n \in 0 .. m
          PROVE  h[n] = IF n = 0 THEN eng ELSE Handled(h[n - 1], cmds[n].cmd).engine
      <4>1. CASE n = 0
        <5>1. 0 \in 0 .. m - 1 /\ 0 \in 0 .. m
          BY <2>2, <3>1
        <5>2. h[0] = g[0]
          BY <2>4, <5>1
        <5>3. g[0] = eng
          BY <3>2, <5>1
        <5>4. QED
          BY <4>1, <5>2, <5>3
      <4>2. CASE n # 0 /\ n # m
        <5>1. n \in 0 .. m - 1 /\ n - 1 \in 0 .. m - 1 /\ n - 1 \in 0 .. m /\ n - 1 # m
          BY <2>2, <4>2
        <5>2. h[n] = g[n] /\ h[n - 1] = g[n - 1]
          BY <4>2, <5>1
        <5>3. g[n] = Handled(g[n - 1], cmds[n].cmd).engine
          BY <3>2, <4>2, <5>1
        <5>4. QED
          BY <4>2, <5>2, <5>3
      <4>3. CASE n = m
        <5>1. m - 1 \in 0 .. m /\ m - 1 # m
          BY <2>2, <2>4
        <5>2. h[m - 1] = g[m - 1]
          BY <5>1
        <5>3. QED
          BY <2>4, <4>3, <5>2
      <4>4. QED
        BY <4>1, <4>2, <4>3
    <3>4. Is(h, m)
      BY <3>3
    <3>5. QED
      BY <2>1, <3>4
  <2>5. QED
    BY <2>3, <2>4
<1>2. \E h : Is(h, L)
  BY <1>1
<1>3. QED
  BY <1>2 DEF Handling

\* The engine after each of the commands.
Handles(h, eng, cmds) ==
  /\ h[0] = eng /\ AfterHandling(eng, cmds) = h[Len(cmds)].tracks
  /\ \A n \in 1 .. Len(cmds) : h[n] = Handled(h[n - 1], cmds[n].cmd).engine

LEMMA HandlingIs ==
  ASSUME NEW eng, NEW cmds, Len(cmds) \in Nat
  PROVE  \E h : Handles(h, eng, cmds)
<1> DEFINE L == Len(cmds)
           Is(h) == h = [n \in 0 .. L |->
                           IF n = 0 THEN eng ELSE Handled(h[n - 1], cmds[n].cmd).engine]
           g == CHOOSE h : Is(h)
<1>1. \E h : Is(h)
  <2>1. \E h : Handling(h, L, eng, cmds)
    BY HandlingExists
  <2>2. QED
    BY <2>1 DEF Handling
<1>2. Is(g)
  BY <1>1
<1>3. AfterHandling(eng, cmds) = g[L].tracks
  BY DEF AfterHandling
<1> HIDE DEF g
<1>4. g[0] = eng
  <2>1. 0 \in 0 .. L
    OBVIOUS
  <2>2. QED
    BY <1>2, <2>1
<1>5. ASSUME NEW n \in 1 .. L
      PROVE  g[n] = Handled(g[n - 1], cmds[n].cmd).engine
  <2>1. n \in 0 .. L /\ n # 0
    OBVIOUS
  <2>2. QED
    BY <1>2, <2>1
<1>6. Handles(g, eng, cmds)
  BY <1>3, <1>4, <1>5 DEF Handles
<1>7. QED
  BY <1>6

\* The commands of messages.
Sent(msgs) == [i \in DOMAIN msgs |-> msgs[i].cmd]

LEMMA SentFacts ==
  ASSUME NEW S, NEW msgs \in Seq(S)
  PROVE  /\ Len(Sent(msgs)) = Len(msgs)
         /\ \A i \in 1 .. Len(msgs) : Sent(msgs)[i] = msgs[i].cmd
BY LenProperties DEF Sent

LEMMA LeadsHandled ==
  ASSUME NEW eng, IsEngine(eng), NEW S, NEW msgs \in Seq(S), NEW d,
         Leads(Core(eng), Sent(msgs), d)
  PROVE  AfterHandling(eng, msgs) = d.tracks
<1> DEFINE L == Len(msgs)
<1>1. /\ L \in Nat /\ Len(Sent(msgs)) = L
      /\ \A n \in 1 .. L : Sent(msgs)[n] = msgs[n].cmd
  BY SentFacts, LenProperties
<1>2. PICK g : g[0] = Core(eng) /\ g[L] = d /\ Runs(g, Sent(msgs))
  BY <1>1 DEF Leads
<1>3. PICK h : /\ h[0] = eng /\ AfterHandling(eng, msgs) = h[L].tracks
               /\ \A n \in 1 .. L : h[n] = Handled(h[n - 1], msgs[n].cmd).engine
  <2>1. PICK h : Handles(h, eng, msgs)
    BY <1>1, HandlingIs
  <2>2. QED
    BY <2>1 DEF Handles
<1> DEFINE T == {n \in 0 .. L : ~(IsEngine(h[n]) /\ Core(h[n]) = g[n])}
<1>4. T = {}
  <2> SUFFICES ASSUME T # {}
               PROVE  FALSE
    OBVIOUS
  <2>1. T \subseteq Nat
    BY <1>1
  <2>2. PICK m \in T : \A j \in T : m <= j
    BY <2>1, SmallestExists
  <2>3. m \in 0 .. L /\ ~(IsEngine(h[m]) /\ Core(h[m]) = g[m])
    OBVIOUS
  <2>4. m # 0
    BY <1>2, <1>3, <2>3
  <2>5. m \in 1 .. L /\ m - 1 \in 0 .. L /\ m - 1 \notin T
    BY <1>1, <2>2, <2>3, <2>4
  <2>6. IsEngine(h[m - 1]) /\ Core(h[m - 1]) = g[m - 1]
    BY <2>5
  <2>7. Takes(g[m - 1], msgs[m].cmd, g[m]) /\ IsCore(g[m])
    BY <1>1, <1>2, <2>3, <2>5 DEF Runs
  <2>8. h[m] = Handled(h[m - 1], msgs[m].cmd).engine
    BY <1>3, <2>5
  <2>9. IsEngine(h[m]) /\ Core(h[m]) = g[m]
    BY <2>6, <2>7, <2>8, TakesHandled
  <2>10. QED
    BY <2>3, <2>9
<1>5. L \in 0 .. L /\ L \notin T
  BY <1>1, <1>4
<1>6. Core(h[L]) = d
  BY <1>2, <1>5
<1>7. h[L].tracks = d.tracks
  BY <1>6 DEF Core
<1>8. QED
  BY <1>3, <1>7

-----------------------------------------------------------------------------
(* The journal without what was refused. *)

Keeping(h, L) ==
  h = [n \in 0 .. L |->
         IF n = 0 THEN <<>>
         ELSE IF journal[n] \in RefusedCommands THEN h[n - 1] ELSE Append(h[n - 1], journal[n])]

LEMMA KeepingExists ==
  ASSUME NEW L \in Nat
  PROVE  \E h : Keeping(h, L)
<1> DEFINE Step(s, n) == IF journal[n] \in RefusedCommands THEN s ELSE Append(s, journal[n])
           Is(h, m) == h = [n \in 0 .. m |-> IF n = 0 THEN <<>> ELSE Step(h[n - 1], n)]
           T == {m \in Nat : ~\E h : Is(h, m)}
<1> HIDE DEF Step
<1>1. T = {}
  <2> SUFFICES ASSUME T # {}
               PROVE  FALSE
    OBVIOUS
  <2>1. PICK m \in T : \A j \in T : m <= j
    BY SmallestExists
  <2>2. m \in Nat
    OBVIOUS
  <2>3. CASE m = 0
    <3> DEFINE h == [n \in 0 .. 0 |-> <<>>]
    <3>1. Is(h, 0)
      OBVIOUS
    <3>2. QED
      BY <2>1, <2>3, <3>1
  <2>4. CASE m # 0
    <3>1. m - 1 \in Nat /\ m - 1 \notin T
      <4>1. m - 1 \in Nat /\ ~(m <= m - 1)
        BY <2>2, <2>4
      <4>2. QED
        BY <2>1, <4>1
    <3>2. PICK g : Is(g, m - 1)
      BY <3>1
    <3> DEFINE h == [n \in 0 .. m |-> IF n = m THEN Step(g[m - 1], m) ELSE g[n]]
    <3>3. ASSUME NEW n \in 0 .. m
          PROVE  h[n] = IF n = 0 THEN <<>> ELSE Step(h[n - 1], n)
      <4>1. CASE n = 0
        <5>1. 0 \in 0 .. m - 1 /\ 0 \in 0 .. m
          BY <2>2, <3>1
        <5>2. h[0] = g[0]
          BY <2>4, <5>1
        <5>3. g[0] = <<>>
          BY <3>2, <5>1
        <5>4. QED
          BY <4>1, <5>2, <5>3
      <4>2. CASE n # 0 /\ n # m
        <5>1. n \in 0 .. m - 1 /\ n - 1 \in 0 .. m - 1 /\ n - 1 \in 0 .. m /\ n - 1 # m
          BY <2>2, <4>2
        <5>2. h[n] = g[n] /\ h[n - 1] = g[n - 1]
          BY <4>2, <5>1
        <5>3. g[n] = Step(g[n - 1], n)
          BY <3>2, <4>2, <5>1
        <5>4. QED
          BY <4>2, <5>2, <5>3
      <4>3. CASE n = m
        <5>1. m - 1 \in 0 .. m /\ m - 1 # m
          BY <2>2, <2>4
        <5>2. h[m - 1] = g[m - 1]
          BY <5>1
        <5>3. QED
          BY <2>4, <4>3, <5>2
      <4>4. QED
        BY <4>1, <4>2, <4>3
    <3>4. Is(h, m)
      BY <3>3
    <3>5. QED
      BY <2>1, <3>4
  <2>5. QED
    BY <2>3, <2>4
<1>2. \E h : Is(h, L)
  BY <1>1
<1>3. QED
  BY <1>2 DEF Keeping, Step

LEMMA SameSequence ==
  ASSUME NEW S, NEW s \in Seq(S), NEW t \in Seq(S), Len(s) = Len(t),
         \A i \in 1 .. Len(s) : s[i] = t[i]
  PROVE  s = t
BY SeqEqual

LEMMA RetainedFacts ==
  ASSUME journal \in Seq(Commands)
  PROVE  /\ Retained \in Seq(Commands) /\ Len(Retained) <= Len(journal)
         /\ RefusedCommands = {} => Retained = journal
<1> DEFINE L == Len(journal)
           g == CHOOSE h : Keeping(h, L)
<1>1. L \in Nat
  BY LenProperties
<1>2. Keeping(g, L)
  BY <1>1, KeepingExists
<1>3. Retained = g[L]
  BY DEF Retained, Keeping
<1> HIDE DEF g
<1>4. g[0] = <<>>
  <2>1. 0 \in 0 .. L
    BY <1>1
  <2>2. QED
    BY <1>2, <2>1 DEF Keeping
<1>5. ASSUME NEW n \in 1 .. L
      PROVE  g[n] = IF journal[n] \in RefusedCommands THEN g[n - 1]
                    ELSE Append(g[n - 1], journal[n])
  <2>1. n \in 0 .. L /\ n # 0
    BY <1>1
  <2>2. QED
    BY <1>2, <2>1 DEF Keeping
<1> DEFINE Fits(n) == /\ g[n] \in Seq(Commands) /\ Len(g[n]) <= n
                      /\ RefusedCommands = {} =>
                           Len(g[n]) = n /\ \A i \in 1 .. n : g[n][i] = journal[i]
           T == {n \in 0 .. L : ~Fits(n)}
<1>6. Fits(0)
  <2>1. <<>> \in Seq(Commands) /\ Len(<<>>) = 0
    BY EmptySeq
  <2>2. QED
    BY <1>4, <2>1
<1>7. ASSUME NEW n \in 1 .. L, Fits(n - 1)
      PROVE  Fits(n)
  <2> DEFINE s == g[n - 1]
  <2>1. s \in Seq(Commands) /\ journal[n] \in Commands /\ Len(s) \in Nat /\ Len(s) <= n - 1
        /\ n \in Nat
    BY <1>1, <1>7, Indices
  <2>2. CASE journal[n] \in RefusedCommands
    <3>1. g[n] = s /\ RefusedCommands # {}
      BY <1>5, <2>2
    <3>2. QED
      BY <2>1, <3>1
  <2>3. CASE journal[n] \notin RefusedCommands
    <3>1. g[n] = Append(s, journal[n])
      BY <1>5, <2>3
    <3>2. /\ Append(s, journal[n]) \in Seq(Commands) /\ Len(Append(s, journal[n])) = Len(s) + 1
          /\ \A i \in 1 .. Len(s) : Append(s, journal[n])[i] = s[i]
          /\ Append(s, journal[n])[Len(s) + 1] = journal[n]
      BY <2>1, Appended
    <3>3. g[n] \in Seq(Commands) /\ Len(g[n]) <= n
      BY <2>1, <3>1, <3>2
    <3>4. ASSUME RefusedCommands = {}
          PROVE  Len(g[n]) = n /\ \A i \in 1 .. n : g[n][i] = journal[i]
      <4>1. Len(s) = n - 1 /\ \A i \in 1 .. n - 1 : s[i] = journal[i]
        BY <1>7, <3>4
      <4> HIDE DEF s
      <4>2. Len(g[n]) = n
        BY <2>1, <3>1, <3>2, <4>1
      <4>3. ASSUME NEW i \in 1 .. n
            PROVE  g[n][i] = journal[i]
        <5>1. CASE i = n
          BY <2>1, <3>1, <3>2, <4>1, <5>1
        <5>2. CASE i # n
          <6>1. i \in 1 .. n - 1
            BY <2>1, <5>2
          <6>2. QED
            BY <3>1, <3>2, <4>1, <6>1
        <5>3. QED
          BY <5>1, <5>2
      <4>4. QED
        BY <4>2, <4>3
    <3>5. QED
      BY <3>3, <3>4
  <2>4. QED
    BY <2>2, <2>3
<1> HIDE DEF Fits
<1>8. T = {}
  <2> SUFFICES ASSUME T # {}
               PROVE  FALSE
    OBVIOUS
  <2>1. T \subseteq Nat
    BY <1>1
  <2>2. PICK m \in T : \A j \in T : m <= j
    BY <2>1, SmallestExists
  <2>3. m \in 0 .. L /\ ~Fits(m) /\ m # 0
    BY <1>6
  <2>4. m \in 1 .. L /\ m - 1 \in 0 .. L /\ m - 1 \notin T
    BY <1>1, <2>2, <2>3
  <2>5. QED
    BY <1>7, <2>3, <2>4
<1>9. Fits(L)
  <2>1. L \in 0 .. L
    BY <1>1
  <2>2. QED
    BY <1>8, <2>1
<1>10. Retained \in Seq(Commands) /\ Len(Retained) <= L
  BY <1>3, <1>9 DEF Fits
<1>11. RefusedCommands = {} => Retained = journal
  BY <1>3, <1>9, SameSequence DEF Fits
<1>12. QED
  BY <1>10, <1>11

-----------------------------------------------------------------------------
(* The invariant. *)

Entries == [cmd : Commands, replay : BOOLEAN]
Requests == [seq : Nat, cmd : Commands]
Answers == [seq : Nat, kind : Kinds]
Heard == [kind : Kinds, cmd : Commands]
Links == {Fresh, Detached, Failed}
           \union [connection : {"attached"}, protocol : {"initializing", "negotiated"},
                   replay : {"replaying", "complete"}, engine : {"unknown", "observed"}]

JournalType == journal \in Seq(Commands) /\ Len(journal) <= Capacity
LinkType == generation \in 0 .. MaxAttaches /\ link \in Links
QueueType ==
  /\ next \in Nat /\ expected \in Nat
  /\ pending \in Seq(Entries) /\ Len(pending) <= Capacity
  /\ inbound \in Seq(Heard) /\ Len(inbound) <= Capacity
  /\ toHost \in Seq(Requests) /\ fromHost \in Seq(Answers)
DriverType ==
  /\ driver \in {"stopped", "requesting", "starting", "running", "suspended", "denied", "failed"}
  /\ graph \in {"none", "context", "built"} /\ start \in {"none", "permission", "loading"}
  /\ clock \in BOOLEAN
CallerType ==
  /\ client \in [next : Nat, known : SUBSET Ids] /\ client.next >= 1 /\ client.next <= calls + 1
  /\ AreTracks(wanted)
  /\ failed \subseteq {"call", "command"} /\ calls \in 0 .. MaxCalls

LEMMA TypeParts ==
  TypeOK <=> /\ JournalType /\ LinkType /\ QueueType /\ DriverType /\ CallerType
             /\ IsEngine(engine)
BY Zenon DEF TypeOK, JournalType, LinkType, QueueType, DriverType, CallerType, IsEngine,
   Entries, Requests, Answers, Heard, Links

LEMMA TypePartsNext ==
  ASSUME JournalType', LinkType', QueueType', DriverType', CallerType', IsEngine(engine')
  PROVE  TypeOK'
BY Zenon DEF TypeOK, JournalType, LinkType, QueueType, DriverType, CallerType, IsEngine,
   Entries, Requests, Answers, Heard, Links

(* The engine as the application's calls have it. *)
Made == [ids |-> client.next, tracks |-> wanted]

(* A track's creation comes before what else is said of it, and a track that was *)
(* removed is not known.                                                         *)
JournalOrdered ==
  /\ \A i \in 1 .. Len(journal) :
       /\ journal[i].op \in {"create", "remove"} \union Settings
       /\ journal[i].id < client.next
       /\ journal[i].op = "remove" => journal[i].id \notin client.known
  /\ \A i, j \in 1 .. Len(journal) :
       i < j /\ journal[j].op = "create" => journal[i].id # journal[j].id

NoError(answers) == \A i \in 1 .. Len(answers) : answers[i].kind # "error"

(* The engine takes the next command of the port, each in its turn. *)
Numbered == /\ next = engine.next + Len(toHost)
            /\ \A i \in 1 .. Len(toHost) : toHost[i].seq = engine.next + i - 1

(* The journal replays to what the calls made, and so does the engine with what *)
(* the port still holds.                                                        *)
Follows ==
  /\ client.known = DOMAIN wanted
  /\ \A id \in client.known : id < client.next
  /\ Leads(Core(FreshEngine), journal, Made) /\ JournalOrdered
  /\ NoError(fromHost) /\ NoError(inbound)
  /\ Attached => Numbered /\ Leads(Core(engine), Sent(toHost), Made)

(* A port that is closed holds nothing. *)
Idle == ~Attached => toHost = <<>> /\ fromHost = <<>> /\ pending = <<>>

StartCounted == start # "none" => generation < MaxAttaches

IInv == TypeOK /\ Idle /\ StartCounted /\ (OneSettingPerField /\ failed = {} => Follows)

LEMMA LinkFacts ==
  /\ {Fresh, Detached, Failed} \subseteq Links
  /\ Fresh.connection = "attached" /\ Detached.connection = "detached"
  /\ Failed.connection = "failed"
  /\ \A l \in Links : l.connection = "attached" =>
       l \in [connection : {"attached"}, protocol : {"initializing", "negotiated"},
              replay : {"replaying", "complete"}, engine : {"unknown", "observed"}]
BY DEF Links, Fresh, Detached, Failed

\* What a command record is.
LEMMA CommandFacts ==
  ASSUME NEW op \in {"create", "remove", "configure", "poll", "drain"} \union Settings,
         NEW id \in 0 .. MaxCalls, NEW v \in Values,
         op \in {"create", "remove"} \union Settings => id \in Ids
  PROVE  /\ Command(op, id, v) \in Commands
         /\ Command(op, id, v).op = op /\ Command(op, id, v).id = id
         /\ Command(op, id, v).value = v
BY DEF Command, Commands

LEMMA SettingCommand ==
  ASSUME NEW op \in Settings, NEW id \in 0 .. MaxCalls, NEW v \in Values, id \in Ids
  PROVE  /\ Command(op, id, v) \in Commands
         /\ Command(op, id, v).op = op /\ Command(op, id, v).id = id
         /\ Command(op, id, v).value = v
BY DEF Command, Commands

LEMMA PlainCommands ==
  /\ {Configure, Poll, Drain} \subseteq Commands
  /\ Configure.op = "configure" /\ Poll.op = "poll" /\ Drain.op = "drain"
<1>1. 0 \in 0 .. MaxCalls /\ Default \in Values
  BY BoundsAssumption, DefaultAssumption
<1>2. \A op \in {"configure", "poll", "drain"} : op \notin {"create", "remove"} \union Settings
  BY SettingFields
<1>3. QED
  BY <1>1, <1>2, CommandFacts DEF Configure, Poll, Drain

IsConcat(u, s, t, S) ==
  /\ u \in Seq(S) /\ Len(u) = Len(s) + Len(t)
  /\ \A i \in 1 .. Len(s) : u[i] = s[i]
  /\ \A i \in 1 .. Len(t) : u[Len(s) + i] = t[i]

LEMMA Concatenated ==
  ASSUME NEW S, NEW s \in Seq(S), NEW t \in Seq(S)
  PROVE  IsConcat(s \o t, s, t, S)
<1>1. Len(s) \in Nat /\ Len(t) \in Nat
  BY LenProperties
<1>2. /\ s \o t \in Seq(S) /\ Len(s \o t) = Len(s) + Len(t)
      /\ \A i \in 1 .. Len(s) + Len(t) :
           (s \o t)[i] = IF i <= Len(s) THEN s[i] ELSE t[i - Len(s)]
  BY ConcatProperties
<1>3. \A i \in 1 .. Len(s) : (s \o t)[i] = s[i]
  BY <1>1, <1>2
<1>4. ASSUME NEW i \in 1 .. Len(t)
      PROVE  (s \o t)[Len(s) + i] = t[i]
  <2>1. /\ Len(s) + i \in 1 .. Len(s) + Len(t) /\ ~(Len(s) + i <= Len(s))
        /\ (Len(s) + i) - Len(s) = i
    BY <1>1
  <2>2. QED
    BY <1>2, <2>1
<1>5. QED
  BY <1>2, <1>3, <1>4 DEF IsConcat

\* What is sent stands behind what was, in the port and among what is in flight.
LEMMA SendFacts ==
  ASSUME QueueType, NEW cmds \in Seq(Commands), Send(cmds)
  PROVE  /\ next' = next + Len(cmds) /\ next' \in Nat
         /\ pending' \in Seq(Entries) /\ Len(pending') = Len(pending) + Len(cmds)
         /\ toHost' \in Seq(Requests) /\ Len(toHost') = Len(toHost) + Len(cmds)
         /\ \A i \in 1 .. Len(toHost) : toHost'[i] = toHost[i]
         /\ \A i \in 1 .. Len(cmds) : /\ toHost'[Len(toHost) + i].cmd = cmds[i]
                                      /\ toHost'[Len(toHost) + i].seq = next + i - 1
<1> DEFINE L == Len(cmds)
           requests == [i \in DOMAIN cmds |-> [seq |-> next + i - 1, cmd |-> cmds[i]]]
           entries == [i \in DOMAIN cmds |-> [cmd |-> cmds[i], replay |-> FALSE]]
<1>1. L \in Nat /\ DOMAIN cmds = 1 .. L /\ \A i \in 1 .. L : cmds[i] \in Commands /\ i \in Nat
  BY Indices
<1>2. next \in Nat
  BY DEF QueueType
<1>3. \A i \in 1 .. L : next + i - 1 \in Nat
  BY <1>1, <1>2
<1>4. \A i \in 1 .. L : [seq |-> next + i - 1, cmd |-> cmds[i]] \in Requests
  BY <1>1, <1>3 DEF Requests
<1>5. \A i \in 1 .. L : [cmd |-> cmds[i], replay |-> FALSE] \in Entries
  BY <1>1 DEF Entries
<1>6. /\ requests \in Seq(Requests) /\ Len(requests) = L
      /\ \A i \in 1 .. L : requests[i].cmd = cmds[i] /\ requests[i].seq = next + i - 1
  BY <1>1, <1>4
<1>7. entries \in Seq(Entries) /\ Len(entries) = L
  BY <1>1, <1>5
<1>8. toHost' = toHost \o requests /\ pending' = pending \o entries /\ next' = next + L
  BY DEF Send
<1> HIDE DEF requests, entries
<1>9. toHost \in Seq(Requests) /\ pending \in Seq(Entries)
  BY DEF QueueType
<1>10. pending' \in Seq(Entries) /\ Len(pending') = Len(pending) + L
  <2>1. IsConcat(pending \o entries, pending, entries, Entries)
    BY <1>7, <1>9, Concatenated
  <2>2. QED
    BY <1>7, <1>8, <2>1 DEF IsConcat
<1>11. /\ toHost' \in Seq(Requests) /\ Len(toHost') = Len(toHost) + L
       /\ \A i \in 1 .. Len(toHost) : toHost'[i] = toHost[i]
       /\ \A i \in 1 .. L : toHost'[Len(toHost) + i] = requests[i]
  <2>1. IsConcat(toHost \o requests, toHost, requests, Requests)
    BY <1>6, <1>9, Concatenated
  <2>2. IsConcat(toHost', toHost, requests, Requests)
    BY <1>8, <2>1
  <2>3. QED
    BY <1>6, <2>2 DEF IsConcat
<1>12. QED
  BY <1>1, <1>2, <1>6, <1>8, <1>10, <1>11

\* The invariant's last part, for one command more in the port.
LEMMA SentOne ==
  ASSUME QueueType, IsEngine(engine), engine' = engine, NEW cmd \in Commands, Send(<<cmd>>),
         NEW c, NEW d, Numbered, Leads(Core(engine), Sent(toHost), c), IsCore(d), Takes(c, cmd, d)
  PROVE  Numbered' /\ Leads(Core(engine'), Sent(toHost'), d)
<1> DEFINE L == Len(toHost)
<1>1. <<cmd>> \in Seq(Commands) /\ Len(<<cmd>>) = 1 /\ <<cmd>>[1] = cmd
  OBVIOUS
<1>2. /\ next' = next + 1
      /\ toHost' \in Seq(Requests) /\ Len(toHost') = L + 1
      /\ \A i \in 1 .. L : toHost'[i] = toHost[i]
      /\ toHost'[L + 1].cmd = cmd /\ toHost'[L + 1].seq = next
  <2>1. /\ next' = next + Len(<<cmd>>)
        /\ toHost' \in Seq(Requests) /\ Len(toHost') = L + Len(<<cmd>>)
        /\ \A i \in 1 .. L : toHost'[i] = toHost[i]
        /\ \A i \in 1 .. Len(<<cmd>>) : /\ toHost'[L + i].cmd = <<cmd>>[i]
                                        /\ toHost'[L + i].seq = next + i - 1
    BY <1>1, SendFacts
  <2>2. next \in Nat /\ next + 1 - 1 = next
    BY DEF QueueType
  <2>3. 1 \in 1 .. Len(<<cmd>>)
    BY <1>1
  <2>4. toHost'[L + 1].cmd = <<cmd>>[1] /\ toHost'[L + 1].seq = next + 1 - 1
    BY <2>1, <2>3
  <2>5. QED
    BY <1>1, <2>1, <2>2, <2>4
<1>3. toHost \in Seq(Requests) /\ L \in Nat /\ next \in Nat /\ engine.next \in Nat
  BY LenProperties DEF QueueType, IsEngine
<1>4. Numbered'
  <2>1. next' = engine.next + (L + 1)
    BY <1>2, <1>3 DEF Numbered
  <2>2. ASSUME NEW i \in 1 .. L + 1
        PROVE  toHost'[i].seq = engine.next + i - 1
    <3>1. CASE i <= L
      <4>1. i \in 1 .. L
        BY <1>3, <3>1
      <4>2. QED
        BY <1>2, <4>1 DEF Numbered
    <3>2. CASE i = L + 1
      <4>1. next = engine.next + i - 1
        BY <1>3, <3>2 DEF Numbered
      <4>2. QED
        BY <1>2, <3>2, <4>1
    <3>3. QED
      BY <1>3, <3>1, <3>2
  <2>3. QED
    BY <1>2, <2>1, <2>2 DEF Numbered
<1>5. /\ Len(Sent(toHost)) = L /\ Len(Sent(toHost')) = L + 1
      /\ \A i \in 1 .. L : Sent(toHost)[i] = toHost[i].cmd
      /\ \A i \in 1 .. L + 1 : Sent(toHost')[i] = toHost'[i].cmd
  BY <1>2, <1>3, SentFacts
<1>6. \A i \in 1 .. L : Sent(toHost')[i] = Sent(toHost)[i]
  BY <1>2, <1>3, <1>5
<1>7. Sent(toHost')[L + 1] = cmd
  BY <1>2, <1>3, <1>5
<1>8. Leads(Core(engine), Sent(toHost'), d)
  BY <1>3, <1>5, <1>6, <1>7, LeadsAppend
<1>9. QED
  BY <1>4, <1>8

-----------------------------------------------------------------------------
(* Calls of the application. *)

LEMMA Replaced ==
  ASSUME NEW S, NEW s \in Seq(S), NEW i \in 1 .. Len(s), NEW x \in S
  PROVE  /\ [s EXCEPT ![i] = x] \in Seq(S) /\ Len([s EXCEPT ![i] = x]) = Len(s)
         /\ [s EXCEPT ![i] = x][i] = x
         /\ \A j \in 1 .. Len(s) : j # i => [s EXCEPT ![i] = x][j] = s[j]
BY ExceptSeq, LenProperties

LEMMA NewestFacts ==
  ASSUME journal \in Seq(Commands), NEW cmd, Superseded(cmd) # {}
  PROVE  /\ Newest(Superseded(cmd)) \in 1 .. Len(journal)
         /\ Supersedes(cmd, journal[Newest(Superseded(cmd))])
         /\ \A j \in Newest(Superseded(cmd)) + 1 .. Len(journal) : ~Supersedes(cmd, journal[j])
<1> DEFINE T == Superseded(cmd)
           i == Newest(T)
<1>1. /\ Len(journal) \in Nat /\ T \subseteq 1 .. Len(journal)
      /\ \A j \in T : Supersedes(cmd, journal[j])
      /\ \A j \in 1 .. Len(journal) : Supersedes(cmd, journal[j]) => j \in T
  BY Indices DEF Superseded
<1> HIDE DEF T
<1>2. \E k \in T : \A j \in T : j <= k
  BY <1>1, LargestExists DEF T
<1>3. i \in T /\ \A j \in T : j <= i
  BY <1>2 DEF Newest
<1> HIDE DEF i
<1>4. ASSUME NEW j \in i + 1 .. Len(journal)
      PROVE  ~Supersedes(cmd, journal[j])
  <2>1. i \in 1 .. Len(journal) /\ i \in Nat
    BY <1>1, <1>3
  <2>2. j \in 1 .. Len(journal) /\ ~(j <= i)
    BY <1>1, <2>1
  <2>3. QED
    BY <1>1, <1>3, <2>2
<1>5. i \in 1 .. Len(journal) /\ Supersedes(cmd, journal[i])
  BY <1>1, <1>3
<1>6. QED
  BY <1>4, <1>5 DEF i, T

\* The journal with the command, which has room for it.
LEMMA JournalledType ==
  ASSUME JournalType, NEW cmd \in Commands, Superseded(cmd) # {} \/ Len(journal) < Capacity
  PROVE  Journalled(cmd) \in Seq(Commands) /\ Len(Journalled(cmd)) <= Capacity
<1>1. journal \in Seq(Commands) /\ Len(journal) <= Capacity /\ Len(journal) \in Nat
  BY LenProperties DEF JournalType
<1>2. CASE Superseded(cmd) # {}
  <2>1. Newest(Superseded(cmd)) \in 1 .. Len(journal)
    BY <1>1, <1>2, NewestFacts
  <2>2. Journalled(cmd) = [journal EXCEPT ![Newest(Superseded(cmd))] = cmd]
    BY <1>2 DEF Journalled
  <2>3. QED
    BY <1>1, <2>1, <2>2, Replaced
<1>3. CASE Superseded(cmd) = {}
  <2>1. Journalled(cmd) = Append(journal, cmd)
    BY <1>3 DEF Journalled
  <2>2. Append(journal, cmd) \in Seq(Commands) /\ Len(Append(journal, cmd)) = Len(journal) + 1
    BY <1>1, Appended
  <2>3. Capacity \in Nat
    BY CapacityAssumption
  <2>4. QED
    BY <1>1, <1>3, <2>1, <2>2, <2>3
<1>4. QED
  BY <1>2, <1>3

LEMMA SubmitTypes ==
  ASSUME TypeOK, Idle, NEW cmd \in Commands, NEW ok \in BOOLEAN, Submit(cmd, ok)
  PROVE  JournalType' /\ LinkType' /\ QueueType' /\ Idle'
<1>1. JournalType /\ LinkType /\ QueueType
  BY TypeParts
<1>2. JournalType'
  <2>1. CASE Superseded(cmd) # {} \/ Len(journal) < Capacity
    <3>1. journal' = Journalled(cmd)
      BY <2>1 DEF Submit
    <3>2. QED
      BY <1>1, <2>1, <3>1, JournalledType DEF JournalType
  <2>2. CASE ~(Superseded(cmd) # {} \/ Len(journal) < Capacity)
    <3>1. journal' = journal
      BY <2>2 DEF Submit
    <3>2. QED
      BY <1>1, <3>1 DEF JournalType
  <2>3. QED
    BY <2>1, <2>2
<1>3. LinkType'
  BY <1>1 DEF Submit, LinkType
<1>4. CASE ok /\ Attached
  <2>1. Send(<<cmd>>) /\ ~Full
    BY <1>4 DEF Submit
  <2>2. <<cmd>> \in Seq(Commands) /\ Len(<<cmd>>) = 1
    OBVIOUS
  <2>3. /\ next' = next + 1 /\ next' \in Nat
        /\ pending' \in Seq(Entries) /\ Len(pending') = Len(pending) + 1
        /\ toHost' \in Seq(Requests)
    BY <1>1, <2>1, <2>2, SendFacts
  <2>4. Len(pending') <= Capacity
    <3>1. pending \in Seq(Entries) /\ Capacity \in Nat
      BY <1>1, CapacityAssumption DEF QueueType
    <3>2. Len(pending) \in Nat /\ ~(Len(pending) >= Capacity)
      BY <2>1, <3>1, LenProperties DEF Full
    <3>3. QED
      BY <2>3, <3>1, <3>2
  <2>5. QueueType'
    BY <1>1, <2>3, <2>4 DEF Submit, QueueType
  <2>6. Idle'
    BY <1>4 DEF Submit, Idle, Attached
  <2>7. QED
    BY <1>2, <1>3, <2>5, <2>6
<1>5. CASE ~(ok /\ Attached)
  <2>1. UNCHANGED <<toHost, pending, next, generation, link, expected, inbound, fromHost>>
    BY <1>5 DEF Submit
  <2>2. QueueType'
    BY <1>1, <2>1 DEF QueueType
  <2>3. Idle'
    BY <2>1 DEF Idle, Attached
  <2>4. QED
    BY <1>2, <1>3, <2>2, <2>3
<1>6. QED
  BY <1>4, <1>5

LEMMA SettingsAreOps == Settings \cap {"create", "remove"} = {}
BY SettingFields

\* A command that is accepted is what the journal leads to next, also when it takes
\* the place of an older one.
LEMMA JournalLeads ==
  ASSUME OneSettingPerField, JournalType, CallerType, Follows, NEW cmd \in Commands,
         Superseded(cmd) # {} \/ Len(journal) < Capacity, journal' = Journalled(cmd),
         NEW d, IsCore(d), Takes(Made, cmd, d), cmd.op \in Settings => cmd.id \in client.known
  PROVE  Leads(Core(FreshEngine), journal', d)
<1> DEFINE L == Len(journal)
<1>1. journal \in Seq(Commands) /\ L \in Nat
  BY LenProperties DEF JournalType
<1>2. Leads(Core(FreshEngine), journal, Made) /\ JournalOrdered
  BY DEF Follows
<1>3. CASE Superseded(cmd) # {}
  <2> DEFINE i == Newest(Superseded(cmd))
  <2>1. /\ i \in 1 .. L /\ Supersedes(cmd, journal[i])
        /\ \A j \in i + 1 .. L : ~Supersedes(cmd, journal[j])
    BY <1>1, <1>3, NewestFacts
  <2>2. journal' = [journal EXCEPT ![i] = cmd]
    BY <1>3 DEF Journalled
  <2> HIDE DEF i
  <2>3. /\ Len(journal') = L /\ journal'[i] = cmd
        /\ \A j \in 1 .. L : j # i => journal'[j] = journal[j]
    BY <1>1, <2>1, <2>2, Replaced
  <2>4. cmd.op \in Settings /\ journal[i].op = cmd.op /\ journal[i].id = cmd.id
    BY <2>1 DEF Supersedes
  <2>5. cmd = Command(cmd.op, cmd.id, cmd.value) /\ cmd.value \in Values
    BY DEF Commands, Command
  <2>6. ASSUME NEW j \in i + 1 .. L
        PROVE  /\ journal[j].op \in {"create", "remove"} => journal[j].id # journal[i].id
               /\ journal[j].op \in Settings =>
                    journal[j].id # journal[i].id \/ Field(journal[j].op) # Field(journal[i].op)
    <3>1. j \in 1 .. L /\ i < j
      BY <1>1, <2>1
    <3>2. ~Supersedes(cmd, journal[j])
      BY <2>1
    <3>3. journal[j].op = "create" => journal[j].id # journal[i].id
      BY <1>2, <2>1, <3>1 DEF JournalOrdered
    <3>4. journal[j].op = "remove" => journal[j].id # journal[i].id
      BY <1>2, <2>4, <3>1 DEF JournalOrdered
    <3>5. ASSUME journal[j].op \in Settings, journal[j].id = journal[i].id
          PROVE  Field(journal[j].op) # Field(journal[i].op)
      <4>1. journal[j].op # cmd.op
        BY <2>4, <3>2, <3>5 DEF Supersedes
      <4>2. Field(journal[j].op) # Field(cmd.op)
        BY <2>4, <3>5, <4>1 DEF OneSettingPerField
      <4>3. QED
        BY <2>4, <4>2
    <3>6. QED
      BY <3>3, <3>4, <3>5
  <2>7. journal'[i] = Command(journal[i].op, journal[i].id, cmd.value) /\ journal[i].op \in Settings
    BY <2>3, <2>4, <2>5
  <2>8. Leads(Core(FreshEngine), journal',
              Setting(Made, journal[i].id, Field(journal[i].op), cmd.value))
    BY <1>1, <1>2, <2>1, <2>3, <2>5, <2>6, <2>7, LeadsReplaced
  <2>9. d = Setting(Made, cmd.id, Field(cmd.op), cmd.value)
    <3>1. Sets(Made, cmd, d)
      BY <2>4, SettingFields DEF Takes, Creates, Removes, Keeps
    <3>2. QED
      BY <3>1 DEF Sets, Setting, IsCore
  <2>10. QED
    BY <2>4, <2>8, <2>9
<1>4. CASE Superseded(cmd) = {}
  <2>1. journal' = Append(journal, cmd)
    BY <1>4 DEF Journalled
  <2>2. /\ Len(Append(journal, cmd)) = L + 1 /\ Append(journal, cmd)[L + 1] = cmd
        /\ \A j \in 1 .. L : Append(journal, cmd)[j] = journal[j]
    BY <1>1, Appended
  <2>3. Len(journal') = L + 1 /\ journal'[L + 1] = cmd /\ \A j \in 1 .. L : journal'[j] = journal[j]
    BY <2>1, <2>2
  <2>4. QED
    BY <1>1, <1>2, <2>3, LeadsAppend
<1>5. QED
  BY <1>3, <1>4

\* So it is of an engine that is attached.
LEMMA SubmitLeads ==
  ASSUME OneSettingPerField, TypeOK, Follows, NEW cmd \in Commands, Submit(cmd, TRUE),
         engine' = engine,
         NEW d, IsCore(d), Takes(Made, cmd, d), cmd.op \in Settings => cmd.id \in client.known
  PROVE  /\ Leads(Core(FreshEngine), journal', d)
         /\ Attached' => Numbered' /\ Leads(Core(engine'), Sent(toHost'), d)
         /\ fromHost' = fromHost /\ inbound' = inbound
<1>1. JournalType /\ QueueType /\ CallerType /\ IsEngine(engine)
  BY TypeParts
<1>2. (Superseded(cmd) # {} \/ Len(journal) < Capacity) /\ journal' = Journalled(cmd)
  BY DEF Submit
<1>3. Leads(Core(FreshEngine), journal', d)
  BY <1>1, <1>2, JournalLeads
<1>4. link' = link /\ fromHost' = fromHost /\ inbound' = inbound
  BY DEF Submit
<1>5. ASSUME Attached'
      PROVE  Numbered' /\ Leads(Core(engine'), Sent(toHost'), d)
  <2>1. Attached
    BY <1>4, <1>5 DEF Attached
  <2>2. Send(<<cmd>>)
    BY <2>1 DEF Submit
  <2>3. Numbered /\ Leads(Core(engine), Sent(toHost), Made)
    BY <2>1 DEF Follows
  <2>4. QED
    BY <1>1, <2>2, <2>3, SentOne
<1>6. QED
  BY <1>3, <1>4, <1>5

LEMMA OrderedAppended ==
  ASSUME JournalType, CallerType, CallerType', JournalOrdered, NEW cmd \in Commands,
         journal' = Append(journal, cmd),
         cmd.op \in {"create", "remove"} \union Settings,
         client.next <= client'.next, cmd.id < client'.next,
         cmd.op = "create" => cmd.id = client.next,
         cmd.op = "remove" => cmd.id \notin client'.known,
         client'.known \subseteq client.known \union {client.next}
  PROVE  JournalOrdered'
<1> DEFINE L == Len(journal)
<1>1. journal \in Seq(Commands) /\ L \in Nat
  BY LenProperties DEF JournalType
<1>2. /\ Len(Append(journal, cmd)) = L + 1 /\ Append(journal, cmd)[L + 1] = cmd
      /\ \A j \in 1 .. L : Append(journal, cmd)[j] = journal[j]
  BY <1>1, Appended
<1>3. Len(journal') = L + 1 /\ journal'[L + 1] = cmd /\ \A j \in 1 .. L : journal'[j] = journal[j]
  BY <1>2
<1>4. client.next \in Nat /\ client'.next \in Nat
  BY DEF CallerType
<1>5. ASSUME NEW j \in 1 .. L
      PROVE  journal[j].id \in Nat
  <2>1. journal[j] \in Commands
    BY <1>1, Indices
  <2>2. QED
    BY <2>1, BoundsAssumption DEF Commands
<1>6. ASSUME NEW j \in 1 .. L + 1
      PROVE  /\ journal'[j].op \in {"create", "remove"} \union Settings
             /\ journal'[j].id < client'.next
             /\ journal'[j].op = "remove" => journal'[j].id \notin client'.known
  <2>1. CASE j = L + 1
    BY <1>3, <2>1
  <2>2. CASE j # L + 1
    <3>1. j \in 1 .. L
      BY <1>1, <2>2
    <3>2. /\ journal'[j] = journal[j] /\ journal[j].id \in Nat
          /\ journal[j].op \in {"create", "remove"} \union Settings
          /\ journal[j].id < client.next
          /\ journal[j].op = "remove" => journal[j].id \notin client.known
      BY <1>3, <1>5, <3>1 DEF JournalOrdered
    <3>3. journal[j].id < client'.next /\ journal[j].id # client.next
      BY <1>4, <3>2
    <3>4. QED
      BY <3>2, <3>3
  <2>3. QED
    BY <2>1, <2>2
<1>7. ASSUME NEW i \in 1 .. L + 1, NEW j \in 1 .. L + 1, i < j, journal'[j].op = "create"
      PROVE  journal'[i].id # journal'[j].id
  <2>1. i \in 1 .. L /\ journal'[i] = journal[i]
    BY <1>1, <1>3, <1>7
  <2>2. CASE j = L + 1
    <3>1. journal'[j].id = client.next
      BY <1>3, <1>7, <2>2
    <3>2. journal[i].id < client.next /\ journal[i].id \in Nat
      BY <1>5, <2>1 DEF JournalOrdered
    <3>3. QED
      BY <1>4, <2>1, <3>1, <3>2
  <2>3. CASE j # L + 1
    <3>1. j \in 1 .. L /\ journal'[j] = journal[j]
      BY <1>1, <1>3, <2>3
    <3>2. QED
      BY <1>7, <2>1, <3>1 DEF JournalOrdered
  <2>4. QED
    BY <2>2, <2>3
<1>8. QED
  BY <1>3, <1>6, <1>7 DEF JournalOrdered

LEMMA OrderedSubmitted ==
  ASSUME JournalType, CallerType, client' = client, JournalOrdered, NEW cmd \in Commands,
         cmd.op \in Settings, cmd.id < client.next, CallerType',
         Superseded(cmd) # {} \/ Len(journal) < Capacity, journal' = Journalled(cmd)
  PROVE  JournalOrdered'
<1>1. journal \in Seq(Commands) /\ Len(journal) \in Nat
  BY LenProperties DEF JournalType
<1>2. CASE Superseded(cmd) # {}
  <2> DEFINE i == Newest(Superseded(cmd))
  <2>1. i \in 1 .. Len(journal) /\ Supersedes(cmd, journal[i])
    BY <1>1, <1>2, NewestFacts
  <2>2. journal' = [journal EXCEPT ![i] = cmd]
    BY <1>2 DEF Journalled
  <2> HIDE DEF i
  <2>3. /\ Len(journal') = Len(journal) /\ journal'[i] = cmd
        /\ \A j \in 1 .. Len(journal) : j # i => journal'[j] = journal[j]
    BY <1>1, <2>1, <2>2, Replaced
  <2>4. journal[i].op = cmd.op /\ journal[i].id = cmd.id
    BY <2>1 DEF Supersedes
  <2>5. \A j \in 1 .. Len(journal) :
          journal'[j].op = journal[j].op /\ journal'[j].id = journal[j].id
    BY <2>3, <2>4
  <2>6. QED
    BY <2>3, <2>5 DEF JournalOrdered
<1>3. CASE Superseded(cmd) = {}
  <2>1. journal' = Append(journal, cmd)
    BY <1>3 DEF Journalled
  <2>2. cmd.op # "create" /\ cmd.op # "remove"
    BY SettingFields
  <2>3. client'.next = client.next /\ client'.known = client.known /\ client.next <= client.next
    BY DEF CallerType
  <2>4. QED
    BY <2>1, <2>2, <2>3, OrderedAppended
<1>4. QED
  BY <1>2, <1>3

LEMMA CreateTrackInv ==
  ASSUME IInv, CreateTrack
  PROVE  IInv'
<1>1. /\ TypeOK /\ Idle /\ StartCounted /\ (OneSettingPerField /\ failed = {} => Follows)
      /\ JournalType /\ LinkType /\ QueueType /\ DriverType /\ CallerType /\ IsEngine(engine)
  BY TypeParts DEF IInv
<1>2. PICK ok \in BOOLEAN, valid \in Values :
        LET cmd == Command("create", client.next, valid)
        IN /\ Submit(cmd, ok)
           /\ client' = IF ok THEN [next |-> client.next + 1,
                                    known |-> client.known \union {client.next}]
                              ELSE client
           /\ wanted' = IF ok THEN With(wanted, client.next, NewTrack) ELSE wanted
           /\ failed' = failed \union CallFailure(ok)
                          \union (IF valid = Default THEN {} ELSE {"command"})
  BY DEF CreateTrack
<1> DEFINE cmd == Command("create", client.next, valid)
<1>3. calls < MaxCalls /\ calls' = calls + 1 /\ UNCHANGED <<driver, graph, start, clock, engine>>
  BY DEF CreateTrack
<1>4. calls \in Nat /\ MaxCalls \in Nat /\ client.next \in Ids /\ client.next \in Nat
  BY <1>1, <1>3, BoundsAssumption DEF CallerType, Ids
<1>5. cmd \in Commands /\ cmd.op = "create" /\ cmd.id = client.next /\ cmd.value = valid
  <2>1. client.next \in 0 .. MaxCalls
    BY <1>4 DEF Ids
  <2>2. QED
    BY <1>4, <2>1, CommandFacts
<1>6. Submit(cmd, ok)
  BY <1>2
<1> HIDE DEF cmd
<1>7. JournalType' /\ LinkType' /\ QueueType' /\ Idle'
  BY <1>1, <1>5, <1>6, SubmitTypes
<1>8. CallerType'
  <2>1. AreTracks(With(wanted, client.next, NewTrack))
    BY <1>1, WithFacts DEF CallerType, IsWith
  <2>2. AreTracks(wanted')
    BY <1>1, <1>2, <2>1 DEF CallerType
  <2>3. /\ client' \in [next : Nat, known : SUBSET Ids]
        /\ client'.next >= 1 /\ client'.next <= calls' + 1
    <3>1. CASE ok
      <4>1. client' = [next |-> client.next + 1, known |-> client.known \union {client.next}]
        BY <1>2, <3>1
      <4>2. client.known \union {client.next} \in SUBSET Ids
        BY <1>1, <1>4 DEF CallerType
      <4>3. client.next + 1 \in Nat /\ client.next + 1 >= 1 /\ client.next + 1 <= calls' + 1
        BY <1>1, <1>3, <1>4 DEF CallerType
      <4>4. QED
        BY <4>1, <4>2, <4>3
    <3>2. CASE ~ok
      BY <1>1, <1>2, <1>3, <1>4, <3>2 DEF CallerType
    <3>3. QED
      BY <3>1, <3>2
  <2>4. failed' \subseteq {"call", "command"}
    BY <1>1, <1>2 DEF CallerType, CallFailure
  <2>5. calls' \in 0 .. MaxCalls
    BY <1>3, <1>4
  <2>6. QED
    BY <2>2, <2>3, <2>4, <2>5 DEF CallerType
<1>9. DriverType' /\ IsEngine(engine') /\ StartCounted'
  <2>1. DriverType' /\ IsEngine(engine')
    BY <1>1, <1>3 DEF DriverType
  <2>2. StartCounted'
    BY <1>1, <1>3, <1>6 DEF StartCounted, Submit
  <2>3. QED
    BY <2>1, <2>2
<1>10. ASSUME OneSettingPerField, failed' = {}
       PROVE  Follows'
  <2>1. failed = {} /\ ok /\ valid = Default
    BY <1>2, <1>10 DEF CallFailure
  <2>2. Follows
    BY <1>1, <2>1, <1>10
  <2>3. /\ client' = [next |-> client.next + 1, known |-> client.known \union {client.next}]
        /\ wanted' = With(wanted, client.next, NewTrack)
    BY <1>2, <2>1
  <2>4. client'.next = client.next + 1 /\ client'.known = client.known \union {client.next}
    BY <2>3
  <2>5. IsWith(wanted', wanted, client.next)
    BY <1>1, <2>3, WithFacts DEF CallerType
  <2>6. /\ Made' = [ids |-> client'.next, tracks |-> wanted']
        /\ Made'.ids = client.next + 1 /\ Made'.tracks = wanted'
        /\ Made.ids = client.next /\ Made.tracks = wanted
    BY <2>4 DEF Made
  <2>7. IsCore(Made')
    BY <1>4, <2>5, <2>6 DEF IsCore, IsWith
  <2>8. Takes(Made, cmd, Made')
    BY <1>5, <2>1, <2>3, <2>6 DEF Takes, Creates
  <2>9. Submit(cmd, TRUE)
    BY <1>6, <2>1
  <2>10. cmd.op \notin Settings
    BY <1>5, SettingFields
  <2>11. /\ Leads(Core(FreshEngine), journal', Made')
         /\ Attached' => Numbered' /\ Leads(Core(engine'), Sent(toHost'), Made')
         /\ fromHost' = fromHost /\ inbound' = inbound
    BY <1>1, <1>3, <1>5, <2>2, <2>7, <2>8, <2>9, <2>10, <1>10, SubmitLeads
  <2>12. NoError(fromHost') /\ NoError(inbound')
    BY <2>2, <2>11 DEF Follows
  <2>13. client'.known = DOMAIN wanted' /\ \A id \in client'.known : id < client'.next
    <3>1. client.known = DOMAIN wanted /\ \A id \in client.known : id < client.next /\ id \in Nat
      BY <1>1, <2>2 DEF Follows, CallerType, Ids
    <3>2. QED
      BY <1>4, <2>4, <2>5, <3>1 DEF IsWith
  <2>14. JournalOrdered'
    <3>1. journal' = Append(journal, cmd)
      <4>1. Superseded(cmd) = {}
        BY <2>10 DEF Superseded, Supersedes
      <4>2. QED
        BY <2>9, <4>1 DEF Submit, Journalled
    <3>2. client.next <= client'.next /\ cmd.id < client'.next /\ JournalOrdered
      BY <1>4, <1>5, <2>2, <2>4 DEF Follows
    <3>3. QED
      BY <1>1, <1>5, <1>8, <2>4, <3>1, <3>2, OrderedAppended
  <2>15. QED
    BY <2>11, <2>12, <2>13, <2>14 DEF Follows
<1>11. TypeOK'
  BY <1>7, <1>8, <1>9, TypePartsNext
<1>12. QED
  BY <1>7, <1>9, <1>10, <1>11 DEF IInv

LEMMA RemoveTrackInv ==
  ASSUME IInv, RemoveTrack
  PROVE  IInv'
<1>1. /\ TypeOK /\ Idle /\ StartCounted /\ (OneSettingPerField /\ failed = {} => Follows)
      /\ JournalType /\ LinkType /\ QueueType /\ DriverType /\ CallerType /\ IsEngine(engine)
  BY TypeParts DEF IInv
<1>2. PICK ok \in BOOLEAN, id \in client.known :
        /\ Submit(Command("remove", id, Default), ok)
        /\ client' = IF ok THEN [client EXCEPT !.known = @ \ {id}] ELSE client
        /\ wanted' = IF ok THEN Without(wanted, id) ELSE wanted
        /\ failed' = failed \union CallFailure(ok)
  BY DEF RemoveTrack
<1> DEFINE cmd == Command("remove", id, Default)
<1>3. calls < MaxCalls /\ calls' = calls + 1 /\ UNCHANGED <<driver, graph, start, clock, engine>>
  BY DEF RemoveTrack
<1>4. /\ calls \in Nat /\ MaxCalls \in Nat /\ client.next \in Nat /\ id \in Ids
      /\ id \in 0 .. MaxCalls /\ Default \in Values
  BY <1>1, <1>3, BoundsAssumption, DefaultAssumption DEF CallerType, Ids
<1>5. cmd \in Commands /\ cmd.op = "remove" /\ cmd.id = id
  BY <1>4, CommandFacts
<1>6. Submit(cmd, ok)
  BY <1>2
<1> HIDE DEF cmd
<1>7. JournalType' /\ LinkType' /\ QueueType' /\ Idle'
  BY <1>1, <1>5, <1>6, SubmitTypes
<1>8. /\ client' = [next |-> client'.next, known |-> client'.known]
      /\ client'.next = client.next
      /\ client'.known = IF ok THEN client.known \ {id} ELSE client.known
  <2>1. client = [next |-> client.next, known |-> client.known]
    BY <1>1 DEF CallerType
  <2>2. QED
    BY <1>2, <2>1
<1>9. CallerType'
  <2>1. AreTracks(Without(wanted, id))
    BY <1>1, WithoutFacts DEF CallerType, IsWithout
  <2>2. AreTracks(wanted')
    BY <1>1, <1>2, <2>1 DEF CallerType
  <2>3. client'.known \in SUBSET Ids
    BY <1>1, <1>8 DEF CallerType
  <2>4. client' \in [next : Nat, known : SUBSET Ids]
    BY <1>4, <1>8, <2>3
  <2>5. client'.next >= 1 /\ client'.next <= calls' + 1
    BY <1>1, <1>3, <1>4, <1>8 DEF CallerType
  <2>6. failed' \subseteq {"call", "command"}
    BY <1>1, <1>2 DEF CallerType, CallFailure
  <2>7. calls' \in 0 .. MaxCalls
    BY <1>3, <1>4
  <2>8. QED
    BY <2>2, <2>4, <2>5, <2>6, <2>7 DEF CallerType
<1>10. DriverType' /\ IsEngine(engine') /\ StartCounted'
  <2>1. DriverType' /\ IsEngine(engine')
    BY <1>1, <1>3 DEF DriverType
  <2>2. StartCounted'
    BY <1>1, <1>3, <1>6 DEF StartCounted, Submit
  <2>3. QED
    BY <2>1, <2>2
<1>11. ASSUME OneSettingPerField, failed' = {}
       PROVE  Follows'
  <2>1. failed = {} /\ ok
    BY <1>2, <1>11 DEF CallFailure
  <2>2. Follows
    BY <1>1, <2>1, <1>11
  <2>3. client'.known = client.known \ {id} /\ wanted' = Without(wanted, id)
    BY <1>2, <1>8, <2>1
  <2>4. IsWithout(wanted', wanted, id)
    BY <1>1, <2>3, WithoutFacts DEF CallerType
  <2>5. /\ Made' = [ids |-> client'.next, tracks |-> wanted']
        /\ Made'.ids = client.next /\ Made'.tracks = wanted'
        /\ Made.ids = client.next /\ Made.tracks = wanted
    BY <1>8 DEF Made
  <2>6. IsCore(Made')
    BY <1>4, <2>4, <2>5 DEF IsCore, IsWithout
  <2>7. Takes(Made, cmd, Made')
    BY <1>5, <2>3, <2>5 DEF Takes, Removes
  <2>8. Submit(cmd, TRUE)
    BY <1>6, <2>1
  <2>9. cmd.op \notin Settings
    BY <1>5, SettingFields
  <2>10. /\ Leads(Core(FreshEngine), journal', Made')
         /\ Attached' => Numbered' /\ Leads(Core(engine'), Sent(toHost'), Made')
         /\ fromHost' = fromHost /\ inbound' = inbound
    BY <1>1, <1>3, <1>5, <2>2, <2>6, <2>7, <2>8, <2>9, <1>11, SubmitLeads
  <2>11. NoError(fromHost') /\ NoError(inbound')
    BY <2>2, <2>10 DEF Follows
  <2>12. client'.known = DOMAIN wanted' /\ \A i \in client'.known : i < client'.next
    BY <1>8, <2>2, <2>3, <2>4 DEF Follows, IsWithout
  <2>13. JournalOrdered'
    <3>1. journal' = Append(journal, cmd)
      <4>1. Superseded(cmd) = {}
        BY <2>9 DEF Superseded, Supersedes
      <4>2. QED
        BY <2>8, <4>1 DEF Submit, Journalled
    <3>2. client.next <= client'.next /\ cmd.id < client'.next /\ JournalOrdered
      BY <1>4, <1>5, <1>8, <2>2 DEF Follows
    <3>3. cmd.id \notin client'.known /\ client'.known \subseteq client.known \union {client.next}
      BY <1>5, <2>3
    <3>4. QED
      BY <1>1, <1>5, <1>9, <3>1, <3>2, <3>3, OrderedAppended
  <2>14. QED
    BY <2>10, <2>11, <2>12, <2>13 DEF Follows
<1>12. TypeOK'
  BY <1>7, <1>9, <1>10, TypePartsNext
<1>13. QED
  BY <1>7, <1>10, <1>11, <1>12 DEF IInv

LEMMA SetInv ==
  ASSUME IInv, Set
  PROVE  IInv'
<1>1. /\ TypeOK /\ Idle /\ StartCounted /\ (OneSettingPerField /\ failed = {} => Follows)
      /\ JournalType /\ LinkType /\ QueueType /\ DriverType /\ CallerType /\ IsEngine(engine)
  BY TypeParts DEF IInv
<1>2. PICK ok \in BOOLEAN, op \in Settings, id \in client.known, value \in Values :
        /\ Submit(Command(op, id, value), ok)
        /\ wanted' = IF ok THEN [wanted EXCEPT ![id][Field(op)] = value] ELSE wanted
        /\ failed' = failed \union CallFailure(ok)
  BY DEF Set
<1> DEFINE cmd == Command(op, id, value)
<1>3. /\ calls < MaxCalls /\ calls' = calls + 1
      /\ UNCHANGED <<client, driver, graph, start, clock, engine>>
  BY DEF Set
<1>4. /\ calls \in Nat /\ MaxCalls \in Nat /\ client.next \in Nat /\ id \in Ids
      /\ id \in 0 .. MaxCalls /\ Field(op) \in {"control", "length"}
  BY <1>1, <1>3, BoundsAssumption, SettingFields DEF CallerType, Ids
<1>5. cmd \in Commands /\ cmd.op = op /\ cmd.id = id /\ cmd.value = value
  BY <1>4, SettingCommand
<1>6. Submit(cmd, ok)
  BY <1>2
<1>7. wanted' = IF ok THEN Put(wanted, id, Field(op), value) ELSE wanted
  BY <1>2 DEF Put
<1> HIDE DEF cmd
<1>8. JournalType' /\ LinkType' /\ QueueType' /\ Idle'
  BY <1>1, <1>5, <1>6, SubmitTypes
<1>9. IsPut(Put(wanted, id, Field(op), value), wanted, id, Field(op), value)
  BY <1>1, <1>4, PutFacts DEF CallerType
<1>10. CallerType'
  <2>1. AreTracks(wanted')
    BY <1>1, <1>7, <1>9 DEF CallerType, IsPut
  <2>2. client' = client /\ client.next <= calls' + 1
    BY <1>1, <1>3, <1>4 DEF CallerType
  <2>3. failed' \subseteq {"call", "command"}
    BY <1>1, <1>2 DEF CallerType, CallFailure
  <2>4. calls' \in 0 .. MaxCalls
    BY <1>3, <1>4
  <2>5. QED
    BY <1>1, <2>1, <2>2, <2>3, <2>4 DEF CallerType
<1>11. DriverType' /\ IsEngine(engine') /\ StartCounted'
  <2>1. DriverType' /\ IsEngine(engine')
    BY <1>1, <1>3 DEF DriverType
  <2>2. StartCounted'
    BY <1>1, <1>3, <1>6 DEF StartCounted, Submit
  <2>3. QED
    BY <2>1, <2>2
<1>12. ASSUME OneSettingPerField, failed' = {}
       PROVE  Follows'
  <2>1. failed = {} /\ ok
    BY <1>2, <1>12 DEF CallFailure
  <2>2. Follows /\ client' = client
    BY <1>1, <1>3, <2>1, <1>12
  <2>3. wanted' = Put(wanted, id, Field(op), value)
    BY <1>7, <2>1
  <2>4. AreTracks(wanted') /\ DOMAIN wanted' = DOMAIN wanted
    BY <1>9, <2>3 DEF IsPut
  <2>5. /\ Made' = [ids |-> client.next, tracks |-> wanted']
        /\ Made'.ids = client.next /\ Made'.tracks = wanted'
        /\ Made.ids = client.next /\ Made.tracks = wanted
    BY <2>2 DEF Made
  <2>6. IsCore(Made')
    BY <1>4, <2>4, <2>5 DEF IsCore
  <2>7. Takes(Made, cmd, Made')
    <3>1. id \in DOMAIN wanted
      BY <2>2 DEF Follows
    <3>2. QED
      BY <1>5, <2>3, <2>5, <3>1 DEF Takes, Sets
  <2>8. Submit(cmd, TRUE)
    BY <1>6, <2>1
  <2>9. /\ Leads(Core(FreshEngine), journal', Made')
        /\ Attached' => Numbered' /\ Leads(Core(engine'), Sent(toHost'), Made')
        /\ fromHost' = fromHost /\ inbound' = inbound
    BY <1>1, <1>3, <1>5, <2>2, <2>6, <2>7, <2>8, <1>12, SubmitLeads
  <2>10. NoError(fromHost') /\ NoError(inbound')
    BY <2>2, <2>9 DEF Follows
  <2>11. client'.known = DOMAIN wanted' /\ \A i \in client'.known : i < client'.next
    BY <2>2, <2>4 DEF Follows
  <2>12. JournalOrdered'
    <3>1. /\ Superseded(cmd) # {} \/ Len(journal) < Capacity
          /\ journal' = Journalled(cmd)
      BY <2>8 DEF Submit
    <3>2. cmd.op \in Settings /\ cmd.id < client.next /\ JournalOrdered
      BY <1>5, <2>2 DEF Follows
    <3>3. QED
      BY <1>1, <1>5, <1>10, <2>2, <3>1, <3>2, OrderedSubmitted
  <2>13. QED
    BY <2>9, <2>10, <2>11, <2>12 DEF Follows
<1>13. TypeOK'
  BY <1>8, <1>10, <1>11, TypePartsNext
<1>14. QED
  BY <1>8, <1>11, <1>12, <1>13 DEF IInv

-----------------------------------------------------------------------------
(* The client takes what it received, and asks for a snapshot. *)

\* The two commands of a poll change nothing.
LEMMA PollsLead ==
  ASSUME QueueType, IsEngine(engine), engine' = engine, Send(<<Poll, Drain>>), NEW c,
         Numbered, Leads(Core(engine), Sent(toHost), c)
  PROVE  Numbered' /\ Leads(Core(engine'), Sent(toHost'), c)
<1> DEFINE L == Len(toHost)
<1>1. /\ <<Poll, Drain>> \in Seq(Commands) /\ Len(<<Poll, Drain>>) = 2
      /\ <<Poll, Drain>>[1] = Poll /\ <<Poll, Drain>>[2] = Drain
  BY PlainCommands
<1>2. toHost \in Seq(Requests) /\ L \in Nat /\ next \in Nat /\ engine.next \in Nat
  BY LenProperties DEF QueueType, IsEngine
<1>3. /\ next' = next + 2 /\ toHost' \in Seq(Requests) /\ Len(toHost') = L + 2
      /\ \A i \in 1 .. L : toHost'[i] = toHost[i]
      /\ toHost'[L + 1].cmd = Poll /\ toHost'[L + 1].seq = next
      /\ toHost'[L + 2].cmd = Drain /\ toHost'[L + 2].seq = next + 1
  <2>1. /\ next' = next + Len(<<Poll, Drain>>)
        /\ toHost' \in Seq(Requests) /\ Len(toHost') = L + Len(<<Poll, Drain>>)
        /\ \A i \in 1 .. L : toHost'[i] = toHost[i]
        /\ \A i \in 1 .. Len(<<Poll, Drain>>) : /\ toHost'[L + i].cmd = <<Poll, Drain>>[i]
                                                /\ toHost'[L + i].seq = next + i - 1
    BY <1>1, SendFacts
  <2>2. 1 \in 1 .. Len(<<Poll, Drain>>) /\ 2 \in 1 .. Len(<<Poll, Drain>>)
    BY <1>1
  <2>3. /\ toHost'[L + 1].cmd = <<Poll, Drain>>[1] /\ toHost'[L + 1].seq = next + 1 - 1
        /\ toHost'[L + 2].cmd = <<Poll, Drain>>[2] /\ toHost'[L + 2].seq = next + 2 - 1
    BY <2>1, <2>2
  <2>4. next + 1 - 1 = next /\ next + 2 - 1 = next + 1
    BY <1>2
  <2>5. QED
    BY <1>1, <2>1, <2>3, <2>4
<1>4. Numbered'
  <2>1. next' = engine.next + (L + 2)
    BY <1>2, <1>3 DEF Numbered
  <2>2. ASSUME NEW i \in 1 .. L + 2
        PROVE  toHost'[i].seq = engine.next + i - 1
    <3>1. CASE i <= L
      <4>1. i \in 1 .. L
        BY <1>2, <3>1
      <4>2. QED
        BY <1>3, <4>1 DEF Numbered
    <3>2. CASE i = L + 1
      <4>1. next = engine.next + i - 1
        BY <1>2, <3>2 DEF Numbered
      <4>2. QED
        BY <1>3, <3>2, <4>1
    <3>3. CASE i = L + 2
      <4>1. next = engine.next + L
        BY DEF Numbered
      <4>2. next + 1 = engine.next + i - 1
        BY <1>2, <3>3, <4>1
      <4>3. QED
        BY <1>3, <3>3, <4>2
    <3>4. QED
      BY <1>2, <3>1, <3>2, <3>3
  <2>3. QED
    BY <1>3, <2>1, <2>2 DEF Numbered
<1> DEFINE q == Sent(toHost)
           s == Sent(toHost')
<1>5. /\ Len(q) = L /\ Len(s) = L + 2
      /\ \A i \in 1 .. L : q[i] = toHost[i].cmd
      /\ \A i \in 1 .. L + 2 : s[i] = toHost'[i].cmd
  BY <1>2, <1>3, SentFacts
<1> HIDE DEF q, s
<1> DEFINE r == [i \in 1 .. L + 1 |-> s[i]]
<1>6. /\ Len(r) = L + 1 /\ \A i \in 1 .. L + 1 : r[i] = s[i]
  BY <1>2
<1> HIDE DEF r
<1>7. /\ \A i \in 1 .. L : r[i] = q[i]
      /\ r[L + 1] = Poll /\ s[L + 2] = Drain
  <2>1. L + 1 \in 1 .. L + 1 /\ L + 1 \in 1 .. L + 2 /\ L + 2 \in 1 .. L + 2
    BY <1>2
  <2>2. \A i \in 1 .. L : i \in 1 .. L + 1 /\ i \in 1 .. L + 2
    BY <1>2
  <2>3. \A i \in 1 .. L : r[i] = q[i]
    BY <1>3, <1>5, <1>6, <2>2
  <2>4. r[L + 1] = Poll
    BY <1>3, <1>5, <1>6, <2>1
  <2>5. s[L + 2] = Drain
    BY <1>3, <1>5, <2>1
  <2>6. QED
    BY <2>3, <2>4, <2>5
<1>8. IsCore(c)
  BY <1>2, <1>5, LeadsCore DEF q
<1>9. Takes(c, Poll, c) /\ Takes(c, Drain, c)
  BY PlainCommands DEF Takes, Keeps
<1>10. Leads(Core(engine), r, c)
  BY <1>2, <1>5, <1>6, <1>7, <1>8, <1>9, LeadsAppend DEF q
<1>11. Leads(Core(engine), s, c)
  <2>1. (L + 1) + 1 = L + 2 /\ L + 1 \in Nat
    BY <1>2
  <2>2. Len(s) = Len(r) + 1 /\ Len(r) \in Nat
    BY <1>5, <1>6, <2>1
  <2>3. \A i \in 1 .. Len(r) : s[i] = r[i]
    BY <1>6
  <2>4. Takes(c, s[Len(r) + 1], c)
    BY <1>6, <1>7, <1>9, <2>1
  <2>5. QED
    BY <1>8, <1>10, <2>2, <2>3, <2>4, LeadsAppend
<1>12. QED
  BY <1>4, <1>11 DEF s

LEMMA ClientPollInv ==
  ASSUME IInv, ClientPoll
  PROVE  IInv'
<1>1. /\ TypeOK /\ Idle /\ StartCounted /\ (OneSettingPerField /\ failed = {} => Follows)
      /\ JournalType /\ LinkType /\ QueueType /\ DriverType /\ CallerType /\ IsEngine(engine)
  BY TypeParts DEF IInv
<1>2. /\ inbound' = <<>> /\ journal' = Retained /\ client' = [client EXCEPT !.known = NowKnown]
      /\ UNCHANGED <<generation, link, expected, driver, graph, start, clock, fromHost,
                     engine, wanted, failed, calls>>
  BY DEF ClientPoll, history
<1>3. \/ Pollable /\ Send(<<Poll, Drain>>)
      \/ UNCHANGED <<toHost, pending, next>>
  BY DEF ClientPoll
<1>4. JournalType'
  <2>1. Retained \in Seq(Commands) /\ Len(Retained) <= Len(journal)
    BY <1>1, RetainedFacts DEF JournalType
  <2>2. Len(Retained) \in Nat /\ Len(journal) \in Nat /\ Capacity \in Nat
    BY <1>1, <2>1, LenProperties, CapacityAssumption DEF JournalType
  <2>3. QED
    BY <1>1, <1>2, <2>1, <2>2 DEF JournalType
<1>5. LinkType' /\ DriverType' /\ IsEngine(engine') /\ StartCounted'
  <2>1. LinkType' /\ DriverType' /\ IsEngine(engine')
    BY <1>1, <1>2 DEF LinkType, DriverType
  <2>2. StartCounted'
    BY <1>1, <1>2 DEF StartCounted
  <2>3. QED
    BY <2>1, <2>2
<1>6. QueueType'
  <2>1. inbound' \in Seq(Heard) /\ Len(inbound') <= Capacity
    <3>1. <<>> \in Seq(Heard) /\ Len(<<>>) = 0
      BY EmptySeq
    <3>2. QED
      BY <1>2, <3>1, CapacityAssumption
  <2>2. CASE UNCHANGED <<toHost, pending, next>>
    BY <1>1, <1>2, <2>1, <2>2 DEF QueueType
  <2>3. CASE Pollable /\ Send(<<Poll, Drain>>)
    <3>1. <<Poll, Drain>> \in Seq(Commands) /\ Len(<<Poll, Drain>>) = 2
      BY PlainCommands
    <3>2. /\ next' \in Nat /\ pending' \in Seq(Entries) /\ Len(pending') = Len(pending) + 2
          /\ toHost' \in Seq(Requests)
      BY <1>1, <2>3, <3>1, SendFacts
    <3>3. Len(pending') <= Capacity
      <4>1. Len(pending) \in Nat /\ Len(pending) < Capacity \div 2
        BY <1>1, <2>3, LenProperties DEF Pollable, QueueType
      <4>2. QED
        BY <3>2, <4>1, CapacityAssumption
    <3>4. QED
      BY <1>1, <1>2, <2>1, <3>2, <3>3 DEF QueueType
  <2>4. QED
    BY <1>3, <2>2, <2>3
<1>7. Idle'
  <2>1. CASE Pollable
    BY <1>2, <2>1 DEF Idle, Attached, Pollable
  <2>2. CASE ~Pollable
    BY <1>1, <1>2, <1>3, <2>2 DEF Idle, Attached
  <2>3. QED
    BY <2>1, <2>2
<1>8. inbound \in Seq(Heard) /\ Len(inbound) \in Nat /\ DOMAIN inbound = 1 .. Len(inbound)
  BY <1>1, LenProperties DEF QueueType
<1>9. /\ client' = [next |-> client'.next, known |-> client'.known]
      /\ client'.next = client.next /\ client'.known = NowKnown
  <2>1. client = [next |-> client.next, known |-> client.known]
    BY <1>1 DEF CallerType
  <2>2. QED
    BY <1>2, <2>1
<1>10. CallerType'
  <2>1. NowKnown \subseteq Ids
    <3>1. \A i \in 1 .. Len(inbound) : inbound[i].cmd \in Commands
      <4>1. \A i \in 1 .. Len(inbound) : inbound[i] \in Heard
        BY <1>8, Indices
      <4>2. QED
        BY <4>1 DEF Heard
    <3>2. RefusedCommands \subseteq Commands
      BY <1>8, <3>1 DEF RefusedCommands, Refused
    <3>3. \A cmd \in Commands : cmd.op = "remove" => cmd.id \in Ids
      BY DEF Commands
    <3>4. RefusedIds("remove") \subseteq Ids
      BY <3>2, <3>3 DEF RefusedIds
    <3>5. client.known \subseteq Ids
      BY <1>1 DEF CallerType
    <3>6. QED
      BY <3>4, <3>5 DEF NowKnown
  <2>2. client'.next \in Nat /\ client'.next >= 1 /\ client'.next <= calls' + 1
    BY <1>1, <1>2, <1>9 DEF CallerType
  <2>3. client'.known \in SUBSET Ids
    BY <1>9, <2>1
  <2>4. client' \in [next : Nat, known : SUBSET Ids]
    BY <1>9, <2>2, <2>3
  <2>5. AreTracks(wanted') /\ failed' \subseteq {"call", "command"} /\ calls' \in 0 .. MaxCalls
    BY <1>1, <1>2 DEF CallerType
  <2>6. QED
    BY <2>2, <2>4, <2>5 DEF CallerType
<1>11. ASSUME OneSettingPerField, failed' = {}
       PROVE  Follows'
  <2>1. Follows
    BY <1>1, <1>2, <1>11
  <2>2. Refused = {}
    BY <1>8, <2>1 DEF Follows, NoError, Refused
  <2>3. RefusedCommands = {} /\ \A op : RefusedIds(op) = {}
    BY <2>2 DEF RefusedCommands, RefusedIds
  <2>4. journal' = journal
    BY <1>1, <1>2, <2>3, RetainedFacts DEF JournalType
  <2>5. client'.known = client.known /\ client'.next = client.next
    BY <1>9, <2>3 DEF NowKnown
  <2>6. Made' = Made
    BY <1>2, <2>5 DEF Made
  <2>7. JournalOrdered'
    BY <2>1, <2>4, <2>5 DEF Follows, JournalOrdered
  <2>8. NoError(fromHost') /\ NoError(inbound')
    <3>1. Len(<<>>) = 0
      OBVIOUS
    <3>2. QED
      BY <1>2, <2>1, <3>1 DEF Follows, NoError
  <2>9. client'.known = DOMAIN wanted' /\ \A id \in client'.known : id < client'.next
    BY <1>2, <2>1, <2>5 DEF Follows
  <2>10. Leads(Core(FreshEngine), journal', Made')
    BY <2>1, <2>4, <2>6 DEF Follows
  <2>11. ASSUME Attached'
         PROVE  Numbered' /\ Leads(Core(engine'), Sent(toHost'), Made')
    <3>1. Attached /\ engine' = engine
      BY <1>2, <2>11 DEF Attached
    <3>2. Numbered /\ Leads(Core(engine), Sent(toHost), Made)
      BY <2>1, <3>1 DEF Follows
    <3>3. CASE Send(<<Poll, Drain>>)
      BY <1>1, <2>6, <3>1, <3>2, <3>3, PollsLead
    <3>4. CASE UNCHANGED <<toHost, pending, next>>
      BY <2>6, <3>1, <3>2, <3>4 DEF Numbered
    <3>5. QED
      BY <1>3, <3>3, <3>4
  <2>12. QED
    BY <2>7, <2>8, <2>9, <2>10, <2>11 DEF Follows
<1>12. TypeOK'
  BY <1>4, <1>5, <1>6, <1>10, TypePartsNext
<1>13. QED
  BY <1>5, <1>7, <1>11, <1>12 DEF IInv

-----------------------------------------------------------------------------
(* The port. *)

LEMMA HostServesInv ==
  ASSUME IInv, HostServes
  PROVE  IInv'
<1>1. /\ TypeOK /\ Idle /\ StartCounted /\ (OneSettingPerField /\ failed = {} => Follows)
      /\ JournalType /\ LinkType /\ QueueType /\ DriverType /\ CallerType /\ IsEngine(engine)
  BY TypeParts DEF IInv
<1>2. /\ toHost # <<>> /\ toHost' = Tail(toHost)
      /\ UNCHANGED <<journal, transport, client, driver, graph, start, clock, history>>
  BY DEF HostServes
<1> DEFINE m == Head(toHost)
           inOrder == m.seq = engine.next
           eng == [engine EXCEPT !.next = @ + 1]
           handled == Handled(eng, m.cmd)
           kind == IF inOrder THEN handled.kind ELSE "error"
           answer == [seq |-> m.seq, kind |-> kind]
           L == Len(toHost)
<1>3. /\ engine' = IF inOrder THEN handled.engine ELSE engine
      /\ fromHost' = Append(fromHost, answer)
  BY DEF HostServes
<1>4. toHost \in Seq(Requests) /\ L \in Nat /\ fromHost \in Seq(Answers)
  BY <1>1, LenProperties DEF QueueType
<1>5. /\ m \in Requests /\ m = toHost[1] /\ toHost' \in Seq(Requests)
      /\ Len(toHost') = L - 1 /\ L > 0
      /\ \A i \in 1 .. Len(toHost') : toHost'[i] = toHost[i + 1]
  BY <1>2, <1>4, Popped
<1> HIDE DEF m
<1>6. m.seq \in Nat /\ m.cmd \in Commands
  BY <1>5 DEF Requests
<1>7. /\ IsEngine(eng) /\ Core(eng) = Core(engine) /\ eng.next = engine.next + 1
  <2>1. /\ eng.next = engine.next + 1 /\ eng.ids = engine.ids /\ eng.tracks = engine.tracks
        /\ eng = [next |-> eng.next, ids |-> eng.ids, tracks |-> eng.tracks]
    <3>1. engine = [next |-> engine.next, ids |-> engine.ids, tracks |-> engine.tracks]
      BY <1>1 DEF IsEngine
    <3>2. QED
      BY <3>1
  <2> HIDE DEF eng
  <2>2. engine.next + 1 \in Nat
    BY <1>1 DEF IsEngine
  <2>3. IsEngine(eng)
    BY <1>1, <2>1, <2>2 DEF IsEngine
  <2>4. Core(eng) = Core(engine)
    BY <2>1 DEF Core
  <2>5. QED
    BY <2>1, <2>3, <2>4
<1> HIDE DEF eng
<1>8. IsEngine(handled.engine) /\ handled.kind \in Kinds
  BY <1>6, <1>7, HandledType
<1> HIDE DEF handled
<1>9. IsEngine(engine') /\ kind \in Kinds
  BY <1>1, <1>3, <1>8 DEF Kinds
<1>10. answer \in Answers /\ answer.kind = kind
  BY <1>6, <1>9 DEF Answers
<1> HIDE DEF kind, answer
<1>11. /\ fromHost' \in Seq(Answers) /\ Len(fromHost') = Len(fromHost) + 1
       /\ \A i \in 1 .. Len(fromHost) : fromHost'[i] = fromHost[i]
       /\ fromHost'[Len(fromHost) + 1] = answer
  BY <1>3, <1>4, <1>10, Appended
<1>12. QueueType'
  BY <1>1, <1>2, <1>5, <1>11 DEF QueueType, transport
<1>13. JournalType' /\ LinkType' /\ DriverType' /\ CallerType' /\ StartCounted'
  <2>1. JournalType' /\ LinkType'
    BY <1>1, <1>2 DEF JournalType, LinkType, transport
  <2>2. DriverType' /\ CallerType' /\ StartCounted'
    BY <1>1, <1>2 DEF DriverType, CallerType, StartCounted, transport, history
  <2>3. QED
    BY <2>1, <2>2
<1>14. Attached
  BY <1>1, <1>2 DEF Idle
<1>15. Attached' /\ Idle'
  BY <1>2, <1>14 DEF Idle, Attached, transport
<1>16. ASSUME OneSettingPerField, failed' = {}
       PROVE  Follows'
  <2>1. Follows
    BY <1>1, <1>2, <1>16 DEF history
  <2>2. Numbered /\ Leads(Core(engine), Sent(toHost), Made)
    BY <1>14, <2>1 DEF Follows
  <2>3. next = engine.next + L /\ \A i \in 1 .. L : toHost[i].seq = engine.next + i - 1
    BY <2>2 DEF Numbered
  <2>4. engine.next \in Nat /\ next \in Nat
    BY <1>1 DEF IsEngine, QueueType
  <2>5. inOrder
    <3>1. 1 \in 1 .. L
      BY <1>4, <1>5
    <3>2. toHost[1].seq = engine.next + 1 - 1
      BY <2>3, <3>1
    <3>3. QED
      BY <1>5, <2>4, <3>2
  <2>6. /\ Len(Sent(toHost)) = L /\ Len(Sent(toHost')) = L - 1 /\ L - 1 \in Nat
        /\ \A i \in 1 .. L : Sent(toHost)[i] = toHost[i].cmd
        /\ \A i \in 1 .. L - 1 : Sent(toHost')[i] = toHost'[i].cmd
    <3>1. /\ Len(Sent(toHost)) = L
          /\ \A i \in 1 .. L : Sent(toHost)[i] = toHost[i].cmd
      BY <1>4, SentFacts
    <3>2. /\ Len(Sent(toHost')) = Len(toHost')
          /\ \A i \in 1 .. Len(toHost') : Sent(toHost')[i] = toHost'[i].cmd
      BY <1>5, SentFacts
    <3>3. L - 1 \in Nat
      BY <1>4, <1>5
    <3>4. QED
      BY <1>5, <3>1, <3>2, <3>3
  <2>7. ASSUME NEW i \in 1 .. L - 1
        PROVE  Sent(toHost')[i] = Sent(toHost)[i + 1]
    <3>1. i + 1 \in 1 .. L
      BY <1>4
    <3>2. QED
      BY <1>5, <2>6, <3>1
  <2>8. Sent(toHost)[1] = m.cmd
    <3>1. 1 \in 1 .. L
      BY <1>4, <1>5
    <3>2. QED
      BY <1>5, <2>6, <3>1
  <2>9. PICK b : /\ IsCore(b) /\ Takes(Core(engine), m.cmd, b)
                 /\ Leads(b, Sent(toHost'), Made)
    <3>1. L = (L - 1) + 1
      BY <1>4
    <3>2. Len(Sent(toHost)) = Len(Sent(toHost')) + 1 /\ Len(Sent(toHost')) \in Nat
      BY <2>6, <3>1
    <3>3. \A i \in 1 .. Len(Sent(toHost')) : Sent(toHost')[i] = Sent(toHost)[i + 1]
      BY <2>6, <2>7
    <3>4. \E b : /\ IsCore(b) /\ Takes(Core(engine), Sent(toHost)[1], b)
                 /\ Leads(b, Sent(toHost'), Made)
      BY <2>2, <3>2, <3>3, LeadsTail
    <3>5. QED
      BY <2>8, <3>4
  <2>10. /\ Core(handled.engine) = b /\ handled.kind \in {"ack", "snapshot"}
         /\ handled.engine.next = engine.next + 1
    BY <1>7, <2>9, TakesHandled DEF handled
  <2>11. engine' = handled.engine /\ answer.kind # "error"
    BY <1>3, <1>10, <2>5, <2>10 DEF kind
  <2>12. NoError(fromHost')
    <3>1. Len(fromHost) \in Nat
      BY <1>4, LenProperties
    <3>2. ASSUME NEW i \in 1 .. Len(fromHost) + 1
          PROVE  fromHost'[i].kind # "error"
      <4>1. CASE i = Len(fromHost) + 1
        BY <1>11, <2>11, <4>1
      <4>2. CASE i # Len(fromHost) + 1
        <5>1. i \in 1 .. Len(fromHost)
          BY <3>1, <4>2
        <5>2. QED
          BY <1>11, <2>1, <5>1 DEF Follows, NoError
      <4>3. QED
        BY <4>1, <4>2
    <3>3. QED
      BY <1>11, <3>2 DEF NoError
  <2>13. Numbered'
    <3>1. next' = engine'.next + Len(toHost')
      BY <1>2, <1>4, <1>5, <2>3, <2>4, <2>10, <2>11 DEF transport
    <3>2. ASSUME NEW i \in 1 .. Len(toHost')
          PROVE  toHost'[i].seq = engine'.next + i - 1
      <4>1. i + 1 \in 1 .. L /\ i \in Nat
        BY <1>4, <1>5
      <4>2. toHost'[i].seq = engine.next + (i + 1) - 1
        BY <1>5, <2>3, <4>1
      <4>3. QED
        BY <2>4, <2>10, <2>11, <4>1, <4>2
    <3>3. QED
      BY <3>1, <3>2 DEF Numbered
  <2>14. Made' = Made /\ NoError(inbound') /\ JournalOrdered'
    <3>1. Made' = Made
      BY <1>2 DEF Made, history
    <3>2. NoError(inbound')
      BY <1>2, <2>1 DEF Follows, transport
    <3>3. JournalOrdered'
      BY <1>2, <2>1 DEF Follows, JournalOrdered
    <3>4. QED
      BY <3>1, <3>2, <3>3
  <2>15. /\ client'.known = DOMAIN wanted' /\ \A id \in client'.known : id < client'.next
    BY <1>2, <2>1 DEF Follows, history
  <2>16. Leads(Core(FreshEngine), journal', Made')
    BY <1>2, <2>1, <2>14 DEF Follows
  <2>17. Leads(Core(engine'), Sent(toHost'), Made')
    BY <2>9, <2>10, <2>11, <2>14
  <2>18. QED
    BY <2>12, <2>13, <2>14, <2>15, <2>16, <2>17 DEF Follows
<1>17. TypeOK'
  BY <1>9, <1>12, <1>13, TypePartsNext
<1>18. QED
  BY <1>13, <1>15, <1>16, <1>17 DEF IInv

\* An attachment that ends leaves what the journal leads to.
LEMMA LetGo ==
  ASSUME Follows, UNCHANGED <<journal, client, wanted>>, ~Attached',
         fromHost' = <<>>, inbound' = inbound \/ inbound' = <<>>
  PROVE  Follows'
<1>1. Made' = Made
  BY DEF Made
<1>2. JournalOrdered'
  BY DEF Follows, JournalOrdered
<1>3. NoError(fromHost') /\ NoError(inbound')
  <2>1. Len(<<>>) = 0
    OBVIOUS
  <2>2. QED
    BY <2>1 DEF Follows, NoError
<1>4. QED
  BY <1>1, <1>2, <1>3 DEF Follows

\* What the invariant needs of a step that fails or detaches the link.
LEMMA FailFacts ==
  ASSUME TypeOK, Fail
  PROVE  /\ LinkType' /\ QueueType' /\ Idle' /\ ~Attached' /\ driver' = "failed"
         /\ fromHost' = <<>> /\ inbound' = inbound /\ generation' = generation
<1>1. LinkType /\ QueueType
  BY TypeParts
<1>2. /\ link' = Failed /\ driver' = "failed" /\ pending' = <<>>
      /\ toHost' = <<>> /\ fromHost' = <<>>
      /\ UNCHANGED <<generation, next, expected, inbound>>
  BY DEF Fail, ClosePort
<1>3. LinkType' /\ ~Attached'
  BY <1>1, <1>2, LinkFacts DEF LinkType, Attached
<1>4. QueueType'
  <2>1. /\ <<>> \in Seq(Entries) /\ <<>> \in Seq(Requests) /\ <<>> \in Seq(Answers)
        /\ Len(<<>>) = 0
    BY EmptySeq
  <2>2. QED
    BY <1>1, <1>2, <2>1, CapacityAssumption DEF QueueType
<1>5. QED
  BY <1>2, <1>3, <1>4 DEF Idle

LEMMA DetachFacts ==
  ASSUME TypeOK, Detach
  PROVE  /\ LinkType' /\ QueueType' /\ Idle' /\ ~Attached'
         /\ fromHost' = <<>> /\ inbound' = <<>> /\ generation' = generation
<1>1. LinkType /\ QueueType
  BY TypeParts
<1>2. /\ link' = Detached /\ pending' = <<>> /\ inbound' = <<>>
      /\ toHost' = <<>> /\ fromHost' = <<>>
      /\ UNCHANGED <<generation, next, expected>>
  BY DEF Detach, ClosePort
<1>3. LinkType' /\ ~Attached'
  BY <1>1, <1>2, LinkFacts DEF LinkType, Attached
<1>4. QueueType'
  <2>1. /\ <<>> \in Seq(Entries) /\ <<>> \in Seq(Requests) /\ <<>> \in Seq(Answers)
        /\ <<>> \in Seq(Heard) /\ Len(<<>>) = 0
    BY EmptySeq
  <2>2. QED
    BY <1>1, <1>2, <2>1, CapacityAssumption DEF QueueType
<1>5. QED
  BY <1>2, <1>3, <1>4 DEF Idle

LEMMA MilestonesFacts ==
  ASSUME link \in Links, Attached, NEW seq, NEW kind, NEW replaying \in BOOLEAN
  PROVE  /\ Milestones(seq, kind, replaying) \in Links
         /\ Milestones(seq, kind, replaying).connection = "attached"
<1> DEFINE S == [connection : {"attached"}, protocol : {"initializing", "negotiated"},
                 replay : {"replaying", "complete"}, engine : {"unknown", "observed"}]
           p == IF link.protocol = "initializing" /\ seq = 1 THEN "negotiated" ELSE link.protocol
           r == IF replaying THEN link.replay ELSE "complete"
           e == IF kind = "snapshot" THEN "observed" ELSE link.engine
<1>1. link \in S
  BY LinkFacts DEF Attached
<1>2. p \in {"initializing", "negotiated"} /\ r \in {"replaying", "complete"}
      /\ e \in {"unknown", "observed"}
  BY <1>1
<1>3. Milestones(seq, kind, replaying) = [link EXCEPT !.protocol = p, !.replay = r, !.engine = e]
  BY DEF Milestones
<1> HIDE DEF p, r, e
<1>4. /\ [link EXCEPT !.protocol = p, !.replay = r, !.engine = e] \in S
      /\ [link EXCEPT !.protocol = p, !.replay = r, !.engine = e].connection = "attached"
  BY <1>1, <1>2
<1>5. QED
  BY <1>3, <1>4 DEF Links

LEMMA DeliverInv ==
  ASSUME IInv, Deliver
  PROVE  IInv'
<1>1. /\ TypeOK /\ Idle /\ StartCounted /\ (OneSettingPerField /\ failed = {} => Follows)
      /\ JournalType /\ LinkType /\ QueueType /\ DriverType /\ CallerType /\ IsEngine(engine)
  BY TypeParts DEF IInv
<1>2. /\ fromHost # <<>> /\ Receive(Head(fromHost))
      /\ UNCHANGED <<journal, client, graph, start, clock, engine, wanted, failed, calls>>
  BY DEF Deliver, history
<1> DEFINE response == Head(fromHost)
<1>3. /\ fromHost \in Seq(Answers) /\ pending \in Seq(Entries) /\ inbound \in Seq(Heard)
      /\ Len(pending) \in Nat /\ Len(inbound) \in Nat /\ Len(fromHost) \in Nat
  BY <1>1, LenProperties DEF QueueType
<1>4. /\ response \in Answers /\ response = fromHost[1] /\ Tail(fromHost) \in Seq(Answers)
      /\ Len(Tail(fromHost)) = Len(fromHost) - 1 /\ Len(fromHost) > 0
      /\ \A i \in 1 .. Len(Tail(fromHost)) : Tail(fromHost)[i] = fromHost[i + 1]
  BY <1>2, <1>3, Popped
<1>5. response.kind \in Kinds
  BY <1>4 DEF Answers
<1> HIDE DEF response
<1>6. Receive(response)
  BY <1>2 DEF response
<1>7. JournalType' /\ CallerType' /\ IsEngine(engine')
  BY <1>1, <1>2 DEF JournalType, CallerType
<1>8. CASE response.seq # expected \/ pending = <<>> \/ Len(inbound) >= Capacity
  <2>1. Fail
    BY <1>6, <1>8 DEF Receive
  <2>2. /\ LinkType' /\ QueueType' /\ Idle' /\ ~Attached' /\ driver' = "failed"
        /\ fromHost' = <<>> /\ inbound' = inbound /\ generation' = generation
    BY <1>1, <2>1, FailFacts
  <2>3. DriverType' /\ StartCounted'
    BY <1>1, <1>2, <2>2 DEF DriverType, StartCounted
  <2>4. TypeOK'
    BY <1>7, <2>2, <2>3, TypePartsNext
  <2>5. OneSettingPerField /\ failed' = {} => Follows'
    BY <1>1, <1>2, <2>2, LetGo
  <2>6. QED
    BY <2>2, <2>3, <2>4, <2>5 DEF IInv
<1>9. CASE ~(response.seq # expected \/ pending = <<>> \/ Len(inbound) >= Capacity)
  <2> DEFINE heard == [kind |-> response.kind, cmd |-> Head(pending).cmd]
             replaying == \E i \in 2 .. Len(pending) : pending[i].replay
  <2>1. /\ pending' = Tail(pending) /\ expected' = expected + 1
        /\ link' = Milestones(response.seq, response.kind, replaying)
        /\ inbound' = Append(inbound, heard)
        /\ fromHost' = Tail(fromHost)
        /\ UNCHANGED <<generation, next, driver, toHost>>
    BY <1>6, <1>9 DEF Receive
  <2>2. Attached
    BY <1>1, <1>9 DEF Idle
  <2>3. replaying \in BOOLEAN
    OBVIOUS
  <2> HIDE DEF replaying
  <2>4. link' \in Links /\ Attached'
    BY <1>1, <2>1, <2>2, <2>3, MilestonesFacts DEF Attached, LinkType
  <2>5. LinkType' /\ DriverType' /\ StartCounted'
    BY <1>1, <1>2, <2>1, <2>4 DEF LinkType, DriverType, StartCounted
  <2>6. heard \in Heard /\ heard.kind = response.kind
    <3>1. Head(pending) \in Entries
      BY <1>3, <1>9, Popped
    <3>2. Head(pending).cmd \in Commands
      BY <3>1 DEF Entries
    <3>3. QED
      BY <1>5, <3>2 DEF Heard
  <2> HIDE DEF heard
  <2>7. /\ inbound' \in Seq(Heard) /\ Len(inbound') = Len(inbound) + 1
        /\ \A i \in 1 .. Len(inbound) : inbound'[i] = inbound[i]
        /\ inbound'[Len(inbound) + 1] = heard
    BY <1>3, <2>1, <2>6, Appended
  <2>8. Len(inbound') <= Capacity
    BY <1>3, <1>9, <2>7, CapacityAssumption
  <2>9. pending' \in Seq(Entries) /\ Len(pending') <= Capacity
    <3>1. Tail(pending) \in Seq(Entries) /\ Len(Tail(pending)) = Len(pending) - 1
      BY <1>3, <1>9, Popped
    <3>2. Len(pending) <= Capacity
      BY <1>1 DEF QueueType
    <3>3. QED
      BY <1>3, <2>1, <3>1, <3>2, CapacityAssumption
  <2>10. QueueType'
    BY <1>1, <1>4, <2>1, <2>7, <2>8, <2>9 DEF QueueType
  <2>11. Idle'
    BY <2>4 DEF Idle
  <2>12. ASSUME OneSettingPerField, failed' = {}
         PROVE  Follows'
    <3>1. Follows
      BY <1>1, <1>2, <2>12
    <3>2. NoError(fromHost')
      <4>1. ASSUME NEW i \in 1 .. Len(Tail(fromHost))
            PROVE  Tail(fromHost)[i].kind # "error"
        <5>1. i + 1 \in 1 .. Len(fromHost)
          BY <1>3, <1>4
        <5>2. QED
          BY <1>4, <3>1, <5>1 DEF Follows, NoError
      <4>2. QED
        BY <2>1, <4>1 DEF NoError
    <3>3. NoError(inbound')
      <4>1. heard.kind # "error"
        <5>1. 1 \in 1 .. Len(fromHost)
          BY <1>3, <1>4
        <5>2. QED
          BY <1>4, <2>6, <3>1, <5>1 DEF Follows, NoError
      <4>2. ASSUME NEW i \in 1 .. Len(inbound) + 1
            PROVE  inbound'[i].kind # "error"
        <5>1. CASE i = Len(inbound) + 1
          BY <2>7, <4>1, <5>1
        <5>2. CASE i # Len(inbound) + 1
          <6>1. i \in 1 .. Len(inbound)
            BY <1>3, <5>2
          <6>2. QED
            BY <2>7, <3>1, <6>1 DEF Follows, NoError
        <5>3. QED
          BY <5>1, <5>2
      <4>3. QED
        BY <2>7, <4>2 DEF NoError
    <3>4. Made' = Made
      BY <1>2 DEF Made
    <3>5. JournalOrdered'
      BY <1>2, <3>1 DEF Follows, JournalOrdered
    <3>6. Numbered' /\ Leads(Core(engine'), Sent(toHost'), Made')
      <4>1. Numbered /\ Leads(Core(engine), Sent(toHost), Made)
        BY <2>2, <3>1 DEF Follows
      <4>2. QED
        BY <1>2, <2>1, <3>4, <4>1 DEF Numbered
    <3>7. QED
      BY <1>2, <3>1, <3>2, <3>3, <3>4, <3>5, <3>6 DEF Follows
  <2>13. TypeOK'
    BY <1>7, <2>5, <2>10, TypePartsNext
  <2>14. QED
    BY <2>5, <2>11, <2>12, <2>13 DEF IInv
<1>10. QED
  BY <1>8, <1>9

-----------------------------------------------------------------------------
(* The driver. *)

\* A step of the driver that fails or detaches the link.
LEMMA DriverLetsGo ==
  ASSUME IInv, Fail \/ Detach, UNCHANGED <<journal, client, engine, history>>, DriverType',
         StartCounted'
  PROVE  IInv'
<1>1. /\ TypeOK /\ Idle /\ (OneSettingPerField /\ failed = {} => Follows)
      /\ JournalType /\ CallerType /\ IsEngine(engine)
  BY TypeParts DEF IInv
<1>2. /\ LinkType' /\ QueueType' /\ Idle' /\ ~Attached'
      /\ fromHost' = <<>> /\ (inbound' = inbound \/ inbound' = <<>>)
  BY <1>1, FailFacts, DetachFacts
<1>3. UNCHANGED <<journal, client, engine, wanted, failed, calls>>
  BY DEF history
<1>4. JournalType' /\ CallerType' /\ IsEngine(engine')
  BY <1>1, <1>3 DEF JournalType, CallerType
<1>5. TypeOK'
  BY <1>2, <1>4, TypePartsNext
<1>6. OneSettingPerField /\ failed' = {} => Follows'
  BY <1>1, <1>2, <1>3, LetGo
<1>7. QED
  BY <1>2, <1>5, <1>6 DEF IInv

\* One that leaves both ends and the port alone.
LEMMA DriverStays ==
  ASSUME IInv, UNCHANGED <<journal, transport, client, ports, engine, history>>, DriverType',
         StartCounted'
  PROVE  IInv'
<1>1. /\ TypeOK /\ Idle /\ (OneSettingPerField /\ failed = {} => Follows)
      /\ JournalType /\ LinkType /\ QueueType /\ CallerType /\ IsEngine(engine)
  BY TypeParts DEF IInv
<1>2. UNCHANGED <<journal, generation, link, next, expected, pending, inbound, client, toHost,
                  fromHost, engine, wanted, failed, calls>>
  BY DEF transport, ports, history
<1>3. JournalType' /\ LinkType' /\ QueueType' /\ CallerType' /\ IsEngine(engine')
  <2>1. JournalType' /\ LinkType' /\ IsEngine(engine')
    BY <1>1, <1>2 DEF JournalType, LinkType
  <2>2. QueueType'
    BY <1>1, <1>2 DEF QueueType
  <2>3. CallerType'
    BY <1>1, <1>2 DEF CallerType
  <2>4. QED
    BY <2>1, <2>2, <2>3
<1>4. TypeOK'
  BY <1>3, TypePartsNext
<1>5. Idle' /\ Made' = Made /\ (Attached' <=> Attached)
  BY <1>1, <1>2 DEF Idle, Made, Attached
<1>6. ASSUME OneSettingPerField, failed' = {}
      PROVE  Follows'
  <2>1. Follows
    BY <1>1, <1>2, <1>6
  <2>2. JournalOrdered'
    BY <1>2, <2>1 DEF Follows, JournalOrdered
  <2>3. Attached' => Numbered' /\ Leads(Core(engine'), Sent(toHost'), Made')
    BY <1>2, <1>5, <2>1 DEF Follows, Numbered
  <2>4. QED
    BY <1>2, <1>5, <2>1, <2>2, <2>3 DEF Follows
<1>7. QED
  BY <1>4, <1>5, <1>6 DEF IInv

LEMMA EnableInv ==
  ASSUME IInv, Enable
  PROVE  IInv'
<1>1. StartCounted /\ DriverType /\ LinkType
  BY TypeParts DEF IInv
<1>2. Detach /\ UNCHANGED <<journal, client, engine, history>> /\ generation' = generation
  BY DEF Enable, Detach
<1>3. DriverType'
  BY <1>1 DEF Enable, DriverType
<1>4. generation < MaxAttaches
  BY <1>1, BoundsAssumption DEF Enable, LinkType
<1>5. StartCounted'
  BY <1>2, <1>4 DEF StartCounted
<1>6. QED
  BY <1>2, <1>3, <1>5, DriverLetsGo

LEMMA PermissionInv ==
  ASSUME IInv, PermissionGranted \/ PermissionDenied
  PROVE  IInv'
<1>1. StartCounted /\ DriverType
  BY TypeParts DEF IInv
<1>2. UNCHANGED <<journal, transport, client, ports, engine, history>> /\ start # "none"
  BY DEF PermissionGranted, PermissionDenied
<1>3. DriverType'
  BY <1>1 DEF PermissionGranted, PermissionDenied, NoGraph, DriverType
<1>4. StartCounted'
  BY <1>1, <1>2 DEF StartCounted, transport
<1>5. QED
  BY <1>2, <1>3, <1>4, DriverStays

LEMMA StartFailsInv ==
  ASSUME IInv, StartFails
  PROVE  IInv'
<1>1. StartCounted /\ DriverType
  BY TypeParts DEF IInv
<1>2. Fail /\ UNCHANGED <<journal, client, engine, history>> /\ start' = "none"
  BY DEF StartFails
<1>3. DriverType'
  BY <1>1 DEF StartFails, Fail, NoGraph, DriverType
<1>4. StartCounted'
  BY <1>2 DEF StartCounted
<1>5. QED
  BY <1>2, <1>3, <1>4, DriverLetsGo

LEMMA GraphFailsInv ==
  ASSUME IInv, GraphFails
  PROVE  IInv'
<1>1. StartCounted /\ DriverType
  BY TypeParts DEF IInv
<1>2. Fail /\ UNCHANGED <<journal, client, engine, history, graph, start, clock>>
  BY DEF GraphFails
<1>3. DriverType' /\ StartCounted'
  BY <1>1, <1>2 DEF Fail, DriverType, StartCounted
<1>4. QED
  BY <1>2, <1>3, DriverLetsGo

LEMMA StartTimesOutInv ==
  ASSUME IInv, StartTimesOut
  PROVE  IInv'
<1>1. StartCounted /\ DriverType
  BY TypeParts DEF IInv
<1>2. Fail /\ NoGraph /\ UNCHANGED <<journal, client, engine, history, start>>
  BY DEF StartTimesOut
<1>3. DriverType' /\ StartCounted'
  BY <1>1, <1>2 DEF Fail, NoGraph, DriverType, StartCounted
<1>4. QED
  BY <1>2, <1>3, DriverLetsGo

LEMMA ContextChangesInv ==
  ASSUME IInv, ContextChanges
  PROVE  IInv'
<1>1. StartCounted /\ DriverType
  BY TypeParts DEF IInv
<1>2. UNCHANGED <<journal, transport, client, ports, engine, history, start, graph>>
  BY DEF ContextChanges
<1>3. driver' \in {"running", "suspended"} /\ clock' \in BOOLEAN
  BY <1>1 DEF ContextChanges
<1>4. DriverType' /\ StartCounted'
  BY <1>1, <1>2, <1>3 DEF DriverType, StartCounted, transport
<1>5. QED
  BY <1>2, <1>4, DriverStays

LEMMA TakeDownInv ==
  ASSUME IInv, TakeDown
  PROVE  IInv'
<1>1. StartCounted /\ DriverType
  BY TypeParts DEF IInv
<1>2. NoGraph /\ UNCHANGED <<journal, transport, client, ports, engine, history, driver, start>>
  BY DEF TakeDown
<1>3. DriverType' /\ StartCounted'
  BY <1>1, <1>2 DEF NoGraph, DriverType, StartCounted, transport
<1>4. QED
  BY <1>2, <1>3, DriverStays

LEMMA ShutdownInv ==
  ASSUME IInv, Shutdown
  PROVE  IInv'
<1>1. StartCounted /\ DriverType
  BY TypeParts DEF IInv
<1>2. Detach /\ NoGraph /\ UNCHANGED <<journal, client, engine, history, start>>
  BY DEF Shutdown
<1>3. DriverType'
  BY <1>1, <1>2 DEF Shutdown, NoGraph, DriverType
<1>4. StartCounted'
  BY <1>1, <1>2 DEF StartCounted, Detach
<1>5. QED
  BY <1>2, <1>3, <1>4, DriverLetsGo

\* The engine that is attached is a new one, and the port holds all it needs.
LEMMA AttachInv ==
  ASSUME IInv, Attach
  PROVE  IInv'
<1>1. /\ TypeOK /\ Idle /\ StartCounted /\ (OneSettingPerField /\ failed = {} => Follows)
      /\ JournalType /\ LinkType /\ QueueType /\ DriverType /\ CallerType /\ IsEngine(engine)
  BY TypeParts DEF IInv
<1> DEFINE cmds == <<Configure>> \o journal
           L == Len(journal)
<1>2. /\ start = "loading" /\ start' = "none" /\ generation' = generation + 1
      /\ engine' = FreshEngine
      /\ expected' = 1 /\ inbound' = <<>> /\ fromHost' = <<>>
      /\ UNCHANGED <<journal, client, wanted, failed, calls>>
  BY DEF Attach, history
<1>3. journal \in Seq(Commands) /\ L \in Nat
  BY <1>1, LenProperties DEF JournalType
<1>4. /\ cmds \in Seq(Commands) /\ Len(cmds) = L + 1 /\ cmds[1] = Configure
      /\ \A i \in 1 .. L : cmds[i + 1] = journal[i]
  <2>1. <<Configure>> \in Seq(Commands) /\ Len(<<Configure>>) = 1 /\ <<Configure>>[1] = Configure
    BY PlainCommands
  <2>2. IsConcat(cmds, <<Configure>>, journal, Commands)
    BY <1>3, <2>1, Concatenated
  <2> HIDE DEF cmds
  <2>3. cmds \in Seq(Commands) /\ Len(cmds) = L + 1
    BY <1>3, <2>1, <2>2 DEF IsConcat
  <2>4. cmds[1] = Configure
    BY <2>1, <2>2 DEF IsConcat
  <2>5. ASSUME NEW i \in 1 .. L
        PROVE  cmds[i + 1] = journal[i]
    <3>1. cmds[Len(<<Configure>>) + i] = journal[i]
      BY <2>2 DEF IsConcat
    <3>2. Len(<<Configure>>) + i = i + 1
      BY <1>3, <2>1
    <3>3. QED
      BY <3>1, <3>2
  <2>6. QED
    BY <2>3, <2>4, <2>5
<1>5. JournalType' /\ CallerType'
  BY <1>1, <1>2 DEF JournalType, CallerType
<1>6. IsEngine(engine') /\ Core(engine') = Core(FreshEngine) /\ engine'.next = 1
  BY <1>2, NoTracksFacts DEF IsEngine, FreshEngine
<1>7. generation' \in 0 .. MaxAttaches /\ StartCounted'
  BY <1>1, <1>2, BoundsAssumption DEF LinkType, StartCounted
<1>8. /\ <<>> \in Seq(Entries) /\ <<>> \in Seq(Requests) /\ <<>> \in Seq(Answers)
      /\ <<>> \in Seq(Heard) /\ Len(<<>>) = 0
  BY EmptySeq
<1>9. CASE Len(cmds) <= Capacity
  <2> DEFINE requests == [i \in DOMAIN cmds |-> [seq |-> i, cmd |-> cmds[i]]]
             entries == [i \in DOMAIN cmds |-> [cmd |-> cmds[i], replay |-> TRUE]]
  <2>1. /\ link' = Fresh /\ toHost' = requests /\ pending' = entries /\ next' = Len(cmds) + 1
        /\ driver' \in {"running", "suspended"}
        /\ graph' = IF graph = "context" THEN "built" ELSE graph
        /\ clock' = (clock /\ driver' = "suspended")
    BY <1>9 DEF Attach
  <2> HIDE DEF cmds
  <2>2. \A i \in 1 .. L + 1 : cmds[i] \in Commands /\ i \in Nat
    BY <1>3, <1>4, Indices
  <2>3. DOMAIN cmds = 1 .. L + 1
    BY <1>4, Indices
  <2>4. \A i \in 1 .. L + 1 : [seq |-> i, cmd |-> cmds[i]] \in Requests
    BY <2>2 DEF Requests
  <2>5. \A i \in 1 .. L + 1 : [cmd |-> cmds[i], replay |-> TRUE] \in Entries
    BY <2>2 DEF Entries
  <2>6. /\ requests \in Seq(Requests) /\ Len(requests) = L + 1
        /\ \A i \in 1 .. L + 1 : requests[i].cmd = cmds[i] /\ requests[i].seq = i
    BY <1>3, <2>3, <2>4
  <2>7. entries \in Seq(Entries) /\ Len(entries) = L + 1
    BY <1>3, <2>3, <2>5
  <2> HIDE DEF requests, entries
  <2>8. QueueType'
    BY <1>2, <1>3, <1>4, <1>8, <1>9, <2>1, <2>6, <2>7, CapacityAssumption DEF QueueType
  <2>9. LinkType' /\ Attached'
    BY <1>7, <2>1, LinkFacts DEF LinkType, Attached
  <2>10. DriverType'
    BY <1>1, <1>2, <2>1 DEF DriverType
  <2>11. Idle'
    BY <2>9 DEF Idle
  <2>12. TypeOK'
    BY <1>5, <1>6, <2>8, <2>9, <2>10, TypePartsNext
  <2>13. ASSUME OneSettingPerField, failed' = {}
         PROVE  Follows'
    <3>1. Follows
      BY <1>1, <1>2, <2>13
    <3>2. Numbered'
      BY <1>3, <1>4, <1>6, <2>1, <2>6 DEF Numbered
    <3>3. /\ Len(Sent(requests)) = L + 1
          /\ \A i \in 1 .. L + 1 : Sent(requests)[i] = requests[i].cmd
      BY <2>6, SentFacts
    <3>4. ASSUME NEW i \in 1 .. L
          PROVE  Sent(requests)[i + 1] = journal[i]
      <4>1. i + 1 \in 1 .. L + 1
        BY <1>3
      <4>2. QED
        BY <1>4, <2>6, <3>3, <4>1
    <3>5. Sent(requests)[1] = Configure
      <4>1. 1 \in 1 .. L + 1
        BY <1>3
      <4>2. QED
        BY <1>4, <2>6, <3>3, <4>1
    <3>6. Leads(Core(FreshEngine), journal, Made)
      BY <3>1 DEF Follows
    <3>7. IsCore(Core(FreshEngine)) /\ Takes(Core(FreshEngine), Configure, Core(FreshEngine))
      BY <1>3, <3>6, LeadsCore, PlainCommands DEF Takes, Keeps
    <3>8. Leads(Core(FreshEngine), Sent(requests), Made)
      BY <1>3, <3>3, <3>4, <3>5, <3>6, <3>7, LeadsPrepend
    <3>9. Made' = Made
      BY <1>2 DEF Made
    <3>10. Leads(Core(engine'), Sent(toHost'), Made')
      BY <1>6, <2>1, <3>8, <3>9
    <3>11. NoError(fromHost') /\ NoError(inbound')
      BY <1>2, <1>8 DEF NoError
    <3>12. JournalOrdered'
      BY <1>2, <3>1 DEF Follows, JournalOrdered
    <3>13. QED
      BY <1>2, <3>1, <3>2, <3>9, <3>10, <3>11, <3>12 DEF Follows
  <2>14. QED
    BY <1>7, <2>11, <2>12, <2>13 DEF IInv
<1>10. CASE ~(Len(cmds) <= Capacity)
  <2>1. /\ link' = Failed /\ driver' = "failed"
        /\ toHost' = <<>> /\ pending' = <<>> /\ next' = Capacity + 1
        /\ NoGraph
    BY <1>10 DEF Attach
  <2>2. LinkType' /\ ~Attached'
    BY <1>7, <2>1, LinkFacts DEF LinkType, Attached
  <2>3. QueueType'
    BY <1>2, <1>8, <2>1, CapacityAssumption DEF QueueType
  <2>4. DriverType' /\ Idle'
    BY <1>2, <2>1 DEF DriverType, NoGraph, Idle
  <2>5. TypeOK'
    BY <1>5, <1>6, <2>2, <2>3, <2>4, TypePartsNext
  <2>6. OneSettingPerField /\ failed' = {} => Follows'
    BY <1>1, <1>2, <2>2, LetGo
  <2>7. QED
    BY <1>7, <2>4, <2>5, <2>6 DEF IInv
<1>11. QED
  BY <1>9, <1>10

-----------------------------------------------------------------------------
\* The initial state satisfies the invariant.
LEMMA InitInv == Init => IInv
<1> SUFFICES ASSUME Init
             PROVE  IInv
  OBVIOUS
<1>1. /\ <<>> \in Seq(Commands) /\ <<>> \in Seq(Entries) /\ <<>> \in Seq(Requests)
      /\ <<>> \in Seq(Answers) /\ <<>> \in Seq(Heard) /\ Len(<<>>) = 0
  BY EmptySeq
<1>2. JournalType /\ LinkType /\ ~Attached
  BY <1>1, LinkFacts, CapacityAssumption, BoundsAssumption
     DEF Init, JournalType, LinkType, Attached
<1>3. QueueType /\ Idle
  BY <1>1, CapacityAssumption DEF Init, QueueType, Idle
<1>4. DriverType /\ StartCounted
  BY DEF Init, DriverType, StartCounted
<1>5. client = [next |-> 1, known |-> {}] /\ wanted = NoTracks
  BY DEF Init
<1>6. client.next = 1 /\ client.known = {} /\ client \in [next : Nat, known : SUBSET Ids]
  BY <1>5
<1>7. CallerType
  BY <1>5, <1>6, NoTracksFacts, BoundsAssumption DEF Init, CallerType
<1>8. IsEngine(engine)
  BY NoTracksFacts DEF Init, IsEngine, FreshEngine
<1>9. TypeOK
  BY <1>2, <1>3, <1>4, <1>7, <1>8, TypeParts
<1>10. Follows
  <2>1. /\ Core(FreshEngine) = [ids |-> 1, tracks |-> NoTracks]
        /\ Made = [ids |-> 1, tracks |-> NoTracks]
    BY <1>5, <1>6 DEF Core, FreshEngine, Made
  <2>2. IsCore([ids |-> 1, tracks |-> NoTracks])
    BY NoTracksFacts DEF IsCore
  <2>3. journal = <<>> /\ fromHost = <<>> /\ inbound = <<>>
    BY DEF Init
  <2>4. Leads(Core(FreshEngine), journal, Made)
    BY <1>1, <2>1, <2>2, <2>3, LeadsNothing
  <2>5. JournalOrdered /\ NoError(fromHost) /\ NoError(inbound)
    BY <1>1, <2>3 DEF JournalOrdered, NoError
  <2>6. QED
    BY <1>2, <1>5, <1>6, <2>4, <2>5, NoTracksFacts DEF Follows
<1>11. QED
  BY <1>3, <1>4, <1>9, <1>10 DEF IInv

\* Every step preserves it.
LEMMA StepInv ==
  ASSUME IInv, [Next]_vars
  PROVE  IInv'
<1>1. CASE Call
  BY <1>1, CreateTrackInv, RemoveTrackInv, SetInv DEF Call
<1>2. CASE ClientPoll
  BY <1>2, ClientPollInv
<1>3. CASE HostServes
  BY <1>3, HostServesInv
<1>4. CASE Deliver
  BY <1>4, DeliverInv
<1>5. CASE Lifecycle
  BY <1>5, EnableInv, PermissionInv, AttachInv, StartFailsInv, GraphFailsInv, ContextChangesInv,
     StartTimesOutInv, TakeDownInv, ShutdownInv DEF Lifecycle
<1>6. CASE UNCHANGED vars
  <2>1. UNCHANGED <<journal, transport, client, ports, engine, history>>
    BY <1>6 DEF vars
  <2>2. StartCounted /\ DriverType
    BY TypeParts DEF IInv
  <2>3. DriverType' /\ StartCounted'
    BY <1>6, <2>2 DEF vars, transport, DriverType, StartCounted
  <2>4. QED
    BY <2>1, <2>3, DriverStays
<1>7. QED
  BY <1>1, <1>2, <1>3, <1>4, <1>5, <1>6 DEF Next

\* The invariant holds throughout, whatever the fairness.
LEMMA Invariance == Spec => []IInv
<1>1. IInv /\ [Next]_vars => IInv'
  BY StepInv
<1>2. QED
  BY <1>1, InitInv, PTL DEF Spec

\* The invariant says where an engine that is attached is on its way to.
LEMMA FollowsMeans == OneSettingPerField /\ IInv => EngineFollows
<1> SUFFICES ASSUME OneSettingPerField, IInv, Attached, failed = {}
             PROVE  AfterHandling(engine, toHost) = wanted
  BY DEF EngineFollows
<1>1. Leads(Core(engine), Sent(toHost), Made)
  BY DEF IInv, Follows
<1>2. IsEngine(engine) /\ toHost \in Seq(Requests)
  BY TypeParts DEF IInv, QueueType
<1>3. AfterHandling(engine, toHost) = Made.tracks
  BY <1>1, <1>2, LeadsHandled
<1>4. QED
  BY <1>3 DEF Made

\* Every variable keeps its type.
THEOREM TypeCorrect == Spec => []TypeOK
<1>1. IInv => TypeOK
  BY DEF IInv
<1>2. QED
  BY <1>1, Invariance, PTL

\* An attached engine stays on its way to the tracks the application made and set (transport.rs
\* journal and attach): as long as no call fails and no command is refused, what the port still
\* holds leads there, across attachments, replays, superseded settings and removed tracks.
THEOREM EngineKeepsFollowing == OneSettingPerField => (Spec => []EngineFollows)
<1> SUFFICES ASSUME OneSettingPerField
             PROVE  Spec => []EngineFollows
  OBVIOUS
<1>1. IInv => EngineFollows
  BY FollowsMeans
<1>2. QED
  BY <1>1, Invariance, PTL
=============================================================================
