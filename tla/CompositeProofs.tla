--------------------------- MODULE CompositeProofs ---------------------------
(***************************************************************************)
(* Proofs about CompositeTimeline for any nodes, loops, descriptions,      *)
(* lengths and bounds: the types; that an edited plan takes over only      *)
(* where a pass ends; and, where no loop has two composites, that every    *)
(* loop does what the active plan of its composite asks of it.  First what *)
(* compile_composite_plan returns, then what each operation of the runtime *)
(* does to its targets, then a boundary, then the steps.                   *)
(***************************************************************************)
EXTENDS CompositeTimeline, FiniteSetTheorems, WellFoundedInduction, SequenceTheorems, TLAPS

-----------------------------------------------------------------------------
(* Numbers, finite sets and recursive functions. *)

\* A set of natural numbers has a smallest one.
LEMMA SmallestExists ==
  ASSUME NEW T, T \subseteq Nat, T # {}
  PROVE  \E i \in T : \A j \in T : i <= j
<1> DEFINE R == OpToRel(<, Nat)
<1>1. \A i, j \in Nat : <<j, i>> \in R <=> j < i
  BY Zenon DEF OpToRel
<1> HIDE DEF R
<1>2. PICK i \in T : \A j \in T : ~(<<j, i>> \in R)
  BY NatLessThanWellFounded, WFMin, Zenon DEF R
<1>3. \A j \in T : ~(j < i)
  BY <1>1, <1>2
<1>4. QED
  BY <1>3

\* A finite set of natural numbers has a largest one.
LEMMA LargestExists ==
  ASSUME NEW S, S \subseteq Nat, S # {}, IsFiniteSet(S)
  PROVE  \E x \in S : \A y \in S : x >= y
<1> DEFINE Has(Q) == \E x \in Q : \A y \in Q : x >= y
           Bad(Q, m) == Q # {} /\ IsFiniteSet(Q) /\ Cardinality(Q) = m /\ ~Has(Q)
           T == {m \in Nat : \E Q \in SUBSET Nat : Bad(Q, m)}
<1>1. T = {}
  <2> SUFFICES ASSUME T # {}
               PROVE  FALSE
    OBVIOUS
  <2>1. PICK m \in T : \A j \in T : m <= j
    BY SmallestExists
  <2>2. PICK Q \in SUBSET Nat : Bad(Q, m)
    OBVIOUS
  <2>3. PICK x \in Q : TRUE
    BY <2>2
  <2> DEFINE P == Q \ {x}
  <2>4. m \in Nat /\ IsFiniteSet(P) /\ Cardinality(P) = m - 1 /\ Cardinality(P) \in Nat
    BY <2>2, <2>3, FS_RemoveElement, FS_CardinalityType
  <2>5. Has(P) \/ P = {}
    <3>1. m - 1 \notin T
      BY <2>1, <2>4
    <3>2. QED
      BY <2>4, <3>1
  <2>6. Has(Q)
    <3>1. CASE P = {}
      <4>1. \A y \in Q : x >= y
        BY <3>1, <2>3
      <4>2. QED
        BY <4>1, <2>3
    <3>2. CASE Has(P)
      <4>1. PICK y \in P : \A z \in P : y >= z
        BY <3>2
      <4>2. CASE y >= x
        <5>1. \A z \in Q : y >= z
          BY <4>1, <4>2
        <5>2. QED
          BY <4>1, <5>1
      <4>3. CASE ~(y >= x)
        <5>1. x \in Nat /\ y \in Nat
          BY <2>3, <4>1
        <5>2. ASSUME NEW z \in Q PROVE x >= z
          <6>1. z \in Nat
            OBVIOUS
          <6>2. QED
            BY <4>1, <4>3, <5>1, <6>1
        <5>3. QED
          BY <5>2, <2>3
      <4>4. QED
        BY <4>2, <4>3
    <3>3. QED
      BY <3>1, <3>2, <2>5
  <2>7. QED
    BY <2>2, <2>6
<1>2. Cardinality(S) \in Nat
  BY FS_CardinalityType
<1>3. S \in SUBSET Nat /\ Cardinality(S) \notin T
  BY <1>1
<1>4. QED
  BY <1>2, <1>3

LEMMA MaxIs ==
  ASSUME NEW S, S \subseteq Nat, S # {}, IsFiniteSet(S)
  PROVE  Max(S) \in S /\ \A y \in S : Max(S) >= y
BY LargestExists DEF Max

\* With a bound on the numbers there is no need to know that they are finite.
LEMMA LargestBelow ==
  ASSUME NEW S, NEW n \in Nat, S \subseteq 0..n, S # {}
  PROVE  \E x \in S : \A y \in S : x >= y
<1>1. IsFiniteSet(S)
  <2>1. 0 \in Int /\ n \in Int /\ S \in SUBSET (0..n)
    OBVIOUS
  <2>2. IsFiniteSet(0..n)
    BY <2>1, FS_Interval
  <2>3. QED
    BY <2>1, <2>2, FS_Subset
<1>2. S \subseteq Nat
  OBVIOUS
<1>3. QED
  BY <1>1, <1>2, LargestExists

\* A function that each step takes from a set into itself.
Iterates(f, S, L, a, g) ==
  /\ f \in [0..L -> S] /\ f[0] = a
  /\ \A k \in 1..L : f[k] = g[k][f[k - 1]]

LEMMA Iteration ==
  ASSUME NEW S, NEW L \in Nat, NEW a \in S, NEW g \in [1..L -> [S -> S]]
  PROVE  \E f : Iterates(f, S, L, a, g)
<1> DEFINE Is(f, m) == f \in [0..m -> S] /\ f[0] = a /\ \A k \in 1..m : f[k] = g[k][f[k - 1]]
           T == {m \in 0..L : ~\E f : Is(f, m)}
<1>1. T = {}
  <2> SUFFICES ASSUME T # {}
               PROVE  FALSE
    OBVIOUS
  <2>1. PICK m \in T : \A j \in T : m <= j
    <3>1. T \subseteq Nat
      OBVIOUS
    <3>2. QED
      BY <3>1, SmallestExists
  <2>2. m \in 0..L /\ m \in Nat
    OBVIOUS
  <2>3. CASE m = 0
    <3> DEFINE f == [k \in 0..0 |-> a]
    <3>1. Is(f, 0)
      OBVIOUS
    <3>2. QED
      BY <2>1, <2>3, <3>1
  <2>4. CASE m # 0
    <3>1. m - 1 \in 0..L /\ m - 1 \notin T /\ m \in 1..L
      <4>1. m - 1 \in 0..L /\ ~(m <= m - 1) /\ m \in 1..L
        BY <2>2, <2>4
      <4>2. QED
        BY <2>1, <4>1
    <3>2. PICK h : Is(h, m - 1)
      BY <3>1
    <3> DEFINE f == [k \in 0..m |-> IF k = m THEN g[m][h[m - 1]] ELSE h[k]]
    <3>3. m - 1 \in 0..(m - 1) /\ h[m - 1] \in S /\ g[m][h[m - 1]] \in S
      <4>1. m - 1 \in 0..(m - 1)
        BY <2>2, <3>1
      <4>2. h[m - 1] \in S
        BY <4>1, <3>2
      <4>3. g[m] \in [S -> S]
        BY <3>1
      <4>4. QED
        BY <4>1, <4>2, <4>3
    <3>4. f \in [0..m -> S]
      <4>1. ASSUME NEW k \in 0..m PROVE f[k] \in S
        <5>1. CASE k = m
          BY <5>1, <3>3
        <5>2. CASE k # m
          <6>1. k \in 0..(m - 1)
            BY <5>2, <2>2
          <6>2. QED
            BY <6>1, <5>2, <3>2
        <5>3. QED
          BY <5>1, <5>2
      <4>2. QED
        BY <4>1
    <3>5. f[0] = a
      <4>1. 0 \in 0..m
        BY <2>2
      <4>2. QED
        BY <4>1, <2>4, <3>2
    <3>6. ASSUME NEW k \in 1..m PROVE f[k] = g[k][f[k - 1]]
      <4>1. k \in 0..m /\ k - 1 \in 0..m /\ k - 1 # m
        BY <2>2
      <4>2. f[k - 1] = h[k - 1]
        BY <4>1
      <4>3. CASE k = m
        BY <4>1, <4>2, <4>3
      <4>4. CASE k # m
        <5>1. k \in 1..(m - 1)
          BY <4>4, <2>2
        <5>2. QED
          BY <5>1, <4>1, <4>2, <4>4, <3>2
      <4>5. QED
        BY <4>3, <4>4
    <3>7. Is(f, m)
      BY <3>4, <3>5, <3>6
    <3>8. QED
      BY <2>1, <3>7
  <2>5. QED
    BY <2>3, <2>4
<1>2. L \in 0..L
  OBVIOUS
<1>3. QED
  BY <1>1, <1>2 DEF Iterates

LEMMA Indices ==
  ASSUME NEW S, NEW s \in Seq(S)
  PROVE  /\ Len(s) \in Nat /\ DOMAIN s = 1..Len(s)
         /\ \A i \in 1..Len(s) : s[i] \in S /\ i \in Nat
BY LenProperties, ElementOfSeq

\* What holds at first and is kept by every step holds throughout.
LEMMA Throughout ==
  ASSUME NEW S, NEW L \in Nat, NEW e, e[0] \in S,
         \A k \in 1..L : e[k - 1] \in S => e[k] \in S
  PROVE  \A k \in 0..L : e[k] \in S
<1> DEFINE T == {m \in 0..L : e[m] \notin S}
<1>1. T = {}
  <2> SUFFICES ASSUME T # {}
               PROVE  FALSE
    OBVIOUS
  <2>1. PICK m \in T : \A j \in T : m <= j
    <3>1. T \subseteq Nat
      OBVIOUS
    <3>2. QED
      BY <3>1, SmallestExists
  <2>2. m \in 1..L /\ m - 1 \in 0..L /\ ~(m <= m - 1)
    OBVIOUS
  <2>3. m - 1 \notin T
    BY <2>1, <2>2
  <2>4. QED
    BY <2>1, <2>2, <2>3
<1>2. QED
  BY <1>1

-----------------------------------------------------------------------------
(* What a description is compiled to. *)

Sections == {section \in SUBSET Entries : IsFiniteSet(section)}
Lengths == [Targets -> Nat]

LEMMA Durations ==
  ASSUME NEW e \in Entries, NEW cycles \in Lengths
  PROVE  Duration(e, cycles) \in Nat \ {0}
<1> DEFINE c == cycles[e.target]
<1>1. c \in Nat /\ e.cycles \in Nat
  BY DEF Entries, Lengths
<1>2. {1, c} \subseteq Nat /\ {1, c} # {} /\ IsFiniteSet({1, c})
  <2>1. IsFiniteSet({1}) /\ {1} \cup {c} = {1, c}
    BY FS_Singleton
  <2>2. QED
    BY <1>1, <2>1, FS_AddElement
<1>3. Max({1, c}) \in {1, c} /\ Max({1, c}) >= 1
  BY <1>2, MaxIs
<1>4. Max({1, c}) \in Nat \ {0}
  BY <1>1, <1>3
<1>5. QED
  BY <1>1, <1>4 DEF Duration

LEMMA SectionLengths ==
  ASSUME NEW section \in Sections, NEW cycles \in Lengths
  PROVE  SectionLength(section, cycles) \in Nat
<1> DEFINE f == [e \in section |-> e.delay + Duration(e, cycles)]
           ends == {e.delay + Duration(e, cycles) : e \in section}
<1>1. ends \subseteq Nat
  <2>1. ASSUME NEW e \in section PROVE e.delay + Duration(e, cycles) \in Nat
    <3>1. e \in Entries /\ e.delay \in Nat
      BY DEF Sections, Entries
    <3>2. QED
      BY <3>1, Durations
  <2>2. QED
    BY <2>1
<1>2. IsFiniteSet(ends)
  <2>1. f \in Surjection(section, ends)
    BY DEF Surjection
  <2>2. QED
    BY <2>1, FS_Surjection DEF Sections
<1>3. IsFiniteSet({0} \cup ends) /\ {0} \cup ends \subseteq Nat /\ {0} \cup ends # {}
  <2>1. {0} \cup ends = ends \cup {0}
    OBVIOUS
  <2>2. QED
    BY <1>1, <1>2, <2>1, FS_AddElement
<1>4. Max({0} \cup ends) \in Nat
  BY <1>3, MaxIs
<1>5. QED
  BY <1>4 DEF SectionLength

LEMMA Origins ==
  ASSUME NEW timeline \in Seq(Sections), NEW cycles \in Lengths
  PROVE  \A k \in 1..(Len(timeline) + 1) : Origin(timeline, k, cycles) \in Nat
<1> DEFINE L == Len(timeline)
           g == [j \in 1..L |-> [x \in Nat |-> x + SectionLength(timeline[j], cycles)]]
           Is(h) == h = [j \in 0..Len(timeline) |->
                           IF j = 0 THEN 0 ELSE h[j - 1] + SectionLength(timeline[j], cycles)]
           e == CHOOSE h : Is(h)
<1>1. /\ L \in Nat
      /\ \A j \in 1..L : SectionLength(timeline[j], cycles) \in Nat
  BY Indices, SectionLengths
<1>2. PICK f : Iterates(f, Nat, L, 0, g)
  <2>1. g \in [1..L -> [Nat -> Nat]] /\ 0 \in Nat
    BY <1>1
  <2> HIDE DEF g
  <2>2. QED
    BY <1>1, <2>1, Iteration
<1>3. Is(f)
  <2>1. f \in [0..L -> Nat] /\ f[0] = 0 /\ \A k \in 1..L : f[k] = g[k][f[k - 1]]
    BY <1>2 DEF Iterates
  <2>2. ASSUME NEW j \in 0..L, j # 0
        PROVE  f[j] = f[j - 1] + SectionLength(timeline[j], cycles)
    <3>1. j \in 1..L /\ j - 1 \in 0..L
      BY <1>1, <2>2
    <3>2. f[j - 1] \in Nat
      BY <2>1, <3>1
    <3>3. g[j][f[j - 1]] = f[j - 1] + SectionLength(timeline[j], cycles)
      BY <3>1, <3>2
    <3>4. QED
      BY <2>1, <3>1, <3>3
  <2>3. QED
    BY <2>1, <2>2
<1>4. Is(e)
  BY <1>3
<1>5. \A k \in 1..(L + 1) : Origin(timeline, k, cycles) = e[k - 1]
  BY DEF Origin
<1> HIDE DEF e
<1>6. e[0] \in Nat
  <2>1. 0 \in 0..L
    BY <1>1
  <2>2. QED
    BY <1>4, <2>1
<1>7. ASSUME NEW j \in 1..L, e[j - 1] \in Nat
      PROVE  e[j] \in Nat
  <2>1. j \in 0..L /\ j # 0
    BY <1>1
  <2>2. e[j] = e[j - 1] + SectionLength(timeline[j], cycles)
    BY <1>4, <2>1
  <2>3. QED
    BY <1>1, <1>7, <2>2
<1>8. \A k \in 0..L : e[k] \in Nat
  BY <1>1, <1>6, <1>7, Throughout
<1>9. ASSUME NEW k \in 1..(L + 1) PROVE k - 1 \in 0..L
  BY <1>1
<1>10. QED
  BY <1>5, <1>8, <1>9

LEMMA ModeRanks ==
  /\ \A a \in DOMAIN ModeRank : ModeRank[a] \in Nat
  /\ \A a, b \in DOMAIN ModeRank : ModeRank[a] = ModeRank[b] => a = b
  /\ DOMAIN ModeRank = Modes \cup {"Inherit"}
BY DEF ModeRank, Modes

IsOccurrence(o, cycles) ==
  /\ o \in [target : Targets, start : Nat, end : Nat, mode : DOMAIN ModeRank, empty : BOOLEAN]
  /\ o.start < o.end /\ o.empty = (cycles[o.target] = 0)

LEMMA OccurrencesAre ==
  ASSUME NEW description \in Descriptions, NEW cycles \in Lengths,
         NEW o \in Occurrences(description, cycles)
  PROVE  IsOccurrence(o, cycles) /\ (o.target \in Loops => o.target \in Named(description))
<1> DEFINE At(i, k) == Origin(description[i], k, cycles)
           Occ(i, k, e) == [target |-> e.target, start |-> At(i, k) + e.delay,
                            end |-> At(i, k) + e.delay + Duration(e, cycles),
                            mode |-> e.mode, empty |-> cycles[e.target] = 0]
           InSection(i, k) == {Occ(i, k, e) : e \in description[i][k]}
           InTimeline(i) == UNION {InSection(i, k) : k \in DOMAIN description[i]}
<1>1. PICK i \in DOMAIN description : o \in InTimeline(i)
  <2>1. Occurrences(description, cycles) = UNION {InTimeline(i) : i \in DOMAIN description}
    BY DEF Occurrences
  <2> HIDE DEF InTimeline
  <2>2. QED
    BY <2>1
<1>20. PICK k \in DOMAIN description[i] : o \in InSection(i, k)
  <2> HIDE DEF InSection
  <2>1. QED
    BY <1>1
<1>21. PICK e \in description[i][k] : o = Occ(i, k, e)
  BY <1>20
<1>2. description \in Seq(Seq(Sections))
  BY DEF Descriptions, Sections
<1>3. description[i] \in Seq(Sections) /\ i \in 1..Len(description)
  BY <1>2, Indices
<1>4. k \in 1..Len(description[i]) /\ description[i][k] \in Sections
  BY <1>3, Indices
<1>5. e \in Entries
  BY <1>4 DEF Sections
<1>6. At(i, k) \in Nat
  <2>1. k \in 1..(Len(description[i]) + 1)
    BY <1>3, <1>4, Indices
  <2>2. QED
    BY <1>3, <2>1, Origins
<1>7. e.target \in Targets /\ e.delay \in Nat /\ e.mode \in DOMAIN ModeRank
  BY <1>5 DEF Entries
<1>8. Duration(e, cycles) \in Nat \ {0}
  BY <1>5, Durations
<1> HIDE DEF At
<1>9. IsOccurrence(o, cycles)
  BY <1>21, <1>6, <1>7, <1>8 DEF IsOccurrence
<1>10. ASSUME o.target \in Loops PROVE o.target \in Named(description)
  <2> DEFINE timelines == {description[x] : x \in DOMAIN description}
             In(section) == {z.target : z \in section}
             Of(timeline) == UNION {In(timeline[y]) : y \in DOMAIN timeline}
  <2>1. description[i] \in timelines /\ o.target \in In(description[i][k])
    BY <1>21
  <2> HIDE DEF In
  <2>2. o.target \in Of(description[i])
    BY <2>1
  <2> HIDE DEF Of
  <2> DEFINE everything == UNION {Of(timeline) : timeline \in timelines}
  <2>3. o.target \in everything
    BY <2>1, <2>2
  <2>4. Named(description) = Loops \cap everything
    BY Zenon DEF Named, Of, In
  <2> HIDE DEF everything
  <2>5. QED
    BY <1>10, <2>3, <2>4
<1>11. QED
  BY <1>9, <1>10

\* Two occurrences of one target are written one after the other.
LEMMA Ordered ==
  ASSUME NEW cycles, NEW o, NEW p, IsOccurrence(o, cycles), IsOccurrence(p, cycles),
         o.target = p.target, ~Precedes(o, p), ~Precedes(p, o)
  PROVE  o = p
<1>1. /\ o.start \in Nat /\ p.start \in Nat /\ o.end \in Nat /\ p.end \in Nat
      /\ o.mode \in DOMAIN ModeRank /\ p.mode \in DOMAIN ModeRank
      /\ o.empty = p.empty
  BY DEF IsOccurrence
<1>2. o.start = p.start /\ o.end = p.end
  BY <1>1 DEF Precedes
<1>3. ModeRank[o.mode] = ModeRank[p.mode]
  BY <1>1, <1>2, ModeRanks DEF Precedes
<1>4. o.mode = p.mode
  BY <1>1, <1>3, ModeRanks
<1>5. /\ o = [target |-> o.target, start |-> o.start, end |-> o.end, mode |-> o.mode,
              empty |-> o.empty]
      /\ p = [target |-> p.target, start |-> p.start, end |-> p.end, mode |-> p.mode,
              empty |-> p.empty]
  BY DEF IsOccurrence
<1>6. QED
  BY <1>1, <1>2, <1>4, <1>5

\* What is written to the table: at most one cell for each iteration and target.
AtMostOne(cells) == \A c, d \in cells : c.at = d.at /\ c.target = d.target => c = d

LEMMA WrittenCells ==
  ASSUME NEW cycles, NEW all, \A o \in all : IsOccurrence(o, cycles),
         NEW some \in SUBSET all
  PROVE  /\ AtMostOne(Written(some, all))
         /\ \A c \in Written(some, all) : /\ c \in Cells /\ c.start <= c.at
                                          /\ \E o \in all : o.target = c.target
<1> DEFINE Last(o, i) ==
             Covers(o, i) /\ ~\E p \in some : p.target = o.target /\ Covers(p, i) /\ Precedes(o, p)
           From(c, o, i) == /\ o \in some /\ i \in o.start..o.end /\ Last(o, i)
                            /\ c = Cell(o, i, all)
<1>1. ASSUME NEW c \in Written(some, all) PROVE \E o, i : From(c, o, i)
  <2>1. PICK o \in some : c \in {Cell(o, i, all) : i \in {i \in o.start..o.end : Last(o, i)}}
    BY DEF Written
  <2>2. PICK i \in o.start..o.end : Last(o, i) /\ c = Cell(o, i, all)
    BY <2>1
  <2>3. From(c, o, i)
    BY <2>2
  <2>4. QED
    BY <2>3
<1>2. ASSUME NEW c, NEW o, NEW i, From(c, o, i)
      PROVE  c \in Cells /\ c.start <= c.at /\ c.target = o.target /\ c.at = i
  <2>1. IsOccurrence(o, cycles) /\ o.start <= i /\ i < o.end
    BY <1>2 DEF Covers
  <2>2. o.start \in Nat /\ o.end \in Nat /\ i \in Nat /\ o.end - o.start \in Nat \ {0}
    BY <1>2, <2>1 DEF IsOccurrence
  <2>3. o.target \in Targets /\ o.mode \in DOMAIN ModeRank
    BY <2>1 DEF IsOccurrence
  <2>4. QED
    BY <1>2, <2>1, <2>2, <2>3 DEF Cell, Cells
<1>3. ASSUME NEW c \in Written(some, all), NEW d \in Written(some, all),
             c.at = d.at, c.target = d.target
      PROVE  c = d
  <2>1. PICK o, i : From(c, o, i)
    BY <1>1
  <2>2. PICK p, j : From(d, p, j)
    BY <1>1
  <2>3. i = j /\ o.target = p.target
    BY <1>2, <1>3, <2>1, <2>2
  <2>4. ~Precedes(o, p) /\ ~Precedes(p, o)
    BY <2>1, <2>2, <2>3
  <2>5. o = p
    BY <2>1, <2>2, <2>3, <2>4, Ordered
  <2>6. QED
    BY <2>1, <2>2, <2>3, <2>5
<1>4. ASSUME NEW c \in Written(some, all)
      PROVE  c \in Cells /\ c.start <= c.at /\ \E o \in all : o.target = c.target
  <2>1. PICK o, i : From(c, o, i)
    BY <1>1
  <2>2. QED
    BY <1>2, <2>1
<1>5. QED
  BY <1>3, <1>4 DEF AtMostOne

\* A plan in whose table every target has one cell for each iteration.
Sound(plan) ==
  /\ plan \in Plans
  /\ \A c \in plan.desired \cup plan.first : c.target \in plan.targets /\ c.start <= c.at
  /\ AtMostOne(plan.desired) /\ AtMostOne(plan.first)

LEMMA NoPlanSound == Sound(NoPlan)
BY DEF Sound, NoPlan, Plans, AtMostOne

LEMMA CompileSound ==
  ASSUME NEW n \in Nodes, NEW description \in Descriptions, NEW cycles \in Lengths
  PROVE  LET plan == Compile(n, description, cycles)
         IN  /\ Sound(plan) /\ plan.source = n /\ plan # NoPlan
             /\ plan.targets \cap Loops \subseteq Named(description)
<1> DEFINE all == Occurrences(description, cycles)
           firsts == IF Kind(all) = "Regular" THEN Written(Firsts(all), all) ELSE {}
           ends == {TimelineLength(description[i], cycles) : i \in DOMAIN description}
           length == Max({0} \cup ends)
           targets == {o.target : o \in all}
           plan == Compile(n, description, cycles)
<1>1. \A o \in all : IsOccurrence(o, cycles)
  BY OccurrencesAre
<1>2. \A o \in all : o.target \in Loops => o.target \in Named(description)
  BY OccurrencesAre
<1>3. Kind(all) \in {"Script", "Regular"}
  BY DEF Kind
<1> HIDE DEF all
<1>4. /\ AtMostOne(Written(all, all))
      /\ \A c \in Written(all, all) : c \in Cells /\ c.start <= c.at /\ \E o \in all : o.target = c.target
  BY <1>1, WrittenCells
<1>5. /\ AtMostOne(firsts)
      /\ \A c \in firsts : c \in Cells /\ c.start <= c.at /\ \E o \in all : o.target = c.target
  <2>1. Firsts(all) \in SUBSET all
    BY DEF Firsts
  <2>2. CASE Kind(all) = "Regular"
    <3> HIDE DEF firsts
    <3>1. firsts = Written(Firsts(all), all)
      BY <2>2 DEF firsts
    <3>2. QED
      BY <1>1, <2>1, <3>1, WrittenCells
  <2>3. CASE Kind(all) # "Regular"
    BY <2>3 DEF AtMostOne
  <2>4. QED
    BY <2>2, <2>3
<1>6. length \in Nat
  <2>1. description \in Seq(Seq(Sections))
    BY DEF Descriptions, Sections
  <2>2. Len(description) \in Nat /\ DOMAIN description = 1..Len(description)
    BY <2>1, Indices
  <2>3. ASSUME NEW i \in DOMAIN description
        PROVE  TimelineLength(description[i], cycles) \in Nat
    <3>1. description[i] \in Seq(Sections)
      BY <2>1, <2>2, Indices
    <3>2. Len(description[i]) + 1 \in 1..(Len(description[i]) + 1)
      BY <3>1, Indices
    <3>3. QED
      BY <3>1, <3>2, Origins DEF TimelineLength
  <2>4. IsFiniteSet(ends) /\ ends \subseteq Nat
    <3> DEFINE f == [i \in DOMAIN description |-> TimelineLength(description[i], cycles)]
    <3>1. f \in Surjection(DOMAIN description, ends)
      BY DEF Surjection
    <3>2. IsFiniteSet(DOMAIN description)
      BY <2>2, FS_Interval
    <3>3. IsFiniteSet(ends)
      BY <3>1, <3>2, FS_Surjection
    <3>4. QED
      BY <2>3, <3>3
  <2> HIDE DEF ends
  <2>5. IsFiniteSet({0} \cup ends) /\ {0} \cup ends \subseteq Nat /\ {0} \cup ends # {}
    <3>1. {0} \cup ends = ends \cup {0}
      OBVIOUS
    <3>2. QED
      BY <2>4, <3>1, FS_AddElement
  <2>6. QED
    BY <2>5, MaxIs
<1>7. targets \subseteq Targets
  BY <1>1 DEF IsOccurrence
<1>8. plan = [source |-> n, kind |-> Kind(all), length |-> length, targets |-> targets,
              desired |-> Written(all, all), first |-> firsts]
  BY DEF Compile, all
<1> HIDE DEF plan, length, firsts, targets
<1>9. plan \in Plans
  BY <1>3, <1>4, <1>5, <1>6, <1>7, <1>8 DEF Plans
<1>10. ASSUME NEW c \in Written(all, all) \cup firsts
       PROVE  c.target \in targets /\ c.start <= c.at
  BY <1>4, <1>5 DEF targets
<1>11. Sound(plan)
  BY <1>4, <1>5, <1>8, <1>9, <1>10 DEF Sound
<1>12. plan.source = n /\ plan # NoPlan
  BY <1>3, <1>8 DEF NoPlan
<1>13. plan.targets \cap Loops \subseteq Named(description)
  BY <1>2, <1>8 DEF targets
<1>14. QED
  BY <1>11, <1>12, <1>13 DEF plan

LEMMA LoopLengthsAre ==
  ASSUME NEW held
  PROVE  LoopLengths(held) \in Lengths
BY DEF LoopLengths, Lengths

LEMMA InitialLengthsAre ==
  ASSUME NEW held
  PROVE  InitialLengths(held) \in Lengths
<1> DEFINE L == Len(Order)
           Built(known, n) == [known EXCEPT ![n] = Compile(n, Initial[n], known).length]
           At(k) == Order[Len(Order) + 1 - k]
           g == [k \in 1..L |-> [known \in Lengths |-> Built(known, At(k))]]
           Is(h) == h = [k \in 0..Len(Order) |->
                           IF k = 0 THEN LoopLengths(held) ELSE Built(h[k - 1], At(k))]
           e == CHOOSE h : Is(h)
<1>1. L \in Nat /\ \A k \in 1..L : At(k) \in Nodes
  <2>1. L \in Nat /\ \A k \in 1..L : Order[k] \in Nodes
    BY OrderAssumption, Indices
  <2>2. ASSUME NEW k \in 1..L PROVE L + 1 - k \in 1..L
    BY <2>1
  <2>3. QED
    BY <2>1, <2>2
<1>2. ASSUME NEW known \in Lengths, NEW n \in Nodes
      PROVE  Built(known, n) \in Lengths
  <2>1. Compile(n, Initial[n], known).length \in Nat
    BY CompileSound, DescriptionsAssumption DEF Sound, Plans
  <2>2. QED
    BY <2>1 DEF Lengths
<1> HIDE DEF At, Built
<1>3. PICK f : Iterates(f, Lengths, L, LoopLengths(held), g)
  <2>1. g \in [1..L -> [Lengths -> Lengths]] /\ LoopLengths(held) \in Lengths
    BY <1>1, <1>2, LoopLengthsAre
  <2> HIDE DEF g
  <2>2. QED
    BY <1>1, <2>1, Iteration
<1>4. Is(f)
  <2>1. /\ f \in [0..L -> Lengths] /\ f[0] = LoopLengths(held)
        /\ \A k \in 1..L : f[k] = g[k][f[k - 1]]
    BY <1>3 DEF Iterates
  <2>2. ASSUME NEW k \in 0..L, k # 0
        PROVE  f[k] = Built(f[k - 1], At(k))
    <3>1. k \in 1..L /\ k - 1 \in 0..L
      BY <1>1, <2>2
    <3>2. f[k - 1] \in Lengths
      BY <2>1, <3>1
    <3>3. g[k][f[k - 1]] = Built(f[k - 1], At(k))
      BY <3>1, <3>2
    <3>4. QED
      BY <2>1, <3>1, <3>3
  <2>3. QED
    BY <2>1, <2>2
<1>5. Is(e)
  BY <1>4
<1>6. InitialLengths(held) = e[L]
  BY DEF InitialLengths, At, Built
<1> HIDE DEF e
<1>7. e[0] \in Lengths
  <2>1. 0 \in 0..L
    BY <1>1
  <2>2. QED
    BY <1>5, <2>1, LoopLengthsAre
<1>8. ASSUME NEW k \in 1..L, e[k - 1] \in Lengths
      PROVE  e[k] \in Lengths
  <2>1. k \in 0..L /\ k # 0
    BY <1>1
  <2>2. e[k] = Built(e[k - 1], At(k))
    BY <1>5, <2>1
  <2>3. QED
    BY <1>1, <1>2, <1>8, <2>2
<1>9. \A k \in 0..L : e[k] \in Lengths
  BY <1>1, <1>7, <1>8, Throughout
<1>10. L \in 0..L
  BY <1>1
<1>11. QED
  BY <1>6, <1>9, <1>10

-----------------------------------------------------------------------------
(* What an operation of the runtime does to the targets. *)

PlainModes == Modes \ {"Unknown"}
Outputs == [target : Targets, mode : PlainModes, offset : Nat]

OneMode(active) == \A a, b \in active : a.target = b.target => a = b

\* What is active says that target t is in this mode.
Shows(active, t, mode) ==
  IF mode = "Stopped" THEN \A a \in active : a.target # t
  ELSE [target |-> t, mode |-> mode] \in active

\* A target that is told anything is told one thing, which is what is then
\* active of it; of the others the same is active as before.
Delivers(before, after, out, L) ==
  /\ \A o, p \in out : o.target = p.target => o = p
  /\ \A o \in out : o.target \in L /\ Shows(after, o.target, o.mode)
  /\ \A t \in L : (\A o \in out : o.target # t) =>
       \A a \in before \cup after : a.target = t => a \in before /\ a \in after

Matching(active, wanted, L) ==
  \A t \in L, m \in Modes :
    [target |-> t, mode |-> m] \in active <=> \E w \in wanted : w.target = t /\ w.mode = m

\* What is active is what the plan wants in this iteration.
Follows(rt, plan, L) ==
  rt.mode # "Stopped" =>
    \E recorded \in BOOLEAN :
      /\ recorded => rt.iteration = 0
      /\ Matching(rt.active, Wanted(plan, rt.iteration, rt.mode, recorded), L)

\* One thing is wanted of a target, and that is no stop.
Wishes(wanted, T) ==
  /\ wanted \subseteq Outputs
  /\ \A v, w \in wanted : v.target = w.target => v = w
  /\ \A w \in wanted : w.mode # "Stopped" /\ w.target \in T

IsActive(active, T) ==
  /\ active \subseteq [target : Targets, mode : Modes] /\ OneMode(active)
  /\ \A a \in active : a.target \in T /\ a.mode \notin {"Stopped", "Unknown"}

LEMMA WantedWishes ==
  ASSUME NEW plan, Sound(plan), NEW iteration \in Nat, NEW mode \in PlainModes, NEW recorded
  PROVE  Wishes(Wanted(plan, iteration, mode, recorded), plan.targets)
<1> DEFINE cells == {c \in Table(plan, mode) : c.at = iteration /\ ~Silent(c, mode, recorded)}
           Wish(c) == [target |-> c.target, mode |-> Asked(c, mode),
                       offset |-> Offset(c, Asked(c, mode), iteration)]
           wanted == Wanted(plan, iteration, mode, recorded)
<1>1. wanted = {Wish(c) : c \in cells}
  BY DEF Wanted
<1>2. /\ \A c \in cells : c \in Cells /\ c.target \in plan.targets /\ c.start <= iteration
      /\ \A c, d \in cells : c.target = d.target => c = d
  <2>1. Table(plan, mode) = plan.first \/ Table(plan, mode) = plan.desired
    BY DEF Table
  <2>2. AtMostOne(Table(plan, mode))
    BY <2>1 DEF Sound
  <2>3. \A c \in Table(plan, mode) : c \in Cells /\ c.target \in plan.targets /\ c.start <= c.at
    BY <2>1 DEF Sound, Plans
  <2>4. QED
    BY <2>2, <2>3 DEF AtMostOne
<1>3. ASSUME NEW c \in cells
      PROVE  Wish(c) \in Outputs /\ Wish(c).mode # "Stopped" /\ Wish(c).target \in plan.targets
  <2>1. c \in Cells /\ c.target \in plan.targets /\ c.start <= iteration
    BY <1>2
  <2>2. /\ c.target \in Targets /\ c.mode \in DOMAIN ModeRank /\ c.start \in Nat
        /\ c.duration \in Nat \ {0}
    BY <2>1 DEF Cells
  <2>3. Asked(c, mode) \in Modes \ {"Stopped", "Unknown"}
    <3>1. Asked(c, mode) \notin {"Stopped", "Unknown"}
      BY DEF Silent
    <3>2. Asked(c, mode) \in Modes
      BY <2>2, ModeRanks DEF Asked, PlainModes
    <3>3. QED
      BY <3>1, <3>2
  <2>4. Offset(c, Asked(c, mode), iteration) \in Nat
    <3>1. iteration - c.start \in Nat
      BY <2>1, <2>2
    <3>2. (iteration - c.start) % c.duration \in Nat
      BY <2>2, <3>1
    <3>3. QED
      BY <3>1, <3>2 DEF Offset
  <2>5. QED
    BY <2>1, <2>2, <2>3, <2>4 DEF Outputs, PlainModes
<1> HIDE DEF cells, wanted
<1>4. wanted \subseteq Outputs
  BY <1>1, <1>3
<1>5. ASSUME NEW v \in wanted, NEW w \in wanted, v.target = w.target PROVE v = w
  <2>1. PICK c \in cells : v = Wish(c)
    BY <1>1
  <2>2. PICK d \in cells : w = Wish(d)
    BY <1>1
  <2>3. c = d
    BY <1>2, <1>5, <2>1, <2>2
  <2>4. QED
    BY <2>1, <2>2, <2>3
<1>6. \A w \in wanted : w.mode # "Stopped" /\ w.target \in plan.targets
  <2>1. ASSUME NEW w \in wanted PROVE w.mode # "Stopped" /\ w.target \in plan.targets
    <3>1. PICK c \in cells : w = Wish(c)
      BY <1>1
    <3>2. QED
      BY <1>3, <3>1
  <2>2. QED
    BY <2>1
<1>7. QED
  BY <1>4, <1>5, <1>6 DEF Wishes, wanted

\* What reconciling with what is wanted of some of the targets T leads to.
Brings(rt, r, wanted, T, L) ==
  /\ r.ok /\ r.rt \in Runtimes /\ r.rt = [rt EXCEPT !.active = r.rt.active]
  /\ IsActive(r.rt.active, T)
  /\ r.out \subseteq Outputs
  /\ \A o \in r.out : o.target \in rt.targets \cup T
  /\ Delivers(rt.active, r.rt.active, r.out, L)
  /\ Matching(r.rt.active, wanted, L)

LEMMA ReconcileBrings ==
  ASSUME NEW rt \in Runtimes, NEW T, IsActive(rt.active, rt.targets), T \subseteq Targets,
         rt.targets \subseteq Targets,
         NEW wanted, Wishes(wanted, T), NEW seek \in BOOLEAN, NEW L
  PROVE  Brings(rt, Reconcile(rt, wanted, seek, L), wanted, T, L)
<1> DEFINE Has(w) == [target |-> w.target, mode |-> w.mode] \in rt.active
           told == {w \in wanted : \/ ~Has(w) \/ seek
                                   \/ rt.iteration = 0 /\ w.target \in Nodes}
           over == {a.target : a \in rt.active} \ {w.target : w \in wanted}
           kept == {w \in wanted : w \notin told \/ w.target \in L}
           active == {[target |-> w.target, mode |-> w.mode] : w \in kept}
           out == Halt(over \cap L) \cup {w \in told : w.target \in L}
           r == Reconcile(rt, wanted, seek, L)
<1>1. r = [rt |-> [rt EXCEPT !.active = active], out |-> out, ok |-> TRUE]
  BY DEF Reconcile, Done
<1>2. \A w \in wanted : /\ w.target \in Targets /\ w.mode \in PlainModes /\ w.offset \in Nat
                        /\ w.mode # "Stopped" /\ w.target \in T
  BY DEF Wishes, Outputs
<1>3. \A v, w \in wanted : v.target = w.target => v = w
  BY DEF Wishes
<1>4. /\ \A a \in rt.active : /\ a \in [target : Targets, mode : Modes]
                              /\ a.target \in rt.targets /\ a.mode \notin {"Stopped", "Unknown"}
      /\ OneMode(rt.active)
  BY DEF IsActive
<1>5. IsActive(active, T)
  <2>1. ASSUME NEW a \in active
        PROVE  /\ a \in [target : Targets, mode : Modes]
               /\ a.target \in T /\ a.mode \notin {"Stopped", "Unknown"}
    <3>1. PICK w \in kept : a = [target |-> w.target, mode |-> w.mode]
      OBVIOUS
    <3>2. QED
      BY <1>2, <3>1 DEF PlainModes
  <2>2. ASSUME NEW a \in active, NEW b \in active, a.target = b.target
        PROVE  a = b
    <3>1. PICK v \in kept : a = [target |-> v.target, mode |-> v.mode]
      OBVIOUS
    <3>2. PICK w \in kept : b = [target |-> w.target, mode |-> w.mode]
      OBVIOUS
    <3>3. v = w
      BY <1>3, <2>2, <3>1, <3>2
    <3>4. QED
      BY <3>1, <3>2, <3>3
  <2> HIDE DEF active
  <2>3. OneMode(active)
    BY <2>2 DEF OneMode
  <2>4. QED
    BY <2>1, <2>3 DEF IsActive
<1>6. \A o \in Halt(over \cap L) : /\ o \in Outputs /\ o.mode = "Stopped" /\ o.target \in over /\ o.target \in L
                                   /\ o.target \in rt.targets
                                   /\ o = [target |-> o.target, mode |-> "Stopped", offset |-> 0]
  BY <1>4 DEF Halt, Outputs, PlainModes, Modes
<1>7. out \subseteq Outputs /\ \A o \in out : o.target \in rt.targets \cup T
  <2>1. \A w \in told : w \in Outputs /\ w.target \in T
    BY <1>2 DEF Wishes
  <2>2. QED
    BY <1>6, <2>1
<1>8. Delivers(rt.active, active, out, L)
  <2>1. ASSUME NEW o \in out, NEW p \in out, o.target = p.target PROVE o = p
    BY <1>3, <1>6, <2>1
  <2>2. ASSUME NEW o \in out PROVE o.target \in L /\ Shows(active, o.target, o.mode)
    <3>1. CASE o \in Halt(over \cap L)
      <4>1. o.mode = "Stopped" /\ o.target \in L /\ o.target \in over
        BY <1>6, <3>1
      <4>2. ASSUME NEW a \in active PROVE a.target # o.target
        <5>1. PICK w \in kept : a = [target |-> w.target, mode |-> w.mode]
          OBVIOUS
        <5>2. QED
          BY <4>1, <5>1
      <4>3. QED
        BY <4>1, <4>2 DEF Shows
    <3>2. CASE o \in told /\ o.target \in L
      BY <1>2, <3>2 DEF Shows
    <3>3. QED
      BY <2>2, <3>1, <3>2
  <2>3. ASSUME NEW t \in L, \A o \in out : o.target # t,
               NEW a \in rt.active \cup active, a.target = t
        PROVE  a \in rt.active /\ a \in active
    <3>1. t \notin over
      <4>1. SUFFICES ASSUME t \in over PROVE FALSE
        OBVIOUS
      <4> DEFINE o == [target |-> t, mode |-> "Stopped", offset |-> 0]
      <4>2. o \in Halt(over \cap L)
        BY <2>3, <4>1 DEF Halt
      <4>3. o \in out /\ o.target = t
        BY <4>2
      <4>4. QED
        BY <2>3, <4>3
    <3>2. \A w \in wanted : w.target = t => w \notin told
      BY <2>3
    <3>3. CASE a \in active
      <4>1. PICK w \in kept : a = [target |-> w.target, mode |-> w.mode]
        BY <3>3
      <4>2. Has(w)
        BY <2>3, <3>2, <4>1
      <4>3. QED
        BY <3>3, <4>1, <4>2
    <3>4. CASE a \in rt.active
      <4>1. PICK w \in wanted : w.target = t
        BY <2>3, <3>1, <3>4
      <4>2. w \notin told /\ w \in kept /\ Has(w)
        BY <3>2, <4>1
      <4>3. [target |-> w.target, mode |-> w.mode] = a
        BY <1>4, <2>3, <3>4, <4>1, <4>2 DEF OneMode
      <4>4. [target |-> w.target, mode |-> w.mode] \in active
        BY <4>2
      <4>5. QED
        BY <3>4, <4>3, <4>4
    <3>5. QED
      BY <2>3, <3>3, <3>4
  <2>4. QED
    BY <2>1, <2>2, <2>3 DEF Delivers
<1>9. Matching(active, wanted, L)
  <2>1. ASSUME NEW t \in L, NEW m \in Modes
        PROVE  [target |-> t, mode |-> m] \in active <=> \E w \in wanted : w.target = t /\ w.mode = m
    <3>1. ASSUME [target |-> t, mode |-> m] \in active
          PROVE  \E w \in wanted : w.target = t /\ w.mode = m
      BY <3>1
    <3>2. ASSUME NEW w \in wanted, w.target = t, w.mode = m
          PROVE  [target |-> t, mode |-> m] \in active
      BY <3>2
    <3>3. QED
      BY <3>1, <3>2
  <2>2. QED
    BY <2>1 DEF Matching
<1> HIDE DEF active, out
<1>10. /\ r.rt = [rt EXCEPT !.active = active] /\ r.out = out /\ r.ok
       /\ r.rt.active = active /\ r.rt \in Runtimes
  <2>1. [rt EXCEPT !.active = active] \in Runtimes /\ [rt EXCEPT !.active = active].active = active
    BY <1>5 DEF Runtimes, IsActive
  <2> HIDE DEF r
  <2>2. QED
    BY <1>1, <2>1
<1>11. QED
  BY <1>5, <1>7, <1>8, <1>9, <1>10 DEF Brings

-----------------------------------------------------------------------------
(* The operations of the runtime. *)

\* The runtime belongs to the plan.
Settled(rt, plan) ==
  rt \in Runtimes /\ rt.targets = plan.targets /\ IsActive(rt.active, plan.targets)

\* What an operation that succeeds leads to.
Yields(rt, r, plan, L) ==
  r.ok => /\ Settled(r.rt, plan) /\ Follows(r.rt, plan, L)
          /\ r.out \subseteq Outputs
          /\ \A o \in r.out : o.target \in rt.targets \cup plan.targets
          /\ Delivers(rt.active, r.rt.active, r.out, L)

LEMMA RuntimeFields ==
  ASSUME NEW rt \in Runtimes
  PROVE  /\ rt.mode \in PlainModes /\ rt.iteration \in Nat /\ rt.pending \in Transitions
         /\ rt.targets \subseteq Targets /\ rt.playAfter \in BOOLEAN
         /\ rt.active \subseteq [target : Targets, mode : Modes]
BY DEF Runtimes, PlainModes

LEMMA NothingDelivered ==
  ASSUME NEW active, NEW L
  PROVE  Delivers(active, active, {}, L)
BY DEF Delivers

LEMMA SilenceEmpties ==
  ASSUME NEW rt \in Runtimes, IsActive(rt.active, rt.targets), NEW L
  PROVE  LET r == Silence(rt, L)
         IN  /\ r.ok /\ r.rt = [rt EXCEPT !.active = {}] /\ r.rt \in Runtimes
             /\ r.out \subseteq Outputs /\ \A o \in r.out : o.target \in rt.targets
             /\ Delivers(rt.active, {}, r.out, L)
<1> DEFINE r == Silence(rt, L)
<1>1. Wishes({}, {}) /\ rt.targets \subseteq Targets
  BY RuntimeFields DEF Wishes
<1>2. /\ r.ok /\ r.rt \in Runtimes /\ r.rt = [rt EXCEPT !.active = r.rt.active]
      /\ IsActive(r.rt.active, {}) /\ r.out \subseteq Outputs
      /\ \A o \in r.out : o.target \in rt.targets \cup {}
      /\ Delivers(rt.active, r.rt.active, r.out, L)
  <2>1. Brings(rt, r, {}, {}, L)
    BY <1>1, ReconcileBrings DEF Silence
  <2> HIDE DEF r
  <2>2. QED
    BY <2>1 DEF Brings
<1> HIDE DEF r
<1>3. r.rt.active = {}
  BY <1>2 DEF IsActive
<1>4. QED
  BY <1>2, <1>3 DEF r

Enters(rt, r, plan, L) ==
  r.ok /\ r.rt.iteration = rt.iteration /\ Yields(rt, r, plan, L)

LEMMA EnterYields ==
  ASSUME NEW plan, Sound(plan), NEW rt, Settled(rt, plan), NEW seek \in BOOLEAN,
         NEW recorded \in BOOLEAN, recorded => rt.iteration = 0, NEW L
  PROVE  Enters(rt, Enter(rt, plan, seek, recorded, L), plan, L)
<1> DEFINE r == Enter(rt, plan, seek, recorded, L)
           wanted == Wanted(plan, rt.iteration, rt.mode, recorded)
<1>1. /\ rt \in Runtimes /\ rt.targets = plan.targets /\ IsActive(rt.active, plan.targets)
      /\ rt.mode \in PlainModes /\ rt.iteration \in Nat /\ rt.targets \subseteq Targets
  BY RuntimeFields DEF Settled
<1>2. Wishes(wanted, plan.targets)
  BY <1>1, WantedWishes
<1>3. r = Reconcile(rt, wanted, seek, L)
  BY DEF Enter
<1> HIDE DEF r, wanted
<1>4. /\ r.ok /\ r.rt \in Runtimes /\ r.rt = [rt EXCEPT !.active = r.rt.active]
      /\ IsActive(r.rt.active, plan.targets)
      /\ r.out \subseteq Outputs
      /\ \A o \in r.out : o.target \in rt.targets \cup plan.targets
      /\ Delivers(rt.active, r.rt.active, r.out, L)
      /\ Matching(r.rt.active, wanted, L)
  <2>1. Brings(rt, r, wanted, plan.targets, L)
    BY <1>1, <1>2, <1>3, ReconcileBrings
  <2>2. QED
    BY <2>1 DEF Brings
<1>5. r.rt.mode = rt.mode /\ r.rt.iteration = rt.iteration /\ r.rt.targets = rt.targets
  BY <1>1, <1>4 DEF Runtimes
<1>6. Settled(r.rt, plan)
  BY <1>1, <1>4, <1>5 DEF Settled
<1>7. Follows(r.rt, plan, L)
  BY <1>4, <1>5 DEF Follows, wanted
<1>8. QED
  BY <1>4, <1>5, <1>6, <1>7 DEF Yields, r, Enters

LEMMA StopYields ==
  ASSUME NEW plan, NEW rt, Settled(rt, plan), NEW L
  PROVE  LET r == Stop(rt, L)
         IN  /\ r.ok /\ r.rt.mode = "Stopped" /\ r.rt.active = {}
             /\ Yields(rt, r, plan, L)
<1> DEFINE before == [rt EXCEPT !.pending = NoTransition]
           s == Silence(before, L)
           r == Stop(rt, L)
<1>1. /\ rt \in Runtimes /\ rt.targets = plan.targets /\ IsActive(rt.active, plan.targets)
  BY DEF Settled
<1>2. before \in Runtimes /\ before.active = rt.active /\ before.targets = rt.targets
  BY <1>1 DEF Runtimes, Transitions
<1>3. r = Done([s.rt EXCEPT !.mode = "Stopped", !.iteration = 0], s.out)
  BY DEF Stop
<1> HIDE DEF before, r
<1>4. /\ s.rt = [before EXCEPT !.active = {}] /\ s.rt \in Runtimes
      /\ s.out \subseteq Outputs /\ \A o \in s.out : o.target \in rt.targets
      /\ Delivers(rt.active, {}, s.out, L)
  BY <1>1, <1>2, SilenceEmpties
<1> HIDE DEF s
<1>5. /\ r.ok /\ r.out = s.out /\ r.rt \in Runtimes /\ r.rt.mode = "Stopped"
      /\ r.rt.active = {} /\ r.rt.targets = plan.targets
  BY <1>1, <1>2, <1>3, <1>4 DEF Done, Runtimes, Modes
<1>6. Settled(r.rt, plan) /\ Follows(r.rt, plan, L)
  BY <1>5 DEF Settled, Follows, IsActive, OneMode
<1>7. QED
  BY <1>1, <1>4, <1>5, <1>6 DEF Yields, r

\* The mode, the iteration and the countdown do not matter to what is delivered.
Retime(rt, mode, pending, iteration) ==
  [rt EXCEPT !.mode = mode, !.pending = pending, !.iteration = iteration]

Like(to, rt, plan) ==
  Settled(to, plan) /\ to.active = rt.active /\ to.targets = rt.targets

LEMMA Retimed ==
  ASSUME NEW plan, NEW rt, Settled(rt, plan), NEW mode \in PlainModes,
         NEW pending \in Transitions, NEW iteration \in Nat, NEW to,
         to = Retime(rt, mode, pending, iteration)
  PROVE  /\ Like(to, rt, plan)
         /\ to.mode = mode /\ to.iteration = iteration
         /\ to.pending = pending /\ to.playAfter = rt.playAfter
<1>1. rt \in Runtimes /\ rt.targets = plan.targets /\ IsActive(rt.active, plan.targets)
  BY DEF Settled
<1>2. /\ to \in Runtimes /\ to.mode = mode /\ to.iteration = iteration /\ to.pending = pending
      /\ to.active = rt.active /\ to.targets = rt.targets /\ to.playAfter = rt.playAfter
  BY <1>1 DEF Runtimes, PlainModes, Retime
<1>3. QED
  BY <1>1, <1>2 DEF Settled, Like

LEMMA YieldsFrom ==
  ASSUME NEW plan, NEW rt, NEW to, Like(to, rt, plan), NEW r, NEW L, Yields(to, r, plan, L)
  PROVE  Yields(rt, r, plan, L)
BY DEF Yields, Like

LEMMA TransitionImmediateYields ==
  ASSUME NEW plan, Sound(plan), NEW rt, Settled(rt, plan), NEW mode \in PlainModes,
         NEW iteration \in Nat, NEW L
  PROVE  LET r == TransitionImmediate(rt, plan, mode, iteration, L)
         IN  /\ Yields(rt, r, plan, L)
             /\ mode = "Stopped" => r.rt.mode = "Stopped" /\ r.rt.active = {}
<1> DEFINE r == TransitionImmediate(rt, plan, mode, iteration, L)
<1>1. Matches(rt, plan) /\ NoTransition \in Transitions /\ 0 \in Nat
  BY DEF Settled, Matches, Transitions
<1>2. CASE mode = "Stopped"
  <2>1. r = Stop(rt, L)
    BY <1>1, <1>2 DEF TransitionImmediate
  <2>2. QED
    BY <2>1, StopYields
<1>3. CASE mode # "Stopped" /\ plan.length = 0
  <2> DEFINE to == Retime(rt, "Stopped", NoTransition, 0)
  <2>1. r = Done(to, {})
    BY <1>1, <1>3 DEF TransitionImmediate, Retime
  <2>2. /\ Like(to, rt, plan) /\ to.mode = "Stopped" /\ to.active = rt.active
    <3>1. "Stopped" \in PlainModes
      BY DEF PlainModes, Modes
    <3> HIDE DEF to
    <3>2. Like(to, rt, plan) /\ to.mode = "Stopped"
      BY <1>1, <3>1, Retimed DEF to
    <3>3. QED
      BY <3>2 DEF Like
  <2> HIDE DEF to
  <2>3. Follows(to, plan, L) /\ Delivers(rt.active, to.active, {}, L)
    BY <2>2, NothingDelivered DEF Follows, Like
  <2>4. Yields(rt, r, plan, L)
    BY <2>1, <2>2, <2>3 DEF Yields, Done, Like
  <2>5. QED
    BY <1>3, <2>4
<1>4. CASE mode # "Stopped" /\ plan.length # 0 /\ iteration >= plan.length
  <2>1. r = Failed(rt)
    BY <1>1, <1>4 DEF TransitionImmediate
  <2>2. QED
    BY <1>4, <2>1 DEF Yields, Failed
<1>5. CASE mode # "Stopped" /\ plan.length # 0 /\ ~(iteration >= plan.length)
  <2> DEFINE to == Retime(rt, mode, NoTransition, iteration)
  <2>1. r = Enter(to, plan, TRUE, FALSE, L)
    BY <1>1, <1>5 DEF TransitionImmediate, Retime
  <2>2. Like(to, rt, plan)
    BY <1>1, Retimed
  <2> HIDE DEF to, r
  <2>3. Yields(to, r, plan, L)
    BY <2>1, <2>2, EnterYields DEF Like, Enters
  <2>4. Yields(rt, r, plan, L)
    BY <2>2, <2>3, YieldsFrom
  <2>5. QED
    BY <1>5, <2>4 DEF r
<1>6. QED
  BY <1>2, <1>3, <1>4, <1>5

LEMMA AfterPassIs ==
  ASSUME NEW rt \in Runtimes, NEW plan
  PROVE  AfterPass(rt, plan) \in PlainModes
BY RuntimeFields DEF AfterPass, PlaybackAfter, PlainModes, Modes

LEMMA HasRecordedIs ==
  ASSUME NEW rt \in Runtimes, NEW plan
  PROVE  HasRecorded(rt, plan) \in BOOLEAN
BY DEF HasRecorded

LEMMA AdvanceYields ==
  ASSUME NEW plan, Sound(plan), NEW rt, Settled(rt, plan), NEW L, Follows(rt, plan, L)
  PROVE  Yields(rt, Advance(rt, plan, L), plan, L)
<1> DEFINE r == Advance(rt, plan, L)
           next == AfterPass(rt, plan)
           pending == IF plan.kind = "Script" THEN NoTransition ELSE rt.pending
<1>1. /\ rt \in Runtimes /\ rt.mode \in PlainModes /\ rt.iteration \in Nat
      /\ rt.pending \in Transitions /\ NoTransition \in Transitions
      /\ next \in PlainModes /\ HasRecorded(rt, plan) \in BOOLEAN
  BY RuntimeFields, AfterPassIs, HasRecordedIs DEF Settled, Transitions
<1>2. CASE rt.mode = "Stopped" \/ plan.length = 0
  <2>1. r = Done(rt, {})
    BY <1>2 DEF Advance
  <2>2. QED
    BY <2>1, NothingDelivered DEF Yields, Done
<1>3. CASE ~(rt.mode = "Stopped" \/ plan.length = 0) /\ rt.iteration + 1 < plan.length
  <2> DEFINE to == Retime(rt, rt.mode, rt.pending, rt.iteration + 1)
  <2>1. [rt EXCEPT !.iteration = @ + 1] = to
    BY <1>1 DEF Runtimes, Retime
  <2>2. r = Enter(to, plan, FALSE, FALSE, L)
    BY <1>3, <2>1 DEF Advance
  <2>3. Like(to, rt, plan)
    <3>1. rt.iteration + 1 \in Nat
      BY <1>1
    <3>2. QED
      BY <1>1, <3>1, Retimed
  <2> HIDE DEF to, r
  <2>4. Yields(to, r, plan, L)
    BY <2>2, <2>3, EnterYields DEF Like, Enters
  <2>5. Yields(rt, r, plan, L)
    BY <2>3, <2>4, YieldsFrom
  <2>6. QED
    BY <2>5 DEF r
<1>4. CASE ~(rt.mode = "Stopped" \/ plan.length = 0) /\ ~(rt.iteration + 1 < plan.length)
  <2> DEFINE to == Retime(rt, next, pending, 0)
             over == [rt EXCEPT !.mode = next, !.iteration = 0,
                                !.pending = IF plan.kind = "Script" THEN NoTransition ELSE @]
  <2>1. over = to
    BY <1>1 DEF Runtimes, Retime
  <2>2. /\ Like(to, rt, plan)
        /\ to.iteration = 0 /\ to.mode = next
    BY <1>1, Retimed
  <2>3. r = IF next = "Stopped" THEN Silence(over, L)
            ELSE Enter(over, plan, FALSE, HasRecorded(rt, plan), L)
    BY <1>4 DEF Advance
  <2> HIDE DEF to, over, next, r
  <2>4. CASE next = "Stopped"
    <3>1. to \in Runtimes /\ IsActive(to.active, to.targets) /\ r = Silence(to, L)
      BY <2>1, <2>2, <2>3, <2>4 DEF Settled, Like
    <3>2. /\ r.ok /\ r.rt = [to EXCEPT !.active = {}] /\ r.rt \in Runtimes
          /\ r.out \subseteq Outputs /\ \A o \in r.out : o.target \in to.targets
          /\ Delivers(to.active, {}, r.out, L)
      BY <3>1, SilenceEmpties
    <3>3. r.rt.active = {} /\ r.rt.mode = "Stopped" /\ r.rt.targets = plan.targets
      BY <2>2, <2>4, <3>1, <3>2 DEF Runtimes, Settled, Like
    <3>4. Settled(r.rt, plan) /\ Follows(r.rt, plan, L)
      BY <3>2, <3>3 DEF Settled, Follows, IsActive, OneMode
    <3>5. Yields(rt, r, plan, L)
      BY <2>2, <3>2, <3>3, <3>4 DEF Yields, Like
    <3>6. QED
      BY <3>5 DEF r
  <2>5. CASE next # "Stopped"
    <3>1. r = Enter(to, plan, FALSE, HasRecorded(rt, plan), L)
      BY <2>1, <2>3, <2>5
    <3>2. Yields(to, r, plan, L)
      BY <1>1, <2>2, <3>1, EnterYields DEF Like, Enters
    <3>3. Yields(rt, r, plan, L)
      BY <2>2, <3>2, YieldsFrom
    <3>4. QED
      BY <3>3 DEF r
  <2>6. QED
    BY <2>4, <2>5
<1>5. QED
  BY <1>2, <1>3, <1>4

LEMMA SyncBoundaryYields ==
  ASSUME NEW plan, Sound(plan), NEW rt, Settled(rt, plan), NEW L, Follows(rt, plan, L)
  PROVE  Yields(rt, SyncBoundary(rt, plan, L), plan, L)
<1> DEFINE r == SyncBoundary(rt, plan, L)
<1>1. /\ rt \in Runtimes /\ rt.mode \in PlainModes /\ rt.iteration \in Nat
      /\ rt.pending \in Transitions /\ NoTransition \in Transitions /\ Matches(rt, plan)
  BY RuntimeFields DEF Settled, Transitions, Matches
<1>2. CASE rt.pending = NoTransition
  <2>1. r = Advance(rt, plan, L)
    BY <1>1, <1>2 DEF SyncBoundary
  <2>2. QED
    BY <2>1, AdvanceYields
<1>3. CASE rt.pending # NoTransition /\ rt.pending.skip = 0
  <2> DEFINE to == Retime(rt, rt.mode, NoTransition, rt.iteration)
  <2>1. [rt EXCEPT !.pending = NoTransition] = to
    BY <1>1 DEF Runtimes, Retime
  <2>2. r = TransitionImmediate(to, plan, rt.pending.mode, 0, L)
    BY <1>1, <1>3, <2>1 DEF SyncBoundary
  <2>3. rt.pending.mode \in PlainModes
    BY <1>1, <1>3 DEF Transitions, PlainModes
  <2> HIDE DEF to, r
  <2>4. Like(to, rt, plan)
    BY <1>1, Retimed DEF to
  <2>5. Yields(to, r, plan, L)
    BY <2>2, <2>3, <2>4, TransitionImmediateYields DEF Like
  <2>6. QED
    BY <2>4, <2>5, YieldsFrom DEF r
<1>4. CASE rt.pending # NoTransition /\ rt.pending.skip # 0
  <2> DEFINE pending == [rt.pending EXCEPT !.skip = @ - 1]
             to == Retime(rt, rt.mode, pending, rt.iteration)
  <2>1. [rt EXCEPT !.pending.skip = @ - 1] = to
    BY <1>1 DEF Runtimes, Retime
  <2>2. r = Advance(to, plan, L)
    BY <1>1, <1>4, <2>1 DEF SyncBoundary
  <2>3. pending \in Transitions
    BY <1>1, <1>4 DEF Transitions
  <2> HIDE DEF to, r, pending
  <2>4. Like(to, rt, plan) /\ to.mode = rt.mode /\ to.iteration = rt.iteration
    BY <1>1, <2>3, Retimed DEF to
  <2>5. Follows(to, plan, L)
    BY <2>4 DEF Follows, Like
  <2>6. Yields(to, r, plan, L)
    BY <2>2, <2>4, <2>5, AdvanceYields DEF Like
  <2>7. QED
    BY <2>4, <2>6, YieldsFrom DEF r
<1>5. QED
  BY <1>2, <1>3, <1>4

LEMMA SilenceOfNothing ==
  ASSUME NEW rt, rt.active = {}, NEW L
  PROVE  Silence(rt, L).out = {}
BY DEF Silence, Reconcile, Done, Halt

\* A composite that is stopped takes over a plan at once.
LEMMA ActivatePlanYields ==
  ASSUME NEW plan, NEW rt, Settled(rt, plan), rt.mode = "Stopped",
         NEW candidate, Sound(candidate), NEW L
  PROVE  LET r == ActivatePlan(rt, plan, candidate, L)
         IN  /\ candidate.targets \subseteq L => r.ok
             /\ r.ok => r.rt.mode = "Stopped" /\ r.rt.active = {}
             /\ rt.active = {} => r.out = {}
             /\ Yields(rt, r, candidate, L)
<1> DEFINE r == ActivatePlan(rt, plan, candidate, L)
           s == Silence(rt, L)
<1>1. /\ rt \in Runtimes /\ rt.targets = plan.targets /\ IsActive(rt.active, rt.targets)
      /\ Matches(rt, plan) /\ candidate.targets \subseteq Targets
  BY DEF Settled, Matches, Sound, Plans
<1>2. CASE ~(candidate.targets \subseteq L)
  <2>1. r = Failed(rt)
    BY <1>2 DEF ActivatePlan
  <2>2. QED
    BY <1>2, <2>1 DEF Failed, Yields
<1>3. CASE candidate.targets \subseteq L
  <2>1. r = Done([s.rt EXCEPT !.targets = candidate.targets, !.active = {}, !.iteration = 0], s.out)
    BY <1>1, <1>3 DEF ActivatePlan
  <2>2. /\ s.rt = [rt EXCEPT !.active = {}] /\ s.rt \in Runtimes
        /\ s.out \subseteq Outputs /\ \A o \in s.out : o.target \in rt.targets
        /\ Delivers(rt.active, {}, s.out, L)
        /\ rt.active = {} => s.out = {}
    BY <1>1, SilenceEmpties, SilenceOfNothing
  <2> HIDE DEF s, r
  <2>3. /\ r.ok /\ r.out = s.out /\ r.rt \in Runtimes /\ r.rt.mode = "Stopped"
        /\ r.rt.active = {} /\ r.rt.targets = candidate.targets
    BY <1>1, <2>1, <2>2 DEF Done, Runtimes
  <2>4. Settled(r.rt, candidate) /\ Follows(r.rt, candidate, L)
    BY <2>3 DEF Settled, Follows, IsActive, OneMode
  <2>5. Yields(rt, r, candidate, L)
    BY <2>2, <2>3, <2>4 DEF Yields
  <2>6. QED
    BY <2>2, <2>3, <2>5 DEF r
<1>4. QED
  BY <1>2, <1>3

\* The plan that was pending takes over where a pass ends.
LEMMA ActivateDeferredYields ==
  ASSUME NEW plan, NEW rt, Settled(rt, plan), NEW candidate, Sound(candidate), NEW L
  PROVE  LET r == ActivateDeferred(rt, plan, candidate, L)
         IN  Yields(rt, r, candidate, L) /\ (r.ok => r.rt.iteration = 0)
<1> DEFINE r == ActivateDeferred(rt, plan, candidate, L)
           next == IF candidate.length = 0 THEN "Stopped" ELSE AfterPass(rt, plan)
           stays == {w.target : w \in Wanted(candidate, 0, next, FALSE)}
           leaving == {a.target : a \in rt.active} \ stays
           remaining == {a \in rt.active : a.target \in stays}
           moved == [rt EXCEPT !.mode = next, !.iteration = 0, !.targets = candidate.targets,
                               !.active = {a \in @ : a.target \in stays}]
           starts == IF next = "Stopped" THEN Done(moved, {})
                     ELSE Enter(moved, candidate, FALSE, HasRecorded(rt, plan), L)
           told == {o.target : o \in starts.out}
           halts == Halt((leaving \ told) \cap L)
<1>1. /\ rt \in Runtimes /\ rt.targets = plan.targets /\ IsActive(rt.active, rt.targets)
      /\ Matches(rt, plan) /\ candidate.targets \subseteq Targets
      /\ HasRecorded(rt, plan) \in BOOLEAN
  BY HasRecordedIs DEF Settled, Matches, Sound, Plans
<1>2. next \in PlainModes
  BY <1>1, AfterPassIs DEF PlainModes, Modes
<1>3. CASE ~(candidate.targets \subseteq L)
  <2>1. r = Failed(rt)
    BY <1>3 DEF ActivateDeferred
  <2>2. QED
    BY <2>1 DEF Failed, Yields
<1>4. CASE candidate.targets \subseteq L
  <2>1. r = Done(starts.rt, starts.out \cup halts)
    BY <1>1, <1>4 DEF ActivateDeferred
  <2>2. stays \subseteq candidate.targets
    <3>1. Wishes(Wanted(candidate, 0, next, FALSE), candidate.targets)
      BY <1>2, WantedWishes
    <3>2. QED
      BY <3>1 DEF Wishes
  <2> HIDE DEF next, stays, r
  <2>3. /\ moved \in Runtimes /\ moved.mode = next /\ moved.iteration = 0
        /\ moved.targets = candidate.targets /\ moved.active = remaining
    BY <1>1, <1>2 DEF Runtimes, PlainModes
  <2>4. Settled(moved, candidate)
    <3>1. IsActive(remaining, candidate.targets)
      BY <1>1, <2>2 DEF IsActive, OneMode
    <3> HIDE DEF moved, remaining
    <3>2. QED
      BY <2>3, <3>1 DEF Settled
  <2>5. starts.ok /\ starts.rt.iteration = 0 /\ Yields(moved, starts, candidate, L)
    <3>1. CASE next = "Stopped"
      <4> HIDE DEF moved
      <4>1. starts = Done(moved, {})
        BY <3>1
      <4> HIDE DEF starts
      <4>2. QED
        BY <2>3, <2>4, <3>1, <4>1, NothingDelivered DEF Yields, Done, Follows
    <3>2. CASE next # "Stopped"
      <4> HIDE DEF moved
      <4>1. starts = Enter(moved, candidate, FALSE, HasRecorded(rt, plan), L)
        BY <3>2
      <4> HIDE DEF starts
      <4>2. QED
        <5> HIDE DEF remaining, next
        <5>1. HasRecorded(rt, plan) => moved.iteration = 0
          BY <2>3
        <5>3. /\ starts.ok /\ starts.rt.iteration = moved.iteration
              /\ Yields(moved, starts, candidate, L)
          <6>1. HasRecorded(rt, plan) \in BOOLEAN
            BY <1>1
          <6>2. \A recorded \in BOOLEAN : (recorded => moved.iteration = 0) =>
                   Enters(moved, Enter(moved, candidate, FALSE, recorded, L), candidate, L)
            BY <2>4, EnterYields
          <6>3. Enters(moved, Enter(moved, candidate, FALSE, HasRecorded(rt, plan), L), candidate, L)
            BY <5>1, <6>1, <6>2
          <6>4. Enters(moved, starts, candidate, L)
            BY <4>1, <6>3
          <6>5. QED
            BY <6>4 DEF Enters
        <5>4. QED
          BY <2>3, <5>3
    <3>3. QED
      BY <3>1, <3>2
  <2> HIDE DEF starts, moved
  <2>6. /\ Settled(starts.rt, candidate) /\ Follows(starts.rt, candidate, L)
        /\ starts.out \subseteq Outputs
        /\ \A o \in starts.out : o.target \in candidate.targets
        /\ Delivers(remaining, starts.rt.active, starts.out, L)
    BY <2>3, <2>5 DEF Yields
  <2>7. \A o \in halts : /\ o \in Outputs /\ o.mode = "Stopped" /\ o.target \in leaving
                         /\ o.target \in L /\ o.target \notin told /\ o.target \in rt.targets
                         /\ o = [target |-> o.target, mode |-> "Stopped", offset |-> 0]
    BY <1>1 DEF Halt, Outputs, PlainModes, Modes, IsActive
  <2>8. \A t \in leaving : \A a \in remaining : a.target # t
    OBVIOUS
  <2> DEFINE after == starts.rt.active
             out == starts.out \cup halts
  <2>9. \A t \in L : (\A o \in starts.out : o.target # t) =>
           \A a \in remaining \cup after : a.target = t => a \in remaining /\ a \in after
    BY <2>6 DEF Delivers
  <2>10. Delivers(rt.active, after, out, L)
    <3>1. ASSUME NEW o \in out, NEW p \in out, o.target = p.target PROVE o = p
      <4>1. \A x, y \in starts.out : x.target = y.target => x = y
        BY <2>6 DEF Delivers
      <4>2. \A x \in starts.out : x.target \in told
        OBVIOUS
      <4> HIDE DEF halts, told
      <4>3. QED
        BY <2>7, <3>1, <4>1, <4>2
    <3>2. ASSUME NEW o \in out PROVE o.target \in L /\ Shows(after, o.target, o.mode)
      <4>1. CASE o \in starts.out
        BY <2>6, <4>1 DEF Delivers
      <4>2. CASE o \in halts
        <5>1. o.mode = "Stopped" /\ o.target \in L /\ o.target \in leaving /\ o.target \notin told
          BY <2>7, <4>2
        <5>2. \A x \in starts.out : x.target # o.target
          BY <5>1
        <5>3. \A a \in after : a.target # o.target
          BY <2>8, <2>9, <5>1, <5>2
        <5>4. QED
          BY <5>1, <5>3 DEF Shows
      <4>3. QED
        BY <3>2, <4>1, <4>2
    <3>3. ASSUME NEW t \in L, \A o \in out : o.target # t,
                 NEW a \in rt.active \cup after, a.target = t
          PROVE  a \in rt.active /\ a \in after
      <4>1. t \notin leaving
        <5>1. SUFFICES ASSUME t \in leaving PROVE FALSE
          OBVIOUS
        <5>2. t \notin told
          <6>1. \A x \in starts.out : x \in out
            OBVIOUS
          <6> HIDE DEF out
          <6>2. QED
            BY <3>3, <6>1
        <5> DEFINE o == [target |-> t, mode |-> "Stopped", offset |-> 0]
        <5>3. o \in halts
          BY <3>3, <5>1, <5>2 DEF Halt
        <5>4. o \in out /\ o.target = t
          BY <5>3
        <5>5. QED
          BY <3>3, <5>4
      <4>2. a \in remaining \cup after
        BY <3>3, <4>1
      <4>3. a \in remaining /\ a \in after
        BY <2>9, <3>3, <4>2
      <4>4. QED
        BY <4>3
    <3>4. QED
      BY <3>1, <3>2, <3>3 DEF Delivers
  <2>11. out \subseteq Outputs /\ \A o \in out : o.target \in rt.targets \cup candidate.targets
    BY <2>6, <2>7
  <2>12. r.rt = starts.rt /\ r.out = out /\ r.ok
    BY <2>1 DEF Done
  <2> HIDE DEF out
  <2>13. Yields(rt, r, candidate, L) /\ r.rt.iteration = 0
    BY <2>5, <2>6, <2>10, <2>11, <2>12 DEF Yields
  <2>14. QED
    BY <2>13 DEF r
<1>5. QED
  BY <1>3, <1>4

-----------------------------------------------------------------------------
(* One composite at a boundary. *)

NodeSet == [plan : Plans, pending : Plans, rt : Runtimes]

GoodNode(node) ==
  /\ node \in NodeSet
  /\ Sound(node.plan) /\ Sound(node.pending) /\ Settled(node.rt, node.plan)

\* The plan stays, or the pending one takes its place; a composite that goes
\* on does that where its pass ends.
TakesOver(node, to) ==
  \/ to.plan = node.plan /\ to.pending = node.pending
  \/ /\ to.plan = node.pending /\ to.pending = NoPlan
     /\ node.rt.mode # "Stopped" /\ to.rt.mode # "Stopped" =>
          node.rt.iteration + 1 = node.plan.length /\ to.rt.iteration = 0

\* The composite that was node is now to, and has told its targets out.
Becomes(node, to, out, L) ==
  /\ GoodNode(to) /\ Follows(to.rt, to.plan, L) /\ TakesOver(node, to)
  /\ \A o \in out : o.target \in node.plan.targets \cup to.plan.targets
  /\ Delivers(node.rt.active, to.rt.active, out, L)

Resolves(node, r, L) ==
  r.ok => r.out \subseteq Outputs /\ Becomes(node, r.node, r.out, L)

LEMMA ResultResolves ==
  ASSUME NEW node, GoodNode(node), NEW r, NEW L, Yields(node.rt, r, node.plan, L)
  PROVE  Resolves(node, Result(node, r), L)
<1> DEFINE to == [node EXCEPT !.rt = r.rt]
<1>1. SUFFICES ASSUME r.ok PROVE r.out \subseteq Outputs /\ Becomes(node, to, r.out, L)
  BY DEF Resolves, Result
<1>2. /\ Settled(r.rt, node.plan) /\ Follows(r.rt, node.plan, L) /\ r.out \subseteq Outputs
      /\ \A o \in r.out : o.target \in node.rt.targets \cup node.plan.targets
      /\ Delivers(node.rt.active, r.rt.active, r.out, L)
  BY <1>1 DEF Yields
<1>3. node \in NodeSet /\ Sound(node.plan) /\ Sound(node.pending) /\ node.rt.targets = node.plan.targets
  BY DEF GoodNode, Settled
<1>4. to \in NodeSet /\ to.plan = node.plan /\ to.pending = node.pending /\ to.rt = r.rt
  BY <1>2, <1>3 DEF NodeSet, Settled
<1> HIDE DEF to
<1>5. GoodNode(to)
  BY <1>2, <1>3, <1>4 DEF GoodNode
<1>6. QED
  BY <1>2, <1>3, <1>4, <1>5 DEF Becomes, TakesOver

LEMMA SwappedResolves ==
  ASSUME NEW node, GoodNode(node), NEW r, NEW L, Yields(node.rt, r, node.pending, L),
         r.ok => \/ r.rt.mode = "Stopped"
                 \/ node.rt.iteration + 1 = node.plan.length /\ r.rt.iteration = 0
  PROVE  Resolves(node, Swapped(node, r), L)
<1> DEFINE to == [node EXCEPT !.rt = r.rt, !.plan = node.pending, !.pending = NoPlan]
<1>1. SUFFICES ASSUME r.ok PROVE r.out \subseteq Outputs /\ Becomes(node, to, r.out, L)
  BY DEF Resolves, Swapped
<1>2. /\ Settled(r.rt, node.pending) /\ Follows(r.rt, node.pending, L) /\ r.out \subseteq Outputs
      /\ \A o \in r.out : o.target \in node.rt.targets \cup node.pending.targets
      /\ Delivers(node.rt.active, r.rt.active, r.out, L)
  BY <1>1 DEF Yields
<1>3. node \in NodeSet /\ Sound(node.plan) /\ Sound(node.pending) /\ node.rt.targets = node.plan.targets
  BY DEF GoodNode, Settled
<1>4. to \in NodeSet /\ to.plan = node.pending /\ to.pending = NoPlan /\ to.rt = r.rt
  BY <1>2, <1>3, NoPlanSound DEF NodeSet, Settled, Sound
<1> HIDE DEF to
<1>5. GoodNode(to)
  BY <1>2, <1>3, <1>4, NoPlanSound DEF GoodNode
<1>6. TakesOver(node, to)
  BY <1>1, <1>4 DEF TakesOver
<1>7. QED
  BY <1>2, <1>3, <1>4, <1>5, <1>6 DEF Becomes

LEMMA IdleResolves ==
  ASSUME NEW node, GoodNode(node), NEW L, Follows(node.rt, node.plan, L)
  PROVE  Resolves(node, Result(node, Done(node.rt, {})), L)
<1>1. Yields(node.rt, Done(node.rt, {}), node.plan, L)
  BY NothingDelivered DEF Yields, Done, GoodNode
<1>2. QED
  BY <1>1, ResultResolves

LEMMA SyncResolves ==
  ASSUME NEW node, GoodNode(node), Follows(node.rt, node.plan, Current)
  PROVE  Resolves(node, Sync(node), Current)
<1>1. CASE Due(node)
  <2> DEFINE r == ActivateDeferred(node.rt, node.plan, node.pending, Current)
  <2>1. Sync(node) = Swapped(node, r)
    BY <1>1 DEF Sync
  <2>2. Yields(node.rt, r, node.pending, Current) /\ (r.ok => r.rt.iteration = 0)
    BY ActivateDeferredYields DEF GoodNode
  <2> HIDE DEF r
  <2>3. node.rt.iteration + 1 = node.plan.length
    BY <1>1 DEF Due
  <2>4. QED
    BY <2>1, <2>2, <2>3, SwappedResolves
<1>2. CASE ~Due(node)
  <2>1. Sync(node) = Result(node, SyncBoundary(node.rt, node.plan, Current))
    BY <1>2 DEF Sync
  <2>2. Yields(node.rt, SyncBoundary(node.rt, node.plan, Current), node.plan, Current)
    BY SyncBoundaryYields DEF GoodNode
  <2>3. QED
    BY <2>1, <2>2, ResultResolves
<1>3. QED
  BY <1>1, <1>2

LEMMA ObeyResolves ==
  ASSUME NEW node, GoodNode(node), NEW intent, intent.mode \in PlainModes,
         intent.offset \in Nat
  PROVE  Resolves(node, Obey(node, intent), Current)
<1> DEFINE r == TransitionImmediate(node.rt, node.plan, intent.mode, intent.offset, Current)
           a == ActivatePlan(r.rt, node.plan, node.pending, Current)
           both == [a EXCEPT !.out = @ \cup r.out]
<1>1. /\ Yields(node.rt, r, node.plan, Current)
      /\ intent.mode = "Stopped" => r.rt.mode = "Stopped" /\ r.rt.active = {}
  BY TransitionImmediateYields DEF GoodNode
<1>2. CASE ~(r.ok /\ intent.mode = "Stopped" /\ node.pending # NoPlan)
  <2>1. Obey(node, intent) = Result(node, r)
    BY <1>2 DEF Obey
  <2>2. QED
    BY <1>1, <2>1, ResultResolves
<1>3. CASE r.ok /\ intent.mode = "Stopped" /\ node.pending # NoPlan
  <2>1. Obey(node, intent) = Swapped(node, both)
    BY <1>3 DEF Obey
  <2> HIDE DEF r
  <2>2. /\ Settled(r.rt, node.plan) /\ r.rt.mode = "Stopped" /\ r.rt.active = {}
        /\ r.out \subseteq Outputs
        /\ \A o \in r.out : o.target \in node.rt.targets \cup node.plan.targets
        /\ Delivers(node.rt.active, {}, r.out, Current)
        /\ node.rt.targets = node.plan.targets
    BY <1>1, <1>3 DEF Yields, GoodNode, Settled
  <2>3. /\ Yields(r.rt, a, node.pending, Current) /\ a.out = {}
        /\ a.ok => a.rt.mode = "Stopped" /\ a.rt.active = {}
    BY <2>2, ActivatePlanYields DEF GoodNode
  <2>4. a = [rt |-> a.rt, out |-> a.out, ok |-> a.ok]
    BY DEF ActivatePlan, Done, Failed
  <2> HIDE DEF a
  <2>5. both.rt = a.rt /\ both.ok = a.ok /\ both.out = r.out
    BY <2>3, <2>4
  <2> HIDE DEF both
  <2>6. Yields(node.rt, both, node.pending, Current)
    BY <2>2, <2>3, <2>5 DEF Yields
  <2>7. QED
    BY <2>1, <2>3, <2>5, <2>6, SwappedResolves
<1>4. QED
  BY <1>2, <1>3

-----------------------------------------------------------------------------
(* Intents. *)

LEMMA Places ==
  /\ Len(Order) \in Nat
  /\ \A k \in 1..Len(Order) : Order[k] \in Nodes /\ Place(Order[k]) = k
  /\ \A j, k \in 1..Len(Order) : Order[j] = Order[k] => j = k
  /\ \A n \in Nodes : \E k \in 1..Len(Order) : Order[k] = n
<1> DEFINE L == Len(Order)
<1>1. /\ L \in Nat /\ DOMAIN Order = 1..L /\ Order \in [1..L -> Nodes]
      /\ \A n \in Nodes : \E k \in 1..L : Order[k] = n
  BY OrderAssumption, Indices
<1>2. IsFiniteSet(1..L) /\ Cardinality(1..L) = Cardinality(Nodes)
  BY <1>1, OrderAssumption, FS_Interval
<1>3. Order \in Surjection(1..L, Nodes)
  BY <1>1 DEF Surjection
<1>4. Order \in Injection(1..L, Nodes)
  BY <1>2, <1>3, FS_SurjSameCardinalityImpliesInj
<1>5. \A j, k \in 1..L : Order[j] = Order[k] => j = k
  BY <1>4 DEF Injection, IsInjective
<1>6. \A k \in 1..L : Order[k] \in Nodes /\ Place(Order[k]) = k
  BY <1>1, <1>5 DEF Place
<1>7. QED
  BY <1>1, <1>5, <1>6

\* The intents of the first k composites, and the direct ones.
Orderly(intents, k) ==
  /\ \A i \in intents : /\ i.target \in Targets /\ i.mode \in PlainModes /\ i.offset \in Nat
                        /\ i.rank \in 0..4 /\ i.from \in 0..k
                        /\ i.from = 0 => i.target \in Nodes
  /\ \A i, j \in intents : i.target = j.target /\ i.from = j.from => i = j

LEMMA WinnerIs ==
  ASSUME NEW k \in Nat, NEW intents, Orderly(intents, k), NEW t,
         NEW mine, mine \subseteq intents, \A i \in mine : i.target = t, mine # {}
  PROVE  Winner(mine) \in mine
<1> DEFINE ranks == {i.rank : i \in mine}
<1>1. PICK rank \in ranks : \A x \in ranks : rank >= x
  <2>1. ranks \subseteq 0..4 /\ ranks # {} /\ 4 \in Nat
    BY DEF Orderly
  <2> HIDE DEF ranks
  <2>2. QED
    BY <2>1, LargestBelow
<1> DEFINE froms == {i.from : i \in {j \in mine : j.rank = rank}}
<1>2. PICK from \in froms : \A x \in froms : from <= x
  <2>1. froms \subseteq Nat /\ froms # {}
    BY <1>1 DEF Orderly
  <2> HIDE DEF froms
  <2>2. QED
    BY <2>1, SmallestExists
<1>3. PICK i \in mine : i.rank = rank /\ i.from = from
  BY <1>2
<1>4. ASSUME NEW j \in mine \ {i}
      PROVE  i.rank > j.rank \/ (i.rank = j.rank /\ i.from < j.from)
  <2>1. /\ i.rank \in Nat /\ j.rank \in Nat /\ i.from \in Nat /\ j.from \in Nat
        /\ i.from # j.from
    BY DEF Orderly
  <2>2. j.rank \in ranks
    OBVIOUS
  <2>3. i.rank >= j.rank
    BY <1>1, <1>3, <2>2
  <2>4. j.rank = rank => j.from \in froms
    OBVIOUS
  <2>5. j.rank = rank => i.from <= j.from
    BY <1>2, <1>3, <2>4
  <2>6. QED
    BY <1>3, <2>1, <2>3, <2>5
<1>5. QED
  BY <1>4 DEF Winner

ComesFrom(intents, k, out) ==
  \A i \in intents : /\ i.target \in Targets /\ i.mode \in PlainModes /\ i.offset \in Nat
                     /\ i.rank \in 0..4 /\ i.from = k
                     /\ \E o \in out : o.target = i.target

LEMMA IntentsDeliver ==
  ASSUME NEW before, NEW after, NEW out, out \subseteq Outputs, NEW L,
         Delivers(before, after, out, L), NEW plan, NEW k \in 1..Len(Order),
         NEW new, new = Intents(out, plan, Order[k])
  PROVE  Delivers(before, after, new, L) /\ ComesFrom(new, k, out)
<1> DEFINE Of(o) == [target |-> o.target, mode |-> o.mode, offset |-> o.offset,
                     rank |-> KindRank(plan), from |-> k]
<1>1. new = {Of(o) : o \in out} /\ KindRank(plan) \in 0..4
  BY Places DEF Intents, KindRank
<1>2. \A o \in out : o.target \in Targets /\ o.mode \in PlainModes /\ o.offset \in Nat
  BY DEF Outputs
<1>3. ASSUME NEW i \in new
      PROVE  /\ i.target \in Targets /\ i.mode \in PlainModes
             /\ i.offset \in Nat /\ i.rank \in 0..4 /\ i.from = k
             /\ \E o \in out : o.target = i.target /\ o.mode = i.mode /\ i = Of(o)
  <2>1. PICK o \in out : i = Of(o)
    BY <1>1
  <2>2. QED
    BY <1>1, <1>2, <2>1
<1>4. ASSUME NEW o \in out PROVE \E i \in new : i.target = o.target
  <2>1. Of(o) \in new /\ Of(o).target = o.target
    BY <1>1
  <2>2. QED
    BY <2>1
<1>5. ASSUME NEW i \in new, NEW j \in new, i.target = j.target PROVE i = j
  <2>1. PICK o \in out : o.target = i.target /\ i = Of(o)
    BY <1>3
  <2>2. PICK p \in out : p.target = j.target /\ j = Of(p)
    BY <1>3
  <2>3. o = p
    BY <1>5, <2>1, <2>2 DEF Delivers
  <2>4. QED
    BY <2>1, <2>2, <2>3
<1>6. ASSUME NEW i \in new PROVE i.target \in L /\ Shows(after, i.target, i.mode)
  <2>1. PICK o \in out : o.target = i.target /\ o.mode = i.mode
    BY <1>3
  <2>2. QED
    BY <2>1 DEF Delivers
<1>7. ASSUME NEW t \in L, \A i \in new : i.target # t
      PROVE  \A a \in before \cup after : a.target = t => a \in before /\ a \in after
  <2>1. \A o \in out : o.target # t
    BY <1>4, <1>7
  <2>2. QED
    BY <2>1 DEF Delivers
<1>8. Delivers(before, after, new, L)
  BY <1>5, <1>6, <1>7 DEF Delivers
<1>9. QED
  BY <1>3, <1>8 DEF ComesFrom

-----------------------------------------------------------------------------
(* All composites at a boundary, one after the other. *)

\* The composites as they are between two steps.
Ready ==
  /\ nodes \in [Nodes -> NodeSet]
  /\ \A n \in Nodes : GoodNode(nodes[n]) /\ Follows(nodes[n].rt, nodes[n].plan, Current)

From(intents, k) == {i \in intents : i.from = k}

\* The first k have been resolved, the others are as they were.
ResolvedUpTo(s, k) ==
  /\ s.failed \in BOOLEAN
  /\ ~s.failed =>
       /\ s.nodes \in [Nodes -> NodeSet] /\ Orderly(s.intents, k)
       /\ \A j \in 1..Len(Order) :
            IF j <= k
              THEN Becomes(nodes[Order[j]], s.nodes[Order[j]], From(s.intents, j), Current)
              ELSE s.nodes[Order[j]] = nodes[Order[j]]

LEMMA ResolveNodeNext ==
  ASSUME Ready, NEW k \in 1..Len(Order), NEW s, ResolvedUpTo(s, k - 1), ~s.failed,
         NEW triggered
  PROVE  ResolvedUpTo(ResolveNode(s, Order[k], triggered), k)
<1> DEFINE n == Order[k]
           node == s.nodes[n]
           mine == {i \in s.intents : i.target = n}
           r == IF mine # {} THEN Obey(node, Winner(mine))
                ELSE IF triggered THEN Sync(node) ELSE Result(node, Done(node.rt, {}))
           new == Intents(r.out, r.node.plan, n)
           to == ResolveNode(s, n, triggered)
<1>1. /\ Len(Order) \in Nat /\ n \in Nodes /\ k \in Nat /\ k - 1 \in Nat /\ ~(k <= k - 1)
      /\ \A j \in 1..Len(Order) : Order[j] \in Nodes /\ (Order[j] = n => j = k)
  BY Places
<1>2. /\ s.nodes \in [Nodes -> NodeSet] /\ Orderly(s.intents, k - 1)
      /\ \A j \in 1..Len(Order) :
            IF j <= k - 1
              THEN Becomes(nodes[Order[j]], s.nodes[Order[j]], From(s.intents, j), Current)
              ELSE s.nodes[Order[j]] = nodes[Order[j]]
  BY DEF ResolvedUpTo
<1>3. to = [nodes |-> [s.nodes EXCEPT ![n] = r.node], intents |-> s.intents \cup new,
            failed |-> s.failed \/ ~r.ok]
  BY DEF ResolveNode
<1>4. node = nodes[n] /\ GoodNode(node) /\ Follows(node.rt, node.plan, Current)
  BY <1>1, <1>2 DEF Ready
<1> HIDE DEF to, n
<1>5. Resolves(node, r, Current)
  <2>1. CASE mine # {}
    <3>1. Winner(mine) \in mine
      <4>1. mine \subseteq s.intents /\ \A i \in mine : i.target = n
        OBVIOUS
      <4> HIDE DEF mine
      <4>2. QED
        BY <1>1, <1>2, <2>1, <4>1, WinnerIs
    <3>2. Winner(mine).mode \in PlainModes /\ Winner(mine).offset \in Nat
      BY <1>2, <3>1 DEF Orderly
    <3> HIDE DEF node, mine
    <3>3. r = Obey(node, Winner(mine))
      BY <2>1
    <3> HIDE DEF r
    <3>4. QED
      BY <1>4, <3>2, <3>3, ObeyResolves
  <2>2. CASE mine = {} /\ triggered
    <3>1. r = Sync(node)
      BY <2>2
    <3> HIDE DEF r, node
    <3>2. QED
      BY <1>4, <3>1, SyncResolves
  <2>3. CASE mine = {} /\ ~triggered
    <3>1. r = Result(node, Done(node.rt, {}))
      BY <2>3
    <3> HIDE DEF r, node
    <3>2. QED
      BY <1>4, <3>1, IdleResolves
  <2>4. QED
    BY <2>1, <2>2, <2>3
<1> HIDE DEF r, mine
<1>6. to.failed \in BOOLEAN /\ (~to.failed => r.ok)
  BY <1>3
<1>7. ASSUME ~to.failed
      PROVE  /\ to.nodes \in [Nodes -> NodeSet] /\ Orderly(to.intents, k)
             /\ \A j \in 1..Len(Order) :
                  IF j <= k
                    THEN Becomes(nodes[Order[j]], to.nodes[Order[j]], From(to.intents, j), Current)
                    ELSE to.nodes[Order[j]] = nodes[Order[j]]
  <2>1. r.out \subseteq Outputs /\ Becomes(node, r.node, r.out, Current)
    BY <1>5, <1>6, <1>7 DEF Resolves
  <2>2. r.node \in NodeSet
    BY <2>1 DEF Becomes, GoodNode
  <2>3. /\ to.nodes \in [Nodes -> NodeSet] /\ to.nodes[n] = r.node
        /\ \A m \in Nodes : m # n => to.nodes[m] = s.nodes[m]
        /\ to.intents = s.intents \cup new
    BY <1>1, <1>2, <1>3, <2>2
  <2> DEFINE before == node.rt.active
             after == r.node.rt.active
  <2>4. /\ Delivers(before, after, new, Current)
        /\ \A i \in new : /\ i.target \in Targets /\ i.mode \in PlainModes
                          /\ i.offset \in Nat /\ i.rank \in 0..4 /\ i.from = k
                          /\ \E o \in r.out : o.target = i.target
    <3>1. Delivers(before, after, r.out, Current)
      BY <2>1 DEF Becomes
    <3>2. new = Intents(r.out, r.node.plan, Order[k])
      BY DEF n
    <3> HIDE DEF before, after, new
    <3>3. Delivers(before, after, new, Current) /\ ComesFrom(new, k, r.out)
      BY <2>1, <3>1, <3>2, IntentsDeliver
    <3>4. QED
      BY <3>3 DEF ComesFrom
  <2> HIDE DEF new
  <2>5. Becomes(node, r.node, new, Current)
    BY <2>1, <2>4 DEF Becomes
  <2>6. Orderly(to.intents, k)
    <3>1. \A i \in s.intents : i.from \in 0..(k - 1) /\ i.from # k
      BY <1>1, <1>2 DEF Orderly
    <3>2. ASSUME NEW i \in to.intents
          PROVE  /\ i.target \in Targets /\ i.mode \in PlainModes /\ i.offset \in Nat
                 /\ i.rank \in 0..4 /\ i.from \in 0..k /\ (i.from = 0 => i.target \in Nodes)
      <4>1. CASE i \in new
        BY <1>1, <2>4, <4>1
      <4>2. CASE i \in s.intents
        BY <1>1, <1>2, <3>1, <4>2 DEF Orderly
      <4>3. QED
        BY <2>3, <4>1, <4>2
    <3>3. ASSUME NEW i \in to.intents, NEW j \in to.intents, i.target = j.target, i.from = j.from
          PROVE  i = j
      <4>1. CASE i \in new /\ j \in new
        BY <2>4, <3>3, <4>1 DEF Delivers
      <4>2. CASE i \in s.intents /\ j \in s.intents
        BY <1>2, <3>3, <4>2 DEF Orderly
      <4>3. QED
        BY <2>3, <2>4, <3>1, <3>3, <4>1, <4>2
    <3>4. QED
      BY <3>2, <3>3 DEF Orderly
  <2>7. From(to.intents, k) = new
    BY <1>1, <1>2, <2>3, <2>4 DEF From, Orderly
  <2>8. ASSUME NEW j \in 1..Len(Order)
        PROVE  IF j <= k
                 THEN Becomes(nodes[Order[j]], to.nodes[Order[j]], From(to.intents, j), Current)
                 ELSE to.nodes[Order[j]] = nodes[Order[j]]
    <3>1. CASE j = k
      BY <1>1, <1>4, <2>3, <2>5, <2>7, <3>1 DEF n
    <3>2. CASE j # k
      <4>1. to.nodes[Order[j]] = s.nodes[Order[j]] /\ (j <= k <=> j <= k - 1)
        BY <1>1, <2>3, <3>2
      <4>2. From(to.intents, j) = From(s.intents, j)
        BY <2>3, <2>4, <3>2 DEF From
      <4>3. QED
        BY <1>2, <4>1, <4>2
    <3>3. QED
      BY <3>1, <3>2
  <2>9. QED
    BY <2>3, <2>6, <2>8
<1>8. QED
  BY <1>6, <1>7 DEF ResolvedUpTo, to, n

AfterNode(s, k, triggered) ==
  IF s.failed THEN s ELSE ResolveNode(s, Order[k], triggered)

Resolving(h, m, directs, triggered) ==
  h = [k \in 0..m |-> IF k = 0 THEN [nodes |-> nodes, intents |-> directs, failed |-> FALSE]
                      ELSE AfterNode(h[k - 1], k, triggered)]

LEMMA ResolvingExists ==
  ASSUME NEW L \in Nat, NEW directs, NEW triggered
  PROVE  \E h : Resolving(h, L, directs, triggered)
<1> DEFINE first == [nodes |-> nodes, intents |-> directs, failed |-> FALSE]
           Is(h, m) == h = [k \in 0..m |-> IF k = 0 THEN first
                                           ELSE AfterNode(h[k - 1], k, triggered)]
           T == {m \in Nat : ~\E h : Is(h, m)}
<1> HIDE DEF first
<1>1. T = {}
  <2> SUFFICES ASSUME T # {}
               PROVE  FALSE
    OBVIOUS
  <2>1. PICK m \in T : \A j \in T : m <= j
    BY SmallestExists
  <2>2. m \in Nat
    OBVIOUS
  <2>3. CASE m = 0
    <3> DEFINE h == [k \in 0..0 |-> first]
    <3>1. Is(h, 0)
      OBVIOUS
    <3>2. QED
      BY <2>1, <2>3, <3>1
  <2>4. CASE m # 0
    <3>1. m - 1 \in Nat /\ m - 1 \notin T
      <4>1. m - 1 \in Nat /\ ~(m <= m - 1)
        BY <2>2, <2>4
      <4>2. QED
        BY <2>1, <4>1
    <3>2. PICK g : Is(g, m - 1)
      BY <3>1
    <3> DEFINE h == [k \in 0..m |-> IF k = m THEN AfterNode(g[m - 1], m, triggered) ELSE g[k]]
    <3>3. ASSUME NEW k \in 0..m
          PROVE  h[k] = IF k = 0 THEN first ELSE AfterNode(h[k - 1], k, triggered)
      <4>1. CASE k = 0
        <5>1. 0 \in 0..(m - 1) /\ 0 \in 0..m
          BY <2>2, <3>1
        <5>2. h[0] = g[0]
          BY <2>4, <5>1
        <5>3. g[0] = first
          BY <3>2, <5>1
        <5>4. QED
          BY <4>1, <5>2, <5>3
      <4>2. CASE k # 0 /\ k # m
        <5>1. k \in 0..(m - 1) /\ k - 1 \in 0..(m - 1) /\ k - 1 \in 0..m /\ k - 1 # m
          BY <2>2, <4>2
        <5>2. h[k] = g[k] /\ h[k - 1] = g[k - 1]
          BY <4>2, <5>1
        <5>3. g[k] = AfterNode(g[k - 1], k, triggered)
          BY <3>2, <4>2, <5>1
        <5>4. QED
          BY <4>2, <5>2, <5>3
      <4>3. CASE k = m
        <5>1. m - 1 \in 0..m /\ m - 1 # m
          BY <2>2, <2>4
        <5>2. h[m - 1] = g[m - 1]
          BY <5>1
        <5>3. QED
          BY <2>4, <4>3, <5>2
      <4>4. QED
        BY <4>1, <4>2, <4>3
    <3>4. Is(h, m)
      BY <3>3
    <3>5. QED
      BY <2>1, <3>4
  <2>5. QED
    BY <2>3, <2>4
<1>2. PICK h : Is(h, L)
  BY <1>1
<1>3. Resolving(h, L, directs, triggered)
  BY <1>2 DEF Resolving, first
<1>4. QED
  BY <1>3

\* resolve_boundary gives every composite and every target what it is due.
LEMMA ResolvedAll ==
  ASSUME Ready, NEW directs, Orderly(directs, 0), NEW triggered
  PROVE  ResolvedUpTo(Resolved(directs, triggered), Len(Order))
<1> DEFINE L == Len(Order)
           first == [nodes |-> nodes, intents |-> directs, failed |-> FALSE]
           Is(h) == h = [k \in 0..L |->
                           IF k = 0 THEN [nodes |-> nodes, intents |-> directs, failed |-> FALSE]
                           ELSE IF h[k - 1].failed THEN h[k - 1]
                           ELSE ResolveNode(h[k - 1], Order[k], triggered)]
           e == CHOOSE h : Is(h)
<1>1. L \in Nat /\ \A k \in 1..L : Order[k] \in Nodes
  BY Places
<1>2. \E h : Is(h)
  <2>1. PICK h : Resolving(h, L, directs, triggered)
    BY <1>1, ResolvingExists
  <2>2. Is(h)
    BY <2>1 DEF Resolving, AfterNode
  <2>3. QED
    BY <2>2
<1>3. Is(e)
  BY <1>2
<1>4. Resolved(directs, triggered) = e[L]
  BY DEF Resolved
<1> HIDE DEF e
<1>5. e[0] = first
  <2>1. 0 \in 0..L
    BY <1>1
  <2>2. QED
    BY <1>3, <2>1
<1>6. ASSUME NEW k \in 1..L
      PROVE  e[k] = IF e[k - 1].failed THEN e[k - 1] ELSE ResolveNode(e[k - 1], Order[k], triggered)
  <2>1. k \in 0..L /\ k # 0
    BY <1>1
  <2>2. QED
    BY <1>3, <2>1
<1> DEFINE T == {k \in 0..L : ~ResolvedUpTo(e[k], k)}
<1>7. T = {}
  <2> SUFFICES ASSUME T # {}
               PROVE  FALSE
    OBVIOUS
  <2>1. PICK k \in T : \A j \in T : k <= j
    <3>1. T \subseteq Nat
      OBVIOUS
    <3>2. QED
      BY <3>1, SmallestExists
  <2>2. k \in 0..L /\ ~ResolvedUpTo(e[k], k)
    OBVIOUS
  <2>3. CASE k = 0
    <3>1. ResolvedUpTo(first, 0)
      <4>1. \A j \in 1..L : ~(j <= 0)
        BY <1>1
      <4>2. QED
        BY <4>1 DEF ResolvedUpTo, Ready
    <3>2. QED
      BY <1>5, <2>2, <2>3, <3>1
  <2>4. CASE k # 0
    <3>1. k \in 1..L /\ k - 1 \in 0..L /\ ~(k <= k - 1)
      BY <1>1, <2>2, <2>4
    <3>2. ResolvedUpTo(e[k - 1], k - 1)
      <4>1. k - 1 \notin T
        BY <2>1, <3>1
      <4>2. QED
        BY <3>1, <4>1
    <3>3. CASE e[k - 1].failed
      <4>1. e[k] = e[k - 1]
        BY <1>6, <3>1, <3>3
      <4>2. ResolvedUpTo(e[k], k)
        BY <3>2, <3>3, <4>1 DEF ResolvedUpTo
      <4>3. QED
        BY <2>2, <4>2
    <3>4. CASE ~e[k - 1].failed
      <4>1. e[k] = ResolveNode(e[k - 1], Order[k], triggered)
        BY <1>6, <3>1, <3>4
      <4>2. QED
        BY <2>2, <3>1, <3>2, <3>4, <4>1, ResolveNodeNext
    <3>5. QED
      BY <3>3, <3>4
  <2>5. QED
    BY <2>3, <2>4
<1>8. L \in 0..L
  BY <1>1
<1>9. QED
  BY <1>4, <1>7, <1>8

-----------------------------------------------------------------------------
(* The invariant. *)

Owns(n, node) == (node.plan.targets \cup node.pending.targets) \cap Loops \subseteq Owned(n)

Held ==
  \A n \in Nodes : /\ GoodNode(nodes[n]) /\ Follows(nodes[n].rt, nodes[n].plan, Current)
                   /\ Owns(n, nodes[n]) /\ registry[n] \in Described(n)

IInv == TypeOK /\ Held

(* A loop is in the mode that its composite keeps it in, and stopped when    *)
(* the composite is or when it has none.                                     *)
Agree ==
  \A l \in live \ left :
    /\ \A n \in Nodes : l \in Owned(n) =>
         /\ Shows(nodes[n].rt.active, l, loopMode[l])
         /\ nodes[n].rt.mode = "Stopped" => loopMode[l] = "Stopped"
    /\ (\A n \in Nodes : l \notin Owned(n)) => loopMode[l] = "Stopped"

LEMMA IInvReady ==
  ASSUME IInv
  PROVE  Ready
BY DEF IInv, TypeOK, Held, Ready, NodeSet

LEMMA FreshIs ==
  ASSUME NEW plan, Sound(plan), NEW playAfter \in BOOLEAN, NEW L
  PROVE  LET node == Fresh(plan, playAfter)
         IN  /\ GoodNode(node) /\ Follows(node.rt, node.plan, L)
             /\ node.plan = plan /\ node.pending = NoPlan
             /\ node.rt.mode = "Stopped" /\ node.rt.active = {}
<1> DEFINE node == Fresh(plan, playAfter)
<1>1. /\ node.plan = plan /\ node.pending = NoPlan
      /\ node.rt = [NewRuntime(plan) EXCEPT !.playAfter = playAfter]
      /\ node = [plan |-> node.plan, pending |-> node.pending, rt |-> node.rt]
  BY DEF Fresh
<1> HIDE DEF node
<1>2. plan \in Plans /\ plan.targets \subseteq Targets /\ Sound(NoPlan) /\ NoPlan \in Plans
  BY NoPlanSound DEF Sound, Plans
<1>3. /\ node.rt \in Runtimes /\ node.rt.mode = "Stopped" /\ node.rt.active = {}
      /\ node.rt.targets = plan.targets
  BY <1>1, <1>2 DEF NewRuntime, Runtimes, Transitions, Modes
<1>4. Settled(node.rt, node.plan)
  BY <1>1, <1>3 DEF Settled, IsActive, OneMode
<1>5. GoodNode(node)
  BY <1>1, <1>2, <1>3, <1>4 DEF GoodNode, NodeSet
<1>6. Follows(node.rt, node.plan, L)
  BY <1>3 DEF Follows
<1>7. QED
  BY <1>1, <1>3, <1>5, <1>6 DEF node

\* The basic loops of a plan are those of its description.
LEMMA CompiledOwned ==
  ASSUME NEW n \in Nodes, NEW description \in Described(n), NEW cycles \in Lengths,
         NEW plan, plan = Compile(n, description, cycles)
  PROVE  /\ Sound(plan) /\ plan.source = n
         /\ plan.targets \cap Loops \subseteq Owned(n)
<1>1. description \in Descriptions
  BY DescriptionsAssumption DEF Described
<1>2. /\ Sound(plan) /\ plan.source = n
      /\ plan.targets \cap Loops \subseteq Named(description)
  BY <1>1, CompileSound
<1>3. Named(description) \subseteq Owned(n)
  BY DEF Owned
<1>4. QED
  BY <1>2, <1>3

LEMMA InitInv ==
  ASSUME Init
  PROVE  IInv
<1> DEFINE lengths == InitialLengths(content)
<1>1. lengths \in Lengths
  BY InitialLengthsAre
<1> HIDE DEF lengths
<1>2. nodes = [n \in Nodes |-> Fresh(Compile(n, Initial[n], lengths), FALSE)]
  BY DEF Init, lengths
<1>3. ASSUME NEW n \in Nodes
      PROVE  /\ GoodNode(nodes[n]) /\ Follows(nodes[n].rt, nodes[n].plan, Current)
             /\ Owns(n, nodes[n])
  <2> DEFINE plan == Compile(n, Initial[n], lengths)
             node == Fresh(plan, FALSE)
  <2>1. Sound(plan) /\ plan.targets \cap Loops \subseteq Owned(n)
    <3>1. Initial[n] \in Described(n)
      BY DEF Described
    <3>2. QED
      BY <1>1, <3>1, CompiledOwned
  <2> HIDE DEF plan
  <2>2. /\ GoodNode(node) /\ Follows(node.rt, node.plan, Current)
        /\ node.plan = plan /\ node.pending = NoPlan
    BY <2>1, FreshIs
  <2>3. nodes[n] = node
    BY <1>2 DEF plan
  <2> HIDE DEF node
  <2>4. Owns(n, node)
    BY <2>1, <2>2 DEF Owns, NoPlan
  <2>5. QED
    BY <2>2, <2>3, <2>4
<1>4. nodes \in [Nodes -> NodeSet] /\ \A n \in Nodes : nodes[n].rt.targets = nodes[n].plan.targets
  BY <1>2, <1>3 DEF GoodNode, Settled
<1>5. /\ registry \in [Nodes -> Descriptions] /\ \A n \in Nodes : registry[n] \in Described(n)
  BY DescriptionsAssumption DEF Init, Described
<1>6. TypeOK
  <2>1. /\ nodes \in [Nodes -> [plan : Plans, pending : Plans, rt : Runtimes]]
        /\ \A n \in Nodes : nodes[n].rt.targets = nodes[n].plan.targets
    BY <1>4 DEF NodeSet
  <2>2. /\ content \subseteq live /\ live \subseteq Loops /\ fault \in BOOLEAN
        /\ cycle \in {0, 1} /\ left \subseteq Loops /\ budget \in 0..MaxCommands
    <3>1. /\ content \subseteq Loops /\ live = Loops /\ fault = FALSE /\ cycle = 0
          /\ left = {} /\ budget = MaxCommands
      BY DEF Init
    <3>2. budget \in 0..MaxCommands
      BY <3>1, BoundsAssumption
    <3>3. QED
      BY <3>1, <3>2
  <2>3. /\ loopMode \in [Loops -> Modes \ {"Unknown"}]
        /\ controls \in [Nodes -> (Modes \ {"Unknown"}) \cup {NoControl}]
    BY DEF Init, Modes
  <2>4. QED
    BY <1>5, <2>1, <2>2, <2>3 DEF TypeOK
<1>7. QED
  BY <1>3, <1>5, <1>6 DEF IInv, Held

LEMMA InitAgree ==
  ASSUME Init
  PROVE  Agree
<1>1. ASSUME NEW n \in Nodes PROVE nodes[n].rt.active = {}
  <2> DEFINE plan == Compile(n, Initial[n], InitialLengths(content))
  <2>1. nodes[n] = Fresh(plan, FALSE)
    BY DEF Init
  <2> HIDE DEF plan
  <2>2. QED
    BY <2>1 DEF Fresh, NewRuntime
<1>2. \A l \in Loops : loopMode[l] = "Stopped"
  BY DEF Init
<1>3. live = Loops
  BY DEF Init
<1>4. QED
  BY <1>1, <1>2, <1>3 DEF Agree, Shows

-----------------------------------------------------------------------------
(* A boundary of the sync loop, delivered controls and immediate transitions. *)

\* All composites have been resolved.
Whole(s) ==
  /\ s.nodes \in [Nodes -> NodeSet] /\ Orderly(s.intents, Len(Order))
  /\ \A k \in 1..Len(Order) :
        Becomes(nodes[Order[k]], s.nodes[Order[k]], From(s.intents, k), Current)

LEMMA ResolveCases ==
  ASSUME IInv, NEW directs, Orderly(directs, 0), NEW triggered, Resolve(directs, triggered)
  PROVE  /\ controls' = [n \in Nodes |-> NoControl] /\ fault' \in BOOLEAN
         /\ \/ UNCHANGED <<nodes, loopMode, content, left>>
            \/ \E s : Whole(s) /\ Commit(s)
<1> DEFINE restarts == {Direct(n, controls[n], 0) : n \in {m \in Nodes : controls[m] # NoControl
                                 /\ ~\E d \in directs : d.target = m}}
<1>1. Orderly(directs \cup restarts, 0)
  <2>1. ASSUME NEW i \in restarts
        PROVE  /\ i.target \in Nodes /\ i.mode \in PlainModes /\ i.offset = 0
               /\ i.rank = 4 /\ i.from = 0 /\ ~\E d \in directs : d.target = i.target
               /\ i = Direct(i.target, controls[i.target], 0)
    <3>1. PICK n \in Nodes : /\ i = Direct(n, controls[n], 0) /\ controls[n] # NoControl
                             /\ ~\E d \in directs : d.target = n
      OBVIOUS
    <3>2. controls[n] \in PlainModes
      BY <3>1 DEF IInv, TypeOK, PlainModes
    <3>3. QED
      BY <3>1, <3>2 DEF Direct, DirectRank
  <2> HIDE DEF restarts
  <2>2. ASSUME NEW i \in directs \cup restarts
        PROVE  /\ i.target \in Targets /\ i.mode \in PlainModes /\ i.offset \in Nat
               /\ i.rank \in 0..4 /\ i.from \in 0..0 /\ (i.from = 0 => i.target \in Nodes)
    BY <2>1, <2>2 DEF Orderly, Targets
  <2>3. ASSUME NEW i \in directs \cup restarts, NEW j \in directs \cup restarts,
               i.target = j.target, i.from = j.from
        PROVE  i = j
    <3>1. CASE i \in directs /\ j \in directs
      BY <2>3, <3>1 DEF Orderly
    <3>2. CASE i \in restarts /\ j \in restarts
      BY <2>1, <2>3, <3>2
    <3>3. QED
      BY <2>1, <2>3, <3>1, <3>2
  <2>4. QED
    BY <2>2, <2>3 DEF Orderly
<1>2. PICK s : /\ s = Resolved(directs \cup restarts, triggered)
               /\ controls' = [n \in Nodes |-> NoControl] /\ fault' = s.failed
               /\ IF s.failed THEN UNCHANGED <<nodes, loopMode, content, left>> ELSE Commit(s)
  BY DEF Resolve
<1> HIDE DEF restarts
<1>3. ResolvedUpTo(s, Len(Order))
  BY <1>1, <1>2, IInvReady, ResolvedAll
<1>4. CASE s.failed
  BY <1>2, <1>3, <1>4 DEF ResolvedUpTo
<1>5. CASE ~s.failed
  <2>1. \A k \in 1..Len(Order) : k <= Len(Order)
    BY Places
  <2>2. Whole(s) /\ s.failed \in BOOLEAN
    BY <1>3, <1>5, <2>1 DEF ResolvedUpTo, Whole
  <2>3. QED
    BY <1>2, <1>5, <2>2
<1>6. QED
  BY <1>4, <1>5

\* What one composite becomes when all have been resolved.
LEMMA WholeNode ==
  ASSUME NEW s, Whole(s), NEW n \in Nodes
  PROVE  \E k \in 1..Len(Order) :
           Order[k] = n /\ Becomes(nodes[n], s.nodes[n], From(s.intents, k), Current)
BY Places DEF Whole

\* Who tells a basic loop something owns it.
LEMMA IntentOwner ==
  ASSUME IInv, NEW s, Whole(s), NEW i \in s.intents, i.target \in Loops
  PROVE  i.from \in 1..Len(Order) /\ i.target \in Owned(Order[i.from])
<1> DEFINE k == i.from
           m == Order[k]
<1>1. i.from \in 1..Len(Order)
  BY Places, TargetsAssumption DEF Whole, Orderly
<1>2. m \in Nodes /\ Becomes(nodes[m], s.nodes[m], From(s.intents, k), Current)
  BY <1>1, Places DEF Whole
<1>3. i \in From(s.intents, k)
  BY DEF From
<1> HIDE DEF m, k
<1>4. i.target \in nodes[m].plan.targets \cup s.nodes[m].plan.targets
  BY <1>2, <1>3 DEF Becomes
<1>5. s.nodes[m].plan = nodes[m].plan \/ s.nodes[m].plan = nodes[m].pending
  BY <1>2 DEF Becomes, TakesOver
<1>6. Owns(m, nodes[m])
  BY <1>2 DEF IInv, Held
<1>7. i.target \in Owned(m)
  BY <1>4, <1>5, <1>6 DEF Owns
<1>8. QED
  BY <1>1, <1>7 DEF m, k

LEMMA WholeWinner ==
  ASSUME NEW s, Whole(s), NEW t, NEW mine, mine \subseteq s.intents, mine # {},
         \A i \in mine : i.target = t
  PROVE  Winner(mine) \in mine
<1>1. Len(Order) \in Nat /\ Orderly(s.intents, Len(Order))
  BY Places DEF Whole
<1>2. QED
  BY <1>1, WinnerIs

LEMMA CommitHolds ==
  ASSUME IInv, NEW s, Whole(s), Commit(s), live' = live
  PROVE  /\ nodes' \in [Nodes -> NodeSet]
         /\ \A n \in Nodes : /\ GoodNode(nodes'[n]) /\ Follows(nodes'[n].rt, nodes'[n].plan, Current')
                             /\ Owns(n, nodes'[n])
         /\ loopMode' \in [Loops -> PlainModes]
         /\ content' \subseteq live' /\ left' \subseteq Loops
<1>1. nodes' = s.nodes /\ Current' = Current
  BY DEF Commit, Current
<1>2. ASSUME NEW n \in Nodes
      PROVE  /\ GoodNode(s.nodes[n]) /\ Follows(s.nodes[n].rt, s.nodes[n].plan, Current)
             /\ Owns(n, s.nodes[n])
  <2>1. PICK k \in 1..Len(Order) : Becomes(nodes[n], s.nodes[n], From(s.intents, k), Current)
    BY WholeNode
  <2>2. Owns(n, nodes[n])
    BY DEF IInv, Held
  <2>3. TakesOver(nodes[n], s.nodes[n])
    BY <2>1 DEF Becomes
  <2>4. NoPlan.targets = {}
    BY DEF NoPlan
  <2>5. Owns(n, s.nodes[n])
    BY <2>2, <2>3, <2>4 DEF TakesOver, Owns
  <2>6. QED
    BY <2>1, <2>5 DEF Becomes
<1>3. ASSUME NEW l \in Loops, {i \in s.intents : i.target = l} # {}
      PROVE  Winner({i \in s.intents : i.target = l}) \in {i \in s.intents : i.target = l}
  <2> DEFINE mine == {i \in s.intents : i.target = l}
  <2>1. mine \subseteq s.intents /\ mine # {} /\ \A i \in mine : i.target = l
    BY <1>3
  <2> HIDE DEF mine
  <2>2. Winner(mine) \in mine
    BY <2>1, WholeWinner
  <2>3. QED
    BY <2>2 DEF mine
<1>4. loopMode' \in [Loops -> PlainModes]
  <2> DEFINE For(l) == {i \in s.intents : i.target = l}
  <2>1. loopMode' = [l \in Loops |-> IF l \in live /\ For(l) # {}
                                       THEN Winner(For(l)).mode ELSE loopMode[l]]
    BY DEF Commit
  <2>2. ASSUME NEW l \in Loops, For(l) # {} PROVE Winner(For(l)).mode \in PlainModes
    <3>1. Winner(For(l)) \in s.intents
      BY <1>3, <2>2
    <3>2. QED
      BY <3>1 DEF Whole, Orderly
  <2>3. \A l \in Loops : loopMode[l] \in PlainModes
    BY DEF IInv, TypeOK, PlainModes
  <2> HIDE DEF For
  <2>4. QED
    BY <2>1, <2>2, <2>3
<1>5. content' \subseteq live' /\ left' \subseteq Loops
  BY DEF Commit, IInv, TypeOK, LeftBehind
<1>6. s.nodes \in [Nodes -> NodeSet]
  BY DEF Whole
<1>7. QED
  BY <1>1, <1>2, <1>4, <1>5, <1>6

LEMMA CommitAgrees ==
  ASSUME OneOwner, IInv, Agree, NEW s, Whole(s), Commit(s), live' = live
  PROVE  Agree'
<1> SUFFICES ASSUME NEW l \in live' \ left'
             PROVE  /\ \A n \in Nodes : l \in Owned(n) =>
                         /\ Shows(nodes'[n].rt.active, l, loopMode'[l])
                         /\ nodes'[n].rt.mode = "Stopped" => loopMode'[l] = "Stopped"
                    /\ (\A n \in Nodes : l \notin Owned(n)) => loopMode'[l] = "Stopped"
  BY DEF Agree
<1> DEFINE mine == {i \in s.intents : i.target = l}
<1>1. /\ nodes' = s.nodes /\ l \in Loops /\ l \in live /\ l \notin left /\ l \notin LeftBehind(s.nodes)
      /\ loopMode'[l] = IF mine # {} THEN Winner(mine).mode ELSE loopMode[l]
  BY DEF Commit, IInv, TypeOK
<1>2. \A i \in mine : i.from \in 1..Len(Order) /\ l \in Owned(Order[i.from])
  BY <1>1, IntentOwner
<1>3. ASSUME NEW n \in Nodes, l \in Owned(n)
      PROVE  Shows(s.nodes[n].rt.active, l, loopMode'[l])
  <2>1. PICK k \in 1..Len(Order) :
          Order[k] = n /\ Becomes(nodes[n], s.nodes[n], From(s.intents, k), Current)
    BY WholeNode
  <2> DEFINE before == nodes[n].rt.active
             after == s.nodes[n].rt.active
             out == From(s.intents, k)
  <2>2. Delivers(before, after, out, Current) /\ l \in Current
    BY <1>1, <2>1 DEF Becomes, Current
  <2>3. \A i \in mine : i \in out
    <3>1. ASSUME NEW i \in mine PROVE i.from = k
      <4>1. i.from \in 1..Len(Order) /\ l \in Owned(Order[i.from]) /\ Order[i.from] \in Nodes
        BY <1>2, Places
      <4>2. Order[i.from] = n
        BY <1>3, <4>1 DEF OneOwner
      <4>3. QED
        BY <2>1, <4>1, <4>2, Places
    <3>2. QED
      BY <3>1 DEF From
  <2>4. CASE mine # {}
    <3>1. Winner(mine) \in mine
      <4>1. mine \subseteq s.intents /\ \A i \in mine : i.target = l
        OBVIOUS
      <4> HIDE DEF mine
      <4>2. QED
        BY <2>4, <4>1, WholeWinner
    <3>2. Winner(mine) \in out /\ Winner(mine).target = l
      BY <2>3, <3>1
    <3> HIDE DEF mine, out
    <3>3. Shows(after, l, Winner(mine).mode)
      BY <2>2, <3>2 DEF Delivers
    <3>4. QED
      BY <1>1, <2>4, <3>3
  <2>5. CASE mine = {}
    <3>1. \A o \in out : o.target # l
      BY <2>5 DEF From
    <3>2. \A a \in before \cup after : a.target = l => a \in before /\ a \in after
      BY <2>2, <3>1 DEF Delivers
    <3>3. Shows(before, l, loopMode[l])
      BY <1>1, <1>3 DEF Agree
    <3>4. loopMode'[l] = loopMode[l]
      BY <1>1, <2>5
    <3>5. Shows(after, l, loopMode[l])
      BY <3>2, <3>3 DEF Shows
    <3>6. QED
      BY <3>4, <3>5
  <2>6. QED
    BY <2>4, <2>5
<1>4. ASSUME NEW n \in Nodes, l \in Owned(n), s.nodes[n].rt.mode = "Stopped"
      PROVE  loopMode'[l] = "Stopped"
  <2>1. \A a \in s.nodes[n].rt.active : a.target # l
    BY <1>1, <1>4 DEF LeftBehind
  <2>2. QED
    BY <1>3, <1>4, <2>1 DEF Shows
<1>5. ASSUME \A n \in Nodes : l \notin Owned(n)
      PROVE  loopMode'[l] = "Stopped"
  <2>1. mine = {}
    BY <1>2, <1>5, Places
  <2>2. loopMode[l] = "Stopped"
    BY <1>1, <1>5 DEF Agree
  <2>3. QED
    BY <1>1, <2>1, <2>2
<1>6. QED
  BY <1>1, <1>3, <1>4, <1>5

\* A plan changes under a composite that goes on where its pass ends.
Swaps ==
  \A n \in Nodes :
    nodes[n].plan # nodes'[n].plan /\ Running(n) /\ nodes'[n].rt.mode # "Stopped"
      => nodes[n].rt.iteration + 1 = nodes[n].plan.length /\ nodes'[n].rt.iteration = 0

\* What every step keeps.
Keeps == IInv' /\ (OneOwner /\ Agree => Agree') /\ Swaps

\* The invariant of a step that leaves the composites alone.
LEMMA NodesUnchanged ==
  ASSUME IInv, UNCHANGED <<nodes, registry>>, live' \subseteq live
  PROVE  /\ nodes' \in [Nodes -> NodeSet] /\ Held' /\ Swaps
<1>1. Current' \subseteq Current
  BY DEF Current
<1>2. ASSUME NEW n \in Nodes
      PROVE  Follows(nodes'[n].rt, nodes'[n].plan, Current')
  <2>1. Follows(nodes[n].rt, nodes[n].plan, Current)
    BY DEF IInv, Held
  <2>2. QED
    BY <1>1, <2>1 DEF Follows, Matching
<1>3. Held'
  BY <1>2 DEF IInv, Held
<1>4. nodes' \in [Nodes -> NodeSet]
  BY DEF IInv, TypeOK, NodeSet
<1>5. Swaps
  BY DEF Swaps
<1>6. QED
  BY <1>3, <1>4, <1>5

LEMMA TypesAgain ==
  ASSUME nodes' \in [Nodes -> NodeSet], Held', registry' \in [Nodes -> Descriptions],
         loopMode' \in [Loops -> PlainModes], content' \subseteq live', live' \subseteq Loops,
         controls' \in [Nodes -> PlainModes \cup {NoControl}], fault' \in BOOLEAN,
         cycle' \in {0, 1}, left' \subseteq Loops, budget' \in 0..MaxCommands
  PROVE  IInv'
<1>1. \A n \in Nodes : nodes'[n].rt.targets = nodes'[n].plan.targets
  BY DEF Held, GoodNode, Settled
<1>2. TypeOK'
  BY <1>1 DEF TypeOK, NodeSet, PlainModes
<1>3. QED
  BY <1>2 DEF IInv

LEMMA Types ==
  ASSUME IInv
  PROVE  /\ nodes \in [Nodes -> NodeSet] /\ registry \in [Nodes -> Descriptions]
         /\ loopMode \in [Loops -> PlainModes] /\ content \subseteq live /\ live \subseteq Loops
         /\ controls \in [Nodes -> PlainModes \cup {NoControl}] /\ fault \in BOOLEAN
         /\ cycle \in {0, 1} /\ left \subseteq Loops /\ budget \in 0..MaxCommands
BY DEF IInv, TypeOK, NodeSet, PlainModes

LEMMA ResolveKeeps ==
  ASSUME IInv, NEW directs, Orderly(directs, 0), NEW triggered, Resolve(directs, triggered),
         UNCHANGED <<registry, live>>, cycle' \in {0, 1}, budget' \in 0..MaxCommands
  PROVE  Keeps
<1>1. /\ controls' = [n \in Nodes |-> NoControl] /\ fault' \in BOOLEAN
      /\ \/ UNCHANGED <<nodes, loopMode, content, left>>
         \/ \E s : Whole(s) /\ Commit(s)
  BY ResolveCases
<1>2. controls' \in [Nodes -> PlainModes \cup {NoControl}]
  BY <1>1
<1>3. CASE UNCHANGED <<nodes, loopMode, content, left>>
  <2>1. nodes' \in [Nodes -> NodeSet] /\ Held' /\ Swaps
    BY <1>3, NodesUnchanged
  <2>2. IInv'
    BY <1>1, <1>2, <1>3, <2>1, Types, TypesAgain
  <2>3. Agree => Agree'
    BY <1>3 DEF Agree
  <2>4. QED
    BY <2>1, <2>2, <2>3 DEF Keeps
<1>4. CASE \E s : Whole(s) /\ Commit(s)
  <2>1. PICK s : Whole(s) /\ Commit(s)
    BY <1>4
  <2>2. /\ nodes' \in [Nodes -> NodeSet]
        /\ \A n \in Nodes : /\ GoodNode(nodes'[n]) /\ Follows(nodes'[n].rt, nodes'[n].plan, Current')
                            /\ Owns(n, nodes'[n])
        /\ loopMode' \in [Loops -> PlainModes]
        /\ content' \subseteq live' /\ left' \subseteq Loops
    BY <2>1, CommitHolds
  <2>3. Held'
    BY <2>2 DEF Held, IInv
  <2>4. IInv'
    BY <1>1, <1>2, <2>2, <2>3, Types, TypesAgain
  <2>5. OneOwner /\ Agree => Agree'
    BY <2>1, CommitAgrees
  <2>6. Swaps
    <3>1. ASSUME NEW n \in Nodes PROVE TakesOver(nodes[n], nodes'[n])
      <4>1. nodes' = s.nodes
        BY <2>1 DEF Commit
      <4>2. QED
        BY <2>1, <4>1, WholeNode DEF Becomes
    <3>2. QED
      BY <3>1 DEF Swaps, TakesOver, Running
  <2>7. QED
    BY <2>4, <2>5, <2>6 DEF Keeps
<1>5. QED
  BY <1>1, <1>3, <1>4

LEMMA BoundaryKeeps ==
  ASSUME IInv, Boundary
  PROVE  Keeps
<1>1. Orderly({}, 0)
  BY DEF Orderly
<1>2. /\ Resolve({}, TRUE) /\ UNCHANGED <<registry, live>>
      /\ cycle' \in {0, 1} /\ budget' \in 0..MaxCommands
  <2>1. cycle \in {0, 1} /\ cycle' = 1 - cycle
    BY Types DEF Boundary, NextCycle
  <2>2. cycle' \in {0, 1}
    BY <2>1
  <2>3. QED
    BY <2>2, Types DEF Boundary
<1>3. QED
  BY <1>1, <1>2, ResolveKeeps

LEMMA DeliverControlsKeeps ==
  ASSUME IInv, DeliverControls
  PROVE  Keeps
<1>1. Orderly({}, 0)
  BY DEF Orderly
<1>2. /\ Resolve({}, FALSE) /\ UNCHANGED <<registry, live>>
      /\ cycle' \in {0, 1} /\ budget' \in 0..MaxCommands
  BY Types DEF DeliverControls
<1>3. QED
  BY <1>1, <1>2, ResolveKeeps

LEMMA CommandBudget ==
  ASSUME IInv, Command
  PROVE  budget' \in 0..MaxCommands
BY Types, BoundsAssumption DEF Command

LEMMA TransitionNowKeeps ==
  ASSUME IInv, NEW n \in Nodes, NEW mode \in UserModes, NEW iteration \in Nat,
         TransitionNow(n, mode, iteration)
  PROVE  Keeps
<1> DEFINE directs == {Direct(n, mode, iteration)}
<1>1. Orderly(directs, 0)
  <2>1. mode \in PlainModes
    BY BoundsAssumption DEF PlainModes
  <2>2. QED
    BY <2>1 DEF Orderly, Direct, DirectRank, Targets
<1>2. /\ Resolve(directs, FALSE) /\ UNCHANGED <<registry, live>>
      /\ cycle' \in {0, 1} /\ budget' \in 0..MaxCommands
  BY Types, CommandBudget DEF TransitionNow
<1> HIDE DEF directs
<1>3. QED
  BY <1>1, <1>2, ResolveKeeps

-----------------------------------------------------------------------------
(* Commands that leave the plans alone. *)

LEMMA PatchKeeps ==
  ASSUME IInv, NEW n \in Nodes, NEW rt \in Runtimes,
         rt.mode = nodes[n].rt.mode, rt.iteration = nodes[n].rt.iteration,
         rt.targets = nodes[n].rt.targets, rt.active = nodes[n].rt.active,
         nodes' = [nodes EXCEPT ![n].rt = rt],
         UNCHANGED <<registry, loopMode, content, live, controls, fault, cycle, left>>,
         budget' \in 0..MaxCommands
  PROVE  Keeps
<1>1. nodes \in [Nodes -> NodeSet] /\ Current' = Current
  BY Types DEF Current
<1>2. ASSUME NEW m \in Nodes
      PROVE  /\ nodes'[m].plan = nodes[m].plan /\ nodes'[m].pending = nodes[m].pending
             /\ nodes'[m].rt \in Runtimes
             /\ nodes'[m].rt.mode = nodes[m].rt.mode /\ nodes'[m].rt.iteration = nodes[m].rt.iteration
             /\ nodes'[m].rt.targets = nodes[m].rt.targets /\ nodes'[m].rt.active = nodes[m].rt.active
             /\ nodes'[m] \in NodeSet
  BY <1>1 DEF NodeSet
<1>3. ASSUME NEW m \in Nodes
      PROVE  /\ GoodNode(nodes'[m]) /\ Follows(nodes'[m].rt, nodes'[m].plan, Current')
             /\ Owns(m, nodes'[m])
  <2>1. /\ GoodNode(nodes[m]) /\ Follows(nodes[m].rt, nodes[m].plan, Current)
        /\ Owns(m, nodes[m])
    BY DEF IInv, Held
  <2>2. Settled(nodes'[m].rt, nodes'[m].plan)
    BY <1>2, <2>1 DEF GoodNode, Settled
  <2>3. QED
    BY <1>1, <1>2, <2>1, <2>2 DEF GoodNode, Follows, Owns
<1>4. nodes' \in [Nodes -> NodeSet]
  BY <1>1, <1>2
<1>5. Held'
  BY <1>3 DEF Held, IInv
<1>6. IInv'
  BY <1>4, <1>5, Types, TypesAgain
<1>7. Agree => Agree'
  BY <1>2 DEF Agree
<1>8. Swaps
  BY <1>2 DEF Swaps
<1>9. QED
  BY <1>6, <1>7, <1>8 DEF Keeps

LEMMA RequestTransitionKeeps ==
  ASSUME IInv, NEW n \in Nodes, NEW mode \in UserModes, NEW delay \in 0..MaxDelay,
         RequestTransition(n, mode, delay)
  PROVE  Keeps
<1> DEFINE pending == [mode |-> mode, skip |-> delay]
           rt == [nodes[n].rt EXCEPT !.pending = pending]
<1>1. pending \in Transitions
  BY BoundsAssumption DEF Transitions
<1> HIDE DEF pending
<1>2. nodes[n].rt \in Runtimes
  BY Types DEF NodeSet
<1>3. /\ rt \in Runtimes
      /\ rt.mode = nodes[n].rt.mode /\ rt.iteration = nodes[n].rt.iteration
      /\ rt.targets = nodes[n].rt.targets /\ rt.active = nodes[n].rt.active
  BY <1>1, <1>2 DEF Runtimes
<1>4. nodes' = [nodes EXCEPT ![n].rt = rt]
  BY DEF RequestTransition, pending
<1> HIDE DEF rt
<1>5. /\ UNCHANGED <<registry, loopMode, content, live, controls, fault, cycle, left>>
      /\ budget' \in 0..MaxCommands
  BY CommandBudget DEF RequestTransition
<1>6. QED
  BY <1>3, <1>4, <1>5, PatchKeeps

LEMMA SetPlayAfterRecordKeeps ==
  ASSUME IInv, NEW n \in Nodes, NEW enabled \in BOOLEAN, SetPlayAfterRecord(n, enabled)
  PROVE  Keeps
<1> DEFINE rt == [nodes[n].rt EXCEPT !.playAfter = enabled]
<1>1. nodes[n].rt \in Runtimes
  BY Types DEF NodeSet
<1>2. /\ rt \in Runtimes
      /\ rt.mode = nodes[n].rt.mode /\ rt.iteration = nodes[n].rt.iteration
      /\ rt.targets = nodes[n].rt.targets /\ rt.active = nodes[n].rt.active
  BY <1>1 DEF Runtimes
<1>3. nodes' = [nodes EXCEPT ![n].rt = rt]
  BY DEF SetPlayAfterRecord
<1> HIDE DEF rt
<1>4. /\ UNCHANGED <<registry, loopMode, content, live, controls, fault, cycle, left>>
      /\ budget' \in 0..MaxCommands
  BY CommandBudget DEF SetPlayAfterRecord
<1>5. QED
  BY <1>2, <1>3, <1>4, PatchKeeps

LEMMA RemoveLoopKeeps ==
  ASSUME IInv, NEW l \in Loops, RemoveLoop(l)
  PROVE  Keeps
<1>1. /\ live' = live \ {l} /\ loopMode' = [loopMode EXCEPT ![l] = "Stopped"]
      /\ content' = content \ {l}
      /\ UNCHANGED <<nodes, registry, controls, fault, cycle, left>>
      /\ budget' \in 0..MaxCommands
  BY CommandBudget DEF RemoveLoop
<1>2. nodes' \in [Nodes -> NodeSet] /\ Held' /\ Swaps
  BY <1>1, NodesUnchanged
<1>3. /\ loopMode' \in [Loops -> PlainModes] /\ content' \subseteq live' /\ live' \subseteq Loops
      /\ \A m \in live' : loopMode'[m] = loopMode[m]
  BY <1>1, Types DEF PlainModes, Modes
<1>4. IInv'
  BY <1>1, <1>2, <1>3, Types, TypesAgain
<1>5. Agree => Agree'
  BY <1>1, <1>3 DEF Agree
<1>6. QED
  BY <1>2, <1>4, <1>5 DEF Keeps

-----------------------------------------------------------------------------
(* Edits. *)

LEMMA QueuedIs ==
  ASSUME NEW node, GoodNode(node), NEW plan, Sound(plan), NEW L,
         Follows(node.rt, node.plan, L)
  PROVE  LET to == Queued(node, plan)
         IN  /\ GoodNode(to) /\ Follows(to.rt, to.plan, L) /\ to.rt.mode = node.rt.mode
             /\ to.plan \in {node.plan, plan} /\ to.pending \in {node.pending, plan}
             /\ to.plan # node.plan => to.rt.mode = "Stopped"
             /\ \/ to.rt.active = node.rt.active
                \/ to.rt.mode = "Stopped" /\ to.rt.active = {}
<1> DEFINE to == Queued(node, plan)
           r == ActivatePlan(node.rt, node.plan, plan, Targets)
<1>1. /\ node \in NodeSet /\ Sound(node.plan) /\ Sound(node.pending)
      /\ Settled(node.rt, node.plan) /\ plan \in Plans /\ plan.targets \subseteq Targets
  BY DEF GoodNode, Sound, Plans
<1>2. CASE plan = node.plan
  <2>1. to = node
    BY <1>2 DEF Queued
  <2>2. QED
    BY <2>1
<1>3. CASE plan # node.plan /\ node.rt.mode # "Stopped"
  <2>1. to = [node EXCEPT !.pending = plan]
    BY <1>3 DEF Queued
  <2> HIDE DEF to
  <2>2. to \in NodeSet /\ to.plan = node.plan /\ to.pending = plan /\ to.rt = node.rt
    BY <1>1, <2>1 DEF NodeSet
  <2>3. GoodNode(to)
    BY <1>1, <2>2 DEF GoodNode
  <2>4. QED
    BY <2>2, <2>3 DEF to
<1>4. CASE plan # node.plan /\ node.rt.mode = "Stopped"
  <2>1. to = [node EXCEPT !.plan = plan, !.rt = r.rt]
    BY <1>4 DEF Queued
  <2>2. r.ok /\ r.rt.mode = "Stopped" /\ r.rt.active = {} /\ Yields(node.rt, r, plan, Targets)
    BY <1>1, <1>4, ActivatePlanYields
  <2> HIDE DEF to, r
  <2>3. Settled(r.rt, plan) /\ r.rt \in Runtimes
    BY <2>2 DEF Yields, Settled
  <2>4. to \in NodeSet /\ to.plan = plan /\ to.pending = node.pending /\ to.rt = r.rt
    BY <1>1, <2>1, <2>3 DEF NodeSet
  <2>5. GoodNode(to)
    BY <1>1, <2>3, <2>4 DEF GoodNode
  <2>6. Follows(to.rt, to.plan, L)
    BY <2>2, <2>4 DEF Follows
  <2>7. QED
    BY <1>4, <2>2, <2>4, <2>5, <2>6 DEF to
<1>5. QED
  BY <1>2, <1>3, <1>4

\* The new plans are compiled from descriptions of their composites.
Fits(plans) ==
  \A n \in Nodes : LET plan == PlanOf(n, plans)
                   IN  Sound(plan) /\ plan.targets \cap Loops \subseteq Owned(n)

LEMMA KeepKeeps ==
  ASSUME IInv, NEW plans, Fits(plans), Keep(plans),
         registry' \in [Nodes -> Descriptions], \A n \in Nodes : registry'[n] \in Described(n),
         UNCHANGED <<content, live, fault, cycle, left>>, budget' \in 0..MaxCommands
  PROVE  Keeps
<1>1. /\ nodes' = [n \in Nodes |-> Queued(nodes[n], PlanOf(n, plans))]
      /\ UNCHANGED <<loopMode, controls>> /\ Current' = Current
  BY DEF Keep, Current
<1>2. ASSUME NEW n \in Nodes
      PROVE  /\ GoodNode(nodes'[n]) /\ Follows(nodes'[n].rt, nodes'[n].plan, Current')
             /\ Owns(n, nodes'[n]) /\ nodes'[n].rt.mode = nodes[n].rt.mode
             /\ nodes'[n].plan # nodes[n].plan => nodes'[n].rt.mode = "Stopped"
             /\ \/ nodes'[n].rt.active = nodes[n].rt.active
                \/ nodes'[n].rt.mode = "Stopped" /\ nodes'[n].rt.active = {}
  <2> DEFINE plan == PlanOf(n, plans)
             node == nodes[n]
             to == Queued(node, plan)
  <2>1. Sound(plan) /\ plan.targets \cap Loops \subseteq Owned(n)
    BY DEF Fits
  <2>2. GoodNode(node) /\ Follows(node.rt, node.plan, Current) /\ Owns(n, node)
    BY DEF IInv, Held
  <2>3. nodes'[n] = to
    BY <1>1
  <2> HIDE DEF plan, node
  <2>4. /\ GoodNode(to) /\ Follows(to.rt, to.plan, Current) /\ to.rt.mode = node.rt.mode
        /\ to.plan \in {node.plan, plan} /\ to.pending \in {node.pending, plan}
        /\ to.plan # node.plan => to.rt.mode = "Stopped"
        /\ \/ to.rt.active = node.rt.active
           \/ to.rt.mode = "Stopped" /\ to.rt.active = {}
    BY <2>1, <2>2, QueuedIs
  <2> HIDE DEF to
  <2>5. Owns(n, to)
    BY <2>1, <2>2, <2>4 DEF Owns
  <2>6. QED
    BY <1>1, <2>3, <2>4, <2>5 DEF node
<1>3. nodes' \in [Nodes -> NodeSet]
  BY <1>1, <1>2 DEF GoodNode
<1>4. Held'
  BY <1>2 DEF Held
<1>5. IInv'
  BY <1>1, <1>3, <1>4, Types, TypesAgain
<1>6. ASSUME Agree PROVE Agree'
  <2>1. ASSUME NEW l \in live \ left, NEW n \in Nodes, l \in Owned(n)
        PROVE  /\ Shows(nodes'[n].rt.active, l, loopMode[l])
               /\ nodes'[n].rt.mode = "Stopped" => loopMode[l] = "Stopped"
    <3>1. /\ Shows(nodes[n].rt.active, l, loopMode[l])
          /\ nodes[n].rt.mode = "Stopped" => loopMode[l] = "Stopped"
      BY <1>6, <2>1 DEF Agree
    <3>2. QED
      BY <1>2, <3>1 DEF Shows
  <2>2. QED
    BY <1>1, <1>6, <2>1 DEF Agree
<1>7. Swaps
  BY <1>2 DEF Swaps
<1>8. QED
  BY <1>5, <1>6, <1>7 DEF Keeps

\* All composites begin again, stopped.
LEMMA RefreshKeeps ==
  ASSUME IInv, NEW plans, Fits(plans), NEW playAfter \in [Nodes -> BOOLEAN],
         nodes' = [n \in Nodes |-> Fresh(PlanOf(n, plans), playAfter[n])],
         loopMode' \in [Loops -> PlainModes],
         Agree => \A l \in live \ left : loopMode'[l] = "Stopped",
         controls' \in [Nodes -> PlainModes \cup {NoControl}],
         registry' \in [Nodes -> Descriptions], \A n \in Nodes : registry'[n] \in Described(n),
         UNCHANGED <<content, live, fault, cycle, left>>, budget' \in 0..MaxCommands
  PROVE  Keeps
<1>1. ASSUME NEW n \in Nodes
      PROVE  /\ GoodNode(nodes'[n]) /\ Follows(nodes'[n].rt, nodes'[n].plan, Current')
             /\ Owns(n, nodes'[n])
             /\ nodes'[n].rt.mode = "Stopped" /\ nodes'[n].rt.active = {}
  <2> DEFINE plan == PlanOf(n, plans)
             node == Fresh(plan, playAfter[n])
  <2>1. Sound(plan) /\ plan.targets \cap Loops \subseteq Owned(n) /\ playAfter[n] \in BOOLEAN
    BY DEF Fits
  <2>2. nodes'[n] = node
    OBVIOUS
  <2> HIDE DEF plan
  <2>3. /\ GoodNode(node) /\ Follows(node.rt, node.plan, Current')
        /\ node.plan = plan /\ node.pending = NoPlan
        /\ node.rt.mode = "Stopped" /\ node.rt.active = {}
    BY <2>1, FreshIs
  <2> HIDE DEF node
  <2>4. Owns(n, node)
    BY <2>1, <2>3 DEF Owns, NoPlan
  <2>5. QED
    BY <2>2, <2>3, <2>4
<1>2. nodes' \in [Nodes -> NodeSet]
  BY <1>1 DEF GoodNode
<1>3. Held'
  BY <1>1 DEF Held
<1>4. IInv'
  BY <1>2, <1>3, Types, TypesAgain
<1>5. Agree => Agree'
  BY <1>1 DEF Agree, Shows
<1>6. Swaps
  BY <1>1 DEF Swaps
<1>7. QED
  BY <1>4, <1>5, <1>6 DEF Keeps

LEMMA RestartKeeps ==
  ASSUME IInv, NEW plans, Fits(plans), Restart(plans),
         registry' \in [Nodes -> Descriptions], \A n \in Nodes : registry'[n] \in Described(n),
         UNCHANGED <<content, live, fault, cycle, left>>, budget' \in 0..MaxCommands
  PROVE  Keeps
<1> DEFINE On(l) == \E n \in Nodes : l \in {a.target : a \in nodes[n].rt.active}
           playAfter == [n \in Nodes |-> nodes[n].rt.playAfter]
<1>1. /\ loopMode' = [l \in Loops |-> IF On(l) THEN "Stopped" ELSE loopMode[l]]
      /\ nodes' = [n \in Nodes |-> Fresh(PlanOf(n, plans), nodes[n].rt.playAfter)]
      /\ controls' = [n \in Nodes |-> IF Running(n) /\ PlanOf(n, plans).length > 0
                                        THEN nodes[n].rt.mode ELSE controls[n]]
  BY DEF Restart
<1>2. \A n \in Nodes : nodes[n].rt.playAfter \in BOOLEAN /\ nodes[n].rt.mode \in PlainModes
  BY Types, RuntimeFields DEF NodeSet
<1>3. playAfter \in [Nodes -> BOOLEAN]
  BY <1>2
<1>4. nodes' = [n \in Nodes |-> Fresh(PlanOf(n, plans), playAfter[n])]
  BY <1>1
<1>5. loopMode' \in [Loops -> PlainModes]
  BY <1>1, Types DEF PlainModes, Modes
<1>6. controls' \in [Nodes -> PlainModes \cup {NoControl}]
  BY <1>1, <1>2, Types
<1>7. ASSUME Agree, NEW l \in live \ left PROVE loopMode'[l] = "Stopped"
  <2>1. l \in Loops
    BY <1>7, Types
  <2>2. CASE On(l)
    BY <1>1, <2>1, <2>2
  <2>3. CASE ~On(l)
    <3>1. loopMode'[l] = loopMode[l]
      BY <1>1, <2>1, <2>3
    <3>2. \A n \in Nodes : \A a \in nodes[n].rt.active : a.target # l
      BY <2>3
    <3>3. CASE \E n \in Nodes : l \in Owned(n)
      <4>1. PICK n \in Nodes : l \in Owned(n)
        BY <3>3
      <4>2. Shows(nodes[n].rt.active, l, loopMode[l])
        BY <1>7, <4>1 DEF Agree
      <4>3. loopMode[l] = "Stopped"
        BY <3>2, <4>2 DEF Shows
      <4>4. QED
        BY <3>1, <4>3
    <3>4. CASE \A n \in Nodes : l \notin Owned(n)
      BY <1>7, <3>1, <3>4 DEF Agree
    <3>5. QED
      BY <3>3, <3>4
  <2>4. QED
    BY <2>2, <2>3
<1> HIDE DEF playAfter
<1>8. QED
  BY <1>3, <1>4, <1>5, <1>6, <1>7, RefreshKeeps

LEMMA ReplaceKeeps ==
  ASSUME IInv, NEW plans, Fits(plans), Replace(plans),
         registry' \in [Nodes -> Descriptions], \A n \in Nodes : registry'[n] \in Described(n),
         UNCHANGED <<content, live, fault, cycle, left>>, budget' \in 0..MaxCommands
  PROVE  Keeps
<1> DEFINE playAfter == [n \in Nodes |-> FALSE]
<1>1. /\ \A n \in Nodes : nodes[n].rt.mode = "Stopped"
      /\ nodes' = [n \in Nodes |-> Fresh(PlanOf(n, plans), FALSE)]
      /\ UNCHANGED <<loopMode, controls>>
  BY DEF Replace, SomethingIsOn, Running
<1>2. playAfter \in [Nodes -> BOOLEAN]
  OBVIOUS
<1>3. nodes' = [n \in Nodes |-> Fresh(PlanOf(n, plans), playAfter[n])]
  BY <1>1
<1>4. Agree => \A l \in live \ left : loopMode'[l] = "Stopped"
  BY <1>1 DEF Agree
<1> HIDE DEF playAfter
<1>5. QED
  BY <1>1, <1>2, <1>3, <1>4, Types, RefreshKeeps

LEMMA EditKeeps ==
  ASSUME IInv, NEW n \in Nodes, NEW description \in Versions[n], Edit(n, description)
  PROVE  Keeps
<1> DEFINE lengths == [t \in Targets |-> IF t \in Nodes THEN nodes[t].plan.length
                                         ELSE LoopLengths(content)[t]]
           newest == [registry EXCEPT ![n] = description]
           plans == {Compile(m, newest[m], lengths) : m \in Nodes}
<1>1. /\ registry' = newest /\ budget' \in 0..MaxCommands
      /\ Keep(plans) \/ Restart(plans) \/ Replace(plans)
      /\ UNCHANGED <<content, live, fault, cycle, left>>
  BY CommandBudget DEF Edit
<1>2. lengths \in Lengths
  <2>1. \A m \in Nodes : nodes[m].plan.length \in Nat
    BY Types DEF NodeSet, Plans
  <2>2. QED
    BY <2>1, LoopLengthsAre DEF Lengths
<1>3. /\ newest \in [Nodes -> Descriptions] /\ \A m \in Nodes : newest[m] \in Described(m)
  BY Types, DescriptionsAssumption DEF IInv, Held, Described
<1> HIDE DEF lengths, newest
<1>4. ASSUME NEW m \in Nodes
      PROVE  /\ PlanOf(m, plans) = Compile(m, newest[m], lengths)
             /\ Sound(PlanOf(m, plans)) /\ PlanOf(m, plans).targets \cap Loops \subseteq Owned(m)
  <2> DEFINE plan == Compile(m, newest[m], lengths)
  <2>1. plan \in plans /\ plan.source = m
    BY <1>2, <1>3, CompiledOwned
  <2>2. ASSUME NEW p \in plans, p.source = m PROVE p = plan
    <3>1. PICK x \in Nodes : p = Compile(x, newest[x], lengths)
      OBVIOUS
    <3>2. p.source = x
      BY <1>2, <1>3, <3>1, CompiledOwned
    <3>3. QED
      BY <2>2, <3>1, <3>2
  <2> HIDE DEF plans
  <2>3. PlanOf(m, plans) = plan
    BY <2>1, <2>2 DEF PlanOf
  <2>4. QED
    BY <1>2, <1>3, <2>3, CompiledOwned
<1>5. Fits(plans)
  BY <1>4 DEF Fits
<1> HIDE DEF plans
<1>6. QED
  BY <1>1, <1>3, <1>5, KeepKeeps, RestartKeeps, ReplaceKeeps

-----------------------------------------------------------------------------
(* Theorems. *)

LEMMA NextKeeps ==
  ASSUME IInv, Next
  PROVE  Keeps
<1>1. CASE Boundary
  BY <1>1, BoundaryKeeps
<1>2. CASE DeliverControls
  BY <1>2, DeliverControlsKeeps
<1>3. ASSUME NEW n \in Nodes, NEW mode \in UserModes, NEW delay \in 0..MaxDelay,
             RequestTransition(n, mode, delay)
      PROVE  Keeps
  BY <1>3, RequestTransitionKeeps
<1>4. ASSUME NEW n \in Nodes, NEW mode \in UserModes, NEW iteration \in 0..nodes[n].plan.length,
             TransitionNow(n, mode, iteration)
      PROVE  Keeps
  BY <1>4, TransitionNowKeeps
<1>5. ASSUME NEW n \in Nodes, NEW enabled \in BOOLEAN, SetPlayAfterRecord(n, enabled)
      PROVE  Keeps
  BY <1>5, SetPlayAfterRecordKeeps
<1>6. ASSUME NEW l \in Loops, RemoveLoop(l)
      PROVE  Keeps
  BY <1>6, RemoveLoopKeeps
<1>7. ASSUME NEW n \in Nodes, NEW description \in Versions[n], Edit(n, description)
      PROVE  Keeps
  BY <1>7, EditKeeps
<1>8. QED
  BY <1>1, <1>2, <1>3, <1>4, <1>5, <1>6, <1>7 DEF Next

LEMMA StutterKeeps ==
  ASSUME IInv, UNCHANGED vars
  PROVE  Keeps
<1>1. UNCHANGED <<nodes, registry, loopMode, content, live, controls, fault, cycle, left, budget>>
  BY DEF vars
<1>2. nodes' \in [Nodes -> NodeSet] /\ Held' /\ Swaps
  BY <1>1, NodesUnchanged
<1>3. IInv'
  BY <1>1, <1>2, Types, TypesAgain
<1>4. Agree => Agree'
  BY <1>1 DEF Agree
<1>5. QED
  BY <1>2, <1>3, <1>4 DEF Keeps

LEMMA Invariance == Spec => []IInv
<1>1. IInv /\ [Next]_vars => IInv'
  BY NextKeeps, StutterKeeps DEF Keeps
<1>2. QED
  BY InitInv, <1>1, PTL DEF Spec

(* The timeline's variables keep their types: every plan in force or pending *)
(* is well formed, and every runtime has the targets of its plan.            *)
THEOREM TypeCorrect == Spec => []TypeOK
<1>1. IInv => TypeOK
  BY DEF IInv
<1>2. QED
  BY Invariance, <1>1, PTL

(* A composite that goes on running changes its plan only where a pass ends  *)
(* and with it the next one begins: whatever the descriptions, the nesting,  *)
(* the commands and the loops removed meanwhile.                             *)
THEOREM PlansSwapOnlyAtPassEnd == Spec => PlansSwapAtPassEnd
<1>1. IInv /\ [Next]_vars => [Swaps]_vars
  BY NextKeeps DEF Keeps
<1>2. Swaps <=>
        \A n \in Nodes :
          nodes[n].plan # nodes'[n].plan /\ Running(n) /\ nodes'[n].rt.mode # "Stopped"
            => /\ nodes[n].rt.iteration + 1 = nodes[n].plan.length
               /\ nodes'[n].rt.iteration = 0
  BY DEF Swaps
<1>3. [][Swaps]_vars => PlansSwapAtPassEnd
  BY <1>2, PTL DEF PlansSwapAtPassEnd
<1>4. QED
  BY Invariance, <1>1, <1>3, PTL DEF Spec

LEMMA AgreeFollows ==
  ASSUME OneOwner, IInv, Agree
  PROVE  LoopsFollowPlan
<1> SUFFICES ASSUME NEW l \in live \ left
             PROVE  LET owners == {n \in Nodes : l \in nodes[n].plan.targets}
                    IN  IF owners = {} THEN loopMode[l] = "Stopped"
                        ELSE \A n \in owners :
                          \/ loopMode[l] = ModeAsked(n, l, FALSE)
                          \/ nodes[n].rt.iteration = 0 /\ loopMode[l] = ModeAsked(n, l, TRUE)
  BY DEF LoopsFollowPlan
<1> DEFINE owners == {n \in Nodes : l \in nodes[n].plan.targets}
<1>1. l \in Loops /\ l \in Current /\ loopMode[l] \in PlainModes
  BY Types DEF Current
<1>2. ASSUME NEW n \in Nodes
      PROVE  /\ GoodNode(nodes[n]) /\ Follows(nodes[n].rt, nodes[n].plan, Current)
             /\ Owns(n, nodes[n]) /\ IsActive(nodes[n].rt.active, nodes[n].plan.targets)
             /\ Sound(nodes[n].plan) /\ nodes[n].rt.mode \in PlainModes
             /\ nodes[n].rt.iteration \in Nat
  BY RuntimeFields DEF IInv, Held, GoodNode, Settled
<1>3. CASE owners = {}
  <2>1. CASE \E n \in Nodes : l \in Owned(n)
    <3>1. PICK n \in Nodes : l \in Owned(n)
      BY <2>1
    <3>2. Shows(nodes[n].rt.active, l, loopMode[l])
      BY <3>1 DEF Agree
    <3>3. l \notin nodes[n].plan.targets
      BY <1>3
    <3>4. loopMode[l] = "Stopped"
      BY <1>2, <3>2, <3>3 DEF Shows, IsActive
    <3>5. QED
      BY <1>3, <3>4
  <2>2. CASE \A n \in Nodes : l \notin Owned(n)
    BY <1>3, <2>2 DEF Agree
  <2>3. QED
    BY <2>1, <2>2
<1>4. ASSUME NEW n \in owners
      PROVE  \/ loopMode[l] = ModeAsked(n, l, FALSE)
             \/ nodes[n].rt.iteration = 0 /\ loopMode[l] = ModeAsked(n, l, TRUE)
  <2> DEFINE rt == nodes[n].rt
             plan == nodes[n].plan
  <2>1. n \in Nodes /\ l \in plan.targets
    OBVIOUS
  <2>2. l \in Owned(n)
    BY <1>1, <1>2, <2>1 DEF Owns
  <2>3. /\ Shows(rt.active, l, loopMode[l])
        /\ rt.mode = "Stopped" => loopMode[l] = "Stopped"
    BY <2>1, <2>2 DEF Agree
  <2>4. CASE rt.mode = "Stopped"
    BY <2>3, <2>4 DEF ModeAsked
  <2>5. CASE rt.mode # "Stopped"
    <3>1. PICK recorded \in BOOLEAN :
            /\ recorded => rt.iteration = 0
            /\ Matching(rt.active, Wanted(plan, rt.iteration, rt.mode, recorded), Current)
      BY <1>2, <2>1, <2>5 DEF Follows
    <3>2. Wishes(Wanted(plan, rt.iteration, rt.mode, recorded), plan.targets)
      BY <1>2, <2>1, WantedWishes
    <3> DEFINE wanted == Wanted(plan, rt.iteration, rt.mode, recorded)
               cells == {w \in wanted : w.target = l}
    <3>3. ModeAsked(n, l, recorded) = IF cells = {} THEN "Stopped" ELSE (CHOOSE w \in cells : TRUE).mode
      BY <2>5 DEF ModeAsked
    <3>4. loopMode[l] = ModeAsked(n, l, recorded)
      <4> HIDE DEF wanted
      <4>1. \A m \in Modes : [target |-> l, mode |-> m] \in rt.active
                                <=> \E w \in wanted : w.target = l /\ w.mode = m
        BY <1>1, <3>1 DEF Matching, wanted
      <4>2. /\ \A v, w \in wanted : v.target = w.target => v = w
            /\ \A w \in wanted : w.mode \in Modes /\ w.mode # "Stopped"
        BY <3>2 DEF Wishes, Outputs, PlainModes, wanted
      <4>3. CASE cells = {}
        <5>1. loopMode[l] = "Stopped"
          BY <1>1, <2>3, <4>1, <4>3 DEF Shows, PlainModes
        <5>2. QED
          BY <3>3, <4>3, <5>1
      <4>4. CASE cells # {}
        <5>1. PICK w \in cells : \A v \in cells : v = w
          BY <4>2, <4>4
        <5>2. (CHOOSE v \in cells : TRUE) = w
          BY <5>1
        <5>3. [target |-> l, mode |-> w.mode] \in rt.active
          BY <4>1, <4>2, <5>1
        <5>4. loopMode[l] # "Stopped"
          BY <2>3, <5>3 DEF Shows
        <5>5. PICK v \in wanted : v.target = l /\ v.mode = loopMode[l]
          BY <1>1, <2>3, <4>1, <5>4 DEF Shows, PlainModes
        <5>6. w.mode = loopMode[l]
          BY <5>1, <5>5
        <5>7. QED
          BY <3>3, <4>4, <5>2, <5>6
      <4>5. QED
        BY <4>3, <4>4
    <3>5. recorded = TRUE \/ recorded = FALSE
      BY <3>1
    <3>6. QED
      BY <3>1, <3>4, <3>5
  <2>6. QED
    BY <2>4, <2>5
<1>5. QED
  BY <1>3, <1>4

(* Every loop is in the mode that the active plan of its composite asks for, *)
(* whatever is described, commanded, edited, nested or removed, as long as   *)
(* no loop has two composites.                                               *)
THEOREM LoopsFollowTheirPlans == OneOwner => (Spec => []LoopsFollowPlan)
<1> SUFFICES ASSUME OneOwner PROVE Spec => []LoopsFollowPlan
  OBVIOUS
<1>1. IInv /\ Agree /\ [Next]_vars => Agree'
  BY NextKeeps, StutterKeeps DEF Keeps
<1>2. IInv /\ Agree => LoopsFollowPlan
  BY AgreeFollows
<1>3. QED
  BY Invariance, InitAgree, <1>1, <1>2, PTL DEF Spec
=============================================================================
