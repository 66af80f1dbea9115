--------------------------- MODULE CompositePlan ----------------------------
(***************************************************************************)
(* What compile_composite_plan (shoop_engine/src/composite_plan.rs) makes  *)
(* of a composite loop's description: for every iteration of the plan and  *)
(* every target, the state the target is to be in.                         *)
(*                                                                         *)
(* A description is a sequence of timelines, a timeline a sequence of      *)
(* sections and a section a set of entries; an entry whose cycles are 0    *)
(* lasts as long as its target.  Lengths are in whole cycles of the sync   *)
(* loop.  The capacities of a plan, its list of actions (only tests read   *)
(* it) and its dependency order are left out.                              *)
(***************************************************************************)
EXTENDS Naturals, Sequences, FiniteSetsExt

CONSTANTS
    Loops,   \* the basic loops
    Nodes    \* the composite loops

ASSUME TargetsAssumption == Loops \cap Nodes = {} /\ IsFiniteSet(Loops \cup Nodes)

Targets == Loops \cup Nodes

Modes == {"Unknown", "Stopped", "Playing", "Recording", "Replacing",
          "PlayingDryThroughWet", "RecordingDryIntoWet"}

\* is_recording_mode
IsRecording(mode) == mode \in {"Recording", "RecordingDryIntoWet"}

ModeRank == [Inherit |-> 0, Unknown |-> 1, Stopped |-> 2, Playing |-> 3, Recording |-> 4,
             Replacing |-> 5, PlayingDryThroughWet |-> 6, RecordingDryIntoWet |-> 7]

(* What a user may describe. *)
Entries == [target : Targets, delay : Nat, cycles : Nat, mode : DOMAIN ModeRank]
Descriptions == Seq(Seq({section \in SUBSET Entries : IsFiniteSet(section)}))

(* Compile-time lengths: cycles[t] is the length of target t, 0 when it is   *)
(* empty.                                                                    *)
Duration(entry, cycles) ==
    IF entry.cycles > 0 THEN entry.cycles ELSE Max({1, cycles[entry.target]})

SectionLength(section, cycles) ==
    Max({0} \cup {e.delay + Duration(e, cycles) : e \in section})

\* Sections follow one another; a timeline's k-th section starts here.
Origin(timeline, k, cycles) ==
    LET end[j \in 0..Len(timeline)] ==
            IF j = 0 THEN 0 ELSE end[j - 1] + SectionLength(timeline[j], cycles)
    IN  end[k - 1]

TimelineLength(timeline, cycles) == Origin(timeline, Len(timeline) + 1, cycles)

Occurrences(description, cycles) ==
    UNION {UNION {{[target |-> e.target,
                    start  |-> Origin(description[i], k, cycles) + e.delay,
                    end    |-> Origin(description[i], k, cycles) + e.delay
                                   + Duration(e, cycles),
                    mode   |-> e.mode,
                    empty  |-> cycles[e.target] = 0] : e \in description[i][k]}
                  : k \in DOMAIN description[i]} : i \in DOMAIN description}

\* The order in which the occurrences of one target are written to the table.
Precedes(o, p) ==
    \/ o.start < p.start
    \/ o.start = p.start /\ o.end < p.end
    \/ o.start = p.start /\ o.end = p.end /\ ModeRank[o.mode] < ModeRank[p.mode]

\* A target an earlier occurrence records is not empty by the time of a later one.
RecordedBefore(o, occurrences) ==
    \E p \in occurrences : p.target = o.target /\ Precedes(p, o) /\ IsRecording(p.mode)

(* What an iteration asks of a target; start and duration place a seek       *)
(* inside the occurrence.                                                    *)
Cell(o, iteration, all) ==
    [at |-> iteration, target |-> o.target, mode |-> o.mode,
     start |-> o.start, duration |-> o.end - o.start,
     empty |-> o.empty /\ ~RecordedBefore(o, all)]

Covers(o, iteration) == o.start <= iteration /\ iteration < o.end

\* Later occurrences of a target overwrite earlier ones where they overlap.
Written(occurrences, all) ==
    UNION {{Cell(o, i, all) : i \in
              {i \in o.start..o.end : Covers(o, i)
                 /\ ~\E p \in occurrences : p.target = o.target /\ Covers(p, i) /\ Precedes(o, p)}}
             : o \in occurrences}

\* classify_kind: a description either gives no mode or gives every mode.
Kind(occurrences) ==
    IF \E o \in occurrences : o.mode # "Inherit" THEN "Script" ELSE "Regular"

\* The occurrences a pass of a recording composite records.
Firsts(occurrences) ==
    {o \in occurrences : ~\E p \in occurrences : p.target = o.target /\ Precedes(p, o)}

(* What a plan is made of, with the empty plan of no composite ("none").     *)
Cells == [at : Nat, target : Targets, mode : DOMAIN ModeRank,
          start : Nat, duration : Nat \ {0}, empty : BOOLEAN]
Plans == [source : Nodes \cup {"none"}, kind : {"Script", "Regular", "none"}, length : Nat,
          targets : SUBSET Targets, desired : SUBSET Cells, first : SUBSET Cells]

Compile(source, description, cycles) ==
    LET all    == Occurrences(description, cycles)
        length == Max({0} \cup {TimelineLength(description[i], cycles)
                                  : i \in DOMAIN description})
    IN  [source  |-> source,
         kind    |-> Kind(all),
         length  |-> length,
         targets |-> {o.target : o \in all},
         desired |-> Written(all, all),
         first   |-> IF Kind(all) = "Regular" THEN Written(Firsts(all), all) ELSE {}]
=============================================================================
