------------------------------ MODULE LoopGroup ------------------------------
(***************************************************************************)
(* The session's loops and how one audio callback advances them            *)
(* (shoop_engine/src/session.rs, process_loop_group): control commands     *)
(* land between callbacks; a callback is cut into sub-blocks at the        *)
(* earliest loop end of the group; after each sub-block the triggers       *)
(* spread from sync sources to their followers in waves until nothing      *)
(* changes.  Followers see their source only through a snapshot that is    *)
(* refreshed at fixed points.                                              *)
(*                                                                         *)
(* Composite loops are not part of this module: their timeline is empty.   *)
(***************************************************************************)
EXTENDS BasicLoop, FiniteSets

CONSTANTS
  Loops,         \* the loops of the session (an arena that never shrinks)
  Sessions,      \* the sessions a behaviour may start from: the loops'
                 \*   records and who follows whom
  Frames,        \* block sizes the driver may ask for
  MaxSubBlocks,  \* MAX_SUB_BLOCKS
  MaxWaves,      \* CompositeTimelineLimits::max_event_waves
  Controlled,    \* the loops this instance sends commands to
  Commands,      \* the kinds of command it sends
  ModesUsed, Delays, Cycles, Lengths,   \* and their arguments
  MaxCommands,   \* bound on the commands of one behaviour
  MaxLength      \* bound on the growth of a loop that replaces past its end

None == "none"

ASSUME LimitsAssumption ==
  /\ MaxSubBlocks \in Nat \ {0} /\ MaxWaves \in Nat \ {0}
  /\ MaxCommands \in Nat /\ MaxLength \in Nat
  /\ Frames \subseteq Nat \ {0} /\ None \notin Loops
  /\ ModesUsed \subseteq Modes /\ Controlled \subseteq Loops
  /\ Delays \subseteq Nat /\ Cycles \subseteq Nat /\ Lengths \subseteq Nat
  /\ \A s \in Sessions :
       /\ s.loops \in [Loops -> LoopRecords] /\ \A i \in Loops : Sane(s.loops[i])
       /\ s.source \in [Loops -> Loops \cup {None}]

VARIABLES
  loops,      \* Session::loops, each as its BasicLoop record
  source,     \* Session::sync_sources
  live,       \* Session::loop_live
  phase,      \* where the callback is; "control" between callbacks
  remaining,  \* frames of this callback still to process
  until,      \* length of the current sub-block
  subBlocks,  \* sub-blocks begun in this callback
  waves,      \* sync waves of the current sub-block
  fault,      \* the composite timeline's latched fault
  commands    \* commands applied so far

vars == <<loops, source, live, phase, remaining, until, subBlocks, waves,
          fault, commands>>
callbackVars == <<phase, remaining, until, subBlocks, waves, fault>>

TypeOK ==
  /\ loops \in [Loops -> LoopRecords]
  /\ source \in [Loops -> Loops \cup {None}]
  /\ live \in [Loops -> BOOLEAN]
  /\ phase \in {"control", "split", "waves", "settled"}
  /\ remaining \in Nat /\ until \in Nat
  /\ subBlocks \in 0..MaxSubBlocks + 1
  /\ waves \in 0..MaxWaves
  /\ fault \in {"none", "subBlocks", "waves"}
  /\ commands \in 0..MaxCommands

Init ==
  /\ \E s \in Sessions : loops = s.loops /\ source = s.source
  /\ live = [i \in Loops |-> TRUE]
  /\ phase = "control" /\ remaining = 0 /\ until = 0
  /\ subBlocks = 0 /\ waves = 0 /\ fault = "none"
  /\ commands = 0

\* refresh_sync_snapshots: gathered first and applied second, so every
\* follower sees its source as it is before any of them reacts.
Refreshed == [i \in Loops |->
  IF source[i] = None THEN loops[i]
  ELSE StopIfEmpty([loops[i] EXCEPT !.snap = Snapshot(loops[source[i]])])]

-----------------------------------------------------------------------------
(* Commands, applied between callbacks.                                    *)

Command(kind, i) ==
  /\ phase = "control"
  /\ kind \in Commands
  /\ i \in Controlled
  /\ live[i]
  /\ commands < MaxCommands
  /\ commands' = commands + 1
  /\ UNCHANGED callbackVars

Become(i, l) == loops' = [loops EXCEPT ![i] = l]

\* Loop::transition with neither a delay nor a cycle: set_loop_mode.
SetMode(i, mode) ==
  /\ Command("set_mode", i)
  /\ Become(i, HandleTransition(loops[i], mode))
  /\ UNCHANGED <<source, live>>

PlanTransition(i, mode, delay) ==
  /\ Command("plan", i)
  /\ Become(i, PlanDelayed(loops[i], mode, delay))
  /\ UNCHANGED <<source, live>>

AlignTransition(i, mode, cycle) ==
  /\ Command("align", i)
  /\ Become(i, PlanAligned(loops[i], mode, cycle))
  /\ UNCHANGED <<source, live>>

\* Only a bound on the inputs: the code resizes a recording loop too, whose
\* channels (not modelled) would then run out of storage at another length.
ChangeLength(i, n) ==
  /\ Command("set_length", i)
  /\ loops[i].mode # "Recording"
  /\ Become(i, SetLength(loops[i], n))
  /\ UNCHANGED <<source, live>>

ClearLoop(i, n) ==
  /\ Command("clear", i)
  /\ Become(i, Clear(loops[i], n))
  /\ UNCHANGED <<source, live>>

\* set_loop_sync_source: cycles are permitted, following oneself is not.
SetSyncSource(i, src) ==
  /\ Command("set_sync_source", i)
  /\ src # i
  /\ src # None => live[src]
  /\ source' = [source EXCEPT ![i] = src]
  /\ Become(i, StopIfEmpty([loops[i] EXCEPT
               !.snap = IF src = None THEN NoSync ELSE JustSynced]))
  /\ UNCHANGED live

\* remove_loop: set_mode(Stopped) and AudioMidiLoop::clear(0), which plans
\* another stop; then the session forgets the loop as anyone's source.
RemoveLoop(i) ==
  /\ Command("remove", i)
  /\ LET stopped == [HandleTransition(loops[i], "Stopped") EXCEPT !.planned = <<>>]
     IN Become(i, SetLength(PlanDelayed(stopped, "Stopped", 0), 0))
  /\ source' = [j \in Loops |-> IF j = i \/ source[j] = i THEN None ELSE source[j]]
  /\ live' = [live EXCEPT ![i] = FALSE]

\* accept_composite_fault_reset
ResetFault ==
  /\ phase = "control"
  /\ fault # "none"
  /\ fault' = "none"
  /\ UNCHANGED <<loops, source, live, phase, remaining, until, subBlocks,
                 waves, commands>>

Control == \/ \E i \in Controlled :
                \/ \E mode \in ModesUsed :
                     \/ SetMode(i, mode)
                     \/ \E d \in Delays : PlanTransition(i, mode, d)
                     \/ \E c \in Cycles : AlignTransition(i, mode, c)
                \/ \E n \in Lengths : ChangeLength(i, n) \/ ClearLoop(i, n)
                \/ \E src \in Loops \cup {None} : SetSyncSource(i, src)
                \/ RemoveLoop(i)
           \/ ResetFault

-----------------------------------------------------------------------------
(* One callback.                                                           *)

\* The bound: a loop in Replacing beyond its end grows until it is triggered.
GrowthBound(n) == \A i \in Loops :
  loops[i].mode = "Replacing" /\ ~HasPoi(loops[i])
    => loops[i].pos + n <= MaxLength

\* A latched fault makes the whole callback a no-op.
BeginCallback(n) ==
  /\ phase = "control"
  /\ fault = "none"
  /\ GrowthBound(n)
  /\ remaining' = n
  /\ subBlocks' = 0
  /\ phase' = "split"
  /\ UNCHANGED <<loops, source, live, until, waves, fault, commands>>

\* The sub-block ends at the first loop end of the group.  A channel's own
\* point of interest is the end of its buffer, which lasts for the callback.
Ends(ls) == {NextPoi(ls[i]) : i \in {j \in Loops : HasPoi(ls[j])}}

Advance ==
  /\ phase = "split"
  /\ subBlocks < MaxSubBlocks
  /\ LET seen   == Refreshed
         points == Ends(seen) \cup {remaining}
     IN \E n \in points :
          /\ \A e \in points : n <= e
          /\ loops' = [i \in Loops |-> Process(seen[i], n)]
          /\ until' = n
  /\ subBlocks' = subBlocks + 1
  /\ waves' = 0
  /\ phase' = "waves"
  /\ UNCHANGED <<source, live, remaining, fault, commands>>

TooManySubBlocks ==
  /\ phase = "split"
  /\ subBlocks = MaxSubBlocks
  /\ subBlocks' = subBlocks + 1
  /\ fault' = "subBlocks"
  /\ phase' = "control"
  /\ UNCHANGED <<loops, source, live, remaining, until, waves, commands>>

\* One sync wave: refresh, then handle_sync on every loop of the group.  A
\* wave that makes no loop trigger is the last one.
SyncWave ==
  /\ phase = "waves"
  /\ LET seen  == Refreshed
         after == [i \in Loops |-> HandleSync(seen[i])]
     IN /\ loops' = after
        /\ IF \E i \in Loops : ~seen[i].triggering /\ after[i].triggering
             THEN /\ waves' = waves + 1
                  /\ IF waves' >= MaxWaves
                       THEN fault' = "waves" /\ phase' = "control"
                       ELSE UNCHANGED <<fault, phase>>
             ELSE /\ phase' = "settled"
                  /\ UNCHANGED <<waves, fault>>
  /\ UNCHANGED <<source, live, remaining, until, subBlocks, commands>>

FinishSubBlock ==
  /\ phase = "settled"
  /\ remaining' = remaining - until
  /\ phase' = IF remaining' = 0 THEN "control" ELSE "split"
  /\ UNCHANGED <<loops, source, live, until, subBlocks, waves, fault, commands>>

Callback == Advance \/ TooManySubBlocks \/ SyncWave \/ FinishSubBlock

Next == Control \/ Callback \/ \E n \in Frames : BeginCallback(n)

\* The driver keeps calling back and a callback runs to its end.
Fairness == /\ WF_vars(Callback)
            /\ WF_vars(\E n \in Frames : BeginCallback(n))

Spec == Init /\ [][Next]_vars /\ Fairness

-----------------------------------------------------------------------------
(* Properties.                                                             *)

\* Every loop is sane, whatever operation it was last given.
LoopsAreSane == \A i \in Loops : Sane(loops[i])

\* When the waves of a sub-block have settled, every follower of a loop that
\* triggered has triggered in the same sub-block, through any chain or cycle
\* of sync sources.
TriggersReachFollowers == phase = "settled" =>
  \A i \in Loops : source[i] # None /\ loops[source[i]].triggering
                     => loops[i].triggering /\ loops[i].already

\* Cycles of sync sources are permitted and cannot keep the waves going: the
\* group settles before the wave limit latches a fault.
WavesSettle == fault # "waves"

\* A loop that is kept in step with its source by synchronised commands only
\* stays on the source's grid: it holds whole cycles of the source, and
\* while it plays it is at the source's position within the cycle.
OnGrid(i) ==
  LET s == loops[source[i]]
  IN /\ loops[i].mode # "Recording" => loops[i].len % s.len = 0
     /\ loops[i].mode = "Recording" => loops[i].len % s.len = s.pos % s.len
     /\ IsPlaying(loops[i].mode) => loops[i].pos % s.len = s.pos % s.len

FollowersOnGrid == phase \in {"control", "settled"} =>
  \A i \in Loops : source[i] # None => OnGrid(i)

(* The sessions it holds of: sources are playing loops that nobody commands  *)
(* and that follow nothing, storage ends at the end of one of their cycles,  *)
(* every follower starts on the grid, and loops are only ever told to        *)
(* transit at a trigger.  A loop that has yet to see its source transits at  *)
(* once, which the start of a cycle allows.                                  *)
StartsOnGrid(s, i) ==
  LET lead == s.loops[s.source[i]]
      l    == s.loops[i]
  IN /\ s.source[i] \notin Controlled /\ s.source[s.source[i]] = None
     /\ IsPlaying(lead.mode) /\ lead.pos < lead.len
     /\ lead.planned = <<>> /\ ~lead.snap.synced
     /\ StorageLimit % lead.len = 0
     /\ l.mode = "Recording" => l.len % lead.len = lead.pos /\ l.len <= StorageLimit
     /\ l.mode # "Recording" => l.len % lead.len = 0
     /\ IsPlaying(l.mode) => l.pos < l.len /\ l.pos % lead.len = lead.pos
     /\ l.snap.synced \/ lead.pos = 0

Synchronised ==
  /\ Commands \subseteq {"plan"}
  /\ \A s \in Sessions, i \in Loops : s.source[i] # None => StartsOnGrid(s, i)

\* A transition planned on a loop whose source keeps playing is carried out
\* and leaves the queue.
PlansLand == \A i \in Loops :
  (commands = MaxCommands /\ loops[i].planned # <<>>)
    ~> (loops[i].planned = <<>>)

\* "Detaching followers matters and is easy to miss: a loop left syncing to a
\* removed one waits for triggers that will never come, so its planned
\* transitions never land" (session.rs:1345): a loop without a source is
\* unsynced in its own eyes too.
DetachedIsUnsynced == \A i \in Loops :
  source[i] = None /\ live[i] => ~loops[i].snap.synced

\* "Trigger ourselves only when no active sync source will do it"
\* (basic_loop.rs:241): a loop that plays and has reached its end is
\* triggered again.
EndIsTriggered == \A i \in Loops :
  (fault = "none" /\ IsPlaying(loops[i].mode) /\ loops[i].pos >= loops[i].len)
    ~> (fault # "none" \/ ~IsPlaying(loops[i].mode) \/ loops[i].pos < loops[i].len)

\* "`to_sync_cycle` also forces immediate and additionally aligns position to
\* the sync source" (basic_loop.rs:450).
AlignedToSource ==
  [][\A i \in Loops, c \in Cycles :
       (source[i] # None /\ loops[source[i]].len > 0 /\ loops[i].len > 0
          /\ AlignTransition(i, "Playing", c))
       => loops'[i].pos = loops[source[i]].pos + c * loops[source[i]].len]_vars
=============================================================================
