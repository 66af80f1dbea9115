------------------------- MODULE CompositeTimeline -------------------------
(***************************************************************************)
(* The composite loops of a session and how they are resolved together     *)
(* (shoop_engine/src/composite_timeline.rs and its callers in session.rs   *)
(* and app_backend.rs).  Editing one description recompiles all of them;   *)
(* the audio thread keeps what runs in place, with the new plan pending    *)
(* until the pass ends, unless the edit changes which composites contain   *)
(* which: then everything restarts.  At every boundary of the sync loop    *)
(* each composite, parents before children, obeys the strongest intent     *)
(* addressed to it, or else advances.  All of a boundary's effects are     *)
(* committed together or, when one composite fails, not at all: a fault is *)
(* latched, and with it the timeline stops for good, since only tests      *)
(* reset it.                                                               *)
(*                                                                         *)
(* Every composite is synced to the same sync loop, which plays and is no  *)
(* target.  The removal of composites, seeks (tests only), capacities,     *)
(* mirrors and positions inside a cycle are left out.  A command and the   *)
(* boundary that follows it are never at the same sample.                  *)
(***************************************************************************)
EXTENDS CompositeRuntime

CONSTANTS
    Order,        \* the composites, each before those it contains
    Initial,      \* the description each composite starts with
    Versions,     \* the descriptions the user may give each composite
    UserModes,    \* modes the user asks for
    MaxDelay,     \* bound: cycles a requested transition may wait
    MaxCommands   \* bound: commands of the user in a behaviour

ASSUME OrderAssumption ==
    /\ Order \in Seq(Nodes) /\ Len(Order) = Cardinality(Nodes)
    /\ {Order[i] : i \in DOMAIN Order} = Nodes
ASSUME DescriptionsAssumption ==
    Initial \in [Nodes -> Descriptions] /\ \A n \in Nodes : Versions[n] \subseteq Descriptions
ASSUME BoundsAssumption ==
    UserModes \subseteq Modes \ {"Unknown"} /\ MaxDelay \in Nat /\ MaxCommands \in Nat

VARIABLES
    nodes,     \* per composite its active plan, its pending plan and its runtime
    registry,  \* control thread: the newest description of each composite
    loopMode,  \* the mode last set on each basic loop
    content,   \* basic loops with something recorded
    live,      \* basic loops not removed
    controls,  \* per composite the mode a restart has yet to bring it back to
    fault,     \* a fault is latched
    cycle,     \* alternates with the cycles of the sync loop
    left,      \* history: loops that a script which ended did not stop
    budget     \* commands left

vars == <<nodes, registry, loopMode, content, live, controls, fault, cycle, left,
          budget>>

NoPlan == [source |-> "none", kind |-> "none", length |-> 0,
           targets |-> {}, desired |-> {}, first |-> {}]
NoControl == "none"

Fresh(plan, playAfter) ==
    [plan |-> plan, pending |-> NoPlan,
     rt |-> [NewRuntime(plan) EXCEPT !.playAfter = playAfter]]

\* The basic loops a description needs.
Named(description) ==
    Loops \cap UNION {UNION {{e.target : e \in timeline[k]} : k \in DOMAIN timeline}
                        : timeline \in {description[i] : i \in DOMAIN description}}

\* Lengths in cycles of the basic loops, given those that hold something.
LoopLengths(held) == [t \in Targets |-> IF t \in held THEN 1 ELSE 0]

\* The composites were built from the innermost outwards.
InitialLengths(held) ==
    LET Built(known, n) == [known EXCEPT ![n] = Compile(n, Initial[n], known).length]
        after[k \in 0..Len(Order)] ==
            IF k = 0 THEN LoopLengths(held) ELSE Built(after[k - 1], Order[Len(Order) + 1 - k])
    IN  after[Len(Order)]

Init ==
    /\ content \in SUBSET Loops
    /\ nodes = [n \in Nodes |-> Fresh(Compile(n, Initial[n], InitialLengths(content)), FALSE)]
    /\ registry = Initial
    /\ loopMode = [l \in Loops |-> "Stopped"]
    /\ live = Loops
    /\ controls = [n \in Nodes |-> NoControl]
    /\ fault = FALSE
    /\ cycle = 0
    /\ left = {}
    /\ budget = MaxCommands

Running(n) == nodes[n].rt.mode # "Stopped"

Current == live \cup Nodes

-----------------------------------------------------------------------------
(* resolve_boundary.  s holds the working copies of the nodes, the intents   *)
(* so far and whether something failed.                                      *)

\* intent_wins: direct before script before regular, then the lower identity.
DirectRank == 4
KindRank(plan) == IF plan.kind = "Script" THEN 3 ELSE 2

Winner(intents) ==
    CHOOSE i \in intents : \A j \in intents \ {i} :
        i.rank > j.rank \/ (i.rank = j.rank /\ i.from < j.from)

Place(n) == CHOOSE i \in DOMAIN Order : Order[i] = n

\* append_batch
Intents(out, plan, n) ==
    {[target |-> o.target, mode |-> o.mode, offset |-> o.offset,
      rank |-> KindRank(plan), from |-> Place(n)] : o \in out}

Direct(n, mode, iteration) ==
    [target |-> n, mode |-> mode, offset |-> iteration, rank |-> DirectRank, from |-> 0]

Result(node, r) == [node |-> [node EXCEPT !.rt = r.rt], out |-> r.out, ok |-> r.ok]

\* The node runs its pending plan from here on.
Swapped(node, r) ==
    [node |-> [node EXCEPT !.rt = r.rt, !.plan = node.pending, !.pending = NoPlan],
     out |-> r.out, ok |-> r.ok]

\* An intent addressed to the composite; one that stops it activates the pending plan.
Obey(node, intent) ==
    LET r == TransitionImmediate(node.rt, node.plan, intent.mode, intent.offset, Current)
        a == ActivatePlan(r.rt, node.plan, node.pending, Current)
    IN  IF r.ok /\ intent.mode = "Stopped" /\ node.pending # NoPlan
          THEN Swapped(node, [a EXCEPT !.out = @ \cup r.out])
          ELSE Result(node, r)

\* Mutant: a plan is due one iteration after the last one.
DueLate(node) ==
    node.pending # NoPlan /\ node.rt.mode # "Stopped" /\ node.rt.iteration = node.plan.length

\* The pending plan is due where the pass ends.
Due(node) ==
    node.pending # NoPlan /\ node.rt.mode # "Stopped"
      /\ node.rt.iteration + 1 = node.plan.length

\* A boundary of the sync loop, without an intent.
Sync(node) ==
    IF Due(node)
      THEN Swapped(node, ActivateDeferred(node.rt, node.plan, node.pending, Current))
      ELSE Result(node, SyncBoundary(node.rt, node.plan, Current))

ResolveNode(s, n, triggered) ==
    LET node == s.nodes[n]
        mine == {i \in s.intents : i.target = n}
        r == IF mine # {} THEN Obey(node, Winner(mine))
             ELSE IF triggered THEN Sync(node) ELSE Result(node, Done(node.rt, {}))
    IN  [nodes |-> [s.nodes EXCEPT ![n] = r.node],
         intents |-> s.intents \cup Intents(r.out, r.node.plan, n),
         failed |-> s.failed \/ ~r.ok]

Resolved(directs, triggered) ==
    LET after[k \in 0..Len(Order)] ==
            IF k = 0 THEN [nodes |-> nodes, intents |-> directs, failed |-> FALSE]
            ELSE IF after[k - 1].failed THEN after[k - 1]
            ELSE ResolveNode(after[k - 1], Order[k], triggered)
    IN  after[Len(Order)]

\* Loops that a composite which is stopped keeps active.
LeftBehind(resolved) ==
    {l \in Loops : \E n \in Nodes : /\ resolved[n].rt.mode = "Stopped"
                                    /\ \E a \in resolved[n].rt.active : a.target = l}

Commit(s) ==
    LET For(l) == {i \in s.intents : i.target = l}
    IN  /\ nodes' = s.nodes
        /\ loopMode' = [l \in Loops |-> IF l \in live /\ For(l) # {}
                                          THEN Winner(For(l)).mode ELSE loopMode[l]]
        /\ content' = content \cup {l \in live : \E i \in For(l) : IsRecording(Winner(For(l)).mode)}
        /\ left' = left \cup LeftBehind(s.nodes)

\* The controls of a restart are consumed whatever comes of them.
Resolve(directs, triggered) ==
    LET restarts == {Direct(n, controls[n], 0) : n \in {m \in Nodes : controls[m] # NoControl
                                 /\ ~\E d \in directs : d.target = m}}
    IN  \E s \in {Resolved(directs \cup restarts, triggered)} :
          /\ controls' = [n \in Nodes |-> NoControl]
          /\ fault' = s.failed
          /\ IF s.failed THEN UNCHANGED <<nodes, loopMode, content, left>> ELSE Commit(s)

-----------------------------------------------------------------------------
\* Audio thread.

Quiet == \A n \in Nodes : controls[n] = NoControl

\* The sync loop comes round.
NextCycle == ~fault /\ Quiet /\ cycle' = 1 - cycle

\* Every composite is due.
Boundary ==
    /\ NextCycle
    /\ Resolve({}, TRUE)
    /\ UNCHANGED <<registry, live, budget>>

\* The next processing starts with the controls a restart left.
NextProcessing == ~fault /\ ~Quiet /\ controls' = [n \in Nodes |-> NoControl]

DeliverControls ==
    /\ NextProcessing
    /\ Resolve({}, FALSE)
    /\ UNCHANGED <<registry, live, cycle, budget>>

-----------------------------------------------------------------------------
\* Commands of the user; each runs to its end on the audio thread.

Command == ~fault /\ budget > 0 /\ budget' = budget - 1

\* accept_composite_transition
RequestTransition(n, mode, delay) ==
    /\ Command
    /\ nodes' = [nodes EXCEPT ![n].rt.pending = [mode |-> mode, skip |-> delay]]
    /\ UNCHANGED <<registry, loopMode, content, live, controls, fault, cycle, left>>

\* accept_composite_immediate_transition: resolved at once, with nothing triggered.
TransitionNow(n, mode, iteration) ==
    /\ Command
    /\ IF mode = "Stopped" THEN iteration = 0 ELSE iteration < nodes[n].plan.length
    /\ Resolve({Direct(n, mode, iteration)}, FALSE)
    /\ UNCHANGED <<registry, live, cycle>>

\* accept_composite_play_after_record
SetPlayAfterRecord(n, enabled) ==
    /\ Command
    /\ nodes[n].rt.playAfter # enabled
    /\ nodes' = [nodes EXCEPT ![n].rt.playAfter = enabled]
    /\ UNCHANGED <<registry, loopMode, content, live, controls, fault, cycle, left>>

\* The application refuses to remove a loop that a description names.
RemoveLoop(l) ==
    /\ Command
    /\ l \in live
    /\ \A n \in Nodes : l \notin Named(registry[n])
    /\ live' = live \ {l}
    /\ loopMode' = [loopMode EXCEPT ![l] = "Stopped"]
    /\ content' = content \ {l}
    /\ UNCHANGED <<nodes, registry, controls, fault, cycle, left>>

\* replacement_requires_runtime_transfer
SomethingIsOn ==
    \E n \in Nodes : Running(n) \/ nodes[n].rt.pending # NoTransition

PlanOf(n, plans) == CHOOSE p \in plans : p.source = n

SameNesting(plans) ==
    \A p \in plans : nodes[p.source].plan.targets \cap Nodes = p.targets \cap Nodes

\* Mutant: the running composite is handed the new plan at once.
QueuedAtOnce(node, plan) ==
    [node EXCEPT !.plan = plan, !.rt.targets = plan.targets]

\* queue_runtime_preserving_replacement, one node.
Queued(node, plan) ==
    IF plan = node.plan THEN node
    ELSE IF node.rt.mode # "Stopped" THEN [node EXCEPT !.pending = plan]
    ELSE [node EXCEPT !.plan = plan,
                      !.rt = ActivatePlan(node.rt, node.plan, plan, Targets).rt]

\* install_prepared_composite_timeline when nothing changes its place.
Keep(plans) ==
    /\ SomethingIsOn /\ SameNesting(plans)
    /\ nodes' = [n \in Nodes |-> Queued(nodes[n], PlanOf(n, plans))]
    /\ UNCHANGED <<loopMode, controls>>

\* ... when the nesting changes under something that is on.
Restart(plans) ==
    /\ SomethingIsOn /\ ~SameNesting(plans)
    /\ loopMode' = [l \in Loops |->
          IF \E n \in Nodes : l \in {a.target : a \in nodes[n].rt.active}
            THEN "Stopped" ELSE loopMode[l]]
    /\ nodes' = [n \in Nodes |-> Fresh(PlanOf(n, plans), nodes[n].rt.playAfter)]
    /\ controls' = [n \in Nodes |-> IF Running(n) /\ PlanOf(n, plans).length > 0
                                      THEN nodes[n].rt.mode ELSE controls[n]]

\* ... and when everything is stopped.
Replace(plans) ==
    /\ ~SomethingIsOn
    /\ nodes' = [n \in Nodes |-> Fresh(PlanOf(n, plans), FALSE)]
    /\ UNCHANGED <<loopMode, controls>>

(* configure_composite_loop: every description is compiled again, with the   *)
(* lengths that the loops and the composites publish now.                    *)
Edit(n, description) ==
    LET lengths == [t \in Targets |-> IF t \in Nodes THEN nodes[t].plan.length
                                      ELSE LoopLengths(content)[t]]
        newest == [registry EXCEPT ![n] = description]
        plans == {Compile(m, newest[m], lengths) : m \in Nodes}
    IN  /\ Command
        /\ Named(description) \subseteq live
        /\ registry' = newest
        /\ Keep(plans) \/ Restart(plans) \/ Replace(plans)
        /\ UNCHANGED <<content, live, fault, cycle, left>>

Next ==
    \/ Boundary
    \/ DeliverControls
    \/ \E n \in Nodes, mode \in UserModes, delay \in 0..MaxDelay :
           RequestTransition(n, mode, delay)
    \/ \E n \in Nodes : \E mode \in UserModes, iteration \in 0..nodes[n].plan.length :
           TransitionNow(n, mode, iteration)
    \/ \E n \in Nodes, enabled \in BOOLEAN : SetPlayAfterRecord(n, enabled)
    \/ \E l \in Loops : RemoveLoop(l)
    \/ \E n \in Nodes : \E description \in Versions[n] : Edit(n, description)

(* The audio thread runs and the sync loop plays.  Boundary is the only      *)
(* action that takes NextCycle's step, and whatever clears the controls      *)
(* delivers them.                                                            *)
Spec == Init /\ [][Next]_vars /\ WF_cycle(NextCycle) /\ WF_controls(NextProcessing)

-----------------------------------------------------------------------------
TypeOK ==
    /\ nodes \in [Nodes -> [plan : Plans, pending : Plans, rt : Runtimes]]
    /\ \A n \in Nodes : nodes[n].rt.targets = nodes[n].plan.targets
    /\ registry \in [Nodes -> Descriptions]
    /\ loopMode \in [Loops -> Modes \ {"Unknown"}]
    /\ content \subseteq live /\ live \subseteq Loops
    /\ controls \in [Nodes -> (Modes \ {"Unknown"}) \cup {NoControl}]
    /\ fault \in BOOLEAN /\ cycle \in {0, 1} /\ left \subseteq Loops /\ budget \in 0..MaxCommands

\* The mode composite n wants loop l to be in, in its present iteration.
ModeAsked(n, l, recorded) ==
    LET rt == nodes[n].rt
        cells == {w \in Wanted(nodes[n].plan, rt.iteration, rt.mode, recorded) : w.target = l}
    IN  IF rt.mode = "Stopped" \/ cells = {} THEN "Stopped" ELSE (CHOOSE w \in cells : TRUE).mode

\* The basic loops that the descriptions of a composite name.
Described(n) == {Initial[n]} \cup Versions[n]
Owned(n) == UNION {Named(description) : description \in Described(n)}

\* No basic loop has two composites.
OneOwner == \A m, n \in Nodes : m # n => Owned(m) \cap Owned(n) = {}

(* Every loop is in the mode that the active plan of its composite asks for  *)
(* in the present iteration, and a loop no plan names is stopped: through    *)
(* edits, plans that change hands, restarts, nested stops and script ends.   *)
(* Only the first iteration after a recording pass takes loops to hold       *)
(* something whatever the plan was told.  Of sessions with OneOwner: two     *)
(* composites that share a loop overrule each other, command by command.     *)
(* Loops that the end of a script left behind are excepted: StoppedIsSilent. *)
LoopsFollowPlan ==
    \A l \in live \ left :
        LET owners == {n \in Nodes : l \in nodes[n].plan.targets}
        IN  IF owners = {} THEN loopMode[l] = "Stopped"
            ELSE \A n \in owners :
                    \/ loopMode[l] = ModeAsked(n, l, FALSE)
                    \/ nodes[n].rt.iteration = 0 /\ loopMode[l] = ModeAsked(n, l, TRUE)

\* An entry for a nested composite that goes on after the composite's own plan.
Outlasts(plan) ==
    \E c \in plan.desired : c.target \in Nodes /\ c.duration > nodes[c.target].plan.length

(* The timeline, which nothing starts again, fails for two reasons only: a   *)
(* pending plan names a loop that has been removed, or a parent places a     *)
(* nested composite beyond the end of its plan.                              *)
FaultsHaveCause ==
    [][~fault /\ fault' =>
          \E n \in Nodes : \/ ~(nodes[n].pending.targets \subseteq Current)
                           \/ Outlasts(nodes[n].plan)
                           \/ Outlasts(nodes[n].pending)]_vars

(* A composite that goes on running changes its plan only where a pass ends  *)
(* and with it the next one begins.                                          *)
PlansSwapAtPassEnd ==
    [][\A n \in Nodes :
          nodes[n].plan # nodes'[n].plan /\ Running(n) /\ nodes'[n].rt.mode # "Stopped"
            => /\ nodes[n].rt.iteration + 1 = nodes[n].plan.length
               /\ nodes'[n].rt.iteration = 0]_vars

(* A recording composite stops recording: one pass, however the user edits,  *)
(* restarts or seeks it meanwhile.                                           *)
RecordingEnds ==
    \A n \in Nodes : IsRecording(nodes[n].rt.mode) ~> fault \/ ~IsRecording(nodes[n].rt.mode)

(* A transition that was accepted is executed, replaced or dropped by a      *)
(* restart; it does not stay pending.                                        *)
TransitionsLand ==
    \A n \in Nodes : nodes[n].rt.pending # NoTransition
                        ~> fault \/ nodes[n].rt.pending = NoTransition

\* Composites no plan contains.
Outermost(n) == \A m \in Nodes : n \notin nodes[m].plan.targets

(* An edit of a running composite that nothing retriggers takes effect.      *)
PlansLand ==
    \A n \in Nodes : Running(n) /\ nodes[n].pending # NoPlan /\ Outermost(n)
                        ~> \/ fault \/ ~Running(n) \/ ~Outermost(n)
                           \/ nodes[n].pending = NoPlan

(* "deferred_replacement_preserves_continuations_and_script_completion_stays *)
(* _stopped": a composite that is stopped has no active child.               *)
StoppedIsSilent ==
    \A n \in Nodes : ~Running(n) => nodes[n].rt.active = {}

(* "stop_before_iteration_zero_activates_pending_plan_stopped": a composite  *)
(* that is stopped has taken over the plan that was pending.  So it is for   *)
(* an immediate stop, not for one that waited for the boundary.              *)
StoppedRunsNewest ==
    \A n \in Nodes : ~Running(n) => nodes[n].pending = NoPlan

(* RuntimeStatus::Running => PlanActivation::NextIterationZeroBoundary: a    *)
(* composite that goes on at iteration zero runs its newest plan.  Not so    *)
(* when its parent or a requested transition brings it there.                *)
ZeroRunsNewest ==
    [][\A n \in Nodes : cycle' # cycle /\ ~fault' /\ Running(n) /\ nodes'[n].rt.mode # "Stopped"
                          /\ nodes'[n].rt.iteration = 0 => nodes'[n].pending = NoPlan]_vars
=============================================================================
