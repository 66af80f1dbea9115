-------------------------- MODULE CompositeRuntime --------------------------
(***************************************************************************)
(* The state of one composite loop and what each operation makes of it     *)
(* (shoop_engine/src/composite_runtime.rs).  An operation returns the new  *)
(* runtime, the transitions it commands of its targets, and whether it     *)
(* succeeded.                                                              *)
(*                                                                         *)
(* Positions inside a cycle, the counters and the capacity of a batch are  *)
(* left out; stop is the mode Stopped, and an action says for a target     *)
(* that is a composite itself at which of its iterations it starts.        *)
(***************************************************************************)
EXTENDS CompositePlan

NoTransition == [mode |-> "Unknown", skip |-> 0]
Transitions == {NoTransition} \cup [mode : Modes \ {"Unknown"}, skip : Nat]

\* active says of each active target the mode last commanded of it.
Runtimes == [mode : Modes \ {"Unknown"}, pending : Transitions, iteration : Nat,
             targets : SUBSET Targets, active : SUBSET [target : Targets, mode : Modes],
             playAfter : BOOLEAN]

NewRuntime(plan) ==
    [mode |-> "Stopped", pending |-> NoTransition, iteration |-> 0,
     targets |-> plan.targets, active |-> {}, playAfter |-> FALSE]

Done(rt, out) == [rt |-> rt, out |-> out, ok |-> TRUE]
Failed(rt)    == [rt |-> rt, out |-> {}, ok |-> FALSE]

\* ensure_plan
Matches(rt, plan) == rt.targets = plan.targets

\* A recording regular composite records every target once per pass.
Table(plan, mode) ==
    IF plan.kind = "Regular" /\ IsRecording(mode) THEN plan.first ELSE plan.desired

(* effective_target: recorded says that the children have just been          *)
(* recorded, whatever they held when the plan was compiled.                  *)
Asked(cell, mode) == IF cell.mode = "Inherit" THEN mode ELSE cell.mode

Silent(cell, mode, recorded) ==
    \/ Asked(cell, mode) \in {"Stopped", "Unknown"}
    \/ cell.empty /\ ~recorded /\ Asked(cell, mode) \in {"Playing", "PlayingDryThroughWet"}

Offset(cell, asked, iteration) ==
    LET elapsed == iteration - cell.start
    IN  IF IsRecording(asked) THEN elapsed ELSE elapsed % cell.duration

\* The targets that a plan wants active in an iteration, each in which mode and where.
Wanted(plan, iteration, mode, recorded) ==
    {[target |-> c.target, mode |-> Asked(c, mode),
      offset |-> Offset(c, Asked(c, mode), iteration)] :
        c \in {c \in Table(plan, mode) : c.at = iteration /\ ~Silent(c, mode, recorded)}}

Halt(targets) == {[target |-> t, mode |-> "Stopped", offset |-> 0] : t \in targets}

\* Brings the targets to what is wanted; the dead ones are skipped.
Reconcile(rt, wanted, seek, live) ==
    LET Has(w) == [target |-> w.target, mode |-> w.mode] \in rt.active
        told == {w \in wanted : \/ ~Has(w) \/ seek
                                \/ rt.iteration = 0 /\ w.target \in Nodes}
        over == {a.target : a \in rt.active} \ {w.target : w \in wanted}
        kept == {w \in wanted : w \notin told \/ w.target \in live}
    IN  Done([rt EXCEPT !.active = {[target |-> w.target, mode |-> w.mode] : w \in kept}],
             Halt(over \cap live) \cup {w \in told : w.target \in live})

Silence(rt, live) == Reconcile(rt, {}, FALSE, live)

Enter(rt, plan, seek, recorded, live) ==
    Reconcile(rt, Wanted(plan, rt.iteration, rt.mode, recorded), seek, live)

\* stop_inner: children first, then the composite itself.
Stop(rt, live) ==
    LET r == Silence([rt EXCEPT !.pending = NoTransition], live)
    IN  Done([r.rt EXCEPT !.mode = "Stopped", !.iteration = 0], r.out)

TransitionImmediate(rt, plan, mode, iteration, live) ==
    IF ~Matches(rt, plan) THEN Failed(rt)
    ELSE IF mode = "Stopped" THEN Stop(rt, live)
    ELSE IF plan.length = 0
      THEN Done([rt EXCEPT !.mode = "Stopped", !.pending = NoTransition, !.iteration = 0], {})
    ELSE IF iteration >= plan.length THEN Failed(rt)
    ELSE Enter([rt EXCEPT !.mode = mode, !.pending = NoTransition, !.iteration = iteration],
               plan, TRUE, FALSE, live)

PlaybackAfter(mode) ==
    IF mode = "RecordingDryIntoWet" THEN "PlayingDryThroughWet" ELSE "Playing"

\* Mutant: a recording without play-after-record is not ended.
AfterPassGoesOn(rt, plan) ==
    IF plan.kind = "Script" THEN "Stopped"
    ELSE IF IsRecording(rt.mode) /\ rt.playAfter THEN PlaybackAfter(rt.mode) ELSE rt.mode

\* The mode in which the next pass runs.
AfterPass(rt, plan) ==
    IF plan.kind = "Script" THEN "Stopped"
    ELSE IF ~IsRecording(rt.mode) THEN rt.mode
    ELSE IF rt.playAfter THEN PlaybackAfter(rt.mode) ELSE "Stopped"

\* A recording pass has just filled the children.
HasRecorded(rt, plan) == plan.kind = "Regular" /\ IsRecording(rt.mode) /\ rt.playAfter

\* Mutant: the end of a script only resets the script, not its children.
AdvanceLeavesChildren(rt, plan, live) ==
    IF rt.mode = "Stopped" \/ plan.length = 0 THEN Done(rt, {})
    ELSE IF rt.iteration + 1 < plan.length
      THEN Enter([rt EXCEPT !.iteration = @ + 1], plan, FALSE, FALSE, live)
    ELSE LET next == AfterPass(rt, plan)
             over == [rt EXCEPT !.mode = next, !.iteration = 0]
         IN  IF next = "Stopped" THEN Done([over EXCEPT !.active = {}], {})
             ELSE Enter(over, plan, FALSE, HasRecorded(rt, plan), live)

\* A script that ends forgets a pending transition; a recording that ends keeps it.
Advance(rt, plan, live) ==
    IF rt.mode = "Stopped" \/ plan.length = 0 THEN Done(rt, {})
    ELSE IF rt.iteration + 1 < plan.length
      THEN Enter([rt EXCEPT !.iteration = @ + 1], plan, FALSE, FALSE, live)
    ELSE LET next == AfterPass(rt, plan)
             over == [rt EXCEPT !.mode = next, !.iteration = 0,
                                !.pending = IF plan.kind = "Script" THEN NoTransition ELSE @]
         IN  IF next = "Stopped" THEN Silence(over, live)
             ELSE Enter(over, plan, FALSE, HasRecorded(rt, plan), live)

\* Mutant: the countdown is read and not stored.
SyncBoundaryWaits(rt, plan, live) ==
    IF ~Matches(rt, plan) THEN Failed(rt)
    ELSE IF rt.pending = NoTransition THEN Advance(rt, plan, live)
    ELSE IF rt.pending.skip = 0
      THEN TransitionImmediate([rt EXCEPT !.pending = NoTransition], plan,
                               rt.pending.mode, 0, live)
    ELSE Advance(rt, plan, live)

SyncBoundary(rt, plan, live) ==
    IF ~Matches(rt, plan) THEN Failed(rt)
    ELSE IF rt.pending = NoTransition THEN Advance(rt, plan, live)
    ELSE IF rt.pending.skip = 0
      THEN TransitionImmediate([rt EXCEPT !.pending = NoTransition], plan,
                               rt.pending.mode, 0, live)
    ELSE Advance([rt EXCEPT !.pending.skip = @ - 1], plan, live)

\* Mutant: the target table is not replaced with the plan.
ActivateKeepsTargets(rt, plan, candidate, live) ==
    IF ~Matches(rt, plan) \/ ~(candidate.targets \subseteq live) THEN Failed(rt)
    ELSE LET r == Silence(rt, live)
         IN  Done([r.rt EXCEPT !.active = {}, !.iteration = 0], r.out)

\* activate_plan of a composite that is stopped; a countdown goes on.
ActivatePlan(rt, plan, candidate, live) ==
    IF ~Matches(rt, plan) \/ ~(candidate.targets \subseteq live) THEN Failed(rt)
    ELSE LET r == Silence(rt, live)
         IN  Done([r.rt EXCEPT !.targets = candidate.targets, !.active = {},
                               !.iteration = 0], r.out)

(* activate_deferred_at_iteration_zero: the pass that ends decides the mode, *)
(* the plan that begins decides the children.  A pending transition is not   *)
(* counted down.  Of two intents for one target the later one counts.        *)
ActivateDeferred(rt, plan, candidate, live) ==
    IF ~Matches(rt, plan) \/ ~(candidate.targets \subseteq live) THEN Failed(rt)
    ELSE LET next == IF candidate.length = 0 THEN "Stopped" ELSE AfterPass(rt, plan)
             stays == {w.target : w \in Wanted(candidate, 0, next, FALSE)}
             leaving == {a.target : a \in rt.active} \ stays
             moved == [rt EXCEPT
                         !.mode = next, !.iteration = 0, !.targets = candidate.targets,
                         !.active = {a \in @ : a.target \in stays}]
             starts == IF next = "Stopped" THEN Done(moved, {})
                       ELSE Enter(moved, candidate, FALSE, HasRecorded(rt, plan), live)
             told == {o.target : o \in starts.out}
         IN  Done(starts.rt, starts.out \cup Halt((leaving \ told) \cap live))
=============================================================================
