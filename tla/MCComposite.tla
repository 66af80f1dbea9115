----------------------------- MODULE MCComposite -----------------------------
\* A song P of a loop A and a nested composite C of a loop B.
EXTENDS CompositeTimeline

MCLoops == {"A", "B"}
MCNodes == {"P", "C"}
MCOrder == <<"P", "C">>

Entry(target, cycles) == [target |-> target, delay |-> 0, cycles |-> cycles, mode |-> "Inherit"]
Told(target, mode)    == [target |-> target, delay |-> 0, cycles |-> 1, mode |-> mode]

\* A, then C for as long as C is.
Song       == <<<<{Entry("A", 1)}, {Entry("C", 0)}>>>>
\* C alone.
Solo       == <<<<{Entry("C", 0)}>>>>
\* A script that records A and then plays it; C is gone.
RecordPlay == <<<<{Told("A", "Recording")}, {Told("A", "Playing")}>>>>

Twice == <<<<{Entry("B", 2)}>>>>
Once  == <<<<{Entry("B", 1)}>>>>

MCInitial  == [n \in MCNodes |-> IF n = "P" THEN Song ELSE Twice]
MCVersions == [n \in MCNodes |-> IF n = "P" THEN {Song, Solo, RecordPlay} ELSE {Twice, Once}]

\* What LoopsFollowPlan, and the theorem about it, need of a session.
ASSUME OneOwnerAssumption == OneOwner
=============================================================================
