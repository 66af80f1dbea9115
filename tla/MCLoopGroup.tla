----------------------------- MODULE MCLoopGroup -----------------------------
\* Three loops in the arrangements that matter: a chain of followers behind a
\* playing leader, and two loops that follow each other.
EXTENDS LoopGroup

MCLoops  == {"a", "b", "c"}
MCFollow == {"b", "c"}
MCOne    == {"b"}

Leading == [NewLoop EXCEPT !.mode = "Playing", !.len = 2]

Led(others)    == [i \in MCLoops |-> IF i = "a" THEN Leading ELSE others]
Following(b, c) == [i \in MCLoops |-> CASE i = "a" -> None [] i = "b" -> b [] i = "c" -> c]
Filled          == [NewLoop EXCEPT !.len = 3]

\* a plays two samples over and over; b follows a, and c follows b.
Chain == [loops |-> Led(NewLoop), source |-> Following("a", "b")]
\* b and c follow each other, with content and stopped.
Ring  == [loops |-> Led(Filled), source |-> Following("c", "b")]
\* b and c both follow a, with and without content.
FilledFan == [loops |-> Led(Filled), source |-> Following("a", "a")]
EmptyFan  == [loops |-> Led(NewLoop), source |-> Following("a", "a")]

ChainOrRing == {Chain, Ring}
OnlyRing    == {Ring}
OnlyFilled  == {FilledFan}
OnlyEmpty   == {EmptyFan}
=============================================================================
