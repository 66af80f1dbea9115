--------------------------- MODULE CommandChannel ---------------------------
(***************************************************************************)
(* What the control/audio boundary (engine.rs) promises its callers:       *)
(* commands are numbered in the order they were accepted, each one is      *)
(* applied exactly once and in that order, and a bounded number of them is *)
(* outstanding.  No thread, ring or flag appears here; EngineQueue is      *)
(* shown to implement this module.                                         *)
(***************************************************************************)
EXTENDS Naturals

CONSTANT Outstanding   \* how many accepted commands may still be unapplied

VARIABLES
  sent,      \* the newest sequence number handed to a caller
  applied,   \* the newest sequence number published as applied
  alive      \* whether the engine still exists

vars == <<sent, applied, alive>>

TypeOK == /\ sent \in Nat
          /\ applied \in Nat
          /\ alive \in BOOLEAN

Init == sent = 0 /\ applied = 0 /\ alive = TRUE

\* A command is accepted.  A send may have seen the engine alive just before
\* it went away, so acceptance does not require it to be alive still.
Accept == /\ sent - applied < Outstanding
          /\ sent' = sent + 1
          /\ UNCHANGED <<applied, alive>>

\* The oldest outstanding command is applied; only a living engine does it.
Apply == /\ alive
         /\ applied < sent
         /\ applied' = applied + 1
         /\ UNCHANGED <<sent, alive>>

Close == /\ alive
         /\ alive' = FALSE
         /\ UNCHANGED <<sent, applied>>

Next == Accept \/ Apply \/ Close

Spec == Init /\ [][Next]_vars
=============================================================================
