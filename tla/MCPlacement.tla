------------------------------ MODULE MCPlacement ------------------------------
(* Small instances of the symbolic machine. *)
EXTENDS Placement

LessThan(x, y) == IF x = 0 /\ y = 1 THEN 1 ELSE 0

\* Nothing is said of what comes after a stale copy.
Claimed == stale = "none"
=============================================================================
