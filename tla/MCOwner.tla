------------------------------- MODULE MCOwner -------------------------------
(* Owner on a small heap; the constants come from the .cfg file, and fairness *)
(* is of the threads: the specification is FairSpec.                          *)
EXTENDS Owner
=============================================================================
