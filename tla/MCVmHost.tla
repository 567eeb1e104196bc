------------------------------ MODULE MCVmHost ------------------------------
(* The imports of the modules: one module calls foreign code, one does not. *)
EXTENDS VmHost, TLC

CONSTANTS m1, m2, n1

ImportsOf == (m1 :> {n1}) @@ (m2 :> {})
=============================================================================
