------------------------------ MODULE Resolver ------------------------------
(***************************************************************************)
(* What the checked target resolver of indirect calls promises: the answer *)
(* depends on the call site and the target alone, never on the targets the *)
(* site has seen before.                                                   *)
(***************************************************************************)
CONSTANTS Sites, Functions, Targets, Verdict(_, _)

VARIABLE answer      \* the last resolution: its site, target and outcome

NoAnswer == [site |-> "none", target |-> "none", outcome |-> "none"]

Init == answer = NoAnswer

Resolve(s, t) ==
    answer' = [site |-> s, target |-> t, outcome |-> Verdict(s, t)]

Next == \E s \in Sites, t \in Targets : Resolve(s, t)

Spec == Init /\ [][Next]_answer
=============================================================================
