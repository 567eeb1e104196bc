----------------------------- MODULE MCOptimizer -----------------------------
(* Three functions of one argument, each with one of some bodies; or a loop of *)
(* two arguments between two of its callers.                                   *)
EXTENDS Optimizer

Op(o, n) == [op |-> o, arg |-> n]
Get(d) == Op("get", d)
Inc    == Op("inc", 0)
Ret    == Op("ret", 0)
Of(args, bodies) == {[args |-> args, body |-> b] : b \in bodies}

Identity        == <<Get(0), Ret>>
Delegate(f)     == <<Get(0), Op("tail", f)>>
CallThen(k, f)  == <<Op("push", k), Op("call", f), Inc, Ret>>
CallTwice(v, f, g) == <<v, Op("call", f), Op("call", g), Ret>>
Under(f)        == <<Get(0), Op("push", 1), Op("call", f), Op("drop", 0), Ret>>
Loop(f)         == <<Get(0), Op("branch", 5), Op("push", 1), Ret, Get(0), Inc, Op("tail", f)>>
Recur(f)        == <<Get(0), Op("branch", 5), Op("push", 1), Ret, Get(0), Inc, Op("call", f), Inc, Ret>>
Choose(v, w, f, g) == <<Get(0), Op("branch", 5), v, Op("tail", f), w, Op("tail", g)>>
Back            == <<Get(0), Op("branch", 1), Get(0), Ret>>

Bodies(f, g, h) ==
  Of(1, {Identity, Delegate(g), CallThen(0, g), CallTwice(Get(0), g, h), Under(g), Loop(f), Loop(g),
         Recur(f), Recur(g), Choose(Op("push", 1), Get(0), g, h), Choose(Op("push", 0), Get(0), g, g)})

Singles == {[fn |-> <<a, b, c>>, exports |-> {1}] :
              a \in Bodies(1, 2, 3), b \in Bodies(2, 3, 1), c \in Bodies(3, 1, 2)}

(* The function exported lies behind the loop that it comes to in two ways. *)
Behind == {[fn |-> <<a, b, c>>, exports |-> {3}] :
             a \in Of(1, {Loop(1), Recur(1)}), b \in Of(1, {Identity, Delegate(1), CallThen(0, 1)}),
             c \in Of(1, {Choose(v, w, f, g) : v \in {Op("push", 0), Op("push", 1), Get(0)}, w \in {Op("push", 1), Get(0)}, f, g \in {1, 2}}
                          \cup {CallTwice(v, f, g) : v \in {Op("push", 0), Op("push", 1)}, f, g \in {1, 2}})}

(* A loop goes on with two of its arguments and their successors. *)
Arguments  == {<<Get(0)>>, <<Get(1)>>, <<Get(0), Inc>>, <<Get(1), Inc>>}
PairLoop(f, p, q) == <<Get(0), Op("branch", 5), Get(1), Ret>> \o p \o q \o <<Op("tail", f)>>
Pairs(f)   == {<<p, q, Op(o, f)>> \o IF o = "call" THEN <<Inc, Ret>> ELSE <<>> :
                 p \in {Op("push", 1), Get(0)}, q \in {Op("push", 0), Op("push", 1), Get(0)}, o \in {"call", "tail"}}
Others     == Of(1, {Back, CallThen(0, 1), Choose(Op("push", 0), Get(0), 1, 1)})

Doubles == {[fn |-> <<a, b, c>>, exports |-> e] :
              a \in Of(1, Pairs(2)), b \in Of(2, {PairLoop(2, p, q) : p, q \in Arguments}),
              c \in Others, e \in {{1}, {3}, {1, 3}}}

(* Three functions that go astray: a tail call in an inlined function, a loop  *)
(* entered below two callers, one whose trial another arm of a branch ends, and*)
(* one that another arm comes to when it is stable.                            *)
Straying ==
  {[fn |-> <<a, [args |-> 1, body |-> Delegate(1)], [args |-> 1, body |-> c]>>, exports |-> {3}] :
     a \in Of(1, {Recur(1), Loop(1)}),
     c \in {CallThen(0, 2), CallTwice(Op("push", 0), 2, 2), Choose(Op("push", 0), Op("push", 1), 1, 1),
            Choose(Op("push", 1), Op("push", 0), 1, 1)}}

(* With the depths that the verifier finds.                                    *)
Depths(fn, f) ==
  LET b == fn[f].body
      From(at) == IF b[at - 1].op \notin {"tail", "ret"} THEN at - 1
                  ELSE CHOOSE k \in 1 .. at - 1 : b[k].op = "branch" /\ b[k].arg = at
      D[at \in DOMAIN b] == IF at = 1 THEN 0
                            ELSE D[From(at)] - Needs([fn |-> fn], b[From(at)]) + Gives(b[From(at)])
  IN  D
Checked(ps) ==
  {[p EXCEPT !.fn = [f \in DOMAIN @ |-> [args |-> @[f].args, body |-> @[f].body, depth |-> Depths(@, f)]]] : p \in ps}

MCPrograms == Checked(Singles \cup Behind \cup Doubles)
Astray     == Checked(Straying)
==============================================================================
