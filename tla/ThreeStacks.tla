------------------------------ MODULE ThreeStacks ------------------------------
(***************************************************************************)
(* What a program sees of its operands: the two symmetric value stacks A   *)
(* and B and the context stack C, as plain sequences.  Nothing here knows  *)
(* of registers; OperandBank implements it.                                *)
(***************************************************************************)
EXTENDS Naturals, Sequences

CONSTANTS
  Values,            \* the contents of a cell
  Op(_, _),          \* what a two-operand instruction computes
  MaxA, MaxB, MaxC   \* the verified depths a function may reach

Stacks   == {"A", "B", "C"}
Operands == {"A", "B"}
Other(s) == IF s = "A" THEN "B" ELSE "A"
Max(s)   == CASE s = "A" -> MaxA [] s = "B" -> MaxB [] s = "C" -> MaxC

VARIABLE stack

Init == stack = [s \in Stacks |-> <<>>]

Top(s)     == stack[s][Len(stack[s])]
Popped(s)  == SubSeq(stack[s], 1, Len(stack[s]) - 1)
NonEmpty(s) == stack[s] # <<>>
Room(s, n) == Len(stack[s]) + n <= Max(s)

Push(s, v) == Room(s, 1) /\ stack' = [stack EXCEPT ![s] = Append(@, v)]

Pop(s) == NonEmpty(s) /\ stack' = [stack EXCEPT ![s] = Popped(s)]

Copy(from, to) == NonEmpty(from) /\ Push(to, Top(from))

Move(from, to) ==
  /\ from # to /\ NonEmpty(from) /\ Room(to, 1)
  /\ stack' = [stack EXCEPT ![from] = Popped(from), ![to] = Append(@, Top(from))]

\* The operand `depth` cells under the top of C, zero being the top.
Get(to, depth) == depth < Len(stack["C"])
                    /\ Push(to, stack["C"][Len(stack["C"]) - depth])

Set(from, depth) ==
  /\ NonEmpty(from) /\ depth < Len(stack["C"])
  /\ stack' = [stack EXCEPT ![from] = Popped(from),
                            !["C"][Len(stack["C"]) - depth] = Top(from)]

Binary(me) ==
  /\ NonEmpty(me) /\ NonEmpty(Other(me))
  /\ stack' = [stack EXCEPT ![me][Len(stack[me])] = Op(Top(me), Top(Other(me))),
                            ![Other(me)] = Popped(Other(me))]

\* A return that hands its `count` results over to the other operand stack, in
\* the order they have.
Transfer(me, count) ==
  /\ count <= Len(stack[me]) /\ Room(Other(me), count)
  /\ LET kept == Len(stack[me]) - count
     IN  stack' = [stack EXCEPT ![me] = SubSeq(@, 1, kept),
                                ![Other(me)] = @ \o SubSeq(stack[me], kept + 1, Len(stack[me]))]

Next ==
  \/ \E s \in Stacks : (\E v \in Values : Push(s, v)) \/ Pop(s)
  \/ \E from, to \in Stacks : Copy(from, to) \/ Move(from, to)
  \/ \E s \in Operands :
       \/ \E depth \in 0 .. MaxC - 1 : Get(s, depth) \/ Set(s, depth)
       \/ Binary(s)
       \/ \E count \in 0 .. Max(s) : Transfer(s, count)

Spec == Init /\ [][Next]_stack
=============================================================================
