------------------------------ MODULE Activations ------------------------------
(***************************************************************************)
(* What a function of ABC code sees while it runs and calls others: the    *)
(* three stacks, of which an activation touches only its own cells, and    *)
(* what the last instruction let the world see (the way a branch went, a   *)
(* store to memory, the results handed to the host).  Compiled code        *)
(* (Placement) implements it; nothing here knows of registers or homes.    *)
(***************************************************************************)
EXTENDS ThreeStacks

CONSTANTS
  Arguments,    \* of the function that is entered first
  MaxResults,   \* a function returns, a bound of the instance
  MaxCalls,     \* nesting of activations, a bound of the instance
  Quiet         \* nothing to be seen

VARIABLES
  frames,   \* the callers: where the activation's cells begin, and the stack
            \* its results go to
  out       \* what the last instruction showed

seen == <<stack, frames, out>>

Base(s)   == IF frames = <<>> THEN 0 ELSE frames[Len(frames)].base[s]
Has(s, n) == Len(stack[s]) - Base(s) >= n
Alone(me, n) == Len(stack[me]) = Base(me) + n /\ Len(stack[Other(me)]) = Base(Other(me))
Local     == frames' = frames /\ out' = Quiet

Reversed(q) == [i \in 1 .. Len(q) |-> q[Len(q) + 1 - i]]
Topmost(s, n) == SubSeq(stack[s], Len(stack[s]) - n + 1, Len(stack[s]))
Without(s, n) == SubSeq(stack[s], 1, Len(stack[s]) - n)

\* What a callee that is not looked into makes of its arguments.
Answer(arguments) == IF Len(arguments) = 1 THEN arguments[1]
                     ELSE Op(arguments[1], arguments[2])

Start ==
  /\ stack \in {[A |-> <<>>, B |-> <<>>, C |-> a] : a \in [1 .. Arguments -> Values]}
  /\ frames = <<>>
  /\ out = Quiet

Immediate(me, v) == stack' = [stack EXCEPT ![me][Len(stack[me])] = Op(Top(me), v)]

BinaryC(me, depth) ==
  stack' = [stack EXCEPT ![me][Len(stack[me])] = Op(Top(me), stack["C"][Len(stack["C"]) - depth])]

\* Branch on whether the tops of the two operand stacks are equal.
Compare(me) ==
  /\ stack' = [stack EXCEPT ![me] = Popped(me), ![Other(me)] = Popped(Other(me))]
  /\ out' = <<"branch", Top(me) = Top(Other(me))>>

Store(me) ==
  /\ stack' = [stack EXCEPT ![me] = Popped(me), ![Other(me)] = Popped(Other(me))]
  /\ out' = <<"store", Top(me), Top(Other(me))>>

\* The arguments go to C, the last one first; the results will go to `me`.
Call(me, n) ==
  /\ Has(me, n) /\ Room("C", n) /\ Len(frames) < MaxCalls
  /\ out' = Quiet
  /\ frames' = Append(frames, [base |-> [A |-> Len(stack["A"]) - IF me = "A" THEN n ELSE 0,
                                         B |-> Len(stack["B"]) - IF me = "B" THEN n ELSE 0,
                                         C |-> Len(stack["C"])], dst |-> me])
  /\ stack' = [stack EXCEPT ![me] = Without(me, n), !["C"] = @ \o Reversed(Topmost(me, n))]

\* The activation ends with n results on `me` and nothing else on A and B; its
\* cells of C are cut off.
Return(me, n) ==
  LET to == frames[Len(frames)].dst
  IN  /\ frames # <<>> /\ Alone(me, n)
      /\ to = me \/ Room(to, n)
      /\ out' = Quiet
      /\ frames' = SubSeq(frames, 1, Len(frames) - 1)
      /\ stack' = [s \in Stacks |->
                     SubSeq(stack[s], 1, Base(s)) \o IF s = to THEN Topmost(me, n) ELSE <<>>]

\* The activation hands its n operands to the next one and is gone.
TailCall(me, n) ==
  /\ Alone(me, n) /\ Base("C") + n <= MaxC /\ Local
  /\ stack' = [stack EXCEPT ![me] = Without(me, n),
                            !["C"] = SubSeq(@, 1, Base("C")) \o Reversed(Topmost(me, n))]

\* The first activation ends, and its results are the host's.
Finish(me, n) ==
  /\ frames = <<>> /\ Alone(me, n)
  /\ stack' = [s \in Stacks |-> <<>>]
  /\ frames' = frames
  /\ out' = <<"results", Topmost(me, n)>>

\* A callee that is not compiled into its caller.
Apart(me, n, results) ==
  /\ Has(me, n) /\ Len(stack[me]) - n + results <= Max(me) /\ Local
  /\ stack' = [stack EXCEPT ![me] = Without(me, n) \o [i \in 1 .. results |-> Answer(Topmost(me, n))]]

\* One that is named by the top of the other stack.
Indirect(me, n, results) ==
  /\ Has(me, n) /\ Has(Other(me), 1) /\ Len(stack[me]) - n + results <= Max(me) /\ Local
  /\ stack' = [stack EXCEPT ![Other(me)] = Popped(Other(me)),
                            ![me] = Without(me, n) \o [i \in 1 .. results |-> Answer(Topmost(me, n))]]

Step ==
  \/ stack' = stack /\ Local
  \/ \E s \in Operands :
       \/ /\ Local
          /\ \/ \E v \in Values : Push(s, v) \/ (Has(s, 1) /\ Immediate(s, v))
             \/ Has(s, 1) /\ \E to \in Operands : Copy(s, to)
             \/ Has(s, 1) /\ \E to \in {Other(s), "C"} : Move(s, to)
             \/ \E depth \in 0 .. MaxC - 1 :
                  /\ Has("C", depth + 1)
                  /\ Get(s, depth) \/ (Has(s, 1) /\ (Set(s, depth) \/ BinaryC(s, depth)))
             \/ Has(s, 1) /\ Has(Other(s), 1) /\ Binary(s)
       \/ /\ frames' = frames
          /\ Has(s, 1) /\ Has(Other(s), 1) /\ (Compare(s) \/ Store(s))
       \/ \E n \in 0 .. MaxA + MaxB : Call(s, n) \/ TailCall(s, n) \/ Return(s, n) \/ Finish(s, n)
       \/ \E n \in 1 .. 2, results \in 0 .. MaxResults : Apart(s, n, results) \/ Indirect(s, n, results)
  \/ \E s \in Stacks : Has(s, 1) /\ Pop(s) /\ Local

ActivationSpec == Start /\ [][Step]_seen
=============================================================================
