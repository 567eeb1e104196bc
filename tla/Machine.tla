--------------------------------- MODULE Machine ---------------------------------
(***************************************************************************)
(* The execution of a verified program: abc_vm_call of src/src/vm.c and    *)
(* the handlers of gen/banked.lua, on the three stacks that OperandBank    *)
(* implements.  The handlers trust the verifier: they look at no depth and *)
(* no kind, and compare capacities only where a function is entered and a  *)
(* block is allocated.                                                     *)
(*                                                                         *)
(* A cell's value is its kind, which is all the verifier promises about    *)
(* it; a branch may go any of its ways, an operation may trap, a foreign   *)
(* call may fail, and an indirect call may find any function or none.      *)
(***************************************************************************)
EXTENDS Verifier

CONSTANTS
  Capacity   \* limits.stack_cells

ASSUME MachineConstants == Capacity \in Nat \ {0}

VARIABLES
  outcome,  \* "ready", "running", or how the run ended: "done", "limit",
            \* "refused", "mismatch", "foreign", "abort"
  stack,    \* context->a, b and c
  frames,   \* the continuations: where to return to, and the stack for the results
  at,       \* the instruction: its function and index
  base      \* per activation, the stacks it was entered on (never read by the code)

machineVars == <<outcome, stack, frames, at, base>>
vars == <<verifierVars, machineVars>>

Marker == <<"return">>   \* the return address an activation keeps on C
Host == <<0, 0>>   \* UINT32_MAX, the return address of the outermost frame

Now == Code(at[1])[at[2]]

Depth(s) == Len(stack[s])

\* The stacks of a context that has just been made, and under its first activation.
Empty     == [s \in Stacks |-> <<>>]
HostStack == [s \in Stacks |-> IF s = "C" THEN <<Marker>> ELSE <<>>]

\* Stacks st with their C replaced.
WithC(st, c) == [s \in Stacks |-> IF s = "C" THEN c ELSE st[s]]

-----------------------------------------------------------------------------

Init ==
  /\ VerifierInit
  /\ outcome = "ready"
  /\ stack = Empty
  /\ frames = <<>>
  /\ at = <<1, 1>>
  /\ base = <<>>

\* abc_vm_call of the exported function: the entry's limits must fit, and its
\* frame and arguments are laid out on C.
Start ==
  /\ verdict = "accepted" /\ outcome = "ready"
  /\ IF \/ max[1]["A"] > Capacity \/ max[1]["B"] > Capacity
        \/ max[1]["C"] + 1 > Capacity
       THEN outcome' = "refused" /\ UNCHANGED <<stack, frames, at, base>>
       ELSE /\ outcome' = "running"
            /\ stack' = WithC(HostStack, <<Marker>> \o Arguments(1))
            /\ frames' = <<[return |-> Host, results |-> "A"]>>
            /\ base' = <<HostStack>>
            /\ at' = <<1, 1>>
  /\ UNCHANGED verifierVars

-----------------------------------------------------------------------------
(* What a handler takes for granted: without it the C code would work on     *)
(* cells that are not there, on a return address, on bytes of no block, or   *)
(* on memory at what is no address.                                          *)

\* The cells a handler looks at or pops on its selected stack and the other one.
Reads(x) ==
  LET R(own, other) == [own |-> own, other |-> other]
  IN  CASE x.op \in {"dup", "copy", "move", "drop", "cset", "unary", "coperand", "fstore", "test"} -> R(1, 0)
        [] x.op \in {"binary", "eq", "indexed", "store", "less", "beq"} -> R(1, 1)
        [] x.op = "cpush"             -> R(x.n, 0)
        [] x.op \in {"call", "tcall"}  -> R(Len(program[x.n].args), 0)
        [] x.op \in {"icall", "itcall"} -> R(Len(program[x.n].args), 1)
        [] x.op = "fcall"             -> R(Len(Externs[x.n].args), 0)
        [] x.op = "ret"               -> R(x.m, 0)
        [] OTHER                      -> R(0, 0)

\* Handlers that follow an address on their selected stack.
Follows(x) == x.op \in {"indexed", "store"} \/ (x.op = "unary" /\ x.from = {AddrKind})

Has(s, n) == Depth(s) >= n /\ \A i \in 1 .. n : Topmost(stack[s], n)[i] \in Scalars
ScalarAt(depth) == Depth("C") > depth /\ At(stack["C"], depth) \in Scalars

\* The bytes of C's cells, counted from the top: where a byte lies in its cell.
ByteAt(d)  == At(stack["C"], (d - 1) \div 8)
IndexAt(d) == 8 * ByteAt(d)[3] - 1 - ((d - 1) % 8)

\* The `width` bytes from the one `offset` under the top are bytes of one block.
Bytes(offset, width) ==
  \A d \in offset - width + 1 .. offset :
    /\ 0 < d /\ (d - 1) \div 8 < Depth("C")
    /\ ByteAt(d) \notin Scalars /\ ByteAt(d)[1] = "block"
    /\ ByteAt(d)[2] = ByteAt(offset)[2]
    /\ IndexAt(d) = IndexAt(offset) + (offset - d)
    /\ IndexAt(d) < ByteAt(d)[2]

Present(x) ==
  /\ Has(x.me, Reads(x).own) /\ Has(Other(x.me), Reads(x).other)
  /\ Follows(x) => At(stack[x.me], 0) = AddrKind
  /\ x.op = "cpop" => ScalarAt(0)
  /\ x.op \in {"cset", "coperand"} => ScalarAt(x.n)
  /\ x.op = "cget" => \A i \in 1 .. x.m : ScalarAt(x.n + i - 1)
  /\ x.op \in {"fload", "fstore"} => Bytes(x.n, x.m)
  /\ x.op = "free" => /\ Depth("C") >= CellsOf(x.n)
                      /\ Topmost(stack["C"], CellsOf(x.n)) = Block(x.n)
  /\ x.op \in Tails => Depth("C") >= x.m
  /\ x.op = "ret" => frames # <<>> /\ Depth("C") > x.n /\ At(stack["C"], x.n) = Marker

\* The handler of the instruction runs.  Where the instruction or an operand is
\* missing the code would go on with whatever is there; NeverWild says that no
\* program gets there, so the model stops.
Running(ops) ==
  /\ outcome = "running"
  /\ at[2] \in DOMAIN Code(at[1]) /\ Now.op \in ops /\ Present(Now)
  /\ UNCHANGED verifierVars

Fail(why) == outcome' = why /\ UNCHANGED <<stack, frames, at, base>>

\* Control falls through or branches within the function.
Continue(st, i) ==
  /\ stack' = st /\ at' = <<at[1], i>>
  /\ UNCHANGED <<outcome, frames, base>>

\* Cells that are popped one at a time and pushed one at a time.
Pushed(s, cells) == s \o Reverse(cells)

\* What a handler pops from its selected stack and from the other one.
Pops(x) ==
  LET P(own, other) == [own |-> own, other |-> other]
  IN  IF x.op \in {"dup", "copy"} THEN P(0, 0) ELSE P(Reads(x).own, Reads(x).other)

\* What it pushes on its selected stack: what it computes or loads, or a cell it
\* has looked at.
Pushes(x) ==
  CASE x.op \in {"push", "unary", "binary", "indexed", "fload"} -> <<x.kind>>
    [] x.op \in {"coperand", "eq"} -> <<IntKind>>
    [] x.op = "dup"               -> <<At(stack[x.me], 0)>>
    [] x.op = "cget"              -> [i \in 1 .. x.m |-> At(stack["C"], x.n + i - 1)]
    [] x.op = "fcall"             -> Externs[x.n].results
    [] OTHER                      -> <<>>

\* What it leaves on C.
OnContext(x) ==
  LET c == stack["C"]
  IN  CASE x.op = "cpush" -> Pushed(c, Topmost(stack[x.me], x.n))
        [] x.op = "cpop"  -> Without(c, 1)
        [] x.op = "cset"  -> [c EXCEPT ![Len(c) - x.n] = At(stack[x.me], 0)]
        [] x.op = "alloc" -> c \o Block(x.n)
        [] x.op = "free"  -> Without(c, CellsOf(x.n))
        [] OTHER          -> c

Effect(x) ==
  [s \in Stacks |->
     IF s = "C" THEN OnContext(x)
     ELSE IF s = x.me THEN Without(stack[s], Pops(x).own) \o Pushes(x)
     ELSE Without(stack[s], Pops(x).other)
            \o IF x.op \in {"copy", "move"} THEN <<At(stack[x.me], 0)>> ELSE <<>>]

\* A handler that falls through.  A division, a power, a conversion or a check
\* may abort the program, and foreign code may fail.
Straight ==
  /\ Running(Straights)
  /\ \/ Continue(Effect(Now), at[2] + 1)
     \/ Now.op \in {"unary", "binary"} /\ Fail("abort")
     \/ Now.op = "fcall" /\ Fail("foreign")

\* CALLOC has a limit check of its own.
Allocate ==
  /\ Running({"alloc"})
  /\ IF Depth("C") + CellsOf(Now.n) > Capacity
       THEN Fail("limit")
       ELSE Continue(Effect(Now), at[2] + 1)

Branch ==
  /\ Running(Branches)
  /\ \/ \E i \in Now.to : Continue(Effect(Now), i)
     \/ Now.op # "jump" /\ Continue(Effect(Now), at[2] + 1)

\* Bug: the callee's depth is compared as if the caller had none.
FitsAlone(g, kept) == \A s \in Stacks : max[g][s] <= Capacity

\* Room for the callee's deepest stacks above what stays of the caller's.
Fits(g, kept) == \A s \in Stacks : Len(kept[s]) + max[g][s] <= Capacity

\* What stays of stacks st under g's activation, with its arguments on stack me
\* and c on C.
Kept(g, me, st, c) ==
  [s \in Stacks |-> IF s = "C" THEN c
                    ELSE IF s = me THEN Without(st[s], Len(program[g].args)) ELSE st[s]]

\* The arguments move from stack me of st to C.
Passed(g, me, st, kept) == WithC(kept, Pushed(kept["C"], Topmost(st[me], Len(program[g].args))))

\* Enter function g with a frame of its own.
Enter(g, me, st) ==
  LET kept == Kept(g, me, st, Append(st["C"], Marker))
  IN  IF Len(frames) < Capacity /\ Fits(g, kept)
        THEN /\ stack' = Passed(g, me, st, kept)
             /\ frames' = Append(frames, [return |-> <<at[1], at[2] + 1>>, results |-> me])
             /\ base' = Append(base, kept)
             /\ at' = <<g, 1>>
             /\ UNCHANGED outcome
        ELSE Fail("limit")

\* Function g takes the place of the frame and its `dropped` private cells of C.
Replace(g, me, st, dropped) ==
  LET kept == Kept(g, me, st, Without(st["C"], dropped))
  IN  IF Fits(g, kept)
        THEN /\ stack' = Passed(g, me, st, kept)
             /\ at' = <<g, 1>>
             /\ UNCHANGED <<outcome, frames, base>>
        ELSE Fail("limit")

Call ==
  /\ Running({"call", "tcall"})
  /\ IF Now.op = "call" THEN Enter(Now.n, Now.me, stack)
                        ELSE Replace(Now.n, Now.me, stack, Now.m)

\* abc_same_signature, and what an indirect call may not reach.
Callable(g, site) ==
  /\ ~HasHalt(g)
  /\ program[g].args = program[site].args /\ program[g].results = program[site].results

\* The stacks once the address of an indirect call is off the other stack.
Addressed(x) == [s \in Stacks |-> IF s = Other(x.me) THEN Without(stack[s], 1) ELSE stack[s]]

\* vm_resolve_indirect, and the call.
IndirectCall ==
  /\ Running({"icall", "itcall"})
  /\ \/ Fail("mismatch")
     \/ \E g \in Functions :
          /\ Callable(g, Now.n)
          /\ IF Now.op = "icall" THEN Enter(g, Now.me, Addressed(Now))
                                 ELSE Replace(g, Now.me, Addressed(Now), Now.m)

\* The results stay where they are, or move to the stack the caller wants.
Handed(x, to) ==
  [s \in Stacks |->
     IF s = "C" THEN Without(stack[s], x.n + 1)
     ELSE IF to = x.me THEN stack[s]
     ELSE IF s = x.me THEN Without(stack[s], x.m)
     ELSE stack[s] \o Topmost(stack[x.me], x.m)]

Return ==
  /\ Running({"ret"})
  /\ stack' = Handed(Now, frames[Len(frames)].results)
  /\ frames' = Without(frames, 1) /\ base' = Without(base, 1)
  /\ IF Len(frames) = 1 THEN outcome' = "done" /\ UNCHANGED at
                        ELSE at' = frames[Len(frames)].return /\ UNCHANGED outcome

\* HALT ends the run where it stands; all of B becomes the results.
Halt ==
  /\ Running({"halt"})
  /\ outcome' = "done"
  /\ stack' = IF Now.me = "A" THEN stack
              ELSE [s \in Stacks |-> CASE s = "A" -> stack["A"] \o stack["B"]
                                       [] s = "B" -> <<>>
                                       [] s = "C" -> stack["C"]]
  /\ UNCHANGED <<frames, at, base>>

Abort == Running({"abort"}) /\ Fail("abort")

Verification == Verify /\ UNCHANGED machineVars

Next ==
  \/ Verification \/ Start
  \/ Straight \/ Allocate \/ Branch \/ Call \/ IndirectCall \/ Return \/ Halt \/ Abort

Spec == Init /\ [][Next]_vars

\* The verifier runs to its verdict; nothing obliges a program to end.
FairSpec == Spec /\ WF_vars(Verification)

-----------------------------------------------------------------------------
(* Properties.                                                              *)

\* An accepted program never takes an operand that is not there or no scalar,
\* accesses bytes outside a block of its own or memory through what is no
\* address, frees what is no block, runs off the end of a function, or returns
\* otherwise than to the address its own activation keeps on C.
NeverWild ==
  outcome = "running" => at[2] \in DOMAIN Code(at[1]) /\ Present(Now)

\* Wherever an accepted program runs, the stacks are those its activation was
\* entered on, every cell of its callers untouched, and on top of them exactly
\* the cells the verifier inferred, kind by kind and block by block.
ShapeRight ==
  outcome = "running" /\ at[2] \in DOMAIN Code(at[1]) =>
    \A s \in Stacks : stack[s] = base[Len(base)][s] \o shape[at[1]][at[2]][s]

\* The limits checked on entry to a function are enough: no handler in it ever
\* passes the end of a stack.
WithinLimits ==
  /\ \A s \in Stacks : Depth(s) <= Capacity
  /\ Len(frames) <= Capacity

\* "invalid final result shape" of abc_vm_call never happens: what a run leaves
\* on A is what its export declares, and B is empty.
ResultsAsDeclared ==
  outcome = "done" => stack["A"] = program[1].results /\ stack["B"] = <<>>
=============================================================================
