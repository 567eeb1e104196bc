------------------------------ MODULE OperandBank ------------------------------
(***************************************************************************)
(* How the interpreter keeps the three stacks: gen/cache.lua, which the    *)
(* generated handlers of gen/banked.lua are built from, and its C twin     *)
(* vm_at, vm_spill, vm_push, vm_pop of src/src/vm.c.                       *)
(*                                                                         *)
(* The topmost cells of A and B share one bank of Registers cells, A from  *)
(* its low end and B from its high end; the topmost cells of C have a bank *)
(* of their own.  The cells below are in memory.  A push that finds its    *)
(* bank full first spills the deepest cached cell (its own stack's if it   *)
(* has one) and shifts the rest towards the anchor; a pop never refills.   *)
(* Registers that a pop leaves keep their stale values.                    *)
(***************************************************************************)
EXTENDS Naturals, Sequences

CONSTANTS
  Values, Op(_, _), MaxA, MaxB, MaxC,   \* see ThreeStacks
  Registers,    \* cache.operand_registers
  CRegisters,   \* cache.interpreter_c_registers
  Zero          \* what calloc and memset leave in a cell

Stacks   == {"A", "B", "C"}
Operands == {"A", "B"}
Other(s) == IF s = "A" THEN "B" ELSE "A"
Limit(s)   == CASE s = "A" -> MaxA [] s = "B" -> MaxB [] s = "C" -> MaxC

ASSUME BankConstants ==
  /\ \A l, r \in Values : Op(l, r) \in Values
  /\ MaxA \in Nat /\ MaxB \in Nat /\ MaxC \in Nat
  /\ Registers \in Nat \ {0} /\ CRegisters \in Nat \ {0}
  /\ Zero \in Values

VARIABLES
  bank,     \* memory cells, cached counts and registers
  pending,  \* results of a return that the loop has still to push
  target    \* the stack it pushes them to

vars == <<bank, pending, target>>

-----------------------------------------------------------------------------
(* cache.lua.                                                               *)

\* The registers h0, h1, ... and after them c0, c1, ..., numbered from 0.
Bank == 0 .. Registers + CRegisters - 1

\* The register of the k-th cached cell of s, counted from the deepest: B's
\* count down from the high end of the operand registers.
Register(s, k) ==
  IF s = "A" THEN k - 1
  ELSE IF s = "B" THEN Registers - k ELSE Registers + k - 1

CellCount(b, s) == Len(b.mem[s]) + b.cached[s]

\* The cell `depth` cells under the top of stack s, zero being the top
\* (M.register, or the memory cell it returns nil for).
CellAt(b, s, depth) ==
  IF depth < b.cached[s]
    THEN b.reg[Register(s, b.cached[s] - depth)]
    ELSE b.mem[s][Len(b.mem[s]) - (depth - b.cached[s])]

\* The program's view of a stack, deepest cell first.
Contents(b, s) == [i \in 1 .. CellCount(b, s) |-> CellAt(b, s, CellCount(b, s) - i)]

\* Bug: the cells that stay are not shifted towards the anchor.
ShiftedNot(b, s, r) == b.reg[r]

\* The register a register takes its value from when the deepest cell leaves.
Shifted(b, s, r) ==
  LET inner == IF s = "B" THEN r - 1 ELSE r + 1
  IN  IF \E k \in 1 .. b.cached[s] - 1 : r = Register(s, k)
        THEN b.reg[inner] ELSE b.reg[r]

\* M.spill_steps: store the deepest cached cell, move the others.
Spill(b, s) ==
  [b EXCEPT !.mem[s] = Append(@, b.reg[Register(s, 1)]),
            !.cached[s] = @ - 1,
            !.reg = [r \in Bank |-> Shifted(b, s, r)]]

\* Bug: the other operand's cells do not count.
FullOwn(b, s) == b.cached[s] = IF s = "C" THEN CRegisters ELSE Registers

Full(b, s) ==
  IF s = "C" THEN b.cached["C"] = CRegisters
             ELSE b.cached["A"] + b.cached["B"] = Registers

\* The stack whose deepest cell makes room.
Victim(b, s) == IF b.cached[s] > 0 THEN s ELSE Other(s)

Push(b, s, v) ==
  LET r == IF Full(b, s) THEN Spill(b, Victim(b, s)) ELSE b
  IN  [r EXCEPT !.cached[s] = @ + 1,
                !.reg[Register(s, r.cached[s] + 1)] = v]

Pop(b, s) ==
  IF b.cached[s] > 0
    THEN [b EXCEPT !.cached[s] = @ - 1]
    ELSE [b EXCEPT !.mem[s] = SubSeq(@, 1, Len(@) - 1)]

\* Overwrite the cell `depth` cells under the top of s.
SetCell(b, s, depth, v) ==
  IF depth < b.cached[s]
    THEN [b EXCEPT !.reg[Register(s, b.cached[s] - depth)] = v]
    ELSE [b EXCEPT !.mem[s][Len(b.mem[s]) - (depth - b.cached[s])] = v]

\* Every cached cell of s goes to memory, the deepest first.
Flush(b, s) ==
  [b EXCEPT !.mem[s] = @ \o [k \in 1 .. b.cached[s] |-> CellAt(b, s, b.cached[s] - k)],
            !.cached[s] = 0]

-----------------------------------------------------------------------------
(* The transfers of the generated handlers.  The verifier rejects a program *)
(* that would underflow a stack or pass its function's declared depths; the *)
(* guards stand for its verdict.                                            *)

Init ==
  /\ bank = [mem |-> [s \in Stacks |-> <<>>],
             cached |-> [s \in Stacks |-> 0],
             reg |-> [r \in Bank |-> Zero]]
  /\ pending = <<>>
  /\ target = "A"

Depth(s)   == CellCount(bank, s)
Top(s)     == CellAt(bank, s, 0)
Room(s, n) == Depth(s) + n <= Limit(s)

\* A handler that runs to its end in one piece.
Transition(b) ==
  /\ pending = <<>>
  /\ bank' = b
  /\ UNCHANGED <<pending, target>>

\* LIT and the frame's block of zeroed cells.
PushValue(s, v) == Room(s, 1) /\ Transition(Push(bank, s, v))

Discard(s) == Depth(s) > 0 /\ Transition(Pop(bank, s))

\* DUP (from = to) and the copy to the other stack.
Copy(from, to) ==
  /\ Depth(from) > 0 /\ Room(to, 1)
  /\ Transition(Push(bank, to, Top(from)))

\* MOVE, CPUSH, and each cell of CPUSHN and of a call's arguments.
Move(from, to) ==
  /\ from # to /\ Depth(from) > 0 /\ Room(to, 1)
  /\ Transition(Push(Pop(bank, from), to, Top(from)))

\* CGET, and each cell of CGETR.
ContextGet(to, depth) ==
  /\ depth < Depth("C") /\ Room(to, 1)
  /\ Transition(Push(bank, to, CellAt(bank, "C", depth)))

ContextSet(from, depth) ==
  /\ Depth(from) > 0 /\ depth < Depth("C")
  /\ Transition(SetCell(Pop(bank, from), "C", depth, Top(from)))

Binary(me) ==
  /\ Depth(me) > 0 /\ Depth(Other(me)) > 0
  /\ Transition(SetCell(Pop(bank, Other(me)), me, 0, Op(Top(me), Top(Other(me)))))

\* Before a foreign call, a range transfer or a frame block: flush_stack.
Publish(s) == Transition(Flush(bank, s))

\* RET to the other operand stack: publish the source stack, cut the results
\* off it, and push them one by one.
TransferBegin(me, count) ==
  /\ pending = <<>>
  /\ count <= Depth(me) /\ Room(Other(me), count)
  /\ LET b    == Flush(bank, me)
         kept == Depth(me) - count
     IN  /\ bank' = [b EXCEPT !.mem[me] = SubSeq(@, 1, kept)]
         /\ pending' = SubSeq(b.mem[me], kept + 1, kept + count)
  /\ target' = Other(me)

TransferNext ==
  /\ pending # <<>>
  /\ bank' = Push(bank, target, Head(pending))
  /\ pending' = Tail(pending)
  /\ UNCHANGED target

Next ==
  \/ \E s \in Stacks : (\E v \in Values : PushValue(s, v)) \/ Discard(s) \/ Publish(s)
  \/ \E from, to \in Stacks : Copy(from, to) \/ Move(from, to)
  \/ \E s \in Operands :
       \/ \E depth \in 0 .. MaxC - 1 : ContextGet(s, depth) \/ ContextSet(s, depth)
       \/ Binary(s)
       \/ \E count \in 0 .. Limit(s) : TransferBegin(s, count)
  \/ TransferNext

Spec == Init /\ [][Next]_vars

-----------------------------------------------------------------------------
(* Properties.                                                              *)

BankType ==
  [mem: [Stacks -> Seq(Values)], cached: [Stacks -> Nat], reg: [Bank -> Values]]

\* The cached cells of A and B never meet in their bank.
Anchoring(b) ==
  /\ b.cached["A"] + b.cached["B"] <= Registers
  /\ b.cached["C"] <= CRegisters

\* The bank has its shape, and the two stacks that share it never overlap.
TypeOK ==
  /\ bank \in BankType
  /\ Anchoring(bank)
  /\ pending \in Seq(Values)
  /\ target \in Operands

\* The program's stacks: what a return in progress has still to push counts.
ViewOf(b, moving, to) ==
  [s \in Stacks |-> IF s = to THEN Contents(b, s) \o moving ELSE Contents(b, s)]

View == ViewOf(bank, pending, target)

Architecture == INSTANCE ThreeStacks WITH stack <- View

\* Through every sequence of pushes, pops, spills and publications, whatever
\* bank layout they meet, a program sees three plain stacks.
ImplementsStacks == Architecture!Spec
=============================================================================
