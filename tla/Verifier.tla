-------------------------------- MODULE Verifier --------------------------------
(***************************************************************************)
(* abc_verify_module of src/src/verify.c: what a program must be before    *)
(* any backend runs it.  A worklist carries the shape of the three stacks  *)
(* (the kind of every private cell, and which cells of C are a block of    *)
(* bytes) along every edge of a function; a join must find the same shape, *)
(* and the depths it meets become the function's declared limits.          *)
(*                                                                         *)
(* A program is a sequence of functions, the first one exported.  An       *)
(* instruction is [op, me, n, m, to, from, kind]: me its selected stack,   *)
(* `to` the indices of the instructions it may branch to, `from` the kinds *)
(* it takes (an integer, if it stores fewer than eight bytes) and `kind`   *)
(* what it leaves.  Opcodes that take and leave cells alike are one op:    *)
(* push is also the load of a global and the address of one, unary is also *)
(* a check, an operation with an immediate, a conversion, and the load     *)
(* through an address, binary and less are of integers and of floats,      *)
(* indexed is a load or the address of an element, store also copies       *)
(* memory, drop also stores to a global, test is also a switch.            *)
(*                                                                         *)
(* The decoding of bytes, and the checks of offsets into the image and of  *)
(* relocations, are left out.                                              *)
(***************************************************************************)
EXTENDS Naturals, Sequences, SequencesExt

CONSTANTS
  Programs,  \* the programs that may be loaded
  Externs    \* the signatures of the foreign functions they declare

Stacks   == {"A", "B", "C"}
Other(s) == IF s = "A" THEN "B" ELSE "A"

\* The kinds of a cell: ABC_KIND_INT, ABC_KIND_ADDR and ABC_KIND_FLOAT, and
\* ABC_KIND_BLOCK with the block's length in bytes and the cell's place in it.
IntKind   == <<"int">>
AddrKind  == <<"addr">>
FloatKind == <<"float">>
Scalars   == {IntKind, AddrKind, FloatKind}
CellsOf(bytes) == (bytes + 7) \div 8
Block(bytes)   == [i \in 1 .. CellsOf(bytes) |-> <<"block", bytes, i>>]

Conditional == {"test", "less", "beq"}
Branches    == Conditional \cup {"jump"}
Tails       == {"tcall", "itcall"}
Calls       == {"call", "icall"} \cup Tails
Straights   == {"push", "dup", "drop", "copy", "move", "cpush", "cpop", "cget", "cset",
                "unary", "coperand", "binary", "eq", "indexed", "store",
                "fload", "fstore", "fcall", "free"}
Ops == Straights \cup Branches \cup Calls \cup {"alloc", "ret", "halt", "abort"}

Signature   == [args: Seq(Scalars), results: Seq(Scalars)]
Instruction == [op: Ops, me: {"A", "B"}, n: Nat, m: Nat, to: SUBSET Nat,
                from: SUBSET Scalars, kind: Scalars]

\* The entries of the function table are strictly increasing (abc_module_load),
\* so that no body is empty.
ASSUME ProgramsAssumption ==
  /\ \A p \in Programs :
       /\ p \in Seq([args: Seq(Scalars), results: Seq(Scalars), code: Seq(Instruction)])
       /\ p # <<>>
       /\ \A f \in DOMAIN p : p[f].code # <<>>
  /\ Externs \in Seq(Signature)

VARIABLES
  program,   \* what abc_module_load decoded
  verdict,   \* where its verification is
  current,   \* the function being verified
  shape,     \* per function and instruction, what the stacks hold there
  pending,   \* the worklist: indices of instructions still to check
  max        \* per function, the deepest each stack gets

verifierVars == <<program, verdict, current, shape, pending, max>>

Code(f) == program[f].code
Functions == DOMAIN program
HasHalt(f) == \E i \in DOMAIN Code(f) : Code(f)[i].op = "halt"

\* A shape not seen yet.
Unseen == <<>>

-----------------------------------------------------------------------------
(* Stacks, deepest cell first.                                              *)

At(s, depth)     == s[Len(s) - depth]
Without(s, n)    == SubSeq(s, 1, Len(s) - n)
Topmost(s, n)    == SubSeq(s, Len(s) - n + 1, Len(s))

\* abc_module_load gives arguments to a function topmost first, so that the
\* first argument ends on top of C.
Arguments(f) == Reverse(program[f].args)

-----------------------------------------------------------------------------
(* The edges and calls of one instruction, checked even where nothing can   *)
(* reach it.                                                                *)

Structured(f, x) ==
  /\ x.op \in Branches => x.to \subseteq DOMAIN Code(f)
  /\ x.op \in Calls => x.n \in Functions
  /\ x.op \in {"call", "tcall"} => ~HasHalt(x.n)
  /\ x.op \in Tails => program[x.n].results = program[f].results
  /\ x.op = "fcall" => x.n \in DOMAIN Externs

\* The kinds that an instruction takes, deepest first, from its selected stack
\* and from the other one.
Exactly(kinds) == [i \in DOMAIN kinds |-> {kinds[i]}]

Takes(x) ==
  LET T(own, other) == [own |-> own, other |-> other]
      any  == <<Scalars>>
      int  == <<{IntKind}>>
      addr == <<{AddrKind}>>
      some == <<x.from>>
  IN  CASE x.op \in {"dup", "copy", "move", "cset"}   -> T(any, <<>>)
        [] x.op = "cpush"                            -> T([i \in 1 .. x.n |-> Scalars], <<>>)
        [] x.op \in {"drop", "unary", "fstore"}      -> T(some, <<>>)
        [] x.op \in {"coperand", "test"}             -> T(int, <<>>)
        [] x.op \in {"binary", "less"}               -> T(some, some)
        [] x.op \in {"eq", "beq"}                    -> T(any, any)
        [] x.op = "indexed"                          -> T(addr, int)
        [] x.op = "store"                            -> T(addr, some)
        [] x.op \in {"call", "tcall"}                -> T(Exactly(program[x.n].args), <<>>)
        [] x.op \in {"icall", "itcall"}              -> T(Exactly(program[x.n].args), addr)
        [] x.op = "fcall"                            -> T(Exactly(Externs[x.n].args), <<>>)
        [] OTHER                                     -> T(<<>>, <<>>)

Fitting(s, wanted) ==
  /\ Len(s) >= Len(wanted)
  /\ \A i \in DOMAIN wanted : Topmost(s, Len(wanted))[i] \in wanted[i]

\* cslot: a cell of C that holds a scalar.
Scalar(c, depth) == depth < Len(c) /\ At(c, depth) \in Scalars

\* Bug: the first byte may be the one behind the block's last.
FrameAccessPast(c, offset, width) ==
  /\ offset > 0 /\ (offset - 1) \div 8 < Len(c)
  /\ LET cell  == At(c, (offset - 1) \div 8)
         index == 8 * cell[3] - 1 - ((offset - 1) % 8)
     IN  cell \notin Scalars /\ index < 8 * CellsOf(cell[2])

\* frame_access: bytes counted from the top of C, the lowest one first, are
\* `width` bytes of one block.
FrameAccess(c, offset, width) ==
  /\ offset > 0 /\ (offset - 1) \div 8 < Len(c)
  /\ LET cell  == At(c, (offset - 1) \div 8)
         index == 8 * cell[3] - 1 - ((offset - 1) % 8)
     IN  cell \notin Scalars /\ index < cell[2] /\ index + width <= cell[2]

Ends(s, kinds) == Len(s) >= Len(kinds) /\ Topmost(s, Len(kinds)) = kinds

\* A tail call replaces its frame: nothing of it stays on any stack.
Replaces(x, sh) ==
  /\ Len(sh[x.me]) = Len(Takes(x).own) /\ Len(sh[Other(x.me)]) = Len(Takes(x).other)
  /\ Len(sh["C"]) = x.m

\* Bug: the stack that does not hold the results may hold anything.
ReturnableLoose(f, x, sh) ==
  Len(sh["C"]) = x.n /\ x.m = Len(program[f].results) /\ Ends(sh[x.me], program[f].results)

Returnable(f, x, sh) ==
  /\ Len(sh["C"]) = x.n /\ x.m = Len(program[f].results)
  /\ sh[x.me] = program[f].results /\ sh[Other(x.me)] = <<>>

\* What an instruction requires of a shape besides the kinds it takes.
Demands(f, x, sh) ==
  /\ x.op \in {"eq", "beq"} => /\ At(sh[x.me], 0) = At(sh[Other(x.me)], 0)
                               /\ At(sh[x.me], 0) # FloatKind
  /\ x.op = "cpop" => Scalar(sh["C"], 0)
  /\ x.op = "cget" => \A i \in 1 .. x.m : Scalar(sh["C"], x.n + i - 1)
  /\ x.op \in {"cset", "coperand"} => Scalar(sh["C"], x.n)
  /\ x.op = "coperand" => At(sh["C"], x.n) = IntKind
  /\ x.op \in {"fload", "fstore"} => FrameAccess(sh["C"], x.n, x.m)
  /\ x.op = "free" => Ends(sh["C"], Block(x.n))
  /\ x.op \in Tails => Replaces(x, sh)
  /\ x.op = "ret" => Returnable(f, x, sh)
  /\ x.op = "halt" => /\ sh["C"] = <<>> /\ sh[Other(x.me)] = <<>>
                      /\ sh[x.me] = program[f].results

Accepts(f, x, sh) ==
  /\ Fitting(sh[x.me], Takes(x).own) /\ Fitting(sh[Other(x.me)], Takes(x).other)
  /\ Demands(f, x, sh)

\* What it leaves on its selected stack, on the other one, and on C.
Gives(x, sh) ==
  CASE x.op \in {"push", "unary", "binary", "indexed", "fload"} -> <<x.kind>>
    [] x.op \in {"coperand", "eq"}  -> <<IntKind>>
    [] x.op = "dup"                 -> <<At(sh[x.me], 0), At(sh[x.me], 0)>>
    [] x.op = "copy"                -> <<At(sh[x.me], 0)>>
    [] x.op = "cget"                -> [i \in 1 .. x.m |-> At(sh["C"], x.n + i - 1)]
    [] x.op \in {"call", "icall"}   -> program[x.n].results
    [] x.op = "fcall"               -> Externs[x.n].results
    [] OTHER                        -> <<>>

Moves(x, sh) == IF x.op \in {"copy", "move"} THEN <<At(sh[x.me], 0)>> ELSE <<>>

Context(x, sh) ==
  LET c == sh["C"]
  IN  CASE x.op = "cpush" -> c \o Reverse(Topmost(sh[x.me], x.n))
        [] x.op = "cpop"  -> Without(c, 1)
        [] x.op = "cset"  -> [c EXCEPT ![Len(c) - x.n] = At(sh[x.me], 0)]
        [] x.op = "alloc" -> c \o Block(x.n)
        [] x.op = "free"  -> Without(c, CellsOf(x.n))
        [] OTHER          -> c

After(x, sh) ==
  [s \in Stacks |->
     IF s = "C" THEN Context(x, sh)
     ELSE IF s = x.me THEN Without(sh[s], Len(Takes(x).own)) \o Gives(x, sh)
     ELSE Without(sh[s], Len(Takes(x).other)) \o Moves(x, sh)]

\* Where control may go.
Successors(x, i) ==
  CASE x.op = "jump"       -> x.to
    [] x.op \in Conditional -> x.to \cup {i + 1}
    [] x.op \in Tails \cup {"ret", "halt", "abort"} -> {}
    [] OTHER -> {i + 1}

-----------------------------------------------------------------------------

\* The shape a function is entered with.
EntryShape(f) == [s \in Stacks |-> IF s = "C" THEN Arguments(f) ELSE <<>>]

Entered(f) == [i \in DOMAIN Code(f) |-> IF i = 1 THEN EntryShape(f) ELSE Unseen]

NoDepth(f) == [s \in Stacks |-> IF s = "C" THEN Len(program[f].args) ELSE 0]

VerifierInit ==
  /\ program \in Programs
  /\ verdict = "structure"
  /\ current = 1
  /\ shape = [f \in Functions |-> Entered(f)]
  /\ pending = {1}
  /\ max = [f \in Functions |-> NoDepth(f)]

CheckStructure ==
  /\ verdict = "structure"
  /\ verdict' = IF \A f \in Functions : \A i \in DOMAIN Code(f) : Structured(f, Code(f)[i])
                  THEN "shapes" ELSE "rejected"
  /\ UNCHANGED <<program, current, shape, pending, max>>

Deeper(m, after) == [s \in Stacks |-> IF Len(after[s]) > m[s] THEN Len(after[s]) ELSE m[s]]

\* Bug: an instruction seen before is not compared with the new shape.
JoinsUnchecked(old, new) == TRUE

Joins(old, new) == old \in {Unseen, new}

\* Bug: the instruction stays on the worklist.
OthersAll(p, i) == p

Others(p, i) == p \ {i}

\* Take an instruction off the worklist and follow its edges.  The code takes
\* the most recent one; the verdict must not depend on it.
CheckInstruction ==
  /\ verdict = "shapes"
  /\ \E i \in pending :
       LET x    == Code(current)[i]
           row  == shape[current]
           next == After(x, row[i])
           to   == Successors(x, i)
       IN  IF /\ Accepts(current, x, row[i])
              /\ \A j \in to : j \in DOMAIN row /\ Joins(row[j], next)
             THEN /\ max' = [max EXCEPT ![current] = Deeper(@, next)]
                  /\ shape' = [shape EXCEPT ![current] =
                       [j \in DOMAIN row |-> IF j \in to THEN next ELSE row[j]]]
                  /\ pending' = Others(pending, i) \cup {j \in to : row[j] = Unseen}
                  /\ UNCHANGED verdict
             ELSE verdict' = "rejected" /\ UNCHANGED <<shape, pending, max>>
  /\ UNCHANGED <<program, current>>

NoneLeft(f) == f = Len(program)

NextFunction ==
  /\ verdict = "shapes" /\ pending = {}
  /\ IF NoneLeft(current)
       THEN verdict' = "accepted" /\ UNCHANGED <<current, pending>>
       ELSE current' = current + 1 /\ pending' = {1} /\ UNCHANGED verdict
  /\ UNCHANGED <<program, shape, max>>

Verify == CheckStructure \/ CheckInstruction \/ NextFunction

\* Every program gets its verdict: no worklist runs for ever.
VerdictReached == <>(verdict \in {"accepted", "rejected"})
=============================================================================
