--------------------------- MODULE OptimizerProofs ---------------------------
(***************************************************************************)
(* Theorems about Optimizer, for any programs that the verifier accepts,   *)
(* any width of the values and any limit of the paths.                     *)
(***************************************************************************)
EXTENDS Optimizer, SequenceTheorems, FiniteSetTheorems, TLAPS

-----------------------------------------------------------------------------
(* Programs. *)

\* A place in the code, and what the verifier found there on A.
Place(pc) == pc[1] \in Functions /\ pc[2] \in DOMAIN program.fn[pc[1]].body
Depth(pc) == program.fn[pc[1]].depth[pc[2]]

\* What the verifier has made sure of, instruction by instruction.
Verified(pc) ==
  LET i == At(pc)
  IN  /\ i \in Instruction /\ Depth(pc) \in Nat /\ Arity(pc[1]) \in Nat
      /\ i.op \in {"call", "tail"} => i.arg \in Functions /\ Arity(i.arg) \in Nat /\ Place(Entry(i.arg))
                                      /\ Depth(Entry(i.arg)) = 0
      /\ i.op \in {"push", "get", "inc", "drop", "branch", "call"} =>
           Place(After(pc)) /\ Depth(After(pc)) \in Nat
      /\ i.op \in {"push", "get"} => Depth(After(pc)) = Depth(pc) + 1
      /\ i.op = "push"   => i.arg \in 0 .. Width - 1
      /\ i.op = "get"    => i.arg < Arity(pc[1])
      /\ i.op = "inc"    => Depth(pc) >= 1 /\ Depth(After(pc)) = Depth(pc)
      /\ i.op = "drop"   => Depth(pc) >= 1 /\ Depth(After(pc)) = Depth(pc) - 1
      /\ i.op = "branch" => /\ Depth(pc) >= 1 /\ Depth(After(pc)) = Depth(pc) - 1
                            /\ Place(<<pc[1], i.arg>>) /\ Depth(<<pc[1], i.arg>>) = Depth(pc) - 1
      /\ i.op = "call"   => Arity(i.arg) <= Depth(pc) /\ Depth(After(pc)) = Depth(pc) - Arity(i.arg) + 1
      /\ i.op = "tail"   => Arity(i.arg) = Depth(pc)
      /\ i.op = "ret"    => Depth(pc) = 1

LEMMA FunctionTypes ==
  ASSUME program \in Programs
  PROVE  /\ program.fn \in Seq([args : Nat, body : Seq(Instruction), depth : Seq(Nat)])
         /\ Functions = DOMAIN program.fn /\ Len(program.fn) \in Nat
         /\ program.exports \subseteq Functions
         /\ \A f \in Functions :
              /\ Arity(f) \in Nat /\ program.fn[f].body \in Seq(Instruction) /\ program.fn[f].depth \in Seq(Nat)
              /\ program.fn[f].body # <<>> /\ Len(program.fn[f].depth) = Len(program.fn[f].body)
              /\ program.fn[f].depth[1] = 0
              /\ \A at \in DOMAIN program.fn[f].body : Sound(program, program.fn[f], at)
<1>1. program.fn \in Seq([args : Nat, body : Seq(Instruction), depth : Seq(Nat)])
  BY ProgramsAssumption
<1>2. DOMAIN program.fn = 1 .. Len(program.fn) /\ Len(program.fn) \in Nat
  BY <1>1
<1>3. ASSUME NEW f \in DOMAIN program.fn
      PROVE  program.fn[f].args \in Nat /\ program.fn[f].body \in Seq(Instruction) /\ program.fn[f].depth \in Seq(Nat)
  <2>1. program.fn[f] \in [args : Nat, body : Seq(Instruction), depth : Seq(Nat)]
    BY <1>1, <1>2, ElementOfSeq
  <2> QED BY <2>1
<1> QED BY <1>1, <1>2, <1>3, ProgramsAssumption DEF Functions, Arity

LEMMA EntryPlace ==
  ASSUME program \in Programs, NEW f \in Functions
  PROVE  Place(Entry(f)) /\ Depth(Entry(f)) = 0 /\ Entry(f) \in Nat \X Nat
<1>1. program.fn[f].body \in Seq(Instruction) /\ program.fn[f].body # <<>> /\ program.fn[f].depth[1] = 0
  BY FunctionTypes
<1>2. 1 \in DOMAIN program.fn[f].body
  BY <1>1
<1>3. f \in Nat
  BY FunctionTypes DEF Functions
<1> QED BY <1>1, <1>2, <1>3 DEF Place, Depth, Entry

LEMMA Verifies ==
  ASSUME program \in Programs, NEW pc \in Nat \X Nat, Place(pc)
  PROVE  Verified(pc)
<1>0. PICK f \in Nat, at \in Nat : pc = <<f, at>> /\ f = pc[1] /\ at = pc[2]
  OBVIOUS
<1>1. PICK g : g = program.fn[f]
  OBVIOUS
<1>2. PICK i : i = g.body[at]
  OBVIOUS
<1>3. f \in Functions /\ at \in DOMAIN g.body
  BY <1>0, <1>1 DEF Place
<1>4. /\ Arity(f) \in Nat /\ g.body \in Seq(Instruction) /\ g.depth \in Seq(Nat)
      /\ Len(g.depth) = Len(g.body) /\ Sound(program, g, at)
  BY <1>1, <1>3, FunctionTypes
<1>5. at \in 1 .. Len(g.body) /\ i \in Instruction /\ g.depth[at] \in Nat
  <2>1. PICK u, v, S : u = g.body /\ v = g.depth /\ S = Instruction
    OBVIOUS
  <2>2. at \in DOMAIN u /\ u \in Seq(S) /\ v \in Seq(Nat) /\ Len(v) = Len(u)
    BY <1>3, <1>4, <2>1
  <2>3. at \in 1 .. Len(u)
    BY ONLY <2>2
  <2>4. u[at] \in S /\ v[at] \in Nat
    BY ONLY <2>2, <2>3, ElementOfSeq
  <2> QED BY <1>2, <2>1, <2>3, <2>4
<1>6. PICK d \in Nat : d = g.depth[at]
  BY <1>5
<1>7. /\ i.op \in {"call", "tail"} => i.arg \in DOMAIN program.fn
      /\ i.op = "get"  => i.arg < g.args
      /\ i.op = "push" => i.arg < Width
      /\ Needs(program, i) <= d /\ (Onto(i, at) = {} => Needs(program, i) = d)
      /\ \A to \in Onto(i, at) : to \in DOMAIN g.body /\ g.depth[to] = d - Needs(program, i) + Gives(i)
  BY <1>2, <1>4, <1>6 DEF Sound
<1>8. At(pc) = i /\ Depth(pc) = d /\ After(pc) = <<f, at + 1>> /\ Arity(f) = g.args /\ pc[1] = f
  BY <1>0, <1>1, <1>2, <1>6 DEF At, Depth, After, Arity
<1>9. ASSUME NEW to \in Onto(i, at)
      PROVE  Place(<<f, to>>) /\ Depth(<<f, to>>) \in Nat /\ Depth(<<f, to>>) = d - Needs(program, i) + Gives(i)
  <2>1. to \in DOMAIN g.body /\ to \in DOMAIN g.depth /\ g.depth[to] \in Nat
    <3>1. PICK u, v, S : u = g.body /\ v = g.depth /\ S = Instruction
      OBVIOUS
    <3>2. to \in DOMAIN u /\ u \in Seq(S) /\ v \in Seq(Nat) /\ Len(v) = Len(u)
      BY <1>4, <1>7, <3>1
    <3>3. to \in 1 .. Len(v) /\ to \in DOMAIN v
      BY ONLY <3>2
    <3>4. v[to] \in Nat
      BY ONLY <3>2, <3>3, ElementOfSeq
    <3> QED BY <3>1, <3>2, <3>3, <3>4
  <2>2. Place(<<f, to>>) /\ Depth(<<f, to>>) = g.depth[to]
    BY <1>1, <1>3, <2>1 DEF Place, Depth
  <2> QED BY <1>7, <2>1, <2>2
<1>10. i.arg \in Nat /\ i.op \in {"push", "get", "inc", "drop", "branch", "call", "tail", "ret"}
  BY <1>5 DEF Instruction
<1>11. i.op \in {"call", "tail"} => /\ i.arg \in Functions /\ Arity(i.arg) \in Nat /\ Place(Entry(i.arg))
                                    /\ Depth(Entry(i.arg)) = 0
  BY <1>7, FunctionTypes, EntryPlace
<1> DEFINE p == After(pc)
           q == <<pc[1], i.arg>>
<1>12. /\ at + 1 \in Onto(i, at) => Place(p) /\ Depth(p) \in Nat /\ Depth(p) = d - Needs(program, i) + Gives(i)
       /\ i.arg \in Onto(i, at) => Place(q) /\ Depth(q) \in Nat /\ Depth(q) = d - Needs(program, i) + Gives(i)
  BY <1>8, <1>9
<1> HIDE DEF p, q
<1> SUFFICES
      /\ i.op \in {"push", "get", "inc", "drop", "branch", "call"} => Place(p) /\ Depth(p) \in Nat
      /\ i.op \in {"push", "get"} => Depth(p) = d + 1
      /\ i.op = "push"   => i.arg \in 0 .. Width - 1
      /\ i.op = "get"    => i.arg < Arity(f)
      /\ i.op = "inc"    => d >= 1 /\ Depth(p) = d
      /\ i.op = "drop"   => d >= 1 /\ Depth(p) = d - 1
      /\ i.op = "branch" => d >= 1 /\ Depth(p) = d - 1 /\ Place(q) /\ Depth(q) = d - 1
      /\ i.op = "call"   => Arity(i.arg) <= d /\ Depth(p) = d - Arity(i.arg) + 1
      /\ i.op = "tail"   => Arity(i.arg) = d
      /\ i.op = "ret"    => d = 1
  BY <1>4, <1>5, <1>8, <1>11 DEF Verified, p, q
<1>13. i.op \in {"push", "get"} => Needs(program, i) = 0 /\ Gives(i) = 1 /\ Onto(i, at) = {at + 1}
  BY DEF Needs, Gives, Onto
<1>14. i.op = "inc" => Needs(program, i) = 1 /\ Gives(i) = 1 /\ Onto(i, at) = {at + 1}
  BY DEF Needs, Gives, Onto
<1>15. i.op = "drop" => Needs(program, i) = 1 /\ Gives(i) = 0 /\ Onto(i, at) = {at + 1}
  BY DEF Needs, Gives, Onto
<1>16. i.op = "branch" => Needs(program, i) = 1 /\ Gives(i) = 0 /\ Onto(i, at) = {at + 1, i.arg}
  BY DEF Needs, Gives, Onto
<1>17. i.op = "call" => Needs(program, i) = Arity(i.arg) /\ Gives(i) = 1 /\ Onto(i, at) = {at + 1}
  BY DEF Needs, Gives, Onto, Arity
<1>18. i.op = "tail" => Needs(program, i) = Arity(i.arg) /\ Onto(i, at) = {}
  BY DEF Needs, Gives, Onto, Arity
<1>19. i.op = "ret" => Needs(program, i) = 1 /\ Onto(i, at) = {}
  BY DEF Needs, Gives, Onto
<1>20. i.op = "push" => i.arg \in 0 .. Width - 1
  BY <1>7, <1>10, WidthAssumption
<1>21. i.op = "get" => i.arg < Arity(f)
  BY <1>7, <1>8
<1>22. i.op \in {"push", "get"} => Place(p) /\ Depth(p) \in Nat /\ Depth(p) = d + 1
  BY <1>12, <1>13
<1>23. i.op = "inc" => d >= 1 /\ Place(p) /\ Depth(p) \in Nat /\ Depth(p) = d
  BY <1>7, <1>12, <1>14
<1>24. i.op = "drop" => d >= 1 /\ Place(p) /\ Depth(p) \in Nat /\ Depth(p) = d - 1
  BY <1>7, <1>12, <1>15
<1>25. i.op = "branch" => d >= 1 /\ Place(p) /\ Depth(p) \in Nat /\ Depth(p) = d - 1 /\ Place(q) /\ Depth(q) = d - 1
  BY <1>7, <1>12, <1>16
<1>26. i.op = "call" => Arity(i.arg) <= d /\ Place(p) /\ Depth(p) \in Nat /\ Depth(p) = d - Arity(i.arg) + 1
  BY <1>7, <1>11, <1>12, <1>17
<1>27. (i.op = "tail" => Arity(i.arg) = d) /\ (i.op = "ret" => d = 1)
  BY <1>7, <1>11, <1>18, <1>19
<1> QED BY <1>20, <1>21, <1>22, <1>23, <1>24, <1>25, <1>26, <1>27

-----------------------------------------------------------------------------
(* The direct call graph. *)

LEMMA CallsTo ==
  ASSUME NEW pc, Place(pc), At(pc).op \in {"call", "tail"}
  PROVE  At(pc).arg \in Callees(pc[1])
BY DEF Place, At, Callees, Transfers

LEMMA CalleesTyped == ASSUME program \in Programs, NEW f \in Functions PROVE Callees(f) \subseteq Functions
<1> SUFFICES ASSUME NEW i \in Transfers(f) PROVE program.fn[f].body[i].arg \in Functions
  BY DEF Callees
<1>1. i \in DOMAIN program.fn[f].body /\ program.fn[f].body[i].op \in {"call", "tail"}
  BY DEF Transfers
<1>2. Sound(program, program.fn[f], i)
  BY <1>1, FunctionTypes
<1> QED BY <1>1, <1>2, FunctionTypes DEF Sound

\* What a function calls it reaches, and what that calls.
LEMMA ReachedClosed ==
  ASSUME program \in Programs, NEW f \in Functions
  PROVE  Callees(f) \subseteq Reached(f) /\ \A h \in Reached(f) : Callees(h) \subseteq Reached(f)
<1>1. ASSUME NEW g \in Callees(f) PROVE g \in Reached(f)
  BY <1>1, CalleesTyped DEF Reached
<1>2. ASSUME NEW h \in Reached(f), NEW g \in Callees(h) PROVE g \in Reached(f)
  BY <1>2, CalleesTyped DEF Reached
<1> QED BY <1>1, <1>2

LEMMA ReachedTransitive ==
  ASSUME program \in Programs, NEW f \in Functions, NEW g \in Reached(f)
  PROVE  Callees(g) \subseteq Reached(f) /\ Reached(g) \subseteq Reached(f) /\ g \in Functions
<1>1. Reached(f) \in SUBSET Functions /\ g \in Functions
  BY DEF Reached
<1>2. Callees(g) \subseteq Reached(f) /\ \A h \in Reached(f) : Callees(h) \subseteq Reached(f)
  BY ReachedClosed
<1> QED BY <1>1, <1>2 DEF Reached

-----------------------------------------------------------------------------
(* Contexts of the machine whose cells come from a set. *)

Num     == 0 .. Width - 1
Value   == [base : {"const", "input", "home", "result"}, n : Nat, plus : Nat]
Cont    == [pc : Nat \X Nat, a : Nat, c : Nat]
Contexts(S) == [pc : Nat \X Nat, a : Seq(S), c : Seq(S), conts : Seq(Cont), looped : BOOLEAN]

\* A set of cells that the machine does not leave.
Cells(S) ==
  /\ S \subseteq Value /\ \A k \in Num : Const(k) \in S
  /\ \A v \in S : Folded(v) \in S /\ (v.base = "const" => v.n \in Num /\ v.plus = 0)

\* Both stacks are as high as the places of the context and of its
\* continuations need.
BaseA(cs, k) == IF k = 0 THEN 0 ELSE cs[k].a
BaseC(cs, k) == IF k = 0 THEN 0 ELSE cs[k].c

Returns(cs) ==
  \A k \in 1 .. Len(cs) :
    /\ Place(cs[k].pc)
    /\ cs[k].a + 1 = BaseA(cs, k - 1) + Depth(cs[k].pc)
    /\ cs[k].c = BaseC(cs, k - 1) + Arity(cs[k].pc[1])

Shape(x) ==
  /\ Place(x.pc)
  /\ Len(x.a) = BaseA(x.conts, Len(x.conts)) + Depth(x.pc)
  /\ Len(x.c) = BaseC(x.conts, Len(x.conts)) + Arity(x.pc[1])
  /\ Returns(x.conts)

Fit(x, S) == x \in Contexts(S) /\ Shape(x)

LEMMA KeepIs ==
  ASSUME NEW S, NEW s \in Seq(S), NEW n \in Nat, n <= Len(s)
  PROVE  /\ Keep(s, n) \in Seq(S) /\ Len(Keep(s, n)) = Len(s) - n
         /\ \A i \in 1 .. Len(s) - n : Keep(s, n)[i] = s[i]
<1>1. Len(s) \in Nat /\ Len(s) - n \in 0 .. Len(s)
  OBVIOUS
<1> QED BY <1>1, SubSeqProperties DEF Keep

LEMMA TopIs ==
  ASSUME NEW S, NEW s \in Seq(S), NEW n \in Nat, n <= Len(s)
  PROVE  /\ TopOf(s, n) \in Seq(S) /\ Len(TopOf(s, n)) = n
         /\ \A i \in 1 .. n : TopOf(s, n)[i] = s[Len(s) - n + i]
<1>1. Len(s) \in Nat /\ Len(s) - n + 1 \in 1 .. Len(s) + 1 /\ Len(s) \in Len(s) - n .. Len(s)
  OBVIOUS
<1>2. PICK m \in 1 .. Len(s) + 1 : m = Len(s) - n + 1
  BY <1>1
<1>3. PICK l \in Nat : l = Len(s)
  BY <1>1
<1>4. SubSeq(s, m, l) \in Seq(S) /\ Len(SubSeq(s, m, l)) = (IF m <= l THEN l - m + 1 ELSE 0)
      /\ \A i \in 1 .. l - m + 1 : SubSeq(s, m, l)[i] = s[m + i - 1]
  BY <1>2, <1>3, SubSeqProperties
<1>5. TopOf(s, n) = SubSeq(s, m, l)
  BY <1>2, <1>3 DEF TopOf
<1>6. l - m + 1 = n /\ (m <= l => n = l - m + 1) /\ (m > l => n = 0)
  BY <1>2, <1>3
<1>7. ASSUME NEW i \in 1 .. n PROVE SubSeq(s, m, l)[i] = s[l - n + i]
  <2>1. m + i - 1 = l - n + i
    BY <1>2, <1>3
  <2> QED BY <1>4, <1>6, <2>1
<1> QED BY <1>2, <1>3, <1>4, <1>5, <1>6, <1>7

LEMMA FrontIs ==
  ASSUME NEW S, NEW s \in Seq(S), s # <<>>
  PROVE  /\ Front(s) \in Seq(S) /\ Len(Front(s)) = Len(s) - 1 /\ Last(s) = s[Len(s)] /\ Last(s) \in S
         /\ \A i \in 1 .. Len(s) - 1 : Front(s)[i] = s[i]
<1>1. Len(s) \in Nat /\ Len(s) >= 1
  OBVIOUS
<1>2. Front(s) = Keep(s, 1)
  BY DEF Front, Keep
<1> QED BY <1>1, <1>2, KeepIs DEF Last

LEMMA ReverseIs ==
  ASSUME NEW S, NEW s \in Seq(S)
  PROVE  /\ Reverse(s) \in Seq(S) /\ Len(Reverse(s)) = Len(s)
         /\ \A i \in 1 .. Len(s) : Reverse(s)[i] = s[Len(s) - i + 1]
         /\ Reverse(Reverse(s)) = s
<1>1. Len(s) \in Nat /\ DOMAIN s = 1 .. Len(s)
  OBVIOUS
<1>2. PICK l \in Nat : l = Len(s)
  BY <1>1
<1>3. Reverse(s) = [i \in 1 .. l |-> s[(l - i) + 1]]
  BY <1>2 DEF Reverse
<1>4. \A i \in 1 .. l : (l - i) + 1 \in 1 .. l /\ s[(l - i) + 1] \in S
  BY <1>1, <1>2
<1>5. Reverse(s) \in [1 .. l -> S]
  BY <1>3, <1>4
<1>6. Reverse(s) \in Seq(S) /\ Len(Reverse(s)) = l
  BY <1>5
<1>7. Reverse(Reverse(s)) = [i \in 1 .. l |-> Reverse(s)[(l - i) + 1]]
  BY <1>6 DEF Reverse
<1>8. ASSUME NEW i \in 1 .. l PROVE Reverse(s)[(l - i) + 1] = s[i]
  <2>1. (l - i) + 1 \in 1 .. l /\ (l - ((l - i) + 1)) + 1 = i
    OBVIOUS
  <2> QED BY <1>3, <2>1
<1>9. s = [i \in 1 .. l |-> s[i]]
  BY <1>1, <1>2
<1> QED BY <1>2, <1>3, <1>6, <1>7, <1>8, <1>9

LEMMA CallReturns ==
  ASSUME program \in Programs, NEW cs \in Seq(Cont), Returns(cs), NEW e \in Cont, Place(e.pc),
         e.a + 1 = BaseA(cs, Len(cs)) + Depth(e.pc), e.c = BaseC(cs, Len(cs)) + Arity(e.pc[1])
  PROVE  /\ Returns(Append(cs, e)) /\ Append(cs, e) \in Seq(Cont) /\ Len(Append(cs, e)) = Len(cs) + 1
         /\ BaseA(Append(cs, e), Len(cs) + 1) = e.a /\ BaseC(Append(cs, e), Len(cs) + 1) = e.c
<1> DEFINE ds == Append(cs, e)
<1>1. Len(cs) \in Nat /\ ds \in Seq(Cont) /\ Len(ds) = Len(cs) + 1 /\ ds[Len(cs) + 1] = e
      /\ \A k \in 1 .. Len(cs) : ds[k] = cs[k]
  OBVIOUS
<1> HIDE DEF ds
<1>2. \A k \in 0 .. Len(cs) : BaseA(ds, k) = BaseA(cs, k) /\ BaseC(ds, k) = BaseC(cs, k)
  BY <1>1 DEF BaseA, BaseC
<1>3. ASSUME NEW k \in 1 .. Len(ds)
      PROVE  /\ Place(ds[k].pc)
             /\ ds[k].a + 1 = BaseA(ds, k - 1) + Depth(ds[k].pc)
             /\ ds[k].c = BaseC(ds, k - 1) + Arity(ds[k].pc[1])
  <2>1. CASE k = Len(cs) + 1
    <3>1. ds[k] = e /\ k - 1 = Len(cs) /\ Len(cs) \in 0 .. Len(cs)
      BY <1>1, <2>1
    <3> QED BY <1>2, <3>1
  <2>2. CASE k # Len(cs) + 1
    <3>1. k \in 1 .. Len(cs) /\ k - 1 \in 0 .. Len(cs) /\ ds[k] = cs[k]
      BY <1>1, <2>2
    <3> QED BY <1>2, <3>1 DEF Returns
  <2> QED BY <2>1, <2>2
<1>4. BaseA(ds, Len(cs) + 1) = e.a /\ BaseC(ds, Len(cs) + 1) = e.c
  BY <1>1 DEF BaseA, BaseC
<1> QED BY <1>1, <1>3, <1>4 DEF Returns, ds

LEMMA ReturnReturns ==
  ASSUME program \in Programs, NEW cs \in Seq(Cont), Returns(cs), cs # <<>>
  PROVE  LET e == Last(cs)
         IN  /\ e \in Cont /\ Place(e.pc) /\ Returns(Front(cs)) /\ Front(cs) \in Seq(Cont)
             /\ Len(Front(cs)) = Len(cs) - 1 /\ Len(cs) - 1 \in Nat
             /\ e = cs[Len(cs)]
             /\ e.a + 1 = BaseA(Front(cs), Len(cs) - 1) + Depth(e.pc)
             /\ e.c = BaseC(Front(cs), Len(cs) - 1) + Arity(e.pc[1])
<1> DEFINE ds == Front(cs)
           e == Last(cs)
<1>1. Len(cs) \in Nat /\ Len(cs) >= 1 /\ ds \in Seq(Cont) /\ Len(ds) = Len(cs) - 1 /\ e = cs[Len(cs)] /\ e \in Cont
      /\ \A k \in 1 .. Len(cs) - 1 : ds[k] = cs[k]
  BY FrontIs
<1> HIDE DEF ds, e
<1>2. \A k \in 0 .. Len(cs) - 1 : BaseA(ds, k) = BaseA(cs, k) /\ BaseC(ds, k) = BaseC(cs, k)
  BY <1>1 DEF BaseA, BaseC
<1>3. ASSUME NEW k \in 1 .. Len(ds)
      PROVE  /\ Place(ds[k].pc)
             /\ ds[k].a + 1 = BaseA(ds, k - 1) + Depth(ds[k].pc)
             /\ ds[k].c = BaseC(ds, k - 1) + Arity(ds[k].pc[1])
  <2>1. k \in 1 .. Len(cs) /\ k - 1 \in 0 .. Len(cs) - 1 /\ ds[k] = cs[k]
    BY <1>1
  <2> QED BY <1>2, <2>1 DEF Returns
<1>4. Len(cs) \in 1 .. Len(cs) /\ Len(cs) - 1 \in 0 .. Len(cs) - 1
  BY <1>1
<1>5. /\ Place(e.pc) /\ e.a + 1 = BaseA(ds, Len(cs) - 1) + Depth(e.pc)
      /\ e.c = BaseC(ds, Len(cs) - 1) + Arity(e.pc[1])
  BY <1>1, <1>2, <1>4 DEF Returns
<1> QED BY <1>1, <1>3, <1>5 DEF Returns, ds, e

-----------------------------------------------------------------------------
(* The transfers keep a context in shape. *)

LEMMA ContextParts ==
  ASSUME NEW S, NEW x \in Contexts(S)
  PROVE  /\ x.pc \in Nat \X Nat /\ x.a \in Seq(S) /\ x.c \in Seq(S) /\ x.conts \in Seq(Cont)
         /\ x.looped \in BOOLEAN
         /\ Len(x.a) \in Nat /\ Len(x.c) \in Nat /\ Len(x.conts) \in Nat
         /\ BaseA(x.conts, Len(x.conts)) \in Nat /\ BaseC(x.conts, Len(x.conts)) \in Nat
<1>1. x.pc \in Nat \X Nat /\ x.a \in Seq(S) /\ x.c \in Seq(S) /\ x.conts \in Seq(Cont)
      /\ x.looped \in BOOLEAN
  BY DEF Contexts
<1>2. Len(x.a) \in Nat /\ Len(x.c) \in Nat /\ Len(x.conts) \in Nat
  BY <1>1
<1>3. \A k \in 1 .. Len(x.conts) : x.conts[k].a \in Nat /\ x.conts[k].c \in Nat
  <2> SUFFICES ASSUME NEW k \in 1 .. Len(x.conts) PROVE x.conts[k] \in Cont
    BY DEF Cont
  <2> QED BY <1>1, ElementOfSeq
<1> QED BY <1>1, <1>2, <1>3 DEF BaseA, BaseC

LEMMA FitParts ==
  ASSUME program \in Programs, NEW S, NEW x, Fit(x, S)
  PROVE  /\ x \in Contexts(S) /\ x.pc \in Nat \X Nat /\ x.a \in Seq(S) /\ x.c \in Seq(S) /\ x.conts \in Seq(Cont)
         /\ x.looped \in BOOLEAN
         /\ Len(x.a) \in Nat /\ Len(x.c) \in Nat /\ Len(x.conts) \in Nat
         /\ BaseA(x.conts, Len(x.conts)) \in Nat /\ BaseC(x.conts, Len(x.conts)) \in Nat
         /\ Place(x.pc) /\ Verified(x.pc) /\ Returns(x.conts)
         /\ Len(x.a) = BaseA(x.conts, Len(x.conts)) + Depth(x.pc)
         /\ Len(x.c) = BaseC(x.conts, Len(x.conts)) + Arity(x.pc[1])
         /\ x.pc[1] \in Functions /\ x.pc[1] \in Nat /\ x.pc[2] \in Nat
<1>1. x \in Contexts(S) /\ Shape(x)
  BY DEF Fit
<1>2. x.pc \in Nat \X Nat /\ Place(x.pc)
  BY <1>1, ContextParts DEF Shape
<1>3. Verified(x.pc)
  BY <1>2, Verifies
<1> QED BY <1>1, <1>2, <1>3, ContextParts DEF Shape, Place

LEMMA AfterIs ==
  ASSUME NEW pc \in Nat \X Nat
  PROVE  After(pc) \in Nat \X Nat /\ After(pc)[1] = pc[1]
BY DEF After

LEMMA StraightFits ==
  ASSUME program \in Programs, NEW S, Cells(S), NEW x, Fit(x, S), At(x.pc).op \in {"push", "get", "inc", "drop"}
  PROVE  /\ Fit(Straight(x), S) /\ Straight(x).pc = After(x.pc) /\ Straight(x).c = x.c
         /\ Straight(x).conts = x.conts /\ Straight(x).looped = x.looped
         /\ At(x.pc).op = "push" => Straight(x).a = Append(x.a, Const(At(x.pc).arg))
         /\ At(x.pc).op = "get"  => /\ Straight(x).a = Append(x.a, x.c[Len(x.c) - At(x.pc).arg])
                                    /\ Len(x.c) - At(x.pc).arg \in 1 .. Len(x.c)
         /\ At(x.pc).op = "inc"  => Straight(x).a = Append(Front(x.a), Folded(Last(x.a))) /\ x.a # <<>>
         /\ At(x.pc).op = "drop" => Straight(x).a = Front(x.a) /\ x.a # <<>>
<1> DEFINE i == At(x.pc)
           y == Straight(x)
           b == BaseA(x.conts, Len(x.conts))
<1>1. /\ x \in Contexts(S) /\ x.pc \in Nat \X Nat /\ x.a \in Seq(S) /\ x.c \in Seq(S) /\ x.conts \in Seq(Cont)
      /\ Len(x.a) \in Nat /\ Len(x.c) \in Nat /\ b \in Nat /\ BaseC(x.conts, Len(x.conts)) \in Nat
      /\ Place(x.pc) /\ Verified(x.pc) /\ Returns(x.conts) /\ Len(x.a) = b + Depth(x.pc)
      /\ Len(x.c) = BaseC(x.conts, Len(x.conts)) + Arity(x.pc[1])
  BY FitParts
<1>b. x.looped \in BOOLEAN
  BY FitParts
<1>x. x = [pc |-> x.pc, a |-> x.a, c |-> x.c, conts |-> x.conts, looped |-> x.looped]
  BY <1>1, <1>b DEF Contexts
<1>a. PICK a : a = CASE i.op = "push" -> Append(x.a, Const(i.arg))
                     [] i.op = "get"  -> Append(x.a, x.c[Len(x.c) - i.arg])
                     [] i.op = "inc"  -> Append(Front(x.a), Folded(Last(x.a)))
                     [] i.op = "drop" -> Front(x.a)
  OBVIOUS
<1>y. y = [x EXCEPT !.pc = After(x.pc), !.a = a]
  BY <1>a DEF Straight
<1>z. y = [pc |-> After(x.pc), a |-> a, c |-> x.c, conts |-> x.conts, looped |-> x.looped]
  BY <1>x, <1>y
<1>v. /\ i.op = "push" => a = Append(x.a, Const(i.arg))
      /\ i.op = "get"  => a = Append(x.a, x.c[Len(x.c) - i.arg])
      /\ i.op = "inc"  => a = Append(Front(x.a), Folded(Last(x.a)))
      /\ i.op = "drop" => a = Front(x.a)
  BY <1>a
<1>2. /\ y.pc = After(x.pc) /\ y.c = x.c /\ y.conts = x.conts /\ y.looped = x.looped
      /\ y = [pc |-> After(x.pc), a |-> y.a, c |-> x.c, conts |-> x.conts, looped |-> x.looped]
      /\ i.op = "push" => y.a = Append(x.a, Const(i.arg))
      /\ i.op = "get"  => y.a = Append(x.a, x.c[Len(x.c) - i.arg])
      /\ i.op = "inc"  => y.a = Append(Front(x.a), Folded(Last(x.a)))
      /\ i.op = "drop" => y.a = Front(x.a)
  BY <1>z, <1>v
<1> HIDE DEF y, b
<1>3. Place(y.pc) /\ y.pc \in Nat \X Nat /\ y.pc[1] = x.pc[1] /\ Depth(y.pc) \in Nat /\ Depth(x.pc) \in Nat
      /\ i.arg \in Nat /\ Arity(x.pc[1]) \in Nat
  <2>1. Place(y.pc) /\ y.pc \in Nat \X Nat /\ y.pc[1] = x.pc[1] /\ Depth(y.pc) \in Nat
    <3>1. PICK p, q : p = x.pc /\ q = After(p)
      OBVIOUS
    <3>2. p \in Nat \X Nat
      BY <1>1, <3>1
    <3>3. q \in Nat \X Nat /\ q[1] = p[1]
      BY ONLY <3>1, <3>2, AfterIs
    <3>4. Place(q) /\ Depth(q) \in Nat
      BY <1>1, <3>1 DEF Verified
    <3>5. y.pc = q
      BY <1>2, <3>1
    <3> QED BY ONLY <3>1, <3>3, <3>4, <3>5
  <2>2. Depth(x.pc) \in Nat /\ i.arg \in Nat /\ Arity(x.pc[1]) \in Nat
    BY <1>1 DEF Verified, Instruction
  <2> QED BY <2>1, <2>2
<1>c. ASSUME y.a \in Seq(S), Len(y.a) = b + Depth(y.pc) PROVE Fit(y, S)
  <2>1. PICK p, g, c, k, o, e : /\ p = y.pc /\ g = y.a /\ c = x.c /\ k = x.conts /\ o = x.looped /\ e = Depth(p)
    OBVIOUS
  <2>2. y = [pc |-> p, a |-> g, c |-> c, conts |-> k, looped |-> o]
    BY <1>2, <2>1
  <2>3. p \in Nat \X Nat /\ g \in Seq(S) /\ c \in Seq(S) /\ k \in Seq(Cont) /\ o \in BOOLEAN
    BY <1>1, <1>b, <1>3, <1>c, <2>1
  <2>4. y \in Contexts(S)
    BY ONLY <2>2, <2>3 DEF Contexts
  <2>5. Len(y.a) = BaseA(x.conts, Len(x.conts)) + Depth(y.pc)
    BY <1>c DEF b
  <2>6. y.conts = x.conts /\ y.c = x.c /\ y.pc[1] = x.pc[1]
    BY <1>2, <1>3
  <2>7. Shape(y)
    BY <1>1, <1>3, <2>5, <2>6 DEF Shape
  <2> QED BY <2>4, <2>7 DEF Fit
<1>4. ASSUME i.op = "push" PROVE Fit(y, S)
  <2>1. Const(i.arg) \in S
    BY <1>1, <1>4 DEF Cells, Verified, Num
  <2>2. y.a \in Seq(S) /\ Len(y.a) = Len(x.a) + 1
    <3>1. PICK v \in S : v = Const(i.arg)
      BY <2>1
    <3>2. y.a = Append(x.a, v) /\ x.a \in Seq(S)
      BY <1>1, <1>2, <1>4, <3>1
    <3> QED BY <3>2, AppendProperties
  <2>3. Depth(y.pc) = Depth(x.pc) + 1
    BY <1>1, <1>2, <1>4 DEF Verified
  <2>4. Len(y.a) = b + Depth(y.pc)
    BY <1>1, <1>3, <2>2, <2>3
  <2> QED BY <1>c, <2>2, <2>4
<1>d. ASSUME i.op = "get" PROVE i.arg < Arity(x.pc[1]) /\ Len(x.c) - i.arg \in 1 .. Len(x.c)
  <2>1. i.arg < Arity(x.pc[1])
    BY <1>1, <1>d DEF Verified
  <2>2. Len(x.c) - i.arg \in 1 .. Len(x.c)
    <3>1. PICK n \in Nat : n = i.arg
      BY <1>3
    <3>2. PICK m \in Nat : m = Arity(x.pc[1])
      BY <1>3
    <3>3. PICK l \in Nat : l = Len(x.c)
      BY <1>1
    <3>4. PICK k \in Nat : k = BaseC(x.conts, Len(x.conts))
      BY <1>1
    <3>5. n < m /\ l = k + m
      BY <1>1, <2>1, <3>1, <3>2, <3>3, <3>4
    <3>6. l - n \in 1 .. l
      BY <3>5
    <3> QED BY <3>1, <3>3, <3>6
  <2> QED BY <2>1, <2>2
<1>5. ASSUME i.op = "get" PROVE Fit(y, S)
  <2>2. Len(x.c) - i.arg \in 1 .. Len(x.c)
    BY <1>5, <1>d
  <2>3. x.c[Len(x.c) - i.arg] \in S
    BY <1>1, <2>2, ElementOfSeq
  <2>4. y.a \in Seq(S) /\ Len(y.a) = Len(x.a) + 1
    <3>1. PICK v \in S : v = x.c[Len(x.c) - i.arg]
      BY <2>3
    <3>2. y.a = Append(x.a, v) /\ x.a \in Seq(S)
      BY <1>1, <1>2, <1>5, <3>1
    <3> QED BY <3>2, AppendProperties
  <2>5. Depth(y.pc) = Depth(x.pc) + 1
    BY <1>1, <1>2, <1>5 DEF Verified
  <2>6. Len(y.a) = b + Depth(y.pc)
    BY <1>1, <1>3, <2>4, <2>5
  <2> QED BY <1>c, <2>4, <2>6
<1>6. ASSUME i.op = "inc" PROVE Fit(y, S)
  <2>1. Depth(x.pc) >= 1 /\ Depth(y.pc) = Depth(x.pc)
    BY <1>1, <1>2, <1>6 DEF Verified
  <2>2. x.a # <<>>
    BY <1>1, <1>3, <2>1
  <2>3. Front(x.a) \in Seq(S) /\ Len(Front(x.a)) = Len(x.a) - 1 /\ Last(x.a) \in S
    BY <1>1, <2>2, FrontIs
  <2>4. Folded(Last(x.a)) \in S
    BY <2>3 DEF Cells
  <2>5. y.a \in Seq(S) /\ Len(y.a) = Len(x.a) - 1 + 1
    BY <1>2, <1>6, <2>3, <2>4, AppendProperties
  <2>6. Len(y.a) = b + Depth(y.pc)
    BY <1>1, <1>3, <2>1, <2>5
  <2> QED BY <1>c, <2>5, <2>6
<1>7. ASSUME i.op = "drop" PROVE Fit(y, S)
  <2>1. Depth(x.pc) >= 1 /\ Depth(y.pc) = Depth(x.pc) - 1
    BY <1>1, <1>2, <1>7 DEF Verified
  <2>2. x.a # <<>>
    BY <1>1, <1>3, <2>1
  <2>3. y.a \in Seq(S) /\ Len(y.a) = Len(x.a) - 1
    BY <1>1, <1>2, <1>7, <2>2, FrontIs
  <2>4. Len(y.a) = b + Depth(y.pc)
    BY <1>1, <1>3, <2>1, <2>3
  <2> QED BY <1>c, <2>3, <2>4
<1>8. Fit(y, S)
  BY <1>4, <1>5, <1>6, <1>7
<1>9. (i.op = "inc" \/ i.op = "drop") => x.a # <<>>
  <2> SUFFICES ASSUME i.op = "inc" \/ i.op = "drop" PROVE x.a # <<>>
    OBVIOUS
  <2>1. Depth(x.pc) >= 1
    BY <1>1 DEF Verified
  <2> QED BY <1>1, <1>3, <2>1
<1>10. PICK z : z = y
  OBVIOUS
<1>11. Straight(x) = z
  BY <1>10 DEF y
<1>12. Fit(z, S) /\ z.conts = x.conts /\ z.looped = x.looped
  BY <1>2, <1>8, <1>10
<1>14. /\ z.pc = After(x.pc) /\ z.c = x.c
       /\ i.op = "push" => z.a = Append(x.a, Const(i.arg))
       /\ i.op = "get"  => z.a = Append(x.a, x.c[Len(x.c) - i.arg])
       /\ i.op = "inc"  => z.a = Append(Front(x.a), Folded(Last(x.a)))
       /\ i.op = "drop" => z.a = Front(x.a)
  BY <1>2, <1>10
<1> QED BY ONLY <1>9, <1>11, <1>12, <1>14, <1>d

LEMMA BranchedFits ==
  ASSUME program \in Programs, NEW S, NEW x, Fit(x, S), At(x.pc).op = "branch",
         NEW pc, pc = After(x.pc) \/ pc = Taken(x)
  PROVE  /\ Fit(Branched(x, pc), S) /\ Branched(x, pc).pc = pc /\ Branched(x, pc).a = Front(x.a) /\ x.a # <<>>
         /\ Branched(x, pc).c = x.c /\ Branched(x, pc).conts = x.conts /\ pc[1] = x.pc[1]
         /\ Branched(x, pc).looped = x.looped
<1> DEFINE y == Branched(x, pc)
           b == BaseA(x.conts, Len(x.conts))
<1>1. /\ x \in Contexts(S) /\ x.pc \in Nat \X Nat /\ x.a \in Seq(S) /\ x.c \in Seq(S) /\ x.conts \in Seq(Cont)
      /\ Len(x.a) \in Nat /\ b \in Nat
      /\ Place(x.pc) /\ Verified(x.pc) /\ Returns(x.conts) /\ Len(x.a) = b + Depth(x.pc)
      /\ Len(x.c) = BaseC(x.conts, Len(x.conts)) + Arity(x.pc[1])
  BY FitParts
<1>b. x.looped \in BOOLEAN
  BY FitParts
<1>x. x = [pc |-> x.pc, a |-> x.a, c |-> x.c, conts |-> x.conts, looped |-> x.looped]
  BY <1>1, <1>b DEF Contexts
<1>y. PICK a : a = Front(x.a)
  OBVIOUS
<1>z. y = [x EXCEPT !.pc = pc, !.a = a]
  BY <1>y DEF Branched
<1>2. /\ y = [pc |-> pc, a |-> Front(x.a), c |-> x.c, conts |-> x.conts, looped |-> x.looped]
  BY <1>x, <1>y, <1>z
<1>3. y.pc = pc /\ y.a = Front(x.a) /\ y.c = x.c /\ y.conts = x.conts /\ y.looped = x.looped
  BY <1>2
<1> HIDE DEF y, b
<1>4. At(x.pc).arg \in Nat /\ Depth(x.pc) \in Nat /\ Depth(x.pc) >= 1
  BY <1>1 DEF Verified, Instruction
<1>5. pc \in Nat \X Nat /\ pc[1] = x.pc[1] /\ Place(pc) /\ Depth(pc) = Depth(x.pc) - 1
  <2>1. PICK f \in Nat, at \in Nat : x.pc = <<f, at>> /\ x.pc[1] = f
    BY <1>1
  <2>2. CASE pc = After(x.pc)
    BY <1>1, <2>2, AfterIs DEF Verified
  <2>3. CASE pc = Taken(x)
    <3>1. pc = <<x.pc[1], At(x.pc).arg>>
      BY <2>3 DEF Taken
    <3>2. pc \in Nat \X Nat /\ pc[1] = x.pc[1]
      BY <1>4, <2>1, <3>1
    <3>3. Place(<<x.pc[1], At(x.pc).arg>>) /\ Depth(<<x.pc[1], At(x.pc).arg>>) = Depth(x.pc) - 1
      BY <1>1 DEF Verified
    <3> QED BY <3>1, <3>2, <3>3
  <2> QED BY <2>2, <2>3
<1>6. x.a # <<>>
  BY <1>1, <1>4
<1>7. Front(x.a) \in Seq(S) /\ Len(Front(x.a)) = Len(x.a) - 1
  BY <1>1, <1>6, FrontIs
<1>8. Len(y.a) = b + Depth(pc)
  BY <1>1, <1>3, <1>4, <1>5, <1>7
<1> QED BY <1>1, <1>b, <1>2, <1>3, <1>5, <1>6, <1>7, <1>8 DEF Fit, Shape, Contexts, y, b

\* What a call passes on is on top of A.
LEMMA PassedIs ==
  ASSUME program \in Programs, NEW S, NEW x, Fit(x, S), At(x.pc).op \in {"call", "tail"}
  PROVE  LET f == At(x.pc).arg
         IN  /\ f \in Functions /\ Arity(f) \in Nat /\ Arity(f) <= Len(x.a) /\ Arity(f) <= Depth(x.pc)
             /\ f \in Callees(x.pc[1])
             /\ Passed(x, f) \in Seq(S) /\ Len(Passed(x, f)) = Arity(f)
             /\ TopOf(x.a, Arity(f)) \in Seq(S) /\ Len(TopOf(x.a, Arity(f))) = Arity(f)
             /\ Reverse(Passed(x, f)) = TopOf(x.a, Arity(f))
             /\ Keep(x.a, Arity(f)) \in Seq(S) /\ Len(Keep(x.a, Arity(f))) = Len(x.a) - Arity(f)
<1> DEFINE f == At(x.pc).arg
           b == BaseA(x.conts, Len(x.conts))
<1>1. /\ x.a \in Seq(S) /\ Len(x.a) \in Nat /\ b \in Nat /\ Verified(x.pc) /\ Len(x.a) = b + Depth(x.pc) /\ Place(x.pc)
  BY FitParts
<1>2. f \in Functions /\ Arity(f) \in Nat /\ Arity(f) <= Depth(x.pc) /\ Depth(x.pc) \in Nat
  BY <1>1 DEF Verified
<1> HIDE DEF b
<1>3. Arity(f) <= Len(x.a)
  BY <1>1, <1>2
<1>4. f \in Callees(x.pc[1])
  BY <1>1, CallsTo
<1> HIDE DEF f
<1>5. TopOf(x.a, Arity(f)) \in Seq(S) /\ Len(TopOf(x.a, Arity(f))) = Arity(f)
  BY <1>1, <1>2, <1>3, TopIs
<1>6. Keep(x.a, Arity(f)) \in Seq(S) /\ Len(Keep(x.a, Arity(f))) = Len(x.a) - Arity(f)
  BY <1>1, <1>2, <1>3, KeepIs
<1>7. Passed(x, f) \in Seq(S) /\ Len(Passed(x, f)) = Arity(f) /\ Reverse(Passed(x, f)) = TopOf(x.a, Arity(f))
  BY <1>5, ReverseIs DEF Passed
<1> QED BY <1>2, <1>3, <1>4, <1>5, <1>6, <1>7 DEF f

LEMMA CalledFits ==
  ASSUME program \in Programs, NEW S, NEW x, Fit(x, S), At(x.pc).op = "call"
  PROVE  LET f == At(x.pc).arg
             y == Called(x, f)
         IN  /\ Fit(y, S) /\ y.pc = Entry(f) /\ y.a = Keep(x.a, Arity(f)) /\ y.c = x.c \o Passed(x, f)
             /\ y.conts = Append(x.conts, [pc |-> After(x.pc), a |-> Len(x.a) - Arity(f), c |-> Len(x.c)])
             /\ y.looped = x.looped
<1> DEFINE f == At(x.pc).arg
           y == Called(x, f)
           b == BaseA(x.conts, Len(x.conts))
           e == [pc |-> After(x.pc), a |-> Len(x.a) - Arity(f), c |-> Len(x.c)]
<1>1. /\ x \in Contexts(S) /\ x.pc \in Nat \X Nat /\ x.a \in Seq(S) /\ x.c \in Seq(S) /\ x.conts \in Seq(Cont)
      /\ Len(x.a) \in Nat /\ Len(x.c) \in Nat /\ Len(x.conts) \in Nat /\ b \in Nat
      /\ Place(x.pc) /\ Verified(x.pc) /\ Returns(x.conts) /\ Len(x.a) = b + Depth(x.pc)
      /\ Len(x.c) = BaseC(x.conts, Len(x.conts)) + Arity(x.pc[1])
  BY FitParts
<1>2. /\ f \in Functions /\ Arity(f) \in Nat /\ Arity(f) <= Len(x.a)
      /\ Passed(x, f) \in Seq(S) /\ Len(Passed(x, f)) = Arity(f)
      /\ Keep(x.a, Arity(f)) \in Seq(S) /\ Len(Keep(x.a, Arity(f))) = Len(x.a) - Arity(f)
  BY PassedIs
<1>3. Place(After(x.pc)) /\ Depth(After(x.pc)) = Depth(x.pc) - Arity(f) + 1 /\ Depth(x.pc) \in Nat
  BY <1>1 DEF Verified
<1>4. After(x.pc) \in Nat \X Nat /\ After(x.pc)[1] = x.pc[1]
  BY <1>1, AfterIs
<1>5. Place(Entry(f)) /\ Depth(Entry(f)) = 0 /\ Entry(f) \in Nat \X Nat /\ Entry(f)[1] = f
  BY <1>2, EntryPlace DEF Entry
<1>b. x.looped \in BOOLEAN
  BY FitParts
<1>x. x = [pc |-> x.pc, a |-> x.a, c |-> x.c, conts |-> x.conts, looped |-> x.looped]
  BY <1>1, <1>b DEF Contexts
<1>y. PICK a, c, cs : a = Keep(x.a, Arity(f)) /\ c = x.c \o Passed(x, f) /\ cs = Append(x.conts, e)
  OBVIOUS
<1>z. y = [x EXCEPT !.pc = Entry(f), !.a = a, !.c = c, !.conts = cs]
  BY <1>y DEF Called
<1>w. y = [pc |-> Entry(f), a |-> a, c |-> c, conts |-> cs, looped |-> x.looped]
  BY <1>x, <1>z
<1>7. e.pc = After(x.pc) /\ e.a = Len(x.a) - Arity(f) /\ e.c = Len(x.c)
  OBVIOUS
<1> HIDE DEF f, b, y, e
<1>v. /\ y.pc = Entry(f) /\ y.a = a /\ y.c = c /\ y.conts = cs /\ y.looped = x.looped
  BY <1>w
<1>6. /\ y.pc = Entry(f) /\ y.a = Keep(x.a, Arity(f)) /\ y.c = x.c \o Passed(x, f) /\ y.conts = Append(x.conts, e)
      /\ y = [pc |-> y.pc, a |-> y.a, c |-> y.c, conts |-> y.conts, looped |-> y.looped] /\ y.looped = x.looped
  BY <1>y, <1>w, <1>v
<1>8. e.a \in Nat /\ e.a + 1 = b + Depth(e.pc)
  BY <1>1, <1>2, <1>3, <1>7
<1>9. e \in Cont
  BY <1>1, <1>4, <1>8 DEF Cont, e
<1>n. y.conts = Append(x.conts, e)
  BY <1>6
<1>10. e.c = BaseC(x.conts, Len(x.conts)) + Arity(e.pc[1])
  BY <1>1, <1>4, <1>7
<1>11. /\ Returns(y.conts) /\ y.conts \in Seq(Cont) /\ Len(y.conts) = Len(x.conts) + 1
       /\ BaseA(y.conts, Len(y.conts)) = e.a /\ BaseC(y.conts, Len(y.conts)) = e.c
  BY <1>1, <1>3, <1>7, <1>8, <1>9, <1>10, <1>n, CallReturns DEF b
<1>12. y.a \in Seq(S) /\ Len(y.a) = e.a + Depth(y.pc)
  <2>1. Len(y.a) = e.a /\ Depth(y.pc) = 0
    BY <1>2, <1>5, <1>6, <1>7
  <2> QED BY <1>2, <1>6, <1>8, <2>1
<1>13. y.c \in Seq(S) /\ Len(y.c) = e.c + Arity(y.pc[1])
  <2>1. PICK p \in Seq(S) : p = Passed(x, f) /\ Len(p) = Arity(f)
    BY <1>2
  <2>2. y.c = x.c \o p /\ x.c \in Seq(S)
    BY <1>1, <1>6, <2>1
  <2>3. y.c \in Seq(S) /\ Len(y.c) = Len(x.c) + Len(p)
    BY <2>2, ConcatProperties
  <2>4. Arity(y.pc[1]) = Arity(f)
    BY <1>5, <1>6
  <2> QED BY <1>7, <2>1, <2>3, <2>4
<1>14. Place(y.pc) /\ y.pc \in Nat \X Nat
  BY <1>5, <1>6
<1>15. y \in Contexts(S)
  BY <1>1, <1>b, <1>6, <1>11, <1>12, <1>13, <1>14 DEF Contexts
<1>16. Shape(y)
  BY <1>11, <1>12, <1>13, <1>14 DEF Shape
<1> QED BY <1>6, <1>15, <1>16 DEF Fit, y, f, e

LEMMA TailedFits ==
  ASSUME program \in Programs, NEW S, NEW x, Fit(x, S), At(x.pc).op = "tail"
  PROVE  LET f == At(x.pc).arg
             y == Tailed(x, f)
         IN  /\ Fit(y, S) /\ y.pc = Entry(f) /\ y.a = Keep(x.a, Arity(f)) /\ y.conts = x.conts
             /\ y.looped = x.looped
             /\ y.c = Keep(x.c, Arity(x.pc[1])) \o Passed(x, f)
             /\ Arity(x.pc[1]) <= Len(x.c) /\ Arity(x.pc[1]) \in Nat
             /\ x.conts = <<>> => y.c = Passed(x, f)
<1> DEFINE f == At(x.pc).arg
           y == Tailed(x, f)
           b == BaseA(x.conts, Len(x.conts))
           d == BaseC(x.conts, Len(x.conts))
           r == Arity(x.pc[1])
<1>1. /\ x \in Contexts(S) /\ x.pc \in Nat \X Nat /\ x.a \in Seq(S) /\ x.c \in Seq(S) /\ x.conts \in Seq(Cont)
      /\ Len(x.a) \in Nat /\ Len(x.c) \in Nat /\ Len(x.conts) \in Nat /\ b \in Nat /\ d \in Nat
      /\ Place(x.pc) /\ Verified(x.pc) /\ Returns(x.conts) /\ Len(x.a) = b + Depth(x.pc)
      /\ Len(x.c) = d + r
  BY FitParts
<1>2. /\ f \in Functions /\ Arity(f) \in Nat /\ Arity(f) <= Len(x.a)
      /\ Passed(x, f) \in Seq(S) /\ Len(Passed(x, f)) = Arity(f)
      /\ Keep(x.a, Arity(f)) \in Seq(S) /\ Len(Keep(x.a, Arity(f))) = Len(x.a) - Arity(f)
  BY PassedIs
<1>3. Arity(f) = Depth(x.pc) /\ r \in Nat /\ Depth(x.pc) \in Nat
  BY <1>1 DEF Verified
<1>5. Place(Entry(f)) /\ Depth(Entry(f)) = 0 /\ Entry(f) \in Nat \X Nat /\ Entry(f)[1] = f
  BY <1>2, EntryPlace DEF Entry
<1>b. x.looped \in BOOLEAN
  BY FitParts
<1>x. x = [pc |-> x.pc, a |-> x.a, c |-> x.c, conts |-> x.conts, looped |-> x.looped]
  BY <1>1, <1>b DEF Contexts
<1>y. PICK a, c : a = Keep(x.a, Arity(f)) /\ c = Keep(x.c, r) \o Passed(x, f)
  OBVIOUS
<1>z. y = [x EXCEPT !.pc = Entry(f), !.a = a, !.c = c]
  BY <1>y DEF Tailed
<1>w. y = [pc |-> Entry(f), a |-> a, c |-> c, conts |-> x.conts, looped |-> x.looped]
  BY <1>x, <1>z
<1>6. /\ y.pc = Entry(f) /\ y.a = Keep(x.a, Arity(f)) /\ y.c = Keep(x.c, r) \o Passed(x, f) /\ y.conts = x.conts
      /\ y.looped = x.looped
      /\ y = [pc |-> y.pc, a |-> y.a, c |-> y.c, conts |-> y.conts, looped |-> y.looped]
  BY <1>y, <1>w
<1> HIDE DEF f, b, y, d, r
<1>7. r <= Len(x.c)
  BY <1>1, <1>3
<1>8. Keep(x.c, r) \in Seq(S) /\ Len(Keep(x.c, r)) = d
  <2>1. Keep(x.c, r) \in Seq(S) /\ Len(Keep(x.c, r)) = Len(x.c) - r
    <3>1. PICK u, k : u = x.c /\ k = r
      OBVIOUS
    <3>2. u \in Seq(S) /\ k \in Nat /\ k <= Len(u)
      BY <1>1, <1>3, <1>7, <3>1
    <3> QED BY <3>1, <3>2, KeepIs
  <2>2. d \in Nat /\ r \in Nat /\ Len(x.c) = d + r
    BY <1>1, <1>3
  <2>3. PICK n : n = Len(x.c)
    OBVIOUS
  <2>4. n - r = d
    BY ONLY <2>2, <2>3
  <2> QED BY <2>1, <2>3, <2>4
<1>9. y.c \in Seq(S) /\ Len(y.c) = d + Arity(y.pc[1])
  <2>1. PICK p \in Seq(S), q \in Seq(S) : p = Keep(x.c, r) /\ q = Passed(x, f) /\ Len(p) = d /\ Len(q) = Arity(f)
    BY <1>2, <1>8
  <2>2. y.c = p \o q /\ Arity(y.pc[1]) = Arity(f)
    BY <1>5, <1>6, <2>1
  <2>3. p \o q \in Seq(S) /\ Len(p \o q) = Len(p) + Len(q)
    BY ConcatProperties
  <2> QED BY <2>1, <2>2, <2>3
<1>10. y.a \in Seq(S) /\ Len(y.a) = b + Depth(y.pc)
  <2>1. Len(y.a) = b /\ Depth(y.pc) = 0
    BY <1>1, <1>2, <1>3, <1>5, <1>6
  <2> QED BY <1>1, <1>2, <1>6, <2>1
<1>11. y \in Contexts(S)
  BY <1>1, <1>b, <1>5, <1>6, <1>9, <1>10 DEF Contexts
<1>12. Shape(y)
  BY <1>1, <1>5, <1>6, <1>9, <1>10 DEF Shape, b, d
<1>13. x.conts = <<>> => y.c = Passed(x, f)
  <2> SUFFICES ASSUME x.conts = <<>> PROVE y.c = Passed(x, f)
    OBVIOUS
  <2>1. d = 0
    BY DEF d, BaseC
  <2>2. Keep(x.c, r) = <<>>
    BY <1>8, <2>1
  <2> QED BY <1>2, <1>6, <2>2, ConcatProperties
<1>14. Fit(y, S)
  BY <1>11, <1>12 DEF Fit
<1> QED BY <1>3, <1>6, <1>7, <1>13, <1>14 DEF y, f, r

LEMMA ReturnedFits ==
  ASSUME program \in Programs, NEW S, NEW x, Fit(x, S), At(x.pc).op = "ret", x.conts # <<>>
  PROVE  LET y == Returned(x)
             e == Last(x.conts)
         IN  /\ Fit(y, S) /\ y.pc = e.pc /\ y.a = x.a /\ y.conts = Front(x.conts) /\ y.c = SubSeq(x.c, 1, e.c)
             /\ y.looped = x.looped
             /\ e.c \in 0 .. Len(x.c) /\ e = x.conts[Len(x.conts)]
<1> DEFINE y == Returned(x)
           e == Last(x.conts)
           l == Len(x.conts) - 1
<1>1. /\ x \in Contexts(S) /\ x.pc \in Nat \X Nat /\ x.a \in Seq(S) /\ x.c \in Seq(S) /\ x.conts \in Seq(Cont)
      /\ Len(x.a) \in Nat /\ Len(x.c) \in Nat /\ Len(x.conts) \in Nat
      /\ Place(x.pc) /\ Verified(x.pc) /\ Returns(x.conts)
      /\ Len(x.a) = BaseA(x.conts, Len(x.conts)) + Depth(x.pc)
      /\ Len(x.c) = BaseC(x.conts, Len(x.conts)) + Arity(x.pc[1])
  BY FitParts
<1>2. /\ e \in Cont /\ Place(e.pc) /\ Returns(Front(x.conts)) /\ Front(x.conts) \in Seq(Cont)
      /\ Len(Front(x.conts)) = l /\ l \in Nat /\ e = x.conts[Len(x.conts)]
      /\ e.a + 1 = BaseA(Front(x.conts), l) + Depth(e.pc)
      /\ e.c = BaseC(Front(x.conts), l) + Arity(e.pc[1])
  BY <1>1, ReturnReturns
<1>3. BaseA(x.conts, Len(x.conts)) = e.a /\ BaseC(x.conts, Len(x.conts)) = e.c
  <2>1. Len(x.conts) # 0
    BY <1>1, <1>2
  <2> QED BY <1>2, <2>1 DEF BaseA, BaseC
<1>4. Depth(x.pc) = 1 /\ Arity(x.pc[1]) \in Nat
  BY <1>1 DEF Verified
<1>b. x.looped \in BOOLEAN
  BY FitParts
<1>x. x = [pc |-> x.pc, a |-> x.a, c |-> x.c, conts |-> x.conts, looped |-> x.looped]
  BY <1>1, <1>b DEF Contexts
<1>y. PICK c, cs : c = SubSeq(x.c, 1, e.c) /\ cs = Front(x.conts)
  OBVIOUS
<1>z. y = [x EXCEPT !.pc = e.pc, !.c = c, !.conts = cs]
  BY <1>y DEF Returned
<1>w. y = [pc |-> e.pc, a |-> x.a, c |-> c, conts |-> cs, looped |-> x.looped]
  BY <1>x, <1>z
<1> HIDE DEF y, e, l
<1>v. y.pc = e.pc /\ y.a = x.a /\ y.c = c /\ y.conts = cs /\ y.looped = x.looped
  BY <1>w
<1>6. /\ y.pc = e.pc /\ y.a = x.a /\ y.c = SubSeq(x.c, 1, e.c) /\ y.conts = Front(x.conts)
      /\ y.looped = x.looped
      /\ y = [pc |-> y.pc, a |-> y.a, c |-> y.c, conts |-> y.conts, looped |-> y.looped]
  BY <1>y, <1>w, <1>v
<1>7. e.pc \in Nat \X Nat /\ e.a \in Nat /\ e.c \in Nat
  BY <1>2 DEF Cont
<1>8. e.c \in 0 .. Len(x.c)
  BY <1>1, <1>3, <1>4, <1>7
<1>9. y.c \in Seq(S) /\ Len(y.c) = e.c
  BY <1>1, <1>6, <1>8, SubSeqProperties
<1>10. y \in Contexts(S)
  BY <1>1, <1>b, <1>2, <1>6, <1>7, <1>9 DEF Contexts
<1>11. Len(y.a) = BaseA(y.conts, Len(y.conts)) + Depth(y.pc)
  BY <1>1, <1>2, <1>3, <1>4, <1>6
<1>12. Len(y.c) = BaseC(y.conts, Len(y.conts)) + Arity(y.pc[1])
  BY <1>2, <1>6, <1>9
<1>13. Shape(y)
  BY <1>2, <1>6, <1>11, <1>12 DEF Shape
<1> QED BY <1>2, <1>6, <1>8, <1>10, <1>13 DEF Fit, y, e

LEMMA AnsweredFits ==
  ASSUME program \in Programs, NEW S, NEW x, Fit(x, S), At(x.pc).op = "call", NEW v \in S
  PROVE  LET f == At(x.pc).arg
             y == Answered(x, f, v)
         IN  /\ Fit(y, S) /\ y.pc = After(x.pc) /\ y.a = Append(Keep(x.a, Arity(f)), v) /\ y.c = x.c
             /\ y.conts = x.conts /\ y.looped = x.looped
<1> DEFINE f == At(x.pc).arg
           y == Answered(x, f, v)
           b == BaseA(x.conts, Len(x.conts))
<1>1. /\ x \in Contexts(S) /\ x.pc \in Nat \X Nat /\ x.a \in Seq(S) /\ x.c \in Seq(S) /\ x.conts \in Seq(Cont)
      /\ Len(x.a) \in Nat /\ b \in Nat
      /\ Place(x.pc) /\ Verified(x.pc) /\ Returns(x.conts) /\ Len(x.a) = b + Depth(x.pc)
      /\ Len(x.c) = BaseC(x.conts, Len(x.conts)) + Arity(x.pc[1])
  BY FitParts
<1>2. /\ f \in Functions /\ Arity(f) \in Nat /\ Arity(f) <= Len(x.a)
      /\ Keep(x.a, Arity(f)) \in Seq(S) /\ Len(Keep(x.a, Arity(f))) = Len(x.a) - Arity(f)
  BY PassedIs
<1>3. Place(After(x.pc)) /\ Depth(After(x.pc)) = Depth(x.pc) - Arity(f) + 1 /\ Depth(x.pc) \in Nat
  BY <1>1 DEF Verified
<1>4. After(x.pc) \in Nat \X Nat /\ After(x.pc)[1] = x.pc[1]
  BY <1>1, AfterIs
<1>b. x.looped \in BOOLEAN
  BY FitParts
<1>x. x = [pc |-> x.pc, a |-> x.a, c |-> x.c, conts |-> x.conts, looped |-> x.looped]
  BY <1>1, <1>b DEF Contexts
<1>y. PICK a : a = Append(Keep(x.a, Arity(f)), v)
  OBVIOUS
<1>z. y = [x EXCEPT !.pc = After(x.pc), !.a = a]
  BY <1>y DEF Answered
<1>w. y = [pc |-> After(x.pc), a |-> a, c |-> x.c, conts |-> x.conts, looped |-> x.looped]
  BY <1>x, <1>z
<1>6. /\ y.pc = After(x.pc) /\ y.a = Append(Keep(x.a, Arity(f)), v) /\ y.c = x.c /\ y.conts = x.conts
      /\ y.looped = x.looped
      /\ y = [pc |-> y.pc, a |-> y.a, c |-> y.c, conts |-> y.conts, looped |-> y.looped]
  BY <1>y, <1>w
<1> HIDE DEF f, b, y
<1>7. y.a \in Seq(S) /\ Len(y.a) = Len(Keep(x.a, Arity(f))) + 1
  BY <1>2, <1>6, AppendProperties
<1>8. Len(y.a) = b + Depth(y.pc)
  BY <1>1, <1>2, <1>3, <1>6, <1>7
<1> QED BY <1>1, <1>b, <1>3, <1>4, <1>6, <1>7, <1>8 DEF Fit, Shape, Contexts, y, f, b

-----------------------------------------------------------------------------
(* A context of nodes y and one of the program x that agree, for the values  *)
(* that r gives to inputs, homes and results.                                *)

Consts == {Const(k) : k \in Num}

Alike(s, t, r) == Len(s) = Len(t) /\ \A i \in 1 .. Len(s) : ValueOf(s[i], r) = t[i].n
AgreesWith(y, x, r) == y.pc = x.pc /\ y.conts = x.conts /\ Alike(y.a, x.a, r) /\ Alike(y.c, x.c, r)

Readable(S, r) ==
  \A v \in S : /\ v.base = "input"  => r.input[v.n] \in Num
               /\ v.base = "home"   => r.home[v.n] \in Num
               /\ v.base = "result" => r.result[v.n] \in Num

LEMMA ModSucc ==
  ASSUME NEW n \in Nat, NEW w \in Nat \ {0}
  PROVE  ((n % w) + 1) % w = (n + 1) % w
<1>1. PICK q \in Nat : n \div w = q
  BY Z3
<1>2. PICK r \in Nat : n % w = r /\ r < w
  BY Z3
<1>3. n = w * q + r
  BY <1>1, <1>2, Z3
<1>4. CASE r + 1 < w
  <2>1. (r + 1) % w = r + 1
    BY <1>4, Z3
  <2>2. (n + 1) % w = r + 1
    BY <1>3, <1>4, Z3
  <2> QED BY <1>2, <2>1, <2>2
<1>5. CASE r + 1 = w
  <2>1. (r + 1) % w = 0
    BY <1>5, Z3
  <2>2. n + 1 = w * (q + 1)
    BY <1>3, <1>5, Z3
  <2>3. (w * (q + 1)) % w = 0
    BY Z3
  <2> QED BY <1>2, <2>1, <2>2, <2>3
<1> QED BY <1>2, <1>4, <1>5

LEMMA ModNum == \A n \in Nat : n % Width \in Num
<1>1. Width \in Nat /\ Width > 0
  BY WidthAssumption
<1>2. ASSUME NEW n \in Nat, NEW w \in Nat, w > 0 PROVE n % w \in 0 .. w - 1
  BY <1>2, Z3
<1> QED BY <1>1, <1>2 DEF Num

LEMMA ConstsAreCells == Cells(Consts)
<1>1. ASSUME NEW k \in Num
      PROVE  Const(k) \in Value /\ Folded(Const(k)) \in Consts /\ Const(k).base = "const" /\ Const(k).n = k /\ Const(k).plus = 0
  <2>1. k \in Nat /\ (k + 1) % Width \in Num
    BY WidthAssumption, ModNum DEF Num
  <2>2. PICK m \in Num : m = (k + 1) % Width
    BY <2>1
  <2>3. Const(k).base = "const" /\ Const(k).n = k /\ Const(k).plus = 0 /\ Const(k) \in Value
    BY <2>1 DEF Const, Value
  <2>4. Folded(Const(k)) = Const(m)
    BY <2>2, <2>3 DEF Folded, IsConst
  <2> QED BY <2>3, <2>4 DEF Consts
<1> QED BY <1>1 DEF Cells, Consts

LEMMA ConstIs ==
  ASSUME NEW t \in Consts
  PROVE  t.n \in Num /\ t = Const(t.n) /\ Folded(t) = Const((t.n + 1) % Width) /\ Folded(t).n = (t.n + 1) % Width
<1>1. PICK k \in Num : t = Const(k)
  BY DEF Consts
<1>2. t.n = k /\ t.base = "const"
  BY <1>1 DEF Const
<1>3. PICK m : m = (k + 1) % Width
  OBVIOUS
<1>4. Folded(t) = Const(m) /\ Const(m).n = m
  BY <1>2, <1>3 DEF Folded, IsConst, Const
<1> QED BY <1>1, <1>2, <1>3, <1>4

LEMMA ValueIsNum ==
  ASSUME NEW S, Cells(S), NEW r, Readable(S, r), NEW v \in S
  PROVE  /\ ValueOf(v, r) \in Num
         /\ ValueOf(Folded(v), r) = (ValueOf(v, r) + 1) % Width
         /\ IsConst(v) => ValueOf(v, r) = v.n
<1>1. v \in Value /\ (v.base = "const" => v.n \in Num /\ v.plus = 0)
  BY DEF Cells
<1>2. v.base \in {"const", "input", "home", "result"} /\ v.n \in Nat /\ v.plus \in Nat
  BY <1>1 DEF Value
<1>3. Width \in Nat \ {0} /\ Num \subseteq Nat
  BY WidthAssumption DEF Num
<1>4. CASE v.base = "const"
  <2>1. ValueOf(v, r) = v.n
    BY <1>4 DEF ValueOf
  <2>2. PICK m : m = (v.n + 1) % Width
    OBVIOUS
  <2>3. Folded(v) = Const(m)
    BY <1>4, <2>2 DEF Folded, IsConst
  <2>4. ValueOf(Folded(v), r) = m
    BY <2>3 DEF ValueOf, Const
  <2> QED BY <1>1, <1>4, <2>1, <2>2, <2>4
<1>5. CASE v.base # "const"
  <2> DEFINE w == Folded(v)
  <2>1. w.base = v.base /\ w.n = v.n /\ w.plus = v.plus + 1
    BY <1>1, <1>2, <1>5 DEF Folded, IsConst, Value
  <2> HIDE DEF w
  <2>2. PICK h \in Num : /\ ValueOf(v, r) = (h + v.plus) % Width
                         /\ ValueOf(w, r) = (h + (v.plus + 1)) % Width
    <3>1. CASE v.base = "input"
      BY <2>1, <3>1 DEF ValueOf, Readable
    <3>2. CASE v.base = "home"
      BY <2>1, <3>2 DEF ValueOf, Readable
    <3>3. CASE v.base = "result"
      BY <2>1, <3>3 DEF ValueOf, Readable
    <3> QED BY <1>2, <1>5, <3>1, <3>2, <3>3
  <2>3. PICK n \in Nat : n = h + v.plus /\ h + (v.plus + 1) = n + 1
    BY <1>2, <1>3
  <2>4. ((n % Width) + 1) % Width = (n + 1) % Width
    BY <1>3, ModSucc
  <2>5. n % Width \in Num
    BY ModNum
  <2> QED BY <1>5, <2>2, <2>3, <2>4, <2>5 DEF w, IsConst
<1> QED BY <1>4, <1>5

LEMMA AlikeIs ==
  ASSUME NEW S, NEW T, NEW s \in Seq(S), NEW t \in Seq(T), NEW r
  PROVE  (Values(s, r) = Plain(t)) <=> Alike(s, t, r)
<1>1. DOMAIN s = 1 .. Len(s) /\ DOMAIN t = 1 .. Len(t) /\ Len(s) \in Nat /\ Len(t) \in Nat
  OBVIOUS
<1>2. Values(s, r) = [i \in 1 .. Len(s) |-> ValueOf(s[i], r)] /\ Plain(t) = [i \in 1 .. Len(t) |-> t[i].n]
  BY <1>1 DEF Values, Plain
<1>3. ASSUME Values(s, r) = Plain(t) PROVE Alike(s, t, r)
  <2>1. 1 .. Len(s) = 1 .. Len(t)
    <3>1. DOMAIN Values(s, r) = 1 .. Len(s) /\ DOMAIN Plain(t) = 1 .. Len(t)
      BY <1>2
    <3> QED BY <1>3, <3>1
  <2>2. Len(s) = Len(t)
    <3>1. PICK n \in Nat : n = Len(s)
      BY <1>1
    <3>2. PICK m \in Nat : m = Len(t)
      BY <1>1
    <3>3. 1 .. n = 1 .. m
      BY <2>1, <3>1, <3>2
    <3>4. (n > 0 => n \in 1 .. m) /\ (m > 0 => m \in 1 .. n)
      <4>1. (n > 0 => n \in 1 .. n) /\ (m > 0 => m \in 1 .. m)
        OBVIOUS
      <4> QED BY <3>3, <4>1
    <3> QED BY <3>1, <3>2, <3>4
  <2>3. ASSUME NEW i \in 1 .. Len(s) PROVE ValueOf(s[i], r) = t[i].n
    <3>1. Values(s, r)[i] = ValueOf(s[i], r)
      BY <1>2
    <3>2. Plain(t)[i] = t[i].n
      BY <1>2, <2>1
    <3> QED BY <1>3, <3>1, <3>2
  <2> QED BY <2>2, <2>3 DEF Alike
<1>4. ASSUME Alike(s, t, r) PROVE Values(s, r) = Plain(t)
  <2>1. Len(s) = Len(t) /\ \A i \in 1 .. Len(s) : ValueOf(s[i], r) = t[i].n
    BY <1>4 DEF Alike
  <2> QED BY <1>2, <2>1
<1> QED BY <1>3, <1>4

LEMMA AlikeKeep ==
  ASSUME NEW S, NEW T, NEW s \in Seq(S), NEW t \in Seq(T), NEW r, Alike(s, t, r), NEW n \in Nat, n <= Len(s)
  PROVE  Alike(Keep(s, n), Keep(t, n), r) /\ Alike(TopOf(s, n), TopOf(t, n), r)
<1>1. Len(s) = Len(t) /\ Len(s) \in Nat /\ \A i \in 1 .. Len(s) : ValueOf(s[i], r) = t[i].n
  BY DEF Alike
<1>2. /\ Len(Keep(s, n)) = Len(s) - n /\ \A i \in 1 .. Len(s) - n : Keep(s, n)[i] = s[i]
      /\ Len(Keep(t, n)) = Len(t) - n /\ \A i \in 1 .. Len(t) - n : Keep(t, n)[i] = t[i]
  BY <1>1, KeepIs
<1>3. /\ Len(TopOf(s, n)) = n /\ \A i \in 1 .. n : TopOf(s, n)[i] = s[Len(s) - n + i]
      /\ Len(TopOf(t, n)) = n /\ \A i \in 1 .. n : TopOf(t, n)[i] = t[Len(t) - n + i]
  BY <1>1, TopIs
<1>4. ASSUME NEW i \in 1 .. Len(s) - n PROVE ValueOf(Keep(s, n)[i], r) = Keep(t, n)[i].n
  <2>1. i \in 1 .. Len(s)
    BY <1>1
  <2> QED BY <1>1, <1>2, <2>1
<1>5. ASSUME NEW i \in 1 .. n PROVE ValueOf(TopOf(s, n)[i], r) = TopOf(t, n)[i].n
  <2>1. Len(s) - n + i \in 1 .. Len(s)
    BY <1>1
  <2> QED BY <1>1, <1>3, <2>1
<1>6. Alike(Keep(s, n), Keep(t, n), r)
  BY <1>1, <1>2, <1>4 DEF Alike
<1>7. Alike(TopOf(s, n), TopOf(t, n), r)
  BY <1>3, <1>5 DEF Alike
<1> QED BY <1>6, <1>7

LEMMA AlikeReverse ==
  ASSUME NEW S, NEW T, NEW s \in Seq(S), NEW t \in Seq(T), NEW r, Alike(s, t, r)
  PROVE  Alike(Reverse(s), Reverse(t), r)
<1>1. Len(s) = Len(t) /\ Len(s) \in Nat /\ \A i \in 1 .. Len(s) : ValueOf(s[i], r) = t[i].n
  BY DEF Alike
<1>2. /\ Len(Reverse(s)) = Len(s) /\ \A i \in 1 .. Len(s) : Reverse(s)[i] = s[Len(s) - i + 1]
      /\ Len(Reverse(t)) = Len(t) /\ \A i \in 1 .. Len(t) : Reverse(t)[i] = t[Len(t) - i + 1]
  BY ReverseIs
<1>3. ASSUME NEW i \in 1 .. Len(s) PROVE ValueOf(Reverse(s)[i], r) = Reverse(t)[i].n
  <2>1. Len(s) - i + 1 \in 1 .. Len(s)
    BY <1>1
  <2> QED BY <1>1, <1>2, <2>1
<1> QED BY <1>1, <1>2, <1>3 DEF Alike

LEMMA AlikeAppend ==
  ASSUME NEW S, NEW T, NEW s \in Seq(S), NEW t \in Seq(T), NEW r, Alike(s, t, r),
         NEW v \in S, NEW w \in T, ValueOf(v, r) = w.n
  PROVE  Alike(Append(s, v), Append(t, w), r)
<1>1. Len(s) = Len(t) /\ Len(s) \in Nat /\ \A i \in 1 .. Len(s) : ValueOf(s[i], r) = t[i].n
  BY DEF Alike
<1>2. /\ Len(Append(s, v)) = Len(s) + 1 /\ Append(s, v)[Len(s) + 1] = v /\ \A i \in 1 .. Len(s) : Append(s, v)[i] = s[i]
      /\ Len(Append(t, w)) = Len(t) + 1 /\ Append(t, w)[Len(t) + 1] = w /\ \A i \in 1 .. Len(t) : Append(t, w)[i] = t[i]
  BY AppendProperties
<1>3. ASSUME NEW i \in 1 .. Len(s) + 1 PROVE ValueOf(Append(s, v)[i], r) = Append(t, w)[i].n
  <2>1. CASE i = Len(s) + 1
    BY <1>1, <1>2, <2>1
  <2>2. CASE i # Len(s) + 1
    <3>1. i \in 1 .. Len(s)
      BY <1>1, <2>2
    <3> QED BY <1>1, <1>2, <3>1
  <2> QED BY <2>1, <2>2
<1> QED BY <1>1, <1>2, <1>3 DEF Alike

LEMMA AlikeConcat ==
  ASSUME NEW S, NEW T, NEW s \in Seq(S), NEW t \in Seq(T), NEW r, Alike(s, t, r),
         NEW p \in Seq(S), NEW q \in Seq(T), Alike(p, q, r)
  PROVE  Alike(s \o p, t \o q, r)
<1>1. Len(s) = Len(t) /\ Len(s) \in Nat /\ \A i \in 1 .. Len(s) : ValueOf(s[i], r) = t[i].n
  BY DEF Alike
<1>2. Len(p) = Len(q) /\ Len(p) \in Nat /\ \A i \in 1 .. Len(p) : ValueOf(p[i], r) = q[i].n
  BY DEF Alike
<1>3. Len(s \o p) = Len(s) + Len(p) /\ Len(t \o q) = Len(t) + Len(q)
  BY ConcatProperties
<1>4. ASSUME NEW i \in 1 .. Len(s) + Len(p) PROVE ValueOf((s \o p)[i], r) = (t \o q)[i].n
  <2>1. CASE i <= Len(s)
    <3>1. (s \o p)[i] = s[i] /\ (t \o q)[i] = t[i] /\ i \in 1 .. Len(s)
      BY <1>1, <1>2, <2>1, ConcatProperties
    <3> QED BY <1>1, <3>1
  <2>2. CASE i > Len(s)
    <3>1. (s \o p)[i] = p[i - Len(s)] /\ (t \o q)[i] = q[i - Len(s)] /\ i - Len(s) \in 1 .. Len(p)
      BY <1>1, <1>2, <2>2, ConcatProperties
    <3> QED BY <1>2, <3>1
  <2>3. i <= Len(s) \/ i > Len(s)
    BY <1>1, <1>2
  <2> QED BY <2>1, <2>2, <2>3
<1> QED BY <1>1, <1>2, <1>3, <1>4 DEF Alike

LEMMA AlikeCut ==
  ASSUME NEW S, NEW T, NEW s \in Seq(S), NEW t \in Seq(T), NEW r, Alike(s, t, r), NEW n \in 0 .. Len(s)
  PROVE  Alike(SubSeq(s, 1, n), SubSeq(t, 1, n), r)
<1>1. Len(s) = Len(t) /\ Len(s) \in Nat /\ \A i \in 1 .. Len(s) : ValueOf(s[i], r) = t[i].n
  BY DEF Alike
<1>2. /\ Len(SubSeq(s, 1, n)) = n /\ \A i \in 1 .. n : SubSeq(s, 1, n)[i] = s[i]
      /\ Len(SubSeq(t, 1, n)) = n /\ \A i \in 1 .. n : SubSeq(t, 1, n)[i] = t[i]
  BY <1>1, SubSeqProperties
<1> QED BY <1>1, <1>2 DEF Alike

LEMMA AlikeFront ==
  ASSUME NEW S, NEW T, NEW s \in Seq(S), NEW t \in Seq(T), NEW r, Alike(s, t, r), s # <<>>
  PROVE  Alike(Front(s), Front(t), r) /\ ValueOf(Last(s), r) = Last(t).n /\ t # <<>>
<1>1. Len(s) = Len(t) /\ Len(s) \in Nat /\ Len(s) >= 1 /\ \A i \in 1 .. Len(s) : ValueOf(s[i], r) = t[i].n
  BY DEF Alike
<1>2. Front(s) = Keep(s, 1) /\ Front(t) = Keep(t, 1)
  BY DEF Front, Keep
<1>3. Alike(Keep(s, 1), Keep(t, 1), r)
  BY <1>1, AlikeKeep
<1>4. Last(s) = s[Len(s)] /\ Last(t) = t[Len(t)] /\ Len(s) \in 1 .. Len(s)
  BY <1>1 DEF Last
<1>5. t # <<>>
  BY <1>1
<1> QED BY <1>1, <1>2, <1>3, <1>4, <1>5

\* What the lemmas on transfers suppose of both contexts.
Pair(S, y, x, r) ==
  Cells(S) /\ Readable(S, r) /\ Fit(y, S) /\ Fit(x, Consts) /\ AgreesWith(y, x, r)

LEMMA PairParts ==
  ASSUME program \in Programs, NEW S, NEW y, NEW x, NEW r, Pair(S, y, x, r)
  PROVE  /\ Cells(S) /\ Cells(Consts) /\ Readable(S, r) /\ Fit(y, S) /\ Fit(x, Consts)
         /\ y.pc = x.pc /\ y.conts = x.conts /\ Alike(y.a, x.a, r) /\ Alike(y.c, x.c, r)
         /\ y.a \in Seq(S) /\ y.c \in Seq(S) /\ x.a \in Seq(Consts) /\ x.c \in Seq(Consts)
         /\ Len(y.a) = Len(x.a) /\ Len(y.c) = Len(x.c) /\ Len(x.a) \in Nat /\ Len(x.c) \in Nat
         /\ Taken(y) = Taken(x)
<1>1. Cells(S) /\ Cells(Consts) /\ Readable(S, r) /\ Fit(y, S) /\ Fit(x, Consts) /\ AgreesWith(y, x, r)
  BY ConstsAreCells DEF Pair
<1>2. y.a \in Seq(S) /\ y.c \in Seq(S) /\ x.a \in Seq(Consts) /\ x.c \in Seq(Consts)
      /\ Len(x.a) \in Nat /\ Len(x.c) \in Nat
  BY <1>1, FitParts
<1> QED BY <1>1, <1>2 DEF AgreesWith, Alike, Taken

LEMMA StraightAgrees ==
  ASSUME program \in Programs, NEW S, NEW y, NEW x, NEW r, Pair(S, y, x, r),
         At(y.pc).op \in {"push", "get", "inc", "drop"}
  PROVE  AgreesWith(Straight(y), Straight(x), r)
<1> DEFINE i == At(x.pc)
<1>1. /\ Cells(S) /\ Cells(Consts) /\ Readable(S, r) /\ Fit(y, S) /\ Fit(x, Consts)
      /\ y.pc = x.pc /\ y.conts = x.conts /\ Alike(y.a, x.a, r) /\ Alike(y.c, x.c, r)
      /\ y.a \in Seq(S) /\ y.c \in Seq(S) /\ x.a \in Seq(Consts) /\ x.c \in Seq(Consts)
      /\ Len(y.c) = Len(x.c)
  BY PairParts
<1>2. /\ Straight(y).pc = After(x.pc) /\ Straight(y).c = y.c /\ Straight(y).conts = y.conts
      /\ i.op = "push" => Straight(y).a = Append(y.a, Const(i.arg))
      /\ i.op = "get"  => /\ Straight(y).a = Append(y.a, y.c[Len(x.c) - i.arg])
                          /\ Len(x.c) - i.arg \in 1 .. Len(x.c)
      /\ i.op = "inc"  => Straight(y).a = Append(Front(y.a), Folded(Last(y.a))) /\ y.a # <<>>
      /\ i.op = "drop" => Straight(y).a = Front(y.a) /\ y.a # <<>>
  BY <1>1, StraightFits
<1>3. /\ Straight(x).pc = After(x.pc) /\ Straight(x).c = x.c /\ Straight(x).conts = x.conts
      /\ i.op = "push" => Straight(x).a = Append(x.a, Const(i.arg))
      /\ i.op = "get"  => Straight(x).a = Append(x.a, x.c[Len(x.c) - i.arg])
      /\ i.op = "inc"  => Straight(x).a = Append(Front(x.a), Folded(Last(x.a))) /\ x.a # <<>>
      /\ i.op = "drop" => Straight(x).a = Front(x.a)
  BY <1>1, StraightFits
<1>4. i.op \in {"push", "get", "inc", "drop"} /\ Verified(x.pc)
  BY <1>1, FitParts
<1> HIDE DEF i
<1> SUFFICES Alike(Straight(y).a, Straight(x).a, r)
  BY <1>1, <1>2, <1>3 DEF AgreesWith
<1>5. CASE i.op = "push"
  <2>1. PICK k \in Num : k = i.arg
    BY <1>4, <1>5 DEF Verified, i, Num
  <2>2. PICK v \in Consts : v = Const(k) /\ v = Const(i.arg) /\ v.n = k /\ ValueOf(v, r) = k
    <3>1. PICK v : v = Const(k)
      OBVIOUS
    <3>2. v \in Consts /\ v = Const(i.arg) /\ v.n = k /\ v.base = "const"
      BY <2>1, <3>1 DEF Consts, Const
    <3>3. ValueOf(v, r) = v.n
      BY <3>2 DEF ValueOf
    <3> QED BY <3>1, <3>2, <3>3
  <2>3. v \in S
    BY <1>1, <2>2 DEF Cells
  <2>4. Alike(Append(y.a, v), Append(x.a, v), r)
    BY <1>1, <2>2, <2>3, AlikeAppend
  <2> QED BY <1>2, <1>3, <1>5, <2>2, <2>4
<1>6. CASE i.op = "get"
  <2>1. PICK k \in 1 .. Len(x.c) : k = Len(x.c) - i.arg
    BY <1>2, <1>6
  <2>2. y.c[k] \in S /\ x.c[k] \in Consts
    BY <1>1, <2>1, ElementOfSeq
  <2>3. ValueOf(y.c[k], r) = x.c[k].n
    BY <1>1, <2>1 DEF Alike
  <2>4. PICK v \in S, w \in Consts : v = y.c[k] /\ w = x.c[k] /\ ValueOf(v, r) = w.n
    BY <2>2, <2>3
  <2>5. Alike(Append(y.a, v), Append(x.a, w), r)
    BY <1>1, <2>4, AlikeAppend
  <2> QED BY <1>2, <1>3, <1>6, <2>1, <2>4, <2>5
<1>7. CASE i.op = "inc"
  <2>1. Alike(Front(y.a), Front(x.a), r) /\ ValueOf(Last(y.a), r) = Last(x.a).n /\ y.a # <<>> /\ x.a # <<>>
    BY <1>1, <1>2, <1>7, AlikeFront
  <2>2. Front(y.a) \in Seq(S) /\ Front(x.a) \in Seq(Consts) /\ Last(y.a) \in S /\ Last(x.a) \in Consts
    BY <1>1, <2>1, FrontIs
  <2>3. PICK v \in S, w \in Consts : v = Folded(Last(y.a)) /\ w = Folded(Last(x.a)) 
    BY <1>1, <2>2 DEF Cells
  <2>4. ValueOf(v, r) = (ValueOf(Last(y.a), r) + 1) % Width
    BY <1>1, <2>2, <2>3, ValueIsNum
  <2>5. w.n = (Last(x.a).n + 1) % Width
    BY <2>2, <2>3, ConstIs
  <2>6. ValueOf(v, r) = w.n
    BY <2>1, <2>4, <2>5
  <2>7. PICK s \in Seq(S), t \in Seq(Consts) : s = Front(y.a) /\ t = Front(x.a)
    BY <2>2
  <2>8. Alike(Append(s, v), Append(t, w), r)
    BY <2>1, <2>6, <2>7, AlikeAppend
  <2> QED BY <1>2, <1>3, <1>7, <2>3, <2>7, <2>8
<1>8. CASE i.op = "drop"
  <2>1. Alike(Front(y.a), Front(x.a), r)
    BY <1>1, <1>2, <1>8, AlikeFront
  <2> QED BY <1>2, <1>3, <1>8, <2>1
<1> QED BY <1>4, <1>5, <1>6, <1>7, <1>8

LEMMA BranchedAgrees ==
  ASSUME program \in Programs, NEW S, NEW y, NEW x, NEW r, Pair(S, y, x, r), At(y.pc).op = "branch",
         NEW pc, pc = After(y.pc) \/ pc = Taken(y)
  PROVE  /\ AgreesWith(Branched(y, pc), Branched(x, pc), r)
         /\ ValueOf(Last(y.a), r) = Last(x.a).n
         /\ IsConst(Last(y.a)) => Last(y.a).n = Last(x.a).n
<1>1. /\ Cells(S) /\ Cells(Consts) /\ Readable(S, r) /\ Fit(y, S) /\ Fit(x, Consts)
      /\ y.pc = x.pc /\ y.conts = x.conts /\ Alike(y.a, x.a, r) /\ Alike(y.c, x.c, r)
      /\ y.a \in Seq(S) /\ y.c \in Seq(S) /\ x.a \in Seq(Consts) /\ x.c \in Seq(Consts)
      /\ Taken(y) = Taken(x)
  BY PairParts
<1>0. At(x.pc).op = "branch" /\ (pc = After(x.pc) \/ pc = Taken(x))
  BY <1>1
<1>2. /\ Branched(y, pc).pc = pc /\ Branched(y, pc).a = Front(y.a) /\ Branched(y, pc).c = y.c
      /\ Branched(y, pc).conts = y.conts /\ y.a # <<>>
  <2>1. Fit(y, S) /\ At(y.pc).op = "branch" /\ (pc = After(y.pc) \/ pc = Taken(y))
    BY <1>1
  <2> QED BY <2>1, BranchedFits
<1>3. /\ Branched(x, pc).pc = pc /\ Branched(x, pc).a = Front(x.a) /\ Branched(x, pc).c = x.c
      /\ Branched(x, pc).conts = x.conts
  BY <1>0, <1>1, BranchedFits
<1>4. Alike(Front(y.a), Front(x.a), r) /\ ValueOf(Last(y.a), r) = Last(x.a).n
  BY <1>1, <1>2, AlikeFront
<1>5. Last(y.a) \in S
  BY <1>1, <1>2, FrontIs
<1>6. IsConst(Last(y.a)) => ValueOf(Last(y.a), r) = Last(y.a).n
  BY <1>1, <1>5, ValueIsNum
<1> QED BY <1>1, <1>2, <1>3, <1>4, <1>6 DEF AgreesWith

LEMMA PassedAgree ==
  ASSUME program \in Programs, NEW S, NEW y, NEW x, NEW r, Pair(S, y, x, r), At(y.pc).op \in {"call", "tail"}
  PROVE  LET f == At(x.pc).arg
         IN  /\ f \in Functions /\ Arity(f) \in Nat /\ Arity(f) <= Len(x.a)
             /\ Alike(Keep(y.a, Arity(f)), Keep(x.a, Arity(f)), r)
             /\ Alike(TopOf(y.a, Arity(f)), TopOf(x.a, Arity(f)), r)
             /\ Alike(Passed(y, f), Passed(x, f), r)
             /\ Passed(y, f) \in Seq(S) /\ Passed(x, f) \in Seq(Consts)
             /\ Keep(y.a, Arity(f)) \in Seq(S) /\ Keep(x.a, Arity(f)) \in Seq(Consts)
<1> DEFINE f == At(x.pc).arg
<1>1. /\ Fit(y, S) /\ Fit(x, Consts) /\ y.pc = x.pc /\ Alike(y.a, x.a, r)
      /\ y.a \in Seq(S) /\ x.a \in Seq(Consts) /\ Len(y.a) = Len(x.a)
  BY PairParts
<1>2. /\ f \in Functions /\ Arity(f) \in Nat /\ Arity(f) <= Len(x.a)
      /\ Passed(x, f) \in Seq(Consts) /\ TopOf(x.a, Arity(f)) \in Seq(Consts) /\ Keep(x.a, Arity(f)) \in Seq(Consts)
  BY <1>1, PassedIs
<1>3. Passed(y, f) \in Seq(S) /\ TopOf(y.a, Arity(f)) \in Seq(S) /\ Keep(y.a, Arity(f)) \in Seq(S)
  BY <1>1, PassedIs
<1> HIDE DEF f
<1>4. Alike(Keep(y.a, Arity(f)), Keep(x.a, Arity(f)), r) /\ Alike(TopOf(y.a, Arity(f)), TopOf(x.a, Arity(f)), r)
  BY <1>1, <1>2, AlikeKeep
<1>5. PICK s \in Seq(S), t \in Seq(Consts) : s = TopOf(y.a, Arity(f)) /\ t = TopOf(x.a, Arity(f))
  BY <1>2, <1>3
<1>6. Alike(Reverse(s), Reverse(t), r)
  BY <1>4, <1>5, AlikeReverse
<1>7. Alike(Passed(y, f), Passed(x, f), r)
  BY <1>5, <1>6 DEF Passed
<1> QED BY <1>2, <1>3, <1>4, <1>7 DEF f

LEMMA CalledAgrees ==
  ASSUME program \in Programs, NEW S, NEW y, NEW x, NEW r, Pair(S, y, x, r), At(y.pc).op = "call"
  PROVE  AgreesWith(Called(y, At(x.pc).arg), Called(x, At(x.pc).arg), r)
<1> DEFINE f == At(x.pc).arg
<1>1. /\ Fit(y, S) /\ Fit(x, Consts) /\ y.pc = x.pc /\ y.conts = x.conts
      /\ Alike(y.c, x.c, r) /\ y.c \in Seq(S) /\ x.c \in Seq(Consts)
      /\ Len(y.a) = Len(x.a) /\ Len(y.c) = Len(x.c)
  BY PairParts
<1>2. /\ Alike(Keep(y.a, Arity(f)), Keep(x.a, Arity(f)), r) /\ Alike(Passed(y, f), Passed(x, f), r)
      /\ Passed(y, f) \in Seq(S) /\ Passed(x, f) \in Seq(Consts)
  BY PassedAgree, <1>1
<1>3. Alike(y.c \o Passed(y, f), x.c \o Passed(x, f), r)
  BY <1>1, <1>2, AlikeConcat
<1>4. /\ Called(x, f).pc = Entry(f) /\ Called(x, f).a = Keep(x.a, Arity(f)) /\ Called(x, f).c = x.c \o Passed(x, f)
      /\ Called(x, f).conts = Append(x.conts, [pc |-> After(x.pc), a |-> Len(x.a) - Arity(f), c |-> Len(x.c)])
  BY <1>1, CalledFits
<1>5. /\ Called(y, f).pc = Entry(f) /\ Called(y, f).a = Keep(y.a, Arity(f)) /\ Called(y, f).c = y.c \o Passed(y, f)
      /\ Called(y, f).conts = Append(y.conts, [pc |-> After(y.pc), a |-> Len(y.a) - Arity(f), c |-> Len(y.c)])
  <2>1. PICK p : p = y.pc
    OBVIOUS
  <2>2. f = At(p).arg /\ At(p).op = "call" /\ Fit(y, S) /\ p = y.pc
    BY <1>1, <2>1
  <2> HIDE DEF f
  <2> QED BY <2>2, CalledFits
<1> QED BY <1>1, <1>2, <1>3, <1>4, <1>5 DEF AgreesWith, f

LEMMA TailedAgrees ==
  ASSUME program \in Programs, NEW S, NEW y, NEW x, NEW r, Pair(S, y, x, r), At(y.pc).op = "tail"
  PROVE  AgreesWith(Tailed(y, At(x.pc).arg), Tailed(x, At(x.pc).arg), r)
<1> DEFINE f == At(x.pc).arg
           n == Arity(x.pc[1])
<1>1. /\ Fit(y, S) /\ Fit(x, Consts) /\ y.pc = x.pc /\ y.conts = x.conts
      /\ Alike(y.c, x.c, r) /\ y.c \in Seq(S) /\ x.c \in Seq(Consts) /\ Len(y.c) = Len(x.c)
  BY PairParts
<1>2. /\ Alike(Keep(y.a, Arity(f)), Keep(x.a, Arity(f)), r) /\ Alike(Passed(y, f), Passed(x, f), r)
      /\ Passed(y, f) \in Seq(S) /\ Passed(x, f) \in Seq(Consts)
  BY PassedAgree, <1>1
<1>3. /\ Tailed(x, f).pc = Entry(f) /\ Tailed(x, f).a = Keep(x.a, Arity(f)) /\ Tailed(x, f).conts = x.conts
      /\ Tailed(x, f).c = Keep(x.c, n) \o Passed(x, f) /\ n <= Len(x.c) /\ n \in Nat
  BY <1>1, TailedFits
<1>4. /\ Tailed(y, f).pc = Entry(f) /\ Tailed(y, f).a = Keep(y.a, Arity(f)) /\ Tailed(y, f).conts = y.conts
      /\ Tailed(y, f).c = Keep(y.c, n) \o Passed(y, f)
  BY <1>1, TailedFits
<1> HIDE DEF n, f
<1>5. Alike(Keep(y.c, n), Keep(x.c, n), r) /\ Keep(y.c, n) \in Seq(S) /\ Keep(x.c, n) \in Seq(Consts)
  BY <1>1, <1>3, AlikeKeep, KeepIs
<1>6. Alike(Keep(y.c, n) \o Passed(y, f), Keep(x.c, n) \o Passed(x, f), r)
  BY <1>2, <1>5, AlikeConcat
<1> QED BY <1>1, <1>2, <1>3, <1>4, <1>6 DEF AgreesWith, f

LEMMA ReturnedAgrees ==
  ASSUME program \in Programs, NEW S, NEW y, NEW x, NEW r, Pair(S, y, x, r), At(y.pc).op = "ret", y.conts # <<>>
  PROVE  AgreesWith(Returned(y), Returned(x), r)
<1>1. /\ Fit(y, S) /\ Fit(x, Consts) /\ y.pc = x.pc /\ y.conts = x.conts /\ Alike(y.a, x.a, r)
      /\ Alike(y.c, x.c, r) /\ y.c \in Seq(S) /\ x.c \in Seq(Consts) /\ Len(y.c) = Len(x.c)
  BY PairParts
<1>2. /\ Returned(x).pc = Last(x.conts).pc /\ Returned(x).a = x.a /\ Returned(x).conts = Front(x.conts)
      /\ Returned(x).c = SubSeq(x.c, 1, Last(x.conts).c)
  BY <1>1, ReturnedFits
<1>3. /\ Returned(y).pc = Last(x.conts).pc /\ Returned(y).a = y.a /\ Returned(y).conts = Front(x.conts)
      /\ Returned(y).c = SubSeq(y.c, 1, Last(x.conts).c) /\ Last(x.conts).c \in 0 .. Len(y.c)
  <2>1. PICK k : k = x.conts
    OBVIOUS
  <2>2. y.conts = k /\ k # <<>> /\ Fit(y, S) /\ At(y.pc).op = "ret"
    BY <1>1, <2>1
  <2>3. /\ Returned(y).pc = Last(y.conts).pc /\ Returned(y).a = y.a /\ Returned(y).conts = Front(y.conts)
        /\ Returned(y).c = SubSeq(y.c, 1, Last(y.conts).c) /\ Last(y.conts).c \in 0 .. Len(y.c)
    BY <2>2, ReturnedFits
  <2> QED BY <2>1, <2>2, <2>3
<1>4. Alike(SubSeq(y.c, 1, Last(x.conts).c), SubSeq(x.c, 1, Last(x.conts).c), r)
  BY <1>1, <1>3, AlikeCut
<1> QED BY <1>1, <1>2, <1>3, <1>4 DEF AgreesWith

\* The value of a call is given to its node at the same time.
LEMMA AnsweredAgrees ==
  ASSUME program \in Programs, NEW S, NEW y, NEW x, NEW r, Pair(S, y, x, r), At(y.pc).op = "call",
         NEW v \in S, NEW w \in Consts, ValueOf(v, r) = w.n
  PROVE  AgreesWith(Answered(y, At(x.pc).arg, v), Answered(x, At(x.pc).arg, w), r)
<1> DEFINE f == At(x.pc).arg
<1>1. /\ Fit(y, S) /\ Fit(x, Consts) /\ y.pc = x.pc /\ y.conts = x.conts /\ Alike(y.c, x.c, r)
  BY PairParts
<1>2. /\ Alike(Keep(y.a, Arity(f)), Keep(x.a, Arity(f)), r)
      /\ Keep(y.a, Arity(f)) \in Seq(S) /\ Keep(x.a, Arity(f)) \in Seq(Consts)
  BY PassedAgree, <1>1
<1>3. Alike(Append(Keep(y.a, Arity(f)), v), Append(Keep(x.a, Arity(f)), w), r)
  BY <1>2, AlikeAppend
<1>4. /\ Answered(x, f, w).pc = After(x.pc) /\ Answered(x, f, w).a = Append(Keep(x.a, Arity(f)), w)
      /\ Answered(x, f, w).c = x.c /\ Answered(x, f, w).conts = x.conts
  BY <1>1, AnsweredFits
<1>5. /\ Answered(y, f, v).pc = After(x.pc) /\ Answered(y, f, v).a = Append(Keep(y.a, Arity(f)), v)
      /\ Answered(y, f, v).c = y.c /\ Answered(y, f, v).conts = y.conts
  BY <1>1, AnsweredFits
<1> QED BY <1>1, <1>3, <1>4, <1>5 DEF AgreesWith

\* Values that are the same for q agree for q.
LEMMA AgreesStill ==
  ASSUME program \in Programs, NEW S, NEW y, NEW x, NEW r, NEW q, y \in Contexts(S), AgreesWith(y, x, r),
         \A v \in S : ValueOf(v, q) = ValueOf(v, r)
  PROVE  AgreesWith(y, x, q)
<1>1. y.a \in Seq(S) /\ y.c \in Seq(S)
  BY ContextParts
<1>2. ASSUME NEW s \in Seq(S), NEW t, Alike(s, t, r) PROVE Alike(s, t, q)
  <2>1. Len(s) = Len(t) /\ \A i \in 1 .. Len(s) : ValueOf(s[i], r) = t[i].n
    BY <1>2 DEF Alike
  <2>2. \A i \in 1 .. Len(s) : s[i] \in S
    BY ElementOfSeq
  <2> QED BY <2>1, <2>2 DEF Alike
<1> QED BY <1>1, <1>2 DEF AgreesWith

-----------------------------------------------------------------------------
(* What is inlined into f is called by f and does not call f.                *)

Within(f, g) == g = f \/ g \in Reached(f)
Apart(f, g)  == g # f /\ f \notin Reached(g)

Inside(x, f) ==
  /\ Within(f, x.pc[1]) /\ (x.conts # <<>> => Apart(f, x.pc[1]))
  /\ \A k \in 1 .. Len(x.conts) :
       Within(f, x.conts[k].pc[1]) /\ (k > 1 => Apart(f, x.conts[k].pc[1]))

LEMMA InsideMoves ==
  ASSUME NEW x, NEW y, NEW f, Inside(x, f), y.pc[1] = x.pc[1], y.conts = x.conts
  PROVE  Inside(y, f)
BY DEF Inside

LEMMA CallIsReached ==
  ASSUME program \in Programs, NEW S, NEW x, Fit(x, S), NEW f \in Functions, Inside(x, f), At(x.pc).op \in {"call", "tail"}
  PROVE  LET g == At(x.pc).arg
         IN  /\ g \in Reached(f) /\ g \in Functions /\ Within(f, g)
             /\ g \in Reached(x.pc[1]) /\ Reached(g) \subseteq Reached(x.pc[1])
<1>1. x.pc[1] \in Functions /\ At(x.pc).arg \in Callees(x.pc[1])
  BY FitParts, PassedIs
<1>2. At(x.pc).arg \in Reached(x.pc[1])
  BY <1>1, ReachedClosed
<1>3. x.pc[1] = f \/ x.pc[1] \in Reached(f)
  BY DEF Inside, Within
<1>4. At(x.pc).arg \in Reached(f)
  BY <1>1, <1>2, <1>3, ReachedTransitive
<1> QED BY <1>1, <1>2, <1>4, ReachedTransitive DEF Within

\* A call of f from what was made for f is recursive, and a tail call of f is
\* one of f itself.
LEMMA RootCalls ==
  ASSUME program \in Programs, NEW S, NEW x, Fit(x, S), NEW f \in Functions, Inside(x, f),
         At(x.pc).op \in {"call", "tail"}, At(x.pc).arg = f
  PROVE  Recursive(f) /\ (At(x.pc).op = "tail" => x.conts = <<>>)
<1>1. f \in Reached(f) /\ f \in Reached(x.pc[1])
  BY CallIsReached
<1>2. x.conts = <<>>
  BY <1>1 DEF Inside, Apart
<1> QED BY <1>1, <1>2 DEF Recursive

LEMMA InlinedIsApart ==
  ASSUME program \in Programs, NEW f \in Functions, NEW g \in Reached(f), (g # f /\ Eligible(g)) \/ ~Recursive(g)
  PROVE  Apart(f, g)
<1>1. g \in Functions
  BY ReachedTransitive
<1>2. CASE g # f /\ Eligible(g)
  <2>1. Component(g) = {g}
    BY <1>2 DEF Eligible
  <2>2. ASSUME f \in Reached(g) PROVE FALSE
    <3>1. f \in Component(g)
      BY <2>2 DEF Component
    <3> QED BY <1>2, <2>1, <3>1
  <2> QED BY <1>2, <2>2 DEF Apart
<1>3. CASE ~Recursive(g)
  <2>1. ASSUME f \in Reached(g) PROVE FALSE
    <3>1. g \in Reached(g)
      BY <1>1, <2>1, ReachedTransitive
    <3> QED BY <1>3, <3>1 DEF Recursive
  <2>2. g # f
    BY <1>3 DEF Recursive
  <2> QED BY <2>1, <2>2 DEF Apart
<1> QED BY <1>2, <1>3

LEMMA InsideCalled ==
  ASSUME program \in Programs, NEW S, NEW x, Fit(x, S), NEW f \in Functions, Inside(x, f), At(x.pc).op = "call",
         Apart(f, At(x.pc).arg)
  PROVE  Inside(Called(x, At(x.pc).arg), f)
<1> DEFINE g == At(x.pc).arg
           y == Called(x, g)
           e == [pc |-> After(x.pc), a |-> Len(x.a) - Arity(g), c |-> Len(x.c)]
<1>1. y.pc = Entry(g) /\ y.conts = Append(x.conts, e)
  BY DEF Called
<1>2. x.conts \in Seq(Cont) /\ Len(x.conts) \in Nat /\ x.pc \in Nat \X Nat
  BY FitParts
<1>3. e.pc[1] = x.pc[1]
  BY <1>2, AfterIs
<1>4. Within(f, g)
  BY CallIsReached
<1> HIDE DEF g, y, e
<1>5. Len(y.conts) = Len(x.conts) + 1 /\ y.conts[Len(x.conts) + 1] = e /\ \A k \in 1 .. Len(x.conts) : y.conts[k] = x.conts[k]
  BY <1>1, <1>2
<1>6. ASSUME NEW k \in 1 .. Len(y.conts)
      PROVE  Within(f, y.conts[k].pc[1]) /\ (k > 1 => Apart(f, y.conts[k].pc[1]))
  <2>1. CASE k = Len(x.conts) + 1
    <3>1. y.conts[k].pc[1] = x.pc[1] /\ (k > 1 => x.conts # <<>>)
      BY <1>2, <1>3, <1>5, <2>1
    <3> QED BY <3>1 DEF Inside
  <2>2. CASE k # Len(x.conts) + 1
    <3>1. k \in 1 .. Len(x.conts) /\ y.conts[k] = x.conts[k]
      BY <1>2, <1>5, <2>2
    <3> QED BY <3>1 DEF Inside
  <2> QED BY <2>1, <2>2
<1>7. y.pc[1] = g
  BY <1>1 DEF Entry
<1> QED BY <1>4, <1>6, <1>7 DEF Inside, y, g

LEMMA InsideTailed ==
  ASSUME program \in Programs, NEW S, NEW x, Fit(x, S), NEW f \in Functions, Inside(x, f), At(x.pc).op = "tail"
  PROVE  Inside(Tailed(x, At(x.pc).arg), f)
<1> DEFINE g == At(x.pc).arg
           y == Tailed(x, g)
<1>1. y.pc = Entry(g) /\ y.conts = x.conts
  BY TailedFits
<1>2. Within(f, g) /\ g \in Reached(x.pc[1]) /\ Reached(g) \subseteq Reached(x.pc[1])
  BY CallIsReached
<1> HIDE DEF g, y
<1>3. y.pc[1] = g
  BY <1>1 DEF Entry
<1>4. x.conts # <<>> => Apart(f, g)
  BY <1>2 DEF Inside, Apart
<1> QED BY <1>1, <1>2, <1>3, <1>4 DEF Inside, y, g

LEMMA InsideReturned ==
  ASSUME program \in Programs, NEW S, NEW x, Fit(x, S), NEW f \in Functions, Inside(x, f), At(x.pc).op = "ret",
         x.conts # <<>>
  PROVE  Inside(Returned(x), f)
<1> DEFINE y == Returned(x)
<1>1. x.conts \in Seq(Cont) /\ Len(x.conts) \in Nat /\ Len(x.conts) >= 1
  BY FitParts
<1>2. y.pc = x.conts[Len(x.conts)].pc /\ y.conts = Front(x.conts)
  BY ReturnedFits
<1> HIDE DEF y
<1>3. Len(y.conts) = Len(x.conts) - 1 /\ \A k \in 1 .. Len(x.conts) - 1 : y.conts[k] = x.conts[k]
  BY <1>1, <1>2, FrontIs
<1>4. ASSUME NEW k \in 1 .. Len(y.conts)
      PROVE  Within(f, y.conts[k].pc[1]) /\ (k > 1 => Apart(f, y.conts[k].pc[1]))
  <2>1. k \in 1 .. Len(x.conts) /\ y.conts[k] = x.conts[k]
    BY <1>1, <1>3
  <2> QED BY <2>1 DEF Inside
<1>5. Len(x.conts) \in 1 .. Len(x.conts) /\ (y.conts # <<>> => Len(x.conts) > 1)
  <2>1. y.conts \in Seq(Cont)
    BY <1>1, <1>2, FrontIs
  <2> QED BY <1>1, <1>3, <2>1
<1> QED BY <1>2, <1>4, <1>5 DEF Inside, y

-----------------------------------------------------------------------------
(* The graph of nodes s with the loop l, made for f.                         *)

\* Cells of a node that has n nodes before it, when the cells hs have homes.
Operands(f, hs, n) ==
  Consts \cup [base : {"input"}, n : 1 .. Arity(f), plus : Nat]
         \cup [base : {"home"}, n : hs, plus : Nat]
         \cup [base : {"result"}, n : 1 .. n, plus : Nat]
Homes(l) == IF l.stable THEN l.homes ELSE {}

Kinds == {"step", "fork", "call", "tail", "return", "again", "loop"}
Facts == {Unknown} \cup Num
Nodes == [x : Contexts(Value), does : Kinds, next : Nat, taken : Nat]
Arms  == [x : Contexts(Value), at : Nat]
Loops == [target : Nat, captured : BOOLEAN, stable : BOOLEAN, initial : Seq(Value), header : Seq(Value),
          homes : SUBSET Nat, at : Nat, from : Nat, path : Nat, conts : Seq(Cont)]
Claims == [to : Nat, facts : Seq(Facts)]
Jobs == [f : Nat, x : Contexts(Value), nodes : Seq(Nodes), arms : Seq(Arms), paths : Nat, loop : Loops,
         calls : SUBSET Claims, astray : BOOLEAN, state : {"walking", "walked", "failed"}]

\* What a call with the cells s on top of A passes to f.
Claim(f, s) == [to |-> f, facts |-> [i \in 1 .. Arity(f) |-> Fact(s[i])]]
Passing(x)  == Claim(At(x.pc).arg, TopOf(x.a, Arity(At(x.pc).arg)))

\* No path has come through the loop before it is stable.
Early(n, i, l, f)   == (l.stable => i < l.at) => ~n.x.looped /\ Fit(n.x, Operands(f, {}, i - 1))
NodeFit(n, i, l, f) == Fit(n.x, Operands(f, Homes(l), i - 1)) /\ Inside(n.x, f) /\ Early(n, i, l, f)

\* A node does something that its instruction allows.
Doing(n, l, calls, astray, f) ==
  /\ n.does = "step" => /\ At(n.x.pc).op = "branch" => IsConst(Last(n.x.a))
                        /\ At(n.x.pc).op = "ret" => n.x.conts # <<>>
  /\ n.does = "fork" => At(n.x.pc).op = "branch"
  /\ n.does = "call" => At(n.x.pc).op = "call" /\ Passing(n.x) \in calls
  /\ n.does = "tail" => At(n.x.pc).op = "tail" /\ Passing(n.x) \in calls /\ (~astray => n.x.conts = <<>>)
  /\ n.does = "return" => n.x.conts = <<>>
  /\ n.does = "again" => n.x.pc = Entry(f) /\ n.x.a = <<>> /\ n.x.conts = <<>> /\ Claim(f, Reverse(n.x.c)) \in calls
  /\ n.does = "loop" =>
       /\ l.stable /\ n.x.pc = Entry(l.target) /\ n.x.a = <<>> /\ Len(n.x.c) = Len(l.header)
       /\ \A d \in 1 .. Len(n.x.c) : d \notin l.homes => n.x.c[d] = l.header[d]
       /\ ~astray => n.x.conts = l.conts /\ n.x.looped

\* The contexts that a node leads to.
Out(n, i) ==
  LET here == At(n.x.pc)
  IN  CASE n.does = "fork" -> Branched(n.x, After(n.x.pc))
        [] n.does = "call" -> Answered(n.x, here.arg, Result(i))
        [] n.does = "step" ->
             CASE here.op \in {"push", "get", "inc", "drop"} -> Straight(n.x)
               [] here.op = "branch" -> Branched(n.x, IF Last(n.x.a).n # 0 THEN Taken(n.x) ELSE After(n.x.pc))
               [] here.op = "call"   -> Called(n.x, here.arg)
               [] here.op = "tail"   -> Tailed(n.x, here.arg)
               [] here.op = "ret"    -> Returned(n.x)
Other(x) == Branched(x, Taken(x))

\* Pointers lead forward and stay below top; a fork that is half done has an arm.
Points(n, i, arms, top) ==
  /\ n.does \in Leading => n.next \in i + 1 .. top
  /\ n.taken \in {0} \cup (i + 1 .. top)
  /\ n.does = "fork" /\ n.taken = 0 => \E k \in 1 .. Len(arms) : arms[k].at = i

\* The nodes of a trial are left out of the code.
Live(l, i) == ~(l.stable /\ l.from < i /\ i < l.at)
ArmFit(arm, s, l, astray) ==
  /\ arm.at \in 1 .. Len(s) /\ s[arm.at].does = "fork" /\ arm.x = Other(s[arm.at].x)
  /\ ~astray => Live(l, arm.at)

\* Nodes lead to what comes next; the way into the loop gives cells to homes.
Where(s, x, k) == IF k <= Len(s) THEN s[k].x ELSE x
Linked(s, l, x, i, k, y) ==
  /\ Live(l, k)
  /\ IF l.stable /\ k = l.at THEN i = l.from /\ y = [Where(s, x, k) EXCEPT !.c = l.initial, !.looped = FALSE]
     ELSE y = Where(s, x, k)
Leads(s, l, x, i) ==
  /\ s[i].does \in Leading => Linked(s, l, x, i, s[i].next, Out(s[i], i))
  /\ s[i].does = "fork" /\ s[i].taken # 0 => Linked(s, l, x, i, s[i].taken, Other(s[i].x))

Inlet(l) == [pc |-> Entry(l.target), a |-> <<>>, c |-> l.initial, conts |-> l.conts, looped |-> FALSE]
Head_(l) == [pc |-> Entry(l.target), a |-> <<>>, c |-> l.header, conts |-> l.conts, looped |-> TRUE]
LoopFit(l, s, f, x, top, astray) ==
  /\ l \in Loops /\ (l.stable => l.captured) /\ (~l.stable => l.at = 0)
  /\ l.captured => /\ l.target \in Functions /\ l.from \in 1 .. Len(s) /\ s[l.from].does = "step"
                   /\ l.initial \in Seq(Operands(f, {}, l.from))
  /\ l.stable => /\ l.at \in 1 .. top /\ l.homes \subseteq 1 .. Len(l.initial) /\ Len(l.header) = Len(l.initial)
                 /\ \A d \in 1 .. Len(l.header) : l.header[d] = IF d \in l.homes THEN LoopHome(d) ELSE l.initial[d]
                 /\ ~astray => l.from + 1 < l.at /\ Where(s, x, l.at) = Head_(l)

GraphFit(s, l, calls, astray, f, x, arms, top) ==
  /\ \A i \in 1 .. Len(s) : /\ NodeFit(s[i], i, l, f) /\ Doing(s[i], l, calls, astray, f) /\ Points(s[i], i, arms, top)
                            /\ ~astray /\ Live(l, i) => Leads(s, l, x, i)
  /\ \A k \in 1 .. Len(arms) : ArmFit(arms[k], s, l, astray)
  /\ LoopFit(l, s, f, x, top, astray)
  /\ Where(s, x, 1) = EntryContext(f)

LEMMA OperandsAreCells ==
  ASSUME NEW f, Arity(f) \in Nat, NEW hs \in SUBSET Nat, NEW n \in Nat
  PROVE  Cells(Operands(f, hs, n))
<1> DEFINE A == [base : {"input"}, n : 1 .. Arity(f), plus : Nat]
           B == [base : {"home"}, n : hs, plus : Nat]
           C == [base : {"result"}, n : 1 .. n, plus : Nat]
<1>1. Operands(f, hs, n) = Consts \cup A \cup B \cup C
  BY DEF Operands
<1>2. ASSUME NEW v \in A \cup B \cup C
      PROVE  v \in Value /\ Folded(v) \in A \cup B \cup C /\ v.base # "const"
  <2>1. v.base # "const"
    OBVIOUS
  <2>2. Folded(v) = [v EXCEPT !.plus = v.plus + 1]
    BY <2>1 DEF Folded, IsConst
  <2>3. CASE v \in A
    <3>1. v.plus + 1 \in Nat /\ v.n \in Nat
      BY <2>3
    <3> QED BY <2>1, <2>2, <2>3, <3>1 DEF Value
  <2>4. CASE v \in B
    <3>0. v.plus \in Nat /\ v.n \in hs /\ hs \subseteq Nat
      BY <2>4
    <3>2. v.n \in Nat
      BY <3>0
    <3>3. PICK p \in Nat : p = v.plus
      BY <3>0
    <3>1. v.plus + 1 \in Nat /\ v.n \in Nat
      BY <3>2, <3>3
    <3> QED BY <2>1, <2>2, <2>4, <3>1 DEF Value
  <2>5. CASE v \in C
    <3>1. v.plus + 1 \in Nat /\ v.n \in Nat
      BY <2>5
    <3> QED BY <2>1, <2>2, <2>5, <3>1 DEF Value
  <2> QED BY <2>3, <2>4, <2>5
<1> HIDE DEF A, B, C
<1>3. Cells(Consts)
  BY ConstsAreCells
<1> QED BY <1>1, <1>2, <1>3 DEF Cells

LEMMA OperandsGrow ==
  ASSUME NEW f, NEW hs, NEW ht, hs \subseteq ht, NEW n \in Nat, NEW m \in Nat, n <= m
  PROVE  Operands(f, hs, n) \subseteq Operands(f, ht, m)
<1>1. 1 .. n \subseteq 1 .. m
  OBVIOUS
<1>2. [base : {"home"}, n : hs, plus : Nat] \subseteq [base : {"home"}, n : ht, plus : Nat]
  OBVIOUS
<1>3. [base : {"result"}, n : 1 .. n, plus : Nat] \subseteq [base : {"result"}, n : 1 .. m, plus : Nat]
  BY <1>1
<1> QED BY <1>2, <1>3 DEF Operands

LEMMA FitGrows ==
  ASSUME NEW S, NEW T, S \subseteq T, NEW x, Fit(x, S)
  PROVE  Fit(x, T)
<1>1. Seq(S) \subseteq Seq(T)
  OBVIOUS
<1>2. Contexts(S) \subseteq Contexts(T)
  BY <1>1 DEF Contexts
<1> QED BY <1>2 DEF Fit

LEMMA HomesTyped ==
  ASSUME NEW l \in Loops
  PROVE  /\ Homes(l) \in SUBSET Nat /\ l.target \in Nat /\ l.captured \in BOOLEAN /\ l.stable \in BOOLEAN
         /\ l.initial \in Seq(Value) /\ l.header \in Seq(Value) /\ l.homes \subseteq Nat /\ l.at \in Nat /\ l.from \in Nat
         /\ l.path \in Nat /\ l.conts \in Seq(Cont)
BY DEF Homes, Loops

-----------------------------------------------------------------------------
(* The parts of a job, and what is done to them.                             *)

Parts(f, x, s, arms, paths, l, calls, astray, state) ==
  [f |-> f, x |-> x, nodes |-> s, arms |-> arms, paths |-> paths, loop |-> l, calls |-> calls,
   astray |-> astray, state |-> state]

New(x, does, i) == [x |-> x, does |-> does, next |-> i, taken |-> 0]

LEMMA PartsAre ==
  ASSUME NEW f, NEW x, NEW s, NEW arms, NEW paths, NEW l, NEW calls, NEW astray, NEW state, NEW j,
         j = Parts(f, x, s, arms, paths, l, calls, astray, state)
  PROVE  /\ j.f = f /\ j.x = x /\ j.nodes = s /\ j.arms = arms /\ j.paths = paths /\ j.loop = l
         /\ j.calls = calls /\ j.astray = astray /\ j.state = state
BY DEF Parts

LEMMA PartsTyped ==
  ASSUME NEW f \in Nat, NEW x \in Contexts(Value), NEW s \in Seq(Nodes), NEW arms \in Seq(Arms), NEW paths \in Nat,
         NEW l \in Loops, NEW calls \in SUBSET Claims, NEW astray \in BOOLEAN,
         NEW state \in {"walking", "walked", "failed"}
  PROVE  Parts(f, x, s, arms, paths, l, calls, astray, state) \in Jobs
BY DEF Parts, Jobs

LEMMA JobParts ==
  ASSUME NEW j \in Jobs
  PROVE  /\ j = Parts(j.f, j.x, j.nodes, j.arms, j.paths, j.loop, j.calls, j.astray, j.state)
         /\ j.f \in Nat /\ j.x \in Contexts(Value) /\ j.nodes \in Seq(Nodes) /\ j.arms \in Seq(Arms) /\ j.paths \in Nat
         /\ j.loop \in Loops /\ j.calls \in SUBSET Claims /\ j.astray \in BOOLEAN
         /\ j.state \in {"walking", "walked", "failed"} /\ Len(j.nodes) \in Nat /\ Len(j.arms) \in Nat
<1>1. j \in [f : Nat, x : Contexts(Value), nodes : Seq(Nodes), arms : Seq(Arms), paths : Nat, loop : Loops,
             calls : SUBSET Claims, astray : BOOLEAN, state : {"walking", "walked", "failed"}]
  BY DEF Jobs
<1>2. j = Parts(j.f, j.x, j.nodes, j.arms, j.paths, j.loop, j.calls, j.astray, j.state)
  BY <1>1 DEF Parts
<1>3. /\ j.f \in Nat /\ j.x \in Contexts(Value) /\ j.nodes \in Seq(Nodes) /\ j.arms \in Seq(Arms) /\ j.paths \in Nat
      /\ j.loop \in Loops /\ j.calls \in SUBSET Claims /\ j.astray \in BOOLEAN
      /\ j.state \in {"walking", "walked", "failed"}
  BY <1>1
<1>4. Len(j.nodes) \in Nat /\ Len(j.arms) \in Nat
  BY <1>3
<1> QED BY <1>2, <1>3, <1>4

LEMMA NewTyped ==
  ASSUME NEW x \in Contexts(Value), NEW does \in Kinds, NEW i \in Nat
  PROVE  New(x, does, i) \in Nodes /\ New(x, does, i).x = x /\ New(x, does, i).does = does
         /\ New(x, does, i).next = i /\ New(x, does, i).taken = 0
<1>1. PICK z \in Nat : z = 0
  OBVIOUS
<1>2. New(x, does, i) = [x |-> x, does |-> does, next |-> i, taken |-> z]
  BY <1>1 DEF New
<1> QED BY <1>1, <1>2 DEF Nodes

LEMMA NotedIs ==
  ASSUME NEW j \in Jobs, NEW does \in Kinds
  PROVE  /\ Noted(j, does) = Parts(j.f, j.x, Append(j.nodes, New(j.x, does, Len(j.nodes) + 2)), j.arms, j.paths, j.loop,
                                   j.calls, j.astray, j.state)
         /\ Append(j.nodes, New(j.x, does, Len(j.nodes) + 2)) \in Seq(Nodes) /\ Noted(j, does) \in Jobs
<1>1. j = Parts(j.f, j.x, j.nodes, j.arms, j.paths, j.loop, j.calls, j.astray, j.state)
  BY JobParts
<1>2. PICK n : n = New(j.x, does, Len(j.nodes) + 2)
  OBVIOUS
<1>3. Noted(j, does) = [j EXCEPT !.nodes = Append(j.nodes, n)]
  BY <1>2 DEF Noted, New
<1>4. PICK s : s = Append(j.nodes, n)
  OBVIOUS
<1>5. [j EXCEPT !.nodes = s] = Parts(j.f, j.x, s, j.arms, j.paths, j.loop, j.calls, j.astray, j.state)
  BY <1>1 DEF Parts
<1>6. s \in Seq(Nodes)
  BY <1>2, <1>4, JobParts, NewTyped, AppendProperties
<1>7. Noted(j, does) = Parts(j.f, j.x, s, j.arms, j.paths, j.loop, j.calls, j.astray, j.state)
  BY <1>3, <1>4, <1>5
<1>8. Parts(j.f, j.x, s, j.arms, j.paths, j.loop, j.calls, j.astray, j.state) \in Jobs
  BY <1>6, JobParts, PartsTyped
<1> QED BY <1>2, <1>4, <1>6, <1>7, <1>8

LEMMA MovedIs ==
  ASSUME NEW j \in Jobs, NEW x \in Contexts(Value)
  PROVE  /\ Moved(j, x) = Parts(j.f, x, j.nodes, j.arms, j.paths, j.loop, j.calls, j.astray, j.state)
         /\ Moved(j, x) \in Jobs
<1>1. j = Parts(j.f, j.x, j.nodes, j.arms, j.paths, j.loop, j.calls, j.astray, j.state)
  BY JobParts
<1>2. Moved(j, x) = Parts(j.f, x, j.nodes, j.arms, j.paths, j.loop, j.calls, j.astray, j.state)
  BY <1>1 DEF Parts, Moved
<1>3. Parts(j.f, x, j.nodes, j.arms, j.paths, j.loop, j.calls, j.astray, j.state) \in Jobs
  BY JobParts, PartsTyped
<1> QED BY <1>2, <1>3

LEMMA FailedIs ==
  ASSUME NEW j \in Jobs
  PROVE  Failed(j) \in Jobs /\ Failed(j).f = j.f /\ Failed(j).state = "failed"
BY DEF Failed, Jobs

LEMMA ClaimedIs ==
  ASSUME NEW j \in Jobs, NEW f, Claim(f, TopOf(j.x.a, Arity(f))) \in Claims
  PROVE  LET c == j.calls \cup {Claim(f, TopOf(j.x.a, Arity(f)))}
         IN  /\ Recorded(j, f) = Parts(j.f, j.x, j.nodes, j.arms, j.paths, j.loop, c, j.astray, j.state)
             /\ Recorded(j, f) \in Jobs /\ c \in SUBSET Claims
<1> DEFINE c == j.calls \cup {Claim(f, TopOf(j.x.a, Arity(f)))}
<1>1. j = Parts(j.f, j.x, j.nodes, j.arms, j.paths, j.loop, j.calls, j.astray, j.state)
  BY JobParts
<1>2. Recorded(j, f) = [j EXCEPT !.calls = c]
  BY DEF Recorded, Claim
<1>3. c \in SUBSET Claims
  BY JobParts
<1> HIDE DEF c
<1>4. [j EXCEPT !.calls = c] = Parts(j.f, j.x, j.nodes, j.arms, j.paths, j.loop, c, j.astray, j.state)
  BY <1>1 DEF Parts
<1>5. Parts(j.f, j.x, j.nodes, j.arms, j.paths, j.loop, c, j.astray, j.state) \in Jobs
  BY <1>3, JobParts, PartsTyped
<1> QED BY <1>2, <1>3, <1>4, <1>5 DEF c

LEMMA OpenedIs ==
  ASSUME NEW j \in Jobs, NEW f \in Nat
  PROVE  /\ Opened(j, f) = Parts(j.f, j.x, j.nodes, j.arms, j.paths, [j.loop EXCEPT !.target = f], j.calls, j.astray, j.state)
         /\ Opened(j, f) \in Jobs /\ [j.loop EXCEPT !.target = f] \in Loops
<1>1. j = Parts(j.f, j.x, j.nodes, j.arms, j.paths, j.loop, j.calls, j.astray, j.state)
  BY JobParts
<1>2. PICK l : l = [j.loop EXCEPT !.target = f]
  OBVIOUS
<1>3. Opened(j, f) = [j EXCEPT !.loop = l]
  BY <1>2 DEF Opened
<1>4. [j EXCEPT !.loop = l] = Parts(j.f, j.x, j.nodes, j.arms, j.paths, l, j.calls, j.astray, j.state)
  BY <1>1 DEF Parts
<1>5. l \in Loops
  <2>1. PICK k \in Loops : k = j.loop
    BY JobParts
  <2>2. l = [k EXCEPT !.target = f]
    BY <1>2, <2>1
  <2> QED BY <2>2 DEF Loops
<1>6. Parts(j.f, j.x, j.nodes, j.arms, j.paths, l, j.calls, j.astray, j.state) \in Jobs
  BY <1>5, JobParts, PartsTyped
<1> QED BY <1>2, <1>3, <1>4, <1>5, <1>6

-----------------------------------------------------------------------------
(* The graph grows.                                                          *)

\* What is recorded, and going astray, take nothing from a graph.
LEMMA GraphWeakens ==
  ASSUME NEW s, NEW l, NEW calls, NEW astray, NEW f, NEW x, NEW arms, NEW top,
         GraphFit(s, l, calls, astray, f, x, arms, top),
         NEW c, calls \subseteq c, NEW a, astray => a
  PROVE  GraphFit(s, l, c, a, f, x, arms, top)
<1>1. ASSUME NEW i \in 1 .. Len(s)
      PROVE  /\ NodeFit(s[i], i, l, f) /\ Doing(s[i], l, c, a, f) /\ Points(s[i], i, arms, top)
             /\ ~a /\ Live(l, i) => Leads(s, l, x, i)
  BY DEF GraphFit, Doing
<1>2. \A k \in 1 .. Len(arms) : ArmFit(arms[k], s, l, a)
  BY DEF GraphFit, ArmFit
<1>3. LoopFit(l, s, f, x, top, a)
  BY DEF GraphFit, LoopFit
<1>4. Where(s, x, 1) = EntryContext(f)
  BY DEF GraphFit
<1> QED BY <1>1, <1>2, <1>3, <1>4 DEF GraphFit

\* A loop that no path has come to may be any function's.
LEMMA GraphOpens ==
  ASSUME NEW s, NEW l, NEW calls, NEW astray, NEW f, NEW x, NEW arms, NEW top,
         GraphFit(s, l, calls, astray, f, x, arms, top), ~l.captured, NEW g \in Nat
  PROVE  GraphFit(s, [l EXCEPT !.target = g], calls, astray, f, x, arms, top)
<1> DEFINE m == [l EXCEPT !.target = g]
<1>1. l \in Loops /\ ~l.stable /\ l.at = 0
  BY DEF GraphFit, LoopFit
<1>2. /\ m \in Loops /\ m.captured = l.captured /\ m.stable = l.stable /\ m.at = l.at /\ m.from = l.from
      /\ m.initial = l.initial /\ m.homes = l.homes /\ m.header = l.header /\ m.conts = l.conts
  BY <1>1 DEF Loops
<1> HIDE DEF m
<1>3. Homes(m) = Homes(l) /\ \A i : Live(m, i) <=> Live(l, i)
  BY <1>2 DEF Homes, Live
<1>4. ASSUME NEW i \in 1 .. Len(s)
      PROVE  /\ NodeFit(s[i], i, m, f) /\ Doing(s[i], m, calls, astray, f) /\ Points(s[i], i, arms, top)
             /\ ~astray /\ Live(m, i) => Leads(s, m, x, i)
  <2>1. /\ NodeFit(s[i], i, l, f) /\ Doing(s[i], l, calls, astray, f) /\ Points(s[i], i, arms, top)
        /\ ~astray /\ Live(l, i) => Leads(s, l, x, i)
    BY DEF GraphFit
  <2>2. NodeFit(s[i], i, m, f)
    BY <1>2, <1>3, <2>1 DEF NodeFit, Early
  <2>3. Doing(s[i], m, calls, astray, f)
    BY <1>1, <2>1 DEF Doing
  <2>4. ~astray /\ Live(m, i) => Leads(s, m, x, i)
    BY <1>1, <1>2, <1>3, <2>1 DEF Leads, Linked
  <2> QED BY <2>1, <2>2, <2>3, <2>4
<1>5. \A k \in 1 .. Len(arms) : ArmFit(arms[k], s, m, astray)
  BY <1>3 DEF GraphFit, ArmFit
<1>6. LoopFit(m, s, f, x, top, astray)
  BY <1>1, <1>2 DEF LoopFit
<1> QED BY <1>4, <1>5, <1>6 DEF GraphFit, m

\* One node more, for the context that comes next.
Grown(s, t, n, x) == s \in Seq(Nodes) /\ n \in Nodes /\ t = Append(s, n) /\ n.x = x /\ n.taken = 0 /\ n.next = Len(s) + 2

LEMMA GrownParts ==
  ASSUME NEW s, NEW t, NEW n, NEW x, Grown(s, t, n, x)
  PROVE  /\ t \in Seq(Nodes) /\ Len(s) \in Nat /\ Len(t) = Len(s) + 1 /\ t[Len(t)] = n /\ t[Len(s) + 1] = n
         /\ \A i \in 1 .. Len(s) : t[i] = s[i] /\ i \in 1 .. Len(t)
         /\ \A k \in 1 .. Len(s) + 1 : \A z : Where(t, z, k) = Where(s, x, k)
<1>1. s \in Seq(Nodes) /\ n \in Nodes /\ t = Append(s, n) /\ n.x = x /\ Len(s) \in Nat
  BY DEF Grown
<1>2. t \in Seq(Nodes) /\ Len(t) = Len(s) + 1 /\ t[Len(s) + 1] = n /\ \A i \in 1 .. Len(s) : t[i] = s[i]
  BY <1>1, AppendProperties
<1>3. ASSUME NEW k \in 1 .. Len(s) + 1, NEW z PROVE Where(t, z, k) = Where(s, x, k)
  <2>1. CASE k <= Len(s)
    BY <1>1, <1>2, <2>1 DEF Where
  <2>2. CASE k = Len(s) + 1
    <3>1. k <= Len(t) /\ ~(k <= Len(s))
      BY <1>1, <1>2, <2>2
    <3> QED BY <1>1, <1>2, <2>2, <3>1 DEF Where
  <2> QED BY <1>1, <2>1, <2>2
<1> QED BY <1>1, <1>2, <1>3

LEMMA GrownOld ==
  ASSUME NEW s, NEW l, NEW calls, NEW astray, NEW f, NEW x, NEW arms,
         GraphFit(s, l, calls, astray, f, x, arms, Len(s) + 1), NEW t, NEW n, Grown(s, t, n, x)
  PROVE  /\ \A i \in 1 .. Len(s) :
              /\ NodeFit(t[i], i, l, f) /\ Doing(t[i], l, calls, astray, f) /\ Points(t[i], i, arms, Len(t))
              /\ \A z : ~astray /\ Live(l, i) => Leads(t, l, z, i)
         /\ \A k \in 1 .. Len(arms) : ArmFit(arms[k], t, l, astray)
         /\ \A z : LoopFit(l, t, f, z, Len(t), astray) /\ Where(t, z, 1) = EntryContext(f)
<1>1. /\ t \in Seq(Nodes) /\ Len(s) \in Nat /\ Len(t) = Len(s) + 1
      /\ \A i \in 1 .. Len(s) : t[i] = s[i] /\ i \in 1 .. Len(t)
      /\ \A k \in 1 .. Len(t) : \A z : Where(t, z, k) = Where(s, x, k)
  BY GrownParts
<1>2. ASSUME NEW i \in 1 .. Len(s)
      PROVE  /\ NodeFit(t[i], i, l, f) /\ Doing(t[i], l, calls, astray, f) /\ Points(t[i], i, arms, Len(t))
             /\ \A z : ~astray /\ Live(l, i) => Leads(t, l, z, i)
  <2>1. /\ NodeFit(t[i], i, l, f) /\ Doing(t[i], l, calls, astray, f) /\ Points(t[i], i, arms, Len(t))
        /\ ~astray /\ Live(l, i) => Leads(s, l, x, i)
    BY <1>1 DEF GraphFit
  <2>2. ASSUME NEW z, ~astray, Live(l, i) PROVE Leads(t, l, z, i)
    <3>1. Leads(s, l, x, i)
      BY <2>1, <2>2
    <3>2. ASSUME NEW k \in 1 .. Len(t), NEW y, Linked(s, l, x, i, k, y) PROVE Linked(t, l, z, i, k, y)
      <4>1. Where(t, z, k) = Where(s, x, k)
        BY <1>1
      <4> QED BY <3>2, <4>1 DEF Linked
    <3>3. (t[i].does \in Leading => t[i].next \in 1 .. Len(t)) /\ (t[i].taken # 0 => t[i].taken \in 1 .. Len(t))
      BY <1>1, <2>1 DEF Points
    <3> QED BY <1>1, <3>1, <3>2, <3>3 DEF Leads
  <2> QED BY <2>1, <2>2
<1>3. ASSUME NEW k \in 1 .. Len(arms) PROVE ArmFit(arms[k], t, l, astray)
  <2>1. ArmFit(arms[k], s, l, astray)
    BY DEF GraphFit
  <2> QED BY <1>1, <2>1 DEF ArmFit
<1>4. ASSUME NEW z PROVE LoopFit(l, t, f, z, Len(t), astray) /\ Where(t, z, 1) = EntryContext(f)
  <2>1. LoopFit(l, s, f, x, Len(t), astray) /\ Where(s, x, 1) = EntryContext(f)
    BY <1>1 DEF GraphFit
  <2>2. 1 \in 1 .. Len(t) /\ (l.stable => l.at \in 1 .. Len(t))
    BY <1>1, <2>1 DEF LoopFit
  <2>3. Where(t, z, 1) = EntryContext(f) /\ (l.stable => Where(t, z, l.at) = Where(s, x, l.at))
    BY <1>1, <2>1, <2>2
  <2>4. l.captured => l.from \in 1 .. Len(s) /\ l.from \in 1 .. Len(t) /\ t[l.from].does = "step"
    BY <1>1, <2>1 DEF LoopFit
  <2>5. LoopFit(l, t, f, z, Len(t), astray)
    BY <2>1, <2>3, <2>4 DEF LoopFit
  <2> QED BY <2>3, <2>5
<1> QED BY <1>2, <1>3, <1>4

\* A higher top is one more place to point at.
LEMMA LoopFitHigher ==
  ASSUME NEW l, NEW s, NEW f, NEW x, NEW top \in Nat, NEW astray, LoopFit(l, s, f, x, top, astray)
  PROVE  LoopFit(l, s, f, x, top + 1, astray)
BY DEF LoopFit

LEMMA PointsHigher ==
  ASSUME NEW n, NEW i, NEW arms, NEW top \in Nat, Points(n, i, arms, top)
  PROVE  Points(n, i, arms, top + 1)
BY DEF Points

\* The walk goes on at y.
LEMMA GraphGrows ==
  ASSUME NEW s, NEW l, NEW calls, NEW astray, NEW f, NEW x, NEW arms \in Seq(Arms),
         GraphFit(s, l, calls, astray, f, x, arms, Len(s) + 1), NEW t, NEW n, Grown(s, t, n, x),
         NodeFit(n, Len(s) + 1, l, f), Doing(n, l, calls, astray, f), n.does \in Leading,
         NEW y, y = Out(n, Len(s) + 1), NEW brms,
         IF n.does = "fork" THEN brms = Append(arms, [x |-> Other(x), at |-> Len(s) + 1])
                                 /\ [x |-> Other(x), at |-> Len(s) + 1] \in Arms
         ELSE brms = arms
  PROVE  GraphFit(t, l, calls, astray, f, y, brms, Len(t) + 1)
<1>1. /\ t \in Seq(Nodes) /\ Len(s) \in Nat /\ Len(t) = Len(s) + 1 /\ t[Len(t)] = n
      /\ \A i \in 1 .. Len(s) : t[i] = s[i] /\ i \in 1 .. Len(t)
  BY GrownParts
<1>2. /\ \A i \in 1 .. Len(s) :
              /\ NodeFit(t[i], i, l, f) /\ Doing(t[i], l, calls, astray, f) /\ Points(t[i], i, arms, Len(t))
              /\ \A z : ~astray /\ Live(l, i) => Leads(t, l, z, i)
      /\ \A k \in 1 .. Len(arms) : ArmFit(arms[k], t, l, astray)
      /\ \A z : LoopFit(l, t, f, z, Len(t), astray) /\ Where(t, z, 1) = EntryContext(f)
  BY GrownOld
<1>3. l.stable => l.at \in 1 .. Len(t)
  BY <1>2 DEF LoopFit
<1>4. Len(arms) \in Nat /\ Len(brms) \in Nat /\ Len(arms) <= Len(brms) /\ \A k \in 1 .. Len(arms) : brms[k] = arms[k]
  <2>1. CASE n.does = "fork"
    <3>1. PICK a \in Arms : a = [x |-> Other(x), at |-> Len(s) + 1]
      BY <2>1
    <3>2. brms = Append(arms, a)
      BY <2>1, <3>1
    <3> QED BY <3>2, AppendProperties
  <2>2. CASE n.does # "fork"
    BY <2>2
  <2> QED BY <2>1, <2>2
<1>5. n.does = "fork" => Len(brms) = Len(arms) + 1 /\ brms[Len(brms)] = [x |-> Other(x), at |-> Len(s) + 1]
  <2> SUFFICES ASSUME n.does = "fork" PROVE Len(brms) = Len(arms) + 1 /\ brms[Len(brms)] = [x |-> Other(x), at |-> Len(s) + 1]
    OBVIOUS
  <2>1. PICK a \in Arms : a = [x |-> Other(x), at |-> Len(s) + 1]
    OBVIOUS
  <2>2. brms = Append(arms, a)
    BY <2>1
  <2> QED BY <2>1, <2>2, AppendProperties
<1>6. ASSUME NEW i \in 1 .. Len(t)
      PROVE  /\ NodeFit(t[i], i, l, f) /\ Doing(t[i], l, calls, astray, f) /\ Points(t[i], i, brms, Len(t) + 1)
             /\ ~astray /\ Live(l, i) => Leads(t, l, y, i)
  <2>1. CASE i \in 1 .. Len(s)
    <3>1. Points(t[i], i, arms, Len(t) + 1)
      BY <1>1, <1>2, <2>1, PointsHigher
    <3>2. Points(t[i], i, brms, Len(t) + 1)
      BY <1>4, <3>1 DEF Points
    <3> QED BY <1>2, <2>1, <3>2
  <2>2. CASE i = Len(t)
    <3>1. t[i] = n /\ i = Len(s) + 1 /\ n.taken = 0 /\ n.next = Len(t) + 1 /\ n.x = x
      BY <1>1, <2>2 DEF Grown
    <3>2. NodeFit(t[i], i, l, f) /\ Doing(t[i], l, calls, astray, f)
      BY <3>1
    <3>3. n.does = "fork" => \E k \in 1 .. Len(brms) : brms[k].at = i
      <4> SUFFICES ASSUME n.does = "fork" PROVE \E k \in 1 .. Len(brms) : brms[k].at = i
        OBVIOUS
      <4>1. Len(brms) \in 1 .. Len(brms) /\ brms[Len(brms)].at = i
        BY <1>4, <1>5, <3>1
      <4> QED BY <4>1
    <3>4. Points(t[i], i, brms, Len(t) + 1)
      BY <1>1, <3>1, <3>3 DEF Points
    <3>5. Live(l, Len(t) + 1) /\ (l.stable => Len(t) + 1 # l.at)
      BY <1>1, <1>3 DEF Live
    <3>6. Where(t, y, Len(t) + 1) = y
      BY <1>1 DEF Where
    <3>7. Linked(t, l, y, i, Len(t) + 1, Out(n, i))
      BY <3>1, <3>5, <3>6 DEF Linked
    <3>8. Leads(t, l, y, i)
      BY <3>1, <3>7 DEF Leads
    <3> QED BY <3>2, <3>4, <3>8
  <2>3. i \in 1 .. Len(s) \/ i = Len(t)
    BY <1>1
  <2> QED BY <2>1, <2>2, <2>3
<1>7. ASSUME NEW k \in 1 .. Len(brms) PROVE ArmFit(brms[k], t, l, astray)
  <2>1. CASE k \in 1 .. Len(arms)
    BY <1>2, <1>4, <2>1
  <2>2. CASE k \notin 1 .. Len(arms)
    <3>1. n.does = "fork"
      BY <2>2
    <3>2. k = Len(brms)
      BY <1>4, <1>5, <2>2, <3>1
    <3>3. brms[k].at = Len(t) /\ brms[k].x = Other(x) /\ t[Len(t)].x = x
      BY <1>1, <1>5, <3>1, <3>2 DEF Grown
    <3>4. Live(l, Len(t)) /\ Len(t) \in 1 .. Len(t)
      BY <1>1, <1>3 DEF Live
    <3> QED BY <1>1, <3>1, <3>3, <3>4 DEF ArmFit
  <2> QED BY <2>1, <2>2
<1>8. LoopFit(l, t, f, y, Len(t) + 1, astray) /\ Where(t, y, 1) = EntryContext(f)
  <2>1. LoopFit(l, t, f, y, Len(t), astray) /\ Where(t, y, 1) = EntryContext(f) /\ Len(t) \in Nat
    BY <1>1, <1>2
  <2> QED BY <2>1, LoopFitHigher
<1> QED BY <1>6, <1>7, <1>8 DEF GraphFit

\* A path ends.
LEMMA GraphEnds ==
  ASSUME NEW s, NEW l, NEW calls, NEW astray, NEW f, NEW x, NEW arms,
         GraphFit(s, l, calls, astray, f, x, arms, Len(s) + 1), NEW t, NEW n, Grown(s, t, n, x),
         NodeFit(n, Len(s) + 1, l, f), Doing(n, l, calls, astray, f), n.does \notin Leading, NEW z
  PROVE  GraphFit(t, l, calls, astray, f, z, arms, Len(t))
<1>1. /\ t \in Seq(Nodes) /\ Len(s) \in Nat /\ Len(t) = Len(s) + 1 /\ t[Len(t)] = n
  BY GrownParts
<1>2. /\ \A i \in 1 .. Len(s) :
              /\ NodeFit(t[i], i, l, f) /\ Doing(t[i], l, calls, astray, f) /\ Points(t[i], i, arms, Len(t))
              /\ \A w : ~astray /\ Live(l, i) => Leads(t, l, w, i)
      /\ \A k \in 1 .. Len(arms) : ArmFit(arms[k], t, l, astray)
      /\ \A w : LoopFit(l, t, f, w, Len(t), astray) /\ Where(t, w, 1) = EntryContext(f)
  BY GrownOld
<1>3. Points(n, Len(t), arms, Len(t)) /\ Leads(t, l, z, Len(t))
  BY <1>1 DEF Points, Leads, Grown, Leading
<1>4. \A i \in 1 .. Len(t) : i \in 1 .. Len(s) \/ (i = Len(t) /\ i = Len(s) + 1 /\ t[i] = n)
  BY <1>1
<1> QED BY <1>2, <1>3, <1>4 DEF GraphFit

\* Nothing points past the last node when every path has ended.
LEMMA GraphClosed ==
  ASSUME NEW s \in Seq(Nodes), s # <<>>, NEW l, NEW calls, NEW astray, NEW f, NEW x, NEW arms,
         GraphFit(s, l, calls, astray, f, x, arms, Len(s)), NEW z
  PROVE  GraphFit(s, l, calls, astray, f, z, arms, Len(s))
<1>1. Len(s) \in Nat /\ Len(s) >= 1
  OBVIOUS
<1>2. \A k \in 1 .. Len(s) : Where(s, z, k) = Where(s, x, k)
  BY <1>1 DEF Where
<1>3. ASSUME NEW i \in 1 .. Len(s), ~astray, Live(l, i) PROVE Leads(s, l, z, i)
  <2>1. Points(s[i], i, arms, Len(s)) /\ Leads(s, l, x, i)
    BY <1>3 DEF GraphFit
  <2>2. ASSUME NEW k \in 1 .. Len(s), NEW y, Linked(s, l, x, i, k, y) PROVE Linked(s, l, z, i, k, y)
    BY <1>2, <2>2 DEF Linked
  <2>3. (s[i].does \in Leading => s[i].next \in 1 .. Len(s)) /\ (s[i].taken # 0 => s[i].taken \in 1 .. Len(s))
    BY <1>1, <2>1 DEF Points
  <2> QED BY <2>1, <2>2, <2>3 DEF Leads
<1>4. LoopFit(l, s, f, x, Len(s), astray) /\ 1 \in 1 .. Len(s)
  BY <1>1 DEF GraphFit
<1>5. l.stable => Where(s, z, l.at) = Where(s, x, l.at)
  BY <1>2, <1>4 DEF LoopFit
<1>6. LoopFit(l, s, f, z, Len(s), astray)
  BY <1>4, <1>5 DEF LoopFit
<1> QED BY <1>2, <1>3, <1>4, <1>6 DEF GraphFit

LEMMA OutSame ==
  ASSUME NEW n, NEW m, n.x = m.x, n.does = m.does, NEW i
  PROVE  Out(n, i) = Out(m, i)
BY DEF Out

LEMMA DoingSame ==
  ASSUME NEW n, NEW m, n.x = m.x, n.does = m.does, NEW l, NEW calls, NEW astray, NEW f, NEW i,
         NodeFit(m, i, l, f), Doing(m, l, calls, astray, f)
  PROVE  NodeFit(n, i, l, f) /\ Doing(n, l, calls, astray, f)
BY DEF NodeFit, Early, Doing

\* The walk returns to the last fork that is half done.
Turned(s, at) == [s EXCEPT ![at].taken = Len(s) + 1]

LEMMA GraphTurns ==
  ASSUME NEW s \in Seq(Nodes), NEW l, NEW calls, NEW astray, NEW f, NEW x, NEW arms \in Seq(Arms), arms # <<>>,
         GraphFit(s, l, calls, astray, f, x, arms, Len(s)),
         NEW t, t = Turned(s, Last(arms).at)
  PROVE  /\ GraphFit(t, l, calls, astray, f, Last(arms).x, Front(arms), Len(t) + 1)
         /\ t \in Seq(Nodes) /\ Len(t) = Len(s) /\ Front(arms) \in Seq(Arms) /\ Last(arms) \in Arms
         /\ Last(arms).at \in 1 .. Len(s) /\ Last(arms).x = Other(s[Last(arms).at].x)
         /\ s[Last(arms).at].does = "fork"
<1>1. /\ Len(s) \in Nat /\ Len(arms) \in Nat /\ Len(arms) \in 1 .. Len(arms)
      /\ Front(arms) \in Seq(Arms) /\ Len(Front(arms)) = Len(arms) - 1
      /\ Last(arms) = arms[Len(arms)] /\ Last(arms) \in Arms /\ \A k \in 1 .. Len(arms) - 1 : Front(arms)[k] = arms[k]
  <2>1. Len(arms) \in Nat /\ Len(arms) >= 1 /\ Len(s) \in Nat
    OBVIOUS
  <2>2. /\ Front(arms) \in Seq(Arms) /\ Len(Front(arms)) = Len(arms) - 1
        /\ Last(arms) = arms[Len(arms)] /\ Last(arms) \in Arms /\ \A k \in 1 .. Len(arms) - 1 : Front(arms)[k] = arms[k]
    BY FrontIs
  <2> QED BY <2>1, <2>2
<1>2. PICK b \in Arms : b = Last(arms)
  BY <1>1
<1>3. ArmFit(b, s, l, astray)
  BY <1>1, <1>2 DEF GraphFit
<1>4. b.at \in 1 .. Len(s) /\ s[b.at].does = "fork" /\ b.x = Other(s[b.at].x) /\ (~astray => Live(l, b.at))
  BY <1>3 DEF ArmFit
<1>5. /\ t \in Seq(Nodes) /\ Len(t) = Len(s) /\ t[b.at].taken = Len(s) + 1
      /\ \A i \in 1 .. Len(s) : /\ t[i].x = s[i].x /\ t[i].does = s[i].does /\ t[i].next = s[i].next
                                /\ (i # b.at => t[i] = s[i])
  <2>1. PICK m \in Nodes : m = s[b.at]
    BY <1>4, ElementOfSeq
  <2>2. PICK k \in Nat : k = Len(s) + 1
    BY <1>1
  <2>3. PICK n : n = [m EXCEPT !.taken = k]
    OBVIOUS
  <2>4. n \in Nodes /\ n.x = m.x /\ n.does = m.does /\ n.next = m.next /\ n.taken = k
    BY <2>1, <2>2, <2>3 DEF Nodes
  <2>5. t = [s EXCEPT ![b.at] = n]
    BY <1>2, <1>4, <2>1, <2>2, <2>3 DEF Turned
  <2>6. t \in Seq(Nodes) /\ Len(t) = Len(s) /\ t[b.at] = n /\ \A i \in 1 .. Len(s) : i # b.at => t[i] = s[i]
    <3>1. DOMAIN s = 1 .. Len(s) /\ DOMAIN t = 1 .. Len(s) /\ t[b.at] = n /\ \A i \in 1 .. Len(s) : i # b.at => t[i] = s[i]
      BY <1>4, <2>5
    <3>2. \A i \in 1 .. Len(s) : t[i] \in Nodes
      BY <2>4, <3>1, ElementOfSeq
    <3>3. t \in [1 .. Len(s) -> Nodes]
      <4>1. t = [i \in 1 .. Len(s) |-> t[i]]
        BY <2>5, <3>1
      <4> QED BY <3>2, <4>1
    <3>4. t \in Seq(Nodes) /\ Len(t) = Len(s)
      BY <1>1, <3>3
    <3> QED BY <3>1, <3>4
  <2> QED BY <2>1, <2>2, <2>4, <2>6
<1>6. LoopFit(l, s, f, x, Len(s), astray) /\ 1 \in 1 .. Len(s) /\ Where(s, x, 1) = EntryContext(f)
  BY <1>1, <1>4 DEF GraphFit
<1>7. \A k \in 1 .. Len(s) : Where(t, b.x, k) = Where(s, x, k)
  BY <1>1, <1>5 DEF Where
<1>8. ASSUME NEW i \in 1 .. Len(s)
      PROVE  /\ NodeFit(t[i], i, l, f) /\ Doing(t[i], l, calls, astray, f) /\ Points(t[i], i, Front(arms), Len(t) + 1)
             /\ ~astray /\ Live(l, i) => Leads(t, l, b.x, i)
  <2>1. /\ NodeFit(s[i], i, l, f) /\ Doing(s[i], l, calls, astray, f) /\ Points(s[i], i, arms, Len(s))
        /\ ~astray /\ Live(l, i) => Leads(s, l, x, i)
    BY DEF GraphFit
  <2>2. NodeFit(t[i], i, l, f) /\ Doing(t[i], l, calls, astray, f)
    BY <1>5, <2>1, DoingSame
  <2>3. Points(t[i], i, Front(arms), Len(t) + 1)
    <3>1. t[i].does \in Leading => t[i].next \in i + 1 .. Len(t) + 1
      BY <1>1, <1>5, <2>1 DEF Points
    <3>2. t[i].taken \in {0} \cup (i + 1 .. Len(t) + 1)
      BY <1>1, <1>5, <2>1 DEF Points
    <3>3. ASSUME t[i].does = "fork", t[i].taken = 0 PROVE \E k \in 1 .. Len(Front(arms)) : Front(arms)[k].at = i
      <4>1. i # b.at /\ s[i].does = "fork" /\ s[i].taken = 0
        BY <1>1, <1>5, <3>3
      <4>2. PICK k \in 1 .. Len(arms) : arms[k].at = i
        BY <2>1, <4>1 DEF Points
      <4>3. k # Len(arms)
        BY <1>1, <1>2, <4>1, <4>2
      <4>4. k \in 1 .. Len(Front(arms)) /\ Front(arms)[k] = arms[k]
        BY <1>1, <4>2, <4>3
      <4> QED BY <4>2, <4>4
    <3> QED BY <3>1, <3>2, <3>3 DEF Points
  <2>4. ASSUME ~astray, Live(l, i) PROVE Leads(t, l, b.x, i)
    <3>1. Leads(s, l, x, i)
      BY <2>1, <2>4
    <3>2. ASSUME NEW k \in 1 .. Len(s), NEW y, Linked(s, l, x, i, k, y) PROVE Linked(t, l, b.x, i, k, y)
      BY <1>7, <3>2 DEF Linked
    <3>3. /\ s[i].does \in Leading => s[i].next \in 1 .. Len(s)
          /\ s[i].taken # 0 => s[i].taken \in 1 .. Len(s)
      BY <1>1, <2>1 DEF Points
    <3>4. t[i].does \in Leading => Linked(t, l, b.x, i, t[i].next, Out(t[i], i))
      <4>1. Out(t[i], i) = Out(s[i], i)
        <5>1. t[i].x = s[i].x /\ t[i].does = s[i].does
          BY <1>5
        <5> QED BY <5>1, OutSame
      <4> QED BY <1>5, <3>1, <3>2, <3>3, <4>1 DEF Leads
    <3>5. ASSUME t[i].does = "fork", t[i].taken # 0 PROVE Linked(t, l, b.x, i, t[i].taken, Other(t[i].x))
      <4>1. CASE i = b.at
        <5>1. t[i].taken = Len(s) + 1 /\ Other(t[i].x) = b.x
          BY <1>4, <1>5, <4>1
        <5>2. Live(l, Len(s) + 1) /\ (l.stable => Len(s) + 1 # l.at)
          BY <1>1, <1>6 DEF Live, LoopFit
        <5>3. Where(t, b.x, Len(s) + 1) = b.x
          BY <1>1, <1>5 DEF Where
        <5> QED BY <5>1, <5>2, <5>3 DEF Linked
      <4>2. CASE i # b.at
        BY <1>5, <3>1, <3>2, <3>3, <3>5, <4>2 DEF Leads
      <4> QED BY <4>1, <4>2
    <3> QED BY <3>4, <3>5 DEF Leads
  <2> QED BY <2>2, <2>3, <2>4
<1>9. ASSUME NEW k \in 1 .. Len(Front(arms)) PROVE ArmFit(Front(arms)[k], t, l, astray)
  <2>1. k \in 1 .. Len(arms) /\ Front(arms)[k] = arms[k]
    BY <1>1
  <2>2. ArmFit(arms[k], s, l, astray)
    BY <2>1 DEF GraphFit
  <2> QED BY <1>5, <2>1, <2>2 DEF ArmFit
<1>10. LoopFit(l, t, f, b.x, Len(t) + 1, astray)
  <2>1. /\ l.captured => l.from \in 1 .. Len(s) /\ t[l.from].does = s[l.from].does
        /\ l.stable => l.at \in 1 .. Len(s) /\ Where(t, b.x, l.at) = Where(s, x, l.at)
    BY <1>5, <1>6, <1>7 DEF LoopFit
  <2>2. LoopFit(l, t, f, b.x, Len(s), astray)
    BY <1>5, <1>6, <2>1 DEF LoopFit
  <2> QED BY <1>1, <1>5, <2>2, LoopFitHigher
<1>11. Where(t, b.x, 1) = EntryContext(f)
  BY <1>6, <1>7
<1>12. GraphFit(t, l, calls, astray, f, b.x, Front(arms), Len(t) + 1)
  BY <1>5, <1>8, <1>9, <1>10, <1>11 DEF GraphFit
<1> QED BY <1>1, <1>2, <1>4, <1>5, <1>12

-----------------------------------------------------------------------------
(* The loop.                                                                 *)

LEMMA FunctionIsSeq ==
  ASSUME NEW S, NEW n \in Nat, NEW g \in [1 .. n -> S]
  PROVE  g \in Seq(S) /\ Len(g) = n
OBVIOUS

\* The last node is new and leads to y.
Fresh(s, l, y) ==
  /\ Len(s) >= 1 /\ s[Len(s)].does = "step" /\ s[Len(s)].next = Len(s) + 1 /\ Out(s[Len(s)], Len(s)) = y
  /\ \A i \in 1 .. Len(s) - 1 : (s[i].does \in Leading => s[i].next <= Len(s)) /\ s[i].taken <= Len(s)
  /\ l.captured => l.from < Len(s)

\* While no path has ended since the loop was come to, nothing but the way
\* into it leads past it.
TrialFit(s, l, arms, paths) ==
  l.captured /\ ~l.stable /\ l.path = paths =>
    /\ \A i \in 1 .. l.from - 1 : (s[i].does \in Leading => s[i].next <= l.from) /\ s[i].taken <= l.from
    /\ s[l.from].next = l.from + 1 /\ Out(s[l.from], l.from) = Inlet(l)
    /\ \A k \in 1 .. Len(arms) : arms[k].at <= l.from

LEMMA TrialGrows ==
  ASSUME NEW s, NEW t, NEW n, NEW x, Grown(s, t, n, x), NEW l, NEW arms, NEW paths, TrialFit(s, l, arms, paths),
         l.captured => l.from \in 1 .. Len(s)
  PROVE  TrialFit(t, l, arms, paths)
<1>1. \A i \in 1 .. Len(s) : t[i] = s[i]
  BY GrownParts
<1>2. Len(s) \in Nat
  BY GrownParts
<1>3. l.captured => \A i \in 1 .. l.from - 1 : i \in 1 .. Len(s)
  BY <1>2
<1> QED BY <1>1, <1>3 DEF TrialFit

LEMMA GrownIsFresh ==
  ASSUME NEW s, NEW l, NEW calls, NEW astray, NEW f, NEW x, NEW arms,
         GraphFit(s, l, calls, astray, f, x, arms, Len(s) + 1), NEW t, NEW n, Grown(s, t, n, x), n.does = "step",
         NEW y, y = Out(n, Len(s) + 1)
  PROVE  Fresh(t, l, y)
<1>1. /\ t \in Seq(Nodes) /\ Len(s) \in Nat /\ Len(t) = Len(s) + 1 /\ t[Len(t)] = n
      /\ \A i \in 1 .. Len(s) : t[i] = s[i] /\ i \in 1 .. Len(t)
  BY GrownParts
<1>2. n.next = Len(t) + 1
  BY <1>1 DEF Grown
<1>3. ASSUME NEW i \in 1 .. Len(t) - 1
      PROVE  (t[i].does \in Leading => t[i].next <= Len(t)) /\ t[i].taken <= Len(t)
  <2>1. i \in 1 .. Len(s) /\ t[i] = s[i]
    BY <1>1
  <2>2. Points(s[i], i, arms, Len(t))
    BY <1>1, <2>1 DEF GraphFit
  <2> QED BY <1>1, <2>1, <2>2 DEF Points
<1>4. l.captured => l.from < Len(t)
  BY <1>1 DEF GraphFit, LoopFit
<1> QED BY <1>1, <1>2, <1>3, <1>4 DEF Fresh

\* The first arrival.
Captured(l, y, n, paths) ==
  [l EXCEPT !.captured = TRUE, !.initial = y.c, !.from = n, !.path = paths, !.conts = y.conts]

\* What the first arrival finds.
Arrived(s, l, calls, astray, f, y, arms, paths) ==
  /\ s \in Seq(Nodes) /\ paths \in Nat
  /\ GraphFit(s, l, calls, astray, f, y, arms, Len(s) + 1) /\ ~l.captured /\ l.target \in Functions
  /\ Fit(y, Operands(f, Homes(l), Len(s))) /\ Operands(f, {}, Len(s)) \subseteq Value
  /\ y.a = <<>> /\ y.pc = Entry(l.target) /\ y.looped = FALSE /\ Fresh(s, l, y)

LEMMA GraphCaptures ==
  ASSUME NEW s, NEW l, NEW calls, NEW astray, NEW f, NEW y, NEW arms, NEW paths,
         Arrived(s, l, calls, astray, f, y, arms, paths),
         NEW m, m = Captured(l, y, Len(s), paths)
  PROVE  /\ GraphFit(s, m, calls, astray, f, y, arms, Len(s) + 1) /\ m \in Loops /\ TrialFit(s, m, arms, paths)
         /\ m.path = paths /\ Homes(m) = Homes(l)
<1> USE DEF Captured, Arrived
<1>1. l \in Loops /\ ~l.stable /\ l.at = 0 /\ Len(s) \in Nat /\ Len(s) >= 1
  BY DEF GraphFit, LoopFit, Fresh
<1>2. Homes(l) = {}
  BY <1>1 DEF Homes
<1>3. y \in Contexts(Operands(f, {}, Len(s)))
  BY <1>2 DEF Fit
<1>4. y.c \in Seq(Operands(f, {}, Len(s))) /\ y.conts \in Seq(Cont) /\ y.c \in Seq(Value)
  BY <1>3 DEF Contexts
<1>5. PICK n \in Nat : n = Len(s)
  BY <1>1
<1>6. PICK b \in BOOLEAN : b = TRUE
  OBVIOUS
<1>7. m = [l EXCEPT !.captured = b, !.initial = y.c, !.from = n, !.path = paths, !.conts = y.conts]
  BY <1>5, <1>6
<1>8. /\ m \in Loops /\ m.captured = b /\ m.stable = l.stable /\ m.at = l.at /\ m.from = n /\ m.target = l.target
      /\ m.initial = y.c /\ m.homes = l.homes /\ m.header = l.header /\ m.conts = y.conts /\ m.path = paths
  <2>1. PICK c, o : c = y.c /\ o = y.conts
    OBVIOUS
  <2>2. m = [l EXCEPT !.captured = b, !.initial = c, !.from = n, !.path = paths, !.conts = o]
    BY <1>7, <2>1
  <2>3. c \in Seq(Value) /\ o \in Seq(Cont) /\ l \in Loops /\ paths \in Nat /\ n \in Nat /\ b \in BOOLEAN
    BY <1>1, <1>4, <2>1
  <2>4. m \in Loops
    BY ONLY <2>2, <2>3 DEF Loops
  <2>5. /\ m.captured = b /\ m.stable = l.stable /\ m.at = l.at /\ m.from = n /\ m.target = l.target
        /\ m.initial = c /\ m.homes = l.homes /\ m.header = l.header /\ m.conts = o /\ m.path = paths
    BY ONLY <2>2, <2>3 DEF Loops
  <2> QED BY <2>1, <2>3, <2>4, <2>5
<1>9. Homes(m) = Homes(l) /\ \A i : Live(m, i) <=> Live(l, i)
  BY <1>1, <1>8 DEF Homes, Live
<1>10. ASSUME NEW i \in 1 .. Len(s)
       PROVE  /\ NodeFit(s[i], i, m, f) /\ Doing(s[i], m, calls, astray, f) /\ Points(s[i], i, arms, Len(s) + 1)
              /\ ~astray /\ Live(m, i) => Leads(s, m, y, i)
  <2>1. /\ NodeFit(s[i], i, l, f) /\ Doing(s[i], l, calls, astray, f) /\ Points(s[i], i, arms, Len(s) + 1)
        /\ ~astray /\ Live(l, i) => Leads(s, l, y, i)
    BY DEF GraphFit
  <2>2. NodeFit(s[i], i, m, f)
    BY <1>1, <1>8, <1>9, <2>1 DEF NodeFit, Early
  <2>3. Doing(s[i], m, calls, astray, f)
    BY <1>1, <2>1 DEF Doing
  <2>4. ~astray /\ Live(m, i) => Leads(s, m, y, i)
    BY <1>1, <1>8, <1>9, <2>1 DEF Leads, Linked
  <2> QED BY <2>1, <2>2, <2>3, <2>4
<1>11. \A k \in 1 .. Len(arms) : ArmFit(arms[k], s, m, astray)
  BY <1>9 DEF GraphFit, ArmFit
<1>12. LoopFit(m, s, f, y, Len(s) + 1, astray)
  BY <1>1, <1>4, <1>5, <1>6, <1>8 DEF LoopFit, Fresh
<1>13. GraphFit(s, m, calls, astray, f, y, arms, Len(s) + 1)
  BY <1>10, <1>11, <1>12 DEF GraphFit
<1>14. y = Inlet(m)
  <2>1. y = [pc |-> y.pc, a |-> y.a, c |-> y.c, conts |-> y.conts, looped |-> y.looped]
    BY <1>3 DEF Contexts
  <2> QED BY <1>8, <2>1 DEF Inlet
<1>15. \A k \in 1 .. Len(arms) : arms[k].at <= n
  BY <1>1, <1>5 DEF GraphFit, ArmFit
<1>16. TrialFit(s, m, arms, paths)
  BY <1>5, <1>8, <1>14, <1>15 DEF TrialFit, Fresh
<1> QED BY <1>8, <1>9, <1>13, <1>16

\* The second one.
Changed(l, y)       == {d \in DOMAIN y.c : y.c[d] # l.initial[d]}
Headed(y, moved)    == [d \in DOMAIN y.c |-> IF d \in moved THEN LoopHome(d) ELSE y.c[d]]
Onset(s, l, paths)  == IF paths = l.path THEN l.from ELSE Len(s)
Rerouted(s, from)   == [i \in DOMAIN s |-> IF i = from THEN [s[i] EXCEPT !.next = Len(s) + 1] ELSE s[i]]
Stabled(l, header, moved, at) == [l EXCEPT !.stable = TRUE, !.header = header, !.homes = moved, !.at = at]
Astray(a, l, y, paths) == a \/ paths # l.path \/ y.conts # l.conts
Over(y, header)     == [y EXCEPT !.c = header, !.looped = TRUE]

\* What the second arrival finds.
Second(s, l, calls, astray, f, y, arms, paths) ==
  /\ s \in Seq(Nodes) /\ astray \in BOOLEAN /\ arms \in Seq(Arms) /\ paths \in Nat
  /\ GraphFit(s, l, calls, astray, f, y, arms, Len(s) + 1) /\ l.captured /\ ~l.stable /\ TrialFit(s, l, arms, paths)
  /\ Fit(y, Operands(f, Homes(l), Len(s))) /\ Cells(Operands(f, {}, Len(s)))
  /\ y.a = <<>> /\ y.pc = Entry(l.target) /\ Len(y.c) = Len(l.initial) /\ Fresh(s, l, y) /\ y.looped = FALSE

LEMMA GraphStable ==
  ASSUME NEW s, NEW l, NEW calls, NEW astray, NEW f, NEW y, NEW arms, NEW paths,
         Second(s, l, calls, astray, f, y, arms, paths)
  PROVE  LET moved  == Changed(l, y)
             header == Headed(y, moved)
             m == Stabled(l, header, moved, Len(s) + 1)
             t == Rerouted(s, Onset(s, l, paths))
             z == Over(y, header)
         IN  /\ GraphFit(t, m, calls, Astray(astray, l, y, paths), f, z, arms, Len(s) + 1)
             /\ t \in Seq(Nodes) /\ m \in Loops /\ Len(t) = Len(s)
             /\ Fit(z, Operands(f, Homes(m), Len(t))) /\ z.pc = y.pc /\ z.conts = y.conts /\ m.path = l.path /\ m.stable
<1>0. PICK moved, header, from, t, m, a, z :
        /\ moved = Changed(l, y) /\ header = Headed(y, moved) /\ from = Onset(s, l, paths)
        /\ t = Rerouted(s, from) /\ m = Stabled(l, header, moved, Len(s) + 1)
        /\ a = Astray(astray, l, y, paths) /\ z = Over(y, header)
  OBVIOUS
<1> SUFFICES /\ GraphFit(t, m, calls, a, f, z, arms, Len(s) + 1)
             /\ t \in Seq(Nodes) /\ m \in Loops /\ Len(t) = Len(s)
             /\ Fit(z, Operands(f, Homes(m), Len(t))) /\ z.pc = y.pc /\ z.conts = y.conts /\ m.path = l.path /\ m.stable
  BY <1>0
<1> USE <1>0 DEF Second
<1> USE DEF Changed, Headed, Onset, Rerouted, Stabled, Astray, Over
<1>1. PICK n \in Nat : n = Len(s)
  OBVIOUS
<1>2. /\ l \in Loops /\ l.at = 0 /\ n >= 1 /\ l.from \in 1 .. n - 1 /\ l.target \in Functions /\ l.from \in Nat
      /\ s[l.from].does = "step" /\ l.initial \in Seq(Operands(f, {}, l.from))
  BY <1>1 DEF GraphFit, LoopFit, Fresh
<1>3. Homes(l) = {}
  BY DEF Homes
<1>4. y \in Contexts(Operands(f, {}, n)) /\ Shape(y)
  BY <1>1, <1>3 DEF Fit
<1>5. y.c \in Seq(Operands(f, {}, n))
      /\ y = [pc |-> y.pc, a |-> y.a, c |-> y.c, conts |-> y.conts, looped |-> y.looped]
      /\ y.pc \in Nat \X Nat /\ y.conts \in Seq(Cont)
  BY <1>4 DEF Contexts
<1>6. PICK w \in Nat : w = Len(y.c) /\ DOMAIN y.c = 1 .. w
  <2>1. PICK T : T = Operands(f, {}, n)
    OBVIOUS
  <2>2. PICK c \in Seq(T) : c = y.c
    BY <1>5, <2>1
  <2>3. Len(c) \in Nat /\ DOMAIN c = 1 .. Len(c)
    OBVIOUS
  <2> QED BY <2>2, <2>3
<1>7. Len(l.initial) = w /\ moved \subseteq 1 .. w /\ moved \subseteq Nat
  BY <1>6
<1>8. \A d \in 1 .. w : d \in moved <=> y.c[d] # l.initial[d]
  BY <1>6
<1>9. header \in Seq(Operands(f, moved, n)) /\ Len(header) = w
      /\ \A d \in 1 .. w : header[d] = IF d \in moved THEN LoopHome(d) ELSE l.initial[d]
  <2>1. ASSUME NEW d \in 1 .. w PROVE (IF d \in moved THEN LoopHome(d) ELSE y.c[d]) \in Operands(f, moved, n)
    <3>1. CASE d \in moved
      <4>1. PICK k \in Nat : k = 0
        OBVIOUS
      <4>2. LoopHome(d) = [base |-> "home", n |-> d, plus |-> k]
        BY <4>1 DEF LoopHome
      <4>3. LoopHome(d) \in [base : {"home"}, n : moved, plus : Nat]
        BY <3>1, <4>2
      <4> QED BY <3>1, <4>3 DEF Operands
    <3>2. CASE d \notin moved
      <4>1. y.c[d] \in Operands(f, {}, n)
        BY <1>5, <1>6, ElementOfSeq
      <4>2. Operands(f, {}, n) \subseteq Operands(f, moved, n)
        BY OperandsGrow
      <4> QED BY <3>2, <4>1, <4>2
    <3> QED BY <3>1, <3>2
  <2>2. header = [d \in 1 .. w |-> IF d \in moved THEN LoopHome(d) ELSE y.c[d]]
    BY <1>6
  <2>3. header \in [1 .. w -> Operands(f, moved, n)]
    BY <2>1, <2>2
  <2>4. header \in Seq(Operands(f, moved, n)) /\ Len(header) = w
    <3>1. PICK T : T = Operands(f, moved, n)
      OBVIOUS
    <3>2. PICK g \in [1 .. w -> T] : g = header
      BY <2>3, <3>1
    <3>3. g \in Seq(T) /\ Len(g) = w
      BY FunctionIsSeq
    <3> QED BY <3>1, <3>2, <3>3
  <2> QED BY <1>8, <2>2, <2>4
<1>10. header \in Seq(Value)
  <2>1. header = [d \in 1 .. w |-> IF d \in moved THEN LoopHome(d) ELSE y.c[d]]
    BY <1>6
  <2>2. ASSUME NEW d \in 1 .. w PROVE (IF d \in moved THEN LoopHome(d) ELSE y.c[d]) \in Value
    <3>1. y.c[d] \in Value
      BY <1>1, <1>5, <1>6, ElementOfSeq DEF Cells
    <3>2. LoopHome(d) \in Value
      <4>1. PICK k \in Nat : k = 0
        OBVIOUS
      <4>2. LoopHome(d) = [base |-> "home", n |-> d, plus |-> k]
        BY <4>1 DEF LoopHome
      <4> QED BY <4>2 DEF Value
    <3> QED BY <3>1, <3>2
  <2>3. header \in [1 .. w -> Value]
    BY <2>1, <2>2
  <2> QED BY <2>3, FunctionIsSeq
<1>11. /\ m \in Loops /\ m.captured = l.captured /\ m.stable = TRUE /\ m.at = n + 1 /\ m.from = l.from /\ m.target = l.target
       /\ m.initial = l.initial /\ m.homes = moved /\ m.header = header /\ m.conts = l.conts /\ m.path = l.path
  <2>1. PICK b \in BOOLEAN : b = TRUE
    OBVIOUS
  <2>2. PICK k \in Nat : k = n + 1
    OBVIOUS
  <2>3. m = [l EXCEPT !.stable = b, !.header = header, !.homes = moved, !.at = k]
    BY <1>1, <2>1, <2>2
  <2>4. moved \in SUBSET Nat
    BY <1>7
  <2>5. /\ m \in Loops /\ m.captured = l.captured /\ m.stable = b /\ m.at = k /\ m.from = l.from /\ m.target = l.target
        /\ m.initial = l.initial /\ m.homes = moved /\ m.header = header /\ m.conts = l.conts /\ m.path = l.path
    <3>1. l \in Loops /\ header \in Seq(Value) /\ b \in BOOLEAN /\ k \in Nat
      BY <1>2, <1>10
    <3>2. m \in Loops
      BY ONLY <2>3, <2>4, <3>1 DEF Loops
    <3>3. /\ m.captured = l.captured /\ m.stable = b /\ m.at = k /\ m.from = l.from /\ m.target = l.target
          /\ m.initial = l.initial /\ m.homes = moved /\ m.header = header /\ m.conts = l.conts /\ m.path = l.path
      BY ONLY <2>3, <3>1 DEF Loops
    <3> QED BY <3>2, <3>3
  <2> QED BY <2>1, <2>2, <2>5
<1>12. Homes(m) = moved
  BY <1>11 DEF Homes
<1>13. z = [pc |-> y.pc, a |-> y.a, c |-> header, conts |-> y.conts, looped |-> TRUE]
  BY <1>5
<1>14. z.pc = y.pc /\ z.a = y.a /\ z.c = header /\ z.conts = y.conts /\ z.looped = TRUE
  BY <1>13
<1>15. Fit(z, Operands(f, Homes(m), n))
  <2>1. z \in Contexts(Operands(f, moved, n))
    <3>1. y.a \in Seq(Operands(f, moved, n))
      OBVIOUS
    <3> QED BY <1>5, <1>9, <1>13, <3>1 DEF Contexts
  <2>2. Shape(z)
    BY <1>4, <1>6, <1>9, <1>14 DEF Shape
  <2> QED BY <1>12, <2>1, <2>2 DEF Fit
<1>16. from \in 1 .. n /\ (~a => from = l.from)
  <2>1. CASE paths = l.path
    BY <1>1, <1>2, <2>1
  <2>2. CASE paths # l.path
    <3>1. from = n /\ n \in 1 .. n
      BY <1>1, <1>2, <2>2
    <3>2. a
      BY <2>2
    <3> QED BY <3>1, <3>2
  <2> QED BY <2>1, <2>2
<1>17. /\ t \in Seq(Nodes) /\ Len(t) = n
       /\ \A i \in 1 .. n : /\ t[i].x = s[i].x /\ t[i].does = s[i].does /\ t[i].taken = s[i].taken
                            /\ t[i].next = IF i = from THEN n + 1 ELSE s[i].next
  <2>1. DOMAIN s = 1 .. n
    BY <1>1
  <2>2. ASSUME NEW i \in 1 .. n
        PROVE  LET e == IF i = from THEN [s[i] EXCEPT !.next = n + 1] ELSE s[i]
               IN  e \in Nodes /\ e.x = s[i].x /\ e.does = s[i].does /\ e.taken = s[i].taken
                   /\ e.next = IF i = from THEN n + 1 ELSE s[i].next
    <3>1. PICK k \in Nodes : k = s[i]
      BY <1>1, ElementOfSeq
    <3>2. PICK o \in Nat : o = n + 1
      OBVIOUS
    <3>3. PICK e : e = [k EXCEPT !.next = o]
      OBVIOUS
    <3>4. e \in Nodes /\ e.x = k.x /\ e.does = k.does /\ e.taken = k.taken /\ e.next = o
      <4>1. k \in Nodes /\ o \in Nat
        OBVIOUS
      <4> QED BY ONLY <3>3, <4>1 DEF Nodes
    <3> QED BY <3>1, <3>2, <3>3, <3>4
  <2>3. t = [i \in 1 .. n |-> IF i = from THEN [s[i] EXCEPT !.next = n + 1] ELSE s[i]]
    BY <1>1, <2>1
  <2>4. t \in [1 .. n -> Nodes]
    BY <2>2, <2>3
  <2>5. t \in Seq(Nodes) /\ Len(t) = n
    BY <2>4, FunctionIsSeq
  <2>6. \A i \in 1 .. n : t[i] = IF i = from THEN [s[i] EXCEPT !.next = n + 1] ELSE s[i]
    BY <2>3
  <2> QED BY <2>2, <2>5, <2>6
<1>18. ASSUME NEW i \in 1 .. n
       PROVE  NodeFit(t[i], i, m, f) /\ Doing(t[i], m, calls, a, f) /\ Points(t[i], i, arms, n + 1)
  <2>1. NodeFit(s[i], i, l, f) /\ Doing(s[i], l, calls, astray, f) /\ Points(s[i], i, arms, n + 1)
    BY <1>1 DEF GraphFit
  <2>2. t[i].x = s[i].x /\ t[i].does = s[i].does
    BY <1>17
  <2>3. NodeFit(t[i], i, m, f)
    <3>1. Fit(s[i].x, Operands(f, {}, i - 1)) /\ Inside(s[i].x, f)
      BY <1>3, <2>1 DEF NodeFit
    <3>2. i - 1 \in Nat
      OBVIOUS
    <3>3. Operands(f, {}, i - 1) \subseteq Operands(f, moved, i - 1)
      BY <3>2, OperandsGrow
    <3>4. Fit(s[i].x, Operands(f, moved, i - 1))
      BY <3>1, <3>3, FitGrows
    <3>5. ~s[i].x.looped
      BY <2>1 DEF NodeFit, Early
    <3>6. Early(t[i], i, m, f)
      BY <2>2, <3>1, <3>5 DEF Early
    <3> QED BY <1>12, <2>2, <3>1, <3>4, <3>6 DEF NodeFit
  <2>4. Doing(t[i], l, calls, astray, f)
    BY <2>1, <2>2, DoingSame
  <2>5. Doing(t[i], m, calls, a, f)
    BY <2>4 DEF Doing
  <2>6. Points(t[i], i, arms, n + 1)
    <3>1. n + 1 \in i + 1 .. n + 1
      OBVIOUS
    <3> QED BY <1>17, <2>1, <3>1 DEF Points
  <2> QED BY <2>3, <2>5, <2>6
<1>19. ~a => /\ \A i \in 1 .. l.from - 1 : (s[i].does \in Leading => s[i].next <= l.from) /\ s[i].taken <= l.from
             /\ Out(s[l.from], l.from) = Inlet(l)
             /\ \A k \in 1 .. Len(arms) : arms[k].at <= l.from
  BY DEF TrialFit
<1>20. \A k \in 1 .. n : Where(t, z, k) = s[k].x /\ Where(s, y, k) = s[k].x
  BY <1>1, <1>17 DEF Where
<1>21. Where(t, z, n + 1) = z
  BY <1>17 DEF Where
<1>22. z = Head_(m) \/ a
  BY <1>11, <1>13 DEF Head_
<1>23. ASSUME NEW i \in 1 .. n, ~a, Live(m, i) PROVE Leads(t, m, z, i)
  <2>1. i <= l.from
    <3>1. ~(m.from < i /\ i < m.at)
      BY <1>11, <1>23 DEF Live
    <3> QED BY <1>2, <1>11, <3>1
  <2>2. t[i].x = s[i].x /\ t[i].does = s[i].does /\ t[i].taken = s[i].taken /\ Out(t[i], i) = Out(s[i], i)
        /\ t[i].next = IF i = from THEN n + 1 ELSE s[i].next
    <3>1. t[i].x = s[i].x /\ t[i].does = s[i].does /\ t[i].taken = s[i].taken
          /\ t[i].next = IF i = from THEN n + 1 ELSE s[i].next
      BY <1>17
    <3>2. t[i].x = s[i].x /\ t[i].does = s[i].does
      BY <3>1
    <3>3. Out(t[i], i) = Out(s[i], i)
      <4>1. PICK u, v : u = t[i] /\ v = s[i]
        OBVIOUS
      <4>2. u.x = v.x /\ u.does = v.does
        BY <3>2, <4>1
      <4>3. Out(u, i) = Out(v, i)
        BY ONLY <4>2, OutSame
      <4> QED BY ONLY <4>1, <4>3
    <3> QED BY <3>1, <3>3
  <2>3. CASE i < l.from
    <3>1. Leads(s, l, y, i) /\ Points(s[i], i, arms, n + 1)
      <4>1. Live(l, i)
        BY DEF Live
      <4>2. Points(s[i], i, arms, n + 1)
        BY <1>1 DEF GraphFit
      <4>3. Leads(s, l, y, i)
        BY <1>1, <1>23, <4>1 DEF GraphFit
      <4> QED BY <4>2, <4>3
    <3>2. i \in 1 .. l.from - 1
      BY <1>2, <2>3
    <3>3. ASSUME NEW k \in 1 .. l.from, NEW o, Linked(s, l, y, i, k, o) PROVE Linked(t, m, z, i, k, o)
      <4>1. k \in 1 .. n /\ k # m.at /\ Live(m, k)
        <5>1. PICK p \in Nat : p = l.from /\ p < n
          BY <1>2
        <5>2. m.at = n + 1 /\ m.from = p
          BY <1>11, <5>1
        <5>3. k \in 1 .. p
          BY <5>1
        <5>4. n \in Nat
          OBVIOUS
        <5> QED BY ONLY <5>1, <5>2, <5>3, <5>4 DEF Live
      <4>2. o = s[k].x
        BY <1>20, <3>3, <4>1 DEF Linked
      <4> QED BY <1>20, <4>1, <4>2 DEF Linked
    <3>4. /\ s[i].does \in Leading => s[i].next \in 1 .. l.from
          /\ s[i].taken # 0 => s[i].taken \in 1 .. l.from
      <4>1. (s[i].does \in Leading => s[i].next <= l.from) /\ s[i].taken <= l.from
        BY <1>19, <1>23, <3>2
      <4>2. (s[i].does \in Leading => s[i].next \in i + 1 .. n + 1) /\ s[i].taken \in {0} \cup (i + 1 .. n + 1)
        BY ONLY <3>1 DEF Points
      <4>3. PICK p \in Nat : p = l.from
        BY <1>2
      <4>4. PICK e : e = s[i]
        OBVIOUS
      <4>5. (e.does \in Leading => e.next <= p) /\ e.taken <= p
        BY ONLY <4>1, <4>3, <4>4
      <4>6. (e.does \in Leading => e.next \in i + 1 .. n + 1) /\ e.taken \in {0} \cup (i + 1 .. n + 1)
        BY ONLY <4>2, <4>4
      <4>7. i \in 1 .. n /\ n \in Nat
        OBVIOUS
      <4>8. (e.does \in Leading => e.next \in 1 .. p) /\ (e.taken # 0 => e.taken \in 1 .. p)
        BY ONLY <4>3, <4>5, <4>6, <4>7
      <4> QED BY ONLY <4>3, <4>4, <4>8
    <3>5. i # from
      BY <1>16, <1>23, <2>3, <1>2
    <3> QED BY <2>2, <3>1, <3>3, <3>4, <3>5 DEF Leads
  <2>4. CASE i = l.from
    <3>1. i = from /\ t[i].next = n + 1 /\ t[i].does = "step"
      BY <1>2, <1>16, <1>23, <2>2, <2>4
    <3>2. Out(t[i], i) = [z EXCEPT !.c = m.initial, !.looped = FALSE]
      <4>1. Out(t[i], i) = Inlet(l)
        BY <1>19, <1>23, <2>2, <2>4
      <4>2. [z EXCEPT !.c = m.initial, !.looped = FALSE]
              = [pc |-> y.pc, a |-> y.a, c |-> l.initial, conts |-> y.conts, looped |-> FALSE]
        <5>1. PICK v : v = l.initial
          OBVIOUS
        <5>2. [z EXCEPT !.c = v, !.looped = FALSE] = [pc |-> y.pc, a |-> y.a, c |-> v, conts |-> y.conts, looped |-> FALSE]
          <6>1. PICK p, q, h, k, b, u : p = y.pc /\ q = y.a /\ h = header /\ k = y.conts /\ b = TRUE /\ u = FALSE
            OBVIOUS
          <6>2. PICK o : o = [pc |-> p, a |-> q, c |-> h, conts |-> k, looped |-> b]
            OBVIOUS
          <6>3. o = z
            BY <1>13, <6>1, <6>2
          <6>4. PICK e : e = [o EXCEPT !.c = v, !.looped = u]
            OBVIOUS
          <6>5. e = [pc |-> p, a |-> q, c |-> v, conts |-> k, looped |-> u]
            BY ONLY <6>2, <6>4
          <6> QED BY <6>1, <6>3, <6>4, <6>5
        <5> QED BY <1>11, <5>1, <5>2
      <4>3. y.conts = l.conts
        BY <1>23
      <4> QED BY <4>1, <4>2, <4>3 DEF Inlet
    <3>3. Live(m, n + 1)
      BY <1>11 DEF Live
    <3>4. Linked(t, m, z, i, n + 1, Out(t[i], i))
      BY <1>11, <1>21, <2>4, <3>2, <3>3 DEF Linked
    <3> QED BY <3>1, <3>4 DEF Leads
  <2> QED BY <1>2, <2>1, <2>3, <2>4
<1>24. ASSUME NEW k \in 1 .. Len(arms) PROVE ArmFit(arms[k], t, m, a)
  <2>1. ArmFit(arms[k], s, l, astray)
    BY DEF GraphFit
  <2>2. arms[k].at \in 1 .. n /\ (~a => arms[k].at <= l.from)
    BY <1>1, <1>19, <2>1 DEF ArmFit
  <2>3. ~a => Live(m, arms[k].at)
    BY <1>2, <1>11, <2>2 DEF Live
  <2> QED BY <1>1, <1>17, <2>1, <2>2, <2>3 DEF ArmFit
<1>25. LoopFit(m, t, f, z, n + 1, a)
  <2>1. m.from \in 1 .. Len(t) /\ t[m.from].does = "step"
    BY <1>2, <1>11, <1>17
  <2>2. m.at \in 1 .. n + 1 /\ m.homes \subseteq 1 .. Len(m.initial) /\ Len(m.header) = Len(m.initial)
    BY <1>7, <1>9, <1>11
  <2>3. \A d \in 1 .. Len(m.header) : m.header[d] = IF d \in m.homes THEN LoopHome(d) ELSE m.initial[d]
    BY <1>9, <1>11
  <2>4. ~a => m.from + 1 < m.at /\ Where(t, z, m.at) = Head_(m)
    <3>1. PICK p \in Nat : p = l.from /\ p < n
      BY <1>2
    <3>2. m.at = n + 1 /\ m.from = p
      BY <1>11, <3>1
    <3>3. n \in Nat
      OBVIOUS
    <3>4. m.from + 1 < m.at
      BY ONLY <3>1, <3>2, <3>3
    <3> QED BY ONLY <1>21, <1>22, <3>2, <3>4
  <2> QED BY <1>2, <1>11, <2>1, <2>2, <2>3, <2>4 DEF LoopFit
<1>26. Where(t, z, 1) = EntryContext(f)
  <2>1. Where(s, y, 1) = EntryContext(f) /\ 1 \in 1 .. n
    BY <1>2 DEF GraphFit
  <2> QED BY <1>20, <2>1
<1>27. GraphFit(t, m, calls, a, f, z, arms, Len(t) + 1)
  BY <1>17, <1>18, <1>23, <1>24, <1>25, <1>26 DEF GraphFit
<1> QED BY <1>1, <1>11, <1>14, <1>15, <1>17, <1>27

-----------------------------------------------------------------------------
(* Jobs.                                                                     *)

CallsFit(cs) == \A c \in cs : c.to \in Functions /\ c.facts \in [1 .. Arity(c.to) -> Facts]

\* A job on its way, and one whose paths have all ended.
Walks(j) ==
  /\ j \in Jobs /\ j.state = "walking" /\ j.f \in Functions /\ CallsFit(j.calls) /\ j.loop.path <= j.paths
  /\ GraphFit(j.nodes, j.loop, j.calls, j.astray, j.f, j.x, j.arms, Len(j.nodes) + 1)
  /\ TrialFit(j.nodes, j.loop, j.arms, j.paths)
  /\ Fit(j.x, Operands(j.f, Homes(j.loop), Len(j.nodes))) /\ Inside(j.x, j.f)
  /\ ~j.loop.stable => ~j.x.looped

Ended(j) ==
  /\ j \in Jobs /\ j.f \in Functions /\ CallsFit(j.calls) /\ j.nodes # <<>>
  /\ GraphFit(j.nodes, j.loop, j.calls, j.astray, j.f, 0, <<>>, Len(j.nodes))

JobFit(j) ==
  /\ j.f \in Functions /\ j.state \in {"walking", "walked", "failed"}
  /\ j.state = "walking" => Walks(j)
  /\ j.state = "walked" => Ended(j)

LEMMA FailedFits ==
  ASSUME NEW j \in Jobs, j.f \in Functions
  PROVE  JobFit(Failed(j)) /\ Failed(j).f = j.f
BY FailedIs DEF JobFit

LEMMA WalksParts ==
  ASSUME program \in Programs, NEW j, Walks(j)
  PROVE  LET S == Operands(j.f, Homes(j.loop), Len(j.nodes))
         IN  /\ j \in Jobs /\ j.state = "walking" /\ j.f \in Functions /\ CallsFit(j.calls) /\ j.loop.path <= j.paths
             /\ j = Parts(j.f, j.x, j.nodes, j.arms, j.paths, j.loop, j.calls, j.astray, "walking")
             /\ j.f \in Nat /\ j.x \in Contexts(Value) /\ j.nodes \in Seq(Nodes) /\ j.arms \in Seq(Arms) /\ j.paths \in Nat
             /\ j.loop \in Loops /\ j.calls \in SUBSET Claims /\ j.astray \in BOOLEAN
             /\ Len(j.nodes) \in Nat /\ Arity(j.f) \in Nat
             /\ Cells(S) /\ Fit(j.x, S) /\ Inside(j.x, j.f) /\ (~j.loop.stable => ~j.x.looped)
<1>1. j \in Jobs /\ j.state = "walking" /\ j.f \in Functions /\ CallsFit(j.calls) /\ j.loop.path <= j.paths
      /\ Fit(j.x, Operands(j.f, Homes(j.loop), Len(j.nodes))) /\ Inside(j.x, j.f) /\ (~j.loop.stable => ~j.x.looped)
  BY DEF Walks
<1>2. /\ j = Parts(j.f, j.x, j.nodes, j.arms, j.paths, j.loop, j.calls, j.astray, j.state)
      /\ j.f \in Nat /\ j.x \in Contexts(Value) /\ j.nodes \in Seq(Nodes) /\ j.arms \in Seq(Arms) /\ j.paths \in Nat
      /\ j.loop \in Loops /\ j.calls \in SUBSET Claims /\ j.astray \in BOOLEAN
      /\ Len(j.nodes) \in Nat
  BY <1>1, JobParts
<1>3. Arity(j.f) \in Nat
  BY <1>1, FunctionTypes
<1>4. Homes(j.loop) \in SUBSET Nat
  BY <1>2, HomesTyped
<1>5. Cells(Operands(j.f, Homes(j.loop), Len(j.nodes)))
  BY <1>2, <1>3, <1>4, OperandsAreCells
<1> QED BY <1>1, <1>2, <1>3, <1>5

\* What a call passes is a claim on its target.
LEMMA ClaimIs ==
  ASSUME program \in Programs, NEW f \in Functions, NEW S, Cells(S), NEW s \in Seq(S), Len(s) = Arity(f)
  PROVE  /\ Claim(f, s) \in Claims /\ Claim(f, s).to = f /\ Claim(f, s).facts \in [1 .. Arity(f) -> Facts]
         /\ \A i \in 1 .. Arity(f) : Claim(f, s).facts[i] = Fact(s[i])
<1>1. PICK n \in Nat : n = Arity(f)
  BY FunctionTypes
<1>2. ASSUME NEW i \in 1 .. n PROVE Fact(s[i]) \in Facts
  <2>1. s[i] \in S
    BY <1>1, ElementOfSeq
  <2> QED BY <2>1 DEF Cells, Fact, Facts, IsConst
<1>3. PICK g : g = [i \in 1 .. n |-> Fact(s[i])]
  OBVIOUS
<1>4. g \in [1 .. n -> Facts]
  BY <1>2, <1>3
<1>5. g \in Seq(Facts)
  BY <1>4, FunctionIsSeq
<1>6. Claim(f, s) = [to |-> f, facts |-> g]
  BY <1>1, <1>3 DEF Claim
<1>7. f \in Nat
  BY FunctionTypes DEF Functions
<1> QED BY <1>1, <1>3, <1>4, <1>5, <1>6, <1>7 DEF Claims

\* More may be recorded, and the walk may go astray.
LEMMA WalksMore ==
  ASSUME program \in Programs, NEW j, Walks(j), NEW c \in SUBSET Claims, j.calls \subseteq c, CallsFit(c),
         NEW a \in BOOLEAN, j.astray => a,
         NEW k, k = Parts(j.f, j.x, j.nodes, j.arms, j.paths, j.loop, c, a, "walking")
  PROVE  Walks(k)
<1>1. /\ j \in Jobs /\ j.f \in Functions /\ j.loop.path <= j.paths
      /\ GraphFit(j.nodes, j.loop, j.calls, j.astray, j.f, j.x, j.arms, Len(j.nodes) + 1)
      /\ TrialFit(j.nodes, j.loop, j.arms, j.paths)
      /\ Fit(j.x, Operands(j.f, Homes(j.loop), Len(j.nodes))) /\ Inside(j.x, j.f)
      /\ (~j.loop.stable => ~j.x.looped)
  BY DEF Walks
<1>2. GraphFit(j.nodes, j.loop, c, a, j.f, j.x, j.arms, Len(j.nodes) + 1)
  BY <1>1, GraphWeakens
<1>3. k \in Jobs
  BY <1>1, JobParts, PartsTyped
<1>4. /\ k.f = j.f /\ k.x = j.x /\ k.nodes = j.nodes /\ k.arms = j.arms /\ k.paths = j.paths /\ k.loop = j.loop
      /\ k.calls = c /\ k.astray = a /\ k.state = "walking"
  BY PartsAre
<1> QED BY <1>1, <1>2, <1>3, <1>4 DEF Walks

\* The node that is made here: before the loop stands no home.
LEMMA NodeHere ==
  ASSUME program \in Programs, NEW j, Walks(j), NEW n, n.x = j.x
  PROVE  NodeFit(n, Len(j.nodes) + 1, j.loop, j.f)
<1>1. /\ Fit(j.x, Operands(j.f, Homes(j.loop), Len(j.nodes))) /\ Inside(j.x, j.f) /\ (~j.loop.stable => ~j.x.looped)
      /\ LoopFit(j.loop, j.nodes, j.f, j.x, Len(j.nodes) + 1, j.astray)
  BY DEF Walks, GraphFit
<1>2. Len(j.nodes) \in Nat /\ (Len(j.nodes) + 1) - 1 = Len(j.nodes)
  BY WalksParts
<1>3. CASE ~j.loop.stable
  BY <1>1, <1>2, <1>3 DEF NodeFit, Early, Homes
<1>4. CASE j.loop.stable
  <2>1. ~(Len(j.nodes) + 1 < j.loop.at)
    BY <1>1, <1>2, <1>4 DEF LoopFit
  <2> QED BY <1>1, <1>2, <1>4, <2>1 DEF NodeFit, Early
<1> QED BY <1>3, <1>4

\* The first call of a function that only calls itself as its tail.
LEMMA WalksOpened ==
  ASSUME program \in Programs, NEW j, Walks(j), j.loop.target = 0, NEW g \in Functions,
         NEW l, l = [j.loop EXCEPT !.target = g],
         NEW k, k = Parts(j.f, j.x, j.nodes, j.arms, j.paths, l, j.calls, j.astray, "walking"),
         Fresh(j.nodes, j.loop, j.x)
  PROVE  Walks(k) /\ Fresh(k.nodes, k.loop, k.x) /\ k.loop.target = g
<1>1. /\ j \in Jobs /\ j.f \in Functions /\ j.loop.path <= j.paths /\ CallsFit(j.calls)
      /\ GraphFit(j.nodes, j.loop, j.calls, j.astray, j.f, j.x, j.arms, Len(j.nodes) + 1)
      /\ TrialFit(j.nodes, j.loop, j.arms, j.paths)
      /\ Fit(j.x, Operands(j.f, Homes(j.loop), Len(j.nodes))) /\ Inside(j.x, j.f)
      /\ (~j.loop.stable => ~j.x.looped)
  BY DEF Walks
<1>2. j.loop \in Loops /\ ~j.loop.captured /\ ~j.loop.stable
  <2>1. LoopFit(j.loop, j.nodes, j.f, j.x, Len(j.nodes) + 1, j.astray)
    BY <1>1 DEF GraphFit
  <2>2. 0 \notin Functions
    BY DEF Functions
  <2> QED BY <2>1, <2>2 DEF LoopFit
<1>3. g \in Nat
  BY FunctionTypes DEF Functions
<1>4. GraphFit(j.nodes, l, j.calls, j.astray, j.f, j.x, j.arms, Len(j.nodes) + 1)
  BY <1>1, <1>2, <1>3, GraphOpens
<1>5. PICK o \in Loops : o = j.loop
  BY <1>2
<1>6. l \in Loops /\ l.path = o.path /\ l.captured = o.captured /\ l.stable = o.stable /\ l.target = g
  <2>1. l = [o EXCEPT !.target = g]
    BY <1>5
  <2> QED BY <1>3, <2>1 DEF Loops
<1>7. k \in Jobs
  BY <1>1, <1>6, JobParts, PartsTyped
<1>8. /\ k.f = j.f /\ k.x = j.x /\ k.nodes = j.nodes /\ k.arms = j.arms /\ k.paths = j.paths /\ k.loop = l
      /\ k.calls = j.calls /\ k.astray = j.astray /\ k.state = "walking"
  BY PartsAre
<1>9. ~l.captured /\ Homes(l) = Homes(j.loop)
  BY <1>2, <1>5, <1>6 DEF Homes
<1>10. TrialFit(j.nodes, l, j.arms, j.paths) /\ Fresh(j.nodes, l, j.x)
  BY <1>9 DEF TrialFit, Fresh
<1>11. Walks(k)
  BY <1>1, <1>4, <1>5, <1>6, <1>7, <1>8, <1>9, <1>10 DEF Walks
<1> QED BY <1>6, <1>8, <1>10, <1>11

\* The walk goes on, at y.
LEMMA WalksOn ==
  ASSUME program \in Programs, NEW j, Walks(j), NEW does \in {"step", "call"},
         NEW n, n = New(j.x, does, Len(j.nodes) + 2), Doing(n, j.loop, j.calls, j.astray, j.f),
         NEW y, y = Out(n, Len(j.nodes) + 1), Inside(y, j.f), y.looped = j.x.looped,
         Fit(y, Operands(j.f, Homes(j.loop), Len(j.nodes) + 1))
  PROVE  LET h == Noted(j, does)
             k == Moved(h, y)
         IN  /\ Walks(k) /\ h \in Jobs /\ h.x = j.x /\ h.f = j.f /\ h.calls = j.calls
             /\ k.x = y /\ k.f = j.f /\ k.loop = j.loop /\ k.calls = j.calls /\ y \in Contexts(Value)
             /\ h = Parts(j.f, j.x, Append(j.nodes, n), j.arms, j.paths, j.loop, j.calls, j.astray, "walking")
             /\ k = Parts(j.f, y, Append(j.nodes, n), j.arms, j.paths, j.loop, j.calls, j.astray, "walking")
             /\ k.nodes = Append(j.nodes, n)
             /\ does = "step" => Fresh(k.nodes, k.loop, y)
<1>0. PICK t, h, k : t = Append(j.nodes, n) /\ h = Noted(j, does) /\ k = Moved(h, y)
  OBVIOUS
<1>1. /\ j \in Jobs /\ j.state = "walking" /\ j.f \in Functions /\ j.loop.path <= j.paths /\ CallsFit(j.calls)
      /\ GraphFit(j.nodes, j.loop, j.calls, j.astray, j.f, j.x, j.arms, Len(j.nodes) + 1)
      /\ TrialFit(j.nodes, j.loop, j.arms, j.paths)
      /\ Fit(j.x, Operands(j.f, Homes(j.loop), Len(j.nodes))) /\ Inside(j.x, j.f)
      /\ (~j.loop.stable => ~j.x.looped)
  BY DEF Walks
<1>2. /\ j.f \in Nat /\ j.x \in Contexts(Value) /\ j.nodes \in Seq(Nodes) /\ j.arms \in Seq(Arms) /\ j.paths \in Nat
      /\ j.loop \in Loops /\ j.calls \in SUBSET Claims /\ j.astray \in BOOLEAN
      /\ Len(j.nodes) \in Nat /\ Arity(j.f) \in Nat
  BY WalksParts
<1>3. does \in Kinds /\ does \in Leading /\ does # "fork"
  BY DEF Kinds, Leading
<1>4. Len(j.nodes) + 2 \in Nat
  BY <1>2
<1>5. n \in Nodes /\ n.x = j.x /\ n.does = does /\ n.next = Len(j.nodes) + 2 /\ n.taken = 0
  BY <1>2, <1>3, <1>4, NewTyped
<1>6. Grown(j.nodes, t, n, j.x)
  BY <1>0, <1>2, <1>5 DEF Grown
<1>7. t \in Seq(Nodes) /\ Len(t) = Len(j.nodes) + 1
  BY <1>6, GrownParts
<1>8. h = Parts(j.f, j.x, t, j.arms, j.paths, j.loop, j.calls, j.astray, "walking") /\ h \in Jobs
  BY <1>0, <1>1, <1>3, NotedIs
<1>9. y \in Contexts(Value)
  <2>1. Homes(j.loop) \in SUBSET Nat
    BY <1>2, HomesTyped
  <2>2. Len(j.nodes) + 1 \in Nat
    BY <1>2
  <2>3. Operands(j.f, Homes(j.loop), Len(j.nodes) + 1) \subseteq Value
    BY <1>2, <2>1, <2>2, OperandsAreCells DEF Cells
  <2>4. Fit(y, Value)
    BY <2>3, FitGrows
  <2> QED BY <2>4 DEF Fit
<1>10. /\ h.f = j.f /\ h.nodes = t /\ h.arms = j.arms /\ h.paths = j.paths /\ h.loop = j.loop
       /\ h.calls = j.calls /\ h.astray = j.astray /\ h.state = "walking" /\ h.x = j.x
  BY <1>8, PartsAre
<1>11. k = Parts(j.f, y, t, j.arms, j.paths, j.loop, j.calls, j.astray, "walking") /\ k \in Jobs
  <2>1. Moved(h, y) = Parts(h.f, y, h.nodes, h.arms, h.paths, h.loop, h.calls, h.astray, h.state) /\ Moved(h, y) \in Jobs
    BY <1>8, <1>9, MovedIs
  <2> QED BY <1>0, <1>10, <2>1
<1>12. /\ k.f = j.f /\ k.nodes = t /\ k.arms = j.arms /\ k.paths = j.paths /\ k.loop = j.loop
       /\ k.calls = j.calls /\ k.astray = j.astray /\ k.state = "walking" /\ k.x = y
  BY <1>11, PartsAre
<1>13. NodeFit(n, Len(j.nodes) + 1, j.loop, j.f)
  BY <1>5, NodeHere
<1>14. GraphFit(t, j.loop, j.calls, j.astray, j.f, y, j.arms, Len(t) + 1)
  <2>1. n.does \in Leading /\ n.does # "fork"
    BY <1>3, <1>5
  <2>2. GraphFit(j.nodes, j.loop, j.calls, j.astray, j.f, j.x, j.arms, Len(j.nodes) + 1)
    BY <1>1
  <2>3. Doing(n, j.loop, j.calls, j.astray, j.f) /\ y = Out(n, Len(j.nodes) + 1)
    OBVIOUS
  <2>4. PICK s, l, c, a, f, x, b, i : s = j.nodes /\ l = j.loop /\ c = j.calls /\ a = j.astray /\ f = j.f /\ x = j.x /\ b = j.arms
                                    /\ i = n
    OBVIOUS
  <2>5. b \in Seq(Arms) /\ Grown(s, t, i, x) /\ NodeFit(i, Len(s) + 1, l, f) /\ Doing(i, l, c, a, f) /\ i.does \in Leading
        /\ i.does # "fork" /\ y = Out(i, Len(s) + 1) /\ GraphFit(s, l, c, a, f, x, b, Len(s) + 1)
    BY <1>2, <1>6, <1>13, <2>1, <2>2, <2>3, <2>4
  <2>6. GraphFit(t, l, c, a, f, y, b, Len(t) + 1)
    BY <2>5, GraphGrows
  <2> QED BY <2>4, <2>6
<1>15. TrialFit(t, j.loop, j.arms, j.paths)
  <2>1. j.loop.captured => j.loop.from \in 1 .. Len(j.nodes)
    BY <1>1 DEF GraphFit, LoopFit
  <2> QED BY <1>1, <1>6, <2>1, TrialGrows
<1>16. Walks(k)
  BY <1>1, <1>7, <1>11, <1>12, <1>14, <1>15 DEF Walks
<1>17. does = "step" => Fresh(t, j.loop, y)
  BY <1>1, <1>5, <1>6, GrownIsFresh
<1> QED BY <1>0, <1>8, <1>9, <1>10, <1>11, <1>12, <1>16, <1>17

\* What fits here fits at the next node.
LEMMA FitNext ==
  ASSUME program \in Programs, NEW j, Walks(j), NEW y, Fit(y, Operands(j.f, Homes(j.loop), Len(j.nodes)))
  PROVE  Fit(y, Operands(j.f, Homes(j.loop), Len(j.nodes) + 1)) /\ y \in Contexts(Value)
<1>1. Len(j.nodes) \in Nat /\ Arity(j.f) \in Nat /\ j.loop \in Loops
  BY WalksParts
<1>2. Homes(j.loop) \in SUBSET Nat
  BY <1>1, HomesTyped
<1>3. Operands(j.f, Homes(j.loop), Len(j.nodes)) \subseteq Operands(j.f, Homes(j.loop), Len(j.nodes) + 1)
  BY <1>1, OperandsGrow
<1>4. Operands(j.f, Homes(j.loop), Len(j.nodes)) \subseteq Value
  BY <1>1, <1>2, OperandsAreCells DEF Cells
<1>5. Fit(y, Operands(j.f, Homes(j.loop), Len(j.nodes) + 1))
  BY <1>3, FitGrows
<1>6. Fit(y, Value)
  BY <1>4, FitGrows
<1> QED BY <1>5, <1>6 DEF Fit

\* A walk that nothing is known of the condition of goes both ways.
LEMMA ForkFits ==
  ASSUME program \in Programs, NEW j, Walks(j), At(j.x.pc).op = "branch", ~Trying(j),
         NEW k, k = [Moved(Noted(j, "fork"), Branched(j.x, After(j.x.pc))) EXCEPT
                       !.arms = Append(@, [x |-> Branched(j.x, Taken(j.x)), at |-> Len(j.nodes) + 1])]
  PROVE  JobFit(k) /\ k.f = j.f
<1>0. PICK n, y, arm : /\ n = New(j.x, "fork", Len(j.nodes) + 2) /\ y = Branched(j.x, After(j.x.pc))
                       /\ arm = [x |-> Branched(j.x, Taken(j.x)), at |-> Len(j.nodes) + 1]
  OBVIOUS
<1>1. PICK t, brms : t = Append(j.nodes, n) /\ brms = Append(j.arms, arm)
  OBVIOUS
<1>2. /\ j.f \in Nat /\ j.x \in Contexts(Value) /\ j.nodes \in Seq(Nodes) /\ j.arms \in Seq(Arms) /\ j.paths \in Nat
      /\ j.loop \in Loops /\ j.calls \in SUBSET Claims /\ j.astray \in BOOLEAN
      /\ Len(j.nodes) \in Nat /\ Arity(j.f) \in Nat /\ j \in Jobs /\ j.state = "walking" /\ CallsFit(j.calls)
      /\ j.loop.path <= j.paths /\ j.f \in Functions
      /\ Fit(j.x, Operands(j.f, Homes(j.loop), Len(j.nodes))) /\ Inside(j.x, j.f)
      /\ (~j.loop.stable => ~j.x.looped)
  BY WalksParts
<1>3. /\ Fit(y, Operands(j.f, Homes(j.loop), Len(j.nodes))) /\ y.pc[1] = j.x.pc[1] /\ y.conts = j.x.conts /\ y.looped = j.x.looped
  <2>1. After(j.x.pc)[1] = j.x.pc[1]
    BY DEF After
  <2> QED BY <1>0, <1>2, <2>1, BranchedFits
<1>4. Fit(Other(j.x), Operands(j.f, Homes(j.loop), Len(j.nodes)))
  BY <1>2, BranchedFits DEF Other
<1>5. Fit(y, Operands(j.f, Homes(j.loop), Len(j.nodes) + 1)) /\ y \in Contexts(Value) /\ Other(j.x) \in Contexts(Value)
  BY <1>3, <1>4, FitNext
<1>6. Inside(y, j.f)
  BY <1>2, <1>3, InsideMoves
<1>7. arm \in Arms /\ arm = [x |-> Other(j.x), at |-> Len(j.nodes) + 1]
  BY <1>0, <1>2, <1>5 DEF Arms, Other
<1>8. "fork" \in Kinds /\ "fork" \in Leading /\ Len(j.nodes) + 2 \in Nat
  BY <1>2 DEF Kinds, Leading
<1>9. n \in Nodes /\ n.x = j.x /\ n.does = "fork" /\ n.next = Len(j.nodes) + 2 /\ n.taken = 0
  BY <1>0, <1>2, <1>8, NewTyped
<1>10. Grown(j.nodes, t, n, j.x)
  BY <1>1, <1>2, <1>9 DEF Grown
<1>11. t \in Seq(Nodes) /\ Len(t) = Len(j.nodes) + 1
  BY <1>10, GrownParts
<1>12. Doing(n, j.loop, j.calls, j.astray, j.f) /\ y = Out(n, Len(j.nodes) + 1)
  BY <1>0, <1>9 DEF Doing, Out
<1>13. NodeFit(n, Len(j.nodes) + 1, j.loop, j.f)
  BY <1>9, NodeHere
<1>14. GraphFit(t, j.loop, j.calls, j.astray, j.f, y, brms, Len(t) + 1)
  <2>1. PICK s, l, c, a, f, x, b : s = j.nodes /\ l = j.loop /\ c = j.calls /\ a = j.astray /\ f = j.f /\ x = j.x /\ b = j.arms
    OBVIOUS
  <2>2. GraphFit(s, l, c, a, f, x, b, Len(s) + 1)
    BY <2>1 DEF Walks
  <2>3. /\ b \in Seq(Arms) /\ Grown(s, t, n, x) /\ NodeFit(n, Len(s) + 1, l, f) /\ Doing(n, l, c, a, f) /\ n.does \in Leading
        /\ n.does = "fork" /\ y = Out(n, Len(s) + 1) /\ brms = Append(b, [x |-> Other(x), at |-> Len(s) + 1])
        /\ [x |-> Other(x), at |-> Len(s) + 1] \in Arms
    BY <1>1, <1>2, <1>7, <1>8, <1>9, <1>10, <1>12, <1>13, <2>1
  <2>4. GraphFit(t, l, c, a, f, y, brms, Len(t) + 1)
    BY <2>2, <2>3, GraphGrows
  <2> QED BY <2>1, <2>4
<1>15. TrialFit(t, j.loop, brms, j.paths)
  BY DEF TrialFit, Trying
<1>16. k = Parts(j.f, y, t, brms, j.paths, j.loop, j.calls, j.astray, "walking")
  <2>1. PICK h : h = Noted(j, "fork")
    OBVIOUS
  <2>2. h = Parts(j.f, j.x, t, j.arms, j.paths, j.loop, j.calls, j.astray, "walking") /\ h \in Jobs
    BY <1>0, <1>1, <1>2, <1>8, <2>1, NotedIs
  <2>3. PICK m : m = Moved(h, y)
    OBVIOUS
  <2>4. m = Parts(j.f, y, t, j.arms, j.paths, j.loop, j.calls, j.astray, "walking")
    <3>1. m = Parts(h.f, y, h.nodes, h.arms, h.paths, h.loop, h.calls, h.astray, h.state)
      BY <1>5, <2>2, <2>3, MovedIs
    <3> QED BY <2>2, <3>1, PartsAre
  <2>5. k = [m EXCEPT !.arms = Append(@, arm)]
    BY <1>0, <2>1, <2>3
  <2> QED BY <1>1, <2>4, <2>5 DEF Parts
<1>17. brms \in Seq(Arms)
  BY <1>1, <1>2, <1>7
<1>18. PICK m : m = Parts(j.f, y, t, brms, j.paths, j.loop, j.calls, j.astray, "walking")
  OBVIOUS
<1>21. m \in Jobs
  BY <1>2, <1>5, <1>11, <1>17, <1>18, PartsTyped
<1>22. /\ m.f = j.f /\ m.nodes = t /\ m.arms = brms /\ m.paths = j.paths /\ m.loop = j.loop
       /\ m.calls = j.calls /\ m.astray = j.astray /\ m.state = "walking" /\ m.x = y
  BY <1>18, PartsAre
<1>20. Walks(m)
  BY <1>2, <1>3, <1>5, <1>6, <1>11, <1>14, <1>15, <1>21, <1>22 DEF Walks
<1>23. JobFit(m) /\ m.f = j.f
  BY <1>2, <1>20, <1>22 DEF JobFit
<1> QED BY <1>16, <1>18, <1>23

\* A path has ended.
LEMMA NextArmFits ==
  ASSUME program \in Programs, NEW q \in Jobs, q.state = "walking", q.f \in Functions, CallsFit(q.calls),
         q.loop.path < q.paths, q.nodes # <<>>,
         GraphFit(q.nodes, q.loop, q.calls, q.astray, q.f, q.x, q.arms, Len(q.nodes))
  PROVE  JobFit(NextArm(q)) /\ NextArm(q).f = q.f
<1>1. PICK f, x, s, b, p, l, c, a : /\ f = q.f /\ x = q.x /\ s = q.nodes /\ b = q.arms /\ p = q.paths /\ l = q.loop
                                    /\ c = q.calls /\ a = q.astray
  OBVIOUS
<1>2. /\ f \in Nat /\ x \in Contexts(Value) /\ s \in Seq(Nodes) /\ b \in Seq(Arms) /\ p \in Nat
      /\ l \in Loops /\ c \in SUBSET Claims /\ a \in BOOLEAN /\ Len(s) \in Nat /\ Len(b) \in Nat
      /\ q = Parts(f, x, s, b, p, l, c, a, "walking")
  BY <1>1, JobParts
<1>3. f \in Functions /\ CallsFit(c) /\ l.path < p /\ s # <<>> /\ GraphFit(s, l, c, a, f, x, b, Len(s))
  BY <1>1
<1>4. CASE b = <<>>
  <2>1. PICK k : k = Parts(f, x, s, b, p, l, c, a, "walked")
    OBVIOUS
  <2>2. NextArm(q) = k
    BY <1>1, <1>2, <1>4, <2>1 DEF NextArm, Parts
  <2>3. k \in Jobs
    BY <1>2, <2>1, PartsTyped
  <2>4. /\ k.f = f /\ k.nodes = s /\ k.loop = l /\ k.calls = c /\ k.astray = a /\ k.state = "walked"
    BY <2>1, PartsAre
  <2>5. GraphFit(s, l, c, a, f, 0, <<>>, Len(s))
    BY <1>2, <1>3, <1>4, GraphClosed
  <2>6. Ended(k)
    BY <1>3, <2>3, <2>4, <2>5 DEF Ended
  <2> QED BY <1>1, <1>3, <2>2, <2>4, <2>6 DEF JobFit
<1>5. CASE b # <<>>
  <2>1. PICK at, z, d : at = Last(b).at /\ z = Last(b).x /\ d = Front(b)
    OBVIOUS
  <2>2. PICK t : t = Turned(s, at)
    OBVIOUS
  <2>3. /\ GraphFit(t, l, c, a, f, z, d, Len(t) + 1) /\ t \in Seq(Nodes) /\ Len(t) = Len(s) /\ d \in Seq(Arms)
        /\ Last(b) \in Arms /\ at \in 1 .. Len(s) /\ z = Other(s[at].x) /\ s[at].does = "fork"
    <3>1. PICK u : u = Turned(s, Last(b).at)
      OBVIOUS
    <3>2. /\ GraphFit(u, l, c, a, f, Last(b).x, Front(b), Len(u) + 1)
          /\ u \in Seq(Nodes) /\ Len(u) = Len(s) /\ Front(b) \in Seq(Arms) /\ Last(b) \in Arms
          /\ Last(b).at \in 1 .. Len(s) /\ Last(b).x = Other(s[Last(b).at].x)
          /\ s[Last(b).at].does = "fork"
      <4>1. s \in Seq(Nodes) /\ b \in Seq(Arms) /\ b # <<>>
        BY <1>2, <1>5
      <4>2. GraphFit(s, l, c, a, f, x, b, Len(s))
        BY <1>3
      <4> QED BY <3>1, <4>1, <4>2, GraphTurns
    <3>3. u = t
      BY <2>1, <2>2, <3>1
    <3> QED BY <2>1, <3>2, <3>3
  <2>4. PICK k : k = Parts(f, z, t, d, p, l, c, a, "walking")
    OBVIOUS
  <2>5. NextArm(q) = k
    <3>1. NextArm(q) = [q EXCEPT !.x = z, !.arms = d, !.nodes[at].taken = Len(s) + 1]
      BY <1>1, <1>2, <1>5, <2>1 DEF NextArm
    <3>2. q.nodes = s
      BY <1>1
    <3> QED BY <1>2, <2>2, <2>4, <3>1, <3>2 DEF Parts, Turned
  <2>6. PICK n : n = s[at]
    OBVIOUS
  <2>7. NodeFit(n, at, l, f) /\ Doing(n, l, c, a, f) /\ n.does = "fork"
    BY <1>3, <2>3, <2>6 DEF GraphFit
  <2>8. Fit(n.x, Operands(f, Homes(l), at - 1)) /\ Inside(n.x, f) /\ At(n.x.pc).op = "branch"
    BY <2>7 DEF NodeFit, Doing
  <2>9. z = Branched(n.x, Taken(n.x))
    BY <2>3, <2>6 DEF Other
  <2>10. Fit(z, Operands(f, Homes(l), at - 1)) /\ z.pc[1] = n.x.pc[1] /\ z.conts = n.x.conts /\ z.looped = n.x.looped
    BY <2>8, <2>9, BranchedFits
  <2>11. Inside(z, f)
    BY <2>8, <2>10, InsideMoves
  <2>12. Fit(z, Operands(f, Homes(l), Len(t)))
    <3>1. at - 1 \in Nat /\ at - 1 <= Len(t) /\ Len(t) \in Nat
      BY <1>2, <2>3
    <3>2. Operands(f, Homes(l), at - 1) \subseteq Operands(f, Homes(l), Len(t))
      BY <3>1, OperandsGrow
    <3> QED BY <2>10, <3>2, FitGrows
  <2>13. z \in Contexts(Value)
    <3>1. Arity(f) \in Nat
      BY <1>3, FunctionTypes
    <3>2. Len(t) \in Nat /\ Homes(l) \in SUBSET Nat
      BY <1>2, <2>3, HomesTyped
    <3>3. Operands(f, Homes(l), Len(t)) \subseteq Value
      BY <3>1, <3>2, OperandsAreCells DEF Cells
    <3>4. Fit(z, Value)
      BY <2>12, <3>3, FitGrows
    <3> QED BY <3>4 DEF Fit
  <2>14. k \in Jobs
    BY <1>2, <2>3, <2>4, <2>13, PartsTyped
  <2>15. /\ k.f = f /\ k.nodes = t /\ k.loop = l /\ k.calls = c /\ k.astray = a /\ k.state = "walking"
         /\ k.x = z /\ k.arms = d /\ k.paths = p
    BY <2>4, PartsAre
  <2>16. TrialFit(t, l, d, p)
    <3>1. l.path \in Nat
      BY <1>2, HomesTyped
    <3>2. l.path # p
      BY <1>2, <1>3, <3>1
    <3> QED BY <3>2 DEF TrialFit
  <2>17. l.path <= p
    <3>1. l.path \in Nat
      BY <1>2, HomesTyped
    <3> QED BY <1>2, <1>3, <3>1
  <2>19. ~l.stable => ~z.looped
    BY <2>7, <2>10 DEF NodeFit, Early
  <2>18. Walks(k)
    BY <1>3, <2>3, <2>11, <2>12, <2>14, <2>15, <2>16, <2>17, <2>19 DEF Walks
  <2> QED BY <1>1, <1>3, <2>5, <2>15, <2>18 DEF JobFit
<1> QED BY <1>4, <1>5

LEMMA LeafFits ==
  ASSUME program \in Programs, NEW j, Walks(j), NEW does \in Kinds \ Leading,
         NEW n, n = New(j.x, does, Len(j.nodes) + 2), Doing(n, j.loop, j.calls, j.astray, j.f)
  PROVE  JobFit(Leaf(j, does)) /\ Leaf(j, does).f = j.f
<1>1. /\ j.f \in Nat /\ j.x \in Contexts(Value) /\ j.nodes \in Seq(Nodes) /\ j.arms \in Seq(Arms) /\ j.paths \in Nat
      /\ j.loop \in Loops /\ j.calls \in SUBSET Claims /\ j.astray \in BOOLEAN
      /\ Len(j.nodes) \in Nat /\ Arity(j.f) \in Nat /\ j \in Jobs /\ j.state = "walking" /\ CallsFit(j.calls)
      /\ j.loop.path <= j.paths /\ j.f \in Functions
      /\ Fit(j.x, Operands(j.f, Homes(j.loop), Len(j.nodes))) /\ Inside(j.x, j.f)
  BY WalksParts
<1>2. CASE j.paths >= PathLimit
  BY <1>1, <1>2, FailedFits DEF Leaf
<1>3. CASE ~(j.paths >= PathLimit)
  <2>1. PICK t, h, q : t = Append(j.nodes, n) /\ h = Noted(j, does) /\ q = [h EXCEPT !.paths = @ + 1]
    OBVIOUS
  <2>2. Leaf(j, does) = NextArm(q)
    BY <1>3, <2>1 DEF Leaf
  <2>3. Len(j.nodes) + 2 \in Nat /\ does \in Kinds /\ does \notin Leading
    BY <1>1
  <2>4. n \in Nodes /\ n.x = j.x /\ n.does = does /\ n.next = Len(j.nodes) + 2 /\ n.taken = 0
    BY <1>1, <2>3, NewTyped
  <2>5. Grown(j.nodes, t, n, j.x)
    BY <1>1, <2>1, <2>4 DEF Grown
  <2>6. t \in Seq(Nodes) /\ Len(t) = Len(j.nodes) + 1 /\ t # <<>>
    <3>1. t \in Seq(Nodes) /\ Len(t) = Len(j.nodes) + 1
      BY <2>5, GrownParts
    <3>2. Len(t) # 0
      BY <1>1, <3>1
    <3> QED BY <3>1, <3>2
  <2>7. h = Parts(j.f, j.x, t, j.arms, j.paths, j.loop, j.calls, j.astray, "walking")
    BY <1>1, <2>1, <2>3, NotedIs
  <2>8. q = Parts(j.f, j.x, t, j.arms, j.paths + 1, j.loop, j.calls, j.astray, "walking")
    <3>1. PICK f, x, b, p, l, c, a : f = j.f /\ x = j.x /\ b = j.arms /\ p = j.paths /\ l = j.loop /\ c = j.calls /\ a = j.astray
      OBVIOUS
    <3>2. h = Parts(f, x, t, b, p, l, c, a, "walking")
      BY <2>7, <3>1
    <3>3. q = [h EXCEPT !.paths = h.paths + 1]
      BY <2>1
    <3>4. q = Parts(f, x, t, b, p + 1, l, c, a, "walking")
      BY <3>2, <3>3 DEF Parts
    <3> QED BY <3>1, <3>4
  <2>9. j.paths + 1 \in Nat
    BY <1>1
  <2>10. q \in Jobs
    BY <1>1, <2>6, <2>8, <2>9, PartsTyped
  <2>11. /\ q.f = j.f /\ q.nodes = t /\ q.arms = j.arms /\ q.paths = j.paths + 1 /\ q.loop = j.loop
         /\ q.calls = j.calls /\ q.astray = j.astray /\ q.state = "walking" /\ q.x = j.x
    BY <2>8, PartsAre
  <2>12. NodeFit(n, Len(j.nodes) + 1, j.loop, j.f)
    BY <2>4, NodeHere
  <2>13. GraphFit(t, j.loop, j.calls, j.astray, j.f, j.x, j.arms, Len(t))
    <3>1. PICK s, l, c, a, f, x, b : s = j.nodes /\ l = j.loop /\ c = j.calls /\ a = j.astray /\ f = j.f /\ x = j.x /\ b = j.arms
      OBVIOUS
    <3>2. GraphFit(s, l, c, a, f, x, b, Len(s) + 1)
      BY <3>1 DEF Walks
    <3>3. Grown(s, t, n, x) /\ NodeFit(n, Len(s) + 1, l, f) /\ Doing(n, l, c, a, f) /\ n.does \notin Leading
      BY <2>3, <2>4, <2>5, <2>12, <3>1
    <3>4. GraphFit(t, l, c, a, f, x, b, Len(t))
      BY <3>2, <3>3, GraphEnds
    <3> QED BY <3>1, <3>4
  <2>14. q.loop.path < q.paths
    <3>1. j.loop.path \in Nat
      BY <1>1, HomesTyped
    <3> QED BY <1>1, <2>11, <3>1
  <2> QED BY <1>1, <2>2, <2>6, <2>10, <2>11, <2>13, <2>14, NextArmFits
<1> QED BY <1>2, <1>3

-----------------------------------------------------------------------------
(* Edges: the walk comes to y.                                               *)

\* What a walk that has come to y is given: k is the job that goes on there,
\* h the one before.
Coming(h, k, y) ==
  /\ Walks(k) /\ k.x = y /\ Fresh(k.nodes, k.loop, y) /\ h \in Jobs
  /\ h.f = k.f /\ h.nodes = k.nodes /\ h.arms = k.arms /\ h.paths = k.paths /\ h.loop = k.loop
  /\ h.calls = k.calls /\ h.astray = k.astray /\ h.state = "walking"

LEMMA ComingParts ==
  ASSUME program \in Programs, NEW h, NEW k, NEW y, Coming(h, k, y)
  PROVE  /\ k \in Jobs /\ k.state = "walking" /\ k.f \in Functions /\ CallsFit(k.calls) /\ k.loop.path <= k.paths
         /\ k.f \in Nat /\ k.x \in Contexts(Value) /\ k.nodes \in Seq(Nodes) /\ k.arms \in Seq(Arms) /\ k.paths \in Nat
         /\ k.loop \in Loops /\ k.calls \in SUBSET Claims /\ k.astray \in BOOLEAN
         /\ Len(k.nodes) \in Nat /\ Arity(k.f) \in Nat
         /\ k = Parts(k.f, y, k.nodes, k.arms, k.paths, k.loop, k.calls, k.astray, "walking")
         /\ h = Parts(k.f, h.x, k.nodes, k.arms, k.paths, k.loop, k.calls, k.astray, "walking")
         /\ Moved(h, y) = k /\ JobFit(Failed(h)) /\ Failed(h).f = k.f
         /\ Fit(y, Operands(k.f, Homes(k.loop), Len(k.nodes))) /\ Inside(y, k.f)
         /\ GraphFit(k.nodes, k.loop, k.calls, k.astray, k.f, y, k.arms, Len(k.nodes) + 1)
         /\ TrialFit(k.nodes, k.loop, k.arms, k.paths) /\ Fresh(k.nodes, k.loop, y)
<1>1. Walks(k) /\ k.x = y /\ Fresh(k.nodes, k.loop, y) /\ h \in Jobs
      /\ h.f = k.f /\ h.nodes = k.nodes /\ h.arms = k.arms /\ h.paths = k.paths /\ h.loop = k.loop
      /\ h.calls = k.calls /\ h.astray = k.astray /\ h.state = "walking"
  BY DEF Coming
<1>2. /\ k \in Jobs /\ k.state = "walking" /\ k.f \in Functions /\ CallsFit(k.calls) /\ k.loop.path <= k.paths
      /\ k.f \in Nat /\ k.x \in Contexts(Value) /\ k.nodes \in Seq(Nodes) /\ k.arms \in Seq(Arms) /\ k.paths \in Nat
      /\ k.loop \in Loops /\ k.calls \in SUBSET Claims /\ k.astray \in BOOLEAN
      /\ Len(k.nodes) \in Nat /\ Arity(k.f) \in Nat
      /\ k = Parts(k.f, k.x, k.nodes, k.arms, k.paths, k.loop, k.calls, k.astray, "walking")
      /\ Fit(k.x, Operands(k.f, Homes(k.loop), Len(k.nodes))) /\ Inside(k.x, k.f)
  BY <1>1, WalksParts
<1>3. h = Parts(h.f, h.x, h.nodes, h.arms, h.paths, h.loop, h.calls, h.astray, h.state)
  BY <1>1, JobParts
<1>4. Moved(h, y) = Parts(h.f, y, h.nodes, h.arms, h.paths, h.loop, h.calls, h.astray, h.state)
  BY <1>1, <1>2, MovedIs
<1>5. JobFit(Failed(h)) /\ Failed(h).f = k.f
  BY <1>1, <1>2, FailedFits
<1>6. GraphFit(k.nodes, k.loop, k.calls, k.astray, k.f, y, k.arms, Len(k.nodes) + 1) /\ TrialFit(k.nodes, k.loop, k.arms, k.paths)
  BY <1>1 DEF Walks
<1>7. k = Parts(k.f, y, k.nodes, k.arms, k.paths, k.loop, k.calls, k.astray, "walking")
      /\ Fit(y, Operands(k.f, Homes(k.loop), Len(k.nodes))) /\ Inside(y, k.f)
  BY <1>1, <1>2
<1>8. h = Parts(k.f, h.x, k.nodes, k.arms, k.paths, k.loop, k.calls, k.astray, "walking")
  BY <1>1, <1>3
<1>9. Moved(h, y) = k
  BY <1>1, <1>4, <1>7
<1> QED BY <1>1, <1>2, <1>5, <1>6, <1>7, <1>8, <1>9

\* Until the loop is stable no path has come through its header.
LEMMA ComingFirst ==
  ASSUME program \in Programs, NEW h, NEW k, NEW y, Coming(h, k, y)
  PROVE  /\ y.looped \in BOOLEAN
         /\ k.loop.captured \/ ~k.loop.stable
         /\ ~k.loop.stable => y.looped = FALSE
<1>1. Walks(k) /\ k.x = y
  BY DEF Coming
<1>2. Fit(k.x, Operands(k.f, Homes(k.loop), Len(k.nodes))) /\ (~k.loop.stable => ~k.x.looped)
      /\ LoopFit(k.loop, k.nodes, k.f, k.x, Len(k.nodes) + 1, k.astray)
  BY <1>1 DEF Walks, GraphFit
<1>3. k.x.looped \in BOOLEAN
  BY <1>2, FitParts
<1>4. k.loop.captured \/ ~k.loop.stable
  BY <1>2 DEF LoopFit
<1>5. ~k.loop.stable => k.x.looped = FALSE
  BY <1>2, <1>3
<1> QED BY <1>1, <1>3, <1>4, <1>5

\* The first arrival.
LEMMA CaptureFits ==
  ASSUME program \in Programs, NEW h, NEW k, NEW y, Coming(h, k, y), y.pc = Entry(k.loop.target), ~k.loop.captured
  PROVE  JobFit(LoopCaptured(h, y)) /\ LoopCaptured(h, y).f = k.f
<1>1. PICK f, s, b, p, l, c, a : /\ f = k.f /\ s = k.nodes /\ b = k.arms /\ p = k.paths /\ l = k.loop
                                 /\ c = k.calls /\ a = k.astray
  OBVIOUS
<1>2. /\ f \in Functions /\ CallsFit(c) /\ f \in Nat /\ y \in Contexts(Value) /\ s \in Seq(Nodes) /\ b \in Seq(Arms) /\ p \in Nat
      /\ l \in Loops /\ c \in SUBSET Claims /\ a \in BOOLEAN /\ Len(s) \in Nat /\ Arity(f) \in Nat
      /\ h.nodes = s /\ h.paths = p
      /\ Moved(h, y) = Parts(f, y, s, b, p, l, c, a, "walking") /\ JobFit(Failed(h)) /\ Failed(h).f = f
      /\ Fit(y, Operands(f, Homes(l), Len(s))) /\ Inside(y, f)
      /\ GraphFit(s, l, c, a, f, y, b, Len(s) + 1)
      /\ TrialFit(s, l, b, p) /\ Fresh(s, l, y) /\ y.pc = Entry(l.target) /\ ~l.captured
  <2>1. k.x = y /\ h.nodes = k.nodes /\ h.paths = k.paths
    BY DEF Coming
  <2> QED BY <1>1, <2>1, ComingParts
<1>b. ~l.stable /\ y.looped = FALSE
  BY <1>1, ComingFirst
<1>3. CASE y.a # <<>>
  BY <1>1, <1>2, <1>3 DEF LoopCaptured
<1>4. CASE y.a = <<>>
  <2>1. PICK m : m = Captured(l, y, Len(s), p)
    OBVIOUS
  <2>2. l.target \in Functions
    <3>1. Place(y.pc)
      BY <1>2 DEF Fit, Shape
    <3> QED BY <1>2, <3>1 DEF Place, Entry
  <2>3. Operands(f, {}, Len(s)) \subseteq Value
    <3>1. {} \in SUBSET Nat
      OBVIOUS
    <3> QED BY <1>2, <3>1, OperandsAreCells DEF Cells
  <2>4. /\ GraphFit(s, m, c, a, f, y, b, Len(s) + 1) /\ m \in Loops /\ TrialFit(s, m, b, p)
        /\ m.path = p /\ Homes(m) = Homes(l)
    <3>1. Arrived(s, l, c, a, f, y, b, p)
      BY <1>2, <1>4, <1>b, <2>2, <2>3 DEF Arrived
    <3> QED BY <2>1, <3>1, GraphCaptures
  <2>5. PICK g : g = Parts(f, y, s, b, p, m, c, a, "walking")
    OBVIOUS
  <2>6. LoopCaptured(h, y) = g
    <3>1. LoopCaptured(h, y) = [Moved(h, y) EXCEPT !.loop = [@ EXCEPT !.captured = TRUE, !.initial = y.c,
                                              !.from = Len(s), !.path = p, !.conts = y.conts]]
      BY <1>2, <1>4 DEF LoopCaptured
    <3> QED BY <1>2, <2>1, <2>5, <3>1 DEF Parts, Captured
  <2>7. g \in Jobs
    BY <1>2, <2>4, <2>5, PartsTyped
  <2>8. /\ g.f = f /\ g.nodes = s /\ g.loop = m /\ g.calls = c /\ g.astray = a /\ g.state = "walking"
        /\ g.x = y /\ g.arms = b /\ g.paths = p
    BY <2>5, PartsAre
  <2>9. Walks(g)
    BY <1>2, <1>b, <2>4, <2>7, <2>8 DEF Walks
  <2> QED BY <1>1, <1>2, <2>6, <2>8, <2>9 DEF JobFit
<1> QED BY <1>3, <1>4

\* The second one.
LEMMA StableFits ==
  ASSUME program \in Programs, NEW h, NEW k, NEW y, Coming(h, k, y), y.pc = Entry(k.loop.target),
         k.loop.captured, ~k.loop.stable, y.a = <<>>, Len(y.c) = Len(k.loop.initial)
  PROVE  JobFit(LoopStable(h, y)) /\ LoopStable(h, y).f = k.f
<1>1. PICK f, s, b, p, l, c, a : /\ f = k.f /\ s = k.nodes /\ b = k.arms /\ p = k.paths /\ l = k.loop
                                 /\ c = k.calls /\ a = k.astray
  OBVIOUS
<1>2. /\ f \in Functions /\ CallsFit(c) /\ f \in Nat /\ y \in Contexts(Value) /\ s \in Seq(Nodes) /\ b \in Seq(Arms) /\ p \in Nat
      /\ l \in Loops /\ c \in SUBSET Claims /\ a \in BOOLEAN /\ Len(s) \in Nat /\ Arity(f) \in Nat
      /\ l.path <= p /\ l.path \in Nat
      /\ Fit(y, Operands(f, Homes(l), Len(s))) /\ Inside(y, f)
      /\ GraphFit(s, l, c, a, f, y, b, Len(s) + 1)
      /\ TrialFit(s, l, b, p) /\ Fresh(s, l, y) /\ y.pc = Entry(l.target) /\ l.captured /\ ~l.stable /\ Len(y.c) = Len(l.initial)
  <2>1. k.x = y /\ k.loop \in Loops
    BY ComingParts DEF Coming
  <2> QED BY <1>1, <2>1, ComingParts, HomesTyped
<1>b. y.looped = FALSE
  BY <1>1, <1>2, ComingFirst
<1>3. h = Parts(f, h.x, s, b, p, l, c, a, "walking")
  BY <1>1, ComingParts
<1>4. PICK moved : moved = Changed(l, y)
  OBVIOUS
<1>5. PICK header, from : header = Headed(y, moved) /\ from = Onset(s, l, p)
  OBVIOUS
<1>6. PICK t : t = Rerouted(s, from)
  OBVIOUS
<1>7. PICK m, d, z : m = Stabled(l, header, moved, Len(s) + 1) /\ d = Astray(a, l, y, p) /\ z = Over(y, header)
  OBVIOUS
<1>8. Cells(Operands(f, {}, Len(s)))
  <2>1. {} \in SUBSET Nat
    OBVIOUS
  <2> QED BY <1>2, <2>1, OperandsAreCells
<1>9. /\ GraphFit(t, m, c, d, f, z, b, Len(t) + 1) /\ t \in Seq(Nodes) /\ m \in Loops /\ Len(t) = Len(s)
      /\ Fit(z, Operands(f, Homes(m), Len(t))) /\ z.pc = y.pc /\ z.conts = y.conts /\ m.path = l.path /\ m.stable
  <2>1. Second(s, l, c, a, f, y, b, p)
    BY <1>2, <1>b, <1>8 DEF Second
  <2>2. /\ GraphFit(t, m, c, d, f, z, b, Len(s) + 1) /\ t \in Seq(Nodes) /\ m \in Loops /\ Len(t) = Len(s)
        /\ Fit(z, Operands(f, Homes(m), Len(t))) /\ z.pc = y.pc /\ z.conts = y.conts /\ m.path = l.path /\ m.stable
    BY <1>4, <1>5, <1>6, <1>7, <2>1, GraphStable
  <2> QED BY <2>2
<1>10. Inside(z, f)
  BY <1>2, <1>9, InsideMoves
<1>11. z \in Contexts(Value) /\ d \in BOOLEAN
  <2>1. Homes(m) \in SUBSET Nat /\ Len(t) \in Nat
    BY <1>2, <1>9, HomesTyped
  <2>2. Operands(f, Homes(m), Len(t)) \subseteq Value
    BY <1>2, <2>1, OperandsAreCells DEF Cells
  <2>3. Fit(z, Value)
    BY <1>9, <2>2, FitGrows
  <2>4. d \in BOOLEAN
    BY <1>7 DEF Astray
  <2> QED BY <2>3, <2>4 DEF Fit
<1>12. PICK g : g = Parts(f, z, t, b, p, m, c, d, "walking")
  OBVIOUS
<1>13. LoopStable(h, y) = g
  <2>1. /\ h.loop = l /\ h.paths = p /\ h.nodes = s /\ h.astray = a
    BY <1>3, PartsAre
  <2>2. LoopStable(h, y) = [h EXCEPT !.x = z, !.nodes = t, !.loop = m, !.astray = d]
    BY <1>4, <1>5, <1>6, <1>7, <2>1 DEF LoopStable, Changed, Headed, Onset, Rerouted, Stabled, Astray, Over
  <2>3. PICK o : o = h.x
    OBVIOUS
  <2>4. h = Parts(f, o, s, b, p, l, c, a, "walking")
    BY <1>3, <2>3
  <2>5. [h EXCEPT !.x = z, !.nodes = t, !.loop = m, !.astray = d] = g
    <3>1. PICK q : q = [h EXCEPT !.x = z, !.nodes = t, !.loop = m, !.astray = d]
      OBVIOUS
    <3>2. q = Parts(f, z, t, b, p, m, c, d, "walking")
      BY <2>4, <3>1 DEF Parts
    <3> QED BY <1>12, <3>1, <3>2
  <2> QED BY <2>2, <2>5
<1>14. g \in Jobs
  BY <1>2, <1>9, <1>11, <1>12, PartsTyped
<1>15. /\ g.f = f /\ g.nodes = t /\ g.loop = m /\ g.calls = c /\ g.astray = d /\ g.state = "walking"
       /\ g.x = z /\ g.arms = b /\ g.paths = p
  BY <1>12, PartsAre
<1>16. TrialFit(t, m, b, p)
  BY <1>9 DEF TrialFit
<1>17. Walks(g)
  BY <1>2, <1>9, <1>10, <1>14, <1>15, <1>16 DEF Walks
<1> QED BY <1>1, <1>2, <1>13, <1>15, <1>17 DEF JobFit

\* A later one.
LEMMA ClosedFits ==
  ASSUME program \in Programs, NEW h, NEW k, NEW y, Coming(h, k, y), y.pc = Entry(k.loop.target),
         k.loop.captured, k.loop.stable, y.a = <<>>, Len(y.c) = Len(k.loop.initial)
  PROVE  JobFit(LoopClosed(h, y)) /\ LoopClosed(h, y).f = k.f
<1>1. PICK f, s, b, p, l, c, a : /\ f = k.f /\ s = k.nodes /\ b = k.arms /\ p = k.paths /\ l = k.loop
                                 /\ c = k.calls /\ a = k.astray
  OBVIOUS
<1>2. /\ f \in Functions /\ CallsFit(c) /\ c \in SUBSET Claims /\ a \in BOOLEAN /\ h.loop = l
      /\ y \in Contexts(Value) /\ s \in Seq(Nodes) /\ Len(s) \in Nat
      /\ Moved(h, y) = Parts(f, y, s, b, p, l, c, a, "walking") /\ JobFit(Failed(h)) /\ Failed(h).f = f
      /\ GraphFit(s, l, c, a, f, y, b, Len(s) + 1) /\ l.stable
      /\ y.pc = Entry(l.target) /\ y.a = <<>> /\ Len(y.c) = Len(l.initial) /\ Len(y.c) \in Nat
  <2>1. k.x = y /\ h.loop = k.loop /\ Walks(k)
    BY DEF Coming
  <2>2. Fit(y, Operands(k.f, Homes(k.loop), Len(k.nodes)))
    BY <2>1 DEF Walks
  <2>3. Len(y.c) \in Nat
    BY <2>2, FitParts
  <2> QED BY <1>1, <2>1, <2>3, ComingParts
<1>3. CASE \E d \in DOMAIN y.c : d \notin l.homes /\ y.c[d] # l.header[d]
  BY <1>1, <1>2, <1>3 DEF LoopClosed
<1>4. CASE ~(\E d \in DOMAIN y.c : d \notin l.homes /\ y.c[d] # l.header[d])
  <2>1. PICK d : d = (a \/ ~y.looped \/ y.conts # l.conts)
    OBVIOUS
  <2>2. PICK g : g = Parts(f, y, s, b, p, l, c, d, "walking")
    OBVIOUS
  <2>3. LoopClosed(h, y) = Leaf(g, "loop")
    <3>1. PICK m : m = Moved(h, y)
      OBVIOUS
    <3>2. LoopClosed(h, y) = Leaf([m EXCEPT !.astray = m.astray \/ ~y.looped \/ y.conts # l.conts], "loop")
      BY <1>2, <1>4, <3>1 DEF LoopClosed
    <3>3. m = Parts(f, y, s, b, p, l, c, a, "walking")
      BY <1>2, <3>1
    <3>4. PICK e : e = (m.astray \/ ~y.looped \/ y.conts # l.conts)
      OBVIOUS
    <3>5. [m EXCEPT !.astray = e] = Parts(f, y, s, b, p, l, c, e, "walking")
      BY <3>3 DEF Parts
    <3>6. e = d
      BY <2>1, <3>3, <3>4, PartsAre
    <3> QED BY <2>2, <3>2, <3>4, <3>5, <3>6
  <2>4. Walks(g)
    <3>1. d \in BOOLEAN /\ (a => d)
      BY <2>1
    <3>2. k.x = y /\ Walks(k)
      BY DEF Coming
    <3>3. g = Parts(k.f, k.x, k.nodes, k.arms, k.paths, k.loop, c, d, "walking")
      BY <1>1, <2>2, <3>2
    <3>4. k.calls \subseteq c /\ (k.astray => d)
      BY <1>1, <3>1
    <3> QED BY <1>2, <3>1, <3>2, <3>3, <3>4, WalksMore
  <2>5. /\ g.f = f /\ g.nodes = s /\ g.loop = l /\ g.calls = c /\ g.astray = d /\ g.x = y
    BY <2>2, PartsAre
  <2>6. PICK n : n = New(y, "loop", Len(s) + 2)
    OBVIOUS
  <2>7. n.x = y /\ n.does = "loop" /\ "loop" \in Kinds \ Leading
    BY <2>6 DEF New, Kinds, Leading
  <2>8. Doing(n, l, c, d, f)
    <3>1. LoopFit(l, s, f, y, Len(s) + 1, a)
      BY <1>2 DEF GraphFit
    <3>2. Len(l.header) = Len(l.initial)
      BY <1>2, <3>1 DEF LoopFit
    <3>3. DOMAIN y.c = 1 .. Len(y.c)
      BY <1>2 DEF Contexts
    <3>4. \A i \in 1 .. Len(y.c) : i \notin l.homes => y.c[i] = l.header[i]
      BY <1>4, <3>3
    <3>5. ~d => y.conts = l.conts /\ y.looped
      BY <2>1
    <3> QED BY <1>2, <2>7, <3>2, <3>4, <3>5 DEF Doing
  <2>9. JobFit(Leaf(g, "loop")) /\ Leaf(g, "loop").f = g.f
    <3>1. n = New(g.x, "loop", Len(g.nodes) + 2) /\ Doing(n, g.loop, g.calls, g.astray, g.f)
      BY <2>5, <2>6, <2>8
    <3> QED BY <2>4, <2>7, <3>1, LeafFits
  <2> QED BY <1>1, <2>3, <2>5, <2>9
<1> QED BY <1>3, <1>4

\* The tail of a function that calls itself there.
LEMMA RootAgainFits ==
  ASSUME program \in Programs, NEW h, NEW k, NEW y, Coming(h, k, y), y.pc = Entry(k.f),
         y.conts = <<>>, Claim(k.f, Reverse(y.c)) \in k.calls
  PROVE  JobFit(RootAgain(h, y)) /\ RootAgain(h, y).f = k.f
<1>1. h.f = k.f /\ k.x = y /\ Walks(k) /\ Moved(h, y) = k /\ JobFit(Failed(h)) /\ Failed(h).f = k.f
  BY ComingParts DEF Coming
<1>2. CASE y.a # <<>> \/ Len(y.c) # Arity(k.f)
  BY <1>1, <1>2 DEF RootAgain
<1>3. CASE ~(y.a # <<>> \/ Len(y.c) # Arity(k.f))
  <2>1. PICK n : n = New(y, "again", Len(k.nodes) + 2)
    OBVIOUS
  <2>2. n.x = y /\ n.does = "again" /\ "again" \in Kinds \ Leading
    BY <2>1 DEF New, Kinds, Leading
  <2>3. Doing(n, k.loop, k.calls, k.astray, k.f)
    BY <1>3, <2>2 DEF Doing
  <2>4. n = New(k.x, "again", Len(k.nodes) + 2)
    BY <1>1, <2>1
  <2>5. JobFit(Leaf(k, "again")) /\ Leaf(k, "again").f = k.f
    BY <1>1, <2>2, <2>3, <2>4, LeafFits
  <2>6. RootAgain(h, y) = Leaf(k, "again")
    BY <1>1, <1>3 DEF RootAgain
  <2> QED BY <2>5, <2>6
<1> QED BY <1>2, <1>3

LEMMA EdgeFits ==
  ASSUME program \in Programs, NEW h, NEW k, NEW y, Coming(h, k, y), NEW o,
         y.pc = Entry(k.f) => y.conts = <<>> /\ Claim(k.f, Reverse(y.c)) \in k.calls
  PROVE  JobFit(Edge(h, o, y)) /\ Edge(h, o, y).f = k.f
<1>1. h.f = k.f /\ h.loop = k.loop /\ Walks(k) /\ Moved(h, y) = k /\ JobFit(Failed(h)) /\ Failed(h).f = k.f
      /\ k.f \in Functions
  BY ComingParts DEF Coming
<1>2. CASE y.pc = Entry(k.loop.target)
  <2>1. CASE ~k.loop.captured
    <3>1. Edge(h, o, y) = LoopCaptured(h, y)
      BY <1>1, <1>2, <2>1 DEF Edge
    <3> QED BY <1>2, <2>1, <3>1, CaptureFits
  <2>2. CASE k.loop.captured
    <3>1. Edge(h, o, y) = LoopAgain(h, o, y)
      BY <1>1, <1>2, <2>2 DEF Edge
    <3>2. CASE Before(o, y.pc) \/ y.a # <<>> \/ Len(y.c) # Len(k.loop.initial)
      <4>1. LoopAgain(h, o, y) = Failed(h)
        BY <1>1, <3>2 DEF LoopAgain
      <4> QED BY <1>1, <3>1, <4>1
    <3>3. CASE ~(Before(o, y.pc) \/ y.a # <<>> \/ Len(y.c) # Len(k.loop.initial)) /\ k.loop.stable
      <4>1. LoopAgain(h, o, y) = LoopClosed(h, y)
        BY <1>1, <3>3 DEF LoopAgain
      <4> QED BY <1>2, <2>2, <3>1, <3>3, <4>1, ClosedFits
    <3>4. CASE ~(Before(o, y.pc) \/ y.a # <<>> \/ Len(y.c) # Len(k.loop.initial)) /\ ~k.loop.stable
      <4>1. LoopAgain(h, o, y) = LoopStable(h, y)
        BY <1>1, <3>4 DEF LoopAgain
      <4> QED BY <1>2, <2>2, <3>1, <3>4, <4>1, StableFits
    <3> QED BY <3>2, <3>3, <3>4
  <2> QED BY <2>1, <2>2
<1>3. CASE y.pc # Entry(k.loop.target) /\ y.pc = Entry(k.f) /\ ~Before(o, y.pc)
  <2>1. Edge(h, o, y) = RootAgain(h, y)
    BY <1>1, <1>3 DEF Edge
  <2> QED BY <1>3, <2>1, RootAgainFits
<1>4. CASE y.pc # Entry(k.loop.target) /\ ~(y.pc = Entry(k.f) /\ ~Before(o, y.pc))
  <2>1. Edge(h, o, y) = k
    BY <1>1, <1>4 DEF Edge
  <2>2. k.state = "walking"
    BY <1>1 DEF Walks
  <2> QED BY <1>1, <2>1, <2>2 DEF JobFit
<1> QED BY <1>2, <1>3, <1>4

-----------------------------------------------------------------------------
(* The actions of a walk.                                                    *)

\* Code is made for an instruction; the walk comes to y.
Comes(j, y) ==
  LET n == New(j.x, "step", Len(j.nodes) + 2)
  IN  Doing(n, j.loop, j.calls, j.astray, j.f) /\ y = Out(n, Len(j.nodes) + 1)

LEMMA StepComes ==
  ASSUME NEW j
  PROVE  /\ At(j.x.pc).op \in {"push", "get", "inc", "drop"} => Comes(j, Straight(j.x))
         /\ At(j.x.pc).op = "branch" /\ IsConst(Last(j.x.a))
              => Comes(j, Branched(j.x, IF Last(j.x.a).n # 0 THEN Taken(j.x) ELSE After(j.x.pc)))
         /\ At(j.x.pc).op = "call" => Comes(j, Called(j.x, At(j.x.pc).arg))
         /\ At(j.x.pc).op = "tail" => Comes(j, Tailed(j.x, At(j.x.pc).arg))
         /\ At(j.x.pc).op = "ret" /\ j.x.conts # <<>> => Comes(j, Returned(j.x))
<1>1. PICK n : n = New(j.x, "step", Len(j.nodes) + 2)
  OBVIOUS
<1>2. n.x = j.x /\ n.does = "step"
  BY <1>1 DEF New
<1>3. (At(j.x.pc).op = "branch" => IsConst(Last(j.x.a))) /\ (At(j.x.pc).op = "ret" => j.x.conts # <<>>)
      => Doing(n, j.loop, j.calls, j.astray, j.f)
  BY <1>2 DEF Doing
<1>4. /\ At(j.x.pc).op \in {"push", "get", "inc", "drop"} => Out(n, Len(j.nodes) + 1) = Straight(j.x)
      /\ At(j.x.pc).op = "branch"
           => Out(n, Len(j.nodes) + 1) = Branched(j.x, IF Last(j.x.a).n # 0 THEN Taken(j.x) ELSE After(j.x.pc))
      /\ At(j.x.pc).op = "call" => Out(n, Len(j.nodes) + 1) = Called(j.x, At(j.x.pc).arg)
      /\ At(j.x.pc).op = "tail" => Out(n, Len(j.nodes) + 1) = Tailed(j.x, At(j.x.pc).arg)
      /\ At(j.x.pc).op = "ret" => Out(n, Len(j.nodes) + 1) = Returned(j.x)
  BY <1>2 DEF Out
<1> QED BY <1>1, <1>3, <1>4 DEF Comes

LEMMA WalksTo ==
  ASSUME program \in Programs, NEW j, Walks(j), NEW y, Comes(j, y),
         Fit(y, Operands(j.f, Homes(j.loop), Len(j.nodes))), Inside(y, j.f), y.looped = j.x.looped
  PROVE  LET h == Noted(j, "step")
             k == Moved(h, y)
         IN  Coming(h, k, y) /\ h.x = j.x /\ k.f = j.f /\ k.loop = j.loop /\ k.calls = j.calls /\ JobFit(k)
<1>1. PICK n, h, k : n = New(j.x, "step", Len(j.nodes) + 2) /\ h = Noted(j, "step") /\ k = Moved(h, y)
  OBVIOUS
<1>2. Doing(n, j.loop, j.calls, j.astray, j.f) /\ y = Out(n, Len(j.nodes) + 1)
  BY <1>1 DEF Comes
<1>3. Fit(y, Operands(j.f, Homes(j.loop), Len(j.nodes) + 1))
  BY FitNext
<1>4. PICK t : t = Append(j.nodes, n)
  OBVIOUS
<1>5. /\ Walks(k) /\ h \in Jobs /\ h.x = j.x /\ h.f = j.f /\ h.calls = j.calls
      /\ k.x = y /\ k.f = j.f /\ k.loop = j.loop /\ k.calls = j.calls
      /\ h = Parts(j.f, j.x, t, j.arms, j.paths, j.loop, j.calls, j.astray, "walking")
      /\ k = Parts(j.f, y, t, j.arms, j.paths, j.loop, j.calls, j.astray, "walking")
      /\ Fresh(k.nodes, k.loop, y)
  <2>1. "step" \in {"step", "call"}
    OBVIOUS
  <2> QED BY <1>1, <1>2, <1>3, <1>4, <2>1, WalksOn
<1>6. /\ h.nodes = t /\ h.arms = j.arms /\ h.paths = j.paths /\ h.loop = j.loop /\ h.astray = j.astray /\ h.state = "walking"
  BY <1>5, PartsAre
<1>7. /\ k.nodes = t /\ k.arms = j.arms /\ k.paths = j.paths /\ k.astray = j.astray /\ k.state = "walking"
  BY <1>5, PartsAre
<1>8. Coming(h, k, y)
  BY <1>5, <1>6, <1>7 DEF Coming
<1>9. JobFit(k)
  BY <1>5, <1>7, WalksParts DEF JobFit
<1> QED BY <1>1, <1>5, <1>8, <1>9

\* The loop is opened on the way.
LEMMA ComingOpened ==
  ASSUME program \in Programs, NEW h, NEW k, NEW y, Coming(h, k, y), k.loop.target = 0, NEW g \in Functions
  PROVE  Coming(Opened(h, g), Opened(k, g), y) /\ Opened(k, g).f = k.f /\ Opened(k, g).calls = k.calls
<1>1. PICK f, s, b, p, l, c, a, x : /\ f = k.f /\ s = k.nodes /\ b = k.arms /\ p = k.paths /\ l = k.loop
                                    /\ c = k.calls /\ a = k.astray /\ x = h.x
  OBVIOUS
<1>2. /\ k.x = y /\ k \in Jobs /\ k.state = "walking" /\ Walks(k) /\ Fresh(k.nodes, k.loop, k.x) /\ h \in Jobs
      /\ h.f = f /\ h.nodes = s /\ h.arms = b /\ h.paths = p /\ h.loop = l /\ h.calls = c /\ h.astray = a /\ h.state = "walking"
  BY <1>1, ComingParts DEF Coming
<1>3. g \in Nat
  BY FunctionTypes DEF Functions
<1>4. PICK m : m = [l EXCEPT !.target = g]
  OBVIOUS
<1>5. Opened(h, g) = Parts(f, x, s, b, p, m, c, a, "walking") /\ Opened(h, g) \in Jobs
  BY <1>1, <1>2, <1>3, <1>4, OpenedIs
<1>6. Opened(k, g) = Parts(f, y, s, b, p, m, c, a, "walking")
  BY <1>1, <1>2, <1>3, <1>4, OpenedIs
<1>7. PICK o, q : o = Opened(h, g) /\ q = Opened(k, g)
  OBVIOUS
<1>8. /\ o.f = f /\ o.nodes = s /\ o.arms = b /\ o.paths = p /\ o.loop = m /\ o.calls = c /\ o.astray = a /\ o.state = "walking"
      /\ o \in Jobs
  BY <1>5, <1>7, PartsAre
<1>9. /\ q.f = f /\ q.nodes = s /\ q.arms = b /\ q.paths = p /\ q.loop = m /\ q.calls = c /\ q.astray = a /\ q.state = "walking"
      /\ q.x = y
  BY <1>6, <1>7, PartsAre
<1>10. Walks(q) /\ Fresh(q.nodes, q.loop, q.x)
  <2>1. q = Parts(k.f, k.x, k.nodes, k.arms, k.paths, m, k.calls, k.astray, "walking") /\ m = [k.loop EXCEPT !.target = g]
    BY <1>1, <1>2, <1>4, <1>6, <1>7
  <2> QED BY <1>2, <2>1, WalksOpened
<1> QED BY <1>1, <1>2, <1>7, <1>8, <1>9, <1>10 DEF Coming

\* What is passed is recorded on the way.
LEMMA ComingRecorded ==
  ASSUME program \in Programs, NEW h, NEW k, NEW y, Coming(h, k, y), NEW f \in Functions,
         NEW e, e = Claim(f, TopOf(h.x.a, Arity(f))), e \in Claims, CallsFit({e})
  PROVE  \E q : Coming(Recorded(h, f), q, y) /\ q.f = k.f /\ q.calls = k.calls \cup {e}
<1>1. PICK r, s, b, p, l, c, a, x : /\ r = k.f /\ s = k.nodes /\ b = k.arms /\ p = k.paths /\ l = k.loop
                                    /\ c = k.calls /\ a = k.astray /\ x = h.x
  OBVIOUS
<1>2. /\ k.x = y /\ k \in Jobs /\ k.state = "walking" /\ Walks(k) /\ Fresh(k.nodes, k.loop, k.x) /\ h \in Jobs
      /\ h.f = r /\ h.nodes = s /\ h.arms = b /\ h.paths = p /\ h.loop = l /\ h.calls = c /\ h.astray = a /\ h.state = "walking"
      /\ c \in SUBSET Claims /\ a \in BOOLEAN /\ CallsFit(c)
  BY <1>1, ComingParts DEF Coming
<1>3. PICK d : d = c \cup {e}
  OBVIOUS
<1>4. Recorded(h, f) = Parts(r, x, s, b, p, l, d, a, "walking") /\ Recorded(h, f) \in Jobs /\ d \in SUBSET Claims
  <2>1. Claim(f, TopOf(h.x.a, Arity(f))) \in Claims /\ d = h.calls \cup {Claim(f, TopOf(h.x.a, Arity(f)))}
    BY <1>2, <1>3
  <2> QED BY <1>1, <1>2, <2>1, ClaimedIs
<1>5. PICK o, q : o = Recorded(h, f) /\ q = Parts(r, y, s, b, p, l, d, a, "walking")
  OBVIOUS
<1>6. /\ o.f = r /\ o.nodes = s /\ o.arms = b /\ o.paths = p /\ o.loop = l /\ o.calls = d /\ o.astray = a /\ o.state = "walking"
      /\ o \in Jobs
  BY <1>4, <1>5, PartsAre
<1>7. /\ q.f = r /\ q.nodes = s /\ q.arms = b /\ q.paths = p /\ q.loop = l /\ q.calls = d /\ q.astray = a /\ q.state = "walking"
      /\ q.x = y
  BY <1>5, PartsAre
<1>8. Walks(q)
  <2>1. q = Parts(k.f, k.x, k.nodes, k.arms, k.paths, k.loop, d, a, "walking") /\ k.calls \subseteq d /\ (k.astray => a)
    BY <1>1, <1>2, <1>3, <1>5
  <2>2. CallsFit(d)
    BY <1>2, <1>3 DEF CallsFit
  <2> QED BY <1>2, <1>4, <2>1, <2>2, WalksMore
<1>9. Coming(o, q, y)
  BY <1>1, <1>2, <1>6, <1>7, <1>8 DEF Coming
<1> QED BY <1>1, <1>3, <1>5, <1>7, <1>9

\* What is recorded before.
LEMMA WalksRecorded ==
  ASSUME program \in Programs, NEW j, Walks(j), NEW f \in Functions,
         NEW e, e = Claim(f, TopOf(j.x.a, Arity(f))), e \in Claims, CallsFit({e})
  PROVE  /\ Walks(Recorded(j, f))
         /\ Recorded(j, f) = Parts(j.f, j.x, j.nodes, j.arms, j.paths, j.loop, j.calls \cup {e}, j.astray, "walking")
<1>1. j \in Jobs /\ j.state = "walking" /\ j.calls \in SUBSET Claims /\ j.astray \in BOOLEAN /\ CallsFit(j.calls)
  BY WalksParts
<1>2. PICK i : i = j.calls \cup {e}
  OBVIOUS
<1>3. Recorded(j, f) = Parts(j.f, j.x, j.nodes, j.arms, j.paths, j.loop, i, j.astray, "walking") /\ i \in SUBSET Claims
  <2>1. Claim(f, TopOf(j.x.a, Arity(f))) \in Claims /\ i = j.calls \cup {Claim(f, TopOf(j.x.a, Arity(f)))}
    BY <1>2
  <2> QED BY <1>1, <2>1, ClaimedIs
<1>4. PICK o : o = Recorded(j, f)
  OBVIOUS
<1>5. j.calls \subseteq i /\ (j.astray => j.astray) /\ CallsFit(i)
  BY <1>1, <1>2 DEF CallsFit
<1>6. Walks(o)
  <2>1. PICK a \in BOOLEAN : a = j.astray
    BY <1>1
  <2>2. o = Parts(j.f, j.x, j.nodes, j.arms, j.paths, j.loop, i, a, "walking") /\ (j.astray => a)
    BY <1>3, <1>4, <2>1
  <2> QED BY <1>3, <1>5, <2>2, WalksMore
<1> QED BY <1>2, <1>3, <1>4, <1>6

LEMMA PassingIs ==
  ASSUME program \in Programs, NEW j, Walks(j), At(j.x.pc).op \in {"call", "tail"}
  PROVE  LET f == At(j.x.pc).arg
             e == Claim(f, TopOf(j.x.a, Arity(f)))
         IN  f \in Functions /\ e \in Claims /\ CallsFit({e}) /\ e = Passing(j.x)
<1>1. PICK S : S = Operands(j.f, Homes(j.loop), Len(j.nodes))
  OBVIOUS
<1>2. Cells(S) /\ Fit(j.x, S)
  BY <1>1, WalksParts
<1>3. PICK f : f = At(j.x.pc).arg
  OBVIOUS
<1>4. f \in Functions /\ TopOf(j.x.a, Arity(f)) \in Seq(S) /\ Len(TopOf(j.x.a, Arity(f))) = Arity(f)
  BY <1>2, <1>3, PassedIs
<1>5. PICK s, e : s = TopOf(j.x.a, Arity(f)) /\ e = Claim(f, s)
  OBVIOUS
<1>6. e \in Claims /\ e.to = f /\ e.facts \in [1 .. Arity(f) -> Facts]
  BY <1>2, <1>4, <1>5, ClaimIs
<1>7. CallsFit({e})
  BY <1>4, <1>6 DEF CallsFit
<1> QED BY <1>3, <1>4, <1>5, <1>6, <1>7 DEF Passing

LEMMA StepFits ==
  ASSUME program \in Programs, Walks(job), Step
  PROVE  \E k : job' = k /\ JobFit(k) /\ k.f = job.f
<1>1. PICK j : j = job
  OBVIOUS
<1>2. Walks(j) /\ At(j.x.pc).op \in {"push", "get", "inc", "drop"}
  BY <1>1 DEF Step, Walking
<1>3. PICK y : y = Straight(j.x)
  OBVIOUS
<1>4. job' = Moved(Noted(j, "step"), y)
  BY <1>1, <1>3 DEF Step, Walk
<1>5. PICK S : S = Operands(j.f, Homes(j.loop), Len(j.nodes))
  OBVIOUS
<1>6. Cells(S) /\ Fit(j.x, S) /\ Inside(j.x, j.f) /\ j.x.pc \in Nat \X Nat
  BY <1>1, <1>2, <1>5, WalksParts, FitParts
<1>7. Fit(y, S) /\ y.pc = After(j.x.pc) /\ y.conts = j.x.conts /\ y.looped = j.x.looped
  BY <1>2, <1>3, <1>6, StraightFits
<1>8. Inside(y, j.f)
  BY <1>6, <1>7, AfterIs, InsideMoves
<1>9. Comes(j, y)
  BY <1>2, <1>3, StepComes
<1>10. JobFit(Moved(Noted(j, "step"), y)) /\ Moved(Noted(j, "step"), y).f = j.f
  BY <1>2, <1>5, <1>7, <1>8, <1>9, WalksTo
<1> QED BY <1>1, <1>4, <1>10

LEMMA KnownFits ==
  ASSUME program \in Programs, Walks(job), KnownBranch
  PROVE  \E k : job' = k /\ JobFit(k) /\ k.f = job.f
<1>1. PICK j : j = job
  OBVIOUS
<1>2. Walks(j) /\ At(j.x.pc).op = "branch" /\ IsConst(Last(j.x.a))
  BY <1>1 DEF KnownBranch, Walking
<1>3. PICK pc, y : /\ pc = (IF Last(j.x.a).n # 0 THEN Taken(j.x) ELSE After(j.x.pc))
                   /\ y = Branched(j.x, pc)
  OBVIOUS
<1>4. job' = Moved(Noted(j, "step"), y) \/ job' = Failed(j)
  BY <1>1, <1>3 DEF KnownBranch, Walk, Decided
<1>5. PICK S : S = Operands(j.f, Homes(j.loop), Len(j.nodes))
  OBVIOUS
<1>6. Cells(S) /\ Fit(j.x, S) /\ Inside(j.x, j.f) /\ j \in Jobs /\ j.f \in Functions
  BY <1>1, <1>2, <1>5, WalksParts
<1>7. Fit(y, S) /\ y.pc[1] = j.x.pc[1] /\ y.conts = j.x.conts /\ y.looped = j.x.looped
  BY <1>2, <1>3, <1>6, BranchedFits
<1>8. Inside(y, j.f)
  BY <1>6, <1>7, InsideMoves
<1>9. Comes(j, y)
  BY <1>2, <1>3, StepComes
<1>10. JobFit(Moved(Noted(j, "step"), y)) /\ Moved(Noted(j, "step"), y).f = j.f
  BY <1>2, <1>5, <1>7, <1>8, <1>9, WalksTo
<1>11. JobFit(Failed(j)) /\ Failed(j).f = j.f
  BY <1>6, FailedFits
<1> QED BY <1>1, <1>4, <1>10, <1>11

LEMMA UnknownFits ==
  ASSUME program \in Programs, Walks(job), UnknownBranch
  PROVE  \E k : job' = k /\ JobFit(k) /\ k.f = job.f
<1>1. PICK j : j = job
  OBVIOUS
<1>2. Walks(j) /\ At(j.x.pc).op = "branch" /\ j \in Jobs /\ j.f \in Functions
  BY <1>1, WalksParts DEF UnknownBranch, Walking
<1>3. CASE ~Before(j.x.pc, Taken(j.x)) \/ Trying(j)
  <2>1. job' = Failed(j)
    BY <1>1, <1>3 DEF UnknownBranch, Walk
  <2> QED BY <1>1, <1>2, <2>1, FailedFits
<1>4. CASE ~(~Before(j.x.pc, Taken(j.x)) \/ Trying(j))
  <2>1. PICK k : k = [Moved(Noted(j, "fork"), Branched(j.x, After(j.x.pc))) EXCEPT
                       !.arms = Append(@, [x |-> Branched(j.x, Taken(j.x)), at |-> Len(j.nodes) + 1])]
    OBVIOUS
  <2>2. job' = k
    BY <1>1, <1>4, <2>1 DEF UnknownBranch, Walk
  <2>3. JobFit(k) /\ k.f = j.f
    BY <1>2, <1>4, <2>1, ForkFits
  <2> QED BY <1>1, <2>2, <2>3
<1> QED BY <1>3, <1>4

LEMMA ReturnFits ==
  ASSUME program \in Programs, Walks(job), Return
  PROVE  \E k : job' = k /\ JobFit(k) /\ k.f = job.f
<1>1. PICK j : j = job
  OBVIOUS
<1>2. Walks(j) /\ At(j.x.pc).op = "ret"
  BY <1>1 DEF Return, Walking
<1>3. PICK S : S = Operands(j.f, Homes(j.loop), Len(j.nodes))
  OBVIOUS
<1>4. Cells(S) /\ Fit(j.x, S) /\ Inside(j.x, j.f) /\ j \in Jobs /\ j.f \in Functions
  BY <1>1, <1>2, <1>3, WalksParts
<1>5. \/ job' = Failed(j)
      \/ j.x.conts = <<>> /\ job' = Leaf(j, "return")
      \/ j.x.conts # <<>> /\ job' = Moved(Noted(j, "step"), Returned(j.x))
  BY <1>1 DEF Return, Walk
<1>6. CASE job' = Failed(j)
  BY <1>1, <1>4, <1>6, FailedFits
<1>7. CASE j.x.conts = <<>> /\ job' = Leaf(j, "return")
  <2>1. PICK n : n = New(j.x, "return", Len(j.nodes) + 2)
    OBVIOUS
  <2>2. n.x = j.x /\ n.does = "return" /\ "return" \in Kinds \ Leading
    BY <2>1 DEF New, Kinds, Leading
  <2>3. Doing(n, j.loop, j.calls, j.astray, j.f)
    BY <1>7, <2>2 DEF Doing
  <2>4. JobFit(Leaf(j, "return")) /\ Leaf(j, "return").f = j.f
    BY <1>2, <2>1, <2>2, <2>3, LeafFits
  <2> QED BY <1>1, <1>7, <2>4
<1>8. CASE j.x.conts # <<>> /\ job' = Moved(Noted(j, "step"), Returned(j.x))
  <2>1. PICK y : y = Returned(j.x)
    OBVIOUS
  <2>2. Fit(y, S) /\ y.looped = j.x.looped
    BY <1>2, <1>4, <1>8, <2>1, ReturnedFits
  <2>3. Inside(y, j.f)
    BY <1>2, <1>4, <1>8, <2>1, InsideReturned
  <2>4. Comes(j, y)
    BY <1>2, <1>8, <2>1, StepComes
  <2>5. JobFit(Moved(Noted(j, "step"), y)) /\ Moved(Noted(j, "step"), y).f = j.f
    BY <1>2, <1>3, <2>2, <2>3, <2>4, WalksTo
  <2> QED BY <1>1, <1>8, <2>1, <2>5
<1> QED BY <1>5, <1>6, <1>7, <1>8

LEMMA CallFits ==
  ASSUME program \in Programs, Walks(job), Call
  PROVE  \E k : job' = k /\ JobFit(k) /\ k.f = job.f
<1>1. PICK j, f : j = job /\ f = At(j.x.pc).arg
  OBVIOUS
<1>2. Walks(j) /\ At(j.x.pc).op = "call"
  BY <1>1 DEF Call, Walking
<1>3. PICK S : S = Operands(j.f, Homes(j.loop), Len(j.nodes))
  OBVIOUS
<1>4. Cells(S) /\ Fit(j.x, S) /\ Inside(j.x, j.f) /\ j \in Jobs /\ j.f \in Functions
  BY <1>1, <1>2, <1>3, WalksParts
<1>5. /\ Opens(f) <=> f # j.f /\ Eligible(f) /\ j.loop.target = 0
      /\ \/ Opens(f) /\ job' = Edge(Opened(Noted(j, "step"), f), j.x.pc, Called(j.x, f))
         \/ ~Opens(f) /\ Recursive(f)
              /\ job' = Moved(Noted(Recorded(j, f), "call"), Answered(j.x, f, Result(Len(j.nodes) + 1)))
         \/ ~Opens(f) /\ ~Recursive(f) /\ job' = Edge(Noted(j, "step"), j.x.pc, Called(j.x, f))
  BY <1>1 DEF Call, Walk, Opens
<1>6. PICK y, h, k, o : y = Called(j.x, f) /\ h = Noted(j, "step") /\ k = Moved(h, y) /\ o = j.x.pc
  OBVIOUS
<1>7. f \in Functions /\ f \in Reached(j.f) /\ Fit(y, S) /\ y.pc = Entry(f) /\ y.looped = j.x.looped
  BY <1>1, <1>2, <1>4, <1>6, CallIsReached, CalledFits
<1>8. f = j.f => Recursive(f)
  BY <1>1, <1>2, <1>4, RootCalls
<1>9. y.pc = Entry(j.f) => f = j.f
  BY <1>7 DEF Entry
<1>10. (f # j.f /\ Eligible(f)) \/ ~Recursive(f)
       => Coming(h, k, y) /\ k.f = j.f /\ k.loop = j.loop /\ k.calls = j.calls /\ y.pc # Entry(j.f)
  <2> SUFFICES ASSUME (f # j.f /\ Eligible(f)) \/ ~Recursive(f)
               PROVE  Coming(h, k, y) /\ k.f = j.f /\ k.loop = j.loop /\ k.calls = j.calls /\ y.pc # Entry(j.f)
    OBVIOUS
  <2>1. Apart(j.f, f)
    BY <1>4, <1>7, InlinedIsApart
  <2>2. Inside(y, j.f)
    BY <1>1, <1>2, <1>4, <1>6, <2>1, InsideCalled
  <2>3. Comes(j, y)
    BY <1>1, <1>2, <1>6, StepComes
  <2>4. f # j.f
    BY <1>8
  <2> QED BY <1>2, <1>3, <1>6, <1>7, <1>9, <2>2, <2>3, <2>4, WalksTo
<1>11. CASE Opens(f) /\ job' = Edge(Opened(h, f), o, y)
  <2>1. Coming(h, k, y) /\ k.f = j.f /\ k.loop.target = 0 /\ y.pc # Entry(j.f)
    BY <1>5, <1>10, <1>11
  <2>2. Coming(Opened(h, f), Opened(k, f), y) /\ Opened(k, f).f = k.f
    BY <1>7, <2>1, ComingOpened
  <2>3. JobFit(Edge(Opened(h, f), o, y)) /\ Edge(Opened(h, f), o, y).f = Opened(k, f).f
    BY <2>1, <2>2, EdgeFits
  <2> QED BY <1>1, <1>11, <2>1, <2>2, <2>3
<1>12. CASE ~Opens(f) /\ ~Recursive(f) /\ job' = Edge(h, o, y)
  <2>1. Coming(h, k, y) /\ k.f = j.f /\ y.pc # Entry(j.f)
    BY <1>10, <1>12
  <2>2. JobFit(Edge(h, o, y)) /\ Edge(h, o, y).f = k.f
    BY <2>1, EdgeFits
  <2> QED BY <1>1, <1>12, <2>1, <2>2
<1>13. CASE job' = Moved(Noted(Recorded(j, f), "call"), Answered(j.x, f, Result(Len(j.nodes) + 1)))
  <2>1. PICK e : e = Claim(f, TopOf(j.x.a, Arity(f)))
    OBVIOUS
  <2>2. e \in Claims /\ CallsFit({e}) /\ e = Passing(j.x)
    BY <1>1, <1>2, <2>1, PassingIs
  <2>3. PICK q : q = Recorded(j, f)
    OBVIOUS
  <2>4. Walks(q) /\ q.f = j.f /\ q.x = j.x /\ q.calls = j.calls \cup {e} /\ q.nodes = j.nodes /\ q.loop = j.loop
    <3>1. /\ Walks(q)
          /\ q = Parts(j.f, j.x, j.nodes, j.arms, j.paths, j.loop, j.calls \cup {e}, j.astray, "walking")
      BY <1>2, <1>7, <2>1, <2>2, <2>3, WalksRecorded
    <3> QED BY <3>1, PartsAre
  <2>5. PICK n : n = New(q.x, "call", Len(q.nodes) + 2)
    OBVIOUS
  <2>6. n.x = j.x /\ n.does = "call" /\ "call" \in {"step", "call"}
    BY <2>4, <2>5 DEF New
  <2>7. Doing(n, q.loop, q.calls, q.astray, q.f)
    BY <1>2, <2>2, <2>4, <2>6 DEF Doing
  <2>8. PICK v, z : v = Result(Len(j.nodes) + 1) /\ z = Answered(j.x, f, v)
    OBVIOUS
  <2>9. z = Out(n, Len(q.nodes) + 1)
    BY <1>1, <2>4, <2>6, <2>8 DEF Out
  <2>10. Fit(z, Operands(q.f, Homes(q.loop), Len(q.nodes) + 1)) /\ Inside(z, q.f) /\ z.looped = q.x.looped
    <3>1. PICK T : T = Operands(j.f, Homes(j.loop), Len(j.nodes) + 1)
      OBVIOUS
    <3>2. Fit(j.x, T)
      BY <1>2, <1>3, <1>4, <3>1, FitNext
    <3>3. v \in T
      <4>1. Len(j.nodes) + 1 \in 1 .. Len(j.nodes) + 1
        BY <1>4, JobParts
      <4> QED BY <2>8, <3>1, <4>1 DEF Operands, Result
    <3>4. Fit(z, T) /\ z.pc = After(j.x.pc) /\ z.conts = j.x.conts /\ z.looped = j.x.looped
      BY <1>1, <1>2, <2>8, <3>2, <3>3, AnsweredFits
    <3>5. j.x.pc \in Nat \X Nat
      BY <1>4, FitParts
    <3>6. Inside(z, j.f)
      BY <1>4, <3>4, <3>5, AfterIs, InsideMoves
    <3> QED BY <2>4, <3>1, <3>4, <3>6
  <2>11. PICK g : g = Moved(Noted(q, "call"), z)
    OBVIOUS
  <2>12. Walks(g) /\ g.f = q.f
    <3>1. Walks(q) /\ Inside(z, q.f) /\ z.looped = q.x.looped /\ Fit(z, Operands(q.f, Homes(q.loop), Len(q.nodes) + 1))
      BY <2>4, <2>10
    <3>2. PICK does : does = "call"
      OBVIOUS
    <3>3. does \in {"step", "call"} /\ n = New(q.x, does, Len(q.nodes) + 2) /\ g = Moved(Noted(q, does), z)
      BY <2>5, <2>11, <3>2
    <3> QED BY <2>7, <2>9, <3>1, <3>3, WalksOn
  <2>13. g.f \in Functions /\ g.state = "walking"
    BY <2>12 DEF Walks
  <2> QED BY <1>1, <1>13, <2>3, <2>4, <2>8, <2>11, <2>12, <2>13 DEF JobFit
<1> QED BY <1>5, <1>6, <1>11, <1>12, <1>13

LEMMA TailFits ==
  ASSUME program \in Programs, Walks(job), TailCall
  PROVE  \E k : job' = k /\ JobFit(k) /\ k.f = job.f
<1>1. PICK j, f : j = job /\ f = At(j.x.pc).arg
  OBVIOUS
<1>2. Walks(j) /\ At(j.x.pc).op = "tail"
  BY <1>1 DEF TailCall, Walking
<1>3. PICK S : S = Operands(j.f, Homes(j.loop), Len(j.nodes))
  OBVIOUS
<1>4. Cells(S) /\ Fit(j.x, S) /\ Inside(j.x, j.f) /\ j \in Jobs /\ j.f \in Functions
  BY <1>1, <1>2, <1>3, WalksParts
<1>5. /\ Opens(f) <=> f # j.f /\ Eligible(f) /\ j.loop.target = 0
      /\ \/ job' = Leaf([Recorded(j, f) EXCEPT !.astray = @ \/ j.x.conts # <<>>], "tail")
         \/ Opens(f) /\ job' = Edge(Opened(Noted(j, "step"), f), j.x.pc, Tailed(j.x, f))
         \/ f = j.f /\ job' = Edge(Recorded(Noted(j, "step"), f), j.x.pc, Tailed(j.x, f))
         \/ f # j.f /\ job' = Edge(Noted(j, "step"), j.x.pc, Tailed(j.x, f))
  BY <1>1 DEF TailCall, Walk, Opens
<1>6. PICK y, h, k, o, e : /\ y = Tailed(j.x, f) /\ h = Noted(j, "step") /\ k = Moved(h, y) /\ o = j.x.pc
                           /\ e = Claim(f, TopOf(j.x.a, Arity(f)))
  OBVIOUS
<1>7. f \in Functions /\ Fit(y, S) /\ y.pc = Entry(f) /\ y.looped = j.x.looped
  BY <1>1, <1>2, <1>4, <1>6, CallIsReached, TailedFits
<1>8. e \in Claims /\ CallsFit({e}) /\ e = Passing(j.x)
  BY <1>1, <1>2, <1>6, PassingIs
<1>9. y.pc = Entry(j.f) => f = j.f
  BY <1>7 DEF Entry
<1>10. Coming(h, k, y) /\ h.x = j.x /\ k.f = j.f /\ k.loop = j.loop /\ k.calls = j.calls
  <2>1. Inside(y, j.f)
    BY <1>1, <1>2, <1>4, <1>6, InsideTailed
  <2>2. Comes(j, y)
    BY <1>1, <1>2, <1>6, StepComes
  <2> QED BY <1>2, <1>3, <1>6, <1>7, <2>1, <2>2, WalksTo
<1>11. CASE Opens(f) /\ job' = Edge(Opened(h, f), o, y)
  <2>1. k.loop.target = 0 /\ y.pc # Entry(j.f)
    BY <1>5, <1>9, <1>10, <1>11
  <2>2. Coming(Opened(h, f), Opened(k, f), y) /\ Opened(k, f).f = k.f
    BY <1>7, <1>10, <2>1, ComingOpened
  <2>3. JobFit(Edge(Opened(h, f), o, y)) /\ Edge(Opened(h, f), o, y).f = Opened(k, f).f
    BY <1>10, <2>1, <2>2, EdgeFits
  <2> QED BY <1>1, <1>10, <1>11, <2>2, <2>3
<1>12. CASE f # j.f /\ job' = Edge(h, o, y)
  <2>1. y.pc # Entry(k.f)
    BY <1>9, <1>10, <1>12
  <2>2. JobFit(Edge(h, o, y)) /\ Edge(h, o, y).f = k.f
    BY <1>10, <2>1, EdgeFits
  <2> QED BY <1>1, <1>10, <1>12, <2>2
<1>13. CASE f = j.f /\ job' = Edge(Recorded(h, f), o, y)
  <2>1. PICK q : Coming(Recorded(h, f), q, y) /\ q.f = k.f /\ q.calls = k.calls \cup {e}
    <3>1. e = Claim(f, TopOf(h.x.a, Arity(f)))
      BY <1>6, <1>10
    <3>2. Coming(h, k, y) /\ f \in Functions /\ e \in Claims /\ CallsFit({e})
      BY <1>7, <1>8, <1>10
    <3> QED BY <3>1, <3>2, ComingRecorded
  <2>2. j.x.conts = <<>>
    BY <1>1, <1>2, <1>4, <1>13, RootCalls
  <2>3. y.conts = <<>> /\ y.c = Passed(j.x, f)
    BY <1>1, <1>2, <1>4, <1>6, <2>2, TailedFits
  <2>4. Reverse(y.c) = TopOf(j.x.a, Arity(f))
    BY <1>1, <1>2, <1>4, <2>3, PassedIs
  <2>5. Claim(q.f, Reverse(y.c)) \in q.calls
    BY <1>6, <1>10, <1>13, <2>1, <2>4
  <2>6. JobFit(Edge(Recorded(h, f), o, y)) /\ Edge(Recorded(h, f), o, y).f = q.f
    BY <2>1, <2>3, <2>5, EdgeFits
  <2> QED BY <1>1, <1>10, <1>13, <2>1, <2>6
<1>14. CASE job' = Leaf([Recorded(j, f) EXCEPT !.astray = @ \/ j.x.conts # <<>>], "tail")
  <2>1. PICK d : d = (j.astray \/ j.x.conts # <<>>)
    OBVIOUS
  <2>2. d \in BOOLEAN /\ (j.astray => d)
    BY <2>1
  <2>3. PICK i, q, r : /\ i = j.calls \cup {e} /\ r = Recorded(j, f)
                       /\ q = Parts(j.f, j.x, j.nodes, j.arms, j.paths, j.loop, i, d, "walking")
    OBVIOUS
  <2>4. /\ Walks(q) /\ r.astray = j.astray /\ [r EXCEPT !.astray = d] = q
        /\ q = Parts(j.f, j.x, j.nodes, j.arms, j.paths, j.loop, j.calls \cup {e}, d, "walking")
    <3>1. Walks(r) /\ r = Parts(j.f, j.x, j.nodes, j.arms, j.paths, j.loop, i, j.astray, "walking")
      BY <1>2, <1>6, <1>7, <1>8, <2>3, WalksRecorded
    <3>2. /\ r.f = j.f /\ r.x = j.x /\ r.nodes = j.nodes /\ r.arms = j.arms /\ r.paths = j.paths /\ r.loop = j.loop
          /\ r.calls = i /\ r.astray = j.astray
      BY <3>1, PartsAre
    <3>3. i \in SUBSET Claims /\ CallsFit(i)
      BY <3>1, <3>2, WalksParts
    <3>4. q = Parts(r.f, r.x, r.nodes, r.arms, r.paths, r.loop, i, d, "walking") /\ r.calls \subseteq i /\ (r.astray => d)
      BY <2>2, <2>3, <3>2
    <3>5. Walks(q)
      BY <2>2, <3>1, <3>3, <3>4, WalksMore
    <3>6. [r EXCEPT !.astray = d] = q
      <4>1. PICK f1, x1, s1, b1, p1, l1, a1 : /\ f1 = j.f /\ x1 = j.x /\ s1 = j.nodes /\ b1 = j.arms /\ p1 = j.paths
                                              /\ l1 = j.loop /\ a1 = j.astray
        OBVIOUS
      <4>2. r = Parts(f1, x1, s1, b1, p1, l1, i, a1, "walking")
        BY <3>1, <4>1
      <4>3. [r EXCEPT !.astray = d] = Parts(f1, x1, s1, b1, p1, l1, i, d, "walking")
        BY <4>2 DEF Parts
      <4> QED BY <2>3, <4>1, <4>3
    <3> QED BY <2>3, <3>2, <3>5, <3>6
  <2>5. q.f = j.f /\ q.x = j.x /\ q.calls = j.calls \cup {e} /\ q.astray = d
    BY <2>4, PartsAre
  <2>6. job' = Leaf(q, "tail")
    <3>1. job' = Leaf([r EXCEPT !.astray = r.astray \/ j.x.conts # <<>>], "tail")
      BY <1>14, <2>3
    <3>2. (r.astray \/ j.x.conts # <<>>) = d
      BY <2>1, <2>4
    <3> QED BY <2>4, <3>1, <3>2
  <2>7. PICK n : n = New(q.x, "tail", Len(q.nodes) + 2)
    OBVIOUS
  <2>8. n.x = j.x /\ n.does = "tail" /\ "tail" \in Kinds \ Leading
    BY <2>5, <2>7 DEF New, Kinds, Leading
  <2>9. ~q.astray => n.x.conts = <<>>
    BY <2>1, <2>5, <2>8
  <2>10. Doing(n, q.loop, q.calls, q.astray, q.f)
    BY <1>2, <1>8, <2>5, <2>8, <2>9 DEF Doing
  <2>11. JobFit(Leaf(q, "tail")) /\ Leaf(q, "tail").f = q.f
    BY <2>4, <2>7, <2>8, <2>10, LeafFits
  <2> QED BY <1>1, <2>5, <2>6, <2>11
<1> QED BY <1>5, <1>6, <1>11, <1>12, <1>13, <1>14

-----------------------------------------------------------------------------
(* Nothing that was said of a program changes while it is the program.       *)

LEMMA ProgramStays ==
  ASSUME program' = program
  PROVE  /\ Functions' = Functions
         /\ \A f : Arity(f)' = Arity(f) /\ Callees(f)' = Callees(f) /\ Reached(f)' = Reached(f)
         /\ \A pc : At(pc)' = At(pc) /\ (Place(pc)' <=> Place(pc)) /\ Depth(pc)' = Depth(pc)
<1>1. Functions' = Functions
  BY DEF Functions
<1>2. \A f : Arity(f)' = Arity(f)
  BY DEF Arity
<1>3. \A pc : At(pc)' = At(pc)
  BY DEF At
<1>4. \A f : Transfers(f)' = Transfers(f)
  BY DEF Transfers
<1>5. \A f : Callees(f)' = Callees(f)
  BY <1>4 DEF Callees
<1>6. \A f : Reached(f)' = Reached(f)
  BY <1>1, <1>5 DEF Reached
<1>7. \A pc : Place(pc)' <=> Place(pc)
  BY <1>1 DEF Place
<1>8. \A pc : Depth(pc)' = Depth(pc)
  BY DEF Depth
<1> QED BY <1>1, <1>2, <1>3, <1>5, <1>6, <1>7, <1>8

LEMMA ContextsStay ==
  ASSUME program' = program
  PROVE  /\ \A x : Shape(x)' <=> Shape(x)
         /\ \A x, S : Fit(x, S)' <=> Fit(x, S)
         /\ \A x, f : Inside(x, f)' <=> Inside(x, f)
         /\ \A f, hs, n : Operands(f, hs, n)' = Operands(f, hs, n)
<1>1. \A cs : Returns(cs)' <=> Returns(cs)
  <2> TAKE cs
  <2>1. \A k \in 1 .. Len(cs) :
          (Place(cs[k].pc)' <=> Place(cs[k].pc)) /\ Depth(cs[k].pc)' = Depth(cs[k].pc)
          /\ Arity(cs[k].pc[1])' = Arity(cs[k].pc[1])
    BY ProgramStays
  <2> QED BY <2>1 DEF Returns
<1>2. \A x : Shape(x)' <=> Shape(x)
  <2> TAKE x
  <2>1. (Place(x.pc)' <=> Place(x.pc)) /\ Depth(x.pc)' = Depth(x.pc) /\ Arity(x.pc[1])' = Arity(x.pc[1])
        /\ (Returns(x.conts)' <=> Returns(x.conts))
    BY <1>1, ProgramStays
  <2> QED BY <2>1 DEF Shape
<1>3. \A x, S : Fit(x, S)' <=> Fit(x, S)
  BY <1>2 DEF Fit, Contexts
<1>4. \A f, g : (Within(f, g)' <=> Within(f, g)) /\ (Apart(f, g)' <=> Apart(f, g))
  BY ProgramStays DEF Within, Apart
<1>5. \A x, f : Inside(x, f)' <=> Inside(x, f)
  BY <1>4 DEF Inside
<1>6. \A f, hs, n : Operands(f, hs, n)' = Operands(f, hs, n)
  BY ProgramStays DEF Operands
<1> QED BY <1>2, <1>3, <1>5, <1>6

LEMMA TransfersStay ==
  ASSUME program' = program
  PROVE  /\ \A n, i : Out(n, i)' = Out(n, i)
         /\ \A x : Other(x)' = Other(x) /\ Passing(x)' = Passing(x)
         /\ \A f, s : Claim(f, s)' = Claim(f, s)
<1>1. \A f, s : Claim(f, s)' = Claim(f, s)
  BY ProgramStays DEF Claim
<1>2. \A x : Passing(x)' = Passing(x)
  BY <1>1, ProgramStays DEF Passing
<1>3. \A x : Straight(x)' = Straight(x)
  BY ProgramStays DEF Straight
<1>4. \A x : Taken(x)' = Taken(x)
  BY ProgramStays DEF Taken
<1>5. \A x : Other(x)' = Other(x)
  BY <1>4 DEF Other
<1>6. \A x, f : Passed(x, f)' = Passed(x, f)
  BY ProgramStays DEF Passed
<1>7. \A x, f : Called(x, f)' = Called(x, f)
  BY <1>6, ProgramStays DEF Called
<1>8. \A x, f : Tailed(x, f)' = Tailed(x, f)
  <2> TAKE x, f
  <2>1. Arity(f)' = Arity(f) /\ Arity(x.pc[1])' = Arity(x.pc[1]) /\ Passed(x, f)' = Passed(x, f)
    BY <1>6, ProgramStays
  <2> QED BY <2>1 DEF Tailed
<1>9. \A x, f, v : Answered(x, f, v)' = Answered(x, f, v)
  BY ProgramStays DEF Answered
<1>10. \A n, i : Out(n, i)' = Out(n, i)
  BY <1>3, <1>4, <1>7, <1>8, <1>9, ProgramStays DEF Out
<1> QED BY <1>1, <1>2, <1>5, <1>10

LEMMA GraphStays ==
  ASSUME program' = program, NEW f, facts'[f] = facts[f]
  PROVE  \A s, l, c, a, x, b, top : GraphFit(s, l, c, a, f, x, b, top)' <=> GraphFit(s, l, c, a, f, x, b, top)
<1>1. EntryContext(f)' = EntryContext(f)
  <2>1. Arity(f)' = Arity(f)
    BY ProgramStays
  <2>2. [i \in 1 .. Arity(f) |-> IF facts[f][i] = Unknown THEN Input(i) ELSE Const(facts[f][i])]' =
        [i \in 1 .. Arity(f) |-> IF facts[f][i] = Unknown THEN Input(i) ELSE Const(facts[f][i])]
    BY <2>1
  <2> QED BY <2>2 DEF EntryContext
<1>2. \A n, i, l : NodeFit(n, i, l, f)' <=> NodeFit(n, i, l, f)
  <2> TAKE n, i, l
  <2>1. PICK hs : hs = Homes(l)
    OBVIOUS
  <2>2. Operands(f, hs, i - 1)' = Operands(f, hs, i - 1) /\ (Inside(n.x, f)' <=> Inside(n.x, f))
    BY ContextsStay
  <2>3. PICK S : S = Operands(f, hs, i - 1)
    OBVIOUS
  <2>4. Fit(n.x, S)' <=> Fit(n.x, S)
    BY ContextsStay
  <2>5. Early(n, i, l, f)' <=> Early(n, i, l, f)
    <3>1. Operands(f, {}, i - 1)' = Operands(f, {}, i - 1)
      BY ContextsStay
    <3>2. PICK T : T = Operands(f, {}, i - 1)
      OBVIOUS
    <3>3. Fit(n.x, T)' <=> Fit(n.x, T)
      BY ContextsStay
    <3> QED BY <3>1, <3>2, <3>3 DEF Early
  <2> QED BY <2>1, <2>2, <2>3, <2>4, <2>5 DEF NodeFit
<1>3. \A n, l, c, a : Doing(n, l, c, a, f)' <=> Doing(n, l, c, a, f)
  BY ProgramStays, TransfersStay DEF Doing
<1>4. \A arm, s, l, a : ArmFit(arm, s, l, a)' <=> ArmFit(arm, s, l, a)
  BY TransfersStay DEF ArmFit
<1>5. \A s, l, x, i : Leads(s, l, x, i)' <=> Leads(s, l, x, i)
  BY TransfersStay DEF Leads
<1>6. \A l, s, x, top, a : LoopFit(l, s, f, x, top, a)' <=> LoopFit(l, s, f, x, top, a)
  <2> TAKE l, s, x, top, a
  <2>1. Operands(f, {}, l.from)' = Operands(f, {}, l.from) /\ Functions' = Functions
    BY ProgramStays, ContextsStay
  <2> QED BY <2>1 DEF LoopFit
<1> QED BY <1>1, <1>2, <1>3, <1>4, <1>5, <1>6 DEF GraphFit

LEMMA JobStays ==
  ASSUME program' = program, facts' = facts
  PROVE  \A j : JobFit(j)' <=> JobFit(j)
<1>1. \A cs : CallsFit(cs)' <=> CallsFit(cs)
  BY ProgramStays DEF CallsFit
<1>2. \A s, l, b, p : TrialFit(s, l, b, p)' <=> TrialFit(s, l, b, p)
  BY TransfersStay DEF TrialFit
<1>3. \A f, s, l, c, a, x, b, top : GraphFit(s, l, c, a, f, x, b, top)' <=> GraphFit(s, l, c, a, f, x, b, top)
  BY GraphStays
<1>4. \A j : Walks(j)' <=> Walks(j)
  <2> TAKE j
  <2>1. PICK S : S = Operands(j.f, Homes(j.loop), Len(j.nodes))
    OBVIOUS
  <2>2. Operands(j.f, Homes(j.loop), Len(j.nodes))' = S
    BY <2>1, ContextsStay
  <2>3. (Fit(j.x, S)' <=> Fit(j.x, S)) /\ (Inside(j.x, j.f)' <=> Inside(j.x, j.f))
    BY ContextsStay
  <2>4. Functions' = Functions /\ (CallsFit(j.calls)' <=> CallsFit(j.calls))
        /\ (TrialFit(j.nodes, j.loop, j.arms, j.paths)' <=> TrialFit(j.nodes, j.loop, j.arms, j.paths))
        /\ (GraphFit(j.nodes, j.loop, j.calls, j.astray, j.f, j.x, j.arms, Len(j.nodes) + 1)'
               <=> GraphFit(j.nodes, j.loop, j.calls, j.astray, j.f, j.x, j.arms, Len(j.nodes) + 1))
    BY <1>1, <1>2, <1>3, ProgramStays
  <2> QED BY <2>1, <2>2, <2>3, <2>4 DEF Walks
<1>5. \A j : Ended(j)' <=> Ended(j)
  BY <1>1, <1>3, ProgramStays DEF Ended
<1> QED BY <1>4, <1>5, ProgramStays DEF JobFit

-----------------------------------------------------------------------------
(* The worklist.                                                             *)

Covered(c) == c.to \in needed /\ \A i \in 1 .. Arity(c.to) : Admits(facts[c.to][i], c.facts[i])

WorkInv ==
  /\ program \in Programs /\ needed \subseteq Functions /\ dirty \subseteq needed
  /\ facts = [f \in Functions |-> facts[f]] /\ code = [f \in Functions |-> code[f]]
  /\ \A f \in Functions : facts[f] \in [1 .. Arity(f) -> Facts \cup {Unreached}]
  /\ \A f \in needed : \A i \in 1 .. Arity(f) : facts[f][i] # Unreached
  /\ \A f \in Functions : CallsFit(code[f].calls) /\ \A c \in code[f].calls : Covered(c)

JobInv == job.f # 0 => job.f \in needed /\ job.f \notin dirty /\ \A j : j = job => JobFit(j)

\* What a function of facts known to all its callers was made.
CodeFit(m, f) ==
  /\ m.optimized \in BOOLEAN /\ m.astray \in BOOLEAN
  /\ m.optimized => /\ m.nodes \in Seq(Nodes) /\ m.nodes # <<>>
                    /\ GraphFit(m.nodes, m.loop, m.calls, m.astray, f, 0, <<>>, Len(m.nodes))
  /\ ~m.optimized => /\ m.nodes = <<>> /\ m.loop.at = 0
                     /\ \A g \in Callees(f) : [to |-> g, facts |-> [i \in 1 .. Arity(g) |-> Unknown]] \in m.calls

Published(f) == f \in needed /\ f \notin dirty /\ f # job.f
CodeInv == \A f \in Functions : Published(f) => \A m : m = code[f] => CodeFit(m, f)

LEMMA FactsFinite == IsFiniteSet(Facts \cup {Unreached}) /\ Unreached \notin Facts /\ Unknown \in Facts
<1>1. IsFiniteSet(Num)
  BY WidthAssumption, FS_Interval DEF Num
<1>2. IsFiniteSet({Unknown}) /\ IsFiniteSet({Unreached})
  BY FS_Singleton
<1>3. IsFiniteSet(Facts)
  BY <1>1, <1>2, FS_Union DEF Facts
<1>4. IsFiniteSet(Facts \cup {Unreached})
  BY <1>2, <1>3, FS_Union
<1>5. Unreached \notin Facts /\ Unknown \in Facts
  BY WidthAssumption DEF Facts, Unreached, Unknown, Num
<1> QED BY <1>4, <1>5

\* What is known of several calls admits each of them.
LEMMA MetIs ==
  ASSUME NEW known, known \subseteq Facts \cup {Unreached}
  PROVE  /\ Met(known) \in Facts \cup {Unreached}
         /\ \A k \in known : k # Unreached => Met(known) # Unreached /\ Admits(Met(known), k)
         /\ \A k : known = {k} => Met(known) = k
<1>1. PICK reached : reached = known \ {Unreached}
  OBVIOUS
<1>2. IsFiniteSet(reached) /\ Cardinality(reached) \in Nat
  <2>1. IsFiniteSet(known)
    BY FactsFinite, FS_Subset
  <2>2. reached \subseteq known
    BY <1>1
  <2> QED BY <2>1, <2>2, FS_Subset, FS_CardinalityType
<1>3. Met(known) = IF reached = {} THEN Unreached ELSE IF Cardinality(reached) = 1 THEN CHOOSE k \in reached : TRUE ELSE Unknown
  <2>1. reached = {} => Cardinality(reached) # 1
    BY <1>2, FS_EmptySet
  <2> QED BY <1>1, <2>1 DEF Met
<1>4. CASE reached = {}
  <2>1. known \subseteq {Unreached} /\ Met(known) = Unreached
    BY <1>1, <1>3, <1>4
  <2> QED BY <2>1
<1>5. CASE reached # {} /\ Cardinality(reached) = 1
  <2>1. PICK k : reached = {k}
    BY <1>2, <1>5, FS_Singleton
  <2>2. Met(known) = k
    BY <1>3, <1>5, <2>1
  <2> QED BY <1>1, <2>1, <2>2 DEF Admits
<1>6. CASE reached # {} /\ Cardinality(reached) # 1
  <2>1. Met(known) = Unknown
    BY <1>3, <1>6
  <2>2. Unknown \in Facts /\ Unreached \notin Facts
    BY FactsFinite
  <2>3. ASSUME NEW k, known = {k} PROVE FALSE
    <3>1. reached = {k}
      BY <1>1, <1>6, <2>3
    <3> QED BY <1>6, <3>1, FS_Singleton
  <2> QED BY <2>1, <2>2, <2>3 DEF Admits
<1> QED BY <1>4, <1>5, <1>6

LEMMA JoinedIs ==
  ASSUME WorkInv, NEW calls, CallsFit(calls)
  PROVE  /\ Joined(calls) = [f \in Functions |-> Joined(calls)[f]]
         /\ \A f \in Functions : /\ Joined(calls)[f] \in [1 .. Arity(f) -> Facts \cup {Unreached}]
                                 /\ (\A c \in calls : c.to # f) => Joined(calls)[f] = facts[f]
                                 /\ f \in needed => \A i \in 1 .. Arity(f) :
                                      Joined(calls)[f][i] # Unreached /\ Admits(Joined(calls)[f][i], facts[f][i])
         /\ \A c \in calls : \A i \in 1 .. Arity(c.to) :
              Joined(calls)[c.to][i] # Unreached /\ Admits(Joined(calls)[c.to][i], c.facts[i])
         /\ \A f \in Functions : \A i \in 1 .. Arity(f) :
              facts[f][i] # Unreached => Admits(Joined(calls)[f][i], facts[f][i])
<1> DEFINE Known(f, i) == {facts[f][i]} \cup {c.facts[i] : c \in {d \in calls : d.to = f}}
<1>1. \A f \in Functions : Joined(calls)[f] = [i \in 1 .. Arity(f) |-> Met(Known(f, i))]
  BY DEF Joined
<1>2. Joined(calls) = [f \in Functions |-> Joined(calls)[f]]
  BY DEF Joined
<1>3. ASSUME NEW f \in Functions, NEW i \in 1 .. Arity(f) PROVE Known(f, i) \subseteq Facts \cup {Unreached}
  <2>1. facts[f][i] \in Facts \cup {Unreached}
    BY DEF WorkInv
  <2>2. \A c \in calls : c.to = f => c.facts[i] \in Facts
    BY DEF CallsFit
  <2> QED BY <2>1, <2>2
<1> HIDE DEF Known
<1>4. ASSUME NEW f \in Functions
      PROVE  /\ Joined(calls)[f] \in [1 .. Arity(f) -> Facts \cup {Unreached}]
             /\ (\A c \in calls : c.to # f) => Joined(calls)[f] = facts[f]
             /\ f \in needed => \A i \in 1 .. Arity(f) :
                  Joined(calls)[f][i] # Unreached /\ Admits(Joined(calls)[f][i], facts[f][i])
  <2>1. \A i \in 1 .. Arity(f) : Met(Known(f, i)) \in Facts \cup {Unreached}
    BY <1>3, MetIs
  <2>2. ASSUME \A c \in calls : c.to # f PROVE Joined(calls)[f] = facts[f]
    <3>1. \A i \in 1 .. Arity(f) : Known(f, i) = {facts[f][i]}
      BY <2>2 DEF Known
    <3>2. \A i \in 1 .. Arity(f) : Met(Known(f, i)) = facts[f][i]
      BY <1>3, <3>1, MetIs
    <3>3. facts[f] = [i \in 1 .. Arity(f) |-> facts[f][i]]
      BY DEF WorkInv
    <3> QED BY <1>1, <3>2, <3>3
  <2>3. ASSUME f \in needed, NEW i \in 1 .. Arity(f)
        PROVE  Joined(calls)[f][i] # Unreached /\ Admits(Joined(calls)[f][i], facts[f][i])
    <3>1. facts[f][i] # Unreached
      BY <2>3 DEF WorkInv
    <3>2. facts[f][i] \in Known(f, i)
      BY DEF Known
    <3>3. Joined(calls)[f][i] = Met(Known(f, i))
      BY <1>1
    <3> QED BY <1>3, <3>1, <3>2, <3>3, MetIs
  <2> QED BY <1>1, <2>1, <2>2, <2>3
<1>5. ASSUME NEW c \in calls, NEW i \in 1 .. Arity(c.to)
      PROVE  Joined(calls)[c.to][i] # Unreached /\ Admits(Joined(calls)[c.to][i], c.facts[i])
  <2>1. c.to \in Functions /\ c.facts[i] \in Facts
    BY DEF CallsFit
  <2>2. c.facts[i] # Unreached
    BY <2>1, FactsFinite
  <2>3. c.facts[i] \in Known(c.to, i)
    BY DEF Known
  <2>4. Joined(calls)[c.to][i] = Met(Known(c.to, i))
    BY <1>1, <2>1
  <2> QED BY <1>3, <2>1, <2>2, <2>3, <2>4, MetIs
<1>6. ASSUME NEW f \in Functions, NEW i \in 1 .. Arity(f), facts[f][i] # Unreached
      PROVE  Admits(Joined(calls)[f][i], facts[f][i])
  <2>1. facts[f][i] \in Known(f, i)
    BY DEF Known
  <2>2. Joined(calls)[f][i] = Met(Known(f, i))
    BY <1>1
  <2> QED BY <1>3, <1>6, <2>1, <2>2, MetIs
<1> QED BY <1>2, <1>4, <1>5, <1>6

LEMMA CodeStays ==
  ASSUME program' = program, NEW f, facts'[f] = facts[f]
  PROVE  \A m : CodeFit(m, f)' <=> CodeFit(m, f)
<1> TAKE m
<1>1. GraphFit(m.nodes, m.loop, m.calls, m.astray, f, 0, <<>>, Len(m.nodes))'
      <=> GraphFit(m.nodes, m.loop, m.calls, m.astray, f, 0, <<>>, Len(m.nodes))
  BY GraphStays
<1>2. Callees(f)' = Callees(f) /\ \A g : Arity(g)' = Arity(g)
  BY ProgramStays
<1>3. \A g : ([to |-> g, facts |-> [i \in 1 .. Arity(g) |-> Unknown]] \in m.calls)'
              <=> [to |-> g, facts |-> [i \in 1 .. Arity(g) |-> Unknown]] \in m.calls
  BY <1>2
<1> QED BY <1>1, <1>2, <1>3 DEF CodeFit

LEMMA PublishKeeps ==
  ASSUME WorkInv, JobInv, CodeInv, job.f # 0, NEW made, CallsFit(made.calls), CodeFit(made, job.f), Publish(made)
  PROVE  WorkInv' /\ JobInv' /\ CodeInv'
<1>1. PICK r, c, J : r = job.f /\ c = made.calls /\ J = Joined(c)
  OBVIOUS
<1>2. /\ program' = program /\ facts' = J /\ needed' = needed \cup Targets(c) /\ dirty' = dirty \cup Stale(c)
      /\ code' = [code EXCEPT ![r] = made] /\ job' = NoJob
  BY <1>1 DEF Publish
<1>3. /\ program \in Programs /\ needed \subseteq Functions /\ dirty \subseteq needed
      /\ facts = [f \in Functions |-> facts[f]] /\ code = [f \in Functions |-> code[f]]
      /\ \A f \in Functions : facts[f] \in [1 .. Arity(f) -> Facts \cup {Unreached}]
      /\ r \in needed /\ r \in Functions /\ CallsFit(c)
  BY <1>1 DEF WorkInv, JobInv
<1>4. Functions' = Functions /\ \A f : Arity(f)' = Arity(f)
  BY <1>2, ProgramStays
<1>5. J = [f \in Functions |-> J[f]]
  BY <1>1, <1>3, JoinedIs
<1>6. \A f \in Functions : /\ J[f] \in [1 .. Arity(f) -> Facts \cup {Unreached}]
                           /\ (\A d \in c : d.to # f) => J[f] = facts[f]
                           /\ f \in needed => \A i \in 1 .. Arity(f) :
                                J[f][i] # Unreached /\ Admits(J[f][i], facts[f][i])
  BY <1>1, <1>3, JoinedIs
<1>7. \A d \in c : \A i \in 1 .. Arity(d.to) : J[d.to][i] # Unreached /\ Admits(J[d.to][i], d.facts[i])
  BY <1>1, <1>3, JoinedIs
<1>8. Targets(c) = {d.to : d \in c} /\ Stale(c) = (Targets(c) \ needed) \cup {f \in Functions : J[f] # facts[f]}
  BY <1>1 DEF Targets, Stale
<1>9. needed' \subseteq Functions
  BY <1>2, <1>3, <1>8 DEF CallsFit
<1>10. dirty' \subseteq needed'
  <2>1. \A f \in Functions : J[f] # facts[f] => f \in Targets(c)
    BY <1>6, <1>8
  <2> QED BY <1>2, <1>3, <1>8, <2>1
<1>11. code' = [f \in Functions |-> IF f = r THEN made ELSE code[f]]
  BY <1>2, <1>3
<1>12. ASSUME NEW f \in needed', NEW i \in 1 .. Arity(f) PROVE J[f][i] # Unreached
  <2>1. f \in Functions /\ (f \in needed \/ \E d \in c : d.to = f)
    BY <1>2, <1>8, <1>9
  <2> QED BY <1>6, <1>7, <2>1
<1>13. ASSUME NEW f \in Functions, NEW d \in code'[f].calls
       PROVE  d.to \in needed' /\ \A i \in 1 .. Arity(d.to) : Admits(J[d.to][i], d.facts[i])
  <2>1. CASE f = r
    <3>1. d \in c
      BY <1>1, <1>11, <2>1
    <3> QED BY <1>2, <1>7, <1>8, <3>1
  <2>2. CASE f # r
    <3>1. d \in code[f].calls
      BY <1>11, <2>2
    <3>2. d.to \in needed /\ \A i \in 1 .. Arity(d.to) : Admits(facts[d.to][i], d.facts[i])
      BY <3>1 DEF WorkInv, Covered
    <3>3. \A i \in 1 .. Arity(d.to) : Admits(J[d.to][i], facts[d.to][i])
      BY <1>3, <1>6, <3>2
    <3> QED BY <1>2, <3>2, <3>3 DEF Admits
  <2> QED BY <2>1, <2>2
<1>14. \A f \in Functions : CallsFit(code'[f].calls)
  BY <1>1, <1>3, <1>11 DEF WorkInv
<1>15. \A cs : CallsFit(cs)' <=> CallsFit(cs)
  BY <1>4 DEF CallsFit
<1>16. \A d : Covered(d)' <=> d.to \in needed' /\ \A i \in 1 .. Arity(d.to) : Admits(J[d.to][i], d.facts[i])
  BY <1>2, <1>4 DEF Covered, Admits
<1>17. WorkInv'
  <2>1. program' \in Programs /\ needed' \subseteq Functions' /\ dirty' \subseteq needed'
    BY <1>2, <1>3, <1>4, <1>9, <1>10
  <2>2. facts' = [f \in Functions' |-> facts'[f]] /\ code' = [f \in Functions' |-> code'[f]]
    BY <1>2, <1>4, <1>5, <1>11
  <2>3. \A f \in Functions' : facts'[f] \in [1 .. Arity(f)' -> Facts \cup {Unreached}]
    BY <1>2, <1>4, <1>6
  <2>4. \A f \in needed' : \A i \in 1 .. Arity(f)' : facts'[f][i] # Unreached
    BY <1>2, <1>4, <1>12
  <2>5. (\A f \in Functions : CallsFit(code[f].calls) /\ \A d \in code[f].calls : Covered(d))'
    <3>1. \A f \in Functions' : \A d \in code'[f].calls :
            /\ d.to \in Functions' /\ d.facts \in [1 .. Arity(d.to)' -> Facts]
            /\ d.to \in needed' /\ \A i \in 1 .. Arity(d.to)' : Admits(facts'[d.to][i], d.facts[i])
      BY <1>2, <1>4, <1>13, <1>14 DEF CallsFit
    <3> QED BY <3>1 DEF CallsFit, Covered
  <2> QED BY <2>1, <2>2, <2>3, <2>4, <2>5 DEF WorkInv
<1>18. JobInv'
  BY <1>2 DEF JobInv, NoJob
<1>19. CodeInv'
  <2> SUFFICES ASSUME NEW f \in Functions, f \in needed', f \notin dirty', NEW m, m = code'[f]
               PROVE  CodeFit(m, f)'
    BY <1>4 DEF CodeInv, Published
  <2>1. facts'[f] = facts[f] /\ (f \in needed \/ f = r) /\ f \notin dirty
    BY <1>2, <1>3, <1>8
  <2>2. CodeFit(m, f)
    <3>1. CASE f = r
      BY <1>1, <1>11, <3>1
    <3>2. CASE f # r
      <4>1. Published(f) /\ m = code[f]
        BY <1>1, <1>11, <2>1, <3>2 DEF Published
      <4> QED BY <4>1 DEF CodeInv
    <3> QED BY <3>1, <3>2
  <2> QED BY <1>2, <2>1, <2>2, CodeStays
<1> QED BY <1>17, <1>18, <1>19

LEMMA OptimizeKeeps ==
  ASSUME WorkInv, JobInv, CodeInv, Optimize
  PROVE  WorkInv' /\ JobInv' /\ CodeInv'
<1>1. PICK j, m : j = job /\ m = [optimized |-> TRUE, astray |-> j.astray, nodes |-> j.nodes, loop |-> j.loop, calls |-> j.calls]
  OBVIOUS
<1>2. job.f # 0 /\ Publish(m) /\ Ended(j)
  BY <1>1 DEF Optimize, JobInv, JobFit
<1>3. CallsFit(m.calls) /\ j \in Jobs /\ j.nodes # <<>>
      /\ GraphFit(j.nodes, j.loop, j.calls, j.astray, j.f, 0, <<>>, Len(j.nodes))
  BY <1>1, <1>2 DEF Ended
<1>4. j.nodes \in Seq(Nodes) /\ j.astray \in BOOLEAN
  BY <1>3, JobParts
<1>5. CodeFit(m, job.f)
  BY <1>1, <1>3, <1>4 DEF CodeFit
<1> QED BY <1>2, <1>3, <1>5, PublishKeeps

LEMMA RetainKeeps ==
  ASSUME WorkInv, JobInv, CodeInv, Retain
  PROVE  WorkInv' /\ JobInv' /\ CodeInv'
<1>1. PICK r, m : r = job.f /\ m = Retained(r)
  OBVIOUS
<1>2. job.f # 0 /\ Publish(m) /\ r \in Functions /\ program \in Programs
  BY <1>1 DEF Retain, JobInv, WorkInv
<1>3. Callees(r) \subseteq Functions
  BY <1>2, CalleesTyped
<1>4. m.calls = {[to |-> g, facts |-> [i \in 1 .. Arity(g) |-> Unknown]] : g \in Callees(r)}
  BY <1>1 DEF Retained
<1>5. CallsFit(m.calls)
  BY <1>3, <1>4, FactsFinite DEF CallsFit
<1>6. m.optimized = FALSE /\ m.astray = FALSE /\ m.nodes = <<>> /\ m.loop.at = 0
  BY <1>1 DEF Retained, NoLoop
<1>7. CodeFit(m, job.f)
  BY <1>1, <1>4, <1>6 DEF CodeFit
<1> QED BY <1>2, <1>5, <1>7, PublishKeeps

\* A function starts at its entry, with what is known of its arguments.
Opening(f) == [i \in 1 .. Arity(f) |-> IF facts[f][i] = Unknown THEN Input(i) ELSE Const(facts[f][i])]

LEMMA EntryIs ==
  ASSUME program \in Programs, NEW f \in Functions, facts[f] \in [1 .. Arity(f) -> Facts]
  PROVE  LET x == EntryContext(f)
             S == Operands(f, {}, 0)
         IN  /\ Fit(x, S) /\ Inside(x, f) /\ x.pc = Entry(f) /\ x.a = <<>> /\ x.conts = <<>> /\ x.c = Reverse(Opening(f))
             /\ ~x.looped
             /\ Opening(f) \in Seq(S) /\ Len(Opening(f)) = Arity(f)
<1>1. PICK x, S, s : x = EntryContext(f) /\ S = Operands(f, {}, 0) /\ s = Opening(f)
  OBVIOUS
<1>2. Arity(f) \in Nat /\ Place(Entry(f)) /\ Depth(Entry(f)) = 0 /\ Entry(f) \in Nat \X Nat
  BY FunctionTypes, EntryPlace
<1>0. PICK b \in BOOLEAN : b = FALSE
  OBVIOUS
<1>3. x = [pc |-> Entry(f), a |-> <<>>, conts |-> <<>>, looped |-> b, c |-> Reverse(s)]
  BY <1>0, <1>1 DEF EntryContext, Opening
<1>4. PICK n \in Nat : n = Arity(f)
  BY <1>2
<1>5. s \in [1 .. n -> S]
  <2>1. \A i \in 1 .. n : Input(i) \in S
    BY <1>1, <1>4 DEF Operands, Input
  <2>2. \A k \in Num : Const(k) \in S
    BY <1>1 DEF Operands, Consts
  <2>3. \A i \in 1 .. n : facts[f][i] = Unknown \/ facts[f][i] \in Num
    BY <1>4 DEF Facts
  <2>4. s = [i \in 1 .. n |-> IF facts[f][i] = Unknown THEN Input(i) ELSE Const(facts[f][i])]
    BY <1>1, <1>4 DEF Opening
  <2> QED BY <2>1, <2>2, <2>3, <2>4
<1>6. s \in Seq(S) /\ Len(s) = n
  BY <1>5, FunctionIsSeq
<1>7. Reverse(s) \in Seq(S) /\ Len(Reverse(s)) = n
  BY <1>6, ReverseIs
<1>8. x \in Contexts(S)
  BY <1>2, <1>3, <1>7 DEF Contexts
<1>9. Shape(x)
  <2>1. x.pc = Entry(f) /\ Len(x.a) = 0 /\ Len(x.conts) = 0 /\ Len(x.c) = Arity(f) /\ Entry(f)[1] = f
    BY <1>3, <1>4, <1>7 DEF Entry
  <2> QED BY <1>2, <2>1 DEF Shape, BaseA, BaseC, Returns
<1>10. Inside(x, f)
  BY <1>3 DEF Inside, Within, Entry
<1> QED BY <1>0, <1>1, <1>3, <1>4, <1>6, <1>8, <1>9, <1>10 DEF Fit

LEMMA NoLoopIs == NoLoop \in Loops /\ ~NoLoop.captured /\ ~NoLoop.stable /\ NoLoop.at = 0 /\ NoLoop.path = 0 /\ Homes(NoLoop) = {}
BY DEF NoLoop, Loops, Homes

LEMMA StartedFits ==
  ASSUME program \in Programs, NEW f \in Functions, facts[f] \in [1 .. Arity(f) -> Facts]
  PROVE  JobFit(Started(f)) /\ Started(f).f = f
<1>1. PICK x, j, l : x = EntryContext(f) /\ j = Started(f) /\ l = NoLoop
  OBVIOUS
<1>2. PICK s, b, p, cs, a : s = <<>> /\ b = <<>> /\ p = 0 /\ cs = {} /\ a = FALSE
  OBVIOUS
<1>11. j = Parts(f, x, s, b, p, l, cs, a, "walking")
  BY <1>1, <1>2 DEF Started, Parts
<1>12. s \in Seq(Nodes) /\ b \in Seq(Arms) /\ p \in Nat /\ cs \in SUBSET Claims /\ a \in BOOLEAN /\ Len(s) = 0 /\ Len(b) = 0
  <2>1. s \in Seq(Nodes) /\ b \in Seq(Arms) /\ Len(s) = 0 /\ Len(b) = 0
    BY <1>2
  <2>2. p \in Nat /\ cs \in SUBSET Claims
    BY <1>2
  <2>3. a \in BOOLEAN
    BY <1>2
  <2> QED BY <2>1, <2>2, <2>3
<1>3. Fit(x, Operands(f, {}, 0)) /\ Inside(x, f) /\ ~x.looped
  BY <1>1, EntryIs
<1>4. l \in Loops /\ ~l.captured /\ ~l.stable /\ l.at = 0 /\ l.path = 0 /\ Homes(l) = {}
  BY <1>1, NoLoopIs
<1>5. x \in Contexts(Value) /\ f \in Nat
  <2>1. Arity(f) \in Nat /\ f \in Nat
    BY FunctionTypes DEF Functions
  <2>2. 0 \in Nat /\ {} \in SUBSET Nat
    OBVIOUS
  <2>3. Operands(f, {}, 0) \subseteq Value
    BY <2>1, <2>2, OperandsAreCells DEF Cells
  <2>4. Fit(x, Value)
    BY <1>3, <2>3, FitGrows
  <2> QED BY <2>1, <2>4 DEF Fit
<1>6. j \in Jobs
  BY <1>4, <1>5, <1>11, <1>12, PartsTyped
<1>7. /\ j.f = f /\ j.x = x /\ j.nodes = s /\ j.arms = b /\ j.paths = p /\ j.loop = l
      /\ j.calls = cs /\ j.astray = a /\ j.state = "walking"
  BY <1>11, PartsAre
<1>8. GraphFit(s, l, cs, a, f, x, b, Len(s) + 1)
  <2>1. LoopFit(l, s, f, x, Len(s) + 1, a)
    BY <1>4 DEF LoopFit
  <2>2. Where(s, x, 1) = EntryContext(f)
    BY <1>1, <1>12 DEF Where
  <2>3. 1 .. Len(s) = {} /\ 1 .. Len(b) = {}
    BY <1>12
  <2> QED BY <2>1, <2>2, <2>3 DEF GraphFit
<1>9. TrialFit(s, l, b, p)
  BY <1>4 DEF TrialFit
<1>10. Walks(j)
  <2>1. Fit(x, Operands(f, Homes(l), Len(s)))
    BY <1>3, <1>4, <1>12
  <2>2. CallsFit(cs) /\ l.path <= p
    BY <1>2, <1>4 DEF CallsFit
  <2> QED BY <1>3, <1>6, <1>7, <1>8, <1>9, <2>1, <2>2 DEF Walks
<1> QED BY <1>1, <1>7, <1>10 DEF JobFit

LEMMA WorkStays ==
  ASSUME WorkInv, program' = program, facts' = facts, needed' = needed, code' = code, dirty' \subseteq dirty
  PROVE  WorkInv'
<1>1. Functions' = Functions /\ \A f : Arity(f)' = Arity(f)
  BY ProgramStays
<1>2. \A cs : CallsFit(cs)' <=> CallsFit(cs)
  BY <1>1 DEF CallsFit
<1>3. \A c : Covered(c)' <=> Covered(c)
  BY <1>1 DEF Covered, Admits
<1>4. (\A f \in Functions : CallsFit(code[f].calls) /\ \A d \in code[f].calls : Covered(d))'
  <2>1. \A f \in Functions : \A d \in code[f].calls : d.to \in Functions /\ d.facts \in [1 .. Arity(d.to) -> Facts]
             /\ d.to \in needed /\ \A i \in 1 .. Arity(d.to) : Admits(facts[d.to][i], d.facts[i])
    BY DEF WorkInv, CallsFit, Covered
  <2> QED BY <1>1, <2>1 DEF CallsFit, Covered
<1> QED BY <1>1, <1>4 DEF WorkInv

LEMMA KnownFacts ==
  ASSUME WorkInv, NEW f \in needed
  PROVE  f \in Functions /\ facts[f] \in [1 .. Arity(f) -> Facts]
<1>1. f \in Functions /\ facts[f] \in [1 .. Arity(f) -> Facts \cup {Unreached}] /\ \A i \in 1 .. Arity(f) : facts[f][i] # Unreached
  BY DEF WorkInv
<1> QED BY <1>1

LEMMA BeginKeeps ==
  ASSUME WorkInv, JobInv, CodeInv, Begin
  PROVE  WorkInv' /\ JobInv' /\ CodeInv'
<1>1. PICK f \in dirty : job' = Started(f) /\ dirty' = dirty \ {f}
  BY DEF Begin
<1>2. job.f = 0 /\ program' = program /\ facts' = facts /\ needed' = needed /\ code' = code
  BY DEF Begin
<1>3. program \in Programs /\ f \in needed /\ f \in Functions /\ facts[f] \in [1 .. Arity(f) -> Facts] /\ 0 \notin Functions
  <2>1. program \in Programs /\ f \in needed
    BY DEF WorkInv
  <2>2. f \in Functions /\ facts[f] \in [1 .. Arity(f) -> Facts]
    BY <2>1, KnownFacts
  <2>3. 0 \notin Functions
    BY DEF Functions
  <2> QED BY <2>1, <2>2, <2>3
<1>4. PICK j : j = Started(f)
  OBVIOUS
<1>5. JobFit(j) /\ j.f = f
  BY <1>3, <1>4, StartedFits
<1>6. JobFit(j)'
  BY <1>2, <1>5, JobStays
<1>7. WorkInv'
  BY <1>1, <1>2, WorkStays
<1>8. JobInv'
  BY <1>1, <1>2, <1>3, <1>4, <1>5, <1>6 DEF JobInv
<1>9. CodeInv'
  <2> SUFFICES ASSUME NEW g \in Functions, Published(g)', NEW m, m = code[g] PROVE CodeFit(m, g)'
    BY <1>2, ProgramStays DEF CodeInv
  <2>1. Published(g)
    BY <1>1, <1>2, <1>3, <1>4, <1>5 DEF Published
  <2>2. CodeFit(m, g)
    BY <2>1 DEF CodeInv
  <2> QED BY <1>2, <2>2, CodeStays
<1> QED BY <1>7, <1>8, <1>9

LEMMA WalkKeeps ==
  ASSUME WorkInv, JobInv, CodeInv, Step \/ KnownBranch \/ UnknownBranch \/ Call \/ TailCall \/ Return
  PROVE  WorkInv' /\ JobInv' /\ CodeInv'
<1>1. program \in Programs /\ job.f # 0 /\ Walks(job)
  <2>1. job.f # 0 /\ job.state = "walking"
    BY DEF Step, KnownBranch, UnknownBranch, Call, TailCall, Return, Walking
  <2>2. PICK j : j = job
    OBVIOUS
  <2>3. Walks(j)
    BY <2>1, <2>2 DEF JobInv, JobFit
  <2> QED BY <2>1, <2>2, <2>3 DEF WorkInv
<1>2. /\ program' = program /\ facts' = facts /\ needed' = needed /\ code' = code /\ dirty' = dirty
  BY DEF Step, KnownBranch, UnknownBranch, Call, TailCall, Return, Walk
<1>3. PICK k : job' = k /\ JobFit(k) /\ k.f = job.f
  <2>1. CASE Step
    BY <1>1, <2>1, StepFits
  <2>2. CASE KnownBranch
    BY <1>1, <2>2, KnownFits
  <2>3. CASE UnknownBranch
    BY <1>1, <2>3, UnknownFits
  <2>4. CASE Call
    BY <1>1, <2>4, CallFits
  <2>5. CASE TailCall
    BY <1>1, <2>5, TailFits
  <2>6. CASE Return
    BY <1>1, <2>6, ReturnFits
  <2> QED BY <2>1, <2>2, <2>3, <2>4, <2>5, <2>6
<1>4. JobFit(k)'
  BY <1>2, <1>3, JobStays
<1>5. WorkInv'
  BY <1>2, WorkStays
<1>6. JobInv'
  BY <1>1, <1>2, <1>3, <1>4 DEF JobInv
<1>7. CodeInv'
  <2> SUFFICES ASSUME NEW g \in Functions, Published(g)', NEW m, m = code[g] PROVE CodeFit(m, g)'
    BY <1>2, ProgramStays DEF CodeInv
  <2>1. Published(g)
    BY <1>2, <1>3 DEF Published
  <2>2. CodeFit(m, g)
    BY <2>1 DEF CodeInv
  <2> QED BY <1>2, <2>2, CodeStays
<1> QED BY <1>5, <1>6, <1>7

\* The run goes on when all is compiled.
LEMMA RunLeaves ==
  ASSUME WorkInv, JobInv, CodeInv, UNCHANGED <<program, facts, needed, dirty, code, job>>
  PROVE  WorkInv' /\ JobInv' /\ CodeInv'
<1>1. WorkInv'
  BY WorkStays
<1>2. JobInv'
  <2> SUFFICES ASSUME job.f # 0, NEW j, j = job PROVE JobFit(j)'
    BY DEF JobInv
  <2>1. JobFit(j)
    BY DEF JobInv
  <2> QED BY <2>1, JobStays
<1>3. CodeInv'
  <2> SUFFICES ASSUME NEW g \in Functions, Published(g), NEW m, m = code[g] PROVE CodeFit(m, g)'
    BY ProgramStays DEF CodeInv, Published
  <2>1. CodeFit(m, g)
    BY DEF CodeInv
  <2> QED BY <2>1, CodeStays
<1> QED BY <1>1, <1>2, <1>3

LEMMA InitWorks == Init => WorkInv /\ JobInv /\ CodeInv
<1> SUFFICES ASSUME Init PROVE WorkInv /\ JobInv /\ CodeInv
  OBVIOUS
<1>1. program \in Programs /\ needed = program.exports /\ dirty = program.exports
  BY DEF Init
<1>2. needed \subseteq Functions
  BY <1>1, FunctionTypes
<1>3. \A f \in Functions : facts[f] = [i \in 1 .. Arity(f) |-> IF f \in program.exports THEN Unknown ELSE Unreached]
  BY DEF Init
<1>4. \A f \in Functions : code[f].calls = {}
  BY DEF Init
<1>5. WorkInv
  <2>1. facts = [f \in Functions |-> facts[f]] /\ code = [f \in Functions |-> code[f]]
    BY DEF Init
  <2>2. \A f \in Functions : facts[f] \in [1 .. Arity(f) -> Facts \cup {Unreached}]
    BY <1>3, FactsFinite
  <2>3. \A f \in needed : \A i \in 1 .. Arity(f) : facts[f][i] # Unreached
    <3>1. Unknown # Unreached
      BY DEF Unknown, Unreached
    <3>2. ASSUME NEW f \in needed, NEW i \in 1 .. Arity(f) PROVE facts[f][i] = Unknown
      <4>1. f \in Functions /\ f \in program.exports
        BY <1>1, <1>2
      <4>2. facts[f] = [k \in 1 .. Arity(f) |-> Unknown]
        BY <1>3, <4>1
      <4> QED BY <4>2
    <3> QED BY <3>1, <3>2
  <2> QED BY <1>1, <1>2, <1>4, <2>1, <2>2, <2>3 DEF WorkInv, CallsFit
<1>6. JobInv
  BY DEF Init, JobInv, NoJob
<1>7. CodeInv
  BY <1>1 DEF CodeInv, Published
<1> QED BY <1>5, <1>6, <1>7

-----------------------------------------------------------------------------
(* The run: a run r of the code m.                                           *)

RunIs(f, at, x, back, input, home, result) ==
  [f |-> f, at |-> at, x |-> x, back |-> back, input |-> input, home |-> home, result |-> result]

\* The cells that r may read: before the loop is come to there are no homes.
Legible(S, f, m, r) ==
  \/ S = Operands(f, {}, Len(m.nodes))
  \/ S = Operands(f, Homes(m.loop), Len(m.nodes)) /\ r.home \in [1 .. Len(m.loop.initial) -> Num]

Follows(r, m) ==
  LET n == m.nodes[r.at]
  IN  /\ AgreesWith(n.x, r.x, r) /\ Live(m.loop, r.at)
      /\ \E S : Legible(S, r.f, m, r) /\ n.x \in Contexts(S)

\* Where the code goes from the node n.
Chosen(r, m, n) == IF m.nodes[n].does = "fork" /\ ValueOf(Last(m.nodes[n].x.a), r) # 0
                   THEN m.nodes[n].taken ELSE m.nodes[n].next

\* The nodes of W lead from the prologue to where the run is, or, when it has
\* come through the loop, to the loop.
Mark(r, m) == IF m.nodes[r.at].x.looped THEN m.loop.at ELSE r.at
Way(W, r, m) ==
  /\ 1 \in W \cup {Mark(r, m)}
  /\ \A n \in W : /\ n \in 1 .. Len(m.nodes) /\ m.nodes[n].does \in Leading /\ n < Mark(r, m)
                  /\ Chosen(r, m, n) \in W \cup {Mark(r, m)}
Found(r, m) == \E W : Way(W, r, m)

RunFit(r, m) ==
  /\ r = RunIs(r.f, r.at, r.x, r.back, r.input, r.home, r.result)
  /\ r.at \in 0 .. Len(m.nodes) /\ (r.at = 0 <=> ~m.optimized)
  /\ Fit(r.x, Consts) /\ (r.at = 0 => r.x.pc[1] = r.f /\ r.x.conts = <<>>)
  /\ r.input \in [1 .. Arity(r.f) -> Num] /\ r.result \in [1 .. Len(m.nodes) -> Num]
  /\ r.at # 0 /\ ~m.astray => Follows(r, m) /\ Found(r, m)

\* On its way back the run is on the way to the loop, where q would stand.
BackFit(r, m) ==
  /\ r = RunIs(r.f, r.at, r.x, r.back, r.input, r.home, r.result)
  /\ m.optimized /\ m.loop.stable /\ r.at \in 1 .. Len(m.nodes)
  /\ \E q, W : /\ q = RunIs(r.f, m.loop.at, r.x, r.back, r.input, r.home, r.result) /\ RunFit(q, m)
               /\ ~m.astray => Way(W, q, m) /\ r.at \in W

RunInv == Running => /\ Done /\ run.f \in needed
                     /\ \A r, m : r = run /\ m = code[run.f] => (~r.back => RunFit(r, m)) /\ (r.back => BackFit(r, m))

LEMMA RunIsParts ==
  ASSUME NEW f, NEW at, NEW x, NEW back, NEW input, NEW home, NEW result, NEW r, r = RunIs(f, at, x, back, input, home, result)
  PROVE  /\ r.f = f /\ r.at = at /\ r.x = x /\ r.back = back /\ r.input = input /\ r.home = home /\ r.result = result
         /\ r = RunIs(r.f, r.at, r.x, r.back, r.input, r.home, r.result)
BY DEF RunIs

LEMMA RunStays ==
  ASSUME program' = program
  PROVE  \A r, m : (RunFit(r, m)' <=> RunFit(r, m)) /\ (BackFit(r, m)' <=> BackFit(r, m))
<1>1. \A S, f, m, r : Legible(S, f, m, r)' <=> Legible(S, f, m, r)
  <2> TAKE S, f, m, r
  <2>1. PICK hs, n : hs = Homes(m.loop) /\ n = Len(m.nodes)
    OBVIOUS
  <2>2. Operands(f, {}, n)' = Operands(f, {}, n) /\ Operands(f, hs, n)' = Operands(f, hs, n)
    BY ContextsStay
  <2> QED BY <2>1, <2>2 DEF Legible
<1>2. \A r, m : Follows(r, m)' <=> Follows(r, m)
  BY <1>1 DEF Follows
<1>3. \A x : Fit(x, Consts)' <=> Fit(x, Consts)
  BY ContextsStay
<1>4. \A r, m : RunFit(r, m)' <=> RunFit(r, m)
  BY <1>2, <1>3, ProgramStays DEF RunFit
<1>5. \A r, m : BackFit(r, m)' <=> BackFit(r, m)
  BY <1>4 DEF BackFit
<1> QED BY <1>4, <1>5

\* What r may read has values.
LEMMA LegibleIs ==
  ASSUME program \in Programs, NEW f \in Functions, NEW m, CodeFit(m, f), m.optimized, NEW r,
         r.input \in [1 .. Arity(f) -> Num], r.result \in [1 .. Len(m.nodes) -> Num], NEW S, Legible(S, f, m, r)
  PROVE  Cells(S) /\ Readable(S, r) /\ S \subseteq Operands(f, Homes(m.loop), Len(m.nodes))
<1>1. m.nodes \in Seq(Nodes) /\ LoopFit(m.loop, m.nodes, f, 0, Len(m.nodes), m.astray) /\ m.loop \in Loops
  BY DEF CodeFit, GraphFit, LoopFit
<1>2. PICK l, n : l = m.loop /\ n = Len(m.nodes)
  OBVIOUS
<1>3. n \in Nat /\ Arity(f) \in Nat /\ Homes(l) \in SUBSET Nat /\ {} \in SUBSET Nat
  BY <1>1, <1>2, FunctionTypes, HomesTyped
<1>4. Cells(S)
  BY <1>2, <1>3, OperandsAreCells DEF Legible
<1>5. S \subseteq Operands(f, Homes(l), n)
  <2>1. n <= n /\ {} \subseteq Homes(l)
    BY <1>3
  <2>2. Operands(f, {}, n) \subseteq Operands(f, Homes(l), n)
    BY <1>3, <2>1, OperandsGrow
  <2> QED BY <1>2, <2>2 DEF Legible
<1>6. Homes(l) \subseteq 1 .. Len(l.initial)
  BY <1>1, <1>2 DEF LoopFit, Homes
<1>7. ASSUME NEW v \in S
      PROVE  /\ v.base = "input"  => r.input[v.n] \in Num
             /\ v.base = "home"   => r.home[v.n] \in Num
             /\ v.base = "result" => r.result[v.n] \in Num
  <2>1. PICK hs : S = Operands(f, hs, n) /\ (hs # {} => hs = Homes(l) /\ r.home \in [1 .. Len(l.initial) -> Num])
    BY <1>2 DEF Legible
  <2>2. /\ v.base = "input"  => v.n \in 1 .. Arity(f)
        /\ v.base = "home"   => v.n \in hs
        /\ v.base = "result" => v.n \in 1 .. n
    BY <2>1 DEF Operands, Consts, Const
  <2> QED BY <1>2, <1>6, <2>1, <2>2
<1> QED BY <1>2, <1>4, <1>5, <1>7 DEF Readable

\* A node that is followed and what the program is in.
LEMMA FollowsPair ==
  ASSUME program \in Programs, NEW r, NEW m, r.f \in Functions, CodeFit(m, r.f), RunFit(r, m), r.at # 0, ~m.astray
  PROVE  \E S : Legible(S, r.f, m, r) /\ Pair(S, m.nodes[r.at].x, r.x, r)
<1>1. m.optimized /\ r.at \in 1 .. Len(m.nodes) /\ Follows(r, m)
      /\ r.input \in [1 .. Arity(r.f) -> Num] /\ r.result \in [1 .. Len(m.nodes) -> Num] /\ Fit(r.x, Consts)
  <2>1. m.nodes \in Seq(Nodes)
    BY DEF CodeFit, RunFit
  <2>2. Len(m.nodes) \in Nat
    BY <2>1
  <2> QED BY <2>2 DEF RunFit, CodeFit
<1>2. PICK n : n = m.nodes[r.at]
  OBVIOUS
<1>3. PICK S : Legible(S, r.f, m, r) /\ n.x \in Contexts(S)
  BY <1>1, <1>2 DEF Follows
<1>4. Cells(S) /\ Readable(S, r)
  BY <1>1, <1>3, LegibleIs
<1>5. Shape(n.x)
  BY <1>1, <1>2 DEF CodeFit, GraphFit, NodeFit, Fit
<1>6. AgreesWith(n.x, r.x, r)
  BY <1>1, <1>2 DEF Follows
<1> QED BY <1>1, <1>2, <1>3, <1>4, <1>5, <1>6 DEF Pair, Fit

-----------------------------------------------------------------------------
(* The run comes to the node k, with the program in x and results of calls.  *)

Arrives(r, m, k, y, x, result) ==
  LET q == RunIs(r.f, r.at, r.x, r.back, r.input, r.home, result)
  IN  /\ AgreesWith(y, x, q) /\ Linked(m.nodes, m.loop, 0, r.at, k, y)
      /\ \E S : Legible(S, r.f, m, r) /\ y \in Contexts(S)

HomeAt(r, m, k) == IF k = m.loop.at THEN Values(m.loop.initial, r) ELSE r.home

LEMMA SameValues ==
  ASSUME NEW q, NEW r, q.input = r.input, q.home = r.home, q.result = r.result
  PROVE  \A v : ValueOf(v, q) = ValueOf(v, r)
BY DEF ValueOf

\* A node is followed on any way but into the loop.
LEMMA ReachesNode ==
  ASSUME program \in Programs, NEW r, NEW m, NEW k, NEW x, NEW result, NEW y,
         Arrives(r, m, k, y, x, result), ~(m.loop.stable /\ k = m.loop.at), k <= Len(m.nodes),
         NEW p, p = RunIs(r.f, k, x, r.back, r.input, r.home, result)
  PROVE  Follows(p, m)
<1>1. PICK q : q = RunIs(r.f, r.at, r.x, r.back, r.input, r.home, result)
  OBVIOUS
<1>2. AgreesWith(y, x, q) /\ y = m.nodes[k].x /\ Live(m.loop, k)
  BY <1>1 DEF Arrives, Linked, Where
<1>3. PICK S : Legible(S, r.f, m, r) /\ y \in Contexts(S)
  BY DEF Arrives
<1>4. q.input = r.input /\ q.home = r.home /\ q.result = result
  BY <1>1 DEF RunIs
<1>5. p.f = r.f /\ p.at = k /\ p.x = x /\ p.input = r.input /\ p.home = r.home /\ p.result = result
  BY DEF RunIs
<1>6. \A v : ValueOf(v, p) = ValueOf(v, q)
  BY <1>4, <1>5, SameValues
<1>7. AgreesWith(y, x, p)
  BY <1>2, <1>6 DEF AgreesWith, Alike
<1>8. Legible(S, p.f, m, p)
  BY <1>3, <1>5 DEF Legible
<1> QED BY <1>2, <1>3, <1>5, <1>7, <1>8 DEF Follows

\* On the way into the loop every cell that changes there gets its home.
LEMMA ReachesLoop ==
  ASSUME program \in Programs, NEW r, NEW m, r.f \in Functions, CodeFit(m, r.f), m.optimized, ~m.astray,
         r.input \in [1 .. Arity(r.f) -> Num], r.result \in [1 .. Len(m.nodes) -> Num],
         NEW k \in 1 .. Len(m.nodes), NEW x, NEW y, Arrives(r, m, k, y, x, r.result), m.loop.stable, k = m.loop.at,
         NEW p, p = RunIs(r.f, k, x, r.back, r.input, Values(m.loop.initial, r), r.result)
  PROVE  Follows(p, m)
<1>1. PICK q, l, s, f : q = RunIs(r.f, r.at, r.x, r.back, r.input, r.home, r.result) /\ l = m.loop /\ s = m.nodes /\ f = r.f
  OBVIOUS
<1>2. s \in Seq(Nodes) /\ LoopFit(l, s, f, 0, Len(s), FALSE)
  BY <1>1 DEF CodeFit, GraphFit
<1>3. /\ l \in Loops /\ l.captured /\ l.stable /\ l.from \in 1 .. Len(s) /\ l.initial \in Seq(Operands(f, {}, l.from))
      /\ l.homes \subseteq 1 .. Len(l.initial) /\ Len(l.header) = Len(l.initial) /\ Where(s, 0, l.at) = Head_(l)
  BY <1>1, <1>2 DEF LoopFit
<1>4. \A d \in 1 .. Len(l.header) : l.header[d] = IF d \in l.homes THEN LoopHome(d) ELSE l.initial[d]
  BY <1>1, <1>2 DEF LoopFit
<1>5. PICK h : h = s[k].x
  OBVIOUS
<1>6. h = Head_(l) /\ AgreesWith(y, x, q) /\ y = [h EXCEPT !.c = l.initial, !.looped = FALSE] /\ Live(l, k)
  BY <1>1, <1>3, <1>5 DEF Arrives, Linked, Where
<1>7. h.pc = Entry(l.target) /\ h.a = <<>> /\ h.c = l.header /\ h.conts = l.conts
  BY <1>6 DEF Head_
<1>8. y.pc = h.pc /\ y.a = <<>> /\ y.c = l.initial /\ y.conts = h.conts
  BY <1>6 DEF Head_
<1>9. q.input = r.input /\ q.home = r.home /\ q.result = r.result
  BY <1>1 DEF RunIs
<1>10. /\ p.f = r.f /\ p.at = k /\ p.x = x /\ p.input = r.input /\ p.home = Values(l.initial, r) /\ p.result = r.result
  BY <1>1 DEF RunIs
<1>11. PICK T, n, u : T = Operands(f, {}, n) /\ n = Len(s) /\ u = l.initial
  OBVIOUS
<1>12. n \in Nat /\ Arity(f) \in Nat /\ {} \in SUBSET Nat /\ l.from \in Nat /\ l.from <= n /\ Homes(l) = l.homes /\ l.homes \in SUBSET Nat
  <2>1. n \in Nat /\ l.from \in Nat /\ l.from <= n
    BY <1>2, <1>3, <1>11
  <2>2. Arity(f) \in Nat
    BY <1>1, FunctionTypes
  <2>3. Homes(l) \in SUBSET Nat
    BY <1>3, HomesTyped
  <2>4. Homes(l) = l.homes
    BY <1>3 DEF Homes
  <2> QED BY <2>1, <2>2, <2>3, <2>4
<1>13. u \in Seq(T) /\ Len(u) \in Nat
  <2>1. Operands(f, {}, l.from) \subseteq T
    BY <1>11, <1>12, OperandsGrow
  <2> QED BY <1>3, <1>11, <2>1
<1>14. Cells(T) /\ Readable(T, r)
  <2>1. Legible(T, f, m, r)
    BY <1>1, <1>11 DEF Legible
  <2> QED BY <1>1, <2>1, LegibleIs
<1>15. \A d \in 1 .. Len(u) : u[d] \in T /\ ValueOf(u[d], r) \in Num
  BY <1>13, <1>14, ValueIsNum
<1>16. p.home = [d \in 1 .. Len(u) |-> ValueOf(u[d], r)] /\ p.home \in [1 .. Len(u) -> Num]
  <2>1. DOMAIN u = 1 .. Len(u)
    BY <1>13
  <2>2. p.home = [d \in 1 .. Len(u) |-> ValueOf(u[d], r)]
    BY <1>10, <1>11, <2>1 DEF Values
  <2> QED BY <1>15, <2>2
<1>17. \A v \in T : ValueOf(v, p) = ValueOf(v, r)
  <2>1. \A v \in T : v.base \in {"const", "input", "result"}
    BY <1>11 DEF Operands, Consts, Const
  <2> QED BY <1>10, <2>1 DEF ValueOf
<1>18. \A d \in 1 .. Len(u) : ValueOf(h.c[d], p) = ValueOf(u[d], r)
  <2> TAKE d \in 1 .. Len(u)
  <2>1. CASE d \in l.homes
    <3>1. h.c[d] = LoopHome(d)
      BY <1>3, <1>4, <1>7, <1>11, <2>1
    <3>2. ValueOf(h.c[d], p) = p.home[d] % Width
      <4>1. ValueOf(h.c[d], p) = (p.home[d] + 0) % Width
        BY <3>1 DEF LoopHome, ValueOf
      <4> QED BY <1>16, <4>1, WidthAssumption DEF Num
    <3>3. p.home[d] = ValueOf(u[d], r) /\ p.home[d] \in Num
      BY <1>15, <1>16
    <3>4. \A a \in Num : a % Width = a
      <4>1. Width \in Nat \ {0} /\ \A w \in Nat \ {0} : \A a \in 0 .. w - 1 : a % w = a
        BY WidthAssumption
      <4> QED BY <4>1 DEF Num
    <3> QED BY <3>2, <3>3, <3>4
  <2>2. CASE d \notin l.homes
    <3>1. h.c[d] = u[d]
      BY <1>3, <1>4, <1>7, <1>11, <2>2
    <3> QED BY <1>15, <1>17, <3>1
  <2> QED BY <2>1, <2>2
<1>19. Alike(u, x.c, r) /\ Alike(y.a, x.a, q) /\ y.pc = x.pc /\ y.conts = x.conts
  <2>1. \A v : ValueOf(v, q) = ValueOf(v, r)
    BY <1>9, SameValues
  <2> QED BY <1>6, <1>8, <1>11, <2>1 DEF AgreesWith, Alike
<1>20. AgreesWith(h, x, p)
  <2>1. Alike(h.c, x.c, p)
    BY <1>3, <1>7, <1>11, <1>18, <1>19 DEF Alike
  <2>2. Alike(h.a, x.a, p)
    BY <1>7, <1>8, <1>19 DEF Alike
  <2> QED BY <1>7, <1>8, <1>19, <2>1, <2>2 DEF AgreesWith
<1>21. PICK S : S = Operands(f, Homes(l), n)
  OBVIOUS
<1>22. Legible(S, p.f, m, p)
  BY <1>1, <1>10, <1>11, <1>16, <1>21 DEF Legible
<1>23. h \in Contexts(S)
  <2>1. \A i \in 1 .. Len(s) : Fit(s[i].x, Operands(f, Homes(l), i - 1))
    BY <1>1 DEF CodeFit, GraphFit, NodeFit
  <2>2. k - 1 \in Nat /\ k - 1 <= n
    BY <1>1, <1>11
  <2>3. Operands(f, Homes(l), k - 1) \subseteq S
    BY <1>12, <1>21, <2>2, OperandsGrow
  <2>4. Fit(h, S)
    BY <1>1, <1>5, <2>1, <2>3, FitGrows
  <2> QED BY <2>4 DEF Fit
<1> QED BY <1>1, <1>5, <1>6, <1>10, <1>20, <1>22, <1>23 DEF Follows

LEMMA Reaches ==
  ASSUME program \in Programs, NEW r, NEW m, r.f \in Functions, CodeFit(m, r.f), RunFit(r, m), r.at # 0,
         NEW k \in 1 .. Len(m.nodes), NEW x, Fit(x, Consts), NEW result \in [1 .. Len(m.nodes) -> Num],
         NEW y, ~m.astray => Arrives(r, m, k, y, x, result), m.loop.stable /\ r.at = m.loop.from => result = r.result,
         NEW p, p = RunIs(r.f, k, x, r.back, r.input, HomeAt(r, m, k), result),
         ~m.astray => Found(p, m)
  PROVE  RunFit(p, m)
<1>1. /\ p.f = r.f /\ p.at = k /\ p.x = x /\ p.input = r.input /\ p.home = HomeAt(r, m, k) /\ p.result = result
      /\ p = RunIs(p.f, p.at, p.x, p.back, p.input, p.home, p.result)
  BY RunIsParts
<1>2. m.optimized /\ r.input \in [1 .. Arity(r.f) -> Num] /\ r.result \in [1 .. Len(m.nodes) -> Num]
  BY DEF RunFit, CodeFit
<1>3. m.nodes \in Seq(Nodes) /\ LoopFit(m.loop, m.nodes, r.f, 0, Len(m.nodes), m.astray)
  BY <1>2 DEF CodeFit, GraphFit
<1>4. ASSUME ~m.astray PROVE Follows(p, m)
  <2>1. Arrives(r, m, k, y, x, result)
    BY <1>4
  <2>2. CASE m.loop.stable /\ k = m.loop.at
    <3>1. r.at = m.loop.from
      BY <2>1, <2>2 DEF Arrives, Linked
    <3>2. p = RunIs(r.f, k, x, r.back, r.input, Values(m.loop.initial, r), r.result) /\ Arrives(r, m, k, y, x, r.result)
      BY <2>1, <2>2, <3>1 DEF HomeAt
    <3> QED BY <1>2, <1>4, <2>2, <3>2, ReachesLoop
  <2>3. CASE ~(m.loop.stable /\ k = m.loop.at)
    <3>1. k # m.loop.at
      <4>1. ~m.loop.stable => m.loop.at = 0
        BY <1>3 DEF LoopFit
      <4> QED BY <2>3, <4>1
    <3>2. p = RunIs(r.f, k, x, r.back, r.input, r.home, result)
      BY <3>1 DEF HomeAt
    <3>3. k <= Len(m.nodes)
      BY <1>3
    <3> QED BY <2>1, <2>3, <3>2, <3>3, ReachesNode
  <2> QED BY <2>2, <2>3
<1>5. k # 0 /\ k \in 0 .. Len(m.nodes)
  BY <1>3
<1> QED BY <1>1, <1>2, <1>4, <1>5 DEF RunFit

-----------------------------------------------------------------------------
(* Steps of the run.                                                         *)

RunNow(r, m) ==
  /\ program \in Programs /\ r = run /\ m = code[run.f] /\ r.f \in Functions /\ r.f \in needed /\ Done
  /\ CodeFit(m, r.f) /\ RunFit(r, m) /\ ~r.back
BackNow(r, m) ==
  /\ program \in Programs /\ r = run /\ m = code[run.f] /\ r.f \in Functions /\ r.f \in needed /\ Done
  /\ CodeFit(m, r.f) /\ BackFit(r, m) /\ r.back
\* p is a run of the same function, and as much on its way back.
Beside(p, r) == p.f = r.f /\ p.back = r.back

LEMMA RunningIs ==
  ASSUME WorkInv, JobInv, CodeInv, RunInv, Running, NEW r, NEW m, r = run, m = code[run.f]
  PROVE  (~r.back => RunNow(r, m)) /\ (r.back => BackNow(r, m))
<1>1. Done /\ run.f \in needed /\ (~r.back => RunFit(r, m)) /\ (r.back => BackFit(r, m))
  BY DEF RunInv
<1>2. run.f \in Functions /\ program \in Programs
  BY <1>1 DEF WorkInv
<1>3. Published(run.f)
  <2>1. 0 \notin Functions
    BY DEF Functions
  <2> QED BY <1>1, <1>2, <2>1 DEF Published, Done
<1>4. CodeFit(m, run.f)
  BY <1>2, <1>3 DEF CodeInv
<1> QED BY <1>1, <1>2, <1>4 DEF RunNow, BackNow

LEMMA RunTo ==
  ASSUME NEW r, NEW m, r = run, m = code[run.f], r.f \in needed, Done, NEW p, Run(p), p.f = r.f,
         ~p.back => RunFit(p, m), p.back => BackFit(p, m)
  PROVE  RunInv'
<1>1. run' = p /\ program' = program /\ facts' = facts /\ needed' = needed /\ dirty' = dirty /\ code' = code /\ job' = job
  BY DEF Run
<1>2. (~p.back => RunFit(p, m)') /\ (p.back => BackFit(p, m)')
  BY <1>1, RunStays
<1>3. code'[p.f] = m /\ p.f \in needed'
  BY <1>1
<1>4. Done'
  BY <1>1 DEF Done
<1> QED BY <1>1, <1>2, <1>3, <1>4 DEF RunInv

LEMMA RunGoes ==
  ASSUME NEW r, NEW m, RunNow(r, m), NEW p, Run(p), Beside(p, r), RunFit(p, m)
  PROVE  RunInv'
<1>1. r = run /\ m = code[run.f] /\ r.f \in needed /\ Done /\ ~r.back
  BY DEF RunNow
<1>2. p.f = r.f /\ ~p.back
  BY <1>1 DEF Beside
<1> QED BY <1>1, <1>2, RunTo

LEMMA ReachIs ==
  ASSUME NEW r, NEW m, RunNow(r, m), NEW k, NEW x, NEW p, p = Reach(r, k, x)
  PROVE  p = RunIs(r.f, k, x, r.back, r.input, IF r.at # 0 THEN HomeAt(r, m, k) ELSE r.home, r.result)
<1>1. r = RunIs(r.f, r.at, r.x, r.back, r.input, r.home, r.result) /\ Made = m
  BY DEF RunNow, RunFit, Made
<1>2. PICK f, at, z, back, input, home, result : r = RunIs(f, at, z, back, input, home, result)
  BY <1>1
<1>3. /\ r.f = f /\ r.at = at /\ r.x = z /\ r.back = back /\ r.input = input /\ r.home = home /\ r.result = result
  BY <1>2 DEF RunIs
<1>4. PICK h : h = IF r.at # 0 /\ k = m.loop.at THEN Values(m.loop.initial, r) ELSE home
  OBVIOUS
<1>5. p = [r EXCEPT !.at = k, !.x = x, !.home = h]
  BY <1>1, <1>3, <1>4 DEF Reach
<1>6. p = RunIs(f, k, x, back, input, h, result)
  BY <1>2, <1>5 DEF RunIs
<1>7. h = IF r.at # 0 THEN HomeAt(r, m, k) ELSE r.home
  BY <1>3, <1>4 DEF HomeAt
<1> QED BY <1>3, <1>6, <1>7

\* A function that was kept goes on in itself.
LEMMA KeptGoes ==
  ASSUME NEW r, NEW m, RunNow(r, m), r.at = 0, NEW x, Fit(x, Consts), x.pc[1] = r.x.pc[1], x.conts = r.x.conts,
         NEW result \in [1 .. Len(m.nodes) -> Num], NEW p, p = RunIs(r.f, 0, x, r.back, r.input, r.home, result)
  PROVE  RunFit(p, m) /\ Beside(p, r)
<1>1. /\ p.f = r.f /\ p.at = 0 /\ p.x = x /\ p.back = r.back /\ p.input = r.input /\ p.home = r.home /\ p.result = result
      /\ p = RunIs(p.f, p.at, p.x, p.back, p.input, p.home, p.result)
  BY RunIsParts
<1> QED BY <1>1 DEF RunFit, RunNow, Beside

\* What is known of a node that the run is at.
LEMMA NodeIs ==
  ASSUME NEW r, NEW m, RunNow(r, m), r.at # 0, NEW n, n = m.nodes[r.at]
  PROVE  /\ m.optimized /\ r.at \in 1 .. Len(m.nodes) /\ m.nodes \in Seq(Nodes) /\ n \in Nodes
         /\ GraphFit(m.nodes, m.loop, m.calls, m.astray, r.f, 0, <<>>, Len(m.nodes))
         /\ NodeFit(n, r.at, m.loop, r.f) /\ Doing(n, m.loop, m.calls, m.astray, r.f)
         /\ n.does \in Leading => n.next \in 1 .. Len(m.nodes)
         /\ n.does = "fork" => n.taken \in 1 .. Len(m.nodes)
         /\ ~m.astray => Follows(r, m) /\ Leads(m.nodes, m.loop, 0, r.at)
<1>1. m.optimized /\ r.at \in 0 .. Len(m.nodes)
  BY DEF RunNow, RunFit, CodeFit
<1>2. m.nodes \in Seq(Nodes) /\ GraphFit(m.nodes, m.loop, m.calls, m.astray, r.f, 0, <<>>, Len(m.nodes))
  BY <1>1 DEF RunNow, CodeFit
<1>3. PICK N \in Nat : N = Len(m.nodes)
  BY <1>2
<1>4. r.at \in 1 .. N /\ n \in Nodes
  BY <1>1, <1>2, <1>3
<1>5. NodeFit(n, r.at, m.loop, r.f) /\ Doing(n, m.loop, m.calls, m.astray, r.f) /\ Points(n, r.at, <<>>, N)
  BY <1>2, <1>3, <1>4 DEF GraphFit
<1>6. n.does = "fork" => n.taken # 0
  BY <1>5 DEF Points
<1>7. ASSUME ~m.astray PROVE Follows(r, m) /\ Leads(m.nodes, m.loop, 0, r.at)
  <2>1. Follows(r, m)
    BY <1>7 DEF RunNow, RunFit
  <2>2. Live(m.loop, r.at)
    BY <2>1 DEF Follows
  <2> QED BY <1>2, <1>3, <1>4, <1>7, <2>1, <2>2 DEF GraphFit
<1> QED BY <1>1, <1>2, <1>3, <1>4, <1>5, <1>6, <1>7 DEF Points

\* Where the code goes from a node is ahead of it.
LEMMA ChosenLies ==
  ASSUME NEW f, NEW m, CodeFit(m, f), m.optimized, NEW n \in 1 .. Len(m.nodes), m.nodes[n].does \in Leading, NEW r
  PROVE  Chosen(r, m, n) \in n + 1 .. Len(m.nodes)
<1>0. m.nodes \in Seq(Nodes) /\ GraphFit(m.nodes, m.loop, m.calls, m.astray, f, 0, <<>>, Len(m.nodes))
  BY DEF CodeFit
<1>1. PICK N, w : N \in Nat /\ N = Len(m.nodes) /\ w = m.nodes[n]
  <2>1. Len(m.nodes) \in Nat
    BY <1>0
  <2> QED BY <2>1
<1>2. Points(w, n, <<>>, N)
  BY <1>0, <1>1 DEF GraphFit
<1>3. w.next \in n + 1 .. N
  BY <1>1, <1>2 DEF Points
<1>4. w.does = "fork" => w.taken \in n + 1 .. N
  BY <1>2 DEF Points
<1> QED BY <1>1, <1>3, <1>4 DEF Chosen

\* It depends on arguments, on the calls made before it, and, from the loop on,
\* on homes.
LEMMA ChosenSame ==
  ASSUME program \in Programs, NEW f \in Functions, NEW m, CodeFit(m, f), m.optimized, NEW n \in 1 .. Len(m.nodes),
         NEW r, NEW q, q.input = r.input, \A i \in 1 .. n - 1 : q.result[i] = r.result[i],
         q.home = r.home \/ (m.loop.stable => n < m.loop.at)
  PROVE  Chosen(q, m, n) = Chosen(r, m, n)
<1>0. m.nodes \in Seq(Nodes) /\ GraphFit(m.nodes, m.loop, m.calls, m.astray, f, 0, <<>>, Len(m.nodes))
  BY DEF CodeFit
<1>1. PICK N, w, l, v : N \in Nat /\ N = Len(m.nodes) /\ w = m.nodes[n] /\ l = m.loop /\ v = Last(w.x.a)
  BY <1>0
<1>2. NodeFit(w, n, l, f) /\ Doing(w, l, m.calls, m.astray, f)
  BY <1>0, <1>1 DEF GraphFit
<1>3. ASSUME w.does = "fork" PROVE ValueOf(v, q) = ValueOf(v, r)
  <2>1. PICK hs : (hs = Homes(l) \/ hs = {}) /\ Fit(w.x, Operands(f, hs, n - 1)) /\ (q.home = r.home \/ hs = {})
    BY <1>1, <1>2 DEF NodeFit, Early
  <2>2. PICK S : S = Operands(f, hs, n - 1)
    OBVIOUS
  <2>3. At(w.x.pc).op = "branch"
    BY <1>2, <1>3 DEF Doing
  <2>4. v \in S
    <3>1. Fit(w.x, S)
      BY <2>1, <2>2
    <3>2. PICK pc : pc = After(w.x.pc)
      OBVIOUS
    <3>3. w.x.a # <<>>
      BY <2>3, <3>1, <3>2, BranchedFits
    <3>4. w.x.a \in Seq(S)
      BY <3>1, FitParts
    <3> QED BY <1>1, <3>3, <3>4, FrontIs
  <2>5. /\ v.base = "home"   => hs # {}
        /\ v.base = "result" => v.n \in 1 .. n - 1
    BY <2>2, <2>4 DEF Operands, Consts, Const
  <2> QED BY <2>1, <2>5 DEF ValueOf
<1> QED BY <1>1, <1>3 DEF Chosen

LEMMA HeadLooped == ASSUME NEW l, NEW b, b = TRUE, NEW h, h = Head_(l) PROVE h.looped = b
<1>1. h = [pc |-> Entry(l.target), a |-> <<>>, c |-> l.header, conts |-> l.conts, looped |-> b]
  BY DEF Head_
<1> QED BY <1>1

\* A step leads on from where the run was found.
LEMMA WayOn ==
  ASSUME NEW r, NEW m, RunNow(r, m), r.at # 0, ~m.astray, m.nodes[r.at].does \in Leading,
         NEW k, k = Chosen(r, m, r.at), NEW y, Linked(m.nodes, m.loop, 0, r.at, k, y), y.looped = m.nodes[r.at].x.looped,
         NEW p, p.at = k, p.input = r.input, p.home = HomeAt(r, m, k),
         \A i \in 1 .. Len(m.nodes) : i # r.at => p.result[i] = r.result[i]
  PROVE  Found(p, m)
<1>1. PICK f, l, s, N : f = r.f /\ l = m.loop /\ s = m.nodes /\ N = Len(s)
  OBVIOUS
<1>2. program \in Programs /\ f \in Functions /\ CodeFit(m, f) /\ m.optimized /\ N \in Nat /\ r.at \in 1 .. N
  <2>1. program \in Programs /\ f \in Functions /\ CodeFit(m, f)
    BY <1>1 DEF RunNow
  <2>2. m.optimized /\ r.at \in 1 .. N /\ s \in Seq(Nodes)
    BY <1>1, NodeIs
  <2> QED BY <1>1, <2>1, <2>2
<1>3. PICK W : Way(W, r, m)
  BY DEF RunNow, RunFit, Found
<1>4. k \in r.at + 1 .. N
  BY <1>1, <1>2, ChosenLies
<1>5. LoopFit(l, s, f, 0, N, FALSE) /\ NodeFit(s[r.at], r.at, l, f)
  BY <1>1, <1>2 DEF CodeFit, GraphFit
<1>6. l.at \in Nat /\ (~l.stable => l.at = 0)
  BY <1>5 DEF LoopFit, Loops
<1>7. k = l.at => l.stable /\ r.at = l.from /\ s[k].x.looped
  <2> SUFFICES ASSUME k = l.at PROVE l.stable /\ r.at = l.from /\ s[k].x.looped
    OBVIOUS
  <2>1. l.stable
    BY <1>2, <1>4, <1>6
  <2>2. s[k].x = Head_(l)
    <3>1. Where(s, 0, l.at) = Head_(l)
      BY <1>5, <2>1 DEF LoopFit
    <3>2. k <= Len(s)
      BY <1>1, <1>2, <1>4
    <3> QED BY <3>1, <3>2 DEF Where
  <2>3. s[k].x.looped = TRUE
    <3>1. PICK h, b : h = Head_(l) /\ b = TRUE
      OBVIOUS
    <3>2. h.looped = b
      BY ONLY <3>1, HeadLooped
    <3> QED BY <2>2, <3>1, <3>2
  <2>4. r.at = l.from
    BY <1>1, <2>1 DEF Linked
  <2> QED BY <2>1, <2>3, <2>4
<1>8. k # l.at => y = s[k].x /\ p.home = r.home
  BY <1>1, <1>2, <1>4 DEF Linked, Where, HomeAt
<1>9. \A n \in 1 .. N : n <= r.at /\ (k # l.at \/ n < l.at) => Chosen(p, m, n) = Chosen(r, m, n)
  <2> TAKE n \in 1 .. N
  <2> HAVE n <= r.at /\ (k # l.at \/ n < l.at)
  <2>1. \A i \in 1 .. n - 1 : p.result[i] = r.result[i]
    BY <1>1, <1>2
  <2>2. p.home = r.home \/ (l.stable => n < l.at)
    BY <1>8
  <2> QED BY <1>1, <1>2, <2>1, <2>2, ChosenSame
<1>10. CASE ~s[r.at].x.looped
  <2>1. PICK V : V = W \cup {r.at}
    OBVIOUS
  <2>2. Mark(r, m) = r.at
    BY <1>1, <1>10 DEF Mark
  <2>3. Mark(p, m) = k
    <3>1. CASE k = l.at
      BY <1>1, <3>1 DEF Mark
    <3>2. CASE k # l.at
      <4>1. ~s[k].x.looped
        BY <1>1, <1>8, <1>10, <3>2
      <4> QED BY <1>1, <4>1 DEF Mark
    <3> QED BY <3>1, <3>2
  <2>4. 1 \in V
    BY <1>3, <2>1, <2>2 DEF Way
  <2>5. ASSUME NEW n \in V
        PROVE  n \in 1 .. N /\ s[n].does \in Leading /\ n < k /\ Chosen(p, m, n) \in V \cup {k}
    <3>1. n \in 1 .. N /\ n <= r.at /\ s[n].does \in Leading /\ Chosen(r, m, n) \in V \cup {k}
      <4>1. CASE n = r.at
        BY <1>1, <1>2, <4>1
      <4>2. CASE n \in W
        <5>1. n \in 1 .. N /\ s[n].does \in Leading /\ n < r.at /\ Chosen(r, m, n) \in W \cup {r.at}
          BY <1>1, <1>3, <2>2, <4>2 DEF Way
        <5> QED BY <1>2, <2>1, <5>1
      <4> QED BY <2>1, <4>1, <4>2
    <3>2. n < k
      BY <1>2, <1>4, <3>1
    <3>3. Chosen(p, m, n) = Chosen(r, m, n)
      BY <1>9, <3>1, <3>2
    <3> QED BY <3>1, <3>2, <3>3
  <2>6. Way(V, p, m)
    BY <1>1, <2>3, <2>4, <2>5 DEF Way
  <2> QED BY <2>6 DEF Found
<1>11. CASE s[r.at].x.looped
  <2>1. l.stable /\ l.at <= r.at
    BY <1>2, <1>5, <1>6, <1>11 DEF NodeFit, Early
  <2>2. k # l.at
    BY <1>2, <1>4, <1>6, <2>1
  <2>3. Mark(r, m) = l.at
    BY <1>1, <1>11 DEF Mark
  <2>4. s[k].x.looped
    BY <1>1, <1>8, <1>11, <2>2
  <2>5. Mark(p, m) = l.at
    BY <1>1, <2>4 DEF Mark
  <2>6. ASSUME NEW n \in W
        PROVE  n \in 1 .. N /\ s[n].does \in Leading /\ n < l.at /\ Chosen(p, m, n) \in W \cup {l.at}
    <3>1. n \in 1 .. N /\ s[n].does \in Leading /\ n < l.at /\ Chosen(r, m, n) \in W \cup {l.at}
      BY <1>1, <1>3, <2>3 DEF Way
    <3>2. n <= r.at
      BY <1>2, <1>6, <2>1, <3>1
    <3>3. Chosen(p, m, n) = Chosen(r, m, n)
      BY <1>9, <2>2, <3>1, <3>2
    <3> QED BY <3>1, <3>3
  <2>7. 1 \in W \cup {l.at}
    BY <1>3, <2>3 DEF Way
  <2>8. Way(W, p, m)
    BY <1>1, <2>5, <2>6, <2>7 DEF Way
  <2> QED BY <2>8 DEF Found
<1> QED BY <1>10, <1>11

\* The run goes from a node to the next one, where the program is in x.
Goes(r, m, k, y, x) ==
  /\ m.nodes[r.at].does \in Leading /\ k = Chosen(r, m, r.at)
  /\ ~m.astray => Linked(m.nodes, m.loop, 0, r.at, k, y)
  /\ \A S : Pair(S, m.nodes[r.at].x, r.x, r) => /\ AgreesWith(y, x, r) /\ Fit(y, S)
                                                /\ y.looped = m.nodes[r.at].x.looped

LEMMA NodeGoes ==
  ASSUME NEW r, NEW m, RunNow(r, m), r.at # 0, NEW k \in 1 .. Len(m.nodes), NEW x, Fit(x, Consts), NEW y,
         Goes(r, m, k, y, x), NEW p, p = Reach(r, k, x)
  PROVE  RunFit(p, m) /\ Beside(p, r)
<1>1. p = RunIs(r.f, k, x, r.back, r.input, HomeAt(r, m, k), r.result)
  BY ReachIs
<1>2. program \in Programs /\ r.f \in Functions /\ CodeFit(m, r.f) /\ RunFit(r, m)
  BY DEF RunNow
<1>3. r = RunIs(r.f, r.at, r.x, r.back, r.input, r.home, r.result) /\ r.result \in [1 .. Len(m.nodes) -> Num]
  BY <1>2 DEF RunFit
<1>4. ASSUME ~m.astray PROVE Arrives(r, m, k, y, x, r.result)
  <2>1. PICK S : Legible(S, r.f, m, r) /\ Pair(S, m.nodes[r.at].x, r.x, r)
    BY <1>2, <1>4, FollowsPair
  <2>2. AgreesWith(y, x, r) /\ y \in Contexts(S)
    BY <2>1 DEF Goes, Fit
  <2>3. Linked(m.nodes, m.loop, 0, r.at, k, y)
    BY <1>4 DEF Goes
  <2> QED BY <1>3, <2>1, <2>2, <2>3 DEF Arrives
<1>5. /\ p.f = r.f /\ p.back = r.back /\ p.at = k /\ p.input = r.input /\ p.home = HomeAt(r, m, k)
      /\ p.result = r.result
  BY <1>1, RunIsParts
<1>6. ASSUME ~m.astray PROVE Found(p, m)
  <2>1. PICK S : Pair(S, m.nodes[r.at].x, r.x, r)
    BY <1>2, <1>6, FollowsPair
  <2>2. y.looped = m.nodes[r.at].x.looped
    BY <2>1 DEF Goes
  <2>3. Linked(m.nodes, m.loop, 0, r.at, k, y) /\ m.nodes[r.at].does \in Leading /\ k = Chosen(r, m, r.at)
    BY <1>6 DEF Goes
  <2> QED BY <1>5, <1>6, <2>2, <2>3, WayOn
<1>7. RunFit(p, m)
  BY <1>1, <1>2, <1>3, <1>4, <1>6, Reaches
<1> QED BY <1>5, <1>7 DEF Beside

\* What a node's being there says of the program.
LEMMA OnIs ==
  ASSUME NEW r, NEW m, RunNow(r, m), Running, NEW does, On(does)
  PROVE  /\ r.at = 0 => "kept" \in does
         /\ r.at # 0 => /\ m.nodes[r.at].does \in does /\ m.nodes[r.at].x.pc = r.x.pc /\ m.nodes[r.at].x.conts = r.x.conts
                        /\ Values(m.nodes[r.at].x.a, r) = Plain(r.x.a) /\ Values(m.nodes[r.at].x.c, r) = Plain(r.x.c)
                        /\ (m.nodes[r.at].does \in {"tail", "return"} => r.x.conts = <<>>)
         /\ Here = At(r.x.pc) /\ Fit(r.x, Consts) /\ program \in Programs
BY DEF RunNow, RunFit, On, Agrees, Standing, Node, Made, Here

LEMMA RunStraightKeeps ==
  ASSUME WorkInv, JobInv, CodeInv, RunInv, RunStraight
  PROVE  RunInv'
<1>1. PICK r, m : r = run /\ m = code[run.f]
  OBVIOUS
<1>2. RunNow(r, m) /\ Running
  <2>1. Running /\ ~run.back
    BY DEF RunStraight, On
  <2> QED BY <1>1, <2>1, RunningIs
<1>3. PICK n, x : n = m.nodes[r.at] /\ x = Straight(r.x)
  OBVIOUS
<1>4. /\ r.at # 0 => n.does = "step" /\ n.x.pc = r.x.pc
      /\ At(r.x.pc).op \in {"push", "get", "inc", "drop"} /\ Fit(r.x, Consts) /\ program \in Programs
  <2>1. On({"step", "kept"}) /\ Here.op \in {"push", "get", "inc", "drop"}
    BY DEF RunStraight
  <2>3. PICK D : D = {"step", "kept"}
    OBVIOUS
  <2>4. On(D)
    BY <2>1, <2>3
  <2>5. /\ r.at # 0 => n.does \in D /\ n.x.pc = r.x.pc
        /\ Here = At(r.x.pc) /\ Fit(r.x, Consts) /\ program \in Programs
    BY <1>2, <1>3, <2>4, OnIs
  <2>6. r.at # 0 => n.does = "step"
    <3>1. r.at # 0 => n.does # "kept"
      <4>1. r.at # 0 => n \in Nodes
        BY <1>2, <1>3, NodeIs
      <4>2. n \in Nodes => n.does # "kept"
        BY DEF Nodes, Kinds
      <4> QED BY ONLY <4>1, <4>2
    <3> QED BY <2>3, <2>5, <3>1
  <2> QED BY <2>1, <2>5, <2>6
<1>5. PICK p : p = Reach(r, Onward(r), x) /\ Run(p)
  BY <1>1, <1>3 DEF RunStraight
<1>6. Fit(x, Consts) /\ x.pc = After(r.x.pc) /\ x.conts = r.x.conts
  BY <1>3, <1>4, ConstsAreCells, StraightFits
<1>7. CASE r.at = 0
  <2>1. p = RunIs(r.f, 0, x, r.back, r.input, r.home, r.result)
    BY <1>2, <1>5, <1>7, ReachIs DEF Onward
  <2>2. x.pc[1] = r.x.pc[1]
    BY <1>6 DEF After
  <2>3. r.result \in [1 .. Len(m.nodes) -> Num]
    BY <1>2 DEF RunNow, RunFit
  <2>4. RunFit(p, m) /\ Beside(p, r)
    BY <1>2, <1>6, <1>7, <2>1, <2>2, <2>3, KeptGoes
  <2> QED BY <1>2, <1>5, <2>4, RunGoes
<1>8. CASE r.at # 0
  <2>1. n.does = "step" /\ n.next \in 1 .. Len(m.nodes) /\ (~m.astray => Leads(m.nodes, m.loop, 0, r.at))
    BY <1>2, <1>3, <1>4, <1>8, NodeIs DEF Leading
  <2>2. Onward(r) = n.next
    BY <1>1, <1>3, <1>8 DEF Onward, Node, Made
  <2>3. PICK y : y = Straight(n.x)
    OBVIOUS
  <2>4. ~m.astray => Linked(m.nodes, m.loop, 0, r.at, n.next, y)
    <3>1. Out(n, r.at) = y
      BY <1>4, <1>8, <2>1, <2>3 DEF Out
    <3> QED BY <1>3, <2>1, <3>1 DEF Leads, Leading
  <2>5. ASSUME NEW S, Pair(S, n.x, r.x, r) PROVE AgreesWith(y, x, r) /\ Fit(y, S) /\ y.looped = n.x.looped
    BY <1>3, <1>4, <1>8, <2>3, <2>5, StraightAgrees, StraightFits, PairParts
  <2>6. RunFit(p, m) /\ Beside(p, r)
    <3>1. Goes(r, m, n.next, y, x)
      <4>1. n.next = Chosen(r, m, r.at) /\ n.does \in Leading
        BY <1>3, <2>1 DEF Chosen, Leading
      <4> QED BY <1>3, <2>4, <2>5, <4>1 DEF Goes
    <3> QED BY <1>2, <1>5, <1>6, <1>8, <2>1, <2>2, <3>1, NodeGoes
  <2> QED BY <1>2, <1>5, <2>6, RunGoes
<1> QED BY <1>7, <1>8

LEMMA RunBranchKeeps ==
  ASSUME WorkInv, JobInv, CodeInv, RunInv, RunBranch
  PROVE  RunInv'
<1>1. PICK r, m : r = run /\ m = code[run.f]
  OBVIOUS
<1>2. RunNow(r, m) /\ Running
  <2>1. Running /\ ~run.back
    BY DEF RunBranch, On
  <2> QED BY <1>1, <2>1, RunningIs
<1>3. PICK n, z, x : /\ n = m.nodes[r.at] /\ z = (IF Last(r.x.a).n # 0 THEN Taken(r.x) ELSE After(r.x.pc))
                     /\ x = Branched(r.x, z)
  OBVIOUS
<1>4. /\ r.at # 0 => n.does \in {"step", "fork"} /\ n.x.pc = r.x.pc
      /\ At(r.x.pc).op = "branch" /\ Fit(r.x, Consts) /\ program \in Programs
  <2>1. On({"step", "fork", "kept"}) /\ Here.op = "branch"
    BY DEF RunBranch
  <2>2. PICK D : D = {"step", "fork", "kept"}
    OBVIOUS
  <2>3. On(D)
    BY <2>1, <2>2
  <2>4. /\ r.at # 0 => n.does \in D /\ n.x.pc = r.x.pc
        /\ Here = At(r.x.pc) /\ Fit(r.x, Consts) /\ program \in Programs
    BY <1>2, <1>3, <2>3, OnIs
  <2>5. r.at # 0 => n.does # "kept"
    <3>1. r.at # 0 => n \in Nodes
      BY <1>2, <1>3, NodeIs
    <3>2. n \in Nodes => n.does # "kept"
      BY DEF Nodes, Kinds
    <3> QED BY ONLY <3>1, <3>2
  <2> QED BY <2>1, <2>2, <2>4, <2>5
<1>5. PICK k, p : /\ p = Reach(r, k, x) /\ Run(p)
                  /\ k = IF On({"fork"}) /\ ValueOf(Last(Node.x.a), run) # 0 THEN Node.taken ELSE Onward(run)
  BY <1>1, <1>3 DEF RunBranch
<1>6. Fit(x, Consts) /\ x.pc = z /\ z[1] = r.x.pc[1] /\ x.conts = r.x.conts /\ (z = After(r.x.pc) \/ z = Taken(r.x))
  BY <1>3, <1>4, BranchedFits
<1>7. CASE r.at = 0
  <2>1. k = 0
    BY <1>1, <1>5, <1>7 DEF On, Onward
  <2>2. p = RunIs(r.f, 0, x, r.back, r.input, r.home, r.result)
    BY <1>2, <1>5, <1>7, <2>1, ReachIs
  <2>3. r.result \in [1 .. Len(m.nodes) -> Num]
    BY <1>2 DEF RunNow, RunFit
  <2>4. RunFit(p, m) /\ Beside(p, r)
    BY <1>2, <1>6, <1>7, <2>2, <2>3, KeptGoes
  <2> QED BY <1>2, <1>5, <2>4, RunGoes
<1>8. CASE r.at # 0
  <2>1. Node = n /\ Onward(r) = n.next /\ (On({"fork"}) <=> On({"step", "fork", "kept"}) /\ n.does = "fork")
    BY <1>1, <1>3, <1>4, <1>8 DEF Onward, Node, Made, On
  <2>2. /\ n.next \in 1 .. Len(m.nodes) /\ (n.does = "fork" => n.taken \in 1 .. Len(m.nodes))
        /\ (~m.astray => Leads(m.nodes, m.loop, 0, r.at)) /\ Doing(n, m.loop, m.calls, m.astray, r.f)
        /\ m.nodes \in Seq(Nodes)
    BY <1>2, <1>3, <1>4, <1>8, NodeIs DEF Leading
  <2>3. On({"step", "fork", "kept"})
    BY DEF RunBranch
  <2>4. CASE n.does = "step"
    <3>1. k = n.next /\ IsConst(Last(n.x.a))
      BY <1>1, <1>4, <1>5, <1>8, <2>1, <2>2, <2>4 DEF Doing
    <3>2. PICK u, y : u = (IF Last(n.x.a).n # 0 THEN Taken(n.x) ELSE After(n.x.pc)) /\ y = Branched(n.x, u)
      OBVIOUS
    <3>3. ~m.astray => Linked(m.nodes, m.loop, 0, r.at, k, y)
      <4>1. Out(n, r.at) = y
        BY <1>4, <1>8, <2>4, <3>2 DEF Out
      <4> QED BY <1>3, <2>2, <2>4, <3>1, <4>1 DEF Leads, Leading
    <3>4. ASSUME NEW S, Pair(S, n.x, r.x, r) PROVE AgreesWith(y, x, r) /\ Fit(y, S) /\ y.looped = n.x.looped
      <4>1. Fit(n.x, S) /\ Taken(n.x) = Taken(r.x) /\ At(n.x.pc).op = "branch" /\ (u = After(n.x.pc) \/ u = Taken(n.x))
        BY <1>4, <1>8, <3>2, <3>4, PairParts
      <4>2. Last(n.x.a).n = Last(r.x.a).n
        BY <1>4, <3>1, <3>4, <4>1, BranchedAgrees
      <4>3. u = z
        <5>1. n.x.pc = r.x.pc
          BY <1>4, <1>8
        <5> QED BY ONLY <1>3, <3>2, <4>1, <4>2, <5>1
      <4>4. AgreesWith(y, x, r)
        <5>1. AgreesWith(Branched(n.x, u), Branched(r.x, u), r)
          BY <1>4, <3>4, <4>1, BranchedAgrees
        <5> QED BY <1>3, <3>2, <4>3, <5>1
      <4>5. Fit(y, S) /\ y.looped = n.x.looped
        BY <1>4, <3>2, <4>1, BranchedFits
      <4> QED BY <4>4, <4>5
    <3>5. RunFit(p, m) /\ Beside(p, r)
      <4>1. Goes(r, m, k, y, x)
        <5>1. k = Chosen(r, m, r.at) /\ n.does \in Leading
          BY <1>3, <2>4, <3>1 DEF Chosen, Leading
        <5> QED BY <1>3, <3>3, <3>4, <5>1 DEF Goes
      <4> QED BY <1>2, <1>5, <1>6, <1>8, <2>2, <3>1, <4>1, NodeGoes
    <3> QED BY <1>2, <1>5, <3>5, RunGoes
  <2>5. CASE n.does = "fork"
    <3>1. PICK taken : taken <=> ValueOf(Last(n.x.a), r) # 0
      OBVIOUS
    <3>2. k = IF taken THEN n.taken ELSE n.next
      BY <1>1, <1>5, <2>1, <2>3, <2>5, <3>1
    <3>3. PICK u, y : u = (IF taken THEN Taken(n.x) ELSE After(n.x.pc)) /\ y = Branched(n.x, u)
      OBVIOUS
    <3>4. ~m.astray => Linked(m.nodes, m.loop, 0, r.at, k, y)
      <4>1. ASSUME ~m.astray PROVE Linked(m.nodes, m.loop, 0, r.at, k, y)
        <5>1. Out(n, r.at) = Branched(n.x, After(n.x.pc)) /\ Other(n.x) = Branched(n.x, Taken(n.x))
          BY <2>5 DEF Out, Other
        <5>2. Linked(m.nodes, m.loop, 0, r.at, n.next, Out(n, r.at))
          BY <1>3, <2>2, <2>5, <4>1 DEF Leads, Leading
        <5>3. Linked(m.nodes, m.loop, 0, r.at, n.taken, Other(n.x))
          <6>1. n.taken # 0
            BY <2>2, <2>5
          <6> QED BY <1>3, <2>2, <2>5, <4>1, <6>1 DEF Leads
        <5> QED BY <3>2, <3>3, <5>1, <5>2, <5>3
      <4> QED BY <4>1
    <3>5. ASSUME NEW S, Pair(S, n.x, r.x, r) PROVE AgreesWith(y, x, r) /\ Fit(y, S) /\ y.looped = n.x.looped
      <4>1. Fit(n.x, S) /\ Taken(n.x) = Taken(r.x) /\ At(n.x.pc).op = "branch" /\ (u = After(n.x.pc) \/ u = Taken(n.x))
        BY <1>4, <1>8, <3>3, <3>5, PairParts
      <4>2. ValueOf(Last(n.x.a), r) = Last(r.x.a).n
        BY <1>4, <3>5, <4>1, BranchedAgrees
      <4>3. u = z
        BY <1>3, <1>4, <1>8, <3>1, <3>3, <4>1, <4>2
      <4>4. AgreesWith(y, x, r)
        BY <1>3, <1>4, <3>3, <3>5, <4>1, <4>3, BranchedAgrees
      <4>5. Fit(y, S) /\ y.looped = n.x.looped
        BY <1>4, <3>3, <4>1, BranchedFits
      <4> QED BY <4>4, <4>5
    <3>6. k \in 1 .. Len(m.nodes)
      BY <2>2, <2>5, <3>2
    <3>7. RunFit(p, m) /\ Beside(p, r)
      <4>1. Goes(r, m, k, y, x)
        <5>1. k = Chosen(r, m, r.at) /\ n.does \in Leading
          BY <1>3, <2>5, <3>1, <3>2 DEF Chosen, Leading
        <5> QED BY <1>3, <3>4, <3>5, <5>1 DEF Goes
      <4> QED BY <1>2, <1>5, <1>6, <1>8, <3>6, <4>1, NodeGoes
    <3> QED BY <1>2, <1>5, <3>7, RunGoes
  <2> QED BY <1>4, <1>8, <2>4, <2>5
<1> QED BY <1>7, <1>8

LEMMA RunInlinedKeeps ==
  ASSUME WorkInv, JobInv, CodeInv, RunInv, RunInlined
  PROVE  RunInv'
<1>1. PICK r, m : r = run /\ m = code[run.f]
  OBVIOUS
<1>2. RunNow(r, m) /\ Running
  <2>1. Running /\ ~run.back
    BY DEF RunInlined, On
  <2> QED BY <1>1, <2>1, RunningIs
<1>3. PICK n, g : n = m.nodes[r.at] /\ g = At(r.x.pc).arg
  OBVIOUS
<1>4. /\ r.at # 0 /\ n.does = "step" /\ n.x.pc = r.x.pc /\ n.x.conts = r.x.conts
      /\ At(r.x.pc).op \in {"call", "tail", "ret"} /\ Fit(r.x, Consts) /\ program \in Programs
  BY <1>2, <1>3, OnIs DEF RunInlined
<1>5. PICK x : x = CASE At(r.x.pc).op = "call" -> Called(r.x, g)
                     [] At(r.x.pc).op = "tail" -> Tailed(r.x, g)
                     [] At(r.x.pc).op = "ret"  -> Returned(r.x)
  OBVIOUS
<1>6. PICK p : p = Reach(r, n.next, x) /\ Run(p)
  BY <1>1, <1>3, <1>5 DEF RunInlined, Here, Node, Made
<1>7. /\ n.next \in 1 .. Len(m.nodes) /\ (~m.astray => Leads(m.nodes, m.loop, 0, r.at))
      /\ Doing(n, m.loop, m.calls, m.astray, r.f)
  BY <1>2, <1>3, <1>4, NodeIs DEF Leading
<1>8. At(r.x.pc).op = "ret" => r.x.conts # <<>>
  <2>1. Doing(n, m.loop, m.calls, m.astray, r.f) /\ n.does = "step" /\ n.x.pc = r.x.pc /\ n.x.conts = r.x.conts
    BY <1>4, <1>7
  <2> QED BY ONLY <2>1 DEF Doing
<1>9. Fit(x, Consts)
  BY <1>3, <1>4, <1>5, <1>8, CalledFits, TailedFits, ReturnedFits
<1>10. PICK y : y = Out(n, r.at)
  OBVIOUS
<1>11. ~m.astray => Linked(m.nodes, m.loop, 0, r.at, n.next, y)
  BY <1>3, <1>4, <1>7, <1>10 DEF Leads, Leading
<1>12. /\ At(r.x.pc).op = "call" => y = Called(n.x, g)
       /\ At(r.x.pc).op = "tail" => y = Tailed(n.x, g)
       /\ At(r.x.pc).op = "ret" => y = Returned(n.x)
  BY <1>3, <1>4, <1>10 DEF Out
<1>13. ASSUME NEW S, Pair(S, n.x, r.x, r) PROVE AgreesWith(y, x, r) /\ Fit(y, S) /\ y.looped = n.x.looped
  <2>1. Fit(n.x, S)
    BY <1>4, <1>13, PairParts
  <2>2. Fit(y, S) /\ y.looped = n.x.looped
    <3>1. n.x.conts = r.x.conts /\ At(n.x.pc) = At(r.x.pc)
      BY <1>4
    <3>2. CASE At(r.x.pc).op = "call"
      <4>1. PICK z, h : z = n.x /\ h = At(z.pc).arg /\ y = Called(z, h) /\ At(z.pc).op = "call" /\ Fit(z, S)
        BY <1>3, <1>12, <2>1, <3>1, <3>2
      <4>2. Fit(y, S) /\ y.looped = z.looped
        BY <1>4, <4>1, CalledFits
      <4> QED BY <4>1, <4>2
    <3>3. CASE At(r.x.pc).op = "tail"
      <4>1. PICK z, h : z = n.x /\ h = At(z.pc).arg /\ y = Tailed(z, h) /\ At(z.pc).op = "tail" /\ Fit(z, S)
        BY <1>3, <1>12, <2>1, <3>1, <3>3
      <4>2. Fit(y, S) /\ y.looped = z.looped
        BY <1>4, <4>1, TailedFits
      <4> QED BY <4>1, <4>2
    <3>4. CASE At(r.x.pc).op = "ret"
      <4>1. PICK z : z = n.x /\ y = Returned(z) /\ At(z.pc).op = "ret" /\ z.conts # <<>> /\ Fit(z, S)
        BY <1>3, <1>4, <1>8, <1>12, <2>1, <3>1, <3>4
      <4>2. Fit(y, S) /\ y.looped = z.looped
        BY <1>4, <4>1, ReturnedFits
      <4> QED BY <4>1, <4>2
    <3> QED BY <1>4, <3>2, <3>3, <3>4
  <2>3. CASE At(r.x.pc).op = "call"
    BY <1>3, <1>4, <1>5, <1>12, <1>13, <2>2, <2>3, CalledAgrees
  <2>4. CASE At(r.x.pc).op = "tail"
    BY <1>3, <1>4, <1>5, <1>12, <1>13, <2>2, <2>4, TailedAgrees
  <2>5. CASE At(r.x.pc).op = "ret"
    BY <1>3, <1>4, <1>5, <1>8, <1>12, <1>13, <2>2, <2>5, ReturnedAgrees
  <2> QED BY <1>4, <2>3, <2>4, <2>5
<1>14. RunFit(p, m) /\ Beside(p, r)
  <2>1. Goes(r, m, n.next, y, x)
    <3>1. n.next = Chosen(r, m, r.at) /\ n.does \in Leading
      BY <1>3, <1>4 DEF Chosen, Leading
    <3> QED BY <1>3, <1>11, <1>13, <3>1 DEF Goes
  <2> QED BY <1>2, <1>4, <1>6, <1>7, <1>9, <2>1, NodeGoes
<1> QED BY <1>2, <1>6, <1>14, RunGoes

\* The result of a call that stayed is the same to both.
LEMMA AnswerArrives ==
  ASSUME NEW r, NEW m, RunNow(r, m), r.at # 0, ~m.astray, NEW n, n = m.nodes[r.at], n.does = "call",
         NEW v \in Num, NEW result, result = [i \in 1 .. Len(m.nodes) |-> IF i = r.at THEN v ELSE r.result[i]],
         NEW y, y = Out(n, r.at), NEW x, x = Answered(r.x, At(r.x.pc).arg, Const(v))
  PROVE  Arrives(r, m, n.next, y, x, result) /\ result \in [1 .. Len(m.nodes) -> Num] /\ y.looped = n.x.looped
<1>1. /\ program \in Programs /\ r.f \in Functions /\ CodeFit(m, r.f) /\ RunFit(r, m) /\ m.optimized
      /\ r.at \in 1 .. Len(m.nodes) /\ m.nodes \in Seq(Nodes) /\ Leads(m.nodes, m.loop, 0, r.at)
      /\ NodeFit(n, r.at, m.loop, r.f) /\ At(n.x.pc).op = "call"
  BY NodeIs DEF RunNow, Doing
<1>2. r.result \in [1 .. Len(m.nodes) -> Num] /\ r.input \in [1 .. Arity(r.f) -> Num] /\ LoopFit(m.loop, m.nodes, r.f, 0, Len(m.nodes), m.astray)
  BY <1>1 DEF RunFit, CodeFit, GraphFit
<1>3. result \in [1 .. Len(m.nodes) -> Num] /\ result[r.at] = v
  BY <1>1, <1>2
<1>4. PICK q : q = RunIs(r.f, r.at, r.x, r.back, r.input, r.home, result)
  OBVIOUS
<1>5. q.input = r.input /\ q.home = r.home /\ q.result = result
  BY <1>4 DEF RunIs
<1>6. PICK S : Legible(S, r.f, m, r) /\ Pair(S, n.x, r.x, r)
  BY <1>1, FollowsPair
<1>7. PICK f, l, N : f = r.f /\ l = m.loop /\ N = Len(m.nodes)
  OBVIOUS
<1>8. PICK hs : S = Operands(f, hs, N) /\ hs \in SUBSET Nat /\ (hs = {} \/ hs = Homes(l))
  <2>1. Homes(l) \in SUBSET Nat
    BY <1>2, <1>7, HomesTyped DEF LoopFit
  <2> QED BY <1>6, <1>7, <2>1 DEF Legible
<1>9. PICK i \in Nat : i = r.at - 1 /\ i < r.at /\ i <= N
  BY <1>1, <1>7
<1>10. PICK U : U = Operands(f, hs, i)
  OBVIOUS
<1>11. n.x \in Contexts(S) /\ n.x \in Contexts(Operands(f, Homes(l), i))
  BY <1>1, <1>6, <1>7, <1>9 DEF Pair, Fit, NodeFit
<1>12. n.x \in Contexts(U)
  <2>1. \A w : w \in S /\ w \in Operands(f, Homes(l), i) => w \in U
    BY <1>8, <1>10 DEF Operands, Consts, Const
  <2>2. \A s : s \in Seq(S) /\ s \in Seq(Operands(f, Homes(l), i)) => s \in Seq(U)
    <3> TAKE s
    <3> HAVE s \in Seq(S) /\ s \in Seq(Operands(f, Homes(l), i))
    <3>1. \A d \in 1 .. Len(s) : s[d] \in U
      BY <2>1
    <3>2. Len(s) \in Nat /\ s = [d \in 1 .. Len(s) |-> s[d]]
      OBVIOUS
    <3>3. s \in [1 .. Len(s) -> U]
      BY <3>1, <3>2
    <3>4. PICK d \in Nat : d = Len(s)
      BY <3>2
    <3>5. s \in [1 .. d -> U]
      BY <3>3, <3>4
    <3> QED BY <3>5, FunctionIsSeq
  <2> QED BY <1>11, <2>2 DEF Contexts
<1>13. \A w \in U : ValueOf(w, q) = ValueOf(w, r)
  <2>1. \A w \in U : w.base = "result" => w.n \in 1 .. N /\ w.n # r.at
    <3>1. \A w \in U : w.base = "result" => w.n \in 1 .. i
      BY <1>10 DEF Operands, Consts, Const
    <3>2. N \in Nat /\ r.at \in Nat
      BY <1>1, <1>7
    <3> QED BY <1>9, <3>1, <3>2
  <2>2. \A d \in 1 .. N : d # r.at => result[d] = r.result[d]
    BY <1>7
  <2> QED BY <1>5, <2>1, <2>2 DEF ValueOf
<1>14. AgreesWith(n.x, r.x, q)
  <2>1. AgreesWith(n.x, r.x, r)
    BY <1>6 DEF Pair
  <2> QED BY <1>1, <1>12, <1>13, <2>1, AgreesStill
<1>15. Legible(S, f, m, q) /\ q.result \in [1 .. Len(m.nodes) -> Num] /\ q.input \in [1 .. Arity(f) -> Num]
  BY <1>2, <1>3, <1>5, <1>6, <1>7 DEF Legible
<1>16. Pair(S, n.x, r.x, q)
  <2>1. Cells(S) /\ Readable(S, q)
    BY <1>1, <1>7, <1>15, LegibleIs
  <2> QED BY <1>6, <1>14, <2>1 DEF Pair
<1>17. PICK a, b : a = Result(r.at) /\ b = Const(v)
  OBVIOUS
<1>18. a \in S /\ b \in Consts
  BY <1>1, <1>7, <1>8, <1>17 DEF Operands, Consts, Result
<1>19. ValueOf(a, q) = b.n
  <2>1. ValueOf(a, q) = (result[r.at] + 0) % Width
    BY <1>5, <1>17 DEF Result, ValueOf
  <2>2. Width \in Nat \ {0} /\ \A w \in Nat \ {0} : \A d \in 0 .. w - 1 : (d + 0) % w = d
    BY WidthAssumption
  <2>3. v \in 0 .. Width - 1 /\ b.n = v
    BY <1>17 DEF Num, Const
  <2> QED BY <1>3, <2>1, <2>2, <2>3
<1>20. n.x.pc = r.x.pc /\ Fit(n.x, S)
  BY <1>6 DEF Pair, AgreesWith
<1>21. y = Answered(n.x, At(r.x.pc).arg, a)
  BY <1>17, <1>20 DEF Out
<1>22. AgreesWith(y, x, q)
  BY <1>1, <1>16, <1>17, <1>18, <1>19, <1>21, AnsweredAgrees
<1>23. y \in Contexts(S) /\ y.looped = n.x.looped
  <2>1. Fit(Answered(n.x, At(n.x.pc).arg, a), S) /\ Answered(n.x, At(n.x.pc).arg, a).looped = n.x.looped
    BY <1>1, <1>18, <1>20, AnsweredFits
  <2> QED BY <1>20, <1>21, <2>1 DEF Fit
<1>24. Linked(m.nodes, m.loop, 0, r.at, n.next, y)
  BY <1>1 DEF Leads, Leading
<1> QED BY <1>3, <1>4, <1>6, <1>22, <1>23, <1>24 DEF Arrives

LEMMA RunCallKeeps ==
  ASSUME WorkInv, JobInv, CodeInv, RunInv, RunCall
  PROVE  RunInv'
<1>1. PICK r, m, D : r = run /\ m = code[run.f] /\ D = {"call", "kept"}
  OBVIOUS
<1>2. RunNow(r, m) /\ Running
  <2>1. Running /\ ~run.back
    BY DEF RunCall, On
  <2> QED BY <1>1, <2>1, RunningIs
<1>3. PICK n : n = m.nodes[r.at]
  OBVIOUS
<1>4. PICK v \in Num : Run([Reach(run, Onward(run), Answered(run.x, Here.arg, Const(v))) EXCEPT
                              !.result = [i \in DOMAIN @ |-> IF i = run.at THEN v ELSE @[i]]])
  BY DEF RunCall, Num
<1>5. /\ r.at # 0 => n.does = "call" /\ n.x.pc = r.x.pc
      /\ Here = At(r.x.pc) /\ At(r.x.pc).op = "call" /\ Fit(r.x, Consts) /\ program \in Programs
  <2>1. On(D) /\ Here.op = "call"
    BY <1>1 DEF RunCall
  <2>2. /\ r.at # 0 => n.does \in D /\ n.x.pc = r.x.pc
        /\ Here = At(r.x.pc) /\ Fit(r.x, Consts) /\ program \in Programs
    BY <1>2, <1>3, <2>1, OnIs
  <2>3. r.at # 0 => n.does # "kept"
    BY <1>2, <1>3, NodeIs DEF Nodes, Kinds
  <2> QED BY <1>1, <2>1, <2>2, <2>3
<1>6. PICK x, k, q, result : /\ x = Answered(r.x, At(r.x.pc).arg, Const(v)) /\ k = Onward(r) /\ q = Reach(r, k, x)
                             /\ result = [i \in 1 .. Len(m.nodes) |-> IF i = r.at THEN v ELSE r.result[i]]
  OBVIOUS
<1>7. r.result \in [1 .. Len(m.nodes) -> Num] /\ result \in [1 .. Len(m.nodes) -> Num]
  BY <1>2, <1>6 DEF RunNow, RunFit
<1>8. PICK h, p : h = (IF r.at # 0 THEN HomeAt(r, m, k) ELSE r.home) /\ p = RunIs(r.f, k, x, r.back, r.input, h, result)
  OBVIOUS
<1>9. Run(p)
  <2>1. q = RunIs(r.f, k, x, r.back, r.input, h, r.result)
    BY <1>2, <1>6, <1>8, ReachIs
  <2>2. [q EXCEPT !.result = [i \in DOMAIN @ |-> IF i = r.at THEN v ELSE @[i]]]
        = [q EXCEPT !.result = [i \in DOMAIN q.result |-> IF i = r.at THEN v ELSE q.result[i]]]
    BY <2>1 DEF RunIs
  <2>3. q.result = r.result
    BY <2>1 DEF RunIs
  <2>4. [i \in DOMAIN q.result |-> IF i = r.at THEN v ELSE q.result[i]] = result
    BY <1>6, <1>7, <2>3
  <2>5. [q EXCEPT !.result = result] = p
    BY <1>8, <2>1 DEF RunIs
  <2>6. Run([q EXCEPT !.result = [i \in DOMAIN @ |-> IF i = r.at THEN v ELSE @[i]]])
    BY <1>1, <1>4, <1>5, <1>6
  <2> QED BY <2>2, <2>4, <2>5, <2>6
<1>10. Const(v) \in Consts
  BY DEF Consts
<1>11. Fit(x, Consts) /\ x.pc = After(r.x.pc) /\ x.conts = r.x.conts
  BY <1>5, <1>6, <1>10, ConstsAreCells, AnsweredFits
<1>12. CASE r.at = 0
  <2>1. p = RunIs(r.f, 0, x, r.back, r.input, r.home, result) /\ x.pc[1] = r.x.pc[1]
    BY <1>6, <1>8, <1>11, <1>12 DEF Onward, After
  <2>2. RunFit(p, m) /\ Beside(p, r)
    BY <1>2, <1>7, <1>11, <1>12, <2>1, KeptGoes
  <2> QED BY <1>2, <1>9, <2>2, RunGoes
<1>13. CASE r.at # 0
  <2>1. n.does = "call" /\ n.next \in 1 .. Len(m.nodes)
    BY <1>2, <1>3, <1>5, <1>13, NodeIs DEF Leading
  <2>2. k = n.next
    BY <1>1, <1>3, <1>6, <1>13 DEF Onward, Node, Made
  <2>3. PICK y : y = Out(n, r.at)
    OBVIOUS
  <2>4. ~m.astray => Arrives(r, m, k, y, x, result) /\ y.looped = n.x.looped
    BY <1>2, <1>3, <1>6, <1>13, <2>1, <2>2, <2>3, AnswerArrives
  <2>5. ~(m.loop.stable /\ r.at = m.loop.from)
    <3>1. LoopFit(m.loop, m.nodes, r.f, 0, Len(m.nodes), m.astray)
      BY <1>2, <1>13, NodeIs DEF GraphFit
    <3> QED BY <1>3, <2>1, <3>1 DEF LoopFit
  <2>6. p = RunIs(r.f, k, x, r.back, r.input, HomeAt(r, m, k), result)
    BY <1>8, <1>13
  <2>7. program \in Programs /\ r.f \in Functions /\ CodeFit(m, r.f) /\ RunFit(r, m)
    BY <1>2 DEF RunNow
  <2>8. /\ p.f = r.f /\ p.back = r.back /\ p.at = k /\ p.input = r.input /\ p.home = HomeAt(r, m, k)
        /\ p.result = result
    BY <2>6, RunIsParts
  <2>9. ASSUME ~m.astray PROVE Found(p, m)
    <3>1. Linked(m.nodes, m.loop, 0, r.at, k, y)
      BY <2>4, <2>9 DEF Arrives
    <3>2. k = Chosen(r, m, r.at) /\ m.nodes[r.at].does \in Leading
      BY <1>3, <2>1, <2>2 DEF Chosen, Leading
    <3>3. \A i \in 1 .. Len(m.nodes) : i # r.at => p.result[i] = r.result[i]
      BY <1>6, <2>8
    <3>4. y.looped = m.nodes[r.at].x.looped
      BY <1>3, <2>4, <2>9
    <3> QED BY <1>2, <1>13, <2>8, <2>9, <3>1, <3>2, <3>3, <3>4, WayOn
  <2>10. RunFit(p, m)
    BY <1>7, <1>11, <1>13, <2>1, <2>2, <2>4, <2>5, <2>6, <2>7, <2>9, Reaches
  <2>11. Beside(p, r)
    BY <2>8 DEF Beside
  <2> QED BY <1>2, <1>9, <2>10, <2>11, RunGoes
<1> QED BY <1>12, <1>13

Restarted(r, k, v) == [r EXCEPT !.at = k, !.input = v]
Looped(r, k, b, h) == [r EXCEPT !.at = k, !.back = b, !.home = h]
Led(r, k, b)       == [r EXCEPT !.at = k, !.back = b]

LEMMA RunMoved ==
  ASSUME NEW f, NEW at, NEW x, NEW back, NEW input, NEW home, NEW result, NEW r,
         r = RunIs(f, at, x, back, input, home, result), NEW k, NEW v, NEW h, NEW b
  PROVE  /\ Restarted(r, k, v) = RunIs(f, k, x, back, v, home, result)
         /\ Looped(r, k, b, h) = RunIs(f, k, x, b, input, h, result)
         /\ Led(r, k, b) = RunIs(f, k, x, b, input, home, result)
<1>1. PICK p, q, w : /\ p = [r EXCEPT !.at = k, !.input = v] /\ q = [r EXCEPT !.at = k, !.back = b, !.home = h]
                     /\ w = [r EXCEPT !.at = k, !.back = b]
  OBVIOUS
<1>2. p = RunIs(f, k, x, back, v, home, result)
  BY <1>1 DEF RunIs
<1>3. q = RunIs(f, k, x, b, input, h, result)
  BY <1>1 DEF RunIs
<1>4. w = RunIs(f, k, x, b, input, home, result)
  BY <1>1 DEF RunIs
<1> QED BY <1>1, <1>2, <1>3, <1>4 DEF Restarted, Looped, Led

\* The run is at the start of a function that its facts admit.
LEMMA OpensFit ==
  ASSUME program \in Programs, NEW f \in Functions, facts[f] \in [1 .. Arity(f) -> Facts], NEW m, CodeFit(m, f),
         m.optimized, NEW x, Fit(x, Consts), x.pc = Entry(f), x.a = <<>>, x.conts = <<>>,
         NEW u, u = Reverse(x.c), NEW v \in [1 .. Arity(f) -> Num],
         \A i \in 1 .. Arity(f) : u[i].n = v[i] /\ Admits(facts[f][i], v[i]),
         NEW home, NEW back, NEW result \in [1 .. Len(m.nodes) -> Num], NEW p, p = RunIs(f, 1, x, back, v, home, result)
  PROVE  RunFit(p, m)
<1>1. /\ p.f = f /\ p.at = 1 /\ p.x = x /\ p.input = v /\ p.home = home /\ p.result = result
      /\ p = RunIs(p.f, p.at, p.x, p.back, p.input, p.home, p.result)
  BY RunIsParts
<1>2. PICK s, l, n : s = m.nodes /\ l = m.loop /\ n = Len(s)
  OBVIOUS
<1>3. s \in Seq(Nodes) /\ s # <<>> /\ LoopFit(l, s, f, 0, n, m.astray) /\ Where(s, 0, 1) = EntryContext(f)
  BY <1>2 DEF CodeFit, GraphFit
<1>4. n \in Nat /\ 1 \in 1 .. n /\ 1 \in 0 .. n
  BY <1>2, <1>3
<1>5. PICK h, w : h = EntryContext(f) /\ w = Opening(f)
  OBVIOUS
<1>6. s[1].x = h
  BY <1>2, <1>3, <1>4, <1>5 DEF Where
<1>7. PICK k \in Nat : k = Arity(f)
  BY FunctionTypes
<1>8. /\ Fit(h, Operands(f, {}, 0)) /\ h.pc = Entry(f) /\ h.a = <<>> /\ h.conts = <<>> /\ h.c = Reverse(w)
      /\ w \in Seq(Operands(f, {}, 0)) /\ Len(w) = k
  BY <1>5, <1>7, EntryIs
<1>9. PICK S : S = Operands(f, {}, n)
  OBVIOUS
<1>10. Operands(f, {}, 0) \subseteq S
  <2>1. 0 \in Nat /\ 0 <= n
    BY <1>4
  <2> QED BY <1>4, <1>9, <2>1, OperandsGrow
<1>11. Fit(h, S) /\ w \in Seq(S)
  BY <1>8, <1>10, FitGrows
<1>12. x.c \in Seq(Consts) /\ Len(x.c) = k
  <2>1. /\ x.c \in Seq(Consts) /\ Len(x.c) \in Nat /\ Len(x.conts) = 0 /\ x.pc[1] = f
        /\ Len(x.c) = BaseC(x.conts, Len(x.conts)) + Arity(x.pc[1])
    BY FitParts DEF Entry
  <2> QED BY <1>7, <2>1 DEF BaseC
<1>13. u \in Seq(Consts) /\ Len(u) = k /\ Reverse(u) = x.c
  BY <1>12, ReverseIs
<1>14. Alike(w, u, p)
  <2> SUFFICES ASSUME NEW i \in 1 .. k PROVE ValueOf(w[i], p) = u[i].n
    BY <1>8, <1>13 DEF Alike
  <2>1. w[i] = IF facts[f][i] = Unknown THEN Input(i) ELSE Const(facts[f][i])
    BY <1>5, <1>7 DEF Opening
  <2>2. u[i].n = v[i] /\ v[i] \in Num /\ (facts[f][i] = Unknown \/ facts[f][i] = v[i])
    BY <1>7 DEF Admits
  <2>3. CASE facts[f][i] = Unknown
    <3>1. ValueOf(w[i], p) = (v[i] + 0) % Width
      <4>1. ValueOf(Input(i), p) = (p.input[i] + 0) % Width
        BY DEF Input, ValueOf
      <4> QED BY <1>1, <2>1, <2>3, <4>1
    <3>2. Width \in Nat \ {0} /\ \A b \in Nat \ {0} : \A d \in 0 .. b - 1 : (d + 0) % b = d
      BY WidthAssumption
    <3>3. v[i] \in 0 .. Width - 1
      BY <2>2 DEF Num
    <3> QED BY <2>2, <3>1, <3>2, <3>3
  <2>4. CASE facts[f][i] # Unknown
    BY <2>1, <2>2, <2>4 DEF Const, ValueOf
  <2> QED BY <2>3, <2>4
<1>15. Alike(h.c, x.c, p)
  BY <1>8, <1>11, <1>13, <1>14, AlikeReverse
<1>16. AgreesWith(h, x, p)
  <2>1. Alike(h.a, x.a, p)
    BY <1>8 DEF Alike
  <2> QED BY <1>8, <1>15, <2>1 DEF AgreesWith
<1>17. Live(l, 1)
  <2>1. l.stable => l.from \in 1 .. Len(s)
    BY <1>3 DEF LoopFit
  <2>2. l.stable => ~(l.from < 1)
    BY <1>2, <1>4, <2>1
  <2> QED BY <2>2 DEF Live
<1>18. Legible(S, f, m, p) /\ h \in Contexts(S)
  BY <1>2, <1>9, <1>11 DEF Legible, Fit
<1>19. Follows(p, m)
  BY <1>1, <1>2, <1>6, <1>16, <1>17, <1>18 DEF Follows
<1>21. Found(p, m)
  <2>1. ~h.looped
    BY <1>5, EntryIs
  <2>2. Mark(p, m) = 1
    BY <1>1, <1>2, <1>6, <2>1 DEF Mark
  <2>3. PICK W : W = {}
    OBVIOUS
  <2>4. Way(W, p, m)
    BY <2>2, <2>3 DEF Way
  <2> QED BY <2>4 DEF Found
<1>20. p.at \in 0 .. Len(m.nodes) /\ p.at # 0
  BY <1>1, <1>2, <1>4
<1> QED BY <1>1, <1>19, <1>20, <1>21 DEF RunFit

LEMMA EnterKeeps ==
  ASSUME WorkInv, JobInv, CodeInv, Enter
  PROVE  RunInv'
<1>b. PICK b \in BOOLEAN : b = FALSE
  OBVIOUS
<1>0. PICK f \in needed : \E v \in [1 .. Arity(f) -> 0 .. Width - 1] :
         /\ \A i \in 1 .. Arity(f) : Admits(facts[f][i], v[i])
         /\ run' = [f |-> f, at |-> IF code[f].optimized THEN 1 ELSE 0,
                    x |-> [pc |-> Entry(f), a |-> <<>>, conts |-> <<>>,
                           looped |-> FALSE, c |-> Reverse([i \in 1 .. Arity(f) |-> Const(v[i])])],
                    back |-> FALSE, input |-> v, home |-> <<>>, result |-> [i \in DOMAIN code[f].nodes |-> 0]]
  BY DEF Enter
<1>1. PICK v \in [1 .. Arity(f) -> 0 .. Width - 1] :
         /\ \A i \in 1 .. Arity(f) : Admits(facts[f][i], v[i])
         /\ run' = [f |-> f, at |-> IF code[f].optimized THEN 1 ELSE 0,
                    x |-> [pc |-> Entry(f), a |-> <<>>, conts |-> <<>>,
                           looped |-> b, c |-> Reverse([i \in 1 .. Arity(f) |-> Const(v[i])])],
                    back |-> b, input |-> v, home |-> <<>>, result |-> [i \in DOMAIN code[f].nodes |-> 0]]
  BY <1>0, <1>b
<1>2. /\ program' = program /\ facts' = facts /\ needed' = needed /\ dirty' = dirty /\ code' = code /\ job' = job
      /\ Done
  BY DEF Enter
<1>3. program \in Programs /\ f \in Functions /\ facts[f] \in [1 .. Arity(f) -> Facts]
  BY KnownFacts DEF WorkInv
<1>4. PICK m, u, x, at, home, result :
        /\ m = code[f] /\ u = [i \in 1 .. Arity(f) |-> Const(v[i])]
        /\ x = [pc |-> Entry(f), a |-> <<>>, conts |-> <<>>, looped |-> b, c |-> Reverse(u)]
        /\ at = (IF m.optimized THEN 1 ELSE 0) /\ home = <<>> /\ result = [i \in DOMAIN m.nodes |-> 0]
  OBVIOUS
<1>5. PICK p : p = RunIs(f, at, x, b, v, home, result)
  OBVIOUS
<1>6. run' = p
  BY <1>1, <1>4, <1>5 DEF RunIs
<1>7. CodeFit(m, f)
  <2>1. 0 \notin Functions
    BY DEF Functions
  <2>2. Published(f)
    BY <1>2, <1>3, <2>1 DEF Published, Done
  <2> QED BY <1>3, <1>4, <2>2 DEF CodeInv
<1>8. m.nodes \in Seq(Nodes) /\ (~m.optimized => m.nodes = <<>>)
  <2>1. ~m.optimized => m.nodes = <<>>
    BY <1>7 DEF CodeFit
  <2>2. m.optimized => m.nodes \in Seq(Nodes)
    BY <1>7 DEF CodeFit
  <2>3. <<>> \in Seq(Nodes)
    OBVIOUS
  <2> QED BY <2>1, <2>2, <2>3
<1>9. v \in [1 .. Arity(f) -> Num]
  BY <1>1 DEF Num
<1>10. result \in [1 .. Len(m.nodes) -> Num]
  <2>1. 0 \in Num
    BY WidthAssumption DEF Num
  <2>2. DOMAIN m.nodes = 1 .. Len(m.nodes)
    BY <1>8
  <2> QED BY <1>4, <2>1, <2>2
<1>11. PICK k \in Nat : k = Arity(f)
  BY <1>3, FunctionTypes
<1>12. u \in Seq(Consts) /\ Len(u) = k
  <2>1. u \in [1 .. k -> Consts]
    BY <1>4, <1>9, <1>11 DEF Consts
  <2> QED BY <2>1, FunctionIsSeq
<1>13. Reverse(u) \in Seq(Consts) /\ Len(Reverse(u)) = k /\ Reverse(Reverse(u)) = u
  BY <1>12, ReverseIs
<1>14. x.pc = Entry(f) /\ x.a = <<>> /\ x.conts = <<>> /\ x.c = Reverse(u)
  BY <1>4
<1>15. Fit(x, Consts)
  <2>1. Place(Entry(f)) /\ Depth(Entry(f)) = 0 /\ Entry(f) \in Nat \X Nat /\ Entry(f)[1] = f
    BY <1>3, EntryPlace DEF Entry
  <2>2. x \in Contexts(Consts)
    BY <1>b, <1>4, <1>13, <2>1 DEF Contexts
  <2>3. Len(x.a) = 0 /\ Len(x.conts) = 0 /\ Len(x.c) = Arity(f)
    BY <1>11, <1>13, <1>14
  <2>4. Shape(x)
    BY <1>11, <1>14, <2>1, <2>3 DEF Shape, BaseA, BaseC, Returns
  <2> QED BY <2>2, <2>4 DEF Fit
<1>16. RunFit(p, m)
  <2>1. CASE m.optimized
    <3>1. u = Reverse(x.c) /\ \A i \in 1 .. Arity(f) : u[i].n = v[i] /\ Admits(facts[f][i], v[i])
      BY <1>1, <1>4, <1>13, <1>14 DEF Const
    <3>2. p = RunIs(f, 1, x, b, v, home, result)
      BY <1>4, <1>5, <2>1
    <3> QED BY <1>3, <1>7, <1>9, <1>10, <1>14, <1>15, <2>1, <3>1, <3>2, OpensFit
  <2>2. CASE ~m.optimized
    <3>1. /\ p.f = f /\ p.at = 0 /\ p.x = x /\ p.input = v /\ p.home = home /\ p.result = result
          /\ p = RunIs(p.f, p.at, p.x, p.back, p.input, p.home, p.result)
      BY <1>4, <1>5, <2>2, RunIsParts
    <3>2. p.at \in 0 .. Len(m.nodes) /\ (p.at = 0 <=> ~m.optimized)
      BY <1>8, <2>2, <3>1
    <3>3. x.pc[1] = f
      BY <1>14 DEF Entry
    <3> QED BY <1>9, <1>10, <1>14, <1>15, <3>1, <3>2, <3>3 DEF RunFit
  <2> QED BY <2>1, <2>2
<1>17. RunFit(p, m)'
  BY <1>2, <1>16, RunStays
<1>18. p.f = f /\ code'[p.f] = m /\ p.f \in needed' /\ ~p.back
  <2>1. p.f = f /\ p.back = b
    BY <1>5 DEF RunIs
  <2> QED BY <1>b, <1>2, <1>4, <2>1
<1> QED BY <1>2, <1>6, <1>17, <1>18 DEF RunInv, Done

LEMMA RunAgainKeeps ==
  ASSUME WorkInv, JobInv, CodeInv, RunInv, RunAgain
  PROVE  RunInv'
<1>1. PICK r, m, D : r = run /\ m = code[run.f] /\ D = {"again"}
  OBVIOUS
<1>2. RunNow(r, m) /\ Running
  <2>1. Running /\ ~run.back
    BY DEF RunAgain, On
  <2> QED BY <1>1, <2>1, RunningIs
<1>3. PICK n, f, x, c : n = m.nodes[r.at] /\ f = r.f /\ x = r.x /\ c = n.x.c
  OBVIOUS
<1>4. /\ r.at # 0 /\ n.does = "again" /\ n.x.pc = x.pc /\ n.x.conts = x.conts
      /\ Values(n.x.a, r) = Plain(x.a) /\ Values(c, r) = Plain(x.c) /\ Fit(x, Consts) /\ program \in Programs
  <2>1. On(D)
    BY <1>1 DEF RunAgain
  <2>2. /\ r.at = 0 => "kept" \in D
        /\ r.at # 0 => /\ n.does \in D /\ n.x.pc = r.x.pc /\ n.x.conts = r.x.conts
                       /\ Values(n.x.a, r) = Plain(r.x.a) /\ Values(n.x.c, r) = Plain(r.x.c)
        /\ Fit(r.x, Consts) /\ program \in Programs
    BY <1>2, <1>3, <2>1, OnIs
  <2>3. r.at # 0
    BY ONLY <1>1, <2>2
  <2> QED BY ONLY <1>1, <1>3, <2>2, <2>3
<1>5. /\ m.optimized /\ Doing(n, m.loop, m.calls, m.astray, f) /\ NodeFit(n, r.at, m.loop, f) /\ n \in Nodes
      /\ f \in Functions /\ CodeFit(m, f) /\ r.result \in [1 .. Len(m.nodes) -> Num] /\ f \in needed
  BY <1>2, <1>3, <1>4, NodeIs DEF RunNow, RunFit
<1>6. n.x.pc = Entry(f) /\ n.x.a = <<>> /\ n.x.conts = <<>> /\ Claim(f, Reverse(c)) \in m.calls
  BY <1>3, <1>4, <1>5 DEF Doing
<1>7. x.a \in Seq(Consts) /\ x.c \in Seq(Consts) /\ n.x.a \in Seq(Value) /\ c \in Seq(Value)
  <2>1. n.x \in Contexts(Value)
    BY <1>5 DEF Nodes
  <2> QED BY <1>3, <1>4, <2>1, ContextParts, FitParts
<1>8. Alike(n.x.a, x.a, r) /\ Alike(c, x.c, r)
  BY <1>4, <1>7, AlikeIs
<1>9. x.a = <<>>
  BY <1>6, <1>7, <1>8 DEF Alike
<1>10. PICK k \in Nat : k = Arity(f)
  BY <1>4, <1>5, FunctionTypes
<1>11. Len(x.c) = k
  <2>1. /\ Len(x.c) \in Nat /\ Len(x.conts) = 0 /\ x.pc[1] = f
        /\ Len(x.c) = BaseC(x.conts, Len(x.conts)) + Arity(x.pc[1])
    <3>1. Len(x.c) \in Nat /\ Len(x.c) = BaseC(x.conts, Len(x.conts)) + Arity(x.pc[1])
      BY <1>4, FitParts
    <3>2. x.conts = <<>> /\ x.pc = Entry(f)
      BY <1>4, <1>6
    <3> QED BY <3>1, <3>2 DEF Entry
  <2> QED BY <1>10, <2>1 DEF BaseC
<1>12. Len(c) = k
  BY <1>8, <1>11 DEF Alike
<1>13. PICK s, u, v : s = Reverse(c) /\ u = Reverse(x.c) /\ v = Reverse(Values(c, r))
  OBVIOUS
<1>14. s \in Seq(Value) /\ u \in Seq(Consts) /\ Len(s) = k /\ Len(u) = k /\ Alike(s, u, r)
  BY <1>7, <1>8, <1>11, <1>12, <1>13, ReverseIs, AlikeReverse
<1>15. v \in [1 .. k -> Num] /\ \A i \in 1 .. k : v[i] = u[i].n
  <2>1. PICK z : z = Plain(x.c)
    OBVIOUS
  <2>2. z = [i \in 1 .. k |-> x.c[i].n]
    BY <1>7, <1>11, <2>1 DEF Plain
  <2>3. \A i \in 1 .. k : x.c[i] \in Consts /\ x.c[i].n \in Num
    BY <1>7, <1>11, ConstIs
  <2>4. z \in [1 .. k -> Num]
    BY <2>2, <2>3
  <2>5. z \in Seq(Num) /\ Len(z) = k
    BY <2>4, FunctionIsSeq
  <2>6. v = Reverse(z)
    BY <1>4, <1>13, <2>1
  <2>7. v \in Seq(Num) /\ Len(v) = k /\ \A i \in 1 .. k : v[i] = z[k - i + 1]
    BY <2>5, <2>6, ReverseIs
  <2>8. \A i \in 1 .. k : u[i] = x.c[k - i + 1]
    BY <1>7, <1>11, <1>13, ReverseIs
  <2>9. \A i \in 1 .. k : k - i + 1 \in 1 .. k
    OBVIOUS
  <2> QED BY <2>2, <2>7, <2>8, <2>9
<1>16. facts[f] \in [1 .. Arity(f) -> Facts]
  BY <1>5, KnownFacts
<1>17. ASSUME NEW i \in 1 .. k PROVE Admits(facts[f][i], v[i])
  <2>1. Covered(Claim(f, s))
    BY <1>1, <1>3, <1>5, <1>6, <1>13 DEF WorkInv
  <2>2. facts[f][i] = Unknown \/ facts[f][i] = Fact(s[i])
    BY <1>10, <2>1 DEF Covered, Claim, Admits
  <2>3. ASSUME Fact(s[i]) # Unknown PROVE Fact(s[i]) = v[i]
    <3>1. s[i].base = "const" /\ Fact(s[i]) = s[i].n
      BY <2>3 DEF Fact, IsConst
    <3>2. ValueOf(s[i], r) = s[i].n
      BY <3>1 DEF ValueOf
    <3>3. ValueOf(s[i], r) = u[i].n
      BY <1>14 DEF Alike
    <3>4. v[i] = u[i].n
      BY <1>15
    <3> QED BY ONLY <3>1, <3>2, <3>3, <3>4
  <2>4. PICK g, h : g = facts[f][i] /\ h = Fact(s[i])
    OBVIOUS
  <2>5. g = Unknown \/ (g = h /\ (h # Unknown => h = v[i]))
    BY ONLY <2>2, <2>3, <2>4
  <2>6. Admits(g, v[i])
    BY ONLY <2>5 DEF Admits
  <2> QED BY ONLY <2>4, <2>6
<1>18. PICK p : p = RunIs(f, 1, x, r.back, v, r.home, r.result)
  OBVIOUS
<1>19. Run(p)
  <2>1. Run([r EXCEPT !.at = 1, !.input = v])
    BY <1>1, <1>3, <1>13 DEF RunAgain, Node, Made
  <2>2. r = RunIs(f, r.at, x, r.back, r.input, r.home, r.result)
    BY <1>2, <1>3 DEF RunNow, RunFit
  <2>3. Restarted(r, 1, v) = p
    BY <1>18, <2>2, RunMoved
  <2> QED BY <2>1, <2>3 DEF Restarted
<1>20. RunFit(p, m)
  <2>1. v \in [1 .. Arity(f) -> Num] /\ \A i \in 1 .. Arity(f) : u[i].n = v[i] /\ Admits(facts[f][i], v[i])
    BY <1>10, <1>15, <1>17
  <2>2. x.pc = Entry(f) /\ x.conts = <<>>
    BY <1>4, <1>6
  <2> QED BY <1>4, <1>5, <1>9, <1>13, <1>16, <1>18, <2>1, <2>2, OpensFit
<1>21. Beside(p, r)
  BY <1>3, <1>18 DEF RunIs, Beside
<1> QED BY <1>2, <1>19, <1>20, <1>21, RunGoes

LEMMA RunLoopKeeps ==
  ASSUME WorkInv, JobInv, CodeInv, RunInv, RunLoop
  PROVE  RunInv'
<1>1. PICK r, m, D : r = run /\ m = code[run.f] /\ D = {"loop"}
  OBVIOUS
<1>2. RunNow(r, m) /\ Running
  <2>1. Running /\ ~run.back
    BY DEF RunLoop, On
  <2> QED BY <1>1, <2>1, RunningIs
<1>3. PICK n, f, x, c, l, s, N : n = m.nodes[r.at] /\ f = r.f /\ x = r.x /\ c = n.x.c /\ l = m.loop /\ s = m.nodes /\ N = Len(s)
  OBVIOUS
<1>4. /\ r.at # 0 /\ n.does = "loop" /\ n.x.pc = x.pc /\ n.x.conts = x.conts
      /\ Values(n.x.a, r) = Plain(x.a) /\ Values(c, r) = Plain(x.c) /\ Fit(x, Consts) /\ program \in Programs
  <2>1. On(D)
    BY <1>1 DEF RunLoop
  <2> QED BY <1>1, <1>2, <1>3, <2>1, OnIs
<1>5. /\ m.optimized /\ Doing(n, l, m.calls, m.astray, f) /\ n \in Nodes /\ s \in Seq(Nodes)
      /\ GraphFit(s, l, m.calls, m.astray, f, 0, <<>>, N)
      /\ f \in Functions /\ CodeFit(m, f)
  BY <1>2, <1>3, <1>4, NodeIs DEF RunNow
<1>6. r.result \in [1 .. N -> Num] /\ r.input \in [1 .. Arity(f) -> Num]
  BY <1>2, <1>3 DEF RunNow, RunFit
<1>7. /\ l.stable /\ n.x.pc = Entry(l.target) /\ n.x.a = <<>> /\ Len(c) = Len(l.header)
      /\ \A d \in 1 .. Len(c) : d \notin l.homes => c[d] = l.header[d]
      /\ ~m.astray => n.x.conts = l.conts /\ n.x.looped
  BY <1>3, <1>4, <1>5 DEF Doing
<1>8. LoopFit(l, s, f, 0, N, m.astray) /\ N \in Nat
  BY <1>3, <1>5 DEF GraphFit
<1>9. /\ l \in Loops /\ l.from \in 1 .. N /\ l.initial \in Seq(Operands(f, {}, l.from)) /\ l.at \in 1 .. N
      /\ l.homes \subseteq 1 .. Len(l.initial) /\ Len(l.header) = Len(l.initial)
      /\ ~m.astray => Where(s, 0, l.at) = Head_(l)
  BY <1>3, <1>7, <1>8 DEF LoopFit
<1>10. \A d \in 1 .. Len(l.header) : l.header[d] = IF d \in l.homes THEN LoopHome(d) ELSE l.initial[d]
  BY <1>7, <1>8 DEF LoopFit
<1>11. x.a \in Seq(Consts) /\ x.c \in Seq(Consts) /\ n.x.a \in Seq(Value) /\ c \in Seq(Value)
  <2>1. n.x \in Contexts(Value)
    BY <1>5 DEF Nodes
  <2> QED BY <1>3, <1>4, <2>1, ContextParts, FitParts
<1>12. Alike(n.x.a, x.a, r) /\ Alike(c, x.c, r)
  BY <1>4, <1>11, AlikeIs
<1>13. x.a = <<>>
  BY <1>7, <1>11, <1>12 DEF Alike
<1>14. PICK k \in Nat : k = Len(c) /\ k = Len(x.c) /\ k = Len(l.initial) /\ k = Len(l.header)
  BY <1>7, <1>9, <1>11, <1>12 DEF Alike
<1>15. PICK home : home = Values(c, r)
  OBVIOUS
<1>16. home \in [1 .. k -> Num] /\ \A d \in 1 .. k : home[d] = x.c[d].n /\ home[d] = ValueOf(c[d], r)
  <2>1. home = [d \in 1 .. k |-> ValueOf(c[d], r)]
    <3>1. DOMAIN c = 1 .. k
      <4>1. c \in Seq(Value) /\ k = Len(c)
        BY <1>11, <1>14
      <4> QED BY <4>1
    <3> QED BY <1>15, <3>1 DEF Values
  <2>2. \A d \in 1 .. k : ValueOf(c[d], r) = x.c[d].n
    BY <1>12, <1>14 DEF Alike
  <2>3. \A d \in 1 .. k : x.c[d].n \in Num
    <3>1. \A d \in 1 .. k : x.c[d] \in Consts
      <4>1. PICK z : z = x.c
        OBVIOUS
      <4>2. z \in Seq(Consts) /\ k = Len(z)
        BY <1>11, <1>14, <4>1
      <4>3. \A d \in 1 .. k : z[d] \in Consts
        BY <4>2
      <4> QED BY <4>1, <4>3
    <3> QED BY <3>1, ConstIs
  <2> QED BY <2>1, <2>2, <2>3
<1>b. PICK b : b = TRUE
  OBVIOUS
<1>17. PICK p, q : /\ p = RunIs(f, 1, x, b, r.input, home, r.result)
                  /\ q = RunIs(f, l.at, x, b, r.input, home, r.result)
  OBVIOUS
<1>18. Run(p)
  <2>1. Run([r EXCEPT !.at = 1, !.back = b, !.home = home])
    BY <1>1, <1>3, <1>15, <1>b DEF RunLoop, Node, Made
  <2>2. r = RunIs(f, r.at, x, r.back, r.input, r.home, r.result)
    BY <1>2, <1>3 DEF RunNow, RunFit
  <2>3. Looped(r, 1, b, home) = p
    BY ONLY <1>17, <2>2, RunMoved
  <2> QED BY <2>1, <2>3 DEF Looped
<1>19. /\ q.f = f /\ q.at = l.at /\ q.x = x /\ q.input = r.input /\ q.home = home /\ q.result = r.result
       /\ q = RunIs(q.f, q.at, q.x, q.back, q.input, q.home, q.result)
  BY ONLY <1>17, RunIsParts
<1>20. ASSUME ~m.astray PROVE Follows(q, m)
  <2>1. PICK h : h = s[l.at].x
    OBVIOUS
  <2>2. h = Head_(l) /\ n.x.conts = l.conts
    <3>1. Where(s, 0, l.at) = s[l.at].x
      BY <1>3, <1>8, <1>9 DEF Where
    <3> QED BY <1>7, <1>9, <1>20, <2>1, <3>1
  <2>3. h.pc = Entry(l.target) /\ h.a = <<>> /\ h.c = l.header /\ h.conts = l.conts
    BY <2>2 DEF Head_
  <2>4. ASSUME NEW d \in 1 .. k PROVE ValueOf(h.c[d], q) = x.c[d].n
    <3>1. CASE d \in l.homes
      <4>1. h.c[d] = LoopHome(d)
        BY <1>10, <1>14, <2>3, <3>1
      <4>2. ValueOf(h.c[d], q) = (home[d] + 0) % Width
        BY <1>19, <4>1 DEF LoopHome, ValueOf
      <4>3. Width \in Nat \ {0} /\ \A g \in Nat \ {0} : \A e \in 0 .. g - 1 : (e + 0) % g = e
        BY WidthAssumption
      <4>4. home[d] \in 0 .. Width - 1 /\ home[d] = x.c[d].n
        BY <1>16 DEF Num
      <4> QED BY <4>2, <4>3, <4>4
    <3>2. CASE d \notin l.homes
      <4>1. h.c[d] = l.initial[d] /\ h.c[d] = c[d]
        BY <1>7, <1>10, <1>14, <2>3, <3>2
      <4>2. h.c[d] \in Operands(f, {}, l.from)
        <5>1. PICK A, z : A = Operands(f, {}, l.from) /\ z = l.initial
          OBVIOUS
        <5>2. z \in Seq(A) /\ Len(z) = k
          BY <1>9, <1>14, <5>1
        <5>3. z[d] \in A
          BY <5>2
        <5> QED BY <4>1, <5>1, <5>3
      <4>3. h.c[d].base \in {"const", "input", "result"}
        BY <4>2 DEF Operands, Consts, Const
      <4>4. ValueOf(h.c[d], q) = ValueOf(c[d], r)
        BY <1>19, <4>1, <4>3 DEF ValueOf
      <4> QED BY <1>16, <4>4
    <3> QED BY <3>1, <3>2
  <2>5. AgreesWith(h, x, q)
    <3>1. Alike(h.c, x.c, q)
      BY <1>14, <2>3, <2>4 DEF Alike
    <3>2. Alike(h.a, x.a, q)
      BY <1>13, <2>3 DEF Alike
    <3> QED BY <1>4, <1>7, <2>2, <2>3, <3>1, <3>2 DEF AgreesWith
  <2>6. PICK S : S = Operands(f, Homes(l), N)
    OBVIOUS
  <2>7. Legible(S, q.f, m, q)
    BY <1>3, <1>14, <1>16, <1>19, <2>6 DEF Legible
  <2>8. h \in Contexts(S)
    <3>1. \A i \in 1 .. N : Fit(s[i].x, Operands(f, Homes(l), i - 1))
      BY <1>3, <1>5 DEF GraphFit, NodeFit
    <3>2. l.at - 1 \in Nat /\ l.at - 1 <= N
      BY <1>8, <1>9
    <3>3. Operands(f, Homes(l), l.at - 1) \subseteq S
      BY <1>8, <2>6, <3>2, OperandsGrow
    <3>4. Fit(h, S)
      BY <1>9, <2>1, <3>1, <3>3, FitGrows
    <3> QED BY <3>4 DEF Fit
  <2>9. Live(l, l.at)
    <3>1. l.at \in Nat
      BY <1>8, <1>9
    <3> QED BY <3>1 DEF Live
  <2> QED BY <1>3, <1>19, <2>1, <2>5, <2>7, <2>8, <2>9 DEF Follows
<1>21. q.at \in 0 .. Len(m.nodes) /\ q.at # 0
  BY <1>3, <1>8, <1>9, <1>19
<1>22. ASSUME ~m.astray PROVE \E W : Way(W, q, m) /\ 1 \in W
  <2>1. PICK W : Way(W, r, m)
    BY <1>2, <1>4, <1>22 DEF RunNow, RunFit, Found
  <2>2. Mark(r, m) = l.at
    BY <1>3, <1>7, <1>22 DEF Mark
  <2>3. Mark(q, m) = l.at
    BY <1>3, <1>19 DEF Mark
  <2>4. ASSUME NEW w \in W
        PROVE  w \in 1 .. Len(m.nodes) /\ m.nodes[w].does \in Leading /\ w < l.at /\ Chosen(q, m, w) \in W \cup {l.at}
    <3>1. w \in 1 .. Len(m.nodes) /\ m.nodes[w].does \in Leading /\ w < l.at /\ Chosen(r, m, w) \in W \cup {l.at}
      BY <2>1, <2>2 DEF Way
    <3>2. q.input = r.input /\ (\A i \in 1 .. w - 1 : q.result[i] = r.result[i]) /\ (m.loop.stable => w < m.loop.at)
      BY <1>3, <1>19, <3>1
    <3>3. Chosen(q, m, w) = Chosen(r, m, w)
      BY <1>4, <1>5, <3>1, <3>2, ChosenSame
    <3> QED BY <3>1, <3>3
  <2>5. 1 \in W \cup {l.at}
    BY <2>1, <2>2 DEF Way
  <2>6. 1 # l.at
    <3>1. l.from + 1 < l.at
      BY <1>7, <1>8, <1>22 DEF LoopFit
    <3> QED BY <1>8, <1>9, <3>1
  <2>7. Way(W, q, m)
    BY <2>3, <2>4, <2>5 DEF Way
  <2> QED BY <2>5, <2>6, <2>7
<1>23. RunFit(q, m)
  <2>1. ~m.astray => Found(q, m)
    BY <1>22 DEF Found
  <2> QED BY <1>3, <1>4, <1>5, <1>6, <1>19, <1>20, <1>21, <2>1 DEF RunFit
<1>24. /\ p.f = f /\ p.at = 1 /\ p.x = x /\ p.back = b /\ p.input = r.input /\ p.home = home /\ p.result = r.result
       /\ p = RunIs(p.f, p.at, p.x, p.back, p.input, p.home, p.result)
  BY ONLY <1>17, RunIsParts
<1>25. BackFit(p, m)
  <2>1. PICK W : ~m.astray => Way(W, q, m) /\ 1 \in W
    BY <1>22
  <2>2. 1 \in 1 .. Len(m.nodes)
    BY <1>3, <1>8, <1>9
  <2>3. q = RunIs(p.f, m.loop.at, p.x, p.back, p.input, p.home, p.result)
    BY <1>3, <1>17, <1>24
  <2>4. m.optimized /\ m.loop.stable
    BY <1>3, <1>5, <1>7
  <2> QED BY <1>23, <1>24, <2>1, <2>2, <2>3, <2>4 DEF BackFit
<1>26. p.back /\ p.f = r.f
  BY <1>b, <1>3, <1>24
<1>27. r = run /\ m = code[run.f] /\ r.f \in needed /\ Done
  BY <1>2 DEF RunNow
<1> QED BY <1>18, <1>25, <1>26, <1>27, RunTo

\* Whether a run is on its way back changes nothing else of it.
LEMMA FitBack ==
  ASSUME NEW f, NEW at, NEW x, NEW input, NEW home, NEW result, NEW a, NEW b, NEW m,
         NEW q, q = RunIs(f, at, x, a, input, home, result), NEW p, p = RunIs(f, at, x, b, input, home, result)
  PROVE  /\ RunFit(q, m) => RunFit(p, m)
         /\ \A W : Way(W, q, m) => Way(W, p, m)
<1>1. /\ q.f = f /\ q.at = at /\ q.x = x /\ q.input = input /\ q.home = home /\ q.result = result
  BY RunIsParts
<1>2. /\ p.f = f /\ p.at = at /\ p.x = x /\ p.input = input /\ p.home = home /\ p.result = result
      /\ p = RunIs(p.f, p.at, p.x, p.back, p.input, p.home, p.result)
  BY RunIsParts
<1>3. \A v : ValueOf(v, p) = ValueOf(v, q)
  BY <1>1, <1>2, SameValues
<1>4. \A n : Chosen(p, m, n) = Chosen(q, m, n)
  BY <1>3 DEF Chosen
<1>5. \A W : Way(W, q, m) => Way(W, p, m)
  BY <1>1, <1>2, <1>4 DEF Way, Mark
<1>6. Follows(q, m) => Follows(p, m)
  <2>1. \A y, z : AgreesWith(y, z, q) => AgreesWith(y, z, p)
    BY <1>3 DEF AgreesWith, Alike
  <2>2. \A S : Legible(S, f, m, q) => Legible(S, f, m, p)
    BY <1>1, <1>2 DEF Legible
  <2> QED BY <1>1, <1>2, <2>1, <2>2 DEF Follows
<1>7. Found(q, m) => Found(p, m)
  BY <1>5 DEF Found
<1> QED BY <1>1, <1>2, <1>5, <1>6, <1>7 DEF RunFit

LEMMA RunPrologueKeeps ==
  ASSUME WorkInv, JobInv, CodeInv, RunInv, RunPrologue
  PROVE  RunInv'
<1>1. PICK r, m, k, b : r = run /\ m = code[run.f] /\ k = Chosen(r, m, r.at) /\ b = (k # m.loop.at)
  OBVIOUS
<1>2. Running /\ run.back /\ Agrees
  BY DEF RunPrologue
<1>3. BackNow(r, m)
  BY <1>1, <1>2, RunningIs
<1>4. /\ program \in Programs /\ r.f \in Functions /\ r.f \in needed /\ Done /\ CodeFit(m, r.f) /\ r.back
      /\ r = RunIs(r.f, r.at, r.x, r.back, r.input, r.home, r.result)
      /\ m.optimized /\ m.loop.stable /\ r.at \in 1 .. Len(m.nodes)
  BY <1>3 DEF BackNow, BackFit
<1>5. PICK q, W : /\ q = RunIs(r.f, m.loop.at, r.x, r.back, r.input, r.home, r.result) /\ RunFit(q, m)
                  /\ ~m.astray => Way(W, q, m) /\ r.at \in W
  BY <1>3 DEF BackNow, BackFit
<1>6. m.nodes[r.at].does \in Leading
  BY <1>1, <1>2, <1>4 DEF Agrees, Node, Made
<1>7. k \in 1 .. Len(m.nodes)
  <2>1. k \in r.at + 1 .. Len(m.nodes)
    BY <1>1, <1>4, <1>6, ChosenLies
  <2> QED BY <1>4, <2>1
<1>8. PICK p : p = RunIs(r.f, k, r.x, b, r.input, r.home, r.result)
  OBVIOUS
<1>9. Run(p)
  <2>1. Decides(run.at) = k /\ Made.loop.at = m.loop.at
    BY <1>1 DEF Decides, Chosen, Made
  <2>2. Run([r EXCEPT !.at = k, !.back = b])
    BY <1>1, <2>1 DEF RunPrologue
  <2>3. Led(r, k, b) = p
    <3>1. r = RunIs(r.f, r.at, r.x, r.back, r.input, r.home, r.result)
      BY <1>4
    <3> QED BY ONLY <1>8, <3>1, RunMoved
  <2> QED BY <2>2, <2>3 DEF Led
<1>10. /\ p.f = r.f /\ p.at = k /\ p.x = r.x /\ p.back = b /\ p.input = r.input /\ p.home = r.home /\ p.result = r.result
       /\ p = RunIs(p.f, p.at, p.x, p.back, p.input, p.home, p.result)
  BY <1>8, RunIsParts
<1>11. PICK z : z = RunIs(r.f, m.loop.at, r.x, b, r.input, r.home, r.result)
  OBVIOUS
<1>12. RunFit(z, m) /\ \A V : Way(V, q, m) => Way(V, z, m)
  BY <1>5, <1>11, FitBack
<1>13. CASE k = m.loop.at
  <2>1. ~p.back
    BY <1>1, <1>10, <1>13
  <2>2. p = z
    BY <1>8, <1>11, <1>13
  <2> QED BY <1>1, <1>4, <1>9, <1>10, <1>12, <2>1, <2>2, RunTo
<1>14. CASE k # m.loop.at
  <2>1. ASSUME ~m.astray PROVE Way(W, z, m) /\ k \in W
    <3>1. Way(W, z, m) /\ r.at \in W /\ Way(W, q, m)
      BY <1>5, <1>12, <2>1
    <3>2. q.at = m.loop.at /\ q.input = r.input /\ q.home = r.home /\ q.result = r.result
      BY <1>5, RunIsParts
    <3>3. Mark(q, m) = m.loop.at
      BY <3>2 DEF Mark
    <3>4. Chosen(q, m, r.at) = k
      <4>1. \A v : ValueOf(v, q) = ValueOf(v, r)
        BY <3>2, SameValues
      <4> QED BY <1>1, <4>1 DEF Chosen
    <3> QED BY <1>14, <3>1, <3>3, <3>4 DEF Way
  <2>2. z = RunIs(p.f, m.loop.at, p.x, p.back, p.input, p.home, p.result)
    BY <1>10, <1>11
  <2>3. BackFit(p, m)
    BY <1>4, <1>7, <1>10, <1>12, <2>1, <2>2 DEF BackFit
  <2>4. p.back
    BY <1>1, <1>10, <1>14
  <2> QED BY <1>1, <1>4, <1>9, <1>10, <2>3, <2>4, RunTo
<1> QED BY <1>13, <1>14

-----------------------------------------------------------------------------
(* The inductive invariant.                                                  *)

IInv == WorkInv /\ JobInv /\ CodeInv /\ RunInv

LEMMA CompileKeeps ==
  ASSUME IInv, Begin \/ Step \/ KnownBranch \/ UnknownBranch \/ Call \/ TailCall \/ Return \/ Optimize \/ Retain
  PROVE  IInv'
<1>1. WorkInv' /\ JobInv' /\ CodeInv'
  <2> USE DEF IInv
  <2>1. CASE Begin
    BY <2>1, BeginKeeps
  <2>2. CASE Step \/ KnownBranch \/ UnknownBranch \/ Call \/ TailCall \/ Return
    BY <2>2, WalkKeeps
  <2>3. CASE Optimize
    BY <2>3, OptimizeKeeps
  <2>4. CASE Retain
    BY <2>4, RetainKeeps
  <2> QED BY <2>1, <2>2, <2>3, <2>4
<1>2. ~Done /\ run' = run
  BY DEF Done, Begin, Step, KnownBranch, UnknownBranch, Call, TailCall, Return, Optimize, Retain, Walking, Walk, Publish
<1>3. ~Running'
  BY <1>2 DEF IInv, RunInv, Running
<1>4. RunInv'
  BY <1>3 DEF RunInv
<1> QED BY <1>1, <1>4 DEF IInv

LEMMA RunKeeps ==
  ASSUME IInv, Enter \/ RunStraight \/ RunBranch \/ RunInlined \/ RunCall \/ RunAgain \/ RunLoop \/ RunPrologue
  PROVE  IInv'
<1>1. WorkInv /\ JobInv /\ CodeInv /\ RunInv
  BY DEF IInv
<1>2. UNCHANGED <<program, facts, needed, dirty, code, job>>
  BY DEF Enter, RunStraight, RunBranch, RunInlined, RunCall, RunAgain, RunLoop, RunPrologue, Run
<1>3. WorkInv' /\ JobInv' /\ CodeInv'
  BY <1>1, <1>2, RunLeaves
<1>4. RunInv'
  <2>1. CASE Enter
    BY <1>1, <2>1, EnterKeeps
  <2>2. CASE RunStraight
    BY <1>1, <2>2, RunStraightKeeps
  <2>3. CASE RunBranch
    BY <1>1, <2>3, RunBranchKeeps
  <2>4. CASE RunInlined
    BY <1>1, <2>4, RunInlinedKeeps
  <2>5. CASE RunCall
    BY <1>1, <2>5, RunCallKeeps
  <2>6. CASE RunAgain
    BY <1>1, <2>6, RunAgainKeeps
  <2>7. CASE RunLoop
    BY <1>1, <2>7, RunLoopKeeps
  <2>8. CASE RunPrologue
    BY <1>1, <2>8, RunPrologueKeeps
  <2> QED BY <2>1, <2>2, <2>3, <2>4, <2>5, <2>6, <2>7, <2>8
<1> QED BY <1>3, <1>4 DEF IInv

LEMMA StutterKeeps == ASSUME IInv, UNCHANGED vars PROVE IInv'
<1>1. WorkInv /\ JobInv /\ CodeInv /\ RunInv
  BY DEF IInv
<1>2. UNCHANGED <<program, facts, needed, dirty, code, job>> /\ run' = run
  BY DEF vars
<1>3. WorkInv' /\ JobInv' /\ CodeInv'
  BY <1>1, <1>2, RunLeaves
<1>4. RunInv'
  <2> SUFFICES ASSUME Running PROVE RunInv'
    BY <1>2 DEF RunInv, Running
  <2>1. PICK r, m : r = run /\ m = code[run.f]
    OBVIOUS
  <2>2. r.f \in needed /\ Done /\ (~r.back => RunFit(r, m)) /\ (r.back => BackFit(r, m))
    BY <1>1, <2>1 DEF RunInv
  <2>3. Run(r)
    BY <1>2, <2>1 DEF Run
  <2> QED BY <2>1, <2>2, <2>3, RunTo
<1> QED BY <1>3, <1>4 DEF IInv

\* Whatever order the functions are compiled in, however often, and whichever
\* of them are kept: the worklist, the graph that a walk is making, the graphs
\* that were made, and the run through one of them stay as the parts of IInv
\* say.
THEOREM OptimizerInvariant == Spec => []IInv
<1>1. Init => IInv
  <2> SUFFICES ASSUME Init PROVE IInv
    OBVIOUS
  <2>1. WorkInv /\ JobInv /\ CodeInv
    BY InitWorks
  <2>2. RunInv
    BY DEF Init, RunInv, Running
  <2> QED BY <2>1, <2>2 DEF IInv
<1>2. IInv /\ [Next]_vars => IInv'
  <2> SUFFICES ASSUME IInv, [Next]_vars PROVE IInv'
    OBVIOUS
  <2>1. CASE Begin \/ Step \/ KnownBranch \/ UnknownBranch \/ Call \/ TailCall \/ Return \/ Optimize \/ Retain
    BY <2>1, CompileKeeps
  <2>2. CASE Enter \/ RunStraight \/ RunBranch \/ RunInlined \/ RunCall \/ RunAgain \/ RunLoop \/ RunPrologue
    BY <2>2, RunKeeps
  <2>3. CASE UNCHANGED vars
    BY <2>3, StutterKeeps
  <2> QED BY <2>1, <2>2, <2>3 DEF Next
<1> QED BY <1>1, <1>2, PTL DEF Spec

\* What is known of an argument is only ever taken back: a value that is given
\* up is not come back to, and a function that is needed stays needed.
FactsFall ==
  /\ needed \subseteq needed'
  /\ \A f \in Functions : \A i \in 1 .. Arity(f) : facts[f][i] # Unreached => Admits(facts'[f][i], facts[f][i])

THEOREM FactsOnlyFall == Spec => [][FactsFall]_vars
<1>1. ASSUME IInv, [Next]_vars PROVE FactsFall
  <2>1. CASE facts' = facts /\ needed' = needed
    BY <2>1 DEF FactsFall, Admits
  <2>2. ASSUME NEW made, CallsFit(made.calls), Publish(made) PROVE FactsFall
    <3>1. facts' = Joined(made.calls) /\ needed \subseteq needed'
      BY <2>2 DEF Publish
    <3>2. \A f \in Functions : \A i \in 1 .. Arity(f) :
            facts[f][i] # Unreached => Admits(Joined(made.calls)[f][i], facts[f][i])
      BY <1>1, <2>2, JoinedIs DEF IInv
    <3> QED BY <3>1, <3>2 DEF FactsFall
  <2>3. CASE Optimize
    <3>1. PICK j, m : j = job /\ m = [optimized |-> TRUE, astray |-> j.astray, nodes |-> j.nodes, loop |-> j.loop, calls |-> j.calls]
      OBVIOUS
    <3>2. Publish(m) /\ Ended(j)
      BY <1>1, <2>3, <3>1 DEF IInv, Optimize, JobInv, JobFit
    <3>3. CallsFit(m.calls)
      BY <3>1, <3>2 DEF Ended
    <3> QED BY <2>2, <3>2, <3>3
  <2>4. CASE Retain
    <3>1. PICK m : m = Retained(job.f)
      OBVIOUS
    <3>2. job.f \in Functions /\ program \in Programs /\ Publish(m)
      BY <1>1, <2>4, <3>1 DEF IInv, Retain, JobInv, WorkInv
    <3>3. Callees(job.f) \subseteq Functions
      BY <3>2, CalleesTyped
    <3>4. m.calls = {[to |-> g, facts |-> [i \in 1 .. Arity(g) |-> Unknown]] : g \in Callees(job.f)}
      BY <3>1 DEF Retained
    <3>5. CallsFit(m.calls)
      BY <3>3, <3>4, FactsFinite DEF CallsFit
    <3> QED BY <2>2, <3>2, <3>5
  <2>5. CASE Begin \/ Step \/ KnownBranch \/ UnknownBranch \/ Call \/ TailCall \/ Return
    BY <2>1, <2>5 DEF Begin, Step, KnownBranch, UnknownBranch, Call, TailCall, Return, Walk
  <2>6. CASE Enter \/ RunStraight \/ RunBranch \/ RunInlined \/ RunCall \/ RunAgain \/ RunLoop \/ RunPrologue
    BY <2>1, <2>6 DEF Enter, RunStraight, RunBranch, RunInlined, RunCall, RunAgain, RunLoop, RunPrologue, Run
  <2>7. CASE UNCHANGED vars
    BY <2>1, <2>7 DEF vars
  <2> QED BY <1>1, <2>3, <2>4, <2>5, <2>6, <2>7 DEF Next
<1>2. IInv /\ [Next]_vars => [FactsFall]_vars
  BY <1>1
<1> QED BY <1>2, OptimizerInvariant, PTL DEF Spec

\* A node that is followed stands for what the program is in.
LEMMA FollowedIs ==
  ASSUME program \in Programs, NEW q, NEW m, Follows(q, m), NEW x, x = q.x, Fit(x, Consts), NEW n, n = m.nodes[q.at]
  PROVE  /\ n.x.pc = x.pc /\ n.x.conts = x.conts
         /\ Values(n.x.a, q) = Plain(x.a) /\ Values(n.x.c, q) = Plain(x.c)
<1>1. PICK S : n.x \in Contexts(S)
  BY DEF Follows
<1>2. n.x.pc = x.pc /\ n.x.conts = x.conts /\ Alike(n.x.a, x.a, q) /\ Alike(n.x.c, x.c, q)
  BY DEF Follows, AgreesWith
<1>3. x.a \in Seq(Consts) /\ x.c \in Seq(Consts)
  BY FitParts
<1>4. n.x.a \in Seq(S) /\ n.x.c \in Seq(S)
  BY <1>1, ContextParts
<1> QED BY <1>2, <1>3, <1>4, AlikeIs

\* A function that was optimized does what the program does, step by step,
\* unless its walk went astray: where the code does something for the program,
\* and, when it jumps back, where it comes to the loop again, deciding as before
\* on the way and ending nowhere.
THEOREM OptimizedIsSame == Spec => []SameUnlessAstray
<1>1. ASSUME IInv PROVE SameUnlessAstray
  <2> SUFFICES ASSUME Running, ~Made.astray, run.at # 0 PROVE Agrees
    BY DEF SameUnlessAstray, Agrees
  <2>1. PICK r, m, n, x : r = run /\ m = code[run.f] /\ n = m.nodes[r.at] /\ x = r.x
    OBVIOUS
  <2>2. ~m.astray /\ r.at # 0 /\ Node = n /\ Made = m
    BY <2>1 DEF Made, Node
  <2>3. (~r.back => RunNow(r, m)) /\ (r.back => BackNow(r, m))
    BY <1>1, <2>1, RunningIs DEF IInv
  <2>4. CASE ~r.back
    <3>1. program \in Programs /\ Fit(x, Consts)
      BY <2>1, <2>3, <2>4 DEF RunNow, RunFit
    <3>2. Follows(r, m) /\ Doing(n, m.loop, m.calls, m.astray, r.f)
      BY <2>1, <2>2, <2>3, <2>4, NodeIs
    <3>3. n.x.pc = x.pc /\ n.x.conts = x.conts /\ Values(n.x.a, r) = Plain(x.a) /\ Values(n.x.c, r) = Plain(x.c)
      BY <2>1, <3>1, <3>2, FollowedIs
    <3>4. n.does \in {"tail", "return"} => x.conts = <<>>
      BY <2>2, <3>2, <3>3 DEF Doing
    <3>5. Standing = n
      BY <2>1, <2>2, <2>4 DEF Standing
    <3> QED BY <2>1, <2>2, <2>4, <3>3, <3>4, <3>5 DEF Agrees
  <2>5. CASE r.back
    <3>1. program \in Programs /\ BackFit(r, m)
      BY <2>3, <2>5 DEF BackNow
    <3>2. PICK q, W : /\ q = RunIs(r.f, m.loop.at, r.x, r.back, r.input, r.home, r.result) /\ RunFit(q, m)
                      /\ Way(W, q, m) /\ r.at \in W
      BY <2>2, <3>1 DEF BackFit
    <3>3. q.at = m.loop.at /\ q.x = x /\ q.input = r.input /\ q.home = r.home /\ q.result = r.result
      BY <2>1, <3>2, RunIsParts
    <3>4. n.does \in Leading /\ r.at < m.loop.at
      <4>1. Mark(q, m) = m.loop.at
        BY <3>3 DEF Mark
      <4> QED BY <2>1, <3>2, <4>1 DEF Way
    <3>5. m.loop.at # 0
      <4>1. m.loop.at \in 0 .. Len(m.nodes) /\ r.at \in 1 .. Len(m.nodes)
        BY <3>1, <3>2, <3>3 DEF RunFit, BackFit
      <4> QED BY <3>4, <4>1
    <3>6. Follows(q, m) /\ Fit(x, Consts)
      BY <2>2, <3>2, <3>3, <3>5 DEF RunFit
    <3>7. PICK e : e = m.nodes[m.loop.at]
      OBVIOUS
    <3>8. e.x.pc = x.pc /\ e.x.conts = x.conts /\ Values(e.x.a, q) = Plain(x.a) /\ Values(e.x.c, q) = Plain(x.c)
      BY <3>1, <3>3, <3>6, <3>7, FollowedIs
    <3>9. \A v : Values(v, q) = Values(v, r)
      <4>1. \A v : ValueOf(v, q) = ValueOf(v, r)
        BY <3>3, SameValues
      <4> QED BY <4>1 DEF Values
    <3>10. Standing = e
      BY <2>1, <2>2, <2>5, <3>7 DEF Standing
    <3>11. n.does \notin {"tail", "return"}
      BY <3>4 DEF Leading
    <3> QED BY <2>1, <2>2, <3>4, <3>8, <3>9, <3>10, <3>11 DEF Agrees
  <2> QED BY <2>4, <2>5
<1>2. IInv => SameUnlessAstray
  BY <1>1
<1> QED BY <1>2, OptimizerInvariant, PTL

\* Whatever a function is called with, from code that was made or kept, is
\* what its own code was made for.
THEOREM ArgumentsAreForeseen == Spec => []ArgumentsForeseen
<1>1. ASSUME IInv PROVE ArgumentsForeseen
  <2> SUFFICES ASSUME On({"call", "tail", "kept"}), Here.op \in {"call", "tail"}
               PROVE  /\ Here.arg \in needed
                      /\ LET v == TopOf(run.x.a, Arity(Here.arg))
                         IN  \A i \in DOMAIN v : Admits(facts[Here.arg][i], v[i].n)
    BY DEF ArgumentsForeseen, Calling
  <2>1. PICK r, m, n, x, D : r = run /\ m = code[run.f] /\ n = m.nodes[r.at] /\ x = r.x /\ D = {"call", "tail", "kept"}
    OBVIOUS
  <2>2. RunNow(r, m) /\ Running
    <3>1. Running /\ ~run.back
      BY DEF On
    <3> QED BY <1>1, <2>1, <3>1, RunningIs DEF IInv
  <2>3. /\ r.at # 0 => /\ n.does \in D /\ n.x.pc = x.pc /\ Values(n.x.a, r) = Plain(x.a)
        /\ Here = At(x.pc) /\ Fit(x, Consts) /\ program \in Programs
    <3>1. On(D)
      BY <2>1
    <3> QED BY <2>1, <2>2, <3>1, OnIs
  <2>4. PICK g, v : g = Here.arg /\ v = TopOf(x.a, Arity(g))
    OBVIOUS
  <2>5. /\ g = At(x.pc).arg /\ At(x.pc).op \in {"call", "tail"} /\ g \in Functions /\ Arity(g) \in Nat /\ Arity(g) <= Len(x.a)
        /\ v \in Seq(Consts) /\ Len(v) = Arity(g) /\ g \in Callees(x.pc[1]) /\ x.a \in Seq(Consts)
    <3>1. g = At(x.pc).arg /\ At(x.pc).op \in {"call", "tail"}
      BY <2>3, <2>4
    <3> QED BY <2>3, <2>4, <3>1, PassedIs, FitParts
  <2>6. PICK k \in Nat : k = Arity(g)
    BY <2>5
  <2>7. \A c \in m.calls : Covered(c)
    BY <1>1, <2>1, <2>2 DEF IInv, WorkInv, RunNow
  <2>8. g \in needed /\ \A i \in 1 .. k : Admits(facts[g][i], v[i].n)
    <3>1. CASE r.at = 0
      <4>1. PICK c : c = [to |-> g, facts |-> [i \in 1 .. Arity(g) |-> Unknown]]
        OBVIOUS
      <4>2. c \in m.calls
        BY <2>1, <2>2, <2>5, <3>1, <4>1 DEF RunNow, RunFit, CodeFit
      <4>3. g \in needed /\ \A i \in 1 .. k : facts[g][i] = Unknown
        BY <2>6, <2>7, <4>1, <4>2 DEF Covered, Admits
      <4> QED BY <4>3 DEF Admits
    <3>2. CASE r.at # 0
      <4>1. n.does \in {"call", "tail"} /\ n \in Nodes /\ Doing(n, m.loop, m.calls, m.astray, r.f)
        <5>1. n \in Nodes /\ Doing(n, m.loop, m.calls, m.astray, r.f)
          BY <2>1, <2>2, <3>2, NodeIs
        <5>2. n.does # "kept"
          BY <5>1 DEF Nodes, Kinds
        <5> QED BY <2>1, <2>3, <3>2, <5>1, <5>2
      <4>2. PICK t : t = TopOf(n.x.a, Arity(g))
        OBVIOUS
      <4>3. Claim(g, t) \in m.calls
        BY <2>3, <2>5, <3>2, <4>1, <4>2 DEF Doing, Passing
      <4>4. g \in needed /\ \A i \in 1 .. k : facts[g][i] = Unknown \/ facts[g][i] = Fact(t[i])
        BY <2>6, <2>7, <4>3 DEF Covered, Claim, Admits
      <4>5. n.x.a \in Seq(Value)
        <5>1. n.x \in Contexts(Value)
          BY <4>1 DEF Nodes
        <5> QED BY <5>1, ContextParts
      <4>6. Alike(n.x.a, x.a, r)
        BY <2>3, <2>5, <3>2, <4>5, AlikeIs
      <4>7. Alike(t, v, r)
        <5>1. k <= Len(n.x.a)
          BY <2>5, <2>6, <4>6 DEF Alike
        <5>2. Alike(TopOf(n.x.a, k), TopOf(x.a, k), r)
          BY <2>5, <4>5, <4>6, <5>1, AlikeKeep
        <5> QED BY <2>4, <2>6, <4>2, <5>2
      <4>8. \A i \in 1 .. k : ValueOf(t[i], r) = v[i].n
        BY <2>5, <2>6, <4>7 DEF Alike
      <4>9. ASSUME NEW i \in 1 .. k, Fact(t[i]) # Unknown PROVE Fact(t[i]) = v[i].n
        BY <4>8, <4>9 DEF Fact, IsConst, ValueOf
      <4> QED BY <4>4, <4>9 DEF Admits
    <3> QED BY <3>1, <3>2
  <2>9. DOMAIN v = 1 .. k
    BY <2>5, <2>6
  <2> QED BY <2>1, <2>4, <2>8, <2>9
<1>2. IInv => ArgumentsForeseen
  BY <1>1
<1> QED BY <1>2, OptimizerInvariant, PTL

=============================================================================
