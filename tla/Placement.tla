------------------------------- MODULE Placement -------------------------------
(***************************************************************************)
(* The symbolic machine (symbolic.c) driving the native and threaded sink  *)
(* (residualize.c).  While it compiles, the machine renames the operands:  *)
(* a cell is a constant, a register, or a home (a slot of the stack in     *)
(* memory), and knows the place its value is to have in memory.  A step is *)
(* one instruction: the renaming, and the loads, stores and moves the sink *)
(* emits for it, executed at once on the registers and the memory.  What   *)
(* no cell names is forgotten after every step, so that reading it shows.  *)
(*                                                                         *)
(* Calls are virtual (compiled into the caller) or real.  When they are    *)
(* which, when an edge goes backward, and when it must give up its         *)
(* placement, is free here; Versions decides it.                           *)
(***************************************************************************)
EXTENDS Integers, Sequences, FiniteSets

CONSTANTS
  Values, Op(_, _), MaxA, MaxB, MaxC, Arguments, MaxCalls, Quiet,
  MaxCells,     \* on the three stacks together, a bound of the instance
  MaxResults,   \* of a function that is called for real
  Registers,    \* of the emitter, ABC_THREADED_VALUE_REGISTERS
  Junk          \* what a place holds that nobody names

ASSUME RegistersAssumption == Registers \in Nat /\ Registers >= 2
ASSUME BoundsAssumption == {MaxA, MaxB, MaxC, Arguments, MaxCalls, MaxResults} \subseteq Nat
ASSUME OpAssumption == \A x, y \in Values : Op(x, y) \in Values

VARIABLES
  m,     \* the context of the symbolic machine, the registers and the memory
  out,   \* what the last instruction let the world see
  view,  \* what the cells of m stand for
  stale  \* a history: "none", or whose copied descriptor was the first to be
         \* used when its cell had it no longer, a "result" or an "operand"

vars == <<m, out, view, stale>>

Stacks   == {"A", "B", "C"}
Operands == {"A", "B"}
Other(s) == IF s = "A" THEN "B" ELSE "A"
Max(s)   == CASE s = "A" -> MaxA [] s = "B" -> MaxB [] s = "C" -> MaxC
Regs     == 0 .. Registers - 1

\* op over the elements of a sequence, first to last.
Over(op(_, _), k, us) ==
  LET f[i \in 0 .. Len(us)] == IF i = 0 THEN k ELSE op(f[i - 1], us[i]) IN f[Len(us)]
Count(n) == [i \in 1 .. n |-> i]

\* What a cell is, and where its value is to go.
Const(v, dst) == [kind |-> "const", at |-> v, dst |-> dst]
Reg(r, dst)   == [kind |-> "reg", at |-> r, dst |-> dst]
Home(p)       == [kind |-> "home", at |-> p, dst |-> p]
Aim(d, p)     == [d EXCEPT !.dst = p]

Depth(k, s)    == Len(k.cell[s])
Cell(k, u)     == k.cell[u[1]][u[2]]
SetCell(k, u, d) == [k EXCEPT !.cell[u[1]][u[2]] = d]
Under(k, s, n) == <<s, Depth(k, s) - n>>
TopOf(k, s)    == Under(k, s, 0)
PushCell(k, s, d) == [k EXCEPT !.cell[s] = Append(@, d)]
Cut(k, s, n)   == [k EXCEPT !.cell[s] = SubSeq(@, 1, n)]
PopCell(k, s)  == Cut(k, s, Depth(k, s) - 1)
Of(k, s)       == [i \in 1 .. Depth(k, s) |-> <<s, i>>]
Upward(k)      == Of(k, "A") \o Of(k, "B") \o Of(k, "C")
Downward(k)    == Of(k, "C") \o Of(k, "B") \o Of(k, "A")
Cells(k)       == UNION {{<<s, i>> : i \in 1 .. Depth(k, s)} : s \in Stacks}

\* c_bias and c_origin occur only in their difference, the offset.
Canonical(k, u) == IF u[1] = "C" THEN <<"C", k.offset + u[2] - 1>> ELSE <<u[1], u[2] - 1>>
Next(k, s)      == Canonical(k, <<s, Depth(k, s) + 1>>)

Read(k, p)   == IF p \in DOMAIN k.mem THEN k.mem[p] ELSE Junk
Put(k, p, v) == [k EXCEPT !.mem = [q \in DOMAIN @ \cup {p} |-> IF q = p THEN v ELSE @[q]]]
Denote(k, d) == CASE d.kind = "const" -> d.at
                  [] d.kind = "reg"   -> k.reg[d.at]
                  [] d.kind = "home"  -> Read(k, d.at)
Uses(k, r)   == {u \in Cells(k) : Cell(k, u).kind = "reg" /\ Cell(k, u).at = r}

View(k) == [s \in Stacks |-> [i \in 1 .. Depth(k, s) |-> Denote(k, k.cell[s][i])]]

Forget(k) ==
  LET named == {Cell(k, u).at : u \in {v \in Cells(k) : Cell(k, v).kind = "home"}}
  IN  [k EXCEPT !.reg = [r \in Regs |-> IF Uses(k, r) = {} THEN Junk ELSE @[r]],
                !.mem = [p \in named |-> Read(k, p)]]

(* Registers *)

\* Below, f is a context m and the register r that was made ready in it.

\* Every cell in the register goes home.
Spilled(k, r) ==
  Over(LAMBDA j, u : IF u \notin Uses(k, r) THEN j
                     ELSE SetCell(Put(j, Cell(k, u).dst, k.reg[r]), u, Home(Cell(k, u).dst)),
       k, Upward(k))

Lowest(rs)    == CHOOSE r \in rs : \A q \in rs : r <= q
Idle(k, mask) == {r \in Regs \ mask : Uses(k, r) = {}}
Emptied(k, r) == [m |-> Spilled(k, r), r |-> r]

\* A register outside the mask, emptied if none is free.
Free(k, mask) ==
  IF Idle(k, mask) # {} THEN [m |-> k, r |-> Lowest(Idle(k, mask))]
  ELSE Emptied(k, Lowest(Regs \ mask))

\* The value of a descriptor in a register; the load comes after the spills.
Loaded(f, d) == [f EXCEPT !.m.reg[f.r] = Denote(f.m, d)]
Materialized(k, d, mask) ==
  IF d.kind = "reg" THEN [m |-> k, r |-> d.at] ELSE Loaded(Free(k, mask), d)

Named(f, u) == [f EXCEPT !.m = SetCell(@, u, Reg(f.r, Cell(@, u).dst))]
MaterializedAt(k, u, mask) == Named(Materialized(k, Cell(k, u), mask), u)

\* The same in a register nothing else names.
Unshared(f, u) ==
  IF Cardinality(Uses(f.m, f.r)) = 1 THEN f
  ELSE Named(Loaded(Free(f.m, {f.r}), Cell(f.m, u)), u)
Writable(k, u) == Unshared(MaterializedAt(k, u, {}), u)

\* A home is read before its value is renamed.
InReg(f, dst) == [m |-> f.m, d |-> Reg(f.r, dst)]
Captured(k, d) ==
  IF d.kind # "home" THEN [m |-> k, d |-> d] ELSE InReg(Materialized(k, d, {}), d.dst)
CapturedAt(k, u) ==
  IF Cell(k, u).kind # "home" THEN k ELSE MaterializedAt(k, u, {}).m

(* Homes *)

Written(f, p) == Put(f.m, p, f.m.reg[f.r])
Saved(k, u) ==
  IF Cell(k, u) = Home(Cell(k, u).dst) THEN k
  ELSE Written(MaterializedAt(k, u, {}), Cell(k, u).dst)
Homed(k, u) == SetCell(Saved(k, u), u, Home(Cell(k, u).dst))
HomedTo(k, u, p) == Homed(SetCell(k, u, Aim(Cell(k, u), p)), u)

Flushed(k) ==
  Over(LAMBDA f, u : IF Cell(f, u).kind = "const" THEN f ELSE Homed(f, u), k, Downward(k))
Conformed(k) == Over(LAMBDA f, u : HomedTo(f, u, Canonical(f, u)), k, Downward(k))
Weakened(k) ==
  Over(LAMBDA f, u : IF Cell(f, u).kind = "const" THEN MaterializedAt(f, u, {}).m ELSE f,
       k, Upward(k))

\* An edge to a block: `backward` when its target is not after it, `full` when
\* the block has as many versions as it may.  Nothing else depends on the
\* direction once there is no constant left.
Capped(k, full) == IF full THEN Conformed(k) ELSE k
Edge(k, e) == Capped(IF e.backward THEN Weakened(k) ELSE k, e.full)

Known(k) == \E u \in Cells(k) : Cell(k, u).kind = "const"
Edges(k) == [backward : IF Known(k) THEN BOOLEAN ELSE {FALSE}, full : BOOLEAN]

EmitsCode(k, e) == e.full \/ (e.backward /\ Known(k))
SpillsOnly(k) ==
  \A u \in Cells(k) : \/ Cell(k, u).kind = "reg"
                      \/ Cell(k, u).kind = "home" /\ Cell(k, u).at = Canonical(k, u)

(* Instructions *)

Floor(s)  == IF m.cont = <<>> THEN 0 ELSE m.cont[Len(m.cont)].base[s]
Has(s, n) == Depth(m, s) - Floor(s) >= n
Size == Depth(m, "A") + Depth(m, "B") + Depth(m, "C")
Room(s, n) == Depth(m, s) + n <= Max(s) /\ Size + n <= MaxCells
Alone(me, n) == Depth(m, me) = Floor(me) + n /\ Depth(m, Other(me)) = Floor(Other(me))

Arrives(k) == m' = Forget(k) /\ view' = View(m')
Takes(k)   == Arrives(k) /\ stale' = stale
Becomes(k) == Takes(k) /\ out' = Quiet
Leaves(k) == \E e \in Edges(k) : Becomes(Edge(k, e))

Literal(s, v) == Room(s, 1) /\ Becomes(PushCell(m, s, Const(v, Next(m, s))))

\* From the frame, the globals, or an address that is computed.
Fresh(f, s, v) == PushCell([f.m EXCEPT !.reg[f.r] = v], s, Reg(f.r, Next(f.m, s)))
Load(s, v) == Room(s, 1) /\ Becomes(Fresh(Free(m, {}), s, v))

\* c is a context and the descriptor that was captured in it.
Renamed(c, s) == PushCell(c.m, s, Aim(c.d, Next(c.m, s)))
Transferred(k, from, to, consume) ==
  LET c == Captured(k, Cell(k, TopOf(k, from)))
  IN  Renamed(IF consume THEN [c EXCEPT !.m = PopCell(@, from)] ELSE c, to)

\* DUP, COPY, MOVE and CPUSH.
Transfer(from, to, consume) ==
  /\ Has(from, 1) /\ (IF consume THEN Depth(m, to) < Max(to) ELSE Room(to, 1))
  /\ (consume => from # to) /\ (to = "C" => consume)
  /\ Becomes(Transferred(m, from, to, consume))

Drop(s) == Has(s, 1) /\ Becomes(PopCell(m, s))

CGet(to, depth) ==
  /\ Has("C", depth + 1) /\ Room(to, 1)
  /\ Becomes(Renamed(Captured(m, Cell(m, Under(m, "C", depth))), to))

CSet(from, depth) ==
  /\ Has(from, 1) /\ Has("C", depth + 1)
  /\ LET u == Under(m, "C", depth)
     IN  \E c \in {Captured(m, Cell(m, TopOf(m, from)))} :
           Becomes(SetCell(PopCell(c.m, from), u, Aim(c.d, Cell(m, u).dst)))

\* The register w made ready, the operand of cell u, or the value v.
Into(w, o) == [o.m EXCEPT !.reg[w.r] = Op(@, o.m.reg[o.r])]
Computed(w, u) == Into(w, MaterializedAt(w.m, u, {w.r}))
ComputedWith(w, v) == [w.m EXCEPT !.reg[w.r] = Op(@, v)]

\* me := me op the operand at u; `folded` when both are known and the
\* operation is defined on them.
Folded(x, v) == SetCell(m, x, Const(Op(Cell(m, x).at, v), Cell(m, x).dst))
Combined(x, u, folded) == IF folded THEN Folded(x, Cell(m, u).at) ELSE Computed(Writable(m, x), u)
Foldable(u, v) == IF Cell(m, u).kind = "const" /\ Cell(m, v).kind = "const" THEN BOOLEAN ELSE {FALSE}

Binary(me) ==
  LET x == TopOf(m, me)
      u == TopOf(m, Other(me))
  IN  /\ Has(me, 1) /\ Has(Other(me), 1)
      /\ \E folded \in Foldable(x, u) : Becomes(PopCell(Combined(x, u, folded), Other(me)))

BinaryC(me, depth) ==
  LET x == TopOf(m, me)
      u == Under(m, "C", depth)
  IN  /\ Has(me, 1) /\ Has("C", depth + 1)
      /\ \E folded \in Foldable(x, u) : Becomes(Combined(x, u, folded))

Immediate(me, v) ==
  LET x == TopOf(m, me)
  IN  /\ Has(me, 1)
      /\ \E folded \in Foldable(x, x) :
           Becomes(IF folded THEN Folded(x, v) ELSE ComputedWith(Writable(m, x), v))

\* A range check that succeeds; a known value is checked while compiling.
Check(me) ==
  /\ Has(me, 1) /\ Cell(m, TopOf(m, me)).kind # "const"
  /\ Becomes(MaterializedAt(m, TopOf(m, me), {}).m)

(* Memory instructions work on copies of the operands' descriptors, taken
   before the first is materialized: that may spill the second one, whose
   register the copy still names. *)

Marks(spoilt, what) == stale' = IF spoilt /\ stale = "none" THEN what ELSE stale

Store(me) ==
  LET u == TopOf(m, Other(me))
  IN  /\ Has(me, 1) /\ Has(Other(me), 1)
      /\ \E a \in {Materialized(m, Cell(m, TopOf(m, me)), {})} :
         \E v \in {Materialized(a.m, Cell(m, u), {a.r})} :
           /\ Arrives(PopCell(PopCell(v.m, me), Other(me)))
           /\ out' = <<"store", v.m.reg[a.r], v.m.reg[v.r]>>
           /\ Marks(Cell(a.m, u) # Cell(m, u), "operand")

Index(me) ==
  LET u == TopOf(m, Other(me))
  IN  /\ Has(me, 1) /\ Has(Other(me), 1)
      /\ \E a \in {Writable(m, TopOf(m, me))} :
           /\ Arrives(PopCell(Into(a, Materialized(a.m, Cell(m, u), {a.r})), Other(me)))
           /\ out' = Quiet
           /\ Marks(Cell(a.m, u) # Cell(m, u), "operand")

(* Branches *)

\* The operands are popped, and one of the arms is taken.  Both leave from the
\* placement k: before the comparison when neither can disturb it, after it
\* otherwise.
Early(k, e, f) == ~(EmitsCode(k, e) \/ EmitsCode(k, f)) \/ SpillsOnly(k)

Arms(k, one, fallthrough) ==
  [one |-> one, two |-> Edge([k EXCEPT !.reg = one.reg, !.mem = one.mem], fallthrough)]

Branched(k, l, r, taken, fallthrough) ==
  IF Early(k, taken, fallthrough)
  THEN \E b \in {Arms(k, Edge(k, taken), fallthrough)} :
         LET goes == b.two.reg[l] = b.two.reg[r]
         IN  Takes(IF goes THEN [b.two EXCEPT !.cell = b.one.cell] ELSE b.two) /\ out' = <<"branch", goes>>
  ELSE LET goes == k.reg[l] = k.reg[r]
       IN  Takes(Edge(k, IF goes THEN taken ELSE fallthrough)) /\ out' = <<"branch", goes>>

\* Mutant: the register of the right operand is not held.
LiveNone(d) == {}
Live(d) == IF d.kind = "reg" THEN {d.at} ELSE {}

\* The arm that is not the target is the next instruction, never backward.
Decided(k, left, right) ==
  \E taken \in Edges(k), fallthrough \in {e \in Edges(k) : ~e.backward} :
    IF left.kind = "const" /\ right.kind = "const"
    THEN LET goes == left.at = right.at
         IN  Takes(Edge(k, IF goes THEN taken ELSE fallthrough)) /\ out' = <<"branch", goes>>
    ELSE \E l \in {Materialized(k, left, Live(right))} :
         \E r \in {Materialized(l.m, right, {l.r})} : Branched(r.m, l.r, r.r, taken, fallthrough)

Branch(me) ==
  /\ Has(me, 1) /\ Has(Other(me), 1)
  /\ Decided(PopCell(PopCell(m, me), Other(me)), Cell(m, TopOf(m, me)), Cell(m, TopOf(m, Other(me))))

Jump == Leaves(m)

(* Calls that are compiled into the caller *)

\* n operands of `me` go to C and a callee's frame begins after them.
Begins(k, origin) == [k EXCEPT !.offset = origin - Depth(k, "C")]
\* Mutant: the origin of C is not moved past the arguments.
EnteredAtOld(k, me, n) ==
  Begins(Over(LAMBDA g, i : Transferred(g, me, "C", TRUE), k, Count(n)), k.offset + Depth(k, "C"))
Entered(k, me, n) ==
  Begins(Over(LAMBDA g, i : Transferred(g, me, "C", TRUE), k, Count(n)), k.offset + Depth(k, "C") + n)

Call(me, n) ==
  LET floor == [s \in Stacks |-> Depth(m, s) - IF s = me THEN n ELSE 0]
  IN  /\ Has(me, n) /\ Depth(m, "C") + n <= MaxC /\ Len(m.cont) < MaxCalls
      /\ Leaves([Entered(m, me, n) EXCEPT
                   !.cont = Append(@, [base |-> floor, dst |-> me, offset |-> m.offset])])

\* Results that change stacks are captured where they are, and then handed
\* over one by one; capturing one may send one captured before it home again.
Gathered(k, from, base, n) == Over(CapturedAt, k, [i \in 1 .. n |-> <<from, base + i>>])
Handing(k, from, to, base, n) ==
  Over(LAMBDA j, i : Renamed([m |-> j, d |-> Cell(j, <<from, base + i>>)], to),
       Gathered(k, from, base, n), Count(n))
GoneHome(k, from, base, n) == \E i \in 1 .. n : Cell(Gathered(k, from, base, n), <<from, base + i>>).kind = "home"

Return(me, n) ==
  LET frame == m.cont[Len(m.cont)]
      base  == frame.base[me]
      k     == IF frame.dst = me THEN m ELSE Cut(Handing(m, me, frame.dst, base, n), me, base)
      x     == [Cut(k, "C", frame.base["C"]) EXCEPT !.offset = frame.offset, !.cont = SubSeq(@, 1, Len(@) - 1)]
  IN  /\ m.cont # <<>> /\ Alone(me, n)
      /\ frame.dst = me \/ Depth(m, frame.dst) + n <= Max(frame.dst)
      /\ \E e \in Edges(x) : Arrives(Edge(x, e))
      /\ out' = Quiet
      /\ Marks(frame.dst # me /\ GoneHome(m, me, base, n), "result")

TailCall(me, n) ==
  LET got == Over(CapturedAt, m, [i \in 1 .. n |-> <<me, Floor(me) + i>>])
  IN  /\ Alone(me, n) /\ Floor("C") + n <= MaxC
      /\ Leaves(Entered(Cut(got, "C", Floor("C")), me, n))

(* Calls that are not *)

Answer(arguments) == IF Len(arguments) = 1 THEN arguments[1] ELSE Op(arguments[1], arguments[2])
Callable(me, n, results) == Has(me, n) /\ Room(me, results - n)
Floors(k, me, n) == [s \in Operands |-> Depth(k, s) - IF s = me THEN n ELSE 0]

\* The callee has everything above the caller's live cells, and the registers.
\* A single result comes in register 0, others in memory.
Clobbered(k, me, base, answer, results) ==
  LET held == {p \in DOMAIN k.mem : p[2] < IF p[1] = "C" THEN Next(k, "C")[2] ELSE base[p[1]]}
      left == {<<me, base[me] + i - 1>> : i \in IF results = 1 THEN {} ELSE 1 .. results}
  IN  [k EXCEPT !.reg = [r \in Regs |-> IF r = 0 /\ results = 1 THEN answer ELSE Junk],
                !.mem = [p \in left \union held |-> IF p \in left THEN answer ELSE k.mem[p]],
                !.cell[me] = SubSeq(@, 1, base[me])]

Resumed(k, me, n, arguments, results) ==
  Over(LAMBDA f, i : PushCell(f, me, IF results = 1 THEN Reg(0, Next(f, me)) ELSE Home(Next(f, me))),
       Clobbered(k, me, Floors(k, me, n), Answer(arguments), results), Count(results))

\* The arguments in their homes.
Homes(k, me, n) ==
  Over(LAMBDA f, u : HomedTo(f, u, <<me, u[2] - 1>>), k,
       [i \in 1 .. n |-> <<me, Depth(k, me) - n + i>>])
HomesOf(k, me, n) == [j \in 1 .. n |-> Read(k, <<me, Depth(k, me) - n + j - 1>>)]

\* The callee reads its j-th argument j cells under the frame it is given.
FrameSlot(k, n, j) == <<"C", Next(k, "C")[2] + n - j + 1>>
FrameOf(k, n) == [j \in 1 .. n |-> Read(k, FrameSlot(k, n, j))]
Passed(k, me, n) ==
  Over(LAMBDA f, j : Written(MaterializedAt(f, Under(f, me, n - j), {}), FrameSlot(f, n, j)),
       k, Count(n))

RealCall(me, n, results) ==
  /\ Callable(me, n, results)
  /\ \E k \in {Flushed(Passed(m, me, n))} : Becomes(Resumed(k, me, n, FrameOf(k, n), results))

\* A recursive callee takes its argument in a register, if no other cell's home
\* is still to be moved.
Settled(k) == \A u \in Cells(k) : Cell(k, u).kind = "home" => Cell(k, u).at = Cell(k, u).dst
Detached(k, me, d) == PushCell(Flushed(PopCell(k, me)), me, d)

RecursiveCall(me, n, results) ==
  /\ Callable(me, n, results)
  /\ \E f \in {MaterializedAt(m, Under(m, me, n - 1), {})} :
       IF n = 1 /\ Settled(f.m)
       THEN \E k \in {Detached(f.m, me, Cell(f.m, TopOf(m, me)))} :
              Becomes(Resumed(k, me, 1, <<k.reg[f.r]>>, results))
       ELSE \E k \in {Flushed(Homes(IF n = 1 THEN f.m ELSE m, me, n))} :
              Becomes(Resumed(k, me, n, HomesOf(k, me, n), results))

IndirectCall(me, n, results) ==
  LET named == TopOf(m, Other(me))
  IN  /\ Has(Other(me), 1) /\ Callable(me, n, results)
      /\ \E k \in {Flushed(HomedTo(Homes(m, me, n), named, <<Other(me), named[2] - 1>>))} :
           Becomes(Resumed(PopCell(k, Other(me)), me, n, HomesOf(k, me, n), results))

ForeignCall(me, n, results) ==
  /\ Callable(me, n, results) /\ results <= 1
  /\ \E k \in {Flushed(Homes(m, me, n))} :
     LET p   == <<me, Depth(k, me) - n>>
         cut == Cut(k, me, p[2])
     IN  Becomes(IF results = 0 THEN cut
                 ELSE PushCell(Put(cut, p, Answer(HomesOf(k, me, n))), me, Home(p)))

\* The last return: the results of the function the host entered.
Finish(me, n) ==
  LET k == Over(LAMBDA f, u : Saved(SetCell(f, u, Aim(Cell(f, u), <<me, u[2] - 1>>)), u), m, Of(m, me))
  IN  /\ m.cont = <<>> /\ Alone(me, n)
      /\ Takes([m EXCEPT !.cell = [s \in Stacks |-> <<>>]])
      /\ \E f \in {IF n = 1 THEN MaterializedAt(m, <<me, 1>>, {}) ELSE [m |-> k, r |-> 0]} :
           out' = <<"results", IF n = 1 THEN <<f.m.reg[f.r]>> ELSE [i \in 1 .. n |-> Read(f.m, <<me, i - 1>>)]>>

Init ==
  /\ m \in {[cell   |-> [A |-> <<>>, B |-> <<>>, C |-> [i \in 1 .. Arguments |-> Home(<<"C", i - 1 - Arguments>>)]],
             cont   |-> <<>>, offset |-> -Arguments,
             reg    |-> [r \in Regs |-> Junk],
             mem    |-> [p \in {"C"} \X (-Arguments .. -1) |-> a[p[2] + Arguments + 1]]] :
              a \in [1 .. Arguments -> Values]}
  /\ out = Quiet
  /\ view = View(m)
  /\ stale = "none"

Step ==
  \/ \E s \in Operands :
       \/ \E v \in Values : Literal(s, v) \/ Load(s, v) \/ Immediate(s, v)
       \/ \E to \in Stacks, consume \in BOOLEAN : Transfer(s, to, consume)
       \/ \E depth \in 0 .. MaxC - 1 : CGet(s, depth) \/ CSet(s, depth) \/ BinaryC(s, depth)
       \/ Binary(s) \/ Check(s) \/ Store(s) \/ Index(s) \/ Branch(s)
       \/ \E n \in 0 .. Max(s) : Call(s, n) \/ Return(s, n) \/ TailCall(s, n) \/ Finish(s, n)
       \/ \E n \in 1 .. 2, results \in 1 .. MaxResults :
            \/ RealCall(s, n, results) \/ RecursiveCall(s, n, results)
            \/ IndirectCall(s, n, results) \/ ForeignCall(s, n, results)
  \/ \E s \in Stacks : Drop(s)
  \/ Jump

Spec == Init /\ [][Step]_vars

(* Properties *)

\* Every value on its way to memory is on its way to the one slot its position
\* on the stack has, across virtual calls, tail calls and returns, which move
\* C's origin; and a value that is in memory is there.  Nothing is said once a
\* result was renamed, or an operand read, by a copy that its cell had no longer.
InPlace ==
  stale # "none" \/
  \A u \in Cells(m) : /\ Cell(m, u).dst = Canonical(m, u)
                      /\ Cell(m, u).kind = "home" => Cell(m, u).at = Canonical(m, u)

A == INSTANCE Activations
       WITH stack  <- view,
            frames <- [i \in 1 .. Len(m.cont) |-> [base |-> m.cont[i].base, dst |-> m.cont[i].dst]]

\* Whatever is renamed, kept in registers, spilled or folded, and whichever
\* calls are compiled into their callers, the program sees the three stacks of
\* the activations it entered, and every branch, store and result is theirs,
\* until a step uses a copied descriptor that its cell has no longer.
StepsOfActivations == A!Start /\ [][stale' # "none" \/ A!Step]_(A!seen)

\* The same when only stores and array accesses are excused: results survive
\* the return that hands them to the other stack.
ResultsSurvive == A!Start /\ [][stale' = "operand" \/ A!Step]_(A!seen)
=============================================================================
