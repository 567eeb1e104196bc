-------------------------------- MODULE Versions --------------------------------
(***************************************************************************)
(* How the residualizer (residualize.c) decides which copies of a block it *)
(* compiles, and the threaded tape (threaded_emit.c) it writes them on.    *)
(* A version is a block together with the context it is compiled for: what *)
(* is known of the cells and where they are, the callers that are compiled *)
(* into it, and how much stack is known to be free.  An edge looks for a   *)
(* version that accepts its context and makes one if there is none; a      *)
(* block that has almost as many as it may have is given a generic one,    *)
(* with every cell in its home.  Versions are compiled in the order they   *)
(* were made, eagerly; a published tape has every target patched.          *)
(*                                                                         *)
(* A program is given, and an activation has one cell, on C, which its     *)
(* instructions replace; Placement has what they do to values.             *)
(***************************************************************************)
EXTENDS Naturals, Sequences, FiniteSets, SequencesExt

CONSTANTS
  Programs,    \* [code, functions]: instructions, and what each function covers
  Limit,       \* ABC_EXECUTION_VERSION_LIMIT
  Registers

ASSUME LimitAssumption == Limit \in Nat /\ Limit >= 2
ASSUME RegistersAssumption == Registers \in Nat \ {0}

\* What the loader and the verifier guarantee: nothing leads out of the code or
\* runs off its end, calls name functions, no two functions begin at one place.
Ops == {"const", "load", "use", "add", "jump", "branch", "call", "ret", "tail"}
ASSUME ProgramsAssumption ==
  \A p \in Programs :
    /\ p.code \in Seq([op : Ops, arg : Nat])
    /\ p.functions \in Seq([entry : Nat, end : Nat, height : Nat \ {0}])
    /\ \A f \in DOMAIN p.functions : p.functions[f].entry \in DOMAIN p.code
    /\ \A f, g \in DOMAIN p.functions : p.functions[f].entry = p.functions[g].entry => f = g
    /\ \A pc \in DOMAIN p.code :
         /\ p.code[pc].op \notin {"jump", "ret", "tail"} => pc + 1 \in DOMAIN p.code
         /\ p.code[pc].op \in {"jump", "branch"} => p.code[pc].arg \in DOMAIN p.code
         /\ p.code[pc].op \in {"call", "tail"} => p.code[pc].arg \in DOMAIN p.functions

VARIABLES
  program,
  c,     \* the compiler: versions, how many are compiled, labels, tape, status
  at,    \* the version being compiled, the pc and the context there
  run    \* the version a thread is in, and the room that is known to be free

vars == <<program, c, at, run>>

Code      == program.code
Functions == program.functions
Entry(f)  == Functions[f].entry
FunctionOf(pc) == CHOOSE f \in DOMAIN Functions : pc \in Functions[f].entry .. Functions[f].end

(* The program *)

Calls(f) == {Code[pc].arg : pc \in {q \in Functions[f].entry .. Functions[f].end : Code[q].op \in {"call", "tail"}}}

\* The functions that are called within n steps.
Reached(f) ==
  LET within[n \in Nat] == IF n = 0 THEN Calls(f)
                           ELSE within[n - 1] \union UNION {Calls(g) : g \in within[n - 1]}
  IN  within[Len(Functions)]
Recursive(f) == f \in Reached(f)

Block ==
  {Entry(f) : f \in DOMAIN Functions}
    \union {Code[pc].arg : pc \in {q \in DOMAIN Code : Code[q].op \in {"branch", "jump"}}}
    \union {pc + 1 : pc \in {q \in DOMAIN Code : Code[q].op \in {"branch", "call"}}}

(* Contexts *)

\* `rest` is what the descriptor of a register still says of the constant or
\* the home it was loaded from; it takes part in the comparison of contexts.
Nothing  == 0
WasHome  == 100
Const(k) == [kind |-> "const", at |-> 0, rest |-> k]
Reg(r)   == [kind |-> "reg", at |-> r, rest |-> Nothing]
Home     == [kind |-> "home", at |-> 0, rest |-> WasHome]

EntryContext(f, cell) ==
  [cells |-> <<cell>>, cont |-> <<>>, room |-> Functions[f].height - 1, generic |-> FALSE]

Users(x, r) == {i \in DOMAIN x.cells : x.cells[i].kind = "reg" /\ x.cells[i].at = r}
Lowest(rs)  == CHOOSE r \in rs : \A q \in rs : r <= q
Free(x)     == Lowest(LET idle == {r \in 0 .. Registers - 1 : Users(x, r) = {}}
                      IN  IF idle # {} THEN idle ELSE 0 .. Registers - 1)
Spilled(x, r) == [x EXCEPT !.cells = [i \in DOMAIN @ |-> IF i \in Users(x, r) THEN Home ELSE @[i]]]

SetCell(x, i, d) == [x EXCEPT !.cells = [n \in DOMAIN @ |-> IF n = i THEN d ELSE @[n]]]
InRegister(d, r) == [kind |-> "reg", at |-> r, rest |-> d.rest]
Materialized(x, i) ==
  IF x.cells[i].kind = "reg" THEN x
  ELSE SetCell(Spilled(x, Free(x)), i, InRegister(x.cells[i], Free(x)))
Known(x) == \E i \in DOMAIN x.cells : x.cells[i].kind = "const"

\* Mutant: the descriptor keeps the constant it was loaded from.
PlaceForgotten(x, i) == Materialized(x, i)
\* The cell is in a register that tells nothing of the constant it was.
Forgotten(x, i) == SetCell(Materialized(x, i), i, Reg(Free(x)))

\* No constant is left; they are materialized one after the other.
Weakened(x) ==
  LET upto[i \in 0 .. Len(x.cells)] ==
        IF i = 0 THEN x
        ELSE IF upto[i - 1].cells[i].kind = "const" THEN Forgotten(upto[i - 1], i) ELSE upto[i - 1]
  IN  upto[Len(x.cells)]

Conformed(x) == [x EXCEPT !.cells = [i \in DOMAIN @ |-> Home], !.room = 0, !.generic = TRUE]
Flushed(x)   == [x EXCEPT !.cells = [i \in DOMAIN @ |-> IF @[i].kind = "const" THEN @[i] ELSE Home]]

SameFamily(x, y)  == Len(x.cells) = Len(y.cells) /\ x.cont = y.cont
\* Mutant: constants are not compared.
SamePlaces(x, y) ==
  /\ SameFamily(x, y) /\ x.generic = y.generic
  /\ \A i \in DOMAIN x.cells : x.cells[i].kind = y.cells[i].kind /\ x.cells[i].at = y.cells[i].at
SameContext(x, y) == x.cells = y.cells /\ x.cont = y.cont /\ x.generic = y.generic
Canonical(x)      == x.generic /\ \A i \in DOMAIN x.cells : x.cells[i] = Home
SameGeneric(x, y) == Canonical(x) /\ Canonical(y) /\ SameFamily(x, y)

(* Versions *)

\* Mutant: the room a version relies on is not compared.
AcceptsRoomless(v, x) == SameGeneric(v, x) \/ SameContext(v, x)
Accepts(v, x) == SameGeneric(v, x) \/ (SameContext(v, x) /\ x.room >= v.room)
Versions(k, pc)  == {i \in DOMAIN k.versions : k.versions[i].pc = pc}
Family(k, pc, x) == {i \in Versions(k, pc) : SameFamily(k.versions[i].in, x)}
Accepting(k, pc, x) == {i \in Versions(k, pc) : Accepts(k.versions[i].in, x)}
Latest(is) == CHOOSE i \in is : \A j \in is : j <= i

\* Mutant: one version too many.
RefusedLate(k, pc, x) == Cardinality(Family(k, pc, x)) > Limit
Refused(k, pc, x) == Cardinality(Family(k, pc, x)) >= Limit

\* r is the compiler and the version that was asked for, 0 if it was refused.
VersionFor(k, pc, x) ==
  IF Accepting(k, pc, x) # {} THEN [c |-> k, v |-> Latest(Accepting(k, pc, x))]
  ELSE IF Refused(k, pc, x) THEN [c |-> [k EXCEPT !.status = "refused"], v |-> 0]
  ELSE [c |-> [k EXCEPT !.versions = Append(@, [pc |-> pc, in |-> x, label |-> Len(k.labels) + 1]),
                        !.labels = Append(@, 0)],
        v |-> Len(k.versions) + 1]

\* Mutant: the last version is not kept for the generic context.
FullLate(k, pc, x) == Cardinality(Family(k, pc, x)) >= Limit
Full(k, pc, x) == Cardinality(Family(k, pc, x)) >= Limit - 1
EdgeContext(k, from, to, x) ==
  LET w == IF to <= from THEN Weakened(x) ELSE x IN IF Full(k, to, w) THEN Conformed(w) ELSE w
EmitsCode(k, from, to, x) == (to <= from /\ Known(x)) \/ Full(k, to, x)

(* The tape *)

\* A word of the version that is compiled.  `edge` is of the words that lead to
\* a version: from where, the context it leaves with and the one it had before.
NoContext == [cells |-> <<>>, cont |-> <<>>, room |-> 0, generic |-> FALSE]
NoEdge    == [to |-> 0, from |-> 0, was |-> NoContext, sent |-> NoContext]
Word(op, label, cells, edge) ==
  [op |-> op, of |-> at.v, label |-> label, target |-> 0, cells |-> cells, edge |-> edge]
Plain(op) == Word(op, 0, 0, NoEdge)
Emitted(k, word) == [k EXCEPT !.tape = Append(@, word)]
\* Mutant: a label is bound to the word before it.
BoundEarly(k, label) == [k EXCEPT !.labels[label] = Len(k.tape)]
Bound(k, label) == [k EXCEPT !.labels[label] = Len(k.tape) + 1]

\* A word that leads to version v.
Leading(k, op, v, from, to, was, sent) ==
  IF k.status # "compiling" THEN k
  ELSE Emitted(k, Word(op, k.versions[v].label, 0, [to |-> to, from |-> from, was |-> was, sent |-> sent]))

Edge(k, op, from, to, x) ==
  LET sent == EdgeContext(k, from, to, x)
      r    == VersionFor(k, to, sent)
  IN  IF k.status # "compiling" THEN k ELSE Leading(r.c, op, r.v, from, to, x, sent)

Leads(w) == w.op \in {"jump", "branch", "call"}
Jumps == {i \in DOMAIN c.tape : Leads(c.tape[i])}

(* Compiling a version *)

Idle == [v |-> 0, pc |-> 0, x |-> NoContext, fresh |-> FALSE]
Instruction == Code[at.pc]
Next1 == at.pc + 1

\* An instruction is only reached in the middle of a version if no block
\* begins there.
Compiling(op) ==
  /\ c.status = "compiling" /\ at # Idle
  /\ at.fresh \/ at.pc \notin Block
  /\ Instruction.op = op

Goes(k, x) == c' = k /\ at' = [at EXCEPT !.pc = Next1, !.x = x, !.fresh = FALSE] /\ UNCHANGED <<program, run>>
Ends(k)    == c' = k /\ at' = Idle /\ UNCHANGED <<program, run>>

Top(x) == Len(x.cells)
SetTop(x, d) == SetCell(x, Top(x), d)

\* CSET of a literal.
Literal == Compiling("const") /\ Goes(c, SetTop(at.x, Const(Instruction.arg)))

\* The result of a load is always in a register.
Load ==
  /\ Compiling("load")
  /\ LET r == Free(at.x) IN Goes(Emitted(c, Plain("code")), SetTop(Spilled(at.x, r), Reg(r)))

\* An operand of C that an instruction reads, where the other one is not known.
Use == Compiling("use") /\ Goes(Emitted(c, Plain("code")), Materialized(at.x, Top(at.x)))

\* A known operand is computed with while compiling.
Add ==
  /\ Compiling("add")
  /\ LET d == at.x.cells[Top(at.x)]
     IN  IF d.kind = "const" THEN Goes(c, SetTop(at.x, Const((d.rest + 1) % WasHome)))
         ELSE Goes(Emitted(c, Plain("code")), Materialized(at.x, Top(at.x)))

Jump == Compiling("jump") /\ Ends(Edge(c, "jump", at.pc, Instruction.arg, at.x))

\* A block begins here, so the version ends with an edge to it.
Fallthrough ==
  /\ c.status = "compiling" /\ at # Idle
  /\ ~at.fresh /\ at.pc \in Block
  /\ Ends(Edge(c, "jump", at.pc - 1, at.pc, at.x))

\* Both arms leave before the comparison, or each after it if it must move
\* cells that are not where they can stay: then the arm that is not taken
\* comes first, and a local label is where the other begins.
SpillsOnly(x) == \A i \in DOMAIN x.cells : x.cells[i].kind # "const"
Split(to) == (EmitsCode(c, at.pc, to, at.x) \/ EmitsCode(c, at.pc, Next1, at.x)) /\ ~SpillsOnly(at.x)

Branch ==
  /\ Compiling("branch")
  /\ LET to    == Instruction.arg
         local == Len(c.labels) + 1
         skip  == Emitted([c EXCEPT !.labels = Append(@, 0)], Word("local", local, 0, NoEdge))
         other == Edge(skip, "jump", at.pc, Next1, at.x)
     IN  Ends(IF to = Next1 THEN Edge(c, "jump", at.pc, to, at.x)
              ELSE IF Split(to) THEN Edge(Bound(other, local), "jump", at.pc, to, at.x)
              ELSE Edge(Edge(c, "branch", at.pc, to, at.x), "jump", at.pc, Next1, at.x))

\* A guard is emitted unless the room is known.
Roomy(k, x, cells) == IF cells <= x.room THEN k ELSE Emitted(k, Word("guard", 0, cells, NoEdge))
Ensured(x, cells)  == IF cells <= x.room THEN x ELSE [x EXCEPT !.room = cells]

Frame(f) == [return |-> Next1, entry |-> Entry(f)]
Inlined(f, x) ==
  LET made == {c.versions[i].in.cont : i \in Versions(c, Entry(f))}
  IN  /\ ~Recursive(f) /\ FunctionOf(at.pc) # f
      /\ \A i \in DOMAIN x.cont : x.cont[i].entry # Entry(f)
      /\ Append(x.cont, Frame(f)) \in made \/ Cardinality(made) < Limit

\* The argument is a copy of the cell; a home is captured in a register.
Argument(x) ==
  IF x.cells[Top(x)].kind # "home" THEN [x |-> x, d |-> x.cells[Top(x)]]
  ELSE [x |-> Spilled(x, Free(x)), d |-> InRegister(Home, Free(x))]

\* Of the depth of C above the frame the activation began with.
Depth(x) == Len(x.cells) - 1

VirtualCall ==
  /\ Compiling("call")
  /\ LET f == Instruction.arg
         y == Ensured(at.x, Depth(at.x) + Functions[f].height)
         a == Argument(y)
     IN  /\ Inlined(f, at.x)
         /\ Ends(Edge(Roomy(c, at.x, Depth(at.x) + Functions[f].height), "jump", at.pc, Entry(f),
                      [a.x EXCEPT !.cells = Append(@, a.d), !.cont = Append(@, Frame(f))]))

\* A recursive callee takes its argument in a register, and is asked for with
\* no regard to how many versions it has.
RealCall ==
  /\ Compiling("call")
  /\ LET f     == Instruction.arg
         cells == Depth(at.x) + 1 + Functions[f].height
         k     == Roomy(c, at.x, cells)
         sent  == EntryContext(f, IF Recursive(f) THEN Reg(0) ELSE Home)
         r     == IF Recursive(f) THEN VersionFor(k, Entry(f), sent) ELSE [c |-> k, v |-> f]
     IN  /\ ~Inlined(f, at.x)
         /\ Goes(Leading(r.c, "call", r.v, at.pc, Entry(f), sent, sent), Flushed(Ensured(at.x, cells)))

Return ==
  /\ Compiling("ret")
  /\ LET x == at.x
     IN  IF x.cont = <<>> THEN Ends(Emitted(c, Plain("return")))
         ELSE Ends(Edge(c, "jump", at.pc, x.cont[Len(x.cont)].return,
                        [x EXCEPT !.cells = Front(@), !.cont = Front(@)]))

TailCall ==
  /\ Compiling("tail")
  /\ LET f == Instruction.arg
         y == Ensured(at.x, Depth(at.x) + Functions[f].height - 1)
         a == Argument(y)
     IN  Ends(Edge(Roomy(c, at.x, Depth(at.x) + Functions[f].height - 1), "jump", at.pc, Entry(f), SetTop(a.x, a.d)))

\* The next version in the queue is bound to where its code will be.
Compile ==
  /\ c.status = "compiling" /\ at = Idle /\ c.head < Len(c.versions)
  /\ LET v == c.head + 1
     IN  /\ c' = [Bound(c, c.versions[v].label) EXCEPT !.head = v]
         /\ at' = [v |-> v, pc |-> c.versions[v].pc, x |-> c.versions[v].in, fresh |-> TRUE]
  /\ UNCHANGED <<program, run>>

Patched(w) == IF w.label = 0 THEN w ELSE [w EXCEPT !.target = c.labels[w.label]]
\* Every label is looked at before the first target is patched.
Publish ==
  /\ c.status = "compiling" /\ at = Idle /\ c.head = Len(c.versions)
  /\ c' = IF \E i \in DOMAIN c.tape : c.tape[i].label # 0 /\ c.labels[c.tape[i].label] \notin DOMAIN c.tape
          THEN [c EXCEPT !.status = "unbound"]
          ELSE [c EXCEPT !.status = "published", !.tape = [i \in DOMAIN @ |-> Patched(@[i])]]
  /\ UNCHANGED <<program, at, run>>

(* Running what was published *)

Led(i) == CHOOSE v \in DOMAIN c.versions : c.versions[v].label = c.tape[i].label

\* A function is entered by the host, which has looked for the room it takes.
Enter ==
  /\ c.status = "published" /\ run.v = 0
  /\ \E f \in DOMAIN Functions : run' = [v |-> f, room |-> Functions[f].height - 1]
  /\ UNCHANGED <<program, c, at>>

\* Guards on the way to word i make the room known; a callee is entered with
\* what its caller has looked for, and is above it.
Guarded(i) == {run.room} \union {c.tape[j].cells : j \in {n \in 1 .. i : c.tape[n].of = run.v /\ c.tape[n].op = "guard"}}
Follow ==
  /\ c.status = "published"
  /\ \E i \in Jumps :
       /\ c.tape[i].of = run.v
       /\ run' = [v |-> Led(i), room |-> IF c.tape[i].op = "call" THEN c.tape[i].edge.sent.room ELSE Max(Guarded(i))]
  /\ UNCHANGED <<program, c, at>>

\* Every function has an entry from the start, with its argument in its home.
Init ==
  /\ program \in Programs
  /\ c = [versions |-> [f \in DOMAIN Functions |-> [pc |-> Entry(f), in |-> EntryContext(f, Home), label |-> f]],
          labels |-> [f \in DOMAIN Functions |-> 0], head |-> 0, tape |-> <<>>, status |-> "compiling"]
  /\ at = Idle
  /\ run = [v |-> 0, room |-> 0]

Next ==
  \/ Compile \/ Fallthrough \/ Publish \/ Enter \/ Follow
  \/ Literal \/ Load \/ Use \/ Add \/ Jump \/ Branch
  \/ VirtualCall \/ RealCall \/ TailCall \/ Return

Spec == Init /\ [][Next]_vars

(* Properties *)

\* Code is only entered with every cell where it was compiled to find it, in the
\* callers it was compiled into, whichever version an edge was given.
JumpsAccepted ==
  \A i \in Jumps : LET v == c.versions[Led(i)]
                   IN  /\ v.pc = c.tape[i].edge.to
                       /\ v.in.cells = c.tape[i].edge.sent.cells /\ v.in.cont = c.tape[i].edge.sent.cont

\* No block has more versions for one set of callers than it may.
WithinLimit ==
  \A i \in DOMAIN c.versions : Cardinality(Family(c, c.versions[i].pc, c.versions[i].in)) <= Limit

\* A program that calls nothing recursively is never refused, however many
\* contexts reach a block.
RefusedForRecursion == c.status = "refused" => \E f \in DOMAIN Functions : Recursive(f)

\* A loop is not compiled for a constant: what a backward edge hands on neither
\* is one nor still says which one it was.
LoopsForget ==
  \A i \in Jumps : LET j == c.tape[i].edge
                   IN  c.tape[i].op # "call" /\ j.to <= j.from =>
                         \A n \in DOMAIN j.was.cells : j.was.cells[n].kind = "const" =>
                           /\ j.sent.cells[n].kind # "const"
                           /\ j.sent.cells[n].rest \in {Nothing, WasHome}

\* Publishing never finds a label that is unbound or at the end of the tape; a
\* tape that is published has every target patched to the first word of the
\* version, or of the arm, it means, and one that is not has none.
PublishedWhole ==
  /\ c.status # "unbound"
  /\ \A i \in DOMAIN c.tape :
       LET w == c.tape[i]
       IN  IF c.status # "published" \/ w.label = 0 THEN w.target = 0
           ELSE /\ w.target \in DOMAIN c.tape
                /\ c.tape[w.target].of = IF i \in Jumps THEN Led(i) ELSE w.of
                /\ i \in Jumps => w.target = 1 \/ c.tape[w.target - 1].of # c.tape[w.target].of

\* Code that relies on free stack only runs where that much was looked for.
RoomProven == run.v # 0 => run.room >= c.versions[run.v].in.room

\* The same of the versions that are not generic.
RoomProvenUnlessGeneric == run.v # 0 /\ ~c.versions[run.v].in.generic => RoomProven
=============================================================================
