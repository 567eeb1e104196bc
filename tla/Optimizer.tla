------------------------------ MODULE Optimizer ------------------------------
(* The ABC-to-ABC optimizer of src/src/optimize.c.  A worklist compiles every  *)
(* function that a root needs, for what is known of its arguments: the symbolic*)
(* machine walks all paths of the function, in depth first order, while a sink *)
(* decides which calls are inlined, which stay, and which tail calls become    *)
(* jumps back.  What is left is a graph of nodes; a node is the symbolic state *)
(* before an instruction, and it stands for the code emitted there, if any.    *)
(*                                                                             *)
(* When the worklist is empty a function is run, in step with the program it   *)
(* was made from: the calls that stayed return any value, the same to both.    *)
(*                                                                             *)
(* Left out: stack B, memory, traps and the order of effects, which the values *)
(* do not depend on; the schedule of a graph into bytes, which may fail and so *)
(* may retain any function; the rewriting of a module's other sections.        *)
EXTENDS Integers, Sequences, FiniteSets, SequencesExt

CONSTANTS Programs,   \* records [fn, exports]; a function is [args, body, depth],
                      \* an instruction [op, arg], depth what the verifier found
                      \* on A at each of them; every function has one result
          Width,      \* values are 0 .. Width - 1
          PathLimit   \* ABC_OPTIMIZER_PATH_LIMIT

ASSUME WidthAssumption == Width \in Nat \ {0}
ASSUME LimitAssumption == PathLimit \in Nat \ {0}

(* What the verifier has made sure of: control stays in a body, operands are   *)
(* there, whichever way an instruction is come to, and a transfer that ends a  *)
(* function leaves nothing else.                                               *)
Instruction == [op : {"push", "get", "inc", "drop", "branch", "call", "tail", "ret"}, arg : Nat]
Needs(p, i) == CASE i.op \in {"push", "get"}                  -> 0
                 [] i.op \in {"inc", "drop", "branch", "ret"} -> 1
                 [] i.op \in {"call", "tail"}                 -> p.fn[i.arg].args
Gives(i)    == IF i.op \in {"push", "get", "inc", "call"} THEN 1 ELSE 0
Onto(i, at) == CASE i.op = "branch"          -> {at + 1, i.arg}
                 [] i.op \in {"tail", "ret"} -> {}
                 [] OTHER                    -> {at + 1}

Sound(p, g, at) ==
  LET i == g.body[at]
  IN  /\ i.op \in {"call", "tail"} => i.arg \in DOMAIN p.fn
      /\ i.op = "get"  => i.arg < g.args
      /\ i.op = "push" => i.arg < Width
      /\ Needs(p, i) <= g.depth[at] /\ (Onto(i, at) = {} => Needs(p, i) = g.depth[at])
      /\ \A to \in Onto(i, at) : to \in DOMAIN g.body /\ g.depth[to] = g.depth[at] - Needs(p, i) + Gives(i)

ASSUME ProgramsAssumption ==
  \A p \in Programs :
    /\ p.fn \in Seq([args : Nat, body : Seq(Instruction), depth : Seq(Nat)])
    /\ p.exports \subseteq DOMAIN p.fn
    /\ \A f \in DOMAIN p.fn :
         /\ p.fn[f].body # <<>> /\ Len(p.fn[f].depth) = Len(p.fn[f].body) /\ p.fn[f].depth[1] = 0
         /\ \A at \in DOMAIN p.fn[f].body : Sound(p, p.fn[f], at)

VARIABLES program,
          facts,      \* what is known of the arguments of each function
          needed,     \* functions that have facts
          dirty,      \* functions to be compiled, again
          code,       \* what was made of each function
          job,        \* the function being compiled, job.f = 0 when none is
          run         \* the function being run, run.f = 0 before it starts
vars == <<program, facts, needed, dirty, code, job, run>>

Unreached == -2
Unknown   == -1
Functions == 1 .. Len(program.fn)
Arity(f)  == program.fn[f].args
Entry(f)  == <<f, 1>>
After(pc) == <<pc[1], pc[2] + 1>>
At(pc)    == program.fn[pc[1]].body[pc[2]]
Before(p, q) == p[1] < q[1] \/ (p[1] = q[1] /\ p[2] < q[2])

-----------------------------------------------------------------------------
(* The direct call graph. *)

Transfers(f) == {i \in DOMAIN program.fn[f].body : program.fn[f].body[i].op \in {"call", "tail"}}
Callees(f)   == {program.fn[f].body[i].arg : i \in Transfers(f)}

Reached(f) ==   \* what every set has that is closed under calls and has f's
  {g \in Functions : \A S \in SUBSET Functions :
                        Callees(f) \subseteq S /\ (\A h \in S : Callees(h) \subseteq S) => g \in S}

Component(f) == {f} \cup {g \in Reached(f) : f \in Reached(g)}
Recursive(f) == f \in Reached(f)
CallsItself(f) == \E i \in Transfers(f) :
                     program.fn[f].body[i].op = "call" /\ program.fn[f].body[i].arg \in Component(f)
Eligible(f) == Recursive(f) /\ Component(f) = {f} /\ ~CallsItself(f)

-----------------------------------------------------------------------------
(* Values: a constant, or a node that adds to an argument of the function, to  *)
(* the home of a loop's cell, or to the result of the call made at a node.     *)

Const(k)    == [base |-> "const", n |-> k, plus |-> 0]
Input(i)    == [base |-> "input", n |-> i, plus |-> 0]
LoopHome(i) == [base |-> "home", n |-> i, plus |-> 0]
Result(i)   == [base |-> "result", n |-> i, plus |-> 0]
IsConst(v)  == v.base = "const"

Folded(v) == IF IsConst(v) THEN Const((v.n + 1) % Width) ELSE [v EXCEPT !.plus = @ + 1]

Fact(v) == IF IsConst(v) THEN v.n ELSE Unknown

(* The transfers of the machine, on constants and nodes alike. *)
Keep(s, n)  == SubSeq(s, 1, Len(s) - n)
TopOf(s, n) == SubSeq(s, Len(s) - n + 1, Len(s))
Passed(x, f) == Reverse(TopOf(x.a, Arity(f)))

Straight(x) ==
  LET i == At(x.pc)
  IN  [x EXCEPT !.pc = After(@),
                !.a  = CASE i.op = "push" -> Append(@, Const(i.arg))
                         [] i.op = "get"  -> Append(@, x.c[Len(x.c) - i.arg])
                         [] i.op = "inc"  -> Append(Front(@), Folded(Last(@)))
                         [] i.op = "drop" -> Front(@)]

Branched(x, pc) == [x EXCEPT !.pc = pc, !.a = Front(@)]
Taken(x)        == <<x.pc[1], At(x.pc).arg>>

Called(x, f) ==
  [x EXCEPT !.pc = Entry(f), !.a = Keep(@, Arity(f)), !.c = @ \o Passed(x, f),
            !.conts = Append(@, [pc |-> After(x.pc), a |-> Len(x.a) - Arity(f), c |-> Len(x.c)])]

Tailed(x, f) ==
  [x EXCEPT !.pc = Entry(f), !.a = Keep(@, Arity(f)), !.c = Keep(@, Arity(x.pc[1])) \o Passed(x, f)]

Returned(x) ==
  [x EXCEPT !.pc = Last(x.conts).pc, !.c = SubSeq(@, 1, Last(x.conts).c), !.conts = Front(@)]

Answered(x, f, v) == [x EXCEPT !.pc = After(@), !.a = Append(Keep(@, Arity(f)), v)]

Shaped(x) ==
  LET base == IF x.conts = <<>> THEN [a |-> 0, c |-> 0] ELSE Last(x.conts)
  IN  Len(x.a) = base.a + 1 /\ Len(x.c) = base.c + Arity(x.pc[1])

-----------------------------------------------------------------------------
(* The job: one walk over the paths of a function.  A context's looped is a    *)
(* history: whether the path to it has come through the header of the loop.    *)
(* The walk goes astray where the sink does not ask for what its code needs:   *)
(* at a loop that a path enters below other callers than those it was captured *)
(* with, or that another path has captured or made stable, and at a tail call  *)
(* that stays although its caller was inlined.                                 *)

NoLoop == [target |-> 0, captured |-> FALSE, stable |-> FALSE,
           initial |-> <<>>, header |-> <<>>, homes |-> {},
           at |-> 0, from |-> 0, path |-> 0, conts |-> <<>>]
NoJob  == [f |-> 0]

EntryContext(f) ==
  [pc |-> Entry(f), a |-> <<>>, conts |-> <<>>, looped |-> FALSE,
   c |-> Reverse([i \in 1 .. Arity(f) |-> IF facts[f][i] = Unknown THEN Input(i) ELSE Const(facts[f][i])])]

Started(f) ==
  [f |-> f, x |-> EntryContext(f), nodes |-> <<>>, arms |-> <<>>, paths |-> 0,
   loop |-> NoLoop, calls |-> {}, astray |-> FALSE, state |-> "walking"]

Failed(j) == [j EXCEPT !.state = "failed"]

(* A node for the instruction at hand; the walk goes on at the next one. *)
Noted(j, does) ==
  [j EXCEPT !.nodes = Append(@, [x |-> j.x, does |-> does, next |-> Len(@) + 2, taken |-> 0])]

Moved(j, x) == [j EXCEPT !.x = x]

(* The end of a path: the walk returns to the last branch left half done. *)
NextArm(j) ==
  IF j.arms = <<>>
  THEN [j EXCEPT !.state = "walked"]
  ELSE [j EXCEPT !.x = Last(j.arms).x, !.arms = Front(@),
                 !.nodes[Last(j.arms).at].taken = Len(j.nodes) + 1]

Leaf(j, does) ==
  IF j.paths >= PathLimit THEN Failed(j)
  ELSE NextArm([Noted(j, does) EXCEPT !.paths = @ + 1])

(* What a residual call passes, recorded for the facts of its target. *)
Recorded(j, f) ==
  [j EXCEPT !.calls = @ \cup {[to |-> f, facts |-> [i \in 1 .. Arity(f) |-> Fact(TopOf(j.x.a, Arity(f))[i])]]}]

(* The first arrival at the loop's entry begins a trial of one iteration. *)
LoopCaptured(j, x) ==
  IF x.a # <<>> THEN Failed(j)
  ELSE [Moved(j, x) EXCEPT !.loop = [@ EXCEPT !.captured = TRUE, !.initial = x.c,
                                              !.from = Len(j.nodes), !.path = j.paths, !.conts = x.conts]]

(* The second one gives a home to every cell that the trial has changed, and   *)
(* the walk starts the loop again from there: the trial leaves no code.        *)
LoopStable(j, x) ==
  LET moved  == {d \in DOMAIN x.c : x.c[d] # j.loop.initial[d]}
      header == [d \in DOMAIN x.c |-> IF d \in moved THEN LoopHome(d) ELSE x.c[d]]
      from   == IF j.paths = j.loop.path THEN j.loop.from ELSE Len(j.nodes)
  IN  [j EXCEPT !.x = [x EXCEPT !.c = header, !.looped = TRUE],
                !.nodes = [i \in DOMAIN @ |-> IF i = from THEN [@[i] EXCEPT !.next = Len(j.nodes) + 1] ELSE @[i]],
                !.loop = [@ EXCEPT !.stable = TRUE, !.header = header, !.homes = moved,
                                   !.at = Len(j.nodes) + 1],
                !.astray = @ \/ j.paths # j.loop.path \/ x.conts # j.loop.conts]

\* mutant: a cell without a home may have changed
LoopClosedAlways(j, x) ==
  Leaf([Moved(j, x) EXCEPT !.astray = @ \/ ~x.looped \/ x.conts # j.loop.conts], "loop")

(* A later one is a jump back, if only the cells with homes have changed. *)
LoopClosed(j, x) ==
  IF \E d \in DOMAIN x.c : d \notin j.loop.homes /\ x.c[d] # j.loop.header[d]
  THEN Failed(j)
  ELSE Leaf([Moved(j, x) EXCEPT !.astray = @ \/ ~x.looped \/ x.conts # j.loop.conts], "loop")

LoopAgain(j, origin, x) ==
  IF Before(origin, x.pc) \/ x.a # <<>> \/ Len(x.c) # Len(j.loop.initial) THEN Failed(j)
  ELSE IF j.loop.stable THEN LoopClosed(j, x) ELSE LoopStable(j, x)

RootAgain(j, x) ==
  IF x.a # <<>> \/ Len(x.c) # Arity(j.f) THEN Failed(j)
  ELSE Leaf(Moved(j, x), "again")

Edge(j, origin, x) ==
  IF x.pc = Entry(j.loop.target)
  THEN IF j.loop.captured THEN LoopAgain(j, origin, x) ELSE LoopCaptured(j, x)
  ELSE IF x.pc = Entry(j.f) /\ ~Before(origin, x.pc) THEN RootAgain(j, x)
  ELSE Moved(j, x)

Walking(op) == job.f # 0 /\ job.state = "walking" /\ At(job.x.pc).op \in op
Walk(j)     == job' = j /\ UNCHANGED <<program, facts, needed, dirty, code, run>>

Step == Walking({"push", "get", "inc", "drop"}) /\ Walk(Moved(Noted(job, "step"), Straight(job.x)))

Decided(v) == IF v.n # 0 THEN Taken(job.x) ELSE After(job.x.pc)

KnownBranch ==
  /\ Walking({"branch"}) /\ IsConst(Last(job.x.a))
  /\ Walk(IF Before(job.x.pc, Decided(Last(job.x.a)))
          THEN Moved(Noted(job, "step"), Branched(job.x, Decided(Last(job.x.a))))
          ELSE Failed(job))

Trying(j) == j.loop.captured /\ ~j.loop.stable

UnknownBranch ==
  /\ Walking({"branch"}) /\ ~IsConst(Last(job.x.a))
  /\ Walk(IF ~Before(job.x.pc, Taken(job.x)) \/ Trying(job) THEN Failed(job)
          ELSE [Moved(Noted(job, "fork"), Branched(job.x, After(job.x.pc))) EXCEPT
                  !.arms = Append(@, [x |-> Branched(job.x, Taken(job.x)), at |-> Len(job.nodes) + 1])])

(* The first call of a function that only calls itself as its tail opens the   *)
(* one loop that a walk may have.                                              *)
Opens(f) == f # job.f /\ Eligible(f) /\ job.loop.target = 0
Opened(j, f) == [j EXCEPT !.loop.target = f]

Call ==
  /\ Walking({"call"})
  /\ LET f == At(job.x.pc).arg
         here == Noted(job, "step")
     IN  Walk(CASE Opens(f) -> Edge(Opened(here, f), job.x.pc, Called(job.x, f))
                [] ~Opens(f) /\ Recursive(f) ->
                     Moved(Noted(Recorded(job, f), "call"), Answered(job.x, f, Result(Len(job.nodes) + 1)))
                [] OTHER -> Edge(here, job.x.pc, Called(job.x, f)))

Leaves(f) == f # job.f /\ f # job.loop.target /\ ~Opens(f) /\ Recursive(f)

TailCall ==
  /\ Walking({"tail"})
  /\ LET f == At(job.x.pc).arg
         here == Noted(job, "step")
     IN  Walk(CASE Leaves(f) -> Leaf([Recorded(job, f) EXCEPT !.astray = @ \/ job.x.conts # <<>>], "tail")
                [] Opens(f)  -> Edge(Opened(here, f), job.x.pc, Tailed(job.x, f))
                [] f = job.f -> Edge(Recorded(here, f), job.x.pc, Tailed(job.x, f))
                [] OTHER     -> Edge(here, job.x.pc, Tailed(job.x, f)))

Return ==
  /\ Walking({"ret"})
  /\ Walk(CASE ~Shaped(job.x)          -> Failed(job)
            [] job.x.conts = <<>>      -> Leaf(job, "return")
            [] OTHER                   -> Moved(Noted(job, "step"), Returned(job.x)))

-----------------------------------------------------------------------------
(* The worklist. *)

Retained(f) ==
  [optimized |-> FALSE, astray |-> FALSE, nodes |-> <<>>, loop |-> NoLoop,
   calls |-> {[to |-> g, facts |-> [i \in 1 .. Arity(g) |-> Unknown]] : g \in Callees(f)}]

\* mutant: the first value that an argument is given stays
MetFirst(known) == IF known \ {Unreached, Unknown} # {} THEN CHOOSE k \in known : k \notin {Unreached, Unknown}
                   ELSE IF Unknown \in known THEN Unknown ELSE Unreached

Met(known) ==
  LET reached == known \ {Unreached}
  IN  CASE reached = {}              -> Unreached
        [] Cardinality(reached) = 1 -> CHOOSE k \in reached : TRUE
        [] OTHER                    -> Unknown

Joined(calls) ==
  [f \in Functions |->
     [i \in 1 .. Arity(f) |-> Met({facts[f][i]} \cup {c.facts[i] : c \in {d \in calls : d.to = f}})]]

Targets(calls) == {c.to : c \in calls}
\* mutant: every function called is compiled again
StaleAlways(calls) == Targets(calls)
Stale(calls) == (Targets(calls) \ needed) \cup {f \in Functions : Joined(calls)[f] # facts[f]}

Begin ==
  /\ job.f = 0 /\ dirty # {}
  /\ \E f \in dirty : (\A g \in dirty : f <= g) /\ job' = Started(f) /\ dirty' = dirty \ {f}
  /\ UNCHANGED <<program, facts, needed, code, run>>

Publish(made) ==
  /\ code' = [code EXCEPT ![job.f] = made]
  /\ facts' = Joined(made.calls)
  /\ needed' = needed \cup Targets(made.calls)
  /\ dirty' = dirty \cup Stale(made.calls)
  /\ job' = NoJob
  /\ UNCHANGED <<program, run>>

Optimize ==
  /\ job.f # 0 /\ job.state = "walked"
  /\ Publish([optimized |-> TRUE, astray |-> job.astray, nodes |-> job.nodes,
              loop |-> job.loop, calls |-> job.calls])

(* The walk failed, or its graph does not fit the code it is to become. *)
Retain ==
  /\ job.f # 0 /\ job.state \in {"failed", "walked"}
  /\ Publish(Retained(job.f))

Compile == Begin \/ Step \/ KnownBranch \/ UnknownBranch \/ Call \/ TailCall \/ Return \/ Optimize \/ Retain

-----------------------------------------------------------------------------
(* The run: run.x is the program's own machine, run.at the node of the code.   *)
(* A jump back to a loop leads to the prologue, before the first decision of   *)
(* the function; until the code has come to the loop again, run.back is TRUE   *)
(* and the program waits.  Calls give the same answer when made again.         *)

Done == job.f = 0 /\ dirty = {}
Running == run.f # 0
Made == code[run.f]
Node == Made.nodes[run.at]
Here == At(run.x.pc)

ValueOf(v, r) ==
  CASE v.base = "const"  -> v.n
    [] v.base = "input"  -> (r.input[v.n] + v.plus) % Width
    [] v.base = "home"   -> (r.home[v.n] + v.plus) % Width
    [] v.base = "result" -> (r.result[v.n] + v.plus) % Width
Values(s, r) == [i \in DOMAIN s |-> ValueOf(s[i], r)]

Admits(k, v) == k = Unknown \/ k = v

Enter ==
  /\ Done /\ ~Running
  /\ \E f \in needed : \E v \in [1 .. Arity(f) -> 0 .. Width - 1] :
       /\ \A i \in 1 .. Arity(f) : Admits(facts[f][i], v[i])
       /\ run' = [f |-> f, at |-> IF code[f].optimized THEN 1 ELSE 0,
                  x |-> [pc |-> Entry(f), a |-> <<>>, conts |-> <<>>,
                         looped |-> FALSE, c |-> Reverse([i \in 1 .. Arity(f) |-> Const(v[i])])],
                  back |-> FALSE, input |-> v, home |-> <<>>, result |-> [i \in DOMAIN code[f].nodes |-> 0]]
  /\ UNCHANGED <<program, facts, needed, dirty, code, job>>

(* Control reaches a node; on the way into the loop its homes are given the    *)
(* values that its cells had at first.                                         *)
Reach(r, at, x) ==
  [r EXCEPT !.at = at, !.x = x,
            !.home = IF r.at # 0 /\ at = Made.loop.at THEN Values(Made.loop.initial, r) ELSE @]

Run(r) == run' = r /\ UNCHANGED <<program, facts, needed, dirty, code, job>>

Plain(s) == [i \in DOMAIN s |-> s[i].n]
Onward(r) == IF r.at = 0 THEN 0 ELSE Node.next

(* What the code does next is what the program does next: the node, or the loop *)
(* that the code goes back to, stands for the state that the program is in.  A  *)
(* node that ends the function stands for a state in which the program ends it  *)
(* too, and on its way back the code neither ends nor jumps back once more.     *)
Standing == IF run.back THEN Made.nodes[Made.loop.at] ELSE Node
Leading  == {"step", "fork", "call"}
Agrees ==
  Running /\ run.at # 0 =>
    /\ Standing.x.pc = run.x.pc /\ Standing.x.conts = run.x.conts
    /\ Values(Standing.x.a, run) = Plain(run.x.a) /\ Values(Standing.x.c, run) = Plain(run.x.c)
    /\ Node.does \in {"tail", "return"} => run.x.conts = <<>>
    /\ run.back => Node.does \in Leading /\ run.at < Made.loop.at

On(does) == Running /\ ~run.back /\ Agrees /\ (IF run.at = 0 THEN "kept" ELSE Node.does) \in does

RunStraight ==
  /\ On({"step", "kept"}) /\ Here.op \in {"push", "get", "inc", "drop"}
  /\ Run(Reach(run, Onward(run), Straight(run.x)))

RunBranch ==
  /\ On({"step", "fork", "kept"}) /\ Here.op = "branch"
  /\ LET taken == On({"fork"}) /\ ValueOf(Last(Node.x.a), run) # 0
     IN  Run(Reach(run, IF taken THEN Node.taken ELSE Onward(run),
                   Branched(run.x, IF Last(run.x.a).n # 0 THEN Taken(run.x) ELSE After(run.x.pc))))

RunInlined ==
  /\ On({"step"}) /\ Here.op \in {"call", "tail", "ret"}
  /\ Run(Reach(run, Node.next,
               CASE Here.op = "call" -> Called(run.x, Here.arg)
                 [] Here.op = "tail" -> Tailed(run.x, Here.arg)
                 [] Here.op = "ret"  -> Returned(run.x)))

RunCall ==
  /\ On({"call", "kept"}) /\ Here.op = "call"
  /\ \E v \in 0 .. Width - 1 :
       Run([Reach(run, Onward(run), Answered(run.x, Here.arg, Const(v))) EXCEPT
              !.result = [i \in DOMAIN @ |-> IF i = run.at THEN v ELSE @[i]]])

RunAgain ==
  /\ On({"again"})
  /\ Run([run EXCEPT !.at = 1, !.input = Reverse(Values(Node.x.c, run))])

RunLoop ==
  /\ On({"loop"})
  /\ Run([run EXCEPT !.at = 1, !.back = TRUE, !.home = Values(Node.x.c, run)])

(* The decisions before the loop are taken again, of the same values. *)
Decides(n) == IF Made.nodes[n].does = "fork" /\ ValueOf(Last(Made.nodes[n].x.a), run) # 0
              THEN Made.nodes[n].taken ELSE Made.nodes[n].next

RunPrologue ==
  /\ Running /\ run.back /\ Agrees
  /\ Run([run EXCEPT !.at = Decides(run.at), !.back = Decides(run.at) # Made.loop.at])

-----------------------------------------------------------------------------
Init ==
  /\ program \in Programs
  /\ needed = program.exports /\ dirty = program.exports
  /\ facts = [f \in Functions |-> [i \in 1 .. Arity(f) |-> IF f \in program.exports THEN Unknown ELSE Unreached]]
  /\ code = [f \in Functions |-> [optimized |-> FALSE, astray |-> FALSE, nodes |-> <<>>, loop |-> NoLoop, calls |-> {}]]
  /\ job = NoJob
  /\ run = [f |-> 0]

Next ==
  \/ Begin \/ Step \/ KnownBranch \/ UnknownBranch \/ Call \/ TailCall \/ Return \/ Optimize \/ Retain
  \/ Enter \/ RunStraight \/ RunBranch \/ RunInlined \/ RunCall \/ RunAgain \/ RunLoop \/ RunPrologue

Spec == Init /\ [][Next]_vars /\ WF_vars(Compile)

-----------------------------------------------------------------------------
(* A function that was optimized does what the program does, node by node: its *)
(* constants, its inlined calls and returns, its jumps back and its tail calls *)
(* are the program's.                                                          *)
SameProgram == Agrees

(* The same, for functions whose loop is only come to in one way and whose     *)
(* tail transfers drop no inlined caller.                                      *)
SameUnlessAstray == Running /\ ~Made.astray => Agrees

(* A function that is called has facts, and they admit the arguments.          *)
Calling(op) == On({"call", "tail", "kept"}) /\ Here.op \in op
ArgumentsForeseen ==
  Calling({"call", "tail"}) =>
    /\ Here.arg \in needed
    /\ LET v == TopOf(run.x.a, Arity(Here.arg))
       IN  \A i \in DOMAIN v : Admits(facts[Here.arg][i], v[i].n)

(* The worklist runs empty.                                                    *)
WorklistEnds == <>Done
==============================================================================
