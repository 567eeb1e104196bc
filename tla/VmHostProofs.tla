---------------------------- MODULE VmHostProofs ----------------------------
(***************************************************************************)
(* Theorems about VmHost, for any finite number of threads and VMs and any *)
(* modules, names, addresses, count limit and depth of nesting.            *)
(***************************************************************************)
EXTENDS VmHost, FiniteSetTheorems, SequenceTheorems, TLAPS

-----------------------------------------------------------------------------
(* The inductive invariant. *)

On(t) == {stack[t][i] : i \in DOMAIN stack[t]}
Below(t) == {stack[t][i] : i \in 1 .. Len(stack[t]) - 1}

\* What an operation of a thread knows of its VM and its module.
FrameInv(f, t) ==
    /\ owner[f.vm] = t
    /\ f.op = "free" <=> f.step \in {"images", "destroy"}
    /\ f.step \in {"start", "run"} => f.op = "call"
    /\ f.op = "call" => f.vm \in executing
    /\ f.op = "free" => f.vm \notin executing
    /\ f.module = None <=> f.step = "images"
    /\ f.step = "find" => Named(f.vm, f.module)
    /\ f.step = "exchange" => f.module \in handles
    /\ f.step \in {"exchange", "build"} =>
           f.table = [n \in Imports[f.module] |-> bindings[f.vm][n]]
    /\ f.step \in {"exchange", "build", "destroy"} => ~Found(f.vm, f.module)
    /\ f.step \in {"start", "run"} => Found(f.vm, f.module)
FramesInv == \A t \in Threads : \A f \in On(t) : FrameInv(f, t)

\* All operations but a thread's latest are calls that run foreign code; each
\* keeps the context below it.
Context(s, n) == IF n = 0 THEN None ELSE s[n].vm
Depth(t) == IF Free(t) THEN Len(stack[t]) ELSE Len(stack[t]) - 1
NestInv ==
    \A t \in Threads :
        /\ \A i \in 1 .. Depth(t) : /\ stack[t][i].step = "run"
                                    /\ stack[t][i].previous = Context(stack[t], i - 1)
        /\ active[t] = Context(stack[t], Depth(t))

CallsInv ==
    /\ \A t \in Threads : \A i, j \in DOMAIN stack[t] :
           /\ stack[t][i].op = "call" /\ stack[t][j].op = "call"
           /\ stack[t][i].vm = stack[t][j].vm
           => i = j
    /\ \A v \in executing : \E t \in Threads : \E f \in On(t) : f.op = "call" /\ f.vm = v

CountInv == RefsExact /\ \A m \in freed : refs[m] = 0

VmInv == TypeOK /\ FramesInv /\ NestInv /\ CallsInv /\ ImagesAgree /\ CountInv

-----------------------------------------------------------------------------
(* Stacks. *)

\* The first elements of a sequence.
LEMMA FrontFacts ==
  ASSUME NEW S, NEW s \in Seq(S), s # <<>>
  PROVE  /\ Front(s) \in Seq(S)
         /\ Len(s) \in Nat \ {0}
         /\ Len(Front(s)) = Len(s) - 1
         /\ \A i \in 1 .. Len(s) - 1 : Front(s)[i] = s[i]
         /\ Last(s) = s[Len(s)] /\ Last(s) \in S
<1>1. Len(s) \in Nat /\ DOMAIN s = 1 .. Len(s) /\ Len(s) # 0
  BY EmptySeq
<1>2. /\ SubSeq(s, 1, Len(s) - 1) \in Seq(S)
      /\ Len(SubSeq(s, 1, Len(s) - 1)) = Len(s) - 1
      /\ \A i \in 1 .. Len(s) - 1 : SubSeq(s, 1, Len(s) - 1)[i] = s[i]
  BY <1>1, Z3
<1>3. s[Len(s)] \in S
  BY <1>1
<1> QED
  BY <1>1, <1>2, <1>3 DEF Front, Last

\* What the three ways to change a thread's stack do to its operations.
LEMMA Pushing ==
  ASSUME TypeOK, NEW t \in Threads, NEW g \in Operations,
         stack' = [stack EXCEPT ![t] = Append(@, g)]
  PROVE  /\ stack' \in [Threads -> Seq(Operations)]
         /\ \A u \in Threads \ {t} : stack'[u] = stack[u]
         /\ Len(stack'[t]) = Len(stack[t]) + 1 /\ Len(stack[t]) \in Nat
         /\ \A i \in 1 .. Len(stack[t]) : stack'[t][i] = stack[t][i]
         /\ stack'[t][Len(stack[t]) + 1] = g
         /\ On(t)' = On(t) \cup {g}
         /\ Top(t)' = g /\ stack'[t] # <<>>
<1>1. stack[t] \in Seq(Operations)
  BY DEF TypeOK
<1>2. stack' \in [Threads -> Seq(Operations)] /\ stack'[t] = Append(stack[t], g)
  BY <1>1 DEF TypeOK
<1>3. /\ Len(stack'[t]) = Len(stack[t]) + 1 /\ Len(stack[t]) \in Nat
      /\ \A i \in 1 .. Len(stack[t]) : stack'[t][i] = stack[t][i]
      /\ stack'[t][Len(stack[t]) + 1] = g
  BY <1>1, <1>2
<1>4. DOMAIN stack[t] = 1 .. Len(stack[t]) /\ DOMAIN stack'[t] = 1 .. Len(stack[t]) + 1
  BY <1>1, <1>2, <1>3
<1>5. On(t)' = On(t) \cup {g}
  BY <1>3, <1>4 DEF On
<1>6. Top(t)' = g /\ stack'[t] # <<>>
  BY <1>1, <1>2, <1>3 DEF Top, Last
<1> QED
  BY <1>2, <1>3, <1>5, <1>6 DEF TypeOK

LEMMA Becoming ==
  ASSUME TypeOK, NEW t \in Threads, stack[t] # <<>>, NEW g \in Operations, Become(t, g)
  PROVE  /\ stack' \in [Threads -> Seq(Operations)]
         /\ \A u \in Threads \ {t} : stack'[u] = stack[u]
         /\ Len(stack'[t]) = Len(stack[t]) /\ Len(stack[t]) \in Nat \ {0}
         /\ \A i \in 1 .. Len(stack[t]) - 1 : stack'[t][i] = stack[t][i]
         /\ stack'[t][Len(stack[t])] = g
         /\ On(t)' = Below(t) \cup {g}
         /\ Top(t)' = g /\ stack'[t] # <<>>
<1>1. stack[t] \in Seq(Operations)
  BY DEF TypeOK
<1> DEFINE s == Front(stack[t])
<1>2. /\ s \in Seq(Operations) /\ Len(s) = Len(stack[t]) - 1 /\ Len(stack[t]) \in Nat \ {0}
      /\ \A i \in 1 .. Len(stack[t]) - 1 : s[i] = stack[t][i]
  BY <1>1, FrontFacts
<1>3. stack' \in [Threads -> Seq(Operations)] /\ stack'[t] = Append(s, g)
  BY <1>2 DEF TypeOK, Become
<1> HIDE DEF s
<1>4. /\ Len(stack'[t]) = Len(stack[t])
      /\ \A i \in 1 .. Len(stack[t]) - 1 : stack'[t][i] = s[i]
      /\ stack'[t][Len(stack[t])] = g
  BY <1>2, <1>3
<1>5. \A i \in 1 .. Len(stack[t]) - 1 : stack'[t][i] = stack[t][i]
  BY <1>2, <1>4
<1>6. DOMAIN stack'[t] = (1 .. Len(stack[t]) - 1) \cup {Len(stack[t])}
  BY <1>2, <1>3, <1>4
<1>7. On(t)' = Below(t) \cup {g}
  BY <1>4, <1>5, <1>6 DEF On, Below
<1>8. Top(t)' = g /\ stack'[t] # <<>>
  BY <1>2, <1>3, <1>4 DEF Top, Last
<1> QED
  BY <1>2, <1>3, <1>4, <1>5, <1>7, <1>8 DEF TypeOK, Become

LEMMA Popping ==
  ASSUME TypeOK, NEW t \in Threads, stack[t] # <<>>, Pop(t)
  PROVE  /\ stack' \in [Threads -> Seq(Operations)]
         /\ \A u \in Threads \ {t} : stack'[u] = stack[u]
         /\ Len(stack'[t]) = Len(stack[t]) - 1 /\ Len(stack[t]) \in Nat \ {0}
         /\ \A i \in 1 .. Len(stack[t]) - 1 : stack'[t][i] = stack[t][i]
         /\ On(t)' = Below(t)
<1>1. stack[t] \in Seq(Operations)
  BY DEF TypeOK
<1>2. /\ Front(stack[t]) \in Seq(Operations)
      /\ Len(Front(stack[t])) = Len(stack[t]) - 1 /\ Len(stack[t]) \in Nat \ {0}
      /\ \A i \in 1 .. Len(stack[t]) - 1 : Front(stack[t])[i] = stack[t][i]
  BY <1>1, FrontFacts
<1>3. stack' \in [Threads -> Seq(Operations)] /\ stack'[t] = Front(stack[t])
  BY <1>2 DEF TypeOK, Pop
<1>4. DOMAIN stack'[t] = 1 .. Len(stack[t]) - 1
  BY <1>2, <1>3
<1>5. On(t)' = Below(t)
  BY <1>2, <1>3, <1>4 DEF On, Below
<1> QED
  BY <1>2, <1>3, <1>5 DEF TypeOK, Pop

\* The latest operation of a thread.
LEMMA Latest ==
  ASSUME TypeOK, NEW t \in Threads, stack[t] # <<>>
  PROVE  /\ Top(t) \in Operations /\ Top(t) = stack[t][Len(stack[t])]
         /\ Len(stack[t]) \in DOMAIN stack[t] /\ Len(stack[t]) \in Nat \ {0}
         /\ DOMAIN stack[t] = 1 .. Len(stack[t])
         /\ On(t) = Below(t) \cup {Top(t)}
<1>1. stack[t] \in Seq(Operations)
  BY DEF TypeOK
<1>2. /\ Top(t) \in Operations /\ Top(t) = stack[t][Len(stack[t])]
      /\ Len(stack[t]) \in Nat \ {0}
  BY <1>1, FrontFacts DEF Top
<1>3. DOMAIN stack[t] = (1 .. Len(stack[t]) - 1) \cup {Len(stack[t])} /\ DOMAIN stack[t] = 1 .. Len(stack[t])
  BY <1>1, <1>2
<1>4. On(t) = Below(t) \cup {Top(t)}
  BY <1>2, <1>3 DEF On, Below
<1> QED
  BY <1>2, <1>3, <1>4

\* An operation whose fields change keeps its type.
LEMMA Changing ==
  ASSUME NEW g \in Operations, NEW st \in Steps
  PROVE  /\ [g EXCEPT !.step = st] \in Operations
         /\ \A k \in 0 .. Limit : [g EXCEPT !.saw = k] \in Operations
         /\ \A k \in 0 .. Limit, tb \in Tables :
                [g EXCEPT !.step = st, !.saw = k, !.table = tb] \in Operations
         /\ \A v \in Vms \cup {None} : [g EXCEPT !.step = st, !.previous = v] \in Operations
         /\ \A m \in Modules \cup {None} : [g EXCEPT !.step = st, !.module = m] \in Operations
BY DEF Operations

\* An operation starts with one of its type.
LEMMA Starting ==
  ASSUME NEW op \in {"load", "call", "free"}, NEW v \in Vms, NEW m \in Modules \cup {None},
         NEW step \in Steps
  PROVE  [op |-> op, vm |-> v, module |-> m, step |-> step, saw |-> 0,
          table |-> <<>>, previous |-> None] \in Operations
<1>1. 0 \in 0 .. Limit /\ <<>> \in Tables /\ None \in Vms \cup {None}
  BY LimitAssumption DEF Tables
<1> QED
  BY <1>1 DEF Operations

\* What every frame of a thread knows, and all but the latest know besides.
LEMMA Frame ==
  ASSUME TypeOK, FramesInv, NestInv, NEW t \in Threads
  PROVE  /\ \A f \in On(t) : f \in Operations /\ FrameInv(f, t)
         /\ \A f \in Below(t) : /\ f \in On(t) /\ f.step = "run"
                                /\ f.op = "call" /\ f.vm \in executing
                                /\ Found(f.vm, f.module)
         /\ Free(t) => \A f \in On(t) : /\ f.step = "run"
                                        /\ f.op = "call" /\ f.vm \in executing
                                        /\ Found(f.vm, f.module)
<1>1. stack[t] \in Seq(Operations)
  BY DEF TypeOK
<1>2. DOMAIN stack[t] = 1 .. Len(stack[t]) /\ Len(stack[t]) \in Nat
  BY <1>1
<1>3. \A f \in On(t) : f \in Operations /\ FrameInv(f, t)
  BY <1>1 DEF On, FramesInv
<1>4. \A i \in 1 .. Depth(t) : stack[t][i].step = "run"
  BY DEF NestInv
<1>5. Depth(t) \in {Len(stack[t]), Len(stack[t]) - 1}
  BY DEF Depth
<1>6. \A f \in Below(t) : f \in On(t) /\ f.step = "run"
  BY <1>2, <1>4, <1>5 DEF Below, On
<1>7. ASSUME Free(t), NEW f \in On(t) PROVE f.step = "run"
  <2>1. Depth(t) = Len(stack[t])
    BY <1>7 DEF Depth
  <2> QED
    BY <1>2, <1>4, <1>7, <2>1 DEF On
<1>8. \A f : FrameInv(f, t) /\ f.step = "run" =>
          f.op = "call" /\ f.vm \in executing /\ Found(f.vm, f.module)
  BY DEF FrameInv
<1> QED
  BY <1>3, <1>6, <1>7, <1>8

\* A frame stays as it should be while its VM does and no handle it needs goes.
LEMMA FrameStays ==
  ASSUME NEW f, NEW u, FrameInv(f, u),
         owner'[f.vm] = owner[f.vm], bindings'[f.vm] = bindings[f.vm],
         images'[f.vm] = images[f.vm],
         f.vm \in executing' <=> f.vm \in executing,
         f.step \in {"find", "exchange"} /\ f.module \in handles => f.module \in handles'
  PROVE  FrameInv(f, u)'
<1>1. Found(f.vm, f.module)' <=> Found(f.vm, f.module)
  BY DEF Found
<1>2. f.step = "find" => (Named(f.vm, f.module)' <=> (f.module \in handles' \/ Found(f.vm, f.module)))
  BY <1>1 DEF Named
<1> QED
  BY <1>1, <1>2 DEF FrameInv, Named

\* Frames of different threads are of different VMs.
LEMMA Apart ==
  ASSUME TypeOK, FramesInv, NestInv, NEW t \in Threads, NEW u \in Threads \ {t},
         NEW f \in On(u), NEW v, owner[v] = t \/ owner[v] = None
  PROVE  f.vm # v
<1>1. owner[f.vm] = u
  BY Frame DEF FrameInv
<1> QED
  BY <1>1, NoneAssumption

-----------------------------------------------------------------------------
(* Steps that only change the stack of one thread. *)

LEMMA SameDepth ==
  ASSUME NEW u, stack'[u] = stack[u]
  PROVE  Depth(u)' = Depth(u)
BY DEF Depth, Free, At, Top

LEMMA NestPush ==
  ASSUME TypeOK, NestInv, NEW t \in Threads, NEW g \in Operations, Free(t),
         stack' = [stack EXCEPT ![t] = Append(@, g)], g.step # "run", active' = active
  PROVE  NestInv'
<1> SUFFICES ASSUME NEW u \in Threads
             PROVE  /\ \A i \in 1 .. Depth(u)' :
                           /\ stack'[u][i].step = "run"
                           /\ stack'[u][i].previous = Context(stack'[u], i - 1)
                    /\ active'[u] = Context(stack'[u], Depth(u)')
  BY DEF NestInv, Context
<1>1. CASE u # t
  <2>1. stack'[u] = stack[u]
    BY <1>1, Pushing
  <2>2. Depth(u)' = Depth(u)
    BY <2>1, SameDepth
  <2> QED
    BY <2>1, <2>2 DEF NestInv
<1>2. CASE u = t
  <2>1. /\ Len(stack'[t]) = Len(stack[t]) + 1 /\ Len(stack[t]) \in Nat
        /\ \A i \in 1 .. Len(stack[t]) : stack'[t][i] = stack[t][i]
        /\ Top(t)' = g /\ stack'[t] # <<>>
    BY Pushing
  <2>2. Depth(t) = Len(stack[t]) /\ Depth(t)' = Len(stack[t])
    BY <2>1 DEF Depth, Free, At
  <2>3. \A i \in 0 .. Len(stack[t]) : Context(stack'[t], i) = Context(stack[t], i)
    BY <2>1 DEF Context
  <2> QED
    BY <1>2, <2>1, <2>2, <2>3 DEF NestInv
<1> QED
  BY <1>1, <1>2

LEMMA NestBecome ==
  ASSUME TypeOK, NestInv, NEW t \in Threads, NEW g \in Operations, stack[t] # <<>>, Become(t, g),
         Top(t).step # "run",
         \/ g.step # "run" /\ active' = active
         \/ g.step = "run" /\ g.previous = active[t] /\ active' = [active EXCEPT ![t] = g.vm]
  PROVE  NestInv'
<1> SUFFICES ASSUME NEW u \in Threads
             PROVE  /\ \A i \in 1 .. Depth(u)' :
                           /\ stack'[u][i].step = "run"
                           /\ stack'[u][i].previous = Context(stack'[u], i - 1)
                    /\ active'[u] = Context(stack'[u], Depth(u)')
  BY DEF NestInv, Context
<1>1. CASE u # t
  <2>1. stack'[u] = stack[u] /\ active'[u] = active[u]
    BY <1>1, Becoming DEF TypeOK
  <2>2. Depth(u)' = Depth(u)
    BY <2>1, SameDepth
  <2> QED
    BY <2>1, <2>2 DEF NestInv
<1>2. CASE u = t
  <2>1. /\ Len(stack'[t]) = Len(stack[t]) /\ Len(stack[t]) \in Nat \ {0}
        /\ \A i \in 1 .. Len(stack[t]) - 1 : stack'[t][i] = stack[t][i]
        /\ stack'[t][Len(stack[t])] = g
        /\ Top(t)' = g /\ stack'[t] # <<>>
    BY Becoming
  <2>2. Depth(t) = Len(stack[t]) - 1
    BY DEF Depth, Free, At
  <2>3. \A i \in 0 .. Len(stack[t]) - 1 : Context(stack'[t], i) = Context(stack[t], i)
    BY <2>1 DEF Context
  <2>4. /\ \A i \in 1 .. Len(stack[t]) - 1 :
               /\ stack'[t][i].step = "run"
               /\ stack'[t][i].previous = Context(stack'[t], i - 1)
        /\ active[t] = Context(stack'[t], Len(stack[t]) - 1)
    <3>1. \A i \in 1 .. Len(stack[t]) - 1 : i - 1 \in 0 .. Len(stack[t]) - 1
      BY <2>1
    <3>2. Len(stack[t]) - 1 \in 0 .. Len(stack[t]) - 1
      BY <2>1
    <3>3. /\ \A i \in 1 .. Len(stack[t]) - 1 :
                 /\ stack[t][i].step = "run"
                 /\ stack[t][i].previous = Context(stack[t], i - 1)
          /\ active[t] = Context(stack[t], Len(stack[t]) - 1)
      BY <2>2 DEF NestInv
    <3> QED
      BY <2>1, <2>3, <3>1, <3>2, <3>3
  <2>5. CASE g.step # "run"
    <3>1. Depth(t)' = Len(stack[t]) - 1
      BY <2>1, <2>5 DEF Depth, Free, At
    <3> QED
      BY <1>2, <2>4, <2>5, <3>1
  <2>6. CASE g.step = "run"
    <3>1. Depth(t)' = Len(stack[t])
      BY <2>1, <2>6 DEF Depth, Free, At
    <3>2. Context(stack'[t], Len(stack[t])) = g.vm /\ active'[t] = g.vm
      BY <2>1, <2>6 DEF Context, TypeOK
    <3>3. /\ stack'[t][Len(stack[t])].step = "run"
          /\ stack'[t][Len(stack[t])].previous = Context(stack'[t], Len(stack[t]) - 1)
      BY <2>1, <2>4, <2>6
    <3>4. 1 .. Len(stack[t]) = (1 .. Len(stack[t]) - 1) \cup {Len(stack[t])}
      BY <2>1
    <3> QED
      BY <1>2, <2>4, <3>1, <3>2, <3>3, <3>4
  <2> QED
    BY <2>5, <2>6
<1> QED
  BY <1>1, <1>2

LEMMA NestPop ==
  ASSUME TypeOK, NestInv, NEW t \in Threads, stack[t] # <<>>, Pop(t),
         \/ Top(t).step # "run" /\ active' = active
         \/ Top(t).step = "run" /\ active' = [active EXCEPT ![t] = Top(t).previous]
  PROVE  NestInv'
<1> SUFFICES ASSUME NEW u \in Threads
             PROVE  /\ \A i \in 1 .. Depth(u)' :
                           /\ stack'[u][i].step = "run"
                           /\ stack'[u][i].previous = Context(stack'[u], i - 1)
                    /\ active'[u] = Context(stack'[u], Depth(u)')
  BY DEF NestInv, Context
<1>1. CASE u # t
  <2>1. stack'[u] = stack[u] /\ active'[u] = active[u]
    BY <1>1, Popping DEF TypeOK
  <2>2. Depth(u)' = Depth(u)
    BY <2>1, SameDepth
  <2> QED
    BY <2>1, <2>2 DEF NestInv
<1>2. CASE u = t
  <2>1. /\ stack'[t] \in Seq(Operations)
        /\ Len(stack'[t]) = Len(stack[t]) - 1 /\ Len(stack[t]) \in Nat \ {0}
        /\ \A i \in 1 .. Len(stack[t]) - 1 : stack'[t][i] = stack[t][i]
    BY Popping
  <2>2. Depth(t) = IF Top(t).step = "run" THEN Len(stack[t]) ELSE Len(stack[t]) - 1
    BY DEF Depth, Free, At
  <2>3. /\ \A i \in 1 .. Len(stack[t]) - 1 :
               /\ stack[t][i].step = "run"
               /\ stack[t][i].previous = Context(stack[t], i - 1)
        /\ active'[t] = Context(stack[t], Len(stack[t]) - 1)
    <3>1. CASE Top(t).step # "run"
      BY <2>1, <2>2, <3>1 DEF NestInv
    <3>2. CASE Top(t).step = "run"
      <4>1. active'[t] = Top(t).previous
        BY <3>2 DEF TypeOK
      <4>2. Top(t) = stack[t][Len(stack[t])]
        BY Latest
      <4> QED
        BY <2>1, <2>2, <3>2, <4>1, <4>2 DEF NestInv
    <3> QED
      BY <3>1, <3>2
  <2>4. \A i \in 0 .. Len(stack[t]) - 1 : Context(stack'[t], i) = Context(stack[t], i)
    BY <2>1 DEF Context
  <2>5. Depth(t)' = Len(stack[t]) - 1
    <3>1. CASE stack'[t] = <<>>
      <4>1. Len(stack'[t]) = 0
        BY <3>1
      <4> QED
        BY <2>1, <3>1, <4>1 DEF Depth, Free
    <3>2. CASE stack'[t] # <<>>
      <4>1. Len(stack'[t]) \in Nat \ {0}
        BY <2>1, <3>2, EmptySeq
      <4>2. Top(t)' = stack'[t][Len(stack'[t])]
        BY DEF Top, Last
      <4>3. Len(stack'[t]) \in 1 .. Len(stack[t]) - 1
        <5>1. Len(stack'[t]) = Len(stack[t]) - 1 /\ Len(stack[t]) \in Nat
          BY <2>1
        <5>2. \A a \in Nat \ {0} : \A b \in Nat : a = b - 1 => a \in 1 .. b - 1
          OBVIOUS
        <5> QED
          BY <4>1, <5>1, <5>2
      <4>4. stack'[t][Len(stack'[t])].step = "run"
        BY <2>1, <2>3, <4>3
      <4>5. Top(t)'.step = "run"
        BY <4>2, <4>4
      <4> QED
        BY <2>1, <3>2, <4>5 DEF Depth, Free, At
    <3> QED
      BY <3>1, <3>2
  <2>6. \A i \in 1 .. Len(stack[t]) - 1 : i - 1 \in 0 .. Len(stack[t]) - 1
    BY <2>1
  <2>7. Len(stack[t]) - 1 \in 0 .. Len(stack[t]) - 1
    BY <2>1
  <2>8. \A i \in 1 .. Len(stack[t]) - 1 : /\ stack'[t][i].step = "run"
                                         /\ stack'[t][i].previous = Context(stack'[t], i - 1)
    BY <2>1, <2>3, <2>4, <2>6
  <2>9. active'[t] = Context(stack'[t], Len(stack[t]) - 1)
    BY <2>3, <2>4, <2>7
  <2> QED
    BY <1>2, <2>5, <2>8, <2>9
<1> QED
  BY <1>1, <1>2

LEMMA CallsPush ==
  ASSUME TypeOK, FramesInv, NestInv, CallsInv, NEW t \in Threads, NEW g \in Operations,
         stack' = [stack EXCEPT ![t] = Append(@, g)],
         g.op = "call" => g.vm \notin executing,
         executing' = IF g.op = "call" THEN executing \cup {g.vm} ELSE executing
  PROVE  CallsInv'
<1>1. /\ \A u \in Threads \ {t} : stack'[u] = stack[u]
      /\ Len(stack'[t]) = Len(stack[t]) + 1 /\ Len(stack[t]) \in Nat
      /\ stack'[t] \in Seq(Operations)
      /\ \A i \in 1 .. Len(stack[t]) : stack'[t][i] = stack[t][i]
      /\ stack'[t][Len(stack[t]) + 1] = g
      /\ On(t)' = On(t) \cup {g}
  BY Pushing
<1>2. \A i \in 1 .. Len(stack[t]) : stack[t][i].op = "call" => stack[t][i].vm \in executing
  <2>1. DOMAIN stack[t] = 1 .. Len(stack[t])
    BY DEF TypeOK
  <2>2. \A f \in On(t) : f.op = "call" => f.vm \in executing
    BY Frame DEF FrameInv
  <2> QED
    BY <2>1, <2>2 DEF On
<1>3. ASSUME NEW u \in Threads, NEW i \in DOMAIN stack'[u], NEW j \in DOMAIN stack'[u],
             stack'[u][i].op = "call", stack'[u][j].op = "call",
             stack'[u][i].vm = stack'[u][j].vm
      PROVE  i = j
  <2>1. CASE u # t
    BY <1>1, <1>3, <2>1 DEF CallsInv
  <2>2. CASE u = t
    <3>1. DOMAIN stack'[t] = (1 .. Len(stack[t])) \cup {Len(stack[t]) + 1}
      BY <1>1
    <3>2. CASE i \in 1 .. Len(stack[t]) /\ j \in 1 .. Len(stack[t])
      <4>1. i \in DOMAIN stack[t] /\ j \in DOMAIN stack[t]
        BY <3>2 DEF TypeOK
      <4> QED
        BY <1>1, <1>3, <2>2, <3>2, <4>1 DEF CallsInv
    <3>3. CASE i \in 1 .. Len(stack[t]) /\ j = Len(stack[t]) + 1
      BY <1>1, <1>2, <1>3, <2>2, <3>3
    <3>4. CASE j \in 1 .. Len(stack[t]) /\ i = Len(stack[t]) + 1
      BY <1>1, <1>2, <1>3, <2>2, <3>4
    <3> QED
      BY <2>2, <3>1, <3>2, <3>3, <3>4
  <2> QED
    BY <2>1, <2>2
<1>4. ASSUME NEW v \in executing'
      PROVE  \E u \in Threads : \E f \in On(u)' : f.op = "call" /\ f.vm = v
  <2>1. CASE v \in executing
    <3>0. PICK u \in Threads : \E f \in On(u) : f.op = "call" /\ f.vm = v
      BY <2>1 DEF CallsInv
    <3>1. PICK f \in On(u) : f.op = "call" /\ f.vm = v
      BY <3>0
    <3>2. f \in On(u)'
      BY <1>1, <3>1 DEF On
    <3> QED
      BY <3>1, <3>2
  <2>2. CASE v \notin executing
    BY <1>1, <1>4, <2>2
  <2> QED
    BY <2>1, <2>2
<1> QED
  BY <1>3, <1>4 DEF CallsInv

LEMMA CallsBecome ==
  ASSUME TypeOK, CallsInv, NEW t \in Threads, NEW g \in Operations, stack[t] # <<>>, Become(t, g),
         g.op = Top(t).op, g.vm = Top(t).vm, executing' = executing
  PROVE  CallsInv'
<1>1. /\ \A u \in Threads \ {t} : stack'[u] = stack[u]
      /\ Len(stack'[t]) = Len(stack[t]) /\ Len(stack[t]) \in Nat \ {0}
      /\ stack'[t] \in Seq(Operations)
      /\ \A i \in 1 .. Len(stack[t]) - 1 : stack'[t][i] = stack[t][i]
      /\ stack'[t][Len(stack[t])] = g
      /\ On(t)' = Below(t) \cup {g}
  BY Becoming
<1>2. /\ Top(t) = stack[t][Len(stack[t])] /\ DOMAIN stack[t] = 1 .. Len(stack[t])
      /\ On(t) = Below(t) \cup {Top(t)}
  BY Latest
<1>3. \A i \in 1 .. Len(stack[t]) : /\ stack'[t][i].op = stack[t][i].op
                                    /\ stack'[t][i].vm = stack[t][i].vm
  <2>1. 1 .. Len(stack[t]) = (1 .. Len(stack[t]) - 1) \cup {Len(stack[t])}
    BY <1>1
  <2> QED
    BY <1>1, <1>2, <2>1
<1>4. DOMAIN stack'[t] = 1 .. Len(stack[t])
  BY <1>1
<1>5. ASSUME NEW u \in Threads, NEW i \in DOMAIN stack'[u], NEW j \in DOMAIN stack'[u],
             stack'[u][i].op = "call", stack'[u][j].op = "call",
             stack'[u][i].vm = stack'[u][j].vm
      PROVE  i = j
  <2>1. CASE u # t
    BY <1>1, <1>5, <2>1 DEF CallsInv
  <2>2. CASE u = t
    BY <1>2, <1>3, <1>4, <1>5, <2>2 DEF CallsInv
  <2> QED
    BY <2>1, <2>2
<1>6. ASSUME NEW v \in executing'
      PROVE  \E u \in Threads : \E f \in On(u)' : f.op = "call" /\ f.vm = v
  <2>0. PICK u \in Threads : \E f \in On(u) : f.op = "call" /\ f.vm = v
    BY <1>6 DEF CallsInv
  <2>1. PICK f \in On(u) : f.op = "call" /\ f.vm = v
    BY <2>0
  <2>2. CASE u # t
    <3>1. f \in On(u)'
      BY <1>1, <2>2 DEF On
    <3> QED
      BY <2>1, <3>1
  <2>3. CASE u = t
    BY <1>1, <1>2, <2>1, <2>3
  <2> QED
    BY <2>2, <2>3
<1> QED
  BY <1>5, <1>6 DEF CallsInv

LEMMA CallsPop ==
  ASSUME TypeOK, CallsInv, NEW t \in Threads, stack[t] # <<>>, Pop(t),
         executing' = IF Top(t).op = "call" THEN executing \ {Top(t).vm} ELSE executing
  PROVE  CallsInv'
<1>1. /\ \A u \in Threads \ {t} : stack'[u] = stack[u]
      /\ Len(stack'[t]) = Len(stack[t]) - 1 /\ Len(stack[t]) \in Nat \ {0}
      /\ stack'[t] \in Seq(Operations)
      /\ \A i \in 1 .. Len(stack[t]) - 1 : stack'[t][i] = stack[t][i]
      /\ On(t)' = Below(t)
  BY Popping
<1>2. DOMAIN stack[t] = 1 .. Len(stack[t]) /\ On(t) = Below(t) \cup {Top(t)}
  BY Latest
<1>3. DOMAIN stack'[t] = 1 .. Len(stack[t]) - 1 /\ DOMAIN stack'[t] \subseteq DOMAIN stack[t]
  BY <1>1, <1>2
<1>4. ASSUME NEW u \in Threads, NEW i \in DOMAIN stack'[u], NEW j \in DOMAIN stack'[u],
             stack'[u][i].op = "call", stack'[u][j].op = "call",
             stack'[u][i].vm = stack'[u][j].vm
      PROVE  i = j
  <2>1. CASE u # t
    BY <1>1, <1>4, <2>1 DEF CallsInv
  <2>2. CASE u = t
    <3>1. \A k, l \in DOMAIN stack[t] :
              stack[t][k].op = "call" /\ stack[t][l].op = "call" /\ stack[t][k].vm = stack[t][l].vm
              => k = l
      BY DEF CallsInv
    <3> QED
      BY <1>1, <1>3, <1>4, <2>2, <3>1
  <2> QED
    BY <2>1, <2>2
<1>5. ASSUME NEW v \in executing'
      PROVE  \E u \in Threads : \E f \in On(u)' : f.op = "call" /\ f.vm = v
  <2>0. PICK u \in Threads : \E f \in On(u) : f.op = "call" /\ f.vm = v
    BY <1>5 DEF CallsInv
  <2>1. PICK f \in On(u) : f.op = "call" /\ f.vm = v
    BY <2>0
  <2>2. CASE u # t
    <3>1. f \in On(u)'
      BY <1>1, <2>2 DEF On
    <3> QED
      BY <2>1, <3>1
  <2>3. CASE u = t
    BY <1>1, <1>2, <1>5, <2>1, <2>3
  <2> QED
    BY <2>2, <2>3
<1> QED
  BY <1>4, <1>5 DEF CallsInv

-----------------------------------------------------------------------------
(* Counting the holders of a module. *)

Holds(t, m) == (At(t, "build") \/ At(t, "destroy")) /\ Top(t).module = m

\* A finite set gains an element, or loses one.
LEMMA OneMore ==
  ASSUME NEW S, IsFiniteSet(S), NEW x, x \notin S
  PROVE  Cardinality(S \cup {x}) = Cardinality(S) + 1
BY FS_AddElement

LEMMA OneLess ==
  ASSUME NEW S, IsFiniteSet(S), NEW x \in S
  PROVE  Cardinality(S \ {x}) = Cardinality(S) - 1 /\ Cardinality(S) \in Nat \ {0}
<1>1. Cardinality(S) \in Nat /\ Cardinality(S) # 0
  BY FS_CardinalityType, FS_EmptySet
<1> QED
  BY <1>1, FS_RemoveElement

LEMMA Sizes ==
  ASSUME NEW m
  PROVE  /\ IsFiniteSet(handles \cap {m}) /\ IsFiniteSet(Having(m)) /\ IsFiniteSet(Holding(m))
         /\ Cardinality(handles \cap {m}) \in Nat
         /\ Cardinality(Having(m)) \in Nat /\ Cardinality(Holding(m)) \in Nat
         /\ Holders(m) \in Nat
<1>1. IsFiniteSet(handles \cap {m})
  BY FS_Singleton, FS_Subset
<1>2. IsFiniteSet(Having(m)) /\ IsFiniteSet(Holding(m))
  BY FiniteAssumption, FS_Subset DEF Having, Holding
<1>3. /\ Cardinality(handles \cap {m}) \in Nat
      /\ Cardinality(Having(m)) \in Nat /\ Cardinality(Holding(m)) \in Nat
  BY <1>1, <1>2, FS_CardinalityType
<1> QED
  BY <1>1, <1>2, <1>3 DEF Holders

LEMMA HoldingCounts ==
  ASSUME NEW t \in Threads, \A u \in Threads \ {t} : stack'[u] = stack[u], NEW m
  PROVE  /\ Holds(t, m)' /\ ~Holds(t, m) =>
                Cardinality(Holding(m))' = Cardinality(Holding(m)) + 1
         /\ ~Holds(t, m)' /\ Holds(t, m) =>
                Cardinality(Holding(m))' = Cardinality(Holding(m)) - 1
         /\ (Holds(t, m)' <=> Holds(t, m)) =>
                Cardinality(Holding(m))' = Cardinality(Holding(m))
<1>1. Holding(m) = {u \in Threads : Holds(u, m)} /\ Holding(m)' = {u \in Threads : Holds(u, m)'}
  BY DEF Holding, Holds
<1>2. \A u \in Threads \ {t} : Holds(u, m)' <=> Holds(u, m)
  BY DEF Holds, At, Top
<1>3. IsFiniteSet(Holding(m))
  BY Sizes
<1>4. CASE Holds(t, m)' /\ ~Holds(t, m)
  <2>1. Holding(m)' = Holding(m) \cup {t} /\ t \notin Holding(m)
    BY <1>1, <1>2, <1>4
  <2> QED
    BY <1>3, <1>4, <2>1, OneMore
<1>5. CASE ~Holds(t, m)' /\ Holds(t, m)
  <2>1. Holding(m)' = Holding(m) \ {t} /\ t \in Holding(m)
    BY <1>1, <1>2, <1>5
  <2> QED
    BY <1>3, <1>5, <2>1, OneLess
<1>6. CASE Holds(t, m)' <=> Holds(t, m)
  <2>1. Holding(m)' = Holding(m)
    BY <1>1, <1>2, <1>6
  <2> QED
    BY <1>6, <2>1
<1> QED
  BY <1>4, <1>5, <1>6

LEMMA HavingCounts ==
  ASSUME NEW v \in Vms, \A w \in Vms \ {v} : images'[w] = images[w], NEW m
  PROVE  /\ Found(v, m)' /\ ~Found(v, m) =>
                Cardinality(Having(m))' = Cardinality(Having(m)) + 1
         /\ ~Found(v, m)' /\ Found(v, m) =>
                Cardinality(Having(m))' = Cardinality(Having(m)) - 1
         /\ (Found(v, m)' <=> Found(v, m)) =>
                Cardinality(Having(m))' = Cardinality(Having(m))
<1>1. Having(m) = {w \in Vms : Found(w, m)} /\ Having(m)' = {w \in Vms : Found(w, m)'}
  BY DEF Having
<1>2. \A w \in Vms \ {v} : Found(w, m)' <=> Found(w, m)
  BY DEF Found
<1>3. IsFiniteSet(Having(m))
  BY Sizes
<1>4. CASE Found(v, m)' /\ ~Found(v, m)
  <2>1. Having(m)' = Having(m) \cup {v} /\ v \notin Having(m)
    BY <1>1, <1>2, <1>4
  <2> QED
    BY <1>3, <1>4, <2>1, OneMore
<1>5. CASE ~Found(v, m)' /\ Found(v, m)
  <2>1. Having(m)' = Having(m) \ {v} /\ v \in Having(m)
    BY <1>1, <1>2, <1>5
  <2> QED
    BY <1>3, <1>5, <2>1, OneLess
<1>6. CASE Found(v, m)' <=> Found(v, m)
  <2>1. Having(m)' = Having(m)
    BY <1>1, <1>2, <1>6
  <2> QED
    BY <1>6, <2>1
<1> QED
  BY <1>4, <1>5, <1>6

\* A step that takes and gives up nothing.
LEMMA CountQuiet ==
  ASSUME CountInv, UNCHANGED <<refs, handles, freed, images>>,
         NEW t \in Threads, \A u \in Threads \ {t} : stack'[u] = stack[u],
         \A m \in Modules : Holds(t, m)' <=> Holds(t, m)
  PROVE  CountInv'
<1> SUFFICES ASSUME NEW m \in Modules
             PROVE  refs'[m] = Holders(m)' /\ refs'[m] <= Limit /\ (m \in freed' => refs'[m] = 0)
  BY DEF CountInv, RefsExact
<1>1. Cardinality(Holding(m))' = Cardinality(Holding(m))
  BY HoldingCounts
<1>2. Having(m)' = Having(m)
  BY DEF Having, Found
<1> QED
  BY <1>1, <1>2 DEF CountInv, RefsExact, Holders

-----------------------------------------------------------------------------
(* What the steps have in common. *)

LEMMA Unnested ==
  ASSUME TypeOK, FramesInv, NestInv, CallsInv, NEW t \in Threads, stack[t] # <<>>
  PROVE  Top(t).op # "load" => \A f \in Below(t) : f.vm # Top(t).vm
<1>1. /\ Top(t) \in On(t) /\ Top(t) = stack[t][Len(stack[t])]
      /\ DOMAIN stack[t] = 1 .. Len(stack[t]) /\ Len(stack[t]) \in Nat \ {0}
  BY Latest
<1>2. FrameInv(Top(t), t) /\ Top(t) \in Operations
  BY <1>1, Frame
<1>3. \A f \in Below(t) : f.op = "call" /\ f.vm \in executing
  BY Frame
<1>4. CASE Top(t).op = "call"
  <2> SUFFICES ASSUME NEW i \in 1 .. Len(stack[t]) - 1, stack[t][i].vm = Top(t).vm PROVE FALSE
    BY DEF Below
  <2>1. stack[t][i].op = "call"
    BY <1>3 DEF Below
  <2>2. i \in DOMAIN stack[t] /\ Len(stack[t]) \in DOMAIN stack[t] /\ i # Len(stack[t])
    BY <1>1
  <2> QED
    BY <1>1, <1>4, <2>1, <2>2 DEF CallsInv
<1>5. CASE Top(t).op = "free"
  BY <1>2, <1>3, <1>5 DEF FrameInv
<1> QED
  BY <1>2, <1>4, <1>5 DEF Operations

LEMMA FramesPop ==
  ASSUME TypeOK, NEW t \in Threads, stack[t] # <<>>, Pop(t),
         \A u \in Threads \ {t} : \A f \in On(u) : FrameInv(f, u)',
         \A f \in Below(t) : FrameInv(f, t)'
  PROVE  FramesInv'
<1> SUFFICES ASSUME NEW u \in Threads, NEW f \in On(u)' PROVE FrameInv(f, u)'
  BY DEF FramesInv
<1>1. CASE u # t
  <2>1. f \in On(u)
    BY <1>1, Popping DEF On
  <2> QED
    BY <1>1, <2>1
<1>2. CASE u = t
  BY <1>2, Popping
<1> QED
  BY <1>1, <1>2

LEMMA FramesBecome ==
  ASSUME TypeOK, NEW t \in Threads, stack[t] # <<>>, NEW g \in Operations, Become(t, g),
         \A u \in Threads \ {t} : \A f \in On(u) : FrameInv(f, u)',
         \A f \in Below(t) : FrameInv(f, t)', FrameInv(g, t)'
  PROVE  FramesInv'
<1> SUFFICES ASSUME NEW u \in Threads, NEW f \in On(u)' PROVE FrameInv(f, u)'
  BY DEF FramesInv
<1>1. CASE u # t
  <2>1. f \in On(u)
    BY <1>1, Becoming DEF On
  <2> QED
    BY <1>1, <2>1
<1>2. CASE u = t
  <2>1. f \in Below(t) \/ f = g
    BY <1>2, Becoming
  <2> QED
    BY <1>2, <2>1
<1> QED
  BY <1>1, <1>2

LEMMA AgreeStays ==
  ASSUME ImagesAgree, UNCHANGED <<bindings, images>>
  PROVE  ImagesAgree'
BY DEF ImagesAgree

\* An operation starts.
LEMMA PushStep ==
  ASSUME VmInv, NEW t \in Threads, NEW g \in Operations, Free(t),
         stack' = [stack EXCEPT ![t] = Append(@, g)], UNCHANGED <<shared, vms, active>>,
         g.op = "call" => g.vm \notin executing,
         executing' = IF g.op = "call" THEN executing \cup {g.vm} ELSE executing,
         g.step \in {"find", "images"}, owner[g.vm] = t, FrameInv(g, t)'
  PROVE  VmInv'
<1>0. TypeOK /\ FramesInv /\ NestInv /\ CallsInv /\ ImagesAgree /\ CountInv
  BY DEF VmInv
<1>1. /\ stack' \in [Threads -> Seq(Operations)] /\ \A u \in Threads \ {t} : stack'[u] = stack[u]
      /\ On(t)' = On(t) \cup {g} /\ Top(t)' = g
  <2>1. TypeOK
    BY <1>0
  <2> QED
    BY <2>1, Pushing
<1>2. TypeOK'
  <2>1. g.vm \in Vms
    BY DEF Operations
  <2> QED
    BY <1>0, <1>1, <2>1 DEF TypeOK, shared, vms
<1>3. FramesInv'
  <2> SUFFICES ASSUME NEW u \in Threads, NEW f \in On(u)' PROVE FrameInv(f, u)'
    BY DEF FramesInv
  <2>1. CASE u # t
    <3>1. f \in On(u) /\ FrameInv(f, u)
      BY <1>0, <1>1, <2>1, Frame DEF On
    <3>2. f.vm # g.vm
      BY <1>0, <2>1, <3>1, Apart
    <3> QED
      BY <3>1, <3>2, FrameStays DEF shared, vms
  <2>2. CASE u = t /\ f \in On(t)
    <3>1. FrameInv(f, t) /\ f.vm \in executing
      BY <1>0, <2>2, Frame
    <3> QED
      BY <2>2, <3>1, FrameStays DEF shared, vms
  <2>3. CASE u = t /\ f = g
    BY <2>3
  <2> QED
    BY <1>1, <2>1, <2>2, <2>3
<1>4. NestInv'
  BY <1>0, NestPush
<1>5. CallsInv'
  BY <1>0, CallsPush
<1>6. ImagesAgree'
  BY <1>0, AgreeStays DEF vms
<1>7. CountInv'
  <2>1. \A m \in Modules : ~Holds(t, m) /\ ~Holds(t, m)'
    BY <1>1 DEF Holds, Free, At
  <2> QED
    BY <1>0, <1>1, <2>1, CountQuiet DEF shared, vms
<1> QED
  BY <1>2, <1>3, <1>4, <1>5, <1>6, <1>7 DEF VmInv

\* The latest operation goes on.
LEMMA BecomeStep ==
  ASSUME VmInv, NEW t \in Threads, stack[t] # <<>>, NEW g \in Operations, Become(t, g),
         g.op = Top(t).op, g.vm = Top(t).vm, Top(t).step # "run",
         UNCHANGED <<handles, vms, executing>>, FrameInv(g, t)',
         \/ g.step # "run" /\ active' = active
         \/ g.step = "run" /\ g.previous = active[t] /\ active' = [active EXCEPT ![t] = g.vm]
  PROVE  FramesInv' /\ NestInv' /\ CallsInv' /\ ImagesAgree'
<1>0. TypeOK /\ FramesInv /\ NestInv /\ CallsInv /\ ImagesAgree
  BY DEF VmInv
<1>1. \A u \in Threads : \A f \in On(u) : FrameInv(f, u)'
  <2> SUFFICES ASSUME NEW u \in Threads, NEW f \in On(u) PROVE FrameInv(f, u)'
    OBVIOUS
  <2>1. FrameInv(f, u)
    BY <1>0, Frame
  <2> QED
    BY <2>1, FrameStays DEF vms
<1>2. Below(t) \subseteq On(t)
  BY <1>0, Frame
<1>3. FramesInv'
  BY <1>0, <1>1, <1>2, FramesBecome
<1>4. NestInv'
  BY <1>0, NestBecome
<1>5. CallsInv'
  BY <1>0, CallsBecome
<1>6. ImagesAgree'
  BY <1>0, AgreeStays DEF vms
<1> QED
  BY <1>3, <1>4, <1>5, <1>6

\* The latest operation ends.
LEMMA PopStep ==
  ASSUME VmInv, NEW t \in Threads, stack[t] # <<>>, Pop(t), Done(t),
         UNCHANGED <<handles, vms>>,
         \/ Top(t).step # "run" /\ active' = active
         \/ Top(t).step = "run" /\ active' = [active EXCEPT ![t] = Top(t).previous]
  PROVE  FramesInv' /\ NestInv' /\ CallsInv' /\ ImagesAgree'
<1>0. TypeOK /\ FramesInv /\ NestInv /\ CallsInv /\ ImagesAgree
  BY DEF VmInv
<1>1. executing' = IF Top(t).op = "call" THEN executing \ {Top(t).vm} ELSE executing
  BY DEF Done, OpOf
<1>2. Top(t) \in On(t) /\ Top(t) \in Operations /\ owner[Top(t).vm] = t
  BY <1>0, Latest, Frame DEF FrameInv
<1>3. ASSUME NEW u \in Threads \ {t}, NEW f \in On(u) PROVE FrameInv(f, u)'
  <2>1. FrameInv(f, u)
    BY <1>0, Frame
  <2>2. f.vm # Top(t).vm
    BY <1>0, <1>2, Apart
  <2> QED
    BY <1>1, <2>1, <2>2, FrameStays DEF vms
<1>4. ASSUME NEW f \in Below(t) PROVE FrameInv(f, t)'
  <2>1. FrameInv(f, t)
    BY <1>0, Frame
  <2>2. Top(t).op = "call" => f.vm # Top(t).vm
    BY <1>0, Unnested
  <2> QED
    BY <1>1, <2>1, <2>2, FrameStays DEF vms
<1>5. FramesInv'
  BY <1>0, <1>3, <1>4, FramesPop
<1>6. NestInv'
  BY <1>0, NestPop
<1>7. CallsInv'
  BY <1>0, <1>1, CallsPop
<1>8. ImagesAgree'
  BY <1>0, AgreeStays DEF vms
<1> QED
  BY <1>5, <1>6, <1>7, <1>8

\* What is uncovered runs foreign code: it is not making an image.
LEMMA PopHolds ==
  ASSUME TypeOK, NestInv, NEW t \in Threads, stack[t] # <<>>, Pop(t), NEW m
  PROVE  ~Holds(t, m)'
<1>1. /\ Len(stack'[t]) = Len(stack[t]) - 1 /\ Len(stack[t]) \in Nat \ {0}
      /\ \A i \in 1 .. Len(stack[t]) - 1 : stack'[t][i] = stack[t][i]
      /\ stack'[t] \in Seq(Operations)
  BY Popping
<1>2. Depth(t) \in {Len(stack[t]), Len(stack[t]) - 1}
  BY DEF Depth
<1>3. \A i \in 1 .. Len(stack[t]) - 1 : stack[t][i].step = "run"
  BY <1>1, <1>2 DEF NestInv
<1>4. CASE stack'[t] # <<>>
  <2>1. Len(stack'[t]) \in Nat \ {0}
    BY <1>1, <1>4, EmptySeq
  <2>2. \A a \in Nat \ {0} : \A b \in Nat : a = b - 1 => a \in 1 .. b - 1
    OBVIOUS
  <2>3. Len(stack'[t]) \in 1 .. Len(stack[t]) - 1
    BY <1>1, <2>1, <2>2
  <2>4. stack'[t][Len(stack'[t])].step = "run"
    BY <1>1, <1>3, <2>3
  <2> QED
    BY <2>4 DEF Holds, At, Top, Last
<1>5. CASE stack'[t] = <<>>
  BY <1>5 DEF Holds, At
<1> QED
  BY <1>4, <1>5

\* A reference goes with its holder.
LEMMA ReleaseCounts ==
  ASSUME TypeOK, CountInv, NEW x \in Modules, Release(x),
         Holders(x)' = Holders(x) - 1, Holders(x) # 0,
         \A m \in Modules \ {x} : Holders(m)' = Holders(m)
  PROVE  /\ CountInv' /\ refs' \in [Modules -> 0 .. Limit] /\ freed' \subseteq Modules
<1>1. /\ refs \in [Modules -> 0 .. Limit] /\ freed \subseteq Modules /\ Limit \in Nat
      /\ refs' = [refs EXCEPT ![x] = @ - 1]
      /\ freed' = IF refs[x] = 1 THEN freed \cup {x} ELSE freed
  BY LimitAssumption DEF TypeOK, Release, IsLast
<1>2. \A m \in Modules : refs[m] = Holders(m) /\ refs[m] <= Limit /\ (m \in freed => refs[m] = 0)
  BY DEF CountInv, RefsExact
<1>3. refs[x] \in 1 .. Limit
  BY <1>1, <1>2
<1>4. refs'[x] = refs[x] - 1 /\ \A m \in Modules \ {x} : refs'[m] = refs[m]
  BY <1>1
<1>5. ASSUME NEW m \in Modules
      PROVE  /\ refs'[m] = Holders(m)' /\ refs'[m] <= Limit
             /\ m \in freed' => refs'[m] = 0
  <2>1. CASE m = x
    BY <1>1, <1>2, <1>3, <1>4, <2>1
  <2>2. CASE m # x
    BY <1>1, <1>2, <1>4, <2>2
  <2> QED
    BY <2>1, <2>2
<1>6. refs' \in [Modules -> 0 .. Limit]
  BY <1>1, <1>3
<1>7. CountInv'
  BY <1>1, <1>5 DEF CountInv, RefsExact
<1> QED
  BY <1>1, <1>6, <1>7

\* An operation that was making or destroying an image gives its reference back.
LEMMA DroppedHold ==
  ASSUME TypeOK, CountInv, NEW t \in Threads, NEW x \in Modules, Release(x),
         UNCHANGED <<handles, images>>, \A u \in Threads \ {t} : stack'[u] = stack[u],
         \A m \in Modules : (Holds(t, m) <=> m = x) /\ ~Holds(t, m)'
  PROVE  CountInv' /\ refs' \in [Modules -> 0 .. Limit] /\ freed' \subseteq Modules
<1>1. ASSUME NEW m \in Modules
      PROVE  Having(m)' = Having(m)
  BY DEF Having, Found
<1>2. Holders(x)' = Holders(x) - 1
  <2>1. Cardinality(Holding(x))' = Cardinality(Holding(x)) - 1
    BY HoldingCounts
  <2> QED
    BY <1>1, <2>1, Sizes DEF Holders
<1>3. Holders(x) # 0
  <2>1. t \in Holding(x)
    BY DEF Holding, Holds
  <2>2. Cardinality(Holding(x)) # 0
    BY <2>1, Sizes, OneLess
  <2> QED
    BY <2>2, Sizes DEF Holders
<1>4. ASSUME NEW m \in Modules \ {x} PROVE Holders(m)' = Holders(m)
  <2>1. Cardinality(Holding(m))' = Cardinality(Holding(m))
    BY HoldingCounts
  <2> QED
    BY <1>1, <2>1 DEF Holders
<1> QED
  BY <1>2, <1>3, <1>4, ReleaseCounts

-----------------------------------------------------------------------------
(* Modules, VMs and bindings. *)

LEMMA LoadModuleStep ==
  ASSUME VmInv, NEW x \in Modules, LoadModule(x)
  PROVE  VmInv'
<1>0. /\ TypeOK /\ FramesInv /\ NestInv /\ CallsInv /\ ImagesAgree /\ CountInv
      /\ refs[x] = 0 /\ x \notin freed
      /\ refs' = [refs EXCEPT ![x] = 1] /\ handles' = handles \cup {x}
      /\ UNCHANGED <<freed, owner, bindings, images, executing, stack, active>>
  BY DEF VmInv, LoadModule, vms
<1>1. TypeOK'
  BY <1>0, LimitAssumption DEF TypeOK
<1>2. FramesInv'
  <2> SUFFICES ASSUME NEW u \in Threads, NEW f \in On(u) PROVE FrameInv(f, u)'
    BY <1>0 DEF FramesInv, On
  <2>1. FrameInv(f, u)
    BY <1>0, Frame
  <2> QED
    BY <1>0, <2>1, FrameStays
<1>3. NestInv' /\ CallsInv' /\ ImagesAgree'
  BY <1>0 DEF NestInv, Depth, Free, At, Top, CallsInv, On, ImagesAgree
<1>4. ASSUME NEW m \in Modules
      PROVE  refs'[m] = Holders(m)' /\ refs'[m] <= Limit /\ (m \in freed' => refs'[m] = 0)
  <2>1. Having(m)' = Having(m) /\ Holding(m)' = Holding(m)
    BY <1>0 DEF Having, Found, Holding, At, Top
  <2>2. refs[m] = Holders(m) /\ refs[m] <= Limit /\ (m \in freed => refs[m] = 0)
    BY <1>0 DEF CountInv, RefsExact
  <2>3. CASE m = x
    <3>1. Cardinality(handles \cap {m}) = 0
      BY <1>0, <2>2, <2>3, Sizes DEF Holders
    <3>2. handles \cap {m} = {} /\ handles' \cap {m} = {m}
      BY <1>0, <2>3, <3>1, Sizes, FS_EmptySet
    <3>3. Cardinality(handles' \cap {m}) = 1
      BY <3>2, FS_Singleton
    <3>4. Holders(m)' = Holders(m) + 1
      BY <2>1, <3>1, <3>3, Sizes DEF Holders
    <3>5. refs'[m] = 1 /\ Limit >= 1
      BY <1>0, <2>3, LimitAssumption DEF TypeOK
    <3> QED
      BY <1>0, <2>2, <2>3, <3>4, <3>5
  <2>4. CASE m # x
    <3>1. handles' \cap {m} = handles \cap {m} /\ refs'[m] = refs[m]
      BY <1>0, <2>4 DEF TypeOK
    <3> QED
      BY <1>0, <2>1, <2>2, <3>1 DEF Holders
  <2> QED
    BY <2>3, <2>4
<1>5. CountInv'
  BY <1>0, <1>4 DEF CountInv, RefsExact, TypeOK
<1> QED
  BY <1>1, <1>2, <1>3, <1>5 DEF VmInv

LEMMA FreeHandleStep ==
  ASSUME VmInv, NEW t \in Threads, NEW x \in Modules, FreeHandle(t, x)
  PROVE  VmInv'
<1>0. /\ TypeOK /\ FramesInv /\ NestInv /\ CallsInv /\ ImagesAgree /\ CountInv
      /\ x \in handles /\ handles' = handles \ {x} /\ Release(x)
      /\ \A p \in Frames : FrameAt(p).module = x => FrameAt(p).step \notin {"find", "exchange"}
      /\ UNCHANGED <<owner, bindings, images, executing, stack, active>>
  BY DEF VmInv, FreeHandle, vms
<1>1. FramesInv'
  <2> SUFFICES ASSUME NEW u \in Threads, NEW f \in On(u) PROVE FrameInv(f, u)'
    BY <1>0 DEF FramesInv, On
  <2>1. FrameInv(f, u)
    BY <1>0, Frame
  <2>2. f.module = x => f.step \notin {"find", "exchange"}
    <3>1. PICK i \in DOMAIN stack[u] : f = stack[u][i]
      BY DEF On
    <3>2. <<u, i>> \in Frames /\ FrameAt(<<u, i>>) = f
      BY <3>1 DEF Frames, FrameAt
    <3> QED
      BY <1>0, <3>2
  <2> QED
    BY <1>0, <2>1, <2>2, FrameStays
<1>2. NestInv' /\ CallsInv' /\ ImagesAgree'
  BY <1>0 DEF NestInv, Depth, Free, At, Top, CallsInv, On, ImagesAgree
<1>3. \A m \in Modules : Having(m)' = Having(m) /\ Holding(m)' = Holding(m)
  BY <1>0 DEF Having, Found, Holding, At, Top
<1>4. Holders(x)' = Holders(x) - 1 /\ Holders(x) # 0
  <2>1. handles \cap {x} = {x} /\ handles' \cap {x} = {}
    BY <1>0
  <2>2. Cardinality(handles \cap {x}) = 1 /\ Cardinality(handles' \cap {x}) = 0
    BY <2>1, FS_Singleton, FS_EmptySet
  <2> QED
    BY <1>3, <2>2, Sizes DEF Holders
<1>5. \A m \in Modules \ {x} : Holders(m)' = Holders(m)
  <2> SUFFICES ASSUME NEW m \in Modules \ {x} PROVE Holders(m)' = Holders(m)
    OBVIOUS
  <2>1. handles' \cap {m} = handles \cap {m}
    BY <1>0
  <2> QED
    BY <1>3, <2>1 DEF Holders
<1>6. CountInv' /\ refs' \in [Modules -> 0 .. Limit] /\ freed' \subseteq Modules
  BY <1>0, <1>4, <1>5, ReleaseCounts
<1>7. TypeOK'
  BY <1>0, <1>6 DEF TypeOK
<1> QED
  BY <1>1, <1>2, <1>6, <1>7 DEF VmInv

LEMMA CreateVmStep ==
  ASSUME VmInv, NEW t \in Threads, NEW v \in Vms, CreateVm(t, v)
  PROVE  VmInv'
<1>0. /\ TypeOK /\ FramesInv /\ NestInv /\ CallsInv /\ ImagesAgree /\ CountInv
      /\ owner[v] = None /\ owner' = [owner EXCEPT ![v] = t]
      /\ UNCHANGED <<refs, handles, freed, bindings, images, executing, stack, active>>
  BY DEF VmInv, CreateVm, shared
<1>1. TypeOK'
  BY <1>0 DEF TypeOK
<1>2. FramesInv'
  <2> SUFFICES ASSUME NEW u \in Threads, NEW f \in On(u) PROVE FrameInv(f, u)'
    BY <1>0 DEF FramesInv, On
  <2>1. FrameInv(f, u) /\ f \in Operations
    BY <1>0, Frame
  <2>2. f.vm # v
    BY <1>0, <2>1, NoneAssumption DEF FrameInv
  <2>3. owner'[f.vm] = owner[f.vm]
    BY <1>0, <2>2 DEF TypeOK
  <2> QED
    BY <1>0, <2>1, <2>3, FrameStays
<1>3. NestInv' /\ CallsInv' /\ ImagesAgree'
  BY <1>0 DEF NestInv, Depth, Free, At, Top, CallsInv, On, ImagesAgree
<1>4. CountInv'
  <2>1. \A m \in Modules : Holds(t, m)' <=> Holds(t, m)
    BY <1>0 DEF Holds, At, Top
  <2> QED
    BY <1>0, <2>1, CountQuiet
<1> QED
  BY <1>1, <1>2, <1>3, <1>4 DEF VmInv

LEMMA BindForeignStep ==
  ASSUME VmInv, NEW t \in Threads, NEW v \in Vms, NEW n \in Names, NEW a \in Addresses,
         BindForeign(t, v, n, a)
  PROVE  VmInv'
<1>0. /\ TypeOK /\ FramesInv /\ NestInv /\ CallsInv /\ ImagesAgree /\ CountInv
      /\ Free(t) /\ owner[v] = t /\ images[v] = <<>>
      /\ bindings' = [bindings EXCEPT ![v] = [@ EXCEPT ![n] = a]]
      /\ UNCHANGED <<refs, handles, freed, owner, images, executing, stack, active>>
  BY DEF VmInv, BindForeign, Bindable, shared
<1>1. TypeOK'
  BY <1>0 DEF TypeOK
<1>2. FramesInv'
  <2> SUFFICES ASSUME NEW u \in Threads, NEW f \in On(u) PROVE FrameInv(f, u)'
    BY <1>0 DEF FramesInv, On
  <2>1. FrameInv(f, u) /\ f \in Operations
    BY <1>0, Frame
  <2>2. f.vm # v
    <3>1. CASE u # t
      BY <1>0, <3>1, Apart
    <3>2. CASE u = t
      <4>1. Found(f.vm, f.module)
        BY <1>0, <3>2, Frame
      <4> QED
        BY <1>0, <4>1 DEF Found
    <3> QED
      BY <3>1, <3>2
  <2>3. bindings'[f.vm] = bindings[f.vm]
    BY <1>0, <2>1, <2>2 DEF TypeOK, Operations
  <2> QED
    BY <1>0, <2>1, <2>3, FrameStays
<1>3. NestInv' /\ CallsInv'
  BY <1>0 DEF NestInv, Depth, Free, At, Top, CallsInv, On
<1>4. ImagesAgree'
  <2>1. \A w \in Vms : w # v => bindings'[w] = bindings[w]
    BY <1>0 DEF TypeOK
  <2> QED
    BY <1>0, <2>1 DEF ImagesAgree
<1>5. CountInv'
  <2>1. \A m \in Modules : Holds(t, m)' <=> Holds(t, m)
    BY <1>0 DEF Holds, At, Top
  <2> QED
    BY <1>0, <2>1, CountQuiet
<1> QED
  BY <1>1, <1>2, <1>3, <1>4, <1>5 DEF VmInv

-----------------------------------------------------------------------------
(* Loads and calls. *)

LEMMA BeginStep ==
  ASSUME VmInv, NEW t \in Threads, NEW v \in Vms,
         \/ \E m \in Modules : BeginLoad(t, v, m) \/ BeginCall(t, v, m)
         \/ BeginFree(t, v)
  PROVE  VmInv'
<1>1. ASSUME NEW m \in Modules, BeginLoad(t, v, m) PROVE VmInv'
  <2>1. PICK g \in Operations :
            g = [op |-> "load", vm |-> v, module |-> m, step |-> "find", saw |-> 0,
                 table |-> <<>>, previous |-> None]
    BY Starting DEF Steps
  <2>2. /\ Free(t) /\ owner[v] = t /\ Named(v, m)
        /\ stack' = [stack EXCEPT ![t] = Append(@, g)]
        /\ UNCHANGED <<shared, vms, executing, active>>
    BY <1>1, <2>1 DEF BeginLoad, MayCall, Push
  <2>3. FrameInv(g, t)'
    BY <2>1, <2>2, NoneAssumption DEF FrameInv, Named, Found, shared, vms
  <2> QED
    BY <2>1, <2>2, <2>3, PushStep
<1>2. ASSUME NEW m \in Modules, BeginCall(t, v, m) PROVE VmInv'
  <2>1. PICK g \in Operations :
            g = [op |-> "call", vm |-> v, module |-> m, step |-> "find", saw |-> 0,
                 table |-> <<>>, previous |-> None]
    BY Starting DEF Steps
  <2>2. /\ Free(t) /\ owner[v] = t /\ Named(v, m) /\ v \notin executing
        /\ stack' = [stack EXCEPT ![t] = Append(@, g)]
        /\ executing' = executing \cup {v}
        /\ UNCHANGED <<shared, vms, active>>
    BY <1>2, <2>1 DEF BeginCall, MayCall, Callable, Push
  <2>3. FrameInv(g, t)'
    BY <2>1, <2>2, NoneAssumption DEF FrameInv, Named, Found, shared, vms
  <2> QED
    BY <2>1, <2>2, <2>3, PushStep
<1>3. ASSUME BeginFree(t, v) PROVE VmInv'
  <2>1. PICK g \in Operations :
            g = [op |-> "free", vm |-> v, module |-> None, step |-> "images", saw |-> 0,
                 table |-> <<>>, previous |-> None]
    BY Starting DEF Steps
  <2>2. /\ Free(t) /\ owner[v] = t /\ v \notin executing
        /\ stack' = [stack EXCEPT ![t] = Append(@, g)]
        /\ UNCHANGED <<shared, vms, executing, active>>
    BY <1>3, <2>1 DEF BeginFree, MayCall, Push
  <2>3. FrameInv(g, t)'
    BY <2>1, <2>2 DEF FrameInv, vms
  <2> QED
    BY <2>1, <2>2, <2>3, PushStep
<1> QED
  BY <1>1, <1>2, <1>3

LEMMA FindImageStep ==
  ASSUME VmInv, NEW t \in Threads, FindImage(t)
  PROVE  VmInv'
<1>0. /\ TypeOK /\ FramesInv /\ NestInv /\ CallsInv /\ CountInv
      /\ stack[t] # <<>> /\ Top(t).step = "find" /\ Found(Top(t).vm, Top(t).module)
      /\ UNCHANGED <<refs, handles, freed, owner, bindings, images, executing, active>>
  BY DEF VmInv, FindImage, At, shared, vms
<1>1. PICK h \in Operations : h = Top(t) /\ FrameInv(h, t)
  BY <1>0, Latest, Frame
<1>2. CASE Top(t).op = "call"
  <2>1. PICK g \in Operations : g = [h EXCEPT !.step = "start"]
    BY Changing DEF Steps
  <2>2. Become(t, g)
    BY <1>1, <1>2, <2>1 DEF FindImage, Move
  <2>3. g.op = h.op /\ g.vm = h.vm /\ g.module = h.module /\ g.step = "start"
    BY <2>1 DEF Operations
  <2>4. FrameInv(g, t)'
    BY <1>0, <1>1, <1>2, <2>3 DEF FrameInv, Found
  <2>5. FramesInv' /\ NestInv' /\ CallsInv' /\ ImagesAgree'
    BY <1>0, <1>1, <2>2, <2>3, <2>4, BecomeStep DEF vms
  <2>6. stack' \in [Threads -> Seq(Operations)] /\ Top(t)' = g /\ \A u \in Threads \ {t} : stack'[u] = stack[u]
    BY <1>0, <2>2, Becoming
  <2>7. \A m \in Modules : ~Holds(t, m) /\ ~Holds(t, m)'
    BY <1>0, <2>3, <2>6 DEF Holds, At
  <2>8. CountInv' /\ TypeOK'
    BY <1>0, <2>6, <2>7, CountQuiet DEF TypeOK
  <2> QED
    BY <2>5, <2>8 DEF VmInv
<1>3. CASE Top(t).op # "call"
  <2>1. Pop(t) /\ Done(t)
    BY <1>0, <1>3 DEF FindImage, Done, OpOf
  <2>2. FramesInv' /\ NestInv' /\ CallsInv' /\ ImagesAgree'
    BY <1>0, <2>1, PopStep DEF vms
  <2>3. stack' \in [Threads -> Seq(Operations)] /\ \A u \in Threads \ {t} : stack'[u] = stack[u]
    BY <1>0, <2>1, Popping
  <2>4. \A m \in Modules : ~Holds(t, m) /\ ~Holds(t, m)'
    BY <1>0, <2>1, PopHolds DEF Holds, At
  <2>5. CountInv' /\ TypeOK'
    BY <1>0, <2>3, <2>4, CountQuiet DEF TypeOK
  <2> QED
    BY <2>2, <2>5 DEF VmInv
<1> QED
  BY <1>2, <1>3

LEMMA BeginImageStep ==
  ASSUME VmInv, NEW t \in Threads, BeginImage(t)
  PROVE  VmInv'
<1>0. /\ TypeOK /\ FramesInv /\ NestInv /\ CallsInv /\ CountInv
      /\ stack[t] # <<>> /\ Top(t).step = "find" /\ ~Found(Top(t).vm, Top(t).module)
      /\ UNCHANGED <<refs, handles, freed, owner, bindings, images, executing, active>>
  BY DEF VmInv, BeginImage, At, shared, vms
<1>1. PICK h \in Operations : h = Top(t) /\ FrameInv(h, t)
  BY <1>0, Latest, Frame
<1>2. h.module \in Modules /\ h.vm \in Vms
  BY <1>0, <1>1 DEF FrameInv, Operations
<1>3. refs[h.module] \in 0 .. Limit
  BY <1>0, <1>2 DEF TypeOK
<1>4. [n \in Imports[h.module] |-> bindings[h.vm][n]] \in Tables
  <2>1. Imports[h.module] \in SUBSET Names
    BY <1>2, ImportsAssumption
  <2>2. \A n \in Imports[h.module] : bindings[h.vm][n] \in Addresses \cup {None}
    BY <1>0, <1>2, <2>1 DEF TypeOK
  <2>3. [n \in Imports[h.module] |-> bindings[h.vm][n]] \in [Imports[h.module] -> Addresses \cup {None}]
    BY <2>2
  <2> QED
    BY <2>1, <2>3 DEF Tables
<1>5. PICK g \in Operations :
          g = [h EXCEPT !.step = "exchange", !.saw = refs[h.module],
                        !.table = [n \in Imports[h.module] |-> bindings[h.vm][n]]]
  BY <1>3, <1>4, Changing DEF Steps
<1>6. Become(t, g)
  BY <1>1, <1>5 DEF BeginImage
<1>7. /\ g.op = h.op /\ g.vm = h.vm /\ g.module = h.module /\ g.step = "exchange"
      /\ g.table = [n \in Imports[h.module] |-> bindings[h.vm][n]]
  BY <1>5 DEF Operations
<1>8. FrameInv(g, t)'
  <2>1. h.module \in handles
    BY <1>0, <1>1 DEF FrameInv, Named
  <2> QED
    BY <1>0, <1>1, <1>7, <2>1 DEF FrameInv, Found
<1>9. FramesInv' /\ NestInv' /\ CallsInv' /\ ImagesAgree'
  BY <1>0, <1>1, <1>6, <1>7, <1>8, BecomeStep DEF vms
<1>10. stack' \in [Threads -> Seq(Operations)] /\ Top(t)' = g /\ \A u \in Threads \ {t} : stack'[u] = stack[u]
  BY <1>0, <1>6, Becoming
<1>11. \A m \in Modules : ~Holds(t, m) /\ ~Holds(t, m)'
  BY <1>0, <1>7, <1>10 DEF Holds, At
<1>12. CountInv' /\ TypeOK'
  BY <1>0, <1>10, <1>11, CountQuiet DEF TypeOK
<1> QED
  BY <1>9, <1>12 DEF VmInv

LEMMA NoImageStep ==
  ASSUME VmInv, NEW t \in Threads, NoImage(t) \/ AtLimit(t) \/ EndRun(t)
  PROVE  VmInv'
<1>0. /\ TypeOK /\ FramesInv /\ NestInv /\ CallsInv /\ CountInv
      /\ stack[t] # <<>> /\ Top(t).step \in {"find", "exchange", "run"}
      /\ Pop(t) /\ Done(t)
      /\ UNCHANGED <<refs, handles, freed, owner, bindings, images>>
      /\ \/ Top(t).step # "run" /\ active' = active
         \/ Top(t).step = "run" /\ active' = [active EXCEPT ![t] = Top(t).previous]
  BY DEF VmInv, NoImage, AtLimit, EndRun, Fail, Restored, At, shared, vms
<1>1. FramesInv' /\ NestInv' /\ CallsInv' /\ ImagesAgree'
  BY <1>0, PopStep DEF vms
<1>2. stack' \in [Threads -> Seq(Operations)] /\ \A u \in Threads \ {t} : stack'[u] = stack[u]
  BY <1>0, Popping
<1>3. \A m \in Modules : ~Holds(t, m) /\ ~Holds(t, m)'
  BY <1>0, PopHolds DEF Holds, At
<1>4. active' \in [Threads -> Vms \cup {None}] /\ executing' \subseteq Vms
  <2>1. Top(t).previous \in Vms \cup {None}
    BY <1>0, Latest DEF Operations
  <2> QED
    BY <1>0, <2>1 DEF TypeOK, Done
<1>5. CountInv' /\ TypeOK'
  BY <1>0, <1>2, <1>3, <1>4, CountQuiet DEF TypeOK
<1> QED
  BY <1>1, <1>5 DEF VmInv

LEMMA ExchangeStep ==
  ASSUME VmInv, NEW t \in Threads, Exchange(t)
  PROVE  VmInv'
<1>0. /\ TypeOK /\ FramesInv /\ NestInv /\ CallsInv /\ CountInv
      /\ stack[t] # <<>> /\ Top(t).step = "exchange" /\ Top(t).saw # Limit
      /\ refs[Top(t).module] = Top(t).saw
      /\ refs' = [refs EXCEPT ![Top(t).module] = Top(t).saw + 1]
      /\ UNCHANGED <<handles, freed, owner, bindings, images, executing, active>>
  BY DEF VmInv, Exchange, Exhausted, Expected, At, vms
<1>1. PICK h \in Operations : h = Top(t) /\ FrameInv(h, t)
  BY <1>0, Latest, Frame
<1>2. PICK x \in Modules : x = h.module
  BY <1>0, <1>1 DEF FrameInv, Operations
<1>3. PICK g \in Operations : g = [h EXCEPT !.step = "build"]
  BY Changing DEF Steps
<1>4. Become(t, g)
  BY <1>1, <1>3 DEF Exchange, Move
<1>5. /\ g.op = h.op /\ g.vm = h.vm /\ g.module = h.module /\ g.step = "build"
      /\ g.table = h.table
  BY <1>3 DEF Operations
<1>6. FrameInv(g, t)'
  BY <1>0, <1>1, <1>5 DEF FrameInv, Found
<1>7. FramesInv' /\ NestInv' /\ CallsInv' /\ ImagesAgree'
  BY <1>0, <1>1, <1>4, <1>5, <1>6, BecomeStep DEF vms
<1>8. stack' \in [Threads -> Seq(Operations)] /\ Top(t)' = g /\ stack'[t] # <<>> /\ \A u \in Threads \ {t} : stack'[u] = stack[u]
  BY <1>0, <1>4, Becoming
<1>9. x \in handles /\ refs[x] # Limit
  BY <1>0, <1>1, <1>2 DEF FrameInv
<1>10. refs' \in [Modules -> 0 .. Limit] /\ refs'[x] = refs[x] + 1 /\ \A m \in Modules \ {x} : refs'[m] = refs[m]
  <2>1. refs[x] \in 0 .. Limit /\ refs' = [refs EXCEPT ![x] = refs[x] + 1]
    BY <1>0, <1>1, <1>2 DEF TypeOK
  <2>2. refs[x] + 1 \in 0 .. Limit
    BY <1>9, <2>1, LimitAssumption
  <2> QED
    BY <1>0, <2>1, <2>2 DEF TypeOK
<1>11. ASSUME NEW m \in Modules
       PROVE  refs'[m] = Holders(m)' /\ refs'[m] <= Limit /\ (m \in freed' => refs'[m] = 0)
  <2>1. refs[m] = Holders(m) /\ (m \in freed => refs[m] = 0)
    BY <1>0 DEF CountInv, RefsExact
  <2>2. ~Holds(t, m) /\ (Holds(t, m)' <=> m = x)
    BY <1>0, <1>2, <1>5, <1>8 DEF Holds, At
  <2>3. Having(m)' = Having(m)
    BY <1>0 DEF Having, Found
  <2>4. refs'[m] <= Limit
    BY <1>10, LimitAssumption
  <2>5. CASE m = x
    <3>1. Cardinality(Holding(m))' = Cardinality(Holding(m)) + 1
      BY <1>8, <2>2, <2>5, HoldingCounts
    <3>2. Holders(m)' = Holders(m) + 1
      BY <1>0, <2>3, <3>1, Sizes DEF Holders
    <3>3. m \notin freed
      <4>1. handles \cap {m} = {m}
        BY <1>9, <2>5
      <4>2. Cardinality(handles \cap {m}) = 1
        BY <4>1, FS_Singleton
      <4>3. Holders(m) # 0
        BY <4>2, Sizes DEF Holders
      <4> QED
        BY <2>1, <4>3
    <3> QED
      BY <1>0, <1>10, <2>1, <2>4, <2>5, <3>2, <3>3
  <2>6. CASE m # x
    <3>1. Cardinality(Holding(m))' = Cardinality(Holding(m))
      BY <1>8, <2>2, <2>6, HoldingCounts
    <3>2. Holders(m)' = Holders(m)
      BY <1>0, <2>3, <3>1 DEF Holders
    <3> QED
      BY <1>0, <1>10, <2>1, <2>4, <2>6, <3>2
  <2> QED
    BY <2>5, <2>6
<1>12. TypeOK'
  BY <1>0, <1>8, <1>10 DEF TypeOK
<1>13. CountInv'
  BY <1>11, <1>12 DEF CountInv, RefsExact, TypeOK
<1> QED
  BY <1>7, <1>12, <1>13 DEF VmInv

LEMMA ExchangeFailsStep ==
  ASSUME VmInv, NEW t \in Threads, ExchangeFails(t)
  PROVE  VmInv'
<1>0. /\ TypeOK /\ FramesInv /\ NestInv /\ CallsInv /\ CountInv
      /\ stack[t] # <<>> /\ Top(t).step = "exchange"
      /\ UNCHANGED <<refs, handles, freed, owner, bindings, images, executing, active>>
  BY DEF VmInv, ExchangeFails, At, shared, vms
<1>1. PICK h \in Operations : h = Top(t) /\ FrameInv(h, t)
  BY <1>0, Latest, Frame
<1>2. refs[h.module] \in 0 .. Limit
  BY <1>0, <1>1 DEF FrameInv, Operations, TypeOK
<1>3. PICK g \in Operations : g = [h EXCEPT !.saw = refs[h.module]]
  BY <1>2, Changing DEF Steps
<1>4. Become(t, g)
  BY <1>1, <1>3 DEF ExchangeFails
<1>5. /\ g.op = h.op /\ g.vm = h.vm /\ g.module = h.module /\ g.step = h.step
      /\ g.table = h.table
  BY <1>3 DEF Operations
<1>6. FrameInv(g, t)'
  BY <1>0, <1>1, <1>5 DEF FrameInv, Found
<1>7. FramesInv' /\ NestInv' /\ CallsInv' /\ ImagesAgree'
  BY <1>0, <1>1, <1>4, <1>5, <1>6, BecomeStep DEF vms
<1>8. stack' \in [Threads -> Seq(Operations)] /\ Top(t)' = g /\ \A u \in Threads \ {t} : stack'[u] = stack[u]
  BY <1>0, <1>4, Becoming
<1>9. \A m \in Modules : ~Holds(t, m) /\ ~Holds(t, m)'
  BY <1>0, <1>1, <1>5, <1>8 DEF Holds, At
<1>10. CountInv' /\ TypeOK'
  BY <1>0, <1>8, <1>9, CountQuiet DEF TypeOK
<1> QED
  BY <1>7, <1>10 DEF VmInv

LEMMA StartRunStep ==
  ASSUME VmInv, NEW t \in Threads, StartRun(t)
  PROVE  VmInv'
<1>0. /\ TypeOK /\ FramesInv /\ NestInv /\ CallsInv /\ CountInv
      /\ stack[t] # <<>> /\ Top(t).step = "start"
      /\ active' = [active EXCEPT ![t] = Top(t).vm]
      /\ UNCHANGED <<refs, handles, freed, owner, bindings, images, executing>>
  BY DEF VmInv, StartRun, At, shared, vms
<1>1. PICK h \in Operations : h = Top(t) /\ FrameInv(h, t)
  BY <1>0, Latest, Frame
<1>2. active[t] \in Vms \cup {None}
  BY <1>0 DEF TypeOK
<1>3. PICK g \in Operations : g = [h EXCEPT !.step = "run", !.previous = active[t]]
  BY <1>2, Changing DEF Steps
<1>4. Become(t, g)
  BY <1>1, <1>3 DEF StartRun
<1>5. /\ g.op = h.op /\ g.vm = h.vm /\ g.module = h.module /\ g.step = "run"
      /\ g.previous = active[t]
  BY <1>3 DEF Operations
<1>6. FrameInv(g, t)'
  BY <1>0, <1>1, <1>5 DEF FrameInv, Found
<1>7. FramesInv' /\ NestInv' /\ CallsInv' /\ ImagesAgree'
  BY <1>0, <1>1, <1>4, <1>5, <1>6, BecomeStep DEF vms
<1>8. stack' \in [Threads -> Seq(Operations)] /\ Top(t)' = g /\ \A u \in Threads \ {t} : stack'[u] = stack[u]
  BY <1>0, <1>4, Becoming
<1>9. \A m \in Modules : ~Holds(t, m) /\ ~Holds(t, m)'
  BY <1>0, <1>5, <1>8 DEF Holds, At
<1>10. active' \in [Threads -> Vms \cup {None}]
  BY <1>0, <1>1 DEF TypeOK, Operations
<1>11. CountInv' /\ TypeOK'
  BY <1>0, <1>8, <1>9, <1>10, CountQuiet DEF TypeOK
<1> QED
  BY <1>7, <1>11 DEF VmInv

\* The image a VM gets.
LEMMA Linking ==
  ASSUME TypeOK, NEW v \in Vms, NEW image \in Images,
         images' = [images EXCEPT ![v] = Linked(v, image)]
  PROVE  /\ images' \in [Vms -> Seq(Images)]
         /\ \A w \in Vms \ {v} : images'[w] = images[w]
         /\ Len(images[v]) \in Nat
         /\ DOMAIN images'[v] = {1} \cup {i + 1 : i \in DOMAIN images[v]}
         /\ images'[v][1] = image
         /\ \A i \in DOMAIN images[v] : i + 1 # 1 /\ images'[v][i + 1] = images[v][i]
         /\ \A m : Found(v, m)' <=> m = image.module \/ Found(v, m)
<1>1. images[v] \in Seq(Images) /\ <<image>> \in Seq(Images)
  BY DEF TypeOK
<1>2. Linked(v, image) \in Seq(Images)
  BY <1>1 DEF Linked
<1>3. images' \in [Vms -> Seq(Images)] /\ images'[v] = <<image>> \o images[v]
      /\ \A w \in Vms \ {v} : images'[w] = images[w]
  BY <1>2 DEF TypeOK, Linked
<1>4. /\ Len(images[v]) \in Nat /\ DOMAIN images[v] = 1 .. Len(images[v])
      /\ Len(images'[v]) = Len(images[v]) + 1
      /\ images'[v][1] = image
      /\ \A i \in 1 .. Len(images[v]) : images'[v][i + 1] = images[v][i]
  BY <1>1, <1>3
<1>5. DOMAIN images'[v] = 1 .. Len(images[v]) + 1
  BY <1>3, <1>4
<1>6. \A n \in Nat : 1 .. n + 1 = {1} \cup {i + 1 : i \in 1 .. n}
  <2>1. \A n \in Nat : \A j \in 1 .. n + 1 : j = 1 \/ (j - 1 \in 1 .. n /\ j = (j - 1) + 1)
    OBVIOUS
  <2>2. \A n \in Nat : \A i \in 1 .. n : i + 1 \in 1 .. n + 1
    OBVIOUS
  <2> QED
    BY <2>1, <2>2
<1>7. DOMAIN images'[v] = {1} \cup {i + 1 : i \in DOMAIN images[v]}
  BY <1>4, <1>5, <1>6
<1>8. \A i \in DOMAIN images[v] : i + 1 # 1 /\ images'[v][i + 1] = images[v][i]
  BY <1>4
<1>9. \A m : Found(v, m)' <=> m = image.module \/ Found(v, m)
  <2> SUFFICES ASSUME NEW m PROVE Found(v, m)' <=> m = image.module \/ Found(v, m)
    OBVIOUS
  <2>1. ASSUME NEW j \in DOMAIN images'[v], images'[v][j].module = m
        PROVE  m = image.module \/ Found(v, m)
    BY <1>4, <1>7, <1>8, <2>1 DEF Found
  <2>2. m = image.module => Found(v, m)'
    BY <1>4, <1>7 DEF Found
  <2>3. ASSUME NEW i \in DOMAIN images[v], images[v][i].module = m PROVE Found(v, m)'
    <3>1. i + 1 \in DOMAIN images'[v] /\ images'[v][i + 1].module = m
      BY <1>7, <1>8, <2>3
    <3> QED
      BY <3>1 DEF Found
  <2> QED
    BY <2>1, <2>2, <2>3 DEF Found
<1> QED
  BY <1>3, <1>4, <1>7, <1>8, <1>9

LEMMA LinkImageStep ==
  ASSUME VmInv, NEW t \in Threads, LinkImage(t)
  PROVE  VmInv'
<1>0. /\ TypeOK /\ FramesInv /\ NestInv /\ CallsInv /\ ImagesAgree /\ CountInv
      /\ stack[t] # <<>> /\ Top(t).step = "build"
      /\ UNCHANGED <<refs, handles, freed, owner, bindings, executing, active>>
  BY DEF VmInv, LinkImage, At, shared
<1>1. PICK h \in Operations : h = Top(t) /\ FrameInv(h, t)
  BY <1>0, Latest, Frame
<1>2. PICK v \in Vms, x \in Modules : v = h.vm /\ x = h.module
  BY <1>0, <1>1 DEF FrameInv, Operations
<1>3. PICK image \in Images : image = [module |-> x, table |-> h.table]
  BY DEF Images, Operations
<1>4. images' = [images EXCEPT ![v] = Linked(v, image)]
  BY <1>1, <1>2, <1>3 DEF LinkImage
<1>5. /\ images' \in [Vms -> Seq(Images)]
      /\ \A w \in Vms \ {v} : images'[w] = images[w]
      /\ DOMAIN images'[v] = {1} \cup {i + 1 : i \in DOMAIN images[v]}
      /\ images'[v][1] = image
      /\ \A i \in DOMAIN images[v] : i + 1 # 1 /\ images'[v][i + 1] = images[v][i]
      /\ \A m : Found(v, m)' <=> m = x \/ Found(v, m)
  <2>1. image.module = x
    BY <1>3
  <2>2. TypeOK
    BY <1>0
  <2>3. /\ images' \in [Vms -> Seq(Images)]
        /\ \A w \in Vms \ {v} : images'[w] = images[w]
        /\ DOMAIN images'[v] = {1} \cup {i + 1 : i \in DOMAIN images[v]}
        /\ images'[v][1] = image
        /\ \A i \in DOMAIN images[v] : i + 1 # 1 /\ images'[v][i + 1] = images[v][i]
    BY <1>4, <2>2, Linking
  <2>4. \A m : Found(v, m)' <=> m = image.module \/ Found(v, m)
    BY <1>4, <2>2, Linking
  <2> QED
    BY <2>1, <2>3, <2>4
<1>6. ~Found(v, x) /\ owner[v] = t /\ h.op # "free" /\ image.module = x
      /\ image.table = [n \in Imports[x] |-> bindings[v][n]]
  BY <1>0, <1>1, <1>2, <1>3 DEF FrameInv
<1>7. ASSUME NEW u \in Threads \ {t}, NEW f \in On(u) PROVE FrameInv(f, u)'
  <2>1. FrameInv(f, u) /\ f.vm # v /\ f.vm \in Vms
    BY <1>0, <1>6, Frame, Apart DEF Operations
  <2> QED
    BY <1>0, <1>5, <2>1, FrameStays
<1>8. ASSUME NEW f \in Below(t) PROVE FrameInv(f, t)'
  <2>1. f.step = "run" /\ FrameInv(f, t) /\ f.vm \in Vms /\ Found(f.vm, f.module)
    BY <1>0, Frame DEF Operations
  <2>2. Found(f.vm, f.module)'
    BY <1>5, <2>1 DEF Found
  <2> QED
    BY <1>0, <2>1, <2>2 DEF FrameInv
<1>9. ImagesAgree'
  <2> SUFFICES ASSUME NEW w \in Vms, NEW i \in DOMAIN images'[w]
               PROVE  /\ \A j \in DOMAIN images'[w] :
                             images'[w][i].module = images'[w][j].module => i = j
                      /\ \A n \in Imports[images'[w][i].module] :
                             images'[w][i].table[n] = bindings[w][n]
    BY <1>0 DEF ImagesAgree
  <2>1. CASE w # v
    <3>1. images'[w] = images[w]
      BY <1>5, <2>1
    <3> QED
      BY <1>0, <3>1 DEF ImagesAgree
  <2>2. CASE w = v
    <3>1. \A k \in DOMAIN images[v] : images[v][k].module # x
      BY <1>6 DEF Found
    <3>2. CASE i = 1
      BY <1>5, <1>6, <2>2, <3>1, <3>2
    <3>3. CASE i # 1
      <4>1. PICK k \in DOMAIN images[v] : i = k + 1
        BY <1>5, <2>2, <3>3
      <4>2. images'[v][i] = images[v][k]
        BY <1>5, <4>1
      <4>3. ASSUME NEW j \in DOMAIN images'[v], images'[v][i].module = images'[v][j].module
            PROVE  i = j
        <5>1. CASE j = 1
          BY <1>5, <1>6, <3>1, <4>2, <4>3, <5>1
        <5>2. CASE j # 1
          <6>1. PICK l \in DOMAIN images[v] : j = l + 1
            BY <1>5, <4>3, <5>2
          <6>2. images'[v][j] = images[v][l]
            BY <1>5, <6>1
          <6>3. k = l
            BY <1>0, <4>2, <4>3, <6>2 DEF ImagesAgree
          <6> QED
            BY <4>1, <6>1, <6>3
        <5> QED
          BY <5>1, <5>2
      <4> QED
        BY <1>0, <2>2, <4>2, <4>3 DEF ImagesAgree
    <3> QED
      BY <3>2, <3>3
  <2> QED
    BY <2>1, <2>2
<1>10. ASSUME stack' \in [Threads -> Seq(Operations)], \A u \in Threads \ {t} : stack'[u] = stack[u],
              \A m \in Modules : ~Holds(t, m)'
       PROVE  TypeOK' /\ CountInv'
  <2>1. TypeOK'
    BY <1>0, <1>5, <1>10 DEF TypeOK
  <2>2. ASSUME NEW m \in Modules PROVE Holders(m)' = Holders(m)
    <3>1. Holds(t, m) <=> m = x
      BY <1>0, <1>1, <1>2 DEF Holds, At
    <3>2. CASE m = x
      <4>1. Cardinality(Holding(m))' = Cardinality(Holding(m)) - 1
        BY <1>10, <3>1, <3>2, HoldingCounts
      <4>2. Cardinality(Having(m))' = Cardinality(Having(m)) + 1
        BY <1>5, <1>6, <3>2, HavingCounts
      <4> QED
        BY <1>0, <4>1, <4>2, Sizes DEF Holders
    <3>3. CASE m # x
      <4>1. Cardinality(Holding(m))' = Cardinality(Holding(m))
        BY <1>10, <3>1, <3>3, HoldingCounts
      <4>2. Cardinality(Having(m))' = Cardinality(Having(m))
        BY <1>5, <3>3, HavingCounts
      <4> QED
        BY <1>0, <4>1, <4>2 DEF Holders
    <3> QED
      BY <3>2, <3>3
  <2>3. CountInv'
    BY <1>0, <2>2 DEF CountInv, RefsExact
  <2> QED
    BY <2>1, <2>3
<1>11. CASE h.op = "call"
  <2>1. PICK g \in Operations : g = [h EXCEPT !.step = "start"]
    BY Changing DEF Steps
  <2>2. Become(t, g)
    BY <1>1, <1>11, <2>1 DEF LinkImage, Move
  <2>3. g.op = h.op /\ g.vm = h.vm /\ g.module = h.module /\ g.step = "start"
    BY <2>1 DEF Operations
  <2>4. FrameInv(g, t)'
    <3>1. Found(g.vm, g.module)'
      BY <1>2, <1>5, <2>3
    <3> QED
      BY <1>0, <1>1, <1>11, <2>3, <3>1 DEF FrameInv
  <2>5. FramesInv'
    BY <1>0, <1>7, <1>8, <2>2, <2>4, FramesBecome
  <2>6. NestInv' /\ CallsInv'
    BY <1>0, <1>1, <2>2, <2>3, NestBecome, CallsBecome
  <2>7. stack' \in [Threads -> Seq(Operations)] /\ Top(t)' = g /\ \A u \in Threads \ {t} : stack'[u] = stack[u]
    BY <1>0, <2>2, Becoming
  <2>8. \A m \in Modules : ~Holds(t, m)'
    BY <2>3, <2>7 DEF Holds, At
  <2> QED
    BY <1>9, <1>10, <2>5, <2>6, <2>7, <2>8 DEF VmInv
<1>12. CASE h.op # "call"
  <2>1. Pop(t)
    BY <1>1, <1>12 DEF LinkImage
  <2>2. FramesInv'
    BY <1>0, <1>7, <1>8, <2>1, FramesPop
  <2>3. NestInv' /\ CallsInv'
    BY <1>0, <1>1, <1>12, <2>1, NestPop, CallsPop
  <2>4. stack' \in [Threads -> Seq(Operations)] /\ \A u \in Threads \ {t} : stack'[u] = stack[u]
    BY <1>0, <2>1, Popping
  <2>5. \A m \in Modules : ~Holds(t, m)'
    BY <1>0, <2>1, PopHolds
  <2> QED
    BY <1>9, <1>10, <2>2, <2>3, <2>4, <2>5 DEF VmInv
<1> QED
  BY <1>11, <1>12

LEMMA BuildFailsStep ==
  ASSUME VmInv, NEW t \in Threads, BuildFails(t)
  PROVE  VmInv'
<1>0. /\ TypeOK /\ FramesInv /\ NestInv /\ CallsInv /\ CountInv
      /\ stack[t] # <<>> /\ Top(t).step = "build" /\ Pop(t) /\ Done(t)
      /\ UNCHANGED <<handles, owner, bindings, images, active>>
  BY DEF VmInv, BuildFails, Fail, At, vms
<1>1. PICK x \in Modules : x = Top(t).module
  BY <1>0, Latest, Frame DEF FrameInv, Operations
<1>2. Release(x)
  BY <1>1 DEF BuildFails
<1>3. FramesInv' /\ NestInv' /\ CallsInv' /\ ImagesAgree'
  BY <1>0, PopStep DEF vms
<1>4. stack' \in [Threads -> Seq(Operations)] /\ \A u \in Threads \ {t} : stack'[u] = stack[u]
  BY <1>0, Popping
<1>5. \A m \in Modules : (Holds(t, m) <=> m = x) /\ ~Holds(t, m)'
  BY <1>0, <1>1, PopHolds DEF Holds, At
<1>6. CountInv' /\ refs' \in [Modules -> 0 .. Limit] /\ freed' \subseteq Modules
  BY <1>0, <1>2, <1>4, <1>5, DroppedHold
<1>7. TypeOK'
  BY <1>0, <1>4, <1>6 DEF TypeOK, Done
<1> QED
  BY <1>3, <1>6, <1>7 DEF VmInv

-----------------------------------------------------------------------------
(* Freeing a VM. *)

LEMMA DestroyImageStep ==
  ASSUME VmInv, NEW t \in Threads, DestroyImage(t)
  PROVE  VmInv'
<1>0. /\ TypeOK /\ FramesInv /\ NestInv /\ CallsInv /\ CountInv
      /\ stack[t] # <<>> /\ Top(t).step = "destroy"
      /\ UNCHANGED <<handles, owner, bindings, images, executing, active>>
  BY DEF VmInv, DestroyImage, At, vms
<1>1. PICK h \in Operations : h = Top(t) /\ FrameInv(h, t)
  BY <1>0, Latest, Frame
<1>2. PICK x \in Modules : x = h.module
  BY <1>0, <1>1 DEF FrameInv, Operations
<1>3. PICK g \in Operations : g = [h EXCEPT !.step = "images", !.module = None]
  BY Changing DEF Steps
<1>4. Become(t, g) /\ Release(x)
  BY <1>1, <1>2, <1>3 DEF DestroyImage
<1>5. g.op = h.op /\ g.vm = h.vm /\ g.module = None /\ g.step = "images"
  BY <1>3 DEF Operations
<1>6. FrameInv(g, t)'
  BY <1>0, <1>1, <1>5 DEF FrameInv
<1>7. FramesInv' /\ NestInv' /\ CallsInv' /\ ImagesAgree'
  BY <1>0, <1>1, <1>4, <1>5, <1>6, BecomeStep DEF vms
<1>8. stack' \in [Threads -> Seq(Operations)] /\ Top(t)' = g /\ \A u \in Threads \ {t} : stack'[u] = stack[u]
  BY <1>0, <1>4, Becoming
<1>9. \A m \in Modules : (Holds(t, m) <=> m = x) /\ ~Holds(t, m)'
  BY <1>0, <1>1, <1>2, <1>5, <1>8 DEF Holds, At
<1>10. CountInv' /\ refs' \in [Modules -> 0 .. Limit] /\ freed' \subseteq Modules
  BY <1>0, <1>4, <1>8, <1>9, DroppedHold
<1>11. TypeOK'
  BY <1>0, <1>8, <1>10 DEF TypeOK
<1> QED
  BY <1>7, <1>10, <1>11 DEF VmInv

LEMMA UnlinkImageStep ==
  ASSUME VmInv, NEW t \in Threads, UnlinkImage(t)
  PROVE  VmInv'
<1>0. /\ TypeOK /\ FramesInv /\ NestInv /\ CallsInv /\ ImagesAgree /\ CountInv
      /\ stack[t] # <<>> /\ Top(t).step = "images" /\ images[Top(t).vm] # <<>>
      /\ images' = [images EXCEPT ![Top(t).vm] = Tail(@)]
      /\ UNCHANGED <<refs, handles, freed, owner, bindings, executing, active>>
  BY DEF VmInv, UnlinkImage, At, shared
<1>1. PICK h \in Operations : h = Top(t) /\ FrameInv(h, t)
  BY <1>0, Latest, Frame
<1>2. PICK v \in Vms : v = h.vm
  BY DEF Operations
<1>3. images[v] \in Seq(Images) /\ images[v] # <<>>
  BY <1>0, <1>1, <1>2 DEF TypeOK
<1>4. /\ Tail(images[v]) \in Seq(Images) /\ Head(images[v]) \in Images
      /\ Head(images[v]) = images[v][1]
      /\ Len(images[v]) \in Nat \ {0} /\ Len(Tail(images[v])) = Len(images[v]) - 1
      /\ \A i \in 1 .. Len(images[v]) - 1 : Tail(images[v])[i] = images[v][i + 1]
  BY <1>3, HeadTailProperties, EmptySeq
<1>5. PICK x \in Modules : x = Head(images[v]).module
  BY <1>4 DEF Images
<1>6. /\ images' \in [Vms -> Seq(Images)] /\ images'[v] = Tail(images[v])
      /\ \A w \in Vms \ {v} : images'[w] = images[w]
  BY <1>0, <1>1, <1>2, <1>4 DEF TypeOK
<1>7. /\ DOMAIN images'[v] = 1 .. Len(images[v]) - 1 /\ DOMAIN images[v] = 1 .. Len(images[v])
      /\ \A i \in DOMAIN images'[v] : /\ i + 1 \in DOMAIN images[v] /\ i + 1 # 1
                                      /\ images'[v][i] = images[v][i + 1]
      /\ 1 \in DOMAIN images[v]
      /\ \A j \in DOMAIN images[v] : j = 1 \/ (j - 1 \in DOMAIN images'[v] /\ images'[v][j - 1] = images[v][j])
  <2>1. DOMAIN images'[v] = 1 .. Len(images[v]) - 1 /\ DOMAIN images[v] = 1 .. Len(images[v])
    BY <1>3, <1>4, <1>6
  <2>2. \A i \in DOMAIN images'[v] : /\ i + 1 \in DOMAIN images[v] /\ i + 1 # 1
                                     /\ images'[v][i] = images[v][i + 1]
    BY <1>4, <1>6, <2>1
  <2>3. 1 \in DOMAIN images[v] /\ \A j \in DOMAIN images[v] : j = 1 \/ (j - 1 \in DOMAIN images'[v] /\ (j - 1) + 1 = j)
    BY <1>4, <2>1
  <2>4. \A j \in DOMAIN images[v] : j = 1 \/ (j - 1 \in DOMAIN images'[v] /\ images'[v][j - 1] = images[v][j])
    BY <2>2, <2>3
  <2> QED
    BY <2>1, <2>2, <2>3, <2>4
<1>8. Found(v, x) /\ ~Found(v, x)' /\ \A m \in Modules \ {x} : Found(v, m)' <=> Found(v, m)
  <2>1. Found(v, x)
    BY <1>4, <1>5, <1>7 DEF Found
  <2>2. ASSUME NEW i \in DOMAIN images'[v], images'[v][i].module = x PROVE FALSE
    <3>1. images[v][i + 1].module = images[v][1].module /\ i + 1 # 1
      BY <1>4, <1>5, <1>7, <2>2
    <3>2. \A k, l \in DOMAIN images[v] : images[v][k].module = images[v][l].module => k = l
      BY <1>0 DEF ImagesAgree
    <3> QED
      BY <1>7, <3>1, <3>2
  <2>3. ASSUME NEW m \in Modules \ {x} PROVE Found(v, m)' <=> Found(v, m)
    <3>1. Found(v, m)' => Found(v, m)
      BY <1>7 DEF Found
    <3>2. images[v][1].module # m
      BY <1>4, <1>5
    <3>3. Found(v, m) => Found(v, m)'
      BY <1>7, <3>2 DEF Found
    <3> QED
      BY <3>1, <3>3
  <2> QED
    BY <2>1, <2>2, <2>3 DEF Found
<1>9. PICK g \in Operations : g = [h EXCEPT !.step = "destroy", !.module = x]
  BY Changing DEF Steps
<1>10. Become(t, g)
  BY <1>1, <1>2, <1>5, <1>9 DEF UnlinkImage
<1>11. g.op = h.op /\ g.vm = v /\ g.module = x /\ g.step = "destroy"
  BY <1>2, <1>9 DEF Operations
<1>12. h.op = "free" /\ owner[v] = t /\ v \notin executing
  BY <1>0, <1>1, <1>2 DEF FrameInv
<1>13. FrameInv(g, t)'
  <2>1. ~Found(g.vm, g.module)'
    BY <1>8, <1>11
  <2> QED
    BY <1>0, <1>11, <1>12, <2>1, NoneAssumption DEF FrameInv
<1>14. ASSUME NEW u \in Threads, NEW f \in On(u), u # t \/ f \in Below(t) PROVE FrameInv(f, u)'
  <2>1. FrameInv(f, u) /\ f.vm \in Vms
    BY <1>0, Frame DEF Operations
  <2>2. f.vm # v
    BY <1>0, <1>1, <1>2, <1>12, <1>14, Apart, Unnested
  <2> QED
    BY <1>0, <1>6, <2>1, <2>2, FrameStays
<1>15. FramesInv'
  <2>1. Below(t) \subseteq On(t)
    BY <1>0, Frame
  <2> QED
    BY <1>0, <1>10, <1>13, <1>14, <2>1, FramesBecome
<1>16. NestInv' /\ CallsInv'
  BY <1>0, <1>1, <1>2, <1>10, <1>11, NestBecome, CallsBecome
<1>17. ImagesAgree'
  <2> SUFFICES ASSUME NEW w \in Vms, NEW i \in DOMAIN images'[w]
               PROVE  /\ \A j \in DOMAIN images'[w] :
                             images'[w][i].module = images'[w][j].module => i = j
                      /\ \A n \in Imports[images'[w][i].module] :
                             images'[w][i].table[n] = bindings[w][n]
    BY <1>0 DEF ImagesAgree
  <2>1. CASE w # v
    BY <1>0, <1>6, <2>1 DEF ImagesAgree
  <2>2. CASE w = v
    <3>1. i + 1 \in DOMAIN images[v] /\ images'[v][i] = images[v][i + 1]
      BY <1>7, <2>2
    <3>2. ASSUME NEW j \in DOMAIN images'[v], images'[v][i].module = images'[v][j].module
          PROVE  i = j
      <4>1. j + 1 \in DOMAIN images[v] /\ images'[v][j] = images[v][j + 1]
        BY <1>7
      <4>2. i + 1 = j + 1
        <5>1. images[v][i + 1].module = images[v][j + 1].module
          BY <3>1, <3>2, <4>1
        <5>2. \A k, l \in DOMAIN images[v] : images[v][k].module = images[v][l].module => k = l
          BY <1>0 DEF ImagesAgree
        <5> QED
          BY <3>1, <4>1, <5>1, <5>2
      <4>3. i \in Int /\ j \in Int
        BY <1>7, <2>2
      <4> QED
        BY <4>2, <4>3
    <3> QED
      BY <1>0, <2>2, <3>1, <3>2 DEF ImagesAgree
  <2> QED
    BY <2>1, <2>2
<1>18. stack' \in [Threads -> Seq(Operations)] /\ Top(t)' = g /\ stack'[t] # <<>>
       /\ \A u \in Threads \ {t} : stack'[u] = stack[u]
  BY <1>0, <1>10, Becoming
<1>19. ASSUME NEW m \in Modules PROVE Holders(m)' = Holders(m)
  <2>1. ~Holds(t, m) /\ (Holds(t, m)' <=> m = x)
    BY <1>0, <1>11, <1>18 DEF Holds, At
  <2>2. CASE m = x
    <3>1. Cardinality(Holding(m))' = Cardinality(Holding(m)) + 1
      BY <1>18, <2>1, <2>2, HoldingCounts
    <3>2. Cardinality(Having(m))' = Cardinality(Having(m)) - 1
      BY <1>6, <1>8, <2>2, HavingCounts
    <3>3. handles' = handles
      BY <1>0
    <3> QED
      BY <3>1, <3>2, <3>3, Sizes DEF Holders
  <2>3. CASE m # x
    <3>1. Cardinality(Holding(m))' = Cardinality(Holding(m))
      BY <1>18, <2>1, <2>3, HoldingCounts
    <3>2. Cardinality(Having(m))' = Cardinality(Having(m))
      BY <1>6, <1>8, <2>3, HavingCounts
    <3> QED
      BY <1>0, <3>1, <3>2 DEF Holders
  <2> QED
    BY <2>2, <2>3
<1>20. CountInv'
  BY <1>0, <1>19 DEF CountInv, RefsExact
<1>21. TypeOK'
  BY <1>0, <1>6, <1>18 DEF TypeOK
<1> QED
  BY <1>15, <1>16, <1>17, <1>20, <1>21 DEF VmInv

LEMMA EndFreeStep ==
  ASSUME VmInv, NEW t \in Threads, EndFree(t)
  PROVE  VmInv'
<1>0. /\ TypeOK /\ FramesInv /\ NestInv /\ CallsInv /\ ImagesAgree /\ CountInv
      /\ stack[t] # <<>> /\ Top(t).step = "images" /\ images[Top(t).vm] = <<>>
      /\ owner' = [owner EXCEPT ![Top(t).vm] = None]
      /\ bindings' = [bindings EXCEPT ![Top(t).vm] = [n \in Names |-> None]]
      /\ Pop(t)
      /\ UNCHANGED <<refs, handles, freed, images, executing, active>>
  BY DEF VmInv, EndFree, At, shared
<1>1. PICK v \in Vms : v = Top(t).vm
  BY <1>0, Latest DEF Operations
<1>2. Top(t).op = "free" /\ owner[v] = t
  BY <1>0, <1>1, Latest, Frame DEF FrameInv
<1>3. \A w \in Vms \ {v} : owner'[w] = owner[w] /\ bindings'[w] = bindings[w]
  BY <1>0, <1>1 DEF TypeOK
<1>4. ASSUME NEW u \in Threads, NEW f \in On(u), u # t \/ f \in Below(t) PROVE FrameInv(f, u)'
  <2>1. FrameInv(f, u) /\ f.vm \in Vms
    BY <1>0, Frame DEF Operations
  <2>2. f.vm # v
    BY <1>0, <1>1, <1>2, <1>4, Apart, Unnested
  <2> QED
    BY <1>0, <1>3, <2>1, <2>2, FrameStays
<1>5. FramesInv'
  <2>1. Below(t) \subseteq On(t)
    BY <1>0, Frame
  <2> QED
    BY <1>0, <1>4, <2>1, FramesPop
<1>6. NestInv' /\ CallsInv'
  BY <1>0, <1>2, NestPop, CallsPop
<1>7. ImagesAgree'
  BY <1>0, <1>1, <1>3 DEF ImagesAgree
<1>8. stack' \in [Threads -> Seq(Operations)] /\ \A u \in Threads \ {t} : stack'[u] = stack[u]
  BY <1>0, Popping
<1>9. \A m \in Modules : ~Holds(t, m) /\ ~Holds(t, m)'
  BY <1>0, PopHolds DEF Holds, At
<1>10. CountInv' /\ TypeOK'
  BY <1>0, <1>1, <1>8, <1>9, CountQuiet DEF TypeOK
<1> QED
  BY <1>5, <1>6, <1>7, <1>10 DEF VmInv

-----------------------------------------------------------------------------
(* The theorems. *)

LEMMA VmInit ==
  Init => VmInv
<1> SUFFICES ASSUME Init PROVE VmInv
  OBVIOUS
<1>0. /\ refs = [m \in Modules |-> 0] /\ handles = {} /\ freed = {}
      /\ owner = [v \in Vms |-> None] /\ bindings = [v \in Vms |-> [n \in Names |-> None]]
      /\ images = [v \in Vms |-> <<>>] /\ executing = {}
      /\ stack = [t \in Threads |-> <<>>] /\ active = [t \in Threads |-> None]
  BY DEF Init
<1>1. TypeOK
  BY <1>0, LimitAssumption DEF TypeOK
<1>2. \A t \in Threads : stack[t] = <<>> /\ DOMAIN stack[t] = {} /\ Len(stack[t]) = 0
  BY <1>0
<1>3. FramesInv /\ CallsInv
  BY <1>0, <1>2 DEF FramesInv, CallsInv, On
<1>4. NestInv
  <2> SUFFICES ASSUME NEW t \in Threads
               PROVE  /\ \A i \in 1 .. Depth(t) :
                             /\ stack[t][i].step = "run"
                             /\ stack[t][i].previous = Context(stack[t], i - 1)
                      /\ active[t] = Context(stack[t], Depth(t))
    BY DEF NestInv
  <2>1. Depth(t) = 0
    BY <1>2 DEF Depth, Free
  <2> QED
    BY <1>0, <2>1 DEF Context
<1>5. ImagesAgree /\ \A v \in Vms, m \in Modules : ~Found(v, m)
  BY <1>0 DEF ImagesAgree, Found
<1>6. ASSUME NEW m \in Modules PROVE Holders(m) = 0
  <2>1. handles \cap {m} = {} /\ Having(m) = {} /\ Holding(m) = {}
    BY <1>0, <1>2, <1>5 DEF Having, Holding, At
  <2> QED
    BY <2>1, FS_EmptySet DEF Holders
<1>7. CountInv
  BY <1>0, <1>6, LimitAssumption DEF CountInv, RefsExact
<1> QED
  BY <1>1, <1>3, <1>4, <1>5, <1>7 DEF VmInv

LEMMA VmStutter ==
  VmInv /\ UNCHANGED vars => VmInv'
<1> SUFFICES ASSUME VmInv, UNCHANGED vars PROVE VmInv'
  OBVIOUS
<1>0. /\ TypeOK /\ FramesInv /\ NestInv /\ CallsInv /\ ImagesAgree /\ CountInv
      /\ UNCHANGED <<refs, handles, freed, owner, bindings, images, executing, stack, active>>
  BY DEF VmInv, vars, shared, vms
<1>1. TypeOK'
  BY <1>0 DEF TypeOK
<1>2. FramesInv'
  <2> SUFFICES ASSUME NEW u \in Threads, NEW f \in On(u) PROVE FrameInv(f, u)'
    BY <1>0 DEF FramesInv, On
  <2>1. FrameInv(f, u)
    BY <1>0, Frame
  <2> QED
    BY <1>0, <2>1, FrameStays
<1>3. NestInv' /\ CallsInv' /\ ImagesAgree'
  BY <1>0 DEF NestInv, Depth, Free, At, Top, CallsInv, On, ImagesAgree
<1>4. CountInv'
  <2>1. \A m \in Modules : Having(m)' = Having(m) /\ Holding(m)' = Holding(m)
    BY <1>0 DEF Having, Found, Holding, At, Top
  <2> QED
    BY <1>0, <2>1 DEF CountInv, RefsExact, Holders
<1> QED
  BY <1>1, <1>2, <1>3, <1>4 DEF VmInv

LEMMA VmStep ==
  VmInv /\ [Next]_vars => VmInv'
<1> SUFFICES ASSUME VmInv, [Next]_vars PROVE VmInv'
  OBVIOUS
<1>1. CASE UNCHANGED vars
  BY <1>1, VmStutter
<1>2. ASSUME NEW m \in Modules, LoadModule(m) PROVE VmInv'
  BY <1>2, LoadModuleStep
<1>3. ASSUME NEW t \in Threads, Host(t) PROVE VmInv'
  <2>1. ASSUME NEW v \in Vms, CreateVm(t, v) PROVE VmInv'
    BY <2>1, CreateVmStep
  <2>2. ASSUME NEW v \in Vms,
               BeginFree(t, v) \/ \E m \in Modules : BeginLoad(t, v, m) \/ BeginCall(t, v, m)
        PROVE  VmInv'
    BY <2>2, BeginStep
  <2>3. ASSUME NEW m \in Modules, FreeHandle(t, m) PROVE VmInv'
    BY <2>3, FreeHandleStep
  <2>4. ASSUME NEW v \in Vms, NEW n \in Names, NEW a \in Addresses, BindForeign(t, v, n, a)
        PROVE  VmInv'
    BY <2>4, BindForeignStep
  <2> QED
    BY <1>3, <2>1, <2>2, <2>3, <2>4 DEF Host
<1>4. ASSUME NEW t \in Threads, Library(t) PROVE VmInv'
  <2>1. CASE FindImage(t) \/ BeginImage(t)
    BY <2>1, FindImageStep, BeginImageStep
  <2>2. CASE NoImage(t) \/ AtLimit(t) \/ EndRun(t)
    BY <2>2, NoImageStep
  <2>3. CASE Exchange(t) \/ ExchangeFails(t)
    BY <2>3, ExchangeStep, ExchangeFailsStep
  <2>4. CASE LinkImage(t) \/ BuildFails(t)
    BY <2>4, LinkImageStep, BuildFailsStep
  <2>5. CASE StartRun(t)
    BY <2>5, StartRunStep
  <2>6. CASE UnlinkImage(t) \/ DestroyImage(t) \/ EndFree(t)
    BY <2>6, UnlinkImageStep, DestroyImageStep, EndFreeStep
  <2> QED
    BY <1>4, <2>1, <2>2, <2>3, <2>4, <2>5, <2>6 DEF Library
<1> QED
  BY <1>1, <1>2, <1>3, <1>4 DEF Next

\* What VmInv says of threads, VMs, images and counts holds in every state.
THEOREM VmInvariant ==
  Spec => []VmInv
<1> QED
  BY VmInit, VmStep, PTL DEF Spec

\* Every variable always has its type: no load and no failed exchange takes a
\* module's count past its limit.
THEOREM VmTyped ==
  Spec => []TypeOK
<1>1. VmInv => TypeOK
  BY DEF VmInv
<1> QED
  BY <1>1, VmInvariant, PTL

\* abc_vm_load and abc_vm_call take a reference for every image, failed
\* preparations, abc_vm_free and abc_module_free give exactly theirs back,
\* however the exchange loops of several threads race.
THEOREM ReferencesExact ==
  Spec => []RefsExact
<1>1. VmInv => RefsExact
  BY DEF VmInv, CountInv
<1> QED
  BY <1>1, VmInvariant, PTL

\* No image, no handle and no operation on any thread ever names a module that
\* abc_module_free has destroyed.
THEOREM ModulesOutliveUse ==
  Spec => []NoUseAfterFree
<1>1. ASSUME VmInv PROVE NoUseAfterFree
  <2>0. TypeOK /\ FramesInv /\ NestInv /\ CountInv
    BY <1>1 DEF VmInv
  <2> SUFFICES ASSUME NEW m \in freed
               PROVE  /\ m \notin handles
                      /\ \A v \in Vms : ~Found(v, m)
                      /\ \A p \in Frames : FrameAt(p).module # m
    BY DEF NoUseAfterFree
  <2>1. m \in Modules /\ Holders(m) = 0
    BY <2>0 DEF TypeOK, CountInv, RefsExact
  <2>2. /\ Cardinality(handles \cap {m}) = 0 /\ Cardinality(Having(m)) = 0
        /\ Cardinality(Holding(m)) = 0
    BY <2>1, Sizes DEF Holders
  <2>3. handles \cap {m} = {} /\ Having(m) = {} /\ Holding(m) = {}
    BY <2>2, Sizes, FS_EmptySet
  <2>4. m \notin handles /\ (\A v \in Vms : ~Found(v, m)) /\ (\A t \in Threads : ~Holds(t, m))
    BY <2>3 DEF Having, Holding, Holds
  <2>5. ASSUME NEW t \in Threads, NEW f \in On(t), f.module = m PROVE FALSE
    <3>1. FrameInv(f, t) /\ f \in Operations
      BY <2>0, Frame
    <3>2. CASE f.step \in {"build", "destroy"}
      <4>1. stack[t] # <<>>
        BY <2>0 DEF On, TypeOK
      <4>2. f = Top(t)
        BY <2>0, <3>2, <4>1, Latest, Frame
      <4> QED
        BY <2>4, <2>5, <3>2, <4>1, <4>2 DEF Holds, At
    <3>3. CASE f.step \in {"find", "exchange", "start", "run"}
      BY <2>4, <2>5, <3>1, <3>3 DEF FrameInv, Named, Operations
    <3>4. CASE f.step = "images"
      BY <2>1, <2>5, <3>1, <3>4, NoneAssumption DEF FrameInv
    <3> QED
      BY <3>1, <3>2, <3>3, <3>4 DEF Operations, Steps
  <2>6. \A p \in Frames : FrameAt(p).module # m
    BY <2>5 DEF Frames, FrameAt, On
  <2> QED
    BY <2>4, <2>6
<1> QED
  BY <1>1, VmInvariant, PTL

\* A VM never has two images of a module, and whatever was bound when an image
\* was made is bound as long as the image is there.
THEOREM BindingsFixed ==
  Spec => []ImagesAgree
<1>1. VmInv => ImagesAgree
  BY DEF VmInv
<1> QED
  BY <1>1, VmInvariant, PTL

\* However foreign code nests calls of several VMs and whichever way they end,
\* the executing marks and the active contexts are those of the calls in
\* progress.
THEOREM CallsNested ==
  Spec => []CallsNest
<1>1. ASSUME VmInv PROVE CallsNest
  <2>0. TypeOK /\ FramesInv /\ NestInv /\ CallsInv
    BY <1>1 DEF VmInv
  <2>1. ASSUME NEW v \in Vms
        PROVE  LET Calls == {p \in Frames : FrameAt(p).op = "call" /\ FrameAt(p).vm = v}
               IN  (v \in executing <=> Calls # {}) /\ \A p, q \in Calls : p = q
    <3> DEFINE Calls == {p \in Frames : FrameAt(p).op = "call" /\ FrameAt(p).vm = v}
    <3>1. \A p \in Frames : \E t \in Threads : \E i \in DOMAIN stack[t] :
              p = <<t, i>> /\ FrameAt(p) = stack[t][i]
      BY DEF Frames, FrameAt
    <3>2. ASSUME v \in executing PROVE Calls # {}
      <4>1. PICK t \in Threads : \E f \in On(t) : f.op = "call" /\ f.vm = v
        BY <2>0, <3>2 DEF CallsInv
      <4>2. PICK i \in DOMAIN stack[t] : stack[t][i].op = "call" /\ stack[t][i].vm = v
        BY <4>1 DEF On
      <4>3. <<t, i>> \in Frames /\ FrameAt(<<t, i>>) = stack[t][i]
        BY DEF Frames, FrameAt
      <4> QED
        BY <4>2, <4>3
    <3>3. ASSUME NEW p \in Calls
          PROVE  /\ v \in executing
                 /\ \E i \in DOMAIN stack[owner[v]] :
                        /\ p = <<owner[v], i>> /\ owner[v] \in Threads
                        /\ stack[owner[v]][i].op = "call" /\ stack[owner[v]][i].vm = v
      <4>1. PICK t \in Threads : \E i \in DOMAIN stack[t] :
                p = <<t, i>> /\ FrameAt(p) = stack[t][i]
        BY <3>1
      <4>2. PICK i \in DOMAIN stack[t] : p = <<t, i>> /\ FrameAt(p) = stack[t][i]
        BY <4>1
      <4>3. FrameInv(stack[t][i], t)
        BY <2>0, Frame DEF On
      <4>4. stack[t][i].op = "call" /\ stack[t][i].vm = v
        BY <4>2
      <4> QED
        BY <4>2, <4>3, <4>4 DEF FrameInv
    <3>4. ASSUME NEW p \in Calls, NEW q \in Calls PROVE p = q
      BY <2>0, <3>3 DEF CallsInv
    <3> QED
      BY <3>2, <3>3, <3>4
  <2>2. ASSUME NEW t \in Threads
        PROVE  LET Runs == {i \in DOMAIN stack[t] : stack[t][i].step = "run"}
               IN  active[t] = IF Runs = {} THEN None ELSE stack[t][Max(Runs)].vm
    <3> DEFINE Runs == {i \in DOMAIN stack[t] : stack[t][i].step = "run"}
    <3>1. DOMAIN stack[t] = 1 .. Len(stack[t]) /\ Len(stack[t]) \in Nat
      BY <2>0 DEF TypeOK
    <3>2. /\ \A i \in 1 .. Depth(t) : stack[t][i].step = "run"
          /\ active[t] = Context(stack[t], Depth(t))
      BY <2>0 DEF NestInv
    <3>3. Runs = 1 .. Depth(t) /\ Depth(t) \in Nat
      <4>1. CASE Free(t)
        BY <3>1, <3>2, <4>1 DEF Depth
      <4>2. CASE ~Free(t)
        <5>1. stack[t] # <<>> /\ stack[t][Len(stack[t])].step # "run"
          BY <2>0, <4>2, Latest DEF Free, At
        <5>2. Depth(t) = Len(stack[t]) - 1 /\ Len(stack[t]) # 0
          BY <2>0, <4>2, <5>1, Latest DEF Depth
        <5> QED
          BY <3>1, <3>2, <5>1, <5>2
      <4> QED
        BY <4>1, <4>2
    <3>4. CASE Depth(t) = 0
      BY <3>2, <3>3, <3>4 DEF Context
    <3>5. CASE Depth(t) # 0
      <4>1. Depth(t) \in Runs /\ \A i \in Runs : Depth(t) >= i
        BY <3>3, <3>5
      <4>2. Max(Runs) = Depth(t)
        <5>1. \A x \in Runs : (\A i \in Runs : x >= i) => x = Depth(t)
          BY <3>3, <4>1
        <5> QED
          BY <4>1, <5>1 DEF Max
      <4> QED
        BY <3>2, <3>5, <4>1, <4>2 DEF Context
    <3> QED
      BY <3>4, <3>5
  <2> QED
    BY <2>1, <2>2 DEF CallsNest
<1> QED
  BY <1>1, VmInvariant, PTL
=============================================================================
