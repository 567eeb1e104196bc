-------------------------------- MODULE MCMachine --------------------------------
(* Small programs for Verifier and Machine: every choice of an instruction     *)
(* from a short menu, at every place of one or two short functions.            *)
EXTENDS Machine

Full(op, me, n, m, to, from, kind) ==
  [op |-> op, me |-> me, n |-> n, m |-> m, to |-> to, from |-> from, kind |-> kind]

Ins(op, me, n, m)  == Full(op, me, n, m, {}, Scalars, IntKind)
To(op, me, to)     == Full(op, me, 0, 0, to, {IntKind}, IntKind)
Lit(me)            == Ins("push", me, 0, 0)
Addr(me)           == Full("push", me, 0, 0, {}, {}, AddrKind)
Float(me)          == Full("push", me, 0, 0, {}, {}, FloatKind)
Op(op, me, k, l)   == Full(op, me, 0, 0, {}, {k}, l)

Both(op, n, m) == {Ins(op, s, n, m) : s \in {"A", "B"}}

FunctionSet(args, results, codes) == [args: {args}, results: {results}, code: codes]

\* A foreign function from a float to an integer.
Foreign == <<[args |-> <<FloatKind>>, results |-> <<IntKind>>]>>

\* One function of four instructions: branches, joins and loops.
Loops ==
  LET Menu == {Lit("A"), Lit("B"), Addr("A")} \cup Both("move", 0, 0)
                \cup {Op("binary", "A", IntKind, IntKind), Ins("eq", "B", 0, 0)}
                \cup {To("test", "A", to) : to \in {{1}, {3}, {4}}} \cup {To("jump", "A", {2})}
                \cup Both("ret", 0, 1) \cup {Ins("halt", "B", 0, 0)}
  IN  [1 .. 1 -> FunctionSet(<<>>, <<IntKind>>, [1 .. 4 -> Menu])]

\* One function of six instructions: the cells and blocks of C.
Contexts ==
  LET First == {Lit("A"), Lit("B"), Ins("alloc", "A", 12, 0)}
      Menu == {Lit("A"), Ins("cpush", "A", 1, 0), Addr("B"),
               Ins("cget", "B", 0, 1), Ins("cset", "B", 0, 0), Ins("cpush", "B", 2, 0),
               Ins("cpop", "A", 0, 0), Ins("alloc", "A", 12, 0), Ins("free", "A", 12, 0),
               Ins("dup", "B", 0, 0), Ins("copy", "B", 0, 0), Ins("coperand", "A", 0, 0)}
      Fifth == {Ins("drop", "A", 0, 0), Ins("free", "A", 12, 0), Ins("cget", "A", 2, 1), Ins("cget", "A", 0, 2)}
      Rets == {Ins("ret", "A", n, 1) : n \in {1, 2, 3}} \cup {Ins("ret", "B", 1, 1)}
  IN  [1 .. 1 -> FunctionSet(<<IntKind>>, <<IntKind>>,
                             First \X Menu \X Menu \X Menu \X Fifth \X Rets)]

\* One function of six instructions: bytes of a block, addresses, floats and
\* foreign code, and a switch.
Memory ==
  LET Accesses == {Full("fload", "A", n, m[1], {}, {}, m[2]) : n \in {4, 5, 12, 16, 17},
                     m \in ({1, 4, 8} \X {IntKind}) \cup {<<8, AddrKind>>}}
      Second == Accesses \cup {Lit("A"), Float("A"), Addr("A")}
      Third  == {Lit("B"), Addr("B"), Float("B"), Op("unary", "A", FloatKind, IntKind), To("jump", "A", {4})}
                  \cup {Full("fstore", "A", n, 8, {}, Scalars, IntKind) : n \in {8, 12, 16}}
      Fourth == {Op("unary", "A", AddrKind, IntKind), Op("indexed", "B", AddrKind, IntKind),
                 Op("store", "A", AddrKind, IntKind), Op("binary", "A", FloatKind, FloatKind),
                 Full("less", "A", 0, 0, {5}, {FloatKind}, IntKind), To("beq", "A", {5}),
                 Ins("eq", "A", 0, 0), Op("drop", "B", IntKind, IntKind), To("jump", "A", {5})}
      Fifth  == {Ins("fcall", "A", 1, 0), Ins("fcall", "A", 2, 0), Ins("free", "A", 12, 0),
                 To("test", "A", {1, 3, 6}), To("test", "A", {}), To("jump", "A", {6}), Lit("A")}
      Last6  == {Ins("ret", "A", 0, 1), Ins("ret", "A", 2, 1), Ins("ret", "B", 2, 1)}
  IN  [1 .. 1 -> FunctionSet(<<>>, <<IntKind>>,
         {Ins("alloc", "A", 12, 0)} \X Second \X Third \X Fourth \X Fifth \X Last6)]

\* An exported function and a callee that takes an address and an integer:
\* calls, tail calls, recursion, indirect calls, results on either stack.
Callers ==
  LET First  == {To("jump", "A", {2}), Addr("A"), Addr("B")}
      Second == {Addr("A"), Addr("B")}
      Third  == {Lit("A"), Lit("B"), Ins("tcall", "A", 2, 0)}
      Fourth == Both("icall", 2, 0) \cup Both("call", 2, 0) \cup {Ins("itcall", "A", 2, 0), Ins("tcall", "A", 2, 0)}
      Fifth  == {Ins("ret", "A", 0, 1), Ins("halt", "B", 0, 0), Ins("move", "B", 0, 0)}
      Main   == First \X Second \X Third \X Fourth \X Fifth \X {Ins("ret", "A", 0, 1)}
      Callee == {Addr("A"), Lit("A"), Ins("cget", "B", 1, 1)}
                  \X {Ins("cget", "A", 1, 1), Ins("move", "A", 0, 0), Ins("ret", "B", 2, 1)}
                  \X {Ins("tcall", "A", 2, 2), Ins("call", "A", 2, 0), Ins("ret", "A", 2, 1),
                      Ins("abort", "A", 0, 0)}
                  \X Both("ret", 2, 1)
  IN  FunctionSet(<<>>, <<IntKind>>, Main)
        \X FunctionSet(<<AddrKind, IntKind>>, <<IntKind>>, Callee)

Everything == Loops \cup Contexts \cup Memory \cup Callers
=============================================================================
