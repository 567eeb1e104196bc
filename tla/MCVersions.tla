------------------------------- MODULE MCVersions -------------------------------
(* Small programs: a function that calls another, one that calls itself, and   *)
(* one with a block that more contexts reach than it may have versions, which  *)
(* its paths leave with and without having looked for room.                    *)
EXTENDS Versions

I(op, arg) == [op |-> op, arg |-> arg]
Fun(entry, end, height) == [entry |-> entry, end |-> end, height |-> height]

Bodies ==
  {I("const", 1), I("add", 0), I("use", 0), I("load", 0), I("call", 2)}
    \union {I("branch", to) : to \in {1, 2, 4}}
Ends4  == {I("ret", 0), I("jump", 1), I("jump", 2), I("tail", 1)}
Callee == {<<I("use", 0), I("ret", 0)>>, <<I("call", 2), I("ret", 0)>>, <<I("branch", 5), I("ret", 0)>>,
           <<I("const", 1), I("tail", 1)>>}

Calling ==
  {[code |-> b \o <<l>> \o f, functions |-> <<Fun(1, 4, 2), Fun(5, 6, 3)>>] :
     b \in [1 .. 3 -> Bodies], l \in Ends4, f \in Callee}

Recursing ==
  {[code |-> <<I("branch", 3)>> \o b \o <<I("ret", 0)>>, functions |-> <<Fun(1, 6, 2)>>] :
     b \in [1 .. 4 -> {I("branch", 5), I("tail", 1), I("load", 0), I("use", 0), I("call", 1)}]}

Small == Calling \union Recursing

Joining ==
  {[code |-> <<I("const", 1), I("branch", 8), I("add", 0), I("branch", 8), I("add", 0), I("branch", 8), I("add", 0),
               I(reload, 0), I("branch", 11), I("jump", 12), I("call", 2), I("ret", 0), I("call", 2), I("ret", 0)>>,
    functions |-> <<Fun(1, 12, 2), Fun(13, 14, 3)>>] : reload \in {"load", "use", "add"}}
=============================================================================
