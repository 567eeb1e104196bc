---------------------------- MODULE NativeImage ----------------------------
(***************************************************************************)
(* Lazy native code of one execution image (src/src/native_image.c and the *)
(* preparing half of src/src/residualize.c).                               *)
(*                                                                         *)
(* Code is placed form by form into page-sized chunks.  A chunk is         *)
(* writable until its preparation is published, which patches the pending  *)
(* branches and seals the chunk; it is never writable again.  Every block  *)
(* version owns an entry stub, to which all branches go, and a body that   *)
(* the first arrival prepares under the image's mutex.  The stub reads the *)
(* slot "published" and jumps through it.                                  *)
(*                                                                         *)
(* A chunk is a sequence of cells, one per form: the stub of a version,    *)
(* one operation of a version's body, or the jump to the chunk in which    *)
(* the code continues.  Threads execute these cells by address; goal is a  *)
(* history variable with the operation of the program a thread should be   *)
(* at.                                                                     *)
(***************************************************************************)
EXTENDS Integers, Sequences, FiniteSets

CONSTANTS
    Threads,     \* threads that execute the image
    Versions,    \* block versions the program can reach
    Entries,     \* the versions of the module's functions, made at load
    Code,        \* per version its operations: "next", "return", or a version
    Page,        \* cells in a chunk
    MaxCalls,    \* bound: calls a thread makes from the host
    NoOne        \* nobody holds the mutex

Operation == {"next", "return"} \cup Versions

ASSUME CodeAssumption ==
    /\ Entries \subseteq Versions
    /\ \A v \in Versions : /\ Code[v] \in Seq(Operation)
                           /\ Len(Code[v]) > 0
                           /\ Code[v][Len(Code[v])] # "next"
ASSUME PageAssumption == Page \in Nat /\ Page >= 2
ASSUME CallsAssumption == MaxCalls \in Nat
ASSUME NoOneAssumption == NoOne \notin Threads

VARIABLES
    image,       \* the emitter: chunks, labels, fixups and flags
    published,   \* per version the slot its stub jumps through
    loading,     \* entries of the module that have no version yet, or Done
    lock,        \* holder of the preparation mutex
    thread,      \* per thread its step, address and status
    goal,        \* history: the operation each thread should be at
    calls        \* calls each thread may still make

vars == <<image, published, loading, lock, thread, goal, calls>>

Nowhere == <<0, 0>>
Stub(v) == <<"stub", v>>
Hop(c)  == <<"hop", c>>
Op(v, i, to) == <<"op", v, i, to>>
IsTarget(v, i) == Code[v][i] \in Versions

-----------------------------------------------------------------------------
(* The emitter: operators from an image to an image. *)

Empty == [chunks |-> <<>>, current |-> 0, stubs |-> 0,
          entry |-> [v \in Versions |-> Nowhere],
          body |-> [v \in Versions |-> Nowhere],
          known |-> {}, fixups |-> {}, writable |-> TRUE, failed |-> FALSE]

Used(n) == Len(n.chunks[n.current].cells)
Here(n) == <<n.current, Used(n) + 1>>

Chunk(n) == [n EXCEPT !.chunks = Append(@, [cells |-> <<>>, sealed |-> FALSE]),
                      !.current = Len(n.chunks) + 1]

\* Room for a form of this size and for the jump that must always fit after it.
Fits(n, size) == Page - Used(n) >= size + 1

\* Mutant: the full chunk is left without a jump to the next one.
SpaceUnlinked(n, size) ==
    IF n.current = 0 \/ ~Fits(n, size) THEN Chunk(n) ELSE n

Space(n, size) ==
    IF n.current = 0 THEN Chunk(n)
    ELSE IF Fits(n, size) THEN n
    ELSE [Chunk(n) EXCEPT !.chunks[n.current].cells =
                                       Append(@, Hop(Len(n.chunks) + 1))]

Put(n, cell) == [n EXCEPT !.chunks[n.current].cells = Append(@, cell)]

Bind(n, v) == LET s == Space(n, 0) IN [s EXCEPT !.body[v] = Here(s)]

\* The stub goes to the chunk of stubs, the body being built stays current.
LazyEntry(n, v) ==
    LET s == Space([n EXCEPT !.current = n.stubs], 1)
    IN  [Put(s, Stub(v)) EXCEPT !.entry[v] = Here(s),
                                !.stubs = s.current, !.current = n.current]

VersionFor(n, v) ==
    IF v \in n.known THEN n
    ELSE [LazyEntry(n, v) EXCEPT !.known = @ \cup {v}]

\* The branch to bind when the image is published.
Fixup(a, v, i) == [at |-> a, to |-> Code[v][i]]

Emit(n, v, i) ==
    LET r == IF IsTarget(v, i) THEN VersionFor(n, Code[v][i]) ELSE n
        s == Space(r, 1)
    IN  [Put(s, Op(v, i, Nowhere)) EXCEPT
            !.fixups = IF IsTarget(v, i)
                       THEN @ \cup {Fixup(Here(s), v, i)}
                       ELSE @]

Target(n, f) == n.entry[f.to]

\* publish() checks every label before it patches anything.
Bound(n) == \A f \in n.fixups : Target(n, f) # Nowhere

\* The cell at an address, with its branch bound to the target's address.
PatchedCell(n, c, i) ==
    LET cell == n.chunks[c].cells[i]
        here == {f \in n.fixups : f.at = <<c, i>>}
    IN  IF here = {} THEN cell
        ELSE Op(cell[2], cell[3], Target(n, CHOOSE f \in here : TRUE))

\* Patch every fixup, then seal the first "sealed" chunks.
Patch(n, sealed) ==
    [n EXCEPT !.fixups = {},
              !.chunks = [c \in DOMAIN n.chunks |->
                 [cells |-> [i \in DOMAIN n.chunks[c].cells |->
                                                      PatchedCell(n, c, i)],
                  sealed |-> n.chunks[c].sealed \/ c <= sealed]]]

\* Mutant: the open chunks survive the publication.
ClosedOpen(n) == [n EXCEPT !.writable = FALSE]

Closed(n) == [n EXCEPT !.writable = FALSE, !.current = 0, !.stubs = 0]

Published(n) == Closed(Patch(n, Len(n.chunks)))

Failed(n) == [n EXCEPT !.failed = TRUE, !.writable = FALSE, !.current = 0]

-----------------------------------------------------------------------------
(* Loading: residualize() in lazy mode makes the versions of the functions. *)

Init ==
    /\ image = Empty
    /\ published = [v \in Versions |-> Nowhere]
    /\ loading = <<"entries", Entries>>
    /\ lock = NoOne
    /\ thread = [t \in Threads |->
                    [step |-> "host", at |-> Nowhere, code |-> NoOne, op |-> 0]]
    /\ goal = [t \in Threads |-> <<>>]
    /\ calls = [t \in Threads |-> MaxCalls]

LoadEntry ==
    /\ loading[1] = "entries"
    /\ \E v \in loading[2] :
          /\ image' = VersionFor(image, v)
          /\ loading' = <<"entries", loading[2] \ {v}>>
    /\ UNCHANGED <<published, lock, thread, goal, calls>>

LoadPublish ==
    /\ loading = <<"entries", {}>>
    /\ image' = Published(image)
    /\ loading' = <<"done", {}>>
    /\ UNCHANGED <<published, lock, thread, goal, calls>>

\* The load fails: everything made so far is destroyed.
LoadFails ==
    /\ loading[1] = "entries"
    /\ image' = Empty
    /\ loading' = <<"failed", {}>>
    /\ UNCHANGED <<published, lock, thread, goal, calls>>

-----------------------------------------------------------------------------
(* Execution: abc_vm_call enters a stub, generated code runs cell by cell. *)

Cell(a) == image.chunks[a[1]].cells[a[2]]
Exists(a) == /\ a[1] \in DOMAIN image.chunks
             /\ a[2] \in DOMAIN image.chunks[a[1]].cells

Goto(t, a) == thread' = [thread EXCEPT ![t].step = "run", ![t].at = a,
                                       ![t].code = NoOne, ![t].op = 0]
ToHost(t) == thread' = [thread EXCEPT ![t].step = "host", ![t].at = Nowhere,
                                      ![t].code = NoOne, ![t].op = 0]
Running(t, kind) ==
    thread[t].step = "run" /\ Exists(thread[t].at) /\ Cell(thread[t].at)[1] = kind

Enter(t, v) ==
    /\ loading[1] = "done" /\ v \in Entries
    /\ thread[t].step = "host" /\ calls[t] > 0
    /\ Goto(t, image.entry[v])
    /\ goal' = [goal EXCEPT ![t] = <<v, 1>>]
    /\ calls' = [calls EXCEPT ![t] = @ - 1]
    /\ UNCHANGED <<image, published, loading, lock>>

\* The stub's acquire load: jump through the slot, or prepare.
EnterStub(t) ==
    /\ Running(t, "stub")
    /\ LET v == Cell(thread[t].at)[2]
       IN  IF published[v] # Nowhere
           THEN Goto(t, published[v])
           ELSE thread' = [thread EXCEPT ![t].step = "lock", ![t].code = v]
    /\ UNCHANGED <<image, published, loading, lock, goal, calls>>

FollowHop(t) ==
    /\ Running(t, "hop")
    /\ Goto(t, <<Cell(thread[t].at)[2], 1>>)
    /\ UNCHANGED <<image, published, loading, lock, goal, calls>>

FallThrough(t) ==
    /\ Running(t, "op")
    /\ LET cell == Cell(thread[t].at)
       IN  /\ cell[3] < Len(Code[cell[2]]) /\ Code[cell[2]][cell[3]] # "return"
           /\ Goto(t, <<thread[t].at[1], thread[t].at[2] + 1>>)
    /\ goal' = [goal EXCEPT ![t][2] = @ + 1]
    /\ UNCHANGED <<image, published, loading, lock, calls>>

Branch(t) ==
    /\ Running(t, "op")
    /\ LET cell == Cell(thread[t].at)
       IN  /\ IsTarget(cell[2], cell[3])
           /\ Goto(t, cell[4])
           /\ goal' = [goal EXCEPT ![t] = <<Code[cell[2]][cell[3]], 1>>]
    /\ UNCHANGED <<image, published, loading, lock, calls>>

Leave(t) ==
    /\ Running(t, "op")
    /\ LET cell == Cell(thread[t].at) IN Code[cell[2]][cell[3]] = "return"
    /\ ToHost(t)
    /\ goal' = [goal EXCEPT ![t] = <<>>]
    /\ UNCHANGED <<image, published, loading, lock, calls>>

-----------------------------------------------------------------------------
(* prepare_lazy and prepare_locked, with compile_version in between. *)

Step(t, step, op) == thread' = [thread EXCEPT ![t].step = step, ![t].op = op]

\* Mutant: the slot is not read again once the mutex is held.
SettledBlind(v) == image.failed

\* Under the mutex: somebody else has prepared the version, or one has failed.
Settled(v) == published[v] # Nowhere \/ image.failed

Lock(t) ==
    /\ thread[t].step = "lock" /\ lock = NoOne
    /\ lock' = t
    /\ IF Settled(thread[t].code)
       THEN Step(t, "unlock", 0) /\ UNCHANGED image
       ELSE Step(t, "bind", 0)
            /\ image' = [image EXCEPT !.writable = TRUE, !.current = 0]
    /\ UNCHANGED <<published, loading, goal, calls>>

PrepareBind(t) ==
    /\ thread[t].step = "bind"
    /\ image' = Bind(image, thread[t].code)
    /\ Step(t, "emit", 1)
    /\ UNCHANGED <<published, loading, lock, goal, calls>>

PrepareOp(t) ==
    /\ thread[t].step = "emit"
    /\ LET v == thread[t].code
           i == thread[t].op
       IN  /\ image' = Emit(image, v, i)
           /\ IF i < Len(Code[v]) THEN Step(t, "emit", i + 1)
              ELSE Step(t, "publish", 0)
    /\ UNCHANGED <<published, loading, lock, goal, calls>>

PreparePublish(t) ==
    /\ thread[t].step = "publish"
    /\ Bound(image)
    /\ image' = Published(image)
    /\ Step(t, "store", 0)
    /\ UNCHANGED <<published, loading, lock, goal, calls>>

\* mprotect fails at some chunk: the ones before it are sealed already.
SealFails(t) ==
    /\ thread[t].step = "publish"
    /\ Bound(image)
    /\ \E c \in {c \in DOMAIN image.chunks : ~image.chunks[c].sealed} :
          image' = Failed(Patch(image, c - 1))
    /\ Step(t, "unlock", 0)
    /\ UNCHANGED <<published, loading, lock, goal, calls>>

\* An allocation, a form or a label fails while the version is compiled, or
\* publish() finds a branch to an unbound label.
PrepareFails(t) ==
    /\ thread[t].step \in {"bind", "emit"}
                         \cup (IF Bound(image) THEN {} ELSE {"publish"})
    /\ image' = Failed(image)
    /\ Step(t, "unlock", 0)
    /\ UNCHANGED <<published, loading, lock, goal, calls>>

PrepareStore(t) ==
    /\ thread[t].step = "store"
    /\ published' = [published EXCEPT ![thread[t].code] =
                                                  image.body[thread[t].code]]
    /\ Step(t, "unlock", 0)
    /\ UNCHANGED <<image, loading, lock, goal, calls>>

\* Mutant: the failing path returns with the mutex held.
UnlockedOnSuccess(t) ==
    lock' = IF published[thread[t].code] # Nowhere THEN NoOne ELSE t

Unlocked(t) == lock' = NoOne

\* The mutex is released; the stub goes on to the body or aborts the call.
Unlock(t) ==
    /\ thread[t].step = "unlock"
    /\ Unlocked(t)
    /\ IF published[thread[t].code] # Nowhere
       THEN Goto(t, published[thread[t].code]) /\ UNCHANGED goal
       ELSE ToHost(t) /\ goal' = [goal EXCEPT ![t] = <<>>]
    /\ UNCHANGED <<image, published, loading, calls>>

Execute(t) == \/ EnterStub(t) \/ FollowHop(t) \/ FallThrough(t)
              \/ Branch(t) \/ Leave(t)
Prepare(t) == \/ Lock(t) \/ PrepareBind(t) \/ PrepareOp(t)
              \/ PreparePublish(t) \/ SealFails(t) \/ PrepareFails(t)
              \/ PrepareStore(t) \/ Unlock(t)
Next == \/ LoadEntry \/ LoadPublish \/ LoadFails
        \/ \E t \in Threads : \/ \E v \in Versions : Enter(t, v)
                              \/ Execute(t) \/ Prepare(t)

Spec == Init /\ [][Next]_vars

\* Threads keep running, and the holder of the mutex too: pthread_mutex_lock
\* returns when the mutex is free and nobody else wants it.
FairSpec ==
    /\ Spec
    /\ WF_vars(LoadEntry \/ LoadPublish)
    /\ \A t \in Threads : WF_vars(Execute(t)) /\ WF_vars(Prepare(t))

-----------------------------------------------------------------------------
(* Properties *)

\* A thread executes only forms that exist, within the page of a sealed chunk and
\* with their branches bound, however its arrival interleaves with another thread's
\* preparation; and through stubs, slots, jumps between chunks and branches it
\* runs exactly the operations of the program, in the program's order
\* (publish(), prepare_locked(), space()).
RunsTheProgram ==
    \A t \in Threads : thread[t].step # "host" =>
        /\ Exists(thread[t].at) /\ thread[t].at[2] <= Page
        /\ image.chunks[thread[t].at[1]].sealed
        /\ LET cell == Cell(thread[t].at)
           IN  /\ cell[1] = "stub" => goal[t] = <<cell[2], 1>>
               /\ cell[1] = "op"   => goal[t] = <<cell[2], cell[3]>>

\* A version is prepared once, however many threads arrive at its stub before
\* it is published: the image holds one stub and one body of it.
PreparedOnce ==
    LET Cells == {a \in (DOMAIN image.chunks) \X (1 .. Page) :
                                       a[2] <= Len(image.chunks[a[1]].cells)}
    IN  \A a, b \in Cells : a # b /\ Cell(a)[1] \in {"stub", "op"} =>
            \/ Cell(a)[1] # Cell(b)[1]
            \/ Cell(a)[2] # Cell(b)[2]
            \/ Cell(a)[1] = "op" /\ Cell(a)[3] # Cell(b)[3]

\* What has been published stays: no step changes a cell of a sealed chunk or
\* makes the chunk writable again, and once a preparation has failed nothing
\* more is placed or published (docs/runtime-interfaces.md, lazy construction).
PublishedStays ==
    [][/\ \A c \in DOMAIN image.chunks : image.chunks[c].sealed =>
             c \in DOMAIN image'.chunks /\ image'.chunks[c] = image.chunks[c]
       /\ image.failed => image' = image /\ published' = published]_vars

\* Every arrival at a stub comes to an end: the thread runs the body or the
\* call fails, whatever the other threads prepare meanwhile.
StubAnswered ==
    \A t \in Threads : thread[t].step = "lock" ~> thread[t].step \in {"run", "host"}
=============================================================================
