# A formal model of the ABC runtime

This directory holds TLA+ modules for the runtime of this repository: the ABC
three-stack virtual machine that Let programs are compiled to (`src/`, `gen/`
and `include/` of the repository; paths below are relative to its root). TLC
checks the modules on small instances; TLAPS proves some of the results for
every instance. `PROJECT.json` lists the runs, which lines each definition
models, the hazards of the code and which property covers each, and the
theorems.

Run TLC as `tlc -config X.cfg M`, where `M` is the part of `X` before its first
underscore, and the proofs as `tlapm OwnerProofs.tla` (and the other
`*Proofs` modules).

## 1. The system

A host program loads a *module* (bytecode with functions, exports and imports),
creates a *VM*, binds foreign functions, and calls exports. The module is
verified once, when it is loaded. The interpreter, the threaded tape and the
native code that may then run it check almost nothing again.

| Component | State | Operations | What is hard about it |
| --- | --- | --- | --- |
| owner core (`src/owner.c`) | a count and a link per owner, a dead queue per context | alloc, retain, release, replace, drain | threads retain and release one owner at once; a drain refills the queue it empties |
| operand bank (`gen/cache.lua`, `gen/banked.lua`, `src/vm.c`) | cells of A, B and C in registers and in memory | push, pop, spill, flush, context access, return | A and B grow towards each other in one bank; a wrong shift shows many instructions later |
| source lifetime bindings (`src/lifetime.c`) | slots that hold owners, the list of cleanup frames | alloc, hold, drop, clear, enter, leave, unwind | a call can fail anywhere and must still give everything back |
| verifier (`src/verify.c`) | worklist, shape per instruction, depths per function | structural pass, transfer, join, declared limits | all executors trust it; an unsound join is a wild access on one path only |
| interpreter (`gen/banked.lua`, `gen/cold.lua`, `src/vm.c`) | three stacks, continuations | instructions, calls, tail calls, returns, aborts | entry checks are the only limit checks |
| indirect call sites (`gen/cold.lua`, `src/vm.c`) | one observation per site, a transition counter | resolve, site statistics | a fast path skips every check on the strength of an earlier one |
| VM host interface (`src/vm.c`, `src/module.c`) | module counts, images of VMs, the active context | load, bind, call, free | modules are shared between threads; foreign code calls back into the library |
| native image (`src/native_image.c`) | chunks, labels, fixups, the slot of each stub | space, emit, publish, prepare | threads race for one preparation; a preparation may fail half-way |
| residualizer (`src/residualize.c`) | block versions per context, a queue of versions, registers and homes | edge, version_for, compile, the sink of every instruction | at most sixteen versions per block; a value has three homes and two copies may share one |
| symbolic executor (`src/symbolic.c`) | a context: three virtual stacks, continuations, proven room | transfers, capture and materialization, contexts compared and made generic | its renaming decides what a later instruction reads, in code that nobody sees |
| threaded tape (`src/threaded_emit.c`) | words, labels, fixups | emit, bind, publish | one publication, checked before it is applied |
| module loader (`src/module.c`, `src/memory_module.c`) | tables decoded from a file | load | lengths come from the file |
| foreign bridges (`gen/foreign.lua`) | none | marshal and call | generated per signature |
| optimizer (`src/optimize.c`) | facts about arguments, dirty functions, a graph per function | walk the paths, inline, close loops, emit | a later call may refute what a function was compiled for |
| residual IR, C backend (`src/residual_*.c`) | residual graphs | build, analyse, validate, print | build-time tools |
| Let frontend (`frontend/let`) | syntax, semantic values, placements, capture plans | parse, check, stage, place, emit | words close together once all that depend on each other are finished |
| toolchain, `lab/`, `research/`, `next/` | - | - | text and file conversion; history |

How they interact. `abc_vm_call` marks its VM as executing, finds or makes the
image of the module, runs an entry through the chosen executor, and afterwards
unwinds cleanup frames and drains the dead queue. Compiled code calls the
lifetime bindings as foreign functions, and they call the owner core. A
verified module promises the executors the shape of the stacks at every
instruction, and the operand bank makes three stacks out of registers and
memory. The native image calls back into the residualizer to prepare a block
version, which asks the image for new labels and stubs. Several VMs, on several
threads, share a module through its reference count and nothing else; a native
image may be entered by the threads that run its VM's code, so its preparation
takes a mutex.

What makes each component correct:

- *Owner core*: the count of an owner is the number of places that hold it; an
  owner dies once, is never revived, is freed after every access to it, and no
  queued owner is lost.
- *Operand bank*: a program cannot tell the bank from three plain stacks.
- *Lifetime*: whatever ends a call, every holding is given back and the next
  call starts clean.
- *Verifier and interpreter*: verification ends; what it accepts never runs into
  a missing operand, a wrong kind or a full stack, and leaves the declared
  results.
- *Indirect sites*: an observation never changes an answer and never goes back.
- *Host interface*: the count of a module is exact under all interleavings, a
  freed module is named by nobody, and nested calls keep VMs and contexts apart.
- *Native image*: no thread runs unsealed or unpatched code; all threads run the
  program; a version is prepared once; published code is immutable; every
  arrival at a stub is answered.
- *Symbolic executor and residualizer*: compiled code cannot be told from plain
  stacks and activations; control only reaches code that was compiled for its
  context; versions are limited, and recursion alone can exhaust them.
- *Threaded tape*: it is published whole, every label bound.
- *Optimizer*: the worklist ends; a function is compiled for facts that all its
  calls satisfy; what is left of a program computes what the program does.

## 2. The modules

`Owner` - `src/owner.c`, one action per atomic step. A thread has a program
counter inside the one call it is in: `Alloc`, `Replace` (the load, compare and
exchange of a shared retain are `RetainLoad`, `RetainCas`, `RetainCasFails`),
`Release`, `Enqueue`, and the drain loop `DrainBegin`, `DrainPop`, `DropField`,
`Free`, `DrainEnd`. Everything that can hold an owner is a *location*: a slot
of a thread, a field of a payload, or the local variable that carries a
reference through a call. The dead queue is the linked list that the code
keeps (`head`, `tail`, `next_dead`). What `owner.h` asks of callers is in the
guards: one thread writes a slot, strong edges are acyclic, a retained owner is
protected by a holding or a borrowed slot. The memory orders of the decrement
matter, so `access` records which accesses of a payload are ordered before
which thread's view; a relaxed decrement does not order them. An immortal
(static) owner is passed over by retain and release alike.

`ThreeStacks` and `OperandBank` - the interpreter's operands. `ThreeStacks` is
what a program sees. `OperandBank` places the same cells in a bank of registers
shared by A (from the low end) and B (from the high end), a bank for C, and
memory; `Spill`, `Push`, `Pop` and `Flush` are the generator's, and a return
with results on the wrong stack is the loop it is in the code (`TransferBegin`,
`TransferNext`). The refinement mapping concatenates memory and registers,
bottom first, and appends what a transfer has still to push.

`Lifetime` - the runtime bindings of `src/lifetime.c` that compiled code calls,
and the end of `abc_vm_call`. Owners here are local to a context, so a call is
sequential; each binding is one action, the drain and the unwind are loops of
their own. `slot` is what every place holds, `In` the container each place is
part of: an owner's payload, an activation's frame, or the image. The drop
function of a container may only call `source_drop`, which is what the lifecycle
check admits: `todo` is the slots it has yet to drop, and it drops one a step, in
any order.

`Verifier` and `Machine` - `src/verify.c` and the interpreter it protects.
`Verifier` is the structural pass, the worklist over shapes (the kind of every
cell, C's blocks of bytes cell by cell), the transfers of all instructions, the
joins, and the depths it declares. Instructions that take and leave cells alike
are one `op`; a transfer is what is taken (`Takes`), what else is demanded
(`Demands`: frame accesses inside one block, whole blocks freed, frames that a
tail call leaves empty), and what is left (`After`). `Machine` extends it with
the execution of the accepted program: a cell's value is its kind, a branch or
switch goes any of its ways, an operation may trap, foreign code may fail, an
indirect call finds any function of the right signature or fails. `Present` is
what the C code of a handler takes for granted; a handler whose operands are
missing has no step, and `NeverWild` says that this never happens. `base` is a
history variable: the stacks each activation was entered on.

`Resolver` and `IndirectSite` - `vm_resolve_indirect`. `Resolver` promises that
an answer is what the checks of a target alone would give; `IndirectSite` has
the observations, the transition counter and the statistics of
`abc_vm_site_stats`.

`VmHost` - hosts, VMs and modules. A thread has a stack of operations, because
foreign code may call the library again; the exchange loop on a module's
count, the building of an image, its failure, and the two halves of destroying
one are steps between which other threads move.

`NativeImage` - the lazy image. A chunk is a sequence of forms: stubs,
operations, and jumps to the next chunk. The operations on the image (`Space`,
`Bind`, `LazyEntry`, `Emit`, `Patch`, `Published`, `Failed`) are operators from
an image to an image, composed by the steps of a preparation; threads execute
the cells by address. `goal` is a history variable: the operation of the
program where a thread should be.

`Activations` and `Placement` - the residualizer, seen from the operands.
`Activations` extends `ThreeStacks` with callers: an activation sees its own
cells, calls move arguments to C, returns cut the activation off. `Placement`
is the symbolic machine that drives the native and threaded sinks: `m` holds
the context (each cell a constant, a register or a home, and the place where it
is due), the registers and the memory. A step is one instruction, renaming and
emitted loads, stores and moves together, executed at once. What no cell names
any more is forgotten after every step (`Junk`), so that a wrong renaming shows
as a wrong value. The refinement mapping of `StepsOfActivations` reads every
cell where its descriptor says it is. Virtual and real calls, backedges and
generic edges are free choices here. The code is wrong where it uses a copied
descriptor after a spill has changed the cell's own: of a result that a return
hands to the other stack (`Return`), and of the second operand of a store or an
array access (`Store`, `Index`). Both are modelled as they are; the history
variable `stale` says that it has happened, and to which (`Marks`).

`Versions` - makes those choices. The compiler goes through a given program and
looks for each edge's version (`version_for`), by comparing contexts; it makes
generic contexts, forgets constants on backedges, inlines a call when nothing
forbids it, and writes words and targets on the tape of `src/threaded_emit.c`,
which is published once. Afterwards `run` moves over the versions, with the
stack room that is really known to be there. Cells of the context are those of
C only.

`Optimizer` - `src/optimize.c`. A worklist compiles every needed function for
what is known of its arguments; a walk in depth-first order follows the paths
of the function and of what is inlined into it (`Step`, `KnownBranch`,
`UnknownBranch`, `Call`, `TailCall`, `Return`; `Edge` is the arrival at the entry
of a function, which opens, captures or closes a loop), and leaves a graph of
nodes. When the worklist is empty, `run` executes such a graph in step with the
program it was made from. A jump back to a loop leads to the prologue, before
every decision of the function (`optimize.c:677`, `:755`): `RunLoop` sets the
homes, and `RunPrologue` takes the decisions that precede the loop again while
the program waits; calls that are made again on this way give the same answer.
What the optimizer takes from the verifier is an
assumption on the programs: every instruction has a depth of A (`depth`), its
operands are there, and what leaves a function leaves nothing else behind.

`MCOwner`, `MCOperandBank`, `MCLifetime`, `MCMachine`, `MCIndirectSite`,
`MCVmHost`, `MCNativeImage`, `MCPlacement`, `MCVersions` and `MCOptimizer`
supply constants for TLC. `OwnerProofs`, `RuntimeProofs` (the operand bank, the
lifetime bindings and the indirect sites), `MachineProofs` (first the verifier,
then the machine), `VmHostProofs`, `NativeImageProofs`, `PlacementProofs`,
`VersionsProofs` and `OptimizerProofs` hold the proofs. So that the three models of `RuntimeProofs` can
be extended by one module, `Lifetime` and `IndirectSite` name their
specifications `LifetimeSpec` and `SitesSpec`.
Operators whose comment starts with "Bug" or "Mutant" are deliberate errors, used
to show that a property notices them; no specification uses them.

## 3. The runs

| Run | Instance | What it shows |
| --- | --- | --- |
| `owners` | two threads, two owners of one field that may hold each other, one of which may instead be static, one slot each, count limit 2 | exact counts, nothing dangles, frees ordered after accesses, each dead owner in one place, the queue's list, no revival, every drain ends |
| `bank_stacks` | two operand registers, one for C, all stacks up to two cells, two values | every reachable order of instructions is a step of three plain stacks |
| `lifetime_calls` | three owners of one slot, two frames of two slots, an image of one, limit 2 | exact holdings, nothing stranded, clean boundaries, cleanup ends |
| `machine_programs` | every body of four instructions from a menu with branches, of six over the cells and blocks of C, and of six over bytes, addresses, floats and foreign code; callers of six instructions with callees of four | verification ends; no accepted program takes a missing operand, leaves its shape, its limits or its declared results |
| `sites` | three sites of two signatures, six targets of every sort | observations are invisible, monotone and counted right |
| `host_shared` | two threads, two VMs (one interprets, one needs a load), two modules, count limit 2, calls three deep | exact module counts, no use after free, bindings and images agree, nested calls stay apart |
| `native_lazy` | two threads of two calls, three linked versions, chunks of three cells | nobody runs unpublished code, preparation once, immutability, stubs answered |
| `placement` | two registers, A, B and C of two cells, three cells in all, one virtual or real call deep, two results handed to the other stack | compiled code cannot be told from plain stacks and activations until it uses a stale copy of a descriptor |
| `placement_results` | the same, only stores and array accesses excused; expects a violation | see finding 1 |
| `versions` | callers of four instructions with callees of two, recursive functions of six; three versions a block | jumps reach code made for them, versions are limited, only recursion exhausts them, loops forget constants, the tape is published whole, room is proven for versions that are not generic |
| `optimizer` | every module of three functions from eleven bodies, and loops of two arguments; two values | the worklist ends, facts hold of all calls, code that does not go astray does what the program does |
| `optimizer_straying` | eight modules of four kinds; expects a violation | see finding 2 |

Findings. The two runs that expect a violation show disagreements of the code
with what its comments and documents say.

1. `src/symbolic.c:512` (`ResultsSurvive` in `placement_results`). A
   virtual return that hands two results to the other stack captures both first
   and then copies their descriptors. With no register free, the capture of the
   second spills the first, whose descriptor is now the home of a cell that is
   about to be cut off and reused. The comment at `src/symbolic.c:116` names
   this very hazard.
2. `src/optimize.c:314` and `:334-346` (`SameProgram` in `optimizer_straying`). A
   tail call to a recursive function is emitted as a tail call of the function
   that is compiled, even when the function that makes it was inlined: what its
   callers still had to do is lost. A loop is made stable and closed without a
   comparison of the continuations or of the way that led to it. So it may be
   entered under one caller and closed under another, its trial may be ended by
   another arm of a branch than began it, and another arm that comes to a stable
   loop is taken for a jump back: the jump leads to the prologue, the branch goes
   the same way again, and the code never comes to the loop.
   `docs/abc-opt.md` promises the same language-visible behaviour. A walk to
   which one of these four things happens is `astray` (a context's `looped` says
   whether its path has come through the loop's header). `SameUnlessAstray` says
   that, in what is modelled, there is no other way to go wrong: the code of
   every function whose walk was not astray does what the program does, and
   after every jump back it does come to its loop again.

Why the bounds are enough. The interesting cases of the owner core need two
threads in the exchange loop at once, an owner held through another one, and a
count at its limit: `owners` has these, and the theorems cover all other
sizes. Two operand registers make every push past the second one spill, also a
push of A that spills B; one register for C makes a C stack of two lie on both
sides. Lifetime's three owners allow a chain that a drain takes apart in two
rounds; two frames allow an inner and an outer activation to fail together;
the limit of two is reached. Four instructions are the shortest body with a
loop, a join of two paths and something before and after it; six are needed to
make a block, a slot above it, an access and a return; capacities are small
enough that accepted programs pass them. The theorems cover all longer programs
and deeper calls. A site passes through all its states
in three resolutions. A limit of two on a module's references makes two VMs
compete for the last one. Chunks of three cells make a version of four
operations cross a boundary. Two registers against three cells make Placement
spill, share a register between two cells, materialize into a home that another
cell still names, and spill a captured result or a copied operand. Three versions
are the least number that has a version for each constant before the generic
one. Nothing is claimed of `Placement` once `stale` is set, so the run `placement`
stops there (`Claimed`). Three functions allow a caller, an inlined callee and a
recursive one below it, and two values keep a constant apart from what refutes
it.

Bounds that are not in the code: `MaxDepth` (operations nested on a thread),
`MaxCalls` (calls per thread of a native image; nesting in `Placement`),
`MaxCells` (cells of `Placement` on the three stacks together), `MaxResults`
(results of a real call), `Capacity` (both `limits.stack_cells` and, for the length of the
continuation stack, the same value), `Width` (values of `Optimizer`), the
lengths of the programs, and all sets of names. `Limit`, `PathLimit` and
`MaxCount` stand for the largest value of the respective counter.

Deadlock. `Machine`, `NativeImage`, `Versions` and `Optimizer` stop when programs
end and calls are used up, so their runs do not check for deadlock; all others
do.

Fairness. `Owner`: a thread that is inside a call keeps running, and nothing is
assumed of what it calls next. `Lifetime`: the two loops of the library keep
running, and so does a drop function. `Machine`: the verifier keeps running, a program need not end.
`NativeImage`: threads keep running and a free mutex is obtained; with a
bounded number of calls weak fairness of the lock says no more than that
`pthread_mutex_lock` returns once nobody else wants the mutex. `Optimizer`: its
one thread goes on with the worklist. No fairness is assumed of hosts or of
failures, nor of `Placement` and `Versions`.

## 4. The proofs

*Owner* (`OwnerProofs`), for any numbers of threads, owners, slots and fields
and any limit. `HoldersCounted`, `NoDangling` and `NoResurrection` are not
inductive: a step of a call is right only because of what the call did before,
and a pop is right only because the queue is a list. The invariant is

    OwnerInv == TypeOK /\ CallInv /\ CountInv /\ CustodyInv /\ ListInv

`CallInv` says what the locals of a call are at each of its steps, `CountInv`
that counts equal holders, `CustodyInv` that a dead owner is with exactly one
releaser, queue or drain loop, `ListInv` that the links join the owners of one
queue in a list without sharing. The lemmas in the module follow the actions; for
each action one lemma shows that it keeps each part. The theorems are
`TypeCorrect`, `InvariantHolds`, `CountsExact` (`HoldersCounted`),
`NeverDangling` (`NoDangling`), `DeadExactlyOnce` (`DeadOnce`) and `ZeroIsFinal`
(`NoResurrection`). `DropsOrdered` (`DropOrdered`: whoever frees an owner sees
every earlier access to its payload) needs a second layer,

    OrderInv == SlotInv /\ AccessedInv /\ PendingInv

on top of the first: a slot belongs to the thread that writes it, a thread whose
access is not yet published still holds the owner, and only live shared owners
have accesses that are still to be ordered. `QueuesWellFormed`
(`QueueWellFormed`: following the links from the head finds every owner that was
released into a queue, and its tail last) needs a third,

    ChainInv == LinkedInv /\ OpenInv

every queued owner but the head is linked from one of its queue, only the tail
has no link, and no set of owners is linked in a circle. What the function that
follows the list finds is then shown by the least number of steps at which it
would be wrong. Assumptions: `OwnerConstants` (finite sets, a limit of at least
one, NULL no owner) and `NullIsNoLocation`.

*OperandBank* (`RuntimeProofs`), for any numbers of registers, any depths
and any set of values: `BankKeepsShape` (`TypeOK`: A and B never overlap in
the bank) and `BankImplementsStacks` (`ImplementsStacks`, the refinement). The
argument goes through lemmas about what `Spill`, `Push`, `Pop` and `Flush`
leave of each stack's contents; a spill is invisible, and every instruction is a
composition of them. Assumption: `BankConstants`.

*Lifetime* (`RuntimeProofs`), for any numbers of owners, frames and slots and any
limit:

    HeapInv     == Types /\ HoldingsExact /\ QueueInv /\ KeptInv
    LifetimeInv == HeapInv /\ CleanBoundaries
                     /\ (phase = "closing" => frames = <<>>)

`HoldingsExact` says that counts are numbers of holders, `QueueInv` that the dead
queue names an owner once and only when nothing holds it, and `KeptInv` that a
slot which holds something is in the image, in an activation's frame, in an owner
that is alive or waits to be drained, or among the slots that a drop function has
yet to come to. The last is what makes `NothingStranded` inductive: a container
goes away only after its drop function is through. Every binding is one exchange
of a slot's contents with the release of what it held, so one lemma
(`Releasing`) serves them all; the counting is `HoldersChange`. The theorems are
`LifetimeInvariant`, `HoldingsAreExact` (`HoldingsExact`), `NothingIsStranded`
(`NothingStranded`) and `BoundariesAreClean` (`CleanBoundaries`). Assumption:
`LifetimeConstants`.

*Verifier and Machine* (`MachineProofs`), for any set of
programs, any foreign signatures and any capacity: type soundness. The argument
has the two halves of such proofs.

The first part shows of the worklist

    VInv == VTypes /\ VStructured /\ VEntries /\ VWaiting /\ VChecked /\ VDeep

that shapes are well-formed (`Wf`: A and B hold scalars, C's blocks are whole)
and functions begin with their arguments; that an instruction with a shape is
either still waiting or `Checked`: its operands are accepted and every successor
has the shape it leaves; and that no shape is deeper than the depths declared.
Taking an instruction off the list keeps this because a join may give a shape
to an instruction that has none but never change one. When nothing waits, the
program is `Consistent` (`AcceptedIsConsistent`).

The second part follows a run of a consistent program. `Stands(st, u, sh)` says
that stacks st are the shape sh on top of u. Each handler takes the machine from
one such state to the next (`EffectIs`, and `PresentThere` for what it takes for
granted). Calls need more, since a return is right only because of what the call
left: `Chain` says of every activation that it stands on a floor with a return
address on top of C (`Floor`), has room for its declared depths above it
(`Room`), and, once its results are put where its caller wants them, leaves the
caller exactly what the verifier inferred at the return address (`Resumes`). A
call adds a link (`EnterStands`, `ChainGrown`), a tail call replaces the last
(`ReplaceStands`, `ChainReplaced`), a return removes it (`ReturnStands`,
`ChainShrunk`). HALT hands over all of a stack, so `Chain` also says that only
the first activation may reach one; this is why the verifier forbids calls of
functions with HALT, and the resolver indirect ones. The theorems are
`NeverWildHolds` (`NeverWild`), `ShapeRightHolds` (`ShapeRight`),
`WithinLimitsHolds` (`WithinLimits`) and `ResultsHold` (`ResultsAsDeclared`).
Assumptions: `ProgramsAssumption` (what the loader guarantees of a decoded
program: at least one function, no empty body, the operand ranges of an
instruction) and `MachineConstants` (a capacity of at least one cell).

*IndirectSite* (`RuntimeProofs`): the invariant `SiteInv` adds to the types
that a site which skips its checks holds a function that passes them. From it
`SitesTransparent` (the refinement of `Resolver`), `SitesNeverBack` and
`SitesTyped`; and `StatisticsAddUp` (`StatsAddUp`): the four numbers a host may
read partition the sites and their transitions, the transition counter being a
sum over the sites that changes with one of them. Assumptions:
`NamesAssumption`, `SitesAssumption`.

*VmHost* (`VmHostProofs`), for any threads, VMs, modules, names, addresses,
count limit and depth of nesting:

    VmInv == TypeOK /\ FramesInv /\ NestInv /\ CallsInv /\ ImagesAgree /\ CountInv

`FramesInv` is what an operation in progress knows of its VM and its module at
each step (that the module is still named by a handle, that no image of it was
made meanwhile, that the import table it has built still agrees with the
bindings); it holds because a VM belongs to one thread and because whatever
nests on top leaves those alone. `NestInv` says that all but the latest
operation of a thread are running calls, each of which remembers the context
below it; `CallsInv` that a VM is in at most one call and that every executing
mark belongs to one; `CountInv` is `RefsExact` and that freed modules have no
references. The theorems are `VmInvariant`, `VmTyped`, `ReferencesExact`
(`RefsExact`), `ModulesOutliveUse` (`NoUseAfterFree`), `BindingsFixed`
(`ImagesAgree`) and `CallsNested` (`CallsNest`). Assumptions: `FiniteAssumption`,
`ImportsAssumption`, `LimitAssumption`, `NoneAssumption`.

*NativeImage* (`NativeImageProofs`), for any threads, versions, numbers of calls
and pages of at least two cells:

    NativeInv == Types /\ ImageInv(image) /\ LoadInv /\ PublishedInv /\ Unheld
                   /\ \A t \in Threads : ThreadInv(t)

`ImageInv` is about the emitter alone: `RoomInv` (an open chunk keeps room for
the jump to the next), `StubInv` (a known version has exactly one stub, where its
entry says), `FixupInv` (what is pending is exactly the branches in open chunks)
and `OpInv` (an operation is placed once). `ThreadInv` says that a thread is at a
stub of its goal or on its way to it, and of the holder of the mutex how far it
has come (`Stage`): which operations are placed, each leading to the next, and
where the latest of them is. `PublishedInv` says that a published version is
`Ready`: placed as a whole, sealed, its branches bound to sealed stubs; `Unheld`
that nothing is left open when nobody holds the mutex. The emitter's operators
are shown first (`Laid`, `Stubbed`, `OpMade`, `BodyBound`, `PublishEffect`,
`FailEffect`), then each action. The theorems are `ImageInvariant`,
`ExecutionFollowsTheProgram` (`RunsTheProgram`), `PreparationIsNotRepeated`
(`PreparedOnce`) and `PublicationIsFinal` (`PublishedStays`). Assumptions:
`CodeAssumption` (a version has operations and does not run off its end),
`PageAssumption`, `CallsAssumption`, `NoOneAssumption`.

*Versions* (`VersionsProofs`), for any programs, any limit of at least two versions
and any number of registers:

    VInv       == Types /\ Good(c, 0) /\ AtInv /\ RunInv
    Good(k, l) == VersionsInv(k) /\ LimitInv(k) /\ SpareInv(k)
                    /\ TapeInv(k) /\ LocalsInv(k, l) /\ PlaceInv(k) /\ ...

An instruction asks for up to two versions and emits up to five words before it
is done, so `Good` is about a compiler k that is a value, l being the label of a
branch that is still to be bound: `MadeGood` (asking for a version) and
`EmitGood` (emitting a word) keep it, and an action is a few of these.
`VersionsInv` gives every version a label of its own; `LimitInv` is
`WithinLimit`; `SpareInv` says that a full family has a generic version if no
function recurses, which is why such a program is never refused: an edge to a
family that is nearly full asks for the generic context (`NotRefused`). `TapeInv`
says of every word that leads to a version that this version fits the context the
edge leaves with, that a backward edge forgot the constants, and that the room it
relies on was known where the version began or was guarded on the way
(`Cleared`). `LocalsInv` and `PlaceInv` say where labels are bound; `AtInv` ties
them to the version that is compiled, `RunInv` the thread to what it runs. That a
loop forgets its constants goes through `Weakened`, which brings one cell after
the other into a register: a later cell may spill an earlier one, and its home
tells nothing either. The theorems are `VersionsInvariant`, `EdgesFit`
(`JumpsAccepted`), `VersionsAreLimited` (`WithinLimit`), `OnlyRecursionIsRefused`
(`RefusedForRecursion`), `LoopsAreNotUnrolled` (`LoopsForget`),
`TargetsArePatched` (`PublishedWhole`) and `RoomIsLookedFor`
(`RoomProvenUnlessGeneric`). Assumptions: `LimitAssumption` (the code has
sixteen), `RegistersAssumption`, and `ProgramsAssumption`: what the loader and
the verifier guarantee, that nothing leads out of the code or runs off its end,
that calls name functions, and that no two functions begin at one place
(`src/module.c:89`).

*Placement* (`PlacementProofs`), for any number of registers from two, any sizes
of the three stacks, any values, any function on them and any nesting of calls:

    IInv    == Good(m) /\ view = View(m)
    Good(k) == Sane(k) /\ Framed(k)

`InPlace` says where a cell is due, and the refinement what it stands for, and
neither is inductive alone: a home is right only if its cell is due there, and a
cell is overwritten unless no other cell is due at the same slot. `Sane` says of
every cell that it is `Placed` (a constant, a register, or a home in the slot
`Spot` of its own position, and due at that slot) and that it stands for a value
(`Holds`); `Framed`, that the cells of a caller lie under those of its callee, so
that a return cuts off its own cells only. That every activation numbers its cells
of C from the same offset, `-Arguments`, is part of it: a cell that a call moves
from A to C is renamed to the slot it will be found in.

Most of the code only moves values about: spills, materializations, homes,
flushes, edges. `Keeps(k, j)` is what all of it has in common: the cells of `j`
stand for what those of `k` did, and memory has changed in slots of cells only, to
what belongs there. It is transitive, and lemmas show it of each of the operators
that the instructions are composed of; `AtHand` and `AtHome` add what
materializing and homing a cell are for. Those operators are walks over the cells
(folds), and a fact about every fold would be an induction. `WayExists` shows
instead that there is a function from step numbers to the contexts on the way,
`Climb` that what holds before the first step and is kept by each holds after the
last, and one lemma per walk cites both.

Then each action has a lemma that says what `View` is afterwards, which callers
there are and what goes out (`Steps`), and another one (`...Does`) that this is
the step `Activations` takes for the same instruction. Calls are the long ones: a
virtual call renames its arguments one by one while the cells still to come may
lie in the registers and homes about to be used, and a virtual return does the
same on the way back. The theorems are `StandsForValues`, `AlwaysInPlace`
(`InPlace`) and `RefinesActivations` (`StepsOfActivations`).

Assumptions: `RegistersAssumption` (two registers, as an operation on two operands
needs), `BoundsAssumption` (the bounds are numbers) and `OpAssumption` (the
function yields values), and nothing else: the three theorems are about the
whole specification, with any number of results handed over and any pressure on
the registers. What they say ends where the code is wrong. The inductive invariant
is

    Sound == stale = "none" => IInv

and `StepsOfActivations` asks nothing of a step that sets `stale`, or of a later
one. The proof needs this exactly where a descriptor is taken before a spill and
used after it: `StoreIs`, `IndexIs` and `ReturnIs` conclude from `stale' = "none"`
that the cell still had the descriptor that was copied of it (`UnmarkedIs`).
`StaleSince` shows that no step takes `stale` back.

*Optimizer* (`OptimizerProofs`), for any verified programs, any width of the
values and any limit of paths:

    IInv == WorkInv /\ JobInv /\ CodeInv /\ RunInv

`SameUnlessAstray` speaks of the run only, and a run is right because of what
the walk did long before it. `WorkInv` is about the worklist: every claim that
some code makes (a call that stayed, and what is known of what it passes) is
`Covered` by the facts of its target. The facts of a function that is not dirty
are those it was compiled for, since a weaker fact makes it dirty again
(`CodeInv` speaks of what is `Published`, and of that only). `JobInv` and
`CodeInv` say the same of the graph, while it grows and when it is finished
(`GraphFit`): every node is a context in shape (`Fit`: operands above the floors of
the inlined callers, cells of C by frames) whose values use only what is there to
be read at it (`Operands`: inputs, homes of the loop, results of earlier nodes);
`Doing` says what kind of node it may be; `Leads`, that it is linked to the node
of the state that the machine reaches from it, or to an arm that waits to be
walked, except nodes of the trial of a loop, which nothing enters any more
(`Live`). Three facts are less obvious. A jump back to the function's own entry is
only right if nothing is inlined at that moment: `Inside` says that the function
is not reached from what is inlined below it, by the call graph's closure
(`Reached`). The loop's header must fit both the first entry and every close:
`LoopFit` has the cells without homes equal in all of them, and `TrialFit` that a
trial leaves no arm. And the nodes that the loop is left from are re-routed when
the trial ends (`Rerouted`), which keeps every other link. Where neither the
continuations nor the way to a loop are compared the code of the optimizer has no such fact; the walk is then `astray`
and the invariant asks for nothing more (finding 2).

`RunInv` ties the run to its node: the same continuations, and every value of the
node, read with the run's inputs, homes and results, is the program's. While the
code is on its way back from a jump, the program waits at the loop, and so says
`BackFit` of the loop's node. That the way does lead there is a fact about the past:
`Found` says that the run came to its node by a way `W`, a set of nodes that starts
at the prologue and in which each node leads, as the run's values decide, to a later
node of the set or to the end of it. The homes of the loop are none of the values
that nodes before the loop read, and the results of calls stay, so every node of
`W` decides again as it did before; and as links lead forward, the code comes to the
loop. A jump back that was noted on a path that never came through the loop's header
has no such way, which is why the walk must have been `astray`. The lemma
for a step of a run is one simulation argument for all instructions (`Pair`,
`Goes`, `Arrives`): the symbolic machine and the program's are the same function
on constants and nodes. The theorems are `OptimizerInvariant`, `OptimizedIsSame`
(`SameUnlessAstray`), `ArgumentsAreForeseen` (`ArgumentsForeseen`: the call's
claim is covered, and the run's values are those of the claim) and
`FactsOnlyFall`, an action property: functions stay needed, and a fact only goes
from unreached to a value to unknown. Assumptions: `WidthAssumption`,
`LimitAssumption`, `ProgramsAssumption` (what the verifier has made sure of).

Only model-checked: liveness (`DrainEnds`, `CleanupEnds`, `VerdictReached`,
`StubAnswered`, `WorklistEnds`), which is out of the prover's reach. Every
other property of the passing runs is a theorem.

## 5. What is left out

- *Values.* `OperandBank` and `Placement` have an operator constant for
  arithmetic; `Machine` has kinds only; `Optimizer` has constants and an
  increment. What an instruction computes is not modelled.
- *In `Verifier` and `Machine`*: what is stored in memory (a load may find
  anything of its kind), the structural checks of undecoded bytes, of offsets
  into the image, of relocations and lifecycle entries, and the interning of
  shapes, which are compared as values.
- *Weak memory*, except the ordering of payload accesses in `Owner`. The
  release store and acquire load of a native stub's slot (`native_image.c:130`)
  are modelled in the order in which they take effect.
- *Host discipline.* `VmHost` assumes that a host frees neither a VM that runs
  nor the handle of a module that an operation of its own is still using, and
  that a VM stays with its thread (`include/abc.h`).
- *Native code bytes.* A form is a cell; encodings and relocations are not
  modelled. Labels inside a version's body (the arms of a branch) are not
  modelled either; the label of a body is bound in a fresh chunk, so in
  `NativeImage` no label is bound at the very end of a chunk.
- *In `Placement`*: switches, branches on immediates and on zero, halts and
  aborts, C blocks and stores into frames and globals, more arguments than
  registers, and the checks of stack room (which are in `Versions`). What a
  program sees after `stale` is set is not claimed to be right: a store that
  copies the descriptor of its value, spills it for the address and then stores
  the register (`residualize.c:369`) is as wrong as a result of finding 1, but
  no document says that it is not, so it is no finding and has no run.
- *In `Versions`*: operand stacks (an activation has one cell), lazy preparation
  (in `NativeImage`), lifecycle entries. `RoomProvenUnlessGeneric` excepts
  generic versions: `version_for` accepts one before it has compared the room
  (`residualize.c:410`), so a version that was made where room was known may be
  entered from where it was not. `MCVersions!Joining` holds programs that do
  this; with `Programs <- Joining` and `Limit = 4` the invariant `RoomProven`,
  which has no such exception, is violated.
- *In `Optimizer`*: stack B, memory, traps, indirect calls, and the order of
  effects (calls are pure, so the emission of a call at its only use,
  `optimize.c:526`, `:747`, `:756`, is not questioned); the scheduling of a graph
  into bytes; the rewriting of a module's other sections.
- *Let frontend* (`frontend/let`): a single-threaded compiler. Its one protocol
  is in `source_state.lua`, where captures are delivered to listeners and words
  that depend on each other close together; the order in which listeners are
  called depends on every pass above it, so a model of it alone would assert
  what it assumes.
- *Module loader* (`src/module.c`): a decoder of tables; what of it is shared
  state, the reference count, is in `VmHost`.
- *Residual IR, C backend, foreign bridges, command line, assembler*: conversions
  without a protocol. `lab/`, `research/` and `next/` are history: `next/` and
  `research/archive` repeat earlier states of `src/`.

## 6. Plan

What a next step would add, in this order:

1. Operand stacks in `Versions`, so that it can be composed with `Placement` and
   its edges be the ones that `Placement` leaves free.
2. Switches, branches on immediates and stores into frames and globals in
   `Placement`; each is one more action, one more lemma on `Keeps` and one more
   step of the refinement.
3. Effects in `Optimizer`: a trace of stores as the observable, for the emission
   of pure calls at their use.
4. An `OwnerHeap` without queue or atomic steps that `Owner` implements.
5. `Captures` (`frontend/let/source_state.lua`) together with the checker that
   drives it.
