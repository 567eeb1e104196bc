------------------------------- MODULE VmHost -------------------------------
(***************************************************************************)
(* Hosts, VMs and modules (src/src/vm.c and abc_module_free in             *)
(* src/src/module.c).                                                      *)
(*                                                                         *)
(* Every VM belongs to the thread that made it; modules are immutable and  *)
(* shared, and counted: one reference for the host's handle and one for    *)
(* every image a VM has of the module.  A load takes its reference with an *)
(* exchange loop that competes with the loads and frees of other threads.  *)
(* Foreign code that a call runs may call back into the library, so a      *)
(* thread has a stack of operations.                                       *)
(***************************************************************************)
EXTENDS Integers, Sequences, FiniteSets, SequencesExt, FiniteSetsExt

CONSTANTS
    Threads, Vms, Modules,
    Names,         \* names a module can import
    Addresses,     \* addresses a host can bind
    Imports,       \* per module the names it imports
    Interpreted,   \* the VMs that interpret; the others need a prior load
    Limit,         \* largest reference count (UINT_MAX in the code)
    MaxDepth,      \* bound: operations nested on a thread
    None           \* no thread, no VM, no module, nothing bound

ASSUME FiniteAssumption == IsFiniteSet(Threads) /\ IsFiniteSet(Vms)
ASSUME ImportsAssumption == \A m \in Modules : Imports[m] \subseteq Names
ASSUME LimitAssumption == Limit \in Nat \ {0}
ASSUME NoneAssumption == None \notin Threads \cup Vms \cup Modules \cup Addresses

VARIABLES
    refs,        \* per module its reference count
    handles,     \* modules whose handle the host still has
    freed,       \* modules whose storage is gone
    owner,       \* per VM its thread, None while there is no such VM
    bindings,    \* per VM the address of each foreign name
    images,      \* per VM its images, the latest first
    executing,   \* VMs with a call
    stack,       \* per thread its nested operations
    active       \* per thread abc_active_context, as a VM

shared == <<refs, handles, freed>>
vms    == <<owner, bindings, images>>
vars   == <<shared, vms, executing, stack, active>>

-----------------------------------------------------------------------------

Top(t) == Last(stack[t])
At(t, step) == stack[t] # <<>> /\ Top(t).step = step
OpOf(t) == IF stack[t] = <<>> THEN "none" ELSE Top(t).op

\* A thread calls the library from its host program or from foreign code.
Free(t) == stack[t] = <<>> \/ At(t, "run")
MayCall(t) == Free(t) /\ Len(stack[t]) < MaxDepth

Frames == UNION {{<<t, i>> : i \in DOMAIN stack[t]} : t \in Threads}
FrameAt(p) == stack[p[1]][p[2]]

Found(v, m) == \E i \in DOMAIN images[v] : images[v][i].module = m

\* The host names a module by its handle, or one its own VM retains.
Named(v, m) == m \in handles \/ Found(v, m)

Push(t, op, v, m, step) ==
    stack' = [stack EXCEPT ![t] = Append(@,
        [op |-> op, vm |-> v, module |-> m, step |-> step, saw |-> 0,
         table |-> <<>>, previous |-> None])]
Become(t, frame) == stack' = [stack EXCEPT ![t] = Append(Front(@), frame)]
Move(t, step) == Become(t, [Top(t) EXCEPT !.step = step])
Pop(t) == stack' = [stack EXCEPT ![t] = Front(@)]

\* A call of a VM ends, a load does not touch the mark.
Done(t) ==
    executing' = IF OpOf(t) = "call" THEN executing \ {Top(t).vm} ELSE executing

\* The operation returns an error.
Fail(t) == Pop(t) /\ Done(t)

\* Mutant: the count left by the subtraction is compared, not the one before.
IsLastLeft(m) == refs[m] - 1 = 1

IsLast(m) == refs[m] = 1

\* abc_module_free: whoever takes the count from one frees the module.
Release(m) ==
    /\ refs' = [refs EXCEPT ![m] = @ - 1]
    /\ freed' = IF IsLast(m) THEN freed \cup {m} ELSE freed

Init ==
    /\ refs = [m \in Modules |-> 0]
    /\ handles = {} /\ freed = {}
    /\ owner = [v \in Vms |-> None]
    /\ bindings = [v \in Vms |-> [n \in Names |-> None]]
    /\ images = [v \in Vms |-> <<>>]
    /\ executing = {}
    /\ stack = [t \in Threads |-> <<>>]
    /\ active = [t \in Threads |-> None]

-----------------------------------------------------------------------------
(* Modules, VMs and bindings. *)

\* A module is read and verified; its handle is the first reference.
LoadModule(m) ==
    /\ refs[m] = 0 /\ m \notin freed
    /\ refs' = [refs EXCEPT ![m] = 1]
    /\ handles' = handles \cup {m}
    /\ UNCHANGED <<freed, vms, executing, stack, active>>

\* The host gives its handle up once no operation it has started still needs
\* it; others may go on building, running and destroying images of the module.
FreeHandle(t, m) ==
    /\ Free(t) /\ m \in handles
    /\ \A p \in Frames : FrameAt(p).module = m => FrameAt(p).step \notin {"find", "exchange"}
    /\ handles' = handles \ {m}
    /\ Release(m)
    /\ UNCHANGED <<vms, executing, stack, active>>

CreateVm(t, v) ==
    /\ Free(t) /\ owner[v] = None
    /\ owner' = [owner EXCEPT ![v] = t]
    /\ UNCHANGED <<shared, bindings, images, executing, stack, active>>

\* Mutant: bindings stay open while no call runs.
BindableIdle(v) == v \notin executing

Bindable(v) == images[v] = <<>>

\* A second binding of a name replaces the first.
BindForeign(t, v, n, a) ==
    /\ Free(t) /\ owner[v] = t /\ Bindable(v)
    /\ bindings' = [bindings EXCEPT ![v][n] = a]
    /\ UNCHANGED <<shared, owner, images, executing, stack, active>>

-----------------------------------------------------------------------------
(* abc_vm_load, abc_vm_call and the image they share. *)

BeginLoad(t, v, m) ==
    /\ MayCall(t) /\ owner[v] = t /\ Named(v, m)
    /\ Push(t, "load", v, m, "find")
    /\ UNCHANGED <<shared, vms, executing, active>>

Callable(t, v) == v \notin executing

BeginCall(t, v, m) ==
    /\ MayCall(t) /\ owner[v] = t /\ Named(v, m)
    /\ Callable(t, v)
    /\ executing' = executing \cup {v}
    /\ Push(t, "call", v, m, "find")
    /\ UNCHANGED <<shared, vms, active>>

FindImage(t) ==
    /\ At(t, "find") /\ Found(Top(t).vm, Top(t).module)
    /\ IF Top(t).op = "call" THEN Move(t, "start") ELSE Pop(t)
    /\ UNCHANGED <<shared, vms, executing, active>>

Resolved(v, m) == \A n \in Imports[m] : bindings[v][n] # None

\* The foreign table is complete: go on to the reference count.
BeginImage(t) ==
    LET v == Top(t).vm
        m == Top(t).module
    IN  /\ At(t, "find") /\ ~Found(v, m)
        /\ Top(t).op = "load" \/ v \in Interpreted
        /\ Resolved(v, m)
        /\ Become(t, [Top(t) EXCEPT !.step = "exchange", !.saw = refs[m],
                         !.table = [n \in Imports[m] |-> bindings[v][n]]])
        /\ UNCHANGED <<shared, vms, executing, active>>

\* An unbound name, a failed check or allocation, or a residual call of a
\* module that was not loaded.
NoImage(t) ==
    /\ At(t, "find") /\ ~Found(Top(t).vm, Top(t).module)
    /\ Fail(t)
    /\ UNCHANGED <<shared, vms, active>>

Exhausted(t) == Top(t).saw = Limit

AtLimit(t) ==
    /\ At(t, "exchange") /\ Exhausted(t)
    /\ Fail(t)
    /\ UNCHANGED <<shared, vms, active>>

\* Mutant: the count is stored without a comparison.
ExpectedAny(t) == TRUE

Expected(t) == refs[Top(t).module] = Top(t).saw

Exchange(t) ==
    /\ At(t, "exchange") /\ ~Exhausted(t) /\ Expected(t)
    /\ refs' = [refs EXCEPT ![Top(t).module] = Top(t).saw + 1]
    /\ Move(t, "build")
    /\ UNCHANGED <<handles, freed, vms, executing, active>>

ExchangeFails(t) ==
    /\ At(t, "exchange") /\ ~Exhausted(t) /\ ~Expected(t)
    /\ Become(t, [Top(t) EXCEPT !.saw = refs[Top(t).module]])
    /\ UNCHANGED <<shared, vms, executing, active>>

Linked(v, image) == <<image>> \o images[v]

LinkImage(t) ==
    LET v == Top(t).vm
        image == [module |-> Top(t).module, table |-> Top(t).table]
    IN  /\ At(t, "build")
        /\ images' = [images EXCEPT ![v] = Linked(v, image)]
        /\ IF Top(t).op = "call" THEN Move(t, "start") ELSE Pop(t)
        /\ UNCHANGED <<shared, owner, bindings, executing, active>>

\* A failed preparation gives its reference back.
BuildFails(t) ==
    /\ At(t, "build")
    /\ Release(Top(t).module)
    /\ Fail(t)
    /\ UNCHANGED <<handles, vms, active>>

-----------------------------------------------------------------------------
(* execute() and what foreign code does below it are the steps between these. *)

StartRun(t) ==
    /\ At(t, "start")
    /\ active' = [active EXCEPT ![t] = Top(t).vm]
    /\ Become(t, [Top(t) EXCEPT !.step = "run", !.previous = active[t]])
    /\ UNCHANGED <<shared, vms, executing>>

\* Mutant: the context is cleared instead of restored.
RestoredNone(t) == None

Restored(t) == Top(t).previous

EndRun(t) ==
    /\ At(t, "run")
    /\ active' = [active EXCEPT ![t] = Restored(t)]
    /\ Pop(t) /\ Done(t)
    /\ UNCHANGED <<shared, vms>>

-----------------------------------------------------------------------------
(* abc_vm_free.  A host does not free a VM that executes a call. *)

BeginFree(t, v) ==
    /\ MayCall(t) /\ owner[v] = t /\ v \notin executing
    /\ Push(t, "free", v, None, "images")
    /\ UNCHANGED <<shared, vms, executing, active>>

\* The image is taken off the list; its reference stays until it is destroyed.
UnlinkImage(t) ==
    LET v == Top(t).vm
    IN  /\ At(t, "images") /\ images[v] # <<>>
        /\ Become(t, [Top(t) EXCEPT !.step = "destroy", !.module = Head(images[v]).module])
        /\ images' = [images EXCEPT ![v] = Tail(@)]
        /\ UNCHANGED <<shared, owner, bindings, executing, active>>

\* image_free still reads the module; only then its reference goes.
DestroyImage(t) ==
    /\ At(t, "destroy")
    /\ Release(Top(t).module)
    /\ Become(t, [Top(t) EXCEPT !.step = "images", !.module = None])
    /\ UNCHANGED <<handles, vms, executing, active>>

EndFree(t) ==
    LET v == Top(t).vm
    IN  /\ At(t, "images") /\ images[v] = <<>>
        /\ owner' = [owner EXCEPT ![v] = None]
        /\ bindings' = [bindings EXCEPT ![v] = [n \in Names |-> None]]
        /\ Pop(t)
        /\ UNCHANGED <<shared, images, executing, active>>

-----------------------------------------------------------------------------

Host(t) ==
    \/ \E v \in Vms : CreateVm(t, v) \/ BeginFree(t, v)
    \/ \E m \in Modules : FreeHandle(t, m)
    \/ \E v \in Vms, m \in Modules : BeginLoad(t, v, m) \/ BeginCall(t, v, m)
    \/ \E v \in Vms, n \in Names, a \in Addresses : BindForeign(t, v, n, a)

Library(t) ==
    \/ FindImage(t) \/ BeginImage(t) \/ NoImage(t)
    \/ AtLimit(t) \/ Exchange(t) \/ ExchangeFails(t)
    \/ LinkImage(t) \/ BuildFails(t)
    \/ StartRun(t) \/ EndRun(t)
    \/ UnlinkImage(t) \/ DestroyImage(t) \/ EndFree(t)

Next == \/ \E m \in Modules : LoadModule(m)
        \/ \E t \in Threads : Host(t) \/ Library(t)

Spec == Init /\ [][Next]_vars

-----------------------------------------------------------------------------
(* Properties *)

Steps  == {"find", "exchange", "build", "start", "run", "images", "destroy"}
Tables == {<<>>} \cup UNION {[names -> Addresses \cup {None}] : names \in SUBSET Names}
Images == [module : Modules, table : Tables]
Operations == [op : {"load", "call", "free"}, vm : Vms, module : Modules \cup {None},
               step : Steps, saw : 0 .. Limit, table : Tables, previous : Vms \cup {None}]

\* Every variable has its type; in particular no count passes its limit.
TypeOK ==
    /\ refs \in [Modules -> 0 .. Limit]
    /\ handles \subseteq Modules /\ freed \subseteq Modules
    /\ owner \in [Vms -> Threads \cup {None}]
    /\ bindings \in [Vms -> [Names -> Addresses \cup {None}]]
    /\ images \in [Vms -> Seq(Images)]
    /\ executing \subseteq Vms
    /\ stack \in [Threads -> Seq(Operations)]
    /\ active \in [Threads -> Vms \cup {None}]

\* Who has an image of the module, and who is making or destroying one.
Having(m) == {v \in Vms : Found(v, m)}
Holding(m) == {t \in Threads : /\ At(t, "build") \/ At(t, "destroy")
                               /\ Top(t).module = m}
Holders(m) == Cardinality(handles \cap {m}) + Cardinality(Having(m)) + Cardinality(Holding(m))

\* The count of a module is the number of its holders: the host's handle, the
\* VMs that have an image of it, and the images being made or destroyed right
\* now; it never passes its limit.
RefsExact == \A m \in Modules : refs[m] = Holders(m) /\ refs[m] <= Limit

\* Nothing names a module whose storage is gone: no image, no handle, and no
\* operation in progress, an image being destroyed included.
NoUseAfterFree ==
    \A m \in freed :
        /\ m \notin handles
        /\ \A v \in Vms : ~Found(v, m)
        /\ \A p \in Frames : FrameAt(p).module # m

\* A VM has one image of a module, and all its images call the foreign
\* functions that the VM's bindings name.
ImagesAgree ==
    \A v \in Vms : \A i \in DOMAIN images[v] :
        /\ \A j \in DOMAIN images[v] : images[v][i].module = images[v][j].module => i = j
        /\ \A n \in Imports[images[v][i].module] : images[v][i].table[n] = bindings[v][n]

\* However calls of several VMs nest and whichever way they end, a VM is marked
\* as executing exactly while one call of it is in progress, and the thread's
\* active context is the one of its innermost running call.
CallsNest ==
    /\ \A v \in Vms :
         LET Calls == {p \in Frames : FrameAt(p).op = "call" /\ FrameAt(p).vm = v}
         IN  /\ v \in executing <=> Calls # {}
             /\ \A p, q \in Calls : p = q
    /\ \A t \in Threads :
         LET Runs == {i \in DOMAIN stack[t] : stack[t][i].step = "run"}
         IN  active[t] = IF Runs = {} THEN None ELSE stack[t][Max(Runs)].vm
=============================================================================
