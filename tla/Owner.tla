-------------------------------- MODULE Owner --------------------------------
(***************************************************************************)
(* The counting and dead-queue core of the runtime: src/src/owner.c.       *)
(*                                                                         *)
(* Every place that can hold a counted reference is a location: a slot of  *)
(* a thread (Root), a field of an owner's payload (Field) and the C local  *)
(* that carries a reference through one call (Reg: `incoming` after its    *)
(* retain, then `old` until its release).  A thread executes one call at a *)
(* time, one action per atomic step, so the compare-and-exchange loop of a *)
(* shared retain interleaves with the retains and releases of the other    *)
(* threads.  Each thread owns one abc_owner_context (head, tail,           *)
(* draining).                                                              *)
(*                                                                         *)
(* The callers' side of the contract in owner.h is in the guards: a slot   *)
(* is written by one thread, a retained owner is protected by a holding or *)
(* a borrow (a lender's slot is not written while it is borrowed), local   *)
(* owners stay with their thread, and strong edges are acyclic.            *)
(***************************************************************************)
EXTENDS Naturals, FiniteSets

CONSTANTS
  Threads,   \* the threads; each has its own owner context
  Objects,   \* the addresses the allocator can return
  Statics,   \* the addresses where a statically allocated owner may be
  Roots,     \* the slots of a thread
  Fields,    \* the owning fields of a payload
  Limit,     \* UINT64_MAX: the largest reference count
  NULL

ASSUME OwnerConstants ==
  /\ Limit \in Nat \ {0}
  /\ Statics \subseteq Objects
  /\ NULL \notin Objects \cup Threads
  /\ IsFiniteSet(Threads) /\ IsFiniteSet(Objects)
  /\ IsFiniteSet(Roots) /\ IsFiniteSet(Fields)

Root(t, i)  == <<"root", t, i>>
Field(o, f) == <<"field", o, f>>
Reg(t)      == <<"reg", t, NULL>>

RootLocs  == {Root(t, i) : t \in Threads, i \in Roots}
FieldLocs == {Field(o, f) : o \in Objects, f \in Fields}
RegLocs   == {Reg(t) : t \in Threads}
Locs      == RootLocs \cup FieldLocs \cup RegLocs

ASSUME NullIsNoLocation == NULL \notin Locs

ObjectOrNull == Objects \cup {NULL}

\* The places of a holding map h that hold o.
HoldersIn(h, o) == {l \in Locs : h[l] = o}

VARIABLES
  kind,      \* owner->kind; "none" is memory the allocator has back
  count,     \* owner->count
  next,      \* owner->next_dead
  head,      \* context->head
  tail,      \* context->tail
  draining,  \* context->draining
  held,      \* what each location refers to
  pc,        \* the step a thread is about to take
  slot,      \* `slot` of the replace in progress
  owner,     \* the owner the step in progress works on
  dead,      \* `owner` of the drain loop: popped, not yet freed
  expected,  \* `count`, the value the compare-and-exchange expects
  lender,    \* the slot of another thread that protects `incoming`
  queuedBy,  \* history: the thread whose dead queue an owner is in
  access     \* history: how a thread's payload accesses are ordered

queue == <<next, head, tail, queuedBy>>
vars  == <<kind, count, next, head, tail, draining, held, pc, slot, owner,
           dead, expected, lender, queuedBy, access>>

Init ==
  /\ \E immortal \in SUBSET Statics :
       kind = [o \in Objects |-> IF o \in immortal THEN "immortal" ELSE "none"]
  /\ count = [o \in Objects |-> 0]
  /\ next = [o \in Objects |-> NULL]
  /\ head = [t \in Threads |-> NULL]
  /\ tail = [t \in Threads |-> NULL]
  /\ draining = [t \in Threads |-> FALSE]
  /\ held = [l \in Locs |-> NULL]
  /\ pc = [t \in Threads |-> "idle"]
  /\ slot = [t \in Threads |-> NULL]
  /\ owner = [t \in Threads |-> NULL]
  /\ dead = [t \in Threads |-> NULL]
  /\ expected = [t \in Threads |-> 0]
  /\ lender = [t \in Threads |-> NULL]
  /\ queuedBy = [o \in Objects |-> NULL]
  /\ access = [o \in Objects |-> [t \in Threads |-> "none"]]

-----------------------------------------------------------------------------
(* What a caller may pass: the preconditions of owner.h.                    *)

Counted(o) == kind[o] \in {"local", "shared"}
Immortals == {o \in Objects : kind[o] = "immortal"}

OwnRoots(t) == {Root(t, i) : i \in Roots}

\* A thread may write a payload field of an owner that only it can reach.
Exclusive(t, o) ==
  /\ \E l \in OwnRoots(t) : held[l] = o
  /\ \/ kind[o] = "local"
     \/ /\ kind[o] = "shared"
        /\ count[o] = 1
        /\ \A u \in Threads : owner[u] # o

Writable(t) ==
  {l \in OwnRoots(t) : \A u \in Threads : lender[u] # l}
    \cup {Field(o, f) : o \in {p \in Objects : Exclusive(t, p)}, f \in Fields}

\* The owners a thread has protected: through its own slots, or through a
\* field of an owner it holds.
Protected(t) ==
  LET direct == {held[l] : l \in OwnRoots(t)} \ {NULL}
  IN  direct \cup ({held[Field(o, f)] : o \in direct, f \in Fields} \ {NULL})

\* Shared owners another thread lends: its slot holds them and is not being
\* replaced.
Lent(t) ==
  {l \in RootLocs \ OwnRoots(t) :
     /\ held[l] # NULL /\ kind[held[l]] = "shared"
     /\ \A u \in Threads : slot[u] # l}

\* Owners released by this thread and not yet drained: their memory is still
\* there, and abc_owner_retain must refuse them.
Released(t) == {o \in Objects : queuedBy[o] = t}

\* The owners a chain of fields leads to from o.
Reaches(o, p) ==
  \A s \in SUBSET Objects :
    /\ o \in s
    /\ \A x \in s, f \in Fields : held[Field(x, f)] \in s \cup {NULL}
    => p \in s

\* Storing `o` in location l keeps local owners with their thread and strong
\* edges acyclic (docs/owners-references-ids.md).
Storable(l, o) ==
  (l \in FieldLocs /\ o # NULL) =>
     /\ kind[l[2]] = "shared" => kind[o] # "local"
     /\ ~Reaches(o, l[2])

-----------------------------------------------------------------------------
(* abc_owner_alloc                                                          *)
Alloc(t, l, o, k) ==
  /\ pc[t] = "idle"
  /\ l \in OwnRoots(t) /\ l \in Writable(t) /\ held[l] = NULL
  /\ kind[o] = "none"
  /\ k \in {"local", "shared"}
  /\ kind' = [kind EXCEPT ![o] = k]
  /\ count' = [count EXCEPT ![o] = 1]
  /\ next' = [next EXCEPT ![o] = NULL]
  /\ held' = [held EXCEPT ![l] = o]
  /\ UNCHANGED <<head, tail, draining, pc, slot, owner, dead, expected,
                 lender, queuedBy, access>>

(***************************************************************************)
(* abc_owner_replace: retain the incoming owner, exchange it with the      *)
(* slot's, release what the slot held.                                     *)
(***************************************************************************)
Replace(t, l, o, from) ==
  /\ pc[t] = "idle"
  /\ l \in Writable(t)
  /\ \/ o = NULL /\ from = NULL
     \/ o \in Protected(t) \cup Immortals \cup Released(t) /\ from = NULL
     \/ from \in Lent(t) /\ o = held[from]
  /\ Storable(l, o)
  /\ slot' = [slot EXCEPT ![t] = l]
  /\ owner' = [owner EXCEPT ![t] = o]
  /\ lender' = [lender EXCEPT ![t] = from]
  /\ pc' = [pc EXCEPT ![t] = IF o = NULL THEN "swap" ELSE "retain"]
  /\ UNCHANGED <<kind, count, queue, draining, held, dead, expected, access>>

RefusedOnlyLimit(c) == c = Limit  \* bug: a dead owner can be retained

\* abc_owner_retain refuses a count of zero (ABC_INVALID) and a count at its
\* limit (ABC_NOMEM).
Refused(c) == c = 0 \/ c = Limit

\* A refused retain: replace returns the status, slot and count unchanged.
EndReplace(t) ==
  /\ pc' = [pc EXCEPT ![t] = "idle"]
  /\ slot' = [slot EXCEPT ![t] = NULL]
  /\ owner' = [owner EXCEPT ![t] = NULL]
  /\ lender' = [lender EXCEPT ![t] = NULL]
  /\ expected' = [expected EXCEPT ![t] = 0]

\* The retain succeeded: the C local `incoming` is now a counted holding.
Retained(t) ==
  /\ held' = [held EXCEPT ![Reg(t)] = owner[t]]
  /\ pc' = [pc EXCEPT ![t] = "swap"]
  /\ lender' = [lender EXCEPT ![t] = NULL]
  /\ expected' = [expected EXCEPT ![t] = 0]
  /\ UNCHANGED <<slot, owner>>

RetainImmortal(t) ==
  /\ pc[t] = "retain" /\ kind[owner[t]] = "immortal"
  /\ Retained(t)
  /\ UNCHANGED <<kind, count, queue, draining, dead, access>>

RetainLocal(t) ==
  /\ pc[t] = "retain" /\ kind[owner[t]] = "local"
  /\ IF Refused(count[owner[t]])
       THEN EndReplace(t) /\ UNCHANGED <<count, held>>
       ELSE /\ count' = [count EXCEPT ![owner[t]] = @ + 1]
            /\ Retained(t)
  /\ UNCHANGED <<kind, queue, draining, dead, access>>

\* The relaxed load before the loop, and the checks on what it read.
RetainLoad(t) ==
  /\ pc[t] = "retain" /\ kind[owner[t]] = "shared"
  /\ IF Refused(count[owner[t]])
       THEN EndReplace(t)
       ELSE /\ expected' = [expected EXCEPT ![t] = count[owner[t]]]
            /\ pc' = [pc EXCEPT ![t] = "cas"]
            /\ UNCHANGED <<slot, owner, lender>>
  /\ UNCHANGED <<kind, count, queue, draining, held, dead, access>>

\* Bug: the new count is stored whatever the count is by now.
RetainStore(t) ==
  /\ pc[t] = "cas"
  /\ count' = [count EXCEPT ![owner[t]] = expected[t] + 1]
  /\ Retained(t)
  /\ UNCHANGED <<kind, queue, draining, dead, access>>

RetainCas(t) ==
  /\ pc[t] = "cas"
  /\ count[owner[t]] = expected[t]
  /\ count' = [count EXCEPT ![owner[t]] = expected[t] + 1]
  /\ Retained(t)
  /\ UNCHANGED <<kind, queue, draining, dead, access>>

\* The exchange fails (it is weak: also for no reason), stores the current
\* count in `count`, and the loop checks it again.
RetainCasFails(t) ==
  /\ pc[t] = "cas"
  /\ IF Refused(count[owner[t]])
       THEN EndReplace(t)
       ELSE /\ expected' = [expected EXCEPT ![t] = count[owner[t]]]
            /\ UNCHANGED <<pc, slot, owner, lender>>
  /\ UNCHANGED <<kind, count, queue, draining, held, dead, access>>

\* `old=*slot; *slot=incoming`.
Swap(t) ==
  /\ pc[t] = "swap"
  /\ held' = [held EXCEPT ![slot[t]] = owner[t], ![Reg(t)] = held[slot[t]]]
  /\ owner' = [owner EXCEPT ![t] = held[slot[t]]]
  /\ slot' = [slot EXCEPT ![t] = NULL]
  /\ pc' = [pc EXCEPT ![t] = "release"]
  /\ UNCHANGED <<kind, count, queue, draining, dead, expected, lender, access>>

-----------------------------------------------------------------------------
(* abc_owner_release, called by replace and by drop_fields.                 *)

\* Where release returns to: the drain loop's drop_fields, or the caller.
Caller(t) == IF draining[t] THEN "drop" ELSE "idle"

\* fetch_sub wraps around, as a 64-bit count does.
Decrement(c) == IF c = 0 THEN Limit ELSE c - 1

\* A release of these does nothing.
Uncounted(o) == IF o = NULL THEN TRUE ELSE kind[o] = "immortal"

ReleaseNothing(t) ==
  /\ pc[t] = "release"
  /\ Uncounted(owner[t])
  /\ held' = [held EXCEPT ![Reg(t)] = NULL]
  /\ owner' = [owner EXCEPT ![t] = NULL]
  /\ pc' = [pc EXCEPT ![t] = Caller(t)]
  /\ UNCHANGED <<kind, count, queue, draining, slot, dead, expected, lender,
                 access>>

\* Bug: the last releaser does not acquire what the others published.
OrderedNoFence(row, t, last) == [row EXCEPT ![t] = IF @ = "none" THEN @ ELSE "released"]

\* The release-ordered decrement publishes the thread's accesses to the
\* payload; the thread that takes the count from 1 acquires all published ones.
Ordered(row, t, last) ==
  LET released == [row EXCEPT ![t] = IF @ = "none" THEN @ ELSE "released"]
  IN  IF last
        THEN [u \in Threads |-> IF released[u] = "released" THEN "none"
                                                            ELSE released[u]]
        ELSE released

IsLastOffByOne(c) == c <= 2  \* bug: queues an owner that has a holder left
IsLast(c) == c = 1

Release(t) ==
  /\ pc[t] = "release"
  /\ ~Uncounted(owner[t])
  /\ LET o    == owner[t]
         last == IsLast(count[o])
     IN  /\ count' = [count EXCEPT ![o] = Decrement(@)]
         /\ access' = [access EXCEPT ![o] = Ordered(@, t, last)]
         /\ owner' = [owner EXCEPT ![t] = IF last THEN o ELSE NULL]
         /\ pc' = [pc EXCEPT ![t] = IF last THEN "enqueue" ELSE Caller(t)]
  /\ held' = [held EXCEPT ![Reg(t)] = NULL]
  /\ UNCHANGED <<kind, queue, draining, slot, dead, expected, lender>>

\* The releaser that took the count from 1 appends the owner to its context.
Enqueue(t) ==
  /\ pc[t] = "enqueue"
  /\ LET o == owner[t]
     IN  /\ next' = IF tail[t] = NULL
                      THEN [next EXCEPT ![o] = NULL]
                      ELSE [next EXCEPT ![o] = NULL, ![tail[t]] = o]
         /\ head' = IF tail[t] = NULL THEN [head EXCEPT ![t] = o] ELSE head
         /\ tail' = [tail EXCEPT ![t] = o]
         /\ queuedBy' = [queuedBy EXCEPT ![o] = t]
  /\ owner' = [owner EXCEPT ![t] = NULL]
  /\ pc' = [pc EXCEPT ![t] = Caller(t)]
  /\ UNCHANGED <<kind, count, draining, held, slot, dead, expected, lender,
                 access>>

-----------------------------------------------------------------------------
(* abc_owner_drain                                                          *)

DrainBegin(t) ==
  /\ pc[t] = "idle" /\ ~draining[t]
  /\ draining' = [draining EXCEPT ![t] = TRUE]
  /\ pc' = [pc EXCEPT ![t] = "pop"]
  /\ UNCHANGED <<kind, count, queue, held, slot, owner, dead, expected, lender,
                 access>>

HeadUnchanged(o) == o           \* bug: the popped owner stays in the list
HeadAfterPop(o) == next[o]

TailUnchanged(n, last) == last  \* bug: an emptied list keeps its tail
TailAfterPop(n, last) == IF n = NULL THEN NULL ELSE last

DrainPop(t) ==
  /\ pc[t] = "pop" /\ head[t] # NULL
  /\ dead' = [dead EXCEPT ![t] = head[t]]
  /\ head' = [head EXCEPT ![t] = HeadAfterPop(head[t])]
  /\ tail' = [tail EXCEPT ![t] = TailAfterPop(next[head[t]], @)]
  /\ queuedBy' = [queuedBy EXCEPT ![head[t]] = NULL]
  /\ pc' = [pc EXCEPT ![t] = "drop"]
  /\ UNCHANGED <<kind, count, next, draining, held, slot, owner, expected, lender,
                 access>>

\* drop_fields releases one outgoing holding.
DropField(t, f) ==
  /\ pc[t] = "drop"
  /\ LET l == Field(dead[t], f)
     IN  /\ held[l] # NULL
         /\ held' = [held EXCEPT ![l] = NULL, ![Reg(t)] = held[l]]
         /\ owner' = [owner EXCEPT ![t] = held[l]]
  /\ pc' = [pc EXCEPT ![t] = "release"]
  /\ UNCHANGED <<kind, count, queue, draining, slot, dead, expected, lender,
                 access>>

\* drop_fields has returned: the memory goes back to the allocator.
Free(t) ==
  /\ pc[t] = "drop"
  /\ \A f \in Fields : held[Field(dead[t], f)] = NULL
  /\ kind' = [kind EXCEPT ![dead[t]] = "none"]
  /\ access' = [access EXCEPT ![dead[t]] = [u \in Threads |-> "none"]]
  /\ dead' = [dead EXCEPT ![t] = NULL]
  /\ pc' = [pc EXCEPT ![t] = "pop"]
  /\ UNCHANGED <<count, queue, draining, held, slot, owner, expected, lender>>

DrainEnd(t) ==
  /\ pc[t] = "pop" /\ head[t] = NULL
  /\ draining' = [draining EXCEPT ![t] = FALSE]
  /\ pc' = [pc EXCEPT ![t] = "idle"]
  /\ UNCHANGED <<kind, count, queue, held, slot, owner, dead, expected, lender,
                 access>>

-----------------------------------------------------------------------------
\* A holder reads or writes the payload of a shared owner.
Access(t, o) ==
  /\ pc[t] = "idle" /\ kind[o] = "shared"
  /\ \E l \in OwnRoots(t) : held[l] = o
  /\ access' = [access EXCEPT ![o][t] = "accessed"]
  /\ UNCHANGED <<kind, count, queue, draining, held, pc, slot, owner, dead,
                 expected, lender>>

\* A call's own steps, which run to the end once the call has begun.
Step(t) ==
  \/ RetainImmortal(t) \/ RetainLocal(t) \/ RetainLoad(t)
  \/ RetainCas(t) \/ RetainCasFails(t) \/ Swap(t)
  \/ ReleaseNothing(t) \/ Release(t) \/ Enqueue(t)
  \/ DrainPop(t) \/ (\E f \in Fields : DropField(t, f)) \/ Free(t) \/ DrainEnd(t)

ThreadNext(t) ==
  \/ \E l \in RootLocs, o \in Objects, k \in {"local", "shared"} :
       Alloc(t, l, o, k)
  \/ \E l \in RootLocs \cup FieldLocs, o \in ObjectOrNull,
        from \in RootLocs \cup {NULL} : Replace(t, l, o, from)
  \/ DrainBegin(t)
  \/ \E o \in Objects : Access(t, o)
  \/ Step(t)

Next == \E t \in Threads : ThreadNext(t)

Spec == Init /\ [][Next]_vars

\* A thread inside a call is scheduled until the call returns.
FairSpec == Spec /\ \A t \in Threads : WF_vars(Step(t))

-----------------------------------------------------------------------------
(* Properties.                                                              *)

PcValues == {"idle", "retain", "cas", "swap", "release", "enqueue", "pop", "drop"}

\* Every variable of owner.c's state has its type.
TypeOK ==
  /\ kind \in [Objects -> {"none", "local", "shared", "immortal"}]
  /\ count \in [Objects -> 0 .. Limit]
  /\ next \in [Objects -> ObjectOrNull]
  /\ head \in [Threads -> ObjectOrNull]
  /\ tail \in [Threads -> ObjectOrNull]
  /\ draining \in [Threads -> BOOLEAN]
  /\ held \in [Locs -> ObjectOrNull]
  /\ pc \in [Threads -> PcValues]
  /\ slot \in [Threads -> RootLocs \cup FieldLocs \cup {NULL}]
  /\ owner \in [Threads -> ObjectOrNull]
  /\ dead \in [Threads -> ObjectOrNull]
  /\ expected \in [Threads -> 0 .. Limit]
  /\ lender \in [Threads -> RootLocs \cup {NULL}]
  /\ queuedBy \in [Objects -> Threads \cup {NULL}]
  /\ access \in [Objects -> [Threads -> {"none", "accessed", "released"}]]

Holders(o) == HoldersIn(held, o)

\* The count of a local or shared owner is the number of places that hold it,
\* in every interleaving of retain's exchange loop with the releases of other
\* threads, and on every refusal path.
HoldersCounted ==
  \A o \in Objects : Counted(o) => count[o] = Cardinality(Holders(o))

\* Nothing refers to freed memory or to an owner already given to a dead
\* queue: whatever a slot, a field or a call's local holds is alive.
NoDangling ==
  \A l \in Locs : held[l] # NULL =>
    kind[held[l]] = "immortal" \/ (Counted(held[l]) /\ count[held[l]] > 0)

Dying(t, o) == pc[t] = "enqueue" /\ owner[t] = o

Custody(o) ==
  {<<"releaser", t>> : t \in {u \in Threads : Dying(u, o)}}
    \cup {<<"queue", t>> : t \in {u \in Threads : queuedBy[o] = u}}
    \cup {<<"drain", t>> : t \in {u \in Threads : dead[u] = o}}

\* An owner whose count reached zero is in exactly one place on its way to
\* free(): the releaser about to append it, one context's queue, or the drain
\* loop that popped it.  None is lost, none is queued or freed twice.
DeadOnce ==
  \A o \in Objects :
    IF Counted(o) /\ count[o] = 0 THEN \E c \in Custody(o) : Custody(o) = {c}
                                   ELSE Custody(o) = {}

\* The owners in the list that starts at head, followed through next_dead.
Listed(t) ==
  LET reached[n \in 0 .. Cardinality(Objects)] ==
        IF n = 0 THEN {head[t]} \ {NULL}
                 ELSE reached[n-1] \cup ({next[o] : o \in reached[n-1]} \ {NULL})
  IN  reached[Cardinality(Objects)]

\* A context's linked list holds exactly the owners released into it and ends
\* at tail, so the next append extends it.
QueueWellFormed ==
  \A t \in Threads :
    /\ Listed(t) = Released(t)
    /\ head[t] = NULL <=> tail[t] = NULL
    /\ tail[t] # NULL => tail[t] \in Listed(t) /\ next[tail[t]] = NULL

\* drop_fields and free run on a payload whose every access by another thread
\* is ordered before them by the release decrements and the acquire fence.
DropOrdered ==
  \A t \in Threads : pc[t] = "drop" =>
    \A u \in Threads \ {t} : access[dead[t]][u] = "none"

\* A count that reached zero never rises again before the memory is reused.
NoResurrection ==
  [][\A o \in Objects : Counted(o) /\ count[o] = 0 /\ kind'[o] # "none"
       => count'[o] = 0]_vars

\* Every drain comes to its end: drop_fields only appends, and a heap is finite.
DrainEnds == \A t \in Threads : draining[t] ~> ~draining[t]

-----------------------------------------------------------------------------
(* The inductive invariant behind the theorems of OwnerProofs.              *)

\* What the local variables of a call hold at each of its steps.
CallInv ==
  \A t \in Threads :
    /\ pc[t] \in {"retain", "cas", "enqueue"} => owner[t] # NULL
    /\ pc[t] \in {"retain", "cas", "swap"} => slot[t] # NULL
    /\ pc[t] = "cas" => ~Refused(expected[t])
    /\ held[Reg(t)] = IF pc[t] \in {"swap", "release"} THEN owner[t] ELSE NULL
    /\ IF draining[t] THEN pc[t] \in {"pop", "drop", "release", "enqueue"}
                      ELSE pc[t] \notin {"pop", "drop"}
    /\ dead[t] # NULL <=> draining[t] /\ pc[t] # "pop"

\* Counts agree with holders for unallocated memory too: it has neither.
CountInv ==
  \A o \in Objects :
    /\ kind[o] = "immortal" => o \in Statics
    /\ kind[o] = "none" => count[o] = 0
    /\ kind[o] # "immortal" => count[o] = Cardinality(Holders(o))

\* DeadOnce, custody by custody.
CustodyInv ==
  \A o \in Objects :
    /\ Counted(o) /\ count[o] = 0 <=>
         \/ queuedBy[o] # NULL
         \/ \E t \in Threads : Dying(t, o) \/ dead[t] = o
    /\ \A t, u \in Threads :
         /\ Dying(t, o) => dead[u] # o /\ queuedBy[o] = NULL
         /\ dead[t] = o => queuedBy[o] = NULL
         /\ (Dying(t, o) /\ Dying(u, o)) \/ (dead[t] = o /\ dead[u] = o) => t = u

\* The next_dead links join owners of one queue, in a list without sharing.
ListInv ==
  /\ \A t \in Threads :
       /\ head[t] # NULL => queuedBy[head[t]] = t
       /\ tail[t] # NULL => queuedBy[tail[t]] = t /\ next[tail[t]] = NULL
       /\ head[t] = NULL <=> tail[t] = NULL
  /\ \A o \in Objects : queuedBy[o] # NULL /\ next[o] # NULL =>
       /\ queuedBy[next[o]] = queuedBy[o]
       /\ next[o] # head[queuedBy[o]]
       /\ \A p \in Objects : queuedBy[p] # NULL /\ next[p] = next[o] => p = o

OwnerInv == TypeOK /\ CallInv /\ CountInv /\ CustodyInv /\ ListInv
=============================================================================
