-------------------------------- MODULE Lifetime --------------------------------
(***************************************************************************)
(* How a call keeps and gives back the owners it holds: the runtime        *)
(* bindings of src/src/lifetime.c that compiled code calls, and the end of *)
(* abc_vm_call in src/src/vm.c.                                            *)
(*                                                                         *)
(* Activations enter a cleanup frame and leave it in reverse order; the    *)
(* frame's drop function releases what the activation's slots hold.  A     *)
(* release that finds the last holder puts the owner on the context's dead *)
(* queue, which every binding drains before it returns.  A call that fails *)
(* half-way leaves its frames behind; abc_source_unwind drops them.        *)
(*                                                                         *)
(* Drop functions are compiled code.  abc_source_lifecycle_check lets them *)
(* do nothing but call source_drop, which they do for every slot of their  *)
(* container, in an order of their own.                                    *)
(*                                                                         *)
(* Owners are local to the context (ABC_OWNER_LOCAL), so one call is one   *)
(* sequential process; Owner models owners shared between threads.         *)
(***************************************************************************)
EXTENDS Naturals, Sequences, FiniteSets, SequencesExt

CONSTANTS
  Owners,    \* allocations
  Frames,    \* cleanup frames of activations
  Image,     \* the container of the module image's slots, which outlive calls
  Slots,     \* places that hold an owner
  In,        \* per slot, the container it is part of
  MaxCount,  \* ABC_OWNER_MAX, the count at which a retain is refused
  None

Containers == Owners \cup Frames \cup {Image}

ASSUME LifetimeConstants ==
  /\ None \notin Owners
  /\ Owners \cap Frames = {} /\ Image \notin Owners \cup Frames
  /\ IsFiniteSet(Slots) /\ In \in [Slots -> Containers]
  /\ MaxCount \in Nat \ {0}

VARIABLES
  slot,    \* what every slot holds
  count,   \* owner->count.local
  dead,    \* run->owners: what is dead and not yet drained, first come first
  frames,  \* run->cleanup, the innermost frame last
  todo,    \* the slots that the drop function at work has yet to drop
  phase,   \* "idle", "running", "draining" in a binding, "unwinding", "closing"
  status   \* what it will return

heap == <<slot, count, dead>>
lifetimeVars == <<heap, frames, todo, phase, status>>

SlotsOf(c) == {s \in Slots : In[s] = c}

Live(o) == count[o] > 0
Dead(o) == \E i \in DOMAIN dead : dead[i] = o

\* Containers that the program has storage for.
Usable(c) == c = Image \/ c \in Range(frames) \/ (c \in Owners /\ Live(c))

-----------------------------------------------------------------------------
(* Owners, as in Owner but one step each.                                   *)

\* The slots are `held` now; abc_owner_release of what one of them held before,
\* the counts being c.
Release(old, held, c) ==
  /\ slot' = held
  /\ count' = IF old = None THEN c ELSE [c EXCEPT ![old] = @ - 1]
  /\ dead' = IF old # None /\ c[old] = 1 THEN Append(dead, old) ELSE dead

\* Bug: the slot keeps the pointer that was released.
DropKeeping(s) == Release(slot[s], slot, count)

\* source_drop: null the slot, then release; never a drain.
Drop(s) == Release(slot[s], [slot EXCEPT ![s] = None], count)

\* abc_owner_retain at the limit.
Refused(o) == o # None /\ count[o] = MaxCount

Retained(c, o) == IF o = None THEN c ELSE [c EXCEPT ![o] = @ + 1]

\* Bug: abc_owner_replace lets go of the old owner before it retains.
HeldReleaseFirst(s, o) ==
  LET old  == slot[s]
      less == IF old = None THEN count ELSE [count EXCEPT ![old] = @ - 1]
  IN  /\ slot' = [slot EXCEPT ![s] = o]
      /\ count' = Retained(less, o)
      /\ dead' = IF old # None /\ count[old] = 1 THEN Append(dead, old) ELSE dead

\* abc_owner_replace.
Held(s, o) == Release(slot[s], [slot EXCEPT ![s] = o], Retained(count, o))

-----------------------------------------------------------------------------

LifetimeInit ==
  /\ slot = [s \in Slots |-> None]
  /\ count = [o \in Owners |-> 0]
  /\ dead = <<>>
  /\ frames = <<>>
  /\ todo = {}
  /\ phase = "idle"
  /\ status = "ok"

\* abc_vm_call starts the program.
Call ==
  /\ phase = "idle"
  /\ phase' = "running" /\ status' = "ok"
  /\ UNCHANGED <<heap, frames, todo>>

\* A binding returns to the program, through the drain if there is anything dead.
Return ==
  /\ phase' = IF dead' # <<>> THEN "draining" ELSE "running"
  /\ UNCHANGED <<frames, todo, status>>

\* Bug: frames that a failure left behind count only after a success.
EndFailedEarly(st) ==
  /\ status' = IF st = "ok" /\ frames # <<>> THEN "invalid" ELSE st
  /\ phase' = IF st = "ok" /\ frames # <<>> THEN "unwinding" ELSE "idle"
  /\ UNCHANGED <<heap, frames, todo>>

\* The program ends, or a binding's failure ends it.
End(st) ==
  /\ status' = IF st = "ok" /\ frames # <<>> THEN "invalid" ELSE st
  /\ phase' = IF frames # <<>> \/ dead # <<>> THEN "unwinding" ELSE "idle"
  /\ UNCHANGED <<heap, frames, todo>>

\* The new owner holds nothing yet.
Alloc(s, o) ==
  /\ phase = "running" /\ Usable(In[s])
  /\ ~Live(o) /\ ~Dead(o)
  /\ Release(slot[s],
             [t \in Slots |-> IF t = s THEN o ELSE IF In[t] = o THEN None ELSE slot[t]],
             [count EXCEPT ![o] = 1])
  /\ Return

\* An extent too small for the header, or no memory.
AllocFails == phase = "running" /\ \E st \in {"invalid", "nomem"} : End(st)

\* source_hold: the owner is one the program can read from a slot, or null.
Hold(s, o) ==
  /\ phase = "running" /\ Usable(In[s])
  /\ o # None => Live(o)
  /\ IF Refused(o) THEN End("nomem") ELSE Held(s, o) /\ Return

\* A drop function starts on container c.
Dropping(c) == todo = {} /\ todo' = SlotsOf(c)

\* source_clear: the drop function of c, and then the drain.
Clear(c) ==
  /\ phase = "running" /\ Usable(c)
  /\ Dropping(c) /\ phase' = "draining"
  /\ UNCHANGED <<heap, frames, status>>

\* The frame is the record of an activation that has just begun.
Enter(f) ==
  /\ phase = "running" /\ f \notin Range(frames)
  /\ frames' = Append(frames, f)
  /\ UNCHANGED <<heap, todo, phase, status>>

Leave(f) ==
  /\ phase = "running"
  /\ IF frames = <<>> \/ Last(frames) # f
       THEN End("invalid")
       ELSE /\ frames' = Front(frames)
            /\ Dropping(f) /\ phase' = "draining"
            /\ UNCHANGED <<heap, status>>

\* The program returns, or it aborts for a reason of its own.
Finish == phase = "running" /\ \E st \in {"ok", "abort"} : End(st)

\* The drop function at work calls source_drop.
DropSlot ==
  /\ \E s \in todo : Drop(s) /\ todo' = todo \ {s}
  /\ UNCHANGED <<frames, phase, status>>

\* abc_owner_drain: take an owner off the queue and drop its fields, which may
\* queue others; then free it.
Drain ==
  /\ phase \in {"draining", "closing"}
  /\ IF dead # <<>>
       THEN /\ Dropping(Head(dead))
            /\ dead' = Tail(dead) /\ UNCHANGED <<slot, count, phase>>
       ELSE /\ todo = {} /\ phase' = IF phase = "draining" THEN "running" ELSE "idle"
            /\ UNCHANGED <<heap, todo>>
  /\ UNCHANGED <<frames, status>>

\* Bug: the frame stays at the head of the list.
RestStuck == frames

Rest == Front(frames)

\* abc_source_unwind: every frame left, the innermost first, then the drain.
Unwind ==
  /\ phase = "unwinding"
  /\ IF frames # <<>>
       THEN Dropping(Last(frames)) /\ frames' = Rest /\ UNCHANGED phase
       ELSE todo = {} /\ phase' = "closing" /\ UNCHANGED <<frames, todo>>
  /\ UNCHANGED <<heap, status>>

LifetimeNext ==
  \/ Call \/ AllocFails \/ Finish \/ DropSlot \/ Drain \/ Unwind
  \/ \E s \in Slots : \E o \in Owners : Alloc(s, o)
  \/ \E s \in Slots : \E o \in Owners \cup {None} : Hold(s, o)
  \/ \E c \in Containers : Clear(c)
  \/ \E f \in Frames : Enter(f) \/ Leave(f)

LifetimeSpec == LifetimeInit /\ [][LifetimeNext]_lifetimeVars

\* The loops of the library and of the drop functions keep running; what the
\* program does next is its own choice.
FairSpec == LifetimeSpec /\ WF_lifetimeVars(DropSlot) /\ WF_lifetimeVars(Drain) /\ WF_lifetimeVars(Unwind)

-----------------------------------------------------------------------------
(* Properties.                                                              *)

\* An owner's count is the number of slots that hold it, through every failure
\* and unwinding: nothing leaks and nothing is freed while held.
HoldingsExact ==
  \A o \in Owners : count[o] = Cardinality({s \in Slots : slot[s] = o})

\* An owner whose memory is given back holds nothing and nobody holds it: each
\* dead owner is queued once, with a count of zero, and a slot that holds an
\* owner is an image's, an entered frame's, one of an owner that is live or
\* still to be drained, or about to be dropped.
NothingStranded ==
  /\ IsInjective(dead) /\ \A o \in Range(dead) : count[o] = 0
  /\ \A s \in Slots : slot[s] # None =>
       \/ In[s] = Image \/ In[s] \in Range(frames) \/ s \in todo
       \/ In[s] \in Owners /\ (Live(In[s]) \/ Dead(In[s]))

\* Whatever ended the call, when it returns no frame is left, and between two
\* bindings no owner is dead and not yet drained.
CleanBoundaries ==
  /\ phase = "idle" => frames = <<>>
  /\ phase \in {"idle", "running"} => dead = <<>> /\ todo = {}

\* Every drain and every unwinding comes to its end.
CleanupEnds == (phase \in {"draining", "unwinding", "closing"}) ~> (phase \in {"idle", "running"})
=============================================================================
