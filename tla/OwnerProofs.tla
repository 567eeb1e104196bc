----------------------------- MODULE OwnerProofs -----------------------------
(***************************************************************************)
(* Theorems about Owner, for any finite number of threads, owners, slots   *)
(* and fields and any count limit.                                         *)
(***************************************************************************)
EXTENDS Owner, FiniteSetTheorems, FunctionTheorems, WellFoundedInduction, TLAPS

(* The locations a finite program has are finitely many.                    *)
LEMMA LocsFinite == IsFiniteSet(Locs)
<1>1. IsFiniteSet(RootLocs)
  <2> DEFINE f == [p \in Threads \X Roots |-> Root(p[1], p[2])]
  <2>1. IsFiniteSet(Threads \X Roots)
    BY FS_Product, OwnerConstants
  <2>2. ASSUME NEW l \in RootLocs PROVE \E p \in Threads \X Roots : f[p] = l
    <3>1. PICK a \in Threads, b \in Roots : l = Root(a, b)
      BY DEF RootLocs
    <3>2. <<a, b>> \in Threads \X Roots /\ f[<<a, b>>] = l
      BY <3>1
    <3> QED
      BY <3>2
  <2>3. f \in [Threads \X Roots -> RootLocs]
    BY DEF RootLocs
  <2>4. f \in Surjection(Threads \X Roots, RootLocs)
    BY <2>2, <2>3 DEF Surjection
  <2> QED
    BY <2>1, <2>4, FS_Surjection
<1>2. IsFiniteSet(FieldLocs)
  <2> DEFINE f == [p \in Objects \X Fields |-> Field(p[1], p[2])]
  <2>1. IsFiniteSet(Objects \X Fields)
    BY FS_Product, OwnerConstants
  <2>2. ASSUME NEW l \in FieldLocs PROVE \E p \in Objects \X Fields : f[p] = l
    <3>1. PICK a \in Objects, b \in Fields : l = Field(a, b)
      BY DEF FieldLocs
    <3>2. <<a, b>> \in Objects \X Fields /\ f[<<a, b>>] = l
      BY <3>1
    <3> QED
      BY <3>2
  <2>3. f \in [Objects \X Fields -> FieldLocs]
    BY DEF FieldLocs
  <2>4. f \in Surjection(Objects \X Fields, FieldLocs)
    BY <2>2, <2>3 DEF Surjection
  <2> QED
    BY <2>1, <2>4, FS_Surjection
<1>3. IsFiniteSet(RegLocs)
  <2> DEFINE f == [t \in Threads |-> Reg(t)]
  <2>1. f \in Surjection(Threads, RegLocs)
    BY DEF Surjection, RegLocs
  <2> QED
    BY <2>1, FS_Surjection, OwnerConstants
<1> QED
  BY <1>1, <1>2, <1>3, FS_Union DEF Locs

(* The number of holders of an owner is a natural number.                   *)
LEMMA HoldersFinite ==
  ASSUME NEW h, NEW o
  PROVE  /\ IsFiniteSet(HoldersIn(h, o))
         /\ Cardinality(HoldersIn(h, o)) \in Nat
         /\ Cardinality(HoldersIn(h, o)) = 0 <=> HoldersIn(h, o) = {}
<1>1. HoldersIn(h, o) \in SUBSET Locs
  BY DEF HoldersIn
<1>2. IsFiniteSet(HoldersIn(h, o))
  BY <1>1, LocsFinite, FS_Subset
<1> QED
  BY <1>2, FS_CardinalityType, FS_EmptySet

(* What a new holder, and a holder that passes its reference on, do to the  *)
(* number of holders.                                                       *)
LEMMA HoldersGain ==
  ASSUME NEW h, NEW g, NEW o, NEW l, l \notin HoldersIn(h, o),
         HoldersIn(g, o) = HoldersIn(h, o) \cup {l}
  PROVE  Cardinality(HoldersIn(g, o)) = Cardinality(HoldersIn(h, o)) + 1
BY HoldersFinite, FS_AddElement

(* A reference that moves between locations leaves the number of holders.   *)
LEMMA HoldersMove ==
  ASSUME NEW h, NEW g, NEW o, NEW l, NEW m,
         l \in HoldersIn(h, o), m \notin HoldersIn(h, o),
         HoldersIn(g, o) = (HoldersIn(h, o) \ {l}) \cup {m}
  PROVE  Cardinality(HoldersIn(g, o)) = Cardinality(HoldersIn(h, o))
<1> DEFINE R == HoldersIn(h, o) \ {l}
<1>1. /\ IsFiniteSet(HoldersIn(h, o)) /\ Cardinality(HoldersIn(h, o)) \in Nat
      /\ IsFiniteSet(R) /\ Cardinality(R) = Cardinality(HoldersIn(h, o)) - 1
  BY HoldersFinite, FS_RemoveElement
<1>2. Cardinality(R \cup {m}) = Cardinality(R) + 1
  BY <1>1, FS_AddElement
<1> QED
  BY <1>1, <1>2

(* An empty location takes a reference to o, or one to o is dropped: only   *)
(* the number of o's holders changes, by one.                               *)
LEMMA GainCounts ==
  ASSUME held \in [Locs -> ObjectOrNull], NEW l \in Locs, held[l] = NULL,
         NEW o \in Objects, held' = [held EXCEPT ![l] = o], NEW p \in Objects
  PROVE  Cardinality(Holders(p)') = IF p = o THEN Cardinality(Holders(p)) + 1
                                             ELSE Cardinality(Holders(p))
<1>1. CASE p = o
  <2>1. l \notin HoldersIn(held, p) /\ HoldersIn(held', p) = HoldersIn(held, p) \cup {l}
    BY <1>1, OwnerConstants DEF HoldersIn
  <2> QED
    BY <1>1, <2>1, HoldersGain DEF Holders
<1>2. CASE p # o
  BY <1>2, OwnerConstants DEF Holders, HoldersIn
<1> QED
  BY <1>1, <1>2

(* A location that lets go of o takes one from o's holders, of no other's.  *)
LEMMA LoseCounts ==
  ASSUME held \in [Locs -> ObjectOrNull], NEW l \in Locs,
         held' = [held EXCEPT ![l] = NULL], NEW p \in Objects
  PROVE  Cardinality(Holders(p)) = IF p = held[l] THEN Cardinality(Holders(p)') + 1
                                                  ELSE Cardinality(Holders(p)')
<1>1. CASE p = held[l]
  <2>1. l \notin HoldersIn(held', p) /\ HoldersIn(held, p) = HoldersIn(held', p) \cup {l}
    BY <1>1, OwnerConstants DEF HoldersIn
  <2> QED
    BY <1>1, <2>1, HoldersGain DEF Holders
<1>2. CASE p # held[l]
  BY <1>2, OwnerConstants DEF Holders, HoldersIn
<1> QED
  BY <1>1, <1>2

(* Two locations exchange what they hold: every owner has as many holders.  *)
LEMMA ExchangeCounts ==
  ASSUME held \in [Locs -> ObjectOrNull], NEW l \in Locs, NEW m \in Locs, l # m,
         held' = [held EXCEPT ![l] = held[m], ![m] = held[l]], NEW p \in Objects
  PROVE  Cardinality(Holders(p)') = Cardinality(Holders(p))
<1>1. CASE held[l] = p /\ held[m] # p
  <2>1. /\ l \in HoldersIn(held, p) /\ m \notin HoldersIn(held, p)
        /\ HoldersIn(held', p) = (HoldersIn(held, p) \ {l}) \cup {m}
    BY <1>1 DEF HoldersIn
  <2> QED
    BY <2>1, HoldersMove DEF Holders
<1>2. CASE held[m] = p /\ held[l] # p
  <2>1. /\ m \in HoldersIn(held, p) /\ l \notin HoldersIn(held, p)
        /\ HoldersIn(held', p) = (HoldersIn(held, p) \ {m}) \cup {l}
    BY <1>2 DEF HoldersIn
  <2> QED
    BY <2>1, HoldersMove DEF Holders
<1>3. CASE held[l] = p <=> held[m] = p
  <2>1. HoldersIn(held', p) = HoldersIn(held, p)
    BY <1>3 DEF HoldersIn
  <2> QED
    BY <2>1 DEF Holders
<1> QED
  BY <1>1, <1>2, <1>3

(* Locations of different sorts, or of different threads, are different.    *)
LEMMA LocFacts ==
  /\ RootLocs \subseteq Locs /\ FieldLocs \subseteq Locs
  /\ \A t \in Threads : Reg(t) \in Locs /\ Reg(t) \notin RootLocs \cup FieldLocs
  /\ \A t, u \in Threads : Reg(t) = Reg(u) => t = u
  /\ \A t \in Threads : OwnRoots(t) \subseteq RootLocs
  /\ \A t \in Threads : Writable(t) \subseteq RootLocs \cup FieldLocs
  /\ \A o \in Objects, f \in Fields : Field(o, f) \in FieldLocs
  /\ NULL \notin RootLocs \cup FieldLocs
<1>1. RootLocs \subseteq Locs /\ FieldLocs \subseteq Locs /\ RegLocs \subseteq Locs
  BY DEF Locs
<1>2. \A t \in Threads : Reg(t) \in RegLocs
  BY DEF RegLocs
<1>3. ASSUME NEW t \in Threads PROVE Reg(t) \notin RootLocs \cup FieldLocs
  BY DEF RootLocs, FieldLocs, Root, Field, Reg
<1>4. \A t, u \in Threads : Reg(t) = Reg(u) => t = u
  BY DEF Reg
<1>5. \A t \in Threads : OwnRoots(t) \subseteq RootLocs
  BY DEF OwnRoots, RootLocs
<1>6. \A o \in Objects, f \in Fields : Field(o, f) \in FieldLocs
  BY DEF FieldLocs
<1>7. \A t \in Threads : Writable(t) \subseteq RootLocs \cup FieldLocs
  BY <1>5, <1>6 DEF Writable
<1> QED
  BY <1>1, <1>2, <1>3, <1>4, <1>5, <1>6, <1>7, NullIsNoLocation

-----------------------------------------------------------------------------
(* Counts and their limit.                                                  *)
LEMMA CountFacts ==
  /\ Limit \in Nat /\ 0 \in 0 .. Limit /\ 1 \in 0 .. Limit
  /\ \A c \in 0 .. Limit : Decrement(c) \in 0 .. Limit
  /\ \A c \in 0 .. Limit : ~Refused(c) => c + 1 \in 0 .. Limit
BY OwnerConstants DEF Refused, Decrement

(* What the two ways out of a retain do to the types of a call's locals.    *)
LEMMA EndReplaceType ==
  ASSUME TypeOK, NEW t \in Threads, EndReplace(t)
  PROVE  /\ pc' \in [Threads -> PcValues]
         /\ slot' \in [Threads -> RootLocs \cup FieldLocs \cup {NULL}]
         /\ owner' \in [Threads -> ObjectOrNull]
         /\ lender' \in [Threads -> RootLocs \cup {NULL}]
         /\ expected' \in [Threads -> 0 .. Limit]
<1>1. pc' \in [Threads -> PcValues]
  BY DEF EndReplace, TypeOK, PcValues
<1>2. expected' \in [Threads -> 0 .. Limit]
  BY CountFacts DEF EndReplace, TypeOK
<1> QED
  BY <1>1, <1>2 DEF EndReplace, TypeOK, ObjectOrNull

(* A retain that succeeds leaves its thread's locals in their types.        *)
LEMMA RetainedType ==
  ASSUME TypeOK, NEW t \in Threads, Retained(t)
  PROVE  /\ held' \in [Locs -> ObjectOrNull]
         /\ pc' \in [Threads -> PcValues]
         /\ slot' \in [Threads -> RootLocs \cup FieldLocs \cup {NULL}]
         /\ owner' \in [Threads -> ObjectOrNull]
         /\ lender' \in [Threads -> RootLocs \cup {NULL}]
         /\ expected' \in [Threads -> 0 .. Limit]
<1>1. pc' \in [Threads -> PcValues]
  BY DEF Retained, TypeOK, PcValues
<1>2. expected' \in [Threads -> 0 .. Limit]
  BY CountFacts DEF Retained, TypeOK
<1> QED
  BY <1>1, <1>2 DEF Retained, TypeOK, ObjectOrNull

(* A step preserves the type invariant.  The inductive invariant is needed  *)
(* where a local variable of a call is used as an index.                    *)
LEMMA TypeStep ==
  ASSUME OwnerInv, NEW t \in Threads, ThreadNext(t)
  PROVE  TypeOK'
<1> USE CountFacts DEF OwnerInv, TypeOK, PcValues, ObjectOrNull, queue
<1>1. ASSUME NEW l \in RootLocs, NEW o \in Objects, NEW k \in {"local", "shared"},
             Alloc(t, l, o, k)
      PROVE  TypeOK'
  <2>1. kind' \in [Objects -> {"none", "local", "shared", "immortal"}]
    BY <1>1 DEF Alloc
  <2>2. count' \in [Objects -> 0 .. Limit]
    BY <1>1 DEF Alloc
  <2>3. held' \in [Locs -> Objects \cup {NULL}]
    BY <1>1 DEF Alloc
  <2>4. next' \in [Objects -> Objects \cup {NULL}]
    BY <1>1 DEF Alloc
  <2> QED
    BY <1>1, <2>1, <2>2, <2>3, <2>4 DEF Alloc
<1>2. ASSUME NEW l \in RootLocs \cup FieldLocs, NEW o \in ObjectOrNull,
             NEW from \in RootLocs \cup {NULL}, Replace(t, l, o, from)
      PROVE  TypeOK'
  BY <1>2 DEF Replace
<1>3. CASE DrainBegin(t)
  BY <1>3 DEF DrainBegin
<1>4. ASSUME NEW o \in Objects, Access(t, o) PROVE TypeOK'
  BY <1>4 DEF Access
<1>5. CASE RetainImmortal(t)
  BY <1>5, RetainedType DEF RetainImmortal
<1>6. CASE RetainLocal(t)
  <2>1. owner[t] \in Objects
    BY <1>6 DEF RetainLocal, CallInv
  <2>2. CASE Refused(count[owner[t]])
    BY <1>6, <2>2, EndReplaceType DEF RetainLocal
  <2>3. CASE ~Refused(count[owner[t]])
    <3>1. count[owner[t]] + 1 \in 0 .. Limit
      BY <2>1, <2>3
    <3>2. count' \in [Objects -> 0 .. Limit]
      BY <1>6, <2>3, <3>1 DEF RetainLocal
    <3> QED
      BY <1>6, <2>3, <3>2, RetainedType DEF RetainLocal
  <2> QED
    BY <2>2, <2>3
<1>7. CASE RetainLoad(t)
  <2>1. owner[t] \in Objects
    BY <1>7 DEF RetainLoad, CallInv
  <2>2. CASE Refused(count[owner[t]])
    BY <1>7, <2>2, EndReplaceType DEF RetainLoad
  <2>3. CASE ~Refused(count[owner[t]])
    BY <1>7, <2>1, <2>3 DEF RetainLoad
  <2> QED
    BY <2>2, <2>3
<1>8. CASE RetainCas(t)
  <2>1. owner[t] \in Objects /\ expected[t] + 1 \in 0 .. Limit
    BY <1>8 DEF RetainCas, CallInv
  <2>2. count' \in [Objects -> 0 .. Limit]
    BY <1>8, <2>1 DEF RetainCas
  <2> QED
    BY <1>8, <2>2, RetainedType DEF RetainCas
<1>9. CASE RetainCasFails(t)
  <2>1. owner[t] \in Objects
    BY <1>9 DEF RetainCasFails, CallInv
  <2>2. CASE Refused(count[owner[t]])
    BY <1>9, <2>2, EndReplaceType DEF RetainCasFails
  <2>3. CASE ~Refused(count[owner[t]])
    BY <1>9, <2>1, <2>3 DEF RetainCasFails
  <2> QED
    BY <2>2, <2>3
<1>10. CASE Swap(t)
  BY <1>10, LocFacts DEF Swap, CallInv
<1>11. CASE ReleaseNothing(t)
  BY <1>11 DEF ReleaseNothing, Caller
<1>12. CASE Release(t)
  <2>1. owner[t] \in Objects /\ IsLast(count[owner[t]]) \in BOOLEAN
    BY <1>12 DEF Release, Uncounted, IsLast
  <2>2. ASSUME NEW row \in [Threads -> {"none", "accessed", "released"}],
               NEW last \in BOOLEAN
        PROVE  Ordered(row, t, last) \in [Threads -> {"none", "accessed", "released"}]
    BY DEF Ordered
  <2> QED
    BY <1>12, <2>1, <2>2 DEF Release, Caller
<1>13. CASE Enqueue(t)
  BY <1>13 DEF Enqueue, Caller, CallInv
<1>14. CASE DrainPop(t)
  BY <1>14 DEF DrainPop, HeadAfterPop, TailAfterPop
<1>15. ASSUME NEW f \in Fields, DropField(t, f) PROVE TypeOK'
  BY <1>15, LocFacts DEF DropField, CallInv
<1>16. CASE Free(t)
  BY <1>16 DEF Free
<1>17. CASE DrainEnd(t)
  BY <1>17 DEF DrainEnd
<1> HIDE DEF OwnerInv, TypeOK
<1> QED
  BY <1>1, <1>2, <1>3, <1>4, <1>5, <1>6, <1>7, <1>8, <1>9, <1>10, <1>11, <1>12,
     <1>13, <1>14, <1>15, <1>16, <1>17 DEF ThreadNext, Step

(* A step preserves what the local variables of a call hold.                *)
LEMMA CallStep ==
  ASSUME OwnerInv, NEW t \in Threads, ThreadNext(t)
  PROVE  CallInv'
<1> USE DEF OwnerInv, TypeOK, CallInv, ObjectOrNull, queue
<1>1. ASSUME NEW l \in RootLocs, NEW o \in Objects, NEW k \in {"local", "shared"},
             Alloc(t, l, o, k)
      PROVE  CallInv'
  BY <1>1, LocFacts DEF Alloc
<1>2. ASSUME NEW l \in RootLocs \cup FieldLocs, NEW o \in ObjectOrNull,
             NEW from \in RootLocs \cup {NULL}, Replace(t, l, o, from)
      PROVE  CallInv'
  BY <1>2, LocFacts DEF Replace
<1>3. CASE DrainBegin(t)
  BY <1>3 DEF DrainBegin
<1>4. ASSUME NEW o \in Objects, Access(t, o) PROVE CallInv'
  BY <1>4 DEF Access
<1>5. CASE RetainImmortal(t)
  BY <1>5, LocFacts DEF RetainImmortal, Retained
<1>6. CASE RetainLocal(t)
  BY <1>6, LocFacts DEF RetainLocal, Retained, EndReplace
<1>7. CASE RetainLoad(t)
  BY <1>7 DEF RetainLoad, EndReplace
<1>8. CASE RetainCas(t)
  BY <1>8, LocFacts DEF RetainCas, Retained
<1>9. CASE RetainCasFails(t)
  BY <1>9 DEF RetainCasFails, EndReplace
<1>10. CASE Swap(t)
  BY <1>10, LocFacts DEF Swap
<1>11. CASE ReleaseNothing(t)
  BY <1>11, LocFacts DEF ReleaseNothing, Caller
<1>12. CASE Release(t)
  BY <1>12, LocFacts DEF Release, Caller, Uncounted
<1>13. CASE Enqueue(t)
  BY <1>13 DEF Enqueue, Caller
<1>14. CASE DrainPop(t)
  BY <1>14 DEF DrainPop
<1>15. ASSUME NEW f \in Fields, DropField(t, f) PROVE CallInv'
  BY <1>15, LocFacts DEF DropField
<1>16. CASE Free(t)
  BY <1>16 DEF Free
<1>17. CASE DrainEnd(t)
  BY <1>17 DEF DrainEnd
<1> HIDE DEF OwnerInv, TypeOK, CallInv
<1> QED
  BY <1>1, <1>2, <1>3, <1>4, <1>5, <1>6, <1>7, <1>8, <1>9, <1>10, <1>11, <1>12,
     <1>13, <1>14, <1>15, <1>16, <1>17 DEF ThreadNext, Step

(* A step that leaves kinds, counts and holdings alone, or that retains,    *)
(* keeps counts and holders in agreement.                                   *)
LEMMA CountFrame ==
  ASSUME CountInv, UNCHANGED <<kind, count, held>>
  PROVE  CountInv'
BY DEF CountInv, Holders

(* A retain adds one to the count and one to the holders of its owner.      *)
LEMMA RetainCounts ==
  ASSUME OwnerInv, NEW t \in Threads, pc[t] \in {"retain", "cas"},
         Retained(t), kind' = kind,
         kind[owner[t]] # "immortal" => count[owner[t]] > 0,
         \/ count' = [count EXCEPT ![owner[t]] = count[owner[t]] + 1]
         \/ count' = count /\ kind[owner[t]] = "immortal"
  PROVE  CountInv'
<1>1. /\ owner[t] \in Objects /\ held[Reg(t)] = NULL /\ Reg(t) \in Locs
      /\ held \in [Locs -> ObjectOrNull]
  BY LocFacts DEF OwnerInv, TypeOK, CallInv, ObjectOrNull
<1>2. held' = [held EXCEPT ![Reg(t)] = owner[t]]
  BY DEF Retained
<1>3. count \in [Objects -> Nat]
  BY CountFacts DEF OwnerInv, TypeOK
<1>4. ASSUME NEW o \in Objects
      PROVE  /\ kind'[o] = "immortal" => o \in Statics
             /\ kind'[o] = "none" => count'[o] = 0
             /\ kind'[o] # "immortal" => count'[o] = Cardinality(Holders(o)')
  <2>1. /\ kind[o] = "immortal" => o \in Statics
        /\ kind[o] = "none" => count[o] = 0
        /\ kind[o] # "immortal" => count[o] = Cardinality(Holders(o))
    BY DEF OwnerInv, CountInv
  <2>2. Cardinality(Holders(o)') = IF o = owner[t] THEN Cardinality(Holders(o)) + 1
                                                   ELSE Cardinality(Holders(o))
    BY <1>1, <1>2, GainCounts
  <2> QED
    BY <1>1, <1>3, <2>1, <2>2
<1> QED
  BY <1>4 DEF CountInv

(* Counts and holders agree after every step.                               *)
LEMMA CountStep ==
  ASSUME OwnerInv, NEW t \in Threads, ThreadNext(t)
  PROVE  CountInv'
<1>0. /\ count \in [Objects -> Nat] /\ held \in [Locs -> ObjectOrNull]
      /\ NULL \notin Objects /\ NULL \in ObjectOrNull
      /\ TypeOK /\ CountInv /\ CallInv
  BY CountFacts, OwnerConstants DEF OwnerInv, TypeOK, ObjectOrNull
<1>1. ASSUME NEW l \in RootLocs, NEW o \in Objects, NEW k \in {"local", "shared"},
             Alloc(t, l, o, k)
      PROVE  CountInv'
  <2>1. l \in Locs /\ held[l] = NULL /\ held' = [held EXCEPT ![l] = o]
    BY <1>1, LocFacts DEF Alloc
  <2>2. ASSUME NEW p \in Objects
        PROVE  Cardinality(Holders(p)') = IF p = o THEN Cardinality(Holders(p)) + 1
                                                   ELSE Cardinality(Holders(p))
    BY <1>0, <2>1, GainCounts
  <2>3. /\ kind[o] = "none" /\ count[o] = 0 /\ Cardinality(Holders(o)) = 0
        /\ kind' = [kind EXCEPT ![o] = k] /\ count' = [count EXCEPT ![o] = 1]
    BY <1>0, <1>1 DEF Alloc, CountInv
  <2> QED
    BY <1>0, <2>2, <2>3 DEF CountInv, TypeOK
<1>2. ASSUME NEW l \in RootLocs \cup FieldLocs, NEW o \in ObjectOrNull,
             NEW from \in RootLocs \cup {NULL}, Replace(t, l, o, from)
      PROVE  CountInv'
  BY <1>0, <1>2, CountFrame DEF Replace
<1>3. CASE DrainBegin(t)
  BY <1>0, <1>3, CountFrame DEF DrainBegin
<1>4. ASSUME NEW o \in Objects, Access(t, o) PROVE CountInv'
  BY <1>0, <1>4, CountFrame DEF Access
<1>5. CASE RetainImmortal(t)
  BY <1>5, RetainCounts DEF RetainImmortal
<1>6. CASE RetainLocal(t)
  <2>1. owner[t] \in Objects
    BY <1>0, <1>6 DEF RetainLocal, CallInv, TypeOK, ObjectOrNull
  <2>2. CASE Refused(count[owner[t]])
    BY <1>0, <1>6, <2>2, CountFrame DEF RetainLocal
  <2>3. CASE ~Refused(count[owner[t]])
    <3>1. count[owner[t]] > 0
      BY <1>0, <2>1, <2>3 DEF Refused
    <3> QED
      BY <1>6, <2>3, <3>1, RetainCounts DEF RetainLocal
  <2> QED
    BY <2>2, <2>3
<1>7. CASE RetainLoad(t)
  BY <1>0, <1>7, CountFrame DEF RetainLoad
<1>8. CASE RetainCas(t)
  <2>1. owner[t] \in Objects /\ expected[t] = count[owner[t]] /\ ~Refused(expected[t])
    BY <1>0, <1>8 DEF RetainCas, CallInv, TypeOK, ObjectOrNull
  <2>2. count[owner[t]] > 0
    BY <1>0, <2>1 DEF Refused
  <2>3. /\ Retained(t) /\ pc[t] = "cas" /\ kind' = kind
        /\ count' = [count EXCEPT ![owner[t]] = count[owner[t]] + 1]
    BY <1>8, <2>1 DEF RetainCas
  <2> QED
    BY <2>2, <2>3, RetainCounts
<1>9. CASE RetainCasFails(t)
  BY <1>0, <1>9, CountFrame DEF RetainCasFails
<1>10. CASE Swap(t)
  <2>1. /\ slot[t] \in Locs /\ slot[t] # Reg(t) /\ Reg(t) \in Locs
        /\ held[Reg(t)] = owner[t]
    BY <1>0, <1>10, LocFacts DEF Swap, CallInv, TypeOK
  <2>2. held' = [held EXCEPT ![slot[t]] = held[Reg(t)], ![Reg(t)] = held[slot[t]]]
    BY <1>10, <2>1 DEF Swap
  <2>3. \A o \in Objects : Cardinality(Holders(o)') = Cardinality(Holders(o))
    BY <1>0, <2>1, <2>2, ExchangeCounts
  <2> QED
    BY <1>0, <1>10, <2>3 DEF Swap, CountInv
<1>11. CASE ReleaseNothing(t)
  <2>1. /\ Reg(t) \in Locs /\ held[Reg(t)] = owner[t]
        /\ held' = [held EXCEPT ![Reg(t)] = NULL]
    BY <1>0, <1>11, LocFacts DEF ReleaseNothing, CallInv
  <2>2. \A o \in Objects : o # owner[t] => Cardinality(Holders(o)') = Cardinality(Holders(o))
    BY <1>0, <2>1, LoseCounts
  <2> QED
    BY <1>0, <1>11, <2>2 DEF ReleaseNothing, Uncounted, CountInv
<1>12. CASE Release(t)
  <2>1. /\ Reg(t) \in Locs /\ held[Reg(t)] = owner[t]
        /\ held' = [held EXCEPT ![Reg(t)] = NULL]
        /\ owner[t] \in Objects /\ kind[owner[t]] # "immortal"
    BY <1>0, <1>12, LocFacts DEF Release, Uncounted, CallInv, TypeOK, ObjectOrNull
  <2>2. ASSUME NEW o \in Objects
        PROVE  /\ Cardinality(Holders(o)') \in Nat
               /\ Cardinality(Holders(o)) = IF o = owner[t] THEN Cardinality(Holders(o)') + 1
                                                            ELSE Cardinality(Holders(o)')
    BY <1>0, <2>1, LoseCounts, HoldersFinite DEF Holders
  <2>3. count[owner[t]] > 0 /\ count[owner[t]] = Cardinality(Holders(owner[t]))
    BY <1>0, <2>1, <2>2 DEF CountInv
  <2>4. kind' = kind /\ count' = [count EXCEPT ![owner[t]] = count[owner[t]] - 1]
    <3>1. Decrement(count[owner[t]]) = count[owner[t]] - 1
      BY <1>0, <2>1, <2>3 DEF Decrement
    <3> QED
      BY <1>12, <3>1 DEF Release
  <2>5. kind[owner[t]] # "none"
    BY <1>0, <2>1, <2>3 DEF CountInv
  <2> QED
    BY <1>0, <2>1, <2>2, <2>3, <2>4, <2>5 DEF CountInv
<1>13. CASE Enqueue(t)
  BY <1>0, <1>13, CountFrame DEF Enqueue
<1>14. CASE DrainPop(t)
  BY <1>0, <1>14, CountFrame DEF DrainPop
<1>15. ASSUME NEW f \in Fields, DropField(t, f) PROVE CountInv'
  <2> DEFINE l == Field(dead[t], f)
  <2>1. dead[t] \in Objects
    BY <1>0, <1>15 DEF DropField, CallInv, TypeOK, ObjectOrNull
  <2>2. l \in Locs /\ l # Reg(t) /\ Reg(t) \in Locs /\ held[Reg(t)] = NULL
    BY <1>0, <1>15, <2>1, LocFacts DEF DropField, CallInv
  <2>3. held' = [held EXCEPT ![l] = held[Reg(t)], ![Reg(t)] = held[l]]
    BY <1>15, <2>2 DEF DropField
  <2> HIDE DEF l
  <2>4. \A o \in Objects : Cardinality(Holders(o)') = Cardinality(Holders(o))
    BY <1>0, <2>2, <2>3, ExchangeCounts
  <2> QED
    BY <1>0, <1>15, <2>4 DEF DropField, CountInv
<1>16. CASE Free(t)
  <2>1. dead[t] \in Objects /\ Counted(dead[t]) /\ count[dead[t]] = 0
    BY <1>0, <1>16 DEF Free, CallInv, OwnerInv, CustodyInv, TypeOK, ObjectOrNull
  <2>2. kind' = [kind EXCEPT ![dead[t]] = "none"] /\ UNCHANGED <<count, held>>
    BY <1>16 DEF Free
  <2> QED
    BY <1>0, <2>1, <2>2 DEF CountInv, Holders, Counted, TypeOK
<1>17. CASE DrainEnd(t)
  BY <1>0, <1>17, CountFrame DEF DrainEnd
<1> QED
  BY <1>1, <1>2, <1>3, <1>4, <1>5, <1>6, <1>7, <1>8, <1>9, <1>10, <1>11, <1>12,
     <1>13, <1>14, <1>15, <1>16, <1>17 DEF ThreadNext, Step

(* Owners change custody only when one is released, queued, popped or freed. *)
LEMMA CustodyFrame ==
  ASSUME OwnerInv, NEW t \in Threads,
         UNCHANGED <<kind, count, queuedBy, dead>>,
         \A u \in Threads, o \in Objects : Dying(u, o)' <=> Dying(u, o)
  PROVE  CustodyInv'
BY DEF OwnerInv, CustodyInv, Counted

(* A retain leaves every dead owner with the custodian it had.              *)
LEMMA RetainCustody ==
  ASSUME OwnerInv, NEW t \in Threads, pc[t] \in {"retain", "cas"}, Retained(t),
         UNCHANGED <<kind, queuedBy, dead>>,
         owner[t] \in Objects, Counted(owner[t]) => count[owner[t]] > 0,
         \/ count' = [count EXCEPT ![owner[t]] = count[owner[t]] + 1]
         \/ count' = count
  PROVE  CustodyInv'
<1>1. \A u \in Threads, o \in Objects : Dying(u, o)' <=> Dying(u, o)
  BY DEF Retained, Dying, OwnerInv, TypeOK
<1>2. count \in [Objects -> Nat]
  BY CountFacts DEF OwnerInv, TypeOK
<1>3. \A o \in Objects : (Counted(o) /\ count[o] = 0)' <=> Counted(o) /\ count[o] = 0
  BY <1>2 DEF Counted
<1> QED
  BY <1>1, <1>3 DEF OwnerInv, CustodyInv

(* What release decrements is alive: the assert(old) of release never fails. *)
LEMMA ReleaseAlive ==
  ASSUME OwnerInv, NEW t \in Threads, Release(t)
  PROVE  owner[t] \in Objects /\ Counted(owner[t]) /\ count[owner[t]] > 0
<1>1. owner[t] \in Objects /\ kind[owner[t]] # "immortal" /\ held[Reg(t)] = owner[t]
  BY DEF Release, Uncounted, OwnerInv, CallInv, TypeOK, ObjectOrNull
<1>2. Reg(t) \in HoldersIn(held, owner[t])
  BY <1>1, LocFacts DEF HoldersIn
<1>3. count[owner[t]] > 0
  BY <1>1, <1>2, HoldersFinite DEF OwnerInv, CountInv, Holders
<1>4. kind[owner[t]] # "none"
  BY <1>1, <1>3 DEF OwnerInv, CountInv
<1> QED
  BY <1>1, <1>3, <1>4 DEF OwnerInv, Counted, TypeOK

(* A step leaves every dead owner with exactly one custodian.               *)
LEMMA CustodyStep ==
  ASSUME OwnerInv, NEW t \in Threads, ThreadNext(t)
  PROVE  CustodyInv'
<1>0. /\ TypeOK /\ CallInv /\ CountInv /\ CustodyInv
      /\ count \in [Objects -> Nat] /\ NULL \notin Objects
  BY CountFacts, OwnerConstants DEF OwnerInv, TypeOK
<1>1. ASSUME NEW l \in RootLocs, NEW o \in Objects, NEW k \in {"local", "shared"},
             Alloc(t, l, o, k)
      PROVE  CustodyInv'
  <2>1. \A u \in Threads, p \in Objects : Dying(u, p)' <=> Dying(u, p)
    BY <1>1 DEF Alloc, Dying
  <2>2. \A p \in Objects : (Counted(p) /\ count[p] = 0)' <=> Counted(p) /\ count[p] = 0
    BY <1>0, <1>1 DEF Alloc, Counted, TypeOK
  <2> QED
    BY <1>0, <1>1, <2>1, <2>2 DEF Alloc, CustodyInv
<1>2. ASSUME NEW l \in RootLocs \cup FieldLocs, NEW o \in ObjectOrNull,
             NEW from \in RootLocs \cup {NULL}, Replace(t, l, o, from)
      PROVE  CustodyInv'
  BY <1>0, <1>2, CustodyFrame DEF Replace, Dying, queue, TypeOK
<1>3. CASE DrainBegin(t)
  BY <1>0, <1>3, CustodyFrame DEF DrainBegin, Dying, queue, TypeOK
<1>4. ASSUME NEW o \in Objects, Access(t, o) PROVE CustodyInv'
  BY <1>0, <1>4, CustodyFrame DEF Access, Dying, queue
<1>5. CASE RetainImmortal(t)
  <2>1. owner[t] \in Objects /\ ~Counted(owner[t])
    BY <1>0, <1>5 DEF RetainImmortal, CallInv, TypeOK, ObjectOrNull, Counted
  <2> QED
    BY <1>5, <2>1, RetainCustody DEF RetainImmortal, queue
<1>6. CASE RetainLocal(t)
  <2>1. owner[t] \in Objects
    BY <1>0, <1>6 DEF RetainLocal, CallInv, TypeOK, ObjectOrNull
  <2>2. CASE Refused(count[owner[t]])
    BY <1>0, <1>6, <2>2, CustodyFrame DEF RetainLocal, EndReplace, Dying, queue, TypeOK
  <2>3. CASE ~Refused(count[owner[t]])
    <3>1. count[owner[t]] > 0
      BY <1>0, <2>1, <2>3 DEF Refused
    <3> QED
      BY <1>6, <2>1, <2>3, <3>1, RetainCustody DEF RetainLocal, queue
  <2> QED
    BY <2>2, <2>3
<1>7. CASE RetainLoad(t)
  BY <1>0, <1>7, CustodyFrame DEF RetainLoad, EndReplace, Dying, queue, TypeOK
<1>8. CASE RetainCas(t)
  <2>1. owner[t] \in Objects /\ expected[t] = count[owner[t]] /\ ~Refused(expected[t])
    BY <1>0, <1>8 DEF RetainCas, CallInv, TypeOK, ObjectOrNull
  <2>2. count[owner[t]] > 0
    BY <1>0, <2>1 DEF Refused
  <2>3. /\ Retained(t) /\ pc[t] = "cas" /\ UNCHANGED <<kind, queuedBy, dead>>
        /\ count' = [count EXCEPT ![owner[t]] = count[owner[t]] + 1]
    BY <1>8, <2>1 DEF RetainCas, queue
  <2> QED
    BY <2>1, <2>2, <2>3, RetainCustody
<1>9. CASE RetainCasFails(t)
  BY <1>0, <1>9, CustodyFrame DEF RetainCasFails, EndReplace, Dying, queue, TypeOK
<1>10. CASE Swap(t)
  BY <1>0, <1>10, CustodyFrame DEF Swap, Dying, queue, TypeOK
<1>11. CASE ReleaseNothing(t)
  BY <1>0, <1>11, CustodyFrame DEF ReleaseNothing, Caller, Dying, queue, TypeOK
<1>12. CASE Release(t)
  <2>1. /\ owner[t] \in Objects /\ Counted(owner[t]) /\ count[owner[t]] > 0
        /\ kind' = kind /\ queuedBy' = queuedBy /\ dead' = dead
    BY <1>12, ReleaseAlive DEF Release, queue
  <2>2. count' = [count EXCEPT ![owner[t]] = count[owner[t]] - 1]
    <3>1. Decrement(count[owner[t]]) = count[owner[t]] - 1
      BY <1>0, <2>1 DEF Decrement
    <3> QED
      BY <1>12, <3>1 DEF Release
  <2>3. \A u \in Threads, o \in Objects :
          Dying(u, o)' <=> Dying(u, o) \/ (u = t /\ o = owner[t] /\ count[o] = 1)
    BY <1>0, <1>12, <2>1 DEF Release, IsLast, Caller, Dying, TypeOK
  <2>4. \A o \in Objects :
          (Counted(o) /\ count[o] = 0)'
            <=> (Counted(o) /\ count[o] = 0) \/ (o = owner[t] /\ count[o] = 1)
    BY <1>0, <2>1, <2>2 DEF Counted
  <2> QED
    BY <1>0, <2>1, <2>3, <2>4 DEF CustodyInv
<1>13. CASE Enqueue(t)
  <2>1. owner[t] \in Objects /\ Dying(t, owner[t])
    BY <1>0, <1>13 DEF Enqueue, CallInv, TypeOK, ObjectOrNull, Dying
  <2>2. /\ queuedBy' = [queuedBy EXCEPT ![owner[t]] = t]
        /\ UNCHANGED <<kind, count, dead>>
    BY <1>13 DEF Enqueue
  <2>3. \A u \in Threads, o \in Objects : Dying(u, o)' <=> Dying(u, o) /\ u # t
    BY <1>0, <1>13 DEF Enqueue, Caller, Dying, TypeOK
  <2>4. t # NULL
    BY OwnerConstants
  <2>5. \A o \in Objects : Dying(t, o) <=> o = owner[t]
    BY <2>1 DEF Dying
  <2>6. \A o \in Objects : (Counted(o) /\ count[o] = 0)' <=> Counted(o) /\ count[o] = 0
    BY <2>2 DEF Counted
  <2>7. \A o \in Objects : queuedBy'[o] = IF o = owner[t] THEN t ELSE queuedBy[o]
    BY <1>0, <2>2 DEF TypeOK
  <2>8. ASSUME NEW o \in Objects
        PROVE  (Counted(o) /\ count[o] = 0)' <=>
                 \/ queuedBy'[o] # NULL
                 \/ \E u \in Threads : Dying(u, o)' \/ dead'[u] = o
    BY <1>0, <2>1, <2>2, <2>3, <2>4, <2>5, <2>6, <2>7 DEF CustodyInv
  <2>9. ASSUME NEW o \in Objects, NEW u \in Threads, NEW v \in Threads
        PROVE  /\ Dying(u, o)' => dead'[v] # o /\ queuedBy'[o] = NULL
               /\ dead'[u] = o => queuedBy'[o] = NULL
               /\ (Dying(u, o)' /\ Dying(v, o)') \/ (dead'[u] = o /\ dead'[v] = o) => u = v
    BY <1>0, <2>1, <2>2, <2>3, <2>5, <2>7 DEF CustodyInv
  <2> QED
    BY <2>8, <2>9 DEF CustodyInv
<1>14. CASE DrainPop(t)
  <2>1. head[t] \in Objects /\ queuedBy[head[t]] = t /\ dead[t] = NULL /\ t # NULL
    BY <1>0, <1>14, OwnerConstants
       DEF DrainPop, OwnerInv, CallInv, ListInv, TypeOK, ObjectOrNull
  <2>2. /\ queuedBy' = [queuedBy EXCEPT ![head[t]] = NULL]
        /\ dead' = [dead EXCEPT ![t] = head[t]]
        /\ UNCHANGED <<kind, count>>
    BY <1>14 DEF DrainPop
  <2>3. \A u \in Threads, o \in Objects : Dying(u, o)' <=> Dying(u, o)
    BY <1>0, <1>14 DEF DrainPop, Dying, TypeOK
  <2> QED
    BY <1>0, <2>1, <2>2, <2>3 DEF CustodyInv, Counted, TypeOK
<1>15. ASSUME NEW f \in Fields, DropField(t, f) PROVE CustodyInv'
  BY <1>0, <1>15, CustodyFrame DEF DropField, Dying, queue, TypeOK
<1>16. CASE Free(t)
  <2>1. dead[t] \in Objects
    BY <1>0, <1>16 DEF Free, CallInv, TypeOK, ObjectOrNull
  <2>2. /\ dead' = [dead EXCEPT ![t] = NULL] /\ kind' = [kind EXCEPT ![dead[t]] = "none"]
        /\ UNCHANGED <<count, queuedBy>>
    BY <1>16 DEF Free, queue
  <2>3. \A u \in Threads, o \in Objects : Dying(u, o)' <=> Dying(u, o)
    BY <1>0, <1>16 DEF Free, Dying, TypeOK
  <2>4. \A o \in Objects : (Counted(o) /\ count[o] = 0)'
                             <=> Counted(o) /\ count[o] = 0 /\ o # dead[t]
    BY <1>0, <2>1, <2>2 DEF Counted, TypeOK
  <2> QED
    BY <1>0, <2>1, <2>2, <2>3, <2>4 DEF CustodyInv, TypeOK
<1>17. CASE DrainEnd(t)
  BY <1>0, <1>17, CustodyFrame DEF DrainEnd, Dying, queue, TypeOK
<1> QED
  BY <1>1, <1>2, <1>3, <1>4, <1>5, <1>6, <1>7, <1>8, <1>9, <1>10, <1>11, <1>12,
     <1>13, <1>14, <1>15, <1>16, <1>17 DEF ThreadNext, Step

(* Only alloc, the append and the pop touch the links of the dead queues.   *)
LEMMA ListStep ==
  ASSUME OwnerInv, NEW t \in Threads, ThreadNext(t)
  PROVE  ListInv'
<1>0. TypeOK /\ CallInv /\ CountInv /\ CustodyInv /\ ListInv /\ NULL \notin Objects \cup Threads
  BY OwnerConstants DEF OwnerInv
<1>1. ASSUME NEW l \in RootLocs, NEW o \in Objects, NEW k \in {"local", "shared"},
             Alloc(t, l, o, k)
      PROVE  ListInv'
  <2>1. queuedBy[o] = NULL
    BY <1>0, <1>1 DEF Alloc, CustodyInv, Counted
  <2>2. next' = [next EXCEPT ![o] = NULL] /\ UNCHANGED <<head, tail, queuedBy>>
    BY <1>1 DEF Alloc
  <2> QED
    BY <1>0, <2>1, <2>2 DEF ListInv, TypeOK, ObjectOrNull
<1>2. CASE UNCHANGED queue
  BY <1>0, <1>2 DEF queue, ListInv
<1>3. CASE Enqueue(t)
  <2> DEFINE o == owner[t]
  <2>1. o \in Objects /\ queuedBy[o] = NULL
    BY <1>0, <1>3 DEF Enqueue, CallInv, TypeOK, ObjectOrNull, CustodyInv, Dying
  <2>2. /\ queuedBy' = [queuedBy EXCEPT ![o] = t] /\ tail' = [tail EXCEPT ![t] = o]
        /\ head' = IF tail[t] = NULL THEN [head EXCEPT ![t] = o] ELSE head
    BY <1>3 DEF Enqueue
  <2>3. tail[t] # o /\ tail[t] \in ObjectOrNull
    BY <1>0, <2>1 DEF ListInv, TypeOK
  <2>4. \A p \in Objects : next'[p] = IF p = o THEN NULL
                                       ELSE IF p = tail[t] THEN o ELSE next[p]
    BY <1>0, <1>3, <2>3 DEF Enqueue, TypeOK, ObjectOrNull
  <2> HIDE DEF o
  <2>5. ASSUME NEW u \in Threads
        PROVE  /\ head'[u] # NULL => queuedBy'[head'[u]] = u
               /\ tail'[u] # NULL => queuedBy'[tail'[u]] = u /\ next'[tail'[u]] = NULL
               /\ head'[u] = NULL <=> tail'[u] = NULL
    BY <1>0, <2>1, <2>2, <2>3, <2>4 DEF ListInv, TypeOK, ObjectOrNull
  <2>6. ASSUME NEW p \in Objects, queuedBy'[p] # NULL, next'[p] # NULL
        PROVE  /\ queuedBy'[next'[p]] = queuedBy'[p]
               /\ next'[p] # head'[queuedBy'[p]]
               /\ \A q \in Objects : queuedBy'[q] # NULL /\ next'[q] = next'[p] => q = p
    <3>1. p # o /\ queuedBy[p] # NULL /\ queuedBy'[p] = queuedBy[p] /\ queuedBy[p] \in Threads
      BY <1>0, <2>1, <2>2, <2>4, <2>6 DEF TypeOK
    <3>2. CASE p = tail[t]
      BY <1>0, <2>1, <2>2, <2>4, <3>1, <3>2 DEF ListInv, TypeOK, ObjectOrNull
    <3>3. CASE p # tail[t]
      <4>1. /\ next'[p] = next[p] /\ next[p] \in Objects
            /\ queuedBy[next[p]] = queuedBy[p] /\ next[p] # head[queuedBy[p]]
            /\ \A q \in Objects : queuedBy[q] # NULL /\ next[q] = next[p] => q = p
        BY <1>0, <2>4, <2>6, <3>1, <3>3 DEF ListInv, TypeOK, ObjectOrNull
      <4>2. next[p] # o
        BY <2>1, <3>1, <4>1
      <4> QED
        BY <1>0, <2>1, <2>2, <2>4, <3>1, <4>1, <4>2 DEF ListInv, TypeOK, ObjectOrNull
    <3> QED
      BY <3>2, <3>3
  <2> QED
    BY <2>5, <2>6 DEF ListInv
<1>4. CASE DrainPop(t)
  <2> DEFINE h == head[t]
             n == next[h]
  <2>1. /\ h \in Objects /\ queuedBy[h] = t /\ n \in ObjectOrNull /\ tail[t] # NULL
        /\ n # NULL => queuedBy[n] = t /\ n # h
    BY <1>0, <1>4 DEF DrainPop, ListInv, TypeOK, ObjectOrNull
  <2>2. /\ queuedBy' = [queuedBy EXCEPT ![h] = NULL] /\ next' = next
        /\ head' = [head EXCEPT ![t] = n]
        /\ tail' = [tail EXCEPT ![t] = IF n = NULL THEN NULL ELSE tail[t]]
    BY <1>4 DEF DrainPop, HeadAfterPop, TailAfterPop
  <2> HIDE DEF h, n
  <2>3. ASSUME NEW u \in Threads
        PROVE  /\ head'[u] # NULL => queuedBy'[head'[u]] = u
               /\ tail'[u] # NULL => queuedBy'[tail'[u]] = u /\ next'[tail'[u]] = NULL
               /\ head'[u] = NULL <=> tail'[u] = NULL
    <3>1. CASE u = t
      BY <1>0, <2>1, <2>2, <3>1 DEF ListInv, TypeOK, ObjectOrNull, h, n
    <3>2. CASE u # t
      BY <1>0, <2>1, <2>2, <3>2 DEF ListInv, TypeOK, ObjectOrNull
    <3> QED
      BY <3>1, <3>2
  <2>4. ASSUME NEW p \in Objects, queuedBy'[p] # NULL, next'[p] # NULL
        PROVE  /\ queuedBy'[next'[p]] = queuedBy'[p]
               /\ next'[p] # head'[queuedBy'[p]]
               /\ \A q \in Objects : queuedBy'[q] # NULL /\ next'[q] = next'[p] => q = p
    <3>1. p # h /\ queuedBy[p] # NULL /\ queuedBy'[p] = queuedBy[p] /\ queuedBy[p] \in Threads
      BY <1>0, <2>1, <2>2, <2>4 DEF TypeOK
    <3>2. /\ next'[p] = next[p] /\ next[p] \in Objects
          /\ queuedBy[next[p]] = queuedBy[p] /\ next[p] # head[queuedBy[p]]
          /\ \A q \in Objects : queuedBy[q] # NULL /\ next[q] = next[p] => q = p
      BY <1>0, <2>2, <2>4, <3>1 DEF ListInv, TypeOK, ObjectOrNull
    <3>3. next[p] # h
      BY <2>1, <3>2 DEF h
    <3>4. n # next[p]
      BY <1>0, <2>1, <3>1, <3>2 DEF n
    <3>5. head'[queuedBy[p]] = IF queuedBy[p] = t THEN n ELSE head[queuedBy[p]]
      BY <1>0, <2>2, <3>1 DEF TypeOK
    <3>6. \A q \in Objects : queuedBy'[q] # NULL => queuedBy[q] # NULL
      BY <1>0, <2>2 DEF TypeOK
    <3> QED
      BY <1>0, <2>2, <3>1, <3>2, <3>3, <3>4, <3>5, <3>6 DEF TypeOK
  <2> QED
    BY <2>3, <2>4 DEF ListInv
<1>5. ASSUME ~UNCHANGED queue, ~Enqueue(t), ~DrainPop(t)
      PROVE  \E l \in RootLocs, o \in Objects, k \in {"local", "shared"} : Alloc(t, l, o, k)
  BY <1>5 DEF ThreadNext, Step, Replace, DrainBegin, Access, RetainImmortal, RetainLocal,
     RetainLoad, RetainCas, RetainCasFails, Swap, ReleaseNothing, Release, DropField, Free,
     DrainEnd
<1> QED
  BY <1>1, <1>2, <1>3, <1>4, <1>5

-----------------------------------------------------------------------------
(* OwnerInv holds initially and every step of every thread preserves it.    *)
LEMMA InitInv == Init => OwnerInv
<1> SUFFICES ASSUME Init PROVE OwnerInv
  OBVIOUS
<1>1. TypeOK
  BY CountFacts, OwnerConstants DEF Init, TypeOK, PcValues, ObjectOrNull
<1>2. CallInv
  BY LocFacts DEF Init, CallInv
<1>3. CountInv
  <2>1. \A o \in Objects : HoldersIn(held, o) = {}
    BY OwnerConstants DEF Init, HoldersIn
  <2> QED
    BY <2>1, HoldersFinite DEF Init, CountInv, Holders
<1>4. CustodyInv
  BY OwnerConstants DEF Init, CustodyInv, Counted, Dying
<1>5. ListInv
  BY DEF Init, ListInv
<1> QED
  BY <1>1, <1>2, <1>3, <1>4, <1>5 DEF OwnerInv

(* The inductive step, for every action of every thread.                    *)
LEMMA NextInv == OwnerInv /\ [Next]_vars => OwnerInv'
<1>1. ASSUME OwnerInv, NEW t \in Threads, ThreadNext(t) PROVE OwnerInv'
  BY <1>1, TypeStep, CallStep, CountStep, CustodyStep, ListStep DEF OwnerInv
<1>2. ASSUME OwnerInv, UNCHANGED vars PROVE OwnerInv'
  BY <1>2 DEF vars, OwnerInv, TypeOK, CallInv, CountInv, CustodyInv, ListInv, Holders,
     Counted, Dying
<1> QED
  BY <1>1, <1>2 DEF Next

(* OwnerInv is an invariant of the specification.                           *)
THEOREM InvariantHolds == Spec => []OwnerInv
BY InitInv, NextInv, PTL DEF Spec

(* Every variable keeps its type.                                           *)
THEOREM TypeCorrect == Spec => []TypeOK
BY InvariantHolds, PTL DEF OwnerInv

(* Reference counts are exact in every interleaving of any number of        *)
(* threads retaining, releasing and draining.                               *)
THEOREM CountsExact == Spec => []HoldersCounted
<1>1. OwnerInv => HoldersCounted
  BY DEF OwnerInv, CountInv, HoldersCounted, Counted
<1> QED
  BY <1>1, InvariantHolds, PTL

(* No slot, field or local of a call refers to a dead or freed owner.       *)
THEOREM NeverDangling == Spec => []NoDangling
<1>1. OwnerInv => NoDangling
  <2> SUFFICES ASSUME OwnerInv, NEW l \in Locs, held[l] # NULL, kind[held[l]] # "immortal"
               PROVE  Counted(held[l]) /\ count[held[l]] > 0
    BY DEF NoDangling
  <2>1. held[l] \in Objects
    BY DEF OwnerInv, TypeOK, ObjectOrNull
  <2>2. l \in HoldersIn(held, held[l])
    BY DEF HoldersIn
  <2>3. count[held[l]] > 0
    BY <2>1, <2>2, HoldersFinite DEF OwnerInv, CountInv, Holders
  <2> QED
    BY <2>1, <2>3 DEF OwnerInv, TypeOK, CountInv, Counted
<1> QED
  BY <1>1, InvariantHolds, PTL

(* An owner whose count reached zero is queued and freed exactly once.      *)
THEOREM DeadExactlyOnce == Spec => []DeadOnce
<1>1. OwnerInv => DeadOnce
  <2> SUFFICES ASSUME OwnerInv, NEW o \in Objects
               PROVE  IF Counted(o) /\ count[o] = 0
                        THEN \E c \in Custody(o) : Custody(o) = {c}
                        ELSE Custody(o) = {}
    BY DEF DeadOnce
  <2>1. CASE ~(Counted(o) /\ count[o] = 0)
    BY <2>1, OwnerConstants DEF OwnerInv, CustodyInv, Custody, Dying
  <2>2. CASE Counted(o) /\ count[o] = 0
    <3>1. CASE queuedBy[o] # NULL
      <4>1. queuedBy[o] \in Threads
        BY <3>1 DEF OwnerInv, TypeOK
      <4>2. Custody(o) = {<<"queue", queuedBy[o]>>}
        BY <3>1, <4>1 DEF OwnerInv, CustodyInv, Custody
      <4> QED
        BY <2>2, <4>2
    <3>2. ASSUME NEW t \in Threads, Dying(t, o) PROVE Custody(o) = {<<"releaser", t>>}
      BY <3>2, OwnerConstants DEF OwnerInv, CustodyInv, Custody
    <3>3. ASSUME NEW t \in Threads, dead[t] = o PROVE Custody(o) = {<<"drain", t>>}
      BY <3>3, OwnerConstants DEF OwnerInv, CustodyInv, Custody
    <3>4. queuedBy[o] # NULL \/ \E t \in Threads : Dying(t, o) \/ dead[t] = o
      BY <2>2 DEF OwnerInv, CustodyInv
    <3> QED
      BY <2>2, <3>1, <3>2, <3>3, <3>4
  <2> QED
    BY <2>1, <2>2
<1> QED
  BY <1>1, InvariantHolds, PTL

(* A count of zero never rises again while the memory is the same owner's.  *)
THEOREM ZeroIsFinal == Spec => NoResurrection
<1> DEFINE Final == \A o \in Objects : Counted(o) /\ count[o] = 0 /\ kind'[o] # "none"
                       => count'[o] = 0
<1>1. ASSUME OwnerInv, NEW t \in Threads, ThreadNext(t) PROVE Final
  <2>1. CASE count' = count
    BY <2>1
  <2>2. ASSUME NEW l \in RootLocs, NEW o \in Objects, NEW k \in {"local", "shared"},
               Alloc(t, l, o, k)
        PROVE  Final
    BY <2>2 DEF Alloc, Counted
  <2>3. CASE RetainLocal(t)
    <3>1. CASE Refused(count[owner[t]])
      BY <2>3, <3>1 DEF RetainLocal
    <3>2. CASE ~Refused(count[owner[t]])
      BY <1>1, <2>3, <3>2 DEF RetainLocal, Refused, OwnerInv, TypeOK
    <3> QED
      BY <3>1, <3>2
  <2>4. CASE RetainCas(t)
    BY <1>1, <2>4 DEF RetainCas, Refused, OwnerInv, CallInv
  <2>5. CASE Release(t)
    <3>1. /\ count[owner[t]] > 0 /\ count \in [Objects -> 0 .. Limit]
          /\ \A o \in Objects : o # owner[t] => count'[o] = count[o]
      BY <1>1, <2>5, ReleaseAlive DEF Release, OwnerInv, TypeOK
    <3> QED
      BY <3>1
  <2>6. ASSUME count' # count, ~RetainLocal(t), ~RetainCas(t), ~Release(t)
        PROVE  \E l \in RootLocs, o \in Objects, k \in {"local", "shared"} :
                 Alloc(t, l, o, k)
    BY <1>1, <2>6 DEF ThreadNext, Step, Replace, DrainBegin, Access, RetainImmortal,
       RetainLoad, RetainCasFails, Swap, ReleaseNothing, Enqueue, DrainPop, DropField,
       Free, DrainEnd
  <2> QED
    BY <2>1, <2>2, <2>3, <2>4, <2>5, <2>6
<1>2. OwnerInv /\ [Next]_vars => [Final]_vars
  BY <1>1 DEF Next
<1> QED
  BY <1>2, InvariantHolds, PTL DEF Spec, NoResurrection

-----------------------------------------------------------------------------
(* Payload accesses.  A thread that has accessed a payload since its last   *)
(* release of the owner still holds it: in a slot of its own, which no      *)
(* other thread writes, or in the local of the release it is about to make. *)
Holding(u, o) ==
  (\E l \in OwnRoots(u) : held[l] = o) \/ (pc[u] = "release" /\ owner[u] = o)

SlotInv == \A t \in Threads : slot[t] \in OwnRoots(t) \cup FieldLocs \cup {NULL}

AccessedInv ==
  \A o \in Objects, u \in Threads : access[o][u] = "accessed" => Holding(u, o)

(* Only a shared owner that is alive has accesses still to be ordered.      *)
PendingInv ==
  \A o \in Objects, u \in Threads :
    access[o][u] # "none" => kind[o] = "shared" /\ count[o] > 0

OrderInv == SlotInv /\ AccessedInv /\ PendingInv

(* A slot belongs to the one thread that may write it.                      *)
LEMMA RootsApart ==
  /\ \A t, u \in Threads : t # u => OwnRoots(t) \cap OwnRoots(u) = {}
  /\ \A t \in Threads : OwnRoots(t) \cap FieldLocs = {}
  /\ \A t, u \in Threads : Reg(t) \notin OwnRoots(u)
  /\ \A t \in Threads : NULL \notin OwnRoots(t)
<1>1. \A t, u \in Threads : t # u => OwnRoots(t) \cap OwnRoots(u) = {}
  BY DEF OwnRoots, Root
<1>2. \A t \in Threads : OwnRoots(t) \cap FieldLocs = {}
  BY DEF OwnRoots, Root, FieldLocs, Field
<1> QED
  BY <1>1, <1>2, LocFacts

(* A thread's slot in a replace is one it may write.                        *)
LEMMA SlotStep ==
  ASSUME OwnerInv, SlotInv, NEW t \in Threads, ThreadNext(t)
  PROVE  SlotInv'
<1>1. ASSUME NEW l \in RootLocs \cup FieldLocs, NEW o \in ObjectOrNull,
             NEW from \in RootLocs \cup {NULL}, Replace(t, l, o, from)
      PROVE  SlotInv'
  <2>1. l \in OwnRoots(t) \cup FieldLocs
    BY <1>1, LocFacts DEF Replace, Writable
  <2>2. slot' = [slot EXCEPT ![t] = l] /\ slot \in [Threads -> RootLocs \cup FieldLocs \cup {NULL}]
    BY <1>1 DEF Replace, OwnerInv, TypeOK
  <2> QED
    BY <2>1, <2>2 DEF SlotInv, OwnRoots
<1>2. CASE slot' = slot
  BY <1>2 DEF SlotInv, OwnRoots
<1>3. CASE slot' = [slot EXCEPT ![t] = NULL]
  BY <1>3 DEF SlotInv, OwnRoots, OwnerInv, TypeOK
<1>4. ASSUME slot' # slot, slot' # [slot EXCEPT ![t] = NULL]
      PROVE  \E l \in RootLocs \cup FieldLocs, o \in ObjectOrNull,
                from \in RootLocs \cup {NULL} : Replace(t, l, o, from)
  BY <1>4 DEF ThreadNext, Step, Alloc, DrainBegin, Access, RetainImmortal, RetainLocal,
     RetainLoad, RetainCas, RetainCasFails, EndReplace, Retained, Swap, ReleaseNothing,
     Release, Enqueue, DrainPop, DropField, Free, DrainEnd, queue
<1> QED
  BY <1>1, <1>2, <1>3, <1>4

(* A step that leaves the slots' owners and the running releases alone      *)
(* leaves every thread with what it holds.                                  *)
LEMMA HoldingFrame ==
  ASSUME \A u \in Threads : \A l \in OwnRoots(u) : held[l] # NULL => held'[l] = held[l],
         \A u \in Threads : pc[u] = "release" => pc'[u] = "release" /\ owner'[u] = owner[u]
  PROVE  \A o \in Objects, u \in Threads : Holding(u, o) => Holding(u, o)'
<1>1. NULL \notin Objects
  BY OwnerConstants
<1> QED
  BY <1>1 DEF Holding, OwnRoots

(* Steps that record no access keep what follows from recorded ones.        *)
LEMMA AccessedFrame ==
  ASSUME AccessedInv, access' = access,
         \A o \in Objects, u \in Threads : Holding(u, o) => Holding(u, o)'
  PROVE  AccessedInv'
BY DEF AccessedInv

(* A step keeps a thread's holding as long as its accesses are unpublished. *)
LEMMA AccessedStep ==
  ASSUME OwnerInv, OrderInv, NEW t \in Threads, ThreadNext(t)
  PROVE  AccessedInv'
<1>0. /\ TypeOK /\ CallInv /\ SlotInv /\ AccessedInv /\ PendingInv
      /\ NULL \notin Objects
  BY OwnerConstants DEF OwnerInv, OrderInv
<1>1. ASSUME NEW l \in RootLocs, NEW o \in Objects, NEW k \in {"local", "shared"},
             Alloc(t, l, o, k)
      PROVE  AccessedInv'
  <2>1. \A u \in Threads : \A m \in OwnRoots(u) : held[m] # NULL => held'[m] = held[m]
    BY <1>0, <1>1, LocFacts DEF Alloc, TypeOK
  <2>2. \A u \in Threads : pc[u] = "release" => pc'[u] = "release" /\ owner'[u] = owner[u]
    BY <1>1 DEF Alloc
  <2>3. access' = access
    BY <1>1 DEF Alloc
  <2> QED
    BY <1>0, <2>1, <2>2, <2>3, HoldingFrame, AccessedFrame
<1>2. ASSUME held' = held, access' = access, pc[t] # "release",
             \A u \in Threads \ {t} : pc'[u] = pc[u] /\ owner'[u] = owner[u]
      PROVE  AccessedInv'
  <2>1. \A u \in Threads : pc[u] = "release" => pc'[u] = "release" /\ owner'[u] = owner[u]
    BY <1>2
  <2> QED
    BY <1>0, <1>2, <2>1, HoldingFrame, AccessedFrame
<1>3. ASSUME Retained(t), access' = access, pc[t] # "release"
      PROVE  AccessedInv'
  <2>1. \A u \in Threads : \A m \in OwnRoots(u) : held'[m] = held[m]
    BY <1>0, <1>3, RootsApart, LocFacts DEF Retained, TypeOK
  <2>2. \A u \in Threads : pc[u] = "release" => pc'[u] = "release" /\ owner'[u] = owner[u]
    BY <1>0, <1>3 DEF Retained, TypeOK
  <2> QED
    BY <1>0, <1>3, <2>1, <2>2, HoldingFrame, AccessedFrame
<1>4. CASE Swap(t)
  <2>1. /\ slot[t] \in OwnRoots(t) \cup FieldLocs /\ slot[t] \in Locs /\ Reg(t) \in Locs
        /\ slot[t] # Reg(t)
    BY <1>0, <1>4, LocFacts DEF Swap, CallInv, SlotInv
  <2>2. /\ held' = [held EXCEPT ![slot[t]] = owner[t], ![Reg(t)] = held[slot[t]]]
        /\ owner' = [owner EXCEPT ![t] = held[slot[t]]]
        /\ pc' = [pc EXCEPT ![t] = "release"] /\ access' = access /\ pc[t] = "swap"
    BY <1>4 DEF Swap
  <2>3. \A u \in Threads : \A m \in OwnRoots(u) : m # slot[t] => held'[m] = held[m]
    BY <1>0, <2>1, <2>2, RootsApart, LocFacts DEF TypeOK
  <2>4. \A u \in Threads \ {t} : pc'[u] = pc[u] /\ owner'[u] = owner[u]
    BY <1>0, <2>2 DEF TypeOK
  <2>5. pc'[t] = "release" /\ owner'[t] = held[slot[t]]
    BY <1>0, <2>2 DEF TypeOK
  <2>6. ASSUME NEW o \in Objects, NEW u \in Threads, Holding(u, o) PROVE Holding(u, o)'
    <3>1. CASE pc[u] = "release" /\ owner[u] = o
      <4>1. u # t
        BY <2>2, <3>1
      <4> QED
        BY <2>4, <3>1, <4>1 DEF Holding
    <3>2. ASSUME NEW m \in OwnRoots(u), held[m] = o PROVE Holding(u, o)'
      <4>1. CASE m = slot[t]
        <5>1. u = t
          BY <2>1, <3>2, <4>1, RootsApart
        <5> QED
          BY <2>5, <3>2, <4>1, <5>1 DEF Holding
      <4>2. CASE m # slot[t]
        <5>1. held'[m] = o
          BY <2>3, <3>2, <4>2
        <5>2. m \in OwnRoots(u)'
          BY <3>2 DEF OwnRoots
        <5> QED
          BY <5>1, <5>2 DEF Holding
      <4> QED
        BY <4>1, <4>2
    <3> QED
      BY <2>6, <3>1, <3>2 DEF Holding
  <2> QED
    BY <1>0, <2>2, <2>6, AccessedFrame
<1>5. ASSUME pc[t] = "release", owner[t] \in Objects => access'[owner[t]][t] # "accessed",
             held' = [held EXCEPT ![Reg(t)] = NULL],
             \A u \in Threads \ {t} : pc'[u] = pc[u] /\ owner'[u] = owner[u],
             \A o \in Objects, u \in Threads :
               access'[o][u] = "accessed" => access[o][u] = "accessed"
      PROVE  AccessedInv'
  <2>1. \A u \in Threads : \A m \in OwnRoots(u) : held'[m] = held[m]
    BY <1>0, <1>5, RootsApart, LocFacts DEF TypeOK
  <2>2. ASSUME NEW o \in Objects, NEW u \in Threads, access'[o][u] = "accessed"
        PROVE  Holding(u, o)'
    <3>1. Holding(u, o)
      BY <1>0, <1>5, <2>2 DEF AccessedInv
    <3>2. CASE u = t /\ owner[t] = o
      BY <1>5, <2>2, <3>2
    <3>3. CASE u # t \/ owner[t] # o
      BY <1>5, <2>1, <3>1, <3>3 DEF Holding, OwnRoots
    <3> QED
      BY <3>2, <3>3
  <2> QED
    BY <2>2 DEF AccessedInv
<1>6. CASE ReleaseNothing(t)
  <2>1. owner[t] \in Objects => kind[owner[t]] = "immortal"
    BY <1>0, <1>6 DEF ReleaseNothing, Uncounted
  <2>2. owner[t] \in Objects => access[owner[t]][t] = "none"
    BY <1>0, <2>1 DEF PendingInv
  <2> QED
    BY <1>0, <1>5, <1>6, <2>2 DEF ReleaseNothing, TypeOK
<1>7. CASE Release(t)
  <2>1. owner[t] \in Objects
    BY <1>7, ReleaseAlive
  <2>2. \A u \in Threads :
          Ordered(access[owner[t]], t, IsLast(count[owner[t]]))[u] = "accessed"
            => access[owner[t]][u] = "accessed" /\ u # t
    BY <1>0, <2>1 DEF Ordered, TypeOK
  <2>3. access' = [access EXCEPT ![owner[t]] =
                     Ordered(access[owner[t]], t, IsLast(count[owner[t]]))]
    BY <1>7 DEF Release
  <2>4. \A u \in Threads : access'[owner[t]][u] = "accessed"
                             => access[owner[t]][u] = "accessed" /\ u # t
    BY <1>0, <2>1, <2>2, <2>3 DEF TypeOK
  <2>5. \A o \in Objects \ {owner[t]} : access'[o] = access[o]
    BY <1>0, <2>3 DEF TypeOK
  <2>6. \A u \in Threads \ {t} : pc'[u] = pc[u] /\ owner'[u] = owner[u]
    BY <1>0, <1>7 DEF Release, TypeOK
  <2>7. held' = [held EXCEPT ![Reg(t)] = NULL] /\ pc[t] = "release"
    BY <1>7 DEF Release
  <2>8. \A o \in Objects, u \in Threads :
          access'[o][u] = "accessed" => access[o][u] = "accessed"
    BY <2>4, <2>5
  <2> QED
    BY <1>5, <2>1, <2>4, <2>6, <2>7, <2>8
<1>8. ASSUME NEW f \in Fields, DropField(t, f) PROVE AccessedInv'
  <2>1. Field(dead[t], f) \in FieldLocs /\ Reg(t) \in Locs
    BY <1>0, <1>8, LocFacts DEF DropField, CallInv, TypeOK, ObjectOrNull
  <2>2. held' = [held EXCEPT ![Field(dead[t], f)] = NULL,
                             ![Reg(t)] = held[Field(dead[t], f)]]
    BY <1>8 DEF DropField
  <2>3. \A u \in Threads : \A m \in OwnRoots(u) : held'[m] = held[m]
    BY <1>0, <2>1, <2>2, RootsApart, LocFacts DEF TypeOK
  <2>4. \A u \in Threads : pc[u] = "release" => pc'[u] = "release" /\ owner'[u] = owner[u]
    BY <1>0, <1>8 DEF DropField, TypeOK
  <2>5. access' = access
    BY <1>8 DEF DropField
  <2> QED
    BY <1>0, <2>3, <2>4, <2>5, HoldingFrame, AccessedFrame
<1>9. CASE Free(t)
  <2>1. dead[t] \in Objects
    BY <1>0, <1>9 DEF Free, CallInv, TypeOK, ObjectOrNull
  <2>2. \A o \in Objects, u \in Threads : access'[o][u] = "accessed"
                                            => access[o][u] = "accessed"
    BY <1>0, <1>9, <2>1 DEF Free, TypeOK
  <2>3. \A u \in Threads : pc[u] = "release" => pc'[u] = "release" /\ owner'[u] = owner[u]
    BY <1>0, <1>9 DEF Free, TypeOK
  <2>4. held' = held
    BY <1>9 DEF Free
  <2>5. \A o \in Objects, u \in Threads : Holding(u, o) => Holding(u, o)'
    BY <2>3, <2>4, HoldingFrame
  <2> QED
    BY <1>0, <2>2, <2>5 DEF AccessedInv
<1>10. ASSUME NEW o \in Objects, Access(t, o) PROVE AccessedInv'
  <2>1. access' = [access EXCEPT ![o][t] = "accessed"] /\ UNCHANGED <<held, pc, owner>>
    BY <1>10 DEF Access
  <2>2. Holding(t, o)
    BY <1>10 DEF Access, Holding
  <2>3. \A p \in Objects, u \in Threads :
          access'[p][u] = "accessed" => access[p][u] = "accessed" \/ (p = o /\ u = t)
    BY <1>0, <2>1 DEF TypeOK
  <2>4. \A p \in Objects, u \in Threads : Holding(u, p) => Holding(u, p)'
    BY <2>1 DEF Holding, OwnRoots
  <2> QED
    BY <1>0, <2>2, <2>3, <2>4 DEF AccessedInv
<1>11. ASSUME NEW l \in RootLocs \cup FieldLocs, NEW o \in ObjectOrNull,
              NEW from \in RootLocs \cup {NULL}, Replace(t, l, o, from)
       PROVE  AccessedInv'
  BY <1>0, <1>2, <1>11 DEF Replace, TypeOK
<1>12. CASE DrainBegin(t)
  BY <1>0, <1>2, <1>12 DEF DrainBegin, TypeOK
<1>13. CASE RetainImmortal(t)
  BY <1>3, <1>13 DEF RetainImmortal
<1>14. CASE RetainLocal(t)
  <2>1. CASE Retained(t)
    BY <1>3, <1>14, <2>1 DEF RetainLocal
  <2>2. CASE EndReplace(t) /\ held' = held
    BY <1>0, <1>2, <1>14, <2>2 DEF RetainLocal, EndReplace, TypeOK
  <2> QED
    BY <1>14, <2>1, <2>2 DEF RetainLocal
<1>15. CASE RetainLoad(t)
  BY <1>0, <1>2, <1>15 DEF RetainLoad, EndReplace, TypeOK
<1>16. CASE RetainCas(t)
  BY <1>3, <1>16 DEF RetainCas
<1>17. CASE RetainCasFails(t)
  BY <1>0, <1>2, <1>17 DEF RetainCasFails, EndReplace, TypeOK
<1>18. CASE Enqueue(t)
  BY <1>0, <1>2, <1>18 DEF Enqueue, TypeOK
<1>19. CASE DrainPop(t)
  BY <1>0, <1>2, <1>19 DEF DrainPop, TypeOK
<1>20. CASE DrainEnd(t)
  BY <1>0, <1>2, <1>20 DEF DrainEnd, TypeOK
<1> QED
  BY <1>1, <1>4, <1>6, <1>7, <1>8, <1>9, <1>10, <1>11, <1>12, <1>13, <1>14, <1>15, <1>16,
     <1>17, <1>18, <1>19, <1>20 DEF ThreadNext, Step

(* The last holding of an owner is the one its release gives up.            *)
LEMMA LastHolder ==
  ASSUME OwnerInv, OrderInv, NEW t \in Threads, Release(t), count[owner[t]] = 1,
         NEW u \in Threads \ {t}
  PROVE  access[owner[t]][u] # "accessed"
<1> DEFINE o == owner[t]
<1>0. TypeOK /\ CallInv /\ CountInv /\ AccessedInv /\ NULL \notin Objects
  BY OwnerConstants DEF OwnerInv, OrderInv
<1>1. o \in Objects /\ Counted(o) /\ held[Reg(t)] = o
  BY <1>0, ReleaseAlive DEF Release, CallInv
<1>2. Cardinality(HoldersIn(held, o)) = 1
  BY <1>0, <1>1 DEF CountInv, Counted, Holders
<1>3. PICK l : HoldersIn(held, o) = {l}
  BY <1>2, HoldersFinite, FS_Singleton
<1>4. l = Reg(t)
  BY <1>1, <1>3, LocFacts DEF HoldersIn
<1> HIDE DEF o
<1>5. ASSUME Holding(u, o) PROVE FALSE
  <2>1. CASE pc[u] = "release" /\ owner[u] = o
    <3>1. held[Reg(u)] = o
      BY <1>0, <2>1 DEF CallInv
    <3>2. Reg(u) = Reg(t)
      BY <1>3, <1>4, <3>1, LocFacts DEF HoldersIn
    <3> QED
      BY <3>2, LocFacts
  <2>2. ASSUME NEW m \in OwnRoots(u), held[m] = o PROVE FALSE
    <3>1. m = Reg(t)
      BY <1>3, <1>4, <2>2, LocFacts DEF HoldersIn
    <3> QED
      BY <2>2, <3>1, RootsApart
  <2> QED
    BY <1>5, <2>1, <2>2 DEF Holding
<1> QED
  BY <1>0, <1>1, <1>5 DEF AccessedInv, o

(* A shared owner stays shared and alive while some access of its payload   *)
(* is not ordered before the drop; the last release orders them all.        *)
LEMMA PendingStep ==
  ASSUME OwnerInv, OrderInv, NEW t \in Threads, ThreadNext(t)
  PROVE  PendingInv'
<1>0. /\ TypeOK /\ CallInv /\ CountInv /\ CustodyInv /\ PendingInv
      /\ count \in [Objects -> Nat] /\ NULL \notin Objects
  BY CountFacts, OwnerConstants DEF OwnerInv, OrderInv, TypeOK
<1>1. ASSUME access' = access,
             \A o \in Objects : kind[o] = "shared" /\ count[o] > 0
                                  => kind'[o] = "shared" /\ count'[o] > 0
      PROVE  PendingInv'
  BY <1>0, <1>1 DEF PendingInv
<1>2. ASSUME access' = access, kind' = kind, count' = count PROVE PendingInv'
  BY <1>1, <1>2
<1>3. ASSUME NEW l \in RootLocs, NEW o \in Objects, NEW k \in {"local", "shared"},
             Alloc(t, l, o, k)
      PROVE  PendingInv'
  BY <1>0, <1>1, <1>3 DEF Alloc, TypeOK
<1>4. ASSUME access' = access, kind' = kind, owner[t] \in Objects,
             count' = [count EXCEPT ![owner[t]] = count[owner[t]] + 1]
      PROVE  PendingInv'
  <2>1. \A o \in Objects : count[o] > 0 => count'[o] > 0
    BY <1>0, <1>4
  <2> QED
    BY <1>1, <1>4, <2>1
<1>5. CASE RetainLocal(t)
  <2>1. owner[t] \in Objects
    BY <1>0, <1>5 DEF RetainLocal, CallInv, TypeOK, ObjectOrNull
  <2>2. CASE count' = count
    BY <1>2, <1>5, <2>2 DEF RetainLocal
  <2>3. CASE count' = [count EXCEPT ![owner[t]] = count[owner[t]] + 1]
    BY <1>4, <1>5, <2>1, <2>3 DEF RetainLocal
  <2> QED
    BY <1>5, <2>2, <2>3 DEF RetainLocal
<1>6. CASE RetainCas(t)
  <2>1. owner[t] \in Objects /\ expected[t] = count[owner[t]]
    BY <1>0, <1>6 DEF RetainCas, CallInv, TypeOK, ObjectOrNull
  <2> QED
    BY <1>4, <1>6, <2>1 DEF RetainCas
<1>7. CASE Release(t)
  <2> DEFINE o == owner[t]
             row == Ordered(access[o], t, IsLast(count[o]))
  <2>1. o \in Objects /\ Counted(o) /\ count[o] > 0 /\ kind' = kind
    BY <1>7, ReleaseAlive DEF Release
  <2>2. count' = [count EXCEPT ![o] = count[o] - 1]
    <3>1. Decrement(count[o]) = count[o] - 1
      BY <2>1 DEF Decrement
    <3> QED
      BY <1>7, <3>1 DEF Release
  <2>3. access' = [access EXCEPT ![o] = row]
    BY <1>7 DEF Release
  <2>4. access'[o] = row
    BY <1>0, <2>1, <2>3 DEF TypeOK
  <2>5. access[o] \in [Threads -> {"none", "accessed", "released"}]
    BY <1>0, <2>1 DEF TypeOK
  <2>6. CASE count[o] = 1
    <3>1. \A u \in Threads \ {t} : access[o][u] # "accessed"
      BY <1>7, <2>6, LastHolder
    <3>2. \A u \in Threads : row[u] = "none"
      BY <2>5, <2>6, <3>1 DEF Ordered, IsLast
    <3> HIDE DEF row
    <3>3. ASSUME NEW p \in Objects, NEW u \in Threads, access'[p][u] # "none"
          PROVE  kind'[p] = "shared" /\ count'[p] > 0
      <4>1. p # o
        BY <2>4, <3>2, <3>3
      <4>2. access'[p] = access[p] /\ count'[p] = count[p]
        BY <1>0, <2>2, <2>3, <4>1 DEF TypeOK
      <4> QED
        BY <1>0, <2>1, <3>3, <4>2 DEF PendingInv
    <3> QED
      BY <3>3 DEF PendingInv
  <2>7. CASE count[o] # 1
    <3>1. \A u \in Threads : row[u] # "none" => access[o][u] # "none"
      BY <2>5, <2>7 DEF Ordered, IsLast
    <3> HIDE DEF row
    <3>2. ASSUME NEW p \in Objects, NEW u \in Threads, access'[p][u] # "none"
          PROVE  kind'[p] = "shared" /\ count'[p] > 0
      <4>1. CASE p = o
        <5>1. kind[o] = "shared"
          BY <1>0, <2>1, <2>4, <3>1, <3>2, <4>1 DEF PendingInv
        <5>2. count'[o] = count[o] - 1 /\ count[o] \in Nat
          BY <1>0, <2>1, <2>2
        <5>3. count'[o] > 0
          BY <2>1, <2>7, <5>2
        <5> QED
          BY <2>1, <4>1, <5>1, <5>3
      <4>2. CASE p # o
        <5>1. access'[p] = access[p] /\ count'[p] = count[p]
          BY <1>0, <2>2, <2>3, <4>2 DEF TypeOK
        <5> QED
          BY <1>0, <2>1, <3>2, <5>1 DEF PendingInv
      <4> QED
        BY <4>1, <4>2
    <3> QED
      BY <3>2 DEF PendingInv
  <2> QED
    BY <2>6, <2>7
<1>8. CASE Free(t)
  <2>1. dead[t] \in Objects
    BY <1>0, <1>8 DEF Free, CallInv, TypeOK, ObjectOrNull
  <2>2. \A u \in Threads : access'[dead[t]][u] = "none"
    BY <1>0, <1>8, <2>1 DEF Free, TypeOK
  <2>3. \A p \in Objects \ {dead[t]} : access'[p] = access[p] /\ kind'[p] = kind[p]
    BY <1>0, <1>8 DEF Free, TypeOK
  <2>4. count' = count
    BY <1>8 DEF Free
  <2> QED
    BY <1>0, <2>2, <2>3, <2>4 DEF PendingInv
<1>9. ASSUME NEW o \in Objects, Access(t, o) PROVE PendingInv'
  <2>1. PICK l \in OwnRoots(t) : held[l] = o
    BY <1>9 DEF Access
  <2>2. l \in HoldersIn(held, o)
    BY <2>1, LocFacts DEF HoldersIn
  <2>3. kind[o] = "shared"
    BY <1>9 DEF Access
  <2>4. count[o] > 0
    BY <1>0, <2>2, <2>3, HoldersFinite DEF CountInv, Holders
  <2>5. access' = [access EXCEPT ![o][t] = "accessed"] /\ UNCHANGED <<kind, count>>
    BY <1>9 DEF Access
  <2>6. \A p \in Objects, u \in Threads :
          access'[p][u] # "none" => access[p][u] # "none" \/ p = o
    BY <1>0, <2>5 DEF TypeOK
  <2> QED
    BY <1>0, <2>3, <2>4, <2>5, <2>6 DEF PendingInv
<1>10. ASSUME ~UNCHANGED <<access, kind, count>>, ~RetainLocal(t), ~RetainCas(t),
              ~Release(t), ~Free(t), \A o \in Objects : ~Access(t, o)
       PROVE  \E l \in RootLocs, o \in Objects, k \in {"local", "shared"} :
                Alloc(t, l, o, k)
  BY <1>10 DEF ThreadNext, Step, Replace, DrainBegin, RetainImmortal, RetainLoad,
     RetainCasFails, Swap, ReleaseNothing, Enqueue, DrainPop, DropField, DrainEnd
<1> QED
  BY <1>2, <1>3, <1>5, <1>6, <1>7, <1>8, <1>9, <1>10

(* Every step of every thread keeps the accesses in order.                  *)
LEMMA OrderStep == OwnerInv /\ OrderInv /\ [Next]_vars => OrderInv'
<1>1. ASSUME OwnerInv, OrderInv, NEW t \in Threads, ThreadNext(t) PROVE OrderInv'
  BY <1>1, SlotStep, AccessedStep, PendingStep DEF OrderInv
<1>2. ASSUME OrderInv, UNCHANGED vars PROVE OrderInv'
  BY <1>2 DEF vars, OrderInv, SlotInv, AccessedInv, PendingInv, Holding, OwnRoots
<1> QED
  BY <1>1, <1>2 DEF Next

(* A drain takes a payload apart, and frees it, only after every access by  *)
(* another thread: each is ordered before the drop by that thread's release *)
(* and the acquire fence of the last one (abc_owner_release, owner.c:40).   *)
THEOREM DropsOrdered == Spec => []DropOrdered
<1>1. Init => OrderInv
  BY OwnerConstants DEF Init, OrderInv, SlotInv, AccessedInv, PendingInv
<1>2. OwnerInv /\ OrderInv => DropOrdered
  <2> SUFFICES ASSUME OwnerInv, OrderInv, NEW t \in Threads, pc[t] = "drop",
                      NEW u \in Threads \ {t}
               PROVE  access[dead[t]][u] = "none"
    BY DEF DropOrdered
  <2>1. dead[t] \in Objects
    BY DEF OwnerInv, CallInv, TypeOK, ObjectOrNull
  <2>2. Counted(dead[t]) /\ count[dead[t]] = 0
    BY <2>1 DEF OwnerInv, CustodyInv
  <2> QED
    BY <2>1, <2>2 DEF OrderInv, PendingInv
<1> QED
  BY <1>1, <1>2, OrderStep, InvariantHolds, PTL DEF Spec

-----------------------------------------------------------------------------
(* That the whole list is found from its head needs a third layer: every    *)
(* queued owner but the head is linked from another one of its queue, only  *)
(* the tail has no link, and no set of owners is linked in a circle.        *)
LinkedInv ==
  /\ \A o \in Objects : queuedBy[o] # NULL /\ o # head[queuedBy[o]] =>
       \E p \in Objects : queuedBy[p] = queuedBy[o] /\ next[p] = o
  /\ \A o \in Objects : queuedBy[o] # NULL /\ next[o] = NULL => o = tail[queuedBy[o]]

OpenInv ==
  \A S \in SUBSET {o \in Objects : queuedBy[o] # NULL} :
    S # {} => \E o \in S : \A p \in S : next[p] # o

ChainInv == LinkedInv /\ OpenInv

(* A popped owner without a link was alone in its queue.                    *)
LEMMA LastPopped ==
  ASSUME OwnerInv, ChainInv, NEW t \in Threads, NEW h \in Objects, h = head[t], next[h] = NULL,
         NEW o \in Objects, queuedBy[o] = t
  PROVE  o = h
<1> SUFFICES ASSUME o # h PROVE FALSE
  OBVIOUS
<1> DEFINE S == {p \in Objects : queuedBy[p] = t /\ p # h}
<1>1. t # NULL
  BY OwnerConstants
<1>2. o \in S /\ S \in SUBSET {p \in Objects : queuedBy[p] # NULL}
  BY <1>1
<1>3. PICK q \in S : \A p \in S : next[p] # q
  BY <1>2 DEF ChainInv, OpenInv
<1>4. PICK p \in Objects : queuedBy[p] = t /\ next[p] = q
  BY <1>1, <1>3 DEF ChainInv, LinkedInv
<1>5. p = h
  BY <1>3, <1>4
<1>6. NULL \notin Objects
  BY OwnerConstants
<1> QED
  BY <1>3, <1>4, <1>5, <1>6

(* Only the append and the pop touch the links of what is queued.           *)
LEMMA ChainStep ==
  ASSUME OwnerInv, ChainInv, NEW t \in Threads, ThreadNext(t)
  PROVE  ChainInv'
<1>0. TypeOK /\ CallInv /\ CountInv /\ CustodyInv /\ ListInv /\ LinkedInv /\ OpenInv /\ NULL \notin Objects \cup Threads
  BY OwnerConstants DEF OwnerInv, ChainInv
<1>1. ASSUME NEW l \in RootLocs, NEW o \in Objects, NEW k \in {"local", "shared"},
             Alloc(t, l, o, k)
      PROVE  ChainInv'
  <2>1. queuedBy[o] = NULL
    BY <1>0, <1>1 DEF Alloc, CustodyInv, Counted
  <2>2. next' = [next EXCEPT ![o] = NULL] /\ UNCHANGED <<head, tail, queuedBy>>
    BY <1>1 DEF Alloc
  <2>3. \A p \in Objects : queuedBy[p] # NULL => next'[p] = next[p]
    BY <1>0, <2>1, <2>2 DEF TypeOK
  <2>4. LinkedInv'
    BY <1>0, <2>1, <2>2, <2>3 DEF LinkedInv, TypeOK
  <2>5. OpenInv'
    BY <1>0, <2>2, <2>3 DEF OpenInv
  <2> QED
    BY <2>4, <2>5 DEF ChainInv
<1>2. CASE UNCHANGED queue
  BY <1>0, <1>2 DEF queue, ChainInv, LinkedInv, OpenInv
<1>3. CASE Enqueue(t)
  <2> DEFINE o == owner[t]
  <2>1. o \in Objects /\ queuedBy[o] = NULL
    BY <1>0, <1>3 DEF Enqueue, CallInv, TypeOK, ObjectOrNull, CustodyInv, Dying
  <2>2. /\ queuedBy' = [queuedBy EXCEPT ![o] = t] /\ tail' = [tail EXCEPT ![t] = o]
        /\ head' = IF tail[t] = NULL THEN [head EXCEPT ![t] = o] ELSE head
    BY <1>3 DEF Enqueue
  <2>3. tail[t] # o /\ tail[t] \in ObjectOrNull
    BY <1>0, <2>1 DEF ListInv, TypeOK
  <2>4. \A p \in Objects : next'[p] = IF p = o THEN NULL
                                       ELSE IF p = tail[t] THEN o ELSE next[p]
    BY <1>0, <1>3, <2>3 DEF Enqueue, TypeOK, ObjectOrNull
  <2> HIDE DEF o
  <2>5. \A p \in Objects : queuedBy'[p] = IF p = o THEN t ELSE queuedBy[p]
    BY <1>0, <2>1, <2>2 DEF TypeOK
  <2>6. \A u \in Threads : tail'[u] = IF u = t THEN o ELSE tail[u]
    BY <1>0, <2>2 DEF TypeOK
  <2>7. \A u \in Threads : head'[u] = IF u = t /\ tail[t] = NULL THEN o ELSE head[u]
    BY <1>0, <2>2 DEF TypeOK
  <2>8. ASSUME NEW q \in Objects, queuedBy'[q] # NULL, q # head'[queuedBy'[q]]
        PROVE  \E p \in Objects : queuedBy'[p] = queuedBy'[q] /\ next'[p] = q
    <3>1. CASE q = o
      <4>1. queuedBy'[q] = t /\ tail[t] # NULL
        BY <1>0, <2>1, <2>5, <2>7, <2>8, <3>1
      <4>2. tail[t] \in Objects /\ queuedBy[tail[t]] = t
        BY <1>0, <2>3, <4>1 DEF ListInv, ObjectOrNull
      <4> QED
        BY <2>3, <2>4, <2>5, <3>1, <4>1, <4>2
    <3>2. CASE q # o
      <4>1. queuedBy[q] # NULL /\ queuedBy'[q] = queuedBy[q] /\ queuedBy[q] \in Threads
        BY <1>0, <2>5, <2>8, <3>2 DEF TypeOK
      <4>2. q # head[queuedBy[q]]
        <5>1. CASE queuedBy[q] = t /\ tail[t] = NULL
          <6>1. head[t] = NULL
            BY <1>0, <5>1 DEF ListInv
          <6> QED
            BY <1>0, <5>1, <6>1
        <5>2. CASE ~(queuedBy[q] = t /\ tail[t] = NULL)
          BY <2>7, <2>8, <4>1, <5>2
        <5> QED
          BY <5>1, <5>2
      <4>3. PICK p \in Objects : queuedBy[p] = queuedBy[q] /\ next[p] = q
        BY <1>0, <4>1, <4>2 DEF LinkedInv
      <4>4. p # o
        BY <2>1, <4>1, <4>3
      <4>5. p # tail[t]
        BY <1>0, <4>3 DEF ListInv
      <4> QED
        BY <2>4, <2>5, <4>1, <4>3, <4>4, <4>5
    <3> QED
      BY <3>1, <3>2
  <2>9. ASSUME NEW q \in Objects, queuedBy'[q] # NULL, next'[q] = NULL
        PROVE  q = tail'[queuedBy'[q]]
    <3>1. CASE q = o
      BY <2>5, <2>6, <3>1
    <3>2. CASE q # o
      <4>1. queuedBy[q] # NULL /\ queuedBy'[q] = queuedBy[q] /\ queuedBy[q] \in Threads
        BY <1>0, <2>5, <2>9, <3>2 DEF TypeOK
      <4>2. q # tail[t] /\ next[q] = NULL
        BY <1>0, <2>1, <2>4, <2>9, <3>2
      <4>3. q = tail[queuedBy[q]]
        BY <1>0, <4>1, <4>2 DEF LinkedInv
      <4> QED
        BY <2>6, <4>1, <4>2, <4>3
    <3> QED
      BY <3>1, <3>2
  <2>10. LinkedInv'
    BY <2>8, <2>9 DEF LinkedInv
  <2>11. ASSUME NEW S \in SUBSET {q \in Objects : queuedBy'[q] # NULL}, S # {}
         PROVE  \E q \in S : \A p \in S : next'[p] # q
    <3> DEFINE R == S \ {o}
    <3>1. CASE R = {}
      <4>1. \A p \in S : p = o
        BY <3>1
      <4>2. next'[o] = NULL
        BY <2>1, <2>4
      <4> QED
        BY <1>0, <2>1, <2>11, <4>1, <4>2
    <3>2. CASE R # {}
      <4>1. R \in SUBSET {q \in Objects : queuedBy[q] # NULL}
        BY <2>5, <2>11
      <4>2. PICK q \in R : \A p \in R : next[p] # q
        BY <1>0, <3>2, <4>1 DEF OpenInv
      <4>3. ASSUME NEW p \in S PROVE next'[p] # q
        <5>1. CASE p = o
          BY <1>0, <2>1, <2>4, <2>11, <4>2, <5>1
        <5>2. CASE p # o
          BY <2>4, <2>11, <4>2, <5>2
        <5> QED
          BY <5>1, <5>2
      <4> QED
        BY <4>2, <4>3
    <3> QED
      BY <3>1, <3>2
  <2> QED
    BY <2>10, <2>11 DEF ChainInv, OpenInv
<1>4. CASE DrainPop(t)
  <2> DEFINE h == head[t]
             n == next[h]
  <2>1. /\ h \in Objects /\ queuedBy[h] = t /\ n \in ObjectOrNull /\ tail[t] # NULL
    BY <1>0, <1>4 DEF DrainPop, ListInv, TypeOK, ObjectOrNull
  <2>2. /\ queuedBy' = [queuedBy EXCEPT ![h] = NULL] /\ next' = next
        /\ head' = [head EXCEPT ![t] = n]
        /\ tail' = [tail EXCEPT ![t] = IF n = NULL THEN NULL ELSE tail[t]]
    BY <1>4 DEF DrainPop, HeadAfterPop, TailAfterPop
  <2>3. \A q \in Objects : n = NULL /\ queuedBy[q] = t => q = h
    BY <2>1, LastPopped
  <2>4. n # NULL => n # h
    BY <1>0, <2>1 DEF ListInv, ObjectOrNull
  <2> HIDE DEF h
  <2>5. \A p \in Objects : queuedBy'[p] = IF p = h THEN NULL ELSE queuedBy[p]
    BY <1>0, <2>1, <2>2 DEF TypeOK
  <2>6. \A u \in Threads : tail'[u] = IF u = t THEN (IF n = NULL THEN NULL ELSE tail[t]) ELSE tail[u]
    BY <1>0, <2>2 DEF TypeOK
  <2>7. \A u \in Threads : head'[u] = IF u = t THEN n ELSE head[u]
    BY <1>0, <2>2 DEF TypeOK
  <2>8. ASSUME NEW q \in Objects, queuedBy'[q] # NULL
        PROVE  q # h /\ queuedBy[q] # NULL /\ queuedBy'[q] = queuedBy[q] /\ queuedBy[q] \in Threads
    BY <1>0, <2>5, <2>8 DEF TypeOK
  <2>9. ASSUME NEW q \in Objects, queuedBy'[q] # NULL, q # head'[queuedBy'[q]]
        PROVE  \E p \in Objects : queuedBy'[p] = queuedBy'[q] /\ next'[p] = q
    <3>1. q # head[queuedBy[q]]
      BY <2>7, <2>8, <2>9 DEF h
    <3>2. PICK p \in Objects : queuedBy[p] = queuedBy[q] /\ next[p] = q
      BY <1>0, <2>8, <2>9, <3>1 DEF LinkedInv
    <3>3. CASE p = h
      <4>1. queuedBy[q] = t /\ q = n
        BY <2>1, <3>2, <3>3
      <4> QED
        BY <2>7, <2>8, <2>9, <4>1
    <3>4. CASE p # h
      BY <2>2, <2>5, <2>8, <2>9, <3>2, <3>4
    <3> QED
      BY <3>3, <3>4
  <2>10. ASSUME NEW q \in Objects, queuedBy'[q] # NULL, next'[q] = NULL
         PROVE  q = tail'[queuedBy'[q]]
    <3>1. q = tail[queuedBy[q]]
      BY <1>0, <2>2, <2>8, <2>10 DEF LinkedInv
    <3>2. queuedBy[q] = t => n # NULL
      BY <2>3, <2>8, <2>10
    <3> QED
      BY <2>6, <2>8, <2>10, <3>1, <3>2
  <2>11. LinkedInv'
    BY <2>9, <2>10 DEF LinkedInv
  <2>12. OpenInv'
    BY <1>0, <2>2, <2>5 DEF OpenInv
  <2> QED
    BY <2>11, <2>12 DEF ChainInv
<1>5. ASSUME ~UNCHANGED queue, ~Enqueue(t), ~DrainPop(t)
      PROVE  \E l \in RootLocs, o \in Objects, k \in {"local", "shared"} : Alloc(t, l, o, k)
  BY <1>5 DEF ThreadNext, Step, Replace, DrainBegin, Access, RetainImmortal, RetainLocal,
     RetainLoad, RetainCas, RetainCasFails, Swap, ReleaseNothing, Release, DropField, Free,
     DrainEnd
<1> QED
  BY <1>1, <1>2, <1>3, <1>4, <1>5

(* A set of numbers has a least one; induction below is by the least number *)
(* at which a statement would fail.                                         *)
LEMMA LeastNumber ==
  ASSUME NEW T, T \subseteq Nat, T # {} PROVE \E x \in T : \A y \in T : x <= y
<1>1. IsWellFoundedOn(OpToRel(<, Nat), Nat)
  BY NatLessThanWellFounded
<1>2. PICK x \in T : \A y \in T : ~(<<y, x>> \in OpToRel(<, Nat))
  BY <1>1, WFMin
<1>3. \A y \in T : ~(y < x)
  BY <1>2 DEF OpToRel
<1> QED BY <1>3

(* The owners linked from those of S, and S.                                *)
Linked(S) == S \cup ({next[o] : o \in S} \ {NULL})

\* g finds in n steps, from S, what is linked within as many.
GrowsTo(g, S, k) == g = [n \in 0 .. k |-> IF n = 0 THEN S ELSE g[n-1] \cup ({next[o] : o \in g[n-1]} \ {NULL})]

LEMMA GrowsToExists == ASSUME NEW S, NEW k \in Nat PROVE \E g : GrowsTo(g, S, k)
<1> DEFINE T == {m \in Nat : ~\E g : GrowsTo(g, S, m)}
<1> SUFFICES ASSUME T # {} PROVE FALSE
  OBVIOUS
<1>1. PICK m \in T : \A y \in T : m <= y
  BY LeastNumber
<1>2. CASE m = 0
  <2>1. GrowsTo([n \in 0 .. 0 |-> S], S, 0)
    BY DEF GrowsTo
  <2> QED
    BY <1>1, <1>2, <2>1
<1>3. CASE m # 0
  <2>1. m - 1 \in Nat /\ ~(m <= m - 1)
    BY <1>1, <1>3
  <2>2. m - 1 \notin T
    BY <1>1, <2>1
  <2>3. PICK g : GrowsTo(g, S, m - 1)
    BY <2>1, <2>2
  <2> DEFINE h == [n \in 0 .. m |-> IF n = m THEN Linked(g[m-1]) ELSE g[n]]
  <2>4. ASSUME NEW n \in 0 .. m
        PROVE  h[n] = IF n = 0 THEN S ELSE h[n-1] \cup ({next[o] : o \in h[n-1]} \ {NULL})
    <3>1. CASE n = m
      BY <1>1, <1>3, <2>1, <3>1 DEF Linked
    <3>2. CASE n # m
      <4>1. n \in 0 .. m - 1
        BY <1>1, <3>2
      <4>2. g[n] = IF n = 0 THEN S ELSE g[n-1] \cup ({next[o] : o \in g[n-1]} \ {NULL})
        BY <2>3, <4>1 DEF GrowsTo
      <4>3. n # 0 => n - 1 \in 0 .. m /\ n - 1 # m
        BY <1>1, <4>1
      <4> QED
        BY <3>2, <4>2, <4>3
    <3> QED
      BY <3>1, <3>2
  <2>5. GrowsTo(h, S, m)
    BY <2>4 DEF GrowsTo
  <2> QED
    BY <1>1, <2>5
<1> QED
  BY <1>2, <1>3

Closed(X) == \A o \in X : next[o] \in X \cup {NULL}

(* After as many steps as there are owners nothing more is found: a step    *)
(* that finds something adds an owner.                                      *)
LEMMA GrownIsClosed ==
  ASSUME NEW R \in SUBSET Objects, Closed(R), NEW S \in SUBSET R,
         NEW g, GrowsTo(g, S, Cardinality(Objects))
  PROVE  /\ g[Cardinality(Objects)] \in SUBSET R
         /\ S \subseteq g[Cardinality(Objects)]
         /\ Closed(g[Cardinality(Objects)])
<1> DEFINE N == Cardinality(Objects)
           Good(n) == /\ g[n] \in SUBSET R
                      /\ S \subseteq g[n]
                      /\ Closed(g[n]) \/ Cardinality(g[n]) >= n + 1
           T == {m \in 0 .. N : ~Good(m)}
<1>1. N \in Nat
  BY OwnerConstants, FS_CardinalityType
<1>2. \A n \in 0 .. N : g[n] = IF n = 0 THEN S ELSE Linked(g[n-1])
  BY DEF GrowsTo, Linked
<1>3. \A X \in SUBSET R : IsFiniteSet(X) /\ Cardinality(X) \in Nat /\ Cardinality(X) <= N
  BY OwnerConstants, FS_Subset, FS_CardinalityType
<1> HIDE DEF N
<1>4. T = {}
  <2> SUFFICES ASSUME T # {} PROVE FALSE
    OBVIOUS
  <2>1. T \subseteq Nat
    BY <1>1
  <2>2. PICK m \in T : \A y \in T : m <= y
    BY <2>1, LeastNumber
  <2>3. CASE m = 0
    <3>1. g[m] = S
      BY <1>1, <1>2, <2>3
    <3>2. CASE S = {}
      <4>1. Good(m)
        BY <3>1, <3>2 DEF Closed
      <4> QED
        BY <2>2, <4>1
    <3>3. CASE S # {}
      <4>1. Cardinality(S) # 0
        BY <1>3, <3>3, FS_EmptySet
      <4>2. Cardinality(S) >= m + 1
        BY <1>3, <2>3, <4>1
      <4> QED
        BY <2>2, <3>1, <4>2
    <3> QED
      BY <3>2, <3>3
  <2>4. CASE m # 0
    <3>1. m \in 0 .. N /\ m - 1 \in 0 .. N /\ ~(m <= m - 1)
      BY <1>1, <2>2, <2>4
    <3>2. Good(m - 1)
      BY <2>2, <3>1
    <3> DEFINE X == g[m - 1]
    <3>3. g[m] = Linked(X) /\ X \in SUBSET R
      BY <1>2, <2>4, <3>1, <3>2
    <3>4. Linked(X) \in SUBSET R /\ X \subseteq Linked(X)
      BY <3>3 DEF Linked, Closed
    <3>5. CASE Closed(X)
      <4>1. Linked(X) = X
        BY <3>5 DEF Closed, Linked
      <4>2. Good(m)
        BY <3>2, <3>3, <3>5, <4>1
      <4> QED
        BY <2>2, <4>2
    <3>6. CASE ~Closed(X)
      <4>1. PICK o \in X : next[o] \notin X \cup {NULL}
        BY <3>6 DEF Closed
      <4>2. next[o] \in Linked(X)
        BY <4>1 DEF Linked
      <4>3. X # Linked(X)
        BY <4>1, <4>2
      <4>4. IsFiniteSet(Linked(X)) /\ Cardinality(Linked(X)) \in Nat /\ Cardinality(X) \in Nat
        BY <1>3, <3>3, <3>4
      <4>5. Cardinality(X) <= Cardinality(Linked(X)) /\ Cardinality(X) # Cardinality(Linked(X))
        BY <3>4, <4>3, <4>4, FS_Subset
      <4>6. Cardinality(X) >= m
        BY <3>1, <3>2, <3>6
      <4>7. Cardinality(Linked(X)) >= m + 1
        BY <3>1, <4>4, <4>5, <4>6
      <4>8. Good(m)
        BY <3>2, <3>3, <3>4, <4>7
      <4> QED
        BY <2>2, <4>8
    <3> QED
      BY <3>5, <3>6
  <2> QED
    BY <2>3, <2>4
<1>5. Good(N)
  BY <1>1, <1>4
<1>6. Closed(g[N])
  <2>1. CASE Cardinality(g[N]) >= N + 1
    BY <1>1, <1>3, <1>5, <2>1
  <2> QED
    BY <1>5, <2>1
<1> QED
  BY <1>5, <1>6 DEF N

(* What is found from the head of a queue is what the queue holds.          *)
LEMMA ListedIsReleased ==
  ASSUME OwnerInv, ChainInv, NEW t \in Threads
  PROVE  Listed(t) = Released(t)
<1> DEFINE S == {head[t]} \ {NULL}
           R == Released(t)
<1>0. TypeOK /\ ListInv /\ LinkedInv /\ OpenInv /\ NULL \notin Objects \cup Threads
  BY OwnerConstants DEF OwnerInv, ChainInv
<1>1. R \in SUBSET Objects /\ S \in SUBSET R
  BY <1>0 DEF Released, ListInv, TypeOK, ObjectOrNull
<1>2. Closed(R)
  BY <1>0 DEF Released, Closed, ListInv, TypeOK, ObjectOrNull
<1>3. PICK g : /\ Listed(t) = g[Cardinality(Objects)]
               /\ GrowsTo(g, S, Cardinality(Objects))
  <2> DEFINE G(g) == g = [n \in 0 .. Cardinality(Objects) |->
                            IF n = 0 THEN {head[t]} \ {NULL}
                                     ELSE g[n-1] \cup ({next[o] : o \in g[n-1]} \ {NULL})]
  <2>1. Listed(t) = (CHOOSE g : G(g))[Cardinality(Objects)]
    BY DEF Listed
  <2>2. \A g : G(g) <=> GrowsTo(g, S, Cardinality(Objects))
    BY DEF GrowsTo
  <2>3. Cardinality(Objects) \in Nat
    BY OwnerConstants, FS_CardinalityType
  <2>4. \E g : G(g)
    BY <2>2, <2>3, GrowsToExists
  <2>5. G(CHOOSE g : G(g))
    BY <2>4
  <2> QED
    BY <2>1, <2>2, <2>5
<1> HIDE DEF R, S
<1>4. /\ g[Cardinality(Objects)] \in SUBSET R
      /\ S \subseteq g[Cardinality(Objects)]
      /\ Closed(g[Cardinality(Objects)])
  BY <1>1, <1>2, <1>3, GrownIsClosed
<1>5. Listed(t) \in SUBSET R /\ S \subseteq Listed(t) /\ Closed(Listed(t))
  BY <1>3, <1>4
<1> USE DEF R, S
<1> DEFINE U == R \ Listed(t)
<1>6. U = {}
  <2> SUFFICES ASSUME U # {} PROVE FALSE
    OBVIOUS
  <2>1. U \in SUBSET {o \in Objects : queuedBy[o] # NULL}
    BY <1>0 DEF Released
  <2>2. PICK o \in U : \A p \in U : next[p] # o
    BY <1>0, <2>1 DEF OpenInv
  <2>3. o \in Objects /\ queuedBy[o] = t /\ o # head[t] /\ o \notin Listed(t)
    BY <1>0, <1>5, <2>2 DEF Released
  <2>4. PICK p \in Objects : queuedBy[p] = t /\ next[p] = o
    BY <1>0, <2>3 DEF LinkedInv
  <2>5. p \in Listed(t)
    BY <2>2, <2>4 DEF Released
  <2>6. o \in Listed(t)
    BY <1>0, <1>5, <2>3, <2>4, <2>5 DEF Closed
  <2> QED
    BY <2>3, <2>6
<1> QED
  BY <1>5, <1>6

(* Following next_dead from the head of a context's queue finds exactly the *)
(* owners that were released into it, in every interleaving; the list ends  *)
(* at tail, so that the next append of abc_owner_release extends it.        *)
THEOREM QueuesWellFormed == Spec => []QueueWellFormed
<1>1. Init => ChainInv
  BY DEF Init, ChainInv, LinkedInv, OpenInv
<1>2. OwnerInv /\ ChainInv /\ [Next]_vars => ChainInv'
  <2>1. ASSUME OwnerInv, ChainInv, NEW t \in Threads, ThreadNext(t) PROVE ChainInv'
    BY <2>1, ChainStep
  <2>2. ASSUME ChainInv, UNCHANGED vars PROVE ChainInv'
    BY <2>2 DEF vars, queue, ChainInv, LinkedInv, OpenInv
  <2> QED
    BY <2>1, <2>2 DEF Next
<1>3. OwnerInv /\ ChainInv => QueueWellFormed
  <2> SUFFICES ASSUME OwnerInv, ChainInv, NEW t \in Threads
               PROVE  /\ Listed(t) = Released(t)
                      /\ head[t] = NULL <=> tail[t] = NULL
                      /\ tail[t] # NULL => tail[t] \in Listed(t) /\ next[tail[t]] = NULL
    BY DEF QueueWellFormed
  <2>1. Listed(t) = Released(t)
    BY ListedIsReleased
  <2>2. head[t] = NULL <=> tail[t] = NULL
    BY DEF OwnerInv, ListInv
  <2>3. tail[t] # NULL => tail[t] \in Released(t) /\ next[tail[t]] = NULL
    BY DEF OwnerInv, ListInv, TypeOK, ObjectOrNull, Released
  <2> QED
    BY <2>1, <2>2, <2>3
<1> QED
  BY <1>1, <1>2, <1>3, InvariantHolds, PTL DEF Spec
=============================================================================
