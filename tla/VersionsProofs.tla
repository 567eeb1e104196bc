---------------------------- MODULE VersionsProofs ----------------------------
(***************************************************************************)
(* The proofs of Versions.  One invariant holds the versions, the tape, the *)
(* version that is being compiled and the thread together: VInv.  Asking    *)
(* for a version and emitting a word keep the parts about the compiler      *)
(* (Good, of which l is the label of a branch that is not bound yet); each  *)
(* action is then a few of these.                                           *)
(***************************************************************************)
EXTENDS Versions, FiniteSetTheorems, SequenceTheorems, WellFoundedInduction, TLAPS

Cell    == [kind : {"const", "reg", "home"}, at : Nat, rest : Nat]
Caller  == [return : Nat, entry : Nat]
Context == [cells : Seq(Cell), cont : Seq(Caller), room : Nat, generic : BOOLEAN]

-----------------------------------------------------------------------------
(* Contexts.                                                                *)

(* y has the cells of x elsewhere.                                          *)
Like(x, y) == /\ y \in Context /\ Len(y.cells) = Len(x.cells) /\ DOMAIN y.cells = DOMAIN x.cells
              /\ y.cont = x.cont /\ y.room = x.room /\ y.generic = x.generic

LEMMA LeastNumber ==
  ASSUME NEW T, T \subseteq Nat, T # {} PROVE \E x \in T : \A y \in T : x <= y
<1>1. IsWellFoundedOn(OpToRel(<, Nat), Nat)
  BY NatLessThanWellFounded
<1>2. PICK x \in T : \A y \in T : ~(<<y, x>> \in OpToRel(<, Nat))
  BY <1>1, WFMin
<1>3. \A y \in T : ~(y < x)
  BY <1>2 DEF OpToRel
<1> QED BY <1>3

LEMMA LowestIn ==
  ASSUME NEW T, T \subseteq Nat, T # {} PROVE Lowest(T) \in T
BY LeastNumber DEF Lowest

LEMMA FreeIsRegister == ASSUME NEW x PROVE Free(x) \in Nat
<1> DEFINE idle == {r \in 0 .. Registers - 1 : Users(x, r) = {}}
           rs   == IF idle # {} THEN idle ELSE 0 .. Registers - 1
<1>1. 0 \in 0 .. Registers - 1
  BY RegistersAssumption
<1>2. rs \subseteq Nat /\ rs # {}
  BY <1>1
<1>3. Free(x) = Lowest(rs)
  BY DEF Free
<1> HIDE DEF rs
<1>4. Lowest(rs) \in rs
  BY <1>2, LowestIn
<1> QED BY <1>2, <1>3, <1>4

LEMMA ContextParts ==
  ASSUME NEW x \in Context
  PROVE  /\ x.cells \in Seq(Cell) /\ x.cont \in Seq(Caller) /\ x.room \in Nat /\ x.generic \in BOOLEAN
         /\ Len(x.cells) \in Nat /\ DOMAIN x.cells = 1 .. Len(x.cells)
         /\ \A i \in DOMAIN x.cells : x.cells[i] \in Cell
BY DEF Context

LEMMA CellsOf ==
  /\ Home \in Cell /\ Home.kind = "home" /\ Home.rest = WasHome
  /\ \A n \in Nat : Const(n) \in Cell /\ Const(n).kind = "const"
  /\ \A r \in Nat : Reg(r) \in Cell /\ Reg(r).kind = "reg" /\ Reg(r).rest = Nothing
  /\ \A d \in Cell, r \in Nat : InRegister(d, r) \in Cell /\ InRegister(d, r).kind = "reg"
BY DEF Home, Const, Reg, InRegister, Cell, WasHome, Nothing

(* A context whose cells are replaced one by one.                           *)
LEMMA Replaced ==
  ASSUME NEW x \in Context, NEW u, u = [i \in DOMAIN x.cells |-> u[i]],
         \A i \in DOMAIN x.cells : u[i] \in Cell,
         NEW y, y = [x EXCEPT !.cells = u]
  PROVE  Like(x, y) /\ y.cells = u
<1>1. u \in Seq(Cell) /\ Len(u) = Len(x.cells) /\ DOMAIN u = DOMAIN x.cells
  <2>1. u \in [1 .. Len(x.cells) -> Cell] /\ Len(x.cells) \in Nat
    BY ContextParts
  <2> QED BY <2>1, ContextParts
<1> QED
  BY <1>1, ContextParts DEF Like, Context

LEMMA SpilledCells ==
  ASSUME NEW x \in Context, NEW r
  PROVE  /\ Like(x, Spilled(x, r))
         /\ \A i \in DOMAIN x.cells : Spilled(x, r).cells[i] \in {x.cells[i], Home}
<1> DEFINE u == [i \in DOMAIN x.cells |-> IF i \in Users(x, r) THEN Home ELSE x.cells[i]]
<1>1. \A i \in DOMAIN x.cells : u[i] \in Cell /\ u[i] \in {x.cells[i], Home}
  BY ContextParts, CellsOf
<1>2. u = [i \in DOMAIN x.cells |-> u[i]]
  OBVIOUS
<1>3. Spilled(x, r) = [x EXCEPT !.cells = u]
  BY DEF Spilled
<1> HIDE DEF u
<1>4. Like(x, Spilled(x, r)) /\ Spilled(x, r).cells = u
  BY <1>1, <1>2, <1>3, Replaced
<1> QED BY <1>1, <1>4

LEMMA SetCells ==
  ASSUME NEW x \in Context, NEW i, NEW d \in Cell
  PROVE  /\ Like(x, SetCell(x, i, d))
         /\ \A n \in DOMAIN x.cells : SetCell(x, i, d).cells[n] = IF n = i THEN d ELSE x.cells[n]
<1> DEFINE u == [n \in DOMAIN x.cells |-> IF n = i THEN d ELSE x.cells[n]]
<1>1. \A n \in DOMAIN x.cells : u[n] \in Cell /\ u[n] = IF n = i THEN d ELSE x.cells[n]
  BY ContextParts
<1>2. u = [n \in DOMAIN x.cells |-> u[n]]
  OBVIOUS
<1>3. SetCell(x, i, d) = [x EXCEPT !.cells = u]
  BY DEF SetCell
<1> HIDE DEF u
<1>4. Like(x, SetCell(x, i, d)) /\ SetCell(x, i, d).cells = u
  BY <1>1, <1>2, <1>3, Replaced
<1> QED BY <1>1, <1>4

LEMMA LikeTwice ==
  ASSUME NEW x, NEW y, NEW z, Like(x, y), Like(y, z) PROVE Like(x, z)
BY DEF Like

(* No cell becomes a constant by being brought into a register.             *)
LEMMA MaterializedCells ==
  ASSUME NEW x \in Context, NEW i \in DOMAIN x.cells
  PROVE  /\ Like(x, Materialized(x, i))
         /\ \A n \in DOMAIN x.cells \ {i} : Materialized(x, i).cells[n] \in {x.cells[n], Home}
<1>1. CASE x.cells[i].kind = "reg"
  BY <1>1 DEF Materialized, Like
<1>2. CASE x.cells[i].kind # "reg"
  <2> DEFINE s == Spilled(x, Free(x))
             d == InRegister(x.cells[i], Free(x))
  <2>1. Like(x, s) /\ \A n \in DOMAIN x.cells : s.cells[n] \in {x.cells[n], Home}
    BY SpilledCells
  <2>2. d \in Cell
    BY ContextParts, FreeIsRegister, CellsOf
  <2>3. Materialized(x, i) = SetCell(s, i, d)
    BY <1>2 DEF Materialized
  <2> HIDE DEF s, d
  <2>4. s \in Context
    BY <2>1 DEF Like
  <2>5. /\ Like(s, SetCell(s, i, d))
        /\ \A n \in DOMAIN s.cells : SetCell(s, i, d).cells[n] = IF n = i THEN d ELSE s.cells[n]
    BY <2>2, <2>4, SetCells
  <2>6. Like(x, SetCell(s, i, d))
    BY <2>1, <2>5, LikeTwice
  <2>7. DOMAIN s.cells = DOMAIN x.cells
    BY <2>1 DEF Like
  <2> QED BY <2>1, <2>3, <2>5, <2>6, <2>7
<1> QED BY <1>1, <1>2

(* What is left of a constant on a backedge.                                *)
Told(d) == d.kind # "const" /\ d.rest \in {Nothing, WasHome}

LEMMA ForgottenCells ==
  ASSUME NEW x \in Context, NEW i \in DOMAIN x.cells
  PROVE  /\ Like(x, Forgotten(x, i)) /\ Told(Forgotten(x, i).cells[i])
         /\ \A n \in DOMAIN x.cells \ {i} : Forgotten(x, i).cells[n] = x.cells[n] \/ Told(Forgotten(x, i).cells[n])
<1> DEFINE m == Materialized(x, i)
           d == Reg(Free(x))
<1>1. Like(x, m) /\ \A n \in DOMAIN x.cells \ {i} : m.cells[n] \in {x.cells[n], Home}
  BY MaterializedCells
<1>2. d \in Cell /\ Told(d) /\ Told(Home)
  BY FreeIsRegister, CellsOf DEF Told
<1>3. Forgotten(x, i) = SetCell(m, i, d)
  BY DEF Forgotten
<1> HIDE DEF m, d
<1>4. m \in Context /\ DOMAIN m.cells = DOMAIN x.cells
  BY <1>1 DEF Like
<1>5. /\ Like(m, SetCell(m, i, d))
      /\ \A n \in DOMAIN m.cells : SetCell(m, i, d).cells[n] = IF n = i THEN d ELSE m.cells[n]
  BY <1>2, <1>4, SetCells
<1>6. Like(x, SetCell(m, i, d))
  BY <1>1, <1>5, LikeTwice
<1> QED BY <1>1, <1>2, <1>3, <1>4, <1>5, <1>6

-----------------------------------------------------------------------------
(* Weakened is a function defined by recursion on the cells.                *)
Walk(g, x, k) ==
  g = [i \in 0 .. k |-> IF i = 0 THEN x
                        ELSE IF g[i - 1].cells[i].kind = "const" THEN Forgotten(g[i - 1], i) ELSE g[i - 1]]

LEMMA WalkExists == ASSUME NEW x, NEW k \in Nat PROVE \E g : Walk(g, x, k)
<1> DEFINE T == {m \in Nat : ~\E g : Walk(g, x, m)}
<1> SUFFICES ASSUME T # {} PROVE FALSE
  OBVIOUS
<1>1. PICK m \in T : \A y \in T : m <= y
  BY LeastNumber
<1>2. CASE m = 0
  <2>1. Walk([n \in 0 .. 0 |-> x], x, 0)
    BY DEF Walk
  <2> QED BY <1>1, <1>2, <2>1
<1>3. CASE m # 0
  <2>1. m - 1 \in Nat /\ ~(m <= m - 1)
    BY <1>1, <1>3
  <2>2. m - 1 \notin T
    BY <1>1, <2>1
  <2>3. PICK g : Walk(g, x, m - 1)
    BY <2>1, <2>2
  <2> DEFINE Step(y, n) == IF y.cells[n].kind = "const" THEN Forgotten(y, n) ELSE y
             h == [n \in 0 .. m |-> IF n = m THEN Step(g[m - 1], m) ELSE g[n]]
  <2>4. \A n \in 0 .. m - 1 : g[n] = IF n = 0 THEN x ELSE Step(g[n - 1], n)
    BY <2>3 DEF Walk
  <2> HIDE DEF Step
  <2>5. ASSUME NEW n \in 0 .. m PROVE h[n] = IF n = 0 THEN x ELSE Step(h[n - 1], n)
    <3>1. CASE n = m
      BY <1>1, <1>3, <2>1, <3>1
    <3>2. CASE n # m
      <4>1. n \in 0 .. m - 1
        BY <1>1, <3>2
      <4>2. n # 0 => n - 1 \in 0 .. m /\ n - 1 # m
        BY <1>1, <4>1
      <4> QED
        BY <2>4, <3>2, <4>1, <4>2
    <3> QED BY <3>1, <3>2
  <2>6. Walk(h, x, m)
    <3>1. h = [n \in 0 .. m |-> IF n = 0 THEN x ELSE Step(h[n - 1], n)]
      BY <2>5
    <3> QED BY <3>1 DEF Walk, Step
  <2> QED BY <1>1, <2>6
<1> QED BY <1>2, <1>3

(* A backedge leaves every cell where it can stay, and no constant.         *)
LEMMA WeakenedCells ==
  ASSUME NEW x \in Context
  PROVE  /\ Like(x, Weakened(x))
         /\ \A n \in DOMAIN x.cells : x.cells[n].kind = "const" => Told(Weakened(x).cells[n])
<1> DEFINE k == Len(x.cells)
<1>0. k \in Nat /\ DOMAIN x.cells = 1 .. k
  BY ContextParts
<1>1. PICK g : Weakened(x) = g[k] /\ Walk(g, x, k)
  <2> DEFINE G(g) == g = [i \in 0 .. Len(x.cells) |->
                            IF i = 0 THEN x
                            ELSE IF g[i - 1].cells[i].kind = "const" THEN Forgotten(g[i - 1], i) ELSE g[i - 1]]
  <2>1. Weakened(x) = (CHOOSE g : G(g))[k]
    BY DEF Weakened
  <2>2. \A g : G(g) <=> Walk(g, x, k)
    BY DEF Walk
  <2>3. \E g : G(g)
    BY <1>0, <2>2, WalkExists
  <2>4. G(CHOOSE g : G(g))
    BY <2>3
  <2> QED BY <2>1, <2>2, <2>4
<1> DEFINE Told2(i) == /\ Like(x, g[i])
                       /\ \A n \in DOMAIN x.cells : x.cells[n].kind = "const" =>
                            IF n <= i THEN Told(g[i].cells[n]) ELSE g[i].cells[n] = x.cells[n] \/ Told(g[i].cells[n])
           T == {i \in 0 .. k : ~Told2(i)}
<1> HIDE DEF k
<1>2. T = {}
  <2> SUFFICES ASSUME T # {} PROVE FALSE
    OBVIOUS
  <2>1. T \subseteq Nat
    BY <1>0
  <2>2. PICK i \in T : \A j \in T : i <= j
    BY <2>1, LeastNumber
  <2>3. CASE i = 0
    <3>0. 0 \in 0 .. k
      BY <1>0
    <3>1. g[0] = x
      BY <1>1, <3>0 DEF Walk
    <3>2. \A n \in DOMAIN x.cells : ~(n <= 0)
      BY <1>0
    <3>3. Told2(0)
      BY <3>1, <3>2 DEF Like
    <3> QED BY <2>2, <2>3, <3>3
  <2>4. CASE i # 0
    <3>1. i \in 0 .. k /\ i - 1 \in 0 .. k /\ ~(i <= i - 1) /\ i \in DOMAIN x.cells
      BY <1>0, <2>2, <2>4
    <3>2. Told2(i - 1)
      BY <2>2, <3>1
    <3>a. PICK y : y = g[i - 1]
      OBVIOUS
    <3>3. g[i] = IF y.cells[i].kind = "const" THEN Forgotten(y, i) ELSE y
      BY <1>1, <2>4, <3>1, <3>a DEF Walk
    <3>4. Like(x, y) /\ y \in Context /\ i \in DOMAIN y.cells /\ DOMAIN y.cells = DOMAIN x.cells
      BY <3>1, <3>2, <3>a DEF Like
    <3>5. \A n \in DOMAIN x.cells : n <= i <=> n <= i - 1 \/ n = i
      BY <1>0, <3>1
    <3>6. CASE y.cells[i].kind = "const"
      <4>1. /\ Like(y, Forgotten(y, i)) /\ Told(Forgotten(y, i).cells[i])
            /\ \A n \in DOMAIN y.cells \ {i} : Forgotten(y, i).cells[n] = y.cells[n] \/ Told(Forgotten(y, i).cells[n])
        BY <3>4, ForgottenCells
      <4>2. Like(x, g[i])
        BY <3>3, <3>4, <3>6, <4>1, LikeTwice
      <4>3. \A n \in DOMAIN x.cells : x.cells[n].kind = "const" =>
              IF n <= i THEN Told(g[i].cells[n]) ELSE g[i].cells[n] = x.cells[n] \/ Told(g[i].cells[n])
        BY <3>2, <3>3, <3>4, <3>5, <3>6, <3>a, <4>1
      <4> QED BY <2>2, <4>2, <4>3
    <3>7. CASE y.cells[i].kind # "const"
      <4>1. g[i] = y
        BY <3>3, <3>7
      <4>2. x.cells[i].kind = "const" => Told(y.cells[i])
        BY <3>1, <3>2, <3>7, <3>a
      <4>3. \A n \in DOMAIN x.cells : x.cells[n].kind = "const" =>
              IF n <= i THEN Told(y.cells[n]) ELSE y.cells[n] = x.cells[n] \/ Told(y.cells[n])
        BY <3>2, <3>5, <3>a, <4>2
      <4> QED BY <2>2, <3>4, <4>1, <4>3
    <3> QED BY <3>6, <3>7
  <2> QED BY <2>3, <2>4
<1>3. k \in 0 .. k /\ \A n \in DOMAIN x.cells : n <= k
  BY <1>0
<1>4. Told2(k)
  BY <1>2, <1>3
<1> QED BY <1>1, <1>3, <1>4

LEMMA LargestNumber ==
  ASSUME NEW T, T \subseteq Nat, T # {}, NEW n \in Nat, \A y \in T : y <= n
  PROVE  \E x \in T : \A y \in T : y <= x
<1> DEFINE U == {b \in Nat : \A y \in T : y <= b}
<1>1. U \subseteq Nat /\ U # {}
  OBVIOUS
<1>2. PICK b \in U : \A a \in U : b <= a
  BY <1>1, LeastNumber
<1>3. CASE b \in T
  BY <1>2, <1>3
<1>4. CASE b \notin T
  <2>1. \A y \in T : y <= b /\ y # b /\ y \in Nat
    BY <1>2, <1>4
  <2>2. PICK y \in T : TRUE
    OBVIOUS
  <2>3. b \in Nat /\ y <= b /\ y # b /\ y \in Nat
    BY <1>2, <2>1
  <2>4. b - 1 \in Nat /\ ~(b <= b - 1)
    BY <2>3
  <2>5. \A z \in T : z <= b - 1
    BY <2>1, <2>3
  <2> QED BY <1>2, <2>4, <2>5
<1> QED BY <1>3, <1>4

LEMMA LatestIn ==
  ASSUME NEW T, T \subseteq Nat, T # {}, NEW n \in Nat, \A y \in T : y <= n
  PROVE  Latest(T) \in T
BY LargestNumber DEF Latest

LEMMA MaxOf ==
  ASSUME NEW T, T \subseteq Nat, T # {}, NEW n \in Nat, \A y \in T : y <= n
  PROVE  Max(T) \in T /\ \A y \in T : Max(T) >= y
<1>1. PICK x \in T : \A y \in T : y <= x
  BY LargestNumber
<1>2. \A y \in T : x >= y
  BY <1>1
<1> QED BY <1>2 DEF Max

(* A generic context has every cell in its home and relies on no room.      *)
LEMMA ConformedCells ==
  ASSUME NEW x \in Context
  PROVE  /\ Conformed(x) \in Context /\ SameFamily(x, Conformed(x)) /\ Canonical(Conformed(x))
         /\ Conformed(x).generic = TRUE /\ Conformed(x).room = 0
         /\ \A i \in DOMAIN x.cells : Conformed(x).cells[i] = Home
<1> DEFINE u == [i \in DOMAIN x.cells |-> Home]
<1>1. \A i \in DOMAIN x.cells : u[i] \in Cell
  BY CellsOf
<1>2. u = [i \in DOMAIN x.cells |-> u[i]] /\ \A i \in DOMAIN x.cells : u[i] = Home
  OBVIOUS
<1> PICK y : y = [x EXCEPT !.cells = u]
  OBVIOUS
<1>3. Conformed(x) = [[x EXCEPT !.cells = u] EXCEPT !.room = 0, !.generic = TRUE]
  BY DEF Conformed, Context
<1> HIDE DEF u
<1>4. Like(x, y) /\ y.cells = u
  BY <1>1, <1>2, Replaced
<1>z. PICK z \in Nat : z = 0
  OBVIOUS
<1>t. PICK b \in BOOLEAN : b = TRUE
  OBVIOUS
<1>5. Conformed(x) = [y EXCEPT !.room = z, !.generic = b]
  BY <1>3, <1>z, <1>t
<1>6. /\ Conformed(x) \in Context /\ Conformed(x).cells = u /\ Conformed(x).cont = x.cont
      /\ Conformed(x).room = z /\ Conformed(x).generic = b
  BY <1>4, <1>5 DEF Like, Context
<1>7. Len(u) = Len(x.cells) /\ DOMAIN u = DOMAIN x.cells
  BY <1>4 DEF Like
<1> QED
  BY <1>2, <1>6, <1>7, <1>z, <1>t DEF SameFamily, Canonical

LEMMA FlushedCells == ASSUME NEW x \in Context PROVE Like(x, Flushed(x))
<1> DEFINE u == [i \in DOMAIN x.cells |-> IF x.cells[i].kind = "const" THEN x.cells[i] ELSE Home]
<1>1. \A i \in DOMAIN x.cells : u[i] \in Cell
  BY ContextParts, CellsOf
<1>2. u = [i \in DOMAIN x.cells |-> u[i]]
  OBVIOUS
<1>3. Flushed(x) = [x EXCEPT !.cells = u]
  BY DEF Flushed
<1> HIDE DEF u
<1> QED
  BY <1>1, <1>2, <1>3, Replaced

-----------------------------------------------------------------------------
(* Families and what an edge makes of a context.                            *)

LEMMA SameFamilyEquiv ==
  ASSUME NEW x, NEW y, SameFamily(x, y), NEW z
  PROVE  SameFamily(y, x) /\ (SameFamily(z, x) <=> SameFamily(z, y))
BY DEF SameFamily

LEMMA FamilyEqual ==
  ASSUME NEW x, NEW y, SameFamily(x, y), NEW k, NEW pc
  PROVE  Family(k, pc, x) = Family(k, pc, y)
BY SameFamilyEquiv DEF Family

LEMMA EdgeContextFacts ==
  ASSUME NEW x \in Context, NEW k, NEW from \in Nat, NEW to \in Nat,
         NEW sent, sent = EdgeContext(k, from, to, x)
  PROVE  /\ sent \in Context /\ SameFamily(x, sent)
         /\ x.generic => sent.generic
         /\ sent.room <= x.room
         /\ to <= from => \A n \in DOMAIN x.cells : x.cells[n].kind = "const" => Told(sent.cells[n])
         /\ Cardinality(Family(k, to, sent)) >= Limit - 1 => Canonical(sent)
<1> DEFINE w == IF to <= from THEN Weakened(x) ELSE x
<1>1. Like(x, w) /\ (to <= from => \A n \in DOMAIN x.cells : x.cells[n].kind = "const" => Told(w.cells[n]))
  <2>1. CASE to <= from
    BY <2>1, WeakenedCells
  <2>2. CASE ~(to <= from)
    BY <2>2 DEF Like
  <2> QED BY <2>1, <2>2
<1>2. sent = IF Full(k, to, w) THEN Conformed(w) ELSE w
  BY DEF EdgeContext
<1> HIDE DEF w
<1>3. w \in Context /\ SameFamily(x, w) /\ w.generic = x.generic /\ w.room = x.room /\ DOMAIN w.cells = DOMAIN x.cells
  BY <1>1 DEF Like, SameFamily
<1>r. x.room \in Nat /\ x.generic \in BOOLEAN
  BY ContextParts
<1>4. CASE Full(k, to, w)
  <2>1. sent = Conformed(w)
    BY <1>2, <1>4
  <2>2. sent \in Context /\ SameFamily(w, sent) /\ Canonical(sent) /\ sent.generic = TRUE /\ sent.room = 0
        /\ \A i \in DOMAIN x.cells : sent.cells[i] = Home
    BY <1>3, <2>1, ConformedCells
  <2>3. Told(Home)
    BY CellsOf DEF Told
  <2>4. SameFamily(x, sent)
    BY <1>3, <2>2, SameFamilyEquiv
  <2>5. sent.room <= x.room
    BY <1>r, <2>2
  <2>6. \A n \in DOMAIN x.cells : Told(sent.cells[n])
    BY <2>2, <2>3
  <2> QED BY <2>2, <2>4, <2>5, <2>6
<1>5. CASE ~Full(k, to, w)
  <2>1. sent = w
    BY <1>2, <1>5
  <2>2. ~(Cardinality(Family(k, to, w)) >= Limit - 1)
    BY <1>5 DEF Full
  <2>3. sent.room <= x.room
    BY <1>r, <1>3, <2>1
  <2> QED BY <1>1, <1>3, <2>1, <2>2, <2>3
<1> QED BY <1>4, <1>5

LEMMA CanonicalEqual ==
  ASSUME NEW x \in Context, NEW y \in Context, SameGeneric(x, y)
  PROVE  x.cells = y.cells /\ x.cont = y.cont /\ x.generic = TRUE /\ y.generic = TRUE
<1>1. /\ x.generic /\ y.generic /\ Len(x.cells) = Len(y.cells) /\ x.cont = y.cont
      /\ \A i \in DOMAIN x.cells : x.cells[i] = Home
      /\ \A i \in DOMAIN y.cells : y.cells[i] = Home
  BY DEF SameGeneric, Canonical, SameFamily
<1>2. \A i \in 1 .. Len(x.cells) : x.cells[i] = y.cells[i]
  BY <1>1, ContextParts
<1>3. x.cells \in Seq(Cell) /\ y.cells \in Seq(Cell)
  BY ContextParts
<1>4. x.cells = y.cells
  BY <1>1, <1>2, <1>3, SeqEqual
<1>5. x.generic = TRUE /\ y.generic = TRUE
  BY <1>1, ContextParts
<1> QED BY <1>1, <1>4, <1>5

(* What a version that accepts a context was compiled for.                  *)
Fits(v, x) == /\ v.cells = x.cells /\ v.cont = x.cont /\ v.generic = x.generic
              /\ ~v.generic => v.room <= x.room

LEMMA AcceptsFits ==
  ASSUME NEW v \in Context, NEW x \in Context, Accepts(v, x) PROVE Fits(v, x)
<1>1. CASE SameGeneric(v, x)
  BY <1>1, CanonicalEqual DEF Fits
<1>2. CASE ~SameGeneric(v, x)
  <2>1. SameContext(v, x) /\ x.room >= v.room
    BY <1>2 DEF Accepts
  <2>2. v.room <= x.room
    BY <2>1, ContextParts
  <2> QED BY <2>1, <2>2 DEF SameContext, Fits
<1> QED BY <1>1, <1>2

-----------------------------------------------------------------------------
(* The invariant.                                                           *)

Version  == [pc : Nat, in : Context, label : Nat]
Passage  == [to : Nat, from : Nat, was : Context, sent : Context]
WordOps  == {"code", "guard", "return", "local", "jump", "branch", "call"}
TapeWord == [op : WordOps, of : Nat, label : Nat, target : Nat, cells : Nat, edge : Passage]
Compiler == [versions : Seq(Version), labels : Seq(Nat), head : Nat, tape : Seq(TapeWord),
             status : {"compiling", "refused", "published"}]

Types ==
  /\ program \in Programs
  /\ c \in Compiler /\ c.head <= Len(c.versions)
  /\ at \in [v : Nat, pc : Nat, x : Context, fresh : BOOLEAN]
  /\ run \in [v : Nat, room : Nat]

(* An activation has one cell, and so has each of its callers.              *)
Balanced(x) == /\ x \in Context /\ Len(x.cells) = Len(x.cont) + 1
               /\ \A i \in DOMAIN x.cont : x.cont[i].return \in DOMAIN Code

(* Every version has a label of its own; those of the functions come first. *)
VersionsInv(k) ==
  /\ \A i \in DOMAIN k.versions :
       /\ k.versions[i].pc \in DOMAIN Code /\ Balanced(k.versions[i].in)
       /\ k.versions[i].label \in DOMAIN k.labels
  /\ \A i, j \in DOMAIN k.versions : k.versions[i].label = k.versions[j].label => i = j
  /\ \A f \in DOMAIN Functions :
       f \in DOMAIN k.versions /\ k.versions[f].pc = Entry(f) /\ k.versions[f].in = EntryContext(f, Home)

FamilyOf(k, i) == Family(k, k.versions[i].pc, k.versions[i].in)
LimitInv(k)    == \A i \in DOMAIN k.versions : Cardinality(FamilyOf(k, i)) <= Limit

(* The last version of a family is the generic one, if nothing recurses.    *)
NoneRecursive == \A f \in DOMAIN Functions : ~Recursive(f)
SpareInv(k) ==
  NoneRecursive =>
    /\ k.status # "refused"
    /\ \A i \in DOMAIN k.versions : Cardinality(FamilyOf(k, i)) >= Limit =>
         \E j \in FamilyOf(k, i) : Canonical(k.versions[j].in)

(* What is true of each word, the n-th of the tape.                         *)
LeadsTo(k, w, v) ==
  /\ k.versions[v].label = w.label /\ k.versions[v].pc = w.edge.to
  /\ Fits(k.versions[v].in, w.edge.sent)
Forgetful(w) ==
  w.op # "call" /\ w.edge.to <= w.edge.from =>
    \A n \in DOMAIN w.edge.was.cells : w.edge.was.cells[n].kind = "const" => Told(w.edge.sent.cells[n])
Cleared(k, v, n, room) ==
  \/ room <= k.versions[v].in.room
  \/ \E j \in DOMAIN k.tape : j <= n /\ k.tape[j].op = "guard" /\ k.tape[j].of = v /\ k.tape[j].cells >= room
RoomFor(k, w, n) ==
  w.op # "call" => /\ k.versions[w.of].in.generic => w.edge.sent.generic
                   /\ Cleared(k, w.of, n, w.edge.sent.room)
OwnLabel(k, l) == l \in DOMAIN k.labels /\ \A i \in DOMAIN k.versions : k.versions[i].label # l
WordInv(k, w, n) ==
  /\ w.of \in 1 .. k.head
  /\ w.label = 0 <=> w.op \in {"code", "guard", "return"}
  /\ w.op = "local" => OwnLabel(k, w.label)
  /\ Leads(w) => (\E v \in DOMAIN k.versions : LeadsTo(k, w, v)) /\ Forgetful(w) /\ RoomFor(k, w, n)
TapeInv(k) ==
  \A n \in DOMAIN k.tape :
    /\ WordInv(k, k.tape[n], n)
    /\ k.tape[n].target = IF k.status # "published" \/ k.tape[n].label = 0 THEN 0 ELSE k.labels[k.tape[n].label]

(* Where local labels other than l are bound, and where the versions begin. *)
LocalsInv(k, l) ==
  k.status # "refused" =>
    \A n \in DOMAIN k.tape :
      k.tape[n].op = "local" =>
        IF k.tape[n].label = l THEN k.tape[n].of = k.head
        ELSE k.labels[k.tape[n].label] \in DOMAIN k.tape /\ k.tape[k.labels[k.tape[n].label]].of = k.tape[n].of
Place(k, v) == k.labels[k.versions[v].label]
PlaceInv(k) ==
  \A v \in 1 .. k.head :
    /\ Place(k, v) \in 1 .. Len(k.tape) + 1
    /\ Place(k, v) \in DOMAIN k.tape => k.tape[Place(k, v)].of = v
    /\ v # k.head => Place(k, v) \in DOMAIN k.tape
    /\ \A i \in DOMAIN k.tape : i < Place(k, v) => k.tape[i].of # v

Good(k, l) ==
  /\ k \in Compiler /\ k.head <= Len(k.versions)
  /\ VersionsInv(k) /\ LimitInv(k) /\ SpareInv(k) /\ TapeInv(k) /\ LocalsInv(k, l) /\ PlaceInv(k)

AtInv ==
  /\ at = Idle => (c.status # "refused" /\ c.head # 0 => Place(c, c.head) \in DOMAIN c.tape)
  /\ at # Idle => /\ at.v = c.head /\ c.head # 0 /\ at.pc \in DOMAIN Code /\ Balanced(at.x)
                  /\ at.x.generic = c.versions[at.v].in.generic
                  /\ Cleared(c, at.v, Len(c.tape), at.x.room)

RunInv ==
  /\ c.status = "published" => at = Idle /\ c.head = Len(c.versions)
  /\ run.v # 0 => /\ c.status = "published" /\ run.v \in DOMAIN c.versions
                  /\ ~c.versions[run.v].in.generic => run.room >= c.versions[run.v].in.room

VInv == Types /\ Good(c, 0) /\ AtInv /\ RunInv

-----------------------------------------------------------------------------
(* The program and the compiler, field by field.                            *)

LEMMA ProgramParts ==
  ASSUME program \in Programs
  PROVE  /\ Code \in Seq([op : Ops, arg : Nat]) /\ DOMAIN Code = 1 .. Len(Code) /\ Len(Code) \in Nat
         /\ Functions \in Seq([entry : Nat, end : Nat, height : Nat \ {0}])
         /\ DOMAIN Functions = 1 .. Len(Functions) /\ Len(Functions) \in Nat
         /\ \A f \in DOMAIN Functions : Entry(f) \in DOMAIN Code /\ Functions[f].height \in Nat \ {0}
         /\ \A f, g \in DOMAIN Functions : Entry(f) = Entry(g) => f = g
         /\ \A pc \in DOMAIN Code :
              /\ Code[pc].arg \in Nat
              /\ Code[pc].op \notin {"jump", "ret", "tail"} => pc + 1 \in DOMAIN Code
              /\ Code[pc].op \in {"jump", "branch"} => Code[pc].arg \in DOMAIN Code
              /\ Code[pc].op \in {"call", "tail"} => Code[pc].arg \in DOMAIN Functions
<1>1. /\ Code \in Seq([op : Ops, arg : Nat]) /\ Functions \in Seq([entry : Nat, end : Nat, height : Nat \ {0}])
      /\ \A f \in DOMAIN Functions : Functions[f].entry \in DOMAIN Code
      /\ \A f, g \in DOMAIN Functions : Functions[f].entry = Functions[g].entry => f = g
      /\ \A pc \in DOMAIN Code :
           /\ Code[pc].op \notin {"jump", "ret", "tail"} => pc + 1 \in DOMAIN Code
           /\ Code[pc].op \in {"jump", "branch"} => Code[pc].arg \in DOMAIN Code
           /\ Code[pc].op \in {"call", "tail"} => Code[pc].arg \in DOMAIN Functions
  BY ProgramsAssumption DEF Code, Functions
<1>2. DOMAIN Code = 1 .. Len(Code) /\ Len(Code) \in Nat /\ DOMAIN Functions = 1 .. Len(Functions) /\ Len(Functions) \in Nat
  BY <1>1, LenProperties
<1>3. ASSUME NEW pc \in DOMAIN Code PROVE Code[pc].arg \in Nat
  <2>1. Code[pc] \in [op : Ops, arg : Nat]
    BY <1>1, <1>2, ElementOfSeq
  <2> QED BY <2>1
<1>4. ASSUME NEW f \in DOMAIN Functions PROVE Functions[f].height \in Nat \ {0}
  <2>1. Functions[f] \in [entry : Nat, end : Nat, height : Nat \ {0}]
    BY <1>1, <1>2, ElementOfSeq
  <2> QED BY <2>1
<1> QED BY <1>1, <1>2, <1>3, <1>4 DEF Entry

LEMMA CompilerParts ==
  ASSUME NEW k \in Compiler
  PROVE  /\ k.versions \in Seq(Version) /\ Len(k.versions) \in Nat /\ DOMAIN k.versions = 1 .. Len(k.versions)
         /\ k.labels \in Seq(Nat) /\ Len(k.labels) \in Nat /\ DOMAIN k.labels = 1 .. Len(k.labels)
         /\ k.tape \in Seq(TapeWord) /\ Len(k.tape) \in Nat /\ DOMAIN k.tape = 1 .. Len(k.tape)
         /\ k.head \in Nat
         /\ \A i \in DOMAIN k.versions : /\ k.versions[i].pc \in Nat /\ k.versions[i].in \in Context
                                         /\ k.versions[i].label \in Nat
         /\ \A l \in DOMAIN k.labels : k.labels[l] \in Nat
         /\ \A n \in DOMAIN k.tape : k.tape[n] \in TapeWord
<1>1. k.versions \in Seq(Version) /\ k.labels \in Seq(Nat) /\ k.tape \in Seq(TapeWord) /\ k.head \in Nat
  BY DEF Compiler
<1>2. \A i \in DOMAIN k.versions : k.versions[i] \in Version
  BY <1>1
<1>3. \A l \in DOMAIN k.labels : k.labels[l] \in Nat
  BY <1>1
<1>4. \A n \in DOMAIN k.tape : k.tape[n] \in TapeWord
  BY <1>1
<1>5. /\ Len(k.versions) \in Nat /\ DOMAIN k.versions = 1 .. Len(k.versions)
      /\ Len(k.labels) \in Nat /\ DOMAIN k.labels = 1 .. Len(k.labels)
      /\ Len(k.tape) \in Nat /\ DOMAIN k.tape = 1 .. Len(k.tape)
  BY <1>1, LenProperties
<1> QED BY <1>1, <1>2, <1>3, <1>4, <1>5 DEF Version

LEMMA AppendParts ==
  ASSUME NEW S, NEW s \in Seq(S), NEW e \in S, NEW u, u = Append(s, e)
  PROVE  /\ u \in Seq(S) /\ Len(u) = Len(s) + 1 /\ Len(s) + 1 \in DOMAIN u /\ u[Len(s) + 1] = e
         /\ DOMAIN u = DOMAIN s \cup {Len(s) + 1} /\ Len(s) + 1 \notin DOMAIN s
         /\ \A i \in DOMAIN s : u[i] = s[i]
<1>1. u \in Seq(S) /\ Len(u) = Len(s) + 1 /\ u[Len(s) + 1] = e /\ \A i \in 1 .. Len(s) : u[i] = s[i]
  OBVIOUS
<1>2. DOMAIN s = 1 .. Len(s) /\ Len(s) \in Nat /\ DOMAIN u = 1 .. Len(u)
  BY <1>1, LenProperties
<1> QED BY <1>1, <1>2

(* k2 has one version more, for pc and x.                                   *)
Added(k, k2, pc, x) ==
  LET n == Len(k.versions) + 1
      l == Len(k.labels) + 1
  IN  /\ k2 \in Compiler /\ k2.head = k.head /\ k2.tape = k.tape /\ k2.status = k.status
      /\ DOMAIN k2.versions = DOMAIN k.versions \cup {n} /\ n \notin DOMAIN k.versions /\ Len(k2.versions) = n
      /\ \A i \in DOMAIN k.versions : k2.versions[i] = k.versions[i]
      /\ k2.versions[n].pc = pc /\ k2.versions[n].in = x /\ k2.versions[n].label = l
      /\ DOMAIN k2.labels = DOMAIN k.labels \cup {l} /\ l \notin DOMAIN k.labels
      /\ \A i \in DOMAIN k.labels : k2.labels[i] = k.labels[i]

Halted(k, k2) ==
  /\ k2 \in Compiler /\ k2.versions = k.versions /\ k2.labels = k.labels /\ k2.head = k.head
  /\ k2.tape = k.tape /\ k2.status = "refused"

LEMMA MadeEffect ==
  ASSUME NEW k \in Compiler, NEW pc \in Nat, NEW x \in Context, NEW r, r = VersionFor(k, pc, x)
  PROVE  \/ r.c = k /\ r.v \in DOMAIN k.versions /\ k.versions[r.v].pc = pc /\ Fits(k.versions[r.v].in, x)
         \/ Accepting(k, pc, x) = {} /\ Refused(k, pc, x) /\ Halted(k, r.c)
         \/ ~Refused(k, pc, x) /\ r.v = Len(k.versions) + 1 /\ Added(k, r.c, pc, x)
<1>k. /\ k.versions \in Seq(Version) /\ Len(k.versions) \in Nat /\ DOMAIN k.versions = 1 .. Len(k.versions)
      /\ k.labels \in Seq(Nat) /\ Len(k.labels) \in Nat /\ DOMAIN k.labels = 1 .. Len(k.labels)
      /\ \A i \in DOMAIN k.versions : k.versions[i].in \in Context
  BY CompilerParts
<1>1. CASE Accepting(k, pc, x) # {}
  <2>1. r = [c |-> k, v |-> Latest(Accepting(k, pc, x))]
    BY <1>1 DEF VersionFor
  <2>2. Accepting(k, pc, x) \subseteq DOMAIN k.versions
    BY DEF Accepting, Versions
  <2>3. Accepting(k, pc, x) \subseteq Nat /\ \A i \in Accepting(k, pc, x) : i <= Len(k.versions)
    BY <1>k, <2>2
  <2>4. Latest(Accepting(k, pc, x)) \in Accepting(k, pc, x)
    BY <1>1, <1>k, <2>3, LatestIn
  <2>5. r.c = k /\ r.v \in Accepting(k, pc, x)
    BY <2>1, <2>4
  <2>6. r.v \in DOMAIN k.versions /\ k.versions[r.v].pc = pc /\ Accepts(k.versions[r.v].in, x)
    BY <2>5 DEF Accepting, Versions
  <2>7. Fits(k.versions[r.v].in, x)
    BY <1>k, <2>6, AcceptsFits
  <2> QED BY <2>5, <2>6, <2>7
<1>2. CASE Accepting(k, pc, x) = {} /\ Refused(k, pc, x)
  <2>1. r.c = [k EXCEPT !.status = "refused"]
    BY <1>2 DEF VersionFor
  <2>2. Halted(k, r.c)
    BY <2>1 DEF Halted, Compiler
  <2> QED BY <1>2, <2>2
<1>3. CASE Accepting(k, pc, x) = {} /\ ~Refused(k, pc, x)
  <2>l. PICK l \in Nat : l = Len(k.labels) + 1
    BY <1>k
  <2>v. PICK v : v = [pc |-> pc, in |-> x, label |-> l]
    OBVIOUS
  <2>1. v \in Version /\ v.pc = pc /\ v.in = x /\ v.label = l
    BY <2>v DEF Version
  <2>z. PICK z \in Nat : z = 0
    OBVIOUS
  <2>vs. PICK vs : vs = Append(k.versions, v)
    OBVIOUS
  <2>ls. PICK ls : ls = Append(k.labels, z)
    OBVIOUS
  <2>2. r = [c |-> [k EXCEPT !.versions = vs, !.labels = ls], v |-> Len(k.versions) + 1]
    BY <1>3, <2>l, <2>v, <2>z, <2>vs, <2>ls DEF VersionFor, Compiler
  <2>3. r.v = Len(k.versions) + 1 /\ r.c = [k EXCEPT !.versions = vs, !.labels = ls]
    BY <2>2
  <2>4. /\ vs \in Seq(Version) /\ Len(vs) = Len(k.versions) + 1 /\ vs[Len(k.versions) + 1] = v
        /\ DOMAIN vs = DOMAIN k.versions \cup {Len(k.versions) + 1} /\ Len(k.versions) + 1 \notin DOMAIN k.versions
        /\ \A i \in DOMAIN k.versions : vs[i] = k.versions[i]
    BY <1>k, <2>1, <2>vs, AppendParts
  <2>5. /\ ls \in Seq(Nat) /\ DOMAIN ls = DOMAIN k.labels \cup {Len(k.labels) + 1}
        /\ Len(k.labels) + 1 \notin DOMAIN k.labels /\ \A i \in DOMAIN k.labels : ls[i] = k.labels[i]
    BY <1>k, <2>z, <2>ls, AppendParts
  <2>6. /\ r.c \in Compiler /\ r.c.versions = vs /\ r.c.labels = ls /\ r.c.head = k.head
        /\ r.c.tape = k.tape /\ r.c.status = k.status
    BY <2>3, <2>4, <2>5 DEF Compiler
  <2>7. Added(k, r.c, pc, x)
    BY <2>1, <2>4, <2>5, <2>6, <2>l DEF Added
  <2> QED BY <1>3, <2>3, <2>7
<1> QED BY <1>1, <1>2, <1>3

-----------------------------------------------------------------------------
(* A version more keeps the invariant.                                      *)

LEMMA FamilyBasics ==
  ASSUME NEW k \in Compiler, NEW pc, NEW x
  PROVE  /\ Family(k, pc, x) \subseteq DOMAIN k.versions
         /\ IsFiniteSet(Family(k, pc, x)) /\ Cardinality(Family(k, pc, x)) \in Nat
         /\ \A i : i \in Family(k, pc, x) <=>
              i \in DOMAIN k.versions /\ k.versions[i].pc = pc /\ SameFamily(k.versions[i].in, x)
<1>1. \A i : i \in Family(k, pc, x) <=>
              i \in DOMAIN k.versions /\ k.versions[i].pc = pc /\ SameFamily(k.versions[i].in, x)
  BY DEF Family, Versions
<1>2. Family(k, pc, x) \in SUBSET (1 .. Len(k.versions)) /\ Len(k.versions) \in Nat
  BY <1>1, CompilerParts
<1>3. IsFiniteSet(1 .. Len(k.versions))
  BY <1>2, FS_Interval
<1>4. IsFiniteSet(Family(k, pc, x)) /\ Cardinality(Family(k, pc, x)) \in Nat
  BY <1>2, <1>3, FS_Subset, FS_CardinalityType
<1> QED BY <1>1, <1>4

LEMMA SelfFamily == \A x : SameFamily(x, x)
BY DEF SameFamily

LEMMA FamilyAdded ==
  ASSUME NEW k \in Compiler, NEW k2, NEW pc, NEW x, Added(k, k2, pc, x), NEW q, NEW y
  PROVE  Family(k2, q, y) = IF q = pc /\ SameFamily(x, y) THEN Family(k, q, y) \cup {Len(k.versions) + 1}
                            ELSE Family(k, q, y)
<1> DEFINE n == Len(k.versions) + 1
<1>1. \A i : i \in Family(k, q, y) <=>
        i \in DOMAIN k.versions /\ k.versions[i].pc = q /\ SameFamily(k.versions[i].in, y)
  BY DEF Family, Versions
<1>2. \A i : i \in Family(k2, q, y) <=>
        i \in DOMAIN k2.versions /\ k2.versions[i].pc = q /\ SameFamily(k2.versions[i].in, y)
  BY DEF Family, Versions
<1>3. /\ DOMAIN k2.versions = DOMAIN k.versions \cup {n} /\ n \notin DOMAIN k.versions
      /\ \A i \in DOMAIN k.versions : k2.versions[i] = k.versions[i]
      /\ k2.versions[n].pc = pc /\ k2.versions[n].in = x
  BY DEF Added
<1> HIDE DEF n
<1>4. \A i : i \in Family(k2, q, y) <=> i \in Family(k, q, y) \/ (i = n /\ pc = q /\ SameFamily(x, y))
  BY <1>1, <1>2, <1>3
<1>5. CASE q = pc /\ SameFamily(x, y)
  <2>1. Family(k2, q, y) = Family(k, q, y) \cup {n}
    BY <1>4, <1>5
  <2> QED BY <1>5, <2>1 DEF n
<1>6. CASE ~(q = pc /\ SameFamily(x, y))
  <2>1. Family(k2, q, y) = Family(k, q, y)
    BY <1>4, <1>6
  <2> QED BY <1>6, <2>1
<1> QED BY <1>5, <1>6

(* A new version joins only the family it was asked for.                    *)
LEMMA FamilyOfAdded ==
  ASSUME NEW k \in Compiler, NEW k2, NEW pc, NEW x, Added(k, k2, pc, x), NEW i \in DOMAIN k2.versions
  PROVE  \/ /\ FamilyOf(k2, i) = Family(k, pc, x) \cup {Len(k.versions) + 1}
            /\ Len(k.versions) + 1 \notin Family(k, pc, x)
         \/ i \in DOMAIN k.versions /\ FamilyOf(k2, i) = FamilyOf(k, i)
<1> DEFINE n == Len(k.versions) + 1
<1>1. /\ DOMAIN k2.versions = DOMAIN k.versions \cup {n} /\ n \notin DOMAIN k.versions
      /\ \A j \in DOMAIN k.versions : k2.versions[j] = k.versions[j]
      /\ k2.versions[n].pc = pc /\ k2.versions[n].in = x
  BY DEF Added
<1> PICK q, y : q = k2.versions[i].pc /\ y = k2.versions[i].in
  OBVIOUS
<1>2. FamilyOf(k2, i) = Family(k2, q, y)
  BY DEF FamilyOf
<1>3. CASE q = pc /\ SameFamily(x, y)
  <2>1. Family(k2, q, y) = Family(k, q, y) \cup {n}
    BY <1>3, FamilyAdded
  <2>2. Family(k, q, y) = Family(k, pc, x)
    BY <1>3, FamilyEqual
  <2>3. n \notin Family(k, pc, x)
    BY <1>1, FamilyBasics
  <2> QED BY <1>2, <2>1, <2>2, <2>3
<1>4. CASE ~(q = pc /\ SameFamily(x, y))
  <2>1. Family(k2, q, y) = Family(k, q, y)
    BY <1>4, FamilyAdded
  <2>2. i # n
    BY <1>1, <1>4, SelfFamily
  <2>3. i \in DOMAIN k.versions /\ q = k.versions[i].pc /\ y = k.versions[i].in
    BY <1>1, <2>2
  <2> QED BY <1>2, <2>1, <2>3 DEF FamilyOf
<1> QED BY <1>3, <1>4

LEMMA LimitAdded ==
  ASSUME NEW k \in Compiler, LimitInv(k), NEW k2, NEW pc, NEW x, Added(k, k2, pc, x), ~Refused(k, pc, x)
  PROVE  LimitInv(k2)
<1> SUFFICES ASSUME NEW i \in DOMAIN k2.versions PROVE Cardinality(FamilyOf(k2, i)) <= Limit
  BY DEF LimitInv
<1>1. CASE /\ FamilyOf(k2, i) = Family(k, pc, x) \cup {Len(k.versions) + 1}
           /\ Len(k.versions) + 1 \notin Family(k, pc, x)
  <2>1. IsFiniteSet(Family(k, pc, x)) /\ Cardinality(Family(k, pc, x)) \in Nat
    BY FamilyBasics
  <2>2. Cardinality(FamilyOf(k2, i)) = Cardinality(Family(k, pc, x)) + 1
    BY <1>1, <2>1, FS_AddElement
  <2>3. ~(Cardinality(Family(k, pc, x)) >= Limit)
    BY DEF Refused
  <2> QED BY <2>1, <2>2, <2>3, LimitAssumption
<1>2. CASE i \in DOMAIN k.versions /\ FamilyOf(k2, i) = FamilyOf(k, i)
  BY <1>2 DEF LimitInv
<1> QED BY <1>1, <1>2, FamilyOfAdded

(* The last of a family must be generic.                                    *)
Justified(k, pc, x) == NoneRecursive => (Cardinality(Family(k, pc, x)) >= Limit - 1 => Canonical(x))

LEMMA SpareAdded ==
  ASSUME NEW k \in Compiler, SpareInv(k), NEW k2, NEW pc, NEW x, Added(k, k2, pc, x), Justified(k, pc, x)
  PROVE  SpareInv(k2)
<1> DEFINE n == Len(k.versions) + 1
<1> SUFFICES ASSUME NoneRecursive
             PROVE  /\ k2.status # "refused"
                    /\ \A i \in DOMAIN k2.versions : Cardinality(FamilyOf(k2, i)) >= Limit =>
                         \E j \in FamilyOf(k2, i) : Canonical(k2.versions[j].in)
  BY DEF SpareInv
<1>1. k2.status # "refused"
  BY DEF SpareInv, Added
<1>2. /\ \A j \in DOMAIN k.versions : k2.versions[j] = k.versions[j]
      /\ k2.versions[n].in = x
  BY DEF Added
<1>3. ASSUME NEW i \in DOMAIN k2.versions, Cardinality(FamilyOf(k2, i)) >= Limit
      PROVE  \E j \in FamilyOf(k2, i) : Canonical(k2.versions[j].in)
  <2>1. CASE FamilyOf(k2, i) = Family(k, pc, x) \cup {n} /\ n \notin Family(k, pc, x)
    <3>1. IsFiniteSet(Family(k, pc, x)) /\ Cardinality(Family(k, pc, x)) \in Nat
      BY FamilyBasics
    <3>2. Cardinality(FamilyOf(k2, i)) = Cardinality(Family(k, pc, x)) + 1
      BY <2>1, <3>1, FS_AddElement
    <3>3. Cardinality(Family(k, pc, x)) >= Limit - 1
      BY <1>3, <3>1, <3>2, LimitAssumption
    <3>4. Canonical(x)
      BY <3>3 DEF Justified
    <3> QED BY <1>2, <2>1, <3>4
  <2>2. CASE i \in DOMAIN k.versions /\ FamilyOf(k2, i) = FamilyOf(k, i)
    <3>1. PICK j \in FamilyOf(k, i) : Canonical(k.versions[j].in)
      BY <1>3, <2>2 DEF SpareInv
    <3>2. j \in DOMAIN k.versions
      BY <3>1, FamilyBasics DEF FamilyOf
    <3> QED BY <1>2, <2>2, <3>1, <3>2
  <2> QED BY <2>1, <2>2, FamilyOfAdded
<1> QED BY <1>1, <1>3

(* Without recursion nothing is refused: a full family has a generic        *)
(* version, and an edge to it asks for one.                                 *)
LEMMA NotRefused ==
  ASSUME NEW k \in Compiler, SpareInv(k), NEW pc, NEW x, Justified(k, pc, x), NoneRecursive,
         Accepting(k, pc, x) = {}
  PROVE  ~Refused(k, pc, x)
<1> SUFFICES ASSUME Cardinality(Family(k, pc, x)) >= Limit PROVE FALSE
  BY DEF Refused
<1>1. IsFiniteSet(Family(k, pc, x)) /\ Cardinality(Family(k, pc, x)) \in Nat
  BY FamilyBasics
<1>2. Cardinality(Family(k, pc, x)) # 0 /\ Cardinality(Family(k, pc, x)) >= Limit - 1
  BY <1>1, LimitAssumption
<1>3. PICK i : i \in Family(k, pc, x)
  BY <1>1, <1>2, FS_EmptySet
<1>4. i \in DOMAIN k.versions /\ k.versions[i].pc = pc /\ SameFamily(k.versions[i].in, x)
  BY <1>3, FamilyBasics
<1>5. FamilyOf(k, i) = Family(k, pc, x)
  BY <1>4, FamilyEqual DEF FamilyOf
<1>6. PICK j \in Family(k, pc, x) : Canonical(k.versions[j].in)
  BY <1>4, <1>5 DEF SpareInv
<1>7. j \in DOMAIN k.versions /\ k.versions[j].pc = pc /\ SameFamily(k.versions[j].in, x)
  BY <1>6, FamilyBasics
<1>8. Canonical(x)
  BY <1>2 DEF Justified
<1>9. j \in Accepting(k, pc, x)
  BY <1>6, <1>7, <1>8 DEF Accepting, Versions, Accepts, SameGeneric
<1> QED BY <1>9

LEMMA VersionsAdded ==
  ASSUME NEW k \in Compiler, VersionsInv(k), NEW k2, NEW pc \in DOMAIN Code, NEW x, Balanced(x), Added(k, k2, pc, x)
  PROVE  VersionsInv(k2)
<1> DEFINE n == Len(k.versions) + 1
           l == Len(k.labels) + 1
<1>1. /\ DOMAIN k2.versions = DOMAIN k.versions \cup {n} /\ n \notin DOMAIN k.versions
      /\ \A i \in DOMAIN k.versions : k2.versions[i] = k.versions[i]
      /\ k2.versions[n].pc = pc /\ k2.versions[n].in = x /\ k2.versions[n].label = l
      /\ DOMAIN k2.labels = DOMAIN k.labels \cup {l} /\ l \notin DOMAIN k.labels
  BY DEF Added
<1> HIDE DEF n, l
<1>2. \A i \in DOMAIN k.versions : k.versions[i].label # l
  BY <1>1 DEF VersionsInv
<1>3. ASSUME NEW i \in DOMAIN k2.versions
      PROVE  /\ k2.versions[i].pc \in DOMAIN Code /\ Balanced(k2.versions[i].in)
             /\ k2.versions[i].label \in DOMAIN k2.labels
  BY <1>1 DEF VersionsInv
<1>4. ASSUME NEW i \in DOMAIN k2.versions, NEW j \in DOMAIN k2.versions, k2.versions[i].label = k2.versions[j].label
      PROVE  i = j
  BY <1>1, <1>2, <1>4 DEF VersionsInv
<1>5. ASSUME NEW f \in DOMAIN Functions
      PROVE  f \in DOMAIN k2.versions /\ k2.versions[f].pc = Entry(f) /\ k2.versions[f].in = EntryContext(f, Home)
  BY <1>1 DEF VersionsInv
<1> QED BY <1>3, <1>4, <1>5 DEF VersionsInv

(* What was known of the words and the versions stays known.                *)
Later(k, k2) ==
  /\ k2 \in Compiler /\ k2.head = k.head
  /\ DOMAIN k.versions \subseteq DOMAIN k2.versions /\ \A i \in DOMAIN k.versions : k2.versions[i] = k.versions[i]
  /\ DOMAIN k.tape \subseteq DOMAIN k2.tape /\ \A i \in DOMAIN k.tape : k2.tape[i] = k.tape[i]

LEMMA LaterTwice ==
  ASSUME NEW k, NEW k2, NEW k3, Later(k, k2), Later(k2, k3) PROVE Later(k, k3)
BY DEF Later

LEMMA LaterCleared ==
  ASSUME NEW k, NEW k2, Later(k, k2), NEW v \in DOMAIN k.versions, NEW n \in Nat, NEW n2 \in Nat, n <= n2,
         NEW room, k \in Compiler, Cleared(k, v, n, room)
  PROVE  Cleared(k2, v, n2, room)
<1>1. \A j \in DOMAIN k.tape : j \in Nat
  BY CompilerParts
<1> QED
  BY <1>1 DEF Later, Cleared

LEMMA LaterWord ==
  ASSUME NEW k \in Compiler, k.head <= Len(k.versions), NEW k2, Later(k, k2), NEW w, NEW n \in Nat, WordInv(k, w, n),
         w.op = "local" => OwnLabel(k2, w.label)
  PROVE  WordInv(k2, w, n)
<1>1. w.of \in 1 .. k2.head
  BY DEF WordInv, Later
<1>2. Leads(w) => \E v \in DOMAIN k2.versions : LeadsTo(k2, w, v)
  BY DEF WordInv, LeadsTo, Later
<1>3. ASSUME Leads(w) PROVE RoomFor(k2, w, n)
  <2>1. w.of \in DOMAIN k.versions
    BY CompilerParts DEF WordInv
  <2>2. k2.versions[w.of] = k.versions[w.of]
    BY <2>1 DEF Later
  <2>3. n <= n
    OBVIOUS
  <2>4. \A room : Cleared(k, w.of, n, room) => Cleared(k2, w.of, n, room)
    BY <2>1, <2>3, LaterCleared
  <2> QED BY <1>3, <2>2, <2>4 DEF WordInv, RoomFor
<1> QED
  BY <1>1, <1>2, <1>3 DEF WordInv

LEMMA AddedLater ==
  ASSUME NEW k, NEW k2, NEW pc, NEW x, Added(k, k2, pc, x) PROVE Later(k, k2)
BY DEF Added, Later

LEMMA TapeAdded ==
  ASSUME NEW k \in Compiler, k.head <= Len(k.versions), TapeInv(k), k.status # "published", VersionsInv(k),
         NEW k2, NEW pc, NEW x, Added(k, k2, pc, x)
  PROVE  TapeInv(k2)
<1> SUFFICES ASSUME NEW n \in DOMAIN k2.tape
             PROVE  /\ WordInv(k2, k2.tape[n], n)
                    /\ k2.tape[n].target = IF k2.status # "published" \/ k2.tape[n].label = 0 THEN 0
                                           ELSE k2.labels[k2.tape[n].label]
  BY DEF TapeInv
<1>1. k2.tape = k.tape /\ k2.status = k.status
  BY DEF Added
<1>2. n \in DOMAIN k.tape /\ n \in Nat
  BY <1>1, CompilerParts
<1>p. PICK w : w = k.tape[n]
  OBVIOUS
<1>3. WordInv(k, w, n) /\ w.target = 0
  BY <1>2, <1>p DEF TapeInv
<1>4. w.op = "local" => OwnLabel(k2, w.label)
  <2> SUFFICES ASSUME w.op = "local" PROVE OwnLabel(k2, w.label)
    OBVIOUS
  <2>1. OwnLabel(k, w.label)
    BY <1>3 DEF WordInv
  <2> QED BY <2>1 DEF OwnLabel, Added
<1>5. Later(k, k2)
  BY AddedLater
<1>6. WordInv(k2, w, n)
  BY <1>2, <1>3, <1>4, <1>5, LaterWord
<1> QED BY <1>1, <1>3, <1>6, <1>p

LEMMA PlacesAdded ==
  ASSUME NEW k \in Compiler, k.head <= Len(k.versions), VersionsInv(k), TapeInv(k), NEW l, LocalsInv(k, l), PlaceInv(k),
         NEW k2, NEW pc, NEW x, Added(k, k2, pc, x)
  PROVE  LocalsInv(k2, l) /\ PlaceInv(k2)
<1>1. k2.tape = k.tape /\ k2.status = k.status /\ k2.head = k.head
  BY DEF Added
<1>2. \A i \in DOMAIN k.labels : k2.labels[i] = k.labels[i]
  BY DEF Added
<1>3. \A v \in 1 .. k.head : v \in DOMAIN k.versions
  BY CompilerParts
<1>4. \A v \in 1 .. k.head : Place(k2, v) = Place(k, v)
  BY <1>2, <1>3 DEF Place, VersionsInv, Added
<1>5. PlaceInv(k2)
  BY <1>1, <1>4 DEF PlaceInv
<1>6. \A n \in DOMAIN k.tape : k.tape[n].op = "local" => k2.labels[k.tape[n].label] = k.labels[k.tape[n].label]
  BY <1>2 DEF TapeInv, WordInv, OwnLabel
<1>7. LocalsInv(k2, l)
  BY <1>1, <1>6 DEF LocalsInv
<1> QED BY <1>5, <1>7

LEMMA HaltedGood ==
  ASSUME NEW k \in Compiler, NEW l, Good(k, l), NEW k2, Halted(k, k2), k.status # "published", ~NoneRecursive
  PROVE  Good(k2, l) /\ Later(k, k2)
<1>1. /\ k2 \in Compiler /\ k2.versions = k.versions /\ k2.labels = k.labels /\ k2.head = k.head
      /\ k2.tape = k.tape /\ k2.status = "refused"
  BY DEF Halted
<1>2. k2.head <= Len(k2.versions) /\ VersionsInv(k2) /\ SpareInv(k2) /\ PlaceInv(k2) /\ LocalsInv(k2, l)
  <2>1. k2.head <= Len(k2.versions) /\ VersionsInv(k2)
    BY <1>1 DEF Good, VersionsInv
  <2>2. SpareInv(k2)
    BY DEF SpareInv
  <2>3. PlaceInv(k2)
    BY <1>1 DEF Good, PlaceInv, Place
  <2>4. LocalsInv(k2, l)
    BY <1>1 DEF LocalsInv
  <2> QED BY <2>1, <2>2, <2>3, <2>4
<1>5. LimitInv(k2)
  <2>1. \A pc, x : Family(k2, pc, x) = Family(k, pc, x)
    BY <1>1 DEF Family, Versions
  <2>2. \A i : FamilyOf(k2, i) = FamilyOf(k, i)
    BY <1>1, <2>1 DEF FamilyOf
  <2> QED BY <1>1, <2>2 DEF Good, LimitInv
<1>3. Later(k, k2)
  BY <1>1 DEF Later
<1>4. TapeInv(k2)
  BY <1>1 DEF Good, TapeInv, WordInv, LeadsTo, RoomFor, Cleared, OwnLabel
<1> QED BY <1>1, <1>2, <1>3, <1>4, <1>5 DEF Good

(* Asking for a version keeps the invariant, and what is answered fits.     *)
LEMMA MadeGood ==
  ASSUME NEW k \in Compiler, program \in Programs, NEW l, Good(k, l), k.status # "published", NEW pc \in DOMAIN Code,
         NEW x, Balanced(x), Justified(k, pc, x), NEW r, r = VersionFor(k, pc, x)
  PROVE  /\ Good(r.c, l) /\ Later(k, r.c) /\ r.c.status \in {k.status, "refused"} /\ r.c.tape = k.tape
         /\ r.c.status = k.status /\ k.status # "refused" =>
              r.v \in DOMAIN r.c.versions /\ r.c.versions[r.v].pc = pc /\ Fits(r.c.versions[r.v].in, x)
<1>1. pc \in Nat /\ x \in Context
  BY ProgramParts DEF Balanced
<1>2. CASE r.c = k /\ r.v \in DOMAIN k.versions /\ k.versions[r.v].pc = pc /\ Fits(k.versions[r.v].in, x)
  BY <1>2 DEF Later
<1>3. CASE Accepting(k, pc, x) = {} /\ Refused(k, pc, x) /\ Halted(k, r.c)
  <2>1. ~NoneRecursive
    BY <1>3, NotRefused DEF Good
  <2>2. Good(r.c, l) /\ Later(k, r.c)
    BY <1>3, <2>1, HaltedGood
  <2> QED BY <1>3, <2>2 DEF Halted
<1>4. CASE ~Refused(k, pc, x) /\ r.v = Len(k.versions) + 1 /\ Added(k, r.c, pc, x)
  <2>g. /\ k.head <= Len(k.versions) /\ VersionsInv(k) /\ LimitInv(k) /\ SpareInv(k) /\ TapeInv(k)
        /\ LocalsInv(k, l) /\ PlaceInv(k)
    BY DEF Good
  <2>p. PICK k2 : k2 = r.c
    OBVIOUS
  <2>a. Added(k, k2, pc, x)
    BY <1>4, <2>p
  <2>1. VersionsInv(k2)
    BY <2>a, <2>g, VersionsAdded
  <2>2. LimitInv(k2)
    BY <1>4, <2>a, <2>g, LimitAdded
  <2>3. SpareInv(k2)
    BY <2>a, <2>g, SpareAdded
  <2>4. TapeInv(k2)
    BY <2>a, <2>g, TapeAdded
  <2>5. LocalsInv(k2, l) /\ PlaceInv(k2)
    BY <2>a, <2>g, PlacesAdded
  <2>6. Later(k, k2)
    BY <2>a, AddedLater
  <2>7. k2 \in Compiler /\ k2.head <= Len(k2.versions) /\ k2.status = k.status /\ k2.tape = k.tape
    BY <2>a, <2>g, CompilerParts DEF Added
  <2>8. Fits(x, x)
    BY <1>1, ContextParts DEF Fits
  <2>9. r.v \in DOMAIN k2.versions /\ k2.versions[r.v].pc = pc /\ Fits(k2.versions[r.v].in, x)
    BY <1>4, <2>a, <2>8 DEF Added
  <2> QED BY <2>1, <2>2, <2>3, <2>4, <2>5, <2>6, <2>7, <2>9, <2>p DEF Good
<1> QED BY <1>1, <1>2, <1>3, <1>4, MadeEffect

-----------------------------------------------------------------------------
(* A word more keeps the invariant.                                         *)

Longer(k, k2, w) ==
  LET n == Len(k.tape) + 1
  IN  /\ k2 \in Compiler /\ k2.versions = k.versions /\ k2.labels = k.labels /\ k2.head = k.head /\ k2.status = k.status
      /\ DOMAIN k2.tape = DOMAIN k.tape \cup {n} /\ n \notin DOMAIN k.tape /\ Len(k2.tape) = n
      /\ k2.tape[n] = w /\ \A i \in DOMAIN k.tape : k2.tape[i] = k.tape[i]

LEMMA EmittedLonger ==
  ASSUME NEW k \in Compiler, NEW w \in TapeWord PROVE Longer(k, Emitted(k, w), w)
<1>1. k.tape \in Seq(TapeWord)
  BY CompilerParts
<1>t. PICK t : t = Append(k.tape, w)
  OBVIOUS
<1>2. /\ t \in Seq(TapeWord) /\ Len(t) = Len(k.tape) + 1 /\ t[Len(k.tape) + 1] = w
      /\ DOMAIN t = DOMAIN k.tape \cup {Len(k.tape) + 1} /\ Len(k.tape) + 1 \notin DOMAIN k.tape
      /\ \A i \in DOMAIN k.tape : t[i] = k.tape[i]
  BY <1>1, <1>t, AppendParts
<1>3. Emitted(k, w) = [k EXCEPT !.tape = t]
  BY <1>t DEF Emitted
<1>4. /\ Emitted(k, w) \in Compiler /\ Emitted(k, w).versions = k.versions /\ Emitted(k, w).labels = k.labels
      /\ Emitted(k, w).head = k.head /\ Emitted(k, w).status = k.status /\ Emitted(k, w).tape = t
  BY <1>2, <1>3 DEF Compiler
<1> QED BY <1>2, <1>4 DEF Longer

LEMMA LongerLater ==
  ASSUME NEW k, NEW k2, NEW w, Longer(k, k2, w) PROVE Later(k, k2)
BY DEF Longer, Later

LEMMA TapeLonger ==
  ASSUME NEW k \in Compiler, k.head <= Len(k.versions), TapeInv(k), k.status = "compiling", NEW k2, NEW w,
         Longer(k, k2, w), WordInv(k, w, Len(k.tape) + 1), w.target = 0
  PROVE  TapeInv(k2)
<1> DEFINE m == Len(k.tape) + 1
<1>1. k2.versions = k.versions /\ k2.labels = k.labels /\ k2.status = "compiling"
  BY DEF Longer
<1>2. DOMAIN k2.tape = DOMAIN k.tape \cup {m} /\ k2.tape[m] = w /\ \A i \in DOMAIN k.tape : k2.tape[i] = k.tape[i]
  BY DEF Longer
<1>3. Later(k, k2)
  BY LongerLater
<1>4. \A l : OwnLabel(k, l) => OwnLabel(k2, l)
  BY <1>1 DEF OwnLabel
<1>5. m \in Nat /\ \A i \in DOMAIN k.tape : i \in Nat
  BY CompilerParts
<1>6. WordInv(k2, w, m)
  <2>1. w.op = "local" => OwnLabel(k2, w.label)
    BY <1>4 DEF WordInv
  <2> QED BY <1>3, <1>5, <2>1, LaterWord
<1> HIDE DEF m
<1>7. ASSUME NEW n \in DOMAIN k.tape PROVE WordInv(k2, k.tape[n], n) /\ k.tape[n].target = 0
  <2>1. WordInv(k, k.tape[n], n) /\ k.tape[n].target = 0
    BY DEF TapeInv
  <2>2. k.tape[n].op = "local" => OwnLabel(k2, k.tape[n].label)
    BY <1>4, <2>1 DEF WordInv
  <2>3. n \in Nat
    BY <1>5
  <2>p. PICK u : u = k.tape[n]
    OBVIOUS
  <2>4. WordInv(k2, u, n)
    BY <1>3, <2>1, <2>2, <2>3, <2>p, LaterWord
  <2> QED BY <2>1, <2>4, <2>p
<1>8. ASSUME NEW n \in DOMAIN k2.tape PROVE WordInv(k2, k2.tape[n], n) /\ k2.tape[n].target = 0
  BY <1>2, <1>6, <1>7
<1> QED BY <1>1, <1>8 DEF TapeInv

LEMMA PlacesLonger ==
  ASSUME NEW k \in Compiler, PlaceInv(k), k.head # 0, NEW k2, NEW w, Longer(k, k2, w), w.of = k.head
  PROVE  PlaceInv(k2) /\ Place(k2, k2.head) \in DOMAIN k2.tape
<1> DEFINE m == Len(k.tape) + 1
<1>1. /\ k2.versions = k.versions /\ k2.labels = k.labels /\ k2.head = k.head
      /\ DOMAIN k2.tape = DOMAIN k.tape \cup {m} /\ Len(k2.tape) = m
      /\ k2.tape[m] = w /\ \A i \in DOMAIN k.tape : k2.tape[i] = k.tape[i]
  BY DEF Longer
<1>2. Len(k.tape) \in Nat /\ DOMAIN k.tape = 1 .. Len(k.tape) /\ k.head \in Nat
  BY CompilerParts
<1>3. \A v : Place(k2, v) = Place(k, v)
  BY <1>1 DEF Place
<1>4. ASSUME NEW v \in 1 .. k.head
      PROVE  /\ Place(k, v) \in 1 .. m
             /\ Place(k, v) = m \/ Place(k, v) \in DOMAIN k.tape
             /\ Place(k, v) \in DOMAIN k.tape => k.tape[Place(k, v)].of = v
             /\ v # k.head => Place(k, v) \in DOMAIN k.tape
             /\ \A i \in DOMAIN k.tape : i < Place(k, v) => k.tape[i].of # v
  BY <1>2 DEF PlaceInv
<1>5. m \in Nat /\ m \notin DOMAIN k.tape
  BY <1>2
<1>6. ASSUME NEW v \in 1 .. k.head
      PROVE  /\ Place(k, v) \in 1 .. m + 1
             /\ Place(k, v) \in DOMAIN k2.tape /\ k2.tape[Place(k, v)].of = v
             /\ \A i \in DOMAIN k2.tape : i < Place(k, v) => k2.tape[i].of # v
  <2>1. Place(k, v) \in 1 .. m + 1 /\ ~(m < Place(k, v))
    BY <1>4, <1>5
  <2>2. Place(k, v) \in DOMAIN k2.tape /\ k2.tape[Place(k, v)].of = v
    <3>1. CASE Place(k, v) = m
      <4>1. v = k.head
        BY <1>4, <1>5, <3>1
      <4> QED BY <1>1, <3>1, <4>1
    <3>2. CASE Place(k, v) \in DOMAIN k.tape
      BY <1>1, <1>4, <3>2
    <3> QED BY <1>4, <3>1, <3>2
  <2>3. ASSUME NEW i \in DOMAIN k2.tape, i < Place(k, v) PROVE k2.tape[i].of # v
    <3>1. i # m
      BY <2>1, <2>3
    <3>2. i \in DOMAIN k.tape
      BY <1>1, <3>1
    <3> QED BY <1>1, <1>4, <2>3, <3>2
  <2> QED BY <2>1, <2>2, <2>3
<1>7. k.head \in 1 .. k.head
  BY <1>2
<1> HIDE DEF m
<1> QED BY <1>1, <1>3, <1>6, <1>7 DEF PlaceInv

LEMMA LocalsLonger ==
  ASSUME NEW k \in Compiler, TapeInv(k), NEW l, LocalsInv(k, l), k.status = "compiling", NEW k2, NEW w, Longer(k, k2, w),
         w.op = "local" => w.label = l /\ w.of = k.head
  PROVE  /\ LocalsInv(k2, l)
         /\ k.labels[l] = Len(k.tape) + 1 /\ w.op # "local" /\ w.of = k.head => LocalsInv(k2, 0)
<1> DEFINE m == Len(k.tape) + 1
<1>1. /\ k2.labels = k.labels /\ k2.head = k.head
      /\ DOMAIN k2.tape = DOMAIN k.tape \cup {m} /\ k2.tape[m] = w /\ \A i \in DOMAIN k.tape : k2.tape[i] = k.tape[i]
  BY DEF Longer
<1> HIDE DEF m
<1>2. ASSUME NEW n \in DOMAIN k.tape, k.tape[n].op = "local"
      PROVE  /\ k.tape[n].label # 0
             /\ IF k.tape[n].label = l THEN k.tape[n].of = k.head
                ELSE k.labels[k.tape[n].label] \in DOMAIN k.tape /\ k.tape[k.labels[k.tape[n].label]].of = k.tape[n].of
  BY <1>2 DEF LocalsInv, TapeInv, WordInv
<1>3. LocalsInv(k2, l)
  BY <1>1, <1>2 DEF LocalsInv
<1>4. ASSUME k.labels[l] = m, w.op # "local", w.of = k.head
      PROVE  LocalsInv(k2, 0)
  BY <1>1, <1>2, <1>4 DEF LocalsInv
<1> QED BY <1>3, <1>4 DEF m

LEMMA EmitGood ==
  ASSUME NEW k \in Compiler, NEW l, Good(k, l), k.status = "compiling", k.head # 0,
         NEW w \in TapeWord, WordInv(k, w, Len(k.tape) + 1), w.of = k.head, w.target = 0, w.op = "local" => w.label = l,
         NEW k2, k2 = Emitted(k, w)
  PROVE  /\ Good(k2, l) /\ Later(k, k2) /\ Longer(k, k2, w) /\ Place(k2, k2.head) \in DOMAIN k2.tape
         /\ k.labels[l] = Len(k.tape) + 1 /\ w.op # "local" => Good(k2, 0)
<1>g. /\ k.head <= Len(k.versions) /\ VersionsInv(k) /\ LimitInv(k) /\ SpareInv(k) /\ TapeInv(k)
      /\ LocalsInv(k, l) /\ PlaceInv(k)
  BY DEF Good
<1>1. Longer(k, k2, w)
  BY EmittedLonger
<1>2. /\ k2 \in Compiler /\ k2.versions = k.versions /\ k2.labels = k.labels /\ k2.head = k.head /\ k2.status = k.status
  BY <1>1 DEF Longer
<1>3. k2.head <= Len(k2.versions) /\ VersionsInv(k2)
  BY <1>g, <1>2 DEF VersionsInv
<1>4. LimitInv(k2) /\ SpareInv(k2)
  <2>1. \A pc, x : Family(k2, pc, x) = Family(k, pc, x)
    BY <1>2 DEF Family, Versions
  <2>2. \A i : FamilyOf(k2, i) = FamilyOf(k, i)
    BY <1>2, <2>1 DEF FamilyOf
  <2> QED BY <1>g, <1>2, <2>2 DEF LimitInv, SpareInv
<1>5. TapeInv(k2)
  BY <1>g, <1>1, TapeLonger
<1>6. PlaceInv(k2) /\ Place(k2, k2.head) \in DOMAIN k2.tape
  BY <1>g, <1>1, PlacesLonger
<1>7. LocalsInv(k2, l) /\ (k.labels[l] = Len(k.tape) + 1 /\ w.op # "local" => LocalsInv(k2, 0))
  BY <1>g, <1>1, LocalsLonger
<1>8. Later(k, k2)
  BY <1>1, LongerLater
<1> QED BY <1>1, <1>2, <1>3, <1>4, <1>5, <1>6, <1>7, <1>8 DEF Good

-----------------------------------------------------------------------------
(* The words an instruction emits.                                          *)

LEMMA BlankParts == NoContext \in Context /\ NoEdge \in Passage /\ NoContext.cells = <<>>
<1>1. <<>> \in Seq(Cell) /\ <<>> \in Seq(Caller)
  OBVIOUS
<1>2. NoContext \in Context /\ NoContext.cells = <<>>
  BY <1>1 DEF NoContext, Context
<1> QED BY <1>2 DEF NoEdge, Passage

LEMMA WordParts ==
  ASSUME at.v \in Nat, NEW op \in WordOps, NEW label \in Nat, NEW cells \in Nat, NEW edge \in Passage,
         NEW w, w = Word(op, label, cells, edge)
  PROVE  /\ w \in TapeWord /\ w.op = op /\ w.of = at.v /\ w.label = label /\ w.target = 0 /\ w.cells = cells
         /\ w.edge = edge
BY DEF Word, TapeWord

LEMMA PlainGood ==
  ASSUME NEW k \in Compiler, NEW l, Good(k, l), k.status = "compiling", k.head # 0, at.v = k.head,
         NEW op \in {"code", "return", "guard"}, NEW cells \in Nat, NEW k2, k2 = Emitted(k, Word(op, 0, cells, NoEdge))
  PROVE  /\ Good(k2, l) /\ Later(k, k2) /\ Place(k2, k2.head) \in DOMAIN k2.tape /\ k2.status = "compiling"
         /\ Longer(k, k2, Word(op, 0, cells, NoEdge))
<1>1. at.v \in Nat /\ k.head \in 1 .. k.head
  BY CompilerParts
<1>z. 0 \in Nat /\ op \in WordOps
  BY DEF WordOps
<1>w. PICK w : w = Word(op, 0, cells, NoEdge)
  OBVIOUS
<1>2. w \in TapeWord /\ w.op = op /\ w.of = at.v /\ w.label = 0 /\ w.target = 0
  BY <1>1, <1>z, <1>w, BlankParts, WordParts
<1>3. WordInv(k, w, Len(k.tape) + 1)
  BY <1>1, <1>2 DEF WordInv, Leads
<1>4. w.op = "local" => w.label = l
  BY <1>2
<1>5. Good(k2, l) /\ Later(k, k2) /\ Longer(k, k2, w) /\ Place(k2, k2.head) \in DOMAIN k2.tape
  BY <1>2, <1>3, <1>4, <1>w, EmitGood
<1> QED BY <1>5, <1>w DEF Longer

(* Room that was looked for is free.                                        *)
LEMMA EnsuredParts ==
  ASSUME NEW x, Balanced(x), NEW cells \in Nat
  PROVE  /\ Balanced(Ensured(x, cells)) /\ Ensured(x, cells).cells = x.cells /\ Ensured(x, cells).cont = x.cont
         /\ Ensured(x, cells).generic = x.generic
         /\ Ensured(x, cells).room = IF cells <= x.room THEN x.room ELSE cells
BY DEF Ensured, Balanced, Context

LEMMA RoomyGood ==
  ASSUME NEW k \in Compiler, NEW l, Good(k, l), k.status = "compiling", k.head # 0, at.v = k.head,
         NEW x, Balanced(x), NEW cells \in Nat, Cleared(k, k.head, Len(k.tape), x.room), NEW k2, k2 = Roomy(k, x, cells)
  PROVE  /\ Good(k2, l) /\ Later(k, k2) /\ k2.status = "compiling"
         /\ Cleared(k2, k2.head, Len(k2.tape), Ensured(x, cells).room)
<1>1. CASE cells <= x.room
  BY <1>1, EnsuredParts DEF Roomy, Later
<1>2. CASE ~(cells <= x.room)
  <2>1. k2 = Emitted(k, Word("guard", 0, cells, NoEdge))
    BY <1>2 DEF Roomy
  <2>w. PICK w : w = Word("guard", 0, cells, NoEdge)
    OBVIOUS
  <2>2. /\ Good(k2, l) /\ Later(k, k2) /\ k2.status = "compiling" /\ Longer(k, k2, w)
    BY <2>1, <2>w, PlainGood
  <2>3. at.v \in Nat /\ 0 \in Nat /\ "guard" \in WordOps
    BY CompilerParts DEF WordOps
  <2>4. w.op = "guard" /\ w.of = at.v /\ w.cells = cells
    BY <2>3, <2>w, BlankParts, WordParts
  <2>5. /\ DOMAIN k2.tape = DOMAIN k.tape \cup {Len(k.tape) + 1} /\ Len(k2.tape) = Len(k.tape) + 1
        /\ k2.tape[Len(k.tape) + 1] = w /\ k2.head = k.head
    BY <2>2 DEF Longer
  <2>6. Ensured(x, cells).room = cells
    BY <1>2, EnsuredParts
  <2>7. Len(k2.tape) \in DOMAIN k2.tape /\ Len(k2.tape) <= Len(k2.tape) /\ cells >= cells
    BY <2>5, CompilerParts
  <2> QED BY <2>2, <2>4, <2>5, <2>6, <2>7 DEF Cleared
<1> QED BY <1>1, <1>2

(* Room that is free is free for less.                                      *)
LEMMA ClearedLess ==
  ASSUME NEW k \in Compiler, NEW v \in DOMAIN k.versions, NEW n, NEW room \in Nat, NEW less \in Nat, less <= room,
         Cleared(k, v, n, room)
  PROVE  Cleared(k, v, n, less)
<1>1. k.versions[v].in.room \in Nat
  BY CompilerParts, ContextParts
<1>2. \A j \in DOMAIN k.tape : k.tape[j].cells \in Nat
  BY CompilerParts DEF TapeWord
<1> QED BY <1>1, <1>2 DEF Cleared

LEMMA MadeLabels ==
  ASSUME NEW k \in Compiler, NEW pc \in Nat, NEW x \in Context, NEW r, r = VersionFor(k, pc, x)
  PROVE  \A i \in DOMAIN k.labels : r.c.labels[i] = k.labels[i]
<1>1. CASE r.c = k
  BY <1>1
<1>2. CASE Halted(k, r.c)
  BY <1>2 DEF Halted
<1>3. CASE Added(k, r.c, pc, x)
  BY <1>3 DEF Added
<1> QED BY <1>1, <1>2, <1>3, MadeEffect

(* What an edge owes the version it is in; a call owes it nothing.          *)
Handed(k, op, from, to, was, sent) ==
  op # "call" => /\ k.versions[k.head].in.generic => sent.generic
                 /\ Cleared(k, k.head, Len(k.tape) + 1, sent.room)
                 /\ to <= from => \A n \in DOMAIN was.cells : was.cells[n].kind = "const" => Told(sent.cells[n])

(* A word that leads to a version that fits keeps the invariant.            *)
LEMMA LeadingGood ==
  ASSUME NEW k \in Compiler, NEW l, Good(k, l), k.status = "compiling", k.head # 0, at.v = k.head,
         NEW op \in {"jump", "branch", "call"}, NEW v \in DOMAIN k.versions, NEW from \in Nat, NEW to \in Nat,
         NEW was \in Context, NEW sent \in Context, k.versions[v].pc = to, Fits(k.versions[v].in, sent),
         Handed(k, op, from, to, was, sent),
         NEW k2, k2 = Leading(k, op, v, from, to, was, sent)
  PROVE  /\ Good(k2, l) /\ Later(k, k2) /\ k2.status = "compiling" /\ Place(k2, k2.head) \in DOMAIN k2.tape
         /\ k.labels[l] = Len(k.tape) + 1 => Good(k2, 0)
<1>1. at.v \in Nat /\ k.head \in 1 .. k.head
  BY CompilerParts
<1>l. PICK label : label = k.versions[v].label
  OBVIOUS
<1>2. label \in Nat /\ label # 0 /\ op \in WordOps /\ 0 \in Nat
  BY <1>l, CompilerParts DEF Good, VersionsInv, WordOps
<1>e. PICK edge : edge = [to |-> to, from |-> from, was |-> was, sent |-> sent]
  OBVIOUS
<1>3. edge \in Passage /\ edge.to = to /\ edge.from = from /\ edge.was = was /\ edge.sent = sent
  BY <1>e DEF Passage
<1>w. PICK w : w = Word(op, label, 0, edge)
  OBVIOUS
<1>4. w \in TapeWord /\ w.op = op /\ w.of = at.v /\ w.label = label /\ w.target = 0 /\ w.edge = edge
  BY <1>1, <1>2, <1>3, <1>w, WordParts
<1>5. k2 = Emitted(k, w)
  BY <1>e, <1>l, <1>w DEF Leading
<1>6. LeadsTo(k, w, v)
  BY <1>3, <1>4, <1>l DEF LeadsTo
<1>7. Forgetful(w)
  BY <1>3, <1>4 DEF Forgetful, Handed
<1>8. RoomFor(k, w, Len(k.tape) + 1)
  BY <1>3, <1>4 DEF RoomFor, Handed
<1>9. WordInv(k, w, Len(k.tape) + 1)
  <2>1. w.of \in 1 .. k.head
    BY <1>1, <1>4
  <2>2. w.label # 0 /\ w.op \notin {"code", "guard", "return", "local"}
    BY <1>2, <1>4
  <2> QED BY <1>6, <1>7, <1>8, <2>1, <2>2 DEF WordInv
<1>10. w.op # "local"
  BY <1>4
<1>11. /\ Good(k2, l) /\ Later(k, k2) /\ Longer(k, k2, w) /\ Place(k2, k2.head) \in DOMAIN k2.tape
       /\ k.labels[l] = Len(k.tape) + 1 => Good(k2, 0)
  BY <1>4, <1>5, <1>9, <1>10, EmitGood
<1> QED BY <1>11 DEF Longer

(* An edge, to a version that is there or a new one.                        *)
LEMMA EdgeGood ==
  ASSUME program \in Programs, NEW k \in Compiler, NEW l, Good(k, l), k.status \in {"compiling", "refused"},
         k.head # 0, at.v = k.head, NEW op \in {"jump", "branch"}, NEW from \in Nat, NEW to \in DOMAIN Code,
         NEW x, Balanced(x), k.versions[k.head].in.generic => x.generic, Cleared(k, k.head, Len(k.tape), x.room),
         NEW k2, k2 = Edge(k, op, from, to, x)
  PROVE  /\ Good(k2, l) /\ Later(k, k2) /\ k2.status \in {"compiling", "refused"}
         /\ k2.status = "compiling" => k.status = "compiling" /\ Place(k2, k2.head) \in DOMAIN k2.tape
         /\ l \in DOMAIN k.labels /\ k.labels[l] = Len(k.tape) + 1 => Good(k2, 0)
<1>1. CASE k.status = "refused"
  <2>1. k2 = k
    BY <1>1 DEF Edge
  <2>2. Good(k, 0)
    BY <1>1 DEF Good, LocalsInv
  <2> QED BY <1>1, <2>1, <2>2 DEF Later
<1>2. CASE k.status = "compiling"
  <2>s. PICK sent : sent = EdgeContext(k, from, to, x)
    OBVIOUS
  <2>r. PICK r : r = VersionFor(k, to, sent)
    OBVIOUS
  <2>k. PICK k1 : k1 = r.c
    OBVIOUS
  <2>1. k2 = Leading(k1, op, r.v, from, to, x, sent)
    BY <1>2, <2>s, <2>r, <2>k DEF Edge
  <2>2. to \in Nat /\ x \in Context
    BY ProgramParts DEF Balanced
  <2>3. /\ sent \in Context /\ SameFamily(x, sent) /\ (x.generic => sent.generic) /\ sent.room <= x.room
        /\ to <= from => \A n \in DOMAIN x.cells : x.cells[n].kind = "const" => Told(sent.cells[n])
        /\ Cardinality(Family(k, to, sent)) >= Limit - 1 => Canonical(sent)
    BY <2>2, <2>s, EdgeContextFacts
  <2>4. Balanced(sent) /\ Justified(k, to, sent)
    BY <2>3 DEF Balanced, SameFamily, Justified
  <2>5. /\ Good(k1, l) /\ Later(k, k1) /\ k1.status \in {"compiling", "refused"} /\ k1.tape = k.tape
        /\ k1.status = "compiling" => r.v \in DOMAIN k1.versions /\ k1.versions[r.v].pc = to /\ Fits(k1.versions[r.v].in, sent)
    BY <1>2, <2>4, <2>r, <2>k, MadeGood
  <2>6. \A i \in DOMAIN k.labels : k1.labels[i] = k.labels[i]
    BY <2>2, <2>3, <2>r, <2>k, MadeLabels
  <2>7. CASE k1.status = "refused"
    <3>1. k2 = k1
      BY <2>1, <2>7 DEF Leading
    <3>2. Good(k1, 0)
      BY <2>5, <2>7 DEF Good, LocalsInv
    <3> QED BY <2>5, <2>7, <3>1, <3>2
  <2>8. CASE k1.status = "compiling"
    <3>1. k1 \in Compiler /\ k1.head = k.head /\ k1.head # 0 /\ at.v = k1.head
      BY <2>5 DEF Good, Later
    <3>2. k.head \in DOMAIN k.versions /\ Len(k.tape) \in Nat /\ Len(k.tape) + 1 \in Nat /\ Len(k.tape) <= Len(k.tape) + 1
      BY CompilerParts DEF Good
    <3>3. k1.versions[k1.head] = k.versions[k.head]
      BY <2>5, <3>1, <3>2 DEF Later
    <3>4. x.room \in Nat /\ sent.room \in Nat
      BY <2>2, <2>3, ContextParts
    <3>5. Cleared(k, k.head, Len(k.tape), sent.room)
      BY <2>3, <3>2, <3>4, ClearedLess
    <3>6. Cleared(k1, k1.head, Len(k1.tape) + 1, sent.room)
      <4>1. Cleared(k1, k.head, Len(k.tape) + 1, sent.room)
        BY <2>5, <3>2, <3>5, LaterCleared
      <4> QED BY <2>5, <3>1, <4>1
    <3>7. k1.versions[k1.head].in.generic => sent.generic
      BY <2>3, <3>3
    <3>v. PICK v : v = r.v
      OBVIOUS
    <3>8. v \in DOMAIN k1.versions /\ k1.versions[v].pc = to /\ Fits(k1.versions[v].in, sent)
      BY <2>5, <2>8, <3>v
    <3>9. /\ Good(k2, l) /\ Later(k1, k2) /\ k2.status = "compiling" /\ Place(k2, k2.head) \in DOMAIN k2.tape
          /\ k1.labels[l] = Len(k1.tape) + 1 => Good(k2, 0)
      <4>1. /\ k1 \in Compiler /\ Good(k1, l) /\ k1.status = "compiling" /\ k1.head # 0 /\ at.v = k1.head
            /\ from \in Nat /\ to \in Nat /\ x \in Context /\ sent \in Context
        BY <2>2, <2>3, <2>5, <2>8, <3>1
      <4>2. op \in {"jump", "branch", "call"}
        OBVIOUS
      <4>3. Handed(k1, op, from, to, x, sent)
        BY <2>3, <3>6, <3>7 DEF Handed
      <4>4. k2 = Leading(k1, op, v, from, to, x, sent)
        BY <2>1, <3>v
      <4> QED BY <3>8, <4>1, <4>2, <4>3, <4>4, LeadingGood
    <3>10. Later(k, k2)
      BY <2>5, <3>9, LaterTwice
    <3> QED BY <1>2, <2>5, <2>6, <3>9, <3>10
  <2> QED BY <2>5, <2>7, <2>8
<1> QED BY <1>1, <1>2

-----------------------------------------------------------------------------
(* Instructions.                                                            *)

LEMMA AtWork ==
  ASSUME VInv, c.status = "compiling", at # Idle
  PROVE  /\ program \in Programs /\ c \in Compiler /\ Good(c, 0) /\ c.head # 0 /\ c.head \in DOMAIN c.versions
         /\ at \in [v : Nat, pc : Nat, x : Context, fresh : BOOLEAN]
         /\ at.v = c.head /\ at.pc \in DOMAIN Code /\ at.pc \in Nat /\ Balanced(at.x) /\ at.x \in Context
         /\ at.x.generic = c.versions[c.head].in.generic /\ Cleared(c, c.head, Len(c.tape), at.x.room)
         /\ run.v = 0 /\ run \in [v : Nat, room : Nat]
         /\ Len(c.tape) \in Nat
<1>1. program \in Programs /\ c \in Compiler /\ Good(c, 0) /\ run.v = 0 /\ run \in [v : Nat, room : Nat]
      /\ at \in [v : Nat, pc : Nat, x : Context, fresh : BOOLEAN]
  BY DEF VInv, Types, RunInv
<1>2. /\ at.v = c.head /\ c.head # 0 /\ at.pc \in DOMAIN Code /\ Balanced(at.x)
      /\ at.x.generic = c.versions[c.head].in.generic /\ Cleared(c, c.head, Len(c.tape), at.x.room)
  BY DEF VInv, AtInv
<1>3. c.head \in DOMAIN c.versions /\ Len(c.tape) \in Nat
  BY <1>1, <1>2, CompilerParts DEF Good
<1>4. at.pc \in Nat /\ at.x \in Context
  BY <1>1
<1> QED BY <1>1, <1>2, <1>3, <1>4

LEMMA NoneRecursiveStays == ASSUME program' = program PROVE NoneRecursive' <=> NoneRecursive
BY DEF NoneRecursive, Recursive, Reached, Calls, Code, Functions

LEMMA GoodStays ==
  ASSUME program' = program, NEW k, c' = k, Good(k, 0)
  PROVE  Good(c, 0)' /\ c' \in Compiler /\ c'.head <= Len(c'.versions)
<1>1. VersionsInv(c)'
  BY DEF Good, VersionsInv, Balanced, Code, Functions, Entry, EntryContext
<1>2. SpareInv(c)'
  BY NoneRecursiveStays DEF Good, SpareInv
<1>3. LimitInv(c)' /\ TapeInv(c)' /\ LocalsInv(c, 0)' /\ PlaceInv(c)'
  BY DEF Good
<1> QED BY <1>1, <1>2, <1>3 DEF Good

LEMMA BalancedStays == ASSUME program' = program, NEW x, Balanced(x), at'.x = x PROVE Balanced(at.x)'
BY DEF Balanced, Code

LEMMA GoesKeeps ==
  ASSUME VInv, c.status = "compiling", at # Idle, NEW k, NEW x, Goes(k, x), Good(k, 0), Later(c, k),
         k.status \in {"compiling", "refused"}, Balanced(x), x.generic = at.x.generic,
         Cleared(k, c.head, Len(k.tape), x.room), at.pc + 1 \in DOMAIN Code
  PROVE  VInv'
<1>1. /\ program \in Programs /\ c.head # 0 /\ c.head \in DOMAIN c.versions /\ at.v = c.head
      /\ at.x.generic = c.versions[c.head].in.generic /\ run.v = 0 /\ run \in [v : Nat, room : Nat]
      /\ at \in [v : Nat, pc : Nat, x : Context, fresh : BOOLEAN] /\ at.pc \in Nat
  BY AtWork
<1>2. c' = k /\ program' = program /\ run' = run /\ at' = [at EXCEPT !.pc = at.pc + 1, !.x = x, !.fresh = FALSE]
  BY DEF Goes, Next1
<1>x. x \in Context
  BY DEF Balanced
<1>b. PICK b \in BOOLEAN : b = FALSE
  OBVIOUS
<1>p. PICK p \in Nat : p = at.pc + 1
  BY <1>1
<1>3. /\ at' \in [v : Nat, pc : Nat, x : Context, fresh : BOOLEAN] /\ at'.v = at.v /\ at'.pc = p /\ at'.x = x
  BY <1>1, <1>2, <1>x, <1>b, <1>p
<1>4. Good(c, 0)' /\ c' \in Compiler /\ c'.head <= Len(c'.versions)
  BY <1>2, GoodStays
<1>5. Types'
  BY <1>1, <1>2, <1>3, <1>4 DEF Types
<1>6. at' # Idle
  BY <1>1, <1>3 DEF Idle
<1>7. AtInv'
  <2>1. k.head = c.head /\ k.versions[c.head] = c.versions[c.head]
    BY <1>1 DEF Later
  <2>2. Balanced(at.x)'
    BY <1>2, <1>3, BalancedStays
  <2>3. at'.pc \in DOMAIN Code'
    BY <1>2, <1>3, <1>p DEF Code
  <2>4. Cleared(c', at'.v, Len(c'.tape), at'.x.room)
    BY <1>1, <1>2, <1>3
  <2>5. at'.v = c'.head /\ c'.head # 0 /\ at'.x.generic = c'.versions[at'.v].in.generic
    BY <1>1, <1>2, <1>3, <2>1
  <2>6. Idle' = Idle
    BY DEF Idle, NoContext
  <2> QED BY <1>6, <2>2, <2>3, <2>4, <2>5, <2>6 DEF AtInv
<1>8. RunInv'
  BY <1>1, <1>2 DEF RunInv
<1> QED BY <1>4, <1>5, <1>7, <1>8 DEF VInv

LEMMA EndsKeeps ==
  ASSUME VInv, c.status = "compiling", at # Idle, NEW k, Ends(k), Good(k, 0),
         k.status \in {"compiling", "refused"}, k.status = "compiling" => Place(k, k.head) \in DOMAIN k.tape
  PROVE  VInv'
<1>1. program \in Programs /\ run.v = 0 /\ run \in [v : Nat, room : Nat]
  BY AtWork
<1>2. c' = k /\ program' = program /\ run' = run /\ at' = Idle
  BY DEF Ends
<1>3. Good(c, 0)' /\ c' \in Compiler /\ c'.head <= Len(c'.versions)
  BY <1>2, GoodStays
<1>4. Idle \in [v : Nat, pc : Nat, x : Context, fresh : BOOLEAN]
  BY BlankParts DEF Idle
<1>5. Types'
  BY <1>1, <1>2, <1>3, <1>4 DEF Types
<1>6. AtInv'
  <2>1. Idle' = Idle
    BY DEF Idle, NoContext
  <2> QED BY <1>2, <2>1 DEF AtInv
<1>7. RunInv'
  BY <1>1, <1>2 DEF RunInv
<1> QED BY <1>3, <1>5, <1>6, <1>7 DEF VInv

LEMMA LikeBalanced ==
  ASSUME NEW x, Balanced(x), NEW y, Like(x, y)
  PROVE  Balanced(y) /\ y.generic = x.generic /\ y.room = x.room /\ y \in Context
BY DEF Balanced, Like

LEMMA TopIn == ASSUME NEW x, Balanced(x) PROVE Top(x) \in DOMAIN x.cells /\ x.cells[Top(x)] \in Cell /\ Depth(x) \in Nat
<1>1. x \in Context /\ Len(x.cells) = Len(x.cont) + 1 /\ Len(x.cont) \in Nat
  BY ContextParts, LenProperties DEF Balanced
<1> QED BY <1>1, ContextParts DEF Top, Depth

LEMMA GoesLike ==
  ASSUME VInv, c.status = "compiling", at # Idle, NEW k, k \in {c, Emitted(c, Plain("code"))}, NEW x, Like(at.x, x),
         Goes(k, x), at.pc + 1 \in DOMAIN Code
  PROVE  VInv'
<1>1. /\ c \in Compiler /\ Good(c, 0) /\ c.head # 0 /\ c.head \in DOMAIN c.versions /\ at.v = c.head /\ Balanced(at.x)
      /\ Cleared(c, c.head, Len(c.tape), at.x.room) /\ Len(c.tape) \in Nat
  BY AtWork
<1>2. Good(k, 0) /\ Later(c, k) /\ k.status = "compiling"
  <2>1. CASE k = c
    BY <1>1, <2>1 DEF Later
  <2>2. CASE k = Emitted(c, Plain("code"))
    <3>1. 0 \in Nat /\ "code" \in {"code", "return", "guard"} /\ k = Emitted(c, Word("code", 0, 0, NoEdge))
      BY <2>2 DEF Plain
    <3> QED BY <1>1, <3>1, PlainGood
  <2> QED BY <2>1, <2>2
<1>3. Balanced(x) /\ x.generic = at.x.generic /\ x.room = at.x.room
  BY <1>1, LikeBalanced
<1>4. Cleared(k, c.head, Len(k.tape), x.room)
  <2>1. DOMAIN c.tape \subseteq DOMAIN k.tape /\ k \in Compiler
    BY <1>2 DEF Later
  <2>2. Len(c.tape) <= Len(k.tape) /\ Len(k.tape) \in Nat
    <3>1. /\ Len(k.tape) \in Nat /\ DOMAIN k.tape = 1 .. Len(k.tape) /\ Len(c.tape) \in Nat
          /\ DOMAIN c.tape = 1 .. Len(c.tape)
      BY <1>1, <2>1, CompilerParts
    <3>2. Len(c.tape) # 0 => Len(c.tape) \in DOMAIN k.tape
      BY <2>1, <3>1
    <3> QED BY <3>1, <3>2
  <2> QED BY <1>1, <1>2, <1>3, <2>2, LaterCleared
<1> QED BY <1>2, <1>3, <1>4, GoesKeeps

LEMMA CompilingParts ==
  ASSUME VInv, NEW op, Compiling(op)
  PROVE  /\ c.status = "compiling" /\ at # Idle /\ Code[at.pc].op = op /\ Code[at.pc].arg \in Nat
         /\ op \notin {"jump", "ret", "tail"} => at.pc + 1 \in DOMAIN Code
         /\ op \in {"jump", "branch"} => Code[at.pc].arg \in DOMAIN Code
         /\ op \in {"call", "tail"} => Code[at.pc].arg \in DOMAIN Functions
<1>1. c.status = "compiling" /\ at # Idle /\ Code[at.pc].op = op
  BY DEF Compiling, Instruction
<1>2. program \in Programs /\ at.pc \in DOMAIN Code
  BY <1>1, AtWork
<1> QED BY <1>1, <1>2, ProgramParts

LEMMA SimpleKeeps == ASSUME VInv, Literal \/ Load \/ Use \/ Add PROVE VInv'
<1>1. ASSUME NEW op, Compiling(op) PROVE at.x \in Context /\ Top(at.x) \in DOMAIN at.x.cells /\ at.x.cells[Top(at.x)] \in Cell
  BY <1>1, CompilingParts, AtWork, TopIn
<1>2. CASE Literal
  <2>1. Compiling("const")
    BY <1>2 DEF Literal
  <2>x. PICK x : x = SetTop(at.x, Const(Code[at.pc].arg))
    OBVIOUS
  <2>2. Const(Code[at.pc].arg) \in Cell
    BY <2>1, CompilingParts, CellsOf
  <2>3. Like(at.x, x)
    BY <1>1, <2>1, <2>2, <2>x, SetCells DEF SetTop
  <2>4. Goes(c, x)
    BY <1>2, <2>x DEF Literal, Instruction
  <2> QED BY <2>1, <2>3, <2>4, CompilingParts, GoesLike
<1>3. CASE Load
  <2>1. Compiling("load")
    BY <1>3 DEF Load
  <2>r. PICK r \in Nat : r = Free(at.x)
    BY FreeIsRegister
  <2>y. PICK y : y = Spilled(at.x, r)
    OBVIOUS
  <2>x. PICK x : x = SetTop(y, Reg(r))
    OBVIOUS
  <2>2. Like(at.x, y) /\ y \in Context /\ Reg(r) \in Cell
    <3>1. Like(at.x, y)
      BY <1>1, <2>1, <2>y, SpilledCells
    <3> QED BY <3>1, CellsOf DEF Like
  <2>3. Like(y, x)
    BY <2>2, <2>x, SetCells DEF SetTop
  <2>4. Like(at.x, x)
    BY <2>2, <2>3, LikeTwice
  <2>5. Goes(Emitted(c, Plain("code")), x)
    BY <1>3, <2>r, <2>y, <2>x DEF Load
  <2> QED BY <2>1, <2>4, <2>5, CompilingParts, GoesLike
<1>4. ASSUME Goes(Emitted(c, Plain("code")), Materialized(at.x, Top(at.x))), NEW op \in {"use", "add"}, Compiling(op)
      PROVE  VInv'
  <2>1. Like(at.x, Materialized(at.x, Top(at.x)))
    BY <1>1, <1>4, MaterializedCells
  <2> QED BY <1>4, <2>1, CompilingParts, GoesLike
<1>5. CASE Use
  BY <1>4, <1>5 DEF Use
<1>6. CASE Add
  <2>1. Compiling("add")
    BY <1>6 DEF Add
  <2>d. PICK d : d = at.x.cells[Top(at.x)]
    OBVIOUS
  <2>2. CASE d.kind = "const"
    <3>n. PICK n : n = (d.rest + 1) % WasHome
      OBVIOUS
    <3>1. n \in Nat
      <4>1. d.rest \in Nat
        BY <1>1, <2>1, <2>d DEF Cell
      <4> QED BY <3>n, <4>1 DEF WasHome
    <3>x. PICK x : x = SetTop(at.x, Const(n))
      OBVIOUS
    <3>2. Const(n) \in Cell
      BY <3>1, CellsOf
    <3>3. Like(at.x, x)
      BY <1>1, <2>1, <3>2, <3>x, SetCells DEF SetTop
    <3>4. Goes(c, x)
      BY <1>6, <2>2, <2>d, <3>n, <3>x DEF Add
    <3> QED BY <2>1, <3>3, <3>4, CompilingParts, GoesLike
  <2>3. CASE d.kind # "const"
    BY <1>4, <1>6, <2>1, <2>3, <2>d DEF Add
  <2> QED BY <2>2, <2>3
<1> QED BY <1>2, <1>3, <1>5, <1>6

LEMMA EdgeKeeps ==
  ASSUME VInv, c.status = "compiling", at # Idle, NEW k, Good(k, 0), Later(c, k), k.status \in {"compiling", "refused"},
         NEW from \in Nat, NEW to \in DOMAIN Code, NEW x, Balanced(x), x.generic = at.x.generic,
         Cleared(k, c.head, Len(k.tape), x.room), Ends(Edge(k, "jump", from, to, x))
  PROVE  VInv'
<1>1. /\ program \in Programs /\ c.head # 0 /\ c.head \in DOMAIN c.versions /\ at.v = c.head
      /\ at.x.generic = c.versions[c.head].in.generic
  BY AtWork
<1>2. k \in Compiler /\ k.head = c.head /\ k.versions[c.head] = c.versions[c.head]
  BY <1>1 DEF Later
<1>e. PICK e : e = Edge(k, "jump", from, to, x)
  OBVIOUS
<1>o. "jump" \in {"jump", "branch"}
  OBVIOUS
<1>3. k.versions[k.head].in.generic => x.generic
  BY <1>1, <1>2
<1>4. Good(e, 0) /\ e.status \in {"compiling", "refused"} /\ (e.status = "compiling" => Place(e, e.head) \in DOMAIN e.tape)
  BY <1>1, <1>2, <1>3, <1>e, <1>o, EdgeGood
<1> QED BY <1>4, <1>e, EndsKeeps

LEMMA HereCleared == ASSUME VInv, c.status = "compiling", at # Idle
                     PROVE  Good(c, 0) /\ Later(c, c) /\ Cleared(c, c.head, Len(c.tape), at.x.room)
BY AtWork DEF Later

LEMMA JumpKeeps == ASSUME VInv, Jump PROVE VInv'
<1>1. Compiling("jump") /\ Ends(Edge(c, "jump", at.pc, Code[at.pc].arg, at.x))
  BY DEF Jump, Instruction
<1>2. c.status = "compiling" /\ at # Idle /\ Code[at.pc].arg \in DOMAIN Code
  BY <1>1, CompilingParts
<1>3. at.pc \in Nat /\ Balanced(at.x)
  BY <1>2, AtWork
<1> QED BY <1>1, <1>2, <1>3, HereCleared, EdgeKeeps

LEMMA FallthroughKeeps == ASSUME VInv, Fallthrough PROVE VInv'
<1>1. c.status = "compiling" /\ at # Idle /\ Ends(Edge(c, "jump", at.pc - 1, at.pc, at.x))
  BY DEF Fallthrough
<1>2. program \in Programs /\ at.pc \in DOMAIN Code /\ Balanced(at.x)
  BY <1>1, AtWork
<1>p. PICK p : p = at.pc - 1
  OBVIOUS
<1>3. p \in Nat
  BY <1>2, <1>p, ProgramParts
<1> QED BY <1>1, <1>2, <1>3, <1>p, HereCleared, EdgeKeeps

(* A caller goes on where it was left, with the cells it had.               *)
LEMMA FrontParts ==
  ASSUME NEW S, NEW s \in Seq(S), s # <<>>, NEW u, u = Front(s)
  PROVE  u \in Seq(S) /\ Len(u) = Len(s) - 1 /\ DOMAIN u \subseteq DOMAIN s /\ \A i \in DOMAIN u : u[i] = s[i]
<1>1. Len(s) \in Nat /\ Len(s) # 0 /\ DOMAIN s = 1 .. Len(s)
  BY LenProperties, EmptySeq
<1>n. PICK n : n = Len(s)
  OBVIOUS
<1>m. PICK m \in Nat : m = n - 1
  <2>1. n \in Nat /\ n # 0
    BY <1>1, <1>n
  <2>2. n - 1 \in Nat
    BY <2>1
  <2> QED BY <2>2
<1>2. u = SubSeq(s, 1, m)
  BY <1>n, <1>m DEF Front
<1>3. 1 \in 1 .. Len(s) + 1 /\ m \in 1 - 1 .. Len(s)
  BY <1>1, <1>n, <1>m
<1>4. u \in Seq(S) /\ Len(u) = m - 1 + 1 /\ \A i \in 1 .. m - 1 + 1 : u[i] = s[1 + i - 1]
  BY <1>2, <1>3, SubSeqProperties
<1>5. Len(u) = m /\ DOMAIN u = 1 .. m
  BY <1>m, <1>4, LenProperties
<1>6. ASSUME NEW i \in DOMAIN u PROVE u[i] = s[i]
  <2>1. i \in 1 .. m - 1 + 1 /\ 1 + i - 1 = i
    BY <1>5
  <2> QED BY <1>4, <2>1
<1> QED BY <1>1, <1>n, <1>m, <1>4, <1>5, <1>6

LEMMA ReturnKeeps == ASSUME VInv, Return PROVE VInv'
<1>1. Compiling("ret")
  BY DEF Return
<1>2. c.status = "compiling" /\ at # Idle
  BY <1>1, CompilingParts
<1>3. /\ c \in Compiler /\ Good(c, 0) /\ c.head # 0 /\ at.v = c.head /\ Balanced(at.x) /\ at.pc \in Nat
  BY <1>2, AtWork
<1>4. CASE at.x.cont = <<>>
  <2>k. PICK k : k = Emitted(c, Plain("return"))
    OBVIOUS
  <2>1. 0 \in Nat /\ "return" \in {"code", "return", "guard"} /\ k = Emitted(c, Word("return", 0, 0, NoEdge))
    BY <2>k DEF Plain
  <2>2. Good(k, 0) /\ Place(k, k.head) \in DOMAIN k.tape /\ k.status = "compiling"
    BY <1>2, <1>3, <2>1, PlainGood
  <2>3. Ends(k)
    BY <1>4, <2>k DEF Return
  <2> QED BY <1>2, <2>2, <2>3, EndsKeeps
<1>5. CASE at.x.cont # <<>>
  <2>x. PICK x : x = at.x
    OBVIOUS
  <2>1. /\ x \in Context /\ Len(x.cells) = Len(x.cont) + 1 /\ \A i \in DOMAIN x.cont : x.cont[i].return \in DOMAIN Code
        /\ x.cells \in Seq(Cell) /\ x.cont \in Seq(Caller) /\ x.cont # <<>>
    BY <1>3, <1>5, <2>x, ContextParts DEF Balanced
  <2>2. Len(x.cont) \in Nat /\ Len(x.cont) # 0 /\ DOMAIN x.cont = 1 .. Len(x.cont)
    BY <2>1, LenProperties, EmptySeq
  <2>3. Len(x.cont) \in DOMAIN x.cont /\ x.cells # <<>>
    <3>1. x.cells = <<>> => Len(x.cells) = 0
      BY EmptySeq
    <3> QED BY <2>1, <2>2, <3>1
  <2>cells. PICK cells : cells = Front(x.cells)
    OBVIOUS
  <2>cont. PICK cont : cont = Front(x.cont)
    OBVIOUS
  <2>4. cells \in Seq(Cell) /\ Len(cells) = Len(x.cells) - 1
    BY <2>1, <2>3, <2>cells, FrontParts
  <2>5. /\ cont \in Seq(Caller) /\ Len(cont) = Len(x.cont) - 1 /\ DOMAIN cont \subseteq DOMAIN x.cont
        /\ \A i \in DOMAIN cont : cont[i] = x.cont[i]
    BY <2>1, <2>cont, FrontParts
  <2>y. PICK y : y = [x EXCEPT !.cells = cells, !.cont = cont]
    OBVIOUS
  <2>6. y \in Context /\ y.cells = cells /\ y.cont = cont /\ y.room = x.room /\ y.generic = x.generic
    BY <2>1, <2>4, <2>5, <2>y DEF Context
  <2>7. Balanced(y)
    <3>1. Len(cells) = Len(cont) + 1
      BY <2>1, <2>2, <2>4, <2>5
    <3>2. \A i \in DOMAIN cont : cont[i].return \in DOMAIN Code
      BY <2>1, <2>5
    <3> QED BY <2>6, <3>1, <3>2 DEF Balanced
  <2>to. PICK to : to = x.cont[Len(x.cont)].return
    OBVIOUS
  <2>8. to \in DOMAIN Code
    BY <2>1, <2>3, <2>to
  <2>9. Ends(Edge(c, "jump", at.pc, to, y))
    BY <1>5, <2>x, <2>cells, <2>cont, <2>y, <2>to DEF Return, Context
  <2>10. Cleared(c, c.head, Len(c.tape), y.room) /\ y.generic = at.x.generic
    BY <1>2, <2>6, <2>x, HereCleared
  <2> QED BY <1>2, <1>3, <2>7, <2>8, <2>9, <2>10, HereCleared, EdgeKeeps
<1> QED BY <1>4, <1>5

(* A callee's argument is a copy of the cell.                               *)
LEMMA ArgumentParts ==
  ASSUME NEW x, Balanced(x), NEW a, a = Argument(x) PROVE Like(x, a.x) /\ a.d \in Cell
<1>1. x \in Context /\ x.cells[Top(x)] \in Cell
  BY TopIn DEF Balanced
<1>2. CASE x.cells[Top(x)].kind # "home"
  BY <1>1, <1>2 DEF Argument, Like
<1>3. CASE x.cells[Top(x)].kind = "home"
  <2>1. a.x = Spilled(x, Free(x)) /\ a.d = InRegister(Home, Free(x))
    BY <1>3 DEF Argument
  <2> QED BY <1>1, <2>1, SpilledCells, FreeIsRegister, CellsOf
<1> QED BY <1>2, <1>3

LEMMA HeightParts ==
  ASSUME VInv, c.status = "compiling", at # Idle, NEW f \in DOMAIN Functions
  PROVE  /\ Functions[f].height \in Nat \ {0} /\ Entry(f) \in DOMAIN Code /\ Entry(f) \in Nat /\ Depth(at.x) \in Nat
         /\ Depth(at.x) + Functions[f].height \in Nat /\ Depth(at.x) + Functions[f].height - 1 \in Nat
         /\ Depth(at.x) + 1 + Functions[f].height \in Nat
<1>1. program \in Programs /\ Balanced(at.x)
  BY AtWork
<1>2. Functions[f].height \in Nat \ {0} /\ Entry(f) \in DOMAIN Code /\ Entry(f) \in Nat /\ Depth(at.x) \in Nat
  BY <1>1, ProgramParts, TopIn
<1> QED BY <1>2

(* What a call has behind it when it has looked for room.                   *)
LEMMA RoomyHere ==
  ASSUME VInv, c.status = "compiling", at # Idle, NEW cells \in Nat, NEW k, k = Roomy(c, at.x, cells),
         NEW y, y = Ensured(at.x, cells)
  PROVE  /\ Good(k, 0) /\ Later(c, k) /\ k.status = "compiling" /\ k.head = c.head
         /\ Cleared(k, c.head, Len(k.tape), y.room) /\ Balanced(y) /\ y.generic = at.x.generic /\ y.cells = at.x.cells
         /\ y.cont = at.x.cont
<1>1. /\ c \in Compiler /\ Good(c, 0) /\ c.head # 0 /\ at.v = c.head /\ Balanced(at.x)
      /\ Cleared(c, c.head, Len(c.tape), at.x.room)
  BY AtWork
<1>2. /\ Good(k, 0) /\ Later(c, k) /\ k.status = "compiling" /\ Cleared(k, k.head, Len(k.tape), y.room)
  BY <1>1, RoomyGood
<1> QED BY <1>1, <1>2, EnsuredParts DEF Later

LEMMA TailCallKeeps == ASSUME VInv, TailCall PROVE VInv'
<1>1. Compiling("tail")
  BY DEF TailCall
<1>f. PICK f : f = Code[at.pc].arg
  OBVIOUS
<1>2. c.status = "compiling" /\ at # Idle /\ f \in DOMAIN Functions
  BY <1>1, <1>f, CompilingParts
<1>cells. PICK cells \in Nat : cells = Depth(at.x) + Functions[f].height - 1
  BY <1>2, HeightParts
<1>k. PICK k : k = Roomy(c, at.x, cells)
  OBVIOUS
<1>y. PICK y : y = Ensured(at.x, cells)
  OBVIOUS
<1>3. /\ Good(k, 0) /\ Later(c, k) /\ k.status = "compiling"
      /\ Cleared(k, c.head, Len(k.tape), y.room) /\ Balanced(y) /\ y.generic = at.x.generic
  BY <1>2, <1>k, <1>y, RoomyHere
<1>a. PICK a : a = Argument(y)
  OBVIOUS
<1>x. PICK x : x = SetTop(a.x, a.d)
  OBVIOUS
<1>4. Like(y, a.x) /\ a.d \in Cell
  BY <1>3, <1>a, ArgumentParts
<1>5. Like(a.x, x)
  <2>1. a.x \in Context
    BY <1>4 DEF Like
  <2> QED BY <1>4, <1>x, <2>1, SetCells DEF SetTop
<1>6. Balanced(x) /\ x.generic = at.x.generic /\ x.room = y.room
  BY <1>3, <1>4, <1>5, LikeTwice, LikeBalanced
<1>7. Ends(Edge(k, "jump", at.pc, Entry(f), x))
  BY <1>f, <1>cells, <1>k, <1>y, <1>a, <1>x DEF TailCall, Instruction
<1>8. Entry(f) \in DOMAIN Code /\ at.pc \in Nat
  BY <1>2, HeightParts, AtWork
<1> QED BY <1>2, <1>3, <1>6, <1>7, <1>8, EdgeKeeps

LEMMA VirtualCallKeeps == ASSUME VInv, VirtualCall PROVE VInv'
<1>1. Compiling("call")
  BY DEF VirtualCall
<1>f. PICK f : f = Code[at.pc].arg
  OBVIOUS
<1>2. c.status = "compiling" /\ at # Idle /\ f \in DOMAIN Functions /\ at.pc + 1 \in DOMAIN Code
  BY <1>1, <1>f, CompilingParts
<1>cells. PICK cells \in Nat : cells = Depth(at.x) + Functions[f].height
  BY <1>2, HeightParts
<1>k. PICK k : k = Roomy(c, at.x, cells)
  OBVIOUS
<1>y. PICK y : y = Ensured(at.x, cells)
  OBVIOUS
<1>3. /\ Good(k, 0) /\ Later(c, k) /\ k.status = "compiling"
      /\ Cleared(k, c.head, Len(k.tape), y.room) /\ Balanced(y) /\ y.generic = at.x.generic
  BY <1>2, <1>k, <1>y, RoomyHere
<1>a. PICK a : a = Argument(y)
  OBVIOUS
<1>z. PICK z : z = a.x
  OBVIOUS
<1>d. PICK d : d = a.d
  OBVIOUS
<1>4. Balanced(z) /\ d \in Cell /\ z.generic = at.x.generic /\ z.room = y.room
  BY <1>3, <1>a, <1>z, <1>d, ArgumentParts, LikeBalanced
<1>u. PICK u : u = Frame(f)
  OBVIOUS
<1>5. Entry(f) \in DOMAIN Code /\ at.pc \in Nat /\ Entry(f) \in Nat
  BY <1>2, HeightParts, AtWork
<1>6. u \in Caller /\ u.return \in DOMAIN Code
  BY <1>2, <1>5, <1>u DEF Frame, Caller, Next1
<1>cs. PICK cs : cs = Append(z.cells, d)
  OBVIOUS
<1>us. PICK us : us = Append(z.cont, u)
  OBVIOUS
<1>7. /\ z \in Context /\ z.cells \in Seq(Cell) /\ z.cont \in Seq(Caller) /\ Len(z.cells) = Len(z.cont) + 1
      /\ \A i \in DOMAIN z.cont : z.cont[i].return \in DOMAIN Code
  BY <1>4, ContextParts DEF Balanced
<1>8. cs \in Seq(Cell) /\ Len(cs) = Len(z.cells) + 1
  BY <1>4, <1>7, <1>cs, AppendParts
<1>9. /\ us \in Seq(Caller) /\ Len(us) = Len(z.cont) + 1 /\ us[Len(z.cont) + 1] = u
      /\ DOMAIN us = DOMAIN z.cont \cup {Len(z.cont) + 1} /\ \A i \in DOMAIN z.cont : us[i] = z.cont[i]
  BY <1>6, <1>7, <1>us, AppendParts
<1>x. PICK x : x = [z EXCEPT !.cells = cs, !.cont = us]
  OBVIOUS
<1>10. x \in Context /\ x.cells = cs /\ x.cont = us /\ x.room = z.room /\ x.generic = z.generic
  BY <1>7, <1>8, <1>9, <1>x DEF Context
<1>11. Balanced(x)
  <2>1. \A i \in DOMAIN us : us[i].return \in DOMAIN Code
    BY <1>6, <1>7, <1>9
  <2> QED BY <1>7, <1>8, <1>9, <1>10, <2>1 DEF Balanced
<1>12. x = [a.x EXCEPT !.cells = Append(@, a.d), !.cont = Append(@, Frame(f))]
  BY <1>7, <1>cs, <1>us, <1>x, <1>z, <1>d, <1>u DEF Context
<1>13. Ends(Edge(k, "jump", at.pc, Entry(f), x))
  BY <1>f, <1>cells, <1>k, <1>y, <1>a, <1>12 DEF VirtualCall, Instruction
<1>14. Cleared(k, c.head, Len(k.tape), x.room) /\ x.generic = at.x.generic
  BY <1>3, <1>4, <1>10
<1> QED BY <1>2, <1>3, <1>5, <1>11, <1>13, <1>14, EdgeKeeps

LEMMA LaterLength ==
  ASSUME NEW k \in Compiler, NEW k2, Later(k, k2)
  PROVE  Len(k.tape) <= Len(k2.tape) /\ Len(k.tape) \in Nat /\ Len(k2.tape) \in Nat
<1>1. /\ Len(k.tape) \in Nat /\ DOMAIN k.tape = 1 .. Len(k.tape) /\ DOMAIN k.tape \subseteq DOMAIN k2.tape
      /\ Len(k2.tape) \in Nat /\ DOMAIN k2.tape = 1 .. Len(k2.tape)
  BY CompilerParts DEF Later
<1>2. Len(k.tape) # 0 => Len(k.tape) \in DOMAIN k2.tape
  BY <1>1
<1> QED BY <1>1, <1>2

LEMMA StillCleared ==
  ASSUME NEW k \in Compiler, NEW k2, Later(k, k2), NEW v \in DOMAIN k.versions, NEW room,
         Cleared(k, v, Len(k.tape), room)
  PROVE  Cleared(k2, v, Len(k2.tape), room)
BY LaterLength, LaterCleared

LEMMA EntryParts ==
  ASSUME program \in Programs, NEW f \in DOMAIN Functions, NEW d \in Cell PROVE Balanced(EntryContext(f, d))
<1>1. Functions[f].height \in Nat \ {0}
  BY ProgramParts
<1>2. <<d>> \in Seq(Cell) /\ Len(<<d>>) = 1 /\ <<>> \in Seq(Caller) /\ Len(<<>>) = 0 /\ DOMAIN <<>> = {}
  OBVIOUS
<1>h. PICK h \in Nat : h = Functions[f].height - 1
  BY <1>1
<1>b. PICK b \in BOOLEAN : b = FALSE
  OBVIOUS
<1>x. PICK x : x = EntryContext(f, d)
  OBVIOUS
<1>cs. PICK cs : cs = <<d>>
  OBVIOUS
<1>us. PICK us : us = <<>>
  OBVIOUS
<1>3. x = [cells |-> cs, cont |-> us, room |-> h, generic |-> b]
  BY <1>h, <1>b, <1>x, <1>cs, <1>us DEF EntryContext
<1>4. x \in Context /\ x.cells = cs /\ x.cont = us
  BY <1>2, <1>3, <1>cs, <1>us DEF Context
<1>5. Len(cs) = Len(us) + 1 /\ DOMAIN us = {}
  BY <1>2, <1>cs, <1>us
<1> QED BY <1>4, <1>5, <1>x DEF Balanced

LEMMA FitsSelf == ASSUME NEW x \in Context PROVE Fits(x, x)
BY ContextParts DEF Fits

(* The version a call enters.                                               *)
LEMMA CalleeGood ==
  ASSUME program \in Programs, NEW k \in Compiler, Good(k, 0), k.status = "compiling", NEW f \in DOMAIN Functions,
         NEW d, d = IF Recursive(f) THEN Reg(0) ELSE Home, NEW sent, sent = EntryContext(f, d),
         NEW r, r = IF Recursive(f) THEN VersionFor(k, Entry(f), sent) ELSE [c |-> k, v |-> f]
  PROVE  /\ Good(r.c, 0) /\ Later(k, r.c) /\ r.c.status \in {"compiling", "refused"} /\ sent \in Context
         /\ r.c.status = "compiling" =>
              r.v \in DOMAIN r.c.versions /\ r.c.versions[r.v].pc = Entry(f) /\ Fits(r.c.versions[r.v].in, sent)
<1>1. d \in Cell
  BY CellsOf
<1>2. Balanced(sent) /\ sent \in Context
  BY <1>1, EntryParts DEF Balanced
<1>3. CASE Recursive(f)
  <2>1. ~NoneRecursive
    BY <1>3 DEF NoneRecursive
  <2>p. PICK pc : pc = Entry(f)
    OBVIOUS
  <2>2. Justified(k, pc, sent)
    BY <2>1 DEF Justified
  <2>3. pc \in DOMAIN Code /\ r = VersionFor(k, pc, sent) /\ k.status # "published"
    BY <1>3, <2>p, ProgramParts
  <2>4. /\ Good(r.c, 0) /\ Later(k, r.c) /\ r.c.status \in {k.status, "refused"}
        /\ r.c.status = k.status /\ k.status # "refused" =>
             r.v \in DOMAIN r.c.versions /\ r.c.versions[r.v].pc = pc /\ Fits(r.c.versions[r.v].in, sent)
    BY <1>2, <2>2, <2>3, MadeGood
  <2> QED BY <1>2, <2>4, <2>p
<1>4. CASE ~Recursive(f)
  <2>1. r.c = k /\ r.v = f /\ d = Home
    BY <1>4
  <2>2. f \in DOMAIN k.versions /\ k.versions[f].pc = Entry(f) /\ k.versions[f].in = sent
    BY <2>1 DEF Good, VersionsInv
  <2>3. Later(k, k)
    BY DEF Later
  <2> QED BY <1>2, <2>1, <2>2, <2>3, FitsSelf
<1> QED BY <1>3, <1>4

LEMMA RealCallKeeps == ASSUME VInv, RealCall PROVE VInv'
<1>1. Compiling("call")
  BY DEF RealCall
<1>f. PICK f : f = Code[at.pc].arg
  OBVIOUS
<1>2. c.status = "compiling" /\ at # Idle /\ f \in DOMAIN Functions /\ at.pc + 1 \in DOMAIN Code
  BY <1>1, <1>f, CompilingParts
<1>3. program \in Programs /\ c \in Compiler /\ c.head # 0 /\ c.head \in DOMAIN c.versions /\ at.v = c.head /\ at.pc \in Nat
  BY <1>2, AtWork
<1>cells. PICK cells \in Nat : cells = Depth(at.x) + 1 + Functions[f].height
  BY <1>2, HeightParts
<1>k. PICK k : k = Roomy(c, at.x, cells)
  OBVIOUS
<1>y. PICK y : y = Ensured(at.x, cells)
  OBVIOUS
<1>4. /\ Good(k, 0) /\ Later(c, k) /\ k.status = "compiling" /\ k.head = c.head
      /\ Cleared(k, c.head, Len(k.tape), y.room) /\ Balanced(y) /\ y.generic = at.x.generic
  BY <1>2, <1>k, <1>y, RoomyHere
<1>d. PICK d : d = IF Recursive(f) THEN Reg(0) ELSE Home
  OBVIOUS
<1>s. PICK sent : sent = EntryContext(f, d)
  OBVIOUS
<1>r. PICK r : r = IF Recursive(f) THEN VersionFor(k, Entry(f), sent) ELSE [c |-> k, v |-> f]
  OBVIOUS
<1>k1. PICK k1 : k1 = r.c
  OBVIOUS
<1>v. PICK v : v = r.v
  OBVIOUS
<1>5. k \in Compiler
  BY <1>4 DEF Good
<1>6. /\ Good(k1, 0) /\ Later(k, k1) /\ k1.status \in {"compiling", "refused"} /\ sent \in Context
      /\ k1.status = "compiling" => v \in DOMAIN k1.versions /\ k1.versions[v].pc = Entry(f) /\ Fits(k1.versions[v].in, sent)
  BY <1>2, <1>3, <1>4, <1>5, <1>d, <1>s, <1>r, <1>k1, <1>v, CalleeGood
<1>k2. PICK k2 : k2 = Leading(k1, "call", v, at.pc, Entry(f), sent, sent)
  OBVIOUS
<1>7. Good(k2, 0) /\ Later(k1, k2) /\ k2.status \in {"compiling", "refused"}
  <2>1. CASE k1.status = "refused"
    <3>1. k2 = k1
      BY <2>1, <1>k2 DEF Leading
    <3>2. k1 \in Compiler
      BY <1>6 DEF Good
    <3> QED BY <1>6, <3>1, <3>2 DEF Later
  <2>2. CASE k1.status = "compiling"
    <3>p. PICK to : to = Entry(f)
      OBVIOUS
    <3>1. to \in Nat
      BY <1>2, <3>p, HeightParts
    <3>2. k1 \in Compiler /\ k1.head # 0 /\ at.v = k1.head
      BY <1>3, <1>4, <1>6 DEF Good, Later
    <3>o. PICK op : op = "call"
      OBVIOUS
    <3>3. op \in {"jump", "branch", "call"} /\ op = "call"
      BY <3>o
    <3>4. Handed(k1, op, at.pc, to, sent, sent)
      BY <3>o DEF Handed
    <3>5. v \in DOMAIN k1.versions /\ k1.versions[v].pc = to /\ Fits(k1.versions[v].in, sent)
      BY <1>6, <2>2, <3>p
    <3>6. k2 = Leading(k1, op, v, at.pc, to, sent, sent)
      BY <1>k2, <3>p, <3>o
    <3>7. Good(k2, 0) /\ Later(k1, k2) /\ k2.status = "compiling"
      BY <1>3, <1>6, <2>2, <3>1, <3>2, <3>3, <3>4, <3>5, <3>6, LeadingGood
    <3> QED BY <3>7
  <2> QED BY <1>6, <2>1, <2>2
<1>z. PICK z : z = Flushed(y)
  OBVIOUS
<1>8. Balanced(z) /\ z.generic = at.x.generic /\ z.room = y.room
  <2>1. Like(y, z)
    BY <1>4, <1>z, FlushedCells DEF Balanced
  <2> QED BY <1>4, <2>1, LikeBalanced
<1>9. Later(k, k2) /\ Later(c, k2)
  BY <1>4, <1>6, <1>7, LaterTwice
<1>10. Cleared(k2, c.head, Len(k2.tape), z.room)
  <2>1. c.head \in DOMAIN k.versions
    BY <1>3, <1>4 DEF Later
  <2> QED BY <1>4, <1>5, <1>8, <1>9, <2>1, StillCleared
<1>11. Goes(k2, z)
  BY <1>f, <1>cells, <1>k, <1>y, <1>d, <1>s, <1>r, <1>k1, <1>v, <1>k2, <1>z DEF RealCall, Instruction
<1> QED BY <1>2, <1>7, <1>8, <1>9, <1>10, <1>11, GoesKeeps

-----------------------------------------------------------------------------
(* A branch, and the label of its own that it may need.                     *)

LEMMA GoodFresh == ASSUME NEW k, Good(k, 0), NEW l, l \notin DOMAIN k.labels PROVE Good(k, l)
<1>1. LocalsInv(k, l)
  <2>1. \A n \in DOMAIN k.tape : k.tape[n].op = "local" => k.tape[n].label # 0 /\ k.tape[n].label \in DOMAIN k.labels
    BY DEF Good, TapeInv, WordInv, OwnLabel
  <2> QED BY <2>1 DEF Good, LocalsInv
<1> QED BY <1>1 DEF Good

Labelled(k, k2, l) ==
  /\ k2 \in Compiler /\ k2.versions = k.versions /\ k2.head = k.head /\ k2.tape = k.tape /\ k2.status = k.status
  /\ l \in DOMAIN k2.labels /\ DOMAIN k.labels \subseteq DOMAIN k2.labels
  /\ \A i \in DOMAIN k.labels \ {l} : k2.labels[i] = k.labels[i]

(* A label that is no version's can be made and bound.                      *)
LEMMA LabelledGood ==
  ASSUME NEW k, NEW l, Good(k, l), k.status # "published", NEW k2, Labelled(k, k2, l),
         \A i \in DOMAIN k.versions : k.versions[i].label # l
  PROVE  Good(k2, l) /\ Later(k, k2) /\ OwnLabel(k2, l)
<1>1. /\ k2 \in Compiler /\ k2.versions = k.versions /\ k2.head = k.head /\ k2.tape = k.tape /\ k2.status = k.status
      /\ l \in DOMAIN k2.labels /\ DOMAIN k.labels \subseteq DOMAIN k2.labels
      /\ \A i \in DOMAIN k.labels \ {l} : k2.labels[i] = k.labels[i]
  BY DEF Labelled
<1>g. /\ k \in Compiler /\ k.head <= Len(k.versions) /\ VersionsInv(k) /\ LimitInv(k) /\ SpareInv(k) /\ TapeInv(k)
      /\ LocalsInv(k, l) /\ PlaceInv(k)
  BY DEF Good
<1>2. k2.head <= Len(k2.versions) /\ VersionsInv(k2)
  BY <1>1, <1>g DEF VersionsInv
<1>3. LimitInv(k2) /\ SpareInv(k2)
  <2>1. \A pc, x : Family(k2, pc, x) = Family(k, pc, x)
    BY <1>1 DEF Family, Versions
  <2>2. \A i : FamilyOf(k2, i) = FamilyOf(k, i)
    BY <1>1, <2>1 DEF FamilyOf
  <2> QED BY <1>1, <1>g, <2>2 DEF LimitInv, SpareInv
<1>4. Later(k, k2)
  BY <1>1 DEF Later
<1>5. TapeInv(k2)
  <2> SUFFICES ASSUME NEW n \in DOMAIN k2.tape PROVE WordInv(k2, k2.tape[n], n) /\ k2.tape[n].target = 0
    BY <1>1 DEF TapeInv
  <2>w. PICK w : w = k.tape[n]
    OBVIOUS
  <2>1. WordInv(k, w, n) /\ w.target = 0 /\ n \in Nat
    BY <1>1, <1>g, <2>w, CompilerParts DEF TapeInv
  <2>2. w.op = "local" => OwnLabel(k2, w.label)
    BY <1>1, <2>1 DEF WordInv, OwnLabel
  <2>3. WordInv(k2, w, n)
    BY <1>4, <1>g, <2>1, <2>2, LaterWord
  <2> QED BY <1>1, <2>1, <2>3, <2>w
<1>6. LocalsInv(k2, l)
  <2>1. \A n \in DOMAIN k.tape : k.tape[n].op = "local" => k.tape[n].label \in DOMAIN k.labels
    BY <1>g DEF TapeInv, WordInv, OwnLabel
  <2>2. ASSUME k2.status # "refused", NEW n \in DOMAIN k2.tape, k2.tape[n].op = "local"
        PROVE  IF k2.tape[n].label = l THEN k2.tape[n].of = k2.head
               ELSE k2.labels[k2.tape[n].label] \in DOMAIN k2.tape /\ k2.tape[k2.labels[k2.tape[n].label]].of = k2.tape[n].of
    <3>1. IF k.tape[n].label = l THEN k.tape[n].of = k.head
          ELSE k.labels[k.tape[n].label] \in DOMAIN k.tape /\ k.tape[k.labels[k.tape[n].label]].of = k.tape[n].of
      BY <1>1, <1>g, <2>2 DEF LocalsInv
    <3>2. k.tape[n].label = l \/ k2.labels[k.tape[n].label] = k.labels[k.tape[n].label]
      BY <1>1, <2>1, <2>2
    <3>3. n \in DOMAIN k.tape /\ k.tape[n].op = "local"
      BY <1>1, <2>2
    <3> QED BY <1>1, <3>1, <3>2, <3>3
  <2> QED BY <2>2 DEF LocalsInv
<1>7. PlaceInv(k2)
  <2>1. \A v \in 1 .. k.head : v \in DOMAIN k.versions
    BY <1>g, CompilerParts
  <2>2. \A v \in 1 .. k.head : Place(k2, v) = Place(k, v)
    BY <1>1, <1>g, <2>1 DEF Place, VersionsInv
  <2> QED BY <1>1, <1>g, <2>2 DEF PlaceInv
<1>8. OwnLabel(k2, l)
  BY <1>1 DEF OwnLabel
<1> QED BY <1>1, <1>2, <1>3, <1>4, <1>5, <1>6, <1>7, <1>8 DEF Good

LEMMA BranchKeeps == ASSUME VInv, Branch PROVE VInv'
<1>1. Compiling("branch")
  BY DEF Branch
<1>to. PICK to : to = Code[at.pc].arg
  OBVIOUS
<1>p. PICK p : p = at.pc + 1
  OBVIOUS
<1>2. c.status = "compiling" /\ at # Idle /\ to \in DOMAIN Code /\ p \in DOMAIN Code
  BY <1>1, <1>to, <1>p, CompilingParts
<1>3. /\ program \in Programs /\ c \in Compiler /\ Good(c, 0) /\ c.head # 0 /\ c.head \in DOMAIN c.versions /\ at.v = c.head
      /\ Balanced(at.x) /\ at.pc \in Nat /\ at.x.generic = c.versions[c.head].in.generic /\ at.v \in Nat
  BY <1>2, AtWork, CompilerParts
<1>4. Good(c, 0) /\ Later(c, c) /\ Cleared(c, c.head, Len(c.tape), at.x.room)
  BY <1>2, HereCleared
<1>x. PICK x : x = at.x
  OBVIOUS
<1>q. PICK q : q = at.pc
  OBVIOUS
<1>5. Balanced(x) /\ x.generic = at.x.generic /\ x.generic = c.versions[c.head].in.generic /\ q \in Nat
  BY <1>3, <1>x, <1>q
<1>c. ASSUME NEW k, Later(c, k)
      PROVE  /\ k \in Compiler /\ k.head = c.head /\ k.head # 0 /\ at.v = k.head
             /\ (k.versions[k.head].in.generic => x.generic) /\ Cleared(k, c.head, Len(k.tape), x.room)
             /\ Cleared(k, k.head, Len(k.tape), x.room)
  <2>1. k \in Compiler /\ k.head = c.head /\ k.versions[c.head] = c.versions[c.head]
    BY <1>3, <1>c DEF Later
  <2>2. Cleared(k, c.head, Len(k.tape), x.room)
    BY <1>3, <1>4, <1>c, <1>x, StillCleared
  <2> QED BY <1>3, <1>5, <2>1, <2>2
<1>6. CASE to = p
  <2>1. Ends(Edge(c, "jump", q, to, x))
    BY <1>6, <1>to, <1>p, <1>x, <1>q DEF Branch, Instruction, Next1
  <2> QED BY <1>2, <1>3, <1>4, <1>5, <1>x, <2>1, EdgeKeeps
<1>7. CASE to # p /\ ~Split(to)
  <2>k. PICK k : k = Edge(c, "branch", q, to, x)
    OBVIOUS
  <2>o. "branch" \in {"jump", "branch"} /\ c.status \in {"compiling", "refused"}
    BY <1>2
  <2>1. Good(k, 0) /\ Later(c, k) /\ k.status \in {"compiling", "refused"}
    BY <1>2, <1>3, <1>4, <1>5, <1>c, <2>k, <2>o, EdgeGood
  <2>2. Ends(Edge(k, "jump", q, p, x))
    BY <1>7, <1>to, <1>p, <1>x, <1>q, <2>k DEF Branch, Instruction, Next1
  <2>3. Cleared(k, c.head, Len(k.tape), x.room)
    BY <1>c, <2>1
  <2> QED BY <1>2, <1>5, <2>1, <2>2, <2>3, EdgeKeeps
<1>8. CASE to # p /\ Split(to)
  <2>n. Len(c.labels) \in Nat /\ c.labels \in Seq(Nat) /\ DOMAIN c.labels = 1 .. Len(c.labels)
    BY <1>3, CompilerParts
  <2>l. PICK l \in Nat : l = Len(c.labels) + 1
    BY <2>n
  <2>z. PICK z \in Nat : z = 0
    OBVIOUS
  <2>ls. PICK ls : ls = Append(c.labels, z)
    OBVIOUS
  <2>1. /\ ls \in Seq(Nat) /\ l \in DOMAIN ls /\ DOMAIN ls = DOMAIN c.labels \cup {l} /\ l \notin DOMAIN c.labels
        /\ \A i \in DOMAIN c.labels : ls[i] = c.labels[i]
    BY <2>n, <2>l, <2>z, <2>ls, AppendParts
  <2>k0. PICK k0 : k0 = [c EXCEPT !.labels = ls]
    OBVIOUS
  <2>2. Labelled(c, k0, l)
    BY <1>3, <2>1, <2>k0 DEF Labelled, Compiler
  <2>3. Good(c, l)
    BY <1>3, <2>1, GoodFresh
  <2>4. \A i \in DOMAIN c.versions : c.versions[i].label # l
    BY <1>3, <2>1 DEF Good, VersionsInv
  <2>5. Good(k0, l) /\ Later(c, k0) /\ OwnLabel(k0, l) /\ k0.status = "compiling"
    BY <1>2, <2>2, <2>3, <2>4, LabelledGood DEF Labelled
  <2>w. PICK w : w = Word("local", l, 0, NoEdge)
    OBVIOUS
  <2>k1. PICK k1 : k1 = Emitted(k0, w)
    OBVIOUS
  <2>6. k0 \in Compiler /\ k0.head = c.head /\ k0.head # 0
    BY <1>c, <2>5
  <2>7. w \in TapeWord /\ w.op = "local" /\ w.of = k0.head /\ w.label = l /\ w.target = 0 /\ l # 0
    <3>1. "local" \in WordOps /\ 0 \in Nat
      BY DEF WordOps
    <3> QED BY <1>3, <2>n, <2>l, <2>w, <2>6, <3>1, BlankParts, WordParts
  <2>8. WordInv(k0, w, Len(k0.tape) + 1)
    <3>1. w.of \in 1 .. k0.head
      BY <1>3, <2>6, <2>7
    <3> QED BY <2>5, <2>7, <3>1 DEF WordInv, Leads
  <2>9. Good(k1, l) /\ Later(k0, k1) /\ Longer(k0, k1, w)
    BY <2>5, <2>6, <2>7, <2>8, <2>k1, EmitGood
  <2>10. k1.status = "compiling" /\ Len(k0.tape) + 1 \in DOMAIN k1.tape /\ k1.tape[Len(k0.tape) + 1] = w
    BY <2>5, <2>9 DEF Longer
  <2>11. Later(c, k1)
    BY <2>5, <2>9, LaterTwice
  <2>k2. PICK k2 : k2 = Edge(k1, "jump", q, p, x)
    OBVIOUS
  <2>o. "jump" \in {"jump", "branch"} /\ k1.status \in {"compiling", "refused"}
    BY <2>10
  <2>12. Good(k2, l) /\ Later(k1, k2) /\ k2.status \in {"compiling", "refused"}
    BY <1>2, <1>3, <1>5, <1>c, <2>9, <2>11, <2>k2, <2>o, EdgeGood
  <2>13. l \in DOMAIN k2.labels /\ \A i \in DOMAIN k2.versions : k2.versions[i].label # l
    <3>m. PICK m : m = Len(k0.tape) + 1
      OBVIOUS
    <3>1. m \in DOMAIN k2.tape /\ k2.tape[m] = w
      BY <2>10, <2>12, <3>m DEF Later
    <3>2. OwnLabel(k2, w.label)
      BY <2>7, <2>12, <3>1 DEF Good, TapeInv, WordInv
    <3> QED BY <2>7, <3>2 DEF OwnLabel
  <2>14. k2 \in Compiler /\ Later(c, k2)
    BY <2>11, <2>12, LaterTwice DEF Later
  <2>e. PICK e \in Nat : e = Len(k2.tape) + 1
    BY <2>14, CompilerParts
  <2>k3. PICK k3 : k3 = Bound(k2, l)
    OBVIOUS
  <2>15. Labelled(k2, k3, l) /\ k3.labels[l] = e
    <3>ms. PICK ms : ms = [k2.labels EXCEPT ![l] = e]
      OBVIOUS
    <3>1. k2.labels \in Seq(Nat) /\ DOMAIN k2.labels = 1 .. Len(k2.labels)
      BY <2>14, CompilerParts
    <3>2. /\ ms \in Seq(Nat) /\ DOMAIN ms = DOMAIN k2.labels /\ ms[l] = e
          /\ \A i \in DOMAIN k2.labels \ {l} : ms[i] = k2.labels[i]
      BY <2>13, <2>e, <3>ms, <3>1
    <3>3. k3 = [k2 EXCEPT !.labels = ms]
      BY <2>14, <2>e, <2>k3, <3>ms DEF Bound, Compiler
    <3>4. k3.labels = ms
      BY <2>14, <3>3 DEF Compiler
    <3> QED BY <2>13, <2>14, <3>2, <3>3, <3>4 DEF Labelled, Compiler
  <2>16. Good(k3, l) /\ Later(k2, k3) /\ k3.status = k2.status /\ k3.tape = k2.tape /\ l \in DOMAIN k3.labels
    BY <2>12, <2>13, <2>15, LabelledGood DEF Labelled
  <2>17. Later(c, k3)
    BY <2>14, <2>16, LaterTwice
  <2>k4. PICK k4 : k4 = Edge(k3, "jump", q, to, x)
    OBVIOUS
  <2>18. k3.status \in {"compiling", "refused"} /\ k3.labels[l] = Len(k3.tape) + 1
    BY <2>12, <2>15, <2>16, <2>e
  <2>19. /\ k4.status \in {"compiling", "refused"} /\ (k4.status = "compiling" => Place(k4, k4.head) \in DOMAIN k4.tape)
         /\ Good(k4, 0)
    BY <1>2, <1>3, <1>5, <1>c, <2>o, <2>16, <2>17, <2>18, <2>k4, EdgeGood
  <2>20. Ends(k4)
    BY <1>8, <1>to, <1>p, <1>x, <1>q, <2>l, <2>z, <2>ls, <2>k0, <2>w, <2>k1, <2>k2, <2>k3, <2>k4
       DEF Branch, Instruction, Next1
  <2> QED BY <1>2, <2>19, <2>20, EndsKeeps
<1> QED BY <1>6, <1>7, <1>8

-----------------------------------------------------------------------------
(* The next version.                                                        *)

LEMMA CompileKeeps == ASSUME VInv, Compile PROVE VInv'
<1>v. PICK v : v = c.head + 1
  OBVIOUS
<1>k. PICK k : k = c'
  OBVIOUS
<1>lv. PICK lv : lv = c.versions[v].label
  OBVIOUS
<1>1. /\ c.status = "compiling" /\ at = Idle /\ c.head < Len(c.versions) /\ k = [Bound(c, lv) EXCEPT !.head = v]
      /\ at' = [v |-> v, pc |-> c.versions[v].pc, x |-> c.versions[v].in, fresh |-> TRUE]
      /\ program' = program /\ run' = run
  BY <1>v, <1>k, <1>lv DEF Compile
<1>2. /\ program \in Programs /\ c \in Compiler /\ Good(c, 0) /\ run \in [v : Nat, room : Nat] /\ run.v = 0
      /\ c.head # 0 => Place(c, c.head) \in DOMAIN c.tape
  BY <1>1 DEF VInv, Types, RunInv, AtInv
<1>g. /\ VersionsInv(c) /\ LimitInv(c) /\ SpareInv(c) /\ TapeInv(c) /\ LocalsInv(c, 0) /\ PlaceInv(c)
  BY <1>2 DEF Good
<1>3. /\ Len(c.versions) \in Nat /\ DOMAIN c.versions = 1 .. Len(c.versions) /\ c.head \in Nat
      /\ c.labels \in Seq(Nat) /\ DOMAIN c.labels = 1 .. Len(c.labels)
      /\ Len(c.tape) \in Nat /\ DOMAIN c.tape = 1 .. Len(c.tape)
  BY <1>2, CompilerParts
<1>4. /\ v \in DOMAIN c.versions /\ v \in Nat /\ v # 0 /\ v <= Len(c.versions) /\ 1 .. v = 1 .. c.head \cup {v}
      /\ v \notin 1 .. c.head /\ 1 .. c.head \subseteq DOMAIN c.versions
  BY <1>1, <1>3, <1>v
<1>5. lv \in DOMAIN c.labels
  BY <1>4, <1>g, <1>lv DEF VersionsInv
<1>e. PICK e \in Nat : e = Len(c.tape) + 1
  BY <1>3
<1>ms. PICK ms : ms = [c.labels EXCEPT ![lv] = e]
  OBVIOUS
<1>6. /\ ms \in Seq(Nat) /\ DOMAIN ms = DOMAIN c.labels /\ ms[lv] = e
      /\ \A i \in DOMAIN c.labels \ {lv} : ms[i] = c.labels[i]
  BY <1>3, <1>5, <1>ms
<1>7. /\ k \in Compiler /\ k.versions = c.versions /\ k.labels = ms /\ k.head = v /\ k.tape = c.tape
      /\ k.status = "compiling"
  <2>1. k = [c EXCEPT !.labels = ms, !.head = v]
    BY <1>1, <1>2, <1>e, <1>ms DEF Bound, Compiler
  <2> QED BY <1>1, <1>2, <1>4, <1>6, <2>1 DEF Compiler
<1>8. VersionsInv(k)
  BY <1>6, <1>7, <1>g DEF VersionsInv
<1>9. LimitInv(k) /\ SpareInv(k)
  <2>1. \A pc, x : Family(k, pc, x) = Family(c, pc, x)
    BY <1>7 DEF Family, Versions
  <2>2. \A i : FamilyOf(k, i) = FamilyOf(c, i)
    BY <1>7, <2>1 DEF FamilyOf
  <2> QED BY <1>1, <1>7, <1>g, <2>2 DEF LimitInv, SpareInv
<1>10. TapeInv(k)
  <2> SUFFICES ASSUME NEW n \in DOMAIN c.tape PROVE WordInv(k, c.tape[n], n) /\ c.tape[n].target = 0
    BY <1>7 DEF TapeInv
  <2>w. PICK w : w = c.tape[n]
    OBVIOUS
  <2>1. WordInv(c, w, n) /\ w.target = 0
    BY <1>1, <1>g, <2>w DEF TapeInv
  <2>2. w.of \in 1 .. k.head
    BY <1>4, <1>7, <2>1 DEF WordInv
  <2>3. w.op = "local" => OwnLabel(k, w.label)
    BY <1>6, <1>7, <2>1 DEF WordInv, OwnLabel
  <2>4. \A u : LeadsTo(c, w, u) => LeadsTo(k, w, u)
    BY <1>7 DEF LeadsTo
  <2>5. RoomFor(c, w, n) => RoomFor(k, w, n)
    BY <1>7 DEF RoomFor, Cleared
  <2>6. WordInv(k, w, n)
    BY <1>7, <2>1, <2>2, <2>3, <2>4, <2>5 DEF WordInv
  <2> QED BY <2>1, <2>6, <2>w
<1>11. LocalsInv(k, 0)
  <2>1. ASSUME NEW n \in DOMAIN c.tape, c.tape[n].op = "local"
        PROVE  c.tape[n].label # 0 /\ c.tape[n].label \in DOMAIN c.labels \ {lv}
    BY <1>4, <1>lv, <1>g, <2>1 DEF TapeInv, WordInv, OwnLabel
  <2>2. ASSUME NEW n \in DOMAIN c.tape, c.tape[n].op = "local"
        PROVE  c.labels[c.tape[n].label] \in DOMAIN c.tape /\ c.tape[c.labels[c.tape[n].label]].of = c.tape[n].of
    BY <1>1, <1>g, <2>1, <2>2 DEF LocalsInv
  <2> QED BY <1>6, <1>7, <2>1, <2>2 DEF LocalsInv
<1>12. PlaceInv(k)
  <2>1. ASSUME NEW u \in 1 .. c.head PROVE Place(k, u) = Place(c, u) /\ Place(c, u) \in DOMAIN c.tape
    <3>1. u \in DOMAIN c.versions /\ u # v
      BY <1>4
    <3>2. c.versions[u].label # lv /\ c.versions[u].label \in DOMAIN c.labels
      BY <1>4, <1>lv, <1>g, <3>1 DEF VersionsInv
    <3>3. Place(c, u) \in DOMAIN c.tape
      BY <1>2, <1>g DEF PlaceInv
    <3> QED BY <1>6, <1>7, <3>2, <3>3 DEF Place
  <2>2. Place(k, v) = e
    BY <1>6, <1>7, <1>lv DEF Place
  <2>3. \A i \in DOMAIN c.tape : c.tape[i].of \in 1 .. c.head
    BY <1>g DEF TapeInv, WordInv
  <2>4. e \in 1 .. Len(c.tape) + 1 /\ e \notin DOMAIN c.tape
    BY <1>3, <1>e
  <2>5. \A i \in DOMAIN c.tape : c.tape[i].of # v
    BY <1>4, <2>3
  <2>6. ASSUME NEW u \in 1 .. c.head
        PROVE  /\ Place(k, u) \in 1 .. Len(k.tape) + 1
               /\ Place(k, u) \in DOMAIN k.tape /\ k.tape[Place(k, u)].of = u
               /\ \A i \in DOMAIN k.tape : i < Place(k, u) => k.tape[i].of # u
    BY <1>7, <1>g, <2>1 DEF PlaceInv
  <2>7. /\ Place(k, v) \in 1 .. Len(k.tape) + 1 /\ Place(k, v) \notin DOMAIN k.tape
        /\ \A i \in DOMAIN k.tape : i < Place(k, v) => k.tape[i].of # v
    BY <1>7, <2>2, <2>4, <2>5
  <2>8. ASSUME NEW u \in 1 .. k.head
        PROVE  /\ Place(k, u) \in 1 .. Len(k.tape) + 1
               /\ Place(k, u) \in DOMAIN k.tape => k.tape[Place(k, u)].of = u
               /\ u # k.head => Place(k, u) \in DOMAIN k.tape
               /\ \A i \in DOMAIN k.tape : i < Place(k, u) => k.tape[i].of # u
    <3>1. CASE u = v
      BY <1>7, <2>7, <3>1
    <3>2. CASE u \in 1 .. c.head
      BY <2>6, <3>2
    <3> QED BY <1>4, <1>7, <3>1, <3>2
  <2> QED BY <2>8 DEF PlaceInv
<1>13. Good(k, 0)
  BY <1>4, <1>7, <1>8, <1>9, <1>10, <1>11, <1>12 DEF Good
<1>14. Good(c, 0)' /\ c' \in Compiler /\ c'.head <= Len(c'.versions)
  BY <1>1, <1>13, <1>k, GoodStays
<1>15. c.versions[v].pc \in DOMAIN Code /\ Balanced(c.versions[v].in) /\ c.versions[v].pc \in Nat
  BY <1>2, <1>4, <1>g, CompilerParts DEF VersionsInv
<1>b. PICK b \in BOOLEAN : b = TRUE
  OBVIOUS
<1>x. PICK x : x = c.versions[v].in
  OBVIOUS
<1>16. x \in Context /\ Balanced(x) /\ x.room \in Nat
  BY <1>15, <1>x, ContextParts DEF Balanced
<1>17. /\ at' = [v |-> v, pc |-> c.versions[v].pc, x |-> x, fresh |-> b]
       /\ at'.v = v /\ at'.pc = c.versions[v].pc /\ at'.x = x
  BY <1>1, <1>b, <1>x
<1>18. at' \in [v : Nat, pc : Nat, x : Context, fresh : BOOLEAN]
  BY <1>4, <1>15, <1>16, <1>17
<1>19. Types'
  BY <1>1, <1>2, <1>14, <1>18 DEF Types
<1>20. AtInv'
  <2>1. Idle' = Idle /\ at' # Idle
    BY <1>4, <1>17 DEF Idle, NoContext
  <2>2. Balanced(at.x)'
    BY <1>1, <1>16, <1>17, BalancedStays
  <2>3. at'.pc \in DOMAIN Code'
    BY <1>1, <1>15, <1>17 DEF Code
  <2>4. Cleared(c', at'.v, Len(c'.tape), at'.x.room)
    BY <1>7, <1>16, <1>17, <1>k, <1>x DEF Cleared
  <2>5. at'.v = c'.head /\ c'.head # 0 /\ at'.x.generic = c'.versions[at'.v].in.generic
    BY <1>4, <1>7, <1>17, <1>k, <1>x
  <2> QED BY <2>1, <2>2, <2>3, <2>4, <2>5 DEF AtInv
<1>21. RunInv'
  BY <1>1, <1>2, <1>7, <1>k DEF RunInv
<1> QED BY <1>14, <1>19, <1>20, <1>21 DEF VInv

-----------------------------------------------------------------------------
(* Publishing.                                                              *)

LEMMA OpCases == ASSUME NEW w \in TapeWord, w.op \notin {"code", "guard", "return", "local"} PROVE Leads(w)
BY DEF TapeWord, WordOps, Leads

(* When every version is compiled, every label is bound to a word.          *)
LEMMA AllBound ==
  ASSUME VInv, c.status # "refused", at = Idle, c.head = Len(c.versions), NEW i \in DOMAIN c.tape, c.tape[i].label # 0
  PROVE  c.labels[c.tape[i].label] \in DOMAIN c.tape
<1>1. c \in Compiler /\ Good(c, 0) /\ (c.head # 0 => Place(c, c.head) \in DOMAIN c.tape)
  BY DEF VInv, AtInv, Good
<1>w. PICK w : w = c.tape[i]
  OBVIOUS
<1>2. w \in TapeWord /\ WordInv(c, w, i) /\ w.label # 0
  BY <1>1, <1>w, CompilerParts DEF Good, TapeInv
<1>3. CASE w.op = "local"
  BY <1>1, <1>2, <1>3, <1>w DEF Good, LocalsInv
<1>4. CASE w.op # "local"
  <2>1. Leads(w)
    BY <1>2, <1>4, OpCases DEF WordInv
  <2>2. PICK v \in DOMAIN c.versions : LeadsTo(c, w, v)
    BY <1>2, <2>1 DEF WordInv
  <2>3. v \in 1 .. c.head /\ c.head # 0
    BY <1>1, <2>2, CompilerParts
  <2>4. Place(c, v) \in DOMAIN c.tape
    BY <1>1, <2>3 DEF Good, PlaceInv
  <2> QED BY <1>w, <2>2, <2>4 DEF LeadsTo, Place
<1> QED BY <1>3, <1>4

(* Each word means what it meant, and has its target.                       *)
Resolved(k, k2) ==
  /\ k2 \in Compiler /\ k2.versions = k.versions /\ k2.labels = k.labels /\ k2.head = k.head /\ k2.status = "published"
  /\ Len(k2.tape) = Len(k.tape) /\ DOMAIN k2.tape = DOMAIN k.tape
  /\ \A i \in DOMAIN k.tape :
       /\ k2.tape[i].op = k.tape[i].op /\ k2.tape[i].of = k.tape[i].of /\ k2.tape[i].label = k.tape[i].label
       /\ k2.tape[i].cells = k.tape[i].cells /\ k2.tape[i].edge = k.tape[i].edge
       /\ k2.tape[i].target = IF k.tape[i].label = 0 THEN 0 ELSE k.labels[k.tape[i].label]

LEMMA ResolvedGood ==
  ASSUME NEW k, Good(k, 0), k.status = "compiling", NEW k2, Resolved(k, k2) PROVE Good(k2, 0)
<1>1. /\ k2 \in Compiler /\ k2.versions = k.versions /\ k2.labels = k.labels /\ k2.head = k.head /\ k2.status = "published"
      /\ Len(k2.tape) = Len(k.tape) /\ DOMAIN k2.tape = DOMAIN k.tape
      /\ \A i \in DOMAIN k.tape :
           /\ k2.tape[i].op = k.tape[i].op /\ k2.tape[i].of = k.tape[i].of /\ k2.tape[i].label = k.tape[i].label
           /\ k2.tape[i].cells = k.tape[i].cells /\ k2.tape[i].edge = k.tape[i].edge
           /\ k2.tape[i].target = IF k.tape[i].label = 0 THEN 0 ELSE k.labels[k.tape[i].label]
  BY DEF Resolved
<1>g. /\ k.head <= Len(k.versions) /\ VersionsInv(k) /\ LimitInv(k) /\ SpareInv(k) /\ TapeInv(k) /\ LocalsInv(k, 0)
      /\ PlaceInv(k) /\ k \in Compiler
  BY DEF Good
<1>2. k2.head <= Len(k2.versions) /\ VersionsInv(k2)
  BY <1>1, <1>g DEF VersionsInv
<1>3. LimitInv(k2) /\ SpareInv(k2)
  <2>1. \A pc, x : Family(k2, pc, x) = Family(k, pc, x)
    BY <1>1 DEF Family, Versions
  <2>2. \A i : FamilyOf(k2, i) = FamilyOf(k, i)
    BY <1>1, <2>1 DEF FamilyOf
  <2> QED BY <1>1, <1>g, <2>2 DEF LimitInv, SpareInv
<1>4. TapeInv(k2)
  <2> SUFFICES ASSUME NEW n \in DOMAIN k.tape
               PROVE  /\ WordInv(k2, k2.tape[n], n)
                      /\ k2.tape[n].target = IF k2.tape[n].label = 0 THEN 0 ELSE k2.labels[k2.tape[n].label]
    BY <1>1 DEF TapeInv
  <2>w. PICK w : w = k.tape[n]
    OBVIOUS
  <2>u. PICK u : u = k2.tape[n]
    OBVIOUS
  <2>1. WordInv(k, w, n)
    BY <1>g, <2>w DEF TapeInv
  <2>2. u.op = w.op /\ u.of = w.of /\ u.label = w.label /\ u.edge = w.edge
    BY <1>1, <2>w, <2>u
  <2>3. u.op = "local" => OwnLabel(k2, u.label)
    BY <1>1, <2>1, <2>2 DEF WordInv, OwnLabel
  <2>4. \A v : LeadsTo(k, w, v) => LeadsTo(k2, u, v)
    BY <1>1, <2>2 DEF LeadsTo
  <2>5. Forgetful(w) => Forgetful(u)
    BY <2>2 DEF Forgetful
  <2>6. RoomFor(k, w, n) => RoomFor(k2, u, n)
    <3>1. \A v, room : Cleared(k, v, n, room) => Cleared(k2, v, n, room)
      BY <1>1 DEF Cleared
    <3> QED BY <1>1, <2>2, <3>1 DEF RoomFor
  <2>7. Leads(w) <=> Leads(u)
    BY <2>2 DEF Leads
  <2>8. WordInv(k2, u, n)
    BY <1>1, <2>1, <2>2, <2>3, <2>4, <2>5, <2>6, <2>7 DEF WordInv
  <2> QED BY <1>1, <2>8, <2>u
<1>5. LocalsInv(k2, 0)
  <2>1. ASSUME NEW n \in DOMAIN k.tape, k.tape[n].op = "local"
        PROVE  /\ k.tape[n].label # 0
               /\ k.labels[k.tape[n].label] \in DOMAIN k.tape /\ k.tape[k.labels[k.tape[n].label]].of = k.tape[n].of
    BY <1>g, <2>1 DEF LocalsInv, TapeInv, WordInv
  <2> QED BY <1>1, <2>1 DEF LocalsInv
<1>6. PlaceInv(k2)
  <2>1. \A v : Place(k2, v) = Place(k, v)
    BY <1>1 DEF Place
  <2> QED BY <1>1, <1>g, <2>1 DEF PlaceInv
<1> QED BY <1>1, <1>2, <1>3, <1>4, <1>5, <1>6 DEF Good

LEMMA PublishKeeps == ASSUME VInv, Publish PROVE VInv' /\ c'.status = "published"
<1>k. PICK k : k = c'
  OBVIOUS
<1>1. c.status = "compiling" /\ at = Idle /\ c.head = Len(c.versions) /\ program' = program /\ at' = at /\ run' = run
  BY DEF Publish
<1>2. /\ program \in Programs /\ c \in Compiler /\ Good(c, 0) /\ run \in [v : Nat, room : Nat] /\ run.v = 0
      /\ at \in [v : Nat, pc : Nat, x : Context, fresh : BOOLEAN]
      /\ c.head # 0 => Place(c, c.head) \in DOMAIN c.tape
  BY <1>1 DEF VInv, Types, RunInv, AtInv
<1>3. ~\E i \in DOMAIN c.tape : c.tape[i].label # 0 /\ c.labels[c.tape[i].label] \notin DOMAIN c.tape
  BY <1>1, AllBound
<1>t. PICK t : t = [i \in DOMAIN c.tape |-> Patched(c.tape[i])]
  OBVIOUS
<1>4. k = [c EXCEPT !.status = "published", !.tape = t]
  BY <1>2, <1>3, <1>k, <1>t DEF Publish, Compiler
<1>5. /\ c.tape \in Seq(TapeWord) /\ Len(c.tape) \in Nat /\ DOMAIN c.tape = 1 .. Len(c.tape)
      /\ \A i \in DOMAIN c.tape : c.tape[i] \in TapeWord
      /\ \A l \in DOMAIN c.labels : c.labels[l] \in Nat
  BY <1>2, CompilerParts
<1>6. ASSUME NEW i \in DOMAIN c.tape
      PROVE  LET w == Patched(c.tape[i])
             IN  /\ w \in TapeWord /\ w.op = c.tape[i].op /\ w.of = c.tape[i].of /\ w.label = c.tape[i].label
                 /\ w.cells = c.tape[i].cells /\ w.edge = c.tape[i].edge
                 /\ w.target = IF c.tape[i].label = 0 THEN 0 ELSE c.labels[c.tape[i].label]
  <2>w. PICK w : w = c.tape[i]
    OBVIOUS
  <2>1. w \in TapeWord /\ w.target = 0
    <3>1. w.target = IF c.status # "published" \/ w.label = 0 THEN 0 ELSE c.labels[w.label]
      BY <1>2, <2>w DEF Good, TapeInv
    <3> QED BY <1>1, <1>5, <2>w, <3>1
  <2>2. CASE w.label = 0
    <3>1. Patched(w) = w
      BY <2>2 DEF Patched
    <3> QED BY <2>1, <2>2, <2>w, <3>1
  <2>3. CASE w.label # 0
    <3>1. c.labels[w.label] \in DOMAIN c.tape
      BY <1>3, <2>3, <2>w
    <3>l. PICK l \in Nat : l = c.labels[w.label]
      BY <1>5, <3>1
    <3>2. Patched(w) = [w EXCEPT !.target = l]
      BY <2>3, <3>l DEF Patched
    <3>u. PICK u : u = [w EXCEPT !.target = l]
      OBVIOUS
    <3>3. /\ u \in TapeWord /\ u.op = w.op /\ u.of = w.of /\ u.label = w.label
          /\ u.cells = w.cells /\ u.edge = w.edge /\ u.target = l
      BY <2>1, <3>u DEF TapeWord
    <3> QED BY <2>3, <2>w, <3>2, <3>3, <3>l, <3>u
  <2> QED BY <2>2, <2>3
<1>7. /\ t \in Seq(TapeWord) /\ DOMAIN t = DOMAIN c.tape /\ Len(t) = Len(c.tape)
      /\ \A i \in DOMAIN c.tape : t[i] = Patched(c.tape[i])
  <2>1. DOMAIN t = 1 .. Len(c.tape) /\ \A i \in DOMAIN c.tape : t[i] = Patched(c.tape[i])
    BY <1>5, <1>t
  <2>2. t \in [1 .. Len(c.tape) -> TapeWord]
    BY <1>5, <1>6, <1>t
  <2>3. t \in Seq(TapeWord)
    BY <1>5, <2>2, SeqDef
  <2>4. Len(t) = Len(c.tape)
    BY <1>5, <2>1, <2>3, LenProperties
  <2> QED BY <1>5, <2>1, <2>3, <2>4
<1>8. /\ k \in Compiler /\ k.versions = c.versions /\ k.labels = c.labels /\ k.head = c.head /\ k.status = "published"
      /\ k.tape = t
  BY <1>2, <1>4, <1>7 DEF Compiler
<1>9. Resolved(c, k)
  BY <1>6, <1>7, <1>8 DEF Resolved
<1>10. Good(k, 0)
  BY <1>1, <1>2, <1>9, ResolvedGood
<1>11. Good(c, 0)' /\ c' \in Compiler /\ c'.head <= Len(c'.versions)
  BY <1>1, <1>10, <1>k, GoodStays
<1>12. Types'
  BY <1>1, <1>2, <1>11 DEF Types
<1>13. AtInv'
  <2>1. Idle' = Idle
    BY DEF Idle, NoContext
  <2>2. Place(k, k.head) = Place(c, c.head)
    BY <1>8 DEF Place
  <2> QED BY <1>1, <1>2, <1>7, <1>8, <1>k, <2>1, <2>2 DEF AtInv
<1>14. RunInv'
  <2>1. Idle' = Idle
    BY DEF Idle, NoContext
  <2> QED BY <1>1, <1>2, <1>8, <1>k, <2>1 DEF RunInv
<1> QED BY <1>8, <1>11, <1>12, <1>13, <1>14, <1>k DEF VInv

-----------------------------------------------------------------------------
(* Running.                                                                 *)

LEMMA LedIs ==
  ASSUME NEW k, k = c, Good(k, 0), NEW i \in Jumps
  PROVE  Led(i) \in DOMAIN c.versions /\ LeadsTo(c, c.tape[i], Led(i)) /\ WordInv(c, c.tape[i], i) /\ i \in DOMAIN c.tape
<1>1. i \in DOMAIN c.tape /\ Leads(c.tape[i])
  BY DEF Jumps
<1>2. WordInv(c, c.tape[i], i)
  BY <1>1 DEF Good, TapeInv
<1>3. PICK v \in DOMAIN c.versions : LeadsTo(c, c.tape[i], v)
  BY <1>1, <1>2 DEF WordInv
<1>4. c.versions[v].label = c.tape[i].label
  BY <1>3 DEF LeadsTo
<1>5. Led(i) \in DOMAIN c.versions /\ c.versions[Led(i)].label = c.tape[i].label
  BY <1>3, <1>4 DEF Led
<1>6. Led(i) = v
  BY <1>3, <1>4, <1>5 DEF Good, VersionsInv
<1> QED BY <1>1, <1>2, <1>3, <1>6

(* The guards of a tape have a largest.                                     *)
LEMMA CellsBounded ==
  ASSUME NEW k \in Compiler PROVE \E n \in Nat : \A j \in DOMAIN k.tape : k.tape[j].cells <= n
<1>l. PICK l : l = Len(k.tape)
  OBVIOUS
<1>t. PICK t : t = k.tape
  OBVIOUS
<1>1. l \in Nat /\ DOMAIN t = 1 .. l /\ \A j \in 1 .. l : t[j].cells \in Nat
  BY <1>l, <1>t, CompilerParts DEF TapeWord
<1> DEFINE Unbounded(m) == \A n \in Nat : \E j \in 1 .. m : ~(t[j].cells <= n)
           T == {m \in Nat : m <= l /\ Unbounded(m)}
<1>2. SUFFICES ASSUME T # {} PROVE FALSE
  <2>1. l \notin T
    BY <1>2
  <2>2. ~Unbounded(l)
    BY <1>1, <2>1
  <2> QED BY <1>1, <1>t, <2>2
<1>3. PICK m \in T : \A y \in T : m <= y
  <2>1. T \subseteq Nat
    OBVIOUS
  <2> QED BY <1>2, <2>1, LeastNumber
<1>4. m \in Nat /\ m <= l /\ Unbounded(m)
  BY <1>3
<1>5. m # 0
  <2>1. 0 \in Nat /\ 1 .. 0 = {}
    OBVIOUS
  <2> QED BY <1>4, <2>1
<1>b. PICK before : before = m - 1
  OBVIOUS
<1>6. before \in Nat /\ ~(m <= before) /\ before <= l /\ 1 .. m = 1 .. before \cup {m}
  BY <1>1, <1>4, <1>5, <1>b
<1>7. ~Unbounded(before)
  BY <1>3, <1>6
<1>8. PICK n \in Nat : \A j \in 1 .. before : t[j].cells <= n
  BY <1>7
<1>c. PICK cells : cells = t[m].cells
  OBVIOUS
<1>9. cells \in Nat /\ m \in 1 .. l /\ 1 .. before \subseteq 1 .. l
  BY <1>1, <1>4, <1>5, <1>6, <1>c
<1>n. PICK n2 \in Nat : n2 = n + cells
  BY <1>9
<1> HIDE DEF Unbounded, T
<1>10. ASSUME NEW j \in 1 .. m PROVE t[j].cells <= n2
  <2>1. CASE j = m
    BY <1>9, <1>c, <1>n, <2>1
  <2>2. CASE j \in 1 .. before
    <3>1. t[j].cells <= n /\ t[j].cells \in Nat
      BY <1>1, <1>8, <1>9, <2>2
    <3> QED BY <1>9, <1>n, <3>1
  <2> QED BY <1>6, <2>1, <2>2
<1> QED BY <1>4, <1>10 DEF Unbounded

(* What a thread knows to be free at word i.                                *)
LEMMA GuardedParts ==
  ASSUME c \in Compiler, run \in [v : Nat, room : Nat], NEW i \in DOMAIN c.tape
  PROVE  /\ Max(Guarded(i)) \in Nat /\ Max(Guarded(i)) >= run.room
         /\ \A j \in DOMAIN c.tape :
              j <= i /\ c.tape[j].op = "guard" /\ c.tape[j].of = run.v => Max(Guarded(i)) >= c.tape[j].cells
<1>1. Len(c.tape) \in Nat /\ DOMAIN c.tape = 1 .. Len(c.tape) /\ \A j \in DOMAIN c.tape : c.tape[j].cells \in Nat
  BY CompilerParts DEF TapeWord
<1>2. PICK n \in Nat : \A j \in DOMAIN c.tape : c.tape[j].cells <= n
  BY CellsBounded
<1>r. run.room \in Nat
  OBVIOUS
<1>m. PICK m \in Nat : m = n + run.room
  BY <1>r
<1>g. PICK gs : gs = Guarded(i)
  OBVIOUS
<1>3. /\ run.room \in gs
      /\ \A j \in 1 .. i : c.tape[j].of = run.v /\ c.tape[j].op = "guard" => c.tape[j].cells \in gs
      /\ \A y \in gs : y = run.room \/ \E j \in 1 .. i : y = c.tape[j].cells
  BY <1>g DEF Guarded
<1>4. 1 .. i \subseteq DOMAIN c.tape
  BY <1>1
<1>5. ASSUME NEW y \in gs PROVE y \in Nat /\ y <= m
  <2>1. CASE y = run.room
    BY <1>r, <1>m, <2>1
  <2>2. ASSUME NEW j \in 1 .. i, y = c.tape[j].cells PROVE y \in Nat /\ y <= m
    <3>1. y \in Nat /\ y <= n
      BY <1>1, <1>2, <1>4, <2>2
    <3> QED BY <1>r, <1>m, <3>1
  <2> QED BY <1>3, <2>1, <2>2
<1>6. gs \subseteq Nat /\ gs # {} /\ \A y \in gs : y <= m
  BY <1>3, <1>5
<1>7. Max(gs) \in gs /\ \A y \in gs : Max(gs) >= y
  BY <1>6, MaxOf
<1>8. ASSUME NEW j \in DOMAIN c.tape, j <= i, c.tape[j].op = "guard", c.tape[j].of = run.v
      PROVE  Max(gs) >= c.tape[j].cells
  <2>1. j \in 1 .. i
    BY <1>1, <1>8
  <2> QED BY <1>3, <1>7, <1>8, <2>1
<1> QED BY <1>3, <1>6, <1>7, <1>8, <1>g

LEMMA RunsKeeps ==
  ASSUME VInv, c.status = "published", UNCHANGED <<program, c, at>>, run' \in [v : Nat, room : Nat],
         run'.v \in DOMAIN c.versions, ~c.versions[run'.v].in.generic => run'.room >= c.versions[run'.v].in.room
  PROVE  VInv'
<1>1. Good(c, 0)' /\ c' \in Compiler /\ c'.head <= Len(c'.versions)
  <2>1. Good(c, 0) /\ program' = program /\ c' = c
    BY DEF VInv
  <2> QED BY <2>1, GoodStays
<1>i. Idle' = Idle
  BY DEF Idle, NoContext
<1>2. Types'
  BY <1>1 DEF VInv, Types
<1>3. at = Idle /\ c.head = Len(c.versions)
  BY DEF VInv, RunInv
<1>4. AtInv'
  BY <1>3, <1>i DEF VInv, AtInv, Place
<1>5. RunInv'
  BY <1>3, <1>i DEF RunInv
<1> QED BY <1>1, <1>2, <1>4, <1>5 DEF VInv

LEMMA EnterKeeps == ASSUME VInv, Enter PROVE VInv'
<1>1. PICK f \in DOMAIN Functions : run' = [v |-> f, room |-> Functions[f].height - 1]
  BY DEF Enter
<1>2. c.status = "published" /\ UNCHANGED <<program, c, at>>
  BY DEF Enter
<1>3. program \in Programs /\ VersionsInv(c)
  BY DEF VInv, Types, Good
<1>4. f \in DOMAIN c.versions /\ c.versions[f].in = EntryContext(f, Home) /\ f \in Nat /\ Functions[f].height - 1 \in Nat
  <2>1. f \in DOMAIN c.versions /\ c.versions[f].in = EntryContext(f, Home)
    BY <1>3 DEF VersionsInv
  <2>2. f \in Nat /\ Functions[f].height \in Nat \ {0}
    BY <1>3, ProgramParts
  <2> QED BY <2>1, <2>2
<1>h. PICK h \in Nat : h = Functions[f].height - 1
  BY <1>4
<1>5. run' \in [v : Nat, room : Nat] /\ run'.v = f /\ run'.room = h
  BY <1>1, <1>4, <1>h
<1>6. c.versions[f].in.room = h
  BY <1>4, <1>h DEF EntryContext
<1> QED BY <1>2, <1>4, <1>5, <1>6, RunsKeeps

LEMMA FollowKeeps == ASSUME VInv, Follow PROVE VInv'
<1>1. PICK i \in Jumps :
        /\ c.tape[i].of = run.v
        /\ run' = [v |-> Led(i), room |-> IF c.tape[i].op = "call" THEN c.tape[i].edge.sent.room ELSE Max(Guarded(i))]
  BY DEF Follow
<1>2. c.status = "published" /\ UNCHANGED <<program, c, at>>
  BY DEF Follow
<1>3. /\ c \in Compiler /\ Good(c, 0) /\ run \in [v : Nat, room : Nat]
      /\ run.v # 0 => run.v \in DOMAIN c.versions /\ (~c.versions[run.v].in.generic => run.room >= c.versions[run.v].in.room)
  BY DEF VInv, Types, RunInv
<1>w. PICK w : w = c.tape[i]
  OBVIOUS
<1>v. PICK v : v = Led(i)
  OBVIOUS
<1>4. v \in DOMAIN c.versions /\ LeadsTo(c, w, v) /\ WordInv(c, w, i) /\ i \in DOMAIN c.tape
  BY <1>3, <1>v, <1>w, LedIs
<1>5. Fits(c.versions[v].in, w.edge.sent) /\ Leads(w)
  BY <1>1, <1>4, <1>w DEF LeadsTo, Jumps
<1>6. /\ v \in Nat /\ w \in TapeWord /\ w.edge \in Passage /\ w.edge.sent \in Context /\ w.edge.sent.room \in Nat
      /\ c.versions[v].in \in Context /\ c.versions[v].in.room \in Nat
  <2>1. v \in Nat /\ w \in TapeWord /\ c.versions[v].in \in Context
    BY <1>3, <1>4, <1>w, CompilerParts
  <2>2. w.edge \in Passage
    BY <2>1 DEF TapeWord
  <2>3. w.edge.sent \in Context
    BY <2>2 DEF Passage
  <2> QED BY <2>1, <2>2, <2>3, ContextParts
<1>7. run.v # 0 /\ w.of = run.v
  BY <1>1, <1>3, <1>4, <1>w, CompilerParts DEF WordInv
<1>r. PICK room : room = IF w.op = "call" THEN w.edge.sent.room ELSE Max(Guarded(i))
  OBVIOUS
<1>8. room \in Nat
  BY <1>3, <1>4, <1>6, <1>r, GuardedParts
<1>9. ASSUME ~c.versions[v].in.generic PROVE room >= c.versions[v].in.room
  <2>1. w.edge.sent.generic = c.versions[v].in.generic /\ c.versions[v].in.room <= w.edge.sent.room
    BY <1>5, <1>9 DEF Fits
  <2>2. CASE w.op = "call"
    BY <1>6, <1>r, <2>1, <2>2
  <2>3. CASE w.op # "call"
    <3>1. RoomFor(c, w, i)
      BY <1>4, <1>5 DEF WordInv
    <3>2. ~c.versions[run.v].in.generic /\ Cleared(c, run.v, i, w.edge.sent.room)
      BY <1>7, <1>9, <2>1, <2>3, <3>1 DEF RoomFor
    <3>3. run.room >= c.versions[run.v].in.room /\ run.room \in Nat /\ c.versions[run.v].in.room \in Nat
      BY <1>3, <1>7, <3>2, CompilerParts, ContextParts
    <3>4. /\ room >= run.room
          /\ \A j \in DOMAIN c.tape : j <= i /\ c.tape[j].op = "guard" /\ c.tape[j].of = run.v => room >= c.tape[j].cells
      BY <1>3, <1>4, <1>r, <2>3, GuardedParts
    <3>5. \A j \in DOMAIN c.tape : c.tape[j].cells \in Nat
      BY <1>3, CompilerParts DEF TapeWord
    <3>6. room >= w.edge.sent.room
      BY <1>6, <1>8, <3>2, <3>3, <3>4, <3>5 DEF Cleared
    <3> QED BY <1>6, <1>8, <2>1, <3>6
  <2> QED BY <2>2, <2>3
<1>10. run' \in [v : Nat, room : Nat] /\ run'.v = v /\ run'.room = room
  BY <1>1, <1>6, <1>8, <1>r, <1>v, <1>w
<1> QED BY <1>2, <1>4, <1>9, <1>10, RunsKeeps

-----------------------------------------------------------------------------
(* The invariant holds from the start, and every step keeps it.             *)

LEMMA InitHolds == ASSUME Init PROVE VInv
<1>1. /\ program \in Programs /\ at = Idle /\ run = [v |-> 0, room |-> 0]
      /\ c = [versions |-> [f \in DOMAIN Functions |-> [pc |-> Entry(f), in |-> EntryContext(f, Home), label |-> f]],
              labels |-> [f \in DOMAIN Functions |-> 0], head |-> 0, tape |-> <<>>, status |-> "compiling"]
  BY DEF Init
<1>2. /\ DOMAIN Functions = 1 .. Len(Functions) /\ Len(Functions) \in Nat
      /\ \A f \in DOMAIN Functions : Entry(f) \in DOMAIN Code /\ Entry(f) \in Nat
      /\ \A f, g \in DOMAIN Functions : Entry(f) = Entry(g) => f = g
  BY <1>1, ProgramParts
<1>n. PICK n \in Nat : n = Len(Functions)
  BY <1>2
<1>3. ASSUME NEW f \in DOMAIN Functions
      PROVE  /\ Balanced(EntryContext(f, Home)) /\ EntryContext(f, Home) \in Context
             /\ [pc |-> Entry(f), in |-> EntryContext(f, Home), label |-> f] \in Version
  <2>1. Balanced(EntryContext(f, Home)) /\ EntryContext(f, Home) \in Context
    BY <1>1, CellsOf, EntryParts DEF Balanced
  <2>x. PICK x : x = EntryContext(f, Home)
    OBVIOUS
  <2>e. PICK e \in Nat : e = Entry(f)
    BY <1>2
  <2>2. f \in Nat
    BY <1>2
  <2>3. [pc |-> e, in |-> x, label |-> f] \in Version
    BY <2>1, <2>x, <2>2 DEF Version
  <2> QED BY <2>1, <2>3, <2>x, <2>e
<1>vs. PICK vs : vs = [f \in DOMAIN Functions |-> [pc |-> Entry(f), in |-> EntryContext(f, Home), label |-> f]]
  OBVIOUS
<1>z. PICK z \in Nat : z = 0
  OBVIOUS
<1>ls. PICK ls : ls = [f \in DOMAIN Functions |-> z]
  OBVIOUS
<1>t. PICK t : t = <<>>
  OBVIOUS
<1>4. /\ vs \in Seq(Version) /\ DOMAIN vs = DOMAIN Functions
      /\ \A f \in DOMAIN Functions : vs[f].pc = Entry(f) /\ vs[f].in = EntryContext(f, Home) /\ vs[f].label = f
  <2>1. vs \in [1 .. n -> Version]
    BY <1>2, <1>3, <1>n, <1>vs
  <2>2. vs \in Seq(Version)
    BY <2>1, SeqDef
  <2> QED BY <2>2, <1>vs
<1>5. ls \in Seq(Nat) /\ DOMAIN ls = DOMAIN Functions
  <2>1. ls \in [1 .. n -> Nat]
    BY <1>2, <1>n, <1>ls
  <2> QED BY <2>1, <1>ls, SeqDef
<1>6. t \in Seq(TapeWord) /\ DOMAIN t = {}
  BY <1>t
<1>7. c = [versions |-> vs, labels |-> ls, head |-> z, tape |-> t, status |-> "compiling"]
  BY <1>1, <1>vs, <1>ls, <1>z, <1>t
<1>8. c \in Compiler /\ c.versions = vs /\ c.labels = ls /\ c.head = z /\ c.tape = t /\ c.status = "compiling"
  BY <1>4, <1>5, <1>6, <1>7 DEF Compiler
<1>9. c.head <= Len(c.versions)
  BY <1>8, <1>z, CompilerParts
<1>10. VersionsInv(c)
  <2>1. ASSUME NEW i \in DOMAIN c.versions
        PROVE  c.versions[i].pc \in DOMAIN Code /\ Balanced(c.versions[i].in) /\ c.versions[i].label \in DOMAIN c.labels
    <3>1. i \in DOMAIN Functions /\ c.versions[i].in = EntryContext(i, Home)
      BY <1>4, <1>8
    <3>2. Balanced(c.versions[i].in)
      BY <1>3, <3>1
    <3> QED BY <1>2, <1>4, <1>5, <1>8, <3>1, <3>2
  <2>2. ASSUME NEW i \in DOMAIN c.versions, NEW j \in DOMAIN c.versions, c.versions[i].label = c.versions[j].label
        PROVE  i = j
    BY <1>4, <1>8, <2>2
  <2>3. ASSUME NEW f \in DOMAIN Functions
        PROVE  f \in DOMAIN c.versions /\ c.versions[f].pc = Entry(f) /\ c.versions[f].in = EntryContext(f, Home)
    BY <1>4, <1>8
  <2> QED BY <2>1, <2>2, <2>3 DEF VersionsInv
<1>11. ASSUME NEW i \in DOMAIN c.versions PROVE Cardinality(FamilyOf(c, i)) < Limit
  <2>1. FamilyOf(c, i) = {i}
    <3>1. \A j \in FamilyOf(c, i) : j \in DOMAIN c.versions /\ c.versions[j].pc = c.versions[i].pc
      BY DEF FamilyOf, Family, Versions
    <3>2. \A j \in FamilyOf(c, i) : j = i
      BY <1>2, <1>4, <1>8, <3>1
    <3>3. i \in FamilyOf(c, i)
      BY <1>8, FamilyBasics, SelfFamily DEF FamilyOf
    <3> QED BY <3>2, <3>3
  <2>2. Cardinality(FamilyOf(c, i)) = 1
    BY <2>1, FS_Singleton
  <2> QED BY <2>2, LimitAssumption
<1>12. LimitInv(c) /\ SpareInv(c)
  <2>1. \A i \in DOMAIN c.versions : Cardinality(FamilyOf(c, i)) \in Nat
    BY <1>8, FamilyBasics DEF FamilyOf
  <2> QED BY <1>8, <1>11, <2>1, LimitAssumption DEF LimitInv, SpareInv
<1>13. TapeInv(c) /\ LocalsInv(c, 0) /\ PlaceInv(c)
  BY <1>6, <1>8, <1>z DEF TapeInv, LocalsInv, PlaceInv
<1>14. Types
  <2>1. Idle \in [v : Nat, pc : Nat, x : Context, fresh : BOOLEAN]
    BY BlankParts DEF Idle
  <2>2. run \in [v : Nat, room : Nat]
    BY <1>1, <1>z
  <2> QED BY <1>1, <1>8, <1>9, <2>1, <2>2 DEF Types
<1>15. AtInv /\ RunInv
  BY <1>1, <1>8, <1>z DEF AtInv, RunInv
<1> QED BY <1>8, <1>9, <1>10, <1>12, <1>13, <1>14, <1>15 DEF VInv, Good

LEMMA StepKeeps == ASSUME VInv, [Next]_vars PROVE VInv'
<1>1. CASE Next
  BY <1>1, CompileKeeps, FallthroughKeeps, PublishKeeps, EnterKeeps, FollowKeeps, SimpleKeeps, JumpKeeps, BranchKeeps,
     VirtualCallKeeps, RealCallKeeps, TailCallKeeps, ReturnKeeps DEF Next
<1>2. CASE UNCHANGED vars
  <2>1. program' = program /\ c' = c /\ at' = at /\ run' = run
    BY <1>2 DEF vars
  <2>2. Good(c, 0)' /\ c' \in Compiler /\ c'.head <= Len(c'.versions)
    BY <2>1, GoodStays DEF VInv
  <2>i. Idle' = Idle
    BY DEF Idle, NoContext
  <2>3. Types'
    BY <2>1, <2>2 DEF VInv, Types
  <2>4. AtInv'
    <3>1. Balanced(at.x) => Balanced(at.x)'
      BY <2>1 DEF Balanced, Code
    <3>2. Code' = Code
      BY <2>1 DEF Code
    <3> QED BY <2>1, <2>i, <3>1, <3>2 DEF VInv, AtInv, Place, Cleared
  <2>5. RunInv'
    BY <2>1, <2>i DEF VInv, RunInv
  <2> QED BY <2>2, <2>3, <2>4, <2>5 DEF VInv
<1> QED BY <1>1, <1>2

(* The state has the types above, and the compiler and the thread are as    *)
(* the parts of VInv say, in every state.                                   *)
THEOREM VersionsInvariant == Spec => []VInv
<1>1. Init => VInv
  BY InitHolds
<1>2. VInv /\ [Next]_vars => VInv'
  BY StepKeeps
<1> QED BY <1>1, <1>2, PTL DEF Spec

-----------------------------------------------------------------------------
(* What follows of edges, versions and the published tape.                  *)

(* Code is only entered with every cell where it was compiled to find it,   *)
(* in the callers it was compiled into.                                     *)
THEOREM EdgesFit == Spec => []JumpsAccepted
<1>1. VInv => JumpsAccepted
  <2> SUFFICES ASSUME VInv, NEW i \in Jumps
               PROVE  /\ c.versions[Led(i)].pc = c.tape[i].edge.to
                      /\ c.versions[Led(i)].in.cells = c.tape[i].edge.sent.cells
                      /\ c.versions[Led(i)].in.cont = c.tape[i].edge.sent.cont
    BY DEF JumpsAccepted
  <2>1. LeadsTo(c, c.tape[i], Led(i))
    BY LedIs DEF VInv
  <2> QED BY <2>1 DEF LeadsTo, Fits
<1> QED BY <1>1, VersionsInvariant, PTL

(* No block has more versions for one set of callers than the limit.        *)
THEOREM VersionsAreLimited == Spec => []WithinLimit
<1>1. VInv => WithinLimit
  BY DEF VInv, Good, LimitInv, FamilyOf, WithinLimit
<1> QED BY <1>1, VersionsInvariant, PTL

(* Only a program that calls something recursively is ever refused.         *)
THEOREM OnlyRecursionIsRefused == Spec => []RefusedForRecursion
<1>1. VInv => RefusedForRecursion
  BY DEF VInv, Good, SpareInv, NoneRecursive, RefusedForRecursion
<1> QED BY <1>1, VersionsInvariant, PTL

(* A backward edge hands on no constant, and nothing that tells of one.     *)
THEOREM LoopsAreNotUnrolled == Spec => []LoopsForget
<1>1. VInv => LoopsForget
  <2> SUFFICES ASSUME VInv, NEW i \in Jumps, c.tape[i].op # "call", c.tape[i].edge.to <= c.tape[i].edge.from,
                      NEW n \in DOMAIN c.tape[i].edge.was.cells, c.tape[i].edge.was.cells[n].kind = "const"
               PROVE  /\ c.tape[i].edge.sent.cells[n].kind # "const"
                      /\ c.tape[i].edge.sent.cells[n].rest \in {Nothing, WasHome}
    BY DEF LoopsForget
  <2>1. WordInv(c, c.tape[i], i) /\ Leads(c.tape[i])
    BY LedIs DEF VInv, Jumps
  <2>2. Forgetful(c.tape[i])
    BY <2>1 DEF WordInv
  <2> QED BY <2>2 DEF Forgetful, Told
<1> QED BY <1>1, VersionsInvariant, PTL

(* A tape is published with every target patched to the first word of what  *)
(* the word means, and with none patched before.                            *)
THEOREM TargetsArePatched == Spec => []PublishedWhole
<1>1. VInv => PublishedWhole
  <2> SUFFICES ASSUME VInv PROVE PublishedWhole
    OBVIOUS
  <2>1. c \in Compiler /\ Good(c, 0) /\ c.status # "unbound"
    BY DEF VInv, Good, Compiler
  <2>2. ASSUME NEW i \in DOMAIN c.tape, NEW w, w = c.tape[i]
        PROVE  IF c.status # "published" \/ w.label = 0 THEN w.target = 0
               ELSE /\ w.target \in DOMAIN c.tape
                    /\ c.tape[w.target].of = IF i \in Jumps THEN Led(i) ELSE w.of
                    /\ i \in Jumps => w.target = 1 \/ c.tape[w.target - 1].of # c.tape[w.target].of
    <3>1. /\ WordInv(c, w, i)
          /\ w.target = IF c.status # "published" \/ w.label = 0 THEN 0 ELSE c.labels[w.label]
      BY <2>1, <2>2 DEF Good, TapeInv
    <3>2. SUFFICES ASSUME c.status = "published", w.label # 0
                   PROVE  /\ w.target \in DOMAIN c.tape
                          /\ c.tape[w.target].of = IF i \in Jumps THEN Led(i) ELSE w.of
                          /\ i \in Jumps => w.target = 1 \/ c.tape[w.target - 1].of # c.tape[w.target].of
      BY <3>1
    <3>3. at = Idle /\ c.head = Len(c.versions)
      BY <3>2 DEF VInv, RunInv
    <3>4. w.target = c.labels[w.label] /\ w.target \in DOMAIN c.tape
      BY <2>2, <3>1, <3>2, <3>3, AllBound
    <3>5. CASE i \in Jumps
      <4>v. PICK v : v = Led(i)
        OBVIOUS
      <4>1. v \in DOMAIN c.versions /\ c.versions[v].label = w.label
        BY <2>1, <2>2, <3>5, <4>v, LedIs DEF LeadsTo
      <4>2. v \in 1 .. c.head /\ Place(c, v) = w.target
        BY <2>1, <3>3, <3>4, <4>1, CompilerParts DEF Place
      <4>3. c.tape[w.target].of = v /\ \A j \in DOMAIN c.tape : j < w.target => c.tape[j].of # v
        BY <2>1, <3>4, <4>2 DEF Good, PlaceInv
      <4>4. w.target # 1 => w.target - 1 \in DOMAIN c.tape /\ w.target - 1 < w.target
        BY <2>1, <3>4, CompilerParts
      <4> QED BY <3>4, <3>5, <4>3, <4>4, <4>v
    <3>6. CASE i \notin Jumps
      <4>1. w.op = "local"
        BY <2>1, <2>2, <3>1, <3>2, <3>6, OpCases, CompilerParts DEF WordInv, Jumps
      <4>2. c.tape[c.labels[w.label]].of = w.of
        BY <2>1, <2>2, <3>2, <4>1 DEF Good, LocalsInv
      <4> QED BY <3>4, <3>6, <4>2
    <3> QED BY <3>5, <3>6
  <2> QED BY <2>1, <2>2 DEF PublishedWhole
<1> QED BY <1>1, VersionsInvariant, PTL

(* Code that is not generic only runs where the room it relies on is known  *)
(* to be free.                                                              *)
THEOREM RoomIsLookedFor == Spec => []RoomProvenUnlessGeneric
<1>1. VInv => RoomProvenUnlessGeneric
  BY DEF VInv, RunInv, RoomProvenUnlessGeneric, RoomProven
<1> QED BY <1>1, VersionsInvariant, PTL
=============================================================================
