--------------------------- MODULE PlacementProofs ---------------------------
(***************************************************************************)
(* Theorems about Placement, for any numbers of registers and cells, any   *)
(* values and any operation on them.                                       *)
(***************************************************************************)
EXTENDS Placement, FiniteSetTheorems, WellFoundedInduction, TLAPS

-----------------------------------------------------------------------------
(* Contexts.                                                                 *)

Places   == Stacks \X Int
Descs    == [kind : {"const", "reg", "home"}, at : Values \cup Regs \cup Places, dst : Places]
Contents == Values \cup {Junk}
Memories == UNION {[P -> Contents] : P \in SUBSET Places}
Frames   == [base : [Stacks -> Nat], dst : Operands, offset : {-Arguments}]
Contexts == [cell : [Stacks -> Seq(Descs)], cont : Seq(Frames), offset : {-Arguments},
             reg : [Regs -> Contents], mem : Memories]

\* The slot in memory that belongs to a place on the stacks.
Spot(u) == IF u[1] = "C" THEN <<"C", u[2] - 1 - Arguments>> ELSE <<u[1], u[2] - 1>>

LEMMA Bounds == /\ MaxA \in Nat /\ MaxB \in Nat /\ MaxC \in Nat /\ Arguments \in Nat
                /\ MaxCalls \in Nat /\ MaxResults \in Nat
                /\ Registers \in Nat /\ Registers >= 2
BY BoundsAssumption, RegistersAssumption

LEMMA LeastNumber ==
  ASSUME NEW T, T \subseteq Nat, T # {} PROVE \E x \in T : \A y \in T : x <= y
<1>1. IsWellFoundedOn(OpToRel(<, Nat), Nat)
  BY NatLessThanWellFounded
<1>2. PICK x \in T : \A y \in T : ~(<<y, x>> \in OpToRel(<, Nat))
  BY <1>1, WFMin
<1>3. \A y \in T : ~(y < x)
  BY <1>2 DEF OpToRel
<1> QED BY <1>3

\* What holds of 0, and of i if of i - 1, holds of n.
LEMMA Climb ==
  ASSUME NEW n \in Nat, NEW T, 0 \in T, \A i \in 1 .. n : i - 1 \in T => i \in T
  PROVE  \A i \in 0 .. n : i \in T
<1> DEFINE U == {i \in 0 .. n : i \notin T}
<1> SUFFICES ASSUME U # {} PROVE FALSE
  OBVIOUS
<1>0. U \subseteq Nat
  OBVIOUS
<1>1. PICK i \in U : \A j \in U : i <= j
  <2> HIDE DEF U
  <2> QED BY <1>0, LeastNumber
<1>2. i # 0 /\ i \in 1 .. n /\ i - 1 \in 0 .. n /\ ~(i <= i - 1)
  BY <1>1
<1> QED BY <1>1, <1>2

\* What one step of each walk over cells does.
SpillOne(j, u, k, r) ==
  IF u \notin Uses(k, r) THEN j ELSE SetCell(Put(j, Cell(k, u).dst, k.reg[r]), u, Home(Cell(k, u).dst))
FlushOne(f, u)   == IF Cell(f, u).kind = "const" THEN f ELSE Homed(f, u)
ConformOne(f, u) == HomedTo(f, u, Canonical(f, u))
WeakenOne(f, u)  == IF Cell(f, u).kind = "const" THEN MaterializedAt(f, u, {}).m ELSE f
EnterOne(g, me)  == Transferred(g, me, "C", TRUE)
HandOne(j, i, from, to, base) == Renamed([m |-> j, d |-> Cell(j, <<from, base + i>>)], to)
ResumeOne(f, me, results) == PushCell(f, me, IF results = 1 THEN Reg(0, Next(f, me)) ELSE Home(Next(f, me)))
HomesOne(f, u, me) == HomedTo(f, u, <<me, u[2] - 1>>)
PassOne(f, j, me, n) == Written(MaterializedAt(f, Under(f, me, n - j), {}), FrameSlot(f, n, j))
FinishOne(f, u, me) == Saved(SetCell(f, u, Aim(Cell(f, u), <<me, u[2] - 1>>)), u)

Doing(t, y, u) ==
  CASE t[1] = "spill"   -> SpillOne(y, u, t[2], t[3])
    [] t[1] = "flush"   -> FlushOne(y, u)
    [] t[1] = "conform" -> ConformOne(y, u)
    [] t[1] = "weaken"  -> WeakenOne(y, u)
    [] t[1] = "enter"   -> EnterOne(y, t[2])
    [] t[1] = "capture" -> CapturedAt(y, u)
    [] t[1] = "hand"    -> HandOne(y, u, t[2], t[3], t[4])
    [] t[1] = "resume"  -> ResumeOne(y, t[2], t[3])
    [] t[1] = "homes"   -> HomesOne(y, u, t[2])
    [] t[1] = "pass"    -> PassOne(y, u, t[2], t[3])
    [] t[1] = "finish"  -> FinishOne(y, u, t[2])

\* f is the way of k through the elements of us.
Way(f, t, k, us, n) == f[0] = k /\ \A i \in 1 .. n : f[i] = Doing(t, f[i - 1], us[i])

LEMMA WayExists ==
  ASSUME NEW t, NEW k, NEW us, NEW n \in Nat
  PROVE  \E f : Way(f, t, k, us, n)
<1> DEFINE P(f, l) == f[0] = k /\ \A i \in 1 .. l : f[i] = Doing(t, f[i - 1], us[i])
           T == {l \in 0 .. n : \E f : P(f, l)}
<1>1. 0 \in T
  <2>1. PICK h : h = [i \in 0 .. 0 |-> k]
    OBVIOUS
  <2>2. h[0] = k
    BY <2>1
  <2>3. \A i \in 1 .. 0 : FALSE
    OBVIOUS
  <2>4. P(h, 0)
    BY <2>2, <2>3
  <2> QED BY <2>4
<1>2. ASSUME NEW l \in 1 .. n, l - 1 \in T PROVE l \in T
  <2>1. PICK f : P(f, l - 1)
    BY <1>2
  <2>2. l - 1 \in 0 .. l - 1 /\ l \in Nat /\ l \notin 0 .. l - 1
    BY <1>2
  <2>3. PICK y : y = Doing(t, f[l - 1], us[l])
    OBVIOUS
  <2>5. PICK g : g = [i \in 0 .. l |-> IF i = l THEN y ELSE f[i]]
    OBVIOUS
  <2>7. ASSUME NEW i \in 1 .. l PROVE g[i] = Doing(t, g[i - 1], us[i])
    <3>1. i - 1 \in 0 .. l /\ i - 1 # l /\ g[i - 1] = f[i - 1] /\ i \in 0 .. l
      BY <2>2, <2>5
    <3>2. CASE i = l
      BY <2>3, <2>5, <3>1, <3>2
    <3>3. CASE i # l
      <4>1. i \in 1 .. l - 1
        BY <2>2, <3>3
      <4> QED BY <2>1, <2>5, <3>1, <3>3, <4>1
    <3> QED BY <3>2, <3>3
  <2>8. g[0] = k
    <3>1. 0 \in 0 .. l /\ 0 # l
      BY <1>2
    <3> QED BY <2>1, <2>5, <3>1
  <2>9. P(g, l)
    BY <2>7, <2>8
  <2> QED BY <1>2, <2>9
<1>3. n \in T
  <2>1. \A i \in 0 .. n : i \in T
    <3> HIDE DEF T
    <3> QED BY <1>1, <1>2, Climb
  <2> QED BY <2>1
<1> QED BY <1>3 DEF Way

LEMMA ContextParts ==
  ASSUME NEW k \in Contexts
  PROVE  /\ k.cell \in [Stacks -> Seq(Descs)] /\ k.cont \in Seq(Frames) /\ k.offset = -Arguments
         /\ k.reg \in [Regs -> Contents] /\ k.mem \in Memories
         /\ \A s \in Stacks : k.cell[s] \in Seq(Descs) /\ Depth(k, s) \in Nat /\ Depth(k, s) = Len(k.cell[s])
BY DEF Contexts, Depth

LEMMA CellsAre ==
  ASSUME NEW k \in Contexts
  PROVE  /\ \A u : u \in Cells(k) <=> \E s \in Stacks : \E i \in 1 .. Depth(k, s) : u = <<s, i>>
         /\ \A u \in Cells(k) : /\ u[1] \in Stacks /\ u[2] \in Nat /\ u[2] >= 1 /\ u[2] <= Depth(k, u[1])
                                /\ u = <<u[1], u[2]>> /\ Cell(k, u) \in Descs /\ Cell(k, u) = k.cell[u[1]][u[2]]
         /\ \A s \in Stacks, i \in Nat : i >= 1 /\ i <= Depth(k, s) => <<s, i>> \in Cells(k)
<1>1. \A u : u \in Cells(k) <=> \E s \in Stacks : \E i \in 1 .. Depth(k, s) : u = <<s, i>>
  BY DEF Cells
<1>2. ASSUME NEW u \in Cells(k)
      PROVE  /\ u[1] \in Stacks /\ u[2] \in Nat /\ u[2] >= 1 /\ u[2] <= Depth(k, u[1])
             /\ u = <<u[1], u[2]>> /\ Cell(k, u) \in Descs /\ Cell(k, u) = k.cell[u[1]][u[2]]
  <2>1. PICK s \in Stacks : \E i \in 1 .. Depth(k, s) : u = <<s, i>>
    BY <1>1
  <2>2. PICK i \in 1 .. Depth(k, s) : u = <<s, i>>
    BY <2>1
  <2>3. k.cell[s] \in Seq(Descs) /\ Depth(k, s) = Len(k.cell[s]) /\ Depth(k, s) \in Nat
    BY ContextParts
  <2>4. k.cell[s][i] \in Descs
    BY <2>3
  <2> QED BY <2>2, <2>3, <2>4 DEF Cell
<1>3. ASSUME NEW s \in Stacks, NEW i \in Nat, i >= 1, i <= Depth(k, s) PROVE <<s, i>> \in Cells(k)
  <2>1. Depth(k, s) \in Nat
    BY ContextParts
  <2> QED BY <1>1, <1>3, <2>1
<1> QED BY <1>1, <1>2, <1>3

LEMMA SpotIs ==
  ASSUME NEW k \in Contexts
  PROVE  /\ \A u \in Stacks \X Int : Canonical(k, u) = Spot(u) /\ Spot(u) \in Places /\ Spot(u)[1] = u[1]
         /\ \A u, v \in Stacks \X Int : Spot(u) = Spot(v) => u = v
         /\ Cells(k) \subseteq Stacks \X Int
         /\ \A s \in Stacks : Next(k, s) = Spot(<<s, Depth(k, s) + 1>>) /\ Next(k, s) \in Places
                              /\ <<s, Depth(k, s) + 1>> \in Stacks \X Int
<1>1. Arguments \in Nat
  BY Bounds
<1>2. ASSUME NEW u \in Stacks \X Int
      PROVE  Canonical(k, u) = Spot(u) /\ Spot(u) \in Places /\ Spot(u)[1] = u[1]
  <2>1. k.offset = -Arguments
    BY ContextParts
  <2>2. u[1] \in Stacks /\ u[2] \in Int
    OBVIOUS
  <2>3. -Arguments + u[2] - 1 = u[2] - 1 - Arguments
    BY <1>1, <2>2
  <2>4. u[2] - 1 - Arguments \in Int /\ u[2] - 1 \in Int
    BY <1>1, <2>2
  <2> QED BY <2>1, <2>2, <2>3, <2>4 DEF Canonical, Spot, Places
<1>3. ASSUME NEW u \in Stacks \X Int, NEW v \in Stacks \X Int, Spot(u) = Spot(v) PROVE u = v
  <2>1. u[1] \in Stacks /\ u[2] \in Int /\ v[1] \in Stacks /\ v[2] \in Int /\ u = <<u[1], u[2]>> /\ v = <<v[1], v[2]>>
    OBVIOUS
  <2>2. u[1] = v[1]
    BY <1>3, <1>2
  <2>3. u[2] = v[2]
    BY <1>1, <1>3, <2>1, <2>2 DEF Spot
  <2> QED BY <2>1, <2>2, <2>3
<1>4. Cells(k) \subseteq Stacks \X Int
  BY CellsAre
<1>5. ASSUME NEW s \in Stacks
      PROVE  /\ Next(k, s) = Spot(<<s, Depth(k, s) + 1>>) /\ Next(k, s) \in Places
             /\ <<s, Depth(k, s) + 1>> \in Stacks \X Int
  <2>1. Depth(k, s) \in Nat
    BY ContextParts
  <2>2. <<s, Depth(k, s) + 1>> \in Stacks \X Int
    BY <2>1
  <2> QED BY <1>2, <2>2 DEF Next
<1> QED BY <1>2, <1>3, <1>4, <1>5

-----------------------------------------------------------------------------
(* What an elementary change leaves of a context.                            *)

SameShape(k, j) == j.cont = k.cont /\ \A s \in Stacks : Depth(j, s) = Depth(k, s)

LEMMA SetCellIs ==
  ASSUME NEW k \in Contexts, NEW u \in Cells(k), NEW d \in Descs, NEW j, j = SetCell(k, u, d)
  PROVE  /\ j \in Contexts /\ SameShape(k, j) /\ Cells(j) = Cells(k) /\ j.reg = k.reg /\ j.mem = k.mem
         /\ \A v \in Cells(k) : Cell(j, v) = IF v = u THEN d ELSE Cell(k, v)
<1>1. PICK s, i : s = u[1] /\ i = u[2]
  OBVIOUS
<1>2. s \in Stacks /\ i \in 1 .. Depth(k, s) /\ u = <<s, i>>
  <2>1. s \in Stacks /\ Depth(k, s) \in Nat
    BY <1>1, CellsAre, ContextParts
  <2> QED BY <1>1, <2>1, CellsAre
<1>3. PICK q : q = [k.cell[s] EXCEPT ![i] = d]
  OBVIOUS
<1>4. q \in Seq(Descs) /\ Len(q) = Len(k.cell[s]) /\ \A n \in 1 .. Len(q) : q[n] = IF n = i THEN d ELSE k.cell[s][n]
  <2>1. k.cell[s] \in Seq(Descs) /\ i \in 1 .. Len(k.cell[s])
    BY <1>2, ContextParts
  <2> QED BY <1>3, <2>1
<1>5. PICK c : c = [k.cell EXCEPT ![s] = q]
  OBVIOUS
<1>6. c \in [Stacks -> Seq(Descs)] /\ c[s] = q /\ \A t \in Stacks : t # s => c[t] = k.cell[t]
  BY <1>2, <1>4, <1>5, ContextParts
<1>7. j = [k EXCEPT !.cell = c]
  BY <1>1, <1>3, <1>5 DEF SetCell
<1>8. j \in Contexts /\ j.cell = c /\ j.cont = k.cont /\ j.reg = k.reg /\ j.mem = k.mem
  BY <1>6, <1>7 DEF Contexts
<1>9. \A t \in Stacks : Depth(j, t) = Depth(k, t)
  BY <1>4, <1>6, <1>8 DEF Depth
<1>10. Cells(j) = Cells(k)
  BY <1>9 DEF Cells
<1>11. ASSUME NEW v \in Cells(k) PROVE Cell(j, v) = IF v = u THEN d ELSE Cell(k, v)
  <2>1. v[1] \in Stacks /\ v[2] \in 1 .. Depth(k, v[1]) /\ v = <<v[1], v[2]>>
    <3>1. v[1] \in Stacks /\ Depth(k, v[1]) \in Nat
      BY CellsAre, ContextParts
    <3> QED BY <3>1, CellsAre
  <2>2. CASE v[1] = s
    <3>1. v[2] \in 1 .. Len(q)
      BY <1>4, <2>1, <2>2, ContextParts
    <3>2. Cell(j, v) = q[v[2]] /\ Cell(k, v) = k.cell[s][v[2]]
      BY <1>6, <1>8, <2>2 DEF Cell
    <3>3. v = u <=> v[2] = i
      BY <1>2, <2>1, <2>2
    <3> QED BY <1>4, <3>1, <3>2, <3>3
  <2>3. CASE v[1] # s
    BY <1>1, <1>6, <1>8, <2>1, <2>3 DEF Cell
  <2> QED BY <2>2, <2>3
<1> QED BY <1>8, <1>9, <1>10, <1>11 DEF SameShape

LEMMA PutIs ==
  ASSUME NEW k \in Contexts, NEW p \in Places, NEW v \in Contents, NEW j, j = Put(k, p, v)
  PROVE  /\ j \in Contexts /\ SameShape(k, j) /\ Cells(j) = Cells(k) /\ j.reg = k.reg /\ j.cell = k.cell
         /\ \A q : Read(j, q) = IF q = p THEN v ELSE Read(k, q)
<1>1. PICK P \in SUBSET Places : k.mem \in [P -> Contents]
  <2>1. k.mem \in UNION {[P -> Contents] : P \in SUBSET Places}
    BY ContextParts DEF Memories
  <2>2. PICK M \in {[P -> Contents] : P \in SUBSET Places} : k.mem \in M
    BY <2>1
  <2> QED BY <2>2
<1>2. PICK mm : mm = [q \in DOMAIN k.mem \cup {p} |-> IF q = p THEN v ELSE k.mem[q]]
  OBVIOUS
<1>3. mm = [q \in P \cup {p} |-> IF q = p THEN v ELSE k.mem[q]]
  BY <1>1, <1>2
<1>4. mm \in [P \cup {p} -> Contents] /\ P \cup {p} \in SUBSET Places
  BY <1>1, <1>3
<1>5. mm \in Memories
  BY <1>4 DEF Memories
<1>6. j = [k EXCEPT !.mem = mm]
  BY <1>2 DEF Put
<1>7. j \in Contexts /\ j.cell = k.cell /\ j.cont = k.cont /\ j.reg = k.reg /\ j.mem = mm
  BY <1>5, <1>6 DEF Contexts
<1>8. \A q : Read(j, q) = IF q = p THEN v ELSE Read(k, q)
  BY <1>1, <1>3, <1>4, <1>7 DEF Read
<1> QED BY <1>7, <1>8 DEF SameShape, Cells, Depth

SetReg(k, r, v) == [k EXCEPT !.reg[r] = v]

LEMMA SetRegIs ==
  ASSUME NEW k \in Contexts, NEW r \in Regs, NEW v \in Contents, NEW j, j = SetReg(k, r, v)
  PROVE  /\ j \in Contexts /\ SameShape(k, j) /\ Cells(j) = Cells(k) /\ j.mem = k.mem /\ j.cell = k.cell
         /\ \A q \in Regs : j.reg[q] = IF q = r THEN v ELSE k.reg[q]
<1>1. PICK g : g = [k.reg EXCEPT ![r] = v]
  OBVIOUS
<1>2. g \in [Regs -> Contents] /\ \A q \in Regs : g[q] = IF q = r THEN v ELSE k.reg[q]
  BY <1>1, ContextParts
<1>3. j = [k EXCEPT !.reg = g]
  BY <1>1 DEF SetReg
<1>4. j \in Contexts /\ j.cell = k.cell /\ j.cont = k.cont /\ j.reg = g /\ j.mem = k.mem
  BY <1>2, <1>3 DEF Contexts
<1> QED BY <1>2, <1>4 DEF SameShape, Cells, Depth

LEMMA PushCellIs ==
  ASSUME NEW k \in Contexts, NEW s \in Stacks, NEW d \in Descs, NEW j, j = PushCell(k, s, d)
  PROVE  /\ j \in Contexts /\ j.cont = k.cont /\ j.reg = k.reg /\ j.mem = k.mem
         /\ \A t \in Stacks : Depth(j, t) = IF t = s THEN Depth(k, s) + 1 ELSE Depth(k, t)
         /\ Cells(j) = Cells(k) \cup {<<s, Depth(k, s) + 1>>} /\ <<s, Depth(k, s) + 1>> \notin Cells(k)
         /\ \A v \in Cells(k) : Cell(j, v) = Cell(k, v)
         /\ Cell(j, <<s, Depth(k, s) + 1>>) = d
<1>1. PICK q, n : q = Append(k.cell[s], d) /\ n = Depth(k, s)
  OBVIOUS
<1>2. q \in Seq(Descs) /\ Len(q) = n + 1 /\ n \in Nat /\ q[n + 1] = d /\ \A i \in 1 .. n : q[i] = k.cell[s][i]
  <2>1. k.cell[s] \in Seq(Descs) /\ n = Len(k.cell[s])
    BY <1>1, ContextParts
  <2> QED BY <1>1, <2>1
<1>3. PICK c : c = [k.cell EXCEPT ![s] = q]
  OBVIOUS
<1>4. c \in [Stacks -> Seq(Descs)] /\ c[s] = q /\ \A t \in Stacks : t # s => c[t] = k.cell[t]
  BY <1>2, <1>3, ContextParts
<1>5. j = [k EXCEPT !.cell = c]
  BY <1>1, <1>3 DEF PushCell
<1>6. j \in Contexts /\ j.cell = c /\ j.cont = k.cont /\ j.reg = k.reg /\ j.mem = k.mem
  BY <1>4, <1>5 DEF Contexts
<1>7. \A t \in Stacks : Depth(j, t) = IF t = s THEN n + 1 ELSE Depth(k, t)
  BY <1>1, <1>2, <1>4, <1>6 DEF Depth
<1>8. ASSUME NEW v PROVE v \in Cells(j) <=> v \in Cells(k) \/ v = <<s, n + 1>>
  <2>1. v \in Cells(j) <=> \E t \in Stacks : \E i \in 1 .. Depth(j, t) : v = <<t, i>>
    BY <1>6, CellsAre
  <2>2. v \in Cells(k) <=> \E t \in Stacks : \E i \in 1 .. Depth(k, t) : v = <<t, i>>
    BY CellsAre
  <2>3. ASSUME NEW t \in Stacks
        PROVE  (\E i \in 1 .. Depth(j, t) : v = <<t, i>>)
                 <=> (\E i \in 1 .. Depth(k, t) : v = <<t, i>>) \/ (t = s /\ v = <<s, n + 1>>)
    <3>1. CASE t = s
      <4>1. 1 .. n + 1 = 1 .. n \cup {n + 1}
        BY <1>2
      <4>2. Depth(j, t) = n + 1 /\ Depth(k, t) = n
        BY <1>1, <1>7, <3>1
      <4> QED BY <3>1, <4>1, <4>2
    <3>2. CASE t # s
      BY <1>7, <3>2
    <3> QED BY <3>1, <3>2
  <2> QED BY <2>1, <2>2, <2>3
<1>9. <<s, n + 1>> \notin Cells(k)
  <2>1. ~(n + 1 <= Depth(k, s))
    BY <1>1, <1>2
  <2> QED BY <2>1, CellsAre
<1>10. ASSUME NEW v \in Cells(k) PROVE Cell(j, v) = Cell(k, v)
  <2>1. v[1] \in Stacks /\ v[2] \in Nat /\ v[2] >= 1 /\ v[2] <= Depth(k, v[1])
    BY CellsAre
  <2>2. CASE v[1] = s
    BY <1>1, <1>2, <1>4, <1>6, <2>1, <2>2 DEF Cell
  <2>3. CASE v[1] # s
    BY <1>4, <1>6, <2>1, <2>3 DEF Cell
  <2> QED BY <2>2, <2>3
<1>11. Cell(j, <<s, n + 1>>) = d
  BY <1>2, <1>4, <1>6 DEF Cell
<1> QED BY <1>1, <1>6, <1>7, <1>8, <1>9, <1>10, <1>11

LEMMA CutIs ==
  ASSUME NEW k \in Contexts, NEW s \in Stacks, NEW n \in Nat, n <= Depth(k, s), NEW j, j = Cut(k, s, n)
  PROVE  /\ j \in Contexts /\ j.cont = k.cont /\ j.reg = k.reg /\ j.mem = k.mem
         /\ \A t \in Stacks : Depth(j, t) = IF t = s THEN n ELSE Depth(k, t)
         /\ \A v : v \in Cells(j) <=> v \in Cells(k) /\ (v[1] = s => v[2] <= n)
         /\ \A v \in Cells(j) : Cell(j, v) = Cell(k, v)
<1>1. PICK q : q = SubSeq(k.cell[s], 1, n)
  OBVIOUS
<1>2. q \in Seq(Descs) /\ Len(q) = n /\ \A i \in 1 .. n : q[i] = k.cell[s][i]
  <2>1. k.cell[s] \in Seq(Descs) /\ n <= Len(k.cell[s]) /\ Len(k.cell[s]) \in Nat
    BY ContextParts
  <2>2. \A i \in 1 .. n : i \in 1 .. Len(k.cell[s])
    BY <2>1
  <2> QED BY <1>1, <2>1, <2>2
<1>3. PICK c : c = [k.cell EXCEPT ![s] = q]
  OBVIOUS
<1>4. c \in [Stacks -> Seq(Descs)] /\ c[s] = q /\ \A t \in Stacks : t # s => c[t] = k.cell[t]
  BY <1>2, <1>3, ContextParts
<1>5. j = [k EXCEPT !.cell = c]
  BY <1>1, <1>3 DEF Cut
<1>6. j \in Contexts /\ j.cell = c /\ j.cont = k.cont /\ j.reg = k.reg /\ j.mem = k.mem
  BY <1>4, <1>5 DEF Contexts
<1>7. \A t \in Stacks : Depth(j, t) = IF t = s THEN n ELSE Depth(k, t)
  BY <1>2, <1>4, <1>6 DEF Depth
<1>8. ASSUME NEW v PROVE v \in Cells(j) <=> v \in Cells(k) /\ (v[1] = s => v[2] <= n)
  <2>1. v \in Cells(j) <=> \E t \in Stacks : \E i \in 1 .. Depth(j, t) : v = <<t, i>>
    BY <1>6, CellsAre
  <2>2. v \in Cells(k) <=> \E t \in Stacks : \E i \in 1 .. Depth(k, t) : v = <<t, i>>
    BY CellsAre
  <2>3. ASSUME NEW t \in Stacks
        PROVE  (\E i \in 1 .. Depth(j, t) : v = <<t, i>>)
                 <=> (\E i \in 1 .. Depth(k, t) : v = <<t, i>>) /\ (v[1] = s => v[2] <= n)
    <3>1. CASE t = s
      <4>1. Depth(j, t) = n /\ Depth(k, t) \in Nat /\ n <= Depth(k, t)
        BY <1>7, <3>1, ContextParts
      <4>2. \A i : i \in 1 .. n <=> i \in 1 .. Depth(k, t) /\ i <= n
        BY <4>1
      <4> QED BY <3>1, <4>1, <4>2
    <3>2. CASE t # s
      <4>1. \A i : v = <<t, i>> => v[1] # s
        BY <3>2
      <4> QED BY <1>7, <3>2, <4>1
    <3> QED BY <3>1, <3>2
  <2> QED BY <2>1, <2>2, <2>3
<1>9. ASSUME NEW v \in Cells(j) PROVE Cell(j, v) = Cell(k, v)
  <2>1. v[1] \in Stacks /\ v[2] \in Nat /\ v[2] >= 1 /\ v[2] <= Depth(j, v[1])
    BY <1>6, CellsAre
  <2>2. CASE v[1] = s
    BY <1>2, <1>4, <1>6, <1>7, <2>1, <2>2 DEF Cell
  <2>3. CASE v[1] # s
    BY <1>4, <1>6, <2>1, <2>3 DEF Cell
  <2> QED BY <2>2, <2>3
<1> QED BY <1>6, <1>7, <1>8, <1>9

-----------------------------------------------------------------------------
(* A context in which every cell is on its way to its own slot, and stands   *)
(* for a value.                                                              *)

Placed(d, u) ==
  /\ d \in Descs /\ d.dst = Spot(u)
  /\ d.kind = "const" => d.at \in Values
  /\ d.kind = "reg"   => d.at \in Regs
  /\ d.kind = "home"  => d.at = Spot(u)

Holds(k, u) == Denote(k, Cell(k, u))

Sane(k) == k \in Contexts /\ \A u \in Cells(k) : Placed(Cell(k, u), u) /\ Holds(k, u) \in Values

\* Code that moves values about: the cells stand for what they did, and in
\* memory only their slots have changed, to what belongs there.
Keeps(k, j) ==
  /\ Sane(j) /\ SameShape(k, j) /\ Cells(j) = Cells(k)
  /\ \A u \in Cells(k) : Holds(j, u) = Holds(k, u)
  /\ \A p : Read(j, p) = Read(k, p) \/ \E u \in Cells(k) : p = Spot(u) /\ Read(j, p) = Holds(k, u)

LEMMA KeepsSelf == ASSUME NEW k, Sane(k) PROVE Keeps(k, k)
BY DEF Keeps, SameShape

LEMMA KeepsTwice ==
  ASSUME NEW k, NEW j, NEW l, Keeps(k, j), Keeps(j, l) PROVE Keeps(k, l)
<1>1. Sane(l) /\ Cells(l) = Cells(k) /\ \A u \in Cells(k) : Holds(l, u) = Holds(k, u)
  BY DEF Keeps
<1>2. SameShape(k, l)
  BY DEF Keeps, SameShape
<1>3. ASSUME NEW p PROVE Read(l, p) = Read(k, p) \/ \E u \in Cells(k) : p = Spot(u) /\ Read(l, p) = Holds(k, u)
  <2>1. Read(l, p) = Read(j, p) \/ \E u \in Cells(j) : p = Spot(u) /\ Read(l, p) = Holds(j, u)
    BY DEF Keeps
  <2>2. Read(j, p) = Read(k, p) \/ \E u \in Cells(k) : p = Spot(u) /\ Read(j, p) = Holds(k, u)
    BY DEF Keeps
  <2>3. Cells(j) = Cells(k) /\ \A u \in Cells(k) : Holds(j, u) = Holds(k, u)
    BY DEF Keeps
  <2> QED BY <2>1, <2>2, <2>3
<1> QED BY <1>1, <1>2, <1>3 DEF Keeps

LEMMA DescKinds ==
  ASSUME NEW d \in Descs
  PROVE  /\ d.kind = "const" \/ d.kind = "reg" \/ d.kind = "home"
         /\ d = [kind |-> d.kind, at |-> d.at, dst |-> d.dst] /\ d.dst \in Places
         /\ d.at \in Values \cup Regs \cup Places
BY DEF Descs

LEMMA DenoteIs ==
  ASSUME NEW k, NEW d
  PROVE  /\ d.kind = "const" => Denote(k, d) = d.at
         /\ d.kind = "reg" => Denote(k, d) = k.reg[d.at]
         /\ d.kind = "home" => Denote(k, d) = Read(k, d.at)
BY DEF Denote

LEMMA RegIs ==
  ASSUME NEW r \in Regs, NEW u \in Stacks \X Int, NEW k \in Contexts
  PROVE  /\ Placed(Reg(r, Spot(u)), u) /\ Reg(r, Spot(u)) \in Descs
         /\ Reg(r, Spot(u)).kind = "reg" /\ Reg(r, Spot(u)).at = r
         /\ Denote(k, Reg(r, Spot(u))) = k.reg[r]
<1>1. Spot(u) \in Places
  BY SpotIs
<1>2. Reg(r, Spot(u)) \in Descs /\ Reg(r, Spot(u)).kind = "reg" /\ Reg(r, Spot(u)).at = r /\ Reg(r, Spot(u)).dst = Spot(u)
  BY <1>1 DEF Reg, Descs
<1> QED BY <1>2, DenoteIs DEF Placed

LEMMA HomeIs ==
  ASSUME NEW u \in Stacks \X Int, NEW k \in Contexts
  PROVE  /\ Placed(Home(Spot(u)), u) /\ Home(Spot(u)) \in Descs
         /\ Home(Spot(u)).kind = "home" /\ Home(Spot(u)).at = Spot(u)
         /\ Denote(k, Home(Spot(u))) = Read(k, Spot(u))
<1>1. Spot(u) \in Places
  BY SpotIs
<1>2. /\ Home(Spot(u)) \in Descs /\ Home(Spot(u)).kind = "home" /\ Home(Spot(u)).at = Spot(u)
      /\ Home(Spot(u)).dst = Spot(u)
  BY <1>1 DEF Home, Descs
<1> QED BY <1>2, DenoteIs DEF Placed

LEMMA ConstIs ==
  ASSUME NEW v \in Values, NEW u \in Stacks \X Int, NEW k \in Contexts
  PROVE  /\ Placed(Const(v, Spot(u)), u) /\ Const(v, Spot(u)) \in Descs
         /\ Const(v, Spot(u)).kind = "const" /\ Const(v, Spot(u)).at = v
         /\ Denote(k, Const(v, Spot(u))) = v
<1>1. Spot(u) \in Places
  BY SpotIs
<1>2. /\ Const(v, Spot(u)) \in Descs /\ Const(v, Spot(u)).kind = "const" /\ Const(v, Spot(u)).at = v
      /\ Const(v, Spot(u)).dst = Spot(u)
  BY <1>1 DEF Const, Descs
<1> QED BY <1>2, DenoteIs DEF Placed

\* A descriptor that is placed is one of three.
LEMMA PlacedIs ==
  ASSUME NEW u \in Stacks \X Int, NEW d, Placed(d, u)
  PROVE  /\ d \in Descs
         /\ d.kind = "const" => d = Const(d.at, Spot(u)) /\ d.at \in Values
         /\ d.kind = "reg" => d = Reg(d.at, Spot(u)) /\ d.at \in Regs
         /\ d.kind = "home" => d = Home(Spot(u)) /\ d.at = Spot(u)
         /\ d.kind = "const" \/ d.kind = "reg" \/ d.kind = "home"
<1>1. d \in Descs /\ d.dst = Spot(u)
  BY DEF Placed
<1>2. d = [kind |-> d.kind, at |-> d.at, dst |-> Spot(u)] /\ (d.kind = "const" \/ d.kind = "reg" \/ d.kind = "home")
  BY <1>1, DescKinds
<1> QED BY <1>1, <1>2 DEF Placed, Const, Reg, Home

LEMMA ReadIs == ASSUME NEW k \in Contexts, NEW p PROVE Read(k, p) \in Contents
<1>1. k.mem \in UNION {[P -> Contents] : P \in SUBSET Places}
  BY ContextParts DEF Memories
<1>2. PICK M \in {[P -> Contents] : P \in SUBSET Places} : k.mem \in M
  BY <1>1
<1>3. PICK P \in SUBSET Places : k.mem \in [P -> Contents]
  BY <1>2
<1> QED BY <1>3 DEF Read, Contents

LEMMA SaneParts ==
  ASSUME NEW k, Sane(k)
  PROVE  /\ k \in Contexts /\ Cells(k) \subseteq Stacks \X Int
         /\ \A u \in Cells(k) : /\ Placed(Cell(k, u), u) /\ Holds(k, u) \in Values /\ Cell(k, u) \in Descs
                                /\ u[1] \in Stacks /\ u[2] \in Nat /\ u[2] >= 1 /\ u[2] <= Depth(k, u[1]) /\ u = <<u[1], u[2]>>
                                /\ Canonical(k, u) = Spot(u) /\ Spot(u) \in Places
                                /\ Cell(k, u).dst = Spot(u)
         /\ \A s \in Stacks : Depth(k, s) \in Nat
         /\ \A s \in Stacks, i \in Nat : i >= 1 /\ i <= Depth(k, s) => <<s, i>> \in Cells(k)
<1>1. k \in Contexts /\ \A u \in Cells(k) : Placed(Cell(k, u), u) /\ Holds(k, u) \in Values
  BY DEF Sane
<1>2. Cells(k) \subseteq Stacks \X Int
  BY <1>1, SpotIs
<1>3. \A u \in Cells(k) : Canonical(k, u) = Spot(u) /\ Spot(u) \in Places
  BY <1>1, <1>2, SpotIs
<1>4. \A u \in Cells(k) : Cell(k, u) \in Descs /\ u[1] \in Stacks /\ u[2] \in Nat /\ u[2] >= 1 /\ u[2] <= Depth(k, u[1]) /\ u = <<u[1], u[2]>>
  BY <1>1, CellsAre
<1>5. \A u \in Cells(k) : Cell(k, u).dst = Spot(u)
  BY <1>1 DEF Placed
<1> QED BY <1>1, <1>2, <1>3, <1>4, <1>5, CellsAre, ContextParts

LEMMA SpotsDiffer ==
  ASSUME NEW u \in Stacks \X Int, NEW v \in Stacks \X Int, u # v PROVE Spot(u) # Spot(v)
<1>1. Arguments \in Nat
  BY Bounds
<1>2. u[1] \in Stacks /\ u[2] \in Int /\ v[1] \in Stacks /\ v[2] \in Int /\ u = <<u[1], u[2]>> /\ v = <<v[1], v[2]>>
  OBVIOUS
<1>3. CASE u[1] # v[1]
  BY <1>2, <1>3 DEF Spot
<1>4. CASE u[1] = v[1]
  <2>1. u[2] # v[2]
    BY <1>2, <1>4
  <2>2. u[2] - 1 # v[2] - 1 /\ u[2] - 1 - Arguments # v[2] - 1 - Arguments
    BY <1>1, <1>2, <2>1
  <2> QED BY <1>4, <2>2 DEF Spot
<1> QED BY <1>3, <1>4

LEMMA UsesAre ==
  ASSUME NEW k, Sane(k), NEW r
  PROVE  /\ Uses(k, r) \subseteq Cells(k)
         /\ \A u \in Cells(k) : u \in Uses(k, r) <=> Cell(k, u).kind = "reg" /\ Cell(k, u).at = r
         /\ \A u \in Uses(k, r) : Cell(k, u) = Reg(r, Spot(u)) /\ Holds(k, u) = k.reg[r]
<1>1. ASSUME NEW u \in Uses(k, r) PROVE Cell(k, u) = Reg(r, Spot(u)) /\ Holds(k, u) = k.reg[r]
  <2>1. u \in Cells(k) /\ Cell(k, u).kind = "reg" /\ Cell(k, u).at = r
    BY DEF Uses
  <2>2. Placed(Cell(k, u), u) /\ u \in Stacks \X Int
    BY <2>1, SaneParts
  <2> QED BY <2>1, <2>2, PlacedIs, DenoteIs DEF Holds
<1> QED BY <1>1 DEF Uses

\* A register that no cell names may be written.
LEMMA SetIdle ==
  ASSUME NEW k, Sane(k), NEW r \in Regs, Uses(k, r) = {}, NEW v \in Contents, NEW j, j = SetReg(k, r, v)
  PROVE  /\ Keeps(k, j) /\ j.cell = k.cell /\ j.mem = k.mem /\ \A u \in Cells(k) : Cell(j, u) = Cell(k, u)
         /\ j.reg[r] = v /\ \A q \in Regs : q # r => j.reg[q] = k.reg[q]
<1>1. /\ k \in Contexts /\ j \in Contexts /\ SameShape(k, j) /\ Cells(j) = Cells(k) /\ j.mem = k.mem /\ j.cell = k.cell
      /\ \A q \in Regs : j.reg[q] = IF q = r THEN v ELSE k.reg[q]
  BY SetRegIs, SaneParts
<1>2. \A p : Read(j, p) = Read(k, p)
  BY <1>1 DEF Read
<1>3. \A u : Cell(j, u) = Cell(k, u)
  BY <1>1 DEF Cell
<1>4. ASSUME NEW u \in Cells(k) PROVE Holds(j, u) = Holds(k, u)
  <2>1. Placed(Cell(k, u), u) /\ u \in Stacks \X Int
    BY SaneParts
  <2>2. Cell(k, u).kind = "reg" => Cell(k, u).at \in Regs /\ Cell(k, u).at # r
    BY <2>1, UsesAre, PlacedIs
  <2>3. Cell(k, u).kind = "const" \/ Cell(k, u).kind = "reg" \/ Cell(k, u).kind = "home"
    BY <2>1, PlacedIs
  <2> QED BY <1>1, <1>2, <1>3, <2>2, <2>3, DenoteIs DEF Holds
<1>5. Sane(j)
  BY <1>1, <1>3, <1>4, SaneParts DEF Sane
<1> QED BY <1>1, <1>2, <1>3, <1>4, <1>5 DEF Keeps

\* A slot may be given what its cell stands for.
LEMMA PutOwn ==
  ASSUME NEW k, Sane(k), NEW u \in Cells(k), NEW v, v = Holds(k, u), NEW j, j = Put(k, Spot(u), v)
  PROVE  /\ Keeps(k, j) /\ j.reg = k.reg /\ j.cell = k.cell /\ \A w \in Cells(k) : Cell(j, w) = Cell(k, w)
         /\ \A p : Read(j, p) = IF p = Spot(u) THEN v ELSE Read(k, p)
<1>1. k \in Contexts /\ Spot(u) \in Places /\ v \in Contents /\ u \in Stacks \X Int
  BY SaneParts DEF Contents
<1>2. /\ j \in Contexts /\ SameShape(k, j) /\ Cells(j) = Cells(k) /\ j.reg = k.reg /\ j.cell = k.cell
      /\ \A p : Read(j, p) = IF p = Spot(u) THEN v ELSE Read(k, p)
  BY <1>1, PutIs
<1>3. \A w : Cell(j, w) = Cell(k, w)
  BY <1>2 DEF Cell
<1>4. ASSUME NEW w \in Cells(k) PROVE Holds(j, w) = Holds(k, w)
  <2>1. Placed(Cell(k, w), w) /\ w \in Stacks \X Int
    BY SaneParts
  <2>2. Cell(k, w).kind = "home" => Cell(k, w).at = Spot(w)
    BY <2>1, PlacedIs
  <2>3. Cell(k, w).kind = "const" \/ Cell(k, w).kind = "reg" \/ Cell(k, w).kind = "home"
    BY <2>1, PlacedIs
  <2>4. CASE Cell(k, w).kind = "home"
    <3>1. Holds(j, w) = Read(j, Spot(w)) /\ Holds(k, w) = Read(k, Spot(w))
      BY <1>3, <2>2, <2>4, DenoteIs DEF Holds
    <3>2. w # u => Spot(w) # Spot(u)
      BY <1>1, <2>1, SpotsDiffer
    <3> QED BY <1>2, <3>1, <3>2
  <2>5. CASE Cell(k, w).kind # "home"
    BY <1>2, <1>3, <2>3, <2>5, DenoteIs DEF Holds
  <2> QED BY <2>4, <2>5
<1>5. Sane(j)
  BY <1>2, <1>3, <1>4, SaneParts DEF Sane
<1> QED BY <1>2, <1>3, <1>4, <1>5 DEF Keeps

\* A cell may be renamed to what stands for the same.
LEMMA SetSameValue ==
  ASSUME NEW k, Sane(k), NEW u \in Cells(k), NEW d, Placed(d, u), Denote(k, d) = Holds(k, u),
         NEW j, j = SetCell(k, u, d)
  PROVE  /\ Keeps(k, j) /\ j.reg = k.reg /\ j.mem = k.mem
         /\ \A v \in Cells(k) : Cell(j, v) = IF v = u THEN d ELSE Cell(k, v)
<1>1. k \in Contexts /\ d \in Descs
  BY SaneParts DEF Placed
<1>2. /\ j \in Contexts /\ SameShape(k, j) /\ Cells(j) = Cells(k) /\ j.reg = k.reg /\ j.mem = k.mem
      /\ \A v \in Cells(k) : Cell(j, v) = IF v = u THEN d ELSE Cell(k, v)
  BY <1>1, SetCellIs
<1>3. \A p : Read(j, p) = Read(k, p)
  BY <1>2 DEF Read
<1>4. \A e : Denote(j, e) = Denote(k, e)
  BY <1>2, <1>3 DEF Denote
<1>5. \A v \in Cells(k) : Holds(j, v) = Holds(k, v)
  BY <1>2, <1>4 DEF Holds
<1>6. \A v \in Cells(k) : Placed(Cell(j, v), v) /\ Holds(j, v) \in Values
  BY <1>2, <1>5, SaneParts
<1>7. Sane(j)
  BY <1>2, <1>6 DEF Sane
<1> QED BY <1>2, <1>3, <1>5, <1>7 DEF Keeps

-----------------------------------------------------------------------------
(* Registers.                                                                *)

LEMMA JoinOf ==
  ASSUME NEW S, NEW p \in Seq(S), NEW q \in Seq(S)
  PROVE  /\ p \o q \in Seq(S) /\ Len(p \o q) = Len(p) + Len(q) /\ Len(p) \in Nat /\ Len(q) \in Nat
         /\ \A i \in 1 .. Len(p) : (p \o q)[i] = p[i] /\ i \in 1 .. Len(p \o q)
         /\ \A i \in 1 .. Len(q) : (p \o q)[Len(p) + i] = q[i] /\ Len(p) + i \in 1 .. Len(p \o q)
<1>1. p \o q \in Seq(S) /\ Len(p \o q) = Len(p) + Len(q) /\ Len(p) \in Nat /\ Len(q) \in Nat
  OBVIOUS
<1>2. \A i \in 1 .. Len(p) : (p \o q)[i] = p[i]
  OBVIOUS
<1>3. ASSUME NEW i \in 1 .. Len(q) PROVE (p \o q)[Len(p) + i] = q[i]
  <2>1. Len(p) + i \in 1 .. Len(p) + Len(q) /\ ~(Len(p) + i <= Len(p)) /\ Len(p) + i - Len(p) = i
    BY <1>1
  <2> QED BY <2>1
<1> QED BY <1>1, <1>2, <1>3

\* us is a list of all cells.
Lists(us, S) == us \in Seq(S) /\ \A u \in S : \E i \in 1 .. Len(us) : us[i] = u

LEMMA JoinLists ==
  ASSUME NEW S, NEW T, NEW p, NEW q, Lists(p, S), Lists(q, T)
  PROVE  Lists(p \o q, S \cup T)
<1>1. p \in Seq(S \cup T) /\ q \in Seq(S \cup T)
  BY DEF Lists
<1>2. /\ p \o q \in Seq(S \cup T)
      /\ \A i \in 1 .. Len(p) : (p \o q)[i] = p[i] /\ i \in 1 .. Len(p \o q)
      /\ \A i \in 1 .. Len(q) : (p \o q)[Len(p) + i] = q[i] /\ Len(p) + i \in 1 .. Len(p \o q)
  BY <1>1, JoinOf
<1>3. ASSUME NEW u \in S PROVE \E i \in 1 .. Len(p \o q) : (p \o q)[i] = u
  <2>1. PICK i \in 1 .. Len(p) : p[i] = u
    BY DEF Lists
  <2> QED BY <1>2, <2>1
<1>4. ASSUME NEW u \in T PROVE \E i \in 1 .. Len(p \o q) : (p \o q)[i] = u
  <2>1. PICK i \in 1 .. Len(q) : q[i] = u
    BY DEF Lists
  <2>2. PICK l : l = Len(p) + i
    OBVIOUS
  <2> QED BY <1>2, <2>1, <2>2
<1> QED BY <1>2, <1>3, <1>4 DEF Lists

CellsOn(k, s) == {<<s, i>> : i \in 1 .. Depth(k, s)}

LEMMA OfIs ==
  ASSUME NEW k \in Contexts, NEW s \in Stacks
  PROVE  /\ Lists(Of(k, s), CellsOn(k, s)) /\ Of(k, s) \in Seq(CellsOn(k, s)) /\ Len(Of(k, s)) = Depth(k, s)
         /\ \A i \in 1 .. Depth(k, s) : Of(k, s)[i] = <<s, i>>
<1>1. PICK n \in Nat : n = Depth(k, s)
  BY ContextParts
<1>2. PICK q : q = Of(k, s)
  OBVIOUS
<1>3. q = [i \in 1 .. n |-> <<s, i>>]
  BY <1>1, <1>2 DEF Of
<1>4. \A i \in 1 .. n : <<s, i>> \in CellsOn(k, s)
  BY <1>1 DEF CellsOn
<1>5. q \in Seq(CellsOn(k, s)) /\ Len(q) = n /\ \A i \in 1 .. n : q[i] = <<s, i>>
  BY <1>3, <1>4
<1>6. \A u \in CellsOn(k, s) : \E i \in 1 .. Len(q) : q[i] = u
  BY <1>1, <1>5 DEF CellsOn
<1> QED BY <1>1, <1>2, <1>5, <1>6 DEF Lists

LEMMA WalksAll ==
  ASSUME NEW k \in Contexts
  PROVE  Lists(Upward(k), Cells(k)) /\ Lists(Downward(k), Cells(k))
<1>1. Cells(k) = CellsOn(k, "A") \cup CellsOn(k, "B") \cup CellsOn(k, "C")
  BY DEF Cells, CellsOn, Stacks
<1>2. /\ Lists(Of(k, "A"), CellsOn(k, "A")) /\ Lists(Of(k, "B"), CellsOn(k, "B"))
      /\ Lists(Of(k, "C"), CellsOn(k, "C"))
  BY OfIs DEF Stacks
<1>3. Lists(Upward(k), CellsOn(k, "A") \cup CellsOn(k, "B") \cup CellsOn(k, "C"))
  BY <1>2, JoinLists DEF Upward
<1>4. Lists(Downward(k), CellsOn(k, "C") \cup CellsOn(k, "B") \cup CellsOn(k, "A"))
  BY <1>2, JoinLists DEF Downward
<1>5. CellsOn(k, "C") \cup CellsOn(k, "B") \cup CellsOn(k, "A") = Cells(k)
  BY <1>1
<1> QED BY <1>1, <1>3, <1>4, <1>5

LEMMA ListParts ==
  ASSUME NEW us, NEW S, Lists(us, S)
  PROVE  /\ Len(us) \in Nat /\ \A i \in 1 .. Len(us) : us[i] \in S
         /\ us \in [1 .. Len(us) -> S] /\ \A u \in S : \E i \in 1 .. Len(us) : us[i] = u
BY DEF Lists

\* All cells named by r go home, one by one.
LEMMA SpillStep ==
  ASSUME NEW k, Sane(k), NEW r \in Regs, NEW j, Keeps(k, j), j.reg = k.reg, NEW u \in Cells(k),
         NEW l, l = SpillOne(j, u, k, r)
  PROVE  /\ Keeps(k, l) /\ l.reg = k.reg
         /\ \A v \in Cells(k) : Cell(l, v) = IF v = u /\ u \in Uses(k, r) THEN Home(Spot(u)) ELSE Cell(j, v)
<1>1. CASE u \notin Uses(k, r)
  BY <1>1 DEF SpillOne
<1>2. CASE u \in Uses(k, r)
  <2>1. Cell(k, u).dst = Spot(u) /\ u \in Stacks \X Int /\ Holds(k, u) = k.reg[r]
    BY <1>2, SaneParts, UsesAre
  <2>2. Sane(j) /\ u \in Cells(j) /\ Holds(j, u) = k.reg[r] /\ j \in Contexts /\ Cells(j) = Cells(k)
    BY <2>1, SaneParts DEF Keeps
  <2>3. PICK m1 : m1 = Put(j, Spot(u), k.reg[r])
    OBVIOUS
  <2>4. /\ Keeps(j, m1) /\ m1.reg = k.reg /\ \A w \in Cells(j) : Cell(m1, w) = Cell(j, w)
        /\ Read(m1, Spot(u)) = k.reg[r]
    BY <2>2, <2>3, PutOwn
  <2>5. Sane(m1) /\ u \in Cells(m1) /\ Holds(m1, u) = k.reg[r] /\ Cells(m1) = Cells(k) /\ m1 \in Contexts
    BY <2>2, <2>4, SaneParts DEF Keeps
  <2>6. Placed(Home(Spot(u)), u) /\ Denote(m1, Home(Spot(u))) = k.reg[r]
    BY <2>1, <2>4, <2>5, HomeIs
  <2>7. l = SetCell(m1, u, Home(Spot(u)))
    BY <1>2, <2>1, <2>3 DEF SpillOne
  <2>8. /\ Keeps(m1, l) /\ l.reg = m1.reg
        /\ \A v \in Cells(m1) : Cell(l, v) = IF v = u THEN Home(Spot(u)) ELSE Cell(m1, v)
    BY <2>5, <2>6, <2>7, SetSameValue
  <2>9. Keeps(k, l)
    BY <2>4, <2>8, KeepsTwice
  <2> QED BY <1>2, <2>2, <2>4, <2>5, <2>8, <2>9
<1> QED BY <1>1, <1>2

LEMMA SpillWay ==
  ASSUME NEW k, NEW r, NEW us, us = Upward(k), NEW n \in Nat, n = Len(us)
  PROVE  \E g : Spilled(k, r) = g[n] /\ g[0] = k /\ \A i \in 1 .. n : g[i] = SpillOne(g[i - 1], us[i], k, r)
<1> DEFINE G(h) == h = [i \in 0 .. Len(us) |-> IF i = 0 THEN k ELSE SpillOne(h[i - 1], us[i], k, r)]
<1>1. Spilled(k, r) = (CHOOSE h : G(h))[Len(us)]
  BY DEF Over, Spilled, SpillOne
<1>2. \E h : G(h)
  <2>1. PICK f : Way(f, <<"spill", k, r>>, k, us, n)
    BY WayExists
  <2>2. \A i \in 1 .. n : f[i] = SpillOne(f[i - 1], us[i], k, r)
    BY <2>1 DEF Way, Doing
  <2>3. PICK h : h = [i \in 0 .. n |-> f[i]]
    OBVIOUS
  <2>4. \A i \in 1 .. n : i \in 0 .. n /\ i - 1 \in 0 .. n /\ i # 0
    OBVIOUS
  <2>5. h = [i \in 0 .. n |-> IF i = 0 THEN k ELSE SpillOne(h[i - 1], us[i], k, r)]
    <3>1. f[0] = k
      BY <2>1 DEF Way
    <3>2. \A i \in 0 .. n : i = 0 \/ i \in 1 .. n
      OBVIOUS
    <3>3. \A i \in 0 .. n : h[i] = IF i = 0 THEN k ELSE SpillOne(h[i - 1], us[i], k, r)
      BY <2>2, <2>3, <2>4, <3>1, <3>2
    <3>4. h = [i \in 0 .. n |-> h[i]]
      BY <2>3
    <3> QED BY <3>3, <3>4
  <2> QED BY <2>5
<1>3. PICK g : g = CHOOSE h : G(h)
  OBVIOUS
<1>4. G(g)
  BY <1>2, <1>3
<1>5. g = [i \in 0 .. n |-> IF i = 0 THEN k ELSE SpillOne(g[i - 1], us[i], k, r)]
  BY <1>4
<1>6. 0 \in 0 .. n /\ n \in 0 .. n /\ \A i \in 1 .. n : i \in 0 .. n /\ i # 0
  OBVIOUS
<1>7. g[0] = k /\ \A i \in 1 .. n : g[i] = SpillOne(g[i - 1], us[i], k, r)
  BY <1>5, <1>6
<1>8. Spilled(k, r) = g[n]
  BY <1>1, <1>3
<1> QED BY <1>7, <1>8

LEMMA SpilledIs ==
  ASSUME NEW k, Sane(k), NEW r \in Regs, NEW j, j = Spilled(k, r)
  PROVE  /\ Keeps(k, j) /\ j.reg = k.reg /\ Uses(j, r) = {}
         /\ \A u \in Cells(k) : Cell(j, u) = IF u \in Uses(k, r) THEN Home(Spot(u)) ELSE Cell(k, u)
<1>1. PICK us : us = Upward(k)
  OBVIOUS
<1>2. PICK n \in Nat : n = Len(us)
  BY <1>1, WalksAll, ListParts, SaneParts
<1>3. /\ us \in [1 .. n -> Cells(k)] /\ \A i \in 1 .. n : us[i] \in Cells(k)
      /\ \A u \in Cells(k) : \E i \in 1 .. n : us[i] = u
  BY <1>1, <1>2, WalksAll, ListParts, SaneParts
<1>10. PICK g : j = g[n] /\ g[0] = k /\ \A i \in 1 .. n : g[i] = SpillOne(g[i - 1], us[i], k, r)
  BY <1>1, <1>2, SpillWay
<1> DEFINE Gone(y, i) == \A u \in Cells(k) : \/ Cell(y, u) = Cell(k, u) /\ (u \in Uses(k, r) => \A a \in 1 .. i : us[a] # u)
                                             \/ Cell(y, u) = Home(Spot(u)) /\ u \in Uses(k, r)
           T == {i \in 0 .. n : Keeps(k, g[i]) /\ g[i].reg = k.reg /\ Gone(g[i], i)}
<1>11. 0 \in T
  <2>1. \A a \in 1 .. 0 : FALSE
    OBVIOUS
  <2> QED BY <1>10, <2>1, KeepsSelf
<1>12. ASSUME NEW i \in 1 .. n, i - 1 \in T PROVE i \in T
  <2>1. PICK y, u : y = g[i - 1] /\ u = us[i]
    OBVIOUS
  <2>2. Keeps(k, y) /\ y.reg = k.reg /\ Gone(y, i - 1) /\ u \in Cells(k) /\ g[i] = SpillOne(y, u, k, r)
    BY <1>3, <1>10, <1>12, <2>1
  <2>3. /\ Keeps(k, g[i]) /\ g[i].reg = k.reg
        /\ \A v \in Cells(k) : Cell(g[i], v) = IF v = u /\ u \in Uses(k, r) THEN Home(Spot(u)) ELSE Cell(y, v)
    BY <2>2, SpillStep
  <2>4. \A a \in 1 .. i : a = i \/ a \in 1 .. i - 1
    OBVIOUS
  <2>5. Gone(g[i], i)
    BY <2>1, <2>2, <2>3, <2>4
  <2> QED BY <2>3, <2>5
<1>13. n \in T
  <2>1. \A i \in 0 .. n : i \in T
    <3> HIDE DEF T
    <3> QED BY <1>11, <1>12, Climb
  <2> QED BY <2>1
<1>14. Keeps(k, j) /\ j.reg = k.reg /\ \A u \in Cells(k) : Cell(j, u) = IF u \in Uses(k, r) THEN Home(Spot(u)) ELSE Cell(k, u)
  BY <1>3, <1>10, <1>13
<1>15. Uses(j, r) = {}
  <2> SUFFICES ASSUME NEW u \in Uses(j, r) PROVE FALSE
    OBVIOUS
  <2>1. u \in Cells(k) /\ Cell(j, u).kind = "reg" /\ Cell(j, u).at = r
    BY <1>14 DEF Uses, Keeps
  <2>2. CASE u \in Uses(k, r)
    <3>1. Home(Spot(u)).kind = "home"
      BY DEF Home
    <3> QED BY <1>14, <2>1, <2>2, <3>1
  <2>3. CASE u \notin Uses(k, r)
    BY <1>14, <2>1, <2>3, UsesAre
  <2> QED BY <2>2, <2>3
<1> QED BY <1>14, <1>15

LEMMA LowestIn ==
  ASSUME NEW T, T \subseteq Nat, T # {} PROVE Lowest(T) \in T
BY LeastNumber DEF Lowest

LEMMA RegsAre == Regs \subseteq Nat /\ 0 \in Regs /\ 1 \in Regs /\ \A r : Regs \ {r} # {}
<1>1. Regs \subseteq Nat /\ 0 \in Regs /\ 1 \in Regs
  BY RegistersAssumption DEF Regs
<1> QED BY <1>1

\* The cells of j are those of k, or have gone home from a register outside mask.
Yields(k, j, mask, C) ==
  \A v \in C : \/ Cell(j, v) = Cell(k, v)
               \/ Cell(k, v).kind = "reg" /\ Cell(k, v).at \notin mask /\ Cell(j, v) = Home(Spot(v))

\* A context and a register.
Made(f) == f = [m |-> f.m, r |-> f.r]

LEMMA MadeIs ==
  ASSUME NEW k, NEW r, NEW f, f = [m |-> k, r |-> r] PROVE Made(f) /\ f.m = k /\ f.r = r
BY DEF Made

LEMMA FreeIs ==
  ASSUME NEW k, Sane(k), NEW mask, mask \subseteq Regs, Regs \ mask # {}, NEW f, f = Free(k, mask)
  PROVE  /\ Made(f) /\ f.r \in Regs \ mask
         /\ Keeps(k, f.m) /\ f.m.reg = k.reg /\ Uses(f.m, f.r) = {}
         /\ Yields(k, f.m, mask, Cells(k))
         /\ Idle(k, mask) # {} => f.m = k
<1>1. CASE Idle(k, mask) # {}
  <2>1. Idle(k, mask) \subseteq Regs \ mask /\ \A r \in Idle(k, mask) : Uses(k, r) = {}
    BY DEF Idle
  <2>2. PICK r : r = Lowest(Idle(k, mask))
    OBVIOUS
  <2>3. r \in Idle(k, mask)
    BY <1>1, <2>1, <2>2, LowestIn, RegsAre
  <2>4. Made(f) /\ f.m = k /\ f.r = r
    <3>1. f = [m |-> k, r |-> r]
      BY <1>1, <2>2 DEF Free
    <3> QED BY <3>1, MadeIs
  <2> QED BY <2>1, <2>3, <2>4, KeepsSelf DEF Yields
<1>2. CASE Idle(k, mask) = {}
  <2>1. PICK r : r = Lowest(Regs \ mask)
    OBVIOUS
  <2>2. r \in Regs \ mask
    BY <2>1, LowestIn, RegsAre
  <2>3. PICK j : j = Spilled(k, r)
    OBVIOUS
  <2>4. Made(f) /\ f.m = j /\ f.r = r
    <3>1. f = [m |-> j, r |-> r]
      BY <1>2, <2>1, <2>3 DEF Free, Emptied
    <3> QED BY <3>1, MadeIs
  <2>5. /\ Keeps(k, j) /\ j.reg = k.reg /\ Uses(j, r) = {}
        /\ \A u \in Cells(k) : Cell(j, u) = IF u \in Uses(k, r) THEN Home(Spot(u)) ELSE Cell(k, u)
    BY <2>2, <2>3, SpilledIs
  <2>6. Yields(k, j, mask, Cells(k))
    BY <2>2, <2>5, UsesAre DEF Yields
  <2> QED BY <1>2, <2>2, <2>4, <2>5, <2>6
<1> QED BY <1>1, <1>2

\* A descriptor that no cell of k contradicts.
Known_(k, d) ==
  /\ d \in Descs
  /\ d.kind = "const" => d.at \in Values
  /\ d.kind = "reg"   => d.at \in Regs
  /\ d.kind = "home"  => d.at \in Places /\ \A u \in Cells(k) : Spot(u) = d.at => Cell(k, u) = Home(d.at)

\* It stands for the same when values have been moved about.
LEMMA StillStands ==
  ASSUME NEW k, Sane(k), NEW j, Keeps(k, j), NEW d, Known_(k, d), d.kind # "reg"
  PROVE  Denote(j, d) = Denote(k, d) /\ Denote(j, d) \in Contents
<1>1. CASE d.kind = "const"
  BY <1>1, DenoteIs DEF Known_, Contents
<1>2. CASE d.kind = "home"
  <2>1. Denote(j, d) = Read(j, d.at) /\ Denote(k, d) = Read(k, d.at)
    BY <1>2, DenoteIs
  <2>2. Read(j, d.at) = Read(k, d.at) \/ \E u \in Cells(k) : d.at = Spot(u) /\ Read(j, d.at) = Holds(k, u)
    BY DEF Keeps
  <2>3. ASSUME NEW u \in Cells(k), d.at = Spot(u), Read(j, d.at) = Holds(k, u) PROVE Read(j, d.at) = Read(k, d.at)
    <3>1. Cell(k, u) = Home(Spot(u))
      BY <1>2, <2>3 DEF Known_
    <3>2. u \in Stacks \X Int /\ k \in Contexts
      BY SaneParts
    <3>3. Holds(k, u) = Read(k, Spot(u))
      BY <3>1, <3>2, HomeIs DEF Holds
    <3> QED BY <2>3, <3>3
  <2>4. Read(j, d.at) \in Contents
    BY ReadIs, SaneParts DEF Keeps
  <2> QED BY <2>1, <2>2, <2>3, <2>4
<1> QED BY <1>1, <1>2, DescKinds DEF Known_

LEMMA CellIsKnown ==
  ASSUME NEW k, Sane(k), NEW u \in Cells(k) PROVE Known_(k, Cell(k, u))
<1>1. Placed(Cell(k, u), u) /\ u \in Stacks \X Int /\ Spot(u) \in Places
  BY SaneParts
<1>2. ASSUME Cell(k, u).kind = "home", NEW v \in Cells(k), Spot(v) = Cell(k, u).at PROVE Cell(k, v) = Home(Cell(k, u).at)
  <2>1. Cell(k, u) = Home(Spot(u)) /\ Cell(k, u).at = Spot(u)
    BY <1>1, <1>2, PlacedIs
  <2>2. v = u
    BY <1>1, <1>2, <2>1, SpotsDiffer, SaneParts
  <2> QED BY <2>1, <2>2
<1> QED BY <1>1, <1>2, PlacedIs DEF Known_

LEMMA MaterializedIs ==
  ASSUME NEW k, Sane(k), NEW d, Known_(k, d), NEW mask, mask \subseteq Regs, Regs \ mask # {},
         NEW w, w = Materialized(k, d, mask)
  PROVE  /\ Made(w) /\ w.r \in Regs /\ Keeps(k, w.m) /\ w.m.reg[w.r] = Denote(k, d)
         /\ \A q \in Regs : q # w.r => w.m.reg[q] = k.reg[q]
         /\ Yields(k, w.m, mask, Cells(k))
         /\ d.kind = "reg" => w.m = k /\ w.r = d.at
         /\ d.kind # "reg" => w.r \notin mask /\ Uses(w.m, w.r) = {}
         /\ Idle(k, mask) # {} => \A v \in Cells(k) : Cell(w.m, v) = Cell(k, v)
<1>1. CASE d.kind = "reg"
  <2>1. Made(w) /\ w.m = k /\ w.r = d.at
    <3>1. w = [m |-> k, r |-> d.at]
      BY <1>1 DEF Materialized
    <3> QED BY <3>1, MadeIs
  <2> QED BY <1>1, <2>1, KeepsSelf, DenoteIs DEF Yields, Known_
<1>2. CASE d.kind # "reg"
  <2>1. PICK f : f = Free(k, mask)
    OBVIOUS
  <2>2. PICK h, r : h = f.m /\ r = f.r
    OBVIOUS
  <2>3. /\ Made(f) /\ r \in Regs \ mask
        /\ Keeps(k, h) /\ h.reg = k.reg /\ Uses(h, r) = {}
        /\ Yields(k, h, mask, Cells(k))
        /\ Idle(k, mask) # {} => h = k
    BY <2>1, <2>2, FreeIs
  <2>4. PICK v : v = Denote(h, d)
    OBVIOUS
  <2>5. v = Denote(k, d) /\ v \in Contents
    BY <1>2, <2>3, <2>4, StillStands
  <2>6. PICK j : j = SetReg(h, r, v)
    OBVIOUS
  <2>7. Made(w) /\ w.m = j /\ w.r = r
    <3>1. w = Loaded(f, d)
      BY <1>2, <2>1 DEF Materialized
    <3>2. f = [m |-> h, r |-> r]
      BY <2>2, <2>3 DEF Made
    <3>3. Loaded(f, d) = [m |-> [h EXCEPT !.reg[r] = v], r |-> r]
      BY <2>4, <3>2 DEF Loaded
    <3>4. w = [m |-> j, r |-> r]
      BY <2>6, <3>1, <3>3 DEF SetReg
    <3> QED BY <3>4, MadeIs
  <2>8. Sane(h) /\ Cells(h) = Cells(k)
    BY <2>3 DEF Keeps
  <2>9. /\ Keeps(h, j) /\ \A u \in Cells(h) : Cell(j, u) = Cell(h, u)
        /\ j.reg[r] = v /\ j.cell = h.cell /\ \A q \in Regs : q # r => j.reg[q] = h.reg[q]
    BY <2>3, <2>5, <2>6, <2>8, SetIdle
  <2>10. Keeps(k, j)
    BY <2>3, <2>9, KeepsTwice
  <2>11. Yields(k, j, mask, Cells(k))
    BY <2>3, <2>8, <2>9 DEF Yields
  <2>12. Uses(j, r) = {}
    BY <2>3, <2>9, <2>8 DEF Uses, Keeps
  <2> QED BY <1>2, <2>3, <2>5, <2>7, <2>8, <2>9, <2>10, <2>11, <2>12
<1> QED BY <1>1, <1>2

\* The same, and the cell names the register.
AtHand(k, u, mask, w) ==
  /\ Made(w) /\ w.r \in Regs /\ Keeps(k, w.m) /\ w.m.reg[w.r] = Holds(k, u)
  /\ Cell(w.m, u) = Reg(w.r, Spot(u))
  /\ \A q \in Regs : q # w.r => w.m.reg[q] = k.reg[q]
  /\ Yields(k, w.m, mask, Cells(k) \ {u})
  /\ Cell(k, u).kind = "reg" => /\ w.r = Cell(k, u).at /\ w.m.reg = k.reg /\ w.m.mem = k.mem
                                /\ \A v \in Cells(k) : Cell(w.m, v) = Cell(k, v)
  /\ Cell(k, u).kind # "reg" => w.r \notin mask /\ Uses(w.m, w.r) = {u}
  /\ Idle(k, mask) # {} => \A v \in Cells(k) \ {u} : Cell(w.m, v) = Cell(k, v)

Masks(mask) == mask \subseteq Regs /\ Regs \ mask # {}

LEMMA MasksAre == Masks({}) /\ \A r \in Regs : Masks({r})
BY RegsAre DEF Masks

LEMMA MaterializedAtIs ==
  ASSUME NEW k, Sane(k), NEW u \in Cells(k), NEW mask, Masks(mask), NEW w, w = MaterializedAt(k, u, mask)
  PROVE  AtHand(k, u, mask, w)
<1>0. mask \subseteq Regs /\ Regs \ mask # {}
  BY DEF Masks
<1>1. PICK d, f : d = Cell(k, u) /\ f = Materialized(k, d, mask)
  OBVIOUS
<1>2. PICK h, r : h = f.m /\ r = f.r
  OBVIOUS
<1>3. Known_(k, d)
  BY <1>1, CellIsKnown
<1>4. /\ Made(f) /\ r \in Regs /\ Keeps(k, h) /\ h.reg[r] = Denote(k, d)
      /\ \A q \in Regs : q # r => h.reg[q] = k.reg[q]
      /\ Yields(k, h, mask, Cells(k))
      /\ d.kind = "reg" => h = k /\ r = d.at
      /\ d.kind # "reg" => r \notin mask /\ Uses(h, r) = {}
      /\ Idle(k, mask) # {} => \A v \in Cells(k) : Cell(h, v) = Cell(k, v)
  BY <1>0, <1>1, <1>2, <1>3, MaterializedIs
<1>5. Sane(h) /\ Cells(h) = Cells(k) /\ h \in Contexts /\ u \in Stacks \X Int /\ Cell(h, u).dst = Spot(u) /\ Holds(h, u) = Holds(k, u)
  BY <1>4, SaneParts DEF Keeps
<1>6. PICK j : j = SetCell(h, u, Reg(r, Spot(u)))
  OBVIOUS
<1>7. Made(w) /\ w.m = j /\ w.r = r
  <2>1. w = Named(f, u)
    BY <1>1 DEF MaterializedAt
  <2>2. f = [m |-> h, r |-> r]
    BY <1>2, <1>4 DEF Made
  <2>3. Named(f, u) = [m |-> SetCell(h, u, Reg(r, Cell(h, u).dst)), r |-> r]
    BY <2>2 DEF Named
  <2>4. w = [m |-> j, r |-> r]
    BY <1>5, <1>6, <2>1, <2>3
  <2> QED BY <2>4, MadeIs
<1>8. Placed(Reg(r, Spot(u)), u) /\ Denote(h, Reg(r, Spot(u))) = Holds(h, u)
  BY <1>1, <1>4, <1>5, RegIs DEF Holds
<1>9. /\ Keeps(h, j) /\ j.reg = h.reg /\ j.mem = h.mem
      /\ \A v \in Cells(h) : Cell(j, v) = IF v = u THEN Reg(r, Spot(u)) ELSE Cell(h, v)
  BY <1>5, <1>6, <1>8, SetSameValue
<1>10. Keeps(k, j)
  BY <1>4, <1>9, KeepsTwice
<1>11. Yields(k, j, mask, Cells(k) \ {u})
  BY <1>4, <1>5, <1>9 DEF Yields
<1>12. Cell(k, u).kind = "reg" => Cell(k, u) = Reg(r, Spot(u))
  BY <1>1, <1>4, PlacedIs, SaneParts
<1>13. Cell(k, u).kind # "reg" => Uses(j, r) = {u}
  <2> SUFFICES ASSUME Cell(k, u).kind # "reg" PROVE Uses(j, r) = {u}
    OBVIOUS
  <2>1. Uses(h, r) = {}
    BY <1>1, <1>4
  <2>2. Sane(j) /\ Cells(j) = Cells(k)
    BY <1>10 DEF Keeps
  <2>3. Reg(r, Spot(u)).kind = "reg" /\ Reg(r, Spot(u)).at = r
    BY DEF Reg
  <2>4. ASSUME NEW v \in Cells(k) PROVE v \in Uses(j, r) <=> v = u
    BY <1>5, <1>9, <2>1, <2>2, <2>3, <2>4, UsesAre
  <2> QED BY <2>2, <2>4, UsesAre
<1>15. Cell(k, u).kind = "reg" => /\ r = Cell(k, u).at /\ j.reg = k.reg /\ j.mem = k.mem
                                 /\ \A v \in Cells(k) : Cell(j, v) = Cell(k, v)
  BY <1>1, <1>4, <1>9, <1>12
<1>16. /\ j.reg[r] = Holds(k, u) /\ Cell(j, u) = Reg(r, Spot(u)) /\ \A q \in Regs : q # r => j.reg[q] = k.reg[q]
       /\ Idle(k, mask) # {} => \A v \in Cells(k) \ {u} : Cell(j, v) = Cell(k, v)
  BY <1>1, <1>4, <1>5, <1>9 DEF Holds
<1>17. Cell(k, u).kind # "reg" => r \notin mask /\ Uses(j, r) = {u}
  BY <1>1, <1>4, <1>13
<1> QED BY <1>4, <1>7, <1>10, <1>11, <1>15, <1>16, <1>17 DEF AtHand

\* With nothing masked.
LEMMA MaterializedNone ==
  ASSUME NEW k, Sane(k), NEW d, Known_(k, d), NEW w, w = Materialized(k, d, {})
  PROVE  /\ Made(w) /\ w.r \in Regs /\ Keeps(k, w.m) /\ w.m.reg[w.r] = Denote(k, d)
         /\ \A q \in Regs : q # w.r => w.m.reg[q] = k.reg[q]
         /\ Yields(k, w.m, {}, Cells(k))
         /\ d.kind = "reg" => w.m = k /\ w.r = d.at
         /\ d.kind # "reg" => Uses(w.m, w.r) = {}
         /\ Idle(k, {}) # {} => \A v \in Cells(k) : Cell(w.m, v) = Cell(k, v)
<1>1. PICK mask : mask = {} /\ mask \subseteq Regs /\ Regs \ mask # {}
  BY RegsAre
<1>2. w = Materialized(k, d, mask)
  BY <1>1
<1>3. /\ Made(w) /\ w.r \in Regs /\ Keeps(k, w.m) /\ w.m.reg[w.r] = Denote(k, d)
      /\ \A q \in Regs : q # w.r => w.m.reg[q] = k.reg[q]
      /\ Yields(k, w.m, mask, Cells(k))
      /\ d.kind = "reg" => w.m = k /\ w.r = d.at
      /\ d.kind # "reg" => Uses(w.m, w.r) = {}
      /\ Idle(k, mask) # {} => \A v \in Cells(k) : Cell(w.m, v) = Cell(k, v)
  BY <1>1, <1>2, MaterializedIs
<1> QED BY <1>1, <1>3

Unshares(k, u, r, w) ==
  /\ Sane(k) /\ u \in Cells(k) /\ r \in Regs /\ Cell(k, u) = Reg(r, Spot(u))
  /\ w = Unshared([m |-> k, r |-> r], u)

Owned(k, u, r, w) ==
  /\ Made(w) /\ w.r \in Regs /\ Keeps(k, w.m) /\ w.m.reg[w.r] = Holds(k, u)
  /\ Cell(w.m, u) = Reg(w.r, Spot(u)) /\ Uses(w.m, w.r) = {u}
  /\ \A q \in Regs : q # w.r => w.m.reg[q] = k.reg[q]
  /\ Yields(k, w.m, {}, Cells(k) \ {u})
  /\ Uses(k, r) = {u} => w.m = k /\ w.r = r
  /\ Idle(k, {r}) # {} => \A v \in Cells(k) \ {u} : Cell(w.m, v) = Cell(k, v)

LEMMA UnsharedIs ==
  ASSUME NEW k, NEW u, NEW r, NEW w, Unshares(k, u, r, w)
  PROVE  Owned(k, u, r, w)
<1> SUFFICES ASSUME Sane(k), u \in Cells(k), r \in Regs, Cell(k, u) = Reg(r, Spot(u)), w = Unshared([m |-> k, r |-> r], u)
             PROVE  /\ Made(w) /\ w.r \in Regs /\ Keeps(k, w.m) /\ w.m.reg[w.r] = Holds(k, u)
                    /\ Cell(w.m, u) = Reg(w.r, Spot(u)) /\ Uses(w.m, w.r) = {u}
                    /\ \A q \in Regs : q # w.r => w.m.reg[q] = k.reg[q]
                    /\ Yields(k, w.m, {}, Cells(k) \ {u})
                    /\ Uses(k, r) = {u} => w.m = k /\ w.r = r
                    /\ Idle(k, {r}) # {} => \A v \in Cells(k) \ {u} : Cell(w.m, v) = Cell(k, v)
  BY DEF Unshares, Owned
<1>0. u \in Stacks \X Int /\ k \in Contexts /\ Cell(k, u).kind = "reg" /\ Cell(k, u).at = r /\ u \in Uses(k, r)
      /\ Holds(k, u) = k.reg[r]
  <2>1. u \in Stacks \X Int /\ k \in Contexts /\ Cell(k, u).kind = "reg" /\ Cell(k, u).at = r
    BY SaneParts DEF Reg
  <2>2. u \in Uses(k, r)
    BY <2>1, UsesAre
  <2> QED BY <2>1, <2>2, UsesAre
<1>1. CASE Cardinality(Uses(k, r)) = 1
  <2>1. Made(w) /\ w.m = k /\ w.r = r
    <3>1. PICK f0 : f0 = [m |-> k, r |-> r]
      OBVIOUS
    <3>2. f0.m = k /\ f0.r = r /\ w = Unshared(f0, u)
      BY <3>1
    <3>3. w = f0
      BY <1>1, <3>2 DEF Unshared
    <3> QED BY <3>1, <3>3, MadeIs
  <2>2. Uses(k, r) = {u}
    <3>1. PICK U : U = Uses(k, r)
      OBVIOUS
    <3>2. IsFiniteSet(U)
      <4>1. IsFiniteSet(CellsOn(k, "A")) /\ IsFiniteSet(CellsOn(k, "B")) /\ IsFiniteSet(CellsOn(k, "C"))
        <5>1. ASSUME NEW s \in Stacks PROVE IsFiniteSet(CellsOn(k, s))
          <6>1. PICK n \in Nat : n = Depth(k, s)
            BY <1>0, ContextParts
          <6>2. IsFiniteSet(1 .. n)
            BY FS_Interval
          <6>3. PICK q : q = [i \in 1 .. n |-> <<s, i>>]
            OBVIOUS
          <6>4. q \in Surjection(1 .. n, CellsOn(k, s))
            BY <6>1, <6>3 DEF CellsOn, Surjection
          <6> QED BY <6>2, <6>4, FS_Surjection
        <5> QED BY <5>1 DEF Stacks
      <4>2. IsFiniteSet(CellsOn(k, "A") \cup CellsOn(k, "B") \cup CellsOn(k, "C"))
        BY <4>1, FS_Union
      <4>3. Cells(k) = CellsOn(k, "A") \cup CellsOn(k, "B") \cup CellsOn(k, "C")
        BY DEF Cells, CellsOn, Stacks
      <4>4. U \subseteq Cells(k)
        BY <3>1, UsesAre
      <4> QED BY <4>2, <4>3, <4>4, FS_Subset
    <3>3. PICK x : U = {x}
      BY <1>1, <3>1, <3>2, FS_Singleton
    <3> QED BY <1>0, <3>1, <3>3
  <2> QED BY <1>0, <2>1, <2>2, KeepsSelf DEF Yields
<1>2. CASE Cardinality(Uses(k, r)) # 1
  <2>0. PICK mask : mask = {r} /\ mask \subseteq Regs /\ Regs \ mask # {}
    <3>1. {r} \subseteq Regs /\ Regs \ {r} # {}
      BY RegsAre
    <3> QED BY <3>1
  <2>1. PICK f : f = Free(k, mask)
    OBVIOUS
  <2>2. PICK h, a : h = f.m /\ a = f.r
    OBVIOUS
  <2>30. /\ Made(f) /\ a \in Regs \ mask
         /\ Keeps(k, h) /\ h.reg = k.reg /\ Uses(h, a) = {}
         /\ Yields(k, h, mask, Cells(k))
         /\ Idle(k, mask) # {} => h = k
    BY <2>0, <2>1, <2>2, FreeIs
  <2>3. /\ Made(f) /\ a \in Regs \ {r}
        /\ Keeps(k, h) /\ h.reg = k.reg /\ Uses(h, a) = {}
        /\ Yields(k, h, {r}, Cells(k))
        /\ Idle(k, {r}) # {} => h = k
    BY <2>0, <2>30
  <2>4. Cell(h, u) = Reg(r, Spot(u)) /\ Sane(h) /\ Cells(h) = Cells(k) /\ h \in Contexts /\ Holds(h, u) = k.reg[r]
    BY <1>0, <2>3, SaneParts DEF Yields, Keeps
  <2>5. PICK v : v = k.reg[r]
    OBVIOUS
  <2>6. v \in Contents /\ Denote(h, Cell(h, u)) = v
    BY <1>0, <2>4, <2>5, ContextParts DEF Holds
  <2>7. PICK i : i = SetReg(h, a, v)
    OBVIOUS
  <2>8. /\ Keeps(h, i) /\ \A x \in Cells(h) : Cell(i, x) = Cell(h, x)
        /\ i.reg[a] = v /\ \A q \in Regs : q # a => i.reg[q] = h.reg[q]
    BY <2>3, <2>4, <2>6, <2>7, SetIdle
  <2>9. Sane(i) /\ u \in Cells(i) /\ Cells(i) = Cells(k) /\ i \in Contexts /\ Holds(i, u) = v /\ Cell(i, u).dst = Spot(u)
    BY <2>4, <2>5, <2>8, SaneParts DEF Keeps
  <2>10. Placed(Reg(a, Spot(u)), u) /\ Denote(i, Reg(a, Spot(u))) = Holds(i, u)
    BY <1>0, <2>3, <2>8, <2>9, RegIs
  <2>11. PICK j : j = SetCell(i, u, Reg(a, Spot(u)))
    OBVIOUS
  <2>12. /\ Keeps(i, j) /\ j.reg = i.reg
         /\ \A x \in Cells(i) : Cell(j, x) = IF x = u THEN Reg(a, Spot(u)) ELSE Cell(i, x)
    BY <2>9, <2>10, <2>11, SetSameValue
  <2>13. w = [m |-> j, r |-> a]
    <3>0. PICK f0 : f0 = [m |-> k, r |-> r]
      OBVIOUS
    <3>00. f0.m = k /\ f0.r = r /\ w = Unshared(f0, u)
      BY <3>0
    <3>1. w = Named(Loaded(Free(k, {r}), Cell(k, u)), u)
      BY <1>2, <3>00 DEF Unshared
    <3>11. Free(k, {r}) = f /\ Cell(k, u) = Cell(h, u)
      BY <2>0, <2>1, <2>4
    <3>2. Loaded(f, Cell(h, u)) = [m |-> [h EXCEPT !.reg[a] = v], r |-> a]
      <4>1. f = [m |-> h, r |-> a]
        BY <2>2, <2>3 DEF Made
      <4> QED BY <2>6, <4>1 DEF Loaded
    <3>3. Loaded(f, Cell(h, u)) = [m |-> i, r |-> a]
      BY <2>7, <3>2 DEF SetReg
    <3>4. Named([m |-> i, r |-> a], u) = [m |-> SetCell(i, u, Reg(a, Cell(i, u).dst)), r |-> a]
      BY DEF Named
    <3> QED BY <2>9, <2>11, <3>1, <3>11, <3>3, <3>4
  <2>14. Keeps(k, j) /\ Sane(j) /\ Cells(j) = Cells(k)
    <3>1. Keeps(k, i)
      BY <2>3, <2>8, KeepsTwice
    <3>2. Keeps(k, j)
      BY <2>12, <3>1, KeepsTwice
    <3> QED BY <3>2 DEF Keeps
  <2>15. ASSUME NEW x \in Cells(k) PROVE x \in Uses(j, a) <=> x = u
    <3>1. Reg(a, Spot(u)).kind = "reg" /\ Reg(a, Spot(u)).at = a
      BY DEF Reg
    <3> QED BY <2>3, <2>4, <2>8, <2>9, <2>12, <2>14, <3>1, UsesAre
  <2>16. Uses(j, a) = {u}
    BY <2>14, <2>15, UsesAre
  <2>17. Yields(k, j, {}, Cells(k) \ {u})
    BY <2>3, <2>4, <2>8, <2>9, <2>12 DEF Yields
  <2>18. /\ j.reg[a] = v /\ \A q \in Regs : q # a => j.reg[q] = k.reg[q]
         /\ Idle(k, {r}) # {} => \A x \in Cells(k) \ {u} : Cell(j, x) = Cell(k, x)
    BY <2>3, <2>4, <2>8, <2>9, <2>12
  <2>19. Uses(k, r) # {u}
    BY <1>2, FS_Singleton
  <2>20. w.m = j /\ w.r = a /\ Made(w)
    BY <2>13, MadeIs
  <2>21. Cell(j, u) = Reg(a, Spot(u)) /\ a \in Regs /\ j.reg[a] = Holds(k, u)
    BY <1>0, <2>3, <2>5, <2>9, <2>12, <2>18
  <2> QED BY <2>14, <2>16, <2>17, <2>18, <2>19, <2>20, <2>21
<1> QED BY <1>1, <1>2

LEMMA YieldsTwice ==
  ASSUME NEW k, NEW j, NEW l, NEW C, Yields(k, j, {}, C), Yields(j, l, {}, C)
  PROVE  Yields(k, l, {}, C)
<1> SUFFICES ASSUME NEW v \in C
             PROVE  \/ Cell(l, v) = Cell(k, v)
                    \/ Cell(k, v).kind = "reg" /\ Cell(k, v).at \notin {} /\ Cell(l, v) = Home(Spot(v))
  BY DEF Yields
<1>1. Home(Spot(v)).kind = "home"
  BY DEF Home
<1> QED BY <1>1 DEF Yields

\* Nothing else names the register of a cell that is to be written.
LEMMA WritableIs ==
  ASSUME NEW k, Sane(k), NEW u \in Cells(k), NEW w, w = Writable(k, u)
  PROVE  /\ Made(w) /\ w.r \in Regs /\ Keeps(k, w.m) /\ w.m.reg[w.r] = Holds(k, u)
         /\ Cell(w.m, u) = Reg(w.r, Spot(u)) /\ Uses(w.m, w.r) = {u}
         /\ Yields(k, w.m, {}, Cells(k) \ {u})
<1>1. PICK f : f = MaterializedAt(k, u, {})
  OBVIOUS
<1>2. PICK h, r : h = f.m /\ r = f.r
  OBVIOUS
<1>3. /\ Made(f) /\ r \in Regs /\ Keeps(k, h) /\ h.reg[r] = Holds(k, u)
      /\ Cell(h, u) = Reg(r, Spot(u))
      /\ \A q \in Regs : q # r => h.reg[q] = k.reg[q]
      /\ Yields(k, h, {}, Cells(k) \ {u})
      /\ Cell(k, u).kind = "reg" => /\ r = Cell(k, u).at /\ h.reg = k.reg /\ h.mem = k.mem
                                    /\ \A v \in Cells(k) : Cell(h, v) = Cell(k, v)
      /\ Cell(k, u).kind # "reg" => Uses(h, r) = {u}
      /\ Idle(k, {}) # {} => \A v \in Cells(k) \ {u} : Cell(h, v) = Cell(k, v)
  <2>1. AtHand(k, u, {}, f)
    BY <1>1, MaterializedAtIs, MasksAre
  <2> QED BY <1>2, <2>1 DEF AtHand
<1>4. Sane(h) /\ Cells(h) = Cells(k) /\ Holds(h, u) = Holds(k, u)
  BY <1>3 DEF Keeps
<1>5. w = Unshared([m |-> h, r |-> r], u)
  <2>1. f = [m |-> h, r |-> r]
    BY <1>2, <1>3 DEF Made
  <2> QED BY <1>1, <2>1 DEF Writable
<1>6. PICK j, a : j = w.m /\ a = w.r
  OBVIOUS
<1>7. /\ Made(w) /\ a \in Regs /\ Keeps(h, j) /\ j.reg[a] = Holds(h, u)
      /\ Cell(j, u) = Reg(a, Spot(u)) /\ Uses(j, a) = {u}
      /\ Yields(h, j, {}, Cells(h) \ {u})
      /\ Uses(h, r) = {u} => j = h /\ a = r
      /\ Idle(h, {r}) # {} => \A v \in Cells(h) \ {u} : Cell(j, v) = Cell(h, v)
  <2>1. Unshares(h, u, r, w)
    BY <1>3, <1>4, <1>5 DEF Unshares
  <2>2. Owned(h, u, r, w)
    BY ONLY <2>1, UnsharedIs
  <2> QED BY <1>6, <2>2 DEF Owned
<1>8. Keeps(k, j)
  BY <1>3, <1>7, KeepsTwice
<1>9. Yields(k, j, {}, Cells(k) \ {u})
  BY <1>3, <1>4, <1>7, YieldsTwice
<1> QED BY <1>4, <1>6, <1>7, <1>8, <1>9

\* A descriptor that does not depend on the memory.
Movable(d) == d \in Descs /\ ((d.kind = "const" /\ d.at \in Values) \/ (d.kind = "reg" /\ d.at \in Regs))

\* A context and a descriptor.
Taken(c) == c = [m |-> c.m, d |-> c.d]

LEMMA TakenIs ==
  ASSUME NEW k, NEW d, NEW c, c = [m |-> k, d |-> d] PROVE Taken(c) /\ c.m = k /\ c.d = d
BY DEF Taken

LEMMA CapturedIs ==
  ASSUME NEW k, Sane(k), NEW u \in Cells(k), NEW c, c = Captured(k, Cell(k, u))
  PROVE  /\ Taken(c) /\ Keeps(k, c.m) /\ Movable(c.d) /\ Denote(c.m, c.d) = Holds(k, u)
<1>1. PICK d : d = Cell(k, u)
  OBVIOUS
<1>2. d \in Descs /\ Placed(d, u) /\ u \in Stacks \X Int
  BY <1>1, SaneParts
<1>3. CASE d.kind # "home"
  <2>1. Taken(c) /\ c.m = k /\ c.d = d
    <3>1. c = [m |-> k, d |-> d]
      BY <1>1, <1>3 DEF Captured
    <3> QED BY <3>1, TakenIs
  <2>2. Keeps(k, k)
    BY KeepsSelf
  <2>3. (d.kind = "const" /\ d.at \in Values) \/ (d.kind = "reg" /\ d.at \in Regs)
    <3>1. d.kind = "const" \/ d.kind = "reg"
      BY <1>2, <1>3, PlacedIs
    <3> QED BY <1>2, <3>1 DEF Placed
  <2>4. Movable(d)
    BY <1>2, <2>3 DEF Movable
  <2>5. Denote(k, d) = Holds(k, u)
    BY <1>1 DEF Holds
  <2> QED BY <2>1, <2>2, <2>4, <2>5
<1>4. CASE d.kind = "home"
  <2>1. PICK f : f = Materialized(k, d, {})
    OBVIOUS
  <2>2. PICK h, r : h = f.m /\ r = f.r
    OBVIOUS
  <2>3. Made(f) /\ r \in Regs /\ Keeps(k, h) /\ h.reg[r] = Denote(k, d)
    BY <1>1, <2>1, <2>2, MaterializedNone, CellIsKnown
  <2>4. d.dst = Spot(u)
    BY <1>2 DEF Placed
  <2>5. Taken(c) /\ c.m = h /\ c.d = Reg(r, Spot(u))
    <3>1. c = [m |-> h, d |-> Reg(r, Spot(u))]
      BY <1>1, <1>4, <2>1, <2>2, <2>4 DEF Captured, InReg
    <3> QED BY <3>1, TakenIs
  <2>6. /\ Reg(r, Spot(u)) \in Descs /\ Reg(r, Spot(u)).kind = "reg" /\ Reg(r, Spot(u)).at = r
        /\ Denote(h, Reg(r, Spot(u))) = h.reg[r]
    <3>1. k \in Contexts /\ h \in Contexts
      BY <2>3, SaneParts DEF Keeps
    <3> QED BY <1>2, <2>3, <3>1, RegIs
  <2>7. Movable(Reg(r, Spot(u)))
    BY <2>3, <2>6 DEF Movable
  <2> QED BY <1>1, <2>3, <2>5, <2>6, <2>7 DEF Holds
<1> QED BY <1>3, <1>4

LEMMA CapturedAtIs ==
  ASSUME NEW k, Sane(k), NEW u \in Cells(k), NEW j, j = CapturedAt(k, u)
  PROVE  Keeps(k, j) /\ Cell(j, u).kind # "home"
<1>1. CASE Cell(k, u).kind # "home"
  BY <1>1, KeepsSelf DEF CapturedAt
<1>2. CASE Cell(k, u).kind = "home"
  <2>1. PICK w : w = MaterializedAt(k, u, {})
    OBVIOUS
  <2>2. Keeps(k, w.m) /\ Cell(w.m, u) = Reg(w.r, Spot(u))
    <3>1. AtHand(k, u, {}, w)
      BY <2>1, MaterializedAtIs, MasksAre
    <3> QED BY <3>1 DEF AtHand
  <2>3. j = w.m
    BY <1>2, <2>1 DEF CapturedAt
  <2>4. Reg(w.r, Spot(u)).kind = "reg"
    BY DEF Reg
  <2> QED BY <2>2, <2>3, <2>4
<1> QED BY <1>1, <1>2

-----------------------------------------------------------------------------
(* What the cells stand for.                                                 *)

\* Code that moves values about, anywhere.
Still(k, j) ==
  /\ Sane(j) /\ SameShape(k, j) /\ Cells(j) = Cells(k)
  /\ \A u \in Cells(k) : Holds(j, u) = Holds(k, u)

LEMMA KeepsStill == ASSUME NEW k, NEW j, Keeps(k, j) PROVE Still(k, j) /\ Sane(j)
BY DEF Keeps, Still

LEMMA StillTwice == ASSUME NEW k, NEW j, NEW l, Still(k, j), Still(j, l) PROVE Still(k, l)
BY DEF Still, SameShape

LEMMA ViewIs ==
  ASSUME NEW k, Sane(k)
  PROVE  /\ View(k) \in [Stacks -> Seq(Values)]
         /\ \A s \in Stacks : /\ Len(View(k)[s]) = Depth(k, s) /\ Depth(k, s) \in Nat
                              /\ View(k)[s] = [i \in 1 .. Depth(k, s) |-> Holds(k, <<s, i>>)]
                              /\ \A i \in 1 .. Depth(k, s) : View(k)[s][i] = Holds(k, <<s, i>>)
<1>1. ASSUME NEW s \in Stacks
      PROVE  /\ View(k)[s] = [i \in 1 .. Depth(k, s) |-> Holds(k, <<s, i>>)]
             /\ View(k)[s] \in Seq(Values) /\ Len(View(k)[s]) = Depth(k, s)
             /\ \A i \in 1 .. Depth(k, s) : View(k)[s][i] = Holds(k, <<s, i>>)
  <2>1. PICK n \in Nat : n = Depth(k, s)
    BY SaneParts
  <2>2. \A i : Denote(k, k.cell[s][i]) = Holds(k, <<s, i>>)
    BY DEF Holds, Cell
  <2>3. PICK q : q = [i \in 1 .. n |-> Holds(k, <<s, i>>)]
    OBVIOUS
  <2>4. View(k)[s] = q
    BY <2>1, <2>2, <2>3 DEF View
  <2>5. \A i \in 1 .. n : Holds(k, <<s, i>>) \in Values
    BY <2>1, SaneParts
  <2>6. q \in Seq(Values) /\ Len(q) = n /\ \A i \in 1 .. n : q[i] = Holds(k, <<s, i>>)
    BY <2>3, <2>5
  <2> QED BY <2>1, <2>3, <2>4, <2>6
<1>2. View(k) = [s \in Stacks |-> View(k)[s]]
  BY DEF View
<1> QED BY <1>1, <1>2, SaneParts

LEMMA SameView == ASSUME NEW k, NEW j, Sane(k), Still(k, j) PROVE View(j) = View(k)
<1>1. Sane(j) /\ \A s \in Stacks : Depth(j, s) = Depth(k, s)
  BY DEF Still, SameShape
<1>2. ASSUME NEW s \in Stacks PROVE View(j)[s] = View(k)[s]
  <2>1. PICK n \in Nat : n = Depth(k, s)
    BY SaneParts
  <2>2. \A i \in 1 .. n : Holds(j, <<s, i>>) = Holds(k, <<s, i>>)
    BY <2>1, SaneParts DEF Still
  <2>3. View(j)[s] = [i \in 1 .. n |-> Holds(j, <<s, i>>)] /\ View(k)[s] = [i \in 1 .. n |-> Holds(k, <<s, i>>)]
    BY <1>1, <2>1, ViewIs
  <2> QED BY <2>2, <2>3
<1>3. View(j) \in [Stacks -> Seq(Values)] /\ View(k) \in [Stacks -> Seq(Values)]
  BY <1>1, ViewIs
<1> QED BY <1>2, <1>3

\* The stacks with one more element, with fewer, and with one changed.
Longer(st, s, v)     == [st EXCEPT ![s] = Append(@, v)]
Shorter(st, s, n)    == [st EXCEPT ![s] = SubSeq(@, 1, n)]
Changed(st, s, i, v) == [st EXCEPT ![s] = [@ EXCEPT ![i] = v]]

Family(p) == p \in [Stacks -> Seq(Values)]
Lengthens(p, q, s, v) ==
  /\ Family(q) /\ \A t \in Stacks : t # s => q[t] = p[t]
  /\ q[s] = Append(p[s], v) /\ Len(q[s]) = Len(p[s]) + 1 /\ q[s][Len(p[s]) + 1] = v
  /\ \A i \in 1 .. Len(p[s]) : q[s][i] = p[s][i]
Shortens(p, q, s, n) ==
  /\ Family(q) /\ \A t \in Stacks : t # s => q[t] = p[t]
  /\ q[s] = SubSeq(p[s], 1, n) /\ Len(q[s]) = n /\ \A i \in 1 .. n : q[s][i] = p[s][i]
Changes(p, q, s, n, v) ==
  /\ Family(q) /\ \A t \in Stacks : t # s => q[t] = p[t]
  /\ Len(q[s]) = Len(p[s]) /\ \A i \in 1 .. Len(p[s]) : q[s][i] = IF i = n THEN v ELSE p[s][i]

\* Two families of stacks with the same elements are the same.
LEMMA SameStacks ==
  ASSUME NEW p \in [Stacks -> Seq(Values)], NEW q \in [Stacks -> Seq(Values)],
         \A s \in Stacks : Len(p[s]) = Len(q[s]) /\ \A i \in 1 .. Len(q[s]) : p[s][i] = q[s][i]
  PROVE  p = q
<1>1. ASSUME NEW s \in Stacks PROVE p[s] = q[s]
  <2>1. p[s] \in Seq(Values) /\ q[s] \in Seq(Values)
    OBVIOUS
  <2> QED BY <2>1
<1> QED BY <1>1

LEMMA LongerIs ==
  ASSUME NEW p, Family(p), NEW s \in Stacks, NEW v \in Values, NEW q, q = Longer(p, s, v)
  PROVE  Lengthens(p, q, s, v)
<1>0. p \in [Stacks -> Seq(Values)]
  BY DEF Family
<1>1. PICK a : a = Append(p[s], v)
  OBVIOUS
<1>2. a \in Seq(Values) /\ Len(a) = Len(p[s]) + 1 /\ a[Len(p[s]) + 1] = v /\ \A i \in 1 .. Len(p[s]) : a[i] = p[s][i]
  <2>1. p[s] \in Seq(Values)
    BY <1>0
  <2> QED BY <1>1, <2>1
<1>3. q = [p EXCEPT ![s] = a]
  BY <1>1 DEF Longer
<1> QED BY <1>0, <1>1, <1>2, <1>3 DEF Family, Lengthens

LEMMA ShorterIs ==
  ASSUME NEW p, Family(p), NEW s \in Stacks, NEW n \in Nat, n <= Len(p[s]), NEW q, q = Shorter(p, s, n)
  PROVE  Shortens(p, q, s, n)
<1>0. p \in [Stacks -> Seq(Values)]
  BY DEF Family
<1>1. PICK a : a = SubSeq(p[s], 1, n)
  OBVIOUS
<1>2. a \in Seq(Values) /\ Len(a) = n /\ \A i \in 1 .. n : a[i] = p[s][i]
  <2>1. p[s] \in Seq(Values) /\ Len(p[s]) \in Nat
    BY <1>0
  <2>2. \A i \in 1 .. n : i \in 1 .. Len(p[s])
    BY <2>1
  <2> QED BY <1>1, <2>1, <2>2
<1>3. q = [p EXCEPT ![s] = a]
  BY <1>1 DEF Shorter
<1> QED BY <1>0, <1>1, <1>2, <1>3 DEF Family, Shortens

LEMMA ChangedIs ==
  ASSUME NEW p, Family(p), NEW s \in Stacks, NEW n \in Nat, n >= 1, n <= Len(p[s]), NEW v \in Values,
         NEW q, q = Changed(p, s, n, v)
  PROVE  Changes(p, q, s, n, v)
<1>0. p \in [Stacks -> Seq(Values)]
  BY DEF Family
<1>1. PICK a : a = [p[s] EXCEPT ![n] = v]
  OBVIOUS
<1>2. a \in Seq(Values) /\ Len(a) = Len(p[s]) /\ \A i \in 1 .. Len(p[s]) : a[i] = IF i = n THEN v ELSE p[s][i]
  <2>1. p[s] \in Seq(Values)
    BY <1>0
  <2> QED BY <1>1, <2>1
<1>3. q = [p EXCEPT ![s] = a]
  BY <1>1 DEF Changed
<1> QED BY <1>0, <1>1, <1>2, <1>3 DEF Family, Changes

LEMMA SeenAt ==
  ASSUME NEW k, Sane(k), NEW s \in Stacks, NEW i \in Nat, i >= 1, i <= Depth(k, s)
  PROVE  View(k)[s][i] = Holds(k, <<s, i>>) /\ <<s, i>> \in Cells(k)
<1>1. Depth(k, s) \in Nat /\ <<s, i>> \in Cells(k)
  BY SaneParts
<1>2. i \in 1 .. Depth(k, s)
  BY <1>1
<1> QED BY <1>1, <1>2, ViewIs

-----------------------------------------------------------------------------
(* Elementary changes, and what the cells stand for after them.              *)

NewCell(k, s) == <<s, Depth(k, s) + 1>>

Pushed(k, j, s, d) ==
  /\ Sane(j) /\ j.cont = k.cont /\ j.reg = k.reg /\ j.mem = k.mem
  /\ \A t \in Stacks : Depth(j, t) = IF t = s THEN Depth(k, s) + 1 ELSE Depth(k, t)
  /\ Cells(j) = Cells(k) \cup {NewCell(k, s)} /\ NewCell(k, s) \notin Cells(k)
  /\ \A v \in Cells(k) : Cell(j, v) = Cell(k, v) /\ Holds(j, v) = Holds(k, v)
  /\ Cell(j, NewCell(k, s)) = d /\ Holds(j, NewCell(k, s)) = Denote(k, d)
  /\ View(j) = Longer(View(k), s, Denote(k, d))

LEMMA PushIs ==
  ASSUME NEW k, Sane(k), NEW s \in Stacks, NEW d, Placed(d, NewCell(k, s)), Denote(k, d) \in Values,
         NEW j, j = PushCell(k, s, d)
  PROVE  Pushed(k, j, s, d)
<1>1. PICK x : x = NewCell(k, s)
  OBVIOUS
<1>2. k \in Contexts /\ d \in Descs
  BY SaneParts DEF Placed
<1>3. /\ j \in Contexts /\ j.cont = k.cont /\ j.reg = k.reg /\ j.mem = k.mem
      /\ \A t \in Stacks : Depth(j, t) = IF t = s THEN Depth(k, s) + 1 ELSE Depth(k, t)
      /\ Cells(j) = Cells(k) \cup {x} /\ x \notin Cells(k)
      /\ \A v \in Cells(k) : Cell(j, v) = Cell(k, v)
      /\ Cell(j, x) = d
  BY <1>1, <1>2, PushCellIs DEF NewCell
<1>4. \A e : Denote(j, e) = Denote(k, e)
  BY <1>3 DEF Denote, Read
<1>5. (\A v \in Cells(k) : Holds(j, v) = Holds(k, v)) /\ Holds(j, x) = Denote(k, d)
  BY <1>3, <1>4 DEF Holds
<1>6. ASSUME NEW v \in Cells(j) PROVE Placed(Cell(j, v), v) /\ Holds(j, v) \in Values
  <2>1. CASE v = x
    BY <1>1, <1>3, <1>5, <2>1
  <2>2. CASE v \in Cells(k)
    BY <1>3, <1>5, <2>2, SaneParts
  <2> QED BY <1>3, <2>1, <2>2
<1>7. Sane(j)
  BY <1>3, <1>6 DEF Sane
<1>8. View(j) = Longer(View(k), s, Denote(k, d))
  <2>1. PICK p, q, l, v : p = View(k) /\ q = View(j) /\ v = Denote(k, d) /\ l = Longer(p, s, v)
    OBVIOUS
  <2>2. p \in [Stacks -> Seq(Values)] /\ \A t \in Stacks : Len(p[t]) = Depth(k, t) /\ Depth(k, t) \in Nat
    BY <2>1, ViewIs
  <2>3. q \in [Stacks -> Seq(Values)] /\ \A t \in Stacks : Len(q[t]) = Depth(j, t)
    BY <1>7, <2>1, ViewIs
  <2>4. /\ l \in [Stacks -> Seq(Values)] /\ \A t \in Stacks : t # s => l[t] = p[t]
        /\ Len(l[s]) = Len(p[s]) + 1 /\ l[s][Len(p[s]) + 1] = v
        /\ \A i \in 1 .. Len(p[s]) : l[s][i] = p[s][i]
    <3>1. Family(p)
      BY <2>2 DEF Family
    <3>2. Lengthens(p, l, s, v)
      BY <2>1, <3>1, LongerIs
    <3> QED BY <3>2 DEF Lengthens, Family
  <2>5. ASSUME NEW t \in Stacks PROVE Len(q[t]) = Len(l[t]) /\ \A i \in 1 .. Len(l[t]) : q[t][i] = l[t][i]
    <3>1. PICK n \in Nat : n = Depth(k, t)
      BY <2>2
    <3>2. \A i \in 1 .. n : q[t][i] = p[t][i]
      <4>1. \A i \in 1 .. n : p[t][i] = Holds(k, <<t, i>>) /\ <<t, i>> \in Cells(k)
        <5> SUFFICES ASSUME NEW i \in 1 .. n PROVE p[t][i] = Holds(k, <<t, i>>) /\ <<t, i>> \in Cells(k)
          OBVIOUS
        <5>1. i \in Nat /\ i >= 1 /\ i <= Depth(k, t)
          BY <3>1
        <5> QED BY <2>1, <5>1, SeenAt
      <4>2. \A i \in 1 .. n : i \in 1 .. Depth(j, t)
        BY <1>3, <2>2, <3>1
      <4>3. \A i \in 1 .. n : q[t][i] = Holds(j, <<t, i>>)
        BY <1>7, <2>1, <4>2, ViewIs
      <4> QED BY <1>5, <4>1, <4>3
    <3>3. CASE t # s
      BY <1>3, <2>2, <2>3, <2>4, <3>1, <3>2, <3>3
    <3>4. CASE t = s
      <4>1. Len(q[t]) = n + 1 /\ Len(l[t]) = n + 1 /\ Len(p[t]) = n
        BY <1>3, <2>2, <2>3, <2>4, <3>1, <3>4
      <4>2. q[t][n + 1] = Holds(j, <<t, n + 1>>)
        <5>1. n + 1 \in 1 .. Depth(j, t)
          BY <1>3, <3>1, <3>4
        <5> QED BY <1>7, <2>1, <5>1, ViewIs
      <4>3. q[t][n + 1] = v
        BY <1>1, <1>5, <2>1, <3>1, <3>4, <4>2 DEF NewCell
      <4>4. \A i \in 1 .. n + 1 : i \in 1 .. n \/ i = n + 1
        OBVIOUS
      <4> QED BY <2>4, <3>2, <3>4, <4>1, <4>3, <4>4
    <3> QED BY <3>3, <3>4
  <2> QED BY <2>1, <2>3, <2>4, <2>5, SameStacks
<1> QED BY <1>1, <1>3, <1>5, <1>7, <1>8 DEF Pushed

Cropped(k, j, s, n) ==
  /\ Sane(j) /\ j.cont = k.cont /\ j.reg = k.reg /\ j.mem = k.mem
  /\ \A t \in Stacks : Depth(j, t) = IF t = s THEN n ELSE Depth(k, t)
  /\ \A v : v \in Cells(j) <=> v \in Cells(k) /\ (v[1] = s => v[2] <= n)
  /\ \A v \in Cells(j) : Cell(j, v) = Cell(k, v) /\ Holds(j, v) = Holds(k, v)
  /\ View(j) = Shorter(View(k), s, n)

LEMMA CropIs ==
  ASSUME NEW k, Sane(k), NEW s \in Stacks, NEW n \in Nat, n <= Depth(k, s), NEW j, j = Cut(k, s, n)
  PROVE  Cropped(k, j, s, n)
<1>2. k \in Contexts
  BY SaneParts
<1>3. /\ j \in Contexts /\ j.cont = k.cont /\ j.reg = k.reg /\ j.mem = k.mem
      /\ \A t \in Stacks : Depth(j, t) = IF t = s THEN n ELSE Depth(k, t)
      /\ \A v : v \in Cells(j) <=> v \in Cells(k) /\ (v[1] = s => v[2] <= n)
      /\ \A v \in Cells(j) : Cell(j, v) = Cell(k, v)
  BY <1>2, CutIs
<1>4. \A e : Denote(j, e) = Denote(k, e)
  BY <1>3 DEF Denote, Read
<1>5. \A v \in Cells(j) : Holds(j, v) = Holds(k, v)
  BY <1>3, <1>4 DEF Holds
<1>6. \A v \in Cells(j) : Placed(Cell(j, v), v) /\ Holds(j, v) \in Values
  BY <1>3, <1>5, SaneParts
<1>7. Sane(j)
  BY <1>3, <1>6 DEF Sane
<1>8. View(j) = Shorter(View(k), s, n)
  <2>1. PICK p, q, l : p = View(k) /\ q = View(j) /\ l = Shorter(p, s, n)
    OBVIOUS
  <2>2. p \in [Stacks -> Seq(Values)] /\ \A t \in Stacks : Len(p[t]) = Depth(k, t) /\ Depth(k, t) \in Nat
    BY <2>1, ViewIs
  <2>3. q \in [Stacks -> Seq(Values)] /\ \A t \in Stacks : Len(q[t]) = Depth(j, t)
    BY <1>7, <2>1, ViewIs
  <2>4. /\ l \in [Stacks -> Seq(Values)] /\ \A t \in Stacks : t # s => l[t] = p[t]
        /\ Len(l[s]) = n /\ \A i \in 1 .. n : l[s][i] = p[s][i]
    <3>1. n <= Len(p[s])
      BY <2>2
    <3>2. Family(p)
      BY <2>2 DEF Family
    <3>3. Shortens(p, l, s, n)
      BY <2>1, <3>1, <3>2, ShorterIs
    <3> QED BY <3>3 DEF Shortens, Family
  <2>5. ASSUME NEW t \in Stacks PROVE Len(q[t]) = Len(l[t]) /\ \A i \in 1 .. Len(l[t]) : q[t][i] = l[t][i]
    <3>1. PICK a \in Nat : a = Depth(j, t)
      BY <1>3, <2>2
    <3>2. a <= Depth(k, t) /\ Len(l[t]) = a /\ Len(q[t]) = a
      BY <1>3, <2>2, <2>3, <2>4, <3>1
    <3>3. ASSUME NEW i \in 1 .. a PROVE q[t][i] = l[t][i]
      <4>1. q[t][i] = Holds(j, <<t, i>>) /\ <<t, i>> \in Cells(j)
        <5>1. i \in Nat /\ i >= 1 /\ i <= Depth(j, t)
          BY <3>1
        <5> QED BY <1>7, <2>1, <5>1, SeenAt
      <4>2. p[t][i] = Holds(k, <<t, i>>)
        <5>1. i \in 1 .. Depth(k, t)
          BY <2>2, <3>2
        <5> QED BY <2>1, <5>1, ViewIs
      <4>3. l[t][i] = p[t][i]
        BY <1>3, <2>4, <3>1
      <4> QED BY <1>5, <4>1, <4>2, <4>3
    <3> QED BY <3>2, <3>3
  <2> QED BY <2>1, <2>3, <2>4, <2>5, SameStacks
<1> QED BY <1>3, <1>5, <1>7, <1>8 DEF Cropped

\* One cell stands for something else.
Turned(k, j, u, v) ==
  /\ Sane(j) /\ SameShape(k, j) /\ Cells(j) = Cells(k)
  /\ Holds(j, u) = v /\ \A w \in Cells(k) : w # u => Holds(j, w) = Holds(k, w)
  /\ View(j) = Changed(View(k), u[1], u[2], v)

LEMMA TurnIs ==
  ASSUME NEW k, Sane(k), NEW u \in Cells(k), NEW v \in Values, NEW j, j \in Contexts, SameShape(k, j), Cells(j) = Cells(k),
         \A w \in Cells(k) : Placed(Cell(j, w), w),
         Holds(j, u) = v, \A w \in Cells(k) : w # u => Holds(j, w) = Holds(k, w)
  PROVE  Turned(k, j, u, v)
<1>1. \A w \in Cells(k) : Holds(j, w) \in Values
  BY SaneParts
<1>2. Sane(j)
  BY <1>1 DEF Sane
<1>3. PICK s, n : s = u[1] /\ n = u[2]
  OBVIOUS
<1>4. s \in Stacks /\ n \in Nat /\ n >= 1 /\ n <= Depth(k, s) /\ u = <<s, n>>
  BY <1>3, SaneParts
<1>5. View(j) = Changed(View(k), s, n, v)
  <2>1. PICK p, q, l : p = View(k) /\ q = View(j) /\ l = Changed(p, s, n, v)
    OBVIOUS
  <2>2. p \in [Stacks -> Seq(Values)] /\ \A t \in Stacks : Len(p[t]) = Depth(k, t) /\ Depth(k, t) \in Nat
    BY <2>1, ViewIs
  <2>3. q \in [Stacks -> Seq(Values)] /\ \A t \in Stacks : Len(q[t]) = Depth(k, t) /\ Depth(j, t) = Depth(k, t)
    BY <1>2, <2>1, ViewIs DEF SameShape
  <2>4. n \in Nat /\ n >= 1 /\ n <= Len(p[s])
    BY <1>4, <2>2
  <2>5. /\ l \in [Stacks -> Seq(Values)] /\ \A t \in Stacks : t # s => l[t] = p[t]
        /\ Len(l[s]) = Len(p[s]) /\ \A i \in 1 .. Len(p[s]) : l[s][i] = IF i = n THEN v ELSE p[s][i]
    <3>1. s \in Stacks
      BY <1>4
    <3>2. Family(p)
      BY <2>2 DEF Family
    <3>3. Changes(p, l, s, n, v)
      BY <2>1, <2>4, <3>1, <3>2, ChangedIs
    <3> QED BY <3>3 DEF Changes, Family
  <2>6. ASSUME NEW t \in Stacks PROVE Len(q[t]) = Len(l[t]) /\ \A i \in 1 .. Len(l[t]) : q[t][i] = l[t][i]
    <3>1. PICK a \in Nat : a = Depth(k, t)
      BY <2>2
    <3>2. Len(l[t]) = a /\ Len(q[t]) = a /\ Len(p[t]) = a /\ Depth(j, t) = a
      BY <2>2, <2>3, <2>5, <3>1
    <3>3. ASSUME NEW i \in 1 .. a PROVE q[t][i] = l[t][i]
      <4>1. q[t][i] = Holds(j, <<t, i>>) /\ p[t][i] = Holds(k, <<t, i>>) /\ <<t, i>> \in Cells(k)
        <5>1. i \in Nat /\ i >= 1 /\ i <= Depth(k, t) /\ i <= Depth(j, t)
          BY <3>1, <3>2
        <5> QED BY <1>2, <2>1, <5>1, SeenAt
      <4>2. CASE <<t, i>> = u
        BY <1>4, <2>5, <3>2, <4>1, <4>2
      <4>3. CASE <<t, i>> # u
        <5>1. l[t][i] = p[t][i]
          BY <1>4, <2>5, <3>2, <4>3
        <5> QED BY <4>1, <4>3, <5>1
      <4> QED BY <4>2, <4>3
    <3> QED BY <3>2, <3>3
  <2> QED BY <2>1, <2>3, <2>5, <2>6, SameStacks
<1> QED BY <1>2, <1>3, <1>5 DEF Turned

\* A cell is renamed.
LEMMA RenameIs ==
  ASSUME NEW k, Sane(k), NEW u \in Cells(k), NEW d, Placed(d, u), NEW v \in Values, Denote(k, d) = v,
         NEW j, j = SetCell(k, u, d)
  PROVE  Turned(k, j, u, v)
<1>1. k \in Contexts /\ d \in Descs
  BY SaneParts DEF Placed
<1>2. /\ j \in Contexts /\ SameShape(k, j) /\ Cells(j) = Cells(k) /\ j.reg = k.reg /\ j.mem = k.mem
      /\ \A w \in Cells(k) : Cell(j, w) = IF w = u THEN d ELSE Cell(k, w)
  BY <1>1, SetCellIs
<1>3. \A e : Denote(j, e) = Denote(k, e)
  BY <1>2 DEF Denote, Read
<1>4. Holds(j, u) = v /\ \A w \in Cells(k) : w # u => Holds(j, w) = Holds(k, w)
  BY <1>2, <1>3 DEF Holds
<1>5. \A w \in Cells(k) : Placed(Cell(j, w), w)
  BY <1>2, SaneParts
<1> QED BY <1>2, <1>4, <1>5, TurnIs

\* A register is written that one cell names.
LEMMA WriteIs ==
  ASSUME NEW k, Sane(k), NEW u \in Cells(k), NEW r \in Regs, Uses(k, r) = {u}, NEW v \in Values,
         NEW j, j = SetReg(k, r, v)
  PROVE  Turned(k, j, u, v)
<1>1. k \in Contexts /\ v \in Contents
  BY SaneParts DEF Contents
<1>2. /\ j \in Contexts /\ SameShape(k, j) /\ Cells(j) = Cells(k) /\ j.mem = k.mem /\ j.cell = k.cell
      /\ \A q \in Regs : j.reg[q] = IF q = r THEN v ELSE k.reg[q]
  BY <1>1, SetRegIs
<1>3. \A w : Cell(j, w) = Cell(k, w)
  BY <1>2 DEF Cell
<1>4. \A p : Read(j, p) = Read(k, p)
  BY <1>2 DEF Read
<1>5. Holds(j, u) = v
  <2>1. u \in Uses(k, r)
    OBVIOUS
  <2>2. Cell(k, u).kind = "reg" /\ Cell(k, u).at = r
    BY <2>1, UsesAre
  <2> QED BY <1>2, <1>3, <2>2, DenoteIs DEF Holds
<1>6. ASSUME NEW w \in Cells(k), w # u PROVE Holds(j, w) = Holds(k, w)
  <2>1. Placed(Cell(k, w), w) /\ w \in Stacks \X Int
    BY SaneParts
  <2>2. Cell(k, w).kind = "reg" => Cell(k, w).at \in Regs /\ Cell(k, w).at # r
    BY <1>6, <2>1, UsesAre, PlacedIs
  <2>3. Cell(k, w).kind = "const" \/ Cell(k, w).kind = "reg" \/ Cell(k, w).kind = "home"
    BY <2>1, PlacedIs
  <2> QED BY <1>2, <1>3, <1>4, <2>2, <2>3, DenoteIs DEF Holds
<1>7. \A w \in Cells(k) : Placed(Cell(j, w), w)
  BY <1>3, SaneParts
<1> QED BY <1>2, <1>5, <1>6, <1>7, TurnIs

\* A slot is written that no cell has.
LEMMA PutAway ==
  ASSUME NEW k, Sane(k), NEW p \in Places, \A u \in Cells(k) : Spot(u) # p, NEW v \in Contents, NEW j, j = Put(k, p, v)
  PROVE  /\ Still(k, j) /\ j.reg = k.reg /\ \A w \in Cells(k) : Cell(j, w) = Cell(k, w)
         /\ \A q : Read(j, q) = IF q = p THEN v ELSE Read(k, q)
<1>1. k \in Contexts
  BY SaneParts
<1>2. /\ j \in Contexts /\ SameShape(k, j) /\ Cells(j) = Cells(k) /\ j.reg = k.reg /\ j.cell = k.cell
      /\ \A q : Read(j, q) = IF q = p THEN v ELSE Read(k, q)
  BY <1>1, PutIs
<1>3. \A w : Cell(j, w) = Cell(k, w)
  BY <1>2 DEF Cell
<1>4. ASSUME NEW w \in Cells(k) PROVE Holds(j, w) = Holds(k, w)
  <2>1. Placed(Cell(k, w), w) /\ w \in Stacks \X Int
    BY SaneParts
  <2>2. Cell(k, w).kind = "home" => Cell(k, w).at # p
    BY <2>1, PlacedIs
  <2>3. Cell(k, w).kind = "const" \/ Cell(k, w).kind = "reg" \/ Cell(k, w).kind = "home"
    BY <2>1, PlacedIs
  <2> QED BY <1>2, <1>3, <2>2, <2>3, DenoteIs DEF Holds
<1>5. Sane(j)
  BY <1>2, <1>3, <1>4, SaneParts DEF Sane
<1> QED BY <1>2, <1>3, <1>4, <1>5 DEF Still

\* The callers of a context, and the origin of C.
LEMMA FramesIs ==
  ASSUME NEW k, Sane(k), NEW c \in Seq(Frames), NEW j, j = [k EXCEPT !.cont = c]
  PROVE  /\ Sane(j) /\ j.cont = c /\ j.cell = k.cell /\ j.reg = k.reg /\ j.mem = k.mem /\ j.offset = k.offset
         /\ \A s \in Stacks : Depth(j, s) = Depth(k, s)
         /\ View(j) = View(k)
<1>1. k \in Contexts
  BY SaneParts
<1>2. j \in Contexts /\ j.cont = c /\ j.cell = k.cell /\ j.reg = k.reg /\ j.mem = k.mem /\ j.offset = k.offset
  BY <1>1 DEF Contexts
<1>3. Cells(j) = Cells(k) /\ \A s \in Stacks : Depth(j, s) = Depth(k, s)
  BY <1>2 DEF Cells, Depth
<1>4. \A u : Cell(j, u) = Cell(k, u)
  BY <1>2 DEF Cell
<1>5. \A e : Denote(j, e) = Denote(k, e)
  BY <1>2 DEF Denote, Read
<1>6. \A u : Holds(j, u) = Holds(k, u)
  BY <1>4, <1>5 DEF Holds
<1>7. Sane(j)
  BY <1>2, <1>3, <1>4, <1>6, SaneParts DEF Sane
<1>8. View(j) = View(k)
  BY <1>2, <1>3, <1>5 DEF View
<1> QED BY <1>2, <1>3, <1>7, <1>8

LEMMA OffsetIs ==
  ASSUME NEW k \in Contexts, NEW j, j = [k EXCEPT !.offset = -Arguments] PROVE j = k
<1>1. k.offset = -Arguments
  BY ContextParts
<1>2. k = [cell |-> k.cell, cont |-> k.cont, offset |-> k.offset, reg |-> k.reg, mem |-> k.mem]
  BY DEF Contexts
<1> QED BY <1>1, <1>2

-----------------------------------------------------------------------------
(* Homes.                                                                    *)

\* The value of a cell is where it is to go.
Stored(k, u, j) ==
  /\ Keeps(k, j) /\ Read(j, Spot(u)) = Holds(k, u)
  /\ Yields(k, j, {}, Cells(k) \ {u})
  /\ Cell(k, u).kind # "const" => j.reg = k.reg /\ \A v \in Cells(k) \ {u} : Cell(j, v) = Cell(k, v)

LEMMA SavedIs ==
  ASSUME NEW k, Sane(k), NEW u \in Cells(k), NEW j, j = Saved(k, u)
  PROVE  Stored(k, u, j)
<1>1. Cell(k, u).dst = Spot(u) /\ Placed(Cell(k, u), u) /\ u \in Stacks \X Int /\ k \in Contexts
  BY SaneParts
<1>2. CASE Cell(k, u) = Home(Spot(u))
  <2>1. j = k
    BY <1>1, <1>2 DEF Saved
  <2>2. Holds(k, u) = Read(k, Spot(u))
    BY <1>1, <1>2, HomeIs DEF Holds
  <2> QED BY <2>1, <2>2, KeepsSelf DEF Stored, Yields
<1>3. CASE Cell(k, u) # Home(Spot(u))
  <2>1. Cell(k, u).kind # "home"
    BY <1>1, <1>3, PlacedIs
  <2>2. PICK w : w = MaterializedAt(k, u, {})
    OBVIOUS
  <2>3. AtHand(k, u, {}, w)
    BY <2>2, MaterializedAtIs, MasksAre
  <2>4. PICK h, r : h = w.m /\ r = w.r
    OBVIOUS
  <2>5. /\ Keeps(k, h) /\ h.reg[r] = Holds(k, u) /\ Yields(k, h, {}, Cells(k) \ {u})
        /\ Cell(k, u).kind = "reg" => h.reg = k.reg /\ \A v \in Cells(k) : Cell(h, v) = Cell(k, v)
    BY <2>3, <2>4 DEF AtHand
  <2>6. j = Put(h, Spot(u), h.reg[r])
    BY <1>1, <1>3, <2>2, <2>4 DEF Saved, Written
  <2>7. Sane(h) /\ u \in Cells(h) /\ Cells(h) = Cells(k) /\ Holds(h, u) = h.reg[r]
    BY <2>5 DEF Keeps
  <2>8. /\ Keeps(h, j) /\ j.reg = h.reg /\ \A w1 \in Cells(h) : Cell(j, w1) = Cell(h, w1)
        /\ Read(j, Spot(u)) = h.reg[r]
    BY <2>6, <2>7, PutOwn
  <2>9. Keeps(k, j)
    BY <2>5, <2>8, KeepsTwice
  <2>10. Yields(k, j, {}, Cells(k) \ {u})
    BY <2>5, <2>7, <2>8 DEF Yields
  <2>11. Cell(k, u).kind # "const" => Cell(k, u).kind = "reg"
    BY <1>1, <2>1, PlacedIs
  <2> QED BY <2>5, <2>7, <2>8, <2>9, <2>10, <2>11 DEF Stored
<1> QED BY <1>2, <1>3

\* The cell itself is there.
AtHome(k, u, j) ==
  /\ Keeps(k, j) /\ Cell(j, u) = Home(Spot(u))
  /\ Yields(k, j, {}, Cells(k) \ {u})
  /\ Cell(k, u).kind # "const" => j.reg = k.reg /\ \A v \in Cells(k) \ {u} : Cell(j, v) = Cell(k, v)

LEMMA HomedIs ==
  ASSUME NEW k, Sane(k), NEW u \in Cells(k), NEW j, j = Homed(k, u)
  PROVE  AtHome(k, u, j)
<1>1. Cell(k, u).dst = Spot(u) /\ u \in Stacks \X Int
  BY SaneParts
<1>2. PICK h : h = Saved(k, u)
  OBVIOUS
<1>3. Stored(k, u, h)
  BY <1>2, SavedIs
<1>4. /\ Keeps(k, h) /\ Read(h, Spot(u)) = Holds(k, u) /\ Yields(k, h, {}, Cells(k) \ {u})
      /\ Cell(k, u).kind # "const" => h.reg = k.reg /\ \A v \in Cells(k) \ {u} : Cell(h, v) = Cell(k, v)
  BY <1>3 DEF Stored
<1>5. Sane(h) /\ u \in Cells(h) /\ Cells(h) = Cells(k) /\ h \in Contexts /\ Holds(h, u) = Holds(k, u)
  BY <1>4, SaneParts DEF Keeps
<1>6. Placed(Home(Spot(u)), u) /\ Denote(h, Home(Spot(u))) = Holds(h, u)
  BY <1>1, <1>4, <1>5, HomeIs
<1>7. j = SetCell(h, u, Home(Spot(u)))
  BY <1>1, <1>2 DEF Homed
<1>8. /\ Keeps(h, j) /\ j.reg = h.reg
      /\ \A v \in Cells(h) : Cell(j, v) = IF v = u THEN Home(Spot(u)) ELSE Cell(h, v)
  BY <1>5, <1>6, <1>7, SetSameValue
<1>9. Keeps(k, j)
  BY <1>4, <1>8, KeepsTwice
<1>10. Yields(k, j, {}, Cells(k) \ {u})
  BY <1>4, <1>5, <1>8 DEF Yields
<1> QED BY <1>4, <1>5, <1>8, <1>9, <1>10 DEF AtHome

\* Every cell is on its way to its own slot already.
LEMMA AimedIs ==
  ASSUME NEW k, Sane(k), NEW u \in Cells(k) PROVE SetCell(k, u, Aim(Cell(k, u), Spot(u))) = k
<1>1. PICK s, i, d : s = u[1] /\ i = u[2] /\ d = Cell(k, u)
  OBVIOUS
<1>2. /\ s \in Stacks /\ i \in Nat /\ i >= 1 /\ i <= Depth(k, s) /\ d = k.cell[s][i] /\ d \in Descs /\ d.dst = Spot(u)
      /\ k \in Contexts
  BY <1>1, SaneParts DEF Cell
<1>3. Aim(d, Spot(u)) = d
  <2>1. d = [kind |-> d.kind, at |-> d.at, dst |-> d.dst]
    BY <1>2, DescKinds
  <2> QED BY <1>2, <2>1 DEF Aim
<1>4. k.cell \in [Stacks -> Seq(Descs)] /\ k.cell[s] \in Seq(Descs)
  BY <1>2, ContextParts
<1>5. [k.cell[s] EXCEPT ![i] = d] = k.cell[s]
  BY <1>2, <1>4
<1>6. [k.cell EXCEPT ![s] = k.cell[s]] = k.cell
  BY <1>4
<1>7. k = [cell |-> k.cell, cont |-> k.cont, offset |-> k.offset, reg |-> k.reg, mem |-> k.mem]
  BY <1>2 DEF Contexts
<1>8. SetCell(k, u, d) = [k EXCEPT !.cell = [k.cell EXCEPT ![s] = [k.cell[s] EXCEPT ![i] = d]]]
  BY <1>1 DEF SetCell
<1> QED BY <1>1, <1>3, <1>5, <1>6, <1>7, <1>8

LEMMA HomedToIs ==
  ASSUME NEW k, Sane(k), NEW u \in Cells(k), NEW p, p = Spot(u), NEW j, j = HomedTo(k, u, p)
  PROVE  AtHome(k, u, j)
<1>1. j = Homed(k, u)
  BY AimedIs DEF HomedTo
<1> QED BY <1>1, HomedIs

LEMMA FlushWay ==
  ASSUME NEW k, NEW us, us = Downward(k), NEW n \in Nat, n = Len(us)
  PROVE  \E g : Flushed(k) = g[n] /\ g[0] = k /\ \A i \in 1 .. n : g[i] = FlushOne(g[i - 1], us[i])
<1> DEFINE G(h) == h = [i \in 0 .. Len(us) |-> IF i = 0 THEN k ELSE FlushOne(h[i - 1], us[i])]
<1>1. Flushed(k) = (CHOOSE h : G(h))[Len(us)]
  BY DEF Over, Flushed, FlushOne
<1>2. \E h : G(h)
  <2>1. PICK f : Way(f, <<"flush">>, k, us, n)
    BY WayExists
  <2>2. \A i \in 1 .. n : f[i] = FlushOne(f[i - 1], us[i])
    BY <2>1 DEF Way, Doing
  <2>3. PICK h : h = [i \in 0 .. n |-> f[i]]
    OBVIOUS
  <2>4. \A i \in 1 .. n : i \in 0 .. n /\ i - 1 \in 0 .. n /\ i # 0
    OBVIOUS
  <2>5. h = [i \in 0 .. n |-> IF i = 0 THEN k ELSE FlushOne(h[i - 1], us[i])]
    <3>1. f[0] = k
      BY <2>1 DEF Way
    <3>2. \A i \in 0 .. n : i = 0 \/ i \in 1 .. n
      OBVIOUS
    <3>3. \A i \in 0 .. n : h[i] = IF i = 0 THEN k ELSE FlushOne(h[i - 1], us[i])
      BY <2>2, <2>3, <2>4, <3>1, <3>2
    <3>4. h = [i \in 0 .. n |-> h[i]]
      BY <2>3
    <3> QED BY <3>3, <3>4
  <2> QED BY <2>5
<1>3. PICK g : g = CHOOSE h : G(h)
  OBVIOUS
<1>4. G(g)
  BY <1>2, <1>3
<1>5. g = [i \in 0 .. n |-> IF i = 0 THEN k ELSE FlushOne(g[i - 1], us[i])]
  BY <1>4
<1>6. 0 \in 0 .. n /\ n \in 0 .. n /\ \A i \in 1 .. n : i \in 0 .. n /\ i # 0
  OBVIOUS
<1>7. g[0] = k /\ \A i \in 1 .. n : g[i] = FlushOne(g[i - 1], us[i])
  BY <1>5, <1>6
<1>8. Flushed(k) = g[n]
  BY <1>1, <1>3
<1> QED BY <1>7, <1>8

LEMMA FlushedIs ==
  ASSUME NEW k, Sane(k), NEW j, j = Flushed(k)
  PROVE  /\ Keeps(k, j) /\ j.reg = k.reg
         /\ \A v \in Cells(k) : Cell(j, v) = IF Cell(k, v).kind = "const" THEN Cell(k, v) ELSE Home(Spot(v))
<1>1. PICK us : us = Downward(k)
  OBVIOUS
<1>2. PICK n \in Nat : n = Len(us)
  BY <1>1, WalksAll, ListParts, SaneParts
<1>3. (\A i \in 1 .. n : us[i] \in Cells(k)) /\ \A u \in Cells(k) : \E i \in 1 .. n : us[i] = u
  BY <1>1, <1>2, WalksAll, ListParts, SaneParts
<1>4. PICK g : j = g[n] /\ g[0] = k /\ \A i \in 1 .. n : g[i] = FlushOne(g[i - 1], us[i])
  BY <1>1, <1>2, FlushWay
<1> DEFINE Known1(y) == \A v \in Cells(k) : Cell(y, v) = Cell(k, v) \/ (Cell(k, v).kind # "const" /\ Cell(y, v) = Home(Spot(v)))
           Gone(y, i) == \A a \in 1 .. i : Cell(k, us[a]).kind # "const" => Cell(y, us[a]) = Home(Spot(us[a]))
           T == {i \in 0 .. n : Keeps(k, g[i]) /\ g[i].reg = k.reg /\ Known1(g[i]) /\ Gone(g[i], i)}
<1>5. 0 \in T
  <2>1. \A a \in 1 .. 0 : FALSE
    OBVIOUS
  <2> QED BY <1>4, <2>1, KeepsSelf
<1>6. ASSUME NEW i \in 1 .. n, i - 1 \in T PROVE i \in T
  <2>1. PICK y, u, z : y = g[i - 1] /\ u = us[i] /\ z = g[i]
    OBVIOUS
  <2>2. Keeps(k, y) /\ y.reg = k.reg /\ Known1(y) /\ Gone(y, i - 1) /\ u \in Cells(k) /\ z = FlushOne(y, u)
    BY <1>3, <1>4, <1>6, <2>1
  <2>3. Sane(y) /\ Cells(y) = Cells(k)
    BY <2>2 DEF Keeps
  <2>4. \A a \in 1 .. i : a = i \/ a \in 1 .. i - 1
    OBVIOUS
  <2>5. \A a \in 1 .. i : us[a] \in Cells(k)
    BY <1>3
  <2>6. Home(Spot(u)).kind = "home"
    BY DEF Home
  <2>0. i \in 0 .. n
    OBVIOUS
  <2> SUFFICES Keeps(k, z) /\ z.reg = k.reg /\ Known1(z) /\ Gone(z, i)
    BY <2>0, <2>1
  <2>7. CASE Cell(y, u).kind = "const"
    <3>1. z = y
      BY <2>2, <2>7 DEF FlushOne
    <3>2. Cell(k, u).kind = "const"
      BY <2>2, <2>6, <2>7
    <3>3. Gone(z, i)
      BY <2>1, <2>2, <2>4, <3>1, <3>2
    <3> QED BY <2>2, <3>1, <3>3
  <2>8. CASE Cell(y, u).kind # "const"
    <3>1. z = Homed(y, u)
      BY <2>2, <2>8 DEF FlushOne
    <3>2. AtHome(y, u, z)
      BY <2>2, <2>3, <3>1, HomedIs
    <3>3. /\ Keeps(y, z) /\ Cell(z, u) = Home(Spot(u)) /\ z.reg = y.reg
          /\ \A v \in Cells(k) \ {u} : Cell(z, v) = Cell(y, v)
      BY <2>3, <2>8, <3>2 DEF AtHome
    <3>4. Keeps(k, z)
      BY <2>2, <3>3, KeepsTwice
    <3>5. Cell(k, u).kind # "const"
      BY <2>2, <2>8
    <3>6. Known1(z)
      BY <2>2, <3>3, <3>5
    <3>7. Gone(z, i)
      <4> SUFFICES ASSUME NEW a \in 1 .. i, Cell(k, us[a]).kind # "const" PROVE Cell(z, us[a]) = Home(Spot(us[a]))
        OBVIOUS
      <4>1. CASE us[a] = u
        BY <3>3, <4>1
      <4>2. CASE us[a] # u
        <5>1. a \in 1 .. i - 1
          BY <2>1, <2>4, <4>2
        <5> QED BY <2>2, <2>5, <3>3, <4>2, <5>1
      <4> QED BY <4>1, <4>2
    <3> QED BY <2>2, <3>3, <3>4, <3>6, <3>7
  <2> QED BY <2>7, <2>8
<1>7. n \in T
  <2>1. \A i \in 0 .. n : i \in T
    <3> HIDE DEF T
    <3> QED BY <1>5, <1>6, Climb
  <2> QED BY <2>1
<1>8. Keeps(k, j) /\ j.reg = k.reg /\ Known1(j) /\ Gone(j, n)
  BY <1>4, <1>7
<1>9. ASSUME NEW v \in Cells(k)
      PROVE  Cell(j, v) = IF Cell(k, v).kind = "const" THEN Cell(k, v) ELSE Home(Spot(v))
  <2>1. PICK i \in 1 .. n : us[i] = v
    BY <1>3
  <2> QED BY <1>8, <2>1
<1> QED BY <1>8, <1>9

LEMMA ConformWay ==
  ASSUME NEW k, NEW us, us = Downward(k), NEW n \in Nat, n = Len(us)
  PROVE  \E g : Conformed(k) = g[n] /\ g[0] = k /\ \A i \in 1 .. n : g[i] = ConformOne(g[i - 1], us[i])
<1> DEFINE G(h) == h = [i \in 0 .. Len(us) |-> IF i = 0 THEN k ELSE ConformOne(h[i - 1], us[i])]
<1>1. Conformed(k) = (CHOOSE h : G(h))[Len(us)]
  BY DEF Over, Conformed, ConformOne
<1>2. \E h : G(h)
  <2>1. PICK f : Way(f, <<"conform">>, k, us, n)
    BY WayExists
  <2>2. \A i \in 1 .. n : f[i] = ConformOne(f[i - 1], us[i])
    BY <2>1 DEF Way, Doing
  <2>3. PICK h : h = [i \in 0 .. n |-> f[i]]
    OBVIOUS
  <2>4. \A i \in 1 .. n : i \in 0 .. n /\ i - 1 \in 0 .. n /\ i # 0
    OBVIOUS
  <2>5. h = [i \in 0 .. n |-> IF i = 0 THEN k ELSE ConformOne(h[i - 1], us[i])]
    <3>1. f[0] = k
      BY <2>1 DEF Way
    <3>2. \A i \in 0 .. n : i = 0 \/ i \in 1 .. n
      OBVIOUS
    <3>3. \A i \in 0 .. n : h[i] = IF i = 0 THEN k ELSE ConformOne(h[i - 1], us[i])
      BY <2>2, <2>3, <2>4, <3>1, <3>2
    <3>4. h = [i \in 0 .. n |-> h[i]]
      BY <2>3
    <3> QED BY <3>3, <3>4
  <2> QED BY <2>5
<1>3. PICK g : g = CHOOSE h : G(h)
  OBVIOUS
<1>4. G(g)
  BY <1>2, <1>3
<1>5. g = [i \in 0 .. n |-> IF i = 0 THEN k ELSE ConformOne(g[i - 1], us[i])]
  BY <1>4
<1>6. 0 \in 0 .. n /\ n \in 0 .. n /\ \A i \in 1 .. n : i \in 0 .. n /\ i # 0
  OBVIOUS
<1>7. g[0] = k /\ \A i \in 1 .. n : g[i] = ConformOne(g[i - 1], us[i])
  BY <1>5, <1>6
<1>8. Conformed(k) = g[n]
  BY <1>1, <1>3
<1> QED BY <1>7, <1>8

LEMMA ConformedIs ==
  ASSUME NEW k, Sane(k), NEW j, j = Conformed(k)
  PROVE  /\ Keeps(k, j) /\ \A v \in Cells(k) : Cell(j, v) = Home(Spot(v))
         /\ (\A v \in Cells(k) : Cell(k, v).kind # "const") => j.reg = k.reg
<1>1. PICK us : us = Downward(k)
  OBVIOUS
<1>2. PICK n \in Nat : n = Len(us)
  BY <1>1, WalksAll, ListParts, SaneParts
<1>3. (\A i \in 1 .. n : us[i] \in Cells(k)) /\ \A u \in Cells(k) : \E i \in 1 .. n : us[i] = u
  BY <1>1, <1>2, WalksAll, ListParts, SaneParts
<1>4. PICK g : j = g[n] /\ g[0] = k /\ \A i \in 1 .. n : g[i] = ConformOne(g[i - 1], us[i])
  BY <1>1, <1>2, ConformWay
<1> DEFINE NoConst(y) == \A v \in Cells(k) : Cell(y, v).kind # "const"
           Gone(y, i) == \A a \in 1 .. i : Cell(y, us[a]) = Home(Spot(us[a]))
           T == {i \in 0 .. n : Keeps(k, g[i]) /\ (NoConst(k) => g[i].reg = k.reg /\ NoConst(g[i])) /\ Gone(g[i], i)}
<1>5. 0 \in T
  <2>1. \A a \in 1 .. 0 : FALSE
    OBVIOUS
  <2> QED BY <1>4, <2>1, KeepsSelf
<1>6. ASSUME NEW i \in 1 .. n, i - 1 \in T PROVE i \in T
  <2>1. PICK y, u, z : y = g[i - 1] /\ u = us[i] /\ z = g[i]
    OBVIOUS
  <2>2. Keeps(k, y) /\ (NoConst(k) => y.reg = k.reg /\ NoConst(y)) /\ Gone(y, i - 1) /\ u \in Cells(k) /\ z = ConformOne(y, u)
    BY <1>3, <1>4, <1>6, <2>1
  <2>3. Sane(y) /\ Cells(y) = Cells(k) /\ Canonical(y, u) = Spot(u)
    BY <2>2, SaneParts DEF Keeps
  <2>4. \A a \in 1 .. i : a = i \/ a \in 1 .. i - 1
    OBVIOUS
  <2>5. \A a \in 1 .. i : us[a] \in Cells(k)
    BY <1>3
  <2>6. \A v : Home(Spot(v)).kind = "home"
    BY DEF Home
  <2>7. z = HomedTo(y, u, Spot(u))
    BY <2>2, <2>3 DEF ConformOne
  <2>8. AtHome(y, u, z)
    BY <2>2, <2>3, <2>7, HomedToIs
  <2>9. /\ Keeps(y, z) /\ Cell(z, u) = Home(Spot(u))
        /\ \A v \in Cells(k) \ {u} : Cell(z, v) = Cell(y, v) \/ (Cell(y, v).kind = "reg" /\ Cell(z, v) = Home(Spot(v)))
        /\ Cell(y, u).kind # "const" => z.reg = y.reg /\ \A v \in Cells(k) \ {u} : Cell(z, v) = Cell(y, v)
    BY <2>3, <2>8 DEF AtHome, Yields
  <2>10. Keeps(k, z)
    BY <2>2, <2>9, KeepsTwice
  <2>11. Gone(z, i)
    <3> SUFFICES ASSUME NEW a \in 1 .. i PROVE Cell(z, us[a]) = Home(Spot(us[a]))
      OBVIOUS
    <3>1. CASE us[a] = u
      BY <2>9, <3>1
    <3>2. CASE us[a] # u
      <4>1. a \in 1 .. i - 1
        BY <2>1, <2>4, <3>2
      <4>2. Cell(y, us[a]) = Home(Spot(us[a])) /\ us[a] \in Cells(k)
        BY <2>2, <2>5, <4>1
      <4> QED BY <2>6, <2>9, <3>2, <4>2
    <3> QED BY <3>1, <3>2
  <2>12. NoConst(k) => z.reg = k.reg /\ NoConst(z)
    <3> SUFFICES ASSUME NoConst(k) PROVE z.reg = k.reg /\ NoConst(z)
      OBVIOUS
    <3>1. y.reg = k.reg /\ NoConst(y)
      BY <2>2
    <3>2. z.reg = y.reg /\ \A v \in Cells(k) \ {u} : Cell(z, v) = Cell(y, v)
      BY <2>2, <2>9, <3>1
    <3>3. Cell(z, u).kind # "const"
      BY <2>6, <2>9
    <3> QED BY <3>1, <3>2, <3>3
  <2> QED BY <2>1, <2>10, <2>11, <2>12
<1>7. n \in T
  <2>1. \A i \in 0 .. n : i \in T
    <3> HIDE DEF T
    <3> QED BY <1>5, <1>6, Climb
  <2> QED BY <2>1
<1>8. Keeps(k, j) /\ (NoConst(k) => j.reg = k.reg) /\ Gone(j, n)
  BY <1>4, <1>7
<1>9. ASSUME NEW v \in Cells(k) PROVE Cell(j, v) = Home(Spot(v))
  <2>1. PICK i \in 1 .. n : us[i] = v
    BY <1>3
  <2> QED BY <1>8, <2>1
<1> QED BY <1>8, <1>9

LEMMA WeakenWay ==
  ASSUME NEW k, NEW us, us = Upward(k), NEW n \in Nat, n = Len(us)
  PROVE  \E g : Weakened(k) = g[n] /\ g[0] = k /\ \A i \in 1 .. n : g[i] = WeakenOne(g[i - 1], us[i])
<1> DEFINE G(h) == h = [i \in 0 .. Len(us) |-> IF i = 0 THEN k ELSE WeakenOne(h[i - 1], us[i])]
<1>1. Weakened(k) = (CHOOSE h : G(h))[Len(us)]
  BY DEF Over, Weakened, WeakenOne
<1>2. \E h : G(h)
  <2>1. PICK f : Way(f, <<"weaken">>, k, us, n)
    BY WayExists
  <2>2. \A i \in 1 .. n : f[i] = WeakenOne(f[i - 1], us[i])
    BY <2>1 DEF Way, Doing
  <2>3. PICK h : h = [i \in 0 .. n |-> f[i]]
    OBVIOUS
  <2>4. \A i \in 1 .. n : i \in 0 .. n /\ i - 1 \in 0 .. n /\ i # 0
    OBVIOUS
  <2>5. h = [i \in 0 .. n |-> IF i = 0 THEN k ELSE WeakenOne(h[i - 1], us[i])]
    <3>1. f[0] = k
      BY <2>1 DEF Way
    <3>2. \A i \in 0 .. n : i = 0 \/ i \in 1 .. n
      OBVIOUS
    <3>3. \A i \in 0 .. n : h[i] = IF i = 0 THEN k ELSE WeakenOne(h[i - 1], us[i])
      BY <2>2, <2>3, <2>4, <3>1, <3>2
    <3>4. h = [i \in 0 .. n |-> h[i]]
      BY <2>3
    <3> QED BY <3>3, <3>4
  <2> QED BY <2>5
<1>3. PICK g : g = CHOOSE h : G(h)
  OBVIOUS
<1>4. G(g)
  BY <1>2, <1>3
<1>5. g = [i \in 0 .. n |-> IF i = 0 THEN k ELSE WeakenOne(g[i - 1], us[i])]
  BY <1>4
<1>6. 0 \in 0 .. n /\ n \in 0 .. n /\ \A i \in 1 .. n : i \in 0 .. n /\ i # 0
  OBVIOUS
<1>7. g[0] = k /\ \A i \in 1 .. n : g[i] = WeakenOne(g[i - 1], us[i])
  BY <1>5, <1>6
<1>8. Weakened(k) = g[n]
  BY <1>1, <1>3
<1> QED BY <1>7, <1>8

LEMMA WeakenedIs ==
  ASSUME NEW k, Sane(k), NEW j, j = Weakened(k)
  PROVE  Keeps(k, j) /\ (~Known(k) => j = k)
<1>1. PICK us : us = Upward(k)
  OBVIOUS
<1>2. PICK n \in Nat : n = Len(us)
  BY <1>1, WalksAll, ListParts, SaneParts
<1>3. \A i \in 1 .. n : us[i] \in Cells(k)
  BY <1>1, <1>2, WalksAll, ListParts, SaneParts
<1>4. PICK g : j = g[n] /\ g[0] = k /\ \A i \in 1 .. n : g[i] = WeakenOne(g[i - 1], us[i])
  BY <1>1, <1>2, WeakenWay
<1> DEFINE T == {i \in 0 .. n : Keeps(k, g[i]) /\ (~Known(k) => g[i] = k)}
<1>5. 0 \in T
  BY <1>4, KeepsSelf
<1>6. ASSUME NEW i \in 1 .. n, i - 1 \in T PROVE i \in T
  <2>1. PICK y, u, z : y = g[i - 1] /\ u = us[i] /\ z = g[i]
    OBVIOUS
  <2>2. Keeps(k, y) /\ (~Known(k) => y = k) /\ u \in Cells(k) /\ z = WeakenOne(y, u)
    BY <1>3, <1>4, <1>6, <2>1
  <2>3. Sane(y) /\ Cells(y) = Cells(k)
    BY <2>2 DEF Keeps
  <2>0. i \in 0 .. n
    OBVIOUS
  <2> SUFFICES Keeps(k, z) /\ (~Known(k) => z = k)
    BY <2>0, <2>1
  <2>4. CASE Cell(y, u).kind = "const"
    <3>1. PICK w : w = MaterializedAt(y, u, {})
      OBVIOUS
    <3>2. AtHand(y, u, {}, w)
      BY <2>2, <2>3, <3>1, MaterializedAtIs, MasksAre
    <3>3. Keeps(y, z)
      BY <2>2, <2>4, <3>1, <3>2 DEF AtHand, WeakenOne
    <3>4. Keeps(k, z)
      BY <2>2, <3>3, KeepsTwice
    <3>5. Known(k)
      BY <2>2, <2>4 DEF Known
    <3> QED BY <3>4, <3>5
  <2>5. CASE Cell(y, u).kind # "const"
    BY <2>2, <2>5 DEF WeakenOne
  <2> QED BY <2>4, <2>5
<1>7. n \in T
  <2>1. \A i \in 0 .. n : i \in T
    <3> HIDE DEF T
    <3> QED BY <1>5, <1>6, Climb
  <2> QED BY <2>1
<1> QED BY <1>4, <1>7

\* An edge moves values about, or nothing.
LEMMA EdgeIs ==
  ASSUME NEW k, Sane(k), NEW e, NEW j, j = Edge(k, e)
  PROVE  Keeps(k, j) /\ (~EmitsCode(k, e) /\ (e.backward => ~Known(k)) => j = k)
<1>1. PICK h : h = IF e.backward THEN Weakened(k) ELSE k
  OBVIOUS
<1>2. Keeps(k, h) /\ (~Known(k) \/ ~e.backward => h = k)
  BY <1>1, WeakenedIs, KeepsSelf
<1>3. j = IF e.full THEN Conformed(h) ELSE h
  BY <1>1 DEF Edge, Capped
<1>4. Sane(h)
  BY <1>2 DEF Keeps
<1>5. e.full => Keeps(h, j)
  BY <1>3, <1>4, ConformedIs
<1>6. Keeps(k, j)
  BY <1>2, <1>3, <1>5, KeepsTwice
<1> QED BY <1>2, <1>3, <1>6 DEF EmitsCode

-----------------------------------------------------------------------------
(* Steps.                                                                    *)

LEMMA ForgetIs ==
  ASSUME NEW k, Sane(k), NEW j, j = Forget(k)
  PROVE  Still(k, j) /\ j.cont = k.cont /\ View(j) = View(k)
<1> DEFINE homes == {u \in Cells(k) : Cell(k, u).kind = "home"}
           named == {Cell(k, u).at : u \in homes}
<1>1. \A u \in homes : Cell(k, u).at = Spot(u) /\ Spot(u) \in Places /\ u \in Cells(k)
  BY SaneParts, PlacedIs
<1>2. named \in SUBSET Places
  BY <1>1
<1>3. \A u \in homes : Cell(k, u).at \in named
  OBVIOUS
<1>4. PICK N, g, mm : N = named /\ g = [r \in Regs |-> IF Uses(k, r) = {} THEN Junk ELSE k.reg[r]]
                      /\ mm = [p \in N |-> Read(k, p)]
  OBVIOUS
<1>5. j = [k EXCEPT !.reg = g, !.mem = mm]
  BY <1>4 DEF Forget
<1>6. k \in Contexts
  BY SaneParts
<1>7. g \in [Regs -> Contents] /\ \A r \in Regs : Uses(k, r) # {} => g[r] = k.reg[r]
  BY <1>4, <1>6, ContextParts DEF Contents
<1>8. N \in SUBSET Places /\ mm \in [N -> Contents]
  BY <1>2, <1>4, <1>6, ReadIs
<1>9. mm \in Memories
  BY <1>8 DEF Memories
<1>10. j \in Contexts /\ j.cell = k.cell /\ j.cont = k.cont /\ j.reg = g /\ j.mem = mm
  BY <1>5, <1>6, <1>7, <1>9 DEF Contexts
<1>11. Cells(j) = Cells(k) /\ SameShape(k, j) /\ \A u : Cell(j, u) = Cell(k, u)
  BY <1>10 DEF Cells, SameShape, Depth, Cell
<1>12. ASSUME NEW u \in Cells(k) PROVE Holds(j, u) = Holds(k, u)
  <2>1. Placed(Cell(k, u), u) /\ u \in Stacks \X Int
    BY SaneParts
  <2>2. CASE Cell(k, u).kind = "const"
    BY <1>11, <2>2, DenoteIs DEF Holds
  <2>3. CASE Cell(k, u).kind = "reg"
    <3>1. Cell(k, u).at \in Regs /\ u \in Uses(k, Cell(k, u).at)
      BY <2>1, <2>3, PlacedIs, UsesAre
    <3>2. g[Cell(k, u).at] = k.reg[Cell(k, u).at]
      BY <1>7, <3>1
    <3> QED BY <1>10, <1>11, <2>3, <3>2, DenoteIs DEF Holds
  <2>4. CASE Cell(k, u).kind = "home"
    <3>1. Cell(k, u).at \in N
      BY <1>3, <1>4, <2>4
    <3>2. Read(j, Cell(k, u).at) = Read(k, Cell(k, u).at)
      <4>1. DOMAIN mm = N /\ \A p \in N : mm[p] = Read(k, p)
        BY <1>4
      <4>2. \A p \in N : Read(j, p) = mm[p]
        BY <1>10, <4>1 DEF Read
      <4> QED BY <3>1, <4>1, <4>2
    <3> QED BY <1>11, <2>4, <3>2, DenoteIs DEF Holds
  <2> QED BY <2>1, <2>2, <2>3, <2>4, PlacedIs
<1>13. Sane(j)
  BY <1>10, <1>11, <1>12, SaneParts DEF Sane
<1>14. Still(k, j)
  BY <1>11, <1>12, <1>13 DEF Still
<1> QED BY <1>10, <1>14, SameView

\* The cells of a caller are under those of its callee.
Framed(k) ==
  \A i \in 1 .. Len(k.cont) : \A s \in Stacks :
    k.cont[i].base[s] <= IF i = Len(k.cont) THEN Depth(k, s) ELSE k.cont[i + 1].base[s]

FloorOf(k, s) == IF k.cont = <<>> THEN 0 ELSE k.cont[Len(k.cont)].base[s]

LEMMA FramesAre ==
  ASSUME NEW k, Sane(k)
  PROVE  /\ k.cont \in Seq(Frames) /\ Len(k.cont) \in Nat
         /\ \A i \in 1 .. Len(k.cont) : /\ k.cont[i] \in Frames /\ k.cont[i].base \in [Stacks -> Nat]
                                        /\ k.cont[i].dst \in Operands /\ k.cont[i].offset = -Arguments
                                        /\ \A s \in Stacks : k.cont[i].base[s] \in Nat
         /\ k.cont # <<>> => Len(k.cont) \in 1 .. Len(k.cont)
<1>1. k.cont \in Seq(Frames) /\ Len(k.cont) \in Nat
  BY SaneParts, ContextParts
<1>2. ASSUME NEW i \in 1 .. Len(k.cont)
      PROVE  /\ k.cont[i] \in Frames /\ k.cont[i].base \in [Stacks -> Nat]
             /\ k.cont[i].dst \in Operands /\ k.cont[i].offset = -Arguments
             /\ \A s \in Stacks : k.cont[i].base[s] \in Nat
  <2>1. PICK f : f = k.cont[i]
    OBVIOUS
  <2>2. f \in Frames
    BY <1>1, <2>1
  <2>3. f.base \in [Stacks -> Nat] /\ f.dst \in Operands /\ f.offset = -Arguments
    BY <2>2 DEF Frames
  <2> QED BY <2>1, <2>2, <2>3
<1>3. k.cont # <<>> => Len(k.cont) \in 1 .. Len(k.cont)
  BY <1>1
<1> QED BY <1>1, <1>2, <1>3

LEMMA FloorIs ==
  ASSUME NEW k, Sane(k), Framed(k)
  PROVE  \A s \in Stacks : FloorOf(k, s) \in Nat /\ FloorOf(k, s) <= Depth(k, s)
<1>1. CASE k.cont = <<>>
  BY <1>1, SaneParts DEF FloorOf
<1>2. CASE k.cont # <<>>
  <2>1. Len(k.cont) \in 1 .. Len(k.cont)
    BY <1>2, FramesAre
  <2>2. \A s \in Stacks : k.cont[Len(k.cont)].base[s] \in Nat /\ k.cont[Len(k.cont)].base[s] <= Depth(k, s)
    BY <2>1, FramesAre DEF Framed
  <2> QED BY <1>2, <2>2 DEF FloorOf
<1> QED BY <1>1, <1>2

Good(k) == Sane(k) /\ Framed(k)

LEMMA StillGood ==
  ASSUME NEW k, Good(k), NEW j, Sane(j), j.cont = k.cont, \A s \in Stacks : FloorOf(k, s) <= Depth(j, s)
  PROVE  Good(j)
<1>1. Sane(k) /\ Framed(k)
  BY DEF Good
<1>2. ASSUME NEW i \in 1 .. Len(j.cont), NEW s \in Stacks
      PROVE  j.cont[i].base[s] <= IF i = Len(j.cont) THEN Depth(j, s) ELSE j.cont[i + 1].base[s]
  <2>1. CASE i = Len(j.cont)
    <3>1. k.cont # <<>>
      BY FramesAre
    <3>2. FloorOf(k, s) = k.cont[Len(k.cont)].base[s]
      BY <3>1 DEF FloorOf
    <3> QED BY <2>1, <3>2
  <2>2. CASE i # Len(j.cont)
    BY <1>1, <2>2 DEF Framed
  <2> QED BY <2>1, <2>2
<1> QED BY <1>2 DEF Good, Framed

LEMMA GoodParts == ASSUME NEW k, Good(k) PROVE Sane(k) /\ Framed(k) /\ k \in Contexts
BY SaneParts DEF Good

LEMMA KeepsGood ==
  ASSUME NEW k, Good(k), NEW j, Still(k, j) PROVE Good(j) /\ j.cont = k.cont /\ View(j) = View(k)
<1>1. Sane(k) /\ Framed(k) /\ Sane(j) /\ j.cont = k.cont /\ \A s \in Stacks : Depth(j, s) = Depth(k, s)
  BY DEF Good, Still, SameShape
<1>2. \A s \in Stacks : FloorOf(k, s) <= Depth(j, s)
  BY <1>1, FloorIs
<1>3. Good(j)
  BY <1>1, <1>2, StillGood
<1> QED BY <1>1, <1>3, SameView

\* What a step makes of the stacks, the callers and the outside.
Steps(st, fr, o) == Good(m') /\ view' = View(m') /\ View(m') = st /\ m'.cont = fr /\ out' = o

LEMMA ArrivesIs ==
  ASSUME NEW k, Good(k), Arrives(k), NEW o, out' = o PROVE Steps(View(k), k.cont, o)
<1>1. PICK j : j = Forget(k)
  OBVIOUS
<1>2. Still(k, j) /\ j.cont = k.cont /\ View(j) = View(k)
  BY <1>1, ForgetIs, GoodParts
<1>3. Good(j)
  BY <1>2, KeepsGood
<1>4. m' = j /\ view' = View(m')
  BY <1>1 DEF Arrives
<1> QED BY <1>2, <1>3, <1>4 DEF Steps

LEMMA TakesIs ==
  ASSUME NEW k, Good(k), Takes(k), NEW o, out' = o PROVE Steps(View(k), k.cont, o)
BY ArrivesIs DEF Takes

\* What is not marked as copied too late was not.
LEMMA UnmarkedIs ==
  ASSUME NEW spoilt, NEW what, what # "none", Marks(spoilt, what), stale' = "none" PROVE ~spoilt
BY DEF Marks

LEMMA BecomesIs == ASSUME NEW k, Good(k), Becomes(k) PROVE Steps(View(k), k.cont, Quiet)
BY TakesIs DEF Becomes

LEMMA DepartsIs ==
  ASSUME NEW k, Good(k), out' = Quiet, \E e \in Edges(k) : Arrives(Edge(k, e)) PROVE Steps(View(k), k.cont, Quiet)
<1>1. PICK e \in Edges(k) : Arrives(Edge(k, e))
  OBVIOUS
<1>2. PICK j : j = Edge(k, e)
  OBVIOUS
<1>3. Still(k, j)
  BY <1>2, EdgeIs, KeepsStill, GoodParts
<1>4. Good(j) /\ j.cont = k.cont /\ View(j) = View(k)
  BY <1>3, KeepsGood
<1>5. Arrives(j)
  BY <1>1, <1>2
<1>6. Steps(View(j), j.cont, Quiet)
  BY <1>4, <1>5, ArrivesIs
<1> QED BY <1>4, <1>6

LEMMA LeavesIs == ASSUME NEW k, Good(k), Leaves(k) PROVE Steps(View(k), k.cont, Quiet)
BY DepartsIs DEF Leaves, Becomes, Takes

LEMMA FloorsAre ==
  ASSUME Good(m)
  PROVE  \A s \in Stacks : /\ Floor(s) = FloorOf(m, s) /\ Floor(s) \in Nat /\ Depth(m, s) \in Nat
                           /\ FloorOf(m, s) \in Nat /\ FloorOf(m, s) <= Depth(m, s)
                           /\ \A n \in Nat : Has(s, n) <=> Floor(s) + n <= Depth(m, s)
<1>1. \A s \in Stacks : Floor(s) = FloorOf(m, s)
  BY DEF Floor, FloorOf
<1>2. \A s \in Stacks : FloorOf(m, s) \in Nat /\ Depth(m, s) \in Nat /\ FloorOf(m, s) <= Depth(m, s)
  BY FloorIs, GoodParts, SaneParts
<1> QED BY <1>1, <1>2 DEF Has

-----------------------------------------------------------------------------
(* Instructions that put a value on a stack or take one away.                *)

LEMMA MovableIs ==
  ASSUME NEW d, Movable(d), NEW u \in Stacks \X Int, NEW e, e = Aim(d, Spot(u))
  PROVE  /\ Placed(e, u) /\ e \in Descs
         /\ \A k : Denote(k, e) = Denote(k, d)
         /\ \A k, j : j.reg = k.reg => Denote(j, d) = Denote(k, d)
<1>1. d \in Descs /\ d = [kind |-> d.kind, at |-> d.at, dst |-> d.dst]
  BY DescKinds DEF Movable
<1>2. e = [kind |-> d.kind, at |-> d.at, dst |-> Spot(u)]
  BY <1>1 DEF Aim
<1>3. Spot(u) \in Places
  <2>1. Arguments \in Nat /\ u[1] \in Stacks /\ u[2] \in Int
    BY Bounds
  <2> QED BY <2>1 DEF Spot, Places
<1>4. e \in Descs /\ e.kind = d.kind /\ e.at = d.at /\ e.dst = Spot(u)
  BY <1>1, <1>2, <1>3 DEF Descs
<1>5. (d.kind = "const" /\ d.at \in Values) \/ (d.kind = "reg" /\ d.at \in Regs)
  BY DEF Movable
<1>6. Placed(e, u)
  BY <1>4, <1>5 DEF Placed
<1>7. ASSUME NEW k PROVE Denote(k, e) = Denote(k, d)
  BY <1>4, <1>5, DenoteIs
<1>8. ASSUME NEW k, NEW j, j.reg = k.reg PROVE Denote(j, d) = Denote(k, d)
  BY <1>5, <1>8, DenoteIs
<1> QED BY <1>4, <1>6, <1>7, <1>8

LEMMA UnderIs ==
  ASSUME NEW k, Sane(k), NEW s \in Stacks, NEW n \in Nat, n + 1 <= Depth(k, s), NEW u, u = Under(k, s, n)
  PROVE  /\ u \in Cells(k) /\ u[1] = s /\ u[2] = Depth(k, s) - n /\ u = <<s, Depth(k, s) - n>>
         /\ Depth(k, s) \in Nat /\ Depth(k, s) - n \in Nat
         /\ View(k)[s][Depth(k, s) - n] = Holds(k, u) /\ Holds(k, u) \in Values
<1>1. Depth(k, s) \in Nat
  BY SaneParts
<1>2. PICK i : i = Depth(k, s) - n
  OBVIOUS
<1>3. i \in Nat /\ i >= 1 /\ i <= Depth(k, s)
  BY <1>1, <1>2
<1>4. u = <<s, i>>
  BY <1>2 DEF Under
<1>5. View(k)[s][i] = Holds(k, u) /\ u \in Cells(k)
  BY <1>3, <1>4, SeenAt
<1> QED BY <1>1, <1>2, <1>3, <1>4, <1>5, SaneParts

LEMMA TopIs ==
  ASSUME NEW k, Sane(k), NEW s \in Stacks, 1 <= Depth(k, s), NEW u, u = TopOf(k, s)
  PROVE  /\ u \in Cells(k) /\ u[1] = s /\ u[2] = Depth(k, s) /\ u = <<s, Depth(k, s)>>
         /\ Depth(k, s) \in Nat /\ View(k)[s][Depth(k, s)] = Holds(k, u) /\ Holds(k, u) \in Values
<1>1. u = Under(k, s, 0) /\ Depth(k, s) \in Nat
  BY SaneParts DEF TopOf
<1>2. Depth(k, s) - 0 = Depth(k, s) /\ 0 + 1 <= Depth(k, s)
  BY <1>1
<1> QED BY <1>1, <1>2, UnderIs

LEMMA PopIs ==
  ASSUME NEW k, Sane(k), NEW s \in Stacks, 1 <= Depth(k, s), NEW n, n = Depth(k, s) - 1, NEW j, j = PopCell(k, s)
  PROVE  Cropped(k, j, s, n) /\ n \in Nat /\ n <= Depth(k, s) /\ n + 1 = Depth(k, s)
<1>1. Depth(k, s) \in Nat
  BY SaneParts
<1>2. n \in Nat /\ n <= Depth(k, s) /\ n + 1 = Depth(k, s)
  BY <1>1
<1>3. j = Cut(k, s, n)
  BY DEF PopCell
<1> QED BY <1>2, <1>3, CropIs

LEMMA RenamedIs ==
  ASSUME NEW k, Sane(k), NEW d, Movable(d), NEW v \in Values, Denote(k, d) = v, NEW s \in Stacks,
         NEW c, Taken(c), c.m = k, c.d = d, NEW j, j = Renamed(c, s)
  PROVE  \E e : Pushed(k, j, s, e) /\ Denote(k, e) = v
<1>1. PICK x : x = NewCell(k, s)
  OBVIOUS
<1>2. x \in Stacks \X Int /\ Next(k, s) = Spot(x) /\ k \in Contexts
  BY <1>1, SpotIs, SaneParts DEF NewCell
<1>3. PICK e : e = Aim(d, Spot(x))
  OBVIOUS
<1>4. Placed(e, x) /\ Denote(k, e) = v
  BY <1>2, <1>3, MovableIs
<1>5. j = PushCell(k, s, e)
  BY <1>2, <1>3 DEF Renamed
<1>6. Pushed(k, j, s, e)
  BY <1>1, <1>4, <1>5, PushIs
<1> QED BY <1>4, <1>6

Moved(k, j, from, to, consume) ==
  /\ Sane(j) /\ j.cont = k.cont
  /\ \A t \in Stacks : Depth(j, t) = Depth(k, t) + (IF t = to THEN 1 ELSE 0) - (IF consume /\ t = from THEN 1 ELSE 0)
  /\ View(j) = Longer(IF consume THEN Shorter(View(k), from, Depth(k, from) - 1) ELSE View(k), to,
                      Holds(k, TopOf(k, from)))

LEMMA TransferredIs ==
  ASSUME NEW k, Sane(k), NEW from \in Stacks, NEW to \in Stacks, 1 <= Depth(k, from), NEW consume \in BOOLEAN,
         NEW j, j = Transferred(k, from, to, consume)
  PROVE  Moved(k, j, from, to, consume)
<1>1. PICK u, v : u = TopOf(k, from) /\ v = Holds(k, u)
  OBVIOUS
<1>2. u \in Cells(k) /\ v \in Values
  BY <1>1, TopIs
<1>3. PICK c : c = Captured(k, Cell(k, u))
  OBVIOUS
<1>4. PICK h, d : h = c.m /\ d = c.d
  OBVIOUS
<1>5. Taken(c) /\ Keeps(k, h) /\ Movable(d) /\ Denote(h, d) = v
  BY <1>1, <1>2, <1>3, <1>4, CapturedIs
<1>6. /\ Sane(h) /\ h.cont = k.cont /\ View(h) = View(k)
      /\ \A t \in Stacks : Depth(h, t) = Depth(k, t) /\ Depth(k, t) \in Nat
  BY <1>5, KeepsStill, SameView, SaneParts DEF Still, SameShape
<1>7. CASE ~consume
  <2>1. j = Renamed(c, to)
    BY <1>1, <1>3, <1>7 DEF Transferred
  <2>2. PICK e : Pushed(h, j, to, e) /\ Denote(h, e) = v
    BY <1>2, <1>4, <1>5, <1>6, <2>1, RenamedIs
  <2>3. View(j) = Longer(View(k), to, v)
    BY <1>6, <2>2 DEF Pushed
  <2>4. Sane(j) /\ j.cont = k.cont
    BY <1>6, <2>2 DEF Pushed
  <2>5. \A t \in Stacks : Depth(j, t) = Depth(k, t) + (IF t = to THEN 1 ELSE 0) - 0
    BY <1>6, <2>2 DEF Pushed
  <2> QED BY <1>1, <1>7, <2>3, <2>4, <2>5 DEF Moved
<1>8. CASE consume
  <2>1. PICK p, n : p = PopCell(h, from) /\ n = Depth(h, from) - 1
    OBVIOUS
  <2>2. Cropped(h, p, from, n) /\ n \in Nat
    BY <1>6, <2>1, PopIs
  <2>3. Sane(p) /\ p.cont = k.cont /\ p.reg = h.reg /\ View(p) = Shorter(View(k), from, n)
    BY <1>6, <2>2 DEF Cropped
  <2>4. Denote(p, d) = v
    BY <1>5, <2>3, MovableIs, SaneParts, <1>2
  <2>5. PICK q : q = [c EXCEPT !.m = p]
    OBVIOUS
  <2>6. Taken(q) /\ q.m = p /\ q.d = d
    <3>1. c = [m |-> h, d |-> d]
      BY <1>4, <1>5 DEF Taken
    <3>2. q = [m |-> p, d |-> d]
      BY <2>5, <3>1
    <3> QED BY <3>2, TakenIs
  <2>7. j = Renamed(q, to)
    BY <1>1, <1>3, <1>4, <1>8, <2>1, <2>5 DEF Transferred
  <2>8. PICK e : Pushed(p, j, to, e) /\ Denote(p, e) = v
    BY <1>2, <1>5, <2>3, <2>4, <2>6, <2>7, RenamedIs
  <2>9. View(j) = Longer(Shorter(View(k), from, Depth(k, from) - 1), to, v)
    BY <1>6, <2>1, <2>3, <2>8 DEF Pushed
  <2>10. Sane(j) /\ j.cont = k.cont
    BY <2>3, <2>8 DEF Pushed
  <2>11. \A t \in Stacks : Depth(j, t) = Depth(k, t) + (IF t = to THEN 1 ELSE 0) - (IF t = from THEN 1 ELSE 0)
    <3>1. \A t \in Stacks : Depth(p, t) = IF t = from THEN Depth(k, from) - 1 ELSE Depth(k, t)
      BY <1>6, <2>1, <2>2 DEF Cropped
    <3>2. \A t \in Stacks : Depth(j, t) = IF t = to THEN Depth(p, t) + 1 ELSE Depth(p, t)
      BY <2>8 DEF Pushed
    <3> QED BY <1>6, <3>1, <3>2
  <2> QED BY <1>1, <1>8, <2>9, <2>10, <2>11 DEF Moved
<1> QED BY <1>7, <1>8

LEMMA LiteralIs ==
  ASSUME Good(m), NEW s \in Operands, NEW v \in Values, Literal(s, v)
  PROVE  Steps(Longer(View(m), s, v), m.cont, Quiet)
<1>1. PICK d, k, x : d = Const(v, Next(m, s)) /\ k = PushCell(m, s, d) /\ x = NewCell(m, s)
  OBVIOUS
<1>2. Becomes(k) /\ s \in Stacks /\ Sane(m) /\ m \in Contexts
  BY <1>1, GoodParts DEF Literal, Operands, Stacks
<1>3. x \in Stacks \X Int /\ d = Const(v, Spot(x))
  BY <1>1, <1>2, SpotIs DEF NewCell
<1>4. Placed(d, x) /\ Denote(m, d) = v
  BY <1>2, <1>3, ConstIs
<1>5. Pushed(m, k, s, d)
  BY <1>1, <1>2, <1>4, PushIs
<1>6. Sane(k) /\ k.cont = m.cont /\ View(k) = Longer(View(m), s, v)
  BY <1>4, <1>5 DEF Pushed
<1>7. \A t \in Stacks : FloorOf(m, t) <= Depth(k, t)
  <2>1. \A t \in Stacks : Depth(k, t) = IF t = s THEN Depth(m, s) + 1 ELSE Depth(m, t)
    BY <1>5 DEF Pushed
  <2> QED BY <1>2, <2>1, FloorsAre
<1> QED BY <1>2, <1>6, <1>7, StillGood, BecomesIs

LEMMA LoadIs ==
  ASSUME Good(m), NEW s \in Operands, NEW v \in Values, Load(s, v)
  PROVE  Steps(Longer(View(m), s, v), m.cont, Quiet)
<1>1. PICK f : f = Free(m, {})
  OBVIOUS
<1>2. PICK h, r : h = f.m /\ r = f.r
  OBVIOUS
<1>3. Sane(m) /\ s \in Stacks /\ v \in Contents
  BY GoodParts DEF Operands, Stacks, Contents
<1>4. Made(f) /\ r \in Regs /\ Keeps(m, h) /\ Uses(h, r) = {}
  <2>1. Masks({})
    BY MasksAre
  <2> QED BY <1>1, <1>2, <1>3, <2>1, FreeIs DEF Masks
<1>5. Sane(h) /\ View(h) = View(m) /\ h.cont = m.cont /\ \A t \in Stacks : Depth(h, t) = Depth(m, t)
  BY <1>3, <1>4, KeepsStill, SameView DEF Still, SameShape
<1>6. PICK i : i = SetReg(h, r, v)
  OBVIOUS
<1>7. Keeps(h, i) /\ i.reg[r] = v
  BY <1>3, <1>4, <1>5, <1>6, SetIdle
<1>8. /\ Sane(i) /\ View(i) = View(m) /\ i.cont = m.cont /\ i \in Contexts
      /\ \A t \in Stacks : Depth(i, t) = Depth(m, t)
  BY <1>5, <1>7, KeepsStill, SameView, SaneParts DEF Still, SameShape
<1>9. PICK x, d, k : x = NewCell(i, s) /\ d = Reg(r, Spot(x)) /\ k = PushCell(i, s, d)
  OBVIOUS
<1>10. x \in Stacks \X Int /\ Next(h, s) = Spot(x)
  BY <1>3, <1>5, <1>8, <1>9, SpotIs, SaneParts DEF NewCell
<1>11. Becomes(k)
  <2>1. Becomes(Fresh(f, s, v))
    BY <1>1 DEF Load
  <2>2. Fresh(f, s, v) = PushCell([h EXCEPT !.reg[r] = v], s, Reg(r, Next(h, s)))
    BY <1>2 DEF Fresh
  <2> QED BY <1>6, <1>9, <1>10, <2>1, <2>2 DEF SetReg
<1>12. Placed(d, x) /\ Denote(i, d) = v
  BY <1>4, <1>7, <1>8, <1>9, <1>10, RegIs
<1>13. Pushed(i, k, s, d)
  BY <1>3, <1>8, <1>9, <1>12, PushIs
<1>14. Sane(k) /\ k.cont = m.cont /\ View(k) = Longer(View(m), s, v)
  BY <1>8, <1>12, <1>13 DEF Pushed
<1>15. \A t \in Stacks : FloorOf(m, t) <= Depth(k, t)
  <2>1. \A t \in Stacks : Depth(k, t) = IF t = s THEN Depth(m, s) + 1 ELSE Depth(m, t)
    BY <1>3, <1>8, <1>13 DEF Pushed
  <2> QED BY <1>3, <2>1, FloorsAre
<1> QED BY <1>11, <1>14, <1>15, StillGood, BecomesIs

\* The top of `from` goes to `to`.
LEMMA TransferIs ==
  ASSUME Good(m), NEW from \in Operands, NEW to \in Stacks, NEW consume \in BOOLEAN, Transfer(from, to, consume)
  PROVE  /\ Steps(Longer(IF consume THEN Shorter(View(m), from, Depth(m, from) - 1) ELSE View(m), to,
                         View(m)[from][Depth(m, from)]), m.cont, Quiet)
         /\ Has(from, 1) /\ (consume => from # to) /\ (to = "C" => consume) /\ Depth(m, to) + 1 <= Max(to)
<1>1. PICK k : k = Transferred(m, from, to, consume)
  OBVIOUS
<1>2. /\ Becomes(k) /\ from \in Stacks /\ Sane(m) /\ Has(from, 1)
      /\ (IF consume THEN Depth(m, to) < Max(to) ELSE Room(to, 1)) /\ (consume => from # to) /\ (to = "C" => consume)
  BY <1>1, GoodParts DEF Transfer, Operands, Stacks
<1>3. 1 <= Depth(m, from) /\ Floor(from) + 1 <= Depth(m, from)
  BY <1>2, FloorsAre
<1>4. Moved(m, k, from, to, consume)
  BY <1>1, <1>2, <1>3, TransferredIs
<1>5. \A t \in Stacks : FloorOf(m, t) <= Depth(k, t)
  <2>1. \A t \in Stacks : Depth(k, t) = Depth(m, t) + (IF t = to THEN 1 ELSE 0) - (IF consume /\ t = from THEN 1 ELSE 0)
    BY <1>4 DEF Moved
  <2> QED BY <1>2, <1>3, <2>1, FloorsAre
<1>6. Sane(k) /\ k.cont = m.cont
  BY <1>4 DEF Moved
<1>7. View(k) = Longer(IF consume THEN Shorter(View(m), from, Depth(m, from) - 1) ELSE View(m), to,
                       View(m)[from][Depth(m, from)])
  BY <1>2, <1>3, <1>4, TopIs DEF Moved
<1>8. Steps(View(k), m.cont, Quiet)
  BY <1>2, <1>5, <1>6, StillGood, BecomesIs
<1>9. Depth(m, to) + 1 <= Max(to)
  <2>1. Depth(m, to) \in Nat /\ Max(to) \in Nat
    BY <1>2, SaneParts, Bounds DEF Max, Stacks
  <2> QED BY <1>2, <2>1 DEF Room
<1> QED BY <1>2, <1>7, <1>8, <1>9

LEMMA DropIs ==
  ASSUME Good(m), NEW s \in Stacks, Drop(s)
  PROVE  Has(s, 1) /\ Steps(Shorter(View(m), s, Depth(m, s) - 1), m.cont, Quiet)
<1>1. PICK k, n : k = PopCell(m, s) /\ n = Depth(m, s) - 1
  OBVIOUS
<1>2. Becomes(k) /\ Has(s, 1) /\ Sane(m)
  BY <1>1, GoodParts DEF Drop
<1>3. 1 <= Depth(m, s) /\ Floor(s) + 1 <= Depth(m, s)
  BY <1>2, FloorsAre
<1>4. Cropped(m, k, s, n)
  BY <1>1, <1>2, <1>3, PopIs
<1>5. Sane(k) /\ k.cont = m.cont /\ View(k) = Shorter(View(m), s, n)
  BY <1>4 DEF Cropped
<1>6. \A t \in Stacks : FloorOf(m, t) <= Depth(k, t)
  <2>1. \A t \in Stacks : Depth(k, t) = IF t = s THEN n ELSE Depth(m, t)
    BY <1>4 DEF Cropped
  <2> QED BY <1>1, <1>3, <2>1, FloorsAre
<1> QED BY <1>1, <1>2, <1>5, <1>6, StillGood, BecomesIs

LEMMA CGetIs ==
  ASSUME Good(m), NEW to \in Operands, NEW depth \in Nat, CGet(to, depth)
  PROVE  /\ Has("C", depth + 1) /\ Depth(m, to) + 1 <= Max(to)
         /\ Steps(Longer(View(m), to, View(m)["C"][Depth(m, "C") - depth]), m.cont, Quiet)
<1>1. PICK u : u = Under(m, "C", depth)
  OBVIOUS
<1>2. PICK c : c = Captured(m, Cell(m, u))
  OBVIOUS
<1>3. PICK k, h, d, v : k = Renamed(c, to) /\ h = c.m /\ d = c.d /\ v = Holds(m, u)
  OBVIOUS
<1>4. Becomes(k) /\ Has("C", depth + 1) /\ Sane(m) /\ to \in Stacks /\ "C" \in Stacks /\ Depth(m, to) + 1 <= Max(to)
  BY <1>1, <1>2, <1>3, GoodParts DEF CGet, Room, Operands, Stacks
<1>5. depth + 1 <= Depth(m, "C")
  BY <1>4, FloorsAre
<1>6. u \in Cells(m) /\ v \in Values /\ v = View(m)["C"][Depth(m, "C") - depth]
  BY <1>1, <1>3, <1>4, <1>5, UnderIs
<1>7. Taken(c) /\ Keeps(m, h) /\ Movable(d) /\ Denote(h, d) = v
  BY <1>2, <1>3, <1>4, <1>6, CapturedIs
<1>8. Sane(h) /\ View(h) = View(m) /\ h.cont = m.cont /\ \A t \in Stacks : Depth(h, t) = Depth(m, t)
  BY <1>4, <1>7, KeepsStill, SameView DEF Still, SameShape
<1>9. PICK e : Pushed(h, k, to, e) /\ Denote(h, e) = v
  BY <1>3, <1>4, <1>6, <1>7, <1>8, RenamedIs
<1>10. Sane(k) /\ k.cont = m.cont /\ View(k) = Longer(View(m), to, v)
  BY <1>8, <1>9 DEF Pushed
<1>11. \A t \in Stacks : FloorOf(m, t) <= Depth(k, t)
  <2>1. \A t \in Stacks : Depth(k, t) = IF t = to THEN Depth(m, to) + 1 ELSE Depth(m, t)
    BY <1>4, <1>8, <1>9 DEF Pushed
  <2> QED BY <1>4, <2>1, FloorsAre
<1> QED BY <1>4, <1>6, <1>10, <1>11, StillGood, BecomesIs

LEMMA CSetIs ==
  ASSUME Good(m), NEW from \in Operands, NEW depth \in Nat, CSet(from, depth)
  PROVE  /\ Has(from, 1) /\ Has("C", depth + 1)
         /\ Steps(Changed(Shorter(View(m), from, Depth(m, from) - 1), "C", Depth(m, "C") - depth,
                          View(m)[from][Depth(m, from)]), m.cont, Quiet)
<1>1. PICK u, x : u = Under(m, "C", depth) /\ x = TopOf(m, from)
  OBVIOUS
<1>2. PICK c : c = Captured(m, Cell(m, x))
  OBVIOUS
<1>3. PICK h, d, v : h = c.m /\ d = c.d /\ v = Holds(m, x)
  OBVIOUS
<1>4. PICK p, n, k : p = PopCell(h, from) /\ n = Depth(h, from) - 1 /\ k = SetCell(p, u, Aim(d, Cell(m, u).dst))
  OBVIOUS
<1>5. Becomes(k) /\ Has(from, 1) /\ Has("C", depth + 1)
  BY <1>1, <1>2, <1>3, <1>4 DEF CSet
<1>6. Sane(m) /\ from \in Stacks /\ "C" \in Stacks /\ from # "C"
  BY GoodParts DEF Operands, Stacks
<1>7. 1 <= Depth(m, from) /\ depth + 1 <= Depth(m, "C") /\ Floor(from) + 1 <= Depth(m, from)
  BY <1>5, <1>6, FloorsAre
<1>8. x \in Cells(m) /\ v \in Values /\ v = View(m)[from][Depth(m, from)]
  BY <1>1, <1>3, <1>6, <1>7, TopIs
<1>9. u \in Cells(m) /\ u[1] = "C" /\ u[2] = Depth(m, "C") - depth /\ u \in Stacks \X Int /\ Cell(m, u).dst = Spot(u)
  BY <1>1, <1>6, <1>7, UnderIs, SaneParts
<1>10. Taken(c) /\ Keeps(m, h) /\ Movable(d) /\ Denote(h, d) = v
  BY <1>2, <1>3, <1>6, <1>8, CapturedIs
<1>11. /\ Sane(h) /\ View(h) = View(m) /\ h.cont = m.cont /\ Cells(h) = Cells(m)
       /\ \A t \in Stacks : Depth(h, t) = Depth(m, t)
  BY <1>6, <1>10, KeepsStill, SameView DEF Still, SameShape
<1>12. Cropped(h, p, from, n)
  BY <1>4, <1>6, <1>7, <1>11, PopIs
<1>13. Sane(p) /\ p.cont = m.cont /\ p.reg = h.reg /\ View(p) = Shorter(View(m), from, n)
  BY <1>11, <1>12 DEF Cropped
<1>14. u \in Cells(p)
  BY <1>6, <1>9, <1>11, <1>12 DEF Cropped
<1>15. PICK e : e = Aim(d, Spot(u))
  OBVIOUS
<1>16. Placed(e, u) /\ Denote(p, e) = v
  BY <1>9, <1>10, <1>13, <1>15, MovableIs
<1>17. k = SetCell(p, u, e)
  BY <1>4, <1>9, <1>15
<1>18. Turned(p, k, u, v)
  BY <1>8, <1>13, <1>14, <1>16, <1>17, RenameIs
<1>19. Sane(k) /\ k.cont = m.cont /\ View(k) = Changed(View(p), "C", Depth(m, "C") - depth, v)
  BY <1>9, <1>13, <1>18 DEF Turned, SameShape
<1>20. \A t \in Stacks : FloorOf(m, t) <= Depth(k, t)
  <2>1. \A t \in Stacks : Depth(k, t) = IF t = from THEN n ELSE Depth(m, t)
    BY <1>11, <1>12, <1>18 DEF Cropped, Turned, SameShape
  <2> QED BY <1>4, <1>6, <1>7, <1>11, <2>1, FloorsAre
<1>21. View(k) = Changed(Shorter(View(m), from, Depth(m, from) - 1), "C", Depth(m, "C") - depth, View(m)[from][Depth(m, from)])
  BY <1>4, <1>6, <1>8, <1>11, <1>13, <1>19
<1> QED BY <1>5, <1>19, <1>20, <1>21, StillGood, BecomesIs

LEMMA CheckIs ==
  ASSUME Good(m), NEW me \in Operands, Check(me)
  PROVE  Steps(View(m), m.cont, Quiet)
<1>1. PICK u, w : u = TopOf(m, me) /\ w = MaterializedAt(m, u, {})
  OBVIOUS
<1>2. Becomes(w.m) /\ Has(me, 1) /\ Sane(m) /\ me \in Stacks
  BY <1>1, GoodParts DEF Check, Operands, Stacks
<1>3. 1 <= Depth(m, me)
  BY <1>2, FloorsAre
<1>4. u \in Cells(m)
  BY <1>1, <1>2, <1>3, TopIs
<1>5. AtHand(m, u, {}, w)
  BY <1>1, <1>2, <1>4, MaterializedAtIs, MasksAre
<1>6. Still(m, w.m)
  BY <1>5, KeepsStill DEF AtHand
<1>7. Good(w.m) /\ w.m.cont = m.cont /\ View(w.m) = View(m)
  BY <1>6, KeepsGood
<1>8. Steps(View(w.m), w.m.cont, Quiet)
  BY <1>2, <1>7, BecomesIs
<1> QED BY <1>7, <1>8

LEMMA JumpIs == ASSUME Good(m), Jump PROVE Steps(View(m), m.cont, Quiet)
BY LeavesIs DEF Jump

-----------------------------------------------------------------------------
(* Computing.                                                                *)

LEMMA StillTurned ==
  ASSUME NEW k, Sane(k), NEW j, Still(k, j), NEW u \in Cells(k), NEW v, NEW l, Turned(j, l, u, v)
  PROVE  Turned(k, l, u, v)
<1>1. View(j) = View(k)
  BY SameView
<1>2. Sane(l) /\ SameShape(k, l) /\ Cells(l) = Cells(k)
  BY DEF Still, Turned, SameShape
<1>3. Holds(l, u) = v /\ \A w \in Cells(k) : w # u => Holds(l, w) = Holds(k, w)
  BY DEF Still, Turned
<1>4. View(l) = Changed(View(k), u[1], u[2], v)
  BY <1>1 DEF Turned
<1> QED BY <1>2, <1>3, <1>4 DEF Turned

LEMMA TurnedGood ==
  ASSUME NEW k, Good(k), NEW u, NEW v, NEW j, Turned(k, j, u, v) PROVE Good(j) /\ j.cont = k.cont
<1>1. Sane(k) /\ Framed(k) /\ Sane(j) /\ j.cont = k.cont /\ \A s \in Stacks : Depth(j, s) = Depth(k, s)
  BY DEF Good, Turned, SameShape
<1>2. \A s \in Stacks : FloorOf(k, s) <= Depth(j, s)
  BY <1>1, FloorIs
<1> QED BY <1>1, <1>2, StillGood

LEMMA CroppedGood ==
  ASSUME NEW k, Good(k), NEW s \in Stacks, NEW n \in Nat, FloorOf(k, s) <= n, NEW j, Cropped(k, j, s, n)
  PROVE  Good(j) /\ j.cont = k.cont
<1>1. Sane(k) /\ Framed(k) /\ Sane(j) /\ j.cont = k.cont /\ \A t \in Stacks : Depth(j, t) = IF t = s THEN n ELSE Depth(k, t)
  BY DEF Good, Cropped
<1>2. \A t \in Stacks : FloorOf(k, t) <= Depth(j, t)
  BY <1>1, FloorIs
<1> QED BY <1>1, <1>2, StillGood

LEMMA OpIs == ASSUME NEW v \in Values, NEW w \in Values PROVE Op(v, w) \in Values
BY OpAssumption

LEMMA FoldedIs ==
  ASSUME Sane(m), NEW x \in Cells(m), Cell(m, x).kind = "const", NEW v \in Values, NEW j, j = Folded(x, v)
  PROVE  Turned(m, j, x, Op(Holds(m, x), v))
<1>1. x \in Stacks \X Int /\ m \in Contexts /\ Placed(Cell(m, x), x) /\ Cell(m, x).dst = Spot(x) /\ Holds(m, x) \in Values
  BY SaneParts
<1>2. Holds(m, x) = Cell(m, x).at
  BY DenoteIs DEF Holds
<1>3. PICK y : y = Op(Holds(m, x), v)
  OBVIOUS
<1>4. y \in Values
  BY <1>1, <1>3, OpIs
<1>5. PICK d : d = Const(y, Spot(x))
  OBVIOUS
<1>6. Placed(d, x) /\ Denote(m, d) = y
  BY <1>1, <1>4, <1>5, ConstIs
<1>7. j = SetCell(m, x, d)
  BY <1>1, <1>2, <1>3, <1>5 DEF Folded
<1>8. Turned(m, j, x, y)
  BY <1>4, <1>6, <1>7, RenameIs
<1> QED BY <1>3, <1>8

LEMMA ComputedWithIs ==
  ASSUME NEW k, Sane(k), NEW x \in Cells(k), NEW v \in Values, NEW w, w = Writable(k, x), NEW j, j = ComputedWith(w, v)
  PROVE  Turned(k, j, x, Op(Holds(k, x), v))
<1>1. PICK h, r : h = w.m /\ r = w.r
  OBVIOUS
<1>2. r \in Regs /\ Keeps(k, h) /\ h.reg[r] = Holds(k, x) /\ Uses(h, r) = {x}
  BY <1>1, WritableIs
<1>3. Sane(h) /\ Still(k, h) /\ Cells(h) = Cells(k) /\ Holds(k, x) \in Values
  BY <1>2, KeepsStill, SaneParts DEF Still
<1>4. PICK y : y = Op(Holds(k, x), v)
  OBVIOUS
<1>5. y \in Values
  BY <1>3, <1>4, OpIs
<1>6. j = SetReg(h, r, y)
  BY <1>1, <1>2, <1>4 DEF ComputedWith, SetReg
<1>7. Turned(h, j, x, y)
  BY <1>2, <1>3, <1>5, <1>6, WriteIs
<1> QED BY <1>3, <1>4, <1>7, StillTurned

\* Preparing the other operand leaves the register that is to be written.
Besides(k, x, u, r, o) ==
  Sane(k) /\ x \in Cells(k) /\ u \in Cells(k) /\ x # u /\ r \in Regs /\ Uses(k, r) = {x} /\ AtHand(k, u, {r}, o)

LEMMA BesideIs ==
  ASSUME NEW k, NEW x, NEW u, NEW r, NEW o, Besides(k, x, u, r, o)
  PROVE  Uses(o.m, r) = {x} /\ o.m.reg[r] = k.reg[r] /\ o.r # r
<1> SUFFICES ASSUME Sane(k), x \in Cells(k), u \in Cells(k), x # u, r \in Regs, Uses(k, r) = {x}, AtHand(k, u, {r}, o)
             PROVE  Uses(o.m, r) = {x} /\ o.m.reg[r] = k.reg[r] /\ o.r # r
  BY DEF Besides
<1>1. PICK h, q : h = o.m /\ q = o.r
  OBVIOUS
<1>2. /\ q \in Regs /\ Keeps(k, h) /\ Cell(h, u) = Reg(q, Spot(u)) /\ Yields(k, h, {r}, Cells(k) \ {u})
      /\ (Cell(k, u).kind = "reg" => q = Cell(k, u).at) /\ (Cell(k, u).kind # "reg" => q \notin {r})
  BY <1>1 DEF AtHand
<1>3. Sane(h) /\ Cells(h) = Cells(k) /\ Holds(h, x) = Holds(k, x) /\ k \in Contexts /\ u \in Stacks \X Int
  BY <1>2, SaneParts DEF Keeps
<1>4. \A v \in Cells(k) : Cell(k, v).kind = "reg" /\ Cell(k, v).at = r <=> v = x
  BY UsesAre
<1>5. q # r
  BY <1>2, <1>4
<1>6. Cell(h, u).kind = "reg" /\ Cell(h, u).at = q
  BY <1>2, <1>3, RegIs
<1>7. Cell(h, x) = Cell(k, x)
  BY <1>2, <1>4 DEF Yields
<1>8. ASSUME NEW v \in Cells(k), v # x PROVE ~(Cell(h, v).kind = "reg" /\ Cell(h, v).at = r)
  <2>1. CASE v = u
    BY <1>5, <1>6, <2>1
  <2>2. CASE v # u
    <3>1. Cell(h, v) = Cell(k, v) \/ Cell(h, v) = Home(Spot(v))
      BY <1>2, <2>2 DEF Yields
    <3>2. v \in Stacks \X Int
      BY SaneParts
    <3>3. Home(Spot(v)).kind = "home"
      BY <1>3, <3>2, HomeIs
    <3> QED BY <1>4, <1>8, <3>1, <3>3
  <2> QED BY <2>1, <2>2
<1>9. \A v \in Cells(h) : v \in Uses(h, r) <=> v = x
  BY <1>3, <1>4, <1>7, <1>8, UsesAre
<1>10. Uses(h, r) = {x}
  <2>1. Uses(h, r) \subseteq Cells(h)
    BY <1>3, UsesAre
  <2> QED BY <1>3, <1>9, <2>1
<1>11. Holds(h, x) = h.reg[r] /\ Holds(k, x) = k.reg[r]
  BY <1>3, <1>10, UsesAre
<1> QED BY <1>1, <1>3, <1>5, <1>10, <1>11

LEMMA ComputedIs ==
  ASSUME NEW k, Sane(k), NEW x \in Cells(k), NEW u \in Cells(k), x # u, NEW w, w = Writable(k, x),
         NEW j, j = Computed(w, u)
  PROVE  Turned(k, j, x, Op(Holds(k, x), Holds(k, u)))
<1>1. PICK h, r : h = w.m /\ r = w.r
  OBVIOUS
<1>2. r \in Regs /\ Keeps(k, h) /\ h.reg[r] = Holds(k, x) /\ Uses(h, r) = {x}
  BY <1>1, WritableIs
<1>3. Sane(h) /\ Still(k, h) /\ Cells(h) = Cells(k) /\ Holds(k, x) \in Values /\ Holds(k, u) \in Values /\ Holds(h, u) = Holds(k, u)
  BY <1>2, KeepsStill, SaneParts DEF Still
<1>4. PICK o : o = MaterializedAt(h, u, {r})
  OBVIOUS
<1>5. AtHand(h, u, {r}, o)
  BY <1>2, <1>3, <1>4, MasksAre, MaterializedAtIs
<1>6. PICK i, q : i = o.m /\ q = o.r
  OBVIOUS
<1>7. Uses(i, r) = {x} /\ i.reg[r] = Holds(k, x)
  <2>1. Besides(h, x, u, r, o)
    BY <1>2, <1>3, <1>5 DEF Besides
  <2>2. Uses(o.m, r) = {x} /\ o.m.reg[r] = h.reg[r]
    BY ONLY <2>1, BesideIs
  <2> QED BY <1>2, <1>6, <2>2
<1>8. Keeps(h, i) /\ i.reg[q] = Holds(k, u)
  BY <1>3, <1>5, <1>6 DEF AtHand
<1>9. Sane(i) /\ Still(k, i) /\ Cells(i) = Cells(k)
  BY <1>3, <1>8, KeepsStill, StillTwice DEF Still
<1>10. PICK y : y = Op(Holds(k, x), Holds(k, u))
  OBVIOUS
<1>11. y \in Values
  BY <1>3, <1>10, OpIs
<1>12. j = Into(w, o)
  BY <1>1, <1>4 DEF Computed
<1>13. j = [i EXCEPT !.reg[r] = Op(@, i.reg[q])]
  BY <1>1, <1>6, <1>12 DEF Into
<1>14. j = SetReg(i, r, y)
  BY <1>7, <1>8, <1>10, <1>13 DEF SetReg
<1>15. Turned(i, j, x, y)
  BY <1>2, <1>7, <1>9, <1>11, <1>14, WriteIs
<1> QED BY <1>9, <1>10, <1>15, StillTurned

LEMMA CombinedIs ==
  ASSUME Sane(m), NEW x \in Cells(m), NEW u \in Cells(m), x # u, NEW folded \in Foldable(x, u),
         NEW j, j = Combined(x, u, folded)
  PROVE  Turned(m, j, x, Op(Holds(m, x), Holds(m, u)))
<1>1. CASE folded
  <2>1. Cell(m, x).kind = "const" /\ Cell(m, u).kind = "const"
    BY <1>1 DEF Foldable
  <2>2. Holds(m, u) = Cell(m, u).at /\ Holds(m, u) \in Values
    BY <2>1, DenoteIs, SaneParts DEF Holds
  <2>3. j = Folded(x, Holds(m, u))
    BY <1>1, <2>2 DEF Combined
  <2> QED BY <2>1, <2>2, <2>3, FoldedIs
<1>2. CASE ~folded
  <2>1. PICK w : w = Writable(m, x)
    OBVIOUS
  <2>2. j = Computed(w, u)
    BY <1>2, <2>1 DEF Combined
  <2> QED BY <2>1, <2>2, ComputedIs
<1> QED BY <1>1, <1>2

LEMMA ImmediateIs ==
  ASSUME Good(m), NEW me \in Operands, NEW v \in Values, Immediate(me, v)
  PROVE  /\ Has(me, 1)
         /\ Steps(Changed(View(m), me, Depth(m, me), Op(View(m)[me][Depth(m, me)], v)), m.cont, Quiet)
<1>1. PICK x : x = TopOf(m, me)
  OBVIOUS
<1>2. PICK folded \in Foldable(x, x) : Becomes(IF folded THEN Folded(x, v) ELSE ComputedWith(Writable(m, x), v))
  BY <1>1 DEF Immediate
<1>3. PICK j : j = IF folded THEN Folded(x, v) ELSE ComputedWith(Writable(m, x), v)
  OBVIOUS
<1>4. Has(me, 1) /\ Sane(m) /\ me \in Stacks
  BY GoodParts DEF Immediate, Operands, Stacks
<1>5. 1 <= Depth(m, me)
  BY <1>4, FloorsAre
<1>6. x \in Cells(m) /\ x[1] = me /\ x[2] = Depth(m, me) /\ View(m)[me][Depth(m, me)] = Holds(m, x)
  BY <1>1, <1>4, <1>5, TopIs
<1>7. Turned(m, j, x, Op(Holds(m, x), v))
  <2>1. CASE folded
    <3>1. Cell(m, x).kind = "const"
      BY <2>1 DEF Foldable
    <3>2. j = Folded(x, v)
      BY <1>3, <2>1
    <3> QED BY <1>4, <1>6, <3>1, <3>2, FoldedIs
  <2>2. CASE ~folded
    <3>1. PICK w : w = Writable(m, x)
      OBVIOUS
    <3>2. j = ComputedWith(w, v)
      BY <1>3, <2>2, <3>1
    <3> QED BY <1>4, <1>6, <3>1, <3>2, ComputedWithIs
  <2> QED BY <2>1, <2>2
<1>8. Good(j) /\ j.cont = m.cont
  BY <1>7, TurnedGood
<1>9. View(j) = Changed(View(m), me, Depth(m, me), Op(View(m)[me][Depth(m, me)], v))
  BY <1>6, <1>7 DEF Turned
<1>10. Becomes(j)
  BY <1>2, <1>3
<1> QED BY <1>4, <1>8, <1>9, <1>10, BecomesIs

LEMMA BinaryCIs ==
  ASSUME Good(m), NEW me \in Operands, NEW depth \in Nat, BinaryC(me, depth)
  PROVE  /\ Has(me, 1) /\ Has("C", depth + 1)
         /\ Steps(Changed(View(m), me, Depth(m, me),
                          Op(View(m)[me][Depth(m, me)], View(m)["C"][Depth(m, "C") - depth])), m.cont, Quiet)
<1>1. PICK x, u : x = TopOf(m, me) /\ u = Under(m, "C", depth)
  OBVIOUS
<1>2. PICK folded \in Foldable(x, u) : Becomes(Combined(x, u, folded))
  BY <1>1 DEF BinaryC
<1>3. PICK j : j = Combined(x, u, folded)
  OBVIOUS
<1>4. Has(me, 1) /\ Has("C", depth + 1) /\ Sane(m) /\ me \in Stacks /\ "C" \in Stacks /\ me # "C"
  BY GoodParts DEF BinaryC, Operands, Stacks
<1>5. 1 <= Depth(m, me) /\ depth + 1 <= Depth(m, "C")
  BY <1>4, FloorsAre
<1>6. x \in Cells(m) /\ x[1] = me /\ x[2] = Depth(m, me) /\ View(m)[me][Depth(m, me)] = Holds(m, x)
  BY <1>1, <1>4, <1>5, TopIs
<1>7. u \in Cells(m) /\ u[1] = "C" /\ View(m)["C"][Depth(m, "C") - depth] = Holds(m, u)
  BY <1>1, <1>4, <1>5, UnderIs
<1>8. Turned(m, j, x, Op(Holds(m, x), Holds(m, u)))
  BY <1>3, <1>4, <1>6, <1>7, CombinedIs
<1>9. Good(j) /\ j.cont = m.cont
  BY <1>8, TurnedGood
<1>10. View(j) = Changed(View(m), me, Depth(m, me),
                         Op(View(m)[me][Depth(m, me)], View(m)["C"][Depth(m, "C") - depth]))
  BY <1>6, <1>7, <1>8 DEF Turned
<1>11. Becomes(j)
  BY <1>2, <1>3
<1> QED BY <1>4, <1>9, <1>10, <1>11, BecomesIs

LEMMA OtherIs ==
  \A me \in Operands : /\ me \in Stacks /\ Other(me) \in Stacks /\ Other(me) \in Operands /\ Other(me) # me
                       /\ me # "C" /\ Other(me) # "C" /\ Other(Other(me)) = me
                       /\ \A s \in Stacks : s = me \/ s = Other(me) \/ s = "C"
BY DEF Operands, Stacks, Other

LEMMA BinaryIs ==
  ASSUME Good(m), NEW me \in Operands, Binary(me)
  PROVE  /\ Has(me, 1) /\ Has(Other(me), 1)
         /\ Steps(Shorter(Changed(View(m), me, Depth(m, me),
                                  Op(View(m)[me][Depth(m, me)], View(m)[Other(me)][Depth(m, Other(me))])),
                          Other(me), Depth(m, Other(me)) - 1), m.cont, Quiet)
<1>1. PICK s, x, u : s = Other(me) /\ x = TopOf(m, me) /\ u = TopOf(m, s)
  OBVIOUS
<1>2. PICK folded \in Foldable(x, u) : Becomes(PopCell(Combined(x, u, folded), s))
  BY <1>1 DEF Binary
<1>3. PICK j, l, n : j = Combined(x, u, folded) /\ l = PopCell(j, s) /\ n = Depth(m, s) - 1
  OBVIOUS
<1>4. Has(me, 1) /\ Has(s, 1) /\ Sane(m) /\ me \in Stacks /\ s \in Stacks /\ s # me
  BY <1>1, GoodParts, OtherIs DEF Binary
<1>5. 1 <= Depth(m, me) /\ 1 <= Depth(m, s) /\ FloorOf(m, s) + 1 <= Depth(m, s) /\ FloorOf(m, s) \in Nat /\ Depth(m, s) \in Nat
  BY <1>4, FloorsAre
<1>6. x \in Cells(m) /\ x[1] = me /\ x[2] = Depth(m, me) /\ View(m)[me][Depth(m, me)] = Holds(m, x)
  BY <1>1, <1>4, <1>5, TopIs
<1>7. u \in Cells(m) /\ u[1] = s /\ View(m)[s][Depth(m, s)] = Holds(m, u)
  BY <1>1, <1>4, <1>5, TopIs
<1>8. Turned(m, j, x, Op(Holds(m, x), Holds(m, u)))
  BY <1>3, <1>4, <1>6, <1>7, CombinedIs
<1>9. Good(j) /\ j.cont = m.cont /\ Sane(j)
  BY <1>8, TurnedGood DEF Good
<1>10. Depth(j, s) = Depth(m, s)
  BY <1>4, <1>8 DEF Turned, SameShape
<1>11. Cropped(j, l, s, n)
  BY <1>3, <1>4, <1>5, <1>9, <1>10, PopIs
<1>12. FloorOf(j, s) <= n /\ n \in Nat
  <2>1. FloorOf(j, s) = FloorOf(m, s)
    BY <1>9 DEF FloorOf
  <2> QED BY <1>3, <1>5, <2>1
<1>13. Good(l) /\ l.cont = m.cont
  BY <1>4, <1>9, <1>11, <1>12, CroppedGood
<1>14. View(l) = Shorter(Changed(View(m), me, Depth(m, me), Op(View(m)[me][Depth(m, me)], View(m)[s][Depth(m, s)])), s, n)
  BY <1>6, <1>7, <1>8, <1>11 DEF Turned, Cropped
<1>15. Becomes(l)
  BY <1>2, <1>3
<1> QED BY <1>1, <1>3, <1>4, <1>13, <1>14, <1>15, BecomesIs

-----------------------------------------------------------------------------
(* Memory instructions.                                                      *)

LEMMA PopTwoIs ==
  ASSUME NEW k, Good(k), NEW me \in Operands, FloorOf(k, me) + 1 <= Depth(k, me),
         FloorOf(k, Other(me)) + 1 <= Depth(k, Other(me)),
         NEW l, l = PopCell(PopCell(k, me), Other(me))
  PROVE  /\ Good(l) /\ l.cont = k.cont /\ l.reg = k.reg /\ l.mem = k.mem
         /\ View(l) = Shorter(Shorter(View(k), me, Depth(k, me) - 1), Other(me), Depth(k, Other(me)) - 1)
         /\ TopOf(k, me) \notin Cells(l) /\ TopOf(k, Other(me)) \notin Cells(l)
<1>1. PICK s, j, n, i : s = Other(me) /\ j = PopCell(k, me) /\ n = Depth(k, me) - 1 /\ i = Depth(k, s) - 1
  OBVIOUS
<1>2. Sane(k) /\ Framed(k) /\ me \in Stacks /\ s \in Stacks /\ s # me /\ l = PopCell(j, s)
  BY <1>1, OtherIs DEF Good
<1>3. /\ FloorOf(k, me) \in Nat /\ Depth(k, me) \in Nat /\ FloorOf(k, s) \in Nat /\ Depth(k, s) \in Nat
      /\ 1 <= Depth(k, me) /\ 1 <= Depth(k, s)
  BY <1>1, <1>2, FloorIs, SaneParts
<1>4. Cropped(k, j, me, n) /\ n \in Nat
  BY <1>1, <1>2, <1>3, PopIs
<1>5. FloorOf(k, me) <= n
  BY <1>1, <1>3
<1>6. Good(j) /\ Sane(j) /\ j.cont = k.cont /\ j.reg = k.reg /\ j.mem = k.mem /\ View(j) = Shorter(View(k), me, n)
  BY <1>2, <1>4, <1>5, CroppedGood DEF Cropped
<1>7. Depth(j, s) = Depth(k, s)
  BY <1>2, <1>4 DEF Cropped
<1>8. Cropped(j, l, s, i) /\ i \in Nat
  BY <1>1, <1>2, <1>3, <1>6, <1>7, PopIs
<1>9. FloorOf(j, s) <= i
  <2>1. FloorOf(j, s) = FloorOf(k, s)
    BY <1>6 DEF FloorOf
  <2> QED BY <1>1, <1>3, <2>1
<1>10. Good(l) /\ l.cont = k.cont /\ l.reg = k.reg /\ l.mem = k.mem /\ View(l) = Shorter(Shorter(View(k), me, n), s, i)
  BY <1>2, <1>6, <1>8, <1>9, CroppedGood DEF Cropped
<1>11. TopOf(k, me) \notin Cells(l) /\ TopOf(k, s) \notin Cells(l)
  <2>1. \A v \in Cells(l) : v \in Cells(j) /\ v \in Cells(k) /\ (v[1] = s => v[2] <= i) /\ (v[1] = me => v[2] <= n)
    BY <1>4, <1>8 DEF Cropped
  <2>2. TopOf(k, me)[1] = me /\ TopOf(k, me)[2] = Depth(k, me) /\ TopOf(k, s)[1] = s /\ TopOf(k, s)[2] = Depth(k, s)
    BY <1>2, <1>3, TopIs
  <2>3. ~(Depth(k, me) <= n) /\ ~(Depth(k, s) <= i)
    BY <1>1, <1>3
  <2> QED BY <2>1, <2>2, <2>3
<1> QED BY <1>1, <1>10, <1>11

\* The operands of a memory instruction, which may not be pressed for registers.
LEMMA OperandsAre ==
  ASSUME Good(m), NEW me \in Operands, Has(me, 1), Has(Other(me), 1), NEW x, x = TopOf(m, me), NEW u, u = TopOf(m, Other(me))
  PROVE  /\ Sane(m) /\ x \in Cells(m) /\ u \in Cells(m) /\ x # u
         /\ x[1] = me /\ x[2] = Depth(m, me) /\ u[1] = Other(me) /\ u[2] = Depth(m, Other(me))
         /\ View(m)[me][Depth(m, me)] = Holds(m, x) /\ View(m)[Other(me)][Depth(m, Other(me))] = Holds(m, u)
         /\ FloorOf(m, me) + 1 <= Depth(m, me) /\ FloorOf(m, Other(me)) + 1 <= Depth(m, Other(me))
<1>1. PICK s : s = Other(me)
  OBVIOUS
<1>2. Sane(m) /\ me \in Stacks /\ s \in Stacks /\ s # me
  BY <1>1, GoodParts, OtherIs
<1>3. /\ 1 <= Depth(m, me) /\ FloorOf(m, me) + 1 <= Depth(m, me)
      /\ 1 <= Depth(m, s) /\ FloorOf(m, s) + 1 <= Depth(m, s)
  BY <1>1, <1>2, FloorsAre
<1>4. x \in Cells(m) /\ x[1] = me /\ x[2] = Depth(m, me) /\ View(m)[me][Depth(m, me)] = Holds(m, x)
  BY <1>2, <1>3, TopIs
<1>5. u \in Cells(m) /\ u[1] = s /\ u[2] = Depth(m, s) /\ View(m)[s][Depth(m, s)] = Holds(m, u)
  BY <1>1, <1>2, <1>3, TopIs
<1> QED BY <1>1, <1>2, <1>3, <1>4, <1>5

Ready(k, a, v, x, u) == Keeps(k, v.m) /\ v.m.reg[a.r] = Holds(k, x) /\ v.m.reg[v.r] = Holds(k, u)

LEMMA BothReady ==
  ASSUME Sane(m), NEW x \in Cells(m), NEW u \in Cells(m),
         NEW a, a = Materialized(m, Cell(m, x), {}), NEW v, v = Materialized(a.m, Cell(m, u), {a.r}),
         Cell(a.m, u) = Cell(m, u)
  PROVE  Ready(m, a, v, x, u)
<1>1. PICK h, r : h = a.m /\ r = a.r
  OBVIOUS
<1>2. Known_(m, Cell(m, x)) /\ Known_(m, Cell(m, u))
  BY CellIsKnown
<1>3. r \in Regs /\ Keeps(m, h) /\ h.reg[r] = Denote(m, Cell(m, x))
  BY <1>1, <1>2, MaterializedNone
<1>4. Cell(h, u) = Cell(m, u)
  BY <1>1
<1>5. Sane(h) /\ Cells(h) = Cells(m) /\ Holds(h, u) = Holds(m, u)
  BY <1>3 DEF Keeps
<1>6. PICK d : d = Cell(m, u)
  OBVIOUS
<1>7. Known_(h, d) /\ Denote(h, d) = Holds(m, u)
  BY <1>4, <1>5, <1>6, CellIsKnown DEF Holds
<1>8. {r} \subseteq Regs /\ Regs \ {r} # {}
  BY <1>3, RegsAre
<1>9. /\ v.r \in Regs /\ Keeps(h, v.m) /\ v.m.reg[v.r] = Holds(m, u)
      /\ \A q \in Regs : q # v.r => v.m.reg[q] = h.reg[q]
      /\ d.kind = "reg" => v.m = h
      /\ d.kind # "reg" => v.r \notin {r}
  <2>1. v = Materialized(h, d, {r})
    BY <1>1, <1>6
  <2>2. PICK mask : mask = {r}
    OBVIOUS
  <2>3. mask \subseteq Regs /\ Regs \ mask # {} /\ v = Materialized(h, d, mask)
    BY <1>8, <2>1, <2>2
  <2>4. v.r \in Regs /\ Keeps(h, v.m) /\ v.m.reg[v.r] = Denote(h, d)
    BY <1>5, <1>7, <2>3, MaterializedIs
  <2>5. \A q \in Regs : q # v.r => v.m.reg[q] = h.reg[q]
    BY <1>5, <1>7, <2>3, MaterializedIs
  <2>6. (d.kind = "reg" => v.m = h) /\ (d.kind # "reg" => v.r \notin mask)
    BY <1>5, <1>7, <2>3, MaterializedIs
  <2> QED BY <1>7, <2>2, <2>4, <2>5, <2>6
<1>10. v.m.reg[r] = h.reg[r]
  BY <1>3, <1>9
<1>11. Keeps(m, v.m) /\ v.m.reg[a.r] = Holds(m, x) /\ v.m.reg[v.r] = Holds(m, u)
  BY <1>1, <1>3, <1>9, <1>10, KeepsTwice DEF Holds
<1> QED BY <1>11 DEF Ready

LEMMA StoreIs ==
  ASSUME Good(m), stale' = "none", NEW me \in Operands, Store(me)
  PROVE  /\ Has(me, 1) /\ Has(Other(me), 1)
         /\ Steps(Shorter(Shorter(View(m), me, Depth(m, me) - 1), Other(me), Depth(m, Other(me)) - 1), m.cont,
                  <<"store", View(m)[me][Depth(m, me)], View(m)[Other(me)][Depth(m, Other(me))]>>)
<1>1. PICK s, x, u : s = Other(me) /\ x = TopOf(m, me) /\ u = TopOf(m, s)
  OBVIOUS
<1>2. Has(me, 1) /\ Has(s, 1)
  BY <1>1 DEF Store
<1>3. PICK a : /\ a = Materialized(m, Cell(m, x), {})
               /\ \E v \in {Materialized(a.m, Cell(m, u), {a.r})} :
                    /\ Arrives(PopCell(PopCell(v.m, me), s))
                    /\ out' = <<"store", v.m.reg[a.r], v.m.reg[v.r]>>
                    /\ Marks(Cell(a.m, u) # Cell(m, u), "operand")
  BY <1>1 DEF Store
<1>4. PICK v : /\ v = Materialized(a.m, Cell(m, u), {a.r})
               /\ Arrives(PopCell(PopCell(v.m, me), s))
               /\ out' = <<"store", v.m.reg[a.r], v.m.reg[v.r]>>
               /\ Marks(Cell(a.m, u) # Cell(m, u), "operand")
  BY <1>3
<1>5. /\ Sane(m) /\ x \in Cells(m) /\ u \in Cells(m)
      /\ View(m)[me][Depth(m, me)] = Holds(m, x) /\ View(m)[s][Depth(m, s)] = Holds(m, u)
      /\ FloorOf(m, me) + 1 <= Depth(m, me) /\ FloorOf(m, s) + 1 <= Depth(m, s)
  BY <1>1, <1>2, OperandsAre
<1>6. PICK h : h = v.m
  OBVIOUS
<1>7. Keeps(m, h) /\ h.reg[a.r] = Holds(m, x) /\ h.reg[v.r] = Holds(m, u)
  <2>1. a = Materialized(m, Cell(m, x), {})
    BY <1>3
  <2>2. v = Materialized(a.m, Cell(m, u), {a.r})
    BY <1>4
  <2>3. Cell(a.m, u) = Cell(m, u)
    BY <1>4, UnmarkedIs
  <2>4. Sane(m) /\ x \in Cells(m) /\ u \in Cells(m)
    BY <1>5
  <2>5. Ready(m, a, v, x, u)
    BY <2>1, <2>2, <2>3, <2>4, BothReady
  <2> QED BY <1>6, <2>5 DEF Ready
<1>8. Still(m, h)
  BY <1>7, KeepsStill
<1>9. Good(h) /\ h.cont = m.cont /\ View(h) = View(m)
  BY <1>8, KeepsGood
<1>10. me \in Stacks /\ s \in Stacks
  BY <1>1, OtherIs
<1>11. Depth(h, me) = Depth(m, me) /\ Depth(h, s) = Depth(m, s)
  BY <1>8, <1>10 DEF Still, SameShape
<1>12. FloorOf(h, me) + 1 <= Depth(h, me) /\ FloorOf(h, s) + 1 <= Depth(h, s)
  BY <1>5, <1>9, <1>11 DEF FloorOf
<1>13. PICK l : l = PopCell(PopCell(h, me), s)
  OBVIOUS
<1>14. Good(l) /\ l.cont = m.cont /\ View(l) = Shorter(Shorter(View(m), me, Depth(m, me) - 1), s, Depth(m, s) - 1)
  BY <1>1, <1>9, <1>11, <1>12, <1>13, PopTwoIs
<1>15. Arrives(l) /\ out' = <<"store", Holds(m, x), Holds(m, u)>>
  BY <1>4, <1>6, <1>7, <1>13
<1>16. Steps(View(l), l.cont, <<"store", Holds(m, x), Holds(m, u)>>)
  BY <1>14, <1>15, ArrivesIs
<1> QED BY <1>1, <1>2, <1>5, <1>14, <1>16

LEMMA BesideAlso ==
  ASSUME NEW k, Sane(k), NEW x \in Cells(k), NEW r \in Regs, Uses(k, r) = {x},
         NEW h, Keeps(k, h), Yields(k, h, {r}, Cells(k)),
         NEW C, C = Cells(k)
  PROVE  Uses(h, r) = {x} /\ h.reg[r] = k.reg[r]
<1>1. Sane(h) /\ Cells(h) = C /\ Holds(h, x) = Holds(k, x) /\ k \in Contexts
  BY SaneParts DEF Keeps
<1>2. \A v \in C : Cell(k, v).kind = "reg" /\ Cell(k, v).at = r <=> v = x
  BY UsesAre
<1>3. Cell(h, x) = Cell(k, x)
  BY <1>2 DEF Yields
<1>4. ASSUME NEW v \in C, v # x PROVE ~(Cell(h, v).kind = "reg" /\ Cell(h, v).at = r)
  <2>1. Cell(h, v) = Cell(k, v) \/ Cell(h, v) = Home(Spot(v))
    BY DEF Yields
  <2>2. v \in Stacks \X Int
    BY SaneParts
  <2>3. Home(Spot(v)).kind = "home"
    BY <1>1, <2>2, HomeIs
  <2> QED BY <1>2, <1>4, <2>1, <2>3
<1>5. \A v \in Cells(h) : v \in Uses(h, r) <=> v = x
  BY <1>1, <1>2, <1>3, <1>4, UsesAre
<1>6. Uses(h, r) = {x}
  <2>1. Uses(h, r) \subseteq Cells(h)
    BY <1>1, UsesAre
  <2> QED BY <1>1, <1>5, <2>1
<1>7. Holds(h, x) = h.reg[r] /\ Holds(k, x) = k.reg[r]
  BY <1>1, <1>6, UsesAre
<1> QED BY <1>1, <1>6, <1>7

LEMMA IndexIs ==
  ASSUME Good(m), stale' = "none", NEW me \in Operands, Index(me)
  PROVE  /\ Has(me, 1) /\ Has(Other(me), 1)
         /\ Steps(Shorter(Changed(View(m), me, Depth(m, me),
                                  Op(View(m)[me][Depth(m, me)], View(m)[Other(me)][Depth(m, Other(me))])),
                          Other(me), Depth(m, Other(me)) - 1), m.cont, Quiet)
<1>1. PICK s, x, u : s = Other(me) /\ x = TopOf(m, me) /\ u = TopOf(m, s)
  OBVIOUS
<1>2. Has(me, 1) /\ Has(s, 1)
  BY <1>1 DEF Index
<1>3. PICK a : /\ a = Writable(m, x)
               /\ Arrives(PopCell(Into(a, Materialized(a.m, Cell(m, u), {a.r})), s)) /\ out' = Quiet
               /\ Marks(Cell(a.m, u) # Cell(m, u), "operand")
  BY <1>1 DEF Index
<1>4. PICK h, r, d : h = a.m /\ r = a.r /\ d = Cell(m, u)
  OBVIOUS
<1>5. PICK o : o = Materialized(h, d, {r})
  OBVIOUS
<1>6. PICK i, q, j, l, n : i = o.m /\ q = o.r /\ j = Into(a, o) /\ l = PopCell(j, s) /\ n = Depth(m, s) - 1
  OBVIOUS
<1>7. Arrives(l) /\ out' = Quiet
  BY <1>3, <1>4, <1>5, <1>6
<1>8. /\ Sane(m) /\ x \in Cells(m) /\ u \in Cells(m) /\ x # u /\ x[1] = me /\ x[2] = Depth(m, me)
      /\ View(m)[me][Depth(m, me)] = Holds(m, x) /\ View(m)[s][Depth(m, s)] = Holds(m, u)
      /\ FloorOf(m, s) + 1 <= Depth(m, s)
  BY <1>1, <1>2, OperandsAre
<1>9. r \in Regs /\ Keeps(m, h) /\ h.reg[r] = Holds(m, x) /\ Uses(h, r) = {x}
  <2>0. Sane(m) /\ x \in Cells(m)
    BY <1>8
  <2>1. a = Writable(m, x)
    BY <1>3
  <2>2. a.r \in Regs /\ Keeps(m, a.m) /\ a.m.reg[a.r] = Holds(m, x) /\ Uses(a.m, a.r) = {x}
    BY <2>0, <2>1, WritableIs
  <2> QED BY <1>4, <2>2
<1>10. Cell(h, u) = d
  <2>1. Cell(a.m, u) = Cell(m, u)
    BY <1>3, UnmarkedIs
  <2> QED BY <1>4, <2>1
<1>11. Sane(h) /\ Cells(h) = Cells(m) /\ Holds(h, u) = Holds(m, u) /\ Still(m, h) /\ Holds(m, u) \in Values /\ Holds(m, x) \in Values
  BY <1>8, <1>9, KeepsStill, SaneParts DEF Keeps
<1>12. Known_(h, d) /\ Denote(h, d) = Holds(m, u)
  BY <1>8, <1>10, <1>11, CellIsKnown DEF Holds
<1>13. {r} \subseteq Regs /\ Regs \ {r} # {}
  BY <1>9, RegsAre
<1>14. Keeps(h, i) /\ i.reg[q] = Holds(m, u) /\ Yields(h, i, {r}, Cells(h))
  BY <1>5, <1>6, <1>11, <1>12, <1>13, MaterializedIs
<1>15. Uses(i, r) = {x} /\ i.reg[r] = Holds(m, x)
  <2>1. x \in Cells(h) /\ r \in Regs /\ Uses(h, r) = {x}
    BY <1>8, <1>9, <1>11
  <2>2. PICK C : C = Cells(h)
    OBVIOUS
  <2>3. Uses(i, r) = {x} /\ i.reg[r] = h.reg[r]
    BY <1>11, <1>14, <2>1, <2>2, BesideAlso
  <2> QED BY <1>9, <2>3
<1>16. Sane(i) /\ Still(m, i) /\ Cells(i) = Cells(m)
  BY <1>11, <1>14, KeepsStill, StillTwice DEF Still
<1>17. PICK y : y = Op(Holds(m, x), Holds(m, u))
  OBVIOUS
<1>18. y \in Values
  BY <1>11, <1>17, OpIs
<1>19. j = [i EXCEPT !.reg[r] = Op(@, i.reg[q])]
  BY <1>4, <1>6 DEF Into
<1>20. j = SetReg(i, r, y)
  BY <1>14, <1>15, <1>17, <1>19 DEF SetReg
<1>21. Turned(i, j, x, y)
  BY <1>8, <1>9, <1>15, <1>16, <1>18, <1>20, WriteIs
<1>22. Turned(m, j, x, y)
  BY <1>8, <1>16, <1>21, StillTurned
<1>23. Good(j) /\ j.cont = m.cont /\ Sane(j)
  BY <1>22, TurnedGood DEF Good
<1>24. s \in Stacks /\ FloorOf(m, s) \in Nat /\ Depth(m, s) \in Nat /\ 1 <= Depth(m, s)
  BY <1>1, <1>8, OtherIs, FloorsAre
<1>25. Depth(j, s) = Depth(m, s)
  BY <1>22, <1>24 DEF Turned, SameShape
<1>26. Cropped(j, l, s, n)
  BY <1>6, <1>23, <1>24, <1>25, PopIs
<1>27. FloorOf(j, s) <= n /\ n \in Nat
  <2>1. FloorOf(j, s) = FloorOf(m, s)
    BY <1>23 DEF FloorOf
  <2> QED BY <1>6, <1>8, <1>24, <2>1
<1>28. Good(l) /\ l.cont = m.cont
  BY <1>23, <1>24, <1>26, <1>27, CroppedGood
<1>29. View(l) = Shorter(Changed(View(m), me, Depth(m, me), Op(View(m)[me][Depth(m, me)], View(m)[s][Depth(m, s)])), s, n)
  BY <1>8, <1>17, <1>22, <1>26 DEF Turned, Cropped
<1> QED BY <1>1, <1>2, <1>6, <1>7, <1>28, <1>29, ArrivesIs

-----------------------------------------------------------------------------
(* Branches.                                                                 *)

Brought(k, d, mask, w) ==
  /\ Made(w) /\ w.r \in Regs /\ Keeps(k, w.m) /\ w.m.reg[w.r] = Denote(k, d)
  /\ \A q \in Regs : q # w.r => w.m.reg[q] = k.reg[q]
  /\ Yields(k, w.m, mask, Cells(k))
  /\ d.kind = "reg" => w.m = k /\ w.r = d.at
  /\ d.kind # "reg" => w.r \notin mask

LEMMA BroughtIs ==
  ASSUME NEW k, Sane(k), NEW d, Known_(k, d), NEW mask, Masks(mask), NEW w, w = Materialized(k, d, mask)
  PROVE  Brought(k, d, mask, w)
<1>1. mask \subseteq Regs /\ Regs \ mask # {}
  BY DEF Masks
<1>2. Made(w) /\ w.r \in Regs /\ Keeps(k, w.m) /\ w.m.reg[w.r] = Denote(k, d)
  BY <1>1, MaterializedIs
<1>3. \A q \in Regs : q # w.r => w.m.reg[q] = k.reg[q]
  BY <1>1, MaterializedIs
<1>4. Yields(k, w.m, mask, Cells(k))
  BY <1>1, MaterializedIs
<1>5. (d.kind = "reg" => w.m = k /\ w.r = d.at) /\ (d.kind # "reg" => w.r \notin mask)
  BY <1>1, MaterializedIs
<1> QED BY <1>2, <1>3, <1>4, <1>5 DEF Brought

\* Descriptors that are no longer those of a cell are still known.
LEMMA StillKnown ==
  ASSUME NEW k, Sane(k), NEW d, Known_(k, d), NEW j, Cells(j) = Cells(k), NEW mask, Yields(k, j, mask, Cells(k))
  PROVE  Known_(j, d)
<1>1. ASSUME d.kind = "home", NEW v \in Cells(k), Spot(v) = d.at PROVE Cell(j, v) = Home(d.at)
  <2>1. Cell(k, v) = Home(d.at)
    BY <1>1 DEF Known_
  <2>2. Cell(k, v).kind # "reg"
    BY <2>1 DEF Home
  <2> QED BY <2>1, <2>2 DEF Yields
<1> QED BY <1>1 DEF Known_

Compared(k, l, r, left, right) ==
  /\ Keeps(k, r.m) /\ l.r \in Regs /\ r.r \in Regs
  /\ r.m.reg[l.r] = Denote(k, left) /\ r.m.reg[r.r] = Denote(k, right)

LEMMA ComparedIs ==
  ASSUME NEW k, Sane(k), NEW left, Known_(k, left), NEW right, Known_(k, right),
         NEW l, l = Materialized(k, left, Live(right)), NEW r, r = Materialized(l.m, right, {l.r})
  PROVE  Compared(k, l, r, left, right)
<1>1. PICK mask : mask = Live(right)
  OBVIOUS
<1>2. Masks(mask) /\ (right.kind = "reg" => right.at \in mask)
  <2>1. right.kind = "reg" => right.at \in Regs
    BY DEF Known_
  <2> QED BY <1>1, <2>1, MasksAre DEF Live
<1>3. Brought(k, left, mask, l)
  BY <1>1, <1>2, BroughtIs
<1>4. PICK h, p : h = l.m /\ p = l.r
  OBVIOUS
<1>5. /\ p \in Regs /\ Keeps(k, h) /\ h.reg[p] = Denote(k, left) /\ Yields(k, h, mask, Cells(k))
      /\ \A q \in Regs : q # p => h.reg[q] = k.reg[q]
      /\ left.kind = "reg" => h = k
      /\ left.kind # "reg" => p \notin mask
  BY <1>3, <1>4 DEF Brought
<1>6. Sane(h) /\ Cells(h) = Cells(k)
  BY <1>5 DEF Keeps
<1>7. Known_(h, right)
  BY <1>5, <1>6, StillKnown
<1>8. Denote(h, right) = Denote(k, right)
  <2>1. CASE right.kind # "reg"
    BY <1>5, <2>1, StillStands
  <2>2. CASE right.kind = "reg"
    <3>1. right.at \in Regs /\ (h = k \/ right.at # p)
      BY <1>2, <1>5, <2>2 DEF Known_
    <3>2. h.reg[right.at] = k.reg[right.at]
      BY <1>5, <3>1
    <3> QED BY <2>2, <3>2, DenoteIs
  <2> QED BY <2>1, <2>2
<1>9. Masks({p})
  BY <1>5, MasksAre
<1>10. PICK one : one = {p}
  OBVIOUS
<1>11. r = Materialized(h, right, one) /\ Masks(one)
  BY <1>4, <1>9, <1>10
<1>12. Brought(h, right, one, r)
  BY <1>6, <1>7, <1>11, BroughtIs
<1>13. /\ r.r \in Regs /\ Keeps(h, r.m) /\ r.m.reg[r.r] = Denote(h, right)
       /\ \A q \in Regs : q # r.r => r.m.reg[q] = h.reg[q]
       /\ right.kind = "reg" => r.m = h
       /\ right.kind # "reg" => r.r \notin one
  BY <1>12 DEF Brought
<1>14. r.m.reg[p] = h.reg[p]
  BY <1>5, <1>10, <1>13
<1>15. Keeps(k, r.m)
  BY <1>5, <1>13, KeepsTwice
<1> QED BY <1>4, <1>5, <1>8, <1>13, <1>14, <1>15 DEF Compared

\* Cells that are placed and stand for what they did.
LEMMA RecastIs ==
  ASSUME NEW k, Sane(k), NEW j, j \in Contexts, SameShape(k, j), Cells(j) = Cells(k),
         \A u \in Cells(k) : Placed(Cell(j, u), u) /\ Holds(j, u) = Holds(k, u)
  PROVE  Still(k, j)
<1>1. Sane(j)
  BY DEF Sane
<1> QED BY <1>1 DEF Still

LEMMA HoldsIs ==
  ASSUME NEW k, NEW u
  PROVE  /\ Cell(k, u).kind = "reg" => Holds(k, u) = k.reg[Cell(k, u).at]
         /\ Cell(k, u).kind = "home" => Holds(k, u) = Read(k, Cell(k, u).at)
BY DenoteIs DEF Holds

\* Where nothing is known, an edge only stores.
Plain(k, j) ==
  /\ Keeps(k, j) /\ j.reg = k.reg
  /\ \A v \in Cells(k) : Cell(j, v) = Cell(k, v) \/ Cell(j, v) = Home(Spot(v))

LEMMA PlainEdge == ASSUME NEW k, Sane(k), ~Known(k), NEW e, NEW j, j = Edge(k, e) PROVE Plain(k, j)
<1>1. PICK i : i = Weakened(k)
  OBVIOUS
<1>2. i = k
  BY <1>1, WeakenedIs
<1>3. j = Capped(k, e.full)
  BY <1>1, <1>2 DEF Edge
<1>4. CASE ~e.full
  <2>1. j = k
    BY <1>3, <1>4 DEF Capped
  <2> QED BY <2>1, KeepsSelf DEF Plain
<1>5. CASE e.full
  <2>1. j = Conformed(k)
    BY <1>3, <1>5 DEF Capped
  <2>2. \A v \in Cells(k) : Cell(k, v).kind # "const"
    BY DEF Known
  <2>3. Keeps(k, j) /\ j.reg = k.reg /\ \A v \in Cells(k) : Cell(j, v) = Home(Spot(v))
    BY <2>1, <2>2, ConformedIs
  <2> QED BY <2>3 DEF Plain
<1> QED BY <1>4, <1>5

LEMMA QuietEdge ==
  ASSUME NEW k, Sane(k), NEW e, ~EmitsCode(k, e), NEW j, j = Edge(k, e) PROVE j = k
<1>1. e.backward => ~Known(k)
  BY DEF EmitsCode
<1> QED BY <1>1, EdgeIs

Stores(k, two, l) == two.reg = k.reg /\ Still(k, two) /\ Still(k, l)

\* Where every cell is in a register or at home, both arms may store first.
LEMMA ArmsStore ==
  ASSUME NEW k, Sane(k), SpillsOnly(k), NEW taken, NEW fallthrough,
         NEW one, one = Edge(k, taken),
         NEW i, i = [k EXCEPT !.reg = one.reg, !.mem = one.mem],
         NEW two, two = Edge(i, fallthrough),
         NEW l, l = [two EXCEPT !.cell = one.cell]
  PROVE  Stores(k, two, l)
<1>1. ~Known(k) /\ \A u \in Cells(k) : Cell(k, u).kind = "reg" \/ Cell(k, u).kind = "home"
  BY DEF SpillsOnly, Known
<1>2. /\ Keeps(k, one) /\ one.reg = k.reg
      /\ \A v \in Cells(k) : Cell(one, v) = Cell(k, v) \/ Cell(one, v) = Home(Spot(v))
  BY <1>1, PlainEdge DEF Plain
<1>3. k \in Contexts /\ one \in Contexts /\ Sane(one) /\ SameShape(k, one) /\ Cells(one) = Cells(k)
  BY <1>2, SaneParts DEF Keeps
<1>4. /\ i = [k EXCEPT !.mem = one.mem]
      /\ i \in Contexts /\ i.cell = k.cell /\ i.reg = k.reg /\ i.mem = one.mem /\ i.cont = k.cont
  <2>1. i = [k EXCEPT !.mem = one.mem]
    BY <1>2, <1>3 DEF Contexts
  <2>2. one.mem \in Memories
    BY <1>3, ContextParts
  <2> QED BY <1>3, <2>1, <2>2 DEF Contexts
<1>5. SameShape(k, i) /\ Cells(i) = Cells(k) /\ \A v : Cell(i, v) = Cell(k, v)
  BY <1>4 DEF SameShape, Cells, Cell, Depth
<1>6. \A p : Read(i, p) = Read(one, p)
  BY <1>4 DEF Read
<1>7. ASSUME NEW u \in Cells(k) PROVE Placed(Cell(i, u), u) /\ Holds(i, u) = Holds(k, u)
  <2>1. Placed(Cell(k, u), u) /\ u \in Stacks \X Int
    BY SaneParts
  <2>2. CASE Cell(k, u).kind = "reg"
    <3>1. Holds(k, u) = k.reg[Cell(k, u).at]
      BY <2>2, HoldsIs
    <3>2. Holds(i, u) = i.reg[Cell(i, u).at]
      BY <1>5, <2>2, HoldsIs
    <3> QED BY <1>4, <1>5, <2>1, <3>1, <3>2
  <2>3. CASE Cell(k, u).kind = "home"
    <3>1. Cell(k, u).at = Spot(u)
      BY <2>1, <2>3, PlacedIs
    <3>2. Holds(k, u) = Read(k, Spot(u)) /\ Holds(i, u) = Read(one, Spot(u))
      BY <1>5, <1>6, <2>3, <3>1, DenoteIs DEF Holds
    <3>3. \A v \in Cells(k) : Spot(v) = Spot(u) => v = u
      BY <1>3, <2>1, SpotIs
    <3>4. Read(one, Spot(u)) = Read(k, Spot(u)) \/ \E v \in Cells(k) : Spot(u) = Spot(v) /\ Read(one, Spot(u)) = Holds(k, v)
      BY <1>2 DEF Keeps
    <3> QED BY <1>5, <2>1, <3>2, <3>3, <3>4
  <2> QED BY <1>1, <2>2, <2>3
<1>8. Still(k, i) /\ Sane(i)
  BY <1>4, <1>5, <1>7, RecastIs DEF Still
<1>9. ~Known(i)
  BY <1>1, <1>5 DEF Known
<1>10. /\ Keeps(i, two) /\ two.reg = i.reg
       /\ \A v \in Cells(i) : Cell(two, v) = Cell(i, v) \/ Cell(two, v) = Home(Spot(v))
  <2>1. Plain(i, two)
    BY <1>8, <1>9, PlainEdge
  <2> QED BY <2>1 DEF Plain
<1>11. two.reg = k.reg /\ Still(k, two) /\ Sane(two) /\ two \in Contexts /\ SameShape(k, two) /\ Cells(two) = Cells(k)
  BY <1>4, <1>8, <1>10, KeepsStill, StillTwice, SaneParts DEF Still
<1>12. l \in Contexts /\ l.cell = one.cell /\ l.reg = k.reg /\ l.mem = two.mem /\ l.cont = two.cont
  <2>1. one.cell \in [Stacks -> Seq(Descs)]
    BY <1>3, ContextParts
  <2> QED BY <1>11, <2>1 DEF Contexts
<1>13. SameShape(k, l) /\ Cells(l) = Cells(k) /\ \A v : Cell(l, v) = Cell(one, v)
  <2>1. \A s : Depth(l, s) = Depth(one, s)
    BY <1>12 DEF Depth
  <2>2. Cells(l) = Cells(one) /\ \A v : Cell(l, v) = Cell(one, v)
    BY <1>12 DEF Cells, Cell, Depth
  <2> QED BY <1>3, <1>11, <1>12, <2>1, <2>2 DEF SameShape
<1>14. ASSUME NEW u \in Cells(k) PROVE Placed(Cell(l, u), u) /\ Holds(l, u) = Holds(k, u)
  <2>1. Placed(Cell(one, u), u) /\ u \in Stacks \X Int /\ Holds(one, u) = Holds(k, u) /\ Placed(Cell(l, u), u)
    BY <1>2, <1>3, <1>13, SaneParts DEF Keeps
  <2>2. CASE Cell(one, u).kind = "reg"
    <3>1. Holds(l, u) = l.reg[Cell(one, u).at] /\ Holds(one, u) = one.reg[Cell(one, u).at]
      <4>1. Cell(l, u) = Cell(one, u)
        BY <1>13
      <4>2. Holds(one, u) = one.reg[Cell(one, u).at]
        BY <2>2, HoldsIs
      <4>3. Holds(l, u) = l.reg[Cell(l, u).at]
        <5>1. \A h : Cell(h, u).kind = "reg" => Holds(h, u) = h.reg[Cell(h, u).at]
          BY HoldsIs
        <5>2. Cell(l, u).kind = "reg"
          BY <2>2, <4>1
        <5> QED BY <5>1, <5>2, Zenon
      <4> QED BY <4>1, <4>2, <4>3
    <3> QED BY <1>2, <1>12, <2>1, <3>1
  <2>3. CASE Cell(one, u).kind = "home"
    <3>1. Cell(one, u).at = Spot(u)
      BY <2>1, <2>3, PlacedIs
    <3>2. Holds(one, u) = Read(one, Spot(u)) /\ Holds(l, u) = Read(l, Spot(u))
      BY <1>13, <2>3, <3>1, DenoteIs DEF Holds
    <3>3. Read(l, Spot(u)) = Read(two, Spot(u))
      BY <1>12 DEF Read
    <3>4. \A v \in Cells(k) : Spot(v) = Spot(u) => v = u
      BY <1>3, <2>1, SpotIs
    <3>5. Read(two, Spot(u)) = Read(i, Spot(u)) \/ \E v \in Cells(i) : Spot(u) = Spot(v) /\ Read(two, Spot(u)) = Holds(i, v)
      BY <1>10 DEF Keeps
    <3>6. Read(two, Spot(u)) = Read(one, Spot(u)) \/ Read(two, Spot(u)) = Holds(k, u)
      BY <1>5, <1>6, <1>7, <3>4, <3>5
    <3> QED BY <2>1, <3>2, <3>3, <3>6
  <2>4. Cell(one, u).kind # "const"
    <3>1. Home(Spot(u)).kind = "home"
      BY DEF Home
    <3> QED BY <1>1, <1>2, <3>1
  <2> QED BY <2>1, <2>2, <2>3, <2>4, PlacedIs
<1>15. Still(k, l)
  BY <1>12, <1>13, <1>14, RecastIs
<1> QED BY <1>11, <1>15 DEF Stores

LEMMA BranchedIs ==
  ASSUME NEW k, Good(k), NEW p \in Regs, NEW q \in Regs, NEW taken, NEW fallthrough,
         Branched(k, p, q, taken, fallthrough)
  PROVE  Steps(View(k), k.cont, <<"branch", k.reg[p] = k.reg[q]>>)
<1>0. Sane(k) /\ k \in Contexts
  BY GoodParts
<1>1. CASE Early(k, taken, fallthrough)
  <2>1. PICK b : /\ b = Arms(k, Edge(k, taken), fallthrough)
                 /\ LET goes == b.two.reg[p] = b.two.reg[q]
                    IN  /\ Takes(IF goes THEN [b.two EXCEPT !.cell = b.one.cell] ELSE b.two)
                        /\ out' = <<"branch", goes>>
    BY <1>1 DEF Branched
  <2>2. PICK one : one = Edge(k, taken)
    OBVIOUS
  <2>3. PICK i : i = [k EXCEPT !.reg = one.reg, !.mem = one.mem]
    OBVIOUS
  <2>4. PICK two : two = Edge(i, fallthrough)
    OBVIOUS
  <2>5. PICK l : l = [two EXCEPT !.cell = one.cell]
    OBVIOUS
  <2>6. b.one = one /\ b.two = two
    BY <2>1, <2>2, <2>3, <2>4 DEF Arms
  <2>7. two.reg = k.reg /\ Still(k, two) /\ Still(k, l)
    <3>1. CASE SpillsOnly(k)
      <4>1. Stores(k, two, l)
        BY <1>0, <2>2, <2>3, <2>4, <2>5, <3>1, ArmsStore
      <4> QED BY <4>1 DEF Stores
    <3>2. CASE ~(EmitsCode(k, taken) \/ EmitsCode(k, fallthrough))
      <4>1. one = k
        BY <1>0, <2>2, <3>2, QuietEdge
      <4>2. i = k
        BY <1>0, <2>3, <4>1 DEF Contexts
      <4>3. two = k
        BY <1>0, <2>4, <3>2, <4>2, QuietEdge
      <4>4. l = k
        BY <1>0, <2>5, <4>1, <4>3 DEF Contexts
      <4>5. Still(k, k)
        BY <1>0, KeepsSelf, KeepsStill
      <4> QED BY <4>3, <4>4, <4>5
    <3> QED BY <1>1, <3>1, <3>2 DEF Early
  <2>8. PICK j : j = IF two.reg[p] = two.reg[q] THEN l ELSE two
    OBVIOUS
  <2>9. Takes(j) /\ out' = <<"branch", k.reg[p] = k.reg[q]>>
    BY <2>1, <2>5, <2>6, <2>7, <2>8
  <2>10. Still(k, j)
    BY <2>7, <2>8
  <2>11. Good(j) /\ j.cont = k.cont /\ View(j) = View(k)
    BY <2>10, KeepsGood
  <2>12. Steps(View(j), j.cont, <<"branch", k.reg[p] = k.reg[q]>>)
    BY <2>9, <2>11, TakesIs
  <2> QED BY <2>11, <2>12
<1>2. CASE ~Early(k, taken, fallthrough)
  <2>1. PICK e : e = IF k.reg[p] = k.reg[q] THEN taken ELSE fallthrough
    OBVIOUS
  <2>2. PICK j : j = Edge(k, e)
    OBVIOUS
  <2>3. Takes(j) /\ out' = <<"branch", k.reg[p] = k.reg[q]>>
    BY <1>2, <2>1, <2>2 DEF Branched
  <2>4. Still(k, j)
    BY <1>0, <2>2, EdgeIs, KeepsStill
  <2>5. Good(j) /\ j.cont = k.cont /\ View(j) = View(k)
    BY <2>4, KeepsGood
  <2>6. Steps(View(j), j.cont, <<"branch", k.reg[p] = k.reg[q]>>)
    BY <2>3, <2>5, TakesIs
  <2> QED BY <2>5, <2>6
<1> QED BY <1>1, <1>2

LEMMA DecidedIs ==
  ASSUME NEW k, Good(k), NEW left, Known_(k, left), NEW right, Known_(k, right), Decided(k, left, right)
  PROVE  Steps(View(k), k.cont, <<"branch", Denote(k, left) = Denote(k, right)>>)
<1>0. Sane(k)
  BY GoodParts
<1>1. PICK taken, fallthrough :
        IF left.kind = "const" /\ right.kind = "const"
        THEN LET goes == left.at = right.at
             IN  Takes(Edge(k, IF goes THEN taken ELSE fallthrough)) /\ out' = <<"branch", goes>>
        ELSE \E l \in {Materialized(k, left, Live(right))} :
             \E r \in {Materialized(l.m, right, {l.r})} : Branched(r.m, l.r, r.r, taken, fallthrough)
  BY DEF Decided
<1>2. CASE left.kind = "const" /\ right.kind = "const"
  <2>1. Denote(k, left) = left.at /\ Denote(k, right) = right.at
    BY <1>2, DenoteIs
  <2>2. PICK e : e = IF left.at = right.at THEN taken ELSE fallthrough
    OBVIOUS
  <2>3. PICK j : j = Edge(k, e)
    OBVIOUS
  <2>4. Takes(j) /\ out' = <<"branch", left.at = right.at>>
    BY <1>1, <1>2, <2>2, <2>3
  <2>5. Still(k, j)
    BY <1>0, <2>3, EdgeIs, KeepsStill
  <2>6. Good(j) /\ j.cont = k.cont /\ View(j) = View(k)
    BY <2>5, KeepsGood
  <2>7. Steps(View(j), j.cont, <<"branch", left.at = right.at>>)
    BY <2>4, <2>6, TakesIs
  <2> QED BY <2>1, <2>6, <2>7
<1>3. CASE ~(left.kind = "const" /\ right.kind = "const")
  <2>1. PICK l : /\ l = Materialized(k, left, Live(right))
                 /\ \E r \in {Materialized(l.m, right, {l.r})} : Branched(r.m, l.r, r.r, taken, fallthrough)
    BY <1>1, <1>3
  <2>2. PICK r : r = Materialized(l.m, right, {l.r}) /\ Branched(r.m, l.r, r.r, taken, fallthrough)
    BY <2>1
  <2>3. Compared(k, l, r, left, right)
    BY <1>0, <2>1, <2>2, ComparedIs
  <2>4. PICK h, p, q : h = r.m /\ p = l.r /\ q = r.r
    OBVIOUS
  <2>5. Keeps(k, h) /\ p \in Regs /\ q \in Regs /\ h.reg[p] = Denote(k, left) /\ h.reg[q] = Denote(k, right)
    BY <2>3, <2>4 DEF Compared
  <2>6. Still(k, h)
    BY <2>5, KeepsStill
  <2>7. Good(h) /\ h.cont = k.cont /\ View(h) = View(k)
    BY <2>6, KeepsGood
  <2>8. Branched(h, p, q, taken, fallthrough)
    BY <2>2, <2>4
  <2>9. Steps(View(h), h.cont, <<"branch", h.reg[p] = h.reg[q]>>)
    BY <2>5, <2>7, <2>8, BranchedIs
  <2> QED BY <2>5, <2>7, <2>9
<1> QED BY <1>2, <1>3

LEMMA BranchIs ==
  ASSUME Good(m), NEW me \in Operands, Branch(me)
  PROVE  /\ Has(me, 1) /\ Has(Other(me), 1)
         /\ Steps(Shorter(Shorter(View(m), me, Depth(m, me) - 1), Other(me), Depth(m, Other(me)) - 1), m.cont,
                  <<"branch", View(m)[me][Depth(m, me)] = View(m)[Other(me)][Depth(m, Other(me))]>>)
<1>1. PICK s, x, u : s = Other(me) /\ x = TopOf(m, me) /\ u = TopOf(m, s)
  OBVIOUS
<1>2. PICK k, left, right : k = PopCell(PopCell(m, me), s) /\ left = Cell(m, x) /\ right = Cell(m, u)
  OBVIOUS
<1>3. Has(me, 1) /\ Has(s, 1) /\ Decided(k, left, right)
  BY <1>1, <1>2 DEF Branch
<1>4. /\ Sane(m) /\ x \in Cells(m) /\ u \in Cells(m)
      /\ View(m)[me][Depth(m, me)] = Holds(m, x) /\ View(m)[s][Depth(m, s)] = Holds(m, u)
      /\ FloorOf(m, me) + 1 <= Depth(m, me) /\ FloorOf(m, s) + 1 <= Depth(m, s)
  BY <1>1, <1>3, OperandsAre
<1>5. /\ Good(k) /\ k.cont = m.cont /\ k.reg = m.reg /\ k.mem = m.mem
      /\ View(k) = Shorter(Shorter(View(m), me, Depth(m, me) - 1), s, Depth(m, s) - 1)
      /\ x \notin Cells(k) /\ u \notin Cells(k)
  BY <1>1, <1>2, <1>4, PopTwoIs
<1>6. Sane(k) /\ k \in Contexts
  BY <1>5, GoodParts
<1>7. ASSUME NEW y \in Cells(m), y \notin Cells(k), NEW d, d = Cell(m, y)
      PROVE  Known_(k, d) /\ Denote(k, d) = Holds(m, y)
  <2>1. Known_(m, d) /\ y \in Stacks \X Int
    BY <1>4, <1>7, CellIsKnown, SaneParts
  <2>2. d.kind = "home" => \A v \in Cells(k) : Spot(v) # d.at
    <3>1. d.kind = "home" => d.at = Spot(y)
      BY <1>4, <1>7, <2>1, SaneParts, PlacedIs
    <3>2. \A v \in Cells(k) : Spot(v) # Spot(y)
      BY <1>6, <1>7, <2>1, SpotIs
    <3> QED BY <3>1, <3>2
  <2>3. Known_(k, d)
    BY <2>1, <2>2 DEF Known_
  <2>4. Denote(k, d) = Denote(m, d)
    BY <1>5 DEF Denote, Read
  <2> QED BY <1>7, <2>3, <2>4 DEF Holds
<1>8. Known_(k, left) /\ Known_(k, right) /\ Denote(k, left) = Holds(m, x) /\ Denote(k, right) = Holds(m, u)
  BY <1>2, <1>4, <1>5, <1>7
<1>9. Steps(View(k), k.cont, <<"branch", Denote(k, left) = Denote(k, right)>>)
  BY <1>3, <1>5, <1>8, DecidedIs
<1> QED BY <1>1, <1>3, <1>4, <1>5, <1>8, <1>9

-----------------------------------------------------------------------------
(* Entering a callee.                                                        *)

LEMMA CountIs == ASSUME NEW n \in Nat PROVE Len(Count(n)) = n /\ \A i \in 1 .. n : Count(n)[i] = i
BY DEF Count

HandedOver(k, me, n) == Over(LAMBDA g, i : Transferred(g, me, "C", TRUE), k, Count(n))

LEMMA EnterWay ==
  ASSUME NEW k, NEW me, NEW l, NEW us, us = Count(l), NEW n \in Nat, n = Len(us)
  PROVE  \E g : HandedOver(k, me, l) = g[n] /\ g[0] = k /\ \A i \in 1 .. n : g[i] = EnterOne(g[i - 1], me)
<1> DEFINE G(h) == h = [i \in 0 .. Len(us) |-> IF i = 0 THEN k ELSE EnterOne(h[i - 1], me)]
<1>1. HandedOver(k, me, l) = (CHOOSE h : G(h))[Len(us)]
  BY DEF Over, HandedOver, EnterOne
<1>2. \E h : G(h)
  <2>1. PICK f : Way(f, <<"enter", me>>, k, us, n)
    BY WayExists
  <2>2. \A i \in 1 .. n : f[i] = EnterOne(f[i - 1], me)
    BY <2>1 DEF Way, Doing
  <2>3. PICK h : h = [i \in 0 .. n |-> f[i]]
    OBVIOUS
  <2>4. \A i \in 1 .. n : i \in 0 .. n /\ i - 1 \in 0 .. n /\ i # 0
    OBVIOUS
  <2>5. h = [i \in 0 .. n |-> IF i = 0 THEN k ELSE EnterOne(h[i - 1], me)]
    <3>1. f[0] = k
      BY <2>1 DEF Way
    <3>2. \A i \in 0 .. n : i = 0 \/ i \in 1 .. n
      OBVIOUS
    <3>3. \A i \in 0 .. n : h[i] = IF i = 0 THEN k ELSE EnterOne(h[i - 1], me)
      BY <2>2, <2>3, <2>4, <3>1, <3>2
    <3>4. h = [i \in 0 .. n |-> h[i]]
      BY <2>3
    <3> QED BY <3>3, <3>4
  <2> QED BY <2>5
<1>3. PICK g : g = CHOOSE h : G(h)
  OBVIOUS
<1>4. G(g)
  BY <1>2, <1>3
<1>5. g = [i \in 0 .. n |-> IF i = 0 THEN k ELSE EnterOne(g[i - 1], me)]
  BY <1>4
<1>6. 0 \in 0 .. n /\ n \in 0 .. n /\ \A i \in 1 .. n : i \in 0 .. n /\ i # 0
  OBVIOUS
<1>7. g[0] = k /\ \A i \in 1 .. n : g[i] = EnterOne(g[i - 1], me)
  BY <1>5, <1>6
<1>8. HandedOver(k, me, l) = g[n]
  BY <1>1, <1>3
<1> QED BY <1>7, <1>8

\* i elements of the stack `me` have gone from p to C, the last one first.
Gave(p, q, me, i) ==
  /\ q \in [Stacks -> Seq(Values)] /\ q[Other(me)] = p[Other(me)]
  /\ Len(q[me]) = Len(p[me]) - i /\ Len(q["C"]) = Len(p["C"]) + i
  /\ \A j \in Nat : j >= 1 /\ j <= Len(p[me]) - i => q[me][j] = p[me][j]
  /\ \A j \in Nat : j >= 1 /\ j <= Len(p["C"]) => q["C"][j] = p["C"][j]
  /\ \A j \in Nat : j >= 1 /\ j <= i => q["C"][Len(p["C"]) + j] = p[me][Len(p[me]) + 1 - j]

LEMMA GaveStep ==
  ASSUME NEW p \in [Stacks -> Seq(Values)], NEW me \in Operands, NEW i \in Nat, i + 1 <= Len(p[me]),
         NEW q, Gave(p, q, me, i)
  PROVE  Gave(p, Longer(Shorter(q, me, Len(q[me]) - 1), "C", q[me][Len(q[me])]), me, i + 1)
<1>0. PICK t, v, z : t = Shorter(q, me, Len(q[me]) - 1) /\ v = q[me][Len(q[me])] /\ z = Longer(t, "C", v)
  OBVIOUS
<1>1. me \in Stacks /\ "C" \in Stacks /\ me # "C" /\ Other(me) \in Stacks /\ Other(me) # me /\ Other(me) # "C"
  BY OtherIs DEF Stacks
<1>2. PICK a, c : a = Len(p[me]) /\ c = Len(p["C"])
  OBVIOUS
<1>15. a \in Nat /\ c \in Nat /\ i + 1 <= a
  <2>1. p[me] \in Seq(Values) /\ p["C"] \in Seq(Values)
    BY <1>1
  <2> QED BY <1>2, <2>1
<1>16. PICK l : l = a - i - 1
  OBVIOUS
<1>3. l \in Nat /\ a \in Nat /\ c \in Nat /\ a = l + i + 1
  BY <1>15, <1>16
<1>4. /\ q \in [Stacks -> Seq(Values)] /\ q[Other(me)] = p[Other(me)] /\ Len(q[me]) = l + 1 /\ Len(q["C"]) = c + i
      /\ \A j \in Nat : j >= 1 /\ j <= l + 1 => q[me][j] = p[me][j]
      /\ \A j \in Nat : j >= 1 /\ j <= c => q["C"][j] = p["C"][j]
      /\ \A j \in Nat : j >= 1 /\ j <= i => q["C"][c + j] = p[me][a + 1 - j]
  <2>1. a - i = l + 1
    BY <1>3
  <2> QED BY <1>2, <2>1 DEF Gave
<1>5. q[me] \in Seq(Values) /\ q["C"] \in Seq(Values)
  BY <1>1, <1>4
<1>6. Len(q[me]) - 1 = l /\ l <= Len(q[me]) /\ v = q[me][l + 1] /\ v \in Values
  <2>1. l + 1 \in 1 .. Len(q[me])
    BY <1>3, <1>4
  <2>2. v = q[me][l + 1]
    BY <1>0, <1>4
  <2>3. q[me][l + 1] \in Values
    BY <1>5, <2>1
  <2>4. Len(q[me]) - 1 = l /\ l <= Len(q[me])
    BY <1>3, <1>4
  <2> QED BY <2>2, <2>3, <2>4
<1>7. v = p[me][a + 1 - (i + 1)]
  <2>1. a + 1 - (i + 1) = l + 1 /\ l + 1 \in Nat /\ l + 1 >= 1
    BY <1>3
  <2>2. q[me][l + 1] = p[me][l + 1]
    BY <1>3, <1>4, <2>1
  <2>3. v = q[me][l + 1]
    BY <1>6
  <2> QED BY <2>1, <2>2, <2>3
<1>8. /\ t \in [Stacks -> Seq(Values)] /\ \A s \in Stacks : s # me => t[s] = q[s]
      /\ Len(t[me]) = l /\ \A j \in 1 .. l : t[me][j] = q[me][j]
  <2>1. t = Shorter(q, me, l) /\ l \in Nat /\ l <= Len(q[me])
    BY <1>0, <1>3, <1>6
  <2>2. Family(q)
    BY <1>4 DEF Family
  <2>3. Shortens(q, t, me, l)
    BY <1>1, <2>1, <2>2, ShorterIs
  <2> QED BY <2>3 DEF Shortens, Family
<1>9. /\ z \in [Stacks -> Seq(Values)] /\ \A s \in Stacks : s # "C" => z[s] = t[s]
      /\ Len(z["C"]) = Len(t["C"]) + 1 /\ z["C"][Len(t["C"]) + 1] = v
      /\ \A j \in 1 .. Len(t["C"]) : z["C"][j] = t["C"][j]
  <2>1. Family(t) /\ "C" \in Stacks /\ v \in Values /\ z = Longer(t, "C", v)
    BY <1>0, <1>1, <1>6, <1>8 DEF Family
  <2>2. Lengthens(t, z, "C", v)
    BY <2>1, LongerIs
  <2> QED BY <2>2 DEF Lengthens, Family
<1>17. PICK b : b = c + i
  OBVIOUS
<1>18. /\ b \in Nat /\ Len(q["C"]) = b /\ Len(z["C"]) = b + 1 /\ z["C"][b + 1] = v
       /\ \A j \in 1 .. b : z["C"][j] = q["C"][j]
  <2>1. t["C"] = q["C"]
    BY <1>1, <1>8
  <2>2. b \in Nat /\ Len(q["C"]) = b
    BY <1>3, <1>4, <1>17
  <2> QED BY <1>9, <2>1, <2>2
<1>10. t["C"] = q["C"] /\ z[me] = t[me] /\ z[Other(me)] = p[Other(me)]
  BY <1>1, <1>4, <1>8, <1>9
<1>11. Len(z[me]) = a - (i + 1) /\ Len(z["C"]) = c + (i + 1)
  <2>1. Len(z[me]) = l /\ Len(z["C"]) = b + 1
    BY <1>8, <1>10, <1>18
  <2>2. l = a - (i + 1) /\ b + 1 = c + (i + 1)
    BY <1>3, <1>17
  <2> QED BY <2>1, <2>2
<1>12. \A j \in Nat : j >= 1 /\ j <= a - (i + 1) => z[me][j] = p[me][j]
  <2>1. \A j \in Nat : j >= 1 /\ j <= a - (i + 1) => j \in 1 .. l /\ j <= l + 1
    BY <1>3
  <2>2. \A j \in 1 .. l : z[me][j] = q[me][j]
    BY <1>8, <1>10
  <2> QED BY <1>4, <2>1, <2>2
<1>13. \A j \in Nat : j >= 1 /\ j <= c => z["C"][j] = p["C"][j]
  <2>1. \A j \in Nat : j >= 1 /\ j <= c => j \in 1 .. b
    BY <1>3, <1>17
  <2> QED BY <1>4, <1>18, <2>1
<1>14. ASSUME NEW j \in Nat, j >= 1, j <= i + 1 PROVE z["C"][c + j] = p[me][a + 1 - j]
  <2>1. CASE j = i + 1
    <3>1. c + j = b + 1
      BY <1>3, <1>17, <2>1
    <3> QED BY <1>7, <1>18, <2>1, <3>1
  <2>2. CASE j # i + 1
    <3>1. j <= i /\ c + j \in 1 .. b
      BY <1>3, <1>14, <1>17, <2>2
    <3> QED BY <1>4, <1>14, <1>18, <3>1
  <2> QED BY <2>1, <2>2
<1>19. Gave(p, z, me, i + 1)
  BY <1>2, <1>9, <1>10, <1>11, <1>12, <1>13, <1>14 DEF Gave
<1> QED BY <1>0, <1>19

Handover(st, me, n) ==
  [st EXCEPT ![me] = SubSeq(st[me], 1, Len(st[me]) - n),
             !["C"] = st["C"] \o A!Reversed(SubSeq(st[me], Len(st[me]) - n + 1, Len(st[me])))]

LEMMA HandoverIs ==
  ASSUME NEW p \in [Stacks -> Seq(Values)], NEW me \in Operands, NEW n \in Nat, n <= Len(p[me]),
         NEW q, q = Handover(p, me, n)
  PROVE  Gave(p, q, me, n)
<1>1. me \in Stacks /\ "C" \in Stacks /\ me # "C" /\ Other(me) \in Stacks /\ Other(me) # me /\ Other(me) # "C"
  BY OtherIs DEF Stacks
<1>2. PICK x, y, a, c : x = p[me] /\ y = p["C"] /\ a = Len(x) /\ c = Len(y)
  OBVIOUS
<1>3. x \in Seq(Values) /\ y \in Seq(Values) /\ a \in Nat /\ c \in Nat /\ n <= a
  <2>1. x \in Seq(Values) /\ y \in Seq(Values)
    BY <1>1, <1>2
  <2> QED BY <1>2, <2>1
<1>4. PICK low, top, back, full : /\ low = SubSeq(x, 1, a - n) /\ top = SubSeq(x, a - n + 1, a)
                                  /\ back = A!Reversed(top) /\ full = y \o back
  OBVIOUS
<1>5. low \in Seq(Values) /\ Len(low) = a - n /\ \A j \in Nat : j >= 1 /\ j <= a - n => low[j] = x[j]
  <2>1. a - n \in Nat /\ a - n <= a
    BY <1>3
  <2>2. PICK b : b = a - n
    OBVIOUS
  <2>3. low = SubSeq(x, 1, b) /\ b \in Nat /\ b <= Len(x)
    BY <1>2, <1>4, <2>1, <2>2
  <2>4. low \in Seq(Values) /\ Len(low) = b /\ \A j \in 1 .. b : low[j] = x[j]
    BY <1>3, <2>3
  <2> QED BY <2>2, <2>3, <2>4
<1>6. top \in Seq(Values) /\ Len(top) = n /\ \A j \in Nat : j >= 1 /\ j <= n => top[j] = x[a - n + j]
  <2>1. PICK b : b = a - n + 1
    OBVIOUS
  <2>2. b \in Nat /\ b >= 1 /\ b <= a + 1 /\ a - b + 1 = n /\ \A j \in Nat : b + j - 1 = a - n + j
    BY <1>3, <2>1
  <2>3. top = SubSeq(x, b, Len(x)) /\ a = Len(x)
    BY <1>2, <1>4, <2>1
  <2>4. top = [j \in 1 .. a - b + 1 |-> x[b + j - 1]]
    BY <1>3, <2>2, <2>3
  <2>5. \A j \in 1 .. n : b + j - 1 \in 1 .. Len(x)
    BY <1>2, <1>3, <2>1
  <2>6. top \in Seq(Values) /\ Len(top) = n
    <3>1. a - b + 1 = n
      BY <2>2
    <3>2. top = [j \in 1 .. n |-> x[b + j - 1]]
      BY <2>4, <3>1
    <3>3. \A j \in 1 .. n : x[b + j - 1] \in Values
      BY <1>3, <2>5
    <3> QED BY <3>2, <3>3
  <2>7. ASSUME NEW j \in Nat, j >= 1, j <= n PROVE top[j] = x[a - n + j]
    <3>1. a - b + 1 = n /\ b + j - 1 = a - n + j
      BY <2>2
    <3>2. j \in 1 .. a - b + 1
      BY <2>7, <3>1
    <3>3. top[j] = x[b + j - 1]
      BY <2>4, <3>2
    <3> QED BY <3>1, <3>3
  <2> QED BY <2>6, <2>7
<1>7. back \in Seq(Values) /\ Len(back) = n /\ \A j \in Nat : j >= 1 /\ j <= n => back[j] = x[a + 1 - j]
  <2>1. back = [j \in 1 .. n |-> top[n + 1 - j]]
    BY <1>4, <1>6 DEF A!Reversed
  <2>2. \A j \in 1 .. n : n + 1 - j \in Nat /\ n + 1 - j >= 1 /\ n + 1 - j <= n /\ a - n + (n + 1 - j) = a + 1 - j
                          /\ n + 1 - j \in 1 .. n
    BY <1>3
  <2>3. \A j \in 1 .. n : top[n + 1 - j] \in Values /\ top[n + 1 - j] = x[a + 1 - j]
    BY <1>6, <2>2
  <2>4. back \in Seq(Values) /\ Len(back) = n
    BY <2>1, <2>3
  <2>5. \A j \in 1 .. n : back[j] = x[a + 1 - j]
    BY <2>1, <2>3
  <2> QED BY <2>4, <2>5
<1>8. /\ full \in Seq(Values) /\ Len(full) = c + n
      /\ \A j \in Nat : j >= 1 /\ j <= c => full[j] = y[j]
      /\ \A j \in Nat : j >= 1 /\ j <= n => full[c + j] = x[a + 1 - j]
  <2>1. /\ full \in Seq(Values) /\ Len(full) = c + n
        /\ \A j \in 1 .. c : full[j] = y[j]
        /\ \A j \in 1 .. n : full[c + j] = back[j]
    <3>1. full = y \o back /\ Len(y) = c /\ Len(back) = n
      BY <1>2, <1>4, <1>7
    <3>2. full \in Seq(Values) /\ Len(full) = c + n
      BY <1>3, <1>7, <3>1, JoinOf
    <3>3. \A j \in 1 .. Len(y) : (y \o back)[j] = y[j]
      BY <1>3, <1>7, JoinOf
    <3>4. \A j \in 1 .. Len(back) : (y \o back)[Len(y) + j] = back[j]
      BY <1>3, <1>7, JoinOf
    <3> QED BY <3>1, <3>2, <3>3, <3>4
  <2>2. \A j \in Nat : j >= 1 /\ j <= c => full[j] = y[j]
    <3>1. \A j \in Nat : j >= 1 /\ j <= c => j \in 1 .. c
      BY <1>3
    <3> QED BY <2>1, <3>1
  <2>3. \A j \in Nat : j >= 1 /\ j <= n => full[c + j] = x[a + 1 - j]
    <3>1. \A j \in Nat : j >= 1 /\ j <= n => j \in 1 .. n
      OBVIOUS
    <3> QED BY <1>7, <2>1, <3>1
  <2> QED BY <2>1, <2>2, <2>3
<1>9. q = [p EXCEPT ![me] = low, !["C"] = full]
  BY <1>2, <1>4 DEF Handover
<1>10. q \in [Stacks -> Seq(Values)] /\ q[me] = low /\ q["C"] = full /\ q[Other(me)] = p[Other(me)]
  BY <1>1, <1>5, <1>8, <1>9
<1> QED BY <1>2, <1>5, <1>8, <1>10 DEF Gave

LEMMA GaveAll ==
  ASSUME NEW p \in [Stacks -> Seq(Values)], NEW me \in Operands, NEW n \in Nat, n <= Len(p[me]),
         NEW q, Gave(p, q, me, n)
  PROVE  q = Handover(p, me, n)
<1>1. PICK h : h = Handover(p, me, n)
  OBVIOUS
<1>2. Gave(p, h, me, n)
  BY <1>1, HandoverIs
<1>3. \A s \in Stacks : s = me \/ s = Other(me) \/ s = "C"
  BY OtherIs
<1>4. me \in Stacks /\ "C" \in Stacks
  BY OtherIs DEF Stacks
<1>5. PICK a, c : a = Len(p[me]) /\ c = Len(p["C"])
  OBVIOUS
<1>6. a \in Nat /\ c \in Nat /\ n <= a
  <2>1. p[me] \in Seq(Values) /\ p["C"] \in Seq(Values)
    BY <1>4
  <2> QED BY <1>5, <2>1
<1>7. q \in [Stacks -> Seq(Values)] /\ h \in [Stacks -> Seq(Values)]
  BY <1>2 DEF Gave
<1>8. Len(q[me]) = Len(h[me]) /\ \A j \in 1 .. Len(h[me]) : q[me][j] = h[me][j]
  <2>1. Len(q[me]) = a - n /\ Len(h[me]) = a - n
    BY <1>2, <1>5 DEF Gave
  <2>2. \A j \in Nat : j >= 1 /\ j <= a - n => q[me][j] = h[me][j]
    BY <1>2, <1>5 DEF Gave
  <2> QED BY <1>6, <2>1, <2>2
<1>9. Len(q["C"]) = Len(h["C"]) /\ \A j \in 1 .. Len(h["C"]) : q["C"][j] = h["C"][j]
  <2>1. Len(q["C"]) = c + n /\ Len(h["C"]) = c + n
    BY <1>2, <1>5 DEF Gave
  <2>2. \A j \in Nat : j >= 1 /\ j <= c => q["C"][j] = h["C"][j]
    BY <1>2, <1>5 DEF Gave
  <2>3. \A j \in Nat : j >= 1 /\ j <= n => q["C"][c + j] = h["C"][c + j]
    BY <1>2, <1>5 DEF Gave
  <2>4. ASSUME NEW j \in 1 .. c + n PROVE q["C"][j] = h["C"][j]
    <3>1. CASE j <= c
      BY <1>6, <2>2, <3>1
    <3>2. CASE ~(j <= c)
      <4>1. PICK i : i = j - c
        OBVIOUS
      <4>2. i \in Nat /\ i >= 1 /\ i <= n /\ c + i = j
        BY <1>6, <3>2, <4>1
      <4> QED BY <2>3, <4>2
    <3> QED BY <3>1, <3>2
  <2> QED BY <2>1, <2>4
<1>10. q[Other(me)] = h[Other(me)]
  BY <1>2 DEF Gave
<1>11. \A s \in Stacks : Len(q[s]) = Len(h[s]) /\ \A i \in 1 .. Len(h[s]) : q[s][i] = h[s][i]
  BY <1>3, <1>8, <1>9, <1>10
<1> QED BY <1>1, <1>7, <1>11, SameStacks

Given(k, g, me, i) == Sane(g) /\ g.cont = k.cont /\ Gave(View(k), View(g), me, i)

LEMMA GivenStep ==
  ASSUME NEW k, Sane(k), NEW me \in Operands, NEW i \in Nat, i + 1 <= Depth(k, me), NEW g, Given(k, g, me, i),
         NEW h, h = EnterOne(g, me)
  PROVE  Given(k, h, me, i + 1)
<1>1. PICK p, q : p = View(k) /\ q = View(g)
  OBVIOUS
<1>2. Sane(g) /\ g.cont = k.cont /\ Gave(p, q, me, i) /\ me \in Stacks /\ "C" \in Stacks /\ me # "C"
  BY <1>1, OtherIs DEF Given, Stacks
<1>3. p \in [Stacks -> Seq(Values)] /\ Len(p[me]) = Depth(k, me) /\ Len(q[me]) = Depth(g, me) /\ Depth(k, me) \in Nat
  BY <1>1, <1>2, ViewIs
<1>4. Depth(g, me) = Depth(k, me) - i
  BY <1>2, <1>3 DEF Gave
<1>5. 1 <= Depth(g, me)
  BY <1>3, <1>4
<1>6. TRUE \in BOOLEAN /\ h = Transferred(g, me, "C", TRUE)
  BY DEF EnterOne
<1>7. Moved(g, h, me, "C", TRUE)
  BY <1>2, <1>5, <1>6, TransferredIs
<1>8. PICK u : u = TopOf(g, me)
  OBVIOUS
<1>9. q[me][Depth(g, me)] = Holds(g, u)
  BY <1>1, <1>2, <1>5, <1>8, TopIs
<1>10. PICK z : z = Longer(Shorter(q, me, Len(q[me]) - 1), "C", q[me][Len(q[me])])
  OBVIOUS
<1>11. Sane(h) /\ h.cont = g.cont /\ View(h) = z
  BY <1>1, <1>3, <1>7, <1>8, <1>9, <1>10 DEF Moved
<1>12. i + 1 <= Len(p[me])
  BY <1>3
<1>13. Gave(p, z, me, i + 1)
  BY <1>2, <1>3, <1>10, <1>12, GaveStep
<1> QED BY <1>1, <1>2, <1>11, <1>13 DEF Given

LEMMA GivenNone == ASSUME NEW k, Sane(k), NEW me \in Operands PROVE Given(k, k, me, 0)
<1>1. PICK p : p = View(k)
  OBVIOUS
<1>2. p \in [Stacks -> Seq(Values)] /\ me \in Stacks /\ "C" \in Stacks
  BY <1>1, ViewIs, OtherIs DEF Stacks
<1>3. p[me] \in Seq(Values) /\ p["C"] \in Seq(Values)
  BY <1>2
<1>4. PICK a, c : a = Len(p[me]) /\ c = Len(p["C"])
  OBVIOUS
<1>5. a \in Nat /\ c \in Nat
  BY <1>3, <1>4
<1>6. a - 0 = a /\ c + 0 = c /\ \A j \in Nat : ~(j >= 1 /\ j <= 0)
  BY <1>5
<1>7. Gave(p, p, me, 0)
  BY <1>2, <1>4, <1>6 DEF Gave
<1> QED BY <1>1, <1>7 DEF Given

LEMMA HandedOverIs ==
  ASSUME NEW k, Sane(k), NEW me \in Operands, NEW n \in Nat, n <= Depth(k, me), NEW j, j = HandedOver(k, me, n)
  PROVE  Given(k, j, me, n)
<1>1. PICK us : us = Count(n)
  OBVIOUS
<1>2. n = Len(us)
  BY <1>1, CountIs
<1>3. PICK g : j = g[n] /\ g[0] = k /\ \A i \in 1 .. n : g[i] = EnterOne(g[i - 1], me)
  BY <1>1, <1>2, EnterWay
<1> DEFINE T == {i \in 0 .. n : Given(k, g[i], me, i)}
<1>4. 0 \in T
  BY <1>3, GivenNone
<1>5. ASSUME NEW i \in 1 .. n, i - 1 \in T PROVE i \in T
  <2>1. PICK y, z, l : y = g[i - 1] /\ z = g[i] /\ l = i - 1
    OBVIOUS
  <2>2. l \in Nat /\ l + 1 = i /\ i \in 0 .. n /\ Depth(k, me) \in Nat /\ me \in Stacks
    BY <2>1, SaneParts, OtherIs
  <2>3. l + 1 <= Depth(k, me)
    BY <2>2
  <2>4. Given(k, y, me, l) /\ z = EnterOne(y, me)
    BY <1>3, <1>5, <2>1
  <2>5. Given(k, z, me, l + 1)
    BY <2>2, <2>3, <2>4, GivenStep
  <2> QED BY <2>1, <2>2, <2>5
<1>6. n \in T
  <2>1. \A i \in 0 .. n : i \in T
    <3> HIDE DEF T
    <3> QED BY <1>4, <1>5, Climb
  <2> QED BY <2>1
<1> QED BY <1>3, <1>6

\* The origin of C, as the difference that matters, is where it was.
LEMMA EnteredIs ==
  ASSUME NEW k, Sane(k), NEW me \in Operands, NEW n \in Nat, n <= Depth(k, me), NEW j, j = Entered(k, me, n)
  PROVE  /\ Sane(j) /\ j.cont = k.cont /\ View(j) = Handover(View(k), me, n)
         /\ Depth(j, me) = Depth(k, me) - n /\ Depth(j, Other(me)) = Depth(k, Other(me))
         /\ Depth(j, "C") = Depth(k, "C") + n
<1>1. PICK h : h = HandedOver(k, me, n)
  OBVIOUS
<1>2. Given(k, h, me, n)
  BY <1>1, HandedOverIs
<1>3. PICK p, q : p = View(k) /\ q = View(h)
  OBVIOUS
<1>4. Sane(h) /\ h.cont = k.cont /\ Gave(p, q, me, n)
  BY <1>2, <1>3 DEF Given
<1>5. me \in Stacks /\ Other(me) \in Stacks /\ "C" \in Stacks
  BY OtherIs DEF Stacks
<1>6. /\ p \in [Stacks -> Seq(Values)]
      /\ \A s \in Stacks : Len(p[s]) = Depth(k, s) /\ Len(q[s]) = Depth(h, s) /\ Depth(k, s) \in Nat
  BY <1>3, <1>4, ViewIs
<1>7. Depth(h, me) = Depth(k, me) - n /\ Depth(h, Other(me)) = Depth(k, Other(me)) /\ Depth(h, "C") = Depth(k, "C") + n
  BY <1>4, <1>5, <1>6 DEF Gave
<1>8. n <= Len(p[me])
  BY <1>5, <1>6
<1>9. q = Handover(p, me, n)
  BY <1>4, <1>6, <1>8, GaveAll
<1>10. j = h
  <2>1. k.offset = -Arguments /\ h \in Contexts /\ Arguments \in Nat
    BY <1>4, SaneParts, ContextParts, Bounds
  <2>2. j = Begins(h, k.offset + Depth(k, "C") + n)
    BY <1>1 DEF Entered, HandedOver
  <2>3. (k.offset + Depth(k, "C") + n) - Depth(h, "C") = -Arguments
    BY <1>5, <1>6, <1>7, <2>1
  <2>5. PICK o : o = k.offset + Depth(k, "C") + n
    OBVIOUS
  <2>7. j = Begins(h, o)
    BY <2>2, <2>5
  <2>8. j = [h EXCEPT !.offset = o - Depth(h, "C")]
    BY <2>7 DEF Begins
  <2>6. j = [h EXCEPT !.offset = o - Depth(h, "C")] /\ o - Depth(h, "C") = -Arguments
    <3>1. PICK e : e = Depth(h, "C")
      OBVIOUS
    <3>2. o - Depth(h, "C") = -Arguments
      BY <2>3, <2>5
    <3> QED BY <2>8, <3>2
  <2>4. j = [h EXCEPT !.offset = -Arguments]
    BY <2>6
  <2> QED BY <2>1, <2>4, OffsetIs
<1> QED BY <1>3, <1>4, <1>7, <1>9, <1>10

-----------------------------------------------------------------------------
(* Calls that are compiled into the caller.                                  *)

Row(from, base, n) == [i \in 1 .. n |-> <<from, base + i>>]

LEMMA RowIs ==
  ASSUME NEW from, NEW base, NEW n \in Nat
  PROVE  Len(Row(from, base, n)) = n /\ \A i \in 1 .. n : Row(from, base, n)[i] = <<from, base + i>>
BY DEF Row

Captures(k, from, base, n) == Over(CapturedAt, k, Row(from, base, n))
Hands(k, from, to, base, n) ==
  Over(LAMBDA j, i : Renamed([m |-> j, d |-> Cell(j, <<from, base + i>>)], to), k, Count(n))

LEMMA CaptureWay ==
  ASSUME NEW k, NEW from, NEW base, NEW l, NEW us, us = Row(from, base, l), NEW n \in Nat, n = Len(us)
  PROVE  \E g : Captures(k, from, base, l) = g[n] /\ g[0] = k /\ \A i \in 1 .. n : g[i] = CapturedAt(g[i - 1], us[i])
<1> DEFINE G(h) == h = [i \in 0 .. Len(us) |-> IF i = 0 THEN k ELSE CapturedAt(h[i - 1], us[i])]
<1>1. Captures(k, from, base, l) = (CHOOSE h : G(h))[Len(us)]
  BY DEF Over, Captures
<1>2. \E h : G(h)
  <2>1. PICK f : Way(f, <<"capture">>, k, us, n)
    BY WayExists
  <2>2. \A i \in 1 .. n : f[i] = CapturedAt(f[i - 1], us[i])
    BY <2>1 DEF Way, Doing
  <2>3. PICK h : h = [i \in 0 .. n |-> f[i]]
    OBVIOUS
  <2>4. \A i \in 1 .. n : i \in 0 .. n /\ i - 1 \in 0 .. n /\ i # 0
    OBVIOUS
  <2>5. h = [i \in 0 .. n |-> IF i = 0 THEN k ELSE CapturedAt(h[i - 1], us[i])]
    <3>1. f[0] = k
      BY <2>1 DEF Way
    <3>2. \A i \in 0 .. n : i = 0 \/ i \in 1 .. n
      OBVIOUS
    <3>3. \A i \in 0 .. n : h[i] = IF i = 0 THEN k ELSE CapturedAt(h[i - 1], us[i])
      BY <2>2, <2>3, <2>4, <3>1, <3>2
    <3>4. h = [i \in 0 .. n |-> h[i]]
      BY <2>3
    <3> QED BY <3>3, <3>4
  <2> QED BY <2>5
<1>3. PICK g : g = CHOOSE h : G(h)
  OBVIOUS
<1>4. G(g)
  BY <1>2, <1>3
<1>5. g = [i \in 0 .. n |-> IF i = 0 THEN k ELSE CapturedAt(g[i - 1], us[i])]
  BY <1>4
<1>6. 0 \in 0 .. n /\ n \in 0 .. n /\ \A i \in 1 .. n : i \in 0 .. n /\ i # 0
  OBVIOUS
<1>7. g[0] = k /\ \A i \in 1 .. n : g[i] = CapturedAt(g[i - 1], us[i])
  BY <1>5, <1>6
<1>8. Captures(k, from, base, l) = g[n]
  BY <1>1, <1>3
<1> QED BY <1>7, <1>8

HandedBy(j, k, from, to, base, us, n) ==
  \E g : j = g[n] /\ g[0] = k /\ \A i \in 1 .. n : g[i] = HandOne(g[i - 1], us[i], from, to, base)

LEMMA HandWay ==
  ASSUME NEW k, NEW from, NEW to, NEW base, NEW l, NEW us, us = Count(l), NEW n \in Nat, n = Len(us)
  PROVE  HandedBy(Hands(k, from, to, base, l), k, from, to, base, us, n)
<1> DEFINE G(h) == h = [i \in 0 .. Len(us) |-> IF i = 0 THEN k ELSE HandOne(h[i - 1], us[i], from, to, base)]
<1>1. Hands(k, from, to, base, l) = (CHOOSE h : G(h))[Len(us)]
  BY DEF Over, Hands, HandOne
<1>2. \E h : G(h)
  <2>1. PICK f : Way(f, <<"hand", from, to, base>>, k, us, n)
    BY WayExists
  <2>2. \A i \in 1 .. n : f[i] = HandOne(f[i - 1], us[i], from, to, base)
    BY <2>1 DEF Way, Doing
  <2>3. PICK h : h = [i \in 0 .. n |-> f[i]]
    OBVIOUS
  <2>4. \A i \in 1 .. n : i \in 0 .. n /\ i - 1 \in 0 .. n /\ i # 0
    OBVIOUS
  <2>5. h = [i \in 0 .. n |-> IF i = 0 THEN k ELSE HandOne(h[i - 1], us[i], from, to, base)]
    <3>1. f[0] = k
      BY <2>1 DEF Way
    <3>2. \A i \in 0 .. n : i = 0 \/ i \in 1 .. n
      OBVIOUS
    <3>3. \A i \in 0 .. n : h[i] = IF i = 0 THEN k ELSE HandOne(h[i - 1], us[i], from, to, base)
      BY <2>2, <2>3, <2>4, <3>1, <3>2
    <3>4. h = [i \in 0 .. n |-> h[i]]
      BY <2>3
    <3> QED BY <3>3, <3>4
  <2> QED BY <2>5
<1>3. PICK g : g = CHOOSE h : G(h)
  OBVIOUS
<1>4. G(g)
  BY <1>2, <1>3
<1>5. g = [i \in 0 .. n |-> IF i = 0 THEN k ELSE HandOne(g[i - 1], us[i], from, to, base)]
  BY <1>4
<1>6. 0 \in 0 .. n /\ n \in 0 .. n /\ \A i \in 1 .. n : i \in 0 .. n /\ i # 0
  OBVIOUS
<1>7. g[0] = k /\ \A i \in 1 .. n : g[i] = HandOne(g[i - 1], us[i], from, to, base)
  BY <1>5, <1>6
<1>8. Hands(k, from, to, base, l) = g[n]
  BY <1>1, <1>3
<1> QED BY <1>7, <1>8 DEF HandedBy

LEMMA CapturesIs ==
  ASSUME NEW k, Sane(k), NEW from \in Stacks, NEW base \in Nat, NEW n \in Nat, base + n <= Depth(k, from),
         NEW j, j = Captures(k, from, base, n)
  PROVE  Keeps(k, j)
<1>1. PICK us : us = Row(from, base, n)
  OBVIOUS
<1>2. n = Len(us) /\ \A i \in 1 .. n : us[i] = <<from, base + i>>
  BY <1>1, RowIs
<1>3. PICK g : j = g[n] /\ g[0] = k /\ \A i \in 1 .. n : g[i] = CapturedAt(g[i - 1], us[i])
  <2>1. us = Row(from, base, n) /\ n = Len(us) /\ j = Captures(k, from, base, n)
    BY <1>1, <1>2
  <2>2. \E g : Captures(k, from, base, n) = g[n] /\ g[0] = k /\ \A i \in 1 .. n : g[i] = CapturedAt(g[i - 1], us[i])
    <3>1. us = Row(from, base, n) /\ n = Len(us)
      BY <2>1
    <3> QED BY ONLY <3>1, CaptureWay
  <2> QED BY ONLY <2>1, <2>2
<1>4. Depth(k, from) \in Nat
  BY SaneParts
<1>5. ASSUME NEW i \in 1 .. n PROVE us[i] \in Cells(k)
  <2>1. PICK a : a = base + i
    OBVIOUS
  <2>2. a \in Nat /\ a >= 1 /\ a <= Depth(k, from)
    BY <1>4, <2>1
  <2>3. us[i] = <<from, a>>
    BY <1>2, <2>1
  <2> QED BY <2>2, <2>3, SaneParts
<1> DEFINE T == {i \in 0 .. n : Keeps(k, g[i])}
<1>6. 0 \in T
  BY <1>3, KeepsSelf
<1>7. ASSUME NEW i \in 1 .. n, i - 1 \in T PROVE i \in T
  <2>1. PICK y, u, z : y = g[i - 1] /\ u = us[i] /\ z = g[i]
    OBVIOUS
  <2>2. Keeps(k, y) /\ u \in Cells(k) /\ z = CapturedAt(y, u)
    BY <1>3, <1>5, <1>7, <2>1
  <2>3. Sane(y) /\ Cells(y) = Cells(k)
    BY <2>2 DEF Keeps
  <2>4. Keeps(y, z)
    BY <2>2, <2>3, CapturedAtIs
  <2>5. Keeps(k, z)
    BY <2>2, <2>4, KeepsTwice
  <2>6. i \in 0 .. n
    OBVIOUS
  <2> QED BY <2>1, <2>5, <2>6
<1>8. n \in T
  <2>1. \A i \in 0 .. n : i \in T
    <3> HIDE DEF T
    <3> QED BY <1>6, <1>7, Climb
  <2> QED BY <2>1
<1> QED BY <1>3, <1>8

\* What i results handed over from the cells above base make of the stacks.
Raised(p, q, from, to, base, i) ==
  /\ Family(q) /\ \A s \in Stacks : s # to => q[s] = p[s]
  /\ Len(q[to]) = Len(p[to]) + i
  /\ \A x \in Nat : x >= 1 /\ x <= Len(p[to]) => q[to][x] = p[to][x]
  /\ \A x \in Nat : x >= 1 /\ x <= i => q[to][Len(p[to]) + x] = p[from][base + x]

LEMMA RaisedNone ==
  ASSUME NEW p, Family(p), NEW from, NEW to, NEW base PROVE Raised(p, p, from, to, base, 0)
<1>1. PICK z \in Nat : z = 0
  OBVIOUS
<1>2. \A x \in Nat : ~(x >= 1 /\ x <= z)
  BY <1>1
<1>3. Len(p[to]) = Len(p[to]) + z
  BY <1>1 DEF Family
<1> QED BY <1>1, <1>2, <1>3 DEF Raised

LEMMA RaisedStep ==
  ASSUME NEW p, Family(p), NEW from \in Stacks, NEW to \in Stacks, from # to, NEW base \in Nat, NEW i \in Nat,
         NEW q, Raised(p, q, from, to, base, i), NEW v \in Values, v = p[from][base + (i + 1)],
         NEW r, r = Longer(q, to, v)
  PROVE  Raised(p, r, from, to, base, i + 1)
<1>1. Lengthens(q, r, to, v)
  BY LongerIs DEF Raised
<1>2. PICK l \in Nat : l = Len(p[to])
  BY DEF Family
<1>3. Len(q[to]) = l + i
  BY <1>2 DEF Raised
<1>4. /\ Family(r) /\ \A s \in Stacks : s # to => r[s] = q[s]
      /\ Len(r[to]) = (l + i) + 1 /\ r[to][(l + i) + 1] = v
      /\ \A x \in 1 .. l + i : r[to][x] = q[to][x]
  BY <1>1, <1>3 DEF Lengthens
<1>5. \A s \in Stacks : s # to => r[s] = p[s]
  BY <1>4 DEF Raised
<1>6. ASSUME NEW x \in Nat, x >= 1, x <= l PROVE r[to][x] = p[to][x]
  <2>1. x \in 1 .. l + i
    BY <1>6
  <2>2. q[to][x] = p[to][x]
    BY <1>2, <1>6 DEF Raised
  <2> QED BY <1>4, <2>1, <2>2
<1>7. ASSUME NEW x \in Nat, x >= 1, x <= i + 1 PROVE r[to][l + x] = p[from][base + x]
  <2>1. CASE x = i + 1
    <3>1. l + x = (l + i) + 1
      BY <2>1
    <3> QED BY <1>4, <2>1, <3>1
  <2>2. CASE x <= i
    <3>1. l + x \in 1 .. l + i
      BY <1>7, <2>2
    <3>2. q[to][l + x] = p[from][base + x]
      BY <1>2, <1>7, <2>2 DEF Raised
    <3> QED BY <1>4, <3>1, <3>2
  <2> QED BY <1>7, <2>1, <2>2
<1>8. Len(r[to]) = l + (i + 1)
  BY <1>4
<1> QED BY <1>2, <1>4, <1>5, <1>6, <1>7, <1>8 DEF Raised

\* One result more is handed over; the cells it comes from stay as they are.
Carried(h, g, from, to, base, i) ==
  /\ Sane(g) /\ g.cont = h.cont /\ Raised(View(h), View(g), from, to, base, i)
  /\ \A v \in Cells(h) : v \in Cells(g) /\ Cell(g, v) = Cell(h, v)

LEMMA CarriedNone ==
  ASSUME NEW h, Sane(h), NEW from, NEW to, NEW base PROVE Carried(h, h, from, to, base, 0)
<1>1. Family(View(h))
  BY ViewIs DEF Family
<1>2. Raised(View(h), View(h), from, to, base, 0)
  BY <1>1, RaisedNone
<1> QED BY <1>2 DEF Carried

LEMMA CarriedStep ==
  ASSUME NEW h, Sane(h), NEW from \in Stacks, NEW to \in Stacks, from # to, NEW base \in Nat,
         NEW i \in Nat, base + (i + 1) <= Depth(h, from), Cell(h, <<from, base + (i + 1)>>).kind # "home",
         NEW y, Carried(h, y, from, to, base, i), NEW z, z = HandOne(y, i + 1, from, to, base)
  PROVE  Carried(h, z, from, to, base, i + 1)
<1>1. PICK p, q, a, u, d, v : /\ p = View(h) /\ q = View(y) /\ a = base + (i + 1) /\ u = <<from, a>>
                              /\ d = Cell(y, u) /\ v = Holds(y, u)
  OBVIOUS
<1>2. /\ Sane(y) /\ y.cont = h.cont /\ Raised(p, q, from, to, base, i)
      /\ \A w \in Cells(h) : w \in Cells(y) /\ Cell(y, w) = Cell(h, w)
  BY <1>1 DEF Carried
<1>3. a \in Nat /\ a >= 1 /\ a <= Depth(h, from)
  BY <1>1
<1>4. u \in Cells(h) /\ u \in Cells(y) /\ d = Cell(h, u) /\ d.kind # "home"
  BY <1>1, <1>2, <1>3, SaneParts
<1>5. q[from] = p[from]
  BY <1>2 DEF Raised
<1>6. v = p[from][a]
  <2>1. from \in Stacks /\ a <= Depth(y, from)
    <3>1. u[1] = from /\ u[2] = a
      BY <1>1
    <3> QED BY <1>2, <1>4, <3>1, SaneParts
  <2>2. q[from][a] = v
    BY <1>1, <1>2, <1>3, <2>1, SeenAt
  <2> QED BY <1>5, <2>2
<1>7. Placed(d, u) /\ v \in Values /\ u \in Stacks \X Int
  BY <1>1, <1>2, <1>4, SaneParts
<1>8. Movable(d) /\ Denote(y, d) = v
  BY <1>1, <1>4, <1>7, PlacedIs DEF Movable, Holds
<1>9. PICK c : c = [m |-> y, d |-> d]
  OBVIOUS
<1>10. Taken(c) /\ c.m = y /\ c.d = d
  BY <1>9, TakenIs
<1>11. z = Renamed(c, to)
  BY <1>1, <1>9 DEF HandOne
<1>12. PICK e : Pushed(y, z, to, e) /\ Denote(y, e) = v
  BY <1>2, <1>7, <1>8, <1>10, <1>11, RenamedIs
<1>13. Sane(z) /\ z.cont = h.cont /\ View(z) = Longer(q, to, v)
  BY <1>1, <1>2, <1>12 DEF Pushed
<1>14. \A w \in Cells(h) : w \in Cells(z) /\ Cell(z, w) = Cell(h, w)
  BY <1>2, <1>12 DEF Pushed
<1>15. Family(p)
  BY <1>1, ViewIs DEF Family
<1>16. Raised(p, View(z), from, to, base, i + 1)
  BY <1>1, <1>2, <1>6, <1>7, <1>13, <1>15, RaisedStep
<1> QED BY <1>1, <1>13, <1>14, <1>16 DEF Carried

\* None of the cells is in memory.
Apart(h, from, base, n) == \A i \in 1 .. n : Cell(h, <<from, base + i>>).kind # "home"

LEMMA HandsIs ==
  ASSUME NEW h, Sane(h), NEW from \in Stacks, NEW to \in Stacks, from # to, NEW base \in Nat, NEW n \in Nat,
         base + n <= Depth(h, from), Apart(h, from, base, n), NEW j, j = Hands(h, from, to, base, n)
  PROVE  Carried(h, j, from, to, base, n)
<1>1. PICK us : us = Count(n)
  OBVIOUS
<1>2. n = Len(us) /\ \A i \in 1 .. n : us[i] = i
  BY <1>1, CountIs
<1>3. PICK g : j = g[n] /\ g[0] = h /\ \A i \in 1 .. n : g[i] = HandOne(g[i - 1], us[i], from, to, base)
  <2>1. us = Count(n) /\ n = Len(us)
    BY <1>1, <1>2
  <2>2. HandedBy(Hands(h, from, to, base, n), h, from, to, base, us, n)
    BY ONLY <2>1, HandWay
  <2> QED BY <2>2 DEF HandedBy
<1> DEFINE T == {i \in 0 .. n : Carried(h, g[i], from, to, base, i)}
<1>4. 0 \in T
  BY <1>3, CarriedNone
<1>5. ASSUME NEW i \in 1 .. n, i - 1 \in T PROVE i \in T
  <2>1. PICK y, z, l : y = g[i - 1] /\ z = g[i] /\ l = i - 1
    OBVIOUS
  <2>2. l \in Nat /\ l + 1 = i /\ i \in 0 .. n /\ base + (l + 1) <= Depth(h, from)
    BY <2>1, SaneParts
  <2>3. Carried(h, y, from, to, base, l) /\ z = HandOne(y, l + 1, from, to, base)
    BY <1>2, <1>3, <1>5, <2>1, <2>2
  <2>4. Cell(h, <<from, base + (l + 1)>>).kind # "home"
    BY <2>2 DEF Apart
  <2>5. Carried(h, z, from, to, base, l + 1)
    BY <2>2, <2>3, <2>4, CarriedStep
  <2> QED BY <2>1, <2>2, <2>5
<1>6. n \in T
  <2>1. \A i \in 0 .. n : i \in T
    <3> HIDE DEF T
    <3> QED BY <1>4, <1>5, Climb
  <2> QED BY <2>1
<1> QED BY <1>3, <1>6

\* The results, as long as none went home between its capture and its copy.
LEMMA HandingIs ==
  ASSUME NEW k, Sane(k), NEW from \in Stacks, NEW to \in Stacks, from # to, NEW base \in Nat, NEW n \in Nat,
         base + n <= Depth(k, from), ~GoneHome(k, from, base, n), NEW j, j = Handing(k, from, to, base, n)
  PROVE  /\ Sane(j) /\ j.cont = k.cont
         /\ \A s \in Stacks : Depth(j, s) = IF s = to THEN Depth(k, s) + n ELSE Depth(k, s)
         /\ Raised(View(k), View(j), from, to, base, n)
<1>1. PICK h : h = Captures(k, from, base, n)
  OBVIOUS
<1>2. Keeps(k, h)
  BY <1>1, CapturesIs
<1>3. /\ Sane(h) /\ h.cont = k.cont /\ View(h) = View(k)
      /\ \A s \in Stacks : Depth(h, s) = Depth(k, s) /\ Depth(k, s) \in Nat
  BY <1>2, KeepsStill, SameView, SaneParts DEF Still, SameShape
<1>4. h = Gathered(k, from, base, n)
  BY <1>1 DEF Captures, Gathered, Row
<1>5. Apart(h, from, base, n)
  BY <1>4 DEF GoneHome, Apart
<1>6. j = Hands(h, from, to, base, n)
  BY <1>4 DEF Handing, Hands
<1>7. base + n <= Depth(h, from)
  BY <1>3
<1>8. Carried(h, j, from, to, base, n)
  BY <1>3, <1>5, <1>6, <1>7, HandsIs
<1>9. Sane(j) /\ j.cont = k.cont /\ Raised(View(k), View(j), from, to, base, n)
  BY <1>3, <1>8 DEF Carried
<1>10. ASSUME NEW s \in Stacks PROVE Depth(j, s) = IF s = to THEN Depth(k, s) + n ELSE Depth(k, s)
  <2>1. Len(View(j)[s]) = Depth(j, s) /\ Len(View(k)[s]) = Depth(k, s)
    BY <1>9, ViewIs
  <2>2. s # to => View(j)[s] = View(k)[s]
    BY <1>9 DEF Raised
  <2>3. s = to => Len(View(j)[s]) = Len(View(k)[s]) + n
    BY <1>9 DEF Raised
  <2> QED BY <2>1, <2>2, <2>3
<1> QED BY <1>9, <1>10

\* A callee's frame is after the cells of its caller.
LEMMA DeeperGood ==
  ASSUME NEW k, Good(k), NEW fr \in Frames, NEW j, Sane(j), j.cont = Append(k.cont, fr),
         \A s \in Stacks : FloorOf(k, s) <= fr.base[s] /\ fr.base[s] <= Depth(j, s)
  PROVE  Good(j)
<1>1. Sane(k) /\ Framed(k) /\ k.cont \in Seq(Frames) /\ Len(k.cont) \in Nat
  BY FramesAre DEF Good
<1>2. PICK n : n = Len(k.cont)
  OBVIOUS
<1>3. n \in Nat /\ Len(j.cont) = n + 1 /\ j.cont[n + 1] = fr /\ \A i \in 1 .. n : j.cont[i] = k.cont[i]
  BY <1>1, <1>2
<1>4. ASSUME NEW i \in 1 .. n + 1, NEW s \in Stacks
      PROVE  j.cont[i].base[s] <= IF i = n + 1 THEN Depth(j, s) ELSE j.cont[i + 1].base[s]
  <2>1. CASE i = n + 1
    BY <1>3, <2>1
  <2>2. CASE i = n
    <3>1. k.cont # <<>> /\ n \in 1 .. n /\ n # n + 1
      BY <1>1, <1>2, <1>3, <2>2
    <3>2. FloorOf(k, s) = k.cont[n].base[s]
      BY <1>2, <3>1 DEF FloorOf
    <3> QED BY <1>3, <2>2, <3>1, <3>2
  <2>3. CASE i # n /\ i # n + 1
    <3>1. i \in 1 .. n /\ i + 1 \in 1 .. n
      BY <1>3, <2>3
    <3>2. k.cont[i].base[s] <= k.cont[i + 1].base[s]
      BY <1>1, <1>2, <2>3, <3>1 DEF Framed
    <3> QED BY <1>3, <2>3, <3>1, <3>2
  <2> QED BY <2>1, <2>2, <2>3
<1> QED BY <1>3, <1>4 DEF Good, Framed

LEMMA ShallowerGood ==
  ASSUME NEW k, Good(k), k.cont # <<>>, NEW j, Sane(j), j.cont = SubSeq(k.cont, 1, Len(k.cont) - 1),
         \A s \in Stacks : k.cont[Len(k.cont)].base[s] <= Depth(j, s)
  PROVE  Good(j)
<1>1. Sane(k) /\ Framed(k) /\ k.cont \in Seq(Frames) /\ Len(k.cont) \in Nat
  BY FramesAre DEF Good
<1>2. PICK n : n = Len(k.cont) - 1
  OBVIOUS
<1>3. n \in Nat /\ Len(k.cont) = n + 1
  BY <1>1, <1>2
<1>4. Len(j.cont) = n /\ \A i \in 1 .. n : j.cont[i] = k.cont[i]
  BY <1>1, <1>2, <1>3
<1>5. ASSUME NEW i \in 1 .. n, NEW s \in Stacks
      PROVE  j.cont[i].base[s] <= IF i = n THEN Depth(j, s) ELSE j.cont[i + 1].base[s]
  <2>1. i \in 1 .. Len(k.cont) /\ i # Len(k.cont)
    BY <1>3
  <2>2. k.cont[i].base[s] <= k.cont[i + 1].base[s]
    BY <1>1, <2>1 DEF Framed
  <2>3. CASE i = n
    <3>1. k.cont[n + 1].base[s] <= Depth(j, s) /\ k.cont[n].base[s] <= k.cont[n + 1].base[s]
      BY <1>3, <2>2, <2>3
    <3>2. k.cont[n].base[s] \in Nat /\ k.cont[n + 1].base[s] \in Nat /\ Depth(j, s) \in Nat
      <4>1. n \in 1 .. Len(k.cont) /\ n + 1 \in 1 .. Len(k.cont)
        BY <1>3, <2>3
      <4> QED BY <1>1, <4>1, FramesAre, SaneParts
    <3> QED BY <1>4, <2>3, <3>1, <3>2
  <2>4. CASE i # n
    <3>1. i + 1 \in 1 .. n
      BY <1>3, <2>4
    <3> QED BY <1>4, <2>2, <2>4, <3>1
  <2> QED BY <2>3, <2>4
<1> QED BY <1>4, <1>5 DEF Good, Framed

Callers(fr, me, base) == Append(fr, [base |-> base, dst |-> me, offset |-> -Arguments])
Left(k, me, n) == [s \in Stacks |-> Depth(k, s) - IF s = me THEN n ELSE 0]

LEMMA LeftIs ==
  ASSUME NEW k, Good(k), NEW me \in Operands, NEW n \in Nat, FloorOf(k, me) + n <= Depth(k, me), NEW b, b = Left(k, me, n)
  PROVE  /\ b \in [Stacks -> Nat] /\ b[me] = Depth(k, me) - n /\ \A s \in Stacks : s # me => b[s] = Depth(k, s)
         /\ \A s \in Stacks : FloorOf(k, s) <= b[s]
<1>1. me \in Stacks /\ \A s \in Stacks : FloorOf(k, s) \in Nat /\ FloorOf(k, s) <= Depth(k, s) /\ Depth(k, s) \in Nat
  BY FloorIs, SaneParts, OtherIs DEF Good
<1>2. b[me] = Depth(k, me) - n /\ b[me] \in Nat /\ FloorOf(k, me) <= b[me]
  BY <1>1 DEF Left
<1>3. \A s \in Stacks : s # me => b[s] = Depth(k, s)
  BY <1>1 DEF Left
<1>4. b = [s \in Stacks |-> b[s]] /\ \A s \in Stacks : b[s] \in Nat /\ FloorOf(k, s) <= b[s]
  BY <1>1, <1>2, <1>3 DEF Left
<1> QED BY <1>2, <1>3, <1>4

LEMMA CallIs ==
  ASSUME Good(m), NEW me \in Operands, NEW n \in Nat, Call(me, n)
  PROVE  /\ Has(me, n) /\ Depth(m, "C") + n <= MaxC /\ Len(m.cont) < MaxCalls
         /\ Steps(Handover(View(m), me, n), Callers(m.cont, me, Left(m, me, n)), Quiet)
<1>1. PICK h, b, fr : h = Entered(m, me, n) /\ b = Left(m, me, n) /\ fr = [base |-> b, dst |-> me, offset |-> -Arguments]
  OBVIOUS
<1>2. Has(me, n) /\ Depth(m, "C") + n <= MaxC /\ Len(m.cont) < MaxCalls
  BY DEF Call
<1>3. Sane(m) /\ me \in Stacks /\ Other(me) \in Stacks /\ "C" \in Stacks /\ m.offset = -Arguments
  BY GoodParts, OtherIs, ContextParts DEF Stacks
<1>20. /\ Floor(me) = FloorOf(m, me) /\ FloorOf(m, me) \in Nat /\ Depth(m, me) \in Nat
       /\ Has(me, n) <=> Floor(me) + n <= Depth(m, me)
  BY <1>3, FloorsAre
<1>21. FloorOf(m, me) + n <= Depth(m, me) /\ n <= Depth(m, me)
  BY <1>2, <1>20
<1>4. FloorOf(m, me) + n <= Depth(m, me) /\ n <= Depth(m, me) /\ \A s \in Stacks : Depth(m, s) \in Nat
  BY <1>3, <1>21, FloorsAre
<1>5. /\ Sane(h) /\ h.cont = m.cont /\ View(h) = Handover(View(m), me, n)
      /\ Depth(h, me) = Depth(m, me) - n /\ Depth(h, Other(me)) = Depth(m, Other(me))
      /\ Depth(h, "C") = Depth(m, "C") + n
  BY <1>1, <1>3, <1>4, EnteredIs
<1>6. /\ b \in [Stacks -> Nat] /\ b[me] = Depth(m, me) - n /\ \A s \in Stacks : s # me => b[s] = Depth(m, s)
      /\ \A s \in Stacks : FloorOf(m, s) <= b[s]
  BY <1>1, <1>4, LeftIs
<1>7. fr \in Frames
  BY <1>1, <1>6 DEF Frames
<1>8. PICK c, j : c = Append(m.cont, fr) /\ j = [h EXCEPT !.cont = c]
  OBVIOUS
<1>9. c \in Seq(Frames)
  BY <1>3, <1>7, <1>8, GoodParts, ContextParts
<1>22. Sane(h) /\ j = [h EXCEPT !.cont = c]
  BY <1>5, <1>8
<1>10. Sane(j) /\ j.cont = c /\ View(j) = View(h) /\ \A s \in Stacks : Depth(j, s) = Depth(h, s)
  <2>1. /\ Sane(j) /\ j.cont = c /\ View(j) = View(h)
        /\ \A s \in Stacks : Depth(j, s) = Depth(h, s)
    BY <1>9, <1>22, FramesIs
  <2> QED BY <2>1
<1>11. fr.base = b
  BY <1>1
<1>12. \A s \in Stacks : FloorOf(m, s) <= fr.base[s] /\ fr.base[s] <= Depth(j, s)
  <2>1. me # "C" /\ \A s \in Stacks : s = me \/ s = Other(me) \/ s = "C"
    BY OtherIs
  <2>2. Other(me) # me
    BY OtherIs
  <2>3. b[me] <= Depth(j, me)
    BY <1>3, <1>4, <1>5, <1>6, <1>10
  <2>4. b[Other(me)] <= Depth(j, Other(me))
    BY <1>3, <1>4, <1>5, <1>6, <1>10, <2>2
  <2>5. b["C"] <= Depth(j, "C")
    BY <1>3, <1>4, <1>5, <1>6, <1>10, <2>1
  <2> QED BY <1>6, <1>11, <2>1, <2>3, <2>4, <2>5
<1>13. Good(j)
  BY <1>7, <1>8, <1>10, <1>12, DeeperGood
<1>14. Leaves(j)
  <2>1. Leaves([h EXCEPT !.cont = Append(@, [base |-> b, dst |-> me, offset |-> m.offset])])
    BY <1>1 DEF Call, Left
  <2>2. Append(h.cont, [base |-> b, dst |-> me, offset |-> m.offset]) = c
    BY <1>1, <1>3, <1>5, <1>8
  <2> QED BY <1>8, <2>1, <2>2
<1>15. Steps(View(j), j.cont, Quiet)
  BY <1>13, <1>14, LeavesIs
<1>16. j.cont = Callers(m.cont, me, Left(m, me, n))
  BY <1>1, <1>8, <1>10 DEF Callers
<1> QED BY <1>2, <1>5, <1>10, <1>15, <1>16

LEMMA TailCallIs ==
  ASSUME Good(m), NEW me \in Operands, NEW n \in Nat, TailCall(me, n)
  PROVE  /\ Alone(me, n) /\ Floor("C") + n <= MaxC
         /\ Steps(Handover(Shorter(View(m), "C", Floor("C")), me, n), m.cont, Quiet)
<1>1. PICK base, got : base = Floor(me) /\ got = Captures(m, me, base, n)
  OBVIOUS
<1>2. PICK fc, h, j : fc = Floor("C") /\ h = Cut(got, "C", fc) /\ j = Entered(h, me, n)
  OBVIOUS
<1>3. Alone(me, n) /\ fc + n <= MaxC /\ Leaves(j)
  BY <1>1, <1>2 DEF TailCall, Captures, Row
<1>4. Sane(m) /\ me \in Stacks /\ Other(me) \in Stacks /\ "C" \in Stacks /\ me # "C" /\ Other(me) # "C"
  BY GoodParts, OtherIs DEF Stacks
<1>5. /\ base \in Nat /\ fc \in Nat /\ fc <= Depth(m, "C") /\ fc = FloorOf(m, "C") /\ base = FloorOf(m, me)
      /\ \A s \in Stacks : FloorOf(m, s) \in Nat /\ FloorOf(m, s) <= Depth(m, s) /\ Depth(m, s) \in Nat
  BY <1>1, <1>2, <1>4, FloorsAre
<1>6. Depth(m, me) = base + n
  BY <1>1, <1>3 DEF Alone
<1>7. base + n <= Depth(m, me)
  BY <1>4, <1>5, <1>6
<1>8. Keeps(m, got)
  BY <1>1, <1>4, <1>5, <1>7, CapturesIs
<1>9. Sane(got) /\ got.cont = m.cont /\ View(got) = View(m) /\ \A s \in Stacks : Depth(got, s) = Depth(m, s)
  BY <1>4, <1>8, KeepsStill, SameView DEF Still, SameShape
<1>10. fc <= Depth(got, "C")
  BY <1>4, <1>5, <1>9
<1>11. Cropped(got, h, "C", fc)
  BY <1>2, <1>4, <1>5, <1>9, <1>10, CropIs
<1>12. /\ Sane(h) /\ h.cont = m.cont /\ View(h) = Shorter(View(m), "C", fc)
       /\ \A s \in Stacks : Depth(h, s) = IF s = "C" THEN fc ELSE Depth(m, s)
  BY <1>9, <1>11 DEF Cropped
<1>13. n <= Depth(h, me)
  BY <1>4, <1>5, <1>6, <1>12
<1>14. /\ Sane(j) /\ j.cont = h.cont /\ View(j) = Handover(View(h), me, n)
       /\ Depth(j, me) = Depth(h, me) - n /\ Depth(j, Other(me)) = Depth(h, Other(me))
       /\ Depth(j, "C") = Depth(h, "C") + n
  BY <1>2, <1>12, <1>13, EnteredIs
<1>15. \A s \in Stacks : FloorOf(m, s) <= Depth(j, s)
  <2>1. \A s \in Stacks : s = me \/ s = Other(me) \/ s = "C"
    BY OtherIs
  <2>2. FloorOf(m, me) <= Depth(j, me)
    BY <1>4, <1>5, <1>6, <1>12, <1>14
  <2>3. FloorOf(m, Other(me)) <= Depth(j, Other(me))
    BY <1>4, <1>5, <1>12, <1>14
  <2>4. FloorOf(m, "C") <= Depth(j, "C")
    BY <1>4, <1>5, <1>12, <1>14
  <2> QED BY <2>1, <2>2, <2>3, <2>4
<1>16. Good(j)
  BY <1>12, <1>14, <1>15, StillGood
<1>17. Steps(View(j), j.cont, Quiet)
  BY <1>3, <1>16, LeavesIs
<1> QED BY <1>2, <1>3, <1>12, <1>14, <1>17

-----------------------------------------------------------------------------
(* Returning to a caller.                                                    *)

Returned(st, base, to, me, n) ==
  [s \in Stacks |-> SubSeq(st[s], 1, base[s])
                      \o IF s = to THEN SubSeq(st[me], Len(st[me]) - n + 1, Len(st[me])) ELSE <<>>]

\* What is under the bases is as it was, and n elements of `me` are on `to`.
Arrived(p, q, base, to, me, n) ==
  /\ Family(q)
  /\ \A s \in Stacks : /\ Len(q[s]) = base[s] + (IF s = to THEN n ELSE 0)
                       /\ \A i \in Nat : i >= 1 /\ i <= base[s] => q[s][i] = p[s][i]
  /\ \A i \in Nat : i >= 1 /\ i <= n => q[to][base[to] + i] = p[me][base[me] + i]

LEMMA PartIs ==
  ASSUME NEW q \in Seq(Values), NEW a \in Nat, NEW n \in Nat, a + n <= Len(q), NEW w, w = SubSeq(q, a + 1, a + n)
  PROVE  w \in Seq(Values) /\ Len(w) = n /\ \A i \in 1 .. n : w[i] = q[a + i]
<1>1. PICK b, c : b = a + 1 /\ c = a + n
  OBVIOUS
<1>2. /\ b \in Nat /\ c \in Nat /\ b >= 1 /\ c <= Len(q) /\ c - b + 1 = n
      /\ \A i \in 1 .. n : b + i - 1 = a + i /\ a + i \in 1 .. Len(q)
  BY <1>1
<1>3. w = [i \in 1 .. c - b + 1 |-> q[b + i - 1]]
  <2>1. w = SubSeq(q, b, c)
    BY <1>1
  <2> QED BY <1>2, <2>1
<1>4. w = [i \in 1 .. n |-> q[b + i - 1]]
  BY <1>2, <1>3
<1>5. \A i \in 1 .. n : w[i] = q[a + i] /\ w[i] \in Values
  BY <1>2, <1>4
<1>6. w \in [1 .. n -> Values]
  BY <1>4, <1>5
<1>7. Len(w) = n
  BY <1>4
<1>8. w \in Seq(Values)
  BY ONLY <1>6, n \in Nat
<1> QED BY <1>5, <1>7, <1>8

LEMMA ReturnedAll ==
  ASSUME NEW p, Family(p), NEW base \in [Stacks -> Nat], NEW me \in Stacks, NEW to \in Stacks, NEW n \in Nat,
         \A s \in Stacks : base[s] <= Len(p[s]), Len(p[me]) = base[me] + n,
         NEW q, Arrived(p, q, base, to, me, n)
  PROVE  q = Returned(p, base, to, me, n)
<1>1. PICK r : r = Returned(p, base, to, me, n)
  OBVIOUS
<1>2. PICK w : w = SubSeq(p[me], base[me] + 1, base[me] + n)
  OBVIOUS
<1>3. p \in [Stacks -> Seq(Values)] /\ q \in [Stacks -> Seq(Values)]
  BY DEF Family, Arrived
<1>4. \A s \in Stacks : base[s] \in Nat /\ p[s] \in Seq(Values) /\ Len(p[s]) \in Nat
  BY <1>3
<1>5. w \in Seq(Values) /\ Len(w) = n /\ \A i \in 1 .. n : w[i] = p[me][base[me] + i]
  <2>1. PICK x, a : x = p[me] /\ a = base[me]
    OBVIOUS
  <2>2. x \in Seq(Values) /\ a \in Nat /\ a + n <= Len(x) /\ w = SubSeq(x, a + 1, a + n)
    <3>1. w = SubSeq(x, a + 1, a + n)
      BY <1>2, <2>1
    <3>2. x \in Seq(Values) /\ a \in Nat
      BY <1>4, <2>1
    <3>3. Len(x) = a + n
      BY <2>1
    <3> QED BY <3>1, <3>2, <3>3
  <2>3. w \in Seq(Values) /\ Len(w) = n /\ \A i \in 1 .. n : w[i] = x[a + i]
    BY ONLY n \in Nat, <2>2, PartIs
  <2> QED BY <2>1, <2>3
<1>6. \A s \in Stacks : r[s] = SubSeq(p[s], 1, base[s]) \o IF s = to THEN w ELSE <<>>
  <2>1. Len(p[me]) - n + 1 = base[me] + 1
    BY <1>4
  <2> QED BY <1>1, <1>2, <2>1 DEF Returned
<1>7. ASSUME NEW s \in Stacks
      PROVE  /\ r[s] \in Seq(Values) /\ Len(r[s]) = Len(q[s])
             /\ \A i \in 1 .. Len(q[s]) : r[s][i] = q[s][i]
  <2>1. PICK x, y, b : x = SubSeq(p[s], 1, b) /\ b = base[s] /\ y = IF s = to THEN w ELSE <<>>
    OBVIOUS
  <2>2. b \in Nat /\ b <= Len(p[s])
    BY <1>4, <2>1
  <2>3. x \in Seq(Values) /\ Len(x) = b /\ \A i \in 1 .. b : x[i] = p[s][i]
    BY <1>4, <2>1, <2>2
  <2>4. PICK l : l = IF s = to THEN n ELSE 0
    OBVIOUS
  <2>5. y \in Seq(Values) /\ Len(y) = l /\ l \in Nat
    BY <1>5, <2>1, <2>4
  <2>6. r[s] = x \o y
    BY <1>6, <2>1
  <2>7. /\ r[s] \in Seq(Values) /\ Len(r[s]) = b + l
        /\ \A i \in 1 .. b : r[s][i] = x[i]
        /\ \A i \in 1 .. l : r[s][b + i] = y[i]
    <3>1. /\ x \o y \in Seq(Values) /\ Len(x \o y) = Len(x) + Len(y)
          /\ \A i \in 1 .. Len(x) : (x \o y)[i] = x[i]
          /\ \A i \in 1 .. Len(y) : (x \o y)[Len(x) + i] = y[i]
      <4>1. x \in Seq(Values) /\ y \in Seq(Values)
        BY <2>3, <2>5
      <4> QED BY ONLY <4>1, JoinOf
    <3> QED BY <2>3, <2>5, <2>6, <3>1
  <2>8. Len(q[s]) = b + l
    BY <2>1, <2>4 DEF Arrived
  <2>9. ASSUME NEW i \in 1 .. Len(q[s]) PROVE r[s][i] = q[s][i]
    <3>1. CASE i <= b
      <4>1. i \in Nat /\ i >= 1 /\ i \in 1 .. b
        BY <2>2, <2>5, <2>8, <3>1
      <4>2. q[s][i] = p[s][i]
        BY <2>1, <3>1, <4>1 DEF Arrived
      <4> QED BY <2>3, <2>7, <4>1, <4>2
    <3>2. CASE i > b
      <4>1. PICK a : a = i - b
        OBVIOUS
      <4>2. a \in 1 .. l /\ i = b + a /\ a \in Nat /\ a >= 1 /\ a <= l
        BY <2>2, <2>5, <2>8, <3>2, <4>1
      <4>3. s = to /\ l = n
        BY <2>4, <4>2
      <4>4. q[to][base[to] + a] = p[me][base[me] + a]
        BY <4>2, <4>3 DEF Arrived
      <4>5. y[a] = p[me][base[me] + a]
        BY <1>5, <2>1, <4>2, <4>3
      <4> QED BY <2>1, <2>7, <4>2, <4>3, <4>4, <4>5
    <3> QED BY <2>2, <2>5, <2>8, <3>1, <3>2
  <2> QED BY <2>7, <2>8, <2>9
<1>8. r \in [Stacks -> Seq(Values)]
  <2>1. r = [s \in Stacks |-> r[s]]
    BY <1>1 DEF Returned
  <2> QED BY <1>7, <2>1
<1>9. r = q
  <2>1. \A s \in Stacks : Len(r[s]) = Len(q[s]) /\ \A i \in 1 .. Len(q[s]) : r[s][i] = q[s][i]
    BY <1>7
  <2>2. r \in [Stacks -> Seq(Values)] /\ q \in [Stacks -> Seq(Values)]
    BY <1>3, <1>8
  <2> QED BY ONLY <2>1, <2>2, SameStacks
<1> QED BY <1>1, <1>9

\* The results stay on their stack.
LEMMA ArrivedSame ==
  ASSUME NEW p, Family(p), NEW base \in [Stacks -> Nat], NEW me \in Operands, NEW n \in Nat,
         \A s \in Stacks : base[s] <= Len(p[s]), Len(p[me]) = base[me] + n, Len(p[Other(me)]) = base[Other(me)],
         NEW q, Shortens(p, q, "C", base["C"])
  PROVE  Arrived(p, q, base, me, me, n)
<1>1. /\ me \in Stacks /\ Other(me) \in Stacks /\ "C" \in Stacks /\ Other(me) # me /\ me # "C" /\ Other(me) # "C"
      /\ \A s \in Stacks : s = me \/ s = Other(me) \/ s = "C"
  BY OtherIs DEF Stacks
<1>2. /\ Family(q) /\ \A t \in Stacks : t # "C" => q[t] = p[t]
      /\ Len(q["C"]) = base["C"] /\ \A i \in 1 .. base["C"] : q["C"][i] = p["C"][i]
  BY DEF Shortens
<1>3. ASSUME NEW s \in Stacks
      PROVE  /\ Len(q[s]) = base[s] + (IF s = me THEN n ELSE 0)
             /\ \A i \in Nat : i >= 1 /\ i <= base[s] => q[s][i] = p[s][i]
  <2>1. base[s] \in Nat
    OBVIOUS
  <2>2. CASE s = me
    BY <1>1, <1>2, <2>2
  <2>3. CASE s = Other(me)
    BY <1>1, <1>2, <2>1, <2>3
  <2>4. CASE s = "C"
    <3>1. Len(q[s]) = base[s] + 0
      BY <1>2, <2>1, <2>4
    <3>2. \A i \in Nat : i >= 1 /\ i <= base[s] => q[s][i] = p[s][i]
      BY <1>2, <2>1, <2>4
    <3> QED BY <1>1, <2>4, <3>1, <3>2
  <2> QED BY <1>1, <2>2, <2>3, <2>4
<1>4. q[me] = p[me]
  BY <1>1, <1>2
<1> QED BY <1>2, <1>3, <1>4 DEF Arrived

\* They go to the other one.
LEMMA ArrivedOther ==
  ASSUME NEW p, Family(p), NEW base \in [Stacks -> Nat], NEW me \in Operands, NEW n \in Nat,
         \A s \in Stacks : base[s] <= Len(p[s]), Len(p[me]) = base[me] + n, Len(p[Other(me)]) = base[Other(me)],
         NEW h, Raised(p, h, me, Other(me), base[me], n),
         NEW i, Shortens(h, i, me, base[me]), NEW q, Shortens(i, q, "C", base["C"])
  PROVE  Arrived(p, q, base, Other(me), me, n)
<1>1. /\ me \in Stacks /\ Other(me) \in Stacks /\ "C" \in Stacks /\ Other(me) # me /\ me # "C" /\ Other(me) # "C"
      /\ \A s \in Stacks : s = me \/ s = Other(me) \/ s = "C"
  BY OtherIs DEF Stacks
<1>2. PICK to : to = Other(me)
  OBVIOUS
<1>3. \A s \in Stacks : base[s] \in Nat /\ p[s] \in Seq(Values)
  BY DEF Family
<1>4. /\ \A s \in Stacks : s # to => h[s] = p[s]
      /\ Len(h[to]) = base[to] + n /\ \A x \in Nat : x >= 1 /\ x <= base[to] => h[to][x] = p[to][x]
      /\ \A x \in Nat : x >= 1 /\ x <= n => h[to][base[to] + x] = p[me][base[me] + x]
  <2>1. Len(p[to]) = base[to]
    BY <1>2
  <2> QED BY <1>2, <2>1 DEF Raised
<1>5. /\ \A t \in Stacks : t # me => i[t] = h[t]
      /\ Len(i[me]) = base[me] /\ \A x \in 1 .. base[me] : i[me][x] = h[me][x]
  BY DEF Shortens
<1>6. /\ Family(q) /\ \A t \in Stacks : t # "C" => q[t] = i[t]
      /\ Len(q["C"]) = base["C"] /\ \A x \in 1 .. base["C"] : q["C"][x] = i["C"][x]
  BY DEF Shortens
<1>7. q[to] = h[to] /\ i["C"] = p["C"] /\ h[me] = p[me] /\ q[me] = i[me]
  BY <1>1, <1>2, <1>4, <1>5, <1>6
<1>8. ASSUME NEW s \in Stacks
      PROVE  /\ Len(q[s]) = base[s] + (IF s = to THEN n ELSE 0)
             /\ \A x \in Nat : x >= 1 /\ x <= base[s] => q[s][x] = p[s][x]
  <2>1. base[s] \in Nat
    BY <1>3
  <2>2. CASE s = me
    <3>1. Len(q[s]) = base[s] + 0 /\ s # to
      BY <1>1, <1>2, <1>5, <1>7, <2>1, <2>2
    <3>2. \A x \in Nat : x >= 1 /\ x <= base[s] => q[s][x] = p[s][x]
      BY <1>5, <1>7, <2>1, <2>2
    <3> QED BY <3>1, <3>2
  <2>3. CASE s = Other(me)
    BY <1>2, <1>4, <1>7, <2>3
  <2>4. CASE s = "C"
    <3>1. Len(q[s]) = base[s] + 0 /\ s # to
      BY <1>1, <1>2, <1>6, <2>1, <2>4
    <3>2. \A x \in Nat : x >= 1 /\ x <= base[s] => q[s][x] = p[s][x]
      BY <1>6, <1>7, <2>1, <2>4
    <3> QED BY <3>1, <3>2
  <2> QED BY <1>1, <2>2, <2>3, <2>4
<1>9. ASSUME NEW x \in Nat, x >= 1, x <= n PROVE q[to][base[to] + x] = p[me][base[me] + x]
  BY <1>4, <1>7, <1>9
<1> QED BY <1>2, <1>6, <1>8, <1>9 DEF Arrived

\* The frame at the end of the list.
LEMMA LastIs ==
  ASSUME Good(m), m.cont # <<>>, NEW f, f = m.cont[Len(m.cont)], NEW c, c = SubSeq(m.cont, 1, Len(m.cont) - 1)
  PROVE  /\ f.base \in [Stacks -> Nat] /\ f.dst \in Operands /\ f.offset = -Arguments /\ c \in Seq(Frames)
         /\ \A s \in Stacks : /\ f.base[s] = Floor(s) /\ f.base[s] \in Nat /\ f.base[s] <= Depth(m, s)
                              /\ Len(View(m)[s]) = Depth(m, s) /\ Depth(m, s) \in Nat
<1>1. Sane(m)
  BY GoodParts
<1>2. m.cont \in Seq(Frames) /\ Len(m.cont) \in Nat /\ Len(m.cont) \in 1 .. Len(m.cont)
  BY <1>1, FramesAre
<1>3. f.base \in [Stacks -> Nat] /\ f.dst \in Operands /\ f.offset = -Arguments
  BY <1>1, <1>2, FramesAre
<1>4. c \in Seq(Frames)
  <2>1. PICK l : l = Len(m.cont) - 1
    OBVIOUS
  <2>2. l \in Nat /\ l <= Len(m.cont) /\ c = SubSeq(m.cont, 1, l)
    BY <1>2, <2>1
  <2> QED BY <1>2, <2>2
<1>5. \A s \in Stacks : f.base[s] = Floor(s)
  BY DEF Floor
<1>6. \A s \in Stacks : Floor(s) = FloorOf(m, s) /\ FloorOf(m, s) <= Depth(m, s) /\ Depth(m, s) \in Nat
  BY FloorsAre
<1>7. \A s \in Stacks : Len(View(m)[s]) = Depth(m, s)
  BY <1>1, ViewIs
<1> QED BY <1>3, <1>4, <1>5, <1>6, <1>7

\* What C is cut to, and the frame that is gone.
Behind(k, f) == [Cut(k, "C", f.base["C"]) EXCEPT !.offset = f.offset, !.cont = SubSeq(@, 1, Len(@) - 1)]

LEMMA LeftBehind ==
  ASSUME Good(m), m.cont # <<>>, NEW f, f = m.cont[Len(m.cont)], NEW c, c = SubSeq(m.cont, 1, Len(m.cont) - 1),
         NEW k, Sane(k), k.cont = m.cont, Depth(k, "C") = Depth(m, "C"),
         \A s \in Operands : f.base[s] <= Depth(k, s),
         NEW j, j = Behind(k, f)
  PROVE  /\ Good(j) /\ j.cont = c
         /\ View(j) = Shorter(View(k), "C", f.base["C"])
<1>1. /\ f.base \in [Stacks -> Nat] /\ f.offset = -Arguments /\ c \in Seq(Frames)
      /\ \A s \in Stacks : f.base[s] \in Nat /\ f.base[s] <= Depth(m, s)
  BY LastIs
<1>2. "C" \in Stacks /\ "C" \notin Operands /\ \A s \in Stacks : s \in Operands \/ s = "C"
  BY DEF Stacks, Operands
<1>3. PICK h, x : h = Cut(k, "C", x) /\ x = f.base["C"]
  OBVIOUS
<1>4. x \in Nat /\ x <= Depth(k, "C")
  BY <1>1, <1>2, <1>3
<1>5. Cropped(k, h, "C", x)
  BY <1>2, <1>3, <1>4, CropIs
<1>6. /\ Sane(h) /\ h.cont = m.cont /\ View(h) = Shorter(View(k), "C", x)
      /\ \A s \in Stacks : Depth(h, s) = IF s = "C" THEN x ELSE Depth(k, s)
  BY <1>5 DEF Cropped
<1>7. PICK i : i = [h EXCEPT !.offset = -Arguments]
  OBVIOUS
<1>8. i = h
  BY <1>6, <1>7, OffsetIs, SaneParts
<1>9. j = [h EXCEPT !.cont = c]
  <2>1. j = [h EXCEPT !.offset = -Arguments, !.cont = SubSeq(@, 1, Len(@) - 1)]
    BY <1>1, <1>3 DEF Behind
  <2>2. j = [i EXCEPT !.cont = SubSeq(i.cont, 1, Len(i.cont) - 1)]
    BY <1>7, <2>1
  <2>3. SubSeq(i.cont, 1, Len(i.cont) - 1) = c
    BY <1>6, <1>8
  <2> QED BY <1>8, <2>2, <2>3
<1>10. /\ Sane(j) /\ j.cont = c /\ View(j) = View(h)
       /\ \A s \in Stacks : Depth(j, s) = Depth(h, s)
  <2>1. Sane(h) /\ c \in Seq(Frames)
    BY <1>1, <1>6
  <2> QED BY ONLY <2>1, <1>9, FramesIs
<1>11. \A s \in Stacks : f.base[s] <= Depth(j, s)
  <2>1. \A s \in Operands : f.base[s] <= Depth(j, s)
    BY <1>2, <1>6, <1>10 DEF Stacks, Operands
  <2>2. f.base["C"] <= Depth(j, "C")
    <3>1. Depth(j, "C") = Depth(h, "C") /\ Depth(h, "C") = x
      BY <1>2, <1>6, <1>10
    <3> QED BY <1>3, <1>4, <3>1
  <2> QED BY <1>2, <2>1, <2>2
<1>12. Good(j)
  <2>1. Sane(j) /\ j.cont = SubSeq(m.cont, 1, Len(m.cont) - 1)
    BY <1>10
  <2>2. \A s \in Stacks : m.cont[Len(m.cont)].base[s] <= Depth(j, s)
    BY <1>11
  <2>3. Good(m) /\ m.cont # <<>>
    OBVIOUS
  <2> QED BY ONLY <2>1, <2>2, <2>3, ShallowerGood
<1> QED BY <1>3, <1>6, <1>10, <1>12

LEMMA ReturnIs ==
  ASSUME Good(m), stale' = "none", NEW me \in Operands, NEW n \in Nat, Return(me, n),
         NEW f, f = m.cont[Len(m.cont)], NEW c, c = SubSeq(m.cont, 1, Len(m.cont) - 1)
  PROVE  /\ m.cont # <<>> /\ Alone(me, n) /\ (f.dst = me \/ Depth(m, f.dst) + n <= Max(f.dst))
         /\ Steps(Returned(View(m), f.base, f.dst, me, n), c, Quiet)
<1>1. /\ m.cont # <<>> /\ Alone(me, n) /\ (f.dst = me \/ Depth(m, f.dst) + n <= Max(f.dst))
      /\ f.dst # me => ~GoneHome(m, me, f.base[me], n)
  <2>1. /\ m.cont # <<>> /\ Alone(me, n) /\ (f.dst = me \/ Depth(m, f.dst) + n <= Max(f.dst))
        /\ Marks(f.dst # me /\ GoneHome(m, me, f.base[me], n), "result")
    BY DEF Return
  <2>2. ~(f.dst # me /\ GoneHome(m, me, f.base[me], n))
    BY <2>1, UnmarkedIs
  <2> QED BY <2>1, <2>2
<1>2. /\ f.base \in [Stacks -> Nat] /\ f.dst \in Operands /\ f.offset = -Arguments /\ c \in Seq(Frames)
      /\ \A s \in Stacks : /\ f.base[s] = Floor(s) /\ f.base[s] \in Nat /\ f.base[s] <= Depth(m, s)
                           /\ Len(View(m)[s]) = Depth(m, s) /\ Depth(m, s) \in Nat
  BY <1>1, LastIs
<1>3. /\ me \in Stacks /\ Other(me) \in Stacks /\ "C" \in Stacks /\ Other(me) # me /\ me # "C" /\ Other(me) # "C"
      /\ Other(me) \in Operands /\ \A s \in Operands : s = me \/ s = Other(me)
  BY OtherIs DEF Stacks, Operands
<1>4. Depth(m, me) = f.base[me] + n /\ Depth(m, Other(me)) = f.base[Other(me)]
  BY <1>1, <1>2, <1>3 DEF Alone
<1>5. Sane(m)
  BY GoodParts
<1>6. PICK k, j : /\ k = IF f.dst = me THEN m ELSE Cut(Handing(m, me, f.dst, f.base[me], n), me, f.base[me])
                  /\ j = Behind(k, f)
  OBVIOUS
<1>7. out' = Quiet /\ \E e \in Edges(j) : Arrives(Edge(j, e))
  BY <1>6 DEF Return, Behind
<1>8. PICK p, x : p = View(m) /\ x = f.base["C"]
  OBVIOUS
<1>9. /\ Family(p) /\ x \in Nat
      /\ \A s \in Stacks : f.base[s] <= Len(p[s])
      /\ Len(p[me]) = f.base[me] + n /\ Len(p[Other(me)]) = f.base[Other(me)]
  BY <1>2, <1>3, <1>4, <1>5, <1>8, ViewIs DEF Family
<1>10. CASE f.dst = me
  <2>1. k = m
    BY <1>6, <1>10
  <2>2. \A s \in Operands : f.base[s] <= Depth(k, s)
    BY <1>2, <1>3, <2>1
  <2>3. Good(j) /\ j.cont = c /\ View(j) = Shorter(p, "C", x)
    <3>1. Sane(k) /\ k.cont = m.cont /\ Depth(k, "C") = Depth(m, "C")
      BY <1>5, <2>1
    <3>2. Good(j) /\ j.cont = c /\ View(j) = Shorter(View(k), "C", f.base["C"])
      <4>1. j = Behind(k, f)
        BY <1>6
      <4> QED BY <1>1, <2>2, <3>1, <4>1, LeftBehind
    <3> QED BY <1>8, <2>1, <3>2
  <2>4. Shortens(p, View(j), "C", f.base["C"])
    BY <1>3, <1>8, <1>9, <2>3, ShorterIs
  <2>5. Arrived(p, View(j), f.base, me, me, n)
    BY <1>2, <1>9, <2>4, ArrivedSame
  <2>6. View(j) = Returned(p, f.base, me, me, n)
    BY <1>2, <1>3, <1>9, <2>5, ReturnedAll
  <2>7. Steps(View(j), j.cont, Quiet)
    BY <1>7, <2>3, DepartsIs
  <2> QED BY <1>1, <1>8, <1>10, <2>3, <2>6, <2>7
<1>11. CASE f.dst # me
  <2>1. f.dst = Other(me)
    BY <1>2, <1>3, <1>11
  <2>2. PICK to, b, h : to = Other(me) /\ b = f.base[me] /\ h = Handing(m, me, to, b, n)
    OBVIOUS
  <2>3. b \in Nat /\ b + n <= Depth(m, me) /\ to \in Stacks
    BY <1>2, <1>3, <1>4, <2>2
  <2>4. /\ Sane(h) /\ h.cont = m.cont
        /\ \A s \in Stacks : Depth(h, s) = IF s = to THEN Depth(m, s) + n ELSE Depth(m, s)
        /\ Raised(View(m), View(h), me, to, b, n)
    <3>1. Sane(m) /\ me \in Stacks /\ to \in Stacks /\ me # to /\ b \in Nat /\ n \in Nat /\ b + n <= Depth(m, me)
          /\ ~GoneHome(m, me, b, n) /\ h = Handing(m, me, to, b, n)
      BY <1>1, <1>3, <1>5, <1>11, <2>1, <2>2, <2>3
    <3> QED BY ONLY <3>1, HandingIs
  <2>5. k = Cut(h, me, b)
    BY <1>6, <1>11, <2>1, <2>2
  <2>6. b <= Depth(h, me)
    BY <1>2, <1>3, <1>4, <2>2, <2>3, <2>4
  <2>7. Cropped(h, k, me, b)
    BY <1>3, <2>3, <2>4, <2>5, <2>6, CropIs
  <2>8. /\ Sane(k) /\ k.cont = m.cont /\ View(k) = Shorter(View(h), me, b)
        /\ \A s \in Stacks : Depth(k, s) = IF s = me THEN b ELSE Depth(h, s)
    BY <2>4, <2>7 DEF Cropped
  <2>9. Depth(k, "C") = Depth(m, "C") /\ Depth(k, me) = b /\ Depth(k, to) = Depth(m, to) + n
    BY <1>3, <2>2, <2>4, <2>8
  <2>10. \A s \in Operands : f.base[s] <= Depth(k, s)
    <3>1. f.base[me] <= Depth(k, me)
      BY <2>2, <2>3, <2>9
    <3>2. f.base[to] <= Depth(k, to)
      <4>1. f.base[to] \in Nat /\ Depth(m, to) \in Nat /\ f.base[to] <= Depth(m, to)
        BY <1>2, <1>3, <2>3
      <4> QED BY <2>9, <4>1
    <3>3. \A s \in Operands : s = me \/ s = to
      BY <2>2 DEF Operands, Other
    <3> QED BY <3>1, <3>2, <3>3
  <2>11. Good(j) /\ j.cont = c /\ View(j) = Shorter(View(k), "C", x)
    <3>1. Sane(k) /\ k.cont = m.cont /\ Depth(k, "C") = Depth(m, "C")
      BY <2>8, <2>9
    <3>2. Good(j) /\ j.cont = c /\ View(j) = Shorter(View(k), "C", f.base["C"])
      <4>1. j = Behind(k, f)
        BY <1>6
      <4> QED BY <1>1, <2>10, <3>1, <4>1, LeftBehind
    <3> QED BY <1>8, <3>2
  <2>12. /\ Family(View(h)) /\ Len(View(h)[me]) = Depth(h, me)
         /\ Family(View(k)) /\ Len(View(k)["C"]) = Depth(k, "C")
    BY <1>3, <2>4, <2>8, ViewIs DEF Family
  <2>13. Shortens(View(h), View(k), me, b)
    BY <1>3, <2>3, <2>6, <2>8, <2>12, ShorterIs
  <2>14. x <= Len(View(k)["C"])
    BY <1>2, <1>3, <1>8, <2>9, <2>12
  <2>15. Shortens(View(k), View(j), "C", x)
    BY <1>3, <1>9, <2>11, <2>12, <2>14, ShorterIs
  <2>16. PICK q : q = View(h)
    OBVIOUS
  <2>17. Raised(p, q, me, Other(me), f.base[me], n)
    BY <1>8, <2>2, <2>4, <2>16
  <2>18. Shortens(q, View(k), me, f.base[me]) /\ Shortens(View(k), View(j), "C", f.base["C"])
    BY <1>8, <2>2, <2>13, <2>15, <2>16
  <2>19. Arrived(p, View(j), f.base, Other(me), me, n)
    BY <1>2, <1>9, <2>1, <2>17, <2>18, ArrivedOther
  <2>20. View(j) = Returned(p, f.base, Other(me), me, n)
    BY <1>2, <1>3, <1>9, <2>19, ReturnedAll
  <2>21. Steps(View(j), j.cont, Quiet)
    BY <1>7, <2>11, DepartsIs
  <2> QED BY <1>1, <1>8, <2>1, <2>11, <2>20, <2>21
<1> QED BY <1>10, <1>11

-----------------------------------------------------------------------------
(* Calls that are not compiled into the caller.                              *)

Topmost(st, me, n) == SubSeq(st[me], Len(st[me]) - n + 1, Len(st[me]))

Answered(st, me, n, results, v) ==
  [st EXCEPT ![me] = SubSeq(st[me], 1, Len(st[me]) - n) \o [i \in 1 .. results |-> v]]

\* Up to a on the stack `me`, and on the others, q is p.
Agree(p, q, me, a) ==
  /\ Family(q) /\ a <= Len(q[me]) /\ \A t \in Stacks : t # me => q[t] = p[t]
  /\ \A i \in Nat : i >= 1 /\ i <= a => q[me][i] = p[me][i]

\* And v is over it, as often as there are results.
Answers(p, q, me, a, results, v) ==
  /\ Agree(p, q, me, a) /\ Len(q[me]) = a + results
  /\ \A i \in Nat : i >= 1 /\ i <= results => q[me][a + i] = v

LEMMA AgreeSelf ==
  ASSUME NEW p, Family(p), NEW me \in Stacks, NEW a \in Nat, a <= Len(p[me]) PROVE Agree(p, p, me, a)
BY DEF Agree

LEMMA AnswersAll ==
  ASSUME NEW p, Family(p), NEW me \in Stacks, NEW n \in Nat, NEW a \in Nat, Len(p[me]) = a + n, NEW results \in Nat,
         NEW v \in Values, NEW q, Answers(p, q, me, a, results, v)
  PROVE  q = Answered(p, me, n, results, v)
<1>1. p \in [Stacks -> Seq(Values)] /\ q \in [Stacks -> Seq(Values)] /\ p[me] \in Seq(Values)
  BY DEF Answers, Agree, Family
<1>2. PICK r, x, y : r = Answered(p, me, n, results, v) /\ x = SubSeq(p[me], 1, a) /\ y = [i \in 1 .. results |-> v]
  OBVIOUS
<1>3. x \in Seq(Values) /\ Len(x) = a /\ \A i \in 1 .. a : x[i] = p[me][i]
  BY <1>1, <1>2
<1>4. y \in Seq(Values) /\ Len(y) = results /\ \A i \in 1 .. results : y[i] = v
  BY <1>2
<1>5. r = [p EXCEPT ![me] = x \o y]
  <2>1. Len(p[me]) - n = a
    OBVIOUS
  <2> QED BY <1>2, <2>1 DEF Answered
<1>6. /\ x \o y \in Seq(Values) /\ Len(x \o y) = a + results
      /\ \A i \in 1 .. a : (x \o y)[i] = x[i]
      /\ \A i \in 1 .. results : (x \o y)[a + i] = y[i]
  <2>1. /\ x \o y \in Seq(Values) /\ Len(x \o y) = Len(x) + Len(y)
        /\ \A i \in 1 .. Len(x) : (x \o y)[i] = x[i]
        /\ \A i \in 1 .. Len(y) : (x \o y)[Len(x) + i] = y[i]
    <3>1. x \in Seq(Values) /\ y \in Seq(Values)
      BY <1>3, <1>4
    <3> QED BY ONLY <3>1, JoinOf
  <2> QED BY <1>3, <1>4, <2>1
<1>7. PICK z : z = x \o y
  OBVIOUS
<1>8. r \in [Stacks -> Seq(Values)] /\ r[me] = z /\ \A t \in Stacks : t # me => r[t] = p[t]
  BY <1>1, <1>5, <1>6, <1>7
<1>9. Len(q[me]) = a + results
  BY DEF Answers
<1>10. ASSUME NEW i \in 1 .. a + results PROVE z[i] = q[me][i]
  <2>1. CASE i <= a
    <3>1. i \in Nat /\ i >= 1 /\ i \in 1 .. a
      BY <2>1
    <3>2. q[me][i] = p[me][i]
      BY <2>1, <3>1 DEF Answers, Agree
    <3> QED BY <1>3, <1>6, <1>7, <3>1, <3>2
  <2>2. CASE i > a
    <3>1. PICK b : b = i - a
      OBVIOUS
    <3>2. b \in Nat /\ b >= 1 /\ b <= results /\ b \in 1 .. results /\ i = a + b
      BY <2>2, <3>1
    <3>3. q[me][a + b] = v
      BY <3>2 DEF Answers
    <3> QED BY <1>4, <1>6, <1>7, <3>2, <3>3
  <2> QED BY <2>1, <2>2
<1>11. ASSUME NEW s \in Stacks PROVE Len(r[s]) = Len(q[s]) /\ \A i \in 1 .. Len(q[s]) : r[s][i] = q[s][i]
  <2>1. CASE s = me
    BY <1>6, <1>7, <1>8, <1>9, <1>10, <2>1
  <2>2. CASE s # me
    <3>1. q[s] = p[s]
      BY <2>2 DEF Answers, Agree
    <3> QED BY <1>8, <2>2, <3>1
  <2> QED BY <2>1, <2>2
<1>12. r = q
  BY <1>1, <1>8, <1>11, SameStacks
<1> QED BY <1>2, <1>12

\* Nothing up to a on the stack `me`, and on the others, is in a register.
Away(k, me, a) == \A u \in Cells(k) : (u[1] = me => u[2] <= a) => Cell(k, u).kind # "reg"

\* Where a callee leaves its results.
Brings(k, me, a, results, v) ==
  /\ results = 1 => k.reg[0] = v
  /\ results # 1 => \A i \in Nat : i >= 1 /\ i <= results => Read(k, <<me, a + i - 1>>) = v

\* What a callee does to registers and memory.
LEMMA ClobberedIs ==
  ASSUME NEW k, Sane(k), NEW me \in Operands, NEW n \in Nat, NEW a \in Nat, Depth(k, me) = a + n, Away(k, me, a),
         NEW v \in Values, NEW results \in Nat, results >= 1, NEW j, j = Clobbered(k, me, Floors(k, me, n), v, results)
  PROVE  /\ Sane(j) /\ j.cont = k.cont /\ Brings(j, me, a, results, v)
         /\ \A s \in Stacks : Depth(j, s) = IF s = me THEN a ELSE Depth(k, s)
         /\ View(j) = Shorter(View(k), me, a)
<1>1. /\ me \in Stacks /\ Other(me) \in Stacks /\ "C" \in Stacks /\ Other(me) # me /\ me # "C" /\ Other(me) # "C"
      /\ \A s \in Stacks : s = me \/ s = Other(me) \/ s = "C"
  BY OtherIs DEF Stacks
<1>2. PICK h : h = Cut(k, me, a)
  OBVIOUS
<1>3. Cropped(k, h, me, a)
  BY <1>1, <1>2, CropIs
<1>4. /\ k \in Contexts /\ h \in Contexts /\ Sane(h) /\ h.mem = k.mem /\ h.cont = k.cont /\ View(h) = Shorter(View(k), me, a)
      /\ \A s \in Stacks : Depth(h, s) = IF s = me THEN a ELSE Depth(k, s)
      /\ \A u \in Cells(h) : u \in Cells(k) /\ (u[1] = me => u[2] <= a) /\ Cell(h, u) = Cell(k, u)
  BY <1>3, SaneParts DEF Cropped
<1>5. PICK x : x = Next(k, "C")[2]
  OBVIOUS
<1>6. x = Depth(k, "C") - Arguments /\ x \in Int
  <2>1. Next(k, "C") = <<"C", Depth(k, "C") - Arguments>>
    <3>1. Depth(k, "C") \in Nat /\ Arguments \in Nat /\ Depth(k, "C") + 1 - 1 = Depth(k, "C")
      BY <1>1, <1>4, ContextParts, Bounds
    <3>2. Next(k, "C") = Spot(<<"C", Depth(k, "C") + 1>>)
      BY <1>1, <1>4, SpotIs
    <3>3. Spot(<<"C", Depth(k, "C") + 1>>) = <<"C", (Depth(k, "C") + 1) - 1 - Arguments>>
      BY DEF Spot
    <3> QED BY <3>1, <3>2, <3>3
  <2>2. Depth(k, "C") \in Nat /\ Arguments \in Nat
    BY <1>1, <1>4, ContextParts, Bounds
  <2> QED BY <1>5, <2>1, <2>2
<1>7. PICK base : base = Floors(k, me, n)
  OBVIOUS
<1>8. base[me] = a /\ base[Other(me)] = Depth(k, Other(me))
  <2>1. base[me] = Depth(k, me) - n
    BY <1>7 DEF Floors
  <2>2. base[Other(me)] = Depth(k, Other(me)) - 0
    BY <1>1, <1>7, OtherIs DEF Floors
  <2>3. Depth(k, Other(me)) \in Nat
    BY <1>1, SaneParts
  <2> QED BY <2>1, <2>2, <2>3
<1>9. PICK held, left : /\ held = {p \in DOMAIN k.mem : p[2] < IF p[1] = "C" THEN x ELSE base[p[1]]}
                        /\ left = {<<me, base[me] + i - 1>> : i \in IF results = 1 THEN {} ELSE 1 .. results}
  OBVIOUS
<1>10. PICK regs, mem : /\ regs = [r \in Regs |-> IF r = 0 /\ results = 1 THEN v ELSE Junk]
                        /\ mem = [p \in left \union held |-> IF p \in left THEN v ELSE k.mem[p]]
  OBVIOUS
<1>11. j = [k EXCEPT !.reg = regs, !.mem = mem, !.cell[me] = SubSeq(@, 1, a)]
  BY <1>5, <1>7, <1>8, <1>9, <1>10 DEF Clobbered
<1>12. j = [h EXCEPT !.reg = regs, !.mem = mem]
  BY <1>2, <1>4, <1>11 DEF Cut, Contexts
<1>13. j.cell = h.cell /\ j.cont = h.cont /\ j.reg = regs /\ j.mem = mem /\ j.offset = h.offset
  BY <1>4, <1>12 DEF Contexts
<1>14. regs \in [Regs -> Contents]
  BY <1>10 DEF Contents
<1>15. held \subseteq DOMAIN k.mem /\ DOMAIN k.mem \subseteq Places /\ \A p \in DOMAIN k.mem : k.mem[p] \in Contents
  <2>1. k.mem \in Memories
    BY <1>4, ContextParts
  <2>2. PICK P \in SUBSET Places : k.mem \in [P -> Contents]
    BY <2>1 DEF Memories
  <2> QED BY <1>9, <2>2
<1>16. left \subseteq Places
  <2>1. ASSUME NEW p \in left PROVE p \in Places
    <3>1. PICK i \in 1 .. results : p = <<me, base[me] + i - 1>>
      BY <1>9
    <3>2. base[me] + i - 1 \in Int
      BY <1>8
    <3> QED BY <1>1, <3>1, <3>2 DEF Places
  <2> QED BY <2>1
<1>17. mem \in Memories
  <2>1. mem \in [left \union held -> Contents]
    BY <1>10, <1>15 DEF Contents
  <2>2. left \union held \in SUBSET Places
    BY <1>15, <1>16
  <2> QED BY <2>1, <2>2 DEF Memories
<1>18. j \in Contexts
  BY <1>4, <1>12, <1>14, <1>17 DEF Contexts
<1>19. SameShape(h, j) /\ Cells(j) = Cells(h) /\ \A u \in Cells(h) : Cell(j, u) = Cell(h, u)
  BY <1>13 DEF SameShape, Cells, Depth, Cell
<1>20. \A p : Read(j, p) = IF p \in left THEN v ELSE IF p \in held THEN Read(k, p) ELSE Junk
  <2>1. DOMAIN mem = left \union held
    BY <1>10
  <2> QED BY <1>10, <1>13, <1>15, <2>1 DEF Read
<1>21. ASSUME NEW u \in Cells(h), NEW p, p = Spot(u) PROVE Read(j, p) = Read(h, p)
  <2>1. /\ u[1] \in Stacks /\ u[2] \in Nat /\ u[2] >= 1 /\ u[2] <= Depth(h, u[1])
    BY <1>4, SaneParts
  <2>2. PICK s, i : s = u[1] /\ i = u[2]
    OBVIOUS
  <2>3. s \in Stacks /\ i \in Nat /\ i >= 1 /\ i <= Depth(h, s)
    BY <2>1, <2>2
  <2>4. p[1] = s /\ p[2] = IF s = "C" THEN (i - 1) - Arguments ELSE i - 1
    BY <1>21, <2>2, <2>3, Bounds DEF Spot
  <2>5. p[2] < IF p[1] = "C" THEN x ELSE base[p[1]]
    <3>1. CASE s = "C"
      <4>1. i <= Depth(k, "C") /\ Depth(k, "C") \in Nat
        BY <1>1, <1>4, <2>3, <3>1, SaneParts
      <4> QED BY <1>6, <2>3, <2>4, <3>1, <4>1, Bounds
    <3>2. CASE s = me
      <4>1. i <= a
        BY <1>4, <2>3, <3>2
      <4> QED BY <1>1, <1>8, <2>3, <2>4, <3>2, <4>1
    <3>3. CASE s = Other(me)
      <4>1. i <= Depth(k, s) /\ Depth(k, s) \in Nat
        BY <1>1, <1>4, <2>3, <3>3, SaneParts
      <4> QED BY <1>1, <1>8, <2>3, <2>4, <3>3, <4>1
    <3> QED BY <1>1, <2>3, <3>1, <3>2, <3>3
  <2>6. p \notin left
    <3>1. ASSUME p \in left PROVE FALSE
      <4>1. PICK b \in 1 .. results : p = <<me, base[me] + b - 1>>
        BY <1>9, <3>1
      <4>2. p[1] = me /\ p[2] = a + (b - 1)
        BY <1>8, <4>1
      <4>3. p[2] < a
        BY <1>1, <1>8, <2>5, <4>2
      <4> QED BY <4>2, <4>3
    <3> QED BY <3>1
  <2>7. Read(j, p) = Read(k, p)
    <3>1. CASE p \in DOMAIN k.mem
      <4>1. p \in held
        BY <1>9, <2>5, <3>1
      <4> QED BY <1>20, <2>6, <4>1
    <3>2. CASE p \notin DOMAIN k.mem
      BY <1>15, <1>20, <2>6, <3>2 DEF Read
    <3> QED BY <3>1, <3>2
  <2>8. Read(h, p) = Read(k, p)
    BY <1>4 DEF Read
  <2> QED BY <2>7, <2>8
<1>22. ASSUME NEW u \in Cells(h) PROVE Placed(Cell(j, u), u) /\ Holds(j, u) = Holds(h, u)
  <2>1. PICK d : d = Cell(h, u)
    OBVIOUS
  <2>2. Placed(d, u) /\ Cell(j, u) = d /\ d = Cell(k, u) /\ u \in Cells(k) /\ d \in Descs
    BY <1>4, <1>19, <2>1, SaneParts
  <2>3. d.kind # "reg"
    BY <1>4, <2>2 DEF Away
  <2>4. CASE d.kind = "const"
    BY <2>1, <2>2, <2>4, DenoteIs DEF Holds
  <2>5. CASE d.kind = "home"
    <3>1. d.at = Spot(u)
      BY <2>2, <2>5 DEF Placed
    <3>2. Read(j, Spot(u)) = Read(h, Spot(u))
      BY <1>21
    <3> QED BY <2>1, <2>2, <2>5, <3>1, <3>2, DenoteIs DEF Holds
  <2> QED BY <2>2, <2>3, <2>4, <2>5, DescKinds
<1>23. Still(h, j)
  BY <1>4, <1>18, <1>19, <1>22, RecastIs
<1>24. Sane(j) /\ View(j) = Shorter(View(k), me, a)
  BY <1>4, <1>23, SameView DEF Still
<1>25. Brings(j, me, a, results, v)
  <2>1. results = 1 => j.reg[0] = v
    BY <1>10, <1>13, RegsAre
  <2>2. ASSUME results # 1, NEW i \in Nat, i >= 1, i <= results PROVE Read(j, <<me, a + i - 1>>) = v
    <3>1. i \in 1 .. results
      BY <2>2
    <3>2. <<me, a + i - 1>> \in left
      BY <1>8, <1>9, <2>2, <3>1
    <3> QED BY <1>20, <3>2
  <2> QED BY <2>1, <2>2 DEF Brings
<1>26. \A s \in Stacks : Depth(j, s) = IF s = me THEN a ELSE Depth(k, s)
  BY <1>4, <1>19 DEF SameShape
<1> QED BY <1>4, <1>13, <1>24, <1>25, <1>26

Pushes(k, me, results) ==
  Over(LAMBDA f, i : PushCell(f, me, IF results = 1 THEN Reg(0, Next(f, me)) ELSE Home(Next(f, me))), k, Count(results))

LEMMA ResumeWay ==
  ASSUME NEW k, NEW me, NEW results, NEW us, us = Count(results), NEW n \in Nat, n = Len(us)
  PROVE  \E g : Pushes(k, me, results) = g[n] /\ g[0] = k /\ \A i \in 1 .. n : g[i] = ResumeOne(g[i - 1], me, results)
<1> DEFINE G(h) == h = [i \in 0 .. Len(us) |-> IF i = 0 THEN k ELSE ResumeOne(h[i - 1], me, results)]
<1>1. Pushes(k, me, results) = (CHOOSE h : G(h))[Len(us)]
  BY DEF Over, Pushes, ResumeOne
<1>2. \E h : G(h)
  <2>1. PICK f : Way(f, <<"resume", me, results>>, k, us, n)
    BY WayExists
  <2>2. \A i \in 1 .. n : f[i] = ResumeOne(f[i - 1], me, results)
    BY <2>1 DEF Way, Doing
  <2>3. PICK h : h = [i \in 0 .. n |-> f[i]]
    OBVIOUS
  <2>4. \A i \in 1 .. n : i \in 0 .. n /\ i - 1 \in 0 .. n /\ i # 0
    OBVIOUS
  <2>5. h = [i \in 0 .. n |-> IF i = 0 THEN k ELSE ResumeOne(h[i - 1], me, results)]
    <3>1. f[0] = k
      BY <2>1 DEF Way
    <3>2. \A i \in 0 .. n : i = 0 \/ i \in 1 .. n
      OBVIOUS
    <3>3. \A i \in 0 .. n : h[i] = IF i = 0 THEN k ELSE ResumeOne(h[i - 1], me, results)
      BY <2>2, <2>3, <2>4, <3>1, <3>2
    <3>4. h = [i \in 0 .. n |-> h[i]]
      BY <2>3
    <3> QED BY <3>3, <3>4
  <2> QED BY <2>5
<1>3. PICK g : g = CHOOSE h : G(h)
  OBVIOUS
<1>4. G(g)
  BY <1>2, <1>3
<1>5. g = [i \in 0 .. n |-> IF i = 0 THEN k ELSE ResumeOne(g[i - 1], me, results)]
  BY <1>4
<1>6. 0 \in 0 .. n /\ n \in 0 .. n /\ \A i \in 1 .. n : i \in 0 .. n /\ i # 0
  OBVIOUS
<1>7. g[0] = k /\ \A i \in 1 .. n : g[i] = ResumeOne(g[i - 1], me, results)
  BY <1>5, <1>6
<1>8. Pushes(k, me, results) = g[n]
  BY <1>1, <1>3
<1> QED BY <1>7, <1>8

\* i of the results are on their stack.
Back(p, k, me, a, i, results, v) ==
  Sane(k) /\ Answers(p, View(k), me, a, i, v) /\ Brings(k, me, a, results, v)

LEMMA BackStep ==
  ASSUME NEW p, Family(p), NEW me \in Operands, NEW a \in Nat, NEW i \in Nat, NEW results \in Nat, i + 1 <= results,
         NEW v \in Values, NEW g, Back(p, g, me, a, i, results, v), NEW h, h = ResumeOne(g, me, results)
  PROVE  Back(p, h, me, a, i + 1, results, v) /\ h.cont = g.cont
<1>1. me \in Stacks /\ me # "C" /\ 0 \in Regs
  BY OtherIs, RegsAre
<1>2. Sane(g) /\ Answers(p, View(g), me, a, i, v) /\ Brings(g, me, a, results, v) /\ g \in Contexts
  BY SaneParts DEF Back
<1>3. PICK q, l : q = View(g) /\ l = Depth(g, me)
  OBVIOUS
<1>4. Family(q) /\ Len(q[me]) = l /\ l = a + i
  BY <1>1, <1>2, <1>3, ViewIs DEF Family, Answers
<1>5. l \in Nat
  BY <1>4
<1>6. PICK u, t : u = NewCell(g, me) /\ t = Spot(u)
  OBVIOUS
<1>7. u = <<me, l + 1>> /\ u \in Stacks \X Int /\ Next(g, me) = t
  BY <1>1, <1>2, <1>3, <1>6, SpotIs DEF NewCell
<1>8. PICK d : d = IF results = 1 THEN Reg(0, t) ELSE Home(t)
  OBVIOUS
<1>9. Placed(d, u) /\ Denote(g, d) = v
  <2>1. CASE results = 1
    <3>1. d = Reg(0, Spot(u)) /\ g.reg[0] = v
      BY <1>2, <1>6, <1>8, <2>1 DEF Brings
    <3>2. Placed(Reg(0, Spot(u)), u) /\ Denote(g, Reg(0, Spot(u))) = g.reg[0]
      BY <1>1, <1>2, <1>7, RegIs
    <3> QED BY <3>1, <3>2
  <2>2. CASE results # 1
    <3>1. d = Home(Spot(u))
      BY <1>6, <1>8, <2>2
    <3>2. Placed(Home(Spot(u)), u) /\ Denote(g, Home(Spot(u))) = Read(g, Spot(u))
      BY <1>2, <1>7, HomeIs
    <3>3. Spot(u) = <<me, (l + 1) - 1>>
      BY <1>1, <1>7 DEF Spot
    <3>4. PICK b : b = i + 1
      OBVIOUS
    <3>5. b \in Nat /\ b >= 1 /\ b <= results /\ a + b - 1 = l /\ (l + 1) - 1 = l
      BY <1>4, <1>5, <3>4
    <3>6. Read(g, <<me, a + b - 1>>) = v
      BY <1>2, <2>2, <3>5 DEF Brings
    <3> QED BY <3>1, <3>2, <3>3, <3>5, <3>6
  <2> QED BY <2>1, <2>2
<1>10. h = PushCell(g, me, d)
  BY <1>7, <1>8 DEF ResumeOne
<1>11. Pushed(g, h, me, d)
  BY <1>1, <1>2, <1>6, <1>9, <1>10, PushIs
<1>12. Sane(h) /\ h.cont = g.cont /\ h.reg = g.reg /\ h.mem = g.mem /\ View(h) = Longer(q, me, v)
  BY <1>3, <1>9, <1>11 DEF Pushed
<1>13. PICK w : w = View(h)
  OBVIOUS
<1>14. Lengthens(q, w, me, v)
  BY <1>1, <1>4, <1>12, <1>13, LongerIs
<1>15. /\ Family(w) /\ \A s \in Stacks : s # me => w[s] = q[s]
       /\ Len(w[me]) = l + 1 /\ w[me][l + 1] = v /\ \A x \in 1 .. l : w[me][x] = q[me][x]
  BY <1>4, <1>14 DEF Lengthens
<1>16. /\ \A s \in Stacks : s # me => q[s] = p[s]
       /\ \A x \in Nat : x >= 1 /\ x <= a => q[me][x] = p[me][x]
       /\ \A x \in Nat : x >= 1 /\ x <= i => q[me][a + x] = v
  BY <1>2, <1>3 DEF Answers, Agree
<1>17. Agree(p, w, me, a)
  <2>1. a <= Len(w[me])
    BY <1>4, <1>15
  <2>2. ASSUME NEW x \in Nat, x >= 1, x <= a PROVE w[me][x] = p[me][x]
    <3>1. x \in 1 .. l
      BY <1>4, <2>2
    <3> QED BY <1>15, <1>16, <2>2, <3>1
  <2> QED BY <1>15, <1>16, <2>1, <2>2 DEF Agree
<1>18. Answers(p, w, me, a, i + 1, v)
  <2>1. Len(w[me]) = a + (i + 1)
    BY <1>4, <1>15
  <2>2. ASSUME NEW x \in Nat, x >= 1, x <= i + 1 PROVE w[me][a + x] = v
    <3>1. CASE x = i + 1
      <4>1. a + x = l + 1
        BY <1>4, <3>1
      <4> QED BY <1>15, <4>1
    <3>2. CASE x # i + 1
      <4>1. x <= i
        BY <2>2, <3>2
      <4>2. a + x \in 1 .. l
        BY <1>4, <2>2, <4>1
      <4>3. q[me][a + x] = v
        BY <1>16, <2>2, <4>1
      <4> QED BY <1>15, <4>2, <4>3
    <3> QED BY <3>1, <3>2
  <2> QED BY <1>17, <2>1, <2>2 DEF Answers
<1>19. Brings(h, me, a, results, v)
  BY <1>2, <1>12 DEF Brings, Read
<1> QED BY <1>12, <1>13, <1>18, <1>19 DEF Back

LEMMA ResumedIs ==
  ASSUME NEW p, Family(p), NEW k, Sane(k), NEW me \in Operands, NEW n \in Nat, NEW a \in Nat, Depth(k, me) = a + n,
         Away(k, me, a), Agree(p, View(k), me, a), NEW args, NEW v \in Values, v = Answer(args),
         NEW results \in Nat, results >= 1, NEW j, j = Resumed(k, me, n, args, results)
  PROVE  Sane(j) /\ j.cont = k.cont /\ Answers(p, View(j), me, a, results, v)
<1>1. PICK h : h = Clobbered(k, me, Floors(k, me, n), v, results)
  OBVIOUS
<1>2. j = Pushes(h, me, results)
  BY <1>1 DEF Resumed, Pushes
<1>3. /\ Sane(h) /\ h.cont = k.cont /\ Brings(h, me, a, results, v)
      /\ \A s \in Stacks : Depth(h, s) = IF s = me THEN a ELSE Depth(k, s)
      /\ View(h) = Shorter(View(k), me, a)
  <2>1. Sane(k) /\ Depth(k, me) = a + n /\ Away(k, me, a) /\ results >= 1 /\ h = Clobbered(k, me, Floors(k, me, n), v, results)
    BY <1>1
  <2> QED BY ONLY me \in Operands, n \in Nat, a \in Nat, v \in Values, results \in Nat, <2>1, ClobberedIs
<1>4. me \in Stacks /\ Family(View(k)) /\ a <= Len(View(k)[me])
  BY OtherIs DEF Agree
<1>5. PICK q, w : q = View(k) /\ w = View(h)
  OBVIOUS
<1>6. Shortens(q, w, me, a)
  BY <1>3, <1>4, <1>5, ShorterIs
<1>7. Answers(p, w, me, a, 0, v)
  <2>1. /\ Family(w) /\ Len(w[me]) = a /\ \A t \in Stacks : t # me => w[t] = p[t]
    BY <1>5, <1>6 DEF Shortens, Agree
  <2>2. ASSUME NEW x \in Nat, x >= 1, x <= a PROVE w[me][x] = p[me][x]
    <3>1. x \in 1 .. a
      BY <2>2
    <3>2. w[me][x] = q[me][x]
      BY <1>6, <3>1 DEF Shortens
    <3>3. q[me][x] = p[me][x]
      BY <1>5, <2>2 DEF Agree
    <3> QED BY <3>2, <3>3
  <2>3. Agree(p, w, me, a)
    BY <2>1, <2>2 DEF Agree
  <2>4. Len(w[me]) = a + 0 /\ \A x \in Nat : x >= 1 /\ x <= 0 => FALSE
    BY <2>1
  <2> QED BY <2>3, <2>4 DEF Answers
<1>8. PICK us : us = Count(results)
  OBVIOUS
<1>9. results = Len(us)
  BY <1>8, CountIs
<1>10. PICK g : j = g[results] /\ g[0] = h /\ \A i \in 1 .. results : g[i] = ResumeOne(g[i - 1], me, results)
  BY <1>2, <1>8, <1>9, ResumeWay
<1> DEFINE T == {i \in 0 .. results : Back(p, g[i], me, a, i, results, v) /\ g[i].cont = k.cont}
<1>11. 0 \in T
  BY <1>3, <1>5, <1>7, <1>10 DEF Back
<1>12. ASSUME NEW i \in 1 .. results, i - 1 \in T PROVE i \in T
  <2>1. PICK y, z, b : y = g[i - 1] /\ z = g[i] /\ b = i - 1
    OBVIOUS
  <2>2. b \in Nat /\ b + 1 <= results /\ b + 1 = i /\ i \in 0 .. results
    BY <2>1
  <2>3. Back(p, y, me, a, b, results, v) /\ y.cont = k.cont /\ z = ResumeOne(y, me, results)
    BY <1>10, <1>12, <2>1
  <2>4. Back(p, z, me, a, b + 1, results, v) /\ z.cont = y.cont
    BY <2>2, <2>3, BackStep
  <2> QED BY <2>1, <2>2, <2>3, <2>4
<1>13. results \in T
  <2>1. \A i \in 0 .. results : i \in T
    <3> HIDE DEF T
    <3> QED BY <1>11, <1>12, Climb
  <2> QED BY <2>1
<1> QED BY <1>10, <1>13 DEF Back

\* The callee's answer is on the stack of its operands.
LEMMA ApartIs ==
  ASSUME Good(m), NEW p, Family(p), NEW k, Sane(k), k.cont = m.cont, NEW me \in Operands, NEW n \in Nat, NEW a \in Nat,
         Depth(k, me) = a + n, Len(p[me]) = a + n, FloorOf(m, me) <= a,
         \A s \in Stacks : s # me => FloorOf(m, s) <= Len(p[s]),
         Away(k, me, a), Agree(p, View(k), me, a), NEW args, NEW v \in Values, v = Answer(args),
         NEW results \in Nat, results >= 1, Becomes(Resumed(k, me, n, args, results))
  PROVE  Steps(Answered(p, me, n, results, v), m.cont, Quiet)
<1>1. PICK j : j = Resumed(k, me, n, args, results)
  OBVIOUS
<1>2. Sane(j) /\ j.cont = k.cont /\ Answers(p, View(j), me, a, results, v)
  BY <1>1, ResumedIs
<1>3. me \in Stacks
  BY OtherIs
<1>4. View(j) = Answered(p, me, n, results, v)
  BY <1>2, <1>3, AnswersAll
<1>5. PICK q : q = View(j)
  OBVIOUS
<1>6. Len(q[me]) = a + results /\ \A s \in Stacks : s # me => q[s] = p[s]
  BY <1>2, <1>5 DEF Answers, Agree
<1>7. \A s \in Stacks : Len(q[s]) = Depth(j, s) /\ FloorOf(m, s) \in Nat
  BY <1>2, <1>5, ViewIs, FloorsAre
<1>8. \A s \in Stacks : FloorOf(m, s) <= Depth(j, s)
  <2>1. FloorOf(m, me) <= Depth(j, me)
    <3>1. Depth(j, me) = a + results /\ FloorOf(m, me) \in Nat
      BY <1>3, <1>6, <1>7
    <3> QED BY <3>1
  <2>2. \A s \in Stacks : s # me => FloorOf(m, s) <= Depth(j, s)
    BY <1>6, <1>7
  <2> QED BY <2>1, <2>2
<1>9. Good(j)
  BY <1>2, <1>8, StillGood
<1>10. Steps(View(j), j.cont, Quiet)
  BY <1>1, <1>9, BecomesIs
<1> QED BY <1>2, <1>4, <1>10

\* The arguments.
Sought(p, me, a, n) == Family(p) /\ me \in Stacks /\ a \in Nat /\ n \in Nat /\ Len(p[me]) = a + n

LEMMA TopmostOf ==
  ASSUME NEW p, NEW me, NEW a, NEW n, Sought(p, me, a, n), NEW w, w = Topmost(p, me, n)
  PROVE  w \in Seq(Values) /\ Len(w) = n /\ \A i \in 1 .. n : w[i] = p[me][a + i] /\ w[i] \in Values
<1> SUFFICES ASSUME Family(p), me \in Stacks, a \in Nat, n \in Nat, Len(p[me]) = a + n
             PROVE  w \in Seq(Values) /\ Len(w) = n /\ \A i \in 1 .. n : w[i] = p[me][a + i] /\ w[i] \in Values
  BY DEF Sought
<1>1. PICK x : x = p[me]
  OBVIOUS
<1>2. x \in Seq(Values) /\ Len(x) = a + n
  BY <1>1 DEF Family
<1>3. w = SubSeq(x, a + 1, a + n)
  <2>1. w = SubSeq(x, Len(x) - n + 1, Len(x))
    BY <1>1 DEF Topmost
  <2>2. Len(x) - n + 1 = a + 1
    BY <1>2
  <2> QED BY <1>2, <2>1, <2>2
<1>4. w \in Seq(Values) /\ Len(w) = n /\ \A i \in 1 .. n : w[i] = x[a + i]
  <2>1. x \in Seq(Values) /\ a + n <= Len(x) /\ w = SubSeq(x, a + 1, a + n)
    BY <1>2, <1>3
  <2> QED BY ONLY a \in Nat, n \in Nat, <2>1, PartIs
<1>5. \A i \in 1 .. n : w[i] \in Values
  BY <1>4
<1> QED BY <1>1, <1>4, <1>5

LEMMA TopmostIs ==
  ASSUME NEW p, Family(p), NEW me \in Stacks, NEW a \in Nat, NEW n \in Nat, Len(p[me]) = a + n, NEW w, w = Topmost(p, me, n)
  PROVE  w \in Seq(Values) /\ Len(w) = n /\ \A i \in 1 .. n : w[i] = p[me][a + i] /\ w[i] \in Values
<1>1. Sought(p, me, a, n)
  BY DEF Sought
<1> QED BY <1>1, TopmostOf

LEMMA TheseAre ==
  ASSUME NEW p, Family(p), NEW me \in Stacks, NEW a \in Nat, NEW n \in Nat, Len(p[me]) = a + n,
         NEW w, w = [i \in 1 .. n |-> w[i]], \A i \in 1 .. n : w[i] = p[me][a + i]
  PROVE  w = Topmost(p, me, n)
<1>1. PICK x : x = Topmost(p, me, n)
  OBVIOUS
<1>2. x \in Seq(Values) /\ Len(x) = n /\ \A i \in 1 .. n : x[i] = p[me][a + i]
  BY <1>1, TopmostIs
<1>3. x = [i \in 1 .. n |-> x[i]]
  BY <1>2
<1>4. \A i \in 1 .. n : x[i] = w[i]
  BY <1>2
<1>5. x = w
  BY <1>3, <1>4
<1> QED BY <1>1, <1>5

\* The same for provers that do not match a sum.
Indexed(w, n) == w = [i \in 1 .. n |-> w[i]]

LEMMA SoughtIs ==
  ASSUME NEW p, NEW me, NEW a, NEW n, Sought(p, me, a, n)
  PROVE  /\ Len(Topmost(p, me, n)) = n /\ \A i \in 1 .. n : Topmost(p, me, n)[i] = p[me][a + i]
         /\ \A w : Indexed(w, n) /\ (\A i \in 1 .. n : w[i] = p[me][a + i]) => w = Topmost(p, me, n)
<1>1. Family(p) /\ me \in Stacks /\ a \in Nat /\ n \in Nat /\ Len(p[me]) = a + n
  BY DEF Sought
<1>2. PICK x : x = Topmost(p, me, n)
  OBVIOUS
<1>3. x \in Seq(Values) /\ Len(x) = n /\ \A i \in 1 .. n : x[i] = p[me][a + i]
  BY <1>2, TopmostOf
<1>4. x = [i \in 1 .. n |-> x[i]]
  BY <1>3
<1>5. ASSUME NEW w, Indexed(w, n), \A i \in 1 .. n : w[i] = p[me][a + i] PROVE w = x
  <2>1. \A i \in 1 .. n : w[i] = x[i]
    BY <1>3, <1>5
  <2>2. w = [i \in 1 .. n |-> w[i]]
    BY <1>5 DEF Indexed
  <2> QED BY ONLY <1>4, <2>1, <2>2
<1> QED BY <1>2, <1>3, <1>5

LEMMA AnswerIs ==
  ASSUME NEW p, Family(p), NEW me \in Stacks, NEW a \in Nat, NEW n \in 1 .. 2, Len(p[me]) = a + n
  PROVE  Answer(Topmost(p, me, n)) \in Values
<1>1. PICK w : w = Topmost(p, me, n)
  OBVIOUS
<1>2. n \in Nat
  OBVIOUS
<1>3. Len(w) = n /\ \A i \in 1 .. n : w[i] \in Values
  BY <1>1, <1>2, TopmostIs
<1>4. w[1] \in Values
  BY <1>3
<1>5. CASE n = 1
  BY <1>1, <1>3, <1>4, <1>5 DEF Answer
<1>6. CASE n = 2
  <2>1. w[2] \in Values
    BY <1>3, <1>6
  <2>2. Answer(w) = Op(w[1], w[2])
    BY <1>3, <1>6 DEF Answer
  <2> QED BY <1>1, <1>4, <2>1, <2>2, OpIs
<1> QED BY <1>5, <1>6

LEMMA CallableIs ==
  ASSUME Good(m), NEW me \in Operands, NEW n \in Nat, NEW results \in Nat, Callable(me, n, results)
  PROVE  /\ Has(me, n)
         /\ \E a \in Nat : /\ Depth(m, me) = a + n /\ Len(View(m)[me]) = a + n /\ FloorOf(m, me) <= a
                           /\ a + results <= Max(me)
         /\ \A s \in Stacks : FloorOf(m, s) <= Len(View(m)[s]) /\ Len(View(m)[s]) = Depth(m, s)
         /\ Family(View(m)) /\ Sane(m) /\ me \in Stacks
<1>1. Has(me, n) /\ Depth(m, me) + (results - n) <= Max(me)
  BY DEF Callable, Room
<1>2. Sane(m) /\ me \in Stacks /\ Family(View(m)) /\ \A s \in Stacks : Len(View(m)[s]) = Depth(m, s)
  BY GoodParts, OtherIs, ViewIs DEF Family
<1>3. /\ FloorOf(m, me) + n <= Depth(m, me) /\ Depth(m, me) \in Nat /\ FloorOf(m, me) \in Nat
      /\ \A s \in Stacks : FloorOf(m, s) <= Depth(m, s)
  BY <1>1, <1>2, FloorsAre
<1>4. PICK a : a = Depth(m, me) - n
  OBVIOUS
<1>5. Max(me) \in Nat
  BY Bounds DEF Max, Operands
<1>6. a \in Nat /\ Depth(m, me) = a + n /\ FloorOf(m, me) <= a /\ a + results <= Max(me)
  BY <1>1, <1>3, <1>4, <1>5
<1> QED BY <1>1, <1>2, <1>3, <1>6

LEMMA FlushedAway ==
  ASSUME NEW k, Sane(k), NEW j, j = Flushed(k), NEW me, NEW a
  PROVE  /\ Keeps(k, j) /\ Sane(j) /\ Away(j, me, a)
         /\ \A u \in Cells(k) : Cell(k, u) = Home(Spot(u)) => Cell(j, u) = Home(Spot(u))
<1>1. /\ Keeps(k, j) /\ j.reg = k.reg
      /\ \A v \in Cells(k) : Cell(j, v) = IF Cell(k, v).kind = "const" THEN Cell(k, v) ELSE Home(Spot(v))
  BY FlushedIs
<1>2. Sane(j) /\ Cells(j) = Cells(k)
  BY <1>1 DEF Keeps
<1>3. \A v \in Cells(k) : Cell(j, v).kind # "reg"
  BY <1>1 DEF Home
<1>4. \A u \in Cells(k) : Cell(k, u) = Home(Spot(u)) => Cell(j, u) = Home(Spot(u))
  BY <1>1 DEF Home
<1> QED BY <1>1, <1>2, <1>3, <1>4 DEF Away

\* The arguments in their homes.
PutHome(k, me, base, n) == Over(LAMBDA f, u : HomedTo(f, u, <<me, u[2] - 1>>), k, Row(me, base, n))

LEMMA HomesWay ==
  ASSUME NEW k, NEW me, NEW base, NEW l, NEW us, us = Row(me, base, l), NEW n \in Nat, n = Len(us)
  PROVE  \E g : PutHome(k, me, base, l) = g[n] /\ g[0] = k /\ \A i \in 1 .. n : g[i] = HomesOne(g[i - 1], us[i], me)
<1> DEFINE G(h) == h = [i \in 0 .. Len(us) |-> IF i = 0 THEN k ELSE HomesOne(h[i - 1], us[i], me)]
<1>1. PutHome(k, me, base, l) = (CHOOSE h : G(h))[Len(us)]
  BY DEF Over, PutHome, HomesOne
<1>2. \E h : G(h)
  <2>1. PICK f : Way(f, <<"homes", me>>, k, us, n)
    BY WayExists
  <2>2. \A i \in 1 .. n : f[i] = HomesOne(f[i - 1], us[i], me)
    BY <2>1 DEF Way, Doing
  <2>3. PICK h : h = [i \in 0 .. n |-> f[i]]
    OBVIOUS
  <2>4. \A i \in 1 .. n : i \in 0 .. n /\ i - 1 \in 0 .. n /\ i # 0
    OBVIOUS
  <2>5. h = [i \in 0 .. n |-> IF i = 0 THEN k ELSE HomesOne(h[i - 1], us[i], me)]
    <3>1. f[0] = k
      BY <2>1 DEF Way
    <3>2. \A i \in 0 .. n : i = 0 \/ i \in 1 .. n
      OBVIOUS
    <3>3. \A i \in 0 .. n : h[i] = IF i = 0 THEN k ELSE HomesOne(h[i - 1], us[i], me)
      BY <2>2, <2>3, <2>4, <3>1, <3>2
    <3>4. h = [i \in 0 .. n |-> h[i]]
      BY <2>3
    <3> QED BY <3>3, <3>4
  <2> QED BY <2>5
<1>3. PICK g : g = CHOOSE h : G(h)
  OBVIOUS
<1>4. G(g)
  BY <1>2, <1>3
<1>5. g = [i \in 0 .. n |-> IF i = 0 THEN k ELSE HomesOne(g[i - 1], us[i], me)]
  BY <1>4
<1>6. 0 \in 0 .. n /\ n \in 0 .. n /\ \A i \in 1 .. n : i \in 0 .. n /\ i # 0
  OBVIOUS
<1>7. g[0] = k /\ \A i \in 1 .. n : g[i] = HomesOne(g[i - 1], us[i], me)
  BY <1>5, <1>6
<1>8. PutHome(k, me, base, l) = g[n]
  BY <1>1, <1>3
<1> QED BY <1>7, <1>8

AllHome(k, me, a, n) == \A i \in Nat : i >= 1 /\ i <= n => Cell(k, <<me, a + i>>) = Home(Spot(<<me, a + i>>))

LEMMA HomesAre ==
  ASSUME NEW k, Sane(k), NEW me \in Operands, NEW a \in Nat, NEW n \in Nat, Depth(k, me) = a + n,
         NEW j, j = Homes(k, me, n)
  PROVE  Keeps(k, j) /\ AllHome(j, me, a, n)
<1>1. me \in Stacks /\ me # "C"
  BY OtherIs
<1>2. PICK us : us = Row(me, a, n)
  OBVIOUS
<1>3. n = Len(us) /\ \A i \in 1 .. n : us[i] = <<me, a + i>>
  BY <1>2, RowIs
<1>4. j = PutHome(k, me, a, n)
  <2>1. Depth(k, me) - n = a
    OBVIOUS
  <2>2. [i \in 1 .. n |-> <<me, Depth(k, me) - n + i>>] = Row(me, a, n)
    BY <2>1 DEF Row
  <2> QED BY <2>2 DEF Homes, PutHome
<1>5. PICK g : j = g[n] /\ g[0] = k /\ \A i \in 1 .. n : g[i] = HomesOne(g[i - 1], us[i], me)
  <2>1. \E g : PutHome(k, me, a, n) = g[n] /\ g[0] = k /\ \A i \in 1 .. n : g[i] = HomesOne(g[i - 1], us[i], me)
    BY ONLY n \in Nat, <1>2, <1>3, HomesWay
  <2> QED BY <1>4, <2>1
<1>6. ASSUME NEW i \in 1 .. n PROVE us[i] \in Cells(k) /\ Spot(us[i]) = <<me, us[i][2] - 1>>
  <2>1. PICK b : b = a + i
    OBVIOUS
  <2>2. b \in Nat /\ b >= 1 /\ b <= Depth(k, me)
    BY <2>1
  <2>3. us[i] = <<me, b>>
    BY <1>3, <2>1
  <2> QED BY <1>1, <2>2, <2>3, SaneParts DEF Spot
<1>7. \A x, y \in 1 .. n : x # y => us[x] # us[y]
  BY <1>3
<1> DEFINE T == {i \in 0 .. n : Keeps(k, g[i]) /\ \A x \in 1 .. i : Cell(g[i], us[x]) = Home(Spot(us[x]))}
<1>8. 0 \in T
  <2>1. \A x \in 1 .. 0 : FALSE
    OBVIOUS
  <2> QED BY <1>5, <2>1, KeepsSelf
<1>9. ASSUME NEW i \in 1 .. n, i - 1 \in T PROVE i \in T
  <2>1. PICK y, z, u : y = g[i - 1] /\ z = g[i] /\ u = us[i]
    OBVIOUS
  <2>2. Keeps(k, y) /\ \A x \in 1 .. i - 1 : Cell(y, us[x]) = Home(Spot(us[x]))
    BY <1>9, <2>1
  <2>3. u \in Cells(k) /\ z = HomedTo(y, u, Spot(u))
    BY <1>5, <1>6, <2>1 DEF HomesOne
  <2>4. Sane(y) /\ Cells(y) = Cells(k)
    BY <2>2 DEF Keeps
  <2>5. AtHome(y, u, z)
    BY <2>3, <2>4, HomedToIs
  <2>6. Keeps(k, z)
    BY <2>2, <2>5, KeepsTwice DEF AtHome
  <2>7. ASSUME NEW x \in 1 .. i PROVE Cell(z, us[x]) = Home(Spot(us[x]))
    <3>1. CASE x = i
      BY <2>1, <2>5, <3>1 DEF AtHome
    <3>2. CASE x # i
      <4>1. x \in 1 .. i - 1 /\ x \in 1 .. n
        BY <3>2
      <4>2. us[x] \in Cells(y) \ {u} /\ Cell(y, us[x]) = Home(Spot(us[x]))
        BY <1>6, <1>7, <2>1, <2>2, <2>4, <3>2, <4>1
      <4> QED BY <2>5, <4>2 DEF AtHome, Yields
    <3> QED BY <3>1, <3>2
  <2>8. i \in 0 .. n
    OBVIOUS
  <2> QED BY <2>1, <2>6, <2>7, <2>8
<1>10. n \in T
  <2>1. \A i \in 0 .. n : i \in T
    <3> HIDE DEF T
    <3> QED BY <1>8, <1>9, Climb
  <2> QED BY <2>1
<1>11. ASSUME NEW i \in Nat, i >= 1, i <= n PROVE Cell(j, <<me, a + i>>) = Home(Spot(<<me, a + i>>))
  <2>1. i \in 1 .. n
    BY <1>11
  <2> QED BY <1>3, <1>5, <1>10, <2>1
<1> QED BY <1>5, <1>10, <1>11 DEF AllHome

\* They are read there.
LEMMA HomesOfIs ==
  ASSUME NEW h, Sane(h), NEW k, Still(h, k), NEW me \in Operands, NEW a \in Nat, NEW n \in Nat, Depth(h, me) = a + n,
         AllHome(k, me, a, n)
  PROVE  HomesOf(k, me, n) = Topmost(View(h), me, n)
<1>1. me \in Stacks /\ me # "C"
  BY OtherIs
<1>2. PICK w : w = HomesOf(k, me, n)
  OBVIOUS
<1>3. Depth(k, me) = a + n /\ Sane(k) /\ k \in Contexts
  BY <1>1, SaneParts DEF Still, SameShape
<1>4. w = [j \in 1 .. n |-> Read(k, <<me, Depth(k, me) - n + j - 1>>)]
  BY <1>2 DEF HomesOf
<1>5. ASSUME NEW i \in 1 .. n PROVE w[i] = View(h)[me][a + i]
  <2>1. PICK b, u : b = a + i /\ u = <<me, b>>
    OBVIOUS
  <2>2. b \in Nat /\ b >= 1 /\ b <= Depth(h, me) /\ i \in Nat /\ i >= 1 /\ i <= n /\ Depth(k, me) - n + i - 1 = b - 1
    BY <1>3, <2>1
  <2>3. Cell(k, u) = Home(Spot(u))
    BY <2>1, <2>2 DEF AllHome
  <2>4. Spot(u) = <<me, b - 1>> /\ u \in Stacks \X Int
    BY <1>1, <2>1, <2>2 DEF Spot
  <2>5. Holds(k, u) = Read(k, <<me, b - 1>>)
    BY <1>3, <2>3, <2>4, HomeIs DEF Holds
  <2>6. u \in Cells(h) /\ View(h)[me][b] = Holds(h, u)
    BY <1>1, <2>1, <2>2, SeenAt
  <2>7. Holds(k, u) = Holds(h, u)
    BY <2>6 DEF Still
  <2>8. w[i] = Read(k, <<me, b - 1>>)
    BY <1>4, <2>2
  <2> QED BY <2>1, <2>5, <2>6, <2>7, <2>8
<1>6. w = [i \in 1 .. n |-> w[i]]
  BY <1>4
<1>7. Family(View(h)) /\ Len(View(h)[me]) = a + n
  BY <1>1, ViewIs DEF Family
<1>8. PICK p : p = View(h)
  OBVIOUS
<1>9. /\ Family(p) /\ Len(p[me]) = a + n /\ w = [i \in 1 .. n |-> w[i]]
      /\ \A i \in 1 .. n : w[i] = p[me][a + i]
  BY <1>5, <1>6, <1>7, <1>8
<1>10. w = Topmost(p, me, n)
  <2>1. Sought(p, me, a, n) /\ Indexed(w, n)
    BY <1>1, <1>9 DEF Sought, Indexed
  <2> QED BY ONLY <1>9, <2>1, SoughtIs
<1> QED BY <1>2, <1>8, <1>10

\* What a callee may be asked.
Asked(me, n, results) == Has(me, n) /\ Depth(m, me) - n + results <= Max(me)
Told(me, n) == Answer(Topmost(View(m), me, n))

\* Its arguments are at home, and nothing else is in a register.
Homely(k, me, a, n) == Keeps(m, k) /\ Away(k, me, a) /\ AllHome(k, me, a, n)

LEMMA HomelyIs ==
  ASSUME Sane(m), NEW i, Keeps(m, i), NEW me \in Operands, NEW a \in Nat, NEW n \in Nat, Depth(m, me) = a + n,
         NEW k, k = Flushed(Homes(i, me, n))
  PROVE  Homely(k, me, a, n)
<1>1. PICK h : h = Homes(i, me, n)
  OBVIOUS
<1>2. me \in Stacks
  BY OtherIs
<1>3. Sane(i) /\ Depth(i, me) = a + n /\ Cells(i) = Cells(m)
  BY <1>2 DEF Keeps, SameShape
<1>4. Keeps(i, h) /\ AllHome(h, me, a, n)
  BY <1>1, <1>3, HomesAre
<1>5. Sane(h) /\ Cells(h) = Cells(m) /\ Keeps(m, h)
  BY <1>3, <1>4, KeepsTwice DEF Keeps
<1>6. /\ Keeps(h, k) /\ Away(k, me, a)
      /\ \A u \in Cells(h) : Cell(h, u) = Home(Spot(u)) => Cell(k, u) = Home(Spot(u))
  BY <1>1, <1>5, FlushedAway
<1>7. Keeps(m, k)
  BY <1>5, <1>6, KeepsTwice
<1>8. ASSUME NEW x \in Nat, x >= 1, x <= n PROVE Cell(k, <<me, a + x>>) = Home(Spot(<<me, a + x>>))
  <2>1. PICK b : b = a + x
    OBVIOUS
  <2>2. b \in Nat /\ b >= 1 /\ b <= Depth(m, me)
    BY <1>8, <2>1
  <2>3. <<me, b>> \in Cells(h)
    BY <1>2, <1>5, <2>2, SaneParts
  <2>4. Cell(h, <<me, b>>) = Home(Spot(<<me, b>>))
    BY <1>4, <1>8, <2>1 DEF AllHome
  <2> QED BY <1>6, <2>1, <2>3, <2>4
<1> QED BY <1>6, <1>7, <1>8 DEF Homely, AllHome

LEMMA HomelyApart ==
  ASSUME Good(m), NEW me \in Operands, NEW n \in 1 .. 2, NEW results \in Nat, results >= 1, Callable(me, n, results),
         NEW i, Keeps(m, i), NEW k, k = Flushed(Homes(i, me, n)), Becomes(Resumed(k, me, n, HomesOf(k, me, n), results))
  PROVE  Steps(Answered(View(m), me, n, results, Told(me, n)), m.cont, Quiet)
<1>1. n \in Nat
  OBVIOUS
<1>2. PICK a \in Nat : /\ Depth(m, me) = a + n /\ Len(View(m)[me]) = a + n /\ FloorOf(m, me) <= a
  BY <1>1, CallableIs
<1>3. /\ \A s \in Stacks : FloorOf(m, s) <= Len(View(m)[s])
      /\ Family(View(m)) /\ Sane(m) /\ me \in Stacks
  BY <1>1, CallableIs
<1>4. PICK p, args, v : p = View(m) /\ args = HomesOf(k, me, n) /\ v = Answer(args)
  OBVIOUS
<1>5. Homely(k, me, a, n)
  BY <1>1, <1>2, <1>3, HomelyIs
<1>6. Keeps(m, k) /\ Away(k, me, a) /\ AllHome(k, me, a, n)
  BY <1>5 DEF Homely
<1>7. Still(m, k) /\ Sane(k) /\ View(k) = p /\ k.cont = m.cont /\ Depth(k, me) = a + n
  BY <1>2, <1>3, <1>4, <1>6, KeepsStill, SameView DEF Still, SameShape
<1>8. args = Topmost(p, me, n)
  BY <1>1, <1>2, <1>3, <1>4, <1>6, <1>7, HomesOfIs
<1>9. v \in Values /\ v = Told(me, n)
  BY <1>2, <1>3, <1>4, <1>8, AnswerIs DEF Told
<1>10. Agree(p, View(k), me, a)
  <2>1. a <= Len(p[me])
    BY <1>1, <1>2, <1>4
  <2> QED BY <1>3, <1>4, <1>7, <2>1, AgreeSelf
<1>11. Becomes(Resumed(k, me, n, args, results))
  BY <1>4
<1>12. Steps(Answered(p, me, n, results, v), m.cont, Quiet)
  <2>1. /\ Good(m) /\ Family(p) /\ Sane(k) /\ k.cont = m.cont /\ Depth(k, me) = a + n /\ Len(p[me]) = a + n
        /\ FloorOf(m, me) <= a /\ Away(k, me, a) /\ Agree(p, View(k), me, a) /\ v \in Values /\ v = Answer(args)
        /\ \A s \in Stacks : s # me => FloorOf(m, s) <= Len(p[s])
    BY <1>2, <1>3, <1>4, <1>6, <1>7, <1>9, <1>10
  <2> QED BY <1>1, <1>11, <2>1, ApartIs
<1> QED BY <1>4, <1>9, <1>12

\* The only argument may stay in the register it is in.
LEMMA DetachedIs ==
  ASSUME Sane(m), NEW me \in Operands, NEW a \in Nat, Depth(m, me) = a + 1, NEW u, u = TopOf(m, me),
         NEW f, AtHand(m, u, {}, f), NEW k, k = Detached(f.m, me, Cell(f.m, u))
  PROVE  /\ Sane(k) /\ k.cont = m.cont /\ Depth(k, me) = a + 1 /\ k.reg[f.r] = Holds(m, u)
         /\ Away(k, me, a) /\ Agree(View(m), View(k), me, a)
<1>1. me \in Stacks
  BY OtherIs
<1>2. u \in Cells(m) /\ u = <<me, a + 1>> /\ Holds(m, u) \in Values
  BY <1>1, TopIs
<1>3. /\ f.r \in Regs /\ Keeps(m, f.m) /\ f.m.reg[f.r] = Holds(m, u) /\ Cell(f.m, u) = Reg(f.r, Spot(u))
  BY DEF AtHand
<1>4. Sane(f.m) /\ f.m.cont = m.cont /\ View(f.m) = View(m) /\ \A s \in Stacks : Depth(f.m, s) = Depth(m, s)
  BY <1>3, KeepsStill, SameView DEF Still, SameShape
<1>5. PICK c, l, d, r : c = PopCell(f.m, me) /\ l = Flushed(c) /\ d = Reg(r, Spot(u)) /\ r = f.r
  OBVIOUS
<1>6. Cropped(f.m, c, me, a)
  <2>1. 1 <= Depth(f.m, me) /\ a = Depth(f.m, me) - 1
    BY <1>1, <1>4
  <2> QED BY <1>1, <1>4, <1>5, <2>1, PopIs
<1>7. Sane(c) /\ c.cont = m.cont /\ c.reg = f.m.reg /\ View(c) = Shorter(View(m), me, a) /\ Depth(c, me) = a
  BY <1>1, <1>4, <1>6 DEF Cropped
<1>8. l.reg = c.reg
  BY <1>5, <1>7, FlushedIs
<1>9. Keeps(c, l) /\ Sane(l) /\ Away(l, me, a)
  BY <1>5, <1>7, FlushedAway
<1>10. View(l) = Shorter(View(m), me, a) /\ Depth(l, me) = a /\ l.cont = m.cont
  BY <1>1, <1>7, <1>9, KeepsStill, SameView DEF Still, SameShape
<1>11. NewCell(l, me) = u
  BY <1>2, <1>10 DEF NewCell
<1>12. k = PushCell(l, me, d)
  BY <1>3, <1>5 DEF Detached
<1>13. Placed(d, u) /\ Denote(l, d) = l.reg[r]
  <2>1. u \in Stacks \X Int /\ r \in Regs /\ l \in Contexts
    BY <1>1, <1>2, <1>3, <1>5, <1>9, SaneParts
  <2> QED BY <1>5, <2>1, RegIs
<1>14. PICK v : v = Holds(m, u)
  OBVIOUS
<1>15. Denote(l, d) = v /\ v \in Values
  BY <1>2, <1>3, <1>5, <1>7, <1>8, <1>13, <1>14
<1>16. Pushed(l, k, me, d)
  BY <1>1, <1>9, <1>11, <1>12, <1>13, <1>15, PushIs
<1>17. /\ Sane(k) /\ k.cont = l.cont /\ k.reg = l.reg /\ Depth(k, me) = a + 1
       /\ Cells(k) = Cells(l) \cup {u} /\ \A x \in Cells(l) : Cell(k, x) = Cell(l, x)
       /\ View(k) = Longer(View(l), me, v)
  BY <1>1, <1>10, <1>11, <1>15, <1>16 DEF Pushed
<1>18. k.reg[f.r] = Holds(m, u)
  BY <1>3, <1>7, <1>8, <1>17
<1>19. Away(k, me, a)
  <2>1. u[1] = me /\ ~(u[2] <= a)
    BY <1>2
  <2> QED BY <1>9, <1>17, <2>1 DEF Away
<1>20. PICK p, q, w : p = View(m) /\ q = View(l) /\ w = View(k)
  OBVIOUS
<1>21. Family(p) /\ Len(p[me]) = a + 1
  BY <1>1, <1>20, ViewIs DEF Family
<1>22. Shortens(p, q, me, a)
  BY <1>1, <1>10, <1>20, <1>21, ShorterIs
<1>23. Lengthens(q, w, me, v)
  <2>1. Family(q) /\ w = Longer(q, me, v)
    BY <1>17, <1>20, <1>22 DEF Shortens
  <2> QED BY <1>1, <1>15, <2>1, LongerIs
<1>24. Agree(p, w, me, a)
  <2>1. Family(w) /\ Len(q[me]) = a /\ Len(w[me]) = a + 1 /\ \A t \in Stacks : t # me => w[t] = p[t]
    BY <1>22, <1>23 DEF Shortens, Lengthens
  <2>2. \A i \in Nat : i >= 1 /\ i <= a => w[me][i] = p[me][i]
    <3>1. \A i \in 1 .. a : w[me][i] = q[me][i] /\ q[me][i] = p[me][i]
      BY <1>22, <1>23, <2>1 DEF Shortens, Lengthens
    <3> QED BY <3>1
  <2> QED BY <2>1, <2>2 DEF Agree
<1> QED BY <1>10, <1>17, <1>18, <1>19, <1>20, <1>24

LEMMA RecursiveCallIs ==
  ASSUME Good(m), NEW me \in Operands, NEW n \in 1 .. 2, NEW results \in Nat, results >= 1, RecursiveCall(me, n, results)
  PROVE  Asked(me, n, results) /\ Steps(Answered(View(m), me, n, results, Told(me, n)), m.cont, Quiet)
<1>1. n \in Nat /\ Callable(me, n, results)
  BY DEF RecursiveCall
<1>2. PICK a \in Nat : /\ Depth(m, me) = a + n /\ Len(View(m)[me]) = a + n /\ FloorOf(m, me) <= a
                       /\ a + results <= Max(me)
  BY <1>1, CallableIs
<1>3. /\ \A s \in Stacks : FloorOf(m, s) <= Len(View(m)[s])
      /\ Family(View(m)) /\ Sane(m) /\ me \in Stacks /\ Has(me, n)
  BY <1>1, CallableIs
<1>4. Asked(me, n, results)
  <2>1. Depth(m, me) - n + results = a + results
    BY <1>2
  <2> QED BY <1>2, <1>3, <2>1 DEF Asked
<1>5. PICK f, u : f = MaterializedAt(m, u, {}) /\ u = Under(m, me, n - 1)
  OBVIOUS
<1>6. AtHand(m, u, {}, f)
  <2>1. u \in Cells(m)
    <3>1. n - 1 \in Nat /\ (n - 1) + 1 <= Depth(m, me)
      BY <1>2
    <3> QED BY <1>3, <1>5, <3>1, UnderIs
  <2> QED BY <1>3, <1>5, <2>1, MasksAre, MaterializedAtIs
<1>7. CASE n = 1 /\ Settled(f.m)
  <2>1. PICK k : k = Detached(f.m, me, Cell(f.m, TopOf(m, me)))
    OBVIOUS
  <2>2. Becomes(Resumed(k, me, n, <<k.reg[f.r]>>, results))
    BY <1>5, <1>7, <2>1 DEF RecursiveCall
  <2>3. u = TopOf(m, me)
    BY <1>5, <1>7 DEF TopOf
  <2>4. Depth(m, me) = a + 1
    BY <1>2, <1>7
  <2>5. /\ Sane(k) /\ k.cont = m.cont /\ Depth(k, me) = a + 1 /\ k.reg[f.r] = Holds(m, u)
        /\ Away(k, me, a) /\ Agree(View(m), View(k), me, a)
    BY <1>3, <1>6, <2>1, <2>3, <2>4, DetachedIs
  <2>6. PICK p, v, args : p = View(m) /\ v = Holds(m, u) /\ args = <<k.reg[f.r]>>
    OBVIOUS
  <2>7. Answer(args) = v
    BY <2>5, <2>6 DEF Answer
  <2>8. v = p[me][a + 1] /\ v \in Values
    BY <1>3, <2>3, <2>4, <2>6, TopIs
  <2>9. Told(me, n) = v
    <3>1. PICK w : w = Topmost(p, me, n)
      OBVIOUS
    <3>2. Len(w) = n /\ \A i \in 1 .. n : w[i] = p[me][a + i]
      <4>1. n \in Nat /\ Family(p) /\ me \in Stacks /\ Len(p[me]) = a + n /\ w = Topmost(p, me, n)
        BY <1>1, <1>2, <1>3, <2>6, <3>1
      <4>2. Sought(p, me, a, n)
        BY <4>1 DEF Sought
      <4> QED BY <3>1, <4>2, SoughtIs
    <3>3. Answer(w) = w[1] /\ w[1] = p[me][a + 1]
      BY <1>7, <3>2 DEF Answer
    <3> QED BY <2>6, <2>8, <3>1, <3>3 DEF Told
  <2>10. Steps(Answered(p, me, n, results, v), m.cont, Quiet)
    <3>1. /\ Good(m) /\ Family(p) /\ Sane(k) /\ k.cont = m.cont /\ Depth(k, me) = a + n /\ Len(p[me]) = a + n
          /\ FloorOf(m, me) <= a /\ Away(k, me, a) /\ Agree(p, View(k), me, a) /\ v \in Values /\ v = Answer(args)
          /\ \A s \in Stacks : s # me => FloorOf(m, s) <= Len(p[s])
      BY <1>2, <1>3, <1>7, <2>5, <2>6, <2>7, <2>8
    <3>2. Becomes(Resumed(k, me, n, args, results))
      BY <2>2, <2>6
    <3> QED BY <1>1, <3>1, <3>2, ApartIs
  <2> QED BY <1>4, <2>6, <2>9, <2>10
<1>8. CASE ~(n = 1 /\ Settled(f.m))
  <2>1. PICK i, k : i = (IF n = 1 THEN f.m ELSE m) /\ k = Flushed(Homes(i, me, n))
    OBVIOUS
  <2>2. Becomes(Resumed(k, me, n, HomesOf(k, me, n), results))
    BY <1>5, <1>8, <2>1 DEF RecursiveCall
  <2>3. Keeps(m, i)
    BY <1>3, <1>6, <2>1, KeepsSelf DEF AtHand
  <2> QED BY <1>1, <1>4, <2>1, <2>2, <2>3, HomelyApart
<1> QED BY <1>7, <1>8

LEMMA AwayCropped ==
  ASSUME NEW k, NEW j, NEW s, NEW n, Cropped(k, j, s, n), NEW me, NEW a, Away(k, me, a) PROVE Away(j, me, a)
BY DEF Away, Cropped

\* The callee is named by the top of the other stack.
LEMMA IndirectCallIs ==
  ASSUME Good(m), NEW me \in Operands, NEW n \in 1 .. 2, NEW results \in Nat, results >= 1, IndirectCall(me, n, results)
  PROVE  /\ Asked(me, n, results) /\ Has(Other(me), 1)
         /\ Steps(Answered(Shorter(View(m), Other(me), Depth(m, Other(me)) - 1), me, n, results, Told(me, n)), m.cont, Quiet)
<1>1. n \in Nat /\ Callable(me, n, results) /\ Has(Other(me), 1)
  BY DEF IndirectCall
<1>2. PICK a \in Nat : /\ Depth(m, me) = a + n /\ Len(View(m)[me]) = a + n /\ FloorOf(m, me) <= a
                       /\ a + results <= Max(me)
  BY <1>1, CallableIs
<1>3. /\ \A s \in Stacks : FloorOf(m, s) <= Len(View(m)[s]) /\ Len(View(m)[s]) = Depth(m, s)
      /\ Family(View(m)) /\ Sane(m) /\ me \in Stacks /\ Has(me, n)
  BY <1>1, CallableIs
<1>4. Asked(me, n, results)
  <2>1. Depth(m, me) - n + results = a + results
    BY <1>2
  <2> QED BY <1>2, <1>3, <2>1 DEF Asked
<1>5. PICK to, b : to = Other(me) /\ b = Depth(m, to) - 1
  OBVIOUS
<1>6. to \in Stacks /\ to \in Operands /\ to # me /\ to # "C"
  BY <1>5, OtherIs
<1>7. b \in Nat /\ Depth(m, to) = b + 1 /\ FloorOf(m, to) <= b
  <2>1. /\ FloorOf(m, to) + 1 <= Depth(m, to) /\ Depth(m, to) \in Nat /\ FloorOf(m, to) \in Nat
    BY <1>1, <1>5, <1>6, FloorsAre
  <2> QED BY <1>5, <2>1
<1>8. PICK h, u, l, k, q : /\ h = Homes(m, me, n) /\ u = TopOf(m, to) /\ l = HomedTo(h, u, <<to, u[2] - 1>>)
                           /\ k = Flushed(l) /\ q = PopCell(k, to)
  OBVIOUS
<1>9. Becomes(Resumed(q, me, n, HomesOf(k, me, n), results))
  BY <1>5, <1>8 DEF IndirectCall
<1>10. u \in Cells(m) /\ u = <<to, b + 1>>
  BY <1>3, <1>6, <1>7, <1>8, TopIs
<1>11. Keeps(m, h) /\ AllHome(h, me, a, n)
  BY <1>1, <1>2, <1>3, <1>8, HomesAre
<1>12. Sane(h) /\ Cells(h) = Cells(m)
  BY <1>11 DEF Keeps
<1>13. Spot(u) = <<to, u[2] - 1>>
  BY <1>6, <1>10 DEF Spot
<1>14. AtHome(h, u, l)
  BY <1>8, <1>10, <1>12, <1>13, HomedToIs
<1>15. Keeps(h, l) /\ Yields(h, l, {}, Cells(h) \ {u})
  BY <1>14 DEF AtHome
<1>16. Sane(l) /\ Cells(l) = Cells(m) /\ Keeps(m, l)
  BY <1>11, <1>12, <1>15, KeepsTwice DEF Keeps
<1>17. /\ Keeps(l, k) /\ Sane(k) /\ Away(k, me, a)
       /\ \A x \in Cells(l) : Cell(l, x) = Home(Spot(x)) => Cell(k, x) = Home(Spot(x))
  BY <1>8, <1>16, FlushedAway
<1>18. Keeps(m, k)
  BY <1>16, <1>17, KeepsTwice
<1>19. AllHome(k, me, a, n)
  <2>1. ASSUME NEW x \in Nat, x >= 1, x <= n PROVE Cell(k, <<me, a + x>>) = Home(Spot(<<me, a + x>>))
    <3>1. PICK c, z : c = a + x /\ z = <<me, c>>
      OBVIOUS
    <3>2. c \in Nat /\ c >= 1 /\ c <= Depth(m, me)
      BY <1>2, <2>1, <3>1
    <3>3. z \in Cells(m) /\ z # u
      BY <1>3, <1>6, <1>10, <3>1, <3>2, SaneParts
    <3>4. Cell(h, z) = Home(Spot(z))
      BY <1>11, <2>1, <3>1 DEF AllHome
    <3>5. Cell(l, z) = Home(Spot(z))
      BY <1>12, <1>15, <3>3, <3>4 DEF Yields
    <3> QED BY <1>16, <1>17, <3>1, <3>3, <3>5
  <2> QED BY <2>1 DEF AllHome
<1>20. PICK p, r, args, v : p = View(m) /\ r = Shorter(p, to, b) /\ args = HomesOf(k, me, n) /\ v = Answer(args)
  OBVIOUS
<1>21. Still(m, k) /\ View(k) = p /\ k.cont = m.cont /\ \A s \in Stacks : Depth(k, s) = Depth(m, s)
  BY <1>3, <1>18, <1>20, KeepsStill, SameView DEF Still, SameShape
<1>22. args = Topmost(p, me, n)
  BY <1>1, <1>2, <1>3, <1>19, <1>20, <1>21, HomesOfIs
<1>23. v \in Values /\ v = Told(me, n)
  BY <1>2, <1>3, <1>20, <1>22, AnswerIs DEF Told
<1>24. Cropped(k, q, to, b)
  <2>1. 1 <= Depth(k, to) /\ b = Depth(k, to) - 1
    BY <1>6, <1>7, <1>21
  <2> QED BY <1>6, <1>8, <1>17, <2>1, PopIs
<1>25. Sane(q) /\ q.cont = m.cont /\ View(q) = r /\ Depth(q, me) = a + n
  BY <1>2, <1>3, <1>6, <1>20, <1>21, <1>24 DEF Cropped
<1>26. Away(q, me, a)
  BY <1>17, <1>24, AwayCropped
<1>27. Family(r) /\ Len(r[to]) = b /\ \A t \in Stacks : t # to => r[t] = p[t]
  <2>1. Family(p) /\ b <= Len(p[to])
    BY <1>3, <1>6, <1>7, <1>20
  <2>2. Shortens(p, r, to, b)
    BY <1>6, <1>7, <1>20, <2>1, ShorterIs
  <2> QED BY <2>2 DEF Shortens
<1>28. Len(r[me]) = a + n
  BY <1>2, <1>3, <1>6, <1>20, <1>27
<1>29. Agree(r, View(q), me, a)
  <2>1. a <= Len(r[me])
    BY <1>1, <1>28
  <2> QED BY <1>3, <1>25, <1>27, <2>1, AgreeSelf
<1>30. \A s \in Stacks : s # me => FloorOf(m, s) <= Len(r[s])
  BY <1>3, <1>7, <1>20, <1>27
<1>31. Steps(Answered(r, me, n, results, v), m.cont, Quiet)
  <2>1. /\ Good(m) /\ Family(r) /\ Sane(q) /\ q.cont = m.cont /\ Depth(q, me) = a + n /\ Len(r[me]) = a + n
        /\ FloorOf(m, me) <= a /\ Away(q, me, a) /\ Agree(r, View(q), me, a) /\ v \in Values /\ v = Answer(args)
        /\ \A s \in Stacks : s # me => FloorOf(m, s) <= Len(r[s])
    BY <1>2, <1>20, <1>23, <1>25, <1>26, <1>27, <1>28, <1>29, <1>30
  <2>2. Becomes(Resumed(q, me, n, args, results))
    BY <1>9, <1>20
  <2> QED BY <1>1, <2>1, <2>2, ApartIs
<1> QED BY <1>1, <1>4, <1>5, <1>20, <1>23, <1>31

\* The callee is not ABC code.
LEMMA ForeignCallIs ==
  ASSUME Good(m), NEW me \in Operands, NEW n \in 1 .. 2, NEW results \in Nat, results >= 1, ForeignCall(me, n, results)
  PROVE  Asked(me, n, results) /\ Steps(Answered(View(m), me, n, results, Told(me, n)), m.cont, Quiet)
<1>1. n \in Nat /\ Callable(me, n, results) /\ results = 1
  BY DEF ForeignCall
<1>2. PICK a \in Nat : /\ Depth(m, me) = a + n /\ Len(View(m)[me]) = a + n /\ FloorOf(m, me) <= a
                       /\ a + results <= Max(me)
  BY <1>1, CallableIs
<1>3. /\ \A s \in Stacks : FloorOf(m, s) <= Len(View(m)[s]) /\ Len(View(m)[s]) = Depth(m, s)
      /\ Family(View(m)) /\ Sane(m) /\ me \in Stacks /\ Has(me, n) /\ me # "C"
  BY <1>1, CallableIs, OtherIs
<1>4. Asked(me, n, results)
  <2>1. Depth(m, me) - n + results = a + results
    BY <1>2
  <2> QED BY <1>2, <1>3, <2>1 DEF Asked
<1>5. PICK k, args, v : k = Flushed(Homes(m, me, n)) /\ args = HomesOf(k, me, n) /\ v = Answer(args)
  OBVIOUS
<1>6. Homely(k, me, a, n)
  BY <1>1, <1>2, <1>3, <1>5, HomelyIs, KeepsSelf
<1>7. Keeps(m, k) /\ AllHome(k, me, a, n)
  BY <1>6 DEF Homely
<1>8. PICK p : p = View(m)
  OBVIOUS
<1>9. Still(m, k) /\ Sane(k) /\ View(k) = p /\ k.cont = m.cont /\ \A s \in Stacks : Depth(k, s) = Depth(m, s)
  BY <1>3, <1>7, <1>8, KeepsStill, SameView DEF Still, SameShape
<1>10. args = Topmost(p, me, n)
  BY <1>1, <1>2, <1>3, <1>5, <1>7, <1>8, <1>9, HomesOfIs
<1>11. v \in Values /\ v = Told(me, n)
  BY <1>2, <1>3, <1>5, <1>8, <1>10, AnswerIs DEF Told
<1>12. PICK u, t, c, i, j : /\ u = <<me, a + 1>> /\ t = Spot(u) /\ c = Cut(k, me, a) /\ i = Put(c, t, v)
                            /\ j = PushCell(i, me, Home(t))
  OBVIOUS
<1>13. t = <<me, a>> /\ u \in Stacks \X Int /\ t \in Places
  BY <1>3, <1>12 DEF Spot, Places
<1>14. Becomes(j)
  <2>1. PICK x : x = <<me, Depth(k, me) - n>>
    OBVIOUS
  <2>2. x = t /\ x[2] = a
    BY <1>2, <1>3, <1>9, <1>13, <2>1
  <2>3. results # 0
    BY <1>1
  <2>4. Becomes(PushCell(Put(Cut(k, me, x[2]), x, v), me, Home(x)))
    BY <1>5, <2>1, <2>3 DEF ForeignCall
  <2> QED BY <1>12, <2>2, <2>4
<1>15. Cropped(k, c, me, a)
  <2>1. a <= Depth(k, me)
    BY <1>1, <1>2, <1>3, <1>9
  <2> QED BY <1>3, <1>9, <1>12, <2>1, CropIs
<1>16. Sane(c) /\ c.cont = m.cont /\ View(c) = Shorter(p, me, a) /\ \A s \in Stacks : Depth(c, s) = IF s = me THEN a ELSE Depth(m, s)
  BY <1>9, <1>15 DEF Cropped
<1>17. \A x \in Cells(c) : Spot(x) # t
  <2>1. ASSUME NEW x \in Cells(c) PROVE Spot(x) # t
    <3>1. x \in Stacks \X Int /\ x[2] <= Depth(c, x[1]) /\ x = <<x[1], x[2]>>
      BY <1>16, SaneParts
    <3>2. x # u
      BY <1>3, <1>12, <1>16, <3>1
    <3> QED BY <1>12, <1>13, <3>1, <3>2, SpotsDiffer
  <2> QED BY <2>1
<1>18. v \in Contents
  BY <1>11 DEF Contents
<1>19. Still(c, i) /\ Read(i, t) = v
  BY <1>12, <1>13, <1>16, <1>17, <1>18, PutAway
<1>20. Sane(i) /\ i.cont = m.cont /\ View(i) = Shorter(p, me, a) /\ Depth(i, me) = a /\ i \in Contexts
  BY <1>3, <1>16, <1>19, SameView, SaneParts DEF Still, SameShape
<1>21. NewCell(i, me) = u
  BY <1>12, <1>20 DEF NewCell
<1>22. PICK d : d = Home(t)
  OBVIOUS
<1>23. Placed(d, NewCell(i, me)) /\ Denote(i, d) = v
  BY <1>12, <1>13, <1>19, <1>20, <1>21, <1>22, HomeIs
<1>24. Pushed(i, j, me, d)
  BY <1>3, <1>11, <1>12, <1>20, <1>22, <1>23, PushIs
<1>25. /\ Sane(j) /\ j.cont = m.cont /\ View(j) = Longer(View(i), me, v)
       /\ \A s \in Stacks : Depth(j, s) = IF s = me THEN a + 1 ELSE Depth(i, s)
  BY <1>20, <1>23, <1>24 DEF Pushed
<1>26. PICK q, w : q = View(i) /\ w = View(j)
  OBVIOUS
<1>27. Shortens(p, q, me, a)
  <2>1. a <= Len(p[me])
    BY <1>1, <1>2, <1>8
  <2> QED BY <1>3, <1>8, <1>20, <1>26, <2>1, ShorterIs
<1>28. Lengthens(q, w, me, v)
  <2>1. Family(q) /\ w = Longer(q, me, v)
    BY <1>25, <1>26, <1>27 DEF Shortens
  <2> QED BY <1>3, <1>11, <2>1, LongerIs
<1>29. Answers(p, w, me, a, results, v)
  <2>1. /\ Family(w) /\ Len(q[me]) = a /\ Len(w[me]) = a + 1 /\ w[me][a + 1] = v
        /\ \A s \in Stacks : s # me => w[s] = p[s]
    BY <1>27, <1>28 DEF Shortens, Lengthens
  <2>2. \A x \in Nat : x >= 1 /\ x <= a => w[me][x] = p[me][x]
    <3>1. \A x \in 1 .. a : w[me][x] = q[me][x] /\ q[me][x] = p[me][x]
      BY <1>27, <1>28, <2>1 DEF Shortens, Lengthens
    <3> QED BY <3>1
  <2>3. Agree(p, w, me, a)
    BY <2>1, <2>2 DEF Agree
  <2>4. \A x \in Nat : x >= 1 /\ x <= results => w[me][a + x] = v
    <3>1. \A x \in Nat : x >= 1 /\ x <= results => x = 1
      BY <1>1
    <3> QED BY <2>1, <3>1
  <2> QED BY <1>1, <2>1, <2>3, <2>4 DEF Answers
<1>30. w = Answered(p, me, n, results, v)
  <2>1. Family(p) /\ Len(p[me]) = a + n
    BY <1>2, <1>3, <1>8
  <2> QED BY <1>1, <1>3, <1>11, <1>29, <2>1, AnswersAll
<1>31. \A s \in Stacks : FloorOf(m, s) <= Depth(j, s)
  <2>1. \A s \in Stacks : s # me => Depth(j, s) = Depth(m, s) /\ FloorOf(m, s) <= Depth(m, s)
    BY <1>3, <1>16, <1>19, <1>25 DEF Still, SameShape
  <2>2. FloorOf(m, me) <= Depth(j, me)
    <3>1. Depth(j, me) = a + 1 /\ FloorOf(m, me) \in Nat
      BY <1>3, <1>25, FloorsAre
    <3> QED BY <1>2, <3>1
  <2> QED BY <2>1, <2>2
<1>32. Good(j)
  BY <1>25, <1>31, StillGood
<1>33. Steps(View(j), j.cont, Quiet)
  BY <1>14, <1>32, BecomesIs
<1> QED BY <1>4, <1>8, <1>11, <1>25, <1>26, <1>30, <1>33

\* g is the way of k through the passing of the n operands us of me
PassGoes(k, me, l, us, n) ==
  \E g : Passed(k, me, l) = g[n] /\ g[0] = k /\ \A i \in 1 .. n : g[i] = PassOne(g[i - 1], us[i], me, l)

LEMMA PassWay ==
  ASSUME NEW k, NEW me, NEW l, NEW us, us = Count(l), NEW n \in Nat, n = Len(us)
  PROVE  PassGoes(k, me, l, us, n)
<1> SUFFICES \E g : Passed(k, me, l) = g[n] /\ g[0] = k /\ \A i \in 1 .. n : g[i] = PassOne(g[i - 1], us[i], me, l)
  BY DEF PassGoes
<1> DEFINE G(h) == h = [i \in 0 .. Len(us) |-> IF i = 0 THEN k ELSE PassOne(h[i - 1], us[i], me, l)]
<1>1. Passed(k, me, l) = (CHOOSE h : G(h))[Len(us)]
  BY DEF Over, Passed, PassOne
<1>2. \E h : G(h)
  <2>1. PICK f : Way(f, <<"pass", me, l>>, k, us, n)
    BY WayExists
  <2>2. \A i \in 1 .. n : f[i] = PassOne(f[i - 1], us[i], me, l)
    BY <2>1 DEF Way, Doing
  <2>3. PICK h : h = [i \in 0 .. n |-> f[i]]
    OBVIOUS
  <2>4. \A i \in 1 .. n : i \in 0 .. n /\ i - 1 \in 0 .. n /\ i # 0
    OBVIOUS
  <2>5. h = [i \in 0 .. n |-> IF i = 0 THEN k ELSE PassOne(h[i - 1], us[i], me, l)]
    <3>1. f[0] = k
      BY <2>1 DEF Way
    <3>2. \A i \in 0 .. n : i = 0 \/ i \in 1 .. n
      OBVIOUS
    <3>3. \A i \in 0 .. n : h[i] = IF i = 0 THEN k ELSE PassOne(h[i - 1], us[i], me, l)
      BY <2>2, <2>3, <2>4, <3>1, <3>2
    <3>4. h = [i \in 0 .. n |-> h[i]]
      BY <2>3
    <3> QED BY <3>3, <3>4
  <2> QED BY <2>5
<1>3. PICK g : g = CHOOSE h : G(h)
  OBVIOUS
<1>4. G(g)
  BY <1>2, <1>3
<1>5. g = [i \in 0 .. n |-> IF i = 0 THEN k ELSE PassOne(g[i - 1], us[i], me, l)]
  BY <1>4
<1>6. 0 \in 0 .. n /\ n \in 0 .. n /\ \A i \in 1 .. n : i \in 0 .. n /\ i # 0
  OBVIOUS
<1>7. g[0] = k /\ \A i \in 1 .. n : g[i] = PassOne(g[i - 1], us[i], me, l)
  BY <1>5, <1>6
<1>8. Passed(k, me, l) = g[n]
  BY <1>1, <1>3
<1> QED BY <1>7, <1>8

\* The places a callee reads its arguments from are above C.
LEMMA SlotIs ==
  ASSUME NEW k, Sane(k), NEW n \in Nat, NEW j \in Nat, j <= n, NEW t, t = FrameSlot(k, n, j)
  PROVE  /\ t \in Places /\ t = <<"C", Depth(k, "C") - Arguments + (n - j) + 1>>
         /\ \A u \in Cells(k) : Spot(u) # t
<1>1. "C" \in Stacks
  BY DEF Stacks
<1>2. PICK b : b = Depth(k, "C")
  OBVIOUS
<1>3. b \in Nat /\ Arguments \in Nat /\ k \in Contexts
  BY <1>1, <1>2, SaneParts, Bounds
<1>4. Next(k, "C") = Spot(<<"C", b + 1>>)
  BY <1>1, <1>2, <1>3, SpotIs
<1>5. Spot(<<"C", b + 1>>) = <<"C", (b + 1) - 1 - Arguments>>
  BY DEF Spot
<1>6. Next(k, "C")[2] = b - Arguments
  <2>1. (b + 1) - 1 - Arguments = b - Arguments
    BY <1>3
  <2> QED BY <1>4, <1>5, <2>1
<1>7. t = <<"C", b - Arguments + (n - j) + 1>>
  BY <1>6 DEF FrameSlot
<1>8. b - Arguments + (n - j) + 1 \in Int
  BY <1>3
<1>9. ASSUME NEW u \in Cells(k) PROVE Spot(u) # t
  <2>1. u[1] \in Stacks /\ u[2] \in Nat /\ u[2] <= Depth(k, u[1])
    BY SaneParts
  <2>2. CASE u[1] = "C"
    <3>1. Spot(u) = <<"C", u[2] - 1 - Arguments>>
      BY <2>2 DEF Spot
    <3>2. PICK i : i = u[2]
      OBVIOUS
    <3>3. i \in Nat /\ i <= b
      BY <1>2, <2>1, <2>2, <3>2
    <3>4. i - 1 - Arguments # b - Arguments + (n - j) + 1
      BY <1>3, <3>3
    <3> QED BY <1>7, <3>1, <3>2, <3>4
  <2>3. CASE u[1] # "C"
    <3>1. Spot(u) = <<u[1], u[2] - 1>>
      BY <2>3 DEF Spot
    <3> QED BY <1>7, <2>3, <3>1
  <2> QED BY <2>2, <2>3
<1> QED BY <1>1, <1>2, <1>7, <1>8, <1>9 DEF Places

Slotted(k, n, j) == Sane(k) /\ n \in Nat /\ j \in Nat /\ j <= n

LEMMA SlottedIs ==
  ASSUME NEW k, NEW n, NEW j, Slotted(k, n, j)
  PROVE  /\ FrameSlot(k, n, j) = <<"C", Depth(k, "C") - Arguments + (n - j) + 1>>
         /\ \A u \in Cells(k) : Spot(u) # FrameSlot(k, n, j)
BY SlotIs DEF Slotted

\* i of the arguments are there.
Sent(k, g, me, a, n, i) ==
  Still(k, g) /\ \A j \in Nat : j >= 1 /\ j <= i => Read(g, FrameSlot(k, n, j)) = Holds(k, <<me, a + j>>)

LEMMA SentStep ==
  ASSUME NEW k, Sane(k), NEW me \in Operands, NEW a \in Nat, NEW n \in Nat, Depth(k, me) = a + n,
         NEW i \in Nat, i + 1 <= n, NEW g, Sent(k, g, me, a, n, i), NEW h, h = PassOne(g, i + 1, me, n)
  PROVE  Sent(k, h, me, a, n, i + 1)
<1>1. me \in Stacks /\ "C" \in Stacks
  BY OtherIs DEF Stacks
<1>2. Still(k, g) /\ Sane(g) /\ Cells(g) = Cells(k) /\ \A s \in Stacks : Depth(g, s) = Depth(k, s)
  BY DEF Sent, Still, SameShape
<1>3. PICK b, x, u : b = i + 1 /\ x = a + b /\ u = <<me, x>>
  OBVIOUS
<1>4. b \in Nat /\ b >= 1 /\ b <= n /\ x \in Nat /\ x >= 1 /\ x <= a + n
  BY <1>3
<1>5. u \in Cells(k) /\ Holds(g, u) = Holds(k, u)
  <2>1. x <= Depth(k, me)
    BY <1>4
  <2>2. u \in Cells(k)
    BY <1>1, <1>3, <1>4, <2>1, SaneParts
  <2> QED BY <1>2, <2>2 DEF Still
<1>6. Under(g, me, n - b) = u
  <2>1. Depth(g, me) - (n - b) = x
    BY <1>1, <1>2, <1>3, <1>4
  <2> QED BY <1>3, <2>1 DEF Under
<1>7. PICK w, t : w = MaterializedAt(g, u, {}) /\ t = FrameSlot(g, n, b)
  OBVIOUS
<1>8. AtHand(g, u, {}, w)
  BY <1>2, <1>5, <1>7, MasksAre, MaterializedAtIs
<1>9. Keeps(g, w.m) /\ w.m.reg[w.r] = Holds(k, u) /\ Holds(k, u) \in Contents
  <2>1. Holds(k, u) \in Values
    BY <1>5, SaneParts
  <2> QED BY <1>5, <1>8, <2>1 DEF AtHand, Contents
<1>10. Sane(w.m) /\ Cells(w.m) = Cells(g) /\ Still(g, w.m)
  BY <1>9, KeepsStill DEF Keeps
<1>11. h = Put(w.m, t, w.m.reg[w.r])
  BY <1>3, <1>6, <1>7 DEF PassOne, Written
<1>12. t \in Places /\ \A v \in Cells(g) : Spot(v) # t
  BY <1>2, <1>4, <1>7, SlotIs
<1>13. Still(w.m, h) /\ \A q : Read(h, q) = IF q = t THEN Holds(k, u) ELSE Read(w.m, q)
  <2>1. PICK y, v : y = w.m /\ v = Holds(k, u)
    OBVIOUS
  <2>2. Sane(y) /\ t \in Places /\ (\A z \in Cells(y) : Spot(z) # t) /\ v \in Contents /\ h = Put(y, t, v)
    BY <1>9, <1>10, <1>11, <1>12, <2>1
  <2>3. Still(y, h) /\ \A q : Read(h, q) = IF q = t THEN v ELSE Read(y, q)
    BY ONLY <2>2, PutAway
  <2> QED BY <2>1, <2>3
<1>14. Still(k, h)
  BY <1>2, <1>10, <1>13, StillTwice
<1>15. ASSUME NEW j \in Nat, j >= 1, j <= b PROVE Read(h, FrameSlot(k, n, j)) = Holds(k, <<me, a + j>>)
  <2>1. PICK p : p = FrameSlot(k, n, j)
    OBVIOUS
  <2>2. j <= n
    BY <1>4, <1>15
  <2>3. p = <<"C", Depth(k, "C") - Arguments + (n - j) + 1>> /\ \A v \in Cells(k) : Spot(v) # p
    BY <2>1, <2>2, SlotIs
  <2>4. t = <<"C", Depth(k, "C") - Arguments + (n - b) + 1>>
    BY <1>1, <1>2, <1>4, <1>7, SlotIs
  <2>5. CASE j = b
    BY <1>3, <1>13, <2>1, <2>3, <2>4, <2>5
  <2>6. CASE j # b
    <3>1. PICK c : c = Depth(k, "C") - Arguments
      OBVIOUS
    <3>2. c \in Int
      BY <1>1, <3>1, SaneParts, Bounds
    <3>3. c + (n - j) + 1 # c + (n - b) + 1
      BY <1>4, <2>6, <3>2
    <3>4. p # t
      BY <2>3, <2>4, <3>1, <3>3
    <3>5. Read(h, p) = Read(w.m, p)
      BY <1>13, <3>4
    <3>6. Read(w.m, p) = Read(g, p)
      BY <1>2, <1>9, <2>3 DEF Keeps
    <3>7. Read(g, p) = Holds(k, <<me, a + j>>)
      <4>1. j <= i
        BY <1>3, <1>15, <2>6
      <4> QED BY <1>15, <2>1, <4>1 DEF Sent
    <3> QED BY <2>1, <3>5, <3>6, <3>7
  <2> QED BY <2>5, <2>6
<1> QED BY <1>3, <1>14, <1>15 DEF Sent

LEMMA SentIs ==
  ASSUME NEW k, Sane(k), NEW me \in Operands, NEW a \in Nat, NEW n \in Nat, Depth(k, me) = a + n,
         NEW j, j = Passed(k, me, n)
  PROVE  Sent(k, j, me, a, n, n)
<1>1. PICK us : us = Count(n)
  OBVIOUS
<1>2. n = Len(us) /\ \A i \in 1 .. n : us[i] = i
  BY <1>1, CountIs
<1>3. PICK g : j = g[n] /\ g[0] = k /\ \A i \in 1 .. n : g[i] = PassOne(g[i - 1], us[i], me, n)
  <2>1. n = Len(us)
    BY <1>2
  <2>2. PassGoes(k, me, n, us, n)
    BY ONLY n \in Nat, <1>1, <2>1, PassWay
  <2> QED BY ONLY <2>2, j = Passed(k, me, n) DEF PassGoes
<1> DEFINE T == {i \in 0 .. n : Sent(k, g[i], me, a, n, i)}
<1>4. 0 \in T
  <2>1. \A i \in Nat : i >= 1 /\ i <= 0 => FALSE
    OBVIOUS
  <2>2. Still(k, k)
    BY KeepsSelf, KeepsStill
  <2>3. Sent(k, k, me, a, n, 0)
    BY <2>1, <2>2 DEF Sent
  <2> QED BY <1>3, <2>3
<1>5. ASSUME NEW i \in 1 .. n, i - 1 \in T PROVE i \in T
  <2>1. PICK y, z, b : y = g[i - 1] /\ z = g[i] /\ b = i - 1
    OBVIOUS
  <2>2. b \in Nat /\ b + 1 <= n /\ b + 1 = i /\ i \in 0 .. n
    BY <2>1
  <2>3. Sent(k, y, me, a, n, b) /\ z = PassOne(y, b + 1, me, n)
    BY <1>2, <1>3, <1>5, <2>1, <2>2
  <2>4. Sent(k, z, me, a, n, b + 1)
    BY <2>2, <2>3, SentStep
  <2> QED BY <2>1, <2>2, <2>4
<1>6. n \in T
  <2>1. \A i \in 0 .. n : i \in T
    <3> HIDE DEF T
    <3> QED BY <1>4, <1>5, Climb
  <2> QED BY <2>1
<1> QED BY <1>3, <1>6

LEMMA RealCallIs ==
  ASSUME Good(m), NEW me \in Operands, NEW n \in 1 .. 2, NEW results \in Nat, results >= 1, RealCall(me, n, results)
  PROVE  Asked(me, n, results) /\ Steps(Answered(View(m), me, n, results, Told(me, n)), m.cont, Quiet)
<1>1. n \in Nat /\ Callable(me, n, results)
  BY DEF RealCall
<1>2. PICK a \in Nat : /\ Depth(m, me) = a + n /\ Len(View(m)[me]) = a + n /\ FloorOf(m, me) <= a
                       /\ a + results <= Max(me)
  BY <1>1, CallableIs
<1>3. /\ \A s \in Stacks : FloorOf(m, s) <= Len(View(m)[s])
      /\ Family(View(m)) /\ Sane(m) /\ me \in Stacks /\ Has(me, n)
  BY <1>1, CallableIs
<1>4. Asked(me, n, results)
  <2>1. Depth(m, me) - n + results = a + results
    BY <1>2
  <2> QED BY <1>2, <1>3, <2>1 DEF Asked
<1>5. PICK h, k, p, args, v : /\ h = Passed(m, me, n) /\ k = Flushed(h) /\ p = View(m)
                              /\ args = FrameOf(k, n) /\ v = Answer(args)
  OBVIOUS
<1>6. Becomes(Resumed(k, me, n, args, results))
  BY <1>5 DEF RealCall
<1>7. Sent(m, h, me, a, n, n)
  BY <1>1, <1>2, <1>3, <1>5, SentIs
<1>8. Still(m, h) /\ Sane(h) /\ Cells(h) = Cells(m)
  BY <1>7 DEF Sent, Still
<1>9. Keeps(h, k) /\ Away(k, me, a) /\ Sane(k)
  BY <1>5, <1>8, FlushedAway
<1>10. Still(m, k)
  BY <1>8, <1>9, KeepsStill, StillTwice
<1>11. View(k) = p /\ k.cont = m.cont /\ \A s \in Stacks : Depth(k, s) = Depth(m, s)
  BY <1>3, <1>5, <1>10, SameView DEF Still, SameShape
<1>12. ASSUME NEW i \in 1 .. n PROVE args[i] = p[me][a + i]
  <2>1. PICK b, t, u : b = a + i /\ t = FrameSlot(k, n, i) /\ u = <<me, b>>
    OBVIOUS
  <2>2. i \in Nat /\ i >= 1 /\ i <= n /\ b \in Nat /\ b >= 1 /\ b <= Depth(m, me)
    BY <1>1, <1>2, <2>1
  <2>3. args[i] = Read(k, t)
    BY <1>5, <2>1 DEF FrameOf
  <2>4. t = <<"C", Depth(k, "C") - Arguments + (n - i) + 1>>
    BY <1>1, <1>9, <2>1, <2>2, SlotIs
  <2>5. /\ FrameSlot(m, n, i) = <<"C", Depth(m, "C") - Arguments + (n - i) + 1>>
        /\ \A x \in Cells(m) : Spot(x) # FrameSlot(m, n, i)
    <3>1. PICK y : y = FrameSlot(m, n, i)
      OBVIOUS
    <3>2. Sane(m) /\ n \in Nat /\ i \in Nat /\ i <= n
      BY <1>1, <1>3, <2>2
    <3>3. y = <<"C", Depth(m, "C") - Arguments + (n - i) + 1>> /\ \A x \in Cells(m) : Spot(x) # y
      <4>1. Slotted(m, n, i)
        BY <3>2 DEF Slotted
      <4> QED BY ONLY <3>1, <4>1, SlottedIs
    <3> QED BY <3>1, <3>3
  <2>6. t = FrameSlot(m, n, i)
    <3>1. Depth(k, "C") = Depth(m, "C")
      BY <1>11 DEF Stacks
    <3> QED BY <2>4, <2>5, <3>1
  <2>7. Read(k, t) = Read(h, t)
    BY <1>8, <1>9, <2>5, <2>6 DEF Keeps
  <2>8. Read(h, t) = Holds(m, u)
    BY <1>7, <2>1, <2>2, <2>6 DEF Sent
  <2>9. View(m)[me][b] = Holds(m, u)
    BY <1>3, <2>1, <2>2, SeenAt
  <2> QED BY <1>5, <2>1, <2>3, <2>7, <2>8, <2>9
<1>13. args = [i \in 1 .. n |-> args[i]]
  BY <1>5 DEF FrameOf
<1>14. args = Topmost(p, me, n)
  <2>1. Family(p) /\ Len(p[me]) = a + n
    BY <1>2, <1>3, <1>5
  <2>2. n \in Nat /\ me \in Stacks /\ \A i \in 1 .. n : args[i] = p[me][a + i]
    BY <1>1, <1>3, <1>12
  <2>3. Sought(p, me, a, n) /\ Indexed(args, n)
    BY <1>13, <2>1, <2>2 DEF Sought, Indexed
  <2> QED BY <1>12, <2>3, SoughtIs
<1>15. v \in Values /\ v = Told(me, n)
  BY <1>2, <1>3, <1>5, <1>14, AnswerIs DEF Told
<1>16. Agree(p, View(k), me, a)
  <2>1. a <= Len(p[me]) /\ Family(p)
    BY <1>1, <1>2, <1>3, <1>5
  <2> QED BY <1>3, <1>11, <2>1, AgreeSelf
<1>17. Steps(Answered(p, me, n, results, v), m.cont, Quiet)
  <2>1. /\ Good(m) /\ Family(p) /\ Sane(k) /\ k.cont = m.cont /\ Depth(k, me) = a + n /\ Len(p[me]) = a + n
        /\ FloorOf(m, me) <= a /\ Away(k, me, a) /\ Agree(p, View(k), me, a) /\ v \in Values /\ v = Answer(args)
        /\ \A s \in Stacks : s # me => FloorOf(m, s) <= Len(p[s])
    BY <1>2, <1>3, <1>5, <1>9, <1>11, <1>15, <1>16
  <2> QED BY <1>1, <1>6, <2>1, ApartIs
<1> QED BY <1>4, <1>5, <1>15, <1>17

-----------------------------------------------------------------------------
(* The last return.                                                          *)

Ended(k, me) == Over(LAMBDA f, u : Saved(SetCell(f, u, Aim(Cell(f, u), <<me, u[2] - 1>>)), u), k, Of(k, me))

LEMMA FinishWay ==
  ASSUME NEW k, NEW me, NEW us, us = Of(k, me), NEW n \in Nat, n = Len(us)
  PROVE  \E g : Ended(k, me) = g[n] /\ g[0] = k /\ \A i \in 1 .. n : g[i] = FinishOne(g[i - 1], us[i], me)
<1> DEFINE G(h) == h = [i \in 0 .. Len(us) |-> IF i = 0 THEN k ELSE FinishOne(h[i - 1], us[i], me)]
<1>1. Ended(k, me) = (CHOOSE h : G(h))[Len(us)]
  BY DEF Over, Ended, FinishOne
<1>2. \E h : G(h)
  <2>1. PICK f : Way(f, <<"finish", me>>, k, us, n)
    BY WayExists
  <2>2. \A i \in 1 .. n : f[i] = FinishOne(f[i - 1], us[i], me)
    BY <2>1 DEF Way, Doing
  <2>3. PICK h : h = [i \in 0 .. n |-> f[i]]
    OBVIOUS
  <2>4. \A i \in 1 .. n : i \in 0 .. n /\ i - 1 \in 0 .. n /\ i # 0
    OBVIOUS
  <2>5. h = [i \in 0 .. n |-> IF i = 0 THEN k ELSE FinishOne(h[i - 1], us[i], me)]
    <3>1. f[0] = k
      BY <2>1 DEF Way
    <3>2. \A i \in 0 .. n : i = 0 \/ i \in 1 .. n
      OBVIOUS
    <3>3. \A i \in 0 .. n : h[i] = IF i = 0 THEN k ELSE FinishOne(h[i - 1], us[i], me)
      BY <2>2, <2>3, <2>4, <3>1, <3>2
    <3>4. h = [i \in 0 .. n |-> h[i]]
      BY <2>3
    <3> QED BY <3>3, <3>4
  <2> QED BY <2>5
<1>3. PICK g : g = CHOOSE h : G(h)
  OBVIOUS
<1>4. G(g)
  BY <1>2, <1>3
<1>5. g = [i \in 0 .. n |-> IF i = 0 THEN k ELSE FinishOne(g[i - 1], us[i], me)]
  BY <1>4
<1>6. 0 \in 0 .. n /\ n \in 0 .. n /\ \A i \in 1 .. n : i \in 0 .. n /\ i # 0
  OBVIOUS
<1>7. g[0] = k /\ \A i \in 1 .. n : g[i] = FinishOne(g[i - 1], us[i], me)
  BY <1>5, <1>6
<1>8. Ended(k, me) = g[n]
  BY <1>1, <1>3
<1> QED BY <1>7, <1>8

\* A slot that has the value of its cell keeps it.
LEMMA StaysStored ==
  ASSUME NEW k, Sane(k), NEW j, Keeps(k, j), NEW u \in Cells(k), Read(k, Spot(u)) = Holds(k, u)
  PROVE  Read(j, Spot(u)) = Holds(k, u)
<1>1. Read(j, Spot(u)) = Read(k, Spot(u)) \/ \E v \in Cells(k) : Spot(u) = Spot(v) /\ Read(j, Spot(u)) = Holds(k, v)
  BY DEF Keeps
<1>2. \A v \in Cells(k) : Spot(u) = Spot(v) => u = v
  BY SpotsDiffer, SaneParts
<1> QED BY <1>1, <1>2

LEMMA FinishStep ==
  ASSUME NEW k, Sane(k), NEW me \in Operands, NEW u \in Cells(k), u[1] = me, NEW j, j = FinishOne(k, u, me)
  PROVE  Keeps(k, j) /\ Read(j, Spot(u)) = Holds(k, u)
<1>1. me # "C"
  BY OtherIs
<1>2. Spot(u) = <<me, u[2] - 1>>
  BY <1>1 DEF Spot
<1>3. SetCell(k, u, Aim(Cell(k, u), Spot(u))) = k
  BY AimedIs
<1>4. j = Saved(k, u)
  BY <1>2, <1>3 DEF FinishOne
<1> QED BY <1>4, SavedIs DEF Stored

LEMMA EndedIs ==
  ASSUME NEW k, Sane(k), NEW me \in Operands, NEW j, j = Ended(k, me)
  PROVE  \A i \in Nat : i >= 1 /\ i <= Depth(k, me) => Read(j, <<me, i - 1>>) = Holds(k, <<me, i>>)
<1>1. me \in Stacks /\ me # "C" /\ k \in Contexts
  BY OtherIs, SaneParts
<1>2. PICK us, n : us = Of(k, me) /\ n = Depth(k, me)
  OBVIOUS
<1>3. n \in Nat /\ n = Len(us) /\ \A i \in 1 .. n : us[i] = <<me, i>>
  BY <1>1, <1>2, OfIs, SaneParts
<1>4. PICK g : j = g[n] /\ g[0] = k /\ \A i \in 1 .. n : g[i] = FinishOne(g[i - 1], us[i], me)
  <2>1. \E g : Ended(k, me) = g[n] /\ g[0] = k /\ \A i \in 1 .. n : g[i] = FinishOne(g[i - 1], us[i], me)
    <3>1. us = Of(k, me)
      BY <1>2
    <3> QED BY ONLY <3>1, <1>3, FinishWay
  <2> QED BY <2>1
<1>5. ASSUME NEW i \in 1 .. n PROVE us[i] \in Cells(k) /\ us[i][1] = me /\ Spot(us[i]) = <<me, i - 1>>
  <2>1. i \in Nat /\ i >= 1 /\ i <= Depth(k, me)
    BY <1>2, <1>3
  <2> QED BY <1>1, <1>3, <2>1, SaneParts DEF Spot
<1> DEFINE T == {i \in 0 .. n : Keeps(k, g[i]) /\ \A x \in 1 .. i : Read(g[i], Spot(us[x])) = Holds(k, us[x])}
<1>6. 0 \in T
  <2>1. \A x \in 1 .. 0 : FALSE
    OBVIOUS
  <2> QED BY <1>3, <1>4, <2>1, KeepsSelf
<1>7. ASSUME NEW i \in 1 .. n, i - 1 \in T PROVE i \in T
  <2>1. PICK y, z, u : y = g[i - 1] /\ z = g[i] /\ u = us[i]
    OBVIOUS
  <2>2. Keeps(k, y) /\ \A x \in 1 .. i - 1 : Read(y, Spot(us[x])) = Holds(k, us[x])
    BY <1>7, <2>1
  <2>3. u \in Cells(k) /\ u[1] = me /\ z = FinishOne(y, u, me)
    BY <1>4, <1>5, <2>1
  <2>4. Sane(y) /\ Cells(y) = Cells(k) /\ \A v \in Cells(k) : Holds(y, v) = Holds(k, v)
    BY <2>2 DEF Keeps
  <2>5. Keeps(y, z) /\ Read(z, Spot(u)) = Holds(k, u)
    <3>1. Keeps(y, z) /\ Read(z, Spot(u)) = Holds(y, u)
      BY <2>3, <2>4, FinishStep
    <3> QED BY <2>3, <2>4, <3>1
  <2>6. Keeps(k, z)
    BY <2>2, <2>5, KeepsTwice
  <2>7. ASSUME NEW x \in 1 .. i PROVE Read(z, Spot(us[x])) = Holds(k, us[x])
    <3>1. CASE x = i
      BY <2>1, <2>5, <3>1
    <3>2. CASE x # i
      <4>1. x \in 1 .. i - 1 /\ x \in 1 .. n
        BY <1>3, <3>2
      <4>2. PICK v : v = us[x]
        OBVIOUS
      <4>3. v \in Cells(y) /\ Read(y, Spot(v)) = Holds(y, v) /\ Holds(y, v) = Holds(k, v)
        BY <1>5, <2>2, <2>4, <4>1, <4>2
      <4>4. Read(z, Spot(v)) = Holds(y, v)
        BY <2>4, <2>5, <4>3, StaysStored
      <4> QED BY <4>2, <4>3, <4>4
    <3> QED BY <3>1, <3>2
  <2>8. i \in 0 .. n
    BY <1>3
  <2> QED BY <2>1, <2>6, <2>7, <2>8
<1>8. n \in T
  <2>1. \A i \in 0 .. n : i \in T
    <3> HIDE DEF T
    <3> QED BY <1>3, <1>6, <1>7, Climb
  <2> QED BY <1>3, <2>1
<1>9. ASSUME NEW i \in Nat, i >= 1, i <= n PROVE Read(j, <<me, i - 1>>) = Holds(k, <<me, i>>)
  <2>1. i \in 1 .. n
    BY <1>3, <1>9
  <2> QED BY <1>3, <1>4, <1>5, <1>8, <2>1
<1> QED BY <1>2, <1>9

Nothing == [s \in Stacks |-> <<>>]

\* No cell is left.
LEMMA NothingIs ==
  ASSUME NEW k, Sane(k), k.cont = <<>>, NEW j, j = [k EXCEPT !.cell = Nothing]
  PROVE  Good(j) /\ View(j) = Nothing /\ j.cont = <<>>
<1>1. k \in Contexts
  BY SaneParts
<1>2. Nothing \in [Stacks -> Seq(Descs)] /\ \A s \in Stacks : Nothing[s] = <<>>
  BY DEF Nothing
<1>3. j \in Contexts /\ j.cell = Nothing /\ j.cont = <<>>
  BY <1>1, <1>2 DEF Contexts
<1>4. \A s \in Stacks : Depth(j, s) = 0
  BY <1>2, <1>3 DEF Depth
<1>5. Cells(j) = {}
  <2>1. ASSUME NEW u \in Cells(j) PROVE FALSE
    <3>1. PICK s \in Stacks : \E i \in 1 .. Depth(j, s) : u = <<s, i>>
      BY <1>3, CellsAre
    <3>2. \A i \in 1 .. 0 : FALSE
      OBVIOUS
    <3> QED BY <1>4, <3>1, <3>2
  <2> QED BY <2>1
<1>6. Sane(j)
  BY <1>3, <1>5 DEF Sane
<1>7. Framed(j)
  <2>1. Len(j.cont) = 0 /\ \A i \in 1 .. 0 : FALSE
    BY <1>3
  <2> QED BY <2>1 DEF Framed
<1>8. View(j) = Nothing
  <2>1. PICK p, q : p = View(j) /\ q = Nothing
    OBVIOUS
  <2>2. p \in [Stacks -> Seq(Values)] /\ \A s \in Stacks : Len(p[s]) = 0
    BY <1>4, <1>6, <2>1, ViewIs
  <2>3. q \in [Stacks -> Seq(Values)] /\ \A s \in Stacks : Len(q[s]) = 0
    BY <2>1 DEF Nothing
  <2>4. \A s \in Stacks : Len(p[s]) = Len(q[s]) /\ \A i \in 1 .. Len(q[s]) : p[s][i] = q[s][i]
    <3>1. \A i \in 1 .. 0 : FALSE
      OBVIOUS
    <3> QED BY <2>2, <2>3, <3>1
  <2>5. p = q
    BY <2>2, <2>3, <2>4, SameStacks
  <2> QED BY <2>1, <2>5
<1> QED BY <1>3, <1>6, <1>7, <1>8 DEF Good

LEMMA FinishIs ==
  ASSUME Good(m), NEW me \in Operands, NEW n \in Nat, Finish(me, n)
  PROVE  /\ m.cont = <<>> /\ Alone(me, n)
         /\ Steps(Nothing, m.cont, <<"results", Topmost(View(m), me, n)>>)
<1>1. m.cont = <<>> /\ Alone(me, n) /\ Takes([m EXCEPT !.cell = Nothing])
  BY DEF Finish, Nothing
<1>2. Sane(m) /\ me \in Stacks
  BY GoodParts, OtherIs
<1>3. Depth(m, me) = n
  <2>1. Floor(me) = 0 /\ Depth(m, me) = Floor(me) + n
    BY <1>1 DEF Floor, Alone
  <2> QED BY <2>1
<1>4. PICK k, f : /\ k = Ended(m, me)
                  /\ f = IF n = 1 THEN MaterializedAt(m, <<me, 1>>, {}) ELSE [m |-> k, r |-> 0]
                  /\ out' = <<"results", IF n = 1 THEN <<f.m.reg[f.r]>> ELSE [i \in 1 .. n |-> Read(f.m, <<me, i - 1>>)]>>
  BY DEF Finish, Ended
<1>5. PICK p, w : p = View(m) /\ w = IF n = 1 THEN <<f.m.reg[f.r]>> ELSE [i \in 1 .. n |-> Read(f.m, <<me, i - 1>>)]
  OBVIOUS
<1>6. Family(p) /\ Len(p[me]) = 0 + n
  <2>1. Family(p) /\ Len(p[me]) = Depth(m, me)
    BY <1>2, <1>5, ViewIs DEF Family
  <2> QED BY <1>3, <2>1
<1>7. ASSUME NEW i \in 1 .. n PROVE p[me][0 + i] = Holds(m, <<me, i>>) /\ <<me, i>> \in Cells(m) /\ 0 + i = i
  <2>1. i \in Nat /\ i >= 1 /\ i <= Depth(m, me) /\ 0 + i = i
    BY <1>3
  <2> QED BY <1>2, <1>5, <2>1, SeenAt
<1>8. w = [i \in 1 .. n |-> w[i]] /\ \A i \in 1 .. n : w[i] = p[me][0 + i]
  <2>1. CASE n = 1
    <3>1. PICK u, v : u = <<me, 1>> /\ v = f.m.reg[f.r]
      OBVIOUS
    <3>2. u \in Cells(m) /\ p[me][0 + 1] = Holds(m, u)
      BY <1>7, <2>1, <3>1
    <3>3. f = MaterializedAt(m, u, {})
      BY <1>4, <2>1, <3>1
    <3>4. AtHand(m, u, {}, f)
      BY <1>2, <3>2, <3>3, MasksAre, MaterializedAtIs
    <3>5. v = Holds(m, u)
      BY <3>1, <3>4 DEF AtHand
    <3>6. w = <<v>>
      BY <1>5, <2>1, <3>1
    <3>7. w = [i \in 1 .. 1 |-> w[i]] /\ w[1] = v
      BY <3>6
    <3>8. \A i \in 1 .. 1 : i = 1
      OBVIOUS
    <3> QED BY <2>1, <3>2, <3>5, <3>7, <3>8
  <2>2. CASE n # 1
    <3>1. w = [i \in 1 .. n |-> Read(k, <<me, i - 1>>)]
      BY <1>4, <1>5, <2>2
    <3>2. ASSUME NEW i \in 1 .. n PROVE w[i] = p[me][0 + i]
      <4>1. i \in Nat /\ i >= 1 /\ i <= Depth(m, me)
        BY <1>3
      <4>2. Read(k, <<me, i - 1>>) = Holds(m, <<me, i>>)
        BY <1>2, <1>4, <4>1, EndedIs
      <4> QED BY <1>7, <3>1, <4>2
    <3> QED BY <3>1, <3>2
  <2> QED BY <2>1, <2>2
<1>9. w = Topmost(p, me, n)
  BY ONLY n \in Nat, <1>2, <1>6, <1>8, TheseAre
<1>10. out' = <<"results", Topmost(View(m), me, n)>>
  BY <1>4, <1>5, <1>9
<1>11. PICK j : j = [m EXCEPT !.cell = Nothing]
  OBVIOUS
<1>12. Good(j) /\ View(j) = Nothing /\ j.cont = m.cont /\ Takes(j)
  BY <1>1, <1>2, <1>11, NothingIs
<1>13. Steps(View(j), j.cont, <<"results", Topmost(View(m), me, n)>>)
  BY <1>10, <1>12, TakesIs
<1> QED BY <1>1, <1>12, <1>13

-----------------------------------------------------------------------------
(* The invariant.                                                            *)

\* Every cell is on its way to its own slot and stands for a value, the frames
\* of the callers lie one over the other, and view is what the cells stand for.
IInv == Good(m) /\ view = View(m)

Given_(a) == [s \in Stacks |-> IF s = "C" THEN a ELSE <<>>]

\* The arguments the host has put under the stack C.
LEMMA InitIs ==
  ASSUME Init
  PROVE  \E a \in [1 .. Arguments -> Values] : IInv /\ m.cont = <<>> /\ out = Quiet /\ View(m) = Given_(a)
<1>1. PICK a \in [1 .. Arguments -> Values] :
        m = [cell   |-> [A |-> <<>>, B |-> <<>>, C |-> [i \in 1 .. Arguments |-> Home(<<"C", i - 1 - Arguments>>)]],
             cont   |-> <<>>, offset |-> -Arguments,
             reg    |-> [r \in Regs |-> Junk],
             mem    |-> [p \in {"C"} \X (-Arguments .. -1) |-> a[p[2] + Arguments + 1]]]
  BY DEF Init
<1>2. PICK c, f, g : /\ c = [A |-> <<>>, B |-> <<>>, C |-> f] /\ f = [i \in 1 .. Arguments |-> Home(<<"C", i - 1 - Arguments>>)]
                     /\ g = [p \in {"C"} \X (-Arguments .. -1) |-> a[p[2] + Arguments + 1]]
  OBVIOUS
<1>3. m.cell = c /\ m.cont = <<>> /\ m.offset = -Arguments /\ m.reg = [r \in Regs |-> Junk] /\ m.mem = g
      /\ m = [cell |-> m.cell, cont |-> m.cont, offset |-> m.offset, reg |-> m.reg, mem |-> m.mem]
  BY <1>1, <1>2
<1>4. Arguments \in Nat
  BY Bounds
<1>5. \A i \in 1 .. Arguments : /\ i \in Nat /\ i >= 1 /\ i - 1 - Arguments \in -Arguments .. -1
                                /\ (i - 1 - Arguments) + Arguments + 1 = i
  BY <1>4
<1>6. ASSUME NEW i \in 1 .. Arguments
      PROVE  /\ Spot(<<"C", i>>) = <<"C", i - 1 - Arguments>> /\ Spot(<<"C", i>>) \in Places
             /\ Placed(Home(Spot(<<"C", i>>)), <<"C", i>>) /\ Home(Spot(<<"C", i>>)) \in Descs
             /\ f[i] = Home(Spot(<<"C", i>>))
  <2>1. Spot(<<"C", i>>) = <<"C", i - 1 - Arguments>>
    BY DEF Spot
  <2>2. i - 1 - Arguments \in Int /\ i \in Int /\ "C" \in Stacks
    BY <1>4 DEF Stacks
  <2>3. Spot(<<"C", i>>) \in Places
    BY <2>1, <2>2 DEF Places
  <2>4. PICK d, t : d = Home(t) /\ t = Spot(<<"C", i>>)
    OBVIOUS
  <2>5. d = [kind |-> "home", at |-> t, dst |-> t] /\ d.kind = "home" /\ d.at = t /\ d.dst = t
    BY <2>4 DEF Home
  <2>6. d \in Descs
    BY <2>3, <2>4, <2>5 DEF Descs
  <2>7. Placed(d, <<"C", i>>)
    BY <2>4, <2>5, <2>6 DEF Placed
  <2>8. f[i] = d
    BY <1>2, <2>1, <2>4
  <2> QED BY <2>1, <2>3, <2>4, <2>6, <2>7, <2>8
<1>7. f \in Seq(Descs) /\ Len(f) = Arguments
  <2>1. f \in [1 .. Arguments -> Descs]
    BY <1>2, <1>6
  <2> QED BY ONLY <1>4, <2>1
<1>8. c \in [Stacks -> Seq(Descs)] /\ c["A"] = <<>> /\ c["B"] = <<>> /\ c["C"] = f
  <2>1. DOMAIN c = Stacks /\ c = [s \in Stacks |-> c[s]]
    BY <1>2 DEF Stacks
  <2>2. c["A"] = <<>> /\ c["B"] = <<>> /\ c["C"] = f
    BY <1>2
  <2>3. \A s \in Stacks : s = "A" \/ s = "B" \/ s = "C"
    BY DEF Stacks
  <2>4. <<>> \in Seq(Descs)
    OBVIOUS
  <2>5. \A s \in Stacks : c[s] \in Seq(Descs)
    BY <1>7, <2>2, <2>3, <2>4
  <2> QED BY ONLY <2>1, <2>2, <2>5
<1>9. g \in Memories
  <2>1. PICK P : P = {"C"} \X (-Arguments .. -1)
    OBVIOUS
  <2>2. P \subseteq Places
    <3>1. -Arguments .. -1 \subseteq Int /\ "C" \in Stacks
      BY <1>4 DEF Stacks
    <3> QED BY <2>1, <3>1 DEF Places
  <2>3. ASSUME NEW p \in P PROVE a[p[2] + Arguments + 1] \in Contents
    <3>1. p[2] \in -Arguments .. -1
      BY <2>1
    <3>2. p[2] + Arguments + 1 \in 1 .. Arguments
      BY <1>4, <3>1
    <3> QED BY <3>2 DEF Contents
  <2>4. g \in [P -> Contents]
    BY <1>2, <2>1, <2>3
  <2> QED BY <2>2, <2>4 DEF Memories
<1>10. m.reg \in [Regs -> Contents]
  BY <1>3 DEF Contents
<1>11. m \in Contexts
  <2>1. <<>> \in Seq(Frames)
    OBVIOUS
  <2>2. PICK k : k = m
    OBVIOUS
  <2>3. /\ k.cell \in [Stacks -> Seq(Descs)] /\ k.cont \in Seq(Frames) /\ k.offset \in {-Arguments}
        /\ k.reg \in [Regs -> Contents] /\ k.mem \in Memories
        /\ k = [cell |-> k.cell, cont |-> k.cont, offset |-> k.offset, reg |-> k.reg, mem |-> k.mem]
    BY <1>3, <1>8, <1>9, <1>10, <2>1, <2>2
  <2>4. k \in Contexts
    BY ONLY <2>3 DEF Contexts
  <2> QED BY <2>2, <2>4
<1>12. Depth(m, "A") = 0 /\ Depth(m, "B") = 0 /\ Depth(m, "C") = Arguments
  BY <1>3, <1>7, <1>8 DEF Depth
<1>13. ASSUME NEW i \in 1 .. Arguments
       PROVE  Placed(Cell(m, <<"C", i>>), <<"C", i>>) /\ Holds(m, <<"C", i>>) = a[i] /\ a[i] \in Values
  <2>1. PICK u, t : u = <<"C", i>> /\ t = Spot(u)
    OBVIOUS
  <2>2. Cell(m, u) = Home(t) /\ Placed(Home(t), u)
    BY <1>3, <1>6, <1>8, <2>1 DEF Cell
  <2>3. Holds(m, u) = Read(m, t)
    <3>1. u \in Stacks \X Int
      BY <2>1 DEF Stacks
    <3> QED BY <1>11, <2>1, <2>2, <3>1, HomeIs DEF Holds
  <2>4. PICK x : x = i - 1 - Arguments
    OBVIOUS
  <2>5. t = <<"C", x>> /\ x \in -Arguments .. -1 /\ x + Arguments + 1 = i
    BY <1>5, <1>6, <2>1, <2>4
  <2>6. t \in {"C"} \X (-Arguments .. -1) /\ t[2] = x
    BY <2>5
  <2>7. Read(m, t) = a[x + Arguments + 1]
    BY <1>2, <1>3, <2>6 DEF Read
  <2> QED BY <2>1, <2>2, <2>3, <2>5, <2>7
<1>14. Sane(m)
  <2>1. ASSUME NEW u \in Cells(m) PROVE Placed(Cell(m, u), u) /\ Holds(m, u) \in Values
    <3>1. u[1] \in Stacks /\ u[2] \in Nat /\ u[2] >= 1 /\ u[2] <= Depth(m, u[1]) /\ u = <<u[1], u[2]>>
      BY <1>11, CellsAre
    <3>2. u[1] = "C"
      BY <1>12, <3>1 DEF Stacks
    <3>3. u[2] \in 1 .. Arguments
      BY <1>4, <1>12, <3>1, <3>2
    <3>4. u = <<"C", u[2]>>
      BY <3>1, <3>2
    <3> QED BY <1>13, <3>3, <3>4
  <2> QED BY <1>11, <2>1 DEF Sane
<1>15. Framed(m)
  <2>1. Len(m.cont) = 0 /\ \A i \in 1 .. 0 : FALSE
    BY <1>3
  <2> QED BY <2>1 DEF Framed
<1>16. View(m) = Given_(a)
  <2>1. PICK p, q : p = View(m) /\ q = Given_(a)
    OBVIOUS
  <2>2. a \in Seq(Values) /\ Len(a) = Arguments
    BY <1>4
  <2>3. q \in [Stacks -> Seq(Values)] /\ q["A"] = <<>> /\ q["B"] = <<>> /\ q["C"] = a
    BY <2>1, <2>2 DEF Given_, Stacks
  <2>4. p \in [Stacks -> Seq(Values)] /\ Len(p["A"]) = 0 /\ Len(p["B"]) = 0 /\ Len(p["C"]) = Arguments
    BY <1>12, <1>14, <2>1, ViewIs DEF Stacks
  <2>5. \A i \in 1 .. Arguments : p["C"][i] = a[i]
    <3>1. ASSUME NEW i \in 1 .. Arguments PROVE p["C"][i] = a[i]
      <4>1. i \in Nat /\ i >= 1 /\ i <= Depth(m, "C") /\ "C" \in Stacks
        BY <1>4, <1>12 DEF Stacks
      <4>2. p["C"][i] = Holds(m, <<"C", i>>)
        BY <1>14, <2>1, <4>1, SeenAt
      <4> QED BY <1>13, <4>2
    <3> QED BY <3>1
  <2>6. ASSUME NEW s \in Stacks PROVE Len(p[s]) = Len(q[s]) /\ \A i \in 1 .. Len(q[s]) : p[s][i] = q[s][i]
    <3>1. CASE s = "C"
      BY <2>2, <2>3, <2>4, <2>5, <3>1
    <3>2. CASE s # "C"
      <4>1. Len(p[s]) = 0 /\ Len(q[s]) = 0 /\ \A i \in 1 .. 0 : FALSE
        BY <2>3, <2>4, <3>2 DEF Stacks
      <4> QED BY <4>1
    <3> QED BY <3>1, <3>2
  <2>7. p = q
    BY <2>3, <2>4, <2>6, SameStacks
  <2> QED BY <2>1, <2>7
<1>17. view = View(m) /\ out = Quiet
  BY DEF Init
<1>18. IInv
  BY <1>14, <1>15, <1>17 DEF IInv, Good
<1> QED BY <1>3, <1>16, <1>17, <1>18

LEMMA ShownIs ==
  ASSUME NEW st, NEW fr, NEW o, Steps(st, fr, o)
  PROVE  IInv' /\ view' = st /\ m'.cont = fr /\ out' = o
BY DEF Steps, IInv

\* The program sees what the cells stand for.
Framing(c) == [i \in 1 .. Len(c) |-> [base |-> c[i].base, dst |-> c[i].dst]]

LEMMA FramingIs ==
  ASSUME NEW c \in Seq(Frames)
  PROVE  /\ Len(Framing(c)) = Len(c) /\ Len(c) \in Nat /\ (Framing(c) = <<>> <=> c = <<>>)
         /\ Framing(c) \in Seq([base : [Stacks -> Nat], dst : Operands])
         /\ \A i \in 1 .. Len(c) : Framing(c)[i] = [base |-> c[i].base, dst |-> c[i].dst]
<1>1. PICK f, n : f = Framing(c) /\ n = Len(c)
  OBVIOUS
<1>2. n \in Nat /\ \A i \in 1 .. n : c[i].base \in [Stacks -> Nat] /\ c[i].dst \in Operands
  <2>1. n \in Nat /\ \A i \in 1 .. n : c[i] \in Frames
    BY <1>1
  <2>2. \A x \in Frames : x.base \in [Stacks -> Nat] /\ x.dst \in Operands
    BY DEF Frames
  <2> QED BY <2>1, <2>2
<1>3. f = [i \in 1 .. n |-> [base |-> c[i].base, dst |-> c[i].dst]]
  BY <1>1 DEF Framing
<1>4. f \in [1 .. n -> [base : [Stacks -> Nat], dst : Operands]]
  BY <1>2, <1>3
<1>5. f \in Seq([base : [Stacks -> Nat], dst : Operands]) /\ Len(f) = n
  <2>1. PICK S : S = [base : [Stacks -> Nat], dst : Operands]
    OBVIOUS
  <2>2. n \in Nat /\ f \in [1 .. n -> S]
    BY <1>2, <1>4, <2>1
  <2>3. f \in Seq(S) /\ Len(f) = n
    BY ONLY <2>2
  <2> QED BY <2>1, <2>3
<1>6. f = <<>> <=> c = <<>>
  <2>1. f = <<>> <=> n = 0
    BY <1>5
  <2>2. c = <<>> <=> n = 0
    BY <1>1
  <2> QED BY <2>1, <2>2
<1> QED BY <1>1, <1>2, <1>3, <1>5, <1>6

LEMMA FramingAppend ==
  ASSUME NEW c \in Seq(Frames), NEW b \in [Stacks -> Nat], NEW me \in Operands,
         NEW d, d = Append(c, [base |-> b, dst |-> me, offset |-> -Arguments])
  PROVE  Framing(d) = Append(Framing(c), [base |-> b, dst |-> me])
<1>1. PICK f, g, n, x : f = Framing(c) /\ g = Framing(d) /\ n = Len(c) /\ x = [base |-> b, dst |-> me]
  OBVIOUS
<1>2. PICK fr : fr = [base |-> b, dst |-> me, offset |-> -Arguments]
  OBVIOUS
<1>3. fr \in Frames /\ fr.base = b /\ fr.dst = me
  BY <1>2 DEF Frames
<1>4. n \in Nat /\ Len(d) = n + 1 /\ d[n + 1] = fr /\ d \in Seq(Frames) /\ \A i \in 1 .. n : d[i] = c[i]
  BY <1>1, <1>2, <1>3
<1>5. /\ f \in Seq([base : [Stacks -> Nat], dst : Operands]) /\ Len(f) = n
      /\ \A i \in 1 .. n : f[i] = [base |-> c[i].base, dst |-> c[i].dst]
  BY <1>1, FramingIs
<1>6. g = [i \in 1 .. n + 1 |-> [base |-> d[i].base, dst |-> d[i].dst]]
  BY <1>1, <1>4 DEF Framing
<1>7. PICK h : h = Append(f, x)
  OBVIOUS
<1>8. Len(h) = n + 1 /\ h[n + 1] = x /\ \A i \in 1 .. n : h[i] = f[i]
  BY <1>5, <1>7
<1>9. h = [i \in 1 .. n + 1 |-> h[i]]
  <2>1. PICK S : S = [base : [Stacks -> Nat], dst : Operands]
    OBVIOUS
  <2>2. f \in Seq(S) /\ x \in S
    BY <1>1, <1>5, <2>1
  <2>3. h \in Seq(S)
    BY <1>7, <2>2
  <2> QED BY <1>8, <2>3
<1>10. ASSUME NEW i \in 1 .. n + 1 PROVE g[i] = h[i]
  <2>1. CASE i = n + 1
    <3>1. g[i] = [base |-> fr.base, dst |-> fr.dst]
      BY <1>4, <1>6, <2>1
    <3> QED BY <1>1, <1>3, <1>8, <2>1, <3>1
  <2>2. CASE i # n + 1
    <3>1. i \in 1 .. n
      BY <1>4, <2>2
    <3>2. g[i] = [base |-> c[i].base, dst |-> c[i].dst]
      BY <1>4, <1>6, <3>1
    <3> QED BY <1>5, <1>8, <3>1, <3>2
  <2> QED BY <2>1, <2>2
<1>11. g = h
  BY <1>6, <1>9, <1>10
<1> QED BY <1>1, <1>7, <1>11

LEMMA FramingShorter ==
  ASSUME NEW c \in Seq(Frames), c # <<>>
  PROVE  Framing(SubSeq(c, 1, Len(c) - 1)) = SubSeq(Framing(c), 1, Len(Framing(c)) - 1)
<1>1. PICK n, d : n = Len(c) - 1 /\ d = SubSeq(c, 1, n)
  OBVIOUS
<1>2. n \in Nat /\ Len(c) = n + 1
  BY <1>1
<1>3. Len(d) = n /\ d \in Seq(Frames) /\ \A i \in 1 .. n : d[i] = c[i]
  BY <1>1, <1>2
<1>4. PICK f, g, h : f = Framing(c) /\ g = Framing(d) /\ h = SubSeq(f, 1, n)
  OBVIOUS
<1>5. /\ f \in Seq([base : [Stacks -> Nat], dst : Operands]) /\ Len(f) = n + 1
      /\ \A i \in 1 .. n + 1 : f[i] = [base |-> c[i].base, dst |-> c[i].dst]
  BY <1>2, <1>4, FramingIs
<1>6. Len(h) = n /\ h = [i \in 1 .. n |-> h[i]] /\ \A i \in 1 .. n : h[i] = f[i]
  BY <1>2, <1>4, <1>5
<1>7. g = [i \in 1 .. n |-> [base |-> d[i].base, dst |-> d[i].dst]]
  BY <1>3, <1>4 DEF Framing
<1>8. \A i \in 1 .. n : g[i] = h[i]
  BY <1>2, <1>3, <1>5, <1>6, <1>7
<1>9. g = h
  BY <1>6, <1>7, <1>8
<1>10. Len(f) - 1 = n
  BY <1>2, <1>5
<1> QED BY <1>1, <1>4, <1>9, <1>10

\* The activations of the program are those of the code.
LEMMA SeesIs ==
  ASSUME IInv
  PROVE  /\ Family(view) /\ m.cont \in Seq(Frames)
         /\ \A s \in Stacks : /\ Len(view[s]) = Depth(m, s) /\ Depth(m, s) \in Nat /\ view[s] \in Seq(Values)
                              /\ A!Base(s) = Floor(s) /\ Floor(s) \in Nat /\ Floor(s) <= Depth(m, s)
                              /\ \A n : A!Has(s, n) <=> Has(s, n)
                              /\ \A n \in Nat : Has(s, n) => n <= Len(view[s])
                              /\ A!Top(s) = view[s][Depth(m, s)]
                              /\ A!Max(s) = Max(s)
                              /\ \A n : A!Room(s, n) <=> Depth(m, s) + n <= Max(s)
         /\ \A s : A!Other(s) = Other(s)
         /\ \A me \in Operands : \A n : A!Alone(me, n) <=> Alone(me, n)
<1>1. Good(m) /\ view = View(m) /\ Sane(m)
  BY GoodParts DEF IInv
<1>2. /\ Family(view) /\ m.cont \in Seq(Frames)
      /\ \A s \in Stacks : Len(view[s]) = Depth(m, s) /\ view[s] \in Seq(Values)
  BY <1>1, ViewIs, FramesAre DEF Family
<1>3. \A s \in Stacks : /\ Floor(s) = FloorOf(m, s) /\ Floor(s) \in Nat /\ Floor(s) <= Depth(m, s) /\ Depth(m, s) \in Nat
                        /\ \A n \in Nat : Has(s, n) <=> Floor(s) + n <= Depth(m, s)
  BY <1>1, FloorsAre
<1>4. PICK c, f : c = m.cont /\ f = Framing(c)
  OBVIOUS
<1>5. /\ Len(f) = Len(c) /\ (f = <<>> <=> c = <<>>) /\ Len(c) \in Nat
      /\ \A i \in 1 .. Len(c) : f[i] = [base |-> c[i].base, dst |-> c[i].dst]
  BY <1>2, <1>4, FramingIs
<1>6. \A s : A!Base(s) = IF f = <<>> THEN 0 ELSE f[Len(f)].base[s]
  BY <1>4 DEF A!Base, Framing
<1>7. \A s : Floor(s) = IF c = <<>> THEN 0 ELSE c[Len(c)].base[s]
  BY <1>4 DEF Floor
<1>8. c # <<>> => f[Len(c)].base = c[Len(c)].base
  <2>1. PICK l : l = Len(c)
    OBVIOUS
  <2>2. c # <<>> => l \in 1 .. Len(c)
    BY <1>2, <1>4, <2>1
  <2>3. c # <<>> => f[l] = [base |-> c[l].base, dst |-> c[l].dst]
    BY <1>5, <2>2
  <2> QED BY <2>1, <2>3
<1>9. \A s : A!Base(s) = Floor(s)
  BY <1>5, <1>6, <1>7, <1>8
<1>10. \A s \in Stacks : \A n : A!Has(s, n) <=> Has(s, n)
  BY <1>2, <1>9 DEF A!Has, Has
<1>11. \A s : A!Other(s) = Other(s) /\ A!Max(s) = Max(s)
  BY DEF A!Other, Other, A!Max, Max
<1>12. \A s \in Stacks : A!Top(s) = view[s][Depth(m, s)] /\ \A n : A!Room(s, n) <=> Depth(m, s) + n <= Max(s)
  BY <1>2, <1>11 DEF A!Top, A!Room
<1>13. \A me \in Operands : \A n : A!Alone(me, n) <=> Alone(me, n)
  <2>1. \A me \in Operands : me \in Stacks /\ Other(me) \in Stacks
    BY OtherIs
  <2> QED BY <1>2, <1>9, <1>11, <2>1 DEF A!Alone, Alone
<1>14. \A s \in Stacks : \A n \in Nat : Has(s, n) => n <= Len(view[s])
  <2>1. ASSUME NEW s \in Stacks, NEW n \in Nat, Has(s, n) PROVE n <= Len(view[s])
    <3>1. Floor(s) \in Nat /\ Floor(s) + n <= Depth(m, s) /\ Len(view[s]) = Depth(m, s) /\ Depth(m, s) \in Nat
      BY <1>2, <1>3, <2>1
    <3> QED BY <3>1
  <2> QED BY <2>1
<1> QED BY <1>2, <1>3, <1>9, <1>10, <1>11, <1>12, <1>13, <1>14

LEMMA LocalIs == ASSUME m'.cont = m.cont, out' = Quiet PROVE A!Local
BY DEF A!Local

-----------------------------------------------------------------------------
(* The invariant is inductive.                                               *)

Stepped == \E st, fr, o : Steps(st, fr, o)

LEMMA OnOneIs ==
  ASSUME IInv, stale' = "none", NEW s \in Operands,
         \/ \E v \in Values : Literal(s, v) \/ Load(s, v) \/ Immediate(s, v)
         \/ \E to \in Stacks, consume \in BOOLEAN : Transfer(s, to, consume)
         \/ \E depth \in 0 .. MaxC - 1 : CGet(s, depth) \/ CSet(s, depth) \/ BinaryC(s, depth)
         \/ Binary(s) \/ Check(s) \/ Store(s) \/ Index(s) \/ Branch(s)
  PROVE  Stepped
<1>1. Good(m)
  BY DEF IInv
<1>2. CASE \E v \in Values : Literal(s, v) \/ Load(s, v) \/ Immediate(s, v)
  <2>1. PICK v \in Values : Literal(s, v) \/ Load(s, v) \/ Immediate(s, v)
    BY <1>2
  <2>2. CASE Literal(s, v)
    BY <1>1, <2>2, LiteralIs DEF Stepped
  <2>3. CASE Load(s, v)
    BY <1>1, <2>3, LoadIs DEF Stepped
  <2>4. CASE Immediate(s, v)
    BY <1>1, <2>4, ImmediateIs DEF Stepped
  <2> QED BY <2>1, <2>2, <2>3, <2>4
<1>3. CASE \E to \in Stacks, consume \in BOOLEAN : Transfer(s, to, consume)
  <2>1. PICK to \in Stacks, consume \in BOOLEAN : Transfer(s, to, consume)
    BY <1>3
  <2> QED BY <1>1, <2>1, TransferIs DEF Stepped
<1>4. CASE \E depth \in 0 .. MaxC - 1 : CGet(s, depth) \/ CSet(s, depth) \/ BinaryC(s, depth)
  <2>1. PICK depth \in 0 .. MaxC - 1 : CGet(s, depth) \/ CSet(s, depth) \/ BinaryC(s, depth)
    BY <1>4
  <2>2. depth \in Nat
    BY Bounds
  <2>3. CASE CGet(s, depth)
    BY <1>1, <2>2, <2>3, CGetIs DEF Stepped
  <2>4. CASE CSet(s, depth)
    BY <1>1, <2>2, <2>4, CSetIs DEF Stepped
  <2>5. CASE BinaryC(s, depth)
    BY <1>1, <2>2, <2>5, BinaryCIs DEF Stepped
  <2> QED BY <2>1, <2>3, <2>4, <2>5
<1>5. CASE Binary(s)
  BY <1>1, <1>5, BinaryIs DEF Stepped
<1>6. CASE Check(s)
  BY <1>1, <1>6, CheckIs DEF Stepped
<1>7. CASE Store(s)
  BY <1>1, <1>7, StoreIs DEF Stepped
<1>8. CASE Index(s)
  BY <1>1, <1>8, IndexIs DEF Stepped
<1>9. CASE Branch(s)
  BY <1>1, <1>9, BranchIs DEF Stepped
<1> QED BY <1>2, <1>3, <1>4, <1>5, <1>6, <1>7, <1>8, <1>9

LEMMA BetweenIs ==
  ASSUME IInv, stale' = "none", NEW s \in Operands,
         \/ \E n \in 0 .. Max(s) : Call(s, n) \/ Return(s, n) \/ TailCall(s, n) \/ Finish(s, n)
         \/ \E n \in 1 .. 2, results \in 1 .. MaxResults :
              \/ RealCall(s, n, results) \/ RecursiveCall(s, n, results)
              \/ IndirectCall(s, n, results) \/ ForeignCall(s, n, results)
  PROVE  Stepped
<1>1. Good(m)
  BY DEF IInv
<1>2. CASE \E n \in 0 .. Max(s) : Call(s, n) \/ Return(s, n) \/ TailCall(s, n) \/ Finish(s, n)
  <2>1. PICK n \in 0 .. Max(s) : Call(s, n) \/ Return(s, n) \/ TailCall(s, n) \/ Finish(s, n)
    BY <1>2
  <2>2. n \in Nat
    BY Bounds DEF Max
  <2>3. CASE Call(s, n)
    BY <1>1, <2>2, <2>3, CallIs DEF Stepped
  <2>4. CASE Return(s, n)
    <3>1. PICK f, c : f = m.cont[Len(m.cont)] /\ c = SubSeq(m.cont, 1, Len(m.cont) - 1)
      OBVIOUS
    <3> QED BY <1>1, <2>2, <2>4, <3>1, ReturnIs DEF Stepped
  <2>5. CASE TailCall(s, n)
    BY <1>1, <2>2, <2>5, TailCallIs DEF Stepped
  <2>6. CASE Finish(s, n)
    BY <1>1, <2>2, <2>6, FinishIs DEF Stepped
  <2> QED BY <2>1, <2>3, <2>4, <2>5, <2>6
<1>3. CASE \E n \in 1 .. 2, results \in 1 .. MaxResults :
             \/ RealCall(s, n, results) \/ RecursiveCall(s, n, results)
             \/ IndirectCall(s, n, results) \/ ForeignCall(s, n, results)
  <2>1. PICK n \in 1 .. 2, results \in 1 .. MaxResults :
               \/ RealCall(s, n, results) \/ RecursiveCall(s, n, results)
               \/ IndirectCall(s, n, results) \/ ForeignCall(s, n, results)
    BY <1>3
  <2>2. results \in Nat /\ results >= 1
    BY Bounds
  <2>3. CASE RealCall(s, n, results)
    BY <1>1, <2>2, <2>3, RealCallIs DEF Stepped
  <2>4. CASE RecursiveCall(s, n, results)
    BY <1>1, <2>2, <2>4, RecursiveCallIs DEF Stepped
  <2>5. CASE IndirectCall(s, n, results)
    BY <1>1, <2>2, <2>5, IndirectCallIs DEF Stepped
  <2>6. CASE ForeignCall(s, n, results)
    BY <1>1, <2>2, <2>6, ForeignCallIs DEF Stepped
  <2> QED BY <2>1, <2>3, <2>4, <2>5, <2>6
<1> QED BY <1>2, <1>3

LEMMA StepKeeps ==
  ASSUME IInv, Step, stale' = "none" PROVE IInv'
<1>1. Good(m)
  BY DEF IInv
<1>2. Stepped
  <2>1. ASSUME NEW s \in Stacks, Drop(s) PROVE Stepped
    BY <1>1, <2>1, DropIs DEF Stepped
  <2>2. ASSUME Jump PROVE Stepped
    BY <1>1, <2>2, JumpIs DEF Stepped
  <2> QED BY <2>1, <2>2, OnOneIs, BetweenIs DEF Step
<1> QED BY <1>2, ShownIs DEF Stepped

\* A copied descriptor that has gone stale is not forgotten.
LEMMA StaleSince == ASSUME Step, stale' = "none" PROVE stale = "none"
<1>1. \A k : (Takes(k) => stale' = stale) /\ (Becomes(k) => stale' = stale)
  BY DEF Takes, Becomes
<1>2. \A k : Leaves(k) => stale' = stale
  BY <1>1 DEF Leaves
<1>3. \A p, x : Marks(p, x) => stale = "none" \/ stale' = stale
  BY DEF Marks
<1>4. ASSUME NEW s \in Operands,
             \/ \E v \in Values : Literal(s, v) \/ Load(s, v) \/ Immediate(s, v)
             \/ \E to \in Stacks, consume \in BOOLEAN : Transfer(s, to, consume)
             \/ \E depth \in 0 .. MaxC - 1 : CGet(s, depth) \/ CSet(s, depth) \/ BinaryC(s, depth)
             \/ Binary(s) \/ Check(s)
      PROVE  stale' = stale
  BY <1>1, <1>4 DEF Literal, Load, Immediate, Transfer, CGet, CSet, BinaryC, Binary, Check
<1>5. ASSUME NEW s \in Operands, Store(s) \/ Index(s) PROVE stale = "none" \/ stale' = stale
  BY <1>3, <1>5 DEF Store, Index
<1>6. ASSUME NEW s \in Operands, Branch(s) PROVE stale' = stale
  <2>1. \A k, l, r, e, f : Branched(k, l, r, e, f) => stale' = stale
    BY <1>1 DEF Branched
  <2>2. \A k, l, r : Decided(k, l, r) => stale' = stale
    BY <1>1, <2>1 DEF Decided
  <2> QED BY <1>6, <2>2 DEF Branch
<1>7. ASSUME NEW s \in Operands, NEW n, Call(s, n) \/ TailCall(s, n) \/ Finish(s, n) PROVE stale' = stale
  BY <1>1, <1>2, <1>7 DEF Call, TailCall, Finish
<1>8. ASSUME NEW s \in Operands, NEW n, Return(s, n) PROVE stale = "none" \/ stale' = stale
  BY <1>3, <1>8 DEF Return
<1>9. ASSUME NEW s \in Operands, NEW n, NEW results,
             \/ RealCall(s, n, results) \/ RecursiveCall(s, n, results)
             \/ IndirectCall(s, n, results) \/ ForeignCall(s, n, results)
      PROVE  stale' = stale
  BY <1>1, <1>9 DEF RealCall, RecursiveCall, IndirectCall, ForeignCall
<1>10. ASSUME (\E s \in Stacks : Drop(s)) \/ Jump PROVE stale' = stale
  BY <1>1, <1>2, <1>10 DEF Drop, Jump
<1>11. stale = "none" \/ stale' = stale
  BY <1>4, <1>5, <1>6, <1>7, <1>8, <1>9, <1>10 DEF Step
<1> QED BY <1>11

\* Until a copied descriptor has gone stale, the invariant holds.
Sound == stale = "none" => IInv

LEMMA StaysSound == ASSUME Sound, [Step]_vars PROVE Sound'
<1>1. SUFFICES ASSUME stale' = "none" PROVE IInv'
  BY DEF Sound
<1>2. CASE Step
  BY <1>1, <1>2, StaleSince, StepKeeps DEF Sound
<1>3. CASE UNCHANGED vars
  <2>1. m' = m /\ view' = view /\ stale' = stale
    BY <1>3 DEF vars
  <2> QED BY <1>1, <2>1 DEF Sound, IInv
<1> QED BY <1>2, <1>3

LEMMA InPlaceIs == ASSUME Sound PROVE InPlace
<1>0. SUFFICES ASSUME IInv PROVE InPlace
  BY DEF Sound, InPlace
<1>1. Sane(m)
  BY <1>0 DEF IInv, Good
<1>2. ASSUME NEW u \in Cells(m)
      PROVE  Cell(m, u).dst = Canonical(m, u) /\ (Cell(m, u).kind = "home" => Cell(m, u).at = Canonical(m, u))
  <2>1. Placed(Cell(m, u), u) /\ Canonical(m, u) = Spot(u) /\ Cell(m, u).dst = Spot(u)
    BY <1>1, SaneParts
  <2> QED BY <2>1 DEF Placed
<1> QED BY <1>2 DEF InPlace

\* Until an instruction has used a copy of a descriptor that its cell had no
\* longer, every cell stands for a value, and what the cells stand for is what
\* the program sees.
THEOREM StandsForValues == Spec => []Sound
<1>1. Init => Sound
  BY InitIs DEF Sound
<1>2. Sound /\ [Step]_vars => Sound'
  BY StaysSound
<1> QED BY <1>1, <1>2, PTL DEF Spec

\* InPlace: for any numbers of registers and cells, any nesting of calls and any
\* function, a value is on its way to the one slot its position has, until such
\* a copy has been used.
THEOREM AlwaysInPlace == Spec => []InPlace
<1>1. Sound => InPlace
  BY InPlaceIs
<1> QED BY <1>1, StandsForValues, PTL

-----------------------------------------------------------------------------
(* Every step is one of the activations.                                     *)

LEMMA SeesOne ==
  ASSUME IInv, NEW s \in Stacks, Has(s, 1)
  PROVE  /\ A!Has(s, 1) /\ A!NonEmpty(s) /\ Depth(m, s) >= 1 /\ Len(view[s]) = Depth(m, s) /\ Depth(m, s) \in Nat
         /\ A!Popped(s) = SubSeq(view[s], 1, Depth(m, s) - 1) /\ A!Top(s) = view[s][Depth(m, s)]
<1>1. /\ A!Has(s, 1) /\ Len(view[s]) = Depth(m, s) /\ Depth(m, s) \in Nat /\ A!Top(s) = view[s][Depth(m, s)]
      /\ 1 <= Len(view[s])
  BY SeesIs
<1>2. view[s] # <<>>
  BY <1>1
<1>3. A!Popped(s) = SubSeq(view[s], 1, Depth(m, s) - 1)
  BY <1>1 DEF A!Popped
<1> QED BY <1>1, <1>2, <1>3 DEF A!NonEmpty

LEMMA QuietlyIs ==
  ASSUME IInv, NEW st, Steps(st, m.cont, Quiet) PROVE A!Local /\ view' = st
BY ShownIs, LocalIs

LEMMA PushDoes ==
  ASSUME IInv, NEW s \in Stacks, NEW v, Depth(m, s) + 1 <= Max(s), Steps(Longer(View(m), s, v), m.cont, Quiet)
  PROVE  A!Local /\ A!Push(s, v)
<1>1. A!Room(s, 1)
  BY SeesIs
<1>2. A!Local /\ view' = Longer(view, s, v)
  BY QuietlyIs DEF IInv
<1> QED BY <1>1, <1>2 DEF A!Push, Longer

LEMMA LiteralDoes ==
  ASSUME IInv, NEW s \in Operands, NEW v \in Values, Literal(s, v) \/ Load(s, v) PROVE A!Local /\ A!Push(s, v)
<1>1. Good(m) /\ s \in Stacks
  BY OtherIs DEF IInv
<1>2. Depth(m, s) + 1 <= Max(s)
  BY DEF Literal, Load, Room
<1>3. Steps(Longer(View(m), s, v), m.cont, Quiet)
  BY <1>1, LiteralIs, LoadIs
<1> QED BY <1>1, <1>2, <1>3, PushDoes

LEMMA TransferDoes ==
  ASSUME IInv, NEW from \in Operands, NEW to \in Stacks, NEW consume \in BOOLEAN, Transfer(from, to, consume)
  PROVE  /\ A!Local /\ A!Has(from, 1)
         /\ (\E t \in Operands : A!Copy(from, t)) \/ (\E t \in {A!Other(from), "C"} : A!Move(from, t))
<1>1. Good(m) /\ from \in Stacks /\ view = View(m)
  BY OtherIs DEF IInv
<1>2. /\ Steps(Longer(IF consume THEN Shorter(view, from, Depth(m, from) - 1) ELSE view, to,
                      view[from][Depth(m, from)]), m.cont, Quiet)
      /\ Has(from, 1) /\ (consume => from # to) /\ (to = "C" => consume) /\ Depth(m, to) + 1 <= Max(to)
  BY <1>1, TransferIs
<1>3. /\ A!Has(from, 1) /\ A!NonEmpty(from)
      /\ A!Popped(from) = SubSeq(view[from], 1, Depth(m, from) - 1) /\ A!Top(from) = view[from][Depth(m, from)]
  BY <1>1, <1>2, SeesOne
<1>4. A!Room(to, 1) /\ A!Other(from) = Other(from)
  BY <1>2, SeesIs
<1>5. CASE consume
  <2>1. A!Local /\ view' = Longer(Shorter(view, from, Depth(m, from) - 1), to, view[from][Depth(m, from)])
    BY <1>2, <1>5, QuietlyIs
  <2>2. from # to
    BY <1>2, <1>5
  <2>3. view' = [view EXCEPT ![from] = A!Popped(from), ![to] = Append(@, A!Top(from))]
    BY <1>3, <2>1, <2>2 DEF Longer, Shorter
  <2>4. A!Move(from, to)
    BY <1>3, <1>4, <2>2, <2>3 DEF A!Move
  <2>5. to \in {A!Other(from), "C"}
    BY <1>4, <2>2, OtherIs
  <2> QED BY <1>3, <2>1, <2>4, <2>5
<1>6. CASE ~consume
  <2>1. Steps(Longer(View(m), to, view[from][Depth(m, from)]), m.cont, Quiet)
    BY <1>1, <1>2, <1>6
  <2>2. A!Local /\ A!Push(to, A!Top(from))
    BY <1>2, <1>3, <2>1, PushDoes
  <2>3. to \in Operands
    BY <1>2, <1>6 DEF Stacks, Operands
  <2> QED BY <1>3, <2>2, <2>3 DEF A!Copy
<1> QED BY <1>5, <1>6

LEMMA DropDoes ==
  ASSUME IInv, NEW s \in Stacks, Drop(s) PROVE A!Has(s, 1) /\ A!Pop(s) /\ A!Local
<1>1. Has(s, 1) /\ Steps(Shorter(view, s, Depth(m, s) - 1), m.cont, Quiet)
  BY DropIs DEF IInv
<1>2. A!Has(s, 1) /\ A!NonEmpty(s) /\ A!Popped(s) = SubSeq(view[s], 1, Depth(m, s) - 1)
  BY <1>1, SeesOne
<1>3. A!Local /\ view' = Shorter(view, s, Depth(m, s) - 1)
  BY <1>1, QuietlyIs
<1> QED BY <1>2, <1>3 DEF A!Pop, Shorter

\* The cells of C.
LEMMA SeesDeep ==
  ASSUME IInv, NEW depth \in Nat, Has("C", depth + 1)
  PROVE  /\ A!Has("C", depth + 1) /\ depth < Len(view["C"]) /\ Len(view["C"]) = Depth(m, "C")
         /\ Len(view["C"]) - depth = Depth(m, "C") - depth
<1>1. "C" \in Stacks
  BY DEF Stacks
<1>2. A!Has("C", depth + 1) /\ Len(view["C"]) = Depth(m, "C") /\ Depth(m, "C") \in Nat /\ depth + 1 <= Len(view["C"])
  BY <1>1, SeesIs
<1> QED BY <1>2

LEMMA CGetDoes ==
  ASSUME IInv, NEW to \in Operands, NEW depth \in Nat, CGet(to, depth)
  PROVE  A!Local /\ A!Has("C", depth + 1) /\ A!Get(to, depth)
<1>1. Good(m) /\ to \in Stacks /\ view = View(m)
  BY OtherIs DEF IInv
<1>2. /\ Has("C", depth + 1) /\ Depth(m, to) + 1 <= Max(to)
      /\ Steps(Longer(View(m), to, view["C"][Depth(m, "C") - depth]), m.cont, Quiet)
  BY <1>1, CGetIs
<1>3. A!Has("C", depth + 1) /\ depth < Len(view["C"]) /\ Len(view["C"]) = Depth(m, "C")
  BY <1>2, SeesDeep
<1>4. A!Local /\ A!Push(to, view["C"][Depth(m, "C") - depth])
  BY <1>1, <1>2, PushDoes
<1> QED BY <1>3, <1>4 DEF A!Get

LEMMA CSetDoes ==
  ASSUME IInv, NEW from \in Operands, NEW depth \in Nat, CSet(from, depth)
  PROVE  A!Local /\ A!Has("C", depth + 1) /\ A!Has(from, 1) /\ A!Set(from, depth)
<1>1. Good(m) /\ from \in Stacks /\ view = View(m) /\ from # "C"
  BY OtherIs DEF IInv
<1>2. /\ Has("C", depth + 1) /\ Has(from, 1)
      /\ Steps(Changed(Shorter(view, from, Depth(m, from) - 1), "C", Depth(m, "C") - depth, view[from][Depth(m, from)]),
               m.cont, Quiet)
  BY <1>1, CSetIs
<1>3. A!Has("C", depth + 1) /\ depth < Len(view["C"]) /\ Len(view["C"]) = Depth(m, "C")
  BY <1>2, SeesDeep
<1>4. /\ A!Has(from, 1) /\ A!NonEmpty(from)
      /\ A!Popped(from) = SubSeq(view[from], 1, Depth(m, from) - 1) /\ A!Top(from) = view[from][Depth(m, from)]
  BY <1>1, <1>2, SeesOne
<1>5. /\ A!Local
      /\ view' = Changed(Shorter(view, from, Depth(m, from) - 1), "C", Depth(m, "C") - depth, view[from][Depth(m, from)])
  BY <1>2, QuietlyIs
<1>6. view' = [view EXCEPT ![from] = A!Popped(from), !["C"][Len(view["C"]) - depth] = A!Top(from)]
  BY <1>1, <1>3, <1>4, <1>5 DEF Changed, Shorter
<1> QED BY <1>3, <1>4, <1>5, <1>6 DEF A!Set

LEMMA ComputeDoes ==
  ASSUME IInv, NEW me \in Operands, NEW x, Has(me, 1), Steps(Changed(View(m), me, Depth(m, me), x), m.cont, Quiet)
  PROVE  A!Local /\ A!Has(me, 1) /\ view' = [view EXCEPT ![me][Len(view[me])] = x]
<1>1. me \in Stacks /\ view = View(m)
  BY OtherIs DEF IInv
<1>2. A!Has(me, 1) /\ Len(view[me]) = Depth(m, me)
  BY <1>1, SeesOne
<1>3. A!Local /\ view' = Changed(view, me, Depth(m, me), x)
  BY <1>1, QuietlyIs
<1> QED BY <1>2, <1>3 DEF Changed

LEMMA ImmediateDoes ==
  ASSUME IInv, NEW me \in Operands, NEW v \in Values, Immediate(me, v)
  PROVE  A!Local /\ A!Has(me, 1) /\ A!Immediate(me, v)
<1>1. Good(m) /\ me \in Stacks /\ view = View(m)
  BY OtherIs DEF IInv
<1>2. Has(me, 1) /\ Steps(Changed(View(m), me, Depth(m, me), Op(view[me][Depth(m, me)], v)), m.cont, Quiet)
  BY <1>1, ImmediateIs
<1>3. A!Top(me) = view[me][Depth(m, me)]
  BY <1>1, <1>2, SeesOne
<1>4. A!Local /\ A!Has(me, 1) /\ view' = [view EXCEPT ![me][Len(view[me])] = Op(view[me][Depth(m, me)], v)]
  BY <1>2, ComputeDoes
<1> QED BY <1>3, <1>4 DEF A!Immediate

LEMMA BinaryCDoes ==
  ASSUME IInv, NEW me \in Operands, NEW depth \in Nat, BinaryC(me, depth)
  PROVE  A!Local /\ A!Has("C", depth + 1) /\ A!Has(me, 1) /\ A!BinaryC(me, depth)
<1>1. Good(m) /\ me \in Stacks /\ view = View(m)
  BY OtherIs DEF IInv
<1>2. PICK x : x = Op(view[me][Depth(m, me)], view["C"][Depth(m, "C") - depth])
  OBVIOUS
<1>3. Has(me, 1) /\ Has("C", depth + 1) /\ Steps(Changed(View(m), me, Depth(m, me), x), m.cont, Quiet)
  BY <1>1, <1>2, BinaryCIs
<1>4. A!Top(me) = view[me][Depth(m, me)]
  BY <1>1, <1>3, SeesOne
<1>5. A!Has("C", depth + 1) /\ Len(view["C"]) = Depth(m, "C")
  BY <1>3, SeesDeep
<1>6. A!Local /\ A!Has(me, 1) /\ view' = [view EXCEPT ![me][Len(view[me])] = x]
  BY <1>3, ComputeDoes
<1> QED BY <1>2, <1>4, <1>5, <1>6 DEF A!BinaryC

LEMMA RecordIs ==
  ASSUME NEW x, NEW y, NEW z
  PROVE  [A |-> x, B |-> y, C |-> z] = [s \in Stacks |-> IF s = "A" THEN x ELSE IF s = "B" THEN y ELSE z]
BY DEF Stacks

\* The tops of both operand stacks.
LEMMA SeesBoth ==
  ASSUME IInv, NEW me \in Operands, Has(me, 1), Has(Other(me), 1)
  PROVE  /\ A!Has(me, 1) /\ A!Has(A!Other(me), 1) /\ A!NonEmpty(me) /\ A!NonEmpty(A!Other(me)) /\ A!Other(me) = Other(me)
         /\ me \in Stacks /\ Other(me) \in Stacks /\ Other(me) # me /\ Family(view)
         /\ Len(view[me]) = Depth(m, me)
         /\ A!Popped(me) = SubSeq(view[me], 1, Depth(m, me) - 1)
         /\ A!Popped(Other(me)) = SubSeq(view[Other(me)], 1, Depth(m, Other(me)) - 1)
         /\ A!Top(me) = view[me][Depth(m, me)] /\ A!Top(Other(me)) = view[Other(me)][Depth(m, Other(me))]
<1>1. me \in Stacks /\ Other(me) \in Stacks /\ Other(me) # me
  BY OtherIs
<1>2. A!Other(me) = Other(me) /\ Family(view)
  BY SeesIs
<1>3. /\ A!Has(me, 1) /\ A!NonEmpty(me) /\ Len(view[me]) = Depth(m, me)
      /\ A!Popped(me) = SubSeq(view[me], 1, Depth(m, me) - 1) /\ A!Top(me) = view[me][Depth(m, me)]
  BY <1>1, SeesOne
<1>4. PICK you : you = Other(me)
  OBVIOUS
<1>5. /\ A!Has(you, 1) /\ A!NonEmpty(you)
      /\ A!Popped(you) = SubSeq(view[you], 1, Depth(m, you) - 1) /\ A!Top(you) = view[you][Depth(m, you)]
  BY <1>1, <1>4, SeesOne
<1> QED BY <1>1, <1>2, <1>3, <1>4, <1>5

LEMMA TwoOperandsDo ==
  ASSUME IInv, NEW me \in Operands, Has(me, 1), Has(Other(me), 1),
         Steps(Shorter(Changed(View(m), me, Depth(m, me),
                               Op(View(m)[me][Depth(m, me)], View(m)[Other(me)][Depth(m, Other(me))])),
                       Other(me), Depth(m, Other(me)) - 1), m.cont, Quiet)
  PROVE  A!Local /\ A!Has(me, 1) /\ A!Has(A!Other(me), 1) /\ A!Binary(me)
<1>1. PICK you, a, b, x, y : /\ you = Other(me) /\ a = Depth(m, me) /\ b = Depth(m, you) - 1
                             /\ x = Op(A!Top(me), A!Top(you)) /\ y = A!Popped(you)
  OBVIOUS
<1>2. /\ A!Has(me, 1) /\ A!Has(you, 1) /\ A!NonEmpty(me) /\ A!NonEmpty(you) /\ A!Other(me) = you
      /\ me \in Stacks /\ you \in Stacks /\ you # me /\ Family(view) /\ Len(view[me]) = a
      /\ y = SubSeq(view[you], 1, b)
      /\ A!Top(me) = view[me][a] /\ A!Top(you) = view[you][Depth(m, you)]
  BY <1>1, SeesBoth
<1>3. A!Local /\ view' = Shorter(Changed(view, me, a, x), you, b)
  <2>1. Steps(Shorter(Changed(view, me, a, x), you, b), m.cont, Quiet)
    BY <1>1, <1>2 DEF IInv
  <2> QED BY <2>1, QuietlyIs
<1>4. view' = [view EXCEPT ![me][Len(view[me])] = x, ![you] = y]
  BY <1>2, <1>3 DEF Shorter, Changed, Family
<1> QED BY <1>1, <1>2, <1>3, <1>4 DEF A!Binary

LEMMA BinaryDoes ==
  ASSUME IInv, stale' = "none", NEW me \in Operands, Binary(me) \/ Index(me)
  PROVE  A!Local /\ A!Has(me, 1) /\ A!Has(A!Other(me), 1) /\ A!Binary(me)
<1>1. Good(m)
  BY DEF IInv
<1>2. CASE Binary(me)
  BY <1>1, <1>2, BinaryIs, TwoOperandsDo
<1>3. CASE Index(me)
  BY <1>1, <1>3, IndexIs, TwoOperandsDo
<1> QED BY <1>2, <1>3

\* Both operands are gone.
LEMMA BothGone ==
  ASSUME IInv, NEW me \in Operands, Has(me, 1), Has(Other(me), 1), NEW o,
         Steps(Shorter(Shorter(View(m), me, Depth(m, me) - 1), Other(me), Depth(m, Other(me)) - 1), m.cont, o)
  PROVE  /\ A!Has(me, 1) /\ A!Has(A!Other(me), 1) /\ m'.cont = m.cont /\ out' = o
         /\ view' = [view EXCEPT ![me] = A!Popped(me), ![A!Other(me)] = A!Popped(A!Other(me))]
         /\ A!Top(me) = View(m)[me][Depth(m, me)]
         /\ A!Top(A!Other(me)) = View(m)[Other(me)][Depth(m, Other(me))]
<1>1. PICK you, a, b, x, y : /\ you = Other(me) /\ a = Depth(m, me) - 1 /\ b = Depth(m, you) - 1
                             /\ x = A!Popped(me) /\ y = A!Popped(you)
  OBVIOUS
<1>2. /\ A!Has(me, 1) /\ A!Has(you, 1) /\ A!Other(me) = you
      /\ me \in Stacks /\ you \in Stacks /\ you # me /\ Family(view)
      /\ x = SubSeq(view[me], 1, a) /\ y = SubSeq(view[you], 1, b)
      /\ A!Top(me) = view[me][Depth(m, me)] /\ A!Top(you) = view[you][Depth(m, you)]
  BY <1>1, SeesBoth
<1>3. view = View(m)
  BY DEF IInv
<1>4. m'.cont = m.cont /\ out' = o /\ view' = Shorter(Shorter(view, me, a), you, b)
  BY <1>1, <1>3, ShownIs
<1>5. view' = [view EXCEPT ![me] = x, ![you] = y]
  BY <1>2, <1>4 DEF Shorter, Family
<1> QED BY <1>1, <1>2, <1>3, <1>4, <1>5

LEMMA BranchDoes ==
  ASSUME IInv, NEW me \in Operands, Branch(me)
  PROVE  m'.cont = m.cont /\ A!Has(me, 1) /\ A!Has(A!Other(me), 1) /\ A!Compare(me)
<1>1. Good(m)
  BY DEF IInv
<1>2. PICK o : o = <<"branch", View(m)[me][Depth(m, me)] = View(m)[Other(me)][Depth(m, Other(me))]>>
  OBVIOUS
<1>3. /\ Has(me, 1) /\ Has(Other(me), 1)
      /\ Steps(Shorter(Shorter(View(m), me, Depth(m, me) - 1), Other(me), Depth(m, Other(me)) - 1), m.cont, o)
  BY <1>1, <1>2, BranchIs
<1> QED BY <1>2, <1>3, BothGone DEF A!Compare

LEMMA StoreDoes ==
  ASSUME IInv, stale' = "none", NEW me \in Operands, Store(me)
  PROVE  m'.cont = m.cont /\ A!Has(me, 1) /\ A!Has(A!Other(me), 1) /\ A!Store(me)
<1>1. Good(m)
  BY DEF IInv
<1>2. PICK o : o = <<"store", View(m)[me][Depth(m, me)], View(m)[Other(me)][Depth(m, Other(me))]>>
  OBVIOUS
<1>3. /\ Has(me, 1) /\ Has(Other(me), 1)
      /\ Steps(Shorter(Shorter(View(m), me, Depth(m, me) - 1), Other(me), Depth(m, Other(me)) - 1), m.cont, o)
  BY <1>1, <1>2, StoreIs
<1> QED BY <1>2, <1>3, BothGone DEF A!Store

LEMMA StayDoes ==
  ASSUME IInv, (\E me \in Operands : Check(me)) \/ Jump PROVE view' = view /\ A!Local
<1>1. Good(m) /\ view = View(m)
  BY DEF IInv
<1>2. Steps(view, m.cont, Quiet)
  BY <1>1, CheckIs, JumpIs
<1> QED BY <1>2, QuietlyIs

\* What is read of a stack for a call.
LEMMA SeesMany ==
  ASSUME IInv, NEW me \in Operands, NEW n \in Nat, Has(me, n)
  PROVE  /\ A!Has(me, n) /\ me \in Stacks /\ me # "C" /\ "C" \in Stacks /\ Family(view) /\ Len(view[me]) = Depth(m, me)
         /\ A!Topmost(me, n) = Topmost(view, me, n) /\ A!Without(me, n) = SubSeq(view[me], 1, Len(view[me]) - n)
<1>1. me \in Stacks /\ me # "C" /\ "C" \in Stacks
  BY OtherIs DEF Stacks
<1>2. A!Has(me, n) /\ Family(view) /\ Len(view[me]) = Depth(m, me)
  BY <1>1, SeesIs
<1> QED BY <1>1, <1>2 DEF A!Topmost, Topmost, A!Without

LEMMA AskedDoes ==
  ASSUME IInv, NEW me \in Operands, NEW n \in 1 .. 2, NEW results \in Nat, Asked(me, n, results),
         Steps(Answered(View(m), me, n, results, Told(me, n)), m.cont, Quiet)
  PROVE  A!Apart(me, n, results)
<1>1. view = View(m) /\ n \in Nat /\ Has(me, n) /\ Depth(m, me) - n + results <= Max(me)
  BY DEF IInv, Asked
<1>2. /\ A!Has(me, n) /\ me \in Stacks /\ Len(view[me]) = Depth(m, me)
      /\ A!Topmost(me, n) = Topmost(view, me, n) /\ A!Without(me, n) = SubSeq(view[me], 1, Len(view[me]) - n)
  BY <1>1, SeesMany
<1>3. A!Local /\ view' = Answered(view, me, n, results, Told(me, n))
  BY <1>1, QuietlyIs
<1>4. Told(me, n) = A!Answer(A!Topmost(me, n))
  BY <1>1, <1>2 DEF Told, Answer, A!Answer
<1>5. Len(view[me]) - n + results <= A!Max(me)
  <2>1. A!Max(me) = Max(me)
    BY <1>2, SeesIs
  <2> QED BY <1>1, <1>2, <2>1
<1>6. view' = [view EXCEPT ![me] = A!Without(me, n) \o [i \in 1 .. results |-> A!Answer(A!Topmost(me, n))]]
  BY <1>2, <1>3, <1>4 DEF Answered
<1> QED BY <1>2, <1>3, <1>5, <1>6 DEF A!Apart

LEMMA ApartDoes ==
  ASSUME IInv, NEW me \in Operands, NEW n \in 1 .. 2, NEW results \in Nat, results >= 1,
         RealCall(me, n, results) \/ RecursiveCall(me, n, results) \/ ForeignCall(me, n, results)
  PROVE  A!Apart(me, n, results)
<1>1. Good(m)
  BY DEF IInv
<1>2. Asked(me, n, results) /\ Steps(Answered(View(m), me, n, results, Told(me, n)), m.cont, Quiet)
  BY <1>1, RealCallIs, RecursiveCallIs, ForeignCallIs
<1> QED BY <1>2, AskedDoes

LEMMA IndirectDoes ==
  ASSUME IInv, NEW me \in Operands, NEW n \in 1 .. 2, NEW results \in Nat, results >= 1, IndirectCall(me, n, results)
  PROVE  A!Indirect(me, n, results)
<1>1. Good(m) /\ view = View(m)
  BY DEF IInv
<1>2. PICK you, b, t, w : you = Other(me) /\ b = Depth(m, you) - 1 /\ t = Told(me, n) /\ w = Shorter(view, you, b)
  OBVIOUS
<1>3. Asked(me, n, results) /\ Has(you, 1) /\ Steps(Answered(w, me, n, results, t), m.cont, Quiet)
  BY <1>1, <1>2, IndirectCallIs
<1>4. n \in Nat /\ Has(me, n) /\ Depth(m, me) - n + results <= Max(me)
  BY <1>3 DEF Asked
<1>5. /\ A!Has(me, n) /\ me \in Stacks /\ Len(view[me]) = Depth(m, me) /\ Family(view)
      /\ A!Topmost(me, n) = Topmost(view, me, n) /\ A!Without(me, n) = SubSeq(view[me], 1, Len(view[me]) - n)
  BY <1>4, SeesMany
<1>6. you \in Stacks /\ you # me /\ A!Other(me) = you
  BY <1>2, OtherIs, SeesIs
<1>7. A!Has(you, 1) /\ A!Popped(you) = SubSeq(view[you], 1, b)
  BY <1>2, <1>3, <1>6, SeesOne
<1>8. A!Local /\ view' = Answered(w, me, n, results, t)
  BY <1>3, QuietlyIs
<1>9. t = A!Answer(A!Topmost(me, n))
  BY <1>1, <1>2, <1>5 DEF Told, Answer, A!Answer
<1>10. Len(view[me]) - n + results <= A!Max(me)
  <2>1. A!Max(me) = Max(me)
    BY <1>5, SeesIs
  <2> QED BY <1>4, <1>5, <2>1
<1>11. PICK x, y : x = A!Popped(you) /\ y = A!Without(me, n) \o [i \in 1 .. results |-> t]
  OBVIOUS
<1>12. w[me] = view[me] /\ w = [view EXCEPT ![you] = x]
  BY <1>2, <1>5, <1>6, <1>7, <1>11 DEF Shorter, Family
<1>13. view' = [w EXCEPT ![me] = y]
  BY <1>5, <1>8, <1>11, <1>12 DEF Answered
<1>14. view' = [view EXCEPT ![you] = x, ![me] = y]
  BY <1>12, <1>13
<1> QED BY <1>5, <1>6, <1>7, <1>8, <1>9, <1>10, <1>11, <1>14 DEF A!Indirect

LEMMA AloneHas ==
  ASSUME IInv, NEW me \in Operands, NEW n \in Nat, Alone(me, n)
  PROVE  A!Alone(me, n) /\ Has(me, n)
<1>1. me \in Stacks
  BY OtherIs
<1>2. Floor(me) \in Nat /\ Depth(m, me) = Floor(me) + n
  BY <1>1, SeesIs DEF Alone
<1>3. Has(me, n)
  BY <1>2 DEF Has
<1> QED BY <1>3, SeesIs

LEMMA FinishDoes ==
  ASSUME IInv, NEW me \in Operands, NEW n \in Nat, Finish(me, n) PROVE A!Finish(me, n)
<1>1. Good(m) /\ view = View(m)
  BY DEF IInv
<1>2. m.cont = <<>> /\ Alone(me, n) /\ Steps(Nothing, m.cont, <<"results", Topmost(view, me, n)>>)
  BY <1>1, FinishIs
<1>3. A!Alone(me, n) /\ A!Topmost(me, n) = Topmost(view, me, n)
  BY <1>2, AloneHas, SeesMany
<1>4. view' = Nothing /\ m'.cont = m.cont /\ out' = <<"results", A!Topmost(me, n)>>
  BY <1>2, <1>3, ShownIs
<1>5. view' = [s \in A!Stacks |-> <<>>]
  BY <1>4 DEF Nothing, Stacks, A!Stacks
<1> QED BY <1>2, <1>3, <1>4, <1>5 DEF A!Finish

LEMMA TailCallDoes ==
  ASSUME IInv, NEW me \in Operands, NEW n \in Nat, TailCall(me, n) PROVE A!TailCall(me, n)
<1>1. Good(m) /\ view = View(m)
  BY DEF IInv
<1>2. PICK c, w : c = Floor("C") /\ w = Shorter(view, "C", c)
  OBVIOUS
<1>3. Alone(me, n) /\ c + n <= MaxC /\ Steps(Handover(w, me, n), m.cont, Quiet)
  BY <1>1, <1>2, TailCallIs
<1>4. A!Alone(me, n) /\ Has(me, n)
  BY <1>3, AloneHas
<1>5. /\ me \in Stacks /\ me # "C" /\ "C" \in Stacks /\ Family(view)
      /\ A!Topmost(me, n) = Topmost(view, me, n) /\ A!Without(me, n) = SubSeq(view[me], 1, Len(view[me]) - n)
  BY <1>4, SeesMany
<1>6. A!Local /\ view' = Handover(w, me, n)
  BY <1>3, QuietlyIs
<1>7. A!Base("C") = c
  BY <1>2, <1>5, SeesIs
<1>8. w[me] = view[me] /\ w["C"] = SubSeq(view["C"], 1, c)
  BY <1>2, <1>5 DEF Shorter, Family
<1>9. PICK x, y, z : x = A!Without(me, n) /\ z = SubSeq(view["C"], 1, c) /\ y = z \o A!Reversed(A!Topmost(me, n))
  OBVIOUS
<1>10. view' = [w EXCEPT ![me] = x, !["C"] = y]
  BY <1>5, <1>6, <1>8, <1>9 DEF Handover, Topmost
<1>11. w = [view EXCEPT !["C"] = z]
  BY <1>2, <1>9 DEF Shorter
<1>12. view' = [view EXCEPT ![me] = x, !["C"] = y]
  BY <1>5, <1>10, <1>11 DEF Family
<1> QED BY <1>3, <1>4, <1>6, <1>7, <1>9, <1>12 DEF A!TailCall

LEMMA CallDoes ==
  ASSUME IInv, NEW me \in Operands, NEW n \in Nat, Call(me, n) PROVE A!Call(me, n)
<1>1. Good(m) /\ view = View(m)
  BY DEF IInv
<1>2. PICK b, c, d : b = Left(m, me, n) /\ c = m.cont /\ d = Callers(c, me, b)
  OBVIOUS
<1>3. Has(me, n) /\ Depth(m, "C") + n <= MaxC /\ Len(c) < MaxCalls /\ Steps(Handover(view, me, n), d, Quiet)
  BY <1>1, <1>2, CallIs
<1>4. /\ A!Has(me, n) /\ me \in Stacks /\ me # "C" /\ "C" \in Stacks
      /\ A!Topmost(me, n) = Topmost(view, me, n) /\ A!Without(me, n) = SubSeq(view[me], 1, Len(view[me]) - n)
  BY <1>3, SeesMany
<1>5. /\ c \in Seq(Frames) /\ A!Room("C", n) /\ \A s \in Stacks : Len(view[s]) = Depth(m, s) /\ Depth(m, s) \in Nat
      /\ Floor(me) + n <= Depth(m, me)
  <2>1. /\ c \in Seq(Frames) /\ \A s \in Stacks : Len(view[s]) = Depth(m, s) /\ Depth(m, s) \in Nat
    BY <1>2, SeesIs
  <2>2. A!Room("C", n)
    BY <1>3, <1>4, SeesIs DEF Max
  <2>3. Floor(me) + n <= Depth(m, me)
    BY <1>1, <1>3, <1>4, FloorsAre
  <2> QED BY <2>1, <2>2, <2>3
<1>6. b \in [Stacks -> Nat]
  <2>1. FloorOf(m, me) + n <= Depth(m, me)
    BY <1>1, <1>4, <1>5, FloorsAre
  <2> QED BY <1>1, <1>2, <2>1, LeftIs
<1>7. view' = Handover(view, me, n) /\ m'.cont = d /\ out' = Quiet
  BY <1>3, ShownIs
<1>8. view' = [view EXCEPT ![me] = A!Without(me, n), !["C"] = @ \o A!Reversed(A!Topmost(me, n))]
  BY <1>4, <1>7 DEF Handover, Topmost
<1>9. Len(Framing(c)) < MaxCalls
  BY <1>3, <1>5, FramingIs
<1>10. Framing(d) = Append(Framing(c), [base |-> b, dst |-> me])
  <2>1. d = Append(c, [base |-> b, dst |-> me, offset |-> -Arguments])
    BY <1>2 DEF Callers
  <2> QED BY <1>5, <1>6, <2>1, FramingAppend
<1>11. [A |-> Len(view["A"]) - IF me = "A" THEN n ELSE 0, B |-> Len(view["B"]) - IF me = "B" THEN n ELSE 0,
        C |-> Len(view["C"])] = b
  <2>1. PICK x, y, z : /\ x = Len(view["A"]) - IF me = "A" THEN n ELSE 0
                       /\ y = Len(view["B"]) - IF me = "B" THEN n ELSE 0
                       /\ z = Len(view["C"])
    OBVIOUS
  <2>2. b = [s \in Stacks |-> Depth(m, s) - IF s = me THEN n ELSE 0]
    BY <1>2 DEF Left
  <2>3. b["A"] = x /\ b["B"] = y /\ b["C"] = z
    <3>1. "A" \in Stacks /\ "B" \in Stacks /\ "C" \in Stacks
      BY DEF Stacks
    <3>2. \A s \in Stacks : b[s] = Len(view[s]) - IF s = me THEN n ELSE 0
      BY <1>5, <2>2
    <3>3. b["A"] = x
      BY <2>1, <3>1, <3>2
    <3>4. b["B"] = y
      BY <2>1, <3>1, <3>2
    <3>5. b["C"] = Len(view["C"])
      <4>1. b["C"] = Len(view["C"]) - 0
        BY <1>4, <3>2
      <4>2. Len(view["C"]) \in Nat
        BY <1>5, <3>1
      <4> QED BY <4>1, <4>2
    <3> QED BY <2>1, <3>3, <3>4, <3>5
  <2>4. b = [s \in Stacks |-> IF s = "A" THEN x ELSE IF s = "B" THEN y ELSE z]
    BY <2>2, <2>3 DEF Stacks
  <2> QED BY <2>1, <2>4, RecordIs
<1>12. PICK r : r = [A |-> Len(view["A"]) - IF me = "A" THEN n ELSE 0, B |-> Len(view["B"]) - IF me = "B" THEN n ELSE 0,
                     C |-> Len(view["C"])]
  OBVIOUS
<1>13. Framing(m'.cont) = Append(Framing(m.cont), [base |-> r, dst |-> me])
  BY <1>2, <1>7, <1>10, <1>11, <1>12
<1>14. Framing(m.cont) = [i \in 1 .. Len(m.cont) |-> [base |-> m.cont[i].base, dst |-> m.cont[i].dst]]
  BY DEF Framing
<1>15. Framing(m'.cont) = [i \in 1 .. Len(m'.cont) |-> [base |-> m'.cont[i].base, dst |-> m'.cont[i].dst]]
  BY DEF Framing
<1> QED BY <1>2, <1>4, <1>5, <1>7, <1>8, <1>9, <1>12, <1>13, <1>14, <1>15 DEF A!Call

LEMMA ReturnDoes ==
  ASSUME IInv, stale' = "none", NEW me \in Operands, NEW n \in Nat, Return(me, n) PROVE A!Return(me, n)
<1>1. Good(m) /\ view = View(m)
  BY DEF IInv
<1>2. PICK f, c, d, l : f = m.cont[Len(m.cont)] /\ c = SubSeq(m.cont, 1, Len(m.cont) - 1) /\ d = m.cont /\ l = Len(d)
  OBVIOUS
<1>3. /\ d # <<>> /\ Alone(me, n) /\ (f.dst = me \/ Depth(m, f.dst) + n <= Max(f.dst))
      /\ Steps(Returned(view, f.base, f.dst, me, n), c, Quiet)
  <2>1. \A g, e : g = m.cont[Len(m.cont)] /\ e = SubSeq(m.cont, 1, Len(m.cont) - 1) =>
          /\ m.cont # <<>> /\ Alone(me, n) /\ (g.dst = me \/ Depth(m, g.dst) + n <= Max(g.dst))
          /\ Steps(Returned(View(m), g.base, g.dst, me, n), e, Quiet)
    BY <1>1, ReturnIs
  <2> QED BY <1>1, <1>2, <2>1
<1>4. /\ A!Alone(me, n) /\ A!Topmost(me, n) = Topmost(view, me, n)
  BY <1>3, AloneHas, SeesMany
<1>5. d \in Seq(Frames) /\ l \in 1 .. Len(d)
  <2>1. d \in Seq(Frames)
    BY <1>2, SeesIs
  <2> QED BY <1>2, <1>3, <2>1
<1>6. /\ Framing(d) # <<>> /\ Len(Framing(d)) = l /\ Framing(d)[l] = [base |-> f.base, dst |-> f.dst]
      /\ Framing(c) = SubSeq(Framing(d), 1, Len(Framing(d)) - 1)
  <2>1. /\ Len(Framing(d)) = Len(d) /\ Framing(d) # <<>>
        /\ \A i \in 1 .. Len(d) : Framing(d)[i] = [base |-> d[i].base, dst |-> d[i].dst]
    BY <1>3, <1>5, FramingIs
  <2>2. Framing(SubSeq(d, 1, Len(d) - 1)) = SubSeq(Framing(d), 1, Len(Framing(d)) - 1)
    BY <1>3, <1>5, FramingShorter
  <2>3. d[l] = f
    BY <1>2
  <2> QED BY <1>2, <1>5, <2>1, <2>2, <2>3
<1>7. \A s \in Stacks : A!Base(s) = f.base[s]
  <2>1. \A s \in Stacks : f.base[s] = Floor(s)
    BY <1>1, <1>2, <1>3, LastIs
  <2>2. \A s \in Stacks : A!Base(s) = Floor(s)
    BY SeesIs
  <2> QED BY <2>1, <2>2
<1>8. f.dst \in Stacks
  <2>1. f.dst \in Operands
    BY <1>1, <1>2, <1>3, LastIs
  <2> QED BY <2>1, OtherIs
<1>9. f.dst = me \/ A!Room(f.dst, n)
  BY <1>3, <1>8, SeesIs
<1>10. view' = Returned(view, f.base, f.dst, me, n) /\ m'.cont = c /\ out' = Quiet
  BY <1>3, ShownIs
<1>11. view' = [s \in A!Stacks |-> SubSeq(view[s], 1, A!Base(s)) \o IF s = f.dst THEN A!Topmost(me, n) ELSE <<>>]
  <2>1. A!Stacks = Stacks
    BY DEF A!Stacks, Stacks
  <2> QED BY <1>4, <1>7, <1>10, <2>1 DEF Returned, Topmost
<1>14. PICK to : to = f.dst
  OBVIOUS
<1>15. Framing(m.cont)[Len(Framing(m.cont))].dst = to
  BY <1>2, <1>6, <1>14
<1>16. Framing(m.cont) # <<>> /\ Framing(m'.cont) = SubSeq(Framing(m.cont), 1, Len(Framing(m.cont)) - 1)
  BY <1>2, <1>6, <1>10
<1>17. view' = [s \in A!Stacks |->
                  SubSeq(view[s], 1, A!Base(s))
                    \o IF s = Framing(m.cont)[Len(Framing(m.cont))].dst THEN A!Topmost(me, n) ELSE <<>>]
  BY <1>11, <1>14, <1>15
<1>18. LET at == Framing(m.cont)[Len(Framing(m.cont))].dst IN at = me \/ A!Room(at, n)
  BY <1>9, <1>14, <1>15
<1> QED BY <1>4, <1>10, <1>16, <1>17, <1>18 DEF A!Return, Framing

LEMMA StartDoes == ASSUME Init PROVE A!Start
<1>1. PICK a \in [1 .. Arguments -> Values] : IInv /\ m.cont = <<>> /\ out = Quiet /\ View(m) = Given_(a)
  BY InitIs
<1>2. view = Given_(a) /\ m.cont = <<>>
  BY <1>1 DEF IInv
<1>3. Given_(a) = [A |-> <<>>, B |-> <<>>, C |-> a]
  BY RecordIs DEF Given_, Stacks
<1>4. Framing(m.cont) = <<>>
  <2>1. m.cont \in Seq(Frames)
    BY <1>1, SeesIs
  <2> QED BY <1>2, <2>1, FramingIs
<1>5. [i \in 1 .. Len(m.cont) |-> [base |-> m.cont[i].base, dst |-> m.cont[i].dst]] = <<>>
  BY <1>4 DEF Framing
<1> QED BY <1>1, <1>2, <1>3, <1>5 DEF A!Start

LEMMA OnOneDoes ==
  ASSUME IInv, stale' = "none", NEW s \in Operands,
         \/ \E v \in Values : Literal(s, v) \/ Load(s, v) \/ Immediate(s, v)
         \/ \E to \in Stacks, consume \in BOOLEAN : Transfer(s, to, consume)
         \/ \E depth \in 0 .. MaxC - 1 : CGet(s, depth) \/ CSet(s, depth) \/ BinaryC(s, depth)
         \/ Binary(s) \/ Check(s) \/ Store(s) \/ Index(s) \/ Branch(s)
  PROVE  A!Step
<1>0. s \in A!Operands /\ A!Operands = Operands /\ A!Stacks = Stacks
  BY DEF A!Operands, Operands, A!Stacks, Stacks
<1>1. CASE \E v \in Values : Literal(s, v) \/ Load(s, v) \/ Immediate(s, v)
  <2>1. PICK v \in Values : Literal(s, v) \/ Load(s, v) \/ Immediate(s, v)
    BY <1>1
  <2>2. A!Local /\ (A!Push(s, v) \/ (A!Has(s, 1) /\ A!Immediate(s, v)))
    BY <2>1, LiteralDoes, ImmediateDoes
  <2> QED BY <1>0, <2>2 DEF A!Step
<1>2. CASE \E to \in Stacks, consume \in BOOLEAN : Transfer(s, to, consume)
  <2>1. PICK to \in Stacks, consume \in BOOLEAN : Transfer(s, to, consume)
    BY <1>2
  <2>2. /\ A!Local /\ A!Has(s, 1)
        /\ (\E t \in A!Operands : A!Copy(s, t)) \/ (\E t \in {A!Other(s), "C"} : A!Move(s, t))
    BY <1>0, <2>1, TransferDoes
  <2> QED BY <1>0, <2>2 DEF A!Step
<1>3. CASE \E depth \in 0 .. MaxC - 1 : CGet(s, depth) \/ CSet(s, depth) \/ BinaryC(s, depth)
  <2>1. PICK depth \in 0 .. MaxC - 1 : CGet(s, depth) \/ CSet(s, depth) \/ BinaryC(s, depth)
    BY <1>3
  <2>2. depth \in Nat
    BY Bounds
  <2>3. /\ A!Local /\ A!Has("C", depth + 1)
        /\ A!Get(s, depth) \/ (A!Has(s, 1) /\ (A!Set(s, depth) \/ A!BinaryC(s, depth)))
    BY <2>1, <2>2, CGetDoes, CSetDoes, BinaryCDoes
  <2> QED BY <1>0, <2>1, <2>3 DEF A!Step
<1>4. CASE Binary(s) \/ Index(s)
  <2>1. A!Local /\ A!Has(s, 1) /\ A!Has(A!Other(s), 1) /\ A!Binary(s)
    BY <1>4, BinaryDoes
  <2> QED BY <1>0, <2>1 DEF A!Step
<1>5. CASE Check(s)
  BY <1>5, StayDoes DEF A!Step
<1>6. CASE Store(s) \/ Branch(s)
  <2>1. m'.cont = m.cont /\ A!Has(s, 1) /\ A!Has(A!Other(s), 1) /\ (A!Compare(s) \/ A!Store(s))
    BY <1>6, StoreDoes, BranchDoes
  <2>2. [i \in 1 .. Len(m.cont) |-> [base |-> m.cont[i].base, dst |-> m.cont[i].dst]]'
          = [i \in 1 .. Len(m.cont) |-> [base |-> m.cont[i].base, dst |-> m.cont[i].dst]]
    BY <2>1
  <2> QED BY <1>0, <2>1, <2>2 DEF A!Step
<1> QED BY <1>1, <1>2, <1>3, <1>4, <1>5, <1>6

LEMMA BetweenDoes ==
  ASSUME IInv, stale' = "none", NEW s \in Operands,
         \/ \E n \in 0 .. Max(s) : Call(s, n) \/ Return(s, n) \/ TailCall(s, n) \/ Finish(s, n)
         \/ \E n \in 1 .. 2, results \in 1 .. MaxResults :
              \/ RealCall(s, n, results) \/ RecursiveCall(s, n, results)
              \/ IndirectCall(s, n, results) \/ ForeignCall(s, n, results)
  PROVE  A!Step
<1>0. s \in A!Operands
  BY DEF A!Operands, Operands
<1>1. CASE \E n \in 0 .. Max(s) : Call(s, n) \/ Return(s, n) \/ TailCall(s, n) \/ Finish(s, n)
  <2>1. PICK n \in 0 .. Max(s) : Call(s, n) \/ Return(s, n) \/ TailCall(s, n) \/ Finish(s, n)
    BY <1>1
  <2>2. n \in Nat /\ n \in 0 .. MaxA + MaxB
    <3>1. s = "A" \/ s = "B"
      BY DEF Operands
    <3>2. Max(s) = MaxA \/ Max(s) = MaxB
      BY <3>1 DEF Max
    <3> QED BY <2>1, <3>2, Bounds
  <2>3. A!Call(s, n) \/ A!TailCall(s, n) \/ A!Return(s, n) \/ A!Finish(s, n)
    BY <2>1, <2>2, CallDoes, TailCallDoes, ReturnDoes, FinishDoes
  <2> QED BY <1>0, <2>2, <2>3 DEF A!Step
<1>2. CASE \E n \in 1 .. 2, results \in 1 .. MaxResults :
             \/ RealCall(s, n, results) \/ RecursiveCall(s, n, results)
             \/ IndirectCall(s, n, results) \/ ForeignCall(s, n, results)
  <2>1. PICK n \in 1 .. 2, results \in 1 .. MaxResults :
               \/ RealCall(s, n, results) \/ RecursiveCall(s, n, results)
               \/ IndirectCall(s, n, results) \/ ForeignCall(s, n, results)
    BY <1>2
  <2>2. results \in Nat /\ results >= 1 /\ results \in 0 .. MaxResults
    BY Bounds
  <2>3. A!Apart(s, n, results) \/ A!Indirect(s, n, results)
    BY <2>1, <2>2, ApartDoes, IndirectDoes
  <2> QED BY <1>0, <2>2, <2>3 DEF A!Step
<1> QED BY <1>1, <1>2

LEMMA StepDoes ==
  ASSUME IInv, stale' = "none", Step PROVE A!Step
<1>1. ASSUME NEW s \in Stacks, Drop(s) PROVE A!Step
  <2>1. A!Has(s, 1) /\ A!Pop(s) /\ A!Local
    BY <1>1, DropDoes
  <2>2. s \in A!Stacks
    BY DEF A!Stacks, Stacks
  <2> QED BY <2>1, <2>2 DEF A!Step
<1>2. ASSUME Jump PROVE A!Step
  BY <1>2, StayDoes DEF A!Step
<1> QED BY <1>1, <1>2, OnOneDoes, BetweenDoes DEF Step

LEMMA StaysUnseen == ASSUME UNCHANGED vars PROVE UNCHANGED A!seen
<1>1. m' = m /\ view' = view /\ out' = out
  BY DEF vars
<1> QED BY <1>1 DEF A!seen

\* StepsOfActivations: whatever is renamed, kept in registers, spilled, folded
\* or compiled into its caller, every step of the compiled code is a step of the
\* three stacks its program sees, or none, until an instruction uses a copy of a
\* descriptor that its cell has no longer.
THEOREM RefinesActivations == Spec => StepsOfActivations
<1>1. Init => A!Start
  BY StartDoes
<1>2. Sound /\ [Step]_vars => [stale' # "none" \/ A!Step]_(A!seen)
  BY StaleSince, StepDoes, StaysUnseen DEF Sound
<1>3. Spec => []Sound
  BY StandsForValues
<1> QED BY <1>1, <1>2, <1>3, PTL DEF Spec, StepsOfActivations
=============================================================================
