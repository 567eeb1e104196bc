------------------------------ MODULE MachineProofs ------------------------------
(***************************************************************************)
(* For every set of programs and every capacity: what the verifier accepts *)
(* is consistent, and runs as it inferred.  The first part is about        *)
(* Verifier alone, the second about the run.                               *)
(***************************************************************************)
EXTENDS Machine, SequenceTheorems, TLAPS

-----------------------------------------------------------------------------
(* Sequences with their top at the end.                                     *)

LEMMA WithoutOf ==
  ASSUME NEW S, NEW u \in Seq(S), NEW n \in 0 .. Len(u)
  PROVE  /\ Without(u, n) \in Seq(S) /\ Len(Without(u, n)) = Len(u) - n
         /\ \A i \in 1 .. Len(u) - n : Without(u, n)[i] = u[i]
BY DEF Without

LEMMA TopmostOf ==
  ASSUME NEW S, NEW u \in Seq(S), NEW n \in 0 .. Len(u)
  PROVE  /\ Topmost(u, n) \in Seq(S) /\ Len(Topmost(u, n)) = n
         /\ \A i \in 1 .. n : Topmost(u, n)[i] = u[Len(u) - n + i]
BY DEF Topmost

LEMMA AtOf ==
  ASSUME NEW S, NEW u \in Seq(S), NEW d \in 0 .. Len(u) - 1
  PROVE  At(u, d) \in S
BY DEF At

LEMMA ReverseOf ==
  ASSUME NEW S, NEW u \in Seq(S)
  PROVE  /\ Reverse(u) \in Seq(S) /\ Len(Reverse(u)) = Len(u)
         /\ \A i \in 1 .. Len(u) : Reverse(u)[i] = u[Len(u) - i + 1]
BY DEF Reverse

\* Appended sequences, with their elements counted from either end.
LEMMA Joined ==
  ASSUME NEW S, NEW u \in Seq(S), NEW v \in Seq(S)
  PROVE  /\ u \o v \in Seq(S) /\ Len(u \o v) = Len(u) + Len(v)
         /\ \A i \in 1 .. Len(u) : (u \o v)[i] = u[i]
         /\ \A i \in 1 .. Len(v) : (u \o v)[Len(u) + i] = v[i]
<1>1. /\ u \o v \in Seq(S) /\ Len(u \o v) = Len(u) + Len(v)
      /\ \A i \in 1 .. Len(u) + Len(v) : (u \o v)[i] = IF i <= Len(u) THEN u[i] ELSE v[i - Len(u)]
  BY ConcatProperties
<1>2. Len(u) \in Nat /\ Len(v) \in Nat
  OBVIOUS
<1>3. \A i \in 1 .. Len(u) : (u \o v)[i] = u[i]
  BY <1>1, <1>2
<1>4. \A i \in 1 .. Len(v) : (u \o v)[Len(u) + i] = v[i]
  <2> TAKE i \in 1 .. Len(v)
  <2>1. Len(u) + i \in 1 .. Len(u) + Len(v) /\ ~(Len(u) + i <= Len(u)) /\ (Len(u) + i) - Len(u) = i
    BY <1>2
  <2> QED BY <1>1, <2>1
<1> QED BY <1>1, <1>3, <1>4

\* A sequence is known by what it is made of.
LEMMA JoinedEqual ==
  ASSUME NEW S, NEW u \in Seq(S), NEW v \in Seq(S), NEW w \in Seq(S),
         Len(w) = Len(u) + Len(v),
         \A i \in 1 .. Len(u) : w[i] = u[i],
         \A i \in 1 .. Len(v) : w[Len(u) + i] = v[i]
  PROVE  w = u \o v
<1>z. PICK z \in Seq(S) : z = u \o v
  BY Joined
<1>1. /\ Len(z) = Len(u) + Len(v)
      /\ \A i \in 1 .. Len(u) : z[i] = u[i]
      /\ \A i \in 1 .. Len(v) : z[Len(u) + i] = v[i]
  BY <1>z, Joined
<1>2. Len(u) \in Nat /\ Len(v) \in Nat
  OBVIOUS
<1>3. ASSUME NEW i \in 1 .. Len(w) PROVE w[i] = z[i]
  <2>1. CASE i <= Len(u)
    <3>1. i \in 1 .. Len(u)
      BY <2>1, <1>2
    <3> QED BY <3>1, <1>1
  <2>2. CASE ~(i <= Len(u))
    <3>1. i - Len(u) \in 1 .. Len(v) /\ i = Len(u) + (i - Len(u))
      BY <2>2, <1>2
    <3>j. PICK j \in 1 .. Len(v) : i = Len(u) + j
      BY <3>1
    <3> QED BY <1>1, <3>j
  <2> QED BY <2>1, <2>2
<1>4. w = z
  BY <1>1, <1>3, SeqEqual
<1> QED BY <1>4, <1>z

\* What happens to the top of a sequence happens above what lies under it.
LEMMA OnTop ==
  ASSUME NEW S, NEW u \in Seq(S), NEW v \in Seq(S), NEW n \in 0 .. Len(v)
  PROVE  /\ Without(u \o v, n) = u \o Without(v, n)
         /\ Topmost(u \o v, n) = Topmost(v, n)
<1>z. PICK z \in Seq(S) : z = u \o v
  BY Joined
<1>1. /\ Len(z) = Len(u) + Len(v)
      /\ \A i \in 1 .. Len(u) : z[i] = u[i]
      /\ \A i \in 1 .. Len(v) : z[Len(u) + i] = v[i]
  BY <1>z, Joined
<1>2. Len(u) \in Nat /\ Len(v) \in Nat /\ n \in Nat /\ n <= Len(v) /\ n \in 0 .. Len(z)
  BY <1>1
<1>3. Without(z, n) = u \o Without(v, n)
  <2>w. PICK w \in Seq(S) : w = Without(z, n)
    BY <1>2, WithoutOf
  <2>1. Len(w) = Len(u) + Len(v) - n /\ \A i \in 1 .. Len(u) + Len(v) - n : w[i] = z[i]
    <3>1. Len(w) = Len(z) - n /\ \A i \in 1 .. Len(z) - n : w[i] = z[i]
      BY <1>2, <2>w, WithoutOf
    <3> QED BY <3>1, <1>1
  <2>r. PICK r \in Seq(S) : r = Without(v, n)
    BY WithoutOf
  <2>2. Len(r) = Len(v) - n /\ \A i \in 1 .. Len(v) - n : r[i] = v[i]
    BY <2>r, WithoutOf
  <2>3. Len(w) = Len(u) + Len(r)
    BY <2>1, <2>2, <1>2
  <2>4. \A i \in 1 .. Len(u) : w[i] = u[i]
    BY <2>1, <1>1, <1>2
  <2>5. \A i \in 1 .. Len(r) : w[Len(u) + i] = r[i]
    <3> TAKE i \in 1 .. Len(r)
    <3>1. i \in 1 .. Len(v) /\ i \in 1 .. Len(v) - n /\ Len(u) + i \in 1 .. Len(u) + Len(v) - n
      BY <2>2, <1>2
    <3> QED BY <3>1, <2>1, <2>2, <1>1
  <2>6. w = u \o r
    BY <2>3, <2>4, <2>5, JoinedEqual
  <2> QED BY <2>6, <2>w, <2>r
<1>4. Topmost(z, n) = Topmost(v, n)
  <2>w. PICK w \in Seq(S) : w = Topmost(z, n)
    BY <1>2, TopmostOf
  <2>1. Len(w) = n /\ \A i \in 1 .. n : w[i] = z[Len(z) - n + i]
    BY <1>2, <2>w, TopmostOf
  <2>r. PICK r \in Seq(S) : r = Topmost(v, n)
    BY TopmostOf
  <2>2. Len(r) = n /\ \A i \in 1 .. n : r[i] = v[Len(v) - n + i]
    BY <2>r, TopmostOf
  <2>3. \A i \in 1 .. n : w[i] = r[i]
    <3> TAKE i \in 1 .. n
    <3>1. Len(v) - n + i \in 1 .. Len(v) /\ Len(z) - n + i = Len(u) + (Len(v) - n + i)
      BY <1>1, <1>2
    <3>j. PICK j \in 1 .. Len(v) : j = Len(v) - n + i
      BY <3>1
    <3>2. w[i] = z[Len(u) + j] /\ r[i] = v[j]
      BY <3>1, <3>j, <2>1, <2>2
    <3> QED BY <3>2, <1>1
  <2>4. w = r
    BY <2>1, <2>2, <2>3, SeqEqual
  <2> QED BY <2>4, <2>w, <2>r
<1> QED BY <1>3, <1>4, <1>z

LEMMA AtOnTop ==
  ASSUME NEW S, NEW u \in Seq(S), NEW v \in Seq(S), NEW d \in 0 .. Len(v) - 1
  PROVE  At(u \o v, d) = At(v, d)
<1>z. PICK z \in Seq(S) : z = u \o v
  BY Joined
<1>1. Len(z) = Len(u) + Len(v) /\ \A i \in 1 .. Len(v) : z[Len(u) + i] = v[i]
  BY <1>z, Joined
<1>2. Len(v) - d \in 1 .. Len(v) /\ Len(z) - d = Len(u) + (Len(v) - d)
  BY <1>1
<1>j. PICK j \in 1 .. Len(v) : j = Len(v) - d
  BY <1>2
<1>3. At(z, d) = z[Len(u) + j] /\ At(v, d) = v[j]
  BY <1>2, <1>j DEF At
<1> QED BY <1>3, <1>1, <1>z

LEMMA UpdateOnTop ==
  ASSUME NEW S, NEW u \in Seq(S), NEW v \in Seq(S), NEW d \in 0 .. Len(v) - 1, NEW k \in S
  PROVE  [(u \o v) EXCEPT ![Len(u \o v) - d] = k] = u \o [v EXCEPT ![Len(v) - d] = k]
<1>z. PICK z \in Seq(S) : z = u \o v
  BY Joined
<1>1. /\ Len(z) = Len(u) + Len(v)
      /\ \A i \in 1 .. Len(u) : z[i] = u[i]
      /\ \A i \in 1 .. Len(v) : z[Len(u) + i] = v[i]
  BY <1>z, Joined
<1>2. /\ Len(u) \in Nat /\ Len(v) \in Nat
      /\ Len(v) - d \in 1 .. Len(v) /\ Len(z) - d = Len(u) + (Len(v) - d) /\ Len(z) - d \in 1 .. Len(z)
  BY <1>1
<1>j. PICK j \in 1 .. Len(v) : j = Len(v) - d
  BY <1>2
<1>l. PICK l \in 1 .. Len(z) : l = Len(u) + j
  BY <1>2, <1>j
<1>w. PICK w \in Seq(S) : w = [z EXCEPT ![l] = k]
  BY ExceptSeq
<1>3. Len(w) = Len(z) /\ \A i \in 1 .. Len(z) : w[i] = IF i = l THEN k ELSE z[i]
  BY <1>w, ExceptSeq
<1>r. PICK r \in Seq(S) : r = [v EXCEPT ![j] = k]
  BY ExceptSeq
<1>4. Len(r) = Len(v) /\ \A i \in 1 .. Len(v) : r[i] = IF i = j THEN k ELSE v[i]
  BY <1>r, ExceptSeq
<1>5. \A i \in 1 .. Len(u) : w[i] = u[i]
  BY <1>1, <1>2, <1>3, <1>l, <1>j
<1>6. \A i \in 1 .. Len(r) : w[Len(u) + i] = r[i]
  <2> TAKE i \in 1 .. Len(r)
  <2>1. i \in 1 .. Len(v) /\ Len(u) + i \in 1 .. Len(z) /\ (Len(u) + i = l <=> i = j)
    <3>1. i \in 1 .. Len(v) /\ Len(z) = Len(u) + Len(v)
      BY <1>4, <1>1
    <3>2. Len(u) + i \in 1 .. Len(z)
      BY <3>1, <1>2
    <3>3. Len(u) + i = l <=> i = j
      BY <3>1, <1>2, <1>l
    <3> QED BY <3>1, <3>2, <3>3
  <2> QED BY <2>1, <1>1, <1>3, <1>4
<1>7. w = u \o r
  <2>1. Len(w) = Len(u) + Len(r) BY <1>1, <1>3, <1>4
  <2>2. w \in Seq(S) /\ r \in Seq(S) /\ u \in Seq(S)
    OBVIOUS
  <2> QED BY <2>1, <2>2, <1>5, <1>6, JoinedEqual
<1> QED BY <1>7, <1>2, <1>z, <1>w, <1>r, <1>j, <1>l

-----------------------------------------------------------------------------
(* Blocks.                                                                  *)

BlockCells == {<<"block", b, i>> : b \in Nat, i \in Nat}
Cells == Scalars \cup BlockCells

\* Cell p of c is one of a block of b bytes that begins above cell q.
InBlock(c, p, q, b) ==
  /\ q < p /\ p <= q + CellsOf(b) /\ q + CellsOf(b) <= Len(c)
  /\ \A j \in 1 .. CellsOf(b) : c[q + j] = <<"block", b, j>>

\* Every cell that is no scalar lies in a block all of whose cells are there.
Whole(c) ==
  \A p \in 1 .. Len(c) : c[p] \notin Scalars => \E b \in Nat, q \in 0 .. Len(c) : InBlock(c, p, q, b)

LEMMA CellCount == \A b \in Nat : CellsOf(b) \in Nat /\ b <= 8 * CellsOf(b)
BY DEF CellsOf

LEMMA BlockOf ==
  ASSUME NEW b \in Nat
  PROVE  /\ Block(b) \in Seq(Cells) /\ Len(Block(b)) = CellsOf(b)
         /\ \A i \in 1 .. CellsOf(b) : Block(b)[i] = <<"block", b, i>>
<1>1. CellsOf(b) \in Nat
  BY CellCount
<1>2. \A i \in 1 .. CellsOf(b) : <<"block", b, i>> \in Cells
  BY <1>1 DEF Cells, BlockCells
<1> QED BY <1>1, <1>2 DEF Block

LEMMA NoScalar == \A b, i \in Nat : <<"block", b, i>> \notin Scalars
BY DEF Scalars, IntKind, AddrKind, FloatKind

LEMMA ScalarIsCell == Scalars \subseteq Cells
BY DEF Cells

LEMMA WholeJoined ==
  ASSUME NEW c \in Seq(Cells), NEW v \in Seq(Cells), Whole(c), \A i \in 1 .. Len(v) : v[i] \in Scalars
  PROVE  Whole(c \o v)
<1>z. PICK z \in Seq(Cells) : z = c \o v
  BY Joined
<1>1. /\ Len(z) = Len(c) + Len(v)
      /\ \A i \in 1 .. Len(c) : z[i] = c[i]
      /\ \A i \in 1 .. Len(v) : z[Len(c) + i] = v[i]
  BY <1>z, Joined
<1>2. Len(c) \in Nat /\ Len(v) \in Nat
  OBVIOUS
<1>3. ASSUME NEW p \in 1 .. Len(z), z[p] \notin Scalars
      PROVE  \E b \in Nat, q \in 0 .. Len(z) : InBlock(z, p, q, b)
  <2>1. p \in 1 .. Len(c)
    <3>1. CASE ~(p <= Len(c))
      <4>1. p - Len(c) \in 1 .. Len(v) /\ p = Len(c) + (p - Len(c))
        BY <3>1, <1>1, <1>2
      <4>j. PICK j \in 1 .. Len(v) : p = Len(c) + j
        BY <4>1
      <4>2. z[p] \in Scalars
        BY <4>j, <1>1
      <4> QED BY <4>2, <1>3
    <3>2. CASE p <= Len(c)
      BY <3>2, <1>2
    <3> QED BY <3>1, <3>2
  <2>2. c[p] \notin Scalars
    BY <2>1, <1>1, <1>3
  <2>b. PICK b \in Nat : \E q \in 0 .. Len(c) : InBlock(c, p, q, b)
    BY <2>1, <2>2 DEF Whole
  <2>q. PICK q \in 0 .. Len(c) : InBlock(c, p, q, b)
    BY <2>b
  <2>3. CellsOf(b) \in Nat
    BY CellCount
  <2>4. q < p /\ p <= q + CellsOf(b) /\ q + CellsOf(b) <= Len(c)
    BY <2>q DEF InBlock
  <2>5. \A j \in 1 .. CellsOf(b) : z[q + j] = <<"block", b, j>>
    <3> TAKE j \in 1 .. CellsOf(b)
    <3>1. q + j \in 1 .. Len(c) /\ c[q + j] = <<"block", b, j>>
      BY <2>3, <2>4, <2>q, <1>2 DEF InBlock
    <3> QED BY <3>1, <1>1
  <2>6. q \in 0 .. Len(z) /\ q + CellsOf(b) <= Len(z)
    BY <2>3, <2>4, <1>1, <1>2
  <2> QED BY <2>4, <2>5, <2>6 DEF InBlock
<1>4. Whole(z)
  BY <1>3 DEF Whole
<1> QED BY <1>4, <1>z

LEMMA WholeBlock ==
  ASSUME NEW c \in Seq(Cells), Whole(c), NEW n \in Nat
  PROVE  Whole(c \o Block(n))
<1>v. PICK v \in Seq(Cells) : v = Block(n)
  BY BlockOf
<1>0. Len(v) = CellsOf(n) /\ \A i \in 1 .. CellsOf(n) : v[i] = <<"block", n, i>>
  BY <1>v, BlockOf
<1>z. PICK z \in Seq(Cells) : z = c \o v
  BY Joined
<1>1. /\ Len(z) = Len(c) + Len(v)
      /\ \A i \in 1 .. Len(c) : z[i] = c[i]
      /\ \A i \in 1 .. Len(v) : z[Len(c) + i] = v[i]
  BY <1>z, Joined
<1>2. Len(c) \in Nat /\ Len(v) \in Nat
  OBVIOUS
<1>3. ASSUME NEW p \in 1 .. Len(z), z[p] \notin Scalars
      PROVE  \E b \in Nat, q \in 0 .. Len(z) : InBlock(z, p, q, b)
  <2>1. CASE ~(p <= Len(c))
    <3>1. Len(c) < p /\ p <= Len(c) + CellsOf(n) /\ Len(c) + CellsOf(n) <= Len(z) /\ Len(c) \in 0 .. Len(z)
      BY <2>1, <1>0, <1>1, <1>2
    <3>2. \A j \in 1 .. CellsOf(n) : z[Len(c) + j] = <<"block", n, j>>
      BY <1>0, <1>1
    <3>q. PICK q \in 0 .. Len(z) : q = Len(c)
      BY <3>1
    <3>3. InBlock(z, p, q, n)
      BY <3>1, <3>2, <3>q DEF InBlock
    <3> QED BY <3>3
  <2>2. CASE p <= Len(c)
    <3>0. p \in 1 .. Len(c)
      BY <2>2, <1>2
    <3>1. c[p] \notin Scalars
      BY <3>0, <1>1, <1>3
    <3>b. PICK b \in Nat : \E q \in 0 .. Len(c) : InBlock(c, p, q, b)
      BY <3>0, <3>1 DEF Whole
    <3>q. PICK q \in 0 .. Len(c) : InBlock(c, p, q, b)
      BY <3>b
    <3>3. CellsOf(b) \in Nat
      BY CellCount
    <3>4. q < p /\ p <= q + CellsOf(b) /\ q + CellsOf(b) <= Len(c)
      BY <3>q DEF InBlock
    <3>5. \A j \in 1 .. CellsOf(b) : z[q + j] = <<"block", b, j>>
      <4> TAKE j \in 1 .. CellsOf(b)
      <4>1. q + j \in 1 .. Len(c) /\ c[q + j] = <<"block", b, j>>
        BY <3>3, <3>4, <3>q, <1>2 DEF InBlock
      <4> QED BY <4>1, <1>1
    <3>6. q \in 0 .. Len(z) /\ q + CellsOf(b) <= Len(z)
      BY <3>3, <3>4, <1>1, <1>2
    <3> QED BY <3>4, <3>5, <3>6 DEF InBlock
  <2> QED BY <2>1, <2>2
<1>4. Whole(z)
  BY <1>3 DEF Whole
<1> QED BY <1>4, <1>z, <1>v

\* What is left when n cells are cut off is whole if no block reaches into them.
LEMMA WholeCut ==
  ASSUME NEW c \in Seq(Cells), Whole(c), NEW n \in 0 .. Len(c),
         n = 0 \/ c[Len(c) - n + 1] \in Scalars \/ \E b \in Nat : c[Len(c) - n + 1] = <<"block", b, 1>>
  PROVE  Whole(Without(c, n))
<1>w. PICK w \in Seq(Cells) : w = Without(c, n)
  BY WithoutOf
<1>1. Len(w) = Len(c) - n /\ \A i \in 1 .. Len(c) - n : w[i] = c[i]
  BY <1>w, WithoutOf
<1>2. Len(c) \in Nat /\ n \in Nat /\ n <= Len(c)
  OBVIOUS
<1>3. ASSUME NEW p \in 1 .. Len(w), w[p] \notin Scalars
      PROVE  \E b \in Nat, q \in 0 .. Len(w) : InBlock(w, p, q, b)
  <2>1. p \in 1 .. Len(c) /\ p \in 1 .. Len(c) - n
    BY <1>1, <1>2
  <2>2. c[p] \notin Scalars
    BY <2>1, <1>1, <1>3
  <2>b. PICK b \in Nat : \E q \in 0 .. Len(c) : InBlock(c, p, q, b)
    BY <2>1, <2>2 DEF Whole
  <2>q. PICK q \in 0 .. Len(c) : InBlock(c, p, q, b)
    BY <2>b
  <2>3. CellsOf(b) \in Nat
    BY CellCount
  <2>4. q < p /\ p <= q + CellsOf(b) /\ q + CellsOf(b) <= Len(c)
    BY <2>q DEF InBlock
  <2>5. q + CellsOf(b) <= Len(c) - n
    <3> SUFFICES ASSUME ~(q + CellsOf(b) <= Len(c) - n) PROVE FALSE
      BY <2>3, <2>4, <1>2
    <3>1. Len(c) - n + 1 - q \in 1 .. CellsOf(b) /\ Len(c) - n + 1 - q # 1 /\ n # 0
      BY <2>1, <2>3, <2>4, <1>2
    <3>j. PICK j \in 1 .. CellsOf(b) : j = Len(c) - n + 1 - q
      BY <3>1
    <3>2. j # 1 /\ q + j = Len(c) - n + 1 /\ j \in Nat
      BY <3>1, <3>j, <1>2
    <3>3. c[Len(c) - n + 1] = <<"block", b, j>>
      BY <3>2, <2>q DEF InBlock
    <3>4. \A e \in Nat : <<"block", b, j>> # <<"block", e, 1>>
      BY <3>2
    <3>5. <<"block", b, j>> \notin Scalars
      BY <3>2, NoScalar
    <3> QED BY <3>1, <3>3, <3>4, <3>5
  <2>6. \A j \in 1 .. CellsOf(b) : w[q + j] = <<"block", b, j>>
    <3> TAKE j \in 1 .. CellsOf(b)
    <3>1. q + j \in 1 .. Len(c) - n /\ c[q + j] = <<"block", b, j>>
      BY <2>3, <2>5, <2>q, <1>2 DEF InBlock
    <3> QED BY <3>1, <1>1
  <2>7. q \in 0 .. Len(w) /\ q + CellsOf(b) <= Len(w)
    BY <2>3, <2>5, <1>1, <1>2
  <2> QED BY <2>4, <2>6, <2>7 DEF InBlock
<1>4. Whole(w)
  BY <1>3 DEF Whole
<1> QED BY <1>4, <1>w

\* A scalar may take the place of another one.
LEMMA WholeUpdate ==
  ASSUME NEW c \in Seq(Cells), Whole(c), NEW i \in 1 .. Len(c), c[i] \in Scalars, NEW k \in Scalars
  PROVE  Whole([c EXCEPT ![i] = k])
<1>0. k \in Cells
  BY ScalarIsCell
<1>w. PICK w \in Seq(Cells) : w = [c EXCEPT ![i] = k]
  BY <1>0, ExceptSeq
<1>1. Len(w) = Len(c) /\ \A j \in 1 .. Len(c) : w[j] = IF j = i THEN k ELSE c[j]
  BY <1>0, <1>w, ExceptSeq
<1>2. Len(c) \in Nat
  OBVIOUS
<1>3. ASSUME NEW p \in 1 .. Len(w), w[p] \notin Scalars
      PROVE  \E b \in Nat, q \in 0 .. Len(w) : InBlock(w, p, q, b)
  <2>1. p \in 1 .. Len(c)
    BY <1>1
  <2>2. c[p] \notin Scalars
    BY <2>1, <1>1, <1>3
  <2>b. PICK b \in Nat : \E q \in 0 .. Len(c) : InBlock(c, p, q, b)
    BY <2>1, <2>2 DEF Whole
  <2>q. PICK q \in 0 .. Len(c) : InBlock(c, p, q, b)
    BY <2>b
  <2>3. CellsOf(b) \in Nat
    BY CellCount
  <2>4. q < p /\ p <= q + CellsOf(b) /\ q + CellsOf(b) <= Len(c)
    BY <2>q DEF InBlock
  <2>5. \A j \in 1 .. CellsOf(b) : w[q + j] = <<"block", b, j>>
    <3> TAKE j \in 1 .. CellsOf(b)
    <3>1. q + j \in 1 .. Len(c) /\ c[q + j] = <<"block", b, j>> /\ j \in Nat
      BY <2>3, <2>4, <2>q, <1>2 DEF InBlock
    <3>2. c[q + j] \notin Scalars
      BY <3>1, NoScalar
    <3>3. q + j # i
      BY <3>2
    <3> QED BY <3>1, <3>3, <1>1
  <2>6. q \in 0 .. Len(w) /\ q + CellsOf(b) <= Len(w)
    BY <2>4, <1>1
  <2> QED BY <2>4, <2>5, <2>6 DEF InBlock
<1>4. Whole(w)
  BY <1>3 DEF Whole
<1> QED BY <1>4, <1>w

-----------------------------------------------------------------------------
(* Programs and the tables of the transfers.                                *)

LEMMA ProgramFacts ==
  ASSUME program \in Programs
  PROVE  /\ Len(program) \in Nat \ {0} /\ Functions = 1 .. Len(program)
         /\ \A f \in Functions :
              /\ program[f].args \in Seq(Scalars) /\ program[f].results \in Seq(Scalars)
              /\ Code(f) \in Seq(Instruction) /\ DOMAIN Code(f) = 1 .. Len(Code(f))
              /\ 1 \in DOMAIN Code(f)
         /\ \A e \in DOMAIN Externs :
              Externs[e].args \in Seq(Scalars) /\ Externs[e].results \in Seq(Scalars)
<1> DEFINE F == [args: Seq(Scalars), results: Seq(Scalars), code: Seq(Instruction)]
<1>1. program \in Seq(F) /\ program # <<>> /\ \A f \in DOMAIN program : program[f].code # <<>>
  BY ProgramsAssumption
<1>2. Len(program) \in Nat \ {0} /\ Functions = 1 .. Len(program)
  BY <1>1, EmptySeq DEF Functions
<1>3. ASSUME NEW f \in Functions
      PROVE  /\ program[f].args \in Seq(Scalars) /\ program[f].results \in Seq(Scalars)
             /\ Code(f) \in Seq(Instruction) /\ Code(f) # <<>>
  <2>1. program[f] \in F
    BY <1>1, <1>2, ElementOfSeq
  <2> QED BY <2>1, <1>1 DEF Code, Functions
<1>4. ASSUME NEW f \in Functions PROVE DOMAIN Code(f) = 1 .. Len(Code(f)) /\ 1 \in DOMAIN Code(f)
  <2>c. PICK c \in Seq(Instruction) : c = Code(f)
    BY <1>3
  <2>1. c # <<>>
    BY <2>c, <1>3
  <2>2. Len(c) \in Nat \ {0} /\ DOMAIN c = 1 .. Len(c)
    BY <2>1, EmptySeq
  <2>3. 1 \in DOMAIN c
    BY <2>2
  <2> QED BY <2>2, <2>3, <2>c
<1>5. ASSUME NEW e \in DOMAIN Externs
      PROVE  Externs[e].args \in Seq(Scalars) /\ Externs[e].results \in Seq(Scalars)
  <2>1. Externs \in Seq(Signature) /\ DOMAIN Externs = 1 .. Len(Externs)
    BY ProgramsAssumption
  <2>2. Externs[e] \in Signature
    BY <2>1, ElementOfSeq
  <2> QED BY <2>2 DEF Signature
<1> QED BY <1>2, <1>3, <1>4, <1>5

\* An instruction whose structure has been checked names what there is.
Names(x) ==
  /\ x.op \in Calls => x.n \in Functions
  /\ x.op = "fcall" => x.n \in DOMAIN Externs

LEMMA StructuredNames ==
  ASSUME NEW f, NEW x, Structured(f, x) PROVE Names(x)
BY DEF Structured, Names

LEMMA ExactlyOf ==
  ASSUME NEW u \in Seq(Scalars)
  PROVE  /\ Exactly(u) \in Seq(SUBSET Scalars) /\ Len(Exactly(u)) = Len(u)
         /\ \A i \in 1 .. Len(u) : Exactly(u)[i] = {u[i]}
BY DEF Exactly

LEMMA TakesTyped ==
  ASSUME program \in Programs, NEW x \in Instruction, Names(x)
  PROVE  Takes(x).own \in Seq(SUBSET Scalars) /\ Takes(x).other \in Seq(SUBSET Scalars)
<1> DEFINE T == SUBSET Scalars
<1>1. <<>> \in Seq(T) /\ <<Scalars>> \in Seq(T) /\ <<{IntKind}>> \in Seq(T) /\ <<{AddrKind}>> \in Seq(T)
  BY DEF Scalars
<1>2. <<x.from>> \in Seq(T)
  BY DEF Instruction
<1>3. [i \in 1 .. x.n |-> Scalars] \in Seq(T)
  BY DEF Instruction
<1>4. x.op \in Calls => Exactly(program[x.n].args) \in Seq(T)
  BY ProgramFacts, ExactlyOf DEF Names
<1>5. x.op = "fcall" => Exactly(Externs[x.n].args) \in Seq(T)
  BY ProgramFacts, ExactlyOf DEF Names
<1> HIDE DEF T
<1> QED BY <1>1, <1>2, <1>3, <1>4, <1>5 DEF Takes, Calls, Tails, T

LEMMA FittingMeans ==
  ASSUME NEW u \in Seq(Scalars), NEW wanted \in Seq(SUBSET Scalars), Fitting(u, wanted)
  PROVE  /\ Len(wanted) \in 0 .. Len(u)
         /\ \A i \in 1 .. Len(wanted) : Topmost(u, Len(wanted))[i] \in wanted[i]
BY DEF Fitting

-----------------------------------------------------------------------------
(* Shapes, and what an accepted instruction makes of one.                   *)

Wf(sh) ==
  /\ sh \in [Stacks -> Seq(Cells)]
  /\ sh["A"] \in Seq(Scalars) /\ sh["B"] \in Seq(Scalars)
  /\ Whole(sh["C"])

LEMMA SeenOf == ASSUME NEW sh, Wf(sh) PROVE sh # Unseen
<1>1. "A" \in DOMAIN sh
  BY DEF Wf, Stacks
<1>2. "A" \notin DOMAIN Unseen
  BY DEF Unseen
<1> QED BY <1>1, <1>2

LEMMA OwnOther ==
  ASSUME NEW x \in Instruction
  PROVE  x.me \in {"A", "B"} /\ Other(x.me) \in {"A", "B"} /\ Other(x.me) # x.me
         /\ x.n \in Nat /\ x.m \in Nat /\ x.kind \in Scalars
BY DEF Instruction, Other

LEMMA Operands ==
  ASSUME NEW sh, Wf(sh), NEW s \in {"A", "B"}
  PROVE  sh[s] \in Seq(Scalars) /\ sh[s] \in Seq(Cells)
BY DEF Wf, Stacks

\* What an accepted instruction takes is there.
LEMMA TakesPresent ==
  ASSUME program \in Programs, NEW x \in Instruction, Names(x), NEW sh, Wf(sh), NEW f, Accepts(f, x, sh)
  PROVE  /\ Len(Takes(x).own) \in 0 .. Len(sh[x.me])
         /\ Len(Takes(x).other) \in 0 .. Len(sh[Other(x.me)])
BY OwnOther, Operands, TakesTyped, FittingMeans DEF Accepts

LEMMA OneTaken ==
  ASSUME NEW x, x.op \in {"dup", "copy", "move", "cset", "drop", "unary", "fstore", "coperand", "test",
                          "binary", "less", "eq", "beq", "indexed", "store"}
  PROVE  Len(Takes(x).own) = 1
BY DEF Takes

LEMMA PushedTaken ==
  ASSUME NEW x \in Instruction, x.op = "cpush"
  PROVE  Len(Takes(x).own) = x.n
<1>1. x.n \in Nat
  BY OwnOther
<1>2. Takes(x).own = [i \in 1 .. x.n |-> Scalars]
  BY DEF Takes
<1> QED BY <1>1, <1>2

LEMMA TopTyped ==
  ASSUME program \in Programs, NEW x \in Instruction, Names(x), NEW sh, Wf(sh), NEW f, Accepts(f, x, sh),
         Len(Takes(x).own) = 1
  PROVE  0 \in 0 .. Len(sh[x.me]) - 1 /\ At(sh[x.me], 0) \in Scalars
<1>1. sh[x.me] \in Seq(Scalars) /\ Len(sh[x.me]) \in Nat
  BY OwnOther, Operands
<1>2. 1 \in 0 .. Len(sh[x.me])
  BY TakesPresent
<1>3. 0 \in 0 .. Len(sh[x.me]) - 1
  BY <1>1, <1>2
<1> QED BY <1>1, <1>3, AtOf

LEMMA GivesTyped ==
  ASSUME program \in Programs, NEW x \in Instruction, Names(x), NEW sh, Wf(sh), NEW f, Accepts(f, x, sh)
  PROVE  Gives(x, sh) \in Seq(Scalars) /\ Moves(x, sh) \in Seq(Scalars)
<1>0. x.n \in Nat /\ x.m \in Nat /\ x.kind \in Scalars /\ IntKind \in Scalars
  BY OwnOther DEF Scalars
<1>1. x.op \in {"dup", "copy", "move"} => At(sh[x.me], 0) \in Scalars
  BY OneTaken, TopTyped
<1>2. CASE x.op \in {"push", "unary", "binary", "indexed", "fload", "coperand", "eq"}
  BY <1>2, <1>0 DEF Gives, Moves
<1>3. CASE x.op \in {"dup", "copy", "move"}
  BY <1>3, <1>1 DEF Gives, Moves
<1>4. CASE x.op = "cget"
  <2>1. \A i \in 1 .. x.m : At(sh["C"], x.n + i - 1) \in Scalars
    BY <1>4 DEF Accepts, Demands, Scalar
  <2> QED BY <1>4, <1>0, <2>1 DEF Gives, Moves
<1>5. CASE x.op \in {"call", "icall", "fcall"}
  BY <1>5, ProgramFacts DEF Gives, Moves, Names, Calls
<1>6. CASE x.op \notin {"push", "unary", "binary", "indexed", "fload", "coperand", "eq", "dup", "copy",
                        "move", "cget", "call", "icall", "fcall"}
  BY <1>6 DEF Gives, Moves
<1> QED BY <1>2, <1>3, <1>4, <1>5, <1>6

LEMMA ContextTyped ==
  ASSUME program \in Programs, NEW x \in Instruction, Names(x), NEW sh, Wf(sh), NEW f, Accepts(f, x, sh)
  PROVE  Context(x, sh) \in Seq(Cells) /\ Whole(Context(x, sh))
<1>c. PICK c \in Seq(Cells) : c = sh["C"] /\ Whole(c)
  BY DEF Wf, Stacks
<1>0. x.n \in Nat /\ Len(c) \in Nat
  BY OwnOther
<1>1. CASE x.op = "cpush"
  <2>1. sh[x.me] \in Seq(Scalars) /\ x.n \in 0 .. Len(sh[x.me])
    BY <1>1, OwnOther, Operands, TakesPresent, PushedTaken
  <2>2. Topmost(sh[x.me], x.n) \in Seq(Scalars)
    BY <2>1, TopmostOf
  <2>v. PICK v \in Seq(Scalars) : v = Reverse(Topmost(sh[x.me], x.n))
    BY <2>2, ReverseOf
  <2>3. v \in Seq(Cells) /\ \A i \in 1 .. Len(v) : v[i] \in Scalars
    BY ScalarIsCell, ElementOfSeq
  <2>4. Context(x, sh) = c \o v
    BY <1>1, <1>c, <2>v DEF Context
  <2> QED BY <1>c, <2>3, <2>4, WholeJoined, Joined
<1>2. CASE x.op = "cpop"
  <2>1. Scalar(c, 0)
    BY <1>2, <1>c DEF Accepts, Demands
  <2>2. 1 \in 0 .. Len(c) /\ c[Len(c) - 1 + 1] \in Scalars
    BY <2>1, <1>0 DEF Scalar, At
  <2>3. Context(x, sh) = Without(c, 1)
    BY <1>2, <1>c DEF Context
  <2> QED BY <1>c, <2>2, <2>3, WholeCut, WithoutOf
<1>3. CASE x.op = "cset"
  <2>1. Scalar(c, x.n)
    BY <1>3, <1>c DEF Accepts, Demands
  <2>2. Len(c) - x.n \in 1 .. Len(c) /\ c[Len(c) - x.n] \in Scalars
    BY <2>1, <1>0 DEF Scalar, At
  <2>k. PICK k \in Scalars : k = At(sh[x.me], 0)
    BY <1>3, OneTaken, TopTyped
  <2>3. k \in Cells
    BY ScalarIsCell
  <2>4. Context(x, sh) = [c EXCEPT ![Len(c) - x.n] = k]
    BY <1>3, <1>c, <2>k DEF Context
  <2> QED BY <1>c, <2>2, <2>3, <2>4, WholeUpdate, ExceptSeq
<1>4. CASE x.op = "alloc"
  <2>1. Context(x, sh) = c \o Block(x.n)
    BY <1>4, <1>c DEF Context
  <2>2. Block(x.n) \in Seq(Cells)
    BY <1>0, BlockOf
  <2> QED BY <1>c, <1>0, <2>1, <2>2, WholeBlock, Joined
<1>5. CASE x.op = "free"
  <2>n. PICK n \in Nat : n = CellsOf(x.n)
    BY <1>0, CellCount
  <2>1. Ends(c, Block(x.n)) /\ Len(Block(x.n)) = n
    BY <1>5, <1>c, <1>0, <2>n, BlockOf DEF Accepts, Demands
  <2>2. n \in 0 .. Len(c) /\ Topmost(c, n) = Block(x.n)
    BY <2>1, <1>0 DEF Ends
  <2>3. n = 0 \/ c[Len(c) - n + 1] = <<"block", x.n, 1>>
    <3>1. \A i \in 1 .. n : Topmost(c, n)[i] = c[Len(c) - n + i]
      BY <2>2, TopmostOf
    <3>2. \A i \in 1 .. n : Block(x.n)[i] = <<"block", x.n, i>>
      BY <1>0, <2>n, BlockOf
    <3>3. n = 0 \/ 1 \in 1 .. n
      OBVIOUS
    <3> QED BY <3>1, <3>2, <3>3, <2>2
  <2>4. Context(x, sh) = Without(c, n)
    BY <1>5, <1>c, <2>n DEF Context
  <2> QED BY <1>c, <1>0, <2>2, <2>3, <2>4, WholeCut, WithoutOf
<1>6. CASE x.op \notin {"cpush", "cpop", "cset", "alloc", "free"}
  <2>1. Context(x, sh) = c
    BY <1>6, <1>c DEF Context
  <2> QED BY <2>1, <1>c
<1> QED BY <1>1, <1>2, <1>3, <1>4, <1>5, <1>6

LEMMA AfterTyped ==
  ASSUME program \in Programs, NEW x \in Instruction, Names(x), NEW sh, Wf(sh), NEW f, Accepts(f, x, sh)
  PROVE  Wf(After(x, sh))
<1>1. /\ After(x, sh)["C"] = Context(x, sh)
      /\ After(x, sh)[x.me] = Without(sh[x.me], Len(Takes(x).own)) \o Gives(x, sh)
      /\ After(x, sh)[Other(x.me)] = Without(sh[Other(x.me)], Len(Takes(x).other)) \o Moves(x, sh)
  BY OwnOther DEF After, Stacks
<1>2. Without(sh[x.me], Len(Takes(x).own)) \o Gives(x, sh) \in Seq(Scalars)
  BY OwnOther, Operands, TakesPresent, GivesTyped, WithoutOf, Joined
<1>3. Without(sh[Other(x.me)], Len(Takes(x).other)) \o Moves(x, sh) \in Seq(Scalars)
  BY OwnOther, Operands, TakesPresent, GivesTyped, WithoutOf, Joined
<1>4. After(x, sh)["A"] \in Seq(Scalars) /\ After(x, sh)["B"] \in Seq(Scalars)
  BY <1>1, <1>2, <1>3, OwnOther
<1>5. After(x, sh)["C"] \in Seq(Cells) /\ Whole(After(x, sh)["C"])
  BY <1>1, ContextTyped
<1>6. \A s \in Stacks : After(x, sh)[s] \in Seq(Cells)
  BY <1>4, <1>5, ScalarIsCell DEF Stacks
<1>7. After(x, sh) = [s \in Stacks |-> After(x, sh)[s]]
  BY DEF After
<1> QED BY <1>4, <1>5, <1>6, <1>7 DEF Wf

-----------------------------------------------------------------------------
(* The invariant of the worklist.                                           *)

Seen(f, i) == shape[f][i] # Unseen

Checked(f, i) ==
  /\ Accepts(f, Code(f)[i], shape[f][i])
  /\ \A j \in Successors(Code(f)[i], i) :
       j \in DOMAIN Code(f) /\ shape[f][j] = After(Code(f)[i], shape[f][i])

VTypes ==
  /\ program \in Programs
  /\ current \in Functions
  /\ DOMAIN shape = Functions
  /\ \A f \in Functions : DOMAIN shape[f] = DOMAIN Code(f)
  /\ \A f \in Functions : \A i \in DOMAIN Code(f) : Seen(f, i) => Wf(shape[f][i])
  /\ DOMAIN max = Functions
  /\ \A f \in Functions : max[f] \in [Stacks -> Nat]

VStructured ==
  verdict \in {"shapes", "accepted"} => \A f \in Functions : \A i \in DOMAIN Code(f) : Structured(f, Code(f)[i])

VEntries ==
  \A f \in Functions : /\ shape[f][1] = EntryShape(f)
                       /\ f > current => \A i \in DOMAIN Code(f) : Seen(f, i) => i = 1

VWaiting ==
  /\ pending \subseteq DOMAIN Code(current)
  /\ \A i \in pending : Seen(current, i)
  /\ verdict = "accepted" => pending = {} /\ current = Len(program)

VChecked ==
  \A f \in Functions : \A i \in DOMAIN Code(f) :
    f <= current /\ Seen(f, i) /\ ~(f = current /\ i \in pending) => Checked(f, i)

VDeep ==
  \A f \in Functions : \A i \in DOMAIN Code(f) :
    Seen(f, i) => \A s \in Stacks : Len(shape[f][i][s]) <= max[f][s]

VInv == VTypes /\ VStructured /\ VEntries /\ VWaiting /\ VChecked /\ VDeep

LEMMA SameProgram ==
  ASSUME program' = program
  PROVE  /\ Functions' = Functions
         /\ \A f : Code(f)' = Code(f) /\ EntryShape(f)' = EntryShape(f)
         /\ \A f, x : Structured(f, x)' <=> Structured(f, x)
         /\ \A f, x, sh : (Accepts(f, x, sh)' <=> Accepts(f, x, sh)) /\ After(x, sh)' = After(x, sh)
<1>1. Functions' = Functions
  BY DEF Functions
<1>2. \A f : Code(f)' = Code(f) /\ EntryShape(f)' = EntryShape(f) /\ (HasHalt(f)' <=> HasHalt(f))
  BY DEF Code, EntryShape, Arguments, HasHalt
<1>3. \A x : Takes(x)' = Takes(x)
  BY DEF Takes
<1>4. \A f, x : Structured(f, x)' <=> Structured(f, x)
  BY <1>1, <1>2 DEF Structured
<1>5. \A x, sh : (Replaces(x, sh)' <=> Replaces(x, sh)) /\ Gives(x, sh)' = Gives(x, sh)
  BY <1>3 DEF Replaces, Gives
<1>6. \A f, x, sh : (Returnable(f, x, sh)' <=> Returnable(f, x, sh))
  BY DEF Returnable
<1>7. \A f, x, sh : Demands(f, x, sh)' <=> Demands(f, x, sh)
  BY <1>5, <1>6 DEF Demands
<1>8. \A f, x, sh : Accepts(f, x, sh)' <=> Accepts(f, x, sh)
  BY <1>3, <1>7 DEF Accepts
<1>9. \A x, sh : After(x, sh)' = After(x, sh)
  BY <1>3, <1>5 DEF After
<1> QED BY <1>1, <1>2, <1>4, <1>8, <1>9

LEMMA EntryTyped ==
  ASSUME program \in Programs, NEW f \in Functions
  PROVE  Wf(EntryShape(f)) /\ \A s \in Stacks : Len(EntryShape(f)[s]) = NoDepth(f)[s]
<1>a. PICK a \in Seq(Scalars) : a = Arguments(f)
  BY ProgramFacts, ReverseOf DEF Arguments
<1>1. Len(a) = Len(program[f].args)
  BY <1>a, ProgramFacts, ReverseOf DEF Arguments
<1>2. a \in Seq(Cells) /\ Whole(a)
  <2>1. \A i \in 1 .. Len(a) : a[i] \in Scalars
    BY ElementOfSeq
  <2> QED BY <2>1, ScalarIsCell DEF Whole
<1>3. /\ EntryShape(f)["A"] = <<>> /\ EntryShape(f)["B"] = <<>> /\ EntryShape(f)["C"] = a
      /\ EntryShape(f) = [s \in Stacks |-> EntryShape(f)[s]]
  BY <1>a DEF EntryShape, Stacks
<1>4. <<>> \in Seq(Cells) /\ <<>> \in Seq(Scalars)
  OBVIOUS
<1>5. \A s \in Stacks : EntryShape(f)[s] \in Seq(Cells)
  BY <1>2, <1>3, <1>4 DEF Stacks
<1>6. Wf(EntryShape(f))
  BY <1>2, <1>3, <1>4, <1>5 DEF Wf
<1>7. \A s \in Stacks : Len(EntryShape(f)[s]) = NoDepth(f)[s]
  BY <1>1, <1>3, EmptySeq DEF NoDepth, Stacks
<1> QED BY <1>6, <1>7

LEMMA VInvInit == VerifierInit => VInv
<1> SUFFICES ASSUME VerifierInit PROVE VInv
  OBVIOUS
<1>0. program \in Programs /\ current = 1 /\ verdict = "structure" /\ pending = {1}
  BY DEF VerifierInit
<1>1. /\ DOMAIN shape = Functions
      /\ \A f \in Functions : /\ DOMAIN shape[f] = DOMAIN Code(f)
                              /\ shape[f][1] = EntryShape(f)
                              /\ \A i \in DOMAIN Code(f) : Seen(f, i) => i = 1
  BY <1>0, ProgramFacts DEF VerifierInit, Entered, Seen
<1>2. /\ DOMAIN max = Functions
      /\ \A f \in Functions : max[f] = NoDepth(f) /\ max[f] \in [Stacks -> Nat]
  <2>1. \A f \in Functions : NoDepth(f) \in [Stacks -> Nat]
    BY <1>0, ProgramFacts DEF NoDepth
  <2> QED BY <2>1 DEF VerifierInit
<1>3. VTypes
  BY <1>0, <1>1, <1>2, EntryTyped, ProgramFacts DEF VTypes
<1>4. VDeep
  <2> SUFFICES ASSUME NEW f \in Functions, NEW i \in DOMAIN Code(f), Seen(f, i), NEW s \in Stacks
               PROVE  Len(shape[f][i][s]) <= max[f][s]
    BY DEF VDeep
  <2>1. Len(shape[f][i][s]) = max[f][s] /\ max[f][s] \in Nat
    BY <1>0, <1>1, <1>2, EntryTyped
  <2> QED BY <2>1
<1>5. \A f \in Functions : f <= current => f = current
  BY <1>0, ProgramFacts
<1>6. VEntries /\ VStructured
  BY <1>0, <1>1 DEF VEntries, VStructured
<1>7. VWaiting
  BY <1>0, <1>1, EntryTyped, SeenOf, ProgramFacts DEF VWaiting, Seen
<1>8. VChecked
  BY <1>0, <1>1, <1>5 DEF VChecked
<1> QED BY <1>3, <1>4, <1>6, <1>7, <1>8 DEF VInv

LEMMA VInvSame ==
  ASSUME VInv, UNCHANGED <<program, current, shape, pending, max>>,
         verdict' \in {"shapes", "accepted"} => VStructured /\ verdict \in {"shapes", "accepted"},
         verdict' = "accepted" => verdict = "accepted"
  PROVE  VInv'
<1>0. program' = program /\ current' = current /\ shape' = shape /\ pending' = pending /\ max' = max
  OBVIOUS
<1>1. VTypes'
  BY <1>0, SameProgram DEF VInv, VTypes, Seen
<1>2. VStructured'
  BY <1>0, SameProgram DEF VInv, VStructured
<1>3. VEntries'
  BY <1>0, SameProgram DEF VInv, VEntries, Seen
<1>4. VWaiting'
  BY <1>0, SameProgram DEF VInv, VWaiting, Seen
<1>5. VChecked'
  BY <1>0, SameProgram DEF VInv, VChecked, Seen, Checked
<1>6. VDeep'
  BY <1>0, SameProgram DEF VInv, VDeep, Seen
<1> QED BY <1>1, <1>2, <1>3, <1>4, <1>5, <1>6 DEF VInv

LEMMA StructureKeeps == VInv /\ CheckStructure => VInv'
<1> SUFFICES ASSUME VInv, CheckStructure PROVE VInv'
  OBVIOUS
<1>0. /\ program' = program /\ current' = current /\ shape' = shape /\ pending' = pending /\ max' = max
      /\ verdict' # "accepted"
      /\ verdict' = "shapes" => \A f \in Functions : \A i \in DOMAIN Code(f) : Structured(f, Code(f)[i])
  BY DEF CheckStructure
<1>1. VTypes'
  BY <1>0, SameProgram DEF VInv, VTypes, Seen
<1>2. VStructured'
  BY <1>0, SameProgram DEF VStructured
<1>3. VEntries'
  BY <1>0, SameProgram DEF VInv, VEntries, Seen
<1>4. VWaiting'
  BY <1>0, SameProgram DEF VInv, VWaiting, Seen
<1>5. VChecked'
  BY <1>0, SameProgram DEF VInv, VChecked, Seen, Checked
<1>6. VDeep'
  BY <1>0, SameProgram DEF VInv, VDeep, Seen
<1> QED BY <1>1, <1>2, <1>3, <1>4, <1>5, <1>6 DEF VInv

LEMMA NextFunctionKeeps == VInv /\ NextFunction => VInv'
<1> SUFFICES ASSUME VInv, NextFunction PROVE VInv'
  OBVIOUS
<1>0. /\ program' = program /\ shape' = shape /\ max' = max
      /\ verdict = "shapes" /\ pending = {}
  BY DEF NextFunction
<1>p. program \in Programs /\ current \in Functions
  BY DEF VInv, VTypes
<1>1. CASE NoneLeft(current)
  <2>1. verdict' = "accepted" /\ current' = current /\ pending' = pending /\ current = Len(program)
    BY <1>1 DEF NextFunction, NoneLeft
  <2>2. VTypes'
    BY <1>0, <2>1, SameProgram DEF VInv, VTypes, Seen
  <2>3. VStructured'
    BY <1>0, SameProgram DEF VInv, VStructured
  <2>4. VEntries'
    BY <1>0, <2>1, SameProgram DEF VInv, VEntries, Seen
  <2>5. VWaiting'
    BY <1>0, <2>1, SameProgram DEF VInv, VWaiting, Seen
  <2>6. VChecked'
    BY <1>0, <2>1, SameProgram DEF VInv, VChecked, Seen, Checked
  <2>7. VDeep'
    BY <1>0, SameProgram DEF VInv, VDeep, Seen
  <2> QED BY <2>2, <2>3, <2>4, <2>5, <2>6, <2>7 DEF VInv
<1>2. CASE ~NoneLeft(current)
  <2>1. verdict' = "shapes" /\ current' = current + 1 /\ pending' = {1}
    BY <1>0, <1>2 DEF NextFunction
  <2>2. current' \in Functions /\ \A f \in Functions : f <= current' => f <= current \/ f = current'
    BY <1>p, <1>2, <2>1, ProgramFacts DEF NoneLeft
  <2>3. VTypes'
    BY <1>0, <2>2, SameProgram DEF VInv, VTypes, Seen
  <2>4. VStructured'
    BY <1>0, SameProgram DEF VInv, VStructured
  <2>5. VEntries'
    <3>1. \A f \in Functions : f > current' => f > current
      BY <1>p, <2>1, ProgramFacts
    <3> QED BY <1>0, <3>1, SameProgram DEF VInv, VEntries, Seen
  <2>6. VWaiting'
    <3>1. 1 \in DOMAIN Code(current') /\ shape[current'][1] = EntryShape(current') /\ EntryShape(current') # Unseen
      BY <1>p, <2>2, ProgramFacts, EntryTyped, SeenOf DEF VInv, VEntries
    <3> QED BY <1>0, <2>1, <3>1, SameProgram DEF VWaiting, Seen
  <2>7. VChecked'
    <3> SUFFICES ASSUME NEW f \in Functions, NEW i \in DOMAIN Code(f), f <= current', Seen(f, i),
                        ~(f = current' /\ i \in pending')
                 PROVE  Checked(f, i)
      BY <1>0, SameProgram DEF VChecked, Seen, Checked
    <3>1. CASE f <= current
      BY <1>0, <3>1 DEF VInv, VChecked
    <3>2. CASE f = current'
      <4>1. f > current
        BY <3>2, <2>1, <1>p, ProgramFacts
      <4>2. i = 1
        BY <4>1 DEF VInv, VEntries
      <4> QED BY <4>2, <3>2, <2>1
    <3> QED BY <3>1, <3>2, <2>2
  <2>8. VDeep'
    BY <1>0, SameProgram DEF VInv, VDeep, Seen
  <2> QED BY <2>3, <2>4, <2>5, <2>6, <2>7, <2>8 DEF VInv
<1> QED BY <1>1, <1>2

LEMMA DeeperOf ==
  ASSUME NEW m \in [Stacks -> Nat], NEW sh \in [Stacks -> Seq(Cells)]
  PROVE  /\ Deeper(m, sh) \in [Stacks -> Nat]
         /\ \A s \in Stacks : m[s] <= Deeper(m, sh)[s] /\ Len(sh[s]) <= Deeper(m, sh)[s]
BY DEF Deeper

\* An instruction that is checked once stays so, because a join changes nothing
\* that has been seen.
LEMMA CheckKeeps == VInv /\ CheckInstruction => VInv'
<1> SUFFICES ASSUME VInv, CheckInstruction PROVE VInv'
  OBVIOUS
<1>0. program' = program /\ current' = current /\ verdict = "shapes"
  BY DEF CheckInstruction
<1>i. PICK i \in pending :
        LET x    == Code(current)[i]
            row  == shape[current]
            next == After(x, row[i])
            to   == Successors(x, i)
        IN  IF /\ Accepts(current, x, row[i])
               /\ \A j \in to : j \in DOMAIN row /\ Joins(row[j], next)
              THEN /\ max' = [max EXCEPT ![current] = Deeper(@, next)]
                   /\ shape' = [shape EXCEPT ![current] =
                        [j \in DOMAIN row |-> IF j \in to THEN next ELSE row[j]]]
                   /\ pending' = Others(pending, i) \cup {j \in to : row[j] = Unseen}
                   /\ UNCHANGED verdict
              ELSE verdict' = "rejected" /\ UNCHANGED <<shape, pending, max>>
  BY DEF CheckInstruction
<1> DEFINE x    == Code(current)[i]
           row  == shape[current]
           next == After(x, row[i])
           to   == Successors(x, i)
           ok   == /\ Accepts(current, x, row[i])
                   /\ \A j \in to : j \in DOMAIN row /\ Joins(row[j], next)
<1>p. program \in Programs /\ current \in Functions /\ DOMAIN row = DOMAIN Code(current) /\ DOMAIN shape = Functions
  BY DEF VInv, VTypes
<1>1. CASE ~ok
  <2>1. verdict' = "rejected" /\ UNCHANGED <<shape, pending, max>>
    BY <1>1, <1>i
  <2> QED BY <1>0, <2>1, VInvSame
<1>2. CASE ok
  <2>0. /\ max' = [max EXCEPT ![current] = Deeper(@, next)]
        /\ shape' = [shape EXCEPT ![current] = [j \in DOMAIN row |-> IF j \in to THEN next ELSE row[j]]]
        /\ pending' = (pending \ {i}) \cup {j \in to : row[j] = Unseen}
        /\ verdict' = verdict
    BY <1>2, <1>i DEF Others
  <2>1. i \in DOMAIN Code(current) /\ row[i] # Unseen /\ Wf(row[i])
    BY DEF VInv, VTypes, VWaiting, Seen
  <2>2. \A f \in Functions : \A k \in DOMAIN Code(f) : Structured(f, Code(f)[k])
    BY <1>0 DEF VInv, VStructured
  <2>3. \A f \in Functions : \A k \in DOMAIN Code(f) : Code(f)[k] \in Instruction /\ Names(Code(f)[k])
    BY <1>p, <2>2, ProgramFacts, ElementOfSeq, StructuredNames
  <2>4. Wf(next)
    BY <1>2, <1>p, <2>1, <2>3, AfterTyped
  <2>5. next # Unseen
    BY <2>4, SeenOf
  <2> HIDE DEF next, to, ok, x
  <2>6. /\ DOMAIN shape' = Functions
        /\ \A f \in Functions : f # current => shape'[f] = shape[f]
        /\ DOMAIN shape'[current] = DOMAIN Code(current)
        /\ \A j \in DOMAIN Code(current) : shape'[current][j] = IF j \in to THEN next ELSE row[j]
    BY <1>p, <2>0
  <2>7. \A j \in to : j \in DOMAIN Code(current) /\ row[j] \in {Unseen, next}
    BY <1>2, <1>p DEF ok, Joins
  <2>8. \A j \in DOMAIN Code(current) : row[j] # Unseen => shape'[current][j] = row[j]
    BY <2>6, <2>7
  <2>9. \A f \in Functions : \A j \in DOMAIN Code(f) : shape[f][j] # Unseen => shape'[f][j] = shape[f][j]
    BY <2>6, <2>8
  <2>10. /\ DOMAIN max' = Functions
         /\ max'[current] \in [Stacks -> Nat]
         /\ \A f \in Functions : f # current => max'[f] = max[f]
         /\ \A s \in Stacks : max[current][s] <= max'[current][s] /\ Len(next[s]) <= max'[current][s]
    <3>1. next \in [Stacks -> Seq(Cells)] /\ max[current] \in [Stacks -> Nat] /\ DOMAIN max = Functions
      BY <2>4, <1>p DEF Wf, VInv, VTypes
    <3>2. max'[current] = Deeper(max[current], next) /\ DOMAIN max' = Functions
          /\ \A f \in Functions : f # current => max'[f] = max[f]
      BY <2>0, <3>1, <1>p
    <3> QED BY <3>1, <3>2, DeeperOf
  <2>11. VTypes'
    <3>1. \A f \in Functions : DOMAIN shape'[f] = DOMAIN Code(f)
      BY <2>6 DEF VInv, VTypes
    <3>2. \A f \in Functions : \A j \in DOMAIN Code(f) : shape'[f][j] # Unseen => Wf(shape'[f][j])
      BY <2>4, <2>6 DEF VInv, VTypes, Seen
    <3>3. \A f \in Functions : max'[f] \in [Stacks -> Nat]
      BY <2>10 DEF VInv, VTypes
    <3> QED BY <1>0, <1>p, <2>6, <2>10, <3>1, <3>2, <3>3, SameProgram DEF VTypes, Seen
  <2>12. VStructured'
    BY <1>0, <2>2, SameProgram DEF VStructured
  <2>13. VEntries'
    <3>1. \A f \in Functions : shape'[f][1] = EntryShape(f)
      <4> TAKE f \in Functions
      <4>1. shape[f][1] = EntryShape(f) /\ 1 \in DOMAIN Code(f) /\ EntryShape(f) # Unseen
        BY <1>p, ProgramFacts, EntryTyped, SeenOf DEF VInv, VEntries
      <4> QED BY <4>1, <2>9
    <3>2. \A f \in Functions : f > current => f # current
      BY <1>p, ProgramFacts
    <3>3. \A f \in Functions : f > current => \A j \in DOMAIN Code(f) : shape'[f][j] # Unseen => j = 1
      BY <3>2, <2>6 DEF VInv, VEntries, Seen
    <3> QED BY <1>0, <3>1, <3>3, SameProgram DEF VEntries, Seen
  <2>14. VWaiting'
    <3>1. pending' \subseteq DOMAIN Code(current)
      BY <2>0, <2>7 DEF VInv, VWaiting
    <3>2. \A j \in pending' : shape'[current][j] # Unseen
      <4>1. \A j \in pending : shape'[current][j] # Unseen
        BY <2>8 DEF VInv, VWaiting, Seen
      <4>2. \A j \in to : shape'[current][j] # Unseen
        BY <2>5, <2>6, <2>7
      <4> QED BY <4>1, <4>2, <2>0
    <3> QED BY <1>0, <2>0, <3>1, <3>2, SameProgram DEF VWaiting, Seen
  <2>15. VChecked'
    <3> SUFFICES ASSUME NEW f \in Functions, NEW k \in DOMAIN Code(f), f <= current, shape'[f][k] # Unseen,
                        ~(f = current /\ k \in pending')
                 PROVE  /\ Accepts(f, Code(f)[k], shape'[f][k])
                        /\ \A j \in Successors(Code(f)[k], k) :
                             j \in DOMAIN Code(f) /\ shape'[f][j] = After(Code(f)[k], shape'[f][k])
      BY <1>0, SameProgram DEF VChecked, Seen, Checked
    <3>1. CASE f = current /\ k = i
      <4>1. Accepts(current, x, row[i]) /\ shape'[current][i] = row[i]
        BY <1>2, <2>1, <2>8 DEF ok
      <4>2. \A j \in to : shape'[current][j] = next
        BY <2>6, <2>7
      <4> QED BY <3>1, <4>1, <4>2, <2>7 DEF x, to, next
    <3>2. CASE ~(f = current /\ k = i)
      <4>1. shape[f][k] # Unseen /\ ~(f = current /\ k \in pending)
        <5>1. CASE f = current
          BY <5>1, <3>2, <2>0, <2>6
        <5>2. CASE f # current
          BY <5>2, <2>6
        <5> QED BY <5>1, <5>2
      <4>2. Checked(f, k)
        BY <4>1 DEF VInv, VChecked, Seen
      <4>3. Wf(shape[f][k])
        BY <4>1 DEF VInv, VTypes, Seen
      <4>4. After(Code(f)[k], shape[f][k]) # Unseen
        BY <1>p, <2>3, <4>2, <4>3, AfterTyped, SeenOf DEF Checked
      <4>5. shape'[f][k] = shape[f][k]
        BY <4>1, <2>9
      <4>6. \A j \in Successors(Code(f)[k], k) : j \in DOMAIN Code(f) /\ shape[f][j] = After(Code(f)[k], shape[f][k])
        BY <4>2 DEF Checked
      <4>7. \A j \in Successors(Code(f)[k], k) : shape'[f][j] = shape[f][j]
        BY <4>4, <4>6, <2>9
      <4>8. Accepts(f, Code(f)[k], shape[f][k])
        BY <4>2 DEF Checked
      <4> QED BY <4>5, <4>6, <4>7, <4>8
    <3> QED BY <3>1, <3>2
  <2>16. VDeep'
    <3> SUFFICES ASSUME NEW f \in Functions, NEW k \in DOMAIN Code(f), shape'[f][k] # Unseen, NEW s \in Stacks
                 PROVE  Len(shape'[f][k][s]) <= max'[f][s]
      BY <1>0, SameProgram DEF VDeep, Seen
    <3>1. CASE f # current
      BY <3>1, <2>6, <2>10 DEF VInv, VDeep, Seen
    <3>2. CASE f = current /\ k \in to
      BY <3>2, <2>6, <2>10
    <3>3. CASE f = current /\ k \notin to
      <4>1. shape'[current][k] = row[k] /\ row[k] # Unseen /\ k \in DOMAIN Code(current)
        BY <3>3, <2>6
      <4>2. row[k][s] \in Seq(Cells) /\ Len(row[k][s]) <= max[current][s]
        BY <4>1, <1>p DEF VInv, VTypes, VDeep, Seen, Wf
      <4>3. max[current][s] \in Nat /\ max'[current][s] \in Nat /\ max[current][s] <= max'[current][s]
        BY <1>p, <2>10 DEF VInv, VTypes
      <4>4. Len(row[k][s]) \in Nat
        BY <4>2
      <4> QED BY <3>3, <4>1, <4>2, <4>3, <4>4
    <3> QED BY <3>1, <3>2, <3>3
  <2> QED BY <2>11, <2>12, <2>13, <2>14, <2>15, <2>16 DEF VInv
<1> QED BY <1>1, <1>2

LEMMA VInvKept == VInv /\ (Verify \/ UNCHANGED verifierVars) => VInv'
<1>1. VInv /\ UNCHANGED verifierVars => VInv'
  BY VInvSame DEF verifierVars, VInv
<1> QED BY <1>1, StructureKeeps, CheckKeeps, NextFunctionKeeps DEF Verify

\* What an accepted program keeps: every instruction that can be reached is
\* accepted with the one shape inferred for it, and leaves to its successors the
\* shapes inferred for them, none of them deeper than declared.
Consistent ==
  \A f \in Functions : \A i \in DOMAIN Code(f) : Seen(f, i) =>
    /\ Wf(shape[f][i]) /\ Names(Code(f)[i]) /\ Structured(f, Code(f)[i]) /\ Checked(f, i)
    /\ \A s \in Stacks : Len(shape[f][i][s]) <= max[f][s]

LEMMA AcceptedConsistent == VInv /\ verdict = "accepted" => Consistent
<1> SUFFICES ASSUME VInv, verdict = "accepted", NEW f \in Functions, NEW i \in DOMAIN Code(f), Seen(f, i)
             PROVE  /\ Wf(shape[f][i]) /\ Names(Code(f)[i]) /\ Structured(f, Code(f)[i]) /\ Checked(f, i)
                    /\ \A s \in Stacks : Len(shape[f][i][s]) <= max[f][s]
  BY DEF Consistent
<1>1. f <= current /\ pending = {}
  BY ProgramFacts DEF VInv, VTypes, VWaiting
<1>2. Checked(f, i)
  BY <1>1 DEF VInv, VChecked
<1>3. Structured(f, Code(f)[i])
  BY DEF VInv, VStructured
<1>4. Wf(shape[f][i]) /\ \A s \in Stacks : Len(shape[f][i][s]) <= max[f][s]
  BY DEF VInv, VTypes, VDeep
<1> QED BY <1>2, <1>3, <1>4, StructuredNames

-----------------------------------------------------------------------------
(* More of sequences with their top at the end.                             *)

LEMMA WithoutAll ==
  ASSUME NEW S, NEW u \in Seq(S)
  PROVE  Without(u, 0) = u /\ Without(u, Len(u)) = <<>> /\ Topmost(u, Len(u)) = u
<1>0. Len(u) \in Nat /\ 0 \in 0 .. Len(u) /\ Len(u) \in 0 .. Len(u) /\ Len(u) - 0 = Len(u) /\ Len(u) - Len(u) = 0
  OBVIOUS
<1>1. Without(u, 0) = u
  <2>w. PICK w \in Seq(S) : w = Without(u, 0)
    BY <1>0, WithoutOf
  <2>1. Len(w) = Len(u) /\ \A i \in 1 .. Len(u) : w[i] = u[i]
    BY <1>0, <2>w, WithoutOf
  <2> QED BY <2>1, <2>w, SeqEqual
<1>2. Without(u, Len(u)) = <<>>
  <2>1. Without(u, Len(u)) \in Seq(S) /\ Len(Without(u, Len(u))) = 0
    BY <1>0, WithoutOf
  <2> QED BY <2>1, EmptySeq
<1>3. Topmost(u, Len(u)) = u
  <2>w. PICK w \in Seq(S) : w = Topmost(u, Len(u))
    BY <1>0, TopmostOf
  <2>1. Len(w) = Len(u) /\ \A i \in 1 .. Len(u) : w[i] = u[Len(u) - Len(u) + i]
    BY <1>0, <2>w, TopmostOf
  <2>2. \A i \in 1 .. Len(u) : w[i] = u[i]
    BY <1>0, <2>1
  <2> QED BY <2>1, <2>2, <2>w, SeqEqual
<1> QED BY <1>1, <1>2, <1>3

LEMMA TopOff ==
  ASSUME NEW S, NEW u \in Seq(S), Len(u) >= 1
  PROVE  u = Without(u, 1) \o <<At(u, 0)>> /\ At(u, 0) \in S /\ Topmost(u, 1)[1] = At(u, 0)
<1>0. Len(u) \in Nat /\ 1 \in 0 .. Len(u) /\ Len(u) \in 1 .. Len(u) /\ 0 \in 0 .. Len(u) - 1
  OBVIOUS
<1>a. PICK a \in S : a = At(u, 0) /\ a = u[Len(u)]
  BY <1>0, ElementOfSeq DEF At
<1>w. PICK w \in Seq(S) : w = Without(u, 1)
  BY <1>0, WithoutOf
<1>1. Len(w) = Len(u) - 1 /\ \A i \in 1 .. Len(u) - 1 : w[i] = u[i]
  BY <1>0, <1>w, WithoutOf
<1>v. PICK v \in Seq(S) : v = <<a>>
  <2>1. <<a>> \in Seq(S)
    OBVIOUS
  <2> QED BY <2>1
<1>2. Len(v) = 1 /\ v[1] = a
  BY <1>v
<1>3. Len(u) = Len(w) + Len(v)
  BY <1>0, <1>1, <1>2
<1>4. \A i \in 1 .. Len(w) : u[i] = w[i]
  BY <1>1
<1>5. \A i \in 1 .. Len(v) : u[Len(w) + i] = v[i]
  BY <1>0, <1>1, <1>2, <1>a
<1>6. u = w \o v
  BY <1>3, <1>4, <1>5, JoinedEqual
<1>7. Topmost(u, 1)[1] = u[Len(u) - 1 + 1]
  BY <1>0, TopmostOf
<1>8. Topmost(u, 1)[1] = a
  BY <1>0, <1>7, <1>a
<1> QED BY <1>6, <1>8, <1>a, <1>w, <1>v

LEMMA Associated ==
  ASSUME NEW S, NEW u \in Seq(S), NEW v \in Seq(S), NEW w \in Seq(S)
  PROVE  (u \o v) \o w = u \o (v \o w)
BY ConcatAssociative

LEMMA Widened ==
  ASSUME NEW S, NEW T, S \subseteq T
  PROVE  Seq(S) \subseteq Seq(T)
BY SeqMonotonic

LEMMA OperandsOnTop ==
  \A u, v \in Seq(Scalars) : \A n \in 0 .. Len(v) : Without(u \o v, n) = u \o Without(v, n)
BY OnTop

LEMMA OperandsAssociated ==
  \A u, v, w \in Seq(Scalars) : (u \o v) \o w = u \o (v \o w)
BY Associated

-----------------------------------------------------------------------------
(* What an activation stands on, and what it has on top of that.            *)

Content == Cells \cup {Marker}

Floor(u) ==
  /\ u \in [Stacks -> Seq(Content)]
  /\ u["A"] \in Seq(Scalars) /\ u["B"] \in Seq(Scalars)
  /\ u["C"] # <<>> /\ At(u["C"], 0) = Marker

Stands(st, u, sh) == \A s \in Stacks : st[s] = u[s] \o sh[s]

LEMMA OperandFloor ==
  ASSUME NEW u, Floor(u), NEW s \in {"A", "B"}
  PROVE  u[s] \in Seq(Scalars)
BY DEF Floor

LEMMA ContextFloor ==
  ASSUME NEW u, Floor(u)
  PROVE  u["C"] \in Seq(Content) /\ Len(u["C"]) \in Nat \ {0}
<1>1. u["C"] \in Seq(Content) /\ u["C"] # <<>>
  BY DEF Floor, Stacks
<1> QED BY <1>1, EmptySeq

LEMMA CellsInContent == Cells \subseteq Content /\ Seq(Cells) \subseteq Seq(Content) /\ Seq(Scalars) \subseteq Seq(Content)
<1>1. Cells \subseteq Content /\ Scalars \subseteq Content
  BY ScalarIsCell DEF Content
<1> QED BY <1>1, Widened

LEMMA ContextShape ==
  ASSUME NEW sh, Wf(sh)
  PROVE  sh["C"] \in Seq(Cells) /\ sh["C"] \in Seq(Content) /\ Len(sh["C"]) \in Nat
<1>1. sh["C"] \in Seq(Cells)
  BY DEF Wf, Stacks
<1> QED BY <1>1, CellsInContent

LEMMA ContextOnTop ==
  \A u, v \in Seq(Content) : \A n \in 0 .. Len(v) : Without(u \o v, n) = u \o Without(v, n)
BY OnTop

LEMMA ContextAssociated ==
  \A u, v, w \in Seq(Content) : (u \o v) \o w = u \o (v \o w)
BY Associated

-----------------------------------------------------------------------------
(* The handlers do above the floor what the verifier's transfers say.       *)

\* What a handler looks at is what the verifier has it take.
LEMMA ReadsTakes ==
  ASSUME program \in Programs, NEW x \in Instruction, Names(x), x.op # "ret"
  PROVE  Reads(x).own = Len(Takes(x).own) /\ Reads(x).other = Len(Takes(x).other)
<1>1. CASE x.op \in {"dup", "copy", "move", "drop", "cset", "unary", "coperand", "fstore", "test"}
  BY <1>1 DEF Reads, Takes
<1>2. CASE x.op \in {"binary", "eq", "indexed", "store", "less", "beq"}
  BY <1>2 DEF Reads, Takes
<1>3. CASE x.op = "cpush"
  <2>1. Len(Takes(x).own) = x.n
    BY <1>3, PushedTaken
  <2> QED BY <1>3, <2>1 DEF Reads, Takes
<1>4. CASE x.op \in Calls
  <2>1. program[x.n].args \in Seq(Scalars)
    BY <1>4, ProgramFacts DEF Names
  <2>2. Len(Exactly(program[x.n].args)) = Len(program[x.n].args)
    BY <2>1, ExactlyOf
  <2> QED BY <1>4, <2>2 DEF Reads, Takes, Calls, Tails
<1>5. CASE x.op = "fcall"
  <2>1. Externs[x.n].args \in Seq(Scalars)
    BY <1>5, ProgramFacts DEF Names
  <2>2. Len(Exactly(Externs[x.n].args)) = Len(Externs[x.n].args)
    BY <2>1, ExactlyOf
  <2> QED BY <1>5, <2>2 DEF Reads, Takes
<1>6. CASE x.op \notin {"dup", "copy", "move", "drop", "cset", "unary", "coperand", "fstore", "test", "binary",
                        "eq", "indexed", "store", "less", "beq", "cpush", "fcall"} \cup Calls
  <2>1. Takes(x) = [own |-> <<>>, other |-> <<>>]
    BY <1>6 DEF Takes, Calls, Tails
  <2>2. Reads(x) = [own |-> 0, other |-> 0]
    BY <1>6 DEF Reads, Calls, Tails
  <2> QED BY <2>1, <2>2
<1> QED BY <1>1, <1>2, <1>3, <1>4, <1>5, <1>6

LEMMA Eighths ==
  ASSUME NEW a \in Nat
  PROVE  a \div 8 \in Nat /\ a % 8 \in 0 .. 7 /\ a = 8 * (a \div 8) + (a % 8)
OBVIOUS

LEMMA EighthsOf ==
  \A z \in Nat, m \in 0 .. 7 : (8 * z + m) \div 8 = z /\ (8 * z + m) % 8 = m
OBVIOUS

\* The verifier checks the first and the last byte of an access; those between
\* lie in the same block, byte above byte.
LEMMA BytesThere ==
  ASSUME NEW u \in Seq(Content), NEW c \in Seq(Cells), Whole(c), stack["C"] = u \o c,
         NEW o \in Nat, NEW w \in Nat, FrameAccess(c, o, w)
  PROVE  Bytes(o, w)
<1>c. c \in Seq(Content) /\ Len(c) \in Nat /\ Len(u) \in Nat
  BY CellsInContent
<1>d. Depth("C") = Len(u) + Len(c) /\ \A d \in 0 .. Len(c) - 1 : At(stack["C"], d) = At(c, d)
  BY <1>c, Joined, AtOnTop DEF Depth
<1>0. o > 0 /\ o - 1 \in Nat /\ (o - 1) \div 8 < Len(c)
  BY DEF FrameAccess
<1>t. PICK t \in Nat : t = (o - 1) \div 8
  BY <1>0, Eighths
<1>r. PICK r \in 0 .. 7 : r = (o - 1) % 8 /\ o - 1 = 8 * t + r
  BY <1>0, <1>t, Eighths
<1>p. PICK p \in 1 .. Len(c) : p = Len(c) - t
  <2>1. Len(c) - t \in 1 .. Len(c)
    BY <1>0, <1>t, <1>c
  <2> QED BY <2>1
<1>1. /\ c[p] \notin Scalars
      /\ LET index == 8 * c[p][3] - 1 - r IN index < c[p][2] /\ index + w <= c[p][2]
  BY <1>t, <1>r, <1>p DEF FrameAccess, At
<1>b. PICK b \in Nat : \E q \in 0 .. Len(c) : InBlock(c, p, q, b)
  BY <1>1 DEF Whole
<1>q. PICK q \in 0 .. Len(c) : InBlock(c, p, q, b)
  BY <1>b
<1>n. PICK n \in Nat : n = CellsOf(b) /\ b <= 8 * n
  BY CellCount
<1>2. q < p /\ p <= q + n /\ q + n <= Len(c) /\ \A j \in 1 .. n : c[q + j] = <<"block", b, j>>
  BY <1>q, <1>n DEF InBlock
<1>j. PICK j \in 1 .. n : p = q + j
  BY <1>2
<1>3. c[p] = <<"block", b, j>>
  BY <1>2, <1>j
<1>i. PICK i \in Nat : i = 8 * j - 1 - r
  BY <1>r, <1>j
<1>4. i < b /\ i + w <= b
  <2>1. c[p][2] = b /\ c[p][3] = j
    BY <1>3
  <2> QED BY <1>1, <2>1, <1>i
\* Byte k of the block, counted from the one accessed first.
<1>5. ASSUME NEW e \in Nat, i + e < b
      PROVE  /\ 0 < o - e /\ (o - e - 1) \div 8 < Depth("C")
             /\ \E k \in Nat : ByteAt(o - e) = <<"block", b, k>> /\ 8 * k - 1 - ((o - e - 1) % 8) = i + e
  <2>k. PICK k \in Nat, m \in 0 .. 7 : i + e = 8 * k + m
    <3>a. PICK a \in Nat : a = i + e
      OBVIOUS
    <3>1. a \div 8 \in Nat /\ a % 8 \in 0 .. 7 /\ a = 8 * (a \div 8) + (a % 8)
      BY Eighths
    <3> QED BY <3>a, <3>1
  <2>1. k + 1 <= n
    BY <1>5, <1>n, <2>k
  <2>z. PICK z \in Nat : z = Len(c) - q - 1 - k
    <3>1. Len(c) - q - 1 - k \in Nat
      BY <2>1, <1>2, <1>c
    <3> QED BY <3>1
  <2>2. o - e - 1 = 8 * z + (7 - m)
    <3>1. i = 8 * j - 1 - r /\ o - 1 = 8 * (Len(c) - p) + r /\ p = q + j
      BY <1>i, <1>r, <1>p, <1>j, <1>c
    <3>2. o - 1 = 8 * Len(c) - 8 * q - 1 - i
      BY <3>1, <1>c
    <3>3. 8 * z = 8 * Len(c) - 8 * q - 8 - 8 * k
      BY <2>z, <1>c
    <3> QED BY <2>k, <3>2, <3>3, <1>c
  <2>3. (o - e - 1) \div 8 = z /\ (o - e - 1) % 8 = 7 - m
    <3>m. PICK m1 \in 0 .. 7 : m1 = 7 - m
      OBVIOUS
    <3>a. PICK a \in Nat : a = o - e - 1
      <4>1. o - e - 1 \in Nat
        BY <2>2
      <4> QED BY <4>1
    <3>1. a = 8 * z + m1
      BY <2>2, <3>m, <3>a
    <3>2. a \div 8 = z /\ a % 8 = m1
      <4>1. (8 * z + m1) \div 8 = z /\ (8 * z + m1) % 8 = m1
        BY EighthsOf
      <4> QED BY <4>1, <3>1
    <3> QED BY <3>2, <3>m, <3>a
  <2>4. z \in 0 .. Len(c) - 1 /\ Len(c) - z = q + (k + 1) /\ k + 1 \in 1 .. n
    BY <2>1, <2>z, <1>2, <1>c
  <2>5. At(c, z) = <<"block", b, k + 1>>
    <3>1. At(c, z) = c[q + (k + 1)]
      BY <2>4 DEF At
    <3> QED BY <3>1, <2>4, <1>2
  <2>6. ByteAt(o - e) = <<"block", b, k + 1>>
    BY <2>3, <2>4, <2>5, <1>d DEF ByteAt
  <2>7. 8 * (k + 1) - 1 - (7 - m) = i + e /\ k + 1 \in Nat
    BY <2>k
  <2>8. 0 < o - e /\ z < Depth("C")
    BY <2>2, <2>4, <1>c, <1>d
  <2> QED BY <2>3, <2>6, <2>7, <2>8
<1>6. ASSUME NEW d \in o - w + 1 .. o
      PROVE  /\ 0 < d /\ (d - 1) \div 8 < Depth("C")
             /\ ByteAt(d) \notin Scalars /\ ByteAt(d)[1] = "block"
             /\ ByteAt(d)[2] = ByteAt(o)[2]
             /\ IndexAt(d) = IndexAt(o) + (o - d)
             /\ IndexAt(d) < ByteAt(d)[2]
  <2>e. PICK e \in Nat : d = o - e /\ e < w
    BY <1>6
  <2>1. i + e < b /\ i + 0 < b /\ o - 0 = o
    BY <2>e, <1>4
  <2>2. 0 < d /\ (d - 1) \div 8 < Depth("C")
    BY <2>1, <2>e, <1>5
  <2>k. PICK k \in Nat : ByteAt(d) = <<"block", b, k>> /\ 8 * k - 1 - ((d - 1) % 8) = i + e
    BY <2>1, <2>e, <1>5
  <2>l. PICK l \in Nat : ByteAt(o) = <<"block", b, l>> /\ 8 * l - 1 - ((o - 1) % 8) = i + 0
    BY <2>1, <1>5
  <2>3. ByteAt(d) \notin Scalars /\ ByteAt(d)[1] = "block" /\ ByteAt(d)[2] = b /\ ByteAt(o)[2] = b
    <3>1. <<"block", b, k>> \notin Scalars
      BY NoScalar
    <3>2. <<"block", b, k>>[1] = "block" /\ <<"block", b, k>>[2] = b /\ <<"block", b, l>>[2] = b
      OBVIOUS
    <3> QED BY <3>1, <3>2, <2>k, <2>l
  <2>4. ByteAt(d)[3] = k /\ ByteAt(o)[3] = l
    BY <2>k, <2>l
  <2>5. IndexAt(d) = i + e /\ IndexAt(o) = i
    BY <2>4, <2>k, <2>l DEF IndexAt
  <2>6. o - d = e
    BY <2>e
  <2> QED BY <2>1, <2>2, <2>3, <2>5, <2>6
<1> QED BY <1>6 DEF Bytes

\* The parts of stacks that stand on a floor.
LEMMA StandsOperands ==
  ASSUME NEW u, Floor(u), NEW sh, Wf(sh), Stands(stack, u, sh), NEW s \in {"A", "B"}
  PROVE  /\ stack[s] = u[s] \o sh[s] /\ stack[s] \in Seq(Scalars)
         /\ u[s] \in Seq(Scalars) /\ sh[s] \in Seq(Scalars)
         /\ Depth(s) = Len(u[s]) + Len(sh[s])
<1>1. stack[s] = u[s] \o sh[s] /\ u[s] \in Seq(Scalars) /\ sh[s] \in Seq(Scalars)
  BY OperandFloor, Operands DEF Stands, Stacks
<1> QED BY <1>1, Joined DEF Depth

LEMMA StandsContext ==
  ASSUME NEW u, Floor(u), NEW sh, Wf(sh), Stands(stack, u, sh)
  PROVE  /\ stack["C"] = u["C"] \o sh["C"] /\ stack["C"] \in Seq(Content)
         /\ u["C"] \in Seq(Content) /\ sh["C"] \in Seq(Content) /\ sh["C"] \in Seq(Cells) /\ Whole(sh["C"])
         /\ Depth("C") = Len(u["C"]) + Len(sh["C"])
         /\ Len(u["C"]) \in Nat \ {0} /\ Len(sh["C"]) \in Nat
<1>1. stack["C"] = u["C"] \o sh["C"]
  BY DEF Stands, Stacks
<1>2. u["C"] \in Seq(Content) /\ sh["C"] \in Seq(Content) /\ sh["C"] \in Seq(Cells) /\ Whole(sh["C"])
  BY ContextFloor, ContextShape DEF Wf
<1> QED BY <1>1, <1>2, ContextFloor, Joined DEF Depth

LEMMA HasThere ==
  ASSUME NEW s, stack[s] \in Seq(Scalars), NEW n \in 0 .. Len(stack[s])
  PROVE  Has(s, n)
<1>1. Topmost(stack[s], n) \in Seq(Scalars) /\ Len(Topmost(stack[s], n)) = n
  BY TopmostOf
<1>2. \A i \in 1 .. n : Topmost(stack[s], n)[i] \in Scalars
  BY <1>1, ElementOfSeq
<1> QED BY <1>2 DEF Has, Depth

\* What an accepted RET finds: its results, and nothing else.
LEMMA ReturnFinds ==
  ASSUME program \in Programs, NEW f \in Functions, NEW x \in Instruction, x.op = "ret",
         NEW sh, Wf(sh), Accepts(f, x, sh)
  PROVE  /\ Len(sh["C"]) = x.n /\ x.m = Len(sh[x.me])
         /\ sh[x.me] = program[f].results /\ sh[Other(x.me)] = <<>>
BY DEF Accepts, Demands, Returnable

LEMMA PresentThere ==
  ASSUME program \in Programs, NEW f \in Functions, NEW x \in Instruction, Names(x),
         NEW sh, Wf(sh), Accepts(f, x, sh), NEW u, Floor(u), Stands(stack, u, sh), frames # <<>>
  PROVE  Present(x)
<1>0. x.n \in Nat /\ x.m \in Nat /\ x.me \in {"A", "B"} /\ Other(x.me) \in {"A", "B"}
  BY OwnOther
<1>1. stack[x.me] \in Seq(Scalars) /\ stack[Other(x.me)] \in Seq(Scalars)
  BY <1>0, StandsOperands
<1>2. /\ Len(stack[x.me]) = Len(u[x.me]) + Len(sh[x.me])
      /\ Len(stack[Other(x.me)]) = Len(u[Other(x.me)]) + Len(sh[Other(x.me)])
      /\ Len(u[x.me]) \in Nat /\ Len(sh[x.me]) \in Nat
      /\ Len(u[Other(x.me)]) \in Nat /\ Len(sh[Other(x.me)]) \in Nat
  <2>1. ASSUME NEW s \in {"A", "B"}
        PROVE  Len(stack[s]) = Len(u[s]) + Len(sh[s]) /\ Len(u[s]) \in Nat /\ Len(sh[s]) \in Nat
    <3>1. u[s] \in Seq(Scalars) /\ sh[s] \in Seq(Scalars) /\ Depth(s) = Len(u[s]) + Len(sh[s])
      BY StandsOperands
    <3>2. Len(u[s]) \in Nat /\ Len(sh[s]) \in Nat
      BY <3>1
    <3> QED BY <3>1, <3>2 DEF Depth
  <2> QED BY <2>1, <1>0
<1>uc. PICK uc \in Seq(Content) : uc = u["C"] /\ Len(uc) \in Nat \ {0} /\ uc[Len(uc) - 0] = Marker
  BY StandsContext DEF Floor, At
<1>c. PICK c \in Seq(Content) : c = sh["C"] /\ Len(c) \in Nat
  BY StandsContext
<1>sc. stack["C"] = uc \o c
  BY <1>uc, <1>c, StandsContext
<1>dc. Depth("C") = Len(uc) + Len(c) /\ Len(uc) \in Nat \ {0} /\ Len(c) \in Nat
  BY <1>uc, <1>c, StandsContext
<1>3. Reads(x).own \in 0 .. Len(sh[x.me]) /\ Reads(x).other \in 0 .. Len(sh[Other(x.me)])
  <2>1. CASE x.op = "ret"
    <3>1. x.m = Len(sh[x.me])
      BY <2>1, ReturnFinds
    <3>2. Reads(x).own = x.m /\ Reads(x).other = 0
      BY <2>1 DEF Reads
    <3> QED BY <3>1, <3>2, <1>2
  <2>2. CASE x.op # "ret"
    BY <2>2, ReadsTakes, TakesPresent
  <2> QED BY <2>1, <2>2
<1>4. Has(x.me, Reads(x).own) /\ Has(Other(x.me), Reads(x).other)
  <2>1. Reads(x).own \in 0 .. Len(stack[x.me]) /\ Reads(x).other \in 0 .. Len(stack[Other(x.me)])
    <3>1. \A k, l, n \in Nat : n \in 0 .. l => n \in 0 .. k + l
      OBVIOUS
    <3>2. Reads(x).own \in Nat /\ Reads(x).other \in Nat
      BY <1>3
    <3> QED BY <3>1, <3>2, <1>2, <1>3
  <2> QED BY <2>1, <1>1, HasThere
<1>5. Follows(x) => At(stack[x.me], 0) = AddrKind
  <2> SUFFICES ASSUME Follows(x) PROVE At(stack[x.me], 0) = AddrKind
    OBVIOUS
  <2>1. x.op \in {"indexed", "store", "unary"} /\ Takes(x).own = <<{AddrKind}>>
    BY DEF Follows, Takes
  <2>2. Len(sh[x.me]) >= 1 /\ Topmost(sh[x.me], 1)[1] = AddrKind
    <3>1. Fitting(sh[x.me], <<{AddrKind}>>)
      BY <2>1 DEF Accepts
    <3>2. Len(<<{AddrKind}>>) = 1 /\ DOMAIN <<{AddrKind}>> = 1 .. 1 /\ <<{AddrKind}>>[1] = {AddrKind}
      OBVIOUS
    <3> QED BY <3>1, <3>2 DEF Fitting
  <2>3. At(sh[x.me], 0) = AddrKind /\ 0 \in 0 .. Len(sh[x.me]) - 1
    <3>1. At(sh[x.me], 0) = AddrKind
      BY <2>2, <1>0, StandsOperands, TopOff
    <3> QED BY <3>1, <2>2, <1>2
  <2>v. PICK v \in Seq(Scalars) : v = u[x.me]
    BY <1>0, StandsOperands
  <2>w. PICK w \in Seq(Scalars) : w = sh[x.me]
    BY <1>0, StandsOperands
  <2>4. stack[x.me] = v \o w
    BY <2>v, <2>w, <1>0, StandsOperands
  <2>5. 0 \in 0 .. Len(w) - 1 /\ At(w, 0) = AddrKind
    BY <2>3, <2>w
  <2> QED BY <2>4, <2>5, AtOnTop
<1>6. \A d \in Nat : Scalar(sh["C"], d) => ScalarAt(d)
  <2> SUFFICES ASSUME NEW d \in Nat, Scalar(sh["C"], d) PROVE ScalarAt(d)
    OBVIOUS
  <2>1. d \in 0 .. Len(sh["C"]) - 1 /\ At(sh["C"], d) \in Scalars
    BY <1>c DEF Scalar
  <2>2. At(stack["C"], d) = At(sh["C"], d)
    BY <2>1, <1>c, <1>sc, AtOnTop
  <2>3. Depth("C") > d
    BY <2>1, <1>c, <1>dc
  <2> QED BY <2>1, <2>2, <2>3 DEF ScalarAt
<1>7. x.op = "cpop" => ScalarAt(0)
  BY <1>6 DEF Accepts, Demands
<1>8. x.op \in {"cset", "coperand"} => ScalarAt(x.n)
  BY <1>0, <1>6 DEF Accepts, Demands
<1>9. x.op = "cget" => \A i \in 1 .. x.m : ScalarAt(x.n + i - 1)
  <2>1. \A i \in 1 .. x.m : x.n + i - 1 \in Nat
    BY <1>0
  <2> QED BY <2>1, <1>6 DEF Accepts, Demands
<1>10. x.op \in {"fload", "fstore"} => Bytes(x.n, x.m)
  <2>1. x.op \in {"fload", "fstore"} => FrameAccess(sh["C"], x.n, x.m)
    BY DEF Accepts, Demands
  <2> QED BY <2>1, <1>0, StandsContext, BytesThere
<1>11. x.op = "free" => Depth("C") >= CellsOf(x.n) /\ Topmost(stack["C"], CellsOf(x.n)) = Block(x.n)
  <2> SUFFICES ASSUME x.op = "free"
               PROVE  Depth("C") >= CellsOf(x.n) /\ Topmost(stack["C"], CellsOf(x.n)) = Block(x.n)
    OBVIOUS
  <2>n. PICK n \in Nat : n = CellsOf(x.n)
    BY <1>0, CellCount
  <2>1. Ends(sh["C"], Block(x.n)) /\ Len(Block(x.n)) = n
    BY <1>0, <2>n, BlockOf DEF Accepts, Demands
  <2>2. n \in 0 .. Len(sh["C"]) /\ Topmost(sh["C"], n) = Block(x.n)
    BY <2>1, <1>c DEF Ends
  <2>3. Topmost(stack["C"], n) = Topmost(sh["C"], n)
    BY <2>2, <1>c, <1>sc, OnTop
  <2>4. Depth("C") >= n
    BY <2>2, <1>c, <1>dc
  <2> QED BY <2>n, <2>2, <2>3, <2>4
<1>12. x.op \in Tails => Depth("C") >= x.m
  <2>1. x.op \in Tails => Len(sh["C"]) = x.m
    BY DEF Accepts, Demands, Replaces
  <2> QED BY <2>1, <1>0, <1>c, <1>dc
<1>13. x.op = "ret" => frames # <<>> /\ Depth("C") > x.n /\ At(stack["C"], x.n) = Marker
  <2> SUFFICES ASSUME x.op = "ret" PROVE Depth("C") > x.n /\ At(stack["C"], x.n) = Marker
    OBVIOUS
  <2>1. Len(sh["C"]) = x.n
    BY ReturnFinds
  <2>2. Len(c) = x.n /\ Depth("C") - x.n = Len(uc) /\ Depth("C") > x.n
    BY <2>1, <1>0, <1>c, <1>dc
  <2>3. Len(uc) \in 1 .. Len(uc) /\ Len(uc) - 0 = Len(uc)
    BY <1>uc
  <2>4. stack["C"][Len(uc)] = uc[Len(uc)]
    BY <2>3, <1>sc, Joined
  <2>5. uc[Len(uc)] = Marker
    BY <2>3, <1>uc
  <2> QED BY <2>2, <2>4, <2>5 DEF At, Depth
<1> QED BY <1>4, <1>5, <1>7, <1>8, <1>9, <1>10, <1>11, <1>12, <1>13 DEF Present

\* The cell on top of an operand stack is one of the activation.
LEMMA TopSame ==
  ASSUME NEW s \in {"A", "B"}, NEW u, Floor(u), NEW sh, Wf(sh), Stands(stack, u, sh), 1 \in 0 .. Len(sh[s])
  PROVE  At(stack[s], 0) = At(sh[s], 0) /\ At(sh[s], 0) \in Scalars
<1>v. PICK v \in Seq(Scalars) : v = u[s]
  BY StandsOperands
<1>w. PICK w \in Seq(Scalars) : w = sh[s]
  BY StandsOperands
<1>1. stack[s] = v \o w
  BY <1>v, <1>w, StandsOperands
<1>2. 0 \in 0 .. Len(w) - 1
  BY <1>w
<1> QED BY <1>1, <1>2, <1>w, AtOnTop, AtOf

LEMMA PushesGives ==
  ASSUME program \in Programs, NEW x \in Instruction, Names(x), NEW f,
         NEW sh, Wf(sh), Accepts(f, x, sh), NEW u, Floor(u), Stands(stack, u, sh),
         x.op \notin {"dup", "copy", "call", "icall"}
  PROVE  Pushes(x) = Gives(x, sh)
<1>1. CASE x.op = "cget"
  <2>c. PICK c \in Seq(Content) : c = sh["C"]
    BY StandsContext
  <2>u. PICK v \in Seq(Content) : v = u["C"]
    BY StandsContext
  <2>1. stack["C"] = v \o c
    BY <2>c, <2>u, StandsContext
  <2>2. \A i \in 1 .. x.m : x.n + i - 1 \in 0 .. Len(c) - 1
    <3> TAKE i \in 1 .. x.m
    <3>1. Scalar(c, x.n + i - 1)
      BY <1>1, <2>c DEF Accepts, Demands
    <3>2. x.n + i - 1 < Len(c) /\ x.n + i - 1 \in Nat
      BY <3>1, OwnOther DEF Scalar
    <3> QED BY <3>2
  <2>3. \A i \in 1 .. x.m : At(stack["C"], x.n + i - 1) = At(c, x.n + i - 1)
    BY <2>1, <2>2, AtOnTop
  <2>4. Pushes(x) = [i \in 1 .. x.m |-> At(stack["C"], x.n + i - 1)]
    BY <1>1 DEF Pushes
  <2>5. Gives(x, sh) = [i \in 1 .. x.m |-> At(c, x.n + i - 1)]
    BY <1>1, <2>c DEF Gives
  <2> QED BY <2>3, <2>4, <2>5
<1>2. CASE x.op # "cget"
  BY <1>2 DEF Pushes, Gives
<1> QED BY <1>1, <1>2

LEMMA EffectOwn ==
  ASSUME program \in Programs, NEW x \in Instruction, Names(x), NEW f,
         NEW sh, Wf(sh), Accepts(f, x, sh), NEW u, Floor(u), Stands(stack, u, sh),
         x.op \notin Calls \cup {"ret", "halt", "abort"}
  PROVE  Effect(x)[x.me] = u[x.me] \o After(x, sh)[x.me]
<1>0. x.me \in {"A", "B"} /\ x.me \in Stacks /\ x.me # "C"
  BY OwnOther DEF Stacks
<1>v. PICK v \in Seq(Scalars) : v = u[x.me]
  BY <1>0, StandsOperands
<1>w. PICK w \in Seq(Scalars) : w = sh[x.me] /\ stack[x.me] = v \o w
  BY <1>v, <1>0, StandsOperands
<1>g. PICK g \in Seq(Scalars) : g = Gives(x, sh)
  BY GivesTyped
<1>1. Effect(x)[x.me] = Without(v \o w, Pops(x).own) \o Pushes(x)
  BY <1>0, <1>w DEF Effect
<1>2. After(x, sh)[x.me] = Without(w, Len(Takes(x).own)) \o g
  BY <1>0, <1>w, <1>g DEF After
<1>3. CASE x.op \notin {"dup", "copy"}
  <2>n. PICK n \in 0 .. Len(w) : n = Len(Takes(x).own)
    BY <1>w, TakesPresent
  <2>1. Pops(x).own = n
    BY <1>3, <2>n, ReadsTakes DEF Pops
  <2>2. Pushes(x) = g
    BY <1>3, <1>g, PushesGives DEF Calls, Tails
  <2>r. PICK r \in Seq(Scalars) : r = Without(w, n)
    BY WithoutOf
  <2>3. Without(v \o w, n) = v \o r
    <3>1. v \in Seq(Scalars) /\ w \in Seq(Scalars) /\ n \in 0 .. Len(w)
      OBVIOUS
    <3> QED BY <3>1, <2>r, OperandsOnTop
  <2>4. (v \o r) \o g = v \o (r \o g)
    BY OperandsAssociated
  <2> QED BY <1>1, <1>2, <1>v, <2>n, <2>r, <2>1, <2>2, <2>3, <2>4
<1>4. CASE x.op \in {"dup", "copy"}
  <2>1. Len(Takes(x).own) = 1 /\ 1 \in 0 .. Len(w)
    <3>1. Len(Takes(x).own) = 1
      BY <1>4, OneTaken
    <3>2. Len(Takes(x).own) \in 0 .. Len(w)
      BY <1>w, TakesPresent
    <3> QED BY <3>1, <3>2
  <2>a. PICK a \in Scalars : a = At(w, 0) /\ a = At(stack[x.me], 0)
    BY <1>0, <1>w, <2>1, TopSame
  <2>o. PICK o \in Seq(Scalars) : o = <<a>>
    <3>1. <<a>> \in Seq(Scalars)
      OBVIOUS
    <3> QED BY <3>1
  <2>r. PICK r \in Seq(Scalars) : r = Without(w, 1)
    BY <2>1, WithoutOf
  <2>2. w = r \o o
    BY <2>1, <2>a, <2>o, <2>r, TopOff
  <2>3. Pops(x).own = 0 /\ Without(v \o w, 0) = v \o w
    <3>1. v \o w \in Seq(Scalars)
      BY Joined
    <3> QED BY <3>1, <1>4, WithoutAll DEF Pops
  <2>4. CASE x.op = "dup"
    <3>1. Pushes(x) = o
      BY <2>4, <2>a, <2>o DEF Pushes
    <3>2. g = <<a, a>>
      BY <2>4, <2>a, <1>g, <1>w DEF Gives
    <3>3. <<a, a>> = o \o o
      BY <2>o
    <3>4. (v \o w) \o o = v \o (w \o o)
      BY OperandsAssociated
    <3>5. w \o o = r \o (o \o o)
      <4>1. (r \o o) \o o = r \o (o \o o)
        BY OperandsAssociated
      <4> QED BY <4>1, <2>2
    <3> QED BY <1>1, <1>2, <1>v, <2>r, <2>1, <2>3, <3>1, <3>2, <3>3, <3>4, <3>5
  <2>5. CASE x.op = "copy"
    <3>1. Pushes(x) = <<>>
      BY <2>5 DEF Pushes
    <3>2. g = o
      BY <2>5, <2>a, <2>o, <1>g, <1>w DEF Gives
    <3>3. (v \o w) \o <<>> = v \o w
      BY Joined, ConcatEmptySeq
    <3> QED BY <1>1, <1>2, <1>v, <2>r, <2>1, <2>2, <2>3, <3>1, <3>2, <3>3
  <2> QED BY <1>4, <2>4, <2>5
<1> QED BY <1>3, <1>4

LEMMA EffectOther ==
  ASSUME program \in Programs, NEW x \in Instruction, Names(x), NEW f,
         NEW sh, Wf(sh), Accepts(f, x, sh), NEW u, Floor(u), Stands(stack, u, sh),
         x.op \notin Calls \cup {"ret", "halt", "abort"}
  PROVE  Effect(x)[Other(x.me)] = u[Other(x.me)] \o After(x, sh)[Other(x.me)]
<1> DEFINE you == Other(x.me)
<1>0. you \in {"A", "B"} /\ you \in Stacks /\ you # "C" /\ you # x.me /\ x.me \in {"A", "B"}
  BY OwnOther DEF Stacks
<1>v. PICK v \in Seq(Scalars) : v = u[you]
  BY <1>0, StandsOperands
<1>w. PICK w \in Seq(Scalars) : w = sh[you] /\ stack[you] = v \o w
  BY <1>v, <1>0, StandsOperands
<1>g. PICK g \in Seq(Scalars) : g = Moves(x, sh)
  BY GivesTyped
<1>1. Effect(x)[you] = Without(v \o w, Pops(x).other) \o g
  <2>1. (IF x.op \in {"copy", "move"} THEN <<At(stack[x.me], 0)>> ELSE <<>>) = g
    <3>1. CASE x.op \in {"copy", "move"}
      <4>1. Len(Takes(x).own) = 1 /\ 1 \in 0 .. Len(sh[x.me])
        BY <3>1, OneTaken, TakesPresent
      <4>2. At(stack[x.me], 0) = At(sh[x.me], 0)
        BY <1>0, <4>1, TopSame
      <4> QED BY <3>1, <4>2, <1>g DEF Moves
    <3>2. CASE x.op \notin {"copy", "move"}
      BY <3>2, <1>g DEF Moves
    <3> QED BY <3>1, <3>2
  <2> HIDE DEF you
  <2>2. Effect(x)[you] = Without(stack[you], Pops(x).other)
                           \o IF x.op \in {"copy", "move"} THEN <<At(stack[x.me], 0)>> ELSE <<>>
    BY <1>0 DEF Effect
  <2> QED BY <2>1, <2>2, <1>w
<1>2. After(x, sh)[you] = Without(w, Len(Takes(x).other)) \o g
  <2> HIDE DEF you
  <2> QED BY <1>0, <1>w, <1>g DEF After
<1>n. PICK n \in 0 .. Len(w) : n = Len(Takes(x).other)
  BY <1>w, TakesPresent
<1>3. Pops(x).other = n
  <2>1. CASE x.op \in {"dup", "copy"}
    BY <2>1, <1>n DEF Pops, Takes
  <2>2. CASE x.op \notin {"dup", "copy"}
    BY <2>2, <1>n, ReadsTakes DEF Pops
  <2> QED BY <2>1, <2>2
<1>r. PICK r \in Seq(Scalars) : r = Without(w, n)
  BY WithoutOf
<1>4. Without(v \o w, n) = v \o r
  <2>1. v \in Seq(Scalars) /\ w \in Seq(Scalars) /\ n \in 0 .. Len(w)
    OBVIOUS
  <2> QED BY <2>1, <1>r, OperandsOnTop
<1>5. (v \o r) \o g = v \o (r \o g)
  BY OperandsAssociated
<1> QED BY <1>1, <1>2, <1>v, <1>n, <1>r, <1>3, <1>4, <1>5

LEMMA EffectContext ==
  ASSUME program \in Programs, NEW x \in Instruction, Names(x), NEW f,
         NEW sh, Wf(sh), Accepts(f, x, sh), NEW u, Floor(u), Stands(stack, u, sh),
         x.op \notin Calls \cup {"ret", "halt", "abort"}
  PROVE  Effect(x)["C"] = u["C"] \o After(x, sh)["C"]
<1>0. x.n \in Nat /\ x.me \in {"A", "B"} /\ x.me # "C"
  BY OwnOther
<1>v. PICK v \in Seq(Content) : v = u["C"]
  BY StandsContext
<1>c. PICK c \in Seq(Content) : c = sh["C"] /\ stack["C"] = v \o c /\ Len(c) \in Nat
  BY <1>v, StandsContext
<1>1. Effect(x)["C"] = OnContext(x) /\ After(x, sh)["C"] = Context(x, sh)
  BY DEF Effect, After, Stacks
<1>2. CASE x.op = "cpush"
  <2>v. PICK ov \in Seq(Scalars) : ov = u[x.me]
    BY <1>0, StandsOperands
  <2>w. PICK ow \in Seq(Scalars) : ow = sh[x.me] /\ stack[x.me] = ov \o ow
    BY <2>v, <1>0, StandsOperands
  <2>1. x.n \in 0 .. Len(ow)
    BY <1>2, <2>w, PushedTaken, TakesPresent
  <2>2. Topmost(ov \o ow, x.n) = Topmost(ow, x.n)
    BY <2>1, OnTop
  <2>3. Topmost(ow, x.n) \in Seq(Scalars)
    BY <2>1, TopmostOf
  <2>g. PICK g \in Seq(Scalars) : g = Reverse(Topmost(ow, x.n))
    BY <2>3, ReverseOf
  <2>4. g \in Seq(Content)
    BY CellsInContent
  <2>5. OnContext(x) = (v \o c) \o g
    BY <1>2, <1>c, <2>w, <2>2, <2>g DEF OnContext, Pushed
  <2>6. Context(x, sh) = c \o g
    BY <1>2, <1>c, <2>w, <2>g DEF Context
  <2>7. (v \o c) \o g = v \o (c \o g)
    BY <2>4, ContextAssociated
  <2> QED BY <1>1, <1>v, <2>5, <2>6, <2>7
<1>3. CASE x.op = "cpop"
  <2>1. Scalar(c, 0)
    BY <1>3, <1>c DEF Accepts, Demands
  <2>2. 1 \in 0 .. Len(c)
    BY <2>1, <1>c DEF Scalar
  <2>3. Without(v \o c, 1) = v \o Without(c, 1)
    BY <2>2, ContextOnTop
  <2> QED BY <1>1, <1>3, <1>c, <1>v, <2>3 DEF OnContext, Context
<1>4. CASE x.op = "cset"
  <2>1. Scalar(c, x.n)
    BY <1>4, <1>c DEF Accepts, Demands
  <2>d. PICK d \in 0 .. Len(c) - 1 : d = x.n
    <3>1. x.n \in 0 .. Len(c) - 1
      BY <2>1, <1>0, <1>c DEF Scalar
    <3> QED BY <3>1
  <2>2. 1 \in 0 .. Len(sh[x.me])
    <3>1. Len(Takes(x).own) = 1
      BY <1>4, OneTaken
    <3>2. Len(Takes(x).own) \in 0 .. Len(sh[x.me])
      BY TakesPresent
    <3> QED BY <3>1, <3>2
  <2>k. PICK k \in Content : k = At(sh[x.me], 0) /\ k = At(stack[x.me], 0)
    <3>1. At(stack[x.me], 0) = At(sh[x.me], 0) /\ At(sh[x.me], 0) \in Scalars
      BY <1>0, <2>2, TopSame
    <3> QED BY <3>1, ScalarIsCell DEF Content
  <2>3. [(v \o c) EXCEPT ![Len(v \o c) - d] = k] = v \o [c EXCEPT ![Len(c) - d] = k]
    BY UpdateOnTop
  <2>4. OnContext(x) = [(v \o c) EXCEPT ![Len(v \o c) - d] = k]
    BY <1>4, <1>c, <2>d, <2>k DEF OnContext
  <2>5. Context(x, sh) = [c EXCEPT ![Len(c) - d] = k]
    BY <1>4, <1>c, <2>d, <2>k DEF Context
  <2> QED BY <1>1, <1>v, <2>3, <2>4, <2>5
<1>5. CASE x.op = "alloc"
  <2>g. PICK g \in Seq(Content) : g = Block(x.n)
    BY <1>0, BlockOf, CellsInContent
  <2>1. (v \o c) \o g = v \o (c \o g)
    BY ContextAssociated
  <2> QED BY <1>1, <1>5, <1>c, <1>v, <2>g, <2>1 DEF OnContext, Context
<1>6. CASE x.op = "free"
  <2>n. PICK n \in Nat : n = CellsOf(x.n)
    BY <1>0, CellCount
  <2>1. Ends(c, Block(x.n)) /\ Len(Block(x.n)) = n
    BY <1>6, <1>c, <1>0, <2>n, BlockOf DEF Accepts, Demands
  <2>2. n \in 0 .. Len(c)
    BY <2>1, <1>c DEF Ends
  <2>3. Without(v \o c, n) = v \o Without(c, n)
    BY <2>2, ContextOnTop
  <2> QED BY <1>1, <1>6, <1>c, <1>v, <2>n, <2>3 DEF OnContext, Context
<1>7. CASE x.op \notin {"cpush", "cpop", "cset", "alloc", "free"}
  BY <1>1, <1>7, <1>c, <1>v DEF OnContext, Context
<1> QED BY <1>2, <1>3, <1>4, <1>5, <1>6, <1>7

\* A handler that stays in its function leaves, above the same floor, the shape
\* that the verifier computed.
LEMMA EffectIs ==
  ASSUME program \in Programs, NEW x \in Instruction, Names(x), NEW f,
         NEW sh, Wf(sh), Accepts(f, x, sh), NEW u, Floor(u), Stands(stack, u, sh),
         x.op \notin Calls \cup {"ret", "halt", "abort"}
  PROVE  Stands(Effect(x), u, After(x, sh))
<1>1. \A s \in Stacks : s = x.me \/ s = Other(x.me) \/ s = "C"
  BY OwnOther DEF Stacks
<1>2. Effect(x)[x.me] = u[x.me] \o After(x, sh)[x.me]
  BY EffectOwn
<1>3. Effect(x)[Other(x.me)] = u[Other(x.me)] \o After(x, sh)[Other(x.me)]
  BY EffectOther
<1>4. Effect(x)["C"] = u["C"] \o After(x, sh)["C"]
  BY EffectContext
<1> QED BY <1>1, <1>2, <1>3, <1>4 DEF Stands

-----------------------------------------------------------------------------
(* Calls.                                                                   *)

\* The stacks that a call finds once it knows its callee.
Found(x) == IF x.op \in {"icall", "itcall"} THEN Addressed(x) ELSE stack

LEMMA CallFinds ==
  ASSUME program \in Programs, NEW x \in Instruction, Names(x), NEW f, x.op \in Calls,
         NEW sh, Wf(sh), Accepts(f, x, sh), NEW u, Floor(u), Stands(stack, u, sh),
         NEW g \in Functions, program[g].args = program[x.n].args
  PROVE  /\ Len(program[g].args) = Len(Takes(x).own)
         /\ Found(x)[x.me] = u[x.me] \o sh[x.me]
         /\ Found(x)[Other(x.me)] = u[Other(x.me)] \o Without(sh[Other(x.me)], Len(Takes(x).other))
         /\ Found(x)["C"] = u["C"] \o sh["C"]
         /\ Without(Found(x)[x.me], Len(program[g].args)) = u[x.me] \o Without(sh[x.me], Len(Takes(x).own))
         /\ Reverse(Topmost(Found(x)[x.me], Len(program[g].args))) = Arguments(g)
<1>0. x.me \in {"A", "B"} /\ Other(x.me) \in {"A", "B"} /\ Other(x.me) # x.me /\ x.me # "C" /\ Other(x.me) # "C"
  BY OwnOther
<1>a. PICK a \in Seq(Scalars) : a = program[g].args
  BY ProgramFacts
<1>1. Takes(x).own = Exactly(a)
  BY <1>a DEF Takes, Calls, Tails
<1>2. Len(a) = Len(Takes(x).own)
  BY <1>1, ExactlyOf
<1>v. PICK v \in Seq(Scalars) : v = u[x.me]
  BY <1>0, StandsOperands
<1>w. PICK w \in Seq(Scalars) : w = sh[x.me] /\ stack[x.me] = v \o w
  BY <1>v, <1>0, StandsOperands
<1>3. Found(x)[x.me] = v \o w
  BY <1>0, <1>w DEF Found, Addressed, Stacks
<1>4. Found(x)["C"] = u["C"] \o sh["C"]
  <2>1. Found(x)["C"] = stack["C"]
    BY <1>0 DEF Found, Addressed, Stacks
  <2> QED BY <2>1, StandsContext
<1>5. Found(x)[Other(x.me)] = u[Other(x.me)] \o Without(sh[Other(x.me)], Len(Takes(x).other))
  <2>v. PICK v2 \in Seq(Scalars) : v2 = u[Other(x.me)]
    BY <1>0, StandsOperands
  <2>w. PICK w2 \in Seq(Scalars) : w2 = sh[Other(x.me)] /\ stack[Other(x.me)] = v2 \o w2
    BY <2>v, <1>0, StandsOperands
  <2>1. CASE x.op \in {"icall", "itcall"}
    <3>1. Len(Takes(x).other) = 1
      BY <2>1 DEF Takes
    <3>2. 1 \in 0 .. Len(w2)
      BY <3>1, <2>w, TakesPresent
    <3>3. Found(x)[Other(x.me)] = Without(v2 \o w2, 1)
      BY <2>1, <1>0, <2>w DEF Found, Addressed, Stacks
    <3>4. Without(v2 \o w2, 1) = v2 \o Without(w2, 1)
      BY <3>2, OperandsOnTop
    <3> QED BY <3>1, <3>3, <3>4, <2>v, <2>w
  <2>2. CASE x.op \notin {"icall", "itcall"}
    <3>1. Len(Takes(x).other) = 0
      BY <2>2 DEF Takes, Calls, Tails
    <3>2. Without(w2, 0) = w2
      BY WithoutAll
    <3>3. Found(x)[Other(x.me)] = v2 \o w2
      BY <2>2, <2>w DEF Found
    <3> QED BY <3>1, <3>2, <3>3, <2>v, <2>w
  <2> QED BY <2>1, <2>2
<1>n. PICK n \in 0 .. Len(w) : n = Len(a)
  BY <1>2, <1>w, TakesPresent
<1>6. Without(v \o w, n) = v \o Without(w, n)
  BY OperandsOnTop
<1>7. Topmost(v \o w, n) = Topmost(w, n)
  BY OnTop
<1>8. Topmost(w, n) = a
  <2>t. PICK t \in Seq(Scalars) : t = Topmost(w, n) /\ Len(t) = n
    BY TopmostOf
  <2>1. Fitting(w, Exactly(a))
    BY <1>1, <1>w DEF Accepts
  <2>2. \A i \in DOMAIN Exactly(a) : Topmost(w, Len(Exactly(a)))[i] \in Exactly(a)[i]
    BY <2>1 DEF Fitting
  <2>3. \A i \in 1 .. Len(a) : t[i] = a[i]
    BY <2>2, <2>t, <1>n, ExactlyOf DEF Exactly
  <2>4. t = a
    BY <2>3, <2>t, <1>n, SeqEqual
  <2> QED BY <2>4, <2>t
<1>9. Reverse(Topmost(Found(x)[x.me], Len(program[g].args))) = Arguments(g)
  BY <1>3, <1>7, <1>8, <1>a, <1>n DEF Arguments
<1>10. Len(program[g].args) = n /\ Len(Takes(x).own) = n
  BY <1>a, <1>n, <1>2
<1> QED BY <1>3, <1>4, <1>5, <1>6, <1>9, <1>10, <1>v, <1>w

\* The arguments on C are what the callee's first instruction was checked with.
LEMMA PassedStands ==
  ASSUME NEW g, NEW me, NEW st, NEW kept, Floor(kept),
         Reverse(Topmost(st[me], Len(program[g].args))) = Arguments(g)
  PROVE  Stands(Passed(g, me, st, kept), kept, EntryShape(g))
<1>p. PICK p : p = Passed(g, me, st, kept)
  OBVIOUS
<1>e. PICK e : e = EntryShape(g)
  OBVIOUS
<1>1. p = [s \in Stacks |-> IF s = "C" THEN kept["C"] \o Arguments(g) ELSE kept[s]]
  BY <1>p DEF Passed, WithC, Pushed
<1>2. \A s \in Stacks : e[s] = IF s = "C" THEN Arguments(g) ELSE <<>>
  BY <1>e DEF EntryShape
<1>3. \A s \in {"A", "B"} : kept[s] \o <<>> = kept[s]
  <2>1. \A s \in {"A", "B"} : kept[s] \in Seq(Scalars)
    BY DEF Floor
  <2> QED BY <2>1, ConcatEmptySeq
<1>4. "C" \in Stacks /\ \A s \in Stacks : s = "C" \/ (s \in {"A", "B"} /\ s # "C")
  BY DEF Stacks
<1>5. p["C"] = kept["C"] \o e["C"]
  BY <1>1, <1>2, <1>4
<1>6. ASSUME NEW s \in Stacks, s \in {"A", "B"}, s # "C"
      PROVE  p[s] = kept[s] \o e[s]
  <2>1. p[s] = kept[s] /\ e[s] = <<>>
    BY <1>1, <1>2, <1>6
  <2> QED BY <2>1, <1>3, <1>6
<1>7. \A s \in Stacks : p[s] = kept[s] \o e[s]
  BY <1>4, <1>5, <1>6
<1> QED BY <1>7, <1>p, <1>e DEF Stands

\* What stays of the stacks when a call enters its callee, and when it replaces
\* its own frame.
Entering(x, g, kept)  == kept = Kept(g, x.me, Found(x), Append(Found(x)["C"], Marker))
Replacing(x, g, kept) == kept = Kept(g, x.me, Found(x), Without(Found(x)["C"], x.m))

\* The callee may run on kept, and its results make it what its caller goes on with.
Prepared(x, sh, u, g, kept) ==
  /\ Floor(kept)
  /\ Stands(Passed(g, x.me, Found(x), kept), kept, EntryShape(g))
  /\ kept[x.me] \o program[g].results = u[x.me] \o After(x, sh)[x.me]
  /\ kept[Other(x.me)] = u[Other(x.me)] \o After(x, sh)[Other(x.me)]
  /\ kept["C"] = (u["C"] \o After(x, sh)["C"]) \o <<Marker>>

\* A callee stands on what is left of its caller, its return address on top.
LEMMA EnterStands ==
  ASSUME program \in Programs, NEW x \in Instruction, Names(x), NEW f, x.op \in {"call", "icall"},
         NEW sh, Wf(sh), Accepts(f, x, sh), NEW u, Floor(u), Stands(stack, u, sh),
         NEW g \in Functions, program[g].args = program[x.n].args, program[g].results = program[x.n].results,
         NEW kept, Entering(x, g, kept)
  PROVE  Prepared(x, sh, u, g, kept)
<1>0. /\ x.me \in {"A", "B"} /\ Other(x.me) \in {"A", "B"} /\ Other(x.me) # x.me /\ x.me # "C" /\ Other(x.me) # "C"
      /\ x.op \in Calls /\ \A s \in Stacks : s = x.me \/ s = Other(x.me) \/ s = "C"
  BY OwnOther DEF Stacks, Calls
<1>v. PICK v \in Seq(Scalars) : v = u[x.me]
  BY <1>0, StandsOperands
<1>w. PICK w \in Seq(Scalars) : w = Without(sh[x.me], Len(Takes(x).own))
  BY <1>0, StandsOperands, TakesPresent, WithoutOf
<1>v2. PICK v2 \in Seq(Scalars) : v2 = u[Other(x.me)]
  BY <1>0, StandsOperands
<1>w2. PICK w2 \in Seq(Scalars) : w2 = Without(sh[Other(x.me)], Len(Takes(x).other))
  BY <1>0, StandsOperands, TakesPresent, WithoutOf
<1>vc. PICK vc \in Seq(Content) : vc = u["C"]
  BY StandsContext
<1>c. PICK c \in Seq(Content) : c = sh["C"]
  BY StandsContext
<1>m. PICK o \in Seq(Content) : o = <<Marker>>
  <2>1. Marker \in Content
    BY DEF Content
  <2>2. <<Marker>> \in Seq(Content)
    BY <2>1
  <2> QED BY <2>2
<1>1. /\ Without(Found(x)[x.me], Len(program[g].args)) = v \o w
      /\ Found(x)[Other(x.me)] = v2 \o w2
      /\ Found(x)["C"] = vc \o c
      /\ Reverse(Topmost(Found(x)[x.me], Len(program[g].args))) = Arguments(g)
  BY <1>0, <1>v, <1>w, <1>v2, <1>w2, <1>vc, <1>c, CallFinds
<1>2. kept = [s \in Stacks |-> IF s = "C" THEN Append(vc \o c, Marker)
                               ELSE IF s = x.me THEN v \o w ELSE Found(x)[s]]
  BY <1>1 DEF Kept, Entering
<1>3. kept[x.me] = v \o w /\ kept[Other(x.me)] = v2 \o w2 /\ kept["C"] = Append(vc \o c, Marker)
  BY <1>0, <1>1, <1>2 DEF Stacks
<1>z. PICK z \in Seq(Content) : z = vc \o c
  BY Joined
<1>4. kept["C"] = z \o o /\ kept["C"] \in Seq(Content)
  <2>1. Append(z, Marker) = z \o <<Marker>>
    <3>1. Marker \in Content
      BY DEF Content
    <3> QED BY <3>1, AppendIsConcat
  <2>2. z \o o \in Seq(Content)
    BY Joined
  <2>3. kept["C"] = z \o o
    BY <2>1, <1>3, <1>z, <1>m
  <2> QED BY <2>2, <2>3
<1>5. Floor(kept)
  <2>1. kept[x.me] \in Seq(Scalars) /\ kept[Other(x.me)] \in Seq(Scalars)
    BY <1>3, Joined
  <2>2. kept["A"] \in Seq(Scalars) /\ kept["B"] \in Seq(Scalars)
    BY <2>1, OwnOther
  <2>3. \A s \in Stacks : kept[s] \in Seq(Content)
    BY <2>2, <1>4, CellsInContent DEF Stacks
  <2>4. kept = [s \in Stacks |-> kept[s]]
    BY <1>2
  <2>5. kept["C"] # <<>> /\ At(kept["C"], 0) = Marker
    <3>y. PICK y \in Seq(Content) : y = z \o o
      BY Joined
    <3>1. Len(o) = 1 /\ o[1] = Marker
      BY <1>m
    <3>a. 1 \in 1 .. Len(o)
      BY <3>1
    <3>2. Len(y) = Len(z) + 1 /\ y[Len(z) + 1] = Marker
      <4>1. Len(y) = Len(z) + Len(o)
        BY <3>y, Joined
      <4>2. y[Len(z) + 1] = o[1]
        BY <3>a, <3>y, Joined
      <4> QED BY <4>1, <4>2, <3>1
    <3>3. Len(z) \in Nat
      OBVIOUS
    <3>4. y # <<>> /\ Len(y) - 0 = Len(z) + 1
      BY <3>2, <3>3, EmptySeq
    <3> QED BY <3>2, <3>4, <3>y, <1>4 DEF At
  <2> QED BY <2>2, <2>3, <2>4, <2>5 DEF Floor
<1>6. Stands(Passed(g, x.me, Found(x), kept), kept, EntryShape(g))
  BY <1>1, <1>5, PassedStands
<1>7. kept[x.me] \o program[g].results = u[x.me] \o After(x, sh)[x.me]
  <2>r. PICK r \in Seq(Scalars) : r = program[g].results
    BY ProgramFacts
  <2>1. Gives(x, sh) = r
    BY <2>r DEF Gives
  <2>2. After(x, sh)[x.me] = w \o r
    BY <2>1, <1>0, <1>w DEF After, Stacks
  <2>3. (v \o w) \o r = v \o (w \o r)
    BY OperandsAssociated
  <2> QED BY <2>r, <2>2, <2>3, <1>3, <1>v
<1>8. kept[Other(x.me)] = u[Other(x.me)] \o After(x, sh)[Other(x.me)]
  <2>1. Moves(x, sh) = <<>>
    BY DEF Moves
  <2>2. After(x, sh)[Other(x.me)] = w2 \o <<>>
    BY <2>1, <1>0, <1>w2 DEF After, Stacks
  <2>3. w2 \o <<>> = w2
    BY ConcatEmptySeq
  <2> QED BY <2>2, <2>3, <1>3, <1>v2
<1>9. kept["C"] = (u["C"] \o After(x, sh)["C"]) \o <<Marker>>
  <2>1. After(x, sh)["C"] = c
    BY <1>c DEF After, Context, Stacks
  <2> QED BY <2>1, <1>4, <1>z, <1>m, <1>vc
<1> QED BY <1>5, <1>6, <1>7, <1>8, <1>9 DEF Prepared

LEMMA OperandsCleared ==
  ASSUME NEW v \in Seq(Scalars), NEW w \in Seq(Scalars)
  PROVE  v \o Without(w, Len(w)) = v
<1>1. Without(w, Len(w)) = <<>>
  BY WithoutAll
<1>2. v \o <<>> = v
  BY ConcatEmptySeq
<1> QED BY <1>1, <1>2

\* A tail call clears its frame: the callee stands on what the caller stood on.
LEMMA ReplaceStands ==
  ASSUME program \in Programs, NEW x \in Instruction, Names(x), NEW f, x.op \in Tails,
         NEW sh, Wf(sh), Accepts(f, x, sh), NEW u, Floor(u), Stands(stack, u, sh),
         NEW g \in Functions, program[g].args = program[x.n].args,
         NEW kept, Replacing(x, g, kept)
  PROVE  kept = u /\ Stands(Passed(g, x.me, Found(x), kept), u, EntryShape(g))
<1>0. /\ x.me \in {"A", "B"} /\ Other(x.me) \in {"A", "B"} /\ Other(x.me) # x.me /\ x.me # "C" /\ Other(x.me) # "C"
      /\ x.op \in Calls /\ \A s \in Stacks : s = x.me \/ s = Other(x.me) \/ s = "C"
  BY OwnOther DEF Stacks, Calls
<1>v. PICK v \in Seq(Scalars) : v = u[x.me]
  BY <1>0, StandsOperands
<1>w. PICK w \in Seq(Scalars) : w = sh[x.me]
  BY <1>0, StandsOperands
<1>v2. PICK v2 \in Seq(Scalars) : v2 = u[Other(x.me)]
  BY <1>0, StandsOperands
<1>w2. PICK w2 \in Seq(Scalars) : w2 = sh[Other(x.me)]
  BY <1>0, StandsOperands
<1>vc. PICK vc \in Seq(Content) : vc = u["C"]
  BY StandsContext
<1>c. PICK c \in Seq(Content) : c = sh["C"] /\ Len(c) \in Nat
  BY StandsContext
<1>1. Len(w) = Len(Takes(x).own) /\ Len(w2) = Len(Takes(x).other) /\ Len(c) = x.m
  <2>1. Replaces(x, sh)
    BY DEF Accepts, Demands
  <2> QED BY <2>1, <1>w, <1>w2, <1>c DEF Replaces
<1>2. /\ Without(Found(x)[x.me], Len(program[g].args)) = v \o Without(w, Len(w))
      /\ Found(x)[Other(x.me)] = v2 \o Without(w2, Len(w2))
      /\ Found(x)["C"] = vc \o c
      /\ Reverse(Topmost(Found(x)[x.me], Len(program[g].args))) = Arguments(g)
  <2>1. /\ Found(x)[Other(x.me)] = u[Other(x.me)] \o Without(sh[Other(x.me)], Len(Takes(x).other))
        /\ Found(x)["C"] = u["C"] \o sh["C"]
        /\ Without(Found(x)[x.me], Len(program[g].args)) = u[x.me] \o Without(sh[x.me], Len(Takes(x).own))
        /\ Reverse(Topmost(Found(x)[x.me], Len(program[g].args))) = Arguments(g)
    BY <1>0, CallFinds
  <2> QED BY <2>1, <1>1, <1>v, <1>w, <1>v2, <1>w2, <1>vc, <1>c
<1>3. Without(Found(x)[x.me], Len(program[g].args)) = v /\ Found(x)[Other(x.me)] = v2
  BY <1>2, OperandsCleared
<1>4. Without(Found(x)["C"], x.m) = vc
  <2>1. Len(c) \in 0 .. Len(c)
    BY <1>c
  <2>2. Without(vc \o c, Len(c)) = vc \o Without(c, Len(c))
    BY <2>1, ContextOnTop
  <2>3. Without(c, Len(c)) = <<>> /\ vc \o <<>> = vc
    BY WithoutAll, ConcatEmptySeq
  <2> QED BY <2>2, <2>3, <1>1, <1>2
<1>5. kept = [s \in Stacks |-> IF s = "C" THEN vc ELSE IF s = x.me THEN v ELSE Found(x)[s]]
  BY <1>3, <1>4 DEF Kept, Replacing
<1>6. \A s \in Stacks : kept[s] = u[s]
  BY <1>0, <1>3, <1>5, <1>v, <1>v2, <1>vc
<1>7. kept = [s \in Stacks |-> kept[s]] /\ u = [s \in Stacks |-> u[s]]
  BY <1>5 DEF Floor
<1>8. kept = u
  BY <1>6, <1>7
<1>9. Stands(Passed(g, x.me, Found(x), kept), kept, EntryShape(g))
  BY <1>2, <1>8, PassedStands
<1> QED BY <1>8, <1>9

\* A return address on top of z, and stacks h with the results of f on stack `to`
\* and z on C.
Addressing(u, z) == u["C"] = z \o <<Marker>>

Delivered(h, u, to, f, z) ==
  h[to] = u[to] \o program[f].results /\ h[Other(to)] = u[Other(to)] /\ h["C"] = z

\* A return leaves the results where the caller wants them, on exactly what it
\* stood on without the return address.
LEMMA ReturnStands ==
  ASSUME program \in Programs, NEW x \in Instruction, x.op = "ret", NEW f \in Functions,
         NEW sh, Wf(sh), Accepts(f, x, sh), NEW u, Floor(u), Stands(stack, u, sh),
         NEW to \in {"A", "B"}, NEW z \in Seq(Content), Addressing(u, z)
  PROVE  Delivered(Handed(x, to), u, to, f, z)
<1>0. /\ x.me \in {"A", "B"} /\ Other(x.me) \in {"A", "B"} /\ Other(x.me) # x.me /\ x.me # "C" /\ Other(x.me) # "C"
      /\ x.me \in Stacks /\ Other(x.me) \in Stacks /\ "C" \in Stacks
  BY OwnOther DEF Stacks
<1>r. PICK r \in Seq(Scalars) : r = program[f].results
  BY ProgramFacts
<1>c. PICK c \in Seq(Content) : c = sh["C"] /\ Len(c) \in Nat
  BY StandsContext
<1>1. sh[x.me] = r /\ sh[Other(x.me)] = <<>> /\ Len(c) = x.n /\ Len(r) = x.m
  BY <1>r, <1>c DEF Accepts, Demands, Returnable
<1>v. PICK v \in Seq(Scalars) : v = u[x.me]
  BY <1>0, StandsOperands
<1>v2. PICK v2 \in Seq(Scalars) : v2 = u[Other(x.me)]
  BY <1>0, StandsOperands
<1>2. stack[x.me] = v \o r
  BY <1>0, <1>1, <1>v DEF Stands
<1>3. stack[Other(x.me)] = v2
  <2>1. stack[Other(x.me)] = v2 \o <<>>
    BY <1>0, <1>1, <1>v2 DEF Stands
  <2> QED BY <2>1, ConcatEmptySeq
<1>o. PICK o \in Seq(Content) : o = <<Marker>> /\ Len(o) = 1
  <2>1. Marker \in Content
    BY DEF Content
  <2>2. <<Marker>> \in Seq(Content)
    BY <2>1
  <2>3. Len(<<Marker>>) = 1
    OBVIOUS
  <2> QED BY <2>2, <2>3
<1>4. stack["C"] = (z \o o) \o c
  BY <1>0, <1>c, <1>o DEF Stands, Addressing
<1>y. PICK y \in Seq(Content) : y = o \o c /\ Len(y) = Len(c) + 1 /\ Len(y) \in 0 .. Len(y)
  <2>1. o \o c \in Seq(Content) /\ Len(o \o c) = Len(o) + Len(c)
    BY Joined
  <2>2. Len(o) = 1
    BY <1>o
  <2>y. PICK y \in Seq(Content) : y = o \o c
    BY <2>1
  <2>3. Len(y) = Len(c) + 1
    BY <2>1, <2>2, <2>y, <1>c
  <2>4. Len(y) \in 0 .. Len(y)
    OBVIOUS
  <2> QED BY <2>3, <2>4, <2>y
<1>5. stack["C"] = z \o y
  BY <1>4, <1>y, ContextAssociated
<1>6. Without(stack["C"], x.n + 1) = z
  <2>1. Without(z \o y, Len(y)) = z \o Without(y, Len(y))
    BY <1>y, ContextOnTop
  <2>2. Without(y, Len(y)) = <<>> /\ z \o <<>> = z
    BY WithoutAll, ConcatEmptySeq
  <2> QED BY <2>1, <2>2, <1>1, <1>y, <1>5
<1>7. Handed(x, to)["C"] = z
  BY <1>0, <1>6 DEF Handed
<1>8. CASE to = x.me
  <2>1. Handed(x, to)[x.me] = stack[x.me] /\ Handed(x, to)[Other(x.me)] = stack[Other(x.me)]
    BY <1>0, <1>8 DEF Handed
  <2> QED BY <2>1, <1>2, <1>3, <1>7, <1>8, <1>r, <1>v, <1>v2 DEF Delivered
<1>9. CASE to # x.me
  <2>1. to = Other(x.me) /\ Other(to) = x.me
    BY <1>9, <1>0 DEF Other
  <2>2. /\ Handed(x, to)[x.me] = Without(stack[x.me], x.m)
        /\ Handed(x, to)[Other(x.me)] = stack[Other(x.me)] \o Topmost(stack[x.me], x.m)
    BY <1>0, <1>9 DEF Handed
  <2>n. Len(r) \in 0 .. Len(r)
    OBVIOUS
  <2>3. Without(v \o r, Len(r)) = v \o Without(r, Len(r)) /\ v \o Without(r, Len(r)) = v
    BY <2>n, OperandsOnTop, OperandsCleared
  <2>4. Topmost(v \o r, Len(r)) = Topmost(r, Len(r)) /\ Topmost(r, Len(r)) = r
    BY <2>n, OnTop, WithoutAll
  <2>5. Without(stack[x.me], x.m) = v /\ Topmost(stack[x.me], x.m) = r
    BY <2>3, <2>4, <1>1, <1>2
  <2> QED BY <2>1, <2>2, <2>5, <1>3, <1>7, <1>r, <1>v, <1>v2 DEF Delivered
<1> QED BY <1>8, <1>9

-----------------------------------------------------------------------------
(* The activations: what each stands on, and how it resumes.                *)

Floors == [Stacks -> Seq(Content)]
Frames == [return: Nat \X Nat, results: {"A", "B"}]

Room(f, u) == \A s \in Stacks : Len(u[s]) + max[f][s] <= Capacity

\* The function of activation k, when the last one runs f.
Of(frs, f, k) == IF k = Len(frs) THEN f ELSE frs[k + 1].return[1]

\* With the results of f where frame fr wants them, the stacks u that its
\* activation stands on are, above `below`, what the verifier inferred at the
\* return address, which lies on top of C.
Resumes(fr, below, u, f) ==
  /\ fr.return[1] \in Functions /\ fr.return[2] \in DOMAIN Code(fr.return[1])
  /\ Seen(fr.return[1], fr.return[2])
  /\ LET sh == shape[fr.return[1]][fr.return[2]]
     IN  /\ u[fr.results] \o program[f].results = below[fr.results] \o sh[fr.results]
         /\ u[Other(fr.results)] = below[Other(fr.results)] \o sh[Other(fr.results)]
         /\ u["C"] = (below["C"] \o sh["C"]) \o <<Marker>>

\* One activation.  HALT empties the stacks into the results, so that only the
\* first may reach one.
Active(bs, frs, f, k) ==
  /\ Of(frs, f, k) \in Functions
  /\ Floor(bs[k]) /\ Room(Of(frs, f, k), bs[k])
  /\ HasHalt(Of(frs, f, k)) => k = 1
  /\ k = 1 => program[Of(frs, f, k)].results = program[1].results
  /\ k > 1 => Resumes(frs[k], bs[k - 1], bs[k], Of(frs, f, k))

Chain(bs, frs, f) ==
  /\ bs \in Seq(Floors) /\ frs \in Seq(Frames)
  /\ Len(bs) = Len(frs) /\ Len(frs) \in 1 .. Capacity
  /\ bs[1] = HostStack /\ frs[1].results = "A"
  /\ \A k \in 1 .. Len(frs) : Active(bs, frs, f, k)

LEMMA ChainNext ==
  ASSUME UNCHANGED verifierVars, NEW bs, NEW frs, NEW f, Chain(bs, frs, f),
         base' = bs, frames' = frs, at'[1] = f
  PROVE  Chain(base, frames, at[1])'
<1>1. program' = program /\ shape' = shape /\ max' = max
  BY DEF verifierVars
<1>2. \A k : Active(base, frames, at[1], k)' <=> Active(bs, frs, f, k)
  BY <1>1 DEF Active, Of, Room, Resumes, Functions, Code, HasHalt, Seen
<1> QED BY <1>2 DEF Chain

LEMMA ChainFacts ==
  ASSUME NEW bs, NEW frs, NEW f, Chain(bs, frs, f)
  PROVE  /\ Len(frs) \in Nat \ {0} /\ Len(frs) <= Capacity /\ Len(bs) = Len(frs) /\ frs # <<>>
         /\ f \in Functions /\ Floor(bs[Len(bs)]) /\ Room(f, bs[Len(bs)]) /\ frs[Len(frs)] \in Frames
         /\ HasHalt(f) => Len(frs) = 1
         /\ Len(frs) = 1 => /\ bs[Len(bs)] = HostStack /\ frs[Len(frs)].results = "A"
                            /\ program[f].results = program[1].results
         /\ Len(frs) > 1 => Resumes(frs[Len(frs)], bs[Len(bs) - 1], bs[Len(bs)], f)
<1>0. Capacity \in Nat \ {0}
  BY MachineConstants
<1>1. /\ Len(frs) \in Nat \ {0} /\ Len(frs) <= Capacity /\ Len(bs) = Len(frs) /\ frs # <<>>
      /\ Len(frs) \in 1 .. Len(frs)
  BY <1>0 DEF Chain
<1>2. frs[Len(frs)] \in Frames
  <2>1. frs \in Seq(Frames)
    BY DEF Chain
  <2> QED BY <2>1, <1>1, ElementOfSeq
<1>3. Active(bs, frs, f, Len(frs)) /\ Of(frs, f, Len(frs)) = f
  BY <1>1 DEF Chain, Of
<1>4. bs[1] = HostStack /\ frs[1].results = "A"
  BY DEF Chain
<1> QED BY <1>1, <1>2, <1>3, <1>4 DEF Active

\* Another function takes the last activation over.
LEMMA ChainReplaced ==
  ASSUME NEW bs, NEW frs, NEW f, Chain(bs, frs, f),
         NEW g \in Functions, ~HasHalt(g), Room(g, bs[Len(bs)]), program[g].results = program[f].results
  PROVE  Chain(bs, frs, g)
<1>1. Len(bs) = Len(frs) /\ Len(frs) \in 1 .. Len(frs)
  BY ChainFacts
<1>2. Of(frs, f, Len(frs)) = f /\ Of(frs, g, Len(frs)) = g
  BY DEF Of
<1>3. Active(bs, frs, g, Len(frs))
  <2>1. Active(bs, frs, f, Len(frs))
    BY <1>1 DEF Chain
  <2>2. Len(frs) > 1 => Resumes(frs[Len(frs)], bs[Len(frs) - 1], bs[Len(frs)], g)
    BY <2>1, <1>2 DEF Active, Resumes
  <2> QED BY <2>1, <2>2, <1>1, <1>2 DEF Active
<1>4. ASSUME NEW k \in 1 .. Len(frs), k # Len(frs)
      PROVE  Active(bs, frs, g, k)
  <2>1. Of(frs, f, k) = Of(frs, g, k)
    BY <1>4 DEF Of
  <2>2. Active(bs, frs, f, k)
    BY DEF Chain
  <2> QED BY <2>1, <2>2 DEF Active
<1> QED BY <1>3, <1>4 DEF Chain

LEMMA Appended ==
  ASSUME NEW S, NEW s \in Seq(S), NEW e \in S
  PROVE  /\ Append(s, e) \in Seq(S) /\ Len(Append(s, e)) = Len(s) + 1 /\ Append(s, e)[Len(s) + 1] = e
         /\ \A k \in 1 .. Len(s) : Append(s, e)[k] = s[k]
OBVIOUS

\* A call adds an activation.
LEMMA ChainGrown ==
  ASSUME NEW bs, NEW frs, NEW f, Chain(bs, frs, f), Len(frs) < Capacity,
         NEW g \in Functions, ~HasHalt(g), NEW u, Floor(u), Room(g, u),
         NEW fr \in Frames, fr.return[1] = f, Resumes(fr, bs[Len(bs)], u, g)
  PROVE  Chain(Append(bs, u), Append(frs, fr), g)
<1>0. Capacity \in Nat
  BY MachineConstants
<1>b. PICK b \in Seq(Floors) :
        /\ b = Append(bs, u) /\ Len(b) = Len(bs) + 1 /\ b[Len(bs) + 1] = u
        /\ \A k \in 1 .. Len(bs) : b[k] = bs[k]
  <2>1. bs \in Seq(Floors) /\ u \in Floors
    BY DEF Chain, Floor, Floors
  <2>2. /\ Append(bs, u) \in Seq(Floors) /\ Len(Append(bs, u)) = Len(bs) + 1 /\ Append(bs, u)[Len(bs) + 1] = u
        /\ \A k \in 1 .. Len(bs) : Append(bs, u)[k] = bs[k]
    BY <2>1, Appended
  <2> QED BY <2>2
<1>r. PICK r \in Seq(Frames) :
        /\ r = Append(frs, fr) /\ Len(r) = Len(frs) + 1 /\ r[Len(frs) + 1] = fr
        /\ \A k \in 1 .. Len(frs) : r[k] = frs[k]
  <2>1. frs \in Seq(Frames)
    BY DEF Chain
  <2>2. /\ Append(frs, fr) \in Seq(Frames) /\ Len(Append(frs, fr)) = Len(frs) + 1 /\ Append(frs, fr)[Len(frs) + 1] = fr
        /\ \A k \in 1 .. Len(frs) : Append(frs, fr)[k] = frs[k]
    BY <2>1, Appended
  <2> QED BY <2>2
<1>1. Len(frs) \in Nat \ {0} /\ Len(bs) = Len(frs)
  BY ChainFacts
<1>2. Len(b) = Len(r) /\ Len(r) \in 1 .. Capacity
  BY <1>b, <1>r, <1>1, <1>0
<1>3. b[1] = HostStack /\ r[1].results = "A"
  BY <1>b, <1>r, <1>1 DEF Chain
<1>4. ASSUME NEW k \in 1 .. Len(frs)
      PROVE  Active(b, r, g, k)
  <2>1. Active(bs, frs, f, k)
    BY DEF Chain
  <2>2. Of(r, g, k) = Of(frs, f, k)
    <3>1. CASE k = Len(frs)
      BY <3>1, <1>r, <1>1 DEF Of
    <3>2. CASE k # Len(frs)
      <4>1. k + 1 \in 1 .. Len(frs) /\ k # Len(r)
        BY <3>2, <1>r, <1>1
      <4> QED BY <4>1, <3>2, <1>r DEF Of
    <3> QED BY <3>1, <3>2
  <2>3. b[k] = bs[k] /\ r[k] = frs[k] /\ (k > 1 => b[k - 1] = bs[k - 1])
    BY <1>b, <1>r, <1>1
  <2> QED BY <2>1, <2>2, <2>3 DEF Active
<1>5. Active(b, r, g, Len(frs) + 1)
  <2>1. Of(r, g, Len(frs) + 1) = g
    BY <1>r DEF Of
  <2>2. b[Len(frs) + 1] = u /\ b[Len(frs) + 1 - 1] = bs[Len(bs)] /\ r[Len(frs) + 1] = fr /\ Len(frs) + 1 # 1
    BY <1>b, <1>r, <1>1
  <2> QED BY <2>1, <2>2 DEF Active
<1>6. \A k \in 1 .. Len(r) : k \in 1 .. Len(frs) \/ k = Len(frs) + 1
  BY <1>r, <1>1
<1>7. Chain(b, r, g)
  BY <1>2, <1>3, <1>4, <1>5, <1>6 DEF Chain
<1> QED BY <1>7, <1>b, <1>r

\* A return takes the last activation away.
LEMMA ChainShrunk ==
  ASSUME NEW bs, NEW frs, NEW f, Chain(bs, frs, f), Len(frs) > 1
  PROVE  Chain(Without(bs, 1), Without(frs, 1), frs[Len(frs)].return[1])
<1>1. Len(frs) \in Nat \ {0} /\ Len(bs) = Len(frs) /\ Len(frs) <= Capacity
  BY ChainFacts
<1>2. bs \in Seq(Floors) /\ frs \in Seq(Frames) /\ 1 \in 0 .. Len(bs) /\ 1 \in 0 .. Len(frs)
  BY <1>1 DEF Chain
<1>b. PICK b \in Seq(Floors) :
        b = Without(bs, 1) /\ Len(b) = Len(bs) - 1 /\ \A k \in 1 .. Len(bs) - 1 : b[k] = bs[k]
  BY <1>2, WithoutOf
<1>r. PICK r \in Seq(Frames) :
        r = Without(frs, 1) /\ Len(r) = Len(frs) - 1 /\ \A k \in 1 .. Len(frs) - 1 : r[k] = frs[k]
  BY <1>2, WithoutOf
<1>g. PICK g : g = frs[Len(frs)].return[1]
  OBVIOUS
<1>0. Capacity \in Nat
  BY MachineConstants
<1>3. Len(b) = Len(r) /\ Len(r) \in 1 .. Capacity
  BY <1>b, <1>r, <1>1, <1>0
<1>4. b[1] = HostStack /\ r[1].results = "A"
  BY <1>b, <1>r, <1>1 DEF Chain
<1>5. ASSUME NEW k \in 1 .. Len(r)
      PROVE  Active(b, r, g, k)
  <2>0. k \in 1 .. Len(frs) /\ k # Len(frs) /\ k \in 1 .. Len(frs) - 1
    BY <1>r, <1>1
  <2>1. Active(bs, frs, f, k)
    BY <2>0 DEF Chain
  <2>2. Of(r, g, k) = Of(frs, f, k)
    <3>1. CASE k = Len(r)
      BY <3>1, <2>0, <1>r, <1>g, <1>1 DEF Of
    <3>2. CASE k # Len(r)
      <4>1. k + 1 \in 1 .. Len(frs) - 1
        BY <3>2, <1>r, <1>1
      <4> QED BY <4>1, <3>2, <2>0, <1>r DEF Of
    <3> QED BY <3>1, <3>2
  <2>3. b[k] = bs[k] /\ r[k] = frs[k] /\ (k > 1 => b[k - 1] = bs[k - 1])
    BY <2>0, <1>b, <1>r, <1>1
  <2> QED BY <2>1, <2>2, <2>3 DEF Active
<1>6. Chain(b, r, g)
  BY <1>3, <1>4, <1>5 DEF Chain
<1> QED BY <1>6, <1>b, <1>r, <1>g

-----------------------------------------------------------------------------
(* The invariant, and the steps that keep it.                               *)

\* The shape the verifier inferred where the program is.
Here == shape[at[1]][at[2]]

Run ==
  /\ verdict = "accepted"
  /\ at[2] \in DOMAIN Code(at[1]) /\ Seen(at[1], at[2])
  /\ Chain(base, frames, at[1])
  /\ Stands(stack, base[Len(base)], Here)

Outcomes ==
  /\ outcome = "running" => Run
  /\ outcome # "running" => WithinLimits
  /\ outcome = "done" => stack["A"] = program[1].results /\ stack["B"] = <<>>

MInv == VInv /\ Outcomes

LEMMA RunFacts ==
  ASSUME VInv, Run
  PROVE  /\ program \in Programs /\ at[1] \in Functions /\ at[1] \in Nat /\ at[2] \in Nat
         /\ Now \in Instruction /\ Now.me \in {"A", "B"}
         /\ Names(Now) /\ Structured(at[1], Now) /\ Accepts(at[1], Now, Here) /\ Wf(Here)
         /\ \A j \in Successors(Now, at[2]) :
              j \in DOMAIN Code(at[1]) /\ shape[at[1]][j] = After(Now, Here)
         /\ \A s \in Stacks : Len(Here[s]) <= max[at[1]][s]
         /\ Floor(base[Len(base)]) /\ Stands(stack, base[Len(base)], Here)
<1>1. program \in Programs /\ verdict = "accepted"
  BY DEF VInv, VTypes, Run
<1>2. at[1] \in Functions /\ Floor(base[Len(base)])
  BY ChainFacts DEF Run
<1>3. Code(at[1]) \in Seq(Instruction) /\ DOMAIN Code(at[1]) = 1 .. Len(Code(at[1])) /\ at[1] \in Nat
  BY <1>1, <1>2, ProgramFacts
<1>4. at[2] \in 1 .. Len(Code(at[1])) /\ at[2] \in Nat
  <2>1. at[2] \in 1 .. Len(Code(at[1]))
    BY <1>3 DEF Run
  <2> QED BY <2>1, <1>3
<1>5. Now \in Instruction
  BY <1>3, <1>4, ElementOfSeq DEF Now
<1>6. Now.me \in {"A", "B"}
  BY <1>5, OwnOther
<1>7. Consistent
  BY <1>1, AcceptedConsistent
<1>8. at[2] \in DOMAIN Code(at[1]) /\ Seen(at[1], at[2])
  BY DEF Run
<1>9. /\ Wf(Here) /\ Names(Now) /\ Structured(at[1], Now) /\ Checked(at[1], at[2])
      /\ \A s \in Stacks : Len(Here[s]) <= max[at[1]][s]
  BY <1>2, <1>7, <1>8 DEF Consistent, Here, Now
<1>10. /\ Accepts(at[1], Now, Here)
       /\ \A j \in Successors(Now, at[2]) :
            j \in DOMAIN Code(at[1]) /\ shape[at[1]][j] = After(Now, Here)
  BY <1>9 DEF Checked, Here, Now
<1> QED BY <1>1, <1>2, <1>3, <1>4, <1>5, <1>6, <1>9, <1>10 DEF Run

LEMMA RunPresent ==
  ASSUME VInv, Run
  PROVE  Present(Now)
<1>1. frames # <<>>
  BY ChainFacts DEF Run
<1>2. /\ program \in Programs /\ at[1] \in Functions /\ Now \in Instruction /\ Names(Now)
      /\ Accepts(at[1], Now, Here) /\ Wf(Here)
      /\ Floor(base[Len(base)]) /\ Stands(stack, base[Len(base)], Here)
  BY RunFacts
<1> QED BY <1>1, <1>2, PresentThere

\* What the declared depths of a function leave room for.
LEMMA Deep ==
  ASSUME VInv, NEW f \in Functions, NEW s \in Stacks
  PROVE  max[f][s] \in Nat
BY DEF VInv, VTypes

LEMMA RunLengths ==
  ASSUME VInv, Run, NEW s \in Stacks
  PROVE  /\ Depth(s) = Len(base[Len(base)][s]) + Len(Here[s])
         /\ Len(base[Len(base)][s]) \in Nat /\ Len(Here[s]) \in Nat
         /\ Len(Here[s]) <= max[at[1]][s] /\ Len(base[Len(base)][s]) + max[at[1]][s] <= Capacity
<1>0. Len(Here[s]) <= max[at[1]][s] /\ Wf(Here) /\ Floor(base[Len(base)]) /\ Stands(stack, base[Len(base)], Here)
  BY RunFacts
<1>1. Room(at[1], base[Len(base)])
  BY ChainFacts DEF Run
<1>u. PICK u \in Seq(Content) : u = base[Len(base)][s]
  <2>1. base[Len(base)][s] \in Seq(Content)
    BY <1>0 DEF Floor
  <2> QED BY <2>1
<1>w. PICK w \in Seq(Content) : w = Here[s]
  <2>1. Here[s] \in Seq(Cells)
    BY <1>0 DEF Wf
  <2> QED BY <2>1, CellsInContent
<1>2. stack[s] = u \o w
  BY <1>0, <1>u, <1>w DEF Stands
<1>3. Len(u \o w) = Len(u) + Len(w) /\ Len(u) \in Nat /\ Len(w) \in Nat
  BY Joined
<1> QED BY <1>0, <1>1, <1>2, <1>3, <1>u, <1>w DEF Depth, Room

LEMMA RunWithin ==
  ASSUME VInv, Run
  PROVE  WithinLimits
<1>1. Len(frames) <= Capacity
  BY ChainFacts DEF Run
<1>2. ASSUME NEW s \in Stacks
      PROVE  Depth(s) <= Capacity
  <2>1. at[1] \in Functions
    BY RunFacts
  <2>2. max[at[1]][s] \in Nat /\ Capacity \in Nat
    BY <2>1, Deep, MachineConstants
  <2>3. /\ Depth(s) = Len(base[Len(base)][s]) + Len(Here[s])
        /\ Len(base[Len(base)][s]) \in Nat /\ Len(Here[s]) \in Nat
        /\ Len(Here[s]) <= max[at[1]][s] /\ Len(base[Len(base)][s]) + max[at[1]][s] <= Capacity
    BY RunLengths
  <2>4. \A a, b, m, c \in Nat : b <= m /\ a + m <= c => a + b <= c
    OBVIOUS
  <2>5. Len(base[Len(base)][s]) + Len(Here[s]) <= Capacity
    BY <2>2, <2>3, <2>4
  <2> QED BY <2>3, <2>5
<1> QED BY <1>1, <1>2 DEF WithinLimits

LEMMA SameHere ==
  ASSUME UNCHANGED verifierVars
  PROVE  /\ verdict' = verdict /\ program' = program /\ shape' = shape
         /\ \A f : Code(f)' = Code(f)
         /\ \A f, i : Seen(f, i)' = Seen(f, i)
BY DEF verifierVars, Code, Seen

\* Control goes on within the function.
LEMMA Advances ==
  ASSUME VInv, Run, UNCHANGED verifierVars,
         Stands(stack', base[Len(base)], After(Now, Here)),
         NEW i \in Successors(Now, at[2]), at' = <<at[1], i>>,
         frames' = frames, base' = base
  PROVE  Run'
<1>1. i \in DOMAIN Code(at[1]) /\ shape[at[1]][i] = After(Now, Here)
  BY RunFacts
<1>2. Seen(at[1], i)
  <2>1. Wf(After(Now, Here))
    BY RunFacts, AfterTyped
  <2> QED BY <2>1, <1>1, SeenOf DEF Seen
<1>3. at'[1] = at[1] /\ at'[2] = i
  OBVIOUS
<1>4. Here' = After(Now, Here)
  BY <1>1, <1>3, SameHere DEF Here
<1>5. Chain(base, frames, at[1])'
  <2>b. PICK b : b = base
    OBVIOUS
  <2>r. PICK r : r = frames
    OBVIOUS
  <2>f. PICK f : f = at[1]
    OBVIOUS
  <2>1. Chain(b, r, f)
    BY <2>b, <2>r, <2>f DEF Run
  <2>2. base' = b /\ frames' = r /\ at'[1] = f
    BY <1>3, <2>b, <2>r, <2>f
  <2> QED BY <2>1, <2>2, ChainNext
<1>6. verdict' = "accepted" /\ (at[2] \in DOMAIN Code(at[1]))' /\ Seen(at[1], at[2])'
  BY <1>1, <1>2, <1>3, SameHere DEF Run
<1>7. Stands(stack, base[Len(base)], Here)'
  BY <1>4 DEF Stands
<1> QED BY <1>5, <1>6, <1>7 DEF Run

LEMMA FailKeeps ==
  ASSUME VInv, Run, NEW why \in {"limit", "mismatch", "foreign", "abort"}, Fail(why)
  PROVE  Outcomes'
<1>1. outcome' \notin {"running", "done"} /\ stack' = stack /\ frames' = frames
  BY DEF Fail
<1>2. WithinLimits
  BY RunWithin
<1>3. WithinLimits'
  BY <1>1, <1>2 DEF WithinLimits, Depth
<1> QED BY <1>1, <1>3 DEF Outcomes

LEMMA ContinueKeeps ==
  ASSUME VInv, Run, UNCHANGED verifierVars, outcome = "running",
         Now.op \notin Calls \cup {"ret", "halt", "abort"},
         NEW i \in Successors(Now, at[2]), Continue(Effect(Now), i)
  PROVE  Outcomes'
<1>1. /\ program \in Programs /\ Now \in Instruction /\ Names(Now)
      /\ Accepts(at[1], Now, Here) /\ Wf(Here)
      /\ Floor(base[Len(base)]) /\ Stands(stack, base[Len(base)], Here)
  BY RunFacts
<1>2. Stands(Effect(Now), base[Len(base)], After(Now, Here))
  BY <1>1, EffectIs
<1>3. stack' = Effect(Now) /\ at' = <<at[1], i>> /\ outcome' = "running" /\ frames' = frames /\ base' = base
  BY DEF Continue
<1>4. Stands(stack', base[Len(base)], After(Now, Here))
  BY <1>2, <1>3 DEF Stands
<1>5. Run'
  BY <1>3, <1>4, Advances
<1> QED BY <1>3, <1>5 DEF Outcomes

LEMMA FallsThrough ==
  ASSUME NEW x, NEW i, x.op \in Straights \cup {"alloc", "call", "icall"}
  PROVE  i + 1 \in Successors(x, i)
BY DEF Successors, Straights, Conditional, Tails

LEMMA Branching ==
  ASSUME NEW x, NEW i, x.op \in Branches
  PROVE  x.to \subseteq Successors(x, i) /\ (x.op # "jump" => i + 1 \in Successors(x, i))
<1>1. CASE x.op = "jump"
  BY <1>1 DEF Successors, Conditional, Tails
<1>2. CASE x.op \in Conditional
  <2>1. x.op # "jump" /\ Successors(x, i) = x.to \cup {i + 1}
    BY <1>2 DEF Successors, Conditional, Tails
  <2> QED BY <2>1
<1> QED BY <1>1, <1>2 DEF Branches

LEMMA StraightKeeps ==
  ASSUME VInv, outcome = "running" => Run, Straight
  PROVE  Outcomes'
<1>1. Run /\ outcome = "running" /\ Now.op \in Straights /\ UNCHANGED verifierVars
  BY DEF Straight, Running
<1>2. at[2] + 1 \in Successors(Now, at[2])
  BY <1>1, FallsThrough
<1>3. Now.op \notin Calls \cup {"ret", "halt", "abort"}
  BY <1>1 DEF Straights, Calls, Tails
<1>4. CASE Continue(Effect(Now), at[2] + 1)
  BY <1>1, <1>2, <1>3, <1>4, ContinueKeeps
<1>5. CASE Fail("abort") \/ Fail("foreign")
  BY <1>1, <1>5, FailKeeps
<1> QED BY <1>4, <1>5 DEF Straight

LEMMA AllocateKeeps ==
  ASSUME VInv, outcome = "running" => Run, Allocate
  PROVE  Outcomes'
<1>1. Run /\ outcome = "running" /\ Now.op = "alloc" /\ UNCHANGED verifierVars
  BY DEF Allocate, Running
<1>2. at[2] + 1 \in Successors(Now, at[2])
  BY <1>1, FallsThrough
<1>3. Now.op \notin Calls \cup {"ret", "halt", "abort"}
  BY <1>1 DEF Calls, Tails
<1>4. CASE Continue(Effect(Now), at[2] + 1)
  BY <1>1, <1>2, <1>3, <1>4, ContinueKeeps
<1>5. CASE Fail("limit")
  BY <1>1, <1>5, FailKeeps
<1> QED BY <1>4, <1>5 DEF Allocate

LEMMA BranchKeeps ==
  ASSUME VInv, outcome = "running" => Run, Branch
  PROVE  Outcomes'
<1>1. Run /\ outcome = "running" /\ Now.op \in Branches /\ UNCHANGED verifierVars
  BY DEF Branch, Running
<1>2. Now.op \notin Calls \cup {"ret", "halt", "abort"}
  BY <1>1 DEF Branches, Conditional, Calls, Tails
<1>3. PICK i \in Successors(Now, at[2]) : Continue(Effect(Now), i)
  <2>1. CASE \E i \in Now.to : Continue(Effect(Now), i)
    <3>1. PICK i \in Now.to : Continue(Effect(Now), i)
      BY <2>1
    <3>2. i \in Successors(Now, at[2])
      BY <1>1, Branching
    <3> QED BY <3>1, <3>2
  <2>2. CASE Now.op # "jump" /\ Continue(Effect(Now), at[2] + 1)
    <3>1. at[2] + 1 \in Successors(Now, at[2])
      BY <1>1, <2>2, Branching
    <3> QED BY <2>2, <3>1
  <2> QED BY <2>1, <2>2 DEF Branch
<1> QED BY <1>1, <1>2, <1>3, ContinueKeeps

\* Where a function begins is as the caller leaves the arguments.
LEMMA EntryHere ==
  ASSUME VInv, NEW g \in Functions
  PROVE  1 \in DOMAIN Code(g) /\ Seen(g, 1) /\ shape[g][1] = EntryShape(g)
<1>1. program \in Programs /\ shape[g][1] = EntryShape(g)
  BY DEF VInv, VTypes, VEntries
<1>2. Wf(EntryShape(g))
  BY <1>1, EntryTyped
<1> QED BY <1>1, <1>2, SeenOf, ProgramFacts DEF Seen

LEMMA EnterKeeps ==
  ASSUME VInv, Run, UNCHANGED verifierVars, outcome = "running", Now.op \in {"call", "icall"},
         NEW g \in Functions, ~HasHalt(g), program[g].args = program[Now.n].args,
         program[g].results = program[Now.n].results, Enter(g, Now.me, Found(Now))
  PROVE  Outcomes'
<1>k. PICK kept : kept = Kept(g, Now.me, Found(Now), Append(Found(Now)["C"], Marker))
  OBVIOUS
<1>r. PICK fr : fr = [return |-> <<at[1], at[2] + 1>>, results |-> Now.me]
  OBVIOUS
<1>1. CASE ~(Len(frames) < Capacity /\ Fits(g, kept))
  <2>1. Fail("limit")
    BY <1>1, <1>k DEF Enter
  <2> QED BY <2>1, FailKeeps
<1>2. CASE Len(frames) < Capacity /\ Fits(g, kept)
  <2>1. /\ stack' = Passed(g, Now.me, Found(Now), kept)
        /\ frames' = Append(frames, fr) /\ base' = Append(base, kept)
        /\ at' = <<g, 1>> /\ outcome' = "running"
    BY <1>2, <1>k, <1>r DEF Enter
  <2>2. /\ program \in Programs /\ Now \in Instruction /\ Names(Now) /\ Now.me \in {"A", "B"}
        /\ Accepts(at[1], Now, Here) /\ Wf(Here)
        /\ Floor(base[Len(base)]) /\ Stands(stack, base[Len(base)], Here)
        /\ at[1] \in Functions /\ at[1] \in Nat /\ at[2] \in Nat
    BY RunFacts
  <2>u. PICK u : u = base[Len(base)]
    OBVIOUS
  <2>3. /\ Floor(kept)
        /\ Stands(Passed(g, Now.me, Found(Now), kept), kept, EntryShape(g))
        /\ kept[Now.me] \o program[g].results = u[Now.me] \o After(Now, Here)[Now.me]
        /\ kept[Other(Now.me)] = u[Other(Now.me)] \o After(Now, Here)[Other(Now.me)]
        /\ kept["C"] = (u["C"] \o After(Now, Here)["C"]) \o <<Marker>>
    <3>x. PICK x : x = Now
      OBVIOUS
    <3>h. PICK sh : sh = Here
      OBVIOUS
    <3>f. PICK f : f = at[1]
      OBVIOUS
    <3>1. /\ program \in Programs /\ x \in Instruction /\ Names(x)
          /\ Accepts(f, x, sh) /\ Wf(sh) /\ Floor(u) /\ Stands(stack, u, sh)
      BY <2>2, <2>u, <3>x, <3>h, <3>f
    <3>3. x.op \in {"call", "icall"} /\ Entering(x, g, kept)
      BY <1>k, <3>x DEF Entering
    <3>4. program[g].args = program[x.n].args /\ program[g].results = program[x.n].results
      BY <3>x
    <3>2. Prepared(x, sh, u, g, kept)
      BY <3>1, <3>3, <3>4, EnterStands
    <3> QED BY <3>2, <3>x, <3>h DEF Prepared
  <2>4. /\ at[2] + 1 \in DOMAIN Code(at[1]) /\ shape[at[1]][at[2] + 1] = After(Now, Here)
        /\ Seen(at[1], at[2] + 1)
    <3>1. at[2] + 1 \in Successors(Now, at[2])
      BY FallsThrough
    <3>2. at[2] + 1 \in DOMAIN Code(at[1]) /\ shape[at[1]][at[2] + 1] = After(Now, Here)
      BY <3>1, RunFacts
    <3>3. Wf(After(Now, Here))
      BY <2>2, AfterTyped
    <3> QED BY <3>2, <3>3, SeenOf DEF Seen
  <2>5. fr \in Frames /\ fr.return[1] = at[1] /\ fr.return[2] = at[2] + 1 /\ fr.results = Now.me
    BY <1>r, <2>2 DEF Frames
  <2>6. Resumes(fr, u, kept, g)
    BY <2>2, <2>3, <2>4, <2>5 DEF Resumes
  <2>7. Room(g, kept)
    BY <1>2 DEF Fits, Room
  <2>8. Chain(Append(base, kept), Append(frames, fr), g)
    <3>1. Chain(base, frames, at[1])
      BY DEF Run
    <3> QED BY <3>1, <1>2, <2>3, <2>5, <2>6, <2>7, <2>u, ChainGrown
  <2>9. at'[1] = g /\ at'[2] = 1
    BY <2>1
  <2>10. Chain(base, frames, at[1])'
    BY <2>1, <2>8, <2>9, ChainNext
  <2>11. 1 \in DOMAIN Code(g) /\ Seen(g, 1) /\ shape[g][1] = EntryShape(g)
    BY EntryHere
  <2>12. Here' = EntryShape(g)
    BY <2>9, <2>11, SameHere DEF Here
  <2>13. base'[Len(base')] = kept
    <3>1. base \in Seq(Floors) /\ kept \in Floors
      BY <2>3 DEF Run, Chain, Floor, Floors
    <3>2. Len(Append(base, kept)) = Len(base) + 1 /\ Append(base, kept)[Len(base) + 1] = kept
      BY <3>1, Appended
    <3> QED BY <3>2, <2>1
  <2>14. Stands(stack, base[Len(base)], Here)'
    BY <2>1, <2>3, <2>12, <2>13 DEF Stands
  <2>15. verdict' = "accepted" /\ (at[2] \in DOMAIN Code(at[1]))' /\ Seen(at[1], at[2])'
    BY <2>9, <2>11, SameHere DEF Run
  <2>16. Run'
    BY <2>10, <2>14, <2>15 DEF Run
  <2> QED BY <2>1, <2>16 DEF Outcomes
<1> QED BY <1>1, <1>2

LEMMA ReplaceKeeps ==
  ASSUME VInv, Run, UNCHANGED verifierVars, outcome = "running", Now.op \in Tails,
         NEW g \in Functions, ~HasHalt(g), program[g].args = program[Now.n].args,
         program[g].results = program[Now.n].results, Replace(g, Now.me, Found(Now), Now.m)
  PROVE  Outcomes'
<1>k. PICK kept : kept = Kept(g, Now.me, Found(Now), Without(Found(Now)["C"], Now.m))
  OBVIOUS
<1>1. CASE ~Fits(g, kept)
  <2>1. Fail("limit")
    BY <1>1, <1>k DEF Replace
  <2> QED BY <2>1, FailKeeps
<1>2. CASE Fits(g, kept)
  <2>1. /\ stack' = Passed(g, Now.me, Found(Now), kept)
        /\ frames' = frames /\ base' = base /\ at' = <<g, 1>> /\ outcome' = "running"
    BY <1>2, <1>k DEF Replace
  <2>2. /\ program \in Programs /\ Now \in Instruction /\ Names(Now) /\ Structured(at[1], Now)
        /\ Accepts(at[1], Now, Here) /\ Wf(Here)
        /\ Floor(base[Len(base)]) /\ Stands(stack, base[Len(base)], Here)
    BY RunFacts
  <2>u. PICK u : u = base[Len(base)]
    OBVIOUS
  <2>3. kept = u /\ Stands(Passed(g, Now.me, Found(Now), kept), u, EntryShape(g))
    <3>x. PICK x : x = Now
      OBVIOUS
    <3>h. PICK sh : sh = Here
      OBVIOUS
    <3>f. PICK f : f = at[1]
      OBVIOUS
    <3>1. /\ program \in Programs /\ x \in Instruction /\ Names(x)
          /\ Accepts(f, x, sh) /\ Wf(sh) /\ Floor(u) /\ Stands(stack, u, sh)
      BY <2>2, <2>u, <3>x, <3>h, <3>f
    <3>2. x.op \in Tails /\ Replacing(x, g, kept)
      BY <1>k, <3>x DEF Replacing
    <3>3. program[g].args = program[x.n].args
      BY <3>x
    <3>4. kept = u /\ Stands(Passed(g, x.me, Found(x), kept), u, EntryShape(g))
      BY <3>1, <3>2, <3>3, ReplaceStands
    <3> QED BY <3>4, <3>x
  <2>4. Room(g, base[Len(base)])
    BY <1>2, <2>3, <2>u DEF Fits, Room
  <2>5. program[g].results = program[at[1]].results
    BY <2>2 DEF Structured
  <2>6. Chain(base, frames, g)
    <3>1. Chain(base, frames, at[1])
      BY DEF Run
    <3> QED BY <3>1, <2>4, <2>5, ChainReplaced
  <2>7. at'[1] = g /\ at'[2] = 1
    BY <2>1
  <2>8. Chain(base, frames, at[1])'
    BY <2>1, <2>6, <2>7, ChainNext
  <2>9. 1 \in DOMAIN Code(g) /\ Seen(g, 1) /\ shape[g][1] = EntryShape(g)
    BY EntryHere
  <2>10. Here' = EntryShape(g)
    BY <2>7, <2>9, SameHere DEF Here
  <2>11. Stands(stack, base[Len(base)], Here)'
    BY <2>1, <2>3, <2>u, <2>10 DEF Stands
  <2>12. verdict' = "accepted" /\ (at[2] \in DOMAIN Code(at[1]))' /\ Seen(at[1], at[2])'
    BY <2>7, <2>9, SameHere DEF Run
  <2>13. Run'
    BY <2>8, <2>11, <2>12 DEF Run
  <2> QED BY <2>1, <2>13 DEF Outcomes
<1> QED BY <1>1, <1>2

LEMMA CallKeeps ==
  ASSUME VInv, outcome = "running" => Run, Call
  PROVE  Outcomes'
<1>1. Run /\ outcome = "running" /\ Now.op \in {"call", "tcall"} /\ UNCHANGED verifierVars
  BY DEF Call, Running
<1>2. Now.n \in Functions /\ ~HasHalt(Now.n)
  <2>1. Structured(at[1], Now)
    BY <1>1, RunFacts
  <2> QED BY <2>1, <1>1 DEF Structured, Calls, Tails
<1>3. Found(Now) = stack
  BY <1>1 DEF Found
<1>4. CASE Now.op = "call"
  <2>1. Enter(Now.n, Now.me, Found(Now))
    BY <1>3, <1>4 DEF Call
  <2> QED BY <2>1, <1>1, <1>2, <1>4, EnterKeeps
<1>5. CASE Now.op = "tcall"
  <2>1. Replace(Now.n, Now.me, Found(Now), Now.m) /\ Now.op \in Tails
    BY <1>3, <1>5 DEF Call, Tails
  <2> QED BY <2>1, <1>1, <1>2, ReplaceKeeps
<1> QED BY <1>1, <1>4, <1>5

LEMMA IndirectCallKeeps ==
  ASSUME VInv, outcome = "running" => Run, IndirectCall
  PROVE  Outcomes'
<1>1. Run /\ outcome = "running" /\ Now.op \in {"icall", "itcall"} /\ UNCHANGED verifierVars
  BY DEF IndirectCall, Running
<1>2. CASE Fail("mismatch")
  BY <1>1, <1>2, FailKeeps
<1>3. CASE \E g \in Functions :
             /\ Callable(g, Now.n)
             /\ IF Now.op = "icall" THEN Enter(g, Now.me, Addressed(Now))
                                    ELSE Replace(g, Now.me, Addressed(Now), Now.m)
  <2>1. PICK g \in Functions :
          /\ Callable(g, Now.n)
          /\ IF Now.op = "icall" THEN Enter(g, Now.me, Addressed(Now))
                                 ELSE Replace(g, Now.me, Addressed(Now), Now.m)
    BY <1>3
  <2>2. /\ ~HasHalt(g) /\ program[g].args = program[Now.n].args
        /\ program[g].results = program[Now.n].results
    BY <2>1 DEF Callable
  <2>3. Found(Now) = Addressed(Now)
    BY <1>1 DEF Found
  <2>4. CASE Now.op = "icall"
    <3>1. Enter(g, Now.me, Found(Now))
      BY <2>1, <2>3, <2>4
    <3> QED BY <3>1, <1>1, <2>2, <2>4, EnterKeeps
  <2>5. CASE Now.op = "itcall"
    <3>1. Replace(g, Now.me, Found(Now), Now.m) /\ Now.op \in Tails
      BY <2>1, <2>3, <2>5 DEF Tails
    <3> QED BY <3>1, <1>1, <2>2, ReplaceKeeps
  <2> QED BY <1>1, <2>4, <2>5
<1> QED BY <1>2, <1>3 DEF IndirectCall

LEMMA AbortKeeps ==
  ASSUME VInv, outcome = "running" => Run, Abort
  PROVE  Outcomes'
<1>1. Run /\ Fail("abort")
  BY DEF Abort, Running
<1> QED BY <1>1, FailKeeps

LEMMA HostFloor ==
  /\ HostStack["A"] = <<>> /\ HostStack["B"] = <<>> /\ HostStack["C"] = <<Marker>>
  /\ Floor(HostStack) /\ HostStack \in Floors
<1>1. HostStack["A"] = <<>> /\ HostStack["B"] = <<>> /\ HostStack["C"] = <<Marker>>
  BY DEF HostStack, Stacks
<1>2. Marker \in Content
  BY DEF Content
<1>3. <<Marker>> \in Seq(Content) /\ <<>> \in Seq(Content) /\ <<>> \in Seq(Scalars)
  BY <1>2
<1>4. HostStack \in [Stacks -> Seq(Content)]
  BY <1>3 DEF HostStack
<1>5. <<Marker>> # <<>> /\ At(<<Marker>>, 0) = Marker
  <2>1. Len(<<Marker>>) = 1 /\ <<Marker>>[1] = Marker
    OBVIOUS
  <2> QED BY <2>1 DEF At
<1> QED BY <1>1, <1>3, <1>4, <1>5 DEF Floor, Floors

LEMMA Single == \A n \in 0 .. 1 : n <= Capacity
BY MachineConstants

\* The end of a run leaves its results and fits.
LEMMA EndKeeps ==
  ASSUME VInv, Run, UNCHANGED verifierVars, Len(frames) = 1, outcome' = "done",
         stack'["A"] = program[at[1]].results, stack'["B"] = <<>>, Len(stack'["C"]) \in 0 .. 1,
         Len(frames') \in 0 .. 1, NEW me \in {"A", "B"}, Here[me] = program[at[1]].results
  PROVE  Outcomes'
<1>0. Capacity \in Nat \ {0}
  BY MachineConstants
<1>1. program[at[1]].results = program[1].results
  BY ChainFacts DEF Run
<1>2. Len(program[at[1]].results) <= Capacity
  <2>1. me \in Stacks /\ at[1] \in Functions
    BY RunFacts DEF Stacks
  <2>2. /\ Len(base[Len(base)][me]) \in Nat /\ Len(Here[me]) \in Nat
        /\ Len(Here[me]) <= max[at[1]][me] /\ Len(base[Len(base)][me]) + max[at[1]][me] <= Capacity
    BY <2>1, RunLengths
  <2>3. max[at[1]][me] \in Nat
    BY <2>1, Deep
  <2>a. PICK a \in Nat : a = Len(base[Len(base)][me])
    BY <2>2
  <2>b. PICK b \in Nat : b = Len(Here[me])
    BY <2>2
  <2>m. PICK m \in Nat : m = max[at[1]][me]
    BY <2>3
  <2>4. b <= m /\ a + m <= Capacity
    BY <2>2, <2>a, <2>b, <2>m
  <2>5. b <= Capacity
    BY <2>4, <1>0
  <2> QED BY <2>5, <2>b
<1>3. ASSUME NEW s \in Stacks
      PROVE  Len(stack'[s]) <= Capacity
  <2>1. CASE s = "A"
    BY <2>1, <1>2
  <2>2. CASE s = "B"
    <3>1. Len(<<>>) = 0
      OBVIOUS
    <3> QED BY <3>1, <2>2, <1>0
  <2>3. CASE s = "C"
    <3>1. Len(stack'["C"]) <= Capacity
      BY <1>0, Single
    <3> QED BY <3>1, <2>3
  <2> QED BY <2>1, <2>2, <2>3 DEF Stacks
<1>4. Len(frames') <= Capacity
  BY <1>0, Single
<1>5. WithinLimits'
  BY <1>3, <1>4 DEF WithinLimits, Depth
<1>6. program'[1].results = program[at[1]].results
  BY <1>1, SameHere
<1> QED BY <1>5, <1>6 DEF Outcomes

LEMMA HaltKeeps ==
  ASSUME VInv, outcome = "running" => Run, Halt
  PROVE  Outcomes'
<1>1. Run /\ Now.op = "halt" /\ UNCHANGED verifierVars /\ outcome' = "done" /\ frames' = frames
  BY DEF Halt, Running
<1>2. /\ Accepts(at[1], Now, Here) /\ Now.me \in {"A", "B"}
      /\ Stands(stack, base[Len(base)], Here) /\ at[1] \in Functions /\ program \in Programs
  BY <1>1, RunFacts
<1>3. Len(frames) = 1 /\ base[Len(base)] = HostStack
  <2>1. HasHalt(at[1])
    BY <1>1 DEF Run, HasHalt, Now
  <2> QED BY <2>1, <1>1, ChainFacts DEF Run
<1>r. PICK r \in Seq(Scalars) : r = program[at[1]].results
  BY <1>2, ProgramFacts
<1>4. Here["C"] = <<>> /\ Here[Other(Now.me)] = <<>> /\ Here[Now.me] = r
  BY <1>1, <1>2, <1>r DEF Accepts, Demands
<1>5. /\ stack["A"] = <<>> \o Here["A"] /\ stack["B"] = <<>> \o Here["B"]
      /\ stack["C"] = <<Marker>> \o Here["C"]
  BY <1>2, <1>3, HostFloor DEF Stands, Stacks
<1>6. <<>> \o <<>> = <<>> /\ <<>> \o r = r
  BY ConcatEmptySeq
<1>7. Len(stack["C"]) = 1
  <2>1. <<Marker>> \o <<>> = <<Marker>> /\ Len(<<Marker>>) = 1
    OBVIOUS
  <2> QED BY <2>1, <1>4, <1>5
<1>8. stack'["A"] = r /\ stack'["B"] = <<>> /\ stack'["C"] = stack["C"]
  <2>1. CASE Now.me = "A"
    <3>1. stack' = stack /\ Other(Now.me) = "B"
      BY <2>1 DEF Halt, Other
    <3> QED BY <3>1, <2>1, <1>4, <1>5, <1>6
  <2>2. CASE Now.me = "B"
    <3>1. stack'["A"] = stack["A"] \o stack["B"] /\ stack'["B"] = <<>> /\ stack'["C"] = stack["C"]
      BY <2>2 DEF Halt, Stacks
    <3>2. Other(Now.me) = "A"
      BY <2>2 DEF Other
    <3> QED BY <3>1, <3>2, <2>2, <1>4, <1>5, <1>6
  <2> QED BY <2>1, <2>2, <1>2
<1>9. Len(stack'["C"]) \in 0 .. 1 /\ Len(frames') \in 0 .. 1
  BY <1>1, <1>3, <1>7, <1>8
<1> QED BY <1>1, <1>2, <1>3, <1>4, <1>8, <1>9, <1>r, EndKeeps

LEMMA ReturnKeeps ==
  ASSUME VInv, outcome = "running" => Run, Return
  PROVE  Outcomes'
<1>1. /\ Run /\ outcome = "running" /\ Now.op = "ret" /\ UNCHANGED verifierVars
      /\ stack' = Handed(Now, frames[Len(frames)].results)
      /\ frames' = Without(frames, 1) /\ base' = Without(base, 1)
  BY DEF Return, Running
<1>x. PICK x : x = Now
  OBVIOUS
<1>h. PICK sh : sh = Here
  OBVIOUS
<1>f. PICK f : f = at[1]
  OBVIOUS
<1>u. PICK u : u = base[Len(base)]
  OBVIOUS
<1>r. PICK fr : fr = frames[Len(frames)]
  OBVIOUS
<1>2. /\ program \in Programs /\ x \in Instruction /\ x.op = "ret" /\ f \in Functions
      /\ Accepts(f, x, sh) /\ Wf(sh) /\ Floor(u) /\ Stands(stack, u, sh)
  BY <1>1, <1>x, <1>h, <1>f, <1>u, RunFacts
<1>c. Chain(base, frames, f)
  BY <1>1, <1>f DEF Run
<1>3. /\ Len(frames) \in Nat \ {0} /\ Len(base) = Len(frames) /\ fr \in Frames
      /\ Len(frames) = 1 => u = HostStack /\ fr.results = "A" /\ program[f].results = program[1].results
      /\ Len(frames) > 1 => Resumes(fr, base[Len(base) - 1], u, f)
  BY <1>c, <1>u, <1>r, ChainFacts
<1>4. fr.results \in {"A", "B"}
  BY <1>3 DEF Frames
<1>s. stack' = Handed(x, fr.results)
  BY <1>1, <1>x, <1>r
<1>5. CASE Len(frames) = 1
  <2>1. outcome' = "done"
    BY <1>5 DEF Return
  <2>2. <<>> \in Seq(Content) /\ u["C"] = <<>> \o <<Marker>>
    <3>1. <<>> \o <<Marker>> = <<Marker>>
      OBVIOUS
    <3> QED BY <3>1, <1>3, <1>5, HostFloor
  <2>3. /\ Handed(x, fr.results)[fr.results] = u[fr.results] \o program[f].results
        /\ Handed(x, fr.results)[Other(fr.results)] = u[Other(fr.results)]
        /\ Handed(x, fr.results)["C"] = <<>>
    <3>1. <<>> \in Seq(Content) /\ Addressing(u, <<>>)
      BY <2>2 DEF Addressing
    <3>2. Delivered(Handed(x, fr.results), u, fr.results, f, <<>>)
      BY <1>2, <1>4, <3>1, ReturnStands
    <3> QED BY <3>2 DEF Delivered
  <2>4. fr.results = "A" /\ Other(fr.results) = "B"
    BY <1>3, <1>5 DEF Other
  <2>q. PICK q \in Seq(Scalars) : q = program[f].results
    BY <1>2, ProgramFacts
  <2>5. stack'["A"] = q /\ stack'["B"] = <<>> /\ stack'["C"] = <<>>
    <3>1. <<>> \o q = q
      BY ConcatEmptySeq
    <3>2. u["A"] = <<>> /\ u["B"] = <<>>
      BY <1>3, <1>5, HostFloor
    <3>3. Handed(x, fr.results)["A"] = u["A"] \o q /\ Handed(x, fr.results)["B"] = u["B"]
      BY <2>3, <2>4, <2>q
    <3> QED BY <3>1, <3>2, <3>3, <2>3, <1>s
  <2>6. Len(stack'["C"]) \in 0 .. 1
    <3>1. Len(<<>>) = 0
      OBVIOUS
    <3> QED BY <3>1, <2>5
  <2>7. Len(frames') \in 0 .. 1
    <3>1. frames \in Seq(Frames) /\ 1 \in 0 .. Len(frames)
      BY <1>c, <1>5 DEF Chain
    <3>2. Len(Without(frames, 1)) = Len(frames) - 1
      BY <3>1, WithoutOf
    <3>3. Len(Without(frames, 1)) = 0
      BY <3>2, <1>5
    <3> QED BY <3>3, <1>1
  <2>8. x.me \in {"A", "B"} /\ sh[x.me] = q
    BY <1>2, <2>q, OwnOther DEF Accepts, Demands, Returnable
  <2> QED BY <1>1, <1>5, <1>f, <1>h, <2>1, <2>5, <2>6, <2>7, <2>8, <2>q, EndKeeps
<1>6. CASE Len(frames) > 1
  <2>1. at' = fr.return /\ outcome' = "running"
    BY <1>1, <1>3, <1>6, <1>r DEF Return
  <2>g. PICK g : g = fr.return[1]
    OBVIOUS
  <2>j. PICK j : j = fr.return[2]
    OBVIOUS
  <2>w. PICK w : w = base[Len(base) - 1]
    OBVIOUS
  <2>n. PICK next : next = shape[g][j]
    OBVIOUS
  <2>2. /\ g \in Functions /\ j \in DOMAIN Code(g) /\ Seen(g, j)
        /\ u[fr.results] \o program[f].results = w[fr.results] \o next[fr.results]
        /\ u[Other(fr.results)] = w[Other(fr.results)] \o next[Other(fr.results)]
        /\ u["C"] = (w["C"] \o next["C"]) \o <<Marker>>
    BY <1>3, <1>6, <2>g, <2>j, <2>w, <2>n DEF Resumes
  <2>3. Wf(next)
    BY <2>2, <2>n DEF VInv, VTypes
  <2>z. PICK z \in Seq(Content) : z = w["C"] \o next["C"]
    <3>1. base \in Seq(Floors) /\ Len(base) - 1 \in 1 .. Len(base)
      BY <1>c, <1>3, <1>6 DEF Chain
    <3>2. w \in Floors
      BY <3>1, <2>w, ElementOfSeq
    <3>3. w["C"] \in Seq(Content)
      BY <3>2 DEF Floors, Stacks
    <3>4. next["C"] \in Seq(Content)
      BY <2>3, ContextShape
    <3> QED BY <3>3, <3>4, Joined
  <2>4. u["C"] = z \o <<Marker>>
    BY <2>2, <2>z
  <2>5. /\ Handed(x, fr.results)[fr.results] = u[fr.results] \o program[f].results
        /\ Handed(x, fr.results)[Other(fr.results)] = u[Other(fr.results)]
        /\ Handed(x, fr.results)["C"] = z
    <3>1. Addressing(u, z)
      BY <2>4 DEF Addressing
    <3>2. Delivered(Handed(x, fr.results), u, fr.results, f, z)
      BY <1>2, <1>4, <3>1, ReturnStands
    <3> QED BY <3>2 DEF Delivered
  <2>6. \A s \in Stacks : s = fr.results \/ s = Other(fr.results) \/ s = "C"
    BY <1>4 DEF Stacks, Other
  <2>7. Stands(stack', w, next)
    BY <2>2, <2>5, <2>6, <2>z, <1>s DEF Stands
  <2>8. Chain(Without(base, 1), Without(frames, 1), g)
    <3>1. Chain(Without(base, 1), Without(frames, 1), frames[Len(frames)].return[1])
      BY <1>c, <1>6, ChainShrunk
    <3>2. frames[Len(frames)].return[1] = g
      BY <1>r, <2>g
    <3> QED BY <3>1, <3>2
  <2>9. at'[1] = g /\ at'[2] = j
    BY <2>1, <2>g, <2>j
  <2>10. Chain(base, frames, at[1])'
    <3>b. PICK b : b = Without(base, 1)
      OBVIOUS
    <3>r. PICK r : r = Without(frames, 1)
      OBVIOUS
    <3>1. Chain(b, r, g) /\ base' = b /\ frames' = r
      BY <2>8, <1>1, <3>b, <3>r
    <3> QED BY <3>1, <2>9, <1>1, ChainNext
  <2>11. Here' = next
    BY <2>9, <2>n, <1>1, SameHere DEF Here
  <2>12. base'[Len(base')] = w
    <3>1. base \in Seq(Floors) /\ 1 \in 0 .. Len(base)
      BY <1>c, <1>3 DEF Chain
    <3>2. /\ Len(Without(base, 1)) = Len(base) - 1
          /\ \A k \in 1 .. Len(base) - 1 : Without(base, 1)[k] = base[k]
      BY <3>1, WithoutOf
    <3>3. Len(base) - 1 \in 1 .. Len(base) - 1
      BY <1>3, <1>6
    <3> QED BY <3>2, <3>3, <1>1, <2>w
  <2>13. Stands(stack, base[Len(base)], Here)'
    BY <2>7, <2>11, <2>12 DEF Stands
  <2>14. verdict' = "accepted" /\ (at[2] \in DOMAIN Code(at[1]))' /\ Seen(at[1], at[2])'
    BY <2>2, <2>9, <1>1, SameHere DEF Run
  <2>15. Run'
    BY <2>10, <2>13, <2>14 DEF Run
  <2> QED BY <2>1, <2>15 DEF Outcomes
<1> QED BY <1>3, <1>5, <1>6

LEMMA StartChain ==
  ASSUME VInv, Room(1, HostStack)
  PROVE  Chain(<<HostStack>>, <<[return |-> Host, results |-> "A"]>>, 1)
<1>b. PICK bs \in Seq(Floors) : bs = <<HostStack>> /\ Len(bs) = 1 /\ bs[1] = HostStack
  <2>1. <<HostStack>> \in Seq(Floors)
    BY HostFloor
  <2>2. Len(<<HostStack>>) = 1 /\ <<HostStack>>[1] = HostStack
    OBVIOUS
  <2> QED BY <2>1, <2>2
<1>e. PICK e \in Frames : e = [return |-> Host, results |-> "A"] /\ e.results = "A"
  <2>1. Host \in Nat \X Nat
    BY DEF Host
  <2>2. [return |-> Host, results |-> "A"] \in Frames
    BY <2>1 DEF Frames
  <2> QED BY <2>2
<1>r. PICK frs \in Seq(Frames) : frs = <<e>> /\ Len(frs) = 1 /\ frs[1] = e
  <2>1. <<e>> \in Seq(Frames) /\ Len(<<e>>) = 1 /\ <<e>>[1] = e
    OBVIOUS
  <2> QED BY <2>1
<1>1. 1 \in Functions
  <2>1. program \in Programs
    BY DEF VInv, VTypes
  <2> QED BY <2>1, ProgramFacts
<1>2. Of(frs, 1, 1) = 1
  BY <1>r DEF Of
<1>3. Active(bs, frs, 1, 1)
  <2>1. bs[1] = HostStack /\ Floor(bs[1]) /\ Room(1, bs[1])
    BY <1>b, HostFloor
  <2> QED BY <2>1, <1>1, <1>2 DEF Active
<1>4. Len(frs) \in 1 .. Capacity
  BY <1>r, MachineConstants
<1>5. \A k \in 1 .. Len(frs) : k = 1
  BY <1>r
<1>6. Chain(bs, frs, 1)
  BY <1>3, <1>4, <1>5, <1>b, <1>e, <1>r DEF Chain
<1> QED BY <1>6, <1>b, <1>e, <1>r

LEMMA StartKeeps ==
  ASSUME VInv, outcome # "running" => WithinLimits, Start
  PROVE  Outcomes'
<1>1. verdict = "accepted" /\ outcome = "ready" /\ UNCHANGED verifierVars
  BY DEF Start
<1> DEFINE Refused == \/ max[1]["A"] > Capacity \/ max[1]["B"] > Capacity
                      \/ max[1]["C"] + 1 > Capacity
<1>2. CASE Refused
  <2>1. outcome' = "refused" /\ stack' = stack /\ frames' = frames
    BY <1>2 DEF Start
  <2>2. WithinLimits'
    BY <1>1, <2>1 DEF WithinLimits, Depth
  <2> QED BY <2>1, <2>2 DEF Outcomes
<1>3. CASE ~Refused
  <2>1. /\ outcome' = "running" /\ stack' = WithC(HostStack, <<Marker>> \o Arguments(1))
        /\ frames' = <<[return |-> Host, results |-> "A"]>> /\ base' = <<HostStack>>
        /\ at' = <<1, 1>>
    BY <1>3 DEF Start
  <2>2. 1 \in Functions
    <3>1. program \in Programs
      BY DEF VInv, VTypes
    <3> QED BY <3>1, ProgramFacts
  <2>3. Room(1, HostStack)
    <3>1. \A s \in Stacks : max[1][s] \in Nat
      BY <2>2, Deep
    <3>2. Capacity \in Nat
      BY MachineConstants
    <3>3. max[1]["A"] \in Nat /\ max[1]["B"] \in Nat /\ max[1]["C"] \in Nat
      BY <3>1 DEF Stacks
    <3>4. Len(<<>>) = 0 /\ Len(<<Marker>>) = 1
      OBVIOUS
    <3>5. 0 + max[1]["A"] <= Capacity /\ 0 + max[1]["B"] <= Capacity /\ 1 + max[1]["C"] <= Capacity
      BY <1>3, <3>2, <3>3
    <3> QED BY <3>4, <3>5, HostFloor DEF Room, Stacks
  <2>4. at'[1] = 1 /\ at'[2] = 1
    BY <2>1
  <2>5. Chain(base, frames, at[1])'
    <3>b. PICK b : b = <<HostStack>>
      OBVIOUS
    <3>r. PICK r : r = <<[return |-> Host, results |-> "A"]>>
      OBVIOUS
    <3>1. Chain(b, r, 1) /\ base' = b /\ frames' = r
      BY <2>1, <2>3, <3>b, <3>r, StartChain
    <3> QED BY <3>1, <2>4, <1>1, ChainNext
  <2>6. 1 \in DOMAIN Code(1) /\ Seen(1, 1) /\ shape[1][1] = EntryShape(1)
    BY <2>2, EntryHere
  <2>7. Here' = EntryShape(1)
    BY <2>4, <2>6, <1>1, SameHere DEF Here
  <2>8. base'[Len(base')] = HostStack
    <3>1. Len(<<HostStack>>) = 1 /\ <<HostStack>>[1] = HostStack
      OBVIOUS
    <3> QED BY <3>1, <2>1
  <2>9. Stands(stack', HostStack, EntryShape(1))
    <3>1. \A s \in Stacks : stack'[s] = IF s = "C" THEN <<Marker>> \o Arguments(1) ELSE HostStack[s]
      BY <2>1 DEF WithC
    <3>2. \A s \in Stacks : EntryShape(1)[s] = IF s = "C" THEN Arguments(1) ELSE <<>>
      BY DEF EntryShape
    <3>3. <<>> \o <<>> = <<>>
      OBVIOUS
    <3> QED BY <3>1, <3>2, <3>3, HostFloor DEF Stands, Stacks
  <2>10. Stands(stack, base[Len(base)], Here)'
    BY <2>7, <2>8, <2>9 DEF Stands
  <2>11. verdict' = "accepted" /\ (at[2] \in DOMAIN Code(at[1]))' /\ Seen(at[1], at[2])'
    BY <2>4, <2>6, <1>1, SameHere
  <2>12. Run'
    BY <2>5, <2>10, <2>11 DEF Run
  <2> QED BY <2>1, <2>12 DEF Outcomes
<1> QED BY <1>2, <1>3

\* A program is verified before it runs and never again.
LEMMA VerificationKeeps ==
  ASSUME VInv, Outcomes, Verification
  PROVE  Outcomes'
<1>1. outcome' = outcome /\ stack' = stack /\ frames' = frames
  BY DEF Verification, machineVars
<1>2. verdict \in {"structure", "shapes"} /\ program' = program
  BY DEF Verification, Verify, CheckStructure, CheckInstruction, NextFunction
<1>3. outcome # "running" /\ WithinLimits
  BY <1>2 DEF Outcomes, Run
<1>4. WithinLimits'
  BY <1>1, <1>3 DEF WithinLimits, Depth
<1> QED BY <1>1, <1>2, <1>3, <1>4 DEF Outcomes

LEMMA MInvInit == Init => MInv
<1> SUFFICES ASSUME Init PROVE MInv
  OBVIOUS
<1>1. VInv
  BY VInvInit DEF Init
<1>2. outcome = "ready" /\ stack = Empty /\ frames = <<>>
  BY DEF Init
<1>3. Len(<<>>) = 0 /\ 0 <= Capacity
  BY MachineConstants
<1>4. WithinLimits
  BY <1>2, <1>3 DEF WithinLimits, Depth, Empty
<1> QED BY <1>1, <1>2, <1>4 DEF MInv, Outcomes

LEMMA MInvKept == MInv /\ [Next]_vars => MInv'
<1> SUFFICES ASSUME MInv, [Next]_vars PROVE MInv'
  OBVIOUS
<1>0. VInv /\ Outcomes
  BY DEF MInv
<1>1. VInv'
  <2>1. Verify \/ UNCHANGED verifierVars
    BY DEF Next, vars, Verification, Start, Straight, Allocate, Branch, Call, IndirectCall,
           Return, Halt, Abort, Running
  <2> QED BY <2>1, <1>0, VInvKept
<1>2. Outcomes'
  <2>0. (outcome = "running" => Run) /\ (outcome # "running" => WithinLimits)
    BY <1>0 DEF Outcomes
  <2>1. CASE Verification
    BY <2>1, <1>0, VerificationKeeps
  <2>2. CASE Start
    BY <2>2, <2>0, <1>0, StartKeeps
  <2>3. CASE Straight
    BY <2>3, <2>0, <1>0, StraightKeeps
  <2>4. CASE Allocate
    BY <2>4, <2>0, <1>0, AllocateKeeps
  <2>5. CASE Branch
    BY <2>5, <2>0, <1>0, BranchKeeps
  <2>6. CASE Call
    BY <2>6, <2>0, <1>0, CallKeeps
  <2>7. CASE IndirectCall
    BY <2>7, <2>0, <1>0, IndirectCallKeeps
  <2>8. CASE Return
    BY <2>8, <2>0, <1>0, ReturnKeeps
  <2>9. CASE Halt
    BY <2>9, <2>0, <1>0, HaltKeeps
  <2>10. CASE Abort
    BY <2>10, <2>0, <1>0, AbortKeeps
  <2>11. CASE UNCHANGED vars
    <3>1. /\ UNCHANGED verifierVars /\ outcome' = outcome /\ stack' = stack /\ frames' = frames
          /\ at' = at /\ base' = base
      BY <2>11 DEF vars, machineVars
    <3>2. program' = program /\ verdict' = verdict /\ shape' = shape
      BY <3>1, SameHere
    <3>3. Run => Run'
      <4>b. PICK b : b = base
        OBVIOUS
      <4>r. PICK r : r = frames
        OBVIOUS
      <4>f. PICK f : f = at[1]
        OBVIOUS
      <4> SUFFICES ASSUME Run PROVE Run'
        OBVIOUS
      <4>1. Chain(b, r, f)
        BY <4>b, <4>r, <4>f DEF Run
      <4>2. Chain(base, frames, at[1])'
        BY <4>1, <4>b, <4>r, <4>f, <3>1, ChainNext
      <4>3. Stands(stack, base[Len(base)], Here)'
        BY <3>1, <3>2 DEF Run, Stands, Here
      <4> QED BY <4>2, <4>3, <3>1, <3>2, SameHere DEF Run, Code, Seen
    <3>4. WithinLimits => WithinLimits'
      BY <3>1 DEF WithinLimits, Depth
    <3> QED BY <3>1, <3>2, <3>3, <3>4, <1>0 DEF Outcomes
  <2> QED BY <2>1, <2>2, <2>3, <2>4, <2>5, <2>6, <2>7, <2>8, <2>9, <2>10, <2>11 DEF Next
<1> QED BY <1>1, <1>2 DEF MInv

LEMMA MInvHolds == Spec => []MInv
<1>1. Init => MInv
  BY MInvInit
<1>2. MInv /\ [Next]_vars => MInv'
  BY MInvKept
<1> QED BY <1>1, <1>2, PTL DEF Spec

-----------------------------------------------------------------------------
(* What the verifier is for.                                                *)

\* What abc_verify_module accepts is consistent: every instruction it has seen
\* has one shape of the three stacks, takes operands that are there and of its
\* kinds, leaves every successor, all in the same function, with the shape
\* inferred for it, and is no deeper than the function's declared limits.
THEOREM AcceptedIsConsistent == Spec => [](verdict = "accepted" => Consistent)
<1>1. MInv => (verdict = "accepted" => Consistent)
  BY AcceptedConsistent DEF MInv
<1> QED BY <1>1, MInvHolds, PTL

\* The handlers, which check nothing, find what they need: no accepted program
\* takes an operand that is not there, accesses bytes outside a block of its own,
\* follows what is no address, runs off a function or returns to what is no
\* return address.
THEOREM NeverWildHolds == Spec => []NeverWild
<1>1. MInv => NeverWild
  <2> SUFFICES ASSUME MInv, outcome = "running"
               PROVE  at[2] \in DOMAIN Code(at[1]) /\ Present(Now)
    BY DEF NeverWild
  <2>1. VInv /\ Run
    BY DEF MInv, Outcomes
  <2> QED BY <2>1, RunPresent DEF Run
<1> QED BY <1>1, MInvHolds, PTL

\* At every instruction the stacks are those the activation was entered on with
\* the cells that the verifier inferred on top.
THEOREM ShapeRightHolds == Spec => []ShapeRight
<1>1. MInv => ShapeRight
  BY DEF MInv, Outcomes, Run, Stands, Here, ShapeRight
<1> QED BY <1>1, MInvHolds, PTL

\* Comparing capacities where functions are entered and blocks are allocated is
\* enough for every stack and for the frames.
THEOREM WithinLimitsHolds == Spec => []WithinLimits
<1>1. MInv => WithinLimits
  BY RunWithin DEF MInv, Outcomes
<1> QED BY <1>1, MInvHolds, PTL

\* A run that ends leaves the results that the exported function declares.
THEOREM ResultsHold == Spec => []ResultsAsDeclared
<1>1. MInv => ResultsAsDeclared
  BY DEF MInv, Outcomes, ResultsAsDeclared
<1> QED BY <1>1, MInvHolds, PTL
=============================================================================
