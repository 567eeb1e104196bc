------------------------------ MODULE RuntimeProofs ------------------------------
(***************************************************************************)
(* Theorems about three parts of the runtime: the operand bank, for every  *)
(* register count, depth and contents of a cell; the source lifetime       *)
(* bindings, for any number of owners, activations and slots and any limit *)
(* of the counts; the indirect call sites, for every set of sites and      *)
(* functions and every assignment of signatures.                           *)
(***************************************************************************)
EXTENDS OperandBank, Lifetime, IndirectSite, SequenceTheorems, FiniteSetTheorems, TLAPS

-----------------------------------------------------------------------------
(* The operand bank: it keeps its shape, and each handler does to the three *)
(* stacks what ThreeStacks says.                                            *)

\* A bank in its shape.
Shaped(b) == b \in BankType /\ Anchoring(b)

\* What the shape says of each stack.
LEMMA ShapeFacts ==
  ASSUME NEW b, Shaped(b)
  PROVE  /\ \A s \in Stacks : b.cached[s] \in Nat
         /\ \A s \in Stacks : b.mem[s] \in Seq(Values) /\ Len(b.mem[s]) \in Nat
         /\ \A r \in Bank : b.reg[r] \in Values
         /\ b.cached["A"] + b.cached["B"] <= Registers
         /\ b.cached["C"] <= CRegisters
BY DEF Shaped, BankType, Anchoring

\* Cached cells have a register, and no two of them the same.
LEMMA RegisterPlaces ==
  ASSUME NEW b, Shaped(b), NEW s \in Stacks, NEW k \in 1 .. b.cached[s]
  PROVE  /\ Register(s, k) \in Bank
         /\ \A t \in Stacks \ {s} : \A j \in 1 .. b.cached[t] : Register(t, j) # Register(s, k)
         /\ \A j \in 1 .. b.cached[s] : Register(s, j) = Register(s, k) => j = k
<1>0. /\ b.cached["A"] \in Nat /\ b.cached["B"] \in Nat /\ b.cached["C"] \in Nat
      /\ b.cached["A"] + b.cached["B"] <= Registers /\ b.cached["C"] <= CRegisters
  BY ShapeFacts DEF Stacks
<1>1. CASE s = "A"
  <2>1. k \in 1 .. Registers /\ Register(s, k) = k - 1
    BY <1>1, <1>0, BankConstants DEF Register
  <2>2. \A j \in 1 .. b.cached["B"] : Register("B", j) # k - 1
    BY <1>1, <1>0, BankConstants DEF Register
  <2>3. \A j \in 1 .. b.cached["C"] : Register("C", j) # k - 1
    BY <2>1, BankConstants DEF Register
  <2>4. \A j \in 1 .. b.cached[s] : Register(s, j) = j - 1
    BY <1>1 DEF Register
  <2> QED BY <1>1, <2>1, <2>2, <2>3, <2>4, BankConstants DEF Bank, Stacks
<1>2. CASE s = "B" BY <1>2, <1>0, BankConstants DEF Register, Bank, Stacks
<1>3. CASE s = "C" BY <1>3, <1>0, BankConstants DEF Register, Bank, Stacks
<1> QED BY <1>1, <1>2, <1>3 DEF Stacks

\* The memory of a bank after a spill.
LEMMA SpillMem ==
  ASSUME NEW b, Shaped(b), NEW s \in Stacks
  PROVE  Spill(b, s).mem = [b.mem EXCEPT ![s] = Append(@, b.reg[Register(s, 1)])]
BY DEF Spill, Shaped, BankType

\* The cached counts of a bank after a spill.
LEMMA SpillCached ==
  ASSUME NEW b, Shaped(b), NEW s \in Stacks
  PROVE  Spill(b, s).cached = [b.cached EXCEPT ![s] = @ - 1]
BY DEF Spill, Shaped, BankType

\* The registers of a bank after a spill.
LEMMA SpillReg ==
  ASSUME NEW b, Shaped(b), NEW s \in Stacks
  PROVE  Spill(b, s).reg = [r \in Bank |-> Shifted(b, s, r)]
BY DEF Spill, Shaped, BankType

\* A register's shift: the cells that stay move to their anchored place, the
\* other stacks' cells do not move.
LEMMA ShiftMoves ==
  ASSUME NEW b, Shaped(b), NEW s \in Stacks
  PROVE  /\ \A r \in Bank : Shifted(b, s, r) \in Values
         /\ \A k \in 1 .. b.cached[s] - 1 :
              Shifted(b, s, Register(s, k)) = b.reg[Register(s, k + 1)]
         /\ \A t \in Stacks \ {s} : \A k \in 1 .. b.cached[t] :
              Shifted(b, s, Register(t, k)) = b.reg[Register(t, k)]
<1>0. b.cached[s] \in Nat BY ShapeFacts
<1>1. \A k \in 1 .. b.cached[s] - 1 :
        (IF s = "B" THEN Register(s, k) - 1 ELSE Register(s, k) + 1) = Register(s, k + 1)
  BY <1>0, BankConstants DEF Register, Stacks
<1>2. \A k \in 1 .. b.cached[s] - 1 :
        Shifted(b, s, Register(s, k)) = b.reg[Register(s, k + 1)]
  BY <1>1 DEF Shifted
<1>3. \A k \in 1 .. b.cached[s] - 1 : k + 1 \in 1 .. b.cached[s]
  BY <1>0
<1>4. \A k \in 1 .. b.cached[s] - 1 : k \in 1 .. b.cached[s]
  BY <1>0
<1>5. ASSUME NEW r \in Bank PROVE Shifted(b, s, r) \in Values
  <2>1. CASE \E k \in 1 .. b.cached[s] - 1 : r = Register(s, k)
    <3> PICK k \in 1 .. b.cached[s] - 1 : r = Register(s, k) BY <2>1
    <3>1. Register(s, k + 1) \in Bank BY <1>3, RegisterPlaces
    <3> QED BY <3>1, <1>2, ShapeFacts
  <2>2. CASE ~ \E k \in 1 .. b.cached[s] - 1 : r = Register(s, k)
    BY <2>2, ShapeFacts DEF Shifted
  <2> QED BY <2>1, <2>2
<1>6. ASSUME NEW t \in Stacks \ {s}, NEW k \in 1 .. b.cached[t]
      PROVE  Shifted(b, s, Register(t, k)) = b.reg[Register(t, k)]
  <2>1. ~ \E j \in 1 .. b.cached[s] - 1 : Register(t, k) = Register(s, j)
    BY <1>4, RegisterPlaces
  <2> QED BY <2>1 DEF Shifted
<1> QED BY <1>2, <1>5, <1>6

\* A spill keeps the shape.
LEMMA SpillShape ==
  ASSUME NEW b, Shaped(b), NEW s \in Stacks, b.cached[s] > 0
  PROVE  Shaped(Spill(b, s))
<1>0. b.cached[s] \in Nat /\ 1 \in 1 .. b.cached[s] BY ShapeFacts
<1>1. b.reg[Register(s, 1)] \in Values
  BY <1>0, RegisterPlaces, ShapeFacts
<1>t. b.mem \in [Stacks -> Seq(Values)] /\ b.cached \in [Stacks -> Nat]
  BY DEF Shaped, BankType
<1>2. Spill(b, s).mem \in [Stacks -> Seq(Values)]
  <2>1. Append(b.mem[s], b.reg[Register(s, 1)]) \in Seq(Values) BY <1>1, <1>t
  <2>2. Spill(b, s).mem = [b.mem EXCEPT ![s] = Append(@, b.reg[Register(s, 1)])]
    BY SpillMem
  <2> QED BY <2>1, <2>2, <1>t
<1>3. Spill(b, s).reg \in [Bank -> Values]
  <2>1. \A r \in Bank : Shifted(b, s, r) \in Values BY ShiftMoves
  <2> QED BY <2>1, SpillReg
<1>4. Spill(b, s).cached \in [Stacks -> Nat]
  <2>1. b.cached[s] - 1 \in Nat BY <1>0
  <2>2. Spill(b, s).cached = [b.cached EXCEPT ![s] = @ - 1] BY SpillCached
  <2> QED BY <2>1, <2>2, <1>t
<1>5. Anchoring(Spill(b, s))
  <2>1. Spill(b, s).cached = [b.cached EXCEPT ![s] = @ - 1] BY SpillCached
  <2>2. \A u \in Stacks : Spill(b, s).cached[u] <= b.cached[u] BY <2>1, <1>t
  <2>3. /\ b.cached["A"] + b.cached["B"] <= Registers
        /\ b.cached["C"] <= CRegisters
    BY ShapeFacts
  <2>4. \A u \in Stacks : Spill(b, s).cached[u] \in Nat /\ b.cached[u] \in Nat
    BY <1>4, <1>t
  <2> QED BY <2>2, <2>3, <2>4, BankConstants DEF Anchoring, Stacks
<1>6. Spill(b, s) \in BankType
  BY <1>2, <1>3, <1>4 DEF Spill, Shaped, BankType
<1> QED BY <1>5, <1>6 DEF Shaped

\* A stack's contents are its memory cells followed by its cached cells, each
\* in its anchored register.
LEMMA ContentsPlaces ==
  ASSUME NEW b, Shaped(b), NEW s \in Stacks
  PROVE  /\ CellCount(b, s) \in Nat
         /\ CellCount(b, s) = Len(b.mem[s]) + b.cached[s]
         /\ Contents(b, s) \in [1 .. CellCount(b, s) -> Values]
         /\ \A i \in 1 .. Len(b.mem[s]) : Contents(b, s)[i] = b.mem[s][i]
         /\ \A k \in 1 .. b.cached[s] :
              Contents(b, s)[Len(b.mem[s]) + k] = b.reg[Register(s, k)]
<1>1. /\ b.cached[s] \in Nat /\ Len(b.mem[s]) \in Nat
      /\ b.mem[s] \in Seq(Values)
      /\ \A r \in Bank : b.reg[r] \in Values
  BY ShapeFacts
<1>2. CellCount(b, s) = Len(b.mem[s]) + b.cached[s] BY DEF CellCount
<1>3. ASSUME NEW i \in 1 .. Len(b.mem[s])
      PROVE  Contents(b, s)[i] = b.mem[s][i]
  <2> DEFINE d == CellCount(b, s) - i
  <2>1. ~(d < b.cached[s]) /\ Len(b.mem[s]) - (d - b.cached[s]) = i BY <1>1, <1>2
  <2>2. Contents(b, s)[i] = CellAt(b, s, d) BY <1>1, <1>2 DEF Contents
  <2> HIDE DEF d
  <2> QED BY <2>1, <2>2 DEF CellAt
<1>4. ASSUME NEW k \in 1 .. b.cached[s]
      PROVE  Contents(b, s)[Len(b.mem[s]) + k] = b.reg[Register(s, k)]
  <2> DEFINE d == CellCount(b, s) - (Len(b.mem[s]) + k)
  <2>1. d < b.cached[s] /\ b.cached[s] - d = k BY <1>1, <1>2
  <2>2. Contents(b, s)[Len(b.mem[s]) + k] = CellAt(b, s, d)
    BY <1>1, <1>2 DEF Contents
  <2> HIDE DEF d
  <2> QED BY <2>1, <2>2 DEF CellAt
<1>5. ASSUME NEW i \in 1 .. CellCount(b, s) PROVE Contents(b, s)[i] \in Values
  <2>1. CASE i \in 1 .. Len(b.mem[s]) BY <2>1, <1>1, <1>3
  <2>2. CASE ~(i \in 1 .. Len(b.mem[s]))
    <3>1. i - Len(b.mem[s]) \in 1 .. b.cached[s]
          /\ Len(b.mem[s]) + (i - Len(b.mem[s])) = i BY <2>2, <1>1, <1>2
    <3>2. Register(s, i - Len(b.mem[s])) \in Bank BY <3>1, RegisterPlaces
    <3>3. Contents(b, s)[i] = b.reg[Register(s, i - Len(b.mem[s]))] BY <3>1, <1>4
    <3> QED BY <3>2, <3>3, <1>1
  <2> QED BY <2>1, <2>2
<1>6. Contents(b, s) = [i \in 1 .. CellCount(b, s) |-> Contents(b, s)[i]]
  BY DEF Contents
<1>7. CellCount(b, s) \in Nat BY <1>1, <1>2
<1> QED BY <1>2, <1>3, <1>4, <1>5, <1>6, <1>7

\* A stack's contents are a sequence as long as the stack is deep.
LEMMA ContentsSeq ==
  ASSUME NEW b, Shaped(b), NEW s \in Stacks
  PROVE  /\ Contents(b, s) \in Seq(Values)
         /\ Len(Contents(b, s)) = CellCount(b, s)
         /\ CellCount(b, s) \in Nat
<1>1. CellCount(b, s) \in Nat /\ Contents(b, s) \in [1 .. CellCount(b, s) -> Values]
  BY ContentsPlaces
<1> QED BY <1>1

\* Two banks that agree on every cell of a stack have the same contents there.
LEMMA ContentsEqual ==
  ASSUME NEW b, Shaped(b), NEW c, Shaped(c), NEW s \in Stacks,
         CellCount(b, s) = CellCount(c, s),
         \A i \in 1 .. CellCount(b, s) : Contents(b, s)[i] = Contents(c, s)[i]
  PROVE  Contents(b, s) = Contents(c, s)
BY ContentsPlaces

\* A spill takes no cell from any stack and changes none.
LEMMA SpillContents ==
  ASSUME NEW b, Shaped(b), NEW s \in Stacks, b.cached[s] > 0, NEW t \in Stacks
  PROVE  Contents(Spill(b, s), t) = Contents(b, t)
<1> DEFINE c == Spill(b, s)
<1> DEFINE n == Len(b.mem[t])
<1>1. Shaped(c) BY SpillShape
<1>2. /\ b.mem \in [Stacks -> Seq(Values)] /\ b.cached \in [Stacks -> Nat]
      /\ b.reg[Register(s, 1)] \in Values
  <2>1. 1 \in 1 .. b.cached[s] BY DEF Shaped, BankType
  <2>2. Register(s, 1) \in Bank BY <2>1, RegisterPlaces
  <2> QED BY <2>2 DEF Shaped, BankType
<1>3. c.cached = [b.cached EXCEPT ![s] = @ - 1] BY SpillCached
<1>4. c.mem = [b.mem EXCEPT ![s] = Append(@, b.reg[Register(s, 1)])] BY SpillMem
<1>5. c.reg = [r \in Bank |-> Shifted(b, s, r)] BY SpillReg
<1> HIDE DEF c
<1>6. CASE t = s
  <2>1. /\ c.cached[t] = b.cached[t] - 1
        /\ c.mem[t] = Append(b.mem[t], b.reg[Register(s, 1)])
    BY <1>2, <1>3, <1>4, <1>6
  <2>2. /\ n \in Nat /\ Len(c.mem[t]) = n + 1
        /\ \A i \in 1 .. n : c.mem[t][i] = b.mem[t][i]
        /\ c.mem[t][n + 1] = b.reg[Register(s, 1)]
    BY <2>1, <1>2
  <2>3. CellCount(c, t) = CellCount(b, t) /\ b.cached[t] \in Nat /\ b.cached[t] > 0
    BY <2>1, <2>2, <1>2, <1>6 DEF CellCount
  <2>c. CellCount(b, t) = n + b.cached[t] BY DEF CellCount
  <2>d. c.cached[t] = b.cached[t] - 1 BY <2>1
  <2>e. n \in Nat /\ Len(c.mem[t]) = n + 1 BY <2>2
  <2>f. b.cached[t] \in Nat /\ b.cached[s] = b.cached[t] BY <2>3, <1>6
  <2>4. ASSUME NEW i \in 1 .. CellCount(b, t) PROVE Contents(c, t)[i] = Contents(b, t)[i]
    <3>1. CASE i \in 1 .. n
      <4>1. i \in 1 .. Len(c.mem[t]) BY <3>1, <2>2
      <4>2. Contents(c, t)[i] = c.mem[t][i] BY <4>1, <1>1, ContentsPlaces
      <4>3. Contents(b, t)[i] = b.mem[t][i] BY <3>1, ContentsPlaces
      <4> QED BY <4>2, <4>3, <3>1, <2>2
    <3>2. CASE i = n + 1
      <4>1. i \in 1 .. Len(c.mem[t]) /\ 1 \in 1 .. b.cached[t] BY <3>2, <2>2, <2>3
      <4>2. Contents(c, t)[i] = c.mem[t][i] BY <4>1, <1>1, ContentsPlaces
      <4>3. Contents(b, t)[n + 1] = b.reg[Register(t, 1)] BY <4>1, ContentsPlaces
      <4> QED BY <4>2, <4>3, <3>2, <2>2, <1>6
    <3>3. CASE i > n + 1
      <4> DEFINE k == i - (n + 1)
      <4>1. /\ k \in 1 .. c.cached[t] /\ k \in 1 .. b.cached[s] - 1
            /\ k + 1 \in 1 .. b.cached[t] /\ k \in 1 .. b.cached[s]
        BY <3>3, <2>c, <2>d, <2>e, <2>f
      <4>i. Len(c.mem[t]) + k = i /\ Len(b.mem[t]) + (k + 1) = i
        <5>1. i \in Nat BY <2>c, <2>e, <2>f
        <5>2. Len(c.mem[t]) + k = i BY <5>1, <2>e
        <5>3. Len(b.mem[t]) + (k + 1) = i BY <5>1, <2>e
        <5> QED BY <5>2, <5>3
      <4> HIDE DEF k
      <4>2. Contents(c, t)[Len(c.mem[t]) + k] = c.reg[Register(t, k)]
        BY <4>1, <1>1, ContentsPlaces
      <4>3. Contents(b, t)[Len(b.mem[t]) + (k + 1)] = b.reg[Register(t, k + 1)]
        <5> DEFINE j == k + 1
        <5>1. j \in 1 .. b.cached[t] BY <4>1
        <5> HIDE DEF j
        <5>2. Contents(b, t)[Len(b.mem[t]) + j] = b.reg[Register(t, j)]
          BY <5>1, ContentsPlaces
        <5> QED BY <5>2 DEF j
      <4>4. Register(s, k) \in Bank BY <4>1, RegisterPlaces
      <4>5. Shifted(b, s, Register(s, k)) = b.reg[Register(s, k + 1)] BY <4>1, ShiftMoves
      <4> QED BY <4>i, <4>2, <4>3, <4>4, <4>5, <1>5, <1>6
    <3> QED BY <3>1, <3>2, <3>3, <2>2, <2>3, <1>2 DEF CellCount
  <2> QED BY <2>3, <2>4, <1>1, ContentsEqual DEF c
<1>7. CASE t # s
  <2>1. c.cached[t] = b.cached[t] /\ c.mem[t] = b.mem[t]
    BY <1>2, <1>3, <1>4, <1>7
  <2>2. CellCount(c, t) = CellCount(b, t) /\ n \in Nat /\ b.cached[t] \in Nat
    BY <2>1, <1>2 DEF CellCount
  <2>3. ASSUME NEW i \in 1 .. CellCount(b, t) PROVE Contents(c, t)[i] = Contents(b, t)[i]
    <3>1. CASE i \in 1 .. n BY <3>1, <2>1, <1>1, ContentsPlaces
    <3>2. CASE i > n
      <4> DEFINE k == i - n
      <4>1. k \in 1 .. b.cached[t] /\ k \in 1 .. c.cached[t] BY <3>2, <2>1, <2>2 DEF CellCount
      <4>i. Len(c.mem[t]) + k = i /\ Len(b.mem[t]) + k = i BY <2>1, <2>2
      <4> HIDE DEF k
      <4>2. Contents(c, t)[Len(c.mem[t]) + k] = c.reg[Register(t, k)]
        BY <4>1, <1>1, ContentsPlaces
      <4>3. Contents(b, t)[Len(b.mem[t]) + k] = b.reg[Register(t, k)]
        BY <4>1, ContentsPlaces
      <4>4. Register(t, k) \in Bank BY <4>1, RegisterPlaces
      <4>5. Shifted(b, s, Register(t, k)) = b.reg[Register(t, k)]
        BY <4>1, <1>7, ShiftMoves
      <4> QED BY <4>i, <4>2, <4>3, <4>4, <4>5, <1>5
    <3> QED BY <3>1, <3>2, <2>2 DEF CellCount
  <2> QED BY <2>2, <2>3, <1>1, ContentsEqual DEF c
<1> QED BY <1>6, <1>7

-----------------------------------------------------------------------------
\* A bank with v in the next register of s.
Placed(b, s, v) ==
  [b EXCEPT !.cached[s] = @ + 1, !.reg[Register(s, b.cached[s] + 1)] = v]

\* With a register free, a value can be placed: the shape stays.
LEMMA PlacedShape ==
  ASSUME NEW b, Shaped(b), NEW s \in Stacks, NEW v \in Values, ~Full(b, s)
  PROVE  Shaped(Placed(b, s, v))
<1>1. /\ b.mem \in [Stacks -> Seq(Values)] /\ b.cached \in [Stacks -> Nat]
      /\ b.reg \in [Bank -> Values]
  BY DEF Shaped, BankType
<1>3. Placed(b, s, v).cached = [b.cached EXCEPT ![s] = @ + 1]
  BY DEF Placed, Shaped, BankType
<1>4. Placed(b, s, v).reg = [b.reg EXCEPT ![Register(s, b.cached[s] + 1)] = v]
  BY DEF Placed, Shaped, BankType
<1>5. Placed(b, s, v).cached \in [Stacks -> Nat] /\ Placed(b, s, v).reg \in [Bank -> Values]
  <2>1. Placed(b, s, v).cached \in [Stacks -> Nat]
    <3>1. b.cached[s] + 1 \in Nat BY <1>1
    <3> QED BY <3>1, <1>1, <1>3
  <2>2. Placed(b, s, v).reg \in [Bank -> Values] BY <1>1, <1>4
  <2> QED BY <2>1, <2>2
<1>6. Placed(b, s, v) \in BankType
  BY <1>1, <1>5 DEF Placed, Shaped, BankType
<1>7. Anchoring(Placed(b, s, v))
  <2>1. /\ b.cached["A"] \in Nat /\ b.cached["B"] \in Nat /\ b.cached["C"] \in Nat
        /\ b.cached["A"] + b.cached["B"] <= Registers /\ b.cached["C"] <= CRegisters
    BY <1>1 DEF Shaped, Anchoring, Stacks
  <2>2. \A u \in Stacks : Placed(b, s, v).cached[u] = IF u = s THEN b.cached[u] + 1 ELSE b.cached[u]
    BY <1>1, <1>3
  <2>3. /\ Placed(b, s, v).cached["A"] = IF s = "A" THEN b.cached["A"] + 1 ELSE b.cached["A"]
        /\ Placed(b, s, v).cached["B"] = IF s = "B" THEN b.cached["B"] + 1 ELSE b.cached["B"]
        /\ Placed(b, s, v).cached["C"] = IF s = "C" THEN b.cached["C"] + 1 ELSE b.cached["C"]
    BY <2>2 DEF Stacks
  <2>4. IF s = "C" THEN b.cached["C"] # CRegisters
                   ELSE b.cached["A"] + b.cached["B"] # Registers
    BY DEF Full
  <2> HIDE DEF Placed
  <2> QED BY <2>1, <2>3, <2>4, BankConstants DEF Anchoring, Stacks
<1> QED BY <1>6, <1>7 DEF Shaped

\* A placed value is on top of its stack; nothing else changes.
LEMMA PlacedContents ==
  ASSUME NEW b, Shaped(b), NEW s \in Stacks, NEW v \in Values, ~Full(b, s),
         NEW t \in Stacks
  PROVE  Contents(Placed(b, s, v), t) =
           IF t = s THEN Append(Contents(b, t), v) ELSE Contents(b, t)
<1> DEFINE c == Placed(b, s, v)
<1> DEFINE top == Register(s, b.cached[s] + 1)
<1>1. Shaped(c) BY PlacedShape
<1>2. c.mem = b.mem BY DEF Placed, Shaped, BankType
<1>3. c.cached = [b.cached EXCEPT ![s] = @ + 1] BY DEF Placed, Shaped, BankType
<1>4. c.reg = [b.reg EXCEPT ![top] = v] BY DEF Placed, Shaped, BankType
<1>5. /\ b.mem \in [Stacks -> Seq(Values)] /\ b.cached \in [Stacks -> Nat]
      /\ b.reg \in [Bank -> Values]
  BY DEF Shaped, BankType
<1> HIDE DEF c
<1>6. /\ c.cached[s] = b.cached[s] + 1 /\ b.cached[s] \in Nat
      /\ b.cached[s] + 1 \in 1 .. c.cached[s]
  BY <1>3, <1>5
<1>7. /\ top \in Bank
      /\ \A u \in Stacks \ {s} : \A k \in 1 .. c.cached[u] : Register(u, k) # top
      /\ \A k \in 1 .. c.cached[s] : k # b.cached[s] + 1 => Register(s, k) # top
  BY <1>1, <1>6, RegisterPlaces
<1>8. \A k \in 1 .. b.cached[t] :
        c.reg[Register(t, k)] = b.reg[Register(t, k)]
  <2> TAKE k \in 1 .. b.cached[t]
  <2>1. Register(t, k) # top
    <3>1. CASE t = s
      <4>1. k \in 1 .. c.cached[s] /\ k # b.cached[s] + 1 BY <3>1, <1>6
      <4> QED BY <4>1, <3>1, <1>7
    <3>2. CASE t # s
      <4>1. c.cached[t] = b.cached[t] BY <3>2, <1>3, <1>5
      <4> QED BY <4>1, <3>2, <1>7
    <3> QED BY <3>1, <3>2
  <2>2. Register(t, k) \in Bank BY RegisterPlaces
  <2> QED BY <2>1, <2>2, <1>4, <1>5
<1>9. /\ CellCount(b, t) = Len(b.mem[t]) + b.cached[t]
      /\ CellCount(c, t) = Len(b.mem[t]) + c.cached[t]
      /\ Len(b.mem[t]) \in Nat /\ b.cached[t] \in Nat
  BY <1>2, <1>5 DEF CellCount
<1>10. b.cached[t] <= c.cached[t] /\ c.cached[t] \in Nat BY <1>3, <1>5
<1>11. ASSUME NEW i \in 1 .. CellCount(b, t)
       PROVE  Contents(c, t)[i] = Contents(b, t)[i]
  <2>1. CASE i \in 1 .. Len(b.mem[t])
    <3>1. Contents(b, t)[i] = b.mem[t][i] BY <2>1, ContentsPlaces
    <3>2. Contents(c, t)[i] = c.mem[t][i] BY <2>1, <1>1, <1>2, ContentsPlaces
    <3> QED BY <3>1, <3>2, <1>2
  <2>2. CASE i > Len(b.mem[t])
    <3> DEFINE k == i - Len(b.mem[t])
    <3>1. k \in 1 .. b.cached[t] /\ k \in 1 .. c.cached[t]
      BY <2>2, <1>9, <1>10
    <3>2. Len(b.mem[t]) + k = i
      <4>1. i \in Nat BY <1>9
      <4> QED BY <4>1, <1>9
    <3> HIDE DEF k
    <3>3. Contents(b, t)[Len(b.mem[t]) + k] = b.reg[Register(t, k)]
      BY <3>1, ContentsPlaces
    <3>4. Contents(c, t)[Len(c.mem[t]) + k] = c.reg[Register(t, k)]
      BY <3>1, <1>1, ContentsPlaces
    <3> QED BY <3>1, <3>2, <3>3, <3>4, <1>2, <1>8
  <2> QED BY <2>1, <2>2, <1>9
<1>12. CASE t = s
  <2>1. CellCount(c, t) = CellCount(b, t) + 1 /\ CellCount(b, t) \in Nat
    BY <1>12, <1>6, <1>9
  <2>2. Contents(c, t)[CellCount(b, t) + 1] = v
    <3> DEFINE k == b.cached[s] + 1
    <3>1. k \in 1 .. c.cached[s] /\ Len(b.mem[t]) + k = CellCount(b, t) + 1
      BY <1>12, <1>6, <1>9
    <3> HIDE DEF k
    <3>2. Contents(c, s)[Len(c.mem[s]) + k] = c.reg[Register(s, k)]
      BY <3>1, <1>1, ContentsPlaces
    <3>3. c.reg[top] = v BY <1>4, <1>5, <1>7
    <3> QED BY <3>1, <3>2, <3>3, <1>2, <1>12 DEF k
  <2>3. Contents(b, t) \in Seq(Values) /\ Len(Contents(b, t)) = CellCount(b, t)
    BY ContentsSeq
  <2>4. Contents(c, t) \in Seq(Values) /\ Len(Contents(c, t)) = CellCount(b, t) + 1
    BY <2>1, <1>1, ContentsSeq
  <2> HIDE DEF top
  <2> DEFINE q == Append(Contents(b, t), v)
  <2>5. /\ q \in Seq(Values) /\ Len(q) = CellCount(b, t) + 1
        /\ q[CellCount(b, t) + 1] = v
        /\ \A i \in 1 .. CellCount(b, t) : q[i] = Contents(b, t)[i]
    BY <2>3, AppendProperties
  <2> HIDE DEF q
  <2>6. \A i \in 1 .. CellCount(b, t) + 1 : Contents(c, t)[i] = q[i]
    <3> TAKE i \in 1 .. CellCount(b, t) + 1
    <3>1. i \in 1 .. CellCount(b, t) \/ i = CellCount(b, t) + 1 BY <2>1
    <3> QED BY <3>1, <2>2, <2>5, <1>11
  <2>7. Contents(c, t) = q BY <2>4, <2>5, <2>6, SeqEqual
  <2> QED BY <2>7, <1>12 DEF c, q
<1>13. CASE t # s
  <2>1. CellCount(c, t) = CellCount(b, t) BY <1>13, <1>3, <1>5, <1>9
  <2>2. Contents(c, t) = Contents(b, t) BY <2>1, <1>1, <1>11, ContentsEqual
  <2> QED BY <2>2, <1>13 DEF c
<1> QED BY <1>12, <1>13

\* A full bank has a cell to spill, and is not full after it.
LEMMA VictimSpills ==
  ASSUME NEW b, Shaped(b), NEW s \in Stacks, Full(b, s)
  PROVE  /\ Victim(b, s) \in Stacks
         /\ b.cached[Victim(b, s)] > 0
         /\ ~Full(Spill(b, Victim(b, s)), s)
<1>1. /\ b.cached["A"] \in Nat /\ b.cached["B"] \in Nat /\ b.cached["C"] \in Nat
      /\ b.cached \in [Stacks -> Nat]
  BY DEF Shaped, BankType, Stacks
<1>2. Victim(b, s) \in Stacks /\ b.cached[Victim(b, s)] > 0
  BY <1>1, BankConstants DEF Victim, Full, Other, Stacks
<1>3. Spill(b, Victim(b, s)).cached = [b.cached EXCEPT ![Victim(b, s)] = @ - 1]
  BY <1>2, SpillCached
<1>4. \A u \in Stacks : Spill(b, Victim(b, s)).cached[u] =
                          IF u = Victim(b, s) THEN b.cached[u] - 1 ELSE b.cached[u]
  BY <1>1, <1>2, <1>3
<1>5. ~Full(Spill(b, Victim(b, s)), s)
  BY <1>1, <1>2, <1>4, BankConstants DEF Full, Victim, Other, Stacks
<1> QED BY <1>2, <1>5

\* A push keeps the shape and puts its value on top of its stack.
LEMMA PushContents ==
  ASSUME NEW b, Shaped(b), NEW s \in Stacks, NEW v \in Values
  PROVE  /\ Shaped(Push(b, s, v))
         /\ \A t \in Stacks : Contents(Push(b, s, v), t) =
              IF t = s THEN Append(Contents(b, t), v) ELSE Contents(b, t)
<1>1. CASE ~Full(b, s)
  <2>1. Push(b, s, v) = Placed(b, s, v) BY <1>1 DEF Push, Placed
  <2>2. Shaped(Placed(b, s, v)) BY <1>1, PlacedShape
  <2>3. \A t \in Stacks : Contents(Placed(b, s, v), t) =
          IF t = s THEN Append(Contents(b, t), v) ELSE Contents(b, t)
    BY <1>1, PlacedContents
  <2> QED BY <2>1, <2>2, <2>3
<1>2. CASE Full(b, s)
  <2> DEFINE r == Spill(b, Victim(b, s))
  <2>1. Push(b, s, v) = Placed(r, s, v) BY <1>2 DEF Push, Placed
  <2>2. Victim(b, s) \in Stacks /\ b.cached[Victim(b, s)] > 0 /\ ~Full(r, s)
    BY <1>2, VictimSpills
  <2>3. Shaped(r) BY <2>2, SpillShape
  <2>4. \A t \in Stacks : Contents(r, t) = Contents(b, t) BY <2>2, SpillContents
  <2> HIDE DEF r
  <2>5. Shaped(Placed(r, s, v)) BY <2>2, <2>3, PlacedShape
  <2>6. \A t \in Stacks : Contents(Placed(r, s, v), t) =
          IF t = s THEN Append(Contents(r, t), v) ELSE Contents(r, t)
    BY <2>2, <2>3, PlacedContents
  <2> QED BY <2>1, <2>4, <2>5, <2>6
<1> QED BY <1>1, <1>2

-----------------------------------------------------------------------------
\* What the top of a stack is in its contents.
LEMMA CellAtContents ==
  ASSUME NEW b, Shaped(b), NEW s \in Stacks, NEW d \in 0 .. CellCount(b, s) - 1
  PROVE  CellAt(b, s, d) = Contents(b, s)[CellCount(b, s) - d]
<1>1. CellCount(b, s) \in Nat BY ContentsPlaces
<1>2. CellCount(b, s) - d \in 1 .. CellCount(b, s)
      /\ CellCount(b, s) - (CellCount(b, s) - d) = d
  BY <1>1
<1> QED BY <1>2 DEF Contents

\* Stack t of c is stack t of b, perhaps without its topmost cached cells.
SameCells(b, c, t) ==
  /\ c.mem[t] = b.mem[t] /\ c.cached[t] <= b.cached[t]
  /\ \A k \in 1 .. c.cached[t] : c.reg[Register(t, k)] = b.reg[Register(t, k)]

\* Such banks agree on all the cells that both have.
LEMMA ContentsAgree ==
  ASSUME NEW b, Shaped(b), NEW c, Shaped(c), NEW t \in Stacks,
         SameCells(b, c, t)
  PROVE  \A i \in 1 .. CellCount(c, t) : Contents(c, t)[i] = Contents(b, t)[i]
<1>0. /\ Len(b.mem[t]) \in Nat /\ c.cached[t] \in Nat /\ b.cached[t] \in Nat
      /\ CellCount(c, t) = Len(b.mem[t]) + c.cached[t]
      /\ c.cached[t] <= b.cached[t]
  BY DEF Shaped, BankType, CellCount, SameCells
<1> TAKE i \in 1 .. CellCount(c, t)
<1>1. CASE i \in 1 .. Len(b.mem[t])
  <2>1. Contents(b, t)[i] = b.mem[t][i] BY <1>1, ContentsPlaces
  <2>2. \A j \in 1 .. Len(c.mem[t]) : Contents(c, t)[j] = c.mem[t][j] BY ContentsPlaces
  <2> QED BY <1>1, <2>1, <2>2 DEF SameCells
<1>2. CASE i > Len(b.mem[t])
  <2> DEFINE k == i - Len(b.mem[t])
  <2>1. k \in 1 .. c.cached[t] /\ k \in 1 .. b.cached[t]
    BY <1>0, <1>2
  <2>2. Len(b.mem[t]) + k = i
    <3>1. i \in Nat BY <1>0
    <3> QED BY <3>1, <1>0
  <2> HIDE DEF k
  <2>c. \A j \in 1 .. c.cached[t] : Contents(c, t)[Len(c.mem[t]) + j] = c.reg[Register(t, j)]
    BY ContentsPlaces
  <2>3. Contents(c, t)[Len(c.mem[t]) + k] = c.reg[Register(t, k)]
    BY <2>1, <2>c
  <2>4. Contents(b, t)[Len(b.mem[t]) + k] = b.reg[Register(t, k)]
    BY <2>1, ContentsPlaces
  <2> QED BY <2>1, <2>2, <2>3, <2>4 DEF SameCells
<1> QED BY <1>0, <1>1, <1>2

\* A pop takes the top cell off its stack and changes no other.
LEMMA PopContents ==
  ASSUME NEW b, Shaped(b), NEW s \in Stacks, CellCount(b, s) > 0
  PROVE  /\ Shaped(Pop(b, s))
         /\ \A t \in Stacks :
              /\ CellCount(Pop(b, s), t) = IF t = s THEN CellCount(b, t) - 1 ELSE CellCount(b, t)
              /\ Contents(Pop(b, s), t) =
                   IF t = s THEN SubSeq(Contents(b, t), 1, CellCount(b, t) - 1)
                            ELSE Contents(b, t)
<1> DEFINE c == Pop(b, s)
<1>1. /\ b.mem \in [Stacks -> Seq(Values)] /\ b.cached \in [Stacks -> Nat]
      /\ b.reg \in [Bank -> Values] /\ Anchoring(b)
  BY DEF Shaped, BankType
<1>2. c.reg = b.reg
  BY DEF Pop, Shaped, BankType
<1>3. c.cached = IF b.cached[s] > 0 THEN [b.cached EXCEPT ![s] = @ - 1] ELSE b.cached
  BY DEF Pop, Shaped, BankType
<1>4. c.mem = IF b.cached[s] > 0 THEN b.mem
              ELSE [b.mem EXCEPT ![s] = SubSeq(@, 1, Len(@) - 1)]
  BY DEF Pop, Shaped, BankType
<1>5. /\ b.cached[s] \in Nat /\ Len(b.mem[s]) \in Nat
      /\ CellCount(b, s) = Len(b.mem[s]) + b.cached[s]
  BY <1>1 DEF CellCount
<1>6. b.cached[s] > 0 \/ (b.cached[s] = 0 /\ Len(b.mem[s]) > 0)
  BY <1>5
<1>7. CASE b.cached[s] > 0
  <2>1. c.cached \in [Stacks -> Nat]
    <3>1. b.cached[s] - 1 \in Nat BY <1>5, <1>7
    <3>2. c.cached = [b.cached EXCEPT ![s] = @ - 1] BY <1>3, <1>7
    <3> QED BY <3>1, <3>2, <1>1
  <2>2. \A t \in Stacks : c.cached[t] = IF t = s THEN b.cached[t] - 1 ELSE b.cached[t]
    BY <1>1, <1>3, <1>7
  <2>3. c.mem = b.mem BY <1>4, <1>7
  <2>4. c \in BankType
    BY <2>1, <2>3, <1>1, <1>2, <1>7 DEF Pop, Shaped, BankType
  <2>5. Anchoring(c)
    <3>1. /\ b.cached["A"] \in Nat /\ b.cached["B"] \in Nat /\ b.cached["C"] \in Nat
          /\ c.cached["A"] \in Nat /\ c.cached["B"] \in Nat /\ c.cached["C"] \in Nat
          /\ c.cached["A"] <= b.cached["A"] /\ c.cached["B"] <= b.cached["B"]
          /\ c.cached["C"] <= b.cached["C"]
      BY <2>1, <2>2, <1>1 DEF Stacks
    <3>2. b.cached["A"] + b.cached["B"] <= Registers /\ b.cached["C"] <= CRegisters
      BY <1>1 DEF Anchoring
    <3> HIDE DEF c
    <3> QED BY <3>1, <3>2, BankConstants DEF Anchoring
  <2>6. Shaped(c) BY <2>4, <2>5 DEF Shaped
  <2> HIDE DEF c
  <2>7. ASSUME NEW t \in Stacks
        PROVE  /\ CellCount(c, t) = IF t = s THEN CellCount(b, t) - 1 ELSE CellCount(b, t)
               /\ CellCount(c, t) \in Nat /\ CellCount(b, t) \in Nat
               /\ CellCount(c, t) <= CellCount(b, t)
               /\ CellCount(c, t) = Len(b.mem[t]) + c.cached[t]
               /\ c.cached[t] <= b.cached[t]
    <3>1. /\ c.cached[t] = IF t = s THEN b.cached[t] - 1 ELSE b.cached[t]
          /\ b.cached[t] \in Nat /\ Len(b.mem[t]) \in Nat /\ (t = s => b.cached[t] > 0)
      BY <1>1, <2>2, <1>7
    <3>2. /\ CellCount(c, t) = Len(b.mem[t]) + c.cached[t]
          /\ CellCount(b, t) = Len(b.mem[t]) + b.cached[t]
      BY <2>3 DEF CellCount
    <3>3. CASE t = s BY <3>1, <3>2, <3>3
    <3>4. CASE t # s BY <3>1, <3>2, <3>4
    <3> QED BY <3>3, <3>4
  <2>8. ASSUME NEW t \in Stacks, NEW i \in 1 .. CellCount(c, t)
        PROVE  Contents(c, t)[i] = Contents(b, t)[i]
    <3>1. c.mem[t] = b.mem[t] /\ c.cached[t] <= b.cached[t] BY <2>3, <2>7
    <3>2. c.reg = b.reg BY <1>2 DEF c
    <3>3. SameCells(b, c, t) BY <3>1, <3>2 DEF SameCells
    <3> QED BY <3>3, <2>6, ContentsAgree
  <2>9. ASSUME NEW t \in Stacks
        PROVE  Contents(c, t) = IF t = s THEN SubSeq(Contents(b, t), 1, CellCount(b, t) - 1)
                                         ELSE Contents(b, t)
    <3>1. /\ Contents(c, t) \in Seq(Values) /\ Len(Contents(c, t)) = CellCount(c, t)
          /\ Contents(b, t) \in Seq(Values) /\ Len(Contents(b, t)) = CellCount(b, t)
      BY <2>6, ContentsSeq
    <3>2. CASE t = s
      <4> DEFINE q == SubSeq(Contents(b, t), 1, CellCount(b, t) - 1)
      <4>1. /\ q \in Seq(Values) /\ Len(q) = CellCount(c, t)
            /\ \A i \in 1 .. CellCount(c, t) : q[i] = Contents(b, t)[i]
        BY <3>1, <3>2, <2>7
      <4> HIDE DEF q
      <4>2. Contents(c, t) = q BY <3>1, <4>1, <2>8, SeqEqual
      <4> QED BY <4>2, <3>2 DEF q
    <3>3. CASE t # s
      <4>1. CellCount(c, t) = CellCount(b, t) BY <3>3, <2>7
      <4>2. Contents(c, t) = Contents(b, t) BY <4>1, <3>1, <2>8, SeqEqual
      <4> QED BY <4>2, <3>3
    <3> QED BY <3>2, <3>3
  <2> QED BY <2>6, <2>7, <2>9 DEF c
<1>8. CASE b.cached[s] = 0 /\ Len(b.mem[s]) > 0
  <2> DEFINE m == SubSeq(b.mem[s], 1, Len(b.mem[s]) - 1)
  <2>1. b.mem[s] \in Seq(Values) BY <1>1
  <2>2. /\ m \in Seq(Values) /\ Len(m) = Len(b.mem[s]) - 1
        /\ \A i \in 1 .. Len(b.mem[s]) - 1 : m[i] = b.mem[s][i]
    BY <2>1, <1>5, <1>8
  <2> HIDE DEF m
  <2>3. c.mem = [b.mem EXCEPT ![s] = m] /\ c.cached = b.cached
    BY <1>3, <1>4, <1>5, <1>8 DEF m
  <2>4. /\ c.mem \in [Stacks -> Seq(Values)]
        /\ \A t \in Stacks : c.mem[t] = IF t = s THEN m ELSE b.mem[t]
    BY <2>2, <2>3, <1>1
  <2>5. c \in BankType
    <3>1. c = [b EXCEPT !.mem = [@ EXCEPT ![s] = m]] BY <1>5, <1>8 DEF Pop, m
    <3>2. [b.mem EXCEPT ![s] = m] \in [Stacks -> Seq(Values)] BY <2>3, <2>4
    <3> QED BY <3>1, <3>2, <1>1 DEF Shaped, BankType
  <2>6. Shaped(c) BY <2>3, <2>5, <1>1 DEF Shaped, Anchoring
  <2> HIDE DEF c
  <2>7. ASSUME NEW t \in Stacks, t # s
        PROVE  /\ CellCount(c, t) = CellCount(b, t)
               /\ Contents(c, t) = Contents(b, t)
    <3>1. c.mem[t] = b.mem[t] /\ c.cached[t] = b.cached[t] /\ b.cached[t] \in Nat
      BY <2>3, <2>4, <2>7, <1>1
    <3>2. CellCount(c, t) = CellCount(b, t) BY <3>1 DEF CellCount
    <3>3. c.reg = b.reg BY <1>2 DEF c
    <3>4. \A i \in 1 .. CellCount(c, t) : Contents(c, t)[i] = Contents(b, t)[i]
      <4>1. SameCells(b, c, t) BY <3>1, <3>3 DEF SameCells
      <4> QED BY <4>1, <2>6, ContentsAgree
    <3> QED BY <3>2, <3>4, <2>6, ContentsEqual
  <2>8. /\ CellCount(c, s) = CellCount(b, s) - 1
        /\ Contents(c, s) = SubSeq(Contents(b, s), 1, CellCount(b, s) - 1)
    <3>1. /\ c.mem[s] = m /\ c.cached[s] = 0 BY <2>3, <2>4, <1>8
    <3>2. /\ CellCount(b, s) = Len(b.mem[s]) /\ CellCount(c, s) = Len(b.mem[s]) - 1
      BY <3>1, <2>2, <1>5, <1>8 DEF CellCount
    <3>3. /\ Contents(c, s) \in Seq(Values) /\ Len(Contents(c, s)) = CellCount(c, s)
          /\ Contents(b, s) \in Seq(Values) /\ Len(Contents(b, s)) = CellCount(b, s)
      BY <2>6, ContentsSeq
    <3> DEFINE q == SubSeq(Contents(b, s), 1, CellCount(b, s) - 1)
    <3>4. /\ q \in Seq(Values) /\ Len(q) = CellCount(c, s)
          /\ \A i \in 1 .. CellCount(c, s) : q[i] = Contents(b, s)[i]
      BY <3>2, <3>3, <1>5, <1>8
    <3> HIDE DEF q
    <3>5. \A i \in 1 .. CellCount(c, s) : Contents(c, s)[i] = q[i]
      <4> TAKE i \in 1 .. CellCount(c, s)
      <4>1. i \in 1 .. Len(c.mem[s]) /\ i \in 1 .. Len(b.mem[s]) /\ i \in 1 .. Len(b.mem[s]) - 1
        BY <3>1, <3>2, <2>2, <1>5
      <4>2. Contents(c, s)[i] = c.mem[s][i] BY <4>1, <2>6, ContentsPlaces
      <4>3. Contents(b, s)[i] = b.mem[s][i] BY <4>1, ContentsPlaces
      <4> QED BY <4>1, <4>2, <4>3, <3>1, <3>4, <2>2
    <3>6. Contents(c, s) = q BY <3>3, <3>4, <3>5, SeqEqual
    <3> QED BY <3>2, <3>6, <1>8 DEF q
  <2> QED BY <2>6, <2>7, <2>8 DEF c
<1> QED BY <1>6, <1>7, <1>8

\* Overwriting a cell changes that cell of that stack and no other.
LEMMA SetContents ==
  ASSUME NEW b, Shaped(b), NEW s \in Stacks, NEW d \in 0 .. CellCount(b, s) - 1,
         NEW v \in Values
  PROVE  /\ Shaped(SetCell(b, s, d, v))
         /\ \A t \in Stacks : Contents(SetCell(b, s, d, v), t) =
              IF t = s THEN [Contents(b, t) EXCEPT ![CellCount(b, t) - d] = v]
                       ELSE Contents(b, t)
<1> DEFINE c == SetCell(b, s, d, v)
<1> DEFINE n == Len(b.mem[s])
<1> DEFINE place == CellCount(b, s) - d
<1>1. /\ b.mem \in [Stacks -> Seq(Values)] /\ b.cached \in [Stacks -> Nat]
      /\ b.reg \in [Bank -> Values] /\ Anchoring(b)
  BY DEF Shaped, BankType
<1>2. n \in Nat /\ b.cached[s] \in Nat /\ CellCount(b, s) = n + b.cached[s]
  BY <1>1 DEF CellCount
<1>3. d \in Nat /\ place \in 1 .. CellCount(b, s) BY <1>2
<1>4. c.cached = b.cached BY DEF SetCell, Shaped, BankType
<1>5. ASSUME Shaped(c), \A u \in Stacks : Len(c.mem[u]) = Len(b.mem[u]),
             \A u \in Stacks \ {s} : SameCells(b, c, u),
             Contents(c, s)[place] = v,
             \A i \in 1 .. CellCount(b, s) \ {place} : Contents(c, s)[i] = Contents(b, s)[i]
      PROVE  \A t \in Stacks : Contents(c, t) =
               IF t = s THEN [Contents(b, t) EXCEPT ![CellCount(b, t) - d] = v]
                        ELSE Contents(b, t)
  <2> HIDE DEF c
  <2>0. \A u \in Stacks : CellCount(c, u) = CellCount(b, u)
    BY <1>4, <1>5 DEF CellCount
  <2> TAKE t \in Stacks
  <2>1. CASE t # s
    <3>1. \A i \in 1 .. CellCount(c, t) : Contents(c, t)[i] = Contents(b, t)[i]
      BY <2>1, <1>5, ContentsAgree
    <3>2. CellCount(c, t) = CellCount(b, t) BY <2>0
    <3>3. Contents(c, t) = Contents(b, t) BY <3>1, <3>2, <1>5, ContentsEqual
    <3> QED BY <2>1, <3>3
  <2>2. CASE t = s
    <3> DEFINE q == [Contents(b, s) EXCEPT ![place] = v]
    <3>1. /\ Contents(b, s) \in Seq(Values) /\ Len(Contents(b, s)) = CellCount(b, s)
          /\ Contents(c, s) \in Seq(Values) /\ Len(Contents(c, s)) = CellCount(b, s)
      BY <1>5, <2>0, ContentsSeq
    <3>2. /\ q \in Seq(Values) /\ Len(q) = CellCount(b, s)
          /\ \A i \in 1 .. CellCount(b, s) : q[i] = IF i = place THEN v ELSE Contents(b, s)[i]
      BY <3>1, <1>3, ExceptSeq
    <3> HIDE DEF q, place
    <3>3. \A i \in 1 .. CellCount(b, s) : Contents(c, s)[i] = q[i] BY <3>2, <1>5
    <3>4. Contents(c, s) = q BY <3>1, <3>2, <3>3, SeqEqual
    <3> QED BY <3>4, <2>2 DEF q, place
  <2> QED BY <2>1, <2>2
<1>6. CASE d < b.cached[s]
  <2> DEFINE r == Register(s, b.cached[s] - d)
  <2>1. c.mem = b.mem /\ c.reg = [b.reg EXCEPT ![r] = v]
    BY <1>6 DEF SetCell, Shaped, BankType
  <2>2. b.cached[s] - d \in 1 .. b.cached[s] BY <1>2, <1>3, <1>6
  <2>3. /\ r \in Bank
        /\ \A u \in Stacks \ {s} : \A k \in 1 .. b.cached[u] : Register(u, k) # r
        /\ \A k \in 1 .. b.cached[s] : Register(s, k) = r => k = b.cached[s] - d
    BY <2>2, RegisterPlaces
  <2>4. Shaped(c)
    <3>1. c.reg \in [Bank -> Values] BY <2>1, <1>1
    <3>2. c \in BankType BY <3>1, <2>1, <1>1, <1>4, <1>6 DEF SetCell, Shaped, BankType
    <3> QED BY <3>2, <1>1, <1>4 DEF Shaped, Anchoring
  <2> HIDE DEF c, r
  <2>5. \A u \in Stacks \ {s} : SameCells(b, c, u)
    <3> TAKE u \in Stacks \ {s}
    <3>1. \A k \in 1 .. b.cached[u] : Register(u, k) \in Bank BY RegisterPlaces
    <3>2. \A k \in 1 .. b.cached[u] : c.reg[Register(u, k)] = b.reg[Register(u, k)]
      BY <3>1, <2>1, <2>3, <1>1
    <3>3. b.cached[u] \in Nat BY <1>1
    <3> QED BY <3>2, <3>3, <2>1, <1>4 DEF SameCells
  <2>6. \A k \in 1 .. b.cached[s] : Contents(c, s)[n + k] = c.reg[Register(s, k)]
    <3>1. \A k \in 1 .. c.cached[s] : Contents(c, s)[Len(c.mem[s]) + k] = c.reg[Register(s, k)]
      BY <2>4, ContentsPlaces
    <3> QED BY <3>1, <2>1, <1>4
  <2>7. n + (b.cached[s] - d) = place BY <1>2, <1>3
  <2>8. Contents(c, s)[place] = v
    <3>1. c.reg[r] = v BY <2>1, <2>3, <1>1
    <3> QED BY <3>1, <2>2, <2>6, <2>7 DEF r
  <2>9. ASSUME NEW i \in 1 .. CellCount(b, s) \ {place}
        PROVE  Contents(c, s)[i] = Contents(b, s)[i]
    <3>1. CASE i \in 1 .. n
      <4>1. Contents(b, s)[i] = b.mem[s][i] BY <3>1, ContentsPlaces
      <4>2. \A j \in 1 .. Len(c.mem[s]) : Contents(c, s)[j] = c.mem[s][j]
        BY <2>4, ContentsPlaces
      <4> QED BY <3>1, <4>1, <4>2, <2>1
    <3>2. CASE i > n
      <4> DEFINE k == i - n
      <4>0. i \in Nat BY <1>2
      <4>1. k \in 1 .. b.cached[s] /\ k # b.cached[s] - d
        <5>1. k \in 1 .. b.cached[s] BY <4>0, <3>2, <1>2
        <5>2. i # n + (b.cached[s] - d) BY <2>7
        <5> QED BY <5>1, <5>2, <4>0, <1>2, <1>3
      <4>2. n + k = i BY <4>0, <1>2
      <4> HIDE DEF k
      <4>3. Contents(b, s)[n + k] = b.reg[Register(s, k)] BY <4>1, ContentsPlaces
      <4>4. Register(s, k) \in Bank BY <4>1, RegisterPlaces
      <4>5. c.reg[Register(s, k)] = b.reg[Register(s, k)] BY <4>1, <4>4, <2>1, <2>3, <1>1
      <4> QED BY <4>1, <4>2, <4>3, <4>5, <2>6
    <3> QED BY <3>1, <3>2, <1>2
  <2>10. \A u \in Stacks : Len(c.mem[u]) = Len(b.mem[u]) BY <2>1
  <2> QED BY <2>4, <2>5, <2>8, <2>9, <2>10, <1>5 DEF c
<1>7. CASE ~(d < b.cached[s])
  <2> DEFINE j == n - (d - b.cached[s])
  <2>0. b.mem[s] \in Seq(Values) BY <1>1
  <2>1. j \in 1 .. n /\ j = place BY <1>2, <1>3, <1>7
  <2> DEFINE m == [b.mem[s] EXCEPT ![j] = v]
  <2>2. m \in Seq(Values) /\ Len(m) = n
        /\ \A i \in 1 .. n : m[i] = IF i = j THEN v ELSE b.mem[s][i]
    BY <2>0, <2>1, ExceptSeq
  <2>3. c = [b EXCEPT !.mem = [@ EXCEPT ![s] = m]] BY <1>7 DEF SetCell
  <2> HIDE DEF m, j
  <2>4. c.mem = [b.mem EXCEPT ![s] = m] /\ c.reg = b.reg
    BY <2>3 DEF Shaped, BankType
  <2>5. Shaped(c)
    <3>1. [b.mem EXCEPT ![s] = m] \in [Stacks -> Seq(Values)] BY <2>2, <1>1
    <3>2. c \in BankType BY <2>3, <3>1, <1>1 DEF Shaped, BankType
    <3> QED BY <3>2, <1>1, <1>4 DEF Shaped, Anchoring
  <2> HIDE DEF c
  <2>6. \A u \in Stacks : c.mem[u] = IF u = s THEN m ELSE b.mem[u] BY <2>4, <1>1
  <2>7. \A u \in Stacks \ {s} : SameCells(b, c, u)
    <3> TAKE u \in Stacks \ {s}
    <3>1. b.cached[u] \in Nat BY <1>1
    <3> QED BY <3>1, <2>4, <2>6, <1>4 DEF SameCells
  <2>8. \A i \in 1 .. n : Contents(c, s)[i] = m[i]
    <3>1. \A i \in 1 .. Len(c.mem[s]) : Contents(c, s)[i] = c.mem[s][i]
      BY <2>5, ContentsPlaces
    <3> QED BY <3>1, <2>2, <2>6
  <2>9. Contents(c, s)[place] = v BY <2>1, <2>2, <2>8
  <2>10. ASSUME NEW i \in 1 .. CellCount(b, s) \ {place}
         PROVE  Contents(c, s)[i] = Contents(b, s)[i]
    <3>1. CASE i \in 1 .. n
      <4>1. Contents(b, s)[i] = b.mem[s][i] BY <3>1, ContentsPlaces
      <4> QED BY <3>1, <4>1, <2>1, <2>2, <2>8
    <3>2. CASE i > n
      <4> DEFINE k == i - n
      <4>0. i \in Nat BY <1>2
      <4>1. k \in 1 .. b.cached[s] BY <4>0, <3>2, <1>2
      <4>2. n + k = i /\ Len(c.mem[s]) = n BY <4>0, <1>2, <2>2, <2>6
      <4> HIDE DEF k
      <4>3. Contents(b, s)[n + k] = b.reg[Register(s, k)] BY <4>1, ContentsPlaces
      <4>4. \A x \in 1 .. c.cached[s] : Contents(c, s)[Len(c.mem[s]) + x] = c.reg[Register(s, x)]
        BY <2>5, ContentsPlaces
      <4> QED BY <4>1, <4>2, <4>3, <4>4, <2>4, <1>4
    <3> QED BY <3>1, <3>2, <1>2
  <2>11. \A u \in Stacks : Len(c.mem[u]) = Len(b.mem[u]) BY <2>2, <2>6
  <2> QED BY <2>5, <2>7, <2>9, <2>10, <2>11, <1>5 DEF c
<1> QED BY <1>6, <1>7

\* Publishing a stack moves its cached cells to memory and leaves what the
\* program sees of every stack as it was.
LEMMA FlushContents ==
  ASSUME NEW b, Shaped(b), NEW s \in Stacks
  PROVE  /\ Shaped(Flush(b, s))
         /\ Flush(b, s).cached = [b.cached EXCEPT ![s] = 0]
         /\ Flush(b, s).mem = [b.mem EXCEPT ![s] = Contents(b, s)]
         /\ Flush(b, s).reg = b.reg
         /\ \A t \in Stacks : Contents(Flush(b, s), t) = Contents(b, t)
<1> DEFINE c == Flush(b, s)
<1> DEFINE n == Len(b.mem[s])
<1> DEFINE moved == [k \in 1 .. b.cached[s] |-> CellAt(b, s, b.cached[s] - k)]
<1>1. /\ b.mem \in [Stacks -> Seq(Values)] /\ b.cached \in [Stacks -> Nat]
      /\ b.reg \in [Bank -> Values] /\ Anchoring(b)
  BY DEF Shaped, BankType
<1>2. /\ n \in Nat /\ b.cached[s] \in Nat /\ CellCount(b, s) = n + b.cached[s]
      /\ b.mem[s] \in Seq(Values)
  BY <1>1 DEF CellCount
<1>3. \A k \in 1 .. b.cached[s] : moved[k] = Contents(b, s)[n + k]
  <2> TAKE k \in 1 .. b.cached[s]
  <2> DEFINE d == b.cached[s] - k
  <2>1. d < b.cached[s] /\ b.cached[s] - d = k BY <1>2
  <2> HIDE DEF d
  <2>2. CellAt(b, s, d) = b.reg[Register(s, k)] BY <2>1 DEF CellAt
  <2>3. Contents(b, s)[n + k] = b.reg[Register(s, k)] BY ContentsPlaces
  <2> QED BY <2>2, <2>3 DEF d
<1>4. /\ Contents(b, s) \in Seq(Values) /\ Len(Contents(b, s)) = n + b.cached[s]
  BY <1>2, ContentsSeq
<1>5. \A k \in 1 .. b.cached[s] : moved[k] \in Values
  <2> HIDE DEF moved, n
  <2>1. ASSUME NEW k \in 1 .. b.cached[s] PROVE n + k \in 1 .. n + b.cached[s]
    BY <1>2
  <2>2. \A i \in 1 .. n + b.cached[s] : Contents(b, s)[i] \in Values BY <1>2, <1>4
  <2> QED BY <2>1, <2>2, <1>3
<1>6. moved \in Seq(Values) /\ Len(moved) = b.cached[s]
  <2>1. moved \in [1 .. b.cached[s] -> Values] BY <1>5
  <2> HIDE DEF moved
  <2> QED BY <2>1, <1>2
<1> HIDE DEF moved
<1> DEFINE m == b.mem[s] \o moved
<1>7. /\ m \in Seq(Values) /\ Len(m) = n + b.cached[s]
      /\ \A i \in 1 .. n + b.cached[s] : m[i] = IF i <= n THEN b.mem[s][i] ELSE moved[i - n]
  <2>1. /\ m \in Seq(Values) /\ Len(m) = Len(b.mem[s]) + Len(moved)
        /\ \A i \in 1 .. Len(b.mem[s]) + Len(moved) :
             m[i] = IF i <= Len(b.mem[s]) THEN b.mem[s][i] ELSE moved[i - Len(b.mem[s])]
    BY <1>2, <1>6, ConcatProperties, Zenon
  <2> QED BY <2>1, <1>6
<1>8. m = Contents(b, s)
  <2> HIDE DEF m
  <2>1. ASSUME NEW i \in 1 .. n + b.cached[s] PROVE m[i] = Contents(b, s)[i]
    <3>1. CASE i <= n
      <4>1. i \in 1 .. Len(b.mem[s]) BY <3>1, <1>2
      <4>2. Contents(b, s)[i] = b.mem[s][i] BY <4>1, ContentsPlaces
      <4> QED BY <4>2, <3>1, <1>7
    <3>2. CASE ~(i <= n)
      <4>0. i \in Nat BY <1>2
      <4>1. i - n \in 1 .. b.cached[s] /\ n + (i - n) = i BY <4>0, <3>2, <1>2
      <4> QED BY <4>1, <3>2, <1>3, <1>7
    <3> QED BY <3>1, <3>2
  <2> QED BY <2>1, <1>4, <1>7, SeqEqual
<1>9. c = [b EXCEPT !.mem = [@ EXCEPT ![s] = m], !.cached = [@ EXCEPT ![s] = 0]]
  BY DEF Flush, moved
<1> HIDE DEF m
<1>10. /\ c.cached = [b.cached EXCEPT ![s] = 0]
       /\ c.mem = [b.mem EXCEPT ![s] = m]
       /\ c.reg = b.reg
  BY <1>9 DEF Shaped, BankType
<1>11. Shaped(c)
  <2>1. [b.mem EXCEPT ![s] = m] \in [Stacks -> Seq(Values)] BY <1>1, <1>7
  <2>2. [b.cached EXCEPT ![s] = 0] \in [Stacks -> Nat] BY <1>1
  <2>3. c \in BankType BY <2>1, <2>2, <1>1, <1>9 DEF Shaped, BankType
  <2>4. \A u \in Stacks : c.cached[u] \in Nat /\ b.cached[u] \in Nat /\ c.cached[u] <= b.cached[u]
    BY <1>1, <1>10
  <2>5. /\ b.cached["A"] + b.cached["B"] <= Registers /\ b.cached["C"] <= CRegisters
    BY <1>1 DEF Anchoring
  <2>6. Anchoring(c)
    <3> HIDE DEF c
    <3> QED BY <2>4, <2>5, BankConstants DEF Anchoring, Stacks
  <2> QED BY <2>3, <2>6 DEF Shaped
<1> HIDE DEF c
<1>12. ASSUME NEW t \in Stacks PROVE Contents(c, t) = Contents(b, t)
  <2>1. CASE t = s
    <3>1. c.mem[s] = m /\ c.cached[s] = 0 BY <1>1, <1>10
    <3>2. CellCount(c, s) = Len(m) BY <3>1, <1>2, <1>7 DEF CellCount
    <3>3. /\ Contents(c, s) \in Seq(Values) /\ Len(Contents(c, s)) = Len(m)
      BY <3>2, <1>11, ContentsSeq
    <3>4. \A i \in 1 .. Len(c.mem[s]) : Contents(c, s)[i] = c.mem[s][i]
      BY <1>11, ContentsPlaces
    <3>5. Contents(c, s) = m BY <3>1, <3>3, <3>4, <1>7, SeqEqual
    <3> QED BY <3>5, <2>1, <1>8
  <2>2. CASE t # s
    <3>1. c.mem[t] = b.mem[t] /\ c.cached[t] = b.cached[t] /\ b.cached[t] \in Nat
      BY <2>2, <1>1, <1>10
    <3>2. SameCells(b, c, t) BY <3>1, <1>10 DEF SameCells
    <3>3. CellCount(c, t) = CellCount(b, t) BY <3>1 DEF CellCount
    <3>4. \A i \in 1 .. CellCount(c, t) : Contents(c, t)[i] = Contents(b, t)[i]
      BY <3>2, <1>11, ContentsAgree
    <3> QED BY <3>3, <3>4, <1>11, ContentsEqual
  <2> QED BY <2>1, <2>2
<1> QED BY <1>8, <1>10, <1>11, <1>12 DEF c

-----------------------------------------------------------------------------
(* The theorems.                                                            *)

Seen(b) == [s \in Stacks |-> Contents(b, s)]

\* With no return in progress, the program sees the bank's contents.
LEMMA IdleView ==
  ASSUME NEW b, Shaped(b), NEW to
  PROVE  ViewOf(b, <<>>, to) = Seen(b)
<1>1. \A s \in Stacks : Contents(b, s) \o <<>> = Contents(b, s)
  <2> TAKE s \in Stacks
  <2>1. Contents(b, s) \in Seq(Values) BY ContentsSeq
  <2> QED BY <2>1, ConcatEmptySeq
<1> QED BY <1>1 DEF ViewOf, Seen

\* Depths and tops, as the program sees them.
LEMMA SeenTop ==
  ASSUME NEW b, Shaped(b), NEW s \in Stacks
  PROVE  /\ Seen(b)[s] = Contents(b, s) /\ Seen(b)[s] \in Seq(Values)
         /\ Len(Seen(b)[s]) = CellCount(b, s) /\ CellCount(b, s) \in Nat
         /\ CellCount(b, s) > 0 =>
              /\ Seen(b)[s] # <<>>
              /\ CellAt(b, s, 0) = Seen(b)[s][Len(Seen(b)[s])]
              /\ CellAt(b, s, 0) \in Values
<1>1. /\ Contents(b, s) \in Seq(Values) /\ Len(Contents(b, s)) = CellCount(b, s)
      /\ CellCount(b, s) \in Nat
  BY ContentsSeq
<1>2. Seen(b)[s] = Contents(b, s) BY DEF Seen
<1>3. ASSUME CellCount(b, s) > 0
      PROVE  /\ Contents(b, s) # <<>>
             /\ CellAt(b, s, 0) = Contents(b, s)[CellCount(b, s)]
             /\ CellAt(b, s, 0) \in Values
  <2>1. 0 \in 0 .. CellCount(b, s) - 1 /\ CellCount(b, s) - 0 = CellCount(b, s)
    BY <1>1, <1>3
  <2>2. CellAt(b, s, 0) = Contents(b, s)[CellCount(b, s)] BY <2>1, CellAtContents
  <2>3. CellCount(b, s) \in 1 .. Len(Contents(b, s)) BY <1>1, <1>3
  <2>4. Contents(b, s)[CellCount(b, s)] \in Values BY <2>3, <1>1, ElementOfSeq
  <2>5. Contents(b, s) # <<>> BY <1>1, <1>3
  <2> QED BY <2>2, <2>4, <2>5
<1> QED BY <1>1, <1>2, <1>3

\* What the bank operations do to the stacks the program sees.
LEMMA SeenPush ==
  ASSUME NEW b, Shaped(b), NEW s \in Stacks, NEW v \in Values
  PROVE  /\ Shaped(Push(b, s, v))
         /\ Seen(Push(b, s, v)) = [Seen(b) EXCEPT ![s] = Append(@, v)]
<1>1. Shaped(Push(b, s, v)) BY PushContents
<1>2. \A t \in Stacks : Contents(Push(b, s, v), t) =
        IF t = s THEN Append(Contents(b, t), v) ELSE Contents(b, t)
  BY PushContents
<1> QED BY <1>1, <1>2 DEF Seen

\* A pop, as the program sees it.
LEMMA SeenPop ==
  ASSUME NEW b, Shaped(b), NEW s \in Stacks, CellCount(b, s) > 0
  PROVE  /\ Shaped(Pop(b, s))
         /\ Seen(Pop(b, s)) = [Seen(b) EXCEPT ![s] = SubSeq(@, 1, Len(@) - 1)]
         /\ \A t \in Stacks \ {s} : CellCount(Pop(b, s), t) = CellCount(b, t)
<1>1. /\ Shaped(Pop(b, s))
      /\ \A t \in Stacks \ {s} : CellCount(Pop(b, s), t) = CellCount(b, t)
  BY PopContents
<1>2. \A t \in Stacks : Contents(Pop(b, s), t) =
        IF t = s THEN SubSeq(Contents(b, t), 1, CellCount(b, t) - 1) ELSE Contents(b, t)
  BY PopContents
<1>3. Len(Contents(b, s)) = CellCount(b, s) BY ContentsSeq
<1> QED BY <1>1, <1>2, <1>3 DEF Seen

\* An overwritten cell, as the program sees it.
LEMMA SeenSet ==
  ASSUME NEW b, Shaped(b), NEW s \in Stacks, NEW d \in 0 .. CellCount(b, s) - 1,
         NEW v \in Values
  PROVE  /\ Shaped(SetCell(b, s, d, v))
         /\ Seen(SetCell(b, s, d, v)) = [Seen(b) EXCEPT ![s] = [@ EXCEPT ![Len(@) - d] = v]]
<1>1. Shaped(SetCell(b, s, d, v)) BY SetContents
<1>2. \A t \in Stacks : Contents(SetCell(b, s, d, v), t) =
        IF t = s THEN [Contents(b, t) EXCEPT ![CellCount(b, t) - d] = v] ELSE Contents(b, t)
  BY SetContents
<1>3. Len(Contents(b, s)) = CellCount(b, s) BY ContentsSeq
<1> QED BY <1>1, <1>2, <1>3 DEF Seen

\* A publication, which the program does not see.
LEMMA SeenFlush ==
  ASSUME NEW b, Shaped(b), NEW s \in Stacks
  PROVE  Shaped(Flush(b, s)) /\ Seen(Flush(b, s)) = Seen(b)
<1>1. Shaped(Flush(b, s)) BY FlushContents
<1>2. \A t \in Stacks : Contents(Flush(b, s), t) = Contents(b, t) BY FlushContents
<1> QED BY <1>1, <1>2 DEF Seen

\* A handler that runs in one piece: the program's view before and after it.
LEMMA TransitionView ==
  ASSUME TypeOK, NEW c, Shaped(c), Transition(c)
  PROVE  TypeOK' /\ Shaped(bank) /\ View = Seen(bank) /\ View' = Seen(c)
<1>1. Shaped(bank) BY DEF TypeOK, Shaped
<1>2. TypeOK' BY DEF TypeOK, Shaped, Transition
<1>3. pending = <<>> /\ pending' = <<>> /\ bank' = c BY DEF Transition
<1>4. View = Seen(bank) BY <1>1, <1>3, IdleView DEF View
<1>5. View' = ViewOf(c, <<>>, target') BY <1>3 DEF View
<1>6. ViewOf(c, <<>>, target') = Seen(c) BY IdleView
<1> QED BY <1>1, <1>2, <1>4, <1>5, <1>6

\* The two operand stacks are stacks, and the other of one is the other one.
LEMMA OperandsAreStacks ==
  /\ Operands \subseteq Stacks /\ "C" \in Stacks
  /\ \A s \in Operands : Other(s) \in Operands /\ Other(s) # s /\ s # "C"
BY DEF Operands, Stacks, Other

\* Pushing a cell, for the program: a push.
LEMMA PushStep ==
  ASSUME TypeOK, NEW s \in Stacks, NEW v \in Values, PushValue(s, v)
  PROVE  TypeOK' /\ Architecture!Push(s, v)
<1>1. Shaped(bank) BY DEF TypeOK, Shaped
<1>2. Transition(Push(bank, s, v)) /\ CellCount(bank, s) + 1 <= Limit(s)
  BY DEF PushValue, Room, Depth
<1>3. /\ Shaped(Push(bank, s, v))
      /\ Seen(Push(bank, s, v)) = [Seen(bank) EXCEPT ![s] = Append(@, v)]
  BY <1>1, SeenPush
<1>4. TypeOK' /\ View = Seen(bank) /\ View' = Seen(Push(bank, s, v))
  BY <1>2, <1>3, TransitionView
<1>5. Len(Seen(bank)[s]) = CellCount(bank, s) BY <1>1, SeenTop
<1> QED BY <1>2, <1>3, <1>4, <1>5
        DEF Architecture!Push, Architecture!Room, Limit, Architecture!Max

\* Discarding the topmost cell, for the program: a pop.
LEMMA DiscardStep ==
  ASSUME TypeOK, NEW s \in Stacks, Discard(s)
  PROVE  TypeOK' /\ Architecture!Pop(s)
<1>1. Shaped(bank) BY DEF TypeOK, Shaped
<1>2. Transition(Pop(bank, s)) /\ CellCount(bank, s) > 0
  BY DEF Discard, Depth
<1>3. /\ Shaped(Pop(bank, s))
      /\ Seen(Pop(bank, s)) = [Seen(bank) EXCEPT ![s] = SubSeq(@, 1, Len(@) - 1)]
  BY <1>1, <1>2, SeenPop
<1>4. TypeOK' /\ View = Seen(bank) /\ View' = Seen(Pop(bank, s))
  BY <1>2, <1>3, TransitionView
<1>5. Seen(bank)[s] # <<>> BY <1>1, <1>2, SeenTop
<1> QED BY <1>3, <1>4, <1>5
        DEF Architecture!Pop, Architecture!Popped, Architecture!NonEmpty

\* A publication keeps the program's stacks as they are.
LEMMA PublishStep ==
  ASSUME TypeOK, NEW s \in Stacks, Publish(s)
  PROVE  TypeOK' /\ View' = View
<1>1. Shaped(bank) BY DEF TypeOK, Shaped
<1>2. Transition(Flush(bank, s)) BY DEF Publish
<1>3. Shaped(Flush(bank, s)) /\ Seen(Flush(bank, s)) = Seen(bank) BY <1>1, SeenFlush
<1> QED BY <1>2, <1>3, TransitionView

\* DUP and the copies to the other stack, for the program: a copy of the top.
LEMMA CopyStep ==
  ASSUME TypeOK, NEW from \in Stacks, NEW to \in Stacks, Copy(from, to)
  PROVE  TypeOK' /\ Architecture!Copy(from, to)
<1>1. Shaped(bank) BY DEF TypeOK, Shaped
<1> DEFINE v == CellAt(bank, from, 0)
<1>2. /\ Transition(Push(bank, to, v))
      /\ CellCount(bank, from) > 0 /\ CellCount(bank, to) + 1 <= Limit(to)
  BY DEF Copy, Depth, Top, Room
<1>3. v \in Values /\ v = Seen(bank)[from][Len(Seen(bank)[from])] /\ Seen(bank)[from] # <<>>
  BY <1>1, <1>2, SeenTop
<1>v. v \in Values BY <1>3
<1> HIDE DEF v
<1>4. /\ Shaped(Push(bank, to, v))
      /\ Seen(Push(bank, to, v)) = [Seen(bank) EXCEPT ![to] = Append(@, v)]
  BY <1>1, <1>v, SeenPush
<1>5. TypeOK' /\ View = Seen(bank) /\ View' = Seen(Push(bank, to, v))
  BY <1>2, <1>4, TransitionView
<1>6. Len(Seen(bank)[to]) = CellCount(bank, to) BY <1>1, SeenTop
<1> QED BY <1>2, <1>3, <1>4, <1>5, <1>6
        DEF Architecture!Copy, Architecture!Push, Architecture!Room, Architecture!NonEmpty,
            Architecture!Top, Limit, Architecture!Max

\* MOVE and CPUSH, for the program: the top changes its stack.
LEMMA MoveStep ==
  ASSUME TypeOK, NEW from \in Stacks, NEW to \in Stacks, Move(from, to)
  PROVE  TypeOK' /\ Architecture!Move(from, to)
<1>1. Shaped(bank) BY DEF TypeOK, Shaped
<1> DEFINE v == CellAt(bank, from, 0)
<1> DEFINE b == Pop(bank, from)
<1>2. /\ Transition(Push(b, to, v)) /\ from # to
      /\ CellCount(bank, from) > 0 /\ CellCount(bank, to) + 1 <= Limit(to)
  BY DEF Move, Depth, Top, Room
<1>3. v \in Values /\ v = Seen(bank)[from][Len(Seen(bank)[from])] /\ Seen(bank)[from] # <<>>
  BY <1>1, <1>2, SeenTop
<1>4. Shaped(b) /\ Seen(b) = [Seen(bank) EXCEPT ![from] = SubSeq(@, 1, Len(@) - 1)]
  BY <1>1, <1>2, SeenPop
<1>v. v \in Values /\ Shaped(b) BY <1>3, <1>4
<1> HIDE DEF v, b
<1>5. Shaped(Push(b, to, v)) /\ Seen(Push(b, to, v)) = [Seen(b) EXCEPT ![to] = Append(@, v)]
  BY <1>v, SeenPush
<1>6. TypeOK' /\ View = Seen(bank) /\ View' = Seen(Push(b, to, v))
  BY <1>2, <1>5, TransitionView
<1>7. Len(Seen(bank)[to]) = CellCount(bank, to) BY <1>1, SeenTop
<1>8. Seen(Push(b, to, v)) = [Seen(bank) EXCEPT ![from] = SubSeq(@, 1, Len(@) - 1),
                                               ![to] = Append(@, v)]
  BY <1>2, <1>4, <1>5 DEF Seen
<1> QED BY <1>2, <1>3, <1>6, <1>7, <1>8
        DEF Architecture!Move, Architecture!Popped, Architecture!Room, Architecture!NonEmpty,
            Architecture!Top, Limit, Architecture!Max

\* CGET, for the program: a context cell is copied to an operand stack.
LEMMA GetStep ==
  ASSUME TypeOK, NEW to \in Operands, NEW depth \in 0 .. MaxC - 1, ContextGet(to, depth)
  PROVE  TypeOK' /\ Architecture!Get(to, depth)
<1>0. to \in Stacks /\ "C" \in Stacks BY OperandsAreStacks
<1>1. Shaped(bank) BY DEF TypeOK, Shaped
<1> DEFINE v == CellAt(bank, "C", depth)
<1>2. /\ Transition(Push(bank, to, v))
      /\ depth < CellCount(bank, "C") /\ CellCount(bank, to) + 1 <= Limit(to)
  BY DEF ContextGet, Depth, Room
<1>3. /\ Len(Seen(bank)["C"]) = CellCount(bank, "C") /\ CellCount(bank, "C") \in Nat
      /\ Seen(bank)["C"] = Contents(bank, "C") /\ Seen(bank)["C"] \in Seq(Values)
  BY <1>0, <1>1, SeenTop
<1>4. v = Seen(bank)["C"][Len(Seen(bank)["C"]) - depth] /\ v \in Values
  <2>1. depth \in 0 .. CellCount(bank, "C") - 1 BY <1>2, <1>3, BankConstants
  <2>2. v = Contents(bank, "C")[CellCount(bank, "C") - depth]
    BY <2>1, <1>0, <1>1, CellAtContents
  <2>3. CellCount(bank, "C") - depth \in 1 .. CellCount(bank, "C") BY <2>1, <1>3
  <2> QED BY <2>2, <2>3, <1>3, ElementOfSeq
<1>v. v \in Values BY <1>4
<1> HIDE DEF v
<1>5. /\ Shaped(Push(bank, to, v))
      /\ Seen(Push(bank, to, v)) = [Seen(bank) EXCEPT ![to] = Append(@, v)]
  BY <1>0, <1>1, <1>v, SeenPush
<1>6. TypeOK' /\ View = Seen(bank) /\ View' = Seen(Push(bank, to, v))
  BY <1>2, <1>5, TransitionView
<1>7. Len(Seen(bank)[to]) = CellCount(bank, to) BY <1>0, <1>1, SeenTop
<1> QED BY <1>2, <1>3, <1>4, <1>5, <1>6, <1>7
        DEF Architecture!Get, Architecture!Push, Architecture!Room, Limit, Architecture!Max

\* CSET, for the program: an operand replaces a context cell.
LEMMA SetStep ==
  ASSUME TypeOK, NEW from \in Operands, NEW depth \in 0 .. MaxC - 1, ContextSet(from, depth)
  PROVE  TypeOK' /\ Architecture!Set(from, depth)
<1>0. from \in Stacks /\ "C" \in Stacks /\ from # "C" BY OperandsAreStacks
<1>1. Shaped(bank) BY DEF TypeOK, Shaped
<1> DEFINE v == CellAt(bank, from, 0)
<1> DEFINE b == Pop(bank, from)
<1>2. /\ Transition(SetCell(b, "C", depth, v))
      /\ CellCount(bank, from) > 0 /\ depth < CellCount(bank, "C")
  BY DEF ContextSet, Depth, Top
<1>3. v \in Values /\ v = Seen(bank)[from][Len(Seen(bank)[from])] /\ Seen(bank)[from] # <<>>
  BY <1>0, <1>1, <1>2, SeenTop
<1>4. Shaped(b) /\ Seen(b) = [Seen(bank) EXCEPT ![from] = SubSeq(@, 1, Len(@) - 1)]
  BY <1>0, <1>1, <1>2, SeenPop
<1>5. CellCount(b, "C") = CellCount(bank, "C") BY <1>0, <1>1, <1>2, SeenPop
<1>6. /\ Len(Seen(bank)["C"]) = CellCount(bank, "C") /\ CellCount(bank, "C") \in Nat
  BY <1>0, <1>1, SeenTop
<1>7. depth \in 0 .. CellCount(b, "C") - 1 BY <1>2, <1>5, <1>6, BankConstants
<1>v. v \in Values /\ Shaped(b) BY <1>3, <1>4
<1> HIDE DEF v, b
<1>8. /\ Shaped(SetCell(b, "C", depth, v))
      /\ Seen(SetCell(b, "C", depth, v)) =
           [Seen(b) EXCEPT !["C"] = [@ EXCEPT ![Len(@) - depth] = v]]
  BY <1>0, <1>7, <1>v, SeenSet
<1>9. TypeOK' /\ View = Seen(bank) /\ View' = Seen(SetCell(b, "C", depth, v))
  BY <1>2, <1>8, TransitionView
<1> DEFINE popped == SubSeq(Seen(bank)[from], 1, Len(Seen(bank)[from]) - 1)
<1> DEFINE place == Len(Seen(bank)["C"]) - depth
<1>10. Seen(SetCell(b, "C", depth, v)) =
         [Seen(bank) EXCEPT ![from] = popped, !["C"][place] = v]
  BY <1>0, <1>4, <1>8 DEF Seen
<1>11. View' = [View EXCEPT ![from] = Architecture!Popped(from),
                            !["C"][Len(View["C"]) - depth] = Architecture!Top(from)]
  <2>1. /\ Architecture!Popped(from) = popped /\ Architecture!Top(from) = v
        /\ Len(View["C"]) - depth = place
    BY <1>3, <1>9 DEF Architecture!Popped, Architecture!Top
  <2> HIDE DEF popped, place
  <2> QED BY <2>1, <1>9, <1>10
<1>12. View[from] # <<>> /\ depth < Len(View["C"]) BY <1>2, <1>3, <1>6, <1>9
<1> QED BY <1>9, <1>11, <1>12 DEF Architecture!Set, Architecture!NonEmpty

\* A two-operand handler, for the program: two tops become one.
LEMMA BinaryStep ==
  ASSUME TypeOK, NEW me \in Operands, Binary(me)
  PROVE  TypeOK' /\ Architecture!Binary(me)
<1> DEFINE other == Other(me)
<1>0. me \in Stacks /\ other \in Stacks /\ other # me BY OperandsAreStacks
<1>1. Shaped(bank) BY DEF TypeOK, Shaped
<1> DEFINE l == CellAt(bank, me, 0)
<1> DEFINE r == CellAt(bank, other, 0)
<1> DEFINE b == Pop(bank, other)
<1>2. /\ Transition(SetCell(b, me, 0, Op(l, r)))
      /\ CellCount(bank, me) > 0 /\ CellCount(bank, other) > 0
  BY DEF Binary, Depth, Top
<1> HIDE DEF other
<1>3. /\ l \in Values /\ l = Seen(bank)[me][Len(Seen(bank)[me])] /\ Seen(bank)[me] # <<>>
  BY <1>0, <1>1, <1>2, SeenTop
<1>4. /\ r \in Values /\ r = Seen(bank)[other][Len(Seen(bank)[other])] /\ Seen(bank)[other] # <<>>
  BY <1>0, <1>1, <1>2, SeenTop
<1>5. Shaped(b) /\ Seen(b) = [Seen(bank) EXCEPT ![other] = SubSeq(@, 1, Len(@) - 1)]
  BY <1>0, <1>1, <1>2, SeenPop
<1>6. CellCount(b, me) = CellCount(bank, me) BY <1>0, <1>1, <1>2, SeenPop
<1>7. CellCount(bank, me) \in Nat /\ Len(Seen(bank)[me]) = CellCount(bank, me)
  BY <1>0, <1>1, SeenTop
<1>8. 0 \in 0 .. CellCount(b, me) - 1 BY <1>2, <1>6, <1>7
<1>v. Op(l, r) \in Values BY <1>3, <1>4, BankConstants
<1>s. Shaped(b) BY <1>5
<1> HIDE DEF l, r, b
<1>9. /\ Shaped(SetCell(b, me, 0, Op(l, r)))
      /\ Seen(SetCell(b, me, 0, Op(l, r))) =
           [Seen(b) EXCEPT ![me] = [@ EXCEPT ![Len(@) - 0] = Op(l, r)]]
  BY <1>0, <1>8, <1>v, <1>s, SeenSet
<1>10. TypeOK' /\ View = Seen(bank) /\ View' = Seen(SetCell(b, me, 0, Op(l, r)))
  BY <1>2, <1>9, TransitionView
<1>11. Seen(b)[me] = Seen(bank)[me] BY <1>0, <1>5 DEF Seen
<1>12. Len(Seen(bank)[me]) - 0 = Len(Seen(bank)[me]) BY <1>7
<1>13. Seen(SetCell(b, me, 0, Op(l, r))) =
         [Seen(bank) EXCEPT ![me] = [@ EXCEPT ![Len(Seen(bank)[me])] = Op(l, r)],
                            ![other] = SubSeq(@, 1, Len(@) - 1)]
  BY <1>0, <1>5, <1>9, <1>11, <1>12 DEF Seen
<1>14. Architecture!Other(me) = other BY DEF Architecture!Other, Other, other
<1> QED BY <1>2, <1>3, <1>4, <1>10, <1>13, <1>14
        DEF Architecture!Binary, Architecture!Popped, Architecture!NonEmpty, Architecture!Top

\* Cutting cells off a published stack.
LEMMA CutContents ==
  ASSUME NEW b, Shaped(b), NEW s \in Stacks, b.cached[s] = 0,
         NEW kept \in 0 .. Len(b.mem[s])
  PROVE  LET c == [b EXCEPT !.mem[s] = SubSeq(@, 1, kept)]
         IN  /\ Shaped(c)
             /\ \A t \in Stacks : Contents(c, t) =
                  IF t = s THEN SubSeq(b.mem[s], 1, kept) ELSE Contents(b, t)
<1> DEFINE c == [b EXCEPT !.mem[s] = SubSeq(@, 1, kept)]
<1> DEFINE m == SubSeq(b.mem[s], 1, kept)
<1>1. /\ b.mem \in [Stacks -> Seq(Values)] /\ b.cached \in [Stacks -> Nat]
      /\ b.reg \in [Bank -> Values] /\ Anchoring(b)
  BY DEF Shaped, BankType
<1>2. b.mem[s] \in Seq(Values) /\ Len(b.mem[s]) \in Nat BY <1>1
<1>3. m \in Seq(Values) /\ Len(m) = kept BY <1>2
<1>4. c = [b EXCEPT !.mem = [@ EXCEPT ![s] = m]] OBVIOUS
<1> HIDE DEF m
<1>5. /\ c.cached = b.cached /\ c.reg = b.reg /\ c.mem = [b.mem EXCEPT ![s] = m]
  BY <1>4 DEF Shaped, BankType
<1>6. Shaped(c)
  <2>1. [b.mem EXCEPT ![s] = m] \in [Stacks -> Seq(Values)] BY <1>1, <1>3
  <2>2. c \in BankType BY <2>1, <1>1, <1>4 DEF Shaped, BankType
  <2> QED BY <2>2, <1>1, <1>5 DEF Shaped, Anchoring
<1> HIDE DEF c
<1>7. ASSUME NEW t \in Stacks
      PROVE  Contents(c, t) = IF t = s THEN m ELSE Contents(b, t)
  <2>1. CASE t = s
    <3>1. c.mem[s] = m /\ c.cached[s] = 0 BY <1>1, <1>5
    <3>2. CellCount(c, s) = Len(m) BY <3>1, <1>3 DEF CellCount
    <3>3. Contents(c, s) \in Seq(Values) /\ Len(Contents(c, s)) = Len(m)
      BY <3>2, <1>6, ContentsSeq
    <3>4. \A i \in 1 .. Len(c.mem[s]) : Contents(c, s)[i] = c.mem[s][i]
      BY <1>6, ContentsPlaces
    <3>5. Contents(c, s) = m BY <3>1, <3>3, <3>4, <1>3, SeqEqual
    <3> QED BY <3>5, <2>1
  <2>2. CASE t # s
    <3>1. c.mem[t] = b.mem[t] /\ c.cached[t] = b.cached[t] /\ b.cached[t] \in Nat
      BY <2>2, <1>1, <1>5
    <3>2. SameCells(b, c, t) BY <3>1, <1>5 DEF SameCells
    <3>3. CellCount(c, t) = CellCount(b, t) BY <3>1 DEF CellCount
    <3>4. \A i \in 1 .. CellCount(c, t) : Contents(c, t)[i] = Contents(b, t)[i]
      BY <3>2, <1>6, ContentsAgree
    <3>5. Contents(c, t) = Contents(b, t) BY <3>3, <3>4, <1>6, ContentsEqual
    <3> QED BY <2>2, <3>5
  <2> QED BY <2>1, <2>2
<1> QED BY <1>6, <1>7 DEF c, m

\* A return that begins a transfer has done all of it, as the program sees it.
LEMMA TransferBeginStep ==
  ASSUME TypeOK, NEW me \in Operands, NEW cells \in Nat, TransferBegin(me, cells)
  PROVE  TypeOK' /\ Architecture!Transfer(me, cells)
<1> DEFINE other == Other(me)
<1> DEFINE b == Flush(bank, me)
<1> DEFINE full == Contents(bank, me)
<1> DEFINE kept == CellCount(bank, me) - cells
<1>0. me \in Stacks /\ other \in Stacks /\ other \in Operands /\ other # me
  BY OperandsAreStacks
<1>1. Shaped(bank) BY DEF TypeOK, Shaped
<1>2. full \in Seq(Values) /\ Len(full) = CellCount(bank, me) /\ CellCount(bank, me) \in Nat
  BY <1>0, <1>1, ContentsSeq
<1>3. /\ pending = <<>> /\ target' = other
      /\ cells <= CellCount(bank, me) /\ CellCount(bank, other) + cells <= Limit(other)
      /\ bank' = [b EXCEPT !.mem[me] = SubSeq(@, 1, kept)]
      /\ pending' = SubSeq(b.mem[me], kept + 1, kept + cells)
  BY DEF TransferBegin, Depth, Room
<1> HIDE DEF other
<1>4. Shaped(b) BY <1>0, <1>1, FlushContents
<1>5. b.cached = [bank.cached EXCEPT ![me] = 0] /\ b.mem = [bank.mem EXCEPT ![me] = full]
  BY <1>0, <1>1, FlushContents
<1>6. \A t \in Stacks : Contents(b, t) = Contents(bank, t)
  BY <1>0, <1>1, FlushContents
<1>7. b.cached[me] = 0 /\ b.mem[me] = full
  BY <1>0, <1>1, <1>5 DEF Shaped, BankType
<1> HIDE DEF b
<1>8. kept \in 0 .. Len(full) /\ kept + cells = Len(full) BY <1>2, <1>3
<1> HIDE DEF kept
<1>k. kept \in 0 .. Len(b.mem[me]) BY <1>7, <1>8
<1>9. /\ Shaped(bank')
      /\ \A t \in Stacks : Contents(bank', t) =
           IF t = me THEN SubSeq(full, 1, kept) ELSE Contents(bank, t)
  <2> DEFINE c == [b EXCEPT !.mem[me] = SubSeq(@, 1, kept)]
  <2>1. /\ Shaped(c)
        /\ \A t \in Stacks : Contents(c, t) =
             IF t = me THEN SubSeq(b.mem[me], 1, kept) ELSE Contents(b, t)
    BY <1>0, <1>4, <1>7, <1>k, CutContents
  <2>2. bank' = c BY <1>3
  <2> HIDE DEF c
  <2> QED BY <2>1, <2>2, <1>6, <1>7
<1> HIDE DEF full
<1>10. pending' = SubSeq(full, kept + 1, Len(full)) /\ pending' \in Seq(Values)
  <2>1. pending' = SubSeq(full, kept + 1, Len(full)) BY <1>3, <1>7, <1>8
  <2>2. /\ full \in Seq(Values) /\ Len(full) \in Nat /\ kept \in Nat
        /\ kept + 1 \in 1 .. Len(full) + 1 /\ Len(full) \in kept .. Len(full)
    BY <1>2, <1>8
  <2>3. \A i \in kept + 1 .. Len(full) : full[i] \in Values
    <3>1. ASSUME NEW i \in kept + 1 .. Len(full) PROVE full[i] \in Values
      <4>1. i \in 1 .. Len(full) BY <2>2
      <4> QED BY <4>1, <2>2, ElementOfSeq
    <3> QED BY <3>1
  <2>4. SubSeq(full, kept + 1, Len(full)) \in Seq(Values)
    BY <2>2, <2>3, SubSeqProperties
  <2> QED BY <2>1, <2>4
<1>11. TypeOK' BY <1>0, <1>3, <1>9, <1>10 DEF TypeOK, Shaped
<1>12. View = Seen(bank) BY <1>1, <1>3, IdleView DEF View
<1>13. View' = [s \in Stacks |-> IF s = other THEN Contents(bank', s) \o pending'
                                              ELSE Contents(bank', s)]
  BY <1>3 DEF View, ViewOf
<1>14. View' = [View EXCEPT ![me] = SubSeq(@, 1, kept),
                            ![other] = @ \o SubSeq(View[me], kept + 1, Len(View[me]))]
  BY <1>0, <1>9, <1>10, <1>12, <1>13 DEF Seen, full
<1>15. /\ View[me] = full /\ View[other] = Contents(bank, other)
       /\ Len(View[other]) = CellCount(bank, other)
  <2>1. View[me] = full /\ View[other] = Contents(bank, other)
    BY <1>0, <1>12 DEF Seen, full
  <2> QED BY <2>1, <1>0, <1>1, ContentsSeq
<1>16. kept = Len(View[me]) - cells /\ cells <= Len(View[me])
  BY <1>2, <1>3, <1>15 DEF kept
<1>17. Architecture!Other(me) = other BY DEF Architecture!Other, Other, other
<1> QED BY <1>3, <1>11, <1>14, <1>15, <1>16, <1>17
        DEF Architecture!Transfer, Architecture!Room, Limit, Architecture!Max

\* Each result pushed leaves the program's view as it was.
LEMMA TransferNextStep ==
  ASSUME TypeOK, TransferNext
  PROVE  TypeOK' /\ View' = View
<1> DEFINE v == Head(pending)
<1> DEFINE rest == Tail(pending)
<1>0. target \in Stacks BY OperandsAreStacks DEF TypeOK
<1>1. Shaped(bank) /\ pending \in Seq(Values) BY DEF TypeOK, Shaped
<1>2. /\ pending # <<>> /\ bank' = Push(bank, target, v) /\ pending' = rest
      /\ target' = target
  BY DEF TransferNext
<1>3. /\ v \in Values /\ rest \in Seq(Values) /\ Len(rest) = Len(pending) - 1
      /\ \A i \in 1 .. Len(rest) : rest[i] = pending[i + 1]
      /\ v = pending[1] /\ Len(pending) \in Nat
  BY <1>1, <1>2, HeadTailProperties
<1>v. v \in Values BY <1>3
<1> HIDE DEF v, rest
<1>4. /\ Shaped(bank')
      /\ \A t \in Stacks : Contents(bank', t) =
           IF t = target THEN Append(Contents(bank, t), v) ELSE Contents(bank, t)
  BY <1>0, <1>1, <1>2, <1>v, PushContents
<1>5. TypeOK' BY <1>0, <1>2, <1>3, <1>4 DEF TypeOK, Shaped
<1>6. Append(Contents(bank, target), v) \o rest = Contents(bank, target) \o pending
  <2> DEFINE q == Contents(bank, target)
  <2>1. q \in Seq(Values) /\ Len(q) \in Nat BY <1>0, <1>1, ContentsSeq
  <2> HIDE DEF q
  <2> DEFINE r == Append(q, v)
  <2>2. /\ r \in Seq(Values) /\ Len(r) = Len(q) + 1 /\ r[Len(q) + 1] = v
        /\ \A i \in 1 .. Len(q) : r[i] = q[i]
    BY <2>1, <1>v, AppendProperties
  <2> HIDE DEF r
  <2>3. /\ r \o rest \in Seq(Values) /\ Len(r \o rest) = Len(r) + Len(rest)
        /\ \A i \in 1 .. Len(r) + Len(rest) : (r \o rest)[i] =
             IF i <= Len(r) THEN r[i] ELSE rest[i - Len(r)]
    BY <2>2, <1>3, ConcatProperties
  <2>4. /\ q \o pending \in Seq(Values) /\ Len(q \o pending) = Len(q) + Len(pending)
        /\ \A i \in 1 .. Len(q) + Len(pending) : (q \o pending)[i] =
             IF i <= Len(q) THEN q[i] ELSE pending[i - Len(q)]
    BY <2>1, <1>1, ConcatProperties
  <2>5. Len(r) + Len(rest) = Len(q) + Len(pending) BY <2>1, <2>2, <1>3
  <2>6. ASSUME NEW i \in 1 .. Len(q) + Len(pending) PROVE (r \o rest)[i] = (q \o pending)[i]
    <3>0. i \in Nat BY <2>1, <1>3
    <3>1. CASE i <= Len(q)
      <4>1. i \in 1 .. Len(q) /\ i <= Len(r) BY <3>0, <3>1, <2>1, <2>2
      <4>2. i \in 1 .. Len(r) + Len(rest) /\ i <= Len(q) BY <4>1, <2>5, <3>1
      <4>3. (r \o rest)[i] = r[i] BY <4>1, <4>2, <2>3
      <4>4. (q \o pending)[i] = q[i] BY <4>2, <2>4
      <4>5. r[i] = q[i] BY <4>1, <2>2
      <4> QED BY <4>3, <4>4, <4>5
    <3>2. CASE i = Len(q) + 1
      <4>1. (r \o rest)[i] = v BY <3>2, <2>1, <2>2, <2>3, <2>5
      <4>2. ~(i <= Len(q)) /\ i - Len(q) = 1 BY <3>2, <2>1
      <4> QED BY <4>1, <4>2, <2>4, <1>3
    <3>3. CASE i > Len(q) + 1
      <4> DEFINE j == i - Len(r)
      <4>1. j \in 1 .. Len(rest) /\ i - Len(q) = j + 1 /\ ~(i <= Len(r)) /\ ~(i <= Len(q))
        BY <3>0, <3>3, <2>1, <2>2, <2>5, <1>3
      <4>2. (r \o rest)[i] = rest[j] BY <4>1, <2>3, <2>5
      <4>3. (q \o pending)[i] = pending[j + 1] BY <4>1, <2>4
      <4> HIDE DEF j
      <4> QED BY <4>1, <4>2, <4>3, <1>3
    <3>4. i <= Len(q) \/ i = Len(q) + 1 \/ i > Len(q) + 1 BY <3>0, <2>1
    <3> QED BY <3>1, <3>2, <3>3, <3>4
  <2>7. r \o rest = q \o pending
    <3> DEFINE x == r \o rest
    <3> DEFINE y == q \o pending
    <3>1. x \in Seq(Values) /\ y \in Seq(Values) /\ Len(x) = Len(y)
          /\ Len(x) = Len(q) + Len(pending)
      BY <2>3, <2>4, <2>5
    <3>2. \A i \in 1 .. Len(q) + Len(pending) : x[i] = y[i] BY <2>6
    <3> HIDE DEF x, y
    <3>3. x = y BY <3>1, <3>2, SeqEqual
    <3> QED BY <3>3 DEF x, y
  <2> QED BY <2>7 DEF q, r
<1>7. View' = View BY <1>0, <1>2, <1>4, <1>6 DEF View, ViewOf
<1> QED BY <1>5, <1>7

-----------------------------------------------------------------------------

\* The bank starts in its shape, and the program with three empty stacks.
LEMMA InitRefines ==
  ASSUME Init
  PROVE  TypeOK /\ Architecture!Init
<1>1. /\ bank = [mem |-> [s \in Stacks |-> <<>>],
                 cached |-> [s \in Stacks |-> 0],
                 reg |-> [r \in Bank |-> Zero]]
      /\ pending = <<>> /\ target = "A"
  BY DEF Init
<1>2. /\ bank.mem = [s \in Stacks |-> <<>>] /\ bank.cached = [s \in Stacks |-> 0]
      /\ bank \in BankType
  BY <1>1, BankConstants DEF BankType
<1>3. \A s \in Stacks : bank.mem[s] = <<>> /\ bank.cached[s] = 0 BY <1>2
<1>4. Shaped(bank) BY <1>2, <1>3, BankConstants DEF Shaped, Anchoring, Stacks
<1>5. TypeOK BY <1>1, <1>4 DEF TypeOK, Shaped, Operands
<1>6. \A s \in Stacks : Contents(bank, s) = <<>>
  <2> TAKE s \in Stacks
  <2>1. Contents(bank, s) \in Seq(Values) /\ Len(Contents(bank, s)) = CellCount(bank, s)
    BY <1>4, ContentsSeq
  <2>2. CellCount(bank, s) = 0 BY <1>3 DEF CellCount
  <2> QED BY <2>1, <2>2
<1>7. View = Seen(bank) BY <1>1, <1>4, IdleView DEF View
<1>8. View = [s \in Stacks |-> <<>>] BY <1>6, <1>7 DEF Seen
<1> QED BY <1>5, <1>8 DEF Architecture!Init, Architecture!Stacks, Stacks

\* A depth bound is a natural number.
LEMMA MaxInNat ==
  ASSUME NEW s \in Stacks
  PROVE  Limit(s) \in Nat /\ Limit(s) = Architecture!Max(s)
BY BankConstants DEF Limit, Architecture!Max, Stacks

\* Every step keeps the bank's shape, and is a step of the three stacks or one
\* that the program does not see.
LEMMA StepRefines ==
  ASSUME TypeOK, [Next]_vars
  PROVE  TypeOK' /\ [Architecture!Next]_View
<1> DEFINE A == Architecture!Next
<1>s. Stacks = Architecture!Stacks /\ Operands = Architecture!Operands
  BY DEF Stacks, Operands, Architecture!Stacks, Architecture!Operands
<1>1. ASSUME NEW s \in Stacks, NEW v \in Values, PushValue(s, v) PROVE TypeOK' /\ A
  BY <1>1, <1>s, PushStep DEF Architecture!Next
<1>2. ASSUME NEW s \in Stacks, Discard(s) PROVE TypeOK' /\ A
  BY <1>2, <1>s, DiscardStep DEF Architecture!Next
<1>3. ASSUME NEW s \in Stacks, Publish(s) PROVE TypeOK' /\ View' = View
  BY <1>3, PublishStep
<1>4. ASSUME NEW from \in Stacks, NEW to \in Stacks, Copy(from, to) PROVE TypeOK' /\ A
  BY <1>4, <1>s, CopyStep DEF Architecture!Next
<1>5. ASSUME NEW from \in Stacks, NEW to \in Stacks, Move(from, to) PROVE TypeOK' /\ A
  BY <1>5, <1>s, MoveStep DEF Architecture!Next
<1>6. ASSUME NEW s \in Operands, NEW depth \in 0 .. MaxC - 1, ContextGet(s, depth)
      PROVE  TypeOK' /\ A
  BY <1>6, <1>s, GetStep DEF Architecture!Next
<1>7. ASSUME NEW s \in Operands, NEW depth \in 0 .. MaxC - 1, ContextSet(s, depth)
      PROVE  TypeOK' /\ A
  BY <1>7, <1>s, SetStep DEF Architecture!Next
<1>8. ASSUME NEW s \in Operands, Binary(s) PROVE TypeOK' /\ A
  BY <1>8, <1>s, BinaryStep DEF Architecture!Next
<1>9. ASSUME NEW s \in Operands, NEW cells \in 0 .. Limit(s), TransferBegin(s, cells)
      PROVE  TypeOK' /\ A
  <2>1. s \in Stacks BY OperandsAreStacks
  <2>2. cells \in Nat /\ cells \in 0 .. Architecture!Max(s) BY <2>1, MaxInNat
  <2>3. TypeOK' /\ Architecture!Transfer(s, cells) BY <1>9, <2>2, TransferBeginStep
  <2> QED BY <2>2, <2>3, <1>s DEF Architecture!Next
<1>10. CASE TransferNext BY <1>10, TransferNextStep
<1>11. CASE UNCHANGED vars
  <2>1. bank' = bank /\ pending' = pending /\ target' = target BY <1>11 DEF vars
  <2> QED BY <2>1 DEF TypeOK, View, ViewOf, Contents, CellCount, CellAt
<1> QED BY <1>1, <1>2, <1>3, <1>4, <1>5, <1>6, <1>7, <1>8, <1>9, <1>10, <1>11 DEF Next

\* Whatever the handlers do, the bank keeps its shape: every cached cell has a
\* register of its own, and A and B never overlap in the bank they share.
THEOREM BankKeepsShape == Spec => []TypeOK
<1>1. Init => TypeOK BY InitRefines
<1>2. TypeOK /\ [Next]_vars => TypeOK' BY StepRefines
<1> QED BY <1>1, <1>2, PTL DEF Spec

\* For every register count, every depth and every cell contents, the handlers
\* over the banks implement the three plain stacks.
THEOREM BankImplementsStacks == Spec => ImplementsStacks
<1>1. Init => Architecture!Init BY InitRefines
<1>2. TypeOK /\ [Next]_vars => [Architecture!Next]_View BY StepRefines
<1> QED BY <1>1, <1>2, BankKeepsShape, PTL DEF Spec, ImplementsStacks, Architecture!Spec

-----------------------------------------------------------------------------
(* The source lifetime bindings: the inductive invariant.                   *)

Phases == {"idle", "running", "draining", "unwinding", "closing"}

Types ==
  /\ slot \in [Slots -> Owners \cup {None}]
  /\ count \in [Owners -> Nat]
  /\ dead \in Seq(Owners)
  /\ frames \in Seq(Frames)
  /\ todo \subseteq Slots
  /\ phase \in Phases

Holders(h, o) == {s \in Slots : h[s] = o}

\* The dead queue names an owner once, and only owners without a holder.
QueueInv == IsInjective(dead) /\ \A o \in Range(dead) : count[o] = 0

\* Whose slots may hold something.
Kept(s) ==
  \/ In[s] = Image \/ In[s] \in Range(frames) \/ s \in todo
  \/ In[s] \in Owners /\ (Live(In[s]) \/ Dead(In[s]))
KeptInv == \A s \in Slots : slot[s] # None => Kept(s)

HeapInv == Types /\ HoldingsExact /\ QueueInv /\ KeptInv

LifetimeInv == HeapInv /\ CleanBoundaries /\ (phase = "closing" => frames = <<>>)

-----------------------------------------------------------------------------
(* Counting holders. *)

\* Slots that hold g are slots that held h, but for s, which takes n.
Taking(h, g, s, n) ==
  /\ h \in [Slots -> Owners \cup {None}] /\ s \in Slots
  /\ g = [h EXCEPT ![s] = n]

\* The holders of o before and after.
Counted(h, g, s, n, o) ==
  /\ Cardinality(Holders(h, o)) \in Nat
  /\ h[s] = o => Cardinality(Holders(h, o)) > 0
  /\ Cardinality(Holders(g, o)) =
       IF h[s] = n THEN Cardinality(Holders(h, o))
       ELSE IF h[s] = o THEN Cardinality(Holders(h, o)) - 1
       ELSE IF n = o THEN Cardinality(Holders(h, o)) + 1
       ELSE Cardinality(Holders(h, o))

\* A slot that takes n changes the number of holders of what it held and of n.
LEMMA HoldersChange ==
  ASSUME NEW h, NEW g, NEW s, NEW n, NEW o, Taking(h, g, s, n)
  PROVE  Counted(h, g, s, n, o)
<1> DEFINE H == Holders(h, o)
           N == Holders(g, o)
<1> USE DEF Taking
<1>1. H \in SUBSET Slots
  BY DEF Holders
<1>2. IsFiniteSet(H)
  BY <1>1, LifetimeConstants, FS_Subset
<1>3. Cardinality(H) \in Nat
  BY <1>2, FS_CardinalityType
<1>4. h[s] = o => Cardinality(H) > 0
  <2>1. h[s] = o => H # {}
    BY DEF Holders
  <2>2. H # {} => Cardinality(H) # 0
    BY <1>2, FS_EmptySet
  <2> QED
    BY <1>3, <2>1, <2>2
<1>5. h[s] = n => N = H
  BY DEF Holders
<1>6. h[s] # n /\ h[s] = o => N = H \ {s} /\ s \in H
  BY DEF Holders
<1>7. h[s] # n /\ h[s] # o /\ n = o => N = H \cup {s} /\ s \notin H
  BY DEF Holders
<1>8. h[s] # o /\ n # o => N = H
  BY DEF Holders
<1>9. Cardinality(H \ {s}) = IF s \in H THEN Cardinality(H) - 1 ELSE Cardinality(H)
  BY <1>2, FS_RemoveElement
<1>10. Cardinality(H \cup {s}) = IF s \in H THEN Cardinality(H) ELSE Cardinality(H) + 1
  BY <1>2, FS_AddElement
<1> HIDE DEF H, N
<1>11. Cardinality(N) =
         IF h[s] = n THEN Cardinality(H)
         ELSE IF h[s] = o THEN Cardinality(H) - 1
         ELSE IF n = o THEN Cardinality(H) + 1
         ELSE Cardinality(H)
  BY <1>5, <1>6, <1>7, <1>8, <1>9, <1>10
<1> QED
  BY <1>3, <1>4, <1>11 DEF H, N, Counted

\* What an owner at the end of the dead queue adds to it.
LEMMA Queued ==
  ASSUME NEW d \in Seq(Owners), NEW o \in Owners
  PROVE  /\ Append(d, o) \in Seq(Owners)
         /\ Range(Append(d, o)) = Range(d) \cup {o}
         /\ IsInjective(d) /\ o \notin Range(d) => IsInjective(Append(d, o))
<1>1. /\ Append(d, o) \in Seq(Owners)
      /\ Len(Append(d, o)) = Len(d) + 1 /\ Len(d) \in Nat
      /\ DOMAIN d = 1 .. Len(d)
      /\ \A i \in 1 .. Len(d) : Append(d, o)[i] = d[i]
      /\ Append(d, o)[Len(d) + 1] = o
  BY AppendProperties, LenProperties
<1>2. DOMAIN Append(d, o) = 1 .. Len(d) + 1
  BY <1>1, LenProperties
<1>3. Range(Append(d, o)) = Range(d) \cup {o}
  BY <1>1, <1>2 DEF Range
<1>4. IsInjective(d) /\ o \notin Range(d) => IsInjective(Append(d, o))
  BY <1>1, <1>2 DEF Range, IsInjective
<1> QED
  BY <1>1, <1>3, <1>4

\* What is left of a queue whose first element is taken.
LEMMA Taken ==
  ASSUME NEW d \in Seq(Owners), d # <<>>
  PROVE  /\ Tail(d) \in Seq(Owners) /\ Head(d) \in Owners
         /\ Range(d) = Range(Tail(d)) \cup {Head(d)}
         /\ IsInjective(d) => IsInjective(Tail(d))
<1>1. /\ Tail(d) \in Seq(Owners) /\ Head(d) \in Owners
      /\ Len(Tail(d)) = Len(d) - 1 /\ Len(d) \in Nat \ {0}
      /\ DOMAIN d = 1 .. Len(d)
      /\ \A i \in 1 .. Len(Tail(d)) : Tail(d)[i] = d[i + 1]
      /\ Head(d) = d[1]
  BY HeadTailProperties, LenProperties, EmptySeq
<1>2. DOMAIN Tail(d) = 1 .. Len(d) - 1
  BY <1>1, LenProperties
<1>3. \A i \in 1 .. Len(d) - 1 : Tail(d)[i] = d[i + 1] /\ i + 1 \in DOMAIN d
  BY <1>1
<1>4. \A i \in DOMAIN d : i = 1 \/ (i - 1 \in 1 .. Len(d) - 1 /\ (i - 1) + 1 = i)
  BY <1>1
<1>5. Range(d) = Range(Tail(d)) \cup {Head(d)}
  <2>1. ASSUME NEW o \in Range(d) PROVE o \in Range(Tail(d)) \cup {Head(d)}
    <3>1. PICK i \in DOMAIN d : d[i] = o
      BY <2>1 DEF Range
    <3>2. CASE i = 1
      BY <1>1, <3>1, <3>2
    <3>3. CASE i # 1
      <4>1. PICK j \in 1 .. Len(d) - 1 : j + 1 = i
        BY <1>4, <3>1, <3>3
      <4>2. Tail(d)[j] = o
        BY <1>3, <3>1, <4>1
      <4> QED
        BY <1>2, <4>1, <4>2 DEF Range
    <3> QED
      BY <3>2, <3>3
  <2>2. ASSUME NEW o \in Range(Tail(d)) PROVE o \in Range(d)
    <3>1. PICK i \in 1 .. Len(d) - 1 : Tail(d)[i] = o
      BY <1>2, <2>2 DEF Range
    <3> QED
      BY <1>3, <3>1 DEF Range
  <2>3. Head(d) \in Range(d)
    BY <1>1 DEF Range
  <2> QED
    BY <2>1, <2>2, <2>3
<1>6. IsInjective(d) => IsInjective(Tail(d))
  <2> SUFFICES ASSUME IsInjective(d), NEW i \in 1 .. Len(d) - 1, NEW j \in 1 .. Len(d) - 1,
                      Tail(d)[i] = Tail(d)[j]
               PROVE  i = j
    BY <1>2 DEF IsInjective
  <2>1. d[i + 1] = d[j + 1] /\ i + 1 \in DOMAIN d /\ j + 1 \in DOMAIN d
    BY <1>3
  <2>2. i + 1 = j + 1
    BY <2>1 DEF IsInjective
  <2> QED
    BY <1>1, <2>2
<1> QED
  BY <1>1, <1>5, <1>6

\* The frames but the innermost.
LEMMA Left ==
  ASSUME NEW fs \in Seq(Frames), fs # <<>>
  PROVE  /\ Front(fs) \in Seq(Frames) /\ Last(fs) \in Frames
         /\ Range(fs) = Range(Front(fs)) \cup {Last(fs)}
<1>1. Len(fs) \in Nat \ {0} /\ DOMAIN fs = 1 .. Len(fs)
  BY EmptySeq, LenProperties
<1>2. /\ SubSeq(fs, 1, Len(fs) - 1) \in Seq(Frames)
      /\ Len(SubSeq(fs, 1, Len(fs) - 1)) = Len(fs) - 1
      /\ \A i \in 1 .. Len(fs) - 1 : SubSeq(fs, 1, Len(fs) - 1)[i] = fs[i]
  BY <1>1, Z3
<1>3. /\ Front(fs) \in Seq(Frames)
      /\ DOMAIN Front(fs) = 1 .. Len(fs) - 1
      /\ \A i \in 1 .. Len(fs) - 1 : Front(fs)[i] = fs[i]
      /\ Last(fs) = fs[Len(fs)]
  BY <1>2, LenProperties DEF Front, Last
<1>4. Last(fs) \in Frames
  BY <1>1, <1>3, ElementOfSeq
<1>5. \A n \in Nat \ {0} : \A i \in 1 .. n : i = n \/ i \in 1 .. n - 1
  OBVIOUS
<1>6. \A n \in Nat \ {0} : n \in 1 .. n /\ \A i \in 1 .. n - 1 : i \in 1 .. n
  OBVIOUS
<1>7. Range(fs) = Range(Front(fs)) \cup {Last(fs)}
  BY <1>1, <1>3, <1>5, <1>6 DEF Range
<1> QED
  BY <1>3, <1>4, <1>7

-----------------------------------------------------------------------------
(* Releasing. *)

LEMMA DeadIsQueued ==
  ASSUME NEW o
  PROVE  Dead(o) <=> o \in Range(dead)
BY DEF Dead, Range

\* A slot takes n, which may be null or newly allocated, and what it held is
\* released: source_drop, abc_owner_replace and source_alloc.
LEMMA Releasing ==
  ASSUME HeapInv, NEW s \in Slots, NEW n \in Owners \cup {None},
         n # None => ~Dead(n) /\ Usable(In[s]),
         Release(slot[s], [slot EXCEPT ![s] = n], Retained(count, n)),
         frames' = frames, todo' \subseteq Slots, phase' \in Phases,
         \A t \in todo : t = s \/ t \in todo'
  PROVE  HeapInv'
<1> DEFINE old == slot[s]
<1>0. /\ Types /\ HoldingsExact /\ QueueInv /\ KeptInv
      /\ old \in Owners \cup {None} /\ None \notin Owners
  BY LifetimeConstants DEF HeapInv, Types
<1>1. slot' = [slot EXCEPT ![s] = n] /\ slot \in [Slots -> Owners \cup {None}]
  BY <1>0 DEF Release, Types
<1>2. ASSUME NEW o \in Owners
      PROVE  /\ count[o] \in Nat
             /\ old = o => count[o] > 0
             /\ Cardinality(Holders(slot', o)) =
                  IF old = n THEN count[o]
                  ELSE IF old = o THEN count[o] - 1
                  ELSE IF n = o THEN count[o] + 1
                  ELSE count[o]
  <2>1. count[o] = Cardinality(Holders(slot, o))
    BY <1>0 DEF HoldingsExact, Holders
  <2>2. PICK h : h = slot
    OBVIOUS
  <2>3. PICK g : g = slot'
    OBVIOUS
  <2>4. Taking(h, g, s, n)
    BY <1>1, <2>2, <2>3 DEF Taking
  <2>5. Counted(h, g, s, n, o)
    BY <2>4, HoldersChange
  <2> QED
    BY <2>1, <2>2, <2>3, <2>5 DEF Counted
<1>3. PICK c : c = Retained(count, n)
  OBVIOUS
<1>4. /\ c \in [Owners -> Nat]
      /\ \A o \in Owners : c[o] = IF o = n THEN count[o] + 1 ELSE count[o]
  BY <1>0, <1>3 DEF Retained, Types
<1>5. /\ count' = IF old = None THEN c ELSE [c EXCEPT ![old] = @ - 1]
      /\ dead' = IF old # None /\ c[old] = 1 THEN Append(dead, old) ELSE dead
  BY <1>3 DEF Release
<1>6. /\ count' \in [Owners -> Int]
      /\ \A o \in Owners : count'[o] = IF o = old THEN c[o] - 1 ELSE c[o]
  BY <1>0, <1>4, <1>5
<1>7. \A o \in Owners : /\ count'[o] = Cardinality(Holders(slot', o))
                        /\ count'[o] \in Nat
  BY <1>0, <1>2, <1>4, <1>6
<1>8. HoldingsExact' /\ count' \in [Owners -> Nat]
  BY <1>6, <1>7 DEF HoldingsExact, Holders
<1>9. /\ dead \in Seq(Owners) /\ Range(dead) \subseteq Owners
      /\ IsInjective(dead) /\ \A o \in Range(dead) : count[o] = 0
  BY <1>0, RangeOfSeq DEF Types, QueueInv
<1>10. old \notin Range(dead)
  BY <1>0, <1>2, <1>9
<1>11. n \notin Range(dead)
  BY <1>0, <1>9, DeadIsQueued
<1>12. \A o \in Owners : Dead(o) <=> o \in Range(dead)
  BY DeadIsQueued
<1>13. ASSUME old # None, c[old] = 1
       PROVE  QueueInv' /\ dead' \in Seq(Owners)
              /\ \A o \in Owners : Live(o) \/ Dead(o) => count'[o] > 0 \/ o \in Range(dead')
  <2>1. old # n /\ count'[old] = 0
    BY <1>0, <1>2, <1>4, <1>6, <1>13
  <2>2. /\ dead' = Append(dead, old)
        /\ dead' \in Seq(Owners) /\ IsInjective(dead')
        /\ Range(dead') = Range(dead) \cup {old}
    BY <1>0, <1>5, <1>9, <1>10, <1>13, Queued
  <2>3. QueueInv' /\ dead' \in Seq(Owners)
    BY <1>4, <1>6, <1>9, <1>10, <1>11, <2>1, <2>2 DEF QueueInv
  <2>4. \A o \in Owners : Live(o) \/ Dead(o) => count'[o] > 0 \/ o \in Range(dead')
    BY <1>0, <1>2, <1>4, <1>6, <1>12, <2>2 DEF Live
  <2> QED
    BY <2>3, <2>4
<1>14. ASSUME ~(old # None /\ c[old] = 1)
       PROVE  QueueInv' /\ dead' \in Seq(Owners)
              /\ \A o \in Owners : Live(o) \/ Dead(o) => count'[o] > 0 \/ o \in Range(dead')
  <2>1. dead' = dead
    BY <1>5, <1>14
  <2>2. QueueInv' /\ dead' \in Seq(Owners)
    BY <1>4, <1>6, <1>9, <1>10, <1>11, <2>1 DEF QueueInv
  <2>3. \A o \in Owners : Live(o) => count'[o] > 0
    BY <1>0, <1>2, <1>4, <1>6, <1>14 DEF Live
  <2>4. \A o \in Owners : Live(o) \/ Dead(o) => count'[o] > 0 \/ o \in Range(dead')
    BY <1>12, <2>1, <2>3
  <2> QED
    BY <2>2, <2>4
<1>15. /\ QueueInv' /\ dead' \in Seq(Owners)
       /\ \A o \in Owners : Live(o) \/ Dead(o) => count'[o] > 0 \/ o \in Range(dead')
  BY <1>13, <1>14
<1>16. \A o \in Owners : Live(o) \/ Dead(o) => Live(o)' \/ Dead(o)'
  BY <1>15 DEF Live, Dead, Range
<1>17. KeptInv'
  <2> SUFFICES ASSUME NEW t \in Slots, slot'[t] # None
               PROVE  Kept(t)'
    BY DEF KeptInv
  <2>1. CASE t = s
    <3>1. Usable(In[s])
      BY <1>1, <2>1
    <3> QED
      BY <1>16, <2>1, <3>1 DEF Usable, Kept
  <2>2. CASE t # s
    <3>1. Kept(t)
      BY <1>0, <1>1, <2>2 DEF KeptInv
    <3> QED
      BY <1>16, <2>2, <3>1 DEF Kept
  <2> QED
    BY <2>1, <2>2
<1>18. Types'
  BY <1>0, <1>1, <1>8, <1>15 DEF Types
<1> QED
  BY <1>8, <1>15, <1>17, <1>18 DEF HeapInv

-----------------------------------------------------------------------------
(* Steps. *)

\* A drop function takes over what it has to drop from what is given up.
LEMMA Staying ==
  ASSUME HeapInv, UNCHANGED heap, frames' \in Seq(Frames), todo' \subseteq Slots,
         phase' \in Phases, todo \subseteq todo',
         \A s \in Slots : In[s] \in Range(frames) => In[s] \in Range(frames)' \/ s \in todo'
  PROVE  HeapInv'
<1>1. slot' = slot /\ count' = count /\ dead' = dead
  BY DEF heap
<1>2. Types'
  BY <1>1 DEF HeapInv, Types
<1>3. HoldingsExact' /\ QueueInv'
  BY <1>1 DEF HeapInv, HoldingsExact, QueueInv
<1>4. \A o : (Live(o)' <=> Live(o)) /\ (Dead(o)' <=> Dead(o))
  BY <1>1 DEF Live, Dead
<1>5. \A s \in Slots : Kept(s) => Kept(s)'
  BY <1>4 DEF Kept
<1>6. KeptInv'
  BY <1>1, <1>5 DEF HeapInv, KeptInv
<1> QED
  BY <1>2, <1>3, <1>6 DEF HeapInv

LEMMA NothingMoves ==
  ASSUME HeapInv, UNCHANGED <<heap, frames, todo>>, phase' \in Phases
  PROVE  HeapInv'
<1>1. frames' = frames /\ frames \in Seq(Frames) /\ todo' = todo /\ todo \subseteq Slots
  BY DEF HeapInv, Types
<1> QED
  BY <1>1, Staying

\* The drop function of a frame takes over its slots when the frame leaves.
LEMMA FrameGoes ==
  ASSUME HeapInv, frames # <<>>, UNCHANGED heap, phase' \in Phases,
         frames' = Front(frames), Dropping(Last(frames))
  PROVE  HeapInv'
<1>1. frames \in Seq(Frames)
  BY DEF HeapInv, Types
<1>2. /\ frames' \in Seq(Frames)
      /\ Range(frames) = Range(frames') \cup {Last(frames)}
  BY <1>1, Left
<1>3. /\ todo' \subseteq Slots /\ todo \subseteq todo'
      /\ \A s \in Slots : In[s] = Last(frames) => s \in todo'
  BY DEF Dropping, SlotsOf
<1> QED
  BY <1>2, <1>3, Staying

\* source_alloc: the fields of an owner that is neither live nor dead hold
\* nothing, so that nulling them changes nothing.
LEMMA AllocKeeps ==
  ASSUME LifetimeInv, NEW s \in Slots, NEW o \in Owners, Alloc(s, o)
  PROVE  HeapInv'
<1>0. /\ HeapInv /\ Types /\ KeptInv /\ todo = {} /\ phase = "running"
      /\ ~Live(o) /\ ~Dead(o) /\ Usable(In[s])
      /\ None \notin Owners /\ Image \notin Owners /\ Owners \cap Frames = {}
  BY LifetimeConstants DEF Alloc, LifetimeInv, HeapInv, CleanBoundaries
<1>1. ASSUME NEW t \in Slots, In[t] = o PROVE slot[t] = None
  <2>1. o \notin Range(frames)
    BY <1>0, RangeOfSeq DEF Types
  <2> QED
    BY <1>0, <1>1, <2>1 DEF KeptInv, Kept
<1>2. [t \in Slots |-> IF t = s THEN o ELSE IF In[t] = o THEN None ELSE slot[t]]
        = [slot EXCEPT ![s] = o]
  BY <1>0, <1>1 DEF Types
<1>3. count[o] = 0 /\ count \in [Owners -> Nat]
  BY <1>0 DEF Types, Live
<1>4. [count EXCEPT ![o] = 1] = Retained(count, o)
  BY <1>0, <1>3 DEF Retained
<1>5. Release(slot[s], [slot EXCEPT ![s] = o], Retained(count, o))
  BY <1>2, <1>4 DEF Alloc
<1>6. frames' = frames /\ todo' = todo /\ phase' \in Phases
  BY DEF Alloc, Return, Phases
<1> QED
  BY <1>0, <1>5, <1>6, Releasing

LEMMA HoldKeeps ==
  ASSUME LifetimeInv, NEW s \in Slots, NEW o \in Owners \cup {None}, Hold(s, o)
  PROVE  HeapInv'
<1>0. /\ HeapInv /\ Types /\ QueueInv /\ Usable(In[s]) /\ (o # None => Live(o))
      /\ todo \subseteq Slots
  BY DEF Hold, LifetimeInv, HeapInv, Types
<1>1. CASE Refused(o)
  <2>1. UNCHANGED <<heap, frames, todo>> /\ phase' \in Phases
    BY <1>1 DEF Hold, End, Phases
  <2> QED
    BY <1>0, <2>1, NothingMoves
<1>2. CASE ~Refused(o)
  <2>1. o # None => o \notin Range(dead)
    BY <1>0 DEF QueueInv, Live
  <2>2. o # None => ~Dead(o)
    BY <2>1, DeadIsQueued
  <2>3. Release(slot[s], [slot EXCEPT ![s] = o], Retained(count, o))
    BY <1>2 DEF Hold, Held
  <2>4. frames' = frames /\ todo' = todo /\ phase' \in Phases
    BY <1>2 DEF Hold, Return, Phases
  <2> QED
    BY <1>0, <2>2, <2>3, <2>4, Releasing
<1> QED
  BY <1>1, <1>2

LEMMA DropSlotKeeps ==
  ASSUME LifetimeInv, DropSlot
  PROVE  HeapInv'
<1>0. HeapInv /\ todo \subseteq Slots /\ phase \in Phases
  BY DEF LifetimeInv, HeapInv, Types
<1>1. PICK s \in todo : Drop(s) /\ todo' = todo \ {s}
  BY DEF DropSlot
<1>2. s \in Slots /\ frames' = frames /\ phase' \in Phases
  BY <1>0, <1>1 DEF DropSlot
<1>3. Release(slot[s], [slot EXCEPT ![s] = None], Retained(count, None))
  BY <1>1 DEF Drop, Retained
<1>4. todo' \subseteq Slots /\ \A t \in todo : t = s \/ t \in todo'
  BY <1>0, <1>1
<1> QED
  BY <1>0, <1>2, <1>3, <1>4, Releasing

\* The fields of the owner taken off the queue are about to be dropped.
LEMMA DrainKeeps ==
  ASSUME LifetimeInv, Drain
  PROVE  HeapInv'
<1>0. HeapInv /\ Types /\ QueueInv /\ KeptInv /\ HoldingsExact /\ todo \subseteq Slots
      /\ frames' = frames
  BY DEF LifetimeInv, HeapInv, Types, Drain
<1>1. CASE dead = <<>>
  <2>1. UNCHANGED <<heap, frames, todo>> /\ phase' \in Phases
    BY <1>1 DEF Drain, Phases
  <2> QED
    BY <1>0, <2>1, NothingMoves
<1>2. CASE dead # <<>>
  <2>1. /\ dead' = Tail(dead) /\ slot' = slot /\ count' = count /\ phase' = phase
        /\ Dropping(Head(dead)) /\ todo = {}
    BY <1>2 DEF Drain, Dropping
  <2>2. /\ Tail(dead) \in Seq(Owners)
        /\ Range(dead) = Range(Tail(dead)) \cup {Head(dead)}
        /\ IsInjective(Tail(dead))
    BY <1>0, <1>2, Taken DEF Types, QueueInv
  <2>3. todo' \subseteq Slots /\ \A s \in Slots : In[s] = Head(dead) => s \in todo'
    BY <2>1 DEF Dropping, SlotsOf
  <2>4. Types'
    BY <1>0, <2>1, <2>2, <2>3 DEF Types
  <2>5. HoldingsExact' /\ QueueInv'
    BY <1>0, <2>1, <2>2 DEF HoldingsExact, QueueInv
  <2>6. \A o : Dead(o) => Dead(o)' \/ o = Head(dead)
    <3>1. \A o : Dead(o) <=> o \in Range(dead)
      BY DeadIsQueued
    <3>2. \A o : o \in Range(Tail(dead)) => Dead(o)'
      BY <2>1 DEF Dead, Range
    <3> QED
      BY <2>2, <3>1, <3>2
  <2>7. \A o : Live(o) => Live(o)'
    BY <2>1 DEF Live
  <2>8. KeptInv'
    <3> SUFFICES ASSUME NEW s \in Slots, slot[s] # None
                 PROVE  Kept(s)'
      BY <2>1 DEF KeptInv
    <3>1. Kept(s)
      BY <1>0 DEF KeptInv
    <3> QED
      BY <1>0, <2>1, <2>3, <2>6, <2>7, <3>1 DEF Kept
  <2> QED
    BY <2>4, <2>5, <2>8 DEF HeapInv
<1> QED
  BY <1>1, <1>2

LEMMA HeapKept ==
  LifetimeInv /\ [LifetimeNext]_lifetimeVars => HeapInv'
<1> SUFFICES ASSUME LifetimeInv, [LifetimeNext]_lifetimeVars
             PROVE  HeapInv'
  OBVIOUS
<1>0. /\ HeapInv /\ frames \in Seq(Frames) /\ todo \subseteq Slots
      /\ phase \in Phases
  BY DEF LifetimeInv, HeapInv, Types
<1>1. ASSUME NEW st, End(st) PROVE HeapInv'
  <2>1. UNCHANGED <<heap, frames, todo>> /\ phase' \in Phases
    BY <1>1 DEF End, Phases
  <2> QED
    BY <1>0, <2>1, NothingMoves
<1>2. CASE Call
  <2>1. UNCHANGED <<heap, frames, todo>> /\ phase' \in Phases
    BY <1>2 DEF Call, Phases
  <2> QED
    BY <1>0, <2>1, NothingMoves
<1>3. CASE AllocFails
  BY <1>1, <1>3 DEF AllocFails
<1>4. CASE Finish
  BY <1>1, <1>4 DEF Finish
<1>5. CASE DropSlot
  BY <1>5, DropSlotKeeps
<1>6. CASE Drain
  BY <1>6, DrainKeeps
<1>7. CASE Unwind
  <2>1. CASE frames # <<>>
    <3>1. /\ UNCHANGED heap /\ phase' \in Phases
          /\ frames' = Front(frames) /\ Dropping(Last(frames))
      BY <1>0, <1>7, <2>1 DEF Unwind, Rest
    <3> QED
      BY <1>0, <2>1, <3>1, FrameGoes
  <2>2. CASE frames = <<>>
    <3>1. UNCHANGED <<heap, frames, todo>> /\ phase' \in Phases
      BY <1>7, <2>2 DEF Unwind, Phases
    <3> QED
      BY <1>0, <3>1, NothingMoves
  <2> QED
    BY <2>1, <2>2
<1>8. ASSUME NEW s \in Slots, NEW o \in Owners, Alloc(s, o) PROVE HeapInv'
  BY <1>8, AllocKeeps
<1>9. ASSUME NEW s \in Slots, NEW o \in Owners \cup {None}, Hold(s, o) PROVE HeapInv'
  BY <1>9, HoldKeeps
<1>10. ASSUME NEW c \in Containers, Clear(c) PROVE HeapInv'
  <2>1. /\ UNCHANGED heap /\ frames' = frames /\ phase' \in Phases
        /\ todo \subseteq todo' /\ todo' \subseteq Slots
    BY <1>10 DEF Clear, Dropping, SlotsOf, Phases
  <2> QED
    BY <1>0, <2>1, Staying
<1>11. ASSUME NEW f \in Frames, Enter(f) PROVE HeapInv'
  <2>1. /\ UNCHANGED heap /\ frames' = Append(frames, f) /\ todo' = todo /\ phase' \in Phases
    BY <1>0, <1>11 DEF Enter
  <2>2. frames' \in Seq(Frames) /\ Range(frames) \subseteq Range(frames')
    <3>1. /\ frames' \in Seq(Frames) /\ Len(frames') = Len(frames) + 1 /\ Len(frames) \in Nat
          /\ \A i \in 1 .. Len(frames) : frames'[i] = frames[i]
      BY <1>0, <2>1, AppendProperties, LenProperties
    <3>2. DOMAIN frames = 1 .. Len(frames) /\ DOMAIN frames' = 1 .. Len(frames')
      BY <1>0, <3>1, LenProperties
    <3> QED
      BY <3>1, <3>2 DEF Range
  <2> QED
    BY <1>0, <2>1, <2>2, Staying
<1>12. ASSUME NEW f \in Frames, Leave(f) PROVE HeapInv'
  <2>1. CASE frames = <<>> \/ Last(frames) # f
    BY <1>1, <1>12, <2>1 DEF Leave
  <2>2. CASE frames # <<>> /\ Last(frames) = f
    <3>1. /\ UNCHANGED heap /\ phase' \in Phases
          /\ frames' = Front(frames) /\ Dropping(Last(frames))
      BY <1>12, <2>2 DEF Leave, Phases
    <3> QED
      BY <1>0, <2>2, <3>1, FrameGoes
  <2> QED
    BY <2>1, <2>2
<1>13. CASE UNCHANGED lifetimeVars
  <2>1. UNCHANGED <<heap, frames, todo>> /\ phase' \in Phases
    BY <1>0, <1>13 DEF lifetimeVars
  <2> QED
    BY <1>0, <2>1, NothingMoves
<1> QED
  BY <1>2, <1>3, <1>4, <1>5, <1>6, <1>7, <1>8, <1>9, <1>10, <1>11, <1>12, <1>13 DEF LifetimeNext

\* Where a call stands when nothing is left to clean up.
LEMMA BoundariesKept ==
  LifetimeInv /\ [LifetimeNext]_lifetimeVars => CleanBoundaries' /\ (phase = "closing" => frames = <<>>)'
<1> SUFFICES ASSUME LifetimeInv, [LifetimeNext]_lifetimeVars
             PROVE  CleanBoundaries' /\ (phase = "closing" => frames = <<>>)'
  OBVIOUS
<1> USE DEF LifetimeInv, CleanBoundaries
<1>1. ASSUME NEW st, phase = "running", End(st)
      PROVE  CleanBoundaries' /\ (phase = "closing" => frames = <<>>)'
  BY <1>1 DEF End, heap
<1>2. CASE Call
  BY <1>2 DEF Call, heap
<1>3. CASE AllocFails \/ Finish
  BY <1>1, <1>3 DEF AllocFails, Finish
<1>4. CASE DropSlot
  <2>1. phase' = phase /\ frames' = frames /\ todo # {}
    BY <1>4 DEF DropSlot
  <2> QED
    BY <2>1
<1>5. CASE Drain
  BY <1>5 DEF Drain, heap
<1>6. CASE Unwind
  BY <1>6 DEF Unwind
<1>7. ASSUME NEW s \in Slots, NEW o \in Owners, Alloc(s, o)
      PROVE  CleanBoundaries' /\ (phase = "closing" => frames = <<>>)'
  BY <1>7 DEF Alloc, Return
<1>8. ASSUME NEW s \in Slots, NEW o \in Owners \cup {None}, Hold(s, o)
      PROVE  CleanBoundaries' /\ (phase = "closing" => frames = <<>>)'
  BY <1>1, <1>8 DEF Hold, Return
<1>9. ASSUME NEW c \in Containers, Clear(c)
      PROVE  CleanBoundaries' /\ (phase = "closing" => frames = <<>>)'
  BY <1>9 DEF Clear
<1>10. ASSUME NEW f \in Frames, Enter(f)
       PROVE  CleanBoundaries' /\ (phase = "closing" => frames = <<>>)'
  BY <1>10 DEF Enter, heap
<1>11. ASSUME NEW f \in Frames, Leave(f)
       PROVE  CleanBoundaries' /\ (phase = "closing" => frames = <<>>)'
  BY <1>1, <1>11 DEF Leave
<1>12. CASE UNCHANGED lifetimeVars
  BY <1>12 DEF lifetimeVars, heap
<1> QED
  BY <1>2, <1>3, <1>4, <1>5, <1>6, <1>7, <1>8, <1>9, <1>10, <1>11, <1>12 DEF LifetimeNext

LEMMA InvInit == LifetimeInit => LifetimeInv
<1> SUFFICES ASSUME LifetimeInit PROVE LifetimeInv
  OBVIOUS
<1>1. Types
  BY DEF LifetimeInit, Types, Phases
<1>2. HoldingsExact
  <2> SUFFICES ASSUME NEW o \in Owners PROVE count[o] = Cardinality({s \in Slots : slot[s] = o})
    BY DEF HoldingsExact
  <2>1. {s \in Slots : slot[s] = o} = {}
    BY LifetimeConstants DEF LifetimeInit
  <2> QED
    BY <2>1, FS_EmptySet DEF LifetimeInit
<1>3. QueueInv
  BY DEF LifetimeInit, QueueInv, IsInjective, Range
<1>4. KeptInv
  BY DEF LifetimeInit, KeptInv
<1> QED
  BY <1>1, <1>2, <1>3, <1>4 DEF LifetimeInv, HeapInv, CleanBoundaries, LifetimeInit

-----------------------------------------------------------------------------
(* The theorems. *)

\* The invariant is inductive.
THEOREM LifetimeInvariant == LifetimeSpec => []LifetimeInv
<1>1. LifetimeInv /\ [LifetimeNext]_lifetimeVars => LifetimeInv'
  BY HeapKept, BoundariesKept DEF LifetimeInv
<1> QED
  BY <1>1, InvInit, PTL DEF LifetimeSpec

\* The count of every owner is the number of slots that hold it, whatever fails
\* and whenever (abc_owner_replace, source_drop and the unwinding of lifetime.c).
THEOREM HoldingsAreExact == LifetimeSpec => []HoldingsExact
<1>1. LifetimeInv => HoldingsExact
  BY DEF LifetimeInv, HeapInv
<1> QED
  BY <1>1, LifetimeInvariant, PTL

\* No owner is freed with something in its slots, none is queued twice, and what
\* a slot holds is in a container the call still cleans up.
THEOREM NothingIsStranded == LifetimeSpec => []NothingStranded
<1>1. LifetimeInv => NothingStranded
  BY DEF LifetimeInv, HeapInv, QueueInv, KeptInv, Kept, NothingStranded
<1> QED
  BY <1>1, LifetimeInvariant, PTL

\* A call leaves no activation and no dead owner to the next (abc_source_unwind,
\* abc_owner_drain).
THEOREM BoundariesAreClean == LifetimeSpec => []CleanBoundaries
<1>1. LifetimeInv => CleanBoundaries
  BY DEF LifetimeInv
<1> QED
  BY <1>1, LifetimeInvariant, PTL

-----------------------------------------------------------------------------
(* The indirect call sites: the observation of a site is never visible in an *)
(* answer, and it never runs backwards.                                      *)

\* A site that skips its checks holds a function that passes them.
Checked ==
    \A s \in Sites : observation[s] \in Functions =>
                         Verdict(s, observation[s]) = observation[s]

SiteInv == SitesTypeOK /\ Checked

\* The checks pass exactly for a callable function of the site's signature.
LEMMA VerdictPasses ==
    ASSUME NEW s \in Sites, NEW t \in Targets
    PROVE  /\ Verdict(s, t) = t => t \in Functions \ Uncallable
           /\ Verdict(s, t) \in {"invalid", "arguments"} \cup Functions
  BY NamesAssumption DEF Verdict, Entry, Targets

\* A new image has seen no target.
LEMMA SiteInit == SitesInit => SiteInv
  <1> SUFFICES ASSUME SitesInit PROVE SiteInv
    OBVIOUS
  <1>1. SitesTypeOK
    BY DEF SitesInit, SitesTypeOK
  <1>2. Checked
    BY NamesAssumption DEF SitesInit, Checked
  <1> QED BY <1>1, <1>2 DEF SiteInv

\* A repeated target changes no observation and answers the function it is.
LEMMA RepeatKeeps ==
    ASSUME SiteInv, NEW s \in Sites, NEW t \in Targets, Repeat(s, t)
    PROVE  SiteInv' /\ answer'.outcome = Verdict(s, t)
  <1>1. Verdict(s, t) = t
    BY DEF SiteInv, Checked, Repeat
  <1>2. /\ answer' = [site |-> s, target |-> t, outcome |-> t]
        /\ UNCHANGED <<observation, transitions>>
    BY DEF Repeat, Answer
  <1>3. SitesTypeOK'
    BY <1>2 DEF SiteInv, SitesTypeOK, Repeat
  <1>4. Checked'
    BY <1>2 DEF SiteInv, Checked, Verdict, Entry
  <1> QED BY <1>1, <1>2, <1>3, <1>4 DEF SiteInv

\* The observation that a checked resolution leaves.
LEMMA CheckMoves ==
    ASSUME SiteInv, NEW s \in Sites, NEW t \in Targets, Check(s, t)
    PROVE  \E next \in Observation :
              /\ observation' = [observation EXCEPT ![s] = next]
              /\ transitions' = transitions + Count(s, next)
              /\ answer' = [site |-> s, target |-> t, outcome |-> Verdict(s, t)]
              /\ \/ next = observation[s] /\ observation[s] \notin Functions
                 \/ observation[s] = Unseen /\ next = t /\ Verdict(s, t) = t
                 \/ observation[s] \in Functions /\ next = Generic
  <1> DEFINE next == CASE observation[s] = Unseen  -> First(s, t)
                       [] observation[s] = Generic -> Generic
                       [] OTHER                    -> Mismatch(s, t)
  <1>1. /\ observation' = [observation EXCEPT ![s] = next]
        /\ transitions' = transitions + Count(s, next)
        /\ answer' = [site |-> s, target |-> t, outcome |-> Verdict(s, t)]
    BY DEF Check, Answer
  <1>2. observation[s] \in {Unseen, Generic} \cup (Functions \ Uncallable)
    BY DEF SiteInv, SitesTypeOK
  <1>3. CASE observation[s] = Unseen
    <2>1. next = First(s, t)
      BY <1>3, NamesAssumption
    <2>2. (next = t /\ Verdict(s, t) = t) \/ next = Unseen
      BY <2>1 DEF First
    <2>3. next \in Observation
      BY <2>2, VerdictPasses DEF Observation
    <2>4. observation[s] \notin Functions
      BY <1>3, NamesAssumption
    <2> HIDE DEF next
    <2> QED BY <1>1, <1>3, <2>2, <2>3, <2>4
  <1>4. CASE observation[s] = Generic
    <2>1. next = Generic
      BY <1>4, NamesAssumption
    <2>2. observation[s] \notin Functions /\ Generic \in Observation
      BY <1>4, NamesAssumption DEF Observation
    <2> HIDE DEF next
    <2> QED BY <1>1, <1>4, <2>1, <2>2
  <1>5. CASE observation[s] \in Functions
    <2>1. next = Generic
      BY <1>5, NamesAssumption DEF Mismatch
    <2>2. Generic \in Observation
      BY DEF Observation
    <2> HIDE DEF next
    <2> QED BY <1>1, <1>5, <2>1, <2>2
  <1> QED BY <1>2, <1>3, <1>4, <1>5

\* A checked resolution records only a function that passes its checks.
LEMMA CheckKeeps ==
    ASSUME SiteInv, NEW s \in Sites, NEW t \in Targets, Check(s, t)
    PROVE  SiteInv' /\ answer'.outcome = Verdict(s, t)
  <1>1. PICK next \in Observation :
              /\ observation' = [observation EXCEPT ![s] = next]
              /\ transitions' = transitions + Count(s, next)
              /\ answer' = [site |-> s, target |-> t, outcome |-> Verdict(s, t)]
              /\ \/ next = observation[s] /\ observation[s] \notin Functions
                 \/ observation[s] = Unseen /\ next = t /\ Verdict(s, t) = t
                 \/ observation[s] \in Functions /\ next = Generic
    BY CheckMoves
  <1>2. /\ observation \in [Sites -> {Unseen, Generic} \cup (Functions \ Uncallable)]
        /\ transitions \in Nat
    BY DEF SiteInv, SitesTypeOK
  <1>3. next \in {Unseen, Generic} \cup (Functions \ Uncallable)
    BY <1>1, <1>2, VerdictPasses
  <1>4. observation' \in [Sites -> {Unseen, Generic} \cup (Functions \ Uncallable)]
    BY <1>1, <1>2, <1>3
  <1>5. transitions' \in Nat
    BY <1>1, <1>2 DEF Count
  <1>6. /\ answer'.site \in Sites /\ answer'.target \in Targets
        /\ answer'.outcome \in {"invalid", "arguments"} \cup Functions
        /\ answer'.outcome = Verdict(s, t)
    BY <1>1, VerdictPasses
  <1>7. SitesTypeOK'
    BY <1>4, <1>5, <1>6 DEF SitesTypeOK
  <1>8. ASSUME NEW u \in Sites, observation'[u] \in Functions
        PROVE  Verdict(u, observation'[u]) = observation'[u]
    <2>1. CASE u = s
      <3>1. observation'[u] = next
        BY <1>1, <1>2, <2>1
      <3>2. next = t /\ Verdict(s, t) = t
        BY <1>1, <1>8, <3>1, NamesAssumption
      <3> QED BY <2>1, <3>1, <3>2
    <2>2. CASE u # s
      <3>1. observation'[u] = observation[u]
        BY <1>1, <1>2, <2>2
      <3> QED BY <1>8, <3>1 DEF SiteInv, Checked
    <2> QED BY <2>1, <2>2
  <1>9. Checked'
    BY <1>8 DEF Checked, Verdict, Entry
  <1> QED BY <1>6, <1>7, <1>9 DEF SiteInv

\* Every step keeps the invariant, and every answer is the checks' verdict.
LEMMA SiteStep == SiteInv /\ [SitesNext]_sitesVars => SiteInv'
  <1> SUFFICES ASSUME SiteInv, [SitesNext]_sitesVars PROVE SiteInv'
    OBVIOUS
  <1>1. CASE SitesNext
    BY <1>1, RepeatKeeps, CheckKeeps DEF SitesNext
  <1>2. CASE UNCHANGED sitesVars
    BY <1>2 DEF sitesVars, SiteInv, SitesTypeOK, Checked, Verdict, Entry
  <1> QED BY <1>1, <1>2

\* The inductive invariant of the sites holds always.
THEOREM SiteInvariant == SitesSpec => []SiteInv
  BY SiteInit, SiteStep, PTL DEF SitesSpec

\* Every observation is of a function that may be entered.
THEOREM SitesTyped == SitesSpec => []SitesTypeOK
  <1>1. SiteInv => SitesTypeOK
    BY DEF SiteInv
  <1> QED BY <1>1, SiteInvariant, PTL

\* A step of the sites is a step of the resolver that has no memory.
LEMMA SiteImplements ==
    SiteInv /\ [SitesNext]_sitesVars => [Promise!Next]_answer
  <1> SUFFICES ASSUME SiteInv, [SitesNext]_sitesVars
               PROVE  Promise!Next \/ UNCHANGED answer
    OBVIOUS
  <1>1. CASE UNCHANGED sitesVars
    BY <1>1 DEF sitesVars
  <1>2. ASSUME NEW s \in Sites, NEW t \in Targets, Repeat(s, t)
        PROVE  Promise!Resolve(s, t)
    <2>1. answer' = [site |-> s, target |-> t, outcome |-> t]
      BY <1>2 DEF Repeat, Answer
    <2>2. Verdict(s, t) = t
      BY <1>2 DEF SiteInv, Checked, Repeat
    <2> QED BY <2>1, <2>2 DEF Promise!Resolve
  <1>3. ASSUME NEW s \in Sites, NEW t \in Targets, Check(s, t)
        PROVE  Promise!Resolve(s, t)
    BY <1>3 DEF Check, Answer, Promise!Resolve
  <1>4. CASE SitesNext
    <2>1. PICK s \in Sites, t \in Targets : Repeat(s, t) \/ Check(s, t)
      BY <1>4 DEF SitesNext
    <2>2. Promise!Resolve(s, t)
      BY <1>2, <1>3, <2>1
    <2> QED BY <2>2 DEF Promise!Next
  <1> QED BY <1>1, <1>4

\* A resolution answers what the checks alone would: the cached function of a
\* site is never observable (vm_resolve_indirect's early return).
THEOREM SitesTransparent == SitesSpec => CacheTransparent
  <1>1. SitesInit => Promise!Init
    BY DEF SitesInit, Promise!Init
  <1> QED BY <1>1, SiteInvariant, SiteImplements, PTL
          DEF SitesSpec, CacheTransparent, Promise!Spec

\* The site of a resolution either keeps its observation, and then the target
\* was the one it has seen or the site had no function to compare with, or it
\* moves forward.
LEMMA SiteForward ==
    ASSUME SiteInv, NEW u \in Sites, NEW t \in Targets, Repeat(u, t) \/ Check(u, t)
    PROVE  /\ answer' = [site |-> u, target |-> t, outcome |-> answer'.outcome]
           /\ \A v \in Sites \ {u} : observation'[v] = observation[v]
           /\ \/ /\ observation'[u] = observation[u]
                 /\ (observation[u] \in Functions => t = observation[u])
              \/ observation[u] = Unseen /\ observation'[u] \in Functions
              \/ observation[u] \in Functions /\ observation'[u] = Generic
  <1>1. CASE Repeat(u, t)
    BY <1>1 DEF Repeat, Answer
  <1>2. CASE Check(u, t)
    <2>1. PICK next \in Observation :
                /\ observation' = [observation EXCEPT ![u] = next]
                /\ transitions' = transitions + Count(u, next)
                /\ answer' = [site |-> u, target |-> t, outcome |-> Verdict(u, t)]
                /\ \/ next = observation[u] /\ observation[u] \notin Functions
                   \/ observation[u] = Unseen /\ next = t /\ Verdict(u, t) = t
                   \/ observation[u] \in Functions /\ next = Generic
      BY <1>2, CheckMoves
    <2>2. observation \in [Sites -> {Unseen, Generic} \cup (Functions \ Uncallable)]
      BY DEF SiteInv, SitesTypeOK
    <2>3. /\ observation'[u] = next
          /\ \A v \in Sites \ {u} : observation'[v] = observation[v]
      BY <2>1, <2>2
    <2>4. Verdict(u, t) = t => t \in Functions
      BY VerdictPasses
    <2>5. answer' = [site |-> u, target |-> t, outcome |-> answer'.outcome]
      BY <2>1
    <2> QED BY <2>1, <2>3, <2>4, <2>5
  <1> QED BY <1>1, <1>2

\* The step form of the theorem below.
LEMMA SiteNeverBack ==
    SiteInv /\ SitesNext => \A s \in Sites :
          /\ observation'[s] # observation[s] =>
               \/ observation[s] = Unseen /\ observation'[s] \in Functions
               \/ observation[s] \in Functions /\ observation'[s] = Generic
          /\ (/\ answer' # answer /\ answer'.site = s
              /\ observation[s] \in Functions /\ answer'.target # observation[s])
             => observation'[s] = Generic
  <1> SUFFICES ASSUME SiteInv, SitesNext, NEW s \in Sites
               PROVE  /\ observation'[s] # observation[s] =>
                           \/ observation[s] = Unseen /\ observation'[s] \in Functions
                           \/ observation[s] \in Functions /\ observation'[s] = Generic
                      /\ (/\ answer'.site = s /\ observation[s] \in Functions
                          /\ answer'.target # observation[s])
                         => observation'[s] = Generic
    OBVIOUS
  <1>1. PICK u \in Sites, t \in Targets : Repeat(u, t) \/ Check(u, t)
    BY DEF SitesNext
  <1>2. /\ answer' = [site |-> u, target |-> t, outcome |-> answer'.outcome]
        /\ \A v \in Sites \ {u} : observation'[v] = observation[v]
        /\ \/ /\ observation'[u] = observation[u]
              /\ (observation[u] \in Functions => t = observation[u])
           \/ observation[u] = Unseen /\ observation'[u] \in Functions
           \/ observation[u] \in Functions /\ observation'[u] = Generic
    BY <1>1, SiteForward
  <1>3. answer'.site = u /\ answer'.target = t
    BY <1>2
  <1>4. Unseen \notin Functions
    BY NamesAssumption
  <1>5. CASE s = u
    BY <1>2, <1>3, <1>4, <1>5
  <1>6. CASE s # u
    BY <1>2, <1>3, <1>6
  <1> QED BY <1>5, <1>6

\* The history of a site never runs backwards: from unseen to one function to
\* generic, which is final, and a mismatch always makes it so
\* (docs/callable-profile.md).
THEOREM SitesNeverBack == SitesSpec => NeverBack
  BY SiteInvariant, SiteNeverBack, PTL DEF SitesSpec, NeverBack
-----------------------------------------------------------------------------
(* The statistics *)

\* The counter of transitions is the history that the observations tell.
Tallied == transitions = Cardinality(Specific) + 2 * Cardinality(Final)

\* The sites that have seen one function, and those that have seen too many,
\* are finitely many, and no site is both.
LEMMA SitesPartition ==
    ASSUME SiteInv
    PROVE  /\ IsFiniteSet(Specific) /\ IsFiniteSet(Final)
           /\ Specific \cap Final = {}
           /\ {s \in Sites : observation[s] = Unseen}
                = (Sites \ Specific) \ Final
  <1>1. Specific \subseteq Sites /\ Final \subseteq Sites
    BY DEF Specific, Final
  <1>2. Generic \notin Functions /\ Unseen \notin Functions /\ Unseen # Generic
    BY NamesAssumption
  <1>3. IsFiniteSet(Specific) /\ IsFiniteSet(Final)
    BY <1>1, SitesAssumption, FS_Subset
  <1>4. Specific \cap Final = {}
    BY <1>2 DEF Specific, Final
  <1>5. \A s \in Sites : observation[s] \in {Unseen, Generic} \cup Functions
    BY DEF SiteInv, SitesTypeOK
  <1>6. {s \in Sites : observation[s] = Unseen} = (Sites \ Specific) \ Final
    BY <1>2, <1>5 DEF Specific, Final
  <1> QED BY <1>3, <1>4, <1>6

\* A step that leaves the observations and the counter alone.
LEMMA StandsStill ==
    Tallied /\ observation' = observation /\ transitions' = transitions
      => Tallied'
  BY DEF Tallied, Specific, Final

\* A site that records its first function is one more transition.
LEMMA FirstCounted ==
    ASSUME SiteInv, Tallied, NEW s \in Sites, NEW f \in Functions,
           observation[s] = Unseen, observation' = [observation EXCEPT ![s] = f],
           transitions' = transitions + 1
    PROVE  Tallied'
  <1>1. DOMAIN observation = Sites
    BY DEF SiteInv, SitesTypeOK
  <1>2. Generic \notin Functions /\ Unseen \notin Functions /\ Unseen # Generic
    BY NamesAssumption
  <1>3. \A u \in Sites : observation'[u] = IF u = s THEN f ELSE observation[u]
    BY <1>1
  <1>4. f # Generic /\ s \notin Specific
    BY <1>2 DEF Specific
  <1>5. Specific' = Specific \cup {s}
    BY <1>3 DEF Specific
  <1>6. Final' = Final
    BY <1>2, <1>3, <1>4 DEF Final
  <1>7. Cardinality(Specific') = Cardinality(Specific) + 1
    BY <1>4, <1>5, SitesPartition, FS_AddElement
  <1>8. Cardinality(Specific) \in Nat /\ Cardinality(Final) \in Nat
    BY SitesPartition, FS_CardinalityType
  <1>9. transitions' = Cardinality(Specific) + 1 + 2 * Cardinality(Final)
    BY <1>8 DEF Tallied
  <1>10. transitions' = Cardinality(Specific') + 2 * Cardinality(Final')
    BY <1>6, <1>7, <1>9
  <1> QED BY <1>10 DEF Tallied

\* A site that becomes generic leaves the specific ones: it has moved twice.
LEMMA GenericCounted ==
    ASSUME SiteInv, Tallied, NEW s \in Sites,
           observation[s] \in Functions,
           observation' = [observation EXCEPT ![s] = Generic],
           transitions' = transitions + 1
    PROVE  Tallied'
  <1>1. DOMAIN observation = Sites
    BY DEF SiteInv, SitesTypeOK
  <1>2. Generic \notin Functions
    BY NamesAssumption
  <1>3. \A u \in Sites : observation'[u] = IF u = s THEN Generic ELSE observation[u]
    BY <1>1
  <1>4. s \in Specific /\ s \notin Final
    BY <1>2 DEF Specific, Final
  <1>5. Specific' = Specific \ {s}
    BY <1>2, <1>3 DEF Specific
  <1>6. Final' = Final \cup {s}
    BY <1>3 DEF Final
  <1>7. Cardinality(Specific') = Cardinality(Specific) - 1
    BY <1>4, <1>5, SitesPartition, FS_RemoveElement
  <1>8. Cardinality(Final') = Cardinality(Final) + 1
    BY <1>4, <1>6, SitesPartition, FS_AddElement
  <1>9. Cardinality(Specific) \in Nat /\ Cardinality(Final) \in Nat
    BY SitesPartition, FS_CardinalityType
  <1>10. transitions' = (Cardinality(Specific) - 1) + 2 * (Cardinality(Final) + 1)
    BY <1>9 DEF Tallied
  <1>11. transitions' = Cardinality(Specific') + 2 * Cardinality(Final')
    BY <1>7, <1>8, <1>10
  <1> QED BY <1>11 DEF Tallied

\* A checked resolution counts exactly the moves it makes.
LEMMA CheckCounted ==
    ASSUME SiteInv, Tallied, NEW s \in Sites, NEW t \in Targets, Check(s, t)
    PROVE  Tallied'
  <1>1. PICK next \in Observation :
              /\ observation' = [observation EXCEPT ![s] = next]
              /\ transitions' = transitions + Count(s, next)
              /\ answer' = [site |-> s, target |-> t, outcome |-> Verdict(s, t)]
              /\ \/ next = observation[s] /\ observation[s] \notin Functions
                 \/ observation[s] = Unseen /\ next = t /\ Verdict(s, t) = t
                 \/ observation[s] \in Functions /\ next = Generic
    BY CheckMoves
  <1>2. transitions \in Nat
    BY DEF SiteInv, SitesTypeOK
  <1>3. Generic \notin Functions /\ Unseen \notin Functions
    BY NamesAssumption
  <1>4. CASE next = observation[s]
    <2>1. observation' = observation
      BY <1>1, <1>4 DEF SiteInv, SitesTypeOK
    <2>2. transitions' = transitions
      BY <1>1, <1>2, <1>4 DEF Count
    <2> QED BY <2>1, <2>2, StandsStill
  <1>5. CASE observation[s] = Unseen /\ next = t /\ Verdict(s, t) = t
    <2>1. next \in Functions
      BY <1>5, VerdictPasses
    <2>2. transitions' = transitions + 1
      BY <1>1, <1>3, <1>5, <2>1 DEF Count
    <2> QED BY <1>1, <1>5, <2>1, <2>2, FirstCounted
  <1>6. CASE observation[s] \in Functions /\ next = Generic
    <2>1. transitions' = transitions + 1
      BY <1>1, <1>3, <1>6 DEF Count
    <2> QED BY <1>1, <1>6, <2>1, GenericCounted
  <1> QED BY <1>1, <1>4, <1>5, <1>6

\* Every step keeps the counter true.
LEMMA TalliedStep == SiteInv /\ Tallied /\ [SitesNext]_sitesVars => Tallied'
  <1> SUFFICES ASSUME SiteInv, Tallied, [SitesNext]_sitesVars PROVE Tallied'
    OBVIOUS
  <1>1. CASE UNCHANGED sitesVars
    BY <1>1, StandsStill DEF sitesVars
  <1>2. ASSUME NEW s \in Sites, NEW t \in Targets, Repeat(s, t)
        PROVE  Tallied'
    BY <1>2, StandsStill DEF Repeat
  <1>3. CASE SitesNext
    BY <1>2, <1>3, CheckCounted DEF SitesNext
  <1> QED BY <1>1, <1>3

\* A new image has counted nothing and seen nothing.
LEMMA CountedInit == SitesInit => Tallied
  <1> SUFFICES ASSUME SitesInit PROVE Tallied
    OBVIOUS
  <1>1. Specific = {} /\ Final = {}
    BY NamesAssumption DEF SitesInit, Specific, Final
  <1>2. Cardinality(Specific) = 0 /\ Cardinality(Final) = 0
    BY <1>1, FS_EmptySet
  <1> QED BY <1>2 DEF SitesInit, Tallied

\* The sites of a partition are counted once.
LEMMA UnseenRemain ==
    ASSUME SiteInv
    PROVE  Stats.generic = Cardinality({s \in Sites : observation[s] = Unseen})
  <1>1. Specific \subseteq Sites /\ Final \subseteq Sites \ Specific
    BY SitesPartition DEF Specific, Final
  <1>2. /\ IsFiniteSet(Specific) /\ IsFiniteSet(Final)
        /\ IsFiniteSet(Sites) /\ IsFiniteSet(Sites \ Specific)
    BY SitesPartition, SitesAssumption, FS_Difference
  <1>3. /\ Cardinality(Sites \ Specific)
             = Cardinality(Sites) - Cardinality(Sites \cap Specific)
        /\ Cardinality((Sites \ Specific) \ Final)
             = Cardinality(Sites \ Specific)
                 - Cardinality((Sites \ Specific) \cap Final)
    BY <1>2, FS_Difference
  <1>4. Sites \cap Specific = Specific /\ (Sites \ Specific) \cap Final = Final
    BY <1>1
  <1>5. Cardinality((Sites \ Specific) \ Final)
          = Cardinality(Sites) - Cardinality(Specific) - Cardinality(Final)
    BY <1>3, <1>4
  <1>6. Stats.generic
          = Cardinality(Sites) - Cardinality(Specific) - Cardinality(Final)
    BY DEF Stats
  <1>7. {s \in Sites : observation[s] = Unseen} = (Sites \ Specific) \ Final
    BY SitesPartition
  <1> QED BY <1>5, <1>6, <1>7

\* The host's statistics add up: the number counted down from the number of
\* sites is that of the sites without a target, and the transitions are those
\* that the observations account for (abc_vm_site_stats).
THEOREM StatisticsAddUp == SitesSpec => []StatsAddUp
  <1>1. SiteInv /\ Tallied => StatsAddUp
    BY UnseenRemain DEF StatsAddUp, Tallied, Stats
  <1> QED BY <1>1, CountedInit, TalliedStep, SiteInvariant, PTL DEF SitesSpec

=============================================================================
