------------------------ MODULE NativeImageProofs ------------------------
(***************************************************************************)
(* Theorems about NativeImage, for any threads, programs and page size.    *)
(***************************************************************************)
EXTENDS NativeImage, SequenceTheorems, TLAPS

-----------------------------------------------------------------------------
(* What an image consists of. *)

Addresses == Nat \X Nat
CellSet == {Stub(v) : v \in Versions} \cup {Hop(k) : k \in Nat}
             \cup {Op(v, i, to) : v \in Versions, i \in Nat, to \in Addresses}
ChunkSet == [cells : Seq(CellSet), sealed : BOOLEAN]
FixupSet == [at : Addresses, to : Versions]
ImageSet ==
  [chunks : Seq(ChunkSet), current : Nat, stubs : Nat,
   entry : [Versions -> Addresses], body : [Versions -> Addresses],
   known : SUBSET Versions, fixups : SUBSET FixupSet, writable : BOOLEAN, failed : BOOLEAN]

Chunks(n)    == 1 .. Len(n.chunks)
Fill(n, k)   == Len(n.chunks[k].cells)
At(n, k, i)  == n.chunks[k].cells[i]
Sealed(n, k) == n.chunks[k].sealed
Place(n, k, i) == k \in Chunks(n) /\ i \in 1 .. Fill(n, k)

IsStub(n, k, i, v)  == Place(n, k, i) /\ At(n, k, i) = Stub(v)
IsHop(n, k, i, j)   == Place(n, k, i) /\ At(n, k, i) = Hop(j)
IsOp(n, k, i, v, q) == Place(n, k, i) /\ At(n, k, i)[1] = "op" /\ At(n, k, i)[2] = v /\ At(n, k, i)[3] = q

-----------------------------------------------------------------------------
(* The inductive invariant. *)

\* Chunks hold no more than a page, and an open one has room for a jump.
RoomInv(n) ==
  /\ \A k \in Chunks(n) : Fill(n, k) <= Page
  /\ ~n.failed =>
       /\ n.current \in {0} \cup Chunks(n) /\ n.stubs \in {0} \cup Chunks(n)
       /\ \A k \in {n.current, n.stubs} \ {0} : ~Sealed(n, k) /\ Fill(n, k) < Page
       /\ n.current # 0 => n.current # n.stubs

\* The stub of a known version is where its entry says, and there is no other.
StubInv(n) ==
  /\ \A v \in Versions : v \notin n.known <=> n.entry[v] = Nowhere
  /\ \A v \in n.known : IsStub(n, n.entry[v][1], n.entry[v][2], v)
  /\ \A k, i \in Nat, v \in Versions : IsStub(n, k, i, v) => n.entry[v] = <<k, i>>

\* A pending branch is an operation in an open chunk that leads to a stub.
FixupInv(n) ==
  /\ \A f \in n.fixups :
       /\ f.to \in n.known
       /\ ~Sealed(n, f.at[1])
       /\ \E v \in Versions, q \in Nat :
             IsOp(n, f.at[1], f.at[2], v, q) /\ IsTarget(v, q) /\ f.to = Code[v][q]
  /\ \A k, i, q \in Nat, v \in Versions :
       IsOp(n, k, i, v, q) /\ IsTarget(v, q) /\ ~Sealed(n, k) /\ ~n.failed =>
         [at |-> <<k, i>>, to |-> Code[v][q]] \in n.fixups

\* An operation is placed once.
OpInv(n) ==
  \A k, i, q \in Nat, v \in Versions :
    IsOp(n, k, i, v, q) =>
      /\ q \in 1 .. Len(Code[v])
      /\ \A l, j \in Nat : IsOp(n, l, j, v, q) => k = l /\ i = j

ImageInv(n) == RoomInv(n) /\ StubInv(n) /\ FixupInv(n) /\ OpInv(n)

\* From this place execution comes to operation q of version v.
Leads(n, k, i, v, q) ==
  IsOp(n, k, i, v, q) \/ \E j \in Nat : IsHop(n, k, i, j) /\ IsOp(n, j, 1, v, q)

\* The first q operations of version v are placed, and each leads to the next.
Placed(n, v, q) ==
  /\ \A k, i, p \in Nat : IsOp(n, k, i, v, p) => p <= q /\ (p < q => Leads(n, k, i + 1, v, p + 1))
  /\ q > 0 => IsOp(n, n.body[v][1], n.body[v][2], v, 1)

\* A version may be executed: all of it is placed and sealed, with its branches
\* bound to stubs that are sealed too.
Ready(n, v) ==
  /\ Placed(n, v, Len(Code[v]))
  /\ \A k, i, q \in Nat : IsOp(n, k, i, v, q) =>
       /\ Sealed(n, k)
       /\ IsTarget(v, q) => /\ At(n, k, i)[4] = n.entry[Code[v][q]]
                            /\ Code[v][q] \in n.known /\ Sealed(n, n.entry[Code[v][q]][1])

AllSealed(n) ==
  /\ \A k \in Chunks(n) : Sealed(n, k)
  /\ n.current = 0 /\ n.stubs = 0 /\ n.fixups = {}
\* The operations of a version are in chunks that are not sealed yet; it has none.
Open(n, v)  == \A k, i, q \in Nat : IsOp(n, k, i, v, q) => ~Sealed(n, k)
NoOps(n, v) == \A k, i, q \in Nat : ~IsOp(n, k, i, v, q)

Holding == {"bind", "emit", "publish", "store", "unlock"}
Held(t) == thread[t].step \in Holding
Building(v) == \E t \in Threads : thread[t].code = v /\ thread[t].step \in {"emit", "publish", "store"}

\* The latest operation placed is the last cell of the current chunk.
Latest(n, v, q) ==
  /\ n.current # 0
  /\ IF q = 0 THEN n.body[v] = <<n.current, 1>> /\ Fill(n, n.current) = 0
     ELSE IsOp(n, n.current, Fill(n, n.current), v, q)

\* How far the holder of the mutex has come with its version.
Stage(t) ==
  LET v == thread[t].code
      q == thread[t].op
      n == image
  IN  /\ thread[t].step # "unlock" => ~n.failed /\ published[v] = Nowhere
      /\ thread[t].step = "bind" => AllSealed(n) /\ NoOps(n, v)
      /\ thread[t].step \in {"emit", "publish"} => Open(n, v)
      /\ thread[t].step = "emit" => /\ q \in 1 .. Len(Code[v])
                                    /\ Placed(n, v, q - 1) /\ Latest(n, v, q - 1)
      /\ thread[t].step = "publish" => Placed(n, v, Len(Code[v]))
      /\ thread[t].step = "store" => AllSealed(n) /\ Ready(n, v)
      /\ thread[t].step = "unlock" => n.failed \/ AllSealed(n)

LoadInv ==
  /\ loading[1] \in {"entries", "done", "failed"}
  /\ loading[1] # "done" =>
       /\ lock = NoOne /\ \A t \in Threads : thread[t].step = "host"
       /\ \A v \in Versions : published[v] = Nowhere /\ NoOps(image, v)
       /\ \A k \in Chunks(image) : ~Sealed(image, k)
       /\ image.fixups = {} /\ image.current = 0 /\ ~image.failed
  /\ loading[1] = "entries" => loading[2] \subseteq Entries /\ Entries \ loading[2] \subseteq image.known
  /\ loading[1] = "done" =>
       \A v \in Entries : v \in image.known /\ Sealed(image, image.entry[v][1])

\* A thread is at a stub or on its way to the operation it should be at.
Standing(t) ==
  LET k == thread[t].at[1]
      i == thread[t].at[2]
  IN  /\ Place(image, k, i) /\ Sealed(image, k)
      /\ \/ \E v \in Versions : IsStub(image, k, i, v) /\ goal[t] = <<v, 1>>
         \/ \E v \in Versions : /\ published[v] # Nowhere
                                /\ \E q \in Nat : goal[t] = <<v, q>> /\ Leads(image, k, i, v, q)

ThreadInv(t) ==
  /\ thread[t].step # "host" => Standing(t)
  /\ thread[t].step \notin {"host", "run"} =>
       /\ thread[t].code \in Versions
       /\ IsStub(image, thread[t].at[1], thread[t].at[2], thread[t].code)
  /\ Held(t) <=> lock = t
  /\ Held(t) => Stage(t)

PublishedInv ==
  \A v \in Versions :
    /\ published[v] # Nowhere => published[v] = image.body[v] /\ Ready(image, v)
    /\ published[v] = Nowhere /\ ~image.failed => NoOps(image, v) \/ Building(v)

Steps == {"host", "run", "lock"} \cup Holding

ThreadSet == [step : Steps, at : Addresses, code : Versions \cup {NoOne}, op : Nat]

Types ==
  /\ image \in ImageSet
  /\ published \in [Versions -> Addresses]
  /\ lock \in Threads \cup {NoOne}
  /\ thread \in [Threads -> ThreadSet]
  /\ goal \in [Threads -> {<<>>} \cup (Versions \X Nat)]
  /\ calls \in [Threads -> Nat]

Unheld == loading[1] = "done" /\ lock = NoOne => image.failed \/ AllSealed(image)

NativeInv ==
  /\ Types /\ ImageInv(image) /\ LoadInv /\ PublishedInv /\ Unheld
  /\ \A t \in Threads : ThreadInv(t)

-----------------------------------------------------------------------------
(* The emitter, one cell at a time. *)

\* All but the chunks is the same.
Kept(n, s) ==
  /\ s.stubs = n.stubs /\ s.entry = n.entry /\ s.body = n.body /\ s.known = n.known
  /\ s.fixups = n.fixups /\ s.writable = n.writable /\ s.failed = n.failed

\* A new chunk.
LEMMA ChunkEffect ==
  ASSUME NEW n \in ImageSet, NEW s, s = Chunk(n)
  PROVE  /\ s \in ImageSet
         /\ Len(n.chunks) \in Nat /\ Len(s.chunks) = Len(n.chunks) + 1
         /\ s.current = Len(n.chunks) + 1
         /\ \A k \in 1 .. Len(n.chunks) : s.chunks[k] = n.chunks[k]
         /\ s.chunks[s.current] = [cells |-> <<>>, sealed |-> FALSE]
         /\ Kept(n, s)
<1>1. n.chunks \in Seq(ChunkSet) /\ Len(n.chunks) \in Nat
  BY DEF ImageSet
<1>2. [cells |-> <<>>, sealed |-> FALSE] \in ChunkSet
  <2>1. <<>> \in Seq(CellSet)
    BY EmptySeq
  <2> QED
    BY <2>1 DEF ChunkSet
<1>3. PICK cs : cs = Append(n.chunks, [cells |-> <<>>, sealed |-> FALSE])
  OBVIOUS
<1>4. /\ cs \in Seq(ChunkSet) /\ Len(cs) = Len(n.chunks) + 1
      /\ \A k \in 1 .. Len(n.chunks) : cs[k] = n.chunks[k]
      /\ cs[Len(n.chunks) + 1] = [cells |-> <<>>, sealed |-> FALSE]
  BY <1>1, <1>2, <1>3, AppendProperties
<1>5. s = [n EXCEPT !.chunks = cs, !.current = Len(n.chunks) + 1]
  BY <1>3 DEF Chunk
<1>6. PICK m \in Nat : m = Len(n.chunks) + 1
  BY <1>1
<1>7. s.chunks = cs /\ s.current = m /\ s \in ImageSet /\ Kept(n, s)
  BY <1>4, <1>5, <1>6 DEF ImageSet, Kept
<1> QED
  BY <1>1, <1>4, <1>5, <1>6, <1>7

\* A cell at the end of a chunk.
Extended(n, b, cell) == [n EXCEPT !.chunks[b].cells = Append(@, cell)]

LEMMA PutEffect ==
  ASSUME NEW n \in ImageSet, NEW cell \in CellSet, NEW b \in Chunks(n),
         NEW s, s = Extended(n, b, cell)
  PROVE  /\ s \in ImageSet
         /\ Len(s.chunks) = Len(n.chunks)
         /\ \A k \in 1 .. Len(n.chunks) \ {b} : s.chunks[k] = n.chunks[k]
         /\ s.chunks[b].sealed = n.chunks[b].sealed
         /\ s.chunks[b].cells = Append(n.chunks[b].cells, cell)
         /\ Kept(n, s) /\ s.current = n.current
<1>1. n.chunks \in Seq(ChunkSet) /\ b \in 1 .. Len(n.chunks)
  BY DEF ImageSet, Chunks
<1>2. PICK ch \in ChunkSet : ch = n.chunks[b]
  BY <1>1, ElementOfSeq
<1>3. ch.cells \in Seq(CellSet) /\ ch.sealed \in BOOLEAN
  BY <1>2 DEF ChunkSet
<1>4. PICK cells \in Seq(CellSet) : cells = Append(ch.cells, cell)
  BY <1>3, AppendProperties
<1>5. PICK new \in ChunkSet : new = [ch EXCEPT !.cells = cells]
  BY <1>2, <1>4 DEF ChunkSet
<1>6. new.cells = cells /\ new.sealed = ch.sealed
  BY <1>2, <1>5 DEF ChunkSet
<1>7. PICK cs : cs = [n.chunks EXCEPT ![b] = new]
  OBVIOUS
<1>8. /\ cs \in Seq(ChunkSet) /\ Len(cs) = Len(n.chunks)
      /\ \A k \in 1 .. Len(n.chunks) : cs[k] = IF k = b THEN new ELSE n.chunks[k]
  BY <1>1, <1>5, <1>7, ExceptSeq
<1>9. s = [n EXCEPT !.chunks = cs]
  BY <1>2, <1>4, <1>5, <1>7 DEF Extended
<1>10. s.chunks = cs /\ s \in ImageSet /\ Kept(n, s) /\ s.current = n.current
  BY <1>8, <1>9 DEF ImageSet, Kept
<1> QED
  BY <1>1, <1>2, <1>4, <1>6, <1>8, <1>9, <1>10

\* What an image's chunks hold is what they held before, and one more cell, at
\* the end of chunk k0; it is preceded by a jump if that is not the chunk cur.
Laid(n, s, cur, cell, k0, i0) ==
  /\ \A k \in Chunks(n) :
       /\ k \in Chunks(s) /\ Sealed(s, k) = Sealed(n, k)
       /\ k # cur => s.chunks[k] = n.chunks[k] /\ Fill(s, k) = Fill(n, k)
  /\ \A k, i \in Nat : Place(n, k, i) => Place(s, k, i) /\ At(s, k, i) = At(n, k, i)
  /\ Place(s, k0, i0) /\ At(s, k0, i0) = cell /\ ~Place(n, k0, i0)
  /\ k0 \in Nat \ {0} /\ i0 \in 1 .. Page - 1 /\ i0 = Fill(s, k0) /\ ~Sealed(s, k0)
  /\ k0 = cur \/ k0 \notin Chunks(n)
  /\ \A k \in Chunks(s) : k \in Chunks(n) \/ k = k0
  /\ \A k, i \in Nat : Place(s, k, i) =>
       \/ Place(n, k, i)
       \/ k = k0 /\ i = i0
       \/ k = cur /\ At(s, k, i) = Hop(k0)
  /\ cur # 0 => /\ Place(s, cur, Fill(n, cur) + 1)
                /\ \/ k0 = cur /\ i0 = Fill(n, cur) + 1
                   \/ At(s, cur, Fill(n, cur) + 1) = Hop(k0) /\ i0 = 1 /\ Fill(n, cur) # 0
  /\ (\A k \in Chunks(n) : Fill(n, k) <= Page) => \A k \in Chunks(s) : Fill(s, k) <= Page

LEMMA FillNat ==
  ASSUME NEW n \in ImageSet, NEW k \in Chunks(n)
  PROVE  /\ Fill(n, k) \in Nat /\ Sealed(n, k) \in BOOLEAN
         /\ k \in Nat \ {0} /\ k <= Len(n.chunks) /\ Len(n.chunks) \in Nat
         /\ \A i \in 1 .. Fill(n, k) : At(n, k, i) \in CellSet
<1>1. n.chunks \in Seq(ChunkSet) /\ k \in 1 .. Len(n.chunks) /\ Len(n.chunks) \in Nat
  BY DEF ImageSet, Chunks
<1>2. n.chunks[k] \in ChunkSet
  BY <1>1, ElementOfSeq
<1>3. PICK cells \in Seq(CellSet) : cells = n.chunks[k].cells
  BY <1>2 DEF ChunkSet
<1>4. \A i \in 1 .. Len(cells) : cells[i] \in CellSet
  BY ElementOfSeq
<1>5. Len(cells) \in Nat
  OBVIOUS
<1> QED
  BY <1>1, <1>2, <1>3, <1>4, <1>5 DEF Fill, Sealed, At, ChunkSet

LEMMA PutCells ==
  ASSUME NEW n \in ImageSet, NEW cell \in CellSet, NEW b \in Chunks(n),
         NEW s, s = Extended(n, b, cell)
  PROVE  /\ s \in ImageSet /\ Chunks(s) = Chunks(n)
         /\ \A k \in Chunks(n) : Sealed(s, k) = Sealed(n, k)
         /\ \A k \in Chunks(n) \ {b} : s.chunks[k] = n.chunks[k]
         /\ Fill(s, b) = Fill(n, b) + 1
         /\ \A i \in 1 .. Fill(n, b) : At(s, b, i) = At(n, b, i)
         /\ At(s, b, Fill(n, b) + 1) = cell
         /\ Kept(n, s) /\ s.current = n.current
<1>1. /\ s \in ImageSet
      /\ Len(s.chunks) = Len(n.chunks)
      /\ \A k \in 1 .. Len(n.chunks) \ {b} : s.chunks[k] = n.chunks[k]
      /\ s.chunks[b].sealed = n.chunks[b].sealed
      /\ s.chunks[b].cells = Append(n.chunks[b].cells, cell)
      /\ Kept(n, s) /\ s.current = n.current
  BY PutEffect
<1>2. n.chunks \in Seq(ChunkSet) /\ b \in 1 .. Len(n.chunks)
  BY DEF ImageSet, Chunks
<1>3. n.chunks[b] \in ChunkSet
  BY <1>2, ElementOfSeq
<1>4. PICK cells \in Seq(CellSet) : cells = n.chunks[b].cells
  BY <1>3 DEF ChunkSet
<1>5. PICK more \in Seq(CellSet) : more = Append(cells, cell)
  BY AppendProperties
<1>6. /\ Len(more) = Len(cells) + 1
      /\ \A i \in 1 .. Len(cells) : more[i] = cells[i]
      /\ more[Len(cells) + 1] = cell
  BY <1>5, AppendProperties
<1>7. s.chunks[b].cells = more
  BY <1>1, <1>4, <1>5
<1>8. Chunks(s) = Chunks(n) /\ \A k \in Chunks(n) : Sealed(s, k) = Sealed(n, k)
  BY <1>1 DEF Chunks, Sealed
<1>9. /\ Fill(s, b) = Fill(n, b) + 1
      /\ \A i \in 1 .. Fill(n, b) : At(s, b, i) = At(n, b, i)
      /\ At(s, b, Fill(n, b) + 1) = cell
  BY <1>4, <1>6, <1>7 DEF Fill, At
<1> QED
  BY <1>1, <1>8, <1>9 DEF Chunks

\* The same, for a new image that is given by its parts.
PutDone(n, cell, b, s) ==
  /\ s \in ImageSet /\ Chunks(s) = Chunks(n)
  /\ \A k \in Chunks(n) : Sealed(s, k) = Sealed(n, k)
  /\ \A k \in Chunks(n) \ {b} : s.chunks[k] = n.chunks[k]
  /\ Fill(s, b) = Fill(n, b) + 1
  /\ \A i \in 1 .. Fill(n, b) : At(s, b, i) = At(n, b, i)
  /\ At(s, b, Fill(n, b) + 1) = cell
  /\ Kept(n, s) /\ s.current = n.current

LEMMA PutIsDone ==
  \A n \in ImageSet : \A b \in Chunks(n), cell \in CellSet :
    PutDone(n, cell, b, Extended(n, b, cell))
<1>1. SUFFICES ASSUME NEW n \in ImageSet, NEW b \in Chunks(n), NEW cell \in CellSet, 
                      NEW s, s = Extended(n, b, cell)
              PROVE PutDone(n, cell, b, s)
  OBVIOUS
<1> QED
  BY <1>1, PutCells DEF PutDone

\* The current chunk can take the jump that may have to follow.
Roomy(n, k) == k \in {0} \cup Chunks(n) /\ (k # 0 => ~Sealed(n, k) /\ Fill(n, k) < Page)

\* A cell where there is room for it.
LEMMA LayHere ==
  ASSUME NEW n \in ImageSet, NEW cell \in CellSet, n.current # 0, Roomy(n, n.current),
         Fill(n, n.current) + 1 < Page, NEW s, s = Put(n, cell)
  PROVE  /\ s \in ImageSet /\ Kept(n, s) /\ s.current = n.current
         /\ Laid(n, s, n.current, cell, n.current, Fill(n, n.current) + 1)
<1>1. n.current \in Chunks(n) /\ ~Sealed(n, n.current)
  BY DEF Roomy
<1>2. PICK c \in Chunks(n) : c = n.current
  BY <1>1
<1>3. /\ s \in ImageSet /\ Chunks(s) = Chunks(n)
      /\ \A k \in Chunks(n) : Sealed(s, k) = Sealed(n, k)
      /\ \A k \in Chunks(n) \ {c} : s.chunks[k] = n.chunks[k]
      /\ Fill(s, c) = Fill(n, c) + 1
      /\ \A i \in 1 .. Fill(n, c) : At(s, c, i) = At(n, c, i)
      /\ At(s, c, Fill(n, c) + 1) = cell
      /\ Kept(n, s) /\ s.current = n.current
  <2>1. s = Extended(n, c, cell)
    BY <1>2 DEF Put, Extended
  <2> QED
    BY <2>1, PutCells
<1>4. \A k \in Chunks(n) \ {c} : Fill(s, k) = Fill(n, k) /\ \A i : At(s, k, i) = At(n, k, i)
  BY <1>3 DEF Fill, At
<1>5. PICK f \in Nat : f = Fill(n, c)
  BY FillNat
<1>6. c \in Nat \ {0} /\ Page \in Nat
  BY <1>2, FillNat, PageAssumption
<1>7. Laid(n, s, c, cell, c, f + 1)
  BY <1>1, <1>2, <1>3, <1>4, <1>5, <1>6 DEF Laid, Place
<1> QED
  BY <1>2, <1>3, <1>5, <1>7

\* A cell in a new chunk, the first one or the one after a chunk that is full.
LEMMA LayFirst ==
  ASSUME NEW n \in ImageSet, NEW cell \in CellSet, n.current = 0,
         NEW m, m = Chunk(n), NEW s, s = Put(m, cell)
  PROVE  /\ s \in ImageSet /\ Kept(n, s) /\ Here(m) = <<s.current, 1>>
         /\ Laid(n, s, 0, cell, s.current, 1)
<1>1. m = Chunk(n)
  OBVIOUS
<1>2. /\ m \in ImageSet
      /\ Len(n.chunks) \in Nat /\ Len(m.chunks) = Len(n.chunks) + 1
      /\ m.current = Len(n.chunks) + 1
      /\ \A k \in 1 .. Len(n.chunks) : m.chunks[k] = n.chunks[k]
      /\ m.chunks[m.current] = [cells |-> <<>>, sealed |-> FALSE]
      /\ Kept(n, m)
  BY <1>1, ChunkEffect
<1>3. PICK c \in Nat \ {0} : c = Len(n.chunks) + 1
  BY <1>2
<1>4. Chunks(m) = Chunks(n) \cup {c} /\ c \notin Chunks(n) /\ m.current = c
  BY <1>2, <1>3 DEF Chunks
<1>5. Fill(m, c) = 0 /\ ~Sealed(m, c)
  BY <1>2, <1>4, EmptySeq DEF Fill, Sealed
<1>6. /\ s \in ImageSet /\ Chunks(s) = Chunks(m)
      /\ \A k \in Chunks(m) : Sealed(s, k) = Sealed(m, k)
      /\ \A k \in Chunks(m) \ {c} : s.chunks[k] = m.chunks[k]
      /\ Fill(s, c) = Fill(m, c) + 1
      /\ At(s, c, Fill(m, c) + 1) = cell
      /\ Kept(m, s) /\ s.current = m.current
  <2>1. s = Extended(m, c, cell)
    BY <1>1, <1>4 DEF Put, Extended
  <2>2. c \in Chunks(m)
    BY <1>4
  <2> QED
    BY <1>2, <2>1, <2>2, PutCells
<1>7. \A k \in Chunks(n) : s.chunks[k] = n.chunks[k]
  BY <1>2, <1>4, <1>6 DEF Chunks
<1>8. \A k \in Chunks(n) : /\ Sealed(s, k) = Sealed(n, k) /\ Fill(s, k) = Fill(n, k)
                           /\ \A i : At(s, k, i) = At(n, k, i)
  BY <1>7 DEF Fill, Sealed, At
<1>9. Fill(s, c) = 1 /\ At(s, c, 1) = cell /\ ~Sealed(s, c) /\ Chunks(s) = Chunks(n) \cup {c}
  BY <1>4, <1>5, <1>6
<1>10. Page \in Nat /\ Page >= 2 /\ 0 \notin Chunks(n)
  BY PageAssumption DEF Chunks
<1>11. Laid(n, s, 0, cell, c, 1)
  BY <1>3, <1>4, <1>7, <1>8, <1>9, <1>10 DEF Laid, Place
<1>12. Kept(n, s) /\ s.current = c
  BY <1>2, <1>4, <1>6 DEF Kept
<1>13. Here(m) = <<c, 1>>
  BY <1>4, <1>5 DEF Here, Used, Fill
<1> QED
  BY <1>6, <1>11, <1>12, <1>13

LEMMA LayNext ==
  ASSUME NEW n \in ImageSet, NEW cell \in CellSet, n.current # 0, Roomy(n, n.current),
         Fill(n, n.current) + 1 >= Page,
         NEW z, z = Extended(Chunk(n), n.current, Hop(Len(n.chunks) + 1)),
         NEW s, s = Put(z, cell)
  PROVE  /\ s \in ImageSet /\ Kept(n, s) /\ Here(z) = <<s.current, 1>>
         /\ Laid(n, s, n.current, cell, s.current, 1)
<1>1. PICK m : m = Chunk(n)
  OBVIOUS
<1>2. /\ m \in ImageSet
      /\ Len(n.chunks) \in Nat /\ Len(m.chunks) = Len(n.chunks) + 1
      /\ m.current = Len(n.chunks) + 1
      /\ \A k \in 1 .. Len(n.chunks) : m.chunks[k] = n.chunks[k]
      /\ m.chunks[m.current] = [cells |-> <<>>, sealed |-> FALSE]
      /\ Kept(n, m)
  BY <1>1, ChunkEffect
<1>3. PICK c \in Nat \ {0} : c = Len(n.chunks) + 1
  BY <1>2
<1>4. PICK b \in Chunks(n) : b = n.current
  BY DEF Roomy
<1>5. /\ Chunks(m) = Chunks(n) \cup {c} /\ c \notin Chunks(n) /\ m.current = c
      /\ b # c /\ b \in Chunks(m) /\ c \in Chunks(m)
  BY <1>2, <1>3, <1>4 DEF Chunks
<1>6. Fill(m, c) = 0 /\ ~Sealed(m, c)
  BY <1>2, <1>5, EmptySeq DEF Fill, Sealed
<1>7. Hop(c) \in CellSet
  BY <1>3 DEF CellSet
<1>8. PICK h \in CellSet : h = Hop(c)
  BY <1>7
<1>27. z = Extended(m, b, h)
  BY <1>1, <1>3, <1>4, <1>8
<1>28. m \in ImageSet
  BY <1>2
<1>29. b \in Chunks(m)
  BY <1>5
<1>9. /\ z \in ImageSet /\ Chunks(z) = Chunks(m)
      /\ \A k \in Chunks(m) : Sealed(z, k) = Sealed(m, k)
      /\ \A k \in Chunks(m) \ {b} : z.chunks[k] = m.chunks[k]
      /\ Fill(z, b) = Fill(m, b) + 1
      /\ \A i \in 1 .. Fill(m, b) : At(z, b, i) = At(m, b, i)
      /\ At(z, b, Fill(m, b) + 1) = h
      /\ Kept(m, z) /\ z.current = m.current
  BY <1>27, <1>28, <1>29, PutCells
<1>10. s = Extended(z, c, cell)
  <2>1. s = Put(z, cell)
    OBVIOUS
  <2> QED
    BY <1>5, <1>9, <2>1 DEF Put, Extended
<1>11. c \in Chunks(z)
  BY <1>5, <1>9
<1>30. z \in ImageSet
  BY <1>9
<1>12. /\ s \in ImageSet /\ Chunks(s) = Chunks(z)
       /\ \A k \in Chunks(z) : Sealed(s, k) = Sealed(z, k)
       /\ \A k \in Chunks(z) \ {c} : s.chunks[k] = z.chunks[k]
       /\ Fill(s, c) = Fill(z, c) + 1
       /\ At(s, c, Fill(z, c) + 1) = cell
       /\ Kept(z, s) /\ s.current = z.current
  <2>1. PutDone(z, cell, c, s)
    BY <1>10, <1>11, <1>30, PutIsDone
  <2> QED
    BY <2>1 DEF PutDone
<1>13. \A k \in Chunks(n) : m.chunks[k] = n.chunks[k]
  BY <1>2 DEF Chunks
<1>14. \A k \in Chunks(n) \ {b} : s.chunks[k] = n.chunks[k]
  BY <1>5, <1>9, <1>12, <1>13
<1>15. \A k \in Chunks(n) \ {b} : Fill(s, k) = Fill(n, k) /\ \A i : At(s, k, i) = At(n, k, i)
  BY <1>14 DEF Fill, At
<1>16. \A k \in Chunks(n) : Sealed(m, k) = Sealed(n, k) /\ Fill(m, k) = Fill(n, k)
                             /\ \A i : At(m, k, i) = At(n, k, i)
  BY <1>13 DEF Sealed, Fill, At
<1>17. z.chunks[c] = m.chunks[c]
  BY <1>5, <1>9
<1>18. Fill(s, c) = 1 /\ At(s, c, 1) = cell /\ ~Sealed(s, c)
  <2>1. Fill(z, c) = 0
    BY <1>6, <1>17 DEF Fill
  <2>2. ~Sealed(s, c)
    BY <1>5, <1>6, <1>9, <1>12
  <2> QED
    BY <1>12, <2>1, <2>2
<1>19. s.chunks[b] = z.chunks[b]
  BY <1>5, <1>9, <1>12
<1>20. PICK f \in Nat : f = Fill(n, b)
  BY FillNat
<1>21. /\ Fill(s, b) = f + 1
       /\ \A i \in 1 .. f : At(s, b, i) = At(n, b, i)
       /\ At(s, b, f + 1) = Hop(c)
  <2>1. Fill(s, b) = Fill(z, b) /\ \A i : At(s, b, i) = At(z, b, i)
    BY <1>19 DEF Fill, At
  <2>2. Fill(m, b) = f /\ \A i : At(m, b, i) = At(n, b, i)
    BY <1>4, <1>16, <1>20
  <2> QED
    BY <1>8, <1>9, <2>1, <2>2
<1>22. \A k \in Chunks(n) : Sealed(s, k) = Sealed(n, k)
  BY <1>5, <1>9, <1>12, <1>16
<1>23. Chunks(s) = Chunks(n) \cup {c}
  BY <1>5, <1>9, <1>12
<1>24. Page \in Nat /\ Page >= 2 /\ f + 1 = Page /\ b \in Nat \ {0}
  <2>1. f < Page /\ f + 1 >= Page
    BY <1>4, <1>20 DEF Roomy
  <2>2. b \in Nat \ {0}
    BY <1>4, FillNat
  <2> QED
    BY <1>20, <2>1, <2>2, PageAssumption
<1>25. Laid(n, s, b, cell, c, 1)
  <2>1. \A k \in Chunks(n) : /\ k \in Chunks(s) /\ Sealed(s, k) = Sealed(n, k)
                             /\ k # b => s.chunks[k] = n.chunks[k] /\ Fill(s, k) = Fill(n, k)
    BY <1>14, <1>15, <1>22, <1>23
  <2>2. \A k, i \in Nat : Place(n, k, i) => Place(s, k, i) /\ At(s, k, i) = At(n, k, i)
    <3>1. SUFFICES ASSUME NEW k \in Nat, NEW i \in Nat, k \in Chunks(n), i \in 1 .. Fill(n, k)
                   PROVE k \in Chunks(s) /\ i \in 1 .. Fill(s, k) /\ At(s, k, i) = At(n, k, i)
      BY DEF Place
    <3>2. k \in Chunks(s)
      BY <1>23, <3>1
    <3>3. CASE k = b
      BY <1>20, <1>21, <3>1, <3>2, <3>3
    <3>4. CASE k # b
      BY <1>15, <3>1, <3>2, <3>4
    <3> QED
      BY <3>3, <3>4
  <2>3. /\ Place(s, c, 1) /\ At(s, c, 1) = cell /\ ~Place(n, c, 1) /\ ~Sealed(s, c)
        /\ 1 \in 1 .. Page - 1 /\ 1 = Fill(s, c) /\ c \in Nat \ {0} /\ c \notin Chunks(n)
    BY <1>3, <1>5, <1>18, <1>23, <1>24 DEF Place
  <2>4. \A k, i \in Nat : Place(s, k, i) =>
           Place(n, k, i) \/ (k = c /\ i = 1) \/ (k = b /\ At(s, k, i) = Hop(c))
    BY <1>15, <1>18, <1>20, <1>21, <1>23 DEF Place
  <2>5. /\ Place(s, b, Fill(n, b) + 1) /\ At(s, b, Fill(n, b) + 1) = Hop(c)
        /\ Fill(n, b) # 0
    BY <1>4, <1>20, <1>21, <1>23, <1>24 DEF Place
  <2>6. (\A k \in Chunks(n) : Fill(n, k) <= Page) => \A k \in Chunks(s) : Fill(s, k) <= Page
    BY <1>15, <1>18, <1>21, <1>23, <1>24
  <2> QED
    BY <1>23, <2>1, <2>2, <2>3, <2>4, <2>5, <2>6 DEF Laid
<1>26. Kept(n, s) /\ s.current = c
  BY <1>2, <1>5, <1>9, <1>12 DEF Kept
<1>31. Here(z) = <<c, 1>>
  <2>1. Fill(z, c) = 0
    BY <1>6, <1>17 DEF Fill
  <2> QED
    BY <1>5, <1>9, <2>1 DEF Here, Used, Fill
<1> QED
  BY <1>4, <1>12, <1>25, <1>26, <1>31

\* A cell goes to the end of the current chunk, or to a new one that the current
\* chunk jumps to.
LaidAt(n, s, cell, k0, i0) ==
  /\ s \in ImageSet /\ Kept(n, s) /\ s.current = k0
  /\ Laid(n, s, n.current, cell, k0, i0)

LEMMA Laying ==
  ASSUME NEW n \in ImageSet, NEW cell \in CellSet, Roomy(n, n.current),
         NEW m, m = Space(n, 1), NEW s, s = Put(m, cell)
  PROVE  \E k0, i0 \in Nat : Here(m) = <<k0, i0>> /\ m.current = k0 /\ LaidAt(n, s, cell, k0, i0)
<1>1. Page \in Nat
  BY PageAssumption
<1>2. s.current = m.current /\ (\A k0, i0 : Here(m) = <<k0, i0>> => m.current = k0)
  BY DEF Put, Here
<1>3. \A k0, i0 : Laid(n, s, n.current, cell, k0, i0) => k0 \in Nat /\ i0 \in Nat
  BY <1>1 DEF Laid
<1>4. SUFFICES \E k0, i0 : Here(m) = <<k0, i0>> /\ LaidAt(n, s, cell, k0, i0)
  BY <1>2, <1>3 DEF LaidAt
<1>5. CASE n.current = 0
  <2>1. m = Chunk(n)
    BY <1>5 DEF Space
  <2>2. s \in ImageSet /\ Kept(n, s) /\ Here(m) = <<s.current, 1>> /\ Laid(n, s, 0, cell, s.current, 1)
    BY <1>5, <2>1, LayFirst
  <2> QED
    BY <1>5, <2>2 DEF LaidAt
<1>6. ASSUME n.current # 0
      PROVE  Fill(n, n.current) \in Nat /\ (Fits(n, 1) <=> Fill(n, n.current) + 1 < Page)
  <2>1. n.current \in Chunks(n)
    BY <1>6 DEF Roomy
  <2>2. Fill(n, n.current) \in Nat
    BY <2>1, FillNat
  <2>3. Fits(n, 1) <=> Page - Fill(n, n.current) >= 1 + 1
    BY DEF Fits, Used, Fill
  <2> QED
    BY <1>1, <2>2, <2>3
<1>7. CASE n.current # 0 /\ Fits(n, 1)
  <2>1. m = n
    BY <1>7 DEF Space
  <2>2. s = Put(n, cell) /\ Fill(n, n.current) + 1 < Page
    BY <1>6, <1>7, <2>1
  <2>3. /\ s \in ImageSet /\ Kept(n, s) /\ s.current = n.current
        /\ Laid(n, s, n.current, cell, n.current, Fill(n, n.current) + 1)
    BY <1>7, <2>2, LayHere
  <2>4. Here(m) = <<n.current, Fill(n, n.current) + 1>>
    BY <2>1 DEF Here, Used, Fill
  <2> QED
    BY <2>3, <2>4 DEF LaidAt
<1>8. CASE n.current # 0 /\ ~Fits(n, 1)
  <2>1. m = Extended(Chunk(n), n.current, Hop(Len(n.chunks) + 1))
    BY <1>8 DEF Space, Extended
  <2>2. Fill(n, n.current) + 1 >= Page
    BY <1>1, <1>6, <1>8
  <2>3. /\ s \in ImageSet /\ Kept(n, s) /\ Here(m) = <<s.current, 1>>
        /\ Laid(n, s, n.current, cell, s.current, 1)
    BY <1>8, <2>1, <2>2, LayNext
  <2> QED
    BY <2>3 DEF LaidAt
<1> QED
  BY <1>5, <1>7, <1>8

-----------------------------------------------------------------------------
(* What a step of the emitter keeps. *)

\* The cells of n are in s, with the same meaning, those of sealed chunks the same.
Shows(n, s) ==
  \A k, i \in Nat :
    /\ \A v \in Versions : IsStub(n, k, i, v) => IsStub(s, k, i, v)
    /\ \A j \in Nat : IsHop(n, k, i, j) => IsHop(s, k, i, j)
    /\ \A v \in Versions, q \in Nat : IsOp(n, k, i, v, q) => IsOp(s, k, i, v, q)
Fixed(n, s) == \A k \in Chunks(n) : k \in Chunks(s) /\ (Sealed(n, k) => s.chunks[k] = n.chunks[k])

\* The versions of U have no operations but those they had, and the same body.
Untouched(n, s, U) ==
  /\ \A u \in U, k, i, q \in Nat : IsOp(s, k, i, u, q) => IsOp(n, k, i, u, q)
  /\ \A u \in U : s.body[u] = n.body[u]
SameEntries(n, s) == \A u \in n.known : u \in s.known /\ s.entry[u] = n.entry[u]

Keeps(n, s, U) == Shows(n, s) /\ Fixed(n, s) /\ Untouched(n, s, U) /\ SameEntries(n, s)

\* What leads to an operation still does.
LEMMA KeepsLeads ==
  ASSUME NEW n, NEW s, Shows(n, s), NEW k \in Nat, NEW i \in Nat, NEW v \in Versions, NEW q \in Nat,
         Leads(n, k, i, v, q)
  PROVE  Leads(s, k, i, v, q)
<1>1. CASE IsOp(n, k, i, v, q)
  BY <1>1 DEF Shows, Leads
<1>2. ASSUME NEW j \in Nat, IsHop(n, k, i, j), IsOp(n, j, 1, v, q)
      PROVE  Leads(s, k, i, v, q)
  BY <1>2 DEF Shows, Leads
<1> QED
  BY <1>1, <1>2 DEF Leads

LEMMA KeepsPlaced ==
  ASSUME NEW n \in ImageSet, NEW s, NEW U \in SUBSET Versions, Keeps(n, s, U), NEW u \in U,
         NEW q \in Nat, Placed(n, u, q)
  PROVE  Placed(s, u, q)
<1>1. Shows(n, s) /\ Untouched(n, s, U)
  BY DEF Keeps
<1>2. ASSUME NEW k \in Nat, NEW i \in Nat, NEW p \in Nat, IsOp(s, k, i, u, p)
      PROVE  p <= q /\ (p < q => Leads(s, k, i + 1, u, p + 1))
  <2>1. IsOp(n, k, i, u, p)
    BY <1>1, <1>2 DEF Untouched
  <2>2. p <= q /\ (p < q => Leads(n, k, i + 1, u, p + 1))
    BY <2>1 DEF Placed
  <2>3. i + 1 \in Nat /\ p + 1 \in Nat /\ u \in Versions
    OBVIOUS
  <2> QED
    BY <1>1, <2>2, <2>3, KeepsLeads
<1>3. n.body[u][1] \in Nat /\ n.body[u][2] \in Nat /\ 1 \in Nat
  BY DEF ImageSet, Addresses
<1>4. q > 0 => IsOp(s, s.body[u][1], s.body[u][2], u, 1)
  BY <1>1, <1>3 DEF Placed, Untouched, Shows
<1> QED
  BY <1>2, <1>4 DEF Placed

LEMMA KeepsReady ==
  ASSUME NEW n \in ImageSet, NEW s, NEW U \in SUBSET Versions, Keeps(n, s, U), NEW u \in U,
         Ready(n, u), StubInv(n)
  PROVE  Ready(s, u)
<1>1. Shows(n, s) /\ Untouched(n, s, U) /\ Fixed(n, s) /\ SameEntries(n, s)
  BY DEF Keeps
<1>2. Len(Code[u]) \in Nat
  BY CodeAssumption
<1>3. Placed(s, u, Len(Code[u]))
  BY <1>2, KeepsPlaced DEF Ready
<1>4. ASSUME NEW k \in Nat, NEW i \in Nat, NEW q \in Nat, IsOp(s, k, i, u, q)
      PROVE  /\ Sealed(s, k)
             /\ IsTarget(u, q) => /\ At(s, k, i)[4] = s.entry[Code[u][q]]
                                  /\ Code[u][q] \in s.known /\ Sealed(s, s.entry[Code[u][q]][1])
  <2>1. IsOp(n, k, i, u, q)
    BY <1>1, <1>4 DEF Untouched
  <2>2. /\ Sealed(n, k)
        /\ IsTarget(u, q) => /\ At(n, k, i)[4] = n.entry[Code[u][q]]
                             /\ Code[u][q] \in n.known /\ Sealed(n, n.entry[Code[u][q]][1])
    BY <2>1 DEF Ready
  <2>3. k \in Chunks(n)
    BY <2>1 DEF IsOp, Place
  <2>4. Sealed(s, k) /\ At(s, k, i) = At(n, k, i)
    BY <1>1, <2>2, <2>3 DEF Fixed, Sealed, At
  <2>5. ASSUME IsTarget(u, q), NEW w, w = Code[u][q]
        PROVE  At(s, k, i)[4] = s.entry[w] /\ w \in s.known /\ Sealed(s, s.entry[w][1])
    <3>1. w \in n.known /\ Sealed(n, n.entry[w][1]) /\ At(n, k, i)[4] = n.entry[w]
      BY <2>2, <2>5
    <3>2. n.entry[w][1] \in Chunks(n)
      BY <3>1 DEF StubInv, IsStub, Place
    <3>3. w \in s.known /\ s.entry[w] = n.entry[w]
      BY <1>1, <3>1 DEF SameEntries
    <3>4. Sealed(s, n.entry[w][1])
      BY <1>1, <3>1, <3>2 DEF Fixed, Sealed
    <3> QED
      BY <2>4, <3>1, <3>3, <3>4
  <2> QED
    BY <2>4, <2>5
<1> QED
  BY <1>3, <1>4 DEF Ready

LEMMA KeepsTransitive ==
  ASSUME NEW n, NEW m, NEW s, NEW U, Keeps(n, m, U), Keeps(m, s, U)
  PROVE  Keeps(n, s, U)
<1>1. Shows(n, s)
  BY DEF Keeps, Shows
<1>2. Fixed(n, s)
  BY DEF Keeps, Fixed, Sealed
<1>3. Untouched(n, s, U)
  BY DEF Keeps, Untouched
<1>4. SameEntries(n, s)
  BY DEF Keeps, SameEntries
<1> QED
  BY <1>1, <1>2, <1>3, <1>4 DEF Keeps

LEMMA LaidShows ==
  ASSUME NEW n, NEW s, NEW cur, NEW cell, NEW k0 \in Nat, NEW i0 \in Nat,
         Roomy(n, cur), Laid(n, s, cur, cell, k0, i0)
  PROVE  Shows(n, s) /\ Fixed(n, s)
<1>1. \A k, i \in Nat : Place(n, k, i) => Place(s, k, i) /\ At(s, k, i) = At(n, k, i)
  BY DEF Laid
<1>2. Shows(n, s)
  BY <1>1 DEF Shows, IsStub, IsHop, IsOp
<1>3. Fixed(n, s)
  <2>1. \A k \in Chunks(n) : k # 0
    BY DEF Chunks
  <2>2. \A k \in Chunks(n) : k \in Chunks(s) /\ (k # cur => s.chunks[k] = n.chunks[k])
    BY DEF Laid
  <2>3. \A k \in Chunks(n) : Sealed(n, k) => k # cur
    BY <2>1 DEF Roomy
  <2> QED
    BY <2>2, <2>3 DEF Fixed
<1> QED
  BY <1>2, <1>3

\* Nothing appears but the cell laid, and perhaps the jump to it.
Appears(n, s, cell, k0, i0) ==
  \A k, i \in Nat :
    /\ \A v \in Versions :
         IsStub(s, k, i, v) => IsStub(n, k, i, v) \/ (k = k0 /\ i = i0 /\ cell = Stub(v))
    /\ \A v \in Versions, q \in Nat :
         IsOp(s, k, i, v, q) =>
           \/ IsOp(n, k, i, v, q)
           \/ k = k0 /\ i = i0 /\ cell[1] = "op" /\ cell[2] = v /\ cell[3] = q

LEMMA LaidAppears ==
  ASSUME NEW n, NEW s, NEW cur, NEW cell, NEW k0 \in Nat, NEW i0 \in Nat,
         Laid(n, s, cur, cell, k0, i0)
  PROVE  Appears(n, s, cell, k0, i0)
<1>1. ASSUME NEW k \in Nat, NEW i \in Nat, Place(s, k, i)
      PROVE  \/ Place(n, k, i) /\ At(s, k, i) = At(n, k, i)
             \/ k = k0 /\ i = i0 /\ At(s, k, i) = cell
             \/ At(s, k, i) = Hop(k0)
  BY <1>1 DEF Laid
<1>2. Hop(k0)[1] = "hop" /\ \A v : Stub(v)[1] = "stub"
  BY DEF Hop, Stub
<1>3. ASSUME NEW k \in Nat, NEW i \in Nat, NEW v \in Versions, IsStub(s, k, i, v)
      PROVE  IsStub(n, k, i, v) \/ (k = k0 /\ i = i0 /\ cell = Stub(v))
  <2>1. Place(s, k, i) /\ At(s, k, i) = Stub(v)
    BY <1>3 DEF IsStub
  <2>2. At(s, k, i) # Hop(k0)
    BY <1>2, <2>1
  <2> QED
    BY <1>1, <2>1, <2>2 DEF IsStub
<1>4. ASSUME NEW k \in Nat, NEW i \in Nat, NEW v \in Versions, NEW q \in Nat, IsOp(s, k, i, v, q)
      PROVE  \/ IsOp(n, k, i, v, q)
             \/ k = k0 /\ i = i0 /\ cell[1] = "op" /\ cell[2] = v /\ cell[3] = q
  <2>1. Place(s, k, i) /\ At(s, k, i)[1] = "op"
    BY <1>4 DEF IsOp
  <2>2. At(s, k, i) # Hop(k0)
    BY <1>2, <2>1
  <2>3. CASE Place(n, k, i) /\ At(s, k, i) = At(n, k, i)
    BY <1>4, <2>3 DEF IsOp
  <2>4. CASE k = k0 /\ i = i0 /\ At(s, k, i) = cell
    BY <1>4, <2>4 DEF IsOp
  <2> QED
    BY <1>1, <2>1, <2>2, <2>3, <2>4
<1> QED
  BY <1>3, <1>4 DEF Appears

\* The chunk that is laid into stays open, and the other open chunk is as it was.
LEMMA LaidRoom ==
  ASSUME NEW n \in ImageSet, NEW s \in ImageSet, NEW cur, NEW cell, NEW k0 \in Nat, NEW i0 \in Nat,
         Roomy(n, cur), Laid(n, s, cur, cell, k0, i0),
         NEW o, Roomy(n, o), o # 0 => o # cur
  PROVE  /\ Roomy(s, k0) /\ Roomy(s, o) /\ k0 # 0 /\ o # k0
         /\ o # 0 => Fill(s, o) = Fill(n, o)
         /\ (\A k \in Chunks(n) : Fill(n, k) <= Page) => \A k \in Chunks(s) : Fill(s, k) <= Page
<1>1. /\ k0 # 0 /\ Place(s, k0, i0) /\ ~Sealed(s, k0) /\ i0 = Fill(s, k0) /\ i0 \in 1 .. Page - 1
      /\ k0 = cur \/ k0 \notin Chunks(n)
      /\ \A k \in Chunks(n) : /\ k \in Chunks(s) /\ Sealed(s, k) = Sealed(n, k)
                              /\ k # cur => Fill(s, k) = Fill(n, k)
  BY DEF Laid
<1>2. Roomy(s, k0)
  BY <1>1, PageAssumption DEF Roomy, Place
<1>3. Roomy(s, o) /\ o # k0 /\ (o # 0 => Fill(s, o) = Fill(n, o))
  BY <1>1 DEF Roomy
<1> QED
  BY <1>1, <1>2, <1>3 DEF Laid

-----------------------------------------------------------------------------
(* The stub of a version. *)

\* A new stub: the body being built stays the current chunk.
Stubbed(n, r, v, k0, i0) ==
  /\ r \in ImageSet
  /\ Laid(n, r, n.stubs, Stub(v), k0, i0)
  /\ r.stubs = k0 /\ r.current = n.current
  /\ r.entry = [n.entry EXCEPT ![v] = <<k0, i0>>] /\ r.known = n.known \cup {v}
  /\ r.body = n.body /\ r.fixups = n.fixups /\ r.writable = n.writable /\ r.failed = n.failed

LEMMA StubEffect ==
  ASSUME NEW n \in ImageSet, RoomInv(n), ~n.failed, NEW v \in Versions \ n.known,
         NEW r, r = VersionFor(n, v)
  PROVE  \E k0, i0 \in Nat : Stubbed(n, r, v, k0, i0)
<1>1. Roomy(n, n.stubs) /\ n.stubs \in Nat
  BY DEF RoomInv, Roomy, ImageSet
<1>2. PICK m : m = [n EXCEPT !.current = n.stubs]
  OBVIOUS
<1>3. m \in ImageSet
  BY <1>1, <1>2 DEF ImageSet
<1>4. m.current = n.stubs /\ m.chunks = n.chunks /\ Kept(n, m)
  BY <1>1, <1>2 DEF ImageSet, Kept
<1>5. Roomy(m, m.current)
  BY <1>1, <1>4 DEF Roomy, Chunks, Sealed, Fill
<1>6. PICK cell \in CellSet : cell = Stub(v)
  BY DEF CellSet
<1>7. PICK s : s = Space(m, 1)
  OBVIOUS
<1>8. PICK w : w = Put(s, cell)
  OBVIOUS
<1>9. PICK k0 \in Nat, i0 \in Nat : Here(s) = <<k0, i0>> /\ s.current = k0 /\ LaidAt(m, w, cell, k0, i0)
  BY <1>3, <1>5, <1>6, <1>7, <1>8, Laying
<1>10. /\ w \in ImageSet /\ Kept(m, w) /\ Laid(m, w, n.stubs, cell, k0, i0)
  BY <1>4, <1>9 DEF LaidAt
<1>11. r = [[w EXCEPT !.entry[v] = <<k0, i0>>, !.stubs = k0, !.current = n.current]
                EXCEPT !.known = @ \cup {v}]
  BY <1>2, <1>6, <1>7, <1>8, <1>9 DEF VersionFor, LazyEntry
<1>12. PICK entry \in [Versions -> Addresses] : entry = [n.entry EXCEPT ![v] = <<k0, i0>>]
  BY DEF ImageSet, Addresses
<1>13. w.entry = n.entry /\ w.known = n.known /\ n.current \in Nat /\ Kept(n, w)
  BY <1>4, <1>10 DEF Kept, ImageSet
<1>14. PICK known \in SUBSET Versions : known = n.known \cup {v}
  BY DEF ImageSet
<1>15. r = [w EXCEPT !.entry = entry, !.stubs = k0, !.current = n.current, !.known = known]
  BY <1>10, <1>11, <1>12, <1>13, <1>14 DEF ImageSet
<1>16. PICK c \in Nat : c = n.current
  BY <1>13
<1>17. /\ r \in ImageSet /\ r.chunks = w.chunks
       /\ r.entry = entry /\ r.stubs = k0 /\ r.current = c /\ r.known = known
       /\ r.body = w.body /\ r.fixups = w.fixups /\ r.writable = w.writable /\ r.failed = w.failed
  BY <1>10, <1>15, <1>16 DEF ImageSet
<1>18. Laid(n, r, n.stubs, cell, k0, i0)
  BY <1>4, <1>10, <1>17 DEF Laid, Chunks, Sealed, Fill, At, Place
<1> QED
  BY <1>6, <1>12, <1>13, <1>14, <1>16, <1>17, <1>18 DEF Stubbed, Kept

LEMMA StubbedKeeps ==
  ASSUME NEW n \in ImageSet, RoomInv(n), StubInv(n), ~n.failed, NEW v \in Versions \ n.known,
         NEW r, NEW k0 \in Nat, NEW i0 \in Nat, Stubbed(n, r, v, k0, i0)
  PROVE  Keeps(n, r, Versions)
<1>1. Roomy(n, n.stubs)
  BY DEF RoomInv, Roomy, ImageSet
<1>2. Laid(n, r, n.stubs, Stub(v), k0, i0)
  BY DEF Stubbed
<1>3. Shows(n, r) /\ Fixed(n, r)
  BY <1>1, <1>2, LaidShows
<1>4. PICK cell : cell = Stub(v)
  OBVIOUS
<1>5. Appears(n, r, cell, k0, i0)
  BY <1>2, <1>4, LaidAppears
<1>6. cell[1] # "op"
  BY <1>4 DEF Stub
<1>7. Untouched(n, r, Versions)
  BY <1>5, <1>6 DEF Untouched, Appears, Stubbed
<1>8. SameEntries(n, r)
  BY DEF SameEntries, Stubbed, ImageSet
<1> QED
  BY <1>3, <1>7, <1>8 DEF Keeps

\* The open chunks can take a jump each, and they are two.
LEMMA RoomOpen ==
  ASSUME NEW n \in ImageSet
  PROVE  RoomInv(n) <=>
           /\ \A k \in Chunks(n) : Fill(n, k) <= Page
           /\ ~n.failed => /\ Roomy(n, n.current) /\ Roomy(n, n.stubs)
                           /\ n.current # 0 => n.current # n.stubs
BY DEF RoomInv, Roomy

LEMMA StubbedRoom ==
  ASSUME NEW n \in ImageSet, RoomInv(n), ~n.failed, NEW v \in Versions \ n.known,
         NEW r, NEW k0 \in Nat, NEW i0 \in Nat, Stubbed(n, r, v, k0, i0)
  PROVE  /\ RoomInv(r)
         /\ n.current # 0 => Fill(r, n.current) = Fill(n, n.current)
<1>1. PICK o : o = n.current
  OBVIOUS
<1>2. PICK cur : cur = n.stubs
  OBVIOUS
<1>3. /\ Roomy(n, o) /\ Roomy(n, cur) /\ (o # 0 => o # cur)
      /\ \A k \in Chunks(n) : Fill(n, k) <= Page
  BY <1>1, <1>2, RoomOpen
<1>4. r \in ImageSet /\ Laid(n, r, cur, Stub(v), k0, i0) /\ r.stubs = k0 /\ r.current = o
  BY <1>1, <1>2 DEF Stubbed
<1>5. /\ Roomy(r, k0) /\ Roomy(r, o) /\ k0 # 0 /\ o # k0
      /\ o # 0 => Fill(r, o) = Fill(n, o)
      /\ \A k \in Chunks(r) : Fill(r, k) <= Page
  <2>1. r \in ImageSet
    BY <1>4
  <2>2. Laid(n, r, cur, Stub(v), k0, i0)
    BY <1>4
  <2>3. Roomy(n, o) /\ Roomy(n, cur)
    BY <1>3
  <2>4. o # 0 => o # cur
    BY <1>3
  <2>5. /\ Roomy(r, k0) /\ Roomy(r, o) /\ k0 # 0 /\ o # k0
        /\ o # 0 => Fill(r, o) = Fill(n, o)
        /\ (\A k \in Chunks(n) : Fill(n, k) <= Page) => \A k \in Chunks(r) : Fill(r, k) <= Page
    BY <2>1, <2>2, <2>3, <2>4, LaidRoom
  <2> QED
    BY <1>3, <2>5
<1> QED
  BY <1>1, <1>4, <1>5, RoomOpen

LEMMA StubbedStubs ==
  ASSUME NEW n \in ImageSet, RoomInv(n), StubInv(n), ~n.failed, NEW v \in Versions \ n.known,
         NEW r, NEW k0 \in Nat, NEW i0 \in Nat, Stubbed(n, r, v, k0, i0)
  PROVE  StubInv(r)
<1>1. /\ n.entry \in [Versions -> Addresses] /\ n.known \subseteq Versions
      /\ r.entry = [n.entry EXCEPT ![v] = <<k0, i0>>] /\ r.known = n.known \cup {v}
  BY DEF Stubbed, ImageSet
<1>2. r.entry[v] = <<k0, i0>> /\ \A u \in Versions \ {v} : r.entry[u] = n.entry[u]
  BY <1>1
<1>3. Laid(n, r, n.stubs, Stub(v), k0, i0)
  BY DEF Stubbed
<1>4. k0 # 0 /\ IsStub(r, k0, i0, v)
  BY <1>3 DEF Laid, IsStub
<1>5. \A u \in Versions : u \notin r.known <=> r.entry[u] = Nowhere
  BY <1>1, <1>2, <1>4 DEF StubInv, Nowhere
<1>6. Shows(n, r)
  BY StubbedKeeps DEF Keeps
<1>7. ASSUME NEW u \in r.known
      PROVE  IsStub(r, r.entry[u][1], r.entry[u][2], u)
  <2>1. CASE u = v
    BY <1>2, <1>4, <2>1
  <2>2. CASE u # v
    <3>1. u \in n.known /\ u \in Versions /\ r.entry[u] = n.entry[u]
      BY <1>1, <1>2, <1>7, <2>2
    <3>2. n.entry[u][1] \in Nat /\ n.entry[u][2] \in Nat
      BY <1>1, <3>1 DEF Addresses
    <3>3. IsStub(n, n.entry[u][1], n.entry[u][2], u)
      BY <3>1 DEF StubInv
    <3> QED
      BY <1>6, <3>1, <3>2, <3>3 DEF Shows
  <2> QED
    BY <2>1, <2>2
<1>8. PICK cell : cell = Stub(v)
  OBVIOUS
<1>9. Appears(n, r, cell, k0, i0)
  BY <1>3, <1>8, LaidAppears
<1>10. ASSUME NEW k \in Nat, NEW i \in Nat, NEW u \in Versions, IsStub(r, k, i, u)
       PROVE  r.entry[u] = <<k, i>>
  <2>1. IsStub(n, k, i, u) \/ (k = k0 /\ i = i0 /\ Stub(v) = Stub(u))
    BY <1>8, <1>9, <1>10 DEF Appears
  <2>2. ~IsStub(n, k, i, v)
    <3>1. SUFFICES ASSUME IsStub(n, k, i, v) PROVE FALSE
      OBVIOUS
    <3>2. n.entry[v] = <<k, i>>
      BY <3>1 DEF StubInv
    <3>3. n.entry[v] = Nowhere
      BY DEF StubInv
    <3>4. k # 0
      BY <3>1 DEF IsStub, Place, Chunks
    <3> QED
      BY <3>2, <3>3, <3>4 DEF Nowhere
  <2>3. Stub(v) = Stub(u) => v = u
    BY DEF Stub
  <2>4. CASE u = v
    BY <1>2, <2>1, <2>2, <2>4
  <2>5. CASE u # v
    BY <1>2, <2>1, <2>3, <2>5 DEF StubInv
  <2> QED
    BY <2>4, <2>5
<1> QED
  BY <1>5, <1>7, <1>10 DEF StubInv

\* The operations are those there were, in chunks sealed or not as before.
SameOps(n, s) ==
  \A k, i, q \in Nat, v \in Versions :
    /\ IsOp(s, k, i, v, q) <=> IsOp(n, k, i, v, q)
    /\ IsOp(n, k, i, v, q) => Sealed(s, k) = Sealed(n, k)

LEMMA StubbedOps ==
  ASSUME NEW n \in ImageSet, RoomInv(n), StubInv(n), ~n.failed, NEW v \in Versions \ n.known,
         NEW r, NEW k0 \in Nat, NEW i0 \in Nat, Stubbed(n, r, v, k0, i0)
  PROVE  SameOps(n, r)
<1>1. Keeps(n, r, Versions)
  BY StubbedKeeps
<1>2. \A k \in Chunks(n) : Sealed(r, k) = Sealed(n, k)
  BY DEF Stubbed, Laid
<1>3. \A k, i, q \in Nat, u \in Versions : IsOp(n, k, i, u, q) => k \in Chunks(n)
  BY DEF IsOp, Place
<1>4. \A k, i, q \in Nat, u \in Versions : IsOp(r, k, i, u, q) <=> IsOp(n, k, i, u, q)
  BY <1>1 DEF Keeps, Shows, Untouched
<1> QED
  BY <1>2, <1>3, <1>4 DEF SameOps

LEMMA SameOpsInv ==
  ASSUME NEW n, NEW s, SameOps(n, s), OpInv(n)
  PROVE  OpInv(s)
BY DEF SameOps, OpInv

LEMMA StubbedInv ==
  ASSUME NEW n \in ImageSet, ImageInv(n), ~n.failed, NEW v \in Versions \ n.known,
         NEW r, NEW k0 \in Nat, NEW i0 \in Nat, Stubbed(n, r, v, k0, i0)
  PROVE  ImageInv(r)
<1>1. RoomInv(n) /\ StubInv(n) /\ FixupInv(n) /\ OpInv(n)
  BY DEF ImageInv
<1>2. RoomInv(r) /\ StubInv(r) /\ SameOps(n, r)
  BY <1>1, StubbedRoom, StubbedStubs, StubbedOps
<1>3. OpInv(r)
  BY <1>1, <1>2, SameOpsInv
<1>4. r.fixups = n.fixups /\ r.failed = n.failed /\ r.known = n.known \cup {v}
      /\ n.fixups \subseteq FixupSet
  BY DEF Stubbed, ImageSet
<1>5. ASSUME NEW f \in r.fixups
      PROVE  /\ f.to \in r.known
             /\ ~Sealed(r, f.at[1])
             /\ \E u \in Versions, q \in Nat :
                   IsOp(r, f.at[1], f.at[2], u, q) /\ IsTarget(u, q) /\ f.to = Code[u][q]
  <2>1. /\ f.to \in n.known /\ ~Sealed(n, f.at[1])
        /\ \E u \in Versions, q \in Nat :
              IsOp(n, f.at[1], f.at[2], u, q) /\ IsTarget(u, q) /\ f.to = Code[u][q]
    BY <1>1, <1>4, <1>5 DEF FixupInv
  <2>2. f.at[1] \in Nat /\ f.at[2] \in Nat
    BY <1>4, <1>5 DEF FixupSet, Addresses
  <2>3. PICK u \in Versions, q \in Nat :
              IsOp(n, f.at[1], f.at[2], u, q) /\ IsTarget(u, q) /\ f.to = Code[u][q]
    BY <2>1
  <2>4. IsOp(r, f.at[1], f.at[2], u, q) /\ ~Sealed(r, f.at[1])
    BY <1>2, <2>1, <2>2, <2>3 DEF SameOps
  <2> QED
    BY <1>4, <2>1, <2>3, <2>4
<1>6. ASSUME NEW k \in Nat, NEW i \in Nat, NEW q \in Nat, NEW u \in Versions,
             IsOp(r, k, i, u, q), IsTarget(u, q), ~Sealed(r, k), ~r.failed
      PROVE  [at |-> <<k, i>>, to |-> Code[u][q]] \in r.fixups
  BY <1>1, <1>2, <1>4, <1>6 DEF SameOps, FixupInv
<1>7. FixupInv(r)
  BY <1>5, <1>6 DEF FixupInv
<1> QED
  BY <1>2, <1>3, <1>7 DEF ImageInv

\* A version's stub is there: it was, or it has been made.
Made(n, r, v) ==
  /\ r \in ImageSet /\ ImageInv(r) /\ Keeps(n, r, Versions) /\ SameOps(n, r)
  /\ r.known = n.known \cup {v} /\ r.fixups = n.fixups /\ r.body = n.body /\ r.failed = n.failed
  /\ r.current = n.current /\ (n.current # 0 => Fill(r, n.current) = Fill(n, n.current))
  /\ \A k \in Chunks(r) : Sealed(r, k) => k \in Chunks(n) /\ Sealed(n, k)

LEMMA VersionMade ==
  ASSUME NEW n \in ImageSet, ImageInv(n), ~n.failed, NEW v \in Versions, NEW r, r = VersionFor(n, v)
  PROVE  Made(n, r, v)
<1>1. RoomInv(n) /\ StubInv(n)
  BY DEF ImageInv
<1>2. CASE v \in n.known
  <2>1. r = n
    BY <1>2 DEF VersionFor
  <2>2. Keeps(n, r, Versions) /\ SameOps(n, r)
    BY <2>1 DEF Keeps, Shows, Fixed, Untouched, SameEntries, SameOps
  <2> QED
    BY <1>2, <2>1, <2>2 DEF Made
<1>3. CASE v \notin n.known
  <2>1. PICK k0 \in Nat, i0 \in Nat : Stubbed(n, r, v, k0, i0)
    BY <1>1, <1>3, StubEffect
  <2>2. Keeps(n, r, Versions) /\ SameOps(n, r) /\ ImageInv(r)
    BY <1>1, <1>3, <2>1, StubbedKeeps, StubbedOps, StubbedInv
  <2>3. n.current # 0 => Fill(r, n.current) = Fill(n, n.current)
    BY <1>1, <1>3, <2>1, StubbedRoom
  <2>4. \A k \in Chunks(r) : Sealed(r, k) => k \in Chunks(n) /\ Sealed(n, k)
    <3>1. Laid(n, r, n.stubs, Stub(v), k0, i0)
      BY <2>1 DEF Stubbed
    <3>2. /\ \A k \in Chunks(n) : Sealed(r, k) = Sealed(n, k)
          /\ \A k \in Chunks(r) : k \in Chunks(n) \/ k = k0
          /\ ~Sealed(r, k0)
      BY <3>1 DEF Laid
    <3> QED
      BY <3>2
  <2> QED
    BY <2>1, <2>2, <2>3, <2>4 DEF Made, Stubbed
<1> QED
  BY <1>2, <1>3

-----------------------------------------------------------------------------
(* An operation of a version. *)

Emitted(n, e, v, i, k0, i0) ==
  /\ e \in ImageSet
  /\ Laid(n, e, n.current, Op(v, i, Nowhere), k0, i0)
  /\ e.current = k0 /\ e.stubs = n.stubs /\ e.entry = n.entry /\ e.known = n.known
  /\ e.body = n.body /\ e.writable = n.writable /\ e.failed = n.failed
  /\ e.fixups = n.fixups \cup (IF IsTarget(v, i) THEN {[at |-> <<k0, i0>>, to |-> Code[v][i]]} ELSE {})

LEMMA LaidSame ==
  ASSUME NEW n, NEW s, NEW e, e.chunks = s.chunks,
         NEW cur, NEW cell, NEW k0, NEW i0, Laid(n, s, cur, cell, k0, i0)
  PROVE  Laid(n, e, cur, cell, k0, i0)
<1>1. Chunks(e) = Chunks(s) /\ \A k : Sealed(e, k) = Sealed(s, k) /\ Fill(e, k) = Fill(s, k)
                                 /\ \A i : At(e, k, i) = At(s, k, i)
  BY DEF Chunks, Sealed, Fill, At
<1>2. \A k, i : Place(e, k, i) <=> Place(s, k, i)
  BY <1>1 DEF Place
<1> QED
  BY <1>1, <1>2 DEF Laid

LEMMA EmitEffect ==
  ASSUME NEW n \in ImageSet, RoomInv(n), ~n.failed, NEW v \in Versions, NEW i \in Nat,
         NEW r, r = IF IsTarget(v, i) THEN VersionFor(n, Code[v][i]) ELSE n,
         r \in ImageSet, RoomInv(r), ~r.failed,
         NEW e, e = Emit(n, v, i)
  PROVE  \E k0, i0 \in Nat : Emitted(r, e, v, i, k0, i0)
<1>1. Roomy(r, r.current)
  BY DEF RoomInv, Roomy
<1>2. Nowhere \in Addresses
  BY DEF Nowhere, Addresses
<1>3. PICK cell \in CellSet : cell = Op(v, i, Nowhere)
  BY <1>2 DEF CellSet
<1>4. PICK s : s = Space(r, 1)
  OBVIOUS
<1>5. PICK w : w = Put(s, cell)
  OBVIOUS
<1>6. PICK k0 \in Nat, i0 \in Nat : Here(s) = <<k0, i0>> /\ s.current = k0 /\ LaidAt(r, w, cell, k0, i0)
  BY <1>1, <1>3, <1>4, <1>5, Laying
<1>7. w \in ImageSet /\ Kept(r, w) /\ w.current = k0 /\ Laid(r, w, r.current, cell, k0, i0)
  BY <1>6 DEF LaidAt
<1>8. PICK fs : fs = IF IsTarget(v, i) THEN w.fixups \cup {[at |-> <<k0, i0>>, to |-> Code[v][i]]}
                     ELSE w.fixups
  OBVIOUS
<1>9. fs \in SUBSET FixupSet
  <2>1. w.fixups \in SUBSET FixupSet
    BY <1>7 DEF ImageSet
  <2>2. IsTarget(v, i) => [at |-> <<k0, i0>>, to |-> Code[v][i]] \in FixupSet
    BY DEF FixupSet, Addresses, IsTarget
  <2> QED
    BY <1>8, <2>1, <2>2
<1>10. e = [w EXCEPT !.fixups = fs]
  <2>1. e = [w EXCEPT !.fixups = IF IsTarget(v, i) THEN @ \cup {Fixup(Here(s), v, i)} ELSE @]
    BY <1>3, <1>4, <1>5 DEF Emit
  <2> QED
    BY <1>6, <1>7, <1>8, <2>1 DEF Fixup, ImageSet
<1>11. /\ e \in ImageSet /\ e.chunks = w.chunks /\ e.fixups = fs /\ e.current = w.current
       /\ e.stubs = w.stubs /\ e.entry = w.entry /\ e.known = w.known
       /\ e.body = w.body /\ e.writable = w.writable /\ e.failed = w.failed
  BY <1>7, <1>9, <1>10 DEF ImageSet
<1>12. Laid(r, e, r.current, cell, k0, i0)
  <2>1. e.chunks = w.chunks /\ Laid(r, w, r.current, cell, k0, i0)
    BY <1>7, <1>11
  <2> QED
    BY <2>1, LaidSame
<1>13. e.fixups = r.fixups \cup (IF IsTarget(v, i) THEN {[at |-> <<k0, i0>>, to |-> Code[v][i]]} ELSE {})
  BY <1>7, <1>8, <1>11 DEF Kept
<1> QED
  BY <1>3, <1>7, <1>11, <1>12, <1>13 DEF Emitted, Kept

LEMMA EmittedKeeps ==
  ASSUME NEW n \in ImageSet, RoomInv(n), ~n.failed, NEW v \in Versions, NEW i \in Nat,
         NEW e, NEW k0 \in Nat, NEW i0 \in Nat, Emitted(n, e, v, i, k0, i0)
  PROVE  Keeps(n, e, Versions \ {v})
<1>1. Roomy(n, n.current)
  BY DEF RoomInv, Roomy
<1>2. Laid(n, e, n.current, Op(v, i, Nowhere), k0, i0)
  BY DEF Emitted
<1>3. Shows(n, e) /\ Fixed(n, e)
  BY <1>1, <1>2, LaidShows
<1>4. PICK cell : cell = Op(v, i, Nowhere)
  OBVIOUS
<1>5. Appears(n, e, cell, k0, i0)
  BY <1>2, <1>4, LaidAppears
<1>6. cell[2] = v
  BY <1>4 DEF Op
<1>7. Untouched(n, e, Versions \ {v})
  BY <1>5, <1>6 DEF Untouched, Appears, Emitted
<1>8. SameEntries(n, e)
  BY DEF SameEntries, Emitted
<1> QED
  BY <1>3, <1>7, <1>8 DEF Keeps

LEMMA EmittedStubs ==
  ASSUME NEW n \in ImageSet, RoomInv(n), StubInv(n), ~n.failed, NEW v \in Versions, NEW i \in Nat,
         NEW e, NEW k0 \in Nat, NEW i0 \in Nat, Emitted(n, e, v, i, k0, i0)
  PROVE  StubInv(e)
<1>1. n.entry \in [Versions -> Addresses] /\ n.known \subseteq Versions
      /\ e.entry = n.entry /\ e.known = n.known
  BY DEF Emitted, ImageSet
<1>2. Shows(n, e)
  BY EmittedKeeps DEF Keeps
<1>3. PICK cell : cell = Op(v, i, Nowhere)
  OBVIOUS
<1>4. Appears(n, e, cell, k0, i0)
  BY <1>3, LaidAppears DEF Emitted
<1>5. \A u : cell # Stub(u)
  BY <1>3 DEF Op, Stub
<1>6. \A u \in Versions : u \notin e.known <=> e.entry[u] = Nowhere
  BY <1>1 DEF StubInv
<1>7. ASSUME NEW u \in e.known
      PROVE  IsStub(e, e.entry[u][1], e.entry[u][2], u)
  <2>1. u \in Versions /\ n.entry[u][1] \in Nat /\ n.entry[u][2] \in Nat
    BY <1>1, <1>7 DEF Addresses
  <2> QED
    BY <1>1, <1>2, <1>7, <2>1 DEF StubInv, Shows
<1>8. \A k, j \in Nat, u \in Versions : IsStub(e, k, j, u) => e.entry[u] = <<k, j>>
  BY <1>1, <1>4, <1>5 DEF StubInv, Appears
<1> QED
  BY <1>6, <1>7, <1>8 DEF StubInv

LEMMA EmittedRoom ==
  ASSUME NEW n \in ImageSet, RoomInv(n), ~n.failed, NEW v \in Versions, NEW i \in Nat,
         NEW e, NEW k0 \in Nat, NEW i0 \in Nat, Emitted(n, e, v, i, k0, i0)
  PROVE  RoomInv(e) /\ k0 # 0
<1>1. PICK o : o = n.stubs
  OBVIOUS
<1>2. PICK cur : cur = n.current
  OBVIOUS
<1>3. PICK cell : cell = Op(v, i, Nowhere)
  OBVIOUS
<1>4. /\ Roomy(n, o) /\ Roomy(n, cur) /\ (o # 0 => o # cur)
      /\ \A k \in Chunks(n) : Fill(n, k) <= Page
  BY <1>1, <1>2, RoomOpen
<1>5. e \in ImageSet /\ Laid(n, e, cur, cell, k0, i0) /\ e.stubs = o /\ e.current = k0
  BY <1>1, <1>2, <1>3 DEF Emitted
<1>6. /\ Roomy(e, k0) /\ Roomy(e, o) /\ k0 # 0 /\ o # k0
      /\ \A k \in Chunks(e) : Fill(e, k) <= Page
  <2>1. e \in ImageSet
    BY <1>5
  <2>2. Laid(n, e, cur, cell, k0, i0)
    BY <1>5
  <2>3. Roomy(n, o) /\ Roomy(n, cur)
    BY <1>4
  <2>4. o # 0 => o # cur
    BY <1>4
  <2>5. /\ Roomy(e, k0) /\ Roomy(e, o) /\ k0 # 0 /\ o # k0
        /\ (\A k \in Chunks(n) : Fill(n, k) <= Page) => \A k \in Chunks(e) : Fill(e, k) <= Page
    BY <2>1, <2>2, <2>3, <2>4, LaidRoom
  <2> QED
    BY <1>4, <2>5
<1> QED
  BY <1>5, <1>6, RoomOpen

\* The operation is placed; the other operations are those there were.
OneMore(n, e, v, i, k0, i0) ==
  /\ IsOp(e, k0, i0, v, i) /\ ~Sealed(e, k0) /\ i0 = Fill(e, k0)
  /\ \A k, j, q \in Nat, u \in Versions :
       /\ IsOp(n, k, j, u, q) => IsOp(e, k, j, u, q) /\ Sealed(e, k) = Sealed(n, k)
       /\ IsOp(e, k, j, u, q) => IsOp(n, k, j, u, q) \/ (k = k0 /\ j = i0 /\ u = v /\ q = i)

LEMMA EmittedOps ==
  ASSUME NEW n \in ImageSet, RoomInv(n), ~n.failed, NEW v \in Versions, NEW i \in Nat,
         NEW e, NEW k0 \in Nat, NEW i0 \in Nat, Emitted(n, e, v, i, k0, i0)
  PROVE  OneMore(n, e, v, i, k0, i0)
<1>1. PICK cell : cell = Op(v, i, Nowhere)
  OBVIOUS
<1>2. cell[1] = "op" /\ cell[2] = v /\ cell[3] = i
  BY <1>1 DEF Op
<1>3. Laid(n, e, n.current, cell, k0, i0)
  BY <1>1 DEF Emitted
<1>4. /\ Place(e, k0, i0) /\ At(e, k0, i0) = cell /\ ~Sealed(e, k0) /\ i0 = Fill(e, k0)
      /\ \A k \in Chunks(n) : Sealed(e, k) = Sealed(n, k)
  BY <1>3 DEF Laid
<1>5. IsOp(e, k0, i0, v, i)
  BY <1>2, <1>4 DEF IsOp
<1>6. Shows(n, e)
  BY EmittedKeeps DEF Keeps
<1>7. Appears(n, e, cell, k0, i0)
  BY <1>3, LaidAppears
<1>8. \A k, j, q \in Nat, u \in Versions : IsOp(n, k, j, u, q) => k \in Chunks(n)
  BY DEF IsOp, Place
<1>9. \A k, j, q \in Nat, u \in Versions :
         IsOp(n, k, j, u, q) => IsOp(e, k, j, u, q) /\ Sealed(e, k) = Sealed(n, k)
  BY <1>4, <1>6, <1>8 DEF Shows
<1>10. \A k, j, q \in Nat, u \in Versions :
         IsOp(e, k, j, u, q) => IsOp(n, k, j, u, q) \/ (k = k0 /\ j = i0 /\ u = v /\ q = i)
  BY <1>2, <1>7 DEF Appears
<1> QED
  BY <1>4, <1>5, <1>9, <1>10 DEF OneMore

LEMMA EmittedFixups ==
  ASSUME NEW n \in ImageSet, RoomInv(n), FixupInv(n), ~n.failed, NEW v \in Versions, NEW i \in Nat,
         IsTarget(v, i) => Code[v][i] \in n.known,
         NEW e, NEW k0 \in Nat, NEW i0 \in Nat, Emitted(n, e, v, i, k0, i0)
  PROVE  FixupInv(e)
<1>1. /\ IsOp(e, k0, i0, v, i) /\ ~Sealed(e, k0)
      /\ \A k, j, q \in Nat, u \in Versions :
           /\ IsOp(n, k, j, u, q) => IsOp(e, k, j, u, q) /\ Sealed(e, k) = Sealed(n, k)
           /\ IsOp(e, k, j, u, q) =>
                IsOp(n, k, j, u, q) \/ (k = k0 /\ j = i0 /\ u = v /\ q = i)
  <2>1. OneMore(n, e, v, i, k0, i0)
    BY EmittedOps
  <2> QED
    BY <2>1 DEF OneMore
<1>2. /\ e.fixups = n.fixups \cup (IF IsTarget(v, i) THEN {[at |-> <<k0, i0>>, to |-> Code[v][i]]} ELSE {})
      /\ e.known = n.known /\ e.failed = n.failed /\ n.fixups \subseteq FixupSet
  BY DEF Emitted, ImageSet
<1>3. ASSUME NEW f \in e.fixups
      PROVE  /\ f.to \in e.known
             /\ ~Sealed(e, f.at[1])
             /\ \E u \in Versions, q \in Nat :
                   IsOp(e, f.at[1], f.at[2], u, q) /\ IsTarget(u, q) /\ f.to = Code[u][q]
  <2>1. CASE f \in n.fixups
    <3>1. f.to \in n.known /\ ~Sealed(n, f.at[1])
      BY <2>1 DEF FixupInv
    <3>2. f.at[1] \in Nat /\ f.at[2] \in Nat
      BY <1>2, <2>1 DEF FixupSet, Addresses
    <3>3. PICK u \in Versions, q \in Nat :
                IsOp(n, f.at[1], f.at[2], u, q) /\ IsTarget(u, q) /\ f.to = Code[u][q]
      BY <2>1 DEF FixupInv
    <3>4. IsOp(e, f.at[1], f.at[2], u, q) /\ ~Sealed(e, f.at[1])
      BY <1>1, <3>1, <3>2, <3>3
    <3> QED
      BY <1>2, <3>1, <3>3, <3>4
  <2>2. CASE IsTarget(v, i) /\ f = [at |-> <<k0, i0>>, to |-> Code[v][i]]
    <3>1. f.at[1] = k0 /\ f.at[2] = i0 /\ f.to = Code[v][i]
      BY <2>2
    <3> QED
      BY <1>1, <1>2, <2>2, <3>1
  <2> QED
    BY <1>2, <1>3, <2>1, <2>2
<1>4. ASSUME NEW k \in Nat, NEW j \in Nat, NEW q \in Nat, NEW u \in Versions,
             IsOp(e, k, j, u, q), IsTarget(u, q), ~Sealed(e, k), ~e.failed
      PROVE  [at |-> <<k, j>>, to |-> Code[u][q]] \in e.fixups
  <2>1. CASE IsOp(n, k, j, u, q)
    <3>1. ~Sealed(n, k)
      BY <1>1, <1>4, <2>1
    <3>2. [at |-> <<k, j>>, to |-> Code[u][q]] \in n.fixups
      BY <1>2, <1>4, <2>1, <3>1 DEF FixupInv
    <3> QED
      BY <1>2, <3>2
  <2>2. CASE k = k0 /\ j = i0 /\ u = v /\ q = i
    BY <1>2, <1>4, <2>2
  <2> QED
    BY <1>1, <1>4, <2>1, <2>2
<1> QED
  BY <1>3, <1>4 DEF FixupInv

\* Two operations of a version leave the next one to be placed.
LEMMA EmittedOnce ==
  ASSUME NEW n \in ImageSet, RoomInv(n), OpInv(n), ~n.failed, NEW v \in Versions,
         NEW i \in 1 .. Len(Code[v]), Placed(n, v, i - 1),
         NEW e, NEW k0 \in Nat, NEW i0 \in Nat, Emitted(n, e, v, i, k0, i0)
  PROVE  OpInv(e)
<1>1. i \in Nat /\ i # 0
  BY CodeAssumption
<1>2. /\ IsOp(e, k0, i0, v, i)
      /\ \A k, j, q \in Nat, u \in Versions :
           /\ IsOp(n, k, j, u, q) => IsOp(e, k, j, u, q)
           /\ IsOp(e, k, j, u, q) =>
                IsOp(n, k, j, u, q) \/ (k = k0 /\ j = i0 /\ u = v /\ q = i)
  <2>1. OneMore(n, e, v, i, k0, i0)
    BY <1>1, EmittedOps
  <2> QED
    BY <2>1 DEF OneMore
<1>3. \A k, j \in Nat : ~IsOp(n, k, j, v, i)
  <2>1. \A k, j \in Nat : IsOp(n, k, j, v, i) => i <= i - 1
    BY <1>1 DEF Placed
  <2> QED
    BY <1>1, <2>1
<1>4. ASSUME NEW k \in Nat, NEW j \in Nat, NEW q \in Nat, NEW u \in Versions, IsOp(e, k, j, u, q)
      PROVE  q \in 1 .. Len(Code[u]) /\ \A l, h \in Nat : IsOp(e, l, h, u, q) => k = l /\ j = h
  <2>1. CASE u = v /\ q = i
    BY <1>2, <1>3, <1>4, <2>1
  <2>2. CASE ~(u = v /\ q = i)
    BY <1>2, <1>4, <2>2 DEF OpInv
  <2> QED
    BY <2>1, <2>2
<1> QED
  BY <1>4 DEF OpInv

LEMMA EmittedPlaced ==
  ASSUME NEW n \in ImageSet, RoomInv(n), OpInv(n), ~n.failed, NEW v \in Versions,
         NEW i \in 1 .. Len(Code[v]), Placed(n, v, i - 1), Latest(n, v, i - 1),
         NEW e, NEW k0 \in Nat, NEW i0 \in Nat, Emitted(n, e, v, i, k0, i0)
  PROVE  Placed(e, v, i) /\ Latest(e, v, i)
<1>1. i \in Nat /\ i # 0 /\ i - 1 \in Nat
  BY CodeAssumption
<1>2. /\ IsOp(e, k0, i0, v, i) /\ i0 = Fill(e, k0)
      /\ \A k, j, q \in Nat, u \in Versions :
           /\ IsOp(n, k, j, u, q) => IsOp(e, k, j, u, q)
           /\ IsOp(e, k, j, u, q) =>
                IsOp(n, k, j, u, q) \/ (k = k0 /\ j = i0 /\ u = v /\ q = i)
  <2>1. OneMore(n, e, v, i, k0, i0)
    BY <1>1, EmittedOps
  <2> QED
    BY <2>1 DEF OneMore
<1>3. Shows(n, e)
  BY <1>1, EmittedKeeps DEF Keeps
<1>4. PICK cur : cur = n.current
  OBVIOUS
<1>5. cur \in Chunks(n) /\ cur \in Nat /\ cur # 0 /\ Fill(n, cur) \in Nat
  <2>1. cur # 0 /\ cur \in Chunks(n)
    BY <1>4 DEF Latest, RoomInv
  <2> QED
    BY <2>1, FillNat
<1>6. PICK g \in Nat : g = Fill(n, cur)
  BY <1>5
<1>7. \/ k0 = cur /\ i0 = g + 1
      \/ IsHop(e, cur, g + 1, k0) /\ i0 = 1 /\ g # 0
  BY <1>4, <1>5, <1>6 DEF Emitted, Laid, IsHop
<1>8. Leads(e, cur, g + 1, v, i)
  BY <1>2, <1>7 DEF Leads
<1>9. i0 # 0 /\ e.body = n.body /\ e.current = k0 /\ k0 # 0
  BY DEF Emitted, Laid
<1>10. ASSUME NEW k \in Nat, NEW j \in Nat, NEW q \in Nat, IsOp(e, k, j, v, q)
       PROVE  q <= i /\ (q < i => Leads(e, k, j + 1, v, q + 1))
  <2>1. CASE k = k0 /\ j = i0 /\ q = i
    BY <1>1, <2>1
  <2>2. CASE IsOp(n, k, j, v, q)
    <3>1. q <= i - 1 /\ (q < i - 1 => Leads(n, k, j + 1, v, q + 1))
      BY <2>2 DEF Placed
    <3>2. ASSUME q < i - 1
          PROVE  Leads(e, k, j + 1, v, q + 1)
      <4>1. Leads(n, k, j + 1, v, q + 1)
        BY <3>1, <3>2
      <4>2. j + 1 \in Nat /\ q + 1 \in Nat
        OBVIOUS
      <4> QED
        BY <1>3, <4>1, <4>2, KeepsLeads
    <3>3. ASSUME q = i - 1
          PROVE  Leads(e, k, j + 1, v, q + 1)
      <4>1. q # 0
        BY <2>2 DEF OpInv
      <4>2. IsOp(n, cur, g, v, q)
        BY <1>4, <1>6, <3>3, <4>1 DEF Latest
      <4>3. k = cur /\ j = g
        BY <1>5, <1>6, <2>2, <4>2 DEF OpInv
      <4>4. q + 1 = i
        BY <1>1, <3>3
      <4> QED
        BY <1>8, <4>3, <4>4
    <3> QED
      BY <1>1, <3>1, <3>2, <3>3
  <2> QED
    BY <1>2, <1>10, <2>1, <2>2
<1>11. IsOp(e, e.body[v][1], e.body[v][2], v, 1)
  <2>1. CASE i = 1
    <3>1. n.body[v] = <<cur, 1>> /\ g = 0
      BY <1>4, <1>6, <2>1 DEF Latest
    <3>2. k0 = cur /\ i0 = 1
      BY <1>7, <3>1
    <3> QED
      BY <1>2, <1>9, <2>1, <3>1, <3>2
  <2>2. CASE i # 1
    <3>1. IsOp(n, n.body[v][1], n.body[v][2], v, 1)
      BY <1>1, <2>2 DEF Placed
    <3>2. n.body[v][1] \in Nat /\ n.body[v][2] \in Nat
      BY DEF ImageSet, Addresses
    <3> QED
      BY <1>2, <1>9, <3>1, <3>2
  <2> QED
    BY <2>1, <2>2
<1>12. Placed(e, v, i)
  BY <1>10, <1>11 DEF Placed
<1>13. Latest(e, v, i)
  BY <1>1, <1>2, <1>9 DEF Latest
<1> QED
  BY <1>12, <1>13

LEMMA OpMade ==
  ASSUME NEW n \in ImageSet, ImageInv(n), ~n.failed, NEW v \in Versions, NEW i \in 1 .. Len(Code[v]),
         Placed(n, v, i - 1), Latest(n, v, i - 1), Open(n, v), NEW e, e = Emit(n, v, i)
  PROVE  /\ e \in ImageSet /\ ImageInv(e) /\ ~e.failed /\ Keeps(n, e, Versions \ {v})
         /\ Placed(e, v, i) /\ Latest(e, v, i) /\ Open(e, v)
<1>1. i \in Nat /\ i - 1 \in Nat
  BY CodeAssumption
<1>2. PICK r : r = IF IsTarget(v, i) THEN VersionFor(n, Code[v][i]) ELSE n
  OBVIOUS
<1>3. /\ r \in ImageSet /\ ImageInv(r) /\ ~r.failed /\ Keeps(n, r, Versions) /\ SameOps(n, r)
      /\ r.body = n.body /\ r.current = n.current
      /\ n.current # 0 => Fill(r, n.current) = Fill(n, n.current)
      /\ IsTarget(v, i) => Code[v][i] \in r.known
  <2>1. CASE IsTarget(v, i)
    <3>1. PICK w \in Versions : w = Code[v][i]
      BY <2>1 DEF IsTarget
    <3>2. r = VersionFor(n, w)
      BY <1>2, <2>1, <3>1
    <3>3. Made(n, r, w)
      BY <3>2, VersionMade
    <3> QED
      BY <3>1, <3>3 DEF Made
  <2>2. CASE ~IsTarget(v, i)
    <3>1. r = n
      BY <1>2, <2>2
    <3>2. Keeps(n, r, Versions) /\ SameOps(n, r)
      BY <3>1 DEF Keeps, Shows, Fixed, Untouched, SameEntries, SameOps
    <3> QED
      BY <2>2, <3>1, <3>2
  <2> QED
    BY <2>1, <2>2
<1>4. RoomInv(n) /\ RoomInv(r) /\ StubInv(r) /\ FixupInv(r) /\ OpInv(r)
  BY <1>3 DEF ImageInv
<1>5. Placed(r, v, i - 1)
  BY <1>1, <1>3, KeepsPlaced
<1>6. Latest(r, v, i - 1)
  <2>1. n.current # 0 /\ n.current \in Nat
    BY DEF Latest, ImageSet
  <2>2. CASE i - 1 = 0
    BY <1>3, <2>1, <2>2 DEF Latest
  <2>3. CASE i - 1 # 0
    <3>1. PICK f : f = Fill(n, n.current)
      OBVIOUS
    <3>2. IsOp(n, n.current, f, v, i - 1)
      BY <2>3, <3>1 DEF Latest
    <3>3. f \in Nat
      BY <3>2 DEF IsOp, Place
    <3>4. IsOp(r, n.current, f, v, i - 1)
      BY <1>1, <1>3, <2>1, <3>2, <3>3 DEF SameOps
    <3> QED
      BY <1>3, <2>1, <2>3, <3>1, <3>4 DEF Latest
  <2> QED
    BY <2>2, <2>3
<1>7. PICK k0 \in Nat, i0 \in Nat : Emitted(r, e, v, i, k0, i0)
  BY <1>1, <1>2, <1>3, <1>4, EmitEffect
<1>8. e \in ImageSet /\ ~e.failed
  BY <1>3, <1>7 DEF Emitted
<1>9. ImageInv(e)
  <2>1. RoomInv(e)
    BY <1>1, <1>3, <1>4, <1>7, EmittedRoom
  <2>2. StubInv(e)
    BY <1>1, <1>3, <1>4, <1>7, EmittedStubs
  <2>3. FixupInv(e)
    BY <1>1, <1>3, <1>4, <1>7, EmittedFixups
  <2>4. OpInv(e)
    BY <1>3, <1>4, <1>5, <1>7, EmittedOnce
  <2> QED
    BY <2>1, <2>2, <2>3, <2>4 DEF ImageInv
<1>10. Placed(e, v, i) /\ Latest(e, v, i)
  BY <1>3, <1>4, <1>5, <1>6, <1>7, EmittedPlaced
<1>11. Keeps(n, e, Versions \ {v})
  <2>1. Keeps(r, e, Versions \ {v})
    BY <1>1, <1>3, <1>4, <1>7, EmittedKeeps
  <2>2. Keeps(n, r, Versions \ {v})
    BY <1>3 DEF Keeps, Untouched
  <2> QED
    BY <2>1, <2>2, KeepsTransitive
<1>12. Open(e, v)
  <2>1. OneMore(r, e, v, i, k0, i0)
    BY <1>1, <1>3, <1>4, <1>7, EmittedOps
  <2>2. ASSUME NEW k \in Nat, NEW j \in Nat, NEW q \in Nat, IsOp(e, k, j, v, q)
        PROVE  ~Sealed(e, k)
    <3>1. CASE k = k0
      BY <2>1, <3>1 DEF OneMore
    <3>2. CASE k # k0
      <4>1. IsOp(r, k, j, v, q) /\ Sealed(e, k) = Sealed(r, k)
        BY <2>1, <2>2, <3>2 DEF OneMore
      <4>2. IsOp(n, k, j, v, q) /\ Sealed(r, k) = Sealed(n, k)
        BY <1>3, <4>1 DEF SameOps
      <4> QED
        BY <4>1, <4>2 DEF Open
    <3> QED
      BY <3>1, <3>2
  <2> QED
    BY <2>2 DEF Open
<1> QED
  BY <1>8, <1>9, <1>10, <1>11, <1>12

-----------------------------------------------------------------------------
(* The body of a version begins a new chunk. *)

LEMMA BodyBound ==
  ASSUME NEW n \in ImageSet, ImageInv(n), ~n.failed, n.current = 0, NEW v \in Versions, NoOps(n, v),
         NEW b, b = Bind(n, v)
  PROVE  /\ b \in ImageSet /\ ImageInv(b) /\ ~b.failed /\ Keeps(n, b, Versions \ {v})
         /\ Placed(b, v, 0) /\ Latest(b, v, 0) /\ Open(b, v)
<1>1. PICK s : s = Chunk(n)
  OBVIOUS
<1>2. /\ s \in ImageSet /\ Kept(n, s)
      /\ Len(n.chunks) \in Nat /\ Len(s.chunks) = Len(n.chunks) + 1
      /\ s.current = Len(n.chunks) + 1
      /\ \A k \in 1 .. Len(n.chunks) : s.chunks[k] = n.chunks[k]
      /\ s.chunks[s.current] = [cells |-> <<>>, sealed |-> FALSE]
  BY <1>1, ChunkEffect
<1>3. PICK c \in Nat \ {0} : c = Len(n.chunks) + 1
  BY <1>2
<1>4. /\ Chunks(s) = Chunks(n) \cup {c} /\ c \notin Chunks(n) /\ s.current = c
      /\ \A k \in Chunks(n) : s.chunks[k] = n.chunks[k]
  BY <1>2, <1>3 DEF Chunks
<1>5. Fill(s, c) = 0 /\ ~Sealed(s, c)
  BY <1>2, <1>4, EmptySeq DEF Fill, Sealed
<1>6. Here(s) = <<c, 1>>
  BY <1>4, <1>5 DEF Here, Used, Fill
<1>7. b = [s EXCEPT !.body[v] = <<c, 1>>]
  BY <1>1, <1>6 DEF Bind, Space
<1>8. PICK body \in [Versions -> Addresses] : body = [s.body EXCEPT ![v] = <<c, 1>>]
  BY <1>2 DEF ImageSet, Addresses
<1>9. b = [s EXCEPT !.body = body]
  BY <1>2, <1>7, <1>8 DEF ImageSet
<1>10. /\ b \in ImageSet /\ b.chunks = s.chunks /\ b.body = body /\ b.current = c
       /\ b.stubs = n.stubs /\ b.entry = n.entry /\ b.known = n.known /\ b.fixups = n.fixups
       /\ b.failed = n.failed
  BY <1>2, <1>4, <1>9 DEF ImageSet, Kept
<1>11. /\ Chunks(b) = Chunks(n) \cup {c} /\ Fill(b, c) = 0 /\ ~Sealed(b, c)
       /\ \A k \in Chunks(n) : b.chunks[k] = n.chunks[k] /\ Fill(b, k) = Fill(n, k)
                               /\ Sealed(b, k) = Sealed(n, k) /\ \A i : At(b, k, i) = At(n, k, i)
  BY <1>4, <1>5, <1>10 DEF Chunks, Fill, Sealed, At
<1>12. \A k, i : Place(b, k, i) <=> Place(n, k, i)
  BY <1>4, <1>11 DEF Place
<1>13. \A k, i : Place(n, k, i) => k \in Chunks(n) /\ At(b, k, i) = At(n, k, i)
  BY <1>11 DEF Place
<1>14. /\ \A k, i, u : IsStub(b, k, i, u) <=> IsStub(n, k, i, u)
       /\ \A k, i, j : IsHop(b, k, i, j) <=> IsHop(n, k, i, j)
       /\ \A k, i, u, q : IsOp(b, k, i, u, q) <=> IsOp(n, k, i, u, q)
  BY <1>12, <1>13 DEF IsStub, IsHop, IsOp
<1>15. \A k, i, u, q : IsOp(n, k, i, u, q) => k \in Chunks(n)
  BY DEF IsOp, Place
<1>16. SameOps(n, b)
  BY <1>11, <1>14, <1>15 DEF SameOps
<1>17. RoomInv(b)
  <2>1. /\ \A k \in Chunks(n) : Fill(n, k) <= Page
        /\ Roomy(n, n.stubs)
    BY RoomOpen DEF ImageInv
  <2>2. Page \in Nat /\ Page >= 2
    BY PageAssumption
  <2>3. \A k \in Chunks(b) : Fill(b, k) <= Page
    BY <1>11, <2>1, <2>2
  <2>4. Roomy(b, b.current)
    BY <1>10, <1>11, <2>2 DEF Roomy
  <2>5. Roomy(b, b.stubs) /\ b.current # b.stubs
    BY <1>3, <1>4, <1>10, <1>11, <2>1 DEF Roomy
  <2> QED
    BY <1>10, <2>3, <2>4, <2>5, RoomOpen
<1>18. StubInv(b)
  BY <1>10, <1>14 DEF ImageInv, StubInv
<1>19. OpInv(b)
  BY <1>16, SameOpsInv DEF ImageInv
<1>20. FixupInv(b)
  <2>1. FixupInv(n) /\ n.fixups \subseteq FixupSet
    BY DEF ImageInv, ImageSet
  <2>2. ASSUME NEW f \in n.fixups
        PROVE  ~Sealed(b, f.at[1])
    <3>1. ~Sealed(n, f.at[1]) /\ f.at[1] \in Chunks(n)
      BY <2>1, <1>15 DEF FixupInv
    <3> QED
      BY <1>11, <3>1
  <2>3. \A k, i, q \in Nat, u \in Versions :
           IsOp(b, k, i, u, q) /\ IsTarget(u, q) /\ ~Sealed(b, k) /\ ~b.failed =>
             [at |-> <<k, i>>, to |-> Code[u][q]] \in b.fixups
    BY <1>10, <1>11, <1>14, <1>15, <2>1 DEF FixupInv
  <2>4. \A f \in b.fixups :
           /\ f.to \in b.known
           /\ \E u \in Versions, q \in Nat :
                 IsOp(b, f.at[1], f.at[2], u, q) /\ IsTarget(u, q) /\ f.to = Code[u][q]
    BY <1>10, <1>14, <2>1 DEF FixupInv
  <2> QED
    BY <1>10, <2>2, <2>3, <2>4 DEF FixupInv
<1>21. Keeps(n, b, Versions \ {v})
  <2>1. Shows(n, b)
    BY <1>14 DEF Shows
  <2>2. Fixed(n, b)
    BY <1>11 DEF Fixed
  <2>3. \A u \in Versions \ {v} : b.body[u] = n.body[u]
    BY <1>2, <1>8, <1>10 DEF Kept, ImageSet
  <2>4. Untouched(n, b, Versions \ {v})
    BY <1>14, <2>3 DEF Untouched
  <2>5. SameEntries(n, b)
    BY <1>10 DEF SameEntries
  <2> QED
    BY <2>1, <2>2, <2>4, <2>5 DEF Keeps
<1>22. \A k, i, q \in Nat : ~IsOp(b, k, i, v, q)
  BY <1>14 DEF NoOps
<1>23. Placed(b, v, 0) /\ Open(b, v)
  BY <1>22 DEF Placed, Open
<1>24. Latest(b, v, 0)
  BY <1>2, <1>3, <1>8, <1>10, <1>11 DEF Latest, ImageSet
<1> QED
  BY <1>10, <1>17, <1>18, <1>19, <1>20, <1>21, <1>23, <1>24 DEF ImageInv

-----------------------------------------------------------------------------
(* The branches are patched and chunks are sealed. *)

\* A sequence from its elements.
LEMMA SeqFrom ==
  ASSUME NEW S, NEW m \in Nat, NEW g \in [1 .. m -> S]
  PROVE  g \in Seq(S) /\ Len(g) = m
<1>1. g \in Seq(S)
  BY SeqDef
<1>2. Len(g) \in Nat /\ DOMAIN g = 1 .. Len(g)
  BY <1>1, LenProperties
<1>3. 1 .. Len(g) = 1 .. m
  BY <1>2
<1> QED
  BY <1>1, <1>2, <1>3

\* The cell at an address that is patched leads to the stub of its target.
Bends(n, k, i, cell) ==
  \E v \in Versions, q \in Nat :
    /\ IsOp(n, k, i, v, q) /\ IsTarget(v, q) /\ Code[v][q] \in n.known /\ ~Sealed(n, k)
    /\ cell = Op(v, q, n.entry[Code[v][q]])

LEMMA CellPatched ==
  ASSUME NEW n \in ImageSet, FixupInv(n), NEW k \in Nat, NEW i \in Nat, Place(n, k, i),
         NEW cell, cell = PatchedCell(n, k, i)
  PROVE  \/ cell = At(n, k, i) /\ \A f \in n.fixups : f.at # <<k, i>>
         \/ Bends(n, k, i, cell)
<1>1. CASE \A f \in n.fixups : f.at # <<k, i>>
  <2>1. {f \in n.fixups : f.at = <<k, i>>} = {}
    BY <1>1
  <2>2. cell = At(n, k, i)
    BY <2>1 DEF PatchedCell, At
  <2> QED
    BY <1>1, <2>2
<1>2. CASE ~ \A f \in n.fixups : f.at # <<k, i>>
  <2>1. PICK here : here = {f \in n.fixups : f.at = <<k, i>>}
    OBVIOUS
  <2>2. here # {}
    BY <1>2, <2>1
  <2>3. PICK f : f = CHOOSE g \in here : TRUE
    OBVIOUS
  <2>4. f \in here
    BY <2>2, <2>3
  <2>5. f \in n.fixups /\ f.at = <<k, i>>
    BY <2>1, <2>4
  <2>6. cell = Op(At(n, k, i)[2], At(n, k, i)[3], n.entry[f.to])
    BY <2>1, <2>2, <2>3 DEF PatchedCell, At, Target
  <2>7. PICK v \in Versions, q \in Nat :
              IsOp(n, f.at[1], f.at[2], v, q) /\ IsTarget(v, q) /\ f.to = Code[v][q]
    BY <2>5 DEF FixupInv
  <2>8. IsOp(n, k, i, v, q) /\ f.to \in n.known /\ ~Sealed(n, k)
    <3>1. f.at[1] = k /\ f.at[2] = i
      BY <2>5
    <3> QED
      BY <2>5, <2>7, <3>1 DEF FixupInv
  <2>9. cell = Op(v, q, n.entry[Code[v][q]])
    BY <2>6, <2>7, <2>8 DEF IsOp
  <2> QED
    BY <2>7, <2>8, <2>9 DEF Bends
<1> QED
  BY <1>1, <1>2

Patched(n, p, x) ==
  /\ p \in ImageSet /\ Chunks(p) = Chunks(n)
  /\ \A k \in Chunks(n) : Fill(p, k) = Fill(n, k) /\ (Sealed(n, k) \/ k <= x => Sealed(p, k))
  /\ \A k, i \in Nat : Place(n, k, i) =>
       \/ At(p, k, i) = At(n, k, i) /\ \A f \in n.fixups : f.at # <<k, i>>
       \/ Bends(n, k, i, At(p, k, i))
  /\ p.fixups = {} /\ p.current = n.current /\ p.stubs = n.stubs /\ p.entry = n.entry
  /\ p.body = n.body /\ p.known = n.known /\ p.writable = n.writable /\ p.failed = n.failed

LEMMA PatchEffect ==
  ASSUME NEW n \in ImageSet, FixupInv(n), NEW x \in Nat, NEW p, p = Patch(n, x)
  PROVE  Patched(n, p, x)
<1>1. PICK m \in Nat : m = Len(n.chunks) /\ DOMAIN n.chunks = 1 .. m
  BY LenProperties DEF ImageSet
<1>2. PICK row : row = [c \in 1 .. m |-> [i \in DOMAIN n.chunks[c].cells |-> PatchedCell(n, c, i)]]
  OBVIOUS
<1>3. \A k \in 1 .. m : n.chunks[k] \in ChunkSet /\ n.chunks[k].cells \in Seq(CellSet)
  <2>1. \A k \in 1 .. m : n.chunks[k] \in ChunkSet
    BY <1>1, ElementOfSeq DEF ImageSet
  <2> QED
    BY <2>1 DEF ChunkSet
<1>4. Chunks(n) = 1 .. m
  BY <1>1 DEF Chunks
<1>5. \A k \in Nat, i \in Nat : Place(n, k, i) => PatchedCell(n, k, i) \in CellSet
  <2>1. SUFFICES ASSUME NEW k \in Nat, NEW i \in Nat, Place(n, k, i),
                        NEW cell, cell = PatchedCell(n, k, i)
                 PROVE  cell \in CellSet
    OBVIOUS
  <2>2. cell = At(n, k, i) \/ Bends(n, k, i, cell)
    BY <2>1, CellPatched
  <2>3. At(n, k, i) \in CellSet
    BY <2>1, FillNat DEF Place
  <2>4. ASSUME NEW v \in Versions, NEW q \in Nat, IsTarget(v, q), cell = Op(v, q, n.entry[Code[v][q]])
        PROVE  cell \in CellSet
    <3>1. PICK to \in Addresses : to = n.entry[Code[v][q]]
      BY <2>4 DEF IsTarget, ImageSet
    <3> QED
      BY <2>4, <3>1 DEF CellSet
  <2> QED
    BY <2>2, <2>3, <2>4 DEF Bends
<1>6. \A k \in 1 .. m : /\ row[k] \in Seq(CellSet) /\ Len(row[k]) = Fill(n, k)
                        /\ \A i \in 1 .. Fill(n, k) : row[k][i] = PatchedCell(n, k, i)
  <2>1. SUFFICES ASSUME NEW k \in 1 .. m
                 PROVE  /\ row[k] \in Seq(CellSet) /\ Len(row[k]) = Fill(n, k)
                        /\ \A i \in 1 .. Fill(n, k) : row[k][i] = PatchedCell(n, k, i)
    OBVIOUS
  <2>2. PICK f \in Nat : f = Fill(n, k) /\ DOMAIN n.chunks[k].cells = 1 .. f
    BY <1>3, LenProperties DEF Fill
  <2>3. PICK g : g = [i \in 1 .. f |-> PatchedCell(n, k, i)]
    OBVIOUS
  <2>4. \A i \in 1 .. f : Place(n, k, i) /\ i \in Nat /\ k \in Nat
    BY <1>4, <2>2 DEF Place
  <2>5. g \in [1 .. f -> CellSet]
    BY <1>5, <2>3, <2>4
  <2>6. g \in Seq(CellSet) /\ Len(g) = f
    BY <2>5, SeqFrom
  <2>7. row[k] = g
    BY <1>2, <2>2, <2>3
  <2> QED
    BY <2>2, <2>3, <2>6, <2>7
<1>7. PICK cs : cs = [c \in 1 .. m |-> [cells |-> row[c], sealed |-> n.chunks[c].sealed \/ c <= x]]
  OBVIOUS
<1>8. cs \in [1 .. m -> ChunkSet]
  BY <1>3, <1>6, <1>7 DEF ChunkSet
<1>9. cs \in Seq(ChunkSet) /\ Len(cs) = m
  BY <1>8, SeqFrom
<1>10. Patch(n, x) = [n EXCEPT !.fixups = {}, !.chunks = cs]
  BY <1>1, <1>2, <1>7 DEF Patch
<1>11. /\ p \in ImageSet /\ p.chunks = cs /\ p.fixups = {} /\ p.current = n.current
       /\ p.stubs = n.stubs /\ p.entry = n.entry
       /\ p.body = n.body /\ p.known = n.known /\ p.writable = n.writable /\ p.failed = n.failed
  BY <1>9, <1>10 DEF ImageSet
<1>12. Chunks(p) = 1 .. m
  BY <1>9, <1>11 DEF Chunks
<1>13. \A k \in 1 .. m : /\ Fill(p, k) = Fill(n, k) /\ (Sealed(n, k) \/ k <= x => Sealed(p, k))
                         /\ \A i \in 1 .. Fill(n, k) : At(p, k, i) = PatchedCell(n, k, i)
  <2>1. \A k \in 1 .. m : /\ p.chunks[k].cells = row[k]
                          /\ p.chunks[k].sealed = (n.chunks[k].sealed \/ k <= x)
    BY <1>7, <1>11
  <2> QED
    BY <1>6, <2>1 DEF Fill, Sealed, At
<1>14. ASSUME NEW k \in Nat, NEW i \in Nat, Place(n, k, i)
       PROVE  \/ At(p, k, i) = At(n, k, i) /\ \A f \in n.fixups : f.at # <<k, i>>
              \/ Bends(n, k, i, At(p, k, i))
  <2>1. At(p, k, i) = PatchedCell(n, k, i)
    BY <1>4, <1>13, <1>14 DEF Place
  <2> QED
    BY <1>14, <2>1, CellPatched
<1> QED
  BY <1>4, <1>11, <1>12, <1>13, <1>14 DEF Patched

\* The cells mean what they did, and a sealed chunk is the same.
LEMMA PatchedCells ==
  ASSUME NEW n \in ImageSet, NEW x, NEW p, Patched(n, p, x)
  PROVE  /\ \A k, i \in Nat : Place(p, k, i) <=> Place(n, k, i)
         /\ \A k, i \in Nat, v \in Versions : IsStub(p, k, i, v) <=> IsStub(n, k, i, v)
         /\ \A k, i, j \in Nat : IsHop(p, k, i, j) <=> IsHop(n, k, i, j)
         /\ \A k, i, q \in Nat, v \in Versions : IsOp(p, k, i, v, q) <=> IsOp(n, k, i, v, q)
<1>1. \A k, i \in Nat : Place(p, k, i) <=> Place(n, k, i)
  BY DEF Patched, Place
<1>2. ASSUME NEW k \in Nat, NEW i \in Nat, Place(n, k, i)
      PROVE  /\ \A v \in Versions : At(p, k, i) = Stub(v) <=> At(n, k, i) = Stub(v)
             /\ \A j \in Nat : At(p, k, i) = Hop(j) <=> At(n, k, i) = Hop(j)
             /\ At(p, k, i)[1] = "op" <=> At(n, k, i)[1] = "op"
             /\ At(n, k, i)[1] = "op" => At(p, k, i)[2] = At(n, k, i)[2] /\ At(p, k, i)[3] = At(n, k, i)[3]
  <2>1. CASE At(p, k, i) = At(n, k, i)
    BY <2>1
  <2>2. CASE Bends(n, k, i, At(p, k, i))
    <3>1. PICK v \in Versions, q \in Nat :
                 IsOp(n, k, i, v, q) /\ At(p, k, i) = Op(v, q, n.entry[Code[v][q]])
      BY <2>2 DEF Bends
    <3>2. /\ At(n, k, i)[1] = "op" /\ At(n, k, i)[2] = v /\ At(n, k, i)[3] = q
          /\ At(p, k, i)[1] = "op" /\ At(p, k, i)[2] = v /\ At(p, k, i)[3] = q
      BY <3>1 DEF IsOp, Op
    <3>3. (\A u : Stub(u)[1] = "stub") /\ (\A j : Hop(j)[1] = "hop")
      BY DEF Stub, Hop
    <3>4. \A u : At(p, k, i) # Stub(u) /\ At(n, k, i) # Stub(u) /\ At(p, k, i) # Hop(u) /\ At(n, k, i) # Hop(u)
      BY <3>2, <3>3
    <3> QED
      BY <3>2, <3>4
  <2> QED
    BY <1>2, <2>1, <2>2 DEF Patched
<1>3. \A k, i \in Nat, v \in Versions : IsStub(p, k, i, v) <=> IsStub(n, k, i, v)
  BY <1>1, <1>2 DEF IsStub
<1>4. \A k, i, j \in Nat : IsHop(p, k, i, j) <=> IsHop(n, k, i, j)
  BY <1>1, <1>2 DEF IsHop
<1>5. \A k, i, q \in Nat, v \in Versions : IsOp(p, k, i, v, q) <=> IsOp(n, k, i, v, q)
  BY <1>1, <1>2 DEF IsOp
<1> QED
  BY <1>1, <1>3, <1>4, <1>5

LEMMA PatchedFixed ==
  ASSUME NEW n \in ImageSet, NEW x \in Nat, NEW p, Patched(n, p, x)
  PROVE  Fixed(n, p)
<1>1. SUFFICES ASSUME NEW k \in Chunks(n), Sealed(n, k)
               PROVE  p.chunks[k] = n.chunks[k]
  BY DEF Fixed, Patched
<1>2. p \in ImageSet /\ k \in Chunks(p) /\ Fill(p, k) = Fill(n, k) /\ Sealed(p, k)
  BY <1>1 DEF Patched
<1>3. n.chunks[k] \in ChunkSet /\ p.chunks[k] \in ChunkSet
  BY <1>2, ElementOfSeq DEF ImageSet, Chunks
<1>4. PICK s \in Seq(CellSet) : s = n.chunks[k].cells
  BY <1>3 DEF ChunkSet
<1>5. PICK t \in Seq(CellSet) : t = p.chunks[k].cells
  BY <1>3 DEF ChunkSet
<1>6. Len(s) = Len(t) /\ Len(s) \in Nat
  BY <1>2, <1>4, <1>5 DEF Fill
<1>7. \A i \in 1 .. Len(s) : s[i] = t[i]
  <2>1. SUFFICES ASSUME NEW i \in 1 .. Len(s) PROVE At(p, k, i) = At(n, k, i)
    BY <1>4, <1>5 DEF At
  <2>2. k \in Nat /\ i \in Nat /\ Place(n, k, i)
    BY <1>4, <1>6, FillNat DEF Place, Fill
  <2>3. ~Bends(n, k, i, At(p, k, i))
    BY <1>1 DEF Bends
  <2> QED
    BY <2>2, <2>3 DEF Patched
<1>8. s = t
  BY <1>6, <1>7, SeqEqual
<1>9. n.chunks[k].sealed = p.chunks[k].sealed
  BY <1>1, <1>2, <1>3 DEF Sealed, ChunkSet
<1>10. PICK a \in ChunkSet : a = n.chunks[k]
  BY <1>3
<1>11. PICK b \in ChunkSet : b = p.chunks[k]
  BY <1>3
<1>12. a.cells = b.cells /\ a.sealed = b.sealed
  BY <1>4, <1>5, <1>8, <1>9, <1>10, <1>11
<1>13. a = b
  BY <1>12 DEF ChunkSet
<1> QED
  BY <1>10, <1>11, <1>13

\* An image r with the chunks of p, and its books closed.
Shut(p, r) ==
  /\ r \in ImageSet /\ r.chunks = p.chunks /\ r.entry = p.entry /\ r.body = p.body
  /\ r.known = p.known /\ r.fixups = p.fixups

LEMMA ShutSame ==
  ASSUME NEW p, NEW r, Shut(p, r)
  PROVE  /\ Chunks(r) = Chunks(p)
         /\ \A k : Sealed(r, k) = Sealed(p, k) /\ Fill(r, k) = Fill(p, k)
         /\ \A k, i : (Place(r, k, i) <=> Place(p, k, i)) /\ At(r, k, i) = At(p, k, i)
         /\ \A k, i, v : IsStub(r, k, i, v) <=> IsStub(p, k, i, v)
         /\ \A k, i, j : IsHop(r, k, i, j) <=> IsHop(p, k, i, j)
         /\ \A k, i, v, q : IsOp(r, k, i, v, q) <=> IsOp(p, k, i, v, q)
<1>1. /\ Chunks(r) = Chunks(p)
      /\ \A k : Sealed(r, k) = Sealed(p, k) /\ Fill(r, k) = Fill(p, k) /\ \A i : At(r, k, i) = At(p, k, i)
  BY DEF Shut, Chunks, Sealed, Fill, At
<1>2. \A k, i : Place(r, k, i) <=> Place(p, k, i)
  BY <1>1 DEF Place
<1> QED
  BY <1>1, <1>2 DEF IsStub, IsHop, IsOp

LEMMA ShutKeeps ==
  ASSUME NEW p, NEW r, Shut(p, r)
  PROVE  Keeps(p, r, Versions)
<1>1. Shows(p, r) /\ Untouched(p, r, Versions)
  BY ShutSame DEF Shows, Untouched, Shut
<1>2. Fixed(p, r) /\ SameEntries(p, r)
  BY ShutSame DEF Fixed, SameEntries, Shut
<1> QED
  BY <1>1, <1>2 DEF Keeps

LEMMA PatchedKeeps ==
  ASSUME NEW n \in ImageSet, NEW x \in Nat, NEW p, Patched(n, p, x)
  PROVE  Keeps(n, p, Versions)
<1>1. Shows(n, p)
  BY PatchedCells DEF Shows
<1>2. Untouched(n, p, Versions)
  BY PatchedCells DEF Untouched, Patched
<1>3. SameEntries(n, p)
  BY DEF SameEntries, Patched
<1> QED
  BY <1>1, <1>2, <1>3, PatchedFixed DEF Keeps

\* Whole or failed, the image is well formed after the patching.
LEMMA PatchedInv ==
  ASSUME NEW n \in ImageSet, ImageInv(n), NEW x \in Nat, NEW p, Patched(n, p, x), NEW r, Shut(p, r),
         r.failed \/ (r.current = 0 /\ r.stubs = 0 /\ x = Len(n.chunks))
  PROVE  ImageInv(r)
<1>1. /\ Chunks(r) = Chunks(n)
      /\ \A k \in Chunks(n) : Fill(r, k) = Fill(n, k) /\ (Sealed(n, k) \/ k <= x => Sealed(r, k))
      /\ \A k, i \in Nat, v \in Versions : IsStub(r, k, i, v) <=> IsStub(n, k, i, v)
      /\ \A k, i, q \in Nat, v \in Versions : IsOp(r, k, i, v, q) <=> IsOp(n, k, i, v, q)
  <2>1. /\ Chunks(r) = Chunks(p)
        /\ \A k : Sealed(r, k) = Sealed(p, k) /\ Fill(r, k) = Fill(p, k)
        /\ \A k, i, v : IsStub(r, k, i, v) <=> IsStub(p, k, i, v)
        /\ \A k, i, v, q : IsOp(r, k, i, v, q) <=> IsOp(p, k, i, v, q)
    BY ShutSame
  <2>2. /\ \A k, i \in Nat, v \in Versions : IsStub(p, k, i, v) <=> IsStub(n, k, i, v)
        /\ \A k, i, q \in Nat, v \in Versions : IsOp(p, k, i, v, q) <=> IsOp(n, k, i, v, q)
    BY PatchedCells
  <2>3. /\ Chunks(p) = Chunks(n)
        /\ \A k \in Chunks(n) : Fill(p, k) = Fill(n, k) /\ (Sealed(n, k) \/ k <= x => Sealed(p, k))
    BY DEF Patched
  <2>4. \A k \in Chunks(n) : Fill(r, k) = Fill(n, k) /\ (Sealed(n, k) \/ k <= x => Sealed(r, k))
    BY <2>1, <2>3
  <2>5. Chunks(r) = Chunks(n)
    BY <2>1, <2>3
  <2>6. /\ \A k, i \in Nat, v \in Versions : IsStub(r, k, i, v) <=> IsStub(n, k, i, v)
        /\ \A k, i, q \in Nat, v \in Versions : IsOp(r, k, i, v, q) <=> IsOp(n, k, i, v, q)
    BY <2>1, <2>2
  <2> QED
    BY <2>4, <2>5, <2>6
<1>2. r.entry = n.entry /\ r.known = n.known /\ r.fixups = {}
  BY DEF Patched, Shut
<1>3. RoomInv(r)
  BY <1>1 DEF ImageInv, RoomInv
<1>4. StubInv(r)
  <2>1. StubInv(n)
    BY DEF ImageInv
  <2>2. \A v \in n.known : v \in Versions /\ n.entry[v][1] \in Nat /\ n.entry[v][2] \in Nat
    BY DEF ImageSet, Addresses
  <2>3. \A v \in n.known : IsStub(r, n.entry[v][1], n.entry[v][2], v)
    BY <1>1, <2>1, <2>2 DEF StubInv
  <2>4. \A k, i \in Nat, v \in Versions : IsStub(r, k, i, v) => r.entry[v] = <<k, i>>
    BY <1>1, <1>2, <2>1 DEF StubInv
  <2>5. \A v \in Versions : v \notin r.known <=> r.entry[v] = Nowhere
    BY <1>2, <2>1 DEF StubInv
  <2>6. \A v \in r.known : IsStub(r, r.entry[v][1], r.entry[v][2], v)
    BY <1>2, <2>3
  <2> QED
    BY <2>4, <2>5, <2>6 DEF StubInv
<1>5. OpInv(r)
  BY <1>1 DEF ImageInv, OpInv
<1>6. FixupInv(r)
  <2>1. \A k, i, q \in Nat, v \in Versions : IsOp(r, k, i, v, q) => k \in Chunks(n)
    BY <1>1 DEF IsOp, Place
  <2>2. ~r.failed => \A k \in Chunks(n) : Sealed(r, k)
    BY <1>1, FillNat
  <2> QED
    BY <1>2, <2>1, <2>2 DEF FixupInv
<1> QED
  BY <1>3, <1>4, <1>5, <1>6 DEF ImageInv

\* A version that is all placed, in open chunks, is ready when they are sealed.
LEMMA PatchedReady ==
  ASSUME NEW n \in ImageSet, ImageInv(n), ~n.failed, NEW v \in Versions,
         Open(n, v), Placed(n, v, Len(Code[v])),
         NEW p, Patched(n, p, Len(n.chunks))
  PROVE  Ready(p, v)
<1>1. Len(n.chunks) \in Nat /\ Len(Code[v]) \in Nat
  BY CodeAssumption DEF ImageSet
<1>2. Placed(p, v, Len(Code[v]))
  BY <1>1, PatchedKeeps, KeepsPlaced
<1>3. \A k \in Chunks(n) : Sealed(p, k)
  BY FillNat DEF Patched
<1>4. StubInv(n) /\ FixupInv(n)
  BY DEF ImageInv
<1>5. ASSUME NEW k \in Nat, NEW i \in Nat, NEW q \in Nat, IsOp(p, k, i, v, q)
      PROVE  /\ Sealed(p, k)
             /\ IsTarget(v, q) => /\ At(p, k, i)[4] = p.entry[Code[v][q]]
                                  /\ Code[v][q] \in p.known /\ Sealed(p, p.entry[Code[v][q]][1])
  <2>1. IsOp(n, k, i, v, q)
    BY <1>1, <1>5, PatchedCells
  <2>2. k \in Chunks(n) /\ Place(n, k, i) /\ ~Sealed(n, k)
    BY <2>1 DEF IsOp, Place, Open
  <2>3. ASSUME IsTarget(v, q), NEW w, w = Code[v][q]
        PROVE  At(p, k, i)[4] = p.entry[w] /\ w \in p.known /\ Sealed(p, p.entry[w][1])
    <3>1. [at |-> <<k, i>>, to |-> Code[v][q]] \in n.fixups
      BY <1>4, <2>1, <2>2, <2>3 DEF FixupInv
    <3>2. Bends(n, k, i, At(p, k, i))
      BY <2>2, <3>1 DEF Patched
    <3>3. PICK u \in Versions, h \in Nat :
              /\ IsOp(n, k, i, u, h) /\ Code[u][h] \in n.known
              /\ At(p, k, i) = Op(u, h, n.entry[Code[u][h]])
      BY <3>2 DEF Bends
    <3>4. u = v /\ h = q
      BY <2>1, <3>3 DEF IsOp
    <3>5. At(p, k, i)[4] = n.entry[w] /\ w \in n.known
      BY <2>3, <3>3, <3>4 DEF Op
    <3>6. n.entry[w][1] \in Chunks(n)
      BY <1>4, <3>5 DEF StubInv, IsStub, Place
    <3> QED
      BY <1>3, <3>5, <3>6 DEF Patched
  <2> QED
    BY <1>3, <2>2, <2>3
<1> QED
  BY <1>2, <1>5 DEF Ready

\* Published(n): everything is bound and sealed.
LEMMA PublishEffect ==
  ASSUME NEW n \in ImageSet, ImageInv(n), ~n.failed, NEW r, r = Published(n)
  PROVE  /\ r \in ImageSet /\ ImageInv(r) /\ ~r.failed /\ AllSealed(r) /\ Keeps(n, r, Versions)
         /\ \A v \in Versions : Open(n, v) /\ Placed(n, v, Len(Code[v])) => Ready(r, v)
         /\ r.known = n.known
<1>1. Len(n.chunks) \in Nat /\ FixupInv(n)
  BY DEF ImageSet, ImageInv
<1>2. PICK p : p = Patch(n, Len(n.chunks))
  OBVIOUS
<1>3. Patched(n, p, Len(n.chunks))
  BY <1>1, <1>2, PatchEffect
<1>4. r = [p EXCEPT !.writable = FALSE, !.current = 0, !.stubs = 0]
  BY <1>2 DEF Published, Closed
<1>5. Shut(p, r) /\ r.current = 0 /\ r.stubs = 0 /\ r.failed = p.failed
  <2>1. p \in ImageSet
    BY <1>3 DEF Patched
  <2>2. r \in ImageSet
    <3>1. PICK w \in BOOLEAN : w = FALSE
      OBVIOUS
    <3>2. PICK z \in Nat : z = 0
      OBVIOUS
    <3>3. r = [p EXCEPT !.writable = w, !.current = z, !.stubs = z]
      BY <1>4, <3>1, <3>2
    <3> QED
      BY <2>1, <3>3 DEF ImageSet
  <2>3. r.current = 0 /\ r.stubs = 0 /\ r.failed = p.failed /\ r.chunks = p.chunks
    BY <1>4, <2>1 DEF ImageSet
  <2>4. r.entry = p.entry /\ r.body = p.body /\ r.known = p.known /\ r.fixups = p.fixups
    BY <1>4, <2>1 DEF ImageSet
  <2> QED
    BY <2>2, <2>3, <2>4 DEF Shut
<1>6. ImageInv(r)
  BY <1>1, <1>3, <1>5, PatchedInv
<1>7. AllSealed(r)
  <2>1. \A k \in Chunks(n) : Sealed(p, k)
    BY <1>3, FillNat DEF Patched
  <2>2. Chunks(p) = Chunks(n) /\ p.fixups = {}
    BY <1>3 DEF Patched
  <2> QED
    BY <1>5, <2>1, <2>2, ShutSame DEF AllSealed, Shut
<1>8. Keeps(n, p, Versions) /\ Keeps(p, r, Versions)
  BY <1>1, <1>3, <1>5, PatchedKeeps, ShutKeeps
<1>9. Keeps(n, r, Versions)
  BY <1>8, KeepsTransitive
<1>10. ASSUME NEW v \in Versions, Open(n, v), Placed(n, v, Len(Code[v]))
       PROVE  Ready(r, v)
  <2>1. Ready(p, v) /\ p \in ImageSet
    BY <1>3, <1>10, PatchedReady DEF Patched
  <2>2. Shut(p, p)
    BY <2>1 DEF Shut
  <2>3. \A k, i, w : IsStub(r, k, i, w) <=> IsStub(p, k, i, w)
    BY <1>5, ShutSame
  <2>4. StubInv(p)
    BY <1>5, <1>6, <2>3 DEF ImageInv, StubInv, Shut
  <2> QED
    BY <1>8, <2>1, <2>4, KeepsReady
<1> QED
  BY <1>3, <1>5, <1>6, <1>7, <1>9, <1>10 DEF Patched, Shut

\* Failed(n), after some chunks have been sealed or none.
LEMMA FailEffect ==
  ASSUME NEW n \in ImageSet, ImageInv(n), NEW r,
         r = Failed(n) \/ \E c \in DOMAIN n.chunks : r = Failed(Patch(n, c - 1))
  PROVE  r \in ImageSet /\ ImageInv(r) /\ r.failed /\ Keeps(n, r, Versions) /\ r.known = n.known
<1>1. CASE r = Failed(n)
  <2>1. r = [n EXCEPT !.failed = TRUE, !.writable = FALSE, !.current = 0]
    BY <1>1 DEF Failed
  <2>2. Shut(n, r) /\ r.failed
    BY <2>1 DEF ImageSet, Shut
  <2>3. Keeps(n, r, Versions)
    BY <2>2, ShutKeeps
  <2>4. RoomInv(r) /\ StubInv(r) /\ OpInv(r)
    BY <2>2, ShutSame DEF ImageInv, RoomInv, StubInv, OpInv, Shut
  <2>5. FixupInv(r)
    BY <2>2, ShutSame DEF ImageInv, FixupInv, Shut
  <2> QED
    BY <2>2, <2>3, <2>4, <2>5 DEF ImageInv, Shut
<1>2. ASSUME NEW c \in DOMAIN n.chunks, r = Failed(Patch(n, c - 1))
      PROVE  r \in ImageSet /\ ImageInv(r) /\ r.failed /\ Keeps(n, r, Versions) /\ r.known = n.known
  <2>1. c \in 1 .. Len(n.chunks) /\ Len(n.chunks) \in Nat
    BY <1>2, LenProperties DEF ImageSet
  <2>2. PICK x \in Nat : x = c - 1
    BY <2>1
  <2>3. PICK p : p = Patch(n, x)
    OBVIOUS
  <2>4. Patched(n, p, x)
    BY <2>3, PatchEffect DEF ImageInv
  <2>5. r = [p EXCEPT !.failed = TRUE, !.writable = FALSE, !.current = 0]
    BY <1>2, <2>2, <2>3 DEF Failed
  <2>6. Shut(p, r) /\ r.failed
    BY <2>4, <2>5 DEF Patched, ImageSet, Shut
  <2>7. ImageInv(r)
    BY <2>4, <2>6, PatchedInv
  <2>8. Keeps(n, r, Versions)
    BY <2>4, <2>6, PatchedKeeps, ShutKeeps, KeepsTransitive
  <2> QED
    BY <2>4, <2>6, <2>7, <2>8 DEF Patched, Shut
<1> QED
  BY <1>1, <1>2

-----------------------------------------------------------------------------
(* Where a thread stands. *)

LEMMA CellKinds ==
  ASSUME NEW n \in ImageSet, NEW k, NEW i, Place(n, k, i)
  PROVE  /\ k \in Nat /\ i \in Nat
         /\ \/ \E v \in Versions : At(n, k, i) = Stub(v)
            \/ \E j \in Nat : At(n, k, i) = Hop(j)
            \/ \E v \in Versions, q \in Nat, to \in Addresses : At(n, k, i) = Op(v, q, to)
<1>1. k \in Chunks(n) /\ i \in 1 .. Fill(n, k)
  BY DEF Place
<1>2. k \in Nat /\ i \in Nat /\ At(n, k, i) \in CellSet
  BY <1>1, FillNat
<1> QED
  BY <1>2 DEF CellSet

LEMMA CellNames ==
  /\ \A v : Stub(v)[1] = "stub" /\ Stub(v)[2] = v
  /\ \A j : Hop(j)[1] = "hop" /\ Hop(j)[2] = j
  /\ \A v, q, to : Op(v, q, to)[1] = "op" /\ Op(v, q, to)[2] = v /\ Op(v, q, to)[3] = q /\ Op(v, q, to)[4] = to
BY DEF Stub, Hop, Op

LEMMA AtStub ==
  ASSUME image \in ImageSet, NEW t \in Threads, Standing(t),
         NEW k, k = thread[t].at[1], NEW i, i = thread[t].at[2], At(image, k, i)[1] = "stub"
  PROVE  \E v \in Versions : IsStub(image, k, i, v) /\ At(image, k, i)[2] = v /\ goal[t] = <<v, 1>>
<1>1. At(image, k, i)[1] # "op" /\ \A j : At(image, k, i) # Hop(j)
  BY CellNames
<1>2. \A v, q : ~Leads(image, k, i, v, q)
  BY <1>1 DEF Leads, IsOp, IsHop
<1>3. PICK v \in Versions : IsStub(image, k, i, v) /\ goal[t] = <<v, 1>>
  BY <1>2 DEF Standing
<1> QED
  BY <1>3, CellNames DEF IsStub

LEMMA AtOp ==
  ASSUME image \in ImageSet, NEW t \in Threads, Standing(t), PublishedInv,
         NEW k, k = thread[t].at[1], NEW i, i = thread[t].at[2], At(image, k, i)[1] = "op"
  PROVE  \E v \in Versions, q \in Nat :
            /\ IsOp(image, k, i, v, q) /\ At(image, k, i)[2] = v /\ At(image, k, i)[3] = q
            /\ goal[t] = <<v, q>> /\ published[v] # Nowhere /\ Ready(image, v)
<1>1. \A j : At(image, k, i) # Hop(j) /\ At(image, k, i) # Stub(j)
  BY CellNames
<1>2. PICK v \in Versions, q \in Nat :
         published[v] # Nowhere /\ goal[t] = <<v, q>> /\ Leads(image, k, i, v, q)
  BY <1>1 DEF Standing, IsStub
<1>3. IsOp(image, k, i, v, q)
  BY <1>1, <1>2 DEF Leads, IsHop
<1>4. At(image, k, i)[2] = v /\ At(image, k, i)[3] = q
  BY <1>3 DEF IsOp
<1>5. Ready(image, v)
  BY <1>2 DEF PublishedInv
<1> QED
  BY <1>2, <1>3, <1>4, <1>5

LEMMA AtHop ==
  ASSUME image \in ImageSet, NEW t \in Threads, Standing(t), PublishedInv,
         NEW k, k = thread[t].at[1], NEW i, i = thread[t].at[2], At(image, k, i)[1] = "hop"
  PROVE  \E v \in Versions, q \in Nat, j \in Nat :
            /\ At(image, k, i)[2] = j /\ IsOp(image, j, 1, v, q)
            /\ goal[t] = <<v, q>> /\ published[v] # Nowhere /\ Ready(image, v)
<1>1. At(image, k, i)[1] # "op" /\ \A v : At(image, k, i) # Stub(v)
  BY CellNames
<1>2. PICK v \in Versions, q \in Nat :
         published[v] # Nowhere /\ goal[t] = <<v, q>> /\ Leads(image, k, i, v, q)
  BY <1>1 DEF Standing, IsStub
<1>3. PICK j \in Nat : IsHop(image, k, i, j) /\ IsOp(image, j, 1, v, q)
  BY <1>1, <1>2 DEF Leads, IsOp
<1>4. At(image, k, i)[2] = j
  BY <1>3, CellNames DEF IsHop
<1>5. Ready(image, v)
  BY <1>2 DEF PublishedInv
<1> QED
  BY <1>2, <1>3, <1>4, <1>5

\* A thread on its way to a version that is published stands well.
StandsAt(n, k, i, v, q) == Place(n, k, i) /\ Sealed(n, k) /\ Leads(n, k, i, v, q)

LEMMA BodyStands ==
  ASSUME NEW n \in ImageSet, NEW v \in Versions, Ready(n, v)
  PROVE  StandsAt(n, n.body[v][1], n.body[v][2], v, 1) /\ n.body[v] # Nowhere
<1>1. Len(Code[v]) > 0
  BY CodeAssumption
<1>2. IsOp(n, n.body[v][1], n.body[v][2], v, 1)
  BY <1>1 DEF Ready, Placed
<1>3. n.body[v][1] \in Nat /\ n.body[v][2] \in Nat
  BY DEF ImageSet, Addresses
<1>4. Sealed(n, n.body[v][1])
  BY <1>2, <1>3 DEF Ready
<1>5. Place(n, n.body[v][1], n.body[v][2]) /\ n.body[v][1] # 0
  BY <1>2 DEF IsOp, Place, Chunks
<1> QED
  BY <1>2, <1>4, <1>5 DEF StandsAt, Leads, Nowhere

LEMMA NextStands ==
  ASSUME NEW n \in ImageSet, NEW v \in Versions, Ready(n, v), NEW k \in Nat, NEW i \in Nat, NEW q \in Nat,
         IsOp(n, k, i, v, q), q < Len(Code[v])
  PROVE  StandsAt(n, k, i + 1, v, q + 1)
<1>1. Leads(n, k, i + 1, v, q + 1)
  BY DEF Ready, Placed
<1>2. Sealed(n, k)
  BY DEF Ready
<1>3. Place(n, k, i + 1)
  BY <1>1 DEF Leads, IsOp, IsHop
<1> QED
  BY <1>1, <1>2, <1>3 DEF StandsAt

LEMMA StubStands ==
  ASSUME NEW n \in ImageSet, StubInv(n), NEW v \in n.known, Sealed(n, n.entry[v][1])
  PROVE  /\ n.entry[v][1] \in Nat /\ n.entry[v][2] \in Nat /\ v \in Versions
         /\ Place(n, n.entry[v][1], n.entry[v][2]) /\ IsStub(n, n.entry[v][1], n.entry[v][2], v)
<1>1. IsStub(n, n.entry[v][1], n.entry[v][2], v)
  BY DEF StubInv
<1> QED
  BY <1>1 DEF IsStub, ImageSet, Addresses

-----------------------------------------------------------------------------
(* The other threads. *)

LEMMA StandingKept ==
  ASSUME image \in ImageSet, NEW t \in Threads, Standing(t),
         Shows(image, image'), Fixed(image, image'),
         \A v \in Versions : published[v] # Nowhere => published'[v] # Nowhere,
         thread'[t].at = thread[t].at, goal'[t] = goal[t]
  PROVE  Standing(t)'
<1>1. PICK k : k = thread[t].at[1]
  OBVIOUS
<1>2. PICK i : i = thread[t].at[2]
  OBVIOUS
<1>3. /\ Place(image, k, i) /\ Sealed(image, k)
      /\ \/ \E v \in Versions : IsStub(image, k, i, v) /\ goal[t] = <<v, 1>>
         \/ \E v \in Versions : /\ published[v] # Nowhere
                                /\ \E q \in Nat : goal[t] = <<v, q>> /\ Leads(image, k, i, v, q)
  BY <1>1, <1>2 DEF Standing
<1>4. k \in Nat /\ i \in Nat
  BY <1>3, CellKinds
<1>5. k \in Chunks(image) /\ Sealed(image', k)
  BY <1>3 DEF Place, Fixed, Sealed
<1>6. ASSUME NEW v \in Versions, IsStub(image, k, i, v)
      PROVE  IsStub(image', k, i, v)
  BY <1>4, <1>6 DEF Shows
<1>7. ASSUME NEW v \in Versions, NEW q \in Nat, Leads(image, k, i, v, q)
      PROVE  Leads(image', k, i, v, q)
  <2>1. CASE IsOp(image, k, i, v, q)
    BY <1>4, <2>1 DEF Shows, Leads
  <2>2. ASSUME NEW j \in Nat, IsHop(image, k, i, j), IsOp(image, j, 1, v, q)
        PROVE  Leads(image', k, i, v, q)
    BY <1>4, <2>2 DEF Shows, Leads
  <2> QED
    BY <1>7, <2>1, <2>2 DEF Leads
<1>8. Place(image', k, i)
  <2>1. k \in Chunks(image') /\ image'.chunks[k] = image.chunks[k]
    BY <1>3, <1>5 DEF Fixed
  <2> QED
    BY <1>3, <2>1 DEF Place, Fill
<1>9. thread'[t].at[1] = k /\ thread'[t].at[2] = i
  BY <1>1, <1>2
<1>10. \/ \E v \in Versions : IsStub(image', k, i, v) /\ goal'[t] = <<v, 1>>
       \/ \E v \in Versions : /\ published'[v] # Nowhere
                              /\ \E q \in Nat : goal'[t] = <<v, q>> /\ Leads(image', k, i, v, q)
  BY <1>3, <1>6, <1>7
<1> QED
  BY <1>5, <1>8, <1>9, <1>10 DEF Standing

LEMMA OthersKept ==
  ASSUME NativeInv, NEW t \in Threads, Shows(image, image'), Fixed(image, image'),
         \A v \in Versions : published[v] # Nowhere => published'[v] # Nowhere,
         \A u \in Threads \ {t} :
           /\ thread'[u] = thread[u] /\ goal'[u] = goal[u] /\ (lock' = u <=> lock = u)
           /\ lock = u => image' = image /\ published' = published
  PROVE  \A u \in Threads \ {t} : ThreadInv(u)'
<1>1. SUFFICES ASSUME NEW u \in Threads \ {t} PROVE ThreadInv(u)'
  OBVIOUS
<1>2. ThreadInv(u) /\ image \in ImageSet
  BY DEF NativeInv, Types
<1>3. thread'[u] = thread[u] /\ goal'[u] = goal[u]
  OBVIOUS
<1>4. thread[u].step # "host" => Standing(u)'
  BY <1>2, <1>3, StandingKept DEF ThreadInv
<1>5. ASSUME thread[u].step \notin {"host", "run"}
      PROVE  /\ thread[u].code \in Versions
             /\ IsStub(image', thread[u].at[1], thread[u].at[2], thread[u].code)
  <2>1. /\ thread[u].code \in Versions
        /\ IsStub(image, thread[u].at[1], thread[u].at[2], thread[u].code)
    BY <1>2, <1>5 DEF ThreadInv
  <2>2. thread[u].at[1] \in Nat /\ thread[u].at[2] \in Nat
    BY <1>2, <2>1, CellKinds DEF IsStub
  <2> QED
    BY <2>1, <2>2 DEF Shows
<1>6. Held(u)' <=> lock' = u
  BY <1>2, <1>3 DEF ThreadInv, Held
<1>7. Held(u)' => Stage(u)'
  <2>1. SUFFICES ASSUME Held(u)' PROVE Stage(u)'
    OBVIOUS
  <2>2. Held(u) /\ lock = u
    BY <1>2, <1>3, <2>1 DEF ThreadInv, Held
  <2>3. Stage(u) /\ image' = image /\ published' = published
    BY <1>2, <2>2 DEF ThreadInv
  <2> QED
    BY <1>3, <2>3 DEF Stage
<1> QED
  BY <1>3, <1>4, <1>5, <1>6, <1>7 DEF ThreadInv

LEMMA Unmoved ==
  ASSUME NEW n
  PROVE  Shows(n, n) /\ Fixed(n, n)
BY DEF Shows, Fixed

-----------------------------------------------------------------------------
(* The thread's own step. *)

LEMMA GotoEffect ==
  ASSUME Types, NEW t \in Threads, NEW a \in Addresses, Goto(t, a)
  PROVE  /\ thread' \in [Threads -> ThreadSet]
         /\ thread'[t].step = "run" /\ thread'[t].at = a
         /\ \A u \in Threads \ {t} : thread'[u] = thread[u]
<1>1. thread[t] \in ThreadSet /\ thread \in [Threads -> ThreadSet]
  BY DEF Types
<1>2. PICK r : r = [thread[t] EXCEPT !.step = "run", !.at = a, !.code = NoOne, !.op = 0]
  OBVIOUS
<1>3. r \in ThreadSet /\ r.step = "run" /\ r.at = a
  BY <1>1, <1>2 DEF ThreadSet, Steps
<1>4. thread' = [thread EXCEPT ![t] = r]
  BY <1>1, <1>2 DEF Goto, ThreadSet
<1> QED
  BY <1>1, <1>3, <1>4

LEMMA HostEffect ==
  ASSUME Types, NEW t \in Threads, ToHost(t)
  PROVE  /\ thread' \in [Threads -> ThreadSet]
         /\ thread'[t].step = "host"
         /\ \A u \in Threads \ {t} : thread'[u] = thread[u]
<1>1. thread[t] \in ThreadSet /\ thread \in [Threads -> ThreadSet]
  BY DEF Types
<1>2. PICK a \in Addresses : a = Nowhere
  BY DEF Nowhere, Addresses
<1>3. PICK r : r = [thread[t] EXCEPT !.step = "host", !.at = a, !.code = NoOne, !.op = 0]
  OBVIOUS
<1>4. r \in ThreadSet /\ r.step = "host"
  BY <1>1, <1>2, <1>3 DEF ThreadSet, Steps
<1>5. thread' = [thread EXCEPT ![t] = r]
  BY <1>1, <1>2, <1>3 DEF ToHost, ThreadSet
<1> QED
  BY <1>1, <1>4, <1>5

LEMMA StepEffect ==
  ASSUME Types, NEW t \in Threads, NEW step \in Steps, NEW op \in Nat, Step(t, step, op)
  PROVE  /\ thread' \in [Threads -> ThreadSet]
         /\ thread'[t].step = step /\ thread'[t].op = op
         /\ thread'[t].at = thread[t].at /\ thread'[t].code = thread[t].code
         /\ \A u \in Threads \ {t} : thread'[u] = thread[u]
<1>1. thread[t] \in ThreadSet /\ thread \in [Threads -> ThreadSet]
  BY DEF Types
<1>2. PICK r : r = [thread[t] EXCEPT !.step = step, !.op = op]
  OBVIOUS
<1>3. r \in ThreadSet /\ r.step = step /\ r.op = op /\ r.at = thread[t].at /\ r.code = thread[t].code
  BY <1>1, <1>2 DEF ThreadSet
<1>4. thread' = [thread EXCEPT ![t] = r]
  BY <1>1, <1>2 DEF Step, ThreadSet
<1> QED
  BY <1>1, <1>3, <1>4

LEMMA GoalEffect ==
  ASSUME Types, NEW t \in Threads, NEW g \in {<<>>} \cup (Versions \X Nat), goal' = [goal EXCEPT ![t] = g]
  PROVE  /\ goal' \in [Threads -> {<<>>} \cup (Versions \X Nat)]
         /\ goal'[t] = g /\ \A u \in Threads \ {t} : goal'[u] = goal[u]
BY DEF Types

-----------------------------------------------------------------------------
(* Execution does not change the image. *)

Quiet(t) ==
  /\ image' = image /\ published' = published /\ loading' = loading /\ lock' = lock
  /\ thread' \in [Threads -> ThreadSet] /\ goal' \in [Threads -> {<<>>} \cup (Versions \X Nat)]
  /\ calls' \in [Threads -> Nat]
  /\ \A u \in Threads \ {t} : thread'[u] = thread[u] /\ goal'[u] = goal[u]
  /\ loading[1] = "done"
  /\ ~Held(t) /\ thread'[t].step \in {"host", "run", "lock"}

\* What is sealed stays as it is, and after a failure everything does.
Stays ==
  /\ \A k \in Chunks(image) :
       Sealed(image, k) => k \in Chunks(image') /\ image'.chunks[k] = image.chunks[k]
  /\ image.failed => image' = image /\ published' = published

LEMMA QuietInv ==
  ASSUME NativeInv, NEW t \in Threads, Quiet(t), ThreadInv(t)'
  PROVE  NativeInv' /\ Stays
<1>1. /\ image' = image /\ published' = published /\ loading' = loading /\ lock' = lock
      /\ \A u \in Threads \ {t} : thread'[u] = thread[u] /\ goal'[u] = goal[u]
      /\ loading[1] = "done"
  BY DEF Quiet
<1>2. Types' /\ ImageInv(image)' /\ Unheld'
  BY <1>1 DEF Quiet, NativeInv, Types, Unheld
<1>3. LoadInv'
  BY <1>1 DEF NativeInv, LoadInv
<1>4. ASSUME NEW v \in Versions, Building(v)
      PROVE  Building(v)'
  <2>1. PICK u \in Threads : thread[u].code = v /\ thread[u].step \in {"emit", "publish", "store"}
    BY <1>4 DEF Building
  <2>2. u # t
    BY <2>1 DEF Quiet, Held, Holding
  <2>3. thread'[u] = thread[u]
    BY <1>1, <2>2
  <2> QED
    BY <2>1, <2>3 DEF Building
<1>5. PublishedInv'
  BY <1>1, <1>4 DEF NativeInv, PublishedInv
<1>6. \A u \in Threads \ {t} : ThreadInv(u)'
  BY <1>1, Unmoved, OthersKept
<1>7. Stays
  BY <1>1 DEF Stays
<1> QED
  BY <1>2, <1>3, <1>5, <1>6, <1>7 DEF NativeInv

\* A thread that runs, at a stub it should be at or on its way to an operation.
LEMMA Arrives ==
  ASSUME NativeInv, NEW t \in Threads, ~Held(t),
         image' = image, published' = published, lock' = lock,
         NEW k, NEW i, thread'[t].step = "run", thread'[t].at = <<k, i>>,
         \/ \E v \in Versions : /\ Place(image, k, i) /\ Sealed(image, k)
                                /\ IsStub(image, k, i, v) /\ goal'[t] = <<v, 1>>
         \/ \E v \in Versions, q \in Nat :
               published[v] # Nowhere /\ goal'[t] = <<v, q>> /\ StandsAt(image, k, i, v, q)
  PROVE  ThreadInv(t)'
<1>1. thread'[t].at[1] = k /\ thread'[t].at[2] = i
  OBVIOUS
<1>2. Standing(t)'
  BY <1>1 DEF Standing, StandsAt
<1>3. ~(lock' = t) /\ ~Held(t)'
  BY DEF NativeInv, ThreadInv, Held, Holding
<1> QED
  BY <1>2, <1>3 DEF ThreadInv

LEMMA LoadedBefore ==
  ASSUME NativeInv, NEW t \in Threads, thread[t].step # "host"
  PROVE  loading[1] = "done" /\ Standing(t) /\ image \in ImageSet /\ PublishedInv /\ Types
BY DEF NativeInv, LoadInv, ThreadInv, Types

LEMMA RunningCell ==
  ASSUME NEW t \in Threads, NEW kind, Running(t, kind),
         NEW k, k = thread[t].at[1], NEW i, i = thread[t].at[2]
  PROVE  /\ thread[t].step = "run" /\ ~Held(t)
         /\ Cell(thread[t].at) = At(image, k, i) /\ At(image, k, i)[1] = kind
BY DEF Running, Cell, At, Held, Holding

LEMMA EnterInv ==
  ASSUME NativeInv, NEW t \in Threads, NEW v \in Versions, Enter(t, v)
  PROVE  NativeInv' /\ Stays
<1>1. /\ loading[1] = "done" /\ v \in Entries /\ thread[t].step = "host" /\ calls[t] > 0
      /\ Goto(t, image.entry[v]) /\ goal' = [goal EXCEPT ![t] = <<v, 1>>]
      /\ calls' = [calls EXCEPT ![t] = @ - 1]
      /\ image' = image /\ published' = published /\ loading' = loading /\ lock' = lock
  BY DEF Enter
<1>2. Types /\ image \in ImageSet /\ StubInv(image) /\ LoadInv
  BY DEF NativeInv, Types, ImageInv
<1>3. v \in image.known /\ Sealed(image, image.entry[v][1])
  BY <1>1, <1>2 DEF LoadInv
<1>4. PICK a \in Addresses : a = image.entry[v]
  BY <1>2 DEF ImageSet
<1>5. PICK k : k = a[1]
  OBVIOUS
<1>6. PICK i : i = a[2]
  OBVIOUS
<1>7. a = <<k, i>>
  BY <1>4, <1>5, <1>6 DEF Addresses
<1>8. Place(image, k, i) /\ IsStub(image, k, i, v) /\ Sealed(image, k)
  BY <1>2, <1>3, <1>4, <1>5, <1>6, StubStands
<1>9. /\ thread' \in [Threads -> ThreadSet] /\ thread'[t].step = "run" /\ thread'[t].at = a
      /\ \A u \in Threads \ {t} : thread'[u] = thread[u]
  BY <1>1, <1>2, <1>4, GotoEffect
<1>10. /\ goal' \in [Threads -> {<<>>} \cup (Versions \X Nat)] /\ goal'[t] = <<v, 1>>
       /\ \A u \in Threads \ {t} : goal'[u] = goal[u]
  <2>1. <<v, 1>> \in {<<>>} \cup (Versions \X Nat)
    OBVIOUS
  <2> QED
    BY <1>1, <1>2, <2>1, GoalEffect
<1>11. calls' \in [Threads -> Nat]
  BY <1>1, <1>2 DEF Types
<1>12. ~Held(t)
  BY <1>1 DEF Held, Holding
<1>13. ThreadInv(t)'
  BY <1>1, <1>7, <1>8, <1>9, <1>10, <1>12, Arrives
<1>14. Quiet(t)
  BY <1>1, <1>9, <1>10, <1>11, <1>12 DEF Quiet
<1> QED
  BY <1>13, <1>14, QuietInv

LEMMA EnterStubInv ==
  ASSUME NativeInv, NEW t \in Threads, EnterStub(t)
  PROVE  NativeInv' /\ Stays
<1>1. PICK k : k = thread[t].at[1]
  OBVIOUS
<1>2. PICK i : i = thread[t].at[2]
  OBVIOUS
<1>3. Running(t, "stub")
  BY DEF EnterStub
<1>4. /\ thread[t].step = "run" /\ ~Held(t)
      /\ Cell(thread[t].at) = At(image, k, i) /\ At(image, k, i)[1] = "stub"
  BY <1>1, <1>2, <1>3, RunningCell
<1>5. loading[1] = "done" /\ Standing(t) /\ image \in ImageSet /\ PublishedInv /\ Types
  BY <1>4, LoadedBefore
<1>6. PICK v \in Versions : IsStub(image, k, i, v) /\ At(image, k, i)[2] = v /\ goal[t] = <<v, 1>>
  BY <1>1, <1>2, <1>4, <1>5, AtStub
<1>7. /\ image' = image /\ published' = published /\ loading' = loading /\ lock' = lock
      /\ goal' = goal /\ calls' = calls
      /\ IF published[v] # Nowhere THEN Goto(t, published[v])
         ELSE thread' = [thread EXCEPT ![t].step = "lock", ![t].code = v]
  BY <1>4, <1>6 DEF EnterStub
<1>8. CASE published[v] # Nowhere
  <2>1. published[v] = image.body[v] /\ Ready(image, v)
    BY <1>5, <1>8 DEF PublishedInv
  <2>2. PICK a \in Addresses : a = published[v]
    BY <1>5 DEF Types
  <2>3. PICK l : l = a[1]
    OBVIOUS
  <2>4. PICK j : j = a[2]
    OBVIOUS
  <2>5. a = <<l, j>>
    BY <2>2, <2>3, <2>4 DEF Addresses
  <2>6. StandsAt(image, l, j, v, 1)
    BY <1>5, <2>1, <2>2, <2>3, <2>4, BodyStands
  <2>7. /\ thread' \in [Threads -> ThreadSet] /\ thread'[t].step = "run" /\ thread'[t].at = a
        /\ \A u \in Threads \ {t} : thread'[u] = thread[u]
    BY <1>5, <1>7, <1>8, <2>2, GotoEffect
  <2>8. goal'[t] = <<v, 1>> /\ 1 \in Nat
    BY <1>6, <1>7
  <2>9. ThreadInv(t)'
    BY <1>4, <1>7, <1>8, <2>5, <2>6, <2>7, <2>8, Arrives
  <2>10. Quiet(t)
    BY <1>4, <1>5, <1>7, <2>7 DEF Quiet, Types
  <2> QED
    BY <2>9, <2>10, QuietInv
<1>9. CASE published[v] = Nowhere
  <2>1. thread[t] \in ThreadSet /\ thread \in [Threads -> ThreadSet]
    BY <1>5 DEF Types
  <2>2. PICK r : r = [thread[t] EXCEPT !.step = "lock", !.code = v]
    OBVIOUS
  <2>3. r \in ThreadSet /\ r.step = "lock" /\ r.code = v /\ r.at = thread[t].at
    BY <2>1, <2>2 DEF ThreadSet, Steps
  <2>4. thread' = [thread EXCEPT ![t] = r]
    BY <1>7, <1>9, <2>1, <2>2 DEF ThreadSet
  <2>5. /\ thread' \in [Threads -> ThreadSet] /\ thread'[t] = r
        /\ \A u \in Threads \ {t} : thread'[u] = thread[u]
    BY <2>1, <2>3, <2>4
  <2>6. Standing(t)'
    BY <1>5, <1>7, <2>3, <2>5, Unmoved, StandingKept
  <2>7. ~(lock' = t) /\ ~Held(t)'
    BY <1>4, <1>7, <2>3, <2>5 DEF NativeInv, ThreadInv, Held, Holding
  <2>8. ThreadInv(t)'
    BY <1>1, <1>2, <1>6, <1>7, <2>3, <2>5, <2>6, <2>7 DEF ThreadInv
  <2>9. Quiet(t)
    BY <1>4, <1>5, <1>7, <2>3, <2>5 DEF Quiet, Types
  <2> QED
    BY <2>8, <2>9, QuietInv
<1> QED
  BY <1>8, <1>9

LEMMA FollowHopInv ==
  ASSUME NativeInv, NEW t \in Threads, FollowHop(t)
  PROVE  NativeInv' /\ Stays
<1>1. PICK k : k = thread[t].at[1]
  OBVIOUS
<1>2. PICK i : i = thread[t].at[2]
  OBVIOUS
<1>3. Running(t, "hop")
  BY DEF FollowHop
<1>4. /\ thread[t].step = "run" /\ ~Held(t)
      /\ Cell(thread[t].at) = At(image, k, i) /\ At(image, k, i)[1] = "hop"
  BY <1>1, <1>2, <1>3, RunningCell
<1>5. loading[1] = "done" /\ Standing(t) /\ image \in ImageSet /\ PublishedInv /\ Types
  BY <1>4, LoadedBefore
<1>6. PICK v \in Versions, q \in Nat, j \in Nat :
            /\ At(image, k, i)[2] = j /\ IsOp(image, j, 1, v, q)
            /\ goal[t] = <<v, q>> /\ published[v] # Nowhere /\ Ready(image, v)
  BY <1>1, <1>2, <1>4, <1>5, AtHop
<1>7. /\ image' = image /\ published' = published /\ loading' = loading /\ lock' = lock
      /\ goal' = goal /\ calls' = calls /\ Goto(t, <<j, 1>>)
  BY <1>4, <1>6 DEF FollowHop
<1>8. PICK a \in Addresses : a = <<j, 1>>
  BY DEF Addresses
<1>9. /\ thread' \in [Threads -> ThreadSet] /\ thread'[t].step = "run" /\ thread'[t].at = a
      /\ \A u \in Threads \ {t} : thread'[u] = thread[u]
  BY <1>5, <1>7, <1>8, GotoEffect
<1>10. StandsAt(image, j, 1, v, q)
  BY <1>6 DEF StandsAt, Leads, Ready, IsOp
<1>11. goal'[t] = <<v, q>>
  BY <1>6, <1>7
<1>12. ThreadInv(t)'
  BY <1>4, <1>6, <1>7, <1>8, <1>9, <1>10, <1>11, Arrives
<1>13. Quiet(t)
  BY <1>4, <1>5, <1>7, <1>9 DEF Quiet, Types
<1> QED
  BY <1>12, <1>13, QuietInv

LEMMA FallThroughInv ==
  ASSUME NativeInv, NEW t \in Threads, FallThrough(t)
  PROVE  NativeInv' /\ Stays
<1>1. PICK k : k = thread[t].at[1]
  OBVIOUS
<1>2. PICK i : i = thread[t].at[2]
  OBVIOUS
<1>3. Running(t, "op")
  BY DEF FallThrough
<1>4. /\ thread[t].step = "run" /\ ~Held(t)
      /\ Cell(thread[t].at) = At(image, k, i) /\ At(image, k, i)[1] = "op"
  BY <1>1, <1>2, <1>3, RunningCell
<1>5. loading[1] = "done" /\ Standing(t) /\ image \in ImageSet /\ PublishedInv /\ Types
  BY <1>4, LoadedBefore
<1>6. PICK v \in Versions, q \in Nat :
            /\ IsOp(image, k, i, v, q) /\ At(image, k, i)[2] = v /\ At(image, k, i)[3] = q
            /\ goal[t] = <<v, q>> /\ published[v] # Nowhere /\ Ready(image, v)
  BY <1>1, <1>2, <1>4, <1>5, AtOp
<1>7. /\ image' = image /\ published' = published /\ loading' = loading /\ lock' = lock
      /\ goal' = [goal EXCEPT ![t][2] = @ + 1] /\ calls' = calls
      /\ q < Len(Code[v]) /\ Goto(t, <<k, i + 1>>)
  BY <1>1, <1>2, <1>4, <1>6 DEF FallThrough
<1>8. k \in Nat /\ i \in Nat
  BY <1>5, <1>6, CellKinds DEF IsOp
<1>9. PICK a \in Addresses : a = <<k, i + 1>>
  <2>1. i + 1 \in Nat
    BY <1>8
  <2>2. <<k, i + 1>> \in Addresses
    BY <1>8, <2>1 DEF Addresses
  <2> QED
    BY <2>2
<1>10. /\ thread' \in [Threads -> ThreadSet] /\ thread'[t].step = "run" /\ thread'[t].at = a
       /\ \A u \in Threads \ {t} : thread'[u] = thread[u]
  BY <1>5, <1>7, <1>9, GotoEffect
<1>11. StandsAt(image, k, i + 1, v, q + 1)
  BY <1>5, <1>6, <1>7, <1>8, NextStands
<1>12. PICK g \in {<<>>} \cup (Versions \X Nat) : g = <<v, q + 1>>
  <2>1. q + 1 \in Nat
    OBVIOUS
  <2>2. <<v, q + 1>> \in {<<>>} \cup (Versions \X Nat)
    BY <2>1
  <2> QED
    BY <2>2
<1>13. goal' = [goal EXCEPT ![t] = g]
  <2>1. [goal[t] EXCEPT ![2] = @ + 1] = <<v, q + 1>>
    BY <1>6
  <2> QED
    BY <1>7, <1>12, <2>1
<1>14. /\ goal' \in [Threads -> {<<>>} \cup (Versions \X Nat)] /\ goal'[t] = g
       /\ \A u \in Threads \ {t} : goal'[u] = goal[u]
  BY <1>5, <1>13, GoalEffect
<1>15. goal'[t] = <<v, q + 1>> /\ q + 1 \in Nat /\ thread'[t].at = <<k, i + 1>>
  BY <1>9, <1>10, <1>12, <1>14
<1>16. ThreadInv(t)'
  BY <1>4, <1>6, <1>7, <1>10, <1>11, <1>15, Arrives
<1>17. Quiet(t)
  BY <1>4, <1>5, <1>7, <1>10, <1>14 DEF Quiet, Types
<1> QED
  BY <1>16, <1>17, QuietInv

LEMMA BranchInv ==
  ASSUME NativeInv, NEW t \in Threads, Branch(t)
  PROVE  NativeInv' /\ Stays
<1>1. PICK k : k = thread[t].at[1]
  OBVIOUS
<1>2. PICK i : i = thread[t].at[2]
  OBVIOUS
<1>3. Running(t, "op")
  BY DEF Branch
<1>4. /\ thread[t].step = "run" /\ ~Held(t)
      /\ Cell(thread[t].at) = At(image, k, i) /\ At(image, k, i)[1] = "op"
  BY <1>1, <1>2, <1>3, RunningCell
<1>5. loading[1] = "done" /\ Standing(t) /\ image \in ImageSet /\ PublishedInv /\ Types
  BY <1>4, LoadedBefore
<1>6. PICK v \in Versions, q \in Nat :
            /\ IsOp(image, k, i, v, q) /\ At(image, k, i)[2] = v /\ At(image, k, i)[3] = q
            /\ goal[t] = <<v, q>> /\ published[v] # Nowhere /\ Ready(image, v)
  BY <1>1, <1>2, <1>4, <1>5, AtOp
<1>7. /\ image' = image /\ published' = published /\ loading' = loading /\ lock' = lock
      /\ calls' = calls /\ IsTarget(v, q) /\ Goto(t, At(image, k, i)[4])
      /\ goal' = [goal EXCEPT ![t] = <<Code[v][q], 1>>]
  BY <1>4, <1>6 DEF Branch
<1>8. k \in Nat /\ i \in Nat
  BY <1>5, <1>6, CellKinds DEF IsOp
<1>9. PICK w \in Versions : w = Code[v][q]
  BY <1>7 DEF IsTarget
<1>10. At(image, k, i)[4] = image.entry[w] /\ w \in image.known /\ Sealed(image, image.entry[w][1])
  BY <1>6, <1>7, <1>8, <1>9 DEF Ready
<1>11. PICK a \in Addresses : a = image.entry[w]
  BY <1>5 DEF ImageSet
<1>12. PICK l : l = a[1]
  OBVIOUS
<1>13. PICK j : j = a[2]
  OBVIOUS
<1>14. a = <<l, j>>
  BY <1>11, <1>12, <1>13 DEF Addresses
<1>15. StubInv(image)
  BY DEF NativeInv, ImageInv
<1>16. Place(image, l, j) /\ IsStub(image, l, j, w) /\ Sealed(image, l)
  BY <1>5, <1>10, <1>11, <1>12, <1>13, <1>15, StubStands
<1>17. /\ thread' \in [Threads -> ThreadSet] /\ thread'[t].step = "run" /\ thread'[t].at = a
       /\ \A u \in Threads \ {t} : thread'[u] = thread[u]
  <2>1. Goto(t, a)
    BY <1>7, <1>10, <1>11
  <2> QED
    BY <1>5, <2>1, GotoEffect
<1>18. /\ goal' \in [Threads -> {<<>>} \cup (Versions \X Nat)] /\ goal'[t] = <<w, 1>>
       /\ \A u \in Threads \ {t} : goal'[u] = goal[u]
  <2>1. <<w, 1>> \in {<<>>} \cup (Versions \X Nat)
    OBVIOUS
  <2> QED
    BY <1>5, <1>7, <1>9, <2>1, GoalEffect
<1>19. ThreadInv(t)'
  BY <1>4, <1>7, <1>14, <1>16, <1>17, <1>18, Arrives
<1>20. Quiet(t)
  BY <1>4, <1>5, <1>7, <1>17, <1>18 DEF Quiet, Types
<1> QED
  BY <1>19, <1>20, QuietInv

LEMMA LeaveInv ==
  ASSUME NativeInv, NEW t \in Threads, Leave(t)
  PROVE  NativeInv' /\ Stays
<1>1. Running(t, "op") /\ ToHost(t) /\ goal' = [goal EXCEPT ![t] = <<>>]
      /\ image' = image /\ published' = published /\ loading' = loading /\ lock' = lock /\ calls' = calls
  BY DEF Leave
<1>2. thread[t].step = "run" /\ ~Held(t)
  BY <1>1, RunningCell
<1>3. loading[1] = "done" /\ Types
  BY <1>2, LoadedBefore
<1>4. /\ thread' \in [Threads -> ThreadSet] /\ thread'[t].step = "host"
      /\ \A u \in Threads \ {t} : thread'[u] = thread[u]
  BY <1>1, <1>3, HostEffect
<1>5. /\ goal' \in [Threads -> {<<>>} \cup (Versions \X Nat)]
      /\ \A u \in Threads \ {t} : goal'[u] = goal[u]
  BY <1>1, <1>3, GoalEffect
<1>6. ~(lock' = t) /\ ~Held(t)'
  BY <1>1, <1>2, <1>4 DEF NativeInv, ThreadInv, Held, Holding
<1>7. ThreadInv(t)'
  BY <1>4, <1>6 DEF ThreadInv
<1>8. Quiet(t)
  BY <1>1, <1>2, <1>3, <1>4, <1>5 DEF Quiet, Types
<1> QED
  BY <1>7, <1>8, QuietInv

-----------------------------------------------------------------------------
(* Preparation, under the mutex. *)

\* A step of thread t that concerns its version v.
Moves(t, v) ==
  /\ loading' = loading /\ calls' = calls
  /\ lock \in {t, NoOne} /\ lock' \in {t, NoOne}
  /\ image' \in ImageSet /\ ImageInv(image') /\ Keeps(image, image', Versions \ {v})
  /\ image.failed => image' = image /\ published' = published
  /\ published' \in [Versions -> Addresses]
  /\ \A u \in Versions \ {v} : published'[u] = published[u]
  /\ published[v] # Nowhere => published'[v] # Nowhere
  /\ thread' \in [Threads -> ThreadSet] /\ goal' \in [Threads -> {<<>>} \cup (Versions \X Nat)]
  /\ \A u \in Threads \ {t} : thread'[u] = thread[u] /\ goal'[u] = goal[u]

LEMMA LoadKept ==
  ASSUME image \in ImageSet, StubInv(image), LoadInv, loading[1] = "done", loading' = loading,
         Fixed(image, image'), SameEntries(image, image')
  PROVE  LoadInv'
<1>1. ASSUME NEW v \in Entries
      PROVE  v \in image'.known /\ Sealed(image', image'.entry[v][1])
  <2>1. v \in image.known /\ Sealed(image, image.entry[v][1])
    BY <1>1 DEF LoadInv
  <2>2. image.entry[v][1] \in Chunks(image)
    BY <2>1 DEF StubInv, IsStub, Place
  <2>3. v \in image'.known /\ image'.entry[v] = image.entry[v]
    BY <2>1 DEF SameEntries
  <2> QED
    BY <2>1, <2>2, <2>3 DEF Fixed, Sealed
<1> QED
  BY <1>1 DEF LoadInv

LEMMA MovesInv ==
  ASSUME NativeInv, NEW t \in Threads, NEW v \in Versions, thread[t].code = v, thread[t].step # "host",
         Moves(t, v), ThreadInv(t)', Unheld',
         published'[v] # Nowhere => published'[v] = image'.body[v] /\ Ready(image', v),
         published'[v] = Nowhere /\ ~image'.failed => NoOps(image', v) \/ Building(v)'
  PROVE  NativeInv' /\ Stays
<1>1. loading[1] = "done" /\ image \in ImageSet /\ PublishedInv /\ Types
  BY LoadedBefore
<1>2. /\ lock \in {t, NoOne} /\ lock' \in {t, NoOne} /\ Keeps(image, image', Versions \ {v})
      /\ \A u \in Versions \ {v} : published'[u] = published[u]
      /\ image.failed => image'.failed
  <2>1. image.failed => image'.failed
    BY DEF Moves
  <2> QED
    BY <2>1 DEF Moves
<1>3. Shows(image, image') /\ Fixed(image, image') /\ SameEntries(image, image')
  BY <1>2 DEF Keeps
<1>4. StubInv(image) /\ LoadInv
  BY DEF NativeInv, ImageInv
<1>5. LoadInv'
  BY <1>1, <1>3, <1>4, LoadKept DEF Moves
<1>6. Types' /\ ImageInv(image)'
  BY <1>1 DEF Moves, Types
<1>7. ASSUME NEW u \in Versions \ {v}
      PROVE  /\ published'[u] # Nowhere => published'[u] = image'.body[u] /\ Ready(image', u)
             /\ published'[u] = Nowhere /\ ~image'.failed => NoOps(image', u)
  <2>1. published'[u] = published[u] /\ Untouched(image, image', Versions \ {v})
    BY <1>2 DEF Keeps
  <2>2. ASSUME published'[u] # Nowhere
        PROVE  published'[u] = image'.body[u] /\ Ready(image', u)
    <3>1. published[u] = image.body[u] /\ Ready(image, u)
      BY <1>1, <2>1, <2>2 DEF PublishedInv
    <3>2. Ready(image', u)
      BY <1>1, <1>2, <1>4, <3>1, KeepsReady
    <3> QED
      BY <2>1, <3>1, <3>2 DEF Untouched
  <2>3. ASSUME published'[u] = Nowhere, ~image'.failed
        PROVE  NoOps(image', u)
    <3>1. NoOps(image, u) \/ Building(u)
      BY <1>1, <1>2, <2>1, <2>3 DEF PublishedInv
    <3>2. ~Building(u)
      <4>1. SUFFICES ASSUME NEW w \in Threads, thread[w].code = u,
                            thread[w].step \in {"emit", "publish", "store"}
                     PROVE FALSE
        BY DEF Building
      <4>2. Held(w) /\ lock = w
        BY <4>1 DEF NativeInv, ThreadInv, Held, Holding
      <4>3. w # t
        BY <4>1
      <4> QED
        BY <1>2, <4>2, <4>3, NoOneAssumption
    <3> QED
      BY <2>1, <3>1, <3>2 DEF NoOps, Untouched
  <2> QED
    BY <2>2, <2>3
<1>8. PublishedInv'
  BY <1>7 DEF PublishedInv
<1>9. \A u \in Threads \ {t} : ThreadInv(u)'
  <2>1. \A w \in Versions : published[w] # Nowhere => published'[w] # Nowhere
    BY <1>2 DEF Moves
  <2>2. \A u \in Threads \ {t} :
          /\ thread'[u] = thread[u] /\ goal'[u] = goal[u] /\ (lock' = u <=> lock = u)
          /\ lock = u => image' = image /\ published' = published
    BY <1>2, NoOneAssumption DEF Moves
  <2> QED
    BY <1>3, <2>1, <2>2, OthersKept
<1>10. Stays
  BY <1>3 DEF Stays, Fixed, Moves
<1> QED
  BY <1>5, <1>6, <1>8, <1>9, <1>10 DEF NativeInv

\* The holder goes on.
LEMMA HolderStays ==
  ASSUME NativeInv, NEW t \in Threads, NEW v \in Versions, thread[t].code = v,
         thread[t].step \notin {"host", "run"}, Moves(t, v), lock' = t, goal' = goal,
         thread'[t].at = thread[t].at, thread'[t].code = v, thread'[t].step \in Holding, Stage(t)'
  PROVE  ThreadInv(t)'
<1>1. Standing(t) /\ image \in ImageSet
  BY LoadedBefore
<1>2. IsStub(image, thread[t].at[1], thread[t].at[2], v)
  BY DEF NativeInv, ThreadInv
<1>3. Shows(image, image') /\ Fixed(image, image')
  BY DEF Moves, Keeps
<1>4. \A w \in Versions : published[w] # Nowhere => published'[w] # Nowhere
  BY DEF Moves
<1>5. Standing(t)'
  BY <1>1, <1>3, <1>4, StandingKept
<1>6. thread[t].at[1] \in Nat /\ thread[t].at[2] \in Nat
  BY <1>1, <1>2, CellKinds DEF IsStub
<1>7. IsStub(image', thread[t].at[1], thread[t].at[2], v)
  BY <1>2, <1>3, <1>6 DEF Shows
<1>8. Held(t)'
  BY DEF Held
<1> QED
  BY <1>5, <1>7, <1>8 DEF ThreadInv

LEMMA HolderFacts ==
  ASSUME NativeInv, NEW t \in Threads, Held(t)
  PROVE  /\ lock = t /\ thread[t].code \in Versions /\ thread[t].step \notin {"host", "run"}
         /\ thread[t].step # "host" /\ Stage(t)
         /\ image \in ImageSet /\ ImageInv(image) /\ Types /\ PublishedInv
BY DEF NativeInv, ThreadInv, Held, Holding, Types

LEMMA LockInv ==
  ASSUME NativeInv, NEW t \in Threads, Lock(t)
  PROVE  NativeInv' /\ Stays
<1>1. /\ thread[t].step = "lock" /\ lock = NoOne /\ lock' = t
      /\ published' = published /\ loading' = loading /\ goal' = goal /\ calls' = calls
  BY DEF Lock
<1>2. loading[1] = "done" /\ image \in ImageSet /\ PublishedInv /\ Types /\ Standing(t)
  BY <1>1, LoadedBefore
<1>3. PICK v \in Versions : v = thread[t].code
  BY <1>1 DEF NativeInv, ThreadInv
<1>4. image.failed \/ AllSealed(image)
  BY <1>1, <1>2 DEF NativeInv, Unheld
<1>5. ~Building(v)
  <2>1. \A w \in Threads : thread[w].step \notin {"emit", "publish", "store"}
    BY <1>1, NoOneAssumption DEF NativeInv, ThreadInv, Held, Holding
  <2> QED
    BY <2>1 DEF Building
<1>6. ImageInv(image) /\ StubInv(image)
  BY DEF NativeInv, ImageInv
<1>7. CASE Settled(v)
  <2>1. Step(t, "unlock", 0) /\ image' = image
    BY <1>3, <1>7 DEF Lock
  <2>2. /\ thread' \in [Threads -> ThreadSet] /\ thread'[t].step = "unlock"
        /\ thread'[t].at = thread[t].at /\ thread'[t].code = thread[t].code
        /\ \A u \in Threads \ {t} : thread'[u] = thread[u]
    BY <1>2, <2>1, StepEffect DEF Steps, Holding
  <2>3. Keeps(image, image', Versions \ {v})
    BY <2>1 DEF Keeps, Shows, Fixed, Untouched, SameEntries
  <2>4. Moves(t, v)
    BY <1>1, <1>2, <1>6, <2>1, <2>2, <2>3 DEF Moves, Types
  <2>5. Stage(t)'
    BY <1>4, <2>1, <2>2 DEF Stage
  <2>6. ThreadInv(t)'
    BY <1>1, <1>3, <2>2, <2>4, <2>5, HolderStays DEF Holding
  <2>7. Unheld'
    BY <1>1, NoOneAssumption DEF Unheld
  <2>8. published'[v] # Nowhere => published'[v] = image'.body[v] /\ Ready(image', v)
    BY <1>1, <1>2, <2>1 DEF PublishedInv
  <2>9. published'[v] = Nowhere /\ ~image'.failed => NoOps(image', v)
    BY <1>1, <1>2, <1>5, <2>1 DEF PublishedInv
  <2> QED
    BY <1>1, <1>3, <2>4, <2>6, <2>7, <2>8, <2>9, MovesInv
<1>8. CASE ~Settled(v)
  <2>1. Step(t, "bind", 0) /\ image' = [image EXCEPT !.writable = TRUE, !.current = 0]
    BY <1>3, <1>8 DEF Lock
  <2>2. /\ thread' \in [Threads -> ThreadSet] /\ thread'[t].step = "bind"
        /\ thread'[t].at = thread[t].at /\ thread'[t].code = thread[t].code
        /\ \A u \in Threads \ {t} : thread'[u] = thread[u]
    BY <1>2, <2>1, StepEffect DEF Steps, Holding
  <2>3. published[v] = Nowhere /\ ~image.failed
    BY <1>8 DEF Settled
  <2>4. PICK r : r = image'
    OBVIOUS
  <2>5. Shut(image, r) /\ r.current = 0 /\ r.stubs = image.stubs /\ r.failed = image.failed
    <3>1. PICK b \in BOOLEAN : b = TRUE
      OBVIOUS
    <3>2. PICK z \in Nat : z = 0
      OBVIOUS
    <3>3. r = [image EXCEPT !.writable = b, !.current = z]
      BY <2>1, <2>4, <3>1, <3>2
    <3> QED
      BY <1>2, <3>2, <3>3 DEF ImageSet, Shut
  <2>6. AllSealed(r)
    BY <1>4, <2>3, <2>5, ShutSame DEF AllSealed, Shut
  <2>7. RoomInv(r)
    BY <1>6, <2>5, <2>6, ShutSame DEF ImageInv, RoomInv, AllSealed
  <2>8. StubInv(r) /\ OpInv(r)
    BY <1>6, <2>5, ShutSame DEF ImageInv, StubInv, OpInv, Shut
  <2>9. FixupInv(r)
    BY <1>6, <2>5, ShutSame DEF ImageInv, FixupInv, Shut
  <2>10. ImageInv(r)
    BY <2>7, <2>8, <2>9 DEF ImageInv
  <2>11. Keeps(image, r, Versions \ {v})
    BY <2>5, ShutKeeps DEF Keeps, Untouched
  <2>12. Moves(t, v)
    BY <1>1, <1>2, <2>2, <2>3, <2>4, <2>5, <2>10, <2>11 DEF Moves, Types, Shut
  <2>13. NoOps(image, v)
    BY <1>2, <1>5, <2>3 DEF PublishedInv
  <2>14. NoOps(r, v)
    BY <2>5, <2>13, ShutSame DEF NoOps
  <2>15. Stage(t)'
    BY <1>1, <1>3, <2>2, <2>3, <2>4, <2>5, <2>6, <2>14 DEF Stage
  <2>16. ThreadInv(t)'
    BY <1>1, <1>3, <2>2, <2>12, <2>15, HolderStays DEF Holding
  <2>17. Unheld'
    BY <1>1, NoOneAssumption DEF Unheld
  <2> QED
    BY <1>1, <1>3, <2>3, <2>4, <2>12, <2>14, <2>16, <2>17, MovesInv
<1> QED
  BY <1>7, <1>8

\* A step of the holder that leaves the slots alone and keeps the mutex.
Works(t, v, step, op) ==
  /\ lock' = lock /\ loading' = loading /\ calls' = calls /\ goal' = goal /\ published' = published
  /\ Step(t, step, op) /\ step \in Holding /\ op \in Nat
  /\ image' \in ImageSet /\ ImageInv(image') /\ Keeps(image, image', Versions \ {v})

LEMMA WorksInv ==
  ASSUME NativeInv, NEW t \in Threads, Held(t), NEW v \in Versions, thread[t].code = v,
         thread[t].step # "unlock", NEW step, NEW op, Works(t, v, step, op),
         Stage(t)', ~image'.failed => step \in {"emit", "publish", "store"}
  PROVE  NativeInv' /\ Stays
<1>1. /\ lock = t /\ thread[t].step \notin {"host", "run"} /\ thread[t].step # "host" /\ Stage(t) /\ Types
      /\ lock' = t /\ published' = published /\ goal' = goal
  BY HolderFacts DEF Works
<1>2. published[v] = Nowhere /\ ~image.failed
  BY <1>1 DEF Stage
<1>3. /\ thread' \in [Threads -> ThreadSet] /\ thread'[t].step = step
      /\ thread'[t].at = thread[t].at /\ thread'[t].code = thread[t].code
      /\ \A u \in Threads \ {t} : thread'[u] = thread[u]
  BY <1>1, StepEffect DEF Steps, Works
<1>4. Moves(t, v)
  BY <1>1, <1>2, <1>3 DEF Moves, Types, Works
<1>5. ThreadInv(t)'
  BY <1>1, <1>3, <1>4, HolderStays DEF Works
<1>6. Unheld'
  BY <1>1, NoOneAssumption DEF Unheld
<1>7. ~image'.failed => Building(v)'
  BY <1>3 DEF Building
<1> QED
  BY <1>1, <1>2, <1>4, <1>5, <1>6, <1>7, MovesInv

LEMMA PrepareBindInv ==
  ASSUME NativeInv, NEW t \in Threads, PrepareBind(t)
  PROVE  NativeInv' /\ Stays
<1>1. /\ thread[t].step = "bind" /\ image' = Bind(image, thread[t].code) /\ Step(t, "emit", 1)
      /\ published' = published /\ loading' = loading /\ lock' = lock /\ goal' = goal /\ calls' = calls
  BY DEF PrepareBind
<1>2. Held(t)
  BY <1>1 DEF Held, Holding
<1>3. /\ Stage(t) /\ image \in ImageSet /\ ImageInv(image) /\ Types
  BY <1>2, HolderFacts
<1>4. PICK v \in Versions : v = thread[t].code
  BY <1>2, HolderFacts
<1>5. ~image.failed /\ published[v] = Nowhere /\ AllSealed(image) /\ NoOps(image, v)
  BY <1>1, <1>3, <1>4 DEF Stage
<1>6. PICK b : b = image'
  OBVIOUS
<1>7. /\ b \in ImageSet /\ ImageInv(b) /\ ~b.failed /\ Keeps(image, b, Versions \ {v})
      /\ Placed(b, v, 0) /\ Latest(b, v, 0) /\ Open(b, v)
  <2>1. b = Bind(image, v) /\ image.current = 0
    BY <1>1, <1>4, <1>5, <1>6 DEF AllSealed
  <2> QED
    BY <1>3, <1>5, <2>1, BodyBound
<1>8. /\ thread'[t].step = "emit" /\ thread'[t].op = 1 /\ thread'[t].code = v
  BY <1>1, <1>3, <1>4, StepEffect DEF Steps, Holding
<1>9. 1 \in 1 .. Len(Code[v]) /\ 1 - 1 = 0
  BY CodeAssumption
<1>10. Stage(t)'
  BY <1>1, <1>5, <1>6, <1>7, <1>8, <1>9 DEF Stage
<1>11. Works(t, v, "emit", 1)
  BY <1>1, <1>6, <1>7 DEF Works, Holding
<1> QED
  BY <1>1, <1>2, <1>4, <1>10, <1>11, WorksInv

LEMMA PrepareOpInv ==
  ASSUME NativeInv, NEW t \in Threads, PrepareOp(t)
  PROVE  NativeInv' /\ Stays
<1>1. /\ thread[t].step = "emit"
      /\ published' = published /\ loading' = loading /\ lock' = lock /\ goal' = goal /\ calls' = calls
  BY DEF PrepareOp
<1>2. Held(t)
  BY <1>1 DEF Held, Holding
<1>3. /\ Stage(t) /\ image \in ImageSet /\ ImageInv(image) /\ Types
  BY <1>2, HolderFacts
<1>4. PICK v \in Versions : v = thread[t].code
  BY <1>2, HolderFacts
<1>5. PICK i : i = thread[t].op
  OBVIOUS
<1>6. /\ ~image.failed /\ published[v] = Nowhere /\ Open(image, v)
      /\ i \in 1 .. Len(Code[v]) /\ Placed(image, v, i - 1) /\ Latest(image, v, i - 1)
  BY <1>1, <1>3, <1>4, <1>5 DEF Stage
<1>7. /\ image' = Emit(image, v, i)
      /\ IF i < Len(Code[v]) THEN Step(t, "emit", i + 1) ELSE Step(t, "publish", 0)
  BY <1>4, <1>5 DEF PrepareOp
<1>8. PICK e : e = image'
  OBVIOUS
<1>9. /\ e \in ImageSet /\ ImageInv(e) /\ ~e.failed /\ Keeps(image, e, Versions \ {v})
      /\ Placed(e, v, i) /\ Latest(e, v, i) /\ Open(e, v)
  BY <1>3, <1>6, <1>7, <1>8, OpMade
<1>10. i \in Nat /\ i <= Len(Code[v]) /\ Len(Code[v]) \in Nat
  BY <1>6, CodeAssumption
<1>11. CASE i < Len(Code[v])
  <2>1. PICK j \in Nat : j = i + 1
    BY <1>10
  <2>2. j \in 1 .. Len(Code[v]) /\ j - 1 = i
    BY <1>10, <1>11, <2>1
  <2>3. Step(t, "emit", j)
    BY <1>7, <1>11, <2>1
  <2>4. /\ thread'[t].step = "emit" /\ thread'[t].op = j /\ thread'[t].code = v
    BY <1>3, <1>4, <2>3, StepEffect DEF Steps, Holding
  <2>5. Stage(t)'
    BY <1>1, <1>6, <1>8, <1>9, <2>2, <2>4 DEF Stage
  <2>6. Works(t, v, "emit", j)
    BY <1>1, <1>8, <1>9, <2>3 DEF Works, Holding
  <2> QED
    BY <1>1, <1>2, <1>4, <2>5, <2>6, WorksInv
<1>12. CASE ~(i < Len(Code[v]))
  <2>1. i = Len(Code[v])
    BY <1>10, <1>12
  <2>2. Step(t, "publish", 0)
    BY <1>7, <1>12
  <2>3. /\ thread'[t].step = "publish" /\ thread'[t].code = v
    BY <1>3, <1>4, <2>2, StepEffect DEF Steps, Holding
  <2>4. Stage(t)'
    BY <1>1, <1>6, <1>8, <1>9, <2>1, <2>3 DEF Stage
  <2>5. Works(t, v, "publish", 0)
    BY <1>1, <1>8, <1>9, <2>2 DEF Works, Holding
  <2> QED
    BY <1>1, <1>2, <1>4, <2>4, <2>5, WorksInv
<1> QED
  BY <1>11, <1>12

LEMMA PreparePublishInv ==
  ASSUME NativeInv, NEW t \in Threads, PreparePublish(t)
  PROVE  NativeInv' /\ Stays
<1>1. /\ thread[t].step = "publish" /\ image' = Published(image) /\ Step(t, "store", 0)
      /\ published' = published /\ loading' = loading /\ lock' = lock /\ goal' = goal /\ calls' = calls
  BY DEF PreparePublish
<1>2. Held(t)
  BY <1>1 DEF Held, Holding
<1>3. /\ Stage(t) /\ image \in ImageSet /\ ImageInv(image) /\ Types
  BY <1>2, HolderFacts
<1>4. PICK v \in Versions : v = thread[t].code
  BY <1>2, HolderFacts
<1>5. ~image.failed /\ published[v] = Nowhere /\ Open(image, v) /\ Placed(image, v, Len(Code[v]))
  BY <1>1, <1>3, <1>4 DEF Stage
<1>6. PICK r : r = image'
  OBVIOUS
<1>7. /\ r \in ImageSet /\ ImageInv(r) /\ ~r.failed /\ AllSealed(r) /\ Keeps(image, r, Versions)
      /\ Ready(r, v)
  BY <1>1, <1>3, <1>5, <1>6, PublishEffect
<1>8. Keeps(image, r, Versions \ {v})
  BY <1>7 DEF Keeps, Untouched
<1>9. thread'[t].step = "store" /\ thread'[t].code = v
  BY <1>1, <1>3, <1>4, StepEffect DEF Steps, Holding
<1>10. Stage(t)'
  BY <1>1, <1>5, <1>6, <1>7, <1>9 DEF Stage
<1>11. Works(t, v, "store", 0)
  BY <1>1, <1>6, <1>7, <1>8 DEF Works, Holding
<1> QED
  BY <1>1, <1>2, <1>4, <1>10, <1>11, WorksInv

\* A preparation that fails, after some chunks have been sealed or none.
LEMMA FailInv ==
  ASSUME NativeInv, NEW t \in Threads, Held(t), thread[t].step # "unlock",
         \/ image' = Failed(image)
         \/ \E c \in DOMAIN image.chunks : image' = Failed(Patch(image, c - 1)),
         Step(t, "unlock", 0),
         published' = published, loading' = loading, lock' = lock, goal' = goal, calls' = calls
  PROVE  NativeInv' /\ Stays
<1>1. /\ image \in ImageSet /\ ImageInv(image) /\ Types
  BY HolderFacts
<1>2. PICK v \in Versions : v = thread[t].code
  BY HolderFacts
<1>3. PICK r : r = image'
  OBVIOUS
<1>4. r \in ImageSet /\ ImageInv(r) /\ r.failed /\ Keeps(image, r, Versions)
  BY <1>1, <1>3, FailEffect
<1>5. Keeps(image, r, Versions \ {v})
  BY <1>4 DEF Keeps, Untouched
<1>6. thread'[t].step = "unlock"
  BY <1>1, StepEffect DEF Steps, Holding
<1>7. Stage(t)'
  BY <1>3, <1>4, <1>6 DEF Stage
<1>8. Works(t, v, "unlock", 0)
  BY <1>3, <1>4, <1>5 DEF Works, Holding
<1> QED
  BY <1>2, <1>3, <1>4, <1>7, <1>8, WorksInv

LEMMA SealFailsInv ==
  ASSUME NativeInv, NEW t \in Threads, SealFails(t)
  PROVE  NativeInv' /\ Stays
<1>1. Held(t) /\ thread[t].step # "unlock"
  BY DEF SealFails, Held, Holding
<1>2. \E c \in DOMAIN image.chunks : image' = Failed(Patch(image, c - 1))
  BY DEF SealFails
<1> QED
  BY <1>1, <1>2, FailInv DEF SealFails

LEMMA PrepareFailsInv ==
  ASSUME NativeInv, NEW t \in Threads, PrepareFails(t)
  PROVE  NativeInv' /\ Stays
<1>1. thread[t].step \in {"bind", "emit", "publish"}
  BY DEF PrepareFails
<1>2. Held(t) /\ thread[t].step # "unlock"
  BY <1>1 DEF Held, Holding
<1> QED
  BY <1>2, FailInv DEF PrepareFails

LEMMA PrepareStoreInv ==
  ASSUME NativeInv, NEW t \in Threads, PrepareStore(t)
  PROVE  NativeInv' /\ Stays
<1>1. /\ thread[t].step = "store" /\ Step(t, "unlock", 0)
      /\ image' = image /\ loading' = loading /\ lock' = lock /\ goal' = goal /\ calls' = calls
  BY DEF PrepareStore
<1>2. Held(t)
  BY <1>1 DEF Held, Holding
<1>3. /\ lock = t /\ Stage(t) /\ image \in ImageSet /\ ImageInv(image) /\ Types
      /\ thread[t].step \notin {"host", "run"}
  BY <1>2, HolderFacts
<1>4. PICK v \in Versions : v = thread[t].code
  BY <1>2, HolderFacts
<1>5. ~image.failed /\ published[v] = Nowhere /\ AllSealed(image) /\ Ready(image, v)
  BY <1>1, <1>3, <1>4 DEF Stage
<1>6. published' = [published EXCEPT ![v] = image.body[v]]
  BY <1>4 DEF PrepareStore
<1>7. image.body[v] \in Addresses /\ image.body[v] # Nowhere
  BY <1>3, <1>5, BodyStands DEF ImageSet
<1>8. /\ published' \in [Versions -> Addresses] /\ published'[v] = image.body[v]
      /\ \A u \in Versions \ {v} : published'[u] = published[u]
  BY <1>3, <1>6, <1>7 DEF Types
<1>9. /\ thread' \in [Threads -> ThreadSet] /\ thread'[t].step = "unlock"
      /\ thread'[t].at = thread[t].at /\ thread'[t].code = thread[t].code
      /\ \A u \in Threads \ {t} : thread'[u] = thread[u]
  BY <1>1, <1>3, StepEffect DEF Steps, Holding
<1>10. Keeps(image, image', Versions \ {v})
  BY <1>1 DEF Keeps, Shows, Fixed, Untouched, SameEntries
<1>11. Moves(t, v)
  BY <1>1, <1>3, <1>5, <1>8, <1>9, <1>10 DEF Moves, Types
<1>12. Stage(t)'
  BY <1>1, <1>5, <1>9 DEF Stage
<1>13. ThreadInv(t)'
  BY <1>1, <1>3, <1>4, <1>9, <1>11, <1>12, HolderStays DEF Holding
<1>14. Unheld'
  BY <1>1, <1>3, NoOneAssumption DEF Unheld
<1>15. published'[v] # Nowhere /\ published'[v] = image'.body[v] /\ Ready(image', v)
  BY <1>1, <1>5, <1>7, <1>8
<1> QED
  BY <1>1, <1>4, <1>11, <1>13, <1>14, <1>15, MovesInv

LEMMA UnlockInv ==
  ASSUME NativeInv, NEW t \in Threads, Unlock(t)
  PROVE  NativeInv' /\ Stays
<1>1. /\ thread[t].step = "unlock" /\ lock' = NoOne
      /\ image' = image /\ published' = published /\ loading' = loading /\ calls' = calls
  BY DEF Unlock, Unlocked
<1>2. Held(t)
  BY <1>1 DEF Held, Holding
<1>3. /\ lock = t /\ Stage(t) /\ image \in ImageSet /\ ImageInv(image) /\ Types /\ PublishedInv
      /\ thread[t].step # "host"
  BY <1>2, HolderFacts
<1>4. PICK v \in Versions : v = thread[t].code
  BY <1>2, HolderFacts
<1>5. IF published[v] # Nowhere THEN Goto(t, published[v]) /\ goal' = goal
      ELSE ToHost(t) /\ goal' = [goal EXCEPT ![t] = <<>>]
  BY <1>4 DEF Unlock
<1>6. Keeps(image, image', Versions \ {v})
  BY <1>1 DEF Keeps, Shows, Fixed, Untouched, SameEntries
<1>7. image.failed \/ AllSealed(image)
  BY <1>1, <1>3 DEF Stage
<1>8. Unheld'
  BY <1>1, <1>7 DEF Unheld
<1>9. ~Building(v)
  <2>1. SUFFICES ASSUME NEW w \in Threads, thread[w].step \in {"emit", "publish", "store"} PROVE FALSE
    BY DEF Building
  <2>2. Held(w) /\ lock = w
    BY <2>1 DEF NativeInv, ThreadInv, Held, Holding
  <2> QED
    BY <1>1, <1>3, <2>1, <2>2
<1>10. /\ published'[v] # Nowhere => published'[v] = image'.body[v] /\ Ready(image', v)
       /\ published'[v] = Nowhere /\ ~image'.failed => NoOps(image', v)
  BY <1>1, <1>3, <1>9 DEF PublishedInv
<1>11. lock' # t
  BY <1>1, NoOneAssumption
<1>12. CASE published[v] # Nowhere
  <2>1. published[v] = image.body[v] /\ Ready(image, v)
    BY <1>3, <1>12 DEF PublishedInv
  <2>2. PICK a \in Addresses : a = published[v]
    BY <1>3 DEF Types
  <2>3. PICK l : l = a[1]
    OBVIOUS
  <2>4. PICK j : j = a[2]
    OBVIOUS
  <2>5. StandsAt(image, l, j, v, 1)
    BY <1>3, <2>1, <2>2, <2>3, <2>4, BodyStands
  <2>6. /\ thread' \in [Threads -> ThreadSet] /\ thread'[t].step = "run" /\ thread'[t].at = a
        /\ \A u \in Threads \ {t} : thread'[u] = thread[u]
    BY <1>3, <1>5, <1>12, <2>2, GotoEffect
  <2>7. goal'[t] = <<v, 1>>
    <3>1. Standing(t) /\ IsStub(image, thread[t].at[1], thread[t].at[2], v)
      BY <1>1, <1>4 DEF NativeInv, ThreadInv
    <3>2. PICK k : k = thread[t].at[1]
      OBVIOUS
    <3>3. PICK i : i = thread[t].at[2]
      OBVIOUS
    <3>4. At(image, k, i)[1] = "stub" /\ At(image, k, i)[2] = v
      BY <3>1, <3>2, <3>3, CellNames DEF IsStub
    <3>5. goal[t] = <<v, 1>>
      BY <1>3, <3>1, <3>2, <3>3, <3>4, AtStub
    <3> QED
      BY <1>5, <1>12, <3>5
  <2>8. Standing(t)'
    <3>1. thread'[t].at[1] = l /\ thread'[t].at[2] = j /\ 1 \in Nat
      BY <2>3, <2>4, <2>6
    <3> QED
      BY <1>1, <1>12, <2>5, <2>7, <3>1 DEF Standing, StandsAt
  <2>9. ThreadInv(t)'
    BY <1>11, <2>6, <2>8 DEF ThreadInv, Held, Holding
  <2>10. Moves(t, v)
    BY <1>1, <1>3, <1>5, <1>6, <1>12, <2>6 DEF Moves, Types
  <2> QED
    BY <1>3, <1>4, <1>8, <1>10, <2>9, <2>10, MovesInv
<1>13. CASE published[v] = Nowhere
  <2>1. ToHost(t) /\ goal' = [goal EXCEPT ![t] = <<>>]
    BY <1>5, <1>13
  <2>2. /\ thread' \in [Threads -> ThreadSet] /\ thread'[t].step = "host"
        /\ \A u \in Threads \ {t} : thread'[u] = thread[u]
    BY <1>3, <2>1, HostEffect
  <2>3. /\ goal' \in [Threads -> {<<>>} \cup (Versions \X Nat)]
        /\ \A u \in Threads \ {t} : goal'[u] = goal[u]
    BY <1>3, <2>1, GoalEffect
  <2>4. ThreadInv(t)'
    BY <1>11, <2>2 DEF ThreadInv, Held, Holding
  <2>5. Moves(t, v)
    BY <1>1, <1>3, <1>6, <2>2, <2>3 DEF Moves, Types
  <2> QED
    BY <1>3, <1>4, <1>8, <1>10, <2>4, <2>5, MovesInv
<1> QED
  BY <1>12, <1>13

-----------------------------------------------------------------------------
(* Loading. *)

LEMMA EmptyImage ==
  /\ Empty \in ImageSet /\ ImageInv(Empty) /\ Chunks(Empty) = {}
  /\ Empty.fixups = {} /\ Empty.current = 0 /\ ~Empty.failed /\ Empty.known = {}
  /\ \A v : NoOps(Empty, v)
<1>1. PICK n : n = Empty
  OBVIOUS
<1>2. PICK ws \in [Versions -> Addresses] : ws = [v \in Versions |-> Nowhere]
  BY DEF Nowhere, Addresses
<1>3. PICK cs \in Seq(ChunkSet) : cs = <<>>
  BY EmptySeq
<1>4. n = [chunks |-> cs, current |-> 0, stubs |-> 0, entry |-> ws, body |-> ws,
           known |-> {}, fixups |-> {}, writable |-> TRUE, failed |-> FALSE]
  BY <1>1, <1>2, <1>3 DEF Empty
<1>5. n \in ImageSet /\ n.chunks = cs /\ n.current = 0 /\ n.stubs = 0 /\ n.entry = ws
      /\ n.known = {} /\ n.fixups = {} /\ ~n.failed
  BY <1>4 DEF ImageSet
<1>6. Len(cs) = 0
  BY <1>3, EmptySeq
<1>7. Chunks(n) = {}
  BY <1>5, <1>6 DEF Chunks
<1>8. \A k, i : ~Place(n, k, i)
  BY <1>7 DEF Place
<1>9. RoomInv(n)
  BY <1>5, <1>7 DEF RoomInv
<1>10. StubInv(n)
  BY <1>2, <1>5, <1>8 DEF StubInv, IsStub
<1>11. FixupInv(n) /\ OpInv(n) /\ \A v : NoOps(n, v)
  BY <1>5, <1>8 DEF FixupInv, OpInv, NoOps, IsOp
<1> QED
  BY <1>1, <1>5, <1>7, <1>9, <1>10, <1>11 DEF ImageInv

LEMMA InitInv ==
  Init => NativeInv
<1>1. SUFFICES ASSUME Init PROVE NativeInv
  OBVIOUS
<1>2. /\ image = Empty /\ published = [v \in Versions |-> Nowhere] /\ loading = <<"entries", Entries>>
      /\ lock = NoOne /\ goal = [t \in Threads |-> <<>>] /\ calls = [t \in Threads |-> MaxCalls]
      /\ thread = [t \in Threads |-> [step |-> "host", at |-> Nowhere, code |-> NoOne, op |-> 0]]
  BY <1>1 DEF Init
<1>3. /\ image \in ImageSet /\ ImageInv(image) /\ Chunks(image) = {}
      /\ image.fixups = {} /\ image.current = 0 /\ ~image.failed /\ image.known = {}
      /\ \A v : NoOps(image, v)
  BY <1>2, EmptyImage
<1>4. Nowhere \in Addresses
  BY DEF Nowhere, Addresses
<1>5. Types
  BY <1>2, <1>3, <1>4, CallsAssumption DEF Types, ThreadSet, Steps
<1>6. LoadInv
  BY <1>2, <1>3 DEF LoadInv
<1>7. PublishedInv
  BY <1>2, <1>3 DEF PublishedInv
<1>8. Unheld
  BY <1>2 DEF Unheld
<1>9. \A t \in Threads : ThreadInv(t)
  BY <1>2, NoOneAssumption DEF ThreadInv, Held, Holding
<1> QED
  BY <1>3, <1>5, <1>6, <1>7, <1>8, <1>9 DEF NativeInv

\* While the module is loaded there is nobody, and nothing is sealed.
LEMMA LoadingFacts ==
  ASSUME NativeInv, loading[1] # "done"
  PROVE  /\ lock = NoOne /\ \A t \in Threads : thread[t].step = "host"
         /\ \A v \in Versions : published[v] = Nowhere /\ NoOps(image, v)
         /\ \A k \in Chunks(image) : ~Sealed(image, k)
         /\ image.fixups = {} /\ image.current = 0 /\ ~image.failed
         /\ image \in ImageSet /\ ImageInv(image) /\ Types
BY DEF NativeInv, LoadInv, Types

\* A step of the loader: nobody runs yet.
LEMMA LoaderInv ==
  ASSUME NativeInv, loading[1] # "done",
         image' \in ImageSet, ImageInv(image'), \A v \in Versions : NoOps(image', v),
         published' = published, lock' = lock, thread' = thread, goal' = goal, calls' = calls,
         LoadInv', Unheld'
  PROVE  NativeInv' /\ Stays
<1>1. /\ lock = NoOne /\ \A t \in Threads : thread[t].step = "host"
      /\ \A v \in Versions : published[v] = Nowhere
      /\ Types
  BY LoadingFacts
<1>2. Types'
  BY <1>1 DEF Types
<1>3. PublishedInv'
  BY <1>1 DEF PublishedInv
<1>4. \A t \in Threads : ThreadInv(t)'
  BY <1>1, NoOneAssumption DEF ThreadInv, Held, Holding
<1>5. Stays
  BY LoadingFacts DEF Stays
<1> QED
  BY <1>2, <1>3, <1>4, <1>5 DEF NativeInv

LEMMA LoadEntryInv ==
  ASSUME NativeInv, LoadEntry
  PROVE  NativeInv' /\ Stays
<1>1. loading[1] = "entries"
  BY DEF LoadEntry
<1>2. PICK v \in loading[2] : image' = VersionFor(image, v) /\ loading' = <<"entries", loading[2] \ {v}>>
  BY DEF LoadEntry
<1>3. /\ published' = published /\ lock' = lock /\ thread' = thread /\ goal' = goal /\ calls' = calls
  BY DEF LoadEntry
<1>4. /\ lock = NoOne /\ \A t \in Threads : thread[t].step = "host"
      /\ \A u \in Versions : published[u] = Nowhere /\ NoOps(image, u)
      /\ \A k \in Chunks(image) : ~Sealed(image, k)
      /\ image.fixups = {} /\ image.current = 0 /\ ~image.failed
      /\ image \in ImageSet /\ ImageInv(image)
  BY <1>1, LoadingFacts
<1>5. loading[2] \subseteq Entries /\ Entries \ loading[2] \subseteq image.known
  BY <1>1 DEF NativeInv, LoadInv
<1>6. v \in Versions
  BY <1>5, CodeAssumption
<1>7. PICK r : r = image'
  OBVIOUS
<1>8. Made(image, r, v)
  BY <1>2, <1>4, <1>6, <1>7, VersionMade
<1>9. /\ r \in ImageSet /\ ImageInv(r) /\ r.fixups = {} /\ r.current = 0 /\ ~r.failed
      /\ r.known = image.known \cup {v} /\ \A k \in Chunks(r) : ~Sealed(r, k)
  BY <1>4, <1>8 DEF Made
<1>10. \A u \in Versions : NoOps(r, u)
  BY <1>4, <1>8 DEF Made, SameOps, NoOps
<1>11. loading'[1] = "entries" /\ loading'[2] = loading[2] \ {v}
  BY <1>2
<1>12. LoadInv'
  BY <1>3, <1>4, <1>5, <1>7, <1>9, <1>10, <1>11 DEF LoadInv
<1>13. Unheld'
  BY <1>11 DEF Unheld
<1> QED
  BY <1>1, <1>3, <1>7, <1>9, <1>10, <1>12, <1>13, LoaderInv

LEMMA LoadPublishInv ==
  ASSUME NativeInv, LoadPublish
  PROVE  NativeInv' /\ Stays
<1>1. /\ loading = <<"entries", {}>> /\ image' = Published(image) /\ loading' = <<"done", {}>>
      /\ published' = published /\ lock' = lock /\ thread' = thread /\ goal' = goal /\ calls' = calls
  BY DEF LoadPublish
<1>2. loading[1] = "entries" /\ loading[2] = {} /\ loading'[1] = "done"
  BY <1>1
<1>3. /\ \A u \in Versions : NoOps(image, u)
      /\ ~image.failed /\ image \in ImageSet /\ ImageInv(image)
  BY <1>2, LoadingFacts
<1>4. Entries \subseteq image.known
  BY <1>2 DEF NativeInv, LoadInv
<1>5. PICK r : r = image'
  OBVIOUS
<1>6. /\ r \in ImageSet /\ ImageInv(r) /\ AllSealed(r) /\ Keeps(image, r, Versions) /\ r.known = image.known
  BY <1>1, <1>3, <1>5, PublishEffect
<1>7. \A u \in Versions : NoOps(r, u)
  BY <1>3, <1>6 DEF Keeps, Untouched, NoOps
<1>8. \A v \in Entries : v \in r.known /\ Sealed(r, r.entry[v][1])
  <2>1. SUFFICES ASSUME NEW v \in Entries PROVE v \in r.known /\ Sealed(r, r.entry[v][1])
    OBVIOUS
  <2>2. v \in r.known
    BY <1>4, <1>6
  <2>3. r.entry[v][1] \in Chunks(r)
    BY <1>6, <2>2 DEF ImageInv, StubInv, IsStub, Place
  <2> QED
    BY <1>6, <2>2, <2>3 DEF AllSealed
<1>9. LoadInv'
  BY <1>2, <1>5, <1>8 DEF LoadInv
<1>10. Unheld'
  BY <1>5, <1>6 DEF Unheld
<1> QED
  BY <1>1, <1>2, <1>5, <1>6, <1>7, <1>9, <1>10, LoaderInv

LEMMA LoadFailsInv ==
  ASSUME NativeInv, LoadFails
  PROVE  NativeInv' /\ Stays
<1>1. /\ loading[1] = "entries" /\ image' = Empty /\ loading' = <<"failed", {}>>
      /\ published' = published /\ lock' = lock /\ thread' = thread /\ goal' = goal /\ calls' = calls
  BY DEF LoadFails
<1>2. /\ lock = NoOne /\ \A t \in Threads : thread[t].step = "host"
      /\ \A u \in Versions : published[u] = Nowhere
  BY <1>1, LoadingFacts
<1>3. /\ image' \in ImageSet /\ ImageInv(image') /\ Chunks(image') = {}
      /\ image'.fixups = {} /\ image'.current = 0 /\ ~image'.failed
      /\ \A v : NoOps(image', v)
  BY <1>1, EmptyImage
<1>4. loading'[1] = "failed"
  BY <1>1
<1>5. LoadInv'
  BY <1>1, <1>2, <1>3, <1>4 DEF LoadInv
<1>6. Unheld'
  BY <1>4 DEF Unheld
<1> QED
  BY <1>1, <1>3, <1>5, <1>6, LoaderInv

-----------------------------------------------------------------------------
(* The theorems. *)

LEMMA DomainsOf ==
  ASSUME NEW n \in ImageSet
  PROVE  /\ \A k : k \in DOMAIN n.chunks <=> k \in Chunks(n)
         /\ \A k \in Chunks(n) : \A i : i \in DOMAIN n.chunks[k].cells <=> i \in 1 .. Fill(n, k)
<1>1. DOMAIN n.chunks = Chunks(n)
  BY LenProperties DEF ImageSet, Chunks
<1>2. ASSUME NEW k \in Chunks(n)
      PROVE  DOMAIN n.chunks[k].cells = 1 .. Fill(n, k)
  <2>1. n.chunks[k] \in ChunkSet
    BY ElementOfSeq DEF ImageSet, Chunks
  <2>2. PICK cells \in Seq(CellSet) : cells = n.chunks[k].cells
    BY <2>1 DEF ChunkSet
  <2> QED
    BY <2>2, LenProperties DEF Fill
<1> QED
  BY <1>1, <1>2

LEMMA StutterInv ==
  ASSUME NativeInv, UNCHANGED vars
  PROVE  NativeInv' /\ Stays
<1>1. /\ image' = image /\ published' = published /\ loading' = loading /\ lock' = lock
      /\ thread' = thread /\ goal' = goal /\ calls' = calls
  BY DEF vars
<1>2. Types' /\ ImageInv(image)' /\ Unheld' /\ LoadInv'
  BY <1>1 DEF NativeInv, Types, Unheld, LoadInv
<1>3. PublishedInv'
  BY <1>1 DEF NativeInv, PublishedInv, Building
<1>4. \A t \in Threads : ThreadInv(t)'
  BY <1>1 DEF NativeInv, ThreadInv, Standing, Held, Stage
<1>5. Stays
  BY <1>1 DEF Stays
<1> QED
  BY <1>2, <1>3, <1>4, <1>5 DEF NativeInv

LEMMA NextInv ==
  ASSUME NativeInv, [Next]_vars
  PROVE  NativeInv' /\ Stays
<1>1. CASE LoadEntry
  BY <1>1, LoadEntryInv
<1>2. CASE LoadPublish
  BY <1>2, LoadPublishInv
<1>3. CASE LoadFails
  BY <1>3, LoadFailsInv
<1>4. ASSUME NEW t \in Threads, NEW v \in Versions, Enter(t, v)
      PROVE  NativeInv' /\ Stays
  BY <1>4, EnterInv
<1>5. ASSUME NEW t \in Threads, Execute(t)
      PROVE  NativeInv' /\ Stays
  BY <1>5, EnterStubInv, FollowHopInv, FallThroughInv, BranchInv, LeaveInv DEF Execute
<1>6. ASSUME NEW t \in Threads, Prepare(t)
      PROVE  NativeInv' /\ Stays
  BY <1>6, LockInv, PrepareBindInv, PrepareOpInv, PreparePublishInv, SealFailsInv, PrepareFailsInv,
     PrepareStoreInv, UnlockInv DEF Prepare
<1>7. CASE UNCHANGED vars
  BY <1>7, StutterInv
<1> QED
  BY <1>1, <1>2, <1>3, <1>4, <1>5, <1>6, <1>7 DEF Next

\* The invariant of the image: chunks within a page, one stub and one place for
\* each operation, pending branches in open chunks only, every published version
\* whole and bound, every thread on its way to the operation it should be at, and
\* the holder of the mutex at its stage of the preparation.
THEOREM ImageInvariant == Spec => []NativeInv
<1>1. NativeInv /\ [Next]_vars => NativeInv'
  BY NextInv
<1> QED
  BY <1>1, InitInv, PTL DEF Spec

\* What generated code executes is what the program says, for all threads,
\* programs and page sizes (publish(), prepare_locked(), space()).
THEOREM ExecutionFollowsTheProgram == Spec => []RunsTheProgram
<1>1. NativeInv => RunsTheProgram
  <2>1. SUFFICES ASSUME NativeInv, NEW t \in Threads, thread[t].step # "host"
                 PROVE  /\ Exists(thread[t].at) /\ thread[t].at[2] <= Page
                        /\ image.chunks[thread[t].at[1]].sealed
                        /\ Cell(thread[t].at)[1] = "stub" => goal[t] = <<Cell(thread[t].at)[2], 1>>
                        /\ Cell(thread[t].at)[1] = "op" =>
                             goal[t] = <<Cell(thread[t].at)[2], Cell(thread[t].at)[3]>>
    BY DEF RunsTheProgram
  <2>2. Standing(t) /\ image \in ImageSet /\ PublishedInv
    BY <2>1, LoadedBefore
  <2>3. PICK k : k = thread[t].at[1]
    OBVIOUS
  <2>4. PICK i : i = thread[t].at[2]
    OBVIOUS
  <2>5. Place(image, k, i) /\ Sealed(image, k)
    BY <2>2, <2>3, <2>4 DEF Standing
  <2>6. Cell(thread[t].at) = At(image, k, i)
    BY <2>3, <2>4 DEF Cell, At
  <2>7. At(image, k, i)[1] = "stub" => goal[t] = <<At(image, k, i)[2], 1>>
    BY <2>2, <2>3, <2>4, AtStub
  <2>8. At(image, k, i)[1] = "op" => goal[t] = <<At(image, k, i)[2], At(image, k, i)[3]>>
    BY <2>2, <2>3, <2>4, AtOp
  <2>9. k \in DOMAIN image.chunks /\ i \in DOMAIN image.chunks[k].cells
    BY <2>2, <2>5, DomainsOf DEF Place
  <2>10. i <= Page
    <3>1. k \in Chunks(image) /\ Fill(image, k) \in Nat /\ i \in 1 .. Fill(image, k)
      BY <2>2, <2>5, FillNat DEF Place
    <3>2. Fill(image, k) <= Page
      BY <2>1, <3>1 DEF NativeInv, ImageInv, RoomInv
    <3> QED
      BY <3>1, <3>2, PageAssumption
  <2> QED
    BY <2>3, <2>4, <2>5, <2>6, <2>7, <2>8, <2>9, <2>10 DEF Exists, Sealed
<1> QED
  BY <1>1, ImageInvariant, PTL

\* However many threads arrive at a stub, its version is prepared once
\* (prepare_locked() reads the slot again under the mutex).
THEOREM PreparationIsNotRepeated == Spec => []PreparedOnce
<1>1. NativeInv => PreparedOnce
  <2>1. SUFFICES ASSUME NativeInv,
                        NEW a \in (DOMAIN image.chunks) \X (1 .. Page),
                        NEW b \in (DOMAIN image.chunks) \X (1 .. Page),
                        a[2] <= Len(image.chunks[a[1]].cells), b[2] <= Len(image.chunks[b[1]].cells),
                        a # b, Cell(a)[1] \in {"stub", "op"},
                        Cell(a)[1] = Cell(b)[1], Cell(a)[2] = Cell(b)[2],
                        Cell(a)[1] = "op" => Cell(a)[3] = Cell(b)[3]
                 PROVE  FALSE
    BY DEF PreparedOnce
  <2>2. image \in ImageSet /\ StubInv(image) /\ OpInv(image)
    BY <2>1 DEF NativeInv, Types, ImageInv
  <2>3. PICK k \in DOMAIN image.chunks, i \in 1 .. Page : a = <<k, i>>
    BY <2>1
  <2>4. PICK l \in DOMAIN image.chunks, j \in 1 .. Page : b = <<l, j>>
    BY <2>1
  <2>5. Place(image, k, i) /\ Place(image, l, j)
    <3>1. k \in Chunks(image) /\ l \in Chunks(image)
      BY <2>2, DomainsOf
    <3>2. i <= Fill(image, k) /\ j <= Fill(image, l)
      BY <2>1, <2>3, <2>4 DEF Fill
    <3>3. Fill(image, k) \in Nat /\ Fill(image, l) \in Nat
      BY <2>2, <3>1, FillNat
    <3> QED
      BY <3>1, <3>2, <3>3, PageAssumption DEF Place
  <2>6. Cell(a) = At(image, k, i) /\ Cell(b) = At(image, l, j)
    BY <2>3, <2>4 DEF Cell, At
  <2>7. k \in Nat /\ i \in Nat /\ l \in Nat /\ j \in Nat
    BY <2>2, <2>5, CellKinds
  <2>8. CASE At(image, k, i)[1] = "stub"
    <3>1. PICK v \in Versions : At(image, k, i) = Stub(v)
      BY <2>2, <2>5, <2>8, CellKinds, CellNames
    <3>2. PICK u \in Versions : At(image, l, j) = Stub(u)
      BY <2>1, <2>2, <2>5, <2>6, <2>8, CellKinds, CellNames
    <3>3. u = v
      BY <2>1, <2>6, <3>1, <3>2, CellNames
    <3>4. image.entry[v] = <<k, i>> /\ image.entry[v] = <<l, j>>
      BY <2>2, <2>5, <2>7, <3>1, <3>2, <3>3 DEF StubInv, IsStub
    <3> QED
      BY <2>1, <2>3, <2>4, <3>4
  <2>9. CASE At(image, k, i)[1] = "op"
    <3>1. PICK v \in Versions, q \in Nat, to \in Addresses : At(image, k, i) = Op(v, q, to)
      BY <2>2, <2>5, <2>9, CellKinds, CellNames
    <3>2. IsOp(image, k, i, v, q)
      BY <2>5, <2>9, <3>1, CellNames DEF IsOp
    <3>3. IsOp(image, l, j, v, q)
      BY <2>1, <2>5, <2>6, <2>9, <3>1, CellNames DEF IsOp
    <3>4. k = l /\ i = j
      BY <2>2, <2>7, <3>2, <3>3 DEF OpInv
    <3> QED
      BY <2>1, <2>3, <2>4, <3>4
  <2> QED
    BY <2>1, <2>6, <2>8, <2>9
<1> QED
  BY <1>1, ImageInvariant, PTL

\* No step undoes a publication (publish(), the failed flag of the emitter).
THEOREM PublicationIsFinal == Spec => PublishedStays
<1> DEFINE Final == /\ \A c \in DOMAIN image.chunks : image.chunks[c].sealed =>
                          c \in DOMAIN image'.chunks /\ image'.chunks[c] = image.chunks[c]
                    /\ image.failed => image' = image /\ published' = published
<1>1. NativeInv /\ [Next]_vars => Final
  <2>1. SUFFICES ASSUME NativeInv, [Next]_vars PROVE Final
    OBVIOUS
  <2>2. Stays /\ image \in ImageSet /\ image' \in ImageSet
    BY <2>1, NextInv DEF NativeInv, Types
  <2>3. \A c : c \in DOMAIN image.chunks <=> c \in Chunks(image)
    BY <2>2, DomainsOf
  <2>4. \A c : c \in DOMAIN image'.chunks <=> c \in Chunks(image')
    BY <2>2, DomainsOf
  <2> QED
    BY <2>2, <2>3, <2>4 DEF Stays, Sealed
<1>2. NativeInv /\ [Next]_vars => [Final]_vars
  BY <1>1
<1> QED
  BY <1>2, ImageInvariant, PTL DEF Spec, PublishedStays
=============================================================================
