------------------------ MODULE BroadcastRingProofs ------------------------
(***************************************************************************)
(* GetConsistent for every number of readers, records, words, sequence     *)
(* numbers and puts: first the arithmetic of sequence numbers that wrap,   *)
(* then an inductive invariant of the memory and of each reader, and a     *)
(* lemma per action.                                                       *)
(***************************************************************************)
EXTENDS BroadcastRing, TLAPS

-----------------------------------------------------------------------------
(* Arithmetic of sequence numbers. *)

\* Division with remainder.
LEMMA DivMod ==
  ASSUME NEW x \in Int, NEW m \in Nat, m > 0
  PROVE  x % m \in 0..(m - 1) /\ x \div m \in Int /\ x = m * (x \div m) + (x % m)
OBVIOUS

\* The remainder is unique.
LEMMA ModUnique ==
  ASSUME NEW x \in Int, NEW m \in Nat, m > 0, NEW k \in Int,
         x - m * k >= 0, x - m * k < m
  PROVE  x % m = x - m * k
<1>1. \A r \in 0..(m - 1) : x = m * k + r => x % m = r
  OBVIOUS
<1>2. m * k \in Int
  OBVIOUS
<1> QED
  BY <1>1, <1>2

\* A product of integers distributes; stated for the provers.
LEMMA Distribute ==
  ASSUME NEW m \in Int, NEW a \in Int, NEW b \in Int
  PROVE  m * (a + b) = m * a + m * b /\ m * (a - b) = m * a - m * b
OBVIOUS

\* Numbers less than m apart that leave the same remainder are the same.
LEMMA SameRemainder ==
  ASSUME NEW a \in Int, NEW b \in Int, NEW m \in Nat, m > 0, a % m = b % m,
         b <= a, a - b < m
  PROVE  a = b
<1>1. a - b = m * ((a \div m) - (b \div m))
  BY DivMod, Distribute
<1>2. (a \div m) - (b \div m) \in Int
  BY DivMod
<1>3. \A k \in Int : (k >= 1 => m * k >= m) /\ (k <= -1 => m * k <= -m)
  OBVIOUS
<1>4. (a \div m) - (b \div m) = 0
  BY <1>1, <1>2, <1>3
<1> QED
  BY <1>1, <1>4

\* The index of a record does not depend on the wrapping of its number.
LEMMA RemainderOfRemainder ==
  ASSUME NEW x \in Int, NEW m \in Nat, NEW n \in Nat, m > 0, n > 0, m % n = 0
  PROVE  (x % m) % n = x % n
<1>1. x = m * (x \div m) + (x % m) /\ x % m \in Int /\ x \div m \in Int
  BY DivMod
<1>2. m = n * (m \div n) /\ m \div n \in Int
  BY DivMod
<1>3. x % m = n * ((x % m) \div n) + ((x % m) % n) /\ (x % m) % n \in 0..(n - 1)
      /\ (x % m) \div n \in Int
  BY <1>1, DivMod
<1> DEFINE k == (m \div n) * (x \div m) + ((x % m) \div n)
<1>4. k \in Int
  BY <1>1, <1>2, <1>3
<1>5. m * (x \div m) = n * ((m \div n) * (x \div m))
  BY <1>1, <1>2
<1>6. x = n * k + ((x % m) % n)
  <2>1. n * k = n * ((m \div n) * (x \div m)) + n * ((x % m) \div n)
    BY <1>1, <1>2, <1>3, Distribute
  <2> QED
    BY <2>1, <1>1, <1>3, <1>5
<1> HIDE DEF k
<1>7. n * k \in Int
  BY <1>4
<1>8. x - n * k = (x % m) % n
  BY <1>3, <1>6, <1>7
<1>9. x - n * k >= 0 /\ x - n * k < n
  BY <1>3, <1>8
<1> QED
  BY <1>4, <1>8, <1>9, ModUnique, Zenon

\* What GeometryAssumption says without the remainder.
LEMMA Geometry ==
  /\ RecordCount \in Nat /\ RecordCount > 1 /\ Words \in Nat /\ Words > 0
  /\ SeqMod \in Nat /\ SeqMod > RecordCount
  /\ InitialSequence \in Nat /\ InitialSequence < SeqMod /\ MaxPuts \in Nat
BY GeometryAssumption

\* x modulo SeqMod, found by taking a multiple of it away.
LEMMA WrapIs ==
  ASSUME NEW x \in Int, NEW k \in Int, NEW r \in Sequence, x = SeqMod * k + r
  PROVE  x % SeqMod = r
<1>1. SeqMod * k \in Int
  BY Geometry
<1>2. x - SeqMod * k = r
  BY <1>1 DEF Sequence
<1> QED
  BY <1>2, Geometry, ModUnique DEF Sequence

\* Unsigned subtraction of two sequence numbers.
LEMMA SubIs ==
  ASSUME NEW a \in Sequence, NEW b \in Sequence
  PROVE  Sub(a, b) = IF a >= b THEN a - b ELSE a - b + SeqMod
<1> USE Geometry
<1>0. a - b \in Int
  BY DEF Sequence
<1>1. CASE a >= b
  <2>1. a - b \in Sequence /\ a - b = SeqMod * 0 + (a - b)
    BY <1>1 DEF Sequence
  <2> QED
    BY <1>0, <1>1, <2>1, WrapIs, 0 \in Int, Zenon DEF Sub
<1>2. CASE ~(a >= b)
  <2>1. a - b + SeqMod \in Sequence /\ a - b = SeqMod * (-1) + (a - b + SeqMod)
    BY <1>2 DEF Sequence
  <2> QED
    BY <1>0, <1>2, <2>1, WrapIs DEF Sub
<1> QED
  BY <1>1, <1>2

\* The number of a record in terms of multiples of SeqMod.
LEMMA SequenceOfIs ==
  ASSUME NEW a \in Int
  PROVE  /\ SequenceOf(a) \in Sequence
         /\ \E k \in Int : InitialSequence + a - 1 = SeqMod * k + SequenceOf(a)
<1> DEFINE x == InitialSequence + a - 1
<1>1. x \in Int
  BY Geometry
<1>2. SequenceOf(a) = x % SeqMod
  BY DEF SequenceOf
<1> HIDE DEF x
<1>3. x % SeqMod \in Sequence /\ x \div SeqMod \in Int /\ x = SeqMod * (x \div SeqMod) + (x % SeqMod)
  BY <1>1, Geometry, DivMod DEF Sequence
<1>4. \E k \in Int : x = SeqMod * k + SequenceOf(a)
  BY <1>2, <1>3
<1> QED
  BY <1>2, <1>3, <1>4 DEF x

\* The difference of two numbers that are not far apart either way.
LEMMA SubOfSequences ==
  ASSUME NEW a \in Int, NEW b \in Int
  PROVE  /\ a - b \in 0..(SeqMod - 1) => Sub(SequenceOf(a), SequenceOf(b)) = a - b
         /\ a - b \in (-SeqMod)..(-1) => Sub(SequenceOf(a), SequenceOf(b)) = a - b + SeqMod
<1>1. PICK j \in Int : InitialSequence + a - 1 = SeqMod * j + SequenceOf(a)
  BY SequenceOfIs
<1>2. PICK k \in Int : InitialSequence + b - 1 = SeqMod * k + SequenceOf(b)
  BY SequenceOfIs
<1>3. SequenceOf(a) \in Int /\ SequenceOf(b) \in Int
  BY SequenceOfIs, Geometry DEF Sequence
<1>4. SeqMod * j \in Int /\ SeqMod * k \in Int /\ SeqMod * (k - j) = SeqMod * k - SeqMod * j
      /\ SeqMod * (k - j - 1) = SeqMod * k - SeqMod * j - SeqMod
  BY Geometry
<1>5. SequenceOf(a) - SequenceOf(b) = SeqMod * (k - j) + (a - b)
  BY <1>1, <1>2, <1>3, <1>4, Geometry
<1>6. ASSUME a - b \in 0..(SeqMod - 1) PROVE Sub(SequenceOf(a), SequenceOf(b)) = a - b
  BY <1>3, <1>5, <1>6, WrapIs, k - j \in Int DEF Sub, Sequence
<1>7. ASSUME a - b \in (-SeqMod)..(-1) PROVE Sub(SequenceOf(a), SequenceOf(b)) = a - b + SeqMod
  <2>1. SequenceOf(a) - SequenceOf(b) = SeqMod * (k - j - 1) + (a - b + SeqMod)
    BY <1>3, <1>4, <1>5, Geometry
  <2>2. a - b + SeqMod \in Sequence
    BY <1>7, Geometry DEF Sequence
  <2> QED
    BY <1>3, <2>1, <2>2, WrapIs, k - j - 1 \in Int DEF Sub
<1> QED
  BY <1>6, <1>7

\* A sequence number is as far from another as the subtraction says.
LEMMA SequenceAfter ==
  ASSUME NEW s \in Sequence, NEW b \in Int
  PROVE  s = SequenceOf(b + Sub(s, SequenceOf(b)))
<1> DEFINE c == SequenceOf(b)
           d == Sub(s, c)
<1>1. PICK k \in Int : InitialSequence + b - 1 = SeqMod * k + c
  BY SequenceOfIs
<1>2. c \in Sequence
  BY SequenceOfIs
<1> HIDE DEF c
<1>3. d \in Int /\ (c + d = s \/ c + d = s + SeqMod)
  BY <1>2, SubIs, Geometry DEF Sequence
<1> HIDE DEF d
<1> DEFINE x == InitialSequence + (b + d) - 1
<1>4. SeqMod * k \in Int /\ SeqMod * (k + 1) = SeqMod * k + SeqMod
  BY Geometry
<1>5. x \in Int /\ (x = SeqMod * k + s \/ x = SeqMod * (k + 1) + s)
  BY <1>1, <1>2, <1>3, <1>4, Geometry DEF Sequence
<1>6. SequenceOf(b + d) = x % SeqMod
  BY DEF SequenceOf
<1> HIDE DEF x
<1>7. x % SeqMod = s
  BY <1>5, WrapIs, k + 1 \in Int
<1> QED
  BY <1>6, <1>7 DEF c, d

-----------------------------------------------------------------------------
(* What a successful Get has compared. *)

\* By how much head has advanced with its i-th store.
Offset(i) == IF i - 1 > RecordCount THEN i - 1 - RecordCount ELSE 0

\* The comparisons of Get mean what they mean without wrapping: the record lies
\* before tail and at or after the last head.
LEMMA WindowIs ==
  ASSUME NEW seen \in Nat, NEW h \in Nat, NEW f \in Nat,
         1 <= seen, seen <= h, h <= f, f - seen < SeqMod,
         NEW sequence \in Sequence, NEW head, NEW tail, NEW final,
         tail = SequenceOf(seen),
         head = SequenceOf(Offset(h) + 1),
         final = SequenceOf(Offset(f) + 1),
         Sub(tail, head) <= RecordCount,
         Sub(sequence, head) < Sub(tail, head),
         ~(Sub(final, head) > Sub(sequence, head))
  PROVE  \E n \in 1..(seen - 1) : sequence = SequenceOf(n) /\ f <= n + RecordCount
<1> USE Geometry
<1>1. /\ Offset(h) \in Nat /\ Offset(f) \in Nat /\ Offset(h) <= Offset(f)
      /\ Offset(f) - Offset(h) <= f - h /\ Offset(f) >= f - 1 - RecordCount
      /\ Offset(h) >= h - 1 - RecordCount
  BY DEF Offset
<1>2. head \in Sequence
  BY <1>1, SequenceOfIs
<1>3. Sub(final, head) = Offset(f) - Offset(h)
  <2>1. (Offset(f) + 1) - (Offset(h) + 1) = Offset(f) - Offset(h)
        /\ Offset(f) - Offset(h) \in 0..(SeqMod - 1)
        /\ Offset(f) + 1 \in Int /\ Offset(h) + 1 \in Int
    BY <1>1
  <2> QED
    BY <2>1, SubOfSequences
<1>4. Offset(h) + 1 <= seen
  <2> SUFFICES ASSUME Offset(h) + 1 > seen PROVE FALSE
    BY <1>1
  <2>1. Offset(h) = h - 1 - RecordCount
    BY DEF Offset
  <2>2. seen - (Offset(h) + 1) \in (-SeqMod)..(-1) /\ Offset(h) + 1 \in Int
    BY <1>1, <2>1
  <2>3. Sub(tail, head) = seen - (Offset(h) + 1) + SeqMod
    BY <2>2, SubOfSequences
  <2> QED
    BY <1>1, <2>1, <2>3
<1>5. Sub(tail, head) = seen - (Offset(h) + 1)
  <2>1. seen - (Offset(h) + 1) \in 0..(SeqMod - 1) /\ Offset(h) + 1 \in Int
    BY <1>1, <1>4
  <2> QED
    BY <2>1, SubOfSequences
<1>6. Sub(sequence, head) \in Nat
  <2>1. Sub(sequence, head) = IF sequence >= head THEN sequence - head ELSE sequence - head + SeqMod
    BY <1>2, SubIs
  <2> QED
    BY <1>2, <2>1 DEF Sequence
<1> DEFINE n == Offset(h) + 1 + Sub(sequence, head)
<1>7. n \in 1..(seen - 1) /\ f <= n + RecordCount
  BY <1>1, <1>3, <1>5, <1>6
<1>8. sequence = SequenceOf(n)
  BY <1>1, SequenceAfter, Offset(h) + 1 \in Int
<1> QED
  BY <1>7, <1>8

\* A word of a later lap that the reader could have read would have brought a
\* later head with it.
LEMMA NoLaterLap ==
  ASSUME NEW n \in Nat, NEW v \in Nat, n <= v, v < n + RecordCount,
         SequenceToIndex(SequenceOf(v)) = SequenceToIndex(SequenceOf(n))
  PROVE  v = n
<1> USE GeometryAssumption
<1>1. \A x \in Nat : SequenceToIndex(SequenceOf(x)) = (InitialSequence + x - 1) % RecordCount
  BY RemainderOfRemainder DEF SequenceToIndex, SequenceOf
<1>2. (InitialSequence + v - 1) % RecordCount = (InitialSequence + n - 1) % RecordCount
  BY <1>1
<1>3. InitialSequence + v - 1 = InitialSequence + n - 1
  BY <1>2, SameRemainder
<1> QED
  BY <1>3
\* A step of the sequence numbers.
LEMMA SequencePlus ==
  ASSUME NEW a \in Int, NEW d \in Int
  PROVE  (SequenceOf(a) + d) % SeqMod = SequenceOf(a + d)
<1>1. PICK j \in Int : InitialSequence + a - 1 = SeqMod * j + SequenceOf(a)
  BY SequenceOfIs
<1>2. PICK k \in Int : InitialSequence + (a + d) - 1 = SeqMod * k + SequenceOf(a + d)
  BY SequenceOfIs, a + d \in Int
<1>3. SequenceOf(a) \in Int /\ SequenceOf(a + d) \in Sequence /\ SequenceOf(a + d) \in Int
  BY SequenceOfIs, Geometry, a + d \in Int DEF Sequence
<1>4. SeqMod * j \in Int /\ SeqMod * k \in Int /\ SeqMod * (k - j) = SeqMod * k - SeqMod * j
  BY Geometry
<1>5. SequenceOf(a) + d = SeqMod * (k - j) + SequenceOf(a + d)
  BY <1>1, <1>2, <1>3, <1>4, Geometry
<1> QED
  BY <1>3, <1>5, WrapIs, k - j \in Int

\* The index of the storage of the n-th record.
Index(n) == SequenceToIndex(SequenceOf(n))

\* An index is one of the ring.
LEMMA IndexType ==
  ASSUME NEW s \in Sequence
  PROVE  SequenceToIndex(s) \in 0..(RecordCount - 1)
BY Geometry, DivMod DEF SequenceToIndex, Sequence

-----------------------------------------------------------------------------
(* The inductive invariant. *)

Message == [val : Nat, view : [Locations -> Nat]]
ReaderRecord == [pc : {"start", "idle", "tail", "head", "copy", "fence", "final"},
                 sequence : Sequence, tail : Sequence, head : Sequence, seen : Nat,
                 record : Seq(Nat)]

\* The types.
Types ==
  /\ mem \in [Locations -> Seq(Message)] /\ fence \in [Locations -> Nat]
  /\ wpc \in 0..(Words + 1) /\ puts \in Nat
  /\ rd \in [Readers -> ReaderRecord]
  /\ view \in [Readers -> [Locations -> Nat \ {0}]] /\ acq \in [Readers -> [Locations -> Nat]]
  /\ got \in [Readers -> [sequence : Nat, record : Seq(Nat), missed : Int]]

\* The stores to head and tail count the records; the writer has fenced the
\* last store to head while it writes a record.
WriterInv ==
  /\ Len(mem[HeadLoc]) = puts + 1
  /\ Len(mem[TailLoc]) = IF wpc = 0 THEN puts + 1 ELSE puts
  /\ wpc # 0 => puts > 0 /\ fence[HeadLoc] = puts + 1

\* Head leaves room for the record being put.
HeadInv == \A i \in 1..Len(mem[HeadLoc]) : mem[HeadLoc][i].val = SequenceOf(Offset(i) + 1)

\* Who sees a store to tail has seen as many to head.
TailInv == \A i \in 1..Len(mem[TailLoc]) :
             mem[TailLoc][i].val = SequenceOf(i) /\ mem[TailLoc][i].view[HeadLoc] >= i

\* The words of the ring's storage.
Cells == (0..(RecordCount - 1)) \X (1..Words)
Cell(c) == Data(c[1], c[2])

\* A word is from a record with that index, and brings with it the store to
\* head that made room for the record.
DataInv ==
  \A c \in Cells : \A i \in 1..Len(mem[Cell(c)]) :
    LET m == mem[Cell(c)][i] IN
    m.val # 0 => Index(m.val) = c[1] /\ m.view[HeadLoc] > m.val

\* The last word stored is from the last record with that index.
LastInv ==
  \A c \in Cells :
    /\ Len(mem[Cell(c)]) > 0
    /\ \A n \in 1..puts : (Index(n) = c[1] /\ (n < puts \/ wpc \notin 1..c[2])) =>
         mem[Cell(c)][Len(mem[Cell(c)])].val >= n

\* Who sees a store to tail sees no word older than the records it publishes.
PublishedInv ==
  \A i \in 1..Len(mem[TailLoc]) : \A c \in Cells : \A j \in 1..Len(mem[Cell(c)]) :
    j >= mem[TailLoc][i].view[Cell(c)] =>
      \A n \in 1..(i - 1) : Index(n) = c[1] => mem[Cell(c)][j].val >= n

\* From the load of tail on a reader has seen what tail published.
SeenInv(r) ==
  rd[r].pc \in {"head", "copy", "fence", "final"} =>
    /\ rd[r].seen \in 1..Len(mem[TailLoc]) /\ rd[r].tail = SequenceOf(rd[r].seen)
    /\ view[r][HeadLoc] >= rd[r].seen
    /\ \A c \in Cells : view[r][Cell(c)] >= mem[TailLoc][rd[r].seen].view[Cell(c)]

\* From the load of head on *sequence is between head and tail.
WindowInv(r) ==
  rd[r].pc \in {"copy", "fence", "final"} =>
    /\ \E h \in (rd[r].seen)..(view[r][HeadLoc]) : rd[r].head = SequenceOf(Offset(h) + 1)
    /\ Sub(rd[r].tail, rd[r].head) <= RecordCount
    /\ Sub(rd[r].sequence, rd[r].head) < Sub(rd[r].tail, rd[r].head)
    /\ IF rd[r].pc = "copy" THEN Len(rd[r].record) < Words ELSE Len(rd[r].record) = Words

\* A word copied is no older than the record wanted; if it is newer, the reader
\* is about to see the head that says so, and has seen it after the fence.
CopyInv(r) ==
  rd[r].pc \in {"copy", "fence", "final"} =>
    \A k \in 1..Len(rd[r].record) :
      LET v == rd[r].record[k] IN
      /\ \A n \in 1..(rd[r].seen - 1) :
           Index(n) = SequenceToIndex(rd[r].sequence) => v >= n
      /\ v # 0 => /\ Index(v) = SequenceToIndex(rd[r].sequence)
                  /\ acq[r][HeadLoc] > v
                  /\ rd[r].pc = "final" => view[r][HeadLoc] > v

\* GetConsistent for one reader.
GotInv(r) ==
  (got[r].record # <<>> /\ got[r].missed < SeqMod) =>
    \E n \in 1..puts : got[r].record = Record(n) /\ got[r].sequence = SequenceOf(n)

\* All of it.
ReaderInv(r) == SeenInv(r) /\ WindowInv(r) /\ CopyInv(r) /\ GotInv(r)

MemoryInv == WriterInv /\ HeadInv /\ TailInv /\ DataInv /\ LastInv /\ PublishedInv

RingInv == Types /\ MemoryInv /\ \A r \in Readers : ReaderInv(r)

-----------------------------------------------------------------------------
(* Memory. *)

\* The locations differ.
LEMMA LocationFacts ==
  /\ HeadLoc \in Locations /\ TailLoc \in Locations /\ HeadLoc # TailLoc
  /\ \A c \in Cells : Cell(c) \in Locations /\ Cell(c) # HeadLoc /\ Cell(c) # TailLoc
  /\ \A c, d \in Cells : Cell(c) = Cell(d) => c = d
  /\ \A i \in 0..(RecordCount - 1), k \in 1..Words : <<i, k>> \in Cells /\ Cell(<<i, k>>) = Data(i, k)
BY DEF HeadLoc, TailLoc, Locations, Cells, Cell, Data

\* The memory after message m has been stored to l.
Grown(l, m) ==
  /\ mem' \in [Locations -> Seq(Message)]
  /\ \A k \in Locations : /\ Len(mem[k]) \in Nat /\ Len(mem'[k]) \in Nat
                          /\ Len(mem'[k]) = IF k = l THEN Len(mem[k]) + 1 ELSE Len(mem[k])
                          /\ \A i \in 1..Len(mem[k]) : mem'[k][i] = mem[k][i]
  /\ mem'[l][Len(mem[l]) + 1] = m
  /\ \A k \in Locations \ {l} : mem'[k] = mem[k]

\* A store appends one message to one location and leaves the rest alone.
LEMMA StoreGrows ==
  ASSUME mem \in [Locations -> Seq(Message)], NEW l \in Locations, NEW m \in Message,
         mem' = [mem EXCEPT ![l] = Append(@, m)]
  PROVE  Grown(l, m)
<1> HIDE DEF Message
<1>1. mem' \in [Locations -> Seq(Message)]
  OBVIOUS
<1>2. mem'[l] = Append(mem[l], m) /\ \A k \in Locations \ {l} : mem'[k] = mem[k]
  OBVIOUS
<1>3. \A k \in Locations : mem[k] \in Seq(Message) /\ Len(mem[k]) \in Nat
  OBVIOUS
<1>4. /\ Len(Append(mem[l], m)) = Len(mem[l]) + 1
      /\ \A i \in 1..Len(mem[l]) : Append(mem[l], m)[i] = mem[l][i]
      /\ Append(mem[l], m)[Len(mem[l]) + 1] = m
  BY <1>3
<1> QED
  BY <1>1, <1>2, <1>3, <1>4 DEF Grown

\* A store disturbs no reader.
LEMMA ReadersKept ==
  ASSUME NEW l \in Locations, NEW m, Grown(l, m), Types, puts' \in Nat, puts' >= puts,
         UNCHANGED <<rd, view, acq, got>>, NEW r \in Readers, ReaderInv(r)
  PROVE  ReaderInv(r)'
<1> USE DEF ReaderInv
<1>1. SeenInv(r)'
  <2>1. /\ Len(mem'[TailLoc]) >= Len(mem[TailLoc]) /\ Len(mem[TailLoc]) \in Nat
        /\ Len(mem'[TailLoc]) \in Nat
        /\ \A i \in 1..Len(mem[TailLoc]) : mem'[TailLoc][i] = mem[TailLoc][i]
    BY LocationFacts DEF Grown
  <2>2. rd'[r] = rd[r] /\ view'[r] = view[r]
    OBVIOUS
  <2>3. rd[r].seen \in 1..Len(mem[TailLoc]) =>
          /\ mem'[TailLoc][rd[r].seen].view = mem[TailLoc][rd[r].seen].view
          /\ rd[r].seen \in 1..Len(mem'[TailLoc])
    BY <2>1
  <2> QED
    BY <2>2, <2>3, Zenon DEF SeenInv
<1>2. WindowInv(r)' /\ CopyInv(r)'
  BY Zenon DEF WindowInv, CopyInv
<1>3. GotInv(r)'
  BY DEF GotInv, Types
<1> QED
  BY <1>1, <1>2, <1>3

\* A reader's step disturbs no other.
LEMMA OthersKept ==
  ASSUME UNCHANGED <<mem, puts>>, NEW r \in Readers, ReaderInv(r),
         rd'[r] = rd[r], view'[r] = view[r], acq'[r] = acq[r], got'[r] = got[r]
  PROVE  ReaderInv(r)'
BY DEF ReaderInv, SeenInv, WindowInv, CopyInv, GotInv

\* What a load does to the views.
Seen(r, l, ts) ==
  /\ view' \in [Readers -> [Locations -> Nat \ {0}]] /\ acq' \in [Readers -> [Locations -> Nat]]
  /\ \A p \in Readers \ {r} : view'[p] = view[p] /\ acq'[p] = acq[p]
  /\ \A k \in Locations : /\ view'[r][k] >= view[r][k] /\ acq'[r][k] >= acq[r][k]
                          /\ acq'[r][k] >= mem[l][ts].view[k]

\* A join of views is a view, and at least each of them.
LEMMA JoinType ==
  ASSUME NEW v \in [Locations -> Nat], NEW w \in [Locations -> Nat]
  PROVE  /\ Join(v, w) \in [Locations -> Nat]
         /\ \A k \in Locations : Join(v, w)[k] >= v[k] /\ Join(v, w)[k] >= w[k]
         /\ v \in [Locations -> Nat \ {0}] => Join(v, w) \in [Locations -> Nat \ {0}]
BY DEF Join, Later

\* A load, relaxed or acquire, returns a store the reader may see and takes the
\* views no way back.
LEMMA LoadSees ==
  ASSUME Types, NEW r \in Readers, NEW l \in Locations, NEW ts \in Visible(r, l),
         LoadRelaxed(r, l, ts) \/ LoadAcquire(r, l, ts)
  PROVE  /\ ts \in 1..Len(mem[l]) /\ mem[l][ts] \in Message
         /\ Seen(r, l, ts)
         /\ LoadRelaxed(r, l, ts) => view'[r][l] = ts
         /\ LoadAcquire(r, l, ts) => \A k \in Locations : view'[r][k] >= mem[l][ts].view[k]
<1>1. ts \in 1..Len(mem[l]) /\ ts >= view[r][l]
  BY DEF Types, Visible
<1>2. mem[l][ts] \in Message
  BY <1>1 DEF Types
<1> DEFINE w == mem[l][ts].view
<1>3. w \in [Locations -> Nat]
  BY <1>2 DEF Message
<1>4. view[r] \in [Locations -> Nat \ {0}] /\ view[r] \in [Locations -> Nat] /\ acq[r] \in [Locations -> Nat]
  BY DEF Types
<1>5. /\ acq' = [acq EXCEPT ![r] = Join(acq[r], w)]
      /\ \/ view' = [view EXCEPT ![r] = Join(view[r], w)]
         \/ view' = [view EXCEPT ![r] = [view[r] EXCEPT ![l] = ts]]
  BY DEF LoadRelaxed, LoadAcquire
<1>6. /\ acq' \in [Readers -> [Locations -> Nat]] /\ acq'[r] = Join(acq[r], w)
      /\ \A p \in Readers \ {r} : acq'[p] = acq[p]
  BY <1>3, <1>4, <1>5, JoinType, Zenon DEF Types
<1>7. LoadAcquire(r, l, ts) =>
        /\ view' \in [Readers -> [Locations -> Nat \ {0}]]
        /\ \A p \in Readers \ {r} : view'[p] = view[p]
        /\ \A k \in Locations : view'[r][k] >= view[r][k] /\ view'[r][k] >= w[k]
  <2> SUFFICES ASSUME view' = [view EXCEPT ![r] = Join(view[r], w)]
               PROVE  /\ view' \in [Readers -> [Locations -> Nat \ {0}]]
                      /\ \A p \in Readers \ {r} : view'[p] = view[p]
                      /\ \A k \in Locations : view'[r][k] >= view[r][k] /\ view'[r][k] >= w[k]
    BY DEF LoadAcquire
  <2>1. Join(view[r], w) \in [Locations -> Nat \ {0}]
    BY <1>3, <1>4, JoinType
  <2>2. view'[r] = Join(view[r], w)
    BY DEF Types
  <2> QED
    BY <1>3, <1>4, <2>1, <2>2, JoinType, Zenon DEF Types
<1>8. LoadRelaxed(r, l, ts) =>
        /\ view' \in [Readers -> [Locations -> Nat \ {0}]]
        /\ \A p \in Readers \ {r} : view'[p] = view[p]
        /\ \A k \in Locations : view'[r][k] >= view[r][k]
        /\ view'[r][l] = ts
  <2> SUFFICES ASSUME view' = [view EXCEPT ![r] = [view[r] EXCEPT ![l] = ts]]
               PROVE  /\ view' \in [Readers -> [Locations -> Nat \ {0}]]
                      /\ \A p \in Readers \ {r} : view'[p] = view[p]
                      /\ \A k \in Locations : view'[r][k] >= view[r][k]
                      /\ view'[r][l] = ts
    BY DEF LoadRelaxed
  <2>1. [view[r] EXCEPT ![l] = ts] \in [Locations -> Nat \ {0}]
    BY <1>1, <1>4
  <2>2. view'[r] = [view[r] EXCEPT ![l] = ts]
    BY DEF Types
  <2> QED
    BY <1>1, <1>4, <2>1, <2>2 DEF Types
<1>9. \A k \in Locations : acq'[r][k] >= acq[r][k] /\ acq'[r][k] >= w[k]
  BY <1>3, <1>4, <1>6, JoinType
<1> QED
  BY <1>1, <1>2, <1>6, <1>7, <1>8, <1>9 DEF Seen

-----------------------------------------------------------------------------
(* The writer's steps. *)

\* A cell holds an index and a word.
LEMMA CellFacts ==
  \A c \in Cells : /\ c[1] \in 0..(RecordCount - 1) /\ c[2] \in 1..Words /\ c = <<c[1], c[2]>>
                   /\ c[1] \in Nat /\ c[2] \in Nat
BY Geometry DEF Cells

\* The messages are typed.
LEMMA MessageFacts ==
  ASSUME Types, NEW l \in Locations, NEW i \in 1..Len(mem[l])
  PROVE  mem[l][i].val \in Nat /\ mem[l][i].view \in [Locations -> Nat]
<1>1. mem[l][i] \in Message
  BY DEF Types
<1> QED
  BY <1>1 DEF Message

\* The view of a release store.
LEMMA WriterViewIs ==
  ASSUME Types, NEW l \in Locations
  PROVE  /\ WriterView(l) \in [Locations -> Nat]
         /\ \A k \in Locations :
              WriterView(l)[k] = IF k = l THEN Len(mem[k]) + 1 ELSE Len(mem[k])
<1>1. \A k \in Locations : Len(mem[k]) \in Nat
  BY DEF Types
<1> QED
  BY <1>1 DEF WriterView

\* Reserve's arithmetic: head stays RecordCount behind the record to be put.
LEMMA ReservedHead ==
  ASSUME RingInv, wpc = 0,
         NEW space, space = RecordCount - Sub(Last(TailLoc), Last(HeadLoc))
  PROVE  (Last(HeadLoc) + Needed(space, 1)) % SeqMod = SequenceOf(Offset(puts + 2) + 1)
<1> DEFINE o == Offset(puts + 1)
<1>1. puts \in Nat /\ Len(mem[HeadLoc]) = puts + 1 /\ Len(mem[TailLoc]) = puts + 1
  BY DEF RingInv, Types, MemoryInv, WriterInv
<1>2. Last(HeadLoc) = SequenceOf(o + 1) /\ Last(TailLoc) = SequenceOf(puts + 1)
  BY <1>1 DEF RingInv, MemoryInv, HeadInv, TailInv, Last
<1>3. o \in Nat /\ puts - o \in 0..RecordCount
      /\ Offset(puts + 2) = IF puts - o = RecordCount THEN o + 1 ELSE o
  BY <1>1, Geometry DEF Offset
<1> HIDE DEF o
<1>4. (puts + 1) - (o + 1) \in 0..(SeqMod - 1)
  BY <1>1, <1>3, Geometry
<1>5. Sub(Last(TailLoc), Last(HeadLoc)) = puts - o
  BY <1>1, <1>2, <1>3, <1>4, SubOfSequences, puts + 1 \in Int, o + 1 \in Int
<1>6. Needed(space, 1) = IF puts - o = RecordCount THEN 1 ELSE 0
  BY <1>1, <1>3, <1>5, Geometry DEF Needed
<1>7. \A d \in {0, 1} : (SequenceOf(o + 1) + d) % SeqMod = SequenceOf((o + 1) + d)
  BY <1>3, SequencePlus
<1>8. (o + 1) + Needed(space, 1) = Offset(puts + 2) + 1 /\ Needed(space, 1) \in {0, 1}
  BY <1>1, <1>3, <1>6, Geometry
<1> QED
  BY <1>2, <1>7, <1>8

\* Reserve: the store to head and the fence after it.
LEMMA ReserveKeeps ==
  ASSUME RingInv, Reserve
  PROVE  RingInv'
<1> DEFINE s == SequenceOf(Offset(puts + 2) + 1)
           m == [val |-> s, view |-> [fence EXCEPT ![HeadLoc] = Len(mem[HeadLoc]) + 1]]
<1> USE LocationFacts
<1>1. Types /\ MemoryInv /\ \A r \in Readers : ReaderInv(r)
  BY DEF RingInv
<1>2. /\ wpc = 0 /\ puts \in Nat /\ puts' = puts + 1 /\ wpc' = 1
      /\ Len(mem[HeadLoc]) = puts + 1 /\ Len(mem[TailLoc]) = puts + 1
      /\ fence \in [Locations -> Nat]
  BY <1>1 DEF Types, MemoryInv, WriterInv, Reserve
<1>3. mem' = [mem EXCEPT ![HeadLoc] = Append(@, m)]
  <2>1. StoreRelaxed(HeadLoc, s)
    BY <1>2, ReservedHead DEF Reserve
  <2> QED
    BY <2>1, Zenon DEF StoreRelaxed
<1>4. s \in Nat
  <2>1. Offset(puts + 2) + 1 \in Int
    BY <1>2, Geometry DEF Offset
  <2> QED
    BY <2>1, SequenceOfIs, Geometry DEF Sequence
<1> HIDE DEF s
<1>5. m \in Message
  BY <1>2, <1>4 DEF Message
<1>6. Grown(HeadLoc, m)
  <2> HIDE DEF m
  <2> QED BY <1>1, <1>3, <1>5, StoreGrows, Zenon DEF Types
<1>7. m.val = s
  OBVIOUS
<1> HIDE DEF m
<1>8. fence' \in [Locations -> Nat] /\ fence'[HeadLoc] = puts' + 1
  BY <1>1, <1>2 DEF Reserve, WriterView, Types
<1>9. Types'
  BY <1>1, <1>2, <1>6, <1>8, Geometry DEF Types, Reserve, Grown
<1>10. /\ \A c \in Cells : mem'[Cell(c)] = mem[Cell(c)]
       /\ mem'[TailLoc] = mem[TailLoc]
  BY <1>6 DEF Grown
<1>11. WriterInv'
  BY <1>2, <1>6, <1>8 DEF WriterInv, Grown
<1>12. HeadInv'
  <2> SUFFICES ASSUME NEW i \in 1..(puts + 2)
               PROVE  mem'[HeadLoc][i].val = SequenceOf(Offset(i) + 1)
    BY <1>2, <1>6 DEF HeadInv, Grown
  <2>1. CASE i = puts + 2
    BY <1>2, <1>6, <1>7, <2>1, (puts + 1) + 1 = puts + 2 DEF Grown, s
  <2>2. CASE i \in 1..(puts + 1)
    BY <1>1, <1>2, <1>6, <2>2, Zenon DEF MemoryInv, HeadInv, Grown
  <2> QED BY <1>2, <2>1, <2>2
<1>13. TailInv' /\ DataInv' /\ PublishedInv'
  BY <1>1, <1>10, Zenon DEF MemoryInv, TailInv, DataInv, PublishedInv
<1>14. LastInv'
  <2> SUFFICES ASSUME NEW c \in Cells
               PROVE  /\ Len(mem[Cell(c)]) > 0
                      /\ \A n \in 1..puts' : (Index(n) = c[1] /\ (n < puts' \/ wpc' \notin 1..c[2])) =>
                           mem[Cell(c)][Len(mem[Cell(c)])].val >= n
    BY <1>10 DEF LastInv
  <2> QED
    BY <1>1, <1>2, CellFacts DEF MemoryInv, LastInv
<1>15. \A r \in Readers : ReaderInv(r)'
  BY <1>1, <1>2, <1>6, ReadersKept DEF Reserve
<1> QED
  BY <1>9, <1>11, <1>12, <1>13, <1>14, <1>15 DEF RingInv, MemoryInv

\* PutRecordInternal: a word of the record, fenced after the store to head.
LEMMA PutKeeps ==
  ASSUME RingInv, PutRecordInternal
  PROVE  RingInv'
<1> DEFINE c0 == <<Index(puts), wpc>>
           m  == [val |-> puts, view |-> [fence EXCEPT ![Cell(c0)] = Len(mem[Cell(c0)]) + 1]]
<1> USE LocationFacts
<1>1. Types /\ MemoryInv /\ \A r \in Readers : ReaderInv(r)
  BY DEF RingInv
<1>2. /\ wpc \in 1..Words /\ puts \in Nat /\ puts > 0 /\ puts' = puts /\ wpc' = wpc + 1
      /\ Len(mem[HeadLoc]) = puts + 1 /\ Len(mem[TailLoc]) = puts
      /\ fence \in [Locations -> Nat] /\ fence[HeadLoc] = puts + 1 /\ fence' = fence
  BY <1>1 DEF Types, MemoryInv, WriterInv, PutRecordInternal
<1>3. Last(TailLoc) = SequenceOf(puts)
  BY <1>1, <1>2 DEF MemoryInv, TailInv, Last
<1>4. Index(puts) \in 0..(RecordCount - 1)
  BY <1>2, SequenceOfIs, IndexType DEF Index
<1>5. c0 \in Cells /\ Cell(c0) = Data(Index(puts), wpc)
  BY <1>2, <1>4
<1>6. mem' = [mem EXCEPT ![Cell(c0)] = Append(@, m)]
  <2>1. Record(puts)[wpc] = puts
    BY <1>2 DEF Record
  <2>2. StoreRelaxed(Cell(c0), puts)
    BY <1>3, <1>5, <2>1, Zenon DEF PutRecordInternal, Index
  <2> QED
    BY <2>2, Zenon DEF StoreRelaxed
<1>7. m \in Message
  <2>1. Len(mem[Cell(c0)]) + 1 \in Nat
    BY <1>1, <1>5 DEF Types
  <2> QED
    BY <1>2, <1>5, <2>1 DEF Message
<1>8. Grown(Cell(c0), m)
  <2> HIDE DEF m, c0
  <2> QED BY <1>1, <1>5, <1>6, <1>7, StoreGrows, Zenon DEF Types
<1>9. m.val = puts /\ m.view[HeadLoc] = puts + 1
  BY <1>2, <1>5
<1>10. c0[1] = Index(puts) /\ c0[2] = wpc
  OBVIOUS
<1> HIDE DEF m, c0
<1>11. Types'
  BY <1>1, <1>2, <1>8, Geometry DEF Types, PutRecordInternal, Grown
<1>12. /\ \A c \in Cells \ {c0} : mem'[Cell(c)] = mem[Cell(c)]
       /\ mem'[TailLoc] = mem[TailLoc] /\ mem'[HeadLoc] = mem[HeadLoc]
  BY <1>5, <1>8 DEF Grown
<1>13. WriterInv' /\ HeadInv' /\ TailInv'
  <2>1. HeadInv' /\ TailInv'
    BY <1>1, <1>12, Zenon DEF MemoryInv, HeadInv, TailInv
  <2> QED
    BY <1>2, <1>12, <2>1 DEF WriterInv
<1> DEFINE len == Len(mem[Cell(c0)])
<1>14. /\ len \in Nat /\ Len(mem'[Cell(c0)]) = len + 1 /\ mem'[Cell(c0)][len + 1] = m
       /\ \A i \in 1..len : mem'[Cell(c0)][i] = mem[Cell(c0)][i]
  BY <1>5, <1>8, Zenon DEF Grown
<1>15. DataInv'
  <2> SUFFICES ASSUME NEW c \in Cells, NEW i \in 1..Len(mem'[Cell(c)]), mem'[Cell(c)][i].val # 0
               PROVE  /\ Index(mem'[Cell(c)][i].val) = c[1]
                      /\ mem'[Cell(c)][i].view[HeadLoc] > mem'[Cell(c)][i].val
    BY DEF DataInv
  <2>1. CASE c # c0
    BY <1>1, <1>12, <2>1 DEF MemoryInv, DataInv
  <2>2. CASE c = c0 /\ i = len + 1
    BY <1>2, <1>9, <1>10, <1>14, <2>2
  <2>3. CASE c = c0 /\ i \in 1..len
    BY <1>1, <1>5, <1>14, <2>3 DEF MemoryInv, DataInv
  <2> QED
    BY <1>14, <2>1, <2>2, <2>3
<1>16. LastInv'
  <2> SUFFICES ASSUME NEW c \in Cells
               PROVE  /\ Len(mem'[Cell(c)]) > 0
                      /\ \A n \in 1..puts : (Index(n) = c[1] /\ (n < puts \/ wpc + 1 \notin 1..c[2])) =>
                           mem'[Cell(c)][Len(mem'[Cell(c)])].val >= n
    BY <1>2 DEF LastInv
  <2>1. CASE c = c0
    BY <1>2, <1>9, <1>14, <2>1
  <2>2. CASE c # c0
    <3> SUFFICES ASSUME NEW n \in 1..puts, Index(n) = c[1], n < puts \/ wpc + 1 \notin 1..c[2]
                 PROVE  n < puts \/ wpc \notin 1..c[2]
      BY <1>1, <1>12, <2>2 DEF MemoryInv, LastInv
    <3>1. CASE n = puts
      <4>1. c[2] # wpc
        BY <1>10, <2>2, <1>5, <3>1, CellFacts
      <4> QED
        BY <1>2, <3>1, <4>1, CellFacts
    <3> QED
      BY <1>2, <3>1
  <2> QED
    BY <2>1, <2>2
<1>17. PublishedInv'
  <2> SUFFICES ASSUME NEW i \in 1..puts, NEW c \in Cells, NEW j \in 1..Len(mem'[Cell(c)]),
                      j >= mem[TailLoc][i].view[Cell(c)],
                      NEW n \in 1..(i - 1), Index(n) = c[1]
               PROVE  mem'[Cell(c)][j].val >= n
    BY <1>2, <1>12, Zenon DEF PublishedInv
  <2>1. CASE c # c0
    BY <1>1, <1>2, <1>12, <2>1, Zenon DEF MemoryInv, PublishedInv
  <2>2. CASE c = c0 /\ j = len + 1
    <3>1. mem'[Cell(c)][j] = m
      BY <1>14, <2>2
    <3> QED
      BY <1>2, <1>9, <3>1
  <2>3. CASE c = c0 /\ j \in 1..len
    BY <1>1, <1>2, <1>5, <1>14, <2>3, Zenon DEF MemoryInv, PublishedInv
  <2> QED
    BY <1>14, <2>1, <2>2, <2>3
<1>18. \A r \in Readers : ReaderInv(r)'
  BY <1>1, <1>2, <1>5, <1>8, ReadersKept DEF PutRecordInternal
<1> QED
  BY <1>11, <1>13, <1>15, <1>16, <1>17, <1>18 DEF RingInv, MemoryInv

\* Publish: the release store to tail publishes all words written.
LEMMA PublishKeeps ==
  ASSUME RingInv, Publish
  PROVE  RingInv'
<1> DEFINE s == SequenceOf(puts + 1)
           m == [val |-> s, view |-> WriterView(TailLoc)]
<1> USE LocationFacts
<1>1. Types /\ MemoryInv /\ \A r \in Readers : ReaderInv(r)
  BY DEF RingInv
<1>2. /\ wpc = Words + 1 /\ puts \in Nat /\ puts > 0 /\ puts' = puts /\ wpc' = 0
      /\ Len(mem[HeadLoc]) = puts + 1 /\ Len(mem[TailLoc]) = puts
  BY <1>1, Geometry DEF Types, MemoryInv, WriterInv, Publish
<1>3. Last(TailLoc) = SequenceOf(puts)
  BY <1>1, <1>2 DEF MemoryInv, TailInv, Last
<1>4. mem' = [mem EXCEPT ![TailLoc] = Append(@, m)]
  <2>1. StoreRelease(TailLoc, s)
    BY <1>2, <1>3, SequencePlus, puts \in Int, 1 \in Int DEF Publish
  <2> QED
    BY <2>1, Zenon DEF StoreRelease
<1>5. \A k \in Locations : Len(mem[k]) \in Nat
  BY <1>1 DEF Types
<1>6. m \in Message
  <2>1. s \in Nat
    BY <1>2, SequenceOfIs, Geometry, puts + 1 \in Int DEF Sequence
  <2>2. WriterView(TailLoc) \in [Locations -> Nat]
    BY <1>1, WriterViewIs
  <2> QED
    BY <2>1, <2>2 DEF Message
<1>7. Grown(TailLoc, m)
  <2> HIDE DEF m
  <2> QED BY <1>1, <1>4, <1>6, StoreGrows, Zenon DEF Types
<1>8. /\ m.val = s /\ m.view[HeadLoc] = puts + 1
      /\ \A c \in Cells : m.view[Cell(c)] = Len(mem[Cell(c)])
  BY <1>1, <1>2, WriterViewIs
<1> HIDE DEF m
<1>9. Types'
  BY <1>1, <1>2, <1>7, Geometry DEF Types, Publish, Grown
<1>10. /\ \A c \in Cells : mem'[Cell(c)] = mem[Cell(c)]
       /\ mem'[HeadLoc] = mem[HeadLoc]
  BY <1>7 DEF Grown
<1>11. /\ Len(mem'[TailLoc]) = puts + 1 /\ mem'[TailLoc][puts + 1] = m
       /\ \A i \in 1..puts : mem'[TailLoc][i] = mem[TailLoc][i]
  BY <1>2, <1>7 DEF Grown
<1>12. WriterInv'
  BY <1>2, <1>10, <1>11 DEF WriterInv
<1>13. HeadInv' /\ DataInv'
  BY <1>1, <1>10, Zenon DEF MemoryInv, HeadInv, DataInv
<1>14. TailInv'
  <2> SUFFICES ASSUME NEW i \in 1..(puts + 1)
               PROVE  /\ mem'[TailLoc][i].val = SequenceOf(i)
                      /\ mem'[TailLoc][i].view[HeadLoc] >= i
    BY <1>11 DEF TailInv
  <2>1. CASE i = puts + 1
    BY <1>2, <1>8, <1>11, <2>1
  <2>2. CASE i \in 1..puts
    BY <1>1, <1>2, <1>11, <2>2 DEF MemoryInv, TailInv
  <2> QED
    BY <1>2, <2>1, <2>2
<1>15. \A c \in Cells : \A n \in 1..puts :
          Index(n) = c[1] => mem[Cell(c)][Len(mem[Cell(c)])].val >= n
  <2> SUFFICES ASSUME NEW c \in Cells, NEW n \in 1..puts, Index(n) = c[1]
               PROVE  mem[Cell(c)][Len(mem[Cell(c)])].val >= n
    OBVIOUS
  <2>1. wpc \notin 1..c[2]
    BY <1>2, CellFacts, Geometry
  <2> QED
    BY <1>1, <2>1, Zenon DEF MemoryInv, LastInv
<1>16. LastInv'
  <2>1. \A c \in Cells : Len(mem[Cell(c)]) > 0
    BY <1>1 DEF MemoryInv, LastInv
  <2> QED
    BY <1>2, <1>10, <1>15, <2>1 DEF LastInv
<1>17. PublishedInv'
  <2> SUFFICES ASSUME NEW i \in 1..(puts + 1), NEW c \in Cells, NEW j \in 1..Len(mem[Cell(c)]),
                      j >= mem'[TailLoc][i].view[Cell(c)],
                      NEW n \in 1..(i - 1), Index(n) = c[1]
               PROVE  mem[Cell(c)][j].val >= n
    BY <1>10, <1>11 DEF PublishedInv
  <2>1. CASE i = puts + 1
    <3>1. j = Len(mem[Cell(c)])
      BY <1>5, <1>8, <1>11, <2>1
    <3>2. n \in 1..puts
      BY <1>2, <2>1
    <3> QED
      BY <1>15, <3>1, <3>2
  <2>2. CASE i \in 1..puts
    BY <1>1, <1>2, <1>11, <2>2 DEF MemoryInv, PublishedInv
  <2> QED
    BY <1>2, <2>1, <2>2
<1>18. \A r \in Readers : ReaderInv(r)'
  BY <1>1, <1>2, <1>7, ReadersKept DEF Publish
<1> QED
  BY <1>9, <1>12, <1>13, <1>14, <1>16, <1>17, <1>18 DEF RingInv, MemoryInv

-----------------------------------------------------------------------------
(* The readers' steps. *)

\* What a reader's step has to show: it stores nothing, and touches one reader.
LEMMA ReaderStepKeeps ==
  ASSUME RingInv, UNCHANGED <<mem, fence, wpc, puts>>, NEW r \in Readers, ReaderInv(r)',
         rd' \in [Readers -> ReaderRecord],
         view' \in [Readers -> [Locations -> Nat \ {0}]], acq' \in [Readers -> [Locations -> Nat]],
         got' \in [Readers -> [sequence : Nat, record : Seq(Nat), missed : Int]],
         \A p \in Readers \ {r} : /\ rd'[p] = rd[p] /\ view'[p] = view[p]
                                  /\ acq'[p] = acq[p] /\ got'[p] = got[p]
  PROVE  RingInv'
<1>1. Types'
  BY DEF RingInv, Types
<1>2. MemoryInv'
  BY Zenon DEF RingInv, MemoryInv, WriterInv, HeadInv, TailInv, DataInv, LastInv, PublishedInv
<1>3. \A p \in Readers \ {r} : ReaderInv(p)'
  BY OthersKept DEF RingInv
<1> QED
  BY <1>1, <1>2, <1>3 DEF RingInv

\* Outside the loop of Get there is nothing to show.
LEMMA QuietReader ==
  ASSUME NEW r \in Readers, rd'[r].pc \in {"start", "idle", "tail"}, GotInv(r)'
  PROVE  ReaderInv(r)'
BY DEF ReaderInv, SeenInv, WindowInv, CopyInv

\* The result of the subtraction is a sequence number.
LEMMA SubType ==
  ASSUME NEW a \in Int, NEW b \in Int
  PROVE  Sub(a, b) \in Sequence
BY Geometry, DivMod, a - b \in Int DEF Sub, Sequence

\* Head and tail hold sequence numbers.
LEMMA CounterFacts ==
  ASSUME RingInv
  PROVE  /\ \A i \in 1..Len(mem[HeadLoc]) : mem[HeadLoc][i].val \in Sequence
         /\ \A i \in 1..Len(mem[TailLoc]) : mem[TailLoc][i].val \in Sequence
<1>1. \A i \in 1..Len(mem[HeadLoc]) : Offset(i) + 1 \in Int
  BY Geometry, LocationFacts DEF Offset, RingInv, Types
<1>2. \A i \in 1..Len(mem[TailLoc]) : i \in Int
  BY LocationFacts DEF RingInv, Types
<1> QED
  BY <1>1, <1>2, SequenceOfIs, Zenon DEF RingInv, MemoryInv, HeadInv, TailInv

\* What *sequence is after the window has been applied.
LEMMA ClampIs ==
  ASSUME NEW s \in Sequence, NEW head \in Sequence, NEW tail \in Sequence
  PROVE  /\ Clamp(s, head, tail) \in Sequence
         /\ Clamp(s, head, tail) # tail =>
              Sub(Clamp(s, head, tail), head) < Sub(tail, head)
<1>1. \A x \in Sequence : Sub(x, head) = IF x >= head THEN x - head ELSE x - head + SeqMod
  BY SubIs
<1> QED
  BY <1>1, Geometry DEF Clamp, Sequence

\* A step that sets one reader's variables.
LEMMA SetReader ==
  ASSUME Types, NEW r \in Readers, NEW new \in ReaderRecord, rd' = [rd EXCEPT ![r] = new]
  PROVE  /\ rd' \in [Readers -> ReaderRecord] /\ rd'[r] = new
         /\ \A p \in Readers \ {r} : rd'[p] = rd[p]
BY DEF Types

\* GetOldestSequence, GetNextSequence and GetNewestSequence.
LEMMA ChooseKeeps ==
  ASSUME RingInv, NEW r \in Readers, NEW l \in {HeadLoc, TailLoc}, NEW back \in {0, 1}, NEW ts,
         ChooseSequence(r, l, back, ts)
  PROVE  RingInv'
<1>1. Types /\ ReaderInv(r) /\ l \in Locations
  BY LocationFacts DEF RingInv
<1>2. ts \in 1..Len(mem[l]) /\ Seen(r, l, ts)
  BY <1>1, LoadSees DEF ChooseSequence
<1>3. Sub(mem[l][ts].val, back) \in Sequence
  <2>1. mem[l][ts].val \in Sequence
    BY <1>2, CounterFacts
  <2>2. mem[l][ts].val \in Int /\ back \in Int
    BY <2>1, Geometry DEF Sequence
  <2> QED
    BY <2>2, SubType
<1>4. /\ rd' \in [Readers -> ReaderRecord] /\ rd'[r].pc = "idle"
      /\ \A p \in Readers \ {r} : rd'[p] = rd[p]
  <2> DEFINE new == [rd[r] EXCEPT !.pc = "idle", !.sequence = Sub(mem[l][ts].val, back)]
  <2>1. new \in ReaderRecord /\ new.pc = "idle"
    BY <1>1, <1>3, Zenon DEF Types, ReaderRecord
  <2>2. rd' = [rd EXCEPT ![r] = new]
    BY Zenon DEF ChooseSequence
  <2> HIDE DEF new
  <2> QED
    BY <1>1, <2>1, <2>2, SetReader, Zenon
<1>5. ReaderInv(r)'
  BY <1>1, <1>4, QuietReader DEF ReaderInv, GotInv, ChooseSequence
<1> QED
  BY <1>1, <1>2, <1>4, <1>5, ReaderStepKeeps, Zenon DEF Seen, Types, ChooseSequence, memoryVars

\* GetNewest.
LEMMA NewestKeeps ==
  ASSUME RingInv, NEW r \in Readers, NEW ts, GetNewest(r, ts)
  PROVE  RingInv'
<1>1. Types /\ ReaderInv(r) /\ TailLoc \in Locations
  BY LocationFacts DEF RingInv
<1>2. ts \in 1..Len(mem[TailLoc]) /\ Seen(r, TailLoc, ts)
  BY <1>1, LoadSees DEF GetNewest
<1>3. Sub(mem[TailLoc][ts].val, 1) \in Sequence
  <2>1. mem[TailLoc][ts].val \in Sequence
    BY <1>2, CounterFacts
  <2>2. mem[TailLoc][ts].val \in Int
    BY <2>1, Geometry DEF Sequence
  <2> QED
    BY <2>2, SubType
<1>4. /\ rd' \in [Readers -> ReaderRecord] /\ rd'[r].pc \in {"idle", "tail"}
      /\ \A p \in Readers \ {r} : rd'[p] = rd[p]
  <2> DEFINE new == [rd[r] EXCEPT !.pc = "tail", !.sequence = Sub(mem[TailLoc][ts].val, 1)]
  <2>1. new \in ReaderRecord /\ new.pc = "tail"
    BY <1>1, <1>3, Zenon DEF Types, ReaderRecord
  <2>2. rd[r].pc = "idle" /\ (rd' = rd \/ rd' = [rd EXCEPT ![r] = new])
    BY Zenon DEF GetNewest
  <2> HIDE DEF new
  <2> QED
    BY <1>1, <2>1, <2>2, SetReader, Zenon DEF Types
<1>5. ReaderInv(r)'
  BY <1>1, <1>4, QuietReader DEF ReaderInv, GotInv, GetNewest
<1> QED
  BY <1>1, <1>2, <1>4, <1>5, ReaderStepKeeps, Zenon DEF Seen, Types, GetNewest, memoryVars

\* Get: the acquire load of tail.
LEMMA TailKeeps ==
  ASSUME RingInv, NEW r \in Readers, NEW ts, GetTail(r, ts)
  PROVE  RingInv'
<1> USE LocationFacts
<1>1. Types /\ ReaderInv(r) /\ MemoryInv
  BY DEF RingInv
<1>2. /\ ts \in 1..Len(mem[TailLoc]) /\ Seen(r, TailLoc, ts)
      /\ \A k \in Locations : view'[r][k] >= mem[TailLoc][ts].view[k]
  BY <1>1, LoadSees DEF GetTail
<1>3. /\ mem[TailLoc][ts].val \in Sequence /\ mem[TailLoc][ts].val = SequenceOf(ts)
      /\ mem[TailLoc][ts].view[HeadLoc] >= ts
  BY <1>1, <1>2, CounterFacts DEF MemoryInv, TailInv
<1>4. /\ rd' \in [Readers -> ReaderRecord] /\ rd'[r].pc = "head" /\ rd'[r].seen = ts
      /\ rd'[r].tail = mem[TailLoc][ts].val
      /\ \A p \in Readers \ {r} : rd'[p] = rd[p]
  <2> DEFINE new == [rd[r] EXCEPT !.pc = "head", !.tail = mem[TailLoc][ts].val, !.seen = ts]
  <2>1. ts \in Nat
    BY <1>1, <1>2 DEF Types
  <2>2. /\ new \in ReaderRecord /\ new.pc = "head" /\ new.seen = ts
        /\ new.tail = mem[TailLoc][ts].val
    BY <1>1, <1>3, <2>1, Zenon DEF Types, ReaderRecord
  <2>3. rd' = [rd EXCEPT ![r] = new]
    BY Zenon DEF GetTail
  <2> HIDE DEF new
  <2> QED
    BY <1>1, <2>2, <2>3, SetReader, Zenon
<1>5. SeenInv(r)'
  <2>1. mem' = mem /\ ts \in Nat /\ view'[r][HeadLoc] \in Nat
    BY <1>1, <1>2 DEF GetTail, memoryVars, Types, Seen
  <2>2. mem[TailLoc][ts].view[HeadLoc] \in Nat
    BY <1>1, <1>2, MessageFacts
  <2>3. view'[r][HeadLoc] >= ts
    BY <1>2, <1>3, <2>1, <2>2
  <2> QED
    BY <1>2, <1>3, <1>4, <2>1, <2>3 DEF SeenInv
<1>6. ReaderInv(r)'
  <2>1. WindowInv(r)' /\ CopyInv(r)'
    BY <1>4 DEF WindowInv, CopyInv
  <2>2. GotInv(r)'
    BY <1>1 DEF ReaderInv, GotInv, GetTail
  <2> QED
    BY <1>5, <2>1, <2>2 DEF ReaderInv
<1> QED
  BY <1>1, <1>2, <1>4, <1>6, ReaderStepKeeps, Zenon DEF Seen, Types, GetTail, memoryVars

\* What tail published stays in the reader's view.
LEMMA SeenKept ==
  ASSUME Types, NEW r \in Readers, SeenInv(r), mem' = mem,
         rd[r].pc \in {"head", "copy", "fence", "final"},
         rd'[r].seen = rd[r].seen, rd'[r].tail = rd[r].tail,
         view' \in [Readers -> [Locations -> Nat \ {0}]],
         \A k \in Locations : view'[r][k] >= view[r][k]
  PROVE  /\ SeenInv(r)'
         /\ rd[r].seen \in Nat /\ view[r][HeadLoc] \in Nat /\ view'[r][HeadLoc] \in Nat
         /\ rd[r].seen <= view[r][HeadLoc] /\ view[r][HeadLoc] <= view'[r][HeadLoc]
<1> USE LocationFacts
<1>1. /\ rd[r].seen \in 1..Len(mem[TailLoc]) /\ rd[r].tail = SequenceOf(rd[r].seen)
      /\ view[r][HeadLoc] >= rd[r].seen
      /\ \A c \in Cells : view[r][Cell(c)] >= mem[TailLoc][rd[r].seen].view[Cell(c)]
  BY DEF SeenInv
<1>2. rd[r].seen \in Nat /\ \A k \in Locations : view[r][k] \in Nat /\ view'[r][k] \in Nat
  BY <1>1 DEF Types
<1>3. \A k \in Locations : mem[TailLoc][rd[r].seen].view[k] \in Nat
  BY <1>1, MessageFacts
<1>4. view'[r][HeadLoc] >= rd[r].seen
  BY <1>1, <1>2
<1>5. ASSUME NEW c \in Cells
      PROVE  view'[r][Cell(c)] >= mem[TailLoc][rd[r].seen].view[Cell(c)]
  <2>1. Cell(c) \in Locations /\ view'[r][Cell(c)] >= view[r][Cell(c)]
    OBVIOUS
  <2>2. view[r][Cell(c)] >= mem[TailLoc][rd[r].seen].view[Cell(c)]
    BY <1>1
  <2> QED
    BY <1>2, <1>3, <2>1, <2>2
<1> QED
  BY <1>1, <1>2, <1>4, <1>5 DEF SeenInv

\* Get: the load of head, and what it makes of *sequence.
LEMMA HeadKeeps ==
  ASSUME RingInv, NEW r \in Readers, NEW ts, GetHead(r, ts)
  PROVE  RingInv'
<1> DEFINE head == mem[HeadLoc][ts].val
           tail == rd[r].tail
           s    == Clamp(rd[r].sequence, head, tail)
           lost == [rd[r] EXCEPT !.pc = "tail"]
           none == [rd[r] EXCEPT !.pc = "idle", !.sequence = s, !.head = head, !.record = <<>>]
           some == [rd[r] EXCEPT !.pc = "copy", !.sequence = s, !.head = head, !.record = <<>>]
<1> USE LocationFacts
<1>1. Types /\ ReaderInv(r) /\ MemoryInv /\ rd[r].pc = "head" /\ rd[r] \in ReaderRecord
  BY Zenon DEF RingInv, GetHead, Types
<1>2. ts \in 1..Len(mem[HeadLoc]) /\ ts \in Nat /\ Seen(r, HeadLoc, ts) /\ view'[r][HeadLoc] = ts
  <2>1. ts \in 1..Len(mem[HeadLoc]) /\ Seen(r, HeadLoc, ts) /\ view'[r][HeadLoc] = ts
    BY <1>1, LoadSees DEF GetHead
  <2> QED
    BY <1>1, <2>1 DEF Types
<1>3. head \in Sequence /\ tail \in Sequence /\ rd[r].sequence \in Sequence
      /\ head = SequenceOf(Offset(ts) + 1)
  BY <1>1, <1>2, CounterFacts DEF MemoryInv, HeadInv, ReaderRecord
<1>4. s \in Sequence /\ (s # tail => Sub(s, head) < Sub(tail, head))
  BY <1>3, ClampIs
<1>5. /\ UNCHANGED <<mem, fence, wpc, puts, got>>
      /\ \/ rd' = [rd EXCEPT ![r] = lost]
         \/ rd' = [rd EXCEPT ![r] = none]
         \/ ~(Sub(tail, head) > RecordCount) /\ s # tail /\ rd' = [rd EXCEPT ![r] = some]
  <2>1. rd' = [rd EXCEPT ![r] =
                 IF Sub(tail, head) > RecordCount THEN lost
                 ELSE [rd[r] EXCEPT !.pc = IF s = tail THEN "idle" ELSE "copy",
                                    !.sequence = s, !.head = head, !.record = <<>>]]
    BY Zenon DEF GetHead
  <2> HIDE DEF s, head, tail
  <2> QED
    BY <2>1, Zenon DEF GetHead, memoryVars
<1>6. GotInv(r)'
  BY <1>1, <1>5 DEF ReaderInv, GotInv
<1> HIDE DEF s, head
<1>7. /\ lost \in ReaderRecord /\ none \in ReaderRecord /\ some \in ReaderRecord
      /\ lost.pc = "tail" /\ none.pc = "idle"
      /\ some.pc = "copy" /\ some.seen = rd[r].seen /\ some.tail = tail /\ some.head = head
      /\ some.sequence = s /\ some.record = <<>>
  <2>1. <<>> \in Seq(Nat)
    OBVIOUS
  <2>2. lost \in ReaderRecord /\ lost.pc = "tail"
    BY <1>1 DEF ReaderRecord
  <2>3. none \in ReaderRecord /\ none.pc = "idle"
    BY <1>1, <1>3, <1>4, <2>1, Zenon DEF ReaderRecord
  <2>4. some \in ReaderRecord
    BY <1>1, <1>3, <1>4, <2>1, Zenon DEF ReaderRecord
  <2>5. /\ some.pc = "copy" /\ some.seen = rd[r].seen /\ some.tail = tail /\ some.head = head
        /\ some.sequence = s /\ some.record = <<>>
    BY <1>1 DEF ReaderRecord
  <2> QED
    BY <2>2, <2>3, <2>4, <2>5
<1> HIDE DEF lost, none, some, tail
<1>8. rd' \in [Readers -> ReaderRecord] /\ \A p \in Readers \ {r} : rd'[p] = rd[p]
  BY <1>1, <1>5, <1>7, SetReader
<1>9. ReaderInv(r)'
  <2>1. CASE rd' = [rd EXCEPT ![r] = lost] \/ rd' = [rd EXCEPT ![r] = none]
    <3>1. rd'[r].pc \in {"start", "idle", "tail"}
      BY <1>1, <1>7, <2>1, SetReader
    <3> QED
      BY <1>6, <3>1, QuietReader
  <2>2. CASE ~(Sub(tail, head) > RecordCount) /\ s # tail /\ rd' = [rd EXCEPT ![r] = some]
    <3>1. rd'[r] = some
      BY <1>1, <1>7, <2>2, SetReader, Zenon
    <3>2. /\ SeenInv(r)' /\ rd[r].seen \in Nat /\ rd[r].seen <= ts
      <4>1. /\ SeenInv(r) /\ mem' = mem /\ rd'[r].seen = rd[r].seen /\ rd'[r].tail = rd[r].tail
            /\ view' \in [Readers -> [Locations -> Nat \ {0}]]
            /\ \A k \in Locations : view'[r][k] >= view[r][k]
        BY <1>1, <1>2, <1>5, <1>7, <3>1, Zenon DEF ReaderInv, Seen, tail
      <4>2. /\ SeenInv(r)' /\ rd[r].seen \in Nat /\ view[r][HeadLoc] \in Nat
            /\ rd[r].seen <= view[r][HeadLoc] /\ view[r][HeadLoc] <= view'[r][HeadLoc]
        BY <1>1, <4>1, SeenKept, Zenon
      <4> QED
        BY <1>2, <4>2
    <3>3. Sub(tail, head) <= RecordCount
      <4>1. Sub(tail, head) \in Sequence
        <5>1. tail \in Int /\ head \in Int
          BY <1>3, Geometry DEF Sequence
        <5> QED
          BY <5>1, SubType
      <4> QED
        BY <2>2, <4>1, Geometry DEF Sequence
    <3>4. WindowInv(r)'
      BY <1>2, <1>3, <1>4, <1>7, <2>2, <3>1, <3>2, <3>3, Geometry DEF WindowInv
    <3>5. CopyInv(r)'
      <4>1. rd'[r].record = <<>>
        BY <1>7, <3>1, Zenon
      <4>2. ~\E k \in 1..Len(rd'[r].record) : TRUE
        BY <4>1
      <4> QED
        BY <4>2, Zenon DEF CopyInv
    <3> QED
      BY <1>6, <3>2, <3>4, <3>5 DEF ReaderInv
  <2> QED
    BY <1>5, <2>1, <2>2
<1> QED
  BY <1>1, <1>2, <1>5, <1>8, <1>9, ReaderStepKeeps, Zenon DEF Seen, Types

\* The window stays, while the reader's view of head grows.
LEMMA WindowKept ==
  ASSUME NEW r \in Readers, WindowInv(r), rd[r].pc \in {"copy", "fence", "final"},
         rd'[r].seen = rd[r].seen, rd'[r].tail = rd[r].tail, rd'[r].head = rd[r].head,
         rd'[r].sequence = rd[r].sequence, rd[r].seen \in Nat,
         view[r][HeadLoc] \in Nat, view'[r][HeadLoc] \in Nat, view[r][HeadLoc] <= view'[r][HeadLoc],
         IF rd'[r].pc = "copy" THEN Len(rd'[r].record) < Words ELSE Len(rd'[r].record) = Words
  PROVE  WindowInv(r)'
<1>1. /\ Sub(rd[r].tail, rd[r].head) <= RecordCount
      /\ Sub(rd[r].sequence, rd[r].head) < Sub(rd[r].tail, rd[r].head)
  BY Zenon DEF WindowInv
<1>2. PICK h \in (rd[r].seen)..(view[r][HeadLoc]) : rd[r].head = SequenceOf(Offset(h) + 1)
  BY Zenon DEF WindowInv
<1>3. h \in (rd[r].seen)..(view'[r][HeadLoc])
  OBVIOUS
<1> QED
  BY <1>1, <1>2, <1>3, Zenon DEF WindowInv

\* GetRecordInternal: a word copied.
LEMMA CopyKeeps ==
  ASSUME RingInv, NEW r \in Readers, NEW ts, GetRecordInternal(r, ts)
  PROVE  RingInv'
<1> DEFINE word == Len(rd[r].record) + 1
           c    == <<SequenceToIndex(rd[r].sequence), word>>
           l    == Cell(c)
           v    == mem[l][ts].val
           new  == [rd[r] EXCEPT !.record = Append(@, v),
                                 !.pc = IF word = Words THEN "fence" ELSE "copy"]
<1> USE LocationFacts
<1>1. Types /\ ReaderInv(r) /\ MemoryInv /\ rd[r].pc = "copy" /\ rd[r] \in ReaderRecord
  BY Zenon DEF RingInv, GetRecordInternal, Types
<1>2. /\ rd[r].sequence \in Sequence /\ rd[r].record \in Seq(Nat) /\ rd[r].seen \in Nat
      /\ Len(rd[r].record) \in Nat
  BY <1>1 DEF ReaderRecord
<1>3. word \in 1..Words
  BY <1>1, <1>2, Geometry DEF ReaderInv, WindowInv
<1>4. c \in Cells /\ l \in Locations /\ l = Data(SequenceToIndex(rd[r].sequence), word)
  BY <1>2, <1>3, IndexType
<1>5. c[1] = SequenceToIndex(rd[r].sequence)
  OBVIOUS
<1>6. /\ ts \in Visible(r, l) /\ LoadRelaxed(r, l, ts)
      /\ rd' = [rd EXCEPT ![r].record = Append(@, v),
                          ![r].pc = IF word = Words THEN "fence" ELSE "copy"]
      /\ UNCHANGED <<mem, fence, wpc, puts, got>>
  BY <1>1, <1>4, Zenon DEF GetRecordInternal, memoryVars
<1> HIDE DEF c, l
<1>7. ts \in 1..Len(mem[l]) /\ Seen(r, l, ts) /\ ts >= view[r][l]
  <2>1. ts \in 1..Len(mem[l]) /\ Seen(r, l, ts)
    BY <1>1, <1>4, <1>6, LoadSees
  <2>2. ts \in view[r][l]..Len(mem[l])
    BY <1>6 DEF Visible
  <2>3. view[r][l] \in Nat /\ Len(mem[l]) \in Nat
    BY <1>1, <1>4 DEF Types
  <2> QED
    BY <2>1, <2>2, <2>3
<1>8. v \in Nat /\ mem[l][ts].view \in [Locations -> Nat]
  BY <1>1, <1>4, <1>7, MessageFacts
<1>9. rd' = [rd EXCEPT ![r] = new]
  BY <1>6, Zenon
<1> HIDE DEF v, word
<1>10. /\ new \in ReaderRecord /\ new.seen = rd[r].seen /\ new.tail = rd[r].tail
       /\ new.head = rd[r].head /\ new.sequence = rd[r].sequence
       /\ new.record = Append(rd[r].record, v)
       /\ new.pc = IF word = Words THEN "fence" ELSE "copy"
  <2> DEFINE record == Append(rd[r].record, v)
             pc     == IF word = Words THEN "fence" ELSE "copy"
  <2>1. record \in Seq(Nat)
    BY <1>2, <1>8
  <2>2. pc \in {"fence", "copy"} /\ new = [rd[r] EXCEPT !.record = record, !.pc = pc]
    OBVIOUS
  <2> HIDE DEF record, pc, new
  <2>3. new \in ReaderRecord
    BY <1>1, <2>1, <2>2, Zenon DEF ReaderRecord
  <2>4. /\ new.seen = rd[r].seen /\ new.tail = rd[r].tail /\ new.head = rd[r].head
        /\ new.sequence = rd[r].sequence /\ new.record = record /\ new.pc = pc
    BY <1>1, <2>2 DEF ReaderRecord
  <2> QED
    BY <2>3, <2>4 DEF record, pc
<1> HIDE DEF new
<1>11. rd' \in [Readers -> ReaderRecord] /\ rd'[r] = new /\ \A p \in Readers \ {r} : rd'[p] = rd[p]
  BY <1>1, <1>9, <1>10, SetReader, Zenon
<1>12. /\ SeenInv(r)' /\ view[r][HeadLoc] \in Nat /\ view'[r][HeadLoc] \in Nat
       /\ view[r][HeadLoc] <= view'[r][HeadLoc]
  <2>1. /\ SeenInv(r) /\ mem' = mem /\ rd'[r].seen = rd[r].seen /\ rd'[r].tail = rd[r].tail
        /\ view' \in [Readers -> [Locations -> Nat \ {0}]]
        /\ \A k \in Locations : view'[r][k] >= view[r][k]
    BY <1>1, <1>6, <1>7, <1>10, <1>11 DEF ReaderInv, Seen
  <2> QED
    BY <1>1, <2>1, SeenKept
<1>13. /\ Len(new.record) = word /\ new.record[word] = v
       /\ \A k \in 1..Len(rd[r].record) : new.record[k] = rd[r].record[k]
  BY <1>2, <1>8, <1>10 DEF word
<1>14. WindowInv(r)'
  <2>1. IF new.pc = "copy" THEN Len(new.record) < Words ELSE Len(new.record) = Words
    BY <1>3, <1>10, <1>13, Geometry
  <2> QED
    BY <1>1, <1>2, <1>10, <1>11, <1>12, <2>1, WindowKept, Zenon DEF ReaderInv
<1>15. \A n \in 1..(rd[r].seen - 1) : Index(n) = c[1] => v >= n
  <2>1. /\ rd[r].seen \in 1..Len(mem[TailLoc])
        /\ view[r][l] >= mem[TailLoc][rd[r].seen].view[l]
    BY <1>1, <1>4, Zenon DEF ReaderInv, SeenInv, l
  <2>2. mem[TailLoc][rd[r].seen].view[l] \in Nat
    <3>1. mem[TailLoc][rd[r].seen].view \in [Locations -> Nat]
      BY <1>1, <2>1, MessageFacts, Zenon
    <3> QED
      BY <1>4, <3>1
  <2>3. view[r][l] \in Nat /\ ts \in Nat
    BY <1>1, <1>4, <1>7 DEF Types
  <2>4. ts >= mem[TailLoc][rd[r].seen].view[l]
    BY <1>7, <2>1, <2>2, <2>3
  <2> QED
    BY <1>1, <1>4, <1>7, <2>1, <2>4, Zenon DEF MemoryInv, PublishedInv, v, l
<1>16. v # 0 => Index(v) = c[1] /\ acq'[r][HeadLoc] > v
  <2> SUFFICES ASSUME v # 0 PROVE Index(v) = c[1] /\ acq'[r][HeadLoc] > v
    OBVIOUS
  <2>1. Index(v) = c[1] /\ mem[l][ts].view[HeadLoc] > v
    BY <1>1, <1>4, <1>7, Zenon DEF MemoryInv, DataInv, v, l
  <2>2. acq'[r][HeadLoc] >= mem[l][ts].view[HeadLoc] /\ acq'[r][HeadLoc] \in Nat
    BY <1>7 DEF Seen
  <2> QED
    BY <1>8, <2>1, <2>2
<1>17. CopyInv(r)'
  <2>1. rd[r].pc \in {"copy", "fence", "final"} /\ rd'[r].pc # "final"
    BY <1>1, <1>10, <1>11
  <2> SUFFICES ASSUME NEW k \in 1..word
               PROVE  /\ \A n \in 1..(rd[r].seen - 1) : Index(n) = c[1] => new.record[k] >= n
                      /\ new.record[k] # 0 => Index(new.record[k]) = c[1] /\ acq'[r][HeadLoc] > new.record[k]
    <3>1. /\ rd'[r].record = new.record /\ Len(rd'[r].record) = word /\ rd'[r].seen = rd[r].seen
          /\ SequenceToIndex(rd'[r].sequence) = c[1]
      BY <1>5, <1>10, <1>11, <1>13
    <3> QED
      BY <2>1, <3>1, Zenon DEF CopyInv
  <2>2. CASE k = word
    BY <1>13, <1>15, <1>16, <2>2
  <2>3. CASE k \in 1..Len(rd[r].record)
    <3>1. rd[r].record[k] \in Nat
      BY <1>2, <2>3
    <3>2. /\ \A n \in 1..(rd[r].seen - 1) : Index(n) = c[1] => rd[r].record[k] >= n
          /\ rd[r].record[k] # 0 => Index(rd[r].record[k]) = c[1] /\ acq[r][HeadLoc] > rd[r].record[k]
      BY <1>1, <1>5, <2>1, <2>3, Zenon DEF ReaderInv, CopyInv
    <3>3. acq'[r][HeadLoc] >= acq[r][HeadLoc] /\ acq[r][HeadLoc] \in Nat /\ acq'[r][HeadLoc] \in Nat
      BY <1>1, <1>7 DEF Seen, Types
    <3> QED
      BY <1>13, <2>3, <3>1, <3>2, <3>3
  <2> QED
    BY <1>2, <2>2, <2>3 DEF word
<1>18. GotInv(r)'
  BY <1>1, <1>6 DEF ReaderInv, GotInv
<1>19. ReaderInv(r)'
  BY <1>12, <1>14, <1>17, <1>18 DEF ReaderInv
<1> QED
  BY <1>1, <1>6, <1>7, <1>11, <1>19, ReaderStepKeeps, Zenon DEF Seen, Types

\* Get: the acquire fence after the copy.
LEMMA FenceKeeps ==
  ASSUME RingInv, NEW r \in Readers, GetFences(r)
  PROVE  RingInv'
<1> DEFINE new == [rd[r] EXCEPT !.pc = "final"]
<1> USE LocationFacts
<1>1. Types /\ ReaderInv(r) /\ rd[r].pc = "fence" /\ rd[r] \in ReaderRecord
  BY DEF RingInv, GetFences, Types
<1>2. /\ view' = [view EXCEPT ![r] = Join(view[r], acq[r])] /\ rd' = [rd EXCEPT ![r] = new]
      /\ UNCHANGED <<mem, fence, wpc, puts, acq, got>>
  BY DEF GetFences, GetFence, memoryVars
<1>3. /\ view[r] \in [Locations -> Nat \ {0}] /\ view[r] \in [Locations -> Nat]
      /\ acq[r] \in [Locations -> Nat]
  BY <1>1 DEF Types
<1>4. /\ view' \in [Readers -> [Locations -> Nat \ {0}]]
      /\ \A p \in Readers \ {r} : view'[p] = view[p]
      /\ \A k \in Locations : view'[r][k] >= view[r][k] /\ view'[r][k] >= acq[r][k]
  <2>1. Join(view[r], acq[r]) \in [Locations -> Nat \ {0}]
    BY <1>3, JoinType
  <2>2. view'[r] = Join(view[r], acq[r])
    BY <1>1, <1>2 DEF Types
  <2>3. \A k \in Locations : view'[r][k] >= view[r][k] /\ view'[r][k] >= acq[r][k]
    BY <1>3, <2>2, JoinType
  <2> QED
    BY <1>1, <1>2, <2>1, <2>3, Zenon DEF Types
<1>5. /\ new \in ReaderRecord /\ new.pc = "final" /\ new.seen = rd[r].seen /\ new.tail = rd[r].tail
      /\ new.head = rd[r].head /\ new.sequence = rd[r].sequence /\ new.record = rd[r].record
  BY <1>1 DEF ReaderRecord
<1> HIDE DEF new
<1>6. rd' \in [Readers -> ReaderRecord] /\ rd'[r] = new /\ \A p \in Readers \ {r} : rd'[p] = rd[p]
  BY <1>1, <1>2, <1>5, SetReader, Zenon
<1>7. /\ SeenInv(r)' /\ rd[r].seen \in Nat /\ view[r][HeadLoc] \in Nat /\ view'[r][HeadLoc] \in Nat
      /\ view[r][HeadLoc] <= view'[r][HeadLoc]
  <2>1. /\ SeenInv(r) /\ mem' = mem /\ rd'[r].seen = rd[r].seen /\ rd'[r].tail = rd[r].tail
    BY <1>1, <1>2, <1>5, <1>6 DEF ReaderInv
  <2> QED
    BY <1>1, <1>4, <2>1, SeenKept
<1>8. WindowInv(r)'
  <2>1. Len(new.record) = Words
    BY <1>1, <1>5 DEF ReaderInv, WindowInv
  <2> QED
    BY <1>1, <1>5, <1>6, <1>7, <2>1, WindowKept DEF ReaderInv
<1>9. CopyInv(r)'
  <2> SUFFICES ASSUME NEW k \in 1..Len(rd[r].record)
               PROVE  /\ \A n \in 1..(rd[r].seen - 1) :
                           Index(n) = SequenceToIndex(rd[r].sequence) => rd[r].record[k] >= n
                      /\ rd[r].record[k] # 0 =>
                           /\ Index(rd[r].record[k]) = SequenceToIndex(rd[r].sequence)
                           /\ acq[r][HeadLoc] > rd[r].record[k]
                           /\ view'[r][HeadLoc] > rd[r].record[k]
    <3>1. /\ rd'[r].record = rd[r].record /\ rd'[r].seen = rd[r].seen
          /\ rd'[r].sequence = rd[r].sequence /\ acq' = acq
      BY <1>2, <1>5, <1>6, Zenon
    <3> QED
      BY <3>1, Zenon DEF CopyInv
  <2>1. /\ \A n \in 1..(rd[r].seen - 1) :
             Index(n) = SequenceToIndex(rd[r].sequence) => rd[r].record[k] >= n
        /\ rd[r].record[k] # 0 =>
             /\ Index(rd[r].record[k]) = SequenceToIndex(rd[r].sequence)
             /\ acq[r][HeadLoc] > rd[r].record[k]
    BY <1>1, Zenon DEF ReaderInv, CopyInv
  <2>2. rd[r].record[k] \in Nat
    BY <1>1 DEF ReaderRecord
  <2>3. view'[r][HeadLoc] >= acq[r][HeadLoc] /\ acq[r][HeadLoc] \in Nat
    BY <1>3, <1>4
  <2> QED
    BY <1>7, <2>1, <2>2, <2>3
<1>10. GotInv(r)'
  BY <1>1, <1>2 DEF ReaderInv, GotInv
<1>11. ReaderInv(r)'
  BY <1>7, <1>8, <1>9, <1>10 DEF ReaderInv
<1> QED
  BY <1>1, <1>2, <1>4, <1>6, <1>11, ReaderStepKeeps, Zenon DEF Types

\* What a Get that ends returns is the record that its sequence number names.
LEMMA ReturnedRecord ==
  ASSUME RingInv, NEW r \in Readers, rd[r].pc = "final", NEW ts \in 1..Len(mem[HeadLoc]),
         ts >= view[r][HeadLoc], ts - rd[r].seen < SeqMod,
         ~(Sub(mem[HeadLoc][ts].val, rd[r].head) > Sub(rd[r].sequence, rd[r].head))
  PROVE  \E n \in 1..puts : rd[r].record = Record(n) /\ rd[r].sequence = SequenceOf(n)
<1> USE LocationFacts
<1>1. /\ Types /\ MemoryInv /\ SeenInv(r) /\ WindowInv(r) /\ CopyInv(r) /\ rd[r] \in ReaderRecord
  BY DEF RingInv, ReaderInv, Types
<1>2. /\ rd[r].sequence \in Sequence /\ rd[r].record \in Seq(Nat) /\ rd[r].seen \in Nat
      /\ view[r][HeadLoc] \in Nat /\ ts \in Nat /\ puts \in Nat
  BY <1>1 DEF ReaderRecord, Types
<1>3. /\ rd[r].seen \in 1..Len(mem[TailLoc]) /\ rd[r].tail = SequenceOf(rd[r].seen)
      /\ Len(rd[r].record) = Words
      /\ Sub(rd[r].tail, rd[r].head) <= RecordCount
      /\ Sub(rd[r].sequence, rd[r].head) < Sub(rd[r].tail, rd[r].head)
  BY <1>1 DEF SeenInv, WindowInv
<1>4. PICK h \in (rd[r].seen)..(view[r][HeadLoc]) : rd[r].head = SequenceOf(Offset(h) + 1)
  BY <1>1 DEF WindowInv
<1>5. h \in Nat /\ 1 <= rd[r].seen /\ rd[r].seen <= h /\ h <= ts
  BY <1>2, <1>3, <1>4
<1>6. mem[HeadLoc][ts].val = SequenceOf(Offset(ts) + 1)
  BY <1>1, Zenon DEF MemoryInv, HeadInv
<1>7. PICK n \in 1..(rd[r].seen - 1) : rd[r].sequence = SequenceOf(n) /\ ts <= n + RecordCount
  BY <1>2, <1>3, <1>4, <1>5, <1>6, WindowIs
<1>8. n \in Nat /\ n \in 1..puts
  <2>1. Len(mem[TailLoc]) \in Nat /\ Len(mem[TailLoc]) <= puts + 1
    BY <1>1, <1>2 DEF MemoryInv, WriterInv
  <2> QED
    BY <1>2, <1>3, <1>7, <2>1
<1>9. ASSUME NEW k \in 1..Words PROVE rd[r].record[k] = n
  <2> DEFINE v == rd[r].record[k]
  <2>1. v \in Nat
    <3> DEFINE record == rd[r].record
    <3>1. record \in Seq(Nat) /\ Len(record) = Words
      BY <1>2, <1>3
    <3> HIDE DEF record
    <3>2. record[k] \in Nat
      BY <3>1
    <3> QED
      BY <3>2 DEF record
  <2>2. Index(n) = SequenceToIndex(rd[r].sequence)
    BY <1>7 DEF Index
  <2>3. v >= n /\ (v # 0 => Index(v) = SequenceToIndex(rd[r].sequence) /\ view[r][HeadLoc] > v)
    BY <1>1, <1>3, <1>7, <2>2, Zenon DEF CopyInv
  <2> HIDE DEF v
  <2>4. v # 0 /\ n <= v /\ v < n + RecordCount
    BY <1>2, <1>7, <1>8, <2>1, <2>3, Geometry
  <2>5. SequenceToIndex(SequenceOf(v)) = SequenceToIndex(SequenceOf(n))
    BY <2>2, <2>3, <2>4 DEF Index
  <2> QED
    BY <1>8, <2>1, <2>4, <2>5, NoLaterLap DEF v
<1>10. rd[r].record = Record(n)
  <2>1. /\ DOMAIN rd[r].record = 1..Words
        /\ rd[r].record = [k \in DOMAIN rd[r].record |-> rd[r].record[k]]
    BY <1>2, <1>3
  <2> QED
    BY <1>9, <2>1, Zenon DEF Record
<1> QED
  BY <1>7, <1>8, <1>10

\* Get: the last load of head, and the return.
LEMMA FinalKeeps ==
  ASSUME RingInv, NEW r \in Readers, NEW ts, GetFinal(r, ts)
  PROVE  RingInv'
<1> DEFINE final == mem[HeadLoc][ts].val
           again == [rd[r] EXCEPT !.pc = "tail"]
           next  == (rd[r].sequence + 1) % SeqMod
           done  == [rd[r] EXCEPT !.pc = "idle", !.sequence = next, !.record = <<>>]
           g     == [sequence |-> rd[r].sequence, record |-> rd[r].record, missed |-> ts - rd[r].seen]
<1> USE LocationFacts
<1>1. Types /\ ReaderInv(r) /\ rd[r].pc = "final" /\ rd[r] \in ReaderRecord
  BY Zenon DEF RingInv, GetFinal, Types
<1>2. /\ ts \in 1..Len(mem[HeadLoc]) /\ Seen(r, HeadLoc, ts)
  BY <1>1, LoadSees DEF GetFinal
<1>3. ts >= view[r][HeadLoc] /\ ts \in Nat /\ view[r][HeadLoc] \in Nat
  <2>1. ts \in view[r][HeadLoc]..Len(mem[HeadLoc])
    BY DEF GetFinal, Visible
  <2>2. view[r][HeadLoc] \in Nat /\ Len(mem[HeadLoc]) \in Nat
    BY <1>1 DEF Types
  <2> QED
    BY <2>1, <2>2
<1>4. /\ rd[r].sequence \in Sequence /\ rd[r].sequence \in Nat /\ rd[r].record \in Seq(Nat)
      /\ rd[r].seen \in Nat
  BY <1>1, Geometry DEF ReaderRecord, Sequence
<1>5. next \in Sequence
  BY <1>4, Geometry, DivMod, rd[r].sequence + 1 \in Int DEF Sequence
<1>6. /\ UNCHANGED <<mem, fence, wpc, puts>>
      /\ \/ rd' = [rd EXCEPT ![r] = again] /\ got' = got
         \/ /\ ~(Sub(final, rd[r].head) > Sub(rd[r].sequence, rd[r].head))
            /\ rd' = [rd EXCEPT ![r] = done] /\ got' = [got EXCEPT ![r] = g]
  BY Zenon DEF GetFinal, memoryVars
<1> HIDE DEF next
<1>7. /\ again \in ReaderRecord /\ again.pc = "tail"
  BY <1>1 DEF ReaderRecord
<1>8. done \in ReaderRecord /\ done.pc = "idle"
  <2>1. <<>> \in Seq(Nat)
    OBVIOUS
  <2> QED
    BY <1>1, <1>5, <2>1, Zenon DEF ReaderRecord
<1>9. g \in [sequence : Nat, record : Seq(Nat), missed : Int]
  BY <1>3, <1>4
<1> HIDE DEF again, done
<1>10. CASE rd' = [rd EXCEPT ![r] = again] /\ got' = got
  <2>1. /\ rd' \in [Readers -> ReaderRecord] /\ rd'[r].pc = "tail"
        /\ \A p \in Readers \ {r} : rd'[p] = rd[p]
    BY <1>1, <1>7, <1>10, SetReader, Zenon
  <2>2. GotInv(r)'
    BY <1>1, <1>6, <1>10, Zenon DEF ReaderInv, GotInv
  <2>3. ReaderInv(r)'
    BY <2>1, <2>2, QuietReader
  <2> QED
    BY <1>1, <1>2, <1>6, <1>10, <2>1, <2>3, ReaderStepKeeps, Zenon DEF Seen, Types
<1>11. CASE /\ ~(Sub(final, rd[r].head) > Sub(rd[r].sequence, rd[r].head))
            /\ rd' = [rd EXCEPT ![r] = done] /\ got' = [got EXCEPT ![r] = g]
  <2>1. /\ rd' \in [Readers -> ReaderRecord] /\ rd'[r].pc = "idle"
        /\ \A p \in Readers \ {r} : rd'[p] = rd[p]
    BY <1>1, <1>8, <1>11, SetReader, Zenon
  <2>2. g.missed < SeqMod =>
          \E n \in 1..puts : g.record = Record(n) /\ g.sequence = SequenceOf(n)
    BY <1>1, <1>2, <1>3, <1>11, ReturnedRecord
  <2> HIDE DEF g
  <2>3. /\ got' \in [Readers -> [sequence : Nat, record : Seq(Nat), missed : Int]] /\ got'[r] = g
        /\ \A p \in Readers \ {r} : got'[p] = got[p]
    BY <1>1, <1>9, <1>11, Zenon DEF Types
  <2>4. GotInv(r)'
    BY <1>6, <2>2, <2>3 DEF GotInv
  <2>5. ReaderInv(r)'
    BY <2>1, <2>4, QuietReader
  <2> QED
    BY <1>1, <1>2, <1>6, <2>1, <2>3, <2>5, ReaderStepKeeps, Zenon DEF Seen, Types
<1> QED
  BY <1>6, <1>10, <1>11, Zenon

-----------------------------------------------------------------------------
(* The theorem. *)

\* A ring just created.
LEMMA RingInit == Init => RingInv
<1> SUFFICES ASSUME Init PROVE RingInv
  OBVIOUS
<1> DEFINE one == [k \in Locations |-> 1]
           m(l) == [val |-> IF l \in {HeadLoc, TailLoc} THEN InitialSequence ELSE 0, view |-> one]
<1> USE LocationFacts
<1>1. one \in [Locations -> Nat] /\ one \in [Locations -> Nat \ {0}] /\ \A k \in Locations : one[k] = 1
  OBVIOUS
<1>2. mem = [l \in Locations |-> <<m(l)>>] /\ fence = one /\ wpc = 0 /\ puts = 0
  BY DEF Init
<1> HIDE DEF one
<1>3. \A l \in Locations : /\ m(l) \in Message /\ m(l).view = one
                           /\ m(l).val = IF l \in {HeadLoc, TailLoc} THEN InitialSequence ELSE 0
  BY <1>1, Geometry DEF Message
<1> HIDE DEF m
<1>4. mem \in [Locations -> Seq(Message)]
  BY <1>2, <1>3
<1>5. \A l \in Locations : Len(mem[l]) = 1 /\ mem[l][1] = m(l)
  BY <1>2
<1>6. 0 \in Sequence /\ <<>> \in Seq(Nat)
  BY Geometry DEF Sequence
<1>7. /\ rd \in [Readers -> ReaderRecord] /\ \A r \in Readers : rd[r].pc = "start"
  BY <1>6 DEF Init, ReaderRecord
<1>8. /\ view \in [Readers -> [Locations -> Nat \ {0}]] /\ acq \in [Readers -> [Locations -> Nat]]
  BY <1>1 DEF Init, one
<1>9. /\ got \in [Readers -> [sequence : Nat, record : Seq(Nat), missed : Int]]
      /\ \A r \in Readers : got[r].record = <<>>
  BY <1>6 DEF Init
<1>10. Types
  BY <1>1, <1>2, <1>4, <1>7, <1>8, <1>9, Geometry DEF Types
<1>11. SequenceOf(1) = InitialSequence /\ Offset(1) + 1 = 1
  <2>1. InitialSequence \in Sequence /\ InitialSequence = SeqMod * 0 + InitialSequence
    BY Geometry DEF Sequence
  <2>2. InitialSequence % SeqMod = InitialSequence
    BY <2>1, WrapIs, Geometry, 0 \in Int, InitialSequence \in Int
  <2>3. InitialSequence + 1 - 1 = InitialSequence
    BY Geometry
  <2> QED
    BY <2>2, <2>3, Geometry DEF SequenceOf, Offset
<1>12. WriterInv /\ HeadInv /\ TailInv
  BY <1>1, <1>2, <1>3, <1>5, <1>11 DEF WriterInv, HeadInv, TailInv
<1>13. \A c \in Cells : Len(mem[Cell(c)]) = 1 /\ mem[Cell(c)][1].val = 0
  BY <1>3, <1>5
<1>14. DataInv /\ LastInv
  <2>1. \A c \in Cells : \A i \in 1..Len(mem[Cell(c)]) : mem[Cell(c)][i].val = 0
    BY <1>13
  <2>2. DataInv
    BY <2>1, Zenon DEF DataInv
  <2>3. LastInv
    BY <1>2, <1>13 DEF LastInv
  <2> QED
    BY <2>2, <2>3
<1>15. PublishedInv
  BY <1>5 DEF PublishedInv
<1>16. \A r \in Readers : ReaderInv(r)
  BY <1>7, <1>9 DEF ReaderInv, SeenInv, WindowInv, CopyInv, GotInv
<1> QED
  BY <1>10, <1>12, <1>14, <1>15, <1>16 DEF RingInv, MemoryInv

\* Every step keeps the invariant.
LEMMA RingStep == RingInv /\ [Next]_vars => RingInv'
<1> SUFFICES ASSUME RingInv, [Next]_vars PROVE RingInv'
  OBVIOUS
<1>1. CASE WriterStep
  BY <1>1, ReserveKeeps, PutKeeps, PublishKeeps DEF WriterStep
<1>2. ASSUME NEW r \in Readers, ReaderStep(r) PROVE RingInv'
  <2>1. CASE GetFences(r)
    BY <2>1, FenceKeeps
  <2>2. ASSUME NEW ts \in Times,
               \/ ChooseSequence(r, HeadLoc, 0, ts) \/ ChooseSequence(r, TailLoc, 0, ts)
               \/ ChooseSequence(r, TailLoc, 1, ts)
        PROVE  RingInv'
    BY <2>2, ChooseKeeps
  <2>3. ASSUME NEW ts \in Times,
               GetNewest(r, ts) \/ GetTail(r, ts) \/ GetHead(r, ts) \/ GetRecordInternal(r, ts)
               \/ GetFinal(r, ts)
        PROVE  RingInv'
    BY <2>3, NewestKeeps, TailKeeps, HeadKeeps, CopyKeeps, FinalKeeps
  <2> QED
    BY <1>2, <2>1, <2>2, <2>3 DEF ReaderStep
<1>3. CASE UNCHANGED vars
  <2>1. Types' /\ MemoryInv'
    BY <1>3, Zenon DEF RingInv, vars, Types, MemoryInv, WriterInv, HeadInv, TailInv, DataInv, LastInv,
                       PublishedInv
  <2>2. \A r \in Readers : ReaderInv(r)'
    BY <1>3, OthersKept DEF RingInv, vars
  <2> QED
    BY <2>1, <2>2 DEF RingInv
<1> QED
  BY <1>1, <1>2, <1>3 DEF Next

\* The comment on Get holds for a ring of any size, records of any length, any
\* number of readers and any number of records put: what Get returns is a
\* record as Put wrote it, the one its sequence number names, unless SeqMod
\* records were put while it ran.  The fences and orders in the code suffice.
THEOREM GetAlwaysConsistent == Spec => []GetConsistent
<1>1. RingInv => GetConsistent
  BY DEF RingInv, ReaderInv, GotInv, GetConsistent
<1> QED
  BY <1>1, RingInit, RingStep, PTL DEF Spec
=============================================================================
