------------------------------ MODULE FileProofs ------------------------------
(***************************************************************************)
(* Proofs about what ends up in a file: a histogram that is marked full is *)
(* complete (HistogramWriter); the files of finished jobs stay and hold    *)
(* the metadata of their own job (JobCreation); and no append destroys a   *)
(* completed row, whichever HDF5 call fails (WriterModules).               *)
(***************************************************************************)
EXTENDS WriterModules, HistogramWriter, JobCreation, CommonLemmas

-----------------------------------------------------------------------------
(* The number of cells of a box                                            *)

IsProduct(f, shape, rank) ==
  f = [n \in 0..rank |-> IF n = 0 THEN 1 ELSE f[n - 1] * shape[n]]

\* The recursion of ProductUpTo has a solution, by induction on the rank.
LEMMA ProductExists ==
  ASSUME NEW shape, NEW rank \in Nat
  PROVE  \E f : IsProduct(f, shape, rank)
<1> DEFINE T == {n \in Nat : ~\E f : IsProduct(f, shape, n)}
<1> SUFFICES ASSUME T # {} PROVE FALSE
  OBVIOUS
<1>1. PICK n \in T : \A m \in T : n <= m
  BY LeastNat
<1>2. CASE n = 0
  <2> DEFINE f == [i \in 0..0 |-> 1]
  <2>1. IsProduct(f, shape, 0)
    BY DEF IsProduct
  <2> QED BY <1>1, <1>2, <2>1
<1>3. CASE n # 0
  <2>1. n - 1 \in Nat /\ n - 1 \notin T /\ n \in Nat
    BY <1>1, <1>3
  <2>2. PICK g : IsProduct(g, shape, n - 1)
    BY <2>1
  <2> DEFINE v == g[n - 1] * shape[n]
             f == [i \in 0..n |-> IF i = n THEN v ELSE g[i]]
  <2>3. \A i \in 0..(n-1) : g[i] = IF i = 0 THEN 1 ELSE g[i - 1] * shape[i]
    BY <2>2 DEF IsProduct
  <2>4. ASSUME NEW i \in 0..n
        PROVE  f[i] = IF i = 0 THEN 1 ELSE f[i - 1] * shape[i]
    <3>1. CASE i = n
      BY <1>3, <2>1, <3>1
    <3>2. CASE i # n
      BY <1>3, <2>1, <2>3, <3>2
    <3> QED BY <3>1, <3>2
  <2>5. IsProduct(f, shape, n)
    <3>1. f = [i \in 0..n |-> f[i]]
      OBVIOUS
    <3> HIDE DEF f
    <3> QED BY <2>4, <3>1 DEF IsProduct
  <2> QED BY <1>1, <2>5
<1> QED BY <1>2, <1>3

\* So ProductUpTo satisfies the equation it is defined by.
LEMMA ProductDef ==
  ASSUME NEW shape \in Seq(Nat)
  PROVE  /\ ProductUpTo(shape)[0] = 1
         /\ \A n \in 1..Len(shape) :
              ProductUpTo(shape)[n] = ProductUpTo(shape)[n - 1] * shape[n]
<1>0. Len(shape) \in Nat
  OBVIOUS
<1>1. \E f : IsProduct(f, shape, Len(shape))
  BY <1>0, ProductExists, Zenon
<1>2. ProductUpTo(shape) = CHOOSE f : IsProduct(f, shape, Len(shape))
  BY DEF ProductUpTo, IsProduct
<1>3. IsProduct(ProductUpTo(shape), shape, Len(shape))
  BY <1>1, <1>2
<1> QED BY <1>0, <1>3 DEF IsProduct

\* The box with n dimensions whose corner is at o and whose sizes are s.
Box(o, s, n) == {p \in [1..n -> Nat] : \A i \in 1..n : o[i] <= p[i] /\ p[i] < o[i] + s[i]}

\* The components of a pair.
LEMMA PairParts ==
  ASSUME NEW S, NEW R, NEW q \in S \X R
  PROVE  q[1] \in S /\ q[2] \in R /\ q = <<q[1], q[2]>>
OBVIOUS

\* One more dimension multiplies the cells of a box by the size of it.
LEMMA BoxGrows ==
  ASSUME NEW n \in Nat, NEW o, NEW s, \A i \in 1..(n+1) : o[i] \in Nat /\ s[i] \in Nat,
         IsFiniteSet(Box(o, s, n))
  PROVE  /\ IsFiniteSet(Box(o, s, n + 1))
         /\ Cardinality(Box(o, s, n + 1)) = Cardinality(Box(o, s, n)) * s[n + 1]
<1> DEFINE a == o[n + 1]
           z == s[n + 1]
           line == a..(a + z - 1)
           A == Box(o, s, n)
           B == Box(o, s, n + 1)
           f == [q \in A \X line |-> [i \in 1..(n + 1) |-> IF i = n + 1 THEN q[2] ELSE q[1][i]]]
<1>1. a \in Nat /\ z \in Nat
  OBVIOUS
<1>2. IsFiniteSet(line) /\ Cardinality(line) = z
  <2> DEFINE b == a + z - 1
  <2>1. a \in Int /\ b \in Int
    BY <1>1
  <2>2. IsFiniteSet(a..b) /\ Cardinality(a..b) = IF a > b THEN 0 ELSE b - a + 1
    <3> HIDE DEF a, b
    <3> QED BY <2>1, FS_Interval
  <2> QED BY <1>1, <2>2
<1>3. IsFiniteSet(A \X line) /\ Cardinality(A \X line) = Cardinality(A) * z
  BY <1>2, FS_Product
<1>4. ASSUME NEW q \in A \X line
      PROVE  f[q] \in B
  <2>0. q[1] \in A /\ q[2] \in line
    BY PairParts
  <2>1. q[1] \in A /\ q[2] \in Nat /\ a <= q[2] /\ q[2] < a + z
    <3>1. q[2] \in Nat /\ a <= q[2] /\ q[2] < a + z
      BY <1>1, <2>0
    <3> QED BY <2>0, <3>1
  <2>2. \A i \in 1..n : q[1][i] \in Nat /\ o[i] <= q[1][i] /\ q[1][i] < o[i] + s[i]
    BY <2>1 DEF Box
  <2>3. f[q] = [i \in 1..(n + 1) |-> IF i = n + 1 THEN q[2] ELSE q[1][i]]
    OBVIOUS
  <2>4. ASSUME NEW i \in 1..(n + 1)
        PROVE  f[q][i] \in Nat /\ o[i] <= f[q][i] /\ f[q][i] < o[i] + s[i]
    <3>1. CASE i = n + 1 BY <2>1, <2>3, <3>1
    <3>2. CASE i # n + 1 BY <2>2, <2>3, <3>2
    <3> QED BY <3>1, <3>2
  <2> HIDE DEF f
  <2>5. f[q] \in [1..(n + 1) -> Nat]
    BY <2>3, <2>4
  <2> QED BY <2>4, <2>5 DEF Box
<1>5. f \in [A \X line -> B]
  BY <1>4
<1>6. ASSUME NEW q \in A \X line, NEW r \in A \X line, f[q] = f[r]
      PROVE  q = r
  <2>1. q[1] \in [1..n -> Nat] /\ r[1] \in [1..n -> Nat]
    BY DEF Box
  <2>2. f[q][n + 1] = q[2] /\ f[r][n + 1] = r[2]
    OBVIOUS
  <2>3. \A i \in 1..n : f[q][i] = q[1][i] /\ f[r][i] = r[1][i]
    OBVIOUS
  <2>4. q[1] = r[1]
    <3> DEFINE u == q[1]
               v == r[1]
    <3>1. \A i \in 1..n : u[i] = v[i]
      <4> HIDE DEF f
      <4> QED BY <1>6, <2>3
    <3>2. u \in [1..n -> Nat] /\ v \in [1..n -> Nat]
      BY <2>1
    <3> HIDE DEF u, v
    <3>3. u = v
      BY <3>1, <3>2
    <3> QED BY <3>3 DEF u, v
  <2>5. q = <<q[1], q[2]>> /\ r = <<r[1], r[2]>>
    OBVIOUS
  <2> QED BY <1>6, <2>2, <2>4, <2>5
<1>7. ASSUME NEW b \in B
      PROVE  \E q \in A \X line : f[q] = b
  <2> DEFINE c == [i \in 1..n |-> b[i]]
             q == <<c, b[n + 1]>>
  <2>1. b \in [1..(n + 1) -> Nat] /\ \A i \in 1..(n + 1) : o[i] <= b[i] /\ b[i] < o[i] + s[i]
    BY DEF Box
  <2>2. c \in A
    BY <2>1 DEF Box
  <2>3. b[n + 1] \in line
    BY <1>1, <2>1
  <2>4. q \in A \X line
    BY <2>2, <2>3
  <2>5. f[q] = [i \in 1..(n + 1) |-> IF i = n + 1 THEN q[2] ELSE q[1][i]]
    <3> HIDE DEF A, line, q
    <3> QED BY <2>4
  <2>6. f[q] = b
    <3>1. q[2] = b[n + 1] /\ q[1] = c
      OBVIOUS
    <3> HIDE DEF f, q
    <3> QED BY <2>1, <2>5, <3>1
  <2> QED BY <2>4, <2>6
<1>8. ExistsBijection(A \X line, B)
  <2> HIDE DEF f, A, B, line
  <2>1. f \in Bijection(A \X line, B)
    BY <1>5, <1>6, <1>7 DEF Bijection, Injection, Surjection, IsInjective
  <2> QED BY <2>1 DEF ExistsBijection
<1> QED BY <1>3, <1>8, FS_Bijection

\* The number of cells of a box is the product of its sizes.
LEMMA BoxCardinality ==
  ASSUME NEW s \in Seq(Nat), NEW o \in Seq(Nat), Len(o) = Len(s)
  PROVE  /\ IsFiniteSet(Box(o, s, Len(s)))
         /\ Cardinality(Box(o, s, Len(s))) = LinearSize(s)
<1> DEFINE Right(n) == /\ IsFiniteSet(Box(o, s, n))
                       /\ Cardinality(Box(o, s, n)) = ProductUpTo(s)[n]
           T == {n \in 0..Len(s) : ~Right(n)}
<1>1. SUFFICES ASSUME T # {} PROVE FALSE
  BY DEF LinearSize
<1>2. PICK n \in T : \A m \in T : n <= m
  <2>1. T \subseteq Nat
    OBVIOUS
  <2> HIDE DEF T
  <2> QED BY <1>1, <2>1, LeastNat
<1>3. CASE n = 0
  <2> DEFINE e == [i \in 1..0 |-> 0]
  <2>1. Box(o, s, 0) = {e}
    <3>1. e \in [1..0 -> Nat] /\ \A i \in 1..0 : FALSE
      OBVIOUS
    <3>2. e \in Box(o, s, 0)
      <4> HIDE DEF e
      <4> QED BY <3>1 DEF Box
    <3>3. ASSUME NEW p \in Box(o, s, 0) PROVE p = e
      <4>1. p \in [1..0 -> Nat]
        BY DEF Box
      <4>2. p = [i \in 1..0 |-> p[i]]
        BY <4>1
      <4> QED BY <3>1, <4>2
    <3> QED BY <3>2, <3>3
  <2>2. IsFiniteSet({e}) /\ Cardinality({e}) = 1
    <3> HIDE DEF e
    <3> QED BY FS_Singleton
  <2> HIDE DEF e
  <2> QED BY <1>2, <1>3, <2>1, <2>2, ProductDef
<1>4. CASE n # 0
  <2>1. n - 1 \in Nat /\ n - 1 \in 0..Len(s) /\ n \in 1..Len(s)
    BY <1>2, <1>4
  <2>2. Right(n - 1)
    BY <1>2, <2>1
  <2>3. \A i \in 1..n : o[i] \in Nat /\ s[i] \in Nat
    BY <2>1
  <2> DEFINE j == n - 1
  <2>4. j \in Nat /\ j + 1 = n
    BY <2>1
  <2>5. \A i \in 1..(j + 1) : o[i] \in Nat /\ s[i] \in Nat
    BY <2>3, <2>4
  <2>6. IsFiniteSet(Box(o, s, j)) /\ Cardinality(Box(o, s, j)) = ProductUpTo(s)[j]
    BY <2>2
  <2> HIDE DEF j
  <2>7. /\ IsFiniteSet(Box(o, s, j + 1))
        /\ Cardinality(Box(o, s, j + 1)) = Cardinality(Box(o, s, j)) * s[j + 1]
    BY <2>4, <2>5, <2>6, BoxGrows
  <2>8. ProductUpTo(s)[n] = ProductUpTo(s)[n - 1] * s[n]
    BY <2>1, ProductDef
  <2>9. n - 1 = j
    BY <2>4
  <2> QED BY <1>2, <2>4, <2>6, <2>7, <2>8, <2>9
<1> QED BY <1>3, <1>4
-----------------------------------------------------------------------------
(* Histograms: the cells that a record has counted are in its row           *)

\* A slice has as many dimensions as the histogram.
IsSlice(s) == /\ s.Offsets \in Seq(Nat) /\ s.Sizes \in Seq(Nat)
              /\ Len(s.Offsets) = Len(Sizes) /\ Len(s.Sizes) = Len(Sizes)

\* The cells of the row of a record that one of its slices covers and that hold
\* its time stamp.
Filled(rows, record, t) ==
  {p \in Positions : /\ rows[record.HDFIndex][p] = t
                     /\ \E s \in record.Slices : p \in Covered(s)}

IsRecord(record) ==
  /\ DOMAIN record = {"HDFIndex", "Slices", "ItemsWritten"}
  /\ record.ItemsWritten \in Nat
  /\ \A s \in record.Slices : IsSlice(s)

\* Every record has a row of its own and has counted no more cells than are
\* filled in it.
RecordsOK(rows, records) ==
  /\ \A t \in DOMAIN records : /\ records[t].HDFIndex \in DOMAIN rows
                               /\ records[t].ItemsWritten <= Cardinality(Filled(rows, records[t], t))
  /\ \A t, u \in DOMAIN records : t # u => records[t].HDFIndex # records[u].HDFIndex

\* A set of cells of one time stamp.
OneStamp(row) == \E t \in Stamps \cup {0} : \A p \in Positions : row[p] = t

\* The records and rows of a writer.
RecordsTyped(records) ==
  /\ IsFiniteSet(DOMAIN records) /\ DOMAIN records \subseteq Stamps
  /\ \A t \in DOMAIN records : IsRecord(records[t])

\* A flag of a row that was not taken over belongs to the record that has the
\* row, and the row is complete.
FlagsOK(flags, records, rows, taken) ==
  /\ Len(flags) \in Nat /\ DOMAIN flags = 1..Len(flags)
  /\ \A i \in DOMAIN flags \ taken : flags[i][2] = 1 =>
       /\ flags[i][1] \in DOMAIN records /\ records[flags[i][1]].HDFIndex = i
       /\ \A p \in Positions : rows[i][p] = flags[i][1]

HistogramInv ==
  /\ lostRow \in BOOLEAN
  /\ ~lostRow => /\ RecordsTyped(HistogramRecords)
                 /\ histograms \in Seq([Positions -> Stamps \cup {0}])
                 /\ RecordsOK(histograms, HistogramRecords)
                 /\ FlagsOK(timestamps, HistogramRecords, histograms, reused)
                 /\ OneStamp(latest)

\* The histogram is a box.
LEMMA PositionsBox ==
  /\ IsFiniteSet(Positions)
  /\ Cardinality(Positions) = LinearSize(Sizes)
<1> DEFINE n == Len(Sizes)
           z == [i \in 1..n |-> 0]
<1>1. Sizes \in Seq(Nat) /\ n \in Nat /\ DOMAIN Sizes = 1..n
  BY HistogramAssumption
<1>2. z \in Seq(Nat) /\ Len(z) = Len(Sizes) /\ \A i \in 1..n : z[i] = 0 /\ Sizes[i] \in Nat
  <2>1. z \in [1..n -> Nat]
    OBVIOUS
  <2> QED BY <1>1, <2>1
<1>3. Positions = Box(z, Sizes, n)
  <2> HIDE DEF z, n
  <2>1. ASSUME NEW p \in Positions PROVE p \in Box(z, Sizes, n)
    <3>1. p \in [1..n -> UNION {0..(Sizes[i] - 1) : i \in 1..n}] /\ \A i \in 1..n : p[i] < Sizes[i]
      BY <1>1 DEF Positions
    <3>2. ASSUME NEW i \in 1..n PROVE p[i] \in Nat
      <4>1. PICK j \in 1..n : p[i] \in 0..(Sizes[j] - 1)
        BY <3>1
      <4> QED BY <1>2, <4>1
    <3>3. p \in [1..n -> Nat]
      BY <3>1, <3>2
    <3>4. \A i \in 1..n : z[i] <= p[i] /\ p[i] < z[i] + Sizes[i]
      BY <1>2, <3>1, <3>2
    <3> QED BY <3>3, <3>4 DEF Box
  <2>2. ASSUME NEW p \in Box(z, Sizes, n) PROVE p \in Positions
    <3>1. p \in [1..n -> Nat] /\ \A i \in 1..n : p[i] < Sizes[i]
      BY <1>2 DEF Box
    <3>2. ASSUME NEW i \in 1..n PROVE p[i] \in UNION {0..(Sizes[j] - 1) : j \in 1..n}
      <4>1. p[i] \in 0..(Sizes[i] - 1)
        BY <1>2, <3>1
      <4> QED BY <4>1
    <3>3. p \in [1..n -> UNION {0..(Sizes[j] - 1) : j \in 1..n}]
      BY <3>1, <3>2
    <3> QED BY <1>1, <3>1, <3>3 DEF Positions
  <2> QED BY <2>1, <2>2
<1> HIDE DEF z
<1>4. IsFiniteSet(Box(z, Sizes, Len(Sizes))) /\ Cardinality(Box(z, Sizes, Len(Sizes))) = LinearSize(Sizes)
  BY <1>1, <1>2, BoxCardinality
<1> QED BY <1>3, <1>4

\* A position gives every dimension a natural.
LEMMA PositionType ==
  ASSUME NEW p \in Positions
  PROVE  DOMAIN p = 1..Len(Sizes) /\ \A i \in 1..Len(Sizes) : p[i] \in Nat
<1>1. /\ DOMAIN Sizes = 1..Len(Sizes)
      /\ \A i \in 1..Len(Sizes) : Sizes[i] \in Nat
  BY HistogramAssumption
<1>2. /\ p \in [1..Len(Sizes) -> UNION {0..(Sizes[i] - 1) : i \in 1..Len(Sizes)}]
      /\ \A i \in 1..Len(Sizes) : p[i] < Sizes[i]
  BY <1>1 DEF Positions
<1>3. ASSUME NEW i \in 1..Len(Sizes) PROVE p[i] \in Nat
  <2>1. PICK j \in 1..Len(Sizes) : p[i] \in 0..(Sizes[j] - 1)
    BY <1>2
  <2> QED BY <1>1, <2>1
<1> QED BY <1>1, <1>2, <1>3

\* The offset and the size of a slice in a dimension.
LEMMA SliceType ==
  ASSUME NEW s, IsSlice(s)
  PROVE  /\ DOMAIN s.Offsets = 1..Len(Sizes)
         /\ \A i \in 1..Len(Sizes) : s.Offsets[i] \in Nat /\ s.Sizes[i] \in Nat
<1> DEFINE o == s.Offsets
           z == s.Sizes
<1>1. o \in Seq(Nat) /\ z \in Seq(Nat) /\ Len(o) = Len(Sizes) /\ Len(z) = Len(Sizes)
  BY DEF IsSlice
<1> HIDE DEF o, z
<1>2. DOMAIN o = 1..Len(Sizes) /\ \A i \in 1..Len(Sizes) : o[i] \in Nat /\ z[i] \in Nat
  BY <1>1
<1> QED BY <1>2 DEF o, z

\* A slice within the histogram covers as many cells as its sizes say.
LEMMA CoveredCardinality ==
  ASSUME NEW s, IsSlice(s),
         \A i \in DOMAIN Sizes : s.Offsets[i] + s.Sizes[i] <= Sizes[i]
  PROVE  IsFiniteSet(Covered(s)) /\ Cardinality(Covered(s)) = LinearSize(s.Sizes)
<1> DEFINE n == Len(Sizes)
           o == s.Offsets
           z == s.Sizes
<1>1. Sizes \in Seq(Nat) /\ n \in Nat /\ DOMAIN Sizes = 1..n
  BY HistogramAssumption
<1>2. o \in Seq(Nat) /\ z \in Seq(Nat) /\ Len(o) = n /\ Len(z) = n
  BY DEF IsSlice
<1>3. \A i \in 1..n : o[i] \in Nat /\ z[i] \in Nat /\ Sizes[i] \in Nat /\ o[i] + z[i] <= Sizes[i]
  BY <1>1, SliceType
<1>4. Covered(s) = Box(o, z, n)
  <2>1. ASSUME NEW p \in Covered(s) PROVE p \in Box(o, z, n)
    <3>1. p \in Positions /\ \A i \in DOMAIN p : o[i] <= p[i] /\ p[i] < o[i] + z[i]
      BY DEF Covered
    <3>2. DOMAIN p = 1..n /\ \A i \in 1..n : p[i] \in Nat
      BY <3>1, PositionType
    <3>3. p \in [1..n -> Nat]
      <4>1. p \in [DOMAIN Sizes -> UNION {0..(Sizes[i] - 1) : i \in DOMAIN Sizes}]
        BY <3>1 DEF Positions
      <4> DEFINE D == DOMAIN Sizes
                 U == UNION {0..(Sizes[i] - 1) : i \in DOMAIN Sizes}
      <4>2. p = [i \in D |-> p[i]]
        <5>1. p \in [D -> U]
          BY <4>1
        <5> HIDE DEF D, U
        <5> QED BY <5>1
      <4>3. D = 1..n
        BY <1>1
      <4> HIDE DEF D, n
      <4> QED BY <3>2, <4>2, <4>3
    <3> QED BY <3>1, <3>2, <3>3 DEF Box
  <2>2. ASSUME NEW p \in Box(o, z, n) PROVE p \in Covered(s)
    <3>1. p \in [1..n -> Nat] /\ \A i \in 1..n : o[i] <= p[i] /\ p[i] < o[i] + z[i]
      BY DEF Box
    <3>2. \A i \in 1..n : p[i] < Sizes[i]
      BY <1>3, <3>1
    <3>3. ASSUME NEW i \in 1..n PROVE p[i] \in UNION {0..(Sizes[j] - 1) : j \in 1..n}
      <4>0. p[i] \in Nat /\ Sizes[i] \in Nat /\ p[i] < Sizes[i]
        <5> HIDE DEF n
        <5> QED BY <1>3, <3>1, <3>2
      <4>1. p[i] \in 0..(Sizes[i] - 1)
        BY <4>0
      <4> QED BY <4>1
    <3>4. p \in [1..n -> UNION {0..(Sizes[j] - 1) : j \in 1..n}]
      BY <3>1, <3>3
    <3>5. p \in Positions
      BY <1>1, <3>2, <3>4 DEF Positions
    <3> QED BY <3>1, <3>5 DEF Covered
  <2> QED BY <2>1, <2>2
<1> HIDE DEF o, z
<1>5. IsFiniteSet(Box(o, z, Len(z))) /\ Cardinality(Box(o, z, Len(z))) = LinearSize(z)
  BY <1>2, BoxCardinality
<1> QED BY <1>2, <1>4, <1>5 DEF z

\* Slices that doesOverlap keeps apart cover no cell together.
LEMMA NoOverlap ==
  ASSUME NEW a, NEW b, IsSlice(a), IsSlice(b), ~doesOverlap(a, b)
  PROVE  Covered(a) \cap Covered(b) = {}
<1>1. PICK i \in DOMAIN a.Offsets :
        ~IF b.Offsets[i] <= a.Offsets[i]
         THEN b.Offsets[i] + b.Sizes[i] > a.Offsets[i]
         ELSE b.Offsets[i] < a.Offsets[i] + a.Sizes[i]
  BY DEF doesOverlap
<1>2. Len(Sizes) \in Nat
  BY HistogramAssumption
<1>3. i \in 1..Len(Sizes)
  BY <1>1, SliceType
<1>4. a.Offsets[i] \in Nat /\ a.Sizes[i] \in Nat /\ b.Offsets[i] \in Nat /\ b.Sizes[i] \in Nat
  BY <1>3, SliceType
<1>5. ASSUME NEW p \in Covered(a), p \in Covered(b) PROVE FALSE
  <2>1. p \in Positions
    BY DEF Covered
  <2>2. i \in DOMAIN p /\ p[i] \in Nat
    BY <1>3, <2>1, PositionType
  <2>3. a.Offsets[i] <= p[i] /\ p[i] < a.Offsets[i] + a.Sizes[i]
    BY <2>2 DEF Covered
  <2>4. b.Offsets[i] <= p[i] /\ p[i] < b.Offsets[i] + b.Sizes[i]
    BY <1>5, <2>2 DEF Covered
  <2>5. CASE b.Offsets[i] <= a.Offsets[i]
    BY <1>1, <1>4, <2>2, <2>3, <2>4, <2>5
  <2>6. CASE ~(b.Offsets[i] <= a.Offsets[i])
    BY <1>1, <1>4, <2>2, <2>3, <2>4, <2>6
  <2> QED BY <2>5, <2>6
<1> QED BY <1>5
\* Filled cells are positions.
LEMMA FilledFinite ==
  ASSUME NEW rows, NEW record, NEW t
  PROVE  /\ Filled(rows, record, t) \subseteq Positions
         /\ IsFiniteSet(Filled(rows, record, t))
         /\ Cardinality(Filled(rows, record, t)) \in Nat
<1>1. Filled(rows, record, t) \subseteq Positions
  BY DEF Filled
<1>2. IsFiniteSet(Filled(rows, record, t))
  BY <1>1, PositionsBox, FS_Subset
<1> QED BY <1>1, <1>2, FS_CardinalityType

\* A record that has counted all items has filled every cell of its row.
LEMMA FullRow ==
  ASSUME NEW rows, NEW record, NEW t,
         record.ItemsWritten \in Nat, record.ItemsWritten > 0, isFull(record),
         record.ItemsWritten <= Cardinality(Filled(rows, record, t))
  PROVE  \A p \in Positions : rows[record.HDFIndex][p] = t
<1> DEFINE F == Filled(rows, record, t)
           c == Cardinality(F)
           n == Cardinality(Positions)
<1>1. record.ItemsWritten = n
  BY PositionsBox DEF isFull, getTotalItems
<1>2. F \subseteq Positions /\ IsFiniteSet(F) /\ c \in Nat
  BY FilledFinite
<1>3. n \in Nat
  BY PositionsBox, FS_CardinalityType
<1>4. c <= n /\ (n = c => Positions = F)
  <2> HIDE DEF F
  <2> QED BY <1>2, PositionsBox, FS_Subset
<1>5. n = c
  BY <1>1, <1>2, <1>3, <1>4
<1>6. Positions = F
  BY <1>4, <1>5
<1> QED BY <1>6 DEF Filled

\* Writing a slice for time stamp t: adding it to the record (fresh), to the row
\* (written) and to the count (counted). A slice is counted only once it is in the
\* row, and it lies apart from the slices the record has.
WritesSlice(rows, records, t, s, fresh, written, counted, after, rows2, records2) ==
  /\ t \in DOMAIN records /\ IsSlice(s)
  /\ RecordsOK(rows, records) /\ \A u \in DOMAIN records : IsRecord(records[u])
  /\ fresh \in BOOLEAN /\ written \in BOOLEAN /\ counted \in BOOLEAN
  /\ fresh => hasEmptySlice(records[t], s)
  /\ written => fresh
  /\ counted => written
  /\ counted => \A i \in DOMAIN Sizes : s.Offsets[i] + s.Sizes[i] <= Sizes[i]
  /\ DOMAIN after = {"HDFIndex", "Slices", "ItemsWritten"}
  /\ after.HDFIndex = records[t].HDFIndex
  /\ after.Slices = IF fresh THEN records[t].Slices \cup {s} ELSE records[t].Slices
  /\ after.ItemsWritten = IF counted THEN records[t].ItemsWritten + LinearSize(s.Sizes)
                          ELSE records[t].ItemsWritten
  /\ rows2 = IF ~written THEN rows
             ELSE [rows EXCEPT ![records[t].HDFIndex] =
                     [p \in Positions |-> IF p \in Covered(s) THEN t ELSE rows[records[t].HDFIndex][p]]]
  /\ records2 = [records EXCEPT ![t] = after]

\* A slice that is written keeps the count of the record below the cells filled.
LEMMA SliceWritten ==
  ASSUME NEW rows, NEW records, NEW t, NEW s, NEW fresh, NEW written, NEW counted,
         NEW after, NEW rows2, NEW records2,
         WritesSlice(rows, records, t, s, fresh, written, counted, after, rows2, records2)
  PROVE  /\ DOMAIN records2 = DOMAIN records
         /\ records2[t] = after
         /\ \A u \in DOMAIN records2 : IsRecord(records2[u])
         /\ RecordsOK(rows2, records2)
<1> DEFINE slices == IF fresh THEN records[t].Slices \cup {s} ELSE records[t].Slices
           items == IF counted THEN records[t].ItemsWritten + LinearSize(s.Sizes)
                    ELSE records[t].ItemsWritten
<1> USE DEF WritesSlice
<1> DEFINE old == records[t]
           row == old.HDFIndex
           F == Filled(rows, old, t)
           G == Filled(rows2, after, t)
           C == Covered(s)
<1>1. DOMAIN records2 = DOMAIN records /\ records2[t] = after
      /\ \A u \in DOMAIN records : u # t => records2[u] = records[u]
  OBVIOUS
<1>2. after.HDFIndex = row /\ after.Slices = slices /\ after.ItemsWritten = items
  OBVIOUS
<1>3. /\ row \in DOMAIN rows /\ old.ItemsWritten <= Cardinality(F)
      /\ old.ItemsWritten \in Nat /\ \A r \in old.Slices : IsSlice(r)
  BY DEF RecordsOK, IsRecord
<1>4. DOMAIN rows2 = DOMAIN rows /\ \A i \in DOMAIN rows : i # row => rows2[i] = rows[i]
  BY <1>3
<1>5. ASSUME NEW p \in Positions
      PROVE  rows2[row][p] = IF written /\ p \in C THEN t ELSE rows[row][p]
  BY <1>3
<1>c. counted => IsFiniteSet(C) /\ Cardinality(C) = LinearSize(s.Sizes)
  BY CoveredCardinality
<1>6. items \in Nat
  <2>1. CASE counted
    BY <1>3, <1>c, <2>1, FS_CardinalityType
  <2>2. CASE ~counted
    BY <1>3, <2>2
  <2> QED BY <2>1, <2>2
<1>7. IsRecord(after)
  <2>1. \A r \in slices : IsSlice(r)
    BY <1>3
  <2> QED BY <1>2, <1>6, <2>1 DEF IsRecord
<1>8. F \subseteq G
  <2> SUFFICES ASSUME NEW p \in F PROVE p \in G
    OBVIOUS
  <2>1. p \in Positions /\ rows[row][p] = t /\ \E r \in old.Slices : p \in Covered(r)
    BY DEF Filled
  <2>2. \E r \in slices : p \in Covered(r)
    BY <2>1
  <2>3. rows2[row][p] = t
    BY <1>5, <2>1
  <2> QED BY <1>2, <2>1, <2>2, <2>3 DEF Filled
<1>9. counted => C \subseteq G /\ F \cap C = {}
  <2> SUFFICES ASSUME counted PROVE C \subseteq G /\ F \cap C = {}
    OBVIOUS
  <2>1. s \in slices
    OBVIOUS
  <2>2. ASSUME NEW p \in C PROVE p \in G
    <3>1. p \in Positions
      BY DEF Covered
    <3>2. rows2[row][p] = t
      BY <1>5, <3>1
    <3> QED BY <1>2, <2>1, <3>1, <3>2 DEF Filled
  <2>3. ASSUME NEW p \in F, p \in C PROVE FALSE
    <3>1. PICK r \in old.Slices : p \in Covered(r)
      BY DEF Filled
    <3>2. ~doesOverlap(r, s) /\ IsSlice(r)
      BY <1>3 DEF hasEmptySlice
    <3>3. Covered(r) \cap Covered(s) = {}
      BY <3>2, NoOverlap
    <3> QED BY <2>3, <3>1, <3>3
  <2> QED BY <2>2, <2>3
<1>10. items <= Cardinality(G)
  <2>1. /\ IsFiniteSet(F) /\ Cardinality(F) \in Nat
        /\ IsFiniteSet(G) /\ Cardinality(G) \in Nat
    BY FilledFinite
  <2> HIDE DEF F, G, C, old
  <2>2. CASE ~counted
    <3>1. Cardinality(F) <= Cardinality(G)
      BY <1>8, <2>1, FS_Subset
    <3>2. items = old.ItemsWritten
      BY <2>2 DEF old
    <3> QED BY <1>3, <2>1, <3>1, <3>2
  <2>3. CASE counted
    <3>1. IsFiniteSet(C) /\ Cardinality(C) = LinearSize(s.Sizes) /\ Cardinality(C) \in Nat
      BY <1>c, <2>3, FS_CardinalityType
    <3>2. F \cap C = {} /\ F \cup C \subseteq G
      BY <1>8, <1>9, <2>3
    <3>3. Cardinality(F \cap C) = 0
      BY <3>2, FS_EmptySet
    <3>4. /\ IsFiniteSet(F \cup C)
          /\ Cardinality(F \cup C) = Cardinality(F) + Cardinality(C) - Cardinality(F \cap C)
      BY <2>1, <3>1, FS_Union
    <3>5. Cardinality(F \cup C) <= Cardinality(G)
      BY <2>1, <3>2, FS_Subset
    <3>6. items = old.ItemsWritten + Cardinality(C)
      BY <2>3, <3>1 DEF old
    <3> QED BY <1>3, <2>1, <3>1, <3>3, <3>4, <3>5, <3>6
  <2> QED BY <2>2, <2>3
<1>11. ASSUME NEW u \in DOMAIN records, u # t
       PROVE  /\ records[u].HDFIndex \in DOMAIN rows /\ records[u].HDFIndex # row
              /\ Filled(rows2, records[u], u) = Filled(rows, records[u], u)
              /\ records[u].ItemsWritten <= Cardinality(Filled(rows, records[u], u))
  <2>1. /\ records[u].HDFIndex \in DOMAIN rows /\ records[u].HDFIndex # row
        /\ records[u].ItemsWritten <= Cardinality(Filled(rows, records[u], u))
    BY <1>11 DEF RecordsOK
  <2>2. rows2[records[u].HDFIndex] = rows[records[u].HDFIndex]
    BY <1>4, <2>1
  <2>3. Filled(rows2, records[u], u) = Filled(rows, records[u], u)
    BY <2>2 DEF Filled
  <2> QED BY <2>1, <2>3
<1> HIDE DEF old, row, F, C
<1>12. ASSUME NEW u \in DOMAIN records2
       PROVE  /\ IsRecord(records2[u]) /\ records2[u].HDFIndex \in DOMAIN rows2
              /\ records2[u].ItemsWritten <= Cardinality(Filled(rows2, records2[u], u))
  <2>1. CASE u = t
    BY <1>1, <1>2, <1>3, <1>4, <1>7, <1>10, <2>1
  <2>2. CASE u # t
    <3>1. u \in DOMAIN records /\ records2[u] = records[u]
      BY <1>1, <2>2
    <3> QED BY <1>4, <1>11, <2>2, <3>1
  <2> QED BY <2>1, <2>2
<1>13. ASSUME NEW u \in DOMAIN records2, NEW v \in DOMAIN records2, u # v
       PROVE  records2[u].HDFIndex # records2[v].HDFIndex
  <2>0. u \in DOMAIN records /\ v \in DOMAIN records
    BY <1>1
  <2>1. CASE u = t
    <3>1. records2[u].HDFIndex = row /\ records2[v] = records[v] /\ v # t
      BY <1>1, <1>2, <1>13, <2>0, <2>1
    <3> QED BY <1>11, <2>0, <3>1
  <2>2. CASE v = t
    <3>1. records2[v].HDFIndex = row /\ records2[u] = records[u] /\ u # t
      BY <1>1, <1>2, <1>13, <2>0, <2>2
    <3> QED BY <1>11, <2>0, <3>1
  <2>3. CASE u # t /\ v # t
    <3>1. records2[v] = records[v] /\ records2[u] = records[u]
      BY <1>1, <2>0, <2>3
    <3> QED BY <1>13, <2>0, <3>1 DEF RecordsOK
  <2> QED BY <2>1, <2>2, <2>3
<1>14. RecordsOK(rows2, records2)
  BY <1>12, <1>13 DEF RecordsOK
<1> QED BY <1>1, <1>12, <1>14

\* The oldest record, the first of the map.
LEMMA OldestExists ==
  ASSUME NEW S, S \subseteq Nat, S # {}
  PROVE  Min(S) \in S
<1>1. \E x \in S : \A y \in S : x <= y
  BY LeastNat
<1> QED BY <1>1 DEF Min

\* The record for a time stamp, found or made, has a row of its own as well: a
\* new row, or the row of the record that is dropped for it.
LEMMA RecordFound ==
  ASSUME RecordsTyped(HistogramRecords),
         histograms \in Seq([Positions -> Stamps \cup {0}]),
         RecordsOK(histograms, HistogramRecords),
         NEW t \in Stamps,
         NEW grown, grown = IF AddNewRow(t) THEN Append(histograms, Blank) ELSE histograms
  PROVE  /\ grown \in Seq([Positions -> Stamps \cup {0}])
         /\ RecordsTyped(RecordsWith(t)) /\ t \in DOMAIN RecordsWith(t)
         /\ RecordsOK(grown, RecordsWith(t))
<1> DEFINE R == HistogramRecords
           N == RecordsWith(t)
           old == Min(DOMAIN R)
           Rows == [Positions -> Stamps \cup {0}]
<1>1. IsFiniteSet(DOMAIN R) /\ DOMAIN R \subseteq Stamps /\ DOMAIN R \subseteq Nat
      /\ \A u \in DOMAIN R : IsRecord(R[u])
  BY HistogramAssumption DEF RecordsTyped
<1>2. Blank \in Rows
  BY DEF Blank
<1>3. grown \in Seq(Rows) /\ Len(histograms) \in Nat
  <2> HIDE DEF Rows
  <2> QED BY <1>2 DEF Rows
<1>4. /\ DOMAIN histograms = 1..Len(histograms)
      /\ \A i \in DOMAIN histograms : i \in DOMAIN grown /\ grown[i] = histograms[i]
  <2>1. histograms \in Seq(Rows)
    OBVIOUS
  <2> HIDE DEF Rows
  <2>2. CASE AddNewRow(t)
    BY <1>2, <2>1, <2>2
  <2>3. CASE ~AddNewRow(t)
    BY <2>1, <2>3
  <2> QED BY <2>2, <2>3
<1>5. ASSUME NEW u \in DOMAIN R
      PROVE  /\ R[u].HDFIndex \in DOMAIN histograms
             /\ R[u].HDFIndex \in DOMAIN grown
             /\ R[u].ItemsWritten <= Cardinality(Filled(grown, R[u], u))
             /\ \A v \in DOMAIN R : v # u => R[v].HDFIndex # R[u].HDFIndex
  <2>1. /\ R[u].HDFIndex \in DOMAIN histograms
        /\ R[u].ItemsWritten <= Cardinality(Filled(histograms, R[u], u))
        /\ \A v \in DOMAIN R : v # u => R[v].HDFIndex # R[u].HDFIndex
    BY DEF RecordsOK
  <2>2. grown[R[u].HDFIndex] = histograms[R[u].HDFIndex]
    BY <1>4, <2>1
  <2>3. Filled(grown, R[u], u) = Filled(histograms, R[u], u)
    BY <2>2 DEF Filled
  <2> QED BY <1>4, <2>1, <2>3
<1>6. CASE t \in DOMAIN R
  <2>1. N = R
    BY <1>6 DEF RecordsWith
  <2>2. RecordsOK(grown, R)
    BY <1>5 DEF RecordsOK
  <2> QED BY <1>3, <1>6, <2>1, <2>2
<1>7. CASE t \notin DOMAIN R
  <2> DEFINE K == IF AddNewRow(t) THEN DOMAIN R ELSE DOMAIN R \ {old}
             row == IF AddNewRow(t) THEN Len(histograms) + 1 ELSE R[old].HDFIndex
  <2>1. N = [u \in K \cup {t} |-> IF u = t THEN newRecord(row) ELSE R[u]]
    BY <1>7 DEF RecordsWith
  <2>2. row \in DOMAIN grown /\ \A u \in K : R[u].HDFIndex # row
    <3>1. CASE AddNewRow(t)
      <4>1. grown = Append(histograms, Blank) /\ row = Len(histograms) + 1 /\ K = DOMAIN R
        BY <3>1
      <4>2. row \in DOMAIN grown
        <5>1. histograms \in Seq(Rows)
          OBVIOUS
        <5> HIDE DEF Rows
        <5> QED BY <1>2, <1>3, <4>1, <5>1
      <4>3. \A u \in DOMAIN R : R[u].HDFIndex # Len(histograms) + 1
        BY <1>3, <1>4, <1>5
      <4> QED BY <4>1, <4>2, <4>3
    <3>2. CASE ~AddNewRow(t)
      <4>1. ~(Cardinality(DOMAIN R) < MaxNumberHistoric)
        BY <1>7, <3>2 DEF AddNewRow
      <4>2. MaxNumberHistoric > 0 /\ MaxNumberHistoric \in Nat
        BY HistogramAssumption
      <4>3. DOMAIN R # {}
        BY <4>1, <4>2, FS_EmptySet
      <4>4. old \in DOMAIN R
        BY <1>1, <4>3, OldestExists
      <4> HIDE DEF old
      <4> QED BY <1>5, <3>2, <4>4
    <3> QED BY <3>1, <3>2
  <2>3. K \subseteq DOMAIN R
    OBVIOUS
  <2> HIDE DEF K, row, R, N
  <2>4. DOMAIN N = K \cup {t} /\ N[t] = newRecord(row) /\ \A u \in K : N[u] = R[u]
    BY <1>7, <2>1, <2>3
  <2>5. IsFiniteSet(K \cup {t}) /\ K \cup {t} \subseteq Stamps
    <3>1. IsFiniteSet(K)
      BY <1>1, <2>3, FS_Subset
    <3> QED BY <1>1, <2>3, <3>1, FS_AddElement
  <2>6. /\ IsRecord(newRecord(row)) /\ newRecord(row).HDFIndex = row
        /\ newRecord(row).ItemsWritten = 0
    BY DEF newRecord, IsRecord
  <2>7. RecordsTyped(N)
    BY <1>1, <2>3, <2>4, <2>5, <2>6 DEF RecordsTyped
  <2>8. ASSUME NEW u \in DOMAIN N
        PROVE  /\ N[u].HDFIndex \in DOMAIN grown
               /\ N[u].ItemsWritten <= Cardinality(Filled(grown, N[u], u))
    <3>1. CASE u = t
      <4>1. Cardinality(Filled(grown, N[u], u)) \in Nat
        BY FilledFinite
      <4> QED BY <2>2, <2>4, <2>6, <3>1, <4>1
    <3>2. CASE u # t
      <4>1. u \in DOMAIN R /\ N[u] = R[u]
        BY <2>3, <2>4, <3>2
      <4> QED BY <1>5, <4>1
    <3> QED BY <3>1, <3>2
  <2>9. ASSUME NEW u \in DOMAIN N, NEW v \in DOMAIN N, u # v
        PROVE  N[u].HDFIndex # N[v].HDFIndex
    <3>1. CASE u = t
      <4>1. v \in K /\ N[v] = R[v] /\ N[u].HDFIndex = row
        BY <2>4, <2>6, <2>9, <3>1
      <4> QED BY <2>2, <4>1
    <3>2. CASE v = t
      <4>1. u \in K /\ N[u] = R[u] /\ N[v].HDFIndex = row
        BY <2>4, <2>6, <2>9, <3>2
      <4> QED BY <2>2, <4>1
    <3>3. CASE u # t /\ v # t
      <4>1. u \in DOMAIN R /\ v \in DOMAIN R /\ N[u] = R[u] /\ N[v] = R[v]
        BY <2>3, <2>4, <3>3
      <4> QED BY <1>5, <2>9, <4>1
    <3> QED BY <3>1, <3>2, <3>3
  <2>10. RecordsOK(grown, N)
    BY <2>8, <2>9 DEF RecordsOK
  <2> QED BY <1>3, <2>4, <2>7, <2>10 DEF N
<1> QED BY <1>6, <1>7

\* The records of other rows are kept, and the row of the time stamp was its own
\* before, or nobody's, or is taken over.
LEMMA RecordsKept ==
  ASSUME RecordsTyped(HistogramRecords),
         histograms \in Seq([Positions -> Stamps \cup {0}]),
         RecordsOK(histograms, HistogramRecords),
         NEW t \in Stamps, NEW row, row = RecordsWith(t)[t].HDFIndex,
         NEW u \in DOMAIN HistogramRecords
  PROVE  /\ HistogramRecords[u].HDFIndex # row =>
              u \in DOMAIN RecordsWith(t) /\ RecordsWith(t)[u] = HistogramRecords[u]
         /\ HistogramRecords[u].HDFIndex = row /\ (t \in DOMAIN HistogramRecords \/ AddNewRow(t)) => u = t
<1> DEFINE R == HistogramRecords
           N == RecordsWith(t)
           old == Min(DOMAIN R)
<1>1. /\ R[u].HDFIndex \in DOMAIN histograms
      /\ \A v \in DOMAIN R : v # u => R[v].HDFIndex # R[u].HDFIndex
  BY DEF RecordsOK
<1>2. Len(histograms) \in Nat /\ DOMAIN histograms = 1..Len(histograms)
  <2> DEFINE Rows == [Positions -> Stamps \cup {0}]
  <2>1. histograms \in Seq(Rows)
    OBVIOUS
  <2> HIDE DEF Rows
  <2> QED BY <2>1
<1>3. CASE t \in DOMAIN R
  <2>1. N = R
    BY <1>3 DEF RecordsWith
  <2> QED BY <1>1, <1>3, <2>1
<1>4. CASE t \notin DOMAIN R
  <2> DEFINE K == IF AddNewRow(t) THEN DOMAIN R ELSE DOMAIN R \ {old}
             place == IF AddNewRow(t) THEN Len(histograms) + 1 ELSE R[old].HDFIndex
  <2>1. N = [v \in K \cup {t} |-> IF v = t THEN newRecord(place) ELSE R[v]]
    BY <1>4 DEF RecordsWith
  <2>2. row = place
    <3>1. N[t] = newRecord(place)
      BY <2>1
    <3> QED BY <3>1 DEF newRecord
  <2>3. CASE AddNewRow(t)
    <3>1. R[u].HDFIndex # row
      BY <1>1, <1>2, <2>2, <2>3
    <3>2. u \in K /\ u # t
      BY <1>4, <2>3
    <3> QED BY <2>1, <3>1, <3>2
  <2>4. CASE ~AddNewRow(t)
    <3>1. R[u].HDFIndex # row => u # old
      BY <2>2, <2>4
    <3>2. R[u].HDFIndex # row => u \in K /\ u # t
      BY <1>4, <2>4, <3>1
    <3> QED BY <1>4, <2>1, <2>4, <3>2
  <2> QED BY <2>3, <2>4
<1> QED BY <1>3, <1>4

\* The flags after a message: the one of its row is set when the row is complete.
FlagsAfter(flags, count, row, t, full) ==
  [i \in 1..count |->
     << IF i = row THEN t ELSE IF i <= Len(flags) THEN flags[i][1] ELSE 0,
        IF i = row /\ full THEN 1 ELSE IF i <= Len(flags) THEN flags[i][2] ELSE 0 >>]

LEMMA FlagsKept ==
  ASSUME NEW flags, NEW records, NEW rows, NEW taken, FlagsOK(flags, records, rows, taken),
         NEW flags2, NEW records2, NEW rows2, NEW taken2, taken \subseteq taken2,
         NEW t, NEW row, NEW full \in BOOLEAN, NEW count \in Nat,
         t \in DOMAIN records2, records2[t].HDFIndex = row,
         \A u \in DOMAIN records :
           /\ records[u].HDFIndex # row =>
                /\ u \in DOMAIN records2 /\ records2[u].HDFIndex = records[u].HDFIndex
                /\ rows2[records[u].HDFIndex] = rows[records[u].HDFIndex]
           /\ records[u].HDFIndex = row /\ row \notin taken2 => u = t,
         \A p \in Positions : row \notin taken2 /\ t \in DOMAIN records /\ rows[row][p] = t => rows2[row][p] = t,
         full => \A p \in Positions : rows2[row][p] = t,
         flags2 = flags \/ flags2 = FlagsAfter(flags, count, row, t, full)
  PROVE  FlagsOK(flags2, records2, rows2, taken2)
<1>1. Len(flags) \in Nat /\ DOMAIN flags = 1..Len(flags)
  BY DEF FlagsOK
<1>2. Len(flags2) \in Nat /\ DOMAIN flags2 = 1..Len(flags2)
  <2>1. CASE flags2 = flags
    BY <1>1, <2>1
  <2>2. CASE flags2 = FlagsAfter(flags, count, row, t, full)
    <3> DEFINE f(i) == << IF i = row THEN t ELSE IF i <= Len(flags) THEN flags[i][1] ELSE 0,
                          IF i = row /\ full THEN 1 ELSE IF i <= Len(flags) THEN flags[i][2] ELSE 0 >>
    <3>1. flags2 = [i \in 1..count |-> f(i)]
      BY <2>2 DEF FlagsAfter
    <3> HIDE DEF f
    <3>2. flags2 \in Seq({f(i) : i \in 1..count})
      BY <3>1
    <3> QED BY <3>2
  <2> QED BY <2>1, <2>2
<1>3. ASSUME NEW i \in DOMAIN flags2 \ taken2, flags2[i][2] = 1
      PROVE  /\ flags2[i][1] \in DOMAIN records2 /\ records2[flags2[i][1]].HDFIndex = i
             /\ \A p \in Positions : rows2[i][p] = flags2[i][1]
  <2>1. CASE i = row /\ full /\ flags2 = FlagsAfter(flags, count, row, t, full)
    <3>1. flags2[i][1] = t
      BY <1>3, <2>1 DEF FlagsAfter
    <3> QED BY <2>1, <3>1
  <2>2. CASE ~(i = row /\ full /\ flags2 = FlagsAfter(flags, count, row, t, full))
    <3>1. i \in DOMAIN flags /\ flags[i][2] = 1 /\ (flags2[i][1] = flags[i][1] \/ (i = row /\ flags2[i][1] = t))
      <4>1. CASE flags2 = flags
        BY <1>3, <4>1
      <4>2. CASE flags2 = FlagsAfter(flags, count, row, t, full)
        <5>1. i \in 1..count /\ ~(i = row /\ full)
          BY <1>3, <2>2, <4>2 DEF FlagsAfter
        <5>2. flags2[i] = << IF i = row THEN t ELSE IF i <= Len(flags) THEN flags[i][1] ELSE 0,
                             IF i <= Len(flags) THEN flags[i][2] ELSE 0 >>
          BY <4>2, <5>1 DEF FlagsAfter
        <5>3. i <= Len(flags)
          BY <1>3, <5>2
        <5>4. i \in DOMAIN flags
          BY <1>1, <5>1, <5>3
        <5> QED BY <1>3, <5>2, <5>3, <5>4
      <4> QED BY <4>1, <4>2
    <3> DEFINE u == flags[i][1]
    <3>2. u \in DOMAIN records /\ records[u].HDFIndex = i /\ \A p \in Positions : rows[i][p] = u
      BY <1>3, <3>1 DEF FlagsOK
    <3> HIDE DEF u
    <3>3. CASE i # row
      <4>1. u \in DOMAIN records2 /\ records2[u].HDFIndex = i /\ rows2[i] = rows[i]
        BY <3>2, <3>3
      <4> QED BY <3>1, <3>2, <3>3, <4>1 DEF u
    <3>4. CASE i = row
      <4>1. u = t
        BY <1>3, <3>2, <3>4
      <4>2. \A p \in Positions : rows2[row][p] = t
        BY <1>3, <3>2, <3>4, <4>1
      <4>3. flags2[i][1] = t
        BY <3>1, <4>1 DEF u
      <4> QED BY <3>4, <4>2, <4>3
    <3> QED BY <3>3, <3>4
  <2> QED BY <2>1, <2>2
<1> QED BY <1>2, <1>3 DEF FlagsOK

\* The HDF5 calls begin with the growing of the dataset.
LEMMA FirstCall == 1 \in DOMAIN Calls /\ DOMAIN Calls \subseteq Nat \ {0} /\ Calls[1] = "extent"
<1>1. DOMAIN Calls = 1..9
  BY DEF Calls
<1>2. Calls[1] = "extent"
  BY DEF Calls
<1> QED BY <1>1, <1>2

\* The first HDF5 call is made unless it is the one that throws.
LEMMA ExtentMade ==
  ASSUME NEW failing \in {Calls[i] : i \in DOMAIN Calls}, failing # "extent"
  PROVE  Made("extent", failing)
<1>1. PICK j \in DOMAIN Calls : Calls[j] = failing
  OBVIOUS
<1>2. j # 1 /\ j \in Nat \ {0}
  BY <1>1, FirstCall
<1>3. 1 < j
  BY <1>2
<1> QED BY <1>1, <1>3, FirstCall DEF Made

\* A message of the right rank gives a slice.
LEMMA SliceOfMessage ==
  ASSUME NEW m \in HMessages, Len(m.shape) = Len(Sizes)
  PROVE  IsSlice(fromOffsetsSizes(m)) /\ fromOffsetsSizes(m).Sizes = m.shape
<1> DEFINE o == m.offset
           z == m.shape
           zero == [i \in DOMAIN z |-> 0]
           f == IF Len(o) = Len(z) THEN o ELSE zero
<1>1. o \in Seq(Nat) /\ z \in Seq(Nat) /\ Len(z) = Len(Sizes)
  BY HistogramAssumption
<1>2. fromOffsetsSizes(m) = [Offsets |-> f, Sizes |-> z]
  BY DEF fromOffsetsSizes
<1> HIDE DEF o, z
<1>3. zero \in Seq(Nat) /\ Len(zero) = Len(z)
  <2>1. DOMAIN z = 1..Len(z) /\ Len(z) \in Nat
    BY <1>1
  <2>2. zero \in [1..Len(z) -> Nat]
    BY <2>1
  <2> QED BY <2>1, <2>2
<1>4. f \in Seq(Nat) /\ Len(f) = Len(Sizes)
  BY <1>1, <1>3
<1> HIDE DEF f
<1> QED BY <1>1, <1>2, <1>4 DEF IsSlice, z

\* A shape without dimensions has one item, and only that can be counted for it.
LEMMA NothingToCount ==
  ASSUME getTotalItems = 0
  PROVE  Positions = {} \/ (Sizes = << >> /\ LinearSize(Sizes) = 1)
<1>1. CASE Sizes = << >>
  <2>1. Len(Sizes) = 0
    BY <1>1
  <2> QED BY <1>1, <2>1, HistogramAssumption, ProductDef DEF LinearSize
<1>2. CASE Sizes # << >>
  BY <1>2, PositionsBox, FS_EmptySet DEF getTotalItems
<1> QED BY <1>1, <1>2

\* A call of write() that passes its checks, wherever it throws.
LEMMA WriteKeeps ==
  ASSUME HistogramInv, NEW m \in HMessages, Acceptable(m),
         NEW failing \in {Calls[i] : i \in DOMAIN Calls},
         FitsRow(m, failing), writeSlice(m, failing)
  PROVE  HistogramInv'
<1> DEFINE t       == m.stamp
           slice   == fromOffsetsSizes(m)
           records == RecordsWith(t)
           record  == records[t]
           row     == record.HDFIndex
           grown   == IF AddNewRow(t) /\ Made("extent", failing) THEN Append(histograms, Blank) ELSE histograms
           fresh   == Made("errors extent", failing) /\ hasEmptySlice(record, slice)
           written == fresh /\ Made("write", failing)
           counted == written /\ Made("errors", failing)
           stamped == counted /\ Made("timestamps", failing)
           slices  == IF fresh THEN record.Slices \cup {slice} ELSE record.Slices
           items   == IF counted THEN record.ItemsWritten + LinearSize(m.shape) ELSE record.ItemsWritten
           after   == [record EXCEPT !.Slices = slices, !.ItemsWritten = items]
           cells   == [p \in Positions |-> IF p \in Covered(slice) THEN t ELSE grown[row][p]]
           Rows    == [Positions -> Stamps \cup {0}]
           taken   == IF t \in DOMAIN HistogramRecords \/ AddNewRow(t) THEN reused ELSE reused \cup {row}
           full    == isFull(after)
           count   == Cardinality(DOMAIN records)
<1>1. /\ HistogramRecords' = [records EXCEPT ![t] = after]
      /\ histograms' = IF written THEN [grown EXCEPT ![row] = cells] ELSE grown
      /\ lostRow' = (lostRow \/ (AddNewRow(t) /\ failing = "extent"))
      /\ latest' = IF stamped /\ Made("info_timestamp", failing) /\ Made("copy", failing) /\ isFull(after)
                   THEN histograms'[row] ELSE latest
      /\ reused' = taken
      /\ timestamps' = IF ~stamped THEN timestamps ELSE FlagsAfter(timestamps, count, row, t, full)
  BY DEF writeSlice, copyLatestToData, FlagsAfter
<1>2. lostRow' \in BOOLEAN
  BY <1>1 DEF HistogramInv
<1>3. SUFFICES ASSUME ~lostRow'
               PROVE  /\ RecordsTyped(HistogramRecords)'
                      /\ histograms' \in Seq(Rows)
                      /\ RecordsOK(histograms, HistogramRecords)'
                      /\ FlagsOK(timestamps, HistogramRecords, histograms, reused)'
                      /\ OneStamp(latest)'
  BY <1>2 DEF HistogramInv
<1>4. ~lostRow /\ (AddNewRow(t) => failing # "extent")
  BY <1>1, <1>3 DEF HistogramInv
<1>5. /\ RecordsTyped(HistogramRecords) /\ histograms \in Seq(Rows)
      /\ RecordsOK(histograms, HistogramRecords) /\ OneStamp(latest)
      /\ FlagsOK(timestamps, HistogramRecords, histograms, reused)
  BY <1>4 DEF HistogramInv
<1>6. t \in Stamps /\ IsSlice(slice) /\ slice.Sizes = m.shape
  <2>1. t \in Stamps
    BY HistogramAssumption
  <2>2. Len(m.shape) = Len(Sizes)
    BY DEF Acceptable
  <2> QED BY <2>1, <2>2, SliceOfMessage
<1>7. grown = IF AddNewRow(t) THEN Append(histograms, Blank) ELSE histograms
  BY <1>4, ExtentMade
<1>8. /\ grown \in Seq(Rows) /\ RecordsTyped(records) /\ t \in DOMAIN records
      /\ RecordsOK(grown, records)
  <2> HIDE DEF grown, records, t
  <2> QED BY <1>5, <1>6, <1>7, RecordFound DEF records
<1>9. IsRecord(record) /\ \A u \in DOMAIN records : IsRecord(records[u])
  BY <1>8 DEF RecordsTyped
<1>10. /\ DOMAIN after = {"HDFIndex", "Slices", "ItemsWritten"}
       /\ after.HDFIndex = row /\ after.Slices = slices /\ after.ItemsWritten = items
  <2>1. after = [record EXCEPT !.Slices = slices, !.ItemsWritten = items]
    OBVIOUS
  <2>2. DOMAIN record = {"HDFIndex", "Slices", "ItemsWritten"}
    BY <1>9 DEF IsRecord
  <2> HIDE DEF record, slices, items, after
  <2> QED BY <2>1, <2>2
<1>11. written => \A i \in DOMAIN Sizes : slice.Offsets[i] + slice.Sizes[i] <= Sizes[i]
  BY DEF FitsRow
<1>12. fresh \in BOOLEAN /\ written \in BOOLEAN /\ counted \in BOOLEAN
  BY DEF Made, hasEmptySlice
<1>13. /\ fresh => hasEmptySlice(records[t], slice)
       /\ written => fresh
       /\ counted => written
       /\ stamped => counted
  OBVIOUS
<1>14. items = IF counted THEN records[t].ItemsWritten + LinearSize(slice.Sizes)
               ELSE records[t].ItemsWritten
  BY <1>6
<1>15. histograms' = IF ~written THEN grown
                     ELSE [grown EXCEPT ![records[t].HDFIndex] =
                             [p \in Positions |-> IF p \in Covered(slice) THEN t
                                                  ELSE grown[records[t].HDFIndex][p]]]
  BY <1>1
<1>16. slices = IF fresh THEN records[t].Slices \cup {slice} ELSE records[t].Slices
  OBVIOUS
<1>17. /\ DOMAIN HistogramRecords' = DOMAIN records
       /\ HistogramRecords'[t] = after
       /\ \A u \in DOMAIN HistogramRecords' : IsRecord(HistogramRecords'[u])
       /\ RecordsOK(histograms', HistogramRecords')
  <2>1. counted => \A i \in DOMAIN Sizes : slice.Offsets[i] + slice.Sizes[i] <= Sizes[i]
    BY <1>11, <1>13
  <2>2. /\ DOMAIN after = {"HDFIndex", "Slices", "ItemsWritten"}
        /\ after.HDFIndex = records[t].HDFIndex /\ after.Slices = slices /\ after.ItemsWritten = items
    BY <1>10
  <2>3. HistogramRecords' = [records EXCEPT ![t] = after]
    BY <1>1
  <2> DEFINE rows2 == histograms'
             records2 == HistogramRecords'
  <2>4. /\ records2 = [records EXCEPT ![t] = after]
        /\ rows2 = IF ~written THEN grown
                   ELSE [grown EXCEPT ![records[t].HDFIndex] =
                           [p \in Positions |-> IF p \in Covered(slice) THEN t
                                                ELSE grown[records[t].HDFIndex][p]]]
    BY <1>15, <2>3
  <2> HIDE DEF t, slice, records, grown, fresh, written, counted, slices, items, after, rows2, records2
  <2>5. WritesSlice(grown, records, t, slice, fresh, written, counted, after, rows2, records2)
    <3>1. /\ after.Slices = IF fresh THEN records[t].Slices \cup {slice} ELSE records[t].Slices
          /\ after.ItemsWritten = IF counted THEN records[t].ItemsWritten + LinearSize(slice.Sizes)
                                  ELSE records[t].ItemsWritten
      BY <1>14, <1>16, <2>2
    <3> QED BY <1>6, <1>8, <1>9, <1>12, <1>13, <2>1, <2>2, <2>4, <3>1 DEF WritesSlice
  <2>6. /\ DOMAIN records2 = DOMAIN records
        /\ records2[t] = after
        /\ \A u \in DOMAIN records2 : IsRecord(records2[u])
        /\ RecordsOK(rows2, records2)
    BY <2>5, SliceWritten
  <2> QED BY <2>6 DEF rows2, records2
<1>18. RecordsTyped(HistogramRecords')
  BY <1>8, <1>17 DEF RecordsTyped
<1>19. histograms' \in Seq(Rows)
  <2>1. row \in DOMAIN grown
    BY <1>8 DEF RecordsOK
  <2>2. grown[row] \in Rows
    <3> HIDE DEF grown, row, Rows
    <3> QED BY <1>8, <2>1
  <2>3. cells \in Rows
    <3>1. \A p \in Positions : grown[row][p] \in Stamps \cup {0}
      BY <2>2
    <3> QED BY <1>6, <3>1
  <2> HIDE DEF grown, row, Rows, cells, written
  <2>4. [grown EXCEPT ![row] = cells] \in Seq(Rows)
    BY <1>8, <2>1, <2>3
  <2> QED BY <1>1, <1>8, <2>4
<1>20. ASSUME stamped, full PROVE \A p \in Positions : histograms'[row][p] = t
  <2>1. isFull(after)
    BY <1>20
  <2>2. after.HDFIndex = row /\ after.ItemsWritten = items
    BY <1>10
  <2>3. items \in Nat /\ items <= Cardinality(Filled(histograms', after, t))
    <3>1. IsRecord(after) /\ t \in DOMAIN HistogramRecords'
      BY <1>8, <1>17
    <3> HIDE DEF after, items
    <3> QED BY <1>17, <2>2, <3>1 DEF IsRecord, RecordsOK
  <2>4. CASE items > 0
    <3> DEFINE rows2 == histograms'
    <3>1. items <= Cardinality(Filled(rows2, after, t))
      BY <2>3
    <3> HIDE DEF after, items, row, rows2
    <3>2. \A p \in Positions : rows2[after.HDFIndex][p] = t
      BY <2>1, <2>2, <2>3, <2>4, <3>1, FullRow
    <3> QED BY <2>2, <3>2 DEF rows2
  <2>5. CASE items = 0
    <3>1. getTotalItems = 0
      BY <2>1, <2>2, <2>5 DEF isFull
    <3>2. ~(Sizes = << >> /\ LinearSize(Sizes) = 1)
      <4> SUFFICES ASSUME Sizes = << >>, LinearSize(Sizes) = 1 PROVE FALSE
        OBVIOUS
      <4>1. m.shape = << >>
        <5>1. Len(m.shape) = 0 /\ m.shape \in Seq(Nat)
          BY HistogramAssumption DEF Acceptable
        <5> QED BY <5>1
      <4>2. record.ItemsWritten \in Nat
        BY <1>9 DEF IsRecord
      <4>3. items = record.ItemsWritten + LinearSize(m.shape)
        BY <1>13, <1>20
      <4> HIDE DEF items, record
      <4> QED BY <2>5, <4>1, <4>2, <4>3
    <3> QED BY <3>1, <3>2, NothingToCount
  <2> HIDE DEF items
  <2> QED BY <2>3, <2>4, <2>5
<1>21. OneStamp(latest')
  <2>1. CASE latest' = latest
    BY <1>5, <2>1
  <2>2. CASE latest' # latest
    <3>1. stamped /\ full /\ latest' = histograms'[row]
      BY <1>1, <2>2
    <3> QED BY <1>6, <1>20, <3>1 DEF OneStamp
  <2> QED BY <2>1, <2>2
<1>22. FlagsOK(timestamps', HistogramRecords', histograms', reused')
  <2> DEFINE R == HistogramRecords
             records2 == HistogramRecords'
             rows2 == histograms'
             done == stamped /\ full
  <2>1. records2 = [records EXCEPT ![t] = after] /\ DOMAIN records2 = DOMAIN records
    BY <1>1, <1>17
  <2>2. \A u \in DOMAIN records : records2[u].HDFIndex = records[u].HDFIndex
    <3> SUFFICES ASSUME NEW u \in DOMAIN records PROVE records2[u].HDFIndex = records[u].HDFIndex
      OBVIOUS
    <3>1. after.HDFIndex = records[t].HDFIndex
      BY <1>10
    <3> HIDE DEF records, after, records2, t
    <3> QED BY <2>1, <3>1
  <2>3. count \in Nat
    BY <1>8, FS_CardinalityType DEF RecordsTyped
  <2>4. DOMAIN grown = 1..Len(grown) /\ Len(grown) \in Nat /\ row \in DOMAIN grown
    <3>1. row \in DOMAIN grown
      BY <1>8 DEF RecordsOK
    <3> HIDE DEF grown, Rows, row
    <3> QED BY <1>8, <3>1
  <2>5. \A i \in DOMAIN histograms : i \in DOMAIN grown /\ grown[i] = histograms[i]
    <3>1. Blank \in Rows
      BY DEF Blank
    <3>2. grown = histograms \/ grown = Append(histograms, Blank)
      OBVIOUS
    <3> HIDE DEF Rows, grown
    <3> QED BY <1>5, <3>1, <3>2
  <2>6. \A i \in DOMAIN grown : i # row => rows2[i] = grown[i]
    <3> HIDE DEF grown, row, cells, written
    <3> QED BY <1>1
  <2>7. \A p \in Positions : grown[row][p] = t => rows2[row][p] = t
    <3> SUFFICES ASSUME NEW p \in Positions, grown[row][p] = t PROVE rows2[row][p] = t
      OBVIOUS
    <3>1. CASE ~written
      BY <1>1, <3>1
    <3>2. CASE written
      <4>1. rows2[row] = cells
        <5> HIDE DEF grown, row, cells, written
        <5> QED BY <1>1, <2>4, <3>2
      <4>2. cells[p] = t
        BY DEF cells
      <4> QED BY <4>1, <4>2
    <3> QED BY <3>1, <3>2
  <2>8. \A u \in DOMAIN R : R[u].HDFIndex \in DOMAIN histograms
    BY <1>5 DEF RecordsOK
  <2> DEFINE taken2 == reused'
             flags2 == timestamps'
  <2>9. reused \subseteq taken2 /\ (row \notin taken2 => t \in DOMAIN R \/ AddNewRow(t))
    BY <1>1
  <2>10. flags2 = timestamps \/ flags2 = FlagsAfter(timestamps, count, row, t, done)
    <3>1. CASE ~stamped
      BY <1>1, <3>1
    <3>2. CASE stamped
      <4>1. flags2 = FlagsAfter(timestamps, count, row, t, full)
        BY <1>1, <3>2
      <4>2. done = full
        BY <3>2 DEF isFull
      <4> QED BY <4>1, <4>2
    <3> QED BY <3>1, <3>2
  <2>11. done => \A p \in Positions : rows2[row][p] = t
    BY <1>20
  <2>12. done \in BOOLEAN
    BY <1>12 DEF isFull, Made
  <2>13. t \in DOMAIN records2 /\ records2[t].HDFIndex = row
    BY <1>8, <2>1, <2>2
  <2>14. ASSUME NEW u \in DOMAIN R
         PROVE  /\ R[u].HDFIndex # row => u \in DOMAIN records /\ records[u] = R[u]
                /\ R[u].HDFIndex = row /\ (t \in DOMAIN R \/ AddNewRow(t)) => u = t
    <3> DEFINE place == row
    <3>1. t \in Stamps /\ place = RecordsWith(t)[t].HDFIndex
      BY <1>6
    <3> HIDE DEF place, t
    <3>2. /\ R[u].HDFIndex # place => u \in DOMAIN RecordsWith(t) /\ RecordsWith(t)[u] = R[u]
          /\ R[u].HDFIndex = place /\ (t \in DOMAIN R \/ AddNewRow(t)) => u = t
      BY <1>5, <3>1, RecordsKept
    <3> QED BY <3>2 DEF place
  <2> HIDE DEF records, record, row, grown, written, stamped, full, after, cells, taken, count, records2, rows2, done, taken2, flags2, t
  <2>15. \A u \in DOMAIN R :
           /\ R[u].HDFIndex # row =>
                /\ u \in DOMAIN records2 /\ records2[u].HDFIndex = R[u].HDFIndex
                /\ rows2[R[u].HDFIndex] = histograms[R[u].HDFIndex]
           /\ R[u].HDFIndex = row /\ row \notin taken2 => u = t
    <3> SUFFICES ASSUME NEW u \in DOMAIN R
                 PROVE  /\ R[u].HDFIndex # row =>
                             /\ u \in DOMAIN records2 /\ records2[u].HDFIndex = R[u].HDFIndex
                             /\ rows2[R[u].HDFIndex] = histograms[R[u].HDFIndex]
                        /\ R[u].HDFIndex = row /\ row \notin taken2 => u = t
      OBVIOUS
    <3>1. ASSUME R[u].HDFIndex # row
          PROVE  /\ u \in DOMAIN records2 /\ records2[u].HDFIndex = R[u].HDFIndex
                 /\ rows2[R[u].HDFIndex] = histograms[R[u].HDFIndex]
      BY <2>1, <2>2, <2>5, <2>6, <2>8, <2>14, <3>1
    <3>2. R[u].HDFIndex = row /\ row \notin taken2 => u = t
      BY <2>9, <2>14
    <3> QED BY <3>1, <3>2
  <2>16. \A p \in Positions : row \notin taken2 /\ t \in DOMAIN R /\ histograms[row][p] = t => rows2[row][p] = t
    <3> SUFFICES ASSUME NEW p \in Positions, t \in DOMAIN R, histograms[row][p] = t PROVE rows2[row][p] = t
      OBVIOUS
    <3>1. RecordsWith(t) = R
      BY DEF RecordsWith
    <3>2. row \in DOMAIN histograms
      BY <2>8, <3>1 DEF row, record, records
    <3> QED BY <2>5, <2>7, <3>2
  <2>17. FlagsOK(timestamps, R, histograms, reused)
    BY <1>5
  <2> HIDE DEF R
  <2>18. FlagsOK(flags2, records2, rows2, taken2)
    BY <2>17, <2>3, <2>9, <2>10, <2>11, <2>12, <2>13, <2>15, <2>16, FlagsKept
  <2> QED BY <2>18 DEF flags2, records2, rows2, taken2
<1> QED BY <1>17, <1>18, <1>19, <1>21, <1>22
\* The records of a full histogram have a complete row, and "data" is one
\* histogram: what the inductive invariant says of the property.
LEMMA HistogramInvImplies == HistogramInv => RowsAreHistograms
<1> SUFFICES ASSUME HistogramInv, ~lostRow
             PROVE  /\ \A t \in DOMAIN HistogramRecords :
                         HistogramRecords[t].ItemsWritten > 0 /\ isFull(HistogramRecords[t]) =>
                           \A p \in Positions : histograms[HistogramRecords[t].HDFIndex][p] = t
                    /\ \A i \in DOMAIN timestamps \ reused :
                         timestamps[i][2] = 1 => \A p \in Positions : histograms[i][p] = timestamps[i][1]
                    /\ \E t \in Stamps \cup {0} : \A p \in Positions : latest[p] = t
  BY DEF RowsAreHistograms, FullMeansComplete, FlagMeansComplete, DataIsOneHistogram
<1>1. RecordsTyped(HistogramRecords) /\ RecordsOK(histograms, HistogramRecords) /\ OneStamp(latest)
      /\ FlagsOK(timestamps, HistogramRecords, histograms, reused)
  BY DEF HistogramInv
<1>2. ASSUME NEW t \in DOMAIN HistogramRecords,
             HistogramRecords[t].ItemsWritten > 0, isFull(HistogramRecords[t])
      PROVE  \A p \in Positions : histograms[HistogramRecords[t].HDFIndex][p] = t
  <2> DEFINE record == HistogramRecords[t]
  <2>1. record.ItemsWritten \in Nat /\ record.ItemsWritten <= Cardinality(Filled(histograms, record, t))
    BY <1>1 DEF RecordsTyped, RecordsOK, IsRecord
  <2>2. record.ItemsWritten > 0 /\ isFull(record)
    BY <1>2
  <2> HIDE DEF record
  <2>3. \A p \in Positions : histograms[record.HDFIndex][p] = t
    BY <2>1, <2>2, FullRow
  <2> QED BY <2>3 DEF record
<1> QED BY <1>1, <1>2 DEF OneStamp, FlagsOK

\* A new writer has no records and an empty "data".
LEMMA HistogramInit == HInit => HistogramInv
<1> SUFFICES ASSUME HInit PROVE HistogramInv
  OBVIOUS
<1>1. HistogramRecords = << >> /\ histograms = << >> /\ latest = Blank /\ lostRow = FALSE
      /\ timestamps = << >>
  BY DEF HInit
<1>2. DOMAIN HistogramRecords = {}
  BY <1>1
<1>3. RecordsTyped(HistogramRecords) /\ RecordsOK(histograms, HistogramRecords)
  BY <1>2, FS_EmptySet DEF RecordsTyped, RecordsOK
<1>4. OneStamp(latest)
  <2>1. \A p \in Positions : latest[p] = 0
    BY <1>1 DEF Blank
  <2> QED BY <2>1 DEF OneStamp
<1>5. histograms \in Seq([Positions -> Stamps \cup {0}])
  <2> DEFINE Rows == [Positions -> Stamps \cup {0}]
  <2> HIDE DEF Rows
  <2>1. << >> \in Seq(Rows)
    OBVIOUS
  <2> QED BY <1>1, <2>1 DEF Rows
<1>6. FlagsOK(timestamps, HistogramRecords, histograms, reused)
  BY <1>1 DEF FlagsOK
<1> QED BY <1>1, <1>3, <1>4, <1>5, <1>6 DEF HistogramInv

\* Every step keeps the invariant: a message that is refused changes nothing, and
\* the others are those of WriteKeeps.
LEMMA HistogramStep == HistogramInv /\ [HNext]_hvars => HistogramInv'
<1> SUFFICES ASSUME HistogramInv, [HNext]_hvars PROVE HistogramInv'
  OBVIOUS
<1>1. CASE UNCHANGED <<histograms, latest, HistogramRecords, lostRow, timestamps, reused>>
  <2>1. /\ histograms' = histograms /\ latest' = latest /\ timestamps' = timestamps /\ reused' = reused
        /\ HistogramRecords' = HistogramRecords /\ lostRow' = lostRow
    BY <1>1
  <2> QED BY <2>1 DEF HistogramInv
<1>2. CASE createHDFStructure
  BY <1>1, <1>2 DEF createHDFStructure
<1>3. CASE reOpen
  BY <1>1, <1>3 DEF reOpen
<1>4. ASSUME NEW m \in HMessages, Receive(m) PROVE HistogramInv'
  <2>1. CASE ~Acceptable(m)
    BY <1>1, <1>4, <2>1 DEF Receive
  <2>2. CASE Acceptable(m)
    <3>1. PICK failing \in Range(Calls) : FitsRow(m, failing) /\ writeSlice(m, failing)
      BY <1>4, <2>2 DEF Receive
    <3>2. failing \in {Calls[i] : i \in DOMAIN Calls}
      BY DEF Range
    <3> QED BY <2>2, <3>1, <3>2, WriteKeeps
  <2> QED BY <2>1, <2>2
<1>5. CASE UNCHANGED hvars
  BY <1>1, <1>5 DEF hvars
<1> QED BY <1>2, <1>3, <1>4, <1>5 DEF HNext

\* For every shape, every number of histograms kept and every HDF5 call of write()
\* that throws: the row of a histogram that counts as complete holds nothing else,
\* so does a row flagged in "timestamps" that was not reused, and "data" is one
\* histogram (WriterTyped::write, HistogramRecord, Slice).
THEOREM RowsAreHistogramsAlways == HSpec => []RowsAreHistograms
<1>1. HInit => HistogramInv
  BY HistogramInit
<1>2. HistogramInv /\ [HNext]_hvars => HistogramInv'
  BY HistogramStep
<1>3. HistogramInv => RowsAreHistograms
  BY HistogramInvImplies
<1> QED BY <1>1, <1>2, <1>3, PTL DEF HSpec

-----------------------------------------------------------------------------
(* The files of write jobs                                                 *)

\* Objects that are not metadata.
Plain(objects) ==
  \A p \in DOMAIN objects : /\ DOMAIN objects[p] = {"what", "attrs", "content"}
                            /\ objects[p].what # "metadata"

\* The attributes of a group are no metadata.
LEMMA PlainAttributes ==
  ASSUME NEW objects, NEW group \in DOMAIN objects, Plain(objects)
  PROVE  Plain(setWriterHDFAttributes(objects, group))
<1> DEFINE o == [objects[group] EXCEPT !.attrs = @ \cup {"NX_class", "topic", "source", "writer_module"}]
           all == setWriterHDFAttributes(objects, group)
<1>1. DOMAIN o = DOMAIN objects[group] /\ o.what = objects[group].what
  BY DEF Plain
<1>2. all = [objects EXCEPT ![group] = o]
  BY DEF setWriterHDFAttributes
<1>3. DOMAIN all = DOMAIN objects /\ \A p \in DOMAIN objects : all[p] = IF p = group THEN o ELSE objects[p]
  <2> HIDE DEF o, all
  <2> QED BY <1>2
<1> HIDE DEF o, all
<1>4. Plain(all)
  BY <1>1, <1>3 DEF Plain
<1> QED BY <1>4 DEF all

\* Neither are the datasets of a module.
LEMMA PlainModule ==
  ASSUME NEW objects, NEW group, NEW module, NEW done, Plain(objects)
  PROVE  Plain(initModule(objects, group, module, done))
<1> DEFINE all == initModule(objects, group, module, done)
           d == Object("dataset", <<module>>)
<1>1. DOMAIN d = {"what", "attrs", "content"} /\ d.what # "metadata"
  BY DEF Object
<1>2. \A p \in DOMAIN all : all[p] = IF p \in DOMAIN objects THEN objects[p] ELSE d
  BY DEF initModule
<1> HIDE DEF all, d
<1>3. Plain(all)
  BY <1>1, <1>2 DEF Plain
<1> QED BY <1>3 DEF all

\* A link names an object that exists.
LEMMA PlainLink ==
  ASSUME NEW objects, NEW group, NEW config, Plain(objects)
  PROVE  Plain(addLinkToNode(objects, group, config))
<1> DEFINE target == SubSeq(group, 1, Max({0, Len(group) - config.ups})) \o config.source
           path == Append(group, config.name)
           all == With(objects, path, objects[target])
<1>1. addLinkToNode(objects, group, config) =
        IF target \notin DOMAIN objects \/ path \in DOMAIN objects THEN objects ELSE all
  BY DEF addLinkToNode
<1> HIDE DEF target, path
<1>2. ASSUME target \in DOMAIN objects PROVE Plain(all)
  BY <1>2 DEF Plain, With
<1> QED BY <1>1, <1>2

LinkStep(after, objects, links_, n) ==
  IF n = 0 THEN [objects |-> objects, threw |-> FALSE]
  ELSE IF after[n - 1].threw \/ links_[n].HDFParentName \notin DOMAIN after[n - 1].objects
       THEN [objects |-> after[n - 1].objects, threw |-> TRUE]
       ELSE [objects |-> addLinkToNode(after[n - 1].objects, links_[n].HDFParentName, links_[n].ConfigStream),
             threw |-> FALSE]

IsAfterLinks(after, objects, list, count) == after = [n \in 0..count |-> LinkStep(after, objects, list, n)]

\* The recursion of AfterLinks has a solution, by induction on the links.
LEMMA AfterLinksExists ==
  ASSUME NEW objects, NEW list, NEW count \in Nat
  PROVE  \E f : IsAfterLinks(f, objects, list, count)
<1> DEFINE T == {n \in Nat : ~\E f : IsAfterLinks(f, objects, list, n)}
<1> SUFFICES ASSUME T # {} PROVE FALSE
  OBVIOUS
<1>1. PICK n \in T : \A m \in T : n <= m
  BY LeastNat
<1>2. CASE n = 0
  <2> DEFINE f == [i \in 0..0 |-> [objects |-> objects, threw |-> FALSE]]
  <2>1. IsAfterLinks(f, objects, list, 0)
    BY DEF IsAfterLinks, LinkStep
  <2> QED BY <1>1, <1>2, <2>1
<1>3. CASE n # 0
  <2>1. n - 1 \in Nat /\ n - 1 \notin T /\ n \in Nat
    BY <1>1, <1>3
  <2>2. PICK g : IsAfterLinks(g, objects, list, n - 1)
    BY <2>1
  <2> DEFINE v == LinkStep(g, objects, list, n)
             f == [i \in 0..n |-> IF i = n THEN v ELSE g[i]]
  <2>3. \A i \in 0..(n-1) : g[i] = LinkStep(g, objects, list, i)
    BY <2>2 DEF IsAfterLinks
  <2>4. ASSUME NEW i \in 0..n
        PROVE  f[i] = LinkStep(f, objects, list, i)
    <3>0. i # 0 => f[i - 1] = g[i - 1]
      BY <2>1
    <3> HIDE DEF f
    <3>1. LinkStep(f, objects, list, i) = LinkStep(g, objects, list, i)
      BY <3>0 DEF LinkStep
    <3>2. f[i] = LinkStep(g, objects, list, i)
      BY <2>1, <2>3 DEF f
    <3> QED BY <3>1, <3>2
  <2>5. IsAfterLinks(f, objects, list, n)
    <3>1. f = [i \in 0..n |-> f[i]]
      OBVIOUS
    <3> HIDE DEF f
    <3> QED BY <2>4, <3>1 DEF IsAfterLinks
  <2> QED BY <1>1, <2>5
<1> QED BY <1>2, <1>3

\* So AfterLinks satisfies the equation it is defined by.
LEMMA AfterLinksDef ==
  ASSUME NEW objects, NEW list, Len(list) \in Nat
  PROVE  \A n \in 0..Len(list) : AfterLinks(objects, list)[n] = LinkStep(AfterLinks(objects, list), objects, list, n)
<1>1. \E f : IsAfterLinks(f, objects, list, Len(list))
  BY AfterLinksExists, Zenon
<1>2. AfterLinks(objects, list) = CHOOSE f : IsAfterLinks(f, objects, list, Len(list))
  BY Zenon DEF AfterLinks, IsAfterLinks, LinkStep
<1>3. IsAfterLinks(AfterLinks(objects, list), objects, list, Len(list))
  BY <1>1, <1>2
<1> QED BY <1>3 DEF IsAfterLinks

\* The path of an object is behind that of its group.
LEMMA FrontOfAppend ==
  ASSUME NEW g \in Seq(STRING), NEW x
  PROVE  Append(g, x) # << >> /\ Front(Append(g, x)) = g
<1>1. g \in Seq(STRING \cup {x})
  OBVIOUS
<1> DEFINE S == STRING \cup {x}
<1>2. x \in S /\ g \in Seq(S)
  BY <1>1
<1> HIDE DEF S
<1>3. Append(g, x) \in Seq(S) /\ Len(Append(g, x)) = Len(g) + 1 /\ Len(g) \in Nat
  BY <1>2
<1>4. Front(Append(g, x)) = g
  <2>1. Front(Append(g, x)) = SubSeq(Append(g, x), 1, Len(g))
    BY <1>3 DEF Front
  <2> QED BY <1>2, <1>3, <2>1
<1> QED BY <1>3, <1>4

\* A link is in a group that exists.
LEMMA ParentsLink ==
  ASSUME NEW objects, NEW config, HaveParents(objects),
         NEW group \in DOMAIN objects, group \in Seq(STRING)
  PROVE  HaveParents(addLinkToNode(objects, group, config))
<1> DEFINE target == SubSeq(group, 1, Max({0, Len(group) - config.ups})) \o config.source
           path == Append(group, config.name)
           all == With(objects, path, objects[target])
<1>1. addLinkToNode(objects, group, config) =
        IF target \notin DOMAIN objects \/ path \in DOMAIN objects THEN objects ELSE all
  BY DEF addLinkToNode
<1>2. Front(path) = group
  BY FrontOfAppend
<1> HIDE DEF target, path
<1>3. HaveParents(all)
  BY <1>2 DEF HaveParents, With
<1> QED BY <1>1, <1>3

\* The groups of the modules of a list are paths.
HaveGroups(list) == \A i \in 1..Len(list) : list[i].HDFParentName \in Seq(STRING)

\* The links of a file are objects that it has, in groups that it has.
LEMMA LinksKeep ==
  ASSUME NEW objects, NEW list, Len(list) \in Nat
  PROVE  /\ Plain(objects) => Plain(addLinks(objects, list))
         /\ HaveGroups(list) /\ HaveParents(objects) => HaveParents(addLinks(objects, list))
<1> DEFINE after == AfterLinks(objects, list)
           Nested == HaveGroups(list) /\ HaveParents(objects)
           Good(n) == /\ Plain(objects) => Plain(after[n].objects)
                      /\ Nested => HaveParents(after[n].objects)
           T == {n \in Nat : n <= Len(list) /\ ~Good(n)}
<1>0. \A n \in 0..Len(list) : after[n] = LinkStep(after, objects, list, n)
  BY AfterLinksDef
<1>1. addLinks(objects, list) = after[Len(list)].objects
  BY DEF addLinks
<1> HIDE DEF after, Good
<1>2. SUFFICES ASSUME T # {} PROVE FALSE
  <2>1. ASSUME T = {} PROVE Good(Len(list))
    BY <2>1
  <2>2. ASSUME Good(Len(list))
        PROVE  /\ Plain(objects) => Plain(addLinks(objects, list))
               /\ Nested => HaveParents(addLinks(objects, list))
    BY <1>1, <2>2 DEF Good
  <2> HIDE DEF T
  <2> QED BY <2>1, <2>2
<1>3. PICK n \in T : \A m \in T : n <= m
  BY <1>2, LeastNat
<1>4. n \in 0..Len(list) /\ ~Good(n)
  BY <1>3
<1>e. after[n] = LinkStep(after, objects, list, n)
  BY <1>0, <1>4
<1>5. CASE n = 0
  <2>1. after[n].objects = objects
    BY <1>e, <1>5 DEF LinkStep
  <2> QED BY <1>4, <2>1 DEF Good
<1>6. CASE n # 0
  <2>1. n - 1 \in 0..Len(list) /\ n - 1 \notin T /\ n \in 1..Len(list)
    BY <1>3, <1>4, <1>6
  <2>2. Good(n - 1)
    BY <2>1
  <2> DEFINE before == after[n - 1].objects
             group == list[n].HDFParentName
             linked == addLinkToNode(before, group, list[n].ConfigStream)
  <2>3. (Plain(objects) => Plain(before)) /\ (Nested => HaveParents(before))
    BY <2>2 DEF Good
  <2>4. after[n].objects = before \/ (after[n].objects = linked /\ group \in DOMAIN before)
    BY <1>e, <1>6 DEF LinkStep
  <2>g. Nested => group \in Seq(STRING)
    BY <2>1 DEF HaveGroups
  <2> HIDE DEF before, group
  <2>5. Plain(objects) => Plain(linked)
    BY <2>3, PlainLink
  <2>6. Nested /\ group \in DOMAIN before => HaveParents(linked)
    BY <2>3, <2>g, ParentsLink
  <2> HIDE DEF linked, Nested
  <2>7. Good(n)
    BY <2>3, <2>4, <2>5, <2>6 DEF Good, before
  <2> QED BY <1>4, <2>7
<1> QED BY <1>5, <1>6

\* A sequence, of whatever elements.
IsList(s) == s \in Seq(Range(s))

\* Elements of a set in a row are a list.
LEMMA ListOf ==
  ASSUME NEW S, NEW s \in Seq(S)
  PROVE  IsList(s) /\ Range(s) \subseteq S
<1>1. /\ Len(s) \in Nat /\ DOMAIN s = 1..Len(s) /\ s = [i \in 1..Len(s) |-> s[i]]
      /\ \A i \in 1..Len(s) : s[i] \in S
  OBVIOUS
<1>2. \A i \in 1..Len(s) : s[i] \in Range(s)
  BY <1>1 DEF Range
<1>3. Range(s) \subseteq S
  BY <1>1 DEF Range
<1> QED BY <1>1, <1>2, <1>3 DEF IsList

\* Two lists in a row.
LEMMA ListsJoined ==
  ASSUME NEW s, NEW t, IsList(s), IsList(t)
  PROVE  /\ IsList(s \o t) /\ Range(s \o t) \subseteq Range(s) \cup Range(t)
         /\ Len(s) \in Nat /\ Len(s \o t) \in Nat /\ Len(s) <= Len(s \o t)
         /\ \A i \in 1..Len(s) : (s \o t)[i] = s[i]
<1> DEFINE A == Range(s)
           B == Range(t)
           S == A \cup B
<1>1. s \in Seq(A) /\ t \in Seq(B)
  BY DEF IsList
<1>2. s \in Seq(S) /\ t \in Seq(S)
  <2> HIDE DEF A, B
  <2> QED BY <1>1
<1> HIDE DEF S
<1>3. /\ s \o t \in Seq(S) /\ Len(s) \in Nat /\ Len(s \o t) \in Nat /\ Len(s) <= Len(s \o t)
      /\ \A i \in 1..Len(s) : (s \o t)[i] = s[i]
  BY <1>2
<1> QED BY <1>3, ListOf DEF S

\* Metadata, if any, is that of one of the jobs in S.
OfJobs(objects, S) == \A p \in DOMAIN objects : objects[p].what = "metadata" => objects[p].content \in S

\* Closing a file adds the values of the tracker to it and nothing else.
LEMMA MetaDataAdded ==
  ASSUME NEW objects, NEW S, OfJobs(objects, S),
         IsList(tracker), \A v \in Range(tracker) : v.job = job
  PROVE  OfJobs(addMetaData(objects), S \cup {job})
<1> DEFINE all == addMetaData(objects)
           value(p) == tracker[Min(ValuesFor(objects, p))].job
<1>1. \A p \in DOMAIN all : IF p \in DOMAIN objects THEN all[p] = objects[p]
                            ELSE ValuesFor(objects, p) # {} /\ all[p] = Object("metadata", value(p))
  BY DEF addMetaData
<1>2. ASSUME NEW p, ValuesFor(objects, p) # {} PROVE value(p) = job
  <2> DEFINE T == ValuesFor(objects, p)
  <2>1. T \subseteq DOMAIN tracker /\ DOMAIN tracker \subseteq Nat
    BY DEF ValuesFor
  <2>2. PICK x \in T : \A y \in T : x <= y
    <3> HIDE DEF T
    <3> QED BY <1>2, <2>1, LeastNat DEF T
  <2>3. Min(T) \in T
    <3> HIDE DEF T
    <3> QED BY <2>2 DEF Min
  <2> HIDE DEF T
  <2>4. tracker[Min(T)] \in Range(tracker)
    BY <2>1, <2>3 DEF Range
  <2> QED BY <2>4 DEF T
<1> HIDE DEF all, value
<1>3. OfJobs(all, S \cup {job})
  BY <1>1, <1>2 DEF OfJobs, Object
<1> QED BY <1>3 DEF all

\* So does the mdat writer.
LEMMA MdatAdded ==
  ASSUME NEW r, Plain(r.objects)
  PROVE  OfJobs(writeMetadata(r), {r.job})
<1> DEFINE all == writeMetadata(r)
<1>1. \A p \in DOMAIN all : all[p] = IF p \in DOMAIN r.objects THEN r.objects[p] ELSE Object("metadata", r.job)
  BY DEF writeMetadata
<1> HIDE DEF all
<1>2. OfJobs(all, {r.job})
  BY <1>1 DEF OfJobs, Object, Plain
<1> QED BY <1>2 DEF all

\* A file without metadata is of any job.
LEMMA PlainOfJobs ==
  ASSUME NEW objects, NEW S, Plain(objects)
  PROVE  OfJobs(objects, S)
BY DEF OfJobs, Plain

\* The values of a module come behind those that are known.
LEMMA ValuesRegistered ==
  ASSUME NEW m, m.WriterModule \in DOMAIN Registry, IsList(tracker), \A v \in Range(tracker) : v.job = job
  PROVE  LET all == tracker \o MetaValues(m)
         IN  IsList(all) /\ \A v \in Range(all) : v.job = job
<1> DEFINE t == MetaValues(m)
           meta == Registry[m.WriterModule].meta
           S == {t[i] : i \in 1..Len(meta)}
<1>1. meta \in Seq(STRING)
  BY RegistryAssumption
<1>2. t = [i \in 1..Len(meta) |-> [path |-> m.HDFParentName, name |-> meta[i], job |-> job]]
  <2>1. DOMAIN meta = 1..Len(meta)
    BY <1>1
  <2> QED BY <2>1 DEF MetaValues
<1>3. Len(meta) \in Nat
  BY <1>1
<1> HIDE DEF t, meta
<1>4. \A v \in S : v.job = job
  BY <1>2
<1>5. t \in Seq(S)
  <2>1. t = [i \in 1..Len(meta) |-> t[i]] /\ \A i \in 1..Len(meta) : t[i] \in S
    BY <1>2
  <2> HIDE DEF S
  <2> QED BY <1>3, <2>1
<1> HIDE DEF S
<1>6. IsList(t) /\ Range(t) \subseteq S
  BY <1>5, ListOf
<1> QED BY <1>4, <1>6, ListsJoined DEF t

\* The number of a start command.
JobsNumbered == job \in Nat /\ \A f \in DOMAIN disk : disk[f].job \in Nat

(* The tracker knows values of the latest start command only. While a job has a
   file, that file is not on disk yet and holds no metadata, and neither is nor
   does that of an orphan, which is another file. *)
JobInv ==
  /\ IsList(tracker) /\ Len(links) \in Nat /\ JobsNumbered
  /\ \A v \in Range(tracker) : v.job = job
  /\ jobStage # "idle" => name \notin DOMAIN disk /\ name \notin {"", orphan.name} /\ Plain(openFile)
  /\ orphan # NoOrphan => orphan.name \notin DOMAIN disk /\ Plain(orphan.objects) /\ orphan.job \in 0..job
  /\ MetaDataOfThisJob

DiskKept == \A f \in DOMAIN disk : f \in DOMAIN disk' /\ disk'[f] = disk[f]

\* What MetaDataOfThisJob says of one file.
MarkedBy(d, j) ==
  \A p \in DOMAIN d.objects :
    d.objects[p].what = "metadata" =>
      \/ d.objects[p].content = d.job
      \/ d.orphaned /\ d.objects[p].content \in (d.job + 1)..j

\* A later start command changes nothing for a file.
LEMMA MarkedLater ==
  ASSUME NEW d, d.job \in Nat, job \in Nat, MarkedBy(d, job), UNCHANGED job \/ job' = job + 1
  PROVE  MarkedBy(d, job')
<1>1. \A x : x \in (d.job + 1)..job => x \in (d.job + 1)..job'
  OBVIOUS
<1> QED BY <1>1 DEF MarkedBy

\* What runs or was left behind may be closed.
LEMMA RunningFacts ==
  ASSUME JobInv
  PROVE  /\ Running.name = name /\ Running.objects = openFile /\ Running.job = job /\ Running.job \in 0..job
         /\ orphan # NoOrphan => orphan.name \notin DOMAIN disk /\ Plain(orphan.objects) /\ orphan.job \in 0..job
<1>1. Running.name = name /\ Running.objects = openFile /\ Running.job = job
  BY DEF Running
<1>2. job \in Nat
  BY DEF JobInv, JobsNumbered
<1>3. Running.job \in 0..job
  BY <1>1, <1>2
<1>4. orphan # NoOrphan => orphan.name \notin DOMAIN disk /\ Plain(orphan.objects) /\ orphan.job \in 0..job
  BY DEF JobInv
<1> QED BY <1>1, <1>3, <1>4

\* The files on disk with one more.
LEMMA FileAdded ==
  ASSUME NEW f, NEW d, f \notin DOMAIN disk, MarkedBy(d, job'), MetaDataOfThisJob,
         disk' = With(disk, f, d), UNCHANGED job \/ job' = job + 1, JobsNumbered
  PROVE  /\ MetaDataOfThisJob' /\ DiskKept /\ DOMAIN disk' = DOMAIN disk \cup {f}
         /\ d.job \in Nat => JobsNumbered'
<1>1. DOMAIN disk' = DOMAIN disk \cup {f}
  BY DEF With
<1>2. disk'[f] = d
  BY DEF With
<1>3. \A g \in DOMAIN disk : disk'[g] = disk[g]
  BY DEF With
<1>4. \A g \in DOMAIN disk : MarkedBy(disk[g], job')
  <2> TAKE g \in DOMAIN disk
  <2>1. MarkedBy(disk[g], job)
    BY DEF MetaDataOfThisJob, MarkedBy
  <2> QED BY <2>1, MarkedLater DEF JobsNumbered
<1>5. \A g \in DOMAIN disk' : MarkedBy(disk'[g], job')
  BY <1>1, <1>2, <1>3, <1>4
<1>6. MetaDataOfThisJob'
  BY <1>5 DEF MetaDataOfThisJob, MarkedBy
<1>7. d.job \in Nat => JobsNumbered'
  BY <1>1, <1>2, <1>3 DEF JobsNumbered
<1> QED BY <1>1, <1>3, <1>6, <1>7 DEF DiskKept

\* A file that is left when the job fails has metadata of this job only.
LEMMA LeftMarked ==
  ASSUME NEW objects, NEW j, NEW last, OfJobs(objects, {j})
  PROVE  MarkedBy([objects |-> objects, job |-> j, orphaned |-> FALSE], last)
BY DEF MarkedBy, OfJobs

\* A running job that ends is marked as it should, an orphan or not.
LEMMA EndAdded ==
  ASSUME JobInv, NEW r, NEW b \in BOOLEAN, disk' = EndOf(r, b), UNCHANGED job,
         r.name \notin DOMAIN disk, Plain(r.objects), r.job \in 0..job, ~b => r.job = job
  PROVE  MetaDataOfThisJob' /\ DiskKept /\ JobsNumbered' /\ DOMAIN disk' = DOMAIN disk \cup {r.name}
<1> DEFINE all == addMetaData(writeMetadata(r))
           d == [objects |-> all, job |-> r.job, orphaned |-> b]
<1>1. OfJobs(all, {r.job} \cup {job})
  BY MdatAdded, MetaDataAdded DEF JobInv
<1> HIDE DEF all
<1>2. MarkedBy(d, job)
  <2>1. job \in Nat /\ r.job \in Nat
    <3>1. job \in Nat
      BY DEF JobInv, JobsNumbered
    <3> QED BY <3>1
  <2>2. job = r.job \/ (b /\ job \in (r.job + 1)..job)
    BY <2>1
  <2>3. d.objects = all /\ d.job = r.job /\ d.orphaned = b
    OBVIOUS
  <2> HIDE DEF d
  <2> QED BY <1>1, <2>2, <2>3 DEF MarkedBy, OfJobs
<1>3. disk' = With(disk, r.name, d) /\ d.job = r.job
  BY DEF EndOf, all
<1>4. job \in Nat
  BY DEF JobInv, JobsNumbered
<1>5. d.job \in Nat
  BY <1>3, <1>4
<1> HIDE DEF d
<1> QED BY <1>2, <1>3, <1>5, FileAdded DEF JobInv

\* At first there are no files and no values.
LEMMA JobInvInit == JInit => JobInv
<1> SUFFICES ASSUME JInit PROVE JobInv
  OBVIOUS
<1>1. tracker = << >> /\ links = << >> /\ disk = << >> /\ jobStage = "idle" /\ job = 0 /\ orphan = NoOrphan
  BY DEF JInit
<1>2. IsList(tracker) /\ Len(links) \in Nat /\ Range(tracker) = {}
  BY <1>1 DEF IsList, Range
<1>3. MetaDataOfThisJob /\ JobsNumbered
  BY <1>1 DEF MetaDataOfThisJob, JobsNumbered
<1> QED BY <1>1, <1>2, <1>3 DEF JobInv

\* The file of a job that fails is left, and an orphan is still there.
LEMMA LeftBehind ==
  ASSUME JobInv, jobStage' = "idle", NoJob, UNCHANGED <<job, orphan, tracker>>, NEW f, NEW objects,
         f \notin DOMAIN disk, f # orphan.name, OfJobs(objects, {job}), disk' = Left(f, job, objects)
  PROVE  JobInv' /\ DiskKept
<1> DEFINE d == [objects |-> objects, job |-> job, orphaned |-> FALSE]
<1>1. disk' = With(disk, f, d) /\ MarkedBy(d, job') /\ Len(links') \in Nat /\ d.job \in Nat
  BY LeftMarked DEF Left, NoJob, JobInv, JobsNumbered
<1> HIDE DEF d
<1>2. MetaDataOfThisJob' /\ DiskKept /\ JobsNumbered' /\ DOMAIN disk' = DOMAIN disk \cup {f}
  BY <1>1, FileAdded DEF JobInv
<1>3. orphan' # NoOrphan => orphan'.name \notin DOMAIN disk' /\ Plain(orphan'.objects) /\ orphan'.job \in 0..job'
  BY <1>2 DEF JobInv
<1>4. IsList(tracker') /\ \A v \in Range(tracker') : v.job = job'
  BY DEF JobInv
<1> QED BY <1>1, <1>2, <1>3, <1>4 DEF JobInv

\* A job that fails leaves its file, with the values it has registered so far.
LEMMA FailedJob ==
  ASSUME JobInv, jobStage # "idle", JobFails(openFile)
  PROVE  JobInv' /\ DiskKept
<1> DEFINE all == addMetaData(openFile)
<1>1. OfJobs(all, {job})
  <2>1. OfJobs(openFile, {}) /\ {} \cup {job} = {job}
    BY PlainOfJobs DEF JobInv
  <2> QED BY <2>1, MetaDataAdded DEF JobInv
<1> HIDE DEF all
<1>2. /\ jobStage' = "idle" /\ NoJob /\ UNCHANGED <<job, orphan, tracker>>
      /\ disk' = Left(name, job, all)
  BY DEF JobFails, all
<1>3. name \notin DOMAIN disk /\ name # orphan.name
  BY DEF JobInv
<1> QED BY <1>1, <1>2, <1>3, LeftBehind

\* Files that are not touched.
LEMMA SameFiles ==
  ASSUME JobInv, UNCHANGED disk, UNCHANGED job \/ job' = job + 1
  PROVE  MetaDataOfThisJob' /\ JobsNumbered' /\ DiskKept
<1>1. job \in Nat /\ \A g \in DOMAIN disk : disk[g].job \in Nat
  BY DEF JobInv, JobsNumbered
<1>2. \A g \in DOMAIN disk : MarkedBy(disk[g], job')
  <2> TAKE g \in DOMAIN disk
  <2>1. MarkedBy(disk[g], job)
    BY DEF JobInv, MetaDataOfThisJob, MarkedBy
  <2> QED BY <1>1, <2>1, MarkedLater
<1>3. MetaDataOfThisJob'
  BY <1>2 DEF MetaDataOfThisJob, MarkedBy
<1> QED BY <1>1, <1>3 DEF JobsNumbered, DiskKept

\* A new job clears the tracker and makes a file, if there is none of its name.
LEMMA JobStarted ==
  ASSUME JobInv, NEW f \in FileNames, NEW s \in Structures, startWriting(f, s)
  PROVE  JobInv' /\ DiskKept
<1> DEFINE made == InitialisedFile(s)
           v == [path |-> << >>, name |-> "approx_file_size_mb", job |-> job + 1]
<1>1. tracker' = <<v>> /\ job' = job + 1 /\ job \in Nat /\ orphan' = orphan
  BY DEF startWriting, TrackerAtStart, JobInv, JobsNumbered
<1>o. orphan # NoOrphan => orphan.name \notin DOMAIN disk /\ Plain(orphan.objects) /\ orphan.job \in 0..job'
  <2>1. \A x \in 0..job : x \in 0..job'
    BY <1>1
  <2> QED BY <2>1, RunningFacts
<1>2. IsList(tracker') /\ \A w \in Range(tracker') : w.job = job'
  <2>1. v.job = job + 1
    OBVIOUS
  <2> HIDE DEF v
  <2>2. Range(<<v>>) = {v}
    BY DEF Range
  <2> QED BY <1>1, <2>1, <2>2 DEF IsList
<1>3. Plain(made.objects) /\ made.infos \in Seq(Range(made.infos))
  <2>1. \A p \in DOMAIN made.objects : /\ DOMAIN made.objects[p] = {"what", "attrs", "content"}
                                        /\ made.objects[p].what \in {"group", "dataset"}
    BY ObjectsAssumption
  <2>2. made.infos \in Seq(Range(made.infos))
    BY InfosAssumption
  <2> HIDE DEF made
  <2> QED BY <2>1, <2>2 DEF Plain
<1> DEFINE Good == JobInv' /\ DiskKept
           modules == {m \in Range(made.infos) : ~isMdat(m) /\ isExtracted(m)}
<1>4. ASSUME CanCreate(f), jobStage' = "initialising", name' = f, openFile' = made.objects, UNCHANGED disk,
             links' = Kept(made.infos, {m \in modules : isLink(m)})
      PROVE  Good
  <2>0. MetaDataOfThisJob' /\ JobsNumbered' /\ DiskKept
    BY <1>1, <1>4, SameFiles
  <2>1. Len(links') \in Nat
    <3> DEFINE S == {m \in modules : isLink(m)}
               R == Range(made.infos)
    <3> HIDE DEF S, R
    <3>1. made.infos \in Seq(R)
      BY <1>3 DEF R
    <3>2. Kept(made.infos, S) \in Seq(R)
      BY <3>1, KeptRange
    <3> QED BY <1>4, <3>2 DEF S
  <2>2. f \notin DOMAIN disk' /\ f \notin {"", orphan'.name}
    BY <1>1, <1>4 DEF CanCreate
  <2> QED BY <1>1, <1>o, <1>2, <1>3, <1>4, <2>0, <2>1, <2>2 DEF JobInv
<1>5. ASSUME jobStage' = "idle", NoJob, UNCHANGED disk PROVE Good
  <2>1. MetaDataOfThisJob' /\ JobsNumbered' /\ DiskKept /\ Len(links') \in Nat
    BY <1>1, <1>5, SameFiles DEF NoJob
  <2> QED BY <1>1, <1>o, <1>2, <1>5, <2>1 DEF JobInv
<1>6. ASSUME CanCreate(f), jobStage' = "idle", NoJob,
             disk' = Left(f, job + 1, made.objects)
      PROVE  Good
  <2> DEFINE d == [objects |-> made.objects, job |-> job + 1, orphaned |-> FALSE]
  <2>1. f \notin DOMAIN disk /\ f # orphan.name /\ Len(links') \in Nat
    BY <1>6 DEF CanCreate, NoJob
  <2>2. disk' = With(disk, f, d) /\ MarkedBy(d, job') /\ d.job \in Nat
    <3>1. OfJobs(made.objects, {job + 1})
      BY <1>3, PlainOfJobs
    <3>2. disk' = With(disk, f, d)
      BY <1>6 DEF Left
    <3>3. d.job = job + 1
      OBVIOUS
    <3>4. d.job \in Nat
      BY <1>1, <3>3
    <3> HIDE DEF made
    <3> QED BY <3>1, <3>2, <3>4, LeftMarked
  <2> HIDE DEF d
  <2>3. MetaDataOfThisJob' /\ DiskKept /\ JobsNumbered' /\ DOMAIN disk' = DOMAIN disk \cup {f}
    BY <1>1, <2>1, <2>2, FileAdded DEF JobInv
  <2> QED BY <1>1, <1>o, <1>2, <1>6, <2>1, <2>3 DEF JobInv
<1> HIDE DEF Good
<1>7. Good
  BY <1>4, <1>5, <1>6 DEF startWriting
<1> QED BY <1>7 DEF Good

\* A module adds its datasets to the open file and its values to the tracker.
LEMMA StreamInitialised ==
  ASSUME JobInv, initStream
  PROVE  JobInv' /\ DiskKept
<1> DEFINE m == streams[next]
           group == m.HDFParentName
           begun == setWriterHDFAttributes(openFile, group)
<1>1. CASE JobFails(openFile)
  BY <1>1, FailedJob DEF initStream
<1>2. CASE ~JobFails(openFile)
  <2>1. /\ jobStage = "initialising" /\ group \in DOMAIN openFile /\ CanGenerate(m)
        /\ \E done : openFile' = initModule(begun, group, m.WriterModule, done)
        /\ tracker' = tracker \o MetaValues(m)
        /\ UNCHANGED <<jobStage, job, name, links, disk, orphan>>
    BY <1>2 DEF initStream
  <2>2. Plain(openFile')
    <3>1. Plain(openFile)
      BY <2>1 DEF JobInv
    <3>2. Plain(begun)
      BY <2>1, <3>1, PlainAttributes
    <3> HIDE DEF begun
    <3> QED BY <2>1, <3>2, PlainModule
  <2>3. IsList(tracker') /\ \A v \in Range(tracker') : v.job = job
    BY <2>1, ValuesRegistered DEF JobInv, CanGenerate
  <2>4. MetaDataOfThisJob' /\ JobsNumbered' /\ DiskKept
    BY <2>1, SameFiles
  <2> QED BY <2>1, <2>2, <2>3, <2>4 DEF JobInv
<1> QED BY <1>1, <1>2

\* The links are made, and the file is reopened or left.
LEMMA ModeSwitched ==
  ASSUME JobInv, switchToWriteMode
  PROVE  JobInv' /\ DiskKept
<1>1. /\ Plain(addLinks(openFile, links)) /\ jobStage = "initialising"
      /\ tracker' = tracker /\ job' = job /\ orphan' = orphan
  BY LinksKeep DEF JobInv, switchToWriteMode
<1>2. CASE openFile' = addLinks(openFile, links) /\ jobStage' = "opening" /\ UNCHANGED <<name, links, disk>>
  <2>1. MetaDataOfThisJob' /\ JobsNumbered' /\ DiskKept
    BY <1>1, <1>2, SameFiles
  <2> QED BY <1>1, <1>2, <2>1 DEF JobInv
<1>3. CASE /\ jobStage' = "idle" /\ NoJob
           /\ disk' = Left(name, job, addLinks(openFile, links))
  <2>1. name \notin DOMAIN disk /\ name # orphan.name
    BY <1>1 DEF JobInv
  <2>2. OfJobs(addLinks(openFile, links), {job})
    BY <1>1, PlainOfJobs
  <2> QED BY <1>1, <1>3, <2>1, <2>2, LeftBehind
<1> QED BY <1>2, <1>3 DEF switchToWriteMode

\* A new controller destroys the orphan, and may become one itself.
LEMMA JobBegun ==
  ASSUME JobInv, beginWriting
  PROVE  JobInv' /\ DiskKept
<1>1. /\ jobStage = "opening" /\ UNCHANGED <<job, tracker>>
      /\ name \notin DOMAIN disk /\ name # orphan.name /\ Plain(openFile)
      /\ IsList(tracker) /\ \A v \in Range(tracker) : v.job = job
  BY DEF beginWriting, JobInv
<1>2. MetaDataOfThisJob' /\ JobsNumbered' /\ DiskKept /\ name \notin DOMAIN disk'
  <2>1. CASE orphan = NoOrphan
    <3>1. disk' = disk
      BY <2>1 DEF beginWriting
    <3> QED BY <1>1, <3>1, SameFiles
  <2>2. CASE orphan # NoOrphan
    <3>1. disk' = EndOf(orphan, TRUE)
      BY <2>2 DEF beginWriting
    <3> QED BY <1>1, <2>2, <3>1, RunningFacts, EndAdded
  <2> QED BY <2>1, <2>2
<1>3. CASE jobStage' = "writing" /\ orphan' = NoOrphan /\ UNCHANGED jobVars
  <2>1. UNCHANGED <<name, openFile, links>>
    BY <1>3 DEF jobVars
  <2>2. name # ""
    BY <1>1 DEF JobInv
  <2> QED BY <1>1, <1>2, <1>3, <2>1, <2>2 DEF JobInv, NoOrphan
<1>4. CASE jobStage' = "idle" /\ orphan' = Running /\ NoJob
  <2>1. /\ orphan'.name \notin DOMAIN disk' /\ Plain(orphan'.objects) /\ orphan'.job \in 0..job'
        /\ Len(links') \in Nat
    BY <1>1, <1>2, <1>4, RunningFacts DEF NoJob
  <2> QED BY <1>1, <1>2, <1>4, <2>1 DEF JobInv
<1> QED BY <1>3, <1>4 DEF beginWriting

\* The end of a job puts its file on disk and clears the tracker.
LEMMA JobEnded ==
  ASSUME JobInv, setToIdle
  PROVE  JobInv' /\ DiskKept
<1>1. /\ jobStage' = "idle" /\ tracker' = << >> /\ links' = << >> /\ UNCHANGED job /\ orphan' = NoOrphan
  BY DEF setToIdle, NoJob
<1>2. MetaDataOfThisJob' /\ JobsNumbered' /\ DiskKept
  <2>1. CASE jobStage = "writing" /\ disk' = EndOf(Running, FALSE)
    <3>1. name \notin DOMAIN disk /\ Plain(openFile)
      BY <2>1 DEF JobInv
    <3> QED BY <1>1, <2>1, <3>1, RunningFacts, EndAdded
  <2>2. CASE orphan # NoOrphan /\ disk' = EndOf(orphan, TRUE)
    BY <1>1, <2>2, RunningFacts, EndAdded
  <2> QED BY <2>1, <2>2 DEF setToIdle
<1>3. IsList(tracker') /\ Len(links') \in Nat /\ Range(tracker') = {}
  BY <1>1 DEF IsList, Range
<1> QED BY <1>1, <1>2, <1>3 DEF JobInv

\* Every step keeps the invariant and the files on disk.
LEMMA JobStep ==
  ASSUME JobInv, [JNext]_jvars
  PROVE  JobInv' /\ DiskKept
<1>1. CASE UNCHANGED <<job, jobStage, name, openFile, links, tracker, disk, orphan>>
  <2>1. MetaDataOfThisJob' /\ JobsNumbered' /\ DiskKept
    BY <1>1, SameFiles
  <2> QED BY <1>1, <2>1 DEF JobInv
<1>2. CASE \E f \in FileNames, s \in Structures : startWriting(f, s)
  BY <1>2, JobStarted
<1>3. CASE initStream
  BY <1>3, StreamInitialised
<1>4. CASE switchToWriteMode
  BY <1>4, ModeSwitched
<1>5. CASE addStreamSource
  BY <1>1, <1>5 DEF addStreamSource
<1>6. CASE beginWriting
  BY <1>6, JobBegun
<1>7. CASE setToIdle
  BY <1>7, JobEnded
<1>8. CASE UNCHANGED jvars
  BY <1>1, <1>8 DEF jvars
<1> QED BY <1>2, <1>3, <1>4, <1>5, <1>6, <1>7, <1>8 DEF JNext

\* Metadata in a file is that of the job that wrote the file, for all structures
\* and any number of jobs, whichever of their steps fail (Master::startWriting
\* clears the tracker, ~HDFFile writes it); only the file of a job left behind by
\* a failure at the status topic may get that of a later start command.
THEOREM MetaDataCorrect == JSpec => []MetaDataOfThisJob
<1>1. JInit => JobInv
  BY JobInvInit
<1>2. JobInv /\ [JNext]_jvars => JobInv'
  BY JobStep
<1>3. JobInv => MetaDataOfThisJob
  BY DEF JobInv
<1> QED BY <1>1, <1>2, <1>3, PTL DEF JSpec

\* No job changes or removes a file that an earlier one has left, whether that
\* one ended or failed (FileWriterTask::InitialiseHdf).
THEOREM FilesStay == JSpec => FinishedFilesStay
<1>1. JInit => JobInv
  BY JobInvInit
<1>2. JobInv /\ [JNext]_jvars => JobInv'
  BY JobStep
<1>3. JobInv /\ [JNext]_jvars => [\A f \in DOMAIN disk : f \in DOMAIN disk' /\ disk'[f] = disk[f]]_jvars
  BY JobStep DEF DiskKept
<1> QED BY <1>1, <1>2, <1>3, PTL DEF JSpec, FinishedFilesStay
-----------------------------------------------------------------------------
(* The types of a job                                                      *)

IsInfo(m) ==
  /\ DOMAIN m = {"WriterModule", "HDFParentName", "ConfigStream", "found"}
  /\ m.HDFParentName \in Seq(STRING)
AreInfos(s) == IsList(s) /\ \A m \in Range(s) : IsInfo(m)

Known(m) == m.WriterModule \in DOMAIN Registry

(* The modules of a job have a group, and those that were initialised are
   known to the registry: the other ones have ended the job. *)
JobTypeInv ==
  /\ JobTypeOK
  /\ AreInfos(streams) /\ AreInfos(links) /\ IsList(sources)
  /\ \A i \in 1..Len(streams) : jobStage \in {"opening", "writing"} \/ i < next => Known(streams[i])

\* Without a job all of it is empty.
LEMMA NoJobTypes ==
  ASSUME jobStage' = "idle", NoJob, HaveParents(orphan'.objects)
  PROVE  JobTypeInv'
<1>1. /\ name' = "" /\ openFile' = << >> /\ SWMRMode' = FALSE /\ streams' = << >> /\ next' = 1
      /\ links' = << >> /\ sources' = << >>
  BY DEF NoJob
<1>2. IsList(<< >>) /\ Range(<< >>) = {} /\ HaveParents(<< >>)
  BY DEF IsList, Range, HaveParents
<1>e. Len(<< >>) = 0 /\ DOMAIN << >> = {}
  OBVIOUS
<1>s. Len(streams') = 0 /\ DOMAIN sources' = {}
  BY <1>1, <1>e, Zenon
<1>m. ModeOK'
  BY <1>1 DEF ModeOK
<1>a. (jobStage' = "idle") <=> (name' = "")
  BY <1>1
<1>b. next' \in 1..(Len(streams') + 1)
  <2>1. next' = 1
    BY <1>1
  <2> QED BY <1>s, <2>1
<1>c. HaveParents(openFile')
  BY <1>1, <1>2
<1>d. \A i \in DOMAIN sources' : sources'[i].WriterModule \in DOMAIN Registry
  BY <1>s
<1>3. JobTypeOK'
  BY <1>a, <1>b, <1>c, <1>d, <1>m DEF JobTypeOK
<1>f. AreInfos(streams') /\ AreInfos(links') /\ IsList(sources')
  BY <1>1, <1>2 DEF AreInfos
<1> QED BY <1>f, <1>s, <1>3 DEF JobTypeInv

\* The elements of a list, by number.
LEMMA ListMember ==
  ASSUME NEW s, IsList(s), NEW i \in 1..Len(s)
  PROVE  s[i] \in Range(s) /\ Len(s) \in Nat /\ DOMAIN s = 1..Len(s)
<1>1. Len(s) \in Nat /\ DOMAIN s = 1..Len(s)
  BY DEF IsList
<1> QED BY <1>1 DEF Range

\* The modules that are kept of a list are modules.
LEMMA InfosKept ==
  ASSUME NEW s, NEW S, AreInfos(s)
  PROVE  AreInfos(Kept(s, S))
<1> DEFINE R == Range(s)
<1>1. s \in Seq(R)
  BY DEF AreInfos, IsList
<1>2. \A m \in R : IsInfo(m)
  BY DEF AreInfos
<1> HIDE DEF R
<1>3. Kept(s, S) \in Seq(R)
  BY <1>1, KeptRange
<1>4. IsList(Kept(s, S)) /\ Range(Kept(s, S)) \subseteq R
  BY <1>3, ListOf
<1> QED BY <1>2, <1>4 DEF AreInfos

\* The file of a new job and its modules are those of the structure.
LEMMA StartTypes ==
  ASSUME JobTypeInv, NEW f \in FileNames, NEW s \in Structures, startWriting(f, s)
  PROVE  JobTypeInv'
<1> DEFINE made == InitialisedFile(s)
           modules == {m \in Range(made.infos) : ~isMdat(m) /\ isExtracted(m)}
<1>0. HaveParents(orphan'.objects)
  BY DEF startWriting, JobTypeInv, JobTypeOK
<1>1. CASE jobStage' = "idle" /\ NoJob
  BY <1>0, <1>1, NoJobTypes
<1>2. CASE /\ jobStage' = "initialising" /\ CanCreate(f) /\ name' = f /\ SWMRMode' = FALSE
           /\ openFile' = made.objects
           /\ streams' = Kept(made.infos, {m \in modules : ~isLink(m)})
           /\ links' = Kept(made.infos, {m \in modules : isLink(m)})
           /\ next' = 1 /\ sources' = << >>
  <2>1. HaveParents(openFile')
    <3>1. \A p \in DOMAIN made.objects : p # << >> => Front(p) \in DOMAIN made.objects
      BY ObjectsAssumption
    <3> QED BY <1>2, <3>1 DEF HaveParents
  <2>2. AreInfos(made.infos)
    <3>1. /\ made.infos \in Seq(Range(made.infos))
          /\ \A m \in Range(made.infos) : /\ DOMAIN m = {"WriterModule", "HDFParentName", "ConfigStream", "found"}
                                          /\ m.HDFParentName \in Seq(STRING)
      BY InfosAssumption
    <3> QED BY <3>1 DEF AreInfos, IsList, IsInfo
  <2>3. AreInfos(streams') /\ AreInfos(links')
    BY <1>2, <2>2, InfosKept
  <2>4. Len(streams') \in Nat
    BY <2>3 DEF AreInfos, IsList
  <2>5. IsList(sources') /\ DOMAIN sources' = {}
    BY <1>2 DEF IsList
  <2>m. ModeOK'
    BY <1>2 DEF ModeOK
  <2>6. JobTypeOK'
    <3>1. jobStage' = "initialising" /\ name' # ""
      BY <1>2 DEF CanCreate
    <3>2. next' \in 1..(Len(streams') + 1)
      <4>1. next' = 1
        BY <1>2
      <4> QED BY <2>4, <4>1
    <3> QED BY <1>0, <2>1, <2>5, <2>m, <3>1, <3>2 DEF JobTypeOK
  <2> QED BY <1>2, <2>3, <2>4, <2>5, <2>6 DEF JobTypeInv
<1> QED BY <1>1, <1>2 DEF startWriting

\* The datasets of a module are in its group.
LEMMA ParentsModule ==
  ASSUME NEW objects, NEW group \in DOMAIN objects, group \in Seq(STRING), NEW module, NEW done,
         HaveParents(objects)
  PROVE  HaveParents(initModule(setWriterHDFAttributes(objects, group), group, module, done))
<1> DEFINE begun == setWriterHDFAttributes(objects, group)
           all == initModule(begun, group, module, done)
<1>1. DOMAIN begun = DOMAIN objects
  BY DEF setWriterHDFAttributes
<1> HIDE DEF begun
<1>2. /\ DOMAIN objects \subseteq DOMAIN all
      /\ \A p \in DOMAIN all : p \in DOMAIN objects \/ \E x : p = Append(group, x)
  BY <1>1 DEF initModule
<1> HIDE DEF all
<1>3. \A p : (\E x : p = Append(group, x)) => Front(p) = group
  BY FrontOfAppend
<1>4. HaveParents(all)
  BY <1>2, <1>3 DEF HaveParents
<1> QED BY <1>4 DEF all, begun

\* An extra module has the group of the module that brings it.
LEMMA ExtraInfos ==
  ASSUME NEW m, IsInfo(m), Known(m)
  PROVE  AreInfos(ExtraModules(m))
<1> DEFINE x == Registry[m.WriterModule].extra
           copy(i) == [m EXCEPT !.WriterModule = x[i], !.ConfigStream = << >>]
           t == [i \in 1..Len(x) |-> copy(i)]
           S == {copy(i) : i \in 1..Len(x)}
<1>1. x \in Seq(STRING)
  BY RegistryAssumption DEF Known
<1>2. ExtraModules(m) = << >> \/ ExtraModules(m) = t
  <2>1. DOMAIN x = 1..Len(x)
    BY <1>1
  <2> QED BY <2>1 DEF ExtraModules
<1>3. ASSUME NEW i PROVE IsInfo(copy(i))
  BY DEF IsInfo
<1>4. Len(x) \in Nat
  BY <1>1
<1> HIDE DEF copy, x
<1>5. t \in Seq(S)
  BY <1>4
<1>6. \A y \in S : IsInfo(y)
  BY <1>3
<1> HIDE DEF S, t
<1>7. IsList(t) /\ Range(t) \subseteq S
  BY <1>5, ListOf
<1>8. IsList(<< >>) /\ Range(<< >>) = {}
  BY DEF IsList, Range
<1> QED BY <1>2, <1>6, <1>7, <1>8 DEF AreInfos

\* A module that was initialised is known.
LEMMA InitTypes ==
  ASSUME JobTypeInv, initStream
  PROVE  JobTypeInv'
<1> DEFINE m == streams[next]
           group == m.HDFParentName
           begun == setWriterHDFAttributes(openFile, group)
<1>1. CASE JobFails(openFile)
  BY <1>1, NoJobTypes DEF JobFails, JobTypeInv, JobTypeOK
<1>2. CASE ~JobFails(openFile)
  <2>1. /\ jobStage = "initialising" /\ next \in DOMAIN streams /\ group \in DOMAIN openFile /\ CanGenerate(m)
        /\ \E done : openFile' = initModule(begun, group, m.WriterModule, done)
        /\ streams' = streams \o ExtraModules(m)
        /\ next' = next + 1
        /\ UNCHANGED <<jobStage, name, SWMRMode, links, sources, orphan>>
    BY <1>2 DEF initStream
  <2>2. IsList(streams) /\ DOMAIN streams = 1..Len(streams) /\ Len(streams) \in Nat
    BY DEF JobTypeInv, AreInfos, IsList
  <2>3. IsInfo(m) /\ Known(m)
    <3>1. m \in Range(streams)
      BY <2>1, <2>2, ListMember
    <3> QED BY <2>1, <3>1 DEF JobTypeInv, AreInfos, CanGenerate, Known
  <2>4. HaveParents(openFile')
    BY <2>1, <2>3, ParentsModule DEF IsInfo, JobTypeInv, JobTypeOK
  <2> DEFINE t == ExtraModules(m)
             all == streams \o t
  <2>5. AreInfos(t)
    BY <2>3, ExtraInfos
  <2> HIDE DEF t, m
  <2>6. /\ IsList(all) /\ Range(all) \subseteq Range(streams) \cup Range(t)
        /\ Len(all) \in Nat /\ Len(streams) <= Len(all)
        /\ \A i \in 1..Len(streams) : all[i] = streams[i]
    BY <2>2, <2>5, ListsJoined DEF AreInfos
  <2> HIDE DEF all
  <2>7. AreInfos(all)
    BY <2>5, <2>6 DEF JobTypeInv, AreInfos
  <2>8. streams' = all
    BY <2>1 DEF all, t
  <2>9. next \in 1..Len(streams) /\ next + 1 \in 1..(Len(all) + 1)
    BY <2>1, <2>2, <2>6
  <2>m. ModeOK'
    BY <2>1 DEF JobTypeInv, JobTypeOK, ModeOK
  <2>10. JobTypeOK'
    BY <2>1, <2>4, <2>8, <2>9, <2>m DEF JobTypeInv, JobTypeOK
  <2>11. ASSUME NEW i \in 1..Len(all), i < next + 1 PROVE Known(all[i])
    <3>1. i \in 1..Len(streams) /\ all[i] = streams[i] /\ (i < next \/ i = next)
      BY <2>6, <2>9, <2>11
    <3> QED BY <2>3, <3>1 DEF JobTypeInv, m
  <2> QED BY <2>1, <2>7, <2>8, <2>10, <2>11 DEF JobTypeInv
<1> QED BY <1>1, <1>2

\* When the file is reopened all modules were initialised.
LEMMA SwitchTypes ==
  ASSUME JobTypeInv, switchToWriteMode
  PROVE  JobTypeInv'
<1>0. HaveParents(orphan'.objects)
  BY DEF switchToWriteMode, JobTypeInv, JobTypeOK
<1>1. CASE jobStage' = "idle" /\ NoJob
  BY <1>0, <1>1, NoJobTypes
<1>2. CASE /\ openFile' = addLinks(openFile, links) /\ SWMRMode' = TRUE /\ jobStage' = "opening" /\ next' = 1
           /\ UNCHANGED <<name, streams, links, sources>>
  <2>1. Len(links) \in Nat /\ HaveGroups(links)
    <3>1. Len(links) \in Nat
      BY DEF JobTypeInv, AreInfos, IsList
    <3>2. \A i \in 1..Len(links) : links[i] \in Range(links)
      BY ListMember DEF JobTypeInv, AreInfos
    <3> QED BY <3>1, <3>2 DEF JobTypeInv, AreInfos, IsInfo, HaveGroups
  <2>2. HaveParents(openFile')
    BY <1>2, <2>1, LinksKeep DEF JobTypeInv, JobTypeOK
  <2>3. Len(streams) \in Nat /\ next = Len(streams) + 1 /\ jobStage = "initialising"
    BY DEF JobTypeInv, AreInfos, IsList, switchToWriteMode
  <2>m. ModeOK'
    BY <1>2 DEF ModeOK
  <2>4. JobTypeOK'
    <3>1. jobStage' = "opening" /\ name' # ""
      BY <1>2, <2>3 DEF JobTypeInv, JobTypeOK
    <3>2. next' \in 1..(Len(streams') + 1)
      <4>1. next' = 1 /\ streams' = streams
        BY <1>2
      <4> QED BY <2>3, <4>1
    <3>3. \A i \in DOMAIN sources' : sources'[i].WriterModule \in DOMAIN Registry
      <4>1. sources' = sources
        BY <1>2
      <4> QED BY <4>1 DEF JobTypeInv, JobTypeOK
    <3> QED BY <1>0, <2>2, <2>m, <3>1, <3>2, <3>3 DEF JobTypeOK
  <2>5. \A i \in 1..Len(streams) : Known(streams[i])
    BY <2>3 DEF JobTypeInv
  <2> QED BY <1>2, <2>4, <2>5 DEF JobTypeInv
<1> QED BY <1>1, <1>2 DEF switchToWriteMode

\* Sources are modules that were initialised.
LEMMA SourceTypes ==
  ASSUME JobTypeInv, addStreamSource
  PROVE  JobTypeInv'
<1> DEFINE m == streams[next]
<1>1. /\ jobStage = "opening" /\ next \in DOMAIN streams /\ next' = next + 1
      /\ sources' = sources \/ sources' = Append(sources, m)
      /\ UNCHANGED <<jobStage, name, openFile, SWMRMode, streams, links, orphan>>
  BY DEF addStreamSource
<1>2. Len(streams) \in Nat /\ DOMAIN streams = 1..Len(streams)
  BY DEF JobTypeInv, AreInfos, IsList
<1>3. Known(m)
  BY <1>1, <1>2 DEF JobTypeInv
<1>4. IsList(sources') /\ \A i \in DOMAIN sources' : Known(sources'[i])
  <2>1. IsList(sources) /\ \A i \in DOMAIN sources : Known(sources[i])
    BY DEF JobTypeInv, JobTypeOK, Known
  <2>2. CASE sources' = sources
    BY <2>1, <2>2
  <2>3. CASE sources' = Append(sources, m)
    <3> DEFINE R == Range(sources)
               S == R \cup {m}
    <3>1. sources \in Seq(S)
      <4>1. sources \in Seq(R)
        BY <2>1 DEF IsList
      <4> HIDE DEF R
      <4> QED BY <4>1
    <3>2. m \in S
      OBVIOUS
    <3> HIDE DEF S, m
    <3>3. /\ Append(sources, m) \in Seq(S) /\ DOMAIN sources = 1..Len(sources) /\ Len(sources) \in Nat
          /\ \A i \in DOMAIN Append(sources, m) : Append(sources, m)[i] = m \/ (i \in DOMAIN sources /\ Append(sources, m)[i] = sources[i])
      BY <3>1, <3>2
    <3>4. IsList(Append(sources, m))
      BY <3>3, ListOf
    <3> QED BY <1>3, <2>1, <2>3, <3>3, <3>4
  <2> QED BY <1>1, <2>2, <2>3
<1>5. JobTypeOK'
  <2>1. next \in 1..Len(streams)
    BY <1>1, <1>2
  <2> HIDE DEF m
  <2>m. ModeOK'
    BY <1>1 DEF JobTypeInv, JobTypeOK, ModeOK
  <2>2. jobStage' = jobStage /\ name' = name /\ openFile' = openFile /\ orphan' = orphan
    BY <1>1
  <2>3. next' \in 1..(Len(streams') + 1)
    <3>1. next' = next + 1 /\ streams' = streams
      BY <1>1
    <3> QED BY <1>2, <2>1, <3>1
  <2> QED BY <1>4, <2>2, <2>3, <2>m DEF JobTypeInv, JobTypeOK, Known
<1>6. \A i \in 1..Len(streams) : Known(streams[i])
  BY <1>1 DEF JobTypeInv
<1> QED BY <1>1, <1>4, <1>5, <1>6 DEF JobTypeInv

\* No file, no objects.
LEMMA NoOrphanParents == HaveParents(NoOrphan.objects)
<1>1. NoOrphan.objects = << >>
  BY DEF NoOrphan
<1>2. HaveParents(<< >>)
  BY DEF HaveParents
<1> QED BY <1>1, <1>2

\* Every step keeps the types.
LEMMA JobTypeStep == JobTypeInv /\ [JNext]_jvars => JobTypeInv'
<1> SUFFICES ASSUME JobTypeInv, [JNext]_jvars PROVE JobTypeInv'
  OBVIOUS
<1>1. CASE \E f \in FileNames, s \in Structures : startWriting(f, s)
  BY <1>1, StartTypes
<1>2. CASE initStream
  BY <1>2, InitTypes
<1>3. CASE switchToWriteMode
  BY <1>3, SwitchTypes
<1>4. CASE addStreamSource
  BY <1>4, SourceTypes
<1>5. CASE beginWriting
  <2>0. jobStage = "opening" /\ HaveParents(NoOrphan.objects) /\ HaveParents(Running.objects)
    <3>1. jobStage = "opening" /\ HaveParents(openFile)
      BY <1>5 DEF beginWriting, JobTypeInv, JobTypeOK
    <3>2. Running.objects = openFile
      BY DEF Running
    <3> QED BY <3>1, <3>2, NoOrphanParents
  <2>1. CASE jobStage' = "writing" /\ orphan' = NoOrphan /\ UNCHANGED jobVars
    <3>1. UNCHANGED <<name, openFile, SWMRMode, streams, next, links, sources>>
      BY <2>1 DEF jobVars
    <3>m. ModeOK'
      BY <2>0, <2>1, <3>1 DEF JobTypeInv, JobTypeOK, ModeOK
    <3>2. JobTypeOK'
      BY <2>0, <2>1, <3>1, <3>m DEF JobTypeInv, JobTypeOK
    <3> QED BY <2>0, <2>1, <3>1, <3>2 DEF JobTypeInv
  <2>2. CASE jobStage' = "idle" /\ orphan' = Running /\ NoJob
    BY <2>0, <2>2, NoJobTypes
  <2> QED BY <1>5, <2>1, <2>2 DEF beginWriting
<1>6. CASE setToIdle
  <2>1. jobStage' = "idle" /\ NoJob /\ orphan' = NoOrphan
    BY <1>6 DEF setToIdle
  <2>2. HaveParents(orphan'.objects)
    BY <2>1, NoOrphanParents
  <2> QED BY <2>1, <2>2, NoJobTypes
<1>7. CASE UNCHANGED jvars
  <2>1. UNCHANGED <<jobStage, name, openFile, SWMRMode, streams, next, links, sources, orphan>>
    BY <1>7 DEF jvars
  <2>m. ModeOK'
    BY <2>1 DEF JobTypeInv, JobTypeOK, ModeOK
  <2>2. JobTypeOK'
    BY <2>1, <2>m DEF JobTypeInv, JobTypeOK
  <2> QED BY <2>1, <2>2 DEF JobTypeInv
<1> QED BY <1>1, <1>2, <1>3, <1>4, <1>5, <1>6, <1>7 DEF JNext

\* The open file always has the groups of its objects, whichever modules could
\* not be initialised, and only known modules become sources (createFileWritingJob).
THEOREM JobTypeCorrect == JSpec => []JobTypeOK
<1>1. JInit => JobTypeInv
  <2> SUFFICES ASSUME JInit PROVE JobTypeInv
    OBVIOUS
  <2>1. /\ jobStage = "idle" /\ name = "" /\ openFile = << >> /\ SWMRMode = FALSE /\ streams = << >> /\ next = 1
        /\ links = << >> /\ sources = << >> /\ orphan = NoOrphan
    BY DEF JInit
  <2>2. IsList(<< >>) /\ Range(<< >>) = {} /\ HaveParents(<< >>)
    BY DEF IsList, Range, HaveParents
  <2>3. Len(<< >>) = 0 /\ DOMAIN << >> = {}
    OBVIOUS
  <2>4. Len(streams) = 0 /\ DOMAIN sources = {}
    BY <2>1, <2>3, Zenon
  <2>5. JobTypeOK
    <3>1. jobStage = "idle" /\ name = "" /\ next = 1
      BY <2>1
    <3>2. next \in 1..(Len(streams) + 1)
      <4>1. next = 1 /\ Len(streams) = 0
        BY <2>4, <3>1
      <4> QED BY <4>1
    <3>3. HaveParents(openFile) /\ HaveParents(orphan.objects)
      <4>1. orphan.objects = << >>
        BY <2>1 DEF NoOrphan
      <4> QED BY <2>1, <2>2, <4>1, Zenon
    <3>4. ModeOK
      BY <2>1 DEF ModeOK
    <3> QED BY <2>4, <3>1, <3>2, <3>3, <3>4 DEF JobTypeOK
  <2>6. AreInfos(streams) /\ AreInfos(links) /\ IsList(sources)
    BY <2>1, <2>2 DEF AreInfos
  <2> QED BY <2>4, <2>5, <2>6 DEF JobTypeInv
<1>2. JobTypeInv => JobTypeOK
  BY DEF JobTypeInv
<1> QED BY <1>1, <1>2, JobTypeStep, PTL DEF JSpec

-----------------------------------------------------------------------------
(* Appending to a dataset                                                  *)

\* Datasets with more than one dimension, to which rows are appended.
Wide(w, ds) == ds = "value" /\ w \in {"f144", "f142", "ADAr", "NDAr"}

\* A dataset has at least the rows its object counts.
DatasetOK(w, ds, d) ==
  /\ DOMAIN d = {"rows", "n", "dims", "chunk"}
  /\ IsList(d.rows) /\ d.n \in Nat /\ d.n <= Len(d.rows)
  /\ d.dims # << >> => Wide(w, ds)

\* The rows of d that earlier appends have completed.
DoneRows(w, ds, d) == IF Wide(w, ds) THEN Len(d.rows) ELSE d.n

\* Dataset e has the completed rows of d.
Keeps(w, ds, d, e) ==
  /\ DatasetOK(w, ds, e)
  /\ DoneRows(w, ds, d) <= DoneRows(w, ds, e)
  /\ \A i \in 1..DoneRows(w, ds, d) : e.rows[i] = d.rows[i]

\* Anything in a row is a list.
LEMMA ListMade ==
  ASSUME NEW s, NEW n \in Nat, s = [i \in 1..n |-> s[i]]
  PROVE  IsList(s) /\ Len(s) = n /\ DOMAIN s = 1..n
<1> DEFINE S == {s[i] : i \in 1..n}
<1>1. \A i \in 1..n : s[i] \in S
  OBVIOUS
<1> HIDE DEF S
<1>2. s \in Seq(S) /\ Len(s) = n /\ DOMAIN s = 1..n
  BY <1>1
<1> QED BY <1>2, ListOf

\* A list has a length.
LEMMA ListLength ==
  ASSUME NEW s, IsList(s)
  PROVE  Len(s) \in Nat /\ DOMAIN s = 1..Len(s)
BY DEF IsList

\* Changing the extent of a dataset.
LEMMA ResizedFacts ==
  ASSUME NEW rows, NEW size \in Nat, IsList(rows)
  PROVE  /\ IsList(Resized(rows, size)) /\ Len(Resized(rows, size)) = size
         /\ \A i \in 1..size : i <= Len(rows) => Resized(rows, size)[i] = rows[i]
<1> DEFINE s == Resized(rows, size)
<1>1. s = [i \in 1..size |-> s[i]] /\ \A i \in 1..size : i <= Len(rows) => s[i] = rows[i]
  BY DEF Resized
<1> HIDE DEF s
<1>2. IsList(s) /\ Len(s) = size
  BY <1>1, ListMade
<1> QED BY <1>1, <1>2 DEF s

\* Writing behind a row keeps the rows up to it.
LEMMA WrittenFacts ==
  ASSUME NEW rows, NEW at \in Nat, NEW cells, IsList(rows)
  PROVE  /\ IsList(Written(rows, at, cells)) /\ Len(Written(rows, at, cells)) = Len(rows)
         /\ \A i \in 1..Len(rows) : i <= at => Written(rows, at, cells)[i] = rows[i]
<1> DEFINE s == Written(rows, at, cells)
           n == Len(rows)
<1>0. n \in Nat /\ DOMAIN rows = 1..n
  BY ListLength
<1>1. s = [i \in 1..n |-> s[i]] /\ \A i \in 1..n : i <= at => s[i] = rows[i]
  BY <1>0 DEF Written
<1> HIDE DEF s, n
<1>2. IsList(s) /\ Len(s) = n
  BY <1>0, <1>1, ListMade
<1> QED BY <1>1, <1>2 DEF s, n

\* The rows of d are now r, and e.n elements count.
LEMMA RowsReplaced ==
  ASSUME NEW w, NEW ds, NEW d, DatasetOK(w, ds, d), ~Wide(w, ds),
         NEW r, IsList(r), NEW n \in Nat, d.n <= n, n <= Len(r),
         \A i \in 1..d.n : r[i] = d.rows[i],
         NEW e, DOMAIN e = DOMAIN d, e.rows = r, e.n = n, e.dims = d.dims
  PROVE  Keeps(w, ds, d, e)
BY DEF Keeps, DatasetOK, DoneRows

\* Nothing happens.
LEMMA NothingAppended ==
  ASSUME NEW w, NEW ds, NEW d, DatasetOK(w, ds, d)
  PROVE  Keeps(w, ds, d, d)
<1>1. Len(d.rows) \in Nat /\ d.n \in Nat
  BY ListLength DEF DatasetOK
<1> QED BY <1>1 DEF Keeps, DoneRows

\* The extent grows by the number of elements, which are written behind the
\* last one that was counted.
LEMMA ArrayKeeps ==
  ASSUME NEW w, NEW ds, NEW d, DatasetOK(w, ds, d), ~Wide(w, ds), NEW cells, IsList(cells), NEW outcome
  PROVE  Keeps(w, ds, d, appendArray(d, cells, outcome))
<1> DEFINE old == d.rows
           size == Len(old) + Len(cells)
           grown == Resized(old, size)
           written == Written(grown, d.n, cells)
<1>0. /\ Len(old) \in Nat /\ Len(cells) \in Nat /\ d.n \in Nat /\ d.n <= Len(old) /\ IsList(old)
      /\ DOMAIN d = {"rows", "n", "dims", "chunk"}
  BY ListLength DEF DatasetOK
<1> HIDE DEF old
<1>1. /\ IsList(grown) /\ Len(grown) = size /\ size \in Nat /\ d.n + Len(cells) <= size
      /\ \A i \in 1..d.n : grown[i] = old[i]
  <2>1. size \in Nat /\ d.n + Len(cells) <= size /\ d.n <= size
    BY <1>0
  <2> HIDE DEF size
  <2> QED BY <1>0, <2>1, ResizedFacts
<1> HIDE DEF grown, size
<1>2. IsList(written) /\ Len(written) = size /\ \A i \in 1..d.n : written[i] = old[i]
  <2>1. /\ IsList(written) /\ Len(written) = Len(grown)
        /\ \A i \in 1..Len(grown) : i <= d.n => written[i] = grown[i]
    BY <1>0, <1>1, WrittenFacts
  <2>2. \A i \in 1..d.n : i \in 1..Len(grown) /\ i <= d.n
    BY <1>0, <1>1
  <2> HIDE DEF written
  <2> QED BY <1>1, <2>1, <2>2
<1> HIDE DEF written
<1>3. CASE outcome = "extent"
  BY <1>3, NothingAppended DEF appendArray
<1>4. CASE outcome = "write"
  <2> DEFINE e == [d EXCEPT !.rows = grown]
  <2>1. DOMAIN e = DOMAIN d /\ e.rows = grown /\ e.n = d.n /\ e.dims = d.dims
    BY <1>0
  <2>2. appendArray(d, cells, outcome) = e
    BY <1>4 DEF appendArray, grown, size, old
  <2> HIDE DEF e
  <2>3. d.n <= d.n /\ d.n <= Len(grown)
    BY <1>0, <1>1
  <2>4. Keeps(w, ds, d, e)
    BY <1>0, <1>1, <2>1, <2>3, RowsReplaced DEF old
  <2> QED BY <2>2, <2>4
<1>5. CASE outcome \notin {"extent", "write"}
  <2> DEFINE e == [d EXCEPT !.rows = written, !.n = d.n + Len(cells)]
  <2>1. DOMAIN e = DOMAIN d /\ e.rows = written /\ e.n = d.n + Len(cells) /\ e.dims = d.dims
    BY <1>0
  <2>2. appendArray(d, cells, outcome) = e
    BY <1>5 DEF appendArray, written, grown, size, old
  <2> HIDE DEF e
  <2>3. d.n + Len(cells) \in Nat /\ d.n <= d.n + Len(cells) /\ d.n + Len(cells) <= Len(written)
    BY <1>0, <1>1, <1>2
  <2>4. Keeps(w, ds, d, e)
    BY <1>0, <1>2, <2>1, <2>3, RowsReplaced DEF old
  <2> QED BY <2>2, <2>4
<1> QED BY <1>3, <1>4, <1>5
\* One element is an array of one.
LEMMA ElementKeeps ==
  ASSUME NEW w, NEW ds, NEW d, DatasetOK(w, ds, d), ~Wide(w, ds), NEW cell, NEW outcome
  PROVE  Keeps(w, ds, d, appendElement(d, cell, outcome))
<1>1. IsList(<<cell>>)
  BY DEF IsList, Range
<1> QED BY <1>1, ArrayKeeps DEF appendElement

\* The extent becomes the number of elements that count, and may have been
\* larger: rows behind them, of appends that failed, are lost.
LEMMA AdapterKeeps ==
  ASSUME NEW w, NEW ds, NEW d, DatasetOK(w, ds, d), ~Wide(w, ds), NEW cells, IsList(cells), NEW outcome
  PROVE  Keeps(w, ds, d, appendAdapter(d, cells, outcome))
<1> DEFINE old == d.rows
           size == d.n + Len(cells)
           sized == Resized(old, size)
           written == Written(sized, d.n, cells)
<1>0. /\ Len(old) \in Nat /\ Len(cells) \in Nat /\ d.n \in Nat /\ d.n <= Len(old) /\ IsList(old)
      /\ DOMAIN d = {"rows", "n", "dims", "chunk"}
  BY ListLength DEF DatasetOK
<1> HIDE DEF old
<1>1. /\ IsList(sized) /\ Len(sized) = size /\ size \in Nat /\ d.n <= size
      /\ \A i \in 1..d.n : sized[i] = old[i]
  <2>1. size \in Nat /\ d.n <= size
    BY <1>0
  <2> HIDE DEF size
  <2> QED BY <1>0, <2>1, ResizedFacts
<1>e. size = d.n + Len(cells)
  OBVIOUS
<1> HIDE DEF sized, size
<1>2. IsList(written) /\ Len(written) = size /\ \A i \in 1..d.n : written[i] = old[i]
  <2>1. /\ IsList(written) /\ Len(written) = Len(sized)
        /\ \A i \in 1..Len(sized) : i <= d.n => written[i] = sized[i]
    BY <1>0, <1>1, WrittenFacts
  <2>2. \A i \in 1..d.n : i \in 1..Len(sized) /\ i <= d.n
    BY <1>0, <1>1
  <2> HIDE DEF written
  <2> QED BY <1>1, <2>1, <2>2
<1> HIDE DEF written
<1>3. CASE cells = << >> \/ outcome = "extent"
  BY <1>3, NothingAppended DEF appendAdapter
<1>4. CASE cells # << >> /\ outcome = "write"
  <2> DEFINE e == [d EXCEPT !.rows = sized]
  <2>1. DOMAIN e = DOMAIN d /\ e.rows = sized /\ e.n = d.n /\ e.dims = d.dims
    BY <1>0
  <2>2. appendAdapter(d, cells, outcome) = e
    BY <1>4 DEF appendAdapter, sized, size, old
  <2> HIDE DEF e
  <2>3. d.n <= d.n /\ d.n <= Len(sized)
    BY <1>0, <1>1
  <2>4. Keeps(w, ds, d, e)
    BY <1>0, <1>1, <2>1, <2>3, RowsReplaced DEF old
  <2> QED BY <2>2, <2>4
<1>5. CASE cells # << >> /\ outcome \notin {"extent", "write"}
  <2> DEFINE e == [d EXCEPT !.rows = written, !.n = d.n + Len(cells)]
  <2>1. DOMAIN e = DOMAIN d /\ e.rows = written /\ e.n = size /\ e.dims = d.dims
    BY <1>0, <1>e
  <2>2. appendAdapter(d, cells, outcome) = e
    BY <1>5 DEF appendAdapter, written, sized, size, old
  <2> HIDE DEF e
  <2>3. size <= Len(written)
    BY <1>1, <1>2
  <2>4. Keeps(w, ds, d, e)
    BY <1>0, <1>1, <1>2, <2>1, <2>3, RowsReplaced DEF old
  <2> QED BY <2>2, <2>4
<1> QED BY <1>3, <1>4, <1>5

\* A row goes behind all rows there are.
LEMMA RowKeeps ==
  ASSUME NEW w, NEW ds, NEW d, DatasetOK(w, ds, d), NEW cell, NEW shape, NEW outcome
  PROVE  Keeps(w, ds, d, appendRow(d, cell, shape, outcome))
<1> DEFINE old == d.rows
           n == Len(old)
           larger == [i \in DOMAIN d.dims |-> IF shape[i] > d.dims[i] THEN shape[i] ELSE d.dims[i]]
           more == Append(old, Fill)
           grown == [d EXCEPT !.rows = more, !.dims = larger]
           full == [grown EXCEPT !.rows[Len(grown.rows)] = cell]
           Good(e) == /\ DOMAIN e = DOMAIN d /\ e.n = d.n /\ e.dims = larger
                      /\ IsList(e.rows) /\ Len(e.rows) = n + 1
                      /\ \A i \in 1..n : e.rows[i] = old[i]
<1>0. /\ n \in Nat /\ IsList(old) /\ d.n \in Nat /\ d.n <= n
      /\ DOMAIN d = {"rows", "n", "dims", "chunk"} /\ (d.dims # << >> => Wide(w, ds))
  BY ListLength DEF DatasetOK
<1>1. IsList(more) /\ Len(more) = n + 1 /\ DOMAIN more = 1..(n + 1) /\ \A i \in 1..n : more[i] = old[i]
  <2> DEFINE R == Range(old)
             S == R \cup {Fill}
  <2>1. old \in Seq(R)
    BY <1>0 DEF IsList
  <2> HIDE DEF R
  <2>2. old \in Seq(S) /\ Fill \in S
    BY <2>1
  <2> HIDE DEF S, old
  <2>3. more \in Seq(S) /\ Len(more) = n + 1 /\ DOMAIN more = 1..(n + 1) /\ \A i \in 1..n : more[i] = old[i]
    BY <2>2
  <2> QED BY <2>3, ListOf
<1>2. larger # << >> => Wide(w, ds)
  <2>1. CASE d.dims = << >>
    <3>1. DOMAIN d.dims = {}
      BY <2>1
    <3>2. larger = << >>
      BY <3>1
    <3> QED BY <3>2
  <2> QED BY <1>0, <2>1
<1>3. ASSUME NEW e, Good(e) PROVE Keeps(w, ds, d, e)
  <2> HIDE DEF larger
  <2>1. DatasetOK(w, ds, e)
    BY <1>0, <1>2, <1>3 DEF DatasetOK
  <2> QED BY <1>0, <1>3, <2>1 DEF Keeps, DoneRows
<1> HIDE DEF larger, more, old, n
<1>4. grown.rows = more /\ DOMAIN grown = DOMAIN d /\ grown.n = d.n /\ grown.dims = larger
  BY <1>0
<1>5. Good(grown)
  BY <1>1, <1>4
<1>6. Good(full)
  <2> DEFINE last == [more EXCEPT ![n + 1] = cell]
  <2>1. last = [i \in 1..(n + 1) |-> last[i]] /\ \A i \in 1..n : last[i] = old[i]
    <3>1. last = [i \in 1..(n + 1) |-> IF i = n + 1 THEN cell ELSE more[i]]
      BY <1>1
    <3> HIDE DEF last
    <3> QED BY <1>0, <1>1, <3>1
  <2> HIDE DEF last
  <2>2. IsList(last) /\ Len(last) = n + 1
    BY <1>0, <2>1, ListMade
  <2>3. full = [grown EXCEPT !.rows = last]
    BY <1>1, <1>4 DEF last
  <2> HIDE DEF grown, full
  <2>4. full.rows = last /\ DOMAIN full = DOMAIN d /\ full.n = d.n /\ full.dims = larger
    BY <1>0, <1>4, <2>3
  <2> QED BY <2>1, <2>2, <2>4
<1> HIDE DEF Good
<1>7. appendRow(d, cell, shape, outcome) \in {d, grown, full}
  BY DEF appendRow, larger, more, old
<1> HIDE DEF grown, full
<1> QED BY <1>3, <1>5, <1>6, <1>7, NothingAppended
-----------------------------------------------------------------------------
(* Executing a script                                                      *)

FileOK(w, F) == \A ds \in DOMAIN F : DatasetOK(w, ds, F[ds])
FilesKeep(w, F, G) == DOMAIN G = DOMAIN F /\ \A ds \in DOMAIN F : Keeps(w, ds, F[ds], G[ds])

\* Elements and arrays go to datasets of one dimension.
StepOK(w, step) ==
  \/ step.op \in {"throw", "set", "row"}
  \/ step.op \in {"element", "vector", "array"} /\ ~Wide(w, step.ds) /\ IsList(step.cells)

AccOK(acc) == DOMAIN acc = {"file", "mem", "threw"}

\* A file that is not touched.
LEMMA FilesKept ==
  ASSUME NEW w, NEW F, FileOK(w, F)
  PROVE  FilesKeep(w, F, F)
BY NothingAppended DEF FileOK, FilesKeep

\* Two changes in a row.
LEMMA FilesKeptTwice ==
  ASSUME NEW w, NEW F, NEW G, NEW H, FileOK(w, F), FilesKeep(w, F, G), FilesKeep(w, G, H)
  PROVE  FilesKeep(w, F, H)
<1>1. DOMAIN H = DOMAIN F /\ DOMAIN G = DOMAIN F
  BY DEF FilesKeep
<1>2. ASSUME NEW ds \in DOMAIN F PROVE Keeps(w, ds, F[ds], H[ds])
  <2> DEFINE d == F[ds]
             e == G[ds]
             g == H[ds]
  <2>1. DatasetOK(w, ds, d) /\ Keeps(w, ds, d, e) /\ Keeps(w, ds, e, g)
    BY <1>1, <1>2 DEF FileOK, FilesKeep
  <2> HIDE DEF d, e, g
  <2>2. DoneRows(w, ds, d) \in Nat /\ DoneRows(w, ds, e) \in Nat /\ DoneRows(w, ds, g) \in Nat
    <3>1. \A x : DatasetOK(w, ds, x) => DoneRows(w, ds, x) \in Nat
      BY ListLength DEF DatasetOK, DoneRows
    <3> QED BY <2>1, <3>1 DEF Keeps
  <2>3. Keeps(w, ds, d, g)
    BY <2>1, <2>2 DEF Keeps
  <2> QED BY <2>3 DEF d, g
<1> QED BY <1>1, <1>2 DEF FilesKeep

\* The datasets stay well formed.
LEMMA FilesKeepOK ==
  ASSUME NEW w, NEW F, NEW G, FilesKeep(w, F, G)
  PROVE  FileOK(w, G)
BY DEF FilesKeep, FileOK, Keeps

\* One dataset of a file is changed.
LEMMA DatasetChanged ==
  ASSUME NEW w, NEW F, NEW ds, FileOK(w, F), NEW d, ds \in DOMAIN F => Keeps(w, ds, F[ds], d)
  PROVE  FilesKeep(w, F, [F EXCEPT ![ds] = d])
<1> DEFINE G == [F EXCEPT ![ds] = d]
<1>1. DOMAIN G = DOMAIN F /\ \A x \in DOMAIN F : G[x] = IF x = ds THEN d ELSE F[x]
  OBVIOUS
<1> HIDE DEF G
<1>2. FilesKeep(w, F, G)
  BY <1>1, NothingAppended DEF FilesKeep, FileOK
<1> QED BY <1>2 DEF G

\* A step of a script keeps the completed rows, whether or not it fails.
LEMMA StepKeeps ==
  ASSUME NEW w, NEW acc, AccOK(acc), FileOK(w, acc.file), NEW step, StepOK(w, step), NEW outcome
  PROVE  LET end == DoStep(acc, step, outcome)
         IN  AccOK(end) /\ FilesKeep(w, acc.file, end.file)
<1> DEFINE F == acc.file
           ds == step.ds
           d == F[ds]
           end == DoStep(acc, step, outcome)
           Good == AccOK(end) /\ FilesKeep(w, F, end.file)
<1> SUFFICES Good
  OBVIOUS
<1>0. FileOK(w, F)
  OBVIOUS
<1>1. ASSUME end = [acc EXCEPT !.threw = TRUE] PROVE Good
  <2>1. DOMAIN end = DOMAIN acc /\ end.file = acc.file
    BY <1>1 DEF AccOK
  <2> QED BY <2>1, FilesKept DEF AccOK
<1>2. CASE step.op = "throw"
  BY <1>1, <1>2 DEF DoStep
<1>3. CASE step.op = "set"
  <2>1. end = [acc EXCEPT !.mem[step.member] = step.value]
    BY <1>3 DEF DoStep
  <2>2. DOMAIN end = DOMAIN acc /\ end.file = acc.file
    BY <2>1 DEF AccOK
  <2> QED BY <2>2, FilesKept DEF AccOK
<1>4. CASE step.op = "element"
  <2> DEFINE e == appendElement(d, step.cells[1], outcome)
  <2>1. end = [acc EXCEPT !.file[ds] = e, !.threw = outcome # "done"]
    BY <1>4 DEF DoStep
  <2>f. DOMAIN end = DOMAIN acc /\ end.file = [F EXCEPT ![ds] = e]
    <3> HIDE DEF e, end
    <3> QED BY <2>1 DEF AccOK
  <2>2. ~Wide(w, ds)
    BY <1>4 DEF StepOK
  <2>3. ds \in DOMAIN F => Keeps(w, ds, d, e)
    BY <2>2, ElementKeeps DEF FileOK
  <2> HIDE DEF e, end, F, ds
  <2>4. FilesKeep(w, F, [F EXCEPT ![ds] = e])
    BY <1>0, <2>3, DatasetChanged
  <2> QED BY <2>f, <2>4 DEF AccOK
<1>5. CASE step.op = "vector"
  <2> DEFINE e == appendArray(d, step.cells, outcome)
  <2>1. end = [acc EXCEPT !.file[ds] = e, !.threw = outcome # "done"]
    BY <1>5 DEF DoStep
  <2>f. DOMAIN end = DOMAIN acc /\ end.file = [F EXCEPT ![ds] = e]
    <3> HIDE DEF e, end
    <3> QED BY <2>1 DEF AccOK
  <2>2. ~Wide(w, ds) /\ IsList(step.cells)
    BY <1>5 DEF StepOK
  <2>3. ds \in DOMAIN F => Keeps(w, ds, d, e)
    BY <2>2, ArrayKeeps DEF FileOK
  <2> HIDE DEF e, end, F, ds
  <2>4. FilesKeep(w, F, [F EXCEPT ![ds] = e])
    BY <1>0, <2>3, DatasetChanged
  <2> QED BY <2>f, <2>4 DEF AccOK
<1>6. CASE step.op = "array"
  <2> DEFINE e == appendAdapter(d, step.cells, outcome)
  <2>1. end = [acc EXCEPT !.file[ds] = e, !.threw = outcome # "done"]
    BY <1>6 DEF DoStep
  <2>f. DOMAIN end = DOMAIN acc /\ end.file = [F EXCEPT ![ds] = e]
    <3> HIDE DEF e, end
    <3> QED BY <2>1 DEF AccOK
  <2>2. ~Wide(w, ds) /\ IsList(step.cells)
    BY <1>6 DEF StepOK
  <2>3. ds \in DOMAIN F => Keeps(w, ds, d, e)
    BY <2>2, AdapterKeeps DEF FileOK
  <2> HIDE DEF e, end, F, ds
  <2>4. FilesKeep(w, F, [F EXCEPT ![ds] = e])
    BY <1>0, <2>3, DatasetChanged
  <2> QED BY <2>f, <2>4 DEF AccOK
<1>7. CASE step.op = "row"
  <2> DEFINE e == appendRow(d, step.cells[1], step.shape, outcome)
  <2>1. CASE ~RankFits(d, step.shape)
    BY <1>1, <1>7, <2>1 DEF DoStep
  <2>2. CASE RankFits(d, step.shape)
    <3>1. end = [acc EXCEPT !.file[ds] = e, !.threw = outcome # "done"]
      BY <1>7, <2>2 DEF DoStep
    <3>f. DOMAIN end = DOMAIN acc /\ end.file = [F EXCEPT ![ds] = e]
      <4> HIDE DEF e, end
      <4> QED BY <3>1 DEF AccOK
    <3>2. ds \in DOMAIN F => Keeps(w, ds, d, e)
      BY RowKeeps DEF FileOK
    <3> HIDE DEF e, end, F, ds
    <3>3. FilesKeep(w, F, [F EXCEPT ![ds] = e])
      BY <1>0, <3>2, DatasetChanged
    <3> QED BY <3>f, <3>3 DEF AccOK
  <2> QED BY <2>1, <2>2
<1> QED BY <1>2, <1>3, <1>4, <1>5, <1>6, <1>7 DEF StepOK
\* The recursion of Execute: the file, the members and whether an exception was
\* thrown after n steps.
RunStep(after, script, at, outcome, n) ==
  IF n = 0 THEN [file |-> file, mem |-> mem, threw |-> FALSE]
  ELSE IF after[n - 1].threw THEN after[n - 1]
       ELSE DoStep(after[n - 1], script[n], IF n = at THEN outcome ELSE "done")

IsRun(after, script, at, outcome, count) ==
  after = [n \in 0..count |-> RunStep(after, script, at, outcome, n)]

\* The recursion of Execute has a solution, by induction on the steps.
LEMMA RunExists ==
  ASSUME NEW script, NEW at, NEW outcome, NEW count \in Nat
  PROVE  \E f : IsRun(f, script, at, outcome, count)
<1> DEFINE T == {n \in Nat : ~\E f : IsRun(f, script, at, outcome, n)}
<1> SUFFICES ASSUME T # {} PROVE FALSE
  OBVIOUS
<1>1. PICK n \in T : \A m \in T : n <= m
  BY LeastNat
<1>2. CASE n = 0
  <2> DEFINE f == [i \in 0..0 |-> [file |-> file, mem |-> mem, threw |-> FALSE]]
  <2>1. IsRun(f, script, at, outcome, 0)
    BY DEF IsRun, RunStep
  <2> QED BY <1>1, <1>2, <2>1
<1>3. CASE n # 0
  <2>1. n - 1 \in Nat /\ n - 1 \notin T /\ n \in Nat
    BY <1>1, <1>3
  <2>2. PICK g : IsRun(g, script, at, outcome, n - 1)
    BY <2>1
  <2> DEFINE v == RunStep(g, script, at, outcome, n)
             f == [i \in 0..n |-> IF i = n THEN v ELSE g[i]]
  <2>3. \A i \in 0..(n-1) : g[i] = RunStep(g, script, at, outcome, i)
    BY <2>2 DEF IsRun
  <2>4. ASSUME NEW i \in 0..n
        PROVE  f[i] = RunStep(f, script, at, outcome, i)
    <3>0. i # 0 => f[i - 1] = g[i - 1]
      BY <2>1
    <3> HIDE DEF f
    <3>1. RunStep(f, script, at, outcome, i) = RunStep(g, script, at, outcome, i)
      BY <3>0 DEF RunStep
    <3>2. f[i] = RunStep(g, script, at, outcome, i)
      BY <2>1, <2>3 DEF f
    <3> QED BY <3>1, <3>2
  <2>5. IsRun(f, script, at, outcome, n)
    <3>1. f = [i \in 0..n |-> f[i]]
      OBVIOUS
    <3> HIDE DEF f
    <3> QED BY <2>4, <3>1 DEF IsRun
  <2> QED BY <1>1, <2>5
<1> QED BY <1>2, <1>3

\* A sequence of steps of a module.
IsScript(w, s) == IsList(s) /\ \A x \in Range(s) : StepOK(w, x)

\* The execution of a script goes through states, one after each step; up to the
\* step that fails, the completed rows are kept in all of them.
LEMMA ExecuteRuns ==
  ASSUME NEW w, NEW script, NEW at, NEW outcome, IsScript(w, script), FileOK(w, file)
  PROVE  \E after : /\ Execute(script, at, outcome) = after[Len(script)]
                    /\ \A n \in 0..Len(script) : /\ after[n] = RunStep(after, script, at, outcome, n)
                                                 /\ AccOK(after[n]) /\ FilesKeep(w, file, after[n].file)
<1> DEFINE N == Len(script)
           after == CHOOSE f : IsRun(f, script, at, outcome, N)
           Good(n) == AccOK(after[n]) /\ FilesKeep(w, file, after[n].file)
           T == {n \in Nat : n <= N /\ ~Good(n)}
<1>0. N \in Nat /\ DOMAIN script = 1..N
  BY ListLength DEF IsScript
<1>1. Execute(script, at, outcome) = after[N]
  BY Zenon DEF Execute, IsRun, RunStep
<1>2. \A n \in 0..N : after[n] = RunStep(after, script, at, outcome, n)
  <2> HIDE DEF N
  <2>1. \E f : IsRun(f, script, at, outcome, N)
    BY <1>0, RunExists, Zenon
  <2>2. IsRun(after, script, at, outcome, N)
    BY <2>1
  <2> HIDE DEF after
  <2> QED BY <2>2 DEF IsRun
<1> HIDE DEF after, N, Good
<1>3. SUFFICES ASSUME T # {} PROVE FALSE
  <2>1. ASSUME T = {}, NEW n \in 0..N PROVE Good(n)
    <3>1. n \in Nat /\ n <= N
      BY <1>0
    <3> QED BY <2>1, <3>1
  <2>2. ASSUME \A n \in 0..N : Good(n)
        PROVE  /\ Execute(script, at, outcome) = after[Len(script)]
               /\ \A n \in 0..Len(script) : /\ after[n] = RunStep(after, script, at, outcome, n)
                                            /\ AccOK(after[n]) /\ FilesKeep(w, file, after[n].file)
    BY <1>1, <1>2, <2>2, Zenon DEF Good, N
  <2> HIDE DEF T
  <2> QED BY <2>1, <2>2, Zenon
<1>4. PICK n \in T : \A m \in T : n <= m
  BY <1>3, LeastNat
<1>5. n \in 0..N /\ ~Good(n)
  BY <1>0, <1>4
<1>6. after[n] = RunStep(after, script, at, outcome, n)
  BY <1>2, <1>5
<1>7. CASE n = 0
  <2>1. after[n] = [file |-> file, mem |-> mem, threw |-> FALSE]
    BY <1>6, <1>7 DEF RunStep
  <2>2. DOMAIN after[n] = {"file", "mem", "threw"} /\ after[n].file = file
    BY <2>1
  <2> QED BY <1>5, <2>2, FilesKept DEF Good, AccOK
<1>8. CASE n # 0
  <2>1. n - 1 \in 0..N /\ n - 1 \notin T /\ n \in 1..N
    BY <1>0, <1>4, <1>5, <1>8
  <2>2. Good(n - 1)
    BY <1>0, <2>1
  <2> DEFINE acc == after[n - 1]
             o == IF n = at THEN outcome ELSE "done"
             end == DoStep(acc, script[n], o)
  <2>3. AccOK(acc) /\ FilesKeep(w, file, acc.file)
    BY <2>2 DEF Good
  <2>4. after[n] = acc \/ after[n] = end
    BY <1>6, <1>8 DEF RunStep
  <2>5. StepOK(w, script[n])
    BY <1>0, <2>1, ListMember DEF IsScript, N
  <2> HIDE DEF acc, o
  <2>6. FileOK(w, acc.file)
    BY <2>3, FilesKeepOK
  <2>7. AccOK(end) /\ FilesKeep(w, acc.file, end.file)
    BY <2>3, <2>5, <2>6, StepKeeps
  <2> HIDE DEF end
  <2>8. FilesKeep(w, file, end.file)
    BY <2>3, <2>7, FilesKeptTwice
  <2>9. Good(n)
    BY <2>3, <2>4, <2>7, <2>8 DEF Good
  <2> QED BY <1>5, <2>9
<1> QED BY <1>7, <1>8

\* Whatever is executed of a script, up to the step that fails, the completed rows
\* are kept.
LEMMA ExecuteKeeps ==
  ASSUME NEW w, NEW script, NEW at, NEW outcome, IsScript(w, script), FileOK(w, file)
  PROVE  FilesKeep(w, file, Execute(script, at, outcome).file)
<1>1. PICK after : /\ Execute(script, at, outcome) = after[Len(script)]
                   /\ \A n \in 0..Len(script) : FilesKeep(w, file, after[n].file)
  BY ExecuteRuns
<1>2. Len(script) \in 0..Len(script)
  BY ListLength DEF IsScript
<1> QED BY <1>1, <1>2
-----------------------------------------------------------------------------
(* The scripts of the writer modules                                       *)

\* The steps that write() is made of.
LEMMA StepElement ==
  ASSUME NEW w, NEW ds, NEW n, NEW x, ~Wide(w, ds)
  PROVE  StepOK(w, Element(ds, n, x))
<1> DEFINE cell == Cell(n, <<x>>)
           s == <<cell>>
<1>1. Element(ds, n, x).op = "element" /\ Element(ds, n, x).ds = ds /\ Element(ds, n, x).cells = s
  BY DEF Element
<1> HIDE DEF cell
<1>2. s \in Seq({cell})
  OBVIOUS
<1> HIDE DEF s
<1>3. IsList(s)
  BY <1>2, ListOf
<1> QED BY <1>1, <1>3 DEF StepOK

\* The cells of a list.
LEMMA CellsList ==
  ASSUME NEW n, NEW xs, IsList(xs)
  PROVE  IsList(Cells(n, xs))
<1> DEFINE s == Cells(n, xs)
<1>0. Len(xs) \in Nat /\ DOMAIN xs = 1..Len(xs)
  BY ListLength
<1>1. s = [i \in 1..Len(xs) |-> s[i]]
  BY <1>0 DEF Cells
<1> HIDE DEF s
<1>2. IsList(s)
  BY <1>0, <1>1, ListMade
<1> QED BY <1>2 DEF s

\* Arrays of a message, whether as vector or through an adapter.
LEMMA StepArray ==
  ASSUME NEW w, NEW ds, NEW n, NEW xs, ~Wide(w, ds), IsList(xs)
  PROVE  StepOK(w, Array(ds, n, xs)) /\ StepOK(w, Vector(ds, n, xs))
<1>1. /\ Array(ds, n, xs).op = "array" /\ Array(ds, n, xs).ds = ds
      /\ Array(ds, n, xs).cells = Cells(n, xs)
  BY DEF Array
<1>2. /\ Vector(ds, n, xs).op = "vector" /\ Vector(ds, n, xs).ds = ds
      /\ Vector(ds, n, xs).cells = Cells(n, xs)
  BY DEF Vector
<1> QED BY <1>1, <1>2, CellsList DEF StepOK

\* Rows, assignments and exceptions.
LEMMA StepOther ==
  ASSUME NEW w
  PROVE  /\ \A ds, n, x, shape : StepOK(w, Row(ds, n, x, shape))
         /\ \A member, value : StepOK(w, Set(member, value))
         /\ StepOK(w, Throw)
<1>1. \A ds, n, x, shape : Row(ds, n, x, shape).op = "row"
  BY DEF Row
<1>2. \A member, value : Set(member, value).op = "set"
  BY DEF Set
<1>3. Throw.op = "throw"
  BY DEF Throw
<1> QED BY <1>1, <1>2, <1>3 DEF StepOK

\* A sequence of such steps is a script.
LEMMA ScriptOf ==
  ASSUME NEW w, NEW S, NEW s \in Seq(S), \A x \in S : StepOK(w, x)
  PROVE  IsScript(w, s)
BY ListOf DEF IsScript

\* The empty script.
LEMMA Script0 ==
  ASSUME NEW w
  PROVE  IsScript(w, << >>)
<1> DEFINE s == << >>
           S == {}
<1>1. s \in Seq(S) /\ \A x \in S : StepOK(w, x)
  OBVIOUS
<1> HIDE DEF s, S
<1>2. IsScript(w, s)
  BY <1>1, ScriptOf
<1> QED BY <1>2 DEF s

\* Scripts of one step,
LEMMA Script1 ==
  ASSUME NEW w, NEW a, StepOK(w, a)
  PROVE  IsScript(w, <<a>>)
<1> DEFINE s == <<a>>
           S == {a}
<1>1. s \in Seq(S) /\ \A x \in S : StepOK(w, x)
  OBVIOUS
<1> HIDE DEF s, S
<1>2. IsScript(w, s)
  BY <1>1, ScriptOf
<1> QED BY <1>2 DEF s

\* of two,
LEMMA Script2 ==
  ASSUME NEW w, NEW a, NEW b, StepOK(w, a), StepOK(w, b)
  PROVE  IsScript(w, <<a, b>>)
<1> DEFINE s == <<a, b>>
           S == {a, b}
<1>1. s \in Seq(S) /\ \A x \in S : StepOK(w, x)
  OBVIOUS
<1> HIDE DEF s, S
<1>2. IsScript(w, s)
  BY <1>1, ScriptOf
<1> QED BY <1>2 DEF s

\* of three
LEMMA Script3 ==
  ASSUME NEW w, NEW a, NEW b, NEW c, StepOK(w, a), StepOK(w, b), StepOK(w, c)
  PROVE  IsScript(w, <<a, b, c>>)
<1> DEFINE s == <<a, b, c>>
           S == {a, b, c}
<1>1. s \in Seq(S) /\ \A x \in S : StepOK(w, x)
  OBVIOUS
<1> HIDE DEF s, S
<1>2. IsScript(w, s)
  BY <1>1, ScriptOf
<1> QED BY <1>2 DEF s

\* and of four.
LEMMA Script4 ==
  ASSUME NEW w, NEW a, NEW b, NEW c, NEW d, StepOK(w, a), StepOK(w, b), StepOK(w, c), StepOK(w, d)
  PROVE  IsScript(w, <<a, b, c, d>>)
<1> DEFINE s == <<a, b, c, d>>
           S == {a, b, c, d}
<1>1. s \in Seq(S) /\ \A x \in S : StepOK(w, x)
  OBVIOUS
<1> HIDE DEF s, S
<1>2. IsScript(w, s)
  BY <1>1, ScriptOf
<1> QED BY <1>2 DEF s

\* Scripts one after the other.
LEMMA ScriptsJoined ==
  ASSUME NEW w, NEW s, NEW t, IsScript(w, s), IsScript(w, t)
  PROVE  IsScript(w, s \o t)
<1>1. IsList(s \o t) /\ Range(s \o t) \subseteq Range(s) \cup Range(t)
  BY ListsJoined DEF IsScript
<1> QED BY <1>1 DEF IsScript

\* A script that may be skipped.
LEMMA ScriptWhen ==
  ASSUME NEW w, NEW condition, NEW s, IsScript(w, s)
  PROVE  IsScript(w, When(condition, s))
BY Script0 DEF When
\* Any dataset but that of the values has one dimension.
LEMMA StepNamed ==
  ASSUME NEW w, NEW ds, ds # "value", NEW n, NEW x
  PROVE  ~Wide(w, ds) /\ StepOK(w, Element(ds, n, x))
BY StepElement DEF Wide

\* The comparison of the element types touches no dataset.
LEMMA CheckTypeScript ==
  ASSUME NEW w, NEW M, NEW known, NEW configured, NEW elem
  PROVE  IsScript(w, CheckType(M, known, configured, elem))
BY StepOther, Script2, ScriptWhen DEF CheckType

\* The parts of write() that f144 and f142 share.
LEMMA LogScript ==
  ASSUME NEW w, NEW c, NEW M, NEW n, NEW m, NEW type
  PROVE  /\ IsScript(w, <<Element("time", n, m.t)>>)
         /\ IsScript(w, <<Throw>>)
         /\ IsScript(w, appendData(type, n, m))
         /\ IsScript(w, LogCue(c, M, n, m))
         /\ IsScript(w, LogStatistics(M, m))
<1>1. IsScript(w, <<Element("time", n, m.t)>>)
  BY StepNamed, Script1
<1>2. IsScript(w, <<Throw>>)
  BY StepOther, Script1
<1>3. IsScript(w, appendData(type, n, m))
  BY StepOther, Script1, ScriptWhen DEF appendData
<1>4. IsScript(w, LogCue(c, M, n, m))
  <2> DEFINE writes == M.NrOfWrites + 1
             a == <<Set("NrOfWrites", writes)>>
             b == << Set("LastIndexAtWrite", writes), Element("cue_index", n, RowNumber(writes - 1)),
                     Element("cue_timestamp_zero", n, m.t) >>
             condition == (writes - M.LastIndexAtWrite) \div c.interval > 0
  <2>1. IsScript(w, a)
    BY StepOther, Script1
  <2>2. IsScript(w, b)
    BY StepNamed, StepOther, Script3
  <2>3. LogCue(c, M, n, m) = a \o When(condition, b)
    BY DEF LogCue
  <2> HIDE DEF a, b, condition
  <2> QED BY <2>1, <2>2, <2>3, ScriptWhen, ScriptsJoined
<1>5. IsScript(w, LogStatistics(M, m))
  <2>1. \E a, b, x, y : LogStatistics(M, m) = <<Set("Min", a), Set("Max", b), Set("Sum", x), Set("TotalNrOfElementsWritten", y)>>
    BY Zenon DEF LogStatistics
  <2> QED BY <2>1, StepOther, Script4
<1> QED BY <1>1, <1>2, <1>3, <1>4, <1>5

\* f144 and f142.
LEMMA LogWrites ==
  ASSUME NEW w, NEW c, NEW F, NEW M, NEW n, NEW m
  PROVE  IsScript(w, f144_write(c, F, M, n, m)) /\ IsScript(w, f142_write(c, F, M, n, m))
<1> DEFINE a == <<Element("time", n, m.t)>>
           b == <<Throw>>
           d1 == appendData(f144_config_post_processing(c), n, m)
           d2 == appendData(f142_config_post_processing(c), n, m)
           e == LogCue(c, M, n, m)
           f == When(c.meta, LogStatistics(M, m))
           g == << Element("alarm_time", n, m.t),
                   Element("alarm_status", n, AlarmStatusToString(m.status)),
                   Element("alarm_severity", n, F142SeverityToAl00Severity[m.severity]) >>
           h == When(m.status # "NO_CHANGE", g)
<1>1. IsScript(w, a) /\ IsScript(w, b) /\ IsScript(w, d1) /\ IsScript(w, d2) /\ IsScript(w, e) /\ IsScript(w, f)
  BY LogScript, ScriptWhen
<1>2. IsScript(w, h)
  <2>1. IsScript(w, g)
    BY StepNamed, Script3
  <2> HIDE DEF g
  <2> QED BY <2>1, ScriptWhen
<1>3. IsScript(w, f144_write(c, F, M, n, m))
  <2> DEFINE t == CheckType(M, f144_Known(m), f144_config_post_processing(c), m.elem)
  <2>1. f144_write(c, F, M, n, m) = a \o t \o (IF m.elem \notin Ints \cup Floats THEN b ELSE d1 \o e \o f)
    BY Zenon DEF f144_write
  <2>2. IsScript(w, t)
    BY CheckTypeScript
  <2> HIDE DEF a, b, d1, d2, e, f, t
  <2>3. IsScript(w, a \o t) /\ IsScript(w, d1 \o e \o f)
    BY <1>1, <2>2, ScriptsJoined
  <2> QED BY <1>1, <2>1, <2>3, ScriptsJoined
<1>4. IsScript(w, f142_write(c, F, M, n, m))
  <2> DEFINE t == CheckType(M, f142_Known(m), f142_config_post_processing(c), m.elem)
  <2>1. f142_write(c, F, M, n, m) = a \o t \o (IF m.elem \notin Ints \cup Floats THEN b ELSE d2 \o e \o f \o h)
    BY Zenon DEF f142_write
  <2>2. IsScript(w, t)
    BY CheckTypeScript
  <2> HIDE DEF a, b, d1, d2, e, f, h, t
  <2>3. IsScript(w, a \o t) /\ IsScript(w, d2 \o e \o f \o h)
    BY <1>1, <1>2, <2>2, ScriptsJoined
  <2> QED BY <1>1, <2>1, <2>3, ScriptsJoined
<1> QED BY <1>3, <1>4

\* The index and cue part of the event writers.
LEMMA EventCueScript ==
  ASSUME NEW w, NEW c, NEW M, NEW n, NEW m, NEW t0
  PROVE  IsScript(w, EventCue(c, M, n, m, t0))
<1>1. \E a, b, x, y, z, condition :
        EventCue(c, M, n, m, t0) = << Element("event_index", n, a), Set("EventsWritten", b) >>
          \o When(condition, << Element("cue_timestamp_zero", n, x), Element("cue_index", n, y), Set("LastEventIndex", z) >>)
  BY Zenon DEF EventCue
<1>2. PICK a, b, x, y, z, condition :
        EventCue(c, M, n, m, t0) = << Element("event_index", n, a), Set("EventsWritten", b) >>
          \o When(condition, << Element("cue_timestamp_zero", n, x), Element("cue_index", n, y), Set("LastEventIndex", z) >>)
  BY <1>1
<1> DEFINE s == << Element("event_index", n, a), Set("EventsWritten", b) >>
           t == << Element("cue_timestamp_zero", n, x), Element("cue_index", n, y), Set("LastEventIndex", z) >>
<1>3. IsScript(w, s) /\ IsScript(w, t) /\ EventCue(c, M, n, m, t0) = s \o When(condition, t)
  BY <1>2, StepNamed, StepOther, Script2, Script3
<1> HIDE DEF s, t
<1> QED BY <1>3, ScriptWhen, ScriptsJoined

\* The cue part of ADAr, NDAr and ns10.
LEMMA CounterCueScript ==
  ASSUME NEW w, NEW c, NEW F, NEW M, NEW n, NEW time
  PROVE  IsScript(w, CounterCue(c, F, M, n, time))
<1> DEFINE s == << Set("CueCounter", M.CueCounter + 1), Element("cue_index", n, RowNumber(Extent(F, "time"))),
                   Element("cue_timestamp_zero", n, time), Set("CueCounter", 0) >>
           t == << Set("CueCounter", M.CueCounter + 1) >>
<1>1. CounterCue(c, F, M, n, time) = IF M.CueCounter + 1 = c.interval THEN s ELSE t
  BY DEF CounterCue
<1>2. IsScript(w, s)
  BY StepNamed, StepOther, Script4
<1>3. IsScript(w, t)
  BY StepOther, Script1
<1> HIDE DEF s, t
<1> QED BY <1>1, <1>2, <1>3
\* The pulse data of ev42, or as many zeros.
LEMMA AdcScript ==
  ASSUME NEW w, NEW n, NEW m, IsList(m.tof), \A i \in DOMAIN AdcDatasets : IsList(m.adc[i])
  PROVE  IsScript(w, writeAdcPulseData(n, m))
<1> DEFINE zeros == [j \in DOMAIN m.tof |-> 0]
<1>1. IsList(zeros)
  <2>1. Len(m.tof) \in Nat /\ DOMAIN m.tof = 1..Len(m.tof)
    BY ListLength
  <2>2. zeros = [i \in 1..Len(m.tof) |-> zeros[i]]
    BY <2>1
  <2> HIDE DEF zeros
  <2> QED BY <2>1, <2>2, ListMade
<1>2. /\ Len(AdcDatasets) = 5 /\ DOMAIN AdcDatasets = 1..5 /\ 5 \in Nat
      /\ \A i \in 1..5 : AdcDatasets[i] # "value"
  BY DEF AdcDatasets
<1>3. ASSUME NEW xs, \A i \in 1..5 : IsList(xs[i])
      PROVE  IsScript(w, [i \in DOMAIN AdcDatasets |-> Array(AdcDatasets[i], n, xs[i])])
  <2> DEFINE s == [i \in DOMAIN AdcDatasets |-> Array(AdcDatasets[i], n, xs[i])]
             S == {Array(AdcDatasets[i], n, xs[i]) : i \in 1..5}
  <2>1. \A i \in 1..5 : StepOK(w, Array(AdcDatasets[i], n, xs[i]))
    <3>1. \A i \in 1..5 : ~Wide(w, AdcDatasets[i])
      BY <1>2 DEF Wide
    <3> QED BY <1>3, <3>1, StepArray
  <2>2. s = [i \in 1..5 |-> s[i]] /\ \A i \in 1..5 : s[i] \in S
    BY <1>2
  <2>3. \A x \in S : StepOK(w, x)
    BY <2>1
  <2> HIDE DEF s, S
  <2>4. s \in Seq(S)
    BY <2>2
  <2>5. IsScript(w, s)
    BY <2>3, <2>4, ScriptOf
  <2> QED BY <2>5 DEF s
<1> HIDE DEF zeros
<1>4. IsScript(w, writeAdcPulseDataFromMessageToFile(n, m))
  BY <1>2, <1>3 DEF writeAdcPulseDataFromMessageToFile
<1>5. IsScript(w, padDatasetsWithZeroesEqualToNumberOfEvents(n, m))
  <2> DEFINE all == [i \in 1..5 |-> zeros]
             s == [i \in DOMAIN AdcDatasets |-> Array(AdcDatasets[i], n, all[i])]
  <2>1. \A i \in 1..5 : all[i] = zeros
    OBVIOUS
  <2>2. padDatasetsWithZeroesEqualToNumberOfEvents(n, m) = s
    BY <1>2, <2>1 DEF padDatasetsWithZeroesEqualToNumberOfEvents, zeros
  <2> HIDE DEF all
  <2>3. IsScript(w, s)
    BY <1>1, <1>3, <2>1
  <2> QED BY <2>2, <2>3
<1> QED BY <1>4, <1>5 DEF writeAdcPulseData

\* ev42: offsets, ids, the pulse, its cue and the pulse data.
LEMMA ev42_Script ==
  ASSUME NEW w, NEW c, NEW F, NEW M, NEW n, NEW m, IsList(m.tof), IsList(m.id),
         \A i \in DOMAIN AdcDatasets : IsList(m.adc[i])
  PROVE  IsScript(w, ev42_write(c, F, M, n, m))
<1> DEFINE a == << Array("event_time_offset", n, m.tof), Array("event_id", n, m.id),
                   Element("event_time_zero", n, m.t) >>
           b == EventCue(c, M, n, m, m.t)
           d == When(c.adc, writeAdcPulseData(n, m))
           e == << Set("EventsMetadata", M.EventsWritten + Len(m.id)) >>
<1>1. IsScript(w, a)
  <2>1. ~Wide(w, "event_time_offset") /\ ~Wide(w, "event_id")
    BY DEF Wide
  <2> QED BY <2>1, StepArray, StepNamed, Script3
<1>2. IsScript(w, b) /\ IsScript(w, d) /\ IsScript(w, e)
  BY EventCueScript, AdcScript, ScriptWhen, StepOther, Script1
<1>3. ev42_write(c, F, M, n, m) = a \o b \o d \o e
  BY DEF ev42_write
<1> HIDE DEF a, b, d, e
<1> QED BY <1>1, <1>2, <1>3, ScriptsJoined

\* ev44: offsets, ids, the pulses and the cue.
LEMMA ev44_Script ==
  ASSUME NEW w, NEW c, NEW F, NEW M, NEW n, NEW m,
         IsList(m.tof), IsList(m.id), IsList(m.ref), IsList(m.refIndex)
  PROVE  IsScript(w, ev44_write(c, F, M, n, m))
<1> DEFINE a == << Array("event_time_offset", n, m.tof), Array("event_id", n, m.id),
                   Array("event_time_zero", n, m.ref), Array("event_time_zero_index", n, m.refIndex) >>
           b == EventCue(c, M, n, m, At(m.ref, 1))
           e == << Set("EventsMetadata", M.EventsWritten + Len(m.id)) >>
<1>1. IsScript(w, a)
  <2>1. /\ ~Wide(w, "event_time_offset") /\ ~Wide(w, "event_id")
        /\ ~Wide(w, "event_time_zero") /\ ~Wide(w, "event_time_zero_index")
    BY DEF Wide
  <2> QED BY <2>1, StepArray, Script4
<1>2. IsScript(w, b) /\ IsScript(w, e)
  BY EventCueScript, StepOther, Script1
<1>3. ev44_write(c, F, M, n, m) = a \o b \o e
  BY DEF ev44_write
<1> HIDE DEF a, b, e
<1> QED BY <1>1, <1>2, <1>3, ScriptsJoined

\* The conversion keeps the length of a list.
LEMMA ConvertedList ==
  ASSUME NEW type, NEW xs, IsList(xs)
  PROVE  IsList(ConvertAll(type, xs)) /\ Len(ConvertAll(type, xs)) = Len(xs)
<1> DEFINE s == ConvertAll(type, xs)
           L == Len(xs)
<1>1. L \in Nat /\ DOMAIN xs = 1..L
  BY ListLength
<1>2. s = [i \in 1..L |-> s[i]]
  BY <1>1 DEF ConvertAll
<1> HIDE DEF s, L
<1>3. IsList(s) /\ Len(s) = L
  BY <1>1, <1>2, ListMade
<1> QED BY <1>3 DEF s, L

\* se00 and senv: the values are an array, their dataset has one dimension.
LEMMA WaveformScript ==
  ASSUME NEW w, w \in {"se00", "senv"}, NEW cases, NEW configured, NEW F, NEW M, NEW n, NEW m,
         IsList(m.vals), IsList(m.times)
  PROVE  IsScript(w, WaveformSteps(cases, configured, F, M, n, m))
<1> DEFINE values == IF m.elem \in cases THEN ConvertAll(configured, m.vals) ELSE << >>
           stamps == GenerateTimeStamps(m.t, m.delta, Len(values))
           last == IF m.hasTimes THEN Array("time", n, m.times) ELSE Vector("time", n, stamps)
           a == CheckType(M, cases, configured, m.elem)
           b == << Array("value", n, values) >>
           d == << Element("cue_index", n, CastRowNumber(Extent(F, "value"))), Element("cue_timestamp_zero", n, m.t), last >>
<1>1. ~Wide(w, "value") /\ ~Wide(w, "time")
  BY DEF Wide
<1>2. IsList(values)
  <2>1. IsList(<< >>)
    BY Script0 DEF IsScript
  <2> QED BY <2>1, ConvertedList
<1>3. IsList(stamps)
  <2>1. Len(values) \in Nat
    BY <1>2, ListLength
  <2>2. stamps = [i \in 1..Len(values) |-> stamps[i]]
    BY DEF GenerateTimeStamps
  <2> HIDE DEF stamps, values
  <2> QED BY <2>1, <2>2, ListMade
<1>4. WaveformSteps(cases, configured, F, M, n, m) = a \o b \o When(values # << >>, d)
  BY Zenon DEF WaveformSteps
<1> HIDE DEF values, stamps
<1>5. StepOK(w, last)
  BY <1>1, <1>3, StepArray
<1>6. IsScript(w, a) /\ IsScript(w, b)
  BY <1>1, <1>2, CheckTypeScript, StepArray, Script1
<1> HIDE DEF last
<1>7. IsScript(w, d)
  BY <1>5, StepNamed, Script3
<1> HIDE DEF a, b, d
<1> QED BY <1>4, <1>6, <1>7, ScriptWhen, ScriptsJoined

\* tdct: a cue for the first time stamp, then all of them.
LEMMA tdct_Script ==
  ASSUME NEW w, NEW c, NEW F, NEW M, NEW n, NEW m, IsList(m.times)
  PROVE  IsScript(w, tdct_write(c, F, M, n, m))
<1>1. ~Wide(w, "time")
  BY DEF Wide
<1>2. IsScript(w, << Element("cue_index", n, CastRowNumber(Extent(F, "time"))),
                     Element("cue_timestamp_zero", n, m.times[1]), Array("time", n, m.times) >>)
  BY <1>1, StepNamed, StepArray, Script3
<1> QED BY <1>2, ScriptWhen DEF tdct_write
\* ADAr and NDAr: images are rows.
LEMMA AreaScripts ==
  ASSUME NEW w, NEW c, NEW F, NEW M, NEW n, NEW m
  PROVE  IsScript(w, ADAr_write(c, F, M, n, m)) /\ IsScript(w, NDAr_write(c, F, M, n, m))
<1> DEFINE t == << Throw >>
<1>1. IsScript(w, t)
  BY StepOther, Script1
<1>2. ASSUME NEW time PROVE IsScript(w, << Row("value", n, <<m.t>>, m.shape), Element("time", n, time) >>)
  BY StepOther, StepNamed, Script2
<1>3. ASSUME NEW time
      PROVE  IsScript(w, << Row("value", n, <<m.t>>, m.shape), Element("time", n, time) >>
                           \o CounterCue(c, F, M, n, time))
  <2> DEFINE s == << Row("value", n, <<m.t>>, m.shape), Element("time", n, time) >>
  <2>1. IsScript(w, s)
    BY <1>2
  <2> HIDE DEF s
  <2>2. IsScript(w, s \o CounterCue(c, F, M, n, time))
    BY <2>1, CounterCueScript, ScriptsJoined
  <2> QED BY <2>2 DEF s
<1>4. IsScript(w, ADAr_write(c, F, M, n, m))
  <2> DEFINE a == CheckType(M, Ints \cup Floats, ADAr_config_post_processing(c), m.elem)
             b == << Row("value", n, <<m.t>>, m.shape), Element("time", n, m.t) >> \o CounterCue(c, F, M, n, m.t)
             e == IF m.elem \notin AreaTypes THEN t ELSE b
  <2>1. ADAr_write(c, F, M, n, m) = a \o e
    BY Zenon DEF ADAr_write
  <2>2. IsScript(w, a) /\ IsScript(w, b)
    BY <1>3, CheckTypeScript
  <2> HIDE DEF a, b, t
  <2>3. IsScript(w, e)
    BY <1>1, <2>2
  <2> HIDE DEF e
  <2> QED BY <2>1, <2>2, <2>3, ScriptsJoined
<1>5. IsScript(w, NDAr_write(c, F, M, n, m))
  <2> DEFINE time == epicsTimeToNsec(m.t, 1)
             b == << Row("value", n, <<m.t>>, m.shape), Element("time", n, time) >> \o CounterCue(c, F, M, n, time)
  <2>1. NDAr_write(c, F, M, n, m) = IF m.elem \notin AreaTypes \ {"int64", "uint64"} THEN t ELSE b
    BY Zenon DEF NDAr_write
  <2> HIDE DEF time
  <2>2. IsScript(w, b)
    BY <1>3
  <2> HIDE DEF b, t
  <2> QED BY <1>1, <2>1, <2>2
<1> QED BY <1>4, <1>5

\* ns10: one value per message.
LEMMA ns10_Script ==
  ASSUME NEW c, NEW F, NEW M, NEW n, NEW m
  PROVE  IsScript("ns10", ns10_write(c, F, M, n, m))
<1> DEFINE t == << Throw >>
           s == << Element("value", n, 1), Element("time", n, NSecMultiplier * m.t) >>
           e == s \o CounterCue(c, F, M, n, m.t)
<1>1. IsScript("ns10", t)
  BY StepOther, Script1
<1>2. IsScript("ns10", s)
  <2>1. ~Wide("ns10", "value")
    BY DEF Wide
  <2> QED BY <2>1, StepElement, StepNamed, Script2
<1>3. ns10_write(c, F, M, n, m) = IF ~m.complete \/ ~m.isNumber THEN t ELSE e
  BY Zenon DEF ns10_write
<1> HIDE DEF s, t
<1>4. IsScript("ns10", e)
  BY <1>2, CounterCueScript, ScriptsJoined
<1> HIDE DEF e
<1> QED BY <1>1, <1>3, <1>4

\* ep00, ep01 and al00.
LEMMA StatusScripts ==
  ASSUME NEW w, NEW c, NEW F, NEW M, NEW n, NEW m
  PROVE  /\ IsScript(w, ep00_write(c, F, M, n, m)) /\ IsScript(w, ep01_write(c, F, M, n, m))
         /\ IsScript(w, al00_write(c, F, M, n, m))
<1>1. IsScript(w, << Element("connection_status", n, m.status), Element("connection_status_time", n, m.t) >>)
  BY StepNamed, Script2
<1>2. ASSUME NEW x
      PROVE  IsScript(w, << Element("alarm_time", n, m.t), Element("alarm_severity", n, m.severity),
                            Element("alarm_message", n, x) >>)
  BY StepNamed, Script3
<1> QED BY <1>1, <1>2 DEF ep00_write, ep01_write, al00_write

\* The time stamp leaves the vectors of a message alone.
LEMMA StampedVectors ==
  ASSUME NEW w \in Kinds, NEW m \in Messages(w), NEW t, NEW x \in VectorFields(w)
  PROVE  IsList(Stamped(m, t)[x]) /\ Stamped(m, t)[x] = m[x]
<1>1. x \in DOMAIN m /\ m[x] \in Seq(IF x = "vals" THEN Int ELSE Nat)
  BY MessagesAssumption
<1>2. x # "t"
  BY KindsAssumption DEF VectorFields
<1>3. Stamped(m, t)[x] = m[x]
  BY <1>1, <1>2 DEF Stamped
<1> QED BY <1>1, <1>3, ListOf

\* So it does the pulse data and what tells whether there are time stamps.
LEMMA StampedFields ==
  ASSUME NEW w \in Kinds, NEW m \in Messages(w), NEW t
  PROVE  /\ w = "ev42" => \A i \in DOMAIN AdcDatasets : IsList(Stamped(m, t).adc[i])
         /\ w \in {"se00", "senv"} => Stamped(m, t).hasTimes = m.hasTimes
<1>1. ASSUME w = "ev42" PROVE \A i \in DOMAIN AdcDatasets : IsList(Stamped(m, t).adc[i])
  <2>1. "adc" \in DOMAIN m /\ m.adc \in [DOMAIN AdcDatasets -> Seq(Nat)]
    BY <1>1, MessagesAssumption
  <2>2. Stamped(m, t).adc = m.adc
    BY <2>1 DEF Stamped
  <2>3. \A i \in DOMAIN AdcDatasets : m.adc[i] \in Seq(Nat)
    BY <2>1
  <2> QED BY <2>2, <2>3, ListOf
<1>2. ASSUME w \in {"se00", "senv"} PROVE Stamped(m, t).hasTimes = m.hasTimes
  <2>1. "hasTimes" \in DOMAIN m
    BY <1>2, MessagesAssumption
  <2> QED BY <2>1 DEF Stamped
<1> QED BY <1>1, <1>2

\* write() of every module is a script.
LEMMA WriteScript ==
  ASSUME kind \in Kinds, NEW m \in Messages(kind), NEW t
  PROVE  IsScript(kind, write(kind, Stamped(m, t)))
<1> DEFINE msg == Stamped(m, t)
<1>0. \A x \in VectorFields(kind) : IsList(msg[x])
  BY StampedVectors
<1>a. kind = "ev42" => \A i \in DOMAIN AdcDatasets : IsList(msg.adc[i])
  BY StampedFields
<1> HIDE DEF msg
<1>1. CASE kind \in {"f144", "f142"}
  BY <1>1, LogWrites DEF write
<1>2. CASE kind = "ev42"
  <2>1. IsList(msg.tof) /\ IsList(msg.id)
    BY <1>0, <1>2 DEF VectorFields
  <2>2. write(kind, msg) = ev42_write(cfg, file, mem, k + 1, msg)
    BY <1>2 DEF write
  <2> QED BY <1>2, <1>a, <2>1, <2>2, ev42_Script DEF msg
<1>3. CASE kind = "ev44"
  <2>1. IsList(msg.tof) /\ IsList(msg.id) /\ IsList(msg.ref) /\ IsList(msg.refIndex)
    BY <1>0, <1>3 DEF VectorFields
  <2>2. write(kind, msg) = ev44_write(cfg, file, mem, k + 1, msg)
    BY <1>3 DEF write
  <2> QED BY <2>1, <2>2, ev44_Script DEF msg
<1>4. CASE kind \in {"se00", "senv"}
  <2>1. IsList(msg.vals) /\ IsList(msg.times)
    BY <1>0, <1>4 DEF VectorFields
  <2>2. \/ write(kind, msg) = se00_write(cfg, file, mem, k + 1, msg)
        \/ write(kind, msg) = senv_write(cfg, file, mem, k + 1, msg)
    BY <1>4 DEF write
  <2> QED BY <1>4, <2>1, <2>2, WaveformScript DEF msg, se00_write, senv_write
<1>5. CASE kind = "tdct"
  <2>1. IsList(msg.times)
    BY <1>0, <1>5 DEF VectorFields
  <2>2. write(kind, msg) = tdct_write(cfg, file, mem, k + 1, msg)
    BY <1>5 DEF write
  <2> QED BY <2>1, <2>2, tdct_Script DEF msg
<1>6. CASE kind \in {"ADAr", "NDAr"}
  BY <1>6, AreaScripts DEF write
<1>7. CASE kind = "ns10"
  BY <1>7, ns10_Script DEF write
<1>8. CASE kind \in {"ep00", "ep01", "al00"}
  BY <1>8, StatusScripts DEF write
<1> QED BY <1>1, <1>2, <1>3, <1>4, <1>5, <1>6, <1>7, <1>8, KindsAssumption
-----------------------------------------------------------------------------
(* Creating and opening the datasets                                       *)

\* What init_hdf creates: names with the datasets.
IsNew(w, ds, d) == DatasetOK(w, ds, d) /\ d.rows = << >> /\ d.n = 0
AreDatasets(w, s) == IsList(s) /\ \A p \in Range(s) : IsNew(w, p[1], p[2])

\* A new dataset is empty.
LEMMA NewDatasets ==
  ASSUME NEW w, NEW ds
  PROVE  /\ \A c : IsNew(w, ds, ExtensibleDataset(c))
         /\ Wide(w, ds) => \A shape, chunk : IsNew(w, ds, MultiDimDataset(shape, chunk))
<1>0. IsList(<< >>)
  BY Script0 DEF IsScript
<1>1. ASSUME NEW d, d.rows = << >>, d.n = 0, DOMAIN d = {"rows", "n", "dims", "chunk"},
             d.dims # << >> => Wide(w, ds)
      PROVE  IsNew(w, ds, d)
  <2>1. Len(d.rows) = 0
    BY <1>1
  <2>2. IsList(d.rows)
    BY <1>0, <1>1
  <2> QED BY <1>1, <2>1, <2>2 DEF IsNew, DatasetOK
<1>2. ASSUME NEW c PROVE IsNew(w, ds, ExtensibleDataset(c))
  <2>1. /\ ExtensibleDataset(c).rows = << >> /\ ExtensibleDataset(c).n = 0
        /\ ExtensibleDataset(c).dims = << >>
        /\ DOMAIN ExtensibleDataset(c) = {"rows", "n", "dims", "chunk"}
    BY DEF ExtensibleDataset
  <2> QED BY <1>1, <2>1
<1>3. ASSUME Wide(w, ds), NEW shape, NEW chunk PROVE IsNew(w, ds, MultiDimDataset(shape, chunk))
  <2>1. /\ MultiDimDataset(shape, chunk).rows = << >> /\ MultiDimDataset(shape, chunk).n = 0
        /\ DOMAIN MultiDimDataset(shape, chunk) = {"rows", "n", "dims", "chunk"}
    BY DEF MultiDimDataset
  <2> QED BY <1>1, <1>3, <2>1
<1> QED BY <1>2, <1>3

\* Datasets of one dimension, one per name.
LEMMA EventDatasetsMade ==
  ASSUME NEW w, NEW c, NEW names, IsList(names)
  PROVE  AreDatasets(w, EventDatasets(c, names))
<1> DEFINE s == EventDatasets(c, names)
           n == Len(names)
<1>0. n \in Nat /\ DOMAIN names = 1..n
  BY ListLength
<1>1. s = [i \in 1..n |-> s[i]] /\ \A i \in 1..n : s[i] = <<names[i], ExtensibleDataset(c.chunk[1])>>
  BY <1>0 DEF EventDatasets
<1>2. ASSUME NEW i \in 1..n PROVE IsNew(w, s[i][1], s[i][2])
  <2> DEFINE d == ExtensibleDataset(c.chunk[1])
  <2>1. IsNew(w, names[i], d)
    BY NewDatasets
  <2>2. s[i] = <<names[i], d>>
    BY <1>1
  <2> HIDE DEF s, d
  <2> QED BY <2>1, <2>2
<1> HIDE DEF s, n
<1>3. IsList(s) /\ DOMAIN s = 1..n
  BY <1>0, <1>1, ListMade
<1>4. AreDatasets(w, s)
  BY <1>2, <1>3 DEF AreDatasets, Range
<1> QED BY <1>4 DEF s

\* Datasets of two lists.
LEMMA DatasetsJoined ==
  ASSUME NEW w, NEW s, NEW t, AreDatasets(w, s), AreDatasets(w, t)
  PROVE  AreDatasets(w, s \o t)
<1>1. IsList(s \o t) /\ Range(s \o t) \subseteq Range(s) \cup Range(t)
  BY ListsJoined DEF AreDatasets
<1> QED BY <1>1 DEF AreDatasets

\* A list of well-formed datasets.
LEMMA DatasetsOf ==
  ASSUME NEW w, NEW S, NEW s \in Seq(S), \A p \in S : IsNew(w, p[1], p[2])
  PROVE  AreDatasets(w, s)
BY ListOf DEF AreDatasets

\* The datasets of log data and of area detectors.
LEMMA WideDatasetsMade ==
  ASSUME NEW w, w \in {"f144", "f142", "ADAr", "NDAr"}, NEW c
  PROVE  /\ AreDatasets(w, f144_init_hdf(c)) /\ AreDatasets(w, f142_init_hdf(c))
         /\ AreDatasets(w, ADAr_init_hdf(c)) /\ AreDatasets(w, NDAr_init_hdf(c))
<1>1. Wide(w, "value")
  BY DEF Wide
<1>2. ASSUME NEW d, NEW e, NEW f, NEW g, IsNew(w, d[1], d[2]), IsNew(w, e[1], e[2]),
             IsNew(w, f[1], f[2]), IsNew(w, g[1], g[2])
      PROVE  AreDatasets(w, <<d, e, f, g>>) /\ AreDatasets(w, <<d, e, f>>)
  <2> DEFINE S == {d, e, f, g}
             s == <<d, e, f, g>>
             t == <<d, e, f>>
  <2>1. s \in Seq(S) /\ t \in Seq(S) /\ \A p \in S : IsNew(w, p[1], p[2])
    BY <1>2
  <2> HIDE DEF S, s, t
  <2>2. AreDatasets(w, s) /\ AreDatasets(w, t)
    BY <2>1, DatasetsOf
  <2> QED BY <2>2 DEF s, t
<1>3. ASSUME NEW label, NEW size
      PROVE  LET p == <<label, ExtensibleDataset(size)>> IN IsNew(w, p[1], p[2])
  BY NewDatasets
<1>4. ASSUME NEW shape, NEW chunk
      PROVE  LET p == <<"value", MultiDimDataset(shape, chunk)>> IN IsNew(w, p[1], p[2])
  BY <1>1, NewDatasets
<1>5. AreDatasets(w, f144_init_hdf(c))
  BY <1>2, <1>3, <1>4 DEF f144_init_hdf
<1>6. AreDatasets(w, f142_init_hdf(c))
  <2> DEFINE s == << <<"alarm_time", ExtensibleDataset(1024)>>, <<"alarm_status", ExtensibleDataset(1024)>>,
                     <<"alarm_severity", ExtensibleDataset(1024)>> >>
  <2>1. AreDatasets(w, s)
    <3> DEFINE d == <<"alarm_time", ExtensibleDataset(1024)>>
               e == <<"alarm_status", ExtensibleDataset(1024)>>
               f == <<"alarm_severity", ExtensibleDataset(1024)>>
    <3>1. IsNew(w, d[1], d[2]) /\ IsNew(w, e[1], e[2]) /\ IsNew(w, f[1], f[2])
      BY <1>3
    <3>2. s = <<d, e, f>>
      OBVIOUS
    <3> HIDE DEF d, e, f, s
    <3> QED BY <1>2, <3>1, <3>2
  <2>2. f142_init_hdf(c) = f144_init_hdf(c) \o s
    BY DEF f142_init_hdf
  <2> HIDE DEF s
  <2> QED BY <1>5, <2>1, <2>2, DatasetsJoined
<1>7. AreDatasets(w, AreaDatasets(c))
  BY <1>2, <1>3, <1>4 DEF AreaDatasets
<1>8. AreDatasets(w, << >>)
  <2> DEFINE S == {}
             s == << >>
  <2>1. s \in Seq(S) /\ \A p \in S : IsNew(w, p[1], p[2])
    OBVIOUS
  <2> HIDE DEF S, s
  <2>2. AreDatasets(w, s)
    BY <2>1, DatasetsOf
  <2> QED BY <2>2 DEF s
<1> QED BY <1>5, <1>6, <1>7, <1>8 DEF ADAr_init_hdf, NDAr_init_hdf, When

\* Names of datasets that have one dimension in some module.
DatasetNames ==
  {"event_time_offset", "event_id", "event_time_zero", "event_time_zero_index", "event_index",
   "cue_index", "cue_timestamp_zero", "adc_pulse_amplitude", "adc_pulse_peak_area",
   "adc_pulse_background", "adc_pulse_threshold_time", "adc_pulse_peak_time", "value", "time",
   "connection_status_time", "connection_status", "alarm_message", "alarm_time", "alarm_severity"}

\* init_hdf of every module creates empty datasets, and only that of the values
\* may have more than one dimension.
LEMMA DatasetsMade ==
  ASSUME kind \in Kinds
  PROVE  AreDatasets(kind, init_hdf(kind, cfg))
<1>1. CASE kind \in {"f144", "f142", "ADAr", "NDAr"}
  BY <1>1, WideDatasetsMade DEF init_hdf
<1>2. CASE kind = "ev42"
  <2> DEFINE names == <<"event_time_offset", "event_id", "event_time_zero", "event_index",
                        "cue_index", "cue_timestamp_zero">>
             more == When(cfg.adc, AdcDatasets)
  <2>1. names \in Seq(DatasetNames) /\ more \in Seq(DatasetNames)
    <3>1. names \in Seq(DatasetNames)
      BY DEF DatasetNames
    <3>2. AdcDatasets \in Seq(DatasetNames)
      BY DEF AdcDatasets, DatasetNames
    <3>3. << >> \in Seq(DatasetNames)
      OBVIOUS
    <3> QED BY <3>1, <3>2, <3>3 DEF When
  <2>2. init_hdf(kind, cfg) = EventDatasets(cfg, names \o more)
    BY <1>2 DEF init_hdf, ev42_init_hdf
  <2> HIDE DEF names, more
  <2>3. names \o more \in Seq(DatasetNames)
    BY <2>1
  <2>4. IsList(names \o more)
    BY <2>3, ListOf
  <2> QED BY <2>2, <2>4, EventDatasetsMade
<1>3. CASE kind = "ev44"
  <2> DEFINE names == <<"event_time_offset", "event_id", "event_time_zero",
                        "event_time_zero_index", "event_index", "cue_index", "cue_timestamp_zero">>
  <2>1. IsList(names)
    <3>1. names \in Seq(DatasetNames)
      BY DEF DatasetNames
    <3> HIDE DEF names
    <3> QED BY <3>1, ListOf
  <2>2. init_hdf(kind, cfg) = EventDatasets(cfg, names)
    BY <1>3 DEF init_hdf, ev44_init_hdf
  <2> HIDE DEF names
  <2> QED BY <2>1, <2>2, EventDatasetsMade
<1>4. CASE kind \in {"se00", "senv", "tdct"}
  <2> DEFINE first == <<"value">>
             names == <<"time", "cue_index", "cue_timestamp_zero">>
             s == EventDatasets(cfg, first)
             t == EventDatasets(cfg, names)
  <2>1. IsList(first) /\ IsList(names)
    <3>1. first \in Seq(DatasetNames) /\ names \in Seq(DatasetNames)
      BY DEF DatasetNames
    <3> HIDE DEF first, names
    <3> QED BY <3>1, ListOf
  <2>2. init_hdf(kind, cfg) = t \/ init_hdf(kind, cfg) = s \o t
    <3>1. \/ init_hdf(kind, cfg) = se00_init_hdf(cfg) \/ init_hdf(kind, cfg) = senv_init_hdf(cfg)
          \/ init_hdf(kind, cfg) = tdct_init_hdf(cfg)
      BY <1>4 DEF init_hdf
    <3> QED BY <3>1, Zenon DEF se00_init_hdf, senv_init_hdf, tdct_init_hdf, se00_initValueDataset, senv_initValueDataset
  <2> HIDE DEF first, names
  <2>3. AreDatasets(kind, s) /\ AreDatasets(kind, t)
    BY <2>1, EventDatasetsMade
  <2> HIDE DEF s, t
  <2> QED BY <2>2, <2>3, DatasetsJoined
<1>5. CASE kind = "ns10"
  <2> DEFINE names == <<"value", "time", "cue_index", "cue_timestamp_zero">>
  <2>1. IsList(names)
    <3>1. names \in Seq(DatasetNames)
      BY DEF DatasetNames
    <3> HIDE DEF names
    <3> QED BY <3>1, ListOf
  <2>2. init_hdf(kind, cfg) = EventDatasets(cfg, names)
    BY <1>5 DEF init_hdf, ns10_init_hdf
  <2> HIDE DEF names
  <2> QED BY <2>1, <2>2, EventDatasetsMade
<1>6. CASE kind \in {"ep00", "ep01", "al00"}
  <2> DEFINE names == <<"connection_status_time", "connection_status">>
             alarms == <<"alarm_message", "alarm_time", "alarm_severity">>
             c == [chunk |-> <<1024>>]
  <2>1. IsList(names) /\ IsList(alarms)
    <3>1. names \in Seq(DatasetNames) /\ alarms \in Seq(DatasetNames)
      BY DEF DatasetNames
    <3> HIDE DEF names, alarms
    <3> QED BY <3>1, ListOf
  <2>2. \/ init_hdf(kind, cfg) = EventDatasets(cfg, names)
        \/ init_hdf(kind, cfg) = EventDatasets(c, names)
        \/ init_hdf(kind, cfg) = EventDatasets(c, alarms)
    <3>1. \/ init_hdf(kind, cfg) = ep00_init_hdf(cfg) \/ init_hdf(kind, cfg) = ep01_init_hdf(cfg)
          \/ init_hdf(kind, cfg) = al00_init_hdf(cfg)
      BY <1>6 DEF init_hdf
    <3> QED BY <3>1, Zenon DEF ep00_init_hdf, ep01_init_hdf, al00_init_hdf
  <2> HIDE DEF names, alarms, c
  <2> QED BY <2>1, <2>2, EventDatasetsMade
<1> QED BY <1>1, <1>2, <1>3, <1>4, <1>5, <1>6, KindsAssumption
-----------------------------------------------------------------------------
(* No append destroys a completed row                                      *)

\* Before init_hdf there is no dataset; afterwards every dataset has at least
\* the rows its object counts, and more than one dimension only where rows are
\* appended.
WriterInv ==
  /\ kind \in Kinds
  /\ phase = "configured" => DOMAIN file = {}
  /\ FileOK(kind, file)

\* What CompletedRowsStay says of one step.
RowsKept(F, G) ==
  \A ds \in DOMAIN F : LET done == IF F[ds].dims = << >> THEN F[ds].n ELSE Len(F[ds].rows)
                       IN  /\ Len(G[ds].rows) >= done
                           /\ \A i \in 1..done : G[ds].rows[i] = F[ds].rows[i]

\* What the appends keep is enough for it.
LEMMA KeptRows ==
  ASSUME NEW w, NEW F, NEW G, FileOK(w, F), FilesKeep(w, F, G)
  PROVE  RowsKept(F, G)
<1>1. ASSUME NEW ds \in DOMAIN F
      PROVE  LET done == IF F[ds].dims = << >> THEN F[ds].n ELSE Len(F[ds].rows)
             IN  /\ Len(G[ds].rows) >= done
                 /\ \A i \in 1..done : G[ds].rows[i] = F[ds].rows[i]
  <2> DEFINE d == F[ds]
             e == G[ds]
             done == IF d.dims = << >> THEN d.n ELSE Len(d.rows)
  <2>1. DatasetOK(w, ds, d) /\ Keeps(w, ds, d, e)
    BY DEF FileOK, FilesKeep
  <2> HIDE DEF d, e
  <2>2. /\ Len(d.rows) \in Nat /\ d.n \in Nat /\ d.n <= Len(d.rows)
        /\ Len(e.rows) \in Nat /\ e.n \in Nat /\ e.n <= Len(e.rows)
    BY <2>1, ListLength DEF Keeps, DatasetOK
  <2>3. done \in Nat /\ done <= DoneRows(w, ds, d)
    BY <2>1, <2>2 DEF DatasetOK, DoneRows
  <2>4. DoneRows(w, ds, d) \in Nat /\ DoneRows(w, ds, d) <= Len(e.rows)
    BY <2>1, <2>2 DEF Keeps, DoneRows
  <2> HIDE DEF done
  <2>5. Len(e.rows) >= done /\ \A i \in 1..done : e.rows[i] = d.rows[i]
    BY <2>1, <2>2, <2>3, <2>4 DEF Keeps
  <2> QED BY <2>5 DEF done, d, e
<1> QED BY <1>1 DEF RowsKept

\* The datasets that init_hdf has created when it ends, at whichever of them.
LEMMA InitHDFKeeps ==
  ASSUME WriterInv, InitHDF
  PROVE  WriterInv' /\ RowsKept(file, file')
<1> DEFINE order == init_hdf(kind, cfg)
<1>1. PICK n \in 0..Len(order) :
        file' = [ds \in {order[i][1] : i \in 1..n} |-> (CHOOSE p \in {order[i] : i \in 1..n} : p[1] = ds)[2]]
  BY DEF InitHDF
<1>2. AreDatasets(kind, order)
  BY DatasetsMade DEF WriterInv
<1>3. kind' = kind /\ phase' # "configured" /\ phase = "configured"
  BY DEF InitHDF
<1> HIDE DEF order
<1>4. Len(order) \in Nat /\ \A i \in 1..Len(order) : DatasetOK(kind, order[i][1], order[i][2])
  BY <1>2, ListLength, ListMember DEF AreDatasets, IsNew
<1>5. FileOK(kind, file')
  <2> DEFINE made == {order[i] : i \in 1..n}
             names == {order[i][1] : i \in 1..n}
             chosen(ds) == CHOOSE p \in made : p[1] = ds
  <2>1. \A p \in made : DatasetOK(kind, p[1], p[2])
    BY <1>4
  <2>2. ASSUME NEW ds \in names PROVE chosen(ds) \in made /\ chosen(ds)[1] = ds
    <3>1. \E p \in made : p[1] = ds
      OBVIOUS
    <3> HIDE DEF made
    <3> QED BY <3>1
  <2>3. file' = [ds \in names |-> chosen(ds)[2]]
    BY <1>1
  <2> HIDE DEF made, names, chosen
  <2>4. ASSUME NEW ds \in names PROVE DatasetOK(kind, ds, file'[ds])
    <3>1. DatasetOK(kind, ds, chosen(ds)[2])
      BY <2>1, <2>2
    <3> QED BY <2>3, <3>1
  <2>5. DOMAIN file' = names
    BY <2>3
  <2> QED BY <2>4, <2>5 DEF FileOK
<1>6. RowsKept(file, file')
  BY <1>3 DEF RowsKept, WriterInv
<1>7. WriterInv'
  BY <1>3, <1>5 DEF WriterInv, FileOK
<1> QED BY <1>6, <1>7

\* Opening a dataset changes its counter, not its rows.
LEMMA ReopenKeeps ==
  ASSUME WriterInv, Reopen
  PROVE  WriterInv' /\ RowsKept(file, file')
<1>1. /\ DOMAIN file' = DOMAIN file
      /\ \A ds \in DOMAIN file : \/ file'[ds] = file[ds]
                                 \/ file'[ds] = OpenBase(file[ds]) \/ file'[ds] = OpenDataset(file[ds])
  BY DEF Reopen
<1>2. kind' = kind /\ phase' # "configured"
  BY DEF Reopen
<1>3. ASSUME NEW ds \in DOMAIN file
      PROVE  DatasetOK(kind, ds, file'[ds]) /\ file'[ds].rows = file[ds].rows
  <2> DEFINE d == file[ds]
             e == file'[ds]
  <2>1. DatasetOK(kind, ds, d)
    BY DEF WriterInv, FileOK
  <2>2. e = d \/ e = OpenBase(d) \/ e = OpenDataset(d)
    BY <1>1
  <2> HIDE DEF d, e
  <2>3. Len(d.rows) \in Nat
    BY <2>1, ListLength DEF DatasetOK
  <2>4. /\ DOMAIN e = DOMAIN d /\ e.rows = d.rows /\ e.dims = d.dims
        /\ e.n \in {d.n, 0, Len(d.rows)}
    BY <2>1, <2>2 DEF OpenBase, OpenDataset, DatasetOK
  <2>5. DatasetOK(kind, ds, e)
    BY <2>1, <2>3, <2>4 DEF DatasetOK
  <2> QED BY <2>4, <2>5 DEF d, e
<1>4. FileOK(kind, file')
  BY <1>1, <1>3 DEF FileOK
<1>5. RowsKept(file, file')
  <2>1. ASSUME NEW ds \in DOMAIN file
        PROVE  Len(file[ds].rows) \in Nat /\ file[ds].n \in Nat /\ file[ds].n <= Len(file[ds].rows)
    BY ListLength DEF WriterInv, FileOK, DatasetOK
  <2> QED BY <1>3, <2>1 DEF RowsKept
<1>6. WriterInv'
  BY <1>2, <1>4 DEF WriterInv, FileOK
<1> QED BY <1>5, <1>6

\* write() executes a script, of which any append may fail.
LEMMA MessageKeeps ==
  ASSUME WriterInv, NEW m \in Messages(kind), Write(m)
  PROVE  WriterInv' /\ RowsKept(file, file')
<1> DEFINE script == write(kind, Stamped(m, 10 * (k + 1)))
<1>1. PICK f : file' = Execute(script, f[1], f[2]).file
  BY DEF Write
<1>2. kind' = kind /\ phase' # "configured"
  BY DEF Write
<1>3. IsScript(kind, script)
  BY WriteScript DEF WriterInv
<1> HIDE DEF script
<1>4. FilesKeep(kind, file, file')
  BY <1>1, <1>3, ExecuteKeeps DEF WriterInv
<1>5. FileOK(kind, file') /\ RowsKept(file, file')
  BY <1>4, FilesKeepOK, KeptRows DEF WriterInv
<1> QED BY <1>2, <1>5 DEF WriterInv, FileOK

\* Whatever messages arrive and whichever HDF5 calls fail, no step of a writer
\* module changes or removes a row that an earlier append completed.
THEOREM RowsStay == Spec => CompletedRowsStay
<1>1. Init => WriterInv
  <2> SUFFICES ASSUME Init PROVE WriterInv
    OBVIOUS
  <2>1. kind \in Kinds
    BY DEF Init
  <2>2. DOMAIN file = {}
    <3>1. file = << >>
      BY DEF Init
    <3> QED BY <3>1
  <2> QED BY <2>1, <2>2 DEF WriterInv, FileOK
<1>2. WriterInv /\ [Next]_vars => WriterInv'
  <2> SUFFICES ASSUME WriterInv, [Next]_vars PROVE WriterInv'
    OBVIOUS
  <2>1. ASSUME UNCHANGED vars PROVE WriterInv'
    BY <2>1 DEF vars, WriterInv, FileOK
  <2> QED BY <2>1, InitHDFKeeps, ReopenKeeps, MessageKeeps DEF Next
<1>3. WriterInv /\ [Next]_vars => [RowsKept(file, file')]_vars
  BY InitHDFKeeps, ReopenKeeps, MessageKeeps DEF Next
<1>4. [RowsKept(file, file')]_vars
      <=> [\A ds \in DOMAIN file : LET done == IF file[ds].dims = <<>> THEN file[ds].n ELSE Len(file[ds].rows)
                                   IN  /\ Len(file'[ds].rows) >= done
                                       /\ \A i \in 1..done : file'[ds].rows[i] = file[ds].rows[i]]_vars
  BY DEF RowsKept
<1> QED BY <1>1, <1>2, <1>3, <1>4, PTL DEF Spec, CompletedRowsStay
-----------------------------------------------------------------------------
(* What a complete write() adds to the datasets                            *)

\* From a to b by all steps of the script s, none of which throws.
IsPath(f, s) ==
  \A i \in 1..Len(s) : f[i] = DoStep(f[i - 1], s[i], "done") /\ ~f[i].threw
Leads(a, s, b) == \E f : f[0] = a /\ f[Len(s)] = b /\ IsPath(f, s)

\* Two lists in a row, element by element.
LEMMA JoinedMembers ==
  ASSUME NEW s, NEW t, IsList(s), IsList(t)
  PROVE  /\ IsList(s \o t) /\ Len(s) \in Nat /\ Len(t) \in Nat /\ Len(s \o t) = Len(s) + Len(t)
         /\ \A i \in 1..Len(s) : (s \o t)[i] = s[i]
         /\ \A i \in 1..Len(t) : (s \o t)[Len(s) + i] = t[i]
         /\ \A i \in 1..Len(s \o t) : i > Len(s) => (s \o t)[i] = t[i - Len(s)]
<1> DEFINE A == Range(s)
           B == Range(t)
           S == A \cup B
<1>1. s \in Seq(A) /\ t \in Seq(B)
  BY DEF IsList
<1>2. s \in Seq(S) /\ t \in Seq(S)
  <2> HIDE DEF A, B
  <2> QED BY <1>1
<1> HIDE DEF S
<1>3. /\ Len(s) \in Nat /\ Len(t) \in Nat /\ Len(s \o t) = Len(s) + Len(t)
      /\ \A i \in 1..Len(s) : (s \o t)[i] = s[i]
      /\ \A i \in 1..Len(t) : (s \o t)[Len(s) + i] = t[i]
      /\ \A i \in 1..Len(s \o t) : i > Len(s) => (s \o t)[i] = t[i - Len(s)]
  BY <1>2
<1> QED BY <1>3, ListsJoined

\* A script in two parts.
LEMMA PathSplit ==
  ASSUME NEW a, NEW s, NEW t, NEW c, IsList(s), IsList(t), Leads(a, s \o t, c)
  PROVE  \E b : Leads(a, s, b) /\ Leads(b, t, c)
<1> DEFINE m == Len(s)
           n == Len(t)
           st == s \o t
<1>1. /\ m \in Nat /\ n \in Nat /\ Len(st) = m + n
      /\ \A i \in 1..m : st[i] = s[i]
      /\ \A i \in 1..n : st[m + i] = t[i]
  BY JoinedMembers
<1>2. PICK f : f[0] = a /\ f[Len(st)] = c /\ IsPath(f, st)
  BY DEF Leads
<1> DEFINE g == [i \in 0..n |-> f[m + i]]
<1>3. IsPath(f, s)
  <2> HIDE DEF st
  <2>1. ASSUME NEW i \in 1..m PROVE f[i] = DoStep(f[i - 1], s[i], "done") /\ ~f[i].threw
    <3>1. i \in 1..Len(st) /\ st[i] = s[i]
      BY <1>1
    <3> QED BY <1>2, <3>1 DEF IsPath
  <2> QED BY <2>1 DEF IsPath
<1>4. IsPath(g, t)
  <2>1. ASSUME NEW i \in 1..n PROVE g[i] = DoStep(g[i - 1], t[i], "done") /\ ~g[i].threw
    <3>1. m + i \in 1..Len(st) /\ st[m + i] = t[i]
      BY <1>1
    <3>2. g[i] = f[m + i] /\ g[i - 1] = f[m + i - 1]
      BY <1>1
    <3> HIDE DEF g, st
    <3> QED BY <1>2, <3>1, <3>2 DEF IsPath
  <2> HIDE DEF g
  <2> QED BY <2>1 DEF IsPath
<1>5. g[0] = f[m] /\ g[n] = c
  BY <1>1, <1>2
<1> HIDE DEF g
<1> QED BY <1>2, <1>3, <1>4, <1>5 DEF Leads

\* No step, one step, and some of them.
LEMMA PathOne ==
  ASSUME NEW a, NEW x, NEW b, Leads(a, <<x>>, b)
  PROVE  b = DoStep(a, x, "done") /\ ~b.threw
<1>1. Len(<<x>>) = 1 /\ <<x>>[1] = x
  OBVIOUS
<1>2. PICK f : f[0] = a /\ f[1] = b /\ IsPath(f, <<x>>)
  BY <1>1 DEF Leads
<1>3. 1 \in 1..Len(<<x>>) /\ 1 - 1 = 0
  BY <1>1
<1> QED BY <1>1, <1>2, <1>3 DEF IsPath

\* No step.
LEMMA PathNone ==
  ASSUME NEW a, NEW b, Leads(a, << >>, b)
  PROVE  b = a
<1>1. Len(<< >>) = 0
  OBVIOUS
<1> QED BY <1>1 DEF Leads

\* Two lists with the same elements.
LEMMA ListsEqual ==
  ASSUME NEW s, NEW t, IsList(s), IsList(t), Len(s) = Len(t), \A i \in 1..Len(s) : s[i] = t[i]
  PROVE  s = t
<1> DEFINE n == Len(s)
<1>1. n \in Nat /\ s = [i \in 1..n |-> s[i]]
  BY DEF IsList
<1>2. t = [i \in 1..n |-> t[i]]
  <2>1. t = [i \in 1..Len(t) |-> t[i]]
    BY DEF IsList
  <2> QED BY <2>1
<1> QED BY <1>1, <1>2

\* A path of two steps, of three and of four.
LEMMA PathTwo ==
  ASSUME NEW a, NEW x, NEW y, NEW b, Leads(a, <<x, y>>, b)
  PROVE  \E e : Leads(a, <<x>>, e) /\ Leads(e, <<y>>, b)
<1> DEFINE s == <<x, y>>
<1>1. Len(s) = 2 /\ s[1] = x /\ s[2] = y
  OBVIOUS
<1>2. \A q : Len(<<q>>) = 1 /\ <<q>>[1] = q
  OBVIOUS
<1>3. PICK f : f[0] = a /\ f[Len(s)] = b /\ IsPath(f, s)
  BY DEF Leads
<1> HIDE DEF s
<1>4. /\ f[1] = DoStep(f[0], x, "done") /\ ~f[1].threw
      /\ f[2] = DoStep(f[1], y, "done") /\ ~f[2].threw
  BY <1>1, <1>3 DEF IsPath
<1> DEFINE g == [i \in 0..1 |-> f[i + 1]]
<1>5. g[0] = f[1] /\ g[1] = f[2]
  OBVIOUS
<1> HIDE DEF g
<1>6. IsPath(f, <<x>>) /\ IsPath(g, <<y>>)
  <2>1. \A q : 1..Len(<<q>>) = {1}
    BY <1>2
  <2>2. ASSUME NEW h, NEW q, h[1] = DoStep(h[0], q, "done"), ~h[1].threw PROVE IsPath(h, <<q>>)
    <3> DEFINE o == <<q>>
    <3>1. 1..Len(o) = {1} /\ o[1] = q /\ 1 - 1 = 0
      BY <1>2, <2>1
    <3> HIDE DEF o
    <3>2. IsPath(h, o)
      BY <2>2, <3>1 DEF IsPath
    <3> QED BY <3>2 DEF o
  <2> QED BY <1>4, <1>5, <2>2
<1> QED BY <1>1, <1>2, <1>3, <1>5, <1>6 DEF Leads

\* Three steps.
LEMMA PathThree ==
  ASSUME NEW a, NEW x, NEW y, NEW z, NEW b, Leads(a, <<x, y, z>>, b)
  PROVE  \E e : Leads(a, <<x, y>>, e) /\ Leads(e, <<z>>, b)
<1> DEFINE s == <<x, y>>
           t == <<z>>
<1>1. IsList(s) /\ IsList(t) /\ <<x, y, z>> = s \o t
  <2>1. s \in Seq({x, y}) /\ t \in Seq({z})
    OBVIOUS
  <2>2. <<x, y, z>> = s \o t
    OBVIOUS
  <2> HIDE DEF s, t
  <2> QED BY <2>1, <2>2, ListOf
<1> HIDE DEF s, t
<1>2. \E e : Leads(a, s, e) /\ Leads(e, t, b)
  BY <1>1, PathSplit
<1> QED BY <1>2 DEF s, t

\* Four steps.
LEMMA PathFour ==
  ASSUME NEW a, NEW x, NEW y, NEW z, NEW v, NEW b, Leads(a, <<x, y, z, v>>, b)
  PROVE  \E e : Leads(a, <<x, y, z>>, e) /\ Leads(e, <<v>>, b)
<1> DEFINE s == <<x, y, z>>
           t == <<v>>
<1>1. IsList(s) /\ IsList(t) /\ <<x, y, z, v>> = s \o t
  <2>1. s \in Seq({x, y, z}) /\ t \in Seq({v})
    OBVIOUS
  <2>2. <<x, y, z, v>> = s \o t
    OBVIOUS
  <2> HIDE DEF s, t
  <2> QED BY <2>1, <2>2, ListOf
<1> HIDE DEF s, t
<1>2. \E e : Leads(a, s, e) /\ Leads(e, t, b)
  BY <1>1, PathSplit
<1> QED BY <1>2 DEF s, t

\* All rows of a file are counted, apart from those of the wide datasets.
FileFull(w, F) ==
  FileOK(w, F) /\ \A ds \in DOMAIN F : ~Wide(w, ds) => F[ds].n = Len(F[ds].rows)
AccFull(w, acc) == AccOK(acc) /\ FileFull(w, acc.file) /\ DOMAIN acc.mem = DOMAIN Members

\* The same, with cells appended to ds.
Adds(F, G, ds, cells) ==
  /\ DOMAIN G = DOMAIN F
  /\ G[ds].rows = F[ds].rows \o cells
  /\ \A x \in DOMAIN F \ {ds} : G[x].rows = F[x].rows

\* An append that is completed.
LEMMA ArrayAppended ==
  ASSUME NEW w, NEW ds, NEW d, DatasetOK(w, ds, d), ~Wide(w, ds), d.n = Len(d.rows), NEW cells, IsList(cells)
  PROVE  LET e == appendArray(d, cells, "done")
         IN  DatasetOK(w, ds, e) /\ e.rows = d.rows \o cells /\ e.n = Len(e.rows)
<1> DEFINE old == d.rows
           m == Len(old)
           c == Len(cells)
           grown == Resized(old, m + c)
           r == Written(grown, m, cells)
           e == appendArray(d, cells, "done")
           Good == DatasetOK(w, ds, e) /\ e.rows = old \o cells /\ e.n = Len(e.rows)
<1> SUFFICES Good
  OBVIOUS
<1>1. DatasetOK(w, ds, e)
  BY ArrayKeeps DEF Keeps
<1>2. IsList(old) /\ m \in Nat /\ c \in Nat /\ m + c \in Nat
  BY ListLength DEF DatasetOK
<1>3. IsList(grown) /\ Len(grown) = m + c /\ \A i \in 1..(m + c) : i <= m => grown[i] = old[i]
  BY <1>2, ResizedFacts
<1>4. e.rows = r /\ e.n = m + c
  BY DEF appendArray, DatasetOK
<1> HIDE DEF grown, e, m, c
<1>5. IsList(r) /\ Len(r) = m + c /\ \A i \in 1..(m + c) : i <= m => r[i] = grown[i]
  BY <1>2, <1>3, WrittenFacts
<1>6. \A i \in 1..(m + c) : i > m => r[i] = cells[i - m]
  <2>1. DOMAIN grown = 1..(m + c)
    BY <1>3, ListLength
  <2> QED BY <1>2, <2>1 DEF Written, c
<1> HIDE DEF r
<1>7. r = old \o cells
  <2>1. /\ IsList(old \o cells) /\ Len(old \o cells) = m + c
        /\ \A i \in 1..m : (old \o cells)[i] = old[i]
        /\ \A i \in 1..(m + c) : i > m => (old \o cells)[i] = cells[i - m]
    <3>1. /\ IsList(old \o cells) /\ Len(old \o cells) = Len(old) + Len(cells)
          /\ \A i \in 1..Len(old) : (old \o cells)[i] = old[i]
          /\ \A i \in 1..Len(old \o cells) : i > Len(old) => (old \o cells)[i] = cells[i - Len(old)]
      <4> HIDE DEF old
      <4> QED BY <1>2, JoinedMembers
    <3> HIDE DEF old
    <3> QED BY <3>1 DEF m, c
  <2> DEFINE t == old \o cells
  <2>t. /\ IsList(t) /\ Len(t) = m + c /\ \A i \in 1..m : t[i] = old[i]
        /\ \A i \in 1..(m + c) : i > m => t[i] = cells[i - m]
    BY <2>1
  <2> HIDE DEF old, t
  <2>2. ASSUME NEW i \in 1..(m + c) PROVE r[i] = t[i]
    <3>1. CASE i <= m
      BY <1>2, <1>3, <1>5, <2>t, <3>1
    <3>2. CASE i > m
      BY <1>6, <2>t, <3>2
    <3> QED BY <1>2, <3>1, <3>2
  <2>3. IsList(r) /\ IsList(t) /\ Len(r) = Len(t) /\ \A i \in 1..Len(r) : r[i] = t[i]
    BY <1>5, <2>t, <2>2
  <2>4. r = t
    BY <2>3, ListsEqual
  <2> QED BY <2>4 DEF t
<1> QED BY <1>1, <1>4, <1>5, <1>7

\* The same through an adapter; an empty array adds nothing.
LEMMA AdapterAppended ==
  ASSUME NEW w, NEW ds, NEW d, DatasetOK(w, ds, d), ~Wide(w, ds), d.n = Len(d.rows), NEW cells, IsList(cells)
  PROVE  LET e == appendAdapter(d, cells, "done")
         IN  DatasetOK(w, ds, e) /\ e.rows = d.rows \o cells /\ e.n = Len(e.rows)
<1> DEFINE e == appendAdapter(d, cells, "done")
           f == appendArray(d, cells, "done")
           Good == DatasetOK(w, ds, e) /\ e.rows = d.rows \o cells /\ e.n = Len(e.rows)
<1> SUFFICES Good
  OBVIOUS
<1>1. DatasetOK(w, ds, f) /\ f.rows = d.rows \o cells /\ f.n = Len(f.rows)
  BY ArrayAppended
<1>2. CASE cells = << >>
  <2>1. e = d
    BY <1>2 DEF appendAdapter
  <2>2. d.rows = d.rows \o cells
    <3> DEFINE r == d.rows
               t == r \o cells
    <3>1. IsList(r) /\ Len(cells) = 0
      BY <1>2 DEF DatasetOK
    <3> HIDE DEF r
    <3>2. IsList(t) /\ Len(r) \in Nat /\ Len(t) = Len(r) /\ \A i \in 1..Len(r) : t[i] = r[i]
      <4>1. IsList(t) /\ Len(r) \in Nat /\ Len(t) = Len(r) + Len(cells) /\ \A i \in 1..Len(r) : t[i] = r[i]
        BY <3>1, JoinedMembers
      <4> HIDE DEF t
      <4> QED BY <3>1, <4>1
    <3> HIDE DEF t
    <3>3. r = t
      BY <3>1, <3>2, ListsEqual
    <3> QED BY <3>3 DEF r, t
  <2> QED BY <2>1, <2>2
<1>3. CASE cells # << >>
  <2>1. e = f
    BY <1>3 DEF appendAdapter, appendArray
  <2> HIDE DEF e, f
  <2> QED BY <1>1, <2>1
<1> QED BY <1>2, <1>3

\* One more element.
LEMMA JoinedOne ==
  ASSUME NEW s, IsList(s), NEW x
  PROVE  /\ IsList(s \o <<x>>) /\ Len(s) \in Nat /\ Len(s \o <<x>>) = Len(s) + 1
         /\ \A i \in 1..Len(s) : (s \o <<x>>)[i] = s[i]
         /\ (s \o <<x>>)[Len(s) + 1] = x
<1> DEFINE t == <<x>>
<1>1. t \in Seq({x}) /\ Len(t) = 1 /\ t[1] = x
  OBVIOUS
<1> HIDE DEF t
<1>2. IsList(t)
  BY <1>1, ListOf
<1>3. /\ IsList(s \o t) /\ Len(s) \in Nat /\ Len(s \o t) = Len(s) + Len(t)
      /\ \A i \in 1..Len(s) : (s \o t)[i] = s[i]
      /\ \A i \in 1..Len(t) : (s \o t)[Len(s) + i] = t[i]
  BY <1>2, JoinedMembers
<1>4. Len(s \o t) = Len(s) + 1 /\ (s \o t)[Len(s) + 1] = x
  <2> DEFINE u == s \o t
  <2>1. Len(u) = Len(s) + Len(t) /\ \A i \in 1..Len(t) : u[Len(s) + i] = t[i]
    BY <1>3
  <2> HIDE DEF u
  <2>2. Len(u) = Len(s) + 1 /\ u[Len(s) + 1] = x
    BY <1>1, <2>1
  <2> QED BY <2>2 DEF u
<1>5. /\ IsList(s \o t) /\ Len(s) \in Nat /\ Len(s \o t) = Len(s) + 1
      /\ \A i \in 1..Len(s) : (s \o t)[i] = s[i]
      /\ (s \o t)[Len(s) + 1] = x
  BY <1>3, <1>4
<1> QED BY <1>5 DEF t

\* The same for Append.
LEMMA AppendedOne ==
  ASSUME NEW s, IsList(s), NEW x
  PROVE  /\ Len(s) \in Nat /\ Len(Append(s, x)) = Len(s) + 1
         /\ Append(s, x) = [i \in 1..(Len(s) + 1) |-> Append(s, x)[i]]
         /\ \A i \in 1..Len(s) : Append(s, x)[i] = s[i]
<1> DEFINE B == Range(s)
           A == B \cup {x}
<1>1. s \in Seq(B)
  BY DEF IsList
<1> HIDE DEF B
<1>2. s \in Seq(A) /\ x \in A
  BY <1>1
<1> HIDE DEF A
<1>3. Append(s, x) \in Seq(A) /\ Len(s) \in Nat /\ Len(Append(s, x)) = Len(s) + 1
  BY <1>2
<1>4. \A i \in 1..Len(s) : Append(s, x)[i] = s[i]
  BY <1>2
<1> DEFINE t == Append(s, x)
<1>5. t \in Seq(A) /\ Len(t) = Len(s) + 1
  BY <1>3
<1> HIDE DEF t
<1>6. t = [i \in 1..(Len(s) + 1) |-> t[i]]
  BY <1>5
<1> QED BY <1>3, <1>4, <1>6 DEF t

\* A row of a wide dataset.
LEMMA RowAppended ==
  ASSUME NEW w, NEW ds, NEW d, DatasetOK(w, ds, d), Wide(w, ds), NEW cell, NEW shape
  PROVE  LET e == appendRow(d, cell, shape, "done")
         IN  DatasetOK(w, ds, e) /\ e.rows = d.rows \o <<cell>>
<1> DEFINE old == d.rows
           m == Len(old)
           more == Append(old, Fill)
           r == [more EXCEPT ![Len(more)] = cell]
           t == old \o <<cell>>
           e == appendRow(d, cell, shape, "done")
           Good == DatasetOK(w, ds, e) /\ e.rows = t
<1> SUFFICES Good
  OBVIOUS
<1>1. DatasetOK(w, ds, e)
  BY RowKeeps DEF Keeps
<1>2. IsList(old) /\ m \in Nat /\ DOMAIN old = 1..m /\ old = [i \in 1..m |-> old[i]]
  BY ListLength DEF DatasetOK, IsList
<1>3. e.rows = r
  BY DEF appendRow, DatasetOK
<1> HIDE DEF e
<1>4. IsList(t) /\ Len(t) = m + 1 /\ (\A i \in 1..m : t[i] = old[i]) /\ t[m + 1] = cell
  <2> HIDE DEF old
  <2> QED BY <1>2, JoinedOne
<1>5. /\ Len(more) = m + 1 /\ more = [i \in 1..(m + 1) |-> more[i]]
      /\ \A i \in 1..m : more[i] = old[i]
  <2> HIDE DEF old
  <2> QED BY <1>2, AppendedOne
<1> HIDE DEF more, m, old
<1>6. r = [i \in 1..(m + 1) |-> IF i = m + 1 THEN cell ELSE more[i]]
  <2>1. DOMAIN more = 1..(m + 1)
    BY <1>5
  <2> QED BY <1>5, <2>1
<1> HIDE DEF r, t
<1>7. t = [i \in 1..(m + 1) |-> t[i]]
  BY <1>4 DEF IsList
<1>8. r = t
  <2>1. \A i \in 1..(m + 1) : i # m + 1 => i \in 1..m
    BY <1>2
  <2>2. \A i \in 1..(m + 1) : t[i] = IF i = m + 1 THEN cell ELSE more[i]
    BY <1>4, <1>5, <2>1
  <2> QED BY <1>6, <1>7, <2>2
<1> QED BY <1>1, <1>3, <1>8

\* One dataset of a file is replaced by one with more rows.
LEMMA FileAppended ==
  ASSUME NEW w, NEW F, FileFull(w, F), NEW ds \in DOMAIN F, NEW e, NEW cells, DatasetOK(w, ds, e),
         e.rows = F[ds].rows \o cells, ~Wide(w, ds) => e.n = Len(e.rows),
         NEW G, DOMAIN G = DOMAIN F, G[ds] = e, \A x \in DOMAIN F \ {ds} : G[x] = F[x]
  PROVE  FileFull(w, G) /\ Adds(F, G, ds, cells)
<1>1. FileFull(w, G)
  BY DEF FileFull, FileOK
<1>2. Adds(F, G, ds, cells)
  BY DEF Adds
<1> QED BY <1>1, <1>2

\* Appends that are completed.
LEMMA DidElement ==
  ASSUME NEW w, NEW a, AccFull(w, a), NEW ds \in DOMAIN a.file, ~Wide(w, ds), NEW n, NEW x, NEW b,
         Leads(a, <<Element(ds, n, x)>>, b)
  PROVE  AccFull(w, b) /\ b.mem = a.mem /\ Adds(a.file, b.file, ds, <<Cell(n, <<x>>)>>)
<1> DEFINE F == a.file
           d == F[ds]
           step == Element(ds, n, x)
           cell == Cell(n, <<x>>)
           e == appendElement(d, cell, "done")
<1>1. b = DoStep(a, step, "done")
  BY PathOne
<1>2. step.op = "element" /\ step.ds = ds /\ step.cells[1] = cell
  BY DEF Element
<1>3. DatasetOK(w, ds, d) /\ d.n = Len(d.rows) /\ FileFull(w, F) /\ DOMAIN a = {"file", "mem", "threw"}
  BY DEF AccFull, FileFull, FileOK, AccOK
<1> HIDE DEF step, cell
<1>4. DatasetOK(w, ds, e) /\ e.rows = d.rows \o <<cell>> /\ e.n = Len(e.rows)
  <2> DEFINE t == <<cell>>
  <2>1. t \in Seq({cell})
    OBVIOUS
  <2> HIDE DEF t
  <2>2. IsList(t)
    BY <2>1, ListOf
  <2>3. LET g == appendArray(d, t, "done") IN DatasetOK(w, ds, g) /\ g.rows = d.rows \o t /\ g.n = Len(g.rows)
    BY <1>3, <2>2, ArrayAppended
  <2> QED BY <2>3 DEF t, appendElement
<1>5. b = [a EXCEPT !.file[ds] = e, !.threw = FALSE]
  BY <1>1, <1>2 DEF DoStep
<1> HIDE DEF e
<1>6. DOMAIN b = DOMAIN a /\ b.file = [F EXCEPT ![ds] = e] /\ b.mem = a.mem
  BY <1>3, <1>5
<1>7. FileFull(w, b.file) /\ Adds(F, b.file, ds, <<cell>>)
  <2> HIDE DEF F
  <2>1. ds \in DOMAIN F
    BY DEF F
  <2>2. DOMAIN b.file = DOMAIN F /\ b.file[ds] = e /\ \A y \in DOMAIN F \ {ds} : b.file[y] = F[y]
    BY <1>6, <2>1
  <2> QED BY <1>3, <1>4, <2>1, <2>2, FileAppended
<1> QED BY <1>3, <1>6, <1>7 DEF AccFull, AccOK, cell

\* A completed append of an array or a vector.
LEMMA DidArray ==
  ASSUME NEW w, NEW a, AccFull(w, a), NEW ds \in DOMAIN a.file, ~Wide(w, ds), NEW n, NEW xs, IsList(xs), NEW b,
         Leads(a, <<Array(ds, n, xs)>>, b) \/ Leads(a, <<Vector(ds, n, xs)>>, b)
  PROVE  AccFull(w, b) /\ b.mem = a.mem /\ Adds(a.file, b.file, ds, Cells(n, xs))
<1> DEFINE F == a.file
           d == F[ds]
           cells == Cells(n, xs)
           e == appendAdapter(d, cells, "done")
           g == appendArray(d, cells, "done")
<1>1. b = DoStep(a, Array(ds, n, xs), "done") \/ b = DoStep(a, Vector(ds, n, xs), "done")
  BY PathOne
<1>2. /\ Array(ds, n, xs).op = "array" /\ Array(ds, n, xs).ds = ds /\ Array(ds, n, xs).cells = cells
      /\ Vector(ds, n, xs).op = "vector" /\ Vector(ds, n, xs).ds = ds /\ Vector(ds, n, xs).cells = cells
  BY DEF Array, Vector
<1>3. DatasetOK(w, ds, d) /\ d.n = Len(d.rows) /\ FileFull(w, F) /\ DOMAIN a = {"file", "mem", "threw"}
  BY DEF AccFull, FileFull, FileOK, AccOK
<1>c. IsList(cells)
  BY CellsList
<1> HIDE DEF cells
<1>4. DatasetOK(w, ds, e) /\ e.rows = d.rows \o cells /\ e.n = Len(e.rows)
  BY <1>3, <1>c, AdapterAppended
<1>5. DatasetOK(w, ds, g) /\ g.rows = d.rows \o cells /\ g.n = Len(g.rows)
  BY <1>3, <1>c, ArrayAppended
<1>6. b = [a EXCEPT !.file[ds] = e, !.threw = FALSE] \/ b = [a EXCEPT !.file[ds] = g, !.threw = FALSE]
  BY <1>1, <1>2 DEF DoStep
<1> HIDE DEF e, g
<1>7. DOMAIN b = DOMAIN a /\ b.mem = a.mem /\ (b.file = [F EXCEPT ![ds] = e] \/ b.file = [F EXCEPT ![ds] = g])
  BY <1>3, <1>6
<1>8. FileFull(w, b.file) /\ Adds(F, b.file, ds, cells)
  <2> HIDE DEF F
  <2>1. ds \in DOMAIN F
    BY DEF F
  <2>2. /\ DOMAIN b.file = DOMAIN F /\ b.file[ds] \in {e, g}
        /\ \A y \in DOMAIN F \ {ds} : b.file[y] = F[y]
    BY <1>7, <2>1
  <2>3. CASE b.file[ds] = e
    BY <1>3, <1>4, <2>1, <2>2, <2>3, FileAppended
  <2>4. CASE b.file[ds] = g
    BY <1>3, <1>5, <2>1, <2>2, <2>4, FileAppended
  <2> QED BY <2>2, <2>3, <2>4
<1> QED BY <1>3, <1>7, <1>8 DEF AccFull, AccOK, cells

\* A completed append of a row.
LEMMA DidRow ==
  ASSUME NEW w, NEW a, AccFull(w, a), NEW ds \in DOMAIN a.file, Wide(w, ds), NEW n, NEW x, NEW shape, NEW b,
         Leads(a, <<Row(ds, n, x, shape)>>, b)
  PROVE  AccFull(w, b) /\ b.mem = a.mem /\ Adds(a.file, b.file, ds, <<Cell(n, x)>>)
<1> DEFINE F == a.file
           d == F[ds]
           step == Row(ds, n, x, shape)
           cell == Cell(n, x)
           e == appendRow(d, cell, shape, "done")
<1>1. b = DoStep(a, step, "done") /\ ~b.threw
  BY PathOne
<1>2. step.op = "row" /\ step.ds = ds /\ step.cells[1] = cell /\ step.shape = shape
  BY DEF Row
<1>3. DatasetOK(w, ds, d) /\ FileFull(w, F) /\ DOMAIN a = {"file", "mem", "threw"}
  BY DEF AccFull, FileFull, FileOK, AccOK
<1> HIDE DEF step, cell
<1>4. DatasetOK(w, ds, e) /\ e.rows = d.rows \o <<cell>>
  BY <1>3, RowAppended
<1>5. b = [a EXCEPT !.file[ds] = e, !.threw = FALSE]
  <2>1. CASE ~RankFits(d, shape)
    <3>1. b = [a EXCEPT !.threw = TRUE]
      BY <1>1, <1>2, <2>1 DEF DoStep
    <3> QED BY <1>1, <1>3, <3>1
  <2>2. CASE RankFits(d, shape)
    BY <1>1, <1>2, <2>2 DEF DoStep
  <2> QED BY <2>1, <2>2
<1> HIDE DEF e
<1>6. DOMAIN b = DOMAIN a /\ b.file = [F EXCEPT ![ds] = e] /\ b.mem = a.mem
  BY <1>3, <1>5
<1>7. FileFull(w, b.file) /\ Adds(F, b.file, ds, <<cell>>)
  <2> HIDE DEF F
  <2>1. ds \in DOMAIN F
    BY DEF F
  <2>2. DOMAIN b.file = DOMAIN F /\ b.file[ds] = e /\ \A y \in DOMAIN F \ {ds} : b.file[y] = F[y]
    BY <1>6, <2>1
  <2> QED BY <1>3, <1>4, <2>1, <2>2, FileAppended
<1> QED BY <1>3, <1>6, <1>7 DEF AccFull, AccOK, cell

\* An assignment, and an exception.
LEMMA DidSet ==
  ASSUME NEW w, NEW a, AccFull(w, a), NEW member \in DOMAIN Members, NEW value, NEW b,
         Leads(a, <<Set(member, value)>>, b)
  PROVE  AccFull(w, b) /\ b.file = a.file /\ b.mem = [a.mem EXCEPT ![member] = value]
<1>1. b = DoStep(a, Set(member, value), "done")
  BY PathOne
<1>2. Set(member, value).op = "set" /\ Set(member, value).member = member /\ Set(member, value).value = value
  BY DEF Set
<1>3. b = [a EXCEPT !.mem[member] = value]
  BY <1>1, <1>2 DEF DoStep
<1>4. DOMAIN a = {"file", "mem", "threw"} /\ DOMAIN a.mem = DOMAIN Members
  BY DEF AccFull, AccOK
<1>5. DOMAIN b = DOMAIN a /\ b.file = a.file /\ b.mem = [a.mem EXCEPT ![member] = value]
  BY <1>3, <1>4
<1> QED BY <1>4, <1>5 DEF AccFull, AccOK

\* A script with an exception is not completed.
LEMMA DidThrow ==
  ASSUME NEW w, NEW a, AccFull(w, a), NEW b, Leads(a, <<Throw>>, b)
  PROVE  FALSE
<1>1. b = DoStep(a, Throw, "done") /\ ~b.threw
  BY PathOne
<1>2. Throw.op = "throw"
  BY DEF Throw
<1>3. b = [a EXCEPT !.threw = TRUE]
  BY <1>1, <1>2 DEF DoStep
<1> QED BY <1>1, <1>3 DEF AccFull, AccOK

\* A step that does not throw was completed.
LEMMA StepDone ==
  ASSUME NEW w, NEW acc, AccOK(acc), NEW step, StepOK(w, step), NEW o, ~DoStep(acc, step, o).threw
  PROVE  DoStep(acc, step, o) = DoStep(acc, step, "done")
<1>0. DOMAIN acc = {"file", "mem", "threw"}
  BY DEF AccOK
<1>1. CASE o = "done"
  BY <1>1
<1>2. CASE o # "done"
  <2>1. ASSUME NEW e, DoStep(acc, step, o) = [acc EXCEPT !.file[step.ds] = e, !.threw = o # "done"] PROVE FALSE
    <3>1. DoStep(acc, step, o).threw = (o # "done")
      BY <1>0, <2>1
    <3> QED BY <1>2, <3>1
  <2>2. ASSUME DoStep(acc, step, o) = [acc EXCEPT !.threw = TRUE] PROVE FALSE
    <3>1. DoStep(acc, step, o).threw = TRUE
      BY <1>0, <2>2
    <3> QED BY <3>1
  <2>3. CASE step.op = "set"
    BY <2>3 DEF DoStep
  <2>4. CASE step.op = "throw"
    BY <2>2, <2>4 DEF DoStep
  <2>5. CASE step.op = "element"
    BY <2>1, <2>5 DEF DoStep
  <2>6. CASE step.op = "vector"
    BY <2>1, <2>6 DEF DoStep
  <2>7. CASE step.op = "array"
    BY <2>1, <2>7 DEF DoStep
  <2>8. CASE step.op = "row"
    BY <2>1, <2>2, <2>8 DEF DoStep
  <2> QED BY <2>3, <2>4, <2>5, <2>6, <2>7, <2>8 DEF StepOK
<1> QED BY <1>1, <1>2

\* A write() that does not throw has done all its steps.
LEMMA ExecuteLeads ==
  ASSUME NEW w, NEW script, NEW at, NEW outcome, IsScript(w, script), FileOK(w, file),
         ~Execute(script, at, outcome).threw
  PROVE  Leads([file |-> file, mem |-> mem, threw |-> FALSE], script, Execute(script, at, outcome))
<1> DEFINE N == Len(script)
<1>0. N \in Nat /\ DOMAIN script = 1..N
  BY ListLength DEF IsScript
<1>1. PICK after : /\ Execute(script, at, outcome) = after[N]
                   /\ \A n \in 0..N : /\ after[n] = RunStep(after, script, at, outcome, n)
                                      /\ AccOK(after[n]) /\ FilesKeep(w, file, after[n].file)
  BY ExecuteRuns
<1>s. \A i \in 1..N : StepOK(w, script[i])
  BY <1>0, ListMember DEF IsScript
<1> HIDE DEF N
<1>2. \A n \in 0..N : ~after[n].threw
  <2> DEFINE T == {j \in Nat : j <= N /\ after[N - j].threw}
  <2>1. SUFFICES ASSUME T # {} PROVE FALSE
    <3>1. ASSUME T = {}, NEW n \in 0..N PROVE ~after[n].threw
      <4>1. N - n \in Nat /\ N - n <= N /\ N - (N - n) = n
        BY <1>0
      <4>2. N - n \notin T
        BY <3>1
      <4> QED BY <4>1, <4>2
    <3> HIDE DEF T
    <3> QED BY <3>1
  <2>2. PICK j \in T : \A i \in T : j <= i
    BY <2>1, LeastNat
  <2>3. j # 0
    BY <1>0, <1>1, <2>2
  <2>4. j - 1 \in Nat /\ j - 1 <= N /\ j - 1 \notin T /\ N - j \in 0..N /\ N - (j - 1) \in 1..N /\ N - (j - 1) - 1 = N - j
    BY <1>0, <2>2, <2>3
  <2>5. ~after[N - (j - 1)].threw /\ after[N - j].threw
    BY <2>2, <2>4
  <2>6. after[N - (j - 1)] = RunStep(after, script, at, outcome, N - (j - 1))
    BY <1>0, <1>1, <2>4
  <2>7. after[N - (j - 1)] = after[N - j]
    BY <2>4, <2>5, <2>6 DEF RunStep
  <2> QED BY <2>5, <2>7
<1>3. ASSUME NEW i \in 1..N PROVE after[i] = DoStep(after[i - 1], script[i], "done") /\ ~after[i].threw
  <2>1. i \in 0..N /\ i - 1 \in 0..N /\ i # 0
    BY <1>0
  <2>2. after[i] = RunStep(after, script, at, outcome, i) /\ ~after[i].threw /\ ~after[i - 1].threw /\ AccOK(after[i - 1])
    BY <1>1, <1>2, <2>1
  <2> DEFINE o == IF i = at THEN outcome ELSE "done"
  <2>3. after[i] = DoStep(after[i - 1], script[i], o)
    BY <2>1, <2>2 DEF RunStep
  <2> HIDE DEF o
  <2> QED BY <1>s, <2>2, <2>3, StepDone
<1>4. after[0] = [file |-> file, mem |-> mem, threw |-> FALSE]
  <2>1. 0 \in 0..N
    BY <1>0
  <2>2. after[0] = RunStep(after, script, at, outcome, 0)
    BY <1>1, <2>1
  <2> QED BY <2>2, Zenon DEF RunStep
<1>5. IsPath(after, script)
  BY <1>3, Zenon DEF IsPath, N
<1>6. after[Len(script)] = Execute(script, at, outcome)
  BY <1>1 DEF N
<1> QED BY <1>4, <1>5, <1>6 DEF Leads
-----------------------------------------------------------------------------
(* Indexes and the rows they point to                                      *)

\* The number of the row behind v rows, as it is stored.
Number(w, v) == IF w \in {"se00", "senv", "tdct"} THEN CastRowNumber(v) ELSE RowNumber(v)

LEMMA NumberStored ==
  ASSUME NEW w, NEW v \in Nat
  PROVE  StoredNumber(w, v + 1) = Number(w, v)
<1>1. (v + 1) - 1 = v
  OBVIOUS
<1> QED BY <1>1 DEF StoredNumber, Number

\* An entry of an index is the number of a row of the message that made it.
Finds(w, e, rows, v) ==
  v \in Nat /\ e.x[1] = Number(w, v) /\ v + 1 \in 1..Len(rows) /\ rows[v + 1].k = e.k

\* The rows s are the rows r and L more, of message n.
Grown(r, s, L, n) ==
  /\ IsList(r) /\ IsList(s) /\ Len(s) = Len(r) + L
  /\ \A i \in 1..Len(r) : s[i] = r[i]
  /\ \A i \in 1..Len(s) : i > Len(r) => s[i].k = n

\* The rows s are the rows r and one more cell.
OneMore(r, s, cell) ==
  /\ IsList(r) /\ IsList(s) /\ Len(s) = Len(r) + 1
  /\ \A i \in 1..Len(r) : s[i] = r[i]
  /\ s[Len(r) + 1] = cell

\* What an entry found is still there.
LEMMA StillFinds ==
  ASSUME NEW w, NEW e, NEW r, NEW s, NEW L \in Nat, NEW n, Grown(r, s, L, n), NEW v \in Nat, Finds(w, e, r, v)
  PROVE  Finds(w, e, s, v) /\ s[v + 1] = r[v + 1]
<1>1. Len(r) \in Nat
  BY ListLength DEF Grown
<1> QED BY <1>1 DEF Grown, Finds

\* One of the new rows is found.
LEMMA NewFinds ==
  ASSUME NEW w, NEW r, NEW s, NEW L \in Nat, L >= 1, NEW n, Grown(r, s, L, n), NEW v \in Nat,
         Len(r) <= v, v < Len(r) + L
  PROVE  Finds(w, Cell(n, <<Number(w, v)>>), s, v)
<1>1. Len(r) \in Nat
  BY ListLength DEF Grown
<1>2. Cell(n, <<Number(w, v)>>).k = n /\ Cell(n, <<Number(w, v)>>).x[1] = Number(w, v)
  BY DEF Cell
<1>3. v + 1 \in 1..Len(s) /\ v + 1 > Len(r)
  BY <1>1 DEF Grown
<1> QED BY <1>2, <1>3 DEF Grown, Finds

\* Something that holds of the old entries and of the new one.
LEMMA MoreEntries ==
  ASSUME NEW r, NEW s, NEW cell, OneMore(r, s, cell), NEW i \in 1..Len(s)
  PROVE  (i \in 1..Len(r) /\ s[i] = r[i]) \/ (i = Len(r) + 1 /\ s[i] = cell)
<1>1. Len(r) \in Nat
  BY ListLength DEF OneMore
<1> QED BY <1>1 DEF OneMore
-----------------------------------------------------------------------------
(* Modules whose cues point to rows of time and value                      *)

CueTargets(w) == IF w = "tdct" THEN {"time"} ELSE {"time", "value"}

\* Cue number i is that of row v + 1 of each of the datasets, a row of its message.
CueAt(w, F, i, v) ==
  /\ \A ds \in CueTargets(w) : Finds(w, F["cue_index"].rows[i], F[ds].rows, v)
  /\ w \in TimedCues => F["cue_timestamp_zero"].rows[i].x = F["time"].rows[v + 1].x

\* Every cue is the row of its message.
CuesFind(w, F) ==
  /\ \A ds \in CueTargets(w) \cup {"cue_index", "cue_timestamp_zero"} : IsList(F[ds].rows)
  /\ \A ds \in CueTargets(w) : Len(F[ds].rows) = Len(F["time"].rows)
  /\ \A i \in 1..Len(F["cue_index"].rows) : \E v \in Nat : CueAt(w, F, i, v)
  /\ Len(F["cue_timestamp_zero"].rows) = Len(F["cue_index"].rows)

\* Message n adds L rows to each of the datasets and, if any, possibly a cue for
\* the first of them.
CueStep(w, F, G, n) ==
  \E L \in Nat :
    /\ \A ds \in CueTargets(w) : Grown(F[ds].rows, G[ds].rows, L, n)
    /\ \/ /\ G["cue_index"].rows = F["cue_index"].rows
          /\ G["cue_timestamp_zero"].rows = F["cue_timestamp_zero"].rows
       \/ /\ L >= 1
          /\ OneMore(F["cue_index"].rows, G["cue_index"].rows, Cell(n, <<Number(w, Len(F["time"].rows))>>))
          /\ \E y : /\ OneMore(F["cue_timestamp_zero"].rows, G["cue_timestamp_zero"].rows, Cell(n, <<y>>))
                    /\ w \in TimedCues => G["time"].rows[Len(F["time"].rows) + 1].x = <<y>>

\* Such a message leaves the old cues right and makes a right one.
LEMMA CueStepFinds ==
  ASSUME NEW w, NEW F, NEW G, NEW n, CuesFind(w, F), CueStep(w, F, G, n)
  PROVE  CuesFind(w, G)
<1> DEFINE c == F["cue_index"].rows
           d == G["cue_index"].rows
           t == F["time"].rows
           u == G["time"].rows
           y0 == F["cue_timestamp_zero"].rows
           y1 == G["cue_timestamp_zero"].rows
           new == Cell(n, <<Number(w, Len(t))>>)
<1>1. PICK L \in Nat :
    /\ \A ds \in CueTargets(w) : Grown(F[ds].rows, G[ds].rows, L, n)
    /\ \/ d = c /\ y1 = y0
       \/ /\ L >= 1 /\ OneMore(c, d, new)
          /\ \E y : /\ OneMore(y0, y1, Cell(n, <<y>>))
                    /\ w \in TimedCues => u[Len(t) + 1].x = <<y>>
  BY DEF CueStep
<1>2. "time" \in CueTargets(w)
  BY DEF CueTargets
<1>3. IsList(c) /\ IsList(y0) /\ Len(y0) = Len(c) /\ IsList(t) /\ Len(t) \in Nat /\ Len(c) \in Nat
  BY <1>2, ListLength DEF CuesFind
<1>4. IsList(d) /\ IsList(y1) /\ Len(y1) = Len(d)
  BY <1>1, <1>3 DEF OneMore
<1>5. ASSUME NEW ds \in CueTargets(w) PROVE IsList(G[ds].rows) /\ Len(G[ds].rows) = Len(u)
  <2>1. Grown(F[ds].rows, G[ds].rows, L, n) /\ Grown(t, u, L, n) /\ Len(F[ds].rows) = Len(t)
    BY <1>1, <1>2 DEF CuesFind
  <2> QED BY <2>1 DEF Grown
<1>6. \A i \in 1..Len(d) : (i \in 1..Len(c) /\ d[i] = c[i]) \/ (L >= 1 /\ OneMore(c, d, new) /\ i = Len(c) + 1 /\ d[i] = new)
  BY <1>1, MoreEntries
<1>7. ASSUME NEW i \in 1..Len(d) PROVE \E v \in Nat : CueAt(w, G, i, v)
  <2>1. CASE i \in 1..Len(c) /\ d[i] = c[i]
    <3>1. PICK v \in Nat : CueAt(w, F, i, v)
      BY <2>1 DEF CuesFind
    <3>2. ASSUME NEW ds \in CueTargets(w)
          PROVE  Finds(w, d[i], G[ds].rows, v) /\ G[ds].rows[v + 1] = F[ds].rows[v + 1]
      <4> DEFINE r == F[ds].rows
                 s == G[ds].rows
                 e == d[i]
      <4>1. Finds(w, e, r, v) /\ Grown(r, s, L, n) /\ L \in Nat
        BY <1>1, <2>1, <3>1 DEF CueAt
      <4> HIDE DEF r, s, e
      <4>2. Finds(w, e, s, v) /\ s[v + 1] = r[v + 1]
        BY <4>1, StillFinds
      <4> QED BY <4>2 DEF r, s, e
    <3>3. y1[i] = y0[i]
      BY <1>1, <1>3, <2>1 DEF OneMore
    <3>4. w \in TimedCues => y1[i].x = u[v + 1].x
      BY <1>2, <3>1, <3>2, <3>3 DEF CueAt
    <3> QED BY <3>2, <3>4 DEF CueAt
  <2>2. CASE L >= 1 /\ OneMore(c, d, new) /\ i = Len(c) + 1 /\ d[i] = new
    <3> DEFINE v == Len(t)
    <3>1. ASSUME NEW ds \in CueTargets(w) PROVE Finds(w, new, G[ds].rows, v)
      <4> DEFINE r == F[ds].rows
                 s == G[ds].rows
      <4>0. Len(r) = v
        BY DEF CuesFind
      <4>1. Grown(r, s, L, n) /\ v \in Nat
        BY <1>1, <1>3
      <4> HIDE DEF r, s, v
      <4>3. Len(r) <= v /\ v < Len(r) + L
        BY <2>2, <4>0, <4>1
      <4>2. Finds(w, Cell(n, <<Number(w, v)>>), s, v)
        BY <2>2, <4>1, <4>3, NewFinds
      <4> QED BY <4>2 DEF s, v
    <3>2. d # c
      BY <1>3, <2>2 DEF OneMore
    <3>3. PICK y : OneMore(y0, y1, Cell(n, <<y>>)) /\ (w \in TimedCues => u[Len(t) + 1].x = <<y>>)
      BY <1>1, <3>2
    <3>4. y1[i] = Cell(n, <<y>>)
      BY <1>3, <2>2, <3>3 DEF OneMore
    <3>5. y1[i].x = <<y>>
      BY <3>4 DEF Cell
    <3>6. v \in Nat /\ d[i] = new
      BY <1>3, <2>2
    <3>7. \A ds \in CueTargets(w) : Finds(w, d[i], G[ds].rows, v)
      BY <3>1, <3>6
    <3>8. w \in TimedCues => y1[i].x = u[v + 1].x
      BY <3>3, <3>5
    <3> HIDE DEF v, new
    <3>9. CueAt(w, G, i, v)
      BY <3>7, <3>8 DEF CueAt
    <3> QED BY <3>6, <3>9
  <2> QED BY <1>6, <2>1, <2>2
<1> QED BY <1>4, <1>5, <1>7 DEF CuesFind
-----------------------------------------------------------------------------
(* Event indexes                                                           *)

\* An entry of event_index, made when there were v events: the first row of its
\* message, or, of a message without events, the place between the rows of the
\* earlier and the later ones.
DividesAt(w, e, rows, v) ==
  /\ e.k \in Int /\ v \in Nat /\ e.x[1] = Number(w, v) /\ v <= Len(rows)
  /\ Finds(w, e, rows, v) \/ \A j \in 1..Len(rows) : (rows[j].k > e.k) <=> (j >= v + 1)
Divides(w, e, rows) == \E v \in Nat : DividesAt(w, e, rows, v)

\* n messages were handled: the counters agree with the rows, the last cue is
\* less than an interval behind, and the entries of both indexes are right.
EventsFind(w, c, F, M, n) ==
  /\ \A ds \in {"event_id", "event_index", "cue_index"} : IsList(F[ds].rows)
  /\ M.EventsWritten = Len(F["event_id"].rows)
  /\ M.LastEventIndex \in Int /\ M.EventsWritten <= M.LastEventIndex + c.interval
  /\ \A j \in 1..Len(F["event_id"].rows) : F["event_id"].rows[j].k \in Int /\ F["event_id"].rows[j].k <= n
  /\ \A i \in 1..Len(F["cue_index"].rows) : \E v \in Nat : Finds(w, F["cue_index"].rows[i], F["event_id"].rows, v)
  /\ \A i \in 1..Len(F["event_index"].rows) : /\ Divides(w, F["event_index"].rows[i], F["event_id"].rows)
                                              /\ F["event_index"].rows[i].k \in Int
                                              /\ F["event_index"].rows[i].k <= n

\* Message n has L events; the last one gets a cue if the last cue is an interval
\* behind.
EventAdds(w, c, F, M, G, P, n, L) ==
  /\ Grown(F["event_id"].rows, G["event_id"].rows, L, n)
  /\ OneMore(F["event_index"].rows, G["event_index"].rows, Cell(n, <<Number(w, M.EventsWritten)>>))
  /\ P.EventsWritten = M.EventsWritten + L
  /\ \/ /\ ~(P.EventsWritten > M.LastEventIndex + c.interval)
        /\ G["cue_index"].rows = F["cue_index"].rows /\ P.LastEventIndex = M.LastEventIndex
     \/ /\ P.EventsWritten > M.LastEventIndex + c.interval
        /\ OneMore(F["cue_index"].rows, G["cue_index"].rows, Cell(n, <<Number(w, P.EventsWritten - 1)>>))
        /\ P.LastEventIndex = P.EventsWritten - 1
EventStep(w, c, F, M, G, P, n) == \E L \in Nat : EventAdds(w, c, F, M, G, P, n, L)

\* The rows of a later message are behind the place of an entry.
LEMMA StillDivides ==
  ASSUME NEW w, NEW e, NEW r, NEW s, NEW L \in Nat, NEW n \in Int, Grown(r, s, L, n), Divides(w, e, r), e.k < n
  PROVE  Divides(w, e, s)
<1>1. Len(r) \in Nat /\ Len(s) = Len(r) + L
  BY ListLength DEF Grown
<1>2. PICK v \in Nat : DividesAt(w, e, r, v)
  BY DEF Divides
<1>3. e.k \in Int /\ e.x[1] = Number(w, v) /\ v <= Len(r) /\ v <= Len(s)
  BY <1>1, <1>2 DEF DividesAt
<1>4. CASE Finds(w, e, r, v)
  <2>1. Finds(w, e, s, v)
    BY <1>4, StillFinds
  <2> QED BY <1>3, <2>1 DEF Divides, DividesAt
<1>5. CASE \A j \in 1..Len(r) : (r[j].k > e.k) <=> (j >= v + 1)
  <2>1. ASSUME NEW j \in 1..Len(s) PROVE (s[j].k > e.k) <=> (j >= v + 1)
    <3>1. CASE j <= Len(r)
      <4>1. j \in 1..Len(r) /\ s[j] = r[j]
        BY <1>1, <3>1 DEF Grown
      <4> QED BY <1>5, <4>1
    <3>2. CASE j > Len(r)
      <4>1. s[j].k = n
        BY <3>2 DEF Grown
      <4>2. j >= v + 1
        BY <1>1, <1>3, <3>2
      <4> QED BY <1>3, <4>1, <4>2
    <3> QED BY <1>1, <3>1, <3>2
  <2> QED BY <1>3, <2>1 DEF Divides, DividesAt
<1> QED BY <1>2, <1>4, <1>5 DEF DividesAt

\* Such a message leaves the entries of both indexes right and makes right ones;
\* the interval is not zero, or a message without events would make a cue.
LEMMA EventStepFinds ==
  ASSUME NEW w, NEW c, c.interval \in Nat \ {0}, NEW F, NEW M, NEW G, NEW P, NEW n \in Nat,
         EventsFind(w, c, F, M, n), EventStep(w, c, F, M, G, P, n + 1)
  PROVE  EventsFind(w, c, G, P, n + 1)
<1> DEFINE r == F["event_id"].rows
           s == G["event_id"].rows
           x0 == F["event_index"].rows
           x1 == G["event_index"].rows
           q0 == F["cue_index"].rows
           q1 == G["cue_index"].rows
           V == M.EventsWritten
           last == M.LastEventIndex
<1>0. PICK L \in Nat : EventAdds(w, c, F, M, G, P, n + 1, L)
  BY DEF EventStep
<1>1. /\ Grown(r, s, L, n + 1) /\ OneMore(x0, x1, Cell(n + 1, <<Number(w, V)>>)) /\ P.EventsWritten = V + L
      /\ \/ /\ ~(P.EventsWritten > last + c.interval)
            /\ q1 = q0 /\ P.LastEventIndex = last
         \/ /\ P.EventsWritten > last + c.interval
            /\ OneMore(q0, q1, Cell(n + 1, <<Number(w, P.EventsWritten - 1)>>))
            /\ P.LastEventIndex = P.EventsWritten - 1
  BY <1>0 DEF EventAdds
<1>2. /\ IsList(r) /\ IsList(q0) /\ IsList(x0) /\ Len(r) \in Nat /\ V = Len(r) /\ last \in Int /\ V <= last + c.interval
      /\ \A j \in 1..Len(r) : r[j].k \in Int /\ r[j].k <= n
      /\ \A i \in 1..Len(q0) : \E v \in Nat : Finds(w, q0[i], r, v)
      /\ \A i \in 1..Len(x0) : Divides(w, x0[i], r) /\ x0[i].k \in Int /\ x0[i].k <= n
  BY ListLength DEF EventsFind
<1> HIDE DEF r, s, x0, x1, q0, q1, V, last
<1>3. IsList(s) /\ IsList(x1) /\ IsList(q1) /\ Len(s) = Len(r) + L
  BY <1>1, <1>2 DEF Grown, OneMore
<1>4. P.EventsWritten = Len(s) /\ P.LastEventIndex \in Int /\ P.EventsWritten <= P.LastEventIndex + c.interval
  <2>1. \/ ~(P.EventsWritten > last + c.interval) /\ P.LastEventIndex = last
        \/ P.EventsWritten > last + c.interval /\ P.LastEventIndex = P.EventsWritten - 1
    BY <1>1
  <2>2. P.EventsWritten = V + L
    BY <1>1
  <2>3. V \in Nat /\ V = Len(r) /\ last \in Int
    BY <1>2
  <2> QED BY <1>3, <2>1, <2>2, <2>3
<1>5. ASSUME NEW j \in 1..Len(s) PROVE s[j].k \in Int /\ s[j].k <= n + 1
  <2>1. CASE j <= Len(r)
    <3>1. j \in 1..Len(r) /\ s[j] = r[j]
      BY <1>1, <1>2, <2>1 DEF Grown
    <3> QED BY <1>2, <3>1
  <2>2. CASE j > Len(r)
    <3>1. s[j].k = n + 1
      BY <1>1, <2>2 DEF Grown
    <3> QED BY <3>1
  <2> QED BY <1>2, <1>3, <2>1, <2>2
<1>6. ASSUME NEW i \in 1..Len(q1) PROVE \E v \in Nat : Finds(w, q1[i], s, v)
  <2>1. CASE i \in 1..Len(q0) /\ q1[i] = q0[i]
    <3>1. PICK v \in Nat : Finds(w, q0[i], r, v)
      BY <1>2, <2>1
    <3> QED BY <1>1, <2>1, <3>1, StillFinds
  <2>2. CASE P.EventsWritten > last + c.interval /\ q1[i] = Cell(n + 1, <<Number(w, P.EventsWritten - 1)>>)
    <3> DEFINE v == P.EventsWritten - 1
    <3>1. L >= 1 /\ v \in Nat /\ Len(r) <= v /\ v < Len(r) + L
      BY <1>1, <1>2, <2>2
    <3> HIDE DEF v
    <3>2. q1[i] = Cell(n + 1, <<Number(w, v)>>)
      BY <2>2 DEF v
    <3>3. Finds(w, Cell(n + 1, <<Number(w, v)>>), s, v)
      BY <1>1, <3>1, NewFinds
    <3> QED BY <3>1, <3>2, <3>3
  <2> QED BY <1>1, <2>1, <2>2, MoreEntries
<1>7. ASSUME NEW i \in 1..Len(x1) PROVE Divides(w, x1[i], s) /\ x1[i].k \in Int /\ x1[i].k <= n + 1
  <2>1. CASE i \in 1..Len(x0) /\ x1[i] = x0[i]
    <3>1. Divides(w, x0[i], r) /\ x0[i].k <= n /\ x0[i].k \in Int
      BY <1>2, <2>1
    <3>2. x0[i].k < n + 1 /\ x0[i].k <= n + 1 /\ n + 1 \in Int
      BY <3>1
    <3> QED BY <1>1, <2>1, <3>1, <3>2, StillDivides
  <2>2. CASE x1[i] = Cell(n + 1, <<Number(w, V)>>)
    <3> DEFINE e == Cell(n + 1, <<Number(w, V)>>)
    <3>1. e.k = n + 1 /\ e.x[1] = Number(w, V) /\ V \in Nat /\ V <= Len(s) /\ n + 1 \in Int
      BY <1>2, <1>3 DEF Cell
    <3>2. Finds(w, e, s, V) \/ \A j \in 1..Len(s) : (s[j].k > e.k) <=> (j >= V + 1)
      <4>1. CASE L >= 1
        <5>1. Len(r) <= V /\ V < Len(r) + L
          BY <1>2, <4>1
        <5> QED BY <1>1, <3>1, <4>1, <5>1, NewFinds
      <4>2. CASE L = 0
        <5>1. ASSUME NEW j \in 1..Len(s) PROVE ~(s[j].k > n + 1) /\ ~(j >= V + 1)
          BY <1>2, <1>3, <1>5, <4>2
        <5> HIDE DEF e
        <5> QED BY <3>1, <5>1
      <4> QED BY <4>1, <4>2
    <3> HIDE DEF e
    <3>3. DividesAt(w, e, s, V)
      BY <3>1, <3>2 DEF DividesAt
    <3>4. x1[i] = e
      BY <2>2 DEF e
    <3> QED BY <3>1, <3>3, <3>4 DEF Divides
  <2> QED BY <1>1, <2>1, <2>2, MoreEntries
<1>8. \A ds \in {"event_id", "event_index", "cue_index"} : IsList(G[ds].rows)
  BY <1>3 DEF s, x1, q1
<1> QED BY <1>4, <1>5, <1>6, <1>7, <1>8 DEF EventsFind, s, x1, q1
-----------------------------------------------------------------------------
(* Steps that touch neither indexes nor what they point to                 *)

IndexNames == {"time", "value", "cue_index", "cue_timestamp_zero", "event_id", "event_index"}
IndexMembers == {"NrOfWrites", "EventsWritten", "LastEventIndex"}

AsideStep(step) ==
  \/ step.op = "set" /\ step.member \notin IndexMembers
  \/ step.op \in {"element", "vector", "array"} /\ step.ds \notin IndexNames
IsAside(w, s) == IsList(s) /\ \A x \in Range(s) : StepOK(w, x) /\ AsideStep(x)

\* The indexes, their targets and the counters are the same.
Aside(w, a, b) ==
  /\ AccFull(w, b) /\ DOMAIN b.file = DOMAIN a.file
  /\ \A ds \in IndexNames \cap DOMAIN a.file : b.file[ds].rows = a.file[ds].rows
  /\ \A x \in IndexMembers : b.mem[x] = a.mem[x]

\* One such step.
LEMMA AsideOne ==
  ASSUME NEW w, NEW a, AccFull(w, a), NEW step, StepOK(w, step), AsideStep(step)
  PROVE  Aside(w, a, DoStep(a, step, "done"))
<1> DEFINE F == a.file
           b == DoStep(a, step, "done")
           ds == step.ds
<1>1. DOMAIN a = {"file", "mem", "threw"} /\ FileFull(w, F) /\ DOMAIN a.mem = DOMAIN Members
  BY DEF AccFull, AccOK
<1>2. CASE step.op = "set" /\ step.member \notin IndexMembers
  <2>1. b = [a EXCEPT !.mem[step.member] = step.value]
    BY <1>2 DEF DoStep
  <2>2. DOMAIN b = DOMAIN a /\ b.file = F /\ b.mem = [a.mem EXCEPT ![step.member] = step.value]
    BY <1>1, <2>1
  <2> HIDE DEF b
  <2>3. DOMAIN b.mem = DOMAIN Members /\ \A x \in IndexMembers : b.mem[x] = a.mem[x]
    <3>1. \A x \in IndexMembers : x \in DOMAIN Members
      BY DEF IndexMembers, Members
    <3> QED BY <1>1, <1>2, <2>2, <3>1
  <2>4. AccFull(w, b)
    BY <1>1, <2>2, <2>3 DEF AccFull, AccOK
  <2> QED BY <2>2, <2>3, <2>4 DEF Aside, b
<1>3. CASE step.op \in {"element", "vector", "array"} /\ ds \notin IndexNames
  <2>0. ~Wide(w, ds) /\ IsList(step.cells)
    BY <1>3 DEF StepOK
  <2> DEFINE d == F[ds]
             one == <<step.cells[1]>>
  <2>1. IsList(one)
    <3>1. one \in Seq({step.cells[1]})
      OBVIOUS
    <3> HIDE DEF one
    <3> QED BY <3>1, ListOf
  <2>2. ASSUME ds \in DOMAIN F
        PROVE  \A e \in {appendArray(d, one, "done"), appendArray(d, step.cells, "done"), appendAdapter(d, step.cells, "done")} :
                 DatasetOK(w, ds, e) /\ e.n = Len(e.rows)
    <3>1. DatasetOK(w, ds, d) /\ d.n = Len(d.rows)
      BY <1>1, <2>0, <2>2 DEF FileFull, FileOK
    <3> HIDE DEF d, one
    <3>2. DatasetOK(w, ds, appendArray(d, one, "done")) /\ appendArray(d, one, "done").n = Len(appendArray(d, one, "done").rows)
      BY <2>0, <2>1, <3>1, ArrayAppended
    <3>3. DatasetOK(w, ds, appendArray(d, step.cells, "done")) /\ appendArray(d, step.cells, "done").n = Len(appendArray(d, step.cells, "done").rows)
      BY <2>0, <3>1, ArrayAppended
    <3>4. DatasetOK(w, ds, appendAdapter(d, step.cells, "done")) /\ appendAdapter(d, step.cells, "done").n = Len(appendAdapter(d, step.cells, "done").rows)
      BY <2>0, <3>1, AdapterAppended
    <3> QED BY <3>2, <3>3, <3>4
  <2>3. \E e : /\ b = [a EXCEPT !.file[ds] = e, !.threw = FALSE]
               /\ ds \in DOMAIN F => DatasetOK(w, ds, e) /\ e.n = Len(e.rows)
    <3>1. CASE step.op = "element"
      <4>1. b = [a EXCEPT !.file[ds] = appendArray(d, one, "done"), !.threw = FALSE]
        BY <3>1 DEF DoStep, appendElement
      <4> HIDE DEF b, d, one
      <4> QED BY <2>2, <4>1
    <3>2. CASE step.op = "vector"
      <4>1. b = [a EXCEPT !.file[ds] = appendArray(d, step.cells, "done"), !.threw = FALSE]
        BY <3>2 DEF DoStep
      <4> HIDE DEF b, d, one
      <4> QED BY <2>2, <4>1
    <3>3. CASE step.op = "array"
      <4>1. b = [a EXCEPT !.file[ds] = appendAdapter(d, step.cells, "done"), !.threw = FALSE]
        BY <3>3 DEF DoStep
      <4> HIDE DEF b, d, one
      <4> QED BY <2>2, <4>1
    <3> QED BY <1>3, <3>1, <3>2, <3>3
  <2> HIDE DEF b, d, one
  <2>4. PICK e : /\ b = [a EXCEPT !.file[ds] = e, !.threw = FALSE]
                 /\ ds \in DOMAIN F => DatasetOK(w, ds, e) /\ e.n = Len(e.rows)
    BY <2>3
  <2>5. DOMAIN b = DOMAIN a /\ b.file = [F EXCEPT ![ds] = e] /\ b.mem = a.mem
    BY <1>1, <2>4
  <2> HIDE DEF F
  <2>6. DOMAIN b.file = DOMAIN F /\ \A x \in DOMAIN F : b.file[x] = IF x = ds THEN e ELSE F[x]
    BY <2>5
  <2>7. FileFull(w, b.file)
    BY <1>1, <2>4, <2>6 DEF FileFull, FileOK
  <2>8. AccFull(w, b)
    BY <1>1, <2>5, <2>7 DEF AccFull, AccOK
  <2> QED BY <1>3, <2>5, <2>6, <2>8 DEF Aside, F, b
<1> QED BY <1>2, <1>3 DEF AsideStep

\* Several of them.
LEMMA AsideTwice ==
  ASSUME NEW w, NEW a, NEW b, NEW c, Aside(w, a, b), Aside(w, b, c)
  PROVE  Aside(w, a, c)
BY DEF Aside

\* A script of them.
LEMMA AsideScript ==
  ASSUME NEW w, NEW a, AccFull(w, a), NEW s, IsAside(w, s), NEW b, Leads(a, s, b)
  PROVE  Aside(w, a, b)
<1> DEFINE N == Len(s)
<1>1. N \in Nat /\ \A i \in 1..N : StepOK(w, s[i]) /\ AsideStep(s[i])
  BY ListLength, ListMember DEF IsAside
<1>2. PICK f : f[0] = a /\ f[N] = b /\ IsPath(f, s)
  BY DEF Leads
<1>3. \A i \in 1..N : f[i] = DoStep(f[i - 1], s[i], "done")
  BY <1>2 DEF IsPath
<1> HIDE DEF N
<1> DEFINE T == {n \in Nat : n <= N /\ ~Aside(w, a, f[n])}
<1>4. SUFFICES ASSUME T # {} PROVE FALSE
  <2>1. T = {} => Aside(w, a, f[N])
    BY <1>1
  <2> QED BY <1>2, <2>1
<1>5. PICK n \in T : \A m \in T : n <= m
  BY <1>4, LeastNat
<1>6. n # 0
  <2>1. Aside(w, a, a)
    BY DEF Aside
  <2> QED BY <1>2, <1>5, <2>1
<1>7. n - 1 \in Nat /\ n - 1 <= N /\ n - 1 \notin T /\ n \in 1..N
  BY <1>1, <1>5, <1>6
<1>8. Aside(w, a, f[n - 1])
  BY <1>7
<1>9. Aside(w, f[n - 1], f[n])
  <2>1. AccFull(w, f[n - 1])
    BY <1>8 DEF Aside
  <2> QED BY <1>1, <1>3, <1>7, <2>1, AsideOne
<1> QED BY <1>5, <1>8, <1>9, AsideTwice

\* A list of such steps.
LEMMA AsideOf ==
  ASSUME NEW w, NEW S, NEW s \in Seq(S), \A x \in S : StepOK(w, x) /\ AsideStep(x)
  PROVE  IsAside(w, s)
BY ListOf DEF IsAside

\* Such steps, or none.
LEMMA AsideWhen ==
  ASSUME NEW w, NEW condition, NEW s, IsAside(w, s)
  PROVE  IsAside(w, When(condition, s))
<1> DEFINE e == << >>
           S == {}
<1>1. e \in Seq(S)
  OBVIOUS
<1>2. \A x \in S : StepOK(w, x) /\ AsideStep(x)
  OBVIOUS
<1> HIDE DEF e, S
<1>3. IsAside(w, e)
  BY <1>1, <1>2, AsideOf
<1> QED BY <1>3 DEF When, e

\* Such steps.
LEMMA AsideSet ==
  ASSUME NEW w, NEW member, member \notin IndexMembers, NEW value
  PROVE  StepOK(w, Set(member, value)) /\ AsideStep(Set(member, value))
BY StepOther DEF AsideStep, Set

\* Appends to other datasets.
LEMMA AsideAppend ==
  ASSUME NEW w, NEW ds, ds \notin IndexNames, NEW n
  PROVE  /\ \A x : StepOK(w, Element(ds, n, x)) /\ AsideStep(Element(ds, n, x))
         /\ \A xs : IsList(xs) => StepOK(w, Array(ds, n, xs)) /\ AsideStep(Array(ds, n, xs))
<1>1. ds # "value" /\ ~Wide(w, ds)
  BY DEF IndexNames, Wide
<1>2. ASSUME NEW x PROVE StepOK(w, Element(ds, n, x)) /\ AsideStep(Element(ds, n, x))
  BY <1>1, StepNamed DEF AsideStep, Element
<1>3. ASSUME NEW xs, IsList(xs) PROVE StepOK(w, Array(ds, n, xs)) /\ AsideStep(Array(ds, n, xs))
  <2>1. StepOK(w, Array(ds, n, xs))
    BY <1>1, <1>3, StepArray
  <2>2. Array(ds, n, xs).op = "array" /\ Array(ds, n, xs).ds = ds
    BY DEF Array
  <2> QED BY <2>1, <2>2 DEF AsideStep
<1> QED BY <1>2, <1>3

\* The comparison of the element types, the statistics, the alarms and the
\* pulse data.
LEMMA AsideParts ==
  ASSUME NEW w, NEW M, NEW n, NEW m
  PROVE  /\ \A known, configured, elem : IsAside(w, CheckType(M, known, configured, elem))
         /\ IsAside(w, LogStatistics(M, m))
         /\ \A x, y, z : IsAside(w, <<Element("alarm_time", n, x), Element("alarm_status", n, y),
                                      Element("alarm_severity", n, z)>>)
         /\ \A member, value : member \notin IndexMembers => IsAside(w, <<Set(member, value)>>)
<1>1. ASSUME NEW known, NEW configured, NEW elem PROVE IsAside(w, CheckType(M, known, configured, elem))
  <2> DEFINE a == Set("typeLog", TypeComparison(known, configured, elem))
             b == Set("HasCheckedMessageType", TRUE)
             s == <<a, b>>
  <2>1. \A x \in {a, b} : StepOK(w, x) /\ AsideStep(x)
    BY AsideSet DEF IndexMembers
  <2>2. CheckType(M, known, configured, elem) = When(~M.HasCheckedMessageType, s)
    BY DEF CheckType
  <2> HIDE DEF a, b
  <2>3. s \in Seq({a, b})
    OBVIOUS
  <2> HIDE DEF s
  <2> QED BY <2>1, <2>2, <2>3, AsideOf, AsideWhen
<1>2. IsAside(w, LogStatistics(M, m))
  <2>1. \E a, b, x, y : LogStatistics(M, m) = <<Set("Min", a), Set("Max", b), Set("Sum", x), Set("TotalNrOfElementsWritten", y)>>
    BY Zenon DEF LogStatistics
  <2>2. PICK a, b, x, y : LogStatistics(M, m) = <<Set("Min", a), Set("Max", b), Set("Sum", x), Set("TotalNrOfElementsWritten", y)>>
    BY <2>1
  <2> DEFINE p == Set("Min", a)
             q == Set("Max", b)
             r == Set("Sum", x)
             u == Set("TotalNrOfElementsWritten", y)
             s == <<p, q, r, u>>
  <2>3. \A z \in {p, q, r, u} : StepOK(w, z) /\ AsideStep(z)
    BY AsideSet DEF IndexMembers
  <2> HIDE DEF p, q, r, u
  <2>4. s \in Seq({p, q, r, u})
    OBVIOUS
  <2>5. LogStatistics(M, m) = s
    BY <2>2 DEF p, q, r, u
  <2> HIDE DEF s
  <2> QED BY <2>3, <2>4, <2>5, AsideOf
<1>3. ASSUME NEW x, NEW y, NEW z
      PROVE  IsAside(w, <<Element("alarm_time", n, x), Element("alarm_status", n, y), Element("alarm_severity", n, z)>>)
  <2> DEFINE a == Element("alarm_time", n, x)
             b == Element("alarm_status", n, y)
             c == Element("alarm_severity", n, z)
             s == <<a, b, c>>
  <2>1. \A q \in {a, b, c} : StepOK(w, q) /\ AsideStep(q)
    BY AsideAppend DEF IndexNames
  <2> HIDE DEF a, b, c
  <2>2. s \in Seq({a, b, c})
    OBVIOUS
  <2> HIDE DEF s
  <2>3. IsAside(w, s)
    BY <2>1, <2>2, AsideOf
  <2> QED BY <2>3 DEF s, a, b, c
<1>4. ASSUME NEW member, NEW value, member \notin IndexMembers PROVE IsAside(w, <<Set(member, value)>>)
  <2> DEFINE a == Set(member, value)
             s == <<a>>
  <2>1. \A x \in {a} : StepOK(w, x) /\ AsideStep(x)
    BY <1>4, AsideSet
  <2> HIDE DEF a
  <2>2. s \in Seq({a})
    OBVIOUS
  <2> HIDE DEF s
  <2>3. IsAside(w, s)
    BY <2>1, <2>2, AsideOf
  <2> QED BY <2>3 DEF s, a
<1> QED BY <1>1, <1>2, <1>3, <1>4

\* The pulse data of ev42.
LEMMA AsidePulses ==
  ASSUME NEW w, NEW n, NEW m, IsList(m.tof), \A i \in DOMAIN AdcDatasets : IsList(m.adc[i])
  PROVE  IsAside(w, writeAdcPulseData(n, m))
<1> DEFINE s == writeAdcPulseData(n, m)
           Like(x) == \E ds, xs : ds \notin IndexNames /\ x = Array(ds, n, xs)
<1>1. IsScript(w, s)
  BY AdcScript
<1>2. \A i \in DOMAIN AdcDatasets : AdcDatasets[i] \notin IndexNames
  BY DEF AdcDatasets, IndexNames
<1>3. \A x \in Range(s) : Like(x)
  <2>1. \A x \in Range(writeAdcPulseDataFromMessageToFile(n, m)) : Like(x)
    <3>1. \A x \in Range(writeAdcPulseDataFromMessageToFile(n, m)) : \E i \in DOMAIN AdcDatasets : x = Array(AdcDatasets[i], n, m.adc[i])
      BY DEF Range, writeAdcPulseDataFromMessageToFile
    <3> QED BY <1>2, <3>1
  <2>2. \A x \in Range(padDatasetsWithZeroesEqualToNumberOfEvents(n, m)) : Like(x)
    <3>1. \A x \in Range(padDatasetsWithZeroesEqualToNumberOfEvents(n, m)) : \E i \in DOMAIN AdcDatasets : x = Array(AdcDatasets[i], n, [j \in DOMAIN m.tof |-> 0])
      BY DEF Range, padDatasetsWithZeroesEqualToNumberOfEvents
    <3> DEFINE zeros == [j \in DOMAIN m.tof |-> 0]
    <3> HIDE DEF zeros
    <3> QED BY <1>2, <3>1 DEF zeros
  <2> HIDE DEF Like
  <2> QED BY <2>1, <2>2 DEF writeAdcPulseData
<1>4. \A x : Like(x) => AsideStep(x)
  <2>1. \A ds, xs : Array(ds, n, xs).op = "array" /\ Array(ds, n, xs).ds = ds
    BY DEF Array
  <2> QED BY <2>1 DEF AsideStep
<1> QED BY <1>1, <1>3, <1>4 DEF IsAside, IsScript

\* Rows of what was added.
LEMMA AddedOne ==
  ASSUME NEW w, NEW F, FileFull(w, F), NEW G, NEW ds \in DOMAIN F, NEW cell, Adds(F, G, ds, <<cell>>)
  PROVE  OneMore(F[ds].rows, G[ds].rows, cell)
<1> DEFINE r == F[ds].rows
           s == G[ds].rows
<1>1. IsList(r) /\ s = r \o <<cell>>
  BY DEF FileFull, FileOK, DatasetOK, Adds
<1> HIDE DEF r, s
<1>2. OneMore(r, s, cell)
  BY <1>1, JoinedOne DEF OneMore
<1> QED BY <1>2 DEF r, s

\* One more cell of message n is one more row of message n.
LEMMA OneGrown ==
  ASSUME NEW r, NEW s, NEW n, NEW x, OneMore(r, s, Cell(n, x))
  PROVE  Grown(r, s, 1, n) /\ s[Len(r) + 1].x = x
<1>1. Len(r) \in Nat
  BY ListLength DEF OneMore
<1>2. Cell(n, x).k = n /\ Cell(n, x).x = x
  BY DEF Cell
<1>3. \A i \in 1..Len(s) : i > Len(r) => i = Len(r) + 1
  BY <1>1 DEF OneMore
<1> QED BY <1>1, <1>2, <1>3 DEF OneMore, Grown

\* The rows of the cells of an array.
LEMMA AddedCells ==
  ASSUME NEW w, NEW F, FileFull(w, F), NEW G, NEW ds \in DOMAIN F, NEW n, NEW xs, IsList(xs),
         Adds(F, G, ds, Cells(n, xs))
  PROVE  Grown(F[ds].rows, G[ds].rows, Len(xs), n)
<1> DEFINE r == F[ds].rows
           s == G[ds].rows
           t == Cells(n, xs)
           L == Len(xs)
<1>1. IsList(r) /\ s = r \o t
  BY DEF FileFull, FileOK, DatasetOK, Adds
<1>2. L \in Nat /\ DOMAIN xs = 1..L
  BY ListLength
<1>3. IsList(t) /\ Len(t) = L /\ \A i \in 1..L : t[i].k = n
  <2>1. t = [i \in 1..L |-> t[i]] /\ \A i \in 1..L : t[i] = Cell(n, <<xs[i]>>)
    BY <1>2 DEF Cells
  <2> HIDE DEF t, L
  <2>2. IsList(t) /\ Len(t) = L
    BY <1>2, <2>1, ListMade
  <2>3. \A x : Cell(n, x).k = n
    BY DEF Cell
  <2> QED BY <2>1, <2>2, <2>3
<1> HIDE DEF r, s, t, L
<1>4. /\ IsList(s) /\ Len(r) \in Nat /\ Len(s) = Len(r) + L /\ \A i \in 1..Len(r) : s[i] = r[i]
      /\ \A i \in 1..Len(s) : i > Len(r) => s[i] = t[i - Len(r)]
  BY <1>1, <1>3, JoinedMembers
<1>5. ASSUME NEW i \in 1..Len(s), i > Len(r) PROVE s[i].k = n
  <2>1. i - Len(r) \in 1..L
    BY <1>2, <1>4, <1>5
  <2> QED BY <1>3, <1>4, <1>5, <2>1
<1>6. Grown(r, s, L, n)
  BY <1>1, <1>4, <1>5 DEF Grown
<1> QED BY <1>6 DEF r, s, L
-----------------------------------------------------------------------------
(* The cue of a message                                                    *)

\* Nothing but the cues is changed: one is added, or none.
ButCues(w, a, b) ==
  /\ AccFull(w, b) /\ DOMAIN b.file = DOMAIN a.file
  /\ \A ds \in DOMAIN a.file \ {"cue_index", "cue_timestamp_zero"} : b.file[ds].rows = a.file[ds].rows
CueAdded(F, G, n, v, y) ==
  /\ OneMore(F["cue_index"].rows, G["cue_index"].rows, Cell(n, <<v>>))
  /\ OneMore(F["cue_timestamp_zero"].rows, G["cue_timestamp_zero"].rows, Cell(n, <<y>>))
NoCue(F, G) ==
  /\ G["cue_index"].rows = F["cue_index"].rows
  /\ G["cue_timestamp_zero"].rows = F["cue_timestamp_zero"].rows
HasCues(F) == {"cue_index", "cue_timestamp_zero"} \subseteq DOMAIN F

\* The two appends of a cue, in either order.
LEMMA CueElements ==
  ASSUME NEW w, NEW a, AccFull(w, a), HasCues(a.file), NEW n, NEW v, NEW y, NEW e, NEW b,
         \/ Leads(a, <<Element("cue_index", n, v)>>, e) /\ Leads(e, <<Element("cue_timestamp_zero", n, y)>>, b)
         \/ Leads(a, <<Element("cue_timestamp_zero", n, y)>>, e) /\ Leads(e, <<Element("cue_index", n, v)>>, b)
  PROVE  ButCues(w, a, b) /\ CueAdded(a.file, b.file, n, v, y) /\ b.mem = a.mem
<1>0. ~Wide(w, "cue_index") /\ ~Wide(w, "cue_timestamp_zero") /\ {"cue_index", "cue_timestamp_zero"} \subseteq DOMAIN a.file
  BY DEF Wide, HasCues
<1>1. ASSUME NEW p, NEW q, NEW x, NEW z, p # q, ~Wide(w, p), ~Wide(w, q), p \in DOMAIN a.file, q \in DOMAIN a.file,
             Leads(a, <<Element(p, n, x)>>, e), Leads(e, <<Element(q, n, z)>>, b)
      PROVE  /\ AccFull(w, b) /\ DOMAIN b.file = DOMAIN a.file /\ b.mem = a.mem
             /\ \A ds \in DOMAIN a.file \ {p, q} : b.file[ds].rows = a.file[ds].rows
             /\ OneMore(a.file[p].rows, b.file[p].rows, Cell(n, <<x>>))
             /\ OneMore(a.file[q].rows, b.file[q].rows, Cell(n, <<z>>))
  <2> DEFINE cx == Cell(n, <<x>>)
             cz == Cell(n, <<z>>)
  <2>1. AccFull(w, e) /\ e.mem = a.mem /\ Adds(a.file, e.file, p, <<cx>>)
    BY <1>1, DidElement
  <2>2. q \in DOMAIN e.file /\ p \in DOMAIN e.file /\ DOMAIN e.file = DOMAIN a.file
    BY <1>1, <2>1 DEF Adds
  <2>3. AccFull(w, b) /\ b.mem = e.mem /\ Adds(e.file, b.file, q, <<cz>>)
    BY <1>1, <2>1, <2>2, DidElement
  <2> HIDE DEF cx, cz
  <2>4. FileFull(w, a.file) /\ FileFull(w, e.file)
    BY <2>1 DEF AccFull
  <2>5. OneMore(a.file[p].rows, e.file[p].rows, cx) /\ OneMore(e.file[q].rows, b.file[q].rows, cz)
    BY <1>1, <2>1, <2>2, <2>3, <2>4, AddedOne
  <2>6. /\ DOMAIN b.file = DOMAIN a.file /\ e.file[q].rows = a.file[q].rows /\ b.file[p].rows = e.file[p].rows
        /\ \A ds \in DOMAIN a.file \ {p, q} : b.file[ds].rows = a.file[ds].rows
    BY <1>1, <2>1, <2>2, <2>3 DEF Adds
  <2> QED BY <2>1, <2>3, <2>5, <2>6 DEF cx, cz
<1>2. CASE Leads(a, <<Element("cue_index", n, v)>>, e) /\ Leads(e, <<Element("cue_timestamp_zero", n, y)>>, b)
  BY <1>0, <1>1, <1>2 DEF ButCues, CueAdded
<1>3. CASE Leads(a, <<Element("cue_timestamp_zero", n, y)>>, e) /\ Leads(e, <<Element("cue_index", n, v)>>, b)
  BY <1>0, <1>1, <1>3 DEF ButCues, CueAdded
<1> QED BY <1>2, <1>3

\* The cue of a log.
LEMMA LogCueLeads ==
  ASSUME NEW w, NEW a, AccFull(w, a), HasCues(a.file), NEW c, NEW M, NEW n, NEW m, NEW b,
         Leads(a, LogCue(c, M, n, m), b)
  PROVE  /\ ButCues(w, a, b) /\ b.mem.NrOfWrites = M.NrOfWrites + 1
         /\ NoCue(a.file, b.file) \/ CueAdded(a.file, b.file, n, RowNumber((M.NrOfWrites + 1) - 1), m.t)
<1> DEFINE writes == M.NrOfWrites + 1
           s == <<Set("NrOfWrites", writes)>>
           x == Set("LastIndexAtWrite", writes)
           y == Element("cue_index", n, RowNumber(writes - 1))
           z == Element("cue_timestamp_zero", n, m.t)
           t == <<x, y, z>>
           condition == (writes - M.LastIndexAtWrite) \div c.interval > 0
           u == When(condition, t)
<1>1. LogCue(c, M, n, m) = s \o u
  BY DEF LogCue
<1>2. IsList(s) /\ IsList(u)
  <2>1. IsScript(w, s)
    BY StepOther, Script1
  <2>2. IsScript(w, t)
    BY StepNamed, StepOther, Script3
  <2> HIDE DEF s, t, condition
  <2> QED BY <2>1, <2>2, ScriptWhen DEF IsScript
<1> HIDE DEF u
<1>3. PICK e : Leads(a, s, e) /\ Leads(e, u, b)
  <2> HIDE DEF s
  <2> QED BY <1>1, <1>2, PathSplit
<1>d. "NrOfWrites" \in DOMAIN Members /\ "LastIndexAtWrite" \in DOMAIN Members
  BY DEF Members
<1>4. AccFull(w, e) /\ e.file = a.file /\ e.mem = [a.mem EXCEPT !["NrOfWrites"] = writes]
  BY <1>3, <1>d, DidSet
<1>5. e.mem.NrOfWrites = writes /\ DOMAIN e.mem = DOMAIN Members
  <2>1. DOMAIN a.mem = DOMAIN Members
    BY DEF AccFull
  <2> QED BY <1>4, <1>d, <2>1
<1>6. CASE u = << >>
  <2>1. b = e
    BY <1>3, <1>6, PathNone
  <2> QED BY <1>4, <1>5, <2>1 DEF ButCues, NoCue
<1>7. CASE u = t
  <2> HIDE DEF x, y, z
  <2>1. PICK g : Leads(e, <<x, y>>, g) /\ Leads(g, <<z>>, b)
    BY <1>3, <1>7, PathThree
  <2>2. PICK f : Leads(e, <<x>>, f) /\ Leads(f, <<y>>, g)
    BY <2>1, PathTwo
  <2>3. AccFull(w, f) /\ f.file = e.file /\ f.mem = [e.mem EXCEPT !["LastIndexAtWrite"] = writes]
    BY <1>4, <1>d, <2>2, DidSet DEF x
  <2>4. f.mem.NrOfWrites = writes
    BY <1>5, <1>d, <2>3
  <2>5. ButCues(w, f, b) /\ CueAdded(f.file, b.file, n, RowNumber(writes - 1), m.t) /\ b.mem = f.mem
    BY <1>4, <2>1, <2>2, <2>3, CueElements DEF y, z
  <2>6. f.file = a.file /\ b.mem.NrOfWrites = writes
    BY <1>4, <2>3, <2>4, <2>5
  <2>7. ButCues(w, a, b) /\ CueAdded(a.file, b.file, n, RowNumber(writes - 1), m.t)
    BY <2>5, <2>6, Zenon DEF ButCues
  <2> QED BY <2>6, <2>7, Zenon
<1>8. u = << >> \/ u = t
  BY DEF u, When
<1> QED BY <1>6, <1>7, <1>8
-----------------------------------------------------------------------------
(* What write() of each module adds                                        *)

HasTargets(w, F) == CueTargets(w) \cup {"cue_index", "cue_timestamp_zero"} \subseteq DOMAIN F

\* Message n was handled completely.
Handled(w, a, b, n) == AccFull(w, b) /\ DOMAIN b.file = DOMAIN a.file /\ CueStep(w, a.file, b.file, n)

\* f144 and f142: a time, a value and, possibly, a cue.
LEMMA LogLeads ==
  ASSUME NEW w, w \in {"f144", "f142"}, NEW a, AccFull(w, a), HasTargets(w, a.file), NEW c, NEW M, NEW n, NEW m, NEW type,
         M.NrOfWrites = Len(a.file["time"].rows), m.vals # << >>,
         NEW t, IsAside(w, t), NEW e, NEW f, NEW b, Leads(a, <<Element("time", n, m.t)>> \o t, e),
         Leads(e, appendData(type, n, m) \o LogCue(c, M, n, m), f), AccFull(w, f) => Aside(w, f, b)
  PROVE  Handled(w, a, b, n) /\ b.mem.NrOfWrites = Len(b.file["time"].rows)
<1> DEFINE one == <<Element("time", n, m.t)>>
           row == <<Row("value", n, ConvertAll(type, m.vals), <<Len(m.vals)>>)>>
           cue == LogCue(c, M, n, m)
           ct == Cell(n, <<m.t>>)
           cv == Cell(n, ConvertAll(type, m.vals))
           D == {"time", "value", "cue_index", "cue_timestamp_zero"}
           N == Len(a.file["time"].rows)
<1>0. D \subseteq DOMAIN a.file /\ D \subseteq IndexNames /\ ~Wide(w, "time") /\ Wide(w, "value") /\ CueTargets(w) = {"time", "value"}
  BY DEF HasTargets, CueTargets, IndexNames, Wide
<1>1. IsList(one) /\ IsList(row) /\ IsList(cue) /\ IsList(t) /\ appendData(type, n, m) = row
  <2>1. appendData(type, n, m) = row
    BY DEF appendData, When
  <2>2. IsList(one) /\ IsList(cue) /\ IsList(appendData(type, n, m))
    BY LogScript DEF IsScript
  <2> QED BY <2>1, <2>2 DEF IsAside
<1> HIDE DEF one, row, cue, ct, cv
<1>2. PICK p : Leads(a, one, p) /\ Leads(p, t, e)
  BY <1>1, PathSplit DEF one
<1>3. AccFull(w, p) /\ Adds(a.file, p.file, "time", <<ct>>)
  <2>1. "time" \in DOMAIN a.file
    BY <1>0
  <2> QED BY <1>0, <1>2, <2>1, DidElement DEF one, ct
<1>4. Aside(w, p, e)
  BY <1>2, <1>3, AsideScript
<1>5. PICK g : Leads(e, row, g) /\ Leads(g, cue, f)
  BY <1>1, PathSplit DEF cue
<1>6. DOMAIN p.file = DOMAIN a.file /\ DOMAIN e.file = DOMAIN a.file /\ AccFull(w, e)
  BY <1>3, <1>4 DEF Adds, Aside
<1>7. AccFull(w, g) /\ Adds(e.file, g.file, "value", <<cv>>)
  <2>1. "value" \in DOMAIN e.file
    BY <1>0, <1>6
  <2> QED BY <1>0, <1>5, <1>6, <2>1, DidRow DEF row, cv
<1>8. DOMAIN g.file = DOMAIN a.file /\ HasCues(g.file)
  BY <1>0, <1>6, <1>7 DEF Adds, HasCues
<1>9. /\ ButCues(w, g, f) /\ f.mem.NrOfWrites = N + 1
      /\ NoCue(g.file, f.file) \/ CueAdded(g.file, f.file, n, RowNumber(N), m.t)
  <2>1. /\ ButCues(w, g, f) /\ f.mem.NrOfWrites = M.NrOfWrites + 1
        /\ NoCue(g.file, f.file) \/ CueAdded(g.file, f.file, n, RowNumber((M.NrOfWrites + 1) - 1), m.t)
    BY <1>5, <1>7, <1>8, LogCueLeads DEF cue
  <2>2. N \in Nat
    BY <1>0, ListLength DEF AccFull, FileFull, FileOK, DatasetOK
  <2>3. M.NrOfWrites = N /\ (N + 1) - 1 = N
    BY <2>2
  <2> HIDE DEF N
  <2> QED BY <2>1, <2>3
<1>a. Aside(w, f, b)
  BY <1>9 DEF ButCues
<1>10. AccFull(w, b) /\ DOMAIN b.file = DOMAIN a.file /\ DOMAIN f.file = DOMAIN a.file
  BY <1>8, <1>9, <1>a DEF Aside, ButCues
<1>11. \A ds \in D : b.file[ds].rows = f.file[ds].rows /\ e.file[ds].rows = p.file[ds].rows
  BY <1>0, <1>4, <1>6, <1>10, <1>a DEF Aside
<1>12. b.mem.NrOfWrites = N + 1
  BY <1>9, <1>a DEF Aside, IndexMembers
<1>13. /\ b.file["time"].rows = p.file["time"].rows
       /\ e.file["value"].rows = a.file["value"].rows /\ b.file["value"].rows = g.file["value"].rows
       /\ g.file["cue_index"].rows = a.file["cue_index"].rows
       /\ g.file["cue_timestamp_zero"].rows = a.file["cue_timestamp_zero"].rows
  BY <1>0, <1>3, <1>6, <1>7, <1>8, <1>9, <1>11 DEF Adds, ButCues
<1>14. OneMore(a.file["time"].rows, b.file["time"].rows, ct)
  <2>1. "time" \in DOMAIN a.file /\ FileFull(w, a.file)
    BY <1>0 DEF AccFull
  <2>2. OneMore(a.file["time"].rows, p.file["time"].rows, ct)
    BY <1>3, <2>1, AddedOne
  <2> QED BY <1>13, <2>2
<1>15. OneMore(a.file["value"].rows, b.file["value"].rows, cv)
  <2>1. "value" \in DOMAIN e.file /\ FileFull(w, e.file)
    BY <1>0, <1>6 DEF AccFull
  <2>2. OneMore(e.file["value"].rows, g.file["value"].rows, cv)
    BY <1>7, <2>1, AddedOne
  <2> QED BY <1>13, <2>2
<1>16. /\ Grown(a.file["time"].rows, b.file["time"].rows, 1, n) /\ b.file["time"].rows[N + 1].x = <<m.t>>
       /\ Grown(a.file["value"].rows, b.file["value"].rows, 1, n)
  BY <1>14, <1>15, OneGrown DEF ct, cv
<1>17. NoCue(a.file, b.file) \/ CueAdded(a.file, b.file, n, RowNumber(N), m.t)
  BY <1>9, <1>11, <1>13 DEF NoCue, CueAdded
<1>18. CueStep(w, a.file, b.file, n)
  <2>1. \A ds \in CueTargets(w) : Grown(a.file[ds].rows, b.file[ds].rows, 1, n)
    BY <1>0, <1>16
  <2>2. 1 \in Nat /\ 1 >= 1
    OBVIOUS
  <2>3. Number(w, N) = RowNumber(N)
    BY DEF Number
  <2> QED BY <1>16, <1>17, <2>1, <2>2, <2>3 DEF CueStep, NoCue, CueAdded
<1>19. Len(b.file["time"].rows) = N + 1
  BY <1>14 DEF OneMore
<1> QED BY <1>10, <1>12, <1>18, <1>19 DEF Handled

\* A script that may end in an exception, and did not.
LEMMA NotThrown ==
  ASSUME NEW w, NEW a, AccFull(w, a), NEW failed, NEW s, NEW b, Leads(a, IF failed THEN <<Throw>> ELSE s, b)
  PROVE  ~failed /\ Leads(a, s, b)
BY DidThrow

\* write() of a log module led from a to b.
LogWritten(a, b, c, F, M, n, m) ==
  Leads(a, f144_write(c, F, M, n, m), b) \/ Leads(a, f142_write(c, F, M, n, m), b)

\* A message of a log module with a value.
LEMMA LogHandled ==
  ASSUME NEW w, w \in {"f144", "f142"}, NEW a, AccFull(w, a), HasTargets(w, a.file), NEW c, NEW F, NEW M, NEW n, NEW m,
         M.NrOfWrites = Len(a.file["time"].rows), m.vals # << >>, NEW b,
         LogWritten(a, b, c, F, M, n, m)
  PROVE  Handled(w, a, b, n) /\ b.mem.NrOfWrites = Len(b.file["time"].rows)
<1> DEFINE one == <<Element("time", n, m.t)>>
           d1 == appendData(f144_config_post_processing(c), n, m)
           d2 == appendData(f142_config_post_processing(c), n, m)
           q == LogCue(c, M, n, m)
           f == When(c.meta, LogStatistics(M, m))
           g == << Element("alarm_time", n, m.t),
                   Element("alarm_status", n, AlarmStatusToString(m.status)),
                   Element("alarm_severity", n, F142SeverityToAl00Severity[m.severity]) >>
           h == When(m.status # "NO_CHANGE", g)
           failed == m.elem \notin Ints \cup Floats
           t1 == CheckType(M, f144_Known(m), f144_config_post_processing(c), m.elem)
           t2 == CheckType(M, f142_Known(m), f142_config_post_processing(c), m.elem)
<1>1. /\ f144_write(c, F, M, n, m) = one \o t1 \o (IF failed THEN <<Throw>> ELSE d1 \o q \o f)
      /\ f142_write(c, F, M, n, m) = one \o t2 \o (IF failed THEN <<Throw>> ELSE d2 \o q \o f \o h)
  BY Zenon DEF f144_write, f142_write
<1>2. IsAside(w, t1) /\ IsAside(w, t2) /\ IsAside(w, f) /\ IsAside(w, h)
  BY AsideParts, AsideWhen
<1>3. IsScript(w, one) /\ IsScript(w, <<Throw>>) /\ IsScript(w, d1) /\ IsScript(w, d2) /\ IsScript(w, q)
  BY LogScript
<1> HIDE DEF one, d1, d2, q, f, g, h, failed, t1, t2
<1>4. IsScript(w, f) /\ IsScript(w, h) /\ IsScript(w, t1) /\ IsScript(w, t2)
  BY <1>2 DEF IsAside, IsScript
<1>5. /\ IsScript(w, d1 \o q) /\ IsScript(w, d1 \o q \o f)
      /\ IsScript(w, d2 \o q) /\ IsScript(w, d2 \o q \o f) /\ IsScript(w, d2 \o q \o f \o h)
      /\ IsScript(w, one \o t1) /\ IsScript(w, one \o t2)
  BY <1>3, <1>4, ScriptsJoined
<1>6. ASSUME NEW t, IsAside(w, t), IsScript(w, one \o t), NEW s, IsScript(w, s),
             Leads(a, one \o t \o (IF failed THEN <<Throw>> ELSE s), b)
      PROVE  \E e : Leads(a, one \o t, e) /\ AccFull(w, e) /\ Leads(e, s, b)
  <2> DEFINE r == IF failed THEN <<Throw>> ELSE s
  <2>1. IsList(r) /\ IsList(one \o t) /\ IsList(one) /\ IsList(t)
    BY <1>3, <1>6 DEF IsScript, IsAside
  <2> HIDE DEF r
  <2>2. PICK e : Leads(a, one \o t, e) /\ Leads(e, r, b)
    BY <1>6, <2>1, PathSplit DEF r
  <2>3. PICK p : Leads(a, one, p) /\ Leads(p, t, e)
    BY <2>1, <2>2, PathSplit
  <2>4. AccFull(w, p)
    <3>1. "time" \in DOMAIN a.file /\ ~Wide(w, "time")
      BY DEF HasTargets, CueTargets, Wide
    <3> QED BY <2>3, <3>1, DidElement DEF one
  <2>5. AccFull(w, e)
    BY <1>6, <2>3, <2>4, AsideScript DEF Aside
  <2>6. Leads(e, s, b)
    BY <2>2, <2>5, NotThrown DEF r
  <2> QED BY <2>2, <2>5, <2>6
<1>7. CASE Leads(a, f144_write(c, F, M, n, m), b)
  <2>1. PICK e : Leads(a, one \o t1, e) /\ AccFull(w, e) /\ Leads(e, d1 \o q \o f, b)
    BY <1>1, <1>2, <1>5, <1>6, <1>7
  <2>2. PICK p : Leads(e, d1 \o q, p) /\ Leads(p, f, b)
    BY <1>4, <1>5, <2>1, PathSplit DEF IsScript
  <2>3. AccFull(w, p) => Aside(w, p, b)
    BY <1>2, <2>2, AsideScript
  <2> QED BY <1>2, <2>1, <2>2, <2>3, LogLeads DEF one, d1, q
<1>8. CASE Leads(a, f142_write(c, F, M, n, m), b)
  <2>1. PICK e : Leads(a, one \o t2, e) /\ AccFull(w, e) /\ Leads(e, d2 \o q \o f \o h, b)
    BY <1>1, <1>2, <1>5, <1>6, <1>8
  <2>2. PICK u : Leads(e, d2 \o q \o f, u) /\ Leads(u, h, b)
    BY <1>4, <1>5, <2>1, PathSplit DEF IsScript
  <2>3. PICK p : Leads(e, d2 \o q, p) /\ Leads(p, f, u)
    BY <1>4, <1>5, <2>2, PathSplit DEF IsScript
  <2>4. ASSUME AccFull(w, p) PROVE Aside(w, p, b)
    <3>1. Aside(w, p, u)
      BY <1>2, <2>3, <2>4, AsideScript
    <3>2. Aside(w, u, b)
      BY <1>2, <2>2, <3>1, AsideScript DEF Aside
    <3> QED BY <3>1, <3>2, AsideTwice
  <2> QED BY <1>2, <2>1, <2>3, <2>4, LogLeads DEF one, d2, q
<1> QED BY <1>7, <1>8 DEF LogWritten

\* Steps aside before a message's rows are added.
LEMMA HandledAfter ==
  ASSUME NEW w, NEW a, NEW e, NEW b, NEW n, HasTargets(w, a.file), Aside(w, a, e), Handled(w, e, b, n)
  PROVE  Handled(w, a, b, n)
<1>1. \A ds \in CueTargets(w) \cup {"time", "cue_index", "cue_timestamp_zero"} : e.file[ds].rows = a.file[ds].rows
  <2>1. \A ds \in CueTargets(w) \cup {"time", "cue_index", "cue_timestamp_zero"} : ds \in IndexNames /\ ds \in DOMAIN a.file
    BY DEF CueTargets, IndexNames, HasTargets
  <2> QED BY <2>1 DEF Aside
<1>2. CueStep(w, a.file, b.file, n)
  <2>1. CueStep(w, e.file, b.file, n)
    BY DEF Handled
  <2> QED BY <1>1, <2>1 DEF CueStep
<1> QED BY <1>2 DEF Handled, Aside

\* Messages are counted, and a cue comes with the last one of an interval.
LEMMA DidCount ==
  ASSUME NEW w, NEW a, AccFull(w, a), NEW value, NEW b, Leads(a, <<Set("CueCounter", value)>>, b)
  PROVE  AccFull(w, b) /\ b.file = a.file
<1>1. "CueCounter" \in DOMAIN Members
  BY DEF Members
<1>2. AccFull(w, b) /\ b.file = a.file /\ b.mem = [a.mem EXCEPT !["CueCounter"] = value]
  BY <1>1, DidSet
<1> QED BY <1>2

\* The cue of the modules that count messages.
LEMMA CounterCueLeads ==
  ASSUME NEW w, NEW a, AccFull(w, a), HasCues(a.file), NEW c, NEW F, NEW M, NEW n, NEW y, NEW b,
         Leads(a, CounterCue(c, F, M, n, y), b)
  PROVE  ButCues(w, a, b) /\ (NoCue(a.file, b.file) \/ CueAdded(a.file, b.file, n, RowNumber(Extent(F, "time")), y))
<1> DEFINE x == Set("CueCounter", M.CueCounter + 1)
           p == Element("cue_index", n, RowNumber(Extent(F, "time")))
           q == Element("cue_timestamp_zero", n, y)
           z == Set("CueCounter", 0)
<1>1. CounterCue(c, F, M, n, y) = IF M.CueCounter + 1 = c.interval THEN <<x, p, q, z>> ELSE <<x>>
  BY DEF CounterCue
<1> HIDE DEF p, q
<1>2. CASE Leads(a, <<x>>, b)
  <2>1. AccFull(w, b) /\ b.file = a.file
    BY <1>2, DidCount, Zenon
  <2> QED BY <2>1 DEF ButCues, NoCue
<1>3. CASE Leads(a, <<x, p, q, z>>, b)
  <2> HIDE DEF x, z
  <2>1. PICK g : Leads(a, <<x, p, q>>, g) /\ Leads(g, <<z>>, b)
    BY <1>3, PathFour
  <2>2. PICK f : Leads(a, <<x, p>>, f) /\ Leads(f, <<q>>, g)
    BY <2>1, PathThree
  <2>3. PICK e : Leads(a, <<x>>, e) /\ Leads(e, <<p>>, f)
    BY <2>2, PathTwo
  <2>4. AccFull(w, e) /\ e.file = a.file
    BY DidCount, <2>3 DEF x
  <2>5. ButCues(w, e, g) /\ CueAdded(e.file, g.file, n, RowNumber(Extent(F, "time")), y)
    BY <2>2, <2>3, <2>4, CueElements DEF p, q
  <2>6. AccFull(w, b) /\ b.file = g.file
    BY DidCount, <2>1, <2>5 DEF z, ButCues
  <2> QED BY <2>4, <2>5, <2>6 DEF ButCues
<1> HIDE DEF x, z
<1> QED BY <1>1, <1>2, <1>3

\* A value, its time and, possibly, a cue.
LEMMA PairLeads ==
  ASSUME NEW w, w \in {"ADAr", "NDAr", "ns10"}, NEW a, AccFull(w, a), HasTargets(w, a.file), NEW c, NEW F, NEW M, NEW n,
         Extent(F, "time") = Len(a.file["time"].rows), NEW y, NEW y0, w # "ns10" => y0 = y, NEW step, NEW b,
         \/ w # "ns10" /\ \E x, shape : step = Row("value", n, x, shape)
         \/ w = "ns10" /\ \E x : step = Element("value", n, x),
         Leads(a, <<step, Element("time", n, y)>> \o CounterCue(c, F, M, n, y0), b)
  PROVE  Handled(w, a, b, n)
<1> DEFINE pair == <<step, Element("time", n, y)>>
           cue == CounterCue(c, F, M, n, y0)
           ct == Cell(n, <<y>>)
           D == {"time", "value", "cue_index", "cue_timestamp_zero"}
           N == Len(a.file["time"].rows)
<1>0. D \subseteq DOMAIN a.file /\ ~Wide(w, "time") /\ (Wide(w, "value") <=> w # "ns10") /\ CueTargets(w) = {"time", "value"}
  BY DEF HasTargets, CueTargets, Wide
<1>1. IsList(pair) /\ IsList(cue)
  <2>1. \A p, q : IsList(<<p, q>>)
    <3>1. ASSUME NEW p, NEW q PROVE IsList(<<p, q>>)
      <4> DEFINE s == <<p, q>>
      <4>1. s \in Seq({p, q})
        OBVIOUS
      <4> HIDE DEF s
      <4>2. IsList(s)
        BY <4>1, ListOf
      <4> QED BY <4>2 DEF s
    <3> QED BY <3>1
  <2> QED BY <2>1, CounterCueScript DEF IsScript
<1>2. PICK g : Leads(a, pair, g) /\ Leads(g, cue, b)
  <2> HIDE DEF pair, cue
  <2> QED BY <1>1, PathSplit DEF pair, cue
<1>3. PICK p : Leads(a, <<step>>, p) /\ Leads(p, <<Element("time", n, y)>>, g)
  BY <1>2, PathTwo
<1> HIDE DEF pair, cue, ct
<1>4. PICK x : AccFull(w, p) /\ Adds(a.file, p.file, "value", <<Cell(n, x)>>)
  <2>1. "value" \in DOMAIN a.file
    BY <1>0
  <2>2. CASE w # "ns10"
    <3>1. PICK x, shape : step = Row("value", n, x, shape)
      BY <2>2
    <3> QED BY <1>0, <1>3, <2>1, <2>2, <3>1, DidRow
  <2>3. CASE w = "ns10"
    <3>1. PICK x : step = Element("value", n, x)
      BY <2>3
    <3> QED BY <1>0, <1>3, <2>1, <2>3, <3>1, DidElement
  <2> QED BY <2>2, <2>3
<1>5. DOMAIN p.file = DOMAIN a.file
  BY <1>4 DEF Adds
<1>6. AccFull(w, g) /\ Adds(p.file, g.file, "time", <<ct>>)
  <2>1. "time" \in DOMAIN p.file
    BY <1>0, <1>5
  <2> QED BY <1>0, <1>3, <1>4, <2>1, DidElement DEF ct
<1>7. DOMAIN g.file = DOMAIN a.file /\ HasCues(g.file)
  BY <1>0, <1>5, <1>6 DEF Adds, HasCues
<1>8. ButCues(w, g, b) /\ (NoCue(g.file, b.file) \/ CueAdded(g.file, b.file, n, RowNumber(N), y0))
  BY <1>2, <1>6, <1>7, CounterCueLeads DEF cue
<1>9. AccFull(w, b) /\ DOMAIN b.file = DOMAIN a.file
  BY <1>7, <1>8 DEF ButCues
<1>10. /\ p.file["time"].rows = a.file["time"].rows /\ b.file["time"].rows = g.file["time"].rows
       /\ b.file["value"].rows = p.file["value"].rows
       /\ g.file["cue_index"].rows = a.file["cue_index"].rows
       /\ g.file["cue_timestamp_zero"].rows = a.file["cue_timestamp_zero"].rows
  BY <1>0, <1>4, <1>5, <1>6, <1>7, <1>8 DEF Adds, ButCues
<1>11. OneMore(a.file["time"].rows, b.file["time"].rows, ct)
  <2>1. "time" \in DOMAIN p.file /\ FileFull(w, p.file)
    BY <1>0, <1>4, <1>5 DEF AccFull
  <2>2. OneMore(p.file["time"].rows, g.file["time"].rows, ct)
    BY <1>6, <2>1, AddedOne
  <2> QED BY <1>10, <2>2
<1>12. OneMore(a.file["value"].rows, b.file["value"].rows, Cell(n, x))
  <2>1. "value" \in DOMAIN a.file /\ FileFull(w, a.file)
    BY <1>0 DEF AccFull
  <2>2. OneMore(a.file["value"].rows, p.file["value"].rows, Cell(n, x))
    BY <1>4, <2>1, AddedOne
  <2> QED BY <1>10, <2>2
<1>13. /\ Grown(a.file["time"].rows, b.file["time"].rows, 1, n) /\ b.file["time"].rows[N + 1].x = <<y>>
       /\ Grown(a.file["value"].rows, b.file["value"].rows, 1, n)
  <2>1. Grown(a.file["time"].rows, b.file["time"].rows, 1, n) /\ b.file["time"].rows[N + 1].x = <<y>>
    BY <1>11, OneGrown DEF ct
  <2>2. Grown(a.file["value"].rows, b.file["value"].rows, 1, n)
    BY <1>12, OneGrown
  <2> QED BY <2>1, <2>2
<1>14. NoCue(a.file, b.file) \/ CueAdded(a.file, b.file, n, RowNumber(N), y0)
  BY <1>8, <1>10 DEF NoCue, CueAdded
<1>15. w \in TimedCues => y0 = y
  BY DEF TimedCues
<1>16. CueStep(w, a.file, b.file, n)
  <2>1. \A ds \in CueTargets(w) : Grown(a.file[ds].rows, b.file[ds].rows, 1, n)
    BY <1>0, <1>13
  <2>2. 1 \in Nat /\ 1 >= 1
    OBVIOUS
  <2>3. Number(w, N) = RowNumber(N)
    BY DEF Number
  <2> QED BY <1>13, <1>14, <1>15, <2>1, <2>2, <2>3 DEF CueStep, NoCue, CueAdded
<1> QED BY <1>9, <1>16 DEF Handled

\* ADAr and NDAr.
LEMMA AreaHandled ==
  ASSUME NEW w, w \in {"ADAr", "NDAr"}, NEW a, AccFull(w, a), HasTargets(w, a.file), NEW c, NEW M, NEW n, NEW m, NEW b,
         Leads(a, ADAr_write(c, a.file, M, n, m), b) \/ Leads(a, NDAr_write(c, a.file, M, n, m), b)
  PROVE  Handled(w, a, b, n)
<1> DEFINE F == a.file
           pair(y) == <<Row("value", n, <<m.t>>, m.shape), Element("time", n, y)>> \o CounterCue(c, F, M, n, y)
<1>1. ASSUME NEW e, AccFull(w, e), Aside(w, a, e), NEW y, NEW failed, Leads(e, IF failed THEN <<Throw>> ELSE pair(y), b)
      PROVE  Handled(w, a, b, n)
  <2>1. Leads(e, pair(y), b)
    <3> DEFINE s == pair(y)
    <3> HIDE DEF s
    <3>1. Leads(e, s, b)
      BY <1>1, NotThrown DEF s
    <3> QED BY <3>1 DEF s
  <2>2. HasTargets(w, e.file) /\ Extent(F, "time") = Len(e.file["time"].rows)
    <3>1. "time" \in IndexNames \cap DOMAIN a.file
      BY DEF HasTargets, CueTargets, IndexNames
    <3> QED BY <1>1, <3>1 DEF Aside, HasTargets, Extent
  <2> DEFINE step == Row("value", n, <<m.t>>, m.shape)
  <2>3. \E x, shape : step = Row("value", n, x, shape)
    OBVIOUS
  <2>4. Leads(e, <<step, Element("time", n, y)>> \o CounterCue(c, F, M, n, y), b)
    BY <2>1
  <2> HIDE DEF step, pair, F
  <2>5. Handled(w, e, b, n)
    <3>1. w \in {"ADAr", "NDAr", "ns10"} /\ w # "ns10"
      OBVIOUS
    <3> QED BY <1>1, <2>2, <2>3, <2>4, <3>1, PairLeads
  <2> QED BY <1>1, <2>5, HandledAfter
<1>2. CASE Leads(a, ADAr_write(c, F, M, n, m), b)
  <2> DEFINE t == CheckType(M, Ints \cup Floats, ADAr_config_post_processing(c), m.elem)
             failed == m.elem \notin AreaTypes
             r == IF failed THEN <<Throw>> ELSE pair(m.t)
  <2>1. ADAr_write(c, F, M, n, m) = t \o r
    BY Zenon DEF ADAr_write
  <2>2. IsAside(w, t)
    BY AsideParts
  <2>3. IsList(r)
    <3>1. IsScript(w, <<Throw>>)
      BY StepOther, Script1
    <3>2. IsScript(w, <<Row("value", n, <<m.t>>, m.shape), Element("time", n, m.t)>>)
      BY StepOther, StepNamed, Script2
    <3> DEFINE s == <<Row("value", n, <<m.t>>, m.shape), Element("time", n, m.t)>>
               u == CounterCue(c, F, M, n, m.t)
    <3>3. IsScript(w, s) /\ IsScript(w, u)
      BY <3>2, CounterCueScript
    <3>4. r = IF failed THEN <<Throw>> ELSE s \o u
      OBVIOUS
    <3> HIDE DEF s, u, r, failed
    <3>5. IsScript(w, s \o u)
      BY <3>3, ScriptsJoined
    <3> QED BY <3>1, <3>4, <3>5 DEF IsScript
  <2> HIDE DEF t, r
  <2>4. PICK e : Leads(a, t, e) /\ Leads(e, r, b)
    BY <1>2, <2>1, <2>2, <2>3, PathSplit DEF IsAside
  <2>5. Aside(w, a, e) /\ AccFull(w, e)
    BY <2>2, <2>4, AsideScript DEF Aside
  <2> HIDE DEF pair
  <2> QED BY <1>1, <2>4, <2>5 DEF r
<1>3. CASE Leads(a, NDAr_write(c, F, M, n, m), b)
  <2> DEFINE failed == m.elem \notin AreaTypes \ {"int64", "uint64"}
             y == epicsTimeToNsec(m.t, 1)
  <2>1. NDAr_write(c, F, M, n, m) = IF failed THEN <<Throw>> ELSE pair(y)
    BY Zenon DEF NDAr_write
  <2>2. Aside(w, a, a)
    BY DEF Aside
  <2> HIDE DEF failed, y, pair
  <2> QED BY <1>1, <1>3, <2>1, <2>2
<1> QED BY <1>2, <1>3

\* ns10.
LEMMA CacheHandled ==
  ASSUME NEW a, AccFull("ns10", a), HasTargets("ns10", a.file), NEW c, NEW M, NEW n, NEW m, NEW b,
         Leads(a, ns10_write(c, a.file, M, n, m), b)
  PROVE  Handled("ns10", a, b, n)
<1> DEFINE F == a.file
           step == Element("value", n, 1)
           y == NSecMultiplier * m.t
           s == <<step, Element("time", n, y)>> \o CounterCue(c, F, M, n, m.t)
           failed == ~m.complete \/ ~m.isNumber
<1>1. ns10_write(c, F, M, n, m) = IF failed THEN <<Throw>> ELSE s
  BY Zenon DEF ns10_write
<1> HIDE DEF failed, s
<1>2. Leads(a, s, b)
  BY <1>1, NotThrown
<1>3. Extent(F, "time") = Len(a.file["time"].rows) /\ \E x : step = Element("value", n, x)
  BY DEF Extent
<1> HIDE DEF step, y, F
<1> QED BY <1>2, <1>3, PairLeads DEF s

\* A dataset that is not touched.
LEMMA NoneGrown ==
  ASSUME NEW r, IsList(r), NEW n
  PROVE  Grown(r, r, 0, n)
<1>1. Len(r) \in Nat
  BY ListLength
<1> QED BY <1>1 DEF Grown

\* A cue and the time stamps of a message.
AddsStamps(step, n, xs) == IsList(xs) /\ (step = Array("time", n, xs) \/ step = Vector("time", n, xs))
CueAndStamps(n, v, y, step) == <<Element("cue_index", n, v), Element("cue_timestamp_zero", n, y), step>>
StampsAdded(w, a, b, n, v, y, L) ==
  /\ AccFull(w, b) /\ DOMAIN b.file = DOMAIN a.file /\ CueAdded(a.file, b.file, n, v, y)
  /\ "value" \in DOMAIN a.file => b.file["value"].rows = a.file["value"].rows
  /\ Grown(a.file["time"].rows, b.file["time"].rows, L, n)

\* What these steps add.
LEMMA StampsLead ==
  ASSUME NEW w, w \in {"se00", "senv", "tdct"}, NEW a, AccFull(w, a), HasTargets(w, a.file), NEW n, NEW v, NEW y,
         NEW xs, NEW step, AddsStamps(step, n, xs), NEW b, Leads(a, CueAndStamps(n, v, y, step), b)
  PROVE  StampsAdded(w, a, b, n, v, y, Len(xs))
<1>0. ~Wide(w, "time") /\ "time" \in DOMAIN a.file /\ HasCues(a.file)
  BY DEF Wide, HasTargets, CueTargets, HasCues
<1>1. PICK f : Leads(a, <<Element("cue_index", n, v), Element("cue_timestamp_zero", n, y)>>, f) /\ Leads(f, <<step>>, b)
  BY PathThree DEF CueAndStamps
<1>2. PICK e : Leads(a, <<Element("cue_index", n, v)>>, e) /\ Leads(e, <<Element("cue_timestamp_zero", n, y)>>, f)
  BY <1>1, PathTwo
<1>3. ButCues(w, a, f) /\ CueAdded(a.file, f.file, n, v, y)
  BY <1>0, <1>2, CueElements
<1>4. AccFull(w, f) /\ DOMAIN f.file = DOMAIN a.file
  BY <1>3 DEF ButCues
<1>5. AccFull(w, b) /\ Adds(f.file, b.file, "time", Cells(n, xs))
  <2>1. "time" \in DOMAIN f.file
    BY <1>0, <1>4
  <2>2. Leads(f, <<Array("time", n, xs)>>, b) \/ Leads(f, <<Vector("time", n, xs)>>, b)
    BY <1>1 DEF AddsStamps
  <2>3. IsList(xs)
    BY DEF AddsStamps
  <2> QED BY <1>0, <1>4, <2>1, <2>2, <2>3, DidArray
<1>6. Grown(f.file["time"].rows, b.file["time"].rows, Len(xs), n)
  <2>1. "time" \in DOMAIN f.file /\ FileFull(w, f.file)
    BY <1>0, <1>4 DEF AccFull
  <2>2. IsList(xs)
    BY DEF AddsStamps
  <2> QED BY <1>5, <2>1, <2>2, AddedCells
<1>7. /\ DOMAIN b.file = DOMAIN a.file /\ f.file["time"].rows = a.file["time"].rows
      /\ b.file["cue_index"].rows = f.file["cue_index"].rows
      /\ b.file["cue_timestamp_zero"].rows = f.file["cue_timestamp_zero"].rows
      /\ "value" \in DOMAIN a.file => b.file["value"].rows = a.file["value"].rows
  BY <1>0, <1>3, <1>4, <1>5 DEF Adds, ButCues, HasCues
<1> QED BY <1>3, <1>5, <1>6, <1>7 DEF CueAdded, StampsAdded

\* tdct.
LEMMA ChopperHandled ==
  ASSUME NEW a, AccFull("tdct", a), HasTargets("tdct", a.file), NEW c, NEW M, NEW n, NEW m, IsList(m.times), NEW b,
         Leads(a, tdct_write(c, a.file, M, n, m), b)
  PROVE  Handled("tdct", a, b, n)
<1> DEFINE F == a.file
           v == CastRowNumber(Extent(F, "time"))
           step == Array("time", n, m.times)
           s == <<Element("cue_index", n, v), Element("cue_timestamp_zero", n, m.times[1]), step>>
           N == Len(m.times)
<1>0. CueTargets("tdct") = {"time"} /\ N \in Nat /\ "tdct" \notin TimedCues /\ "time" \in DOMAIN F
  BY ListLength DEF CueTargets, TimedCues, HasTargets
<1>1. tdct_write(c, F, M, n, m) = When(m.times # << >>, s)
  BY DEF tdct_write
<1>2. CASE m.times = << >>
  <2>1. b = a
    BY <1>1, <1>2, PathNone DEF When
  <2>2. IsList(F["time"].rows)
    BY <1>0 DEF AccFull, FileFull, FileOK, DatasetOK
  <2>3. Grown(F["time"].rows, b.file["time"].rows, 0, n)
    BY <2>1, <2>2, NoneGrown
  <2>4. CueStep("tdct", F, b.file, n)
    <3>1. 0 \in Nat /\ \A ds \in CueTargets("tdct") : Grown(F[ds].rows, b.file[ds].rows, 0, n)
      BY <1>0, <2>3
    <3> QED BY <2>1, <3>1 DEF CueStep
  <2> QED BY <2>1, <2>4 DEF Handled
<1>3. CASE m.times # << >>
  <2>1. Leads(a, s, b)
    BY <1>1, <1>3 DEF When
  <2>2. /\ AccFull("tdct", b) /\ DOMAIN b.file = DOMAIN F /\ CueAdded(F, b.file, n, v, m.times[1])
        /\ Grown(F["time"].rows, b.file["time"].rows, N, n)
    <3>1. "tdct" \in {"se00", "senv", "tdct"} /\ AddsStamps(step, n, m.times)
      BY DEF AddsStamps
    <3>2. Leads(a, CueAndStamps(n, v, m.times[1], step), b)
      BY <2>1 DEF CueAndStamps
    <3>3. StampsAdded("tdct", a, b, n, v, m.times[1], N)
      <4> HIDE DEF step, v
      <4> QED BY <3>1, <3>2, StampsLead
    <3> QED BY <3>3 DEF StampsAdded
  <2>3. N >= 1
    <3>1. m.times \in Seq(Range(m.times))
      BY DEF IsList
    <3> DEFINE x == m.times
               R == Range(x)
    <3>2. x \in Seq(R) /\ x # << >>
      BY <1>3, <3>1
    <3> HIDE DEF x, R
    <3>3. Len(x) >= 1
      BY <3>2
    <3> QED BY <3>3 DEF x
  <2>4. v = Number("tdct", Len(F["time"].rows))
    BY DEF Extent, Number
  <2> HIDE DEF v, N, F
  <2>5. CueStep("tdct", F, b.file, n)
    <3>1. \A ds \in CueTargets("tdct") : Grown(F[ds].rows, b.file[ds].rows, N, n)
      BY <1>0, <2>2
    <3>2. /\ OneMore(F["cue_index"].rows, b.file["cue_index"].rows, Cell(n, <<Number("tdct", Len(F["time"].rows))>>))
          /\ OneMore(F["cue_timestamp_zero"].rows, b.file["cue_timestamp_zero"].rows, Cell(n, <<m.times[1]>>))
      BY <2>2, <2>4 DEF CueAdded
    <3> QED BY <1>0, <2>3, <3>1, <3>2 DEF CueStep
  <2> QED BY <2>2, <2>5 DEF Handled, F
<1> QED BY <1>2, <1>3

\* se00 and senv.
LEMMA WaveformHandled ==
  ASSUME NEW w, w \in {"se00", "senv"}, NEW a, AccFull(w, a), HasTargets(w, a.file), NEW cases, NEW configured,
         NEW M, NEW n, NEW m, IsList(m.vals), IsList(m.times), m.hasTimes => Len(m.times) = Len(m.vals),
         Len(a.file["value"].rows) = Len(a.file["time"].rows), NEW b,
         Leads(a, WaveformSteps(cases, configured, a.file, M, n, m), b)
  PROVE  Handled(w, a, b, n)
<1> DEFINE F == a.file
           values == IF m.elem \in cases THEN ConvertAll(configured, m.vals) ELSE << >>
           stamps == GenerateTimeStamps(m.t, m.delta, Len(values))
           last == IF m.hasTimes THEN Array("time", n, m.times) ELSE Vector("time", n, stamps)
           t == CheckType(M, cases, configured, m.elem)
           q == << Array("value", n, values) >>
           v == CastRowNumber(Extent(F, "value"))
           d == << Element("cue_index", n, v), Element("cue_timestamp_zero", n, m.t), last >>
           u == When(values # << >>, d)
           N == Len(values)
<1>0. /\ ~Wide(w, "value") /\ CueTargets(w) = {"time", "value"} /\ w \notin TimedCues
      /\ {"time", "value", "cue_index", "cue_timestamp_zero"} \subseteq DOMAIN F
  BY DEF Wide, CueTargets, TimedCues, HasTargets
<1>1. IsList(values) /\ N \in Nat
  <2>1. IsList(<< >>)
    BY Script0 DEF IsScript
  <2>2. IsList(values)
    BY <2>1, ConvertedList
  <2> QED BY <2>2, ListLength
<1>2. IsList(stamps) /\ Len(stamps) = N
  <2>1. stamps = [i \in 1..N |-> stamps[i]]
    BY DEF GenerateTimeStamps
  <2> HIDE DEF stamps, N
  <2> QED BY <1>1, <2>1, ListMade
<1>3. WaveformSteps(cases, configured, F, M, n, m) = t \o q \o u
  BY Zenon DEF WaveformSteps
<1>4. values # << >> => N = Len(m.vals)
  BY ConvertedList
<1> HIDE DEF values, stamps
<1>5. values # << >> => \E xs : AddsStamps(last, n, xs) /\ Len(xs) = N
  BY <1>2, <1>4 DEF AddsStamps
<1>6. IsAside(w, t)
  BY AsideParts
<1>7. IsScript(w, t) /\ IsScript(w, q) /\ IsScript(w, u)
  <2>1. IsScript(w, t)
    BY <1>6 DEF IsAside, IsScript
  <2>2. IsScript(w, q)
    BY <1>0, <1>1, StepArray, Script1
  <2>3. StepOK(w, last)
    <3>1. ~Wide(w, "time")
      BY DEF Wide
    <3> QED BY <1>2, <3>1, StepArray
  <2> HIDE DEF last
  <2>4. IsScript(w, d)
    BY <2>3, StepNamed, Script3
  <2> HIDE DEF d
  <2> QED BY <2>1, <2>2, <2>4, ScriptWhen
<1> HIDE DEF t, q, u, v, last, F
<1>8. PICK p : Leads(a, t \o q, p) /\ Leads(p, u, b)
  <2>1. IsScript(w, t \o q)
    BY <1>7, ScriptsJoined
  <2> QED BY <1>3, <1>7, <2>1, PathSplit DEF IsScript, F
<1>9. PICK e : Leads(a, t, e) /\ Leads(e, q, p)
  BY <1>7, <1>8, PathSplit DEF IsScript
<1>10. Aside(w, a, e)
  BY <1>6, <1>9, AsideScript
<1>11. /\ AccFull(w, e) /\ DOMAIN e.file = DOMAIN F
       /\ \A ds \in {"time", "value", "cue_index", "cue_timestamp_zero"} : e.file[ds].rows = F[ds].rows
  <2>1. \A ds \in {"time", "value", "cue_index", "cue_timestamp_zero"} : ds \in IndexNames \cap DOMAIN a.file
    BY <1>0 DEF IndexNames, F
  <2> QED BY <1>10, <2>1 DEF Aside, F
<1>12. AccFull(w, p) /\ Adds(e.file, p.file, "value", Cells(n, values))
  <2>1. "value" \in DOMAIN e.file
    BY <1>0, <1>11
  <2> QED BY <1>0, <1>1, <1>9, <1>11, <2>1, DidArray DEF q
<1>13. Grown(F["value"].rows, p.file["value"].rows, N, n)
  <2>1. "value" \in DOMAIN e.file /\ FileFull(w, e.file)
    BY <1>0, <1>11 DEF AccFull
  <2>2. Grown(e.file["value"].rows, p.file["value"].rows, N, n)
    BY <1>1, <1>12, <2>1, AddedCells
  <2> QED BY <1>11, <2>2
<1>14. /\ DOMAIN p.file = DOMAIN F
       /\ \A ds \in {"time", "cue_index", "cue_timestamp_zero"} : p.file[ds].rows = F[ds].rows
  BY <1>0, <1>11, <1>12 DEF Adds
<1>15. CASE values = << >>
  <2>1. b = p
    BY <1>8, <1>15, PathNone DEF u, When
  <2>2. N = 0
    BY <1>15
  <2>3. Grown(F["time"].rows, b.file["time"].rows, N, n)
    <3>1. IsList(F["time"].rows)
      BY <1>0 DEF AccFull, FileFull, FileOK, DatasetOK, F
    <3> QED BY <1>14, <2>1, <2>2, <3>1, NoneGrown
  <2>4. CueStep(w, F, b.file, n)
    <3>1. \A ds \in CueTargets(w) : Grown(F[ds].rows, b.file[ds].rows, N, n)
      BY <1>0, <1>13, <2>1, <2>3
    <3> QED BY <1>1, <1>14, <2>1, <3>1 DEF CueStep
  <2> QED BY <1>12, <1>14, <2>1, <2>4 DEF Handled, F
<1>16. CASE values # << >>
  <2>1. Leads(p, d, b)
    BY <1>8, <1>16 DEF u, When
  <2>2. PICK xs : AddsStamps(last, n, xs) /\ Len(xs) = N
    BY <1>5, <1>16
  <2>3. HasTargets(w, p.file)
    BY <1>0, <1>14 DEF HasTargets
  <2>4. /\ AccFull(w, b) /\ DOMAIN b.file = DOMAIN p.file /\ CueAdded(p.file, b.file, n, v, m.t)
        /\ "value" \in DOMAIN p.file => b.file["value"].rows = p.file["value"].rows
        /\ Grown(p.file["time"].rows, b.file["time"].rows, N, n)
    <3>1. w \in {"se00", "senv", "tdct"}
      OBVIOUS
    <3>2. Leads(p, CueAndStamps(n, v, m.t, last), b)
      BY <2>1 DEF CueAndStamps
    <3>3. StampsAdded(w, p, b, n, v, m.t, Len(xs))
      BY <1>12, <2>2, <2>3, <3>1, <3>2, StampsLead
    <3> QED BY <2>2, <3>3 DEF StampsAdded
  <2>5. N >= 1
    <3>1. values \in Seq(Range(values))
      BY <1>1 DEF IsList
    <3> DEFINE R == Range(values)
    <3> HIDE DEF R
    <3>2. values \in Seq(R)
      BY <3>1 DEF R
    <3> QED BY <1>16, <3>2
  <2>6. v = Number(w, Len(F["time"].rows))
    BY DEF v, Extent, F, Number
  <2> HIDE DEF N
  <2>7. CueStep(w, F, b.file, n)
    <3>1. \A ds \in CueTargets(w) : Grown(F[ds].rows, b.file[ds].rows, N, n)
      BY <1>0, <1>13, <1>14, <2>4
    <3>2. /\ OneMore(F["cue_index"].rows, b.file["cue_index"].rows, Cell(n, <<Number(w, Len(F["time"].rows))>>))
          /\ OneMore(F["cue_timestamp_zero"].rows, b.file["cue_timestamp_zero"].rows, Cell(n, <<m.t>>))
      BY <1>14, <2>4, <2>6 DEF CueAdded
    <3> QED BY <1>0, <1>1, <2>5, <3>1, <3>2 DEF CueStep
  <2> QED BY <1>14, <2>4, <2>7 DEF Handled, F
<1> QED BY <1>15, <1>16
-----------------------------------------------------------------------------
(* ev42 and ev44                                                           *)

HasEvents(F) == {"event_id", "event_index", "cue_index", "cue_timestamp_zero"} \subseteq DOMAIN F

\* The entries of both indexes for message n, whose events end at events.
EventCued(w, a, b, c, M, n, events) ==
  /\ AccFull(w, b) /\ DOMAIN b.file = DOMAIN a.file
  /\ b.file["event_id"].rows = a.file["event_id"].rows
  /\ OneMore(a.file["event_index"].rows, b.file["event_index"].rows, Cell(n, <<RowNumber(M.EventsWritten)>>))
  /\ b.mem.EventsWritten = events
  /\ \/ /\ ~(events > M.LastEventIndex + c.interval)
        /\ b.file["cue_index"].rows = a.file["cue_index"].rows /\ b.mem.LastEventIndex = a.mem.LastEventIndex
     \/ /\ events > M.LastEventIndex + c.interval
        /\ OneMore(a.file["cue_index"].rows, b.file["cue_index"].rows, Cell(n, <<RowNumber(events - 1)>>))
        /\ b.mem.LastEventIndex = events - 1

\* What EventCue adds.
LEMMA EventCueLeads ==
  ASSUME NEW w, NEW a, AccFull(w, a), HasEvents(a.file), NEW c, NEW M, NEW n, NEW m, NEW t0, NEW b,
         Leads(a, EventCue(c, M, n, m, t0), b)
  PROVE  EventCued(w, a, b, c, M, n, M.EventsWritten + Len(m.id))
<1> DEFINE events == M.EventsWritten + Len(m.id)
           last == At(m.tof, Len(m.id))
           stamp == IF last = Undefined THEN Undefined ELSE t0 + last
           s == << Element("event_index", n, RowNumber(M.EventsWritten)), Set("EventsWritten", events) >>
           x == Element("cue_timestamp_zero", n, stamp)
           y == Element("cue_index", n, RowNumber(events - 1))
           z == Set("LastEventIndex", events - 1)
           t == <<x, y, z>>
           condition == events > M.LastEventIndex + c.interval
           u == When(condition, t)
<1>1. EventCue(c, M, n, m, t0) = s \o u
  BY Zenon DEF EventCue
<1>2. IsList(s) /\ IsList(u)
  <2>1. IsScript(w, s) /\ IsScript(w, t)
    BY StepNamed, StepOther, Script2, Script3
  <2> HIDE DEF s, t, condition
  <2> QED BY <2>1, ScriptWhen DEF IsScript
<1>d. /\ "EventsWritten" \in DOMAIN Members /\ "LastEventIndex" \in DOMAIN Members
      /\ ~Wide(w, "event_index") /\ {"event_id", "event_index", "cue_index", "cue_timestamp_zero"} \subseteq DOMAIN a.file
  BY DEF Members, Wide, HasEvents
<1> HIDE DEF stamp, events, u
<1>3. PICK f : Leads(a, s, f) /\ Leads(f, u, b)
  <2> HIDE DEF s
  <2> QED BY <1>1, <1>2, PathSplit
<1>4. PICK e : Leads(a, <<Element("event_index", n, RowNumber(M.EventsWritten))>>, e) /\ Leads(e, <<Set("EventsWritten", events)>>, f)
  BY <1>3, PathTwo
<1> DEFINE cell == Cell(n, <<RowNumber(M.EventsWritten)>>)
<1>5. AccFull(w, e) /\ e.mem = a.mem /\ Adds(a.file, e.file, "event_index", <<cell>>)
  <2>1. "event_index" \in DOMAIN a.file
    BY <1>d
  <2> QED BY <1>4, <1>d, <2>1, DidElement
<1> HIDE DEF cell
<1>6. OneMore(a.file["event_index"].rows, e.file["event_index"].rows, cell)
  <2>1. "event_index" \in DOMAIN a.file /\ FileFull(w, a.file)
    BY <1>d DEF AccFull
  <2> QED BY <1>5, <2>1, AddedOne
<1>7. AccFull(w, f) /\ f.file = e.file /\ f.mem = [e.mem EXCEPT !["EventsWritten"] = events]
  BY <1>4, <1>5, <1>d, DidSet
<1>8. /\ DOMAIN f.file = DOMAIN a.file /\ f.file["event_id"].rows = a.file["event_id"].rows
      /\ f.file["cue_index"].rows = a.file["cue_index"].rows
      /\ OneMore(a.file["event_index"].rows, f.file["event_index"].rows, cell)
  BY <1>5, <1>6, <1>7, <1>d DEF Adds
<1>9. f.mem.EventsWritten = events /\ f.mem.LastEventIndex = a.mem.LastEventIndex /\ DOMAIN f.mem = DOMAIN Members
  <2>1. DOMAIN e.mem = DOMAIN Members
    BY <1>5 DEF AccFull
  <2> QED BY <1>5, <1>7, <1>d, <2>1
<1>10. CASE ~condition
  <2>1. u = << >>
    BY <1>10 DEF u, When
  <2>2. b = f
    BY <1>3, <2>1, PathNone
  <2>3. EventCued(w, a, b, c, M, n, events)
    BY <1>7, <1>8, <1>9, <1>10, <2>2 DEF EventCued, cell
  <2> QED BY <2>3 DEF events
<1>11. CASE condition
  <2> HIDE DEF x, y, z
  <2>1. u = t
    BY <1>11 DEF u, When
  <2>2. PICK h : Leads(f, <<x, y>>, h) /\ Leads(h, <<z>>, b)
    BY <1>3, <2>1, PathThree
  <2>3. PICK g : Leads(f, <<x>>, g) /\ Leads(g, <<y>>, h)
    BY <2>2, PathTwo
  <2>4. ButCues(w, f, h) /\ CueAdded(f.file, h.file, n, RowNumber(events - 1), stamp) /\ h.mem = f.mem
    <3>1. HasCues(f.file)
      BY <1>8, <1>d DEF HasCues
    <3> QED BY <1>7, <2>3, <3>1, CueElements DEF x, y
  <2>5. AccFull(w, b) /\ b.file = h.file /\ b.mem = [h.mem EXCEPT !["LastEventIndex"] = events - 1]
    <3>1. AccFull(w, h)
      BY <2>4 DEF ButCues
    <3> QED BY <1>d, <2>2, <3>1, DidSet DEF z
  <2>6. b.mem.EventsWritten = events /\ b.mem.LastEventIndex = events - 1
    BY <1>9, <1>d, <2>4, <2>5
  <2>7. /\ DOMAIN b.file = DOMAIN a.file /\ b.file["event_id"].rows = a.file["event_id"].rows
        /\ OneMore(a.file["event_index"].rows, b.file["event_index"].rows, cell)
        /\ OneMore(a.file["cue_index"].rows, b.file["cue_index"].rows, Cell(n, <<RowNumber(events - 1)>>))
    BY <1>8, <1>d, <2>4, <2>5 DEF ButCues, CueAdded
  <2>8. EventCued(w, a, b, c, M, n, events)
    BY <1>11, <2>5, <2>6, <2>7 DEF EventCued, cell
  <2> QED BY <2>8 DEF events
<1> QED BY <1>10, <1>11

\* Message n was handled completely.
EventHandled(w, a, b, c, n) ==
  AccFull(w, b) /\ DOMAIN b.file = DOMAIN a.file /\ EventStep(w, c, a.file, a.mem, b.file, b.mem, n)

\* Other datasets, the ids of the events, other datasets, the indexes, and other
\* datasets and members.
LEMMA EventsLead ==
  ASSUME NEW w, w \in {"ev42", "ev44"}, NEW a, AccFull(w, a), HasEvents(a.file), NEW c, NEW n, NEW m, IsList(m.id), NEW t0,
         NEW e, Aside(w, a, e), NEW f, Leads(e, <<Array("event_id", n, m.id)>>, f),
         NEW g, AccFull(w, f) => Aside(w, f, g), NEW h, Leads(g, EventCue(c, a.mem, n, m, t0), h),
         NEW b, AccFull(w, h) => Aside(w, h, b)
  PROVE  EventHandled(w, a, b, c, n)
<1> DEFINE D == {"event_id", "event_index", "cue_index", "cue_timestamp_zero"}
           L == Len(m.id)
           M == a.mem
<1>0. D \subseteq DOMAIN a.file /\ D \subseteq IndexNames /\ ~Wide(w, "event_id") /\ L \in Nat
  BY ListLength DEF HasEvents, IndexNames, Wide
<1>1. /\ AccFull(w, e) /\ DOMAIN e.file = DOMAIN a.file /\ \A ds \in D : e.file[ds].rows = a.file[ds].rows
      /\ e.mem.LastEventIndex = M.LastEventIndex
  BY <1>0 DEF Aside, IndexMembers
<1>2. AccFull(w, f) /\ f.mem = e.mem /\ Adds(e.file, f.file, "event_id", Cells(n, m.id))
  <2>1. "event_id" \in DOMAIN e.file
    BY <1>0, <1>1
  <2> QED BY <1>0, <1>1, <2>1, DidArray
<1>3. /\ DOMAIN f.file = DOMAIN a.file /\ \A ds \in D \ {"event_id"} : f.file[ds].rows = a.file[ds].rows
      /\ Grown(a.file["event_id"].rows, f.file["event_id"].rows, L, n)
  <2>1. "event_id" \in DOMAIN e.file /\ FileFull(w, e.file)
    BY <1>0, <1>1 DEF AccFull
  <2>2. Grown(e.file["event_id"].rows, f.file["event_id"].rows, L, n)
    BY <1>2, <2>1, AddedCells
  <2> QED BY <1>0, <1>1, <1>2, <2>2 DEF Adds
<1>4. /\ AccFull(w, g) /\ DOMAIN g.file = DOMAIN a.file /\ \A ds \in D : g.file[ds].rows = f.file[ds].rows
      /\ g.mem.LastEventIndex = M.LastEventIndex
  <2>1. Aside(w, f, g)
    BY <1>2
  <2> QED BY <1>0, <1>1, <1>2, <1>3, <2>1 DEF Aside, IndexMembers
<1>5. EventCued(w, g, h, c, M, n, M.EventsWritten + L)
  <2>1. HasEvents(g.file)
    BY <1>0, <1>4 DEF HasEvents
  <2> QED BY <1>4, <2>1, EventCueLeads
<1>6. Aside(w, h, b)
  BY <1>5 DEF EventCued
<1>7. /\ AccFull(w, b) /\ DOMAIN b.file = DOMAIN a.file /\ \A ds \in D : b.file[ds].rows = h.file[ds].rows
      /\ b.mem.EventsWritten = h.mem.EventsWritten /\ b.mem.LastEventIndex = h.mem.LastEventIndex
  <2>1. DOMAIN h.file = DOMAIN a.file
    BY <1>4, <1>5 DEF EventCued
  <2> QED BY <1>0, <1>6, <2>1 DEF Aside, IndexMembers
<1> HIDE DEF L, M
<1>8. /\ Grown(a.file["event_id"].rows, b.file["event_id"].rows, L, n)
      /\ OneMore(a.file["event_index"].rows, b.file["event_index"].rows, Cell(n, <<RowNumber(M.EventsWritten)>>))
      /\ b.mem.EventsWritten = M.EventsWritten + L
  BY <1>3, <1>4, <1>5, <1>7 DEF EventCued
<1>9. \/ /\ ~(b.mem.EventsWritten > M.LastEventIndex + c.interval)
         /\ b.file["cue_index"].rows = a.file["cue_index"].rows /\ b.mem.LastEventIndex = M.LastEventIndex
      \/ /\ b.mem.EventsWritten > M.LastEventIndex + c.interval
         /\ OneMore(a.file["cue_index"].rows, b.file["cue_index"].rows, Cell(n, <<RowNumber(b.mem.EventsWritten - 1)>>))
         /\ b.mem.LastEventIndex = b.mem.EventsWritten - 1
  BY <1>3, <1>4, <1>5, <1>7, <1>8 DEF EventCued
<1>10. EventAdds(w, c, a.file, a.mem, b.file, b.mem, n, L)
  <2>1. \A v : Number(w, v) = RowNumber(v)
    BY DEF Number
  <2> QED BY <1>8, <1>9, <2>1 DEF EventAdds, M
<1> QED BY <1>0, <1>7, <1>10 DEF EventHandled, EventStep

\* One step aside.
LEMMA AsideArray ==
  ASSUME NEW w, NEW a, AccFull(w, a), NEW step, StepOK(w, step), AsideStep(step), NEW b, Leads(a, <<step>>, b)
  PROVE  Aside(w, a, b)
<1>1. b = DoStep(a, step, "done")
  BY PathOne
<1> QED BY <1>1, AsideOne

\* A message of ev42.
LEMMA ev42_Handled ==
  ASSUME NEW a, AccFull("ev42", a), HasEvents(a.file), NEW c, NEW F, NEW n, NEW m, IsList(m.tof), IsList(m.id),
         \A i \in DOMAIN AdcDatasets : IsList(m.adc[i]), NEW b,
         Leads(a, ev42_write(c, F, a.mem, n, m), b)
  PROVE  EventHandled("ev42", a, b, c, n)
<1> DEFINE w == "ev42"
           x == Array("event_time_offset", n, m.tof)
           y == Array("event_id", n, m.id)
           z == Element("event_time_zero", n, m.t)
           s == <<x, y, z>>
           q == EventCue(c, a.mem, n, m, m.t)
           d == When(c.adc, writeAdcPulseData(n, m))
           r == << Set("EventsMetadata", a.mem.EventsWritten + Len(m.id)) >>
<1>0. /\ StepOK(w, x) /\ AsideStep(x) /\ StepOK(w, z) /\ AsideStep(z) /\ StepOK(w, y)
  <2>1. "event_time_offset" \notin IndexNames /\ "event_time_zero" \notin IndexNames /\ ~Wide(w, "event_id")
    BY DEF IndexNames, Wide
  <2> QED BY <2>1, AsideAppend, StepArray
<1>1. IsScript(w, s)
  <2> HIDE DEF x, y, z
  <2> QED BY <1>0, Script3
<1>2. IsScript(w, q) /\ IsAside(w, d) /\ IsAside(w, r)
  <2>1. IsAside(w, r)
    BY AsideParts DEF IndexMembers
  <2> HIDE DEF r
  <2> QED BY <2>1, EventCueScript, AsidePulses, AsideWhen
<1>3. ev42_write(c, F, a.mem, n, m) = s \o q \o d \o r
  BY DEF ev42_write
<1> HIDE DEF x, z, s, q, d, r
<1>4. IsScript(w, s \o q) /\ IsScript(w, s \o q \o d) /\ IsScript(w, d) /\ IsScript(w, r)
  <2>1. IsScript(w, d) /\ IsScript(w, r)
    BY <1>2 DEF IsAside, IsScript
  <2> QED BY <1>1, <1>2, <2>1, ScriptsJoined
<1>5. PICK p : Leads(a, s \o q \o d, p) /\ Leads(p, r, b)
  BY <1>3, <1>4, PathSplit DEF IsScript
<1>6. PICK h : Leads(a, s \o q, h) /\ Leads(h, d, p)
  BY <1>4, <1>5, PathSplit DEF IsScript
<1>7. PICK g : Leads(a, s, g) /\ Leads(g, q, h)
  BY <1>1, <1>2, <1>6, PathSplit DEF IsScript
<1>8. PICK f : Leads(a, <<x, y>>, f) /\ Leads(f, <<z>>, g)
  BY <1>7, PathThree DEF s
<1>9. PICK e : Leads(a, <<x>>, e) /\ Leads(e, <<y>>, f)
  BY <1>8, PathTwo
<1>10. Aside(w, a, e)
  BY <1>0, <1>9, AsideArray
<1>11. AccFull(w, f) => Aside(w, f, g)
  BY <1>0, <1>8, AsideArray
<1>12. ASSUME AccFull(w, h) PROVE Aside(w, h, b)
  <2>1. Aside(w, h, p)
    BY <1>2, <1>6, <1>12, AsideScript
  <2>2. Aside(w, p, b)
    BY <1>2, <1>5, <2>1, AsideScript DEF Aside
  <2> QED BY <2>1, <2>2, AsideTwice
<1>13. w \in {"ev42", "ev44"}
  OBVIOUS
<1> HIDE DEF w
<1>14. AccFull(w, a)
  BY DEF w
<1>15. EventHandled(w, a, b, c, n)
  BY <1>7, <1>9, <1>10, <1>11, <1>12, <1>13, <1>14, EventsLead DEF q, y
<1> QED BY <1>15 DEF w

\* A message of ev44.
LEMMA ev44_Handled ==
  ASSUME NEW a, AccFull("ev44", a), HasEvents(a.file), NEW c, NEW F, NEW n, NEW m, IsList(m.tof), IsList(m.id),
         IsList(m.ref), IsList(m.refIndex), NEW b, Leads(a, ev44_write(c, F, a.mem, n, m), b)
  PROVE  EventHandled("ev44", a, b, c, n)
<1> DEFINE w == "ev44"
           x == Array("event_time_offset", n, m.tof)
           y == Array("event_id", n, m.id)
           z == Array("event_time_zero", n, m.ref)
           v == Array("event_time_zero_index", n, m.refIndex)
           s == <<x, y, z, v>>
           q == EventCue(c, a.mem, n, m, At(m.ref, 1))
           r == << Set("EventsMetadata", a.mem.EventsWritten + Len(m.id)) >>
<1>0. /\ StepOK(w, x) /\ AsideStep(x) /\ StepOK(w, z) /\ AsideStep(z) /\ StepOK(w, v) /\ AsideStep(v) /\ StepOK(w, y)
  <2>1. /\ "event_time_offset" \notin IndexNames /\ "event_time_zero" \notin IndexNames
        /\ "event_time_zero_index" \notin IndexNames /\ ~Wide(w, "event_id")
    BY DEF IndexNames, Wide
  <2> QED BY <2>1, AsideAppend, StepArray
<1>1. IsScript(w, s)
  <2> HIDE DEF x, y, z, v
  <2> QED BY <1>0, Script4
<1>2. IsScript(w, q) /\ IsAside(w, r)
  <2>1. IsAside(w, r)
    BY AsideParts DEF IndexMembers
  <2> HIDE DEF r
  <2> QED BY <2>1, EventCueScript
<1>3. ev44_write(c, F, a.mem, n, m) = s \o q \o r
  BY DEF ev44_write
<1> HIDE DEF x, z, v, s, q, r
<1>4. IsScript(w, s \o q) /\ IsScript(w, r)
  <2>1. IsScript(w, r)
    BY <1>2 DEF IsAside, IsScript
  <2> QED BY <1>1, <1>2, <2>1, ScriptsJoined
<1>5. PICK h : Leads(a, s \o q, h) /\ Leads(h, r, b)
  BY <1>3, <1>4, PathSplit DEF IsScript
<1>6. PICK g : Leads(a, s, g) /\ Leads(g, q, h)
  BY <1>1, <1>2, <1>5, PathSplit DEF IsScript
<1>7. PICK p : Leads(a, <<x, y, z>>, p) /\ Leads(p, <<v>>, g)
  BY <1>6, PathFour DEF s
<1>8. PICK f : Leads(a, <<x, y>>, f) /\ Leads(f, <<z>>, p)
  BY <1>7, PathThree
<1>9. PICK e : Leads(a, <<x>>, e) /\ Leads(e, <<y>>, f)
  BY <1>8, PathTwo
<1>10. Aside(w, a, e)
  BY <1>0, <1>9, AsideArray
<1>11. ASSUME AccFull(w, f) PROVE Aside(w, f, g)
  <2>1. Aside(w, f, p)
    BY <1>0, <1>8, <1>11, AsideArray
  <2>2. Aside(w, p, g)
    BY <1>0, <1>7, <2>1, AsideArray DEF Aside
  <2> QED BY <2>1, <2>2, AsideTwice
<1>12. AccFull(w, h) => Aside(w, h, b)
  BY <1>2, <1>5, AsideScript
<1>13. w \in {"ev42", "ev44"}
  OBVIOUS
<1> HIDE DEF w
<1>14. AccFull(w, a)
  BY DEF w
<1>15. EventHandled(w, a, b, c, n)
  BY <1>6, <1>9, <1>10, <1>11, <1>12, <1>13, <1>14, EventsLead DEF q, y
<1> QED BY <1>15 DEF w
-----------------------------------------------------------------------------
(* The datasets that init_hdf creates                                      *)

\* A dataset of that name is created.
Creates(s, ds) == \E i \in 1..Len(s) : s[i][1] = ds

\* One dataset per name.
LEMMA CreatesNames ==
  ASSUME NEW c, NEW names, IsList(names), NEW i \in 1..Len(names)
  PROVE  Creates(EventDatasets(c, names), names[i])
<1> DEFINE s == EventDatasets(c, names)
<1>1. Len(names) \in Nat /\ DOMAIN names = 1..Len(names)
  BY ListLength
<1>2. IsList(s) /\ DOMAIN s = 1..Len(names)
  <2>1. s = [j \in 1..Len(names) |-> s[j]]
    BY <1>1 DEF EventDatasets
  <2> HIDE DEF s
  <2> QED BY <1>1, <2>1, ListMade
<1>3. s[i] = <<names[i], ExtensibleDataset(c.chunk[1])>>
  BY <1>1 DEF EventDatasets
<1> HIDE DEF s
<1>4. Len(s) \in Nat /\ DOMAIN s = 1..Len(s)
  BY <1>2, ListLength
<1>5. i \in 1..Len(s)
  BY <1>2, <1>4
<1>6. s[i][1] = names[i]
  BY <1>3
<1>7. Creates(s, names[i])
  BY <1>5, <1>6 DEF Creates
<1> QED BY <1>7 DEF s

\* The datasets of two lists.
LEMMA CreatesBoth ==
  ASSUME NEW s, NEW t, IsList(s), IsList(t), NEW ds, Creates(s, ds) \/ Creates(t, ds)
  PROVE  Creates(s \o t, ds)
<1>1. /\ Len(s) \in Nat /\ Len(t) \in Nat /\ IsList(s \o t) /\ Len(s \o t) = Len(s) + Len(t)
      /\ \A i \in 1..Len(s) : (s \o t)[i] = s[i]
      /\ \A i \in 1..Len(t) : (s \o t)[Len(s) + i] = t[i]
  BY JoinedMembers, ListLength
<1> DEFINE u == s \o t
<1> HIDE DEF u
<1>2. CASE Creates(s, ds)
  <2>1. PICK i \in 1..Len(s) : s[i][1] = ds
    BY <1>2 DEF Creates
  <2>2. i \in 1..Len(u) /\ u[i][1] = ds
    BY <1>1, <2>1 DEF u
  <2> QED BY <2>2 DEF Creates, u
<1>3. CASE Creates(t, ds)
  <2>1. PICK i \in 1..Len(t) : t[i][1] = ds
    BY <1>3 DEF Creates
  <2>2. Len(s) + i \in 1..Len(u) /\ u[Len(s) + i][1] = ds
    BY <1>1, <2>1 DEF u
  <2> QED BY <2>2 DEF Creates, u
<1> QED BY <1>2, <1>3

\* Modules with a cue for rows of time, and modules with events.
CueKinds == {"f144", "f142", "ADAr", "NDAr", "ns10", "se00", "senv", "tdct"}
EventKinds == {"ev42", "ev44"}

\* The datasets that the indexes of a module are about.
IndexDatasets(w) ==
  IF w \in CueKinds THEN CueTargets(w) \cup {"cue_index", "cue_timestamp_zero"}
  ELSE IF w \in EventKinds THEN {"event_id", "event_index", "cue_index", "cue_timestamp_zero"} ELSE {}

\* A module that creates datasets creates these.
LEMMA IndexesMade ==
  ASSUME kind \in Kinds, Len(init_hdf(kind, cfg)) > 0, NEW ds \in IndexDatasets(kind)
  PROVE  Creates(init_hdf(kind, cfg), ds)
<1> DEFINE order == init_hdf(kind, cfg)
           four == {"time", "value", "cue_index", "cue_timestamp_zero"}
<1>0. kind \in CueKinds \cup EventKinds /\ (kind \in CueKinds => ds \in four) /\ (kind = "tdct" => ds # "value")
  BY DEF IndexDatasets, CueKinds, EventKinds, CueTargets
<1>1. ASSUME NEW p, NEW q, NEW r, NEW s, ds \in {p[1], q[1], r[1], s[1]}
      PROVE  Creates(<<p, q, r, s>>, ds)
  <2> DEFINE t == <<p, q, r, s>>
  <2>1. Len(t) = 4 /\ t[1] = p /\ t[2] = q /\ t[3] = r /\ t[4] = s
    OBVIOUS
  <2> HIDE DEF t
  <2>2. \E i \in 1..4 : t[i][1] = ds
    BY <1>1, <2>1
  <2>3. Creates(t, ds)
    BY <2>1, <2>2 DEF Creates
  <2> QED BY <2>3 DEF t
<1>2. ASSUME NEW names, IsList(names), NEW i \in 1..Len(names), names[i] = ds
      PROVE  Creates(EventDatasets(cfg, names), ds)
  BY <1>2, CreatesNames
<1>3. CASE kind \in {"f144", "f142"}
  <2>1. Creates(f144_init_hdf(cfg), ds)
    <3>1. ds \in four
      BY <1>0, <1>3 DEF CueKinds
    <3> QED BY <1>1, <3>1 DEF f144_init_hdf
  <2>2. CASE kind = "f144"
    BY <2>1, <2>2 DEF init_hdf
  <2>3. CASE kind = "f142"
    <3> DEFINE s == << <<"alarm_time", ExtensibleDataset(1024)>>, <<"alarm_status", ExtensibleDataset(1024)>>,
                       <<"alarm_severity", ExtensibleDataset(1024)>> >>
    <3>1. IsList(s)
      <4> DEFINE S == {<<"alarm_time", ExtensibleDataset(1024)>>, <<"alarm_status", ExtensibleDataset(1024)>>,
                       <<"alarm_severity", ExtensibleDataset(1024)>>}
      <4>1. s \in Seq(S)
        OBVIOUS
      <4> HIDE DEF s, S
      <4> QED BY <4>1, ListOf
    <3>2. order = f144_init_hdf(cfg) \o s
      BY <2>3 DEF init_hdf, f142_init_hdf
    <3>3. IsList(f144_init_hdf(cfg))
      BY <1>3, WideDatasetsMade DEF AreDatasets
    <3> HIDE DEF s
    <3> QED BY <2>1, <3>1, <3>2, <3>3, CreatesBoth
  <2> QED BY <1>3, <2>2, <2>3
<1>4. CASE kind \in {"ADAr", "NDAr"}
  <2>1. order = When(cfg.chunk # << >>, AreaDatasets(cfg))
    BY <1>4 DEF init_hdf, ADAr_init_hdf, NDAr_init_hdf
  <2>2. order = AreaDatasets(cfg)
    <3>1. order = AreaDatasets(cfg) \/ order = << >>
      BY <2>1 DEF When
    <3>2. Len(<< >>) = 0
      OBVIOUS
    <3>3. order # << >>
      BY <3>2
    <3> QED BY <3>1, <3>3
  <2>3. ds \in four
    BY <1>0, <1>4 DEF CueKinds
  <2>4. Creates(AreaDatasets(cfg), ds)
    BY <1>1, <2>3 DEF AreaDatasets
  <2> QED BY <2>2, <2>4
<1>5. CASE kind = "ns10"
  <2> DEFINE names == <<"value", "time", "cue_index", "cue_timestamp_zero">>
  <2>1. order = EventDatasets(cfg, names)
    BY <1>5 DEF init_hdf, ns10_init_hdf
  <2>2. ds \in four
    BY <1>0, <1>5 DEF CueKinds
  <2>3. names \in Seq(DatasetNames) /\ \E i \in 1..Len(names) : names[i] = ds
    BY <2>2 DEF DatasetNames
  <2> HIDE DEF names
  <2>4. IsList(names)
    BY <2>3, ListOf
  <2> QED BY <1>2, <2>1, <2>3, <2>4
<1>6. CASE kind \in {"se00", "senv", "tdct"}
  <2> DEFINE names == <<"time", "cue_index", "cue_timestamp_zero">>
             first == <<"value">>
             s == EventDatasets(cfg, first)
             t == EventDatasets(cfg, names)
  <2>1. IsList(names) /\ IsList(first)
    <3>1. names \in Seq(DatasetNames) /\ first \in Seq(DatasetNames)
      BY DEF DatasetNames
    <3> HIDE DEF names, first
    <3> QED BY <3>1, ListOf
  <2>2. (kind = "tdct" /\ order = t) \/ (kind # "tdct" /\ order = s \o t)
    <3>1. \/ kind = "se00" /\ order = se00_init_hdf(cfg)
          \/ kind = "senv" /\ order = senv_init_hdf(cfg)
          \/ kind = "tdct" /\ order = tdct_init_hdf(cfg)
      BY <1>6 DEF init_hdf
    <3>2. se00_init_hdf(cfg) = s \o t /\ senv_init_hdf(cfg) = s \o t /\ tdct_init_hdf(cfg) = t
      BY DEF se00_init_hdf, senv_init_hdf, tdct_init_hdf, se00_initValueDataset, senv_initValueDataset
    <3> HIDE DEF s, t, order
    <3> QED BY <3>1, <3>2
  <2>3. ds \in four /\ (kind = "tdct" => ds # "value")
    BY <1>0, <1>6 DEF CueKinds
  <2>4. ds # "value" => \E i \in 1..Len(names) : names[i] = ds
    BY <2>3
  <2>5. ds = "value" => \E i \in 1..Len(first) : first[i] = ds
    OBVIOUS
  <2> HIDE DEF names, first
  <2>6. (ds # "value" => Creates(t, ds)) /\ (ds = "value" => Creates(s, ds))
    BY <1>2, <2>1, <2>4, <2>5
  <2>7. IsList(s) /\ IsList(t)
    BY <2>1, EventDatasetsMade DEF AreDatasets
  <2> HIDE DEF s, t
  <2>8. kind # "tdct" => Creates(s \o t, ds)
    BY <2>6, <2>7, CreatesBoth
  <2> QED BY <2>2, <2>3, <2>6, <2>8
<1>7. CASE kind \in EventKinds
  <2> DEFINE names == <<"event_time_offset", "event_id", "event_time_zero", "event_index",
                        "cue_index", "cue_timestamp_zero">>
             others == <<"event_time_offset", "event_id", "event_time_zero",
                         "event_time_zero_index", "event_index", "cue_index", "cue_timestamp_zero">>
             more == When(cfg.adc, AdcDatasets)
  <2>1. ds \in {"event_id", "event_index", "cue_index", "cue_timestamp_zero"}
    BY <1>7 DEF IndexDatasets, CueKinds, EventKinds
  <2>2. /\ names \in Seq(DatasetNames) /\ \E i \in 1..Len(names) : names[i] = ds
        /\ others \in Seq(DatasetNames) /\ \E i \in 1..Len(others) : others[i] = ds
    <3>1. names \in Seq(DatasetNames) /\ others \in Seq(DatasetNames)
      BY DEF DatasetNames
    <3>2. Len(names) = 6 /\ names[2] = "event_id" /\ names[4] = "event_index" /\ names[5] = "cue_index" /\ names[6] = "cue_timestamp_zero"
      OBVIOUS
    <3>3. Len(others) = 7 /\ others[2] = "event_id" /\ others[5] = "event_index" /\ others[6] = "cue_index" /\ others[7] = "cue_timestamp_zero"
      OBVIOUS
    <3> HIDE DEF names, others
    <3>4. \E i \in 1..Len(names) : names[i] = ds
      BY <2>1, <3>2
    <3>5. \E i \in 1..Len(others) : others[i] = ds
      BY <2>1, <3>3
    <3> QED BY <3>1, <3>4, <3>5
  <2>3. more \in Seq(DatasetNames)
    <3>1. AdcDatasets \in Seq(DatasetNames) /\ << >> \in Seq(DatasetNames)
      BY DEF AdcDatasets, DatasetNames
    <3> QED BY <3>1 DEF When
  <2>4. (kind = "ev42" /\ order = EventDatasets(cfg, names \o more)) \/ (kind = "ev44" /\ order = EventDatasets(cfg, others))
    BY <1>7 DEF init_hdf, ev42_init_hdf, ev44_init_hdf, EventKinds
  <2> HIDE DEF names, others, more
  <2>5. IsList(names) /\ IsList(others) /\ IsList(more)
    BY <2>2, <2>3, ListOf
  <2>6. PICK i \in 1..Len(names) : names[i] = ds
    BY <2>2
  <2>7. IsList(names \o more) /\ i \in 1..Len(names \o more) /\ (names \o more)[i] = ds
    BY <2>5, <2>6, JoinedMembers
  <2> DEFINE all == names \o more
  <2> HIDE DEF all
  <2>8. Creates(EventDatasets(cfg, all), ds)
    BY <1>2, <2>7 DEF all
  <2>9. Creates(EventDatasets(cfg, others), ds)
    BY <1>2, <2>2, <2>5
  <2> QED BY <2>4, <2>8, <2>9 DEF all
<1> QED BY <1>0, <1>3, <1>4, <1>5, <1>6, <1>7 DEF CueKinds

-----------------------------------------------------------------------------
(* As long as every message is handled, the indexes are right              *)

\* A file as init_hdf leaves it and reopen finds it.
EmptyFile(w, F) == IndexDatasets(w) \subseteq DOMAIN F /\ \A ds \in DOMAIN F : IsNew(w, ds, F[ds])

\* The file and the members after n messages that were all handled: every object
\* has counted the rows of its dataset, the counters of the logs and of the
\* event modules agree with the rows, and the indexes find their message.
IndexState(w, c, F, M, n) ==
  w \in CueKinds \cup EventKinds =>
    /\ FileFull(w, F) /\ DOMAIN M = DOMAIN Members /\ IndexDatasets(w) \subseteq DOMAIN F
    /\ w \in CueKinds => CuesFind(w, F)
    /\ w \in {"f144", "f142"} => M.NrOfWrites = Len(F["time"].rows)
    /\ w \in EventKinds => EventsFind(w, c, F, M, n)

IndexInv ==
  /\ WriterInv /\ cfg \in Configs(kind) /\ k \in Nat
  /\ phase \in {"configured", "created"} => mem = Members /\ k = 0
  /\ phase = "created" => EmptyFile(kind, file)
  /\ phase = "open" /\ thrown = {} /\ irregular = {} => IndexState(kind, cfg, file, mem, k)

\* The names by kind.
LEMMA IndexNamesOf ==
  ASSUME NEW w, NEW F, IndexDatasets(w) \subseteq DOMAIN F
  PROVE  (w \in CueKinds => HasTargets(w, F)) /\ (w \in EventKinds => HasEvents(F))
BY DEF IndexDatasets, HasTargets, HasEvents, CueKinds, EventKinds

\* Before the first message.
LEMMA EmptyState ==
  ASSUME NEW w, NEW c, w \in EventKinds => c.interval \in Nat, NEW F, EmptyFile(w, F)
  PROVE  IndexState(w, c, F, Members, 0)
<1>0. IndexDatasets(w) \subseteq DOMAIN F /\ DOMAIN Members = DOMAIN Members
  BY DEF EmptyFile
<1>1. \A ds \in DOMAIN F : DatasetOK(w, ds, F[ds]) /\ F[ds].rows = << >> /\ F[ds].n = 0
  BY DEF EmptyFile, IsNew
<1>2. Len(<< >>) = 0 /\ IsList(<< >>)
  <2>1. IsList(<< >>)
    BY Script0 DEF IsScript
  <2> QED BY <2>1
<1>3. \A ds \in DOMAIN F : IsList(F[ds].rows) /\ Len(F[ds].rows) = 0
  BY <1>1, <1>2
<1>4. FileFull(w, F)
  BY <1>1, <1>3 DEF FileFull, FileOK
<1>5. ASSUME w \in CueKinds PROVE CuesFind(w, F)
  <2>1. CueTargets(w) \cup {"cue_index", "cue_timestamp_zero"} \subseteq DOMAIN F
    BY <1>0, <1>5, IndexNamesOf DEF HasTargets
  <2>2. "time" \in CueTargets(w)
    BY DEF CueTargets
  <2> HIDE DEF CueTargets
  <2> QED BY <1>3, <2>1, <2>2 DEF CuesFind
<1>6. ASSUME w \in {"f144", "f142"} PROVE Members.NrOfWrites = Len(F["time"].rows)
  <2>1. "time" \in DOMAIN F
    BY <1>0, <1>6 DEF IndexDatasets, CueTargets, CueKinds
  <2> QED BY <1>3, <2>1 DEF Members
<1>7. ASSUME w \in EventKinds PROVE EventsFind(w, c, F, Members, 0)
  <2>1. {"event_id", "event_index", "cue_index"} \subseteq DOMAIN F
    BY <1>0, <1>7, IndexNamesOf DEF HasEvents
  <2>2. Members.EventsWritten = 0 /\ Members.LastEventIndex = 0
    BY DEF Members
  <2>3. \A ds \in {"event_id", "event_index", "cue_index"} : IsList(F[ds].rows) /\ Len(F[ds].rows) = 0
    BY <1>3, <2>1
  <2> QED BY <1>7, <2>2, <2>3 DEF EventsFind
<1> QED BY <1>0, <1>4, <1>5, <1>6, <1>7 DEF IndexState

\* init_hdf leaves every dataset of the module empty, or fails.
LEMMA InitHDFEmpty ==
  ASSUME WriterInv, InitHDF, phase' = "created"
  PROVE  EmptyFile(kind, file')
<1> DEFINE order == init_hdf(kind, cfg)
<1>1. PICK n \in 0..Len(order) :
        /\ file' = [ds \in {order[i][1] : i \in 1..n} |-> (CHOOSE p \in {order[i] : i \in 1..n} : p[1] = ds)[2]]
        /\ phase' = IF n = Len(order) /\ n > 0 THEN "created" ELSE "error"
  BY DEF InitHDF
<1>2. n = Len(order) /\ n > 0
  BY <1>1
<1>3. AreDatasets(kind, order)
  BY DatasetsMade DEF WriterInv
<1>4. \A ds \in IndexDatasets(kind) : Creates(order, ds)
  BY <1>2, IndexesMade DEF WriterInv
<1> HIDE DEF order
<1>5. \A i \in 1..n : IsNew(kind, order[i][1], order[i][2])
  BY <1>2, <1>3, ListLength, ListMember DEF AreDatasets
<1> DEFINE made == {order[i] : i \in 1..n}
           names == {order[i][1] : i \in 1..n}
           chosen(ds) == CHOOSE p \in made : p[1] = ds
<1>6. \A p \in made : IsNew(kind, p[1], p[2])
  BY <1>5
<1>7. ASSUME NEW ds \in names PROVE chosen(ds) \in made /\ chosen(ds)[1] = ds
  <2>1. \E p \in made : p[1] = ds
    OBVIOUS
  <2> HIDE DEF made
  <2> QED BY <2>1
<1>8. file' = [ds \in names |-> chosen(ds)[2]]
  BY <1>1
<1>9. IndexDatasets(kind) \subseteq names
  BY <1>2, <1>4 DEF Creates
<1> HIDE DEF made, names, chosen
<1>10. ASSUME NEW ds \in names PROVE IsNew(kind, ds, file'[ds])
  <2>1. IsNew(kind, ds, chosen(ds)[2])
    BY <1>6, <1>7
  <2> QED BY <1>8, <2>1
<1> QED BY <1>8, <1>9, <1>10 DEF EmptyFile

\* Opening an empty dataset changes nothing.
LEMMA ReopenEmpty ==
  ASSUME EmptyFile(kind, file), Reopen
  PROVE  EmptyFile(kind, file')
<1>1. /\ DOMAIN file' = DOMAIN file
      /\ \A ds \in DOMAIN file : \/ file'[ds] = file[ds]
                                 \/ file'[ds] = OpenBase(file[ds]) \/ file'[ds] = OpenDataset(file[ds])
  BY DEF Reopen
<1>2. ASSUME NEW ds \in DOMAIN file PROVE IsNew(kind, ds, file'[ds])
  <2> DEFINE d == file[ds]
             e == file'[ds]
  <2>1. IsNew(kind, ds, d)
    BY DEF EmptyFile
  <2>2. e = d \/ e = OpenBase(d) \/ e = OpenDataset(d)
    BY <1>1
  <2> HIDE DEF d, e
  <2>3. Len(d.rows) = 0
    BY <2>1 DEF IsNew
  <2>4. DOMAIN e = DOMAIN d /\ e.rows = d.rows /\ e.dims = d.dims /\ e.n = 0
    BY <2>1, <2>2, <2>3 DEF OpenBase, OpenDataset, DatasetOK, IsNew
  <2>5. IsNew(kind, ds, e)
    BY <2>1, <2>3, <2>4 DEF DatasetOK, IsNew
  <2> QED BY <2>5 DEF e
<1> QED BY <1>1, <1>2 DEF EmptyFile

\* A message with rows for the cues.
LEMMA CueStateKept ==
  ASSUME NEW w \in CueKinds, NEW c, NEW a, IndexState(w, c, a.file, a.mem, k), NEW b, Handled(w, a, b, k + 1),
         w \in {"f144", "f142"} => b.mem.NrOfWrites = Len(b.file["time"].rows)
  PROVE  IndexState(w, c, b.file, b.mem, k + 1)
<1>1. w \notin EventKinds
  BY DEF CueKinds, EventKinds
<1>2. CuesFind(w, b.file)
  BY CueStepFinds DEF IndexState, Handled
<1>3. FileFull(w, b.file) /\ DOMAIN b.mem = DOMAIN Members /\ IndexDatasets(w) \subseteq DOMAIN b.file
  BY DEF IndexState, Handled, AccFull
<1> QED BY <1>1, <1>2, <1>3 DEF IndexState

\* A message with events.
LEMMA EventStateKept ==
  ASSUME NEW w \in EventKinds, NEW c, c.interval \in Nat \ {0}, k \in Nat, NEW a, IndexState(w, c, a.file, a.mem, k),
         NEW b, EventHandled(w, a, b, c, k + 1)
  PROVE  IndexState(w, c, b.file, b.mem, k + 1)
<1>1. w \notin CueKinds
  BY DEF CueKinds, EventKinds
<1>2. EventsFind(w, c, b.file, b.mem, k + 1)
  BY EventStepFinds DEF IndexState, EventHandled
<1>3. FileFull(w, b.file) /\ DOMAIN b.mem = DOMAIN Members /\ IndexDatasets(w) \subseteq DOMAIN b.file
  BY DEF IndexState, EventHandled, AccFull
<1>4. w \notin {"f144", "f142"}
  BY DEF EventKinds
<1> QED BY <1>1, <1>2, <1>3, <1>4 DEF IndexState

\* A message that fits and is handled without an exception.
LEMMA HandledState ==
  ASSUME kind \in Kinds, cfg \in Configs(kind), k \in Nat, NEW m \in Messages(kind), ~IsIrregular(kind, m), NEW t,
         IndexState(kind, cfg, file, mem, k), NEW b,
         Leads([file |-> file, mem |-> mem, threw |-> FALSE], write(kind, Stamped(m, t)), b)
  PROVE  IndexState(kind, cfg, b.file, b.mem, k + 1)
<1> DEFINE a == [file |-> file, mem |-> mem, threw |-> FALSE]
           msg == Stamped(m, t)
<1>1. a.file = file /\ a.mem = mem /\ AccOK(a)
  BY DEF AccOK
<1>2. \A x \in VectorFields(kind) : IsList(msg[x]) /\ msg[x] = m[x]
  BY StampedVectors
<1>a. /\ kind = "ev42" => \A i \in DOMAIN AdcDatasets : IsList(msg.adc[i])
      /\ kind \in {"se00", "senv"} => msg.hasTimes = m.hasTimes
  BY StampedFields
<1>3. Leads(a, write(kind, msg), b) /\ IndexState(kind, cfg, a.file, a.mem, k)
  BY <1>1
<1> HIDE DEF a, msg
<1>4. kind \in CueKinds \cup EventKinds => AccFull(kind, a) /\ IndexDatasets(kind) \subseteq DOMAIN a.file
  BY <1>1, <1>3 DEF IndexState, AccFull
<1>5. kind \in CueKinds => AccFull(kind, a) /\ HasTargets(kind, a.file) /\ CuesFind(kind, a.file)
  BY <1>3, <1>4, IndexNamesOf DEF IndexState
<1>6. kind \in EventKinds => AccFull(kind, a) /\ HasEvents(a.file)
  BY <1>4, IndexNamesOf
<1>7. CASE kind \in {"f144", "f142"}
  <2>1. msg.vals # << >>
    <3>1. msg.vals = m.vals
      BY <1>2, <1>7 DEF VectorFields
    <3> QED BY <1>7, <3>1 DEF IsIrregular
  <2>2. Leads(a, f144_write(cfg, file, mem, k + 1, msg), b) \/ Leads(a, f142_write(cfg, file, mem, k + 1, msg), b)
    BY <1>3, <1>7 DEF write
  <2>3. kind \in CueKinds
    BY <1>7 DEF CueKinds
  <2>4. mem.NrOfWrites = Len(a.file["time"].rows)
    BY <1>1, <1>3, <1>7, <2>3 DEF IndexState
  <2>5. Handled(kind, a, b, k + 1) /\ b.mem.NrOfWrites = Len(b.file["time"].rows)
    <3>1. AccFull(kind, a) /\ HasTargets(kind, a.file)
      BY <1>5, <2>3
    <3>2. LogWritten(a, b, cfg, file, mem, k + 1, msg)
      BY <2>2 DEF LogWritten
    <3> QED BY <1>7, <2>1, <2>4, <3>1, <3>2, LogHandled
  <2> QED BY <1>3, <2>3, <2>5, CueStateKept
<1>8. CASE kind \in {"ADAr", "NDAr"}
  <2>1. Leads(a, ADAr_write(cfg, a.file, mem, k + 1, msg), b) \/ Leads(a, NDAr_write(cfg, a.file, mem, k + 1, msg), b)
    BY <1>1, <1>3, <1>8 DEF write
  <2>2. kind \in CueKinds /\ kind \notin {"f144", "f142"}
    BY <1>8 DEF CueKinds
  <2>3. Handled(kind, a, b, k + 1)
    BY <1>5, <1>8, <2>1, <2>2, AreaHandled
  <2> QED BY <1>3, <2>2, <2>3, CueStateKept
<1>9. CASE kind = "ns10"
  <2>1. Leads(a, ns10_write(cfg, a.file, mem, k + 1, msg), b)
    BY <1>1, <1>3, <1>9 DEF write
  <2>2. kind \in CueKinds /\ kind \notin {"f144", "f142"}
    BY <1>9 DEF CueKinds
  <2>3. Handled(kind, a, b, k + 1)
    BY <1>5, <1>9, <2>1, <2>2, CacheHandled
  <2> QED BY <1>3, <2>2, <2>3, CueStateKept
<1>10. CASE kind = "tdct"
  <2>1. Leads(a, tdct_write(cfg, a.file, mem, k + 1, msg), b)
    BY <1>1, <1>3, <1>10 DEF write
  <2>2. kind \in CueKinds /\ kind \notin {"f144", "f142"}
    BY <1>10 DEF CueKinds
  <2>3. IsList(msg.times)
    BY <1>2, <1>10 DEF VectorFields
  <2>4. Handled(kind, a, b, k + 1)
    BY <1>5, <1>10, <2>1, <2>2, <2>3, ChopperHandled
  <2> QED BY <1>3, <2>2, <2>4, CueStateKept
<1>11. CASE kind \in {"se00", "senv"}
  <2>1. \/ Leads(a, WaveformSteps(Ints \cup Floats, se00_config_post_processing(cfg), a.file, mem, k + 1, msg), b)
        \/ Leads(a, WaveformSteps(Ints, senv_config_post_processing(cfg), a.file, mem, k + 1, msg), b)
    <3>1. write(kind, msg) = se00_write(cfg, file, mem, k + 1, msg) \/ write(kind, msg) = senv_write(cfg, file, mem, k + 1, msg)
      BY <1>11 DEF write
    <3> QED BY <1>1, <1>3, <3>1 DEF se00_write, senv_write
  <2>2. kind \in CueKinds /\ kind \notin {"f144", "f142"}
    BY <1>11 DEF CueKinds
  <2>3. IsList(msg.vals) /\ IsList(msg.times) /\ msg.vals = m.vals /\ msg.times = m.times
    BY <1>2, <1>11 DEF VectorFields
  <2>4. m.hasTimes => Len(m.times) = Len(m.vals)
    BY <1>11 DEF IsIrregular
  <2>5. Len(a.file["value"].rows) = Len(a.file["time"].rows)
    <3>1. "value" \in CueTargets(kind)
      BY <1>11 DEF CueTargets
    <3> QED BY <1>5, <2>2, <3>1 DEF CuesFind
  <2>6. msg.hasTimes => Len(msg.times) = Len(msg.vals)
    BY <1>11, <1>a, <2>3, <2>4
  <2>7. Handled(kind, a, b, k + 1)
    <3>1. AccFull(kind, a) /\ HasTargets(kind, a.file)
      BY <1>5, <2>2
    <3>2. ASSUME NEW cases, NEW configured, Leads(a, WaveformSteps(cases, configured, a.file, mem, k + 1, msg), b)
          PROVE  Handled(kind, a, b, k + 1)
      BY <1>11, <2>3, <2>5, <2>6, <3>1, <3>2, WaveformHandled
    <3> QED BY <2>1, <3>2
  <2> QED BY <1>3, <2>2, <2>7, CueStateKept
<1>12. CASE kind \in EventKinds
  <2>1. cfg.interval \in Nat \ {0}
    BY <1>12, IntervalAssumption DEF EventKinds
  <2>2. IsList(msg.tof) /\ IsList(msg.id) /\ (kind = "ev44" => IsList(msg.ref) /\ IsList(msg.refIndex))
    BY <1>2, <1>12 DEF VectorFields, EventKinds
  <2>3. \/ kind = "ev42" /\ Leads(a, ev42_write(cfg, file, a.mem, k + 1, msg), b)
        \/ kind = "ev44" /\ Leads(a, ev44_write(cfg, file, a.mem, k + 1, msg), b)
    BY <1>1, <1>3, <1>12 DEF write, EventKinds
  <2>4. EventHandled(kind, a, b, cfg, k + 1)
    <3>1. CASE kind = "ev42"
      BY <1>6, <1>12, <1>a, <2>2, <2>3, <3>1, ev42_Handled
    <3>2. CASE kind = "ev44"
      BY <1>6, <1>12, <2>2, <2>3, <3>2, ev44_Handled
    <3> QED BY <2>3, <3>1, <3>2
  <2> QED BY <1>3, <1>12, <2>1, <2>4, EventStateKept
<1>13. CASE kind \notin CueKinds \cup EventKinds
  BY <1>13 DEF IndexState
<1> QED BY <1>7, <1>8, <1>9, <1>10, <1>11, <1>12, <1>13 DEF CueKinds

\* Every message that write() handles without an exception, and whose parts fit,
\* keeps the indexes right.
LEMMA MessageState ==
  ASSUME IndexInv, NEW m \in Messages(kind), Write(m), thrown' = {}, irregular' = {}
  PROVE  IndexState(kind, cfg, file', mem', k')
<1> DEFINE script == write(kind, Stamped(m, 10 * (k + 1)))
           end(f) == Execute(script, f[1], f[2])
<1>1. PICK f : /\ file' = end(f).file /\ mem' = end(f).mem
               /\ thrown' = IF end(f).threw THEN thrown \cup {k + 1} ELSE thrown
  BY DEF Write
<1>2. ~end(f).threw /\ thrown = {}
  <2>1. thrown \cup {k + 1} # {}
    OBVIOUS
  <2> HIDE DEF end
  <2> QED BY <1>1, <2>1
<1>3. irregular = {} /\ ~IsIrregular(kind, m)
  <2>1. irregular' = IF IsIrregular(kind, m) THEN irregular \cup {k + 1} ELSE irregular
    BY DEF Write
  <2>2. irregular \cup {k + 1} # {}
    OBVIOUS
  <2> QED BY <2>1, <2>2
<1>4. IsScript(kind, script) /\ FileOK(kind, file) /\ kind \in Kinds /\ cfg \in Configs(kind) /\ k \in Nat
  BY WriteScript DEF IndexInv, WriterInv
<1>5. IndexState(kind, cfg, file, mem, k)
  BY <1>2, <1>3 DEF IndexInv, Write
<1>6. k' = k + 1
  BY DEF Write
<1>7. Leads([file |-> file, mem |-> mem, threw |-> FALSE], script, end(f))
  <2> HIDE DEF script
  <2> QED BY <1>2, <1>4, ExecuteLeads
<1> HIDE DEF end
<1>8. IndexState(kind, cfg, end(f).file, end(f).mem, k + 1)
  BY <1>3, <1>4, <1>5, <1>7, HandledState
<1> QED BY <1>1, <1>6, <1>8

\* What the invariant says of the indexes.
EntryFound(p, i, row) ==
  LET entry == file[p[1]].rows[i]
      rows  == file[p[2]].rows
  IN  /\ entry.x[1] = StoredNumber(kind, row)
      /\ \/ /\ row <= Len(rows) /\ rows[row].k = entry.k
            /\ kind \in TimedCues /\ p[2] = "time" => file["cue_timestamp_zero"].rows[i].x = rows[row].x
         \/ p[1] = "event_index" /\ \A j \in DOMAIN rows : (rows[j].k > entry.k) <=> (j >= row)

LEMMA IndexesFound ==
  ASSUME IndexInv
  PROVE  IndexesFindTheirMessage
<1> SUFFICES ASSUME phase = "open", thrown = {}, irregular = {}, NEW p \in IndexTargets(kind), NEW i \in DOMAIN file[p[1]].rows
             PROVE  \E row \in 1..(Len(file[p[2]].rows) + 1) : EntryFound(p, i, row)
  BY DEF IndexesFindTheirMessage, EntryFound
<1> DEFINE entry == file[p[1]].rows[i]
           rows == file[p[2]].rows
<1>1. IndexState(kind, cfg, file, mem, k) /\ kind \in Kinds
  BY DEF IndexInv, WriterInv
<1>2. CASE kind \in CueKinds
  <2>1. CuesFind(kind, file)
    BY <1>1, <1>2 DEF IndexState
  <2>2. p[1] = "cue_index" /\ p[2] \in CueTargets(kind)
    BY <1>2 DEF IndexTargets, CueTargets, CueKinds
  <2>3. i \in 1..Len(file["cue_index"].rows)
    BY <2>1, <2>2, ListLength DEF CuesFind
  <2>4. PICK v \in Nat : CueAt(kind, file, i, v)
    BY <2>1, <2>3 DEF CuesFind
  <2>5. Finds(kind, entry, rows, v) /\ (kind \in TimedCues => file["cue_timestamp_zero"].rows[i].x = file["time"].rows[v + 1].x)
    BY <2>2, <2>4 DEF CueAt
  <2>6. Len(rows) \in Nat
    BY <2>1, <2>2, ListLength DEF CuesFind
  <2>7. entry.x[1] = StoredNumber(kind, v + 1) /\ rows[v + 1].k = entry.k
    BY <2>5, NumberStored DEF Finds
  <2>8. v + 1 <= Len(rows) /\ v + 1 \in 1..(Len(rows) + 1)
    BY <2>5, <2>6 DEF Finds
  <2>9. EntryFound(p, i, v + 1)
    BY <2>5, <2>7, <2>8 DEF EntryFound
  <2> QED BY <2>8, <2>9
<1>3. CASE kind \in EventKinds
  <2>1. EventsFind(kind, cfg, file, mem, k)
    BY <1>1, <1>3 DEF IndexState
  <2>2. p[1] \in {"cue_index", "event_index"} /\ p[2] = "event_id" /\ kind \notin TimedCues
    BY <1>3 DEF IndexTargets, EventKinds, TimedCues
  <2>3. \A ds \in {"event_id", "event_index", "cue_index"} : /\ Len(file[ds].rows) \in Nat
                                                          /\ DOMAIN file[ds].rows = 1..Len(file[ds].rows)
    BY <2>1, ListLength DEF EventsFind
  <2>4. Len(rows) \in Nat /\ DOMAIN rows = 1..Len(rows) /\ i \in 1..Len(file[p[1]].rows)
    BY <2>2, <2>3
  <2>5. ASSUME NEW v \in Nat, Finds(kind, entry, rows, v) PROVE \E row \in 1..(Len(rows) + 1) : EntryFound(p, i, row)
    <3>1. entry.x[1] = StoredNumber(kind, v + 1) /\ rows[v + 1].k = entry.k
      BY <2>5, NumberStored DEF Finds
    <3>2. v + 1 <= Len(rows) /\ v + 1 \in 1..(Len(rows) + 1)
      BY <2>4, <2>5 DEF Finds
    <3>3. EntryFound(p, i, v + 1)
      BY <2>2, <3>1, <3>2 DEF EntryFound
    <3> QED BY <3>2, <3>3
  <2>6. CASE p[1] = "cue_index"
    <3>1. PICK v \in Nat : Finds(kind, entry, rows, v)
      BY <2>1, <2>2, <2>4, <2>6 DEF EventsFind
    <3> QED BY <2>5, <3>1
  <2>7. CASE p[1] = "event_index"
    <3>1. Divides(kind, entry, rows)
      BY <2>1, <2>2, <2>4, <2>7 DEF EventsFind
    <3>2. PICK v \in Nat : DividesAt(kind, entry, rows, v)
      BY <3>1 DEF Divides
    <3>3. CASE Finds(kind, entry, rows, v)
      BY <2>5, <3>3
    <3>4. CASE \A j \in 1..Len(rows) : (rows[j].k > entry.k) <=> (j >= v + 1)
      <4>1. entry.x[1] = StoredNumber(kind, v + 1)
        BY <3>2, NumberStored DEF DividesAt
      <4>2. v + 1 \in 1..(Len(rows) + 1)
        BY <2>4, <3>2 DEF DividesAt
      <4>3. EntryFound(p, i, v + 1)
        BY <2>4, <2>7, <3>4, <4>1 DEF EntryFound
      <4> QED BY <4>2, <4>3
    <3> QED BY <3>2, <3>3, <3>4 DEF DividesAt
  <2> QED BY <2>2, <2>6, <2>7
<1>4. CASE kind \notin CueKinds \cup EventKinds
  <2>1. IndexTargets(kind) = {}
    BY <1>4 DEF IndexTargets, CueKinds, EventKinds
  <2> QED BY <2>1
<1> QED BY <1>2, <1>3, <1>4

\* As long as no message failed and every message's parts fit, each entry of
\* cue_index and event_index is the number, as far as an uint32 can hold it, of a
\* row of the message that made it, for any messages, any number of them and any
\* interval between cues.
THEOREM IndexesFind == Spec => []IndexesFindTheirMessage
<1>1. Init => IndexInv
  <2> SUFFICES ASSUME Init PROVE IndexInv
    OBVIOUS
  <2>1. file = << >> /\ kind \in Kinds /\ cfg \in Configs(kind) /\ phase = "configured" /\ mem = Members /\ k = 0
    BY DEF Init
  <2>2. DOMAIN file = {}
    BY <2>1
  <2>3. WriterInv
    BY <2>1, <2>2 DEF WriterInv, FileOK
  <2>4. k \in Nat
    BY <2>1
  <2>5. phase # "created" /\ phase # "open"
    BY <2>1
  <2> QED BY <2>1, <2>3, <2>4, <2>5 DEF IndexInv
<1>2. IndexInv /\ [Next]_vars => IndexInv'
  <2> SUFFICES ASSUME IndexInv, [Next]_vars PROVE IndexInv'
    OBVIOUS
  <2>0. WriterInv
    BY DEF IndexInv
  <2>1. CASE InitHDF
    <3>1. WriterInv'
      BY <2>0, <2>1, InitHDFKeeps
    <3>2. phase' = "created" => EmptyFile(kind, file')
      BY <2>0, <2>1, InitHDFEmpty
    <3>3. /\ kind' = kind /\ cfg' = cfg /\ mem' = mem /\ k' = k
          /\ phase = "configured" /\ phase' \in {"created", "error"}
      BY <2>1 DEF InitHDF
    <3> QED BY <3>1, <3>2, <3>3 DEF IndexInv
  <2>2. CASE Reopen
    <3>1. WriterInv'
      BY <2>0, <2>2, ReopenKeeps
    <3>2. /\ kind' = kind /\ cfg' = cfg /\ mem' = mem /\ k' = k
          /\ phase = "created" /\ phase' \in {"open", "error"}
      BY <2>2 DEF Reopen
    <3>3. EmptyFile(kind, file') /\ mem = Members /\ k = 0
      BY <2>2, <3>2, ReopenEmpty DEF IndexInv
    <3>4. kind \in EventKinds => cfg.interval \in Nat
      BY IntervalAssumption DEF IndexInv, WriterInv, EventKinds
    <3>5. IndexState(kind, cfg, file', mem, k)
      BY <3>3, <3>4, EmptyState
    <3> QED BY <3>1, <3>2, <3>5 DEF IndexInv
  <2>3. ASSUME NEW m \in Messages(kind), Write(m) PROVE IndexInv'
    <3>1. WriterInv'
      BY <2>0, <2>3, MessageKeeps
    <3>2. kind' = kind /\ cfg' = cfg /\ phase' = "open" /\ k' = k + 1
      BY <2>3 DEF Write
    <3>3. thrown' = {} /\ irregular' = {} => IndexState(kind, cfg, file', mem', k')
      BY <2>3, MessageState
    <3>4. k' \in Nat
      BY <3>2 DEF IndexInv
    <3> QED BY <3>1, <3>2, <3>3, <3>4 DEF IndexInv
  <2>4. CASE UNCHANGED vars
    BY <2>4 DEF vars, IndexInv, WriterInv, FileOK
  <2> QED BY <2>1, <2>2, <2>3, <2>4 DEF Next
<1> QED BY <1>1, <1>2, IndexesFound, PTL DEF Spec
=============================================================================
