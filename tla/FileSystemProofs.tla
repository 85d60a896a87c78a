-------------------------- MODULE FileSystemProofs --------------------------
(***************************************************************************)
(* FileSystem for every disk and every set of names: its types, when       *)
(* Create succeeds, that no sector is handed out twice, that what is       *)
(* written to a file is read back.  FileTreeProofs goes on from here.      *)
(*                                                                         *)
(* Allocate, GetDirSector, FetchFrom, ByteToSector and with them all that  *)
(* a call computes are recursive functions, and a recursive function is a  *)
(* CHOOSE: that it satisfies its own equation has to be proved, from a     *)
(* function for every bound that does (RowsExist, AtExists, FetchesExist,  *)
(* InsExist) and from the agreement of two of them as far as both go       *)
(* (RowsAgree, AtAgrees).  What Allocate returns then follows header by    *)
(* header (AllocateIs).                                                    *)
(*                                                                         *)
(* Each write of a call changes one part of the disk only, and the disk    *)
(* between two of them is in no good state.  What is invariant is where    *)
(* the writes lead: Leads says it part by part, Own and Linked are what is *)
(* true of the disk that they lead to.                                     *)
(***************************************************************************)
EXTENDS FileSystem, SequenceTheorems, FiniteSetTheorems, WellFoundedInduction, TLAPS

-----------------------------------------------------------------------------
(* Induction over the numbers, as a fact about sets of numbers.            *)

\* A set of natural numbers has a least one: the sets {0 .. n - 1} are ordered
\* by inclusion, which is well-founded on finite sets.
LEMMA LeastNumber ==
    ASSUME NEW T, T \subseteq Nat, T # {}
    PROVE  \E n \in T : \A m \in T : n <= m
<1> DEFINE U == {0 .. n - 1 : n \in T}
<1>1. U \subseteq FiniteSubsetsOf(Nat) /\ U # {}
  <2>1. \A n \in T : IsFiniteSet(0 .. n - 1) /\ 0 .. n - 1 \subseteq Nat
    BY FS_Interval
  <2>2. \A n \in T : 0 .. n - 1 \in FiniteSubsetsOf(Nat)
    BY <2>1 DEF FiniteSubsetsOf
  <2>3. PICK n : n \in T
    OBVIOUS
  <2>4. 0 .. n - 1 \in U
    BY <2>3
  <2> QED
    BY <2>2, <2>4
<1>2. PICK x \in U : \A y \in U : <<y, x>> \notin StrictSubsetOrdering(Nat)
  <2> HIDE DEF U
  <2> QED
    BY <1>1, FS_StrictSubsetOrderingWellFounded, WFMin
<1>3. PICK n \in T : x = 0 .. n - 1
  OBVIOUS
<1>4. ASSUME NEW m \in T, m < n PROVE FALSE
  <2>1. 0 .. m - 1 \in U
    OBVIOUS
  <2>2. /\ 0 .. m - 1 \subseteq 0 .. n - 1 /\ 0 .. m - 1 # 0 .. n - 1
        /\ 0 .. m - 1 \subseteq Nat /\ 0 .. n - 1 \subseteq Nat
    BY <1>4
  <2> QED
    BY <1>2, <1>3, <2>1, <2>2 DEF StrictSubsetOrdering
<1> QED
  BY <1>4

\* A set that holds every number whose predecessors it holds holds all numbers.
LEMMA AllNumbers ==
    ASSUME NEW T, \A n \in Nat : (\A m \in 0 .. n - 1 : m \in T) => n \in T
    PROVE  \A n \in Nat : n \in T
<1> SUFFICES ASSUME NEW k \in Nat, k \notin T PROVE FALSE
  OBVIOUS
<1>1. Nat \ T \subseteq Nat /\ Nat \ T # {}
  OBVIOUS
<1>2. PICK n \in Nat \ T : \A m \in Nat \ T : n <= m
  BY <1>1, LeastNumber
<1>3. \A m \in 0 .. n - 1 : m \in T
  BY <1>2
<1> QED
  BY <1>2, <1>3

-----------------------------------------------------------------------------
(* The free map.                                                           *)

\* A free map has finitely many clear sectors, and at most as many below a sector.
LEMMA ClearFinite ==
    ASSUME NEW map
    PROVE  /\ IsFiniteSet(Clear(map)) /\ Cardinality(Clear(map)) \in Nat
           /\ \A T : T \subseteq Clear(map) => IsFiniteSet(T) /\ Cardinality(T) \in Nat
<1>1. NumSectors \in Nat /\ 0 \in Int /\ NumSectors - 1 \in Int
  BY DiskAssumption
<1>2. IsFiniteSet(Sectors)
  BY <1>1, FS_Interval DEF Sectors
<1>3. \A T : T \subseteq Sectors => IsFiniteSet(T) /\ Cardinality(T) \in Nat
  BY <1>2, FS_Subset, FS_CardinalityType
<1> QED
  BY <1>3 DEF Clear

Below(map, s) == {u \in Clear(map) : u < s}

\* The n-th clear sector is one: n - 1 are below it.
LEMMA NthClearIs ==
    ASSUME NEW map, NEW n \in 1 .. Cardinality(Clear(map))
    PROVE  NthClear(map, n) \in Clear(map) /\ Cardinality(Below(map, NthClear(map, n))) = n - 1
<1> DEFINE T == {s \in Nat : Cardinality(Below(map, s)) >= n}
<1>1. \A s \in Nat : IsFiniteSet(Below(map, s)) /\ Cardinality(Below(map, s)) \in Nat
  BY ClearFinite DEF Below
<1>2. n \in Nat /\ n >= 1 /\ n <= Cardinality(Clear(map))
  BY ClearFinite
<1>3. Clear(map) \subseteq 0 .. NumSectors - 1 /\ NumSectors \in Nat
  BY DiskAssumption DEF Clear, Sectors
<1>4. T \subseteq Nat /\ T # {}
  <2>1. Below(map, NumSectors) = Clear(map)
    BY <1>3 DEF Below
  <2>2. NumSectors \in T
    BY <1>2, <1>3, <2>1
  <2> QED
    BY <2>2
<1>5. PICK s \in T : \A m \in T : s <= m
  <2> HIDE DEF T
  <2> QED
    BY <1>4, LeastNumber
<1>6. s \in Nat /\ Cardinality(Below(map, s)) >= n
  OBVIOUS
<1>7. s > 0
  <2>1. Below(map, 0) = {}
    BY <1>3 DEF Below
  <2>2. Cardinality(Below(map, 0)) = 0
    BY <2>1, FS_EmptySet
  <2> QED
    BY <1>2, <1>6, <2>2
<1>8. s - 1 \in Nat /\ Cardinality(Below(map, s - 1)) < n
  <2>1. s - 1 \in Nat /\ s - 1 \notin T
    <3>1. ASSUME s - 1 \in T PROVE FALSE
      BY <1>5, <1>6, <3>1
    <3> QED
      BY <1>6, <1>7, <3>1
  <2> QED
    BY <1>1, <1>2, <2>1
<1>9. s - 1 \in Clear(map)
  <2> SUFFICES ASSUME s - 1 \notin Clear(map) PROVE FALSE
    OBVIOUS
  <2>1. Below(map, s) = Below(map, s - 1)
    BY <1>3, <1>6, <1>8 DEF Below
  <2> QED
    BY <1>1, <1>2, <1>6, <1>8, <2>1
<1>10. Cardinality(Below(map, s - 1)) = n - 1
  <2>1. Below(map, s) = Below(map, s - 1) \cup {s - 1} /\ s - 1 \notin Below(map, s - 1)
    BY <1>3, <1>6, <1>8, <1>9 DEF Below
  <2>2. Cardinality(Below(map, s)) = Cardinality(Below(map, s - 1)) + 1
    BY <1>1, <1>8, <2>1, FS_AddElement
  <2> QED
    BY <1>1, <1>2, <1>6, <1>8, <2>2
<1>11. \E u \in Clear(map) : Cardinality(Below(map, u)) = n - 1
  BY <1>9, <1>10
<1> QED
  BY <1>11 DEF NthClear, Below

\* Two different n are two different sectors.
LEMMA NthClearDiffers ==
    ASSUME NEW map, NEW i \in 1 .. Cardinality(Clear(map)), NEW j \in 1 .. Cardinality(Clear(map)),
           NthClear(map, i) = NthClear(map, j)
    PROVE  i = j
<1>1. i \in Nat /\ j \in Nat
  BY ClearFinite
<1> QED
  BY <1>1, NthClearIs

-----------------------------------------------------------------------------
(* Sizes.                                                                  *)

\* Multiplication distributes.
LEMMA Distributes ==
    ASSUME NEW d \in Int, NEW a \in Int, NEW b \in Int
    PROVE  d * (a + b) = d * a + d * b /\ d * b = b * d
  OBVIOUS

\* Division moves whole multiples out.
LEMMA DivideSum ==
    ASSUME NEW a \in Int, NEW k \in Int, NEW d \in Nat \ {0}
    PROVE  (a + k * d) \div d = (a \div d) + k
<1>1. PICK q \in Int, r \in 0 .. d - 1 : a = d * q + r /\ q = a \div d
  OBVIOUS
<1>2. a + k * d = d * (q + k) + r
  <2>1. d * (q + k) = d * q + d * k /\ d * k = k * d
    BY Distributes
  <2>2. PICK x \in Int, y \in Int, z \in Int : x = d * q /\ y = d * k /\ z = d * (q + k)
    OBVIOUS
  <2> QED
    BY <1>1, <2>1, <2>2
<1>3. PICK b \in Int : b = a + k * d
  OBVIOUS
<1>4. PICK u \in Int, v \in 0 .. d - 1 : b = d * u + v /\ u = b \div d
  OBVIOUS
<1>5. d * (u - (q + k)) = r - v
  <2>1. PICK p \in Int, e \in Int : p = q + k /\ e = u - p
    OBVIOUS
  <2>2. d * (p + e) = d * p + d * e
    BY Distributes
  <2>3. p + e = u
    BY <2>1
  <2>4. PICK x \in Int, y \in Int, z \in Int : x = d * p /\ y = d * e /\ z = d * u
    OBVIOUS
  <2>5. x + r = z + v /\ z = x + y
    BY <1>2, <1>3, <1>4, <2>1, <2>2, <2>3, <2>4
  <2> QED
    BY <2>1, <2>4, <2>5
<1>6. u = q + k
  <2>1. PICK e \in Int : e = u - (q + k)
    OBVIOUS
  <2>2. d * e < d /\ d * e > - d
    BY <1>5, <2>1
  <2>3. e < 1 /\ e > -1
    BY <2>2
  <2> QED
    BY <2>1, <2>3
<1> QED
  BY <1>1, <1>3, <1>4, <1>6

\* A number below the divisor leaves nothing.
LEMMA DivideSmall ==
    ASSUME NEW d \in Nat \ {0}, NEW a \in 0 .. d - 1
    PROVE  a \div d = 0
  OBVIOUS

\* Rounding up: a number, and positive for what is positive.
LEMMA RoundUp ==
    ASSUME NEW n \in Nat, NEW d \in Nat \ {0}
    PROVE  /\ divRoundUp(n, d) \in Nat
           /\ n = 0 => divRoundUp(n, d) = 0
           /\ n \in 1 .. d => divRoundUp(n, d) = 1
           /\ \A k \in Nat : divRoundUp(n + k * d, d) = divRoundUp(n, d) + k
<1>1. divRoundUp(n, d) \in Nat
  BY DEF divRoundUp
<1>2. n = 0 => divRoundUp(n, d) = 0
  BY DivideSmall DEF divRoundUp
<1>3. ASSUME n \in 1 .. d PROVE divRoundUp(n, d) = 1
  <2>1. ((n - 1) + 1 * d) \div d = ((n - 1) \div d) + 1
    <3>1. PICK a \in Int, k \in Int : a = n - 1 /\ k = 1
      OBVIOUS
    <3>2. (a + k * d) \div d = (a \div d) + k
      BY DivideSum
    <3> QED
      BY <3>1, <3>2
  <2>2. (n - 1) \div d = 0
    BY <1>3, DivideSmall
  <2>3. (n - 1) + 1 * d = n + d - 1
    OBVIOUS
  <2> QED
    BY <2>1, <2>2, <2>3 DEF divRoundUp
<1>4. ASSUME NEW k \in Nat PROVE divRoundUp(n + k * d, d) = divRoundUp(n, d) + k
  <2>1. PICK a \in Int : a = n + d - 1
    OBVIOUS
  <2>2. (a + k * d) \div d = (a \div d) + k
    <3>1. k \in Int
      OBVIOUS
    <3> QED
      BY <3>1, DivideSum
  <2>3. (n + k * d) + d - 1 = a + k * d
    BY <2>1
  <2> QED
    BY <2>1, <2>2, <2>3 DEF divRoundUp
<1> QED
  BY <1>1, <1>2, <1>3, <1>4

\* What one header takes of a file.
LEMMA HeaderSizes ==
    ASSUME NEW size \in Nat
    PROVE  /\ MaxFileSize \in Nat \ {0}
           /\ HeaderBytes(size) \in 0 .. MaxFileSize
           /\ HeaderSectors(size) \in Nat
           /\ size <= MaxFileSize => HeaderBytes(size) = size
           /\ size > MaxFileSize => HeaderBytes(size) = MaxFileSize /\ HeaderSectors(size) = NumDirect
<1>1. NumDirect \in Nat \ {0} /\ SectorSize \in Nat \ {0}
  BY DiskAssumption
<1>2. MaxFileSize \in Nat \ {0}
  BY <1>1 DEF MaxFileSize
<1>3. HeaderBytes(size) \in 0 .. MaxFileSize
  BY <1>2 DEF HeaderBytes
<1>4. HeaderSectors(size) \in Nat
  <2>1. PICK b \in Nat : b = HeaderBytes(size)
    BY <1>2, <1>3
  <2>2. divRoundUp(b, SectorSize) \in Nat
    BY <1>1, RoundUp
  <2> QED
    BY <2>1, <2>2 DEF HeaderSectors
<1>5. size <= MaxFileSize => HeaderBytes(size) = size
  BY <1>2 DEF HeaderBytes
<1>6. ASSUME size > MaxFileSize PROVE HeaderBytes(size) = MaxFileSize /\ HeaderSectors(size) = NumDirect
  <2>1. HeaderBytes(size) = MaxFileSize
    BY <1>2, <1>6 DEF HeaderBytes
  <2>2. 0 \in Nat /\ divRoundUp(0, SectorSize) = 0
    BY <1>1, RoundUp
  <2>3. divRoundUp(0 + NumDirect * SectorSize, SectorSize) = divRoundUp(0, SectorSize) + NumDirect
    BY <1>1, <2>2, RoundUp
  <2>4. 0 + NumDirect * SectorSize = MaxFileSize
    BY <1>1, <1>2 DEF MaxFileSize
  <2> QED
    BY <1>1, <2>1, <2>2, <2>3, <2>4 DEF HeaderSectors
<1> QED
  BY <1>2, <1>3, <1>4, <1>5, <1>6

\* SectorsNeeded follows the headers of the chain.
LEMMA NeededSteps ==
    ASSUME NEW size \in Nat
    PROVE  /\ SectorsNeeded(size) \in Nat
           /\ size <= MaxFileSize => SectorsNeeded(size) = HeaderSectors(size) + 1
           /\ size > MaxFileSize =>
                 SectorsNeeded(size) = NumDirect + 1 + SectorsNeeded(size - MaxFileSize)
<1>1. NumDirect \in Nat \ {0} /\ SectorSize \in Nat \ {0} /\ MaxFileSize \in Nat \ {0}
  BY DiskAssumption, HeaderSizes
<1>2. \A n \in Nat : divRoundUp(n, SectorSize) \in Nat /\ divRoundUp(n, MaxFileSize) \in Nat
  BY <1>1, RoundUp
<1>3. \A n \in Nat : SectorsNeeded(n) \in Nat
  BY <1>2 DEF SectorsNeeded
<1>4. ASSUME size <= MaxFileSize PROVE SectorsNeeded(size) = HeaderSectors(size) + 1
  <2>1. HeaderSectors(size) = divRoundUp(size, SectorSize)
    BY <1>4, HeaderSizes DEF HeaderSectors
  <2>2. size # 0 => divRoundUp(size, MaxFileSize) = 1
    BY <1>1, <1>4, RoundUp
  <2> QED
    BY <1>2, <2>1, <2>2 DEF SectorsNeeded
<1>5. ASSUME size > MaxFileSize
      PROVE  SectorsNeeded(size) = NumDirect + 1 + SectorsNeeded(size - MaxFileSize)
  <2>1. PICK rest \in Nat : rest = size - MaxFileSize /\ rest # 0 /\ size # 0
    BY <1>1, <1>5
  <2>2. size = rest + NumDirect * SectorSize /\ size = rest + 1 * MaxFileSize
    BY <1>1, <2>1 DEF MaxFileSize
  <2>3. divRoundUp(rest + NumDirect * SectorSize, SectorSize) = divRoundUp(rest, SectorSize) + NumDirect
    BY <1>1, RoundUp
  <2>4. divRoundUp(rest + 1 * MaxFileSize, MaxFileSize) = divRoundUp(rest, MaxFileSize) + 1
    BY <1>1, RoundUp
  <2>7. /\ divRoundUp(size, SectorSize) = divRoundUp(rest, SectorSize) + NumDirect
        /\ divRoundUp(size, MaxFileSize) = divRoundUp(rest, MaxFileSize) + 1
    <3> HIDE DEF divRoundUp
    <3> QED
      BY <2>2, <2>3, <2>4
  <2>5. SectorsNeeded(size) = divRoundUp(size, SectorSize) + divRoundUp(size, MaxFileSize)
    BY <2>1 DEF SectorsNeeded
  <2>6. SectorsNeeded(rest) = divRoundUp(rest, SectorSize) + divRoundUp(rest, MaxFileSize)
    BY <2>1 DEF SectorsNeeded
  <2>8. /\ divRoundUp(rest, SectorSize) \in Nat /\ divRoundUp(rest, MaxFileSize) \in Nat
        /\ NumDirect \in Nat
    BY <1>1, <1>2
  <2> QED
    BY <2>1, <2>5, <2>6, <2>7, <2>8
<1> QED
  BY <1>3, <1>4, <1>5

-----------------------------------------------------------------------------
(* FileHeader::Allocate.                                                   *)

\* With enough clear sectors, a header takes as many different ones as it needs.
LEMMA HeaderDataIs ==
    ASSUME NEW map \in SUBSET Sectors, NEW size \in Nat,
           Cardinality(Clear(map)) >= HeaderSectors(size)
    PROVE  /\ HeaderData(map, size) \in Seq(Sectors)
           /\ Len(HeaderData(map, size)) = HeaderSectors(size)
           /\ AfterData(map, size) \in SUBSET Sectors
           /\ Cardinality(Clear(AfterData(map, size))) = Cardinality(Clear(map)) - HeaderSectors(size)
<1>1. PICK k \in Nat : k = HeaderSectors(size)
  BY HeaderSizes
<1>2. 1 .. k \subseteq 1 .. Cardinality(Clear(map)) /\ Cardinality(Clear(map)) \in Nat
  BY <1>1, ClearFinite
<1>3. \A i \in 1 .. k : NthClear(map, i) \in Clear(map)
  BY <1>2, NthClearIs
<1>4. \A i, j \in 1 .. k : NthClear(map, i) = NthClear(map, j) => i = j
  BY <1>2, NthClearDiffers
<1>5. PICK d : d = HeaderData(map, size)
  OBVIOUS
<1>6. d = [i \in 1 .. k |-> NthClear(map, i)]
  BY <1>1, <1>5 DEF HeaderData
<1>7. \A i \in 1 .. k : d[i] = NthClear(map, i) /\ d[i] \in Clear(map) /\ d[i] \in Sectors
  BY <1>3, <1>6 DEF Clear
<1>8. d \in [1 .. k -> Sectors]
  BY <1>6, <1>7
<1>9. d \in Seq(Sectors) /\ Len(d) = k
  BY <1>8
<1> DEFINE R == {NthClear(map, i) : i \in 1 .. k}
<1>10. AfterData(map, size) = map \cup R
  BY <1>1 DEF AfterData
<1>11. R \subseteq Clear(map)
  BY <1>3
<1>12. Cardinality(R) = k
  <2>1. R = {d[i] : i \in 1 .. k}
    BY <1>7
  <2>2. d \in Bijection(1 .. k, R)
    <3>1. d \in [1 .. k -> R]
      BY <1>6
    <3>2. \A i, j \in 1 .. k : d[i] = d[j] => i = j
      BY <1>4, <1>7
    <3>3. \A x \in R : \E i \in 1 .. k : d[i] = x
      BY <2>1
    <3> HIDE DEF R
    <3> QED
      BY <3>1, <3>2, <3>3 DEF Bijection, Injection, Surjection, IsInjective
  <2> HIDE DEF R
  <2>3. ExistsBijection(1 .. k, R)
    BY <2>2 DEF ExistsBijection
  <2>4. IsFiniteSet(R)
    BY <1>11, ClearFinite
  <2> QED
    BY <2>3, <2>4, FS_CountingElements
<1>13. Clear(AfterData(map, size)) = Clear(map) \ R
  <2> HIDE DEF R
  <2> QED
    BY <1>10 DEF Clear
<1>14. Cardinality(Clear(map) \ R) = Cardinality(Clear(map)) - k
  <2> HIDE DEF R
  <2>1. IsFiniteSet(Clear(map)) /\ IsFiniteSet(R) /\ Clear(map) \cap R = R
    BY <1>11, ClearFinite
  <2> QED
    BY <1>12, <2>1, FS_Difference
<1>15. AfterData(map, size) \in SUBSET Sectors
  BY <1>10, <1>11 DEF Clear
<1> QED
  BY <1>1, <1>5, <1>9, <1>13, <1>14, <1>15

\* What Allocated computes for one size, from what it returns for what is left.
Row(h, size) == [map \in SUBSET Sectors |->
    LET after == AfterData(map, size)
        next == NthClear(after, 1)
        rest == h[after \cup {next}]
    IN  IF ~ NumClearAtLeast(map, HeaderSectors(size)) THEN Failed
        ELSE IF size = HeaderBytes(size)
          THEN [ok |-> TRUE, map |-> after, chain |-> <<HeaderOf(map, size, NoSector)>>]
        ELSE IF Clear(after) = {} THEN Failed
        ELSE IF rest.ok
          THEN [ok |-> TRUE, map |-> rest.map, chain |-> <<HeaderOf(map, size, next)>> \o rest.chain]
        ELSE Failed]

\* The last header of a chain asks for no more.
LEMMA RowLast ==
    ASSUME NEW h, NEW g, NEW size \in Nat, size <= MaxFileSize
    PROVE  Row(h, size) = Row(g, size)
<1>1. size = HeaderBytes(size)
  BY HeaderSizes
<1> QED
  BY <1>1 DEF Row

Rows(f, m) == f = [size \in 0 .. m |-> Row(f[size - HeaderBytes(size)], size)]

\* Two functions that compute as Allocated does agree.
LEMMA RowsAgree ==
    ASSUME NEW f, NEW m \in Nat, Rows(f, m), NEW g, NEW n \in Nat, Rows(g, n)
    PROVE  \A k \in Nat : k <= m /\ k <= n => f[k] = g[k]
<1> DEFINE T == {k \in Nat : k <= m /\ k <= n => f[k] = g[k]}
<1>1. ASSUME NEW k \in Nat, \A j \in 0 .. k - 1 : j \in T PROVE k \in T
  <2> SUFFICES ASSUME k <= m, k <= n PROVE f[k] = g[k]
    OBVIOUS
  <2>1. f[k] = Row(f[k - HeaderBytes(k)], k) /\ g[k] = Row(g[k - HeaderBytes(k)], k)
    BY DEF Rows
  <2>2. CASE k <= MaxFileSize
    BY <2>1, <2>2, RowLast
  <2>3. CASE k > MaxFileSize
    <3>1. PICK j \in 0 .. k - 1 : j = k - HeaderBytes(k)
      BY <2>3, HeaderSizes
    <3>2. f[j] = g[j]
      BY <1>1, <3>1
    <3> QED
      BY <2>1, <3>1, <3>2
  <2> QED
    BY <2>2, <2>3, HeaderSizes
<1>2. \A k \in Nat : k \in T
  <2> HIDE DEF T
  <2> QED
    BY <1>1, AllNumbers
<1> QED
  BY <1>2

\* There is such a function up to any size.
LEMMA RowsExist == \A m \in Nat : \E f : Rows(f, m)
<1> DEFINE T == {m \in Nat : \E f : Rows(f, m)}
<1>1. ASSUME NEW m \in Nat, \A j \in 0 .. m - 1 : j \in T PROVE \E f : Rows(f, m)
  <2>1. CASE m = 0
    <3> DEFINE f == [size \in 0 .. 0 |-> Row(0, size)]
    <3>1. \A size \in 0 .. 0 : f[size] = Row(f[size - HeaderBytes(size)], size)
      BY RowLast, HeaderSizes
    <3>2. f = [size \in 0 .. 0 |-> f[size]]
      OBVIOUS
    <3> HIDE DEF f
    <3>3. Rows(f, 0)
      BY <3>1, <3>2 DEF Rows
    <3> QED
      BY <2>1, <3>3
  <2>2. CASE m > 0
    <3>1. PICK f : Rows(f, m - 1)
      BY <1>1, <2>2
    <3> DEFINE g == [size \in 0 .. m |->
                        IF size = m THEN Row(f[m - HeaderBytes(m)], m) ELSE f[size]]
    <3>2. g = [size \in 0 .. m |-> g[size]]
      OBVIOUS
    <3>3. g[m] = Row(f[m - HeaderBytes(m)], m) /\ \A size \in 0 .. m - 1 : g[size] = f[size]
      BY <2>2
    <3> HIDE DEF g
    <3>4. ASSUME NEW size \in 0 .. m PROVE g[size] = Row(g[size - HeaderBytes(size)], size)
      <4>1. size \in Nat /\ MaxFileSize \in Nat
        BY HeaderSizes
      <4>2. CASE size <= MaxFileSize
        <5>1. CASE size = m
          BY <3>3, <4>1, <4>2, <5>1, RowLast
        <5>2. CASE size # m
          <6>1. size \in 0 .. m - 1
            BY <5>2
          <6>2. f[size] = Row(f[size - HeaderBytes(size)], size)
            BY <3>1, <6>1 DEF Rows
          <6> QED
            BY <3>3, <4>1, <4>2, <6>1, <6>2, RowLast
        <5> QED
          BY <5>1, <5>2
      <4>3. CASE size > MaxFileSize
        <5>1. PICK j \in 0 .. size - 1 : j = size - HeaderBytes(size)
          BY <4>1, <4>3, HeaderSizes
        <5>2. g[j] = f[j]
          BY <3>3, <5>1
        <5>3. CASE size = m
          BY <3>3, <5>1, <5>2, <5>3
        <5>4. CASE size # m
          <6>1. size \in 0 .. m - 1
            BY <5>4
          <6>2. f[size] = Row(f[j], size)
            BY <3>1, <5>1, <6>1 DEF Rows
          <6> QED
            BY <3>3, <5>1, <5>2, <6>1, <6>2
        <5> QED
          BY <5>3, <5>4
      <4> QED
        BY <4>1, <4>2, <4>3
    <3>5. Rows(g, m)
      BY <3>2, <3>4 DEF Rows
    <3> QED
      BY <3>5
  <2> QED
    BY <2>1, <2>2
<1>2. \A m \in Nat : (\A j \in 0 .. m - 1 : j \in T) => m \in T
  BY <1>1
<1>3. \A m \in Nat : m \in T
  <2> HIDE DEF T
  <2> QED
    BY <1>2, AllNumbers
<1> QED
  BY <1>3

\* Hence Allocated satisfies its recursive definition.
LEMMA AllocatedIs == \A size \in Nat : Allocated[size] = Row(Allocated[size - HeaderBytes(size)], size)
<1> DEFINE G(m) == CHOOSE f : Rows(f, m)
           F == [size \in Nat |-> G(size)[size]]
<1>1. \A m \in Nat : Rows(G(m), m)
  BY RowsExist
<1> HIDE DEF G
<1>2. \A size \in Nat : F[size] = G(size)[size]
  OBVIOUS
<1>3. F = [size \in Nat |-> F[size]]
  OBVIOUS
<1> HIDE DEF F
<1>4. ASSUME NEW size \in Nat PROVE F[size] = Row(F[size - HeaderBytes(size)], size)
  <2>1. G(size)[size] = Row(G(size)[size - HeaderBytes(size)], size)
    BY <1>1 DEF Rows
  <2>2. CASE size <= MaxFileSize
    BY <1>2, <2>1, <2>2, RowLast
  <2>3. CASE size > MaxFileSize
    <3>1. PICK j \in Nat : j = size - HeaderBytes(size) /\ j <= size
      BY <2>3, HeaderSizes
    <3>2. G(size)[j] = G(j)[j]
      <4>1. PICK f, g : f = G(size) /\ g = G(j) /\ Rows(f, size) /\ Rows(g, j)
        BY <1>1
      <4> QED
        BY <3>1, <4>1, RowsAgree
    <3> QED
      BY <1>2, <2>1, <3>1, <3>2
  <2> QED
    BY <2>2, <2>3, HeaderSizes
<1>5. F = [size \in Nat |-> Row(F[size - HeaderBytes(size)], size)]
  BY <1>3, <1>4
<1>6. Allocated = [size \in Nat |-> Row(Allocated[size - HeaderBytes(size)], size)]
  BY <1>5 DEF Allocated, Row
<1> QED
  BY <1>6

\* What a successful Allocate returns: the chain of headers, and the free map
\* without the sectors of their data and of all headers but the first.
IsHeader(hdr) ==
    /\ hdr.numBytes \in 0 .. MaxFileSize
    /\ hdr.dataSectors \in Seq(Sectors)
    /\ Len(hdr.dataSectors) = divRoundUp(hdr.numBytes, SectorSize)
IsChain(chain) ==
    /\ chain \in Seq([numBytes : Nat, dataSectors : Seq(Sectors), next : Sectors \cup {NoSector}])
    /\ chain # << >>
    /\ \A i \in 1 .. Len(chain) : IsHeader(chain[i])
    /\ \A i \in 1 .. Len(chain) - 1 : chain[i].next \in Sectors
    /\ chain[Len(chain)].next = NoSector
Allocates(map, size, result) ==
    /\ result.ok \in BOOLEAN
    /\ result.ok <=> SectorsNeeded(size) <= Cardinality(Clear(map)) + 1
    /\ result.ok => /\ result.map \in SUBSET Sectors
                    /\ map \subseteq result.map
                    /\ IsChain(result.chain)

\* A header as Allocate fills it in.
LEMMA HeaderOfIs ==
    ASSUME NEW map \in SUBSET Sectors, NEW size \in Nat, NEW next \in Sectors \cup {NoSector},
           Cardinality(Clear(map)) >= HeaderSectors(size)
    PROVE  /\ HeaderOf(map, size, next)
                \in [numBytes : Nat, dataSectors : Seq(Sectors), next : Sectors \cup {NoSector}]
           /\ IsHeader(HeaderOf(map, size, next)) /\ HeaderOf(map, size, next).next = next
<1>1. HeaderBytes(size) \in 0 .. MaxFileSize /\ MaxFileSize \in Nat
  BY HeaderSizes
<1>2. HeaderData(map, size) \in Seq(Sectors) /\ Len(HeaderData(map, size)) = HeaderSectors(size)
  BY HeaderDataIs
<1>3. PICK b \in 0 .. MaxFileSize, d \in Seq(Sectors) :
          /\ b = HeaderBytes(size) /\ d = HeaderData(map, size)
          /\ Len(d) = divRoundUp(b, SectorSize)
  BY <1>1, <1>2 DEF HeaderSectors
<1>4. HeaderOf(map, size, next) = [numBytes |-> b, dataSectors |-> d, next |-> next]
  BY <1>3 DEF HeaderOf
<1>5. b \in Nat
  BY <1>1
<1> QED
  BY <1>3, <1>4, <1>5 DEF IsHeader

\* A header before a chain makes a chain.
LEMMA ChainGrows ==
    ASSUME NEW hdr \in [numBytes : Nat, dataSectors : Seq(Sectors), next : Sectors \cup {NoSector}],
           NEW chain, IsHeader(hdr), hdr.next \in Sectors, IsChain(chain)
    PROVE  IsChain(<<hdr>> \o chain)
<1> DEFINE H == [numBytes : Nat, dataSectors : Seq(Sectors), next : Sectors \cup {NoSector}]
<1>1. chain \in Seq(H) /\ chain # << >> /\ Len(chain) \in Nat /\ Len(chain) >= 1
  BY DEF IsChain
<1>2. PICK c : c = <<hdr>> \o chain
  OBVIOUS
<1> HIDE DEF H
<1>3. hdr \in H
  BY DEF H
<1>4. /\ c \in Seq(H) /\ Len(c) = Len(chain) + 1 /\ c[1] = hdr
      /\ \A i \in 2 .. Len(chain) + 1 : c[i] = chain[i - 1]
  BY <1>1, <1>2, <1>3
<1>5. \A i \in 1 .. Len(c) : i = 1 \/ i - 1 \in 1 .. Len(chain)
  BY <1>1, <1>4
<1>6. \A i \in 1 .. Len(c) : IsHeader(c[i])
  <2> SUFFICES ASSUME NEW i \in 1 .. Len(c) PROVE IsHeader(c[i])
    OBVIOUS
  <2>1. CASE i = 1
    BY <1>4, <2>1
  <2>2. CASE i # 1
    <3>1. PICK j \in 1 .. Len(chain) : c[i] = chain[j]
      BY <1>1, <1>4, <2>2
    <3>2. IsHeader(chain[j])
      BY DEF IsChain
    <3> QED
      BY <3>1, <3>2
  <2> QED
    BY <2>1, <2>2
<1>7. \A i \in 1 .. Len(c) - 1 : c[i].next \in Sectors
  <2> SUFFICES ASSUME NEW i \in 1 .. Len(c) - 1 PROVE c[i].next \in Sectors
    OBVIOUS
  <2>1. CASE i = 1
    BY <1>4, <2>1
  <2>2. CASE i # 1
    <3>1. i - 1 \in 1 .. Len(chain) - 1 /\ c[i] = chain[i - 1]
      BY <1>1, <1>4, <2>2
    <3> QED
      BY <3>1 DEF IsChain
  <2> QED
    BY <2>1, <2>2
<1>8. c[Len(c)].next = NoSector
  <2>1. c[Len(c)] = chain[Len(chain)]
    BY <1>1, <1>4
  <2> QED
    BY <2>1 DEF IsChain
<1>9. c # << >>
  BY <1>4, <1>1
<1> QED
  BY <1>2, <1>4, <1>6, <1>7, <1>8, <1>9 DEF IsChain, H

\* Allocate succeeds just when there is room, and then returns such a chain.
LEMMA AllocateIs ==
    \A size \in Nat : \A map \in SUBSET Sectors : Allocates(map, size, Allocate(map, size))
<1> DEFINE T == {size \in Nat : \A map \in SUBSET Sectors : Allocates(map, size, Allocated[size][map])}
<1>1. ASSUME NEW size \in Nat, \A j \in 0 .. size - 1 : j \in T,
             NEW map \in SUBSET Sectors
      PROVE  Allocates(map, size, Allocated[size][map])
  <2>1. PICK k \in Nat, c \in Nat, n \in Nat :
            k = HeaderSectors(size) /\ c = Cardinality(Clear(map)) /\ n = SectorsNeeded(size)
    BY HeaderSizes, ClearFinite, NeededSteps
  <2>2. PICK h, r : h = Allocated[size - HeaderBytes(size)] /\ r = Allocated[size][map]
    OBVIOUS
  <2>3. PICK after : after = AfterData(map, size)
    OBVIOUS
  <2>4. PICK next : next = NthClear(after, 1)
    OBVIOUS
  <2>5. r = IF ~ NumClearAtLeast(map, k) THEN Failed
            ELSE IF size = HeaderBytes(size)
              THEN [ok |-> TRUE, map |-> after, chain |-> <<HeaderOf(map, size, NoSector)>>]
            ELSE IF Clear(after) = {} THEN Failed
            ELSE IF h[after \cup {next}].ok
              THEN [ok |-> TRUE, map |-> h[after \cup {next}].map,
                    chain |-> <<HeaderOf(map, size, next)>> \o h[after \cup {next}].chain]
            ELSE Failed
    <3>1. r = Row(h, size)[map]
      BY <2>2, AllocatedIs
    <3> QED
      BY <2>1, <2>3, <2>4, <3>1 DEF Row
  <2>6. NumClearAtLeast(map, k) <=> c >= k
    BY <2>1 DEF NumClearAtLeast
  <2>7. c < k => n > c + 1
    <3>1. CASE size <= MaxFileSize
      <4>1. n = k + 1
        BY <2>1, <3>1, NeededSteps
      <4> QED
        BY <4>1
    <3>2. CASE size > MaxFileSize
      <4>1. PICK s \in Nat : s = size - MaxFileSize
        BY <3>2, HeaderSizes
      <4>2. PICK l \in Nat : l = SectorsNeeded(s)
        BY NeededSteps
      <4>3. n = NumDirect + 1 + l
        BY <2>1, <3>2, <4>1, <4>2, NeededSteps
      <4>4. k = NumDirect
        BY <2>1, <3>2, HeaderSizes
      <4> QED
        BY <4>3, <4>4
    <3>3. MaxFileSize \in Nat
      BY HeaderSizes
    <3> QED
      BY <3>1, <3>2, <3>3
  <2>8. CASE c < k
    BY <2>1, <2>2, <2>5, <2>6, <2>7, <2>8 DEF Allocates, Failed
  <2>9. CASE c >= k
    <3>1. after \in SUBSET Sectors /\ map \subseteq after /\ Cardinality(Clear(after)) = c - k
      BY <2>1, <2>3, <2>9, HeaderDataIs DEF AfterData
    <3>2. CASE size <= MaxFileSize
      <4>1. r = [ok |-> TRUE, map |-> after, chain |-> <<HeaderOf(map, size, NoSector)>>]
        BY <2>5, <2>6, <2>9, <3>2, HeaderSizes
      <4>2. n <= c + 1
        BY <2>1, <2>9, <3>2, NeededSteps
      <4>3. IsChain(<<HeaderOf(map, size, NoSector)>>)
        BY <2>1, <2>9, HeaderOfIs DEF IsChain
      <4> QED
        BY <2>1, <2>2, <3>1, <4>1, <4>2, <4>3 DEF Allocates
    <3>3. CASE size > MaxFileSize
      <4>1. /\ size # HeaderBytes(size) /\ k = NumDirect
            /\ size - HeaderBytes(size) = size - MaxFileSize
            /\ size - MaxFileSize \in 0 .. size - 1
        BY <2>1, <3>3, HeaderSizes
      <4>2. PICK j \in 0 .. size - 1 : j = size - HeaderBytes(size) /\ j \in Nat
        BY <4>1
      <4>3. PICK l \in Nat : l = SectorsNeeded(j) /\ n = k + 1 + l /\ l >= 1
        <5>1. SectorsNeeded(j) \in Nat /\ SectorsNeeded(j) >= 1
          BY <4>2, NeededSteps, HeaderSizes, DiskAssumption
        <5>2. SectorsNeeded(size) = NumDirect + 1 + SectorsNeeded(size - MaxFileSize)
          BY <3>3, NeededSteps
        <5> QED
          BY <2>1, <4>1, <4>2, <5>1, <5>2
      <4>4. CASE Clear(after) = {}
        <5>1. c - k = 0
          BY <3>1, <4>4, FS_EmptySet
        <5>2. r = Failed
          BY <2>5, <2>6, <2>9, <4>1, <4>4
        <5>3. ~ (n <= c + 1)
          BY <2>1, <4>3, <5>1
        <5> QED
          BY <2>1, <2>2, <5>2, <5>3 DEF Allocates, Failed
      <4>5. CASE Clear(after) # {}
        <5>1. Cardinality(Clear(after)) >= 1 /\ IsFiniteSet(Clear(after))
          BY <4>5, ClearFinite, FS_EmptySet
        <5>2. next \in Clear(after)
          <6>1. 1 \in 1 .. Cardinality(Clear(after))
            BY <5>1, ClearFinite
          <6> QED
            BY <2>4, <6>1, NthClearIs
        <5>3. PICK rest \in SUBSET Sectors : rest = after \cup {next}
          BY <3>1, <5>2 DEF Clear
        <5>4. Clear(rest) = Clear(after) \ {next}
          BY <5>3 DEF Clear
        <5>5. Cardinality(Clear(rest)) = c - k - 1
          BY <3>1, <5>1, <5>2, <5>4, FS_RemoveElement
        <5>6. PICK q : q = h[rest]
          OBVIOUS
        <5>7. Allocates(rest, j, q)
          BY <1>1, <2>2, <4>2, <5>6
        <5>8. q.ok <=> n <= c + 1
          BY <2>1, <4>3, <5>5, <5>7 DEF Allocates
        <5>9. CASE q.ok
          <6>1. r = [ok |-> TRUE, map |-> q.map, chain |-> <<HeaderOf(map, size, next)>> \o q.chain]
            BY <2>5, <2>6, <2>9, <4>1, <4>5, <5>3, <5>6, <5>9
          <6>2. q.map \in SUBSET Sectors /\ map \subseteq q.map /\ IsChain(q.chain)
            BY <3>1, <5>3, <5>7, <5>9 DEF Allocates
          <6>3. IsChain(<<HeaderOf(map, size, next)>> \o q.chain)
            <7>1. PICK hdr \in [numBytes : Nat, dataSectors : Seq(Sectors), next : Sectors \cup {NoSector}] :
                      hdr = HeaderOf(map, size, next) /\ IsHeader(hdr) /\ hdr.next \in Sectors
              BY <2>1, <2>9, <5>2, HeaderOfIs DEF Clear
            <7> QED
              BY <6>2, <7>1, ChainGrows
          <6> QED
            BY <2>1, <2>2, <5>8, <5>9, <6>1, <6>2, <6>3 DEF Allocates
        <5>10. CASE ~ q.ok
          <6>1. r = Failed
            BY <2>5, <2>6, <2>9, <4>1, <4>5, <5>3, <5>6, <5>10
          <6> QED
            BY <2>1, <2>2, <5>8, <5>10, <6>1 DEF Allocates, Failed
        <5> QED
          BY <5>9, <5>10
      <4> QED
        BY <4>4, <4>5
    <3> QED
      BY <3>2, <3>3, HeaderSizes
  <2> QED
    BY <2>1, <2>8, <2>9
<1>2. \A size \in Nat : (\A j \in 0 .. size - 1 : j \in T) => size \in T
  BY <1>1
<1>3. \A size \in Nat : size \in T
  <2> HIDE DEF T
  <2> QED
    BY <1>2, AllNumbers
<1> QED
  BY <1>3 DEF Allocate

-----------------------------------------------------------------------------
(* Directory::GetDirSector.                                                *)

\* The beginning of a path.
LEMMA Beginning ==
    ASSUME NEW path \in Seq(Names), NEW n \in 0 .. Len(path)
    PROVE  /\ SubSeq(path, 1, n) \in Seq(Names) /\ Len(SubSeq(path, 1, n)) = n
           /\ \A i \in 1 .. n : SubSeq(path, 1, n)[i] = path[i]
           /\ \A k \in 0 .. n : SubSeq(SubSeq(path, 1, n), 1, k) = SubSeq(path, 1, k)
<1>1. Len(path) \in Nat
  OBVIOUS
<1>2. ASSUME NEW s \in Seq(Names), NEW k \in 0 .. Len(s)
      PROVE  /\ SubSeq(s, 1, k) \in Seq(Names) /\ Len(SubSeq(s, 1, k)) = k
             /\ \A i \in 1 .. k : SubSeq(s, 1, k)[i] = s[i]
  <2>1. Len(s) \in Nat /\ k \in Nat
    OBVIOUS
  <2>2. SubSeq(s, 1, k) = [i \in 1 .. k |-> s[i]]
    BY <2>1
  <2>3. \A i \in 1 .. k : s[i] \in Names
    BY <2>1
  <2>4. [i \in 1 .. k |-> s[i]] \in [1 .. k -> Names]
    BY <2>3
  <2> QED
    BY <2>1, <2>2, <2>4
<1>3. PICK t \in Seq(Names) : t = SubSeq(path, 1, n) /\ Len(t) = n /\ \A i \in 1 .. n : t[i] = path[i]
  BY <1>2
<1>4. ASSUME NEW k \in 0 .. n PROVE SubSeq(t, 1, k) = SubSeq(path, 1, k)
  <2>1. k \in 0 .. Len(t) /\ k \in 0 .. Len(path)
    BY <1>1, <1>3
  <2>2. PICK u \in Seq(Names) : u = SubSeq(t, 1, k) /\ Len(u) = k /\ \A i \in 1 .. k : u[i] = t[i]
    BY <1>2, <2>1
  <2>3. PICK v \in Seq(Names) : v = SubSeq(path, 1, k) /\ Len(v) = k /\ \A i \in 1 .. k : v[i] = path[i]
    BY <1>2, <2>1
  <2>4. \A i \in 1 .. k : u[i] = v[i]
    BY <1>3, <2>2, <2>3
  <2>5. u = v
    BY <2>2, <2>3, <2>4, SeqEqual
  <2> QED
    BY <2>2, <2>3, <2>5
<1> QED
  BY <1>3, <1>4

\* The sectors of the directories along a path, as GetDirSector follows them.
Follow(s, name) == (CHOOSE e \in Find(s, name) : TRUE).sector
At(f, path, m) ==
    f = [i \in 0 .. m |-> IF i = 0 THEN DirectorySector ELSE Follow(f[i - 1], path[i])]

\* They start at the root, and each is the sector of an entry of the one before.
LEMMA AtSteps ==
    ASSUME NEW f, NEW path, NEW m \in Nat
    PROVE  At(f, path, m) =>
               /\ f[0] = DirectorySector
               /\ \A i \in 1 .. m : f[i] = Follow(f[i - 1], path[i])
<1> SUFFICES ASSUME At(f, path, m)
             PROVE  f[0] = DirectorySector /\ \A i \in 1 .. m : f[i] = Follow(f[i - 1], path[i])
  OBVIOUS
<1> DEFINE step(i) == IF i = 0 THEN DirectorySector ELSE Follow(f[i - 1], path[i])
<1>1. f = [i \in 0 .. m |-> step(i)]
  BY DEF At
<1>2. \A i \in 0 .. m : f[i] = step(i)
  <2> HIDE DEF step
  <2> QED
    BY <1>1
<1> QED
  BY <1>2

\* They depend on the names up to there only.
Agree(f, g, first, last) == \A i \in first .. last : f[i] = g[i]
\* Two ways agree as far as the names on them do.
LEMMA AtAgrees ==
    ASSUME NEW p, NEW q, NEW f, NEW g, NEW m \in Nat, NEW n \in Nat, NEW k \in Nat,
           k <= m, k <= n, At(f, p, m), At(g, q, n), Agree(p, q, 1, k)
    PROVE  Agree(f, g, 0, k)
<1> DEFINE T == {i \in Nat : i <= k => f[i] = g[i]}
<1>1. ASSUME NEW i \in Nat, \A j \in 0 .. i - 1 : j \in T PROVE i \in T
  <2> SUFFICES ASSUME i <= k PROVE f[i] = g[i]
    OBVIOUS
  <2>1. CASE i = 0
    BY <2>1, AtSteps
  <2>2. CASE i > 0
    <3>1. i - 1 \in 0 .. i - 1 /\ i - 1 <= k /\ i \in 1 .. k /\ i \in 0 .. m /\ i \in 0 .. n
      BY <2>2
    <3>2. f[i - 1] = g[i - 1] /\ p[i] = q[i]
      BY <1>1, <3>1 DEF Agree
    <3>3. f[i] = Follow(f[i - 1], p[i]) /\ g[i] = Follow(g[i - 1], q[i])
      BY <2>2, <3>1, AtSteps
    <3> QED
      BY <3>2, <3>3
  <2> QED
    BY <2>1, <2>2
<1>2. \A i \in Nat : i \in T
  <2> HIDE DEF T
  <2> QED
    BY <1>1, AllNumbers
<1> QED
  BY <1>2 DEF Agree

\* GetDirSector follows a path to its end.
LEMMA AtExists == \A path, m : m \in Nat => \E f : At(f, path, m)
<1> SUFFICES ASSUME NEW path PROVE \A m \in Nat : \E f : At(f, path, m)
  OBVIOUS
<1> DEFINE T == {m \in Nat : \E f : At(f, path, m)}
<1>1. ASSUME NEW m \in Nat, \A j \in 0 .. m - 1 : j \in T PROVE \E f : At(f, path, m)
  <2>1. CASE m = 0
    <3> DEFINE f == [i \in 0 .. 0 |-> DirectorySector]
    <3>1. At(f, path, 0)
      BY DEF At
    <3> QED
      BY <2>1, <3>1
  <2>2. CASE m > 0
    <3>1. PICK f : At(f, path, m - 1)
      BY <1>1, <2>2
    <3> DEFINE g == [i \in 0 .. m |->
                        IF i = m THEN Follow(f[m - 1], path[m]) ELSE f[i]]
    <3>2. g = [i \in 0 .. m |-> g[i]]
      OBVIOUS
    <3>3. /\ g[m] = Follow(f[m - 1], path[m])
          /\ \A i \in 0 .. m - 1 : g[i] = f[i]
      BY <2>2
    <3> HIDE DEF g
    <3>4. ASSUME NEW i \in 0 .. m
          PROVE  g[i] = IF i = 0 THEN DirectorySector ELSE Follow(g[i - 1], path[i])
      <4>1. CASE i = m
        <5>1. m - 1 \in 0 .. m - 1 /\ i # 0
          BY <2>2, <4>1
        <5>2. g[i - 1] = f[m - 1]
          BY <3>3, <4>1, <5>1
        <5> QED
          BY <3>3, <4>1, <5>1, <5>2
      <4>2. CASE i # m /\ i = 0
        <5>1. f[0] = DirectorySector /\ m - 1 \in Nat
          BY <2>2, <3>1, AtSteps
        <5> QED
          BY <2>2, <3>3, <4>2, <5>1
      <4>3. CASE i # m /\ i # 0
        <5>1. i \in 0 .. m - 1 /\ i - 1 \in 0 .. m - 1
          BY <4>3
        <5>2. f[i] = Follow(f[i - 1], path[i])
          <6>1. m - 1 \in Nat /\ i \in 1 .. m - 1
            BY <2>2, <4>3
          <6> QED
            BY <3>1, <6>1, AtSteps
        <5> QED
          BY <3>3, <4>3, <5>1, <5>2
      <4> QED
        BY <4>1, <4>2, <4>3
    <3>5. At(g, path, m)
      BY <3>2, <3>4 DEF At
    <3> QED
      BY <3>5
  <2> QED
    BY <2>1, <2>2
<1>2. \A m \in Nat : (\A j \in 0 .. m - 1 : j \in T) => m \in T
  BY <1>1
<1>3. \A m \in Nat : m \in T
  <2> HIDE DEF T
  <2> QED
    BY <1>2, AllNumbers
<1> QED
  BY <1>3

\* The sector of a path is that of its entry in the directory before.
LEMMA GetDirSectorIs ==
    /\ GetDirSector(<< >>) = DirectorySector
    /\ \A path \in Seq(Names) : path # << >> => GetDirSector(path) = Entry(path).sector
<1>1. ASSUME NEW path, Len(path) \in Nat
      PROVE  \E f : At(f, path, Len(path)) /\ GetDirSector(path) = f[Len(path)]
  <2>1. PICK f : At(f, path, Len(path))
    BY <1>1, AtExists
  <2> DEFINE c == CHOOSE g : At(g, path, Len(path))
  <2>2. At(c, path, Len(path))
    BY <2>1
  <2>3. GetDirSector(path) = c[Len(path)]
    BY DEF GetDirSector, At, Follow
  <2> QED
    BY <2>2, <2>3
<1>2. GetDirSector(<< >>) = DirectorySector
  <2>1. Len(<< >>) = 0
    OBVIOUS
  <2>2. PICK f : At(f, << >>, 0) /\ GetDirSector(<< >>) = f[0]
    BY <1>1, <2>1
  <2> QED
    BY <2>2, AtSteps
<1>3. ASSUME NEW path \in Seq(Names), path # << >> PROVE GetDirSector(path) = Entry(path).sector
  <2>1. PICK n \in Nat : n = Len(path) /\ n >= 1
    BY <1>3
  <2>2. PICK f : At(f, path, n) /\ GetDirSector(path) = f[n]
    BY <1>1, <2>1
  <2>3. PICK p \in Seq(Names) : p = Parent(path) /\ Len(p) = n - 1 /\ \A i \in 1 .. n - 1 : p[i] = path[i]
    <3>1. n - 1 \in 0 .. Len(path)
      BY <2>1
    <3> QED
      BY <2>1, <3>1, Beginning DEF Parent
  <2>4. n - 1 \in Nat
    BY <2>1
  <2>5. PICK g : At(g, p, n - 1) /\ GetDirSector(p) = g[n - 1]
    BY <1>1, <2>3, <2>4
  <2>6. f[n - 1] = g[n - 1]
    <3>1. PICK k \in Nat : k = n - 1
      BY <2>4
    <3>2. Agree(path, p, 1, k)
      BY <2>3, <3>1 DEF Agree
    <3>3. k <= n /\ k <= k /\ At(f, path, n) /\ At(g, p, k)
      BY <2>1, <2>2, <2>5, <3>1
    <3>4. Agree(f, g, 0, k)
      BY <3>2, <3>3, AtAgrees
    <3> QED
      BY <2>4, <3>1, <3>4 DEF Agree
  <2>7. f[n] = Follow(f[n - 1], path[n])
    BY <2>1, <2>2, AtSteps
  <2>8. GetDirSector(path) = Follow(GetDirSector(p), Last(path))
    BY <2>1, <2>2, <2>5, <2>6, <2>7 DEF Last
  <2> QED
    BY <2>3, <2>8 DEF Entry, Follow
<1> QED
  BY <1>2, <1>3

-----------------------------------------------------------------------------
(* Types: those of the disk, and of the writes that will replace it.       *)

FileHeaders == {h \in Header : IsHeader(h)}
DirEntries == [name : Names, sector : Sectors, isDir : BOOLEAN]
Tables == {t \in SUBSET DirEntries : /\ IsFiniteSet(t) /\ Cardinality(t) <= NumDirEntries
                                     /\ \A e, f \in t : e.name = f.name => e = f}
Writes == [to : {"header"}, sector : Sectors, value : FileHeaders]
          \cup [to : {"table"}, sector : Sectors, value : Tables]
          \cup [to : {"map"}, value : SUBSET Sectors]
Calls == [on : SUBSET (Sectors \X Names), makes : SUBSET (Paths \X Nodes)]

DiskTypes ==
    /\ marked \in SUBSET Sectors
    /\ header \in [Sectors -> FileHeaders]
    /\ table \in [Sectors -> Tables]
CallTypes ==
    /\ writes \in Seq(Writes)
    /\ crashes \in 0 .. MaxCrashes
    /\ call \in Calls
    /\ completed \in SUBSET (Paths \X Nodes)
    /\ stopped \in SUBSET (Sectors \X Names)
\* The inductive invariant: TypeOK, and what a call has yet to write has the types
\* of what it will replace.
Types == DiskTypes /\ CallTypes

\* Each write is of one of the three kinds.
LEMMA WriteKinds ==
    ASSUME NEW w \in Writes
    PROVE  \/ w.to = "header" /\ w.sector \in Sectors /\ w.value \in FileHeaders
           \/ w.to = "table" /\ w.sector \in Sectors /\ w.value \in Tables
           \/ w.to = "map" /\ w.value \in SUBSET Sectors
BY DEF Writes

\* A header, a directory's table and a free map to be written.
LEMMA MakesWrites ==
    /\ \A s \in Sectors : \A h \in FileHeaders : HeaderWrite(s, h) \in Writes
    /\ \A s \in Sectors : \A t \in Tables : TableWrite(s, t) \in Writes
    /\ \A map \in SUBSET Sectors : MapWrite(map) \in Writes
BY DEF HeaderWrite, TableWrite, MapWrite, Writes

\* A path is a sequence of names, and so is its parent.
LEMMA PathIs ==
    ASSUME NEW path \in Paths
    PROVE  /\ path \in Seq(Names) /\ path # << >> /\ Len(path) \in Nat /\ Len(path) >= 1
           /\ Parent(path) \in Seq(Names) /\ Last(path) \in Names
<1>1. PICK n \in 1 .. MaxDepth : path \in [1 .. n -> Names]
  BY DEF Paths
<1>2. n \in Nat /\ n >= 1
  BY FileSystemAssumption, <1>1
<1>3. path \in Seq(Names) /\ Len(path) = n
  BY <1>1, <1>2
<1>4. n - 1 \in 0 .. Len(path) /\ n \in 1 .. n /\ path # << >>
  BY <1>2, <1>3
<1>5. Parent(path) \in Seq(Names)
  BY <1>3, <1>4, Beginning DEF Parent
<1>6. Last(path) \in Names
  BY <1>1, <1>3, <1>4 DEF Last
<1> QED
  BY <1>2, <1>3, <1>4, <1>5, <1>6

\* The sector of a directory that exists is a sector: each entry on the way to it
\* is found in the one before.
LEMMA DirectoryHasSector ==
    ASSUME DiskTypes, NEW path \in Seq(Names), IsDirectory(path)
    PROVE  GetDirSector(path) \in Sectors
<1>1. Len(path) \in Nat
  OBVIOUS
<1>2. DirectorySector \in Sectors
  BY FileSystemAssumption, DiskAssumption DEF DirectorySector, Sectors
<1> DEFINE T == {k \in Nat : k <= Len(path) => GetDirSector(SubSeq(path, 1, k)) \in Sectors}
<1>3. ASSUME NEW k \in Nat, \A j \in 0 .. k - 1 : j \in T PROVE k \in T
  <2> SUFFICES ASSUME k <= Len(path) PROVE GetDirSector(SubSeq(path, 1, k)) \in Sectors
    OBVIOUS
  <2>1. k \in 0 .. Len(path)
    BY <1>1
  <2>2. PICK q \in Seq(Names) : /\ q = SubSeq(path, 1, k) /\ Len(q) = k
                                /\ \A i \in 1 .. k : q[i] = path[i]
                                /\ \A i \in 0 .. k : SubSeq(q, 1, i) = SubSeq(path, 1, i)
    BY <2>1, Beginning
  <2>3. CASE k = 0
    <3>1. q = << >>
      BY <2>2, <2>3
    <3> QED
      BY <1>2, <2>2, <3>1, GetDirSectorIs
  <2>4. CASE k > 0
    <3>1. k - 1 \in 0 .. k /\ k - 1 \in 0 .. k - 1 /\ k \in 1 .. k /\ k \in 1 .. Len(path) /\ k - 1 <= Len(path)
      BY <1>1, <2>4
    <3>2. PICK s \in Sectors : s = GetDirSector(SubSeq(path, 1, k - 1))
      BY <1>3, <3>1
    <3>3. Parent(q) = SubSeq(path, 1, k - 1) /\ Last(q) = path[k]
      BY <2>2, <3>1 DEF Parent, Last
    <3>4. q # << >> /\ path # << >>
      BY <1>1, <2>2, <2>4
    <3>5. Find(s, path[k]) # {}
      BY <3>1, <3>2, <3>4 DEF IsDirectory, Exists
    <3>6. Entry(q) \in Find(s, path[k])
      BY <3>2, <3>3, <3>5 DEF Entry
    <3>7. Entry(q) \in DirEntries
      BY <3>6 DEF Find, DiskTypes, Tables
    <3>8. GetDirSector(q) = Entry(q).sector
      BY <3>4, GetDirSectorIs
    <3> QED
      BY <2>2, <3>7, <3>8 DEF DirEntries
  <2> QED
    BY <2>3, <2>4
<1>4. \A k \in Nat : k \in T
  <2> HIDE DEF T
  <2> QED
    BY <1>3, AllNumbers
<1>5. GetDirSector(SubSeq(path, 1, Len(path))) \in Sectors
  BY <1>1, <1>4
<1>6. SubSeq(path, 1, Len(path)) = path
  BY <1>1
<1> QED
  BY <1>5, <1>6

\* A sector is found for a header when there is one, and the free map after it.
LEMMA HeaderSector ==
    ASSUME NEW map \in SUBSET Sectors, Clear(map) # {}
    PROVE  /\ NthClear(map, 1) \in Sectors /\ FindAndSet(map) \in SUBSET Sectors
           /\ Cardinality(Clear(FindAndSet(map))) = Cardinality(Clear(map)) - 1
           /\ Cardinality(Clear(map)) \in Nat \ {0}
<1>1. IsFiniteSet(Clear(map)) /\ Cardinality(Clear(map)) \in Nat
  BY ClearFinite
<1>2. Cardinality(Clear(map)) # 0
  BY <1>1, FS_EmptySet
<1>3. NthClear(map, 1) \in Clear(map)
  BY <1>1, <1>2, NthClearIs
<1>4. Clear(FindAndSet(map)) = Clear(map) \ {NthClear(map, 1)}
  BY DEF Clear, FindAndSet
<1>5. NthClear(map, 1) \in Sectors
  BY <1>3 DEF Clear
<1>6. FindAndSet(map) \in SUBSET Sectors
  BY <1>5 DEF FindAndSet
<1>7. Cardinality(Clear(map) \ {NthClear(map, 1)}) = Cardinality(Clear(map)) - 1
  BY <1>1, <1>3, FS_RemoveElement
<1>8. Cardinality(Clear(FindAndSet(map))) = Cardinality(Clear(map)) - 1
  BY <1>4, <1>7
<1> QED
  BY <1>1, <1>2, <1>5, <1>6, <1>8

\* What Create and CreateDirectory compute: when they succeed, and the types of
\* what they then write.
RoomFor(path, size) ==
    /\ Clear(marked) # {}
    /\ Find(GetDirSector(Parent(path)), Last(path)) = {}
    /\ Cardinality(table[GetDirSector(Parent(path))]) < NumDirEntries
    /\ SectorsNeeded(size) <= Cardinality(Clear(FindAndSet(marked))) + 1
IsNewFile(new) ==
    /\ new.dir \in Sectors /\ new.sector \in Sectors /\ new.entries \in Tables
    /\ new.map \in SUBSET Sectors /\ IsChain(new.chain)
\* NewFile succeeds when there is room, and what it returns has its types.
LEMMA NewFileIs ==
    ASSUME DiskTypes, NEW path \in Paths, NEW size \in Nat, NEW isDir \in BOOLEAN,
           IsDirectory(Parent(path))
    PROVE  /\ NewFile(path, size, isDir).ok <=> RoomFor(path, size)
           /\ NewFile(path, size, isDir).ok => IsNewFile(NewFile(path, size, isDir))
<1>1. PICK dir \in Sectors : dir = GetDirSector(Parent(path))
  BY PathIs, DirectoryHasSector
<1>2. PICK sector, added, file :
          /\ sector = NthClear(marked, 1)
          /\ added = Add(dir, Last(path), sector, isDir)
          /\ file = Allocate(FindAndSet(marked), size)
  OBVIOUS
<1>3. PICK new : new = NewFile(path, size, isDir)
  OBVIOUS
<1>4. new = IF Clear(marked) = {} THEN Failed
            ELSE IF ~ added.ok THEN Failed
            ELSE IF ~ file.ok THEN Failed
            ELSE [ok |-> TRUE, dir |-> dir, sector |-> sector, entries |-> added.entries,
                  map |-> file.map, chain |-> file.chain]
  BY <1>1, <1>2, <1>3 DEF NewFile
<1>5. added.ok <=> Find(dir, Last(path)) = {} /\ Cardinality(table[dir]) < NumDirEntries
  BY <1>2 DEF Add
<1>6. Failed.ok = FALSE
  BY DEF Failed
<1>7. CASE Clear(marked) = {}
  <2>1. ~ new.ok
    BY <1>4, <1>6, <1>7
  <2> QED
    BY <1>3, <1>7, <2>1 DEF RoomFor
<1>8. CASE Clear(marked) # {}
  <2>1. marked \in SUBSET Sectors
    BY DEF DiskTypes
  <2>2. sector \in Sectors /\ FindAndSet(marked) \in SUBSET Sectors
    BY <1>2, <1>8, <2>1, HeaderSector
  <2>3. Allocates(FindAndSet(marked), size, file)
    BY <1>2, <2>2, AllocateIs
  <2>4. CASE ~ added.ok
    <3>1. ~ new.ok
      BY <1>4, <1>6, <1>8, <2>4
    <3> QED
      BY <1>1, <1>3, <1>5, <2>4, <3>1 DEF RoomFor
  <2>5. CASE added.ok /\ ~ file.ok
    <3>1. ~ new.ok
      BY <1>4, <1>6, <1>8, <2>5
    <3> QED
      BY <1>1, <1>3, <1>5, <2>3, <2>5, <3>1 DEF RoomFor, Allocates
  <2>6. CASE added.ok /\ file.ok
    <3>1. new = [ok |-> TRUE, dir |-> dir, sector |-> sector, entries |-> added.entries,
                 map |-> file.map, chain |-> file.chain]
      BY <1>4, <1>8, <2>6
    <3>2. new.ok /\ RoomFor(path, size)
      BY <1>1, <1>5, <1>8, <2>3, <2>6, <3>1 DEF RoomFor, Allocates
    <3>3. file.map \in SUBSET Sectors /\ IsChain(file.chain)
      BY <2>3, <2>6 DEF Allocates
    <3>4. added.entries \in Tables
      <4>1. PICK e \in DirEntries : e = [name |-> Last(path), sector |-> sector, isDir |-> isDir]
        BY <2>2, PathIs DEF DirEntries
      <4>2. table[dir] \in Tables
        BY <1>1 DEF DiskTypes
      <4>3. table[dir] \in SUBSET DirEntries /\ IsFiniteSet(table[dir])
        BY <4>2 DEF Tables
      <4>4. added.entries = table[dir] \cup {e}
        BY <1>2, <4>1 DEF Add
      <4>5. /\ IsFiniteSet(table[dir] \cup {e})
            /\ \/ Cardinality(table[dir] \cup {e}) = Cardinality(table[dir])
               \/ Cardinality(table[dir] \cup {e}) = Cardinality(table[dir]) + 1
        BY <4>3, FS_AddElement
      <4>6. Cardinality(table[dir]) \in Nat /\ Cardinality(table[dir]) < NumDirEntries
        BY <1>5, <2>6, <4>3, FS_CardinalityType
      <4>7. NumDirEntries \in Nat
        BY FileSystemAssumption
      <4>8. Cardinality(table[dir] \cup {e}) <= NumDirEntries
        BY <4>5, <4>6, <4>7
      <4>9. \A x, y \in table[dir] \cup {e} : x.name = y.name => x = y
        <5>1. \A x \in table[dir] : x.name # e.name
          BY <1>5, <2>6, <4>1 DEF Find
        <5>2. \A x, y \in table[dir] : x.name = y.name => x = y
          BY <4>2 DEF Tables
        <5> QED
          BY <5>1, <5>2
      <4> QED
        BY <4>3, <4>4, <4>5, <4>8, <4>9 DEF Tables
    <3>5. IsNewFile(new)
      BY <2>2, <3>1, <3>3, <3>4 DEF IsNewFile
    <3> QED
      BY <1>3, <3>2, <3>5
  <2> QED
    BY <2>4, <2>5, <2>6
<1> QED
  BY <1>7, <1>8

\* WriteBack writes headers of a chain to sectors.
LEMMA WriteBackIs ==
    ASSUME NEW chain, IsChain(chain), NEW s \in Sectors
    PROVE  WriteBack(chain, s) \in Seq(Writes)
<1>1. Len(chain) \in Nat /\ DOMAIN chain = 1 .. Len(chain)
  BY DEF IsChain
<1>2. ASSUME NEW i \in 1 .. Len(chain)
      PROVE  HeaderWrite(IF i = 1 THEN s ELSE chain[i - 1].next, chain[i]) \in Writes
  <2>1. chain[i] \in FileHeaders
    <3> DEFINE H == [numBytes : Nat, dataSectors : Seq(Sectors), next : Sectors \cup {NoSector}]
    <3>1. chain[i] \in H
      <4>1. chain \in Seq(H)
        BY DEF IsChain
      <4> HIDE DEF H
      <4> QED
        BY <4>1
    <3>2. IsHeader(chain[i])
      BY DEF IsChain
    <3>3. chain[i] \in Header
      BY <3>1, <3>2 DEF Header, IsHeader
    <3> QED
      BY <3>2, <3>3 DEF FileHeaders
  <2>2. CASE i = 1
    BY <2>1, <2>2, MakesWrites
  <2>3. CASE i # 1
    <3>1. i - 1 \in 1 .. Len(chain) - 1
      BY <1>1, <2>3
    <3>2. chain[i - 1].next \in Sectors
      BY <3>1 DEF IsChain
    <3> QED
      BY <2>1, <2>3, <3>2, MakesWrites
  <2> QED
    BY <2>2, <2>3
<1>3. WriteBack(chain, s) \in [1 .. Len(chain) -> Writes]
  BY <1>2 DEF WriteBack
<1> QED
  BY <1>1, <1>3

\* A created file's writes.
LEMMA CreateWritesIs ==
    ASSUME NEW new, IsNewFile(new)
    PROVE  CreateWrites(new) \in Seq(Writes) /\ CreateWrites(new) # << >>
<1>1. PICK a \in Seq(Writes) : a = WriteBack(new.chain, new.sector)
  BY WriteBackIs DEF IsNewFile
<1>2. PICK t \in Writes, m \in Writes : t = TableWrite(new.dir, new.entries) /\ m = MapWrite(new.map)
  BY MakesWrites DEF IsNewFile
<1>3. CreateWrites(new) = a \o <<t, m>>
  BY <1>1, <1>2 DEF CreateWrites
<1>4. <<t, m>> \in Seq(Writes) /\ Len(<<t, m>>) = 2
  OBVIOUS
<1>5. a \o <<t, m>> \in Seq(Writes) /\ Len(a \o <<t, m>>) = Len(a) + 2
  BY <1>4, ConcatProperties
<1>6. Len(a) \in Nat
  OBVIOUS
<1>7. a \o <<t, m>> # << >>
  BY <1>5, <1>6
<1> QED
  BY <1>3, <1>5, <1>7

\* A formatted disk has the types.
LEMMA InitTypes == Init => Types
<1> SUFFICES ASSUME Init PROVE Types
  OBVIOUS
<1>1. /\ {FreeMapSector, DirectorySector} \in SUBSET Sectors
      /\ FreeMapSector \in Sectors /\ DirectorySector \in Sectors
  BY FileSystemAssumption, DiskAssumption DEF FreeMapSector, DirectorySector, Sectors
<1>2. PICK mapFile, dirFile :
          /\ mapFile = Allocate({FreeMapSector, DirectorySector}, FreeMapFileSize)
          /\ dirFile = Allocate(mapFile.map, DirectoryFileSize)
  OBVIOUS
<1>3. /\ mapFile.ok /\ dirFile.ok /\ marked = dirFile.map
      /\ header = [s \in Sectors |->
                      HeaderAfter(WriteBack(mapFile.chain, FreeMapSector)
                                  \o WriteBack(dirFile.chain, DirectorySector), s)]
      /\ table = [s \in Sectors |-> {}]
      /\ writes = << >> /\ crashes = 0 /\ call = NoCall /\ completed = {} /\ stopped = {}
  BY <1>2 DEF Init
<1>4. FreeMapFileSize \in Nat /\ DirectoryFileSize \in Nat /\ NumDirEntries \in Nat /\ MaxCrashes \in Nat
  BY FileSystemAssumption
<1>5. mapFile.map \in SUBSET Sectors /\ IsChain(mapFile.chain)
  <2>1. Allocates({FreeMapSector, DirectorySector}, FreeMapFileSize, mapFile)
    BY <1>1, <1>2, <1>4, AllocateIs
  <2> QED
    BY <1>3, <2>1 DEF Allocates
<1>6. dirFile.map \in SUBSET Sectors /\ IsChain(dirFile.chain)
  <2>1. Allocates(mapFile.map, DirectoryFileSize, dirFile)
    BY <1>2, <1>4, <1>5, AllocateIs
  <2> QED
    BY <1>3, <2>1 DEF Allocates
<1>7. PICK ws \in Seq(Writes) :
          ws = WriteBack(mapFile.chain, FreeMapSector) \o WriteBack(dirFile.chain, DirectorySector)
  <2>1. WriteBack(mapFile.chain, FreeMapSector) \in Seq(Writes)
    BY <1>1, <1>5, WriteBackIs
  <2>2. WriteBack(dirFile.chain, DirectorySector) \in Seq(Writes)
    BY <1>1, <1>6, WriteBackIs
  <2> QED
    BY <2>1, <2>2, ConcatProperties
<1>8. ASSUME NEW s \in Sectors PROVE HeaderAfter(ws, s) \in FileHeaders
  <2> DEFINE mine == {i \in 1 .. Len(ws) : ws[i].to = "header" /\ ws[i].sector = s}
  <2>1. CASE mine = {}
    <3>1. HeaderAfter(ws, s) = [numBytes |-> 0, dataSectors |-> << >>, next |-> NoSector]
      BY <2>1 DEF HeaderAfter
    <3>2. PICK b, d, n : b = 0 /\ d = << >> /\ n = NoSector
      OBVIOUS
    <3>3. PICK h : h = [numBytes |-> b, dataSectors |-> d, next |-> n]
      OBVIOUS
    <3>4. /\ b \in 0 .. MaxFileSize /\ d \in Seq(Sectors) /\ n \in Sectors \cup {NoSector}
          /\ Len(d) = 0
      <4>1. MaxFileSize \in Nat \ {0}
        BY <1>4, HeaderSizes
      <4> QED
        BY <3>2, <4>1
    <3>5. divRoundUp(b, SectorSize) = 0
      <4>1. SectorSize \in Nat \ {0}
        BY DiskAssumption
      <4>2. b + SectorSize - 1 \in 0 .. SectorSize - 1
        BY <3>2, <4>1
      <4> QED
        BY <4>1, <4>2, DivideSmall DEF divRoundUp
    <3>6. h \in Header /\ IsHeader(h)
      BY <3>3, <3>4, <3>5 DEF Header, IsHeader
    <3> QED
      BY <3>1, <3>2, <3>3, <3>6 DEF FileHeaders
  <2>2. CASE mine # {}
    <3>1. PICK i \in mine : HeaderAfter(ws, s) = ws[i].value
      BY <2>2 DEF HeaderAfter
    <3>2. i \in 1 .. Len(ws) /\ ws[i].to = "header"
      OBVIOUS
    <3>3. PICK w \in Writes : w = ws[i]
      BY <3>2
    <3> QED
      BY <3>1, <3>2, <3>3, WriteKinds
  <2> QED
    BY <2>1, <2>2
<1>9. {} \in Tables
  BY <1>4, FS_EmptySet DEF Tables
<1>10. header \in [Sectors -> FileHeaders]
  BY <1>3, <1>7, <1>8
<1>11. DiskTypes
  BY <1>3, <1>6, <1>9, <1>10 DEF DiskTypes
<1>12. CallTypes
  BY <1>3, <1>4 DEF CallTypes, Calls, NoCall
<1> QED
  BY <1>11, <1>12 DEF Types

\* A call that makes a file or a directory is on an entry of a directory, and makes
\* one node.
LEMMA CreatingIs ==
    ASSUME NEW path \in Paths, NEW dir \in Sectors, NEW isDir, NEW size,
           (isDir = FALSE /\ size \in Sizes) \/ (isDir = TRUE /\ size = DirectoryFileSize)
    PROVE  Creating(dir, path, isDir, size) \in Calls
<1>1. PICK name, node : name = Last(path) /\ node = [isDir |-> isDir, size |-> size]
  OBVIOUS
<1>2. name \in Names
  BY <1>1, PathIs
<1>3. node \in Nodes
  BY <1>1 DEF Nodes
<1>4. Creating(dir, path, isDir, size) = [on |-> {<<dir, name>>}, makes |-> {<<path, node>>}]
  BY <1>1 DEF Creating
<1> QED
  BY <1>2, <1>3, <1>4 DEF Calls

\* Create leaves the disk, and has typed writes left.
LEMMA CreateTypes ==
    ASSUME Types, NEW path \in Paths, NEW size \in Sizes, Create(path, size) PROVE Types'
<1>1. PICK new : new = NewFile(path, size, FALSE)
  OBVIOUS
<1>2. /\ IsDirectory(Parent(path)) /\ new.ok
      /\ writes' = CreateWrites(new) /\ call' = Creating(new.dir, path, FALSE, size)
      /\ UNCHANGED <<disk, crashes, completed, stopped>>
  BY <1>1 DEF Create
<1>3. size \in Nat
  BY FileSystemAssumption
<1>4. IsNewFile(new)
  BY <1>1, <1>2, <1>3, NewFileIs DEF Types
<1>5. writes' \in Seq(Writes)
  BY <1>2, <1>4, CreateWritesIs
<1>6. call' \in Calls
  <2>1. PICK dir \in Sectors : dir = new.dir
    BY <1>4 DEF IsNewFile
  <2>2. Creating(dir, path, FALSE, size) \in Calls
    BY CreatingIs
  <2> QED
    BY <1>2, <2>1, <2>2
<1>7. DiskTypes'
  BY <1>2 DEF Types, DiskTypes, disk
<1>8. CallTypes'
  BY <1>2, <1>5, <1>6 DEF Types, CallTypes
<1> QED
  BY <1>7, <1>8 DEF Types

\* CreateDirectory too; the table it ends with is empty.
LEMMA CreateDirectoryTypes ==
    ASSUME Types, NEW path \in Paths, CreateDirectory(path) PROVE Types'
<1>1. PICK new : new = NewFile(path, DirectoryFileSize, TRUE)
  OBVIOUS
<1>2. /\ IsDirectory(Parent(path)) /\ new.ok
      /\ writes' = CreateWrites(new) \o <<TableWrite(new.sector, {})>>
      /\ call' = Creating(new.dir, path, TRUE, DirectoryFileSize)
      /\ UNCHANGED <<disk, crashes, completed, stopped>>
  BY <1>1 DEF CreateDirectory
<1>3. DirectoryFileSize \in Nat /\ NumDirEntries \in Nat
  BY FileSystemAssumption
<1>4. IsNewFile(new)
  BY <1>1, <1>2, <1>3, NewFileIs DEF Types
<1>5. PICK ws \in Seq(Writes), w \in Writes : ws = CreateWrites(new) /\ w = TableWrite(new.sector, {})
  <2>1. {} \in Tables
    BY <1>3, FS_EmptySet DEF Tables
  <2>2. TableWrite(new.sector, {}) \in Writes
    BY <1>4, <2>1, MakesWrites DEF IsNewFile
  <2> QED
    BY <1>4, <2>2, CreateWritesIs
<1>6. ws \o <<w>> \in Seq(Writes)
  BY <1>5
<1>7. writes' \in Seq(Writes)
  BY <1>2, <1>5, <1>6
<1>8. DiskTypes'
  BY <1>2 DEF Types, DiskTypes, disk
<1>9. call' \in Calls
  <2>1. PICK dir \in Sectors : dir = new.dir
    BY <1>4 DEF IsNewFile
  <2>2. Creating(dir, path, TRUE, DirectoryFileSize) \in Calls
    BY CreatingIs
  <2> QED
    BY <1>2, <2>1, <2>2
<1>10. CallTypes'
  BY <1>2, <1>7, <1>9 DEF Types, CallTypes
<1> QED
  BY <1>8, <1>10 DEF Types

\* Remove leaves entries and marks out.
LEMMA RemoveTypes ==
    ASSUME Types, NEW name \in Names, Remove(name) PROVE Types'
<1>1. PICK freed, left :
          /\ left = table[DirectorySector] \ Find(DirectorySector, name)
          /\ writes' = <<MapWrite(marked \ freed), TableWrite(DirectorySector, left)>>
  BY DEF Remove
<1>2. /\ call' = [on |-> {<<DirectorySector, name>>}, makes |-> {}]
      /\ completed' \in SUBSET completed /\ stopped' \in SUBSET stopped
      /\ UNCHANGED <<disk, crashes>>
  BY DEF Remove
<1>3. DirectorySector \in Sectors
  BY FileSystemAssumption, DiskAssumption DEF DirectorySector, Sectors
<1>4. left \in Tables
  <2>1. PICK old \in Tables : old = table[DirectorySector]
    BY <1>3 DEF Types, DiskTypes
  <2>2. old \in SUBSET DirEntries /\ IsFiniteSet(old) /\ Cardinality(old) <= NumDirEntries
    BY DEF Tables
  <2>3. left \in SUBSET old
    BY <1>1, <2>1
  <2>4. /\ IsFiniteSet(left) /\ Cardinality(left) <= Cardinality(old)
        /\ Cardinality(left) \in Nat /\ Cardinality(old) \in Nat
    BY <2>2, <2>3, FS_Subset, FS_CardinalityType
  <2>5. NumDirEntries \in Nat
    BY FileSystemAssumption
  <2>6. Cardinality(left) <= NumDirEntries
    BY <2>2, <2>4, <2>5
  <2> QED
    BY <2>2, <2>3, <2>4, <2>6 DEF Tables
<1>5. PICK m \in Writes, t \in Writes : m = MapWrite(marked \ freed) /\ t = TableWrite(DirectorySector, left)
  <2>1. marked \ freed \in SUBSET Sectors
    BY DEF Types, DiskTypes
  <2> QED
    BY <1>3, <1>4, <2>1, MakesWrites
<1>6. writes' \in Seq(Writes)
  BY <1>1, <1>5
<1>7. DiskTypes'
  BY <1>2 DEF Types, DiskTypes, disk
<1>8. call' \in Calls
  BY <1>2, <1>3 DEF Calls
<1>9. CallTypes'
  BY <1>2, <1>6, <1>8 DEF Types, CallTypes
<1> QED
  BY <1>7, <1>9 DEF Types

\* A write puts a value of its kind in place.
LEMMA WriteNextTypes == ASSUME Types, WriteNext PROVE Types'
<1>1. PICK w \in Writes : w = Head(writes) /\ Tail(writes) \in Seq(Writes)
  BY HeadTailProperties DEF WriteNext, Types, CallTypes
<1>2. /\ marked' = IF w.to = "map" THEN w.value ELSE marked
      /\ header' = IF w.to = "header" THEN [header EXCEPT ![w.sector] = w.value] ELSE header
      /\ table' = IF w.to = "table" THEN [table EXCEPT ![w.sector] = w.value] ELSE table
      /\ writes' = Tail(writes) /\ crashes' = crashes
  BY <1>1 DEF WriteNext
<1>3. DiskTypes
  BY DEF Types
<1>4. DiskTypes'
  <2>1. CASE w.to = "header" /\ w.sector \in Sectors /\ w.value \in FileHeaders
    BY <1>2, <1>3, <2>1 DEF DiskTypes
  <2>2. CASE w.to = "table" /\ w.sector \in Sectors /\ w.value \in Tables
    BY <1>2, <1>3, <2>2 DEF DiskTypes
  <2>3. CASE w.to = "map" /\ w.value \in SUBSET Sectors
    BY <1>2, <1>3, <2>3 DEF DiskTypes
  <2> QED
    BY <2>1, <2>2, <2>3, WriteKinds
<1>5. call' \in Calls /\ completed' \in SUBSET (Paths \X Nodes) /\ stopped' = stopped
  BY DEF WriteNext, Types, CallTypes, Calls, NoCall
<1>6. CallTypes'
  BY <1>1, <1>2, <1>5 DEF Types, CallTypes
<1> QED
  BY <1>4, <1>6 DEF Types

\* A stop leaves the disk as it is, or a part of the free map written.
LEMMA CrashTypes == ASSUME Types, Crash PROVE Types'
<1>1. marked' \in SUBSET Sectors
  BY DEF Crash, Types, DiskTypes
<1>2. DiskTypes'
  BY <1>1 DEF Crash, Types, DiskTypes
<1>3. MaxCrashes \in Nat
  BY FileSystemAssumption
<1>4. call' \in Calls /\ stopped' \in SUBSET (Sectors \X Names)
  BY DEF Crash, Types, CallTypes, Calls, NoCall
<1>5. /\ writes' = << >> /\ crashes' \in 0 .. MaxCrashes
      /\ completed' \in SUBSET (Paths \X Nodes)
  BY <1>3 DEF Crash, Types, CallTypes
<1>6. writes' \in Seq(Writes)
  BY <1>5
<1>7. CallTypes'
  BY <1>4, <1>5, <1>6 DEF CallTypes
<1> QED
  BY <1>2, <1>7 DEF Types

\* Every step keeps the types.
LEMMA NextTypes == Types /\ [Next]_vars => Types'
<1> SUFFICES ASSUME Types, [Next]_vars PROVE Types'
  OBVIOUS
<1>1. CASE UNCHANGED vars
  BY <1>1 DEF vars, disk, Types, DiskTypes, CallTypes
<1>2. ASSUME NEW path \in Paths, NEW size \in Sizes, Create(path, size) PROVE Types'
  BY <1>2, CreateTypes
<1>3. ASSUME NEW path \in Paths, CreateDirectory(path) PROVE Types'
  BY <1>3, CreateDirectoryTypes
<1>4. ASSUME NEW name \in Names, Remove(name) PROVE Types'
  BY <1>4, RemoveTypes
<1>5. CASE WriteNext
  BY <1>5, WriteNextTypes
<1>6. CASE Crash
  BY <1>6, CrashTypes
<1> QED
  BY <1>1, <1>2, <1>3, <1>4, <1>5, <1>6 DEF Next

\* The types hold in every state.
LEMMA TypesHold == Spec => []Types
<1>1. Init => Types
  BY InitTypes
<1>2. Types /\ [Next]_vars => Types'
  BY NextTypes
<1> QED
  BY <1>1, <1>2, PTL DEF Spec

\* Every header holds as many sectors as its bytes take, all of the disk, no
\* directory has more entries than its table has, and what is left of a call that
\* is being written, or was stopped in the middle, never changes that.
THEOREM TypeCorrect == Spec => []TypeOK
<1>1. ASSUME Types PROVE TypeOK
  <2>1. /\ marked \subseteq Sectors /\ crashes \in 0 .. MaxCrashes
        /\ {completed, call.makes} \subseteq SUBSET (Paths \X Nodes)
        /\ {stopped, call.on} \subseteq SUBSET (Sectors \X Names)
    BY <1>1 DEF Types, DiskTypes, CallTypes, Calls
  <2>2. ASSUME NEW s \in Sectors
        PROVE  /\ header[s].numBytes \in 0 .. MaxFileSize
               /\ header[s].next \in Sectors \cup {NoSector}
               /\ \A i \in 1 .. Len(header[s].dataSectors) : header[s].dataSectors[i] \in Sectors
               /\ Len(header[s].dataSectors) = divRoundUp(header[s].numBytes, SectorSize)
    <3>1. PICK h \in FileHeaders : h = header[s]
      BY <1>1 DEF Types, DiskTypes
    <3>2. h.next \in Sectors \cup {NoSector} /\ IsHeader(h)
      BY DEF FileHeaders, Header
    <3>3. PICK d \in Seq(Sectors) : d = h.dataSectors
      BY <3>2 DEF IsHeader
    <3>4. \A i \in 1 .. Len(d) : d[i] \in Sectors
      OBVIOUS
    <3> QED
      BY <3>1, <3>2, <3>3, <3>4 DEF IsHeader
  <2>3. ASSUME NEW s \in Sectors
        PROVE  /\ table[s] \subseteq [name : Names, sector : Sectors, isDir : BOOLEAN]
               /\ Cardinality(table[s]) <= NumDirEntries
    <3>1. table[s] \in Tables
      BY <1>1 DEF Types, DiskTypes
    <3> QED
      BY <3>1 DEF Tables, DirEntries
  <2> QED
    BY <2>1, <2>2, <2>3 DEF TypeOK
<1> QED
  BY <1>1, TypesHold, PTL

-----------------------------------------------------------------------------
(* When Create succeeds.                                                   *)

\* A path whose directory exists, exists when the directory has its name.
LEMMA ExistsInParent ==
    ASSUME NEW path \in Paths, IsDirectory(Parent(path))
    PROVE  Exists(path) <=> Find(GetDirSector(Parent(path)), Last(path)) # {}
<1> DEFINE found(i) == \E e \in Find(GetDirSector(SubSeq(path, 1, i - 1)), path[i]) : i < Len(path) => e.isDir
<1>1. PICK n \in Nat : n = Len(path) /\ n >= 1 /\ path \in Seq(Names)
  BY PathIs
<1>2. n \in 1 .. n /\ n - 1 \in 0 .. Len(path)
  BY <1>1
<1>3. PICK q \in Seq(Names) : /\ q = Parent(path) /\ q = SubSeq(path, 1, n - 1) /\ Len(q) = n - 1
                              /\ \A i \in 1 .. n - 1 : q[i] = path[i]
                              /\ \A i \in 0 .. n - 1 : SubSeq(q, 1, i) = SubSeq(path, 1, i)
  BY <1>1, <1>2, Beginning DEF Parent
<1>4. found(n) <=> Find(GetDirSector(q), Last(path)) # {}
  BY <1>1, <1>3 DEF Last
<1>5. ASSUME NEW i \in 1 .. n - 1 PROVE found(i)
  <2>1. i \in 1 .. Len(q) /\ i - 1 \in 0 .. n - 1 /\ q # << >> /\ i < Len(path)
    <3>1. n \in Nat /\ Len(q) = n - 1 /\ n = Len(path)
      BY <1>1, <1>3
    <3>2. i \in 1 .. Len(q) /\ i - 1 \in 0 .. n - 1 /\ i < n
      BY <3>1
    <3>3. Len(q) # 0
      BY <3>2
    <3> QED
      BY <3>1, <3>2, <3>3
  <2>2. Exists(q) /\ Entry(q).isDir
    BY <1>3, <2>1 DEF IsDirectory
  <2>3. PICK e \in Find(GetDirSector(SubSeq(q, 1, i - 1)), q[i]) : i < Len(q) => e.isDir
    BY <2>1, <2>2 DEF Exists
  <2>4. SubSeq(q, 1, i - 1) = SubSeq(path, 1, i - 1) /\ q[i] = path[i]
    BY <1>3, <2>1
  <2>5. CASE i < Len(q)
    BY <2>3, <2>4, <2>5
  <2>6. CASE i = Len(q)
    <3>1. Parent(q) = SubSeq(q, 1, i - 1) /\ Last(q) = q[i]
      BY <2>6 DEF Parent, Last
    <3>2. Entry(q) \in Find(GetDirSector(SubSeq(q, 1, i - 1)), q[i])
      BY <2>3, <3>1 DEF Entry
    <3> QED
      BY <2>2, <2>4, <3>2
  <2> QED
    BY <1>3, <2>1, <2>5, <2>6
<1>6. Exists(path) <=> \A i \in 1 .. n : found(i)
  BY <1>1 DEF Exists
<1> HIDE DEF found
<1>7. \A i \in 1 .. n : i = n \/ i \in 1 .. n - 1
  BY <1>1
<1> QED
  BY <1>2, <1>3, <1>4, <1>5, <1>6, <1>7

\* Room for a file, counted in sectors of the free map as it was.
LEMMA RoomCounted ==
    ASSUME DiskTypes, NEW path \in Paths, NEW size \in Nat, IsDirectory(Parent(path))
    PROVE  RoomFor(path, size) <=>
               /\ ~ Exists(path)
               /\ Cardinality(table[GetDirSector(Parent(path))]) < NumDirEntries
               /\ SectorsNeeded(size) <= Cardinality(Clear(marked))
<1>1. marked \in SUBSET Sectors
  BY DEF DiskTypes
<1>2. PICK n \in Nat \ {0} : n = SectorsNeeded(size)
  <2>1. /\ MaxFileSize \in Nat /\ NumDirect \in Nat /\ HeaderSectors(size) \in Nat
        /\ SectorsNeeded(size) \in Nat
    BY DiskAssumption, HeaderSizes, NeededSteps
  <2>2. CASE size <= MaxFileSize
    BY <2>1, <2>2, NeededSteps
  <2>3. CASE size > MaxFileSize
    <3>1. PICK r \in Nat : r = size - MaxFileSize
      BY <2>1, <2>3
    <3>2. SectorsNeeded(r) \in Nat
      BY NeededSteps
    <3>3. SectorsNeeded(size) = NumDirect + 1 + SectorsNeeded(r)
      BY <2>3, <3>1, NeededSteps
    <3> QED
      BY <2>1, <3>2, <3>3
  <2> QED
    BY <2>1, <2>2, <2>3
<1>3. CASE Clear(marked) = {}
  <2>1. Cardinality(Clear(marked)) = 0
    BY <1>3, FS_EmptySet
  <2> QED
    BY <1>2, <1>3, <2>1 DEF RoomFor
<1>4. CASE Clear(marked) # {}
  <2>1. PICK c \in Nat \ {0} : /\ c = Cardinality(Clear(marked))
                              /\ Cardinality(Clear(FindAndSet(marked))) = c - 1
    BY <1>1, <1>4, HeaderSector
  <2>2. n <= c <=> n <= (c - 1) + 1
    OBVIOUS
  <2>3. SectorsNeeded(size) <= Cardinality(Clear(marked))
        <=> SectorsNeeded(size) <= Cardinality(Clear(FindAndSet(marked))) + 1
    BY <1>2, <2>1, <2>2
  <2> QED
    BY <1>4, <2>3, ExistsInParent DEF RoomFor
<1> QED
  BY <1>3, <1>4

\* Create fails for the four reasons its comment lists (filesys.cc 175-179) and for
\* no other, whatever the size of the disk, of its sectors and of the headers.
THEOREM CreateSucceeds == Spec => []CreateSucceedsIffRoom
<1>1. ASSUME Types PROVE CreateSucceedsIffRoom
  <2>1. SUFFICES ASSUME NEW path \in Paths, NEW size \in 0 .. MaxFileSize + 1, IsDirectory(Parent(path))
                 PROVE  NewFile(path, size, FALSE).ok <=>
                            /\ ~ Exists(path)
                            /\ Cardinality(table[GetDirSector(Parent(path))]) < NumDirEntries
                            /\ SectorsNeeded(size) <= Cardinality(Clear(marked))
    BY DEF CreateSucceedsIffRoom
  <2>2. size \in Nat
    OBVIOUS
  <2>3. DiskTypes
    BY <1>1 DEF Types
  <2> QED
    BY <2>1, <2>2, <2>3, NewFileIs, RoomCounted
<1> QED
  BY <1>1, TypesHold, PTL

-----------------------------------------------------------------------------
(* Sums along a chain.                                                     *)

Sums(f, w, n) == f = [i \in 0 .. n |-> IF i = 0 THEN 0 ELSE f[i - 1] + w[i]]

\* A sum begins with nothing and grows by a term at a time.
LEMMA SumSteps ==
    ASSUME NEW f, NEW w, NEW n \in Nat, Sums(f, w, n)
    PROVE  f[0] = 0 /\ \A i \in 1 .. n : f[i] = f[i - 1] + w[i]
<1> DEFINE step(i) == IF i = 0 THEN 0 ELSE f[i - 1] + w[i]
<1>1. f = [i \in 0 .. n |-> step(i)]
  BY DEF Sums
<1>2. \A i \in 0 .. n : f[i] = step(i)
  <2> HIDE DEF step
  <2> QED
    BY <1>1
<1> QED
  BY <1>2

\* Every sequence of terms has its sums.
LEMMA SumExists == \A w : \A n \in Nat : \E f : Sums(f, w, n)
<1> SUFFICES ASSUME NEW w PROVE \A n \in Nat : \E f : Sums(f, w, n)
  OBVIOUS
<1> DEFINE T == {n \in Nat : \E f : Sums(f, w, n)}
<1>1. ASSUME NEW n \in Nat, \A j \in 0 .. n - 1 : j \in T PROVE \E f : Sums(f, w, n)
  <2>1. CASE n = 0
    <3> DEFINE f == [i \in 0 .. 0 |-> 0]
    <3>1. Sums(f, w, 0)
      BY DEF Sums
    <3> QED
      BY <2>1, <3>1
  <2>2. CASE n > 0
    <3>1. PICK f : Sums(f, w, n - 1)
      BY <1>1, <2>2
    <3>2. n - 1 \in Nat
      BY <2>2
    <3>3. f[0] = 0 /\ \A i \in 1 .. n - 1 : f[i] = f[i - 1] + w[i]
      BY <3>1, <3>2, SumSteps
    <3> DEFINE g == [i \in 0 .. n |-> IF i = n THEN f[n - 1] + w[n] ELSE f[i]]
    <3>4. g = [i \in 0 .. n |-> g[i]]
      OBVIOUS
    <3>5. g[n] = f[n - 1] + w[n] /\ \A i \in 0 .. n - 1 : g[i] = f[i]
      BY <2>2
    <3> HIDE DEF g
    <3>6. ASSUME NEW i \in 0 .. n PROVE g[i] = IF i = 0 THEN 0 ELSE g[i - 1] + w[i]
      <4>1. CASE i = n
        <5>1. i # 0 /\ g[i - 1] = f[n - 1]
          BY <2>2, <3>5, <4>1
        <5> QED
          BY <3>5, <4>1, <5>1
      <4>2. CASE i # n /\ i = 0
        BY <2>2, <3>3, <3>5, <4>2
      <4>3. CASE i # n /\ i # 0
        <5>1. i \in 0 .. n - 1 /\ i - 1 \in 0 .. n - 1 /\ i \in 1 .. n - 1
          BY <4>3
        <5> QED
          BY <3>3, <3>5, <4>3, <5>1
      <4> QED
        BY <4>1, <4>2, <4>3
    <3>7. Sums(g, w, n)
      BY <3>4, <3>6 DEF Sums
    <3> QED
      BY <3>7
  <2> QED
    BY <2>1, <2>2
<1>2. \A n \in Nat : n \in T
  <2>1. \A n \in Nat : (\A j \in 0 .. n - 1 : j \in T) => n \in T
    BY <1>1
  <2> HIDE DEF T
  <2> QED
    BY <2>1, AllNumbers
<1> QED
  BY <1>2

Natural(w, n) == \A i \in 1 .. n : w[i] \in Nat
\* A sum of natural numbers is one, and no smaller than the sum before.
LEMMA SumNatural ==
    ASSUME NEW f, NEW w, NEW n \in Nat, Sums(f, w, n), Natural(w, n)
    PROVE  \A i \in 0 .. n : f[i] \in Nat
<1>1. f[0] = 0 /\ \A i \in 1 .. n : f[i] = f[i - 1] + w[i]
  BY SumSteps
<1> DEFINE T == {i \in Nat : i <= n => f[i] \in Nat}
<1>2. ASSUME NEW i \in Nat, \A j \in 0 .. i - 1 : j \in T PROVE i \in T
  <2>1. CASE i = 0
    BY <1>1, <2>1
  <2>2. CASE i > 0 /\ i <= n
    <3>1. i - 1 \in 0 .. i - 1 /\ i - 1 <= n /\ i \in 1 .. n
      BY <2>2
    <3>2. f[i - 1] \in Nat /\ w[i] \in Nat /\ f[i] = f[i - 1] + w[i]
      BY <1>1, <1>2, <3>1 DEF Natural
    <3> QED
      BY <3>2
  <2>3. CASE i > n
    BY <2>3
  <2> QED
    BY <2>1, <2>2, <2>3
<1>3. \A i \in Nat : i \in T
  <2> HIDE DEF T
  <2> QED
    BY <1>2, AllNumbers
<1> QED
  BY <1>3

\* A term put before the others adds to each of their sums.
After(v, w, n) == \A i \in 1 .. n : v[i + 1] = w[i]
\* The sum of v is its first term and the sum of the others.
LEMMA SumShift ==
    ASSUME NEW f, NEW w, NEW n \in Nat, Sums(f, w, n), Natural(w, n),
           NEW g, NEW v, NEW m \in Nat, Sums(g, v, m), v[1] \in Nat, m = n + 1, After(v, w, n)
    PROVE  g[m] = v[1] + f[n]
<1>1. f[0] = 0 /\ \A i \in 1 .. n : f[i] = f[i - 1] + w[i]
  BY SumSteps
<1>2. g[0] = 0 /\ \A i \in 1 .. n + 1 : g[i] = g[i - 1] + v[i]
  BY SumSteps
<1>3. \A i \in 0 .. n : f[i] \in Nat
  BY SumNatural
<1> DEFINE T == {i \in Nat : i <= n => g[i + 1] = v[1] + f[i]}
<1>4. ASSUME NEW i \in Nat, \A j \in 0 .. i - 1 : j \in T PROVE i \in T
  <2>1. CASE i = 0
    <3>1. 1 \in 1 .. n + 1
      OBVIOUS
    <3>2. g[1] = g[0] + v[1]
      BY <1>2, <3>1
    <3> QED
      BY <1>1, <1>2, <2>1, <3>2
  <2>2. CASE i > 0 /\ i <= n
    <3>1. PICK k \in Nat : k = i - 1
      BY <2>2
    <3>2. k \in 0 .. i - 1 /\ k <= n /\ i \in 1 .. n /\ i + 1 \in 1 .. n + 1 /\ k \in 0 .. n /\ k + 1 = i
      BY <2>2, <3>1
    <3>3. g[i] = v[1] + f[k]
      BY <1>4, <3>2
    <3>4. g[i + 1] = g[i] + v[i + 1]
      <4>1. (i + 1) - 1 = i
        OBVIOUS
      <4> QED
        BY <1>2, <3>2, <4>1
    <3>5. f[i] = f[k] + w[i] /\ v[i + 1] = w[i]
      BY <1>1, <3>1, <3>2 DEF After
    <3>6. f[k] \in Nat /\ w[i] \in Nat
      BY <1>3, <3>2 DEF Natural
    <3> QED
      BY <3>3, <3>4, <3>5, <3>6
  <2>3. CASE i > n
    BY <2>3
  <2> QED
    BY <2>1, <2>2, <2>3
<1>5. \A i \in Nat : i \in T
  <2> HIDE DEF T
  <2> QED
    BY <1>4, AllNumbers
<1> QED
  BY <1>5

\* The bytes of each header of a chain.
Bytes(chain) == [i \in 1 .. Len(chain) |-> chain[i].numBytes]
\* FileLength is their sum.
LEMMA FileLengthIs ==
    ASSUME NEW chain, Len(chain) \in Nat
    PROVE  \E f : Sums(f, Bytes(chain), Len(chain)) /\ FileLength(chain) = f[Len(chain)]
<1> DEFINE L(f) == f = [i \in 0 .. Len(chain) |-> IF i = 0 THEN 0 ELSE f[i - 1] + chain[i].numBytes]
<1>1. ASSUME NEW f PROVE Sums(f, Bytes(chain), Len(chain)) <=> L(f)
  <2>1. \A i \in 0 .. Len(chain) : i # 0 => Bytes(chain)[i] = chain[i].numBytes
    BY DEF Bytes
  <2>2. [i \in 0 .. Len(chain) |-> IF i = 0 THEN 0 ELSE f[i - 1] + Bytes(chain)[i]]
        = [i \in 0 .. Len(chain) |-> IF i = 0 THEN 0 ELSE f[i - 1] + chain[i].numBytes]
    BY <2>1
  <2> QED
    BY <2>2 DEF Sums
<1>2. \E f : L(f)
  BY <1>1, SumExists
<1> DEFINE c == CHOOSE f : L(f)
<1>3. L(c)
  <2> HIDE DEF L
  <2> QED
    BY <1>2
<1>4. FileLength(chain) = c[Len(chain)]
  BY DEF FileLength
<1>5. Sums(c, Bytes(chain), Len(chain))
  BY <1>1, <1>3
<1> QED
  BY <1>4, <1>5

\* The data sectors of a chain, and all its sectors, counted place by place.
Data(chain) == [i \in 1 .. Len(chain) |-> Len(chain[i].dataSectors)]
Blocks(chain) ==
    LET blocks[i \in 0 .. Len(chain)] ==
            IF i = 0 THEN 0 ELSE blocks[i - 1] + Len(chain[i].dataSectors)
    IN  blocks[Len(chain)]
Count(chain) == Len(chain) + Blocks(chain)
\* Blocks is the sum of the data sectors of the headers.
LEMMA BlocksIs ==
    ASSUME NEW chain, Len(chain) \in Nat
    PROVE  \E f : Sums(f, Data(chain), Len(chain)) /\ Blocks(chain) = f[Len(chain)]
<1> DEFINE L(f) == f = [i \in 0 .. Len(chain) |->
                           IF i = 0 THEN 0 ELSE f[i - 1] + Len(chain[i].dataSectors)]
<1>1. ASSUME NEW f PROVE Sums(f, Data(chain), Len(chain)) <=> L(f)
  <2>1. \A i \in 0 .. Len(chain) : i # 0 => Data(chain)[i] = Len(chain[i].dataSectors)
    BY DEF Data
  <2>2. [i \in 0 .. Len(chain) |-> IF i = 0 THEN 0 ELSE f[i - 1] + Data(chain)[i]]
        = [i \in 0 .. Len(chain) |-> IF i = 0 THEN 0 ELSE f[i - 1] + Len(chain[i].dataSectors)]
    BY <2>1
  <2> QED
    BY <2>2 DEF Sums
<1>2. \E f : L(f)
  BY <1>1, SumExists
<1> DEFINE c == CHOOSE f : L(f)
<1>3. L(c)
  <2> HIDE DEF L
  <2> QED
    BY <1>2
<1>4. Blocks(chain) = c[Len(chain)]
  BY DEF Blocks
<1>5. Sums(c, Data(chain), Len(chain))
  BY <1>1, <1>3
<1> QED
  BY <1>4, <1>5

\* What a chain of one header holds.
LEMMA OneHeader ==
    ASSUME NEW hdr, IsHeader(hdr)
    PROVE  FileLength(<<hdr>>) = hdr.numBytes /\ Count(<<hdr>>) = 1 + Len(hdr.dataSectors)
<1>1. PICK c : c = <<hdr>> /\ Len(c) = 1 /\ c[1] = hdr
  <2>1. Len(<<hdr>>) = 1 /\ <<hdr>>[1] = hdr
    OBVIOUS
  <2> QED
    BY <2>1
<1>2. PICK l \in Nat, n \in Nat : l = hdr.numBytes /\ n = Len(hdr.dataSectors)
  <2>1. MaxFileSize \in Nat
    BY DiskAssumption DEF MaxFileSize
  <2> QED
    BY <2>1 DEF IsHeader
<1>3. PICK f : Sums(f, Bytes(c), 1) /\ FileLength(c) = f[1]
  BY <1>1, FileLengthIs
<1>4. PICK g : Sums(g, Data(c), 1) /\ Blocks(c) = g[1]
  BY <1>1, BlocksIs
<1>5. Bytes(c)[1] = l /\ Data(c)[1] = n
  BY <1>1, <1>2 DEF Bytes, Data
<1>6. f[0] = 0 /\ f[1] = f[0] + l
  <2>1. 1 \in 1 .. 1 /\ 1 - 1 = 0 /\ 1 \in Nat
    OBVIOUS
  <2> QED
    BY <1>3, <1>5, <2>1, SumSteps
<1>7. g[0] = 0 /\ g[1] = g[0] + n
  <2>1. 1 \in 1 .. 1 /\ 1 - 1 = 0 /\ 1 \in Nat
    OBVIOUS
  <2> QED
    BY <1>4, <1>5, <2>1, SumSteps
<1> QED
  BY <1>1, <1>2, <1>3, <1>4, <1>6, <1>7 DEF Count

\* What a header before a chain adds.
LEMMA HeaderAdds ==
    ASSUME NEW hdr \in [numBytes : Nat, dataSectors : Seq(Sectors), next : Sectors \cup {NoSector}],
           IsHeader(hdr), NEW chain, IsChain(chain)
    PROVE  /\ FileLength(<<hdr>> \o chain) = hdr.numBytes + FileLength(chain)
           /\ Count(<<hdr>> \o chain) = 1 + Len(hdr.dataSectors) + Count(chain)
           /\ FileLength(chain) \in Nat /\ Count(chain) \in Nat
<1> DEFINE H == [numBytes : Nat, dataSectors : Seq(Sectors), next : Sectors \cup {NoSector}]
<1>1. PICK m \in Nat : m = Len(chain) /\ chain \in Seq(H)
  BY DEF IsChain
<1>2. PICK c : /\ c = <<hdr>> \o chain /\ Len(c) = m + 1 /\ c[1] = hdr
              /\ \A i \in 1 .. m : c[i + 1] = chain[i]
  <2>1. hdr \in H
    OBVIOUS
  <2> HIDE DEF H
  <2>2. /\ Len(<<hdr>> \o chain) = m + 1 /\ (<<hdr>> \o chain)[1] = hdr
        /\ \A i \in 1 .. m : (<<hdr>> \o chain)[i + 1] = chain[i]
    BY <1>1, <2>1
  <2> QED
    BY <2>2
<1>3. MaxFileSize \in Nat
  BY DiskAssumption DEF MaxFileSize
<1>4. PICK l \in Nat, n \in Nat : l = hdr.numBytes /\ n = Len(hdr.dataSectors)
  BY <1>3 DEF IsHeader
<1>5. ASSUME NEW i \in 1 .. m PROVE chain[i].numBytes \in Nat /\ Len(chain[i].dataSectors) \in Nat
  <2>1. IsHeader(chain[i])
    BY <1>1 DEF IsChain
  <2> QED
    BY <1>3, <2>1 DEF IsHeader
<1>6. m + 1 \in Nat /\ 1 \in 1 .. m + 1 /\ \A i \in 1 .. m : i \in 1 .. m + 1 /\ i + 1 \in 1 .. m + 1
  OBVIOUS
<1>7. PICK f : Sums(f, Bytes(chain), m) /\ FileLength(chain) = f[m]
  BY <1>1, FileLengthIs
<1>8. PICK g : Sums(g, Bytes(c), m + 1) /\ FileLength(c) = g[m + 1]
  BY <1>2, <1>6, FileLengthIs
<1>9. PICK p : Sums(p, Data(chain), m) /\ Blocks(chain) = p[m]
  BY <1>1, BlocksIs
<1>10. PICK q : Sums(q, Data(c), m + 1) /\ Blocks(c) = q[m + 1]
  BY <1>2, <1>6, BlocksIs
<1>11. Natural(Bytes(chain), m) /\ Natural(Data(chain), m)
  BY <1>1, <1>5 DEF Natural, Bytes, Data
<1>12. Bytes(c)[1] = l /\ After(Bytes(c), Bytes(chain), m)
  BY <1>1, <1>2, <1>4, <1>6 DEF Bytes, After
<1>13. Data(c)[1] = n /\ After(Data(c), Data(chain), m)
  BY <1>1, <1>2, <1>4, <1>6 DEF Data, After
<1>14. g[m + 1] = l + f[m] /\ q[m + 1] = n + p[m]
  <2>1. PICK k \in Nat : k = m + 1
    OBVIOUS
  <2>2. g[k] = Bytes(c)[1] + f[m]
    BY <1>7, <1>8, <1>11, <1>12, <2>1, SumShift
  <2>3. q[k] = Data(c)[1] + p[m]
    <3>1. PICK w, v : w = Data(chain) /\ v = Data(c)
      OBVIOUS
    <3>2. Sums(p, w, m)
      BY <1>9, <3>1
    <3>3. Natural(w, m)
      BY <1>11, <3>1
    <3>4. Sums(q, v, k)
      BY <1>10, <2>1, <3>1
    <3>5. v[1] \in Nat
      BY <1>13, <3>1
    <3>6. After(v, w, m)
      BY <1>13, <3>1
    <3>7. q[k] = v[1] + p[m]
      BY <2>1, <3>2, <3>3, <3>4, <3>5, <3>6, SumShift
    <3> QED
      BY <3>1, <3>7
  <2> QED
    BY <1>12, <1>13, <2>1, <2>2, <2>3
<1>15. f[m] \in Nat /\ p[m] \in Nat
  BY <1>7, <1>9, <1>11, SumNatural
<1>16. FileLength(c) = l + FileLength(chain) /\ FileLength(chain) \in Nat
  BY <1>7, <1>8, <1>14, <1>15
<1>17. Count(c) = 1 + n + Count(chain) /\ Count(chain) \in Nat
  <2>1. Count(c) = (m + 1) + (n + p[m])
    BY <1>2, <1>10, <1>14 DEF Count
  <2>2. Count(chain) = m + p[m]
    BY <1>1, <1>9 DEF Count
  <2>3. PICK b \in Nat : b = p[m]
    BY <1>15
  <2>4. Count(c) = (m + 1) + (n + b) /\ Count(chain) = m + b
    BY <2>1, <2>2, <2>3
  <2> QED
    BY <2>4
<1> QED
  BY <1>2, <1>4, <1>16, <1>17

\* A chain has no more headers than places for sectors.
LEMMA CountAtLeast ==
    ASSUME NEW chain, IsChain(chain)
    PROVE  Count(chain) \in Nat /\ Len(chain) \in Nat /\ Len(chain) <= Count(chain)
<1>1. PICK m \in Nat : m = Len(chain)
  BY DEF IsChain
<1>2. ASSUME NEW i \in 1 .. m PROVE Len(chain[i].dataSectors) \in Nat
  BY <1>1 DEF IsChain, IsHeader
<1>3. PICK p : Sums(p, Data(chain), m) /\ Blocks(chain) = p[m]
  BY <1>1, BlocksIs
<1>4. Natural(Data(chain), m)
  BY <1>1, <1>2 DEF Natural, Data
<1>5. p[m] \in Nat
  BY <1>3, <1>4, SumNatural
<1> QED
  BY <1>1, <1>3, <1>5 DEF Count

-----------------------------------------------------------------------------
(* The sectors a chain takes.                                              *)

Taken(chain) == {chain[i].next : i \in 1 .. Len(chain) - 1} \cup DataSectors(chain)
DataOf(hdr) == {hdr.dataSectors[j] : j \in 1 .. Len(hdr.dataSectors)}
NextsDiffer(chain) == \A i, j \in 1 .. Len(chain) - 1 : chain[i].next = chain[j].next => i = j

\* A chain of one header takes its data sectors.
LEMMA OneTakes ==
    ASSUME NEW hdr
    PROVE  Taken(<<hdr>>) = DataOf(hdr) /\ NextsDiffer(<<hdr>>)
<1>1. PICK c : c = <<hdr>> /\ Len(c) = 1 /\ c[1] = hdr
  <2>1. Len(<<hdr>>) = 1 /\ <<hdr>>[1] = hdr
    OBVIOUS
  <2> QED
    BY <2>1
<1>2. 1 .. Len(c) - 1 = {} /\ 1 .. Len(c) = {1}
  BY <1>1
<1>3. DataSectors(c) = DataOf(hdr)
  BY <1>1, <1>2 DEF DataSectors, DataOf
<1>4. {c[i].next : i \in 1 .. Len(c) - 1} = {}
  BY <1>2
<1> QED
  BY <1>1, <1>2, <1>3, <1>4 DEF Taken, NextsDiffer

\* The numbers from 1 are 1 and the successors.
LEMMA FromOne ==
    ASSUME NEW m \in Nat
    PROVE  1 .. m + 1 = {1} \cup {i + 1 : i \in 1 .. m}
<1> DEFINE S == {i + 1 : i \in 1 .. m}
<1>1. ASSUME NEW k \in 1 .. m + 1 PROVE k = 1 \/ k \in S
  <2>1. CASE k # 1
    <3>1. k - 1 \in 1 .. m /\ k = (k - 1) + 1
      BY <2>1
    <3> QED
      BY <3>1
  <2> QED
    BY <2>1
<1>2. ASSUME NEW k \in S PROVE k \in 1 .. m + 1
  OBVIOUS
<1>3. 1 \in 1 .. m + 1
  OBVIOUS
<1> HIDE DEF S
<1> QED
  BY <1>1, <1>2, <1>3

\* A header before a chain adds its own, and the sector the chain starts in.
LEMMA MoreTaken ==
    ASSUME NEW hdr \in [numBytes : Nat, dataSectors : Seq(Sectors), next : Sectors \cup {NoSector}],
           NEW chain, IsChain(chain)
    PROVE  /\ Taken(<<hdr>> \o chain) = {hdr.next} \cup DataOf(hdr) \cup Taken(chain)
           /\ NextsDiffer(chain) /\ hdr.next \notin Taken(chain) => NextsDiffer(<<hdr>> \o chain)
<1> DEFINE H == [numBytes : Nat, dataSectors : Seq(Sectors), next : Sectors \cup {NoSector}]
<1>1. PICK m \in Nat : m = Len(chain) /\ chain \in Seq(H) /\ m >= 1
  BY DEF IsChain
<1>2. PICK c : /\ c = <<hdr>> \o chain /\ Len(c) = m + 1 /\ c[1] = hdr
              /\ \A i \in 1 .. m : c[i + 1] = chain[i]
  <2>1. hdr \in H
    OBVIOUS
  <2> HIDE DEF H
  <2>2. /\ Len(<<hdr>> \o chain) = m + 1 /\ (<<hdr>> \o chain)[1] = hdr
        /\ \A i \in 1 .. m : (<<hdr>> \o chain)[i + 1] = chain[i]
    BY <1>1, <2>1
  <2> QED
    BY <2>2
<1> HIDE DEF H
<1>3. 1 .. m + 1 = {1} \cup {i + 1 : i \in 1 .. m}
  BY FromOne
<1>4. 1 .. m = {1} \cup {i + 1 : i \in 1 .. m - 1} /\ \A i \in 1 .. m - 1 : i \in 1 .. m
  <2>1. PICK l \in Nat : l = m - 1 /\ m = l + 1
    BY <1>1
  <2>2. 1 .. l + 1 = {1} \cup {i + 1 : i \in 1 .. l}
    BY FromOne
  <2> QED
    BY <2>1, <2>2
<1>5. DataSectors(c) = DataOf(hdr) \cup DataSectors(chain)
  <2>1. DataSectors(c) = UNION {DataOf(c[i]) : i \in 1 .. m + 1}
    BY <1>2 DEF DataSectors, DataOf
  <2>2. DataSectors(chain) = UNION {DataOf(chain[i]) : i \in 1 .. m}
    BY <1>1 DEF DataSectors, DataOf
  <2>3. {DataOf(c[i]) : i \in 1 .. m + 1} = {DataOf(hdr)} \cup {DataOf(chain[i]) : i \in 1 .. m}
    <3>1. \A i \in 1 .. m : DataOf(c[i + 1]) = DataOf(chain[i])
      BY <1>2
    <3>2. DataOf(c[1]) = DataOf(hdr)
      BY <1>2
    <3>3. {DataOf(c[i]) : i \in 1 .. m + 1} = {DataOf(c[1])} \cup {DataOf(c[i + 1]) : i \in 1 .. m}
      <4>1. \A i \in 1 .. m + 1 : i = 1 \/ \E j \in 1 .. m : i = j + 1
        BY <1>3
      <4>2. 1 \in 1 .. m + 1 /\ \A j \in 1 .. m : j + 1 \in 1 .. m + 1
        BY <1>1
      <4> QED
        BY <4>1, <4>2
    <3>4. {DataOf(c[i + 1]) : i \in 1 .. m} = {DataOf(chain[i]) : i \in 1 .. m}
      BY <3>1
    <3> QED
      BY <3>2, <3>3, <3>4
  <2> QED
    BY <2>1, <2>2, <2>3
<1>6. {c[i].next : i \in 1 .. Len(c) - 1} = {hdr.next} \cup {chain[i].next : i \in 1 .. Len(chain) - 1}
  <2>1. Len(c) - 1 = m
    BY <1>1, <1>2
  <2>2. {c[i].next : i \in 1 .. m} = {c[1].next} \cup {c[i + 1].next : i \in 1 .. m - 1}
    BY <1>4
  <2>3. \A i \in 1 .. m - 1 : c[i + 1].next = chain[i].next
    BY <1>2, <1>4
  <2> QED
    BY <1>1, <1>2, <2>1, <2>2, <2>3
<1>7. Taken(c) = {hdr.next} \cup DataOf(hdr) \cup Taken(chain)
  BY <1>5, <1>6 DEF Taken
<1>8. ASSUME NextsDiffer(chain), hdr.next \notin Taken(chain) PROVE NextsDiffer(c)
  <2>1. Len(c) - 1 = m
    BY <1>1, <1>2
  <2>2. \A i \in 1 .. m - 1 : chain[i].next # hdr.next
    BY <1>1, <1>8 DEF Taken
  <2>3. ASSUME NEW i \in 1 .. m, NEW j \in 1 .. m, c[i].next = c[j].next PROVE i = j
    <3>1. \A k \in 1 .. m : k # 1 => k - 1 \in 1 .. m - 1 /\ k - 1 \in 1 .. m /\ (k - 1) + 1 = k
      BY <1>1
    <3>2. \A k \in 1 .. m : k # 1 => c[k] = chain[k - 1]
      BY <1>2, <3>1
    <3>3. CASE i = 1 \/ j = 1
      BY <1>2, <2>2, <2>3, <3>1, <3>2, <3>3
    <3>4. CASE i # 1 /\ j # 1
      <4>1. i - 1 = j - 1
        BY <1>1, <1>8, <2>3, <3>1, <3>2, <3>4 DEF NextsDiffer
      <4> QED
        BY <4>1
    <3> QED
      BY <3>3, <3>4
  <2> QED
    BY <2>1, <2>3 DEF NextsDiffer
<1> QED
  BY <1>2, <1>7, <1>8

\* Every header but the last is full, and no data sector is in two places.
Once(s) == \A a, b \in 1 .. Len(s) : s[a] = s[b] => a = b
Apart(s, t) == \A a \in 1 .. Len(s), b \in 1 .. Len(t) : s[a] # t[b]
Laid(chain) ==
    /\ \A i \in 1 .. Len(chain) - 1 : chain[i].numBytes = MaxFileSize
    /\ \A i \in 1 .. Len(chain) : Once(chain[i].dataSectors)
    /\ \A i, j \in 1 .. Len(chain) : i # j => Apart(chain[i].dataSectors, chain[j].dataSectors)

\* A chain of one header is so if its header is.
LEMMA OneLaid ==
    ASSUME NEW hdr, Once(hdr.dataSectors)
    PROVE  Laid(<<hdr>>)
<1>1. PICK c : c = <<hdr>> /\ Len(c) = 1 /\ c[1] = hdr
  <2>1. Len(<<hdr>>) = 1 /\ <<hdr>>[1] = hdr
    OBVIOUS
  <2> QED
    BY <2>1
<1>2. 1 .. Len(c) - 1 = {} /\ 1 .. Len(c) = {1}
  BY <1>1
<1>3. Laid(c)
  BY <1>1, <1>2 DEF Laid
<1> QED
  BY <1>1, <1>3

\* So is a chain with a full header before it that shares no sector with it.
LEMMA MoreLaid ==
    ASSUME NEW hdr \in [numBytes : Nat, dataSectors : Seq(Sectors), next : Sectors \cup {NoSector}],
           NEW chain, IsChain(chain), Laid(chain),
           hdr.numBytes = MaxFileSize, Once(hdr.dataSectors), DataOf(hdr) \cap Taken(chain) = {}
    PROVE  Laid(<<hdr>> \o chain)
<1> DEFINE H == [numBytes : Nat, dataSectors : Seq(Sectors), next : Sectors \cup {NoSector}]
<1>1. PICK m \in Nat : m = Len(chain) /\ chain \in Seq(H) /\ m >= 1
  BY DEF IsChain
<1>2. PICK c : /\ c = <<hdr>> \o chain /\ Len(c) = m + 1 /\ c[1] = hdr
              /\ \A i \in 1 .. m : c[i + 1] = chain[i]
  <2>1. hdr \in H
    OBVIOUS
  <2> HIDE DEF H
  <2>2. /\ Len(<<hdr>> \o chain) = m + 1 /\ (<<hdr>> \o chain)[1] = hdr
        /\ \A i \in 1 .. m : (<<hdr>> \o chain)[i + 1] = chain[i]
    BY <1>1, <2>1
  <2> QED
    BY <2>2
<1>3. \A i \in 1 .. m + 1 : i = 1 \/ (i # 1 /\ i - 1 \in 1 .. m /\ c[i] = chain[i - 1])
  <2>1. ASSUME NEW i \in 1 .. m + 1, i # 1 PROVE i - 1 \in 1 .. m /\ c[i] = chain[i - 1]
    <3>1. i - 1 \in 1 .. m /\ (i - 1) + 1 = i
      BY <2>1
    <3> QED
      BY <1>2, <3>1
  <2> QED
    BY <2>1
<1>4. ASSUME NEW i \in 1 .. m PROVE c[i].numBytes = MaxFileSize
  <2>1. CASE i = 1
    BY <1>2, <2>1
  <2>2. CASE i # 1
    <3>1. i - 1 \in 1 .. m - 1 /\ i \in 1 .. m + 1
      BY <2>2
    <3> QED
      BY <1>1, <1>3, <2>2, <3>1 DEF Laid
  <2> QED
    BY <2>1, <2>2
<1>5. \A i \in 1 .. m + 1 : Once(c[i].dataSectors)
  BY <1>1, <1>2, <1>3 DEF Laid
<1>6. ASSUME NEW i \in 1 .. m
      PROVE  Apart(hdr.dataSectors, chain[i].dataSectors) /\ Apart(chain[i].dataSectors, hdr.dataSectors)
  <2>1. ASSUME NEW b \in 1 .. Len(chain[i].dataSectors) PROVE chain[i].dataSectors[b] \in Taken(chain)
    <3>1. i \in 1 .. Len(chain)
      BY <1>1
    <3>2. chain[i].dataSectors[b] \in {chain[i].dataSectors[j] : j \in 1 .. Len(chain[i].dataSectors)}
      OBVIOUS
    <3>3. chain[i].dataSectors[b] \in DataSectors(chain)
      BY <3>1, <3>2 DEF DataSectors
    <3> QED
      BY <3>3 DEF Taken
  <2>2. \A a \in 1 .. Len(hdr.dataSectors) : hdr.dataSectors[a] \in DataOf(hdr)
    BY DEF DataOf
  <2> QED
    BY <2>1, <2>2 DEF Apart
<1>7. ASSUME NEW i \in 1 .. m + 1, NEW j \in 1 .. m + 1, i # j
      PROVE  Apart(c[i].dataSectors, c[j].dataSectors)
  <2>1. CASE i = 1
    <3>1. j - 1 \in 1 .. m /\ c[j] = chain[j - 1]
      BY <1>3, <1>7, <2>1
    <3> QED
      BY <1>2, <1>6, <2>1, <3>1
  <2>2. CASE j = 1
    <3>1. i - 1 \in 1 .. m /\ c[i] = chain[i - 1]
      BY <1>3, <1>7, <2>2
    <3> QED
      BY <1>2, <1>6, <2>2, <3>1
  <2>3. CASE i # 1 /\ j # 1
    <3>1. PICK k \in 1 .. m, l \in 1 .. m : k = i - 1 /\ l = j - 1 /\ c[i] = chain[k] /\ c[j] = chain[l]
      BY <1>3, <2>3
    <3>2. k # l
      BY <1>7, <3>1
    <3> QED
      BY <1>1, <3>1, <3>2 DEF Laid
  <2> QED
    BY <2>1, <2>2, <2>3
<1>8. Laid(c)
  <2>1. Len(c) - 1 = m
    BY <1>2
  <2> QED
    BY <1>2, <1>4, <1>5, <1>7, <2>1 DEF Laid
<1> QED
  BY <1>2, <1>8

\* A header takes as many clear sectors as it has data sectors, all different.
LEMMA HeaderTakes ==
    ASSUME NEW map \in SUBSET Sectors, NEW size \in Nat,
           Cardinality(Clear(map)) >= HeaderSectors(size), NEW next
    PROVE  /\ DataOf(HeaderOf(map, size, next)) \subseteq Clear(map)
           /\ AfterData(map, size) = map \cup DataOf(HeaderOf(map, size, next))
           /\ Cardinality(DataOf(HeaderOf(map, size, next))) = HeaderSectors(size)
           /\ Len(HeaderOf(map, size, next).dataSectors) = HeaderSectors(size)
           /\ Once(HeaderOf(map, size, next).dataSectors)
<1>1. PICK k \in Nat : k = HeaderSectors(size)
  BY HeaderSizes
<1>2. 1 .. k \subseteq 1 .. Cardinality(Clear(map)) /\ Cardinality(Clear(map)) \in Nat
  BY <1>1, ClearFinite
<1>3. \A i \in 1 .. k : NthClear(map, i) \in Clear(map)
  BY <1>2, NthClearIs
<1>4. PICK d : d = HeaderData(map, size) /\ Len(d) = k /\ \A i \in 1 .. k : d[i] = NthClear(map, i)
  <2>1. Len(HeaderData(map, size)) = k
    BY <1>1, HeaderDataIs
  <2>2. \A i \in 1 .. k : HeaderData(map, size)[i] = NthClear(map, i)
    BY <1>1 DEF HeaderData
  <2> QED
    BY <2>1, <2>2
<1>5. HeaderOf(map, size, next).dataSectors = d
  BY <1>4 DEF HeaderOf
<1> DEFINE R == {NthClear(map, i) : i \in 1 .. k}
<1>6. DataOf(HeaderOf(map, size, next)) = R
  BY <1>4, <1>5 DEF DataOf
<1>7. R \subseteq Clear(map) /\ AfterData(map, size) = map \cup R
  BY <1>1, <1>3 DEF AfterData
<1>8. Cardinality(R) = k
  <2> HIDE DEF R
  <2>1. Clear(AfterData(map, size)) = Clear(map) \ R
    BY <1>7 DEF Clear
  <2>2. Cardinality(Clear(map) \ R) = Cardinality(Clear(map)) - k
    BY <1>1, <2>1, HeaderDataIs
  <2>3. IsFiniteSet(Clear(map)) /\ IsFiniteSet(R) /\ Clear(map) \cap R = R /\ Cardinality(R) \in Nat
    BY <1>7, ClearFinite
  <2>4. Cardinality(Clear(map) \ R) = Cardinality(Clear(map)) - Cardinality(R)
    BY <2>3, FS_Difference
  <2> QED
    BY <1>2, <2>2, <2>3, <2>4
<1>9. Once(d)
  <2>1. \A i, j \in 1 .. k : NthClear(map, i) = NthClear(map, j) => i = j
    BY <1>2, NthClearDiffers
  <2> QED
    BY <1>4, <2>1 DEF Once
<1> QED
  BY <1>1, <1>4, <1>5, <1>6, <1>7, <1>8, <1>9

\* Allocate takes clear sectors only, each once, and marks what it takes; its
\* headers hold the whole of the file.
Takes(map, size, result) ==
    result.ok => /\ Taken(result.chain) \cap map = {}
                 /\ result.map = map \cup Taken(result.chain)
                 /\ Cardinality(Taken(result.chain)) + 1 = Count(result.chain)
                 /\ FileLength(result.chain) = size
                 /\ NextsDiffer(result.chain) /\ Laid(result.chain)
\* By induction over the size.
LEMMA AllocateTakes ==
    \A size \in Nat : \A map \in SUBSET Sectors : Takes(map, size, Allocate(map, size))
<1> DEFINE T == {size \in Nat : \A map \in SUBSET Sectors : Takes(map, size, Allocated[size][map])}
<1>1. ASSUME NEW size \in Nat, \A j \in 0 .. size - 1 : j \in T,
             NEW map \in SUBSET Sectors, Allocated[size][map].ok
      PROVE  Takes(map, size, Allocated[size][map])
  <2>1. PICK k \in Nat : k = HeaderSectors(size)
    BY HeaderSizes
  <2>2. PICK h, r : h = Allocated[size - HeaderBytes(size)] /\ r = Allocated[size][map] /\ r.ok
    BY <1>1
  <2>3. PICK after : after = AfterData(map, size)
    OBVIOUS
  <2>4. PICK next : next = NthClear(after, 1)
    OBVIOUS
  <2>5. r = IF ~ NumClearAtLeast(map, k) THEN Failed
            ELSE IF size = HeaderBytes(size)
              THEN [ok |-> TRUE, map |-> after, chain |-> <<HeaderOf(map, size, NoSector)>>]
            ELSE IF Clear(after) = {} THEN Failed
            ELSE IF h[after \cup {next}].ok
              THEN [ok |-> TRUE, map |-> h[after \cup {next}].map,
                    chain |-> <<HeaderOf(map, size, next)>> \o h[after \cup {next}].chain]
            ELSE Failed
    <3>1. r = Row(h, size)[map]
      BY <2>2, AllocatedIs
    <3> QED
      BY <2>1, <2>3, <2>4, <3>1 DEF Row
  <2>6. ~ Failed.ok
    BY DEF Failed
  <2>7. NumClearAtLeast(map, k)
    BY <2>2, <2>5, <2>6
  <2>8. Cardinality(Clear(map)) >= HeaderSectors(size)
    BY <2>1, <2>7 DEF NumClearAtLeast
  <2>9. /\ after \in SUBSET Sectors /\ map \subseteq after
        /\ \A n : /\ DataOf(HeaderOf(map, size, n)) \subseteq Clear(map)
                  /\ after = map \cup DataOf(HeaderOf(map, size, n))
                  /\ Cardinality(DataOf(HeaderOf(map, size, n))) = k
                  /\ Len(HeaderOf(map, size, n).dataSectors) = k
                  /\ Once(HeaderOf(map, size, n).dataSectors)
    BY <2>1, <2>3, <2>8, HeaderDataIs, HeaderTakes
  <2>10. CASE size = HeaderBytes(size)
    <3>1. r = [ok |-> TRUE, map |-> after, chain |-> <<HeaderOf(map, size, NoSector)>>]
      BY <2>5, <2>7, <2>10
    <3>2. PICK hdr : hdr = HeaderOf(map, size, NoSector) /\ IsHeader(hdr) /\ hdr.numBytes = size
      <4>1. NoSector \in Sectors \cup {NoSector}
        OBVIOUS
      <4>2. IsHeader(HeaderOf(map, size, NoSector))
        BY <2>8, <4>1, HeaderOfIs
      <4>3. HeaderOf(map, size, NoSector).numBytes = size
        BY <2>10 DEF HeaderOf
      <4> QED
        BY <4>2, <4>3
    <3>3. FileLength(<<hdr>>) = size /\ Count(<<hdr>>) = 1 + k
      BY <2>9, <3>2, OneHeader
    <3>4. Taken(<<hdr>>) = DataOf(hdr) /\ NextsDiffer(<<hdr>>)
      BY OneTakes
    <3>5. DataOf(hdr) \cap map = {} /\ after = map \cup DataOf(hdr) /\ Cardinality(DataOf(hdr)) = k
      BY <2>9, <3>2 DEF Clear
    <3>6. k + 1 = 1 + k
      BY <2>1
    <3>7. r.chain = <<hdr>> /\ r.map = after
      BY <3>1, <3>2
    <3>8. Laid(<<hdr>>)
      BY <2>9, <3>2, OneLaid
    <3> QED
      BY <2>2, <3>3, <3>4, <3>5, <3>6, <3>7, <3>8 DEF Takes
  <2>11. CASE size # HeaderBytes(size)
    <3>1. Clear(after) # {} /\ h[after \cup {next}].ok
      BY <2>2, <2>5, <2>6, <2>7, <2>11
    <3>2. r = [ok |-> TRUE, map |-> h[after \cup {next}].map,
               chain |-> <<HeaderOf(map, size, next)>> \o h[after \cup {next}].chain]
      BY <2>5, <2>7, <2>11, <3>1
    <3>3. next \in Clear(after)
      <4>1. Cardinality(Clear(after)) \in Nat /\ Cardinality(Clear(after)) # 0
        BY <3>1, ClearFinite, FS_EmptySet
      <4>2. 1 \in 1 .. Cardinality(Clear(after))
        BY <4>1
      <4> QED
        BY <2>4, <4>2, NthClearIs
    <3>4. PICK rest \in SUBSET Sectors : rest = after \cup {next}
      BY <2>9, <3>3 DEF Clear
    <3>5. PICK j \in 0 .. size - 1 : j = size - HeaderBytes(size) /\ j \in Nat /\ size = HeaderBytes(size) + j
      <4>1. HeaderBytes(size) \in Nat /\ MaxFileSize \in Nat \ {0} /\ size > MaxFileSize
        BY <2>11, HeaderSizes
      <4>2. HeaderBytes(size) = MaxFileSize
        BY <4>1, HeaderSizes
      <4> QED
        BY <4>1, <4>2
    <3>6. PICK q : q = h[rest] /\ q.ok /\ q = Allocated[j][rest] /\ q = Allocate(rest, j)
      BY <2>2, <3>1, <3>4, <3>5 DEF Allocate
    <3>7. Takes(rest, j, q)
      BY <1>1, <3>5, <3>6
    <3>8. PICK chain : chain = q.chain /\ IsChain(chain)
      BY <3>5, <3>6, AllocateIs DEF Allocates
    <3>9. PICK hdr \in [numBytes : Nat, dataSectors : Seq(Sectors), next : Sectors \cup {NoSector}] :
              /\ hdr = HeaderOf(map, size, next) /\ IsHeader(hdr) /\ hdr.next = next
              /\ hdr.numBytes = HeaderBytes(size)
      <4>1. next \in Sectors \cup {NoSector}
        BY <3>3 DEF Clear
      <4>2. /\ HeaderOf(map, size, next)
                    \in [numBytes : Nat, dataSectors : Seq(Sectors), next : Sectors \cup {NoSector}]
            /\ IsHeader(HeaderOf(map, size, next)) /\ HeaderOf(map, size, next).next = next
        BY <2>8, <4>1, HeaderOfIs
      <4>3. HeaderOf(map, size, next).numBytes = HeaderBytes(size)
        BY DEF HeaderOf
      <4> QED
        BY <4>2, <4>3
    <3>10. PICK a, d : a = Taken(chain) /\ d = DataOf(hdr)
      OBVIOUS
    <3>11. a \cap rest = {} /\ q.map = rest \cup a /\ Cardinality(a) + 1 = Count(chain)
           /\ FileLength(chain) = j /\ NextsDiffer(chain) /\ Laid(chain)
      BY <3>6, <3>7, <3>8, <3>10 DEF Takes
    <3>12. d \subseteq Clear(map) /\ after = map \cup d /\ Cardinality(d) = k /\ Len(hdr.dataSectors) = k
      BY <2>9, <3>9, <3>10
    <3>13. Taken(<<hdr>> \o chain) = {next} \cup d \cup a /\ NextsDiffer(<<hdr>> \o chain)
      BY <3>4, <3>8, <3>9, <3>10, <3>11, MoreTaken
    <3>14. FileLength(<<hdr>> \o chain) = size
      BY <3>5, <3>8, <3>9, <3>11, HeaderAdds
    <3>15. PICK n \in Nat : n = Cardinality(a) /\ IsFiniteSet(a) /\ IsFiniteSet(d)
      <4>1. a \subseteq Sectors
        BY <3>4, <3>5, <3>6, <3>11, AllocateIs DEF Allocates
      <4>2. a \subseteq Clear({}) /\ d \subseteq Clear({})
        BY <3>12, <4>1 DEF Clear
      <4> QED
        BY <4>2, ClearFinite
    <3>16. Cardinality({next} \cup d \cup a) = 1 + k + n
      <4>1. d \cap a = {}
        BY <3>4, <3>11, <3>12
      <4>2. IsFiniteSet(d \cup a) /\ Cardinality(d \cup a) = k + n
        <5>1. IsFiniteSet(d \cup a)
          BY <3>15, FS_Union
        <5>2. Cardinality(d \cup a) = Cardinality(d) + Cardinality(a) - Cardinality(d \cap a)
          BY <3>15, FS_Union
        <5>3. Cardinality(d \cap a) = 0
          BY <4>1, FS_EmptySet
        <5> QED
          BY <2>1, <3>12, <3>15, <5>1, <5>2, <5>3
      <4>3. next \notin d \cup a
        BY <3>3, <3>4, <3>11, <3>12 DEF Clear
      <4>4. Cardinality((d \cup a) \cup {next}) = k + n + 1
        BY <4>2, <4>3, FS_AddElement
      <4>5. (d \cup a) \cup {next} = {next} \cup d \cup a
        OBVIOUS
      <4> QED
        <5>1. Cardinality({next} \cup d \cup a) = k + n + 1
          BY <4>4, <4>5
        <5>2. k + n + 1 = 1 + k + n
          BY <2>1, <3>15
        <5> QED
          BY <5>1, <5>2
    <3>17. Count(<<hdr>> \o chain) = 1 + k + (n + 1)
      <4>1. Count(<<hdr>> \o chain) = 1 + k + Count(chain)
        BY <3>8, <3>9, <3>12, HeaderAdds
      <4> QED
        BY <3>11, <3>15, <4>1
    <3>18. Cardinality(Taken(<<hdr>> \o chain)) + 1 = Count(<<hdr>> \o chain)
      <4>1. (1 + k + n) + 1 = 1 + k + (n + 1)
        BY <2>1, <3>15
      <4> QED
        BY <3>13, <3>16, <3>17, <4>1
    <3>19. r.chain = <<hdr>> \o chain /\ r.map = rest \cup a
      BY <3>2, <3>4, <3>6, <3>8, <3>9, <3>11
    <3>20. Taken(r.chain) \cap map = {} /\ r.map = map \cup Taken(r.chain)
      <4>1. next \notin map /\ d \cap map = {} /\ a \cap map = {}
        BY <2>9, <3>3, <3>4, <3>11, <3>12 DEF Clear
      <4>2. rest \cup a = map \cup ({next} \cup d \cup a)
        BY <3>4, <3>12
      <4> QED
        BY <3>13, <3>19, <4>1, <4>2
    <3>21. Laid(<<hdr>> \o chain)
      <4>1. hdr.numBytes = MaxFileSize
        BY <2>11, <3>9, HeaderSizes
      <4>2. Once(hdr.dataSectors)
        BY <2>9, <3>9
      <4>3. DataOf(hdr) \cap Taken(chain) = {}
        BY <3>4, <3>10, <3>11, <3>12
      <4> QED
        BY <3>8, <3>11, <4>1, <4>2, <4>3, MoreLaid
    <3> QED
      BY <2>2, <3>13, <3>14, <3>18, <3>19, <3>20, <3>21 DEF Takes
  <2> QED
    BY <2>10, <2>11
<1>2. \A size \in Nat : (\A j \in 0 .. size - 1 : j \in T) => size \in T
  <2>1. ASSUME NEW size \in Nat, \A j \in 0 .. size - 1 : j \in T, NEW map \in SUBSET Sectors
        PROVE  Takes(map, size, Allocated[size][map])
    <3>1. CASE Allocated[size][map].ok
      BY <1>1, <2>1, <3>1
    <3>2. CASE ~ Allocated[size][map].ok
      BY <3>2 DEF Takes
    <3> QED
      BY <3>1, <3>2
  <2> QED
    BY <2>1
<1>3. \A size \in Nat : size \in T
  <2> HIDE DEF T
  <2> QED
    BY <1>2, AllNumbers
<1> QED
  BY <1>3 DEF Allocate

-----------------------------------------------------------------------------
(* FileHeader::FetchFrom.                                                  *)

\* The sector of the i-th header of a chain that starts in s, and a disk that
\* holds the chain there.
Home(chain, s, i) == IF i = 1 THEN s ELSE chain[i - 1].next
Stored(headers, s, chain) == \A i \in 1 .. Len(chain) : headers[Home(chain, s, i)] = chain[i]

FetchRow(g, n) == [t \in Sectors |-> IF header[t].next = NoSector \/ n = 0 THEN <<header[t]>>
                                     ELSE <<header[t]>> \o g[header[t].next]]
Fetches(f, m) == f = [n \in 0 .. m |-> FetchRow(f[n - 1], n)]

\* The first row needs no other.
LEMMA FetchFirst == \A g, h : FetchRow(g, 0) = FetchRow(h, 0)
BY DEF FetchRow

\* Each row is computed from the one before.
LEMMA FetchSteps ==
    ASSUME NEW f, NEW m \in Nat, Fetches(f, m)
    PROVE  \A n \in 0 .. m : f[n] = FetchRow(f[n - 1], n)
<1> DEFINE step(n) == FetchRow(f[n - 1], n)
<1>1. f = [n \in 0 .. m |-> step(n)]
  BY DEF Fetches
<1> HIDE DEF step
<1>2. \A n \in 0 .. m : f[n] = step(n)
  BY <1>1
<1> QED
  BY <1>2 DEF step

\* There are such rows for every bound.
LEMMA FetchesExist == \A m \in Nat : \E f : Fetches(f, m)
<1> DEFINE T == {m \in Nat : \E f : Fetches(f, m)}
<1>1. ASSUME NEW m \in Nat, \A j \in 0 .. m - 1 : j \in T PROVE \E f : Fetches(f, m)
  <2>1. CASE m = 0
    <3>1. PICK r : \A g : FetchRow(g, 0) = r
      BY FetchFirst
    <3> DEFINE f == [n \in 0 .. 0 |-> r]
    <3>2. f = [n \in 0 .. 0 |-> FetchRow(f[n - 1], n)]
      <4> HIDE DEF f
      <4>1. \A n \in 0 .. 0 : FetchRow(f[n - 1], n) = r
        BY <3>1
      <4> QED
        BY <4>1 DEF f
    <3>3. Fetches(f, 0)
      BY <3>2 DEF Fetches
    <3> QED
      BY <2>1, <3>3
  <2>2. CASE m > 0
    <3>1. PICK k \in Nat : k = m - 1 /\ k \in 0 .. m - 1 /\ m = k + 1
      BY <2>2
    <3>2. PICK f : Fetches(f, k)
      BY <1>1, <3>1
    <3> DEFINE g == [n \in 0 .. m |-> IF n = m THEN FetchRow(f[k], m) ELSE f[n]]
    <3>3. g = [n \in 0 .. m |-> g[n]]
      OBVIOUS
    <3>4. g[m] = FetchRow(f[k], m) /\ \A n \in 0 .. k : g[n] = f[n]
      BY <3>1
    <3> HIDE DEF g
    <3>5. ASSUME NEW n \in 0 .. m PROVE g[n] = FetchRow(g[n - 1], n)
      <4>1. CASE n = m
        <5>1. n - 1 = k /\ k \in 0 .. k
          BY <3>1, <4>1
        <5> QED
          BY <3>4, <4>1, <5>1
      <4>2. CASE n # m /\ n = 0
        <5>1. 0 \in 0 .. k
          BY <3>1
        <5>2. g[0] = FetchRow(f[0 - 1], 0)
          BY <3>2, <3>4, <5>1, FetchSteps
        <5> QED
          BY <4>2, <5>2, FetchFirst
      <4>3. CASE n # m /\ n # 0
        <5>1. n \in 0 .. k /\ n - 1 \in 0 .. k
          BY <3>1, <4>3
        <5>2. f[n] = FetchRow(f[n - 1], n)
          BY <3>2, <5>1, FetchSteps
        <5>3. g[n] = f[n] /\ g[n - 1] = f[n - 1]
          BY <3>4, <5>1
        <5> QED
          BY <5>2, <5>3
      <4> QED
        BY <4>1, <4>2, <4>3
    <3>6. Fetches(g, m)
      BY <3>3, <3>5 DEF Fetches
    <3> QED
      BY <3>6
  <2> QED
    BY <2>1, <2>2
<1>2. \A m \in Nat : (\A j \in 0 .. m - 1 : j \in T) => m \in T
  BY <1>1
<1>3. \A m \in Nat : m \in T
  <2> HIDE DEF T
  <2> QED
    BY <1>2, AllNumbers
<1> QED
  BY <1>3

\* What follows the first header of a chain is a chain, and stored when it is.
LEMMA RestOfChain ==
    ASSUME NEW chain, IsChain(chain), Len(chain) > 1,
           NEW headers, NEW s, Stored(headers, s, chain)
    PROVE  /\ IsChain(Tail(chain)) /\ Len(Tail(chain)) = Len(chain) - 1
           /\ chain = <<chain[1]>> \o Tail(chain)
           /\ chain[1].next \in Sectors /\ Stored(headers, chain[1].next, Tail(chain))
<1> DEFINE H == [numBytes : Nat, dataSectors : Seq(Sectors), next : Sectors \cup {NoSector}]
<1>1. PICK n \in Nat : n = Len(chain) /\ n > 1 /\ chain \in Seq(H)
  BY DEF IsChain
<1> HIDE DEF H
<1>2. PICK t \in Seq(H) : t = Tail(chain) /\ Len(t) = n - 1 /\ \A i \in 1 .. n - 1 : t[i] = chain[i + 1]
  <2>1. chain # << >>
    BY DEF IsChain
  <2>2. Tail(chain) \in Seq(H) /\ Len(Tail(chain)) = n - 1
    BY <1>1, <2>1, HeadTailProperties
  <2>3. \A i \in 1 .. n - 1 : Tail(chain)[i] = chain[i + 1]
    BY <1>1, <2>1, HeadTailProperties
  <2> QED
    BY <2>2, <2>3
<1>3. \A i \in 1 .. n - 1 : i + 1 \in 1 .. n /\ (i + 1) - 1 = i /\ i + 1 # 1
  BY <1>1
<1>4. chain[1].next \in Sectors
  <2>1. 1 \in 1 .. n - 1
    BY <1>1
  <2> QED
    BY <1>1, <2>1 DEF IsChain
<1>5. IsChain(t)
  <2>1. \A i \in 1 .. Len(t) : IsHeader(t[i])
    BY <1>1, <1>2, <1>3 DEF IsChain
  <2>2. \A i \in 1 .. Len(t) - 1 : t[i].next \in Sectors
    <3>1. ASSUME NEW i \in 1 .. Len(t) - 1 PROVE t[i].next \in Sectors
      <4>1. i \in 1 .. n - 1 /\ i + 1 \in 1 .. n - 1
        BY <1>1, <1>2
      <4> QED
        BY <1>1, <1>2, <4>1 DEF IsChain
    <3> QED
      BY <3>1
  <2>3. t[Len(t)].next = NoSector
    <3>1. n - 1 \in 1 .. n - 1 /\ (n - 1) + 1 = n
      BY <1>1
    <3> QED
      BY <1>1, <1>2, <3>1 DEF IsChain
  <2>4. t # << >>
    <3>1. n \in Nat /\ n > 1
      BY <1>1
    <3>2. n - 1 # 0
      BY <3>1
    <3>3. Len(t) = n - 1
      BY <1>2
    <3> QED
      BY <3>2, <3>3
  <2> QED
    BY <1>2, <2>1, <2>2, <2>3, <2>4 DEF IsChain, H
<1>6. chain = <<chain[1]>> \o t
  <2>1. chain # << >> /\ Head(chain) = chain[1]
    BY <1>1 DEF IsChain
  <2>2. chain = <<Head(chain)>> \o Tail(chain)
    BY <1>1, <2>1, HeadTailProperties
  <2> QED
    BY <1>2, <2>1, <2>2
<1>7. Stored(headers, chain[1].next, t)
  <2>1. ASSUME NEW i \in 1 .. Len(t) PROVE headers[Home(t, chain[1].next, i)] = t[i]
    <3>1. i \in 1 .. n - 1 /\ headers[Home(chain, s, i + 1)] = chain[i + 1]
      BY <1>1, <1>2, <1>3 DEF Stored
    <3>2. Home(chain, s, i + 1) = chain[i].next
      BY <1>3, <3>1 DEF Home
    <3>3. Home(t, chain[1].next, i) = chain[i].next
      <4>1. CASE i = 1
        BY <4>1 DEF Home
      <4>2. CASE i # 1
        <5>1. i - 1 \in 1 .. n - 1 /\ (i - 1) + 1 = i
          BY <3>1, <4>2
        <5>2. t[i - 1] = chain[i]
          BY <1>2, <5>1
        <5> QED
          BY <4>2, <5>2 DEF Home
      <4> QED
        BY <4>1, <4>2
    <3> QED
      BY <1>2, <3>1, <3>2, <3>3
  <2> QED
    BY <2>1 DEF Stored
<1> QED
  BY <1>1, <1>2, <1>4, <1>5, <1>6, <1>7

\* A chain that is stored is the one fetched, if it is no longer than the disk.
LEMMA FetchFromIs ==
    ASSUME NEW s \in Sectors, NEW chain, IsChain(chain), Stored(header, s, chain), Len(chain) <= NumSectors
    PROVE  FetchFrom(s) = chain
<1>1. PICK N \in Nat : N = NumSectors /\ N > 0
  BY DiskAssumption
<1> DEFINE F(f) == f = [n \in 0 .. NumSectors |->
                           [t \in Sectors |-> IF header[t].next = NoSector \/ n = 0 THEN <<header[t]>>
                                              ELSE <<header[t]>> \o f[n - 1][header[t].next]]]
<1>2. \A f : F(f) <=> Fetches(f, N)
  BY <1>1 DEF Fetches, FetchRow
<1> DEFINE c == CHOOSE f : F(f)
<1>3. FetchFrom(s) = c[NumSectors][s]
  BY DEF FetchFrom
<1>4. Fetches(c, N)
  <2>1. \E f : F(f)
    BY <1>1, <1>2, FetchesExist
  <2> HIDE DEF F
  <2>2. F(c)
    BY <2>1
  <2> QED
    BY <1>2, <2>2
<1> HIDE DEF F, c
<1> DEFINE T == {n \in Nat : n <= N =>
                    \A t \in Sectors : \A d : IsChain(d) /\ Stored(header, t, d) /\ Len(d) <= n + 1 => c[n][t] = d}
<1>5. ASSUME NEW n \in Nat, \A j \in 0 .. n - 1 : j \in T, n <= N,
             NEW t \in Sectors, NEW d, IsChain(d), Stored(header, t, d), Len(d) <= n + 1
      PROVE  c[n][t] = d
  <2>1. PICK l \in Nat : l = Len(d) /\ l >= 1
    BY <1>5 DEF IsChain
  <2>2. header[t] = d[1]
    <3>1. 1 \in 1 .. l /\ Home(d, t, 1) = t
      BY <2>1 DEF Home
    <3> QED
      BY <1>5, <2>1, <3>1 DEF Stored
  <2>3. c[n] = FetchRow(c[n - 1], n)
    <3>1. n \in 0 .. N
      BY <1>5
    <3> QED
      BY <1>4, <3>1, FetchSteps
  <2>4. c[n][t] = IF d[1].next = NoSector \/ n = 0 THEN <<d[1]>> ELSE <<d[1]>> \o c[n - 1][d[1].next]
    BY <2>2, <2>3 DEF FetchRow
  <2>5. CASE l = 1
    <3>1. d[1].next = NoSector
      BY <1>5, <2>1, <2>5 DEF IsChain
    <3>2. d = <<d[1]>>
      <4>1. PICK e : e = d[1]
        OBVIOUS
      <4> DEFINE H == [numBytes : Nat, dataSectors : Seq(Sectors), next : Sectors \cup {NoSector}]
      <4>2. d \in Seq(H) /\ Len(d) = 1
        BY <1>5, <2>1, <2>5 DEF IsChain
      <4> HIDE DEF H
      <4>3. e \in H
        BY <4>1, <4>2
      <4>4. <<e>> \in Seq(H) /\ Len(<<e>>) = 1 /\ <<e>>[1] = e
        BY <4>3
      <4>5. \A i \in 1 .. Len(d) : d[i] = <<e>>[i]
        BY <4>1, <4>2, <4>4
      <4>6. d = <<e>>
        BY <4>2, <4>4, <4>5, SeqEqual
      <4> QED
        BY <4>1, <4>6
    <3> QED
      BY <2>4, <3>1, <3>2
  <2>6. CASE l # 1
    <3>1. l > 1 /\ n > 0 /\ n - 1 \in 0 .. n - 1 /\ n - 1 <= N /\ n - 1 \in Nat
      BY <1>5, <2>1, <2>6
    <3>2. PICK e, v : e = Tail(d) /\ v = d[1].next /\ IsChain(e) /\ Len(e) = l - 1
                      /\ d = <<d[1]>> \o e /\ v \in Sectors /\ Stored(header, v, e)
      BY <1>5, <2>1, <3>1, RestOfChain
    <3>3. Len(e) <= (n - 1) + 1
      BY <1>5, <2>1, <3>2
    <3>4. c[n - 1][v] = e
      <4>1. n - 1 \in T
        BY <1>5, <3>1
      <4>2. \A u \in Sectors : \A b : IsChain(b) /\ Stored(header, u, b) /\ Len(b) <= (n - 1) + 1 => c[n - 1][u] = b
        BY <3>1, <4>1
      <4> QED
        BY <3>2, <3>3, <4>2
    <3>5. v # NoSector
      <4>1. v \in Sectors
        BY <3>2
      <4> QED
        BY <4>1, DiskAssumption DEF Sectors, NoSector
    <3>6. ~ (d[1].next = NoSector \/ n = 0)
      <4>1. n # 0
        BY <3>1
      <4>2. d[1].next = v
        BY <3>2
      <4> QED
        BY <3>5, <4>1, <4>2
    <3>7. c[n][t] = <<d[1]>> \o c[n - 1][d[1].next]
      BY <2>4, <3>6
    <3>8. c[n][t] = <<d[1]>> \o e
      BY <3>2, <3>4, <3>7
    <3> QED
      BY <3>2, <3>8
  <2> QED
    BY <2>5, <2>6
<1>6. \A n \in Nat : n \in T
  <2>1. \A n \in Nat : (\A j \in 0 .. n - 1 : j \in T) => n \in T
    BY <1>5
  <2> HIDE DEF T
  <2> QED
    BY <2>1, AllNumbers
<1>7. Len(chain) <= N + 1
  BY <1>1 DEF IsChain
<1>8. c[N][s] = chain
  BY <1>6, <1>7
<1> QED
  BY <1>1, <1>3, <1>8

-----------------------------------------------------------------------------
(* Who owns which sectors of a disk.                                       *)

Owned(s, chain) == {s} \cup Taken(chain)
\* The chain of headers that starts in s is on the disk, its sectors are marked,
\* and it has as many as it has places for them.
Holds(map, headers, s, chain) ==
    /\ IsChain(chain) /\ Laid(chain) /\ Stored(headers, s, chain)
    /\ Owned(s, chain) \subseteq map
    /\ Cardinality(Owned(s, chain)) = Count(chain)
\* Each sector in `owners` starts a chain of its own.
Own(map, headers, owners, chain) ==
    /\ owners \subseteq map /\ map \subseteq Sectors
    /\ \A o \in owners : Holds(map, headers, o, chain[o])
    /\ \A o, p \in owners : o # p => Owned(o, chain[o]) \cap Owned(p, chain[p]) = {}

\* What an owner's headers and sectors are, its own state only decides.
LEMMA OwnStill ==
    ASSUME NEW map, NEW headers, NEW owners, NEW chain, Own(map, headers, owners, chain),
           NEW map2 \in SUBSET Sectors, NEW headers2, NEW owners2 \in SUBSET owners,
           \A o \in owners2 : /\ Owned(o, chain[o]) \subseteq map2
                              /\ \A t \in Owned(o, chain[o]) : headers2[t] = headers[t]
    PROVE  Own(map2, headers2, owners2, chain)
<1>1. ASSUME NEW o \in owners2 PROVE Holds(map2, headers2, o, chain[o]) /\ o \in map2
  <2>1. Holds(map, headers, o, chain[o])
    BY DEF Own
  <2>2. PICK c : c = chain[o]
    OBVIOUS
  <2>3. ASSUME NEW i \in 1 .. Len(c) PROVE headers2[Home(c, o, i)] = c[i]
    <3>1. PICK n \in Nat : n = Len(c)
      BY <2>1, <2>2 DEF Holds, IsChain
    <3>2. Home(c, o, i) \in Owned(o, c)
      <4>1. CASE i = 1
        BY <4>1 DEF Home, Owned
      <4>2. CASE i # 1
        <5>1. i - 1 \in 1 .. Len(c) - 1
          BY <3>1, <4>2
        <5> QED
          BY <4>2, <5>1 DEF Home, Owned, Taken
      <4> QED
        BY <4>1, <4>2
    <3>3. headers2[Home(c, o, i)] = headers[Home(c, o, i)]
      BY <2>2, <3>2
    <3>4. headers[Home(c, o, i)] = c[i]
      BY <2>1, <2>2 DEF Holds, Stored
    <3> QED
      BY <3>3, <3>4
  <2>4. Stored(headers2, o, c)
    BY <2>3 DEF Stored
  <2>5. Owned(o, c) \subseteq map2 /\ o \in map2
    BY <2>2 DEF Owned
  <2> QED
    BY <2>1, <2>2, <2>4, <2>5 DEF Holds
<1>2. \A o, p \in owners2 : o # p => Owned(o, chain[o]) \cap Owned(p, chain[p]) = {}
  BY DEF Own
<1> QED
  BY <1>1, <1>2 DEF Own

\* The headers after a chain is written to s.
Put(headers, s, chain) ==
    [t \in Sectors |-> IF \E i \in 1 .. Len(chain) : Home(chain, s, i) = t
                         THEN chain[CHOOSE i \in 1 .. Len(chain) : Home(chain, s, i) = t]
                         ELSE headers[t]]
\* A chain whose sectors are clear, but for that of its first header.
Fresh(map, s, chain) ==
    /\ map \subseteq Sectors /\ s \in Sectors \ map
    /\ IsChain(chain) /\ NextsDiffer(chain) /\ Laid(chain)
    /\ Taken(chain) \subseteq Sectors /\ Taken(chain) \cap (map \cup {s}) = {}
    /\ Cardinality(Taken(chain)) + 1 = Count(chain)

\* Its headers are in different sectors, all its own.
LEMMA HomesDiffer ==
    ASSUME NEW map, NEW s, NEW chain, Fresh(map, s, chain)
    PROVE  \A i, j \in 1 .. Len(chain) :
               /\ Home(chain, s, i) \in Owned(s, chain)
               /\ Home(chain, s, i) = Home(chain, s, j) => i = j
<1>1. PICK n \in Nat : n = Len(chain)
  BY DEF Fresh, IsChain
<1>2. \A i \in 1 .. n : i # 1 => i - 1 \in 1 .. Len(chain) - 1
  BY <1>1
<1>3. \A i \in 1 .. n : i # 1 => chain[i - 1].next \in Taken(chain) /\ Home(chain, s, i) = chain[i - 1].next
  BY <1>2 DEF Taken, Home
<1>4. \A i \in 1 .. n : i = 1 => Home(chain, s, i) = s
  BY DEF Home
<1>5. s \notin Taken(chain)
  BY DEF Fresh
<1>6. ASSUME NEW i \in 1 .. n, NEW j \in 1 .. n, Home(chain, s, i) = Home(chain, s, j) PROVE i = j
  <2>1. CASE i = 1 \/ j = 1
    BY <1>3, <1>4, <1>5, <1>6, <2>1
  <2>2. CASE i # 1 /\ j # 1
    <3>1. chain[i - 1].next = chain[j - 1].next
      BY <1>3, <1>6, <2>2
    <3>2. i - 1 = j - 1
      BY <1>2, <2>2, <3>1 DEF Fresh, NextsDiffer
    <3> QED
      BY <3>2
  <2> QED
    BY <2>1, <2>2
<1> QED
  BY <1>1, <1>3, <1>4, <1>6 DEF Owned

\* Once it is written the chain is there, and the marked sectors are as before.
LEMMA PutStores ==
    ASSUME NEW map, NEW headers, NEW s, NEW chain, Fresh(map, s, chain)
    PROVE  /\ Stored(Put(headers, s, chain), s, chain)
           /\ \A t \in map : Put(headers, s, chain)[t] = headers[t]
<1>1. ASSUME NEW i \in 1 .. Len(chain)
      PROVE  Put(headers, s, chain)[Home(chain, s, i)] = chain[i]
  <2>1. PICK t : t = Home(chain, s, i)
    OBVIOUS
  <2>2. t \in Sectors
    BY <2>1, HomesDiffer DEF Owned, Fresh
  <2>3. (CHOOSE j \in 1 .. Len(chain) : Home(chain, s, j) = t) = i
    BY <2>1, HomesDiffer
  <2>4. Put(headers, s, chain)[t] = chain[CHOOSE j \in 1 .. Len(chain) : Home(chain, s, j) = t]
    BY <2>1, <2>2 DEF Put
  <2> QED
    BY <2>1, <2>3, <2>4
<1>2. ASSUME NEW t \in map PROVE Put(headers, s, chain)[t] = headers[t]
  <2>1. t \in Sectors /\ t \notin Owned(s, chain)
    BY DEF Fresh, Owned
  <2>2. ~ \E i \in 1 .. Len(chain) : Home(chain, s, i) = t
    BY <2>1, HomesDiffer
  <2> QED
    BY <2>1, <2>2 DEF Put
<1> QED
  BY <1>1, <1>2 DEF Stored

\* The new chain's first sector is an owner like the others.
LEMMA NewOwner ==
    ASSUME NEW map, NEW headers, NEW owners, NEW chain, Own(map, headers, owners, chain),
           NEW s, NEW c, Fresh(map, s, c),
           NEW headers2, \A t \in map : headers2[t] = headers[t], Stored(headers2, s, c),
           NEW chain2, chain2[s] = c, \A o \in owners : chain2[o] = chain[o]
    PROVE  Own(map \cup Owned(s, c), headers2, owners \cup {s}, chain2) /\ s \notin owners
<1>1. PICK map2 : map2 = map \cup Owned(s, c)
  OBVIOUS
<1>2. map2 \in SUBSET Sectors /\ s \in map2
  BY <1>1 DEF Fresh, Owned
<1>3. Own(map2, headers2, owners, chain)
  <2>1. \A o \in owners : Owned(o, chain[o]) \subseteq map
    BY DEF Own, Holds
  <2> QED
    BY <1>1, <1>2, <2>1, OwnStill
<1>4. Cardinality(Owned(s, c)) = Count(c)
  <2>1. IsFiniteSet(Taken(c)) /\ s \notin Taken(c)
    <3>1. Taken(c) \subseteq Clear({})
      BY DEF Fresh, Clear
    <3> QED
      BY <3>1, ClearFinite DEF Fresh
  <2>2. Cardinality(Taken(c) \cup {s}) = Cardinality(Taken(c)) + 1
    BY <2>1, FS_AddElement
  <2>3. Owned(s, c) = Taken(c) \cup {s}
    BY DEF Owned
  <2> QED
    BY <2>2, <2>3 DEF Fresh
<1>5. Holds(map2, headers2, s, c)
  BY <1>1, <1>4 DEF Holds, Fresh
<1>6. s \notin owners
  BY DEF Own, Fresh
<1>7. \A o \in owners : Owned(o, chain[o]) \cap Owned(s, c) = {}
  <2>1. \A o \in owners : Owned(o, chain[o]) \subseteq map
    BY DEF Own, Holds
  <2>2. Owned(s, c) \cap map = {}
    BY DEF Fresh, Owned
  <2> QED
    BY <2>1, <2>2
<1>8. \A o \in owners \cup {s} : Holds(map2, headers2, o, chain2[o])
  BY <1>3, <1>5, <1>6 DEF Own
<1>9. \A o, p \in owners \cup {s} : o # p => Owned(o, chain2[o]) \cap Owned(p, chain2[p]) = {}
  <2>1. ASSUME NEW o \in owners \cup {s}, NEW p \in owners \cup {s}, o # p
        PROVE  Owned(o, chain2[o]) \cap Owned(p, chain2[p]) = {}
    <3>1. CASE o = s
      <4>1. p \in owners
        BY <2>1, <3>1
      <4>2. Owned(o, chain2[o]) = Owned(s, c) /\ Owned(p, chain2[p]) = Owned(p, chain[p])
        BY <3>1, <4>1
      <4> QED
        BY <1>7, <4>1, <4>2
    <3>2. CASE p = s
      <4>1. o \in owners
        BY <2>1, <3>2
      <4>2. Owned(p, chain2[p]) = Owned(s, c) /\ Owned(o, chain2[o]) = Owned(o, chain[o])
        BY <3>2, <4>1
      <4> QED
        BY <1>7, <4>1, <4>2
    <3>3. CASE o # s /\ p # s
      <4>1. o \in owners /\ p \in owners
        BY <3>3
      <4>2. Owned(p, chain2[p]) = Owned(p, chain[p]) /\ Owned(o, chain2[o]) = Owned(o, chain[o])
        BY <4>1
      <4> QED
        BY <2>1, <4>1, <4>2 DEF Own
    <3> QED
      BY <3>1, <3>2, <3>3
  <2> QED
    BY <2>1
<1>10. owners \cup {s} \subseteq map2 /\ map2 \subseteq Sectors
  BY <1>1, <1>2 DEF Own
<1> QED
  BY <1>1, <1>6, <1>8, <1>9, <1>10 DEF Own

\* What FetchFrom finds in an owner's sector is its chain.
LEMMA FetchedNow ==
    ASSUME NEW map, NEW owners, NEW chain, Own(map, header, owners, chain), NEW o \in owners
    PROVE  FetchFrom(o) = chain[o]
<1>1. PICK c : c = chain[o] /\ Holds(map, header, o, c)
  BY DEF Own
<1>2. PICK n \in Nat, m \in Nat : n = Count(c) /\ m = Len(c) /\ m <= n
  BY <1>1, CountAtLeast DEF Holds
<1>3. Cardinality(Owned(o, c)) <= NumSectors
  <2>1. Owned(o, c) \subseteq Sectors
    BY <1>1 DEF Own, Holds
  <2>2. IsFiniteSet(Sectors) /\ Cardinality(Sectors) = NumSectors
    <3>1. PICK N \in Nat : N = NumSectors /\ N > 0
      BY DiskAssumption
    <3>2. IsFiniteSet(0 .. N - 1) /\ Cardinality(0 .. N - 1) = N
      BY <3>1, FS_Interval
    <3> QED
      BY <3>1, <3>2 DEF Sectors
  <2> QED
    BY <2>1, <2>2, FS_Subset
<1>4. Len(c) <= NumSectors
  BY <1>1, <1>2, <1>3, DiskAssumption DEF Holds
<1>5. o \in Sectors
  BY DEF Own
<1> QED
  BY <1>1, <1>4, <1>5, FetchFromIs DEF Holds

\* What an owner's header leads to is its chain.
LEMMA OwnedNow ==
    ASSUME NEW owners, NEW chain, Own(marked, header, owners, chain), NEW o \in owners
    PROVE  /\ FetchFrom(o) = chain[o]
           /\ ChainSectors(o) = Owned(o, chain[o]) /\ ChainSectors(o) \subseteq marked
           /\ Cardinality(ChainSectors(o)) = NumOwned(o)
<1>1. PICK c : c = chain[o] /\ Holds(marked, header, o, c)
  BY DEF Own
<1>2. FetchFrom(o) = c
  BY <1>1, FetchedNow
<1>3. ChainSectors(o) = Owned(o, c)
  BY <1>2 DEF ChainSectors, Owned, Taken
<1>4. NumOwned(o) = Count(c)
  BY <1>2 DEF NumOwned, Count, Blocks
<1> QED
  BY <1>1, <1>2, <1>3, <1>4 DEF Holds

-----------------------------------------------------------------------------
(* What the writes of a call lead to.                                      *)

MapWrites(ws) == {i \in 1 .. Len(ws) : ws[i].to = "map"}
HeaderWrites(ws, s) == {i \in 1 .. Len(ws) : ws[i].to = "header" /\ ws[i].sector = s}
TableWrites(ws, s) == {i \in 1 .. Len(ws) : ws[i].to = "table" /\ ws[i].sector = s}

\* Something that is now so will be so after the writes numbered in I.
Settles(ws, I, now, then) == /\ \A i \in I : ws[i].value = then
                             /\ I = {} => now = then
\* From the disk as it is, the writes lead to that free map, those headers and tables.
Leads(ws, m, h, t, map, headers, tables) ==
    /\ Settles(ws, MapWrites(ws), m, map)
    /\ \A s \in Sectors : /\ Settles(ws, HeaderWrites(ws, s), h[s], headers[s])
                          /\ Settles(ws, TableWrites(ws, s), t[s], tables[s])

\* The numbers of the writes that are left, after one.
Later(I, n) == {i \in 1 .. n : i + 1 \in I}
\* What the last write to a place leaves there is the same after the first write is done.
LEMMA SettlesLater ==
    ASSUME NEW ws \in Seq(Writes), ws # << >>, NEW I \in SUBSET (1 .. Len(ws)), NEW now, NEW then,
           Settles(ws, I, now, then)
    PROVE  Settles(Tail(ws), Later(I, Len(ws) - 1), IF 1 \in I THEN Head(ws).value ELSE now, then)
<1>1. PICK n \in Nat : n = Len(ws) /\ n >= 1
  BY EmptySeq
<1>2. \A i \in 1 .. n - 1 : Tail(ws)[i] = ws[i + 1]
  BY <1>1, HeadTailProperties
<1>3. Head(ws) = ws[1]
  BY HeadTailProperties
<1>4. \A i \in Later(I, n - 1) : Tail(ws)[i].value = then
  BY <1>1, <1>2 DEF Settles, Later
<1>5. ASSUME Later(I, n - 1) = {} PROVE (IF 1 \in I THEN Head(ws).value ELSE now) = then
  <2>1. \A i \in I : i = 1
    <3>1. ASSUME NEW i \in I, i # 1 PROVE FALSE
      <4>1. i \in 1 .. n
        BY <1>1
      <4>2. i - 1 \in 1 .. n - 1 /\ (i - 1) + 1 = i
        BY <1>1, <3>1, <4>1
      <4>3. i - 1 \in Later(I, n - 1)
        BY <4>2 DEF Later
      <4> QED
        BY <1>5, <4>3
    <3> QED
      BY <3>1
  <2>2. CASE 1 \in I
    BY <1>3, <2>2 DEF Settles
  <2>3. CASE 1 \notin I
    BY <2>1, <2>3 DEF Settles
  <2> QED
    BY <2>2, <2>3
<1> QED
  BY <1>1, <1>4, <1>5 DEF Settles

\* Each of the kinds of writes, after one.
LEMMA WritesLater ==
    ASSUME NEW ws \in Seq(Writes), ws # << >>
    PROVE  /\ Len(Tail(ws)) = Len(ws) - 1 /\ Tail(ws) \in Seq(Writes)
           /\ MapWrites(Tail(ws)) = Later(MapWrites(ws), Len(ws) - 1)
           /\ 1 \in MapWrites(ws) <=> Head(ws).to = "map"
           /\ \A s : /\ HeaderWrites(Tail(ws), s) = Later(HeaderWrites(ws, s), Len(ws) - 1)
                     /\ TableWrites(Tail(ws), s) = Later(TableWrites(ws, s), Len(ws) - 1)
                     /\ 1 \in HeaderWrites(ws, s) <=> Head(ws).to = "header" /\ Head(ws).sector = s
                     /\ 1 \in TableWrites(ws, s) <=> Head(ws).to = "table" /\ Head(ws).sector = s
<1>1. PICK n \in Nat : n = Len(ws) /\ n >= 1
  BY EmptySeq
<1>2. PICK v : v = Tail(ws) /\ Len(v) = n - 1 /\ \A i \in 1 .. n - 1 : v[i] = ws[i + 1]
  <2>1. Len(Tail(ws)) = n - 1
    BY <1>1, HeadTailProperties
  <2>2. \A i \in 1 .. n - 1 : Tail(ws)[i] = ws[i + 1]
    BY <1>1, HeadTailProperties
  <2> QED
    BY <2>1, <2>2
<1>3. Head(ws) = ws[1] /\ 1 \in 1 .. n /\ \A i \in 1 .. n - 1 : i + 1 \in 1 .. n
  BY <1>1, HeadTailProperties
<1>4. MapWrites(v) = Later(MapWrites(ws), n - 1)
  BY <1>1, <1>2, <1>3 DEF MapWrites, Later
<1>5. ASSUME NEW s PROVE /\ HeaderWrites(v, s) = Later(HeaderWrites(ws, s), n - 1)
                         /\ TableWrites(v, s) = Later(TableWrites(ws, s), n - 1)
  BY <1>1, <1>2, <1>3 DEF HeaderWrites, TableWrites, Later
<1>6. 1 \in MapWrites(ws) <=> Head(ws).to = "map"
  BY <1>1, <1>3 DEF MapWrites
<1>7. ASSUME NEW s PROVE /\ 1 \in HeaderWrites(ws, s) <=> Head(ws).to = "header" /\ Head(ws).sector = s
                         /\ 1 \in TableWrites(ws, s) <=> Head(ws).to = "table" /\ Head(ws).sector = s
  BY <1>1, <1>3 DEF HeaderWrites, TableWrites
<1>8. Tail(ws) \in Seq(Writes)
  BY HeadTailProperties
<1> QED
  BY <1>1, <1>2, <1>4, <1>5, <1>6, <1>7, <1>8

\* A write leads on to where the writes led before it.
LEMMA WriteLeads ==
    ASSUME Types, WriteNext, NEW map, NEW headers, NEW tables,
           Leads(writes, marked, header, table, map, headers, tables)
    PROVE  Leads(writes', marked', header', table', map, headers, tables)
<1>1. writes \in Seq(Writes) /\ writes # << >> /\ writes' = Tail(writes)
  BY DEF Types, CallTypes, WriteNext
<1>2. PICK w \in Writes : w = Head(writes)
  BY <1>1, HeadTailProperties
<1>3. /\ marked' = IF w.to = "map" THEN w.value ELSE marked
      /\ header' = IF w.to = "header" THEN [header EXCEPT ![w.sector] = w.value] ELSE header
      /\ table' = IF w.to = "table" THEN [table EXCEPT ![w.sector] = w.value] ELSE table
  BY <1>2 DEF WriteNext
<1>4. header \in [Sectors -> FileHeaders] /\ table \in [Sectors -> Tables]
  BY DEF Types, DiskTypes
<1>5. PICK n : n = Len(writes) - 1
  OBVIOUS
<1>6. Settles(writes', MapWrites(writes'), marked', map)
  <2>1. Settles(Tail(writes), Later(MapWrites(writes), n), IF 1 \in MapWrites(writes) THEN w.value ELSE marked, map)
    <3>1. MapWrites(writes) \in SUBSET (1 .. Len(writes))
      BY DEF MapWrites
    <3> QED
      BY <1>1, <1>2, <1>5, <3>1, SettlesLater DEF Leads
  <2>2. (IF 1 \in MapWrites(writes) THEN w.value ELSE marked) = marked'
    BY <1>1, <1>2, <1>3, WritesLater
  <2>3. Later(MapWrites(writes), n) = MapWrites(Tail(writes))
    BY <1>1, <1>5, WritesLater
  <2> QED
    BY <1>1, <2>1, <2>2, <2>3
<1>7. ASSUME NEW s \in Sectors PROVE Settles(writes', HeaderWrites(writes', s), header'[s], headers[s])
  <2>1. Settles(Tail(writes), Later(HeaderWrites(writes, s), n),
                IF 1 \in HeaderWrites(writes, s) THEN w.value ELSE header[s], headers[s])
    <3>1. HeaderWrites(writes, s) \in SUBSET (1 .. Len(writes))
      BY DEF HeaderWrites
    <3> QED
      BY <1>1, <1>2, <1>5, <3>1, SettlesLater DEF Leads
  <2>2. 1 \in HeaderWrites(writes, s) <=> w.to = "header" /\ w.sector = s
    BY <1>1, <1>2, WritesLater
  <2>3. (IF 1 \in HeaderWrites(writes, s) THEN w.value ELSE header[s]) = header'[s]
    BY <1>3, <1>4, <2>2
  <2>4. Later(HeaderWrites(writes, s), n) = HeaderWrites(Tail(writes), s)
    BY <1>1, <1>5, WritesLater
  <2> QED
    BY <1>1, <2>1, <2>3, <2>4
<1>8. ASSUME NEW s \in Sectors PROVE Settles(writes', TableWrites(writes', s), table'[s], tables[s])
  <2>1. Settles(Tail(writes), Later(TableWrites(writes, s), n),
                IF 1 \in TableWrites(writes, s) THEN w.value ELSE table[s], tables[s])
    <3>1. TableWrites(writes, s) \in SUBSET (1 .. Len(writes))
      BY DEF TableWrites
    <3> QED
      BY <1>1, <1>2, <1>5, <3>1, SettlesLater DEF Leads
  <2>2. 1 \in TableWrites(writes, s) <=> w.to = "table" /\ w.sector = s
    BY <1>1, <1>2, WritesLater
  <2>3. (IF 1 \in TableWrites(writes, s) THEN w.value ELSE table[s]) = table'[s]
    BY <1>3, <1>4, <2>2
  <2>4. Later(TableWrites(writes, s), n) = TableWrites(Tail(writes), s)
    BY <1>1, <1>5, WritesLater
  <2> QED
    BY <1>1, <2>1, <2>3, <2>4
<1> QED
  BY <1>6, <1>7, <1>8 DEF Leads

\* Once there are none left, the disk is what they led to.
LEMMA WritesLed ==
    ASSUME NEW m, NEW h, NEW t, NEW map, NEW headers, NEW tables,
           Leads(<< >>, m, h, t, map, headers, tables)
    PROVE  m = map /\ \A s \in Sectors : h[s] = headers[s] /\ t[s] = tables[s]
<1>1. 1 .. Len(<< >>) = {}
  OBVIOUS
<1>2. MapWrites(<< >>) = {} /\ \A s : HeaderWrites(<< >>, s) = {} /\ TableWrites(<< >>, s) = {}
  BY <1>1 DEF MapWrites, HeaderWrites, TableWrites
<1> QED
  BY <1>2 DEF Leads, Settles

-----------------------------------------------------------------------------
(* What the calls write.                                                   *)

\* The first clear sector is the least.
LEMMA FirstClear ==
    ASSUME NEW map, Clear(map) # {}
    PROVE  NthClear(map, 1) \in Clear(map) /\ \A u \in Clear(map) : NthClear(map, 1) <= u
<1>1. Cardinality(Clear(map)) \in Nat /\ Cardinality(Clear(map)) # 0
  BY ClearFinite, FS_EmptySet
<1>2. 1 \in 1 .. Cardinality(Clear(map))
  BY <1>1
<1>3. PICK s : s = NthClear(map, 1) /\ s \in Clear(map) /\ Cardinality(Below(map, s)) = 1 - 1
  BY <1>2, NthClearIs
<1>4. Below(map, s) = {}
  <2>1. IsFiniteSet(Below(map, s))
    BY ClearFinite DEF Below
  <2>2. Cardinality(Below(map, s)) = 0
    BY <1>3
  <2> QED
    BY <2>1, <2>2, FS_EmptySet
<1>5. ASSUME NEW u \in Clear(map) PROVE s <= u
  <2>1. ~ (u < s)
    BY <1>4 DEF Below
  <2>2. s \in Int /\ u \in Int
    BY <1>3, DiskAssumption DEF Clear, Sectors
  <2> QED
    BY <2>1, <2>2
<1> QED
  BY <1>3, <1>5

\* What a call that creates a file or a directory has found, and what it will change.
Made(new, path, size, isDir) ==
    /\ new.dir = GetDirSector(Parent(path)) /\ Find(new.dir, Last(path)) = {}
    /\ new.entries = table[new.dir] \cup {[name |-> Last(path), sector |-> new.sector, isDir |-> isDir]}
    /\ Fresh(marked, new.sector, new.chain)
    /\ \A u \in Clear(marked) : new.sector <= u
    /\ new.map = marked \cup Owned(new.sector, new.chain)
    /\ FileLength(new.chain) = size
\* When NewFile succeeds, this is what it has computed.
LEMMA NewFileMade ==
    ASSUME DiskTypes, NEW path \in Paths, NEW size \in Nat, NEW isDir \in BOOLEAN,
           IsDirectory(Parent(path)), NewFile(path, size, isDir).ok
    PROVE  Made(NewFile(path, size, isDir), path, size, isDir)
<1>1. PICK dir : dir = GetDirSector(Parent(path))
  OBVIOUS
<1>2. PICK sector, added, file, map :
          /\ sector = NthClear(marked, 1) /\ map = FindAndSet(marked)
          /\ added = Add(dir, Last(path), sector, isDir)
          /\ file = Allocate(map, size)
  OBVIOUS
<1>3. PICK new : new = NewFile(path, size, isDir) /\ new.ok
  OBVIOUS
<1>4. new = IF Clear(marked) = {} THEN Failed
            ELSE IF ~ added.ok THEN Failed
            ELSE IF ~ file.ok THEN Failed
            ELSE [ok |-> TRUE, dir |-> dir, sector |-> sector, entries |-> added.entries,
                  map |-> file.map, chain |-> file.chain]
  BY <1>1, <1>2, <1>3 DEF NewFile
<1>5. ~ Failed.ok
  BY DEF Failed
<1>6. Clear(marked) # {} /\ added.ok /\ file.ok
  BY <1>3, <1>4, <1>5
<1>7. new = [ok |-> TRUE, dir |-> dir, sector |-> sector, entries |-> added.entries,
             map |-> file.map, chain |-> file.chain]
  BY <1>4, <1>6
<1>8. /\ new.dir = dir /\ new.sector = sector /\ new.entries = added.entries
      /\ new.map = file.map /\ new.chain = file.chain
  BY <1>7
<1>9. marked \in SUBSET Sectors
  BY DEF DiskTypes
<1>10. sector \in Clear(marked) /\ \A u \in Clear(marked) : sector <= u
  BY <1>2, <1>6, FirstClear
<1>11. map = marked \cup {sector} /\ map \in SUBSET Sectors /\ sector \in Sectors \ marked
  BY <1>2, <1>9, <1>10 DEF FindAndSet, Clear
<1>12. Allocates(map, size, file) /\ Takes(map, size, file)
  BY <1>2, <1>11, AllocateIs, AllocateTakes
<1>13. Fresh(marked, sector, file.chain)
  <2>1. Taken(file.chain) \subseteq Sectors
    BY <1>6, <1>12 DEF Allocates, Takes
  <2> QED
    BY <1>6, <1>9, <1>11, <1>12, <2>1 DEF Fresh, Allocates, Takes
<1>14. file.map = marked \cup Owned(sector, file.chain) /\ FileLength(file.chain) = size
  BY <1>6, <1>11, <1>12 DEF Takes, Owned
<1>15. added.entries = table[dir] \cup {[name |-> Last(path), sector |-> sector, isDir |-> isDir]}
       /\ Find(dir, Last(path)) = {}
  BY <1>2, <1>6 DEF Add
<1> QED
  BY <1>1, <1>3, <1>8, <1>10, <1>13, <1>14, <1>15 DEF Made

\* The writes of Create: headers, then a table, then the free map.
LEMMA CreateWritesAre ==
    ASSUME NEW new, IsNewFile(new), NEW n \in Nat, n = Len(new.chain)
    PROVE  /\ CreateWrites(new) \in Seq(Writes) /\ Len(CreateWrites(new)) = n + 2
           /\ \A i \in 1 .. n :
                 CreateWrites(new)[i] = HeaderWrite(Home(new.chain, new.sector, i), new.chain[i])
           /\ CreateWrites(new)[n + 1] = TableWrite(new.dir, new.entries)
           /\ CreateWrites(new)[n + 2] = MapWrite(new.map)
<1>1. PICK a \in Seq(Writes) : a = WriteBack(new.chain, new.sector)
  BY WriteBackIs DEF IsNewFile
<1>2. PICK v \in Writes, w \in Writes : v = TableWrite(new.dir, new.entries) /\ w = MapWrite(new.map)
  BY MakesWrites DEF IsNewFile
<1>3. a = [i \in 1 .. n |-> HeaderWrite(Home(new.chain, new.sector, i), new.chain[i])]
  BY <1>1 DEF WriteBack, Home
<1>4. Len(a) = n /\ \A i \in 1 .. n : a[i] = HeaderWrite(Home(new.chain, new.sector, i), new.chain[i])
  BY <1>3
<1>5. PICK b \in Seq(Writes) : b = <<v, w>> /\ Len(b) = 2 /\ b[1] = v /\ b[2] = w
  <2>1. <<v, w>> \in Seq(Writes) /\ Len(<<v, w>>) = 2 /\ <<v, w>>[1] = v /\ <<v, w>>[2] = w
    OBVIOUS
  <2> QED
    BY <2>1
<1>6. /\ a \o b \in Seq(Writes) /\ Len(a \o b) = n + 2
      /\ \A i \in 1 .. n : (a \o b)[i] = a[i]
      /\ (a \o b)[n + 1] = v /\ (a \o b)[n + 2] = w
  <2>1. n \in Nat /\ Len(a) = n /\ Len(b) = 2
    BY <1>4, <1>5
  <2>2. PICK c : c = a \o b
    OBVIOUS
  <2>3. /\ c \in Seq(Writes) /\ Len(c) = Len(a) + Len(b)
        /\ \A i \in 1 .. Len(a) + Len(b) : c[i] = IF i <= Len(a) THEN a[i] ELSE b[i - Len(a)]
    BY <2>2, ConcatProperties
  <2>4. \A i \in 1 .. n + 2 : c[i] = IF i <= n THEN a[i] ELSE b[i - n]
    BY <2>1, <2>3
  <2>5. \A i \in 1 .. n : c[i] = a[i]
    BY <2>1, <2>4
  <2>6. c[n + 1] = b[1] /\ c[n + 2] = b[2]
    <3>1. /\ n + 1 \in 1 .. n + 2 /\ ~ (n + 1 <= n) /\ (n + 1) - n = 1
          /\ n + 2 \in 1 .. n + 2 /\ ~ (n + 2 <= n) /\ (n + 2) - n = 2
      BY <2>1
    <3> QED
      BY <2>4, <3>1
  <2>7. Len(c) = n + 2
    BY <2>1, <2>3
  <2> QED
    BY <1>5, <2>2, <2>3, <2>5, <2>6, <2>7
<1>7. CreateWrites(new) = a \o b
  BY <1>1, <1>2, <1>5 DEF CreateWrites
<1> QED
  BY <1>2, <1>4, <1>6, <1>7

\* They lead to the new chain, the larger table and the fuller map.
TablesWith(tables, dir, entries) == [s \in Sectors |-> IF s = dir THEN entries ELSE tables[s]]
\* Create's writes, all done, leave the disk so.
LEMMA CreateLeads ==
    ASSUME DiskTypes, NEW new, IsNewFile(new), Fresh(marked, new.sector, new.chain)
    PROVE  Leads(CreateWrites(new), marked, header, table,
                 new.map, Put(header, new.sector, new.chain), TablesWith(table, new.dir, new.entries))
<1>1. PICK ws : ws = CreateWrites(new)
  OBVIOUS
<1>0. PICK n \in Nat : n = Len(new.chain)
  BY DEF IsNewFile, IsChain
<1>2. /\ Len(ws) = n + 2
      /\ \A i \in 1 .. n : ws[i] = HeaderWrite(Home(new.chain, new.sector, i), new.chain[i])
      /\ ws[n + 1] = TableWrite(new.dir, new.entries)
      /\ ws[n + 2] = MapWrite(new.map)
  BY <1>0, <1>1, CreateWritesAre
<1>3. /\ \A i \in 1 .. n : /\ ws[i].to = "header" /\ ws[i].value = new.chain[i]
                           /\ ws[i].sector = Home(new.chain, new.sector, i)
      /\ ws[n + 1].to = "table" /\ ws[n + 1].sector = new.dir /\ ws[n + 1].value = new.entries
      /\ ws[n + 2].to = "map" /\ ws[n + 2].value = new.map
  <2>1. /\ \A s, x : /\ HeaderWrite(s, x).to = "header" /\ HeaderWrite(s, x).sector = s
                      /\ HeaderWrite(s, x).value = x
        /\ \A s, x : /\ TableWrite(s, x).to = "table" /\ TableWrite(s, x).sector = s
                      /\ TableWrite(s, x).value = x
        /\ \A x : MapWrite(x).to = "map" /\ MapWrite(x).value = x
    BY DEF HeaderWrite, TableWrite, MapWrite
  <2> QED
    BY <1>2, <2>1
<1>4. \A i \in 1 .. n + 2 : i \in 1 .. n \/ i = n + 1 \/ i = n + 2
  OBVIOUS
<1>5. n + 1 \in 1 .. n + 2 /\ n + 2 \in 1 .. n + 2 /\ \A i \in 1 .. n : i \in 1 .. n + 2
  OBVIOUS
<1>6. Settles(ws, MapWrites(ws), marked, new.map)
  <2>1. \A i \in MapWrites(ws) : i = n + 2
    BY <1>2, <1>3, <1>4 DEF MapWrites
  <2>2. n + 2 \in MapWrites(ws)
    BY <1>2, <1>3, <1>5 DEF MapWrites
  <2> QED
    BY <1>3, <2>1, <2>2 DEF Settles
<1>7. ASSUME NEW s \in Sectors
      PROVE  Settles(ws, HeaderWrites(ws, s), header[s], Put(header, new.sector, new.chain)[s])
  <2>1. \A i \in HeaderWrites(ws, s) : i \in 1 .. n /\ Home(new.chain, new.sector, i) = s
    BY <1>2, <1>3, <1>4 DEF HeaderWrites
  <2>2. \A i \in 1 .. n : Home(new.chain, new.sector, i) = s => i \in HeaderWrites(ws, s)
    BY <1>2, <1>3, <1>5 DEF HeaderWrites
  <2>3. \A i \in HeaderWrites(ws, s) : ws[i].value = Put(header, new.sector, new.chain)[s]
    <3>1. \A i \in 1 .. n : Put(header, new.sector, new.chain)[Home(new.chain, new.sector, i)] = new.chain[i]
      BY <1>0, PutStores DEF Stored
    <3> QED
      BY <1>3, <2>1, <3>1
  <2>4. HeaderWrites(ws, s) = {} => header[s] = Put(header, new.sector, new.chain)[s]
    BY <1>0, <2>2 DEF Put
  <2> QED
    BY <2>3, <2>4 DEF Settles
<1>8. ASSUME NEW s \in Sectors
      PROVE  Settles(ws, TableWrites(ws, s), table[s], TablesWith(table, new.dir, new.entries)[s])
  <2>1. \A i \in TableWrites(ws, s) : i = n + 1 /\ s = new.dir
    BY <1>2, <1>3, <1>4 DEF TableWrites
  <2>2. s = new.dir => n + 1 \in TableWrites(ws, s)
    BY <1>2, <1>3, <1>5 DEF TableWrites
  <2>3. TablesWith(table, new.dir, new.entries)[s] = IF s = new.dir THEN new.entries ELSE table[s]
    BY DEF TablesWith
  <2> QED
    BY <1>3, <2>1, <2>2, <2>3 DEF Settles
<1> QED
  BY <1>1, <1>6, <1>7, <1>8 DEF Leads

\* A table written last, where the writes before do not write a table.
LEMMA TableLast ==
    ASSUME NEW ws \in Seq(Writes), NEW m, NEW h, NEW t, NEW map, NEW headers, NEW tables,
           Leads(ws, m, h, t, map, headers, tables),
           NEW s \in Sectors, NEW entries \in Tables, TableWrites(ws, s) = {}
    PROVE  Leads(ws \o <<TableWrite(s, entries)>>, m, h, t, map, headers, TablesWith(tables, s, entries))
<1>1. PICK n \in Nat, w \in Writes : n = Len(ws) /\ w = TableWrite(s, entries)
  BY MakesWrites
<1>2. PICK b \in Seq(Writes) : b = <<w>> /\ Len(b) = 1 /\ b[1] = w
  <2>1. <<w>> \in Seq(Writes) /\ Len(<<w>>) = 1 /\ <<w>>[1] = w
    OBVIOUS
  <2> QED
    BY <2>1
<1>3. PICK v : /\ v = ws \o b /\ Len(v) = n + 1 /\ v[n + 1] = w
              /\ \A i \in 1 .. n : v[i] = ws[i]
  <2>1. /\ Len(ws \o b) = n + 1 /\ (ws \o b)[n + 1] = w
        /\ \A i \in 1 .. n : (ws \o b)[i] = ws[i]
    BY <1>1, <1>2
  <2> QED
    BY <2>1
<1>4. w.to = "table" /\ w.sector = s /\ w.value = entries
  BY <1>1 DEF TableWrite
<1>5. n + 1 \in 1 .. n + 1 /\ \A i \in 1 .. n + 1 : i \in 1 .. n \/ i = n + 1
  OBVIOUS
<1>6. \A i \in 1 .. n : i \in 1 .. n + 1 /\ i # n + 1
  OBVIOUS
<1>7. Settles(v, MapWrites(v), m, map)
  <2>1. MapWrites(v) = MapWrites(ws)
    BY <1>1, <1>3, <1>4, <1>5, <1>6 DEF MapWrites
  <2>2. \A i \in MapWrites(ws) : v[i] = ws[i]
    BY <1>1, <1>3 DEF MapWrites
  <2> QED
    BY <2>1, <2>2 DEF Leads, Settles
<1>8. ASSUME NEW u \in Sectors PROVE Settles(v, HeaderWrites(v, u), h[u], headers[u])
  <2>1. HeaderWrites(v, u) = HeaderWrites(ws, u)
    BY <1>1, <1>3, <1>4, <1>5, <1>6 DEF HeaderWrites
  <2>2. \A i \in HeaderWrites(ws, u) : v[i] = ws[i]
    BY <1>1, <1>3 DEF HeaderWrites
  <2> QED
    BY <2>1, <2>2 DEF Leads, Settles
<1>9. ASSUME NEW u \in Sectors PROVE Settles(v, TableWrites(v, u), t[u], TablesWith(tables, s, entries)[u])
  <2>1. TablesWith(tables, s, entries)[u] = IF u = s THEN entries ELSE tables[u]
    BY DEF TablesWith
  <2>2. CASE u # s
    <3>1. TableWrites(v, u) = TableWrites(ws, u)
      BY <1>1, <1>3, <1>4, <1>5, <1>6, <2>2 DEF TableWrites
    <3>2. \A i \in TableWrites(ws, u) : v[i] = ws[i]
      BY <1>1, <1>3 DEF TableWrites
    <3> QED
      BY <2>1, <2>2, <3>1, <3>2 DEF Leads, Settles
  <2>3. CASE u = s
    <3>1. \A i \in TableWrites(v, u) : i = n + 1
      <4>1. \A i \in 1 .. n : i \notin TableWrites(ws, s)
        OBVIOUS
      <4> QED
        BY <1>1, <1>3, <1>5, <1>6, <2>3, <4>1 DEF TableWrites
    <3>2. n + 1 \in TableWrites(v, u)
      BY <1>3, <1>4, <1>5, <2>3 DEF TableWrites
    <3> QED
      BY <1>3, <1>4, <2>1, <2>3, <3>1, <3>2 DEF Settles
  <2> QED
    BY <2>2, <2>3
<1> QED
  BY <1>1, <1>2, <1>3, <1>7, <1>8, <1>9 DEF Leads

\* CreateDirectory's writes lead there too, and to the new directory's empty table.
CreateDirectoryWrites(new) == CreateWrites(new) \o <<TableWrite(new.sector, {})>>
\* CreateDirectory's writes, all done, leave the disk so.
LEMMA CreateDirectoryLeads ==
    ASSUME DiskTypes, NEW new, IsNewFile(new), Fresh(marked, new.sector, new.chain), new.sector # new.dir
    PROVE  Leads(CreateDirectoryWrites(new), marked, header, table,
                 new.map, Put(header, new.sector, new.chain),
                 TablesWith(TablesWith(table, new.dir, new.entries), new.sector, {}))
<1>1. PICK ws : ws = CreateWrites(new)
  OBVIOUS
<1>2. PICK headers, tables :
          headers = Put(header, new.sector, new.chain) /\ tables = TablesWith(table, new.dir, new.entries)
  OBVIOUS
<1>3. Leads(ws, marked, header, table, new.map, headers, tables)
  BY <1>1, <1>2, CreateLeads
<1>4. TableWrites(ws, new.sector) = {}
  <2>1. PICK n \in Nat : n = Len(new.chain)
    BY DEF IsNewFile, IsChain
  <2>2. /\ Len(ws) = n + 2
        /\ \A i \in 1 .. n : ws[i] = HeaderWrite(Home(new.chain, new.sector, i), new.chain[i])
        /\ ws[n + 1] = TableWrite(new.dir, new.entries)
        /\ ws[n + 2] = MapWrite(new.map)
    BY <1>1, <2>1, CreateWritesAre
  <2>3. /\ \A s, x : HeaderWrite(s, x).to = "header"
        /\ TableWrite(new.dir, new.entries).sector = new.dir
        /\ MapWrite(new.map).to = "map"
    BY DEF HeaderWrite, TableWrite, MapWrite
  <2>4. \A i \in 1 .. n + 2 : i \in 1 .. n \/ i = n + 1 \/ i = n + 2
    OBVIOUS
  <2>5. \A i \in 1 .. n + 2 : ~ (ws[i].to = "table" /\ ws[i].sector = new.sector)
    BY <2>2, <2>3, <2>4
  <2> QED
    BY <2>2, <2>5 DEF TableWrites
<1>5. ws \in Seq(Writes)
  BY <1>1, CreateWritesIs
<1>6. {} \in Tables
  BY FileSystemAssumption, FS_EmptySet DEF Tables
<1>7. new.sector \in Sectors
  BY DEF IsNewFile
<1>8. Leads(ws \o <<TableWrite(new.sector, {})>>, marked, header, table,
            new.map, headers, TablesWith(tables, new.sector, {}))
  BY <1>3, <1>4, <1>5, <1>6, <1>7, TableLast
<1> QED
  BY <1>1, <1>2, <1>8 DEF CreateDirectoryWrites

-----------------------------------------------------------------------------
(* Walking down a path.                                                    *)

\* The sector of the i-th directory on a path.
Place(path, i) == GetDirSector(SubSeq(path, 1, i))

\* Each is an entry's of the one before; the first is the root, the last the path's.
LEMMA PlaceSteps ==
    ASSUME NEW path \in Seq(Names)
    PROVE  /\ Place(path, 0) = DirectorySector /\ Place(path, Len(path)) = GetDirSector(path)
           /\ \A i \in 1 .. Len(path) : Place(path, i) = Follow(Place(path, i - 1), path[i])
           /\ path # << >> => Place(path, Len(path) - 1) = GetDirSector(Parent(path))
<1>1. PICK n \in Nat : n = Len(path)
  OBVIOUS
<1>2. Place(path, 0) = DirectorySector
  <2>1. 0 \in 0 .. Len(path)
    BY <1>1
  <2>2. Len(SubSeq(path, 1, 0)) = 0 /\ SubSeq(path, 1, 0) \in Seq(Names)
    BY <2>1, Beginning
  <2>3. SubSeq(path, 1, 0) = << >>
    BY <2>2, EmptySeq
  <2> QED
    BY <2>3, GetDirSectorIs DEF Place
<1>3. SubSeq(path, 1, n) = path
  BY <1>1
<1>4. ASSUME NEW i \in 1 .. n PROVE Place(path, i) = Follow(Place(path, i - 1), path[i])
  <2>1. i \in 0 .. Len(path) /\ i - 1 \in 0 .. i /\ i \in 1 .. i
    BY <1>1
  <2>2. PICK q \in Seq(Names) : /\ q = SubSeq(path, 1, i) /\ Len(q) = i
                                /\ \A k \in 1 .. i : q[k] = path[k]
                                /\ \A k \in 0 .. i : SubSeq(q, 1, k) = SubSeq(path, 1, k)
    BY <2>1, Beginning
  <2>3. Parent(q) = SubSeq(path, 1, i - 1) /\ Last(q) = path[i]
    BY <2>1, <2>2 DEF Parent, Last
  <2>4. q # << >>
    BY <2>1, <2>2
  <2>5. GetDirSector(q) = Entry(q).sector
    BY <2>4, GetDirSectorIs
  <2> QED
    BY <2>2, <2>3, <2>5 DEF Place, Entry, Follow
<1>5. Parent(path) = SubSeq(path, 1, Len(path) - 1)
  BY DEF Parent
<1> QED
  BY <1>1, <1>2, <1>3, <1>4, <1>5 DEF Place

\* A name leads to one entry.
LEMMA OneEntry ==
    ASSUME DiskTypes, NEW s \in Sectors, NEW name, NEW e \in Find(s, name)
    PROVE  /\ Follow(s, name) = e.sector /\ Find(s, name) = {e}
           /\ e \in table[s] /\ e \in DirEntries /\ e.name = name
<1>1. table[s] \in Tables
  BY DEF DiskTypes
<1>2. \A f \in Find(s, name) : f = e
  BY <1>1 DEF Find, Tables
<1>3. Find(s, name) = {e}
  BY <1>2
<1>4. (CHOOSE f \in Find(s, name) : TRUE) = e
  BY <1>3
<1>5. e \in table[s] /\ e.name = name
  BY DEF Find
<1> QED
  BY <1>1, <1>3, <1>4, <1>5 DEF Follow, Tables

-----------------------------------------------------------------------------
(* Which directories there are, and what they lead to.                     *)

Linked(tables, owners, dirs) ==
    /\ {FreeMapSector, DirectorySector} \subseteq owners
    /\ DirectorySector \in dirs /\ dirs \subseteq owners
    /\ \A d \in dirs : \A e \in tables[d] :
          /\ e.sector \in owners \ {FreeMapSector, DirectorySector}
          /\ e.isDir => e.sector \in dirs
    /\ \A c, d \in dirs : \A e \in tables[c], f \in tables[d] : e.sector = f.sector => c = d /\ e = f

\* A walk over directories stays in them.
LEMMA PlacesLinked ==
    ASSUME DiskTypes, NEW owners \in SUBSET Sectors, NEW dirs, Linked(table, owners, dirs),
           NEW path \in Seq(Names), NEW n \in 0 .. Len(path),
           \A i \in 1 .. n : \E e \in Find(Place(path, i - 1), path[i]) : e.isDir
    PROVE  \A k \in 0 .. n : Place(path, k) \in dirs
<1>0. n \in Nat /\ Len(path) \in Nat /\ n <= Len(path)
  OBVIOUS
<1> DEFINE T == {k \in Nat : k <= n => Place(path, k) \in dirs}
<1>1. ASSUME NEW k \in Nat, \A j \in 0 .. k - 1 : j \in T PROVE k \in T
  <2> SUFFICES ASSUME k <= n PROVE Place(path, k) \in dirs
    OBVIOUS
  <2>1. CASE k = 0
    BY <2>1, PlaceSteps DEF Linked
  <2>2. CASE k > 0
    <3>1. k - 1 \in 0 .. k - 1 /\ k - 1 <= n /\ k \in 1 .. n /\ k \in 1 .. Len(path)
      BY <1>0, <2>2
    <3>2. PICK d \in dirs : d = Place(path, k - 1)
      BY <1>1, <3>1
    <3>3. d \in Sectors
      BY DEF Linked
    <3>4. PICK e \in Find(d, path[k]) : e.isDir
      BY <3>1, <3>2
    <3>5. Follow(d, path[k]) = e.sector /\ e \in table[d]
      BY <3>3, OneEntry
    <3>6. Place(path, k) = e.sector
      BY <3>1, <3>2, <3>5, PlaceSteps
    <3> QED
      BY <3>4, <3>5, <3>6 DEF Linked
  <2> QED
    BY <2>1, <2>2
<1>2. \A k \in Nat : k \in T
  <2> HIDE DEF T
  <2> QED
    BY <1>1, AllNumbers
<1> QED
  BY <1>2

\* To a directory that exists the way is through directories.
LEMMA DirectorySteps ==
    ASSUME NEW path \in Seq(Names), IsDirectory(path)
    PROVE  \A i \in 1 .. Len(path) : \E e \in Find(Place(path, i - 1), path[i]) : e.isDir
<1>1. PICK n \in Nat : n = Len(path)
  OBVIOUS
<1>2. ASSUME NEW i \in 1 .. n PROVE \E e \in Find(Place(path, i - 1), path[i]) : e.isDir
  <2>1. path # << >>
    BY <1>1
  <2>2. Exists(path) /\ Entry(path).isDir
    BY <2>1 DEF IsDirectory
  <2>3. PICK e \in Find(Place(path, i - 1), path[i]) : i < n => e.isDir
    BY <1>1, <2>2 DEF Exists, Place
  <2>4. CASE i < n
    BY <2>3, <2>4
  <2>5. CASE i = n
    <3>1. Place(path, i - 1) = GetDirSector(Parent(path)) /\ path[i] = Last(path)
      BY <1>1, <2>1, <2>5, PlaceSteps DEF Last
    <3>2. Entry(path) \in Find(Place(path, i - 1), path[i])
      BY <2>3, <3>1 DEF Entry
    <3> QED
      BY <2>2, <3>2
  <2> QED
    BY <1>1, <2>4, <2>5
<1> QED
  BY <1>1, <1>2

\* A directory that exists is one of them.
LEMMA DirectoryLinked ==
    ASSUME DiskTypes, NEW owners \in SUBSET Sectors, NEW dirs, Linked(table, owners, dirs),
           NEW path \in Seq(Names), IsDirectory(path)
    PROVE  GetDirSector(path) \in dirs
<1>1. PICK n \in Nat : n = Len(path) /\ n \in 0 .. Len(path)
  OBVIOUS
<1>2. \A i \in 1 .. n : \E e \in Find(Place(path, i - 1), path[i]) : e.isDir
  BY <1>1, DirectorySteps
<1>3. n \in 0 .. n
  BY <1>1
<1>4. Place(path, n) \in dirs
  BY <1>1, <1>2, <1>3, PlacesLinked
<1> QED
  BY <1>1, <1>4, PlaceSteps

\* What exists has an entry in one of them, and so has what it is in.
LEMMA PresentLinked ==
    ASSUME DiskTypes, NEW owners \in SUBSET Sectors, NEW dirs, Linked(table, owners, dirs),
           NEW path \in Seq(Names), path # << >>, Exists(path)
    PROVE  /\ GetDirSector(Parent(path)) \in dirs
           /\ \E e \in table[GetDirSector(Parent(path))] :
                 e.name = Last(path) /\ e.sector = GetDirSector(path)
           /\ Parent(path) \in Seq(Names) /\ Len(Parent(path)) = Len(path) - 1 /\ Exists(Parent(path))
           /\ \A i \in 1 .. Len(path) - 1 : Parent(path)[i] = path[i]
<1>1. PICK n \in Nat : n = Len(path) /\ n >= 1 /\ n - 1 \in 0 .. Len(path) /\ n \in 1 .. Len(path)
  <2>1. Len(path) \in Nat /\ Len(path) # 0
    BY EmptySeq
  <2> QED
    BY <2>1
<1>2. ASSUME NEW i \in 1 .. n PROVE \E e \in Find(Place(path, i - 1), path[i]) : i < n => e.isDir
  BY <1>1 DEF Exists, Place
<1>3. \A i \in 1 .. n - 1 : i \in 1 .. n /\ i < n /\ i - 1 \in 0 .. n - 1
  BY <1>1
<1>4. \A i \in 1 .. n - 1 : \E e \in Find(Place(path, i - 1), path[i]) : e.isDir
  BY <1>2, <1>3
<1>5. \A k \in 0 .. n - 1 : Place(path, k) \in dirs
  BY <1>1, <1>4, PlacesLinked
<1>6. PICK d \in dirs : d = Place(path, n - 1) /\ d = GetDirSector(Parent(path))
  <2>1. n - 1 \in 0 .. n - 1
    BY <1>1
  <2>2. Place(path, n - 1) = GetDirSector(Parent(path))
    BY <1>1, PlaceSteps
  <2> QED
    BY <1>5, <2>1, <2>2
<1>7. PICK e \in table[d] : e.name = Last(path) /\ e.sector = GetDirSector(path)
  <2>1. PICK e \in Find(d, path[n]) : TRUE
    BY <1>1, <1>2, <1>6
  <2>2. d \in Sectors
    BY DEF Linked
  <2>3. Follow(d, path[n]) = e.sector /\ e \in table[d] /\ e.name = path[n]
    BY <2>2, OneEntry
  <2>4. Place(path, n) = e.sector
    BY <1>1, <1>6, <2>3, PlaceSteps
  <2> QED
    BY <1>1, <2>3, <2>4, PlaceSteps DEF Last
<1>8. PICK q \in Seq(Names) : /\ q = Parent(path) /\ Len(q) = n - 1
                              /\ \A i \in 1 .. n - 1 : q[i] = path[i]
                              /\ \A i \in 0 .. n - 1 : SubSeq(q, 1, i) = SubSeq(path, 1, i)
  BY <1>1, Beginning DEF Parent
<1>9. Exists(q)
  <2>1. ASSUME NEW i \in 1 .. n - 1
        PROVE  \E f \in Find(GetDirSector(SubSeq(q, 1, i - 1)), q[i]) : i < Len(q) => f.isDir
    BY <1>3, <1>4, <1>8 DEF Place
  <2> QED
    BY <1>8, <2>1 DEF Exists
<1> QED
  BY <1>1, <1>6, <1>7, <1>8, <1>9

\* No two of them have the same sector.
LEMMA PresentDiffer ==
    ASSUME DiskTypes, NEW owners \in SUBSET Sectors, NEW dirs, Linked(table, owners, dirs)
    PROVE  \A p, q \in Seq(Names) : Exists(p) /\ Exists(q) /\ GetDirSector(p) = GetDirSector(q) => p = q
<1> DEFINE T == {m \in Nat : \A p, q \in Seq(Names) :
                    Len(p) = m /\ Exists(p) /\ Exists(q) /\ GetDirSector(p) = GetDirSector(q) => p = q}
<1>1. ASSUME NEW path \in Seq(Names), path # << >>, Exists(path) PROVE GetDirSector(path) # DirectorySector
  <2>1. PICK d \in dirs : \E e \in table[d] : e.sector = GetDirSector(path)
    BY <1>1, PresentLinked
  <2> QED
    BY <2>1 DEF Linked
<1>2. ASSUME NEW m \in Nat, \A j \in 0 .. m - 1 : j \in T,
             NEW p \in Seq(Names), NEW q \in Seq(Names),
             Len(p) = m, Exists(p), Exists(q), GetDirSector(p) = GetDirSector(q)
      PROVE  p = q
  <2>1. CASE p = << >> \/ q = << >>
    BY <1>1, <1>2, <2>1, GetDirSectorIs
  <2>2. CASE p # << >> /\ q # << >>
    <3>1. PICK a, b : a = Parent(p) /\ b = Parent(q)
      OBVIOUS
    <3>2. /\ GetDirSector(a) \in dirs /\ a \in Seq(Names) /\ Len(a) = m - 1 /\ Exists(a)
          /\ \A i \in 1 .. m - 1 : a[i] = p[i]
      BY <1>2, <2>2, <3>1, PresentLinked
    <3>3. PICK e \in table[GetDirSector(a)] : e.name = Last(p) /\ e.sector = GetDirSector(p)
      BY <1>2, <2>2, <3>1, PresentLinked
    <3>4. /\ GetDirSector(b) \in dirs /\ b \in Seq(Names) /\ Len(b) = Len(q) - 1 /\ Exists(b)
          /\ \A i \in 1 .. Len(q) - 1 : b[i] = q[i]
      BY <1>2, <2>2, <3>1, PresentLinked
    <3>5. PICK f \in table[GetDirSector(b)] : f.name = Last(q) /\ f.sector = GetDirSector(q)
      BY <1>2, <2>2, <3>1, PresentLinked
    <3>6. GetDirSector(a) = GetDirSector(b) /\ e = f
      BY <1>2, <3>2, <3>3, <3>4, <3>5 DEF Linked
    <3>7. m >= 1 /\ m - 1 \in 0 .. m - 1 /\ m - 1 \in Nat
      <4>1. Len(p) \in Nat /\ Len(p) # 0
        BY <2>2, EmptySeq
      <4> QED
        BY <1>2, <4>1
    <3>8. a = b
      <4>1. m - 1 \in T
        BY <1>2, <3>7
      <4> QED
        BY <3>2, <3>4, <3>6, <4>1
    <3>9. Len(q) = m
      <4>1. Len(q) \in Nat /\ Len(q) - 1 = m - 1
        BY <3>2, <3>4, <3>8
      <4> QED
        BY <4>1
    <3>10. p[m] = q[m]
      BY <1>2, <3>3, <3>5, <3>6, <3>9 DEF Last
    <3>11. \A i \in 1 .. m : i \in 1 .. m - 1 \/ i = m
      BY <3>7
    <3>12. \A i \in 1 .. Len(p) : p[i] = q[i]
      BY <1>2, <3>2, <3>4, <3>8, <3>9, <3>10, <3>11
    <3> QED
      BY <1>2, <3>9, <3>12, SeqEqual
  <2> QED
    BY <2>1, <2>2
<1>3. \A m \in Nat : m \in T
  <2>1. \A m \in Nat : (\A j \in 0 .. m - 1 : j \in T) => m \in T
    BY <1>2
  <2> HIDE DEF T
  <2> QED
    BY <2>1, AllNumbers
<1>4. \A p \in Seq(Names) : Len(p) \in Nat
  OBVIOUS
<1> QED
  BY <1>3, <1>4

-----------------------------------------------------------------------------
(* The formatted disk.                                                     *)

\* The chain that was written to a sector is there, if nothing else was written to
\* its sectors.
LEMMA HeaderAfterIs ==
    ASSUME NEW ws, NEW s, NEW hdr, HeaderWrites(ws, s) # {},
           \A i \in HeaderWrites(ws, s) : ws[i].value = hdr
    PROVE  HeaderAfter(ws, s) = hdr
<1>1. HeaderAfter(ws, s) = ws[CHOOSE i \in HeaderWrites(ws, s) : TRUE].value
  BY DEF HeaderAfter, HeaderWrites
<1>2. (CHOOSE i \in HeaderWrites(ws, s) : TRUE) \in HeaderWrites(ws, s)
  OBVIOUS
<1> QED
  BY <1>1, <1>2

\* Two chains written one after the other, which share no sector.
LEMMA TwoChains ==
    ASSUME NEW a, NEW b, IsChain(a), IsChain(b), NEW s \in Sectors, NEW u \in Sectors,
           \A i, j \in 1 .. Len(a) : Home(a, s, i) \in Owned(s, a) /\ (Home(a, s, i) = Home(a, s, j) => i = j),
           \A i, j \in 1 .. Len(b) : Home(b, u, i) \in Owned(u, b) /\ (Home(b, u, i) = Home(b, u, j) => i = j),
           Owned(s, a) \cap Owned(u, b) = {}
    PROVE  /\ \A i \in 1 .. Len(a) : HeaderAfter(WriteBack(a, s) \o WriteBack(b, u), Home(a, s, i)) = a[i]
           /\ \A i \in 1 .. Len(b) : HeaderAfter(WriteBack(a, s) \o WriteBack(b, u), Home(b, u, i)) = b[i]
<1>1. PICK n \in Nat, m \in Nat : n = Len(a) /\ m = Len(b)
  BY DEF IsChain
<1>2. PICK x, y : x = WriteBack(a, s) /\ y = WriteBack(b, u)
  OBVIOUS
<1>3. x \in Seq(Writes) /\ y \in Seq(Writes)
  BY <1>2, WriteBackIs
<1>4. /\ Len(x) = n /\ Len(y) = m
      /\ \A i \in 1 .. n : x[i] = HeaderWrite(Home(a, s, i), a[i])
      /\ \A i \in 1 .. m : y[i] = HeaderWrite(Home(b, u, i), b[i])
  <2>1. x = [i \in 1 .. n |-> HeaderWrite(Home(a, s, i), a[i])]
    BY <1>1, <1>2 DEF WriteBack, Home
  <2>2. y = [i \in 1 .. m |-> HeaderWrite(Home(b, u, i), b[i])]
    BY <1>1, <1>2 DEF WriteBack, Home
  <2> QED
    BY <2>1, <2>2
<1>5. PICK ws : ws = x \o y
  OBVIOUS
<1>6. /\ Len(ws) = n + m
      /\ \A i \in 1 .. n : ws[i] = x[i]
      /\ \A i \in 1 .. m : ws[n + i] = y[i]
  <2>1. Len(x \o y) = n + m
    BY <1>3, <1>4, ConcatProperties
  <2>2. \A i \in 1 .. n : (x \o y)[i] = x[i]
    BY <1>3, <1>4, ConcatProperties
  <2>3. ASSUME NEW i \in 1 .. m PROVE (x \o y)[n + i] = y[i]
    <3>1. n + i \in 1 .. n + m /\ ~ (n + i <= n) /\ (n + i) - n = i
      OBVIOUS
    <3>2. (x \o y)[n + i] = y[(n + i) - n]
      BY <1>3, <1>4, <3>1, ConcatProperties
    <3> QED
      BY <3>1, <3>2
  <2> QED
    BY <1>5, <2>1, <2>2, <2>3
<1>7. \A t, h : HeaderWrite(t, h).to = "header" /\ HeaderWrite(t, h).sector = t /\ HeaderWrite(t, h).value = h
  BY DEF HeaderWrite
<1>8. \A i \in 1 .. n : ws[i].to = "header" /\ ws[i].sector = Home(a, s, i) /\ ws[i].value = a[i]
  BY <1>4, <1>6, <1>7
<1>9. \A i \in 1 .. m : ws[n + i].to = "header" /\ ws[n + i].sector = Home(b, u, i) /\ ws[n + i].value = b[i]
  BY <1>4, <1>6, <1>7
<1>10. \A k \in 1 .. n + m : k \in 1 .. n \/ \E i \in 1 .. m : k = n + i
  <2>1. ASSUME NEW k \in 1 .. n + m, k \notin 1 .. n PROVE \E i \in 1 .. m : k = n + i
    <3>1. k - n \in 1 .. m /\ k = n + (k - n)
      BY <2>1
    <3> QED
      BY <3>1
  <2> QED
    BY <2>1
<1>11. (\A i \in 1 .. n : i \in 1 .. n + m) /\ \A i \in 1 .. m : n + i \in 1 .. n + m
  OBVIOUS
<1>12. ASSUME NEW i \in 1 .. n PROVE HeaderAfter(ws, Home(a, s, i)) = a[i]
  <2>1. PICK t : t = Home(a, s, i)
    OBVIOUS
  <2>2. i \in HeaderWrites(ws, t)
    BY <1>6, <1>8, <1>11, <2>1 DEF HeaderWrites
  <2>3. ASSUME NEW k \in HeaderWrites(ws, t) PROVE ws[k].value = a[i]
    <3>1. k \in 1 .. n + m /\ ws[k].sector = t
      BY <1>6 DEF HeaderWrites
    <3>2. CASE k \in 1 .. n
      <4>1. k = i
        BY <1>1, <1>8, <2>1, <3>1, <3>2
      <4> QED
        BY <1>8, <4>1
    <3>3. ASSUME NEW j \in 1 .. m, k = n + j PROVE FALSE
      <4>1. Home(b, u, j) = Home(a, s, i)
        BY <1>9, <2>1, <3>1, <3>3
      <4> QED
        BY <1>1, <4>1
    <3> QED
      BY <1>10, <3>1, <3>2, <3>3
  <2> QED
    BY <2>1, <2>2, <2>3, HeaderAfterIs
<1>13. ASSUME NEW i \in 1 .. m PROVE HeaderAfter(ws, Home(b, u, i)) = b[i]
  <2>1. PICK t : t = Home(b, u, i)
    OBVIOUS
  <2>2. n + i \in HeaderWrites(ws, t)
    BY <1>6, <1>9, <1>11, <2>1 DEF HeaderWrites
  <2>3. ASSUME NEW k \in HeaderWrites(ws, t) PROVE ws[k].value = b[i]
    <3>1. k \in 1 .. n + m /\ ws[k].sector = t
      BY <1>6 DEF HeaderWrites
    <3>2. CASE k \in 1 .. n
      <4>1. Home(a, s, k) = Home(b, u, i)
        BY <1>8, <2>1, <3>1, <3>2
      <4> QED
        BY <1>1, <3>2, <4>1
    <3>3. ASSUME NEW j \in 1 .. m, k = n + j PROVE ws[k].value = b[i]
      <4>1. Home(b, u, j) = Home(b, u, i)
        BY <1>9, <2>1, <3>1, <3>3
      <4>2. j = i
        BY <1>1, <4>1
      <4> QED
        BY <1>9, <3>3, <4>2
    <3> QED
      BY <1>10, <3>1, <3>2, <3>3
  <2> QED
    BY <2>1, <2>2, <2>3, HeaderAfterIs
<1> QED
  BY <1>1, <1>2, <1>5, <1>12, <1>13

\* After formatting, the free map and the root own what is marked.
LEMMA InitOwn ==
    ASSUME Init
    PROVE  \E chain : /\ Own(marked, header, {FreeMapSector, DirectorySector}, chain)
                      /\ Linked(table, {FreeMapSector, DirectorySector}, {DirectorySector})
<1>1. /\ {FreeMapSector, DirectorySector} \in SUBSET Sectors /\ FreeMapSector # DirectorySector
      /\ FreeMapSector \in Sectors /\ DirectorySector \in Sectors
  BY FileSystemAssumption, DiskAssumption DEF FreeMapSector, DirectorySector, Sectors
<1>2. PICK mapFile, dirFile :
          /\ mapFile = Allocate({FreeMapSector, DirectorySector}, FreeMapFileSize)
          /\ dirFile = Allocate(mapFile.map, DirectoryFileSize)
  OBVIOUS
<1>3. /\ mapFile.ok /\ dirFile.ok /\ marked = dirFile.map
      /\ header = [s \in Sectors |->
                      HeaderAfter(WriteBack(mapFile.chain, FreeMapSector)
                                  \o WriteBack(dirFile.chain, DirectorySector), s)]
      /\ table = [s \in Sectors |-> {}]
  BY <1>2 DEF Init
<1>4. FreeMapFileSize \in Nat /\ DirectoryFileSize \in Nat
  BY FileSystemAssumption
<1>5. PICK a, b : a = mapFile.chain /\ b = dirFile.chain
  OBVIOUS
<1>6. PICK s, u : s = FreeMapSector /\ u = DirectorySector
  OBVIOUS
<1>7. /\ mapFile.map \in SUBSET Sectors /\ IsChain(a) /\ NextsDiffer(a) /\ Laid(a)
      /\ Taken(a) \cap {s, u} = {} /\ mapFile.map = {s, u} \cup Taken(a)
      /\ Cardinality(Taken(a)) + 1 = Count(a)
  <2>1. /\ Allocates({FreeMapSector, DirectorySector}, FreeMapFileSize, mapFile)
        /\ Takes({FreeMapSector, DirectorySector}, FreeMapFileSize, mapFile)
    BY <1>1, <1>2, <1>4, AllocateIs, AllocateTakes
  <2> QED
    BY <1>3, <1>5, <1>6, <2>1 DEF Allocates, Takes
<1>8. /\ dirFile.map \in SUBSET Sectors /\ IsChain(b) /\ NextsDiffer(b) /\ Laid(b)
      /\ Taken(b) \cap mapFile.map = {} /\ dirFile.map = mapFile.map \cup Taken(b)
      /\ Cardinality(Taken(b)) + 1 = Count(b)
  <2>1. Allocates(mapFile.map, DirectoryFileSize, dirFile) /\ Takes(mapFile.map, DirectoryFileSize, dirFile)
    BY <1>2, <1>4, <1>7, AllocateIs, AllocateTakes
  <2> QED
    BY <1>3, <1>5, <2>1 DEF Allocates, Takes
<1>9. Fresh({}, s, a) /\ Fresh(Owned(s, a), u, b)
  <2>1. Fresh({}, s, a)
    BY <1>1, <1>6, <1>7 DEF Fresh
  <2>2. Owned(s, a) \subseteq Sectors /\ u \in Sectors \ Owned(s, a)
    BY <1>1, <1>6, <1>7 DEF Owned
  <2>3. Taken(b) \subseteq Sectors /\ Taken(b) \cap (Owned(s, a) \cup {u}) = {}
    BY <1>7, <1>8 DEF Owned
  <2> QED
    BY <1>8, <2>1, <2>2, <2>3 DEF Fresh
<1>10. Stored(header, s, a) /\ Stored(header, u, b)
  <2>1. PICK ws : ws = WriteBack(a, s) \o WriteBack(b, u)
    OBVIOUS
  <2>2. Owned(s, a) \cap Owned(u, b) = {}
    BY <1>9 DEF Fresh, Owned
  <2>3. /\ \A i, j \in 1 .. Len(a) : Home(a, s, i) \in Owned(s, a) /\ (Home(a, s, i) = Home(a, s, j) => i = j)
        /\ \A i, j \in 1 .. Len(b) : Home(b, u, i) \in Owned(u, b) /\ (Home(b, u, i) = Home(b, u, j) => i = j)
    BY <1>9, HomesDiffer
  <2>4. /\ \A i \in 1 .. Len(a) : HeaderAfter(ws, Home(a, s, i)) = a[i]
        /\ \A i \in 1 .. Len(b) : HeaderAfter(ws, Home(b, u, i)) = b[i]
    BY <1>1, <1>6, <1>7, <1>8, <2>1, <2>2, <2>3, TwoChains
  <2>5. header = [t \in Sectors |-> HeaderAfter(ws, t)]
    BY <1>3, <1>5, <1>6, <2>1
  <2>6. Owned(s, a) \subseteq Sectors /\ Owned(u, b) \subseteq Sectors
    BY <1>9 DEF Fresh, Owned
  <2>7. \A i \in 1 .. Len(a) : header[Home(a, s, i)] = a[i]
    BY <2>3, <2>4, <2>5, <2>6
  <2>8. \A i \in 1 .. Len(b) : header[Home(b, u, i)] = b[i]
    BY <2>3, <2>4, <2>5, <2>6
  <2> QED
    BY <2>7, <2>8 DEF Stored
<1> DEFINE none == [o \in {} |-> a]
           first == [o \in {s} |-> a]
           both == [o \in {s, u} |-> IF o = s THEN a ELSE b]
<1>11. Own({}, header, {}, none)
  BY DEF Own
<1>12. Own(Owned(s, a), header, {s}, first)
  <2>1. first[s] = a /\ \A o \in {} : first[o] = none[o]
    OBVIOUS
  <2> HIDE DEF first, none
  <2>2. Own({} \cup Owned(s, a), header, {} \cup {s}, first)
    BY <1>9, <1>10, <1>11, <2>1, NewOwner
  <2>3. {} \cup Owned(s, a) = Owned(s, a) /\ {} \cup {s} = {s}
    OBVIOUS
  <2> QED
    BY <2>2, <2>3
<1>13. Own(Owned(s, a) \cup Owned(u, b), header, {s} \cup {u}, both)
  <2>1. both[u] = b /\ \A o \in {s} : both[o] = first[o]
    BY <1>1, <1>6
  <2> HIDE DEF first, both
  <2> QED
    BY <1>9, <1>10, <1>12, <2>1, NewOwner
<1>14. marked = Owned(s, a) \cup Owned(u, b)
  BY <1>3, <1>7, <1>8 DEF Owned
<1>15. Linked(table, {FreeMapSector, DirectorySector}, {DirectorySector})
  <2>1. table[DirectorySector] = {}
    BY <1>1, <1>3
  <2> QED
    BY <2>1 DEF Linked
<1>16. {s} \cup {u} = {FreeMapSector, DirectorySector}
  BY <1>6
<1> HIDE DEF both
<1> QED
  BY <1>13, <1>14, <1>15, <1>16

-----------------------------------------------------------------------------
(* As long as the machine was never stopped in the middle of a call, the   *)
(* writes of a call lead to a disk on which every sector is owned once.    *)

Sound ==
    \E map, headers, tables, owners, chain, dirs :
        /\ Leads(writes, marked, header, table, map, headers, tables)
        /\ Own(map, headers, owners, chain) /\ Linked(tables, owners, dirs)

\* Nothing to write leads to the disk as it is.
LEMMA NothingLeads ==
    ASSUME NEW m, NEW h, NEW t
    PROVE  Leads(<< >>, m, h, t, m, h, t)
<1>1. 1 .. Len(<< >>) = {}
  OBVIOUS
<1>2. MapWrites(<< >>) = {} /\ \A s : HeaderWrites(<< >>, s) = {} /\ TableWrites(<< >>, s) = {}
  BY <1>1 DEF MapWrites, HeaderWrites, TableWrites
<1> QED
  BY <1>2 DEF Leads, Settles

\* Between two calls the disk itself is such a one.
LEMMA SoundNow ==
    ASSUME DiskTypes, Sound, writes = << >>
    PROVE  \E owners, chain, dirs : /\ Own(marked, header, owners, chain)
                                    /\ Linked(table, owners, dirs)
<1>1. PICK map, headers, tables, owners, chain, dirs :
          /\ Leads(<< >>, marked, header, table, map, headers, tables)
          /\ Own(map, headers, owners, chain) /\ Linked(tables, owners, dirs)
  BY DEF Sound
<1>2. marked = map /\ \A s \in Sectors : header[s] = headers[s] /\ table[s] = tables[s]
  BY <1>1, WritesLed
<1>3. owners \subseteq Sectors /\ \A o \in owners : Owned(o, chain[o]) \subseteq map /\ map \subseteq Sectors
  BY <1>1 DEF Own, Holds
<1>4. Own(marked, header, owners, chain)
  <2>1. marked \in SUBSET Sectors
    BY DEF DiskTypes
  <2>2. \A o \in owners : /\ Owned(o, chain[o]) \subseteq marked
                          /\ \A t \in Owned(o, chain[o]) : header[t] = headers[t]
    BY <1>2, <1>3
  <2> QED
    BY <1>1, <2>1, <2>2, OwnStill
<1>5. Linked(table, owners, dirs)
  <2>1. \A d \in dirs : table[d] = tables[d]
    BY <1>1, <1>2, <1>3 DEF Linked
  <2> QED
    BY <1>1, <2>1 DEF Linked
<1> QED
  BY <1>4, <1>5

\* An entry for a new owner in a directory, and in a directory of its own.
LEMMA LinkFile ==
    ASSUME NEW tables, NEW owners \in SUBSET Sectors, NEW dirs, Linked(tables, owners, dirs),
           NEW dir \in dirs, NEW e, e.sector \notin owners, NEW entries, entries = tables[dir] \cup {e}, ~ e.isDir
    PROVE  Linked(TablesWith(tables, dir, entries), owners \cup {e.sector}, dirs)
<1>1. PICK t : t = TablesWith(tables, dir, entries)
  OBVIOUS
<1>2. dirs \subseteq Sectors
  BY DEF Linked
<1>3. \A d \in dirs : t[d] = IF d = dir THEN tables[d] \cup {e} ELSE tables[d]
  BY <1>1, <1>2 DEF TablesWith
<1>4. ASSUME NEW d \in dirs, NEW f \in t[d]
      PROVE  f \in tables[d] \/ (f = e /\ d = dir)
  BY <1>3
<1>5. ASSUME NEW d \in dirs, NEW f \in t[d]
      PROVE  /\ f.sector \in (owners \cup {e.sector}) \ {FreeMapSector, DirectorySector}
             /\ f.isDir => f.sector \in dirs
  BY <1>4, <1>5 DEF Linked
<1>6. ASSUME NEW c \in dirs, NEW d \in dirs, NEW f \in t[c], NEW g \in t[d], f.sector = g.sector
      PROVE  c = d /\ f = g
  <2>1. \A x \in dirs : \A y \in tables[x] : y.sector # e.sector
    BY DEF Linked
  <2>2. CASE f \in tables[c] /\ g \in tables[d]
    BY <1>6, <2>2 DEF Linked
  <2>3. CASE f \notin tables[c]
    <3>1. f = e /\ c = dir
      BY <1>4, <1>6, <2>3
    <3>2. g \notin tables[d]
      BY <1>6, <2>1, <3>1
    <3> QED
      BY <1>4, <1>6, <3>1, <3>2
  <2>4. CASE g \notin tables[d]
    <3>1. g = e /\ d = dir
      BY <1>4, <1>6, <2>4
    <3>2. f \notin tables[c]
      BY <1>6, <2>1, <3>1
    <3> QED
      BY <1>4, <1>6, <3>1, <3>2
  <2> QED
    BY <2>2, <2>3, <2>4
<1>7. /\ {FreeMapSector, DirectorySector} \subseteq owners \cup {e.sector}
      /\ DirectorySector \in dirs /\ dirs \subseteq owners \cup {e.sector}
  BY DEF Linked
<1>8. \A d \in dirs : \A f \in t[d] :
          /\ f.sector \in (owners \cup {e.sector}) \ {FreeMapSector, DirectorySector}
          /\ f.isDir => f.sector \in dirs
  BY <1>5
<1>9. \A c, d \in dirs : \A f \in t[c], g \in t[d] : f.sector = g.sector => c = d /\ f = g
  BY <1>6
<1>10. Linked(t, owners \cup {e.sector}, dirs)
  BY <1>7, <1>8, <1>9, Zenon DEF Linked
<1> QED
  BY <1>1, <1>10

\* A new directory, with its empty table, keeps the directories linked.
LEMMA LinkDirectory ==
    ASSUME NEW tables, NEW owners \in SUBSET Sectors, NEW dirs, Linked(tables, owners, dirs),
           NEW dir \in dirs, NEW e, e.sector \in Sectors \ owners, NEW entries, entries = tables[dir] \cup {e}
    PROVE  Linked(TablesWith(TablesWith(tables, dir, entries), e.sector, {}),
                  owners \cup {e.sector}, dirs \cup {e.sector})
<1>1. PICK t : t = TablesWith(TablesWith(tables, dir, entries), e.sector, {})
  OBVIOUS
<1>2. dirs \subseteq Sectors /\ e.sector \notin dirs
  BY DEF Linked
<1>3. /\ \A d \in dirs : t[d] = IF d = dir THEN tables[d] \cup {e} ELSE tables[d]
      /\ t[e.sector] = {}
  BY <1>1, <1>2 DEF TablesWith
<1>4. ASSUME NEW d \in dirs \cup {e.sector}, NEW f \in t[d]
      PROVE  d \in dirs /\ (f \in tables[d] \/ (f = e /\ d = dir))
  BY <1>3
<1>5. ASSUME NEW d \in dirs \cup {e.sector}, NEW f \in t[d]
      PROVE  /\ f.sector \in (owners \cup {e.sector}) \ {FreeMapSector, DirectorySector}
             /\ f.isDir => f.sector \in dirs \cup {e.sector}
  BY <1>4, <1>5 DEF Linked
<1>6. ASSUME NEW c \in dirs \cup {e.sector}, NEW d \in dirs \cup {e.sector},
             NEW f \in t[c], NEW g \in t[d], f.sector = g.sector
      PROVE  c = d /\ f = g
  <2>1. \A x \in dirs : \A y \in tables[x] : y.sector # e.sector
    BY DEF Linked
  <2>2. CASE f \in tables[c] /\ g \in tables[d]
    BY <1>4, <1>6, <2>2 DEF Linked
  <2>3. CASE f \notin tables[c]
    <3>1. f = e /\ c = dir
      BY <1>4, <1>6, <2>3
    <3>2. g \notin tables[d]
      BY <1>4, <1>6, <2>1, <3>1
    <3> QED
      BY <1>4, <1>6, <3>1, <3>2
  <2>4. CASE g \notin tables[d]
    <3>1. g = e /\ d = dir
      BY <1>4, <1>6, <2>4
    <3>2. f \notin tables[c]
      BY <1>4, <1>6, <2>1, <3>1
    <3> QED
      BY <1>4, <1>6, <3>1, <3>2
  <2> QED
    BY <2>2, <2>3, <2>4
<1>7. /\ {FreeMapSector, DirectorySector} \subseteq owners \cup {e.sector}
      /\ DirectorySector \in dirs \cup {e.sector} /\ dirs \cup {e.sector} \subseteq owners \cup {e.sector}
  BY DEF Linked
<1>8. Linked(t, owners \cup {e.sector}, dirs \cup {e.sector})
  BY <1>5, <1>6, <1>7 DEF Linked
<1> QED
  BY <1>1, <1>8

\* Create gives its sectors to the new file.
LEMMA CreateSound ==
    ASSUME Types, Sound, NEW path \in Paths, NEW size \in Sizes, Create(path, size) PROVE Sound'
<1>1. PICK new : new = NewFile(path, size, FALSE)
  OBVIOUS
<1>2. /\ writes = << >> /\ IsDirectory(Parent(path)) /\ new.ok
      /\ writes' = CreateWrites(new) /\ UNCHANGED disk
  BY <1>1 DEF Create
<1>3. DiskTypes /\ size \in Nat
  BY FileSystemAssumption DEF Types
<1>4. IsNewFile(new) /\ Made(new, path, size, FALSE)
  BY <1>1, <1>2, <1>3, NewFileIs, NewFileMade
<1>5. PICK owners, chain, dirs : Own(marked, header, owners, chain) /\ Linked(table, owners, dirs)
  BY <1>2, <1>3, SoundNow
<1>6. PICK map, headers, tables :
          /\ map = new.map /\ headers = Put(header, new.sector, new.chain)
          /\ tables = TablesWith(table, new.dir, new.entries)
  OBVIOUS
<1>7. Leads(writes', marked', header', table', map, headers, tables)
  <2>1. Leads(CreateWrites(new), marked, header, table, map, headers, tables)
    BY <1>3, <1>4, <1>6, CreateLeads DEF Made
  <2> QED
    BY <1>2, <2>1 DEF disk
<1>8. owners \in SUBSET Sectors
  BY <1>5 DEF Own
<1>9. new.dir \in dirs
  <2>1. Parent(path) \in Seq(Names)
    BY PathIs
  <2> QED
    BY <1>2, <1>3, <1>4, <1>5, <1>8, <2>1, DirectoryLinked DEF Made
<1> DEFINE more == [o \in owners \cup {new.sector} |-> IF o = new.sector THEN new.chain ELSE chain[o]]
<1>10. Own(map, headers, owners \cup {new.sector}, more) /\ new.sector \notin owners
  <2>1. Fresh(marked, new.sector, new.chain) /\ map = marked \cup Owned(new.sector, new.chain)
    BY <1>4, <1>6 DEF Made
  <2>2. new.sector \notin owners
    BY <1>5, <2>1 DEF Own, Fresh
  <2>3. more[new.sector] = new.chain /\ \A o \in owners : more[o] = chain[o]
    BY <2>2
  <2>4. Stored(headers, new.sector, new.chain) /\ \A t \in marked : headers[t] = header[t]
    BY <1>6, <2>1, PutStores
  <2> HIDE DEF more
  <2> QED
    BY <1>5, <2>1, <2>2, <2>3, <2>4, NewOwner
<1>11. Linked(tables, owners \cup {new.sector}, dirs)
  <2>1. PICK e : e = [name |-> Last(path), sector |-> new.sector, isDir |-> FALSE]
    OBVIOUS
  <2>2. e.sector = new.sector /\ ~ e.isDir /\ new.entries = table[new.dir] \cup {e}
    BY <1>4, <2>1 DEF Made
  <2>3. e.sector \notin owners
    BY <1>10, <2>2
  <2>4. Linked(TablesWith(table, new.dir, new.entries), owners \cup {e.sector}, dirs)
    BY <1>5, <1>8, <1>9, <2>2, <2>3, LinkFile
  <2> QED
    BY <1>6, <2>2, <2>4
<1> HIDE DEF more
<1> QED
  BY <1>7, <1>10, <1>11 DEF Sound

\* CreateDirectory to the new directory, which is not the one it is in.
LEMMA CreateDirectorySound ==
    ASSUME Types, Sound, NEW path \in Paths, CreateDirectory(path) PROVE Sound'
<1>1. PICK new : new = NewFile(path, DirectoryFileSize, TRUE)
  OBVIOUS
<1>2. /\ writes = << >> /\ IsDirectory(Parent(path)) /\ new.ok
      /\ writes' = CreateWrites(new) \o <<TableWrite(new.sector, {})>> /\ UNCHANGED disk
  BY <1>1 DEF CreateDirectory
<1>3. DiskTypes /\ DirectoryFileSize \in Nat /\ NumDirEntries \in Nat
  BY FileSystemAssumption DEF Types
<1>4. IsNewFile(new) /\ Made(new, path, DirectoryFileSize, TRUE)
  BY <1>1, <1>2, <1>3, NewFileIs, NewFileMade
<1>5. PICK owners, chain, dirs : Own(marked, header, owners, chain) /\ Linked(table, owners, dirs)
  BY <1>2, <1>3, SoundNow
<1>6. owners \in SUBSET Sectors
  BY <1>5 DEF Own
<1>7. new.dir \in dirs
  <2>1. Parent(path) \in Seq(Names)
    BY PathIs
  <2> QED
    BY <1>2, <1>3, <1>4, <1>5, <1>6, <2>1, DirectoryLinked DEF Made
<1>8. PICK map, headers, tables :
          /\ map = new.map /\ headers = Put(header, new.sector, new.chain)
          /\ tables = TablesWith(TablesWith(table, new.dir, new.entries), new.sector, {})
  OBVIOUS
<1>9. Fresh(marked, new.sector, new.chain) /\ map = marked \cup Owned(new.sector, new.chain)
  BY <1>4, <1>8 DEF Made
<1>10. new.sector \in Sectors \ owners
  BY <1>5, <1>9 DEF Own, Fresh
<1>11. new.sector # new.dir
  BY <1>5, <1>7, <1>10 DEF Linked
<1>12. Leads(writes', marked', header', table', map, headers, tables)
  <2>1. Leads(CreateDirectoryWrites(new), marked, header, table, map, headers, tables)
    BY <1>3, <1>4, <1>8, <1>9, <1>11, CreateDirectoryLeads
  <2> QED
    BY <1>2, <2>1 DEF disk, CreateDirectoryWrites
<1> DEFINE more == [o \in owners \cup {new.sector} |-> IF o = new.sector THEN new.chain ELSE chain[o]]
<1>13. Own(map, headers, owners \cup {new.sector}, more)
  <2>1. more[new.sector] = new.chain /\ \A o \in owners : more[o] = chain[o]
    BY <1>10
  <2>2. Stored(headers, new.sector, new.chain) /\ \A t \in marked : headers[t] = header[t]
    BY <1>8, <1>9, PutStores
  <2> HIDE DEF more
  <2> QED
    BY <1>5, <1>9, <2>1, <2>2, NewOwner
<1>14. Linked(tables, owners \cup {new.sector}, dirs \cup {new.sector})
  <2>1. PICK e : e = [name |-> Last(path), sector |-> new.sector, isDir |-> TRUE]
    OBVIOUS
  <2>2. e.sector = new.sector /\ new.entries = table[new.dir] \cup {e}
    BY <1>4, <2>1 DEF Made
  <2>3. Linked(TablesWith(TablesWith(table, new.dir, new.entries), e.sector, {}),
               owners \cup {e.sector}, dirs \cup {e.sector})
    BY <1>5, <1>6, <1>7, <1>10, <2>2, LinkDirectory
  <2> QED
    BY <1>8, <2>2, <2>3
<1> HIDE DEF more
<1> QED
  BY <1>12, <1>13, <1>14 DEF Sound

\* What an owner gives up when it goes leaves the others theirs.
LEMMA OwnedWithout ==
    ASSUME NEW map, NEW headers, NEW owners, NEW chain, Own(map, headers, owners, chain),
           NEW s \in owners, NEW freed, freed \subseteq Owned(s, chain[s])
    PROVE  /\ Own(map, headers, owners \ {s}, chain)
           /\ \A o \in owners \ {s} : Owned(o, chain[o]) \subseteq map \ freed
<1>1. owners \ {s} \in SUBSET owners /\ map \in SUBSET Sectors
  BY DEF Own
<1>2. \A o \in owners \ {s} : Owned(o, chain[o]) \subseteq map
  BY DEF Own, Holds
<1>3. Own(map, headers, owners \ {s}, chain)
  BY <1>1, <1>2, OwnStill
<1>4. ASSUME NEW o \in owners \ {s} PROVE Owned(o, chain[o]) \subseteq map \ freed
  <2>1. Owned(o, chain[o]) \cap Owned(s, chain[s]) = {}
    BY DEF Own
  <2> QED
    BY <1>2, <2>1
<1> QED
  BY <1>3, <1>4

\* The two writes of Remove lead to the smaller map and the root without the entry.
LEMMA RemoveLeads ==
    ASSUME NEW map, NEW left, NEW ws, ws = <<MapWrite(map), TableWrite(DirectorySector, left)>>
    PROVE  Leads(ws, marked, header, table, map, header, TablesWith(table, DirectorySector, left))
<1>1. Len(ws) = 2 /\ ws[1] = MapWrite(map) /\ ws[2] = TableWrite(DirectorySector, left)
  OBVIOUS
<1>2. /\ ws[1].to = "map" /\ ws[1].value = map
      /\ ws[2].to = "table" /\ ws[2].sector = DirectorySector /\ ws[2].value = left
  BY <1>1 DEF MapWrite, TableWrite
<1>3. 1 .. Len(ws) = {1, 2}
  BY <1>1
<1>4. MapWrites(ws) = {1}
  BY <1>2, <1>3 DEF MapWrites
<1>5. Settles(ws, MapWrites(ws), marked, map)
  BY <1>2, <1>4 DEF Settles
<1>6. ASSUME NEW s \in Sectors
      PROVE  /\ Settles(ws, HeaderWrites(ws, s), header[s], header[s])
             /\ Settles(ws, TableWrites(ws, s), table[s], TablesWith(table, DirectorySector, left)[s])
  <2>1. HeaderWrites(ws, s) = {}
    BY <1>2, <1>3 DEF HeaderWrites
  <2>2. TableWrites(ws, s) = IF s = DirectorySector THEN {2} ELSE {}
    BY <1>2, <1>3 DEF TableWrites
  <2>3. TablesWith(table, DirectorySector, left)[s] = IF s = DirectorySector THEN left ELSE table[s]
    BY DEF TablesWith
  <2> QED
    BY <1>2, <2>1, <2>2, <2>3 DEF Settles
<1> QED
  BY <1>5, <1>6 DEF Leads

\* Remove takes an owner away, with its entry.
LEMMA RemoveSound ==
    ASSUME Types, Sound, NEW name \in Names, Remove(name) PROVE Sound'
<1>1. PICK sector, freed, left :
          /\ sector = GetDirSector(<<name>>) /\ freed = DataSectors(FetchFrom(sector)) \cup {sector}
          /\ left = table[DirectorySector] \ Find(DirectorySector, name)
          /\ writes' = <<MapWrite(marked \ freed), TableWrite(DirectorySector, left)>>
  BY DEF Remove
<1>2. writes = << >> /\ Find(DirectorySector, name) # {} /\ UNCHANGED disk
  BY DEF Remove
<1>3. DiskTypes
  BY DEF Types
<1>4. PICK owners, chain, dirs : Own(marked, header, owners, chain) /\ Linked(table, owners, dirs)
  BY <1>2, <1>3, SoundNow
<1>5. owners \in SUBSET Sectors /\ DirectorySector \in dirs /\ DirectorySector \in Sectors
  BY <1>4 DEF Own, Linked
<1>6. PICK e \in Find(DirectorySector, name) : TRUE
  BY <1>2
<1>7. /\ Follow(DirectorySector, name) = e.sector /\ Find(DirectorySector, name) = {e}
      /\ e \in table[DirectorySector]
  BY <1>3, <1>5, OneEntry
<1>8. sector = e.sector
  <2>1. PICK p \in Seq(Names) : p = <<name>> /\ Len(p) = 1 /\ p[1] = name
    <3>1. name \in Names
      BY FileSystemAssumption
    <3>2. <<name>> \in Seq(Names) /\ Len(<<name>>) = 1 /\ <<name>>[1] = name
      BY <3>1
    <3> QED
      BY <3>2
  <2>2. 1 \in 1 .. Len(p) /\ 1 - 1 = 0
    BY <2>1
  <2>3. Place(p, 1) = Follow(Place(p, 0), p[1]) /\ Place(p, 0) = DirectorySector
    BY <2>2, PlaceSteps
  <2>4. Place(p, 1) = GetDirSector(p)
    BY <2>1, PlaceSteps
  <2> QED
    BY <1>1, <1>7, <2>1, <2>3, <2>4
<1>9. sector \in owners /\ sector \notin {FreeMapSector, DirectorySector}
  BY <1>4, <1>5, <1>7, <1>8 DEF Linked
<1>10. freed \subseteq Owned(sector, chain[sector])
  <2>1. FetchFrom(sector) = chain[sector]
    BY <1>4, <1>9, OwnedNow
  <2> QED
    BY <1>1, <2>1 DEF Owned, Taken
<1>11. PICK map : map = marked \ freed
  OBVIOUS
<1>12. Own(map, header, owners \ {sector}, chain)
  <2>1. /\ Own(marked, header, owners \ {sector}, chain)
        /\ \A o \in owners \ {sector} : Owned(o, chain[o]) \subseteq map
    BY <1>4, <1>9, <1>10, <1>11, OwnedWithout
  <2>2. map \in SUBSET Sectors /\ owners \ {sector} \in SUBSET (owners \ {sector})
    BY <1>3, <1>11 DEF DiskTypes
  <2> QED
    BY <2>1, <2>2, OwnStill
<1>13. PICK tables : tables = TablesWith(table, DirectorySector, left)
  OBVIOUS
<1>14. Linked(tables, owners \ {sector}, dirs \ {sector})
  <2>1. dirs \subseteq Sectors
    BY <1>4, <1>5 DEF Linked
  <2>2. \A d \in dirs : tables[d] = IF d = DirectorySector THEN table[d] \ {e} ELSE table[d]
    BY <1>1, <1>7, <1>13, <2>1 DEF TablesWith
  <2>3. \A d \in dirs : tables[d] \subseteq table[d]
    BY <2>2
  <2>4. ASSUME NEW d \in dirs, NEW f \in tables[d] PROVE f.sector # sector
    <3>1. SUFFICES ASSUME f.sector = sector PROVE FALSE
      OBVIOUS
    <3>2. d = DirectorySector /\ f = e
      BY <1>4, <1>5, <1>7, <1>8, <2>3, <3>1 DEF Linked
    <3> QED
      BY <2>2, <3>2
  <2>5. /\ {FreeMapSector, DirectorySector} \subseteq owners \ {sector}
        /\ DirectorySector \in dirs \ {sector} /\ dirs \ {sector} \subseteq owners \ {sector}
    BY <1>4, <1>9 DEF Linked
  <2>6. \A d \in dirs \ {sector} : \A f \in tables[d] :
            /\ f.sector \in (owners \ {sector}) \ {FreeMapSector, DirectorySector}
            /\ f.isDir => f.sector \in dirs \ {sector}
    BY <1>4, <2>3, <2>4 DEF Linked
  <2>7. \A c, d \in dirs \ {sector} : \A f \in tables[c], g \in tables[d] :
            f.sector = g.sector => c = d /\ f = g
    BY <1>4, <2>3 DEF Linked
  <2> QED
    BY <2>5, <2>6, <2>7 DEF Linked
<1>15. Leads(writes', marked', header', table', map, header, tables)
  <2>1. Leads(writes', marked, header, table, map, header, tables)
    BY <1>1, <1>11, <1>13, RemoveLeads
  <2> QED
    BY <1>2, <2>1 DEF disk
<1> QED
  BY <1>12, <1>14, <1>15 DEF Sound

\* Never stopped: sound.
NeverStopped == crashes = 0 => Sound
\* The disk as formatted is sound.
LEMMA InitSound == Init => NeverStopped
<1> SUFFICES ASSUME Init PROVE Sound
  BY DEF NeverStopped
<1>1. PICK owners, chain, dirs : Own(marked, header, owners, chain) /\ Linked(table, owners, dirs)
  BY InitOwn
<1>2. writes = << >>
  BY DEF Init
<1> QED
  BY <1>1, <1>2, NothingLeads DEF Sound
\* Every step but a stop keeps it sound.
LEMMA NextSound == Types /\ NeverStopped /\ [Next]_vars => NeverStopped'
<1> SUFFICES ASSUME Types, NeverStopped, [Next]_vars PROVE NeverStopped'
  OBVIOUS
<1>1. CASE UNCHANGED vars
  BY <1>1 DEF vars, disk, NeverStopped, Sound
<1>2. ASSUME NEW path \in Paths, NEW size \in Sizes, Create(path, size) PROVE NeverStopped'
  BY <1>2, CreateSound DEF NeverStopped, Create
<1>3. ASSUME NEW path \in Paths, CreateDirectory(path) PROVE NeverStopped'
  BY <1>3, CreateDirectorySound DEF NeverStopped, CreateDirectory
<1>4. ASSUME NEW name \in Names, Remove(name) PROVE NeverStopped'
  BY <1>4, RemoveSound DEF NeverStopped, Remove
<1>5. CASE WriteNext
  <2>1. crashes' = crashes
    BY <1>5 DEF WriteNext
  <2>2. ASSUME Sound PROVE Sound'
    <3>1. PICK map, headers, tables, owners, chain, dirs :
              /\ Leads(writes, marked, header, table, map, headers, tables)
              /\ Own(map, headers, owners, chain) /\ Linked(tables, owners, dirs)
      BY <2>2 DEF Sound
    <3>2. Leads(writes', marked', header', table', map, headers, tables)
      BY <1>5, <3>1, WriteLeads
    <3> QED
      BY <3>1, <3>2 DEF Sound
  <2> QED
    BY <2>1, <2>2 DEF NeverStopped
<1>6. CASE Crash
  <2>1. crashes' = crashes + 1 /\ crashes \in Nat
    BY <1>6, FileSystemAssumption DEF Crash, Types, CallTypes
  <2> QED
    BY <2>1 DEF NeverStopped
<1> QED
  BY <1>1, <1>2, <1>3, <1>4, <1>5, <1>6 DEF Next

\* Between two calls a sound disk is as SectorsOwnedOnce says.
LEMMA SoundOwns == DiskTypes /\ Sound => SectorsOwnedOnce
<1> SUFFICES ASSUME DiskTypes, Sound, writes = << >>
             PROVE  /\ \A s \in Owners(Present) : /\ ChainSectors(s) \subseteq marked
                                                  /\ Cardinality(ChainSectors(s)) = NumOwned(s)
                    /\ \A s, t \in Owners(Present) : s # t => ChainSectors(s) \cap ChainSectors(t) = {}
                    /\ \A p, q \in Present : GetDirSector(p) = GetDirSector(q) => p = q
  BY DEF SectorsOwnedOnce, Separate, Quiescent
<1>1. PICK owners, chain, dirs : Own(marked, header, owners, chain) /\ Linked(table, owners, dirs)
  BY SoundNow
<1>2. owners \in SUBSET Sectors
  BY <1>1 DEF Own
<1>3. ASSUME NEW p \in Present PROVE GetDirSector(p) \in owners
  <2>1. p \in Seq(Names) /\ p # << >> /\ Exists(p)
    BY PathIs DEF Present
  <2>2. PICK d \in dirs : \E e \in table[d] : e.sector = GetDirSector(p)
    BY <1>1, <1>2, <2>1, PresentLinked
  <2> QED
    BY <1>1, <2>2 DEF Linked
<1>4. Owners(Present) \subseteq owners
  BY <1>1, <1>3 DEF Owners, Linked
<1>5. \A s \in Owners(Present) :
          /\ ChainSectors(s) = Owned(s, chain[s]) /\ ChainSectors(s) \subseteq marked
          /\ Cardinality(ChainSectors(s)) = NumOwned(s)
  BY <1>1, <1>4, OwnedNow
<1>6. \A s, t \in Owners(Present) : s # t => ChainSectors(s) \cap ChainSectors(t) = {}
  BY <1>1, <1>4, <1>5 DEF Own
<1>7. \A p, q \in Present : GetDirSector(p) = GetDirSector(q) => p = q
  BY <1>1, <1>2, PresentDiffer, PathIs DEF Present
<1> QED
  BY <1>5, <1>6, <1>7
\* Between two calls each sector belongs to one file or directory at most, in one
\* place of it, and is marked in the free map, as long as the machine was never
\* stopped in the middle of a call: FindAndSet hands out clear sectors only
\* (lib/bitmap.cc 112-123), a call that succeeds writes the map it took them from,
\* and Remove clears no sector of anything that stays.
THEOREM OwnedOnceUnlessStopped == Spec => [](crashes = 0 => SectorsOwnedOnce)
<1>1. Init => Types /\ NeverStopped
  BY InitTypes, InitSound
<1>2. Types /\ NeverStopped /\ [Next]_vars => (Types /\ NeverStopped)'
  BY NextTypes, NextSound
<1>3. Types /\ NeverStopped => (crashes = 0 => SectorsOwnedOnce)
  BY SoundOwns DEF Types, NeverStopped
<1> QED
  BY <1>1, <1>2, <1>3, PTL DEF Spec

\* So it is always where the machine never stops in the middle of a call;
\* filesys.cc claims nothing of one that does (38-40).
THEOREM OwnedOnce == ASSUME MaxCrashes = 0 PROVE Spec => []SectorsOwnedOnce
<1>1. Types => crashes = 0
  BY DEF Types, CallTypes
<1>2. Types /\ (crashes = 0 => SectorsOwnedOnce) => SectorsOwnedOnce
  BY <1>1
<1> QED
  BY <1>2, TypesHold, OwnedOnceUnlessStopped, PTL

-----------------------------------------------------------------------------
(* Where in a chain a sector of the file is.                               *)

\* The k-th sector of a file, from 0, is the r-th of its i-th header.
PlacedAt(chain, k, i, r) ==
    /\ i \in 1 .. Len(chain) /\ r \in 1 .. Len(chain[i].dataSectors)
    /\ k = NumDirect * (i - 1) + (r - 1)
InFile(chain, k) == \E i, r : PlacedAt(chain, k, i, r)

\* ByteToSector's way from one header to the next.
InRow(chain, g, i) == [o \in Int |->
    IF o \div SectorSize < NumDirect \/ i = Len(chain)
      THEN chain[i].dataSectors[(o \div SectorSize) + 1]
      ELSE g[o - MaxFileSize]]
Ins(chain, f, m) == f = [i \in m .. Len(chain) |-> InRow(chain, f[i + 1], i)]

\* At the last header it ends.
LEMMA InRowLast == \A chain, g, h : InRow(chain, g, Len(chain)) = InRow(chain, h, Len(chain))
<1> SUFFICES ASSUME NEW chain, NEW g, NEW h PROVE InRow(chain, g, Len(chain)) = InRow(chain, h, Len(chain))
  OBVIOUS
<1>1. ASSUME NEW x
      PROVE  InRow(chain, x, Len(chain)) = [o \in Int |-> chain[Len(chain)].dataSectors[(o \div SectorSize) + 1]]
  BY DEF InRow
<1> QED
  BY <1>1

\* There is a function that goes it, from any header.
LEMMA InsExist ==
    ASSUME NEW chain, NEW l \in Nat, l = Len(chain)
    PROVE  \A n \in Nat : n < l => \E f : Ins(chain, f, l - n)
<1> DEFINE T == {n \in Nat : n < l => \E f : Ins(chain, f, l - n)}
<1>1. ASSUME NEW n \in Nat, \A j \in 0 .. n - 1 : j \in T, n < l PROVE \E f : Ins(chain, f, l - n)
  <2>1. CASE n = 0
    <3> DEFINE f == [i \in l .. l |-> InRow(chain, << >>, i)]
    <3>1. \A i \in l .. l : InRow(chain, << >>, i) = InRow(chain, f[i + 1], i)
      <4> HIDE DEF f
      <4> QED
        BY InRowLast
    <3>2. f = [i \in l .. l |-> InRow(chain, f[i + 1], i)]
      <4>1. \A i \in l .. l : f[i] = InRow(chain, f[i + 1], i)
        BY <3>1
      <4>2. f = [i \in l .. l |-> f[i]]
        OBVIOUS
      <4> HIDE DEF f
      <4> QED
        BY <4>1, <4>2
    <3>3. l - n = l
      BY <2>1
    <3>4. Ins(chain, f, l - n)
      <4> HIDE DEF f
      <4> QED
        BY <3>2, <3>3 DEF Ins
    <3> QED
      BY <3>4
  <2>2. CASE n > 0
    <3>1. n < l
      BY <1>1
    <3>2. PICK m \in Nat : m = l - n
      <4>1. l \in Nat /\ n \in Nat
        OBVIOUS
      <4>2. l - n \in Nat
        BY <3>1, <4>1
      <4> QED
        BY <4>2
    <3>3. m + 1 = l - (n - 1) /\ m < l /\ n - 1 \in 0 .. n - 1 /\ n - 1 < l
      BY <2>2, <3>1, <3>2
    <3>4. PICK f : Ins(chain, f, m + 1)
      BY <1>1, <3>3
    <3>5. \A i \in m + 1 .. l : f[i] = InRow(chain, f[i + 1], i)
      <4>1. f = [i \in m + 1 .. l |-> InRow(chain, f[i + 1], i)]
        BY <3>4 DEF Ins
      <4> DEFINE row(i) == InRow(chain, f[i + 1], i)
      <4>2. f = [i \in m + 1 .. l |-> row(i)]
        BY <4>1
      <4>3. \A i \in m + 1 .. l : f[i] = row(i)
        <5> HIDE DEF row
        <5> QED
          BY <4>2
      <4> QED
        BY <4>3
    <3> DEFINE g == [i \in m .. l |-> IF i = m THEN InRow(chain, f[m + 1], m) ELSE f[i]]
    <3>6. g = [i \in m .. l |-> g[i]]
      OBVIOUS
    <3>7. m \in m .. l /\ g[m] = InRow(chain, f[m + 1], m) /\ \A i \in m + 1 .. l : g[i] = f[i]
      BY <3>3
    <3> HIDE DEF g
    <3>8. m + 1 \in m + 1 .. l /\ g[m + 1] = f[m + 1]
      BY <3>3, <3>7
    <3>9. ASSUME NEW i \in m .. l PROVE g[i] = InRow(chain, g[i + 1], i)
      <4>1. CASE i = m
        BY <3>7, <3>8, <4>1
      <4>2. CASE i # m /\ i # l
        <5>1. i \in m + 1 .. l /\ i + 1 \in m + 1 .. l
          BY <4>2
        <5>2. g[i] = f[i] /\ g[i + 1] = f[i + 1] /\ f[i] = InRow(chain, f[i + 1], i)
          BY <3>5, <3>7, <5>1
        <5> QED
          BY <5>2
      <4>3. CASE i # m /\ i = l
        <5>1. i \in m + 1 .. l
          BY <4>3
        <5>2. g[i] = f[i] /\ f[i] = InRow(chain, f[i + 1], i)
          BY <3>5, <3>7, <5>1
        <5> QED
          BY <4>3, <5>2, InRowLast
      <4> QED
        BY <4>1, <4>2, <4>3
    <3>10. g = [i \in m .. l |-> InRow(chain, g[i + 1], i)]
      BY <3>6, <3>9
    <3>11. Ins(chain, g, l - n)
      BY <3>2, <3>10 DEF Ins
    <3> QED
      BY <3>11
  <2> QED
    BY <2>1, <2>2
<1>2. \A n \in Nat : n \in T
  <2>1. \A n \in Nat : (\A j \in 0 .. n - 1 : j \in T) => n \in T
    BY <1>1
  <2> HIDE DEF T
  <2> QED
    BY <2>1, AllNumbers
<1> QED
  BY <1>2

\* What fits in a header's bytes needs no more than its sectors, and all it needs.
LEMMA RoundUpAtMost ==
    ASSUME NEW d \in Nat \ {0}, NEW n \in Nat, NEW b \in 0 .. n * d
    PROVE  divRoundUp(b, d) \in Nat /\ divRoundUp(b, d) <= n /\ b <= divRoundUp(b, d) * d
<1>1. PICK x \in Nat, e \in Nat : x = n * d /\ e = b + d - 1 /\ b <= x
  OBVIOUS
<1>2. PICK u \in Nat, v \in 0 .. d - 1 : e = d * u + v /\ u = e \div d
  BY <1>1
<1>3. divRoundUp(b, d) = u
  BY <1>1, <1>2 DEF divRoundUp
<1>4. u <= n
  <2>1. SUFFICES ASSUME u > n PROVE FALSE
    BY <1>3
  <2>2. PICK t \in Nat : u = n + 1 + t
    <3>1. u - n - 1 \in Nat /\ u = n + 1 + (u - n - 1)
      BY <2>1
    <3> QED
      BY <3>1
  <2>3. PICK w \in Nat : w = n + t /\ u = w + 1
    BY <2>2
  <2>4. d * (w + 1) = d * w + d * 1 /\ d * (n + t) = d * n + d * t /\ d * n = n * d
    BY Distributes
  <2>5. PICK y \in Nat, z \in Nat : y = d * w /\ z = d * t
    OBVIOUS
  <2>6. y = x + z /\ d * u = y + d
    BY <1>1, <2>3, <2>4, <2>5
  <2> QED
    BY <1>1, <1>2, <2>6
<1>5. b <= u * d
  <2>1. PICK y \in Nat : y = d * u /\ y = u * d
    BY Distributes
  <2> QED
    BY <1>1, <1>2, <2>1
<1> QED
  BY <1>3, <1>4, <1>5

\* ByteToSector finds a sector of the file in its place.
LEMMA SectorOfIs ==
    ASSUME NEW chain, IsChain(chain), Laid(chain), NEW k, NEW i, NEW r, PlacedAt(chain, k, i, r)
    PROVE  SectorOf(chain, k) = chain[i].dataSectors[r]
<1>1. NumDirect \in Nat \ {0} /\ SectorSize \in Nat \ {0} /\ MaxFileSize \in Nat /\ MaxFileSize = NumDirect * SectorSize
  BY DiskAssumption, HeaderSizes DEF MaxFileSize
<1>2. PICK l \in Nat : l = Len(chain) /\ l >= 1
  BY DEF IsChain
<1>3. \E f : Ins(chain, f, 1)
  <2>1. l - 1 \in Nat /\ l - 1 < l /\ l - (l - 1) = 1
    BY <1>2
  <2> QED
    BY <1>2, <2>1, InsExist
<1> DEFINE c == CHOOSE f : Ins(chain, f, 1)
<1>4. Ins(chain, c, 1)
  BY <1>3
<1>5. \A o : ByteToSector(chain, o) = c[1][o]
  BY DEF ByteToSector, Ins, InRow
<1> HIDE DEF c
<1>6. \A j \in 1 .. l : c[j] = InRow(chain, c[j + 1], j)
  <2> DEFINE row(j) == InRow(chain, c[j + 1], j)
  <2>1. c = [j \in 1 .. l |-> row(j)]
    BY <1>2, <1>4 DEF Ins
  <2>2. \A j \in 1 .. l : c[j] = row(j)
    <3> HIDE DEF row
    <3> QED
      BY <2>1
  <2> QED
    BY <2>2
<1>7. ASSUME NEW j \in 1 .. l, NEW x \in Nat
      PROVE  c[j][x * SectorSize] = IF x < NumDirect \/ j = l THEN chain[j].dataSectors[x + 1]
                                    ELSE c[j + 1][(x - NumDirect) * SectorSize]
  <2>1. PICK o \in Int : o = x * SectorSize
    BY <1>1
  <2>2. o \div SectorSize = x
    <3>1. (0 + x * SectorSize) \div SectorSize = (0 \div SectorSize) + x
      <4>1. PICK a \in Int, y \in Int : a = 0 /\ y = x
        OBVIOUS
      <4>2. (a + y * SectorSize) \div SectorSize = (a \div SectorSize) + y
        BY <1>1, DivideSum
      <4> QED
        BY <4>1, <4>2
    <3>2. 0 \div SectorSize = 0
      BY <1>1, DivideSmall
    <3> QED
      BY <2>1, <3>1, <3>2
  <2>3. o - MaxFileSize = (x - NumDirect) * SectorSize
    <3>1. PICK y \in Int : y = x - NumDirect /\ x = y + NumDirect
      BY <1>1
    <3>2. SectorSize * (y + NumDirect) = SectorSize * y + SectorSize * NumDirect
          /\ SectorSize * y = y * SectorSize /\ SectorSize * NumDirect = NumDirect * SectorSize
          /\ SectorSize * x = x * SectorSize
      BY <1>1, Distributes
    <3>3. PICK a \in Int, b \in Int : a = y * SectorSize /\ b = NumDirect * SectorSize
      BY <1>1
    <3>4. o = a + b
      BY <2>1, <3>1, <3>2, <3>3
    <3> QED
      BY <1>1, <3>1, <3>3, <3>4
  <2>4. InRow(chain, c[j + 1], j)[o] = IF o \div SectorSize < NumDirect \/ j = Len(chain)
                                         THEN chain[j].dataSectors[(o \div SectorSize) + 1]
                                         ELSE c[j + 1][o - MaxFileSize]
    BY DEF InRow
  <2> QED
    BY <1>2, <1>6, <2>1, <2>2, <2>3, <2>4
<1> DEFINE T == {q \in Nat : \A j \in 1 .. l, s \in 0 .. NumDirect - 1 :
                    j + q <= l => c[j][(NumDirect * q + s) * SectorSize] = chain[j + q].dataSectors[s + 1]}
<1>8. ASSUME NEW q \in Nat, \A p \in 0 .. q - 1 : p \in T,
             NEW j \in 1 .. l, NEW s \in 0 .. NumDirect - 1, j + q <= l
      PROVE  c[j][(NumDirect * q + s) * SectorSize] = chain[j + q].dataSectors[s + 1]
  <2>1. CASE q = 0
    <3>1. NumDirect * q + s = s /\ j + q = j /\ s \in Nat /\ s < NumDirect
      BY <1>1, <2>1
    <3>2. c[j][s * SectorSize] = chain[j].dataSectors[s + 1]
      BY <1>7, <3>1
    <3> QED
      BY <3>1, <3>2
  <2>2. CASE q > 0
    <3>1. PICK p \in 0 .. q - 1 : p = q - 1 /\ p \in Nat /\ q = p + 1
      BY <2>2
    <3>2. PICK a \in Nat, x \in Nat : a = NumDirect * p + s /\ x = NumDirect * q + s
      <4>1. NumDirect * p \in Nat /\ NumDirect * q \in Nat
        BY <1>1, <3>1
      <4> QED
        BY <1>1, <4>1
    <3>3. x = NumDirect + a
      <4>1. NumDirect * (p + 1) = NumDirect * p + NumDirect * 1
        BY <1>1, <3>1, Distributes
      <4>2. PICK b \in Nat : b = NumDirect * p
        BY <1>1, <3>1
      <4>3. NumDirect * q = b + NumDirect
        BY <1>1, <3>1, <4>1, <4>2
      <4> QED
        BY <1>1, <3>2, <4>2, <4>3
    <3>4. ~ (x < NumDirect) /\ j # l /\ x - NumDirect = a /\ j + 1 \in 1 .. l /\ (j + 1) + p = j + q /\ (j + 1) + p <= l
      BY <1>1, <1>8, <2>2, <3>1, <3>3
    <3>5. c[j][x * SectorSize] = c[j + 1][a * SectorSize]
      BY <1>7, <3>4
    <3>6. c[j + 1][a * SectorSize] = chain[(j + 1) + p].dataSectors[s + 1]
      <4>1. p \in T
        BY <1>8, <3>1
      <4> QED
        BY <3>2, <3>4, <4>1
    <3> QED
      BY <3>2, <3>4, <3>5, <3>6
  <2> QED
    BY <2>1, <2>2
<1>9. \A q \in Nat : q \in T
  <2>1. \A q \in Nat : (\A p \in 0 .. q - 1 : p \in T) => q \in T
    BY <1>8
  <2> HIDE DEF T
  <2> QED
    BY <2>1, AllNumbers
<1>10. Len(chain[i].dataSectors) <= NumDirect
  <2>1. PICK b \in 0 .. MaxFileSize : b = chain[i].numBytes /\ Len(chain[i].dataSectors) = divRoundUp(b, SectorSize)
    BY DEF PlacedAt, IsChain, IsHeader
  <2>2. divRoundUp(b, SectorSize) <= NumDirect
    BY <1>1, RoundUpAtMost
  <2> QED
    BY <2>1, <2>2
<1>11. PICK q \in Nat, s \in 0 .. NumDirect - 1 : q = i - 1 /\ s = r - 1 /\ 1 + q = i /\ s + 1 = r /\ i \in 1 .. l
  <2>1. i \in 1 .. l /\ r \in 1 .. Len(chain[i].dataSectors)
    BY <1>2 DEF PlacedAt
  <2>2. Len(chain[i].dataSectors) \in Nat
    BY DEF PlacedAt, IsChain, IsHeader
  <2> QED
    BY <1>1, <1>10, <2>1, <2>2
<1>12. c[1][(NumDirect * q + s) * SectorSize] = chain[1 + q].dataSectors[s + 1]
  <2>1. q \in T
    BY <1>9
  <2>2. 1 \in 1 .. l /\ 1 + q <= l
    BY <1>2, <1>11
  <2> QED
    BY <2>1, <2>2
<1>13. k = NumDirect * q + s
  BY <1>11 DEF PlacedAt
<1> QED
  BY <1>5, <1>11, <1>12, <1>13 DEF SectorOf

\* Different sectors of a file are different sectors of the disk, all data sectors
\* of the chain.
LEMMA FileSectors ==
    ASSUME NEW chain, IsChain(chain), Laid(chain)
    PROVE  /\ \A k : InFile(chain, k) => SectorOf(chain, k) \in DataSectors(chain) /\ SectorOf(chain, k) \in Sectors
           /\ \A k, m : InFile(chain, k) /\ InFile(chain, m) /\ SectorOf(chain, k) = SectorOf(chain, m) => k = m
<1>1. ASSUME NEW k, InFile(chain, k)
      PROVE  SectorOf(chain, k) \in DataSectors(chain) /\ SectorOf(chain, k) \in Sectors
  <2>1. PICK i, r : PlacedAt(chain, k, i, r)
    BY <1>1 DEF InFile
  <2>2. SectorOf(chain, k) = chain[i].dataSectors[r]
    BY <2>1, SectorOfIs
  <2>3. i \in 1 .. Len(chain) /\ r \in 1 .. Len(chain[i].dataSectors)
    BY <2>1 DEF PlacedAt
  <2>4. chain[i].dataSectors[r] \in {chain[i].dataSectors[j] : j \in 1 .. Len(chain[i].dataSectors)}
    BY <2>3
  <2>5. chain[i].dataSectors[r] \in DataSectors(chain)
    BY <2>3, <2>4 DEF DataSectors
  <2>6. PICK d \in Seq(Sectors) : d = chain[i].dataSectors
    BY <2>3 DEF IsChain, IsHeader
  <2>7. d[r] \in Sectors
    BY <2>3, <2>6
  <2> QED
    BY <2>2, <2>5, <2>6, <2>7
<1>2. ASSUME NEW k, NEW m, InFile(chain, k), InFile(chain, m), SectorOf(chain, k) = SectorOf(chain, m)
      PROVE  k = m
  <2>1. PICK i, r : PlacedAt(chain, k, i, r)
    BY <1>2 DEF InFile
  <2>2. PICK j, t : PlacedAt(chain, m, j, t)
    BY <1>2 DEF InFile
  <2>3. SectorOf(chain, k) = chain[i].dataSectors[r] /\ SectorOf(chain, m) = chain[j].dataSectors[t]
    BY <2>1, <2>2, SectorOfIs
  <2>4. /\ i \in 1 .. Len(chain) /\ r \in 1 .. Len(chain[i].dataSectors)
        /\ j \in 1 .. Len(chain) /\ t \in 1 .. Len(chain[j].dataSectors)
    BY <2>1, <2>2 DEF PlacedAt
  <2>5. i = j
    <3>1. SUFFICES ASSUME i # j PROVE FALSE
      OBVIOUS
    <3>2. Apart(chain[i].dataSectors, chain[j].dataSectors)
      BY <2>4, <3>1 DEF Laid
    <3> QED
      BY <1>2, <2>3, <2>4, <3>2 DEF Apart
  <2>6. r = t
    <3>1. Once(chain[i].dataSectors)
      BY <2>4 DEF Laid
    <3> QED
      BY <1>2, <2>3, <2>4, <2>5, <3>1 DEF Once
  <2> QED
    BY <2>1, <2>2, <2>5, <2>6 DEF PlacedAt
<1> QED
  BY <1>1, <1>2

\* A file is as long as its full headers and the last one.
LEMMA FullLength ==
    ASSUME NEW chain, IsChain(chain), Laid(chain)
    PROVE  /\ FileLength(chain) = MaxFileSize * (Len(chain) - 1) + chain[Len(chain)].numBytes
           /\ FileLength(chain) \in Nat
<1>1. PICK l \in Nat : l = Len(chain) /\ l >= 1
  BY DEF IsChain
<1>2. MaxFileSize \in Nat /\ \A i \in 1 .. l : chain[i].numBytes \in Nat
  <2>1. PICK m \in Nat : m = MaxFileSize
    BY DiskAssumption DEF MaxFileSize
  <2>2. \A i \in 1 .. l : chain[i].numBytes \in 0 .. MaxFileSize
    BY <1>1 DEF IsChain, IsHeader
  <2> QED
    BY <2>1, <2>2
<1>3. PICK f : Sums(f, Bytes(chain), l) /\ FileLength(chain) = f[l]
  BY <1>1, FileLengthIs
<1>4. f[0] = 0 /\ \A i \in 1 .. l : f[i] = f[i - 1] + Bytes(chain)[i]
  BY <1>3, SumSteps
<1>5. \A i \in 1 .. l : Bytes(chain)[i] = chain[i].numBytes
  BY <1>1 DEF Bytes
<1>6. \A i \in 1 .. l - 1 : chain[i].numBytes = MaxFileSize
  BY <1>1 DEF Laid
<1> DEFINE T == {i \in Nat : i <= l - 1 => f[i] = MaxFileSize * i}
<1>7. ASSUME NEW i \in Nat, \A j \in 0 .. i - 1 : j \in T, i <= l - 1 PROVE f[i] = MaxFileSize * i
  <2>1. CASE i = 0
    BY <1>2, <1>4, <2>1
  <2>2. CASE i > 0
    <3>1. PICK j \in 0 .. i - 1 : j = i - 1 /\ j \in Nat /\ j <= l - 1 /\ i = j + 1
      BY <1>1, <1>7, <2>2
    <3>2. f[j] = MaxFileSize * j
      BY <1>7, <3>1
    <3>3. i \in 1 .. l /\ i \in 1 .. l - 1
      BY <1>1, <1>7, <2>2
    <3>4. f[i] = f[j] + MaxFileSize
      BY <1>4, <1>5, <1>6, <3>1, <3>3
    <3>5. MaxFileSize * (j + 1) = MaxFileSize * j + MaxFileSize * 1
      BY <1>2, <3>1, Distributes
    <3>6. PICK a \in Nat : a = MaxFileSize * j
      BY <1>2, <3>1
    <3>7. MaxFileSize * i = a + MaxFileSize
      BY <1>2, <3>1, <3>5, <3>6
    <3> QED
      BY <3>2, <3>4, <3>6, <3>7
  <2> QED
    BY <2>1, <2>2
<1>8. \A i \in Nat : i \in T
  <2>1. \A i \in Nat : (\A j \in 0 .. i - 1 : j \in T) => i \in T
    BY <1>7
  <2> HIDE DEF T
  <2> QED
    BY <2>1, AllNumbers
<1>9. f[l - 1] = MaxFileSize * (l - 1)
  <2>1. l - 1 \in Nat /\ l - 1 <= l - 1
    BY <1>1
  <2> QED
    BY <1>8, <2>1
<1>10. f[l] = f[l - 1] + chain[l].numBytes
  <2>1. l \in 1 .. l
    BY <1>1
  <2> QED
    BY <1>4, <1>5, <2>1
<1>11. MaxFileSize * (l - 1) \in Nat /\ chain[l].numBytes \in Nat
  <2>1. l - 1 \in Nat /\ l \in 1 .. l
    BY <1>1
  <2> QED
    BY <1>2, <2>1
<1> QED
  BY <1>1, <1>3, <1>9, <1>10, <1>11

\* Multiplication does not mind the order.
LEMMA Reassociates ==
    ASSUME NEW a \in Int, NEW b \in Int, NEW c \in Int
    PROVE  (a * b) * c = b * (a * c)
  OBVIOUS

\* Every number is a quotient and a remainder.
LEMMA Quotient ==
    ASSUME NEW d \in Nat \ {0}, NEW a \in Nat
    PROVE  \E q \in Nat : \E r \in 0 .. d - 1 : a = d * q + r
<1>1. PICK q \in Int : q = a \div d
  OBVIOUS
<1>2. PICK r \in 0 .. d - 1 : a = d * q + r
  BY <1>1
<1>3. q \in Nat
  <2>1. q >= 0
    BY <1>1, <1>2
  <2> QED
    BY <1>1, <2>1
<1> QED
  BY <1>2, <1>3

\* The sector of each byte is one of the file's.
LEMMA BytesInFile ==
    ASSUME NEW chain, IsChain(chain), Laid(chain), NEW o \in Nat, o < FileLength(chain)
    PROVE  InFile(chain, o \div SectorSize)
<1>1. /\ NumDirect \in Nat \ {0} /\ SectorSize \in Nat \ {0} /\ MaxFileSize \in Nat \ {0}
      /\ MaxFileSize = NumDirect * SectorSize
  BY DiskAssumption, HeaderSizes DEF MaxFileSize
<1>2. PICK l \in Nat : l = Len(chain) /\ l >= 1
  BY DEF IsChain
<1>3. PICK q \in Nat, v \in 0 .. MaxFileSize - 1 : o = MaxFileSize * q + v
  <2>1. PICK m \in Nat \ {0} : m = MaxFileSize
    BY <1>1
  <2>2. \E q \in Nat : \E v \in 0 .. m - 1 : o = m * q + v
    BY Quotient
  <2> QED
    BY <2>1, <2>2
<1>4. PICK s \in Nat, w \in 0 .. SectorSize - 1 : v = SectorSize * s + w
  <2>1. v \in Nat
    BY <1>1
  <2> QED
    BY <1>1, <2>1, Quotient
<1>5. PICK b \in 0 .. MaxFileSize : b = chain[l].numBytes
  BY <1>2 DEF IsChain, IsHeader
<1>6. o < MaxFileSize * (l - 1) + b
  BY <1>2, <1>5, FullLength
<1>7. q <= l - 1 /\ (q = l - 1 => v < b)
  <2>0. PICK p \in Nat : p = l - 1
    BY <1>2
  <2>1. PICK a \in Nat : p = l - 1 /\ a = MaxFileSize * p
    BY <1>1, <2>0
  <2>2. PICK y \in Nat : y = MaxFileSize * q
    BY <1>1
  <2>3. y + v < a + b
    BY <1>2, <1>3, <1>6, <2>1, <2>2
  <2>4. q <= p
    <3>1. SUFFICES ASSUME q > p PROVE FALSE
      OBVIOUS
    <3>2. PICK e \in Nat : q = p + (1 + e)
      <4>1. q - p - 1 \in Nat /\ q = p + (1 + (q - p - 1))
        BY <3>1
      <4> QED
        BY <4>1
    <3>3. PICK t \in Nat : t = 1 + e
      OBVIOUS
    <3>4. MaxFileSize * (p + t) = MaxFileSize * p + MaxFileSize * t
          /\ MaxFileSize * (1 + e) = MaxFileSize * 1 + MaxFileSize * e
      BY <1>1, Distributes
    <3>5. PICK x \in Nat : x = MaxFileSize * e
      BY <1>1
    <3>6. y = a + (MaxFileSize + x)
      BY <1>1, <2>1, <2>2, <3>2, <3>3, <3>4, <3>5
    <3> QED
      BY <1>1, <2>3, <3>6
  <2> QED
    BY <2>1, <2>2, <2>3, <2>4
<1>8. o \div SectorSize = NumDirect * q + s
  <2>1. PICK k \in Nat : k = NumDirect * q + s
    BY <1>1
  <2>2. o = w + k * SectorSize
    <3>1. PICK x \in Nat, y \in Nat : x = NumDirect * q /\ y = SectorSize * x
      BY <1>1
    <3>2. SectorSize * (x + s) = SectorSize * x + SectorSize * s /\ SectorSize * k = k * SectorSize
      BY <1>1, Distributes
    <3>3. MaxFileSize * q = y
      <4>1. (NumDirect * SectorSize) * q = SectorSize * (NumDirect * q)
        BY <1>1, Reassociates
      <4> QED
        BY <1>1, <3>1, <4>1
    <3>4. PICK z \in Nat : z = SectorSize * s
      BY <1>1
    <3> QED
      BY <1>1, <1>3, <1>4, <2>1, <3>1, <3>2, <3>3, <3>4
  <2>3. (w + k * SectorSize) \div SectorSize = (w \div SectorSize) + k
    <3>1. PICK a \in Int, c \in Int : a = w /\ c = k
      BY <1>1
    <3>2. (a + c * SectorSize) \div SectorSize = (a \div SectorSize) + c
      BY <1>1, DivideSum
    <3> QED
      BY <3>1, <3>2
  <2>4. w \div SectorSize = 0
    BY <1>1, DivideSmall
  <2> QED
    BY <2>1, <2>2, <2>3, <2>4
<1>9. PICK i \in 1 .. l, r \in Nat \ {0} : i = q + 1 /\ i - 1 = q /\ r = s + 1 /\ r - 1 = s
  BY <1>2, <1>7
<1>10. r <= Len(chain[i].dataSectors) /\ Len(chain[i].dataSectors) \in Nat
  <2>1. PICK n \in 0 .. MaxFileSize, d \in Nat :
            /\ n = chain[i].numBytes /\ d = Len(chain[i].dataSectors) /\ d = divRoundUp(n, SectorSize)
    BY <1>1, <1>2 DEF IsChain, IsHeader
  <2>2. v < n
    <3>1. CASE q = l - 1
      BY <1>1, <1>2, <1>5, <1>7, <1>9, <2>1, <3>1
    <3>2. CASE q # l - 1
      <4>1. i \in 1 .. Len(chain) - 1
        BY <1>2, <1>7, <1>9, <3>2
      <4>2. n = MaxFileSize
        BY <2>1, <4>1 DEF Laid
      <4> QED
        BY <1>1, <4>2
    <3> QED
      BY <3>1, <3>2
  <2>3. n <= d * SectorSize
    BY <1>1, <2>1, RoundUpAtMost
  <2>4. s < d
    <3>1. SUFFICES ASSUME s >= d PROVE FALSE
      BY <2>1
    <3>2. PICK e \in Nat : s = d + e
      <4>1. s - d \in Nat /\ s = d + (s - d)
        BY <2>1, <3>1
      <4> QED
        BY <4>1
    <3>3. SectorSize * (d + e) = SectorSize * d + SectorSize * e /\ SectorSize * d = d * SectorSize
      BY <1>1, <2>1, Distributes
    <3>4. PICK x \in Nat, y \in Nat : x = SectorSize * d /\ y = SectorSize * e
      BY <1>1, <2>1
    <3>5. v = x + y + w
      BY <1>4, <3>2, <3>3, <3>4
    <3> QED
      BY <1>1, <2>1, <2>2, <2>3, <3>3, <3>4, <3>5
  <2> QED
    BY <1>9, <2>1, <2>4
<1>11. PlacedAt(chain, o \div SectorSize, i, r)
  <2>1. r \in 1 .. Len(chain[i].dataSectors)
    BY <1>9, <1>10
  <2> QED
    BY <1>2, <1>8, <1>9, <2>1 DEF PlacedAt
<1> QED
  BY <1>11 DEF InFile

-----------------------------------------------------------------------------
(* Offsets in a file, and the sectors they are in.                         *)

\* Where the i-th sector of a file begins.
StartOf(i) == i * SectorSize

\* Sectors follow one another, each SectorSize bytes long.
LEMMA Starts ==
    /\ \A i \in Nat : StartOf(i) \in Nat
    /\ \A i, j \in Nat : i < j => StartOf(i) + SectorSize <= StartOf(j)
    /\ \A i, j \in Nat : (i - j) * SectorSize = StartOf(i) - StartOf(j)
    /\ \A i \in Nat : (i + 1) * SectorSize = StartOf(i) + SectorSize
<1>1. PICK d \in Nat \ {0} : d = SectorSize
  BY DiskAssumption
<1>2. ASSUME NEW i \in Nat PROVE StartOf(i) \in Nat /\ (i + 1) * SectorSize = StartOf(i) + SectorSize
  <2>1. d * (i + 1) = d * i + d * 1 /\ d * (i + 1) = (i + 1) * d /\ d * i = i * d /\ d * 1 = d
    <3>1. i + 1 \in Int
      OBVIOUS
    <3>2. d * (i + 1) = (i + 1) * d
      BY <3>1, Distributes
    <3> QED
      BY <3>2, Distributes
  <2>2. PICK x \in Nat : x = i * d
    OBVIOUS
  <2> QED
    BY <1>1, <2>1, <2>2 DEF StartOf
<1>3. ASSUME NEW i \in Nat, NEW j \in Nat PROVE (i - j) * SectorSize = StartOf(i) - StartOf(j)
  <2>1. PICK e \in Int : e = i - j /\ i = j + e
    OBVIOUS
  <2>2. d * (j + e) = d * j + d * e /\ d * j = j * d /\ d * e = e * d /\ d * i = i * d
    BY Distributes
  <2>3. PICK x \in Int, y \in Int, z \in Int : x = i * d /\ y = j * d /\ z = e * d
    OBVIOUS
  <2>4. x = y + z
    BY <2>1, <2>2, <2>3
  <2> QED
    BY <1>1, <2>1, <2>3, <2>4 DEF StartOf
<1>4. ASSUME NEW i \in Nat, NEW j \in Nat, i < j PROVE StartOf(i) + SectorSize <= StartOf(j)
  <2>1. PICK e \in Nat : e = j - i - 1
    <3>1. j - i - 1 \in Nat
      BY <1>4
    <3> QED
      BY <3>1
  <2>2. PICK a \in Nat : a = i + 1 /\ j - a = e
    BY <2>1
  <2>3. (j - a) * SectorSize = StartOf(j) - StartOf(a) /\ StartOf(a) = StartOf(i) + SectorSize
        /\ StartOf(a) \in Nat /\ StartOf(j) \in Nat
    <3>1. (j - a) * SectorSize = StartOf(j) - StartOf(a)
      BY <1>3
    <3>2. (i + 1) * SectorSize = StartOf(i) + SectorSize
      BY <1>2
    <3>3. StartOf(a) \in Nat /\ StartOf(j) \in Nat
      BY <1>2
    <3> QED
      BY <2>2, <3>1, <3>2, <3>3 DEF StartOf
  <2>4. PICK x \in Nat : x = e * SectorSize
    BY <1>1
  <2>5. PICK p \in Nat, q \in Nat, r \in Nat : p = StartOf(i) /\ q = StartOf(j) /\ r = StartOf(a)
    BY <1>2
  <2>6. x = q - r /\ r = p + d
    BY <1>1, <2>2, <2>3, <2>4, <2>5
  <2> QED
    BY <1>1, <2>5, <2>6
<1> QED
  BY <1>2, <1>3, <1>4

\* The sector of an offset, and the offset in it.
LEMMA Offsets ==
    /\ \A o \in Nat : /\ o \div SectorSize \in Nat /\ o % SectorSize \in 0 .. SectorSize - 1
                      /\ o = StartOf(o \div SectorSize) + (o % SectorSize)
    /\ \A i \in Nat : \A r \in 0 .. SectorSize - 1 :
          (StartOf(i) + r) \div SectorSize = i /\ (StartOf(i) + r) % SectorSize = r
    /\ \A i \in Nat : \A b \in Nat :
          /\ i + b \div SectorSize = (StartOf(i) + b) \div SectorSize
          /\ b % SectorSize = (StartOf(i) + b) % SectorSize
<1>1. PICK d \in Nat \ {0} : d = SectorSize
  BY DiskAssumption
<1>2. ASSUME NEW o \in Nat
      PROVE  o \div SectorSize \in Nat /\ o % SectorSize \in 0 .. SectorSize - 1
             /\ o = StartOf(o \div SectorSize) + (o % SectorSize)
  <2>1. PICK q, r : q \in Int /\ r \in Int /\ q = o \div d /\ r = o % d
    OBVIOUS
  <2>2. r \in 0 .. d - 1 /\ o = d * q + r
    BY <2>1
  <2>3. q >= 0
    BY <2>1
  <2>4. d * q = q * d
    BY <2>1, Distributes
  <2> QED
    BY <1>1, <2>1, <2>2, <2>3, <2>4 DEF StartOf
<1>3. ASSUME NEW i \in Nat, NEW r \in 0 .. SectorSize - 1
      PROVE  (StartOf(i) + r) \div SectorSize = i /\ (StartOf(i) + r) % SectorSize = r
  <2>1. PICK s \in Nat, o \in Nat : s = StartOf(i) /\ o = s + r
    BY <1>1, Starts
  <2>2. PICK q \in Nat, t \in 0 .. d - 1 : q = o \div SectorSize /\ t = o % SectorSize /\ o = StartOf(q) + t
    <3>1. /\ o \div SectorSize \in Nat /\ o % SectorSize \in 0 .. SectorSize - 1
          /\ o = StartOf(o \div SectorSize) + (o % SectorSize)
      BY <1>2
    <3> QED
      BY <1>1, <3>1
  <2>3. PICK u \in Nat : u = StartOf(q)
    BY Starts
  <2>4. ~ q < i
    <3>1. SUFFICES ASSUME q < i PROVE FALSE
      OBVIOUS
    <3>2. u + d <= s
      BY <1>1, <2>1, <2>3, <3>1, Starts
    <3> QED
      BY <2>1, <2>2, <2>3, <3>2
  <2>5. ~ i < q
    <3>1. SUFFICES ASSUME i < q PROVE FALSE
      OBVIOUS
    <3>2. s + d <= u
      BY <1>1, <2>1, <2>3, <3>1, Starts
    <3> QED
      BY <1>1, <2>1, <2>2, <2>3, <3>2
  <2>6. q = i
    BY <2>4, <2>5
  <2> QED
    BY <2>1, <2>2, <2>3, <2>6
<1>4. ASSUME NEW i \in Nat, NEW b \in Nat
      PROVE  i + b \div SectorSize = (StartOf(i) + b) \div SectorSize
             /\ b % SectorSize = (StartOf(i) + b) % SectorSize
  <2>1. PICK q \in Nat, r \in 0 .. SectorSize - 1 :
            q = b \div SectorSize /\ r = b % SectorSize /\ b = StartOf(q) + r
    <3>1. /\ b \div SectorSize \in Nat /\ b % SectorSize \in 0 .. SectorSize - 1
          /\ b = StartOf(b \div SectorSize) + (b % SectorSize)
      BY <1>2
    <3> QED
      BY <3>1
  <2>2. PICK m \in Nat : m = i + q /\ m - i = q
    OBVIOUS
  <2>3. StartOf(m) = StartOf(i) + StartOf(q)
    <3>1. (m - i) * SectorSize = StartOf(m) - StartOf(i)
      BY Starts
    <3>2. (m - i) * SectorSize = StartOf(q)
      BY <2>2 DEF StartOf
    <3>3. StartOf(m) \in Nat /\ StartOf(i) \in Nat /\ StartOf(q) \in Nat
      BY Starts
    <3> QED
      BY <3>1, <3>2, <3>3
  <2>4. StartOf(i) + b = StartOf(m) + r
    <3>1. PICK x \in Nat, y \in Nat, z \in Nat : x = StartOf(m) /\ y = StartOf(i) /\ z = StartOf(q)
      BY Starts
    <3>2. r \in Int
      BY <1>1, <2>1
    <3>3. b = z + r /\ x = y + z
      BY <2>1, <2>3, <3>1
    <3> QED
      BY <3>1, <3>2, <3>3
  <2>5. (StartOf(m) + r) \div SectorSize = m /\ (StartOf(m) + r) % SectorSize = r
    BY <1>3
  <2> QED
    BY <2>1, <2>2, <2>4, <2>5
<1> QED
  BY <1>2, <1>3, <1>4

-----------------------------------------------------------------------------
(* What ReadAt and WriteAt do with each byte of a file.                    *)

\* The byte at an offset of the file.
Byte(chain, data, o) == data[SectorOf(chain, o \div SectorSize)][o % SectorSize]

\* What is transferred is within the request and within the file.
LEMMA TransferredIs ==
    ASSUME NEW chain, FileLength(chain) \in Nat, NEW numBytes \in Nat, NEW position \in Nat,
           NEW n, n = Transferred(chain, numBytes, position)
    PROVE  /\ n \in Nat /\ n <= numBytes
           /\ n > 0 => position + n <= FileLength(chain)
           /\ numBytes > 0 /\ position < FileLength(chain) =>
                 n > 0 /\ (n = numBytes \/ position + n = FileLength(chain))
           /\ position + numBytes <= FileLength(chain) => n = numBytes
<1>1. PICK l \in Nat : l = FileLength(chain)
  OBVIOUS
<1>2. n = IF numBytes <= 0 \/ position >= l THEN 0
          ELSE IF position + numBytes > l THEN l - position ELSE numBytes
  BY <1>1 DEF Transferred
<1>3. CASE numBytes <= 0 \/ position >= l
  BY <1>1, <1>2, <1>3
<1>4. CASE ~ (numBytes <= 0 \/ position >= l)
  BY <1>1, <1>2, <1>4
<1> QED
  BY <1>3, <1>4

\* The sectors a transfer begins and ends in.
LEMMA Spans ==
    ASSUME NEW position \in Nat, NEW n \in Nat \ {0}
    PROVE  \E first, last \in Nat :
              /\ first = FirstSector(position) /\ last = LastSector(position, n) /\ first <= last
              /\ StartOf(first) <= position /\ position < StartOf(first) + SectorSize
              /\ StartOf(last) < position + n /\ position + n <= StartOf(last) + SectorSize
<1>1. PICK d \in Nat \ {0} : d = SectorSize
  BY DiskAssumption
<1>2. PICK q \in Nat : q = position + n - 1
  <2>1. position + n - 1 \in Nat
    OBVIOUS
  <2> QED
    BY <2>1
<1>3. PICK first \in Nat, last \in Nat : first = FirstSector(position) /\ last = LastSector(position, n)
  BY <1>2, Offsets DEF FirstSector, LastSector
<1>4. PICK r \in 0 .. d - 1, t \in 0 .. d - 1 : position = StartOf(first) + r /\ q = StartOf(last) + t
  <2>1. /\ position % SectorSize \in 0 .. SectorSize - 1
        /\ position = StartOf(position \div SectorSize) + (position % SectorSize)
    BY Offsets
  <2>2. /\ q % SectorSize \in 0 .. SectorSize - 1
        /\ q = StartOf(q \div SectorSize) + (q % SectorSize)
    BY Offsets
  <2>3. first = position \div SectorSize /\ last = q \div SectorSize
    BY <1>2, <1>3 DEF FirstSector, LastSector
  <2> QED
    BY <1>1, <2>1, <2>2, <2>3
<1>5. PICK f \in Nat, g \in Nat : f = StartOf(first) /\ g = StartOf(last)
  BY Starts
<1>6. first <= last
  <2>1. SUFFICES ASSUME last < first PROVE FALSE
    OBVIOUS
  <2>2. g + d <= f
    BY <1>1, <1>5, <2>1, Starts
  <2> QED
    BY <1>1, <1>2, <1>4, <1>5, <2>2
<1>7. /\ f <= position /\ position < f + d
      /\ g < position + n /\ position + n <= g + d
  BY <1>1, <1>2, <1>4, <1>5
<1> QED
  BY <1>1, <1>3, <1>5, <1>6, <1>7

\* ReadAt gives the bytes from `position` on.
LEMMA ReadIs ==
    ASSUME NEW chain, NEW data, NEW numBytes, NEW position \in Nat,
           NEW n \in Nat \ {0}, n = Transferred(chain, numBytes, position)
    PROVE  ReadAt(chain, data, numBytes, position) = [k \in 0 .. n - 1 |-> Byte(chain, data, position + k)]
<1>1. PICK first \in Nat, last \in Nat :
          /\ first = FirstSector(position) /\ last = LastSector(position, n) /\ first <= last
          /\ StartOf(first) <= position /\ position < StartOf(first) + SectorSize
          /\ StartOf(last) < position + n /\ position + n <= StartOf(last) + SectorSize
  BY Spans
<1>2. PICK f \in Nat, g \in Nat, d \in Nat \ {0} : f = StartOf(first) /\ g = StartOf(last) /\ d = SectorSize
  BY Starts, DiskAssumption
<1>3. PICK m \in Int : m = (1 + last - first) * SectorSize /\ m = g + d - f
  <2>1. PICK e \in Nat : e = last + 1
    OBVIOUS
  <2>2. (e - first) * SectorSize = StartOf(e) - StartOf(first)
    BY Starts
  <2>3. StartOf(e) = g + d
    <3>1. (last + 1) * SectorSize = StartOf(last) + SectorSize
      BY Starts
    <3> QED
      BY <1>2, <2>1, <3>1 DEF StartOf
  <2>4. 1 + last - first = e - first
    BY <2>1
  <2> QED
    BY <1>2, <2>2, <2>3, <2>4
<1> DEFINE buf == [b \in 0 .. m - 1 |-> data[SectorOf(chain, first + b \div SectorSize)][b % SectorSize]]
<1>4. ReadAt(chain, data, numBytes, position) = [k \in 0 .. n - 1 |-> buf[position - f + k]]
  <2>1. f = first * SectorSize
    BY <1>2 DEF StartOf
  <2>2. n # 0 /\ n = Transferred(chain, numBytes, position)
    OBVIOUS
  <2> DEFINE read == [b \in 0 .. (1 + LastSector(position, n) - FirstSector(position)) * SectorSize - 1 |->
                         data[SectorOf(chain, FirstSector(position) + b \div SectorSize)][b % SectorSize]]
  <2>3. ReadAt(chain, data, numBytes, position) =
            [k \in 0 .. n - 1 |-> read[position - FirstSector(position) * SectorSize + k]]
    BY <2>2 DEF ReadAt
  <2>4. /\ FirstSector(position) = first /\ LastSector(position, n) = last
        /\ first * SectorSize = f /\ (1 + last - first) * SectorSize = m
    BY <1>1, <1>3, <2>1
  <2>5. read = buf
    BY <2>4
  <2>6. \A k \in 0 .. n - 1 : position - FirstSector(position) * SectorSize + k = position - f + k
    BY <2>4
  <2> HIDE DEF read, buf
  <2> QED
    BY <2>3, <2>5, <2>6
<1>5. ASSUME NEW k \in 0 .. n - 1 PROVE buf[position - f + k] = Byte(chain, data, position + k)
  <2>1. PICK b \in Nat : b = position - f + k /\ b \in 0 .. m - 1 /\ f + b = position + k
    <3>1. position - f + k \in 0 .. m - 1 /\ f + (position - f + k) = position + k
      BY <1>1, <1>2, <1>3
    <3> QED
      BY <1>3, <3>1
  <2>2. /\ first + b \div SectorSize = (StartOf(first) + b) \div SectorSize
        /\ b % SectorSize = (StartOf(first) + b) % SectorSize
    BY Offsets
  <2>3. buf[b] = data[SectorOf(chain, first + b \div SectorSize)][b % SectorSize]
    BY <2>1
  <2> QED
    BY <1>2, <2>1, <2>2, <2>3 DEF Byte
<1> HIDE DEF buf
<1> QED
  BY <1>4, <1>5

\* The whole sectors that WriteAt reads at its ends.
ReadFrom(chain, data, i, m) ==
    /\ ReadAt(chain, data, SectorSize, i * SectorSize) = [k \in 0 .. m - 1 |-> Byte(chain, data, StartOf(i) + k)]
    /\ m = SectorSize \/ StartOf(i) + m = FileLength(chain)

\* A sector of the file, as far as the file goes.
LEMMA SectorRead ==
    ASSUME NEW chain, FileLength(chain) \in Nat, NEW data,
           NEW i \in Nat, StartOf(i) < FileLength(chain)
    PROVE  \E m \in Nat \ {0} : ReadFrom(chain, data, i, m)
<1>1. PICK f \in Nat, d \in Nat \ {0} : f = StartOf(i) /\ d = SectorSize /\ f = i * SectorSize
  BY Starts, DiskAssumption DEF StartOf
<1>2. PICK m : m = Transferred(chain, d, f)
  OBVIOUS
<1>3. m \in Nat /\ m > 0 /\ (m = d \/ f + m = FileLength(chain))
  BY <1>1, <1>2, TransferredIs
<1>4. ReadAt(chain, data, d, f) = [k \in 0 .. m - 1 |-> Byte(chain, data, f + k)]
  BY <1>2, <1>3, ReadIs
<1>5. ReadFrom(chain, data, i, m)
  BY <1>1, <1>3, <1>4 DEF ReadFrom
<1> QED
  BY <1>3, <1>5

\* bcopy changes what it copies to.
LEMMA CopiedIs ==
    ASSUME NEW bytes, NEW buf, NEW at
    PROVE  /\ DOMAIN Copied(bytes, buf, at) = DOMAIN buf
           /\ \A b \in DOMAIN buf :
                 Copied(bytes, buf, at)[b] = IF b - at \in DOMAIN bytes THEN bytes[b - at] ELSE buf[b]
  BY DEF Copied

\* The buffer that WriteAt writes: the sectors the request touches.
Buffer(chain, data, from, n, position) ==
    LET first == FirstSector(position)
        last == LastSector(position, n)
        at(i) == (i - first) * SectorSize
        empty == [b \in 0 .. at(last + 1) - 1 |-> ZeroByte]
        withFirst == IF FirstAligned(position) THEN empty
                     ELSE Copied(ReadAt(chain, data, SectorSize, first * SectorSize), empty, 0)
        withLast == IF ~ ReadsLast(position, n) THEN withFirst
                    ELSE Copied(ReadAt(chain, data, SectorSize, last * SectorSize), withFirst, at(last))
    IN  Copied([k \in 0 .. n - 1 |-> from[k]], withLast, position - first * SectorSize)

\* What it holds at an offset of the file.
Buffered(chain, data, from, n, position, o) ==
    Buffer(chain, data, from, n, position)[o - StartOf(FirstSector(position))] =
        IF o \in position .. position + n - 1 THEN from[o - position] ELSE Byte(chain, data, o)

\* It holds what the request writes, and around it what the file held.
LEMMA BufferIs ==
    ASSUME NEW chain, FileLength(chain) \in Nat, NEW data, NEW from,
           NEW position \in Nat, NEW n \in Nat \ {0}, position + n <= FileLength(chain),
           NEW first \in Nat, first = FirstSector(position), NEW last \in Nat, last = LastSector(position, n),
           NEW o \in Nat, o < FileLength(chain), StartOf(first) <= o, o < StartOf(last) + SectorSize
    PROVE  Buffered(chain, data, from, n, position, o)
<1>1. /\ first <= last /\ StartOf(first) <= position /\ position < StartOf(first) + SectorSize
      /\ StartOf(last) < position + n /\ position + n <= StartOf(last) + SectorSize
  BY Spans
<1>2. PICK f \in Nat, g \in Nat, d \in Nat \ {0}, l \in Nat :
          f = StartOf(first) /\ g = StartOf(last) /\ d = SectorSize /\ l = FileLength(chain)
  BY Starts, DiskAssumption
<1>3. /\ first * SectorSize = f /\ last * SectorSize = g
      /\ (last - first) * SectorSize = g - f /\ (last + 1) * SectorSize = g + d
      /\ ((last + 1) - first) * SectorSize = g + d - f
  <2>1. first * SectorSize = f /\ last * SectorSize = g
    BY <1>2 DEF StartOf
  <2>2. (last - first) * SectorSize = g - f /\ (last + 1) * SectorSize = g + d
    BY <1>2, Starts
  <2>3. PICK e \in Nat : e = last + 1
    OBVIOUS
  <2>4. (e - first) * SectorSize = StartOf(e) - f
    BY <1>2, Starts
  <2>5. StartOf(e) = g + d
    BY <2>2, <2>3 DEF StartOf
  <2> QED
    BY <2>1, <2>2, <2>3, <2>4, <2>5
<1>4. PICK x \in Nat \ {0} : ReadFrom(chain, data, first, x)
  <2>1. StartOf(first) < FileLength(chain)
    BY <1>1, <1>2
  <2> QED
    BY <2>1, SectorRead
<1>5. PICK y \in Nat \ {0} : ReadFrom(chain, data, last, y)
  <2>1. StartOf(last) < FileLength(chain)
    BY <1>1, <1>2
  <2> QED
    BY <2>1, SectorRead
<1>6. PICK b \in Nat : b = o - f /\ b \in 0 .. (g + d - f) - 1 /\ f + b = o
  <2>1. o - f \in Nat /\ o - f \in 0 .. (g + d - f) - 1 /\ f + (o - f) = o
    BY <1>1, <1>2
  <2> QED
    BY <2>1
<1> DEFINE empty == [c \in 0 .. (g + d - f) - 1 |-> ZeroByte]
           head == [k \in 0 .. x - 1 |-> Byte(chain, data, StartOf(first) + k)]
           tail == [k \in 0 .. y - 1 |-> Byte(chain, data, StartOf(last) + k)]
           withFirst == IF FirstAligned(position) THEN empty ELSE Copied(head, empty, 0)
           withLast == IF ~ ReadsLast(position, n) THEN withFirst ELSE Copied(tail, withFirst, g - f)
           request == [k \in 0 .. n - 1 |-> from[k]]
<1>7. Buffer(chain, data, from, n, position) = Copied(request, withLast, position - f)
  BY <1>2, <1>3, <1>4, <1>5 DEF Buffer, ReadFrom
<1>8. DOMAIN empty = 0 .. (g + d - f) - 1 /\ DOMAIN withFirst = DOMAIN empty /\ DOMAIN withLast = DOMAIN empty
  BY CopiedIs
<1>9. b - (position - f) = o - position /\ b - 0 = b /\ b - (g - f) = o - g
  BY <1>2, <1>6
<1>10. Buffer(chain, data, from, n, position)[b] =
           IF o - position \in 0 .. n - 1 THEN from[o - position] ELSE withLast[b]
  <2>1. DOMAIN request = 0 .. n - 1 /\ \A k \in 0 .. n - 1 : request[k] = from[k]
    OBVIOUS
  <2>2. b \in DOMAIN withLast
    BY <1>6, <1>8
  <2> HIDE DEF withLast, request
  <2>3. Copied(request, withLast, position - f)[b] =
            IF b - (position - f) \in DOMAIN request THEN request[b - (position - f)] ELSE withLast[b]
    BY <2>2, CopiedIs
  <2> QED
    BY <1>7, <1>9, <2>1, <2>3
<1>11. o - position \in 0 .. n - 1 <=> o \in position .. position + n - 1
  OBVIOUS
<1>12. ~ FirstAligned(position) /\ o < f + d => withFirst[b] = Byte(chain, data, o)
  <2> SUFFICES ASSUME ~ FirstAligned(position), o < f + d PROVE withFirst[b] = Byte(chain, data, o)
    OBVIOUS
  <2>1. b \in 0 .. x - 1
    <3>1. x = d \/ f + x = l
      BY <1>2, <1>4 DEF ReadFrom
    <3>2. o < l
      BY <1>2
    <3> QED
      BY <1>6, <3>1, <3>2
  <2>2. DOMAIN head = 0 .. x - 1 /\ head[b] = Byte(chain, data, o)
    BY <1>2, <1>6, <2>1
  <2>3. b \in DOMAIN empty
    BY <1>6, <1>8
  <2> HIDE DEF head, empty
  <2>4. Copied(head, empty, 0)[b] = IF b - 0 \in DOMAIN head THEN head[b - 0] ELSE empty[b]
    BY <2>3, CopiedIs
  <2> QED
    BY <1>9, <2>1, <2>2, <2>4
<1>13. ReadsLast(position, n) =>
           withLast[b] = IF o - g \in 0 .. y - 1 THEN Byte(chain, data, o) ELSE withFirst[b]
  <2> SUFFICES ASSUME ReadsLast(position, n)
               PROVE  withLast[b] = IF o - g \in 0 .. y - 1 THEN Byte(chain, data, o) ELSE withFirst[b]
    OBVIOUS
  <2>1. DOMAIN tail = 0 .. y - 1 /\ (o - g \in 0 .. y - 1 => tail[o - g] = Byte(chain, data, o))
    <3>1. StartOf(last) + (o - g) = o
      BY <1>2
    <3> QED
      BY <3>1
  <2>2. b \in DOMAIN withFirst
    BY <1>6, <1>8
  <2> HIDE DEF tail, withFirst
  <2>3. Copied(tail, withFirst, g - f)[b] = IF b - (g - f) \in DOMAIN tail THEN tail[b - (g - f)] ELSE withFirst[b]
    BY <2>2, CopiedIs
  <2> QED
    BY <1>9, <2>1, <2>3
<1>14. ~ ReadsLast(position, n) => withLast[b] = withFirst[b]
  OBVIOUS
<1> HIDE DEF empty, head, tail, withFirst, withLast, request
<1>15. ASSUME o < position PROVE withLast[b] = Byte(chain, data, o)
  <2>1. ~ FirstAligned(position)
    <3>1. position # f
      BY <1>2, <1>15
    <3> QED
      BY <1>3, <3>1 DEF FirstAligned
  <2>2. withFirst[b] = Byte(chain, data, o)
    BY <1>1, <1>2, <1>12, <1>15, <2>1
  <2> QED
    BY <1>13, <1>14, <2>2
<1>16. ASSUME o >= position + n PROVE withLast[b] = Byte(chain, data, o)
  <2>1. ~ LastAligned(position, n)
    <3>1. position + n # g + d
      BY <1>2, <1>16
    <3> QED
      BY <1>3, <3>1 DEF LastAligned
  <2>2. CASE ReadsLast(position, n)
    <3>1. o - g \in 0 .. y - 1
      <4>1. y = d \/ g + y = l
        BY <1>2, <1>5 DEF ReadFrom
      <4>2. o < l /\ o < g + d /\ g <= o
        BY <1>1, <1>2, <1>16
      <4> QED
        BY <4>1, <4>2
    <3> QED
      BY <1>13, <2>2, <3>1
  <2>3. CASE ~ ReadsLast(position, n)
    <3>1. first = last /\ ~ FirstAligned(position)
      BY <2>1, <2>3 DEF ReadsLast
    <3>2. withFirst[b] = Byte(chain, data, o)
      BY <1>2, <1>12, <3>1
    <3> QED
      BY <1>14, <2>3, <3>2
  <2> QED
    BY <2>2, <2>3
<1>17. ~ (o \in position .. position + n - 1) => withLast[b] = Byte(chain, data, o)
  BY <1>15, <1>16
<1>18. Buffer(chain, data, from, n, position)[o - StartOf(first)] =
           IF o \in position .. position + n - 1 THEN from[o - position] ELSE Byte(chain, data, o)
  BY <1>2, <1>6, <1>10, <1>11, <1>17
<1> QED
  BY <1>18 DEF Buffered

\* The sectors of a request within a file are the file's.
LEMMA TouchedInFile ==
    ASSUME NEW chain, IsChain(chain), Laid(chain), NEW position \in Nat, NEW n \in Nat \ {0},
           position + n <= FileLength(chain),
           NEW i \in FirstSector(position) .. LastSector(position, n)
    PROVE  i \in Nat /\ InFile(chain, i)
<1>1. PICK first \in Nat, last \in Nat :
          /\ first = FirstSector(position) /\ last = LastSector(position, n)
          /\ StartOf(last) < position + n
  BY Spans
<1>2. i \in Nat /\ i <= last
  BY <1>1
<1>3. PICK o \in Nat, g \in Nat, l \in Nat, d \in Nat \ {0} :
          o = StartOf(i) /\ g = StartOf(last) /\ l = FileLength(chain) /\ d = SectorSize
  BY <1>2, Starts, FullLength, DiskAssumption
<1>4. o <= g
  <2>1. CASE i = last
    BY <1>3, <2>1
  <2>2. CASE i # last
    <3>1. i < last
      BY <1>1, <1>2, <2>2
    <3>2. o + d <= g
      BY <1>1, <1>2, <1>3, <3>1, Starts
    <3> QED
      BY <1>3, <3>2
  <2> QED
    BY <2>1, <2>2
<1>5. o < FileLength(chain)
  BY <1>1, <1>3, <1>4
<1>6. o \div SectorSize = i
  <2>1. 0 \in 0 .. SectorSize - 1
    BY <1>3
  <2>2. (StartOf(i) + 0) \div SectorSize = i
    BY <1>2, <2>1, Offsets
  <2>3. StartOf(i) + 0 = o
    BY <1>3
  <2> QED
    BY <2>2, <2>3
<1>7. InFile(chain, o \div SectorSize)
  BY <1>5, BytesInFile
<1> QED
  BY <1>2, <1>6, <1>7

\* The parts of a request that go to a sector of the disk.
Written(chain, position, n, s) ==
    {i \in FirstSector(position) .. LastSector(position, n) : SectorOf(chain, i) = s}

\* There is one such part if the sector is the file's and touched, else none.
LEMMA WrittenIs ==
    ASSUME NEW chain, IsChain(chain), Laid(chain), NEW position \in Nat, NEW n \in Nat \ {0},
           position + n <= FileLength(chain)
    PROVE  /\ \A s \in Sectors \ DataSectors(chain) : Written(chain, position, n, s) = {}
           /\ \A i \in FirstSector(position) .. LastSector(position, n) :
                 Written(chain, position, n, SectorOf(chain, i)) = {i}
           /\ \A i : InFile(chain, i) /\ i \notin FirstSector(position) .. LastSector(position, n) =>
                 Written(chain, position, n, SectorOf(chain, i)) = {}
<1>1. \A i \in FirstSector(position) .. LastSector(position, n) : InFile(chain, i)
  BY TouchedInFile
<1>2. \A i : InFile(chain, i) => SectorOf(chain, i) \in DataSectors(chain)
  BY FileSectors
<1>3. \A i, j : InFile(chain, i) /\ InFile(chain, j) /\ SectorOf(chain, i) = SectorOf(chain, j) => i = j
  BY FileSectors
<1>4. PICK T : T = FirstSector(position) .. LastSector(position, n)
  OBVIOUS
<1>5. \A s : Written(chain, position, n, s) = {i \in T : SectorOf(chain, i) = s}
  BY <1>4 DEF Written
<1>6. \A i \in T : InFile(chain, i)
  BY <1>1, <1>4
<1>7. \A s \in Sectors \ DataSectors(chain) : {i \in T : SectorOf(chain, i) = s} = {}
  BY <1>2, <1>6
<1>8. \A i \in T : {j \in T : SectorOf(chain, j) = SectorOf(chain, i)} = {i}
  BY <1>3, <1>6
<1>9. \A i : InFile(chain, i) /\ i \notin T => {j \in T : SectorOf(chain, j) = SectorOf(chain, i)} = {}
  BY <1>3, <1>6
<1> QED
  BY <1>4, <1>5, <1>7, <1>8, <1>9

\* WriteAt, sector by sector.
LEMMA WriteSectors ==
    ASSUME NEW chain, IsChain(chain), Laid(chain), NEW data, NEW from, NEW numBytes, NEW position \in Nat,
           NEW n \in Nat \ {0}, n = Transferred(chain, numBytes, position), position + n <= FileLength(chain),
           NEW new, new = WriteAt(chain, data, from, numBytes, position)
    PROVE  /\ \A s \in Sectors : Written(chain, position, n, s) = {} => new[s] = data[s]
           /\ \A s \in Sectors : \A i : Written(chain, position, n, s) = {i} =>
                 \A o \in 0 .. SectorSize - 1 :
                    new[s][o] = Buffer(chain, data, from, n, position)[(i - FirstSector(position)) * SectorSize + o]
<1> DEFINE choice(m, s) == CHOOSE i \in Written(chain, position, m, s) : \A j \in Written(chain, position, m, s) : j <= i
           put(m, s) == [o \in 0 .. SectorSize - 1 |->
                            Buffer(chain, data, from, m, position)[(choice(m, s) - FirstSector(position)) * SectorSize + o]]
           part(s) == choice(n, s)
           sector(s) == put(n, s)
<1>1. new = [s \in Sectors |-> IF Written(chain, position, n, s) = {} THEN data[s] ELSE sector(s)]
  <2>1. \A m : m = Transferred(chain, numBytes, position) /\ m # 0 =>
            new = [s \in Sectors |-> IF Written(chain, position, m, s) = {} THEN data[s] ELSE put(m, s)]
    <3> SUFFICES Transferred(chain, numBytes, position) # 0 =>
                    new = [s \in Sectors |-> IF Written(chain, position, Transferred(chain, numBytes, position), s) = {}
                                               THEN data[s] ELSE put(Transferred(chain, numBytes, position), s)]
      OBVIOUS
    <3> QED
      BY Zenon DEF WriteAt, Buffer, Written
  <2> HIDE DEF put
  <2> QED
    BY <2>1
<1>2. ASSUME NEW s \in Sectors, NEW i, Written(chain, position, n, s) = {i}
      PROVE  part(s) = i
  <2>1. i \in Int
    BY <1>2 DEF Written
  <2>2. i \in Written(chain, position, n, s) /\ \A j \in Written(chain, position, n, s) : j <= i
    BY <1>2, <2>1
  <2>3. part(s) \in Written(chain, position, n, s)
    BY <2>2
  <2> QED
    BY <1>2, <2>3
<1> HIDE DEF choice, part
<1>3. ASSUME NEW s \in Sectors, NEW i, Written(chain, position, n, s) = {i}, NEW o \in 0 .. SectorSize - 1
      PROVE  new[s][o] = Buffer(chain, data, from, n, position)[(i - FirstSector(position)) * SectorSize + o]
  <2>1. part(s) = i
    BY <1>2, <1>3
  <2>2. new[s] = sector(s)
    <3> HIDE DEF sector, put
    <3> QED
      BY <1>1, <1>3
  <2>3. sector(s)[o] = Buffer(chain, data, from, n, position)[(part(s) - FirstSector(position)) * SectorSize + o]
    BY <1>3 DEF part
  <2> HIDE DEF sector, put
  <2> QED
    BY <2>1, <2>2, <2>3
<1> HIDE DEF sector, put
<1> QED
  BY <1>1, <1>3

\* WriteAt changes the bytes it is asked to, and no other of the file or the disk.
LEMMA WriteIs ==
    ASSUME NEW chain, IsChain(chain), Laid(chain), NEW data, NEW from, NEW numBytes, NEW position \in Nat,
           NEW n \in Nat \ {0}, n = Transferred(chain, numBytes, position), position + n <= FileLength(chain),
           NEW new, new = WriteAt(chain, data, from, numBytes, position)
    PROVE  /\ \A s \in Sectors \ DataSectors(chain) : new[s] = data[s]
           /\ \A o \in Nat : o < FileLength(chain) =>
                 Byte(chain, new, o) = IF o \in position .. position + n - 1 THEN from[o - position]
                                       ELSE Byte(chain, data, o)
<1>1. \A s \in Sectors \ DataSectors(chain) : new[s] = data[s]
  BY WriteSectors, WrittenIs
<1>2. ASSUME NEW o \in Nat, o < FileLength(chain)
      PROVE  Byte(chain, new, o) = IF o \in position .. position + n - 1 THEN from[o - position]
                                   ELSE Byte(chain, data, o)
  <2>1. PICK first \in Nat, last \in Nat :
            /\ first = FirstSector(position) /\ last = LastSector(position, n) /\ first <= last
            /\ StartOf(first) <= position /\ position < StartOf(first) + SectorSize
            /\ StartOf(last) < position + n /\ position + n <= StartOf(last) + SectorSize
    BY Spans
  <2>2. PICK i, r : /\ i = o \div SectorSize /\ r = o % SectorSize
                    /\ i \in Nat /\ r \in 0 .. SectorSize - 1 /\ o = StartOf(i) + r
    <3>1. /\ o \div SectorSize \in Nat /\ o % SectorSize \in 0 .. SectorSize - 1
          /\ o = StartOf(o \div SectorSize) + (o % SectorSize)
      BY Offsets
    <3> QED
      BY <3>1
  <2>3. PICK s \in Sectors : s = SectorOf(chain, i) /\ InFile(chain, i)
    BY <1>2, <2>2, BytesInFile, FileSectors
  <2>4. Byte(chain, new, o) = new[s][r] /\ Byte(chain, data, o) = data[s][r]
    BY <2>2, <2>3 DEF Byte
  <2>5. PICK f \in Nat, g \in Nat, t \in Nat, d \in Nat \ {0} :
            f = StartOf(first) /\ g = StartOf(last) /\ t = StartOf(i) /\ d = SectorSize
    BY <2>2, Starts, DiskAssumption
  <2>6. CASE i \in first .. last
    <3>1. Written(chain, position, n, s) = {i}
      BY <2>1, <2>3, <2>6, WrittenIs
    <3>2. new[s][r] = Buffer(chain, data, from, n, position)[(i - first) * SectorSize + r]
      BY <2>1, <2>2, <3>1, WriteSectors
    <3>3. (i - first) * SectorSize + r = o - StartOf(first)
      <4>1. (i - first) * SectorSize = t - f
        BY <2>2, <2>5, Starts
      <4>2. r \in Int
        BY <2>2, <2>5
      <4>3. o = t + r
        BY <2>2, <2>5
      <4>4. (t - f) + r = o - f
        BY <2>5, <4>2, <4>3
      <4> QED
        BY <2>5, <4>1, <4>4
    <3>4. f <= t /\ t <= g
      <4>1. f <= t
        <5>1. CASE first = i
          BY <2>5, <5>1
        <5>2. CASE first < i
          <6>1. f + d <= t
            BY <2>2, <2>5, <5>2, Starts
          <6> QED
            BY <2>5, <6>1
        <5> QED
          BY <2>6, <5>1, <5>2
      <4>2. t <= g
        <5>1. CASE i = last
          BY <2>5, <5>1
        <5>2. CASE i < last
          <6>1. t + d <= g
            BY <2>2, <2>5, <5>2, Starts
          <6> QED
            BY <2>5, <6>1
        <5> QED
          BY <2>6, <5>1, <5>2
      <4> QED
        BY <4>1, <4>2
    <3>5. StartOf(first) <= o /\ o < StartOf(last) + SectorSize
      BY <2>2, <2>5, <3>4
    <3>6. FileLength(chain) \in Nat
      BY FullLength
    <3>7. Buffer(chain, data, from, n, position)[o - StartOf(first)] =
              IF o \in position .. position + n - 1 THEN from[o - position] ELSE Byte(chain, data, o)
      <4>1. /\ first = FirstSector(position) /\ last = LastSector(position, n)
            /\ o \in Nat /\ o < FileLength(chain)
        BY <1>2, <2>1
      <4>2. Buffered(chain, data, from, n, position, o)
        BY <3>5, <3>6, <4>1, BufferIs
      <4> QED
        BY <2>1, <4>2 DEF Buffered
    <3> QED
      BY <2>4, <3>2, <3>3, <3>7
  <2>7. CASE i \notin first .. last
    <3>1. Written(chain, position, n, s) = {}
      BY <2>1, <2>3, <2>7, WrittenIs
    <3>2. new[s] = data[s]
      BY <3>1, WriteSectors
    <3>3. ~ (o \in position .. position + n - 1)
      <4>1. CASE i < first
        <5>1. t + d <= f
          BY <2>2, <2>5, <4>1, Starts
        <5>2. o < position
          BY <2>1, <2>2, <2>5, <5>1
        <5> QED
          BY <5>2
      <4>2. CASE last < i
        <5>1. g + d <= t
          BY <2>2, <2>5, <4>2, Starts
        <5>2. position + n <= o
          BY <2>1, <2>2, <2>5, <5>1
        <5> QED
          BY <5>2
      <4> QED
        BY <2>1, <2>2, <2>7, <4>1, <4>2
    <3> QED
      BY <2>4, <3>2, <3>3
  <2> QED
    BY <2>6, <2>7
<1> QED
  BY <1>1, <1>2

\* Writing a file and reading it back, on a disk of which each byte is told from
\* every other: what WritesReadBack says of one file.
ReadsBack(chain) ==
    LET old == [s \in Sectors |-> [o \in 0 .. SectorSize - 1 |-> <<s, o>>]]
        from == [k \in 0 .. MaxFileSize |-> <<NoSector, k>>]
        length == FileLength(chain)
        byte(data, o) == ReadAt(chain, data, 1, o)[0]
        before == [o \in 0 .. length - 1 |-> byte(old, o)]
    IN  /\ \A o, u \in 0 .. length - 1 : o # u => before[o] # before[u]
        /\ \A position \in 0 .. length, n \in 0 .. MaxFileSize + 1 :
              LET new == WriteAt(chain, old, from, n, position)
                  after == ReadAt(chain, new, length, 0)
              IN  /\ \A s \in Sectors \ DataSectors(chain) : new[s] = old[s]
                  /\ \A o \in 0 .. length - 1 :
                        after[o] = IF o \in position .. position + n - 1
                                     THEN from[o - position] ELSE before[o]

\* Reading the whole file, or one byte of it.
LEMMA ReadsBytes ==
    ASSUME NEW chain, NEW l \in Nat, l = FileLength(chain), NEW data, NEW o \in 0 .. l - 1
    PROVE  /\ ReadAt(chain, data, 1, o)[0] = Byte(chain, data, o)
           /\ ReadAt(chain, data, l, 0)[o] = Byte(chain, data, o)
<1>1. PICK n : n = Transferred(chain, 1, o)
  OBVIOUS
<1>2. n = 1
  <2>1. n \in Nat /\ n <= 1 /\ n > 0
    BY <1>1, TransferredIs
  <2> QED
    BY <2>1
<1>3. ReadAt(chain, data, 1, o) = [k \in 0 .. n - 1 |-> Byte(chain, data, o + k)]
  <2>1. o \in Nat /\ n \in Nat \ {0}
    BY <1>2
  <2> QED
    BY <1>1, <2>1, ReadIs
<1>4. ReadAt(chain, data, 1, o)[0] = Byte(chain, data, o)
  <2>1. 0 \in 0 .. n - 1 /\ o + 0 = o
    BY <1>2
  <2> QED
    BY <1>3, <2>1
<1>5. PICK m : m = Transferred(chain, l, 0)
  OBVIOUS
<1>6. m = l
  BY <1>5, TransferredIs
<1>7. ReadAt(chain, data, l, 0) = [k \in 0 .. m - 1 |-> Byte(chain, data, 0 + k)]
  <2>1. 0 \in Nat /\ m \in Nat \ {0}
    BY <1>6
  <2> QED
    BY <1>5, <2>1, ReadIs
<1>8. ReadAt(chain, data, l, 0)[o] = Byte(chain, data, o)
  <2>1. o \in 0 .. m - 1 /\ 0 + o = o
    BY <1>6
  <2> QED
    BY <1>7, <2>1
<1> QED
  BY <1>4, <1>8

\* Different offsets of a file are different bytes of the disk.
LEMMA BytesDiffer ==
    ASSUME NEW chain, IsChain(chain), Laid(chain), NEW old,
           old = [s \in Sectors |-> [o \in 0 .. SectorSize - 1 |-> <<s, o>>]],
           NEW o \in Nat, NEW u \in Nat, o < FileLength(chain), u < FileLength(chain),
           Byte(chain, old, o) = Byte(chain, old, u)
    PROVE  o = u
<1>1. ASSUME NEW v \in Nat, v < FileLength(chain)
      PROVE  /\ InFile(chain, v \div SectorSize)
             /\ Byte(chain, old, v) = <<SectorOf(chain, v \div SectorSize), v % SectorSize>>
             /\ v = StartOf(v \div SectorSize) + (v % SectorSize)
  <2>1. PICK i, r : i = v \div SectorSize /\ r = v % SectorSize
    OBVIOUS
  <2>2. r \in 0 .. SectorSize - 1 /\ v = StartOf(i) + r
    BY <2>1, Offsets
  <2>3. InFile(chain, i)
    BY <1>1, <2>1, BytesInFile
  <2>4. PICK s \in Sectors : s = SectorOf(chain, i)
    BY <2>3, FileSectors
  <2>5. old[s][r] = <<s, r>>
    BY <2>2
  <2> QED
    BY <2>1, <2>2, <2>3, <2>4, <2>5 DEF Byte
<1>2. PICK i, r, j, t :
          /\ i = o \div SectorSize /\ r = o % SectorSize /\ j = u \div SectorSize /\ t = u % SectorSize
          /\ InFile(chain, i) /\ InFile(chain, j)
          /\ o = StartOf(i) + r /\ u = StartOf(j) + t
          /\ <<SectorOf(chain, i), r>> = <<SectorOf(chain, j), t>>
  BY <1>1
<1>3. SectorOf(chain, i) = SectorOf(chain, j) /\ r = t
  BY <1>2
<1>4. i = j
  BY <1>2, <1>3, FileSectors
<1> QED
  BY <1>2, <1>3, <1>4

\* A file whose sectors are its own reads back what is written to it.
LEMMA ChainReadsBack ==
    ASSUME NEW chain, IsChain(chain), Laid(chain)
    PROVE  ReadsBack(chain)
<1>1. PICK l \in Nat : l = FileLength(chain)
  BY FullLength
<1> DEFINE old == [s \in Sectors |-> [o \in 0 .. SectorSize - 1 |-> <<s, o>>]]
           from == [k \in 0 .. MaxFileSize |-> <<NoSector, k>>]
           before == [o \in 0 .. FileLength(chain) - 1 |-> ReadAt(chain, old, 1, o)[0]]
<1>2. old = [s \in Sectors |-> [o \in 0 .. SectorSize - 1 |-> <<s, o>>]]
  OBVIOUS
<1>3. before = [o \in 0 .. FileLength(chain) - 1 |-> ReadAt(chain, old, 1, o)[0]]
  OBVIOUS
<1> HIDE DEF old, from, before
<1>4. before = [o \in 0 .. l - 1 |-> ReadAt(chain, old, 1, o)[0]]
  BY <1>1, <1>3
<1>5. \A o \in 0 .. l - 1 : before[o] = Byte(chain, old, o)
  <2>1. \A o \in 0 .. l - 1 : ReadAt(chain, old, 1, o)[0] = Byte(chain, old, o)
    BY <1>1, ReadsBytes
  <2> QED
    BY <1>4, <2>1
<1>6. ASSUME NEW o \in 0 .. l - 1, NEW u \in 0 .. l - 1, o # u PROVE before[o] # before[u]
  <2>1. SUFFICES ASSUME before[o] = before[u] PROVE FALSE
    OBVIOUS
  <2>2. o \in Nat /\ u \in Nat /\ o < FileLength(chain) /\ u < FileLength(chain)
    BY <1>1
  <2>3. Byte(chain, old, o) = Byte(chain, old, u)
    BY <1>5, <2>1
  <2> QED
    BY <1>2, <1>6, <2>2, <2>3, BytesDiffer
<1>7. ASSUME NEW position \in 0 .. l, NEW n \in 0 .. MaxFileSize + 1,
             NEW new, new = WriteAt(chain, old, from, n, position)
      PROVE  /\ \A s \in Sectors \ DataSectors(chain) : new[s] = old[s]
             /\ \A o \in 0 .. l - 1 :
                   ReadAt(chain, new, l, 0)[o] = IF o \in position .. position + n - 1
                                                   THEN from[o - position] ELSE before[o]
  <2>1. position \in Nat /\ n \in Nat /\ position <= l
    BY <1>1, <1>7, HeaderSizes
  <2>2. PICK m : m = Transferred(chain, n, position)
    OBVIOUS
  <2>3. /\ m \in Nat /\ m <= n
        /\ m > 0 => position + m <= l
        /\ n > 0 /\ position < l => m > 0 /\ (m = n \/ position + m = l)
    BY <1>1, <2>1, <2>2, TransferredIs
  <2>4. \A o \in 0 .. l - 1 : ReadAt(chain, new, l, 0)[o] = Byte(chain, new, o)
    BY <1>1, ReadsBytes
  <2>5. CASE m = 0
    <3>1. new = old
      BY <1>7, <2>2, <2>5 DEF WriteAt
    <3>2. \A o \in 0 .. l - 1 : ~ (o \in position .. position + n - 1)
      BY <2>1, <2>3, <2>5
    <3> QED
      BY <1>5, <2>4, <3>1, <3>2
  <2>6. CASE m # 0
    <3>1. m \in Nat \ {0} /\ position + m <= FileLength(chain)
      BY <1>1, <2>3, <2>6
    <3>2. /\ \A s \in Sectors \ DataSectors(chain) : new[s] = old[s]
          /\ \A o \in Nat : o < FileLength(chain) =>
                Byte(chain, new, o) = IF o \in position .. position + m - 1 THEN from[o - position]
                                      ELSE Byte(chain, old, o)
      BY <1>7, <2>1, <2>2, <3>1, WriteIs
    <3>3. \A o \in 0 .. l - 1 : o \in Nat /\ o < FileLength(chain)
      BY <1>1
    <3>4. \A o \in 0 .. l - 1 : o \in position .. position + m - 1 <=> o \in position .. position + n - 1
      BY <2>1, <2>3, <2>6
    <3> QED
      BY <1>5, <2>4, <3>2, <3>3, <3>4
  <2> QED
    BY <2>3, <2>5, <2>6
<1>8. /\ \A o, u \in 0 .. FileLength(chain) - 1 : o # u => before[o] # before[u]
      /\ \A position \in 0 .. FileLength(chain), n \in 0 .. MaxFileSize + 1 :
            /\ \A s \in Sectors \ DataSectors(chain) : WriteAt(chain, old, from, n, position)[s] = old[s]
            /\ \A o \in 0 .. FileLength(chain) - 1 :
                  ReadAt(chain, WriteAt(chain, old, from, n, position), FileLength(chain), 0)[o] =
                      IF o \in position .. position + n - 1 THEN from[o - position] ELSE before[o]
  BY <1>1, <1>6, <1>7
<1> QED
  BY <1>8, Zenon DEF ReadsBack, old, from, before

\* Between two calls every file of a sound disk does.
LEMMA SoundReadsBack == DiskTypes /\ Sound => WritesReadBack
<1> SUFFICES ASSUME DiskTypes, Sound, writes = << >>, NEW p \in Present
             PROVE  ReadsBack(FetchFrom(GetDirSector(p)))
  BY DEF WritesReadBack, ReadsBack, Quiescent
<1>1. PICK owners, chain, dirs : Own(marked, header, owners, chain) /\ Linked(table, owners, dirs)
  BY SoundNow
<1>2. owners \in SUBSET Sectors
  BY <1>1 DEF Own
<1>3. p \in Seq(Names) /\ p # << >> /\ Exists(p)
  BY PathIs DEF Present
<1>4. PICK d \in dirs : \E e \in table[d] : e.sector = GetDirSector(p)
  BY <1>1, <1>2, <1>3, PresentLinked
<1>5. PICK o \in owners : o = GetDirSector(p)
  BY <1>1, <1>4 DEF Linked
<1>6. FetchFrom(o) = chain[o]
  BY <1>1, OwnedNow
<1>7. IsChain(chain[o]) /\ Laid(chain[o])
  BY <1>1 DEF Own, Holds
<1> QED
  BY <1>5, <1>6, <1>7, ChainReadsBack

\* Whatever is written to a part of a file is what is read there afterwards, and
\* nothing else on the disk changes (openfile.cc 113-181), for every size of the
\* sectors and the headers and so for every alignment of the request and every
\* length of the chain: as long as the machine was never stopped in a call.
THEOREM ReadsBackUnlessStopped == Spec => [](crashes = 0 => WritesReadBack)
<1>1. Init => Types /\ NeverStopped
  BY InitTypes, InitSound
<1>2. Types /\ NeverStopped /\ [Next]_vars => (Types /\ NeverStopped)'
  BY NextTypes, NextSound
<1>3. Types /\ NeverStopped => (crashes = 0 => WritesReadBack)
  BY SoundReadsBack DEF Types, NeverStopped
<1> QED
  BY <1>1, <1>2, <1>3, PTL DEF Spec

\* So it is always where the machine never stops in the middle of a call.
THEOREM ReadBack == ASSUME MaxCrashes = 0 PROVE Spec => []WritesReadBack
<1>1. Types => crashes = 0
  BY DEF Types, CallTypes
<1>2. Types /\ (crashes = 0 => WritesReadBack) => WritesReadBack
  BY <1>1
<1> QED
  BY <1>2, TypesHold, ReadsBackUnlessStopped, PTL
=============================================================================
