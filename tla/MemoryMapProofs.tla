-------------------------- MODULE MemoryMapProofs --------------------------
(***************************************************************************)
(* Proofs about the guest's memory, for any page size, any requests of the *)
(* devices and any size of the memory file.                                *)
(***************************************************************************)
EXTENDS MemoryMap, FiniteSetTheorems, TLAPS

Setups == {"before", "reload", "layout", "after"}
Phases == Setups \cup {"ready", "cmdline", "setup", "failed", "lost"}

\* What the map holds.
RegionType(r) == r.start \in Nat /\ r.size \in Nat \ {0} /\ (r.type = "user" => r.file \in Nat)
MapType == IsFiniteSet(map) /\ \A r \in map : RegionType(r)

Segments   == [start : Nat, size : Nat \ {0}, file : Nat]
LayRecords == [seg : Nat, i : Nat, top : Nat, start : Nat, memory : Nat]

\* The types, as far as the arguments below need them.
TypeInv ==
  /\ before \in Seq(Requests) /\ after \in Seq(Requests)
  /\ filesize \in FileSizes
  /\ phase \in Phases
  /\ next \in Nat \ {0}
  /\ MapType
  /\ Allocated \in Seq(Segments)
  /\ lay \in LayRecords
  /\ \A c \in chunks : c.region \in Nat /\ c.offset \in Nat /\ c.size \in Nat \ {0}

\* How much of the file the first j segments take up.
Laid(j) == IF j = 0 THEN 0 ELSE Allocated[j].file + Allocated[j].size
AllLaid == Laid(Len(Allocated))

\* Up to where in the file the map has a place for each byte, and how much of
\* it can still be put behind the regions that are there.
Reached == CASE phase = "before" -> 0
             [] phase \in {"reload", "layout"} -> lay.start
             [] OTHER -> filesize
Used == CASE phase \in {"before", "reload"} -> AllLaid
          [] phase = "layout" -> lay.start
          [] OTHER -> filesize

\* The segments are consecutive in the file, and have room.
SegmentsInv ==
  /\ AllLaid <= filesize
  /\ \A j \in 1 .. Len(Allocated) :
       /\ Allocated[j].file = Laid(j - 1)
       /\ BelowTop(Allocated[j].start + Allocated[j].size + (filesize - AllLaid))

\* The variables of Reload and Layout follow the segments.
LayInv ==
  /\ phase = "before" => lay = NoLayout
  /\ phase = "reload" =>
       /\ lay.seg \in 1 .. Len(Allocated) + 1
       /\ lay.memory = Laid(lay.seg - 1) /\ lay.start = Laid(lay.seg - 1) /\ lay.top = 0
  /\ phase = "layout" =>
       /\ lay.start = AllLaid /\ lay.memory = filesize - lay.start
       /\ BelowTop(lay.top + lay.memory)

\* No region comes near the top, and no two begin at the same address.
BoundInv == \A r \in map : BelowTop(r.start + r.size + (filesize - Used))
StartsDiffer == \A r, s \in map : r.start = s.start => r = s

\* The user regions of M are a place for each byte of the file up to n, and
\* one only.
Users(M) == {r \in M : r.type = "user"}
Placed(M, n) ==
  /\ \A r \in Users(M) : r.file + r.size <= n
  /\ \A o \in 0 .. n - 1 : \E r \in Users(M) : r.file <= o /\ o < r.file + r.size
  /\ \A r, s \in Users(M) : r # s => r.file + r.size <= s.file \/ s.file + s.size <= r.file
FileInv == phase \notin {"failed", "lost"} => Placed(map, Reached)

\* Nothing is allocated before the regions are all there.
ChunksInv == phase \in Setups => chunks = {}

\* The inductive invariant.
IInv ==
  /\ TypeInv /\ SegmentsInv /\ LayInv /\ BoundInv /\ StartsDiffer
  /\ RegionsApart /\ FileInv /\ ChunksInv /\ ChunksApart

-----------------------------------------------------------------------------
(* Numbers.                                                                *)

\* The constants, as the arithmetic below needs them.
LEMMA SizesNat ==
  /\ PageSize \in Nat \ {0} /\ AddrMod \in Nat
  /\ \A n \in FileSizes : n \in Nat \ {0} /\ n < AddrMod
  /\ \A n \in LoadSizes : n \in Nat \ {0} /\ n < AddrMod
BY PageAssumption, SizesAssumption

\* What is below an address that has room above it has room too.
LEMMA Lower ==
  ASSUME NEW a \in Nat, NEW b \in Nat, a <= b, BelowTop(b)
  PROVE  BelowTop(a) /\ a < AddrMod
<1>1. 0 \in LoadSizes \cup {0} /\ \A size \in LoadSizes \cup {0} : size \in Nat
  BY SizesNat
<1>2. \A size \in LoadSizes \cup {0} : a + size < AddrMod
  BY <1>1, SizesNat DEF BelowTop
<1>3. a + 0 < AddrMod
  BY <1>1, <1>2
<1> QED
  BY <1>2, <1>3 DEF BelowTop

\* The remainder of an address that does not wrap, and of one that wraps once.
LEMMA Wraps ==
  ASSUME NEW x \in Nat, NEW m \in Nat, x < 2 * m
  PROVE  x % m = IF x < m THEN x ELSE x - m
<1>1. m \in Nat \ {0}
  OBVIOUS
<1>2. x % m \in 0 .. m - 1 /\ x \div m \in Int /\ x = m * (x \div m) + (x % m)
  BY <1>1
<1> DEFINE d == x \div m
           e == x % m
<1>3. d \in Int /\ e \in 0 .. m - 1 /\ x = m * d + e
  BY <1>2
<1> HIDE DEF d, e
<1>4. d >= 0
  <2> SUFFICES ASSUME d <= -1 PROVE FALSE
    BY <1>3
  <2>1. m * d <= -m
    BY <1>1, <1>3
  <2> QED
    BY <2>1, <1>1, <1>3
<1>5. d <= 1
  <2> SUFFICES ASSUME d >= 2 PROVE FALSE
    BY <1>3
  <2>1. m * d >= 2 * m
    BY <1>1, <1>3
  <2> QED
    BY <2>1, <1>1, <1>3
<1>6. CASE d = 0
  BY <1>1, <1>3, <1>6 DEF e
<1>7. CASE d = 1
  BY <1>1, <1>3, <1>7 DEF e
<1> QED
  BY <1>3, <1>4, <1>5, <1>6, <1>7

\* The end of a chunk that does not wrap.
LEMMA AfterIs ==
  ASSUME NEW a \in Nat, NEW n \in Nat, a + n < AddrMod
  PROVE  After(a, n) = a + n
<1> DEFINE x == a + n
           m == AddrMod
<1>1. x \in Nat /\ m \in Nat /\ x < m
  BY SizesNat
<1> HIDE DEF x, m
<1>2. x % m = x
  BY <1>1, Wraps
<1> QED
  BY <1>2 DEF After, x, m

\* The distance of two addresses, as Layout computes it, is not 0 unless they
\* are the same.
LEMMA MinusIs ==
  ASSUME NEW a \in Nat, NEW b \in Nat, a < AddrMod, b < AddrMod, a # b
  PROVE  Minus(a, b) \in Nat \ {0}
<1> DEFINE x == a + AddrMod - b
           m == AddrMod
<1>1. x \in Nat /\ m \in Nat /\ x < 2 * m /\ x # m /\ x # 0
  BY SizesNat
<1>2. Minus(a, b) = x % m
  BY DEF Minus
<1> HIDE DEF x, m
<1>3. x % m = IF x < m THEN x ELSE x - m
  BY <1>1, Wraps
<1> QED
  BY <1>1, <1>2, <1>3

\* A set of natural numbers has a minimum.
LEMMA MinOfNats ==
  ASSUME NEW S \in SUBSET Nat, S # {}
  PROVE  \E x \in S : \A y \in S : x <= y
<1> DEFINE Intervals == {0 .. x : x \in S}
<1>1. IsWellFoundedOn(StrictSubsetOrdering(Nat), FiniteSubsetsOf(Nat))
  BY FS_StrictSubsetOrderingWellFounded
<1>2. Intervals \subseteq FiniteSubsetsOf(Nat)
  <2>1. ASSUME NEW x \in S PROVE 0 .. x \in FiniteSubsetsOf(Nat)
    <3>1. IsFiniteSet(0 .. x)
      BY FS_Interval
    <3> QED
      BY <3>1 DEF FiniteSubsetsOf
  <2> QED
    BY <2>1
<1>3. Intervals # {}
  OBVIOUS
<1> HIDE DEF Intervals
<1>4. \E B \in Intervals : \A C \in Intervals : ~(<<C, B>> \in StrictSubsetOrdering(Nat))
  BY <1>1, <1>2, <1>3, WFMin
<1> USE DEF Intervals
<1>5. PICK x \in S : \A y \in S : ~(<<0 .. y, 0 .. x>> \in StrictSubsetOrdering(Nat))
  BY <1>4
<1>6. ASSUME NEW y \in S PROVE x <= y
  <2> SUFFICES ASSUME y < x PROVE FALSE
    OBVIOUS
  <2>1. 0 .. y \subseteq 0 .. x /\ x \in 0 .. x /\ x \notin 0 .. y
    OBVIOUS
  <2>2. 0 .. y \in SUBSET Nat /\ 0 .. x \in SUBSET Nat /\ 0 .. y # 0 .. x
    BY <2>1
  <2> QED
    BY <1>5, <2>1, <2>2 DEF StrictSubsetOrdering
<1> QED
  BY <1>6

\* A set of natural numbers that has a bound has a maximum.
LEMMA MaxOfNats ==
  ASSUME NEW n \in Nat, NEW S \in SUBSET (0 .. n), S # {}
  PROVE  \E x \in S : \A y \in S : x >= y
<1> DEFINE T == {n - x : x \in S}
<1>1. T \in SUBSET Nat /\ T # {}
  <2>1. \A x \in S : n - x \in Nat
    OBVIOUS
  <2>2. \E x \in S : n - x \in T
    OBVIOUS
  <2> QED
    BY <2>1, <2>2
<1>2. PICK t \in T : \A u \in T : t <= u
  BY <1>1, MinOfNats
<1>3. PICK x \in S : t = n - x
  BY <1>2
<1>4. ASSUME NEW y \in S PROVE x >= y
  <2>1. n - y \in T
    OBVIOUS
  <2> HIDE DEF T
  <2>2. n - x <= n - y
    BY <2>1, <1>2, <1>3
  <2> QED
    BY <2>2
<1> QED
  BY <1>4

-----------------------------------------------------------------------------
(* Regions.                                                                *)

\* How many regions begin below r.
Under(r) == {s \in map : s.start < r.start}

\* Layout and Max find a region at each index below the length of the map,
\* and as many regions begin below it.
LEMMA NthInMap ==
  ASSUME MapType, StartsDiffer, NEW i \in Nat, i < Cardinality(map)
  PROVE  Nth(i) \in map /\ Cardinality(Under(Nth(i))) = i
<1> DEFINE n == Cardinality(map)
           f == [r \in map |-> Cardinality(Under(r))]
<1>1. n \in Nat
  BY FS_CardinalityType DEF MapType
<1>2. ASSUME NEW r \in map
      PROVE  IsFiniteSet(Under(r)) /\ Cardinality(Under(r)) \in Nat /\ Cardinality(Under(r)) < n
  <2>1. r \notin Under(r) /\ Under(r) \in SUBSET map /\ Under(r) # map
    BY DEF MapType, RegionType, Under
  <2>2. /\ IsFiniteSet(Under(r)) /\ Cardinality(Under(r)) <= Cardinality(map)
        /\ Cardinality(map) # Cardinality(Under(r))
    BY <2>1, FS_Subset DEF MapType
  <2>3. Cardinality(Under(r)) \in Nat
    BY <2>2, FS_CardinalityType
  <2> QED
    BY <2>2, <2>3, <1>1
<1>3. ASSUME NEW r \in map, NEW s \in map, r.start < s.start
      PROVE  Cardinality(Under(r)) < Cardinality(Under(s))
  <2>1. Under(r) \in SUBSET Under(s) /\ r \in Under(s) /\ r \notin Under(r)
    BY <1>3 DEF Under, MapType, RegionType
  <2>2. /\ Cardinality(Under(r)) <= Cardinality(Under(s))
        /\ Cardinality(Under(r)) # Cardinality(Under(s))
    BY <2>1, <1>2, FS_Subset
  <2> QED
    BY <2>2, <1>2
<1>4. f \in Injection(map, 0 .. n - 1)
  <2>1. f \in [map -> 0 .. n - 1]
    BY <1>1, <1>2
  <2>2. ASSUME NEW r \in map, NEW s \in map, r # s
        PROVE  f[r] # f[s]
    <3>1. r.start < s.start \/ s.start < r.start
      BY <2>2 DEF StartsDiffer, MapType, RegionType
    <3>2. f[r] \in Nat /\ f[s] \in Nat /\ (f[r] < f[s] \/ f[s] < f[r])
      BY <3>1, <1>2, <1>3
    <3> QED
      BY <3>2
  <2> QED
    <3> HIDE DEF f
    <3> QED
      BY <2>1, <2>2 DEF Injection, IsInjective
<1>5. IsFiniteSet(0 .. n - 1) /\ Cardinality(0 .. n - 1) = n
  <2> HIDE DEF n
  <2>1. 0 \in Int /\ n - 1 \in Int
    BY <1>1
  <2>2. /\ IsFiniteSet(0 .. n - 1)
        /\ Cardinality(0 .. n - 1) = IF 0 > n - 1 THEN 0 ELSE n - 1 - 0 + 1
    BY <2>1, FS_Interval
  <2> QED
    BY <1>1, <2>2
<1>6. f \in Surjection(map, 0 .. n - 1)
  BY <1>4, <1>5, FS_Injection
<1>7. \E r \in map : f[r] = i
  <2>1. i \in 0 .. n - 1
    BY <1>1
  <2> HIDE DEF f, n
  <2> QED
    BY <1>6, <2>1 DEF Surjection
<1>8. \E r \in map : Cardinality(Under(r)) = i
  BY <1>7
<1> QED
  BY <1>8 DEF Nth, Under

\* The end of a region that has room above it.
LEMMA EndIs ==
  ASSUME NEW r, RegionType(r), NEW b \in Nat, BelowTop(r.start + r.size + b)
  PROVE  End(r) = r.start + r.size /\ End(r) \in Nat /\ BelowTop(End(r) + b)
<1>1. r.start \in Nat /\ r.size \in Nat
  BY DEF RegionType
<1>2. r.start + r.size < AddrMod
  BY <1>1, SizesNat, Lower
<1>3. After(r.start, r.size) = r.start + r.size
  BY <1>1, <1>2, AfterIs
<1> QED
  BY <1>1, <1>3 DEF End

\* What Reserve's test of the other regions leaves: the new region is apart
\* from another one, or strictly inside it.
LEMMA NoConflict ==
  ASSUME NEW r, NEW s, RegionType(r), RegionType(s),
         BelowTop(r.start + r.size), BelowTop(s.start + s.size),
         ~Overlaps(s, r.start, r.size)
  PROVE  r.start # s.start /\ (Meet(r, s) => Inside(r, s))
<1>1. r.start \in Nat /\ r.size \in Nat \ {0} /\ s.start \in Nat /\ s.size \in Nat \ {0}
  BY DEF RegionType
<1>2. r.start + r.size \in Nat /\ s.start + s.size \in Nat
  BY <1>1
<1>3. r.start + r.size < AddrMod /\ s.start + s.size < AddrMod
  BY <1>2, Lower
<1>4. After(r.start, r.size) = r.start + r.size /\ After(s.start, s.size) = s.start + s.size
  BY <1>1, <1>3, AfterIs
<1>5. /\ ~(s.start >= r.start /\ s.start < r.start + r.size)
      /\ ~(s.start + s.size > r.start /\ s.start + s.size <= r.start + r.size)
  BY <1>4 DEF Overlaps, End
<1> QED
  BY <1>1, <1>5 DEF Meet, Inside

\* Reserve keeps the map in order, whether or not it takes the region.
LEMMA ReserveKeeps ==
  ASSUME NEW r, RegionType(r), NEW b \in Nat, BelowTop(r.start + r.size + b),
         MapType, StartsDiffer, RegionsApart,
         \A s \in map : BelowTop(s.start + s.size + b),
         Reserve(r)
  PROVE  /\ MapType' /\ StartsDiffer' /\ RegionsApart'
         /\ \A s \in map' : BelowTop(s.start + s.size + b)
<1>1. CASE ~Reserved(r)
  <2>1. map' = map
    BY <1>1 DEF Reserve
  <2> QED
    BY <2>1 DEF MapType, StartsDiffer, RegionsApart
<1>2. CASE Reserved(r)
  <2>1. map' = map \cup {r}
    BY <1>2 DEF Reserve
  <2>2. ASSUME NEW s \in map
        PROVE  r.start # s.start /\ (Meet(r, s) => Inside(r, s))
    <3>1. RegionType(s) /\ ~Overlaps(s, r.start, r.size)
      BY <1>2 DEF Reserved, Conflicts, MapType
    <3>2. /\ r.start + r.size \in Nat /\ r.start + r.size + b \in Nat
          /\ s.start + s.size \in Nat /\ s.start + s.size + b \in Nat
          /\ r.start + r.size <= r.start + r.size + b
          /\ s.start + s.size <= s.start + s.size + b
      BY <3>1 DEF RegionType
    <3>3. BelowTop(r.start + r.size)
      BY <3>2, Lower
    <3>4. BelowTop(s.start + s.size)
      BY <3>2, Lower
    <3> QED
      BY <3>1, <3>3, <3>4, NoConflict
  <2>3. MapType'
    <3>1. IsFiniteSet(map')
      BY <2>1, FS_AddElement DEF MapType
    <3> QED
      BY <2>1, <3>1 DEF MapType
  <2>4. StartsDiffer'
    BY <2>1, <2>2 DEF StartsDiffer
  <2>5. RegionsApart'
    <3> SUFFICES ASSUME NEW p \in map', NEW q \in map', p # q, Meet(p, q)
                 PROVE  Inside(p, q) \/ Inside(q, p)
      BY DEF RegionsApart
    <3>1. CASE p \in map /\ q \in map
      BY <3>1 DEF RegionsApart
    <3>2. CASE p = r /\ q \in map
      BY <2>2, <3>2
    <3>3. CASE q = r /\ p \in map
      <4>1. Meet(r, p)
        BY <3>3 DEF Meet
      <4> QED
        BY <2>2, <3>3, <4>1
    <3> QED
      BY <2>1, <3>1, <3>2, <3>3
  <2>6. \A s \in map' : BelowTop(s.start + s.size + b)
    BY <2>1
  <2> QED
    BY <2>3, <2>4, <2>5, <2>6
<1> QED
  BY <1>1, <1>2

\* A region of user memory for the next bytes of the file.
LEMMA PlacedNext ==
  ASSUME NEW M, NEW r, NEW n \in Nat, Placed(M, n),
         \A s \in M : RegionType(s),
         r.type = "user", r.file = n, r.size \in Nat
  PROVE  Placed(M \cup {r}, n + r.size)
<1> DEFINE U == Users(M)
           V == Users(M \cup {r})
           m == r.size
<1>1. V = U \cup {r}
  BY DEF Users
<1>2. /\ \A s \in U : s.file \in Nat /\ s.size \in Nat /\ s.file + s.size <= n
      /\ \A o \in 0 .. n - 1 : \E s \in U : s.file <= o /\ o < s.file + s.size
      /\ \A s, t \in U : s # t => s.file + s.size <= t.file \/ t.file + t.size <= s.file
  BY DEF Placed, Users, RegionType
<1> HIDE DEF U, V
<1>3. \A s \in V : s.file + s.size <= n + r.size
  BY <1>1, <1>2
<1>4. ASSUME NEW o \in 0 .. n + m - 1
      PROVE  \E s \in V : s.file <= o /\ o < s.file + s.size
  <2>1. CASE o < n
    BY <1>1, <1>2, <2>1
  <2>2. CASE o >= n
    BY <1>1, <1>2, <2>2
  <2> QED
    BY <2>1, <2>2
<1>5. \A s, t \in V : s # t => s.file + s.size <= t.file \/ t.file + t.size <= s.file
  BY <1>1, <1>2
<1>6. \A o \in 0 .. (n + r.size) - 1 : \E s \in V : s.file <= o /\ o < s.file + s.size
  BY <1>4
<1>7. Users(M \cup {r}) = V
  BY DEF V
<1> QED
  BY <1>3, <1>5, <1>6, <1>7, Zenon DEF Placed

\* A region of another type does not count.
LEMMA PlacedSame ==
  ASSUME NEW M, NEW r, NEW n, Placed(M, n), r.type # "user"
  PROVE  Placed(M \cup {r}, n)
<1>1. Users(M \cup {r}) = Users(M)
  BY DEF Users
<1> QED
  BY <1>1 DEF Placed

-----------------------------------------------------------------------------
(* The steps.                                                              *)

\* The invariant holds when the process starts.
LEMMA InitInv == Init => IInv
<1> SUFFICES ASSUME Init PROVE IInv
  OBVIOUS
<1>1. \A n \in Nat : [1 .. n -> Requests] \subseteq Seq(Requests)
  OBVIOUS
<1>2. before \in Seq(Requests) /\ after \in Seq(Requests)
  BY <1>1, BoundsAssumption DEF Init
<1>3. IsFiniteSet({})
  BY FS_EmptySet
<1>4. NoLayout \in LayRecords
  BY DEF NoLayout, LayRecords
<1>5. Allocated \in Seq(Segments) /\ Len(Allocated) = 0
  BY DEF Init
<1>6. TypeInv
  BY <1>2, <1>3, <1>4, <1>5 DEF Init, TypeInv, MapType, Phases, Setups
<1>7. SegmentsInv
  BY <1>5, SizesNat DEF Init, SegmentsInv, AllLaid, Laid
<1>8. LayInv /\ BoundInv /\ StartsDiffer /\ RegionsApart /\ ChunksInv /\ ChunksApart
  BY DEF Init, LayInv, BoundInv, StartsDiffer, RegionsApart, ChunksInv, ChunksApart
<1>9. FileInv
  BY DEF Init, FileInv, Placed, Users, Reached
<1> QED
  BY <1>6, <1>7, <1>8, <1>9 DEF IInv

\* What the segments take up of the file.
LEMMA LaidNat ==
  ASSUME Allocated \in Seq(Segments), NEW j \in 0 .. Len(Allocated)
  PROVE  Laid(j) \in Nat
<1>1. CASE j = 0
  BY <1>1 DEF Laid
<1>2. CASE j # 0
  <2>1. Allocated[j] \in Segments
    BY <1>2
  <2> QED
    BY <1>2, <2>1 DEF Laid, Segments
<1> QED
  BY <1>1, <1>2

\* The quantities of the invariant.
LEMMA Quantities ==
  ASSUME IInv
  PROVE  /\ filesize \in Nat \ {0} /\ BelowTop(filesize)
         /\ Len(Allocated) \in Nat /\ AllLaid \in Nat /\ AllLaid <= filesize
         /\ Used \in Nat /\ Used <= filesize
         /\ lay.seg \in Nat /\ lay.i \in Nat /\ lay.top \in Nat
         /\ lay.start \in Nat /\ lay.memory \in Nat
<1>1. filesize \in FileSizes /\ Allocated \in Seq(Segments) /\ lay \in LayRecords
  BY DEF IInv, TypeInv
<1>2. filesize \in Nat \ {0} /\ BelowTop(filesize)
  BY <1>1, SizesNat, RoomAssumption
<1>3. Len(Allocated) \in Nat /\ AllLaid \in Nat
  <2>1. Len(Allocated) \in Nat
    BY <1>1
  <2>2. Len(Allocated) \in 0 .. Len(Allocated)
    BY <2>1
  <2> QED
    BY <2>1, <2>2, <1>1, LaidNat DEF AllLaid
<1>4. /\ lay.seg \in Nat /\ lay.i \in Nat /\ lay.top \in Nat
      /\ lay.start \in Nat /\ lay.memory \in Nat
  BY <1>1 DEF LayRecords
<1>5. AllLaid <= filesize /\ (phase = "layout" => lay.start = AllLaid)
  BY DEF IInv, SegmentsInv, LayInv
<1> QED
  BY <1>2, <1>3, <1>4, <1>5 DEF Used

\* The bound on the regions when less of the file is left.
LEMMA BoundNext ==
  ASSUME MapType', NEW b \in Nat, \A s \in map' : BelowTop(s.start + s.size + b),
         (filesize - Used)' \in Nat, (filesize - Used)' <= b
  PROVE  BoundInv'
<1> DEFINE c == (filesize - Used)'
<1>1. ASSUME NEW s \in map' PROVE BelowTop(s.start + s.size + c)
  <2>1. s.start + s.size + c \in Nat /\ s.start + s.size + b \in Nat
        /\ s.start + s.size + c <= s.start + s.size + b
    BY DEF MapType, RegionType
  <2> QED
    BY <2>1, Lower
<1> QED
  BY <1>1 DEF BoundInv

\* Setting up does not touch the chunks, of which there are none.
LEMMA NoChunksYet ==
  ASSUME IInv, phase \in Setups, UNCHANGED chunks
  PROVE  ChunksInv' /\ ChunksApart' /\ chunks' = {}
<1>1. chunks' = {}
  BY DEF IInv, ChunksInv
<1> QED
  BY <1>1 DEF ChunksInv, ChunksApart

\* A device reserves its region.
LEMMA AttachStep ==
  ASSUME IInv, NEW requests, NEW done,
         \/ requests = "before" /\ done = "reload"
         \/ requests = "after" /\ done = "ready",
         Attach(requests, done)
  PROVE  IInv'
<1> DEFINE seq == IF requests = "before" THEN before ELSE after
           b   == filesize - Used
<1>1. /\ phase = requests /\ phase \in {"before", "after"} /\ phase \in Setups
      /\ before' = before /\ after' = after /\ filesize' = filesize
      /\ chunks' = chunks /\ Allocated' = Allocated /\ lay' = lay
  BY DEF Attach, config, Setups
<1>2. /\ phase' \in {phase, done, "failed"} /\ next' \in Nat \ {0}
      /\ phase = "before" => phase' \in {"before", "reload", "failed"}
      /\ phase = "after" => phase' \in {"after", "ready", "failed"}
  BY <1>1 DEF Attach, IInv, TypeInv
<1>3. AllLaid' = AllLaid /\ SegmentsInv'
  BY <1>1 DEF IInv, SegmentsInv, AllLaid, Laid
<1>4. ChunksInv' /\ ChunksApart'
  BY <1>1, NoChunksYet
<1>5. LayInv'
  <2>1. phase' # "layout"
    BY <1>1, <1>2
  <2>2. ASSUME phase' \in {"before", "reload"} PROVE phase = "before" /\ lay = NoLayout
    BY <1>1, <1>2, <2>2 DEF IInv, LayInv
  <2>3. lay = NoLayout => lay.seg = 1 /\ lay.memory = 0 /\ lay.start = 0 /\ lay.top = 0
    BY DEF NoLayout
  <2>4. 1 \in 1 .. Len(Allocated) + 1
    BY Quantities
  <2> QED
    BY <1>1, <2>1, <2>2, <2>3, <2>4 DEF LayInv, Laid
<1>6. b \in Nat /\ Used' \in Nat /\ (filesize - Used)' \in Nat /\ (filesize - Used)' <= b
  BY <1>1, <1>2, <1>3, Quantities DEF Used
<1>7. (Reached = 0 /\ (phase' = "reload" => lay.start = 0)) \/ phase = "after"
  BY <1>1 DEF Reached, IInv, LayInv, NoLayout
<1>8. phase' # "failed" => Reached' = Reached
  BY <1>1, <1>2, <1>7 DEF Reached
<1>9. \A s \in map : BelowTop(s.start + s.size + b)
  BY DEF IInv, BoundInv
<1>10. phase \notin {"failed", "lost"} /\ Placed(map, Reached)
  BY <1>1 DEF IInv, FileInv
<1>11. MapType /\ StartsDiffer /\ RegionsApart
  BY DEF IInv, TypeInv
<1>12. MapType' /\ StartsDiffer' /\ RegionsApart' /\ BoundInv' /\ FileInv'
  <2>1. CASE next > Len(seq)
    <3>1. map' = map
      BY <2>1 DEF Attach
    <3>2. MapType' /\ StartsDiffer' /\ RegionsApart'
      BY <3>1, <1>11 DEF MapType, StartsDiffer, RegionsApart
    <3>3. BoundInv'
      <4> HIDE DEF b
      <4> QED
        BY <3>1, <3>2, <1>6, <1>9, BoundNext
    <3>4. FileInv'
      BY <3>1, <1>8, <1>10 DEF FileInv
    <3> QED
      BY <3>2, <3>3, <3>4
  <2>2. CASE ~(next > Len(seq))
    <3> DEFINE q == seq[next]
               r == [start |-> q.start, size |-> q.size, type |-> q.type, file |-> NoFile]
    <3>1. q \in Requests
      <4>1. seq \in Seq(Requests) /\ next \in Nat \ {0}
        BY DEF IInv, TypeInv
      <4> HIDE DEF seq
      <4> QED
        BY <4>1, <2>2
    <3>2. Reserve(r) /\ phase' = IF ReserveFails(r) THEN "failed" ELSE phase
      BY <2>2 DEF Attach
    <3> HIDE DEF q
    <3>3. q.start \in Nat /\ q.size \in Nat \ {0} /\ q.type # "user"
      BY <3>1, RequestsAssumption, SizesNat DEF Types
    <3>4. RegionType(r) /\ r.type # "user" /\ r.start = q.start /\ r.size = q.size
      BY <3>3 DEF RegionType
    <3>5. BelowTop(r.start + r.size + b)
      <4>1. BelowTop(q.start + q.size + filesize)
        BY <3>1, RoomAssumption DEF IInv, TypeInv
      <4>2. b <= filesize /\ filesize \in Nat
        BY Quantities
      <4>3. /\ q.start + q.size + b \in Nat /\ q.start + q.size + filesize \in Nat
            /\ q.start + q.size + b <= q.start + q.size + filesize
        BY <1>6, <3>3, <4>2
      <4>4. BelowTop(q.start + q.size + b)
        BY <4>1, <4>3, Lower
      <4> QED
        BY <3>4, <4>4
    <3> HIDE DEF r, b
    <3>6. /\ MapType' /\ StartsDiffer' /\ RegionsApart'
          /\ \A s \in map' : BelowTop(s.start + s.size + b)
      BY <1>6, <1>9, <1>11, <3>2, <3>4, <3>5, ReserveKeeps
    <3>7. BoundInv'
      BY <1>6, <3>6, BoundNext
    <3>8. FileInv'
      <4> SUFFICES ASSUME phase' # "failed" PROVE Placed(map', Reached')
        BY DEF FileInv
      <4>1. map' = map \cup {r}
        BY <3>2 DEF Reserve, ReserveFails
      <4>2. Placed(map \cup {r}, Reached)
        BY <1>10, <3>4, PlacedSame
      <4> QED
        BY <4>1, <4>2, <1>8
    <3> QED
      BY <3>6, <3>7, <3>8
  <2> QED
    BY <2>1, <2>2
<1>13. TypeInv'
  BY <1>1, <1>2, <1>4, <1>12 DEF IInv, TypeInv, Phases, Setups
<1> QED
  BY <1>3, <1>4, <1>5, <1>12, <1>13 DEF IInv

\* The map after a region for the next bytes of the file, taken or not.
LEMMA UserReserved ==
  ASSUME IInv, NEW a \in Nat, NEW n \in Nat \ {0}, NEW b \in Nat, BelowTop(a + n + b),
         b <= filesize - Used, phase \in {"reload", "layout"},
         Reserve(UserRegion(a, n, lay.start)),
         (filesize - Used)' \in Nat, (filesize - Used)' <= b,
         \/ phase' = "failed"
         \/ Reached' = lay.start + n /\ ~ReserveFails(UserRegion(a, n, lay.start))
  PROVE  MapType' /\ StartsDiffer' /\ RegionsApart' /\ BoundInv' /\ FileInv'
<1> DEFINE r == UserRegion(a, n, lay.start)
<1>1. RegionType(r) /\ r.start = a /\ r.size = n /\ r.type = "user" /\ r.file = lay.start
  BY Quantities DEF UserRegion, RegionType
<1>2. Reserve(r)
  OBVIOUS
<1> HIDE DEF r
<1>3. MapType /\ StartsDiffer /\ RegionsApart
  BY DEF IInv, TypeInv
<1>4. ASSUME NEW s \in map PROVE BelowTop(s.start + s.size + b)
  <2> DEFINE c == filesize - Used
  <2>1. BelowTop(s.start + s.size + c) /\ c \in Nat /\ b <= c
    BY Quantities DEF IInv, BoundInv
  <2> HIDE DEF c
  <2>2. /\ s.start + s.size + b \in Nat /\ s.start + s.size + c \in Nat
        /\ s.start + s.size + b <= s.start + s.size + c
    BY <1>3, <2>1 DEF MapType, RegionType
  <2> QED
    BY <2>1, <2>2, Lower
<1>5. BelowTop(r.start + r.size + b)
  BY <1>1
<1>6. /\ MapType' /\ StartsDiffer' /\ RegionsApart'
      /\ \A s \in map' : BelowTop(s.start + s.size + b)
  BY <1>1, <1>2, <1>3, <1>4, <1>5, ReserveKeeps
<1>7. BoundInv'
  BY <1>6, BoundNext
<1>8. FileInv'
  <2>1. CASE phase' = "failed"
    BY <2>1 DEF FileInv
  <2>2. CASE Reached' = lay.start + n /\ ~ReserveFails(UserRegion(a, n, lay.start))
    <3>1. map' = map \cup {r}
      BY <1>2, <2>2 DEF Reserve, ReserveFails, r
    <3>2. Placed(map, lay.start)
      BY DEF IInv, FileInv, Reached
    <3>3. Placed(map \cup {r}, lay.start + r.size)
      BY <1>1, <1>3, <3>2, Quantities, PlacedNext DEF MapType
    <3> QED
      BY <1>1, <2>2, <3>1, <3>3 DEF FileInv
  <2> QED
    BY <2>1, <2>2
<1> QED
  BY <1>6, <1>7, <1>8

\* A saved segment is reserved again, or Reload comes to their end.
LEMMA ReloadStep ==
  ASSUME IInv, Reload
  PROVE  IInv'
<1>1. /\ phase = "reload" /\ phase \in Setups
      /\ before' = before /\ after' = after /\ filesize' = filesize
      /\ chunks' = chunks /\ Allocated' = Allocated /\ next' = next
  BY DEF Reload, config, Setups
<1>2. phase' \in {"reload", "failed", "layout", "after"}
  BY <1>1 DEF Reload
<1>3. AllLaid' = AllLaid /\ SegmentsInv' /\ \A j \in Nat : Laid(j)' = Laid(j)
  BY <1>1 DEF IInv, SegmentsInv, AllLaid, Laid
<1>4. ChunksInv' /\ ChunksApart'
  BY <1>1, NoChunksYet
<1>5. /\ lay.seg \in 1 .. Len(Allocated) + 1 /\ lay.top = 0
      /\ lay.memory = Laid(lay.seg - 1) /\ lay.start = Laid(lay.seg - 1)
  BY <1>1 DEF IInv, LayInv
<1>6. lay \in LayRecords /\ Allocated \in Seq(Segments)
  BY DEF IInv, TypeInv
<1>7. Used = AllLaid
  BY <1>1 DEF Used
<1>8. lay' \in LayRecords /\ LayInv' /\ MapType' /\ StartsDiffer' /\ RegionsApart' /\ BoundInv' /\ FileInv'
  <2>1. CASE lay.seg <= Len(Allocated)
    <3> DEFINE s == Allocated[lay.seg]
    <3>1. s \in Segments /\ lay.seg \in 1 .. Len(Allocated)
      BY <1>5, <1>6, <2>1, Quantities
    <3>2. s.start \in Nat /\ s.size \in Nat \ {0} /\ s.file \in Nat
      BY <3>1 DEF Segments
    <3>3. /\ s.file = lay.start
          /\ BelowTop(s.start + s.size + (filesize - AllLaid))
          /\ Laid(lay.seg) = s.file + s.size
      BY <1>5, <3>1 DEF IInv, SegmentsInv, Laid
    <3>4. /\ Reserve(UserRegion(s.start, s.size, lay.start)) /\ Reloaded(s)
          /\ phase' = IF ReserveFails(UserRegion(s.start, s.size, lay.start)) THEN "failed" ELSE phase
      BY <2>1, <3>3 DEF Reload
    <3> HIDE DEF s
    <3>5. /\ lay' \in LayRecords /\ lay'.seg = lay.seg + 1 /\ lay'.top = lay.top
          /\ lay'.memory = lay.memory + s.size /\ lay'.start = lay.start + s.size
      <4>0. lay.start \in Nat /\ lay.memory \in Nat /\ lay.seg \in Nat
        BY Quantities
      <4>1. /\ lay.start + s.size \in Nat /\ lay.start + s.size > lay.start
            /\ lay.memory + s.size \in Nat /\ lay.seg + 1 \in Nat
        BY <3>2, <4>0
      <4>2. lay' = [lay EXCEPT !.seg = lay.seg + 1, !.memory = lay.memory + s.size,
                               !.start = lay.start + s.size]
        BY <1>6, <3>3, <3>4, <4>1 DEF Reloaded, LayRecords
      <4> QED
        BY <1>6, <4>1, <4>2 DEF LayRecords
    <3>6. LayInv'
      <4>1. phase' \in {"reload", "failed"}
        BY <1>1, <3>4
      <4>2. lay'.seg - 1 = lay.seg /\ lay.seg \in Nat /\ lay'.seg \in 1 .. Len(Allocated) + 1
        BY <3>1, <3>5, Quantities
      <4>3. lay'.memory = Laid(lay.seg) /\ lay'.start = Laid(lay.seg) /\ lay'.top = 0
        BY <1>5, <3>2, <3>3, <3>5
      <4>4. Laid(lay.seg - 1)' = Laid(lay.seg)
        BY <1>1, <4>2 DEF Laid
      <4> QED
        BY <1>1, <4>1, <4>2, <4>3, <4>4 DEF LayInv
    <3>7. MapType' /\ StartsDiffer' /\ RegionsApart' /\ BoundInv' /\ FileInv'
      <4> DEFINE b == filesize - AllLaid
      <4>1. b \in Nat /\ b <= filesize - Used /\ BelowTop(s.start + s.size + b)
        BY <1>7, <3>3, Quantities
      <4>2. (filesize - Used)' \in Nat /\ (filesize - Used)' <= b
        BY <1>1, <1>2, <1>3, <3>4, Quantities DEF Used
      <4>3. \/ phase' = "failed"
            \/ /\ Reached' = lay.start + s.size
               /\ ~ReserveFails(UserRegion(s.start, s.size, lay.start))
        BY <1>1, <3>4, <3>5 DEF Reached
      <4> HIDE DEF b
      <4> QED
        BY <1>1, <3>2, <3>4, <4>1, <4>2, <4>3, UserReserved
    <3> QED
      BY <3>5, <3>6, <3>7
  <2>2. CASE ~(lay.seg <= Len(Allocated))
    <3>1. lay.seg = Len(Allocated) + 1 /\ lay.start = AllLaid /\ lay.memory = AllLaid
      BY <1>5, <2>2, Quantities DEF AllLaid
    <3>2. /\ lay' = [lay EXCEPT !.memory = filesize - lay.memory] /\ map' = map
          /\ phase' = IF filesize > lay.memory THEN "layout" ELSE "after"
      BY <1>6, <2>2 DEF Reload, LayRecords
    <3>3. /\ lay' \in LayRecords /\ lay'.top = 0 /\ lay'.start = AllLaid
          /\ lay'.memory = filesize - AllLaid
      BY <1>5, <1>6, <3>1, <3>2, Quantities DEF LayRecords
    <3>4. LayInv'
      <4>1. BelowTop(0 + (filesize - AllLaid))
        <5>1. 0 + (filesize - AllLaid) \in Nat /\ 0 + (filesize - AllLaid) <= filesize
          BY Quantities
        <5> QED
          BY <5>1, Quantities, Lower
      <4> QED
        BY <1>1, <1>3, <3>2, <3>3, <4>1 DEF LayInv
    <3>5. MapType' /\ StartsDiffer' /\ RegionsApart'
      BY <3>2 DEF IInv, TypeInv, MapType, StartsDiffer, RegionsApart
    <3>6. BoundInv'
      <4> DEFINE b == filesize - Used
      <4>1. b \in Nat /\ \A r \in map' : BelowTop(r.start + r.size + b)
        BY <3>2, Quantities DEF IInv, BoundInv
      <4>2. (filesize - Used)' \in Nat /\ (filesize - Used)' <= b
        BY <1>1, <1>7, <3>2, <3>3, Quantities DEF Used
      <4> HIDE DEF b
      <4> QED
        BY <3>5, <4>1, <4>2, BoundNext
    <3>7. FileInv'
      <4>1. Placed(map, lay.start)
        BY <1>1 DEF IInv, FileInv, Reached
      <4>2. Reached' = lay.start
        BY <1>1, <3>1, <3>2, <3>3, Quantities DEF Reached
      <4> QED
        BY <3>2, <4>1, <4>2 DEF FileInv
    <3> QED
      BY <3>3, <3>4, <3>5, <3>6, <3>7
  <2> QED
    BY <2>1, <2>2
<1>9. TypeInv'
  BY <1>1, <1>2, <1>4, <1>8 DEF IInv, TypeInv, Phases, Setups
<1> QED
  BY <1>3, <1>4, <1>8, <1>9 DEF IInv

\* The end of a segment.
LEMMA SegmentEnd ==
  ASSUME NEW s \in Segments
  PROVE  s.start + s.size \in Nat
BY DEF Segments

\* One segment more.
LEMMA SegmentAdded ==
  ASSUME Allocated \in Seq(Segments), SegmentsInv, filesize \in Nat, UNCHANGED filesize,
         NEW a \in Nat, NEW n \in Nat \ {0},
         Allocated' = Append(Allocated, [start |-> a, size |-> n, file |-> AllLaid]),
         AllLaid + n <= filesize, BelowTop(a + n + (filesize - (AllLaid + n)))
  PROVE  Allocated' \in Seq(Segments) /\ AllLaid' = AllLaid + n /\ SegmentsInv'
<1> DEFINE k == Len(Allocated)
           e == [start |-> a, size |-> n, file |-> AllLaid]
<1>1. k \in Nat /\ AllLaid \in Nat
  <2>1. k \in Nat /\ k \in 0 .. k
    OBVIOUS
  <2> QED
    BY <2>1, LaidNat DEF AllLaid
<1>2. e \in Segments /\ e.start = a /\ e.size = n /\ e.file = AllLaid
  BY <1>1 DEF Segments
<1>3. Allocated' = Append(Allocated, e)
  OBVIOUS
<1> HIDE DEF e
<1>4. /\ Allocated' \in Seq(Segments) /\ Len(Allocated') = k + 1
      /\ \A j \in 1 .. k : Allocated'[j] = Allocated[j]
      /\ Allocated'[k + 1] = e
  BY <1>2, <1>3
<1>5. AllLaid' = AllLaid + n
  <2>1. AllLaid' = e.file + e.size
    BY <1>1, <1>4 DEF AllLaid, Laid
  <2> QED
    BY <1>2, <2>1
<1>6. \A j \in 0 .. k : Laid(j)' = Laid(j)
  BY <1>1, <1>4 DEF Laid
<1>7. ASSUME NEW j \in 1 .. k + 1
      PROVE  /\ Allocated'[j].file = Laid(j - 1)'
             /\ BelowTop(Allocated'[j].start + Allocated'[j].size + (filesize - (AllLaid + n)))
  <2>1. CASE j = k + 1
    <3>1. j - 1 = k /\ k \in 0 .. k
      BY <1>1, <2>1
    <3>2. Laid(j - 1)' = AllLaid
      BY <1>6, <3>1 DEF AllLaid
    <3> QED
      BY <1>2, <1>4, <2>1, <3>2
  <2>2. CASE j # k + 1
    <3>1. j \in 1 .. k /\ j - 1 \in 0 .. k
      BY <1>1, <2>2
    <3>2. Allocated'[j] = Allocated[j] /\ Allocated[j] \in Segments
      BY <1>4, <3>1
    <3>3. /\ Allocated[j].file = Laid(j - 1)
          /\ BelowTop(Allocated[j].start + Allocated[j].size + (filesize - AllLaid))
      BY <3>1 DEF SegmentsInv
    <3>4. BelowTop(Allocated[j].start + Allocated[j].size + (filesize - (AllLaid + n)))
      <4> DEFINE c == Allocated[j].start + Allocated[j].size
      <4>1. c \in Nat
        BY <3>2, SegmentEnd
      <4> HIDE DEF c
      <4>2. /\ c + (filesize - AllLaid) \in Nat /\ c + (filesize - (AllLaid + n)) \in Nat
            /\ c + (filesize - (AllLaid + n)) <= c + (filesize - AllLaid)
        BY <1>1, <4>1
      <4>3. BelowTop(c + (filesize - AllLaid))
        BY <3>3 DEF c
      <4>4. BelowTop(c + (filesize - (AllLaid + n)))
        BY <4>2, <4>3, Lower
      <4> QED
        BY <4>4 DEF c
    <3> QED
      BY <1>6, <3>1, <3>2, <3>3, <3>4
  <2> QED
    BY <2>1, <2>2
<1> QED
  BY <1>4, <1>5, <1>7 DEF SegmentsInv

\* The region Layout is at, and the gap before it.
LEMMA LayoutGap ==
  ASSUME IInv, phase = "layout", lay.i < Cardinality(map), lay.memory > 0,
         NEW gap, lay.top # Nth(lay.i).start =>
                    gap = IF Minus(Nth(lay.i).start, lay.top) > lay.memory THEN lay.memory
                          ELSE Minus(Nth(lay.i).start, lay.top)
  PROVE  /\ End(Nth(lay.i)) \in Nat /\ BelowTop(End(Nth(lay.i)) + lay.memory)
         /\ lay.top # Nth(lay.i).start => gap \in Nat \ {0} /\ gap <= lay.memory
<1> DEFINE region == Nth(lay.i)
           m == lay.memory
<1>1. /\ m \in Nat \ {0} /\ lay.top \in Nat /\ lay.i \in Nat /\ m = filesize - Used
      /\ BelowTop(lay.top + m)
  BY Quantities DEF IInv, LayInv, Used
<1>2. region \in map
  BY <1>1, NthInMap DEF IInv, TypeInv
<1> HIDE DEF region
<1>3. RegionType(region) /\ BelowTop(region.start + region.size + m)
  BY <1>1, <1>2 DEF IInv, TypeInv, MapType, BoundInv
<1>4. region.start \in Nat /\ region.size \in Nat
  BY <1>3 DEF RegionType
<1>5. End(region) \in Nat /\ BelowTop(End(region) + m)
  <2>1. m \in Nat
    BY <1>1
  <2> HIDE DEF m
  <2> QED
    BY <1>3, <2>1, EndIs
<1>6. region.start < AddrMod /\ lay.top < AddrMod
  <2>1. /\ region.start <= region.start + region.size + m
        /\ region.start + region.size + m \in Nat
        /\ lay.top <= lay.top + m /\ lay.top + m \in Nat
    BY <1>1, <1>4
  <2> HIDE DEF m
  <2> QED
    BY <1>1, <1>3, <1>4, <2>1, Lower
<1>7. ASSUME lay.top # region.start PROVE gap \in Nat \ {0} /\ gap <= m
  <2> DEFINE space == Minus(region.start, lay.top)
  <2>1. space \in Nat \ {0}
    BY <1>1, <1>4, <1>6, <1>7, MinusIs
  <2>2. gap = IF space > m THEN m ELSE space
    BY <1>7 DEF region
  <2> HIDE DEF space, m
  <2> QED
    BY <1>1, <2>1, <2>2
<1> QED
  BY <1>5, <1>7 DEF region

\* One round of Layout.
LEMMA LayoutStep ==
  ASSUME IInv, Layout
  PROVE  IInv'
<1> DEFINE region == Nth(lay.i)
           space  == Minus(region.start, lay.top)
           gap    == IF space > lay.memory THEN lay.memory ELSE space
           r      == UserRegion(lay.top, gap, lay.start)
<1>1. /\ phase = "layout" /\ phase \in Setups /\ lay.i < Cardinality(map) /\ lay.memory > 0
      /\ before' = before /\ after' = after /\ filesize' = filesize
      /\ chunks' = chunks /\ next' = next
  BY DEF Layout, config, Setups
<1>2. ChunksInv' /\ ChunksApart'
  BY <1>1, NoChunksYet
<1>3. /\ lay \in LayRecords /\ Allocated \in Seq(Segments) /\ MapType
      /\ StartsDiffer /\ RegionsApart /\ SegmentsInv
  BY DEF IInv, TypeInv
<1>4. /\ lay.start = AllLaid /\ lay.memory = filesize - lay.start
      /\ BelowTop(lay.top + lay.memory) /\ Used = lay.start /\ Reached = lay.start
  BY <1>1 DEF IInv, LayInv, Used, Reached
<1>5. /\ End(region) \in Nat /\ BelowTop(End(region) + lay.memory)
      /\ lay.top # region.start => gap \in Nat \ {0} /\ gap <= lay.memory
  BY <1>1, LayoutGap
<1>6. /\ filesize \in Nat /\ lay.top \in Nat /\ lay.i \in Nat
      /\ lay.start \in Nat /\ lay.memory \in Nat /\ lay.start <= filesize
  BY <1>4, Quantities
<1>7. ASSUME NEW g \in Nat, g <= lay.memory, LaidOut(g)
      PROVE  /\ lay' \in LayRecords /\ lay'.start = lay.start + g
             /\ lay'.memory = lay.memory - g /\ BelowTop(lay'.top + lay'.memory)
             /\ lay'.memory = filesize - lay'.start
  <2> DEFINE e == End(region)
  <2>1. lay' = [lay EXCEPT !.i = lay.i + 1, !.top = e, !.memory = lay.memory - g,
                           !.start = lay.start + g]
    BY <1>3, <1>7 DEF LaidOut, LayRecords
  <2>2. e \in Nat /\ BelowTop(e + lay.memory)
    BY <1>5
  <2> HIDE DEF e
  <2>3. /\ lay.i + 1 \in Nat /\ lay.memory - g \in Nat /\ lay.start + g \in Nat
    BY <1>6, <1>7
  <2>4. /\ lay' \in LayRecords /\ lay'.start = lay.start + g
        /\ lay'.memory = lay.memory - g /\ lay'.top = e
    BY <1>3, <2>1, <2>2, <2>3 DEF LayRecords
  <2>5. /\ e + (lay.memory - g) \in Nat /\ e + lay.memory \in Nat
        /\ e + (lay.memory - g) <= e + lay.memory
    BY <1>6, <1>7, <2>2, <2>3
  <2>6. BelowTop(e + (lay.memory - g))
    BY <2>2, <2>5, Lower
  <2>7. lay.memory - g = filesize - (lay.start + g)
    BY <1>4, <1>6
  <2> QED
    BY <2>4, <2>6, <2>7
<1>8. CASE lay.top = region.start
  <2>1. LaidOut(0) /\ phase' = phase /\ map' = map /\ Allocated' = Allocated
    BY <1>8 DEF Layout
  <2>2. /\ lay' \in LayRecords /\ lay'.start = lay.start /\ lay'.memory = lay.memory
        /\ BelowTop(lay'.top + lay'.memory) /\ lay'.memory = filesize - lay'.start
    BY <1>6, <1>7, <2>1
  <2>3. TypeInv'
    BY <1>1, <2>1, <2>2 DEF IInv, TypeInv, MapType
  <2>4. AllLaid' = AllLaid /\ SegmentsInv'
    BY <1>1, <1>3, <2>1 DEF SegmentsInv, AllLaid, Laid
  <2>5. LayInv'
    BY <1>1, <1>4, <2>1, <2>2, <2>4 DEF LayInv
  <2>6. StartsDiffer' /\ RegionsApart'
    BY <1>3, <2>1 DEF StartsDiffer, RegionsApart
  <2>7. Used' = Used /\ Reached' = Reached
    BY <1>1, <1>4, <2>1, <2>2 DEF Used, Reached
  <2>8. BoundInv' /\ FileInv'
    BY <1>1, <2>1, <2>7 DEF IInv, BoundInv, FileInv
  <2> QED
    BY <1>2, <2>3, <2>4, <2>5, <2>6, <2>8 DEF IInv
<1>9. CASE lay.top # region.start /\ ReserveFails(r)
  <2>1. Reserve(r) /\ phase' = "failed" /\ lay' = lay /\ Allocated' = Allocated
    BY <1>9 DEF Layout
  <2>2. gap \in Nat \ {0} /\ gap <= lay.memory
    BY <1>5, <1>9
  <2>3. Reserve(UserRegion(lay.top, gap, lay.start))
    BY <2>1
  <2> HIDE DEF gap, r
  <2>4. MapType' /\ StartsDiffer' /\ RegionsApart' /\ BoundInv' /\ FileInv'
    <3>1. BelowTop(lay.top + gap + 0)
      <4>1. /\ lay.top + gap + 0 \in Nat /\ lay.top + lay.memory \in Nat
            /\ lay.top + gap + 0 <= lay.top + lay.memory
        BY <1>6, <2>2
      <4> QED
        BY <1>4, <4>1, Lower
    <3>2. 0 <= filesize - Used /\ (filesize - Used)' = 0
      BY <1>1, <1>4, <1>6, <2>1 DEF Used
    <3> QED
      BY <1>1, <1>6, <2>1, <2>2, <2>3, <3>1, <3>2, UserReserved
  <2>5. TypeInv'
    BY <1>1, <2>1, <2>4 DEF IInv, TypeInv, Phases
  <2>6. SegmentsInv'
    BY <1>1, <1>3, <2>1 DEF SegmentsInv, AllLaid, Laid
  <2>7. LayInv'
    BY <2>1 DEF LayInv
  <2> QED
    BY <1>2, <2>4, <2>5, <2>6, <2>7 DEF IInv
<1>10. CASE lay.top # region.start /\ ~ReserveFails(r)
  <2>1. Reserve(r) /\ Remembered(r) /\ LaidOut(gap) /\ phase' = phase
    BY <1>10 DEF Layout
  <2>2. gap \in Nat \ {0} /\ gap <= lay.memory
    BY <1>5, <1>10
  <2>3. Reserve(UserRegion(lay.top, gap, lay.start)) /\ ~ReserveFails(UserRegion(lay.top, gap, lay.start))
    BY <1>10, <2>1
  <2>4. Allocated' = Append(Allocated, [start |-> lay.top, size |-> gap, file |-> AllLaid])
    BY <1>4, <2>1 DEF Remembered, UserRegion
  <2> HIDE DEF gap, r
  <2>5. /\ lay' \in LayRecords /\ lay'.start = lay.start + gap /\ lay'.memory = lay.memory - gap
        /\ BelowTop(lay'.top + lay'.memory) /\ lay'.memory = filesize - lay'.start
    BY <1>7, <2>1, <2>2
  <2>6. BelowTop(lay.top + gap + (lay.memory - gap))
    <3>1. lay.top + gap + (lay.memory - gap) = lay.top + lay.memory
      BY <1>6, <2>2
    <3> QED
      BY <1>4, <3>1
  <2>7. Allocated' \in Seq(Segments) /\ AllLaid' = AllLaid + gap /\ SegmentsInv'
    <3>1. lay.memory - gap = filesize - (AllLaid + gap) /\ AllLaid + gap <= filesize
      BY <1>4, <1>6, <2>2
    <3> QED
      BY <1>1, <1>3, <1>6, <2>2, <2>4, <2>6, <3>1, SegmentAdded
  <2>8. LayInv'
    BY <1>1, <1>4, <2>1, <2>5, <2>7 DEF LayInv
  <2>9. MapType' /\ StartsDiffer' /\ RegionsApart' /\ BoundInv' /\ FileInv'
    <3> DEFINE b == lay.memory - gap
    <3>1. b \in Nat /\ b <= filesize - Used
      BY <1>4, <1>6, <2>2
    <3>2. (filesize - Used)' = b
      BY <1>1, <1>4, <1>6, <2>1, <2>2, <2>5 DEF Used
    <3>3. Reached' = lay.start + gap
      BY <1>1, <2>1, <2>5 DEF Reached
    <3>4. BelowTop(lay.top + gap + b)
      BY <2>6
    <3> HIDE DEF b
    <3> QED
      BY <1>1, <1>6, <2>2, <2>3, <3>1, <3>2, <3>3, <3>4, UserReserved
  <2>10. TypeInv'
    BY <1>1, <2>1, <2>5, <2>7, <2>9 DEF IInv, TypeInv, Phases
  <2> QED
    BY <1>2, <2>7, <2>8, <2>9, <2>10 DEF IInv
<1> QED
  BY <1>8, <1>9, <1>10

\* What is left of the file goes above the last region.
LEMMA LayoutRestStep ==
  ASSUME IInv, LayoutRest
  PROVE  IInv'
<1>1. /\ phase = "layout" /\ phase \in Setups
      /\ before' = before /\ after' = after /\ filesize' = filesize
      /\ chunks' = chunks /\ next' = next /\ Allocated' = Allocated /\ lay' = lay
  BY DEF LayoutRest, config, Setups
<1>2. ChunksInv' /\ ChunksApart'
  BY <1>1, NoChunksYet
<1>3. /\ lay.memory = filesize - lay.start /\ BelowTop(lay.top + lay.memory)
      /\ Used = lay.start /\ Reached = lay.start
  BY <1>1 DEF IInv, LayInv, Used, Reached
<1>4. /\ filesize \in Nat /\ lay.top \in Nat /\ lay.start \in Nat /\ lay.memory \in Nat
  BY Quantities
<1>5. phase' \in {"after", "failed"}
  BY DEF LayoutRest
<1>6. SegmentsInv'
  BY <1>1 DEF IInv, SegmentsInv, AllLaid, Laid
<1>7. LayInv'
  BY <1>5 DEF LayInv
<1>8. (filesize - Used)' = 0 /\ (phase' = "after" => Reached' = filesize)
  BY <1>1, <1>4, <1>5 DEF Used, Reached
<1>9. MapType' /\ StartsDiffer' /\ RegionsApart' /\ BoundInv' /\ FileInv'
  <2>1. CASE lay.memory = 0
    <3>1. map' = map /\ phase' = "after" /\ lay.start = filesize
      BY <1>3, <1>4, <2>1 DEF LayoutRest
    <3>2. MapType' /\ StartsDiffer' /\ RegionsApart'
      BY <3>1 DEF IInv, TypeInv, MapType, StartsDiffer, RegionsApart
    <3>3. BoundInv'
      <4>1. filesize - Used = 0
        BY <1>3, <1>4, <3>1
      <4> QED
        BY <1>8, <3>1, <4>1 DEF IInv, BoundInv
    <3>4. FileInv'
      BY <1>1, <1>3, <1>8, <3>1 DEF IInv, FileInv
    <3> QED
      BY <3>2, <3>3, <3>4
  <2>2. CASE lay.memory # 0
    <3> DEFINE n == lay.memory
    <3>1. /\ Reserve(UserRegion(lay.top, n, lay.start))
          /\ phase' = IF ReserveFails(UserRegion(lay.top, n, lay.start)) THEN "failed" ELSE "after"
      BY <2>2 DEF LayoutRest
    <3>2. n \in Nat \ {0} /\ filesize = lay.start + n /\ BelowTop(lay.top + n + 0) /\ 0 <= filesize - Used
      <4>1. lay.top + n + 0 = lay.top + n
        BY <1>4
      <4> QED
        BY <1>3, <1>4, <2>2, <4>1
    <3> HIDE DEF n
    <3> QED
      BY <1>1, <1>4, <1>8, <3>1, <3>2, UserReserved
  <2> QED
    BY <2>1, <2>2
<1>10. TypeInv'
  BY <1>1, <1>5, <1>9 DEF IInv, TypeInv, Phases, Setups
<1> QED
  BY <1>2, <1>6, <1>7, <1>9, <1>10 DEF IInv

\* A set of regions has a first one.
LEMMA FirstIn ==
  ASSUME NEW S, S # {}, \A r \in S : r.start \in Nat
  PROVE  First(S) \in S
<1> DEFINE T == {r.start : r \in S}
<1>1. T \in SUBSET Nat /\ T # {}
  OBVIOUS
<1>2. PICK x \in T : \A y \in T : x <= y
  BY <1>1, MinOfNats
<1>3. PICK r \in S : x = r.start
  BY <1>2
<1>4. \A s \in S : r.start <= s.start
  BY <1>2, <1>3
<1> QED
  BY <1>3, <1>4 DEF First

\* A chunk that Map grants is in a region of user memory, apart from the others.
LEMMA ChunkGranted ==
  ASSUME IInv, NEW addr \in Nat, NEW size \in Nat \ {0}, addr + size < AddrMod,
         ~MapFails(addr, size), chunks' = Marked(addr, size), map' = map
  PROVE  /\ ChunksApart'
         /\ \A c \in chunks' : c.region \in Nat /\ c.offset \in Nat /\ c.size \in Nat \ {0}
<1> DEFINE r == First(Holding(addr, size))
           o == addr - r.start
           d == [region |-> r.start, offset |-> o, size |-> size]
<1>1. MapType /\ ChunksApart
  BY DEF IInv, TypeInv
<1>2. \A s \in Holding(addr, size) : s \in map /\ s.type = "user" /\ Contains(s, addr, size)
  BY DEF Holding, UserRegions
<1>3. Holding(addr, size) # {} /\ ~Taken(r, o, size)
  BY DEF MapFails
<1>4. r \in Holding(addr, size)
  BY <1>1, <1>2, <1>3, FirstIn DEF MapType, RegionType
<1>5. chunks' = chunks \cup {d}
  BY DEF Marked
<1>6. r \in map /\ r.type = "user" /\ Contains(r, addr, size)
  BY <1>2, <1>4
<1> HIDE DEF r
<1>7. RegionType(r) /\ r.start \in Nat /\ r.size \in Nat
  BY <1>1, <1>6 DEF MapType, RegionType
<1>8. End(r) = r.start + r.size
  <2> DEFINE b == filesize - Used
  <2>1. b \in Nat /\ BelowTop(r.start + r.size + b)
    BY <1>6, Quantities DEF IInv, BoundInv
  <2> HIDE DEF b
  <2> QED
    BY <1>7, <2>1, EndIs
<1>9. After(addr, size) = addr + size
  BY AfterIs
<1>10. o \in Nat /\ o + size <= r.size
  BY <1>6, <1>7, <1>8, <1>9 DEF Contains
<1> HIDE DEF o
<1>11. d.region = r.start /\ d.offset = o /\ d.size = size
  OBVIOUS
<1> HIDE DEF d
<1>12. ASSUME NEW c \in chunks, c.region = d.region
       PROVE  c.offset + c.size <= d.offset \/ d.offset + d.size <= c.offset
  <2>1. c.offset \in Nat /\ c.size \in Nat
    BY DEF IInv, TypeInv
  <2>2. /\ ~(o >= c.offset /\ o < c.offset + c.size)
        /\ ~(o + size >= c.offset /\ o < c.offset)
    BY <1>3, <1>11, <1>12 DEF Taken
  <2> QED
    BY <1>10, <1>11, <2>1, <2>2
<1>13. \A c \in chunks' : \E s \in UserRegions' : s.start = c.region /\ c.offset + c.size <= s.size
  <2>1. UserRegions' = UserRegions /\ r \in UserRegions
    BY <1>6 DEF UserRegions
  <2>2. \A c \in chunks : \E s \in UserRegions : s.start = c.region /\ c.offset + c.size <= s.size
    BY <1>1 DEF ChunksApart
  <2>3. r.start = d.region /\ d.offset + d.size <= r.size
    BY <1>10, <1>11
  <2> QED
    BY <1>5, <2>1, <2>2, <2>3
<1>14. \A c, e \in chunks' : c # e /\ c.region = e.region =>
         c.offset + c.size <= e.offset \/ e.offset + e.size <= c.offset
  <2>1. \A c, e \in chunks : c # e /\ c.region = e.region =>
          c.offset + c.size <= e.offset \/ e.offset + e.size <= c.offset
    BY <1>1 DEF ChunksApart
  <2> QED
    BY <1>5, <1>12, <2>1
<1>15. ChunksApart'
  BY <1>13, <1>14 DEF ChunksApart
<1>16. \A c \in chunks' : c.region \in Nat /\ c.offset \in Nat /\ c.size \in Nat \ {0}
  BY <1>5, <1>7, <1>10, <1>11 DEF IInv, TypeInv
<1> QED
  BY <1>15, <1>16

\* The loader changes the chunks alone.
LEMMA LoaderKeeps ==
  ASSUME IInv, phase \in {"ready", "cmdline", "setup"},
         phase' \in {"ready", "cmdline", "setup", "failed", "lost"},
         UNCHANGED <<config, next, map, slots, Allocated, lay, saved>>,
         \/ UNCHANGED chunks
         \/ /\ ChunksApart'
            /\ \A c \in chunks' : c.region \in Nat /\ c.offset \in Nat /\ c.size \in Nat \ {0}
  PROVE  IInv'
<1>1. /\ before' = before /\ after' = after /\ filesize' = filesize /\ next' = next
      /\ map' = map /\ Allocated' = Allocated /\ lay' = lay
  BY DEF config
<1>2. ChunksApart'
  BY <1>1 DEF IInv, ChunksApart, UserRegions
<1>3. ChunksInv'
  BY DEF ChunksInv, Setups
<1>4. TypeInv'
  BY <1>1 DEF IInv, TypeInv, MapType, Phases
<1>5. SegmentsInv'
  BY <1>1 DEF IInv, SegmentsInv, AllLaid, Laid
<1>6. LayInv'
  BY DEF LayInv
<1>7. StartsDiffer' /\ RegionsApart'
  BY <1>1 DEF IInv, StartsDiffer, RegionsApart
<1>8. Used' = Used /\ Reached' = filesize /\ Reached = filesize
  BY <1>1 DEF Used, Reached
<1>9. BoundInv'
  BY <1>1, <1>8 DEF IInv, BoundInv
<1>10. FileInv'
  BY <1>1, <1>8 DEF IInv, FileInv
<1> QED
  BY <1>2, <1>3, <1>4, <1>5, <1>6, <1>7, <1>9, <1>10 DEF IInv

\* Where Allocate looks for room, no chunk wraps.
LEMMA RoomBelowTop ==
  ASSUME IInv, NEW size \in LoadSizes
  PROVE  /\ MaxAddr \in Nat /\ Room(size) \in SUBSET (0 .. MaxAddr)
         /\ \A a \in Room(size) : a \in Nat /\ a + size < AddrMod /\ ~MapFails(a, size)
<1>1. MaxAddr \in Nat /\ BelowTop(MaxAddr)
  <2>1. CASE map = {}
    <3>1. MaxAddr = 0
      BY <2>1 DEF MaxAddr
    <3>2. BelowTop(0)
      BY Quantities, Lower
    <3> QED
      BY <3>1, <3>2
  <2>2. CASE map # {}
    <3> DEFINE i == Cardinality(map) - 1
               r == Nth(i)
               b == filesize - Used
    <3>1. MapType /\ StartsDiffer
      BY DEF IInv, TypeInv
    <3>2. Cardinality(map) \in Nat /\ Cardinality(map) # 0
      BY <2>2, <3>1, FS_CardinalityType, FS_EmptySet DEF MapType
    <3>3. i \in Nat /\ i < Cardinality(map)
      BY <3>2
    <3>4. MaxAddr = End(r)
      BY <2>2 DEF MaxAddr
    <3> HIDE DEF i
    <3>5. r \in map
      BY <3>1, <3>3, NthInMap
    <3> HIDE DEF r
    <3>6. RegionType(r) /\ b \in Nat /\ BelowTop(r.start + r.size + b)
      BY <3>1, <3>5, Quantities DEF IInv, BoundInv, MapType
    <3> HIDE DEF b
    <3>7. End(r) \in Nat /\ BelowTop(End(r) + b)
      BY <3>6, EndIs
    <3>8. End(r) <= End(r) + b /\ End(r) + b \in Nat
      BY <3>6, <3>7
    <3>9. BelowTop(End(r))
      BY <3>7, <3>8, Lower
    <3> QED
      BY <3>4, <3>7, <3>9
  <2> QED
    BY <2>1, <2>2
<1>2. MaxAddr + size < AddrMod /\ size \in Nat
  BY <1>1, SizesNat DEF BelowTop
<1>3. Room(size) \in SUBSET (0 .. MaxAddr) /\ \A a \in Room(size) : ~MapFails(a, size)
  BY DEF Room
<1>4. \A a \in 0 .. MaxAddr : a \in Nat /\ a + size < AddrMod
  BY <1>1, <1>2, SizesNat
<1> QED
  BY <1>1, <1>3, <1>4

\* A segment of the kernel.
LEMMA ElfLoadStep ==
  ASSUME IInv, NEW addr \in Addrs, NEW size \in LoadSizes, ElfLoad(addr, size)
  PROVE  IInv'
<1> DEFINE pages == size + (Minus(0, size) % PageSize)
<1>1. pages \in Nat \ {0}
  <2>1. size \in Nat \ {0} /\ size < AddrMod /\ 0 < AddrMod /\ 0 # size
    BY SizesNat
  <2>2. Minus(0, size) \in Nat
    BY <2>1, MinusIs
  <2>3. Minus(0, size) % PageSize \in Nat
    BY <2>2, SizesNat
  <2> QED
    BY <2>1, <2>3
<1>2. /\ phase = "ready" /\ UNCHANGED <<config, next, map, slots, Allocated, lay, saved>>
      /\ phase' \in {"ready", "failed", "lost"}
  BY DEF ElfLoad
<1>3. CASE MapFails(addr, pages) \/ addr + pages >= AddrMod
  <2>1. UNCHANGED chunks
    BY <1>3 DEF ElfLoad
  <2> QED
    BY <1>2, <2>1, LoaderKeeps
<1>4. CASE ~MapFails(addr, pages) /\ ~(addr + pages >= AddrMod)
  <2>1. chunks' = Marked(addr, pages)
    BY <1>4 DEF ElfLoad
  <2>2. addr \in Nat
    BY SizesNat DEF Addrs
  <2> HIDE DEF pages
  <2>3. addr + pages < AddrMod /\ map' = map
    BY <1>1, <1>2, <1>4, <2>2, SizesNat
  <2>4. /\ ChunksApart'
        /\ \A c \in chunks' : c.region \in Nat /\ c.offset \in Nat /\ c.size \in Nat \ {0}
    BY <1>1, <1>4, <2>1, <2>2, <2>3, ChunkGranted
  <2> QED
    BY <1>2, <2>4, LoaderKeeps
<1> QED
  BY <1>3, <1>4

\* The chunk that Allocate settles on, from either end.
LEMMA AllocateStep ==
  ASSUME IInv, NEW size \in LoadSizes, NEW a \in Room(size), chunks' = Marked(a, size),
         phase \in {"ready", "cmdline", "setup"}, phase' \in {"ready", "cmdline", "setup"},
         UNCHANGED <<config, next, map, slots, Allocated, lay, saved>>
  PROVE  IInv'
<1>1. a \in Nat /\ a + size < AddrMod /\ ~MapFails(a, size) /\ size \in Nat \ {0} /\ map' = map
  BY RoomBelowTop, SizesNat
<1>2. /\ ChunksApart'
      /\ \A c \in chunks' : c.region \in Nat /\ c.offset \in Nat /\ c.size \in Nat \ {0}
  BY <1>1, ChunkGranted
<1> QED
  BY <1>2, LoaderKeeps

\* Allocation from the bottom.
LEMMA LoadBottomStep ==
  ASSUME IInv, NEW size \in LoadSizes, LoadBottom(size)
  PROVE  IInv'
<1>1. /\ phase \in {"ready", "setup"}
      /\ UNCHANGED <<config, next, map, slots, Allocated, lay, saved>>
  BY DEF LoadBottom
<1>2. CASE Room(size) = {}
  <2>1. phase' = "failed" /\ UNCHANGED chunks
    BY <1>2 DEF LoadBottom
  <2> QED
    BY <1>1, <2>1, LoaderKeeps
<1>3. CASE Room(size) # {}
  <2>1. Room(size) \in SUBSET Nat
    BY RoomBelowTop
  <2>2. Min(Room(size)) \in Room(size)
    BY <1>3, <2>1, MinOfNats DEF Min
  <2>3. chunks' = Marked(Min(Room(size)), size) /\ phase' \in {"ready", "cmdline", "setup"}
    BY <1>1, <1>3 DEF LoadBottom
  <2> QED
    BY <1>1, <2>2, <2>3, AllocateStep
<1> QED
  BY <1>2, <1>3

\* Allocation from the top.
LEMMA LoadTopStep ==
  ASSUME IInv, NEW size \in LoadSizes, LoadTop(size)
  PROVE  IInv'
<1>1. phase = "cmdline" /\ UNCHANGED <<config, next, map, slots, Allocated, lay, saved>>
  BY DEF LoadTop
<1>2. CASE Room(size) = {}
  <2>1. phase' = "lost" /\ UNCHANGED chunks
    BY <1>2 DEF LoadTop
  <2> QED
    BY <1>1, <2>1, LoaderKeeps
<1>3. CASE Room(size) # {}
  <2>1. MaxAddr \in Nat /\ Room(size) \in SUBSET (0 .. MaxAddr)
    BY RoomBelowTop
  <2>2. Max(Room(size)) \in Room(size)
    BY <1>3, <2>1, MaxOfNats DEF Max
  <2>3. chunks' = Marked(Max(Room(size)), size) /\ phase' = "setup"
    BY <1>3 DEF LoadTop
  <2> QED
    BY <1>1, <2>2, <2>3, AllocateStep
<1> QED
  BY <1>2, <1>3

\* A new process.
LEMMA RestartStep ==
  ASSUME IInv, Restart
  PROVE  IInv'
<1>1. /\ before' = before /\ after' = after /\ filesize' = filesize /\ Allocated' = Allocated
      /\ phase' = "before" /\ next' = 1 /\ map' = {} /\ chunks' = {} /\ lay' = NoLayout
  BY DEF Restart, config
<1>2. IsFiniteSet({}) /\ NoLayout \in LayRecords
  BY FS_EmptySet DEF NoLayout, LayRecords
<1>3. TypeInv'
  BY <1>1, <1>2 DEF IInv, TypeInv, MapType, Phases, Setups
<1>4. SegmentsInv'
  BY <1>1 DEF IInv, SegmentsInv, AllLaid, Laid
<1>5. /\ LayInv' /\ BoundInv' /\ StartsDiffer' /\ RegionsApart'
      /\ ChunksInv' /\ ChunksApart'
  BY <1>1 DEF LayInv, BoundInv, StartsDiffer, RegionsApart, ChunksInv, ChunksApart
<1>6. FileInv'
  BY <1>1 DEF FileInv, Placed, Users, Reached
<1> QED
  BY <1>3, <1>4, <1>5, <1>6 DEF IInv

\* Every step keeps the invariant.
LEMMA NextInv == IInv /\ [Next]_vars => IInv'
<1> SUFFICES ASSUME IInv, [Next]_vars PROVE IInv'
  OBVIOUS
<1>1. CASE AttachBefore
  BY <1>1, AttachStep DEF AttachBefore
<1>2. CASE AttachAfter
  BY <1>2, AttachStep DEF AttachAfter
<1>3. CASE Reload
  BY <1>3, ReloadStep
<1>4. CASE Layout
  BY <1>4, LayoutStep
<1>5. CASE LayoutRest
  BY <1>5, LayoutRestStep
<1>6. CASE Boot
  <2>1. ASSUME NEW size \in LoadSizes, LoadBottom(size) PROVE IInv'
    BY <2>1, LoadBottomStep
  <2>2. ASSUME NEW size \in LoadSizes, LoadTop(size) PROVE IInv'
    BY <2>2, LoadTopStep
  <2>3. ASSUME NEW size \in LoadSizes, NEW addr \in Addrs, ElfLoad(addr, size) PROVE IInv'
    BY <2>3, ElfLoadStep
  <2> QED
    BY <1>6, <2>1, <2>2, <2>3 DEF Boot
<1>7. CASE Restart
  BY <1>7, RestartStep
<1>8. CASE UNCHANGED vars
  BY <1>8 DEF vars, IInv, TypeInv, MapType, SegmentsInv, LayInv, BoundInv, StartsDiffer,
     RegionsApart, FileInv, ChunksInv, ChunksApart, UserRegions, Used, Reached, AllLaid, Laid
<1> QED
  BY <1>1, <1>2, <1>3, <1>4, <1>5, <1>6, <1>7, <1>8 DEF Next, Setup

-----------------------------------------------------------------------------
(* The theorems.                                                           *)

\* The invariant holds in every reachable state.
THEOREM Invariance == Spec => []IInv
BY InitInv, NextInv, PTL DEF Spec

\* Two regions of the map share an address only when one lies strictly inside
\* the other, whatever devices reserve and however the file is laid out
\* between them.
THEOREM MapInOrder == Spec => []RegionsApart
<1>1. IInv => RegionsApart
  BY DEF IInv
<1> QED
  BY <1>1, Invariance, PTL

\* Chunks that Allocate and ElfLoad have been given do not overlap, and none
\* reaches out of its region of user memory.
THEOREM AllocationsApart == Spec => []ChunksApart
<1>1. IInv => ChunksApart
  BY DEF IInv
<1> QED
  BY <1>1, Invariance, PTL

\* Where a byte of the file is: one address, when the user regions are a place
\* for each byte up to its end.
LEMMA OneAddress ==
  ASSUME MapType, NEW n \in Nat, Placed(map, n), NEW o \in 0 .. n - 1
  PROVE  \E x : {p \in Backing : p[2] = o} = {x}
<1>1. UserRegions = Users(map)
  BY DEF UserRegions, Users
<1>2. PICK r \in UserRegions : r.file <= o /\ o < r.file + r.size
  BY <1>1 DEF Placed
<1>3. \A s \in UserRegions : s.start \in Nat /\ s.size \in Nat /\ s.file \in Nat
  BY DEF UserRegions, MapType, RegionType
<1>4. \A s \in UserRegions : r # s => r.file + r.size <= s.file \/ s.file + s.size <= r.file
  BY <1>1, <1>2 DEF Placed
<1> DEFINE k == o - r.file
           x == <<r.start + k, r.file + k>>
<1>5. k \in 0 .. r.size - 1 /\ r.file + k = o
  BY <1>2, <1>3
<1>6. x \in Backing /\ x[2] = o
  BY <1>2, <1>5 DEF Backing
<1>7. ASSUME NEW p \in Backing, p[2] = o PROVE p = x
  <2>1. PICK s \in UserRegions : \E j \in 0 .. s.size - 1 : p = <<s.start + j, s.file + j>>
    BY <1>7 DEF Backing
  <2>2. PICK j \in 0 .. s.size - 1 : p = <<s.start + j, s.file + j>>
    BY <2>1
  <2>3. s.file + j = o
    BY <1>7, <2>2
  <2>4. s = r
    <3> SUFFICES ASSUME s # r PROVE FALSE
      OBVIOUS
    <3>1. r.file + r.size <= s.file \/ s.file + s.size <= r.file
      BY <1>4
    <3> QED
      BY <1>2, <1>3, <2>3, <3>1
  <2>5. j = k
    BY <1>2, <1>3, <2>3, <2>4
  <2> QED
    BY <2>2, <2>4, <2>5
<1> HIDE DEF x
<1>8. {p \in Backing : p[2] = o} = {x}
  BY <1>6, <1>7
<1> QED
  BY <1>8

\* Once the devices are attached every byte of the memory file is at exactly
\* one address, for any file and any devices, also after a restart.
THEOREM FilePlaced == Spec => []FileLaidOut
<1>1. IInv => FileLaidOut
  <2> SUFFICES ASSUME IInv, phase = "ready", NEW o \in 0 .. filesize - 1
               PROVE  Cardinality({p \in Backing : p[2] = o}) = 1
    BY DEF FileLaidOut
  <2>1. MapType /\ Placed(map, filesize) /\ filesize \in Nat
    BY Quantities DEF IInv, TypeInv, FileInv, Reached
  <2>2. PICK x : {p \in Backing : p[2] = o} = {x}
    BY <2>1, OneAddress
  <2> QED
    BY <2>2, FS_Singleton
<1> QED
  BY <1>1, Invariance, PTL

-----------------------------------------------------------------------------
(* The restart.                                                            *)

\* The regions of the reservations and of the segments, as far as they have
\* been made, and the slots that go with the regions of M.
Region(q)      == [start |-> q.start, size |-> q.size, type |-> q.type, file |-> NoFile]
Segment(s)     == UserRegion(s.start, s.size, s.file)
FromSeq(q, n)  == {Region(q[i]) : i \in 1 .. n}
FromFile(A, n) == {Segment(A[i]) : i \in 1 .. n}
SlotsOf(M) == {[start |-> r.start, size |-> r.size] : r \in {x \in M : x.type \in {"user", "acpi"}}}

\* Reserve succeeds for r when the map is M.
Can(M, r) ==
  /\ ~Unaligned(r.start, r.size)
  /\ ~\E x \in M : Overlaps(x, r.start, r.size)
  /\ r.type \in {"user", "acpi"} =>
       ~\E s \in SlotsOf(M) : r.start < s.start + s.size /\ s.start < r.start + r.size

\* The regions of M in order, the end of the one before the i-th, and that
\* there is no gap before any of the first i.
Ranked(M, i)  == CHOOSE r \in M : Cardinality({s \in M : s.start < r.start}) = i
EndOf(r)      == r.start + r.size
TopOf(M, i)   == IF i = 0 THEN 0 ELSE End(Ranked(M, i - 1))
Gapless(M, i) == \A k \in 0 .. i - 1 : TopOf(M, k) = Ranked(M, k).start

\* The map before user memory is laid out; the region that is not remembered
\* when there was no gap to fill; and the map before the last devices.
Base    == FromSeq(before, Len(before))
OnTop    == UserRegion(TopOf(Base, Cardinality(Base)), filesize, 0)
Rest(A) == IF A = <<>> THEN {OnTop} ELSE {}
Whole   == Base \cup FromFile(Allocated, Len(Allocated)) \cup Rest(Allocated)

Attached == {"ready", "cmdline", "setup"}

\* The map and the slots are those of the steps that have been taken.
MapInv ==
  /\ phase \notin {"failed", "lost"} => slots = SlotsOf(map)
  /\ phase = "before" => next \in 1 .. Len(before) + 1 /\ map = FromSeq(before, next - 1)
  /\ phase = "reload" => next = 1 /\ map = Base \cup FromFile(Allocated, lay.seg - 1)
  /\ phase = "layout" => next = 1 /\ map = Base \cup FromFile(Allocated, Len(Allocated))
  /\ phase = "after" => next \in 1 .. Len(after) + 1 /\ map = Whole \cup FromSeq(after, next - 1)
  /\ phase \in Attached => map = Whole \cup FromSeq(after, Len(after))

\* What has been reserved can be reserved again in the same order.
BeforeInv ==
  \A n \in 1 .. Len(before) :
    saved # {} \/ phase \notin {"before", "failed", "lost"} \/ (phase = "before" /\ n < next) =>
      Can(FromSeq(before, n - 1), Region(before[n]))
SegmentInv ==
  phase \notin {"failed", "lost"} =>
    \A j \in 1 .. Len(Allocated) :
      Can(Base \cup FromFile(Allocated, j - 1), Segment(Allocated[j]))
AfterInv ==
  \A n \in 1 .. Len(after) :
    saved # {} \/ phase \in Attached \/ (phase = "after" /\ n < next) =>
      Can(Whole \cup FromSeq(after, n - 1), Region(after[n]))

\* Either the segments are all of the file, or there is none, because there
\* was no gap.
Settled ==
  IF Allocated # <<>> THEN AllLaid = filesize
  ELSE Gapless(Base, Cardinality(Base)) /\ Can(Base, OnTop)
SettledInv == saved # {} \/ phase \in Attached \cup {"after"} => Settled

\* Layout has met no gap yet; or it has filled one, and then it takes the end
\* of the region behind it for the start of another, which has room for all
\* that is left.
WalkInv ==
  /\ phase \in {"before", "reload"} => lay.i = 0 /\ (saved = {} => Allocated = <<>>)
  /\ phase = "layout" /\ Allocated = <<>> =>
       lay.i \in 0 .. Cardinality(Base) /\ lay.top = TopOf(Base, lay.i) /\ Gapless(Base, lay.i)
  /\ phase = "layout" /\ Allocated # <<>> =>
       /\ saved = {}
       /\ lay.memory # 0 => lay.i < Cardinality(map) /\ lay.top = EndOf(Ranked(map, lay.i))

\* What was saved is where the segments, or the one region, put the file.
Places(M) == UNION {{<<r.start + o, r.file + o>> : o \in 0 .. r.size - 1} : r \in M}
SavedInv ==
  saved # {} =>
    /\ phase \in Setups \cup {"ready"}
    /\ saved = Places(FromFile(Allocated, Len(Allocated)) \cup Rest(Allocated))

\* The invariant of the restart.
RestartInv ==
  MapInv /\ BeforeInv /\ SegmentInv /\ AfterInv /\ SettledInv /\ WalkInv /\ SavedInv

\* Reserve does what Can says.
LEMMA ReserveCan ==
  ASSUME slots = SlotsOf(map), NEW r, Reserve(r)
  PROVE  /\ ReserveFails(r) <=> ~Can(map, r)
         /\ Can(map, r) => map' = map \cup {r} /\ slots' = SlotsOf(map \cup {r})
<1>1. ReserveFails(r) <=> ~Can(map, r)
  BY DEF ReserveFails, Reserved, Can, Conflicts, MapUserMemoryFails
<1>2. ASSUME Can(map, r) PROVE map' = map \cup {r}
  BY <1>2 DEF Reserve, Reserved, Can, Conflicts
<1>3. ASSUME Can(map, r), r.type \in {"user", "acpi"} PROVE slots' = SlotsOf(map \cup {r})
  <2>1. slots' = slots \cup {[start |-> r.start, size |-> r.size]}
    BY <1>1, <1>3 DEF Reserve
  <2> QED
    BY <2>1, <1>3 DEF SlotsOf
<1>4. ASSUME Can(map, r), r.type \notin {"user", "acpi"} PROVE slots' = SlotsOf(map \cup {r})
  <2>1. slots' = slots
    BY <1>4 DEF Reserve
  <2> QED
    BY <2>1, <1>4 DEF SlotsOf
<1> QED
  BY <1>1, <1>2, <1>3, <1>4

\* One more reservation.
LEMMA FromSeqNext ==
  ASSUME NEW q, NEW n \in Nat
  PROVE  FromSeq(q, 0) = {} /\ FromSeq(q, n + 1) = FromSeq(q, n) \cup {Region(q[n + 1])}
<1>1. 1 .. 0 = {} /\ 1 .. n + 1 = (1 .. n) \cup {n + 1}
  OBVIOUS
<1> QED
  BY <1>1 DEF FromSeq

\* One more segment.
LEMMA FromFileNext ==
  ASSUME NEW A, NEW n \in Nat
  PROVE  FromFile(A, 0) = {} /\ FromFile(A, n + 1) = FromFile(A, n) \cup {Segment(A[n + 1])}
<1>1. 1 .. 0 = {} /\ 1 .. n + 1 = (1 .. n) \cup {n + 1}
  OBVIOUS
<1> QED
  BY <1>1 DEF FromFile

\* A segment at the end leaves the others alone.
LEMMA FromFileAppend ==
  ASSUME NEW A \in Seq(Segments), NEW s \in Segments
  PROVE  /\ Append(A, s) # <<>> /\ Len(Append(A, s)) = Len(A) + 1
         /\ \A j \in 1 .. Len(A) : Append(A, s)[j] = A[j]
         /\ Append(A, s)[Len(A) + 1] = s
         /\ \A j \in 0 .. Len(A) : FromFile(Append(A, s), j) = FromFile(A, j)
         /\ FromFile(Append(A, s), Len(A) + 1) = FromFile(A, Len(A)) \cup {Segment(s)}
<1> DEFINE B == Append(A, s)
<1>1. /\ B # <<>> /\ Len(B) = Len(A) + 1 /\ Len(A) \in Nat
      /\ \A j \in 1 .. Len(A) : B[j] = A[j]
      /\ B[Len(A) + 1] = s
  OBVIOUS
<1> HIDE DEF B
<1>2. ASSUME NEW j \in 0 .. Len(A) PROVE FromFile(B, j) = FromFile(A, j)
  <2>1. \A i \in 1 .. j : B[i] = A[i]
    BY <1>1
  <2> QED
    BY <2>1 DEF FromFile
<1>3. FromFile(B, Len(A) + 1) = FromFile(A, Len(A)) \cup {Segment(s)}
  BY <1>1, <1>2, FromFileNext
<1> QED
  BY <1>1, <1>2, <1>3 DEF B

\* What depends on the configuration only.
LEMMA ConfigKept ==
  ASSUME UNCHANGED config
  PROVE  /\ Base' = Base /\ OnTop' = OnTop
         /\ Allocated' = Allocated => Whole' = Whole /\ (Settled' <=> Settled)
<1>1. before' = before /\ after' = after /\ filesize' = filesize
  BY DEF config
<1>2. Base' = Base
  BY <1>1 DEF Base, FromSeq
<1>3. OnTop' = OnTop
  BY <1>1, <1>2 DEF OnTop
<1>4. ASSUME Allocated' = Allocated PROVE Whole' = Whole /\ (Settled' <=> Settled)
  BY <1>1, <1>2, <1>3, <1>4 DEF Whole, Rest, Settled, AllLaid, Laid
<1> QED
  BY <1>2, <1>3, <1>4

\* A process that has stopped has nothing to keep, unless it is the new one.
LEMMA Stopped ==
  ASSUME saved' = {}, phase' \in {"failed", "lost"}
  PROVE  RestartInv'
BY DEF RestartInv, MapInv, BeforeInv, SegmentInv, AfterInv, SettledInv, WalkInv, SavedInv, Attached

\* The initial states.
LEMMA RestartInit == Init => RestartInv
<1> SUFFICES ASSUME Init PROVE RestartInv
  OBVIOUS
<1>1. /\ phase = "before" /\ next = 1 /\ map = {} /\ slots = {} /\ saved = {}
      /\ Allocated = <<>> /\ lay.i = 0
  BY DEF Init, NoLayout
<1>2. Len(before) \in Nat
  BY InitInv DEF IInv, TypeInv
<1>3. FromSeq(before, next - 1) = {} /\ SlotsOf({}) = {}
  BY <1>1, FromSeqNext DEF SlotsOf
<1>4. MapInv
  BY <1>1, <1>2, <1>3 DEF MapInv, Attached
<1>5. BeforeInv /\ AfterInv /\ SettledInv /\ SavedInv
  BY <1>1, <1>2 DEF BeforeInv, AfterInv, SettledInv, SavedInv, Attached
<1>6. SegmentInv /\ WalkInv
  BY <1>1 DEF SegmentInv, WalkInv
<1> QED
  BY <1>4, <1>5, <1>6 DEF RestartInv

\* A device's reservation before the user memory.
LEMMA AttachBeforeKeeps == IInv /\ RestartInv /\ AttachBefore => RestartInv'
<1> SUFFICES ASSUME IInv, RestartInv, AttachBefore PROVE RestartInv'
  OBVIOUS
<1> USE DEF RestartInv
<1>1. /\ phase = "before" /\ UNCHANGED <<chunks, Allocated, lay, saved>> /\ UNCHANGED config
      /\ lay = NoLayout
  BY DEF AttachBefore, Attach, IInv, LayInv
<1>2. /\ before' = before /\ after' = after /\ filesize' = filesize
      /\ Base' = Base /\ OnTop' = OnTop /\ Whole' = Whole /\ (Settled' <=> Settled)
  BY <1>1, ConfigKept DEF config
<1>3. Len(before) \in Nat /\ Len(after) \in Nat /\ next \in 1 .. Len(before) + 1
  BY <1>1 DEF IInv, TypeInv, MapInv
<1>4. map = FromSeq(before, next - 1) /\ slots = SlotsOf(map)
  BY <1>1 DEF MapInv
<1>5. CASE next > Len(before)
  <2>1. phase' = "reload" /\ next' = 1 /\ map' = map /\ slots' = slots
    BY <1>5, <1>1 DEF AttachBefore, Attach
  <2>2. next - 1 = Len(before)
    BY <1>3, <1>5
  <2>3. map = Base \cup FromFile(Allocated, lay.seg - 1)
    BY <1>1, <1>4, <2>2, FromFileNext DEF Base, NoLayout
  <2>4. MapInv'
    BY <1>1, <1>2, <1>4, <2>1, <2>3 DEF MapInv, Attached
  <2>5. BeforeInv'
    BY <1>1, <1>2, <1>3, <1>5, <2>1 DEF BeforeInv
  <2>6. SegmentInv' /\ AfterInv' /\ SettledInv'
    BY <1>1, <1>2, <2>1 DEF SegmentInv, AfterInv, SettledInv, Attached
  <2>7. WalkInv' /\ SavedInv'
    BY <1>1, <1>2, <2>1 DEF WalkInv, SavedInv, Setups, Rest
  <2> QED
    BY <2>4, <2>5, <2>6, <2>7
<1>6. CASE next <= Len(before)
  <2> DEFINE r == Region(before[next])
  <2>1. Reserve(r) /\ phase' = (IF ReserveFails(r) THEN "failed" ELSE phase) /\ next' = next + 1
    BY <1>3, <1>6, <1>1 DEF AttachBefore, Attach, Region
  <2> HIDE DEF r
  <2>2. /\ ReserveFails(r) <=> ~Can(map, r)
        /\ Can(map, r) => map' = map \cup {r} /\ slots' = SlotsOf(map \cup {r})
    BY <2>1, <1>4, ReserveCan
  <2>3. CASE ~Can(map, r)
    <3>1. saved = {}
      BY <1>3, <1>4, <1>6, <2>3 DEF BeforeInv, r
    <3> QED
      BY <3>1, <2>1, <2>2, <2>3, <1>1, Stopped
  <2>4. CASE Can(map, r)
    <3>1. phase' = "before" /\ map' = map \cup {r} /\ slots' = SlotsOf(map')
      BY <2>1, <2>2, <2>4, <1>1
    <3>2. next - 1 \in Nat /\ (next - 1) + 1 = next /\ next' - 1 = next
      BY <1>3, <2>1
    <3>3. map' = FromSeq(before, next)
      BY <3>1, <3>2, <1>4, FromSeqNext DEF r
    <3>4. MapInv'
      BY <1>2, <1>3, <1>6, <2>1, <3>1, <3>2, <3>3 DEF MapInv, Attached
    <3>5. BeforeInv'
      <4> SUFFICES ASSUME NEW n \in 1 .. Len(before), saved # {} \/ n < next + 1
                   PROVE  Can(FromSeq(before, n - 1), Region(before[n]))
        BY <1>1, <1>2, <2>1, <3>1 DEF BeforeInv
      <4>1. CASE n = next
        BY <4>1, <2>4, <1>4 DEF r
      <4>2. CASE n # next
        <5>1. saved # {} \/ n < next
          BY <4>2, <1>3
        <5> QED
          BY <5>1, <1>1 DEF BeforeInv
      <4> QED
        BY <4>1, <4>2
    <3>6. SegmentInv' /\ AfterInv' /\ SettledInv'
      BY <1>1, <1>2, <3>1 DEF SegmentInv, AfterInv, SettledInv, Attached
    <3>7. WalkInv' /\ SavedInv'
      BY <1>1, <1>2, <3>1 DEF WalkInv, SavedInv, Setups, Rest
    <3> QED
      BY <3>4, <3>5, <3>6, <3>7
  <2> QED
    BY <2>3, <2>4
<1> QED
  BY <1>3, <1>5, <1>6

\* A device's reservation after the user memory.
LEMMA AttachAfterKeeps == IInv /\ RestartInv /\ AttachAfter => RestartInv'
<1> SUFFICES ASSUME IInv, RestartInv, AttachAfter PROVE RestartInv'
  OBVIOUS
<1> USE DEF RestartInv
<1>1. phase = "after" /\ UNCHANGED <<chunks, Allocated, lay, saved>> /\ UNCHANGED config
  BY DEF AttachAfter, Attach
<1>2. /\ before' = before /\ after' = after /\ filesize' = filesize
      /\ Base' = Base /\ OnTop' = OnTop /\ Whole' = Whole /\ (Settled' <=> Settled)
  BY <1>1, ConfigKept DEF config
<1>3. Len(before) \in Nat /\ Len(after) \in Nat /\ next \in 1 .. Len(after) + 1
  BY <1>1 DEF IInv, TypeInv, MapInv
<1>4. map = Whole \cup FromSeq(after, next - 1) /\ slots = SlotsOf(map)
  BY <1>1 DEF MapInv
<1>5. CASE next > Len(after)
  <2>1. phase' = "ready" /\ next' = 1 /\ map' = map /\ slots' = slots
    BY <1>5, <1>1 DEF AttachAfter, Attach
  <2>2. next - 1 = Len(after)
    BY <1>3, <1>5
  <2>4. MapInv'
    BY <1>1, <1>2, <1>4, <2>1, <2>2 DEF MapInv, Attached
  <2>5. AfterInv'
    <3>1. \A n \in 1 .. Len(after) : n < next
      BY <1>3, <1>5
    <3>2. \A n \in 1 .. Len(after) : Can(Whole \cup FromSeq(after, n - 1), Region(after[n]))
      BY <1>1, <3>1 DEF AfterInv
    <3> QED
      BY <1>2, <3>2 DEF AfterInv
  <2>6. SegmentInv' /\ BeforeInv' /\ SettledInv'
    BY <1>1, <1>2, <2>1 DEF SegmentInv, BeforeInv, SettledInv, Attached
  <2>7. WalkInv' /\ SavedInv'
    BY <1>1, <1>2, <2>1 DEF WalkInv, SavedInv, Setups, Rest
  <2> QED
    BY <2>4, <2>5, <2>6, <2>7
<1>6. CASE next <= Len(after)
  <2> DEFINE r == Region(after[next])
  <2>1. Reserve(r) /\ phase' = (IF ReserveFails(r) THEN "failed" ELSE phase) /\ next' = next + 1
    BY <1>3, <1>6, <1>1 DEF AttachAfter, Attach, Region
  <2> HIDE DEF r
  <2>2. /\ ReserveFails(r) <=> ~Can(map, r)
        /\ Can(map, r) => map' = map \cup {r} /\ slots' = SlotsOf(map \cup {r})
    BY <2>1, <1>4, ReserveCan
  <2>3. CASE ~Can(map, r)
    <3>0. next \in 1 .. Len(after)
      BY <1>3, <1>6
    <3>1. saved = {}
      BY <3>0, <1>4, <2>3 DEF AfterInv, r
    <3> QED
      BY <3>1, <2>1, <2>2, <2>3, <1>1, Stopped
  <2>4. CASE Can(map, r)
    <3>1. phase' = "after" /\ map' = map \cup {r} /\ slots' = SlotsOf(map')
      BY <2>1, <2>2, <2>4, <1>1
    <3>2. next - 1 \in Nat /\ (next - 1) + 1 = next /\ next' - 1 = next
      BY <1>3, <2>1
    <3>3. map' = Whole \cup FromSeq(after, next)
      BY <3>1, <3>2, <1>4, FromSeqNext DEF r
    <3>4. MapInv'
      BY <1>2, <1>3, <1>6, <2>1, <3>1, <3>2, <3>3 DEF MapInv, Attached
    <3>5. AfterInv'
      <4> SUFFICES ASSUME NEW n \in 1 .. Len(after), saved # {} \/ n < next + 1
                   PROVE  Can(Whole \cup FromSeq(after, n - 1), Region(after[n]))
        BY <1>1, <1>2, <2>1, <3>1 DEF AfterInv, Attached
      <4>1. CASE n = next
        BY <4>1, <2>4, <1>4 DEF r
      <4>2. CASE n # next
        <5>1. saved # {} \/ n < next
          BY <4>2, <1>3
        <5> QED
          BY <5>1, <1>1 DEF AfterInv
      <4> QED
        BY <4>1, <4>2
    <3>6. SegmentInv' /\ BeforeInv' /\ SettledInv'
      BY <1>1, <1>2, <3>1 DEF SegmentInv, BeforeInv, SettledInv, Attached
    <3>7. WalkInv' /\ SavedInv'
      BY <1>1, <1>2, <3>1 DEF WalkInv, SavedInv, Setups, Rest
    <3> QED
      BY <3>4, <3>5, <3>6, <3>7
  <2> QED
    BY <2>3, <2>4
<1> QED
  BY <1>3, <1>5, <1>6

\* A segment that was remembered goes where it was, and when all have, what
\* is left of the file is all of it or nothing.
LEMMA ReloadKeeps == IInv /\ RestartInv /\ Reload => RestartInv'
<1> SUFFICES ASSUME IInv, RestartInv, Reload PROVE RestartInv'
  OBVIOUS
<1> USE DEF RestartInv
<1>1. phase = "reload" /\ UNCHANGED <<next, chunks, Allocated, saved>> /\ UNCHANGED config
  BY DEF Reload
<1>2. /\ before' = before /\ after' = after /\ filesize' = filesize
      /\ Base' = Base /\ OnTop' = OnTop /\ Whole' = Whole /\ (Settled' <=> Settled)
  BY <1>1, ConfigKept DEF config
<1>3. /\ Len(Allocated) \in Nat /\ lay.seg \in 1 .. Len(Allocated) + 1 /\ lay \in LayRecords
      /\ lay.memory = Laid(lay.seg - 1) /\ lay.top = 0 /\ filesize \in Nat \ {0}
  BY <1>1, SizesNat DEF IInv, TypeInv, LayInv
<1>4. next = 1 /\ map = Base \cup FromFile(Allocated, lay.seg - 1) /\ slots = SlotsOf(map)
  BY <1>1 DEF MapInv
<1>0. BeforeInv' <=> BeforeInv
  BY <1>1, <1>2 DEF BeforeInv, Reload
<1>5. CASE lay.seg <= Len(Allocated)
  <2> DEFINE s == Allocated[lay.seg]
             r == Segment(s)
  <2>1. Reserve(r) /\ phase' = (IF ReserveFails(r) THEN "failed" ELSE phase) /\ Reloaded(s)
    BY <1>5 DEF Reload, Segment
  <2>9. s \in Segments
    BY <1>3, <1>5 DEF IInv, TypeInv
  <2>0. lay'.seg = lay.seg + 1 /\ lay'.i = lay.i
    BY <2>1, <1>3 DEF Reloaded, LayRecords
  <2> HIDE DEF r
  <2>2. /\ ReserveFails(r) <=> ~Can(map, r)
        /\ Can(map, r) => map' = map \cup {r} /\ slots' = SlotsOf(map \cup {r})
    BY <2>1, <1>4, ReserveCan
  <2>3. Can(map, r)
    <3>1. lay.seg \in 1 .. Len(Allocated)
      BY <1>3, <1>5
    <3>2. Can(Base \cup FromFile(Allocated, lay.seg - 1), Segment(Allocated[lay.seg]))
      BY <1>1, <3>1 DEF SegmentInv
    <3> QED
      BY <1>4, <3>2 DEF r
  <2>4. phase' = "reload" /\ map' = map \cup {r} /\ slots' = SlotsOf(map')
    BY <2>1, <2>2, <2>3, <1>1
  <2>5. lay.seg - 1 \in Nat /\ (lay.seg - 1) + 1 = lay.seg /\ lay'.seg - 1 = lay.seg
    BY <1>3, <2>0
  <2>6. map' = Base \cup FromFile(Allocated, lay'.seg - 1)
    BY <2>4, <2>5, <1>4, FromFileNext DEF r
  <2>7. MapInv'
    BY <1>1, <1>2, <1>4, <2>4, <2>6 DEF MapInv, Attached
  <2>8. BeforeInv' /\ SegmentInv' /\ AfterInv' /\ SettledInv' /\ WalkInv' /\ SavedInv'
    BY <1>0, <1>1, <1>2, <2>0, <2>4
    DEF BeforeInv, SegmentInv, AfterInv, SettledInv, WalkInv, SavedInv, Attached, Setups, Rest
  <2> QED
    BY <2>7, <2>8
<1>6. CASE lay.seg > Len(Allocated)
  <2>1. /\ phase' = (IF filesize > lay.memory THEN "layout" ELSE "after")
        /\ lay' = [lay EXCEPT !.memory = filesize - @]
        /\ map' = map /\ slots' = slots
    BY <1>3, <1>6 DEF Reload
  <2>2. lay.seg - 1 = Len(Allocated) /\ lay.memory = AllLaid
    BY <1>3, <1>6 DEF AllLaid
  <2>3. lay'.i = lay.i /\ lay'.top = lay.top
    BY <2>1, <1>3 DEF LayRecords
  <2>4. lay.i = 0 /\ (saved = {} => Allocated = <<>>)
    BY <1>1 DEF WalkInv
  <2>5. Allocated = <<>> => AllLaid = 0
    BY DEF AllLaid, Laid
  <2>6. saved # {} => Settled
    BY DEF SettledInv
  <2>a. AllLaid \in Nat /\ AllLaid <= filesize
    BY <1>3, <2>2 DEF IInv, SegmentsInv, LayRecords
  <2>7. CASE filesize > lay.memory
    <3>1. Allocated = <<>>
      BY <2>2, <2>4, <2>6, <2>7, <2>a, <1>3 DEF Settled
    <3>2. phase' = "layout"
      BY <2>1, <2>7
    <3>3. MapInv'
      BY <1>1, <1>2, <1>4, <2>1, <2>2, <3>2 DEF MapInv, Attached
    <3>4. Cardinality(Base) \in Nat
      <4>1. IsFiniteSet(map) /\ map = Base
        BY <3>1, <1>4, <2>2, FromFileNext DEF IInv, TypeInv, MapType
      <4> QED
        BY <4>1, FS_CardinalityType
    <3>5. WalkInv'
      BY <1>1, <1>2, <1>3, <2>3, <2>4, <3>1, <3>2, <3>4 DEF WalkInv, TopOf, Gapless
    <3>6. BeforeInv' /\ SegmentInv' /\ AfterInv' /\ SettledInv' /\ SavedInv'
      BY <1>0, <1>1, <1>2, <3>2
      DEF BeforeInv, SegmentInv, AfterInv, SettledInv, SavedInv, Attached, Setups, Rest
    <3> QED
      BY <3>3, <3>5, <3>6
  <2>8. CASE filesize <= lay.memory
    <3>1. phase' = "after" /\ AllLaid = filesize /\ Allocated # <<>>
      BY <2>1, <2>2, <2>5, <2>8, <2>a, <1>3
    <3>2. Settled /\ saved # {}
      BY <2>4, <3>1 DEF Settled
    <3>3. map = Whole /\ Len(after) \in Nat
      BY <1>4, <2>2, <3>1 DEF Whole, Rest, IInv, TypeInv
    <3>4. MapInv'
      BY <1>1, <1>2, <1>4, <2>1, <3>1, <3>3, FromSeqNext DEF MapInv, Attached
    <3>5. BeforeInv' /\ SegmentInv' /\ AfterInv' /\ SettledInv' /\ WalkInv' /\ SavedInv'
      BY <1>0, <1>1, <1>2, <3>1, <3>2
      DEF BeforeInv, SegmentInv, AfterInv, SettledInv, WalkInv, SavedInv, Attached, Setups, Rest
    <3> QED
      BY <3>4, <3>5
  <2> QED
    BY <1>3, <2>7, <2>8, <2>2, <2>a
<1> QED
  BY <1>3, <1>5, <1>6

\* A region is found under the number of regions that begin below it.
LEMMA RankedIs ==
  ASSUME NEW M, IsFiniteSet(M), \A x \in M : x.start \in Nat,
         \A x, y \in M : x.start = y.start => x = y,
         NEW r \in M
  PROVE  Ranked(M, Cardinality({s \in M : s.start < r.start})) = r
<1> DEFINE Below(x) == {s \in M : s.start < x.start}
           i == Cardinality(Below(r))
           c == Ranked(M, i)
<1>1. c \in M /\ Cardinality(Below(c)) = i
  BY DEF Ranked
<1>2. ASSUME NEW x \in M, NEW y \in M, x.start < y.start
      PROVE  Cardinality(Below(x)) # Cardinality(Below(y))
  <2>1. Below(x) \in SUBSET Below(y) /\ x \in Below(y) /\ x \notin Below(x)
    BY <1>2
  <2>2. IsFiniteSet(Below(y))
    BY FS_Subset
  <2> QED
    BY <2>1, <2>2, FS_Subset
<1> HIDE DEF c
<1>3. c.start = r.start
  BY <1>1, <1>2
<1>4. c = r
  BY <1>1, <1>3
<1> QED
  BY <1>4 DEF c, i

\* The region behind the gap that was filled is the next one again.
LEMMA SameRegionAgain ==
  ASSUME MapType, StartsDiffer, NEW i \in Nat, i < Cardinality(map),
         NEW u, u \notin map, u.start < Nth(i).start,
         map' = map \cup {u}, MapType', StartsDiffer'
  PROVE  Ranked(map', i + 1) = Nth(i) /\ i + 1 < Cardinality(map')
<1> DEFINE r == Nth(i)
           Below(M) == {s \in M : s.start < r.start}
<1>1. r \in map /\ Cardinality(Below(map)) = i
  BY NthInMap DEF Under
<1>2. /\ IsFiniteSet(map) /\ IsFiniteSet(map') /\ \A x \in map' : x.start \in Nat
      /\ \A x, y \in map' : x.start = y.start => x = y
  BY DEF MapType, RegionType, StartsDiffer
<1> HIDE DEF r
<1>3. Below(map') = Below(map) \cup {u} /\ u \notin Below(map) /\ IsFiniteSet(Below(map))
  BY <1>2, FS_Subset DEF r
<1>4. Cardinality(Below(map')) = i + 1
  BY <1>1, <1>3, FS_AddElement
<1>5. r \in map'
  BY <1>1
<1>6. Ranked(map', Cardinality(Below(map'))) = r
  BY <1>2, <1>5, RankedIs
<1>7. Cardinality(map') = Cardinality(map) + 1 /\ Cardinality(map) \in Nat
  BY <1>2, FS_AddElement, FS_CardinalityType
<1> QED
  BY <1>4, <1>6, <1>7 DEF r

\* A gap that would be negative is larger than what is left of the file.
LEMMA MinusWraps ==
  ASSUME NEW a \in Nat, NEW b \in Nat, NEW m \in Nat, a < b, b + m < AddrMod
  PROVE  Minus(a, b) \in Nat /\ Minus(a, b) > m
<1> DEFINE x == a + AddrMod - b
           n == AddrMod
<1>1. x \in Nat /\ n \in Nat /\ x < n /\ x > m
  BY SizesNat
<1>2. Minus(a, b) = x % n
  BY DEF Minus
<1> HIDE DEF x, n
<1>3. x % n = x
  BY <1>1, Wraps
<1> QED
  BY <1>1, <1>2, <1>3

\* One round of Layout: no gap, or the first one that is filled, or the rest
\* after it.
LEMMA LayoutKeeps == IInv /\ RestartInv /\ Layout => RestartInv'
<1> SUFFICES ASSUME IInv, RestartInv, Layout PROVE RestartInv'
  OBVIOUS
<1> USE DEF RestartInv
<1> DEFINE region == Nth(lay.i)
           space  == Minus(region.start, lay.top)
           gap    == IF space > lay.memory THEN lay.memory ELSE space
           s      == [start |-> lay.top, size |-> gap, file |-> lay.start]
           r      == UserRegion(lay.top, gap, lay.start)
<1>1. /\ phase = "layout" /\ lay.i < Cardinality(map) /\ lay.memory > 0
      /\ UNCHANGED <<next, chunks, saved>> /\ UNCHANGED config
  BY DEF Layout
<1>2. /\ before' = before /\ after' = after /\ filesize' = filesize
      /\ Base' = Base /\ OnTop' = OnTop
      /\ Allocated' = Allocated => Whole' = Whole /\ (Settled' <=> Settled)
  BY <1>1, ConfigKept DEF config
<1>3. /\ lay \in LayRecords /\ lay.i \in Nat /\ lay.top \in Nat /\ lay.memory \in Nat
      /\ lay.start \in Nat /\ Allocated \in Seq(Segments) /\ Len(Allocated) \in Nat
      /\ MapType /\ StartsDiffer
  BY Quantities DEF IInv, TypeInv
<1>4. next = 1 /\ map = Base \cup FromFile(Allocated, Len(Allocated)) /\ slots = SlotsOf(map)
  BY <1>1 DEF MapInv
<1>5. Allocated = <<>> => map = Base
  BY <1>4, FromFileNext
<1>6. region \in map /\ region.start \in Nat /\ region.size \in Nat \ {0}
  <2>1. region \in map
    BY <1>1, <1>3, NthInMap
  <2> HIDE DEF region
  <2> QED
    BY <2>1, <1>3 DEF MapType, RegionType
<1>7. /\ End(region) = region.start + region.size
      /\ lay.top + lay.memory < AddrMod
  <2>1. lay.memory = filesize - Used /\ BelowTop(lay.top + lay.memory)
    BY <1>1 DEF IInv, LayInv, Used
  <2>2. RegionType(region) /\ BelowTop(region.start + region.size + lay.memory)
    BY <1>3, <1>6, <2>1 DEF IInv, BoundInv, MapType
  <2> HIDE DEF region
  <2>3. lay.top + lay.memory \in Nat
    BY <1>3
  <2> QED
    BY <1>3, <2>1, <2>2, <2>3, EndIs, Lower
<1>8. lay.top = region.start \/ (IInv' /\ saved = {})
  <2> SUFFICES ASSUME lay.top # region.start, saved # {} PROVE FALSE
    BY LayoutStep
  <2>1. Allocated = <<>>
    BY <1>1 DEF WalkInv
  <2>2. Settled
    BY DEF SettledInv
  <2>3. lay.top = TopOf(Base, lay.i) /\ Cardinality(Base) \in Nat /\ lay.i \in 0 .. Cardinality(Base) - 1
    <3>1. Cardinality(map) \in Nat
      BY <1>3, FS_CardinalityType DEF MapType
    <3> QED
      BY <1>1, <1>3, <1>5, <2>1, <3>1 DEF WalkInv
  <2>4. TopOf(Base, lay.i) = Ranked(Base, lay.i).start
    BY <2>1, <2>2, <2>3 DEF Settled, Gapless
  <2>5. Ranked(Base, lay.i) = region
    BY <1>5, <2>1 DEF Ranked, Nth
  <2> QED
    BY <2>3, <2>4, <2>5
<1>9. CASE lay.top = region.start
  <2>1. LaidOut(0) /\ phase' = phase /\ map' = map /\ slots' = slots /\ Allocated' = Allocated
    BY <1>9 DEF Layout
  <2>2. lay'.i = lay.i + 1 /\ lay'.top = End(region)
    BY <2>1, <1>3 DEF LaidOut, LayRecords
  <2>3. Allocated = <<>>
    <3> SUFFICES ASSUME Allocated # <<>> PROVE FALSE
      OBVIOUS
    <3>1. lay.top = region.start + region.size
      BY <1>1, <1>3 DEF WalkInv, Ranked, Nth, EndOf
    <3> QED
      BY <1>6, <1>9, <3>1
  <2>4. MapInv'
    BY <1>1, <1>2, <1>4, <2>1 DEF MapInv, Attached
  <2>5. WalkInv'
    <3>1. Ranked(Base, lay.i) = region
      BY <1>5, <2>3 DEF Ranked, Nth
    <3>2. /\ lay.i \in 0 .. Cardinality(Base) /\ lay.i < Cardinality(Base)
          /\ lay.top = TopOf(Base, lay.i) /\ Gapless(Base, lay.i)
      BY <1>1, <1>5, <2>3 DEF WalkInv
    <3>3. Cardinality(Base) \in Nat
      BY <1>3, <1>5, <2>3, FS_CardinalityType DEF MapType
    <3> HIDE DEF region
    <3>4. lay'.i \in 0 .. Cardinality(Base) /\ lay'.i # 0 /\ lay'.i - 1 = lay.i
      BY <1>3, <2>2, <3>2, <3>3
    <3>5. lay'.top = TopOf(Base, lay'.i)
      BY <2>2, <3>1, <3>4 DEF TopOf
    <3>6. Gapless(Base, lay'.i)
      <4> SUFFICES ASSUME NEW k \in 0 .. lay.i PROVE TopOf(Base, k) = Ranked(Base, k).start
        BY <3>4 DEF Gapless
      <4>1. CASE k = lay.i
        BY <4>1, <1>9, <3>1, <3>2
      <4>2. CASE k # lay.i
        <5>1. k \in 0 .. lay.i - 1
          BY <4>2, <1>3
        <5> QED
          BY <5>1, <3>2 DEF Gapless
      <4> QED
        BY <4>1, <4>2
    <3> QED
      BY <1>1, <1>2, <2>1, <2>3, <3>4, <3>5, <3>6 DEF WalkInv
  <2>6. BeforeInv' /\ SegmentInv' /\ AfterInv' /\ SettledInv' /\ SavedInv'
    BY <1>1, <1>2, <2>1
    DEF BeforeInv, SegmentInv, AfterInv, SettledInv, SavedInv, Attached, Setups, Rest
  <2> QED
    BY <2>4, <2>5, <2>6
<1>10. CASE lay.top # region.start /\ ReserveFails(r)
  <2>1. phase' = "failed" /\ saved' = {}
    BY <1>1, <1>8, <1>10 DEF Layout
  <2> QED
    BY <2>1, Stopped
<1>11. CASE lay.top # region.start /\ ~ReserveFails(r)
  <2>1. /\ Reserve(r) /\ phase' = "layout" /\ LaidOut(gap)
        /\ Allocated' = Append(Allocated, s)
    BY <1>1, <1>11 DEF Layout, Remembered, UserRegion
  <2>2. gap \in Nat \ {0} /\ gap <= lay.memory
    BY <1>1, <1>11, LayoutGap
  <2>3. s \in Segments /\ Segment(s) = r
    BY <1>3, <2>2 DEF Segments, Segment
  <2>4. lay'.i = lay.i + 1 /\ lay'.top = End(region) /\ lay'.memory = lay.memory - gap
    BY <2>1, <1>3 DEF LaidOut, LayRecords
  <2>0. r.start = lay.top
    BY DEF UserRegion
  <2> HIDE DEF r, s
  <2>5. Can(map, r) /\ map' = map \cup {r} /\ slots' = SlotsOf(map')
    BY <1>4, <1>11, <2>1, ReserveCan
  <2>6. /\ Allocated' # <<>> /\ Len(Allocated') = Len(Allocated) + 1
        /\ \A j \in 1 .. Len(Allocated) : Allocated'[j] = Allocated[j]
        /\ Allocated'[Len(Allocated) + 1] = s
        /\ \A j \in 0 .. Len(Allocated) : FromFile(Allocated', j) = FromFile(Allocated, j)
        /\ FromFile(Allocated', Len(Allocated) + 1) = FromFile(Allocated, Len(Allocated)) \cup {r}
    BY <1>3, <2>1, <2>3, FromFileAppend
  <2>7. MapInv'
    BY <1>1, <1>2, <1>4, <2>1, <2>5, <2>6 DEF MapInv, Attached
  <2>8. SegmentInv'
    <3> SUFFICES ASSUME NEW j \in 1 .. Len(Allocated) + 1
                 PROVE  Can(Base \cup FromFile(Allocated', j - 1), Segment(Allocated'[j]))
      BY <1>2, <2>6 DEF SegmentInv
    <3>1. j - 1 \in 0 .. Len(Allocated)
      BY <1>3
    <3>2. CASE j = Len(Allocated) + 1
      <4>1. j - 1 = Len(Allocated)
        BY <1>3, <3>2
      <4> QED
        BY <1>4, <2>3, <2>5, <2>6, <3>1, <3>2, <4>1
    <3>3. CASE j # Len(Allocated) + 1
      <4>1. j \in 1 .. Len(Allocated)
        BY <1>3, <3>3
      <4> QED
        BY <1>1, <2>6, <3>1, <4>1 DEF SegmentInv
    <3> QED
      BY <3>2, <3>3
  <2>9. WalkInv'
    <3> SUFFICES ASSUME lay'.memory # 0
                 PROVE  lay'.i < Cardinality(map') /\ lay'.top = EndOf(Ranked(map', lay'.i))
      BY <1>1, <1>8, <1>11, <2>1, <2>6 DEF WalkInv
    <3>1. ~(region.start < lay.top)
      <4> SUFFICES ASSUME region.start < lay.top PROVE FALSE
        OBVIOUS
      <4>1. space \in Nat /\ space > lay.memory
        BY <1>3, <1>6, <1>7, MinusWraps
      <4> QED
        BY <1>3, <2>4, <4>1
    <3> HIDE DEF region, space, gap
    <3>2. lay.top < region.start
      BY <1>3, <1>6, <1>11, <3>1
    <3>3. r \notin map
      <4> SUFFICES ASSUME r \in map PROVE FALSE
        OBVIOUS
      <4>1. r.start \in Nat /\ r.size \in Nat \ {0} /\ RegionType(r)
        BY <1>3 DEF MapType, RegionType
      <4>2. Overlaps(r, r.start, r.size)
        <5>1. r.start < After(r.start, r.size)
          <6>1. BelowTop(r.start + r.size + lay.memory)
            BY <1>1 DEF IInv, LayInv, BoundInv, Used
          <6>2. End(r) = r.start + r.size
            BY <1>3, <4>1, <6>1, EndIs
          <6> QED
            BY <4>1, <6>2 DEF End
        <5> QED
          BY <4>1, <5>1 DEF Overlaps
      <4> QED
        BY <2>5, <4>2 DEF Can
    <3>4. IInv'
      BY <1>8, <1>11 DEF region
    <3>5. MapType' /\ StartsDiffer'
      BY <3>4 DEF IInv, TypeInv
    <3>6. Ranked(map', lay.i + 1) = region /\ lay.i + 1 < Cardinality(map')
      BY <1>1, <1>3, <2>0, <2>5, <3>2, <3>3, <3>5, SameRegionAgain DEF region
    <3> QED
      BY <1>7, <2>4, <3>6 DEF EndOf
  <2>10. BeforeInv' /\ AfterInv' /\ SettledInv' /\ SavedInv'
    BY <1>1, <1>2, <1>8, <1>11, <2>1 DEF BeforeInv, AfterInv, SettledInv, SavedInv, Attached
  <2> QED
    BY <2>7, <2>8, <2>9, <2>10
<1> QED
  BY <1>9, <1>10, <1>11

\* The end of Layout.  Something is left only when no gap was filled, and
\* goes where it went before.
LEMMA LayoutRestKeeps == IInv /\ RestartInv /\ LayoutRest => RestartInv'
<1> SUFFICES ASSUME IInv, RestartInv, LayoutRest PROVE RestartInv'
  OBVIOUS
<1> USE DEF RestartInv
<1>1. /\ phase = "layout" /\ (lay.i >= Cardinality(map) \/ lay.memory = 0)
      /\ UNCHANGED <<next, chunks, Allocated, lay, saved>> /\ UNCHANGED config
  BY DEF LayoutRest
<1>2. /\ before' = before /\ after' = after /\ filesize' = filesize
      /\ Base' = Base /\ OnTop' = OnTop /\ Whole' = Whole /\ (Settled' <=> Settled)
  BY <1>1, ConfigKept DEF config
<1>3. /\ lay.i \in Nat /\ lay.memory \in Nat /\ lay.start \in Nat /\ filesize \in Nat \ {0}
      /\ Len(after) \in Nat /\ Cardinality(map) \in Nat
      /\ lay.start = AllLaid /\ lay.memory = filesize - lay.start
  BY <1>1, Quantities, FS_CardinalityType DEF IInv, TypeInv, MapType, LayInv
<1>4. next = 1 /\ map = Base \cup FromFile(Allocated, Len(Allocated)) /\ slots = SlotsOf(map)
  BY <1>1 DEF MapInv
<1>5. Allocated = <<>> => map = Base /\ AllLaid = 0
  BY <1>4, FromFileNext DEF AllLaid, Laid
<1>6. ASSUME phase' = "after", map' = Whole, slots' = SlotsOf(map'), Settled
      PROVE  RestartInv'
  <2>1. MapInv'
    BY <1>1, <1>2, <1>3, <1>4, <1>6, FromSeqNext DEF MapInv, Attached
  <2>2. BeforeInv' /\ SegmentInv' /\ SettledInv' /\ WalkInv' /\ SavedInv'
    BY <1>1, <1>2, <1>6
    DEF BeforeInv, SegmentInv, SettledInv, WalkInv, SavedInv, Attached, Setups, Rest
  <2>3. AfterInv'
    <3>1. next' = 1 /\ \A n \in 1 .. Len(after) : ~(n < 1)
      BY <1>1, <1>3, <1>4
    <3>2. phase' \notin Attached
      BY <1>6 DEF Attached
    <3> QED
      BY <1>1, <1>2, <3>1, <3>2 DEF AfterInv
  <2> QED
    BY <2>1, <2>2, <2>3
<1>7. CASE lay.memory = 0
  <2>1. phase' = "after" /\ map' = map /\ slots' = slots
    BY <1>7 DEF LayoutRest
  <2>2. AllLaid = filesize /\ Allocated # <<>>
    BY <1>3, <1>5, <1>7
  <2>3. Settled /\ map = Whole
    BY <1>4, <2>2 DEF Settled, Whole, Rest
  <2> QED
    BY <1>4, <1>6, <2>1, <2>3
<1>8. CASE lay.memory # 0
  <2>1. Allocated = <<>>
    BY <1>1, <1>3, <1>8 DEF WalkInv
  <2>2. lay.start = 0 /\ lay.memory = filesize /\ lay.i = Cardinality(Base) /\ lay.i >= Cardinality(map)
    BY <1>1, <1>3, <1>5, <1>8, <2>1 DEF WalkInv
  <2>3. lay.top = TopOf(Base, Cardinality(Base)) /\ Gapless(Base, Cardinality(Base))
    BY <1>1, <2>1, <2>2 DEF WalkInv
  <2>4. UserRegion(lay.top, lay.memory, lay.start) = OnTop
    BY <2>2, <2>3 DEF OnTop
  <2>5. Reserve(OnTop) /\ phase' = IF ReserveFails(OnTop) THEN "failed" ELSE "after"
    BY <1>8, <2>4 DEF LayoutRest
  <2>6. /\ ReserveFails(OnTop) <=> ~Can(map, OnTop)
        /\ Can(map, OnTop) => map' = map \cup {OnTop} /\ slots' = SlotsOf(map \cup {OnTop})
    BY <1>4, <2>5, ReserveCan
  <2>7. CASE Can(map, OnTop)
    <3>1. phase' = "after" /\ map' = map \cup {OnTop} /\ slots' = SlotsOf(map')
      BY <2>5, <2>6, <2>7
    <3>2. Settled
      BY <1>5, <2>1, <2>3, <2>7 DEF Settled
    <3>3. map' = Whole
      BY <1>4, <2>1, <3>1 DEF Whole, Rest
    <3> QED
      BY <1>6, <3>1, <3>2, <3>3
  <2>8. CASE ~Can(map, OnTop)
    <3>1. saved = {}
      BY <1>5, <2>1, <2>8 DEF SettledInv, Settled
    <3> QED
      BY <1>1, <2>5, <2>6, <2>8, <3>1, Stopped
  <2> QED
    BY <2>7, <2>8
<1> QED
  BY <1>7, <1>8

\* The loader leaves all of it alone.
LEMMA BootKeeps == RestartInv /\ saved = {} /\ Boot => RestartInv'
<1> SUFFICES ASSUME RestartInv, saved = {}, Boot PROVE RestartInv'
  OBVIOUS
<1> USE DEF RestartInv
<1>1. /\ phase \in Attached /\ phase' \in Attached \cup {"failed", "lost"}
      /\ UNCHANGED <<next, map, slots, Allocated, lay, saved>> /\ UNCHANGED config
  BY DEF Boot, LoadBottom, LoadTop, ElfLoad, Attached
<1>2. CASE phase' \in {"failed", "lost"}
  BY <1>1, <1>2, Stopped
<1>3. CASE phase' \in Attached
  <2>1. /\ before' = before /\ after' = after /\ filesize' = filesize
        /\ Base' = Base /\ OnTop' = OnTop /\ Whole' = Whole /\ (Settled' <=> Settled)
    BY <1>1, ConfigKept DEF config
  <2>2. MapInv'
    BY <1>1, <1>3, <2>1 DEF MapInv, Attached
  <2>3. BeforeInv' /\ SegmentInv' /\ AfterInv' /\ SettledInv' /\ WalkInv' /\ SavedInv'
    BY <1>1, <1>3, <2>1
    DEF BeforeInv, SegmentInv, AfterInv, SettledInv, WalkInv, SavedInv, Attached
  <2> QED
    BY <2>2, <2>3
<1> QED
  BY <1>1, <1>2, <1>3

\* Where the file is once all devices are attached.
LEMMA WhereFileIs ==
  ASSUME IInv, RestartInv, phase \in Attached
  PROVE  Backing = Places(FromFile(Allocated, Len(Allocated)) \cup Rest(Allocated))
<1>1. map = Whole \cup FromSeq(after, Len(after))
  BY DEF RestartInv, MapInv
<1>2. ASSUME NEW q \in Seq(Requests), NEW x \in FromSeq(q, Len(q)) PROVE x.type # "user"
  <2>1. PICK i \in 1 .. Len(q) : x = Region(q[i])
    BY <1>2 DEF FromSeq
  <2>2. q[i] \in Requests
    BY <2>1
  <2>3. q[i].type \in Types
    BY <2>2, RequestsAssumption
  <2> QED
    BY <2>1, <2>3 DEF Region, Types
<1>3. \A x \in Base \cup FromSeq(after, Len(after)) : x.type # "user"
  BY <1>2 DEF IInv, TypeInv, Base
<1>4. \A x \in FromFile(Allocated, Len(Allocated)) \cup Rest(Allocated) : x.type = "user"
  BY DEF FromFile, Segment, Rest, OnTop, UserRegion
<1>5. UserRegions = FromFile(Allocated, Len(Allocated)) \cup Rest(Allocated)
  BY <1>1, <1>3, <1>4 DEF UserRegions, Whole
<1> QED
  BY <1>5 DEF Backing, Places

\* The new process begins with the segments of the old one.
LEMMA RestartKeeps == IInv /\ RestartInv /\ saved = {} /\ Restart => RestartInv'
<1> SUFFICES ASSUME IInv, RestartInv, saved = {}, Restart PROVE RestartInv'
  OBVIOUS
<1> USE DEF RestartInv
<1>1. /\ phase = "setup" /\ phase' = "before" /\ next' = 1 /\ map' = {} /\ slots' = {}
      /\ lay' = NoLayout /\ saved' = Backing /\ Allocated' = Allocated /\ UNCHANGED config
  BY DEF Restart
<1>2. /\ before' = before /\ after' = after /\ filesize' = filesize
      /\ Base' = Base /\ OnTop' = OnTop /\ Whole' = Whole /\ (Settled' <=> Settled)
  BY <1>1, ConfigKept DEF config
<1>3. Backing # {}
  <2>1. MapType /\ Placed(map, filesize) /\ filesize \in Nat \ {0}
    BY <1>1, Quantities DEF IInv, TypeInv, FileInv, Reached
  <2>2. 0 \in 0 .. filesize - 1
    BY <2>1
  <2> QED
    BY <2>1, <2>2, OneAddress
<1>4. MapInv'
  <2>1. Len(before) \in Nat
    BY DEF IInv, TypeInv
  <2>2. FromSeq(before, 1 - 1) = {} /\ SlotsOf({}) = {}
    BY FromSeqNext DEF SlotsOf
  <2> QED
    BY <1>1, <1>2, <2>1, <2>2 DEF MapInv, Attached
<1>5. BeforeInv' /\ SegmentInv' /\ AfterInv' /\ SettledInv'
  BY <1>1, <1>2 DEF BeforeInv, SegmentInv, AfterInv, SettledInv, Attached
<1>6. WalkInv'
  BY <1>1, <1>3 DEF WalkInv, NoLayout
<1>7. SavedInv'
  <2>1. Backing = Places(FromFile(Allocated, Len(Allocated)) \cup Rest(Allocated))
    BY <1>1, WhereFileIs DEF Attached
  <2> QED
    BY <1>1, <1>2, <2>1 DEF SavedInv, Setups, Rest
<1> QED
  BY <1>4, <1>5, <1>6, <1>7

\* The invariant of the restart is kept by every step.
LEMMA RestartNext == IInv /\ RestartInv /\ [Next]_vars => RestartInv'
<1> SUFFICES ASSUME IInv, RestartInv, [Next]_vars PROVE RestartInv'
  OBVIOUS
<1>1. CASE Setup
  BY <1>1, AttachBeforeKeeps, AttachAfterKeeps, ReloadKeeps, LayoutKeeps, LayoutRestKeeps DEF Setup
<1>2. CASE saved = {} /\ Boot
  BY <1>2, BootKeeps
<1>3. CASE saved = {} /\ Restart
  BY <1>3, RestartKeeps
<1>4. CASE UNCHANGED vars
  <2>1. UNCHANGED config /\ UNCHANGED <<phase, next, map, slots, Allocated, lay, saved>>
    BY <1>4 DEF vars, config
  <2>2. /\ before' = before /\ after' = after /\ filesize' = filesize
        /\ Base' = Base /\ OnTop' = OnTop /\ Whole' = Whole /\ (Settled' <=> Settled)
    BY <2>1, ConfigKept DEF config
  <2>3. MapInv' /\ WalkInv'
    BY <2>1, <2>2 DEF RestartInv, MapInv, WalkInv
  <2>4. BeforeInv' /\ SegmentInv' /\ AfterInv' /\ SettledInv' /\ SavedInv'
    BY <2>1, <2>2
    DEF RestartInv, BeforeInv, SegmentInv, AfterInv, SettledInv, SavedInv, Rest
  <2> QED
    BY <2>3, <2>4 DEF RestartInv
<1> QED
  BY <1>1, <1>2, <1>3, <1>4 DEF Next

\* The new process gets through its devices and finds each byte of the guest's
\* memory at the address it had, for any devices and any file.
THEOREM MemoryKept == Spec => []RestartKeepsMemory
<1>1. IInv /\ RestartInv => RestartKeepsMemory
  <2> SUFFICES ASSUME IInv, RestartInv, saved # {}
               PROVE  phase # "failed" /\ (phase = "ready" => Backing = saved)
    BY DEF RestartKeepsMemory
  <2>1. phase # "failed"
    BY DEF RestartInv, SavedInv, Setups
  <2>2. ASSUME phase = "ready" PROVE Backing = saved
    BY <2>2, WhereFileIs DEF RestartInv, SavedInv, Attached
  <2> QED
    BY <2>1, <2>2
<1> QED
  BY <1>1, RestartInit, RestartNext, Invariance, PTL DEF Spec

=============================================================================
