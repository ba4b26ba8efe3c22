------------------------- MODULE VirtioQueueProofs -------------------------
(***************************************************************************)
(* Proofs about a virtqueue, for any queue size and any width of the ring  *)
(* counters that is a multiple of it.                                      *)
(***************************************************************************)
EXTENDS VirtioQueue, FiniteSetTheorems, TLAPS

Injective(s) == \A k, l \in 1 .. Len(s) : s[k] = s[l] => k = l

\* The places where a buffer can be.
Places == {"free", "available", "in", "incoming", "held", "outgoing", "out", "returned"}
InHand  == {b \in {in_buf} : inw \in {"send", "dead"}}
OutHand == {b \in {out_buf} : outw \in {"acquire", "put"}}
Where ==
  [free |-> free, available |-> ToSet(Available), in |-> InHand, incoming |-> ToSet(incoming),
   held |-> held, outgoing |-> ToSet(outgoing), out |-> OutHand, returned |-> ToSet(Returned)]

\* W puts every buffer in one place.
Partition(W) ==
  /\ \A p, q \in Places : p # q => W[p] \cap W[q] = {}
  /\ \A i \in Indices : \E p \in Places : i \in W[p]
  /\ \A p \in Places : W[p] \subseteq Indices

\* Every buffer is in one place, and in a queue once.
PlaceInv ==
  /\ Partition(Where)
  /\ Injective(Available) /\ Injective(Returned)
  /\ Injective(incoming) /\ Injective(outgoing)

Distance(from, to) == (to + CounterMod - from) % CounterMod

\* What ProcessIncoming is about to take is there.
TakeInv ==
  /\ inw = "take_last" => Distance(Consumed, avail_idx) >= 1
  /\ inw = "take_more" => Distance(Consumed, avail_idx) >= 2

\* An empty ring asks for a notification for its next buffer.
EmptyInv == Consumed = avail_idx => ~used_flags /\ avail_event = Consumed

\* pending is set while a notification is on its way.
PendingInv == pending = 1 => handler = "sending" \/ notifications = 1 \/ inw = "acquire"

\* When nothing is on its way the ring is empty, or holds one buffer that the
\* driver is about to notify for.
Quiet == ~kick /\ handler = "idle" /\ notifications = 0 /\ inw = "recv"
QuietInv ==
  Quiet /\ Consumed # avail_idx =>
    posting /\ avail_idx = Bump(Consumed) /\ ~used_flags /\ avail_event = Consumed

\* The inductive invariant.
IInv ==
  /\ TypeOK /\ QueueAddress /\ PlaceInv /\ TakeInv
  /\ EmptyInv /\ PendingInv /\ QuietInv

-----------------------------------------------------------------------------
(* Arithmetic of the ring.                                                 *)

\* The remainder is determined.
LEMMA ModUnique ==
  ASSUME NEW m \in Nat \ {0}, NEW q \in Int, NEW r \in 0 .. m - 1
  PROVE  (q * m + r) % m = r
<1> DEFINE x == q * m + r
<1>1. x \in Int /\ x = m * (x \div m) + (x % m) /\ x % m \in 0 .. m - 1 /\ x \div m \in Int
  OBVIOUS
<1>2. (q - (x \div m)) * m = (x % m) - r
  BY <1>1
<1> HIDE DEF x
<1> DEFINE d == q - (x \div m)
<1>3. d \in Int /\ d * m = (x % m) - r
  BY <1>1, <1>2
<1> HIDE DEF d
<1>4. ~(d >= 1)
  <2> SUFFICES ASSUME d >= 1 PROVE FALSE
    OBVIOUS
  <2>1. d * m >= m
    BY <1>3
  <2> QED BY <2>1, <1>1, <1>3
<1>5. ~(d <= -1)
  <2> SUFFICES ASSUME d <= -1 PROVE FALSE
    OBVIOUS
  <2>1. d * m <= -m
    BY <1>3
  <2> QED BY <2>1, <1>1, <1>3
<1>6. d = 0
  BY <1>3, <1>4, <1>5
<1> QED BY <1>6, <1>3, <1>1 DEF x

\* The sizes, as the arithmetic below needs them.
LEMMA CountersNat ==
  /\ QueueSize \in Nat \ {0} /\ CounterMod \in Nat \ {0} /\ QueueSize < CounterMod
  /\ CounterMod % QueueSize = 0
BY QueueSizeType, CounterModType

\* A sum of two counters wraps once at most.
LEMMA CounterWraps ==
  ASSUME NEW x \in 0 .. 2 * CounterMod - 1
  PROVE  x % CounterMod = IF x < CounterMod THEN x ELSE x - CounterMod
<1> DEFINE m == CounterMod
<1>0. m \in Nat \ {0}
  BY CountersNat
<1> HIDE DEF m
<1>1. CASE x < m
  <2>1. (0 * m + x) % m = x
    BY <1>0, <1>1, ModUnique
  <2> QED BY <2>1, <1>0, <1>1 DEF m
<1>2. CASE x >= m
  <2>0. 1 \in Int /\ x - m \in 0 .. m - 1
    BY <1>0, <1>2 DEF m
  <2>1. (1 * m + (x - m)) % m = x - m
    BY <1>0, <2>0, ModUnique
  <2> QED BY <2>1, <1>0, <1>2 DEF m
<1> QED BY <1>0, <1>1, <1>2 DEF m

\* Once round the counters is some number of times round the ring.
LEMMA RoundTheRing ==
  ASSUME NEW x \in Nat
  PROVE  (x + CounterMod) % QueueSize = x % QueueSize
<1> DEFINE m == QueueSize
           c == CounterMod
<1>0. m \in Nat \ {0} /\ c \in Nat /\ c % m = 0
  BY CountersNat
<1> HIDE DEF m, c
<1>1. x = m * (x \div m) + (x % m) /\ x % m \in 0 .. m - 1 /\ x \div m \in Int
  BY <1>0
<1>2. c = m * (c \div m) + (c % m) /\ c \div m \in Int
  BY <1>0
<1>3. x + c = ((x \div m) + (c \div m)) * m + (x % m)
  BY <1>0, <1>1, <1>2
<1>4. (x \div m) + (c \div m) \in Int
  BY <1>1, <1>2
<1> DEFINE q == (x \div m) + (c \div m)
           r == x % m
<1>5. q \in Int /\ r \in 0 .. m - 1 /\ x + c = q * m + r
  BY <1>1, <1>3, <1>4
<1> HIDE DEF q, r
<1>6. (q * m + r) % m = r
  BY <1>0, <1>5, ModUnique
<1> QED BY <1>5, <1>6 DEF r, m, c

\* Numbers less than the size of the ring apart have different slots.
LEMMA ModApart ==
  ASSUME NEW m \in Nat \ {0}, NEW x \in Nat, NEW y \in Nat, x < y, y < x + m
  PROVE  x % m # y % m
<1> SUFFICES ASSUME x % m = y % m PROVE FALSE
  OBVIOUS
<1>1. x = m * (x \div m) + (x % m) /\ x % m \in 0 .. m - 1 /\ x \div m \in Int
  OBVIOUS
<1>2. y = m * (y \div m) + (y % m) /\ y % m \in 0 .. m - 1 /\ y \div m \in Int
  OBVIOUS
<1> DEFINE d == (y \div m) - (x \div m)
<1>3. d \in Int /\ d * m = y - x
  BY <1>1, <1>2
<1> HIDE DEF d
<1>4. d > 0
  <2> SUFFICES ASSUME d <= 0 PROVE FALSE
    BY <1>3
  <2>1. d * m <= 0
    BY <1>3
  <2> QED BY <2>1, <1>3
<1>5. d * m >= m
  BY <1>3, <1>4
<1> QED BY <1>3, <1>5

\* The next counter value.
LEMMA BumpType ==
  ASSUME NEW n \in Counters
  PROVE  /\ Bump(n) \in Counters
         /\ Bump(n) = IF n + 1 = CounterMod THEN 0 ELSE n + 1
<1>1. n + 1 \in 0 .. 2 * CounterMod - 1 /\ n \in Nat /\ n < CounterMod
  BY CountersNat DEF Counters
<1>2. (n + 1) % CounterMod = IF n + 1 < CounterMod THEN n + 1 ELSE n + 1 - CounterMod
  BY <1>1, CountersNat, CounterWraps
<1> QED
  BY <1>1, <1>2, CountersNat DEF Bump, Counters

\* The distance of two counters without the modulus.
LEMMA DistanceIs ==
  ASSUME NEW from \in Counters, NEW to \in Counters
  PROVE  /\ Distance(from, to) \in Counters
         /\ Distance(from, to) = IF from <= to THEN to - from ELSE to + CounterMod - from
<1> DEFINE x == to + CounterMod - from
<1>1. x \in 0 .. 2 * CounterMod - 1
  BY CountersNat DEF Counters
<1> HIDE DEF x
<1>2. x % CounterMod = IF x < CounterMod THEN x ELSE x - CounterMod
  BY <1>1, CounterWraps
<1>3. Distance(from, to) = x % CounterMod
  BY DEF Distance, x
<1> QED
  BY <1>2, <1>3, CountersNat DEF Counters, x

\* How the distance changes when one of the ends moves.
LEMMA DistanceBump ==
  ASSUME NEW from \in Counters, NEW to \in Counters
  PROVE  /\ Distance(from, to) = 0 <=> from = to
         /\ Distance(from, to) < QueueSize => Distance(from, Bump(to)) = Distance(from, to) + 1
         /\ from # to => Distance(Bump(from), to) = Distance(from, to) - 1
<1>1. Bump(from) \in Counters /\ Bump(to) \in Counters
  BY BumpType
<1>2. from \in Nat /\ to \in Nat /\ from < CounterMod /\ to < CounterMod
  BY CountersNat DEF Counters
<1>3. Bump(to) = IF to + 1 = CounterMod THEN 0 ELSE to + 1
  BY BumpType
<1>4. Bump(from) = IF from + 1 = CounterMod THEN 0 ELSE from + 1
  BY BumpType
<1>5. Distance(from, to) = IF from <= to THEN to - from ELSE to + CounterMod - from
  BY DistanceIs
<1>6. Distance(from, Bump(to)) = IF from <= Bump(to) THEN Bump(to) - from ELSE Bump(to) + CounterMod - from
  BY <1>1, DistanceIs
<1>7. Distance(Bump(from), to) = IF Bump(from) <= to THEN to - Bump(from) ELSE to + CounterMod - Bump(from)
  BY <1>1, DistanceIs
<1> QED
  BY <1>2, <1>3, <1>4, <1>5, <1>6, <1>7, CountersNat

\* The slot of the end of a stretch, counted from its start.
LEMMA SlotAtEnd ==
  ASSUME NEW from \in Counters, NEW to \in Counters
  PROVE  (from + Distance(from, to)) % QueueSize = to % QueueSize
<1>1. from \in Nat /\ to \in Nat
  BY CountersNat DEF Counters
<1>2. CASE from <= to
  <2>1. from + Distance(from, to) = to
    BY <1>1, <1>2, DistanceIs
  <2> QED BY <2>1
<1>3. CASE ~(from <= to)
  <2>1. from + Distance(from, to) = to + CounterMod
    BY <1>1, <1>3, DistanceIs, CountersNat
  <2> QED BY <2>1, <1>1, RoundTheRing
<1> QED BY <1>2, <1>3

\* The slots after the next counter value.
LEMMA SlotBump ==
  ASSUME NEW from \in Counters, NEW k \in Nat
  PROVE  (Bump(from) + k) % QueueSize = (from + 1 + k) % QueueSize
<1>1. from \in Nat
  BY CountersNat DEF Counters
<1>2. CASE from + 1 = CounterMod
  <2>1. Bump(from) + k = k /\ from + 1 + k = k + CounterMod
    BY <1>1, <1>2, BumpType, CountersNat
  <2> QED BY <2>1, RoundTheRing
<1>3. CASE from + 1 # CounterMod
  BY <1>3, BumpType
<1> QED BY <1>2, <1>3

\* A slot is in the ring.
LEMMA SlotType ==
  ASSUME NEW n \in Nat PROVE n % QueueSize \in Indices
BY CountersNat DEF Indices

\* What a stretch of the ring is as a sequence.
LEMMA EntriesSeq ==
  ASSUME NEW ring \in [Indices -> Indices], NEW from \in Counters, NEW to \in Counters
  PROVE  /\ Entries(ring, from, to) \in Seq(Indices)
         /\ Len(Entries(ring, from, to)) = Distance(from, to)
         /\ DOMAIN Entries(ring, from, to) = 1 .. Distance(from, to)
         /\ \A k \in 1 .. Distance(from, to) :
              Entries(ring, from, to)[k] = ring[(from + k - 1) % QueueSize]
<1> DEFINE n == Distance(from, to)
           s == [k \in 1 .. n |-> ring[(from + k - 1) % QueueSize]]
<1>1. n \in Nat /\ from \in Nat
  BY DistanceIs, CountersNat DEF Counters
<1>2. Entries(ring, from, to) = s
  BY DEF Entries, Distance
<1> HIDE DEF n
<1>3. \A k \in 1 .. n : ring[(from + k - 1) % QueueSize] \in Indices
  <2> TAKE k \in 1 .. n
  <2>1. from + k - 1 \in Nat
    BY <1>1
  <2> QED BY <2>1, SlotType
<1>4. s \in Seq(Indices) /\ Len(s) = n /\ DOMAIN s = 1 .. n
  BY <1>1, <1>3
<1> QED BY <1>2, <1>4 DEF n

\* A sequence without repetitions has as many elements as positions.
LEMMA InjectiveCard ==
  ASSUME NEW S, NEW s \in Seq(S), Injective(s)
  PROVE  IsFiniteSet(ToSet(s)) /\ Cardinality(ToSet(s)) = Len(s)
<1>1. Len(s) \in Nat /\ DOMAIN s = 1 .. Len(s)
  OBVIOUS
<1>2. s \in Bijection(1 .. Len(s), ToSet(s))
  <2>1. s \in [1 .. Len(s) -> ToSet(s)]
    BY <1>1 DEF ToSet
  <2> QED
    BY <1>1, <2>1 DEF Bijection, Injection, Surjection, ToSet, Injective, IsInjective
<1>3. ExistsBijection(1 .. Len(s), ToSet(s))
  BY <1>2 DEF ExistsBijection
<1> QED
  BY <1>1, <1>3, FS_CountingElements, FS_NatBijection

\* While a buffer is elsewhere no queue holds QueueSize of them.
LEMMA RoomForOne ==
  ASSUME NEW s \in Seq(Indices), Injective(s), NEW i \in Indices \ ToSet(s)
  PROVE  Len(s) < QueueSize
<1>1. IsFiniteSet(Indices) /\ Cardinality(Indices) = QueueSize
  BY FS_Interval, CountersNat DEF Indices
<1>2. ToSet(s) \subseteq Indices
  BY DEF ToSet
<1>3. IsFiniteSet(ToSet(s)) /\ Cardinality(ToSet(s)) = Len(s)
  BY InjectiveCard
<1>4. Cardinality(ToSet(s)) <= QueueSize /\ Cardinality(ToSet(s)) # QueueSize
  BY <1>1, <1>2, FS_Subset
<1>5. Len(s) \in Nat
  OBVIOUS
<1> QED
  BY <1>3, <1>4, <1>5, CountersNat

\* The buffers in a queue.
LEMMA ToSetIs ==
  ASSUME NEW s \in Seq(Indices)
  PROVE  ToSet(s) = {s[k] : k \in 1 .. Len(s)} /\ ToSet(s) \subseteq Indices
BY DEF ToSet

\* One more buffer at the end of a queue.
LEMMA Extended ==
  ASSUME NEW s \in Seq(Indices), NEW t \in Seq(Indices), Injective(s), NEW x \in Indices \ ToSet(s),
         Len(t) = Len(s) + 1, t[Len(s) + 1] = x, \A k \in 1 .. Len(s) : t[k] = s[k]
  PROVE  Injective(t) /\ ToSet(t) = ToSet(s) \cup {x}
<1>1. Len(s) \in Nat
  OBVIOUS
<1>2. \A k \in 1 .. Len(s) : s[k] # x
  BY ToSetIs
<1>3. Injective(t)
  BY <1>1, <1>2 DEF Injective
<1>4. 1 .. Len(t) = (1 .. Len(s)) \cup {Len(s) + 1}
  BY <1>1
<1> QED
  BY <1>3, <1>4, ToSetIs

\* The first buffer of a queue is gone.
LEMMA Shortened ==
  ASSUME NEW s \in Seq(Indices), NEW t \in Seq(Indices), Injective(s), Len(s) >= 1,
         Len(t) = Len(s) - 1, \A k \in 1 .. Len(t) : t[k] = s[k + 1]
  PROVE  Injective(t) /\ s[1] \in ToSet(s) /\ ToSet(t) = ToSet(s) \ {s[1]}
<1>1. Len(s) \in Nat /\ Len(t) \in Nat
  OBVIOUS
<1>2. \A k \in 1 .. Len(t) : k + 1 \in 1 .. Len(s) /\ k + 1 # 1
  BY <1>1
<1>3. Injective(t)
  <2> SUFFICES ASSUME NEW k \in 1 .. Len(t), NEW l \in 1 .. Len(t), t[k] = t[l] PROVE k = l
    BY DEF Injective
  <2>1. s[k + 1] = s[l + 1]
    OBVIOUS
  <2>2. k + 1 = l + 1
    BY <2>1, <1>2 DEF Injective
  <2> QED BY <2>2
<1>4. \A k \in 2 .. Len(s) : k - 1 \in 1 .. Len(t) /\ s[k] = t[k - 1]
  <2> TAKE k \in 2 .. Len(s)
  <2>1. k - 1 \in 1 .. Len(t) /\ (k - 1) + 1 = k
    BY <1>1
  <2> QED BY <2>1
<1>5. s[1] \in ToSet(s) /\ \A k \in 2 .. Len(s) : s[k] # s[1]
  BY <1>1, ToSetIs DEF Injective
<1>6. ASSUME NEW y \in ToSet(t) PROVE y \in ToSet(s) \ {s[1]}
  <2>1. PICK k \in 1 .. Len(t) : y = t[k]
    BY ToSetIs
  <2>2. y = s[k + 1] /\ k + 1 \in 2 .. Len(s) /\ k + 1 \in 1 .. Len(s)
    BY <2>1, <1>1
  <2> QED BY <2>2, <1>5, ToSetIs
<1>7. ASSUME NEW y \in ToSet(s) \ {s[1]} PROVE y \in ToSet(t)
  <2>1. PICK k \in 1 .. Len(s) : y = s[k]
    BY ToSetIs
  <2>2. k \in 2 .. Len(s)
    BY <2>1, <1>1
  <2> QED BY <2>1, <2>2, <1>4, ToSetIs
<1> QED
  BY <1>3, <1>5, <1>6, <1>7

\* Receiving from a channel.
LEMMA Received ==
  ASSUME NEW s \in Seq(Indices), s # <<>>, Len(s) <= QueueSize
  PROVE  /\ Head(s) \in Indices /\ Tail(s) \in Seq(Indices) /\ Len(Tail(s)) <= QueueSize
         /\ Injective(s) => /\ Injective(Tail(s)) /\ Head(s) \in ToSet(s)
                            /\ ToSet(Tail(s)) = ToSet(s) \ {Head(s)}
<1>1. Len(s) \in Nat /\ Len(s) >= 1 /\ Head(s) = s[1] /\ s[1] \in Indices
  OBVIOUS
<1>2. Tail(s) \in Seq(Indices) /\ Len(Tail(s)) = Len(s) - 1
  OBVIOUS
<1>3. \A k \in 1 .. Len(Tail(s)) : Tail(s)[k] = s[k + 1]
  BY <1>1, <1>2
<1> QED
  <2>1. Len(Tail(s)) <= QueueSize
    BY <1>1, <1>2, CountersNat
  <2>2. ASSUME Injective(s)
        PROVE  /\ Injective(Tail(s)) /\ s[1] \in ToSet(s)
               /\ ToSet(Tail(s)) = ToSet(s) \ {s[1]}
    BY <1>1, <1>2, <1>3, <2>2, Shortened
  <2> QED
    BY <1>1, <1>2, <2>1, <2>2

\* Sending on a channel.
LEMMA Sent ==
  ASSUME NEW s \in Seq(Indices), Injective(s), NEW x \in Indices \ ToSet(s)
  PROVE  /\ Append(s, x) \in Seq(Indices)
         /\ Injective(Append(s, x)) /\ ToSet(Append(s, x)) = ToSet(s) \cup {x}
<1> DEFINE t == Append(s, x)
<1>1. /\ t \in Seq(Indices) /\ Len(t) = Len(s) + 1
      /\ t[Len(s) + 1] = x /\ \A k \in 1 .. Len(s) : t[k] = s[k]
  OBVIOUS
<1> HIDE DEF t
<1>2. Injective(t) /\ ToSet(t) = ToSet(s) \cup {x}
  BY <1>1, Extended
<1> QED
  BY <1>1, <1>2 DEF t

\* Writing one entry and advancing the index adds a buffer to the stretch.
LEMMA Posted ==
  ASSUME NEW ring \in [Indices -> Indices], NEW from \in Counters, NEW to \in Counters,
         Injective(Entries(ring, from, to)), NEW i \in Indices \ ToSet(Entries(ring, from, to)),
         NEW new \in [Indices -> Indices],
         \A j \in Indices : new[j] = IF j = to % QueueSize THEN i ELSE ring[j]
  PROVE  /\ Distance(from, to) < QueueSize
         /\ Injective(Entries(new, from, Bump(to)))
         /\ ToSet(Entries(new, from, Bump(to))) = ToSet(Entries(ring, from, to)) \cup {i}
<1> DEFINE s == Entries(ring, from, to)
           t == Entries(new, from, Bump(to))
           n == Distance(from, to)
<1>0. from \in Nat /\ to \in Nat /\ n \in Nat
  BY CountersNat, DistanceIs DEF Counters
<1>1. s \in Seq(Indices) /\ Len(s) = n /\ \A k \in 1 .. n : s[k] = ring[(from + k - 1) % QueueSize]
  BY EntriesSeq
<1>2. n < QueueSize
  BY <1>1, RoomForOne
<1>3. Bump(to) \in Counters
  BY BumpType
<1>4. Distance(from, Bump(to)) = n + 1
  BY <1>2, DistanceBump
<1>5. t \in Seq(Indices) /\ Len(t) = n + 1 /\ \A k \in 1 .. n + 1 : t[k] = new[(from + k - 1) % QueueSize]
  <2> DEFINE m == Distance(from, Bump(to))
  <2>1. t \in Seq(Indices) /\ Len(t) = m /\ \A k \in 1 .. m : t[k] = new[(from + k - 1) % QueueSize]
    BY <1>3, EntriesSeq
  <2>2. m = n + 1
    BY <1>4
  <2> HIDE DEF t, m, n
  <2> QED
    BY <2>1, <2>2
<1>6. to % QueueSize = (from + n) % QueueSize /\ to % QueueSize \in Indices
  BY <1>0, SlotAtEnd, SlotType
<1>7. t[n + 1] = i
  <2>1. from + (n + 1) - 1 = from + n /\ n + 1 \in 1 .. n + 1
    BY <1>0
  <2>2. t[n + 1] = new[(from + n) % QueueSize]
    BY <2>1, <1>5
  <2> QED
    BY <2>2, <1>6
<1>8. ASSUME NEW k \in 1 .. n PROVE t[k] = s[k]
  <2> DEFINE x == from + k - 1
             y == from + n
  <2>1. x \in Nat /\ y \in Nat /\ x < y /\ y < x + QueueSize
    BY <1>0, <1>2, CountersNat
  <2>2. x % QueueSize # y % QueueSize /\ x % QueueSize \in Indices
    <3> HIDE DEF x, y
    <3> QED
      BY <2>1, ModApart, SlotType, CountersNat
  <2>3. new[x % QueueSize] = ring[x % QueueSize]
    BY <2>2, <1>6
  <2>4. k \in 1 .. n + 1
    BY <1>0
  <2> QED
    BY <2>3, <2>4, <1>1, <1>5
<1> HIDE DEF s, t, n
<1>9. Injective(t) /\ ToSet(t) = ToSet(s) \cup {i}
  <2>1. Injective(s) /\ i \in Indices \ ToSet(s)
    BY DEF s
  <2> QED
    BY <1>1, <1>5, <1>7, <1>8, <2>1, Extended
<1> QED
  BY <1>2, <1>3, <1>9 DEF s, t, n

\* Advancing the start takes the first entry off the stretch.
LEMMA TakenFrom ==
  ASSUME NEW ring \in [Indices -> Indices], NEW from \in Counters, NEW to \in Counters, from # to,
         Injective(Entries(ring, from, to))
  PROVE  /\ Injective(Entries(ring, Bump(from), to))
         /\ ring[from % QueueSize] \in ToSet(Entries(ring, from, to))
         /\ ToSet(Entries(ring, Bump(from), to))
              = ToSet(Entries(ring, from, to)) \ {ring[from % QueueSize]}
<1> DEFINE s == Entries(ring, from, to)
           t == Entries(ring, Bump(from), to)
           n == Distance(from, to)
<1>0. from \in Nat /\ to \in Nat /\ n \in Nat /\ n # 0 /\ Bump(from) \in Counters /\ Bump(from) \in Nat
  BY CountersNat, DistanceIs, DistanceBump, BumpType DEF Counters
<1>1. s \in Seq(Indices) /\ Len(s) = n /\ \A k \in 1 .. n : s[k] = ring[(from + k - 1) % QueueSize]
  BY EntriesSeq
<1>2. Distance(Bump(from), to) = n - 1
  BY DistanceBump
<1>3. t \in Seq(Indices) /\ Len(t) = n - 1
      /\ \A k \in 1 .. n - 1 : t[k] = ring[(Bump(from) + k - 1) % QueueSize]
  <2> DEFINE m == Distance(Bump(from), to)
  <2>1. t \in Seq(Indices) /\ Len(t) = m
        /\ \A k \in 1 .. m : t[k] = ring[(Bump(from) + k - 1) % QueueSize]
    BY <1>0, EntriesSeq
  <2>2. m = n - 1
    BY <1>2
  <2> HIDE DEF t, m, n
  <2> QED
    BY <2>1, <2>2
<1>4. s[1] = ring[from % QueueSize]
  <2>1. from + 1 - 1 = from /\ 1 \in 1 .. n
    BY <1>0
  <2> QED
    BY <2>1, <1>1
<1>5. ASSUME NEW k \in 1 .. n - 1 PROVE t[k] = s[k + 1]
  <2>1. k - 1 \in Nat /\ k + 1 \in 1 .. n
    BY <1>0
  <2>2. (Bump(from) + (k - 1)) % QueueSize = (from + 1 + (k - 1)) % QueueSize
    BY <2>1, SlotBump
  <2>3. Bump(from) + (k - 1) = Bump(from) + k - 1 /\ from + 1 + (k - 1) = from + (k + 1) - 1
    BY <1>0
  <2> QED
    BY <2>1, <2>2, <2>3, <1>1, <1>3
<1> HIDE DEF s, t, n
<1>6. Injective(t) /\ s[1] \in ToSet(s) /\ ToSet(t) = ToSet(s) \ {s[1]}
  <2>1. Injective(s) /\ Len(s) >= 1
    BY <1>0, <1>1 DEF s
  <2> QED
    BY <1>1, <1>3, <1>5, <2>1, Shortened
<1> QED
  BY <1>4, <1>6 DEF s, t

-----------------------------------------------------------------------------
(* Places.                                                                 *)

\* A buffer that moves from one place to another leaves the buffers parted.
LEMMA Moved ==
  ASSUME NEW W, NEW V, Partition(W), NEW p \in Places, NEW q \in Places, p # q, NEW x \in W[p],
         \A l \in Places : V[l] = IF l = p THEN W[p] \ {x} ELSE IF l = q THEN W[q] \cup {x} ELSE W[l]
  PROVE  Partition(V)
<1>1. ASSUME NEW l \in Places, NEW m \in Places, l # m PROVE V[l] \cap V[m] = {}
  BY <1>1 DEF Partition
<1>2. ASSUME NEW i \in Indices PROVE \E l \in Places : i \in V[l]
  <2>1. PICK l \in Places : i \in W[l]
    BY DEF Partition
  <2>2. CASE i = x
    BY <2>2
  <2>3. CASE i # x
    BY <2>1, <2>3
  <2> QED
    BY <2>2, <2>3
<1>3. ASSUME NEW l \in Places PROVE V[l] \subseteq Indices
  BY DEF Partition
<1> QED
  BY <1>1, <1>2, <1>3 DEF Partition

\* The fields of Where.
LEMMA WhereIs ==
  /\ Where["free"] = free /\ Where["available"] = ToSet(Available)
  /\ Where["in"] = InHand /\ Where["incoming"] = ToSet(incoming)
  /\ Where["held"] = held /\ Where["outgoing"] = ToSet(outgoing)
  /\ Where["out"] = OutHand /\ Where["returned"] = ToSet(Returned)
BY DEF Where


-----------------------------------------------------------------------------
(* The steps.                                                              *)

\* The types.
LEMMA TypeStep == TypeOK /\ PlaceInv /\ [Next]_vars => TypeOK'
<1> SUFFICES ASSUME TypeOK, PlaceInv, [Next]_vars PROVE TypeOK'
  OBVIOUS
<1> USE DEF driverVars, ringVars, queueVars, goVars
<1>b. ASSUME NEW n \in Counters PROVE Bump(n) \in Counters /\ n % QueueSize \in Indices
  <2>1. n \in Nat
    BY CountersNat DEF Counters
  <2> QED
    BY <2>1, BumpType, SlotType
<1>c. {last_used, avail_idx, used_idx, avail_event, Consumed} \subseteq Counters
  BY DEF TypeOK
<1>1. ASSUME NEW i \in Indices, DriverPosts(i) PROVE TypeOK'
  BY <1>1, <1>b, <1>c DEF DriverPosts, TypeOK
<1>2. CASE DriverNotifies
  BY <1>2 DEF DriverNotifies, TypeOK
<1>3. CASE DriverReaps
  BY <1>3, <1>b, <1>c DEF DriverReaps, TypeOK
<1>4. CASE NotifyWrite \/ NotifySend
  BY <1>4 DEF NotifyWrite, NotifySend, TypeOK
<1>5. CASE InReceive \/ InAcquire \/ InLook
  BY <1>5 DEF InReceive, InAcquire, InLook, TypeOK, InStates
<1>6. CASE InTake
  <2>1. Entry \in Indices /\ NextConsumed \in Counters /\ NotifyAt \in Counters
    BY <1>b, <1>c DEF Entry, NextConsumed, NotifyAt, TypeOK
  <2> QED
    BY <1>6, <2>1 DEF InTake, TypeOK, InStates
<1>7. CASE InSend
  <2>1. in_buf \in Indices
    BY <1>7, WhereIs DEF InSend, PlaceInv, Partition, Places, InHand
  <2> QED
    BY <1>7, <2>1, CountersNat DEF InSend, TypeOK, InStates
<1>8. CASE DeviceTakes
  BY <1>8, Received DEF DeviceTakes, TypeOK
<1>9. ASSUME NEW i \in Indices, DeviceReturns(i) PROVE TypeOK'
  BY <1>9, CountersNat DEF DeviceReturns, TypeOK
<1>10. CASE OutReceive
  BY <1>10, Received DEF OutReceive, TypeOK, OutStates
<1>11. CASE OutAcquire \/ OutDelete
  BY <1>11 DEF OutAcquire, OutDelete, TypeOK, OutStates
<1>12. CASE OutPut
  <2>1. out_buf \in Indices
    BY <1>12, WhereIs DEF OutPut, PlaceInv, Partition, Places, OutHand
  <2> QED
    BY <1>12, <2>1, <1>b, <1>c DEF OutPut, TypeOK, OutStates
<1>13. CASE Pause \/ Unpause
  BY <1>13 DEF Pause, Unpause, TypeOK
<1>14. CASE UNCHANGED vars
  BY <1>14 DEF vars, TypeOK
<1> QED
  BY <1>1, <1>2, <1>3, <1>4, <1>5, <1>6, <1>7, <1>8, <1>9, <1>10, <1>11, <1>12, <1>13, <1>14
     DEF Next, Driver, Handle, ProcessIncoming, Backend, ProcessOutgoing


\* Each step leaves the buffers where they are or moves one of them.
LEMMA PlaceStep == IInv /\ [Next]_vars => PlaceInv'
<1> SUFFICES ASSUME IInv, [Next]_vars PROVE PlaceInv'
  OBVIOUS
<1> USE DEF driverVars, ringVars, queueVars, goVars
<1>t. TypeOK /\ PlaceInv /\ TakeInv
  BY DEF IInv
<1>p. /\ Partition(Where)
      /\ Injective(Available) /\ Injective(Returned) /\ Injective(incoming) /\ Injective(outgoing)
  BY <1>t DEF PlaceInv
<1>c. /\ last_used \in Counters /\ avail_idx \in Counters /\ used_idx \in Counters /\ Consumed \in Counters
      /\ avail_ring \in [Indices -> Indices] /\ used_ring \in [Indices -> Indices]
      /\ incoming \in Seq(Indices) /\ Len(incoming) <= QueueSize
      /\ outgoing \in Seq(Indices) /\ Len(outgoing) <= QueueSize
  BY <1>t DEF TypeOK
<1>d. ASSUME NEW n \in Counters PROVE n % QueueSize \in Indices
  <2>1. n \in Nat
    BY CountersNat DEF Counters
  <2> QED
    BY <2>1, SlotType
\* Nothing is moved.
<1>a. ASSUME UNCHANGED <<free, held, incoming, outgoing, InHand, OutHand, Available, Returned>>
      PROVE  PlaceInv'
  <2>1. Where' = Where
    BY <1>a DEF Where
  <2> QED
    BY <1>a, <2>1, <1>p DEF PlaceInv
<1>w. /\ Where'["free"] = free' /\ Where'["available"] = ToSet(Available')
      /\ Where'["in"] = InHand' /\ Where'["incoming"] = ToSet(incoming')
      /\ Where'["held"] = held' /\ Where'["outgoing"] = ToSet(outgoing')
      /\ Where'["out"] = OutHand' /\ Where'["returned"] = ToSet(Returned')
  BY DEF Where
<1>m. ASSUME NEW p \in Places, NEW q \in Places, p # q, NEW x \in Where[p],
             \A l \in Places : Where'[l] = IF l = p THEN Where[p] \ {x}
                                           ELSE IF l = q THEN Where[q] \cup {x} ELSE Where[l],
             Injective(Available'), Injective(Returned'), Injective(incoming'), Injective(outgoing')
      PROVE  PlaceInv'
  <2>1. Partition(Where')
    BY <1>m, <1>p, Moved
  <2> QED
    BY <1>m, <2>1 DEF PlaceInv, Partition, Injective
<1>1. ASSUME NEW i \in Indices, DriverPosts(i) PROVE PlaceInv'
  <2>1. i \in Where["free"] /\ i \notin ToSet(Available)
    BY <1>1, WhereIs, <1>p DEF DriverPosts, Partition, Places
  <2>2. avail_ring' \in [Indices -> Indices]
        /\ \A j \in Indices : avail_ring'[j] = IF j = avail_idx % QueueSize THEN i ELSE avail_ring[j]
    BY <1>1, <1>c, <1>d DEF DriverPosts
  <2>3. /\ Available' = Entries(avail_ring', Consumed, Bump(avail_idx))
        /\ UNCHANGED <<held, incoming, outgoing, InHand, OutHand, Returned>>
    BY <1>1 DEF DriverPosts, Available, InHand, OutHand, Returned
  <2>4. Injective(Available') /\ ToSet(Available') = ToSet(Available) \cup {i}
    BY <2>1, <2>2, <2>3, <1>c, <1>p, Posted DEF Available
  <2>5. free' = free \ {i}
    BY <1>1 DEF DriverPosts
  <2>6. \A l \in Places : Where'[l] = IF l = "free" THEN Where["free"] \ {i}
                                      ELSE IF l = "available" THEN Where["available"] \cup {i} ELSE Where[l]
    BY <2>3, <2>4, <2>5, <1>w, WhereIs DEF Places
  <2>7. "free" \in Places /\ "available" \in Places /\ "free" # "available"
    BY DEF Places
  <2>i. Injective(Available') /\ Injective(Returned') /\ Injective(incoming') /\ Injective(outgoing')
    BY <2>3, <2>4, <1>p
  <2> QED
    BY <2>1, <2>6, <2>7, <2>i, <1>m
<1>2. CASE DriverNotifies \/ NotifyWrite \/ NotifySend
  BY <1>2, <1>a DEF DriverNotifies, NotifyWrite, NotifySend, InHand, OutHand, Available, Returned
<1>3. CASE DriverReaps
  <2> DEFINE x == used_ring[last_used % QueueSize]
  <2>1. /\ Returned' = Entries(used_ring, Bump(last_used), used_idx) /\ last_used # used_idx
        /\ UNCHANGED <<held, incoming, outgoing, InHand, OutHand, Available>>
        /\ free' = free \cup {x}
    BY <1>3 DEF DriverReaps, Returned, InHand, OutHand, Available
  <2>2. Injective(Returned') /\ x \in ToSet(Returned) /\ ToSet(Returned') = ToSet(Returned) \ {x}
    BY <2>1, <1>c, <1>p, TakenFrom DEF Returned
  <2> HIDE DEF x
  <2>3. \A l \in Places : Where'[l] = IF l = "returned" THEN Where["returned"] \ {x}
                                      ELSE IF l = "free" THEN Where["free"] \cup {x} ELSE Where[l]
    BY <2>1, <2>2, <1>w, WhereIs DEF Places
  <2>4. "free" \in Places /\ "returned" \in Places /\ "returned" # "free" /\ x \in Where["returned"]
    BY <2>2, WhereIs DEF Places
  <2>i. Injective(Available') /\ Injective(Returned') /\ Injective(incoming') /\ Injective(outgoing')
    BY <2>1, <2>2, <1>p
  <2> QED
    BY <2>3, <2>4, <2>i, <1>m
<1>4. CASE InReceive \/ InAcquire
  BY <1>4, <1>a DEF InReceive, InAcquire, InHand, OutHand, Available, Returned
<1>5. CASE InLook
  <2>1. InHand' = InHand
    BY <1>5 DEF InLook, InHand
  <2> QED
    BY <1>5, <1>a, <2>1 DEF InLook, OutHand, Available, Returned
<1>6. CASE InTake
  <2> DEFINE x == avail_ring[Consumed % QueueSize]
  <2>0. Consumed # avail_idx
    <3>1. Distance(Consumed, avail_idx) >= 1 \/ Distance(Consumed, avail_idx) >= 2
      BY <1>6, <1>t DEF InTake, TakeInv
    <3>2. Distance(Consumed, avail_idx) # 0
      BY <3>1
    <3> QED
      BY <3>2, <1>c, DistanceBump
  <2>1. /\ Available' = Entries(avail_ring, Bump(Consumed), avail_idx)
        /\ UNCHANGED <<free, held, incoming, outgoing, OutHand, Returned>>
        /\ InHand = {} /\ InHand' = {x}
    BY <1>6 DEF InTake, Available, OutHand, Returned, InHand, NextConsumed, Entry
  <2>2. Injective(Available') /\ x \in ToSet(Available) /\ ToSet(Available') = ToSet(Available) \ {x}
    BY <2>0, <2>1, <1>c, <1>p, TakenFrom DEF Available
  <2> HIDE DEF x
  <2>3. \A l \in Places : Where'[l] = IF l = "available" THEN Where["available"] \ {x}
                                      ELSE IF l = "in" THEN Where["in"] \cup {x} ELSE Where[l]
    BY <2>1, <2>2, <1>w, WhereIs DEF Places
  <2>4. "available" \in Places /\ "in" \in Places /\ "available" # "in" /\ x \in Where["available"]
    BY <2>2, WhereIs DEF Places
  <2>i. Injective(Available') /\ Injective(Returned') /\ Injective(incoming') /\ Injective(outgoing')
    BY <2>1, <2>2, <1>p
  <2> QED
    BY <2>3, <2>4, <2>i, <1>m
<1>7. CASE InSend
  <2>1. /\ incoming' = Append(incoming, in_buf)
        /\ UNCHANGED <<free, held, outgoing, OutHand, Available, Returned>>
        /\ InHand = {in_buf} /\ InHand' = {}
    BY <1>7 DEF InSend, Available, OutHand, Returned, InHand
  <2>2. in_buf \in Where["in"] /\ in_buf \in Indices \ ToSet(incoming)
    BY <2>1, <1>p, WhereIs DEF Partition, Places
  <2>3. Injective(incoming') /\ ToSet(incoming') = ToSet(incoming) \cup {in_buf}
    BY <2>1, <2>2, <1>c, <1>p, Sent
  <2>4. \A l \in Places : Where'[l] = IF l = "in" THEN Where["in"] \ {in_buf}
                                      ELSE IF l = "incoming" THEN Where["incoming"] \cup {in_buf} ELSE Where[l]
    BY <2>1, <2>3, <1>w, WhereIs DEF Places
  <2>5. "in" \in Places /\ "incoming" \in Places /\ "in" # "incoming"
    BY DEF Places
  <2>i. Injective(Available') /\ Injective(Returned') /\ Injective(incoming') /\ Injective(outgoing')
    BY <2>1, <2>3, <1>p
  <2> QED
    BY <2>2, <2>4, <2>5, <2>i, <1>m
<1>8. CASE DeviceTakes
  <2> DEFINE x == Head(incoming)
  <2>1. /\ incoming' = Tail(incoming) /\ incoming # <<>> /\ held' = held \cup {x}
        /\ UNCHANGED <<free, outgoing, InHand, OutHand, Available, Returned>>
    BY <1>8 DEF DeviceTakes, Available, OutHand, Returned, InHand
  <2>2. Injective(incoming') /\ x \in ToSet(incoming) /\ ToSet(incoming') = ToSet(incoming) \ {x}
    BY <2>1, <1>c, <1>p, Received
  <2> HIDE DEF x
  <2>3. \A l \in Places : Where'[l] = IF l = "incoming" THEN Where["incoming"] \ {x}
                                      ELSE IF l = "held" THEN Where["held"] \cup {x} ELSE Where[l]
    BY <2>1, <2>2, <1>w, WhereIs DEF Places
  <2>4. "incoming" \in Places /\ "held" \in Places /\ "incoming" # "held" /\ x \in Where["incoming"]
    BY <2>2, WhereIs DEF Places
  <2>i. Injective(Available') /\ Injective(Returned') /\ Injective(incoming') /\ Injective(outgoing')
    BY <2>1, <2>2, <1>p
  <2> QED
    BY <2>3, <2>4, <2>i, <1>m
<1>9. ASSUME NEW i \in Indices, DeviceReturns(i) PROVE PlaceInv'
  <2>1. /\ outgoing' = Append(outgoing, i) /\ i \in held /\ held' = held \ {i}
        /\ UNCHANGED <<free, incoming, InHand, OutHand, Available, Returned>>
    BY <1>9 DEF DeviceReturns, Available, OutHand, Returned, InHand
  <2>2. i \in Where["held"] /\ i \in Indices \ ToSet(outgoing)
    BY <2>1, <1>p, WhereIs DEF Partition, Places
  <2>3. Injective(outgoing') /\ ToSet(outgoing') = ToSet(outgoing) \cup {i}
    BY <2>1, <2>2, <1>c, <1>p, Sent
  <2>4. \A l \in Places : Where'[l] = IF l = "held" THEN Where["held"] \ {i}
                                      ELSE IF l = "outgoing" THEN Where["outgoing"] \cup {i} ELSE Where[l]
    BY <2>1, <2>3, <1>w, WhereIs DEF Places
  <2>5. "held" \in Places /\ "outgoing" \in Places /\ "held" # "outgoing"
    BY DEF Places
  <2>i. Injective(Available') /\ Injective(Returned') /\ Injective(incoming') /\ Injective(outgoing')
    BY <2>1, <2>3, <1>p
  <2> QED
    BY <2>2, <2>4, <2>5, <2>i, <1>m
<1>10. CASE OutReceive
  <2> DEFINE x == Head(outgoing)
  <2>1. /\ outgoing' = Tail(outgoing) /\ outgoing # <<>> /\ OutHand = {} /\ OutHand' = {x}
        /\ UNCHANGED <<free, held, incoming, InHand, Available, Returned>>
    BY <1>10 DEF OutReceive, Available, OutHand, Returned, InHand
  <2>2. Injective(outgoing') /\ x \in ToSet(outgoing) /\ ToSet(outgoing') = ToSet(outgoing) \ {x}
    BY <2>1, <1>c, <1>p, Received
  <2> HIDE DEF x
  <2>3. \A l \in Places : Where'[l] = IF l = "outgoing" THEN Where["outgoing"] \ {x}
                                      ELSE IF l = "out" THEN Where["out"] \cup {x} ELSE Where[l]
    BY <2>1, <2>2, <1>w, WhereIs DEF Places
  <2>4. "outgoing" \in Places /\ "out" \in Places /\ "outgoing" # "out" /\ x \in Where["outgoing"]
    BY <2>2, WhereIs DEF Places
  <2>i. Injective(Available') /\ Injective(Returned') /\ Injective(incoming') /\ Injective(outgoing')
    BY <2>1, <2>2, <1>p
  <2> QED
    BY <2>3, <2>4, <2>i, <1>m
<1>11. CASE OutAcquire \/ OutDelete
  <2>1. OutHand' = OutHand
    BY <1>11 DEF OutAcquire, OutDelete, OutHand
  <2> QED
    BY <1>11, <1>a, <2>1 DEF OutAcquire, OutDelete, InHand, Available, Returned
<1>12. CASE OutPut
  <2>1. /\ OutHand = {out_buf} /\ OutHand' = {}
        /\ UNCHANGED <<free, held, incoming, outgoing, InHand, Available>>
        /\ Returned' = Entries(used_ring', last_used, Bump(used_idx))
    BY <1>12 DEF OutPut, Available, OutHand, Returned, InHand
  <2>2. out_buf \in Where["out"] /\ out_buf \in Indices \ ToSet(Returned)
    BY <2>1, <1>p, WhereIs DEF Partition, Places
  <2>3. used_ring' \in [Indices -> Indices]
        /\ \A j \in Indices : used_ring'[j] = IF j = used_idx % QueueSize THEN out_buf ELSE used_ring[j]
    BY <1>12, <2>2, <1>c, <1>d DEF OutPut
  <2>4. Injective(Returned') /\ ToSet(Returned') = ToSet(Returned) \cup {out_buf}
    BY <2>1, <2>2, <2>3, <1>c, <1>p, Posted DEF Returned
  <2>5. \A l \in Places : Where'[l] = IF l = "out" THEN Where["out"] \ {out_buf}
                                      ELSE IF l = "returned" THEN Where["returned"] \cup {out_buf} ELSE Where[l]
    BY <2>1, <2>4, <1>w, WhereIs DEF Places
  <2>6. "out" \in Places /\ "returned" \in Places /\ "out" # "returned"
    BY DEF Places
  <2>i. Injective(Available') /\ Injective(Returned') /\ Injective(incoming') /\ Injective(outgoing')
    BY <2>1, <2>4, <1>p
  <2> QED
    BY <2>2, <2>5, <2>6, <2>i, <1>m
<1>13. CASE Pause \/ Unpause
  BY <1>13, <1>a DEF Pause, Unpause, InHand, OutHand, Available, Returned
<1>14. CASE UNCHANGED vars
  BY <1>14, <1>a DEF vars, InHand, OutHand, Available, Returned
<1> QED
  BY <1>1, <1>2, <1>3, <1>4, <1>5, <1>6, <1>7, <1>8, <1>9, <1>10, <1>11, <1>12, <1>13, <1>14
     DEF Next, Driver, Handle, ProcessIncoming, Backend, ProcessOutgoing


\* Posting a buffer makes the ring one longer: it is never full before.
LEMMA PostedLonger ==
  ASSUME IInv, NEW i \in Indices, DriverPosts(i)
  PROVE  /\ Distance(Consumed, avail_idx') = Distance(Consumed, avail_idx) + 1
         /\ Distance(Consumed, avail_idx) \in Nat
         /\ Consumed # avail_idx'
<1>1. Consumed \in Counters /\ avail_idx \in Counters /\ avail_ring \in [Indices -> Indices]
  BY DEF IInv, TypeOK
<1>2. Distance(Consumed, avail_idx) = Len(Available) /\ Available \in Seq(Indices)
  BY <1>1, EntriesSeq DEF Available
<1>3. Injective(Available) /\ i \in Indices \ ToSet(Available)
  BY WhereIs DEF DriverPosts, IInv, PlaceInv, Partition, Places
<1>4. Len(Available) < QueueSize
  BY <1>2, <1>3, RoomForOne
<1>5. avail_idx' = Bump(avail_idx) /\ avail_idx' \in Counters
  BY <1>1, BumpType DEF DriverPosts
<1>6. Distance(Consumed, avail_idx') = Distance(Consumed, avail_idx) + 1
  BY <1>1, <1>2, <1>4, <1>5, DistanceBump
<1>7. Distance(Consumed, avail_idx) \in Nat
  BY <1>1, DistanceIs, CountersNat DEF Counters
<1>8. Distance(Consumed, avail_idx') # 0
  BY <1>6, <1>7
<1> QED
  BY <1>1, <1>5, <1>6, <1>7, <1>8, DistanceBump

\* What is said about wakeups is kept.
LEMMA WakeStep ==
  IInv /\ [Next]_vars => QueueAddress' /\ TakeInv' /\ EmptyInv' /\ PendingInv' /\ QuietInv'
<1> DEFINE Goal == QueueAddress /\ TakeInv /\ EmptyInv /\ PendingInv /\ QuietInv
<1> SUFFICES ASSUME IInv, [Next]_vars PROVE Goal'
  OBVIOUS
<1> USE DEF driverVars, ringVars, queueVars, goVars
<1>t. TypeOK /\ QueueAddress /\ TakeInv /\ EmptyInv /\ PendingInv /\ QuietInv
  BY DEF IInv
<1>c. avail_idx \in Counters /\ Consumed \in Counters
  BY <1>t DEF TypeOK
<1>a. ASSUME UNCHANGED <<QueueAddress, inw, Consumed, avail_idx, used_flags, avail_event, pending,
                         handler, notifications, kick, posting>>
      PROVE  Goal'
  BY <1>a, <1>t DEF TakeInv, EmptyInv, PendingInv, QuietInv, Quiet
<1>1. ASSUME NEW i \in Indices, DriverPosts(i) PROVE Goal'
  <2>1. /\ Distance(Consumed, avail_idx') = Distance(Consumed, avail_idx) + 1
        /\ Distance(Consumed, avail_idx) \in Nat
        /\ Consumed # avail_idx'
    BY <1>1, PostedLonger
  <2>2. UNCHANGED <<QueueAddress, inw, Consumed, used_flags, avail_event, pending, handler, notifications, kick>>
        /\ avail_idx' = Bump(avail_idx) /\ posting' = TRUE /\ ~posting
    BY <1>1 DEF DriverPosts
  <2>3. TakeInv'
    BY <2>1, <2>2, <1>t DEF TakeInv
  <2>4. EmptyInv' /\ PendingInv'
    BY <2>1, <2>2, <1>t DEF EmptyInv, PendingInv
  <2>5. QuietInv'
    BY <2>2, <1>t DEF QuietInv, Quiet, EmptyInv
  <2> QED
    BY <2>2, <2>3, <2>4, <2>5, <1>t
<1>2. CASE DriverNotifies
  <2>1. UNCHANGED <<QueueAddress, inw, Consumed, avail_idx, used_flags, avail_event, pending, handler, notifications>>
    BY <1>2 DEF DriverNotifies
  <2>2. TakeInv' /\ EmptyInv' /\ PendingInv'
    BY <2>1, <1>t DEF TakeInv, EmptyInv, PendingInv
  <2>3. QuietInv'
    <3> SUFFICES ASSUME Quiet', Consumed # avail_idx PROVE FALSE
      BY <2>1 DEF QuietInv
    <3>1. Quiet /\ ~kick'
      BY <1>2, <2>1, <1>t DEF Quiet, DriverNotifies, TypeOK
    <3>2. avail_idx = Bump(Consumed) /\ ~used_flags /\ avail_event = Consumed
      BY <3>1, <1>t DEF QuietInv
    <3> QED
      BY <1>2, <3>1, <3>2 DEF DriverNotifies
  <2> QED
    BY <2>1, <2>2, <2>3, <1>t
<1>3. CASE DriverReaps \/ Backend \/ ProcessOutgoing \/ Pause \/ Unpause
  BY <1>3, <1>a DEF DriverReaps, Backend, DeviceTakes, DeviceReturns,
       ProcessOutgoing, OutReceive, OutAcquire, OutPut, OutDelete, Pause, Unpause
<1>4. CASE NotifyWrite
  <2>1. UNCHANGED <<QueueAddress, inw, Consumed, avail_idx, used_flags, avail_event, notifications, posting>>
    BY <1>4 DEF NotifyWrite
  <2>2. (pending = 0 /\ handler' = "sending") \/ (pending # 0 /\ UNCHANGED <<pending, handler>>)
    BY <1>4, <1>t DEF NotifyWrite
  <2>3. PendingInv' /\ QuietInv'
    BY <2>1, <2>2, <1>t DEF PendingInv, QuietInv, Quiet, TypeOK
  <2> QED
    BY <2>1, <2>3, <1>t DEF TakeInv, EmptyInv
<1>5. CASE NotifySend
  BY <1>5, <1>t DEF NotifySend, TakeInv, EmptyInv, PendingInv, QuietInv, Quiet
<1>6. CASE InReceive
  BY <1>6, <1>t DEF InReceive, TakeInv, EmptyInv, PendingInv, QuietInv, Quiet
<1>7. CASE InAcquire
  BY <1>7, <1>t DEF InAcquire, TakeInv, EmptyInv, PendingInv, QuietInv, Quiet
<1>8. CASE InLook
  <2>1. UNCHANGED <<QueueAddress, Consumed, avail_idx, used_flags, avail_event, pending,
                    handler, notifications, kick, posting>>
    BY <1>8 DEF InLook
  <2>2. EmptyInv' /\ PendingInv' /\ QuietInv'
    BY <1>8, <2>1, <1>t DEF InLook, EmptyInv, PendingInv, QuietInv, Quiet
  <2>3. ASSUME Consumed # avail_idx PROVE Distance(Consumed, avail_idx) >= 1
    <3>1. Distance(Consumed, avail_idx) \in Nat
      BY <1>c, DistanceIs, CountersNat DEF Counters
    <3>2. Distance(Consumed, avail_idx) # 0
      BY <1>c, <2>3, DistanceBump
    <3> QED
      BY <3>1, <3>2
  <2>4. ASSUME Consumed + 1 < avail_idx PROVE Distance(Consumed, avail_idx) >= 2
    <3>1. Consumed \in Nat /\ avail_idx \in Nat
      BY <1>c, CountersNat DEF Counters
    <3>2. Distance(Consumed, avail_idx) = avail_idx - Consumed
      BY <2>4, <3>1, <1>c, DistanceIs
    <3> QED
      BY <2>4, <3>1, <3>2
  <2>5. TakeInv'
    BY <1>8, <2>1, <2>3, <2>4 DEF InLook, TakeInv
  <2> QED
    BY <2>1, <2>2, <2>5, <1>t
<1>9. CASE InTake
  <2>1. /\ UNCHANGED <<QueueAddress, avail_idx, pending, handler, notifications, kick, posting>>
        /\ inw' \in {"send", "dead"} /\ Consumed' = Bump(Consumed)
    BY <1>9 DEF InTake, NextConsumed
  <2>2. TakeInv' /\ QuietInv'
    BY <2>1 DEF TakeInv, QuietInv, Quiet
  <2>3. PendingInv'
    BY <1>9, <2>1, <1>t DEF InTake, PendingInv
  <2>4. EmptyInv'
    <3>1. CASE inw = "take_last"
      BY <1>9, <2>1, <3>1 DEF InTake, EmptyInv, NotifyAt
    <3>2. CASE inw = "take_more"
      <4>1. Distance(Consumed, avail_idx) >= 2 /\ Distance(Consumed, avail_idx) \in Nat
        BY <3>2, <1>t, <1>c, DistanceIs, CountersNat DEF TakeInv, Counters
      <4>2. Consumed # avail_idx
        BY <4>1, <1>c, DistanceBump
      <4>3. Distance(Bump(Consumed), avail_idx) = Distance(Consumed, avail_idx) - 1
        BY <4>2, <1>c, DistanceBump
      <4>4. Bump(Consumed) \in Counters
        BY <1>c, BumpType
      <4>5. Distance(Bump(Consumed), avail_idx) # 0
        BY <4>1, <4>3
      <4>6. Bump(Consumed) # avail_idx
        BY <4>4, <4>5, <1>c, DistanceBump
      <4> QED
        BY <2>1, <4>6 DEF EmptyInv
    <3> QED
      BY <1>9, <3>1, <3>2 DEF InTake
  <2> QED
    BY <2>1, <2>2, <2>3, <2>4, <1>t
<1>10. CASE InSend
  BY <1>10, <1>t DEF InSend, TakeInv, EmptyInv, PendingInv, QuietInv, Quiet
<1>11. CASE UNCHANGED vars
  BY <1>11, <1>a DEF vars
<1> HIDE DEF Goal
<1> QED
  BY <1>1, <1>2, <1>3, <1>4, <1>5, <1>6, <1>7, <1>8, <1>9, <1>10, <1>11
     DEF Next, Driver, Handle, ProcessIncoming

-----------------------------------------------------------------------------
\* The invariant holds of the queue as the driver has set it up.
LEMMA InitInv == Init => IInv
<1> SUFFICES ASSUME Init PROVE IInv
  OBVIOUS
<1>0. 0 \in Counters /\ 0 \in Indices
  BY CountersNat DEF Counters, Indices
<1>1. TypeOK
  BY <1>0, CountersNat DEF Init, TypeOK, InStates, OutStates
<1>2. Distance(0, 0) = 0
  BY <1>0, DistanceBump
<1>3. Available = <<>> /\ Returned = <<>>
  <2>1. Available \in Seq(Indices) /\ Len(Available) = 0
    BY <1>0, <1>1, <1>2, EntriesSeq DEF Init, Available, TypeOK
  <2>2. Returned \in Seq(Indices) /\ Len(Returned) = 0
    BY <1>0, <1>1, <1>2, EntriesSeq DEF Init, Returned, TypeOK
  <2> QED
    BY <2>1, <2>2
<1>4. ToSet(Available) = {} /\ ToSet(Returned) = {} /\ ToSet(incoming) = {} /\ ToSet(outgoing) = {}
  BY <1>3 DEF Init, ToSet
<1>5. InHand = {} /\ OutHand = {} /\ free = Indices /\ held = {}
  BY DEF Init, InHand, OutHand
<1>6. Partition(Where)
  BY <1>4, <1>5, WhereIs DEF Partition, Places
<1>7. PlaceInv
  BY <1>3, <1>6 DEF Init, PlaceInv, Injective
<1> QED
  BY <1>1, <1>7 DEF Init, IInv, TakeInv, EmptyInv, PendingInv, QuietInv, Quiet

\* The inductive invariant: every buffer is in one place, what ProcessIncoming
\* is about to take is on the ring, and an empty ring asks for a notification.
THEOREM Invariance == Spec => []IInv
<1>1. IInv /\ [Next]_vars => IInv'
  BY TypeStep, PlaceStep, WakeStep DEF IInv
<1> QED
  BY <1>1, InitInv, PTL DEF Spec

\* A buffer that waits in the avail ring has a wakeup on its way, for any
\* queue size and across the wrap of the counters (virtio.go:284 and 531).
THEOREM WakeupNotLost == Spec => []WakeupInFlight
<1>1. IInv => WakeupInFlight
  BY DEF IInv, TypeOK, QuietInv, Quiet, WakeupInFlight
<1> QED
  BY <1>1, Invariance, PTL


\* Two queues without a buffer in common, one after the other.
LEMMA Joined ==
  ASSUME NEW s \in Seq(Indices), NEW t \in Seq(Indices), Injective(s), Injective(t),
         ToSet(s) \cap ToSet(t) = {}
  PROVE  s \o t \in Seq(Indices) /\ Injective(s \o t) /\ ToSet(s \o t) = ToSet(s) \cup ToSet(t)
<1> DEFINE u == s \o t
<1>1. /\ u \in Seq(Indices) /\ Len(u) = Len(s) + Len(t) /\ Len(s) \in Nat /\ Len(t) \in Nat
      /\ \A k \in 1 .. Len(s) : u[k] = s[k]
      /\ \A k \in 1 .. Len(t) : u[Len(s) + k] = t[k]
  OBVIOUS
<1> HIDE DEF u
<1>2. \A k \in 1 .. Len(u) : k \in 1 .. Len(s) \/ \E j \in 1 .. Len(t) : k = Len(s) + j
  <2> TAKE k \in 1 .. Len(u)
  <2>1. CASE k <= Len(s)
    BY <2>1, <1>1
  <2>2. CASE k > Len(s)
    <3>1. k - Len(s) \in 1 .. Len(t) /\ k = Len(s) + (k - Len(s))
      BY <2>2, <1>1
    <3> QED
      BY <3>1
  <2> QED
    BY <2>1, <2>2, <1>1
<1>3. \A k \in 1 .. Len(s), j \in 1 .. Len(t) : s[k] # t[j]
  BY ToSetIs
<1>4. Injective(u)
  <2> SUFFICES ASSUME NEW k \in 1 .. Len(u), NEW l \in 1 .. Len(u), u[k] = u[l] PROVE k = l
    BY DEF Injective
  <2>1. CASE k \in 1 .. Len(s) /\ l \in 1 .. Len(s)
    BY <2>1, <1>1 DEF Injective
  <2>2. ASSUME NEW i \in 1 .. Len(t), k = Len(s) + i, NEW j \in 1 .. Len(t), l = Len(s) + j PROVE k = l
    BY <2>2, <1>1 DEF Injective
  <2>3. ASSUME k \in 1 .. Len(s), NEW j \in 1 .. Len(t), l = Len(s) + j PROVE FALSE
    BY <2>3, <1>1, <1>3
  <2>4. ASSUME l \in 1 .. Len(s), NEW j \in 1 .. Len(t), k = Len(s) + j PROVE FALSE
    BY <2>4, <1>1, <1>3
  <2> QED
    BY <1>2, <2>1, <2>2, <2>3, <2>4
<1>5. \A k \in 1 .. Len(s) : k \in 1 .. Len(u)
  BY <1>1
<1>6. \A k \in 1 .. Len(t) : Len(s) + k \in 1 .. Len(u)
  BY <1>1
<1>7. ToSet(u) = ToSet(s) \cup ToSet(t)
  <2>1. ASSUME NEW x \in ToSet(u) PROVE x \in ToSet(s) \cup ToSet(t)
    <3>1. PICK k \in 1 .. Len(u) : x = u[k]
      BY <1>1, ToSetIs
    <3>2. CASE k \in 1 .. Len(s)
      BY <3>1, <3>2, <1>1, ToSetIs
    <3>3. ASSUME NEW j \in 1 .. Len(t), k = Len(s) + j PROVE x \in ToSet(t)
      BY <3>1, <3>3, <1>1, ToSetIs
    <3> QED
      BY <3>2, <3>3, <1>2
  <2>2. ASSUME NEW x \in ToSet(s) PROVE x \in ToSet(u)
    <3>1. PICK k \in 1 .. Len(s) : x = s[k]
      BY ToSetIs
    <3> QED
      BY <3>1, <1>1, <1>5, ToSetIs
  <2>3. ASSUME NEW x \in ToSet(t) PROVE x \in ToSet(u)
    <3>1. PICK k \in 1 .. Len(t) : x = t[k]
      BY ToSetIs
    <3> QED
      BY <3>1, <1>1, <1>6, ToSetIs
  <2> QED
    BY <2>1, <2>2, <2>3
<1> QED
  BY <1>1, <1>4, <1>7 DEF u

\* In the invariant's terms: the queues one after the other hold each buffer
\* once, and hold all that are not held or free.
LEMMA InvConserved == IInv => BuffersConserved
<1> SUFFICES ASSUME IInv PROVE BuffersConserved
  OBVIOUS
<1> DEFINE I == IF inw \in {"send", "dead"} THEN <<in_buf>> ELSE <<>>
           O == IF outw \in {"acquire", "put"} THEN <<out_buf>> ELSE <<>>
           q2 == Available \o incoming
           q3 == q2 \o outgoing
           q4 == q3 \o Returned
           q5 == q4 \o I
           q6 == q5 \o O
<1>p. /\ Partition(Where)
      /\ Injective(Available) /\ Injective(Returned) /\ Injective(incoming) /\ Injective(outgoing)
  BY DEF IInv, PlaceInv
<1>s. Available \in Seq(Indices) /\ Returned \in Seq(Indices)
      /\ incoming \in Seq(Indices) /\ outgoing \in Seq(Indices)
  BY EntriesSeq DEF IInv, TypeOK, Available, Returned
<1>i. I \in Seq(Indices) /\ Injective(I) /\ ToSet(I) = InHand
  <2>1. InHand \subseteq Indices
    BY <1>p, WhereIs DEF Partition, Places
  <2>2. CASE inw \in {"send", "dead"}
    <3>1. I = <<in_buf>> /\ in_buf \in Indices /\ InHand = {in_buf}
      BY <2>1, <2>2 DEF InHand
    <3> HIDE DEF I
    <3> QED
      BY <3>1 DEF Injective, ToSet
  <2>3. CASE inw \notin {"send", "dead"}
    <3>1. I = <<>> /\ InHand = {}
      BY <2>3 DEF InHand
    <3> HIDE DEF I
    <3> QED
      BY <3>1 DEF Injective, ToSet
  <2> QED
    BY <2>2, <2>3
<1>o. O \in Seq(Indices) /\ Injective(O) /\ ToSet(O) = OutHand
  <2>1. OutHand \subseteq Indices
    BY <1>p, WhereIs DEF Partition, Places
  <2>2. CASE outw \in {"acquire", "put"}
    <3>1. O = <<out_buf>> /\ out_buf \in Indices /\ OutHand = {out_buf}
      BY <2>1, <2>2 DEF OutHand
    <3> HIDE DEF O
    <3> QED
      BY <3>1 DEF Injective, ToSet
  <2>3. CASE outw \notin {"acquire", "put"}
    <3>1. O = <<>> /\ OutHand = {}
      BY <2>3 DEF OutHand
    <3> HIDE DEF O
    <3> QED
      BY <3>1 DEF Injective, ToSet
  <2> QED
    BY <2>2, <2>3
<1> HIDE DEF I, O
<1>d. /\ ToSet(Available) \cap ToSet(incoming) = {}
      /\ (ToSet(Available) \cup ToSet(incoming)) \cap ToSet(outgoing) = {}
      /\ (ToSet(Available) \cup ToSet(incoming) \cup ToSet(outgoing)) \cap ToSet(Returned) = {}
      /\ (ToSet(Available) \cup ToSet(incoming) \cup ToSet(outgoing) \cup ToSet(Returned)) \cap InHand = {}
      /\ (ToSet(Available) \cup ToSet(incoming) \cup ToSet(outgoing) \cup ToSet(Returned) \cup InHand)
           \cap OutHand = {}
  BY <1>p, WhereIs DEF Partition, Places
<1>2. q2 \in Seq(Indices) /\ Injective(q2) /\ ToSet(q2) = ToSet(Available) \cup ToSet(incoming)
  BY <1>p, <1>s, <1>d, Joined
<1> HIDE DEF q2
<1>3. q3 \in Seq(Indices) /\ Injective(q3) /\ ToSet(q3) = ToSet(q2) \cup ToSet(outgoing)
  BY <1>p, <1>s, <1>d, <1>2, Joined
<1> HIDE DEF q3
<1>4. q4 \in Seq(Indices) /\ Injective(q4) /\ ToSet(q4) = ToSet(q3) \cup ToSet(Returned)
  BY <1>p, <1>s, <1>d, <1>2, <1>3, Joined
<1> HIDE DEF q4
<1>5. q5 \in Seq(Indices) /\ Injective(q5) /\ ToSet(q5) = ToSet(q4) \cup InHand
  BY <1>i, <1>d, <1>2, <1>3, <1>4, Joined
<1> HIDE DEF q5
<1>6. q6 \in Seq(Indices) /\ Injective(q6) /\ ToSet(q6) = ToSet(q5) \cup OutHand
  BY <1>o, <1>d, <1>2, <1>3, <1>4, <1>5, Joined
<1> HIDE DEF q6
<1>7. IsFiniteSet(ToSet(q6)) /\ Cardinality(ToSet(q6)) = Len(q6)
  BY <1>6, InjectiveCard
<1>8. ToSet(q6) \cup held \cup free = Indices
  <2>1. ToSet(q6) = ToSet(Available) \cup ToSet(incoming) \cup ToSet(outgoing) \cup ToSet(Returned)
                      \cup InHand \cup OutHand
    BY <1>2, <1>3, <1>4, <1>5, <1>6
  <2> QED
    BY <2>1, <1>p, WhereIs DEF Partition, Places
<1>9. ToSet(q6) \cap held = {} /\ (ToSet(q6) \cup held) \cap free = {}
  BY <1>2, <1>3, <1>4, <1>5, <1>6, <1>p, WhereIs DEF Partition, Places
<1>10. Len(q6) + Cardinality(held) + Cardinality(free) = QueueSize
  <2>1. IsFiniteSet(Indices) /\ Cardinality(Indices) = QueueSize
    BY FS_Interval, CountersNat DEF Indices
  <2>2. IsFiniteSet(held) /\ IsFiniteSet(free)
    BY <2>1, <1>8, FS_Subset
  <2> DEFINE Q == ToSet(q6)
             a == Cardinality(Q)
             b == Cardinality(held)
             c == Cardinality(free)
  <2>3. a \in Nat /\ b \in Nat /\ c \in Nat /\ Cardinality({}) = 0
    BY <1>7, <2>2, FS_EmptySet, FS_CardinalityType
  <2>4. IsFiniteSet(Q \cup held) /\ Cardinality(Q \cup held) = a + b - Cardinality(Q \cap held)
    BY <1>7, <2>2, FS_Union
  <2>5. Cardinality((Q \cup held) \cup free)
          = Cardinality(Q \cup held) + c - Cardinality((Q \cup held) \cap free)
    BY <2>2, <2>4, FS_Union
  <2>6. Q \cap held = {} /\ (Q \cup held) \cap free = {} /\ (Q \cup held) \cup free = Indices
    BY <1>8, <1>9
  <2> HIDE DEF Q, a, b, c
  <2>7. Cardinality(Q \cup held) = a + b
    BY <2>3, <2>4, <2>6
  <2>8. QueueSize = a + b + c
    <3>1. Cardinality((Q \cup held) \cup free) = QueueSize
      BY <2>1, <2>6, Zenon
    <3>2. Cardinality((Q \cup held) \cap free) = 0
      BY <2>3, <2>6, Zenon
    <3> DEFINE x == Cardinality((Q \cup held) \cup free)
               y == Cardinality(Q \cup held)
               z == Cardinality((Q \cup held) \cap free)
    <3>3. x = y + c - z /\ x = QueueSize /\ y = a + b /\ z = 0
      BY <3>1, <3>2, <2>5, <2>7
    <3> HIDE DEF x, y, z
    <3> QED
      BY <3>3, <2>3, CountersNat
  <2> QED
    BY <1>7, <2>8 DEF Q, a, b, c
<1> QED
  BY <1>7, <1>8, <1>10 DEF BuffersConserved, I, O, q2, q3, q4, q5, q6

\* No buffer is lost, duplicated or processed twice, for any queue size and
\* any width of the counters (virtio.go:209, virtio.c).
THEOREM BuffersKept == Spec => []BuffersConserved
<1> QED
  BY InvConserved, Invariance, PTL

=============================================================================
