---------------------------- MODULE LockupProofs ----------------------------
(***************************************************************************)
(* The lockup queue for ever: that the loops of the contract compute what  *)
(* LockupQueue says, in LockupWalks, for every queue, cursor, time and     *)
(* cap; and how many entries can be frozen at once, in SettlementCadence,  *)
(* for every window.                                                       *)
(***************************************************************************)
EXTENDS LockupWalks, SettlementCadence, LockupQueueTheorems

(* Sets of entries, one entry at a time *)

Upto(S, k) == {j \in S : j <= k}

\* How a set, its amount and its size grow by entry i.
GrowsBy(queue, S, i) ==
    /\ i \notin Upto(S, i - 1)
    /\ Upto(S, i) \in SUBSET (1 .. Len(queue)) /\ Upto(S, i - 1) \in SUBSET (1 .. Len(queue))
    /\ AmountIn(queue, Upto(S, i)) \in Nat /\ AmountIn(queue, Upto(S, i - 1)) \in Nat
    /\ Cardinality(Upto(S, i)) \in Nat /\ Cardinality(Upto(S, i - 1)) \in Nat
    /\ i \notin S => Upto(S, i) = Upto(S, i - 1)
    /\ i \in S =>
         /\ Upto(S, i) = Upto(S, i - 1) \cup {i}
         /\ AmountIn(queue, Upto(S, i)) = AmountIn(queue, Upto(S, i - 1)) + queue[i].amount
         /\ Cardinality(Upto(S, i)) = Cardinality(Upto(S, i - 1)) + 1

\* The entries of a set up to i are those up to i - 1, and i if it is one.
LEMMA OneMore ==
    ASSUME NEW M \in Nat, NEW queue \in Seq(Entries(M)),
           NEW S \in SUBSET (1 .. Len(queue)), NEW i \in 1 .. Len(queue)
    PROVE  GrowsBy(queue, S, i)
<1> DEFINE A == Upto(S, i)
           B == Upto(S, i - 1)
           x == queue[i].amount
<1>1. /\ i \notin B
      /\ A \in SUBSET (1 .. Len(queue)) /\ B \in SUBSET (1 .. Len(queue))
      /\ i \in S => A = B \cup {i}
      /\ i \notin S => A = B
  <2>1. A \in SUBSET (1 .. Len(queue)) /\ B \in SUBSET (1 .. Len(queue)) /\ i \notin B
    <3>1. A \subseteq S /\ B \subseteq S
      BY DEF Upto
    <3>2. ~(i <= i - 1)
      OBVIOUS
    <3> QED  BY <3>1, <3>2, Zenon DEF Upto
  <2>2. \A j \in S : j <= i <=> j <= i - 1 \/ j = i
    OBVIOUS
  <2>3. (i \in S => A = B \cup {i}) /\ (i \notin S => A = B)
    BY <2>2 DEF Upto
  <2> QED  BY <2>1, <2>3
<1>2. x \in Nat
  BY EntryType
<1> HIDE DEF A, B
<1>3. /\ AmountIn(queue, B) \in Nat /\ Cardinality(B) \in Nat /\ IsFiniteSet(B)
      /\ AmountIn(queue, A) \in Nat /\ Cardinality(A) \in Nat
  BY <1>1, AmountInType, FS_CardinalityType
<1>4. ASSUME i \in S
      PROVE  /\ AmountIn(queue, A) = AmountIn(queue, B) + x
             /\ Cardinality(A) = Cardinality(B) + 1
  <2>1. A = B \cup {i} /\ A \ B = {i} /\ B \in SUBSET A /\ A \in SUBSET (1 .. Len(queue))
    BY <1>1, <1>4
  <2> HIDE DEF x
  <2>2. /\ AmountIn(queue, B) <= AmountIn(queue, A)
        /\ AmountIn(queue, A) = AmountIn(queue, B) + AmountIn(queue, A \ B)
    BY <2>1, AmountInMonotone
  <2>3. AmountIn(queue, {i}) = x
    <3> DEFINE f == [j \in {i} |-> queue[j].amount]
    <3>1. f[i] = x
      BY DEF x
    <3>2. AmountIn(queue, {i}) = Total(f, {i})
      BY DEF AmountIn
    <3> HIDE DEF f
    <3>3. Total(f, {i}) = f[i]
      BY <1>2, <3>1, TotalSingle
    <3> QED  BY <3>1, <3>2, <3>3
  <2>4. Cardinality(A) = Cardinality(B) + 1
    BY <1>1, <1>3, <2>1, FS_AddElement
  <2> QED  BY <2>1, <2>2, <2>3, <2>4
<1> HIDE DEF x
<1> QED  BY <1>1, <1>3, <1>4 DEF GrowsBy, A, B, x

\* Induction over the passes of a loop from c to n.
LEMMA LoopInduction ==
    ASSUME NEW c \in Nat, NEW n \in Nat, c <= n, NEW S, c \in S,
           \A i \in c + 1 .. n : i - 1 \in S => i \in S
    PROVE  n \in S
<1> DEFINE T == {k \in 0 .. n - c : c + k \in S}
<1>1. n - c \in Nat /\ c + 0 = c /\ c + (n - c) = n
  OBVIOUS
<1>2. 0 \in T
  BY <1>1
<1>3. ASSUME NEW k \in 0 .. n - c - 1, k \in T PROVE k + 1 \in T
  <2> DEFINE i == c + (k + 1)
  <2>1. i \in c + 1 .. n /\ i - 1 = c + k /\ k + 1 \in 0 .. n - c
    BY <1>1
  <2>2. c + k \in S
    BY <1>3
  <2> HIDE DEF i
  <2>3. i \in S
    BY <2>1, <2>2
  <2> QED  BY <2>1, <2>3 DEF i
<1>4. 0 .. n - c \subseteq T
  <2> HIDE DEF T
  <2> QED  BY <1>1, <1>2, <1>3, IntervalInduction
<1>5. n - c \in T
  BY <1>1, <1>4
<1> QED  BY <1>1, <1>5
-----------------------------------------------------------------------------
(* The cadence of the credits *)

\* The number of the bucket in which a credit made now unlocks.
LastBucket == (now + freeze + BucketWidth(freeze) - 1) \div BucketWidth(freeze)

\* Every entry unlocks at a bucket's end, later than now and no later than a
\* credit made now.
Inv ==
    /\ now \in Nat /\ freeze \in Windows
    /\ \A u \in unlocks :
        /\ u > now
        /\ \E bucket \in 0 .. LastBucket : u = bucket * BucketWidth(freeze)

\* Buckets come in the order of time.
LEMMA DivMonotone ==
    ASSUME NEW a \in Nat, NEW b \in Nat, a <= b, NEW w \in Nat \ {0}
    PROVE  a \div w <= b \div w
<1>1. /\ a \div w \in Nat /\ (a \div w) * w <= a
      /\ b \div w \in Nat /\ b < (b \div w) * w + w
  BY DivBounds
<1>2. SUFFICES ASSUME a \div w >= b \div w + 1 PROVE FALSE
  BY <1>1
<1>3. w * (b \div w + 1) <= w * (a \div w)
  BY <1>1, <1>2, ProductMonotone
<1> DEFINE x == a \div w
           y == b \div w
<1>4. x \in Nat /\ y \in Nat /\ x * w <= a /\ b < y * w + w /\ w * (y + 1) <= w * x
  BY <1>1, <1>3
<1> HIDE DEF x, y
<1>5. w * (y + 1) = y * w + w /\ w * x = x * w
  BY <1>4
<1>6. y * w \in Nat /\ x * w \in Nat
  BY <1>4
<1> QED  BY <1>4, <1>5, <1>6

\* Nothing is frozen in the beginning.
LEMMA InitInv == Init => Inv
BY CadenceAssumption DEF Init, Inv

\* Crediting and waiting keep every unlock time between now and the last bucket.
LEMMA NextInv == Inv /\ [Next]_vars => Inv'
<1> SUFFICES ASSUME Inv, [Next]_vars PROVE Inv'
  OBVIOUS
<1> DEFINE w == BucketWidth(freeze)
<1>1. /\ now \in Nat /\ freeze \in Nat \ {0} /\ w \in Nat \ {0}
      /\ LastBucket \in Nat
  <2>1. now \in Nat /\ freeze \in Nat \ {0}
    BY CadenceAssumption DEF Inv
  <2>2. w \in Nat \ {0}
    BY <2>1, BucketWidthType
  <2>3. LastBucket \in Nat
    <3>1. LastBucket = (now + freeze + w - 1) \div w
      BY DEF LastBucket
    <3> HIDE DEF w
    <3>2. now + freeze + w - 1 \in Nat
      BY <2>1, <2>2
    <3> QED  BY <2>2, <3>1, <3>2, DivBounds
  <2> QED  BY <2>1, <2>2, <2>3
<1>2. CASE Tick
  <2>1. /\ now' = now + 1 /\ freeze' = freeze
        /\ unlocks' = {u \in unlocks : u > now'}
    BY <1>2 DEF Tick
  <2>2. LastBucket <= LastBucket' /\ LastBucket' \in Nat
    <3>1. /\ LastBucket = (now + freeze + w - 1) \div w
          /\ LastBucket' = (now + 1 + freeze + w - 1) \div w
      BY <2>1 DEF LastBucket
    <3> HIDE DEF w
    <3>2. /\ now + freeze + w - 1 \in Nat /\ now + 1 + freeze + w - 1 \in Nat
          /\ now + freeze + w - 1 <= now + 1 + freeze + w - 1
      BY <1>1
    <3> QED  BY <1>1, <3>1, <3>2, DivMonotone, DivBounds
  <2>3. ASSUME NEW u \in unlocks'
        PROVE  /\ u > now'
               /\ \E bucket \in 0 .. LastBucket' : u = bucket * BucketWidth(freeze')
    <3>1. u \in unlocks /\ u > now'
      BY <2>1
    <3>2. PICK bucket \in 0 .. LastBucket : u = bucket * BucketWidth(freeze)
      BY <3>1 DEF Inv
    <3>3. bucket \in 0 .. LastBucket'
      BY <1>1, <2>2
    <3> QED  BY <2>1, <3>1, <3>2, <3>3
  <2> QED  BY <1>1, <2>1, <2>3 DEF Inv
<1>3. CASE CreditEarnings
  <2>1. /\ now' = now /\ freeze' = freeze
        /\ unlocks' = unlocks \cup {UnlockTime(now, freeze)}
    BY <1>3 DEF CreditEarnings
  <2>2. UnlockTime(now, freeze) = LastBucket * BucketWidth(freeze)
    BY DEF UnlockTime, LastBucket
  <2>3. UnlockTime(now, freeze) > now
    <3>1. UnlockTime(now, freeze) \in Nat /\ UnlockTime(now, freeze) >= now + freeze
      BY <1>1, UnlockTimeRoundsUp
    <3> QED  BY <1>1, <3>1
  <2>4. LastBucket' = LastBucket /\ LastBucket \in 0 .. LastBucket
    BY <1>1, <2>1 DEF LastBucket
  <2> QED  BY <2>1, <2>2, <2>3, <2>4 DEF Inv
<1>4. CASE UNCHANGED vars
  BY <1>4 DEF vars, Inv, LastBucket
<1> QED  BY <1>2, <1>3, <1>4 DEF Next

\* The buckets of the frozen entries lie between now and the last one.
LEMMA SpanOfBuckets ==
    ASSUME Inv
    PROVE  /\ IsFiniteSet(unlocks) /\ Cardinality(unlocks) \in Nat
           /\ LastBucket \in Nat
           /\ Cardinality(unlocks) <= LastBucket - (now \div BucketWidth(freeze))
           /\ now \div BucketWidth(freeze) <= LastBucket
<1> DEFINE w == BucketWidth(freeze)
           first == now \div w
           f == [u \in unlocks |-> u \div w]
<1>1. /\ now \in Nat /\ freeze \in Nat \ {0} /\ w \in Nat \ {0}
  BY CadenceAssumption, BucketWidthType DEF Inv
<1>2. LastBucket \in Nat /\ first \in Nat /\ first <= LastBucket
  <2>1. LastBucket = (now + freeze + w - 1) \div w
    BY DEF LastBucket
  <2> HIDE DEF w
  <2>2. now + freeze + w - 1 \in Nat /\ now <= now + freeze + w - 1
    BY <1>1
  <2> QED  BY <1>1, <2>1, <2>2, DivBounds, DivMonotone
<1>3. ASSUME NEW u \in unlocks
      PROVE  f[u] \in first + 1 .. LastBucket /\ u = f[u] * w
  <2>1. PICK bucket \in 0 .. LastBucket : u = bucket * w
    BY DEF Inv
  <2>2. u > now /\ f[u] = u \div w
    BY DEF Inv
  <2> HIDE DEF w, f
  <2>3. u \div w = bucket
    BY <1>1, <1>2, <2>1, Z3
  <2>4. bucket > first
    <3>1. SUFFICES ASSUME bucket <= first PROVE FALSE
      BY <1>2, <2>1
    <3>2. first * w <= now
      BY <1>1, DivBounds
    <3>3. w * bucket <= w * first
      BY <1>1, <1>2, <3>1, ProductMonotone
    <3> HIDE DEF first
    <3>4. w * bucket = u /\ w * first = first * w
      BY <1>1, <1>2, <2>1
    <3>5. w * bucket \in Nat /\ w * first \in Nat
      BY <1>1, <1>2
    <3> QED  BY <1>1, <2>2, <3>2, <3>3, <3>4, <3>5
  <2> HIDE DEF first
  <2>5. bucket \in first + 1 .. LastBucket
    BY <1>2, <2>1, <2>4
  <2> QED  BY <2>1, <2>2, <2>3, <2>5
<1> HIDE DEF w, first
<1>4. f \in Injection(unlocks, first + 1 .. LastBucket)
  <2>1. DOMAIN f = unlocks /\ f = [u \in unlocks |-> f[u]]
    OBVIOUS
  <2> HIDE DEF f
  <2>2. f \in [unlocks -> first + 1 .. LastBucket]
    BY <1>3, <2>1
  <2>3. ASSUME NEW u \in unlocks, NEW v \in unlocks, f[u] = f[v] PROVE u = v
    BY <1>3, <2>3
  <2> QED  BY <2>1, <2>2, <2>3 DEF Injection, IsInjective
<1>5. /\ IsFiniteSet(first + 1 .. LastBucket)
      /\ Cardinality(first + 1 .. LastBucket) <= LastBucket - first
  <2>1. first + 1 \in Int /\ LastBucket \in Int
    BY <1>2
  <2> QED  BY <1>2, <2>1, FS_Interval
<1>6. /\ IsFiniteSet(unlocks)
      /\ Cardinality(unlocks) <= Cardinality(first + 1 .. LastBucket)
  BY <1>4, <1>5, FS_Injection
<1>7. Cardinality(unlocks) \in Nat /\ Cardinality(first + 1 .. LastBucket) \in Nat
  BY <1>5, <1>6, FS_CardinalityType
<1>8. Cardinality(unlocks) <= LastBucket - first
  BY <1>2, <1>5, <1>6, <1>7
<1> QED  BY <1>2, <1>6, <1>7, <1>8 DEF w, first

\* The arithmetic of the bound: w is the width, r what the division of the
\* window into buckets leaves over, l and h the buckets of now and of the last
\* entry.
LEMMA BucketsInReach ==
    ASSUME NEW w \in Nat \ {0}, NEW l \in Nat, NEW h \in Nat, NEW r \in Nat,
           NEW at \in Nat, NEW freeze0 \in Nat,
           freeze0 = FREEZE_BUCKETS * w + r, at < l * w + w,
           h * w <= at + freeze0 + w - 1
    PROVE  h - l <= FREEZE_BUCKETS + 1 + r
<1>1. SUFFICES ASSUME h >= l + (10 + r) PROVE FALSE
  BY DEF FREEZE_BUCKETS
<1>2. w * (l + (10 + r)) <= w * h
  BY <1>1, ProductMonotone
<1>3. w * (l + (10 + r)) = l * w + 10 * w + r * w /\ w * h = h * w
  OBVIOUS
<1>4. l * w \in Nat /\ r * w \in Nat /\ h * w \in Nat
  OBVIOUS
<1>5. r * w >= r
  <2>1. r * 1 <= r * w
    BY ProductMonotone
  <2> QED  BY <2>1
<1>6. freeze0 = 8 * w + r
  BY DEF FREEZE_BUCKETS
<1> QED  BY <1>2, <1>3, <1>4, <1>5, <1>6

\* At any cadence of settlements, for a window of any length and for ever,
\* withdrawing and confiscating find at most nine frozen entries, and one more
\* for each second the buckets' width leaves over.
THEOREM SpanIsBounded == Spec => []SpanBounded
<1>1. Inv => SpanBounded
  <2> SUFFICES ASSUME Inv PROVE SpanBounded
    OBVIOUS
  <2> DEFINE w == BucketWidth(freeze)
             l == now \div w
             h == LastBucket
             card == Cardinality(unlocks)
  <2>1. /\ now \in Nat /\ freeze \in Nat \ {0} /\ w \in Nat \ {0}
    BY CadenceAssumption, BucketWidthType DEF Inv
  <2>2. card \in Nat /\ h \in Nat /\ card <= h - l
    BY SpanOfBuckets
  <2>3. l \in Nat /\ now < l * w + w
    BY <2>1, DivBounds
  <2>4. h * w <= now + freeze + w - 1
    <3>1. h = (now + freeze + w - 1) \div w
      BY DEF LastBucket
    <3> HIDE DEF w, h
    <3>2. now + freeze + w - 1 \in Nat
      BY <2>1
    <3> QED  BY <2>1, <3>1, <3>2, DivBounds
  <2>5. CASE freeze < FREEZE_BUCKETS
    <3>1. w = 1
      BY <2>1, <2>5, BucketWidthType
    <3> HIDE DEF w, l, h
    <3>2. h * w = h /\ l * w = l
      BY <2>2, <2>3, <3>1
    <3>3. h <= now + freeze /\ now < l + 1
      BY <2>1, <2>2, <2>3, <2>4, <3>1, <3>2
    <3>4. card <= FREEZE_BUCKETS + 1
      <4> HIDE DEF card
      <4> QED  BY <2>1, <2>2, <2>3, <2>5, <3>3 DEF FREEZE_BUCKETS
    <3> QED  BY <2>2, <2>5, <3>4 DEF SpanBounded, FREEZE_BUCKETS
  <2>6. CASE freeze >= FREEZE_BUCKETS
    <3> DEFINE r == freeze % FREEZE_BUCKETS
    <3>1. r \in Nat /\ freeze = FREEZE_BUCKETS * w + r
      BY <2>1, <2>6 DEF BucketWidth, FREEZE_BUCKETS
    <3> HIDE DEF w, l, h, r
    <3>2. h - l <= FREEZE_BUCKETS + 1 + r
      BY <2>1, <2>2, <2>3, <2>4, <3>1, BucketsInReach
    <3>3. card <= FREEZE_BUCKETS + 1 + r
      <4> HIDE DEF card
      <4> QED  BY <2>2, <2>3, <3>1, <3>2 DEF FREEZE_BUCKETS
    <3>4. ~ (freeze < FREEZE_BUCKETS)
      BY <2>1, <2>6 DEF FREEZE_BUCKETS
    <3> QED  BY <3>3, <3>4 DEF SpanBounded, r
  <2> QED  BY <2>1, <2>5, <2>6 DEF FREEZE_BUCKETS
<1> QED  BY <1>1, InitInv, NextInv, PTL DEF Spec

-----------------------------------------------------------------------------
(* The maturation *)

\* A cap bounds how many entries a maturation releases.
LEMMA CapBounds ==
    ASSUME NEW M \in Nat, NEW queue \in Seq(Entries(M)), NEW c \in 0 .. Len(queue),
           NEW time \in Nat, NEW cap \in Nat
    PROVE  LET out == Released(queue, c, time, cap)
           IN  /\ IsFiniteSet(out) /\ Cardinality(out) \in Nat
               /\ cap # 0 => Cardinality(out) <= cap
<1> DEFINE out == Released(queue, c, time, cap)
           R   == Releasable(queue, c, time)
<1>1. /\ out \in SUBSET (1 .. Len(queue)) /\ R \in SUBSET (1 .. Len(queue))
      /\ out \subseteq R
  BY WalkSets
<1>2. IsFiniteSet(out) /\ Cardinality(out) \in Nat
  BY <1>1, AmountInType, FS_CardinalityType
<1>3. ASSUME cap # 0 PROVE Cardinality(out) <= cap
  <2>1. CASE out = {}
    BY <1>3, <2>1, FS_EmptySet
  <2>2. CASE out # {}
    <3>1. out \in SUBSET (0 .. Len(queue)) /\ Len(queue) \in Nat
      BY <1>1
    <3>2. PICK m \in out : \A k \in out : k <= m
      <4> HIDE DEF out
      <4> QED  BY <2>2, <3>1, GreatestElement
    <3> DEFINE U == {j \in R : j <= m}
    <3>3. Cardinality(U) <= cap
      BY <1>3, <3>2 DEF Released
    <3>4. out \subseteq U /\ U \in SUBSET (1 .. Len(queue))
      BY <1>1, <3>2
    <3> HIDE DEF out, U
    <3>5. IsFiniteSet(U) /\ Cardinality(U) \in Nat
      BY <3>4, AmountInType, FS_CardinalityType
    <3>6. Cardinality(out) <= Cardinality(U)
      BY <3>4, <3>5, FS_Subset
    <3> QED  BY <1>2, <3>3, <3>5, <3>6
  <2> QED  BY <2>1, <2>2
<1> QED  BY <1>2, <1>3

\* Where a maturation leaves the cursor: behind everything it released and nothing
\* else that holds an amount; on the last released entry if it reached its cap, and
\* otherwise at the end of the queue or in front of a frozen entry.
LEMMA CursorStops ==
    ASSUME NEW M \in Nat, NEW queue \in Seq(Entries(M)), NEW c \in 0 .. Len(queue),
           NEW time \in Nat, NEW cap \in Nat
    PROVE  LET out    == Released(queue, c, time, cap)
               p      == CursorAfter(queue, c, time, cap)
               capped == cap # 0 /\ Cardinality(out) = cap
           IN  /\ p \in c .. Len(queue)
               /\ \A i \in out : i <= p
               /\ \A i \in Live(queue, c) : i <= p => i \in out
               /\ capped => p \in out
               /\ ~capped => p = Len(queue) \/ p + 1 \in Frozen(queue, c, time)
<1> DEFINE out    == Released(queue, c, time, cap)
           p      == CursorAfter(queue, c, time, cap)
           capped == cap # 0 /\ Cardinality(out) = cap
           R      == Releasable(queue, c, time)
           L      == Live(queue, c)
           F      == Frozen(queue, c, time)
           hits   == {r \in c .. Len(queue) : Passed(queue, c, time, cap, r)}
<1>1. /\ L \subseteq c + 1 .. Len(queue) /\ F \subseteq L
      /\ R \subseteq L \ F /\ out \subseteq R
      /\ Len(queue) \in Nat /\ c \in Nat
  BY WalkSets
<1>2. \A r : Passed(queue, c, time, cap, r)
                <=> /\ \A i \in out : i <= r
                    /\ \A i \in L : i <= r => i \in out
  BY DEF Passed
<1>3. p \in c .. Len(queue) /\ Passed(queue, c, time, cap, p)
  BY CursorPasses
<1>4. p = IF capped THEN CHOOSE r \in hits : \A s \in hits : r <= s
          ELSE CHOOSE r \in hits : \A s \in hits : s <= r
  BY DEF CursorAfter
<1>5. hits \in SUBSET (0 .. Len(queue)) /\ p \in hits
  BY <1>1, <1>3
<1>6. /\ IsFiniteSet(out) /\ Cardinality(out) \in Nat
      /\ cap # 0 => Cardinality(out) <= cap
  BY CapBounds
<1>7. ASSUME capped PROVE p \in out
  <2>1. out # {}
    BY <1>7, FS_EmptySet
  <2>2. out \in SUBSET (0 .. Len(queue))
    BY <1>1
  <2>3. PICK m \in out : \A k \in out : k <= m
    <3> HIDE DEF out
    <3> QED  BY <1>1, <2>1, <2>2, GreatestElement
  <2>4. \A i \in L : i <= m => i \in out
    BY ReleasedIsAPrefix
  <2>5. m \in hits
    BY <1>1, <1>2, <2>3, <2>4
  <2>6. \A s \in hits : p <= s
    <3>1. \E r \in hits : \A s \in hits : r <= s
      <4>1. hits \in SUBSET Nat /\ hits # {}
        BY <1>5
      <4> HIDE DEF hits
      <4> QED  BY <4>1, LeastElement
    <3>2. p = CHOOSE r \in hits : \A s \in hits : r <= s
      BY <1>4, <1>7
    <3> HIDE DEF hits, p
    <3> QED  BY <3>1, <3>2
  <2>7. p <= m /\ m <= p /\ p \in Nat /\ m \in Nat
    BY <1>1, <1>2, <1>3, <2>3, <2>5, <2>6
  <2> QED  BY <2>3, <2>7
<1>8. ASSUME ~capped, p # Len(queue) PROVE p + 1 \in F
  <2>1. p + 1 \in c .. Len(queue) /\ p \in Nat /\ p + 1 \in c + 1 .. Len(queue)
    BY <1>1, <1>3, <1>8
  <2>2. \A s \in hits : s <= p
    <3>1. \E r \in hits : \A s \in hits : s <= r
      <4> HIDE DEF hits
      <4> QED  BY <1>1, <1>5, GreatestElement
    <3>2. p = CHOOSE r \in hits : \A s \in hits : s <= r
      BY <1>4, <1>8
    <3> HIDE DEF hits, p
    <3> QED  BY <3>1, <3>2
  <2>3. ~Passed(queue, c, time, cap, p + 1)
    BY <2>1, <2>2
  <2>4. /\ \A i \in out : i <= p
        /\ \A i \in L : i <= p => i \in out
    BY <1>2, <1>3
  <2>5. p + 1 \in L \ out
    <3>0. \A i \in out : i \in Nat
      BY <1>1
    <3> HIDE DEF out, L, p
    <3>1. \A i \in out : i <= p + 1
      BY <2>1, <2>4, <3>0
    <3>2. PICK i \in L : i <= p + 1 /\ i \notin out
      BY <1>2, <2>3, <3>1
    <3>3. ~(i <= p) /\ i \in Nat
      BY <1>1, <2>4, <3>2
    <3>4. i = p + 1
      BY <2>1, <3>2, <3>3
    <3> QED  BY <3>2, <3>4
  <2>6. p + 1 \notin R
    <3> SUFFICES ASSUME p + 1 \in R PROVE FALSE
      OBVIOUS
    <3> DEFINE U == {j \in R : j <= p + 1}
    <3>1. U = out \cup {p + 1}
      <4> HIDE DEF out, R, L, p
      <4>1. \A j \in R : j <= p + 1 => j <= p \/ j = p + 1
        BY <1>1, <2>1
      <4>2. \A j \in R : j <= p => j \in out
        BY <1>1, <2>4
      <4>3. \A j \in out : j \in R /\ j <= p + 1
        BY <1>1, <2>1, <2>4
      <4>4. p + 1 <= p + 1
        BY <2>1
      <4> QED  BY <4>1, <4>2, <4>3, <4>4
    <3>2. Cardinality(U) = Cardinality(out) + 1
      <4> HIDE DEF out, U
      <4> QED  BY <1>6, <2>5, <3>1, FS_AddElement
    <3>3. cap # 0 /\ ~(Cardinality(U) <= cap)
      BY <2>5 DEF Released
    <3>4. cap # 0 => Cardinality(out) # cap
      BY <1>8
    <3> HIDE DEF out, U
    <3> QED  BY <1>6, <3>2, <3>3, <3>4
  <2>7. PICK j \in F : ~(p + 1 < j)
    BY <2>5, <2>6 DEF Releasable
  <2>8. j \in L /\ j \notin out /\ j \in Nat
    BY <1>1
  <2>9. j = p + 1
    <3> HIDE DEF out, L, F, p
    <3>1. ~(j <= p)
      BY <2>4, <2>8
    <3> QED  BY <2>1, <2>7, <2>8, <3>1
  <2> QED  BY <2>9
<1>9. /\ \A i \in out : i <= p
      /\ \A i \in L : i <= p => i \in out
  BY <1>2, <1>3
<1> HIDE DEF out, p, L, F
<1> QED  BY <1>3, <1>7, <1>8, <1>9 DEF out, p, L, F

\* The loop of a maturation is at start before its first pass, and each pass takes
\* it on over one more entry.
MaturesIn(queue, c, time, cap, g) ==
    g = [i \in c .. Len(queue) |->
            IF i = c THEN [queue |-> queue, cursor |-> c, released |-> 0, steps |-> 0,
                           stopped |-> FALSE]
            ELSE MaturePass(g[i - 1], i, time, cap)]

\* Where the loop is after it has passed entry i, told by what is released in the
\* end: what is released of the entries up to i, with the cursor on i, or where it
\* ends if the loop has stopped before.
MaturedUpto(queue, c, time, cap, i) ==
    LET out  == Released(queue, c, time, cap)
        upto == Upto(out, i)
        p    == CursorAfter(queue, c, time, cap)
    IN  [queue |-> Emptied(queue, upto),
         cursor |-> IF i <= p THEN i ELSE p,
         released |-> AmountIn(queue, upto),
         steps |-> Cardinality(upto),
         stopped |-> IF i > p \/ (i = p /\ cap # 0 /\ Cardinality(out) = cap)
                     THEN TRUE ELSE FALSE]

\* Emptying one more entry is deleting it.
LEMMA EmptyOneMore ==
    ASSUME NEW M \in Nat, NEW queue \in Seq(Entries(M)), NEW S,
           NEW i \in 1 .. Len(queue)
    PROVE  Emptied(queue, S \cup {i}) = [Emptied(queue, S) EXCEPT ![i] = Deleted]
<1> DEFINE A == Emptied(queue, S \cup {i})
           B == Emptied(queue, S)
<1>1. /\ A = [j \in DOMAIN queue |-> IF j \in S \cup {i} THEN Deleted ELSE queue[j]]
      /\ B = [j \in DOMAIN queue |-> IF j \in S THEN Deleted ELSE queue[j]]
  BY DEF Emptied
<1>2. [B EXCEPT ![i] = Deleted] = [j \in DOMAIN queue |-> IF j = i THEN Deleted ELSE B[j]]
  BY <1>1
<1>3. \A j \in DOMAIN queue : (IF j \in S \cup {i} THEN Deleted ELSE queue[j])
                                = IF j = i THEN Deleted ELSE B[j]
  BY <1>1
<1> HIDE DEF A, B
<1>4. A = [B EXCEPT ![i] = Deleted]
  BY <1>1, <1>2, <1>3
<1> QED  BY <1>4 DEF A, B

\* Assigning one of the loop's variables leaves the others.
LEMMA OneField ==
    ASSUME NEW a, NEW b, NEW d, NEW e, NEW f
    PROVE  LET l == [queue |-> a, cursor |-> b, released |-> d, steps |-> e, stopped |-> f]
           IN  /\ \A x : [l EXCEPT !.cursor = x]
                        = [queue |-> a, cursor |-> x, released |-> d, steps |-> e, stopped |-> f]
               /\ \A x : [l EXCEPT !.stopped = x]
                        = [queue |-> a, cursor |-> b, released |-> d, steps |-> e, stopped |-> x]
OBVIOUS

\* One pass takes the loop from where it is after entry i - 1 to where it is after
\* entry i.
LEMMA MaturePassGoesOn ==
    ASSUME NEW M \in Nat, NEW queue \in Seq(Entries(M)), NEW c \in 0 .. Len(queue),
           NEW time \in Nat, NEW cap \in Nat, NEW i \in c + 1 .. Len(queue)
    PROVE  MaturedUpto(queue, c, time, cap, i)
            = MaturePass(MaturedUpto(queue, c, time, cap, i - 1), i, time, cap)
<1> DEFINE out     == Released(queue, c, time, cap)
           p       == CursorAfter(queue, c, time, cap)
           Card    == Cardinality(out)
           capped  == cap # 0 /\ Card = cap
           L       == Live(queue, c)
           F       == Frozen(queue, c, time)
           A       == Upto(out, i)
           B       == Upto(out, i - 1)
           l       == MaturedUpto(queue, c, time, cap, i - 1)
           m       == MaturedUpto(queue, c, time, cap, i)
           EA      == Emptied(queue, A)
           EB      == Emptied(queue, B)
           NA      == Cardinality(A)
           NB      == Cardinality(B)
           SA      == AmountIn(queue, A)
           SB      == AmountIn(queue, B)
           e       == queue[i]
<1>1. /\ p \in c .. Len(queue)
      /\ \A j \in out : j <= p
      /\ \A j \in L : j <= p => j \in out
      /\ capped => p \in out
      /\ ~capped => p = Len(queue) \/ p + 1 \in F
  BY CursorStops
<1>2. /\ F \subseteq L /\ out \subseteq L /\ \A j \in out : j \notin F
      /\ out \in SUBSET (1 .. Len(queue))
  BY WalkSets
<1>3. Len(queue) \in Nat /\ c \in Nat /\ p \in Nat /\ i \in Nat /\ i - 1 \in Nat
      /\ i \in 1 .. Len(queue) /\ i <= Len(queue) /\ c < i
  BY <1>1
<1>4. /\ e.amount \in Nat /\ e.unlockAt \in Nat
      /\ i \in L <=> e.amount # 0
      /\ i \in F <=> e.amount # 0 /\ e.unlockAt > time
  <2>1. e.amount \in Nat /\ e.unlockAt \in Nat
    BY <1>3, EntryType
  <2>2. i \in L <=> e.amount # 0
    BY <2>1 DEF Live
  <2>3. i \in F <=> i \in L /\ e.unlockAt > time
    BY DEF Frozen
  <2> QED  BY <2>1, <2>2, <2>3
<1>5. /\ i \notin B /\ SA \in Nat /\ SB \in Nat /\ NA \in Nat /\ NB \in Nat
      /\ i \notin out => A = B
      /\ i \in out => A = B \cup {i} /\ SA = SB + e.amount /\ NA = NB + 1
  <2>1. out \in SUBSET (1 .. Len(queue)) /\ i \in 1 .. Len(queue)
    BY <1>2, <1>3
  <2> HIDE DEF out, A, B, NA, NB, SA, SB, e
  <2>2. GrowsBy(queue, out, i)
    BY <2>1, OneMore
  <2> QED  BY <2>2 DEF GrowsBy, A, B, NA, NB, SA, SB, e
<1>6. /\ IsFiniteSet(out) /\ Card \in Nat
      /\ cap # 0 => Card <= cap
  BY CapBounds
<1>7. NA <= Card /\ (NA = Card => A = out)
  <2>1. A \subseteq out
    BY DEF Upto
  <2> HIDE DEF A, out
  <2> QED  BY <1>6, <2>1, FS_Subset
<1>8. /\ EB[i] = e
      /\ i \in out => EA = [EB EXCEPT ![i] = Deleted]
      /\ i \notin out => EA = EB /\ SA = SB /\ NA = NB
  <2>1. EB[i] = e
    <3> HIDE DEF B
    <3> QED  BY <1>3, <1>5, EmptiedIsAQueue
  <2>2. Emptied(queue, B \cup {i}) = [EB EXCEPT ![i] = Deleted]
    <3> HIDE DEF B
    <3> QED  BY <1>3, EmptyOneMore
  <2> HIDE DEF A, B
  <2> QED  BY <1>5, <2>1, <2>2
<1> DEFINE bl == i - 1 > p \/ (i - 1 = p /\ capped)
           bm == i > p \/ (i = p /\ capped)
<1>9. /\ l = [queue |-> EB, cursor |-> IF i - 1 <= p THEN i - 1 ELSE p,
              released |-> SB, steps |-> NB, stopped |-> IF bl THEN TRUE ELSE FALSE]
      /\ m = [queue |-> EA, cursor |-> IF i <= p THEN i ELSE p,
              released |-> SA, steps |-> NA, stopped |-> IF bm THEN TRUE ELSE FALSE]
  BY DEF MaturedUpto
<1>10. MaturePass(l, i, time, cap)
        = IF l.stopped THEN l
          ELSE IF l.queue[i].amount = 0 THEN [l EXCEPT !.cursor = i]
          ELSE IF l.queue[i].unlockAt > time THEN [l EXCEPT !.stopped = TRUE]
          ELSE [queue |-> [l.queue EXCEPT ![i] = Deleted], cursor |-> i,
                released |-> l.released + l.queue[i].amount, steps |-> l.steps + 1,
                stopped |-> cap # 0 /\ l.steps + 1 >= cap]
  BY DEF MaturePass
<1> HIDE DEF out, p, Card, L, F, A, B, l, m, EA, EB, NA, NB, SA, SB, e
<1>11. l.queue[i] = e
  BY <1>8, <1>9
<1>12. CASE bl
  <2>1. i \notin out
    BY <1>1, <1>3, <1>12
  <2>2. EA = EB /\ SA = SB /\ NA = NB
    BY <1>5, <1>8, <2>1
  <2>3. bm /\ (IF i - 1 <= p THEN i - 1 ELSE p) = (IF i <= p THEN i ELSE p)
    BY <1>3, <1>12
  <2>4. m = l
    BY <1>9, <1>12, <2>2, <2>3
  <2>5. l.stopped
    BY <1>9, <1>12
  <2> QED  BY <1>10, <2>4, <2>5 DEF l, m
<1>13. CASE ~bl
  <2>1. ~l.stopped /\ i - 1 <= p /\ (i - 1 = p => ~capped)
    BY <1>3, <1>9, <1>13
  <2>2. i <= p \/ (i = p + 1 /\ i \in F)
    BY <1>1, <1>3, <2>1
  <2>3. CASE e.amount = 0
    <3>1. i \notin L /\ i \notin F /\ i \notin out
      BY <1>2, <1>4, <2>3
    <3>2. i <= p /\ ~bm
      BY <1>1, <1>3, <2>2, <3>1
    <3> DEFINE no == FALSE
    <3>3. m = [queue |-> EB, cursor |-> i, released |-> SB, steps |-> NB, stopped |-> no]
      BY <1>5, <1>8, <1>9, <3>1, <3>2
    <3>4. l = [queue |-> EB, cursor |-> i - 1, released |-> SB, steps |-> NB, stopped |-> no]
      BY <1>9, <1>13, <2>1
    <3> HIDE DEF no
    <3>5. m = [l EXCEPT !.cursor = i]
      <4>1. [[queue |-> EB, cursor |-> i - 1, released |-> SB, steps |-> NB, stopped |-> no]
                EXCEPT !.cursor = i]
            = [queue |-> EB, cursor |-> i, released |-> SB, steps |-> NB, stopped |-> no]
        BY OneField
      <4> QED  BY <3>3, <3>4, <4>1
    <3> QED  BY <1>10, <1>11, <2>1, <2>3, <3>5 DEF l, m
  <2>4. CASE e.amount # 0 /\ e.unlockAt > time
    <3>1. i \in F /\ i \in L /\ i \notin out
      BY <1>2, <1>4, <2>4
    <3>2. i > p /\ bm /\ i - 1 = p
      BY <1>1, <1>3, <2>1, <3>1
    <3> DEFINE no  == FALSE
               yes == TRUE
    <3>3. m = [queue |-> EB, cursor |-> p, released |-> SB, steps |-> NB, stopped |-> yes]
      <4>1. EA = EB /\ SA = SB /\ NA = NB /\ (IF i <= p THEN i ELSE p) = p
        BY <1>3, <1>5, <1>8, <3>1, <3>2
      <4> QED  BY <1>9, <3>2, <4>1
    <3>4. l = [queue |-> EB, cursor |-> p, released |-> SB, steps |-> NB, stopped |-> no]
      BY <1>9, <1>13, <2>1, <3>2
    <3> HIDE DEF no, yes
    <3>5. m = [l EXCEPT !.stopped = yes]
      <4>1. [[queue |-> EB, cursor |-> p, released |-> SB, steps |-> NB, stopped |-> no]
                EXCEPT !.stopped = yes]
            = [queue |-> EB, cursor |-> p, released |-> SB, steps |-> NB, stopped |-> yes]
        BY OneField
      <4> QED  BY <3>3, <3>4, <4>1
    <3> QED  BY <1>10, <1>11, <2>1, <2>4, <3>5 DEF l, m, yes
  <2>5. CASE e.amount # 0 /\ ~(e.unlockAt > time)
    <3>1. i \in L /\ i \notin F
      BY <1>4, <2>5
    <3>2. i <= p /\ i \in out
      BY <1>1, <2>2, <3>1
    <3>3. EA = [EB EXCEPT ![i] = Deleted] /\ SA = SB + e.amount /\ NA = NB + 1
      BY <1>5, <1>8, <3>2
    <3>4. bm <=> cap # 0 /\ NB + 1 >= cap
      <4>1. ASSUME bm PROVE cap # 0 /\ NB + 1 >= cap
        <5>1. i = p /\ capped
          BY <1>3, <3>2, <4>1
        <5>2. A = out
          BY <1>1, <1>2, <5>1 DEF A, Upto
        <5>3. NA = Card
          BY <5>2 DEF NA, Card
        <5> QED  BY <1>5, <3>3, <5>1, <5>3
      <4>2. ASSUME cap # 0, NB + 1 >= cap PROVE bm
        <5>1. NA = Card /\ Card = cap
          BY <1>5, <1>6, <1>7, <3>3, <4>2
        <5>2. p \in out /\ A = out
          BY <1>1, <1>7, <4>2, <5>1
        <5>3. p <= i
          BY <5>2 DEF A, Upto
        <5> QED  BY <1>3, <3>2, <4>2, <5>1, <5>3
      <4> QED  BY <4>1, <4>2
    <3>5. (IF bm THEN TRUE ELSE FALSE) = (cap # 0 /\ NB + 1 >= cap)
      BY <3>4
    <3>6. /\ l.queue = EB /\ l.released = SB /\ l.steps = NB
          /\ (IF i <= p THEN i ELSE p) = i
      BY <1>9, <3>2
    <3> HIDE DEF bm, bl
    <3>7. m = [queue |-> EA, cursor |-> i, released |-> SA, steps |-> NA,
               stopped |-> IF bm THEN TRUE ELSE FALSE]
      BY <1>9, <3>6
    <3>8. m = [queue |-> [l.queue EXCEPT ![i] = Deleted], cursor |-> i,
               released |-> l.released + l.queue[i].amount, steps |-> l.steps + 1,
               stopped |-> cap # 0 /\ l.steps + 1 >= cap]
      BY <1>11, <3>3, <3>5, <3>6, <3>7
    <3> QED  BY <1>10, <1>11, <2>1, <2>5, <3>8 DEF l, m
  <2> QED  BY <2>3, <2>4, <2>5
<1> QED  BY <1>12, <1>13

\* No entry before the cursor is released.
LEMMA NothingAtTheCursor ==
    ASSUME NEW n \in Nat, NEW c \in 0 .. n, NEW S \in SUBSET (c + 1 .. n)
    PROVE  Upto(S, c) = {} /\ Upto(S, n) = S
<1>1. \A j \in S : ~(j <= c) /\ j <= n
  OBVIOUS
<1> QED  BY <1>1 DEF Upto

\* Emptying nothing changes nothing.
LEMMA EmptyNothing ==
    ASSUME NEW M \in Nat, NEW queue \in Seq(Entries(M))
    PROVE  Emptied(queue, {}) = queue /\ AmountIn(queue, {}) = 0
<1>1. queue = [i \in DOMAIN queue |-> queue[i]]
  OBVIOUS
<1>2. Emptied(queue, {}) = [i \in DOMAIN queue |-> queue[i]]
  BY DEF Emptied
<1> QED  BY <1>1, <1>2, TotalEmpty DEF AmountIn

\* The loop of _matureLockups releases and empties exactly the entries that Matured
\* names and leaves the cursor where it says, for every queue, cursor, time and cap.
LEMMA MatureWalkIsMatured ==
    ASSUME NEW M \in Nat, NEW queue \in Seq(Entries(M)), NEW c \in 0 .. Len(queue),
           NEW time \in Nat, NEW cap \in Nat
    PROVE  MatureWalk(queue, c, time, cap) = Matured(queue, c, time, cap)
<1> DEFINE n     == Len(queue)
           start == [queue |-> queue, cursor |-> c, released |-> 0, steps |-> 0,
                     stopped |-> FALSE]
           g     == [i \in c .. n |-> MaturedUpto(queue, c, time, cap, i)]
           f     == CHOOSE h : MaturesIn(queue, c, time, cap, h)
           out   == Released(queue, c, time, cap)
           p     == CursorAfter(queue, c, time, cap)
<1>1. n \in Nat /\ c \in Nat /\ c <= n /\ c \in c .. n /\ n \in c .. n
  OBVIOUS
<1>2. p \in c .. n /\ p \in Nat /\ (cap # 0 /\ Cardinality(out) = cap => p \in out)
  <2>1. /\ p \in c .. n
        /\ \A i \in out : i <= p
        /\ \A i \in Live(queue, c) : i <= p => i \in out
        /\ cap # 0 /\ Cardinality(out) = cap => p \in out
        /\ ~(cap # 0 /\ Cardinality(out) = cap) => p = n \/ p + 1 \in Frozen(queue, c, time)
    BY CursorStops
  <2> HIDE DEF p, n, out
  <2> QED  BY <1>1, <2>1
<1>3. out \in SUBSET (c + 1 .. n)
  BY WalkSets
<1>4. Upto(out, c) = {} /\ Upto(out, n) = out
  <2> HIDE DEF out, n
  <2> QED  BY <1>1, <1>3, NothingAtTheCursor
<1>5. g[c] = start
  <2>1. g[c] = MaturedUpto(queue, c, time, cap, c)
    BY <1>1
  <2>2. ~(c > p \/ (c = p /\ cap # 0 /\ Cardinality(out) = cap)) /\ c <= p
    <3>1. c \notin out
      BY <1>1, <1>3
    <3> HIDE DEF out, p
    <3> QED  BY <1>1, <1>2, <3>1
  <2>3. Emptied(queue, {}) = queue /\ AmountIn(queue, {}) = 0 /\ Cardinality({}) = 0
    BY EmptyNothing, FS_EmptySet
  <2> DEFINE b == c > p \/ (c = p /\ cap # 0 /\ Cardinality(out) = cap)
  <2>4. MaturedUpto(queue, c, time, cap, c)
            = [queue |-> Emptied(queue, Upto(out, c)), cursor |-> IF c <= p THEN c ELSE p,
               released |-> AmountIn(queue, Upto(out, c)),
               steps |-> Cardinality(Upto(out, c)),
               stopped |-> IF b THEN TRUE ELSE FALSE]
    BY DEF MaturedUpto
  <2> HIDE DEF out, p, b, g
  <2>5. ~b
    BY <2>2 DEF b
  <2> QED  BY <1>4, <2>1, <2>2, <2>3, <2>4, <2>5
<1>6. \A i \in c + 1 .. n : g[i] = MaturePass(g[i - 1], i, time, cap)
  <2> SUFFICES ASSUME NEW i \in c + 1 .. n
               PROVE  g[i] = MaturePass(g[i - 1], i, time, cap)
    OBVIOUS
  <2>1. i \in c .. n /\ i - 1 \in c .. n
    BY <1>1
  <2>2. /\ g[i] = MaturedUpto(queue, c, time, cap, i)
        /\ g[i - 1] = MaturedUpto(queue, c, time, cap, i - 1)
    BY <2>1
  <2> HIDE DEF g
  <2> QED  BY <2>2, MaturePassGoesOn
<1>7. MaturesIn(queue, c, time, cap, g)
  <2>1. \A i \in c .. n : i = c \/ i \in c + 1 .. n
    BY <1>1
  <2>2. \A i \in c .. n : g[i] = IF i = c THEN start ELSE MaturePass(g[i - 1], i, time, cap)
    BY <1>5, <1>6, <2>1
  <2>3. g = [i \in c .. n |-> g[i]]
    OBVIOUS
  <2> HIDE DEF g
  <2>4. g = [i \in c .. n |-> IF i = c THEN start ELSE MaturePass(g[i - 1], i, time, cap)]
    BY <2>2, <2>3
  <2> QED  BY <2>4 DEF MaturesIn
<1>8. MaturesIn(queue, c, time, cap, f)
  <2> HIDE DEF g
  <2> QED  BY <1>7
<1>9. /\ f[c] = start
      /\ \A i \in c + 1 .. n : f[i] = MaturePass(f[i - 1], i, time, cap)
  <2>1. \A i \in c + 1 .. n : i \in c .. n /\ i # c
    BY <1>1
  <2>2. f = [i \in c .. n |-> IF i = c THEN start ELSE MaturePass(f[i - 1], i, time, cap)]
    BY <1>8 DEF MaturesIn
  <2> HIDE DEF f, start
  <2>3. \A i \in c .. n : f[i] = IF i = c THEN start ELSE MaturePass(f[i - 1], i, time, cap)
    BY <2>2
  <2> QED  BY <1>1, <2>1, <2>3
<1>10. f[n] = g[n]
  <2> DEFINE same == {i \in c .. n : f[i] = g[i]}
  <2>1. ASSUME NEW i \in c + 1 .. n, i - 1 \in same PROVE i \in same
    <3>1. i \in c .. n /\ f[i - 1] = g[i - 1]
      BY <1>1, <2>1
    <3> HIDE DEF f, g
    <3> QED  BY <1>6, <1>9, <3>1
  <2>2. c \in same
    BY <1>1, <1>5, <1>9
  <2>3. n \in same
    <3> HIDE DEF same, n
    <3> QED  BY <1>1, <2>1, <2>2, LoopInduction
  <2> QED  BY <2>3
<1>11. MatureWalk(queue, c, time, cap)
        = [queue |-> f[n].queue, cursor |-> f[n].cursor, released |-> f[n].released]
  BY DEF MatureWalk, MaturesIn
<1>12. /\ g[n].queue = Emptied(queue, out) /\ g[n].released = AmountIn(queue, out)
       /\ g[n].cursor = p
  <2>1. g[n] = MaturedUpto(queue, c, time, cap, n)
    BY <1>1
  <2>2. (IF n <= p THEN n ELSE p) = p
    BY <1>1, <1>2
  <2> HIDE DEF g, n, out, p
  <2>3. /\ g[n].queue = Emptied(queue, Upto(out, n))
        /\ g[n].released = AmountIn(queue, Upto(out, n))
        /\ g[n].cursor = IF n <= p THEN n ELSE p
    BY <2>1 DEF MaturedUpto, out, p
  <2> QED  BY <1>4, <2>2, <2>3
<1>13. Matured(queue, c, time, cap)
        = [queue |-> Emptied(queue, out), cursor |-> p, released |-> AmountIn(queue, out)]
  BY DEF Matured
<1> HIDE DEF f, g, out, p
<1> QED  BY <1>10, <1>11, <1>12, <1>13

-----------------------------------------------------------------------------
(* The confiscation *)

\* Where the loop is after entry i: what is frozen up to i is gone.
SeizedUpto(queue, c, time, i) ==
    LET upto == Upto(Frozen(queue, c, time), i)
    IN  [queue |-> Emptied(queue, upto), amount |-> AmountIn(queue, upto)]

\* One pass takes the loop from where it is after entry i - 1 to where it is after
\* entry i.
LEMMA SeizePassGoesOn ==
    ASSUME NEW M \in Nat, NEW queue \in Seq(Entries(M)), NEW c \in 0 .. Len(queue),
           NEW time \in Nat, NEW i \in c + 1 .. Len(queue)
    PROVE  SeizedUpto(queue, c, time, i) = SeizePass(SeizedUpto(queue, c, time, i - 1), i, time)
<1> DEFINE F  == Frozen(queue, c, time)
           A  == Upto(F, i)
           B  == Upto(F, i - 1)
           EA == Emptied(queue, A)
           EB == Emptied(queue, B)
           SA == AmountIn(queue, A)
           SB == AmountIn(queue, B)
           e  == queue[i]
           l  == SeizedUpto(queue, c, time, i - 1)
           m  == SeizedUpto(queue, c, time, i)
<1>1. i \in 1 .. Len(queue) /\ F \in SUBSET (1 .. Len(queue))
  BY DEF Frozen, Live
<1>2. i \in F <=> ~(e.amount = 0 \/ e.unlockAt <= time)
  <2>1. e.amount \in Nat /\ e.unlockAt \in Nat
    BY <1>1, EntryType
  <2> QED  BY <2>1 DEF Frozen, Live
<1> HIDE DEF F
<1>3. /\ i \notin B
      /\ B \in SUBSET (1 .. Len(queue))
      /\ i \notin F => A = B
      /\ i \in F => A = B \cup {i} /\ SA = SB + e.amount
  <2> HIDE DEF A, B, SA, SB, e
  <2>1. GrowsBy(queue, F, i)
    BY <1>1, OneMore
  <2> QED  BY <2>1 DEF GrowsBy, A, B, SA, SB, e
<1>4. /\ l = [queue |-> EB, amount |-> SB]
      /\ m = [queue |-> EA, amount |-> SA]
  BY DEF SeizedUpto, F
<1>5. EB[i] = e /\ (i \in F => EA = [EB EXCEPT ![i] = Deleted])
  <2>1. EB[i] = e
    <3> HIDE DEF B
    <3> QED  BY <1>1, <1>3, EmptiedIsAQueue
  <2>2. Emptied(queue, B \cup {i}) = [EB EXCEPT ![i] = Deleted]
    <3> HIDE DEF B
    <3> QED  BY <1>1, EmptyOneMore
  <2> HIDE DEF A, B
  <2> QED  BY <1>3, <2>1, <2>2
<1>6. SeizePass(l, i, time)
        = IF l.queue[i].amount = 0 \/ l.queue[i].unlockAt <= time THEN l
          ELSE [queue |-> [l.queue EXCEPT ![i] = Deleted], amount |-> l.amount + l.queue[i].amount]
  BY DEF SeizePass
<1>7. i \notin F => EA = EB /\ SA = SB
  BY <1>3
<1> HIDE DEF A, B, EA, EB, SA, SB, l, m, e
<1>8. l.queue = EB /\ l.queue[i] = e /\ l.amount = SB
  BY <1>4, <1>5
<1>9. CASE i \in F
  BY <1>2, <1>3, <1>4, <1>5, <1>6, <1>8, <1>9 DEF l, m
<1>10. CASE i \notin F
  BY <1>2, <1>4, <1>6, <1>7, <1>8, <1>10 DEF l, m
<1> QED  BY <1>9, <1>10

\* The loop of confiscateFrozenEarnings, from the cursor to the end of the queue.
SeizesIn(queue, c, time, g) ==
    g = [i \in c .. Len(queue) |->
            IF i = c THEN [queue |-> queue, amount |-> 0]
            ELSE SeizePass(g[i - 1], i, time)]

\* The loop of confiscateFrozenEarnings takes exactly the frozen entries, for every
\* queue, cursor and time.
LEMMA SeizeWalkIsSeized ==
    ASSUME NEW M \in Nat, NEW queue \in Seq(Entries(M)), NEW c \in 0 .. Len(queue),
           NEW time \in Nat
    PROVE  SeizeWalk(queue, c, time) = Seized(queue, c, time)
<1> DEFINE n     == Len(queue)
           start == [queue |-> queue, amount |-> 0]
           g     == [i \in c .. n |-> SeizedUpto(queue, c, time, i)]
           f     == CHOOSE h : SeizesIn(queue, c, time, h)
<1>1. n \in Nat /\ c \in Nat /\ c <= n /\ c \in c .. n /\ n \in c .. n
  OBVIOUS
<1>2. Frozen(queue, c, time) \in SUBSET (c + 1 .. n)
  BY DEF Frozen, Live
<1>3. Upto(Frozen(queue, c, time), c) = {} /\ Upto(Frozen(queue, c, time), n) = Frozen(queue, c, time)
  <2> HIDE DEF n
  <2> QED  BY <1>1, <1>2, NothingAtTheCursor
<1>4. Emptied(queue, {}) = queue /\ AmountIn(queue, {}) = 0
  BY EmptyNothing
<1>5. g[c] = start
  <2>1. g[c] = SeizedUpto(queue, c, time, c)
    BY <1>1
  <2> HIDE DEF g
  <2> QED  BY <1>3, <1>4, <2>1 DEF SeizedUpto
<1>6. \A i \in c + 1 .. n : g[i] = SeizePass(g[i - 1], i, time)
  <2> SUFFICES ASSUME NEW i \in c + 1 .. n
               PROVE  g[i] = SeizePass(g[i - 1], i, time)
    OBVIOUS
  <2>1. i \in c .. n /\ i - 1 \in c .. n
    BY <1>1
  <2>2. /\ g[i] = SeizedUpto(queue, c, time, i)
        /\ g[i - 1] = SeizedUpto(queue, c, time, i - 1)
    BY <2>1
  <2> HIDE DEF g
  <2> QED  BY <2>2, SeizePassGoesOn
<1>7. SeizesIn(queue, c, time, g)
  <2>1. \A i \in c .. n : i = c \/ i \in c + 1 .. n
    BY <1>1
  <2>2. \A i \in c .. n : g[i] = IF i = c THEN start ELSE SeizePass(g[i - 1], i, time)
    BY <1>5, <1>6, <2>1
  <2>3. g = [i \in c .. n |-> g[i]]
    OBVIOUS
  <2> HIDE DEF g
  <2>4. g = [i \in c .. n |-> IF i = c THEN start ELSE SeizePass(g[i - 1], i, time)]
    BY <2>2, <2>3
  <2> QED  BY <2>4 DEF SeizesIn
<1>8. SeizesIn(queue, c, time, f)
  <2> HIDE DEF g
  <2> QED  BY <1>7
<1>9. /\ f[c] = start
      /\ \A i \in c + 1 .. n : f[i] = SeizePass(f[i - 1], i, time)
  <2>1. \A i \in c + 1 .. n : i \in c .. n /\ i # c
    BY <1>1
  <2>2. f = [i \in c .. n |-> IF i = c THEN start ELSE SeizePass(f[i - 1], i, time)]
    BY <1>8 DEF SeizesIn
  <2> HIDE DEF f, start
  <2>3. \A i \in c .. n : f[i] = IF i = c THEN start ELSE SeizePass(f[i - 1], i, time)
    BY <2>2
  <2> QED  BY <1>1, <2>1, <2>3
<1>10. f[n] = g[n]
  <2> DEFINE same == {i \in c .. n : f[i] = g[i]}
  <2>1. ASSUME NEW i \in c + 1 .. n, i - 1 \in same PROVE i \in same
    <3>1. i \in c .. n /\ f[i - 1] = g[i - 1]
      BY <1>1, <2>1
    <3> HIDE DEF f, g
    <3> QED  BY <1>6, <1>9, <3>1
  <2>2. c \in same
    BY <1>1, <1>5, <1>9
  <2>3. n \in same
    <3> HIDE DEF same, n
    <3> QED  BY <1>1, <2>1, <2>2, LoopInduction
  <2> QED  BY <2>3
<1>11. SeizeWalk(queue, c, time) = f[n]
  BY DEF SeizeWalk, SeizesIn
<1>12. g[n] = SeizedUpto(queue, c, time, n)
  BY <1>1
<1> HIDE DEF f, g
<1> QED  BY <1>3, <1>10, <1>11, <1>12 DEF SeizedUpto, Seized

-----------------------------------------------------------------------------
(* The views *)

\* Whether a frozen entry is among the entries up to i.
BlockedUpto(queue, c, time, i) == \E j \in Frozen(queue, c, time) : j <= i

\* A frozen entry blocks everything behind it, and nothing else does.
LEMMA OneMoreBlocks ==
    ASSUME NEW M \in Nat, NEW queue \in Seq(Entries(M)), NEW c \in 0 .. Len(queue),
           NEW time \in Nat, NEW i \in c + 1 .. Len(queue)
    PROVE  /\ BlockedUpto(queue, c, time, i)
                <=> \/ BlockedUpto(queue, c, time, i - 1)
                    \/ queue[i].amount # 0 /\ queue[i].unlockAt > time
           /\ i \in Releasable(queue, c, time)
                <=> queue[i].amount # 0 /\ ~BlockedUpto(queue, c, time, i)
           /\ i \in Live(queue, c) \ Releasable(queue, c, time)
                <=> queue[i].amount # 0 /\ BlockedUpto(queue, c, time, i)
           /\ ~BlockedUpto(queue, c, time, c)
<1> DEFINE F == Frozen(queue, c, time)
           L == Live(queue, c)
           R == Releasable(queue, c, time)
<1>1. i \in 1 .. Len(queue) /\ i \in Nat /\ c \in Nat
  OBVIOUS
<1>2. queue[i].amount \in Nat /\ queue[i].unlockAt \in Nat
  BY <1>1, EntryType
<1>3. /\ i \in L <=> queue[i].amount # 0
      /\ i \in F <=> queue[i].amount # 0 /\ queue[i].unlockAt > time
      /\ \A j \in F : j \in c + 1 .. Len(queue)
  BY <1>2 DEF Live, Frozen
<1>4. \A j \in F : j \in Nat /\ ~(j <= c)
  BY <1>1, <1>3
<1>5. i \in R <=> i \in L /\ \A j \in F : i < j
  BY DEF Releasable
<1>6. \A k : BlockedUpto(queue, c, time, k) <=> \E j \in F : j <= k
  BY DEF BlockedUpto
<1> HIDE DEF F, L, R
<1>7. BlockedUpto(queue, c, time, i) <=> BlockedUpto(queue, c, time, i - 1) \/ i \in F
  <2>1. \A j \in F : j <= i <=> j <= i - 1 \/ j = i
    BY <1>1, <1>4
  <2> QED  BY <1>6, <2>1
<1>8. i \in R <=> i \in L /\ ~BlockedUpto(queue, c, time, i)
  <2>1. \A j \in F : i < j <=> ~(j <= i)
    BY <1>1, <1>4
  <2> QED  BY <1>5, <1>6, <2>1
<1>9. ~BlockedUpto(queue, c, time, c)
  BY <1>4, <1>6
<1> QED  BY <1>3, <1>7, <1>8, <1>9 DEF F, L, R

\* Where the loop of getWithdrawableEarnings is after entry i: it has counted what may
\* be released up to i, and stopped if it has met a frozen entry.
WithdrawableUpto(queue, c, time, i) ==
    [amount |-> AmountIn(queue, Upto(Releasable(queue, c, time), i)),
     stopped |-> IF BlockedUpto(queue, c, time, i) THEN TRUE ELSE FALSE]

\* One pass takes the loop from where it is after entry i - 1 to where it is after
\* entry i.
LEMMA WithdrawablePassGoesOn ==
    ASSUME NEW M \in Nat, NEW queue \in Seq(Entries(M)), NEW c \in 0 .. Len(queue),
           NEW time \in Nat, NEW i \in c + 1 .. Len(queue)
    PROVE  WithdrawableUpto(queue, c, time, i)
            = WithdrawablePass(WithdrawableUpto(queue, c, time, i - 1), queue[i], time)
<1> DEFINE S  == Releasable(queue, c, time)
           bA == BlockedUpto(queue, c, time, i)
           bB == BlockedUpto(queue, c, time, i - 1)
           SA == AmountIn(queue, Upto(S, i))
           SB == AmountIn(queue, Upto(S, i - 1))
           e  == queue[i]
           l  == WithdrawableUpto(queue, c, time, i - 1)
           m  == WithdrawableUpto(queue, c, time, i)
<1>1. i \in 1 .. Len(queue) /\ S \in SUBSET (1 .. Len(queue))
  BY DEF Releasable, Live
<1>2. /\ bA <=> bB \/ (e.amount # 0 /\ e.unlockAt > time)
      /\ i \in S <=> e.amount # 0 /\ ~bA
  BY OneMoreBlocks
<1>3. /\ l = [amount |-> SB, stopped |-> IF bB THEN TRUE ELSE FALSE]
      /\ m = [amount |-> SA, stopped |-> IF bA THEN TRUE ELSE FALSE]
  BY DEF WithdrawableUpto
<1> HIDE DEF S
<1>4. /\ i \notin S => SA = SB
      /\ i \in S => SA = SB + e.amount
      /\ SA \in Nat /\ SB \in Nat /\ e.amount \in Nat
  <2> HIDE DEF SA, SB
  <2>1. GrowsBy(queue, S, i)
    BY <1>1, OneMore
  <2>2. e.amount \in Nat
    BY <1>1, EntryType
  <2> QED  BY <2>1, <2>2 DEF GrowsBy, SA, SB, e
<1> HIDE DEF SA, SB, bA, bB, e, l, m
<1>5. WithdrawablePass(l, e, time)
        = IF l.stopped \/ e.amount = 0 THEN l
          ELSE IF e.unlockAt > time THEN [l EXCEPT !.stopped = TRUE]
          ELSE [l EXCEPT !.amount = @ + e.amount]
  BY DEF WithdrawablePass
<1>6. l.stopped <=> bB
  BY <1>3
<1>7. CASE bB \/ e.amount = 0
  <2>1. m = l
    BY <1>2, <1>3, <1>4, <1>7
  <2> QED  BY <1>5, <1>6, <1>7, <2>1 DEF l, m, e
<1>8. CASE ~bB /\ e.amount # 0 /\ e.unlockAt > time
  <2> DEFINE no  == FALSE
             yes == TRUE
  <2>1. l = [amount |-> SB, stopped |-> no] /\ m = [amount |-> SB, stopped |-> yes]
    BY <1>2, <1>3, <1>4, <1>8
  <2> HIDE DEF no, yes
  <2>2. [[amount |-> SB, stopped |-> no] EXCEPT !.stopped = yes]
            = [amount |-> SB, stopped |-> yes]
    OBVIOUS
  <2>3. m = [l EXCEPT !.stopped = yes]
    BY <2>1, <2>2
  <2> QED  BY <1>5, <1>6, <1>8, <2>3 DEF l, m, e, yes
<1>9. CASE ~bB /\ e.amount # 0 /\ ~(e.unlockAt > time)
  <2> DEFINE no  == FALSE
             sum == SB + e.amount
  <2>1. l = [amount |-> SB, stopped |-> no] /\ m = [amount |-> sum, stopped |-> no]
    BY <1>2, <1>3, <1>4, <1>9
  <2>2. l.amount + e.amount = sum
    BY <2>1
  <2> HIDE DEF no, sum
  <2>3. [[amount |-> SB, stopped |-> no] EXCEPT !.amount = sum]
            = [amount |-> sum, stopped |-> no]
    OBVIOUS
  <2>4. m = [l EXCEPT !.amount = sum]
    BY <2>1, <2>3
  <2>5. m = [l EXCEPT !.amount = @ + e.amount]
    BY <2>2, <2>4
  <2> QED  BY <1>5, <1>6, <1>9, <2>5 DEF l, m, e
<1> QED  BY <1>7, <1>8, <1>9

\* The loop of getWithdrawableEarnings, from the cursor to the end of the queue.
CountsWithdrawableIn(queue, c, time, g) ==
    g = [i \in c .. Len(queue) |->
            IF i = c THEN [amount |-> 0, stopped |-> FALSE]
            ELSE WithdrawablePass(g[i - 1], queue[i], time)]

\* getWithdrawableEarnings counts exactly what may be released.
LEMMA WithdrawableWalkIsWithdrawable ==
    ASSUME NEW M \in Nat, NEW queue \in Seq(Entries(M)), NEW c \in 0 .. Len(queue),
           NEW time \in Nat
    PROVE  WithdrawableWalk(queue, c, time) = WithdrawableIn(queue, c, time)
<1> DEFINE n     == Len(queue)
           start == [amount |-> 0, stopped |-> FALSE]
           g     == [i \in c .. n |-> WithdrawableUpto(queue, c, time, i)]
           f     == CHOOSE h : CountsWithdrawableIn(queue, c, time, h)
<1>1. n \in Nat /\ c \in Nat /\ c <= n /\ c \in c .. n /\ n \in c .. n
  OBVIOUS
<1> DEFINE S == Releasable(queue, c, time)
<1>2. S \in SUBSET (c + 1 .. n)
  BY DEF Releasable, Live
<1>3. Upto(S, c) = {} /\ Upto(S, n) = S
  <2> HIDE DEF n, S
  <2> QED  BY <1>1, <1>2, NothingAtTheCursor
<1>4. AmountIn(queue, {}) = 0 /\ ~BlockedUpto(queue, c, time, c)
  <2>1. \A j \in Frozen(queue, c, time) : ~(j <= c)
    BY <1>1 DEF Frozen, Live
  <2> QED  BY <2>1, EmptyNothing DEF BlockedUpto
<1>5. g[c] = start
  <2>1. g[c] = WithdrawableUpto(queue, c, time, c)
    BY <1>1
  <2>2. WithdrawableUpto(queue, c, time, c)
        = [amount |-> AmountIn(queue, Upto(S, c)),
           stopped |-> IF BlockedUpto(queue, c, time, c) THEN TRUE ELSE FALSE]
    BY DEF WithdrawableUpto
  <2> HIDE DEF g, S
  <2> QED  BY <1>3, <1>4, <2>1, <2>2
<1>6. \A i \in c + 1 .. n : g[i] = WithdrawablePass(g[i - 1], queue[i], time)
  <2> SUFFICES ASSUME NEW i \in c + 1 .. n
               PROVE  g[i] = WithdrawablePass(g[i - 1], queue[i], time)
    OBVIOUS
  <2>1. i \in c .. n /\ i - 1 \in c .. n
    BY <1>1
  <2>2. /\ g[i] = WithdrawableUpto(queue, c, time, i)
        /\ g[i - 1] = WithdrawableUpto(queue, c, time, i - 1)
    BY <2>1
  <2> HIDE DEF g
  <2> QED  BY <2>2, WithdrawablePassGoesOn
<1>7. CountsWithdrawableIn(queue, c, time, g)
  <2>1. \A i \in c .. n : i = c \/ i \in c + 1 .. n
    BY <1>1
  <2>2. \A i \in c .. n : g[i] = IF i = c THEN start ELSE WithdrawablePass(g[i - 1], queue[i], time)
    BY <1>5, <1>6, <2>1
  <2>3. g = [i \in c .. n |-> g[i]]
    OBVIOUS
  <2> HIDE DEF g
  <2>4. g = [i \in c .. n |-> IF i = c THEN start ELSE WithdrawablePass(g[i - 1], queue[i], time)]
    BY <2>2, <2>3
  <2> QED  BY <2>4 DEF CountsWithdrawableIn
<1>8. CountsWithdrawableIn(queue, c, time, f)
  <2> HIDE DEF g
  <2> QED  BY <1>7
<1>9. /\ f[c] = start
      /\ \A i \in c + 1 .. n : f[i] = WithdrawablePass(f[i - 1], queue[i], time)
  <2>1. \A i \in c + 1 .. n : i \in c .. n /\ i # c
    BY <1>1
  <2>2. f = [i \in c .. n |-> IF i = c THEN start ELSE WithdrawablePass(f[i - 1], queue[i], time)]
    BY <1>8 DEF CountsWithdrawableIn
  <2> HIDE DEF f, start
  <2>3. \A i \in c .. n : f[i] = IF i = c THEN start ELSE WithdrawablePass(f[i - 1], queue[i], time)
    BY <2>2
  <2> QED  BY <1>1, <2>1, <2>3
<1>10. f[n] = g[n]
  <2> DEFINE same == {i \in c .. n : f[i] = g[i]}
  <2>1. ASSUME NEW i \in c + 1 .. n, i - 1 \in same PROVE i \in same
    <3>1. i \in c .. n /\ f[i - 1] = g[i - 1]
      BY <1>1, <2>1
    <3> HIDE DEF f, g
    <3> QED  BY <1>6, <1>9, <3>1
  <2>2. c \in same
    BY <1>1, <1>5, <1>9
  <2>3. n \in same
    <3> HIDE DEF same, n
    <3> QED  BY <1>1, <2>1, <2>2, LoopInduction
  <2> QED  BY <2>3
<1>11. WithdrawableWalk(queue, c, time) = f[n].amount
  BY DEF WithdrawableWalk, CountsWithdrawableIn
<1>12. g[n].amount = AmountIn(queue, Upto(S, n))
  BY <1>1 DEF WithdrawableUpto
<1> HIDE DEF f, g
<1> QED  BY <1>3, <1>10, <1>11, <1>12 DEF WithdrawableIn

\* Where the loop of getFrozenEarnings is after entry i: it has counted what may not be
\* released up to i, and knows whether it has met a frozen entry.
FrozenUpto(queue, c, time, i) ==
    [amount |-> AmountIn(queue, Upto(Live(queue, c) \ Releasable(queue, c, time), i)),
     blocked |-> IF BlockedUpto(queue, c, time, i) THEN TRUE ELSE FALSE]

\* One pass takes the loop from where it is after entry i - 1 to where it is after
\* entry i.
LEMMA FrozenPassGoesOn ==
    ASSUME NEW M \in Nat, NEW queue \in Seq(Entries(M)), NEW c \in 0 .. Len(queue),
           NEW time \in Nat, NEW i \in c + 1 .. Len(queue)
    PROVE  FrozenUpto(queue, c, time, i)
            = FrozenPass(FrozenUpto(queue, c, time, i - 1), queue[i], time)
<1> DEFINE S  == Live(queue, c) \ Releasable(queue, c, time)
           bA == BlockedUpto(queue, c, time, i)
           bB == BlockedUpto(queue, c, time, i - 1)
           SA == AmountIn(queue, Upto(S, i))
           SB == AmountIn(queue, Upto(S, i - 1))
           e  == queue[i]
           l  == FrozenUpto(queue, c, time, i - 1)
           m  == FrozenUpto(queue, c, time, i)
<1>1. i \in 1 .. Len(queue) /\ S \in SUBSET (1 .. Len(queue))
  BY DEF Releasable, Live
<1>2. /\ bA <=> bB \/ (e.amount # 0 /\ e.unlockAt > time)
      /\ i \in S <=> e.amount # 0 /\ bA
  BY OneMoreBlocks
<1>3. /\ l = [amount |-> SB, blocked |-> IF bB THEN TRUE ELSE FALSE]
      /\ m = [amount |-> SA, blocked |-> IF bA THEN TRUE ELSE FALSE]
  BY DEF FrozenUpto
<1> HIDE DEF S
<1>4. /\ i \notin S => SA = SB
      /\ i \in S => SA = SB + e.amount
      /\ SA \in Nat /\ SB \in Nat /\ e.amount \in Nat
  <2> HIDE DEF SA, SB
  <2>1. GrowsBy(queue, S, i)
    BY <1>1, OneMore
  <2>2. e.amount \in Nat
    BY <1>1, EntryType
  <2> QED  BY <2>1, <2>2 DEF GrowsBy, SA, SB, e
<1> HIDE DEF SA, SB, bA, bB, e, l, m
<1>5. FrozenPass(l, e, time)
        = IF e.amount = 0 THEN l
          ELSE [amount |-> l.amount + IF l.blocked \/ e.unlockAt > time THEN e.amount ELSE 0,
                blocked |-> l.blocked \/ e.unlockAt > time]
  BY DEF FrozenPass
<1>6. (l.blocked <=> bB) /\ l.amount = SB
  BY <1>3
<1>7. CASE e.amount = 0
  <2>1. m = l
    BY <1>2, <1>3, <1>4, <1>7
  <2> QED  BY <1>5, <1>7, <2>1 DEF l, m, e
<1>8. CASE e.amount # 0
  <2>1. SA = SB + IF l.blocked \/ e.unlockAt > time THEN e.amount ELSE 0
    BY <1>2, <1>4, <1>6, <1>8
  <2>2. (IF bA THEN TRUE ELSE FALSE) = (l.blocked \/ e.unlockAt > time)
    BY <1>2, <1>6, <1>8
  <2> QED  BY <1>3, <1>5, <1>6, <1>8, <2>1, <2>2 DEF l, m, e
<1> QED  BY <1>7, <1>8

\* The loop of getFrozenEarnings, from the cursor to the end of the queue.
CountsFrozenIn(queue, c, time, g) ==
    g = [i \in c .. Len(queue) |->
            IF i = c THEN [amount |-> 0, blocked |-> FALSE]
            ELSE FrozenPass(g[i - 1], queue[i], time)]

\* getFrozenEarnings counts exactly what may not be released.
LEMMA FrozenWalkIsFrozen ==
    ASSUME NEW M \in Nat, NEW queue \in Seq(Entries(M)), NEW c \in 0 .. Len(queue),
           NEW time \in Nat
    PROVE  FrozenWalk(queue, c, time) = FrozenIn(queue, c, time)
<1> DEFINE n     == Len(queue)
           start == [amount |-> 0, blocked |-> FALSE]
           g     == [i \in c .. n |-> FrozenUpto(queue, c, time, i)]
           f     == CHOOSE h : CountsFrozenIn(queue, c, time, h)
<1>1. n \in Nat /\ c \in Nat /\ c <= n /\ c \in c .. n /\ n \in c .. n
  OBVIOUS
<1> DEFINE S == Live(queue, c) \ Releasable(queue, c, time)
<1>2. S \in SUBSET (c + 1 .. n)
  BY DEF Releasable, Live
<1>3. Upto(S, c) = {} /\ Upto(S, n) = S
  <2> HIDE DEF n, S
  <2> QED  BY <1>1, <1>2, NothingAtTheCursor
<1>4. AmountIn(queue, {}) = 0 /\ ~BlockedUpto(queue, c, time, c)
  <2>1. \A j \in Frozen(queue, c, time) : ~(j <= c)
    BY <1>1 DEF Frozen, Live
  <2> QED  BY <2>1, EmptyNothing DEF BlockedUpto
<1>5. g[c] = start
  <2>1. g[c] = FrozenUpto(queue, c, time, c)
    BY <1>1
  <2>2. FrozenUpto(queue, c, time, c)
        = [amount |-> AmountIn(queue, Upto(S, c)),
           blocked |-> IF BlockedUpto(queue, c, time, c) THEN TRUE ELSE FALSE]
    BY DEF FrozenUpto
  <2> HIDE DEF g, S
  <2> QED  BY <1>3, <1>4, <2>1, <2>2
<1>6. \A i \in c + 1 .. n : g[i] = FrozenPass(g[i - 1], queue[i], time)
  <2> SUFFICES ASSUME NEW i \in c + 1 .. n
               PROVE  g[i] = FrozenPass(g[i - 1], queue[i], time)
    OBVIOUS
  <2>1. i \in c .. n /\ i - 1 \in c .. n
    BY <1>1
  <2>2. /\ g[i] = FrozenUpto(queue, c, time, i)
        /\ g[i - 1] = FrozenUpto(queue, c, time, i - 1)
    BY <2>1
  <2> HIDE DEF g
  <2> QED  BY <2>2, FrozenPassGoesOn
<1>7. CountsFrozenIn(queue, c, time, g)
  <2>1. \A i \in c .. n : i = c \/ i \in c + 1 .. n
    BY <1>1
  <2>2. \A i \in c .. n : g[i] = IF i = c THEN start ELSE FrozenPass(g[i - 1], queue[i], time)
    BY <1>5, <1>6, <2>1
  <2>3. g = [i \in c .. n |-> g[i]]
    OBVIOUS
  <2> HIDE DEF g
  <2>4. g = [i \in c .. n |-> IF i = c THEN start ELSE FrozenPass(g[i - 1], queue[i], time)]
    BY <2>2, <2>3
  <2> QED  BY <2>4 DEF CountsFrozenIn
<1>8. CountsFrozenIn(queue, c, time, f)
  <2> HIDE DEF g
  <2> QED  BY <1>7
<1>9. /\ f[c] = start
      /\ \A i \in c + 1 .. n : f[i] = FrozenPass(f[i - 1], queue[i], time)
  <2>1. \A i \in c + 1 .. n : i \in c .. n /\ i # c
    BY <1>1
  <2>2. f = [i \in c .. n |-> IF i = c THEN start ELSE FrozenPass(f[i - 1], queue[i], time)]
    BY <1>8 DEF CountsFrozenIn
  <2> HIDE DEF f, start
  <2>3. \A i \in c .. n : f[i] = IF i = c THEN start ELSE FrozenPass(f[i - 1], queue[i], time)
    BY <2>2
  <2> QED  BY <1>1, <2>1, <2>3
<1>10. f[n] = g[n]
  <2> DEFINE same == {i \in c .. n : f[i] = g[i]}
  <2>1. ASSUME NEW i \in c + 1 .. n, i - 1 \in same PROVE i \in same
    <3>1. i \in c .. n /\ f[i - 1] = g[i - 1]
      BY <1>1, <2>1
    <3> HIDE DEF f, g
    <3> QED  BY <1>6, <1>9, <3>1
  <2>2. c \in same
    BY <1>1, <1>5, <1>9
  <2>3. n \in same
    <3> HIDE DEF same, n
    <3> QED  BY <1>1, <2>1, <2>2, LoopInduction
  <2> QED  BY <2>3
<1>11. FrozenWalk(queue, c, time) = f[n].amount
  BY DEF FrozenWalk, CountsFrozenIn
<1>12. g[n].amount = AmountIn(queue, Upto(S, n))
  BY <1>1 DEF FrozenUpto
<1> HIDE DEF f, g
<1> QED  BY <1>3, <1>10, <1>11, <1>12 DEF FrozenIn

\* Where the loop of getTotalEarnings is after entry i.
TotalUpto(queue, c, i) == AmountIn(queue, Upto(c + 1 .. Len(queue), i))

\* One pass takes the loop from where it is after entry i - 1 to where it is after
\* entry i.
LEMMA TotalPassGoesOn ==
    ASSUME NEW M \in Nat, NEW queue \in Seq(Entries(M)), NEW c \in 0 .. Len(queue),
           NEW i \in c + 1 .. Len(queue)
    PROVE  TotalUpto(queue, c, i) = TotalUpto(queue, c, i - 1) + queue[i].amount
<1> DEFINE S == c + 1 .. Len(queue)
<1>1. i \in 1 .. Len(queue) /\ S \in SUBSET (1 .. Len(queue)) /\ i \in S
  OBVIOUS
<1> HIDE DEF S
<1>2. GrowsBy(queue, S, i)
  BY <1>1, OneMore
<1> QED  BY <1>1, <1>2 DEF GrowsBy, TotalUpto, S

\* The loop of getTotalEarnings, from the cursor to the end of the queue.
CountsAllIn(queue, c, g) ==
    g = [i \in c .. Len(queue) |->
            IF i = c THEN 0
            ELSE g[i - 1] + queue[i].amount]

\* getTotalEarnings counts everything at or after the cursor.
LEMMA TotalWalkIsTotal ==
    ASSUME NEW M \in Nat, NEW queue \in Seq(Entries(M)), NEW c \in 0 .. Len(queue)
    PROVE  TotalWalk(queue, c) = TotalIn(queue, c)
<1> DEFINE n     == Len(queue)
           start == 0
           g     == [i \in c .. n |-> TotalUpto(queue, c, i)]
           f     == CHOOSE h : CountsAllIn(queue, c, h)
<1>1. n \in Nat /\ c \in Nat /\ c <= n /\ c \in c .. n /\ n \in c .. n
  OBVIOUS
<1> DEFINE S == c + 1 .. n
<1>2. S \in SUBSET (c + 1 .. n)
  OBVIOUS
<1>3. Upto(S, c) = {} /\ Upto(S, n) = S
  <2> HIDE DEF n, S
  <2> QED  BY <1>1, <1>2, NothingAtTheCursor DEF S
<1>5. g[c] = start
  <2>1. g[c] = AmountIn(queue, Upto(S, c))
    BY <1>1 DEF TotalUpto
  <2> HIDE DEF g, S
  <2> QED  BY <1>3, <2>1, EmptyNothing
<1>6. \A i \in c + 1 .. n : g[i] = g[i - 1] + queue[i].amount
  <2> SUFFICES ASSUME NEW i \in c + 1 .. n
               PROVE  g[i] = g[i - 1] + queue[i].amount
    OBVIOUS
  <2>1. i \in c .. n /\ i - 1 \in c .. n
    BY <1>1
  <2>2. /\ g[i] = TotalUpto(queue, c, i)
        /\ g[i - 1] = TotalUpto(queue, c, i - 1)
    BY <2>1
  <2> HIDE DEF g
  <2> QED  BY <2>2, TotalPassGoesOn
<1>7. CountsAllIn(queue, c, g)
  <2>1. \A i \in c .. n : i = c \/ i \in c + 1 .. n
    BY <1>1
  <2>2. \A i \in c .. n : g[i] = IF i = c THEN start ELSE g[i - 1] + queue[i].amount
    BY <1>5, <1>6, <2>1
  <2>3. g = [i \in c .. n |-> g[i]]
    OBVIOUS
  <2> HIDE DEF g
  <2>4. g = [i \in c .. n |-> IF i = c THEN start ELSE g[i - 1] + queue[i].amount]
    BY <2>2, <2>3
  <2> QED  BY <2>4 DEF CountsAllIn
<1>8. CountsAllIn(queue, c, f)
  <2> HIDE DEF g
  <2> QED  BY <1>7
<1>9. /\ f[c] = start
      /\ \A i \in c + 1 .. n : f[i] = f[i - 1] + queue[i].amount
  <2>1. \A i \in c + 1 .. n : i \in c .. n /\ i # c
    BY <1>1
  <2>2. f = [i \in c .. n |-> IF i = c THEN start ELSE f[i - 1] + queue[i].amount]
    BY <1>8 DEF CountsAllIn
  <2> HIDE DEF f, start
  <2>3. \A i \in c .. n : f[i] = IF i = c THEN start ELSE f[i - 1] + queue[i].amount
    BY <2>2
  <2> QED  BY <1>1, <2>1, <2>3
<1>10. f[n] = g[n]
  <2> DEFINE same == {i \in c .. n : f[i] = g[i]}
  <2>1. ASSUME NEW i \in c + 1 .. n, i - 1 \in same PROVE i \in same
    <3>1. i \in c .. n /\ f[i - 1] = g[i - 1]
      BY <1>1, <2>1
    <3> HIDE DEF f, g
    <3> QED  BY <1>6, <1>9, <3>1
  <2>2. c \in same
    BY <1>1, <1>5, <1>9
  <2>3. n \in same
    <3> HIDE DEF same, n
    <3> QED  BY <1>1, <2>1, <2>2, LoopInduction
  <2> QED  BY <2>3
<1>11. TotalWalk(queue, c) = f[n]
  BY DEF TotalWalk, CountsAllIn
<1>12. g[n] = AmountIn(queue, Upto(S, n))
  BY <1>1 DEF TotalUpto
<1> HIDE DEF f, g
<1> QED  BY <1>3, <1>10, <1>11, <1>12 DEF TotalIn

-----------------------------------------------------------------------------
(* What the views and the chunks promise *)

\* What may be released and what may not is all there is.
LEMMA ViewsAddUp ==
    ASSUME NEW M \in Nat, NEW queue \in Seq(Entries(M)), NEW c \in 0 .. Len(queue),
           NEW time \in Nat
    PROVE  /\ TotalIn(queue, c) = WithdrawableIn(queue, c, time) + FrozenIn(queue, c, time)
           /\ TotalIn(queue, c) \in Nat
           /\ WithdrawableIn(queue, c, time) \in Nat /\ FrozenIn(queue, c, time) \in Nat
<1> DEFINE tail == c + 1 .. Len(queue)
           L    == Live(queue, c)
           R    == Releasable(queue, c, time)
<1>1. /\ L \in SUBSET tail /\ tail \in SUBSET (1 .. Len(queue))
      /\ R \in SUBSET L
  BY DEF Live, Releasable
<1>2. \A i \in tail \ L : queue[i].amount = 0
  <2>1. \A i \in tail : queue[i].amount \in Nat
    BY <1>1, EntryType
  <2> QED  BY <2>1 DEF Live
<1>3. AmountIn(queue, tail \ L) = 0
  <2> DEFINE S == tail \ L
             f == [i \in S |-> queue[i].amount]
  <2>1. \A i \in S : f[i] = 0
    BY <1>2
  <2>2. AmountIn(queue, S) = Total(f, S)
    BY DEF AmountIn
  <2> HIDE DEF S, f
  <2>3. AmountIn(queue, S) = 0
    BY <2>1, <2>2, TotalZero
  <2> QED  BY <2>3 DEF S
<1>4. /\ TotalIn(queue, c) = AmountIn(queue, tail)
      /\ WithdrawableIn(queue, c, time) = AmountIn(queue, R)
      /\ FrozenIn(queue, c, time) = AmountIn(queue, L \ R)
  BY DEF TotalIn, WithdrawableIn, FrozenIn
<1> HIDE DEF tail, L, R
<1>5. /\ AmountIn(queue, L) <= AmountIn(queue, tail)
      /\ AmountIn(queue, tail) = AmountIn(queue, L) + AmountIn(queue, tail \ L)
  <2>1. tail \in SUBSET (1 .. Len(queue)) /\ L \in SUBSET tail
    BY <1>1
  <2> QED  BY <2>1, AmountInMonotone
<1>6. L \in SUBSET (1 .. Len(queue)) /\ R \in SUBSET (1 .. Len(queue))
      /\ L \ R \in SUBSET (1 .. Len(queue))
  BY <1>1
<1>7. /\ AmountIn(queue, R) <= AmountIn(queue, L)
      /\ AmountIn(queue, L) = AmountIn(queue, R) + AmountIn(queue, L \ R)
  BY <1>1, <1>6, AmountInMonotone
<1>8. /\ AmountIn(queue, tail) \in Nat /\ AmountIn(queue, L) \in Nat
      /\ AmountIn(queue, R) \in Nat /\ AmountIn(queue, L \ R) \in Nat
  BY <1>1, <1>6, AmountInType
<1> QED  BY <1>3, <1>4, <1>5, <1>7, <1>8

\* An uncapped maturation releases what may be withdrawn and leaves in the queue what
\* may not.
LEMMA MaturingAllLeavesFrozen ==
    ASSUME NEW M \in Nat, NEW queue \in Seq(Entries(M)), NEW c \in 0 .. Len(queue),
           NEW time \in Nat, WellFormed(queue, c)
    PROVE  LET m == Matured(queue, c, time, 0)
           IN  /\ m.released = WithdrawableIn(queue, c, time)
               /\ TotalIn(m.queue, m.cursor) = FrozenIn(queue, c, time)
<1> DEFINE q2 == Matured(queue, c, time, 0).queue
           c2 == Matured(queue, c, time, 0).cursor
           r  == Matured(queue, c, time, 0).released
<1>1. 0 \in Nat
  OBVIOUS
<1>2. /\ q2 \in Seq(Entries(M)) /\ c2 \in 0 .. Len(q2) /\ r \in Nat
  BY <1>1, MaturedIsAQueue
<1>3. /\ WithdrawableIn(queue, c, time) = r + WithdrawableIn(q2, c2, time)
      /\ 0 = 0 => WithdrawableIn(q2, c2, time) = 0
  BY <1>1, MaturingReleases
<1>4. TotalIn(queue, c) = TotalIn(q2, c2) + r
  BY <1>1, MaturingConserves
<1>5. /\ TotalIn(queue, c) = WithdrawableIn(queue, c, time) + FrozenIn(queue, c, time)
      /\ TotalIn(queue, c) \in Nat
      /\ WithdrawableIn(queue, c, time) \in Nat /\ FrozenIn(queue, c, time) \in Nat
  BY ViewsAddUp
<1> HIDE DEF q2, c2, r
<1>6. TotalIn(q2, c2) \in Nat
  BY <1>2, ViewsAddUp
<1>7. r = WithdrawableIn(queue, c, time) /\ TotalIn(q2, c2) = FrozenIn(queue, c, time)
  BY <1>2, <1>3, <1>4, <1>5, <1>6
<1> QED  BY <1>7 DEF q2, c2, r

\* Emptying some entries and then others is emptying both.
LEMMA EmptyTwice ==
    ASSUME NEW queue, NEW S, NEW T
    PROVE  Emptied(Emptied(queue, S), T) = Emptied(queue, S \cup T)
BY DEF Emptied

\* A capped maturation and an uncapped one after it end where a single uncapped one
\* ends, and release as much.
LEMMA ChunkThenRest ==
    ASSUME NEW M \in Nat, NEW queue \in Seq(Entries(M)), NEW c \in 0 .. Len(queue),
           NEW time \in Nat, NEW cap \in Nat
    PROVE  LET all   == Matured(queue, c, time, 0)
               chunk == Matured(queue, c, time, cap)
           IN  Matured(chunk.queue, chunk.cursor, time, 0)
                = [all EXCEPT !.released = @ - chunk.released]
<1> DEFINE q2   == Matured(queue, c, time, cap).queue
           c2   == Matured(queue, c, time, cap).cursor
           r2   == Matured(queue, c, time, cap).released
           out  == Released(queue, c, time, cap)
           R    == Releasable(queue, c, time)
           L    == Live(queue, c)
           F    == Frozen(queue, c, time)
           n    == Len(queue)
           pAll == CursorAfter(queue, c, time, 0)
           pEnd == CursorAfter(q2, c2, time, 0)
           left == Released(q2, c2, time, 0)
<1>1. /\ q2 \in Seq(Entries(M)) /\ Len(q2) = n
      /\ c2 \in c .. n /\ c2 \in 0 .. Len(q2) /\ r2 \in Nat
      /\ q2 = Emptied(queue, out) /\ c2 = CursorAfter(queue, c, time, cap)
      /\ r2 = AmountIn(queue, out)
  BY MaturedIsAQueue DEF Matured
<1>2. 0 \in Nat /\ n \in Nat /\ c \in Nat /\ c2 \in Nat
  BY <1>1
<1>3. /\ Live(q2, c2) = L \ out
      /\ Frozen(q2, c2, time) = F
      /\ Releasable(q2, c2, time) = R \ out
  BY MaturingLeaves
<1>4. Released(queue, c, time, 0) = R /\ left = R \ out
  BY <1>3 DEF Released
<1>5. /\ L \subseteq c + 1 .. n /\ F \subseteq L /\ R \subseteq L \ F /\ out \subseteq R
  BY WalkSets
<1>6. /\ c2 \in c .. n
      /\ \A i \in L : i <= c2 => i \in out
  <2>1. Passed(queue, c, time, cap, c2)
    BY <1>1, CursorPasses
  <2> QED  BY <1>1, <2>1 DEF Passed
<1>7. /\ pAll \in c .. n
      /\ \A i \in L : i <= pAll => i \in R
      /\ pAll = n \/ pAll + 1 \in F
  <2> DEFINE full == 0 # 0 /\ Cardinality(Released(queue, c, time, 0)) = 0
  <2>1. /\ pAll \in c .. n
        /\ \A i \in Released(queue, c, time, 0) : i <= pAll
        /\ \A i \in L : i <= pAll => i \in Released(queue, c, time, 0)
        /\ full => pAll \in Released(queue, c, time, 0)
        /\ ~full => pAll = n \/ pAll + 1 \in F
    BY <1>2, CursorStops
  <2>2. ~full
    OBVIOUS
  <2> HIDE DEF full, pAll, L, F, R, n
  <2> QED  BY <1>4, <2>1, <2>2
<1> HIDE DEF q2, c2, r2
<1>8. /\ pEnd \in c2 .. n
      /\ \A i \in L \ out : i <= pEnd => i \in R \ out
      /\ pEnd = n \/ pEnd + 1 \in F
  <2> DEFINE full == 0 # 0 /\ Cardinality(left) = 0
  <2>1. /\ pEnd \in c2 .. Len(q2)
        /\ \A i \in left : i <= pEnd
        /\ \A i \in Live(q2, c2) : i <= pEnd => i \in left
        /\ full => pEnd \in left
        /\ ~full => pEnd = Len(q2) \/ pEnd + 1 \in Frozen(q2, c2, time)
    BY <1>1, <1>2, CursorStops
  <2>2. ~full
    OBVIOUS
  <2> HIDE DEF full, pEnd, left, L, F, R, n
  <2> QED  BY <1>1, <1>3, <1>4, <2>1, <2>2
<1>9. pEnd = pAll
  <2> HIDE DEF pEnd, pAll, L, F, R, n, out
  <2>1. pEnd \in Nat /\ pAll \in Nat /\ \A i \in F : i \in L /\ i \notin R /\ i \notin out
    BY <1>2, <1>5, <1>7, <1>8
  <2>2. ~(pAll < pEnd)
    <3> SUFFICES ASSUME pAll < pEnd PROVE FALSE
      OBVIOUS
    <3>1. pAll # n
      BY <1>2, <1>8, <2>1
    <3>2. pAll + 1 \in F /\ pAll + 1 <= pEnd
      BY <1>7, <2>1, <3>1
    <3> QED  BY <1>8, <2>1, <3>2
  <2>3. ~(pEnd < pAll)
    <3> SUFFICES ASSUME pEnd < pAll PROVE FALSE
      OBVIOUS
    <3>1. pEnd # n
      BY <1>2, <1>7, <2>1
    <3>2. pEnd + 1 \in F /\ pEnd + 1 <= pAll
      BY <1>8, <2>1, <3>1
    <3> QED  BY <1>7, <2>1, <3>2
  <2> QED  BY <2>1, <2>2, <2>3
<1>10. Emptied(q2, left) = Emptied(queue, R)
  <2>1. out \cup (R \ out) = R
    BY <1>5
  <2> HIDE DEF out, R, left
  <2>2. Emptied(q2, left) = Emptied(queue, out \cup (R \ out))
    BY <1>1, <1>4, EmptyTwice
  <2> QED  BY <2>1, <2>2
<1>11. AmountIn(q2, left) = AmountIn(queue, R) - r2
  <2>1. WithdrawableIn(queue, c, time) = r2 + WithdrawableIn(q2, c2, time)
    BY MaturingReleases DEF q2, c2, r2
  <2>2. WithdrawableIn(queue, c, time) = AmountIn(queue, R)
    BY DEF WithdrawableIn
  <2>3. WithdrawableIn(q2, c2, time) = AmountIn(q2, left)
    BY <1>3, <1>4 DEF WithdrawableIn
  <2>4. WithdrawableIn(q2, c2, time) \in Nat /\ WithdrawableIn(queue, c, time) \in Nat
    BY <1>1, WithdrawableType
  <2> HIDE DEF R, left
  <2> QED  BY <1>1, <2>1, <2>2, <2>3, <2>4
<1>12. Matured(q2, c2, time, 0)
        = [queue |-> Emptied(q2, left), cursor |-> pEnd, released |-> AmountIn(q2, left)]
  BY DEF Matured
<1>13. Matured(queue, c, time, 0)
        = [queue |-> Emptied(queue, R), cursor |-> pAll, released |-> AmountIn(queue, R)]
  <2> HIDE DEF R
  <2> QED  BY <1>4 DEF Matured
<1> DEFINE all == Matured(queue, c, time, 0)
<1> HIDE DEF pEnd, pAll, R, left, all
<1>14. all = [queue |-> Emptied(queue, R), cursor |-> pAll, released |-> AmountIn(queue, R)]
  BY <1>13 DEF all
<1>15. [all EXCEPT !.released = @ - r2]
        = [queue |-> Emptied(queue, R), cursor |-> pAll, released |-> AmountIn(queue, R) - r2]
  BY <1>14
<1> QED  BY <1>9, <1>10, <1>11, <1>12, <1>15 DEF all, q2, c2, r2
-----------------------------------------------------------------------------
(* The queues of LockupWalks *)

\* The queue is one the contract can hold: it ends behind the cursor or at it, and
\* nothing is behind the cursor.
WalkInv ==
    /\ q \in Seq(Entries(MaxAmount)) /\ cur \in 0 .. Len(q)
    /\ WellFormed(q, cur)
    /\ t \in Nat /\ max \in Nat

\* The bounds of the walks are natural numbers.
LEMMA WalkTypes == MaxAmount \in Nat /\ MaxTime \in Nat /\ MaxCap \in Nat /\ MaxLength \in Nat
BY WalkBounds

\* Each of the queues to begin with is one that the contract can hold.
LEMMA WalkInitInv == WalkInit => WalkInv
<1> SUFFICES ASSUME WalkInit PROVE WalkInv
  OBVIOUS
<1>1. PICK n \in 0 .. MaxLength : q \in [1 .. n -> WalkEntries]
  BY DEF WalkInit
<1>2. \A e \in WalkEntries : e \in Entries(MaxAmount) /\ (e.amount = 0 => e = Deleted)
  BY WalkTypes DEF WalkEntries, Entries, Deleted
<1>3. q \in Seq(Entries(MaxAmount)) /\ Len(q) = n /\ \A i \in 1 .. Len(q) : q[i] \in WalkEntries
  <2>1. n \in Nat
    BY WalkTypes
  <2>2. \A i \in 1 .. n : q[i] \in WalkEntries /\ q[i] \in Entries(MaxAmount)
    BY <1>1, <1>2
  <2> DEFINE E == Entries(MaxAmount)
  <2>3. q \in [1 .. n -> E]
    BY <1>1, <2>2
  <2> HIDE DEF E
  <2>4. q \in Seq(E) /\ Len(q) = n
    BY <2>1, <2>3
  <2> QED  BY <2>2, <2>4 DEF E
<1>4. WellFormed(q, cur)
  <2> SUFFICES ASSUME NEW i \in 1 .. Len(q)
               PROVE  (i <= cur => q[i] = Deleted) /\ (q[i].amount = 0 => q[i] = Deleted)
    BY DEF WellFormed
  <2>1. cur \in 0 .. Len(q) /\ \A j \in 1 .. cur : q[j] = Deleted
    BY DEF WalkInit
  <2>2. i <= cur => i \in 1 .. cur
    BY <1>3, <2>1
  <2> QED  BY <1>2, <1>3, <2>1, <2>2
<1> QED  BY <1>3, <1>4, WalkTypes DEF WalkInit, WalkInv

\* A maturation by the contract's loop leaves a queue that the contract can hold.
LEMMA WalkNextInv == WalkInv /\ [WalkNext]_walkVars => WalkInv'
<1> SUFFICES ASSUME WalkInv, [WalkNext]_walkVars PROVE WalkInv'
  OBVIOUS
<1>1. CASE UNCHANGED walkVars
  BY <1>1 DEF walkVars, WalkInv, WellFormed
<1>2. CASE WalkNext
  <2> DEFINE m == Matured(q, cur, t, max)
  <2>1. /\ q \in Seq(Entries(MaxAmount)) /\ cur \in 0 .. Len(q)
        /\ WellFormed(q, cur) /\ t \in Nat /\ max \in Nat /\ MaxAmount \in Nat
    BY WalkTypes DEF WalkInv
  <2>2. MatureWalk(q, cur, t, max) = m
    BY <2>1, MatureWalkIsMatured
  <2>3. /\ m.queue \in Seq(Entries(MaxAmount)) /\ m.cursor \in 0 .. Len(m.queue)
        /\ WellFormed(m.queue, m.cursor)
    BY <2>1, MaturedIsAQueue
  <2> HIDE DEF m
  <2>4. /\ q' = m.queue /\ cur' = m.cursor
        /\ t' = (IF t < MaxTime THEN t + 1 ELSE t) /\ max' = max
    BY <1>2, <2>2 DEF WalkNext
  <2>5. t' \in Nat /\ max' \in Nat
    BY <2>1, <2>4
  <2>6. WellFormed(q, cur)'
    BY <2>3, <2>4 DEF WellFormed
  <2> QED  BY <2>3, <2>4, <2>5, <2>6 DEF WalkInv
<1> QED  BY <1>1, <1>2

\* The queue is always one that the contract can hold.
LEMMA WalkInvAlways == WalkSpec => []WalkInv
BY WalkInitInv, WalkNextInv, PTL DEF WalkSpec

\* The maturation loop, capped or not, and the confiscation loop do to every queue of
\* every length, with every amount and time, what LockupQueue says they do.
THEOREM LoopsAlwaysComputeTheQueue == WalkSpec => []LoopsComputeTheQueue
<1>1. WalkInv => LoopsComputeTheQueue
  <2> SUFFICES ASSUME WalkInv PROVE LoopsComputeTheQueue
    OBVIOUS
  <2>1. /\ q \in Seq(Entries(MaxAmount)) /\ cur \in 0 .. Len(q)
        /\ t \in Nat /\ max \in Nat /\ MaxAmount \in Nat
    BY WalkTypes DEF WalkInv
  <2>2. MatureWalk(q, cur, t, max) = Matured(q, cur, t, max)
    BY <2>1, MatureWalkIsMatured
  <2>3. SeizeWalk(q, cur, t) = Seized(q, cur, t)
    BY <2>1, SeizeWalkIsSeized
  <2> QED  BY <2>2, <2>3 DEF LoopsComputeTheQueue
<1> QED  BY <1>1, WalkInvAlways, PTL

\* The views of a provider's earnings forecast every withdrawal to the last unit: the
\* withdrawable part is what a withdrawal releases, the frozen part what it leaves.
THEOREM ViewsAlwaysForecast == WalkSpec => []ViewsForecastTheWithdrawal
<1>1. WalkInv => ViewsForecastTheWithdrawal
  <2> SUFFICES ASSUME WalkInv PROVE ViewsForecastTheWithdrawal
    OBVIOUS
  <2> DEFINE m == Matured(q, cur, t, 0)
  <2>1. /\ q \in Seq(Entries(MaxAmount)) /\ cur \in 0 .. Len(q) /\ WellFormed(q, cur)
        /\ t \in Nat /\ 0 \in Nat /\ MaxAmount \in Nat
    BY WalkTypes DEF WalkInv
  <2>2. All = m
    BY <2>1, MatureWalkIsMatured DEF All
  <2>3. m.queue \in Seq(Entries(MaxAmount)) /\ m.cursor \in 0 .. Len(m.queue)
    BY <2>1, MaturedIsAQueue
  <2>4. /\ m.released = WithdrawableIn(q, cur, t)
        /\ TotalIn(m.queue, m.cursor) = FrozenIn(q, cur, t)
    BY <2>1, MaturingAllLeavesFrozen
  <2> HIDE DEF m
  <2>5. TotalWalk(m.queue, m.cursor) = TotalIn(m.queue, m.cursor)
    BY <2>1, <2>3, TotalWalkIsTotal
  <2>6. WithdrawableWalk(q, cur, t) = WithdrawableIn(q, cur, t)
    BY <2>1, WithdrawableWalkIsWithdrawable
  <2>7. FrozenWalk(q, cur, t) = FrozenIn(q, cur, t)
    BY <2>1, FrozenWalkIsFrozen
  <2>8. TotalWalk(q, cur) = TotalIn(q, cur)
    BY <2>1, TotalWalkIsTotal
  <2>9. TotalIn(q, cur) = WithdrawableIn(q, cur, t) + FrozenIn(q, cur, t)
    BY <2>1, ViewsAddUp
  <2> QED  BY <2>2, <2>4, <2>5, <2>6, <2>7, <2>8, <2>9 DEF ViewsForecastTheWithdrawal
<1> QED  BY <1>1, WalkInvAlways, PTL

\* Maturing in chunks is safe at every cap: a chunk and the rest after it end where one
\* maturation ends, and release as much.
THEOREM ChunksAlwaysAddUp == WalkSpec => []ChunksAddUp
<1>1. WalkInv => ChunksAddUp
  <2> SUFFICES ASSUME WalkInv PROVE ChunksAddUp
    OBVIOUS
  <2> DEFINE chunk == Matured(q, cur, t, max)
             all   == Matured(q, cur, t, 0)
  <2>1. /\ q \in Seq(Entries(MaxAmount)) /\ cur \in 0 .. Len(q)
        /\ t \in Nat /\ 0 \in Nat /\ max \in Nat /\ MaxAmount \in Nat
    BY WalkTypes DEF WalkInv
  <2>2. All = all
    BY <2>1, MatureWalkIsMatured DEF All
  <2>3. MatureWalk(q, cur, t, max) = chunk
    BY <2>1, MatureWalkIsMatured
  <2>4. chunk.queue \in Seq(Entries(MaxAmount)) /\ chunk.cursor \in 0 .. Len(chunk.queue)
    BY <2>1, MaturedIsAQueue
  <2>5. Matured(chunk.queue, chunk.cursor, t, 0)
            = [all EXCEPT !.released = @ - chunk.released]
    BY <2>1, ChunkThenRest
  <2> HIDE DEF chunk, all
  <2>6. MatureWalk(chunk.queue, chunk.cursor, t, 0)
            = Matured(chunk.queue, chunk.cursor, t, 0)
    BY <2>1, <2>4, MatureWalkIsMatured
  <2> QED  BY <2>2, <2>3, <2>5, <2>6 DEF ChunksAddUp
<1> QED  BY <1>1, WalkInvAlways, PTL
=============================================================================
