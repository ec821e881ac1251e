------------------------ MODULE LockupQueueTheorems ------------------------
(***************************************************************************)
(* What is known of the operators the models share: sums of amounts, the   *)
(* arithmetic of fees and unlock times, and what maturing, seizing and     *)
(* crediting do to a lockup queue, for every queue, cursor, time and cap.  *)
(*                                                                         *)
(* Induction is stated of a set instead of a predicate; it rests on the    *)
(* order of finite sets by strict inclusion being well-founded.  The laws  *)
(* of sums come from the cardinalities of finite sets.                     *)
(***************************************************************************)
EXTENDS LockupQueue, FiniteSetTheorems, TLAPS

(* Numbers *)

\* The elements of S up to k, for each k of S, have a smallest such set.
LEMMA SmallestPrefix ==
    ASSUME NEW S \in SUBSET Nat, S # {}
    PROVE  \E m \in S : \A k \in S : ~ (/\ S \cap (0 .. k) \subseteq S \cap (0 .. m)
                                        /\ S \cap (0 .. k) # S \cap (0 .. m))
<1> DEFINE F == {S \cap (0 .. k) : k \in S}
           R == StrictSubsetOrdering(Nat)
<1>1. ASSUME NEW k \in S PROVE IsFiniteSet(S \cap (0 .. k))
  <2>1. k \in Int /\ 0 \in Int
    OBVIOUS
  <2>2. IsFiniteSet(0 .. k)
    BY <2>1, FS_Interval
  <2> QED  BY <2>2, FS_Intersection
<1>2. F \subseteq FiniteSubsetsOf(Nat)
  BY <1>1 DEF FiniteSubsetsOf
<1>3. F # {}
  OBVIOUS
<1>4. IsWellFoundedOn(R, FiniteSubsetsOf(Nat))
  BY FS_StrictSubsetOrderingWellFounded
<1>5. PICK x \in F : \A y \in F : ~ (<<y, x>> \in R)
  <2> HIDE DEF F, R
  <2> QED  BY <1>2, <1>3, <1>4, WFMin
<1>6. PICK m \in S : x = S \cap (0 .. m)
  OBVIOUS
<1>7. ASSUME NEW k \in S,
             S \cap (0 .. k) \subseteq S \cap (0 .. m),
             S \cap (0 .. k) # S \cap (0 .. m)
      PROVE  FALSE
  <2>1. S \cap (0 .. k) \in F
    OBVIOUS
  <2>2. <<S \cap (0 .. k), x>> \in R
    BY <1>6, <1>7 DEF StrictSubsetOrdering
  <2> QED  BY <1>5, <2>1, <2>2
<1> QED  BY <1>7

\* Every nonempty set of natural numbers has a least element.
LEMMA LeastElement ==
    ASSUME NEW S \in SUBSET Nat, S # {}
    PROVE  \E m \in S : \A k \in S : m <= k
<1>1. PICK m \in S : \A k \in S : ~ (/\ S \cap (0 .. k) \subseteq S \cap (0 .. m)
                                     /\ S \cap (0 .. k) # S \cap (0 .. m))
  BY SmallestPrefix
<1>2. ASSUME NEW k \in S, k < m
      PROVE  FALSE
  <2>1. S \cap (0 .. k) \subseteq S \cap (0 .. m)
    BY <1>2
  <2>2. m \in S \cap (0 .. m) /\ m \notin S \cap (0 .. k)
    BY <1>2
  <2> QED  BY <1>1, <2>1, <2>2
<1> QED  BY <1>2

\* A nonempty set of natural numbers with a bound has a greatest element.
LEMMA GreatestElement ==
    ASSUME NEW n \in Nat, NEW S \in SUBSET (0 .. n), S # {}
    PROVE  \E m \in S : \A k \in S : k <= m
<1> DEFINE B == {b \in 0 .. n : \A k \in S : k <= b}
<1>1. n \in B
  OBVIOUS
<1>2. PICK b \in B : \A c \in B : b <= c
  <2>1. B \in SUBSET Nat /\ B # {}
    BY <1>1
  <2> HIDE DEF B
  <2> QED  BY <2>1, LeastElement
<1>3. b \in S
  <2> SUFFICES ASSUME b \notin S PROVE FALSE
    OBVIOUS
  <2>1. \A k \in S : k <= b - 1
    OBVIOUS
  <2>2. b - 1 \in 0 .. n
    <3>1. PICK s \in S : s <= b - 1
      BY <2>1
    <3> QED  BY <3>1
  <2> QED  BY <1>2, <2>1, <2>2
<1> QED  BY <1>3

\* Induction: a set that has 0 and the successor of each of its numbers has
\* every natural number.
LEMMA SetInduction ==
    ASSUME NEW S, 0 \in S, \A n \in Nat : n \in S => n + 1 \in S
    PROVE  Nat \subseteq S
<1> SUFFICES ASSUME Nat \ S # {} PROVE FALSE
  OBVIOUS
<1>1. PICK m \in Nat \ S : \A k \in Nat \ S : m <= k
  <2>1. Nat \ S \in SUBSET Nat
    OBVIOUS
  <2> QED  BY <2>1, LeastElement
<1>2. m # 0
  OBVIOUS
<1>3. m - 1 \in Nat /\ m - 1 \in S
  BY <1>1, <1>2
<1> QED  BY <1>3

\* Induction up to a bound.
LEMMA IntervalInduction ==
    ASSUME NEW n \in Nat, NEW S, 0 \in S, \A k \in 0 .. n - 1 : k \in S => k + 1 \in S
    PROVE  0 .. n \subseteq S
<1> DEFINE T == {k \in Nat : k <= n => k \in S}
<1>1. 0 \in T
  OBVIOUS
<1>2. ASSUME NEW k \in Nat, k \in T PROVE k + 1 \in T
  <2>1. k + 1 \in Nat
    OBVIOUS
  <2>2. ASSUME k + 1 <= n PROVE k + 1 \in S
    <3>1. k <= n /\ k \in 0 .. n - 1
      BY <2>2
    <3> QED  BY <1>2, <3>1
  <2> QED  BY <2>1, <2>2
<1>3. Nat \subseteq T
  <2> HIDE DEF T
  <2> QED  BY <1>1, <1>2, SetInduction
<1> QED  BY <1>3

-----------------------------------------------------------------------------
(* Sums *)

\* An amount has as many units as it says.
LEMMA UnitsOfOne ==
    ASSUME NEW x, NEW n \in Nat
    PROVE  /\ IsFiniteSet({x} \X (1 .. n))
           /\ Cardinality({x} \X (1 .. n)) = n
<1>1. IsFiniteSet({x}) /\ Cardinality({x}) = 1
  BY FS_Singleton
<1>2. IsFiniteSet(1 .. n) /\ Cardinality(1 .. n) = n
  BY FS_Interval
<1>3. /\ IsFiniteSet({x} \X (1 .. n))
      /\ Cardinality({x} \X (1 .. n)) = Cardinality({x}) * Cardinality(1 .. n)
  <2> DEFINE A == {x}
             B == 1 .. n
  <2>1. IsFiniteSet(A) /\ IsFiniteSet(B)
    BY <1>1, <1>2
  <2> HIDE DEF A, B
  <2>2. IsFiniteSet(A \X B) /\ Cardinality(A \X B) = Cardinality(A) * Cardinality(B)
    BY <2>1, FS_Product
  <2> QED  BY <2>2 DEF A, B
<1> QED  BY <1>1, <1>2, <1>3

\* Finitely many amounts have finitely many units.
LEMMA UnitsFinite ==
    ASSUME NEW S, IsFiniteSet(S), NEW f, \A x \in S : f[x] \in Nat
    PROVE  IsFiniteSet(Units(f, S))
<1> DEFINE T == {{x} \X (1 .. f[x]) : x \in S}
           g == [x \in S |-> {x} \X (1 .. f[x])]
<1>1. g \in Surjection(S, T)
  BY DEF Surjection
<1>2. IsFiniteSet(T)
  <2> HIDE DEF g, T
  <2> QED  BY <1>1, FS_Surjection
<1>3. \A u \in T : IsFiniteSet(u)
  <2>1. \A x \in S : IsFiniteSet({x} \X (1 .. f[x]))
    BY UnitsOfOne
  <2> QED  BY <2>1
<1>4. IsFiniteSet(UNION T)
  <2> HIDE DEF T
  <2> QED  BY <1>2, <1>3, FS_UNION
<1> QED  BY <1>4 DEF Units

\* A sum of amounts is an amount.
LEMMA TotalType ==
    ASSUME NEW S, IsFiniteSet(S), NEW f, \A x \in S : f[x] \in Nat
    PROVE  Total(f, S) \in Nat
BY UnitsFinite, FS_CardinalityType DEF Total

\* The sum over no one.
LEMMA TotalEmpty == \A f : Total(f, {}) = 0
<1>1. \A f : Units(f, {}) = {}
  BY DEF Units
<1> QED  BY <1>1, FS_EmptySet DEF Total

\* The sum over one.
LEMMA TotalSingle ==
    ASSUME NEW f, NEW x, f[x] \in Nat
    PROVE  Total(f, {x}) = f[x]
<1>1. Units(f, {x}) = {x} \X (1 .. f[x])
  BY DEF Units
<1> QED  BY <1>1, UnitsOfOne DEF Total

\* A sum depends only on the values it sums.
LEMMA TotalSame ==
    ASSUME NEW S, NEW f, NEW g, \A x \in S : f[x] = g[x]
    PROVE  Total(f, S) = Total(g, S)
<1>1. Units(f, S) = Units(g, S)
  BY DEF Units
<1> QED  BY <1>1 DEF Total

\* The sum over two sets without a common element.
LEMMA TotalUnion ==
    ASSUME NEW S, IsFiniteSet(S), NEW T, IsFiniteSet(T), S \cap T = {},
           NEW f, \A x \in S \cup T : f[x] \in Nat
    PROVE  Total(f, S \cup T) = Total(f, S) + Total(f, T)
<1>1. Units(f, S \cup T) = Units(f, S) \cup Units(f, T)
  BY DEF Units
<1>2. Units(f, S) \cap Units(f, T) = {}
  BY DEF Units
<1>3. IsFiniteSet(Units(f, S)) /\ IsFiniteSet(Units(f, T))
  BY UnitsFinite
<1>4. Total(f, S) \in Nat /\ Total(f, T) \in Nat
  BY TotalType
<1>5. Cardinality(Units(f, S) \cap Units(f, T)) = 0
  BY <1>2, FS_EmptySet
<1> DEFINE A == Units(f, S)
           B == Units(f, T)
<1>6. Cardinality(A \cup B) = Cardinality(A) + Cardinality(B) - Cardinality(A \cap B)
  <2>1. IsFiniteSet(A) /\ IsFiniteSet(B)
    BY <1>3
  <2> HIDE DEF A, B
  <2> QED  BY <2>1, FS_Union
<1>7. /\ Total(f, S) = Cardinality(A) /\ Total(f, T) = Cardinality(B)
      /\ Total(f, S \cup T) = Cardinality(A \cup B)
  BY <1>1 DEF Total
<1>8. Cardinality(A \cap B) = 0
  BY <1>5
<1> HIDE DEF A, B
<1> QED  BY <1>4, <1>6, <1>7, <1>8

\* A sum over a part and the rest.
LEMMA TotalSplit ==
    ASSUME NEW S, IsFiniteSet(S), NEW T \in SUBSET S,
           NEW f, \A x \in S : f[x] \in Nat
    PROVE  Total(f, S) = Total(f, T) + Total(f, S \ T)
<1>1. IsFiniteSet(T) /\ IsFiniteSet(S \ T)
  BY FS_Subset, FS_Difference
<1>2. S = T \cup (S \ T) /\ T \cap (S \ T) = {}
  OBVIOUS
<1> QED  BY <1>1, <1>2, TotalUnion

\* When one summand changes, the sum changes with it.
LEMMA TotalChange ==
    ASSUME NEW S, IsFiniteSet(S), NEW y \in S,
           NEW f, \A x \in S : f[x] \in Nat,
           NEW g, \A x \in S : g[x] \in Nat,
           \A x \in S \ {y} : f[x] = g[x]
    PROVE  Total(f, S) + g[y] = Total(g, S) + f[y]
<1>1. {y} \in SUBSET S /\ IsFiniteSet(S \ {y})
  BY FS_RemoveElement
<1>2. /\ Total(f, S) = f[y] + Total(f, S \ {y})
      /\ Total(g, S) = g[y] + Total(g, S \ {y})
  <2>1. \A h : (\A x \in S : h[x] \in Nat)
                => Total(h, S) = Total(h, {y}) + Total(h, S \ {y})
    BY <1>1, TotalSplit
  <2>2. Total(f, {y}) = f[y] /\ Total(g, {y}) = g[y]
    BY TotalSingle
  <2> QED  BY <2>1, <2>2
<1>3. Total(f, S \ {y}) = Total(g, S \ {y})
  BY TotalSame
<1>4. Total(f, S \ {y}) \in Nat
  BY <1>1, TotalType
<1> QED  BY <1>2, <1>3, <1>4

\* Where nothing is, the sum is nothing.
LEMMA TotalZero ==
    ASSUME NEW S, NEW f, \A x \in S : f[x] = 0
    PROVE  Total(f, S) = 0
<1>1. Units(f, S) = {}
  BY DEF Units
<1> QED  BY <1>1, FS_EmptySet DEF Total

\* A summand is at most the sum.
LEMMA TotalMember ==
    ASSUME NEW S, IsFiniteSet(S), NEW f, \A x \in S : f[x] \in Nat,
           NEW y \in S
    PROVE  f[y] <= Total(f, S)
<1>1. {y} \in SUBSET S /\ IsFiniteSet(S \ {y})
  BY FS_RemoveElement
<1>2. Total(f, S) = Total(f, {y}) + Total(f, S \ {y})
  BY <1>1, TotalSplit
<1>3. Total(f, {y}) = f[y]
  BY TotalSingle
<1>4. Total(f, S \ {y}) \in Nat
  BY <1>1, TotalType
<1> QED  BY <1>2, <1>3, <1>4

\* A sum of sums is the sum of both.
LEMMA TotalAdd ==
    ASSUME NEW S, IsFiniteSet(S),
           NEW f, \A x \in S : f[x] \in Nat,
           NEW g, \A x \in S : g[x] \in Nat,
           NEW h, \A x \in S : h[x] = f[x] + g[x]
    PROVE  Total(h, S) = Total(f, S) + Total(g, S)
<1> DEFINE Adds(T) == Total(h, T) = Total(f, T) + Total(g, T)
           N == {n \in Nat : \A T \in SUBSET S : Cardinality(T) = n => Adds(T)}
<1>1. \A T \in SUBSET S : IsFiniteSet(T) /\ Cardinality(T) \in Nat
  BY FS_Subset, FS_CardinalityType
<1>2. 0 \in N
  <2>1. ASSUME NEW T \in SUBSET S, Cardinality(T) = 0 PROVE Adds(T)
    <3>1. T = {}
      BY <1>1, <2>1, FS_EmptySet
    <3> QED  BY <3>1, TotalEmpty
  <2> QED  BY <2>1
<1>3. ASSUME NEW n \in Nat, n \in N PROVE n + 1 \in N
  <2>1. ASSUME NEW T \in SUBSET S, Cardinality(T) = n + 1 PROVE Adds(T)
    <3>1. T # {}
      BY <2>1, FS_EmptySet
    <3>2. PICK x \in T : TRUE
      BY <3>1
    <3>3. /\ IsFiniteSet(T \ {x}) /\ Cardinality(T \ {x}) = n
          /\ {x} \in SUBSET T /\ T \ {x} \in SUBSET S
      BY <1>1, <2>1, FS_RemoveElement
    <3>4. Adds(T \ {x})
      BY <1>3, <3>3
    <3>5. \A k : (\A y \in T : k[y] \in Nat)
                    => Total(k, T) = Total(k, {x}) + Total(k, T \ {x})
      BY <1>1, <3>3, TotalSplit
    <3>6. \A k : k[x] \in Nat => Total(k, {x}) = k[x]
      BY TotalSingle
    <3>7. Total(f, T \ {x}) \in Nat /\ Total(g, T \ {x}) \in Nat
      BY <3>3, TotalType
    <3>8. /\ f[x] \in Nat /\ g[x] \in Nat /\ h[x] \in Nat /\ h[x] = f[x] + g[x]
          /\ \A y \in T : f[y] \in Nat /\ g[y] \in Nat /\ h[y] \in Nat
      OBVIOUS
    <3>9. /\ Total(f, T) = f[x] + Total(f, T \ {x})
          /\ Total(g, T) = g[x] + Total(g, T \ {x})
          /\ Total(h, T) = h[x] + Total(h, T \ {x})
      BY <3>5, <3>6, <3>8
    <3>10. Total(h, T \ {x}) = Total(f, T \ {x}) + Total(g, T \ {x})
      BY <3>4
    <3> QED  BY <3>7, <3>8, <3>9, <3>10
  <2> QED  BY <2>1
<1>4. Nat \subseteq N
  <2> HIDE DEF N
  <2> QED  BY <1>2, <1>3, SetInduction
<1>5. Adds(S)
  BY <1>1, <1>4
<1> QED  BY <1>5

\* Sums keep the order of their summands.
LEMMA TotalMonotone ==
    ASSUME NEW S, IsFiniteSet(S),
           NEW f, \A x \in S : f[x] \in Nat,
           NEW g, \A x \in S : g[x] \in Nat,
           \A x \in S : f[x] <= g[x]
    PROVE  Total(f, S) <= Total(g, S)
<1> DEFINE d == [x \in S |-> g[x] - f[x]]
<1>1. \A x \in S : d[x] \in Nat /\ g[x] = f[x] + d[x]
  OBVIOUS
<1> HIDE DEF d
<1>2. Total(g, S) = Total(f, S) + Total(d, S)
  BY <1>1, TotalAdd
<1>3. Total(f, S) \in Nat /\ Total(d, S) \in Nat
  BY <1>1, TotalType
<1> QED  BY <1>2, <1>3
-----------------------------------------------------------------------------
(* Fees and unlock times *)

\* Multiplication keeps the order.
LEMMA ProductMonotone ==
    ASSUME NEW a \in Nat, NEW b \in Nat, NEW c \in Nat, b <= c
    PROVE  a * b <= a * c
<1>1. PICK d \in Nat : c = b + d
  <2>1. c - b \in Nat /\ c = b + (c - b)
    OBVIOUS
  <2> QED  BY <2>1
<1>2. a * c = a * b + a * d
  BY <1>1
<1>3. a * d \in Nat /\ a * b \in Nat
  OBVIOUS
<1> QED  BY <1>2, <1>3

\* The platform's part of an amount is at most the largest fee, and the two
\* parts are the amount.
THEOREM FeeSplitsAmount ==
    ASSUME NEW amount \in Nat, NEW bps \in 0 .. MAX_FEE_BPS
    PROVE  /\ Fee(amount, bps) \in Nat
           /\ ProviderShare(amount, bps) \in Nat
           /\ Fee(amount, bps) + ProviderShare(amount, bps) = amount
           /\ BPS_DENOMINATOR * Fee(amount, bps) <= MAX_FEE_BPS * amount
<1> DEFINE x == amount * bps
<1>1. x \in Nat /\ x <= amount * MAX_FEE_BPS
  BY ProductMonotone DEF MAX_FEE_BPS
<1>2. x \div BPS_DENOMINATOR \in Nat /\ BPS_DENOMINATOR * (x \div BPS_DENOMINATOR) <= x
  <2> HIDE DEF x
  <2> QED  BY <1>1 DEF BPS_DENOMINATOR
<1>3. Fee(amount, bps) = x \div BPS_DENOMINATOR
  BY DEF Fee
<1>4. amount * MAX_FEE_BPS = MAX_FEE_BPS * amount
  BY DEF MAX_FEE_BPS
<1> HIDE DEF x
<1>5. /\ Fee(amount, bps) \in Nat
      /\ BPS_DENOMINATOR * Fee(amount, bps) <= MAX_FEE_BPS * amount
  BY <1>1, <1>2, <1>3, <1>4 DEF BPS_DENOMINATOR, MAX_FEE_BPS
<1>6. Fee(amount, bps) <= amount
  BY <1>5 DEF BPS_DENOMINATOR, MAX_FEE_BPS
<1> QED  BY <1>5, <1>6 DEF ProviderShare

\* Division by a positive number.
LEMMA DivBounds ==
    ASSUME NEW a \in Nat, NEW w \in Nat \ {0}
    PROVE  /\ a \div w \in Nat
           /\ (a \div w) * w <= a
           /\ a < (a \div w) * w + w
BY Z3

\* A bucket is at least a second, and at most an eighth of a window of eight
\* seconds or more.
LEMMA BucketWidthType ==
    ASSUME NEW freeze \in Nat
    PROVE  /\ BucketWidth(freeze) \in Nat \ {0}
           /\ freeze >= FREEZE_BUCKETS => FREEZE_BUCKETS * BucketWidth(freeze) <= freeze
           /\ freeze < FREEZE_BUCKETS => BucketWidth(freeze) = 1
BY DEF BucketWidth, FREEZE_BUCKETS

\* The freeze is a floor, prolonged by less than a bucket.
THEOREM UnlockTimeRoundsUp ==
    ASSUME NEW now \in Nat, NEW freeze \in Nat
    PROVE  /\ UnlockTime(now, freeze) \in Nat
           /\ UnlockTime(now, freeze) >= now + freeze
           /\ UnlockTime(now, freeze) < now + freeze + BucketWidth(freeze)
<1> DEFINE w == BucketWidth(freeze)
           a == now + freeze + w - 1
<1>1. w \in Nat \ {0}
  BY BucketWidthType
<1>2. a \in Nat
  <2> HIDE DEF w
  <2> QED  BY <1>1
<1>3. UnlockTime(now, freeze) = (a \div w) * w
  BY DEF UnlockTime
<1>4. (a \div w) \in Nat /\ (a \div w) * w <= a /\ a < (a \div w) * w + w
  <2> HIDE DEF a, w
  <2> QED  BY <1>1, <1>2, DivBounds
<1>5. (a \div w) * w \in Nat
  <2> HIDE DEF a, w
  <2> QED  BY <1>1, <1>4
<1>6. a = now + freeze + w - 1
  OBVIOUS
<1> HIDE DEF a, w
<1>7. /\ UnlockTime(now, freeze) \in Nat
      /\ UnlockTime(now, freeze) >= now + freeze
      /\ UnlockTime(now, freeze) < now + freeze + w
  BY <1>1, <1>3, <1>4, <1>5, <1>6
<1> QED  BY <1>7 DEF w

\* The window a credit gets is within an eighth of the window that was set.
THEOREM WindowIsWithinAnEighth ==
    ASSUME NEW now \in Nat, NEW freeze \in Nat, freeze > 0
    PROVE  FREEZE_BUCKETS * (UnlockTime(now, freeze) - (now + freeze)) < freeze
<1>1. /\ UnlockTime(now, freeze) \in Nat
      /\ UnlockTime(now, freeze) < now + freeze + BucketWidth(freeze)
  BY UnlockTimeRoundsUp
<1> QED  BY <1>1, BucketWidthType DEF FREEZE_BUCKETS

-----------------------------------------------------------------------------
(* The lockup queue.  M is the largest amount of an entry. *)

Entries(M) == [unlockAt : Nat, amount : 0 .. M]

\* Behind the cursor there is nothing, and an entry without an amount is a
\* deleted one.
WellFormed(q, cur) ==
    \A i \in 1 .. Len(q) :
        /\ i <= cur => q[i] = Deleted
        /\ q[i].amount = 0 => q[i] = Deleted

\* What an entry of a queue is.
LEMMA EntryType ==
    ASSUME NEW M \in Nat, NEW q \in Seq(Entries(M)), NEW i \in 1 .. Len(q)
    PROVE  /\ q[i] = [unlockAt |-> q[i].unlockAt, amount |-> q[i].amount]
           /\ q[i].unlockAt \in Nat /\ q[i].amount \in 0 .. M /\ q[i].amount \in Nat
<1>1. q[i] \in Entries(M)
  OBVIOUS
<1>2. \A e \in Entries(M) : /\ e = [unlockAt |-> e.unlockAt, amount |-> e.amount]
                            /\ e.unlockAt \in Nat /\ e.amount \in 0 .. M
  BY DEF Entries
<1> QED  BY <1>1, <1>2

\* The sets of indices a walk is defined by are sets of live entries.
LEMMA WalkSets ==
    ASSUME NEW M \in Nat, NEW q \in Seq(Entries(M)), NEW cur \in 0 .. Len(q),
           NEW t \in Nat, NEW max \in Nat
    PROVE  /\ Live(q, cur) \subseteq cur + 1 .. Len(q)
           /\ Frozen(q, cur, t) \subseteq Live(q, cur)
           /\ Releasable(q, cur, t) \subseteq Live(q, cur) \ Frozen(q, cur, t)
           /\ Released(q, cur, t, max) \subseteq Releasable(q, cur, t)
           /\ \A i \in Live(q, cur) : i \in 1 .. Len(q) /\ q[i].amount > 0
           /\ \A i \in Releasable(q, cur, t) : q[i].unlockAt <= t
           /\ \A i \in Frozen(q, cur, t) : q[i].unlockAt > t
<1>1. /\ Live(q, cur) \subseteq cur + 1 .. Len(q)
      /\ Frozen(q, cur, t) \subseteq Live(q, cur)
      /\ Releasable(q, cur, t) \subseteq Live(q, cur)
      /\ Released(q, cur, t, max) \subseteq Releasable(q, cur, t)
  BY DEF Live, Frozen, Releasable, Released
<1>2. \A i \in Live(q, cur) : i \in 1 .. Len(q) /\ q[i].amount > 0
  BY DEF Live
<1>3. \A i \in Releasable(q, cur, t) : i \notin Frozen(q, cur, t)
  BY <1>1, <1>2 DEF Releasable
<1>4. \A i \in Live(q, cur) : q[i] \in Entries(M)
  BY <1>2
<1>5. \A i \in Live(q, cur) : i \notin Frozen(q, cur, t) => q[i].unlockAt <= t
  BY <1>4 DEF Frozen, Entries
<1> QED  BY <1>1, <1>2, <1>3, <1>5 DEF Frozen

\* A cap cuts off the back of what may be released, never its front.
LEMMA ReleasedIsAPrefix ==
    ASSUME NEW M \in Nat, NEW q \in Seq(Entries(M)), NEW cur \in 0 .. Len(q),
           NEW t \in Nat, NEW max \in Nat,
           NEW m \in Released(q, cur, t, max), NEW i \in Live(q, cur), i <= m
    PROVE  i \in Released(q, cur, t, max)
<1> DEFINE R == Releasable(q, cur, t)
           Upto(k) == {j \in R : j <= k}
<1>1. R \subseteq 1 .. Len(q) /\ m \in R /\ i \in 1 .. Len(q)
  BY WalkSets
<1>2. i \in R
  <2>1. \A j \in Frozen(q, cur, t) : m < j
    BY DEF Released, Releasable
  <2>2. \A j \in Frozen(q, cur, t) : j \in 1 .. Len(q)
    BY WalkSets
  <2> QED  BY <1>1, <2>1, <2>2 DEF Releasable
<1>3. Upto(i) \subseteq Upto(m)
  BY <1>1
<1>4. IsFiniteSet(Upto(m))
  <2>1. Upto(m) \subseteq 1 .. Len(q)
    BY <1>1
  <2>2. IsFiniteSet(1 .. Len(q))
    BY FS_Interval
  <2> QED  BY <2>1, <2>2, FS_Subset
<1>5. /\ Cardinality(Upto(i)) <= Cardinality(Upto(m))
      /\ Cardinality(Upto(i)) \in Nat /\ Cardinality(Upto(m)) \in Nat
  <2> HIDE DEF Upto
  <2> QED  BY <1>3, <1>4, FS_Subset, FS_CardinalityType
<1>6. max # 0 => Cardinality(Upto(m)) <= max
  BY DEF Released
<1>7. max # 0 => Cardinality(Upto(i)) <= max
  BY <1>5, <1>6
<1> QED  BY <1>2, <1>7 DEF Released

\* The walk ends inside the queue, behind everything it released, and no entry
\* that holds an amount is passed without being released.
LEMMA CursorPasses ==
    ASSUME NEW M \in Nat, NEW q \in Seq(Entries(M)), NEW cur \in 0 .. Len(q),
           NEW t \in Nat, NEW max \in Nat
    PROVE  /\ CursorAfter(q, cur, t, max) \in cur .. Len(q)
           /\ Passed(q, cur, t, max, CursorAfter(q, cur, t, max))
<1> DEFINE out == Released(q, cur, t, max)
           hits == {p \in cur .. Len(q) : Passed(q, cur, t, max, p)}
<1>1. /\ out \subseteq Live(q, cur) /\ Live(q, cur) \subseteq cur + 1 .. Len(q)
      /\ Len(q) \in Nat /\ cur \in Nat
  BY WalkSets
<1>2. hits # {}
  <2>1. CASE out = {}
    <3>1. Passed(q, cur, t, max, cur)
      BY <1>1, <2>1 DEF Passed
    <3> QED  BY <3>1
  <2>2. CASE out # {}
    <3>1. out \in SUBSET (0 .. Len(q))
      BY <1>1
    <3>2. PICK m \in out : \A k \in out : k <= m
      <4> HIDE DEF out
      <4> QED  BY <1>1, <2>2, <3>1, GreatestElement
    <3>3. \A i \in Live(q, cur) : i <= m => i \in out
      BY ReleasedIsAPrefix
    <3>4. Passed(q, cur, t, max, m)
      BY <3>2, <3>3 DEF Passed
    <3> QED  BY <1>1, <3>2, <3>4
  <2> QED  BY <2>1, <2>2
<1>3. hits \in SUBSET (0 .. Len(q))
  BY <1>1
<1>4. \E p \in hits : \A r \in hits : p <= r
  <2> HIDE DEF hits
  <2> QED  BY <1>2, <1>3, LeastElement
<1>5. \E p \in hits : \A r \in hits : r <= p
  <2> HIDE DEF hits
  <2> QED  BY <1>1, <1>2, <1>3, GreatestElement
<1>6. CursorAfter(q, cur, t, max) \in hits
  <2>1. (CHOOSE p \in hits : \A r \in hits : p <= r) \in hits
    <3> HIDE DEF hits
    <3> QED  BY <1>4
  <2>2. (CHOOSE p \in hits : \A r \in hits : r <= p) \in hits
    <3> HIDE DEF hits
    <3> QED  BY <1>5
  <2> QED  BY <2>1, <2>2 DEF CursorAfter
<1> QED  BY <1>6

\* Emptying entries keeps the queue a queue of as many entries.
LEMMA EmptiedIsAQueue ==
    ASSUME NEW M \in Nat, NEW q \in Seq(Entries(M)), NEW S
    PROVE  /\ Emptied(q, S) \in Seq(Entries(M))
           /\ Len(Emptied(q, S)) = Len(q)
           /\ \A i \in 1 .. Len(q) :
                Emptied(q, S)[i] = IF i \in S THEN Deleted ELSE q[i]
<1>1. DOMAIN q = 1 .. Len(q) /\ Len(q) \in Nat
  OBVIOUS
<1>2. Deleted \in Entries(M)
  BY DEF Deleted, Entries
<1>3. \A i \in 1 .. Len(q) : (IF i \in S THEN Deleted ELSE q[i]) \in Entries(M)
  BY <1>2
<1>4. Emptied(q, S) = [i \in 1 .. Len(q) |-> IF i \in S THEN Deleted ELSE q[i]]
  BY <1>1 DEF Emptied
<1> QED  BY <1>1, <1>3, <1>4

\* The amount of some entries is an amount.
LEMMA AmountInType ==
    ASSUME NEW M \in Nat, NEW q \in Seq(Entries(M)), NEW S \in SUBSET (1 .. Len(q))
    PROVE  IsFiniteSet(S) /\ AmountIn(q, S) \in Nat
<1>1. IsFiniteSet(S)
  <2>1. IsFiniteSet(1 .. Len(q))
    BY FS_Interval
  <2> QED  BY <2>1, FS_Subset
<1> DEFINE f == [i \in S |-> q[i].amount]
<1>2. \A i \in S : f[i] \in Nat
  BY EntryType
<1>3. Total(f, S) \in Nat
  <2> HIDE DEF f
  <2> QED  BY <1>1, <1>2, TotalType
<1> QED  BY <1>1, <1>3 DEF AmountIn

\* Maturing leaves a well-formed queue of the same length, with the cursor
\* moved on within it.
LEMMA MaturedIsAQueue ==
    ASSUME NEW M \in Nat, NEW q \in Seq(Entries(M)), NEW cur \in 0 .. Len(q),
           NEW t \in Nat, NEW max \in Nat
    PROVE  LET m == Matured(q, cur, t, max)
           IN  /\ m.queue \in Seq(Entries(M))
               /\ Len(m.queue) = Len(q)
               /\ m.cursor \in cur .. Len(q)
               /\ m.cursor \in 0 .. Len(m.queue)
               /\ m.released \in Nat
               /\ WellFormed(q, cur) => WellFormed(m.queue, m.cursor)
<1> DEFINE out == Released(q, cur, t, max)
           c   == CursorAfter(q, cur, t, max)
<1>1. /\ Matured(q, cur, t, max).queue = Emptied(q, out)
      /\ Matured(q, cur, t, max).cursor = c
      /\ Matured(q, cur, t, max).released = AmountIn(q, out)
  BY DEF Matured
<1>2. /\ Emptied(q, out) \in Seq(Entries(M))
      /\ Len(Emptied(q, out)) = Len(q)
      /\ \A i \in 1 .. Len(q) :
            Emptied(q, out)[i] = IF i \in out THEN Deleted ELSE q[i]
  <2> HIDE DEF out
  <2> QED  BY EmptiedIsAQueue
<1>3. c \in cur .. Len(q) /\ Passed(q, cur, t, max, c)
  BY CursorPasses
<1>4. out \in SUBSET (1 .. Len(q))
  BY WalkSets
<1>5. AmountIn(q, out) \in Nat
  BY <1>4, AmountInType
<1>6. ASSUME WellFormed(q, cur)
      PROVE  WellFormed(Emptied(q, out), c)
  <2> SUFFICES ASSUME NEW i \in 1 .. Len(q)
               PROVE  /\ i <= c => Emptied(q, out)[i] = Deleted
                      /\ Emptied(q, out)[i].amount = 0 => Emptied(q, out)[i] = Deleted
    BY <1>2 DEF WellFormed
  <2>1. CASE i \in out
    BY <1>2, <2>1
  <2>2. CASE i \notin out
    <3>1. Emptied(q, out)[i] = q[i]
      BY <1>2, <2>2
    <3>2. i <= c => i \notin Live(q, cur)
      BY <1>3, <2>2 DEF Passed
    <3>3. q[i].amount = 0 \/ i <= cur \/ i \in Live(q, cur)
      <4>1. q[i].amount \in Nat
        BY EntryType
      <4> QED  BY <4>1 DEF Live
    <3> QED  BY <1>6, <3>1, <3>2, <3>3 DEF WellFormed
  <2> QED  BY <2>1, <2>2
<1> HIDE DEF out, c
<1> QED  BY <1>1, <1>2, <1>3, <1>5, <1>6

\* What maturing does to the single entries: the released ones are emptied, are
\* behind the new cursor and had matured; an entry with an amount that the
\* cursor has passed is a released one.
LEMMA MaturedEntries ==
    ASSUME NEW M \in Nat, NEW q \in Seq(Entries(M)), NEW cur \in 0 .. Len(q),
           NEW t \in Nat, NEW max \in Nat
    PROVE  LET m   == Matured(q, cur, t, max)
               out == Released(q, cur, t, max)
           IN  \A i \in 1 .. Len(q) :
                /\ m.queue[i] = IF i \in out THEN Deleted ELSE q[i]
                /\ i \in out => /\ cur < i /\ i <= m.cursor
                                /\ q[i].amount > 0 /\ q[i].unlockAt <= t
                /\ cur < i /\ i <= m.cursor /\ q[i].amount > 0 => i \in out
<1> DEFINE out == Released(q, cur, t, max)
           c   == CursorAfter(q, cur, t, max)
<1>1. Matured(q, cur, t, max).queue = Emptied(q, out)
  BY DEF Matured
<1>2. Matured(q, cur, t, max).cursor = c
  BY DEF Matured
<1>3. \A i \in 1 .. Len(q) : Emptied(q, out)[i] = IF i \in out THEN Deleted ELSE q[i]
  <2> HIDE DEF out
  <2> QED  BY EmptiedIsAQueue
<1>4. Passed(q, cur, t, max, c)
  BY CursorPasses
<1>5. ASSUME NEW i \in 1 .. Len(q), i \in out
      PROVE  cur < i /\ i <= c /\ q[i].amount > 0 /\ q[i].unlockAt <= t
  BY <1>4, <1>5, WalkSets DEF Passed
<1>6. ASSUME NEW i \in 1 .. Len(q), cur < i, i <= c, q[i].amount > 0
      PROVE  i \in out
  <2>1. i \in Live(q, cur)
    BY <1>6 DEF Live
  <2> QED  BY <1>4, <1>6, <2>1 DEF Passed
<1> HIDE DEF out, c
<1>7. \A i \in 1 .. Len(q) :
        /\ Matured(q, cur, t, max).queue[i] = IF i \in out THEN Deleted ELSE q[i]
        /\ i \in out => /\ cur < i /\ i <= Matured(q, cur, t, max).cursor
                        /\ q[i].amount > 0 /\ q[i].unlockAt <= t
        /\ cur < i /\ i <= Matured(q, cur, t, max).cursor /\ q[i].amount > 0 => i \in out
  BY <1>1, <1>2, <1>3, <1>5, <1>6
<1> QED  BY <1>7 DEF out

\* Seizing leaves a well-formed queue of the same length.
LEMMA SeizedIsAQueue ==
    ASSUME NEW M \in Nat, NEW q \in Seq(Entries(M)), NEW cur \in 0 .. Len(q),
           NEW t \in Nat
    PROVE  LET s == Seized(q, cur, t)
           IN  /\ s.queue \in Seq(Entries(M))
               /\ Len(s.queue) = Len(q)
               /\ s.amount \in Nat
               /\ \A i \in 1 .. Len(q) :
                    /\ s.queue[i] = IF i \in Frozen(q, cur, t) THEN Deleted ELSE q[i]
                    /\ i \in Frozen(q, cur, t) => cur < i /\ q[i].unlockAt > t
               /\ WellFormed(q, cur) => WellFormed(s.queue, cur)
<1> DEFINE out == Frozen(q, cur, t)
<1>1. /\ Seized(q, cur, t).queue = Emptied(q, out)
      /\ Seized(q, cur, t).amount = AmountIn(q, out)
  BY DEF Seized
<1>2. /\ Emptied(q, out) \in Seq(Entries(M))
      /\ Len(Emptied(q, out)) = Len(q)
      /\ \A i \in 1 .. Len(q) :
            Emptied(q, out)[i] = IF i \in out THEN Deleted ELSE q[i]
  <2> HIDE DEF out
  <2> QED  BY EmptiedIsAQueue
<1>3. out \in SUBSET (1 .. Len(q)) /\ \A i \in out : cur < i /\ q[i].unlockAt > t
  BY WalkSets
<1>4. AmountIn(q, out) \in Nat
  BY <1>3, AmountInType
<1>5. WellFormed(q, cur) => WellFormed(Emptied(q, out), cur)
  <2> HIDE DEF out
  <2> QED  BY <1>2 DEF WellFormed
<1>6. LET s == Seized(q, cur, t)
      IN  /\ s.queue \in Seq(Entries(M))
          /\ Len(s.queue) = Len(q)
          /\ s.amount \in Nat
          /\ \A i \in 1 .. Len(q) :
               /\ s.queue[i] = IF i \in out THEN Deleted ELSE q[i]
               /\ i \in out => cur < i /\ q[i].unlockAt > t
          /\ WellFormed(q, cur) => WellFormed(s.queue, cur)
  <2> HIDE DEF out
  <2> QED  BY <1>1, <1>2, <1>3, <1>4, <1>5
<1> QED  BY <1>6 DEF out

\* A credit leaves a well-formed queue; the last entry is the one credited.
LEMMA PushedIsAQueue ==
    ASSUME NEW M \in Nat, NEW q \in Seq(Entries(M)), NEW cur \in 0 .. Len(q),
           NEW unlock \in Nat \ {0}, NEW amount \in Nat \ {0},
           EntryAmount(q, cur, unlock, amount) <= M,
           WellFormed(q, cur)
    PROVE  LET new == Pushed(q, cur, unlock, amount)
               n   == Len(new)
           IN  /\ new \in Seq(Entries(M))
               /\ n \in cur + 1 .. Len(q) + 1 /\ Len(q) <= n /\ n \in 1 .. n
               /\ \A i \in 1 .. Len(q) : i # n => new[i] = q[i]
               /\ new[n] = [unlockAt |-> unlock,
                            amount |-> EntryAmount(q, cur, unlock, amount)]
               /\ n = Len(q) => /\ Merges(q, cur, unlock)
                                /\ q[n].unlockAt = unlock /\ q[n].amount > 0
               /\ EntryAmount(q, cur, unlock, amount) > 0
               /\ WellFormed(new, cur)
<1> DEFINE new == Pushed(q, cur, unlock, amount)
<1>0. Len(q) \in Nat /\ cur \in Nat /\ cur <= Len(q)
  OBVIOUS
<1>1. CASE Merges(q, cur, unlock)
  <2> DEFINE n == Len(q)
             e == [unlockAt |-> unlock, amount |-> q[n].amount + amount]
  <2>1. n \in 1 .. Len(q) /\ n > cur /\ q[n].unlockAt = unlock
    BY <1>0, <1>1 DEF Merges
  <2>2. /\ q[n] = [unlockAt |-> unlock, amount |-> q[n].amount]
        /\ q[n].amount \in Nat
    BY <2>1, EntryType
  <2>3. q[n].amount > 0
    <3>1. q[n] # Deleted
      BY <2>1 DEF Deleted
    <3> QED  BY <2>1, <2>2, <3>1 DEF WellFormed
  <2>4. EntryAmount(q, cur, unlock, amount) = q[n].amount + amount
    BY <1>1 DEF EntryAmount
  <2>5. e \in Entries(M)
    BY <2>2, <2>4 DEF Entries
  <2>6. new = [q EXCEPT ![n] = e]
    <3>1. new = [q EXCEPT ![n].amount = @ + amount]
      BY <1>1 DEF Pushed
    <3>2. [q[n] EXCEPT !.amount = @ + amount] = e
      BY <2>2
    <3> QED  BY <3>1, <3>2
  <2>7. new \in Seq(Entries(M)) /\ Len(new) = n
    <3> HIDE DEF e
    <3> QED  BY <2>1, <2>5, <2>6
  <2>8. new[n] = e /\ \A i \in 1 .. Len(q) : i # n => new[i] = q[i]
    <3> HIDE DEF e
    <3> QED  BY <2>1, <2>6
  <2>9. WellFormed(new, cur)
    <3>1. e.amount # 0
      BY <2>2
    <3> HIDE DEF e, new
    <3> QED  BY <2>1, <2>7, <2>8, <3>1 DEF WellFormed
  <2> HIDE DEF new
  <2> QED  BY <1>0, <1>1, <2>1, <2>2, <2>3, <2>4, <2>7, <2>8, <2>9 DEF new
<1>2. CASE ~ Merges(q, cur, unlock)
  <2> DEFINE e == [unlockAt |-> unlock, amount |-> amount]
             n == Len(q) + 1
  <2>1. EntryAmount(q, cur, unlock, amount) = amount
    BY <1>2 DEF EntryAmount
  <2>2. new = Append(q, e)
    BY <1>2 DEF Pushed
  <2>3. e \in Entries(M)
    BY <2>1 DEF Entries
  <2>4. /\ new \in Seq(Entries(M)) /\ Len(new) = n
        /\ new[n] = e /\ \A i \in 1 .. Len(q) : new[i] = q[i]
    <3> HIDE DEF e
    <3> QED  BY <2>2, <2>3
  <2>5. WellFormed(new, cur)
    <3>1. e.amount # 0
      OBVIOUS
    <3>2. \A i \in 1 .. n : i \in 1 .. Len(q) \/ (i = n /\ i > cur)
      BY <1>0
    <3> HIDE DEF e, new
    <3> QED  BY <2>4, <3>1, <3>2 DEF WellFormed
  <2> HIDE DEF new
  <2> QED  BY <1>0, <2>1, <2>4, <2>5 DEF new
<1> QED  BY <1>1, <1>2

AmountsOf(q) == [i \in 1 .. Len(q) |-> q[i].amount]

\* The amount of some entries, as a sum over one function for all of them.
LEMMA AmountInIsTotal ==
    ASSUME NEW M \in Nat, NEW q \in Seq(Entries(M)), NEW S \in SUBSET (1 .. Len(q))
    PROVE  /\ IsFiniteSet(S)
           /\ \A i \in S : AmountsOf(q)[i] = q[i].amount /\ AmountsOf(q)[i] \in Nat
           /\ AmountIn(q, S) = Total(AmountsOf(q), S)
<1> DEFINE f == [i \in S |-> q[i].amount]
           g == AmountsOf(q)
<1>1. IsFiniteSet(S)
  BY AmountInType
<1>2. \A i \in S : g[i] = q[i].amount /\ g[i] \in Nat
  BY EntryType DEF AmountsOf
<1>3. \A i \in S : f[i] = g[i]
  BY <1>2
<1>4. AmountIn(q, S) = Total(f, S)
  BY DEF AmountIn
<1> HIDE DEF f, g
<1>5. Total(f, S) = Total(g, S)
  BY <1>3, TotalSame
<1> QED  BY <1>1, <1>2, <1>4, <1>5 DEF g

\* Emptying entries takes away exactly their amounts.
LEMMA EmptyingTakes ==
    ASSUME NEW M \in Nat, NEW q \in Seq(Entries(M)),
           NEW S \in SUBSET (1 .. Len(q)), NEW T \in SUBSET S
    PROVE  AmountIn(q, S) = AmountIn(Emptied(q, T), S) + AmountIn(q, T)
<1> DEFINE e == Emptied(q, T)
           f == AmountsOf(q)
           g == AmountsOf(e)
<1>1. /\ e \in Seq(Entries(M)) /\ Len(e) = Len(q)
      /\ \A i \in 1 .. Len(q) : e[i] = IF i \in T THEN Deleted ELSE q[i]
  BY EmptiedIsAQueue
<1> HIDE DEF e
<1>2. /\ S \ T \in SUBSET (1 .. Len(q)) /\ T \in SUBSET (1 .. Len(q))
      /\ S \in SUBSET (1 .. Len(e))
  BY <1>1
<1>3. /\ IsFiniteSet(S)
      /\ \A i \in S : f[i] = q[i].amount /\ f[i] \in Nat
      /\ AmountIn(q, S) = Total(f, S)
  BY AmountInIsTotal
<1>4. AmountIn(q, T) = Total(f, T)
  BY <1>2, AmountInIsTotal
<1>5. /\ \A i \in S : g[i] = e[i].amount /\ g[i] \in Nat
      /\ AmountIn(e, S) = Total(g, S)
  BY <1>1, <1>2, AmountInIsTotal
<1> HIDE DEF f, g
<1>6. \A i \in T : g[i] = 0
  BY <1>1, <1>2, <1>5 DEF Deleted
<1>7. \A i \in S \ T : g[i] = f[i]
  BY <1>1, <1>2, <1>3, <1>5
<1>8. Total(f, S) = Total(f, T) + Total(f, S \ T)
  BY <1>3, TotalSplit
<1>9. Total(g, S) = Total(g, T) + Total(g, S \ T)
  BY <1>3, <1>5, TotalSplit
<1>10. Total(g, T) = 0
  BY <1>6, TotalZero
<1>11. Total(g, S \ T) = Total(f, S \ T)
  BY <1>7, TotalSame
<1>12. Total(f, T) \in Nat
  <2>1. IsFiniteSet(T) /\ \A i \in T : f[i] \in Nat
    BY <1>3, FS_Subset
  <2> QED  BY <2>1, TotalType
<1>13. Total(f, S \ T) \in Nat
  <2>1. IsFiniteSet(S \ T) /\ \A i \in S \ T : f[i] \in Nat
    BY <1>3, FS_Difference
  <2> QED  BY <2>1, TotalType
<1> QED  BY <1>3, <1>4, <1>5, <1>8, <1>9, <1>10, <1>11, <1>12, <1>13 DEF e

\* Nothing is behind the cursor, so what is at or after it is all there is.
LEMMA WholeQueue ==
    ASSUME NEW M \in Nat, NEW q \in Seq(Entries(M)), NEW cur \in 0 .. Len(q),
           WellFormed(q, cur)
    PROVE  /\ TotalIn(q, cur) = AmountIn(q, 1 .. Len(q))
           /\ TotalIn(q, cur) \in Nat
<1> DEFINE all  == 1 .. Len(q)
           tail == cur + 1 .. Len(q)
           f    == AmountsOf(q)
<1>1. tail \in SUBSET all /\ all \ tail = 1 .. cur /\ all \in SUBSET all
  OBVIOUS
<1>2. /\ IsFiniteSet(all)
      /\ \A i \in all : f[i] = q[i].amount /\ f[i] \in Nat
      /\ AmountIn(q, all) = Total(f, all)
  BY AmountInIsTotal
<1>3. AmountIn(q, tail) = Total(f, tail) /\ AmountIn(q, tail) \in Nat
  BY <1>1, AmountInIsTotal, AmountInType
<1>4. \A i \in all \ tail : f[i] = 0
  <2>1. \A i \in 1 .. cur : q[i] = Deleted
    BY DEF WellFormed
  <2> QED  BY <1>1, <1>2, <2>1 DEF Deleted
<1>5. TotalIn(q, cur) = AmountIn(q, tail)
  BY DEF TotalIn
<1> HIDE DEF all, tail, f
<1>6. Total(f, all) = Total(f, tail) + Total(f, all \ tail)
  BY <1>1, <1>2, TotalSplit
<1>7. Total(f, all \ tail) = 0
  BY <1>4, TotalZero
<1>8. AmountIn(q, all) = AmountIn(q, tail)
  BY <1>2, <1>3, <1>6, <1>7
<1> QED  BY <1>3, <1>5, <1>8 DEF all

\* What maturing takes out of the queue is what it releases.
LEMMA MaturingConserves ==
    ASSUME NEW M \in Nat, NEW q \in Seq(Entries(M)), NEW cur \in 0 .. Len(q),
           NEW t \in Nat, NEW max \in Nat, WellFormed(q, cur)
    PROVE  LET m == Matured(q, cur, t, max)
           IN  TotalIn(q, cur) = TotalIn(m.queue, m.cursor) + m.released
<1> DEFINE m   == Matured(q, cur, t, max)
           out == Released(q, cur, t, max)
           all == 1 .. Len(q)
<1>1. /\ m.queue \in Seq(Entries(M)) /\ Len(m.queue) = Len(q)
      /\ m.cursor \in 0 .. Len(m.queue) /\ WellFormed(m.queue, m.cursor)
  BY MaturedIsAQueue
<1>2. m.queue = Emptied(q, out) /\ m.released = AmountIn(q, out)
  BY DEF Matured
<1>3. out \in SUBSET all /\ all \in SUBSET all
  BY WalkSets
<1> HIDE DEF out
<1>4. AmountIn(q, all) = AmountIn(Emptied(q, out), all) + AmountIn(q, out)
  BY <1>3, EmptyingTakes
<1>5. TotalIn(q, cur) = AmountIn(q, all)
  BY WholeQueue
<1> HIDE DEF m
<1>6. TotalIn(m.queue, m.cursor) = AmountIn(m.queue, 1 .. Len(m.queue))
  BY <1>1, WholeQueue
<1>7. TotalIn(m.queue, m.cursor) = AmountIn(m.queue, all)
  BY <1>1, <1>6
<1> HIDE DEF all
<1> QED  BY <1>2, <1>4, <1>5, <1>7 DEF m

\* What seizing takes out of the queue is what it moves to the platform.
LEMMA SeizingConserves ==
    ASSUME NEW M \in Nat, NEW q \in Seq(Entries(M)), NEW cur \in 0 .. Len(q),
           NEW t \in Nat, WellFormed(q, cur)
    PROVE  LET s == Seized(q, cur, t)
           IN  TotalIn(q, cur) = TotalIn(s.queue, cur) + s.amount
<1> DEFINE s   == Seized(q, cur, t)
           out == Frozen(q, cur, t)
           all == 1 .. Len(q)
<1>1. s.queue \in Seq(Entries(M)) /\ Len(s.queue) = Len(q) /\ WellFormed(s.queue, cur)
  BY SeizedIsAQueue
<1>2. s.queue = Emptied(q, out) /\ s.amount = AmountIn(q, out)
  BY DEF Seized
<1>3. out \in SUBSET all /\ all \in SUBSET all
  BY DEF Frozen, Live
<1> HIDE DEF out
<1>4. AmountIn(q, all) = AmountIn(Emptied(q, out), all) + AmountIn(q, out)
  BY <1>3, EmptyingTakes
<1>5. TotalIn(q, cur) = AmountIn(q, all)
  BY WholeQueue
<1> HIDE DEF s
<1>6. TotalIn(s.queue, cur) = AmountIn(s.queue, 1 .. Len(s.queue))
  BY <1>1, WholeQueue
<1>7. TotalIn(s.queue, cur) = AmountIn(s.queue, all)
  BY <1>1, <1>6
<1> HIDE DEF all
<1> QED  BY <1>2, <1>4, <1>5, <1>7 DEF s

\* A credit adds its amount to the queue.
LEMMA PushingConserves ==
    ASSUME NEW M \in Nat, NEW q \in Seq(Entries(M)), NEW cur \in 0 .. Len(q),
           NEW unlock \in Nat \ {0}, NEW amount \in Nat \ {0},
           EntryAmount(q, cur, unlock, amount) <= M,
           WellFormed(q, cur)
    PROVE  TotalIn(Pushed(q, cur, unlock, amount), cur) = TotalIn(q, cur) + amount
<1> DEFINE new == Pushed(q, cur, unlock, amount)
           n   == Len(new)
           sum == EntryAmount(q, cur, unlock, amount)
           old == 1 .. Len(q)
           all == 1 .. n
           f   == AmountsOf(q)
           g   == AmountsOf(new)
<1>1. /\ new \in Seq(Entries(M))
      /\ n \in cur + 1 .. Len(q) + 1 /\ Len(q) <= n /\ n \in all
      /\ \A i \in 1 .. Len(q) : i # n => new[i] = q[i]
      /\ new[n] = [unlockAt |-> unlock, amount |-> sum]
      /\ n = Len(q) => Merges(q, cur, unlock)
      /\ WellFormed(new, cur)
  BY PushedIsAQueue
<1>2. Len(q) \in Nat /\ cur \in Nat
  OBVIOUS
<1>3. ~Merges(q, cur, unlock) => n = Len(q) + 1 /\ sum = amount
  BY DEF Pushed, EntryAmount
<1>4. Merges(q, cur, unlock) => sum = q[Len(q)].amount + amount
  BY DEF EntryAmount
<1> HIDE DEF new, sum
<1>5. TotalIn(q, cur) = AmountIn(q, old) /\ TotalIn(q, cur) \in Nat
  BY WholeQueue
<1>6. n \in Nat /\ cur \in 0 .. Len(new)
  BY <1>1, <1>2
<1>7. TotalIn(new, cur) = AmountIn(new, all) /\ TotalIn(new, cur) \in Nat
  BY <1>1, <1>6, WholeQueue
<1>8. /\ IsFiniteSet(old)
      /\ \A i \in old : f[i] = q[i].amount /\ f[i] \in Nat
      /\ AmountIn(q, old) = Total(f, old)
  BY AmountInIsTotal
<1>9. /\ IsFiniteSet(all)
      /\ \A i \in all : g[i] = new[i].amount /\ g[i] \in Nat
      /\ AmountIn(new, all) = Total(g, all)
  BY <1>1, AmountInIsTotal
<1>10. g[n] = sum
  BY <1>1, <1>9
<1> HIDE DEF f, g
<1>11. CASE n = Len(q)
  <2>1. old = all /\ sum = f[n] + amount /\ f[n] \in Nat
    BY <1>1, <1>4, <1>8, <1>11
  <2>2. \A i \in all \ {n} : f[i] = g[i]
    BY <1>1, <1>8, <1>9, <2>1
  <2>3. /\ IsFiniteSet(all) /\ n \in all
        /\ \A i \in all : f[i] \in Nat /\ g[i] \in Nat
    BY <1>1, <1>8, <1>9, <2>1
  <2>4. TotalIn(q, cur) = Total(f, all) /\ TotalIn(new, cur) = Total(g, all)
    BY <1>5, <1>7, <1>8, <1>9, <2>1
  <2> HIDE DEF old, all, n
  <2>5. Total(f, all) + g[n] = Total(g, all) + f[n]
    BY <2>2, <2>3, TotalChange
  <2>6. TotalIn(new, cur) = TotalIn(q, cur) + amount
    BY <1>5, <1>7, <1>10, <2>1, <2>4, <2>5, SMTT(30)
  <2> QED  BY <2>6 DEF new
<1>12. CASE n # Len(q)
  <2>1. n = Len(q) + 1 /\ sum = amount
    <3>1. ~Merges(q, cur, unlock) \/ n = Len(q)
      BY <1>1, <1>2 DEF new, Pushed, Merges
    <3> QED  BY <1>3, <1>12, <3>1
  <2>2. old \in SUBSET all /\ all \ old = {n}
    BY <1>2, <2>1
  <2>3. \A i \in old : g[i] = f[i]
    BY <1>1, <1>2, <1>8, <1>9, <2>1, <2>2
  <2> HIDE DEF old, all, n
  <2>4. Total(g, all) = Total(g, old) + Total(g, {n})
    BY <1>9, <2>2, TotalSplit
  <2>5. Total(g, old) = Total(f, old)
    BY <2>3, TotalSame
  <2>6. Total(g, {n}) = g[n]
    BY <1>1, <1>9, TotalSingle
  <2> QED  BY <1>5, <1>7, <1>8, <1>9, <1>10, <2>1, <2>4, <2>5, <2>6 DEF new
<1> QED  BY <1>11, <1>12

\* What a live entry is.
LEMMA LiveEntry ==
    ASSUME NEW M \in Nat, NEW q \in Seq(Entries(M)), NEW cur \in 0 .. Len(q),
           NEW i \in Live(q, cur)
    PROVE  i \in 1 .. Len(q) /\ q[i].unlockAt \in Nat /\ q[i].amount \in Nat
<1>1. i \in 1 .. Len(q)
  BY DEF Live
<1> QED  BY <1>1, EntryType

\* More entries hold at least as much.
LEMMA AmountInMonotone ==
    ASSUME NEW M \in Nat, NEW q \in Seq(Entries(M)),
           NEW S \in SUBSET (1 .. Len(q)), NEW T \in SUBSET S
    PROVE  /\ AmountIn(q, T) <= AmountIn(q, S)
           /\ AmountIn(q, S) = AmountIn(q, T) + AmountIn(q, S \ T)
<1> DEFINE f == AmountsOf(q)
<1>1. /\ T \in SUBSET (1 .. Len(q)) /\ S \ T \in SUBSET (1 .. Len(q))
  OBVIOUS
<1>2. /\ IsFiniteSet(S) /\ \A i \in S : f[i] \in Nat
      /\ AmountIn(q, S) = Total(f, S)
  BY AmountInIsTotal
<1>3. AmountIn(q, T) = Total(f, T) /\ AmountIn(q, T) \in Nat
  BY <1>1, AmountInIsTotal, AmountInType
<1>4. AmountIn(q, S \ T) = Total(f, S \ T) /\ AmountIn(q, S \ T) \in Nat
  BY <1>1, AmountInIsTotal, AmountInType
<1> HIDE DEF f
<1>5. Total(f, S) = Total(f, T) + Total(f, S \ T)
  BY <1>2, TotalSplit
<1> QED  BY <1>2, <1>3, <1>4, <1>5

\* What can be withdrawn is an amount.
LEMMA WithdrawableType ==
    ASSUME NEW M \in Nat, NEW q \in Seq(Entries(M)), NEW cur \in 0 .. Len(q),
           NEW t \in Nat
    PROVE  WithdrawableIn(q, cur, t) \in Nat
<1>1. Releasable(q, cur, t) \in SUBSET (1 .. Len(q))
  BY DEF Releasable, Live
<1> QED  BY <1>1, AmountInType DEF WithdrawableIn

\* Waiting only adds to what can be withdrawn.
LEMMA WaitingReleases ==
    ASSUME NEW M \in Nat, NEW q \in Seq(Entries(M)), NEW cur \in 0 .. Len(q),
           NEW t \in Nat, NEW u \in Nat, t <= u
    PROVE  WithdrawableIn(q, cur, t) <= WithdrawableIn(q, cur, u)
<1>1. Frozen(q, cur, u) \subseteq Frozen(q, cur, t)
  <2>1. \A i \in Live(q, cur) : q[i].unlockAt \in Nat
    BY LiveEntry
  <2> QED  BY <2>1 DEF Frozen
<1>2. Releasable(q, cur, t) \in SUBSET Releasable(q, cur, u)
  BY <1>1 DEF Releasable
<1>3. Releasable(q, cur, u) \in SUBSET (1 .. Len(q))
  BY DEF Releasable, Live
<1> QED  BY <1>2, <1>3, AmountInMonotone DEF WithdrawableIn

\* Maturing takes the released entries out of the sets a walk is defined by, and
\* nothing else.
LEMMA MaturingLeaves ==
    ASSUME NEW M \in Nat, NEW q \in Seq(Entries(M)), NEW cur \in 0 .. Len(q),
           NEW t \in Nat, NEW max \in Nat
    PROVE  LET m   == Matured(q, cur, t, max)
               out == Released(q, cur, t, max)
           IN  /\ Live(m.queue, m.cursor) = Live(q, cur) \ out
               /\ Frozen(m.queue, m.cursor, t) = Frozen(q, cur, t)
               /\ Releasable(m.queue, m.cursor, t) = Releasable(q, cur, t) \ out
<1> DEFINE q2  == Matured(q, cur, t, max).queue
           c2  == Matured(q, cur, t, max).cursor
           out == Released(q, cur, t, max)
<1>1. /\ q2 \in Seq(Entries(M)) /\ Len(q2) = Len(q)
      /\ c2 \in cur .. Len(q)
  BY MaturedIsAQueue
<1>2. \A i \in 1 .. Len(q) :
        /\ q2[i] = IF i \in out THEN Deleted ELSE q[i]
        /\ i \in out => /\ cur < i /\ i <= c2
                        /\ q[i].amount > 0 /\ q[i].unlockAt <= t
        /\ cur < i /\ i <= c2 /\ q[i].amount > 0 => i \in out
  BY MaturedEntries
<1>3. Len(q) \in Nat /\ cur \in Nat /\ c2 \in Nat
  BY <1>1
<1> HIDE DEF q2, c2, out
<1>4. Live(q2, c2) = Live(q, cur) \ out
  <2>1. ASSUME NEW i \in Live(q2, c2) PROVE i \in Live(q, cur) \ out
    <3>1. i \in c2 + 1 .. Len(q) /\ q2[i].amount > 0
      BY <1>1, <2>1 DEF Live
    <3>2. i \notin out
      BY <1>2, <1>3, <3>1
    <3>3. i \in cur + 1 .. Len(q) /\ i \in 1 .. Len(q)
      BY <1>1, <1>3, <3>1
    <3> QED  BY <1>2, <3>1, <3>2, <3>3 DEF Live
  <2>2. ASSUME NEW i \in Live(q, cur) \ out PROVE i \in Live(q2, c2)
    <3>1. i \in cur + 1 .. Len(q) /\ i \in 1 .. Len(q) /\ q[i].amount > 0 /\ i \notin out
      BY <1>3, <2>2 DEF Live
    <3>2. q2[i] = q[i] /\ ~(i <= c2)
      BY <1>2, <1>3, <3>1
    <3>3. i \in c2 + 1 .. Len(q2)
      BY <1>1, <1>3, <3>1, <3>2
    <3> QED  BY <3>1, <3>2, <3>3 DEF Live
  <2> QED  BY <2>1, <2>2
<1>5. \A i \in Live(q2, c2) : i \in 1 .. Len(q) /\ q2[i] = q[i]
  BY <1>2, <1>3, <1>4 DEF Live
<1>6. Frozen(q2, c2, t) = Frozen(q, cur, t)
  <2>1. \A i \in Live(q, cur) : q[i].unlockAt > t => i \notin out
    <3>1. \A i \in Live(q, cur) : i \in 1 .. Len(q) /\ q[i].unlockAt \in Nat
      BY LiveEntry
    <3> QED  BY <1>2, <3>1
  <2> QED  BY <1>4, <1>5, <2>1 DEF Frozen
<1>7. Releasable(q2, c2, t) = Releasable(q, cur, t) \ out
  BY <1>4, <1>6 DEF Releasable
<1> QED  BY <1>4, <1>6, <1>7 DEF q2, c2, out

\* What maturing releases is no longer in the queue, and nothing else about
\* what can be withdrawn changes; without a cap nothing withdrawable remains.
LEMMA MaturingReleases ==
    ASSUME NEW M \in Nat, NEW q \in Seq(Entries(M)), NEW cur \in 0 .. Len(q),
           NEW t \in Nat, NEW max \in Nat
    PROVE  LET m == Matured(q, cur, t, max)
           IN  /\ WithdrawableIn(q, cur, t)
                    = m.released + WithdrawableIn(m.queue, m.cursor, t)
               /\ max = 0 => WithdrawableIn(m.queue, m.cursor, t) = 0
<1> DEFINE q2  == Matured(q, cur, t, max).queue
           c2  == Matured(q, cur, t, max).cursor
           out == Released(q, cur, t, max)
           may == Releasable(q, cur, t)
<1>1. \A i \in 1 .. Len(q) : q2[i] = IF i \in out THEN Deleted ELSE q[i]
  BY MaturedEntries
<1>2. /\ out \subseteq may /\ may \in SUBSET (1 .. Len(q)) /\ out \in SUBSET may
      /\ max = 0 => out = may
  BY WalkSets DEF Released, Releasable, Live
<1>3. Matured(q, cur, t, max).released = AmountIn(q, out)
  BY DEF Matured
<1>4. Releasable(q2, c2, t) = may \ out
  BY MaturingLeaves
<1> HIDE DEF q2, c2, out
<1>5. AmountIn(q2, may \ out) = AmountIn(q, may \ out)
  <2>1. \A i \in may \ out : q2[i].amount = q[i].amount
    BY <1>1, <1>2
  <2>2. [i \in may \ out |-> q2[i].amount] = [i \in may \ out |-> q[i].amount]
    BY <2>1
  <2> HIDE DEF may
  <2> QED  BY <2>2 DEF AmountIn
<1>6. AmountIn(q, may) = AmountIn(q, out) + AmountIn(q, may \ out)
  <2> HIDE DEF may
  <2> QED  BY <1>2, AmountInMonotone
<1>7. max = 0 => AmountIn(q2, may \ out) = 0
  <2> SUFFICES ASSUME max = 0 PROVE AmountIn(q2, may \ out) = 0
    OBVIOUS
  <2>1. may \ out = {}
    BY <1>2
  <2> QED  BY <2>1, TotalEmpty DEF AmountIn
<1>8. WithdrawableIn(q, cur, t) = AmountIn(q, may)
  BY DEF WithdrawableIn
<1>9. WithdrawableIn(q2, c2, t) = AmountIn(q2, may \ out)
  BY <1>4 DEF WithdrawableIn
<1> HIDE DEF may
<1> QED  BY <1>3, <1>5, <1>6, <1>7, <1>8, <1>9 DEF q2, c2

\* A credit that unlocks later changes nothing about what can be withdrawn.
LEMMA PushingWithholds ==
    ASSUME NEW M \in Nat, NEW q \in Seq(Entries(M)), NEW cur \in 0 .. Len(q),
           NEW t \in Nat, NEW unlock \in Nat \ {0}, NEW amount \in Nat \ {0},
           EntryAmount(q, cur, unlock, amount) <= M,
           WellFormed(q, cur), unlock > t
    PROVE  WithdrawableIn(Pushed(q, cur, unlock, amount), cur, t)
            = WithdrawableIn(q, cur, t)
<1> DEFINE new == Pushed(q, cur, unlock, amount)
           n   == Len(new)
           sum == EntryAmount(q, cur, unlock, amount)
<1>1. /\ n \in cur + 1 .. Len(q) + 1 /\ Len(q) <= n
      /\ \A i \in 1 .. Len(q) : i # n => new[i] = q[i]
      /\ new[n] = [unlockAt |-> unlock, amount |-> sum]
      /\ n = Len(q) => q[n].unlockAt = unlock /\ q[n].amount > 0
      /\ sum > 0
  BY PushedIsAQueue
<1>2. Len(q) \in Nat /\ cur \in Nat
  OBVIOUS
<1> HIDE DEF new, sum
<1>3. n \in Nat /\ new[n].unlockAt = unlock /\ new[n].amount > 0
  BY <1>1, <1>2
<1>4. /\ Live(new, cur) = Live(q, cur) \cup {n}
      /\ \A i \in Live(q, cur) : i # n => i < n /\ new[i] = q[i]
  <2>1. \A i : i \in cur + 1 .. n <=> i \in cur + 1 .. Len(q) \/ i = n
    BY <1>1, <1>2, <1>3
  <2>2. \A i \in cur + 1 .. Len(q) : i # n => i < n /\ new[i] = q[i]
    BY <1>1, <1>2, <1>3
  <2> QED  BY <1>1, <1>3, <2>1, <2>2 DEF Live
<1>5. n \in Live(q, cur) => n \in Frozen(q, cur, t)
  <2>1. n \in Live(q, cur) => n = Len(q)
    BY <1>1, <1>2, <1>3 DEF Live
  <2> QED  BY <1>1, <2>1 DEF Frozen
<1>6. Frozen(new, cur, t) = Frozen(q, cur, t) \cup {n}
  BY <1>3, <1>4, <1>5 DEF Frozen
<1>7. Releasable(new, cur, t) = Releasable(q, cur, t)
  <2>1. \A i \in Releasable(new, cur, t) : i # n /\ i \in Live(q, cur)
    BY <1>3, <1>4, <1>6 DEF Releasable
  <2>2. \A i \in Releasable(q, cur, t) : i # n
    <3>1. \A i \in Live(q, cur) : ~(i < i)
      BY <1>2 DEF Live
    <3> QED  BY <1>5, <3>1 DEF Releasable
  <2> QED  BY <1>4, <1>6, <2>1, <2>2 DEF Releasable
<1>8. \A i \in Releasable(q, cur, t) : new[i].amount = q[i].amount
  BY <1>3, <1>4, <1>6, <1>7 DEF Releasable
<1>9. AmountIn(new, Releasable(q, cur, t)) = AmountIn(q, Releasable(q, cur, t))
  <2> DEFINE S == Releasable(q, cur, t)
  <2>1. \A i \in S : new[i].amount = q[i].amount
    BY <1>8
  <2> HIDE DEF S
  <2>2. [i \in S |-> new[i].amount] = [i \in S |-> q[i].amount]
    BY <2>1
  <2>3. AmountIn(new, S) = AmountIn(q, S)
    BY <2>2 DEF AmountIn
  <2> QED  BY <2>3 DEF S
<1>10. WithdrawableIn(new, cur, t) = WithdrawableIn(q, cur, t)
  BY <1>7, <1>9 DEF WithdrawableIn
<1> QED  BY <1>10 DEF new
=============================================================================
