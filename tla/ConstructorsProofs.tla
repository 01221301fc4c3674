------------------------- MODULE ConstructorsProofs -------------------------
(***************************************************************************)
(* Lemmas about sort_constructors and the if-else chain that is printed    *)
(* from what it makes, for every list of constructors.  InvocationProofs   *)
(* uses them for the lists that the constructors' parameters give.         *)
(***************************************************************************)
EXTENDS Constructors, SequenceFacts

(* A file with constructors. *)
IsAList == constructors \in Seq(Signature) /\ constructors # << >>

LEMMA GreatestIsMax ==
  ASSUME NEW T, T \subseteq Nat, T # {}, NEW n \in Nat, \A y \in T : y <= n
  PROVE  Max(T) \in T /\ \A y \in T : y <= Max(T)
<1>1. \E x \in T : \A y \in T : x >= y
  <2>1. PICK x \in T : \A y \in T : y <= x
    BY GreatestNumber
  <2>2. \A y \in T : x >= y
    BY <2>1
  <2>. QED BY <2>2
<1>2. Max(T) \in T /\ \A y \in T : Max(T) >= y
  BY <1>1 DEF Max
<1>. QED BY <1>2

LEMMA LeastIsMin ==
  ASSUME NEW T, T \subseteq Nat, T # {}
  PROVE  Min(T) \in T /\ \A y \in T : Min(T) <= y
<1>1. \E x \in T : \A y \in T : x =< y
  BY LeastNumber
<1>. QED BY <1>1 DEF Min

LEMMA SignatureFacts ==
  ASSUME NEW c \in Signature
  PROVE  /\ c.required \in Nat /\ c.variadic \in BOOLEAN
         /\ optional_count(c) \in Nat
         /\ argument_count(c) \in Nat
         /\ argument_count(c) = c.required + optional_count(c)
BY DEF Signature, optional_count, argument_count, One

(* A finite list has a constructor with the most parameters. *)
LEMMA CountsAreBounded ==
  ASSUME IsAList
  PROVE  \E n \in Nat : \A i \in Positions : argument_count(constructors[i]) <= n
<1>. DEFINE c == constructors
            T == {m \in Nat : m <= Len(c) =>
                     \E n \in Nat : \A i \in 1 .. m : argument_count(c[i]) <= n}
<1>1. 0 \in T
  <2>1. \A i \in 1 .. 0 : FALSE
    OBVIOUS
  <2>. QED BY <2>1
<1>2. ASSUME NEW m \in Nat, m \in T
      PROVE  m + 1 \in T
  <2>. SUFFICES ASSUME m + 1 <= Len(c)
                PROVE  \E n \in Nat : \A i \in 1 .. m + 1 : argument_count(c[i]) <= n
    OBVIOUS
  <2>1. Len(c) \in Nat /\ \A i \in 1 .. Len(c) : c[i] \in Signature
    BY Members DEF IsAList
  <2>2. \A i \in 1 .. m + 1 : argument_count(c[i]) \in Nat
    BY <2>1, SignatureFacts
  <2>3. PICK n \in Nat : \A i \in 1 .. m : argument_count(c[i]) <= n
    BY <1>2, <2>1
  <2>. DEFINE count(i) == argument_count(c[i])
  <2>. HIDE DEF count
  <2>4. count(m + 1) \in Nat /\ n + count(m + 1) \in Nat
    BY <2>2 DEF count
  <2>5. \A i \in 1 .. m + 1 : count(i) <= n + count(m + 1)
    <3>1. \A i \in 1 .. m + 1 : (i \in 1 .. m \/ i = m + 1) /\ count(i) \in Nat
      BY <2>2 DEF count
    <3>2. \A i \in 1 .. m : count(i) <= n
      BY <2>3 DEF count
    <3>. QED BY <2>4, <3>1, <3>2
  <2>. QED BY <2>4, <2>5 DEF count
<1>3. Len(c) \in Nat
  BY Members DEF IsAList
<1>4. Len(c) \in T
  <2>. HIDE DEF T
  <2>. QED BY <1>1, <1>2, <1>3, Induction
<1>. QED BY <1>3, <1>4 DEF Positions

(* What is true of all lists. *)
LEMMA ListFacts ==
  ASSUME IsAList
  PROVE  /\ Len(constructors) \in Nat /\ Positions = 1 .. Len(constructors)
         /\ \A i \in Positions : constructors[i] \in Signature
         /\ LastBucket \in Nat /\ saw_a_variadic \in BOOLEAN
         /\ \A i \in Positions : argument_count(constructors[i]) + One(saw_a_variadic) <= LastBucket
<1>. DEFINE counts == {argument_count(constructors[i]) : i \in Positions}
<1>1. /\ Len(constructors) \in Nat /\ Positions = 1 .. Len(constructors)
      /\ \A i \in Positions : constructors[i] \in Signature
  BY Members DEF IsAList, Positions
<1>2. \A i \in Positions : argument_count(constructors[i]) \in Nat
  BY <1>1, SignatureFacts
<1>3. 1 \in Positions
  <2>1. Len(constructors) # 0
    BY EmptySeq DEF IsAList
  <2>. QED BY <1>1, <2>1
<1>4. /\ Max(counts) \in counts
      /\ \A y \in counts : y <= Max(counts)
  <2>1. counts \subseteq Nat /\ counts # {}
    BY <1>2, <1>3
  <2>2. PICK n \in Nat : \A i \in Positions : argument_count(constructors[i]) <= n
    BY CountsAreBounded
  <2>3. \A y \in counts : y <= n
    BY <2>2
  <2>. HIDE DEF counts
  <2>. QED BY <2>1, <2>3, GreatestIsMax
<1>5. Max(counts) \in Nat /\ \A i \in Positions : argument_count(constructors[i]) <= Max(counts)
  BY <1>2, <1>4
<1>6. LastBucket = Max(counts) + One(saw_a_variadic)
  BY DEF LastBucket
<1>7. saw_a_variadic \in BOOLEAN /\ One(saw_a_variadic) \in {0, 1}
  BY DEF saw_a_variadic, One
<1>. HIDE DEF counts
<1>. QED BY <1>1, <1>2, <1>5, <1>6, <1>7

----------------------------------------------------------------------------
(* Filling the buckets.                                                     *)

(* A bucket is filled with the constructors that can be called with its     *)
(* number of arguments.                                                     *)
LEMMA BucketsOfAConstructor ==
  ASSUME IsAList, NEW i \in Positions, NEW n \in 0 .. LastBucket
  PROVE  Callable(i, n) <=> \/ argument_count(constructors[i]) = n
                            \/ n \in OtherBuckets(constructors[i])
<1>. DEFINE c == constructors[i]
            count == argument_count(c)
<1>1. /\ c.required \in Nat /\ c.variadic \in BOOLEAN /\ optional_count(c) \in Nat
      /\ count \in Nat /\ count = c.required + optional_count(c) /\ LastBucket \in Nat
  <2>1. c \in Signature /\ LastBucket \in Nat
    BY ListFacts
  <2>. QED BY <2>1, SignatureFacts
<1>2. Callable(i, n) <=> n >= c.required /\ (c.variadic \/ n <= count)
  BY DEF Callable
<1>. DEFINE low == {count - k : k \in 1 .. optional_count(c)}
            high == IF c.variadic THEN count + 1 .. LastBucket ELSE {}
<1>4. OtherBuckets(c) = low \cup high
  BY DEF OtherBuckets
<1>. HIDE DEF c, count
<1>5. n \in low <=> n >= c.required /\ n < count
  <2>1. ASSUME n >= c.required, n < count
        PROVE  n \in low
    <3>1. count - n \in 1 .. optional_count(c) /\ n = count - (count - n)
      BY <1>1, <2>1
    <3>. QED BY <3>1
  <2>2. ASSUME NEW k \in 1 .. optional_count(c), n = count - k
        PROVE  n >= c.required /\ n < count
    BY <1>1, <2>2
  <2>. QED BY <2>1, <2>2
<1>6. n \in high <=> c.variadic /\ n > count
  BY <1>1
<1>7. Callable(i, n) <=> count = n \/ n \in low \/ n \in high
  <2>. HIDE DEF low, high
  <2>. QED BY <1>1, <1>2, <1>5, <1>6
<1>. QED BY <1>4, <1>7 DEF c, count

(* The walk along the bucket keeps it in the order of the file. *)
LEMMA InsertedInOrder ==
  ASSUME NEW max \in Nat, NEW S, S \subseteq 1 .. max, NEW i \in 1 .. max
  PROVE  InsertInto(Increasing(S, max), i) = Increasing(S \cup {i}, max)
<1>. DEFINE b     == Increasing(S, max)
            Later == {k \in 1 .. Len(b) : b[k] >= i}
            later == SelectInSeq(b, LAMBDA j : j >= i)
            new   == Increasing(S \cup {i}, max)
<1>1. b \in Seq(Nat) /\ ToSet(b) = S /\ Ascending(b)
  BY IncreasingFacts
<1>2. new \in Seq(Nat) /\ ToSet(new) = S \cup {i} /\ Ascending(new)
  BY IncreasingFacts
<1>3. later = IF Later # {} THEN Min(Later) ELSE 0
  BY DEF SelectInSeq
<1>4. InsertInto(b, i) = IF later = 0 THEN Append(b, i)
                         ELSE IF b[later] = i THEN b
                         ELSE InsertAt(b, later, i)
  BY DEF InsertInto
<1>5. /\ Len(b) \in Nat /\ \A k \in 1 .. Len(b) : b[k] \in Nat
      /\ \A e : e \in S <=> \E k \in 1 .. Len(b) : b[k] = e
  BY <1>1, Members
<1>6. Later \subseteq Nat /\ \A k \in Later : k \in 1 .. Len(b) /\ b[k] >= i
  OBVIOUS
<1>7. \A k \in 1 .. Len(b) : k \notin Later => b[k] < i
  BY <1>5
<1>. HIDE DEF b, new, Later, later
<1>8. CASE Later = {}
  <2>1. InsertInto(b, i) = Append(b, i)
    BY <1>3, <1>4, <1>8
  <2>2. /\ Append(b, i) \in Seq(Nat) /\ Len(Append(b, i)) = Len(b) + 1
        /\ \A k \in 1 .. Len(b) : Append(b, i)[k] = b[k]
        /\ Append(b, i)[Len(b) + 1] = i
    BY <1>1, AppendProperties
  <2>. DEFINE a == Append(b, i)
  <2>. HIDE DEF a
  <2>3. \A k \in 1 .. Len(b) + 1 : k \in 1 .. Len(b) \/ k = Len(b) + 1
    BY <1>5
  <2>4. Ascending(a)
    <3>. SUFFICES ASSUME NEW j \in 1 .. Len(b) + 1, NEW k \in 1 .. Len(b) + 1, j < k
                  PROVE  a[j] < a[k]
      BY <2>2 DEF Ascending, a
    <3>1. j \in 1 .. Len(b) /\ a[j] = b[j]
      BY <1>5, <2>2 DEF a
    <3>2. CASE k = Len(b) + 1
      BY <1>7, <1>8, <2>2, <3>1, <3>2 DEF a
    <3>3. CASE k \in 1 .. Len(b)
      BY <1>1, <2>2, <3>1, <3>3 DEF Ascending, a
    <3>. QED BY <2>3, <3>2, <3>3
  <2>5. ToSet(a) = S \cup {i}
    <3>1. \A e : e \in ToSet(a) <=> \E k \in 1 .. Len(b) + 1 : a[k] = e
      <4>1. a \in Seq(Nat) /\ Len(a) = Len(b) + 1
        BY <2>2 DEF a
      <4>. QED BY <4>1, Members
    <3>2. /\ \A k \in 1 .. Len(b) : a[k] = b[k] /\ k \in 1 .. Len(b) + 1
          /\ a[Len(b) + 1] = i /\ Len(b) + 1 \in 1 .. Len(b) + 1
      BY <1>5, <2>2 DEF a
    <3>. QED BY <1>5, <2>3, <3>1, <3>2
  <2>6. a = new
    BY <1>2, <2>2, <2>4, <2>5, AscendingIsUnique DEF a
  <2>. QED BY <2>1, <2>6 DEF a, b, new
<1>9. CASE Later # {}
  <2>1. later \in Later /\ \A k \in Later : later <= k
    BY <1>3, <1>6, <1>9, LeastIsMin
  <2>2. later \in 1 .. Len(b) /\ later # 0 /\ b[later] >= i /\ later \in Nat
    BY <1>5, <1>6, <2>1
  <2>3. \A k \in 1 .. Len(b) : k < later => b[k] < i
    <3>. TAKE k \in 1 .. Len(b)
    <3>. HAVE k < later
    <3>1. k \notin Later
      BY <2>1, <2>2
    <3>. QED BY <1>7, <3>1
  <2>4. CASE b[later] = i
    <3>1. i \in S
      BY <1>5, <2>2, <2>4
    <3>2. S \cup {i} = S
      BY <3>1
    <3>. QED BY <1>4, <2>2, <2>4, <3>2 DEF b
  <2>5. CASE b[later] # i
    <3>. DEFINE a == InsertAt(b, later, i)
    <3>1. /\ a \in Seq(Nat) /\ Len(a) = Len(b) + 1
          /\ \A k \in 1 .. Len(b) + 1 :
                a[k] = IF k < later THEN b[k] ELSE IF k = later THEN i ELSE b[k - 1]
      <4>1. i \in Nat
        OBVIOUS
      <4>. HIDE DEF a
      <4>. DEFINE Numbers == Nat
      <4>2. b \in Seq(Numbers) /\ later \in 1 .. Len(b) /\ i \in Numbers
        BY <1>1, <2>2, <4>1
      <4>. HIDE DEF Numbers
      <4>3. /\ InsertAt(b, later, i) \in Seq(Numbers) /\ Len(InsertAt(b, later, i)) = Len(b) + 1
            /\ \A k \in 1 .. Len(b) + 1 :
                  InsertAt(b, later, i)[k] =
                     IF k < later THEN b[k] ELSE IF k = later THEN i ELSE b[k - 1]
        BY <4>2, InsertAtFacts
      <4>. QED BY <4>3 DEF a, Numbers
    <3>. HIDE DEF a
    <3>2. \A k \in 1 .. Len(b) : later <= k => b[k] > i
      <4>. TAKE k \in 1 .. Len(b)
      <4>. HAVE later <= k
      <4>1. b[later] > i /\ b[later] \in Nat /\ b[k] \in Nat
        BY <1>5, <2>2, <2>5
      <4>2. later < k => b[later] < b[k]
        BY <1>1, <2>2 DEF Ascending
      <4>3. later = k \/ later < k
        BY <2>2
      <4>. QED BY <4>1, <4>2, <4>3
    <3>3. Ascending(a)
      <4>. SUFFICES ASSUME NEW j \in 1 .. Len(b) + 1, NEW k \in 1 .. Len(b) + 1, j < k
                    PROVE  a[j] < a[k]
        BY <3>1 DEF Ascending
      <4>1. CASE k < later
        <5>1. j \in 1 .. Len(b) /\ k \in 1 .. Len(b) /\ j < later
          BY <1>5, <2>2, <4>1
        <5>. QED BY <1>1, <3>1, <4>1, <5>1 DEF Ascending
      <4>2. CASE k = later
        <5>1. j \in 1 .. Len(b) /\ j < later
          BY <1>5, <2>2, <4>2
        <5>2. a[j] = b[j] /\ a[k] = i
          BY <2>2, <3>1, <4>2, <5>1
        <5>3. b[j] < i
          BY <2>3, <5>1
        <5>. QED BY <5>2, <5>3
      <4>3. CASE k > later
        <5>1. k - 1 \in 1 .. Len(b) /\ later <= k - 1 /\ a[k] = b[k - 1]
          BY <1>5, <2>2, <3>1, <4>3
        <5>2. b[k - 1] > i /\ b[k - 1] \in Nat
          BY <1>5, <3>2, <5>1
        <5>3. CASE j < later
          <6>1. j \in 1 .. Len(b) /\ a[j] = b[j]
            BY <1>5, <2>2, <3>1, <5>3
          <6>2. b[j] < i /\ b[j] \in Nat
            BY <1>5, <2>3, <5>3, <6>1
          <6>. QED BY <5>1, <5>2, <6>1, <6>2
        <5>4. CASE j = later
          <6>1. a[j] = i
            BY <3>1, <5>4
          <6>. QED BY <5>1, <5>2, <6>1
        <5>5. CASE j > later
          <6>1. j - 1 \in 1 .. Len(b) /\ j - 1 < k - 1 /\ a[j] = b[j - 1]
            BY <1>5, <2>2, <3>1, <5>5
          <6>. QED BY <1>1, <5>1, <6>1 DEF Ascending
        <5>. QED BY <2>2, <5>3, <5>4, <5>5
      <4>. QED BY <2>2, <4>1, <4>2, <4>3
    <3>4. ToSet(a) = S \cup {i}
      <4>1. \A e : e \in ToSet(a) <=> \E k \in 1 .. Len(b) + 1 : a[k] = e
        BY <3>1, Members
      <4>2. ASSUME NEW k \in 1 .. Len(b) + 1
            PROVE  a[k] \in S \cup {i}
        <5>1. CASE k < later
          <6>1. k \in 1 .. Len(b) /\ a[k] = b[k]
            BY <1>5, <2>2, <3>1, <5>1
          <6>. QED BY <1>5, <6>1
        <5>2. CASE k = later
          BY <3>1, <5>2
        <5>3. CASE k > later
          <6>1. k - 1 \in 1 .. Len(b) /\ a[k] = b[k - 1]
            BY <1>5, <2>2, <3>1, <5>3
          <6>. QED BY <1>5, <6>1
        <5>. QED BY <2>2, <5>1, <5>2, <5>3
      <4>3. ASSUME NEW e \in S
            PROVE  \E k \in 1 .. Len(b) + 1 : a[k] = e
        <5>1. PICK k \in 1 .. Len(b) : b[k] = e
          BY <1>5
        <5>2. CASE k < later
          <6>1. k \in 1 .. Len(b) + 1 /\ a[k] = b[k]
            BY <1>5, <3>1, <5>2
          <6>. QED BY <5>1, <6>1
        <5>3. CASE later <= k
          <6>1. /\ k + 1 \in 1 .. Len(b) + 1 /\ ~ (k + 1 < later) /\ k + 1 # later
                /\ (k + 1) - 1 = k
            BY <1>5, <2>2, <5>3
          <6>2. a[k + 1] = b[k]
            BY <3>1, <6>1
          <6>. QED BY <5>1, <6>1, <6>2
        <5>. QED BY <2>2, <5>2, <5>3
      <4>4. later \in 1 .. Len(b) + 1 /\ a[later] = i
        BY <1>5, <2>2, <3>1
      <4>. QED BY <4>1, <4>2, <4>3, <4>4
    <3>5. a = new
      BY <1>2, <3>1, <3>3, <3>4, AscendingIsUnique
    <3>6. InsertInto(b, i) = a
      BY <1>4, <2>2, <2>5 DEF a
    <3>. QED BY <3>5, <3>6 DEF b, new
  <2>. QED BY <2>4, <2>5
<1>. QED BY <1>8, <1>9

(* The constructors in bucket n when the second loop has placed i of them. *)
InBucket(n, i) ==
  {j \in Positions : \/ argument_count(constructors[j]) = n
                     \/ j <= i /\ n \in OtherBuckets(constructors[j])}
BucketAfter(n, i) == Increasing(InBucket(n, i), Len(constructors))

LEMMA PlaceConstructor ==
  ASSUME IsAList, NEW n, NEW i \in 1 .. Len(constructors)
  PROVE  BucketAfter(n, i) = IF n \in OtherBuckets(constructors[i])
                             THEN InsertInto(BucketAfter(n, i - 1), i)
                             ELSE BucketAfter(n, i - 1)
<1>1. Len(constructors) \in Nat /\ Positions = 1 .. Len(constructors)
  BY ListFacts
<1>2. \A j \in Positions : j <= i <=> j <= i - 1 \/ j = i
  BY <1>1
<1>3. CASE n \in OtherBuckets(constructors[i])
  <2>1. InBucket(n, i) = InBucket(n, i - 1) \cup {i}
    BY <1>1, <1>2, <1>3 DEF InBucket
  <2>2. InBucket(n, i - 1) \subseteq 1 .. Len(constructors)
    BY <1>1 DEF InBucket
  <2>3. InsertInto(BucketAfter(n, i - 1), i) = Increasing(InBucket(n, i - 1) \cup {i}, Len(constructors))
    BY <1>1, <2>2, InsertedInOrder DEF BucketAfter
  <2>. QED BY <1>3, <2>1, <2>3 DEF BucketAfter
<1>4. CASE n \notin OtherBuckets(constructors[i])
  <2>1. InBucket(n, i) = InBucket(n, i - 1)
    BY <1>1, <1>2, <1>4 DEF InBucket
  <2>. QED BY <1>4, <2>1 DEF BucketAfter
<1>. QED BY <1>3, <1>4

LEMMA BucketsAreFilled ==
  ASSUME IsAList, NEW n \in 0 .. LastBucket
  PROVE  FilledBucket(n) = CallableInOrder(n)
<1>. DEFINE M == Len(constructors)
            IsFilled(f) == f = [i \in 0 .. M |->
                                  IF i = 0 THEN CountedBucket(n)
                                  ELSE IF n \in OtherBuckets(constructors[i])
                                       THEN InsertInto(f[i - 1], i)
                                  ELSE f[i - 1]]
            w == [i \in 0 .. M |-> BucketAfter(n, i)]
            filled == CHOOSE f : IsFilled(f)
<1>1. M \in Nat /\ Positions = 1 .. M
  BY ListFacts
<1>2. BucketAfter(n, 0) = CountedBucket(n)
  <2>1. \A j \in Positions : ~ (j <= 0)
    BY <1>1
  <2>2. InBucket(n, 0) = {j \in Positions : argument_count(constructors[j]) = n}
    BY <2>1 DEF InBucket
  <2>. QED BY <2>2 DEF BucketAfter, CountedBucket
<1>3. IsFilled(w)
  <2>1. \A i \in 0 .. M : i # 0 => i \in 1 .. M /\ i - 1 \in 0 .. M
    BY <1>1
  <2>2. \A i \in 0 .. M : w[i] = BucketAfter(n, i)
    OBVIOUS
  <2>3. w = [i \in 0 .. M |-> w[i]]
    OBVIOUS
  <2>. HIDE DEF w
  <2>4. \A i \in 0 .. M : w[i] = IF i = 0 THEN CountedBucket(n)
                                 ELSE IF n \in OtherBuckets(constructors[i])
                                      THEN InsertInto(w[i - 1], i)
                                 ELSE w[i - 1]
    BY <1>2, <2>1, <2>2, PlaceConstructor
  <2>. QED BY <2>3, <2>4
<1>4. FilledBucket(n) = filled[M]
  BY DEF FilledBucket
<1>5. IsFilled(filled)
  <2>. HIDE DEF IsFilled
  <2>. QED BY <1>3
<1>. HIDE DEF filled, w
<1>6. \A i \in 0 .. M : filled[i] = IF i = 0 THEN CountedBucket(n)
                                    ELSE IF n \in OtherBuckets(constructors[i])
                                         THEN InsertInto(filled[i - 1], i)
                                    ELSE filled[i - 1]
  BY <1>5
<1>. DEFINE T == {i \in Nat : i <= M => filled[i] = BucketAfter(n, i)}
<1>7. 0 \in T
  BY <1>1, <1>2, <1>6
<1>8. ASSUME NEW i \in Nat, i \in T
      PROVE  i + 1 \in T
  <2>. SUFFICES ASSUME i + 1 <= M
                PROVE  filled[i + 1] = BucketAfter(n, i + 1)
    OBVIOUS
  <2>1. i + 1 \in 1 .. M /\ i + 1 \in 0 .. M /\ (i + 1) - 1 = i /\ i + 1 # 0
    BY <1>1
  <2>2. filled[i] = BucketAfter(n, i)
    BY <1>1, <1>8, <2>1
  <2>3. BucketAfter(n, i + 1) = IF n \in OtherBuckets(constructors[i + 1])
                                THEN InsertInto(BucketAfter(n, i), i + 1)
                                ELSE BucketAfter(n, i)
    BY <2>1, PlaceConstructor
  <2>4. filled[i + 1] = IF n \in OtherBuckets(constructors[i + 1])
                        THEN InsertInto(filled[i], i + 1)
                        ELSE filled[i]
    BY <1>6, <2>1
  <2>. QED BY <2>2, <2>3, <2>4
<1>9. filled[M] = BucketAfter(n, M)
  <2>1. M \in T
    <3>. HIDE DEF T
    <3>. QED BY <1>1, <1>7, <1>8, Induction
  <2>. QED BY <1>1, <2>1
<1>10. InBucket(n, M) = {i \in Positions : Callable(i, n)}
  <2>1. \A j \in Positions : j <= M
    BY <1>1
  <2>. QED BY <2>1, BucketsOfAConstructor DEF InBucket
<1>. QED BY <1>4, <1>9, <1>10 DEF BucketAfter, CallableInOrder

----------------------------------------------------------------------------
(* Collapsing the buckets.                                                  *)

(* The constructors that can be called, in the order of the file. *)
LEMMA OrderFacts ==
  ASSUME IsAList, NEW n
  PROVE  /\ CallableInOrder(n) \in Seq(Positions) /\ CallableInOrder(n) \in Seq(Nat)
         /\ Ascending(CallableInOrder(n))
         /\ \A i \in ToSet(CallableInOrder(n)) : i \in Positions /\ Callable(i, n)
         /\ \A i \in Positions : Callable(i, n) => i \in ToSet(CallableInOrder(n))
<1>1. Len(constructors) \in Nat /\ Positions = 1 .. Len(constructors)
  BY ListFacts
<1>. DEFINE S == {i \in Positions : Callable(i, n)}
<1>2. S \subseteq 1 .. Len(constructors) /\ CallableInOrder(n) = Increasing(S, Len(constructors))
  BY <1>1 DEF CallableInOrder
<1>3. /\ CallableInOrder(n) \in Seq(Positions) /\ CallableInOrder(n) \in Seq(Nat)
      /\ Ascending(CallableInOrder(n)) /\ ToSet(CallableInOrder(n)) = S
  <2>. HIDE DEF S
  <2>. QED BY <1>1, <1>2, IncreasingFacts
<1>. QED BY <1>3

Buckets == [0 .. LastBucket -> Seq(Nat)]
BucketState ==
  [buckets : Buckets, previous : 0 .. LastBucket, greater_than : [0 .. LastBucket -> BOOLEAN]]

(* p is the last bucket up to n that is left. *)
IsLastLeft(buckets, p, n) ==
  /\ p \in 0 .. n
  /\ buckets[p] # << >>
  /\ \A q \in p + 1 .. n : buckets[q] = << >>

(* Two numbers of arguments have the same constructors, or p stands for all  *)
(* the higher numbers.                                                       *)
Widened(p) ==
  \/ saw_a_variadic /\ p = LastBucket
  \/ \E q \in 0 .. LastBucket : /\ q # p /\ CallableInOrder(q) = CallableInOrder(p)
                                /\ CallableInOrder(p) # << >>

(* What the loop has done when it is past bucket k. *)
CollapsedUpTo(s, k) ==
  /\ s \in BucketState
  /\ \A n \in 0 .. LastBucket :
        \/ s.buckets[n] = CallableInOrder(n)
        \/ n <= k /\ s.buckets[n] = << >>
  /\ s.previous <= k
  /\ s.buckets[s.previous] = CallableInOrder(s.previous)
  /\ \A q \in s.previous + 1 .. k : s.buckets[q] = << >>
  /\ saw_a_variadic => s.greater_than[LastBucket]
  /\ \A p \in 0 .. LastBucket : s.greater_than[p] => Widened(p)
  /\ \A n \in 0 .. k : CallableInOrder(n) # << >> =>
        \E p \in 0 .. n : /\ IsLastLeft(s.buckets, p, n)
                          /\ CallableInOrder(p) = CallableInOrder(n)
                          /\ p = n \/ s.greater_than[p]

StateBefore ==
  [buckets |-> [n \in 0 .. LastBucket |-> FilledBucket(n)], previous |-> 0,
   greater_than |-> [n \in 0 .. LastBucket |-> saw_a_variadic /\ n = LastBucket]]

LEMMA BeforeCollapsing ==
  ASSUME IsAList
  PROVE  CollapsedUpTo(StateBefore, 0)
<1>. DEFINE s == StateBefore
<1>1. LastBucket \in Nat /\ saw_a_variadic \in BOOLEAN
  BY ListFacts
<1>2. \A n \in 0 .. LastBucket : FilledBucket(n) = CallableInOrder(n) /\ CallableInOrder(n) \in Seq(Nat)
  BY BucketsAreFilled, OrderFacts
<1>3. /\ s \in BucketState /\ s.previous = 0
      /\ \A n \in 0 .. LastBucket : s.buckets[n] = CallableInOrder(n)
      /\ saw_a_variadic => s.greater_than[LastBucket]
  BY <1>1, <1>2 DEF StateBefore, BucketState, Buckets
<1>4. ASSUME NEW p \in 0 .. LastBucket, s.greater_than[p]
      PROVE  saw_a_variadic /\ p = LastBucket
  BY <1>4 DEF StateBefore
<1>. HIDE DEF s
<1>5. 0 \in 0 .. LastBucket /\ \A q \in 0 + 1 .. 0 : FALSE
  BY <1>1
<1>6. \A n \in 0 .. 0 : CallableInOrder(n) # << >> =>
         \E p \in 0 .. n : /\ IsLastLeft(s.buckets, p, n)
                           /\ CallableInOrder(p) = CallableInOrder(n)
                           /\ p = n \/ s.greater_than[p]
  <2>. SUFFICES ASSUME NEW n \in 0 .. 0, CallableInOrder(n) # << >>
                PROVE  IsLastLeft(s.buckets, n, n) /\ n \in 0 .. n
    OBVIOUS
  <2>1. n = 0 /\ \A q \in n + 1 .. n : FALSE
    OBVIOUS
  <2>. QED BY <1>3, <1>5, <2>1 DEF IsLastLeft
<1>. QED BY <1>3, <1>4, <1>5, <1>6 DEF CollapsedUpTo, Widened, s

LEMMA CollapseType ==
  ASSUME IsAList, NEW s \in BucketState, NEW k \in 0 .. LastBucket
  PROVE  Collapse(s, k) \in BucketState
<1>1. << >> \in Seq(Nat)
  OBVIOUS
<1>2. s.previous \in 0 .. LastBucket /\ s.buckets \in Buckets
      /\ s.greater_than \in [0 .. LastBucket -> BOOLEAN]
  BY DEF BucketState
<1>3. [s EXCEPT !.buckets[k] = << >>, !.greater_than[s.previous] = TRUE] \in BucketState
  BY <1>1, <1>2 DEF BucketState, Buckets
<1>4. [s EXCEPT !.previous = k] \in BucketState
  BY DEF BucketState
<1>. QED BY <1>3, <1>4 DEF Collapse

LEMMA CollapseStep ==
  ASSUME IsAList, NEW k \in Nat, k + 1 <= LastBucket, NEW s, CollapsedUpTo(s, k)
  PROVE  CollapsedUpTo(Collapse(s, k + 1), k + 1)
<1>. DEFINE c == k + 1
            t == Collapse(s, c)
<1>1. /\ LastBucket \in Nat /\ c \in 0 .. LastBucket /\ ~ (c <= k)
      /\ \A n \in 0 .. c : n \in 0 .. k \/ n = c
  BY ListFacts
<1>2. /\ s \in BucketState
      /\ \A n \in 0 .. LastBucket : \/ s.buckets[n] = CallableInOrder(n)
                                    \/ n <= k /\ s.buckets[n] = << >>
      /\ s.previous <= k
      /\ s.buckets[s.previous] = CallableInOrder(s.previous)
      /\ \A q \in s.previous + 1 .. k : s.buckets[q] = << >>
      /\ saw_a_variadic => s.greater_than[LastBucket]
      /\ \A p \in 0 .. LastBucket : s.greater_than[p] => Widened(p)
      /\ \A n \in 0 .. k : CallableInOrder(n) # << >> =>
            \E p \in 0 .. n : /\ IsLastLeft(s.buckets, p, n)
                              /\ CallableInOrder(p) = CallableInOrder(n)
                              /\ p = n \/ s.greater_than[p]
  BY DEF CollapsedUpTo
<1>3. /\ s.previous \in 0 .. LastBucket /\ s.buckets \in Buckets
      /\ s.greater_than \in [0 .. LastBucket -> BOOLEAN]
  BY <1>2 DEF BucketState
<1>4. s.buckets[c] = CallableInOrder(c)
  BY <1>1, <1>2
<1>5. t \in BucketState
  BY <1>1, <1>2, CollapseType
<1>. HIDE DEF c
<1>6. /\ \A n \in 0 .. k : t.buckets[n] = s.buckets[n]
      /\ \A n \in 0 .. LastBucket : n # c => t.buckets[n] = s.buckets[n]
      /\ \A n \in 0 .. LastBucket : s.greater_than[n] => t.greater_than[n]
      /\ \A n \in 0 .. LastBucket : t.greater_than[n] =>
            \/ s.greater_than[n]
            \/ n = s.previous /\ s.buckets[c] # << >> /\ s.buckets[c] = s.buckets[s.previous]
      /\ t.previous \in {s.previous, c}
      /\ \/ s.buckets[c] = << >> /\ t = s
         \/ /\ s.buckets[c] # << >> /\ s.buckets[c] = s.buckets[s.previous]
            /\ t.buckets[c] = << >> /\ t.greater_than[s.previous] /\ t.previous = s.previous
         \/ /\ s.buckets[c] # << >>
            /\ t.buckets[c] = s.buckets[c] /\ t.previous = c
  <2>1. CASE s.buckets[c] = << >>
    <3>1. t = s
      BY <2>1 DEF Collapse
    <3>. QED BY <2>1, <3>1
  <2>2. CASE s.buckets[c] # << >> /\ s.buckets[c] = s.buckets[s.previous]
    <3>1. t = [s EXCEPT !.buckets[c] = << >>, !.greater_than[s.previous] = TRUE]
      BY <2>2 DEF Collapse
    <3>2. /\ t.buckets = [s.buckets EXCEPT ![c] = << >>]
          /\ t.greater_than = [s.greater_than EXCEPT ![s.previous] = TRUE]
          /\ t.previous = s.previous
      BY <1>2, <3>1 DEF BucketState
    <3>3. \A n \in 0 .. k : n # c /\ n \in 0 .. LastBucket
      BY <1>1 DEF c
    <3>. HIDE DEF t
    <3>. QED BY <1>1, <1>3, <2>2, <3>2, <3>3 DEF Buckets
  <2>3. CASE s.buckets[c] # << >> /\ s.buckets[c] # s.buckets[s.previous]
    <3>1. t = [s EXCEPT !.previous = c]
      BY <2>3 DEF Collapse
    <3>2. t.buckets = s.buckets /\ t.greater_than = s.greater_than /\ t.previous = c
      BY <1>2, <3>1 DEF BucketState
    <3>. QED BY <2>3, <3>2
  <2>. QED BY <2>1, <2>2, <2>3
<1>. HIDE DEF t
<1>7. k <= c /\ c = k + 1 /\ c \in Nat
  BY DEF c
<1>8. \A n \in 0 .. LastBucket :
         t.buckets[n] = CallableInOrder(n) \/ (n <= c /\ t.buckets[n] = << >>)
  <2>. TAKE n \in 0 .. LastBucket
  <2>1. CASE n = c
    <3>1. c <= c
      BY <1>7
    <3>2. t.buckets[c] = << >> \/ t.buckets[c] = s.buckets[c]
      BY <1>6
    <3>. QED BY <1>4, <2>1, <3>1, <3>2
  <2>2. CASE n # c
    <3>1. t.buckets[n] = s.buckets[n]
      BY <1>6, <2>2
    <3>2. n <= k => n <= c
      BY <1>1, <1>7
    <3>. QED BY <1>2, <3>1, <3>2
  <2>. QED BY <2>1, <2>2
<1>9. t.previous <= c /\ t.buckets[t.previous] = CallableInOrder(t.previous)
  <2>1. s.previous # c /\ s.previous <= c
    BY <1>2, <1>3, <1>7
  <2>2. t.buckets[s.previous] = CallableInOrder(s.previous)
    BY <1>2, <1>3, <1>6, <2>1
  <2>3. t.previous = c => t.buckets[c] = CallableInOrder(c)
    BY <1>4, <1>6, <2>1
  <2>. QED BY <1>6, <1>7, <2>1, <2>2, <2>3
<1>10. \A q \in t.previous + 1 .. c : t.buckets[q] = << >>
  <2>. TAKE q \in t.previous + 1 .. c
  <2>1. t.previous = s.previous
    <3>1. t.previous # c
      BY <1>7
    <3>. QED BY <1>6, <3>1
  <2>2. CASE q = c
    BY <1>6, <2>1, <2>2, <1>2, <1>3, <1>7
  <2>3. CASE q # c
    <3>1. q \in s.previous + 1 .. k /\ q \in 0 .. k
      BY <1>3, <1>7, <2>1, <2>3
    <3>. QED BY <1>2, <1>6, <3>1
  <2>. QED BY <2>2, <2>3
<1>11. ASSUME NEW n \in 0 .. c, CallableInOrder(n) # << >>
       PROVE  \E p \in 0 .. n : /\ IsLastLeft(t.buckets, p, n)
                                /\ CallableInOrder(p) = CallableInOrder(n)
                                /\ p = n \/ t.greater_than[p]
  <2>1. CASE n \in 0 .. k
    <3>1. PICK p \in 0 .. n : /\ IsLastLeft(s.buckets, p, n)
                              /\ CallableInOrder(p) = CallableInOrder(n)
                              /\ p = n \/ s.greater_than[p]
      BY <1>2, <1>11, <2>1
    <3>2. p \in 0 .. k /\ p \in 0 .. LastBucket /\ \A q \in p + 1 .. n : q \in 0 .. k
      BY <1>1, <1>7, <2>1
    <3>3. IsLastLeft(t.buckets, p, n)
      BY <1>6, <3>1, <3>2 DEF IsLastLeft
    <3>. QED BY <1>6, <3>1, <3>2, <3>3
  <2>2. CASE n = c
    <3>1. s.buckets[c] # << >>
      BY <1>4, <1>11, <2>2
    <3>2. CASE t.previous = c
      <4>1. t.buckets[c] # << >> /\ c \in 0 .. c /\ \A q \in c + 1 .. c : FALSE
        BY <1>4, <1>7, <1>9, <3>1, <3>2
      <4>. QED BY <2>2, <4>1 DEF IsLastLeft
    <3>3. CASE t.previous # c
      <4>. DEFINE p == s.previous
      <4>1. /\ t.previous = p /\ s.buckets[c] = s.buckets[p] /\ t.greater_than[p]
        BY <1>6, <3>1, <3>3
      <4>2. p \in 0 .. n /\ p \in 0 .. k
        BY <1>2, <1>3, <1>7, <2>2
      <4>3. t.buckets[p] # << >> /\ CallableInOrder(p) = CallableInOrder(n)
        BY <1>2, <1>4, <1>6, <2>2, <3>1, <4>1, <4>2
      <4>4. IsLastLeft(t.buckets, p, n)
        BY <1>10, <2>2, <4>1, <4>2, <4>3 DEF IsLastLeft
      <4>. QED BY <4>1, <4>2, <4>3, <4>4
    <3>. QED BY <3>2, <3>3
  <2>. QED BY <1>7, <2>1, <2>2
<1>12. saw_a_variadic => t.greater_than[LastBucket]
  BY <1>1, <1>2, <1>6
<1>13. ASSUME NEW p \in 0 .. LastBucket, t.greater_than[p]
       PROVE  Widened(p)
  <2>1. CASE s.greater_than[p]
    BY <1>2, <2>1
  <2>2. CASE p = s.previous /\ s.buckets[c] # << >> /\ s.buckets[c] = s.buckets[s.previous]
    <3>1. c # p
      BY <1>2, <1>3, <1>7, <2>2
    <3>2. CallableInOrder(c) = CallableInOrder(p) /\ CallableInOrder(p) # << >>
      BY <1>2, <1>4, <2>2
    <3>. QED BY <1>1, <3>1, <3>2 DEF Widened
  <2>. QED BY <1>6, <1>13, <2>1, <2>2
<1>14. CollapsedUpTo(t, c)
  BY <1>5, <1>8, <1>9, <1>10, <1>11, <1>12, <1>13 DEF CollapsedUpTo
<1>. QED BY <1>14 DEF t, c

LEMMA AfterCollapsing ==
  ASSUME IsAList
  PROVE  CollapsedUpTo(Collapsed, LastBucket)
<1>. DEFINE N == LastBucket
            IsRun(f) == f = [n \in 0 .. N |-> IF n = 0 THEN StateBefore ELSE Collapse(f[n - 1], n)]
            step == [n \in 1 .. N |-> [s \in BucketState |-> Collapse(s, n)]]
            collapsed == CHOOSE f : IsRun(f)
<1>1. N \in Nat
  BY ListFacts
<1>2. \E f : IsRun(f)
  <2>1. StateBefore \in BucketState
    BY BeforeCollapsing DEF CollapsedUpTo
  <2>2. step \in [1 .. N -> [BucketState -> BucketState]]
    BY <1>1, CollapseType
  <2>3. PICK f \in [0 .. N -> BucketState] : Runs(f, StateBefore, step, N)
    <3>. HIDE DEF N, step
    <3>. QED BY <1>1, <2>1, <2>2, RunExists
  <2>4. \A n \in 0 .. N : n # 0 => n \in 1 .. N /\ n - 1 \in 0 .. N
    BY <1>1
  <2>5. \A n \in 0 .. N : f[n] = IF n = 0 THEN StateBefore ELSE Collapse(f[n - 1], n)
    BY <2>3, <2>4 DEF Runs
  <2>6. IsRun(f)
    BY <2>3, <2>5
  <2>. QED BY <2>6
<1>3. Collapsed = collapsed[N]
  BY DEF Collapsed, StateBefore
<1>4. IsRun(collapsed)
  <2>. HIDE DEF IsRun
  <2>. QED BY <1>2
<1>. HIDE DEF collapsed
<1>5. \A n \in 0 .. N :
         collapsed[n] = IF n = 0 THEN StateBefore ELSE Collapse(collapsed[n - 1], n)
  <2>1. \A f : IsRun(f) =>
           \A n \in 0 .. N : f[n] = IF n = 0 THEN StateBefore ELSE Collapse(f[n - 1], n)
    OBVIOUS
  <2>. HIDE DEF IsRun
  <2>. QED BY <1>4, <2>1
<1>. DEFINE T == {n \in Nat : n <= N => CollapsedUpTo(collapsed[n], n)}
<1>6. 0 \in T
  BY <1>1, <1>5, BeforeCollapsing
<1>7. ASSUME NEW n \in Nat, n \in T
      PROVE  n + 1 \in T
  <2>. SUFFICES ASSUME n + 1 <= N
                PROVE  CollapsedUpTo(collapsed[n + 1], n + 1)
    OBVIOUS
  <2>1. n + 1 \in 0 .. N /\ (n + 1) - 1 = n /\ n + 1 # 0 /\ n <= N
    BY <1>1
  <2>2. CollapsedUpTo(collapsed[n], n)
    BY <1>7, <2>1
  <2>3. collapsed[n + 1] = Collapse(collapsed[n], n + 1)
    BY <1>5, <2>1
  <2>4. CollapsedUpTo(Collapse(collapsed[n], n + 1), n + 1)
    BY <2>2, CollapseStep
  <2>. QED BY <2>3, <2>4
<1>8. N \in T
  <2>. HIDE DEF T
  <2>. QED BY <1>1, <1>6, <1>7, Induction
<1>. QED BY <1>1, <1>3, <1>8

----------------------------------------------------------------------------
(* The levels of sorted_constructors.                                       *)

Descending(seq) == \A i, j \in 1 .. Len(seq) : i < j => seq[j] < seq[i]

LEMMA DescendingFacts ==
  ASSUME NEW max \in Nat, NEW S, S \subseteq 0 .. max
  PROVE  LET kept == Kept([k \in 1 .. max + 1 |-> max + 1 - k], S)
         IN  kept \in Seq(0 .. max) /\ ToSet(kept) = S /\ Descending(kept)
<1>. DEFINE all == [k \in 1 .. max + 1 |-> max + 1 - k]
            Numbers == 0 .. max
<1>1. all \in Seq(Numbers) /\ Len(all) = max + 1
  <2>1. all \in [1 .. max + 1 -> Numbers] /\ max + 1 \in Nat
    OBVIOUS
  <2>. HIDE DEF all, Numbers
  <2>. QED BY <2>1, TupleIsSeq
<1>2. \A k \in 1 .. max + 1 : all[k] = max + 1 - k
  OBVIOUS
<1>3. \A n \in Numbers : max + 1 - n \in 1 .. max + 1 /\ max + 1 - (max + 1 - n) = n
  OBVIOUS
<1>4. S \subseteq Numbers /\ \A k, l \in 1 .. max + 1 : k < l => max + 1 - l < max + 1 - k
  OBVIOUS
<1>. HIDE DEF all, Numbers
<1>5. Kept(all, S) \in Seq(Numbers)
  BY <1>1, KeptPlaces
<1>6. ToSet(Kept(all, S)) = S
  <2>1. \A n \in Numbers : n \in ToSet(all)
    <3>. TAKE n \in Numbers
    <3>1. all[max + 1 - n] = n /\ max + 1 - n \in 1 .. max + 1
      BY <1>2, <1>3
    <3>2. all[max + 1 - n] \in ToSet(all)
      BY <1>1, <3>1, Members
    <3>. QED BY <3>1, <3>2
  <2>2. ToSet(Kept(all, S)) = ToSet(all) \cap S
    BY <1>1, MembersOfKept
  <2>. QED BY <1>4, <2>1, <2>2
<1>7. Descending(Kept(all, S))
  <2>1. InOrder(Kept(all, S), all)
    BY <1>1, KeptInOrder
  <2>. QED BY <1>1, <1>2, <1>4, <2>1 DEF Descending, InOrder
<1>. QED BY <1>5, <1>6, <1>7 DEF all, Numbers

Level == [greater_than : BOOLEAN, constructors_at_this_level : Seq(Positions),
          parameter_count : 0 .. LastBucket]

(* Level l of list is for calls with n arguments. *)
LevelFor(list, l, n) ==
  /\ l \in DOMAIN list
  /\ list[l].constructors_at_this_level = CallableInOrder(n)
  /\ list[l].parameter_count <= n
  /\ list[l].parameter_count = n \/ list[l].greater_than
  /\ \A m \in DOMAIN list : m < l => list[m].parameter_count > n

(* What sort_constructors makes. *)
LevelsFit(list) ==
  /\ list \in Seq(Level)
  /\ \A l \in DOMAIN list :
        /\ list[l].constructors_at_this_level # << >>
        /\ list[l].constructors_at_this_level = CallableInOrder(list[l].parameter_count)
        /\ list[l].greater_than => Widened(list[l].parameter_count)
  /\ \A n \in Nat : CallableInOrder(n) # << >> => \E l : LevelFor(list, l, n)

LEMMA LevelsAreSorted ==
  ASSUME IsAList
  PROVE  /\ SortConstructors \in Seq(Level)
         /\ \A l \in DOMAIN SortConstructors :
               LET n == SortConstructors[l].parameter_count
                   these == SortConstructors[l].constructors_at_this_level
               IN  /\ these # << >> /\ these = CallableInOrder(n)
                   /\ saw_a_variadic /\ n = LastBucket => SortConstructors[l].greater_than
                   /\ SortConstructors[l].greater_than => Widened(n)
         /\ \A n \in 0 .. LastBucket :
               CallableInOrder(n) # << >> => \E l : LevelFor(SortConstructors, l, n)
<1>. DEFINE N    == LastBucket
            left == Collapsed
            S    == {n \in 0 .. N : left.buckets[n] # << >>}
            kept == Kept([k \in 1 .. N + 1 |-> N + 1 - k], S)
            list == [l \in DOMAIN kept |->
                       [greater_than |-> left.greater_than[kept[l]],
                        constructors_at_this_level |-> left.buckets[kept[l]],
                        parameter_count |-> kept[l]]]
<1>1. SortConstructors = list
  BY DEF SortConstructors
<1>2. N \in Nat
  BY ListFacts
<1>3. /\ CollapsedUpTo(left, N)
      /\ left.greater_than \in [0 .. N -> BOOLEAN]
  BY AfterCollapsing DEF CollapsedUpTo, BucketState
<1>4. kept \in Seq(0 .. N) /\ ToSet(kept) = S /\ Descending(kept)
  <2>1. S \subseteq 0 .. N
    OBVIOUS
  <2>. HIDE DEF S
  <2>. QED BY <1>2, <2>1, DescendingFacts
<1>. HIDE DEF kept, left
<1>5. /\ Len(kept) \in Nat /\ DOMAIN kept = 1 .. Len(kept)
      /\ \A l \in 1 .. Len(kept) : kept[l] \in 0 .. N /\ kept[l] \in S
      /\ \A n \in S : \E l \in 1 .. Len(kept) : kept[l] = n
  <2>. HIDE DEF S, N
  <2>. QED BY <1>4, Members
<1>6. \A l \in 1 .. Len(kept) : /\ left.buckets[kept[l]] # << >>
                                /\ left.buckets[kept[l]] = CallableInOrder(kept[l])
  BY <1>3, <1>5 DEF CollapsedUpTo
<1>7. \A n : CallableInOrder(n) \in Seq(Positions)
  BY OrderFacts
<1>8. list \in Seq(Level) /\ Len(list) = Len(kept)
  <2>. DEFINE entry(l) == [greater_than |-> left.greater_than[kept[l]],
                           constructors_at_this_level |-> left.buckets[kept[l]],
                           parameter_count |-> kept[l]]
  <2>1. \A l \in 1 .. Len(kept) : entry(l) \in Level
    <3>. TAKE l \in 1 .. Len(kept)
    <3>1. left.buckets[kept[l]] \in Seq(Positions)
      BY <1>6, <1>7
    <3>2. kept[l] \in 0 .. N /\ left.greater_than[kept[l]] \in BOOLEAN
      BY <1>3, <1>5
    <3>. QED BY <3>1, <3>2 DEF Level
  <2>2. list = [l \in 1 .. Len(kept) |-> entry(l)]
    BY <1>5
  <2>. HIDE DEF entry
  <2>3. list \in [1 .. Len(kept) -> Level]
    BY <2>1, <2>2
  <2>. HIDE DEF list
  <2>. QED BY <1>5, <2>3, TupleIsSeq
<1>9. DOMAIN list = 1 .. Len(kept)
  BY <1>5
<1>10. \A l \in 1 .. Len(kept) : /\ list[l].parameter_count = kept[l]
                                 /\ list[l].constructors_at_this_level = left.buckets[kept[l]]
                                 /\ list[l].greater_than = left.greater_than[kept[l]]
  BY <1>5
<1>. HIDE DEF list
<1>11. \A l \in DOMAIN list :
          /\ list[l].constructors_at_this_level # << >>
          /\ list[l].constructors_at_this_level = CallableInOrder(list[l].parameter_count)
          /\ (saw_a_variadic /\ list[l].parameter_count = N => list[l].greater_than)
          /\ (list[l].greater_than => Widened(list[l].parameter_count))
  BY <1>3, <1>5, <1>6, <1>9, <1>10 DEF CollapsedUpTo
<1>12. ASSUME NEW n \in 0 .. N, CallableInOrder(n) # << >>
       PROVE  \E l : LevelFor(list, l, n)
  <2>1. PICK p \in 0 .. n : /\ IsLastLeft(left.buckets, p, n)
                            /\ CallableInOrder(p) = CallableInOrder(n)
                            /\ p = n \/ left.greater_than[p]
    BY <1>3, <1>12 DEF CollapsedUpTo
  <2>2. p \in 0 .. N /\ left.buckets[p] # << >> /\ p <= n
        /\ \A q \in p + 1 .. n : left.buckets[q] = << >>
    BY <1>2, <2>1 DEF IsLastLeft
  <2>3. p \in S
    BY <2>2
  <2>4. PICK l \in 1 .. Len(kept) : kept[l] = p
    BY <1>5, <2>3
  <2>5. \A m \in 1 .. Len(kept) : m < l => kept[m] > n
    <3>. TAKE m \in 1 .. Len(kept)
    <3>1. m < l => kept[m] > p
      BY <1>4, <1>5, <2>2, <2>4 DEF Descending
    <3>2. kept[m] \notin p + 1 .. n
      BY <1>6, <2>2
    <3>3. kept[m] \in Nat /\ p \in Nat /\ n \in Nat
      BY <1>5, <2>2
    <3>. QED BY <3>1, <3>2, <3>3
  <2>6. list[l].constructors_at_this_level = CallableInOrder(n)
    BY <1>6, <1>10, <2>1, <2>4
  <2>7. LevelFor(list, l, n)
    BY <1>9, <1>10, <2>1, <2>2, <2>4, <2>5, <2>6 DEF LevelFor
  <2>. QED BY <2>7
<1>. QED BY <1>1, <1>8, <1>11, <1>12

(* More arguments than the last bucket stands for are like that many, if a  *)
(* constructor is variadic, and too many if none is.                        *)
LEMMA BeyondTheLastBucket ==
  ASSUME IsAList, NEW n \in Nat, n > LastBucket
  PROVE  IF saw_a_variadic THEN CallableInOrder(n) = CallableInOrder(LastBucket)
         ELSE CallableInOrder(n) = << >>
<1>. DEFINE N == LastBucket
            callable(m) == {i \in Positions : Callable(i, m)}
<1>1. /\ N \in Nat /\ saw_a_variadic \in BOOLEAN /\ Len(constructors) \in Nat
      /\ Positions = 1 .. Len(constructors)
      /\ saw_a_variadic <=> \E i \in Positions : constructors[i].variadic
  BY ListFacts DEF saw_a_variadic
<1>2. ASSUME NEW i \in Positions, NEW m \in Nat, m >= N, saw_a_variadic \/ m > N
      PROVE  Callable(i, m) <=> constructors[i].variadic
  <2>. DEFINE c == constructors[i]
              count == argument_count(c)
  <2>1. /\ c.required \in Nat /\ c.variadic \in BOOLEAN /\ optional_count(c) \in Nat
        /\ count \in Nat /\ count = c.required + optional_count(c)
    BY ListFacts, SignatureFacts
  <2>2. count + One(saw_a_variadic) <= N
    BY ListFacts
  <2>3. One(saw_a_variadic) = IF saw_a_variadic THEN 1 ELSE 0
    BY DEF One
  <2>4. Callable(i, m) <=> m >= c.required /\ (c.variadic \/ m <= count)
    BY DEF Callable
  <2>. HIDE DEF c, count
  <2>5. m > count
    BY <1>1, <1>2, <2>1, <2>2, <2>3
  <2>6. m >= c.required /\ ~ (m <= count)
    BY <2>1, <2>5
  <2>7. c.variadic <=> Callable(i, m)
    BY <2>1, <2>4, <2>6
  <2>. QED BY <2>7 DEF c
<1>3. \A m : CallableInOrder(m) = Increasing(callable(m), Len(constructors))
  BY DEF CallableInOrder
<1>4. CASE saw_a_variadic
  <2>1. callable(n) = callable(N)
    <3>1. \A i \in Positions : Callable(i, n) <=> Callable(i, N)
      BY <1>1, <1>2, <1>4
    <3>. QED BY <3>1
  <2>. HIDE DEF callable
  <2>2. CallableInOrder(n) = CallableInOrder(N)
    BY <1>3, <2>1
  <2>. QED BY <1>4, <2>2
<1>5. CASE ~ saw_a_variadic
  <2>1. \A i \in Positions : ~ Callable(i, n)
    BY <1>1, <1>2, <1>5
  <2>2. CallableInOrder(n) \in Seq(Nat) /\ \A i \in ToSet(CallableInOrder(n)) : FALSE
    BY <2>1, OrderFacts
  <2>3. CallableInOrder(n) = << >>
    <3>1. Len(CallableInOrder(n)) \in Nat
          /\ \A k \in 1 .. Len(CallableInOrder(n)) : FALSE
      BY <2>2, Members
    <3>2. Len(CallableInOrder(n)) = 0
      BY <3>1
    <3>. QED BY <2>2, <3>2, EmptySeq
  <2>. QED BY <1>5, <2>3
<1>. QED BY <1>4, <1>5

(* Each number of arguments that some constructor can be called with has    *)
(* its level.                                                               *)
LEMMA SortedLevels ==
  ASSUME IsAList
  PROVE  LevelsFit(SortConstructors)
<1>. DEFINE list == SortConstructors
            N    == LastBucket
<1>1. /\ list \in Seq(Level)
      /\ \A l \in DOMAIN list :
            LET n == list[l].parameter_count
                these == list[l].constructors_at_this_level
            IN  /\ these # << >> /\ these = CallableInOrder(n)
                /\ saw_a_variadic /\ n = N => list[l].greater_than
                /\ list[l].greater_than => Widened(n)
      /\ \A n \in 0 .. N : CallableInOrder(n) # << >> => \E l : LevelFor(list, l, n)
  BY LevelsAreSorted
<1>2. N \in Nat /\ saw_a_variadic \in BOOLEAN
  BY ListFacts
<1>3. Len(list) \in Nat /\ DOMAIN list = 1 .. Len(list)
      /\ \A l \in 1 .. Len(list) : list[l] \in Level
  <2>. HIDE DEF list
  <2>. QED BY <1>1, Members
<1>. HIDE DEF list, N
<1>4. ASSUME NEW n \in Nat, CallableInOrder(n) # << >>
      PROVE  \E l : LevelFor(list, l, n)
  <2>1. CASE n <= N
    BY <1>1, <1>2, <1>4, <2>1
  <2>2. CASE n > N
    <3>1. saw_a_variadic /\ CallableInOrder(n) = CallableInOrder(N)
      BY <1>2, <1>4, <2>2, BeyondTheLastBucket DEF N
    <3>2. N \in 0 .. N /\ CallableInOrder(N) # << >>
      BY <1>2, <1>4, <3>1
    <3>3. PICK l : LevelFor(list, l, N)
      BY <1>1, <3>2
    <3>4. l \in DOMAIN list /\ list[l] \in Level
      BY <1>3, <3>3 DEF LevelFor
    <3>5. list[l].greater_than
      BY <1>1, <3>1, <3>3, <3>4 DEF LevelFor
    <3>6. list[l].parameter_count <= n
      <4>1. list[l].parameter_count <= N /\ list[l].parameter_count \in Nat
        BY <3>3, <3>4, <1>2 DEF LevelFor, Level
      <4>. QED BY <1>2, <2>2, <4>1
    <3>7. \A m \in DOMAIN list : m < l => list[m].parameter_count > n
      <4>. TAKE m \in DOMAIN list
      <4>1. m < l => list[m].parameter_count > N
        BY <3>3 DEF LevelFor
      <4>2. list[m].parameter_count \in 0 .. N
        BY <1>3 DEF Level, N
      <4>3. ~ (m < l)
        BY <1>2, <4>1, <4>2
      <4>. QED BY <4>3
    <3>8. LevelFor(list, l, n)
      BY <3>1, <3>3, <3>5, <3>6, <3>7 DEF LevelFor
    <3>. QED BY <3>8
  <2>. QED BY <1>2, <2>1, <2>2
<1>5. LevelsFit(list)
  BY <1>1, <1>4 DEF LevelsFit
<1>. QED BY <1>5 DEF list

----------------------------------------------------------------------------
(* The if-else chain.                                                       *)

Branches(n) == {l \in DOMAIN sorted_constructors : Branch(n, l)}

LEMMA FirstBranch ==
  ASSUME Len(sorted_constructors) \in Nat, NEW n,
         DOMAIN sorted_constructors = 1 .. Len(sorted_constructors)
  PROVE  /\ BranchFor(n) = IF Branches(n) # {} THEN Min(Branches(n)) ELSE 0
         /\ Branches(n) # {} => /\ BranchFor(n) \in Branches(n)
                                /\ \A l \in Branches(n) : BranchFor(n) <= l
<1>. DEFINE numbers == [l \in DOMAIN sorted_constructors |-> l]
            I == {l \in 1 .. Len(numbers) : Branch(n, numbers[l])}
<1>1. /\ Len(numbers) = Len(sorted_constructors)
      /\ \A l \in 1 .. Len(sorted_constructors) : numbers[l] = l
  <2>1. numbers \in [1 .. Len(sorted_constructors) -> Nat]
    OBVIOUS
  <2>2. \A l \in 1 .. Len(sorted_constructors) : numbers[l] = l
    OBVIOUS
  <2>. HIDE DEF numbers
  <2>. QED BY <2>1, <2>2, TupleIsSeq
<1>2. BranchFor(n) = IF I # {} THEN Min(I) ELSE 0
  BY DEF BranchFor, SelectInSeq
<1>. HIDE DEF numbers
<1>3. I = Branches(n)
  BY <1>1 DEF Branches
<1>4. Branches(n) \subseteq Nat
  BY DEF Branches
<1>. QED BY <1>2, <1>3, <1>4, LeastIsMin

(* What the branch for n arguments can be relied on for. *)
FitsTheCall(l, n) ==
  /\ l \in DOMAIN sorted_constructors
  /\ sorted_constructors[l].constructors_at_this_level \in Seq(Positions)
  /\ sorted_constructors[l].constructors_at_this_level # << >>
  /\ Ascending(sorted_constructors[l].constructors_at_this_level)
  /\ \A i \in ToSet(sorted_constructors[l].constructors_at_this_level) :
        constructors[i].required <= n

LEMMA BranchOfACall ==
  ASSUME IsAList, sorted_constructors = SortConstructors, NEW n \in Nat
  PROVE  /\ BranchFor(n) = 0 \/ FitsTheCall(BranchFor(n), n)
         /\ CallableInOrder(n) # << >> =>
               /\ BranchFor(n) # 0
               /\ sorted_constructors[BranchFor(n)].constructors_at_this_level
                    = CallableInOrder(n)
<1>. DEFINE list == sorted_constructors
<1>1. LevelsFit(list)
  BY SortedLevels
<1>2. /\ Len(list) \in Nat /\ DOMAIN list = 1 .. Len(list)
      /\ \A l \in 1 .. Len(list) : list[l] \in Level
  <2>1. list \in Seq(Level)
    BY <1>1 DEF LevelsFit
  <2>. HIDE DEF list
  <2>. QED BY <2>1, Members
<1>3. /\ BranchFor(n) = IF Branches(n) # {} THEN Min(Branches(n)) ELSE 0
      /\ Branches(n) # {} => /\ BranchFor(n) \in Branches(n)
                             /\ \A l \in Branches(n) : BranchFor(n) <= l
  BY <1>2, FirstBranch
<1>4. \A l \in DOMAIN list : list[l].parameter_count \in Nat
  BY <1>2 DEF Level
<1>5. ASSUME NEW l \in Branches(n)
      PROVE  FitsTheCall(l, n)
  <2>1. l \in DOMAIN list /\ Branch(n, l)
    BY DEF Branches
  <2>. DEFINE p     == list[l].parameter_count
              these == list[l].constructors_at_this_level
  <2>2. p <= n /\ p \in Nat
    <3>1. ASSUME no_final_check_necessary, l = Len(list)
          PROVE  p = 0
      BY <3>1 DEF no_final_check_necessary, Last
    <3>. QED BY <1>4, <2>1, <3>1 DEF Branch
  <2>3. these # << >> /\ these = CallableInOrder(p) /\ these \in Seq(Positions)
    BY <1>1, <1>2, <2>1 DEF LevelsFit, Level
  <2>. HIDE DEF p
  <2>4. /\ Ascending(CallableInOrder(p))
        /\ \A i \in ToSet(CallableInOrder(p)) : i \in Positions /\ Callable(i, p)
    BY OrderFacts
  <2>5. \A i \in ToSet(CallableInOrder(p)) : constructors[i].required <= n
    <3>. TAKE i \in ToSet(CallableInOrder(p))
    <3>1. p >= constructors[i].required /\ i \in Positions
      BY <2>4 DEF Callable
    <3>2. constructors[i].required \in Nat
      BY <3>1, ListFacts, SignatureFacts
    <3>. QED BY <2>2, <3>1, <3>2
  <2>. QED BY <2>1, <2>3, <2>4, <2>5 DEF FitsTheCall
<1>6. BranchFor(n) = 0 \/ FitsTheCall(BranchFor(n), n)
  BY <1>3, <1>5
<1>7. ASSUME CallableInOrder(n) # << >>
      PROVE  /\ BranchFor(n) # 0
             /\ list[BranchFor(n)].constructors_at_this_level = CallableInOrder(n)
  <2>1. PICK l : LevelFor(list, l, n)
    BY <1>1, <1>7 DEF LevelsFit
  <2>2. l \in Branches(n)
    <3>1. l \in DOMAIN list /\ list[l].parameter_count \in Nat
          /\ list[l].parameter_count <= n
          /\ (list[l].parameter_count = n \/ list[l].greater_than)
      BY <1>4, <2>1 DEF LevelFor
    <3>2. n >= list[l].parameter_count
      BY <3>1
    <3>. QED BY <3>1, <3>2 DEF Branches, Branch
  <2>3. \A m \in Branches(n) : ~ (m < l)
    <3>1. SUFFICES ASSUME NEW m \in Branches(n), m < l
                   PROVE  FALSE
      OBVIOUS
    <3>2. m \in DOMAIN list /\ Branch(n, m)
      BY DEF Branches
    <3>3. list[m].parameter_count > n /\ list[m].parameter_count \in Nat
      BY <1>4, <2>1, <3>1, <3>2 DEF LevelFor
    <3>4. n # list[m].parameter_count /\ ~ (n >= list[m].parameter_count)
      BY <3>3
    <3>5. m = Len(list)
      BY <3>2, <3>4 DEF Branch
    <3>6. l \in 1 .. Len(list)
      BY <1>2, <2>1 DEF LevelFor
    <3>. QED BY <1>2, <3>1, <3>5, <3>6
  <2>4. BranchFor(n) = l
    <3>1. BranchFor(n) \in Branches(n) /\ BranchFor(n) <= l
      BY <1>3, <2>2
    <3>2. BranchFor(n) \in Nat /\ l \in Nat
      BY <1>2, <2>2, <3>1 DEF Branches
    <3>3. ~ (BranchFor(n) < l)
      BY <2>3, <3>1
    <3>. QED BY <3>1, <3>2, <3>3
  <2>5. l \in DOMAIN list
    BY <2>1 DEF LevelFor
  <2>. QED BY <1>2, <2>1, <2>4, <2>5 DEF LevelFor
<1>. QED BY <1>6, <1>7

----------------------------------------------------------------------------
(* The dispatch.  Every handler that returns is the next one of the level   *)
(* that fits the number of arguments.                                       *)

(* The handlers tried are the first ones of the level. *)
TriedSound ==
  /\ tried \in Seq(Positions \X BOOLEAN)
  /\ level = 0 => tried = << >>
  /\ level # 0 => /\ Len(tried) <= Len(AtThisLevel)
                  /\ \A k \in 1 .. Len(tried) : tried[k][1] = AtThisLevel[k]

(* Which value the script gets. *)
ReturnSound ==
  /\ new_value \in {"none", "object", "error", "released"}
  /\ phase = "returned" =>
        /\ new_value \in {"object", "error"}
        /\ level = 0 => new_value = "error"
        /\ level # 0 => /\ tried # << >>
                        /\ new_value = "object" <=> tried[Len(tried)][2]
                        /\ new_value = "error" => Len(tried) = Len(AtThisLevel)

DispatchSound ==
  /\ constructors \in Seq(Signature)
  /\ args_cnt \in Nat
  /\ phase \in {"compiling", "compiled", "dispatching", "returned"}
  /\ IF phase = "compiling" THEN sorted_constructors = << >>
     ELSE constructors # << >> /\ sorted_constructors = SortConstructors
  /\ phase \in {"compiling", "compiled"} => level = 0
  /\ level = 0 \/ FitsTheCall(level, args_cnt)
  /\ phase = "dispatching" => level # 0 /\ Len(tried) < Len(AtThisLevel)
  /\ TriedSound
  /\ ReturnSound

LEMMA DispatchStarts ==
  ASSUME constructors \in Seq(Signature), sorted_constructors = << >>, args_cnt = 0, level = 0,
         tried = << >>, new_value = "none", phase = "compiling"
  PROVE  DispatchSound
<1>1. TriedSound /\ ReturnSound
  BY DEF TriedSound, ReturnSound
<1>. QED BY <1>1 DEF DispatchSound

LEMMA SortingIsStable ==
  ASSUME constructors' = constructors
  PROVE  SortConstructors' = SortConstructors
<1>1. Positions' = Positions /\ saw_a_variadic' = saw_a_variadic
  BY DEF Positions, saw_a_variadic
<1>2. LastBucket' = LastBucket
  BY <1>1 DEF LastBucket
<1>3. \A c : OtherBuckets(c)' = OtherBuckets(c)
  BY <1>2 DEF OtherBuckets
<1>4. \A n : CountedBucket(n)' = CountedBucket(n)
  BY <1>1 DEF CountedBucket
<1>5. \A n : FilledBucket(n)' = FilledBucket(n)
  BY <1>3, <1>4 DEF FilledBucket
<1>6. Collapsed' = Collapsed
  BY ZenonT(40), <1>1, <1>2, <1>5 DEF Collapsed
<1>. QED BY <1>2, <1>6 DEF SortConstructors

LEMMA CompileIsSound ==
  ASSUME DispatchSound, Compile
  PROVE  DispatchSound'
<1>1. /\ phase = "compiling" /\ constructors # << >> /\ level = 0
      /\ sorted_constructors' = SortConstructors /\ phase' = "compiled"
      /\ constructors' = constructors /\ args_cnt' = args_cnt /\ level' = level
      /\ tried' = tried /\ new_value' = new_value
  BY DEF Compile, DispatchSound
<1>2. SortConstructors' = SortConstructors
  BY <1>1, SortingIsStable
<1>3. TriedSound' /\ ReturnSound'
  BY <1>1 DEF DispatchSound, TriedSound, ReturnSound, Positions
<1>. QED BY <1>1, <1>2, <1>3 DEF DispatchSound

LEMMA NewIsSound ==
  ASSUME DispatchSound, NEW n \in Nat, New(n)
  PROVE  DispatchSound'
<1>1. /\ phase = "compiled" /\ level = 0 /\ tried = << >>
      /\ constructors' = constructors /\ sorted_constructors' = sorted_constructors
      /\ tried' = tried /\ args_cnt' = n /\ level' = BranchFor(n)
      /\ IF BranchFor(n) = 0 THEN new_value' = "error" /\ phase' = "returned"
         ELSE phase' = "dispatching" /\ new_value' = new_value
  BY DEF New, DispatchSound, TriedSound
<1>2. SortConstructors' = SortConstructors
  BY <1>1, SortingIsStable
<1>3. BranchFor(n) = 0 \/ FitsTheCall(BranchFor(n), n)
  BY <1>1, BranchOfACall DEF DispatchSound, IsAList
<1>4. BranchFor(n) # 0 => FitsTheCall(level, args_cnt)' /\ Len(AtThisLevel') > 0
  <2>. SUFFICES ASSUME BranchFor(n) # 0
                PROVE  FitsTheCall(level, args_cnt)' /\ Len(AtThisLevel') > 0
    OBVIOUS
  <2>1. FitsTheCall(level, args_cnt)'
    BY <1>1, <1>3 DEF FitsTheCall, Positions, Ascending
  <2>2. AtThisLevel' \in Seq(Positions) /\ AtThisLevel' # << >>
    BY <1>1, <2>1 DEF FitsTheCall, AtThisLevel, Positions
  <2>. QED BY <2>1, <2>2, EmptySeq
<1>5. TriedSound'
  BY <1>1, <1>4 DEF DispatchSound, TriedSound, Positions
<1>6. ReturnSound'
  BY <1>1 DEF DispatchSound, ReturnSound
<1>. QED BY <1>1, <1>2, <1>4, <1>5, <1>6 DEF DispatchSound

LEMMA LevelFacts ==
  ASSUME DispatchSound, level # 0
  PROVE  /\ level \in DOMAIN sorted_constructors
         /\ AtThisLevel \in Seq(Positions) /\ Len(AtThisLevel) \in Nat /\ AtThisLevel # << >>
         /\ Ascending(AtThisLevel) /\ Positions \subseteq Nat
         /\ \A k \in 1 .. Len(AtThisLevel) : /\ AtThisLevel[k] \in Positions
                                             /\ constructors[AtThisLevel[k]].required <= args_cnt
         /\ last_constructor_in_list(AtThisLevel[Len(AtThisLevel)])
         /\ Len(tried) \in Nat
<1>1. FitsTheCall(level, args_cnt) /\ tried \in Seq(Positions \X BOOLEAN)
  BY DEF DispatchSound, TriedSound
<1>2. /\ level \in DOMAIN sorted_constructors
      /\ AtThisLevel \in Seq(Positions) /\ AtThisLevel # << >> /\ Ascending(AtThisLevel)
      /\ \A i \in ToSet(AtThisLevel) : constructors[i].required <= args_cnt
  BY <1>1 DEF FitsTheCall, AtThisLevel
<1>3. \A k \in 1 .. Len(AtThisLevel) : AtThisLevel[k] \in ToSet(AtThisLevel)
                                       /\ AtThisLevel[k] \in Positions
  BY <1>2, Members
<1>4. last_constructor_in_list(AtThisLevel[Len(AtThisLevel)])
  BY <1>2 DEF last_constructor_in_list, AtThisLevel, Last
<1>5. Len(AtThisLevel) \in Nat /\ Len(tried) \in Nat
  BY <1>1, <1>2
<1>6. Positions \subseteq Nat
  BY DEF Positions
<1>. QED BY <1>2, <1>3, <1>4, <1>5, <1>6

LEMMA HandlerReturnedIsSound ==
  ASSUME DispatchSound, NEW succeeds \in BOOLEAN, HandlerReturned(succeeds)
  PROVE  DispatchSound'
<1>. DEFINE these == AtThisLevel
            n     == Len(tried)
            last  == last_constructor_in_list(Trying)
<1>1. /\ phase = "dispatching" /\ level # 0 /\ n < Len(these)
      /\ constructors' = constructors /\ sorted_constructors' = sorted_constructors
      /\ args_cnt' = args_cnt /\ level' = level
      /\ tried' = Append(tried, <<Trying, succeeds>>)
      /\ phase' = IF (succeeds /\ ~ last) \/ n + 1 = Len(these) THEN "returned" ELSE phase
      /\ new_value' = IF succeeds THEN "object" ELSE IF last THEN "error" ELSE "released"
  BY DEF HandlerReturned, DispatchSound
<1>2. /\ these \in Seq(Positions) /\ Len(these) \in Nat /\ n \in Nat
      /\ \A k \in 1 .. Len(these) : these[k] \in Positions
      /\ last_constructor_in_list(these[Len(these)])
  BY <1>1, LevelFacts
<1>3. SortConstructors' = SortConstructors /\ these' = these /\ Positions' = Positions
  BY <1>1, SortingIsStable DEF AtThisLevel, Positions
<1>4. FitsTheCall(level, args_cnt)'
  BY <1>1 DEF DispatchSound, FitsTheCall, Positions, Ascending
<1>5. Trying = these[n + 1] /\ n + 1 \in 1 .. Len(these)
  BY <1>1, <1>2 DEF Trying
<1>. DEFINE entry == <<Trying, succeeds>>
<1>7. entry \in Positions \X BOOLEAN /\ entry[1] = these[n + 1] /\ entry[2] = succeeds
  BY <1>2, <1>5
<1>8. last \in BOOLEAN /\ (n + 1 = Len(these) => last)
  BY <1>2, <1>5 DEF last_constructor_in_list
<1>9. /\ tried \in Seq(Positions \X BOOLEAN)
      /\ \A k \in 1 .. n : tried[k][1] = these[k]
  BY <1>1 DEF DispatchSound, TriedSound
<1>. HIDE DEF these, n, last, entry
<1>10. /\ tried' \in Seq(Positions \X BOOLEAN) /\ Len(tried') = n + 1
       /\ tried'[n + 1] = entry /\ \A k \in 1 .. n : tried'[k] = tried[k]
  <2>1. tried' = Append(tried, entry)
    BY <1>1 DEF entry
  <2>. HIDE DEF entry
  <2>. QED BY <1>7, <1>9, <2>1, AppendProperties DEF n
<1>11. \A k \in 1 .. n + 1 : k \in 1 .. n \/ k = n + 1
  BY <1>2
<1>12. TriedSound'
  <2>1. \A k \in 1 .. n + 1 : tried'[k][1] = these[k]
    BY <1>7, <1>9, <1>10, <1>11
  <2>2. n + 1 <= Len(these)
    BY <1>5
  <2>. QED BY <1>1, <1>3, <1>10, <2>1, <2>2 DEF TriedSound, these
<1>13. ReturnSound'
  <2>1. ASSUME phase' = "returned"
        PROVE  /\ new_value' \in {"object", "error"}
               /\ new_value' = "object" <=> succeeds
               /\ new_value' = "error" => n + 1 = Len(these)
    BY <1>1, <1>8, <2>1
  <2>2. tried' # << >> /\ tried'[Len(tried')][2] = succeeds
    BY <1>2, <1>7, <1>10
  <2>. QED BY <1>1, <1>3, <1>10, <2>1, <2>2 DEF ReturnSound, these
<1>14. /\ phase' \in {"dispatching", "returned"}
       /\ phase' = "dispatching" => n + 1 < Len(these)
  BY <1>1, <1>2
<1>15. /\ constructors' \in Seq(Signature) /\ args_cnt' \in Nat
       /\ constructors' # << >> /\ sorted_constructors' = SortConstructors'
  BY <1>1, <1>3 DEF DispatchSound
<1>. QED BY <1>1, <1>3, <1>4, <1>10, <1>12, <1>13, <1>14, <1>15 DEF DispatchSound, these

LEMMA DispatchStutters ==
  ASSUME DispatchSound, UNCHANGED vars
  PROVE  DispatchSound'
<1>1. /\ constructors' = constructors /\ sorted_constructors' = sorted_constructors
      /\ args_cnt' = args_cnt /\ level' = level /\ tried' = tried
      /\ new_value' = new_value /\ phase' = phase
  BY DEF vars
<1>2. SortConstructors' = SortConstructors /\ AtThisLevel' = AtThisLevel
      /\ Positions' = Positions
  BY <1>1, SortingIsStable DEF AtThisLevel, Positions
<1>3. FitsTheCall(level, args_cnt)' <=> FitsTheCall(level, args_cnt)
  BY <1>1 DEF FitsTheCall, Positions, Ascending
<1>. QED BY <1>1, <1>2, <1>3 DEF DispatchSound, TriedSound, ReturnSound

----------------------------------------------------------------------------
(* What follows for the properties of Constructors.                         *)

LEMMA DispatchIsTyped ==
  ASSUME DispatchSound, args_cnt \in 0 .. MaxArgs
  PROVE  TypeOK
<1>1. \A l \in DOMAIN sorted_constructors :
         sorted_constructors[l] \in [greater_than : BOOLEAN, parameter_count : Nat,
                                     constructors_at_this_level : Seq(Positions)]
  <2>1. CASE phase = "compiling"
    BY <2>1 DEF DispatchSound
  <2>2. CASE phase # "compiling"
    <3>1. sorted_constructors \in Seq(Level)
      BY <2>2, SortedLevels DEF DispatchSound, IsAList, LevelsFit
    <3>2. \A l \in DOMAIN sorted_constructors : sorted_constructors[l] \in Level
      BY <3>1, Members
    <3>. QED BY <3>2 DEF Level
  <2>. QED BY <2>1, <2>2
<1>2. level \in 0 .. Len(sorted_constructors)
  <2>1. CASE level = 0
    <3>1. Len(sorted_constructors) \in Nat
      <4>1. CASE phase = "compiling"
        BY <4>1 DEF DispatchSound
      <4>2. CASE phase # "compiling"
        BY <4>2, SortedLevels DEF DispatchSound, IsAList, LevelsFit
      <4>. QED BY <4>1, <4>2
    <3>. QED BY <2>1, <3>1
  <2>2. CASE level # 0
    <3>1. level \in DOMAIN sorted_constructors
      BY <2>2, LevelFacts
    <3>2. phase # "compiling"
      BY <2>2 DEF DispatchSound
    <3>3. sorted_constructors \in Seq(Level)
      BY <3>2, SortedLevels DEF DispatchSound, IsAList, LevelsFit
    <3>. QED BY <3>1, <3>3
  <2>. QED BY <2>1, <2>2
<1>. QED BY <1>1, <1>2 DEF DispatchSound, TriedSound, ReturnSound, TypeOK

LEMMA BranchesFit ==
  ASSUME DispatchSound, MaxArgs \in Nat
  PROVE  BranchesFitTheSignatures
<1>. SUFFICES ASSUME phase = "compiled", NEW n \in 0 .. MaxArgs, CallableInOrder(n) # << >>
              PROVE  /\ BranchFor(n) # 0
                     /\ sorted_constructors[BranchFor(n)].constructors_at_this_level
                          = CallableInOrder(n)
  BY DEF BranchesFitTheSignatures
<1>1. IsAList /\ sorted_constructors = SortConstructors
  BY DEF DispatchSound, IsAList
<1>. QED BY <1>1, BranchOfACall

LEMMA HandlersInOrder ==
  ASSUME DispatchSound
  PROVE  TriedInOrder
<1>. SUFFICES ASSUME NEW k \in DOMAIN tried, NEW j \in 1 .. k - 1
              PROVE  tried[j][1] < tried[k][1]
  BY DEF TriedInOrder
<1>1. tried \in Seq(Positions \X BOOLEAN) /\ (level = 0 => tried = << >>)
      /\ (level # 0 => /\ Len(tried) <= Len(AtThisLevel)
                       /\ \A m \in 1 .. Len(tried) : tried[m][1] = AtThisLevel[m])
  BY DEF DispatchSound, TriedSound
<1>2. level # 0 /\ k \in 1 .. Len(tried) /\ Len(tried) \in Nat
  BY <1>1
<1>3. Ascending(AtThisLevel) /\ Len(AtThisLevel) \in Nat
  BY <1>2, LevelFacts
<1>4. j \in 1 .. Len(tried) /\ j \in 1 .. Len(AtThisLevel) /\ k \in 1 .. Len(AtThisLevel) /\ j < k
  BY <1>1, <1>2, <1>3
<1>. QED BY <1>1, <1>2, <1>3, <1>4 DEF Ascending

LEMMA NoReleasedResult ==
  ASSUME DispatchSound
  PROVE  ResultIsNotReleased
BY DEF DispatchSound, ReturnSound, ResultIsNotReleased

(* A handler only runs for a "new" with enough arguments for it. *)
LEMMA EnoughArguments ==
  ASSUME DispatchSound, phase = "dispatching"
  PROVE  Trying \in Positions /\ args_cnt >= constructors[Trying].required
<1>1. level # 0 /\ Len(tried) < Len(AtThisLevel) /\ constructors \in Seq(Signature)
  BY DEF DispatchSound
<1>2. /\ Len(tried) + 1 \in 1 .. Len(AtThisLevel) /\ args_cnt \in Nat
  BY <1>1, LevelFacts DEF DispatchSound
<1>3. Trying \in Positions /\ constructors[Trying].required <= args_cnt
  BY <1>1, <1>2, LevelFacts DEF Trying
<1>4. constructors[Trying].required \in Nat
  <2>1. constructors[Trying] \in Signature
    BY <1>1, <1>3 DEF Positions
  <2>. QED BY <2>1, SignatureFacts
<1>. QED BY <1>2, <1>3, <1>4

AtBranch(n) == sorted_constructors[BranchFor(n)].constructors_at_this_level

LEMMA PlainIsCallable ==
  ASSUME IsAList, NEW i \in Positions, constructors[i].optional = 0,
         ~constructors[i].variadic, NEW n \in Nat
  PROVE  Callable(i, n) <=> n = constructors[i].required
<1>1. constructors[i].required \in Nat
  BY ListFacts, SignatureFacts
<1>2. argument_count(constructors[i]) = constructors[i].required
  BY <1>1 DEF argument_count, optional_count, One
<1>. QED BY <1>1, <1>2 DEF Callable

(* Without optional and variadic parameters a branch is for one number of   *)
(* arguments only.                                                          *)
LEMMA ExactBranch ==
  ASSUME IsAList, sorted_constructors = SortConstructors, NEW n \in Nat,
         \A i \in Positions : constructors[i].optional = 0 /\ ~constructors[i].variadic,
         BranchFor(n) # 0
  PROVE  AtBranch(n) = CallableInOrder(n)
<1>. DEFINE list == sorted_constructors
            l    == BranchFor(n)
            p    == list[l].parameter_count
<1>1. LevelsFit(list) /\ LastBucket \in Nat
  BY SortedLevels, ListFacts
<1>2. list \in Seq(Level) /\ Len(list) \in Nat /\ DOMAIN list = 1 .. Len(list)
  BY <1>1 DEF LevelsFit
<1>3. l \in Branches(n)
  <2>1. Branches(n) # {}
    BY <1>2, FirstBranch
  <2>. QED BY <1>2, <2>1, FirstBranch
<1>4. l \in DOMAIN list /\ Branch(n, l)
  BY <1>3 DEF Branches
<1>5. /\ AtBranch(n) # << >> /\ AtBranch(n) = CallableInOrder(p)
      /\ list[l].greater_than => Widened(p)
  BY <1>1, <1>4 DEF LevelsFit, AtBranch
<1>6. ~ Widened(p)
  <2>. SUFFICES ASSUME Widened(p)
                PROVE  FALSE
    OBVIOUS
  <2>1. ~ saw_a_variadic
    BY DEF saw_a_variadic
  <2>2. PICK q \in 0 .. LastBucket : q # p /\ CallableInOrder(q) = CallableInOrder(p)
                                     /\ CallableInOrder(p) # << >>
    BY <2>1 DEF Widened
  <2>3. CallableInOrder(p) \in Seq(Nat)
    BY OrderFacts
  <2>4. PICK i : i \in ToSet(CallableInOrder(p))
    BY <2>2, <2>3, Members, EmptySeq
  <2>5. i \in Positions /\ Callable(i, p) /\ Callable(i, q)
    BY <2>2, <2>4, OrderFacts
  <2>6. list[l] \in Level
    BY <1>2, <1>4
  <2>7. p \in Nat /\ q \in Nat
    BY <1>1, <2>2, <2>6 DEF Level
  <2>. QED BY <2>2, <2>5, <2>7, PlainIsCallable
<1>7. p = n
  <2>1. no_final_check_necessary /\ l = Len(list) => list[l].greater_than
    BY DEF no_final_check_necessary, Last
  <2>. QED BY <1>4, <1>5, <1>6, <2>1 DEF Branch
<1>. QED BY <1>5, <1>7
=============================================================================
