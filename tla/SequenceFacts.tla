---------------------------- MODULE SequenceFacts ----------------------------
(***************************************************************************)
(* Lemmas about natural numbers, sequences and subsequences on which the   *)
(* proofs of several modules rest.  Induction is over a SET of numbers: a  *)
(* set that has 0 and with each number the next one has all of them.       *)
(***************************************************************************)
EXTENDS Subsequences, SequencesExt, FiniteSetTheorems, SequenceTheorems,
        WellFoundedInduction, TLAPS

(* Every set of numbers has a least one. *)
LEMMA LeastNumber ==
  ASSUME NEW T, T \subseteq Nat, T # {}
  PROVE  \E x \in T : \A y \in T : x <= y
<1>1. PICK x \in T : \A y \in T : <<y, x>> \notin OpToRel(<, Nat)
  BY NatLessThanWellFounded, WFMin
<1>2. \A y \in T : ~(y < x)
  BY <1>1 DEF OpToRel
<1>. QED BY <1>2

LEMMA Induction ==
  ASSUME NEW T, 0 \in T, \A n \in Nat : n \in T => n + 1 \in T
  PROVE  Nat \subseteq T
<1>. SUFFICES ASSUME Nat \ T # {}
              PROVE  FALSE
  OBVIOUS
<1>1. PICK x \in Nat \ T : \A y \in Nat \ T : x <= y
  BY LeastNumber
<1>2. x # 0 /\ x - 1 \in Nat /\ x - 1 \in T
  BY <1>1
<1>. QED BY <1>2

(* Every bounded set of numbers that is not empty has a greatest one. *)
LEMMA GreatestNumber ==
  ASSUME NEW T, T \subseteq Nat, T # {}, NEW n \in Nat, \A y \in T : y <= n
  PROVE  \E x \in T : \A y \in T : y <= x
<1>. DEFINE distances == {n - y : y \in T}
<1>1. distances \subseteq Nat /\ distances # {}
  <2>1. \A y \in T : n - y \in Nat
    OBVIOUS
  <2>2. \A y \in T : n - y \in distances
    OBVIOUS
  <2>. QED BY <2>1, <2>2
<1>2. PICK d \in distances : \A other \in distances : d <= other
  BY <1>1, LeastNumber
<1>3. PICK x \in T : d = n - x
  OBVIOUS
<1>4. \A y \in T : n - y \in distances
  OBVIOUS
<1>. HIDE DEF distances
<1>5. \A y \in T : n - x <= n - y
  BY <1>2, <1>3, <1>4
<1>. QED BY <1>5

----------------------------------------------------------------------------
(* Kept, one element of the sequence at a time.                             *)

KeptFrom(kept, seq, S, max) ==
  kept = [n \in 0 .. max |->
            IF n = 0 THEN << >>
            ELSE IF seq[n] \in S THEN Append(kept[n - 1], seq[n]) ELSE kept[n - 1]]

LEMMA KeptExists ==
  ASSUME NEW seq, NEW S, NEW max \in Nat
  PROVE  \E kept : KeptFrom(kept, seq, S, max)
<1>. DEFINE T == {m \in Nat : \E kept : KeptFrom(kept, seq, S, m)}
<1>1. 0 \in T
  <2>1. KeptFrom([n \in 0 .. 0 |-> << >>], seq, S, 0)
    BY DEF KeptFrom
  <2>. QED BY <2>1
<1>2. ASSUME NEW m \in Nat, m \in T
      PROVE  m + 1 \in T
  <2>1. PICK kept : KeptFrom(kept, seq, S, m)
    BY <1>2
  <2>. DEFINE Added(n) == IF seq[n] \in S THEN Append(kept[m], seq[n]) ELSE kept[m]
              longer == [n \in 0 .. m + 1 |-> IF n = m + 1 THEN Added(n) ELSE kept[n]]
  <2>2. \A n \in 0 .. m : kept[n] = IF n = 0 THEN << >>
                                    ELSE IF seq[n] \in S THEN Append(kept[n - 1], seq[n])
                                    ELSE kept[n - 1]
    BY <2>1 DEF KeptFrom
  <2>3. \A n \in 0 .. m + 1 :
          /\ n # m + 1 => n \in 0 .. m
          /\ n # 0 => n - 1 \in 0 .. m + 1 /\ n - 1 # m + 1
          /\ n # 0 /\ n # m + 1 => n - 1 \in 0 .. m
    OBVIOUS
  <2>4. m + 1 # 0 /\ (m + 1) - 1 = m /\ m \in 0 .. m + 1 /\ m # m + 1
    OBVIOUS
  <2>5. \A n \in 0 .. m + 1 :
          longer[n] = IF n = 0 THEN << >>
                      ELSE IF seq[n] \in S THEN Append(longer[n - 1], seq[n])
                      ELSE longer[n - 1]
    BY <2>2, <2>3, <2>4
  <2>6. longer = [n \in 0 .. m + 1 |-> longer[n]]
    OBVIOUS
  <2>. HIDE DEF longer
  <2>7. KeptFrom(longer, seq, S, m + 1)
    BY <2>5, <2>6 DEF KeptFrom
  <2>. QED BY <2>7
<1>. HIDE DEF T
<1>3. max \in T
  BY <1>1, <1>2, Induction
<1>. QED BY <1>3 DEF T

LEMMA KeptIsLast ==
  ASSUME NEW seq, NEW S, Len(seq) \in Nat
  PROVE  \E kept : KeptFrom(kept, seq, S, Len(seq)) /\ Kept(seq, S) = kept[Len(seq)]
<1>. DEFINE kept == CHOOSE f : KeptFrom(f, seq, S, Len(seq))
<1>1. KeptFrom(kept, seq, S, Len(seq))
  BY KeptExists
<1>2. Kept(seq, S) = kept[Len(seq)]
  BY DEF Kept, KeptFrom
<1>. QED BY <1>1, <1>2

(* Which elements are kept: places[k] is where the k-th of them was. *)
Places(places, picked, seq, S, n) ==
  /\ places \in [1 .. Len(picked) -> 1 .. n]
  /\ \A k \in 1 .. Len(picked) : picked[k] = seq[places[k]] /\ seq[places[k]] \in S
  /\ \A j, k \in 1 .. Len(picked) : j < k => places[j] < places[k]
  /\ \A i \in 1 .. n : seq[i] \in S => \E k \in 1 .. Len(picked) : places[k] = i

LEMMA KeptPlaces ==
  ASSUME NEW A, NEW seq \in Seq(A), NEW S
  PROVE  /\ Kept(seq, S) \in Seq(A)
         /\ \E places : Places(places, Kept(seq, S), seq, S, Len(seq))
<1>1. PICK kept : KeptFrom(kept, seq, S, Len(seq)) /\ Kept(seq, S) = kept[Len(seq)]
  BY KeptIsLast
<1>. DEFINE T == {n \in Nat : n <= Len(seq) => /\ kept[n] \in Seq(A)
                                               /\ \E p : Places(p, kept[n], seq, S, n)}
<1>2. 0 \in T
  <2>1. kept[0] = << >>
    BY <1>1 DEF KeptFrom
  <2>2. Places([k \in 1 .. 0 |-> 1], << >>, seq, S, 0)
    BY DEF Places
  <2>3. kept[0] \in Seq(A) /\ \E p : Places(p, kept[0], seq, S, 0)
    BY <2>1, <2>2, EmptySeq
  <2>. QED BY <2>3
<1>3. ASSUME NEW n \in Nat, n \in T
      PROVE  n + 1 \in T
  <2>. SUFFICES ASSUME n + 1 <= Len(seq)
                PROVE  kept[n + 1] \in Seq(A) /\ \E p : Places(p, kept[n + 1], seq, S, n + 1)
    OBVIOUS
  <2>1. kept[n] \in Seq(A)
    BY <1>3
  <2>2. PICK p : Places(p, kept[n], seq, S, n)
    BY <1>3
  <2>3. n + 1 \in 1 .. Len(seq) /\ seq[n + 1] \in A
    OBVIOUS
  <2>4. kept[n + 1] = IF seq[n + 1] \in S THEN Append(kept[n], seq[n + 1]) ELSE kept[n]
    <3>1. n + 1 \in 0 .. Len(seq) /\ n + 1 # 0 /\ (n + 1) - 1 = n
      BY <2>3
    <3>. QED BY <1>1, <3>1 DEF KeptFrom
  <2>5. CASE seq[n + 1] \notin S
    <3>1. Places(p, kept[n], seq, S, n + 1)
      BY <2>2, <2>5 DEF Places
    <3>. QED BY <2>1, <2>4, <2>5, <3>1
  <2>6. CASE seq[n + 1] \in S
    <3>. DEFINE picked == kept[n + 1]
                l == Len(kept[n])
                q == [k \in 1 .. l + 1 |-> IF k = l + 1 THEN n + 1 ELSE p[k]]
    <3>1. /\ picked \in Seq(A) /\ Len(picked) = l + 1 /\ l \in Nat
          /\ \A k \in 1 .. l : picked[k] = kept[n][k]
          /\ picked[l + 1] = seq[n + 1]
      BY <2>1, <2>3, <2>4, <2>6, AppendProperties
    <3>2. /\ p \in [1 .. l -> 1 .. n]
          /\ \A k \in 1 .. l : kept[n][k] = seq[p[k]] /\ seq[p[k]] \in S
          /\ \A j, k \in 1 .. l : j < k => p[j] < p[k]
          /\ \A i \in 1 .. n : seq[i] \in S => \E k \in 1 .. l : p[k] = i
      BY <2>2 DEF Places
    <3>. HIDE DEF picked, l
    <3>3. q \in [1 .. l + 1 -> 1 .. n + 1]
      BY <3>1, <3>2
    <3>4. q[l + 1] = n + 1 /\ \A k \in 1 .. l : q[k] = p[k] /\ p[k] \in 1 .. n
      BY <3>1, <3>2
    <3>. HIDE DEF q
    <3>5. \A k \in 1 .. l + 1 : k \in 1 .. l \/ k = l + 1
      BY <3>1
    <3>6. \A k \in 1 .. l + 1 : picked[k] = seq[q[k]] /\ seq[q[k]] \in S
      BY <2>6, <3>1, <3>2, <3>4, <3>5
    <3>7. \A j, k \in 1 .. l + 1 : j < k => q[j] < q[k]
      <4>. SUFFICES ASSUME NEW j \in 1 .. l + 1, NEW k \in 1 .. l + 1, j < k
                    PROVE  q[j] < q[k]
        OBVIOUS
      <4>1. j \in 1 .. l
        BY <3>1
      <4>. QED BY <4>1, <3>2, <3>4, <3>5
    <3>8. \A i \in 1 .. n + 1 : seq[i] \in S => \E k \in 1 .. l + 1 : q[k] = i
      <4>. SUFFICES ASSUME NEW i \in 1 .. n + 1, seq[i] \in S
                    PROVE  \E k \in 1 .. l + 1 : q[k] = i
        OBVIOUS
      <4>1. CASE i = n + 1
        BY <4>1, <3>1, <3>4
      <4>2. CASE i # n + 1
        <5>1. PICK k \in 1 .. l : p[k] = i
          BY <4>2, <3>2
        <5>. QED BY SMTT(30), <5>1, <3>1, <3>4
      <4>. QED BY <4>1, <4>2
    <3>9. Places(q, picked, seq, S, n + 1)
      BY <3>1, <3>3, <3>6, <3>7, <3>8 DEF Places
    <3>. QED BY <3>1, <3>9 DEF picked
  <2>. QED BY <2>5, <2>6
<1>. HIDE DEF T
<1>4. Len(seq) \in T
  BY <1>2, <1>3, Induction
<1>. QED BY <1>1, <1>4 DEF T

----------------------------------------------------------------------------
(* The elements of a sequence, and of what is kept of it. *)

LEMMA Members ==
  ASSUME NEW A, NEW seq \in Seq(A)
  PROVE  /\ Len(seq) \in Nat
         /\ DOMAIN seq = 1 .. Len(seq)
         /\ ToSet(seq) \subseteq A
         /\ \A e : e \in ToSet(seq) <=> \E i \in 1 .. Len(seq) : seq[i] = e
         /\ \A i \in 1 .. Len(seq) : seq[i] \in ToSet(seq) /\ seq[i] \in A
<1>1. Len(seq) \in Nat /\ DOMAIN seq = 1 .. Len(seq) /\ \A i \in 1 .. Len(seq) : seq[i] \in A
  BY LenProperties, ElementOfSeq
<1>. QED BY <1>1 DEF ToSet

LEMMA TupleIsSeq ==
  ASSUME NEW A, NEW n \in Nat, NEW seq \in [1 .. n -> A]
  PROVE  seq \in Seq(A) /\ Len(seq) = n
<1>1. seq \in Seq(A)
  BY SeqDef
<1>2. DOMAIN seq = 1 .. n /\ DOMAIN seq = 1 .. Len(seq) /\ Len(seq) \in Nat
  BY <1>1, LenProperties
<1>. QED BY <1>1, <1>2

LEMMA MembersOfConcat ==
  ASSUME NEW A, NEW s \in Seq(A), NEW t \in Seq(A)
  PROVE  ToSet(s \o t) = ToSet(s) \cup ToSet(t)
<1>1. /\ s \o t \in Seq(A)
      /\ Len(s \o t) = Len(s) + Len(t)
      /\ \A i \in 1 .. Len(s) + Len(t) : (s \o t)[i] = IF i <= Len(s) THEN s[i]
                                                       ELSE t[i - Len(s)]
  BY ConcatProperties
<1>2. Len(s) \in Nat /\ Len(t) \in Nat
  BY Members
<1>3. ASSUME NEW e \in ToSet(s \o t)
      PROVE  e \in ToSet(s) \cup ToSet(t)
  <2>1. PICK i \in 1 .. Len(s) + Len(t) : (s \o t)[i] = e
    BY <1>1, Members
  <2>2. CASE i <= Len(s)
    <3>1. i \in 1 .. Len(s) /\ s[i] = e
      BY <1>1, <1>2, <2>1, <2>2
    <3>. QED BY <3>1, Members
  <2>3. CASE ~ (i <= Len(s))
    <3>1. i - Len(s) \in 1 .. Len(t) /\ t[i - Len(s)] = e
      BY <1>1, <1>2, <2>1, <2>3
    <3>. QED BY <3>1, Members
  <2>. QED BY <2>2, <2>3
<1>4. ASSUME NEW e \in ToSet(s)
      PROVE  e \in ToSet(s \o t)
  <2>1. PICK i \in 1 .. Len(s) : s[i] = e
    BY Members
  <2>2. i \in 1 .. Len(s) + Len(t) /\ (s \o t)[i] = e
    BY <1>1, <1>2, <2>1
  <2>. QED BY <1>1, <2>2, Members
<1>5. ASSUME NEW e \in ToSet(t)
      PROVE  e \in ToSet(s \o t)
  <2>1. PICK i \in 1 .. Len(t) : t[i] = e
    BY Members
  <2>2. /\ i + Len(s) \in 1 .. Len(s) + Len(t)
        /\ ~ (i + Len(s) <= Len(s)) /\ (i + Len(s)) - Len(s) = i
    BY <1>2
  <2>3. (s \o t)[i + Len(s)] = e
    BY <1>1, <2>1, <2>2
  <2>. QED BY <1>1, <2>2, <2>3, Members
<1>. QED BY <1>3, <1>4, <1>5

LEMMA MembersOfKept ==
  ASSUME NEW A, NEW seq \in Seq(A), NEW S
  PROVE  ToSet(Kept(seq, S)) = ToSet(seq) \cap S
<1>. DEFINE kept == Kept(seq, S)
<1>1. kept \in Seq(A)
  BY KeptPlaces
<1>2. PICK places : Places(places, kept, seq, S, Len(seq))
  BY KeptPlaces
<1>. HIDE DEF kept
<1>3. Len(kept) \in Nat /\ Len(seq) \in Nat
  BY <1>1, Members
<1>4. ASSUME NEW e \in ToSet(kept)
      PROVE  e \in ToSet(seq) \cap S
  <2>1. PICK k \in 1 .. Len(kept) : kept[k] = e
    BY <1>1, Members
  <2>2. places[k] \in 1 .. Len(seq) /\ seq[places[k]] = e /\ e \in S
    BY <1>2, <2>1 DEF Places
  <2>. QED BY <2>2, Members
<1>5. ASSUME NEW e \in ToSet(seq), e \in S
      PROVE  e \in ToSet(kept)
  <2>1. PICK i \in 1 .. Len(seq) : seq[i] = e
    BY Members
  <2>2. PICK k \in 1 .. Len(kept) : places[k] = i
    BY <1>2, <1>5, <2>1 DEF Places
  <2>3. kept[k] = e
    BY <1>2, <2>1, <2>2 DEF Places
  <2>. QED BY <1>1, <2>3, Members
<1>. QED BY <1>4, <1>5 DEF kept

(* What is kept is in its old order. *)
InOrder(kept, seq) ==
  \A i, j \in 1 .. Len(kept) : i < j =>
     \E k, l \in 1 .. Len(seq) : k < l /\ kept[i] = seq[k] /\ kept[j] = seq[l]

LEMMA KeptInOrder ==
  ASSUME NEW A, NEW seq \in Seq(A), NEW S
  PROVE  InOrder(Kept(seq, S), seq)
<1>. SUFFICES ASSUME NEW i \in 1 .. Len(Kept(seq, S)), NEW j \in 1 .. Len(Kept(seq, S)), i < j
              PROVE  \E k, l \in 1 .. Len(seq) :
                        k < l /\ Kept(seq, S)[i] = seq[k] /\ Kept(seq, S)[j] = seq[l]
  BY DEF InOrder
<1>1. PICK places : Places(places, Kept(seq, S), seq, S, Len(seq))
  BY KeptPlaces
<1>2. places[i] \in 1 .. Len(seq) /\ places[j] \in 1 .. Len(seq) /\ places[i] < places[j]
  BY <1>1 DEF Places
<1>3. Kept(seq, S)[i] = seq[places[i]] /\ Kept(seq, S)[j] = seq[places[j]]
  BY <1>1 DEF Places
<1>. QED BY <1>2, <1>3

(* Two elements of a concatenation, in their order. *)
ConcatPairs(both, s, t) ==
  \A i, j \in 1 .. Len(both) : i < j =>
     \/ \E k, l \in 1 .. Len(s) : k < l /\ both[i] = s[k] /\ both[j] = s[l]
     \/ both[i] \in ToSet(s) /\ both[j] \in ToSet(t)
     \/ \E k, l \in 1 .. Len(t) : k < l /\ both[i] = t[k] /\ both[j] = t[l]

LEMMA PairsOfConcat ==
  ASSUME NEW A, NEW s \in Seq(A), NEW t \in Seq(A)
  PROVE  ConcatPairs(s \o t, s, t)
<1>. DEFINE n == Len(s)
            both == s \o t
<1>. SUFFICES ASSUME NEW i \in 1 .. Len(both), NEW j \in 1 .. Len(both), i < j
              PROVE  \/ \E k, l \in 1 .. n : k < l /\ both[i] = s[k] /\ both[j] = s[l]
                     \/ both[i] \in ToSet(s) /\ both[j] \in ToSet(t)
                     \/ \E k, l \in 1 .. Len(t) : k < l /\ both[i] = t[k] /\ both[j] = t[l]
  BY DEF ConcatPairs
<1>1. /\ Len(both) = n + Len(t)
      /\ \A k \in 1 .. n + Len(t) : both[k] = IF k <= n THEN s[k] ELSE t[k - n]
  BY ConcatProperties
<1>2. n \in Nat /\ Len(t) \in Nat
  BY Members
<1>3. CASE j <= n
  <2>1. i \in 1 .. n /\ j \in 1 .. n /\ both[i] = s[i] /\ both[j] = s[j]
    BY <1>1, <1>2, <1>3
  <2>. QED BY <2>1
<1>4. CASE i <= n /\ ~ (j <= n)
  <2>1. i \in 1 .. n /\ j - n \in 1 .. Len(t) /\ both[i] = s[i] /\ both[j] = t[j - n]
    BY <1>1, <1>2, <1>4
  <2>2. s[i] \in ToSet(s) /\ t[j - n] \in ToSet(t)
    BY <2>1, Members
  <2>. QED BY <2>1, <2>2
<1>5. CASE ~ (i <= n)
  <2>1. /\ i - n \in 1 .. Len(t) /\ j - n \in 1 .. Len(t) /\ i - n < j - n
        /\ both[i] = t[i - n] /\ both[j] = t[j - n]
    BY <1>1, <1>2, <1>5
  <2>. QED BY <2>1
<1>. QED BY <1>2, <1>3, <1>4, <1>5

----------------------------------------------------------------------------
(* Ascending sequences of numbers.                                          *)

Ascending(seq) == \A i, j \in 1 .. Len(seq) : i < j => seq[i] < seq[j]

LEMMA IncreasingFacts ==
  ASSUME NEW max \in Nat, NEW S, S \subseteq 1 .. max
  PROVE  /\ Increasing(S, max) \in Seq(1 .. max)
         /\ Increasing(S, max) \in Seq(Nat)
         /\ ToSet(Increasing(S, max)) = S
         /\ Ascending(Increasing(S, max))
<1>. DEFINE all == [i \in 1 .. max |-> i]
<1>1. Increasing(S, max) = Kept(all, S)
  BY DEF Increasing
<1>2. all \in Seq(1 .. max) /\ Len(all) = max
  <2>1. all \in [1 .. max -> 1 .. max]
    OBVIOUS
  <2>. HIDE DEF all
  <2>. QED BY <2>1, TupleIsSeq
<1>3. \A i \in 1 .. max : all[i] = i
  OBVIOUS
<1>. HIDE DEF all
<1>4. Kept(all, S) \in Seq(1 .. max)
  BY <1>2, KeptPlaces
<1>5. Kept(all, S) \in Seq(Nat)
  <2>1. 1 .. max \subseteq Nat
    OBVIOUS
  <2>. QED BY <1>4, <2>1, SeqMonotonic
<1>6. ToSet(Kept(all, S)) = S
  <2>1. ToSet(all) = 1 .. max
    BY <1>2, <1>3, Members
  <2>2. ToSet(Kept(all, S)) = ToSet(all) \cap S
    BY <1>2, MembersOfKept
  <2>. QED BY <2>1, <2>2
<1>7. Ascending(Kept(all, S))
  <2>1. InOrder(Kept(all, S), all)
    BY <1>2, KeptInOrder
  <2>. QED BY <1>2, <1>3, <2>1 DEF Ascending, InOrder
<1>. QED BY <1>1, <1>4, <1>5, <1>6, <1>7

(* An ascending sequence is known by its elements. *)
LEMMA AscendingAgree ==
  ASSUME NEW s \in Seq(Nat), NEW t \in Seq(Nat), Ascending(s), Ascending(t),
         ToSet(s) \subseteq ToSet(t), NEW n \in Nat, n < Len(s), n < Len(t),
         \A k \in 1 .. n : s[k] = t[k]
  PROVE  t[n + 1] <= s[n + 1]
<1>1. Len(s) \in Nat /\ Len(t) \in Nat /\ n + 1 \in 1 .. Len(s) /\ n + 1 \in 1 .. Len(t)
  BY Members
<1>2. PICK m \in 1 .. Len(t) : t[m] = s[n + 1]
  <2>1. s[n + 1] \in ToSet(t)
    BY <1>1, Members
  <2>. QED BY <2>1, Members
<1>3. s[n + 1] \in Nat /\ t[n + 1] \in Nat
  BY <1>1, Members
<1>4. CASE m <= n
  <2>1. m \in 1 .. Len(s) /\ m \in 1 .. n /\ m < n + 1
    BY <1>1, <1>4
  <2>2. s[m] < s[n + 1] /\ s[m] = t[m]
    BY <1>1, <2>1 DEF Ascending
  <2>. QED BY <1>2, <1>3, <2>2
<1>5. CASE m = n + 1
  BY <1>2, <1>3, <1>5
<1>6. CASE n + 1 < m
  <2>1. t[n + 1] < t[m]
    BY <1>1, <1>6 DEF Ascending
  <2>. QED BY <1>2, <1>3, <2>1
<1>. QED BY <1>1, <1>4, <1>5, <1>6

LEMMA AscendingPrefix ==
  ASSUME NEW s \in Seq(Nat), NEW t \in Seq(Nat), Ascending(s), Ascending(t),
         ToSet(s) = ToSet(t), NEW n \in Nat, n <= Len(s), n <= Len(t)
  PROVE  \A k \in 1 .. n : s[k] = t[k]
<1>. DEFINE T == {l \in Nat : l <= Len(s) /\ l <= Len(t) => \A k \in 1 .. l : s[k] = t[k]}
<1>0. Len(s) \in Nat /\ Len(t) \in Nat
  BY Members
<1>1. 0 \in T
  OBVIOUS
<1>2. ASSUME NEW l \in Nat, l \in T
      PROVE  l + 1 \in T
  <2>. SUFFICES ASSUME l + 1 <= Len(s), l + 1 <= Len(t), NEW k \in 1 .. l + 1
                PROVE  s[k] = t[k]
    OBVIOUS
  <2>1. l < Len(s) /\ l < Len(t) /\ \A j \in 1 .. l : s[j] = t[j]
    BY <1>0, <1>2
  <2>2. s[l + 1] <= t[l + 1] /\ t[l + 1] <= s[l + 1]
    BY <2>1, AscendingAgree
  <2>3. s[l + 1] \in Nat /\ t[l + 1] \in Nat
    <3>1. l + 1 \in 1 .. Len(s) /\ l + 1 \in 1 .. Len(t)
      BY <1>0
    <3>. QED BY <3>1, Members
  <2>4. s[l + 1] = t[l + 1]
    BY <2>2, <2>3
  <2>. QED BY <2>1, <2>4
<1>3. n \in T
  <2>. HIDE DEF T
  <2>. QED BY <1>1, <1>2, Induction
<1>. QED BY <1>3

LEMMA AscendingLength ==
  ASSUME NEW s \in Seq(Nat), NEW t \in Seq(Nat), Ascending(s), Ascending(t),
         ToSet(s) = ToSet(t)
  PROVE  Len(s) <= Len(t)
<1>1. Len(s) \in Nat /\ Len(t) \in Nat
  BY Members
<1>. SUFFICES ASSUME Len(t) < Len(s)
              PROVE  FALSE
  BY <1>1
<1>2. \A k \in 1 .. Len(t) : s[k] = t[k]
  BY SMTT(30), <1>1, AscendingPrefix
<1>. DEFINE n == Len(t) + 1
<1>3. n \in 1 .. Len(s)
  BY <1>1
<1>4. PICK m \in 1 .. Len(t) : t[m] = s[n]
  <2>1. s[n] \in ToSet(t)
    BY <1>3, Members
  <2>. QED BY <2>1, Members
<1>5. m \in 1 .. Len(s) /\ m < n
  BY <1>1, <1>3
<1>6. s[m] < s[n]
  BY <1>3, <1>5 DEF Ascending
<1>7. s[m] \in Nat /\ s[m] = s[n]
  BY <1>2, <1>4, <1>5, Members
<1>. QED BY <1>6, <1>7

LEMMA AscendingIsUnique ==
  ASSUME NEW s \in Seq(Nat), NEW t \in Seq(Nat), Ascending(s), Ascending(t),
         ToSet(s) = ToSet(t)
  PROVE  s = t
<1>1. Len(s) \in Nat /\ Len(t) \in Nat
  BY Members
<1>2. Len(s) = Len(t)
  <2>1. Len(s) <= Len(t) /\ Len(t) <= Len(s)
    BY AscendingLength
  <2>. QED BY <1>1, <2>1
<1>3. \A k \in 1 .. Len(s) : s[k] = t[k]
  BY <1>1, <1>2, AscendingPrefix
<1>. QED BY <1>2, <1>3, SeqEqual

LEMMA InsertAtFacts ==
  ASSUME NEW A, NEW seq \in Seq(A), NEW i \in 1 .. Len(seq), NEW e \in A
  PROVE  /\ InsertAt(seq, i, e) \in Seq(A)
         /\ Len(InsertAt(seq, i, e)) = Len(seq) + 1
         /\ \A k \in 1 .. Len(seq) + 1 :
               InsertAt(seq, i, e)[k] = IF k < i THEN seq[k] ELSE IF k = i THEN e ELSE seq[k - 1]
<1>. DEFINE front == SubSeq(seq, 1, i - 1)
            back  == SubSeq(seq, i, Len(seq))
            new   == <<e>>
<1>1. Len(seq) \in Nat /\ i \in Int /\ i - 1 \in Int /\ Len(seq) \in Int /\ 1 \in Int
  BY Members
<1>2. /\ front \in Seq(A) /\ Len(front) = i - 1
      /\ \A k \in 1 .. i - 1 : front[k] = seq[k]
  <2>1. \A k \in 1 .. i - 1 : seq[k] \in A
    BY <1>1, Members
  <2>2. /\ front \in Seq(A) /\ Len(front) = IF 1 <= i - 1 THEN (i - 1) - 1 + 1 ELSE 0
        /\ \A k \in 1 .. (i - 1) - 1 + 1 : front[k] = seq[1 + k - 1]
    BY <1>1, <2>1, SubSeqProperties
  <2>3. \A k \in 1 .. i - 1 : k \in 1 .. (i - 1) - 1 + 1 /\ 1 + k - 1 = k
    BY <1>1
  <2>. QED BY <1>1, <2>2, <2>3
<1>3. /\ back \in Seq(A) /\ Len(back) = Len(seq) - i + 1
      /\ \A k \in 1 .. Len(seq) - i + 1 : back[k] = seq[i + k - 1]
  <2>1. \A k \in i .. Len(seq) : seq[k] \in A
    BY <1>1, Members
  <2>2. i <= Len(seq)
    BY <1>1
  <2>. QED BY <1>1, <2>1, <2>2, SubSeqProperties
<1>4. new \in Seq(A) /\ Len(new) = 1 /\ new[1] = e
  OBVIOUS
<1>. HIDE DEF front, back, new
<1>5. /\ front \o new \in Seq(A) /\ Len(front \o new) = i
      /\ \A k \in 1 .. i : (front \o new)[k] = IF k <= i - 1 THEN front[k] ELSE new[k - (i - 1)]
  <2>1. Len(front) + Len(new) = i
    BY <1>1, <1>2, <1>4
  <2>2. /\ front \o new \in Seq(A) /\ Len(front \o new) = Len(front) + Len(new)
        /\ \A k \in 1 .. Len(front) + Len(new) :
              (front \o new)[k] = IF k <= Len(front) THEN front[k] ELSE new[k - Len(front)]
    BY <1>2, <1>4, ConcatProperties
  <2>. QED BY <1>2, <2>1, <2>2
<1>6. InsertAt(seq, i, e) = (front \o new) \o back
  BY DEF InsertAt, front, back, new
<1>. DEFINE all == (front \o new) \o back
<1>7. /\ all \in Seq(A) /\ Len(all) = Len(seq) + 1
      /\ \A k \in 1 .. Len(seq) + 1 : all[k] = IF k <= i THEN (front \o new)[k] ELSE back[k - i]
  <2>1. Len(front \o new) + Len(back) = Len(seq) + 1
    BY <1>1, <1>3, <1>5
  <2>. DEFINE head == front \o new
  <2>. HIDE DEF head
  <2>2. head \in Seq(A) /\ Len(head) = i
    BY <1>5 DEF head
  <2>3. /\ head \o back \in Seq(A) /\ Len(head \o back) = Len(head) + Len(back)
        /\ \A k \in 1 .. Len(head) + Len(back) :
              (head \o back)[k] = IF k <= Len(head) THEN head[k] ELSE back[k - Len(head)]
    BY <1>3, <2>2, ConcatProperties
  <2>. QED BY <2>1, <2>2, <2>3 DEF head
<1>. HIDE DEF all
<1>8. ASSUME NEW k \in 1 .. Len(seq) + 1
      PROVE  all[k] = IF k < i THEN seq[k] ELSE IF k = i THEN e ELSE seq[k - 1]
  <2>1. CASE k < i
    <3>1. k \in 1 .. i - 1 /\ k \in 1 .. i /\ k <= i /\ k <= i - 1
      BY <1>1, <2>1
    <3>. QED BY <1>2, <1>5, <1>7, <2>1, <3>1
  <2>2. CASE k = i
    <3>1. k \in 1 .. i /\ k <= i /\ ~ (k <= i - 1) /\ k - (i - 1) = 1 /\ ~ (k < i)
      BY <1>1, <2>2
    <3>. QED BY <1>4, <1>5, <1>7, <2>2, <3>1
  <2>3. CASE i < k
    <3>1. k - i \in 1 .. Len(seq) - i + 1 /\ ~ (k <= i) /\ ~ (k < i) /\ k # i
          /\ i + (k - i) - 1 = k - 1
      BY <1>1, <2>3
    <3>. QED BY <1>3, <1>7, <2>3, <3>1
  <2>. QED BY <1>1, <2>1, <2>2, <2>3
<1>. QED BY <1>6, <1>7, <1>8 DEF all

----------------------------------------------------------------------------
(* A loop: what is there after each of its steps.                           *)

Runs(run, base, step, max) ==
  run[0] = base /\ \A n \in 1 .. max : run[n] = step[n][run[n - 1]]

LEMMA RunExists ==
  ASSUME NEW A, NEW base \in A, NEW max \in Nat, NEW step \in [1 .. max -> [A -> A]]
  PROVE  \E run \in [0 .. max -> A] : Runs(run, base, step, max)
<1>. DEFINE T == {m \in Nat : m <= max => \E run \in [0 .. m -> A] : Runs(run, base, step, m)}
<1>1. 0 \in T
  <2>. DEFINE run == [n \in 0 .. 0 |-> base]
  <2>1. run \in [0 .. 0 -> A] /\ Runs(run, base, step, 0)
    BY DEF Runs
  <2>. QED BY <2>1
<1>2. ASSUME NEW m \in Nat, m \in T
      PROVE  m + 1 \in T
  <2>. SUFFICES ASSUME m + 1 <= max
                PROVE  \E run \in [0 .. m + 1 -> A] : Runs(run, base, step, m + 1)
    OBVIOUS
  <2>1. PICK run \in [0 .. m -> A] : Runs(run, base, step, m)
    BY <1>2
  <2>. DEFINE longer == [n \in 0 .. m + 1 |-> IF n = m + 1 THEN step[m + 1][run[m]] ELSE run[n]]
  <2>2. m + 1 \in 1 .. max /\ m \in 0 .. m
    OBVIOUS
  <2>3. step[m + 1] \in [A -> A] /\ run[m] \in A
    BY <2>2
  <2>4. step[m + 1][run[m]] \in A
    BY <2>3
  <2>5. longer \in [0 .. m + 1 -> A]
    BY <2>4
  <2>6. longer[m + 1] = step[m + 1][run[m]] /\ \A n \in 0 .. m : longer[n] = run[n]
    OBVIOUS
  <2>. HIDE DEF longer
  <2>7. \A n \in 1 .. m + 1 : longer[n] = step[n][longer[n - 1]]
    <3>. TAKE n \in 1 .. m + 1
    <3>1. CASE n = m + 1
      <4>1. n - 1 = m
        BY <3>1
      <4>. QED BY <2>2, <2>6, <3>1, <4>1
    <3>2. CASE n # m + 1
      <4>1. n \in 1 .. m /\ n \in 0 .. m /\ n - 1 \in 0 .. m
        BY <3>2
      <4>. QED BY <2>1, <2>6, <4>1 DEF Runs
    <3>. QED BY <3>1, <3>2
  <2>8. longer[0] = base
    <3>1. 0 \in 0 .. m
      OBVIOUS
    <3>. QED BY <2>1, <2>6, <3>1 DEF Runs
  <2>. QED BY <2>5, <2>7, <2>8 DEF Runs
<1>3. max \in T
  <2>. HIDE DEF T
  <2>. QED BY <1>1, <1>2, Induction
<1>. QED BY <1>3

(* What is not greater than a number comes first. *)
LEMMA AscendingPart ==
  ASSUME NEW s \in Seq(Nat), NEW t \in Seq(Nat), Ascending(s), Ascending(t), NEW m \in Nat,
         ToSet(s) = {x \in ToSet(t) : x <= m}
  PROVE  IsPrefix(s, t)
<1>1. /\ Len(s) \in Nat /\ Len(t) \in Nat
      /\ \A x : x \in ToSet(s) <=> \E i \in 1 .. Len(s) : s[i] = x
      /\ \A x : x \in ToSet(t) <=> \E i \in 1 .. Len(t) : t[i] = x
      /\ \A i \in 1 .. Len(s) : s[i] \in ToSet(s) /\ s[i] \in Nat
      /\ \A i \in 1 .. Len(t) : t[i] \in ToSet(t) /\ t[i] \in Nat
  BY Members
<1>. DEFINE T == {n \in Nat : n <= Len(s) => n <= Len(t) /\ \A k \in 1 .. n : s[k] = t[k]}
<1>2. 0 \in T
  BY <1>1
<1>3. ASSUME NEW n \in Nat, n \in T
      PROVE  n + 1 \in T
  <2>. SUFFICES ASSUME n + 1 <= Len(s)
                PROVE  n + 1 <= Len(t) /\ \A k \in 1 .. n + 1 : s[k] = t[k]
    OBVIOUS
  <2>1. n <= Len(s) /\ n <= Len(t) /\ \A k \in 1 .. n : s[k] = t[k]
    BY <1>1, <1>3
  <2>2. n + 1 \in 1 .. Len(s) /\ s[n + 1] \in ToSet(t) /\ s[n + 1] <= m
    BY <1>1
  <2>3. PICK j \in 1 .. Len(t) : t[j] = s[n + 1]
    BY <1>1, <2>2
  <2>4. n < j
    <3>. SUFFICES ASSUME j <= n
                  PROVE  FALSE
      BY <1>1
    <3>1. j \in 1 .. n /\ j \in 1 .. Len(s) /\ j < n + 1
      BY <1>1, <2>1
    <3>2. s[j] < s[n + 1] /\ s[j] = s[n + 1]
      BY <2>1, <2>2, <2>3, <3>1 DEF Ascending
    <3>3. s[j] \in Nat /\ s[n + 1] \in Nat
      BY <1>1, <2>2, <3>1
    <3>. QED BY <3>2, <3>3
  <2>5. n + 1 \in 1 .. Len(t) /\ n + 1 <= Len(t)
    BY <1>1, <2>4
  <2>6. t[n + 1] <= s[n + 1]
    <3>1. n + 1 = j \/ n + 1 < j
      BY <2>4
    <3>2. n + 1 < j => t[n + 1] < t[j]
      BY <2>5 DEF Ascending
    <3>3. t[n + 1] \in Nat /\ t[j] \in Nat
      BY <1>1, <2>5
    <3>4. t[n + 1] <= t[j]
      BY <3>1, <3>2, <3>3
    <3>. QED BY <2>3, <3>4
  <2>7. t[n + 1] \in ToSet(s)
    <3>1. t[n + 1] \in ToSet(t) /\ t[n + 1] \in Nat /\ s[n + 1] \in Nat
      BY <1>1, <2>2, <2>5
    <3>2. t[n + 1] <= m
      BY <2>2, <2>6, <3>1
    <3>. QED BY <3>1, <3>2
  <2>8. PICK p \in 1 .. Len(s) : s[p] = t[n + 1]
    BY <1>1, <2>7
  <2>9. n < p
    <3>. SUFFICES ASSUME p <= n
                  PROVE  FALSE
      BY <1>1
    <3>1. p \in 1 .. n /\ p \in 1 .. Len(t) /\ p < n + 1
      BY <1>1, <2>1
    <3>2. t[p] < t[n + 1] /\ t[p] = t[n + 1]
      BY <2>1, <2>5, <2>8, <3>1 DEF Ascending
    <3>3. t[p] \in Nat /\ t[n + 1] \in Nat
      BY <1>1, <2>5, <3>1
    <3>. QED BY <3>2, <3>3
  <2>10. s[n + 1] <= t[n + 1]
    <3>1. n + 1 = p \/ n + 1 < p
      BY <2>9
    <3>2. n + 1 < p => s[n + 1] < s[p]
      BY <2>2 DEF Ascending
    <3>3. s[n + 1] \in Nat /\ s[p] \in Nat
      BY <1>1, <2>2
    <3>4. s[n + 1] <= s[p]
      BY <3>1, <3>2, <3>3
    <3>. QED BY <2>8, <3>4
  <2>11. s[n + 1] = t[n + 1]
    <3>1. t[n + 1] \in Nat /\ s[n + 1] \in Nat
      BY <1>1, <2>2, <2>5
    <3>. QED BY <2>6, <2>10, <3>1
  <2>12. \A k \in 1 .. n + 1 : k \in 1 .. n \/ k = n + 1
    OBVIOUS
  <2>. QED BY <2>1, <2>5, <2>11, <2>12
<1>4. Len(s) <= Len(t) /\ \A k \in 1 .. Len(s) : s[k] = t[k]
  <2>1. Nat \subseteq T
    <3>. HIDE DEF T
    <3>. QED BY <1>2, <1>3, Induction
  <2>2. Len(s) \in T
    BY <1>1, <2>1
  <2>. QED BY <1>1, <2>2
<1>5. \A k \in 1 .. Len(s) : k <= Len(s) /\ k <= Len(t)
  BY <1>1, <1>4
<1>6. SubSeq(s, 1, Len(s)) = [k \in 1 .. Len(s) |-> s[k]]
  BY <1>1
<1>7. SubSeq(t, 1, Len(s)) = [k \in 1 .. Len(s) |-> t[k]]
  BY <1>1, <1>4
<1>. QED BY <1>4, <1>6, <1>7 DEF IsPrefix

----------------------------------------------------------------------------
(* Sequences without repeated elements.                                     *)

Distinct(s) == \A i, j \in 1 .. Len(s) : s[i] = s[j] => i = j

LEMMA ConcatDistinct ==
  ASSUME NEW A, NEW s \in Seq(A), NEW t \in Seq(A), Distinct(s), Distinct(t),
         ToSet(s) \cap ToSet(t) = {}
  PROVE  Distinct(s \o t)
<1>1. /\ Len(s \o t) = Len(s) + Len(t)
      /\ \A i \in 1 .. Len(s) + Len(t) : (s \o t)[i] = IF i <= Len(s) THEN s[i]
                                                       ELSE t[i - Len(s)]
  BY ConcatProperties
<1>2. /\ Len(s) \in Nat /\ Len(t) \in Nat
      /\ \A i \in 1 .. Len(s) : s[i] \in ToSet(s)
      /\ \A i \in 1 .. Len(t) : t[i] \in ToSet(t)
  BY Members
<1>3. ASSUME NEW i \in 1 .. Len(s \o t), NEW j \in 1 .. Len(s \o t),
             (s \o t)[i] = (s \o t)[j], i <= Len(s)
      PROVE  i = j
  <2>1. i \in 1 .. Len(s) /\ (s \o t)[i] = s[i]
    BY <1>1, <1>2, <1>3
  <2>2. CASE j <= Len(s)
    <3>1. j \in 1 .. Len(s) /\ (s \o t)[j] = s[j]
      BY <1>1, <1>2, <2>2
    <3>. QED BY <1>3, <2>1, <3>1 DEF Distinct
  <2>3. CASE ~ (j <= Len(s))
    <3>1. j - Len(s) \in 1 .. Len(t) /\ (s \o t)[j] = t[j - Len(s)]
      BY <1>1, <1>2, <2>3
    <3>. QED BY <1>2, <1>3, <2>1, <3>1
  <2>. QED BY <2>2, <2>3
<1>4. ASSUME NEW i \in 1 .. Len(s \o t), NEW j \in 1 .. Len(s \o t),
             (s \o t)[i] = (s \o t)[j], ~ (i <= Len(s)), ~ (j <= Len(s))
      PROVE  i = j
  <2>1. i - Len(s) \in 1 .. Len(t) /\ (s \o t)[i] = t[i - Len(s)]
    BY <1>1, <1>2, <1>4
  <2>2. j - Len(s) \in 1 .. Len(t) /\ (s \o t)[j] = t[j - Len(s)]
    BY <1>1, <1>2, <1>4
  <2>3. i - Len(s) = j - Len(s)
    BY <1>4, <2>1, <2>2 DEF Distinct
  <2>. QED BY <1>1, <1>2, <2>3
<1>. QED BY <1>3, <1>4 DEF Distinct

LEMMA KeptDistinct ==
  ASSUME NEW A, NEW seq \in Seq(A), NEW S, Distinct(seq)
  PROVE  Distinct(Kept(seq, S))
<1>. DEFINE kept == Kept(seq, S)
<1>1. Len(kept) \in Nat
  BY KeptPlaces, Members
<1>2. InOrder(kept, seq)
  BY KeptInOrder
<1>. HIDE DEF kept
<1>3. ASSUME NEW i \in 1 .. Len(kept), NEW j \in 1 .. Len(kept), i < j
      PROVE  kept[i] # kept[j]
  <2>1. PICK k \in 1 .. Len(seq), l \in 1 .. Len(seq) :
               k < l /\ kept[i] = seq[k] /\ kept[j] = seq[l]
    BY <1>2, <1>3 DEF InOrder
  <2>2. k # l
    BY <2>1, Members
  <2>. QED BY <2>1, <2>2 DEF Distinct
<1>4. \A i, j \in 1 .. Len(kept) : i = j \/ i < j \/ j < i
  BY <1>1
<1>5. Distinct(kept)
  BY <1>3, <1>4 DEF Distinct
<1>. QED BY <1>5 DEF kept

----------------------------------------------------------------------------
(* Sequences that grow and shrink.                                          *)

LEMMA AppendedMembers ==
  ASSUME NEW A, NEW s \in Seq(A), NEW e \in A
  PROVE  /\ Append(s, e) \in Seq(A)
         /\ ToSet(Append(s, e)) = ToSet(s) \cup {e}
         /\ s # << >> => Append(s, e)[1] = s[1] /\ Append(s, e) # << >>
         /\ Distinct(s) /\ e \notin ToSet(s) => Distinct(Append(s, e))
<1>1. /\ Append(s, e) \in Seq(A)
      /\ Len(Append(s, e)) = Len(s) + 1
      /\ \A i \in 1 .. Len(s) : Append(s, e)[i] = s[i]
      /\ Append(s, e)[Len(s) + 1] = e
  BY AppendProperties
<1>2. /\ Len(s) \in Nat
      /\ \A i \in 1 .. Len(s) : s[i] \in ToSet(s)
      /\ \A x : x \in ToSet(s) <=> \E i \in 1 .. Len(s) : s[i] = x
      /\ \A x : x \in ToSet(Append(s, e)) <=>
                  \E i \in 1 .. Len(Append(s, e)) : Append(s, e)[i] = x
  BY <1>1, Members
<1>3. \A i \in 1 .. Len(s) + 1 : i \in 1 .. Len(s) \/ i = Len(s) + 1
  BY <1>2
<1>4. Len(s) + 1 \in 1 .. Len(s) + 1 /\ \A i \in 1 .. Len(s) : i \in 1 .. Len(s) + 1
  BY <1>2
<1>5. ToSet(Append(s, e)) = ToSet(s) \cup {e}
  BY <1>1, <1>2, <1>3, <1>4
<1>6. s # << >> => Append(s, e)[1] = s[1] /\ Append(s, e) # << >>
  <2>1. s # << >> => 1 \in 1 .. Len(s)
    BY <1>2, EmptySeq
  <2>2. Append(s, e) # << >>
    BY <1>1, <1>2, EmptySeq
  <2>. QED BY <1>1, <2>1, <2>2
<1>7. Distinct(s) /\ e \notin ToSet(s) => Distinct(Append(s, e))
  BY <1>1, <1>2, <1>3 DEF Distinct
<1>. QED BY <1>1, <1>5, <1>6, <1>7

LEMMA RemovedMembers ==
  ASSUME NEW A, NEW seq \in Seq(A), NEW k \in 1 .. Len(seq)
  PROVE  /\ RemoveAt(seq, k) \in Seq(A)
         /\ ToSet(RemoveAt(seq, k)) \subseteq ToSet(seq)
         /\ ToSet(seq) \subseteq ToSet(RemoveAt(seq, k)) \cup {seq[k]}
         /\ k # 1 => RemoveAt(seq, k)[1] = seq[1] /\ RemoveAt(seq, k) # << >>
<1>. DEFINE front == SubSeq(seq, 1, k - 1)
            back  == SubSeq(seq, k + 1, Len(seq))
            rest  == RemoveAt(seq, k)
            n     == Len(seq)
<1>1. n \in Nat /\ \A i \in 1 .. n : seq[i] \in ToSet(seq)
  BY Members
<1>2. /\ front \in Seq(A) /\ Len(front) = k - 1
      /\ \A i \in 1 .. k - 1 : front[i] = seq[i]
  BY <1>1, SubSeqProperties
<1>3. /\ back \in Seq(A) /\ Len(back) = n - k
      /\ \A i \in 1 .. n - k : back[i] = seq[k + i]
  BY <1>1, SubSeqProperties
<1>4. rest = front \o back
  BY DEF RemoveAt
<1>. HIDE DEF front, back, rest, n
<1>5. /\ rest \in Seq(A) /\ Len(rest) = n - 1
      /\ \A i \in 1 .. n - 1 : rest[i] = IF i < k THEN seq[i] ELSE seq[i + 1]
  <2>1. /\ rest \in Seq(A) /\ Len(rest) = (k - 1) + (n - k)
        /\ \A i \in 1 .. (k - 1) + (n - k) :
              rest[i] = IF i <= k - 1 THEN front[i] ELSE back[i - (k - 1)]
    BY <1>2, <1>3, <1>4, ConcatProperties
  <2>2. (k - 1) + (n - k) = n - 1 /\ k \in 1 .. n
    BY <1>1 DEF n
  <2>3. \A i \in 1 .. n - 1 : rest[i] = IF i < k THEN seq[i] ELSE seq[i + 1]
    <3>. TAKE i \in 1 .. n - 1
    <3>1. CASE i < k
      <4>1. i \in 1 .. k - 1 /\ i <= k - 1 /\ i \in 1 .. (k - 1) + (n - k)
        BY <1>1, <2>2, <3>1
      <4>. QED BY <1>2, <2>1, <3>1, <4>1
    <3>2. CASE ~ (i < k)
      <4>1. /\ i - (k - 1) \in 1 .. n - k /\ ~ (i <= k - 1)
            /\ i \in 1 .. (k - 1) + (n - k) /\ k + (i - (k - 1)) = i + 1
        BY <1>1, <2>2, <3>2
      <4>. QED BY <1>3, <2>1, <3>2, <4>1
    <3>. QED BY <3>1, <3>2
  <2>. QED BY <2>1, <2>2, <2>3
<1>6. Len(rest) \in Nat /\ \A x : x \in ToSet(rest) <=> \E i \in 1 .. Len(rest) : rest[i] = x
  BY <1>5, Members
<1>7. ToSet(rest) \subseteq ToSet(seq)
  <2>1. \A i \in 1 .. n - 1 : i \in 1 .. n /\ i + 1 \in 1 .. n
    BY <1>1
  <2>. QED BY <1>1, <1>5, <1>6, <2>1
<1>8. ASSUME NEW x \in ToSet(seq), x # seq[k]
      PROVE  x \in ToSet(rest)
  <2>1. PICK j \in 1 .. n : seq[j] = x
    BY <1>8, Members DEF n
  <2>2. j # k /\ k \in 1 .. n
    BY <1>8, <2>1 DEF n
  <2>3. CASE j < k
    <3>1. j \in 1 .. n - 1
      BY <1>1, <2>2, <2>3
    <3>. QED BY <1>5, <1>6, <2>1, <2>3, <3>1
  <2>4. CASE ~ (j < k)
    <3>1. j - 1 \in 1 .. n - 1 /\ ~ (j - 1 < k) /\ (j - 1) + 1 = j
      BY <1>1, <2>2, <2>4
    <3>. QED BY <1>5, <1>6, <2>1, <3>1
  <2>. QED BY <2>3, <2>4
<1>9. ASSUME k # 1
      PROVE  rest[1] = seq[1] /\ rest # << >>
  <2>1. k \in 1 .. n
    BY DEF n
  <2>2. 1 \in 1 .. n - 1 /\ 1 < k
    BY <1>1, <1>9, <2>1
  <2>. QED BY <1>5, <2>2, EmptySeq
<1>. QED BY <1>5, <1>7, <1>8, <1>9 DEF rest

----------------------------------------------------------------------------
(* FlattenSeq, one sequence at a time.                                      *)
FlattenedFrom(flat, seqs, max) ==
  flat = [i \in 1 .. max |-> IF i = 1 THEN seqs[i] ELSE flat[i - 1] \o seqs[i]]

LEMMA FlattenedExists ==
  ASSUME NEW A, NEW seqs \in Seq(Seq(A)), seqs # << >>
  PROVE  \E flat \in [1 .. Len(seqs) -> Seq(A)] : FlattenedFrom(flat, seqs, Len(seqs))
<1>. DEFINE n    == Len(seqs)
            step == [i \in 1 .. n - 1 |-> [s \in Seq(A) |-> s \o seqs[i + 1]]]
<1>1. n \in Nat /\ n - 1 \in Nat /\ 1 \in 1 .. n /\ \A i \in 1 .. n : seqs[i] \in Seq(A)
  BY Members, EmptySeq
<1>2. step \in [1 .. n - 1 -> [Seq(A) -> Seq(A)]]
  <2>1. \A i \in 1 .. n - 1 : \A s \in Seq(A) : s \o seqs[i + 1] \in Seq(A)
    <3>1. \A i \in 1 .. n - 1 : i + 1 \in 1 .. n
      BY <1>1
    <3>. QED BY <1>1, <3>1, ConcatProperties
  <2>. QED BY <2>1
<1>3. PICK run \in [0 .. n - 1 -> Seq(A)] : Runs(run, seqs[1], step, n - 1)
  <2>. HIDE DEF step
  <2>. QED BY <1>1, <1>2, RunExists
<1>. DEFINE flat == [i \in 1 .. n |-> run[i - 1]]
<1>4. \A i \in 1 .. n : i - 1 \in 0 .. n - 1 /\ (i # 1 => i - 1 \in 1 .. n - 1 /\ i - 1 \in 1 .. n)
  BY <1>1
<1>5. flat \in [1 .. n -> Seq(A)]
  BY <1>3, <1>4
<1>6. \A i \in 1 .. n : flat[i] = IF i = 1 THEN seqs[i] ELSE flat[i - 1] \o seqs[i]
  <2>. TAKE i \in 1 .. n
  <2>1. CASE i = 1
    BY <1>3, <1>4, <2>1 DEF Runs
  <2>2. CASE i # 1
    <3>1. /\ i - 1 \in 1 .. n - 1 /\ (i - 1) + 1 = i /\ i - 1 \in 1 .. n
          /\ (i - 1) - 1 \in 0 .. n - 1
      BY <1>1, <2>2
    <3>2. run[i - 1] = step[i - 1][run[(i - 1) - 1]]
      BY <1>3, <3>1 DEF Runs
    <3>3. run[(i - 1) - 1] \in Seq(A)
      BY <3>1
    <3>4. run[i - 1] = run[(i - 1) - 1] \o seqs[i]
      BY <3>1, <3>2, <3>3
    <3>. QED BY <2>2, <3>1, <3>4
  <2>. QED BY <2>1, <2>2
<1>7. FlattenedFrom(flat, seqs, n)
  <2>1. flat = [i \in 1 .. n |-> flat[i]]
    OBVIOUS
  <2>. HIDE DEF flat
  <2>. QED BY <1>6, <2>1 DEF FlattenedFrom
<1>. QED BY <1>5, <1>7

LEMMA FlattenedIsLast ==
  ASSUME NEW A, NEW seqs \in Seq(Seq(A)), seqs # << >>
  PROVE  \E flat : FlattenedFrom(flat, seqs, Len(seqs)) /\ FlattenSeq(seqs) = flat[Len(seqs)]
<1>. DEFINE flat == CHOOSE f : FlattenedFrom(f, seqs, Len(seqs))
<1>1. FlattenedFrom(flat, seqs, Len(seqs))
  BY FlattenedExists
<1>2. Len(seqs) # 0
  BY EmptySeq
<1>3. FlattenSeq(seqs) = flat[Len(seqs)]
  BY <1>2 DEF FlattenSeq, FlattenedFrom
<1>. QED BY <1>1, <1>3

(* Its elements are those of the sequences. *)
LEMMA FlattenedMembers ==
  ASSUME NEW A, NEW seqs \in Seq(Seq(A))
  PROVE  /\ FlattenSeq(seqs) \in Seq(A)
         /\ \A x : x \in ToSet(FlattenSeq(seqs)) <=> \E k \in 1 .. Len(seqs) : x \in ToSet(seqs[k])
<1>. DEFINE n == Len(seqs)
            Members_(s, i) == \A x : x \in ToSet(s) <=> \E k \in 1 .. i : x \in ToSet(seqs[k])
            Good(s, i) == s \in Seq(A) /\ Members_(s, i)
<1>1. CASE seqs = << >>
  <2>1. Len(seqs) = 0 /\ FlattenSeq(seqs) = << >> /\ ToSet(<< >>) = {} /\ << >> \in Seq(A)
    BY <1>1, EmptySeq DEF FlattenSeq, ToSet
  <2>. QED BY <2>1
<1>2. CASE seqs # << >>
  <2>1. PICK flat : FlattenedFrom(flat, seqs, n) /\ FlattenSeq(seqs) = flat[n]
    BY <1>2, FlattenedIsLast
  <2>. HIDE DEF Members_, Good
  <2>2. n \in Nat /\ n # 0 /\ \A i \in 1 .. n : seqs[i] \in Seq(A)
    BY <1>2, Members, EmptySeq
  <2>. DEFINE T == {m \in Nat : m + 1 <= n => Good(flat[m + 1], m + 1)}
  <2>3. flat[1] = seqs[1]
    BY <2>1, <2>2 DEF FlattenedFrom
  <2>4. 0 \in T
    <3>1. 1 \in 1 .. n /\ \A k \in 1 .. 1 : k = 1
      BY <2>2
    <3>2. Members_(seqs[1], 1)
      BY <3>1 DEF Members_
    <3>3. Good(flat[1], 1)
      BY <2>2, <2>3, <3>1, <3>2 DEF Good
    <3>. QED BY <3>3
  <2>5. ASSUME NEW m \in Nat, m \in T
        PROVE  m + 1 \in T
    <3>. DEFINE i == m + 1
    <3>. SUFFICES ASSUME i + 1 <= n
                  PROVE  Good(flat[i + 1], i + 1)
      OBVIOUS
    <3>0. m + 1 <= n => Good(flat[m + 1], m + 1)
      BY <2>5
    <3>1. i \in Nat /\ i + 1 \in 1 .. n /\ i + 1 # 1 /\ (i + 1) - 1 = i /\ i \in 1 .. n
      BY <2>2
    <3>2. Good(flat[i], i)
      BY <3>0, <3>1
    <3>3. flat[i + 1] = flat[i] \o seqs[i + 1]
      BY <2>1, <3>1 DEF FlattenedFrom
    <3>4. \A k : k \in 1 .. i + 1 <=> k \in 1 .. i \/ k = i + 1
      BY <3>1
    <3>. HIDE DEF i
    <3>6. flat[i + 1] \in Seq(A) /\ ToSet(flat[i + 1]) = ToSet(flat[i]) \cup ToSet(seqs[i + 1])
      BY <2>2, <3>1, <3>2, <3>3, MembersOfConcat, ConcatProperties DEF Good
    <3>7. Members_(flat[i + 1], i + 1)
      BY <3>2, <3>4, <3>6 DEF Good, Members_
    <3>. QED BY <3>6, <3>7 DEF Good
  <2>6. n - 1 \in T /\ (n - 1) + 1 = n
    <3>1. n - 1 \in Nat /\ (n - 1) + 1 = n
      BY <2>2
    <3>. HIDE DEF T
    <3>. QED BY <2>4, <2>5, <3>1, Induction
  <2>7. Good(flat[n], n)
    BY <2>2, <2>6
  <2>. QED BY <2>1, <2>7 DEF Good, Members_
<1>. QED BY <1>1, <1>2

----------------------------------------------------------------------------
(* Counting: how often an element stands in a sequence.                     *)
LEMMA KeptSteps ==
  ASSUME NEW kept, NEW seq, NEW S, NEW n \in Nat, KeptFrom(kept, seq, S, n)
  PROVE  /\ kept[0] = << >>
         /\ \A i \in 1 .. n :
              kept[i] = IF seq[i] \in S THEN Append(kept[i - 1], seq[i]) ELSE kept[i - 1]
<1>1. 0 \in 0 .. n /\ \A i \in 1 .. n : i \in 0 .. n /\ i # 0
  OBVIOUS
<1>2. \A i \in 0 .. n :
        kept[i] = IF i = 0 THEN << >>
                  ELSE IF seq[i] \in S THEN Append(kept[i - 1], seq[i]) ELSE kept[i - 1]
  BY DEF KeptFrom
<1>3. kept[0] = << >>
  BY <1>1, <1>2
<1>4. \A i \in 1 .. n :
         kept[i] = IF seq[i] \in S THEN Append(kept[i - 1], seq[i]) ELSE kept[i - 1]
  BY <1>1, <1>2
<1>. QED BY <1>3, <1>4

LEMMA KeptOfAppend ==
  ASSUME NEW A, NEW seq \in Seq(A), NEW e \in A, NEW S
  PROVE  Kept(Append(seq, e), S) = IF e \in S THEN Append(Kept(seq, S), e) ELSE Kept(seq, S)
<1>. DEFINE n == Len(seq)
            longer == Append(seq, e)
<1>1. /\ n \in Nat /\ Len(longer) = n + 1
      /\ \A i \in 1 .. n : longer[i] = seq[i]
      /\ longer[n + 1] = e
  BY Members, AppendProperties
<1>2. PICK kept : KeptFrom(kept, seq, S, n) /\ Kept(seq, S) = kept[n]
  BY <1>1, KeptIsLast
<1>3. PICK more : KeptFrom(more, longer, S, n + 1) /\ Kept(longer, S) = more[n + 1]
  <2>1. Len(longer) \in Nat
    BY <1>1
  <2>. QED BY <1>1, <2>1, KeptIsLast
<1>. HIDE DEF n, longer
<1>4. /\ kept[0] = << >>
      /\ \A i \in 1 .. n : kept[i] = IF seq[i] \in S THEN Append(kept[i - 1], seq[i]) ELSE kept[i - 1]
  BY <1>1, <1>2, KeptSteps
<1>5. /\ more[0] = << >>
      /\ \A i \in 1 .. n + 1 :
           more[i] = IF longer[i] \in S THEN Append(more[i - 1], longer[i]) ELSE more[i - 1]
  <2>1. n + 1 \in Nat
    BY <1>1
  <2>. QED BY <1>3, <2>1, KeptSteps
<1>. DEFINE T == {m \in Nat : m <= n => more[m] = kept[m]}
<1>6. 0 \in T
  BY <1>4, <1>5
<1>7. ASSUME NEW m \in Nat, m \in T
      PROVE  m + 1 \in T
  <2>. SUFFICES ASSUME m + 1 <= n
                PROVE  more[m + 1] = kept[m + 1]
    OBVIOUS
  <2>1. m + 1 \in 1 .. n /\ m + 1 \in 1 .. n + 1 /\ (m + 1) - 1 = m /\ more[m] = kept[m]
    BY <1>1, <1>7
  <2>2. longer[m + 1] = seq[m + 1]
    BY <1>1, <2>1
  <2>. QED BY <1>4, <1>5, <2>1, <2>2
<1>8. more[n] = kept[n]
  <2>. HIDE DEF T
  <2>1. n \in T
    BY <1>1, <1>6, <1>7, Induction
  <2>. QED BY <2>1, <1>1 DEF T
<1>9. n + 1 \in 1 .. n + 1 /\ (n + 1) - 1 = n
  BY <1>1
<1>10. more[n + 1] = IF e \in S THEN Append(more[n], e) ELSE more[n]
  BY <1>1, <1>5, <1>9
<1>. QED BY <1>2, <1>3, <1>8, <1>10 DEF n, longer

(* The places where the element stands, or as many others. *)
Counted(seq, x, P) == IsFiniteSet(P) /\ Cardinality(P) = Len(Kept(seq, {x}))

LEMMA CountedEmpty ==
  ASSUME NEW x
  PROVE  Counted(<< >>, x, {})
<1>1. Kept(<< >>, {x}) = << >>
  <2>1. Len(<< >>) = 0 /\ Len(<< >>) \in Nat
    OBVIOUS
  <2>2. PICK kept : KeptFrom(kept, << >>, {x}, 0) /\ Kept(<< >>, {x}) = kept[0]
    BY <2>1, KeptIsLast
  <2>. QED BY <2>2, KeptSteps
<1>2. Len(<< >>) = 0
  OBVIOUS
<1>. QED BY <1>1, <1>2, FS_EmptySet DEF Counted

LEMMA CountedAppend ==
  ASSUME NEW A, NEW seq \in Seq(A), NEW e \in A, NEW x, NEW P, Counted(seq, x, P),
         NEW p, p \notin P
  PROVE  /\ e = x  => Counted(Append(seq, e), x, P \cup {p})
         /\ e # x => Counted(Append(seq, e), x, P)
<1>1. Kept(seq, {x}) \in Seq(A)
  BY KeptPlaces
<1>2. Kept(Append(seq, e), {x}) = IF e \in {x} THEN Append(Kept(seq, {x}), e) ELSE Kept(seq, {x})
  BY KeptOfAppend
<1>3. Len(Append(Kept(seq, {x}), e)) = Len(Kept(seq, {x})) + 1
  BY <1>1, AppendProperties
<1>4. Cardinality(P \cup {p}) = Cardinality(P) + 1 /\ IsFiniteSet(P \cup {p})
  BY FS_AddElement DEF Counted
<1>5. e = x => Kept(Append(seq, e), {x}) = Append(Kept(seq, {x}), e)
  BY <1>2
<1>6. e # x => Kept(Append(seq, e), {x}) = Kept(seq, {x})
  BY <1>2
<1>. QED BY <1>3, <1>4, <1>5, <1>6 DEF Counted

LEMMA SequenceInduction ==
  ASSUME NEW A, NEW T, << >> \in T, \A s \in Seq(A) : \A e \in A : s \in T => Append(s, e) \in T
  PROVE  Seq(A) \subseteq T
<1>. DEFINE N == {n \in Nat : \A s \in Seq(A) : Len(s) = n => s \in T}
<1>1. 0 \in N
  <2>1. \A s \in Seq(A) : Len(s) = 0 => s = << >>
    BY EmptySeq
  <2>. QED BY <2>1
<1>2. ASSUME NEW n \in Nat, n \in N
      PROVE  n + 1 \in N
  <2>. SUFFICES ASSUME NEW s \in Seq(A), Len(s) = n + 1
                PROVE  s \in T
    OBVIOUS
  <2>1. s # << >>
    BY EmptySeq
  <2>2. PICK t \in Seq(A), e \in A : s = Append(t, e)
    BY <2>1, SequenceEmptyOrAppend
  <2>3. Len(t) = n
    <3>1. Len(Append(t, e)) = Len(t) + 1 /\ Len(t) \in Nat
      BY AppendProperties, Members
    <3>. QED BY <2>2, <3>1
  <2>. QED BY <1>2, <2>2, <2>3
<1>3. Nat \subseteq N
  <2>. HIDE DEF N
  <2>. QED BY <1>1, <1>2, Induction
<1>4. \A s \in Seq(A) : Len(s) \in Nat
  BY Members
<1>. QED BY <1>3, <1>4

LEMMA LengthOfKeptConcat ==
  ASSUME NEW A, NEW s \in Seq(A), NEW t \in Seq(A), NEW S
  PROVE  Len(Kept(s \o t, S)) = Len(Kept(s, S)) + Len(Kept(t, S))
<1>. DEFINE count(q) == Len(Kept(q, S))
            T == {u \in Seq(A) : count(s \o u) = count(s) + count(u)}
<1>1. \A q \in Seq(A) : count(q) \in Nat
  <2>. TAKE q \in Seq(A)
  <2>1. Kept(q, S) \in Seq(A)
    BY KeptPlaces
  <2>. QED BY <2>1, Members
<1>2. count(<< >>) = 0
  <2>1. Len(<< >>) = 0 /\ Len(<< >>) \in Nat
    OBVIOUS
  <2>2. PICK kept : KeptFrom(kept, << >>, S, 0) /\ Kept(<< >>, S) = kept[0]
    BY <2>1, KeptIsLast
  <2>3. Kept(<< >>, S) = << >>
    BY <2>2, KeptSteps
  <2>. QED BY <2>1, <2>3
<1>3. \A q \in Seq(A) : \A e \in A : count(Append(q, e)) = IF e \in S THEN count(q) + 1 ELSE count(q)
  <2>. TAKE q \in Seq(A)
  <2>. TAKE e \in A
  <2>1. Kept(Append(q, e), S) = IF e \in S THEN Append(Kept(q, S), e) ELSE Kept(q, S)
    BY KeptOfAppend
  <2>2. Kept(q, S) \in Seq(A)
    BY KeptPlaces
  <2>3. Len(Append(Kept(q, S), e)) = Len(Kept(q, S)) + 1
    BY <2>2, AppendProperties
  <2>. QED BY <2>1, <2>3
<1>. HIDE DEF count
<1>4. << >> \in T
  <2>1. s \o << >> = s /\ << >> \in Seq(A)
    BY ConcatEmptySeq, EmptySeq
  <2>. QED BY <1>1, <1>2, <2>1
<1>5. ASSUME NEW u \in Seq(A), NEW e \in A, u \in T
      PROVE  Append(u, e) \in T
  <2>1. s \o Append(u, e) = Append(s \o u, e)
    <3>1. << e >> \in Seq(A)
      OBVIOUS
    <3>2. (s \o u) \o << e >> = s \o (u \o << e >>)
      BY <3>1, ConcatAssociative
    <3>3. s \o u \in Seq(A)
      BY ConcatProperties
    <3>. QED BY <3>2, <3>3, AppendIsConcat
  <2>2. s \o u \in Seq(A) /\ Append(u, e) \in Seq(A)
    BY ConcatProperties, AppendProperties
  <2>3. count(s \o u) = count(s) + count(u)
    BY <1>5
  <2>4. count(s \o Append(u, e)) = count(s) + count(Append(u, e))
    <3>1. /\ count(Append(s \o u, e)) = IF e \in S THEN count(s \o u) + 1 ELSE count(s \o u)
          /\ count(Append(u, e)) = IF e \in S THEN count(u) + 1 ELSE count(u)
      BY <1>3, <2>2
    <3>2. count(s) \in Nat /\ count(u) \in Nat
      BY <1>1
    <3>. QED BY <2>1, <2>3, <3>1, <3>2
  <2>. QED BY <2>2, <2>4
<1>6. t \in T
  <2>. HIDE DEF T
  <2>. QED BY <1>4, <1>5, SequenceInduction
<1>. QED BY <1>6 DEF count

LEMMA CountedConcat ==
  ASSUME NEW A, NEW s \in Seq(A), NEW t \in Seq(A), NEW x,
         NEW P, Counted(s, x, P), NEW Q, Counted(t, x, Q), P \cap Q = {}
  PROVE  Counted(s \o t, x, P \cup Q)
<1>1. Cardinality(P \cup Q) = Cardinality(P) + Cardinality(Q) - Cardinality({}) /\ IsFiniteSet(P \cup Q)
  <2>1. IsFiniteSet(P) /\ IsFiniteSet(Q)
    BY DEF Counted
  <2>2. Cardinality(P \cup Q) = Cardinality(P) + Cardinality(Q) - Cardinality(P \cap Q) /\ IsFiniteSet(P \cup Q)
    BY <2>1, FS_Union
  <2>. QED BY <2>2
<1>2. Cardinality({}) = 0
  BY FS_EmptySet
<1>3. Len(Kept(s \o t, {x})) = Len(Kept(s, {x})) + Len(Kept(t, {x}))
  BY LengthOfKeptConcat
<1>4. Cardinality(P) \in Nat /\ Cardinality(Q) \in Nat
  BY FS_CardinalityType DEF Counted
<1>. QED BY <1>1, <1>2, <1>3, <1>4 DEF Counted

AllOf(P, n) == UNION {P[k] : k \in 1 .. n}

LEMMA CountedFlatten ==
  ASSUME NEW A, NEW seqs \in Seq(Seq(A)), NEW x, NEW P,
         \A k \in 1 .. Len(seqs) : Counted(seqs[k], x, P[k]),
         \A j, k \in 1 .. Len(seqs) : j # k => P[j] \cap P[k] = {}
  PROVE  Counted(FlattenSeq(seqs), x, AllOf(P, Len(seqs)))
<1>. DEFINE n == Len(seqs)
            Upto(i) == AllOf(P, i)
            Good(s, i) == s \in Seq(A) /\ Counted(s, x, Upto(i))
<1>1. CASE seqs = << >>
  <2>1. Len(seqs) = 0 /\ FlattenSeq(seqs) = << >>
    BY <1>1, EmptySeq DEF FlattenSeq
  <2>2. AllOf(P, Len(seqs)) = {}
    BY <2>1 DEF AllOf
  <2>. QED BY <2>1, <2>2, CountedEmpty
<1>2. CASE seqs # << >>
  <2>1. PICK flat : FlattenedFrom(flat, seqs, n) /\ FlattenSeq(seqs) = flat[n]
    BY <1>2, FlattenedIsLast
  <2>2. n \in Nat /\ n # 0 /\ \A i \in 1 .. n : seqs[i] \in Seq(A)
    BY <1>2, Members, EmptySeq
  <2>3. flat[1] = seqs[1]
    BY <2>1, <2>2 DEF FlattenedFrom
  <2>. HIDE DEF n
  <2>4. Good(flat[1], 1)
    <3>1. 1 \in 1 .. n /\ 1 .. 1 = {1}
      BY <2>2
    <3>2. Upto(1) = P[1]
      BY <3>1 DEF AllOf
    <3>. HIDE DEF Upto
    <3>. QED BY <2>2, <2>3, <3>1, <3>2 DEF n
  <2>5. ASSUME NEW i \in Nat, i # 0, i + 1 <= n, Good(flat[i], i)
        PROVE  Good(flat[i + 1], i + 1)
    <3>1. i + 1 \in 1 .. n /\ i + 1 # 1 /\ (i + 1) - 1 = i
          /\ \A k : k \in 1 .. i + 1 <=> k \in 1 .. i \/ k = i + 1
      BY <2>2, <2>5
    <3>2. flat[i + 1] = flat[i] \o seqs[i + 1]
      BY <2>1, <3>1 DEF FlattenedFrom
    <3>3. Upto(i + 1) = Upto(i) \cup P[i + 1]
      BY <3>1 DEF AllOf
    <3>4. \A k \in 1 .. i : k \in 1 .. n /\ k # i + 1
      BY <2>2, <2>5
    <3>5. \A k \in 1 .. i : P[k] \cap P[i + 1] = {}
      BY <3>1, <3>4 DEF n
    <3>6. Upto(i) \cap P[i + 1] = {}
      BY <3>5 DEF AllOf
    <3>7. Counted(seqs[i + 1], x, P[i + 1]) /\ seqs[i + 1] \in Seq(A)
      BY <2>2, <3>1 DEF n
    <3>. HIDE DEF Upto
    <3>8. flat[i] \in Seq(A) /\ Counted(flat[i], x, Upto(i))
      BY <2>5
    <3>9. Counted(flat[i] \o seqs[i + 1], x, Upto(i) \cup P[i + 1])
      BY <3>6, <3>7, <3>8, CountedConcat
    <3>10. flat[i] \o seqs[i + 1] \in Seq(A)
      BY <3>7, <3>8, ConcatProperties
    <3>. QED BY <3>2, <3>3, <3>9, <3>10
  <2>. DEFINE T == {m \in Nat : m + 1 <= n => Good(flat[m + 1], m + 1)}
  <2>. HIDE DEF Good
  <2>6. 0 \in T
    BY <2>4
  <2>7. ASSUME NEW m \in Nat, m \in T
        PROVE  m + 1 \in T
    <3>. SUFFICES ASSUME (m + 1) + 1 <= n
                  PROVE  Good(flat[(m + 1) + 1], (m + 1) + 1)
      OBVIOUS
    <3>1. m + 1 \in Nat /\ m + 1 # 0 /\ m + 1 <= n
      BY <2>2
    <3>. QED BY <2>5, <2>7, <3>1
  <2>8. n - 1 \in T /\ (n - 1) + 1 = n
    <3>1. n - 1 \in Nat /\ (n - 1) + 1 = n
      BY <2>2
    <3>. HIDE DEF T
    <3>. QED BY <2>6, <2>7, <3>1, Induction
  <2>9. Good(flat[n], n)
    BY <2>2, <2>8
  <2>. QED BY <2>1, <2>9 DEF Good, n
<1>. QED BY <1>1, <1>2

(* The same, if at[j] is the place of the j-th element. *)
LEMMA CountedAt ==
  ASSUME NEW A, NEW seq \in Seq(A), NEW x, NEW at,
         \A j, k \in 1 .. Len(seq) : at[j] = at[k] => j = k
  PROVE  Counted(seq, x, {at[j] : j \in {k \in 1 .. Len(seq) : seq[k] = x}})
<1>. DEFINE n == Len(seq)
            Found(i) == {at[j] : j \in {k \in 1 .. i : seq[k] = x}}
            front(i) == SubSeq(seq, 1, i)
            T == {m \in Nat : m <= n => Counted(front(m), x, Found(m))}
<1>1. n \in Nat /\ \A i \in 1 .. n : seq[i] \in A
  BY Members
<1>2. 0 \in T
  <2>1. front(0) = << >>
    BY SubSeqEmpty
  <2>2. Found(0) = {}
    OBVIOUS
  <2>. QED BY <2>1, <2>2, CountedEmpty
<1>. HIDE DEF n
<1>3. ASSUME NEW m \in Nat, m \in T
      PROVE  m + 1 \in T
  <2>. SUFFICES ASSUME m + 1 <= n
                PROVE  Counted(front(m + 1), x, Found(m + 1))
    OBVIOUS
  <2>1. m + 1 \in 1 .. n /\ (m + 1) - 1 = m /\ m <= n
        /\ \A k : k \in 1 .. m + 1 <=> k \in 1 .. m \/ k = m + 1
    BY <1>1
  <2>2. \A k \in 1 .. m : k \in 1 .. n /\ k # m + 1
    BY <1>1
  <2>3. Counted(front(m), x, Found(m))
    BY <1>3, <2>1
  <2>4. at[m + 1] \notin Found(m)
    BY <2>1, <2>2 DEF n
  <2>5. seq[m + 1] = x => Found(m + 1) = Found(m) \cup {at[m + 1]}
    BY <2>1
  <2>6. seq[m + 1] # x => Found(m + 1) = Found(m)
    BY <2>1
  <2>. HIDE DEF Found
  <2>7. front(m) \in Seq(A)
    <3>1. 1 \in Int /\ m \in Int /\ \A i \in 1 .. m : seq[i] \in A
      BY <1>1, <2>2
    <3>. QED BY <3>1, SubSeqProperties
  <2>8. front(m + 1) = Append(front(m), seq[m + 1])
    <3>1. 1 \in 1 .. Len(seq) /\ m + 1 \in 1 .. Len(seq)
      BY <1>1, <2>1 DEF n
    <3>2. front(m + 1) = SubSeq(seq, 1, (m + 1) - 1) \o << seq[m + 1] >>
      BY <3>1, SubSeqRecursiveSecond
    <3>3. seq[m + 1] \in A
      BY <1>1, <2>1
    <3>. QED BY <2>1, <2>7, <3>2, <3>3, AppendIsConcat
  <2>9. seq[m + 1] \in A
    BY <1>1, <2>1
  <2>. HIDE DEF front
  <2>10. /\ seq[m + 1] = x => Counted(Append(front(m), seq[m + 1]), x, Found(m) \cup {at[m + 1]})
         /\ seq[m + 1] # x => Counted(Append(front(m), seq[m + 1]), x, Found(m))
    <3>. DEFINE f == front(m)
                e == seq[m + 1]
                p == at[m + 1]
                F == Found(m)
    <3>1. f \in Seq(A) /\ e \in A /\ Counted(f, x, F) /\ p \notin F
      BY <2>3, <2>4, <2>7, <2>9
    <3>. HIDE DEF f, e, p, F
    <3>2. /\ e = x => Counted(Append(f, e), x, F \cup {p})
          /\ e # x => Counted(Append(f, e), x, F)
      BY <3>1, CountedAppend
    <3>. QED BY <3>2 DEF f, e, p, F
  <2>. QED BY <2>5, <2>6, <2>8, <2>10
<1>4. Counted(front(n), x, Found(n))
  <2>1. n \in T
    <3>. HIDE DEF T
    <3>. QED BY <1>1, <1>2, <1>3, Induction
  <2>. QED BY <1>1, <2>1
<1>5. front(n) = seq
  BY SubSeqFull DEF n
<1>. QED BY <1>4, <1>5 DEF n

LEMMA CountedBijection ==
  ASSUME NEW seq, NEW x, NEW P, Counted(seq, x, P), NEW Q, ExistsBijection(P, Q)
  PROVE  Counted(seq, x, Q)
BY FS_Bijection DEF Counted

=============================================================================
