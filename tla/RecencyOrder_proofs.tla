------------------------ MODULE RecencyOrder_proofs -------------------------
(***************************************************************************)
(* What the ordered-dictionary operators return, for every sequence of     *)
(* distinct keys, and what the values of a table add up to.  The tables'   *)
(* invariants are proved from these facts.                                 *)
(***************************************************************************)
EXTENDS RecencyOrder, SequenceTheorems, FiniteSetTheorems,
        WellFoundedInduction, TLAPS

(* The first m keys of r stand in s in the order they stand in r.          *)
OrderedAs(r, m, s) ==
  \A i, j \in 1..m : i < j =>
    \E p, q \in 1..Len(s) : p < q /\ s[p] = r[i] /\ s[q] = r[j]

(* Of a set of positions, one is the last.                                 *)
LEMMA LastPosition ==
  ASSUME NEW n \in Nat, NEW A \in SUBSET (1..n), A # {}
  PROVE  \E i \in A : \A j \in A : j <= i
<1> DEFINE T == {n - i : i \in A}
<1>1. \A i \in A : i \in Nat /\ i <= n /\ n - i \in Nat
  OBVIOUS
<1>2. T \in SUBSET Nat /\ T # {}
  BY <1>1
<1>3. \E x \in T : \A y \in T : ~ (<<y, x>> \in OpToRel(<, Nat))
  BY <1>2, NatLessThanWellFounded, WFMin
<1>4. PICK i \in A : \A y \in T : ~ (<<y, n - i>> \in OpToRel(<, Nat))
  BY <1>3
<1>5. ASSUME NEW j \in A PROVE j <= i
  <2>1. n - j \in T /\ n - j \in Nat /\ n - i \in Nat
    BY <1>1
  <2>2. ~(n - j < n - i)
    BY <1>4, <2>1 DEF OpToRel
  <2>3. QED BY <1>1, <2>2
<1>6. QED BY <1>5

(* The keys of a sequence are what stands at its positions.                *)
LEMMA InToSet ==
  ASSUME NEW S, NEW s \in Seq(S), NEW x
  PROVE  /\ x \in ToSet(s) <=> \E i \in 1..Len(s) : s[i] = x
         /\ ToSet(s) \subseteq S
BY DEF ToSet

(* Appending a new key adds it to the keys, and repeats none.              *)
LEMMA AppendKey ==
  ASSUME NEW S, NEW s \in Seq(S), NEW k \in S
  PROVE  /\ ToSet(Append(s, k)) = ToSet(s) \cup {k}
         /\ NoRepeats(s) /\ k \notin ToSet(s) => NoRepeats(Append(s, k))
<1> DEFINE r == Append(s, k)
<1>1. /\ r \in Seq(S) /\ Len(r) = Len(s) + 1 /\ r[Len(s) + 1] = k
      /\ \A i \in 1..Len(s) : r[i] = s[i]
  OBVIOUS
<1> HIDE DEF r
<1>2. ToSet(r) = ToSet(s) \cup {k}
  BY <1>1 DEF ToSet
<1>3. \A i \in 1..Len(s) : s[i] \in ToSet(s)
  BY DEF ToSet
<1>4. NoRepeats(s) /\ k \notin ToSet(s) => NoRepeats(r)
  BY <1>1, <1>3 DEF NoRepeats
<1>5. QED BY <1>2, <1>4 DEF r

(* Without removes exactly k and keeps the order of the others.            *)
LEMMA WithoutProperties ==
  ASSUME NEW S, NEW s \in Seq(S), NEW k, NoRepeats(s)
  PROVE  /\ Without(s, k) \in Seq(S)
         /\ NoRepeats(Without(s, k))
         /\ ToSet(Without(s, k)) = ToSet(s) \ {k}
         /\ Len(Without(s, k)) = IF k \in ToSet(s) THEN Len(s) - 1 ELSE Len(s)
         /\ \A i, j \in 1..Len(Without(s, k)) : i < j =>
              \E p, q \in 1..Len(s) :
                 p < q /\ s[p] = Without(s, k)[i] /\ s[q] = Without(s, k)[j]
<1> DEFINE r == Without(s, k)
<1>1. CASE k \in ToSet(s)
  <2> DEFINE n == CHOOSE i \in 1..Len(s) : s[i] = k
             a == SubSeq(s, 1, n - 1)
             b == SubSeq(s, n + 1, Len(s))
  <2>1. n \in 1..Len(s) /\ s[n] = k
    BY <1>1 DEF ToSet
  <2> HIDE DEF n
  <2>2. /\ a \in Seq(S) /\ Len(a) = n - 1
        /\ \A i \in 1..(n - 1) : a[i] = s[i]
    BY <2>1, SubSeqProperties
  <2>3. /\ b \in Seq(S) /\ Len(b) = Len(s) - n
        /\ \A i \in 1..(Len(s) - n) : b[i] = s[n + i]
    BY <2>1, SubSeqProperties
  <2> HIDE DEF a, b
  <2>4. r = a \o b
    BY <1>1 DEF Without, RemoveAt, n, a, b
  <2> HIDE DEF r
  <2>5. /\ r \in Seq(S) /\ Len(r) = Len(s) - 1
        /\ \A i \in 1..(Len(s) - 1) : r[i] = IF i < n THEN s[i] ELSE s[i + 1]
    <3>1. /\ r \in Seq(S) /\ Len(r) = Len(a) + Len(b)
          /\ \A i \in 1..Len(a) + Len(b) :
               r[i] = IF i <= Len(a) THEN a[i] ELSE b[i - Len(a)]
      BY <2>2, <2>3, <2>4, ConcatProperties
    <3>2. ASSUME NEW i \in 1..(Len(s) - 1), i < n PROVE r[i] = s[i]
      <4>1. i \in 1..Len(a) + Len(b) /\ i <= Len(a) /\ i \in 1..(n - 1)
        BY <2>1, <2>2, <2>3, <3>2
      <4>2. QED BY <2>2, <3>1, <4>1
    <3>3. ASSUME NEW i \in 1..(Len(s) - 1), ~(i < n) PROVE r[i] = s[i + 1]
      <4>1. i \in 1..Len(a) + Len(b) /\ ~(i <= Len(a))
        BY <2>1, <2>2, <2>3, <3>3
      <4>2. i - Len(a) \in 1..(Len(s) - n) /\ n + (i - Len(a)) = i + 1
        BY <2>1, <2>2, <2>3, <3>3
      <4>3. QED BY <2>3, <3>1, <4>1, <4>2
    <3>4. QED BY <2>1, <2>2, <2>3, <3>1, <3>2, <3>3
  <2>6. NoRepeats(r)
    BY <2>1, <2>5 DEF NoRepeats
  <2>7. ToSet(r) = ToSet(s) \ {k}
    <3>1. ASSUME NEW x \in ToSet(r) PROVE x \in ToSet(s) \ {k}
      BY <2>1, <2>5, <3>1 DEF ToSet, NoRepeats
    <3>2. ASSUME NEW x \in ToSet(s) \ {k} PROVE x \in ToSet(r)
      <4>1. PICK i \in 1..Len(s) : s[i] = x /\ i # n
        BY <2>1, <3>2 DEF ToSet
      <4>2. CASE i < n
        BY <2>1, <2>5, <4>1, <4>2 DEF ToSet
      <4>3. CASE i > n
        <5>1. (i - 1) \in 1..Len(r) /\ r[i - 1] = s[i]
          BY <2>1, <2>5, <4>1, <4>3
        <5>2. QED BY <4>1, <5>1, <2>5 DEF ToSet
      <4>4. QED BY <2>1, <4>1, <4>2, <4>3
    <3>3. QED BY <3>1, <3>2
  <2>8. ASSUME NEW i \in 1..Len(r), NEW j \in 1..Len(r), i < j
        PROVE  \E p, q \in 1..Len(s) : p < q /\ s[p] = r[i] /\ s[q] = r[j]
    <3> DEFINE up(x) == IF x < n THEN x ELSE x + 1
    <3>1. up(i) \in 1..Len(s) /\ up(j) \in 1..Len(s) /\ up(i) < up(j)
      BY <2>1, <2>5, <2>8
    <3>2. s[up(i)] = r[i] /\ s[up(j)] = r[j]
      BY <2>1, <2>5, <2>8
    <3>3. QED BY <3>1, <3>2
  <2>9. QED BY <1>1, <2>5, <2>6, <2>7, <2>8 DEF r
<1>2. CASE k \notin ToSet(s)
  BY <1>2 DEF Without
<1>3. QED BY <1>1, <1>2

(* MoveToEnd holds exactly the old keys and k, k last.                      *)
LEMMA MoveToEndProperties ==
  ASSUME NEW S, NEW s \in Seq(S), NEW k \in S, NoRepeats(s)
  PROVE  LET r == MoveToEnd(s, k)
         IN  /\ r \in Seq(S)
             /\ NoRepeats(r)
             /\ ToSet(r) = ToSet(s) \cup {k}
             /\ Len(r) = IF k \in ToSet(s) THEN Len(s) ELSE Len(s) + 1
             /\ Len(r) > 0 /\ r[Len(r)] = k
<1> DEFINE w == Without(s, k)
           r == MoveToEnd(s, k)
<1>1. w \in Seq(S) /\ NoRepeats(w)
  BY WithoutProperties
<1>2. ToSet(w) = ToSet(s) \ {k}
  BY WithoutProperties
<1>3. Len(w) = IF k \in ToSet(s) THEN Len(s) - 1 ELSE Len(s)
  BY WithoutProperties
<1> HIDE DEF w
<1>4. /\ r \in Seq(S) /\ Len(r) = Len(w) + 1 /\ r[Len(r)] = k
      /\ \A i \in 1..Len(w) : r[i] = w[i]
  BY <1>1, AppendProperties DEF MoveToEnd, w
<1> HIDE DEF r
<1>5. \A i \in 1..Len(w) : w[i] # k
  <2>1. \A i \in 1..Len(w) : w[i] \in ToSet(w)
    BY <1>1 DEF ToSet
  <2>2. QED BY <1>2, <2>1
<1>6. NoRepeats(r)
  BY <1>1, <1>4, <1>5 DEF NoRepeats
<1>7. ToSet(r) = ToSet(s) \cup {k}
  <2>1. ToSet(r) = ToSet(w) \cup {k}
    BY <1>1, <1>4 DEF ToSet
  <2>2. QED BY <1>1, <1>2, <2>1
<1>8. Len(r) = IF k \in ToSet(s) THEN Len(s) ELSE Len(s) + 1
  BY <1>1, <1>3, <1>4
<1>9. Len(r) > 0
  BY <1>1, <1>4
<1>10. QED
  BY <1>4, <1>6, <1>7, <1>8, <1>9 DEF r

(* The other keys keep their order.                                        *)
LEMMA MoveToEndKeepsOrder ==
  ASSUME NEW S, NEW s \in Seq(S), NEW k \in S, NoRepeats(s)
  PROVE  OrderedAs(MoveToEnd(s, k), Len(MoveToEnd(s, k)) - 1, s)
<1> DEFINE w == Without(s, k)
           r == MoveToEnd(s, k)
<1>1. w \in Seq(S)
  BY WithoutProperties
<1>2. \A a, b \in 1..Len(w) : a < b =>
        \E p, q \in 1..Len(s) : p < q /\ s[p] = w[a] /\ s[q] = w[b]
  BY WithoutProperties
<1> HIDE DEF w
<1>3. /\ r \in Seq(S) /\ Len(r) = Len(w) + 1
      /\ \A a \in 1..Len(w) : r[a] = w[a]
  BY <1>1, AppendProperties DEF MoveToEnd, w
<1> HIDE DEF r
<1>4. ASSUME NEW i \in 1..(Len(r) - 1), NEW j \in 1..(Len(r) - 1), i < j
      PROVE  \E p, q \in 1..Len(s) : p < q /\ s[p] = r[i] /\ s[q] = r[j]
  <2>1. i \in 1..Len(w) /\ j \in 1..Len(w)
    BY <1>1, <1>3
  <2>2. r[i] = w[i] /\ r[j] = w[j]
    BY <1>3, <2>1
  <2>3. \E p, q \in 1..Len(s) : p < q /\ s[p] = w[i] /\ s[q] = w[j]
    BY <1>2, <1>4, <2>1
  <2>4. QED BY <2>2, <2>3
<1>5. OrderedAs(r, Len(r) - 1, s)
  BY <1>4 DEF OrderedAs
<1>6. QED BY <1>5 DEF r

(* Newest drops the oldest keys only, and no more of them than it must.    *)
LEMMA NewestProperties ==
  ASSUME NEW S, NEW s \in Seq(S), NEW n \in Nat
  PROVE  LET r == Newest(s, n)
             d == Len(s) - Len(r)
         IN  /\ r \in Seq(S)
             /\ Len(r) = IF Len(s) > n THEN n ELSE Len(s)
             /\ \A i \in 1..Len(r) : i + d \in 1..Len(s) /\ r[i] = s[i + d]
             /\ ToSet(r) \subseteq ToSet(s)
             /\ NoRepeats(s) => NoRepeats(r)
<1> DEFINE r == Newest(s, n)
           d == Len(s) - Len(r)
<1>1. /\ r \in Seq(S)
      /\ Len(r) = IF Len(s) > n THEN n ELSE Len(s)
      /\ \A i \in 1..Len(r) : i + d \in 1..Len(s) /\ r[i] = s[i + d]
  <2>1. CASE Len(s) > n
    <3>1. r = SubSeq(s, Len(s) - n + 1, Len(s))
      BY <2>1 DEF Newest
    <3>2. \A i \in (Len(s) - n + 1)..Len(s) : s[i] \in S
      BY <2>1
    <3>3. /\ r \in Seq(S) /\ Len(r) = n
          /\ \A i \in 1..n : r[i] = s[Len(s) - n + 1 + i - 1]
      BY <2>1, <3>1, <3>2, SubSeqProperties
    <3> HIDE DEF r
    <3>4. \A i \in 1..n : /\ Len(s) - n + 1 + i - 1 = i + (Len(s) - n)
                          /\ i + (Len(s) - n) \in 1..Len(s)
      BY <2>1
    <3>5. QED BY <2>1, <3>3, <3>4
  <2>2. CASE ~(Len(s) > n)
    BY <2>2 DEF Newest
  <2>3. QED BY <2>1, <2>2
<1>2. Len(s) \in Nat /\ Len(r) \in Nat /\ d \in Nat
  BY <1>1
<1>3. \A i \in 1..Len(r) : i + d \in 1..Len(s) /\ r[i] = s[i + d]
  BY <1>1
<1>4. r \in Seq(S)
  BY <1>1
<1> HIDE DEF r, d
<1>5. ToSet(r) \subseteq ToSet(s)
  BY <1>3, <1>4 DEF ToSet
<1>6. NoRepeats(s) => NoRepeats(r)
  BY <1>2, <1>3, <1>4 DEF NoRepeats
<1>7. QED BY <1>1, <1>5, <1>6 DEF r, d

(* A sequence of distinct keys is as long as the set of its keys is large. *)
LEMMA LengthIsCardinality ==
  ASSUME NEW S, NEW s \in Seq(S), NoRepeats(s)
  PROVE  IsFiniteSet(ToSet(s)) /\ Cardinality(ToSet(s)) = Len(s)
<1> DEFINE f == [i \in 1..Len(s) |-> s[i]]
<1>1. f \in Bijection(1..Len(s), ToSet(s))
  BY DEF ToSet, NoRepeats, Bijection, Injection, Surjection, IsInjective
<1>2. IsFiniteSet(1..Len(s)) /\ Cardinality(1..Len(s)) = Len(s)
  <2>1. Len(s) \in Nat
    OBVIOUS
  <2> DEFINE n == Len(s)
  <2> HIDE DEF n
  <2>2. IsFiniteSet(1..n) /\ Cardinality(1..n) = IF 1 > n THEN 0 ELSE n - 1 + 1
    BY <2>1, FS_Interval DEF n
  <2>3. QED BY <2>1, <2>2 DEF n
<1>3. ExistsBijection(1..Len(s), ToSet(s))
  BY <1>1 DEF ExistsBijection
<1>4. /\ IsFiniteSet(ToSet(s))
      /\ Cardinality(ToSet(s)) = Cardinality(1..Len(s))
  BY <1>2, <1>3, FS_Bijection
<1>5. QED BY <1>2, <1>4

(* kept holds k, as its newest, and other keys in the order they have in s. *)
KeptInOrder(kept, k, s) ==
  \A i, j \in 1..Len(kept) : i < j =>
    /\ kept[i] # k
    /\ \/ kept[j] = k
       \/ \E p, q \in 1..Len(s) : p < q /\ s[p] = kept[i] /\ s[q] = kept[j]

(* A key of s that is not kept made room for k in a table of n, and came   *)
(* before every key that is kept.                                          *)
MadeRoom(kept, k, n, s) ==
  \A x \in ToSet(s) \ ToSet(kept) :
    /\ Len(s) = n /\ Len(kept) = n
    /\ x # k /\ k \notin ToSet(s) /\ x = s[1]
    /\ \A y \in ToSet(kept) \ {k} :
         \E p, q \in 1..Len(s) : p < q /\ s[p] = x /\ s[q] = y

(* A bounded table takes a key in, or touches it, and drops its oldest:    *)
(* the key is there, the order of the others stands, and what is dropped   *)
(* was dropped from a full table and was older than everything kept.       *)
LEMMA BoundedMoveToEnd ==
  ASSUME NEW S, NEW s \in Seq(S), NEW k \in S, NoRepeats(s),
         NEW n \in Nat \ {0}, Len(s) <= n
  PROVE  LET r == MoveToEnd(s, k)
             kept == Newest(r, n)
         IN  /\ kept \in Seq(S) /\ NoRepeats(kept) /\ Len(r) \in Nat
             /\ Len(kept) <= n /\ Len(kept) <= Len(r) /\ Len(s) <= Len(kept)
             /\ Len(r) <= Len(s) + 1
             /\ k \in ToSet(s) => kept = r /\ Len(r) = Len(s)
             /\ ToSet(kept) \subseteq ToSet(s) \cup {k} /\ k \in ToSet(kept)
             /\ KeptInOrder(kept, k, s)
             /\ MadeRoom(kept, k, n, s)
<1> DEFINE r == MoveToEnd(s, k)
           kept == Newest(r, n)
           d == Len(r) - Len(kept)
<1>1. r \in Seq(S) /\ NoRepeats(r)
  BY MoveToEndProperties
<1>2. ToSet(r) = ToSet(s) \cup {k}
  BY MoveToEndProperties
<1>3. Len(r) = IF k \in ToSet(s) THEN Len(s) ELSE Len(s) + 1
  BY MoveToEndProperties
<1>4. Len(r) > 0 /\ r[Len(r)] = k
  BY MoveToEndProperties
<1>5. OrderedAs(r, Len(r) - 1, s)
  BY MoveToEndKeepsOrder
<1> HIDE DEF r
<1>6. kept \in Seq(S) /\ Len(kept) = IF Len(r) > n THEN n ELSE Len(r)
  BY <1>1, NewestProperties
<1>7. \A i \in 1..Len(kept) : i + d \in 1..Len(r) /\ kept[i] = r[i + d]
  BY <1>1, NewestProperties
<1>8. NoRepeats(kept)
  BY <1>1, NewestProperties
<1>9. ToSet(kept) \subseteq ToSet(r)
  BY <1>1, NewestProperties
<1> HIDE DEF kept
<1>10. /\ Len(s) \in Nat /\ Len(r) \in Nat /\ Len(kept) \in Nat
       /\ d \in {0, 1} /\ Len(kept) > 0
       /\ d = 1 => Len(kept) = n /\ Len(s) = n /\ k \notin ToSet(s)
  BY <1>1, <1>3, <1>4, <1>6
<1>11. kept[Len(kept)] = k
  <2>1. Len(kept) \in 1..Len(kept) /\ Len(kept) + d = Len(r)
    BY <1>10
  <2>2. QED BY <1>4, <1>7, <2>1
<1>12. k \in ToSet(kept)
  BY <1>6, <1>10, <1>11 DEF ToSet
<1>13. ASSUME NEW i \in 1..Len(kept), NEW j \in 1..Len(kept), i < j
       PROVE  /\ kept[i] # k
              /\ \/ kept[j] = k
                 \/ \E p, q \in 1..Len(s) :
                      p < q /\ s[p] = kept[i] /\ s[q] = kept[j]
  <2>1. kept[i] # k
    <3>1. Len(kept) \in 1..Len(kept) /\ i # Len(kept)
      BY <1>10, <1>13
    <3>2. QED BY <1>8, <1>11, <3>1 DEF NoRepeats
  <2>2. CASE j = Len(kept)
    BY <1>11, <2>1, <2>2
  <2>3. CASE j # Len(kept)
    <3>1. /\ i + d \in 1..(Len(r) - 1) /\ j + d \in 1..(Len(r) - 1)
          /\ i + d < j + d
      BY <1>10, <1>13, <2>3
    <3>2. kept[i] = r[i + d] /\ kept[j] = r[j + d]
      BY <1>7
    <3>3. \E p, q \in 1..Len(s) : p < q /\ s[p] = r[i + d] /\ s[q] = r[j + d]
      BY <1>5, <3>1 DEF OrderedAs
    <3>4. QED BY <2>1, <3>2, <3>3
  <2>4. QED BY <2>2, <2>3
<1>14. ASSUME NEW x \in ToSet(s) \ ToSet(kept)
       PROVE  /\ Len(s) = n /\ Len(kept) = n
              /\ x # k /\ k \notin ToSet(s) /\ x = s[1]
              /\ \A y \in ToSet(kept) \ {k} :
                   \E p, q \in 1..Len(s) : p < q /\ s[p] = x /\ s[q] = y
  <2>1. PICK a \in 1..Len(r) : r[a] = x
    <3>1. x \in ToSet(r)
      BY <1>2, <1>14
    <3>2. QED BY <1>1, <3>1 DEF ToSet
  <2>2. a <= d
    <3>1. SUFFICES ASSUME a > d PROVE FALSE
      BY <1>10, <2>1
    <3>2. a - d \in 1..Len(kept) /\ (a - d) + d = a
      BY <1>10, <2>1, <3>1
    <3>3. kept[a - d] = x
      BY <1>7, <2>1, <3>2
    <3>4. QED BY <1>6, <1>14, <3>2, <3>3 DEF ToSet
  <2>3. d = 1 /\ a = 1
    BY <1>10, <2>1, <2>2
  <2>4. x # k
    BY <1>12, <1>14
  <2>5. ASSUME NEW y \in ToSet(kept) \ {k}
        PROVE  \E p, q \in 1..Len(s) : p < q /\ s[p] = x /\ s[q] = y
    <3>1. PICK j \in 1..Len(kept) : kept[j] = y
      BY <1>6 DEF ToSet
    <3>2. j # Len(kept)
      BY <1>11, <3>1
    <3>3. j + d \in 1..(Len(r) - 1) /\ a \in 1..(Len(r) - 1) /\ a < j + d
      BY <1>10, <2>3, <3>1, <3>2
    <3>4. r[j + d] = y
      BY <1>7, <3>1
    <3>5. \E p, q \in 1..Len(s) : p < q /\ s[p] = r[a] /\ s[q] = r[j + d]
      BY <1>5, <3>3 DEF OrderedAs
    <3>6. QED BY <2>1, <3>4, <3>5
  <2>6. x = s[1]
    <3>1. r = Append(s, k)
      BY <1>10, <2>3 DEF r, MoveToEnd, Without
    <3>2. r[1] = s[1]
      BY <1>10, <2>3, <3>1
    <3>3. QED BY <2>1, <2>3, <3>2
  <2>7. QED BY <1>10, <2>3, <2>4, <2>5, <2>6
<1>15. KeptInOrder(kept, k, s) /\ MadeRoom(kept, k, n, s)
  BY <1>13, <1>14 DEF KeptInOrder, MadeRoom
<1>16. k \in ToSet(s) => kept = r
  BY <1>3, <1>10 DEF kept, Newest
<1>17. QED
  BY <1>3, <1>6, <1>8, <1>9, <1>2, <1>10, <1>12, <1>15, <1>16 DEF r, kept

-----------------------------------------------------------------------------
(* Every key behind another in s was used since it: f has, for each key,   *)
(* the others used since it was.                                           *)
NewerIn(s, f) == \A i, j \in 1..Len(s) : i < j => s[j] \in f[s[i]]

(* What f becomes when k is used.                                          *)
UsedSince(S, f, k) == [x \in S |-> IF x = k THEN {} ELSE f[x] \cup {k}]

(* Using a key keeps what the order says of the others; a key that falls   *)
(* out of the table was passed by a whole tableful, and stays passed until *)
(* it is used.                                                             *)
LEMMA UseKeepsRecency ==
  ASSUME NEW S, NEW s \in Seq(S), NEW k \in S, NoRepeats(s),
         NEW n \in Nat \ {0}, Len(s) <= n,
         NEW f \in [S -> SUBSET S], NewerIn(s, f),
         \A x \in S : IsFiniteSet(f[x])
  PROVE  LET kept == Newest(MoveToEnd(s, k), n)
             g == UsedSince(S, f, k)
         IN  /\ g \in [S -> SUBSET S] /\ \A x \in S : IsFiniteSet(g[x])
             /\ NewerIn(kept, g)
             /\ \A x \in ToSet(s) \ ToSet(kept) : Cardinality(g[x]) >= n
             /\ \A x \in S \ {k} : Cardinality(f[x]) >= n =>
                                    Cardinality(g[x]) >= n
<1> DEFINE kept == Newest(MoveToEnd(s, k), n)
           g == UsedSince(S, f, k)
<1>1. kept \in Seq(S) /\ NoRepeats(kept)
  BY BoundedMoveToEnd
<1>2. k \in ToSet(kept)
  BY BoundedMoveToEnd
<1>3. KeptInOrder(kept, k, s)
  BY BoundedMoveToEnd
<1>4. MadeRoom(kept, k, n, s)
  BY BoundedMoveToEnd
<1> HIDE DEF kept
<1>5. g = [x \in S |-> IF x = k THEN {} ELSE f[x] \cup {k}]
  BY DEF UsedSince
<1> HIDE DEF g
<1>6. g \in [S -> SUBSET S]
  BY <1>5
<1>7. ASSUME NEW x \in S PROVE IsFiniteSet(g[x])
  <2>1. IsFiniteSet(f[x] \cup {k}) /\ IsFiniteSet({})
    BY FS_AddElement, FS_EmptySet
  <2>2. QED BY <1>5, <2>1
<1>8. ASSUME NEW i \in 1..Len(kept), NEW j \in 1..Len(kept), i < j
      PROVE  kept[j] \in g[kept[i]]
  <2>1. kept[i] \in S /\ kept[i] # k
    BY <1>1, <1>3, <1>8 DEF KeptInOrder
  <2>2. g[kept[i]] = f[kept[i]] \cup {k}
    BY <1>5, <2>1
  <2>3. CASE kept[j] = k
    BY <2>2, <2>3
  <2>4. CASE \E p, q \in 1..Len(s) : p < q /\ s[p] = kept[i] /\ s[q] = kept[j]
    <3>1. PICK p \in 1..Len(s), q \in 1..Len(s) :
            p < q /\ s[p] = kept[i] /\ s[q] = kept[j]
      BY <2>4
    <3>2. kept[j] \in f[kept[i]]
      BY <3>1 DEF NewerIn
    <3>3. QED BY <2>2, <3>2
  <2>5. QED BY <1>3, <1>8, <2>3, <2>4 DEF KeptInOrder
<1>9. ASSUME NEW x \in ToSet(s) \ ToSet(kept) PROVE Cardinality(g[x]) >= n
  <2>1. /\ Len(kept) = n /\ x # k
        /\ \A y \in ToSet(kept) \ {k} : \E p, q \in 1..Len(s) :
             p < q /\ s[p] = x /\ s[q] = y
    BY <1>4, <1>9 DEF MadeRoom
  <2>2. x \in S
    BY <1>9 DEF ToSet
  <2>3. ASSUME NEW y \in ToSet(kept) \ {k} PROVE y \in f[x]
    <3>1. PICK p \in 1..Len(s), q \in 1..Len(s) : p < q /\ s[p] = x /\ s[q] = y
      BY <2>1
    <3>2. QED BY <3>1 DEF NewerIn
  <2>4. ToSet(kept) \subseteq g[x]
    BY <1>5, <2>1, <2>2, <2>3
  <2>5. Cardinality(ToSet(kept)) = n
    BY <1>1, <2>1, LengthIsCardinality
  <2>6. /\ Cardinality(ToSet(kept)) <= Cardinality(g[x])
        /\ Cardinality(g[x]) \in Nat
    BY <1>7, <2>2, <2>4, FS_Subset, FS_CardinalityType
  <2>7. QED BY <2>5, <2>6
<1>10. ASSUME NEW x \in S \ {k}, Cardinality(f[x]) >= n
       PROVE  Cardinality(g[x]) >= n
  <2>1. f[x] \subseteq g[x] /\ IsFiniteSet(g[x]) /\ IsFiniteSet(f[x])
    BY <1>5, <1>7
  <2>2. /\ Cardinality(f[x]) <= Cardinality(g[x])
        /\ Cardinality(f[x]) \in Nat /\ Cardinality(g[x]) \in Nat
    BY <2>1, FS_Subset, FS_CardinalityType
  <2>3. QED BY <1>10, <2>2
<1>11. NewerIn(kept, g)
  BY <1>8 DEF NewerIn
<1>12. QED BY <1>6, <1>7, <1>9, <1>10, <1>11 DEF kept, g

-----------------------------------------------------------------------------
(* Sums over finite sets.                                                  *)

(* Of the naturals with some property there is a first, so what fails for  *)
(* none of the first of them fails for none.                               *)
LEMMA FirstOfNaturals ==
  ASSUME NEW A \in SUBSET Nat, A # {}
  PROVE  \E n \in A : \A m \in A : n <= m
<1>1. PICK n \in A : \A m \in A : ~ (<<m, n>> \in OpToRel(<, Nat))
  BY NatLessThanWellFounded, WFMin
<1>2. ASSUME NEW m \in A PROVE n <= m
  <2>1. n \in Nat /\ m \in Nat /\ ~(m < n)
    BY <1>1 DEF OpToRel
  <2>2. QED BY <2>1
<1>3. QED BY <1>2

(* Of the subsets of a finite set with some property there is a least one. *)
LEMMA LeastSubset ==
  ASSUME NEW S, IsFiniteSet(S), NEW W \in SUBSET SUBSET S, W # {}
  PROVE  \E T \in W : \A U \in SUBSET T : U # T => U \notin W
<1> DEFINE Counts == {Cardinality(T) : T \in W}
<1>1. \A T \in SUBSET S : IsFiniteSet(T) /\ Cardinality(T) \in Nat
  BY FS_Subset, FS_CardinalityType
<1>2. Counts \in SUBSET Nat /\ Counts # {}
  BY <1>1
<1>3. PICK n \in Counts : \A m \in Counts : n <= m
  <2> HIDE DEF Counts
  <2>1. QED BY <1>2, FirstOfNaturals
<1>4. PICK T \in W : \A U \in W : Cardinality(T) <= Cardinality(U)
  BY <1>3
<1>5. ASSUME NEW U \in SUBSET T, U # T PROVE U \notin W
  <2>1. IsFiniteSet(T) /\ Cardinality(U) <= Cardinality(T)
        /\ Cardinality(U) # Cardinality(T)
    BY <1>1, <1>5, FS_Subset
  <2>2. ~(Cardinality(T) <= Cardinality(U))
    BY <1>1, <2>1
  <2>3. QED BY <1>4, <2>2
<1>6. QED BY <1>5

(* Which element it is does not matter.                                    *)
Some(s) == CHOOSE x \in s : TRUE

(* g adds f up over each of the sets in D, some element of it first.       *)
AddsUp(g, f, D) ==
  g = [s \in D |-> IF s = {} THEN 0 ELSE f[Some(s)] + g[s \ {Some(s)}]]

LEMMA SomeIsElement ==
  ASSUME NEW s, s # {} PROVE Some(s) \in s
BY DEF Some

(* A function that adds f up exists.                                       *)
LEMMA AddingExists ==
  ASSUME NEW f, NEW S, IsFiniteSet(S)
  PROVE  \E g : AddsUp(g, f, SUBSET S)
<1> DEFINE Upto(n) == {s \in SUBSET S : Cardinality(s) <= n}
           Fails == {n \in Nat : ~ \E g : AddsUp(g, f, Upto(n))}
<1>1. \A s \in SUBSET S : IsFiniteSet(s) /\ Cardinality(s) \in Nat
  BY FS_Subset, FS_CardinalityType
<1>2. 0 \notin Fails
  <2> DEFINE g == [s \in Upto(0) |-> 0]
  <2>1. \A s \in Upto(0) : s = {}
    BY <1>1, FS_EmptySet
  <2>2. AddsUp(g, f, Upto(0))
    BY <2>1 DEF AddsUp
  <2>3. QED BY <2>2
<1>3. ASSUME NEW n \in Nat, n \notin Fails PROVE n + 1 \notin Fails
  <2>1. PICK g : AddsUp(g, f, Upto(n))
    BY <1>3
  <2> DEFINE More(h, s) == IF s = {} THEN 0 ELSE f[Some(s)] + h[s \ {Some(s)}]
             g1 == [s \in Upto(n + 1) |-> More(g, s)]
  <2>2. g = [s \in Upto(n) |-> More(g, s)]
    BY <2>1 DEF AddsUp
  <2>3. ASSUME NEW s \in Upto(n + 1) PROVE More(g, s) = More(g1, s)
    <3>1. CASE s = {}
      BY <3>1
    <3>2. CASE s # {}
      <4>1. s \ {Some(s)} \in Upto(n) /\ s \ {Some(s)} \in Upto(n + 1)
        <5>1. Some(s) \in s /\ IsFiniteSet(s) /\ s \in SUBSET S
          BY <1>1, <3>2, SomeIsElement
        <5>2. Cardinality(s \ {Some(s)}) = Cardinality(s) - 1
          BY <5>1, FS_RemoveElement
        <5>3. Cardinality(s) <= n + 1 /\ Cardinality(s) \in Nat
          BY <1>1, <5>1
        <5>4. QED BY <5>1, <5>2, <5>3
      <4>2. g[s \ {Some(s)}] = g1[s \ {Some(s)}]
        <5> DEFINE r == s \ {Some(s)}
        <5>1. r \in Upto(n) /\ r \in Upto(n + 1)
          BY <4>1
        <5> HIDE DEF r
        <5>2. g[r] = More(g, r)
          <6> HIDE DEF More, Upto
          <6>1. QED BY ONLY <2>2, <5>1
        <5>3. g1[r] = More(g, r)
          <6> HIDE DEF More, Upto
          <6>1. QED BY <5>1
        <5>4. QED BY <5>2, <5>3 DEF r
      <4>3. QED BY <3>2, <4>2
    <3>3. QED BY <3>1, <3>2
  <2>4. g1 = [s \in Upto(n + 1) |-> More(g1, s)]
    <3> HIDE DEF More, Upto
    <3>1. QED BY <2>3
  <2>5. AddsUp(g1, f, Upto(n + 1))
    BY <2>4 DEF AddsUp
  <2>6. QED BY <2>5
<1>4. Fails = {}
  <2> SUFFICES ASSUME Fails # {} PROVE FALSE
    OBVIOUS
  <2>1. PICK n \in Fails : \A m \in Fails : n <= m
    <3> HIDE DEF Fails
    <3>1. Fails \subseteq Nat
      BY DEF Fails
    <3>2. QED BY <3>1, FirstOfNaturals
  <2>2. n \in Nat /\ n # 0
    BY <1>2
  <2>3. n - 1 \in Nat /\ n - 1 \notin Fails
    <3> HIDE DEF Fails
    <3>1. QED BY <2>1, <2>2
  <2>4. QED
    <3> HIDE DEF Fails
    <3>1. (n - 1) + 1 \notin Fails
      BY <1>3, <2>3
    <3>2. QED BY <2>2, <3>1
<1>5. Upto(Cardinality(S)) = SUBSET S /\ Cardinality(S) \in Nat
  BY FS_Subset, FS_CardinalityType
<1>6. QED BY <1>4, <1>5

LEMMA SumAddsUp ==
  ASSUME NEW f, NEW S, IsFiniteSet(S)
  PROVE  \E g : AddsUp(g, f, SUBSET S) /\ SumFunctionOnSet(f, S) = g[S]
<1> DEFINE g == CHOOSE h : AddsUp(h, f, SUBSET S)
<1>1. AddsUp(g, f, SUBSET S)
  BY AddingExists
<1>2. SumFunctionOnSet(f, S) = g[S]
  BY DEF SumFunctionOnSet, FoldFunctionOnSet, MapThenFoldSet, AddsUp, Some
<1>3. QED BY <1>1, <1>2

(* The equation of a sum: some element's term and the sum of the rest.     *)
LEMMA SumUnrolls ==
  ASSUME NEW f, NEW S, IsFiniteSet(S)
  PROVE  /\ SumFunctionOnSet(f, {}) = 0
         /\ S # {} => SumFunctionOnSet(f, S)
                        = f[Some(S)] + SumFunctionOnSet(f, S \ {Some(S)})
<1>1. ASSUME NEW T, NEW U \in SUBSET T, IsFiniteSet(T),
             NEW g, AddsUp(g, f, SUBSET T), NEW h, AddsUp(h, f, SUBSET U)
      PROVE  g[U] = h[U]
  <2> DEFINE Differ == {s \in SUBSET U : g[s] # h[s]}
    <2>1. IsFiniteSet(U) /\ Differ \in SUBSET SUBSET U
    BY <1>1, FS_Subset
  <2>2. ASSUME Differ # {} PROVE FALSE
    <3>1. PICK s \in Differ : \A r \in SUBSET s : r # s => r \notin Differ
      <4> HIDE DEF Differ
      <4>1. QED BY <2>1, <2>2, LeastSubset
    <3>4. g[s] = IF s = {} THEN 0 ELSE f[Some(s)] + g[s \ {Some(s)}]
      BY <1>1 DEF AddsUp
    <3>5. h[s] = IF s = {} THEN 0 ELSE f[Some(s)] + h[s \ {Some(s)}]
      BY <1>1 DEF AddsUp
    <3>6. s # {} /\ g[s \ {Some(s)}] # h[s \ {Some(s)}]
      BY <3>1, <3>4, <3>5
    <3>7. Some(s) \in s
      BY <3>6, SomeIsElement
    <3>8. s \ {Some(s)} \in Differ
      BY <3>6
    <3>9. QED BY <3>1, <3>7, <3>8
  <2>3. QED BY <2>2
<1>2. SumFunctionOnSet(f, {}) = 0
  <2>1. IsFiniteSet({})
    BY FS_EmptySet
  <2>2. PICK g : AddsUp(g, f, SUBSET {}) /\ SumFunctionOnSet(f, {}) = g[{}]
    BY <2>1, SumAddsUp
  <2>3. QED BY <2>2 DEF AddsUp
<1>3. ASSUME S # {}
      PROVE  SumFunctionOnSet(f, S)
               = f[Some(S)] + SumFunctionOnSet(f, S \ {Some(S)})
  <2> DEFINE U == S \ {Some(S)}
  <2>1. PICK g : AddsUp(g, f, SUBSET S) /\ SumFunctionOnSet(f, S) = g[S]
    BY SumAddsUp
  <2>2. IsFiniteSet(U) /\ U \in SUBSET S
    BY FS_Subset
  <2>3. PICK h : AddsUp(h, f, SUBSET U) /\ SumFunctionOnSet(f, U) = h[U]
    <3> HIDE DEF U
    <3>1. QED BY <2>2, SumAddsUp
  <2>4. g[U] = h[U]
    <3> HIDE DEF U
    <3>1. QED BY <1>1, <2>1, <2>2, <2>3
  <2>5. g[S] = f[Some(S)] + g[U]
    BY <1>3, <2>1 DEF AddsUp
  <2>6. QED BY <2>1, <2>3, <2>4, <2>5
<1>4. QED BY <1>2, <1>3

LEMMA SumOfNone ==
  ASSUME NEW f
  PROVE  SumFunctionOnSet(f, {}) = 0
<1>1. IsFiniteSet({})
  BY FS_EmptySet
<1>2. QED BY <1>1, SumUnrolls

(* A sum of integers is one, and any of them may be taken out first.       *)
LEMMA SumTakesOut ==
  ASSUME NEW f, NEW S, IsFiniteSet(S), \A y \in S : f[y] \in Int
  PROVE  /\ SumFunctionOnSet(f, S) \in Int
         /\ \A x \in S :
              SumFunctionOnSet(f, S) = f[x] + SumFunctionOnSet(f, S \ {x})
<1> DEFINE Sum(T) == SumFunctionOnSet(f, T)
           Right(T) == Sum(T) \in Int /\ \A x \in T : Sum(T) = f[x] + Sum(T \ {x})
           Wrong == {T \in SUBSET S : ~Right(T)}
<1>1. \A T \in SUBSET S : IsFiniteSet(T)
  BY FS_Subset
<1>2. ASSUME Wrong # {} PROVE FALSE
  <2>1. PICK T \in Wrong : \A U \in SUBSET T : U # T => U \notin Wrong
    <3>1. Wrong \in SUBSET SUBSET S
      OBVIOUS
    <3> HIDE DEF Wrong
    <3>2. QED BY <1>2, <3>1, LeastSubset
  <2>2. ASSUME NEW U \in SUBSET T, U # T PROVE Right(U)
    <3>1. U \in SUBSET S /\ U \notin Wrong
      BY <2>1, <2>2
    <3> HIDE DEF Right
    <3>2. QED BY <3>1
  <2>4. ASSUME NEW x \in T PROVE Right(T \ {x})
    <3> HIDE DEF Right
    <3>1. QED BY <2>2
  <2>5. T \in SUBSET S /\ IsFiniteSet(T) /\ ~Right(T)
    BY <1>1
  <2>6. T # {} /\ Some(T) \in T
    <3>1. ASSUME T = {} PROVE Right(T)
      <4>1. Sum(T) = 0
        BY <2>5, <3>1, SumUnrolls
      <4>2. QED BY <3>1, <4>1
    <3> HIDE DEF Right
    <3>2. QED BY <2>5, <3>1, SomeIsElement
  <2> DEFINE c == Some(T)
  <2>7. Sum(T) = f[c] + Sum(T \ {c})
    BY <2>5, <2>6, SumUnrolls
  <2>8. c \in T
    BY <2>6
  <2> HIDE DEF c, Sum
  <2>9. Sum(T) \in Int
    <3>1. Sum(T \ {c}) \in Int /\ f[c] \in Int
      BY <2>4, <2>5, <2>8
    <3>2. QED BY <2>7, <3>1
  <2>10. ASSUME NEW x \in T PROVE Sum(T) = f[x] + Sum(T \ {x})
    <3>1. CASE x = c
      BY <2>7, <3>1
    <3>2. CASE x # c
      <4>1. Sum(T \ {c}) = f[x] + Sum((T \ {c}) \ {x})
        BY <2>4, <2>8, <3>2
      <4>2. Sum(T \ {x}) = f[c] + Sum((T \ {x}) \ {c})
        BY <2>4, <2>8, <3>2
      <4>3. (T \ {c}) \ {x} = (T \ {x}) \ {c}
        OBVIOUS
      <4>4. Right((T \ {c})) /\ x \in T \ {c}
        BY <2>4, <2>8, <3>2
      <4>5. f[x] \in Int /\ f[c] \in Int
        BY <2>5, <2>8
      <4>6. Sum(T \ {c}) \in Int /\ Sum(T \ {x}) \in Int
        BY <2>4, <2>8
      <4>7. Sum((T \ {c}) \ {x}) \in Int
        <5>1. Right((T \ {c}) \ {x})
          <6>1. (T \ {c}) \ {x} \in SUBSET T /\ (T \ {c}) \ {x} # T
            BY <2>8
          <6> HIDE DEF Right
          <6>2. QED BY <2>2, <6>1
        <5>2. QED BY <5>1
      <4>8. ASSUME NEW r \in Int, NEW u \in Int, NEW v \in Int,
                   NEW p \in Int, NEW q \in Int, u = p + r, v = q + r
            PROVE  q + u = p + v
        BY <4>8
      <4>9. Sum((T \ {x}) \ {c}) = Sum((T \ {c}) \ {x})
        BY <4>3
      <4> DEFINE r == Sum((T \ {c}) \ {x})
                 u == Sum(T \ {c})
                 v == Sum(T \ {x})
      <4>10. r \in Int /\ u \in Int /\ v \in Int /\ u = f[x] + r /\ v = f[c] + r
        BY <4>1, <4>2, <4>6, <4>7, <4>9
      <4> HIDE DEF r, u, v
      <4>11. f[c] + u = f[x] + v
        BY <4>5, <4>8, <4>10
      <4>12. QED BY <2>7, <4>11 DEF u, v
    <3>3. QED BY <3>1, <3>2
  <2>11. QED BY <2>5, <2>9, <2>10
<1>3. S \notin Wrong
  BY <1>2
<1>4. QED BY <1>3

(* One element more.                                                       *)
LEMMA SumAdds ==
  ASSUME NEW f, NEW S, IsFiniteSet(S), NEW x, x \notin S,
         \A y \in S \cup {x} : f[y] \in Int
  PROVE  SumFunctionOnSet(f, S \cup {x}) = f[x] + SumFunctionOnSet(f, S)
<1>1. IsFiniteSet(S \cup {x}) /\ (S \cup {x}) \ {x} = S
  BY FS_AddElement
<1>2. QED BY <1>1, SumTakesOut
(* What the terms are over the set decides the sum.                        *)
LEMMA SumOfSame ==
  ASSUME NEW f, NEW g, NEW S, IsFiniteSet(S), \A y \in S : f[y] = g[y]
  PROVE  SumFunctionOnSet(f, S) = SumFunctionOnSet(g, S)
<1> DEFINE Differ == {T \in SUBSET S : SumFunctionOnSet(f, T)
                                          # SumFunctionOnSet(g, T)}
<1>1. ASSUME Differ # {} PROVE FALSE
  <2>1. PICK T \in Differ : \A U \in SUBSET T : U # T => U \notin Differ
    <3>1. Differ \in SUBSET SUBSET S
      OBVIOUS
    <3> HIDE DEF Differ
    <3>2. QED BY <1>1, <3>1, LeastSubset
  <2>2. T \in SUBSET S /\ IsFiniteSet(T)
    BY FS_Subset
  <2>3. T # {}
    <3>1. SumFunctionOnSet(f, {}) = 0 /\ SumFunctionOnSet(g, {}) = 0
      BY SumOfNone
    <3>2. {} \notin Differ
      BY <3>1
    <3>3. QED BY <3>2
  <2>4. Some(T) \in T
    BY <2>3, SomeIsElement
  <2>5. SumFunctionOnSet(f, T \ {Some(T)}) = SumFunctionOnSet(g, T \ {Some(T)})
    BY <2>1, <2>2, <2>4
  <2>6. SumFunctionOnSet(f, T) = f[Some(T)] + SumFunctionOnSet(f, T \ {Some(T)})
    BY <2>2, <2>3, SumUnrolls
  <2>7. SumFunctionOnSet(g, T) = g[Some(T)] + SumFunctionOnSet(g, T \ {Some(T)})
    BY <2>2, <2>3, SumUnrolls
  <2>8. f[Some(T)] = g[Some(T)]
    BY <2>2, <2>4
  <2>9. QED BY <2>5, <2>6, <2>7, <2>8
<1>2. S \notin Differ
  BY <1>1
<1>3. QED BY <1>2

(* Terms that are not negative have a sum that is not.                     *)
LEMMA SumIsNatural ==
  ASSUME NEW f, NEW S, IsFiniteSet(S), \A y \in S : f[y] \in Nat
  PROVE  SumFunctionOnSet(f, S) \in Nat
<1> DEFINE Wrong == {T \in SUBSET S : SumFunctionOnSet(f, T) \notin Nat}
<1>1. ASSUME Wrong # {} PROVE FALSE
  <2>1. PICK T \in Wrong : \A U \in SUBSET T : U # T => U \notin Wrong
    <3>1. Wrong \in SUBSET SUBSET S
      OBVIOUS
    <3> HIDE DEF Wrong
    <3>2. QED BY <1>1, <3>1, LeastSubset
  <2>2. T \in SUBSET S /\ IsFiniteSet(T)
    BY FS_Subset
  <2>3. T # {}
    <3>1. SumFunctionOnSet(f, {}) = 0
      BY SumOfNone
    <3>2. {} \notin Wrong
      BY <3>1
    <3>3. QED BY <3>2
  <2>4. PICK x \in T : TRUE
    BY <2>3
  <2>5. SumFunctionOnSet(f, T) = f[x] + SumFunctionOnSet(f, T \ {x})
    BY <2>2, SumTakesOut
  <2>6. SumFunctionOnSet(f, T \ {x}) \in Nat /\ f[x] \in Nat
    BY <2>1, <2>2
  <2>7. QED BY <2>1, <2>5, <2>6
<1>2. S \notin Wrong
  BY <1>1
<1>3. QED BY <1>2

(* Two sets with no element in common add up to their union.               *)
LEMMA SumOfUnion ==
  ASSUME NEW f, NEW S, NEW R, IsFiniteSet(S), IsFiniteSet(R), S \cap R = {},
         \A y \in S \cup R : f[y] \in Int
  PROVE  SumFunctionOnSet(f, S \cup R)
           = SumFunctionOnSet(f, S) + SumFunctionOnSet(f, R)
<1> DEFINE Sum(T) == SumFunctionOnSet(f, T)
           Wrong == {T \in SUBSET R : Sum(S \cup T) # Sum(S) + Sum(T)}
<1>1. ASSUME Wrong # {} PROVE FALSE
  <2>1. PICK T \in Wrong : \A U \in SUBSET T : U # T => U \notin Wrong
    <3>1. Wrong \in SUBSET SUBSET R
      OBVIOUS
    <3> HIDE DEF Wrong
    <3>2. QED BY <1>1, <3>1, LeastSubset
  <2>2. T \in SUBSET R /\ IsFiniteSet(T) /\ IsFiniteSet(S \cup T)
    BY FS_Subset, FS_Union
  <2>3. Sum(S) \in Int /\ Sum({}) = 0
    BY SumTakesOut, SumOfNone
  <2>4. T # {}
    <3>1. S \cup {} = S
      OBVIOUS
    <3>2. {} \notin Wrong
      BY <2>3, <3>1
    <3>3. QED BY <3>2
  <2>5. PICK x \in T : TRUE
    BY <2>4
  <2>6. Sum(S \cup (T \ {x})) = Sum(S) + Sum(T \ {x})
    BY <2>1, <2>2
  <2>7. Sum(T) = f[x] + Sum(T \ {x})
    BY <2>2, SumTakesOut
  <2>8. (S \cup T) \ {x} = S \cup (T \ {x})
    BY <2>2
  <2>9. Sum(S \cup T) = f[x] + Sum((S \cup T) \ {x})
    <3>1. \A y \in S \cup T : f[y] \in Int
      BY <2>2
    <3>2. x \in S \cup T
      OBVIOUS
    <3>3. QED BY <2>2, <3>1, <3>2, SumTakesOut
  <2>10. IsFiniteSet(T \ {x}) /\ f[x] \in Int
    BY <2>2, FS_Subset
  <2>11. Sum(T \ {x}) \in Int
    BY <2>2, <2>10, SumTakesOut
  <2> HIDE DEF Sum
  <2>12. QED BY <2>1, <2>3, <2>6, <2>7, <2>8, <2>9, <2>10, <2>11
<1>2. R \notin Wrong
  BY <1>1
<1>3. QED BY <1>2

(* Terms that are the steps of a counter add up to the way it went.        *)
LEMMA SumTelescopes ==
  ASSUME NEW f, NEW c, NEW a \in Nat, NEW b \in Nat, a <= b,
         \A j \in a..b : c[j] \in Int,
         \A j \in a..(b - 1) : f[j] = c[j + 1] - c[j]
  PROVE  SumFunctionOnSet(f, a..(b - 1)) = c[b] - c[a]
<1> DEFINE Sum(n) == SumFunctionOnSet(f, a..(n - 1))
           Wrong == {n \in a..b : Sum(n) # c[n] - c[a]}
<1>1. ASSUME Wrong # {} PROVE FALSE
  <2>1. PICK n \in Wrong : \A m \in Wrong : n <= m
    <3>1. Wrong \in SUBSET Nat
      OBVIOUS
    <3> HIDE DEF Wrong
    <3>2. QED BY <1>1, <3>1, FirstOfNaturals
  <2>2. n \in a..b /\ n # a
    <3>1. a..(a - 1) = {}
      OBVIOUS
    <3>2. Sum(a) = 0
      <4>1. SumFunctionOnSet(f, {}) = 0
        BY SumOfNone
      <4>2. QED BY <3>1, <4>1
    <3>3. c[a] - c[a] = 0
      OBVIOUS
    <3>4. QED BY <3>2, <3>3
  <2>3. PICK m \in a..(b - 1) : n = m + 1
    BY <2>2
  <2>4. m \in a..b /\ m \notin Wrong
    BY <2>1, <2>3
  <2>5. Sum(m) = c[m] - c[a]
    BY <2>4
  <2>6. a..(n - 1) = a..(m - 1) \cup {m} /\ m \notin a..(m - 1)
    BY <2>3
  <2>7. IsFiniteSet(a..(m - 1))
    BY <2>3, FS_Interval
  <2>8. f[m] = c[n] - c[m] /\ c[n] \in Int /\ c[m] \in Int /\ c[a] \in Int
    BY <2>3
  <2>9. ASSUME NEW y \in a..(m - 1) \cup {m} PROVE f[y] \in Int
    <3>1. y \in a..(b - 1) /\ y \in a..b /\ y + 1 \in a..b
      BY <2>3
    <3>2. f[y] = c[y + 1] - c[y]
      BY <3>1
    <3>3. c[y + 1] \in Int /\ c[y] \in Int
      BY <3>1
    <3>4. QED BY <3>2, <3>3
  <2>10. Sum(n) = f[m] + Sum(m)
    BY <2>6, <2>7, <2>9, SumAdds
  <2>11. Sum(n) # c[n] - c[a]
    BY <2>1
  <2> DEFINE cn == c[n]  cm == c[m]  ca == c[a]
  <2>12. f[m] + Sum(m) = (cn - cm) + (cm - ca)
    BY <2>5, <2>8
  <2> HIDE DEF cn, cm, ca
  <2>13. cn \in Int /\ cm \in Int /\ ca \in Int
    BY <2>8 DEF cn, cm, ca
  <2>14. (cn - cm) + (cm - ca) = cn - ca
    BY ONLY <2>13
  <2> HIDE DEF Sum
  <2>15. QED BY <2>10, <2>11, <2>12, <2>14 DEF cn, ca
<1>2. b \notin Wrong
  BY <1>1
<1>3. QED BY <1>2

(* The values of a table.                                                  *)

(* One key's value changed, or is new.                                     *)
LEMMA SumOfChanged ==
  ASSUME NEW m, NEW m2, NEW k, IsFiniteSet(DOMAIN m),
         \A x \in DOMAIN m : m[x] \in Int, m2[k] \in Int,
         DOMAIN m2 = DOMAIN m \cup {k},
         \A x \in DOMAIN m \ {k} : m2[x] = m[x]
  PROVE  SumFunction(m2) = SumFunction(m) + (m2[k] - Lookup(m, k, 0))
<1> DEFINE D == DOMAIN m
           R == D \ {k}
<1>1. IsFiniteSet(R) /\ k \notin R /\ DOMAIN m2 = R \cup {k}
  BY FS_Subset
<1>2. SumFunctionOnSet(m2, R) = SumFunctionOnSet(m, R)
  BY <1>1, SumOfSame
<1>3. SumFunctionOnSet(m, R) \in Int
  BY <1>1, SumTakesOut
<1>4. \A y \in R \cup {k} : m2[y] \in Int
  OBVIOUS
<1>5. SumFunction(m2) = m2[k] + SumFunctionOnSet(m2, R)
  <2> HIDE DEF R
  <2>1. QED BY <1>1, <1>4, SumAdds DEF SumFunction
<1>6. SumFunction(m) = Lookup(m, k, 0) + SumFunctionOnSet(m, R)
  <2>1. CASE k \in D
    <3>1. SumFunctionOnSet(m, D) = m[k] + SumFunctionOnSet(m, D \ {k})
      BY <2>1, SumTakesOut
    <3>2. QED BY <2>1, <3>1 DEF SumFunction, Lookup
  <2>2. CASE k \notin D
    <3>1. D = R
      BY <2>2
    <3>2. Lookup(m, k, 0) = 0
      BY <2>2 DEF Lookup
    <3> HIDE DEF R
    <3>3. QED BY <1>3, <3>1, <3>2 DEF SumFunction
  <2>3. QED BY <2>1, <2>2
<1>7. Lookup(m, k, 0) \in Int
  BY DEF Lookup
<1> HIDE DEF R
<1>8. QED BY <1>2, <1>3, <1>5, <1>6, <1>7

(* Some keys are gone, whose values were not negative.                     *)
LEMMA SumOfFewer ==
  ASSUME NEW m, NEW m2, NEW S, IsFiniteSet(DOMAIN m),
         \A x \in DOMAIN m : m[x] \in Nat,
         DOMAIN m2 = DOMAIN m \cap S,
         \A x \in DOMAIN m2 : m2[x] = m[x]
  PROVE  /\ SumFunction(m2) \in Nat /\ SumFunctionOnSet(m, DOMAIN m \ S) \in Nat
         /\ SumFunction(m) = SumFunction(m2) + SumFunctionOnSet(m, DOMAIN m \ S)
<1> DEFINE D == DOMAIN m
           R == D \cap S
           Q == D \ S
<1>1. /\ IsFiniteSet(R) /\ IsFiniteSet(Q) /\ R \cap Q = {} /\ R \cup Q = D
      /\ \A y \in R \cup Q : m[y] \in Int
  <2>1. R \in SUBSET D /\ Q \in SUBSET D
    OBVIOUS
  <2>2. IsFiniteSet(R) /\ IsFiniteSet(Q)
    <3> HIDE DEF R, Q
    <3>1. QED BY <2>1, FS_Subset
  <2>3. R \cap Q = {} /\ R \cup Q = D
    OBVIOUS
  <2>4. \A y \in R \cup Q : m[y] \in Int
    OBVIOUS
  <2>5. QED BY <2>2, <2>3, <2>4
<1>2. SumFunctionOnSet(m2, R) = SumFunctionOnSet(m, R)
  BY <1>1, SumOfSame
<1>3. SumFunctionOnSet(m, R) \in Nat
  BY <1>1, SumIsNatural
<1>4. SumFunctionOnSet(m, Q) \in Nat
  BY <1>1, SumIsNatural
<1>5. SumFunctionOnSet(m, D) = SumFunctionOnSet(m, R) + SumFunctionOnSet(m, Q)
  <2> HIDE DEF D, R, Q
  <2>1. SumFunctionOnSet(m, R \cup Q)
          = SumFunctionOnSet(m, R) + SumFunctionOnSet(m, Q)
    BY <1>1, SumOfUnion
  <2>2. QED BY <1>1, <2>1
<1>6. /\ SumFunction(m) = SumFunctionOnSet(m, D)
      /\ SumFunction(m2) = SumFunctionOnSet(m2, R)
  BY DEF SumFunction
<1>7. QED BY <1>2, <1>3, <1>4, <1>5, <1>6
=============================================================================
