------------------------ MODULE SamplingFeed_proofs -------------------------
(***************************************************************************)
(* That the rates a watch answers with, and the rates a consumer of its    *)
(* events multiplies by, are those last stated, for any number of          *)
(* exporters and domains and any ceiling.                                  *)
(***************************************************************************)
EXTENDS SamplingFeed, RecencyOrder_proofs

(* Rounding is to a nearest integer.                                       *)
Nearest(rate, num, den) == /\ 2 * (rate * den - num) <= den
                           /\ -(2 * (rate * den - num)) <= den

(* The ratios there are: a numerator and a denominator that is not 0.      *)
Ratio == Nat \X (Nat \ {0})

LEMMA RoundIsNearest ==
  ASSUME NEW a \in Nat, NEW b \in Nat \ {0}
  PROVE  Round(a, b) \in Nat /\ Nearest(Round(a, b), a, b)
<1> DEFINE q == a \div b
           r == a % b
<1>1. q \in Nat /\ r \in Nat /\ r < b /\ a = b * q + r
  BY SMT
<1> HIDE DEF q, r
<1>2. q * b = b * q /\ (q + 1) * b = q * b + b
  BY <1>1, SMT
<1>3. Round(a, b) = IF 2 * r > b \/ (2 * r = b /\ q % 2 = 1) THEN q + 1 ELSE q
  BY DEF Round, q, r
<1>4. CASE 2 * r > b \/ (2 * r = b /\ q % 2 = 1)
  <2>1. Round(a, b) = q + 1 /\ q * b \in Nat /\ 2 * r >= b
    BY <1>1, <1>3, <1>4
  <2> DEFINE p == q * b
  <2>2. (q + 1) * b - a = b - r
    BY <1>1, <1>2, <2>1
  <2>3. QED BY <1>1, <2>1, <2>2 DEF Nearest
<1>5. CASE ~(2 * r > b \/ (2 * r = b /\ q % 2 = 1))
  <2>1. Round(a, b) = q /\ q * b - a = -r /\ 2 * r <= b
    BY <1>1, <1>2, <1>3, <1>5
  <2>2. QED BY <1>1, <2>1 DEF Nearest
<1>6. QED BY <1>4, <1>5

(* A whole number is rounded to itself.                                    *)
LEMMA RoundOfWhole == ASSUME NEW n \in Nat PROVE Round(n, 1) = n
<1>1. n \div 1 = n /\ n % 1 = 0
  BY SMT
<1>2. QED BY <1>1 DEF Round

(* A record that states a rate states a ratio that rounds to it.           *)
LEMMA RateIsRounded ==
  ASSUME NEW rec \in OptionRecord
  PROVE  /\ SamplingRate(rec) \in Nat
         /\ SamplingRate(rec) # Silent =>
              /\ Stated(rec) \in Ratio
              /\ SamplingRate(rec) = Round(Stated(rec)[1], Stated(rec)[2])
<1>1. /\ rec.interval \in Nat /\ rec.sampler \in Nat /\ rec.every \in Nat
      /\ rec.space \in Nat \cup {Absent} /\ rec.size \in Nat
      /\ rec.population \in Nat
  BY DEF OptionRecord
<1>2. CASE rec.interval > 0
  <2>1. SamplingRate(rec) = rec.interval /\ Stated(rec) = <<rec.interval, 1>>
    BY <1>1, <1>2 DEF SamplingRate, Stated
  <2>2. QED BY <1>1, <2>1, RoundOfWhole DEF Ratio
<1>3. CASE rec.interval = 0 /\ rec.sampler > 0
  <2>1. SamplingRate(rec) = rec.sampler /\ Stated(rec) = <<rec.sampler, 1>>
    BY <1>1, <1>3 DEF SamplingRate, Stated
  <2>2. QED BY <1>1, <2>1, RoundOfWhole DEF Ratio
<1>4. CASE /\ rec.interval = 0 /\ rec.sampler = 0
           /\ rec.every > 0 /\ rec.space # Absent
  <2>1. /\ SamplingRate(rec) = Round(rec.every + rec.space, rec.every)
        /\ Stated(rec) = <<rec.every + rec.space, rec.every>>
    BY <1>1, <1>4 DEF SamplingRate, RateOfSpacing, Stated
  <2>2. /\ rec.every + rec.space \in Nat /\ rec.every \in Nat \ {0}
    BY <1>1, <1>4
  <2>3. QED BY <2>1, <2>2, RoundIsNearest DEF Ratio
<1>5. CASE /\ rec.interval = 0 /\ rec.sampler = 0
           /\ ~(rec.every > 0 /\ rec.space # Absent)
  <2>1. Stated(rec) = <<rec.population, rec.size>>
    BY <1>1, <1>5 DEF Stated
  <2>2. CASE rec.size > 0 /\ rec.population >= rec.size
    <3>1. SamplingRate(rec) = Round(rec.population, rec.size)
      BY <1>1, <1>5, <2>2 DEF SamplingRate
    <3>2. QED BY <1>1, <2>1, <2>2, <3>1, RoundIsNearest DEF Ratio
  <2>3. CASE ~(rec.size > 0 /\ rec.population >= rec.size)
    <3>1. SamplingRate(rec) = Silent
      BY <1>1, <1>5, <2>3 DEF SamplingRate
    <3>2. QED BY <3>1 DEF Silent
  <2>4. QED BY <2>2, <2>3
<1>6. QED BY <1>1, <1>2, <1>3, <1>4, <1>5

-----------------------------------------------------------------------------
(* What a consumer is told by no events, and by one more.                  *)
LEMMA ToldByNone ==
  ASSUME NEW k PROVE ToldAfter(<<>>, k) = told[k]
BY DEF ToldAfter

LEMMA ToldByOneMore ==
  ASSUME NEW cs \in Seq(Change), NEW c \in Change, NEW k
  PROVE  ToldAfter(Append(cs, c), k) =
           IF c.key = k THEN c.rate ELSE ToldAfter(cs, k)
<1> DEFINE ds == Append(cs, c)
           new == Len(cs) + 1
           about == {i \in 1..Len(cs) : cs[i].key = k}
           aboutNow == {i \in 1..Len(ds) : ds[i].key = k}
<1>1. /\ Len(cs) \in Nat /\ Len(ds) = new /\ ds[new] = c
      /\ \A i \in 1..Len(cs) : ds[i] = cs[i]
  OBVIOUS
<1> HIDE DEF ds
<1>2. CASE c.key = k
  <2>1. new \in aboutNow /\ \A j \in aboutNow : j <= new
    BY <1>1, <1>2
  <2> DEFINE last == CHOOSE i \in aboutNow : \A j \in aboutNow : j <= i
  <2>2. last \in aboutNow /\ \A j \in aboutNow : j <= last
    BY <2>1
  <2>3. last = new
    BY <1>1, <2>1, <2>2
  <2>4. ToldAfter(ds, k) = ds[last].rate
    BY <2>1 DEF ToldAfter
  <2>5. QED BY <1>1, <1>2, <2>3, <2>4 DEF ds
<1>3. CASE c.key # k
  <2>1. aboutNow = about
    BY <1>1, <1>3
  <2>2. CASE about = {}
    BY <1>3, <2>1, <2>2 DEF ToldAfter, ds
  <2>3. CASE about # {}
    <3> DEFINE last == CHOOSE i \in about : \A j \in about : j <= i
    <3>1. last \in about
      BY <1>1, <2>3, LastPosition
    <3>2. ToldAfter(cs, k) = cs[last].rate /\ ToldAfter(ds, k) = ds[last].rate
      BY <2>1, <2>3 DEF ToldAfter
    <3>3. QED BY <1>1, <1>3, <3>1, <3>2 DEF ds
  <2>4. QED BY <2>2, <2>3
<1>4. QED BY <1>2, <1>3

(* It is told a rate by any events.                                        *)
LEMMA ToldIsARate ==
  ASSUME NEW cs \in Seq(Change), NEW k, told[k] \in Nat \ {0}
  PROVE  ToldAfter(cs, k) \in Nat \ {0}
<1> DEFINE about == {i \in 1..Len(cs) : cs[i].key = k}
<1>1. CASE about = {}
  BY <1>1 DEF ToldAfter
<1>2. CASE about # {}
  <2> DEFINE last == CHOOSE i \in about : \A j \in about : j <= i
  <2>1. Len(cs) \in Nat /\ about \in SUBSET (1..Len(cs))
    OBVIOUS
  <2> HIDE DEF about
  <2>2. last \in about
    BY <1>2, <2>1, LastPosition
  <2>3. ToldAfter(cs, k) = cs[last].rate
    BY <1>2 DEF ToldAfter, about
  <2> HIDE DEF last
  <2>4. cs[last] \in Change
    BY <2>1, <2>2
  <2>5. QED BY <2>3, <2>4 DEF Change
<1>3. QED BY <1>1, <1>2

-----------------------------------------------------------------------------
(* A v5 domain whose headers say it stopped sampling is left out: they     *)
(* withdraw nothing.                                                       *)
Spoken(k) == said[k] # <<>> /\ (k \in HeaderKeys => said[k] # <<1, 1>>)

(* The rate held is the one last stated ...                                *)
InForce == \A k \in Keys : k \in DOMAIN rates /\ Spoken(k) => rates[k] = RateSaid(k)

(* ... and a domain with none held is unsampled, or was passed by as many  *)
(* others as the table has places.                                         *)
Passed == \A k \in Keys : k \notin DOMAIN rates /\ Spoken(k) =>
             RateSaid(k) = 1 \/ Cardinality(since[k]) >= MaxDomains

Table == /\ NoRepeats(order) /\ Len(order) <= MaxDomains
         /\ NewerIn(order, since) /\ \A k \in Keys : IsFiniteSet(since[k])
         /\ said \in [Keys -> Ratio \cup {<<>>}]
         /\ \A k \in DOMAIN rates : said[k] # <<>>

(* ConsumerAgrees in three parts.                                          *)
HeldAgree == \A k \in DOMAIN rates : ToldAfter(changes, k) = rates[k]
AllAgree == ratesEvicted = 0 => \A k \in Keys : ToldAfter(changes, k) = RateFor(k)
Chained ==
  \A i \in 1..Len(changes) :
    LET before == ToldAfter(SubSeq(changes, 1, i - 1), changes[i].key)
    IN  \/ changes[i].previous = before
        \/ changes[i].previous = Silent /\ (before = 1 \/ ratesEvicted > 0)

IInv == /\ TypeOK /\ Table /\ InForce /\ Passed
        /\ HeldAgree /\ AllAgree /\ Chained

LEMMA InitIInv == Init => IInv
<1> SUFFICES ASSUME Init PROVE IInv
  OBVIOUS
<1> USE DEF Init, SamplingInit
<1>1. /\ order = <<>> /\ Len(order) = 0 /\ ToSet(order) = {}
      /\ changes = <<>> /\ Len(changes) = 0 /\ DOMAIN rates = {}
  BY DEF ToSet
<1>2. TypeOK
  <2>1. rates \in [ToSet(order) -> Nat \ {0, 1}]
    BY <1>1
  <2>2. QED BY <1>1, <2>1 DEF TypeOK, SamplingTypeOK
<1>3. Table
  BY <1>1, SamplingAssumption, FS_EmptySet DEF Table, NoRepeats, NewerIn
<1>4. InForce /\ Passed
  BY <1>1 DEF InForce, Passed, Spoken
<1>5. HeldAgree /\ AllAgree /\ Chained
  BY <1>1, ToldByNone DEF HeldAgree, AllAgree, Chained, RateFor, Lookup
<1>6. QED BY <1>2, <1>3, <1>4, <1>5 DEF IInv

(* Reporting a rate makes the consumer's k that rate and nobody else's, in *)
(* an event that names the rate it had before.                             *)
LEMMA ReportTells ==
  ASSUME IInv, NEW k \in Keys, NEW rate \in Nat \ {0},
         Report(k, rate, Lookup(rates, k, Silent)), told' = told,
         ratesEvicted' \in Nat, ratesEvicted' >= ratesEvicted
  PROVE  /\ changes' \in Seq(Change) /\ Chained'
         /\ \A x : ToldAfter(changes, x)' =
                     IF x = k THEN rate ELSE ToldAfter(changes, x)
<1> DEFINE previous == Lookup(rates, k, Silent)
           c == [key |-> k, rate |-> rate, previous |-> previous]
           new == Len(changes) + 1
<1>1. /\ changes \in Seq(Change) /\ ratesEvicted \in Nat
      /\ rates \in [ToSet(order) -> Nat \ {0, 1}]
  BY DEF IInv, TypeOK, SamplingTypeOK
<1>2. previous \in Nat \ {1}
  BY <1>1 DEF Lookup, Silent
<1>3. c \in Change
  BY <1>2 DEF Change
<1>4. changes' = Append(changes, c)
  BY DEF Report
<1>5. c.key = k /\ c.rate = rate /\ c.previous = previous
  OBVIOUS
<1>6. \/ previous = ToldAfter(changes, k)
      \/ previous = Silent /\ (ToldAfter(changes, k) = 1 \/ ratesEvicted > 0)
  <2>1. CASE k \in DOMAIN rates
    BY <2>1 DEF IInv, HeldAgree, Lookup
  <2>2. CASE k \notin DOMAIN rates
    BY <1>1, <2>2 DEF IInv, AllAgree, RateFor, Lookup
  <2>3. QED BY <2>1, <2>2
<1> HIDE DEF c, previous
<1>7. /\ changes' \in Seq(Change) /\ Len(changes) \in Nat /\ Len(changes') = new
      /\ changes'[new] = c
      /\ \A i \in 1..Len(changes) : changes'[i] = changes[i]
  BY <1>1, <1>3, <1>4
<1>8. \A cs, x : ToldAfter(cs, x)' = ToldAfter(cs, x)
  BY DEF ToldAfter
<1>9. \A i \in 1..new : SubSeq(changes', 1, i - 1) = SubSeq(changes, 1, i - 1)
  BY <1>1, <1>4, <1>3, <1>7
<1>10. SubSeq(changes, 1, new - 1) = changes
  BY <1>1
<1>11. Chained'
  <2> SUFFICES ASSUME NEW i \in 1..new
               PROVE  LET before == ToldAfter(SubSeq(changes', 1, i - 1), changes'[i].key)
                      IN  \/ changes'[i].previous = before
                          \/ /\ changes'[i].previous = Silent
                             /\ before = 1 \/ ratesEvicted' > 0
    BY <1>7, <1>8 DEF Chained
  <2> DEFINE before == ToldAfter(SubSeq(changes', 1, i - 1), changes'[i].key)
  <2>1. CASE i = new
    <3>1. changes'[i].key = k /\ changes'[i].previous = previous
      BY <1>5, <1>7, <2>1
    <3>2. SubSeq(changes', 1, i - 1) = changes
      BY <1>9, <1>10, <2>1
    <3>3. before = ToldAfter(changes, k)
      BY <3>1, <3>2
    <3> HIDE DEF before
    <3>4. ratesEvicted > 0 => ratesEvicted' > 0
      BY <1>1
    <3>5. QED BY <1>6, <3>1, <3>3, <3>4 DEF before
  <2>2. CASE i \in 1..Len(changes)
    <3>1. changes'[i] = changes[i]
      BY <1>7, <2>2
    <3>2. before = ToldAfter(SubSeq(changes, 1, i - 1), changes[i].key)
      BY <1>9, <3>1
    <3> HIDE DEF before
    <3>3. \/ changes[i].previous = before
          \/ changes[i].previous = Silent /\ (before = 1 \/ ratesEvicted > 0)
      BY <2>2, <3>2 DEF IInv, Chained
    <3>4. ratesEvicted > 0 => ratesEvicted' > 0
      BY <1>1
    <3>5. QED BY <3>1, <3>3, <3>4 DEF before
  <2>3. QED BY <1>7, <2>1, <2>2
<1>12. ASSUME NEW x
       PROVE  ToldAfter(changes, x)' = IF x = k THEN rate ELSE ToldAfter(changes, x)
  <2>1. ToldAfter(changes, x)' = ToldAfter(Append(changes, c), x)
    BY <1>4 DEF ToldAfter
  <2>2. QED BY <1>1, <1>3, <1>5, <2>1, ToldByOneMore
<1>13. QED BY <1>7, <1>11, <1>12

-----------------------------------------------------------------------------
(* A sampled rate is noted.                                                *)
Sampled(k, rate) ==
  \/ NoteRepeated(k) /\ Lookup(rates, k, Silent) = rate
  \/ NoteChanged(k, rate) /\ Lookup(rates, k, Silent) # rate

(* Whether it is the rate held or another, the tables end up the same way. *)
LEMMA SampledTables ==
  ASSUME IInv, NEW k \in Keys, NEW rate \in Nat \ {0, 1}, Sampled(k, rate)
  PROVE  LET kept == Newest(MoveToEnd(order, k), MaxDomains)
         IN  /\ order' = kept
             /\ rates' = [x \in ToSet(kept) |-> IF x = k THEN rate ELSE rates[x]]
             /\ ratesEvicted' \in Nat /\ ratesEvicted' >= ratesEvicted
             /\ ratesEvicted' = 0 => /\ ratesEvicted = 0
                                     /\ ToSet(order) \subseteq ToSet(kept)
<1> DEFINE moved == MoveToEnd(order, k)
           kept == Newest(moved, MaxDomains)
<1>1. /\ order \in Seq(Keys) /\ NoRepeats(order) /\ Len(order) <= MaxDomains
      /\ rates \in [ToSet(order) -> Nat \ {0, 1}] /\ ratesEvicted \in Nat
      /\ MaxDomains \in Nat \ {0}
  BY SamplingAssumption DEF IInv, Table, TypeOK, SamplingTypeOK
<1>2. /\ order \in Seq(Keys) /\ NoRepeats(order) /\ Len(order) <= MaxDomains
      /\ MaxDomains \in Nat \ {0}
  BY <1>1
<1>3. /\ Len(moved) \in Nat /\ Len(kept) <= Len(moved) /\ kept \in Seq(Keys)
      /\ k \in ToSet(order) => kept = moved
  <2>1. Len(moved) \in Nat /\ Len(kept) <= Len(moved)
    BY <1>1, BoundedMoveToEnd
  <2>2. kept \in Seq(Keys)
    BY <1>1, BoundedMoveToEnd
  <2>3. ASSUME k \in ToSet(order) PROVE kept = moved
    <3>1. Len(moved) = Len(order)
      BY <1>2, <2>3, MoveToEndProperties
    <3>2. ~(Len(moved) > MaxDomains)
      BY <1>2, <3>1
    <3>3. QED BY <3>2 DEF Newest
  <2>4. QED BY <2>1, <2>2, <2>3
<1>4. moved \in Seq(Keys) /\ ToSet(moved) = ToSet(order) \cup {k}
  <2>1. moved \in Seq(Keys)
    BY <1>1, MoveToEndProperties
  <2>2. ToSet(moved) = ToSet(order) \cup {k}
    BY <1>2, MoveToEndProperties
  <2>3. QED BY <2>1, <2>2
<1>5. Len(kept) \in Nat
  BY <1>3
<1>6. Len(moved) = Len(kept) => kept = moved
  BY <1>1, <1>3 DEF Newest
<1> HIDE DEF kept
<1>7. CASE NoteRepeated(k) /\ Lookup(rates, k, Silent) = rate
  <2>1. k \in DOMAIN rates /\ rates[k] = rate
    BY <1>7 DEF Lookup, Silent
  <2>2. kept = moved /\ ToSet(kept) = ToSet(order)
    BY <1>1, <1>3, <1>4, <2>1
  <2>3. order' = moved /\ rates' = rates /\ ratesEvicted' = ratesEvicted
    BY <1>7 DEF NoteRepeated
  <2>4. rates = [x \in ToSet(kept) |-> IF x = k THEN rate ELSE rates[x]]
    BY <1>1, <2>1, <2>2
  <2>5. QED BY <1>1, <2>2, <2>3, <2>4 DEF kept
<1>8. CASE NoteChanged(k, rate)
  <2>1. /\ order' = kept
        /\ rates' = [x \in ToSet(kept) |-> IF x = k THEN rate ELSE rates[x]]
        /\ ratesEvicted' = ratesEvicted + Len(moved) - Len(kept)
    BY <1>8 DEF NoteChanged, kept
  <2> HIDE DEF moved
  <2>2. ratesEvicted' \in Nat /\ ratesEvicted' >= ratesEvicted
    BY <1>1, <1>3, <1>5, <2>1
  <2>3. ratesEvicted' = 0 => ratesEvicted = 0 /\ Len(moved) = Len(kept)
    BY <1>1, <1>3, <1>5, <2>1
  <2>4. QED BY <1>4, <1>6, <2>1, <2>2, <2>3 DEF kept, moved
<1>9. QED BY <1>7, <1>8 DEF Sampled

(* The events tell of it, unless it is the rate they told before.          *)
LEMMA SampledTells ==
  ASSUME IInv, NEW k \in Keys, NEW rate \in Nat \ {0, 1}, Sampled(k, rate),
         told' = told
  PROVE  /\ changes' \in Seq(Change) /\ Chained'
         /\ \A x : ToldAfter(changes, x)' =
                     IF x = k THEN rate ELSE ToldAfter(changes, x)
<1>1. ratesEvicted' \in Nat /\ ratesEvicted' >= ratesEvicted
  BY SampledTables
<1>2. CASE NoteRepeated(k) /\ Lookup(rates, k, Silent) = rate
  <2>1. changes' = changes /\ ratesEvicted' = ratesEvicted
    BY <1>2 DEF NoteRepeated
  <2>2. \A cs, x : ToldAfter(cs, x)' = ToldAfter(cs, x)
    BY DEF ToldAfter
  <2>3. \A x : ToldAfter(changes, x)' = ToldAfter(changes, x)
    BY <2>1 DEF ToldAfter
  <2>4. ToldAfter(changes, k) = rate
    BY <1>2 DEF IInv, HeldAgree, Lookup, Silent
  <2>5. Chained'
    BY <2>1, <2>2 DEF IInv, Chained
  <2>6. changes \in Seq(Change)
    BY DEF IInv, TypeOK, SamplingTypeOK
  <2>7. QED BY <2>1, <2>3, <2>4, <2>5, <2>6
<1>3. CASE NoteChanged(k, rate)
  BY <1>1, <1>3, ReportTells DEF NoteChanged
<1>4. QED BY <1>2, <1>3 DEF Sampled

(* What is written down of a domain is a sequence of numbers.             *)
LEMMA RatioIsSeq == Ratio \cup {<<>>} \subseteq Seq(Nat)
<1>1. ASSUME NEW r \in Ratio PROVE r \in Seq(Nat)
  <2>1. PICK a \in Nat, b \in Nat \ {0} : r = <<a, b>>
    BY DEF Ratio
  <2>2. QED BY <2>1
<1>2. <<>> \in Seq(Nat)
  OBVIOUS
<1>3. QED BY <1>1, <1>2

(* A ratio is not the silence of a domain that stated none.               *)
LEMMA RatioIsStated == ASSUME NEW r \in Ratio PROVE r # <<>>
<1>1. PICK a \in Nat, b \in Nat \ {0} : r = <<a, b>>
  BY DEF Ratio
<1>2. Len(r) = 2
  BY <1>1
<1>3. QED BY <1>2

(* What was stated is written down.                                        *)
LEMMA HeardTypes ==
  ASSUME IInv, NEW k \in Keys, NEW r \in Ratio \cup {<<>>},
         NEW sampled \in BOOLEAN, Heard(k, r, sampled)
  PROVE  /\ noted' \in Nat /\ told' \in [Keys -> Nat \ {0}] /\ told' = told
         /\ said' \in [Keys -> Ratio \cup {<<>>}]
         /\ said' \in [Keys -> Seq(Nat)] /\ said'[k] = r
         /\ \A x \in Keys \ {k} : said'[x] = said[x]
<1>1. /\ said \in [Keys -> Ratio \cup {<<>>}] /\ noted \in Nat
      /\ told \in [Keys -> Nat \ {0}]
  BY DEF IInv, TypeOK, Table
<1>2. said' = [said EXCEPT ![k] = r] /\ noted' = noted + 1 /\ told' = told
  BY DEF Heard
<1>3. said' \in [Keys -> Ratio \cup {<<>>}]
  BY <1>1, <1>2
<1>4. said' \in [Keys -> Seq(Nat)]
  BY <1>3, RatioIsSeq
<1>5. QED BY <1>1, <1>2, <1>3, <1>4

(* A sampled rate is stated.                                               *)
LEMMA SampledIInv ==
  ASSUME IInv, NEW k \in Keys, NEW rate \in Nat \ {0, 1}, NEW r \in Ratio,
         rate = Round(r[1], r[2]), Sampled(k, rate), Heard(k, r, TRUE)
  PROVE  IInv'
<1> DEFINE kept == Newest(MoveToEnd(order, k), MaxDomains)
           g == UsedSince(Keys, since, k)
<1>1. /\ order \in Seq(Keys) /\ NoRepeats(order) /\ Len(order) <= MaxDomains
      /\ MaxDomains \in Nat \ {0}
  BY SamplingAssumption DEF IInv, Table, TypeOK, SamplingTypeOK
<1>2. /\ since \in [Keys -> SUBSET Keys] /\ NewerIn(order, since)
      /\ \A x \in Keys : IsFiniteSet(since[x])
  BY DEF IInv, Table, TypeOK
<1>3. rates \in [ToSet(order) -> Nat \ {0, 1}]
  BY DEF IInv, TypeOK, SamplingTypeOK
<1>4. /\ noted' \in Nat /\ told' \in [Keys -> Nat \ {0}] /\ told' = told
      /\ said' \in [Keys -> Ratio \cup {<<>>}] /\ said' \in [Keys -> Seq(Nat)]
      /\ said'[k] = r /\ \A x \in Keys \ {k} : said'[x] = said[x]
  BY HeardTypes
<1>5. /\ order' = kept
      /\ rates' = [x \in ToSet(kept) |-> IF x = k THEN rate ELSE rates[x]]
      /\ ratesEvicted' \in Nat
      /\ ratesEvicted' = 0 => ratesEvicted = 0 /\ ToSet(order) \subseteq ToSet(kept)
  BY SampledTables
<1>6. /\ changes' \in Seq(Change) /\ Chained'
      /\ \A x : ToldAfter(changes, x)' =
                  IF x = k THEN rate ELSE ToldAfter(changes, x)
  BY <1>4, SampledTells
<1>7. since' = g
  BY DEF Heard, UsedSince
<1>8. kept \in Seq(Keys)
  BY <1>1, BoundedMoveToEnd
<1>9. NoRepeats(kept)
  BY <1>1, BoundedMoveToEnd
<1>10. Len(kept) <= MaxDomains
  BY <1>1, BoundedMoveToEnd
<1>11. ToSet(kept) \subseteq ToSet(order) \cup {k}
  BY <1>1, BoundedMoveToEnd
<1>12. k \in ToSet(kept)
  BY <1>1, BoundedMoveToEnd
<1>13. g \in [Keys -> SUBSET Keys]
  BY <1>1, <1>2, UseKeepsRecency
<1>14. \A x \in Keys : IsFiniteSet(g[x])
  BY <1>1, <1>2, UseKeepsRecency
<1>15. NewerIn(kept, g)
  BY <1>1, <1>2, UseKeepsRecency
<1>16. \A x \in ToSet(order) \ ToSet(kept) : Cardinality(g[x]) >= MaxDomains
  BY <1>1, <1>2, UseKeepsRecency
<1>17. \A x \in Keys \ {k} : Cardinality(since[x]) >= MaxDomains =>
                               Cardinality(g[x]) >= MaxDomains
  BY <1>1, <1>2, UseKeepsRecency
<1> HIDE DEF kept, g
<1>18. TypeOK'
  <2>1. rates' \in [ToSet(kept) -> Nat \ {0, 1}]
    BY <1>3, <1>5, <1>11
  <2>2. SamplingTypeOK'
    BY <1>5, <1>6, <1>8, <2>1 DEF SamplingTypeOK
  <2>3. QED BY <1>4, <1>7, <1>13, <2>2 DEF TypeOK
<1>19. Table'
  <2>1. ASSUME NEW x \in ToSet(kept) PROVE said'[x] # <<>>
    <3>1. CASE x = k
      BY <1>4, <3>1, RatioIsStated
    <3>2. CASE x # k
      <4>1. x \in DOMAIN rates /\ x \in Keys
        BY <1>1, <1>3, <1>11, <2>1, <3>2, InToSet
      <4>2. QED BY <1>4, <3>2, <4>1 DEF IInv, Table
    <3>3. QED BY <3>1, <3>2
  <2>2. DOMAIN rates' = ToSet(kept)
    BY <1>5
  <2>3. QED BY <1>4, <1>5, <1>7, <1>9, <1>10, <1>14, <1>15, <2>1, <2>2 DEF Table
<1>20. \A x \in Keys \ {k} : /\ said'[x] = said[x] /\ (Spoken(x)' <=> Spoken(x))
                             /\ x \in ToSet(kept) => /\ x \in DOMAIN rates
                                                     /\ rates'[x] = rates[x]
  BY <1>3, <1>4, <1>5, <1>11 DEF Spoken
<1>21. InForce'
  <2> SUFFICES ASSUME NEW x \in Keys, x \in ToSet(kept), Spoken(x)'
               PROVE  rates'[x] = Round(said'[x][1], said'[x][2])
    BY <1>5 DEF InForce, RateSaid
  <2>1. CASE x = k
    BY <1>4, <1>5, <2>1
  <2>2. CASE x # k
    BY <1>20, <2>2 DEF IInv, InForce, RateSaid
  <2>3. QED BY <2>1, <2>2
<1>22. Passed'
  <2> SUFFICES ASSUME NEW x \in Keys, x \notin ToSet(kept), Spoken(x)'
               PROVE  \/ Round(said'[x][1], said'[x][2]) = 1
                      \/ Cardinality(g[x]) >= MaxDomains
    BY <1>5, <1>7 DEF Passed, RateSaid
  <2>1. x # k
    BY <1>12
  <2>2. CASE x \in ToSet(order)
    BY <1>16, <2>2
  <2>3. CASE x \notin ToSet(order)
    <3>1. \/ Round(said[x][1], said[x][2]) = 1
          \/ Cardinality(since[x]) >= MaxDomains
      BY <1>3, <1>20, <2>1, <2>3 DEF IInv, Passed, RateSaid
    <3>2. QED BY <1>17, <1>20, <2>1, <3>1
  <2>4. QED BY <2>2, <2>3
<1>23. HeldAgree'
  <2> SUFFICES ASSUME NEW x \in ToSet(kept) PROVE ToldAfter(changes, x)' = rates'[x]
    BY <1>5 DEF HeldAgree
  <2>1. CASE x = k
    BY <1>5, <1>6, <2>1
  <2>2. CASE x # k
    BY <1>3, <1>5, <1>6, <1>11, <2>2 DEF IInv, HeldAgree
  <2>3. QED BY <2>1, <2>2
<1>24. AllAgree'
  <2> SUFFICES ASSUME ratesEvicted' = 0, NEW x \in Keys
               PROVE  ToldAfter(changes, x)' = RateFor(x)'
    BY DEF AllAgree
  <2>1. CASE x \in ToSet(kept)
    BY <1>5, <1>23, <2>1 DEF HeldAgree, RateFor, Lookup
  <2>2. CASE x \notin ToSet(kept)
    <3>1. x # k /\ x \notin DOMAIN rates /\ ratesEvicted = 0
      BY <1>3, <1>5, <1>12, <2>2
    <3>2. ToldAfter(changes, x) = 1
      BY <3>1 DEF IInv, AllAgree, RateFor, Lookup
    <3>3. QED BY <1>5, <1>6, <2>2, <3>1, <3>2 DEF RateFor, Lookup
  <2>3. QED BY <2>1, <2>2
<1>25. QED BY <1>6, <1>18, <1>19, <1>21, <1>22, <1>23, <1>24 DEF IInv

(* A domain says it is unsampled, and what was held of it is dropped.      *)
LEMMA UnsampledIInv ==
  ASSUME IInv, NEW k \in Keys, NEW r \in Ratio, Round(r[1], r[2]) = 1,
         NoteUnsampled(k), Heard(k, r, FALSE)
  PROVE  IInv'
<1> DEFINE left == Without(order, k)
<1>1. /\ order \in Seq(Keys) /\ NoRepeats(order) /\ Len(order) <= MaxDomains
      /\ MaxDomains \in Nat \ {0} /\ Len(order) \in Nat
  BY SamplingAssumption DEF IInv, Table, TypeOK, SamplingTypeOK
<1>2. /\ since \in [Keys -> SUBSET Keys] /\ NewerIn(order, since)
      /\ \A x \in Keys : IsFiniteSet(since[x])
      /\ rates \in [ToSet(order) -> Nat \ {0, 1}]
      /\ changes \in Seq(Change) /\ ratesEvicted \in Nat
  BY DEF IInv, Table, TypeOK, SamplingTypeOK
<1>3. /\ noted' \in Nat /\ told' \in [Keys -> Nat \ {0}] /\ told' = told
      /\ said' \in [Keys -> Ratio \cup {<<>>}] /\ said' \in [Keys -> Seq(Nat)]
      /\ said'[k] = r /\ \A x \in Keys \ {k} : said'[x] = said[x]
      /\ since' = since
  BY HeardTypes DEF Heard
<1>4. /\ order' = left /\ rates' = [x \in DOMAIN rates \ {k} |-> rates[x]]
      /\ ratesEvicted' = ratesEvicted
  BY DEF NoteUnsampled
<1>5. left \in Seq(Keys) /\ NoRepeats(left) /\ ToSet(left) = ToSet(order) \ {k}
  BY <1>1, WithoutProperties
<1>6. Len(left) = IF k \in ToSet(order) THEN Len(order) - 1 ELSE Len(order)
  BY <1>1, WithoutProperties
<1>7. NewerIn(left, since)
  <2>1. \A i, j \in 1..Len(left) : i < j =>
          \E p, q \in 1..Len(order) : p < q /\ order[p] = left[i] /\ order[q] = left[j]
    BY <1>1, WithoutProperties
  <2> HIDE DEF left
  <2>2. QED BY <1>2, <2>1 DEF NewerIn
<1> HIDE DEF left
<1>8. /\ changes' \in Seq(Change) /\ Chained'
      /\ \A x : ToldAfter(changes, x)' =
                  IF x = k /\ k \in DOMAIN rates THEN 1 ELSE ToldAfter(changes, x)
  <2>1. CASE k \in DOMAIN rates
    <3>1. Report(k, 1, Lookup(rates, k, Silent))
      BY <2>1 DEF NoteUnsampled, Lookup
    <3>2. QED BY <1>2, <1>3, <1>4, <2>1, <3>1, ReportTells
  <2>2. CASE k \notin DOMAIN rates
    <3>1. changes' = changes
      BY <2>2 DEF NoteUnsampled
    <3>2. \A cs, x : ToldAfter(cs, x)' = ToldAfter(cs, x)
      BY <1>3 DEF ToldAfter
    <3>3. \A x : ToldAfter(changes, x)' = ToldAfter(changes, x)
      BY <1>3, <3>1 DEF ToldAfter
    <3>4. Chained'
      BY <1>4, <3>1, <3>2 DEF IInv, Chained
    <3>5. QED BY <1>2, <2>2, <3>1, <3>3, <3>4
  <2>3. QED BY <2>1, <2>2
<1>9. TypeOK'
  <2>1. rates' \in [ToSet(left) -> Nat \ {0, 1}]
    BY <1>2, <1>4, <1>5
  <2>2. SamplingTypeOK'
    BY <1>2, <1>4, <1>5, <1>8, <2>1 DEF SamplingTypeOK
  <2>3. QED BY <1>2, <1>3, <2>2 DEF TypeOK
<1>10. Table'
  <2>1. Len(left) <= MaxDomains
    BY <1>1, <1>6
  <2>2. ASSUME NEW x \in DOMAIN rates' PROVE said'[x] # <<>>
    <3>1. x \in DOMAIN rates /\ x # k /\ x \in Keys
      BY <1>1, <1>2, <1>4, InToSet
    <3>2. QED BY <1>3, <3>1 DEF IInv, Table
  <2>3. QED BY <1>2, <1>3, <1>4, <1>5, <1>7, <2>1, <2>2 DEF Table
<1>11. \A x \in Keys \ {k} :
         /\ said'[x] = said[x] /\ (Spoken(x)' <=> Spoken(x))
         /\ x \in DOMAIN rates' <=> x \in DOMAIN rates
         /\ x \in DOMAIN rates => rates'[x] = rates[x]
  BY <1>3, <1>4 DEF Spoken
<1>12. k \notin DOMAIN rates'
  BY <1>4
<1>13. InForce'
  <2> SUFFICES ASSUME NEW x \in Keys, x \in DOMAIN rates', Spoken(x)'
               PROVE  rates'[x] = Round(said'[x][1], said'[x][2])
    BY DEF InForce, RateSaid
  <2>1. QED BY <1>11, <1>12 DEF IInv, InForce, RateSaid
<1>14. Passed'
  <2> SUFFICES ASSUME NEW x \in Keys, x \notin DOMAIN rates', Spoken(x)'
               PROVE  \/ Round(said'[x][1], said'[x][2]) = 1
                      \/ Cardinality(since[x]) >= MaxDomains
    BY <1>3 DEF Passed, RateSaid
  <2>1. CASE x = k
    BY <1>3, <2>1
  <2>2. CASE x # k
    BY <1>11, <2>2 DEF IInv, Passed, RateSaid
  <2>3. QED BY <2>1, <2>2
<1>15. HeldAgree'
  <2> SUFFICES ASSUME NEW x \in DOMAIN rates' PROVE ToldAfter(changes, x)' = rates'[x]
    BY DEF HeldAgree
  <2>1. x \in DOMAIN rates /\ x # k /\ rates'[x] = rates[x]
    BY <1>4
  <2>2. QED BY <1>8, <2>1 DEF IInv, HeldAgree
<1>16. AllAgree'
  <2> SUFFICES ASSUME ratesEvicted' = 0, NEW x \in Keys
               PROVE  ToldAfter(changes, x)' = RateFor(x)'
    BY DEF AllAgree
  <2>1. ToldAfter(changes, x) = RateFor(x)
    BY <1>4 DEF IInv, AllAgree
  <2>2. CASE x = k
    BY <1>8, <1>12, <2>1, <2>2 DEF RateFor, Lookup
  <2>3. CASE x # k
    BY <1>8, <1>11, <2>1, <2>3 DEF RateFor, Lookup
  <2>4. QED BY <2>2, <2>3
<1>17. QED BY <1>8, <1>9, <1>10, <1>13, <1>14, <1>15, <1>16 DEF IInv

(* A message says nothing the watch keeps, or a v5 header stops sampling.  *)
LEMMA SilentIInv ==
  ASSUME IInv, NEW k \in Keys, NEW r \in Ratio \cup {<<>>},
         r = said[k] \/ (k \in HeaderKeys /\ r = <<1, 1>>),
         UNCHANGED samplingVars, Heard(k, r, FALSE)
  PROVE  IInv'
<1>1. /\ noted' \in Nat /\ told' \in [Keys -> Nat \ {0}] /\ told' = told
      /\ said' \in [Keys -> Ratio \cup {<<>>}] /\ said' \in [Keys -> Seq(Nat)]
      /\ said'[k] = r /\ \A x \in Keys \ {k} : said'[x] = said[x]
      /\ since' = since
  BY HeardTypes DEF Heard
<1>2. UNCHANGED <<order, rates, ratesEvicted, changes>>
  BY DEF samplingVars
<1>3. \A x \in Keys : Spoken(x)' => Spoken(x) /\ said'[x] = said[x]
  BY <1>1 DEF Spoken
<1>4. \A cs, x : ToldAfter(cs, x)' = ToldAfter(cs, x)
  BY <1>1 DEF ToldAfter
<1>5. \A x : ToldAfter(changes, x)' = ToldAfter(changes, x)
  BY <1>1, <1>2 DEF ToldAfter
<1>6. TypeOK' /\ Table'
  <2>1. TypeOK'
    BY <1>1, <1>2 DEF IInv, TypeOK, SamplingTypeOK
  <2>2. ASSUME NEW x \in DOMAIN rates PROVE said'[x] # <<>>
    <3>1. x \in Keys /\ said[x] # <<>>
      <4>1. order \in Seq(Keys) /\ DOMAIN rates = ToSet(order)
        BY DEF IInv, TypeOK, SamplingTypeOK
      <4>2. QED BY <4>1, InToSet DEF IInv, Table
    <3>2. said'[x] = IF x = k THEN r ELSE said[x]
      BY <1>1, <3>1
    <3>3. r = said[k] \/ r = <<1, 1>>
      OBVIOUS
    <3>4. <<1, 1>> # <<>>
      OBVIOUS
    <3>5. QED BY <3>1, <3>2, <3>3, <3>4
  <2>3. Table'
    BY <1>1, <1>2, <2>2 DEF IInv, Table, NewerIn, NoRepeats
  <2>4. QED BY <2>1, <2>3
<1>7. InForce' /\ Passed'
  BY <1>1, <1>2, <1>3 DEF IInv, InForce, Passed, RateSaid
<1>8. HeldAgree' /\ AllAgree' /\ Chained'
  BY <1>2, <1>4, <1>5 DEF IInv, HeldAgree, AllAgree, Chained, RateFor, Lookup
<1>9. QED BY <1>6, <1>7, <1>8 DEF IInv

(* The consumer takes the events, and is told what they said.              *)
LEMMA TakeIInv == IInv /\ Take => IInv'
<1> SUFFICES ASSUME IInv, Take PROVE IInv'
  OBVIOUS
<1>1. /\ UNCHANGED <<order, rates, ratesEvicted, noted, said, since>>
      /\ changes' = <<>> /\ told' = [k \in Keys |-> ToldAfter(changes, k)]
  BY DEF Take, TakeChanges
<1>2. \A k \in Keys : ToldAfter(changes, k) \in Nat \ {0}
  BY ToldIsARate DEF IInv, TypeOK, SamplingTypeOK
<1>3. \A k \in Keys : ToldAfter(changes, k)' = ToldAfter(changes, k)
  <2> TAKE k \in Keys
  <2>1. ToldAfter(changes, k)' = told'[k]
    BY <1>1 DEF ToldAfter
  <2>2. QED BY <1>1, <2>1
<1>4. TypeOK' /\ Table'
  BY <1>1, <1>2 DEF IInv, TypeOK, SamplingTypeOK, Table, NewerIn, NoRepeats
<1>5. InForce' /\ Passed'
  BY <1>1 DEF IInv, InForce, Passed, RateSaid, Spoken
<1>6. DOMAIN rates \subseteq Keys
  BY DEF IInv, TypeOK, SamplingTypeOK, ToSet
<1>7. HeldAgree' /\ AllAgree'
  BY <1>1, <1>3, <1>6 DEF IInv, HeldAgree, AllAgree, RateFor, Lookup
<1>8. Chained'
  BY <1>1 DEF Chained
<1>9. QED BY <1>4, <1>5, <1>7, <1>8 DEF IInv

-----------------------------------------------------------------------------
LEMMA OptionMessageIInv ==
  ASSUME IInv, NEW k \in Keys, NEW rec \in OptionRecords, OptionMessage(k, rec)
  PROVE  IInv'
<1> DEFINE rate == SamplingRate(rec)
<1>1. /\ rate \in Nat
      /\ rate # Silent => /\ Stated(rec) \in Ratio
                          /\ rate = Round(Stated(rec)[1], Stated(rec)[2])
  BY RateIsRounded, SamplingFeedAssumption
<1>2. /\ Heard(k, IF rate = Silent THEN said[k] ELSE Stated(rec), rate > 1)
      /\ \/ rate = Silent /\ UNCHANGED samplingVars
         \/ rate = 1 /\ NoteUnsampled(k)
         \/ rate > 1 /\ Sampled(k, rate)
  BY DEF OptionMessage, Note, Sampled
<1> HIDE DEF rate
<1>3. CASE rate = Silent /\ UNCHANGED samplingVars
  <2>1. ~(rate > 1)
    BY <1>3 DEF Silent
  <2>2. Heard(k, said[k], FALSE)
    BY <1>2, <1>3, <2>1 DEF Heard
  <2>3. said[k] \in Ratio \cup {<<>>}
    BY DEF IInv, Table
  <2>4. QED BY <1>3, <2>2, <2>3, SilentIInv
<1>4. CASE rate = 1 /\ NoteUnsampled(k)
  <2>1. ~(rate > 1) /\ rate # Silent
    BY <1>4 DEF Silent
  <2>2. Heard(k, Stated(rec), FALSE)
    BY <1>2, <2>1 DEF Heard
  <2>3. QED BY <1>1, <1>4, <2>1, <2>2, UnsampledIInv
<1>5. CASE rate > 1 /\ Sampled(k, rate)
  <2>1. rate # Silent /\ rate \in Nat \ {0, 1}
    BY <1>1, <1>5 DEF Silent
  <2>2. Heard(k, Stated(rec), TRUE)
    BY <1>2, <1>5, <2>1 DEF Heard
  <2>3. QED BY <1>1, <1>5, <2>1, <2>2, SampledIInv
<1>6. QED BY <1>2, <1>3, <1>4, <1>5

LEMMA HeaderMessageIInv ==
  ASSUME IInv, NEW k \in Keys, NEW rate \in HeaderRates, HeaderMessage(k, rate)
  PROVE  IInv'
<1> DEFINE rec == [interval |-> rate, sampler |-> 0, every |-> 0,
                   space |-> Absent, size |-> 0, population |-> 0]
           r == <<rate, 1>>
<1>1. rate \in Nat \ {0} /\ k \in HeaderKeys /\ Heard(k, r, rate > 1)
  BY SamplingFeedAssumption DEF HeaderMessage
<1>2. r \in Ratio /\ rate = Round(r[1], r[2])
  BY <1>1, RoundOfWhole DEF Ratio
<1>3. CASE rate > 1
  <2>1. Note(k, rec) /\ SamplingRate(rec) = rate
    BY <1>1, <1>3 DEF HeaderMessage, SamplingRate
  <2>2. rate # Silent /\ rate # 1 /\ rate \in Nat \ {0, 1}
    BY <1>1, <1>3 DEF Silent
  <2>3. Sampled(k, rate)
    BY <2>1, <2>2 DEF Note, Sampled
  <2>4. Heard(k, r, TRUE)
    BY <1>1, <1>3 DEF Heard
  <2> HIDE DEF r
  <2>5. QED BY <1>2, <2>2, <2>3, <2>4, SampledIInv
<1>4. CASE ~(rate > 1)
  <2>1. rate = 1 /\ r = <<1, 1>>
    BY <1>1, <1>4
  <2>2. UNCHANGED samplingVars
    BY <1>4 DEF HeaderMessage
  <2>3. Heard(k, r, FALSE)
    BY <1>1, <1>4 DEF Heard
  <2> HIDE DEF r
  <2>4. QED BY <1>1, <1>2, <2>1, <2>2, <2>3, SilentIInv
<1>5. QED BY <1>3, <1>4

LEMMA StutterIInv == IInv /\ UNCHANGED vars => IInv'
<1> SUFFICES ASSUME IInv, UNCHANGED vars PROVE IInv'
  OBVIOUS
<1>1. UNCHANGED <<order, rates, ratesEvicted, changes, noted, said, since, told>>
  BY DEF vars, samplingVars
<1>2. \A cs, x : ToldAfter(cs, x)' = ToldAfter(cs, x)
  BY <1>1 DEF ToldAfter
<1>3. TypeOK' /\ Table'
  BY <1>1 DEF IInv, TypeOK, SamplingTypeOK, Table, NewerIn, NoRepeats
<1>4. InForce' /\ Passed'
  BY <1>1 DEF IInv, InForce, Passed, RateSaid, Spoken
<1>5. \A x : ToldAfter(changes, x)' = ToldAfter(changes, x)
  BY <1>1 DEF ToldAfter
<1>6. HeldAgree' /\ AllAgree' /\ Chained'
  BY <1>1, <1>2, <1>5 DEF IInv, HeldAgree, AllAgree, Chained, RateFor, Lookup
<1>7. QED BY <1>3, <1>4, <1>6 DEF IInv

THEOREM IInvAlways == Spec => []IInv
<1>1. IInv /\ [Next]_vars => IInv'
  <2> SUFFICES ASSUME IInv, [Next]_vars PROVE IInv'
    OBVIOUS
  <2>1. ASSUME NEW k \in Keys, NEW rec \in OptionRecords, OptionMessage(k, rec)
        PROVE  IInv'
    BY <2>1, OptionMessageIInv
  <2>2. ASSUME NEW k \in Keys, NEW rate \in HeaderRates, HeaderMessage(k, rate)
        PROVE  IInv'
    BY <2>2, HeaderMessageIInv
  <2>3. CASE Take
    BY <2>3, TakeIInv
  <2>4. CASE UNCHANGED vars
    BY <2>4, StutterIInv
  <2>5. QED BY <2>1, <2>2, <2>3, <2>4 DEF Next
<1>2. QED BY InitIInv, <1>1, PTL DEF Spec

-----------------------------------------------------------------------------
(* Every table, event and history holds what it should.                    *)
THEOREM SamplingTypes == Spec => []TypeOK
<1>1. IInv => TypeOK
  BY DEF IInv
<1>2. QED BY <1>1, IInvAlways, PTL

(* The rate SamplingWatch.rate_for answers with is the integer nearest to  *)
(* the ratio the domain last stated, and 1 only when the ceiling has       *)
(* dropped it; a v5 domain that stopped sampling is the exception.         *)
THEOREM AnswersLastStated == Spec => []AnswerIsLastStated
<1>1. IInv => AnswerIsLastStated
  <2> SUFFICES ASSUME IInv, NEW k \in Keys, Spoken(k)
               PROVE  \/ Nearest(RateFor(k), said[k][1], said[k][2])
                      \/ RateFor(k) = 1 /\ Cardinality(since[k]) >= MaxDomains
    BY DEF AnswerIsLastStated, Spoken, Nearest
  <2>1. said[k] \in Ratio
    BY DEF IInv, Table, Spoken
  <2>2. Nearest(RateSaid(k), said[k][1], said[k][2])
    BY <2>1, RoundIsNearest DEF Ratio, RateSaid
  <2>3. CASE k \in DOMAIN rates
    BY <2>2, <2>3 DEF IInv, InForce, RateFor, Lookup
  <2>4. CASE k \notin DOMAIN rates
    <3>1. RateFor(k) = 1
      BY <2>4 DEF RateFor, Lookup
    <3>2. RateSaid(k) = 1 \/ Cardinality(since[k]) >= MaxDomains
      BY <2>4 DEF IInv, Passed
    <3>3. QED BY <2>2, <3>1, <3>2
  <2>5. QED BY <2>3, <2>4
<1>2. QED BY <1>1, IInvAlways, PTL

(* A consumer that applies take_changes in order ends at the watch's own   *)
(* rates, and each SamplingChange names the rate it replaced.              *)
THEOREM EventsTellTheRates == Spec => []ConsumerAgrees
<1>1. IInv => ConsumerAgrees
  BY DEF IInv, HeldAgree, AllAgree, Chained, ConsumerAgrees
<1>2. QED BY <1>1, IInvAlways, PTL

(* rate_for asked of a whole exporter answers the one rate its sampled     *)
(* domains last stated, and 1 when they stated several or none, whatever   *)
(* domains said before and whatever the others said since; only a domain   *)
(* passed by as many others as the table has places may be left out.       *)
THEOREM WholeAnswerIsWhatWasStated == Spec => []WholeAnswerIsStated
<1>1. IInv => WholeAnswerIsStated
  <2> SUFFICES ASSUME IInv, NEW e \in Exporters, \A k \in Stating(e) : ~Stopped(k)
               PROVE  \E gone \in SUBSET {k \in Stating(e) :
                                            Cardinality(since[k]) >= MaxDomains} :
                        RateForExporter(e) =
                          Agreed({RateSaid(k) : k \in Stating(e) \ gone} \ {1})
    BY DEF WholeAnswerIsStated
  <2> DEFINE mine == {x \in DOMAIN rates : x[1] = e}
             gone == {k \in Stating(e) : k \notin DOMAIN rates /\ RateSaid(k) # 1}
  <2>1. \A k \in Stating(e) : k \in Keys /\ k[1] = e /\ Spoken(k)
    BY DEF Stating, Stopped, Spoken
  <2>2. ASSUME NEW k \in mine
        PROVE  k \in Stating(e) /\ rates[k] = RateSaid(k) /\ rates[k] # 1
    <3>1. k \in Keys /\ rates[k] # 1
      BY InToSet DEF IInv, TypeOK, SamplingTypeOK
    <3>2. k \in Stating(e)
      BY <3>1 DEF IInv, Table, Stating
    <3>3. QED BY <2>1, <3>1, <3>2 DEF IInv, InForce
  <2>3. \A k \in gone : Cardinality(since[k]) >= MaxDomains
    BY <2>1 DEF IInv, Passed
  <2>4. {rates[k] : k \in mine} = {RateSaid(k) : k \in Stating(e) \ gone} \ {1}
    <3>1. ASSUME NEW k \in mine
          PROVE  rates[k] \in {RateSaid(x) : x \in Stating(e) \ gone} \ {1}
      BY <2>2
    <3>2. ASSUME NEW k \in Stating(e) \ gone, RateSaid(k) # 1
          PROVE  RateSaid(k) \in {rates[x] : x \in mine}
      <4>1. k \in DOMAIN rates /\ k[1] = e
        BY <2>1, <3>2
      <4>2. QED BY <2>2, <4>1
    <3>3. QED BY <3>1, <3>2
  <2>5. RateForExporter(e) = Agreed({rates[k] : k \in mine})
    BY DEF RateForExporter, Agreed
  <2> HIDE DEF mine
  <2>6. QED BY <2>3, <2>4, <2>5
<1>2. QED BY <1>1, IInvAlways, PTL
=============================================================================
