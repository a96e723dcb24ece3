--------------------------- MODULE SamplingWatch ----------------------------
(***************************************************************************)
(* sampling.SamplingWatch and sampling.sampling_rate: the 1-in-N rate each *)
(* (exporter, domain) last advertised, and the changes of it as events.    *)
(***************************************************************************)
EXTENDS Integers, RecencyOrder

CONSTANTS Exporters, Domains,
          MaxDomains      \* rates kept before the least recently seen goes

ASSUME SamplingAssumption == MaxDomains \in Nat \ {0}

Keys == Exporters \X Domains

VARIABLES order,         \* keys with a rate, least recently stated first
          rates,         \* key -> its rate, never 1: unsampled is not held
          ratesEvicted,
          changes        \* SamplingChange events not yet taken

samplingVars == <<order, rates, ratesEvicted, changes>>

(* Python's None, of a field a record lacks, of a record that is silent    *)
(* about sampling, and of a rate not known before.                         *)
Absent == -1
Silent == 0
Change == [key : Keys, rate : Nat \ {0}, previous : Nat \ {1}]

(* round(a / b), halves to the even neighbour.                             *)
Round(a, b) ==
  LET q == a \div b
      r == a % b
  IN  IF 2 * r > b \/ (2 * r = b /\ q % 2 = 1) THEN q + 1 ELSE q

(* An option record, by the fields a rate can be read from.  The interval  *)
(* fields state it directly; IPFIX instead takes `every` packets and skips *)
(* `space` of them, or takes `size` out of every `population`.             *)
OptionRecord == [interval : Nat, sampler : Nat, every : Nat,
                 space : Nat \cup {Absent}, size : Nat, population : Nat]

(* Take `every` and skip `space`.  Mutant: what is taken is left out.      *)
RateOfSkipped(every, space) == Round(space, every)
RateOfSpacing(every, space) == Round(every + space, every)

SamplingRate(rec) ==
  IF rec.interval > 0 THEN rec.interval
  ELSE IF rec.sampler > 0 THEN rec.sampler
  ELSE IF rec.every > 0 /\ rec.space # Absent
       THEN RateOfSpacing(rec.every, rec.space)
  ELSE IF rec.size > 0 /\ rec.population >= rec.size
       THEN Round(rec.population, rec.size)
  ELSE Silent

SamplingInit == /\ order = <<>> /\ changes = <<>>
                /\ rates = [k \in {} |-> 0]
                /\ ratesEvicted = 0

Report(k, rate, previous) ==
  changes' = Append(changes, [key |-> k, rate |-> rate, previous |-> previous])

(* Mutant of NoteUnsampled: the rate goes without an event.                *)
NoteUnsampledQuietly(k) ==
  /\ order' = Without(order, k)
  /\ rates' = [x \in DOMAIN rates \ {k} |-> rates[x]]
  /\ UNCHANGED <<ratesEvicted, changes>>

(* Mutant of NoteUnsampled: keyed by the exporter alone, so that one       *)
(* domain's statement withdraws the rates of them all.                     *)
NoteUnsampledForAll(k) ==
  /\ order' = SelectSeq(order, LAMBDA x : x[1] # k[1])
  /\ rates' = [x \in {y \in DOMAIN rates : y[1] # k[1]} |-> rates[x]]
  /\ IF k \in DOMAIN rates THEN Report(k, 1, rates[k]) ELSE UNCHANGED changes
  /\ UNCHANGED ratesEvicted

(* "I sample everything": what was remembered of this domain is stale.     *)
NoteUnsampled(k) ==
  /\ order' = Without(order, k)
  /\ rates' = [x \in DOMAIN rates \ {k} |-> rates[x]]
  /\ IF k \in DOMAIN rates THEN Report(k, 1, rates[k]) ELSE UNCHANGED changes
  /\ UNCHANGED ratesEvicted

NoteRepeated(k) ==
  /\ order' = MoveToEnd(order, k)
  /\ UNCHANGED <<rates, ratesEvicted, changes>>

(* Mutant of NoteChanged: the rate of an evicted domain stays.             *)
NoteChangedKeepingRates(k, rate) ==
  LET kept == Newest(MoveToEnd(order, k), MaxDomains)
  IN  /\ order' = kept
      /\ rates' = [x \in DOMAIN rates \cup {k} |->
                     IF x = k THEN rate ELSE rates[x]]
      /\ ratesEvicted' = ratesEvicted + Len(MoveToEnd(order, k)) - Len(kept)
      /\ Report(k, rate, Lookup(rates, k, Silent))

NoteChanged(k, rate) ==
  LET kept == Newest(MoveToEnd(order, k), MaxDomains)
  IN  /\ order' = kept
      /\ rates' = [x \in ToSet(kept) |-> IF x = k THEN rate ELSE rates[x]]
      /\ ratesEvicted' = ratesEvicted + Len(MoveToEnd(order, k)) - Len(kept)
      /\ Report(k, rate, Lookup(rates, k, Silent))

Note(k, rec) ==
  LET rate == SamplingRate(rec)
  IN  \/ rate = Silent /\ UNCHANGED samplingVars
      \/ rate = 1 /\ NoteUnsampled(k)
      \/ rate > 1 /\ Lookup(rates, k, Silent) = rate /\ NoteRepeated(k)
      \/ rate > 1 /\ Lookup(rates, k, Silent) # rate /\ NoteChanged(k, rate)

(* Mutant of RateForExporter: disagreeing domains are not told apart.      *)
RateForAnyDomain(e) ==
  LET known == {rates[k] : k \in {x \in DOMAIN rates : x[1] = e}}
  IN  IF known # {} THEN CHOOSE r \in known : TRUE ELSE 1

(* rate_for(exporter, domain), and rate_for(exporter) with none named.     *)
RateFor(k) == Lookup(rates, k, 1)
RateForExporter(e) ==
  LET known == {rates[k] : k \in {x \in DOMAIN rates : x[1] = e}}
  IN  IF Cardinality(known) = 1 THEN CHOOSE r \in known : TRUE ELSE 1

TakeChanges == /\ changes' = <<>>
               /\ UNCHANGED <<order, rates, ratesEvicted>>

-----------------------------------------------------------------------------
SamplingTypeOK == /\ order \in Seq(Keys)
                  /\ rates \in [ToSet(order) -> Nat \ {0, 1}]
                  /\ ratesEvicted \in Nat
                  /\ changes \in Seq(Change)
=============================================================================
