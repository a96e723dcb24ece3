---------------------------- MODULE SamplingFeed ----------------------------
(***************************************************************************)
(* A SamplingWatch between exporters that state their rates, in option     *)
(* records or in the v5 header, and a consumer that follows the events.    *)
(***************************************************************************)
EXTENDS SamplingWatch

CONSTANTS OptionRecords,  \* bound: the option records exporters send
          HeaderRates,    \* bound: the rates v5 headers carry
          HeaderKeys,     \* the (exporter, engine) pairs that speak v5
          MaxNoted        \* bound: messages one behaviour delivers

ASSUME SamplingFeedAssumption ==
  /\ OptionRecords \subseteq OptionRecord
  /\ HeaderRates \subseteq Nat \ {0} /\ HeaderKeys \subseteq Keys
  /\ MaxNoted \in Nat

VARIABLES noted,  \* messages delivered
          said,   \* key -> the last rate it stated as <<num, den>>, or <<>>
          since,  \* key -> the other keys that stated a sampled rate since
          told    \* key -> the rate a consumer of the events multiplies by

vars == <<samplingVars, noted, said, since, told>>

(* The ratio a record states, before the code makes an integer of it.      *)
Stated(rec) ==
  CASE rec.interval > 0 -> <<rec.interval, 1>>
    [] rec.interval = 0 /\ rec.sampler > 0 -> <<rec.sampler, 1>>
    [] rec.interval = 0 /\ rec.sampler = 0 /\ rec.every > 0 /\ rec.space # Absent
         -> <<rec.every + rec.space, rec.every>>
    [] OTHER -> <<rec.population, rec.size>>

(* What the consumer multiplies k's counts by, the pending events applied. *)
ToldAfter(cs, k) ==
  LET about == {i \in 1..Len(cs) : cs[i].key = k}
  IN  IF about = {} THEN told[k]
      ELSE cs[CHOOSE i \in about : \A j \in about : j <= i].rate

Init == /\ SamplingInit
        /\ noted = 0
        /\ said = [k \in Keys |-> <<>>]
        /\ since = [k \in Keys |-> {}]
        /\ told = [k \in Keys |-> 1]

(* A domain stated the ratio r; `sampled` when it is one the watch keeps.  *)
Heard(k, r, sampled) ==
  /\ noted < MaxNoted
  /\ noted' = noted + 1
  /\ said' = [said EXCEPT ![k] = r]
  /\ since' = IF sampled
              THEN [x \in Keys |-> IF x = k THEN {} ELSE since[x] \cup {k}]
              ELSE since
  /\ UNCHANGED told

OptionMessage(k, rec) ==
  /\ k \notin HeaderKeys
  /\ Note(k, rec)
  /\ Heard(k, IF SamplingRate(rec) = Silent THEN said[k] ELSE Stated(rec),
           SamplingRate(rec) > 1)

(* parse_v5: the header states the rate in every message, but becomes an   *)
(* option record only when it is a sampled one.                            *)
HeaderMessage(k, rate) ==
  /\ k \in HeaderKeys
  /\ IF rate > 1
     THEN Note(k, [interval |-> rate, sampler |-> 0, every |-> 0,
                   space |-> Absent, size |-> 0, population |-> 0])
     ELSE UNCHANGED samplingVars
  /\ Heard(k, <<rate, 1>>, rate > 1)

Take == /\ changes # <<>>
        /\ told' = [k \in Keys |-> ToldAfter(changes, k)]
        /\ TakeChanges
        /\ UNCHANGED <<noted, said, since>>

Next == \/ \E k \in Keys : \/ \E rec \in OptionRecords : OptionMessage(k, rec)
                           \/ \E rate \in HeaderRates : HeaderMessage(k, rate)
        \/ Take

Spec == Init /\ [][Next]_vars

-----------------------------------------------------------------------------
TypeOK == /\ SamplingTypeOK
          /\ noted \in Nat
          /\ said \in [Keys -> Seq(Nat)]
          /\ since \in [Keys -> SUBSET Keys]
          /\ told \in [Keys -> Nat \ {0}]

(* A domain's answer is the integer nearest to the ratio it last stated,   *)
(* as long as fewer than MaxDomains others stated a sampled rate since;    *)
(* later it may be forgotten, and then counts are never scaled by a guess. *)
(* The exception is a v5 domain that stopped sampling: its headers then    *)
(* say nothing, and the rate they stated before stays.                     *)
AnswerIsLastStated ==
  \A k \in Keys : said[k] # <<>> /\ (k \in HeaderKeys => said[k] # <<1, 1>>) =>
    LET num == said[k][1]
        den == said[k][2]
        off == 2 * (RateFor(k) * den - num)
    IN  \/ off <= den /\ -off <= den
        \/ RateFor(k) = 1 /\ Cardinality(since[k]) >= MaxDomains

(* A consumer that applies the events in order multiplies by the watch's   *)
(* own answer for every domain still remembered and, unless one was        *)
(* forgotten, for every domain; and each event names the answer it ended.  *)
ConsumerAgrees ==
  /\ \A k \in DOMAIN rates : ToldAfter(changes, k) = rates[k]
  /\ ratesEvicted = 0 => \A k \in Keys : ToldAfter(changes, k) = RateFor(k)
  /\ \A i \in 1..Len(changes) :
       LET before == ToldAfter(SubSeq(changes, 1, i - 1), changes[i].key)
       IN  \/ changes[i].previous = before
           \/ changes[i].previous = Silent /\ (before = 1 \/ ratesEvicted > 0)

(* What the domains of an exporter said: the rate each last stated, and    *)
(* the one rate that a set of rates agrees on, or 1.                       *)
RateSaid(k) == Round(said[k][1], said[k][2])
Stating(e) == {k \in Keys : k[1] = e /\ said[k] # <<>>}
Stopped(k) == k \in HeaderKeys /\ said[k] = <<1, 1>>
Agreed(S) == IF Cardinality(S) = 1 THEN CHOOSE r \in S : TRUE ELSE 1

(* Asked of an exporter as a whole, the answer is the rate its sampled     *)
(* domains last stated, when they agree, and 1 when they do not or there   *)
(* are none; a domain may be forgotten in this only when MaxDomains others *)
(* stated a sampled rate since.  So one domain's statement takes no rate   *)
(* from another, and no rate lingers that was replaced or withdrawn.       *)
(* Domains that say they are unsampled do not count: for that see          *)
(* WholeAnswerUnambiguous.  Exporters with a v5 domain that stopped        *)
(* sampling are left to HeaderRateInForce.                                 *)
WholeAnswerIsStated ==
  \A e \in Exporters : (\A k \in Stating(e) : ~Stopped(k)) =>
    \E gone \in SUBSET {k \in Stating(e) : Cardinality(since[k]) >= MaxDomains} :
      RateForExporter(e) = Agreed({RateSaid(k) : k \in Stating(e) \ gone} \ {1})

-----------------------------------------------------------------------------
(* What the documentation says, and the code does not do.                  *)

(* README.md:452-456 and the docstring of rate_for (sampling.py:127-131):  *)
(* the whole-exporter answer is given only when "every domain heard from   *)
(* agrees, or only one has spoken", and is 1 "when they disagree".  A      *)
(* domain that said it samples everything is heard from, and disagrees     *)
(* with one that samples; its statement is kept nowhere.                   *)
WholeAnswerUnambiguous ==
  \A e \in Exporters :
    /\ ratesEvicted = 0 /\ \A k \in Stating(e) : ~Stopped(k)
    /\ Cardinality({RateSaid(k) : k \in Stating(e)}) > 1
    => RateForExporter(e) = 1

(* decoder.py:89 of a message's sampling_rate: "The 1-in-N rate in force   *)
(* for this exporter, 1 if unsampled or unstated".  A v5 header that says  *)
(* unsampled becomes no option record, so the rate of an earlier one stays.*)
HeaderRateInForce == \A k \in HeaderKeys : Stopped(k) => RateFor(k) = 1

(* sampling.py:69: take_events "reports the moments the answer changed".   *)
(* The ceiling of the table drops a rate, which makes the answer 1, and    *)
(* reports nothing.                                                        *)
AnswerChangesTold == \A k \in Keys : ToldAfter(changes, k) = RateFor(k)
=============================================================================
