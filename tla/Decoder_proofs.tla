--------------------------- MODULE Decoder_proofs ---------------------------
(***************************************************************************)
(* That decode() files every datagram once, loses no event uncounted,      *)
(* tells its consumer every layout and rate it works with and keeps        *)
(* counters that add up, whatever the ceilings of the three components and *)
(* of the queue, however many exporters send, and wherever in a datagram   *)
(* decode() gives up.                                                      *)
(***************************************************************************)
EXTENDS Decoder, RecencyOrder_proofs

(* The constants, as the proofs need them.                                 *)
LEMMA Ceilings ==
  /\ MaxTemplates \in Nat \ {0} /\ MaxPending \in Nat
  /\ SeqModulus \in Nat \ {0} /\ ResyncAfter \in Nat \ {0}
  /\ MaxStreams \in Nat \ {0} /\ MaxDomains \in Nat \ {0}
  /\ MaxEvents \in Nat \ {0}
BY DecoderAssumption

(* The components' copies of the table operators are those proved about.   *)
LEMMA StoreOperators ==
  /\ \A s, n : T!Newest(s, n) = Newest(s, n)
  /\ \A s, k : T!MoveToEnd(s, k) = MoveToEnd(s, k)
  /\ \A s : T!ToSet(s) = ToSet(s)
  /\ \A f, k, d : T!Lookup(f, k, d) = Lookup(f, k, d)
BY DEF T!Newest, Newest, T!MoveToEnd, MoveToEnd, T!Without, Without,
       T!RemoveAt, RemoveAt, T!ToSet, ToSet, T!Lookup, Lookup

LEMMA WatchOperators ==
  /\ \A s, n : W!Newest(s, n) = Newest(s, n)
  /\ \A s, k : W!MoveToEnd(s, k) = MoveToEnd(s, k)
  /\ \A s : W!ToSet(s) = ToSet(s)
  /\ \A f, k, d : W!Lookup(f, k, d) = Lookup(f, k, d)
BY DEF W!Newest, Newest, W!MoveToEnd, MoveToEnd, W!Without, Without,
       W!RemoveAt, RemoveAt, W!ToSet, ToSet, W!Lookup, Lookup

LEMMA SamplingOperators ==
  /\ \A s, n : S!Newest(s, n) = Newest(s, n)
  /\ \A s, k : S!MoveToEnd(s, k) = MoveToEnd(s, k)
  /\ \A s, k : S!Without(s, k) = Without(s, k)
  /\ \A s : S!ToSet(s) = ToSet(s)
  /\ \A f, k, d : S!Lookup(f, k, d) = Lookup(f, k, d)
BY DEF S!Newest, Newest, S!MoveToEnd, MoveToEnd, S!Without, Without,
       S!RemoveAt, RemoveAt, S!ToSet, ToSet, S!Lookup, Lookup

-----------------------------------------------------------------------------
(* The template store, as a component.                                     *)
StoreOK == /\ T!StoreTypeOK
           /\ NoRepeats(tOrder) /\ Len(tEvents) <= MaxPending

(* What put() says of a new or changed template.                           *)
News(k, e) == [key |-> k, now |-> e, previous |-> Lookup(held, k, NoEntry)]

(* A put keeps the table a table and accounts for the event it raises: it  *)
(* is pending, or the one it drove out is counted.                         *)
LEMMA PutStore ==
  ASSUME StoreOK, NEW k \in TemplateKeys, NEW e \in T!Entries, T!Put(k, e)
  PROVE  /\ StoreOK'
         /\ DOMAIN held' \subseteq DOMAIN held \cup {k}
         /\ \A x \in DOMAIN held' : held'[x] = IF x = k THEN e ELSE held[x]
         /\ tDropped' >= tDropped /\ learned' >= learned
         /\ tDropped' + Len(tEvents')
              = tDropped + Len(tEvents) + learned' - learned
         /\ \/ k \in DOMAIN held /\ held[k] = e /\ tEvents' = tEvents
            \/ /\ News(k, e) \in T!Event
               /\ tDropped' = tDropped => tEvents' = Append(tEvents, News(k, e))
<1> DEFINE r == MoveToEnd(tOrder, k)
           kept == Newest(r, MaxTemplates)
           old == Lookup(held, k, NoEntry)
<1>1. /\ tOrder \in Seq(TemplateKeys) /\ NoRepeats(tOrder)
      /\ held \in [ToSet(tOrder) -> T!Entries]
      /\ learned \in Nat /\ tEvicted \in Nat /\ tDropped \in Nat
      /\ tEvents \in Seq(T!Event) /\ Len(tEvents) <= MaxPending
      /\ MaxTemplates \in Nat \ {0} /\ MaxPending \in Nat
  BY Ceilings, StoreOperators DEF StoreOK, T!StoreTypeOK
<1>2. /\ tOrder' = kept
      /\ held' = [x \in ToSet(kept) |-> IF x = k THEN e ELSE held[x]]
      /\ tEvicted' = tEvicted + Len(r) - Len(kept)
  BY StoreOperators DEF T!Put, T!Hold, T!Kept
<1>3. r \in Seq(TemplateKeys) /\ NoRepeats(r)
  <2>1. r \in Seq(TemplateKeys)
    BY <1>1, MoveToEndProperties
  <2>2. NoRepeats(r)
    BY <1>1, MoveToEndProperties
  <2>3. QED BY <2>1, <2>2
<1>4. ToSet(r) = ToSet(tOrder) \cup {k}
  BY <1>1, MoveToEndProperties
<1> HIDE DEF r
<1>5. /\ kept \in Seq(TemplateKeys)
      /\ Len(kept) = IF Len(r) > MaxTemplates THEN MaxTemplates ELSE Len(r)
  BY <1>1, <1>3, NewestProperties
<1>6. ToSet(kept) \subseteq ToSet(r)
  BY <1>1, <1>3, NewestProperties
<1>7. NoRepeats(kept)
  BY <1>1, <1>3, NewestProperties
<1> HIDE DEF kept
<1>8. /\ DOMAIN held' = ToSet(kept)
      /\ DOMAIN held' \subseteq DOMAIN held \cup {k}
      /\ \A x \in DOMAIN held' : held'[x] = IF x = k THEN e ELSE held[x]
      /\ held' \in [ToSet(kept) -> T!Entries]
  BY <1>1, <1>2, <1>4, <1>6
<1>9. tEvicted' \in Nat
  BY <1>1, <1>2, <1>3, <1>5
<1>10. CASE old = e /\ UNCHANGED <<learned, tDropped, tEvents>>
  <2>1. k \in DOMAIN held /\ held[k] = e
    BY <1>10, DecoderAssumption DEF Lookup
  <2>2. StoreOK'
    BY <1>1, <1>2, <1>5, <1>7, <1>8, <1>9, <1>10, StoreOperators
       DEF StoreOK, T!StoreTypeOK
  <2>3. QED BY <1>1, <1>8, <1>10, <2>1, <2>2
<1>11. CASE old # e /\ T!Announce(k, e, old)
  <2> DEFINE es == Append(tEvents, News(k, e))
  <2>1. News(k, e) \in T!Event
    <3>1. old \in T!Entries \cup {NoEntry}
      BY <1>1 DEF Lookup
    <3> HIDE DEF old
    <3>2. [key |-> k, now |-> e, previous |-> old] \in T!Event
      BY <3>1 DEF T!Event
    <3>3. QED BY <3>2 DEF News, old
  <2>2. /\ learned' = learned + 1
        /\ tDropped' = IF Len(tEvents) = MaxPending THEN tDropped + 1
                       ELSE tDropped
        /\ tEvents' = Newest(es, MaxPending)
    BY <1>11, StoreOperators DEF T!Announce, News
  <2>3. es \in Seq(T!Event) /\ Len(es) = Len(tEvents) + 1
    BY <1>1, <2>1
  <2> HIDE DEF es
  <2>4. /\ tEvents' \in Seq(T!Event)
        /\ Len(tEvents')
             = IF Len(es) > MaxPending THEN MaxPending ELSE Len(es)
    BY <1>1, <2>2, <2>3, NewestProperties
  <2>5. Len(tEvents) \in Nat /\ Len(tEvents') \in Nat
    BY <1>1, <2>4
  <2>6. /\ learned' \in Nat /\ learned' >= learned /\ tDropped' \in Nat
        /\ tDropped' >= tDropped /\ Len(tEvents') <= MaxPending
        /\ tDropped' + Len(tEvents')
             = tDropped + Len(tEvents) + learned' - learned
    <3> DEFINE n == Len(tEvents)
               m == Len(tEvents')
    <3>1. /\ n \in Nat /\ m \in Nat /\ n <= MaxPending
          /\ m = IF n + 1 > MaxPending THEN MaxPending ELSE n + 1
          /\ tDropped' = IF n = MaxPending THEN tDropped + 1 ELSE tDropped
      BY <1>1, <2>2, <2>3, <2>4, <2>5
    <3> HIDE DEF n, m
    <3>2. /\ m <= MaxPending /\ tDropped' >= tDropped /\ tDropped' \in Nat
          /\ tDropped' + m = tDropped + n + 1
      BY <1>1, <3>1
    <3>3. learned' \in Nat /\ learned' >= learned
      BY <1>1, <2>2
    <3>4. tDropped' + m = tDropped + n + learned' - learned
      BY <1>1, <2>2, <3>1, <3>2
    <3>5. QED BY <3>2, <3>3, <3>4 DEF n, m
  <2>7. tDropped' = tDropped => tEvents' = es
    <3>1. SUFFICES ASSUME tDropped' = tDropped PROVE Newest(es, MaxPending) = es
      BY <2>2
    <3>2. Len(tEvents) # MaxPending
      BY <1>1, <2>2, <3>1
    <3>3. ~(Len(es) > MaxPending)
      BY <1>1, <2>3, <2>5, <3>2
    <3>4. QED BY <3>3 DEF Newest
  <2>8. StoreOK'
    BY <1>1, <1>2, <1>5, <1>7, <1>8, <1>9, <2>4, <2>6, StoreOperators
       DEF StoreOK, T!StoreTypeOK
  <2>9. QED BY <1>8, <2>1, <2>6, <2>7, <2>8 DEF es
<1>12. QED
  BY <1>10, <1>11, StoreOperators DEF T!Put

(* Reading by a template, and handing its events over.                     *)
LEMMA GetStore ==
  ASSUME StoreOK, NEW k \in TemplateKeys, T!Get(k)
  PROVE  StoreOK' /\ UNCHANGED <<held, learned, tDropped, tEvents>>
<1>1. /\ tOrder \in Seq(TemplateKeys) /\ NoRepeats(tOrder)
      /\ held \in [ToSet(tOrder) -> T!Entries]
  BY StoreOperators DEF StoreOK, T!StoreTypeOK
<1>2. /\ UNCHANGED <<held, learned, tEvicted, tDropped, tEvents>>
      /\ tOrder' = IF k \in DOMAIN held THEN MoveToEnd(tOrder, k) ELSE tOrder
  BY StoreOperators DEF T!Get
<1>3. /\ MoveToEnd(tOrder, k) \in Seq(TemplateKeys)
      /\ NoRepeats(MoveToEnd(tOrder, k))
  <2>1. MoveToEnd(tOrder, k) \in Seq(TemplateKeys)
    BY <1>1, MoveToEndProperties
  <2>2. NoRepeats(MoveToEnd(tOrder, k))
    BY <1>1, MoveToEndProperties
  <2>3. QED BY <2>1, <2>2
<1>4. ToSet(MoveToEnd(tOrder, k)) = ToSet(tOrder) \cup {k}
  BY <1>1, MoveToEndProperties
<1>5. tOrder' \in Seq(TemplateKeys) /\ NoRepeats(tOrder')
  BY <1>1, <1>2, <1>3
<1>6. ToSet(tOrder') = ToSet(tOrder)
  BY <1>1, <1>2, <1>4
<1>7. QED
  BY <1>1, <1>2, <1>5, <1>6, StoreOperators DEF StoreOK, T!StoreTypeOK

LEMMA TakeFromStore ==
  ASSUME StoreOK, T!TakeEvents
  PROVE  /\ StoreOK' /\ tEvents' = <<>>
         /\ UNCHANGED <<held, learned, tDropped>>
<1>1. tEvents' = <<>> /\ UNCHANGED <<tOrder, held, learned, tEvicted, tDropped>>
  BY DEF T!TakeEvents
<1>2. tEvents' \in Seq(T!Event) /\ Len(tEvents') = 0
  BY <1>1
<1>3. QED BY <1>1, <1>2, Ceilings, StoreOperators DEF StoreOK, T!StoreTypeOK

-----------------------------------------------------------------------------
(* The sequence watch, as a component.                                     *)
WatchOK == W!WatchTypeOK /\ NoRepeats(wOrder)

LEMMA WatchTypes ==
  ASSUME WatchOK
  PROVE  /\ wOrder \in Seq(Streams) /\ NoRepeats(wOrder)
         /\ streams \in [ToSet(wOrder) -> W!State]
         /\ missed \in [DOMAIN missed -> Nat \ {0}]
         /\ DOMAIN missed \subseteq Streams
         /\ units \in [DOMAIN missed -> W!Units]
         /\ resyncs \in Nat /\ backwards \in Nat /\ wEvicted \in Nat
         /\ warned \in Seq(W!Exporters) /\ gapEvents \in Seq(W!GapEvent)
BY WatchOperators DEF WatchOK, W!WatchTypeOK

LEMMA WatchTyped ==
  ASSUME wOrder' \in Seq(Streams), NoRepeats(wOrder'),
         streams' \in [ToSet(wOrder') -> W!State],
         missed' \in [DOMAIN missed' -> Nat \ {0}],
         DOMAIN missed' \subseteq Streams,
         units' \in [DOMAIN missed' -> W!Units],
         resyncs' \in Nat, backwards' \in Nat, wEvicted' \in Nat,
         warned' \in Seq(W!Exporters), gapEvents' \in Seq(W!GapEvent)
  PROVE  WatchOK'
BY WatchOperators DEF WatchOK, W!WatchTypeOK

(* A stream seen for the first time, and the least recently seen gone.     *)
LEMMA TrackWatch ==
  ASSUME WatchOK, NEW k \in Streams, NEW seq \in 0..(SeqModulus - 1),
         NEW n \in Nat, W!Track(k, seq, n)
  PROVE  /\ WatchOK' /\ gapEvents' = gapEvents
         /\ Lookup(missed', k, 0) = Lookup(missed, k, 0)
<1> DEFINE r == Append(wOrder, k)
           kept == Newest(r, MaxStreams)
           new == [seq |-> seq, records |-> n, mode |-> "unknown",
                   backwards |-> 0]
           now == [x \in DOMAIN streams \cup {k} |->
                     IF x = k THEN new ELSE streams[x]]
<1>1. /\ wOrder \in Seq(Streams) /\ NoRepeats(wOrder)
      /\ streams \in [ToSet(wOrder) -> W!State]
      /\ missed \in [DOMAIN missed -> Nat \ {0}]
      /\ DOMAIN missed \subseteq Streams
      /\ units \in [DOMAIN missed -> W!Units]
      /\ resyncs \in Nat /\ backwards \in Nat /\ wEvicted \in Nat
      /\ warned \in Seq(W!Exporters) /\ gapEvents \in Seq(W!GapEvent)
  BY WatchTypes
<1>2. /\ k \notin ToSet(wOrder) /\ wOrder' = kept
      /\ streams' = W!Keep(now, ToSet(kept))
      /\ missed' = W!Keep(missed, ToSet(kept))
      /\ units' = W!Keep(units, ToSet(kept))
      /\ wEvicted' = wEvicted + Len(wOrder) + 1 - Len(kept)
      /\ warned' = Newest(warned, MaxStreams)
      /\ UNCHANGED <<resyncs, backwards, gapEvents>>
  BY <1>1, WatchOperators DEF W!Track, W!Evict, W!TrimWarned
<1>3. r \in Seq(Streams) /\ Len(r) = Len(wOrder) + 1 /\ r[Len(r)] = k
  BY <1>1
<1>4. ToSet(r) = ToSet(wOrder) \cup {k}
  BY <1>1, AppendKey
<1>5. NoRepeats(r)
  BY <1>1, <1>2, AppendKey
<1> HIDE DEF r
<1>6. /\ kept \in Seq(Streams)
      /\ Len(kept) = IF Len(r) > MaxStreams THEN MaxStreams ELSE Len(r)
  BY <1>3, Ceilings, NewestProperties
<1>7. /\ Len(wOrder) \in Nat /\ Len(r) \in Nat /\ Len(kept) \in Nat \ {0}
      /\ Len(kept) <= Len(wOrder) + 1
  <2> DEFINE p == Len(wOrder)
             q == Len(r)
             m == Len(kept)
  <2>1. p \in Nat /\ q = p + 1
    BY <1>1, <1>3
  <2>2. m = IF q > MaxStreams THEN MaxStreams ELSE q
    BY <1>6
  <2>3. MaxStreams \in Nat \ {0}
    BY Ceilings
  <2> HIDE DEF p, q, m
  <2>4. q \in Nat /\ m \in Nat \ {0} /\ m <= p + 1
    BY <2>1, <2>2, <2>3
  <2>5. QED BY <2>1, <2>4 DEF p, q, m
<1>7a. ToSet(kept) \subseteq ToSet(r)
  BY <1>3, Ceilings, NewestProperties
<1>8. NoRepeats(kept)
  BY <1>3, <1>5, Ceilings, NewestProperties
<1>9. k \in ToSet(kept)
  <2>1. \A i \in 1..Len(kept) : kept[i] = r[i + (Len(r) - Len(kept))]
    BY <1>3, Ceilings, NewestProperties
  <2> HIDE DEF kept
  <2>2. Len(kept) \in 1..Len(kept) /\ Len(kept) + (Len(r) - Len(kept)) = Len(r)
    BY <1>7
  <2>3. kept[Len(kept)] = k
    BY <1>3, <2>1, <2>2
  <2>4. QED BY <1>6, <2>2, <2>3, InToSet
<1> HIDE DEF kept
<1>10. /\ new \in W!State
       /\ ToSet(kept) \subseteq DOMAIN now
  BY <1>1, <1>4, <1>7a DEF W!State, W!Modes
<1> HIDE DEF new
<1>11. streams' \in [ToSet(kept) -> W!State]
  BY <1>1, <1>2, <1>10 DEF W!Keep
<1>12. /\ DOMAIN missed' = DOMAIN missed \cap ToSet(kept)
       /\ \A x \in DOMAIN missed' : missed'[x] = missed[x]
       /\ missed' \in [DOMAIN missed' -> Nat \ {0}]
       /\ units' \in [DOMAIN missed' -> W!Units]
  BY <1>1, <1>2 DEF W!Keep
<1>13. wEvicted' \in Nat
  <2> DEFINE p == Len(wOrder)
             m == Len(kept)
  <2>1. p \in Nat /\ m \in Nat /\ m <= p + 1 /\ wEvicted \in Nat
    BY <1>1, <1>7
  <2>2. wEvicted' = wEvicted + p + 1 - m
    BY <1>2
  <2> HIDE DEF p, m
  <2>3. QED BY <2>1, <2>2
<1>14. warned' \in Seq(W!Exporters)
  BY <1>1, <1>2, Ceilings, NewestProperties
<1>15. WatchOK'
  BY <1>1, <1>2, <1>6, <1>8, <1>11, <1>12, <1>13, <1>14, WatchTyped
<1>16. Lookup(missed', k, 0) = Lookup(missed, k, 0)
  BY <1>9, <1>12 DEF Lookup
<1>17. QED BY <1>2, <1>15, <1>16

LEMMA RememberWatch ==
  ASSUME WatchOK, NEW k \in DOMAIN streams, NEW t \in W!State,
         W!Remember(k, t)
  PROVE  /\ wOrder' \in Seq(Streams) /\ NoRepeats(wOrder')
         /\ streams' \in [ToSet(wOrder') -> W!State]
         /\ wEvicted' = wEvicted
<1>1. /\ wOrder \in Seq(Streams) /\ NoRepeats(wOrder)
      /\ streams \in [ToSet(wOrder) -> W!State] /\ k \in ToSet(wOrder)
      /\ k \in Streams
  BY WatchTypes, InToSet
<1>2. /\ streams' = [streams EXCEPT ![k] = t] /\ wEvicted' = wEvicted
      /\ wOrder' = MoveToEnd(wOrder, k)
  BY WatchOperators DEF W!Remember
<1>3. ToSet(wOrder') = ToSet(wOrder) \cup {k}
  BY <1>1, <1>2, MoveToEndProperties
<1>4. wOrder' \in Seq(Streams)
  BY <1>1, <1>2, MoveToEndProperties
<1>5. NoRepeats(wOrder')
  BY <1>1, <1>2, MoveToEndProperties
<1>6. streams' \in [ToSet(wOrder') -> W!State]
  BY <1>1, <1>2, <1>3
<1>7. QED BY <1>2, <1>4, <1>5, <1>6

(* A message that counts no loss.                                          *)
LEMMA NoLossWatch ==
  ASSUME WatchOK, NEW k \in DOMAIN streams, NEW t \in W!State,
         W!Remember(k, t), UNCHANGED <<missed, units, warned, gapEvents>>,
         resyncs' \in Nat, backwards' \in Nat
  PROVE  WatchOK'
<1>1. /\ wOrder' \in Seq(Streams) /\ NoRepeats(wOrder')
      /\ streams' \in [ToSet(wOrder') -> W!State]
      /\ wEvicted' = wEvicted
  BY RememberWatch
<1>2. /\ missed \in [DOMAIN missed -> Nat \ {0}]
      /\ DOMAIN missed \subseteq Streams
      /\ units \in [DOMAIN missed -> W!Units] /\ wEvicted \in Nat
      /\ warned \in Seq(W!Exporters) /\ gapEvents \in Seq(W!GapEvent)
  BY WatchTypes
<1>3. QED BY <1>1, <1>2, WatchTyped

LEMMA GapWatch ==
  ASSUME WatchOK, NEW k \in Streams, k \in DOMAIN streams,
         NEW seq \in 0..(SeqModulus - 1), NEW n \in Nat, W!Gap(k, seq, n)
  PROVE  /\ WatchOK' /\ GapOf(k) \in Nat
         /\ Len(gapEvents') >= Len(gapEvents)
<1> DEFINE s == streams[k]
           gap == W!GapAt(s, seq)
           unit == W!Unit(s.mode, k[3])
           e == k[1]
           event == [exporter |-> e, stream |-> k, missed |-> gap,
                     unit |-> unit]
<1>1. /\ wOrder \in Seq(Streams) /\ NoRepeats(wOrder)
      /\ streams \in [ToSet(wOrder) -> W!State]
      /\ missed \in [DOMAIN missed -> Nat \ {0}]
      /\ DOMAIN missed \subseteq Streams
      /\ units \in [DOMAIN missed -> W!Units]
      /\ resyncs \in Nat /\ backwards \in Nat /\ wEvicted \in Nat
      /\ warned \in Seq(W!Exporters) /\ gapEvents \in Seq(W!GapEvent)
  BY WatchTypes
<1>2. s \in W!State
  BY <1>1
<1>3. gap \in Nat \ {0}
  <2> DEFINE expected == W!Expected(s)
             half == W!Half
  <2>1. expected \in Int
    BY <1>2, Ceilings DEF W!Expected, W!ByMessages, W!ByRecords, W!State
  <2>2. half \in Int
    BY Ceilings DEF W!Half
  <2> HIDE DEF expected, half
  <2>3. (seq - expected + half) % SeqModulus \in Int
    BY <2>1, <2>2, Ceilings
  <2>4. gap \in Int
    BY <2>2, <2>3 DEF W!GapAt, expected, half
  <2>5. W!IsGap(gap)
    BY DEF W!Gap
  <2> HIDE DEF gap
  <2>6. QED BY <2>4, <2>5 DEF W!IsGap
<1>4. unit \in W!Units
  BY DEF W!Unit, W!Units
<1>5. e \in W!Exporters
  BY DEF W!Exporters
<1>6. /\ W!Remember(k, W!Moved(s, seq, n))
      /\ missed' = [x \in DOMAIN missed \cup {k} |->
                      Lookup(missed, x, 0) + IF x = k THEN gap ELSE 0]
      /\ units' = [x \in DOMAIN units \cup {k} |->
                     IF x = k THEN unit ELSE units[x]]
      /\ UNCHANGED <<resyncs, backwards>>
      /\ \/ UNCHANGED <<warned, gapEvents>>
         \/ warned' = Append(warned, e) /\ gapEvents' = Append(gapEvents, event)
  BY WatchOperators DEF W!Gap, W!AnnounceOnce
<1>7. W!Moved(s, seq, n) \in W!State
  BY <1>2 DEF W!Moved, W!State
<1>8. /\ wOrder' \in Seq(Streams) /\ NoRepeats(wOrder')
      /\ streams' \in [ToSet(wOrder') -> W!State]
      /\ wEvicted' = wEvicted
  BY <1>6, <1>7, RememberWatch
<1> HIDE DEF s, gap, unit, e
<1>9. event \in W!GapEvent
  BY <1>3, <1>4, <1>5 DEF W!GapEvent
<1> HIDE DEF event
<1>10. /\ warned' \in Seq(W!Exporters) /\ gapEvents' \in Seq(W!GapEvent)
       /\ Len(gapEvents') >= Len(gapEvents)
  <2>1. CASE UNCHANGED <<warned, gapEvents>>
    BY <1>1, <2>1
  <2>2. CASE warned' = Append(warned, e) /\ gapEvents' = Append(gapEvents, event)
    <3>1. warned' \in Seq(W!Exporters)
      BY <1>1, <1>5, <2>2
    <3>2. /\ gapEvents' \in Seq(W!GapEvent)
          /\ Len(gapEvents') = Len(gapEvents) + 1
      BY <1>1, <1>9, <2>2
    <3>3. QED BY <1>1, <3>1, <3>2
  <2>3. QED BY <1>6, <2>1, <2>2 DEF event
<1>11. /\ DOMAIN missed' = DOMAIN missed \cup {k}
       /\ DOMAIN units' = DOMAIN missed'
       /\ DOMAIN missed' \subseteq Streams
  BY <1>1, <1>6
<1>12. missed' \in [DOMAIN missed' -> Nat \ {0}]
  <2>1. \A x \in DOMAIN missed' : Lookup(missed, x, 0) \in Nat
    BY <1>1 DEF Lookup
  <2>2. \A x \in DOMAIN missed' : missed'[x] \in Nat \ {0}
    <3>1. SUFFICES ASSUME NEW x \in DOMAIN missed'
                   PROVE  missed'[x] \in Nat \ {0}
      OBVIOUS
    <3>2. missed'[x] = Lookup(missed, x, 0) + IF x = k THEN gap ELSE 0
      BY <1>6, <1>11
    <3>3. CASE x = k
      BY <1>3, <2>1, <3>2, <3>3
    <3>4. CASE x # k
      <4>1. x \in DOMAIN missed
        BY <1>11, <3>4
      <4>2. Lookup(missed, x, 0) \in Nat \ {0}
        BY <1>1, <4>1 DEF Lookup
      <4>3. QED BY <3>2, <3>4, <4>2
    <3>5. QED BY <3>3, <3>4
  <2>3. QED BY <1>6, <2>2
<1>13. units' \in [DOMAIN missed' -> W!Units]
  BY <1>1, <1>4, <1>6, <1>11
<1>14. WatchOK'
  BY <1>1, <1>6, <1>8, <1>10, <1>11, <1>12, <1>13, WatchTyped
<1>15. GapOf(k) \in Nat
  <2>1. Lookup(missed, k, 0) \in Nat
    BY <1>1 DEF Lookup
  <2>2. Lookup(missed', k, 0) = Lookup(missed, k, 0) + gap
    BY <1>6, <1>11 DEF Lookup
  <2>3. QED BY <1>3, <2>1, <2>2 DEF GapOf
<1>16. QED BY <1>10, <1>14, <1>15

(* Whatever a message says, the watch stays one, and counts no loss below  *)
(* what it had counted.                                                    *)
LEMMA ObserveWatch ==
  ASSUME WatchOK, NEW k \in Streams, NEW seq \in 0..(SeqModulus - 1),
         NEW n \in Nat, W!Observe(k, seq, n)
  PROVE  /\ WatchOK' /\ GapOf(k) \in Nat
         /\ Len(gapEvents') >= Len(gapEvents)
<1>1. /\ streams \in [ToSet(wOrder) -> W!State] /\ resyncs \in Nat
      /\ backwards \in Nat /\ gapEvents \in Seq(W!GapEvent)
      /\ missed \in [DOMAIN missed -> Nat \ {0}]
  BY WatchTypes
<1>2. Lookup(missed, k, 0) \in Nat /\ Len(gapEvents) \in Nat
  BY <1>1 DEF Lookup
<1>3. CASE W!Track(k, seq, n)
  BY <1>2, <1>3, TrackWatch DEF GapOf
<1>4. CASE k \in DOMAIN streams /\ \/ W!Learn(k, seq, n) \/ W!Late(k, seq)
                                   \/ W!Resync(k, seq, n) \/ W!InStep(k, seq, n)
  <2>1. PICK t \in W!State :
          /\ W!Remember(k, t) /\ UNCHANGED <<missed, units, warned, gapEvents>>
          /\ resyncs' \in Nat /\ backwards' \in Nat
    <3> DEFINE s == streams[k]
    <3>1. s \in W!State
      BY <1>1, <1>4
    <3>2. W!Moved(s, seq, n) \in W!State
      BY <3>1 DEF W!Moved, W!State
    <3>3. W!HeldBack(s, seq) \in W!State
      BY <3>1 DEF W!HeldBack, W!State
    <3>4. \A mode \in W!Modes :
            [s EXCEPT !.seq = seq, !.records = n, !.mode = mode] \in W!State
      BY <3>1 DEF W!State
    <3>5. {"unknown", "messages", "records"} \subseteq W!Modes
      BY DEF W!Modes
    <3> HIDE DEF s
    <3>6. CASE W!Learn(k, seq, n)
      BY <1>1, <3>4, <3>5, <3>6 DEF W!Learn, s
    <3>7. CASE W!Late(k, seq)
      BY <1>1, <3>3, <3>7 DEF W!Late, s
    <3>8. CASE W!Resync(k, seq, n)
      BY <1>1, <3>2, <3>8 DEF W!Resync, s
    <3>9. CASE W!InStep(k, seq, n)
      BY <1>1, <3>2, <3>9 DEF W!InStep, s
    <3>10. QED BY <1>4, <3>6, <3>7, <3>8, <3>9
  <2>2. WatchOK'
    BY <1>4, <2>1, NoLossWatch
  <2>3. GapOf(k) = 0 /\ gapEvents' = gapEvents
    BY <1>2, <2>1 DEF GapOf
  <2>4. QED BY <1>2, <2>2, <2>3
<1>5. CASE k \in DOMAIN streams /\ W!Gap(k, seq, n)
  BY <1>5, GapWatch
<1>6. QED BY <1>3, <1>4, <1>5 DEF W!Observe

LEMMA TakeFromWatch ==
  ASSUME WatchOK, W!TakeGapEvents
  PROVE  WatchOK' /\ gapEvents' = <<>>
<1>1. /\ gapEvents' = <<>>
      /\ UNCHANGED <<wOrder, streams, missed, units, resyncs, backwards,
                     wEvicted, warned>>
  BY DEF W!TakeGapEvents, W!counters
<1>2. gapEvents' \in Seq(W!GapEvent)
  BY <1>1
<1>3. QED BY <1>1, <1>2, WatchTypes, WatchTyped

-----------------------------------------------------------------------------
(* The sampling watch, as a component.                                     *)
SamplingOK == S!SamplingTypeOK /\ NoRepeats(sOrder)

LEMMA RateIsNat ==
  ASSUME NEW rec \in S!OptionRecord PROVE S!SamplingRate(rec) \in Nat
<1>1. /\ rec.interval \in Nat /\ rec.sampler \in Nat /\ rec.every \in Nat
      /\ rec.space \in Nat \cup {-1} /\ rec.size \in Nat
      /\ rec.population \in Nat
  BY DEF S!OptionRecord, S!Absent
<1>2. ASSUME NEW a \in Nat, NEW b \in Nat \ {0} PROVE S!Round(a, b) \in Nat
  <2>1. a \div b \in Nat
    BY SMT
  <2>2. QED BY <2>1 DEF S!Round
<1>3. CASE rec.interval > 0 \/ rec.sampler > 0
  BY <1>1, <1>3 DEF S!SamplingRate
<1>4. CASE /\ rec.interval = 0 /\ rec.sampler = 0
           /\ rec.every > 0 /\ rec.space # -1
  <2>1. S!SamplingRate(rec) = S!Round(rec.every + rec.space, rec.every)
    BY <1>1, <1>4 DEF S!SamplingRate, S!RateOfSpacing, S!Absent
  <2>2. rec.every + rec.space \in Nat /\ rec.every \in Nat \ {0}
    BY <1>1, <1>4
  <2>3. QED BY <1>2, <2>1, <2>2
<1>5. CASE /\ rec.interval = 0 /\ rec.sampler = 0
           /\ ~(rec.every > 0 /\ rec.space # -1)
  <2>1. S!SamplingRate(rec) =
          IF rec.size > 0 /\ rec.population >= rec.size
          THEN S!Round(rec.population, rec.size) ELSE 0
    BY <1>1, <1>5 DEF S!SamplingRate, S!Absent, S!Silent
  <2>2. CASE rec.size > 0
    BY <1>1, <1>2, <2>1, <2>2
  <2>3. CASE ~(rec.size > 0)
    BY <2>1, <2>3
  <2>4. QED BY <2>2, <2>3
<1>6. QED BY <1>1, <1>3, <1>4, <1>5

LEMMA SamplingTypes ==
  ASSUME SamplingOK
  PROVE  /\ sOrder \in Seq(S!Keys) /\ NoRepeats(sOrder)
         /\ rates \in [ToSet(sOrder) -> Nat \ {0, 1}]
         /\ sEvicted \in Nat /\ changes \in Seq(S!Change)
BY SamplingOperators DEF SamplingOK, S!SamplingTypeOK

LEMMA SamplingTyped ==
  ASSUME sOrder' \in Seq(S!Keys), NoRepeats(sOrder'),
         rates' \in [ToSet(sOrder') -> Nat \ {0, 1}],
         sEvicted' \in Nat, changes' \in Seq(S!Change)
  PROVE  SamplingOK'
BY SamplingOperators DEF SamplingOK, S!SamplingTypeOK

(* What a record changes: the rate of k, and no other.                     *)
RateIsTold(k) ==
  \/ /\ changes' = changes
     /\ \A x \in DOMAIN rates' : x \in DOMAIN rates /\ rates'[x] = rates[x]
  \/ \E c \in S!Change :
       /\ c.key = k /\ changes' = Append(changes, c)
       /\ \A x \in DOMAIN rates' :
            IF x = k THEN rates'[x] = c.rate
            ELSE x \in DOMAIN rates /\ rates'[x] = rates[x]

LEMMA UnsampledRate ==
  ASSUME SamplingOK, NEW k \in S!Keys, S!NoteUnsampled(k)
  PROVE  SamplingOK' /\ RateIsTold(k)
<1>1. /\ sOrder \in Seq(S!Keys) /\ NoRepeats(sOrder)
      /\ rates \in [ToSet(sOrder) -> Nat \ {0, 1}]
      /\ sEvicted \in Nat /\ changes \in Seq(S!Change)
  BY SamplingTypes
<1>2. /\ sOrder' = Without(sOrder, k) /\ sEvicted' = sEvicted
      /\ rates' = [x \in DOMAIN rates \ {k} |-> rates[x]]
  BY SamplingOperators DEF S!NoteUnsampled
<1>3. sOrder' \in Seq(S!Keys)
  BY <1>1, <1>2, WithoutProperties
<1>4. NoRepeats(sOrder')
  BY <1>1, <1>2, WithoutProperties
<1>5. ToSet(sOrder') = ToSet(sOrder) \ {k}
  BY <1>1, <1>2, WithoutProperties
<1>6. rates' \in [ToSet(sOrder') -> Nat \ {0, 1}]
  BY <1>1, <1>2, <1>5
<1>7. \A x \in DOMAIN rates' :
        x # k /\ x \in DOMAIN rates /\ rates'[x] = rates[x]
  BY <1>2
<1>8. CASE k \in DOMAIN rates
  <2> DEFINE c == [key |-> k, rate |-> 1, previous |-> rates[k]]
  <2>1. changes' = Append(changes, c)
    BY <1>8 DEF S!NoteUnsampled, S!Report
  <2>2. c \in S!Change /\ c.key = k
    <3>1. rates[k] \in Nat \ {1}
      BY <1>1, <1>8
    <3>2. QED BY <3>1 DEF S!Change
  <2> HIDE DEF c
  <2>3. changes' \in Seq(S!Change)
    BY <1>1, <2>1, <2>2
  <2>4. SamplingOK'
    BY <1>1, <1>2, <1>3, <1>4, <1>6, <2>3, SamplingTyped
  <2>5. QED BY <1>7, <2>1, <2>2, <2>4 DEF RateIsTold
<1>9. CASE k \notin DOMAIN rates
  <2>1. changes' = changes
    BY <1>9 DEF S!NoteUnsampled
  <2>2. SamplingOK'
    BY <1>1, <1>2, <1>3, <1>4, <1>6, <2>1, SamplingTyped
  <2>3. QED BY <1>7, <2>1, <2>2 DEF RateIsTold
<1>10. QED BY <1>8, <1>9

LEMMA RepeatedRate ==
  ASSUME SamplingOK, NEW k \in S!Keys, k \in DOMAIN rates,
         S!NoteRepeated(k)
  PROVE  SamplingOK' /\ RateIsTold(k)
<1>1. /\ sOrder \in Seq(S!Keys) /\ NoRepeats(sOrder)
      /\ rates \in [ToSet(sOrder) -> Nat \ {0, 1}]
      /\ sEvicted \in Nat /\ changes \in Seq(S!Change)
  BY SamplingTypes
<1>2. /\ sOrder' = MoveToEnd(sOrder, k)
      /\ UNCHANGED <<rates, sEvicted, changes>>
  BY SamplingOperators DEF S!NoteRepeated
<1>3. sOrder' \in Seq(S!Keys)
  BY <1>1, <1>2, MoveToEndProperties
<1>4. NoRepeats(sOrder')
  BY <1>1, <1>2, MoveToEndProperties
<1>5. ToSet(sOrder') = ToSet(sOrder) \cup {k}
  BY <1>1, <1>2, MoveToEndProperties
<1>6. rates' \in [ToSet(sOrder') -> Nat \ {0, 1}]
  BY <1>1, <1>2, <1>5
<1>7. SamplingOK'
  BY <1>1, <1>2, <1>3, <1>4, <1>6, SamplingTyped
<1>8. QED BY <1>2, <1>7 DEF RateIsTold

LEMMA ChangedRate ==
  ASSUME SamplingOK, NEW k \in S!Keys, NEW rate \in Nat \ {0, 1},
         S!NoteChanged(k, rate)
  PROVE  SamplingOK' /\ RateIsTold(k)
<1> DEFINE r == MoveToEnd(sOrder, k)
           kept == Newest(r, MaxDomains)
           c == [key |-> k, rate |-> rate, previous |-> Lookup(rates, k, 0)]
<1>1. /\ sOrder \in Seq(S!Keys) /\ NoRepeats(sOrder)
      /\ rates \in [ToSet(sOrder) -> Nat \ {0, 1}]
      /\ sEvicted \in Nat /\ changes \in Seq(S!Change)
  BY SamplingTypes
<1>2. /\ sOrder' = kept
      /\ rates' = [x \in ToSet(kept) |-> IF x = k THEN rate ELSE rates[x]]
      /\ sEvicted' = sEvicted + Len(r) - Len(kept)
      /\ changes' = Append(changes, c)
  BY SamplingOperators DEF S!NoteChanged, S!Report, S!Silent
<1>3. r \in Seq(S!Keys)
  BY <1>1, MoveToEndProperties
<1>4. NoRepeats(r)
  BY <1>1, MoveToEndProperties
<1>5. ToSet(r) = ToSet(sOrder) \cup {k}
  BY <1>1, MoveToEndProperties
<1> HIDE DEF r
<1>6. /\ kept \in Seq(S!Keys)
      /\ Len(kept) = IF Len(r) > MaxDomains THEN MaxDomains ELSE Len(r)
  BY <1>3, Ceilings, NewestProperties
<1>7. ToSet(kept) \subseteq ToSet(r)
  BY <1>3, Ceilings, NewestProperties
<1>8. NoRepeats(kept)
  BY <1>3, <1>4, Ceilings, NewestProperties
<1> HIDE DEF kept
<1>9. rates' \in [ToSet(kept) -> Nat \ {0, 1}]
  BY <1>1, <1>2, <1>5, <1>7
<1>10. sEvicted' \in Nat
  <2> DEFINE n == Len(r)
             m == Len(kept)
  <2>1. n \in Nat /\ m = (IF n > MaxDomains THEN MaxDomains ELSE n)
    BY <1>3, <1>6
  <2>2. sEvicted' = sEvicted + n - m /\ sEvicted \in Nat
    BY <1>1, <1>2
  <2> HIDE DEF n, m
  <2>3. QED BY <2>1, <2>2, Ceilings
<1>11. c \in S!Change /\ c.key = k /\ c.rate = rate
  <2>1. Lookup(rates, k, 0) \in Nat \ {1}
    BY <1>1 DEF Lookup
  <2>2. QED BY <2>1 DEF S!Change
<1> HIDE DEF c
<1>12. changes' \in Seq(S!Change)
  BY <1>1, <1>2, <1>11
<1>13. SamplingOK'
  BY <1>2, <1>6, <1>8, <1>9, <1>10, <1>12, SamplingTyped
<1>14. \A x \in DOMAIN rates' :
         IF x = k THEN rates'[x] = rate
         ELSE x \in DOMAIN rates /\ rates'[x] = rates[x]
  BY <1>1, <1>2, <1>5, <1>7
<1>15. QED BY <1>2, <1>11, <1>13, <1>14 DEF RateIsTold

LEMMA NoteSampling ==
  ASSUME SamplingOK, NEW k \in S!Keys, NEW rec \in S!OptionRecord,
         S!Note(k, rec)
  PROVE  SamplingOK' /\ RateIsTold(k)
<1> DEFINE rate == S!SamplingRate(rec)
<1>1. rate \in Nat
  BY RateIsNat
<1>2. CASE rate = S!Silent /\ UNCHANGED S!samplingVars
  <2>1. UNCHANGED <<sOrder, rates, sEvicted, changes>>
    BY <1>2 DEF S!samplingVars
  <2>2. SamplingOK'
    BY <2>1, SamplingTypes, SamplingTyped
  <2>3. QED BY <2>1, <2>2 DEF RateIsTold
<1>3. CASE rate = 1 /\ S!NoteUnsampled(k)
  BY <1>3, UnsampledRate
<1>4. CASE rate > 1 /\ S!Lookup(rates, k, S!Silent) = rate /\ S!NoteRepeated(k)
  <2>1. k \in DOMAIN rates
    BY <1>1, <1>4, SamplingOperators DEF Lookup, S!Silent
  <2>2. QED BY <1>4, <2>1, RepeatedRate
<1>5. CASE rate > 1 /\ S!NoteChanged(k, rate)
  <2>1. rate \in Nat \ {0, 1}
    BY <1>1, <1>5
  <2>2. QED BY <1>5, <2>1, ChangedRate
<1>6. QED BY <1>2, <1>3, <1>4, <1>5 DEF S!Note

LEMMA TakeFromSampling ==
  ASSUME SamplingOK, S!TakeChanges
  PROVE  SamplingOK' /\ changes' = <<>> /\ rates' = rates
<1>1. changes' = <<>> /\ UNCHANGED <<sOrder, rates, sEvicted>>
  BY DEF S!TakeChanges
<1>2. changes' \in Seq(S!Change)
  BY <1>1
<1>3. QED BY <1>1, <1>2, SamplingTypes, SamplingTyped

-----------------------------------------------------------------------------
(* The queue holds the events of all the components.                       *)
ErrorEvent == [exporter : Exporters,
               reason : {"short", "unsupported", "malformed"}]
Item == [kind : {"template"}, event : T!Event]
        \cup [kind : {"gap"}, event : W!GapEvent]
        \cup [kind : {"sampling"}, event : S!Change]
        \cup [kind : {"error"}, event : ErrorEvent]

QueueOK == /\ queue \in Seq(Item) /\ Len(queue) <= MaxEvents
           /\ stats \in [Counters -> Nat]

LEMMA CountAdds ==
  ASSUME stats \in [Counters -> Nat], NEW amounts,
         \A c \in DOMAIN amounts : amounts[c] \in Nat, Count(amounts)
  PROVE  /\ stats' \in [Counters -> Nat]
         /\ \A c \in Counters : stats'[c] = stats[c] + Lookup(amounts, c, 0)
<1>1. \A c : Lookup(amounts, c, 0) \in Nat
  BY DEF Lookup
<1>2. stats' = [c \in Counters |-> stats[c] + Lookup(amounts, c, 0)]
  BY DEF Count
<1> HIDE DEF Counters
<1>3. \A c \in Counters : stats[c] + Lookup(amounts, c, 0) \in Nat
  BY <1>1
<1>4. QED BY <1>2, <1>3

(* What goes in comes out of the queue's end or is counted as dropped, and *)
(* while nothing was dropped the queue is what was put in, in order.       *)
LEMMA QueueStep ==
  ASSUME QueueOK, NEW es \in Seq(Item), NEW amounts,
         \A c \in DOMAIN amounts : amounts[c] \in Nat, Queue(es, amounts)
  PROVE  /\ QueueOK'
         /\ \A c \in Counters \ {"events_dropped"} :
              stats'[c] = stats[c] + Lookup(amounts, c, 0)
         /\ stats'["events_dropped"] >= stats["events_dropped"]
         /\ stats'["events_dropped"] + Len(queue')
              = stats["events_dropped"] + Len(queue) + Len(es)
         /\ stats'["events_dropped"] = stats["events_dropped"] =>
              queue' = queue \o es
<1> DEFINE all == queue \o es
           over == Len(queue) + Len(es) - MaxEvents
           lost == IF over > 0 THEN over ELSE 0
           sums == And(amounts, "events_dropped", lost)
<1>1. /\ queue \in Seq(Item) /\ Len(queue) <= MaxEvents
      /\ stats \in [Counters -> Nat] /\ MaxEvents \in Nat \ {0}
  BY Ceilings DEF QueueOK
<1>2. queue' = Newest(all, MaxEvents) /\ Count(sums)
  BY DEF Queue
<1>3. all \in Seq(Item) /\ Len(all) = Len(queue) + Len(es)
  BY <1>1
<1>4. Len(queue) \in Nat /\ Len(es) \in Nat /\ lost \in Nat
  BY <1>1
<1> HIDE DEF all
<1>5. /\ queue' \in Seq(Item)
      /\ Len(queue') = IF Len(all) > MaxEvents THEN MaxEvents ELSE Len(all)
  BY <1>1, <1>2, <1>3, NewestProperties
<1>6. Len(queue') <= MaxEvents /\ Len(queue') + lost = Len(queue) + Len(es)
  <2> DEFINE n == Len(queue)
             m == Len(es)
             z == Len(queue')
  <2>1. /\ n \in Nat /\ m \in Nat
        /\ z = IF n + m > MaxEvents THEN MaxEvents ELSE n + m
        /\ lost = IF n + m - MaxEvents > 0 THEN n + m - MaxEvents ELSE 0
    BY <1>3, <1>4, <1>5
  <2> HIDE DEF n, m, z, over, lost
  <2>2. z <= MaxEvents /\ z + lost = n + m
    BY <1>1, <2>1
  <2>3. QED BY <2>2 DEF n, m, z
<1>7. lost = 0 => queue' = all
  BY <1>1, <1>2, <1>3, <1>4 DEF Newest
<1> HIDE DEF over, lost
<1>8. /\ sums["events_dropped"] = lost
      /\ DOMAIN sums = {"events_dropped"} \cup DOMAIN amounts
      /\ \A c \in DOMAIN amounts \ {"events_dropped"} : sums[c] = amounts[c]
  BY DEF And
<1> HIDE DEF sums
<1>9. \A c \in DOMAIN sums : sums[c] \in Nat
  BY <1>4, <1>8
<1>10. /\ stats' \in [Counters -> Nat]
       /\ \A c \in Counters : stats'[c] = stats[c] + Lookup(sums, c, 0)
  BY <1>1, <1>2, <1>9, CountAdds
<1>11. "events_dropped" \in Counters
  BY DEF Counters
<1>12. stats'["events_dropped"] = stats["events_dropped"] + lost
  BY <1>8, <1>10, <1>11 DEF Lookup
<1>13. \A c \in Counters \ {"events_dropped"} :
         stats'[c] = stats[c] + Lookup(amounts, c, 0)
  BY <1>8, <1>10 DEF Lookup
<1>14. QueueOK'
  BY <1>5, <1>6, <1>10 DEF QueueOK
<1>15. /\ stats["events_dropped"] \in Nat /\ Len(queue') \in Nat
  BY <1>1, <1>5, <1>11
<1>16. /\ stats'["events_dropped"] >= stats["events_dropped"]
       /\ stats'["events_dropped"] + Len(queue')
            = stats["events_dropped"] + Len(queue) + Len(es)
       /\ stats'["events_dropped"] = stats["events_dropped"] => lost = 0
  <2> DEFINE n == Len(queue)
             m == Len(es)
             z == Len(queue')
             d == stats["events_dropped"]
             w == stats'["events_dropped"]
  <2>1. /\ n \in Nat /\ m \in Nat /\ z \in Nat /\ d \in Nat /\ lost \in Nat
        /\ z + lost = n + m /\ w = d + lost
    BY <1>4, <1>6, <1>12, <1>15
  <2> HIDE DEF n, m, z, d, w
  <2>2. w >= d /\ w + z = d + n + m /\ (w = d => lost = 0)
    BY <2>1
  <2>3. QED BY <2>2 DEF n, m, z, d, w
<1>17. QED BY <1>7, <1>13, <1>14, <1>16 DEF all

-----------------------------------------------------------------------------
(* Events of a component, as items of the queue.                           *)
LEMMA TaggedEvents ==
  ASSUME NEW E, NEW es \in Seq(E), NEW kind,
         [kind : {kind}, event : E] \subseteq Item
  PROVE  /\ Tagged(kind, es) \in Seq(Item)
         /\ Len(Tagged(kind, es)) = Len(es)
         /\ \A i \in 1..Len(es) :
              Tagged(kind, es)[i] = [kind |-> kind, event |-> es[i]]
<1> DEFINE t == Tagged(kind, es)
<1>1. t = [i \in 1..Len(es) |-> [kind |-> kind, event |-> es[i]]]
  BY DEF Tagged
<1>2. Len(es) \in Nat /\ \A i \in 1..Len(es) : es[i] \in E
  OBVIOUS
<1>3. \A i \in 1..Len(es) : [kind |-> kind, event |-> es[i]] \in Item
  BY <1>2
<1> HIDE DEF Item, t
<1>4. t \in [1..Len(es) -> Item]
  BY <1>1, <1>3
<1>5. t \in Seq(Item) /\ Len(t) = Len(es)
  <2> DEFINE n == Len(es)
  <2>1. n \in Nat /\ t \in [1..n -> Item]
    BY <1>2, <1>4
  <2> HIDE DEF n
  <2>2. t \in Seq(Item) /\ Len(t) = n
    BY <2>1
  <2>3. QED BY <2>2 DEF n
<1>6. QED BY <1>1, <1>5 DEF t

LEMMA TaggedOneMore ==
  ASSUME NEW E, NEW es \in Seq(E), NEW e \in E, NEW kind,
         [kind : {kind}, event : E] \subseteq Item
  PROVE  Tagged(kind, Append(es, e))
           = Append(Tagged(kind, es), [kind |-> kind, event |-> e])
<1> DEFINE fs == Append(es, e)
           n == Len(es)
           t == Tagged(kind, es)
           u == Tagged(kind, fs)
           item == [kind |-> kind, event |-> e]
           v == Append(t, item)
<1>1. item \in Item
  OBVIOUS
<1>2. n \in Nat /\ fs \in Seq(E) /\ Len(fs) = n + 1 /\ fs[n + 1] = e
      /\ \A i \in 1..n : fs[i] = es[i]
  OBVIOUS
<1> HIDE DEF fs, Item
<1>3. t \in Seq(Item) /\ Len(t) = n
  BY TaggedEvents
<1>4. \A i \in 1..n : t[i] = [kind |-> kind, event |-> es[i]]
  BY TaggedEvents
<1>5. u \in Seq(Item) /\ Len(u) = Len(fs)
  BY <1>2, TaggedEvents
<1>6. \A i \in 1..Len(fs) : u[i] = [kind |-> kind, event |-> fs[i]]
  BY <1>2, TaggedEvents
<1> HIDE DEF t, u, n, item
<1>7. /\ v \in Seq(Item) /\ Len(v) = n + 1 /\ v[n + 1] = item
      /\ \A i \in 1..n : v[i] = t[i]
  BY <1>1, <1>3
<1> HIDE DEF v
<1>8. ASSUME NEW i \in 1..(n + 1) PROVE u[i] = v[i]
  <2>1. u[i] = [kind |-> kind, event |-> fs[i]]
    BY <1>2, <1>6
  <2>2. CASE i = n + 1
    BY <1>2, <1>7, <2>1, <2>2 DEF item
  <2>3. CASE i \in 1..n
    BY <1>2, <1>4, <1>7, <2>1, <2>3
  <2>4. QED BY <1>2, <2>2, <2>3
<1>9. u = v
  BY <1>2, <1>5, <1>7, <1>8, SeqEqual
<1>10. QED BY <1>9 DEF u, v, t, fs, item

LEMMA KindsOfItems ==
  /\ [kind : {"template"}, event : T!Event] \subseteq Item
  /\ [kind : {"gap"}, event : W!GapEvent] \subseteq Item
  /\ [kind : {"sampling"}, event : S!Change] \subseteq Item
  /\ [kind : {"error"}, event : ErrorEvent] \subseteq Item
  /\ \A x \in Item : x.kind = "template" => x.event \in T!Event
  /\ \A x \in Item : x.kind = "sampling" => x.event \in S!Change
BY DEF Item

(* Nothing tagged is nothing, and an event at the end of the second of two *)
(* sequences is at the end of both.                                        *)
LEMMA NoneTagged == ASSUME NEW kind PROVE Tagged(kind, <<>>) = <<>>
<1>1. \A i \in 1..0 : FALSE
  OBVIOUS
<1>2. [i \in 1..0 |-> [kind |-> kind, event |-> <<>>[i]]] \in [1..0 -> Item]
  BY <1>1
<1>3. Tagged(kind, <<>>) \in Seq(Item) /\ Len(Tagged(kind, <<>>)) = 0
  BY <1>2 DEF Tagged
<1>4. QED BY <1>3, EmptySeq

LEMMA AppendAtTheEnd ==
  ASSUME NEW R, NEW s \in Seq(R), NEW t \in Seq(R), NEW x \in R
  PROVE  s \o Append(t, x) = Append(s \o t, x) /\ s \o <<>> = s
<1> DEFINE tx == Append(t, x)
           st == s \o t
           u == s \o tx
           v == Append(st, x)
           n == Len(s)
           m == Len(t)
<1>1. n \in Nat /\ m \in Nat
  OBVIOUS
<1>2. /\ tx \in Seq(R) /\ Len(tx) = m + 1 /\ tx[m + 1] = x
      /\ \A i \in 1..m : tx[i] = t[i]
  OBVIOUS
<1>3. /\ st \in Seq(R) /\ Len(st) = n + m
      /\ \A i \in 1..(n + m) : st[i] = IF i <= n THEN s[i] ELSE t[i - n]
  BY ConcatProperties
<1> HIDE DEF tx, st
<1>4. /\ u \in Seq(R) /\ Len(u) = n + m + 1
      /\ \A i \in 1..(n + m + 1) : u[i] = IF i <= n THEN s[i] ELSE tx[i - n]
  <2>1. /\ u \in Seq(R) /\ Len(u) = n + Len(tx)
        /\ \A i \in 1..(n + Len(tx)) :
             u[i] = IF i <= n THEN s[i] ELSE tx[i - n]
    BY <1>2, ConcatProperties
  <2> HIDE DEF u, n, m
  <2>2. n + Len(tx) = n + m + 1
    BY <1>1, <1>2
  <2>3. QED BY <2>1, <2>2
<1>5. /\ v \in Seq(R) /\ Len(v) = n + m + 1 /\ v[n + m + 1] = x
      /\ \A i \in 1..(n + m) : v[i] = st[i]
  BY <1>3
<1> HIDE DEF u, v, n, m
<1>6. ASSUME NEW i \in 1..(n + m + 1) PROVE u[i] = v[i]
  <2>1. u[i] = IF i <= n THEN s[i] ELSE tx[i - n]
    BY <1>1, <1>4
  <2>2. CASE i <= n
    <3>1. i \in 1..(n + m)
      BY <1>1, <2>2
    <3>2. v[i] = st[i] /\ st[i] = s[i]
      BY <1>3, <1>5, <2>2, <3>1
    <3>3. QED BY <2>1, <2>2, <3>2
  <2>3. CASE i > n /\ i <= n + m
    <3>1. i - n \in 1..m /\ i \in 1..(n + m) /\ ~(i <= n)
      BY <1>1, <2>3
    <3>2. v[i] = st[i] /\ st[i] = t[i - n]
      BY <1>3, <1>5, <3>1
    <3>3. tx[i - n] = t[i - n]
      BY <1>2, <3>1
    <3>4. QED BY <2>1, <3>1, <3>2, <3>3
  <2>4. CASE i = n + m + 1
    <3>1. i - n = m + 1 /\ ~(i <= n)
      BY <1>1, <2>4
    <3>2. u[i] = x
      BY <1>2, <2>1, <3>1
    <3>3. QED BY <1>5, <2>4, <3>2
  <2>5. QED BY <1>1, <2>2, <2>3, <2>4
<1>7. u = v
  BY <1>1, <1>4, <1>5, <1>6, SeqEqual
<1>8. s \o <<>> = s
  OBVIOUS
<1>9. QED BY <1>7, <1>8 DEF u, v, tx, st

-----------------------------------------------------------------------------
(* The last of the events of one kind about k, if any, is what counts.     *)
Telling(es, kind, k) ==
  {i \in 1..Len(es) : es[i].kind = kind /\ es[i].event.key = k}
LastOf(A) == CHOOSE i \in A : \A j \in A : j <= i

LEMMA Told ==
  ASSUME NEW es, NEW k, NEW known
  PROVE  /\ LayoutAfter(es, k, known) =
              IF Telling(es, "template", k) = {} THEN known
              ELSE es[LastOf(Telling(es, "template", k))].event.now
         /\ RateAfter(es, k, known) =
              IF Telling(es, "sampling", k) = {} THEN known
              ELSE es[LastOf(Telling(es, "sampling", k))].event.rate
BY DEF LayoutAfter, RateAfter, Applied, Telling, LastOf

LEMMA LastTells ==
  ASSUME NEW es \in Seq(Item), NEW kind, NEW k, Telling(es, kind, k) # {}
  PROVE  /\ LastOf(Telling(es, kind, k)) \in 1..Len(es)
         /\ es[LastOf(Telling(es, kind, k))].kind = kind
<1> DEFINE A == Telling(es, kind, k)
<1>1. A \in SUBSET (1..Len(es)) /\ Len(es) \in Nat
  BY DEF Telling
<1>2. \A i \in A : es[i].kind = kind
  BY DEF Telling
<1> HIDE DEF A
<1>3. \E i \in A : \A j \in A : j <= i
  BY <1>1, LastPosition DEF A
<1>4. LastOf(A) \in A
  BY <1>3 DEF LastOf
<1>5. QED BY <1>1, <1>2, <1>4 DEF A

(* The event at the end is told last.                                      *)
LEMMA EndTold ==
  ASSUME NEW es \in Seq(Item), Len(es) > 0, NEW kind, NEW k,
         es[Len(es)].kind = kind, es[Len(es)].event.key = k
  PROVE  /\ Telling(es, kind, k) # {}
         /\ LastOf(Telling(es, kind, k)) = Len(es)
<1> DEFINE n == Len(es)
           A == Telling(es, kind, k)
<1>1. n \in Nat /\ n \in 1..n
  OBVIOUS
<1>2. n \in A /\ \A j \in A : j <= n /\ j \in Nat
  <2>1. n \in A
    BY <1>1 DEF Telling
  <2>2. \A j \in A : j \in 1..n
    BY DEF Telling
  <2> HIDE DEF n, A
  <2>3. QED BY <1>1, <2>1, <2>2
<1> HIDE DEF A
<1>3. LastOf(A) \in A /\ \A j \in A : j <= LastOf(A)
  BY <1>2 DEF LastOf
<1>4. LastOf(A) = n
  <2> DEFINE m == LastOf(A)
  <2>1. m \in Nat /\ m <= n /\ n <= m /\ n \in Nat
    BY <1>1, <1>2, <1>3
  <2> HIDE DEF m, n
  <2>2. m = n
    BY <2>1
  <2>3. QED BY <2>2 DEF m
<1>5. QED BY <1>2, <1>4 DEF A

(* Events that tell nothing of k leave what was told.                      *)
LEMMA OthersTellNothing ==
  ASSUME NEW es \in Seq(Item), NEW fs \in Seq(Item), NEW kind, NEW k,
         \A i \in 1..Len(fs) : ~(fs[i].kind = kind /\ fs[i].event.key = k)
  PROVE  /\ Telling(es \o fs, kind, k) = Telling(es, kind, k)
         /\ \A i \in 1..Len(es) : (es \o fs)[i] = es[i]
<1> DEFINE all == es \o fs
           n == Len(es)
           m == Len(fs)
<1>1. n \in Nat /\ m \in Nat
  OBVIOUS
<1>2. /\ all \in Seq(Item) /\ Len(all) = n + m
      /\ \A i \in 1..(n + m) : all[i] = IF i <= n THEN es[i] ELSE fs[i - n]
  BY ConcatProperties
<1>3. \A i \in 1..m : ~(fs[i].kind = kind /\ fs[i].event.key = k)
  OBVIOUS
<1> HIDE DEF all
<1>4. ASSUME NEW i \in Telling(es, kind, k) PROVE i \in Telling(all, kind, k)
  <2>1. i \in 1..n /\ es[i].kind = kind /\ es[i].event.key = k
    BY DEF Telling
  <2> HIDE DEF n, m
  <2>2. i \in 1..(n + m) /\ all[i] = es[i]
    BY <1>1, <1>2, <2>1
  <2>3. QED BY <1>2, <2>1, <2>2 DEF Telling
<1>5. ASSUME NEW i \in Telling(all, kind, k) PROVE i \in Telling(es, kind, k)
  <2>1. i \in 1..(n + m) /\ all[i].kind = kind /\ all[i].event.key = k
    BY <1>2 DEF Telling
  <2>2. i <= n
    <3>1. SUFFICES ASSUME ~(i <= n) PROVE FALSE
      OBVIOUS
    <3> HIDE DEF n, m
    <3>2. i - n \in 1..m /\ all[i] = fs[i - n]
      BY <1>1, <1>2, <2>1, <3>1
    <3>3. QED BY <1>3, <2>1, <3>2
  <2>3. i \in 1..n /\ es[i] = all[i]
    BY <1>1, <1>2, <2>1, <2>2
  <2>4. QED BY <2>1, <2>3 DEF Telling
<1>6. \A i \in 1..n : all[i] = es[i]
  <2> HIDE DEF n, m
  <2>1. QED BY <1>1, <1>2
<1>7. QED BY <1>4, <1>5, <1>6 DEF all

LEMMA ToldLast ==
  ASSUME NEW es \in Seq(Item), NEW x \in Item, NEW known
  PROVE  /\ x.kind = "template" =>
              LayoutAfter(Append(es, x), x.event.key, known) = x.event.now
         /\ x.kind = "sampling" =>
              RateAfter(Append(es, x), x.event.key, known) = x.event.rate
<1> DEFINE fs == Append(es, x)
           k == x.event.key
<1>1. fs \in Seq(Item) /\ Len(fs) > 0 /\ fs[Len(fs)] = x
  OBVIOUS
<1> HIDE DEF fs
<1>2. ASSUME x.kind = "template" PROVE LayoutAfter(fs, k, known) = x.event.now
  <2>1. /\ Telling(fs, "template", k) # {}
        /\ LastOf(Telling(fs, "template", k)) = Len(fs)
    BY <1>1, <1>2, EndTold
  <2>2. QED BY <1>1, <2>1, Told
<1>3. ASSUME x.kind = "sampling" PROVE RateAfter(fs, k, known) = x.event.rate
  <2>1. /\ Telling(fs, "sampling", k) # {}
        /\ LastOf(Telling(fs, "sampling", k)) = Len(fs)
    BY <1>1, <1>3, EndTold
  <2>2. QED BY <1>1, <2>1, Told
<1>4. QED BY <1>2, <1>3 DEF fs

LEMMA ToldBefore ==
  ASSUME NEW es \in Seq(Item), NEW fs \in Seq(Item), NEW k, NEW known
  PROVE  /\ (\A i \in 1..Len(fs) : ~(/\ fs[i].kind = "template"
                                     /\ fs[i].event.key = k))
              => LayoutAfter(es \o fs, k, known) = LayoutAfter(es, k, known)
         /\ (\A i \in 1..Len(fs) : ~(/\ fs[i].kind = "sampling"
                                     /\ fs[i].event.key = k))
              => RateAfter(es \o fs, k, known) = RateAfter(es, k, known)
<1>1. ASSUME \A i \in 1..Len(fs) : ~(/\ fs[i].kind = "template"
                                    /\ fs[i].event.key = k)
      PROVE  LayoutAfter(es \o fs, k, known) = LayoutAfter(es, k, known)
  <2> DEFINE A == Telling(es, "template", k)
             all == es \o fs
  <2>1. Telling(all, "template", k) = A
    BY <1>1, OthersTellNothing
  <2>2. A # {} => all[LastOf(A)] = es[LastOf(A)]
    BY <1>1, OthersTellNothing, LastTells
  <2> HIDE DEF all
  <2>3. LayoutAfter(all, k, known) = IF A = {} THEN known
                                ELSE all[LastOf(A)].event.now
    BY <2>1, Told
  <2>4. LayoutAfter(es, k, known) = IF A = {} THEN known
                               ELSE es[LastOf(A)].event.now
    BY Told
  <2> HIDE DEF A
  <2>5. LayoutAfter(all, k, known) = LayoutAfter(es, k, known)
    BY <2>2, <2>3, <2>4
  <2>6. QED BY <2>5 DEF all
<1>2. ASSUME \A i \in 1..Len(fs) : ~(/\ fs[i].kind = "sampling"
                                    /\ fs[i].event.key = k)
      PROVE  RateAfter(es \o fs, k, known) = RateAfter(es, k, known)
  <2> DEFINE A == Telling(es, "sampling", k)
             all == es \o fs
  <2>1. Telling(all, "sampling", k) = A
    BY <1>2, OthersTellNothing
  <2>2. A # {} => all[LastOf(A)] = es[LastOf(A)]
    BY <1>2, OthersTellNothing, LastTells
  <2> HIDE DEF all
  <2>3. RateAfter(all, k, known) = IF A = {} THEN known
                                ELSE all[LastOf(A)].event.rate
    BY <2>1, Told
  <2>4. RateAfter(es, k, known) = IF A = {} THEN known
                               ELSE es[LastOf(A)].event.rate
    BY Told
  <2> HIDE DEF A
  <2>5. RateAfter(all, k, known) = RateAfter(es, k, known)
    BY <2>2, <2>3, <2>4
  <2>6. QED BY <2>5 DEF all
<1>3. QED BY <1>1, <1>2

(* The same, of one more event.                                            *)
LEMMA ToldBeforeOne ==
  ASSUME NEW es \in Seq(Item), NEW x \in Item, NEW k, NEW known
  PROVE  /\ ~(x.kind = "template" /\ x.event.key = k)
              => LayoutAfter(Append(es, x), k, known) = LayoutAfter(es, k, known)
         /\ ~(x.kind = "sampling" /\ x.event.key = k)
              => RateAfter(Append(es, x), k, known) = RateAfter(es, k, known)
<1> DEFINE fs == <<x>>
<1>1. fs \in Seq(Item) /\ Len(fs) = 1 /\ fs[1] = x
  OBVIOUS
<1>2. Append(es, x) = es \o fs
  OBVIOUS
<1> HIDE DEF fs
<1>3. QED BY <1>1, <1>2, ToldBefore

(* What a consumer knows is a layout, or none, and a rate.                 *)
LEMMA ToldTypes ==
  ASSUME NEW es \in Seq(Item), NEW k, NEW known
  PROVE  /\ known \in T!Entries \cup {NoEntry} =>
              LayoutAfter(es, k, known) \in T!Entries \cup {NoEntry}
         /\ known \in Nat \ {0} => RateAfter(es, k, known) \in Nat \ {0}
<1>1. known \in T!Entries \cup {NoEntry} =>
        LayoutAfter(es, k, known) \in T!Entries \cup {NoEntry}
  <2>1. CASE Telling(es, "template", k) = {}
    BY <2>1, Told
  <2>2. CASE Telling(es, "template", k) # {}
    <3> DEFINE x == es[LastOf(Telling(es, "template", k))]
    <3>1. x \in Item /\ x.kind = "template"
      BY <2>2, LastTells
    <3>2. LayoutAfter(es, k, known) = x.event.now
      BY <2>2, Told
    <3> HIDE DEF x
    <3>3. x.event \in T!Event
      BY <3>1, KindsOfItems
    <3>4. QED BY <3>2, <3>3 DEF T!Event
  <2>3. QED BY <2>1, <2>2
<1>2. known \in Nat \ {0} => RateAfter(es, k, known) \in Nat \ {0}
  <2>1. CASE Telling(es, "sampling", k) = {}
    BY <2>1, Told
  <2>2. CASE Telling(es, "sampling", k) # {}
    <3> DEFINE x == es[LastOf(Telling(es, "sampling", k))]
    <3>1. x \in Item /\ x.kind = "sampling"
      BY <2>2, LastTells
    <3>2. RateAfter(es, k, known) = x.event.rate
      BY <2>2, Told
    <3> HIDE DEF x
    <3>3. x.event \in S!Change
      BY <3>1, KindsOfItems
    <3>4. QED BY <3>2, <3>3 DEF S!Change
  <2>3. QED BY <2>1, <2>2
<1>3. QED BY <1>1, <1>2

-----------------------------------------------------------------------------
(* A datagram decode() has in hand.                                        *)
Message == [exporter : Exporters, domain : Domains, version : {5, 9, 10},
            seq : Seqs, flows : Nat, options : Seq(S!OptionRecord)]

Rest == /\ pc \in {"idle", "walk", "observe", "gaps", "note"}
        /\ pc # "idle" => msg \in Message
        /\ sets \in 0..MaxSets
        /\ raised \in Nat /\ taken \in Nat /\ escaped \in Nat

ToldTyped == /\ toldLayout \in [TemplateKeys -> T!Entries \cup {NoEntry}]
             /\ toldRate \in [S!Keys -> Nat \ {0}]

(* A component has events waiting only while decode() is at it; changes of *)
(* rate are also left behind by a call that raised.                        *)
HandedOver == /\ pc # "walk" => tEvents = <<>>
              /\ pc # "gaps" => gapEvents = <<>>
              /\ pc # "note" /\ changes # <<>> => escaped > 0

(* Where the events raised are.                                            *)
InQueue == taken + stats["events_dropped"] + Len(queue)
InStore == tDropped + Len(tEvents)
InWatch == Len(gapEvents)
InSampling == Len(changes)
Accounted == raised = InQueue + InStore + InWatch + InSampling

(* What a consumer would know of k that took the queue q and then what the *)
(* component at hand has yet to hand over.                                 *)
LayoutOnce(q, es, known, k) ==
  LayoutAfter(q \o Tagged("template", es), k, known[k])
RateOnce(q, cs, known, k) ==
  RateAfter(q \o Tagged("sampling", cs), k, known[k])

(* Wherever decode() is, that is the layout, and the rate, it works with,  *)
(* as long as nothing was dropped on the way.                              *)
LayoutsTold ==
  stats["events_dropped"] = 0 /\ tDropped = 0 =>
    \A k \in DOMAIN held : LayoutOnce(queue, tEvents, toldLayout, k) = held[k]
RatesTold ==
  stats["events_dropped"] = 0 /\ escaped = 0 =>
    \A k \in DOMAIN rates : RateOnce(queue, changes, toldRate, k) = rates[k]

(* The inductive invariant.                                                *)
IInv == /\ StoreOK /\ WatchOK /\ SamplingOK /\ QueueOK /\ Rest /\ ToldTyped
        /\ EveryPacketFiled /\ HandedOver /\ Accounted
        /\ LayoutsTold /\ RatesTold

-----------------------------------------------------------------------------
(* What an action that does not touch a component leaves of it.            *)
LEMMA StoreKept ==
  ASSUME StoreOK, UNCHANGED storeVars
  PROVE  StoreOK' /\ InStore' = InStore
BY DEF StoreOK, storeVars, T!StoreTypeOK, InStore

LEMMA WatchKept ==
  ASSUME WatchOK, UNCHANGED watchVars
  PROVE  WatchOK' /\ InWatch' = InWatch
BY DEF WatchOK, watchVars, W!WatchTypeOK, InWatch

LEMMA SamplingKept ==
  ASSUME SamplingOK, UNCHANGED samplingVars
  PROVE  SamplingOK' /\ InSampling' = InSampling
BY DEF SamplingOK, samplingVars, S!SamplingTypeOK, InSampling

LEMMA Names ==
  ASSUME stats \in [Counters -> Nat]
  PROVE  /\ {"packets", "malformed", "unsupported", "parse_errors", "messages",
             "events_dropped"} \subseteq Counters
         /\ stats["packets"] \in Nat /\ stats["malformed"] \in Nat
         /\ stats["unsupported"] \in Nat /\ stats["parse_errors"] \in Nat
         /\ stats["messages"] \in Nat /\ stats["events_dropped"] \in Nat
BY DEF Counters

LEMMA Places ==
  ASSUME StoreOK, WatchOK, SamplingOK, QueueOK, Rest
  PROVE  InQueue \in Nat /\ InStore \in Nat /\ InWatch \in Nat
         /\ InSampling \in Nat
<1>1. /\ stats["events_dropped"] \in Nat /\ Len(queue) \in Nat /\ taken \in Nat
  BY Names DEF QueueOK, Rest
<1>2. tDropped \in Nat /\ Len(tEvents) \in Nat
  BY DEF StoreOK, T!StoreTypeOK
<1>3. Len(gapEvents) \in Nat
  BY WatchTypes
<1>4. Len(changes) \in Nat
  BY SamplingTypes
<1>5. InQueue \in Nat
  BY <1>1 DEF InQueue
<1>6. InStore \in Nat
  BY <1>2 DEF InStore
<1>7. QED BY <1>3, <1>4, <1>5, <1>6 DEF InWatch, InSampling

LEMMA FiledBy ==
  ASSUME EveryPacketFiled, QueueOK,
         NEW p \in Nat, NEW m \in Nat, NEW u \in Nat, NEW e \in Nat, NEW s \in Nat,
         stats'["packets"] = stats["packets"] + p,
         stats'["malformed"] = stats["malformed"] + m,
         stats'["unsupported"] = stats["unsupported"] + u,
         stats'["parse_errors"] = stats["parse_errors"] + e,
         stats'["messages"] = stats["messages"] + s,
         p + (IF pc = "walk" THEN 1 ELSE 0)
           = m + u + e + s + (IF pc' = "walk" THEN 1 ELSE 0)
  PROVE  EveryPacketFiled'
<1> DEFINE h == IF pc = "walk" THEN 1 ELSE 0
           i == IF pc' = "walk" THEN 1 ELSE 0
           P == stats["packets"]
           M == stats["malformed"]
           U == stats["unsupported"]
           E == stats["parse_errors"]
           G == stats["messages"]
<1>1. /\ P \in Nat /\ M \in Nat /\ U \in Nat /\ E \in Nat /\ G \in Nat
      /\ h \in Nat /\ i \in Nat
  BY Names DEF QueueOK
<1>2. P = M + U + E + G + h /\ p + h = m + u + e + s + i
  BY DEF EveryPacketFiled
<1>3. EveryPacketFiled' <=> stats'["packets"]
        = stats'["malformed"] + stats'["unsupported"] + stats'["parse_errors"]
          + stats'["messages"] + i
  BY DEF EveryPacketFiled
<1> HIDE DEF h, i, P, M, U, E, G
<1>4. P + p = (M + m) + (U + u) + (E + e) + (G + s) + i
  BY <1>1, <1>2
<1>5. QED BY <1>3, <1>4 DEF P, M, U, E, G

(* An action that counts, and queues nothing.                              *)
LEMMA CountKeeps ==
  ASSUME QueueOK, NEW amounts, \A c \in DOMAIN amounts : amounts[c] \in Nat,
         "events_dropped" \notin DOMAIN amounts,
         Count(amounts), UNCHANGED <<queue, taken>>
  PROVE  /\ QueueOK' /\ InQueue' = InQueue
         /\ stats'["events_dropped"] = stats["events_dropped"]
         /\ \A c \in Counters : stats'[c] = stats[c] + Lookup(amounts, c, 0)
<1>1. /\ stats' \in [Counters -> Nat]
      /\ \A c \in Counters : stats'[c] = stats[c] + Lookup(amounts, c, 0)
  BY CountAdds DEF QueueOK
<1>2. stats'["events_dropped"] = stats["events_dropped"]
  BY <1>1, Names DEF QueueOK, Lookup
<1>3. QED BY <1>1, <1>2 DEF QueueOK, InQueue

(* One that queues the events es.                                          *)
LEMMA QueueKeeps ==
  ASSUME QueueOK, Rest, NEW es \in Seq(Item), NEW amounts,
         \A c \in DOMAIN amounts : amounts[c] \in Nat,
         Queue(es, amounts), taken' = taken
  PROVE  InQueue' = InQueue + Len(es)
<1> DEFINE d == stats["events_dropped"]
           w == stats'["events_dropped"]
           n == Len(queue)
           z == Len(queue')
           m == Len(es)
<1>1. w + z = d + n + m
  BY QueueStep
<1>2. QueueOK'
  BY QueueStep
<1>3. d \in Nat /\ w \in Nat /\ n \in Nat /\ z \in Nat /\ m \in Nat
  BY <1>2, Names DEF QueueOK
<1>4. taken \in Nat
  BY DEF Rest
<1>5. InQueue = taken + d + n /\ InQueue' = taken + w + z
  BY DEF InQueue
<1> HIDE DEF d, w, n, z, m
<1>6. InQueue' = InQueue + m
  BY <1>1, <1>3, <1>4, <1>5
<1>7. QED BY <1>6 DEF m

(* One that fails.                                                         *)
LEMMA FailKeeps ==
  ASSUME QueueOK, Rest, NEW es \in Seq(Item), NEW e \in Exporters,
         NEW reason \in {"short", "unsupported", "malformed"},
         NEW counted \in BOOLEAN, NEW amounts,
         \A c \in DOMAIN amounts : amounts[c] \in Nat,
         FailAfter(es, e, reason, counted, amounts), taken' = taken
  PROVE  /\ QueueOK' /\ InQueue' = InQueue + Len(es) + 1
         /\ stats'["malformed"] = stats["malformed"] + Extra(counted)
         /\ \A c \in Counters \ {"events_dropped", "malformed"} :
              stats'[c] = stats[c] + Lookup(amounts, c, 0)
         /\ stats'["events_dropped"] >= stats["events_dropped"]
         /\ \E error \in Item :
              /\ error.kind = "error"
              /\ stats'["events_dropped"] = stats["events_dropped"] =>
                   queue' = queue \o Append(es, error)
<1> DEFINE error == [kind |-> "error",
                     event |-> [exporter |-> e, reason |-> reason]]
           all == And(amounts, "malformed", Extra(counted))
           fs == Append(es, error)
<1>1. error \in Item /\ error.kind = "error"
  <2>1. error \in [kind : {"error"}, event : ErrorEvent]
    BY DEF ErrorEvent
  <2>2. QED BY <2>1, KindsOfItems
<1>2. Queue(fs, all)
  BY DEF FailAfter
<1> HIDE DEF error
<1>3. fs \in Seq(Item) /\ Len(fs) = Len(es) + 1 /\ Len(es) \in Nat
  BY <1>1
<1> HIDE DEF fs
<1>4. /\ DOMAIN all = DOMAIN amounts \cup {"malformed"}
      /\ all["malformed"] = Extra(counted)
      /\ \A c \in DOMAIN amounts \ {"malformed"} : all[c] = amounts[c]
      /\ Extra(counted) \in Nat
  BY DEF And, Extra
<1> HIDE DEF all
<1>5. \A c \in DOMAIN all : all[c] \in Nat
  BY <1>4
<1>6. QueueOK'
  BY <1>2, <1>3, <1>5, QueueStep
<1>7. \A c \in Counters \ {"events_dropped"} :
        stats'[c] = stats[c] + Lookup(all, c, 0)
  BY <1>2, <1>3, <1>5, QueueStep
<1>8. /\ stats'["events_dropped"] >= stats["events_dropped"]
      /\ stats'["events_dropped"] = stats["events_dropped"] =>
            queue' = queue \o fs
  BY <1>2, <1>3, <1>5, QueueStep
<1>9. InQueue' = InQueue + Len(fs)
  BY <1>2, <1>3, <1>5, QueueKeeps
<1>10. InQueue' = InQueue + Len(es) + 1
  <2>1. InQueue \in Int
    <3>1. stats["events_dropped"] \in Nat /\ Len(queue) \in Nat /\ taken \in Nat
      BY Names DEF QueueOK, Rest
    <3>2. QED BY <3>1 DEF InQueue
  <2>2. QED BY <1>3, <1>9, <2>1
<1>11. stats'["malformed"] = stats["malformed"] + Extra(counted)
  BY <1>4, <1>7, Names DEF QueueOK, Lookup
<1>12. \A c \in Counters \ {"events_dropped", "malformed"} :
         stats'[c] = stats[c] + Lookup(amounts, c, 0)
  BY <1>4, <1>7 DEF Lookup
<1>13. QED
  BY <1>1, <1>6, <1>8, <1>10, <1>11, <1>12 DEF fs

-----------------------------------------------------------------------------
(* What is told stands when no more than what was pending is queued.       *)
LEMMA LayoutsKept ==
  ASSUME LayoutsTold, toldLayout' = toldLayout, held' = held,
         stats["events_dropped"] \in Nat, tDropped \in Nat,
         stats'["events_dropped"] >= stats["events_dropped"],
         stats'["events_dropped"] \in Nat, tDropped' = tDropped,
         stats'["events_dropped"] = stats["events_dropped"] =>
           \A k \in DOMAIN held :
             LayoutOnce(queue', tEvents', toldLayout, k)
               = LayoutOnce(queue, tEvents, toldLayout, k)
  PROVE  LayoutsTold'
<1>1. ASSUME stats'["events_dropped"] = 0, tDropped' = 0, NEW k \in DOMAIN held
      PROVE  LayoutOnce(queue', tEvents', toldLayout, k) = held[k]
  BY <1>1 DEF LayoutsTold
<1>2. QED BY <1>1 DEF LayoutsTold

LEMMA RatesKept ==
  ASSUME RatesTold, toldRate' = toldRate, rates' = rates,
         stats["events_dropped"] \in Nat, escaped \in Nat,
         stats'["events_dropped"] >= stats["events_dropped"],
         stats'["events_dropped"] \in Nat,
         escaped' = escaped \/ escaped' = escaped + 1,
         stats'["events_dropped"] = stats["events_dropped"] /\ escaped = 0 =>
           \A k \in DOMAIN rates : RateOnce(queue', changes', toldRate, k)
                                    = RateOnce(queue, changes, toldRate, k)
  PROVE  RatesTold'
<1>1. ASSUME stats'["events_dropped"] = 0, escaped' = 0, NEW k \in DOMAIN rates
      PROVE  RateOnce(queue', changes', toldRate, k) = rates[k]
  BY <1>1 DEF RatesTold
<1>2. QED BY <1>1 DEF RatesTold

-----------------------------------------------------------------------------
LEMMA NothingPending ==
  ASSUME NEW q \in Seq(Item), NEW known, NEW k
  PROVE  /\ LayoutOnce(q, <<>>, known, k) = LayoutAfter(q, k, known[k])
         /\ RateOnce(q, <<>>, known, k) = RateAfter(q, k, known[k])
<1>1. q \o <<>> = q
  OBVIOUS
<1>2. Tagged("template", <<>>) = <<>> /\ Tagged("sampling", <<>>) = <<>>
  BY NoneTagged
<1>3. QED BY <1>1, <1>2 DEF LayoutOnce, RateOnce

(* One more event pending.                                                 *)
LEMMA LayoutOneMore ==
  ASSUME NEW q \in Seq(Item), NEW es \in Seq(T!Event), NEW ev \in T!Event,
         NEW known, NEW k
  PROVE  LayoutOnce(q, Append(es, ev), known, k)
           = IF ev.key = k THEN ev.now ELSE LayoutOnce(q, es, known, k)
<1> DEFINE t == Tagged("template", es)
           item == [kind |-> "template", event |-> ev]
           qt == q \o t
<1>1. item \in Item /\ item.kind = "template" /\ item.event = ev
  BY KindsOfItems
<1>2. t \in Seq(Item)
  BY TaggedEvents, KindsOfItems
<1>3. Tagged("template", Append(es, ev)) = Append(t, item)
  BY TaggedOneMore, KindsOfItems
<1> HIDE DEF t, item
<1>4. q \o Append(t, item) = Append(qt, item)
  BY <1>1, <1>2, AppendAtTheEnd
<1>5. qt \in Seq(Item)
  BY <1>2
<1> HIDE DEF qt
<1>6. LayoutOnce(q, Append(es, ev), known, k)
        = LayoutAfter(Append(qt, item), k, known[k])
  BY <1>3, <1>4 DEF LayoutOnce
<1>7. CASE ev.key = k
  <2>1. LayoutAfter(Append(qt, item), item.event.key, known[k]) = item.event.now
    BY <1>1, <1>5, ToldLast
  <2>2. QED BY <1>1, <1>6, <1>7, <2>1
<1>8. CASE ev.key # k
  <2>1. LayoutAfter(Append(qt, item), k, known[k])
          = LayoutAfter(qt, k, known[k])
    BY <1>1, <1>5, <1>8, ToldBeforeOne
  <2>2. QED BY <1>6, <1>8, <2>1 DEF LayoutOnce, qt, t
<1>9. QED BY <1>7, <1>8

LEMMA RateOneMore ==
  ASSUME NEW q \in Seq(Item), NEW cs \in Seq(S!Change), NEW c \in S!Change,
         NEW known, NEW k
  PROVE  RateOnce(q, Append(cs, c), known, k)
           = IF c.key = k THEN c.rate ELSE RateOnce(q, cs, known, k)
<1> DEFINE t == Tagged("sampling", cs)
           item == [kind |-> "sampling", event |-> c]
           qt == q \o t
<1>1. item \in Item /\ item.kind = "sampling" /\ item.event = c
  BY KindsOfItems
<1>2. t \in Seq(Item)
  BY TaggedEvents, KindsOfItems
<1>3. Tagged("sampling", Append(cs, c)) = Append(t, item)
  BY TaggedOneMore, KindsOfItems
<1> HIDE DEF t, item
<1>4. q \o Append(t, item) = Append(qt, item)
  BY <1>1, <1>2, AppendAtTheEnd
<1>5. qt \in Seq(Item)
  BY <1>2
<1> HIDE DEF qt
<1>6. RateOnce(q, Append(cs, c), known, k)
        = RateAfter(Append(qt, item), k, known[k])
  BY <1>3, <1>4 DEF RateOnce
<1>7. CASE c.key = k
  <2>1. RateAfter(Append(qt, item), item.event.key, known[k]) = item.event.rate
    BY <1>1, <1>5, ToldLast
  <2>2. QED BY <1>1, <1>6, <1>7, <2>1
<1>8. CASE c.key # k
  <2>1. RateAfter(Append(qt, item), k, known[k]) = RateAfter(qt, k, known[k])
    BY <1>1, <1>5, <1>8, ToldBeforeOne
  <2>2. QED BY <1>6, <1>8, <2>1 DEF RateOnce, qt, t
<1>9. QED BY <1>7, <1>8

(* Events of one kind, queued, tell nothing of what the other kind is      *)
(* about, and all they tell is what they would have while pending.         *)
LEMMA QueuedOthers ==
  ASSUME NEW q \in Seq(Item), NEW E, NEW es \in Seq(E), NEW kind,
         [kind : {kind}, event : E] \subseteq Item, NEW k, NEW known
  PROVE  LET all == q \o Tagged(kind, es)
         IN  /\ all \in Seq(Item)
             /\ kind # "template" =>
                  LayoutAfter(all, k, known) = LayoutAfter(q, k, known)
             /\ kind # "sampling" =>
                  RateAfter(all, k, known) = RateAfter(q, k, known)
<1> DEFINE t == Tagged(kind, es)
<1>1. t \in Seq(Item) /\ Len(t) = Len(es)
  BY TaggedEvents
<1>2. \A i \in 1..Len(es) : t[i] = [kind |-> kind, event |-> es[i]]
  BY TaggedEvents
<1> HIDE DEF t
<1>3. \A i \in 1..Len(t) : t[i].kind = kind
  <2>1. SUFFICES ASSUME NEW i \in 1..Len(es) PROVE t[i].kind = kind
    BY <1>1
  <2>2. t[i] = [kind |-> kind, event |-> es[i]]
    BY <1>2
  <2>3. QED BY <2>2
<1>4. q \o t \in Seq(Item)
  BY <1>1
<1>5. kind # "template" =>
        LayoutAfter(q \o t, k, known) = LayoutAfter(q, k, known)
  BY <1>1, <1>3, ToldBefore
<1>6. kind # "sampling" => RateAfter(q \o t, k, known) = RateAfter(q, k, known)
  BY <1>1, <1>3, ToldBefore
<1>7. QED BY <1>4, <1>5, <1>6 DEF t

-----------------------------------------------------------------------------
LEMMA InitIInv == Init => IInv
<1> SUFFICES ASSUME Init PROVE IInv
  OBVIOUS
<1>1. /\ T!StoreInit /\ W!WatchInit /\ S!SamplingInit
      /\ queue = <<>> /\ stats = [c \in Counters |-> 0]
      /\ pc = "idle" /\ sets = 0
      /\ raised = 0 /\ taken = 0 /\ escaped = 0
      /\ toldLayout = [k \in TemplateKeys |-> NoEntry]
      /\ toldRate = [k \in S!Keys |-> 1]
  BY DEF Init
<1>2. ToSet(<<>>) = {} /\ NoRepeats(<<>>) /\ Len(<<>>) = 0
  BY DEF ToSet, NoRepeats
<1>3. /\ tOrder = <<>> /\ tEvents = <<>> /\ DOMAIN held = {}
      /\ learned = 0 /\ tEvicted = 0 /\ tDropped = 0
  BY <1>1 DEF T!StoreInit
<1>4. /\ wOrder = <<>> /\ warned = <<>> /\ gapEvents = <<>>
      /\ streams = [k \in {} |-> 0] /\ missed = [k \in {} |-> 0]
      /\ units = [k \in {} |-> ""]
      /\ resyncs = 0 /\ backwards = 0 /\ wEvicted = 0
  BY <1>1 DEF W!WatchInit
<1>5. /\ sOrder = <<>> /\ changes = <<>> /\ rates = [k \in {} |-> 0]
      /\ sEvicted = 0
  BY <1>1 DEF S!SamplingInit
<1>6. StoreOK
  <2>1. held \in [{} -> T!Entries]
    BY <1>1 DEF T!StoreInit
  <2>2. QED
    BY <1>2, <1>3, <2>1, StoreOperators, Ceilings DEF StoreOK, T!StoreTypeOK
<1>7. WatchOK
  <2>1. /\ streams \in [{} -> W!State] /\ DOMAIN missed = {}
        /\ missed \in [{} -> Nat \ {0}] /\ units \in [{} -> W!Units]
    BY <1>4
  <2>2. QED BY <1>2, <1>4, <2>1, WatchOperators DEF WatchOK, W!WatchTypeOK
<1>8. SamplingOK
  BY <1>2, <1>5, SamplingOperators DEF SamplingOK, S!SamplingTypeOK
<1>9. QueueOK
  BY <1>1, <1>2, Ceilings DEF QueueOK
<1>10. Rest
  BY <1>1, DecoderAssumption DEF Rest
<1>11. ToldTyped
  BY <1>1 DEF ToldTyped
<1>12. EveryPacketFiled
  BY <1>1, Names, <1>9 DEF EveryPacketFiled, QueueOK
<1>13. HandedOver
  BY <1>1, <1>3, <1>4, <1>5 DEF HandedOver
<1>14. Accounted
  <2>1. stats["events_dropped"] = 0
    BY <1>1, Names, <1>9 DEF QueueOK
  <2>2. QED
    BY <1>1, <1>2, <1>3, <1>4, <1>5, <2>1
       DEF Accounted, InQueue, InStore, InWatch, InSampling
<1>15. LayoutsTold /\ RatesTold
  BY <1>3, <1>5 DEF LayoutsTold, RatesTold
<1>16. QED
  BY <1>6, <1>7, <1>8, <1>9, <1>10, <1>11, <1>12, <1>13, <1>14, <1>15 DEF IInv

(* What the actions' proofs start from.                                    *)
LEMMA Before ==
  ASSUME IInv
  PROVE  /\ StoreOK /\ WatchOK /\ SamplingOK /\ QueueOK /\ Rest /\ ToldTyped
         /\ EveryPacketFiled /\ HandedOver /\ Accounted
         /\ LayoutsTold /\ RatesTold
         /\ queue \in Seq(Item) /\ stats["events_dropped"] \in Nat
         /\ tEvents \in Seq(T!Event) /\ tDropped \in Nat /\ learned \in Nat
         /\ held \in [DOMAIN held -> T!Entries]
         /\ DOMAIN held \subseteq TemplateKeys
         /\ changes \in Seq(S!Change) /\ gapEvents \in Seq(W!GapEvent)
         /\ DOMAIN rates \subseteq S!Keys
         /\ raised \in Nat /\ taken \in Nat /\ escaped \in Nat
         /\ InQueue \in Nat /\ InStore \in Nat /\ InWatch \in Nat
         /\ InSampling \in Nat
<1>1. /\ StoreOK /\ WatchOK /\ SamplingOK /\ QueueOK /\ Rest /\ ToldTyped
      /\ EveryPacketFiled /\ HandedOver /\ Accounted
      /\ LayoutsTold /\ RatesTold
  BY DEF IInv
<1>2. queue \in Seq(Item) /\ stats["events_dropped"] \in Nat
  BY <1>1, Names DEF QueueOK
<1>3. /\ tEvents \in Seq(T!Event) /\ tDropped \in Nat /\ learned \in Nat
      /\ held \in [ToSet(tOrder) -> T!Entries] /\ tOrder \in Seq(TemplateKeys)
  BY <1>1, StoreOperators DEF StoreOK, T!StoreTypeOK
<1>4. DOMAIN held \subseteq TemplateKeys
  BY <1>3, InToSet
<1>5. /\ changes \in Seq(S!Change) /\ sOrder \in Seq(S!Keys)
      /\ DOMAIN rates = ToSet(sOrder)
  BY <1>1, SamplingTypes
<1>6. DOMAIN rates \subseteq S!Keys
  BY <1>5, InToSet
<1>7. gapEvents \in Seq(W!GapEvent)
  BY <1>1, WatchTypes
<1>8. raised \in Nat /\ taken \in Nat /\ escaped \in Nat
  BY <1>1 DEF Rest
<1>9. InQueue \in Nat /\ InStore \in Nat /\ InWatch \in Nat /\ InSampling \in Nat
  BY <1>1, Places
<1>10. QED BY <1>1, <1>2, <1>3, <1>4, <1>5, <1>6, <1>7, <1>8, <1>9

(* A datagram that fails, in its header or in its sets.  Before its sets   *)
(* nothing is learned, so that what is handed over first is empty.         *)
LEMMA FailIInv ==
  ASSUME IInv, pc \in {"idle", "walk"}, NEW e \in Exporters,
         NEW reason \in {"short", "unsupported", "malformed"},
         NEW counted \in BOOLEAN, NEW amounts,
         \A c \in DOMAIN amounts : amounts[c] \in Nat,
         FailAfter(Learned, e, reason, counted, amounts), T!TakeEvents,
         Lookup(amounts, "packets", 0) + (IF pc = "walk" THEN 1 ELSE 0)
           = Extra(counted) + Lookup(amounts, "unsupported", 0)
             + Lookup(amounts, "parse_errors", 0),
         Lookup(amounts, "messages", 0) = 0,
         raised' = raised + 1, pc' = "idle",
         UNCHANGED <<watchVars, samplingVars, sets, ghosts, escaped>>
  PROVE  IInv'
<1> DEFINE es == Learned
<1>1. /\ StoreOK /\ WatchOK /\ SamplingOK /\ QueueOK /\ Rest /\ ToldTyped
      /\ EveryPacketFiled /\ HandedOver /\ Accounted
      /\ LayoutsTold /\ RatesTold
  BY DEF IInv
<1>2. /\ queue \in Seq(Item) /\ stats["events_dropped"] \in Nat
      /\ tEvents \in Seq(T!Event) /\ tDropped \in Nat
      /\ raised \in Nat /\ escaped \in Nat
      /\ InQueue \in Nat /\ InStore \in Nat /\ InWatch \in Nat
      /\ InSampling \in Nat
  BY Before
<1>3. /\ UNCHANGED watchVars /\ UNCHANGED samplingVars
      /\ UNCHANGED <<gapEvents, changes, rates>>
      /\ UNCHANGED <<toldLayout, toldRate, taken, escaped, sets>>
  BY DEF ghosts, watchVars, samplingVars
<1>4. es \in Seq(Item) /\ Len(es) = Len(tEvents)
  BY <1>2, TaggedEvents, KindsOfItems DEF Learned
<1>5. es = Tagged("template", tEvents)
  BY DEF Learned
<1>6. FailAfter(es, e, reason, counted, amounts) /\ taken' = taken
  BY <1>3
<1> HIDE DEF es
<1>7. QueueOK'
  BY <1>1, <1>4, <1>6, FailKeeps
<1>8. InQueue' = InQueue + Len(es) + 1
  BY <1>1, <1>4, <1>6, FailKeeps
<1>9. stats'["malformed"] = stats["malformed"] + Extra(counted)
  BY <1>1, <1>4, <1>6, FailKeeps
<1>10. \A c \in Counters \ {"events_dropped", "malformed"} :
         stats'[c] = stats[c] + Lookup(amounts, c, 0)
  BY <1>1, <1>4, <1>6, FailKeeps
<1>11. stats'["events_dropped"] >= stats["events_dropped"]
  BY <1>1, <1>4, <1>6, FailKeeps
<1>12. PICK error \in Item :
        /\ error.kind = "error"
        /\ stats'["events_dropped"] = stats["events_dropped"] =>
             queue' = queue \o Append(es, error)
  <2>1. \E error \in Item :
          /\ error.kind = "error"
          /\ stats'["events_dropped"] = stats["events_dropped"] =>
               queue' = queue \o Append(es, error)
    BY <1>1, <1>4, <1>6, FailKeeps
  <2>2. QED BY <2>1
<1>13. stats'["events_dropped"] = stats["events_dropped"] =>
         queue' = Append(queue \o es, error)
  BY <1>2, <1>4, <1>12, AppendAtTheEnd
<1>14. /\ StoreOK' /\ tEvents' = <<>> /\ UNCHANGED <<held, tDropped>>
  BY <1>1, TakeFromStore
<1>15. WatchOK' /\ InWatch' = InWatch
  BY <1>1, <1>3, WatchKept
<1>16. SamplingOK' /\ InSampling' = InSampling
  BY <1>1, <1>3, SamplingKept
<1>17. Rest'
  BY <1>1, <1>2, <1>3 DEF Rest
<1>18. ToldTyped'
  BY <1>1, <1>3 DEF ToldTyped
<1>19. HandedOver'
  BY <1>1, <1>3, <1>14 DEF HandedOver
<1>20. Accounted'
  <2> DEFINE a == InQueue
             b == InQueue'
             n == Len(tEvents)
  <2>1. b = a + n + 1 /\ n \in Nat /\ a \in Nat
    BY <1>2, <1>4, <1>8
  <2>2. InStore' = tDropped /\ InStore = tDropped + n
    <3>1. Len(tEvents') = 0 /\ tDropped' = tDropped
      BY <1>14
    <3>2. QED BY <1>2, <3>1 DEF InStore
  <2>3. raised = a + InStore + InWatch + InSampling
    BY <1>1 DEF Accounted
  <2>4. Accounted' <=> raised' = b + InStore' + InWatch' + InSampling'
    BY DEF Accounted
  <2> HIDE DEF a, b, n
  <2>5. raised' = b + InStore' + InWatch' + InSampling'
    BY <1>2, <1>15, <1>16, <2>1, <2>2, <2>3
  <2>6. QED BY <2>4, <2>5
<1>21. EveryPacketFiled'
  <2> DEFINE p == Lookup(amounts, "packets", 0)
             u == Lookup(amounts, "unsupported", 0)
             f == Lookup(amounts, "parse_errors", 0)
             m == Extra(counted)
             h == IF pc = "walk" THEN 1 ELSE 0
  <2>1. /\ p \in Nat /\ u \in Nat /\ f \in Nat /\ m \in Nat /\ h \in Nat
        /\ 0 \in Nat
    BY DEF Lookup, Extra
  <2>2. /\ stats'["packets"] = stats["packets"] + p
        /\ stats'["malformed"] = stats["malformed"] + m
        /\ stats'["unsupported"] = stats["unsupported"] + u
        /\ stats'["parse_errors"] = stats["parse_errors"] + f
        /\ stats'["messages"] = stats["messages"] + 0
    <3>1. stats \in [Counters -> Nat]
      BY <1>1 DEF QueueOK
    <3>2. {"packets", "unsupported", "parse_errors", "messages"}
            \subseteq Counters \ {"events_dropped", "malformed"}
      BY DEF Counters
    <3>3. QED BY <1>9, <1>10, <3>2
  <2>3. p + h = m + u + f /\ (IF pc' = "walk" THEN 1 ELSE 0) = 0
    OBVIOUS
  <2> HIDE DEF p, u, f, m
  <2>4. p + (IF pc = "walk" THEN 1 ELSE 0)
          = m + u + f + 0 + (IF pc' = "walk" THEN 1 ELSE 0)
    BY <2>1, <2>3
  <2>5. QED BY <1>1, <2>1, <2>2, <2>4, FiledBy
<1>22. stats'["events_dropped"] \in Nat /\ queue' \in Seq(Item)
  <2>1. stats' \in [Counters -> Nat] /\ "events_dropped" \in Counters
    BY <1>7 DEF QueueOK, Counters
  <2>2. QED BY <1>7, <2>1 DEF QueueOK
<1>23. queue \o es \in Seq(Item)
  BY <1>2, <1>4
<1>24. ASSUME stats'["events_dropped"] = stats["events_dropped"], NEW k
       PROVE  /\ LayoutOnce(queue', <<>>, toldLayout, k)
                    = LayoutAfter(queue \o es, k, toldLayout[k])
              /\ RateOnce(queue', <<>>, toldRate, k)
                    = RateAfter(queue \o es, k, toldRate[k])
  <2> DEFINE qs == queue \o es
  <2>1. queue' = Append(qs, error) /\ qs \in Seq(Item)
    BY <1>13, <1>23, <1>24
  <2> HIDE DEF qs
  <2>2. /\ LayoutAfter(queue', k, toldLayout[k])
             = LayoutAfter(qs, k, toldLayout[k])
        /\ RateAfter(queue', k, toldRate[k]) = RateAfter(qs, k, toldRate[k])
    BY <1>12, <2>1, ToldBeforeOne
  <2>3. QED BY <1>22, <2>2, NothingPending DEF qs
<1>25. LayoutsTold'
  <2>1. ASSUME stats'["events_dropped"] = stats["events_dropped"], NEW k
        PROVE  LayoutOnce(queue', tEvents', toldLayout, k)
                 = LayoutOnce(queue, tEvents, toldLayout, k)
    BY <1>5, <1>14, <1>24, <2>1 DEF LayoutOnce
  <2>2. QED BY <1>1, <1>2, <1>3, <1>11, <1>14, <1>22, <2>1, LayoutsKept
<1>26. RatesTold'
  <2>1. ASSUME stats'["events_dropped"] = stats["events_dropped"],
               escaped = 0, NEW k
        PROVE  RateOnce(queue', changes', toldRate, k)
                 = RateOnce(queue, changes, toldRate, k)
    <3>1. changes = <<>> /\ changes' = <<>>
      BY <1>1, <1>3, <2>1 DEF HandedOver
    <3>2. RateAfter(queue \o es, k, toldRate[k])
            = RateAfter(queue, k, toldRate[k])
      BY <1>2, <1>5, KindsOfItems, QueuedOthers
    <3>3. RateOnce(queue, <<>>, toldRate, k) = RateAfter(queue, k, toldRate[k])
      BY <1>2, NothingPending
    <3>4. RateOnce(queue', <<>>, toldRate, k)
            = RateAfter(queue \o es, k, toldRate[k])
      BY <1>24, <2>1
    <3>5. QED BY <3>1, <3>2, <3>3, <3>4
  <2>2. QED BY <1>1, <1>2, <1>3, <1>11, <1>22, <2>1, RatesKept
<1>27. QED
  BY <1>7, <1>14, <1>15, <1>16, <1>17, <1>18, <1>19, <1>20, <1>21, <1>25,
     <1>26 DEF IInv

(* Between datagrams nothing is learned that is not handed over.           *)
LEMMA NothingLearnedYet ==
  ASSUME IInv, pc = "idle", UNCHANGED storeVars
  PROVE  Learned = <<>> /\ T!TakeEvents
<1>1. tEvents = <<>>
  BY DEF IInv, HandedOver
<1>2. Learned = <<>>
  BY <1>1, NoneTagged DEF Learned
<1>3. QED BY <1>1, <1>2 DEF storeVars, T!TakeEvents

LEMMA ShortIInv ==
  ASSUME IInv, NEW a \in Sources, Short(a)
  PROVE  IInv'
<1> DEFINE amounts == [packets |-> 1]
<1>1. /\ pc = "idle" /\ pc' = "idle" /\ raised' = raised + 1
      /\ FailAfter(<<>>, KeyOf[a], "short", FALSE, amounts)
      /\ UNCHANGED storeVars
      /\ UNCHANGED <<watchVars, samplingVars, sets, ghosts, escaped>>
  BY DEF Short, ExporterKey, components
<1>2. KeyOf[a] \in Exporters
  BY DEF Exporters
<1>3. /\ \A c \in DOMAIN amounts : amounts[c] \in Nat
      /\ Lookup(amounts, "packets", 0) = 1
      /\ Lookup(amounts, "unsupported", 0) = 0
      /\ Lookup(amounts, "parse_errors", 0) = 0
      /\ Lookup(amounts, "messages", 0) = 0
  BY DEF Lookup
<1>4. Learned = <<>> /\ T!TakeEvents
  BY <1>1, NothingLearnedYet
<1> HIDE DEF amounts
<1>5. Extra(FALSE) = 1
  BY DEF Extra
<1>6. Lookup(amounts, "packets", 0) + (IF pc = "walk" THEN 1 ELSE 0)
        = Extra(FALSE) + Lookup(amounts, "unsupported", 0)
          + Lookup(amounts, "parse_errors", 0)
  <2> DEFINE p == Lookup(amounts, "packets", 0)
             u == Lookup(amounts, "unsupported", 0)
             f == Lookup(amounts, "parse_errors", 0)
             m == Extra(FALSE)
             h == IF pc = "walk" THEN 1 ELSE 0
  <2>1. p = 1 /\ u = 0 /\ f = 0 /\ m = 1 /\ h = 0
    BY <1>1, <1>3, <1>5
  <2> HIDE DEF p, u, f, m, h
  <2>2. p + h = m + u + f
    BY <2>1
  <2>3. QED BY <2>2 DEF p, u, f, m, h
<1>7. FailAfter(Learned, KeyOf[a], "short", FALSE, amounts)
  BY <1>1, <1>4
<1>8. QED BY <1>1, <1>2, <1>3, <1>4, <1>6, <1>7, FailIInv

LEMMA UnsupportedIInv ==
  ASSUME IInv, NEW a \in Sources, Unsupported(a)
  PROVE  IInv'
<1> DEFINE amounts == [packets |-> 1, unsupported |-> 1]
<1>1. /\ pc = "idle" /\ pc' = "idle" /\ raised' = raised + 1
      /\ FailAfter(<<>>, KeyOf[a], "unsupported", TRUE, amounts)
      /\ UNCHANGED storeVars
      /\ UNCHANGED <<watchVars, samplingVars, sets, ghosts, escaped>>
  BY DEF Unsupported, ExporterKey, components
<1>2. KeyOf[a] \in Exporters
  BY DEF Exporters
<1>3. /\ \A c \in DOMAIN amounts : amounts[c] \in Nat
      /\ Lookup(amounts, "packets", 0) = 1
      /\ Lookup(amounts, "unsupported", 0) = 1
      /\ Lookup(amounts, "parse_errors", 0) = 0
      /\ Lookup(amounts, "messages", 0) = 0
  BY DEF Lookup
<1>4. Learned = <<>> /\ T!TakeEvents
  BY <1>1, NothingLearnedYet
<1> HIDE DEF amounts
<1>5. Extra(TRUE) = 0
  BY DEF Extra
<1>6. Lookup(amounts, "packets", 0) + (IF pc = "walk" THEN 1 ELSE 0)
        = Extra(TRUE) + Lookup(amounts, "unsupported", 0)
          + Lookup(amounts, "parse_errors", 0)
  <2> DEFINE p == Lookup(amounts, "packets", 0)
             u == Lookup(amounts, "unsupported", 0)
             f == Lookup(amounts, "parse_errors", 0)
             m == Extra(TRUE)
             h == IF pc = "walk" THEN 1 ELSE 0
  <2>1. p = 1 /\ u = 1 /\ f = 0 /\ m = 0 /\ h = 0
    BY <1>1, <1>3, <1>5
  <2> HIDE DEF p, u, f, m, h
  <2>2. p + h = m + u + f
    BY <2>1
  <2>3. QED BY <2>2 DEF p, u, f, m, h
<1>7. FailAfter(Learned, KeyOf[a], "unsupported", TRUE, amounts)
  BY <1>1, <1>4
<1>8. QED BY <1>1, <1>2, <1>3, <1>4, <1>6, <1>7, FailIInv

LEMMA MalformedIInv ==
  ASSUME IInv, Malformed
  PROVE  IInv'
<1> DEFINE amounts == [parse_errors |-> 1]
           e == msg.exporter
<1>1. /\ pc = "walk" /\ pc' = "idle" /\ raised' = raised + 1
      /\ FailAfter(Learned, e, "malformed", TRUE, amounts)
      /\ T!TakeEvents
      /\ UNCHANGED <<watchVars, samplingVars, sets, ghosts, escaped>>
  BY DEF Malformed
<1>2. e \in Exporters
  BY <1>1 DEF IInv, Rest, Message
<1>3. /\ \A c \in DOMAIN amounts : amounts[c] \in Nat
      /\ Lookup(amounts, "packets", 0) = 0
      /\ Lookup(amounts, "unsupported", 0) = 0
      /\ Lookup(amounts, "parse_errors", 0) = 1
      /\ Lookup(amounts, "messages", 0) = 0
  BY DEF Lookup
<1> HIDE DEF amounts, e
<1>4. Extra(TRUE) = 0
  BY DEF Extra
<1>5. Lookup(amounts, "packets", 0) + (IF pc = "walk" THEN 1 ELSE 0)
        = Extra(TRUE) + Lookup(amounts, "unsupported", 0)
          + Lookup(amounts, "parse_errors", 0)
  <2> DEFINE p == Lookup(amounts, "packets", 0)
             u == Lookup(amounts, "unsupported", 0)
             f == Lookup(amounts, "parse_errors", 0)
             m == Extra(TRUE)
             h == IF pc = "walk" THEN 1 ELSE 0
  <2>1. p = 0 /\ u = 0 /\ f = 1 /\ m = 0 /\ h = 1
    BY <1>1, <1>3, <1>4
  <2> HIDE DEF p, u, f, m, h
  <2>2. p + h = m + u + f
    BY <2>1
  <2>3. QED BY <2>2 DEF p, u, f, m, h
<1>6. QED BY <1>1, <1>2, <1>3, <1>5, FailIInv

(* Where nothing is queued, dropped, learned or noted, what is told stands. *)
LEMMA NothingQueued ==
  ASSUME IInv, stats'["events_dropped"] = stats["events_dropped"],
         UNCHANGED <<queue, held, tDropped, tEvents, changes, rates,
                     toldLayout, toldRate>>,
         escaped' = escaped \/ escaped' = escaped + 1
  PROVE  LayoutsTold' /\ RatesTold'
<1>1. /\ LayoutsTold /\ RatesTold /\ tDropped \in Nat /\ escaped \in Nat
      /\ stats["events_dropped"] \in Nat
  BY Before
<1>2. stats'["events_dropped"] >= stats["events_dropped"]
      /\ stats'["events_dropped"] \in Nat
  BY <1>1
<1>3. LayoutsTold'
  BY <1>1, <1>2, LayoutsKept
<1>4. RatesTold'
  BY <1>1, <1>2, RatesKept
<1>5. QED BY <1>3, <1>4

LEMMA HeaderIInv ==
  ASSUME IInv, NEW a \in Sources, NEW d \in Domains, NEW v \in Versions,
         NEW seq \in Seqs, Header(a, d, v, seq)
  PROVE  IInv'
<1> DEFINE amounts == [packets |-> 1]
<1>1. /\ StoreOK /\ WatchOK /\ SamplingOK /\ QueueOK /\ Rest /\ ToldTyped
      /\ EveryPacketFiled /\ HandedOver /\ Accounted
      /\ InQueue \in Nat /\ InStore \in Nat /\ InWatch \in Nat
      /\ InSampling \in Nat
  BY Before
<1>2. /\ pc = "idle" /\ pc' = "walk" /\ sets' = 0 /\ Count(amounts)
      /\ UNCHANGED storeVars /\ UNCHANGED watchVars /\ UNCHANGED samplingVars
      /\ UNCHANGED <<held, tDropped, tEvents, gapEvents, changes, rates>>
      /\ UNCHANGED <<toldLayout, toldRate, taken, queue, raised, escaped>>
  BY DEF Header, components, ghosts, storeVars, watchVars, samplingVars
<1>3. msg' \in Message
  <2>1. KeyOf[a] \in Exporters
    BY DEF Exporters
  <2>2. CASE v \in {9, 10} /\ msg' = [NoMessage EXCEPT
                  !.exporter = ExporterKey(a), !.domain = d, !.version = v,
                  !.seq = seq]
    <3> DEFINE recs == <<>>
    <3>1. msg' = [exporter |-> KeyOf[a], domain |-> d, version |-> v,
                  seq |-> seq, flows |-> 0, options |-> recs]
      BY <2>2 DEF NoMessage, ExporterKey
    <3>2. recs \in Seq(S!OptionRecord) /\ 0 \in Nat /\ v \in {5, 9, 10}
      BY <2>2
    <3> HIDE DEF recs
    <3>3. QED BY <2>1, <3>1, <3>2 DEF Message
  <2>3. ASSUME v = 5, NEW n \in 0..MaxRecords, NEW rate \in HeaderRates,
               msg' = [exporter |-> ExporterKey(a), domain |-> d,
                       version |-> 5, seq |-> seq, flows |-> n,
                       options |-> IF rate > 1
                         THEN <<[interval |-> rate, sampler |-> 0,
                                 every |-> 0, space |-> S!Absent, size |-> 0,
                                 population |-> 0]>>
                         ELSE <<>>]
        PROVE  msg' \in Message
    <3> DEFINE rec == [interval |-> rate, sampler |-> 0, every |-> 0,
                       space |-> S!Absent, size |-> 0, population |-> 0]
               recs == IF rate > 1 THEN <<rec>> ELSE <<>>
    <3>1. rate \in Nat /\ n \in Nat
      BY DecoderAssumption
    <3>2. rec \in S!OptionRecord
      BY <3>1 DEF S!OptionRecord
    <3> HIDE DEF rec
    <3>3. recs \in Seq(S!OptionRecord)
      BY <3>2
    <3>4. msg' = [exporter |-> KeyOf[a], domain |-> d, version |-> 5,
                  seq |-> seq, flows |-> n, options |-> recs]
      BY <2>3 DEF ExporterKey, rec
    <3> HIDE DEF recs
    <3>5. QED BY <2>1, <3>1, <3>3, <3>4 DEF Message
  <2>4. QED BY <2>2, <2>3 DEF Header
<1>4. Rest'
  BY <1>1, <1>2, <1>3, DecoderAssumption DEF Rest
<1>5. /\ \A c \in DOMAIN amounts : amounts[c] \in Nat
      /\ "events_dropped" \notin DOMAIN amounts
      /\ Lookup(amounts, "packets", 0) = 1
      /\ Lookup(amounts, "malformed", 0) = 0
      /\ Lookup(amounts, "unsupported", 0) = 0
      /\ Lookup(amounts, "parse_errors", 0) = 0
      /\ Lookup(amounts, "messages", 0) = 0
  BY DEF Lookup
<1> HIDE DEF amounts
<1>6. QueueOK' /\ InQueue' = InQueue
  BY <1>1, <1>2, <1>5, CountKeeps
<1>7. stats'["events_dropped"] = stats["events_dropped"]
  BY <1>1, <1>2, <1>5, CountKeeps
<1>8. \A c \in Counters : stats'[c] = stats[c] + Lookup(amounts, c, 0)
  BY <1>1, <1>2, <1>5, CountKeeps
<1>9. StoreOK' /\ InStore' = InStore
  BY <1>1, <1>2, StoreKept
<1>10. WatchOK' /\ InWatch' = InWatch
  BY <1>1, <1>2, WatchKept
<1>11. SamplingOK' /\ InSampling' = InSampling
  BY <1>1, <1>2, SamplingKept
<1>12. ToldTyped'
  BY <1>1, <1>2 DEF ToldTyped
<1>13. HandedOver'
  BY <1>1, <1>2 DEF HandedOver
<1>14. Accounted'
  BY <1>1, <1>2, <1>6, <1>9, <1>10, <1>11 DEF Accounted
<1>15. EveryPacketFiled'
  <2>1. /\ stats'["packets"] = stats["packets"] + 1
        /\ stats'["malformed"] = stats["malformed"] + 0
        /\ stats'["unsupported"] = stats["unsupported"] + 0
        /\ stats'["parse_errors"] = stats["parse_errors"] + 0
        /\ stats'["messages"] = stats["messages"] + 0
    BY <1>5, <1>8 DEF Counters
  <2>2. /\ 1 + (IF pc = "walk" THEN 1 ELSE 0)
             = 0 + 0 + 0 + 0 + (IF pc' = "walk" THEN 1 ELSE 0)
        /\ 0 \in Nat /\ 1 \in Nat
    BY <1>2
  <2>3. QED BY <1>1, <2>1, <2>2, FiledBy
<1>16. LayoutsTold' /\ RatesTold'
  BY <1>2, <1>7, NothingQueued
<1>17. QED
  BY <1>4, <1>6, <1>9, <1>10, <1>11, <1>12, <1>13, <1>14, <1>15, <1>16 DEF IInv

LEMMA RaiseIInv ==
  ASSUME IInv, Raise
  PROVE  IInv'
<1>1. /\ StoreOK /\ WatchOK /\ SamplingOK /\ QueueOK /\ Rest /\ ToldTyped
      /\ EveryPacketFiled /\ HandedOver /\ Accounted
      /\ escaped \in Nat
  BY Before
<1>2. /\ pc = "note" /\ pc' = "idle" /\ escaped' = escaped + 1
      /\ UNCHANGED storeVars /\ UNCHANGED watchVars /\ UNCHANGED samplingVars
      /\ UNCHANGED <<held, tDropped, tEvents, gapEvents, changes, rates>>
      /\ UNCHANGED <<toldLayout, toldRate, taken, queue, stats, raised, sets>>
  BY DEF Raise, ToNote, components, ghosts, storeVars, watchVars, samplingVars
<1>3. QueueOK' /\ InQueue' = InQueue
  BY <1>1, <1>2 DEF QueueOK, InQueue
<1>4. StoreOK' /\ InStore' = InStore
  BY <1>1, <1>2, StoreKept
<1>5. WatchOK' /\ InWatch' = InWatch
  BY <1>1, <1>2, WatchKept
<1>6. SamplingOK' /\ InSampling' = InSampling
  BY <1>1, <1>2, SamplingKept
<1>7. Rest'
  BY <1>1, <1>2 DEF Rest
<1>8. ToldTyped'
  BY <1>1, <1>2 DEF ToldTyped
<1>9. HandedOver'
  BY <1>1, <1>2 DEF HandedOver
<1>10. Accounted'
  BY <1>1, <1>2, <1>3, <1>4, <1>5, <1>6 DEF Accounted
<1>11. EveryPacketFiled'
  BY <1>1, <1>2 DEF EveryPacketFiled
<1>12. LayoutsTold' /\ RatesTold'
  BY <1>2, NothingQueued
<1>13. QED
  BY <1>3, <1>4, <1>5, <1>6, <1>7, <1>8, <1>9, <1>10, <1>11, <1>12 DEF IInv

(* No events tell nothing.                                                 *)
LEMMA NothingTold ==
  ASSUME NEW k, NEW known
  PROVE  /\ LayoutAfter(<<>>, k, known) = known
         /\ RateAfter(<<>>, k, known) = known
<1>1. Telling(<<>>, "template", k) = {} /\ Telling(<<>>, "sampling", k) = {}
  BY DEF Telling
<1>2. QED BY <1>1, Told

LEMMA TakeIInv ==
  ASSUME IInv, Take
  PROVE  IInv'
<1>1. /\ StoreOK /\ WatchOK /\ SamplingOK /\ QueueOK /\ Rest /\ ToldTyped
      /\ EveryPacketFiled /\ HandedOver /\ Accounted
      /\ LayoutsTold /\ RatesTold /\ queue \in Seq(Item)
      /\ stats["events_dropped"] \in Nat /\ taken \in Nat
      /\ DOMAIN held \subseteq TemplateKeys /\ DOMAIN rates \subseteq S!Keys
  BY Before
<1>2. /\ pc = "idle" /\ pc' = pc /\ taken' = taken + Len(queue)
      /\ queue' = <<>>
      /\ UNCHANGED storeVars /\ UNCHANGED watchVars /\ UNCHANGED samplingVars
      /\ UNCHANGED <<held, tDropped, tEvents, gapEvents, changes, rates>>
      /\ UNCHANGED <<msg, stats, raised, sets, escaped>>
  BY DEF Take, components, storeVars, watchVars, samplingVars
<1>3. /\ toldLayout' = [k \in TemplateKeys |->
                          LayoutAfter(queue, k, toldLayout[k])]
      /\ toldRate' = [k \in S!Keys |-> RateAfter(queue, k, toldRate[k])]
  BY DEF Take
<1>4. <<>> \in Seq(Item) /\ Len(<<>>) = 0 /\ Len(queue) \in Nat
  BY <1>1
<1>5. QueueOK' /\ taken' \in Nat
  BY <1>1, <1>2, <1>4, Ceilings DEF QueueOK
<1>6. InQueue' = InQueue
  <2> DEFINE n == Len(queue)
             d == stats["events_dropped"]
  <2>1. InQueue = taken + d + n /\ n \in Nat /\ d \in Nat
    BY <1>1, <1>4 DEF InQueue
  <2>2. InQueue' = (taken + n) + d + 0
    BY <1>2, <1>4 DEF InQueue
  <2> HIDE DEF n, d
  <2>3. QED BY <1>1, <2>1, <2>2
<1>7. StoreOK' /\ InStore' = InStore
  BY <1>1, <1>2, StoreKept
<1>8. WatchOK' /\ InWatch' = InWatch
  BY <1>1, <1>2, WatchKept
<1>9. SamplingOK' /\ InSampling' = InSampling
  BY <1>1, <1>2, SamplingKept
<1>10. Rest'
  BY <1>1, <1>2, <1>5 DEF Rest
<1>11. ToldTyped'
  <2>1. ASSUME NEW k \in TemplateKeys
        PROVE  LayoutAfter(queue, k, toldLayout[k]) \in T!Entries \cup {NoEntry}
    <3>1. toldLayout[k] \in T!Entries \cup {NoEntry}
      BY <1>1 DEF ToldTyped
    <3>2. QED BY <1>1, <3>1, ToldTypes
  <2>2. ASSUME NEW k \in S!Keys
        PROVE  RateAfter(queue, k, toldRate[k]) \in Nat \ {0}
    <3>1. toldRate[k] \in Nat \ {0}
      BY <1>1 DEF ToldTyped
    <3>2. QED BY <1>1, <3>1, ToldTypes
  <2>3. QED BY <1>3, <2>1, <2>2 DEF ToldTyped
<1>12. HandedOver'
  BY <1>1, <1>2 DEF HandedOver
<1>13. Accounted'
  BY <1>1, <1>2, <1>6, <1>7, <1>8, <1>9 DEF Accounted
<1>14. EveryPacketFiled'
  BY <1>1, <1>2 DEF EveryPacketFiled
<1>15. LayoutsTold'
  <2>1. ASSUME stats["events_dropped"] = 0, tDropped = 0, NEW k \in DOMAIN held
        PROVE  LayoutOnce(queue', tEvents', toldLayout', k) = held[k]
    <3>1. tEvents = <<>> /\ tEvents' = <<>>
      BY <1>1, <1>2 DEF HandedOver
    <3>2. LayoutOnce(queue, tEvents, toldLayout, k) = held[k]
      BY <1>1, <2>1 DEF LayoutsTold
    <3>3. toldLayout'[k] = LayoutAfter(queue, k, toldLayout[k])
      BY <1>1, <1>3, <2>1
    <3>4. LayoutAfter(queue, k, toldLayout[k]) = held[k]
      BY <1>1, <3>1, <3>2, NothingPending
    <3>5. LayoutOnce(<<>>, <<>>, toldLayout', k)
            = LayoutAfter(<<>>, k, toldLayout'[k])
      BY <1>4, NothingPending
    <3>6. LayoutAfter(<<>>, k, toldLayout'[k]) = toldLayout'[k]
      BY NothingTold
    <3>7. QED BY <1>2, <3>1, <3>3, <3>4, <3>5, <3>6
  <2>2. QED BY <1>2, <2>1 DEF LayoutsTold
<1>16. RatesTold'
  <2>1. ASSUME stats["events_dropped"] = 0, escaped = 0, NEW k \in DOMAIN rates
        PROVE  RateOnce(queue', changes', toldRate', k) = rates[k]
    <3>1. changes = <<>> /\ changes' = <<>>
      BY <1>1, <1>2, <2>1 DEF HandedOver
    <3>2. RateOnce(queue, changes, toldRate, k) = rates[k]
      BY <1>1, <2>1 DEF RatesTold
    <3>3. toldRate'[k] = RateAfter(queue, k, toldRate[k])
      BY <1>1, <1>3, <2>1
    <3>4. RateAfter(queue, k, toldRate[k]) = rates[k]
      BY <1>1, <3>1, <3>2, NothingPending
    <3>5. RateOnce(<<>>, <<>>, toldRate', k) = RateAfter(<<>>, k, toldRate'[k])
      BY <1>4, NothingPending
    <3>6. RateAfter(<<>>, k, toldRate'[k]) = toldRate'[k]
      BY NothingTold
    <3>7. QED BY <1>2, <3>1, <3>3, <3>4, <3>5, <3>6
  <2>2. QED BY <1>2, <2>1 DEF RatesTold
<1>17. QED
  BY <1>5, <1>6, <1>7, <1>8, <1>9, <1>10, <1>11, <1>12, <1>13, <1>14, <1>15,
     <1>16 DEF IInv

(* A set that is walked leaves the rest of the decoder as it is.           *)
LEMMA NextSetKeeps ==
  ASSUME IInv, NextSet
  PROVE  /\ pc = "walk" /\ pc' = "walk" /\ sets' \in 0..MaxSets
         /\ msg \in Message
         /\ WatchOK' /\ InWatch' = InWatch
         /\ SamplingOK' /\ InSampling' = InSampling
         /\ ToldTyped' /\ HandedOver'
         /\ UNCHANGED <<changes, rates, queue, toldLayout, toldRate, taken,
                        escaped>>
<1>1. WatchOK /\ SamplingOK /\ Rest /\ ToldTyped /\ HandedOver
  BY DEF IInv
<1>2. /\ pc = "walk" /\ pc' = "walk" /\ sets < MaxSets /\ sets' = sets + 1
      /\ UNCHANGED watchVars /\ UNCHANGED samplingVars
      /\ UNCHANGED <<gapEvents, changes, rates, queue, escaped>>
      /\ UNCHANGED <<toldLayout, toldRate, taken>>
  BY DEF NextSet, ghosts, watchVars, samplingVars
<1>3. sets' \in 0..MaxSets /\ msg \in Message
  BY <1>1, <1>2, DecoderAssumption DEF Rest
<1>4. WatchOK' /\ InWatch' = InWatch
  BY <1>1, <1>2, WatchKept
<1>5. SamplingOK' /\ InSampling' = InSampling
  BY <1>1, <1>2, SamplingKept
<1>6. ToldTyped'
  BY <1>1, <1>2 DEF ToldTyped
<1>7. HandedOver'
  BY <1>1, <1>2 DEF HandedOver
<1>8. QED BY <1>2, <1>3, <1>4, <1>5, <1>6, <1>7

LEMMA TemplateSetIInv ==
  ASSUME IInv, NEW tid \in Tids, NEW entry \in T!Entries,
         TemplateSet(tid, entry)
  PROVE  IInv'
<1> DEFINE k == <<msg.exporter, msg.domain, tid>>
           fresh == learned' - learned
           amounts == [templates_new |-> fresh]
<1>1. /\ StoreOK /\ QueueOK /\ Rest /\ EveryPacketFiled /\ Accounted
      /\ LayoutsTold /\ RatesTold /\ queue \in Seq(Item)
      /\ stats["events_dropped"] \in Nat
      /\ tEvents \in Seq(T!Event) /\ tDropped \in Nat /\ learned \in Nat
      /\ raised \in Nat /\ escaped \in Nat
      /\ InQueue \in Nat /\ InStore \in Nat /\ InWatch \in Nat
      /\ InSampling \in Nat
  BY Before
<1>2. /\ NextSet /\ T!Put(k, entry) /\ Count(amounts)
      /\ raised' = raised + learned' - learned /\ msg' = msg
  BY DEF TemplateSet
<1>3. /\ pc = "walk" /\ pc' = "walk" /\ sets' \in 0..MaxSets
      /\ msg \in Message
      /\ WatchOK' /\ InWatch' = InWatch
      /\ SamplingOK' /\ InSampling' = InSampling
      /\ ToldTyped' /\ HandedOver'
      /\ UNCHANGED <<changes, rates, queue, toldLayout, toldRate, taken,
                     escaped>>
  BY <1>2, NextSetKeeps
<1>4. k \in TemplateKeys
  BY <1>3 DEF Message, TemplateKeys
<1> HIDE DEF k
<1>5. StoreOK'
  BY <1>1, <1>2, <1>4, PutStore
<1>6. /\ DOMAIN held' \subseteq DOMAIN held \cup {k}
      /\ \A x \in DOMAIN held' : held'[x] = IF x = k THEN entry ELSE held[x]
  BY <1>1, <1>2, <1>4, PutStore
<1>7. /\ tDropped' >= tDropped /\ learned' >= learned
      /\ tDropped' + Len(tEvents')
           = tDropped + Len(tEvents) + learned' - learned
  BY <1>1, <1>2, <1>4, PutStore
<1>8. \/ k \in DOMAIN held /\ held[k] = entry /\ tEvents' = tEvents
      \/ /\ News(k, entry) \in T!Event
         /\ tDropped' = tDropped => tEvents' = Append(tEvents, News(k, entry))
  BY <1>1, <1>2, <1>4, PutStore
<1>9. /\ learned' \in Nat /\ tDropped' \in Nat /\ fresh \in Nat
      /\ Len(tEvents') \in Nat
  <2>1. learned' \in Nat /\ tDropped' \in Nat /\ Len(tEvents') \in Nat
    BY <1>5 DEF StoreOK, T!StoreTypeOK
  <2>2. learned' >= learned /\ learned \in Nat
    BY <1>1, <1>7
  <2>3. fresh \in Nat
    <3> DEFINE a == learned'
    <3>1. a \in Nat /\ a >= learned /\ learned \in Nat
      BY <2>1, <2>2
    <3> HIDE DEF a
    <3>2. a - learned \in Nat
      BY <3>1
    <3>3. QED BY <3>2 DEF a
  <2>4. QED BY <2>1, <2>3
<1> HIDE DEF fresh
<1>10. /\ \A c \in DOMAIN amounts : amounts[c] \in Nat
       /\ "events_dropped" \notin DOMAIN amounts
       /\ \A c \in {"packets", "malformed", "unsupported", "parse_errors",
                    "messages"} : Lookup(amounts, c, 0) = 0
  BY <1>9 DEF Lookup
<1> HIDE DEF amounts
<1>11. QueueOK' /\ InQueue' = InQueue
  BY <1>1, <1>2, <1>3, <1>10, CountKeeps
<1>12. stats'["events_dropped"] = stats["events_dropped"]
  BY <1>1, <1>2, <1>3, <1>10, CountKeeps
<1>13. \A c \in Counters : stats'[c] = stats[c] + Lookup(amounts, c, 0)
  BY <1>1, <1>2, <1>3, <1>10, CountKeeps
<1>14. Rest'
  <2>1. raised' = raised + fresh
    BY <1>1, <1>2, <1>9 DEF fresh
  <2>2. raised' \in Nat
    BY <1>1, <1>9, <2>1
  <2>3. taken' \in Nat /\ escaped' \in Nat
    BY <1>1, <1>3 DEF Rest
  <2>4. QED BY <1>2, <1>3, <2>2, <2>3 DEF Rest
<1>15. Accounted'
  <2> DEFINE n == Len(tEvents)
             m == Len(tEvents')
  <2>1. n \in Nat /\ InStore = tDropped + n /\ InStore' = tDropped' + m
    BY <1>1 DEF InStore
  <2>2. raised = InQueue + InStore + InWatch + InSampling
    BY <1>1 DEF Accounted
  <2>3. Accounted' <=> raised' = InQueue + InStore' + InWatch + InSampling
    BY <1>3, <1>11 DEF Accounted
  <2>4. m \in Nat /\ tDropped' + m = tDropped + n + learned' - learned
    BY <1>7, <1>9
  <2> DEFINE a == learned'
             b == tDropped'
             i == InStore'
  <2>5. /\ a \in Nat /\ b \in Nat /\ i = b + m
        /\ b + m = tDropped + n + a - learned
    BY <1>9, <2>1, <2>4
  <2>6. tDropped \in Nat /\ learned \in Nat /\ raised' = raised + a - learned
    BY <1>1, <1>2
  <2> HIDE DEF n, m, a, b, i
  <2>7. i = InStore + a - learned /\ i \in Nat
    BY <2>1, <2>4, <2>5, <2>6
  <2>8. /\ InQueue \in Nat /\ InStore \in Nat /\ InWatch \in Nat
        /\ InSampling \in Nat
    BY <1>1
  <2>9. raised' = InQueue + i + InWatch + InSampling
    <3>1. raised' = raised + a - learned /\ i = InStore + a - learned
      BY <2>6, <2>7
    <3>2. raised = InQueue + InStore + InWatch + InSampling /\ a \in Nat
          /\ learned \in Nat
      BY <2>2, <2>5, <2>6
    <3>3. QED BY <2>8, <3>1, <3>2
  <2>10. QED BY <2>3, <2>9 DEF i
<1>16. EveryPacketFiled'
  <2>1. /\ stats'["packets"] = stats["packets"] + 0
        /\ stats'["malformed"] = stats["malformed"] + 0
        /\ stats'["unsupported"] = stats["unsupported"] + 0
        /\ stats'["parse_errors"] = stats["parse_errors"] + 0
        /\ stats'["messages"] = stats["messages"] + 0
    BY <1>10, <1>13 DEF Counters
  <2>2. /\ 0 + (IF pc = "walk" THEN 1 ELSE 0)
             = 0 + 0 + 0 + 0 + (IF pc' = "walk" THEN 1 ELSE 0)
        /\ 0 \in Nat
    BY <1>3
  <2>3. QED BY <1>1, <2>1, <2>2, FiledBy
<1>17. LayoutsTold'
  <2>1. ASSUME stats["events_dropped"] = 0, tDropped' = 0,
               NEW x \in DOMAIN held'
        PROVE  LayoutOnce(queue, tEvents', toldLayout, x) = held'[x]
    <3>1. tDropped = 0 /\ tDropped' = tDropped
      BY <1>1, <1>7, <2>1
    <3>2. x # k => x \in DOMAIN held /\ held'[x] = held[x]
      BY <1>6, <2>1
    <3>3. x = k => held'[x] = entry
      BY <1>6, <2>1
    <3>4. x \in DOMAIN held =>
            LayoutOnce(queue, tEvents, toldLayout, x) = held[x]
      BY <1>1, <2>1, <3>1 DEF LayoutsTold
    <3>5. CASE k \in DOMAIN held /\ held[k] = entry /\ tEvents' = tEvents
      BY <3>2, <3>3, <3>4, <3>5
    <3>6. CASE News(k, entry) \in T!Event
               /\ tEvents' = Append(tEvents, News(k, entry))
      <4> DEFINE ev == News(k, entry)
      <4>1. ev.key = k /\ ev.now = entry
        BY DEF News
      <4>2. ev \in T!Event /\ tEvents' = Append(tEvents, ev)
        BY <3>6
      <4> HIDE DEF ev
      <4>3. LayoutOnce(queue, tEvents', toldLayout, x)
              = IF ev.key = x THEN ev.now
                ELSE LayoutOnce(queue, tEvents, toldLayout, x)
        BY <1>1, <4>2, LayoutOneMore
      <4>4. QED BY <3>2, <3>3, <3>4, <4>1, <4>3
    <3>7. QED BY <1>8, <3>1, <3>5, <3>6
  <2>2. QED BY <1>3, <1>12, <2>1 DEF LayoutsTold
<1>18. RatesTold'
  <2>1. \A x \in DOMAIN rates : RateOnce(queue', changes', toldRate, x)
                                 = RateOnce(queue, changes, toldRate, x)
    BY <1>3
  <2>2. stats'["events_dropped"] >= stats["events_dropped"]
    BY <1>1, <1>12
  <2>3. QED BY <1>1, <1>3, <1>12, <2>1, <2>2, RatesKept
<1>19. QED
  BY <1>3, <1>5, <1>11, <1>14, <1>15, <1>16, <1>17, <1>18 DEF IInv

LEMMA DataSetIInv ==
  ASSUME IInv, NEW tid \in Tids, DataSet(tid)
  PROVE  IInv'
<1> DEFINE k == <<msg.exporter, msg.domain, tid>>
<1>1. /\ StoreOK /\ QueueOK /\ Rest /\ EveryPacketFiled /\ Accounted
      /\ InQueue \in Nat /\ InStore \in Nat /\ InWatch \in Nat
      /\ InSampling \in Nat
  BY Before
<1>2. NextSet /\ T!Get(k) /\ raised' = raised
  BY DEF DataSet
<1>3. /\ pc = "walk" /\ pc' = "walk" /\ sets' \in 0..MaxSets
      /\ msg \in Message
      /\ WatchOK' /\ InWatch' = InWatch
      /\ SamplingOK' /\ InSampling' = InSampling
      /\ ToldTyped' /\ HandedOver'
      /\ UNCHANGED <<changes, rates, queue, toldLayout, toldRate, taken,
                     escaped>>
  BY <1>2, NextSetKeeps
<1>4. k \in TemplateKeys
  BY <1>3 DEF Message, TemplateKeys
<1> HIDE DEF k
<1>5. StoreOK' /\ UNCHANGED <<held, learned, tDropped, tEvents>>
  BY <1>1, <1>2, <1>4, GetStore
<1>6. InStore' = InStore
  BY <1>5 DEF InStore
<1>7. QueueOK' /\ InQueue' = InQueue
      /\ stats'["events_dropped"] = stats["events_dropped"]
      /\ EveryPacketFiled'
  <2>1. CASE UNCHANGED stats
    BY <1>1, <1>3, <2>1 DEF QueueOK, InQueue, EveryPacketFiled
  <2>2. CASE Count([deferred |-> 1])
    <3> DEFINE amounts == [deferred |-> 1]
    <3>1. /\ \A c \in DOMAIN amounts : amounts[c] \in Nat
          /\ "events_dropped" \notin DOMAIN amounts /\ Count(amounts)
          /\ \A c \in {"packets", "malformed", "unsupported", "parse_errors",
                       "messages"} : Lookup(amounts, c, 0) = 0
      BY <2>2 DEF Lookup
    <3> HIDE DEF amounts
    <3>2. QueueOK' /\ InQueue' = InQueue
      BY <1>1, <1>3, <3>1, CountKeeps
    <3>3. stats'["events_dropped"] = stats["events_dropped"]
      BY <1>1, <1>3, <3>1, CountKeeps
    <3>4. \A c \in Counters : stats'[c] = stats[c] + Lookup(amounts, c, 0)
      BY <1>1, <1>3, <3>1, CountKeeps
    <3>5. /\ stats'["packets"] = stats["packets"] + 0
          /\ stats'["malformed"] = stats["malformed"] + 0
          /\ stats'["unsupported"] = stats["unsupported"] + 0
          /\ stats'["parse_errors"] = stats["parse_errors"] + 0
          /\ stats'["messages"] = stats["messages"] + 0
      BY <3>1, <3>4 DEF Counters
    <3>6. /\ 0 + (IF pc = "walk" THEN 1 ELSE 0)
               = 0 + 0 + 0 + 0 + (IF pc' = "walk" THEN 1 ELSE 0)
          /\ 0 \in Nat
      BY <1>3
    <3>7. EveryPacketFiled'
      BY <1>1, <3>5, <3>6, FiledBy
    <3>8. QED BY <3>2, <3>3, <3>7
  <2>3. QED BY <2>1, <2>2 DEF DataSet
<1>8. msg' \in Message
  <2>1. CASE msg' = msg
    BY <1>3, <2>1
  <2>2. ASSUME NEW n \in 0..MaxRecords, msg' = [msg EXCEPT !.flows = @ + n]
        PROVE  msg' \in Message
    <3>1. n \in Nat /\ msg.flows \in Nat
      BY <1>3, DecoderAssumption DEF Message
    <3>2. msg.flows + n \in Nat
      BY <3>1
    <3>3. QED BY <1>3, <2>2, <3>2 DEF Message
  <2>3. ASSUME NEW recs \in OptionSets,
               msg' = [msg EXCEPT !.options = @ \o recs]
        PROVE  msg' \in Message
    <3> DEFINE all == msg.options \o recs
    <3>1. /\ recs \in Seq(S!OptionRecord)
          /\ msg.options \in Seq(S!OptionRecord)
      BY <1>3, DecoderAssumption DEF Message
    <3>2. all \in Seq(S!OptionRecord)
      BY <3>1
    <3>3. msg' = [msg EXCEPT !.options = all]
      BY <2>3
    <3> HIDE DEF all
    <3>4. QED BY <1>3, <3>2, <3>3 DEF Message
  <2>4. QED BY <2>1, <2>2, <2>3 DEF DataSet
<1>9. Rest'
  BY <1>1, <1>2, <1>3, <1>8 DEF Rest
<1>10. Accounted'
  BY <1>1, <1>2, <1>3, <1>6, <1>7 DEF Accounted
<1>11. LayoutsTold' /\ RatesTold'
  BY <1>3, <1>5, <1>7, NothingQueued
<1>12. QED
  BY <1>3, <1>5, <1>7, <1>9, <1>10, <1>11 DEF IInv

(* A parsed message: what its sets taught is queued.                       *)
LEMMA ParsedIInv ==
  ASSUME IInv, Parsed
  PROVE  IInv'
<1> DEFINE es == Tagged("template", tEvents)
           amounts == [messages |-> 1, flows |-> msg.flows,
                       option_records |-> Len(msg.options)]
<1>1. /\ StoreOK /\ WatchOK /\ SamplingOK /\ QueueOK /\ Rest /\ ToldTyped
      /\ EveryPacketFiled /\ HandedOver /\ Accounted
      /\ LayoutsTold /\ RatesTold /\ queue \in Seq(Item)
      /\ stats["events_dropped"] \in Nat /\ escaped \in Nat
      /\ tEvents \in Seq(T!Event) /\ tDropped \in Nat /\ raised \in Nat
      /\ InQueue \in Nat /\ InStore \in Nat /\ InWatch \in Nat
      /\ InSampling \in Nat
  BY Before
<1>2. /\ pc = "walk" /\ pc' \in {"observe", "note"}
      /\ Queue(es, amounts) /\ T!TakeEvents
      /\ UNCHANGED watchVars /\ UNCHANGED samplingVars
      /\ UNCHANGED <<gapEvents, changes, rates, msg, sets, raised, escaped>>
      /\ UNCHANGED <<toldLayout, toldRate, taken>>
  BY DEF Parsed, ghosts, watchVars, samplingVars
<1>3. es \in Seq(Item) /\ Len(es) = Len(tEvents)
  BY <1>1, TaggedEvents, KindsOfItems
<1>4. /\ \A c \in DOMAIN amounts : amounts[c] \in Nat
      /\ \A c \in {"packets", "malformed", "unsupported", "parse_errors"} :
           Lookup(amounts, c, 0) = 0
      /\ Lookup(amounts, "messages", 0) = 1
  <2>1. msg.flows \in Nat /\ Len(msg.options) \in Nat
    BY <1>1, <1>2 DEF Rest, Message
  <2>2. QED BY <2>1 DEF Lookup
<1>5. StoreOK' /\ tEvents' = <<>> /\ UNCHANGED <<held, learned, tDropped>>
  BY <1>1, <1>2, TakeFromStore
<1> HIDE DEF amounts, es
<1>6. QueueOK'
  BY <1>1, <1>2, <1>3, <1>4, QueueStep
<1>7. InQueue' = InQueue + Len(tEvents)
  BY <1>1, <1>2, <1>3, <1>4, QueueKeeps
<1>8. \A c \in Counters \ {"events_dropped"} :
        stats'[c] = stats[c] + Lookup(amounts, c, 0)
  BY <1>1, <1>2, <1>3, <1>4, QueueStep
<1>9. stats'["events_dropped"] >= stats["events_dropped"]
  BY <1>1, <1>2, <1>3, <1>4, QueueStep
<1>10. stats'["events_dropped"] = stats["events_dropped"] =>
         queue' = queue \o es
  BY <1>1, <1>2, <1>3, <1>4, QueueStep
<1>11. WatchOK' /\ InWatch' = InWatch
  BY <1>1, <1>2, WatchKept
<1>12. SamplingOK' /\ InSampling' = InSampling
  BY <1>1, <1>2, SamplingKept
<1>13. Rest'
  BY <1>1, <1>2 DEF Rest
<1>14. ToldTyped'
  BY <1>1, <1>2 DEF ToldTyped
<1>15. HandedOver'
  BY <1>1, <1>2, <1>5 DEF HandedOver
<1>16. Accounted'
  <2> DEFINE a == InQueue
             b == InQueue'
             n == Len(tEvents)
  <2>1. b = a + n /\ n \in Nat /\ a \in Nat
    BY <1>1, <1>7
  <2>2. InStore' = tDropped /\ InStore = tDropped + n
    <3>1. Len(tEvents') = 0 /\ tDropped' = tDropped
      BY <1>5
    <3>2. QED BY <1>1, <3>1 DEF InStore
  <2>3. raised = a + InStore + InWatch + InSampling
    BY <1>1 DEF Accounted
  <2>4. Accounted' <=> raised = b + InStore' + InWatch + InSampling
    BY <1>2, <1>11, <1>12 DEF Accounted
  <2> HIDE DEF a, b, n
  <2>5. raised = b + InStore' + InWatch + InSampling
    BY <1>1, <2>1, <2>2, <2>3
  <2>6. QED BY <2>4, <2>5
<1>17. EveryPacketFiled'
  <2>1. /\ stats'["packets"] = stats["packets"] + 0
        /\ stats'["malformed"] = stats["malformed"] + 0
        /\ stats'["unsupported"] = stats["unsupported"] + 0
        /\ stats'["parse_errors"] = stats["parse_errors"] + 0
        /\ stats'["messages"] = stats["messages"] + 1
    BY <1>4, <1>8 DEF Counters
  <2>2. /\ 0 + (IF pc = "walk" THEN 1 ELSE 0)
             = 0 + 0 + 0 + 1 + (IF pc' = "walk" THEN 1 ELSE 0)
        /\ 0 \in Nat /\ 1 \in Nat
    BY <1>2
  <2>3. QED BY <1>1, <2>1, <2>2, FiledBy
<1>18. stats'["events_dropped"] \in Nat /\ queue' \in Seq(Item)
  <2>1. stats' \in [Counters -> Nat] /\ "events_dropped" \in Counters
    BY <1>6 DEF QueueOK, Counters
  <2>2. QED BY <1>6, <2>1 DEF QueueOK
<1>19. LayoutsTold'
  <2>1. ASSUME stats'["events_dropped"] = stats["events_dropped"], NEW k
        PROVE  LayoutOnce(queue', tEvents', toldLayout, k)
                 = LayoutOnce(queue, tEvents, toldLayout, k)
    <3>1. LayoutOnce(queue', <<>>, toldLayout, k)
            = LayoutAfter(queue', k, toldLayout[k])
      BY <1>18, NothingPending
    <3>2. queue' = queue \o es
      BY <1>10, <2>1
    <3>3. QED BY <1>5, <3>1, <3>2 DEF LayoutOnce, es
  <2>2. QED BY <1>1, <1>2, <1>5, <1>9, <1>18, <2>1, LayoutsKept
<1>20. RatesTold'
  <2>1. ASSUME stats'["events_dropped"] = stats["events_dropped"],
               escaped = 0, NEW k
        PROVE  RateOnce(queue', changes', toldRate, k)
                 = RateOnce(queue, changes, toldRate, k)
    <3>1. changes = <<>> /\ changes' = <<>>
      BY <1>1, <1>2, <2>1 DEF HandedOver
    <3>2. RateAfter(queue \o es, k, toldRate[k])
            = RateAfter(queue, k, toldRate[k])
      BY <1>1, KindsOfItems, QueuedOthers DEF es
    <3>3. /\ RateOnce(queue, <<>>, toldRate, k)
               = RateAfter(queue, k, toldRate[k])
          /\ RateOnce(queue', <<>>, toldRate, k)
               = RateAfter(queue', k, toldRate[k])
      BY <1>1, <1>18, NothingPending
    <3>4. queue' = queue \o es
      BY <1>10, <2>1
    <3>5. QED BY <3>1, <3>2, <3>3, <3>4
  <2>2. QED BY <1>1, <1>2, <1>9, <1>18, <2>1, RatesKept
<1>21. QED
  BY <1>5, <1>6, <1>11, <1>12, <1>13, <1>14, <1>15, <1>16, <1>17, <1>19, <1>20
     DEF IInv

-----------------------------------------------------------------------------
LEMMA ObserveIInv ==
  ASSUME IInv, Observe
  PROVE  IInv'
<1> DEFINE k == <<msg.exporter, msg.domain, msg.version>>
           n == W!Records(k, msg.flows, Len(msg.options))
           amounts == [missed_exports |-> GapOf(k)]
<1>1. /\ StoreOK /\ WatchOK /\ SamplingOK /\ QueueOK /\ Rest /\ ToldTyped
      /\ EveryPacketFiled /\ HandedOver /\ Accounted
      /\ raised \in Nat
      /\ InQueue \in Nat /\ InStore \in Nat /\ InWatch \in Nat
      /\ InSampling \in Nat
  BY Before
<1>2. /\ pc = "observe" /\ pc' = "gaps"
      /\ W!Observe(k, msg.seq, n) /\ Count(amounts)
      /\ raised' = raised + Len(gapEvents') - Len(gapEvents)
      /\ UNCHANGED storeVars /\ UNCHANGED samplingVars
      /\ UNCHANGED <<held, tDropped, tEvents, changes, rates>>
      /\ UNCHANGED <<toldLayout, toldRate, taken, queue, msg, sets, escaped>>
  BY DEF Observe, ghosts, storeVars, samplingVars
<1>3. msg \in Message
  BY <1>1, <1>2 DEF Rest
<1>4. k \in Streams /\ msg.seq \in 0..(SeqModulus - 1) /\ n \in Nat
  <2>1. k \in Streams
    BY <1>3 DEF Message, Streams
  <2>2. msg.seq \in Seqs /\ msg.flows \in Nat /\ Len(msg.options) \in Nat
    BY <1>3 DEF Message
  <2>3. n \in Nat
    BY <2>2 DEF W!Records
  <2>4. msg.seq \in 0..(SeqModulus - 1)
    BY <2>2, DecoderAssumption
  <2>5. QED BY <2>1, <2>3, <2>4
<1> HIDE DEF k, n
<1>5. WatchOK' /\ GapOf(k) \in Nat
  BY <1>1, <1>2, <1>4, ObserveWatch
<1>6. InWatch' >= InWatch
  BY <1>1, <1>2, <1>4, ObserveWatch DEF InWatch
<1>7. InWatch' \in Nat
  <2>1. gapEvents' \in Seq(W!GapEvent)
    BY <1>5 DEF WatchOK, W!WatchTypeOK
  <2>2. QED BY <2>1 DEF InWatch
<1>8. /\ \A c \in DOMAIN amounts : amounts[c] \in Nat
      /\ "events_dropped" \notin DOMAIN amounts
      /\ \A c \in {"packets", "malformed", "unsupported", "parse_errors",
                   "messages"} : Lookup(amounts, c, 0) = 0
  BY <1>5 DEF Lookup
<1> HIDE DEF amounts
<1>9. QueueOK' /\ InQueue' = InQueue
  BY <1>1, <1>2, <1>8, CountKeeps
<1>10. stats'["events_dropped"] = stats["events_dropped"]
  BY <1>1, <1>2, <1>8, CountKeeps
<1>11. \A c \in Counters : stats'[c] = stats[c] + Lookup(amounts, c, 0)
  BY <1>1, <1>2, <1>8, CountKeeps
<1>12. StoreOK' /\ InStore' = InStore
  BY <1>1, <1>2, StoreKept
<1>13. SamplingOK' /\ InSampling' = InSampling
  BY <1>1, <1>2, SamplingKept
<1>14. raised' = raised + InWatch' - InWatch /\ raised' \in Nat
  <2>1. raised' = raised + InWatch' - InWatch
    BY <1>2 DEF InWatch
  <2> DEFINE a == InWatch'
  <2>2. raised' = raised + a - InWatch /\ a >= InWatch /\ a \in Nat
    BY <1>6, <1>7, <2>1
  <2> HIDE DEF a
  <2>3. raised' \in Nat
    BY <1>1, <2>2
  <2>4. QED BY <2>1, <2>3
<1>15. Rest'
  BY <1>1, <1>2, <1>14 DEF Rest
<1>16. ToldTyped'
  BY <1>1, <1>2 DEF ToldTyped
<1>17. HandedOver'
  BY <1>1, <1>2 DEF HandedOver
<1>18. Accounted'
  <2> DEFINE a == InWatch'
  <2>1. raised = InQueue + InStore + InWatch + InSampling
    BY <1>1 DEF Accounted
  <2>2. Accounted' <=> raised' = InQueue + InStore + a + InSampling
    BY <1>9, <1>12, <1>13 DEF Accounted
  <2>3. raised' = raised + a - InWatch /\ a \in Nat
    BY <1>7, <1>14
  <2> HIDE DEF a
  <2>4. raised' = InQueue + InStore + a + InSampling
    BY <1>1, <2>1, <2>3
  <2>5. QED BY <2>2, <2>4
<1>19. EveryPacketFiled'
  <2>1. /\ stats'["packets"] = stats["packets"] + 0
        /\ stats'["malformed"] = stats["malformed"] + 0
        /\ stats'["unsupported"] = stats["unsupported"] + 0
        /\ stats'["parse_errors"] = stats["parse_errors"] + 0
        /\ stats'["messages"] = stats["messages"] + 0
    BY <1>8, <1>11 DEF Counters
  <2>2. /\ 0 + (IF pc = "walk" THEN 1 ELSE 0)
             = 0 + 0 + 0 + 0 + (IF pc' = "walk" THEN 1 ELSE 0)
        /\ 0 \in Nat
    BY <1>2
  <2>3. QED BY <1>1, <2>1, <2>2, FiledBy
<1>20. LayoutsTold' /\ RatesTold'
  BY <1>2, <1>10, NothingQueued
<1>21. QED
  BY <1>5, <1>9, <1>12, <1>13, <1>15, <1>16, <1>17, <1>18, <1>19, <1>20
     DEF IInv

(* The loss a message shows is announced.                                  *)
LEMMA DrainGapsIInv ==
  ASSUME IInv, DrainGaps
  PROVE  IInv'
<1> DEFINE es == Tagged("gap", gapEvents)
           amounts == [packets |-> 0]
<1>1. /\ StoreOK /\ WatchOK /\ SamplingOK /\ QueueOK /\ Rest /\ ToldTyped
      /\ EveryPacketFiled /\ HandedOver /\ Accounted
      /\ LayoutsTold /\ RatesTold /\ queue \in Seq(Item)
      /\ stats["events_dropped"] \in Nat /\ escaped \in Nat
      /\ gapEvents \in Seq(W!GapEvent) /\ changes \in Seq(S!Change)
      /\ tDropped \in Nat /\ raised \in Nat
      /\ InQueue \in Nat /\ InStore \in Nat /\ InWatch \in Nat
      /\ InSampling \in Nat
  BY Before
<1>2. /\ pc = "gaps" /\ pc' = "note"
      /\ Queue(es, amounts) /\ W!TakeGapEvents
      /\ UNCHANGED storeVars /\ UNCHANGED samplingVars
      /\ UNCHANGED <<held, tDropped, tEvents, changes, rates>>
      /\ UNCHANGED <<msg, sets, raised, escaped, toldLayout, toldRate, taken>>
  BY DEF DrainGaps, ghosts, storeVars, samplingVars
<1>3. es \in Seq(Item) /\ Len(es) = Len(gapEvents)
  BY <1>1, TaggedEvents, KindsOfItems
<1>4. /\ \A c \in DOMAIN amounts : amounts[c] \in Nat
      /\ \A c \in {"packets", "malformed", "unsupported", "parse_errors",
                   "messages"} : Lookup(amounts, c, 0) = 0
  BY DEF Lookup
<1>5. WatchOK' /\ gapEvents' = <<>>
  BY <1>1, <1>2, TakeFromWatch
<1> HIDE DEF amounts, es
<1>6. QueueOK'
  BY <1>1, <1>2, <1>3, <1>4, QueueStep
<1>7. InQueue' = InQueue + Len(gapEvents)
  BY <1>1, <1>2, <1>3, <1>4, QueueKeeps
<1>8. \A c \in Counters \ {"events_dropped"} :
        stats'[c] = stats[c] + Lookup(amounts, c, 0)
  BY <1>1, <1>2, <1>3, <1>4, QueueStep
<1>9. stats'["events_dropped"] >= stats["events_dropped"]
  BY <1>1, <1>2, <1>3, <1>4, QueueStep
<1>10. stats'["events_dropped"] = stats["events_dropped"] =>
         queue' = queue \o es
  BY <1>1, <1>2, <1>3, <1>4, QueueStep
<1>11. StoreOK' /\ InStore' = InStore
  BY <1>1, <1>2, StoreKept
<1>12. SamplingOK' /\ InSampling' = InSampling
  BY <1>1, <1>2, SamplingKept
<1>13. Rest'
  BY <1>1, <1>2 DEF Rest
<1>14. ToldTyped'
  BY <1>1, <1>2 DEF ToldTyped
<1>15. HandedOver'
  BY <1>1, <1>2, <1>5 DEF HandedOver
<1>16. Accounted'
  <2> DEFINE a == InQueue
             b == InQueue'
             n == Len(gapEvents)
  <2>1. b = a + n /\ n \in Nat /\ a \in Nat
    BY <1>1, <1>7
  <2>2. InWatch' = 0 /\ InWatch = n
    BY <1>5 DEF InWatch
  <2>3. raised = a + InStore + InWatch + InSampling
    BY <1>1 DEF Accounted
  <2>4. Accounted' <=> raised = b + InStore' + InWatch' + InSampling'
    BY <1>2 DEF Accounted
  <2> HIDE DEF a, b, n
  <2>5. raised = b + InStore' + InWatch' + InSampling'
    BY <1>1, <1>11, <1>12, <2>1, <2>2, <2>3
  <2>6. QED BY <2>4, <2>5
<1>17. EveryPacketFiled'
  <2>1. /\ stats'["packets"] = stats["packets"] + 0
        /\ stats'["malformed"] = stats["malformed"] + 0
        /\ stats'["unsupported"] = stats["unsupported"] + 0
        /\ stats'["parse_errors"] = stats["parse_errors"] + 0
        /\ stats'["messages"] = stats["messages"] + 0
    BY <1>4, <1>8 DEF Counters
  <2>2. /\ 0 + (IF pc = "walk" THEN 1 ELSE 0)
             = 0 + 0 + 0 + 0 + (IF pc' = "walk" THEN 1 ELSE 0)
        /\ 0 \in Nat
    BY <1>2
  <2>3. QED BY <1>1, <2>1, <2>2, FiledBy
<1>18. stats'["events_dropped"] \in Nat /\ queue' \in Seq(Item)
  <2>1. stats' \in [Counters -> Nat] /\ "events_dropped" \in Counters
    BY <1>6 DEF QueueOK, Counters
  <2>2. QED BY <1>6, <2>1 DEF QueueOK
<1>19. LayoutsTold'
  <2>1. ASSUME stats'["events_dropped"] = stats["events_dropped"], NEW k
        PROVE  LayoutOnce(queue', tEvents', toldLayout, k)
                 = LayoutOnce(queue, tEvents, toldLayout, k)
    <3>1. tEvents = <<>> /\ tEvents' = <<>>
      BY <1>1, <1>2 DEF HandedOver
    <3>2. LayoutAfter(queue \o es, k, toldLayout[k])
            = LayoutAfter(queue, k, toldLayout[k])
      BY <1>1, KindsOfItems, QueuedOthers DEF es
    <3>3. /\ LayoutOnce(queue, <<>>, toldLayout, k)
               = LayoutAfter(queue, k, toldLayout[k])
          /\ LayoutOnce(queue', <<>>, toldLayout, k)
               = LayoutAfter(queue', k, toldLayout[k])
      BY <1>1, <1>18, NothingPending
    <3>4. queue' = queue \o es
      BY <1>10, <2>1
    <3>5. QED BY <3>1, <3>2, <3>3, <3>4
  <2>2. QED BY <1>1, <1>2, <1>9, <1>18, <2>1, LayoutsKept
<1>20. RatesTold'
  <2>1. ASSUME stats'["events_dropped"] = stats["events_dropped"],
               escaped = 0, NEW k
        PROVE  RateOnce(queue', changes', toldRate, k)
                 = RateOnce(queue, changes, toldRate, k)
    <3>1. changes = <<>> /\ changes' = <<>>
      BY <1>1, <1>2, <2>1 DEF HandedOver
    <3>2. RateAfter(queue \o es, k, toldRate[k])
            = RateAfter(queue, k, toldRate[k])
      BY <1>1, KindsOfItems, QueuedOthers DEF es
    <3>3. /\ RateOnce(queue, <<>>, toldRate, k)
               = RateAfter(queue, k, toldRate[k])
          /\ RateOnce(queue', <<>>, toldRate, k)
               = RateAfter(queue', k, toldRate[k])
      BY <1>1, <1>18, NothingPending
    <3>4. queue' = queue \o es
      BY <1>10, <2>1
    <3>5. QED BY <3>1, <3>2, <3>3, <3>4
  <2>2. QED BY <1>1, <1>2, <1>5, <1>9, <1>18, <2>1, RatesKept
<1>21. QED
  BY <1>5, <1>6, <1>11, <1>12, <1>13, <1>14, <1>15, <1>16, <1>17, <1>19, <1>20
     DEF IInv

(* Of a record noted, a change of rate is pending.                         *)
LEMMA NoteIInv ==
  ASSUME IInv, Note
  PROVE  IInv'
<1> DEFINE k == <<msg.exporter, msg.domain>>
           rec == Head(msg.options)
           rest == Tail(msg.options)
<1>1. /\ StoreOK /\ WatchOK /\ SamplingOK /\ QueueOK /\ Rest /\ ToldTyped
      /\ EveryPacketFiled /\ HandedOver /\ Accounted
      /\ LayoutsTold /\ RatesTold /\ queue \in Seq(Item)
      /\ stats["events_dropped"] \in Nat /\ tDropped \in Nat
      /\ raised \in Nat /\ changes \in Seq(S!Change)
      /\ InQueue \in Nat /\ InStore \in Nat /\ InWatch \in Nat
      /\ InSampling \in Nat
  BY Before
<1>2. /\ pc = "note" /\ pc' = "note" /\ msg.options # <<>>
      /\ S!Note(k, rec) /\ msg' = [msg EXCEPT !.options = rest]
      /\ raised' = raised + Len(changes') - Len(changes)
      /\ UNCHANGED storeVars /\ UNCHANGED watchVars
      /\ UNCHANGED <<held, tDropped, tEvents, gapEvents>>
      /\ UNCHANGED <<queue, stats, sets, escaped, toldLayout, toldRate, taken>>
  BY DEF Note, ToNote, ghosts, storeVars, watchVars
<1>3. msg \in Message
  BY <1>1, <1>2 DEF Rest
<1>4. k \in S!Keys /\ rec \in S!OptionRecord /\ rest \in Seq(S!OptionRecord)
  <2>1. msg.options \in Seq(S!OptionRecord)
    BY <1>3 DEF Message
  <2>2. k \in S!Keys
    BY <1>3 DEF Message, S!Keys
  <2>3. QED BY <1>2, <2>1, <2>2
<1> HIDE DEF k, rec, rest
<1>5. msg' \in Message
  BY <1>2, <1>3, <1>4 DEF Message
<1>6. SamplingOK' /\ RateIsTold(k)
  BY <1>1, <1>2, <1>4, NoteSampling
<1>7. changes' \in Seq(S!Change) /\ InSampling' \in Nat
  BY <1>6 DEF SamplingOK, S!SamplingTypeOK, InSampling
<1>8. InSampling' >= InSampling
  <2>1. CASE changes' = changes
    BY <1>1, <2>1 DEF InSampling
  <2>2. ASSUME NEW c \in S!Change, changes' = Append(changes, c)
        PROVE  InSampling' >= InSampling
    <3>1. Len(changes') = Len(changes) + 1 /\ Len(changes) \in Nat
      BY <1>1, <2>2
    <3>2. QED BY <3>1 DEF InSampling
  <2>3. QED BY <1>6, <2>1, <2>2 DEF RateIsTold
<1>9. StoreOK' /\ InStore' = InStore
  BY <1>1, <1>2, StoreKept
<1>10. WatchOK' /\ InWatch' = InWatch
  BY <1>1, <1>2, WatchKept
<1>11. QueueOK' /\ InQueue' = InQueue
  BY <1>1, <1>2 DEF QueueOK, InQueue
<1>12. raised' = raised + InSampling' - InSampling /\ raised' \in Nat
  <2>1. raised' = raised + InSampling' - InSampling
    BY <1>2 DEF InSampling
  <2> DEFINE a == InSampling'
  <2>2. raised' = raised + a - InSampling /\ a >= InSampling /\ a \in Nat
    BY <1>7, <1>8, <2>1
  <2> HIDE DEF a
  <2>3. raised' \in Nat
    BY <1>1, <2>2
  <2>4. QED BY <2>1, <2>3
<1>13. Rest'
  BY <1>1, <1>2, <1>5, <1>12 DEF Rest
<1>14. ToldTyped'
  BY <1>1, <1>2 DEF ToldTyped
<1>15. HandedOver'
  BY <1>1, <1>2 DEF HandedOver
<1>16. Accounted'
  <2> DEFINE a == InSampling'
  <2>1. raised = InQueue + InStore + InWatch + InSampling
    BY <1>1 DEF Accounted
  <2>2. Accounted' <=> raised' = InQueue + InStore + InWatch + a
    BY <1>9, <1>10, <1>11 DEF Accounted
  <2>3. raised' = raised + a - InSampling /\ a \in Nat
    BY <1>7, <1>12
  <2> HIDE DEF a
  <2>4. raised' = InQueue + InStore + InWatch + a
    BY <1>1, <2>1, <2>3
  <2>5. QED BY <2>2, <2>4
<1>17. EveryPacketFiled'
  BY <1>1, <1>2 DEF EveryPacketFiled
<1>18. LayoutsTold'
  <2>1. stats'["events_dropped"] >= stats["events_dropped"]
    BY <1>1, <1>2
  <2>2. QED BY <1>1, <1>2, <2>1, LayoutsKept
<1>19. RatesTold'
  <2>1. ASSUME stats["events_dropped"] = 0, escaped = 0, NEW x \in DOMAIN rates'
        PROVE  RateOnce(queue, changes', toldRate, x) = rates'[x]
    <3>1. x \in DOMAIN rates =>
            RateOnce(queue, changes, toldRate, x) = rates[x]
      BY <1>1, <2>1 DEF RatesTold
    <3>2. CASE /\ changes' = changes
               /\ x \in DOMAIN rates /\ rates'[x] = rates[x]
      BY <3>1, <3>2
    <3>3. ASSUME NEW c \in S!Change, c.key = k, changes' = Append(changes, c),
                 IF x = k THEN rates'[x] = c.rate
                 ELSE x \in DOMAIN rates /\ rates'[x] = rates[x]
          PROVE  RateOnce(queue, changes', toldRate, x) = rates'[x]
      <4>1. RateOnce(queue, changes', toldRate, x)
              = IF c.key = x THEN c.rate
                ELSE RateOnce(queue, changes, toldRate, x)
        BY <1>1, <3>3, RateOneMore
      <4>2. QED BY <3>1, <3>3, <4>1
    <3>4. QED BY <1>6, <2>1, <3>2, <3>3 DEF RateIsTold
  <2>2. QED BY <1>2, <2>1 DEF RatesTold
<1>20. QED
  BY <1>6, <1>9, <1>10, <1>11, <1>13, <1>14, <1>15, <1>16, <1>17, <1>18, <1>19
     DEF IInv

(* The end of a call hands the changes of rate over.                       *)
LEMMA ReturnIInv ==
  ASSUME IInv, Return
  PROVE  IInv'
<1> DEFINE es == Tagged("sampling", changes)
           amounts == [packets |-> 0]
<1>1. /\ StoreOK /\ WatchOK /\ SamplingOK /\ QueueOK /\ Rest /\ ToldTyped
      /\ EveryPacketFiled /\ HandedOver /\ Accounted
      /\ LayoutsTold /\ RatesTold /\ queue \in Seq(Item)
      /\ stats["events_dropped"] \in Nat /\ escaped \in Nat
      /\ gapEvents \in Seq(W!GapEvent) /\ changes \in Seq(S!Change)
      /\ tDropped \in Nat /\ raised \in Nat
      /\ InQueue \in Nat /\ InStore \in Nat /\ InWatch \in Nat
      /\ InSampling \in Nat
  BY Before
<1>2. /\ pc = "note" /\ pc' = "idle"
      /\ Queue(es, amounts) /\ S!TakeChanges
      /\ UNCHANGED storeVars /\ UNCHANGED watchVars
      /\ UNCHANGED <<held, tDropped, tEvents, gapEvents>>
      /\ UNCHANGED <<sets, raised, escaped, toldLayout, toldRate, taken>>
  BY DEF Return, ghosts, storeVars, watchVars
<1>3. es \in Seq(Item) /\ Len(es) = Len(changes)
  BY <1>1, TaggedEvents, KindsOfItems
<1>4. /\ \A c \in DOMAIN amounts : amounts[c] \in Nat
      /\ \A c \in {"packets", "malformed", "unsupported", "parse_errors",
                   "messages"} : Lookup(amounts, c, 0) = 0
  BY DEF Lookup
<1>5. SamplingOK' /\ changes' = <<>> /\ rates' = rates
  BY <1>1, <1>2, TakeFromSampling
<1> HIDE DEF amounts, es
<1>6. QueueOK'
  BY <1>1, <1>2, <1>3, <1>4, QueueStep
<1>7. InQueue' = InQueue + Len(changes)
  BY <1>1, <1>2, <1>3, <1>4, QueueKeeps
<1>8. \A c \in Counters \ {"events_dropped"} :
        stats'[c] = stats[c] + Lookup(amounts, c, 0)
  BY <1>1, <1>2, <1>3, <1>4, QueueStep
<1>9. stats'["events_dropped"] >= stats["events_dropped"]
  BY <1>1, <1>2, <1>3, <1>4, QueueStep
<1>10. stats'["events_dropped"] = stats["events_dropped"] =>
         queue' = queue \o es
  BY <1>1, <1>2, <1>3, <1>4, QueueStep
<1>11. StoreOK' /\ InStore' = InStore
  BY <1>1, <1>2, StoreKept
<1>12. WatchOK' /\ InWatch' = InWatch
  BY <1>1, <1>2, WatchKept
<1>13. Rest'
  BY <1>1, <1>2 DEF Rest
<1>14. ToldTyped'
  BY <1>1, <1>2 DEF ToldTyped
<1>15. HandedOver'
  BY <1>1, <1>2, <1>5 DEF HandedOver
<1>16. Accounted'
  <2> DEFINE a == InQueue
             b == InQueue'
             n == Len(changes)
  <2>1. b = a + n /\ n \in Nat /\ a \in Nat
    BY <1>1, <1>7
  <2>2. InSampling' = 0 /\ InSampling = n
    BY <1>5 DEF InSampling
  <2>3. raised = a + InStore + InWatch + InSampling
    BY <1>1 DEF Accounted
  <2>4. Accounted' <=> raised = b + InStore' + InWatch' + InSampling'
    BY <1>2 DEF Accounted
  <2> HIDE DEF a, b, n
  <2>5. raised = b + InStore' + InWatch' + InSampling'
    BY <1>1, <1>11, <1>12, <2>1, <2>2, <2>3
  <2>6. QED BY <2>4, <2>5
<1>17. EveryPacketFiled'
  <2>1. /\ stats'["packets"] = stats["packets"] + 0
        /\ stats'["malformed"] = stats["malformed"] + 0
        /\ stats'["unsupported"] = stats["unsupported"] + 0
        /\ stats'["parse_errors"] = stats["parse_errors"] + 0
        /\ stats'["messages"] = stats["messages"] + 0
    BY <1>4, <1>8 DEF Counters
  <2>2. /\ 0 + (IF pc = "walk" THEN 1 ELSE 0)
             = 0 + 0 + 0 + 0 + (IF pc' = "walk" THEN 1 ELSE 0)
        /\ 0 \in Nat
    BY <1>2
  <2>3. QED BY <1>1, <2>1, <2>2, FiledBy
<1>18. stats'["events_dropped"] \in Nat /\ queue' \in Seq(Item)
  <2>1. stats' \in [Counters -> Nat] /\ "events_dropped" \in Counters
    BY <1>6 DEF QueueOK, Counters
  <2>2. QED BY <1>6, <2>1 DEF QueueOK
<1>19. LayoutsTold'
  <2>1. ASSUME stats'["events_dropped"] = stats["events_dropped"], NEW k
        PROVE  LayoutOnce(queue', tEvents', toldLayout, k)
                 = LayoutOnce(queue, tEvents, toldLayout, k)
    <3>1. tEvents = <<>> /\ tEvents' = <<>>
      BY <1>1, <1>2 DEF HandedOver
    <3>2. LayoutAfter(queue \o es, k, toldLayout[k])
            = LayoutAfter(queue, k, toldLayout[k])
      BY <1>1, KindsOfItems, QueuedOthers DEF es
    <3>3. /\ LayoutOnce(queue, <<>>, toldLayout, k)
               = LayoutAfter(queue, k, toldLayout[k])
          /\ LayoutOnce(queue', <<>>, toldLayout, k)
               = LayoutAfter(queue', k, toldLayout[k])
      BY <1>1, <1>18, NothingPending
    <3>4. queue' = queue \o es
      BY <1>10, <2>1
    <3>5. QED BY <3>1, <3>2, <3>3, <3>4
  <2>2. QED BY <1>1, <1>2, <1>9, <1>18, <2>1, LayoutsKept
<1>20. RatesTold'
  <2>1. ASSUME stats'["events_dropped"] = stats["events_dropped"],
               escaped = 0, NEW k
        PROVE  RateOnce(queue', changes', toldRate, k)
                 = RateOnce(queue, changes, toldRate, k)
    <3>1. RateOnce(queue', <<>>, toldRate, k)
            = RateAfter(queue', k, toldRate[k])
      BY <1>18, NothingPending
    <3>2. queue' = queue \o es
      BY <1>10, <2>1
    <3>3. QED BY <1>5, <3>1, <3>2 DEF RateOnce, es
  <2>2. QED BY <1>1, <1>2, <1>5, <1>9, <1>18, <2>1, RatesKept
<1>21. QED
  BY <1>5, <1>6, <1>11, <1>12, <1>13, <1>14, <1>15, <1>16, <1>17, <1>19, <1>20
     DEF IInv

LEMMA StutterIInv ==
  ASSUME IInv, UNCHANGED vars
  PROVE  IInv'
<1>1. /\ StoreOK /\ WatchOK /\ SamplingOK /\ QueueOK /\ Rest /\ ToldTyped
      /\ EveryPacketFiled /\ HandedOver /\ Accounted
  BY Before
<1>2. /\ UNCHANGED storeVars /\ UNCHANGED watchVars /\ UNCHANGED samplingVars
      /\ UNCHANGED <<held, tDropped, tEvents, gapEvents, changes, rates>>
      /\ UNCHANGED <<toldLayout, toldRate, taken, queue, stats, raised, sets>>
      /\ UNCHANGED <<pc, msg, escaped>>
  BY DEF vars, components, ghosts, storeVars, watchVars, samplingVars
<1>3. QueueOK' /\ InQueue' = InQueue
  BY <1>1, <1>2 DEF QueueOK, InQueue
<1>4. StoreOK' /\ InStore' = InStore
  BY <1>1, <1>2, StoreKept
<1>5. WatchOK' /\ InWatch' = InWatch
  BY <1>1, <1>2, WatchKept
<1>6. SamplingOK' /\ InSampling' = InSampling
  BY <1>1, <1>2, SamplingKept
<1>7. Rest'
  BY <1>1, <1>2 DEF Rest
<1>8. ToldTyped'
  BY <1>1, <1>2 DEF ToldTyped
<1>9. HandedOver'
  BY <1>1, <1>2 DEF HandedOver
<1>10. Accounted'
  BY <1>1, <1>2, <1>3, <1>4, <1>5, <1>6 DEF Accounted
<1>11. EveryPacketFiled'
  BY <1>1, <1>2 DEF EveryPacketFiled
<1>12. LayoutsTold' /\ RatesTold'
  BY <1>2, NothingQueued
<1>13. QED
  BY <1>3, <1>4, <1>5, <1>6, <1>7, <1>8, <1>9, <1>10, <1>11, <1>12 DEF IInv

LEMMA NextIInv == IInv /\ [Next]_vars => IInv'
<1> SUFFICES ASSUME IInv, [Next]_vars PROVE IInv'
  OBVIOUS
<1>1. ASSUME NEW a \in Sources, Short(a) PROVE IInv'
  BY <1>1, ShortIInv
<1>2. ASSUME NEW a \in Sources, Unsupported(a) PROVE IInv'
  BY <1>2, UnsupportedIInv
<1>3. ASSUME NEW a \in Sources, NEW d \in Domains, NEW v \in Versions,
             NEW seq \in Seqs, Header(a, d, v, seq)
      PROVE  IInv'
  BY <1>3, HeaderIInv
<1>4. ASSUME NEW tid \in Tids, NEW entry \in T!Entries, TemplateSet(tid, entry)
      PROVE  IInv'
  BY <1>4, TemplateSetIInv
<1>5. ASSUME NEW tid \in Tids, DataSet(tid) PROVE IInv'
  BY <1>5, DataSetIInv
<1>6. CASE Malformed
  BY <1>6, MalformedIInv
<1>7. CASE Parsed
  BY <1>7, ParsedIInv
<1>8. CASE Observe
  BY <1>8, ObserveIInv
<1>9. CASE DrainGaps
  BY <1>9, DrainGapsIInv
<1>10. CASE Note
  BY <1>10, NoteIInv
<1>11. CASE Raise
  BY <1>11, RaiseIInv
<1>12. CASE Return
  BY <1>12, ReturnIInv
<1>13. CASE Take
  BY <1>13, TakeIInv
<1>14. CASE UNCHANGED vars
  BY <1>14, StutterIInv
<1>15. QED
  BY <1>1, <1>2, <1>3, <1>4, <1>5, <1>6, <1>7, <1>8, <1>9, <1>10, <1>11, <1>12,
     <1>13, <1>14 DEF Next

LEMMA IInvAlways == Spec => []IInv
BY InitIInv, NextIInv, PTL DEF Spec

-----------------------------------------------------------------------------
(* decode() files every datagram exactly once: as a message, or under the  *)
(* one reason it is not, whatever goes wrong in it and however far it got. *)
THEOREM FiledOnce == Spec => []EveryPacketFiled
<1>1. IInv => EveryPacketFiled
  BY DEF IInv
<1>2. QED BY <1>1, IInvAlways, PTL

(* Every event a component raises is taken by the consumer, counted as     *)
(* dropped, or still waiting; and between calls none waits in a component  *)
(* unless a call raised.                                                   *)
THEOREM NoEventLost == Spec => []EventsAccounted
<1>1. IInv => EventsAccounted
  <2> SUFFICES ASSUME IInv PROVE EventsAccounted
    OBVIOUS
  <2>1. /\ Len(queue) <= MaxEvents /\ HandedOver /\ Accounted
        /\ queue \in Seq(Item)
    BY DEF IInv, QueueOK
  <2>2. /\ stats["events_dropped"] \in Nat /\ taken \in Nat /\ tDropped \in Nat
        /\ tEvents \in Seq(T!Event) /\ gapEvents \in Seq(W!GapEvent)
        /\ changes \in Seq(S!Change)
    BY Before
  <2>3. pc = "idle" => tEvents = <<>> /\ gapEvents = <<>>
                       /\ (changes # <<>> => escaped > 0)
    BY <2>1 DEF HandedOver
  <2>4. raised = taken + stats["events_dropped"] + tDropped + Len(queue)
                 + Len(tEvents) + Len(gapEvents) + Len(changes)
    <3> DEFINE d == stats["events_dropped"]
               q == Len(queue)
               t == Len(tEvents)
               g == Len(gapEvents)
               c == Len(changes)
    <3>1. /\ d \in Nat /\ q \in Nat /\ t \in Nat /\ g \in Nat /\ c \in Nat
          /\ raised = (taken + d + q) + (tDropped + t) + g + c
      BY <2>1, <2>2 DEF Accounted, InQueue, InStore, InWatch, InSampling
    <3> HIDE DEF d, q, t, g, c
    <3>2. raised = taken + d + tDropped + q + t + g + c
      BY <2>2, <3>1
    <3>3. QED BY <3>2 DEF d, q, t, g, c
  <2>5. QED BY <2>1, <2>3, <2>4 DEF EventsAccounted
<1>2. QED BY <1>1, IInvAlways, PTL

(* Between calls, a consumer that takes the events and applies them in     *)
(* order knows every layout and every rate the decoder works with, unless  *)
(* an event was counted as dropped or a call raised: also those a datagram *)
(* taught before it turned out malformed.                                  *)
THEOREM ConsumerKnows == Spec => []ConsumerInformed
<1>1. IInv => ConsumerInformed
  <2> SUFFICES ASSUME IInv, pc = "idle", stats["events_dropped"] = 0,
                      tDropped = 0, escaped = 0
               PROVE  /\ \A k \in DOMAIN held :
                           LayoutAfter(queue, k, toldLayout[k]) = held[k]
                      /\ \A k \in DOMAIN rates :
                           RateAfter(queue, k, toldRate[k]) = rates[k]
    BY DEF ConsumerInformed
  <2>1. queue \in Seq(Item) /\ LayoutsTold /\ RatesTold
    BY Before
  <2>2. tEvents = <<>> /\ changes = <<>>
    BY Before DEF HandedOver
  <2>3. ASSUME NEW k \in DOMAIN held
        PROVE  LayoutAfter(queue, k, toldLayout[k]) = held[k]
    <3>1. LayoutOnce(queue, <<>>, toldLayout, k) = held[k]
      BY <2>1, <2>2 DEF LayoutsTold
    <3>2. QED BY <2>1, <3>1, NothingPending
  <2>4. ASSUME NEW k \in DOMAIN rates
        PROVE  RateAfter(queue, k, toldRate[k]) = rates[k]
    <3>1. RateOnce(queue, <<>>, toldRate, k) = rates[k]
      BY <2>1, <2>2 DEF RatesTold
    <3>2. QED BY <2>1, <3>1, NothingPending
  <2>5. QED BY <2>3, <2>4
<1>2. QED BY <1>1, IInvAlways, PTL

-----------------------------------------------------------------------------
(* The counters beside the components they are about.  A loss is only kept *)
(* for a stream that is, and the losses kept and those forgotten with      *)
(* their streams add up to those counted.                                  *)
Counted == /\ stats["templates_new"] = learned
           /\ DOMAIN missed \subseteq ToSet(wOrder)
           /\ forgotten \in Nat
           /\ stats["missed_exports"] = SumFunction(missed) + forgotten

LEMMA CounterNames ==
  ASSUME stats \in [Counters -> Nat]
  PROVE  /\ {"templates_new", "missed_exports"}
              \subseteq Counters \ {"events_dropped", "malformed"}
         /\ stats["templates_new"] \in Nat /\ stats["missed_exports"] \in Nat
BY DEF Counters

(* The losses are kept in a finite table of naturals.                      *)
LEMMA LossesAreFinite ==
  ASSUME WatchOK, DOMAIN missed \subseteq ToSet(wOrder)
  PROVE  /\ IsFiniteSet(DOMAIN missed)
         /\ \A x \in DOMAIN missed : missed[x] \in Nat
         /\ SumFunction(missed) \in Nat
<1>1. /\ wOrder \in Seq(Streams) /\ NoRepeats(wOrder)
      /\ missed \in [DOMAIN missed -> Nat \ {0}]
  BY WatchTypes
<1>2. IsFiniteSet(DOMAIN missed)
  <2>1. IsFiniteSet(ToSet(wOrder))
    BY <1>1, LengthIsCardinality
  <2>2. QED BY <2>1, FS_Subset
<1>3. \A x \in DOMAIN missed : missed[x] \in Nat
  BY <1>1
<1>4. SumFunctionOnSet(missed, DOMAIN missed) \in Nat
  BY <1>2, <1>3, SumIsNatural
<1>5. QED BY <1>2, <1>3, <1>4 DEF SumFunction

(* The losses a message makes the watch forget with a stream.              *)
Dropped == SumFunctionOnSet(missed, DOMAIN missed \ DOMAIN missed')

(* A new stream: losses go only with a stream that is evicted, and none is *)
(* added.                                                                  *)
LEMMA TrackCounts ==
  ASSUME WatchOK, DOMAIN missed \subseteq ToSet(wOrder), NEW k \in Streams,
         NEW seq \in 0..(SeqModulus - 1), NEW n \in Nat, W!Track(k, seq, n)
  PROVE  /\ DOMAIN missed' \subseteq ToSet(wOrder')
         /\ SumFunction(missed') \in Nat /\ Dropped \in Nat
         /\ SumFunction(missed) = SumFunction(missed') + Dropped
<1> DEFINE r == Append(wOrder, k)
           kept == Newest(r, MaxStreams)
<1>1. /\ wOrder \in Seq(Streams)
      /\ missed \in [DOMAIN missed -> Nat \ {0}]
  BY WatchTypes
<1>2. /\ wOrder' = kept
      /\ missed' = W!Keep(missed, ToSet(kept))
  BY <1>1, WatchOperators DEF W!Track, W!Evict
<1> HIDE DEF kept
<1>3. /\ DOMAIN missed' = DOMAIN missed \cap ToSet(kept)
      /\ \A x \in DOMAIN missed' : missed'[x] = missed[x]
  BY <1>2 DEF W!Keep
<1>4. /\ IsFiniteSet(DOMAIN missed)
      /\ \A x \in DOMAIN missed : missed[x] \in Nat
  BY LossesAreFinite
<1>5. DOMAIN missed \ DOMAIN missed' = DOMAIN missed \ ToSet(kept)
  BY <1>3
<1>6. QED BY <1>2, <1>3, <1>4, <1>5, SumOfFewer DEF Dropped

(* A message of a stream already tracked: what it adds to the losses is    *)
(* the gap that is reported.                                               *)
LEMMA TrackedCounts ==
  ASSUME WatchOK, DOMAIN missed \subseteq ToSet(wOrder), NEW k \in Streams,
         k \in DOMAIN streams, NEW seq \in 0..(SeqModulus - 1), NEW n \in Nat,
         W!Observe(k, seq, n)
  PROVE  /\ DOMAIN missed' \subseteq ToSet(wOrder')
         /\ SumFunction(missed') = SumFunction(missed) + GapOf(k)
         /\ Dropped = 0
<1>1. /\ wOrder \in Seq(Streams) /\ NoRepeats(wOrder)
      /\ streams \in [ToSet(wOrder) -> W!State]
      /\ missed \in [DOMAIN missed -> Nat \ {0}]
  BY WatchTypes
<1>2. k \in ToSet(wOrder)
  BY <1>1
<1>3. /\ IsFiniteSet(DOMAIN missed)
      /\ \A x \in DOMAIN missed : missed[x] \in Nat
      /\ SumFunction(missed) \in Nat
  BY LossesAreFinite
<1>4. \E t : W!Remember(k, t)
  BY DEF W!Observe, W!Track, W!Learn, W!Late, W!Resync, W!InStep, W!Gap
<1>5. wOrder' = MoveToEnd(wOrder, k)
  BY <1>4, WatchOperators DEF W!Remember
<1>6. ToSet(wOrder') = ToSet(wOrder)
  <2>1. ToSet(MoveToEnd(wOrder, k)) = ToSet(wOrder) \cup {k}
    BY <1>1, MoveToEndProperties
  <2>2. QED BY <1>2, <1>5, <2>1
<1>7. DOMAIN missed \subseteq DOMAIN missed' => Dropped = 0
  BY SumOfNone DEF Dropped
<1>8. CASE missed' = missed
  <2>1. Lookup(missed, k, 0) \in Nat
    BY <1>3 DEF Lookup
  <2>2. GapOf(k) = 0
    BY <1>8, <2>1 DEF GapOf
  <2>3. QED BY <1>3, <1>5, <1>6, <1>7, <1>8, <2>2
<1>9. CASE W!Gap(k, seq, n)
  <2> DEFINE gap == W!GapAt(streams[k], seq)
  <2>1. missed' = [x \in DOMAIN missed \cup {k} |->
                     Lookup(missed, x, 0) + IF x = k THEN gap ELSE 0]
    BY <1>9, WatchOperators DEF W!Gap
  <2> HIDE DEF gap
  <2>2. DOMAIN missed' = DOMAIN missed \cup {k}
    BY <2>1
  <2>3. \A x \in DOMAIN missed \ {k} : missed'[x] = missed[x]
    BY <1>3, <2>1 DEF Lookup
  <2>4. missed'[k] \in Int
    <3>1. WatchOK'
      BY <1>9, GapWatch
    <3>2. missed' \in [DOMAIN missed' -> Nat \ {0}]
      BY <3>1 DEF WatchOK, W!WatchTypeOK
    <3>3. QED BY <2>2, <3>2
  <2>5. SumFunction(missed')
          = SumFunction(missed) + (missed'[k] - Lookup(missed, k, 0))
    <3>1. \A x \in DOMAIN missed : missed[x] \in Int
      BY <1>3
    <3>2. QED BY <1>3, <2>2, <2>3, <2>4, <3>1, SumOfChanged
  <2>6. GapOf(k) = missed'[k] - Lookup(missed, k, 0)
    BY <2>2 DEF GapOf, Lookup
  <2>7. DOMAIN missed' \subseteq ToSet(wOrder')
    BY <1>2, <1>6, <2>2
  <2>8. QED BY <1>7, <2>2, <2>5, <2>6, <2>7
<1>10. QED
  BY <1>8, <1>9 DEF W!Observe, W!Track, W!Learn, W!Late, W!Resync, W!InStep

(* An action that leaves both counters, and what they are about.           *)
LEMMA CountedKept ==
  ASSUME Counted, stats'["templates_new"] = stats["templates_new"],
         stats'["missed_exports"] = stats["missed_exports"],
         UNCHANGED <<learned, wOrder, missed, forgotten>>
  PROVE  Counted'
BY DEF Counted

(* One that counts something else, queues events, or fails.                *)
LEMMA CountedOthers ==
  ASSUME QueueOK, Rest, Counted, NEW amounts,
         \A c \in DOMAIN amounts : amounts[c] \in Nat,
         Lookup(amounts, "templates_new", 0) = 0,
         Lookup(amounts, "missed_exports", 0) = 0,
         UNCHANGED <<learned, wOrder, missed, forgotten, taken>>,
         \/ "events_dropped" \notin DOMAIN amounts /\ Count(amounts)
            /\ UNCHANGED queue
         \/ \E es \in Seq(Item) : Queue(es, amounts)
         \/ \E es \in Seq(Item), e \in Exporters, counted \in BOOLEAN,
               reason \in {"short", "unsupported", "malformed"} :
              FailAfter(es, e, reason, counted, amounts)
  PROVE  Counted'
<1>1. /\ {"templates_new", "missed_exports"}
           \subseteq Counters \ {"events_dropped", "malformed"}
      /\ stats["templates_new"] \in Nat /\ stats["missed_exports"] \in Nat
  BY CounterNames DEF QueueOK
<1>2. \A c \in Counters \ {"events_dropped", "malformed"} :
        stats'[c] = stats[c] + Lookup(amounts, c, 0)
  <2>1. CASE /\ "events_dropped" \notin DOMAIN amounts /\ Count(amounts)
             /\ UNCHANGED queue
    BY <2>1, CountKeeps
  <2>2. ASSUME NEW es \in Seq(Item), Queue(es, amounts)
        PROVE  \A c \in Counters \ {"events_dropped", "malformed"} :
                 stats'[c] = stats[c] + Lookup(amounts, c, 0)
    BY <2>2, QueueStep
  <2>3. ASSUME NEW es \in Seq(Item), NEW e \in Exporters,
               NEW counted \in BOOLEAN,
               NEW reason \in {"short", "unsupported", "malformed"},
               FailAfter(es, e, reason, counted, amounts)
        PROVE  \A c \in Counters \ {"events_dropped", "malformed"} :
                 stats'[c] = stats[c] + Lookup(amounts, c, 0)
    BY <2>3, FailKeeps
  <2>4. QED BY <2>1, <2>2, <2>3
<1>3. /\ stats'["templates_new"] = stats["templates_new"] + 0
      /\ stats'["missed_exports"] = stats["missed_exports"] + 0
  BY <1>1, <1>2
<1>4. QED BY <1>1, <1>3, CountedKept

(* A datagram that fails before its sets, or in them.                      *)
LEMMA FailCounted ==
  ASSUME IInv, Counted, (\E a \in Sources : Short(a) \/ Unsupported(a)) \/ Malformed
  PROVE  Counted'
<1>1. /\ QueueOK /\ Rest /\ tEvents \in Seq(T!Event)
  BY Before
<1>2. <<>> \in Seq(Item) /\ Learned \in Seq(Item)
  BY <1>1, TaggedEvents, KindsOfItems DEF Learned
<1>3. UNCHANGED <<learned, wOrder, missed, forgotten, taken>>
  BY DEF Short, Unsupported, Malformed, T!TakeEvents, components, storeVars,
         watchVars, ghosts
<1>4. ASSUME NEW a \in Sources, Short(a) PROVE Counted'
  <2> DEFINE amounts == [packets |-> 1]
  <2>1. FailAfter(<<>>, KeyOf[a], "short", FALSE, amounts)
    BY <1>4 DEF Short, ExporterKey
  <2>2. KeyOf[a] \in Exporters
    BY DEF Exporters
  <2>3. /\ \A c \in DOMAIN amounts : amounts[c] \in Nat
        /\ Lookup(amounts, "templates_new", 0) = 0
        /\ Lookup(amounts, "missed_exports", 0) = 0
    BY DEF Lookup
  <2> HIDE DEF amounts
  <2>4. QED BY <1>1, <1>2, <1>3, <2>1, <2>2, <2>3, CountedOthers
<1>5. ASSUME NEW a \in Sources, Unsupported(a) PROVE Counted'
  <2> DEFINE amounts == [packets |-> 1, unsupported |-> 1]
  <2>1. FailAfter(<<>>, KeyOf[a], "unsupported", TRUE, amounts)
    BY <1>5 DEF Unsupported, ExporterKey
  <2>2. KeyOf[a] \in Exporters
    BY DEF Exporters
  <2>3. /\ \A c \in DOMAIN amounts : amounts[c] \in Nat
        /\ Lookup(amounts, "templates_new", 0) = 0
        /\ Lookup(amounts, "missed_exports", 0) = 0
    BY DEF Lookup
  <2> HIDE DEF amounts
  <2>4. QED BY <1>1, <1>2, <1>3, <2>1, <2>2, <2>3, CountedOthers
<1>6. CASE Malformed
  <2> DEFINE amounts == [parse_errors |-> 1]
  <2>1. FailAfter(Learned, msg.exporter, "malformed", TRUE, amounts)
    BY <1>6 DEF Malformed
  <2>2. msg.exporter \in Exporters
    BY <1>1, <1>6 DEF Malformed, Rest, Message
  <2>3. /\ \A c \in DOMAIN amounts : amounts[c] \in Nat
        /\ Lookup(amounts, "templates_new", 0) = 0
        /\ Lookup(amounts, "missed_exports", 0) = 0
    BY DEF Lookup
  <2> HIDE DEF amounts
  <2>4. QED BY <1>1, <1>2, <1>3, <2>1, <2>2, <2>3, CountedOthers
<1>7. QED BY <1>4, <1>5, <1>6

(* A template that is news is counted as it is learned.                    *)
LEMMA TemplateSetCounted ==
  ASSUME IInv, Counted, NEW tid \in Tids, NEW entry \in T!Entries,
         TemplateSet(tid, entry)
  PROVE  Counted'
<1> DEFINE k == <<msg.exporter, msg.domain, tid>>
           fresh == learned' - learned
           amounts == [templates_new |-> fresh]
<1>1. StoreOK /\ QueueOK /\ Rest /\ learned \in Nat
  BY Before
<1>2. /\ NextSet /\ T!Put(k, entry) /\ Count(amounts)
      /\ UNCHANGED <<wOrder, missed, forgotten, queue, taken>>
  BY DEF TemplateSet, NextSet, watchVars, ghosts
<1>3. k \in TemplateKeys
  <2>1. msg \in Message
    BY <1>2, NextSetKeeps
  <2>2. QED BY <2>1 DEF Message, TemplateKeys
<1> HIDE DEF k
<1>4. StoreOK' /\ learned' >= learned
  BY <1>1, <1>2, <1>3, PutStore
<1>5. learned' \in Nat
  BY <1>4 DEF StoreOK, T!StoreTypeOK
<1>6. fresh \in Nat /\ learned + fresh = learned'
  <2> DEFINE a == learned'
  <2>1. a \in Nat /\ a >= learned /\ learned \in Nat
    BY <1>1, <1>4, <1>5
  <2> HIDE DEF a
  <2>2. a - learned \in Nat /\ learned + (a - learned) = a
    BY <2>1
  <2>3. QED BY <2>2 DEF a
<1> HIDE DEF fresh
<1>7. /\ \A c \in DOMAIN amounts : amounts[c] \in Nat
      /\ "events_dropped" \notin DOMAIN amounts
      /\ Lookup(amounts, "templates_new", 0) = fresh
      /\ Lookup(amounts, "missed_exports", 0) = 0
  BY <1>6 DEF Lookup
<1> HIDE DEF amounts
<1>8. \A c \in Counters : stats'[c] = stats[c] + Lookup(amounts, c, 0)
  BY <1>1, <1>2, <1>7, CountKeeps
<1>9. /\ {"templates_new", "missed_exports"} \subseteq Counters
      /\ stats["templates_new"] \in Nat /\ stats["missed_exports"] \in Nat
  BY <1>1, CounterNames DEF QueueOK
<1>10. /\ stats'["templates_new"] = stats["templates_new"] + fresh
       /\ stats'["missed_exports"] = stats["missed_exports"] + 0
  BY <1>7, <1>8, <1>9
<1>11. stats'["templates_new"] = learned'
  BY <1>6, <1>10 DEF Counted
<1>12. stats'["missed_exports"] = stats["missed_exports"]
  BY <1>9, <1>10
<1>13. QED BY <1>2, <1>11, <1>12 DEF Counted

(* The gap a message shows is added to the losses kept and to those        *)
(* counted, in one step.                                                   *)
LEMMA ObserveCounted ==
  ASSUME IInv, Counted, Observe
  PROVE  Counted'
<1> DEFINE k == <<msg.exporter, msg.domain, msg.version>>
           n == W!Records(k, msg.flows, Len(msg.options))
           amounts == [missed_exports |-> GapOf(k)]
           S0 == SumFunction(missed)
           S1 == SumFunction(missed')
           G == GapOf(k)
           M0 == stats["missed_exports"]
           M1 == stats'["missed_exports"]
<1>1. WatchOK /\ QueueOK /\ Rest
  BY Before
<1>2. /\ pc = "observe" /\ W!Observe(k, msg.seq, n) /\ Count(amounts)
      /\ UNCHANGED <<learned, queue, taken>>
  BY DEF Observe, ghosts, storeVars
<1>3. msg \in Message
  BY <1>1, <1>2 DEF Rest
<1>4. k \in Streams /\ msg.seq \in 0..(SeqModulus - 1) /\ n \in Nat
  <2>1. k \in Streams
    BY <1>3 DEF Message, Streams
  <2>2. msg.seq \in Seqs /\ msg.flows \in Nat /\ Len(msg.options) \in Nat
    BY <1>3 DEF Message
  <2>3. n \in Nat
    BY <2>2 DEF W!Records
  <2>4. msg.seq \in 0..(SeqModulus - 1)
    BY <2>2, DecoderAssumption
  <2>5. QED BY <2>1, <2>3, <2>4
<1> HIDE DEF k, n
<1>5. WatchOK' /\ G \in Nat
  BY <1>1, <1>2, <1>4, ObserveWatch
<1>6. /\ \A c \in DOMAIN amounts : amounts[c] \in Nat
      /\ "events_dropped" \notin DOMAIN amounts
      /\ Lookup(amounts, "templates_new", 0) = 0
      /\ Lookup(amounts, "missed_exports", 0) = G
  BY <1>5 DEF Lookup
<1> HIDE DEF amounts
<1>7. \A c \in Counters : stats'[c] = stats[c] + Lookup(amounts, c, 0)
  BY <1>1, <1>2, <1>6, CountKeeps
<1>8. /\ {"templates_new", "missed_exports"} \subseteq Counters
      /\ stats["templates_new"] \in Nat /\ M0 \in Nat
  BY <1>1, CounterNames DEF QueueOK
<1>9. stats'["templates_new"] = stats["templates_new"] + 0 /\ M1 = M0 + G
  BY <1>6, <1>7, <1>8
<1>10. stats'["templates_new"] = learned'
  BY <1>2, <1>8, <1>9 DEF Counted
<1>11. /\ DOMAIN missed \subseteq ToSet(wOrder) /\ S0 \in Nat
       /\ forgotten \in Nat /\ M0 = S0 + forgotten
  BY <1>1, LossesAreFinite DEF Counted
<1>12. forgotten' = forgotten + Dropped
  BY DEF Observe, Dropped
<1>13. /\ DOMAIN missed' \subseteq ToSet(wOrder')
       /\ forgotten' \in Nat /\ M1 = S1 + forgotten'
  <2>1. CASE W!Track(k, msg.seq, n)
    <3>1. /\ DOMAIN missed' \subseteq ToSet(wOrder')
          /\ S1 \in Nat /\ Dropped \in Nat /\ S0 = S1 + Dropped
      BY <1>1, <1>4, <1>11, <2>1, TrackCounts
    <3>2. G = 0
      <4>1. Lookup(missed', k, 0) = Lookup(missed, k, 0)
        BY <1>1, <1>4, <2>1, TrackWatch
      <4>2. Lookup(missed, k, 0) \in Nat
        BY <1>1, <1>11, LossesAreFinite DEF Lookup
      <4>3. QED BY <4>1, <4>2 DEF GapOf
    <3> DEFINE f == forgotten'
               d == Dropped
    <3> HIDE DEF S0, S1, G, M0, M1, f, d
    <3>3. /\ f = forgotten + d /\ M1 = M0 + 0 /\ S0 = S1 + d
          /\ S1 \in Nat /\ d \in Nat
      BY <1>9, <1>12, <3>1, <3>2 DEF f, d
    <3>4. f \in Nat /\ M1 = S1 + f
      BY <1>11, <3>3
    <3>5. QED BY <3>1, <3>4 DEF f
  <2>2. CASE k \in DOMAIN streams
    <3>1. /\ DOMAIN missed' \subseteq ToSet(wOrder')
          /\ S1 = S0 + G /\ Dropped = 0
      BY <1>1, <1>2, <1>4, <1>11, <2>2, TrackedCounts
    <3> HIDE DEF S0, S1, G, M0, M1
    <3>2. forgotten' = forgotten
      BY <1>11, <1>12, <3>1
    <3>3. M1 = S1 + forgotten
      BY <1>5, <1>9, <1>11, <3>1
    <3>4. QED BY <1>11, <3>1, <3>2, <3>3
  <2>3. QED BY <1>2, <2>1, <2>2 DEF W!Observe
<1>14. QED BY <1>10, <1>13 DEF Counted

LEMMA NextCounted == IInv /\ Counted /\ [Next]_vars => Counted'
<1> SUFFICES ASSUME IInv, Counted, [Next]_vars PROVE Counted'
  OBVIOUS
<1>1. /\ StoreOK /\ WatchOK /\ QueueOK /\ Rest
      /\ tEvents \in Seq(T!Event) /\ gapEvents \in Seq(W!GapEvent)
      /\ changes \in Seq(S!Change)
  BY Before
<1>2. CASE \E a \in Sources : Short(a) \/ Unsupported(a)
  BY <1>2, FailCounted
<1>3. ASSUME NEW a \in Sources, NEW d \in Domains, NEW v \in Versions,
             NEW seq \in Seqs, Header(a, d, v, seq)
      PROVE  Counted'
  <2> DEFINE amounts == [packets |-> 1]
  <2>1. Count(amounts)
    BY <1>3 DEF Header
  <2>2. UNCHANGED <<learned, wOrder, missed, forgotten, queue, taken>>
    BY <1>3 DEF Header, components, storeVars, watchVars, ghosts
  <2>3. /\ \A c \in DOMAIN amounts : amounts[c] \in Nat
        /\ "events_dropped" \notin DOMAIN amounts
        /\ Lookup(amounts, "templates_new", 0) = 0
        /\ Lookup(amounts, "missed_exports", 0) = 0
    BY DEF Lookup
  <2> HIDE DEF amounts
  <2>4. QED BY <1>1, <2>1, <2>2, <2>3, CountedOthers
<1>4. ASSUME NEW tid \in Tids, NEW entry \in T!Entries, TemplateSet(tid, entry)
      PROVE  Counted'
  BY <1>4, TemplateSetCounted
<1>5. ASSUME NEW tid \in Tids, DataSet(tid) PROVE Counted'
  <2> DEFINE k == <<msg.exporter, msg.domain, tid>>
             amounts == [deferred |-> 1]
  <2>1. /\ NextSet /\ T!Get(k)
        /\ UNCHANGED <<wOrder, missed, forgotten, queue, taken>>
        /\ Count(amounts) \/ stats' = stats
    BY <1>5 DEF DataSet, NextSet, watchVars, ghosts
  <2>2. learned' = learned
    BY <2>1 DEF T!Get
  <2>3. /\ \A c \in DOMAIN amounts : amounts[c] \in Nat
        /\ "events_dropped" \notin DOMAIN amounts
        /\ Lookup(amounts, "templates_new", 0) = 0
        /\ Lookup(amounts, "missed_exports", 0) = 0
    BY DEF Lookup
  <2> HIDE DEF amounts
  <2>4. CASE Count(amounts)
    BY <1>1, <2>1, <2>2, <2>3, <2>4, CountedOthers
  <2>5. CASE stats' = stats
    BY <2>1, <2>2, <2>5, CountedKept
  <2>6. QED BY <2>1, <2>4, <2>5
<1>6. CASE Malformed
  BY <1>6, FailCounted
<1>7. CASE Parsed
  <2> DEFINE es == Tagged("template", tEvents)
             amounts == [messages |-> 1, flows |-> msg.flows,
                         option_records |-> Len(msg.options)]
  <2>1. Queue(es, amounts)
    BY <1>7 DEF Parsed
  <2>2. UNCHANGED <<learned, wOrder, missed, forgotten, taken>>
    BY <1>7 DEF Parsed, T!TakeEvents, watchVars, ghosts
  <2>3. es \in Seq(Item)
    BY <1>1, TaggedEvents, KindsOfItems
  <2>4. msg.flows \in Nat /\ Len(msg.options) \in Nat
    BY <1>1, <1>7 DEF Parsed, Rest, Message
  <2>5. /\ \A c \in DOMAIN amounts : amounts[c] \in Nat
        /\ Lookup(amounts, "templates_new", 0) = 0
        /\ Lookup(amounts, "missed_exports", 0) = 0
    BY <2>4 DEF Lookup
  <2> HIDE DEF amounts, es
  <2>6. QED BY <1>1, <2>1, <2>2, <2>3, <2>5, CountedOthers
<1>8. CASE Observe
  BY <1>8, ObserveCounted
<1>9. CASE DrainGaps
  <2> DEFINE es == Tagged("gap", gapEvents)
             amounts == [packets |-> 0]
  <2>1. Queue(es, amounts)
    BY <1>9 DEF DrainGaps
  <2>2. UNCHANGED <<learned, wOrder, missed, forgotten, taken>>
    BY <1>9 DEF DrainGaps, W!TakeGapEvents, W!counters, storeVars, ghosts
  <2>3. es \in Seq(Item)
    BY <1>1, TaggedEvents, KindsOfItems
  <2>4. /\ \A c \in DOMAIN amounts : amounts[c] \in Nat
        /\ Lookup(amounts, "templates_new", 0) = 0
        /\ Lookup(amounts, "missed_exports", 0) = 0
    BY DEF Lookup
  <2> HIDE DEF amounts, es
  <2>5. QED BY <1>1, <2>1, <2>2, <2>3, <2>4, CountedOthers
<1>10. CASE Return
  <2> DEFINE es == Tagged("sampling", changes)
             amounts == [packets |-> 0]
  <2>1. Queue(es, amounts)
    BY <1>10 DEF Return
  <2>2. UNCHANGED <<learned, wOrder, missed, forgotten, taken>>
    BY <1>10 DEF Return, storeVars, watchVars, ghosts
  <2>3. es \in Seq(Item)
    BY <1>1, TaggedEvents, KindsOfItems
  <2>4. /\ \A c \in DOMAIN amounts : amounts[c] \in Nat
        /\ Lookup(amounts, "templates_new", 0) = 0
        /\ Lookup(amounts, "missed_exports", 0) = 0
    BY DEF Lookup
  <2> HIDE DEF amounts, es
  <2>5. QED BY <1>1, <2>1, <2>2, <2>3, <2>4, CountedOthers
<1>11. CASE Note \/ Raise \/ Take \/ UNCHANGED vars
  <2>1. UNCHANGED <<stats, learned, wOrder, missed, forgotten>>
    BY <1>11 DEF Note, Raise, Take, vars, components, storeVars, watchVars
  <2>2. QED BY <2>1, CountedKept
<1>12. QED
  BY <1>2, <1>3, <1>4, <1>5, <1>6, <1>7, <1>8, <1>9, <1>10, <1>11 DEF Next

LEMMA CountedAlways == Spec => []Counted
<1>1. Init => Counted
  <2> SUFFICES ASSUME Init PROVE Counted
    OBVIOUS
  <2>1. /\ learned = 0 /\ stats = [c \in Counters |-> 0]
        /\ DOMAIN missed = {} /\ forgotten = 0
    BY DEF Init, T!StoreInit, W!WatchInit
  <2>2. stats["templates_new"] = 0 /\ stats["missed_exports"] = 0
    BY <2>1 DEF Counters
  <2>3. SumFunction(missed) = 0
    BY <2>1, SumOfNone DEF SumFunction
  <2>4. QED BY <2>1, <2>2, <2>3 DEF Counted
<1>2. IInv /\ Counted /\ [Next]_vars => Counted'
  BY NextCounted
<1>3. QED BY <1>1, <1>2, IInvAlways, PTL DEF Spec

(* The counters agree with the components they are about, however many     *)
(* streams are tracked and evicted: every template learned is counted, and *)
(* the losses counted are those the watch still holds and those it forgot  *)
(* with the streams it evicted, no more and no less (decoder.py:225).      *)
THEOREM CountersRight == Spec => []CountersAgree
<1>1. Counted => CountersAgree
  BY DEF Counted, CountersAgree
<1>2. QED BY <1>1, CountedAlways, PTL

(* The type invariant: decode() and the components it drives keep their    *)
(* state well formed on every path, the failing ones included.             *)
THEOREM TypeCorrect == Spec => []TypeOK
<1>1. IInv /\ Counted => TypeOK
  BY DEF IInv, StoreOK, WatchOK, SamplingOK, QueueOK, Rest, ToldTyped, Counted,
         TypeOK
<1>2. QED BY <1>1, IInvAlways, CountedAlways, PTL
=============================================================================
