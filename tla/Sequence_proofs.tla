-------------------------- MODULE Sequence_proofs ---------------------------
(***************************************************************************)
(* That a sequence watch keeps its tables together and within its ceiling, *)
(* remembers the streams heard from recently, and announces every losing   *)
(* exporter, for any number of streams, any counter values and any order   *)
(* in which the sources send; and that it counts every export an exporter  *)
(* made exactly once, counts in order only what was lost, learns the rule  *)
(* of its neighbouring messages and follows an exporter that restarted,    *)
(* whatever the network does to the messages.                              *)
(***************************************************************************)
EXTENDS SequenceFlood, ExportStream, RecencyOrder_proofs

USE WatchAssumption

-----------------------------------------------------------------------------
(* The watch, whoever sends to it.                                         *)
WatchOK == WatchTypeOK /\ NoRepeats(order)

LEMMA WatchTypes ==
  ASSUME WatchOK
  PROVE  /\ order \in Seq(Streams) /\ NoRepeats(order)
         /\ streams \in [ToSet(order) -> State]
         /\ missed \in [DOMAIN missed -> Nat \ {0}]
         /\ DOMAIN missed \subseteq Streams
         /\ units \in [DOMAIN missed -> Units]
         /\ resyncs \in Nat /\ backwards \in Nat /\ evicted \in Nat
         /\ warned \in Seq(Exporters) /\ gapEvents \in Seq(GapEvent)
BY DEF WatchOK, WatchTypeOK

LEMMA WatchTyped ==
  ASSUME order' \in Seq(Streams), NoRepeats(order'),
         streams' \in [ToSet(order') -> State],
         missed' \in [DOMAIN missed' -> Nat \ {0}],
         DOMAIN missed' \subseteq Streams,
         units' \in [DOMAIN missed' -> Units],
         resyncs' \in Nat, backwards' \in Nat, evicted' \in Nat,
         warned' \in Seq(Exporters), gapEvents' \in Seq(GapEvent)
  PROVE  WatchOK'
BY DEF WatchOK, WatchTypeOK

(* A stream seen for the first time, and the least recently seen gone.     *)
LEMMA TrackWatch ==
  ASSUME WatchOK, NEW k \in Streams, NEW seq \in 0..(SeqModulus - 1),
         NEW n \in Nat, Track(k, seq, n)
  PROVE  WatchOK'
<1> DEFINE r == Append(order, k)
           kept == Newest(r, MaxStreams)
           new == [seq |-> seq, records |-> n, mode |-> "unknown",
                   backwards |-> 0]
           now == [x \in DOMAIN streams \cup {k} |->
                     IF x = k THEN new ELSE streams[x]]
<1>1. /\ order \in Seq(Streams) /\ NoRepeats(order)
      /\ streams \in [ToSet(order) -> State]
      /\ missed \in [DOMAIN missed -> Nat \ {0}]
      /\ DOMAIN missed \subseteq Streams
      /\ units \in [DOMAIN missed -> Units]
      /\ resyncs \in Nat /\ backwards \in Nat /\ evicted \in Nat
      /\ warned \in Seq(Exporters) /\ gapEvents \in Seq(GapEvent)
  BY WatchTypes
<1>2. /\ k \notin ToSet(order) /\ order' = kept
      /\ streams' = Keep(now, ToSet(kept))
      /\ missed' = Keep(missed, ToSet(kept))
      /\ units' = Keep(units, ToSet(kept))
      /\ evicted' = evicted + Len(order) + 1 - Len(kept)
      /\ warned' = Newest(warned, MaxStreams)
      /\ UNCHANGED <<resyncs, backwards, gapEvents>>
  BY <1>1 DEF Track, Evict, TrimWarned
<1>3. r \in Seq(Streams) /\ Len(r) = Len(order) + 1 /\ r[Len(r)] = k
  BY <1>1
<1>4. ToSet(r) = ToSet(order) \cup {k}
  BY <1>1, AppendKey
<1>5. NoRepeats(r)
  BY <1>1, <1>2, AppendKey
<1> HIDE DEF r
<1>6. /\ kept \in Seq(Streams)
      /\ Len(kept) = IF Len(r) > MaxStreams THEN MaxStreams ELSE Len(r)
  BY <1>3, NewestProperties
<1>7. /\ Len(order) \in Nat /\ Len(r) \in Nat /\ Len(kept) \in Nat \ {0}
      /\ Len(kept) <= Len(order) + 1
  <2> DEFINE p == Len(order)
             q == Len(r)
             m == Len(kept)
  <2>1. p \in Nat /\ q = p + 1
    BY <1>1, <1>3
  <2>2. m = IF q > MaxStreams THEN MaxStreams ELSE q
    BY <1>6
  <2>3. MaxStreams \in Nat \ {0}
    OBVIOUS
  <2> HIDE DEF p, q, m
  <2>4. q \in Nat /\ m \in Nat \ {0} /\ m <= p + 1
    BY <2>1, <2>2, <2>3
  <2>5. QED BY <2>1, <2>4 DEF p, q, m
<1>7a. ToSet(kept) \subseteq ToSet(r)
  BY <1>3, NewestProperties
<1>8. NoRepeats(kept)
  BY <1>3, <1>5, NewestProperties
<1> HIDE DEF kept
<1>10. /\ new \in State
       /\ ToSet(kept) \subseteq DOMAIN now
  BY <1>1, <1>4, <1>7a DEF State, Modes
<1> HIDE DEF new
<1>11. streams' \in [ToSet(kept) -> State]
  BY <1>1, <1>2, <1>10 DEF Keep
<1>12. /\ DOMAIN missed' = DOMAIN missed \cap ToSet(kept)
       /\ \A x \in DOMAIN missed' : missed'[x] = missed[x]
       /\ missed' \in [DOMAIN missed' -> Nat \ {0}]
       /\ units' \in [DOMAIN missed' -> Units]
  BY <1>1, <1>2 DEF Keep
<1>13. evicted' \in Nat
  <2> DEFINE p == Len(order)
             m == Len(kept)
  <2>1. p \in Nat /\ m \in Nat /\ m <= p + 1 /\ evicted \in Nat
    BY <1>1, <1>7
  <2>2. evicted' = evicted + p + 1 - m
    BY <1>2
  <2> HIDE DEF p, m
  <2>3. QED BY <2>1, <2>2
<1>14. warned' \in Seq(Exporters)
  BY <1>1, <1>2, NewestProperties
<1>15. QED
  BY <1>1, <1>2, <1>6, <1>8, <1>11, <1>12, <1>13, <1>14, WatchTyped

LEMMA RememberWatch ==
  ASSUME WatchOK, NEW k \in DOMAIN streams, NEW t \in State,
         Remember(k, t)
  PROVE  /\ order' \in Seq(Streams) /\ NoRepeats(order')
         /\ streams' \in [ToSet(order') -> State]
         /\ evicted' = evicted
<1>1. /\ order \in Seq(Streams) /\ NoRepeats(order)
      /\ streams \in [ToSet(order) -> State] /\ k \in ToSet(order)
      /\ k \in Streams
  BY WatchTypes, InToSet
<1>2. /\ streams' = [streams EXCEPT ![k] = t] /\ evicted' = evicted
      /\ order' = MoveToEnd(order, k)
  BY DEF Remember
<1>3. ToSet(order') = ToSet(order) \cup {k}
  BY <1>1, <1>2, MoveToEndProperties
<1>4. order' \in Seq(Streams)
  BY <1>1, <1>2, MoveToEndProperties
<1>5. NoRepeats(order')
  BY <1>1, <1>2, MoveToEndProperties
<1>6. streams' \in [ToSet(order') -> State]
  BY <1>1, <1>2, <1>3
<1>7. QED BY <1>2, <1>4, <1>5, <1>6

(* A message that counts no loss.                                          *)
LEMMA NoLossWatch ==
  ASSUME WatchOK, NEW k \in DOMAIN streams, NEW t \in State,
         Remember(k, t), UNCHANGED <<missed, units, warned, gapEvents>>,
         resyncs' \in Nat, backwards' \in Nat
  PROVE  WatchOK'
<1>1. /\ order' \in Seq(Streams) /\ NoRepeats(order')
      /\ streams' \in [ToSet(order') -> State]
      /\ evicted' = evicted
  BY RememberWatch
<1>2. /\ missed \in [DOMAIN missed -> Nat \ {0}]
      /\ DOMAIN missed \subseteq Streams
      /\ units \in [DOMAIN missed -> Units] /\ evicted \in Nat
      /\ warned \in Seq(Exporters) /\ gapEvents \in Seq(GapEvent)
  BY WatchTypes
<1>3. QED BY <1>1, <1>2, WatchTyped

(* Steps are whole numbers, and what is counted as a gap is positive.      *)
LEMMA GapIsInteger ==
  ASSUME NEW s \in State, NEW seq \in Int
  PROVE  GapAt(s, seq) \in Int
<1>1. Expected(s) \in Int /\ Half \in Int
  BY DEF Half, Expected, ByMessages, ByRecords, State
<1> DEFINE d == seq - Expected(s) + Half
<1>2. d \in Int
  BY <1>1
<1> HIDE DEF d
<1>3. d % SeqModulus \in Int
  BY <1>2
<1>4. QED BY <1>1, <1>3 DEF GapAt, d

(* A remainder is what is left when whole turns are taken away.            *)
LEMMA WholeTurns ==
  ASSUME NEW a \in Int
  PROVE  \E j \in Int : a % SeqModulus = a - SeqModulus * j
<1> DEFINE q == a \div SeqModulus
           r == a % SeqModulus
<1>1. q \in Int /\ r \in Int /\ a = SeqModulus * q + r
  OBVIOUS
<1> HIDE DEF q, r
<1>2. SeqModulus * q \in Int
  BY <1>1
<1>3. r = a - SeqModulus * q
  BY <1>1, <1>2
<1>4. QED BY <1>1, <1>3 DEF r

LEMMA InRange ==
  ASSUME NEW a \in Nat
  PROVE  a % SeqModulus \in 0..(SeqModulus - 1)
OBVIOUS

LEMMA TurnsDoNotMatter ==
  ASSUME NEW a \in Int, NEW b \in 0..(SeqModulus - 1), NEW j \in Int,
         a = b + SeqModulus * j
  PROVE  a % SeqModulus = b
<1> DEFINE r == a % SeqModulus
<1>1. PICK q \in Int : r = a - SeqModulus * q
  BY WholeTurns
<1>2. r \in 0..(SeqModulus - 1)
  OBVIOUS
<1> HIDE DEF r
<1> DEFINE t == j - q
<1>3. t \in Int /\ SeqModulus * t = r - b
  BY <1>1, <1>2
<1> HIDE DEF t
<1>4. CASE t >= 1
  <2>1. SeqModulus * t >= SeqModulus
    BY <1>3, <1>4
  <2>2. QED BY <1>2, <1>3, <2>1
<1>5. CASE t <= -1
  <2>1. SeqModulus * t <= -SeqModulus
    BY <1>3, <1>5
  <2>2. QED BY <1>2, <1>3, <2>1
<1>6. CASE t = 0
  BY <1>2, <1>3, <1>6 DEF r
<1>7. QED BY <1>3, <1>4, <1>5, <1>6

(* The counter reads truly: the gap computed from the sequence numbers of  *)
(* two messages is the distance of their counts, as long as that is less   *)
(* than half a turn.                                                       *)
LEMMA GapIsDistance ==
  ASSUME NEW s \in State, NEW c \in Nat, NEW x \in Nat, NEW e \in Nat,
         s.seq = c % SeqModulus,
         e = IF s.mode = "messages" THEN 1 ELSE s.records,
         x - c - e \in -Half..(SeqModulus - Half - 1)
  PROVE  GapAt(s, x % SeqModulus) = x - c - e
<1> DEFINE d == x - c - e
           h == Half
           g == (x % SeqModulus) - Expected(s) + h
<1>1. h \in Int /\ d \in Int /\ d + h \in 0..(SeqModulus - 1)
  BY DEF Half
<1>2. Expected(s) = ((c % SeqModulus) + e) % SeqModulus
  BY DEF Expected, ByMessages, ByRecords, State
<1>3. c \in Int /\ x \in Int /\ c % SeqModulus \in Int /\ (c % SeqModulus) + e \in Int
  OBVIOUS
<1>4. PICK i \in Int : c % SeqModulus = c - SeqModulus * i
  BY <1>3, WholeTurns
<1>5. PICK j \in Int : Expected(s) = ((c % SeqModulus) + e) - SeqModulus * j
  BY <1>2, <1>3, WholeTurns
<1>6. PICK k \in Int : x % SeqModulus = x - SeqModulus * k
  BY <1>3, WholeTurns
<1> HIDE DEF h
<1>7. g = (d + h) + SeqModulus * (i + j - k)
  BY <1>1, <1>4, <1>5, <1>6
<1>8. g \in Int /\ i + j - k \in Int
  BY <1>1, <1>5, <1>6
<1> HIDE DEF d, g
<1>9. g % SeqModulus = d + h
  BY <1>1, <1>7, <1>8, TurnsDoNotMatter
<1>10. QED BY <1>1, <1>9 DEF GapAt, d, g, h

LEMMA GapIsPositive ==
  ASSUME NEW t \in State, NEW seq \in 0..(SeqModulus - 1), IsGap(GapAt(t, seq))
  PROVE  GapAt(t, seq) \in Nat \ {0}
<1>1. GapAt(t, seq) \in Int
  <2>1. seq \in Int
    OBVIOUS
  <2>2. QED BY <2>1, GapIsInteger
<1>2. QED BY <1>1 DEF IsGap

LEMMA GapWatch ==
  ASSUME WatchOK, NEW k \in Streams, k \in DOMAIN streams,
         NEW seq \in 0..(SeqModulus - 1), NEW n \in Nat, Gap(k, seq, n)
  PROVE  WatchOK'
<1> DEFINE s == streams[k]
           gap == GapAt(s, seq)
           unit == Unit(s.mode, VersionOf[k])
           e == ExporterOf[k]
           event == [exporter |-> e, stream |-> k, missed |-> gap,
                     unit |-> unit]
<1>1. /\ order \in Seq(Streams) /\ NoRepeats(order)
      /\ streams \in [ToSet(order) -> State]
      /\ missed \in [DOMAIN missed -> Nat \ {0}]
      /\ DOMAIN missed \subseteq Streams
      /\ units \in [DOMAIN missed -> Units]
      /\ resyncs \in Nat /\ backwards \in Nat /\ evicted \in Nat
      /\ warned \in Seq(Exporters) /\ gapEvents \in Seq(GapEvent)
  BY WatchTypes
<1>2. s \in State
  BY <1>1
<1>3. gap \in Nat \ {0}
  BY <1>2, GapIsPositive DEF Gap
<1>4. unit \in Units
  BY DEF Unit, Units
<1>5. e \in Exporters
  BY DEF Exporters
<1>6. /\ Remember(k, Moved(s, seq, n))
      /\ missed' = [x \in DOMAIN missed \cup {k} |->
                      Lookup(missed, x, 0) + IF x = k THEN gap ELSE 0]
      /\ units' = [x \in DOMAIN units \cup {k} |->
                     IF x = k THEN unit ELSE units[x]]
      /\ UNCHANGED <<resyncs, backwards>>
      /\ \/ UNCHANGED <<warned, gapEvents>>
         \/ /\ warned' = Append(warned, e)
            /\ gapEvents' = Append(gapEvents, event)
  BY DEF Gap, AnnounceOnce
<1>7. Moved(s, seq, n) \in State
  BY <1>2 DEF Moved, State
<1>8. /\ order' \in Seq(Streams) /\ NoRepeats(order')
      /\ streams' \in [ToSet(order') -> State]
      /\ evicted' = evicted
  BY <1>6, <1>7, RememberWatch
<1> HIDE DEF s, gap, unit, e
<1>9. event \in GapEvent
  BY <1>3, <1>4, <1>5 DEF GapEvent
<1> HIDE DEF event
<1>10. /\ warned' \in Seq(Exporters) /\ gapEvents' \in Seq(GapEvent)
  <2>1. CASE UNCHANGED <<warned, gapEvents>>
    BY <1>1, <2>1
  <2>2. CASE /\ warned' = Append(warned, e)
             /\ gapEvents' = Append(gapEvents, event)
    <3>1. warned' \in Seq(Exporters)
      BY <1>1, <1>5, <2>2
    <3>2. gapEvents' \in Seq(GapEvent)
      BY <1>1, <1>9, <2>2
    <3>3. QED BY <1>1, <3>1, <3>2
  <2>3. QED BY <1>6, <2>1, <2>2 DEF event
<1>11. /\ DOMAIN missed' = DOMAIN missed \cup {k}
       /\ DOMAIN units' = DOMAIN missed'
       /\ DOMAIN missed' \subseteq Streams
  BY <1>1, <1>6
<1>12. missed' \in [DOMAIN missed' -> Nat \ {0}]
  <2>1. \A x \in DOMAIN missed' : Lookup(missed, x, 0) \in Nat
    BY <1>1 DEF Lookup
  <2>2. \A x \in DOMAIN missed' : missed'[x] \in Nat \ {0}
    <3>1. SUFFICES ASSUME NEW x \in DOMAIN missed'
                   PROVE  missed'[x] \in Nat \ {0}
      OBVIOUS
    <3>2. missed'[x] = Lookup(missed, x, 0) + IF x = k THEN gap ELSE 0
      BY <1>6, <1>11
    <3>3. CASE x = k
      BY <1>3, <2>1, <3>2, <3>3
    <3>4. CASE x # k
      <4>1. x \in DOMAIN missed
        BY <1>11, <3>4
      <4>2. Lookup(missed, x, 0) \in Nat \ {0}
        BY <1>1, <4>1 DEF Lookup
      <4>3. QED BY <3>2, <3>4, <4>2
    <3>5. QED BY <3>3, <3>4
  <2>3. QED BY <1>6, <2>2
<1>13. units' \in [DOMAIN missed' -> Units]
  BY <1>1, <1>4, <1>6, <1>11
<1>14. QED
  BY <1>1, <1>6, <1>8, <1>10, <1>11, <1>12, <1>13, WatchTyped

(* Whatever a message says, the watch's state stays well formed.           *)
LEMMA ObserveWatch ==
  ASSUME WatchOK, NEW k \in Streams, NEW seq \in 0..(SeqModulus - 1),
         NEW n \in Nat, Observe(k, seq, n)
  PROVE  WatchOK'
<1>1. CASE Track(k, seq, n)
  BY <1>1, TrackWatch
<1>2. CASE k \in DOMAIN streams /\ \/ Learn(k, seq, n) \/ Late(k, seq)
                                   \/ Resync(k, seq, n) \/ InStep(k, seq, n)
  <2>1. PICK t \in State :
          /\ Remember(k, t) /\ UNCHANGED <<missed, units, warned, gapEvents>>
          /\ resyncs' \in Nat /\ backwards' \in Nat
    <3> DEFINE s == streams[k]
    <3>1. s \in State /\ resyncs \in Nat /\ backwards \in Nat
      BY <1>2, WatchTypes
    <3>2. Moved(s, seq, n) \in State
      BY <3>1 DEF Moved, State
    <3>3. HeldBack(s, seq) \in State
      BY <3>1 DEF HeldBack, State
    <3>4. \A mode \in Modes :
            [s EXCEPT !.seq = seq, !.records = n, !.mode = mode] \in State
      BY <3>1 DEF State
    <3>5. {"unknown", "messages", "records"} \subseteq Modes
      BY DEF Modes
    <3> HIDE DEF s
    <3>6. CASE Learn(k, seq, n)
      BY <3>1, <3>4, <3>5, <3>6 DEF Learn, s
    <3>7. CASE Late(k, seq)
      BY <3>1, <3>3, <3>7 DEF Late, s
    <3>8. CASE Resync(k, seq, n)
      BY <3>1, <3>2, <3>8 DEF Resync, s
    <3>9. CASE InStep(k, seq, n)
      BY <3>1, <3>2, <3>9 DEF InStep, s
    <3>10. QED BY <1>2, <3>6, <3>7, <3>8, <3>9
  <2>2. QED BY <1>2, <2>1, NoLossWatch
<1>3. CASE k \in DOMAIN streams /\ Gap(k, seq, n)
  BY <1>3, GapWatch
<1>4. QED BY <1>1, <1>2, <1>3 DEF Observe

(* What a message does to the marks: it becomes its stream's, or it is late *)
(* and adds to the run of late ones; and no other stream's mark moves.     *)
LEMMA ObserveMarks ==
  ASSUME WatchOK, NEW k \in Streams, NEW seq \in 0..(SeqModulus - 1),
         NEW n \in Nat, Observe(k, seq, n)
  PROVE  /\ \A x \in DOMAIN streams' \ {k} :
              x \in DOMAIN streams /\ streams'[x] = streams[x]
         /\ backwards' # backwards =>
              /\ k \in DOMAIN streams /\ k \in DOMAIN streams'
              /\ GapAt(streams[k], seq) < 0
              /\ streams[k].backwards + 1 < ResyncAfter
              /\ streams'[k] = [streams[k] EXCEPT !.backwards = @ + 1]
         /\ backwards' = backwards /\ k \in DOMAIN streams' =>
              /\ streams'[k].seq = seq /\ streams'[k].records = n
              /\ \/ streams'[k].backwards = 0
                 \/ /\ k \in DOMAIN streams
                    /\ streams'[k].backwards = streams[k].backwards
<1> DEFINE s == streams[k]
<1>1. /\ streams \in [ToSet(order) -> State] /\ backwards \in Nat
  BY WatchTypes
<1>2. CASE Track(k, seq, n)
  BY <1>2 DEF Track, Keep
<1>3. ASSUME k \in DOMAIN streams, NEW t, Remember(k, t)
      PROVE  /\ DOMAIN streams' = DOMAIN streams /\ streams'[k] = t
             /\ \A x \in DOMAIN streams \ {k} : streams'[x] = streams[x]
  BY <1>1, <1>3 DEF Remember
<1>4. k \in DOMAIN streams => s \in State
  BY <1>1
<1>5. CASE k \in DOMAIN streams /\ Late(k, seq)
  <2>1. /\ Remember(k, [s EXCEPT !.backwards = @ + 1])
        /\ backwards' = backwards + 1 /\ GapAt(s, seq) < 0
        /\ s.backwards + 1 < ResyncAfter
    BY <1>5 DEF Late, HeldBack, IsLate
  <2>2. QED BY <1>1, <1>3, <1>5, <2>1
<1>6. CASE k \in DOMAIN streams /\ Learn(k, seq, n)
  <2>1. PICK mode :
          /\ Remember(k, [s EXCEPT !.seq = seq, !.records = n, !.mode = mode])
          /\ backwards' = backwards
    BY <1>6 DEF Learn
  <2> DEFINE t == [s EXCEPT !.seq = seq, !.records = n, !.mode = mode]
  <2>2. t.seq = seq /\ t.records = n /\ t.backwards = s.backwards
    BY <1>4, <1>6 DEF State
  <2> HIDE DEF t
  <2>3. Remember(k, t)
    BY <2>1 DEF t
  <2>4. QED BY <1>3, <1>6, <2>1, <2>2, <2>3
<1>7. CASE k \in DOMAIN streams /\ \/ Resync(k, seq, n) \/ InStep(k, seq, n)
                                   \/ Gap(k, seq, n)
  <2> DEFINE t == Moved(s, seq, n)
  <2>1. t.seq = seq /\ t.records = n /\ t.backwards = 0
    BY <1>4, <1>7 DEF State, Moved
  <2>2. Remember(k, t) /\ backwards' = backwards
    BY <1>7 DEF Resync, InStep, Gap
  <2> HIDE DEF t
  <2>3. QED BY <1>3, <1>7, <2>1, <2>2
<1>8. QED BY <1>2, <1>5, <1>6, <1>7 DEF Observe

(* What a message does to the counts: a judged one that is neither late    *)
(* nor a new base adds what is between it and the mark, under the same     *)
(* rule as before; a late one adds nothing; and no other stream's count    *)
(* moves.                                                                  *)
LEMMA ObserveCounts ==
  ASSUME WatchOK, NEW k \in Streams, NEW seq \in 0..(SeqModulus - 1),
         NEW n \in Nat, Observe(k, seq, n)
  PROVE  /\ \A x \in DOMAIN streams' \ {k} :
              Lookup(missed', x, 0) = Lookup(missed, x, 0)
         /\ backwards' # backwards => missed' = missed
         /\ (/\ backwards' = backwards /\ resyncs' = resyncs
             /\ k \in DOMAIN streams /\ streams[k].mode # "unknown") =>
              /\ Lookup(missed', k, 0)
                   = Lookup(missed, k, 0) + GapAt(streams[k], seq)
              /\ streams'[k].mode = streams[k].mode
<1> DEFINE s == streams[k]
           gap == GapAt(s, seq)
<1>1. /\ streams \in [ToSet(order) -> State]
      /\ missed \in [DOMAIN missed -> Nat \ {0}]
      /\ backwards \in Nat /\ resyncs \in Nat
  BY WatchTypes
<1>2. CASE Track(k, seq, n)
  BY <1>1, <1>2 DEF Track, Keep, Evict, Lookup
<1>3. CASE k \in DOMAIN streams /\ \/ Learn(k, seq, n) \/ Late(k, seq)
                                   \/ Resync(k, seq, n)
  <2>1. /\ missed' = missed
        /\ \/ s.mode = "unknown" \/ backwards' = backwards + 1
           \/ resyncs' = resyncs + 1
    BY <1>3 DEF Learn, Late, Resync
  <2>2. \A x : Lookup(missed', x, 0) = Lookup(missed, x, 0)
    BY <2>1
  <2>3. \/ s.mode = "unknown" \/ backwards' # backwards \/ resyncs' # resyncs
    BY <1>1, <2>1
  <2>4. \/ streams[k].mode = "unknown" \/ backwards' # backwards
        \/ resyncs' # resyncs
    BY <2>3
  <2>5. missed' = missed
    BY <2>1
  <2> HIDE DEF s, gap
  <2>6. QED BY ONLY <2>2, <2>4, <2>5
<1>4. CASE k \in DOMAIN streams /\ \/ InStep(k, seq, n) \/ Gap(k, seq, n)
  <2>1. s \in State /\ Moved(s, seq, n).mode = s.mode
    BY <1>1, <1>4 DEF Moved, State
  <2>2. streams' = [streams EXCEPT ![k] = Moved(s, seq, n)]
    BY <1>4 DEF InStep, Gap, Remember
  <2>3. streams'[k].mode = s.mode
    BY <1>1, <1>4, <2>1, <2>2
  <2>4. /\ DOMAIN missed \subseteq DOMAIN missed' \cup {k}
        /\ \A x \in DOMAIN missed' \ {k} : x \in DOMAIN missed
        /\ backwards' = backwards
    BY <1>4 DEF InStep, Gap
  <2>5. \A x : Lookup(missed, x, 0) \in Nat
    BY <1>1 DEF Lookup
  <2>6. CASE InStep(k, seq, n)
    <3>1. missed' = missed /\ gap = 0
      BY <2>6 DEF InStep
    <3>2. \A x : Lookup(missed', x, 0) = Lookup(missed, x, 0)
      BY <3>1
    <3> HIDE DEF gap
    <3>3. Lookup(missed', k, 0) = Lookup(missed, k, 0) + gap
      BY <2>5, <3>1, <3>2
    <3>4. Lookup(missed', k, 0) = Lookup(missed, k, 0) + GapAt(streams[k], seq)
      BY <3>3 DEF gap
    <3>5. streams'[k].mode = streams[k].mode /\ backwards' = backwards
      BY <2>3, <2>4
    <3> HIDE DEF s
    <3>6. QED BY ONLY <3>2, <3>4, <3>5
  <2>7. CASE Gap(k, seq, n)
    <3>1. missed' = [x \in DOMAIN missed \cup {k} |->
                       Lookup(missed, x, 0) + IF x = k THEN gap ELSE 0]
      BY <2>7 DEF Gap
    <3> HIDE DEF gap
    <3>2. Lookup(missed', k, 0) = Lookup(missed, k, 0) + gap
      BY <3>1 DEF Lookup
    <3>3. \A x : x # k => Lookup(missed', x, 0) = Lookup(missed, x, 0)
      <4>1. SUFFICES ASSUME NEW x, x # k
                     PROVE  Lookup(missed', x, 0) = Lookup(missed, x, 0)
        OBVIOUS
      <4>2. CASE x \in DOMAIN missed
        <5>1. missed'[x] = Lookup(missed, x, 0) + 0
          BY <3>1, <4>1, <4>2
        <5>2. QED BY <2>5, <3>1, <4>2, <5>1 DEF Lookup
      <4>3. CASE x \notin DOMAIN missed
        BY <3>1, <4>1, <4>3 DEF Lookup
      <4>4. QED BY <4>2, <4>3
    <3>4. Lookup(missed', k, 0) = Lookup(missed, k, 0) + GapAt(streams[k], seq)
      BY <3>2 DEF gap
    <3>5. streams'[k].mode = streams[k].mode /\ backwards' = backwards
      BY <2>3, <2>4
    <3> HIDE DEF s
    <3>6. QED BY ONLY <3>3, <3>4, <3>5
  <2>8. QED BY <1>4, <2>6, <2>7
<1>5. QED BY <1>2, <1>3, <1>4 DEF Observe

LEMMA ObserveAhead ==
  ASSUME WatchOK, NEW k \in Streams, NEW seq \in 0..(SeqModulus - 1),
         NEW n \in Nat, Observe(k, seq, n), backwards' = backwards,
         resyncs' = resyncs, k \in DOMAIN streams, streams[k].mode # "unknown"
  PROVE  GapAt(streams[k], seq) >= 0
<1>1. backwards \in Nat /\ resyncs \in Nat
  BY WatchTypes
<1>2. ~Track(k, seq, n)
  BY DEF Track
<1>3. ~Learn(k, seq, n) /\ ~Late(k, seq) /\ ~Resync(k, seq, n)
  BY <1>1 DEF Learn, Late, Resync
<1>4. InStep(k, seq, n) \/ Gap(k, seq, n)
  BY <1>2, <1>3 DEF Observe
<1>5. streams[k] \in State
  BY WatchTypes
<1>6. GapAt(streams[k], seq) \in Int
  <2>1. seq \in Int
    OBVIOUS
  <2>2. QED BY <1>5, <2>1, GapIsInteger
<1>7. GapAt(streams[k], seq) = 0 \/ GapAt(streams[k], seq) > 0
  BY <1>4 DEF InStep, Gap, IsGap
<1>8. QED BY <1>6, <1>7

-----------------------------------------------------------------------------
(* The watch and more sources than it has room for.                        *)
(* A stream heard from and no longer tracked was passed by as many others  *)
(* as the table has places.                                                *)
Passed == \A k \in heard : k \notin ToSet(order) =>
                             Cardinality(since[k]) >= MaxStreams

FewHeard == \A k \in Streams : IsFiniteSet(since[k])

TrackedExporters == {ExporterOf[k] : k \in ToSet(order)}

(* Past the ceiling, and anywhere before the first eviction, the announced *)
(* exporters are those of tracked streams: so few can have joined since    *)
(* the table was last trimmed.                                             *)
WarnedAreTracked ==
  /\ NoRepeats(warned)
  /\ \A i \in 1..Len(warned) : i > MaxStreams => warned[i] \in TrackedExporters
  /\ evicted = 0 => ToSet(warned) \subseteq TrackedExporters

(* The table of announced exporters is true, and until the first eviction  *)
(* it is the whole truth.                                                  *)
WarnedIsTrue ==
  /\ \A e \in ToSet(warned) : announcements[e] > 0
  /\ evicted = 0 => \A e \in Exporters :
       announcements[e] = IF e \in ToSet(warned) THEN 1 ELSE 0

(* The inductive invariant.                                                *)
FloodInv == /\ FloodTypeOK /\ TablesTogether /\ GapsHaveARule /\ LossAnnounced
            /\ NewerIn(order, since) /\ Passed /\ FewHeard
            /\ WarnedAreTracked /\ WarnedIsTrue

USE FloodAssumption

LEMMA InitFloodInv == FloodInit => FloodInv
<1> SUFFICES ASSUME FloodInit PROVE FloodInv
  OBVIOUS
<1> USE DEF FloodInit, WatchInit
<1>1. /\ order = <<>> /\ Len(order) = 0 /\ ToSet(order) = {}
      /\ warned = <<>> /\ Len(warned) = 0 /\ ToSet(warned) = {}
  BY DEF ToSet
<1>2. FloodTypeOK
  BY <1>1 DEF FloodTypeOK, WatchTypeOK
<1>3. TablesTogether /\ GapsHaveARule /\ LossAnnounced
  BY <1>1 DEF TablesTogether, NoRepeats, GapsHaveARule, LossAnnounced
<1>4. NewerIn(order, since) /\ Passed
  BY <1>1 DEF NewerIn, Passed
<1>5. FewHeard
  BY FS_EmptySet DEF FewHeard
<1>6. WarnedAreTracked /\ WarnedIsTrue
  BY <1>1 DEF WarnedAreTracked, WarnedIsTrue, NoRepeats
<1>7. QED BY <1>2, <1>3, <1>4, <1>5, <1>6 DEF FloodInv

(* Before the first eviction the announced exporters fit the ceiling.      *)
LEMMA TrackedExportersAreFew ==
  ASSUME FloodInv
  PROVE  /\ IsFiniteSet(TrackedExporters)
         /\ Cardinality(TrackedExporters) \in Nat
         /\ Cardinality(TrackedExporters) <= MaxStreams
<1>1. /\ order \in Seq(Streams) /\ NoRepeats(order) /\ Len(order) <= MaxStreams
  BY DEF FloodInv, FloodTypeOK, WatchTypeOK, TablesTogether
<1>2. IsFiniteSet(ToSet(order)) /\ Cardinality(ToSet(order)) = Len(order)
  BY <1>1, LengthIsCardinality
<1>3. /\ IsFiniteSet(TrackedExporters)
      /\ Cardinality(TrackedExporters) <= Cardinality(ToSet(order))
  <2> DEFINE f == [k \in ToSet(order) |-> ExporterOf[k]]
  <2>1. f \in Surjection(ToSet(order), TrackedExporters)
    BY DEF Surjection, TrackedExporters
  <2>2. QED BY <1>2, <2>1, FS_Surjection
<1>4. Cardinality(TrackedExporters) \in Nat
  BY <1>3, FS_CardinalityType
<1>5. QED BY <1>1, <1>2, <1>3, <1>4

LEMMA WarnedFitsBeforeEviction ==
  ASSUME FloodInv, evicted = 0
  PROVE  Len(warned) <= MaxStreams
<1>1. warned \in Seq(Exporters) /\ NoRepeats(warned)
  BY DEF FloodInv, FloodTypeOK, WatchTypeOK, WarnedAreTracked
<1>2. ToSet(warned) \subseteq TrackedExporters
  BY DEF FloodInv, WarnedAreTracked
<1>3. Cardinality(ToSet(warned)) = Len(warned)
  BY <1>1, LengthIsCardinality
<1>4. Cardinality(ToSet(warned)) <= Cardinality(TrackedExporters)
  BY <1>2, TrackedExportersAreFew, FS_Subset
<1>5. QED BY <1>1, <1>3, <1>4, TrackedExportersAreFew

-----------------------------------------------------------------------------
(* Whatever a message does, its stream ends up the most recently seen.     *)
LEMMA ObserveOrders ==
  ASSUME FloodInv, NEW k \in Streams, NEW seq, NEW n, Observe(k, seq, n)
  PROVE  order' = Newest(MoveToEnd(order, k), MaxStreams)
<1>1. /\ order \in Seq(Streams) /\ NoRepeats(order) /\ Len(order) <= MaxStreams
      /\ DOMAIN streams = ToSet(order) /\ MaxStreams \in Nat \ {0}
  BY DEF FloodInv, FloodTypeOK, WatchTypeOK, TablesTogether
<1>2. CASE Track(k, seq, n)
  <2>1. MoveToEnd(order, k) = Append(order, k)
    BY <1>1, <1>2 DEF Track, MoveToEnd, Without
  <2>2. QED BY <1>2, <2>1 DEF Track
<1>3. CASE k \in DOMAIN streams /\ order' = MoveToEnd(order, k)
  <2>1. k \in ToSet(order)
    BY <1>1, <1>3
  <2> DEFINE r == MoveToEnd(order, k)
  <2>2. Len(r) = Len(order)
    BY <1>1, <2>1, MoveToEndProperties
  <2> HIDE DEF r
  <2>3. Newest(r, MaxStreams) = r
    BY <1>1, <2>2 DEF Newest
  <2>4. QED BY <1>3, <2>3 DEF r
<1>4. QED
  BY <1>2, <1>3 DEF Observe, Learn, Late, Resync, InStep, Gap, Remember

(* So whoever sends, the history of the others stands.                     *)
LEMMA HearKeepsHistory ==
  ASSUME FloodInv, NEW k \in Streams, NEW seq, NEW n, Hear(k, seq, n)
  PROVE  /\ NewerIn(order, since)' /\ Passed' /\ FewHeard'
         /\ since' \in [Streams -> SUBSET Streams] /\ heard' \subseteq Streams
<1> DEFINE kept == Newest(MoveToEnd(order, k), MaxStreams)
           g == UsedSince(Streams, since, k)
<1>1. /\ order \in Seq(Streams) /\ NoRepeats(order) /\ Len(order) <= MaxStreams
      /\ since \in [Streams -> SUBSET Streams] /\ heard \subseteq Streams
      /\ NewerIn(order, since) /\ \A x \in Streams : IsFiniteSet(since[x])
      /\ MaxStreams \in Nat \ {0}
  BY DEF FloodInv, FloodTypeOK, WatchTypeOK, TablesTogether, FewHeard
<1>2. g \in [Streams -> SUBSET Streams] /\ \A x \in Streams : IsFiniteSet(g[x])
  BY <1>1, UseKeepsRecency
<1>3. NewerIn(kept, g)
  BY <1>1, UseKeepsRecency
<1>4. \A x \in ToSet(order) \ ToSet(kept) : Cardinality(g[x]) >= MaxStreams
  BY <1>1, UseKeepsRecency
<1>5. \A x \in Streams \ {k} : Cardinality(since[x]) >= MaxStreams =>
                                 Cardinality(g[x]) >= MaxStreams
  BY <1>1, UseKeepsRecency
<1>6. k \in ToSet(kept)
  BY <1>1, BoundedMoveToEnd
<1>7. since' = g /\ heard' = heard \cup {k}
  BY DEF Hear, UsedSince
<1>8. order' = kept
  BY ObserveOrders DEF Hear
<1> HIDE DEF kept, g
<1>9. Passed'
  <2>1. SUFFICES ASSUME NEW x \in heard', x \notin ToSet(kept)
                 PROVE  Cardinality(g[x]) >= MaxStreams
    BY <1>7, <1>8 DEF Passed
  <2>2. x # k /\ x \in heard /\ x \in Streams
    BY <1>1, <1>6, <1>7, <2>1
  <2>3. CASE x \in ToSet(order)
    BY <1>4, <2>1, <2>3
  <2>4. CASE x \notin ToSet(order)
    BY <1>5, <2>2, <2>4 DEF FloodInv, Passed
  <2>5. QED BY <2>3, <2>4
<1>10. QED BY <1>1, <1>2, <1>3, <1>7, <1>8, <1>9 DEF FewHeard

-----------------------------------------------------------------------------
(* What a step has to say of the watch for the invariant to stand, the     *)
(* history and the environment's own variables apart.                      *)
WatchInv == /\ WatchTypeOK /\ TablesTogether /\ GapsHaveARule
            /\ LossAnnounced /\ WarnedAreTracked /\ WarnedIsTrue

LEMMA TrackKeepsWatch ==
  ASSUME FloodInv, NEW k \in Streams, NEW seq \in Seqs, NEW n \in RecordCounts,
         Track(k, seq, n), announcements' = announcements
  PROVE  WatchInv'
<1> DEFINE kept == Newest(MoveToEnd(order, k), MaxStreams)
           new == [seq |-> seq, records |-> n, mode |-> "unknown",
                   backwards |-> 0]
<1>1. /\ order \in Seq(Streams) /\ NoRepeats(order) /\ Len(order) <= MaxStreams
      /\ streams \in [ToSet(order) -> State]
      /\ missed \in [DOMAIN missed -> Nat \ {0}]
      /\ units \in [DOMAIN missed -> Units]
      /\ DOMAIN missed \subseteq ToSet(order)
      /\ resyncs \in Nat /\ backwards \in Nat /\ evicted \in Nat
      /\ warned \in Seq(Exporters) /\ gapEvents \in Seq(GapEvent)
      /\ MaxStreams \in Nat \ {0}
  BY DEF FloodInv, FloodTypeOK, WatchTypeOK, TablesTogether
<1>2. /\ kept \in Seq(Streams) /\ NoRepeats(kept) /\ Len(kept) <= MaxStreams
      /\ Len(order) <= Len(kept)
  BY <1>1, BoundedMoveToEnd
<1>3. ToSet(kept) \subseteq ToSet(order) \cup {k} /\ k \in ToSet(kept)
  BY <1>1, BoundedMoveToEnd
<1>4. k \notin ToSet(order) /\ MoveToEnd(order, k) = Append(order, k)
  BY <1>1 DEF Track, MoveToEnd, Without
<1>5. /\ order' = kept
      /\ streams' = [x \in ToSet(kept) |-> IF x = k THEN new ELSE streams[x]]
      /\ missed' = Keep(missed, ToSet(kept))
      /\ units' = Keep(units, ToSet(kept))
      /\ evicted' = evicted + Len(order) + 1 - Len(kept)
      /\ warned' = Newest(warned, MaxStreams)
      /\ UNCHANGED <<resyncs, backwards, gapEvents>>
  <2>1. ToSet(kept) \cap (DOMAIN streams \cup {k}) = ToSet(kept)
    BY <1>1, <1>3
  <2>2. QED BY <1>1, <1>3, <1>4, <2>1 DEF Track, Evict, TrimWarned, Keep
<1>6. Len(kept) <= Len(order) + 1
  <2>1. Len(Append(order, k)) = Len(order) + 1
    BY <1>1
  <2>2. Len(kept) <= Len(MoveToEnd(order, k))
    BY <1>1, BoundedMoveToEnd
  <2>3. QED BY <1>4, <2>1, <2>2
<1>7. Len(kept) = Len(order) + 1 => ToSet(order) \subseteq ToSet(kept)
  <2>1. SUFFICES ASSUME Len(kept) = Len(order) + 1
                 PROVE  ToSet(order) \subseteq ToSet(kept)
    OBVIOUS
  <2>2. /\ Len(Append(order, k)) <= MaxStreams /\ Len(Append(order, k)) \in Nat
        /\ kept = Newest(Append(order, k), MaxStreams)
    BY <1>1, <1>2, <1>4, <2>1
  <2> HIDE DEF kept
  <2>3. kept = Append(order, k)
    BY <1>1, <2>2 DEF Newest
  <2>4. QED BY <1>1, <2>3, AppendKey
<1> HIDE DEF kept
<1>8. /\ evicted' \in Nat
      /\ evicted' = 0 => evicted = 0 /\ ToSet(order) \subseteq ToSet(kept)
  <2>1. Len(kept) \in Nat /\ Len(order) \in Nat
    BY <1>1, <1>2
  <2>2. evicted \in Nat /\ evicted' = evicted + Len(order) + 1 - Len(kept)
    BY <1>1, <1>5
  <2>3. /\ evicted' \in Nat
        /\ evicted' = 0 => evicted = 0 /\ Len(kept) = Len(order) + 1
    BY <1>6, <2>1, <2>2
  <2>4. QED BY <1>7, <2>3
<1>9. new \in State
  BY DEF State, Modes
<1> HIDE DEF new
<1>10. /\ warned' \in Seq(Exporters) /\ NoRepeats(warned')
      /\ Len(warned') <= MaxStreams /\ Len(warned') \in Nat
      /\ ToSet(warned') \subseteq ToSet(warned)
  <2>1. NoRepeats(warned)
    BY DEF FloodInv, WarnedAreTracked
  <2>2. /\ Newest(warned, MaxStreams) \in Seq(Exporters)
        /\ Len(Newest(warned, MaxStreams)) <= MaxStreams
    <3>1. /\ Newest(warned, MaxStreams) \in Seq(Exporters)
          /\ Len(Newest(warned, MaxStreams))
               = IF Len(warned) > MaxStreams THEN MaxStreams ELSE Len(warned)
      BY <1>1, NewestProperties
    <3>2. QED BY <1>1, <3>1
  <2>3. NoRepeats(Newest(warned, MaxStreams))
    BY <1>1, <2>1, NewestProperties
  <2>4. ToSet(Newest(warned, MaxStreams)) \subseteq ToSet(warned)
    BY <1>1, NewestProperties
  <2>5. QED BY <1>5, <2>2, <2>3, <2>4
<1>11. evicted' = 0 => warned' = warned
  BY <1>1, <1>5, <1>8, WarnedFitsBeforeEviction DEF Newest
<1>12. /\ DOMAIN missed' = DOMAIN missed \cap ToSet(kept)
       /\ DOMAIN units' = DOMAIN missed'
  BY <1>1, <1>5 DEF Keep
<1>13. \A x \in DOMAIN missed' :
         /\ missed'[x] = missed[x] /\ units'[x] = units[x]
         /\ x # k /\ streams'[x] = streams[x]
  BY <1>1, <1>4, <1>5, <1>12 DEF Keep
<1>14. WatchTypeOK'
  <2>1. streams' \in [ToSet(kept) -> State]
    BY <1>1, <1>3, <1>5, <1>9
  <2>2. /\ missed' \in [DOMAIN missed' -> Nat \ {0}]
        /\ units' \in [DOMAIN missed' -> Units]
    BY <1>1, <1>5 DEF Keep
  <2>3. DOMAIN missed' \subseteq Streams
    BY <1>1, <1>2, <1>12 DEF ToSet
  <2>4. QED BY <1>1, <1>2, <1>5, <1>8, <1>10, <2>1, <2>2, <2>3 DEF WatchTypeOK
<1>15. TablesTogether'
  BY <1>2, <1>5, <1>12 DEF TablesTogether
<1>16. GapsHaveARule'
  BY <1>12, <1>13 DEF FloodInv, GapsHaveARule
<1>17. WarnedAreTracked'
  <2>1. evicted' = 0 => ToSet(warned') \subseteq TrackedExporters'
    <3>1. SUFFICES ASSUME evicted' = 0, NEW e \in ToSet(warned)
                   PROVE  e \in TrackedExporters'
      BY <1>11
    <3>2. PICK x \in ToSet(order) : e = ExporterOf[x]
      BY <1>8, <3>1 DEF FloodInv, WarnedAreTracked, TrackedExporters
    <3>3. x \in ToSet(kept)
      BY <1>8, <3>1, <3>2
    <3>4. QED BY <1>5, <3>2, <3>3 DEF TrackedExporters
  <2>2. QED BY <1>10, <2>1 DEF WarnedAreTracked
<1>18. WarnedIsTrue' /\ LossAnnounced'
  BY <1>8, <1>10, <1>11, <1>12 DEF FloodInv, WarnedIsTrue, LossAnnounced
<1>19. QED BY <1>14, <1>15, <1>16, <1>17, <1>18 DEF WatchInv

(* What remembering a message does to the table of streams.                *)
LEMMA RememberProperties ==
  ASSUME FloodInv, NEW k \in DOMAIN streams, NEW t \in State, Remember(k, t)
  PROVE  /\ order' \in Seq(Streams) /\ NoRepeats(order')
         /\ ToSet(order') = ToSet(order) /\ Len(order') <= MaxStreams
         /\ streams' \in [ToSet(order) -> State] /\ streams'[k] = t
         /\ \A x \in ToSet(order) \ {k} : streams'[x] = streams[x]
         /\ evicted' = evicted
<1>1. /\ order \in Seq(Streams) /\ NoRepeats(order) /\ Len(order) <= MaxStreams
      /\ streams \in [ToSet(order) -> State] /\ k \in ToSet(order)
      /\ k \in Streams
  BY DEF FloodInv, FloodTypeOK, WatchTypeOK, TablesTogether, ToSet
<1>2. ToSet(MoveToEnd(order, k)) = ToSet(order) \cup {k}
  BY <1>1, MoveToEndProperties
<1>3. /\ MoveToEnd(order, k) \in Seq(Streams) /\ NoRepeats(MoveToEnd(order, k))
      /\ Len(MoveToEnd(order, k)) = Len(order)
  BY <1>1, MoveToEndProperties
<1>4. QED BY <1>1, <1>2, <1>3 DEF Remember

(* A message that counts no loss: it may teach the rule, never unteach it. *)
LEMMA NoLossKeepsWatch ==
  ASSUME FloodInv, NEW k \in DOMAIN streams, NEW t \in State, Remember(k, t),
         streams[k].mode # "unknown" => t.mode = streams[k].mode,
         UNCHANGED <<missed, units, warned, gapEvents, announcements>>,
         resyncs' \in Nat, backwards' \in Nat
  PROVE  WatchInv'
<1>1. /\ order' \in Seq(Streams) /\ NoRepeats(order')
      /\ ToSet(order') = ToSet(order) /\ Len(order') <= MaxStreams
      /\ streams' \in [ToSet(order) -> State] /\ streams'[k] = t
      /\ \A x \in ToSet(order) \ {k} : streams'[x] = streams[x]
      /\ evicted' = evicted
  BY RememberProperties
<1>2. DOMAIN streams = ToSet(order) /\ DOMAIN streams' = ToSet(order)
  BY <1>1 DEF FloodInv, FloodTypeOK, WatchTypeOK
<1>3. WatchTypeOK'
  BY <1>1 DEF FloodInv, FloodTypeOK, WatchTypeOK
<1>4. TablesTogether'
  BY <1>1, <1>2 DEF FloodInv, TablesTogether
<1>5. GapsHaveARule'
  <2>1. ASSUME NEW x \in DOMAIN missed
        PROVE  /\ streams'[x].mode # "unknown"
               /\ units[x] = Unit(streams'[x].mode, VersionOf[x])
    <3>1. /\ streams[x].mode # "unknown" /\ x \in ToSet(order)
          /\ units[x] = Unit(streams[x].mode, VersionOf[x])
      BY <1>2 DEF FloodInv, GapsHaveARule, TablesTogether
    <3>2. streams'[x].mode = streams[x].mode
      BY <1>1, <3>1
    <3>3. QED BY <3>1, <3>2
  <2>2. QED BY <2>1 DEF GapsHaveARule
<1>6. WarnedAreTracked'
  BY <1>1 DEF FloodInv, WarnedAreTracked, TrackedExporters
<1>7. WarnedIsTrue' /\ LossAnnounced'
  BY <1>1 DEF FloodInv, WarnedIsTrue, LossAnnounced
<1>8. QED BY <1>3, <1>4, <1>5, <1>6, <1>7 DEF WatchInv

(* An exporter's first gap is announced, and it joins the announced as the *)
(* exporter of a tracked stream.                                           *)
LEMMA AnnounceKeepsWarned ==
  ASSUME FloodInv, NEW k \in ToSet(order), NEW event \in GapEvent,
         AnnounceOnce(ExporterOf[k], event),
         ToSet(order') = ToSet(order), evicted' = evicted,
         announcements' = [e \in Exporters |->
            announcements[e] + IF gapEvents' # gapEvents /\ e = ExporterOf[k]
                               THEN 1 ELSE 0]
  PROVE  /\ warned' \in Seq(Exporters) /\ gapEvents' \in Seq(GapEvent)
         /\ announcements' \in [Exporters -> Nat]
         /\ \A e \in Exporters : announcements'[e] >= announcements[e]
         /\ announcements'[ExporterOf[k]] > 0
         /\ evicted = 0 => \A e \in Exporters : announcements'[e] <= 1
         /\ WarnedAreTracked' /\ WarnedIsTrue'
<1> DEFINE exporter == ExporterOf[k]
<1>1. /\ warned \in Seq(Exporters) /\ gapEvents \in Seq(GapEvent)
      /\ announcements \in [Exporters -> Nat] /\ order \in Seq(Streams)
      /\ NoRepeats(warned)
  BY DEF FloodInv, FloodTypeOK, WatchTypeOK, WarnedAreTracked
<1>2. exporter \in Exporters /\ exporter \in TrackedExporters
  <2>1. k \in Streams
    BY <1>1 DEF ToSet
  <2>2. QED BY <2>1 DEF TrackedExporters
<1>3. TrackedExporters' = TrackedExporters
  BY DEF TrackedExporters
<1> HIDE DEF exporter
<1>4. CASE exporter \in ToSet(warned)
  <2>1. UNCHANGED <<warned, gapEvents>>
    BY <1>4 DEF AnnounceOnce, exporter
  <2>2. announcements' = announcements
    BY <1>1, <2>1
  <2>3. announcements[exporter] > 0
    BY <1>4 DEF FloodInv, WarnedIsTrue
  <2>4. WarnedAreTracked'
    BY <1>3, <2>1 DEF FloodInv, WarnedAreTracked
  <2>5. WarnedIsTrue'
    BY <2>1, <2>2 DEF FloodInv, WarnedIsTrue
  <2>6. QED
    BY <1>1, <2>1, <2>2, <2>3, <2>4, <2>5 DEF FloodInv, LossAnnounced, exporter
<1>5. CASE exporter \notin ToSet(warned)
  <2>1. /\ warned' = Append(warned, exporter)
        /\ gapEvents' = Append(gapEvents, event)
    BY <1>5 DEF AnnounceOnce, exporter
  <2>2. /\ warned' \in Seq(Exporters) /\ gapEvents' \in Seq(GapEvent)
        /\ Len(warned') = Len(warned) + 1 /\ warned'[Len(warned) + 1] = exporter
        /\ \A i \in 1..Len(warned) : warned'[i] = warned[i]
    BY <1>1, <1>2, <2>1
  <2>3. gapEvents' # gapEvents
    <3>1. Len(gapEvents') = Len(gapEvents) + 1 /\ Len(gapEvents) \in Nat
      BY <1>1, <2>1
    <3>2. QED BY <3>1
  <2>4. announcements' = [e \in Exporters |->
                            announcements[e] + IF e = exporter THEN 1 ELSE 0]
    BY <2>3 DEF exporter
  <2>5. ToSet(warned) \subseteq Exporters
    BY <1>1, InToSet
  <2>6. ToSet(warned') = ToSet(warned) \cup {exporter}
    BY <1>1, <1>2, <2>1, AppendKey
  <2>7. NoRepeats(warned')
    BY <1>1, <1>2, <1>5, <2>1, AppendKey
  <2>8. ASSUME NEW i \in 1..Len(warned'), i > MaxStreams
        PROVE  warned'[i] \in TrackedExporters
    <3>1. CASE i \in 1..Len(warned)
      BY <2>2, <2>8, <3>1 DEF FloodInv, WarnedAreTracked
    <3>2. CASE i = Len(warned) + 1
      BY <1>2, <2>2, <3>2
    <3>3. QED BY <1>1, <2>2, <3>1, <3>2
  <2>9. WarnedAreTracked'
    BY <1>2, <1>3, <2>6, <2>7, <2>8 DEF FloodInv, WarnedAreTracked
  <2>10. \A e \in Exporters : announcements'[e] \in Nat
                               /\ announcements'[e] >= announcements[e]
    BY <1>1, <2>4
  <2>11. announcements'[exporter] > 0
    BY <1>1, <1>2, <2>4
  <2>12. evicted = 0 => \A e \in Exporters :
           announcements'[e] = IF e \in ToSet(warned') THEN 1 ELSE 0
    BY <1>1, <1>5, <2>4, <2>6 DEF FloodInv, WarnedIsTrue
  <2>13. \A e \in ToSet(warned') : announcements'[e] > 0
    <3>1. ASSUME NEW e \in ToSet(warned') PROVE announcements'[e] > 0
      <4>1. CASE e = exporter
        BY <2>11, <4>1
      <4>2. CASE e # exporter
        <5>1. e \in ToSet(warned) /\ e \in Exporters
          BY <2>5, <2>6, <4>2
        <5>2. announcements[e] > 0 /\ announcements'[e] = announcements[e]
          BY <1>1, <2>4, <4>2, <5>1 DEF FloodInv, WarnedIsTrue
        <5>3. QED BY <5>2
      <4>3. QED BY <4>1, <4>2
    <3>2. QED BY <3>1
  <2>14. WarnedIsTrue'
    BY <2>12, <2>13 DEF WarnedIsTrue
  <2>15. announcements' \in [Exporters -> Nat]
    BY <2>4, <2>10
  <2>16. evicted = 0 => \A e \in Exporters : announcements'[e] <= 1
    BY <2>12
  <2>17. QED BY <2>2, <2>9, <2>10, <2>11, <2>14, <2>15, <2>16 DEF exporter
<1>6. QED BY <1>4, <1>5

LEMMA GapKeepsWatch ==
  ASSUME FloodInv, NEW k \in DOMAIN streams, NEW seq \in Seqs,
         NEW n \in RecordCounts, Gap(k, seq, n),
         announcements' = [e \in Exporters |->
            announcements[e] + IF gapEvents' # gapEvents /\ e = ExporterOf[k]
                               THEN 1 ELSE 0]
  PROVE  WatchInv' /\ announcements' \in [Exporters -> Nat]
<1> DEFINE s == streams[k]
           gap == GapAt(s, seq)
           unit == Unit(s.mode, VersionOf[k])
           event == [exporter |-> ExporterOf[k], stream |-> k, missed |-> gap,
                     unit |-> unit]
<1>1. /\ DOMAIN streams = ToSet(order) /\ ToSet(order) \subseteq Streams
      /\ streams \in [ToSet(order) -> State] /\ k \in Streams
      /\ missed \in [DOMAIN missed -> Nat \ {0}]
      /\ units \in [DOMAIN missed -> Units]
      /\ DOMAIN missed \subseteq ToSet(order)
      /\ resyncs \in Nat /\ backwards \in Nat /\ evicted \in Nat
      /\ announcements \in [Exporters -> Nat]
  BY InToSet DEF FloodInv, FloodTypeOK, WatchTypeOK, TablesTogether
<1>2. /\ s \in State /\ Moved(s, seq, n) \in State
      /\ Moved(s, seq, n).mode = s.mode
  BY <1>1 DEF State, Moved
<1>3. gap \in Nat \ {0}
  BY <1>2, GapIsPositive DEF Gap
<1>4. unit \in Units
  BY DEF Unit, Units
<1>5. event \in GapEvent
  BY <1>1, <1>3, <1>4 DEF GapEvent, Exporters
<1>6. /\ s.mode # "unknown" /\ Remember(k, Moved(s, seq, n))
      /\ AnnounceOnce(ExporterOf[k], event)
      /\ missed' = [x \in DOMAIN missed \cup {k} |->
                      Lookup(missed, x, 0) + IF x = k THEN gap ELSE 0]
      /\ units' = [x \in DOMAIN units \cup {k} |->
                     IF x = k THEN unit ELSE units[x]]
      /\ UNCHANGED <<resyncs, backwards>>
  BY DEF Gap
<1>7. /\ order' \in Seq(Streams) /\ NoRepeats(order')
      /\ ToSet(order') = ToSet(order) /\ Len(order') <= MaxStreams
      /\ streams' \in [ToSet(order) -> State]
      /\ streams'[k] = Moved(s, seq, n)
      /\ \A x \in ToSet(order) \ {k} : streams'[x] = streams[x]
      /\ evicted' = evicted
  BY <1>2, <1>6, RememberProperties
<1> HIDE DEF s, gap, unit, event
<1>8. /\ warned' \in Seq(Exporters) /\ gapEvents' \in Seq(GapEvent)
      /\ announcements' \in [Exporters -> Nat]
      /\ \A e \in Exporters : announcements'[e] >= announcements[e]
      /\ announcements'[ExporterOf[k]] > 0
      /\ evicted = 0 => \A e \in Exporters : announcements'[e] <= 1
      /\ WarnedAreTracked' /\ WarnedIsTrue'
  BY <1>1, <1>5, <1>6, <1>7, AnnounceKeepsWarned
<1>9. /\ DOMAIN missed' = DOMAIN missed \cup {k}
      /\ DOMAIN units' = DOMAIN missed'
      /\ missed' \in [DOMAIN missed' -> Nat \ {0}]
      /\ units' \in [DOMAIN missed' -> Units]
  <2>1. \A x \in DOMAIN missed : Lookup(missed, x, 0) = missed[x]
    BY DEF Lookup
  <2>2. Lookup(missed, k, 0) \in Nat
    BY <1>1 DEF Lookup
  <2>3. missed' \in [DOMAIN missed \cup {k} -> Nat \ {0}]
    BY <1>1, <1>3, <1>6, <2>1, <2>2
  <2>4. QED BY <1>1, <1>4, <1>6, <2>3
<1>10. WatchTypeOK'
  BY <1>1, <1>6, <1>7, <1>8, <1>9 DEF WatchTypeOK
<1>11. TablesTogether'
  BY <1>1, <1>7, <1>9 DEF TablesTogether
<1>12. GapsHaveARule'
  <2>1. ASSUME NEW x \in DOMAIN missed'
        PROVE  /\ streams'[x].mode # "unknown"
               /\ units'[x] = Unit(streams'[x].mode, VersionOf[x])
    <3>1. CASE x = k
      BY <1>1, <1>2, <1>6, <1>7, <1>9, <3>1 DEF unit
    <3>2. CASE x # k
      <4>1. x \in DOMAIN missed /\ x \in ToSet(order)
        BY <1>1, <1>9, <3>2
      <4>2. streams'[x] = streams[x] /\ units'[x] = units[x]
        BY <1>1, <1>6, <1>7, <3>2, <4>1
      <4>3. QED BY <4>1, <4>2 DEF FloodInv, GapsHaveARule
    <3>3. QED BY <3>1, <3>2
  <2>2. QED BY <2>1 DEF GapsHaveARule
<1>13. LossAnnounced'
  <2>1. ASSUME NEW x \in DOMAIN missed PROVE announcements'[ExporterOf[x]] > 0
    <3>1. announcements[ExporterOf[x]] > 0 /\ ExporterOf[x] \in Exporters
      BY <1>1 DEF FloodInv, LossAnnounced
    <3>2. QED BY <1>1, <1>8, <3>1
  <2>2. QED BY <1>7, <1>8, <1>9, <2>1 DEF LossAnnounced
<1>14. QED BY <1>8, <1>10, <1>11, <1>12, <1>13 DEF WatchInv

(* The other four ways through observe() leave a state that counts no loss.*)
LEMMA OtherStepsKeepWatch ==
  ASSUME FloodInv, NEW k \in DOMAIN streams, NEW seq \in Seqs,
         NEW n \in RecordCounts,
         \/ Learn(k, seq, n) \/ Late(k, seq)
         \/ Resync(k, seq, n) \/ InStep(k, seq, n),
         announcements' = announcements
  PROVE  WatchInv'
<1> DEFINE s == streams[k]
<1>1. s \in State /\ resyncs \in Nat /\ backwards \in Nat
  BY DEF FloodInv, FloodTypeOK, WatchTypeOK
<1>2. Moved(s, seq, n) \in State /\ Moved(s, seq, n).mode = s.mode
  BY <1>1 DEF State, Moved
<1>3. HeldBack(s, seq) \in State /\ HeldBack(s, seq).mode = s.mode
  BY <1>1 DEF State, HeldBack
<1>4. CASE Learn(k, seq, n)
  <2>1. PICK taught \in Modes :
          /\ s.mode = "unknown"
          /\ Remember(k, [s EXCEPT !.seq = seq, !.records = n, !.mode = taught])
          /\ UNCHANGED <<missed, units, resyncs, backwards, warned, gapEvents>>
    BY <1>4 DEF Learn, Modes
  <2>2. [s EXCEPT !.seq = seq, !.records = n, !.mode = taught] \in State
    BY <1>1 DEF State
  <2>3. QED BY <1>1, <2>1, <2>2, NoLossKeepsWatch
<1>5. CASE Late(k, seq)
  BY <1>1, <1>3, <1>5, NoLossKeepsWatch DEF Late
<1>6. CASE Resync(k, seq, n)
  BY <1>1, <1>2, <1>6, NoLossKeepsWatch DEF Resync
<1>7. CASE InStep(k, seq, n)
  BY <1>1, <1>2, <1>7, NoLossKeepsWatch DEF InStep
<1>8. QED BY <1>4, <1>5, <1>6, <1>7

LEMMA HearFloodInv ==
  ASSUME FloodInv, NEW k \in Streams, NEW seq \in Seqs, NEW n \in RecordCounts,
         Hear(k, seq, n)
  PROVE  FloodInv'
<1>1. /\ observed \in Nat /\ observed' = observed + 1
      /\ announcements \in [Exporters -> Nat]
  BY DEF FloodInv, FloodTypeOK, Hear
<1>2. announcements' =
        [e \in Exporters |->
           announcements[e] + IF gapEvents' # gapEvents /\ e = ExporterOf[k]
                              THEN 1 ELSE 0]
  BY DEF Hear
<1>3. gapEvents' = gapEvents => announcements' = announcements
  BY <1>1, <1>2
<1>4. WatchInv' /\ announcements' \in [Exporters -> Nat]
  <2>1. CASE Track(k, seq, n)
    <3>1. announcements' = announcements
      BY <1>3, <2>1 DEF Track
    <3>2. QED BY <1>1, <2>1, <3>1, TrackKeepsWatch
  <2>2. CASE k \in DOMAIN streams /\ Gap(k, seq, n)
    BY <1>2, <2>2, GapKeepsWatch
  <2>3. CASE /\ k \in DOMAIN streams
             /\ \/ Learn(k, seq, n) \/ Late(k, seq)
                \/ Resync(k, seq, n) \/ InStep(k, seq, n)
    <3>1. announcements' = announcements
      BY <1>3, <2>3 DEF Learn, Late, Resync, InStep
    <3>2. QED BY <1>1, <2>3, <3>1, OtherStepsKeepWatch
  <2>4. QED BY <2>1, <2>2, <2>3 DEF Hear, Observe
<1>5. /\ NewerIn(order, since)' /\ Passed' /\ FewHeard'
      /\ since' \in [Streams -> SUBSET Streams] /\ heard' \subseteq Streams
  BY HearKeepsHistory
<1>6. FloodTypeOK'
  BY <1>1, <1>4, <1>5 DEF FloodTypeOK, WatchInv
<1>7. QED BY <1>4, <1>5, <1>6 DEF FloodInv, WatchInv

LEMMA NextFloodInv == FloodInv /\ [FloodNext]_floodVars => FloodInv'
<1> SUFFICES ASSUME FloodInv, [FloodNext]_floodVars PROVE FloodInv'
  OBVIOUS
<1>1. ASSUME NEW k \in Streams, NEW seq \in Seqs, NEW n \in RecordCounts,
             Hear(k, seq, n)
      PROVE  FloodInv'
  BY <1>1, HearFloodInv
<1> DEFINE others == <<order, streams, missed, units, counters, warned,
                       observed, heard, since, announcements>>
<1>2. ASSUME gapEvents' \in Seq(GapEvent), UNCHANGED others PROVE FloodInv'
  <2>1. FloodTypeOK' /\ TablesTogether' /\ GapsHaveARule' /\ LossAnnounced'
    BY <1>2 DEF counters, FloodInv, FloodTypeOK, WatchTypeOK, TablesTogether,
                GapsHaveARule, LossAnnounced
  <2>2. NewerIn(order, since)' /\ Passed' /\ FewHeard'
    BY <1>2 DEF FloodInv, NewerIn, Passed, FewHeard
  <2>3. WarnedAreTracked' /\ WarnedIsTrue'
    BY <1>2 DEF counters, FloodInv, WarnedAreTracked, WarnedIsTrue,
                TrackedExporters
  <2>4. QED BY <2>1, <2>2, <2>3 DEF FloodInv
<1>3. CASE Take
  BY <1>2, <1>3 DEF Take, TakeGapEvents
<1>4. CASE UNCHANGED floodVars
  BY <1>2, <1>4 DEF floodVars, watchVars, FloodInv, FloodTypeOK, WatchTypeOK
<1>5. QED BY <1>1, <1>3, <1>4 DEF FloodNext

LEMMA FloodInvAlways == FloodSpec => []FloodInv
BY InitFloodInv, NextFloodInv, PTL DEF FloodSpec

-----------------------------------------------------------------------------
(* Every variable stays in its type, whatever sources send.                *)
THEOREM FloodTypeCorrect == FloodSpec => []FloodTypeOK
<1>1. FloodInv => FloodTypeOK
  BY DEF FloodInv
<1>2. QED BY <1>1, FloodInvAlways, PTL

(* No table of the watch outgrows the ceiling, and none remembers a stream *)
(* another has forgotten (sequence.py:58-64).                              *)
THEOREM TablesStayTogether == FloodSpec => []TablesTogether
<1>1. FloodInv => TablesTogether
  BY DEF FloodInv
<1>2. QED BY <1>1, FloodInvAlways, PTL

(* What is reported missing is in the unit of the rule the stream learned, *)
(* for any rules learned in any order.                                     *)
THEOREM GapsKeepTheirRule == FloodSpec => []GapsHaveARule
<1>1. FloodInv => GapsHaveARule
  BY DEF FloodInv
<1>2. QED BY <1>1, FloodInvAlways, PTL

(* Every losing exporter is announced, and only once until the ceiling is  *)
(* met, however many streams it has.                                       *)
THEOREM LossIsAnnounced == FloodSpec => []LossAnnounced
<1>1. FloodInv => LossAnnounced
  BY DEF FloodInv
<1>2. QED BY <1>1, FloodInvAlways, PTL

(* No flood of sources makes the watch forget a stream fewer than a        *)
(* tableful of others were heard from since.                               *)
THEOREM ActiveStreamIsKept == FloodSpec => []ActiveStreamKept
<1>1. FloodInv => ActiveStreamKept
  <2> SUFFICES ASSUME FloodInv, NEW k \in heard, k \notin DOMAIN streams
               PROVE  ~(Cardinality(since[k]) < MaxStreams)
    BY DEF ActiveStreamKept
  <2>1. Cardinality(since[k]) >= MaxStreams
    BY DEF FloodInv, Passed, TablesTogether
  <2>2. Cardinality(since[k]) \in Nat
    BY FS_CardinalityType DEF FloodInv, FloodTypeOK, FewHeard
  <2>3. QED BY <2>1, <2>2
<1>2. QED BY <1>1, FloodInvAlways, PTL

(* The table of announced exporters is trimmed only when a new stream      *)
(* arrives, and still never passes twice the ceiling: those past it are    *)
(* the exporters of tracked streams, and no two the same.                  *)
THEOREM WarnedStaysBounded == FloodSpec => []WarnedBounded
<1>1. FloodInv => WarnedBounded
  <2> SUFFICES ASSUME FloodInv PROVE WarnedBounded
    OBVIOUS
  <2>1. warned \in Seq(Exporters) /\ NoRepeats(warned) /\ Len(warned) \in Nat
    BY DEF FloodInv, FloodTypeOK, WatchTypeOK, WarnedAreTracked
  <2> DEFINE late == SubSeq(warned, MaxStreams + 1, Len(warned))
  <2>2. CASE Len(warned) > MaxStreams
    <3>1. /\ late \in Seq(Exporters) /\ Len(late) = Len(warned) - MaxStreams
          /\ \A i \in 1..(Len(warned) - MaxStreams) :
               late[i] = warned[MaxStreams + 1 + i - 1]
      BY <2>1, <2>2, SubSeqProperties
    <3> HIDE DEF late
    <3>2. ASSUME NEW i \in 1..Len(late)
          PROVE  /\ i + MaxStreams \in 1..Len(warned)
                 /\ i + MaxStreams > MaxStreams
                 /\ late[i] = warned[i + MaxStreams]
      BY <2>1, <2>2, <3>1
    <3>3. NoRepeats(late)
      BY <2>1, <3>2 DEF NoRepeats
    <3>4. ToSet(late) \subseteq TrackedExporters
      BY <3>1, <3>2, InToSet DEF FloodInv, WarnedAreTracked
    <3>5. Cardinality(ToSet(late)) = Len(late)
      BY <3>1, <3>3, LengthIsCardinality
    <3>6. Cardinality(ToSet(late)) <= Cardinality(TrackedExporters)
      BY <3>4, TrackedExportersAreFew, FS_Subset
    <3>7. Len(late) <= MaxStreams
      BY <3>1, <3>5, <3>6, TrackedExportersAreFew
    <3>8. QED BY <2>1, <3>1, <3>7 DEF WarnedBounded
  <2>3. CASE ~(Len(warned) > MaxStreams)
    BY <2>1, <2>3 DEF WarnedBounded
  <2>4. QED BY <2>2, <2>3
<1>2. QED BY <1>1, FloodInvAlways, PTL

-----------------------------------------------------------------------------
(* An exporter behind a network.                                           *)
HIDE FloodAssumption
USE StreamAssumption

(* Where the counter is after message i.                                   *)
After(k, i) == sent[k][i].count + Exports(k, i)

(* What an exporter sent hangs together between restarts.                  *)
Chained(k) ==
  /\ \A i \in 1..Len(sent[k]) : sent[k][i].epoch <= epoch[k]
  /\ \A i \in 1..(Len(sent[k]) - 1) :
       sent[k][i + 1].epoch = sent[k][i].epoch =>
         sent[k][i + 1].count = After(k, i)
  /\ sent[k] # <<>> /\ sent[k][Len(sent[k])].epoch = epoch[k] =>
       counter[k] = After(k, Len(sent[k]))

(* What the watch remembers of a stream is the message its mark is at, of  *)
(* which the records may not have been counted.                            *)
MarkIsSent(k) ==
  k \in DOMAIN streams =>
    /\ high[k] \in 1..Len(sent[k])
    /\ streams[k].seq = SequenceOf(sent[k][high[k]])
    /\ \/ streams[k].records = sent[k][high[k]].width
       \/ Deferral /\ streams[k].records = 0

(* While the mark is not at the newest message, each message that arrives  *)
(* in the order sent adds to the run of late ones, and the run is short.   *)
CatchesUp(k) ==
  k \in DOMAIN streams =>
    /\ streams[k].backwards < ResyncAfter
    /\ streams[k].mode = counting[k] /\ row[k] >= 0 /\ high[k] # newest[k] =>
         streams[k].backwards > row[k]

IInv == /\ TypeOK /\ NoRepeats(order)
        /\ \A k \in Streams : Chained(k) /\ MarkIsSent(k) /\ CatchesUp(k)

(* Under the exporter's own rule its next message is not behind.           *)
LEMMA NextIsAhead ==
  ASSUME NEW k \in Streams, NEW s \in State, NEW w \in Widths,
         counting[k] \in {"messages", "records"}, s.mode = counting[k],
         s.records \in {w, 0}, NEW c \in Nat, s.seq = c % SeqModulus,
         NEW x, x = c + IF counting[k] = "messages" THEN 1 ELSE w
  PROVE  GapAt(s, x % SeqModulus) >= 0
<1> DEFINE e == IF s.mode = "messages" THEN 1 ELSE s.records
           h == Half
<1>1. /\ w \in Nat /\ w <= SeqModulus - h - 1 /\ h \in Nat /\ h < SeqModulus
      /\ SeqModulus \in Nat
  BY DEF Half
<1>2. e \in Nat /\ x \in Nat
  BY <1>1 DEF State
<1>3. x - c - e = 0 \/ x - c - e = w
  BY <1>1
<1> DEFINE d == x - c - e
<1>4. d \in Int
  BY <1>2
<1> HIDE DEF d, h
<1>5. d \in (-h)..(SeqModulus - h - 1) /\ d >= 0
  BY <1>1, <1>3, <1>4 DEF d
<1>6. x - c - e \in -Half..(SeqModulus - Half - 1)
  BY <1>5 DEF d, h
<1>7. e = IF s.mode = "messages" THEN 1 ELSE s.records
  OBVIOUS
<1> HIDE DEF e
<1>8. x \in Nat /\ e \in Nat /\ c \in Nat /\ s \in State
  BY <1>2
<1>9. s.seq = c % SeqModulus
  OBVIOUS
<1>10. GapAt(s, x % SeqModulus) = x - c - e
  BY ONLY <1>6, <1>7, <1>8, <1>9, GapIsDistance
<1>11. QED BY <1>5, <1>10 DEF d

LEMMA InitIInv == Init => IInv
<1> SUFFICES ASSUME Init PROVE IInv
  OBVIOUS
<1> USE DEF Init, WatchInit
<1>1. order = <<>> /\ Len(order) = 0 /\ ToSet(order) = {}
  BY DEF ToSet
<1>2. TypeOK
  <2>1. WatchTypeOK
    BY <1>1 DEF WatchTypeOK
  <2>2. counter \in [Streams -> Nat]
    <3>1. Starts \subseteq Nat
      OBVIOUS
    <3>2. QED BY <3>1
  <2>3. QED BY <2>1, <2>2 DEF TypeOK
<1>3. NoRepeats(order)
  BY DEF NoRepeats
<1>4. ASSUME NEW k \in Streams
      PROVE  Chained(k) /\ MarkIsSent(k) /\ CatchesUp(k)
  BY DEF Chained, MarkIsSent, CatchesUp
<1>5. QED BY <1>2, <1>3, <1>4 DEF IInv

LEMMA ChainStands ==
  ASSUME NEW k \in Streams, Chained(k), sent'[k] = sent[k],
         counting'[k] = counting[k], counter'[k] = counter[k],
         epoch'[k] = epoch[k]
  PROVE  Chained(k)'
BY DEF Chained, After, Exports

(* The watch and the marks stand still while an exporter sends.            *)
LEMMA SendIInv ==
  ASSUME IInv, NEW k \in Streams, NEW w \in Widths, Send(k, w)
  PROVE  IInv'
<1> DEFINE m == [count |-> counter[k], width |-> w, epoch |-> epoch[k]]
           n == Len(sent[k])
<1>1. /\ WatchTypeOK /\ counting \in [Streams -> {"messages", "records"}]
      /\ counter \in [Streams -> Nat]
      /\ epoch \in [Streams -> 0..MaxRestarts]
      /\ sent \in [Streams -> Seq(Message)] /\ NoRepeats(order)
      /\ row \in [Streams -> Nat \cup {-1}]
      /\ {newest, high, from, base, accepted} \subseteq [Streams -> Nat]
      /\ {inOrder, misread} \subseteq [Streams -> BOOLEAN]
      /\ seen \in [Streams -> SUBSET Nat]
      /\ delivered \in Nat
  BY DEF IInv, TypeOK
<1>2. m \in Message /\ n \in Nat
  BY <1>1 DEF Message
<1>3. /\ sent' = [sent EXCEPT ![k] = Append(@, m)]
      /\ counter' = [counter EXCEPT ![k] =
           @ + IF counting[k] = "messages" THEN 1 ELSE w]
      /\ UNCHANGED <<watchVars, counting, epoch, newest, seen, inOrder,
                     delivered, marks>>
  BY DEF Send
<1>4. /\ sent'[k] \in Seq(Message) /\ Len(sent'[k]) = n + 1
      /\ sent'[k][n + 1] = m
      /\ \A i \in 1..n : sent'[k][i] = sent[k][i]
      /\ sent' \in [Streams -> Seq(Message)]
      /\ \A x \in Streams \ {k} : sent'[x] = sent[x]
  BY <1>1, <1>2, <1>3
<1>5. /\ counter'[k] =
           m.count + IF counting[k] = "messages" THEN 1 ELSE m.width
      /\ \A x \in Streams \ {k} : counter'[x] = counter[x]
  BY <1>1, <1>3
<1>6. counter' \in [Streams -> Nat]
  <2> DEFINE c == m.count + IF counting[k] = "messages" THEN 1 ELSE m.width
  <2>1. c \in Nat
    BY <1>1
  <2> HIDE DEF c
  <2>2. QED BY <1>1, <1>3, <1>5, <2>1 DEF c
<1>7. TypeOK'
  <2>1. WatchTypeOK'
    BY <1>1, <1>3 DEF watchVars, counters, WatchTypeOK
  <2>2. QED BY <1>1, <1>3, <1>4, <1>6, <2>1 DEF TypeOK, marks
<1>8. NoRepeats(order')
  BY <1>1, <1>3 DEF watchVars
<1>9. Chained(k)'
  <2>1. /\ m.epoch = epoch[k] /\ m.count = counter[k] /\ epoch' = epoch
        /\ counting' = counting /\ epoch[k] \in Nat
    BY <1>1, <1>3
  <2> HIDE DEF m
  <2>2. Chained(k)
    BY DEF IInv
  <2>3. \A i \in 1..n : After(k, i)' = After(k, i)
    BY <1>4, <2>1 DEF After, Exports
  <2>4. \A i : i = n + 1 => After(k, i)' = counter'[k]
    BY <1>4, <1>5, <2>1 DEF After, Exports
  <2>5. \A i \in 1..Len(sent'[k]) : sent'[k][i].epoch <= epoch'[k]
    <3>1. SUFFICES ASSUME NEW i \in 1..(n + 1)
                   PROVE  sent'[k][i].epoch <= epoch[k]
      BY <1>4, <2>1
    <3>2. CASE i \in 1..n
      BY <1>4, <2>2, <3>2 DEF Chained
    <3>3. CASE i = n + 1
      BY <1>4, <2>1, <3>3
    <3>4. QED BY <1>2, <3>2, <3>3
  <2>6. ASSUME NEW i \in 1..n, sent'[k][i + 1].epoch = sent'[k][i].epoch
        PROVE  sent'[k][i + 1].count = After(k, i)'
    <3>1. CASE i < n
      <4>1. i \in 1..(n - 1) /\ i + 1 \in 1..n
        BY <1>2, <3>1
      <4>2. QED BY <1>4, <2>2, <2>3, <2>6, <4>1 DEF Chained
    <3>2. CASE i = n
      <4>1. sent[k] # <<>> /\ sent[k][n].epoch = epoch[k]
        BY <1>1, <1>4, <2>1, <2>6, <3>2
      <4>2. counter[k] = After(k, n)
        BY <2>2, <4>1 DEF Chained
      <4>3. QED BY <1>4, <2>1, <2>3, <3>2, <4>2
    <3>3. QED BY <1>2, <3>1, <3>2
  <2> HIDE DEF n
  <2>7. Len(sent'[k]) - 1 = n
    BY <1>2, <1>4
  <2>8. QED BY <1>4, <2>4, <2>5, <2>6, <2>7 DEF Chained
<1>10. ASSUME NEW x \in Streams \ {k} PROVE Chained(x)'
  <2>1. /\ sent'[x] = sent[x] /\ epoch' = epoch /\ counting' = counting
        /\ counter'[x] = counter[x]
    BY <1>3, <1>4, <1>5
  <2>2. QED BY <2>1, ChainStands DEF IInv
<1>11. ASSUME NEW x \in Streams PROVE MarkIsSent(x)' /\ CatchesUp(x)'
  <2>1. /\ streams' = streams /\ high' = high /\ counting' = counting
        /\ row' = row /\ newest' = newest
    BY <1>3 DEF watchVars, marks
  <2>2. MarkIsSent(x) /\ CatchesUp(x)
    BY DEF IInv
  <2>3. \A i \in 1..Len(sent[x]) : i \in 1..Len(sent'[x])
                                     /\ sent'[x][i] = sent[x][i]
    <3>1. CASE x = k
      BY <1>2, <1>4, <3>1
    <3>2. CASE x # k
      BY <1>4, <3>2
    <3>3. QED BY <3>1, <3>2
  <2>4. QED BY <2>1, <2>2, <2>3 DEF MarkIsSent, CatchesUp
<1>12. QED BY <1>7, <1>8, <1>9, <1>10, <1>11 DEF IInv

(* A restart ends the chain: no message sent before is of the new epoch.   *)
LEMMA RestartIInv ==
  ASSUME IInv, NEW k \in Streams, Restart(k)
  PROVE  IInv'
<1>1. /\ epoch \in [Streams -> 0..MaxRestarts] /\ MaxRestarts \in Nat
      /\ epoch[k] < MaxRestarts
      /\ epoch' = [epoch EXCEPT ![k] = @ + 1]
      /\ counter \in [Streams -> Nat]
      /\ counter' = [counter EXCEPT ![k] = 0]
      /\ sent \in [Streams -> Seq(Message)]
      /\ UNCHANGED <<watchVars, counting, sent, newest, seen, inOrder,
                     delivered, marks>>
  BY DEF IInv, TypeOK, Restart
<1>2. /\ epoch' \in [Streams -> 0..MaxRestarts] /\ epoch'[k] = epoch[k] + 1
      /\ counter' \in [Streams -> Nat] /\ epoch[k] \in Nat
      /\ \A x \in Streams \ {k} :
           epoch'[x] = epoch[x] /\ counter'[x] = counter[x]
  BY <1>1
<1>3. TypeOK'
  BY <1>1, <1>2 DEF IInv, TypeOK, WatchTypeOK, watchVars, counters, marks
<1>4. NoRepeats(order')
  BY <1>1 DEF IInv, watchVars
<1>5. \A x, i : After(x, i)' = After(x, i)
  BY <1>1 DEF After, Exports
<1>6. ASSUME NEW i \in 1..Len(sent[k]) PROVE sent[k][i].epoch < epoch'[k]
  <2>1. sent[k][i] \in Message
    BY <1>1
  <2>2. sent[k][i].epoch \in Nat /\ sent[k][i].epoch <= epoch[k]
    BY <2>1 DEF Message, IInv, Chained
  <2>3. QED BY <1>2, <2>2
<1>7. Chained(k)'
  <2>1. \A i \in 1..Len(sent[k]) : /\ sent[k][i].epoch <= epoch'[k]
                                   /\ sent[k][i].epoch # epoch'[k]
    <3>1. SUFFICES ASSUME NEW i \in 1..Len(sent[k])
                   PROVE  /\ sent[k][i].epoch <= epoch'[k]
                          /\ sent[k][i].epoch # epoch'[k]
      OBVIOUS
    <3>2. sent[k][i] \in Message
      BY <1>1
    <3>3. sent[k][i].epoch \in Nat /\ epoch'[k] \in Nat
      BY <1>2, <3>2 DEF Message
    <3>4. QED BY <1>6, <3>3
  <2>2. sent[k] # <<>> => Len(sent[k]) \in 1..Len(sent[k])
    BY <1>1
  <2>3. QED BY <1>1, <1>5, <2>1, <2>2 DEF IInv, Chained
<1>8. ASSUME NEW x \in Streams \ {k} PROVE Chained(x)'
  BY <1>1, <1>2, ChainStands DEF IInv
<1>9. ASSUME NEW x \in Streams PROVE MarkIsSent(x)' /\ CatchesUp(x)'
  BY <1>1 DEF IInv, MarkIsSent, CatchesUp, watchVars, marks
<1>10. QED BY <1>3, <1>4, <1>7, <1>8, <1>9 DEF IInv

LEMMA ExportsAreNatural ==
  ASSUME TypeOK, NEW k \in Streams, NEW i \in 1..Len(sent[k])
  PROVE  Exports(k, i) \in Nat
<1>1. sent[k][i] \in Message
  BY DEF TypeOK
<1>2. sent[k][i].width \in Nat
  <2>1. Widths \subseteq Nat
    BY DEF Half
  <2>2. QED BY <1>1, <2>1 DEF Message
<1>3. QED BY <1>2 DEF Exports

LEMMA DeliverIInv ==
  ASSUME IInv, NEW k \in Streams, NEW i \in 1..Len(sent[k]),
         NEW n \in Widths \cup {0}, Deliver(k, i, n)
  PROVE  IInv'
<1> DEFINE m == sent[k][i]
           late == backwards' # backwards
           seq == SequenceOf(m)
           next == /\ i = newest[k] + 1 /\ newest[k] > 0
                   /\ sent[k][newest[k]].epoch = m.epoch
<1>1. /\ counting \in [Streams -> {"messages", "records"}]
      /\ sent \in [Streams -> Seq(Message)]
      /\ row \in [Streams -> Nat \cup {-1}]
      /\ newest \in [Streams -> Nat] /\ high \in [Streams -> Nat]
      /\ from \in [Streams -> Nat] /\ base \in [Streams -> Nat]
      /\ inOrder \in [Streams -> BOOLEAN] /\ delivered \in Nat
      /\ seen \in [Streams -> SUBSET Nat]
      /\ accepted \in [Streams -> Nat] /\ misread \in [Streams -> BOOLEAN]
      /\ WatchOK
  BY DEF IInv, TypeOK, WatchOK
<1>2. m \in Message /\ i \in Nat \ {0} /\ n \in Nat
  BY <1>1
<1>3. /\ Observe(k, seq, n) /\ (n = m.width \/ (Deferral /\ n = 0))
      /\ delivered' = delivered + 1
      /\ newest' = [newest EXCEPT ![k] = IF i > @ THEN i ELSE @]
      /\ seen' = [seen EXCEPT ![k] = @ \cup {i}]
      /\ inOrder' = [inOrder EXCEPT ![k] = @ /\ i >= newest[k]]
      /\ row' = [row EXCEPT ![k] = IF next THEN @ + 1
                                   ELSE IF i < newest[k] THEN -1 ELSE 0]
      /\ late => UNCHANGED <<high, from, base, accepted, misread>>
      /\ ~late =>
           /\ high' = [high EXCEPT ![k] = i]
           /\ \E unjudged \in BOOLEAN :
                /\ ~unjudged => k \in DOMAIN streams
                /\ from' = [from EXCEPT ![k] = IF unjudged THEN i ELSE @]
                /\ base' = [base EXCEPT ![k] =
                              IF unjudged THEN Lookup(missed', k, 0) ELSE @]
                /\ accepted' = [accepted EXCEPT ![k] =
                     IF unjudged THEN 0 ELSE @ + Exports(k, high[k])]
                /\ misread' = [misread EXCEPT ![k] =
                     ~unjudged /\ (@ \/ sent[k][high[k]].epoch # m.epoch)]
      /\ UNCHANGED <<counting, counter, epoch, sent>>
  <2> DEFINE skip == \/ k \notin DOMAIN streams \/ streams[k].mode = "unknown"
                     \/ resyncs' # resyncs
  <2>1. skip \in BOOLEAN /\ (~skip => k \in DOMAIN streams)
    OBVIOUS
  <2>2. ~late =>
           /\ high' = [high EXCEPT ![k] = i]
           /\ from' = [from EXCEPT ![k] = IF skip THEN i ELSE @]
           /\ base' = [base EXCEPT ![k] =
                         IF skip THEN Lookup(missed', k, 0) ELSE @]
           /\ accepted' = [accepted EXCEPT ![k] =
                             IF skip THEN 0 ELSE @ + Exports(k, high[k])]
           /\ misread' = [misread EXCEPT ![k] =
                ~skip /\ (@ \/ sent[k][high[k]].epoch # m.epoch)]
    BY DEF Deliver
  <2>3. /\ Observe(k, seq, n) /\ (n = m.width \/ (Deferral /\ n = 0))
        /\ delivered' = delivered + 1
        /\ newest' = [newest EXCEPT ![k] = IF i > @ THEN i ELSE @]
        /\ seen' = [seen EXCEPT ![k] = @ \cup {i}]
        /\ inOrder' = [inOrder EXCEPT ![k] = @ /\ i >= newest[k]]
        /\ row' = [row EXCEPT ![k] = IF next THEN @ + 1
                                     ELSE IF i < newest[k] THEN -1 ELSE 0]
        /\ late => UNCHANGED <<high, from, base, accepted, misread>>
        /\ UNCHANGED <<counting, counter, epoch, sent>>
    <3>1. n \in {m.width} \cup (IF Deferral THEN {0} ELSE {})
      BY DEF Deliver
    <3>2. n = m.width \/ (Deferral /\ n = 0)
      BY <3>1
    <3> HIDE DEF skip
    <3>3. /\ Observe(k, seq, n)
          /\ late => UNCHANGED <<high, from, base, accepted, misread>>
      BY DEF Deliver
    <3>4. QED BY <3>2, <3>3 DEF Deliver
  <2> HIDE DEF skip, m, seq, late, next
  <2>4. QED BY <2>1, <2>2, <2>3
<1>4. /\ seq \in 0..(SeqModulus - 1) /\ m.width \in Widths /\ m.count \in Nat
      /\ seq = m.count % SeqModulus
  <2>1. m.width \in Widths /\ m.count \in Nat
    BY <1>2 DEF Message
  <2>2. seq = m.count % SeqModulus
    BY DEF SequenceOf
  <2> HIDE DEF m, seq
  <2>3. seq \in 0..(SeqModulus - 1)
    BY <2>1, <2>2, InRange
  <2>4. QED BY <2>1, <2>2, <2>3
<1> HIDE DEF seq
<1>5. WatchOK'
  BY <1>1, <1>2, <1>3, <1>4, ObserveWatch
<1>6. /\ \A x \in DOMAIN streams' \ {k} :
           x \in DOMAIN streams /\ streams'[x] = streams[x]
      /\ late =>
           /\ k \in DOMAIN streams /\ k \in DOMAIN streams'
           /\ GapAt(streams[k], seq) < 0
           /\ streams[k].backwards + 1 < ResyncAfter
           /\ streams'[k] = [streams[k] EXCEPT !.backwards = @ + 1]
      /\ ~late /\ k \in DOMAIN streams' =>
           /\ streams'[k].seq = seq /\ streams'[k].records = n
           /\ \/ streams'[k].backwards = 0
              \/ /\ k \in DOMAIN streams
                 /\ streams'[k].backwards = streams[k].backwards
  <2> HIDE DEF m
  <2>1. QED BY <1>1, <1>2, <1>3, <1>4, ObserveMarks
<1>7. /\ newest' \in [Streams -> Nat] /\ seen' \in [Streams -> SUBSET Nat]
      /\ inOrder' \in [Streams -> BOOLEAN] /\ delivered' \in Nat
      /\ row' \in [Streams -> Nat \cup {-1}]
      /\ newest'[k] = (IF i > newest[k] THEN i ELSE newest[k])
      /\ row'[k] = (IF next THEN row[k] + 1
                    ELSE IF i < newest[k] THEN -1 ELSE 0)
  <2> HIDE DEF m, next
  <2>1. row[k] + 1 \in Nat
    <3>1. row[k] \in Nat \/ row[k] = -1
      BY <1>1
    <3>2. QED BY <3>1
  <2>2. /\ seen' \in [Streams -> SUBSET Nat] /\ delivered' \in Nat
        /\ inOrder' \in [Streams -> BOOLEAN]
    <3>1. inOrder' \in [Streams -> BOOLEAN]
      BY <1>1, <1>3
    <3>2. QED BY <1>1, <1>2, <1>3, <3>1
  <2>3. /\ newest' \in [Streams -> Nat]
        /\ newest'[k] = (IF i > newest[k] THEN i ELSE newest[k])
    BY <1>1, <1>2, <1>3
  <2> DEFINE t == IF next THEN row[k] + 1
                  ELSE IF i < newest[k] THEN -1 ELSE 0
  <2>4. t \in Nat \cup {-1} /\ row' = [row EXCEPT ![k] = t]
    BY <1>3, <2>1
  <2> HIDE DEF t
  <2>5. row' \in [Streams -> Nat \cup {-1}] /\ row'[k] = t
    BY <1>1, <2>4
  <2>6. QED BY <2>2, <2>3, <2>5 DEF t
<1>8. /\ high' \in [Streams -> Nat] /\ from' \in [Streams -> Nat]
      /\ base' \in [Streams -> Nat] /\ accepted' \in [Streams -> Nat]
      /\ misread' \in [Streams -> BOOLEAN]
      /\ high'[k] = IF late THEN high[k] ELSE i
      /\ \A x \in Streams \ {k} : high'[x] = high[x]
  <2>1. Lookup(missed', k, 0) \in Nat
    BY <1>5 DEF WatchOK, WatchTypeOK, Lookup
  <2> HIDE DEF m, late, next
  <2>2. CASE late
    BY <1>1, <1>3, <2>2
  <2>3. CASE ~late
    <3>0. MarkIsSent(k)
      BY DEF IInv
    <3>1. PICK unjudged \in BOOLEAN :
            /\ ~unjudged => k \in DOMAIN streams
            /\ from' = [from EXCEPT ![k] = IF unjudged THEN i ELSE @]
            /\ base' = [base EXCEPT ![k] =
                          IF unjudged THEN Lookup(missed', k, 0) ELSE @]
            /\ accepted' = [accepted EXCEPT ![k] =
                 IF unjudged THEN 0 ELSE @ + Exports(k, high[k])]
            /\ misread' = [misread EXCEPT ![k] =
                 ~unjudged /\ (@ \/ sent[k][high[k]].epoch # m.epoch)]
      BY <1>3, <2>3
    <3>2. from' \in [Streams -> Nat] /\ base' \in [Streams -> Nat]
      BY <1>1, <1>2, <2>1, <3>1
    <3>3. accepted' \in [Streams -> Nat]
      <4>1. ~unjudged => Exports(k, high[k]) \in Nat
        <5>1. ~unjudged => high[k] \in 1..Len(sent[k])
          <6>1. ~unjudged => k \in DOMAIN streams
            BY <3>1
          <6>2. QED BY <3>0, <6>1 DEF MarkIsSent
        <5>2. TypeOK
          BY DEF IInv
        <5>3. QED BY <5>1, <5>2, ExportsAreNatural
      <4>2. (IF unjudged THEN 0 ELSE accepted[k] + Exports(k, high[k])) \in Nat
        BY <1>1, <4>1
      <4>3. QED BY <1>1, <3>1, <4>2
    <3>4. high' = [high EXCEPT ![k] = i]
      BY <1>3, <2>3
    <3>5. misread' \in [Streams -> BOOLEAN]
      BY <1>1, <3>1
    <3>6. QED BY <1>1, <1>2, <2>3, <3>2, <3>3, <3>4, <3>5
  <2>4. QED BY <2>2, <2>3
<1>9. TypeOK' /\ NoRepeats(order)'
  BY <1>1, <1>3, <1>5, <1>7, <1>8 DEF IInv, TypeOK, WatchOK
<1>10. ASSUME NEW x \in Streams PROVE Chained(x)'
  BY <1>3, ChainStands DEF IInv
<1>11. ASSUME NEW x \in Streams \ {k} PROVE MarkIsSent(x)' /\ CatchesUp(x)'
  <2>1. /\ sent' = sent /\ counting' = counting /\ high'[x] = high[x]
        /\ row'[x] = row[x] /\ newest'[x] = newest[x]
    BY <1>1, <1>3, <1>8
  <2>2. QED BY <1>6, <2>1 DEF IInv, MarkIsSent, CatchesUp
<1>12. MarkIsSent(k)'
  <2>1. sent' = sent
    BY <1>3
  <2>2. CASE late
    <3>1. k \in DOMAIN streams /\ streams[k] \in State
      BY <1>1, <1>6, <2>2 DEF WatchOK, WatchTypeOK
    <3>2. /\ streams'[k].seq = streams[k].seq
          /\ streams'[k].records = streams[k].records
      BY <1>6, <2>2, <3>1 DEF State
    <3>3. QED BY <1>8, <2>1, <2>2, <3>1, <3>2 DEF IInv, MarkIsSent
  <2>3. CASE ~late
    <3>1. SUFFICES ASSUME k \in DOMAIN streams'
                   PROVE  MarkIsSent(k)'
      BY DEF MarkIsSent
    <3>2. high'[k] = i /\ sent'[k][high'[k]] = m
      BY <1>8, <2>1, <2>3
    <3>3. /\ streams'[k].seq = SequenceOf(m) /\ streams'[k].records = n
          /\ (n = m.width \/ (Deferral /\ n = 0))
      BY <1>3, <1>6, <2>3, <3>1 DEF seq
    <3> HIDE DEF m
    <3>4. QED BY <2>1, <3>2, <3>3 DEF MarkIsSent, SequenceOf
  <2>4. QED BY <2>2, <2>3
<1>13. CatchesUp(k)'
  <2>1. CASE late
    <3> DEFINE s == streams[k]
    <3>1. /\ k \in DOMAIN streams /\ s \in State /\ GapAt(s, seq) < 0
          /\ s.backwards + 1 < ResyncAfter
      BY <1>1, <1>6, <2>1 DEF WatchOK, WatchTypeOK
    <3>2. /\ streams'[k].backwards = s.backwards + 1 /\ s.backwards \in Nat
          /\ streams'[k].mode = s.mode
      BY <1>6, <2>1, <3>1 DEF State
    <3>3. high'[k] = high[k] /\ counting' = counting
      BY <1>3, <1>8, <2>1
    <3>4. ASSUME s.mode = counting[k], next, high[k] = newest[k] PROVE FALSE
      <4> DEFINE w == sent[k][high[k]].width
             c == sent[k][high[k]].count
      <4>1. /\ high[k] \in 1..Len(sent[k]) /\ s.seq = c % SeqModulus
            /\ s.records \in {w, 0}
        BY <3>1 DEF IInv, MarkIsSent, SequenceOf
      <4>2. w \in Widths /\ c \in Nat
        <5>1. sent[k][high[k]] \in Message
          BY <1>1, <4>1
        <5>2. QED BY <5>1 DEF Message
      <4>3. m.count = After(k, high[k])
        <5>1. high[k] \in 1..(Len(sent[k]) - 1) /\ i = high[k] + 1
          BY <1>1, <3>4, <4>1
        <5>2. QED BY <3>4, <5>1 DEF IInv, Chained
      <4>4. m.count = c + IF counting[k] = "messages" THEN 1 ELSE w
        BY <4>1, <4>3 DEF After, Exports
      <4>5. GapAt(s, seq) >= 0
        <5> HIDE DEF s, w, m, c
        <5>1. QED BY <1>1, <1>4, <3>1, <3>4, <4>1, <4>2, <4>4, NextIsAhead
      <4>6. GapAt(s, seq) \in Int
        <5> HIDE DEF s, m
        <5>1. seq \in Int
          BY <1>4
        <5>2. QED BY <3>1, <5>1, GapIsInteger
      <4>7. QED BY <3>1, <4>5, <4>6
    <3>5. CatchesUp(k)
      BY DEF IInv
    <3>6. ASSUME s.mode = counting[k], row'[k] >= 0, high'[k] # newest'[k]
          PROVE  s.backwards + 1 > row'[k]
      <4>1. CASE next
        <5>1. high[k] # newest[k] /\ row'[k] = row[k] + 1
          BY <1>7, <3>4, <3>6, <4>1
        <5>2. CASE row[k] >= 0
          <6>1. s.backwards > row[k]
            BY <3>1, <3>5, <3>6, <5>1, <5>2 DEF CatchesUp
          <6>2. row[k] \in Nat /\ s.backwards \in Nat
            BY <1>1, <3>2, <5>2
          <6> HIDE DEF s
          <6>3. QED BY <5>1, <6>1, <6>2 DEF s
        <5>3. CASE row[k] = -1
          BY <3>2, <5>1, <5>3
        <5>4. QED BY <1>1, <5>2, <5>3
      <4>2. CASE ~next
        BY <1>7, <3>2, <3>6, <4>2
      <4>3. QED BY <4>1, <4>2
    <3>7. streams'[k].backwards < ResyncAfter
      BY <3>1, <3>2
    <3> HIDE DEF s
    <3>8. QED BY <3>2, <3>3, <3>6, <3>7 DEF CatchesUp
  <2>2. CASE ~late
    <3>1. SUFFICES ASSUME k \in DOMAIN streams'
                   PROVE  /\ streams'[k].backwards < ResyncAfter
                          /\ row'[k] >= 0 => high'[k] = newest'[k]
      BY DEF CatchesUp
    <3>2. streams'[k].backwards < ResyncAfter
      BY <1>6, <2>2, <3>1 DEF IInv, CatchesUp
    <3>3. CASE i < newest[k]
      <4>1. ~next
        BY <1>1, <1>2, <3>3
      <4>2. row'[k] = -1
        BY <1>7, <3>3, <4>1
      <4>3. QED BY <3>2, <4>2
    <3>4. CASE ~(i < newest[k])
      <4>1. high'[k] = i
        BY <1>8, <2>2
      <4>2. newest'[k] = i
        <5>1. i \in Nat /\ newest[k] \in Nat
          BY <1>1, <1>2
        <5>2. newest'[k] = IF i > newest[k] THEN i ELSE newest[k]
          BY <1>7
        <5>3. QED BY <3>4, <5>1, <5>2
      <4>3. QED BY <3>2, <4>1, <4>2
    <3>5. QED BY <3>3, <3>4
  <2>3. QED BY <2>1, <2>2
<1>14. QED BY <1>9, <1>10, <1>11, <1>12, <1>13 DEF IInv

LEMMA NextIInv == IInv /\ [Next]_vars => IInv'
<1> SUFFICES ASSUME IInv, [Next]_vars PROVE IInv'
  OBVIOUS
<1>1. CASE UNCHANGED vars
  BY <1>1 DEF vars, watchVars, counters, network, marks, IInv, TypeOK,
              WatchTypeOK, Chained, After, Exports, MarkIsSent, CatchesUp
<1>2. CASE Next
  BY <1>2, SendIInv, RestartIInv, DeliverIInv DEF Next
<1>3. QED BY <1>1, <1>2

LEMMA IInvAlways == Spec => []IInv
BY InitIInv, NextIInv, PTL DEF Spec

(* What the watch and the exporters remember stays well formed, whatever   *)
(* the network does to the messages between them.                          *)
THEOREM StreamTypes == Spec => []TypeOK
<1>1. IInv => TypeOK
  BY DEF IInv
<1>2. QED BY <1>1, IInvAlways, PTL

(* An exporter that restarted is followed again within ResyncAfter         *)
(* messages, wherever its counter stood and however wide it is             *)
(* (sequence.py:119), also when data sets are counted late.                *)
THEOREM RestartIsAdopted == Spec => []RestartAdopted
<1>1. IInv => RestartAdopted
  <2> SUFFICES ASSUME IInv, NEW k \in Streams, RightRule(k),
                      row[k] >= ResyncAfter - 1, high[k] # newest[k]
               PROVE  FALSE
    BY DEF RestartAdopted
  <2>1. /\ k \in DOMAIN streams /\ streams[k].mode = counting[k]
        /\ row[k] \in Nat \cup {-1} /\ ResyncAfter \in Nat \ {0}
        /\ streams[k].backwards \in Nat
    BY DEF IInv, TypeOK, RightRule, WatchTypeOK, State
  <2>2. row[k] >= 0
    BY <2>1
  <2>3. /\ streams[k].backwards < ResyncAfter /\ streams[k].backwards > row[k]
    BY <2>1, <2>2 DEF IInv, CatchesUp
  <2>4. QED BY <2>1, <2>3
<1>2. QED BY <1>1, IInvAlways, PTL

(* No message of a tracked exporter that can still be delivered is half a  *)
(* turn of the counter or more from the message the mark is at, ahead of   *)
(* it or behind, unless the exporter restarted between the two: past that  *)
(* a counter cannot tell ahead from behind.                                *)
WithinHalf ==
  \A k \in DOMAIN streams : \A i \in 1..Len(sent[k]) :
    i + MaxLate > newest[k] /\ sent[k][i].epoch = sent[k][high[k]].epoch =>
      sent[k][i].count - After(k, high[k]) \in -Half..(SeqModulus - Half - 1)

(* What was counted since the mark was last set without being judged.      *)
Tallied(k) ==
  RightRule(k) /\ ~misread[k] =>
    /\ from[k] \in 1..Len(sent[k])
    /\ accepted[k] + (Lookup(missed, k, 0) - base[k])
         = sent[k][high[k]].count - sent[k][from[k]].count

LEMMA TallyStands ==
  ASSUME NEW k \in Streams, Tallied(k), RightRule(k)' => RightRule(k),
         sent'[k] = sent[k] \/ \A i \in 1..Len(sent[k]) :
                                i \in 1..Len(sent'[k]) /\ sent'[k][i] = sent[k][i],
         RightRule(k) => high[k] \in 1..Len(sent[k]),
         from'[k] = from[k], accepted'[k] = accepted[k], base'[k] = base[k],
         misread'[k] = misread[k],
         high'[k] = high[k], Lookup(missed', k, 0) = Lookup(missed, k, 0)
  PROVE  Tallied(k)'
BY DEF Tallied

(* A judged message that moves the mark: the distance the counter came is  *)
(* the exports of the message the mark leaves and those counted as missed. *)
LEMMA JudgedIsTallied ==
  ASSUME IInv, WithinHalf, ~Deferral, NEW k \in Streams,
         NEW i \in 1..Len(sent[k]), i + MaxLate > newest[k],
         k \in DOMAIN streams, streams[k].mode = counting[k],
         sent[k][high[k]].epoch = sent[k][i].epoch
  PROVE  GapAt(streams[k], SequenceOf(sent[k][i]))
           = sent[k][i].count - sent[k][high[k]].count - Exports(k, high[k])
<1> DEFINE s == streams[k]
           c == sent[k][high[k]].count
           x == sent[k][i].count
           e == Exports(k, high[k])
<1>1. /\ s \in State /\ sent[k] \in Seq(Message) /\ TypeOK
      /\ counting[k] \in {"messages", "records"}
  BY DEF IInv, TypeOK, WatchTypeOK
<1>2. /\ high[k] \in 1..Len(sent[k]) /\ s.seq = SequenceOf(sent[k][high[k]])
      /\ s.records = sent[k][high[k]].width
  BY DEF IInv, MarkIsSent
<1>3. c \in Nat /\ x \in Nat
  <2>1. sent[k][high[k]] \in Message /\ sent[k][i] \in Message
    BY <1>1, <1>2
  <2>2. QED BY <2>1 DEF Message
<1>4. e \in Nat
  BY <1>1, <1>2, ExportsAreNatural
<1>5. e = IF s.mode = "messages" THEN 1 ELSE s.records
  BY <1>1, <1>2 DEF Exports
<1>6. s.seq = c % SeqModulus
  BY <1>2 DEF SequenceOf
<1>7. x - (c + e) \in -Half..(SeqModulus - Half - 1)
  BY DEF WithinHalf, After
<1> HIDE DEF s, c, x, e
<1>8. x - c - e = x - (c + e)
  BY <1>3, <1>4
<1>9. x - c - e \in -Half..(SeqModulus - Half - 1)
  BY <1>7, <1>8
<1>10. GapAt(s, x % SeqModulus) = x - c - e
  BY ONLY <1>1, <1>3, <1>4, <1>5, <1>6, <1>9, GapIsDistance
<1>11. QED BY <1>10 DEF s, c, x, e, SequenceOf

(* Why message i of a stream does not have to be judged by the mark.       *)
Unjudged(k, i) ==
  \/ k \notin DOMAIN streams \/ streams[k].mode = "unknown"
  \/ resyncs' # resyncs

(* What a delivery does to the marks and to the counts.                    *)
LEMMA DeliverCounts ==
  ASSUME IInv, NEW k \in Streams, NEW i \in 1..Len(sent[k]),
         NEW n \in Widths \cup {0}, Deliver(k, i, n)
  PROVE  LET gap == GapAt(streams[k], SequenceOf(sent[k][i]))
             late == backwards' # backwards
         IN  /\ i + MaxLate > newest[k] /\ sent' = sent /\ counting' = counting
             /\ \A x : /\ Lookup(missed, x, 0) \in Nat
                       /\ Lookup(missed', x, 0) \in Nat
             /\ \A x \in DOMAIN streams' \ {k} :
                  /\ x \in DOMAIN streams /\ streams'[x] = streams[x]
                  /\ Lookup(missed', x, 0) = Lookup(missed, x, 0)
             /\ late => /\ k \in DOMAIN streams /\ gap < 0
                        /\ streams'[k].mode = streams[k].mode
                        /\ missed' = missed
                        /\ UNCHANGED <<high, from, base, accepted, misread>>
             /\ ~late =>
                  /\ high' = [high EXCEPT ![k] = i]
                  /\ from' = [from EXCEPT ![k] = IF Unjudged(k, i) THEN i ELSE @]
                  /\ base' = [base EXCEPT ![k] =
                       IF Unjudged(k, i) THEN Lookup(missed', k, 0) ELSE @]
                  /\ accepted' = [accepted EXCEPT ![k] =
                       IF Unjudged(k, i) THEN 0 ELSE @ + Exports(k, high[k])]
                  /\ misread' = [misread EXCEPT ![k] = ~Unjudged(k, i)
                       /\ (@ \/ sent[k][high[k]].epoch # sent[k][i].epoch)]
             /\ ~late /\ ~Unjudged(k, i) =>
                  /\ Lookup(missed', k, 0) = Lookup(missed, k, 0) + gap
                  /\ streams'[k].mode = streams[k].mode /\ gap >= 0
<1> DEFINE m == sent[k][i]
           seq == SequenceOf(m)
           late == backwards' # backwards
           skip == Unjudged(k, i)
<1>1. /\ WatchOK /\ sent \in [Streams -> Seq(Message)]
      /\ streams \in [ToSet(order) -> State]
      /\ missed \in [DOMAIN missed -> Nat \ {0}]
  BY DEF IInv, TypeOK, WatchOK, WatchTypeOK
<1>2. /\ seq \in 0..(SeqModulus - 1) /\ m \in Message /\ n \in Nat
  <2>1. Widths \subseteq Nat
    BY DEF Half
  <2>2. m \in Message /\ n \in Nat
    BY <1>1, <2>1
  <2>3. m.count \in Nat
    BY <2>2 DEF Message
  <2> HIDE DEF m
  <2>4. QED BY <2>2, <2>3, InRange DEF SequenceOf
<1>3. /\ Observe(k, seq, n) /\ i + MaxLate > newest[k]
      /\ sent' = sent /\ counting' = counting
  BY DEF Deliver
<1>4. /\ late => UNCHANGED <<high, from, base, accepted, misread>>
      /\ ~late =>
           /\ high' = [high EXCEPT ![k] = i]
           /\ from' = [from EXCEPT ![k] = IF skip THEN i ELSE @]
           /\ base' = [base EXCEPT ![k] =
                         IF skip THEN Lookup(missed', k, 0) ELSE @]
           /\ accepted' = [accepted EXCEPT ![k] =
                             IF skip THEN 0 ELSE @ + Exports(k, high[k])]
           /\ misread' = [misread EXCEPT ![k] = ~skip
                /\ (@ \/ sent[k][high[k]].epoch # m.epoch)]
  BY DEF Deliver, Unjudged
<1>5. ~skip => /\ resyncs' = resyncs /\ k \in DOMAIN streams
               /\ streams[k].mode # "unknown"
  BY DEF Unjudged
<1> HIDE DEF m, seq, skip
<1>6. /\ \A x \in DOMAIN streams' \ {k} :
            x \in DOMAIN streams /\ streams'[x] = streams[x]
      /\ late => /\ k \in DOMAIN streams /\ GapAt(streams[k], seq) < 0
                 /\ streams'[k] = [streams[k] EXCEPT !.backwards = @ + 1]
  BY <1>1, <1>2, <1>3, ObserveMarks
<1>7. /\ \A x \in DOMAIN streams' \ {k} :
            Lookup(missed', x, 0) = Lookup(missed, x, 0)
      /\ late => missed' = missed
      /\ ~late /\ ~skip =>
           /\ Lookup(missed', k, 0)
                = Lookup(missed, k, 0) + GapAt(streams[k], seq)
           /\ streams'[k].mode = streams[k].mode
  BY <1>1, <1>2, <1>3, <1>5, ObserveCounts
<1>8. ~late /\ ~skip => GapAt(streams[k], seq) >= 0
  BY <1>1, <1>2, <1>3, <1>5, ObserveAhead
<1>9. late => streams'[k].mode = streams[k].mode
  BY <1>1, <1>6 DEF State
<1>10. WatchOK'
  BY <1>1, <1>2, <1>3, ObserveWatch
<1>11. \A x : Lookup(missed, x, 0) \in Nat /\ Lookup(missed', x, 0) \in Nat
  BY <1>1, <1>10 DEF WatchOK, WatchTypeOK, Lookup
<1>12. QED
  BY <1>3, <1>4, <1>6, <1>7, <1>8, <1>9, <1>11 DEF m, seq, skip

(* A message judged by a mark that passed no restart unseen, and that      *)
(* leaves it so, is of the epoch of the message the mark is at.            *)
LEMMA JudgedAsSent ==
  ASSUME IInv, NEW k \in Streams, NEW i \in 1..Len(sent[k]),
         NEW n \in Widths \cup {0}, Deliver(k, i, n)
  PROVE  LET late == backwards' # backwards
         IN  /\ \A x \in Streams \ {k} : misread'[x] = misread[x]
             /\ late => misread' = misread
             /\ ~late /\ ~Unjudged(k, i) /\ ~misread'[k] =>
                  /\ ~misread[k] /\ k \in DOMAIN streams
                  /\ sent[k][high[k]].epoch = sent[k][i].epoch
<1> DEFINE late == backwards' # backwards
           skip == Unjudged(k, i)
           across == sent[k][high[k]].epoch # sent[k][i].epoch
<1>1. /\ late => misread' = misread
      /\ ~late => misread' = [misread EXCEPT ![k] = ~skip /\ (@ \/ across)]
  BY DeliverCounts
<1>2. misread \in [Streams -> BOOLEAN]
  BY DEF IInv, TypeOK
<1>3. ~skip => k \in DOMAIN streams
  BY DEF Unjudged
<1> HIDE DEF late, skip, across
<1>4. \A x \in Streams \ {k} : misread'[x] = misread[x]
  BY <1>1, <1>2
<1>5. ~late /\ ~skip /\ ~misread'[k] => ~misread[k] /\ ~across
  BY <1>1, <1>2
<1>6. QED BY <1>1, <1>3, <1>4, <1>5 DEF late, skip, across

LEMMA DeliverTallied ==
  ASSUME IInv, WithinHalf, ~Deferral, \A k \in Streams : Tallied(k),
         NEW k \in Streams, NEW i \in 1..Len(sent[k]),
         NEW n \in Widths \cup {0}, Deliver(k, i, n)
  PROVE  \A x \in Streams : Tallied(x)'
<1> DEFINE m == sent[k][i]
           seq == SequenceOf(m)
           late == backwards' # backwards
           skip == Unjudged(k, i)
<1>1. /\ sent \in [Streams -> Seq(Message)] /\ TypeOK
      /\ {high, from, base, accepted} \subseteq [Streams -> Nat]
  BY DEF IInv, TypeOK
<1>2. m \in Message
  BY <1>1
<1>3. /\ i + MaxLate > newest[k] /\ sent' = sent /\ counting' = counting
      /\ \A x : Lookup(missed, x, 0) \in Nat /\ Lookup(missed', x, 0) \in Nat
      /\ \A x \in DOMAIN streams' \ {k} :
           /\ x \in DOMAIN streams /\ streams'[x] = streams[x]
           /\ Lookup(missed', x, 0) = Lookup(missed, x, 0)
  BY DeliverCounts
<1>4. /\ late => UNCHANGED <<high, from, base, accepted, misread>>
      /\ ~late =>
           /\ high' = [high EXCEPT ![k] = i]
           /\ from' = [from EXCEPT ![k] = IF skip THEN i ELSE @]
           /\ base' = [base EXCEPT ![k] =
                         IF skip THEN Lookup(missed', k, 0) ELSE @]
           /\ accepted' = [accepted EXCEPT ![k] =
                             IF skip THEN 0 ELSE @ + Exports(k, high[k])]
  BY DeliverCounts
<1>5. late => /\ k \in DOMAIN streams /\ missed' = missed
              /\ streams'[k].mode = streams[k].mode
  BY DeliverCounts
<1>6. ~late /\ ~skip =>
        /\ Lookup(missed', k, 0) = Lookup(missed, k, 0) + GapAt(streams[k], seq)
        /\ streams'[k].mode = streams[k].mode
  BY DeliverCounts
<1>7. /\ \A x \in Streams \ {k} : misread'[x] = misread[x]
      /\ late => misread' = misread
      /\ ~late /\ ~skip /\ ~misread'[k] =>
           /\ ~misread[k] /\ k \in DOMAIN streams
           /\ sent[k][high[k]].epoch = m.epoch
  BY JudgedAsSent
<1> HIDE DEF m, seq, skip
<1>8. ASSUME NEW x \in Streams \ {k} PROVE Tallied(x)'
  <2>1. SUFFICES ASSUME RightRule(x)', ~misread'[x] PROVE Tallied(x)'
    BY DEF Tallied
  <2>2. x \in DOMAIN streams' \ {k} /\ RightRule(x)
    BY <1>3, <2>1 DEF RightRule
  <2>3. Lookup(missed', x, 0) = Lookup(missed, x, 0)
    BY <1>3, <2>2
  <2>4. /\ high'[x] = high[x] /\ from'[x] = from[x] /\ base'[x] = base[x]
        /\ accepted'[x] = accepted[x] /\ misread'[x] = misread[x]
    BY <1>1, <1>4, <1>7
  <2>5. QED BY <1>3, <2>2, <2>3, <2>4 DEF Tallied
<1>9. Tallied(k)'
  <2>1. SUFFICES ASSUME RightRule(k)', ~misread'[k] PROVE Tallied(k)'
    BY DEF Tallied
  <2>2. CASE late
    <3>1. RightRule(k) /\ ~misread[k]
      BY <1>3, <1>5, <1>7, <2>1, <2>2 DEF RightRule
    <3>2. QED BY <1>3, <1>4, <1>5, <2>2, <3>1 DEF Tallied
  <2>3. CASE ~late /\ skip
    <3>1. /\ high'[k] = i /\ from'[k] = i /\ accepted'[k] = 0
          /\ base'[k] = Lookup(missed', k, 0)
      BY <1>1, <1>4, <2>3
    <3>2. m.count - m.count = 0
      BY <1>2 DEF Message
    <3>3. Lookup(missed', k, 0) - base'[k] = 0
      BY <1>3, <3>1
    <3>4. sent'[k][high'[k]].count - sent'[k][from'[k]].count = 0
      BY <1>3, <3>1, <3>2 DEF m
    <3>5. accepted'[k] + (Lookup(missed', k, 0) - base'[k]) = 0
      BY <3>1, <3>3
    <3>6. from'[k] \in 1..Len(sent'[k])
      BY <1>3, <3>1
    <3>7. QED BY <3>4, <3>5, <3>6 DEF Tallied
  <2>4. CASE ~late /\ ~skip
    <3> DEFINE e == Exports(k, high[k])
               c == sent[k][high[k]].count
               f == sent[k][from[k]].count
               u == Lookup(missed, k, 0)
               v == Lookup(missed', k, 0)
               x == m.count
    <3>1. /\ k \in DOMAIN streams /\ sent[k][high[k]].epoch = m.epoch
          /\ streams'[k].mode = streams[k].mode /\ ~misread[k]
      BY <1>6, <1>7, <2>1, <2>4
    <3>2. streams[k].mode = counting[k] /\ RightRule(k)
      BY <1>3, <2>1, <3>1 DEF RightRule
    <3>3. v = u + GapAt(streams[k], seq)
      BY <1>6, <2>4
    <3>4. GapAt(streams[k], seq) = x - c - e
      BY <1>3, <3>1, <3>2, JudgedIsTallied DEF m, seq
    <3>5. /\ high'[k] = i /\ from'[k] = from[k] /\ base'[k] = base[k]
          /\ accepted'[k] = accepted[k] + e
      BY <1>1, <1>4, <2>4
    <3>6. /\ from[k] \in 1..Len(sent[k])
          /\ accepted[k] + (u - base[k]) = c - f
      BY <3>1, <3>2 DEF Tallied
    <3>7. high[k] \in 1..Len(sent[k])
      BY <3>1 DEF IInv, MarkIsSent
    <3>8. c \in Nat /\ f \in Nat /\ x \in Nat
      <4>1. sent[k][high[k]] \in Message /\ sent[k][from[k]] \in Message
        BY <1>1, <3>6, <3>7
      <4>2. QED BY <1>2, <4>1 DEF Message
    <3>9. e \in Nat
      BY <1>1, <3>7, ExportsAreNatural
    <3>10. u \in Nat /\ v \in Nat /\ base[k] \in Nat /\ accepted[k] \in Nat
      BY <1>1, <1>3
    <3>11. /\ sent'[k][high'[k]].count = x /\ sent'[k][from'[k]].count = f
           /\ from'[k] \in 1..Len(sent'[k])
      BY <1>3, <3>5, <3>6 DEF m
    <3> DEFINE g == GapAt(streams[k], seq)
    <3> HIDE DEF e, c, f, u, v, x, g
    <3>12. g = x - c - e /\ v = u + g
      BY <3>3, <3>4 DEF g
    <3>13. \A a, b \in Nat : a + (u - b) = c - f => a + e + (v - b) = x - f
      BY <3>8, <3>9, <3>10, <3>12
    <3>14. accepted'[k] + (v - base'[k]) = x - f
      BY <3>5, <3>6, <3>10, <3>13
    <3>15. QED BY <3>11, <3>14 DEF Tallied, v
  <2>5. QED BY <2>2, <2>3, <2>4
<1>10. QED BY <1>8, <1>9

LEMMA NextTallied ==
  ASSUME ~Deferral
  PROVE  /\ IInv /\ WithinHalf /\ (\A k \in Streams : Tallied(k))
            /\ [Next]_vars
         => \A k \in Streams : Tallied(k)'
<1> SUFFICES ASSUME IInv, WithinHalf, \A k \in Streams : Tallied(k),
                    [Next]_vars
             PROVE  \A k \in Streams : Tallied(k)'
  OBVIOUS
<1>1. \A k \in Streams : RightRule(k) => high[k] \in 1..Len(sent[k])
  BY DEF IInv, MarkIsSent, RightRule
<1>2. CASE UNCHANGED vars
  BY <1>2 DEF vars, watchVars, network, marks, Tallied, RightRule
<1>3. ASSUME NEW k \in Streams, NEW w \in Widths, Send(k, w)
      PROVE  \A x \in Streams : Tallied(x)'
  <2>1. /\ UNCHANGED <<streams, missed, counting, high, from, base, accepted,
                       misread>>
        /\ \E m : sent' = [sent EXCEPT ![k] = Append(@, m)]
        /\ sent \in [Streams -> Seq(Message)]
    BY <1>3 DEF Send, watchVars, marks, IInv, TypeOK
  <2>2. ASSUME NEW x \in Streams, NEW i \in 1..Len(sent[x])
        PROVE  i \in 1..Len(sent'[x]) /\ sent'[x][i] = sent[x][i]
    BY <2>1
  <2>3. QED BY <1>1, <2>1, <2>2, TallyStands DEF RightRule
<1>4. ASSUME NEW k \in Streams, Restart(k)
      PROVE  \A x \in Streams : Tallied(x)'
  <2>1. UNCHANGED <<streams, missed, counting, sent, high, from, base, accepted,
                    misread>>
    BY <1>4 DEF Restart, watchVars, marks
  <2>2. QED BY <2>1 DEF Tallied, RightRule
<1>5. CASE Next
  BY <1>3, <1>4, <1>5, DeliverTallied DEF Next
<1>6. QED BY <1>2, <1>5

(* Under the exporter's own rule every export its counter passes is in a   *)
(* message that was the mark or counted as missed, exactly once, whatever  *)
(* is lost, repeated, late or resynchronised on the way, as long as the    *)
(* counter can be read at all, no restart was taken for a message in step  *)
(* or after a gap, and data sets are counted when they arrive.             *)
THEOREM LossIsAccounted ==
  ASSUME ~Deferral
  PROVE  Spec /\ []WithinHalf => []LossAccounted
<1> DEFINE All == \A k \in Streams : Tallied(k)
<1>1. Init => All
  BY DEF Init, WatchInit, Tallied, RightRule
<1>2. IInv /\ WithinHalf /\ All /\ [Next]_vars => All'
  BY NextTallied
<1>3. All => LossAccounted
  BY DEF Tallied, LossAccounted
<1> HIDE DEF All
<1>4. QED BY <1>1, <1>2, <1>3, IInvAlways, PTL DEF Spec

-----------------------------------------------------------------------------
(* The rule learned.                                                       *)

(* What TypeOK says of the messages sent.                                  *)
LEMMA SentTypes ==
  ASSUME TypeOK, NEW k \in Streams
  PROVE  /\ sent[k] \in Seq(Message) /\ Len(sent[k]) \in Nat
         /\ \A j \in 1..Len(sent[k]) : /\ sent[k][j].epoch \in Nat
                                       /\ sent[k][j].count \in Nat
<1>1. sent[k] \in Seq(Message)
  BY DEF TypeOK
<1>2. \A m \in Message : m.epoch \in Nat /\ m.count \in Nat
  BY DEF Message
<1>3. \A j \in 1..Len(sent[k]) : sent[k][j] \in Message
  BY <1>1
<1>4. QED BY <1>1, <1>2, <1>3

(* Numbers with one remainder are whole turns apart, and the other way.    *)
LEMMA SameRemainder ==
  ASSUME NEW a \in Int, NEW b \in Int
  PROVE  a % SeqModulus = b % SeqModulus <=> (a - b) % SeqModulus = 0
<1>1. PICK i \in Int : a % SeqModulus = a - SeqModulus * i
  BY WholeTurns
<1>2. PICK j \in Int : b % SeqModulus = b - SeqModulus * j
  BY WholeTurns
<1>3. a - b \in Int /\ 0 \in 0..(SeqModulus - 1)
  OBVIOUS
<1>4. ASSUME a % SeqModulus = b % SeqModulus PROVE (a - b) % SeqModulus = 0
  <2>1. a - b = 0 + SeqModulus * (i - j) /\ i - j \in Int
    BY <1>1, <1>2, <1>4
  <2> DEFINE d == a - b
             t == i - j
  <2>2. d \in Int /\ t \in Int /\ d = 0 + SeqModulus * t
    BY <1>3, <2>1
  <2> HIDE DEF d, t
  <2>3. d % SeqModulus = 0
    BY <1>3, <2>2, TurnsDoNotMatter
  <2>4. QED BY <2>3 DEF d
<1>5. ASSUME (a - b) % SeqModulus = 0 PROVE a % SeqModulus = b % SeqModulus
  <2> DEFINE d == a - b
             r == b % SeqModulus
  <2>1. PICK q \in Int : d % SeqModulus = d - SeqModulus * q
    BY <1>3, WholeTurns
  <2>2. r \in 0..(SeqModulus - 1) /\ d = SeqModulus * q
    BY <1>3, <1>5, <2>1
  <2>3. a = r + SeqModulus * (j + q) /\ j + q \in Int
    BY <1>2, <2>2
  <2> HIDE DEF r
  <2> DEFINE t == j + q
  <2>4. t \in Int /\ a = r + SeqModulus * t
    BY <2>3
  <2> HIDE DEF t
  <2>5. a % SeqModulus = r
    BY <2>2, <2>4, TurnsDoNotMatter
  <2>6. QED BY <2>5 DEF r
<1>6. QED BY <1>4, <1>5

(* A counter moved on reads the same from its remainder.                   *)
LEMMA MovedOn ==
  ASSUME NEW c \in Nat, NEW e \in Nat
  PROVE  ((c % SeqModulus) + e) % SeqModulus = (c + e) % SeqModulus
<1> DEFINE r == c % SeqModulus
<1>0. c \in Int
  OBVIOUS
<1>1. PICK i \in Int : r = c - SeqModulus * i
  BY <1>0, WholeTurns
<1>2. r \in Int /\ 0 \in 0..(SeqModulus - 1) /\ -i \in Int
  BY InRange
<1> HIDE DEF r
<1>3. (r + e) - (c + e) = 0 + SeqModulus * (-i)
  BY <1>1, <1>2
<1>4. ((r + e) - (c + e)) % SeqModulus = 0
  <2> DEFINE d == (r + e) - (c + e)
             t == -i
  <2>1. d \in Int /\ t \in Int /\ d = 0 + SeqModulus * t
    BY <1>2, <1>3
  <2> HIDE DEF d, t
  <2>2. d % SeqModulus = 0
    BY <1>2, <2>1, TurnsDoNotMatter
  <2>3. QED BY <2>2 DEF d
<1>5. r + e \in Int /\ c + e \in Int
  BY <1>2
<1>6. (r + e) % SeqModulus = (c + e) % SeqModulus
  BY ONLY <1>4, <1>5, SameRemainder
<1>7. QED BY <1>6 DEF r

(* What a stream without a rule learns from the message after its mark.    *)
LEMMA NeighbourTeaches ==
  ASSUME IInv, NEW k \in Streams, NEW i \in 1..Len(sent[k]),
         NEW n \in Widths \cup {0}, Deliver(k, i, n),
         k \in DOMAIN streams, streams[k].mode = "unknown",
         streams[k].records = sent[k][high[k]].width,
         i = high[k] + 1, sent[k][i].epoch = sent[k][high[k]].epoch
  PROVE  streams'[k].mode =
           IF (sent[k][high[k]].width - 1) % SeqModulus = 0 THEN "unknown"
           ELSE counting[k]
<1> DEFINE h == high[k]
           c == sent[k][h].count
           w == sent[k][h].width
           s == streams[k]
           x == sent[k][i].count
           r == c % SeqModulus
<1>1. /\ TypeOK /\ Chained(k) /\ MarkIsSent(k) /\ h \in 1..Len(sent[k])
      /\ Len(sent[k]) \in Nat /\ h \in Nat
  <2>1. TypeOK /\ Chained(k) /\ MarkIsSent(k) /\ h \in 1..Len(sent[k])
    BY DEF IInv, MarkIsSent
  <2>2. QED BY <2>1, SentTypes
<1>2. s \in State /\ streams \in [ToSet(order) -> State]
  BY <1>1 DEF TypeOK, WatchTypeOK
<1>3. c \in Nat /\ w \in Nat /\ x \in Nat
  <2>1. sent[k] \in Seq(Message) /\ Widths \subseteq Nat
    BY <1>1 DEF TypeOK, Half
  <2>2. sent[k][h] \in Message /\ sent[k][i] \in Message
    BY <1>1, <2>1
  <2>3. QED BY <2>1, <2>2 DEF Message
<1>4. x = c + IF counting[k] = "messages" THEN 1 ELSE w
  <2>1. h \in 1..(Len(sent[k]) - 1)
    BY <1>1
  <2>2. x = After(k, h)
    BY <1>1, <2>1 DEF Chained
  <2>3. QED BY <2>2 DEF After, Exports
<1>5. s.seq = r /\ s.records = w
  BY <1>1 DEF MarkIsSent, SequenceOf
<1>6. Learn(k, x % SeqModulus, n)
  <2>1. Observe(k, x % SeqModulus, n)
    BY DEF Deliver, SequenceOf
  <2>2. QED BY <2>1 DEF Observe, Track, Late, Resync, InStep, Gap
<1>7. streams'[k].mode = IF ByMessages(s) = ByRecords(s) THEN "unknown"
                         ELSE IF x % SeqModulus = ByMessages(s) THEN "messages"
                         ELSE IF x % SeqModulus = ByRecords(s) THEN "records"
                         ELSE "unknown"
  <2> HIDE DEF x
  <2>1. QED BY <1>2, <1>6 DEF Learn, Remember, State
<1> HIDE DEF h, c, w, s, x
<1>8. /\ ByMessages(s) = (c + 1) % SeqModulus
      /\ ByRecords(s) = (c + w) % SeqModulus
  <2>1. (r + 1) % SeqModulus = (c + 1) % SeqModulus
    BY <1>3, MovedOn
  <2>2. (r + w) % SeqModulus = (c + w) % SeqModulus
    BY <1>3, MovedOn
  <2> HIDE DEF r
  <2>3. QED BY <1>5, <2>1, <2>2 DEF ByMessages, ByRecords
<1>9. ByMessages(s) = ByRecords(s) <=> (w - 1) % SeqModulus = 0
  <2>1. (c + w) - (c + 1) = w - 1 /\ c + w \in Int /\ c + 1 \in Int
    BY <1>3
  <2>2. (c + w) % SeqModulus = (c + 1) % SeqModulus
          <=> ((c + w) - (c + 1)) % SeqModulus = 0
    BY ONLY <2>1, SameRemainder
  <2>3. QED BY <1>8, <2>1, <2>2
<1>10. /\ counting[k] = "messages" => x % SeqModulus = ByMessages(s)
       /\ counting[k] = "records" => x % SeqModulus = ByRecords(s)
  BY <1>4, <1>8
<1>11. counting[k] \in {"messages", "records"}
  BY <1>1 DEF TypeOK
<1>12. streams'[k].mode = IF (w - 1) % SeqModulus = 0 THEN "unknown"
                          ELSE counting[k]
  BY <1>7, <1>9, <1>10, <1>11
<1>13. QED BY <1>12 DEF w, h

(* SequenceWatch.observe's learning: of two messages sent one after the    *)
(* other and counted when they arrive, the second teaches the exporter's   *)
(* own rule, or none where one record is all the first carried, for every  *)
(* modulus and wherever the counter stands or wraps.                       *)
THEOREM NeighboursTeachTheRule == Spec => NeighboursTeach
<1> DEFINE m(k) == sent[k][high[k]]
           Taught ==
             \A k \in DOMAIN streams \cap DOMAIN streams' :
               /\ streams[k].mode = "unknown" /\ streams[k].records = m(k).width
               /\ high'[k] = high[k] + 1 /\ sent[k][high'[k]].epoch = m(k).epoch
               => streams'[k].mode =
                    IF (m(k).width - 1) % SeqModulus = 0 THEN "unknown"
                    ELSE counting[k]
<1>1. ASSUME IInv, Next PROVE Taught
  <2> SUFFICES ASSUME NEW k \in DOMAIN streams \cap DOMAIN streams',
                      streams[k].mode = "unknown",
                      streams[k].records = m(k).width,
                      high'[k] = high[k] + 1,
                      sent[k][high'[k]].epoch = m(k).epoch
               PROVE  streams'[k].mode =
                        IF (m(k).width - 1) % SeqModulus = 0 THEN "unknown"
                        ELSE counting[k]
    OBVIOUS
  <2>1. /\ high \in [Streams -> Nat] /\ k \in Streams
    BY <1>1 DEF IInv, TypeOK, WatchTypeOK, ToSet
  <2>2. high'[k] # high[k]
    BY <2>1
  <2>3. PICK y \in Streams :
          \E j \in 1..Len(sent[y]), v \in Widths \cup {0} : Deliver(y, j, v)
    BY <1>1, <2>2 DEF Next, Send, Restart, marks
  <2> PICK i \in 1..Len(sent[y]), n \in Widths \cup {0} : Deliver(y, i, n)
    BY <2>3
  <2>4. high' = high \/ high' = [high EXCEPT ![y] = i]
    BY DEF Deliver
  <2>5. y = k /\ i = high[k] + 1
    BY <2>1, <2>2, <2>4
  <2>6. QED BY <1>1, <2>1, <2>5, NeighbourTeaches
<1>2. IInv /\ [Next]_vars => [Taught]_vars
  BY <1>1
<1>3. QED BY <1>2, IInvAlways, PTL DEF Spec, NeighboursTeach

-----------------------------------------------------------------------------
(* Messages that arrive in the order sent.                                 *)

(* Restarts only add to the epoch, and only what was sent arrives.         *)
SentInOrder(k) ==
  /\ \A i \in 1..Len(sent[k]) : \A j \in i..Len(sent[k]) :
       sent[k][i].epoch <= sent[k][j].epoch
  /\ newest[k] <= Len(sent[k]) /\ seen[k] \subseteq 1..newest[k]

LEMMA InitSent == Init => \A k \in Streams : SentInOrder(k)
BY DEF Init, SentInOrder

LEMMA SendSent ==
  ASSUME IInv, NEW k \in Streams, NEW w \in Widths, Send(k, w),
         \A x \in Streams : SentInOrder(x), NEW x \in Streams
  PROVE  SentInOrder(x)'
<1> DEFINE m == [count |-> counter[k], width |-> w, epoch |-> epoch[k]]
           s == sent[k]
           l == Len(s)
<1>1. /\ sent' = [sent EXCEPT ![k] = Append(@, m)]
      /\ newest' = newest /\ seen' = seen
  BY DEF Send
<1>2. /\ sent \in [Streams -> Seq(Message)] /\ epoch[k] \in Nat
      /\ newest[k] \in Nat /\ l \in Nat
      /\ \A i \in 1..l : s[i].epoch \in Nat /\ s[i].epoch <= epoch[k]
  <2>1. TypeOK /\ Chained(k)
    BY DEF IInv
  <2>2. sent \in [Streams -> Seq(Message)] /\ newest[k] \in Nat
    BY <2>1 DEF TypeOK
  <2>3. epoch[k] \in Nat
    <3>1. epoch[k] \in 0..MaxRestarts
      BY <2>1 DEF TypeOK
    <3>2. QED BY <3>1
  <2>4. QED BY <2>1, <2>2, <2>3, SentTypes DEF Chained
<1>3. CASE x # k
  <2>1. sent'[x] = sent[x]
    BY <1>1, <1>2, <1>3
  <2>2. QED BY <1>1, <2>1 DEF SentInOrder
<1>4. CASE x = k
  <2> DEFINE t == sent'[k]
  <2>1. t = Append(s, m)
    BY <1>1, <1>2
  <2>2. m.epoch = epoch[k]
    OBVIOUS
  <2> HIDE DEF m
  <2>3. /\ Len(t) = l + 1 /\ t[l + 1].epoch = epoch[k]
        /\ \A i \in 1..l : t[i] = s[i]
    BY <1>2, <2>1, <2>2
  <2>4. /\ \A i \in 1..l : \A j \in i..l : s[i].epoch <= s[j].epoch
        /\ newest[k] <= l /\ seen[k] \subseteq 1..newest[k]
    BY DEF SentInOrder
  <2> HIDE DEF t, s, l
  <2>5. ASSUME NEW i \in 1..Len(t), NEW j \in i..Len(t)
        PROVE  t[i].epoch <= t[j].epoch
    <3>1. CASE j \in 1..l
      <4>1. i \in 1..l /\ j \in i..l
        BY <1>2, <3>1
      <4>2. t[i] = s[i] /\ t[j] = s[j] /\ s[i].epoch <= s[j].epoch
        BY <2>3, <2>4, <4>1
      <4>3. QED BY <4>2
    <3>2. CASE j = l + 1
      <4>1. CASE i \in 1..l
        <5>1. t[i] = s[i] /\ s[i].epoch <= epoch[k]
          BY <1>2, <2>3, <4>1
        <5>2. QED BY <2>3, <3>2, <5>1
      <4>2. CASE i = l + 1
        <5>1. t[i].epoch = epoch[k] /\ t[j].epoch = epoch[k]
          BY <2>3, <3>2, <4>2
        <5>2. QED BY <1>2, <5>1
      <4>3. QED BY <1>2, <2>3, <4>1, <4>2
    <3>3. QED BY <1>2, <2>3, <3>1, <3>2
  <2>6. newest[k] <= Len(t)
    BY <1>2, <2>3, <2>4
  <2>7. QED BY <1>1, <1>4, <2>4, <2>5, <2>6 DEF SentInOrder, t
<1>5. QED BY <1>3, <1>4

LEMMA DeliverSent ==
  ASSUME IInv, NEW k \in Streams, NEW i \in 1..Len(sent[k]),
         NEW n \in Widths \cup {0}, Deliver(k, i, n),
         \A x \in Streams : SentInOrder(x), NEW x \in Streams
  PROVE  SentInOrder(x)'
<1>1. /\ sent' = sent
      /\ newest' = [newest EXCEPT ![k] = IF i > @ THEN i ELSE @]
      /\ seen' = [seen EXCEPT ![k] = @ \cup {i}]
  BY DEF Deliver
<1>2. /\ newest \in [Streams -> Nat] /\ seen \in [Streams -> SUBSET Nat]
      /\ sent \in [Streams -> Seq(Message)]
  BY DEF IInv, TypeOK
<1>3. newest'[x] <= Len(sent[x]) /\ seen'[x] \subseteq 1..newest'[x]
  <2>1. newest[x] <= Len(sent[x]) /\ seen[x] \subseteq 1..newest[x]
    BY DEF SentInOrder
  <2>2. CASE x = k
    BY <1>1, <1>2, <2>1, <2>2
  <2>3. CASE x # k
    BY <1>1, <1>2, <2>1, <2>3
  <2>4. QED BY <2>2, <2>3
<1>4. QED BY <1>1, <1>3 DEF SentInOrder

LEMMA NextSent ==
  IInv /\ (\A k \in Streams : SentInOrder(k)) /\ [Next]_vars
    => \A k \in Streams : SentInOrder(k)'
<1> SUFFICES ASSUME IInv, \A k \in Streams : SentInOrder(k), [Next]_vars,
                    NEW x \in Streams
             PROVE  SentInOrder(x)'
  OBVIOUS
<1>1. CASE UNCHANGED vars
  BY <1>1 DEF vars, network, SentInOrder
<1>2. ASSUME NEW k \in Streams, Restart(k) PROVE SentInOrder(x)'
  BY <1>2 DEF Restart, SentInOrder
<1>3. CASE Next
  BY <1>2, <1>3, SendSent, DeliverSent DEF Next
<1>4. QED BY <1>1, <1>3

(* How far each message moved its exporter's counter.                      *)
Steps(k) == [i \in 1..Len(sent[k]) |-> Exports(k, i)]

(* Between two messages of one epoch the counter went the exports of those *)
(* between them.                                                           *)
LEMMA SpanIsSum ==
  ASSUME IInv, NEW k \in Streams, SentInOrder(k),
         NEW h \in 1..Len(sent[k]), NEW i \in 1..Len(sent[k]), h < i,
         sent[k][h].epoch = sent[k][i].epoch
  PROVE  /\ SumFunctionOnSet(Steps(k), (h + 1)..(i - 1))
              = sent[k][i].count - After(k, h)
         /\ sent[k][i].count - After(k, h) >= 0
<1> DEFINE c == [j \in 1..Len(sent[k]) |-> sent[k][j].count]
           f == Steps(k)
           a == h + 1
           M == a..(i - 1)
           l == Len(sent[k])
           E(j) == sent[k][j].epoch
<1>1. l \in Nat /\ \A j \in 1..l : E(j) \in Nat /\ c[j] \in Nat
  BY SentTypes DEF IInv
<1>2. \A j \in 1..l : f[j] \in Nat /\ f[j] = Exports(k, j)
  BY ExportsAreNatural DEF Steps, IInv
<1>3. h \in 1..l /\ i \in 1..l /\ E(h) = E(i)
  OBVIOUS
<1>4. \A p \in 1..l : \A q \in p..l : E(p) <= E(q)
  BY DEF SentInOrder
<1>5. \A j \in 1..(l - 1) : E(j + 1) = E(j) => c[j + 1] = c[j] + f[j]
  <2>1. SUFFICES ASSUME NEW j \in 1..(l - 1), E(j + 1) = E(j)
                 PROVE  c[j + 1] = c[j] + f[j]
    OBVIOUS
  <2>2. sent[k][j + 1].count = After(k, j)
    BY <2>1 DEF IInv, Chained
  <2>3. j \in 1..l /\ j + 1 \in 1..l
    BY <1>1
  <2>4. QED BY <1>2, <2>2, <2>3 DEF After
<1>6. c[h] + f[h] = After(k, h) /\ c[i] = sent[k][i].count
  BY <1>2, <1>3 DEF After
<1> HIDE DEF c, f, l, E
<1>7. ASSUME NEW j \in h..(i - 1)
      PROVE  /\ c[j + 1] = c[j] + f[j]
             /\ f[j] \in Nat /\ c[j] \in Nat /\ c[j + 1] \in Nat
  <2>1. /\ j \in 1..(l - 1) /\ j \in 1..l /\ j + 1 \in 1..l
        /\ j \in h..l /\ j + 1 \in j..l /\ i \in (j + 1)..l
    BY <1>1, <1>3
  <2>2. E(h) <= E(j) /\ E(j) <= E(j + 1) /\ E(j + 1) <= E(i)
    BY <1>3, <1>4, <2>1
  <2>3. E(h) \in Nat /\ E(j) \in Nat /\ E(j + 1) \in Nat /\ E(i) \in Nat
    BY <1>1, <1>3, <2>1
  <2>4. E(j + 1) = E(j)
    BY <1>3, <2>2, <2>3
  <2>5. QED BY <1>1, <1>2, <1>5, <2>1, <2>4
<1>8. c[a] = After(k, h)
  <2>1. h \in h..(i - 1)
    BY <1>1, <1>3
  <2>2. QED BY <1>6, <1>7, <2>1
<1>9. /\ a \in Nat /\ i \in Nat /\ a <= i
      /\ \A j \in a..i : j \in 1..l
      /\ \A j \in a..(i - 1) : j \in h..(i - 1) /\ j \in 1..l
  BY <1>1, <1>3
<1>10. ASSUME NEW j \in a..i PROVE c[j] \in Int
  <2>1. j \in 1..l
    BY <1>9
  <2>2. QED BY <1>1, <2>1
<1>11. \A j \in a..(i - 1) : f[j] = c[j + 1] - c[j]
  <2>1. SUFFICES ASSUME NEW j \in a..(i - 1) PROVE f[j] = c[j + 1] - c[j]
    OBVIOUS
  <2>2. j \in h..(i - 1)
    BY <1>9
  <2>3. QED BY <1>7, <2>2
<1> HIDE DEF a
<1>12. SumFunctionOnSet(f, M) = c[i] - c[a]
  <2>1. a \in Nat /\ i \in Nat /\ a <= i
    BY <1>9
  <2>2. /\ \A j \in a..i : c[j] \in Int
        /\ \A j \in a..(i - 1) : f[j] = c[j + 1] - c[j]
    BY <1>10, <1>11
  <2>3. QED BY ONLY <2>1, <2>2, SumTelescopes
<1>13. SumFunctionOnSet(f, M) \in Nat
  <2>1. IsFiniteSet(M)
    BY <1>9, FS_Interval
  <2>2. \A j \in M : f[j] \in Nat
    BY <1>2, <1>9
  <2> HIDE DEF M
  <2>3. QED BY <2>1, <2>2, SumIsNatural
<1>14. SumFunctionOnSet(f, M) = sent[k][i].count - After(k, h)
  BY <1>6, <1>8, <1>12
<1>15. sent[k][i].count - After(k, h) >= 0
  BY <1>13, <1>14
<1>16. QED BY <1>14, <1>15 DEF f, a

(* While a stream's messages arrive in the order sent, its mark is at the  *)
(* newest of them, or the exporter restarted since; and what was counted   *)
(* since the mark was last set unjudged is what was lost since, unless a   *)
(* restart since was taken for a gap.                                      *)
LossIsReal(k) ==
  RightRule(k) /\ inOrder[k] /\ ~misread[k] =>
    /\ from[k] <= high[k] /\ high[k] <= newest[k] /\ high[k] \in seen[k]
    /\ \/ high[k] = newest[k]
       \/ sent[k][newest[k]].epoch # sent[k][high[k]].epoch
    /\ Lookup(missed, k, 0) - base[k] = Lost(k)

(* A message in order and of the mark's epoch finds the mark at the newest. *)
LEMMA MarkAtNewest ==
  ASSUME IInv, NEW k \in Streams, SentInOrder(k), LossIsReal(k),
         RightRule(k), inOrder[k], ~misread[k],
         NEW i \in 1..Len(sent[k]), i >= newest[k],
         sent[k][high[k]].epoch = sent[k][i].epoch
  PROVE  high[k] = newest[k]
<1>1. SUFFICES ASSUME sent[k][newest[k]].epoch # sent[k][high[k]].epoch
               PROVE  FALSE
  BY DEF LossIsReal
<1>2. /\ high[k] \in 1..Len(sent[k]) /\ high[k] <= newest[k]
      /\ newest[k] \in Nat /\ newest[k] <= Len(sent[k])
      /\ \A j \in 1..Len(sent[k]) : sent[k][j].epoch \in Nat
  BY SentTypes DEF LossIsReal, IInv, MarkIsSent, RightRule, TypeOK, SentInOrder
<1>3. /\ newest[k] \in high[k]..Len(sent[k]) /\ newest[k] \in 1..Len(sent[k])
      /\ i \in newest[k]..Len(sent[k])
  BY <1>2
<1>4. /\ sent[k][high[k]].epoch <= sent[k][newest[k]].epoch
      /\ sent[k][newest[k]].epoch <= sent[k][i].epoch
  BY <1>2, <1>3 DEF SentInOrder
<1>5. QED BY <1>1, <1>2, <1>3, <1>4

(* Delivered in order, message i is judged by how far past the mark it is. *)
LEMMA JudgedInOrder ==
  ASSUME IInv, WithinHalf, ~Deferral, NEW k \in Streams, SentInOrder(k),
         LossIsReal(k), RightRule(k), inOrder[k], ~misread[k],
         NEW i \in 1..Len(sent[k]), i >= newest[k], i + MaxLate > newest[k],
         sent[k][high[k]].epoch = sent[k][i].epoch
  PROVE  LET gap == GapAt(streams[k], SequenceOf(sent[k][i]))
         IN  /\ high[k] \in 1..Len(sent[k]) /\ high[k] = newest[k]
             /\ i = high[k] => gap = 0 - Exports(k, i) /\ Exports(k, i) \in Nat
             /\ i # high[k] =>
                  /\ high[k] < i /\ gap >= 0
                  /\ gap = SumFunctionOnSet(Steps(k), (high[k] + 1)..(i - 1))
<1> DEFINE gap == GapAt(streams[k], SequenceOf(sent[k][i]))
           h == high[k]
           x == sent[k][i].count
           c == sent[k][h].count
           e == Exports(k, h)
<1>1. h \in 1..Len(sent[k]) /\ h = newest[k]
  BY MarkAtNewest DEF IInv, MarkIsSent, RightRule
<1>2. gap = x - c - e
  BY JudgedIsTallied DEF RightRule
<1>3. x \in Nat /\ c \in Nat /\ e \in Nat
  <2>1. TypeOK /\ sent[k] \in Seq(Message)
    BY DEF IInv, TypeOK
  <2>2. sent[k][i] \in Message /\ sent[k][h] \in Message
    BY <1>1, <2>1
  <2>3. QED BY <1>1, <2>1, <2>2, ExportsAreNatural DEF Message
<1>4. CASE i = h
  <2>1. x = c /\ e = Exports(k, i)
    BY <1>4
  <2> HIDE DEF gap, x, c, e
  <2>2. gap = 0 - Exports(k, i) /\ Exports(k, i) \in Nat
    BY <1>2, <1>3, <2>1
  <2>3. QED BY <1>1, <1>4, <2>2 DEF gap
<1>5. CASE i # h
  <2>1. h < i
    BY <1>1, <1>5
  <2>2. /\ SumFunctionOnSet(Steps(k), (h + 1)..(i - 1)) = x - After(k, h)
        /\ x - After(k, h) >= 0
    BY <1>1, <2>1, SpanIsSum
  <2>3. After(k, h) = c + e
    BY DEF After
  <2>4. x - (c + e) = x - c - e
    <3> HIDE DEF x, c, e
    <3>1. QED BY <1>3
  <2> HIDE DEF gap, x, c, e
  <2>5. /\ gap = SumFunctionOnSet(Steps(k), (h + 1)..(i - 1)) /\ gap >= 0
    BY <1>2, <2>2, <2>3, <2>4
  <2>6. QED BY <1>1, <1>5, <2>1, <2>5 DEF gap
<1>6. QED BY <1>4, <1>5

LEMMA LostIsSum ==
  ASSUME NEW k \in Streams
  PROVE  Lost(k) = SumFunctionOnSet(Steps(k),
                                    ((from[k] + 1)..(high[k] - 1)) \ seen[k])
BY DEF Lost, Steps

(* What is lost after a delivery that leaves `from`, with the mark at h.   *)
LEMMA LostAfter ==
  ASSUME NEW k \in Streams, sent' = sent, counting' = counting
  PROVE  Lost(k)' = SumFunctionOnSet(Steps(k),
                      ((from'[k] + 1)..(high'[k] - 1)) \ seen'[k])
BY DEF Lost, Steps, Exports

LEMMA IntervalIsFinite ==
  ASSUME NEW a \in Int, NEW b \in Int
  PROVE  IsFiniteSet(a..b)
BY FS_Interval

(* The exports between messages f and h, without those in S.               *)
Between(k, f, h, S) == SumFunctionOnSet(Steps(k), ((f + 1)..(h - 1)) \ S)

(* The messages in S came before h, h the last of them.                    *)
LastOf(h, S) == h \in S /\ S \subseteq 1..h

(* Where the mark went on from h to i, past messages none of which arrived, *)
(* those are lost besides what was before.                                 *)
LEMMA LostFurther ==
  ASSUME IInv, NEW k \in Streams, NEW S,
         NEW f \in Nat, NEW h \in 1..Len(sent[k]), NEW i \in 1..Len(sent[k]),
         f <= h, h < i, LastOf(h, S)
  PROVE  Between(k, f, i, S \cup {i})
           = Between(k, f, h, S)
             + SumFunctionOnSet(Steps(k), (h + 1)..(i - 1))
<1> USE DEF Between, LastOf
<1> DEFINE A == ((f + 1)..(h - 1)) \ S
           B == (h + 1)..(i - 1)
<1>1. h \in Nat /\ i \in Nat /\ Len(sent[k]) \in Nat
  BY SentTypes DEF IInv
<1>2. ((f + 1)..(i - 1)) \ (S \cup {i}) = A \cup B
  BY <1>1
<1>3. A \cap B = {}
  BY <1>1
<1>4. IsFiniteSet(A) /\ IsFiniteSet(B)
  <2>1. IsFiniteSet((f + 1)..(h - 1)) /\ IsFiniteSet(B)
    <3>1. f + 1 \in Int /\ h - 1 \in Int /\ h + 1 \in Int /\ i - 1 \in Int
      BY <1>1
    <3>2. QED BY ONLY <3>1, IntervalIsFinite
  <2>2. A \in SUBSET ((f + 1)..(h - 1))
    OBVIOUS
  <2>3. QED BY <2>1, <2>2, FS_Subset
<1>5. A \cup B \subseteq 1..Len(sent[k])
  BY <1>1
<1> HIDE DEF A, B
<1>6. \A y \in A \cup B : Steps(k)[y] \in Int
  BY <1>5, ExportsAreNatural DEF Steps, IInv
<1>7. SumFunctionOnSet(Steps(k), A \cup B)
        = SumFunctionOnSet(Steps(k), A) + SumFunctionOnSet(Steps(k), B)
  BY <1>3, <1>4, <1>6, SumOfUnion
<1>8. QED BY <1>2, <1>7 DEF A, B

(* What was lost is a number.                                              *)
LEMMA LostIsNatural ==
  ASSUME IInv, NEW k \in Streams, NEW S, NEW f \in Nat,
         NEW h \in 1..Len(sent[k])
  PROVE  SumFunctionOnSet(Steps(k), ((f + 1)..(h - 1)) \ S) \in Nat
<1> DEFINE A == ((f + 1)..(h - 1)) \ S
<1>1. h \in Nat /\ Len(sent[k]) \in Nat
  BY SentTypes DEF IInv
<1>2. A \in SUBSET ((f + 1)..(h - 1)) /\ IsFiniteSet((f + 1)..(h - 1))
  <2>1. f + 1 \in Int /\ h - 1 \in Int
    BY <1>1
  <2>2. IsFiniteSet((f + 1)..(h - 1))
    BY ONLY <2>1, IntervalIsFinite
  <2>3. QED BY <2>2
<1>3. A \subseteq 1..Len(sent[k])
  BY <1>1
<1> HIDE DEF A
<1>4. IsFiniteSet(A)
  BY <1>2, FS_Subset
<1>5. \A y \in A : Steps(k)[y] \in Nat
  BY <1>3, ExportsAreNatural DEF Steps, IInv
<1>6. QED BY <1>4, <1>5, SumIsNatural DEF A

LEMMA DeliverReal ==
  ASSUME IInv, WithinHalf, ~Deferral,
         \A x \in Streams : SentInOrder(x) /\ LossIsReal(x),
         NEW k \in Streams, NEW i \in 1..Len(sent[k]),
         NEW n \in Widths \cup {0}, Deliver(k, i, n)
  PROVE  \A x \in Streams : LossIsReal(x)'
<1> DEFINE late == backwards' # backwards
           skip == Unjudged(k, i)
           gap == GapAt(streams[k], SequenceOf(sent[k][i]))
<1>1. /\ newest' = [newest EXCEPT ![k] = IF i > @ THEN i ELSE @]
      /\ seen' = [seen EXCEPT ![k] = @ \cup {i}]
      /\ inOrder' = [inOrder EXCEPT ![k] = @ /\ i >= newest[k]]
  BY DEF Deliver
<1>2. /\ {newest, high, from, base} \subseteq [Streams -> Nat]
      /\ seen \in [Streams -> SUBSET Nat] /\ TypeOK
      /\ inOrder \in [Streams -> BOOLEAN] /\ i \in Nat
  <2>1. TypeOK
    BY DEF IInv
  <2>2. i \in Nat
    BY <2>1, SentTypes
  <2>3. QED BY <2>1, <2>2 DEF TypeOK
<1>3. /\ i + MaxLate > newest[k] /\ sent' = sent /\ counting' = counting
      /\ \A x : Lookup(missed, x, 0) \in Nat /\ Lookup(missed', x, 0) \in Nat
      /\ \A x \in DOMAIN streams' \ {k} :
           /\ x \in DOMAIN streams /\ streams'[x] = streams[x]
           /\ Lookup(missed', x, 0) = Lookup(missed, x, 0)
  BY DeliverCounts
<1>4. late => UNCHANGED <<high, from, base>>
  BY DeliverCounts
<1>5. ~late =>
           /\ high' = [high EXCEPT ![k] = i]
           /\ from' = [from EXCEPT ![k] = IF skip THEN i ELSE @]
           /\ base' = [base EXCEPT ![k] =
                         IF skip THEN Lookup(missed', k, 0) ELSE @]
  BY DeliverCounts
<1>6. late => /\ k \in DOMAIN streams /\ missed' = missed /\ gap < 0
              /\ streams'[k].mode = streams[k].mode
  BY DeliverCounts
<1>7. ~late /\ ~skip => /\ Lookup(missed', k, 0) = Lookup(missed, k, 0) + gap
                        /\ streams'[k].mode = streams[k].mode /\ gap >= 0
  BY DeliverCounts
<1>8. /\ \A x \in Streams \ {k} : misread'[x] = misread[x]
      /\ late => misread' = misread
      /\ ~late /\ ~skip /\ ~misread'[k] =>
           /\ ~misread[k] /\ k \in DOMAIN streams
           /\ sent[k][high[k]].epoch = sent[k][i].epoch
  BY JudgedAsSent
<1> HIDE DEF late, skip
<1>9. ASSUME NEW x \in Streams \ {k} PROVE LossIsReal(x)'
  <2>1. SUFFICES ASSUME RightRule(x)', inOrder'[x], ~misread'[x]
                 PROVE  LossIsReal(x)'
    BY DEF LossIsReal
  <2>2. x \in DOMAIN streams' \ {k} /\ RightRule(x)
    BY <1>3, <2>1 DEF RightRule
  <2>3. Lookup(missed', x, 0) = Lookup(missed, x, 0)
    BY <1>3, <2>2
  <2>4. /\ high'[x] = high[x] /\ from'[x] = from[x] /\ base'[x] = base[x]
        /\ newest'[x] = newest[x] /\ seen'[x] = seen[x]
        /\ inOrder'[x] = inOrder[x] /\ misread'[x] = misread[x]
    BY <1>1, <1>2, <1>4, <1>5, <1>8
  <2>5. Lost(x)' = Lost(x)
    BY <1>3, <2>4, LostIsSum, LostAfter
  <2>6. QED BY <1>3, <2>1, <2>2, <2>3, <2>4, <2>5 DEF LossIsReal
<1>10. LossIsReal(k)'
  <2>1. SUFFICES ASSUME RightRule(k)', inOrder'[k], ~misread'[k]
                 PROVE  LossIsReal(k)'
    BY DEF LossIsReal
  <2>2. /\ inOrder[k] /\ i >= newest[k]
    BY <1>1, <1>2, <2>1
  <2>3. newest'[k] = i /\ seen'[k] = seen[k] \cup {i}
    BY <1>1, <1>2, <2>2
  <2>4. SentInOrder(k) /\ LossIsReal(k)
    OBVIOUS
  <2>5. CASE late
    <3>1. RightRule(k) /\ ~misread[k]
      BY <1>3, <1>6, <1>8, <2>1, <2>5 DEF RightRule
    <3>2. /\ high'[k] = high[k] /\ from'[k] = from[k] /\ base'[k] = base[k]
          /\ Lookup(missed', k, 0) = Lookup(missed, k, 0)
      BY <1>4, <1>6, <2>5
    <3>3. /\ from[k] <= high[k] /\ high[k] <= newest[k] /\ high[k] \in seen[k]
          /\ Lookup(missed, k, 0) - base[k] = Lost(k)
      BY <2>2, <2>4, <3>1 DEF LossIsReal
    <3>4. high[k] = i \/ sent[k][i].epoch # sent[k][high[k]].epoch
      <4>1. SUFFICES ASSUME i # high[k],
                            sent[k][high[k]].epoch = sent[k][i].epoch
                     PROVE  FALSE
        OBVIOUS
      <4>2. gap >= 0
        BY <1>3, <2>2, <2>4, <3>1, <4>1, JudgedInOrder
      <4>3. gap \in Int
        <5>1. streams[k] \in State /\ sent[k][i].count \in Nat
          BY <1>2, <1>6, <2>5, SentTypes DEF TypeOK, WatchTypeOK
        <5>2. SequenceOf(sent[k][i]) \in Int
          BY <5>1 DEF SequenceOf
        <5>3. QED BY <5>1, <5>2, GapIsInteger
      <4> HIDE DEF gap
      <4>4. QED BY <1>6, <2>5, <4>2, <4>3
    <3>5. ((from[k] + 1)..(high[k] - 1)) \ (seen[k] \cup {i})
            = ((from[k] + 1)..(high[k] - 1)) \ seen[k]
      BY <1>2, <2>2, <3>3
    <3>6. Lost(k)' = Lost(k)
      BY <1>3, <2>3, <3>2, <3>5, LostIsSum, LostAfter
    <3>7. high[k] <= i /\ high[k] \in seen'[k]
      BY <1>2, <2>2, <2>3, <3>3
    <3>8. QED BY <1>3, <2>3, <3>2, <3>3, <3>4, <3>6, <3>7 DEF LossIsReal
  <2>6. CASE ~late /\ skip
    <3>1. high'[k] = i /\ from'[k] = i /\ base'[k] = Lookup(missed', k, 0)
      BY <1>2, <1>5, <2>6
    <3>2. ((i + 1)..(i - 1)) \ seen'[k] = {}
      BY <1>2
    <3>3. Lost(k)' = 0
      <4>1. SumFunctionOnSet(Steps(k), {}) = 0
        BY SumOfNone
      <4>2. QED BY <1>3, <3>1, <3>2, <4>1, LostAfter
    <3>4. Lookup(missed', k, 0) - base'[k] = 0
      BY <1>3, <3>1
    <3>5. i <= i /\ i \in seen'[k]
      BY <1>2, <2>3
    <3>6. QED BY <2>3, <3>1, <3>3, <3>4, <3>5 DEF LossIsReal
  <2>7. CASE ~late /\ ~skip
    <3> DEFINE h == high[k]
               u == Lookup(missed, k, 0)
               v == Lookup(missed', k, 0)
               more == SumFunctionOnSet(Steps(k), (h + 1)..(i - 1))
    <3>1. RightRule(k) /\ ~misread[k]
      BY <1>3, <1>7, <1>8, <2>1, <2>7 DEF RightRule
    <3>2. high'[k] = i /\ from'[k] = from[k] /\ base'[k] = base[k]
      BY <1>2, <1>5, <2>7
    <3>3. /\ from[k] <= h /\ h <= newest[k] /\ h \in seen[k]
          /\ u - base[k] = Lost(k)
      BY <2>2, <2>4, <3>1 DEF LossIsReal
    <3>4. /\ h \in 1..Len(sent[k]) /\ h = newest[k]
          /\ i = h => gap = 0 - Exports(k, i) /\ Exports(k, i) \in Nat
          /\ i # h => h < i /\ gap = more
      BY <1>3, <1>8, <2>1, <2>2, <2>4, <2>7, <3>1, JudgedInOrder
    <3>5. v = u + gap /\ gap >= 0 /\ u \in Nat /\ v \in Nat /\ base[k] \in Nat
      BY <1>2, <1>3, <1>7, <2>7
    <3>6. Lost(k)' = SumFunctionOnSet(Steps(k),
                       ((from[k] + 1)..(i - 1)) \ (seen[k] \cup {i}))
      BY <1>3, <2>3, <3>2, LostAfter
    <3>7. Lost(k) \in Nat
      <4>1. from[k] \in Nat
        BY <1>2
      <4> HIDE DEF h
      <4>2. SumFunctionOnSet(Steps(k), ((from[k] + 1)..(h - 1)) \ seen[k])
              \in Nat
        BY <3>4, <4>1, LostIsNatural
      <4>3. QED BY <4>2, LostIsSum DEF h
    <3>8. v - base[k] = Lost(k)'
      <4>1. CASE i = h
        <5>1. gap = 0
          <6> HIDE DEF gap
          <6>1. QED BY <3>4, <3>5, <4>1
        <5>2. v = u
          BY <3>5, <5>1
        <5>3. ((from[k] + 1)..(i - 1)) \ (seen[k] \cup {i})
                = ((from[k] + 1)..(h - 1)) \ seen[k]
          BY <1>2, <4>1
        <5>4. Lost(k)' = Lost(k)
          BY <3>6, <5>3, LostIsSum
        <5>5. QED BY <3>3, <5>2, <5>4
      <4>2. CASE i # h
        <5>1. h < i /\ gap = more
          BY <3>4, <4>2
        <5>2. seen[k] \in SUBSET Nat /\ seen[k] \subseteq 1..h
          BY <1>2, <2>4, <3>4 DEF SentInOrder
        <5>3. Lost(k)' = Lost(k) + more
          <6> DEFINE f == from[k]
          <6>1. from[k] \in Nat
            BY <1>2
          <6>2. f \in Nat /\ f <= h /\ h < i /\ LastOf(h, seen[k])
            BY <3>3, <5>1, <5>2, <6>1 DEF LastOf
          <6>3. Lost(k)' = Between(k, f, i, seen[k] \cup {i})
            BY <3>6 DEF Between
          <6>4. Lost(k) = Between(k, f, h, seen[k])
            BY LostIsSum DEF Between
          <6> HIDE DEF f, h
          <6>5. Between(k, f, i, seen[k] \cup {i})
                  = Between(k, f, h, seen[k]) + more
            BY <3>4, <6>2, LostFurther
          <6> HIDE DEF more
          <6>6. QED BY <6>3, <6>4, <6>5
        <5> DEFINE l == Lost(k)
                   m == Lost(k)'
        <5>4. /\ u - base[k] = l /\ l \in Nat /\ m = l + gap /\ gap \in Int
          <6>1. gap \in Int
            <7>2. more \in Nat
              <8>1. (h + 1)..(i - 1) = ((h + 1)..(i - 1)) \ {}
                OBVIOUS
              <8>2. h \in Nat
                BY <1>2
              <8> HIDE DEF h
              <8>3. SumFunctionOnSet(Steps(k), ((h + 1)..(i - 1)) \ {}) \in Nat
                BY <8>2, LostIsNatural
              <8>4. QED BY <8>1, <8>3
            <7> HIDE DEF gap, more
            <7>3. QED BY <5>1, <7>2
          <6> HIDE DEF gap, more, l
          <6>2. QED BY <3>3, <3>7, <5>1, <5>3, <6>1 DEF l
        <5> DEFINE b == base[k]
        <5>5. /\ v = u + gap /\ u \in Nat /\ b \in Nat /\ u - b = l
              /\ l \in Nat /\ m = l + gap /\ gap \in Int
          BY <3>5, <5>4
        <5> HIDE DEF gap, u, v, l, m, b
        <5>6. v - b = m
          BY <5>5
        <5>7. QED BY <5>6 DEF v, m, b
      <4>3. QED BY <4>1, <4>2
    <3>9. from[k] <= i /\ i \in seen'[k] /\ i <= i
      BY <1>2, <2>2, <2>3, <3>3
    <3>10. QED BY <2>3, <3>2, <3>8, <3>9 DEF LossIsReal
  <2>8. QED BY <2>5, <2>6, <2>7
<1>11. QED BY <1>9, <1>10

(* Sending leaves what was lost, which is before the mark, as it was.      *)
LEMMA SendReal ==
  ASSUME IInv, NEW k \in Streams, NEW w \in Widths, Send(k, w),
         NEW x \in Streams, SentInOrder(x), LossIsReal(x)
  PROVE  LossIsReal(x)'
<1> DEFINE l == Len(sent[x])
           D == ((from[x] + 1)..(high[x] - 1)) \ seen[x]
<1>1. /\ UNCHANGED <<streams, missed, counting, newest, seen, inOrder, marks>>
      /\ \E m : sent' = [sent EXCEPT ![k] = Append(@, m)]
  BY DEF Send, watchVars
<1>2. /\ streams' = streams /\ missed' = missed /\ counting' = counting
      /\ newest' = newest /\ seen' = seen /\ inOrder' = inOrder
      /\ high' = high /\ from' = from /\ base' = base
      /\ misread' = misread
  BY <1>1 DEF marks
<1>3. SUFFICES ASSUME RightRule(x), inOrder[x], ~misread[x]
               PROVE  LossIsReal(x)'
  BY <1>2 DEF LossIsReal, RightRule
<1>4. /\ from[x] <= high[x] /\ high[x] <= newest[x] /\ high[x] \in seen[x]
      /\ \/ high[x] = newest[x]
         \/ sent[x][newest[x]].epoch # sent[x][high[x]].epoch
      /\ Lookup(missed, x, 0) - base[x] = Lost(x)
  BY <1>3 DEF LossIsReal
<1>5. /\ l \in Nat /\ high[x] \in 1..l /\ newest[x] \in 1..l
      /\ from[x] \in Nat
  <2>1. TypeOK /\ high[x] \in 1..l /\ newest[x] <= l
    BY <1>3 DEF IInv, MarkIsSent, RightRule, SentInOrder
  <2>2. l \in Nat /\ newest[x] \in Nat /\ high[x] \in Nat /\ from[x] \in Nat
    BY <2>1, SentTypes DEF TypeOK
  <2>3. QED BY <1>4, <2>1, <2>2
<1>6. \A j \in 1..l : j \in 1..Len(sent'[x]) /\ sent'[x][j] = sent[x][j]
  <2>1. sent \in [Streams -> Seq(Message)]
    BY DEF IInv, TypeOK
  <2>2. CASE x = k
    BY <1>1, <1>5, <2>1, <2>2
  <2>3. CASE x # k
    BY <1>1, <2>1, <2>3
  <2>4. QED BY <2>2, <2>3
<1>7. D \subseteq 1..l /\ IsFiniteSet(D)
  <2>1. from[x] + 1 \in Int /\ high[x] - 1 \in Int
    BY <1>5
  <2>2. IsFiniteSet((from[x] + 1)..(high[x] - 1))
    BY ONLY <2>1, IntervalIsFinite
  <2>3. D \in SUBSET ((from[x] + 1)..(high[x] - 1))
    OBVIOUS
  <2>4. D \subseteq 1..l
    BY <1>5
  <2>5. QED BY <2>2, <2>3, <2>4, FS_Subset
<1>8. Lost(x)' = SumFunctionOnSet(Steps(x)', D)
  BY <1>2 DEF Lost, Steps
<1>9. Lost(x) = SumFunctionOnSet(Steps(x), D)
  BY DEF Lost, Steps
<1> HIDE DEF D
<1>10. \A j \in D : Steps(x)'[j] = Steps(x)[j]
  BY <1>2, <1>6, <1>7 DEF Steps, Exports
<1>11. SumFunctionOnSet(Steps(x)', D) = SumFunctionOnSet(Steps(x), D)
  BY <1>7, <1>10, SumOfSame
<1>12. Lost(x)' = Lost(x)
  BY <1>8, <1>9, <1>11
<1>13. /\ sent'[x][newest[x]] = sent[x][newest[x]]
       /\ sent'[x][high[x]] = sent[x][high[x]]
  BY <1>5, <1>6
<1>14. QED BY <1>2, <1>4, <1>12, <1>13 DEF LossIsReal

LEMMA NextReal ==
  ASSUME ~Deferral, IInv, WithinHalf,
         \A k \in Streams : SentInOrder(k) /\ LossIsReal(k), [Next]_vars
  PROVE  \A k \in Streams : LossIsReal(k)'
<1>1. ASSUME UNCHANGED vars, NEW x \in Streams PROVE LossIsReal(x)'
  <2>1. UNCHANGED <<watchVars, network, marks>>
    BY <1>1 DEF vars
  <2>2. /\ streams' = streams /\ missed' = missed /\ counting' = counting
        /\ sent' = sent /\ newest' = newest /\ seen' = seen
        /\ inOrder' = inOrder /\ high' = high /\ from' = from /\ base' = base
        /\ misread' = misread
    BY <2>1 DEF watchVars, network, marks
  <2>3. QED BY <2>2 DEF LossIsReal, RightRule, Lost, Exports
<1>2. ASSUME NEW k \in Streams, Restart(k), NEW x \in Streams
      PROVE  LossIsReal(x)'
  <2>1. /\ streams' = streams /\ missed' = missed /\ counting' = counting
        /\ sent' = sent /\ newest' = newest /\ seen' = seen
        /\ inOrder' = inOrder /\ high' = high /\ from' = from /\ base' = base
        /\ misread' = misread
    BY <1>2 DEF Restart, watchVars, marks
  <2>2. QED BY <2>1 DEF LossIsReal, RightRule, Lost, Exports
<1>3. ASSUME NEW k \in Streams, NEW i \in 1..Len(sent[k]),
             NEW n \in Widths \cup {0}, Deliver(k, i, n)
      PROVE  \A x \in Streams : LossIsReal(x)'
  BY <1>3, DeliverReal
<1>4. CASE Next
  <2>1. PICK k \in Streams :
          \/ \E w \in Widths : Send(k, w)
          \/ Restart(k)
          \/ \E i \in 1..Len(sent[k]), n \in Widths \cup {0} :
               Deliver(k, i, n)
    BY <1>4 DEF Next
  <2>2. QED BY <1>2, <1>3, <2>1, SendReal
<1>5. QED BY <1>1, <1>4

(* SequenceWatch.observe's arithmetic and its rules for what is judged:    *)
(* of a stream whose messages arrive in the order sent, repeats of the     *)
(* newest among them, what is counted as missed since the mark was last    *)
(* set unjudged is exactly what was lost since, for every window, however  *)
(* many exporters, messages, wraps, losses and recognised restarts there   *)
(* are, as long as the counter can be read at all, the watch has taken no  *)
(* restart since for a message in step or after a gap, and data sets are   *)
(* counted when they arrive.                                               *)
THEOREM LossIsNoPhantom ==
  ASSUME ~Deferral
  PROVE  Spec /\ []WithinHalf => []NoPhantomLoss
<1> DEFINE All == \A k \in Streams : SentInOrder(k) /\ LossIsReal(k)
<1>1. Init => All
  <2>1. Init => \A k \in Streams : LossIsReal(k)
    BY DEF Init, WatchInit, LossIsReal, RightRule
  <2>2. QED BY <2>1, InitSent
<1>2. IInv /\ WithinHalf /\ All /\ [Next]_vars => All'
  BY NextSent, NextReal
<1>3. All => NoPhantomLoss
  BY DEF LossIsReal, NoPhantomLoss
<1> HIDE DEF All
<1>4. QED BY <1>1, <1>2, <1>3, IInvAlways, PTL DEF Spec
=============================================================================
