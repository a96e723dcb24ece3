--------------------------- MODULE SequenceWatch ----------------------------
(***************************************************************************)
(* sequence.SequenceWatch: deducing, from the counter an exporter stamps   *)
(* on its messages, how many exports never arrived.                        *)
(*                                                                         *)
(* A stream is an (exporter, domain, version) triple.  This module is the  *)
(* watch alone, its state and observe(); ExportStream puts an exporter and *)
(* a lossy network in front of it, SequenceFlood many sources.             *)
(***************************************************************************)
EXTENDS Integers, RecencyOrder

CONSTANTS Streams,
          ExporterOf,      \* stream -> its exporter
          VersionOf,       \* stream -> 5, 9 or 10
          SeqModulus,      \* the counter is SeqModulus wide and wraps
          MaxPlausibleGap, \* past this the counter restarted, not slipped
          MaxReorder,      \* how far back a late datagram can plausibly be
          ResyncAfter,     \* backward steps in a row before assuming a restart
          MaxStreams       \* tracked streams before the oldest is dropped

Exporters == {ExporterOf[k] : k \in Streams}
Modes == {"unknown", "messages", "records"}
Units == {"export messages", "flow records", "data records"}

ASSUME WatchAssumption ==
  /\ ExporterOf \in [Streams -> Exporters]
  /\ VersionOf \in [Streams -> {5, 9, 10}]
  /\ SeqModulus \in Nat \ {0} /\ MaxPlausibleGap \in Nat
  /\ MaxReorder \in Nat /\ ResyncAfter \in Nat \ {0}
  /\ MaxStreams \in Nat \ {0}

VARIABLES order,      \* streams tracked, least recently seen first
          streams,    \* stream -> what is remembered of its last message
          missed,     \* stream -> exports that never arrived
          units,      \* stream -> what those exports are counted in
          resyncs, backwards, evicted,
          warned,     \* exporters already announced, oldest first
          gapEvents   \* ExportGap events not yet taken

counters == <<resyncs, backwards, evicted>>
watchVars == <<order, streams, missed, units, counters, warned, gapEvents>>

State == [seq : 0..(SeqModulus - 1), records : Nat, mode : Modes,
          backwards : Nat]
GapEvent == [exporter : Exporters, stream : Streams, missed : Nat \ {0},
             unit : Units]

WatchInit == /\ order = <<>> /\ warned = <<>> /\ gapEvents = <<>>
             /\ streams = [k \in {} |-> 0]
             /\ missed = [k \in {} |-> 0] /\ units = [k \in {} |-> ""]
             /\ resyncs = 0 /\ backwards = 0 /\ evicted = 0

(* IPFIX counts option records too; v5 and v9 never count them.            *)
Records(k, flows, options) ==
  IF VersionOf[k] = 10 THEN flows + options ELSE flows

(* The two readings of the counter, and the distance from the expected     *)
(* value to the one seen, the short way round: negative means backward.    *)
ByMessages(s) == (s.seq + 1) % SeqModulus
(* Mutant: the sum of the records is not brought back into range.          *)
ByRecordsUnwrapped(s) == s.seq + s.records
ByRecords(s) == (s.seq + s.records) % SeqModulus
Expected(s) == IF s.mode = "messages" THEN ByMessages(s) ELSE ByRecords(s)
Half == SeqModulus \div 2
GapAt(s, seq) == ((seq - Expected(s) + Half) % SeqModulus) - Half

Unit(mode, version) ==
  IF mode = "messages" THEN "export messages"
  ELSE IF version = 5 THEN "flow records" ELSE "data records"

(* The entries of a table that survive an eviction.                        *)
Keep(f, S) == [x \in DOMAIN f \cap S |-> f[x]]

(* _evict: the streams outside S go from the other tables too.             *)
(* Mutant: their units stay.                                               *)
EvictCountsOnly(S) == missed' = Keep(missed, S) /\ UNCHANGED units
Evict(S) == missed' = Keep(missed, S) /\ units' = Keep(units, S)

TrimWarned == warned' = Newest(warned, MaxStreams)

(* The first message of a stream.  Only here are the tables trimmed: the   *)
(* least recently seen streams go, with everything keyed by them.          *)
Track(k, seq, n) ==
  LET kept == Newest(Append(order, k), MaxStreams)
      now  == [x \in DOMAIN streams \cup {k} |->
                 IF x = k THEN [seq |-> seq, records |-> n, mode |-> "unknown",
                                backwards |-> 0]
                 ELSE streams[x]]
  IN  /\ k \notin DOMAIN streams
      /\ order' = kept
      /\ streams' = Keep(now, ToSet(kept))
      /\ Evict(ToSet(kept))
      /\ evicted' = evicted + Len(order) + 1 - Len(kept)
      /\ TrimWarned
      /\ UNCHANGED <<resyncs, backwards, gapEvents>>

(* Every message leaves its stream the most recently seen.                 *)
(* Mutant: only the first does.                                            *)
RememberUntouched(k, s) == /\ streams' = [streams EXCEPT ![k] = s]
                           /\ UNCHANGED <<order, evicted>>
Remember(k, s) == /\ streams' = [streams EXCEPT ![k] = s]
                  /\ order' = MoveToEnd(order, k)
                  /\ UNCHANGED evicted

(* What a message that moves the mark leaves behind.                       *)
(* Mutants: the record count is that of an older message; the rule goes.   *)
MovedKeepingRecords(s, seq, n) ==
  [s EXCEPT !.seq = seq, !.backwards = 0]
MovedForgettingRule(s, seq, n) ==
  [seq |-> seq, records |-> n, mode |-> "unknown", backwards |-> 0]
Moved(s, seq, n) == [s EXCEPT !.seq = seq, !.records = n, !.backwards = 0]

(* No rule yet.  The readings must differ for the message to teach one;    *)
(* taught or not, it becomes the message the next is judged against.       *)
Learn(k, seq, n) ==
  LET s == streams[k]
      taught == IF ByMessages(s) = ByRecords(s) THEN "unknown"
                ELSE IF seq = ByMessages(s) THEN "messages"
                ELSE IF seq = ByRecords(s) THEN "records"
                ELSE "unknown"
  IN  /\ s.mode = "unknown"
      /\ Remember(k, [s EXCEPT !.seq = seq, !.records = n, !.mode = taught])
      /\ UNCHANGED <<missed, units, resyncs, backwards, warned, gapEvents>>

(* A repeat or a reordered datagram: near enough, and not yet a run of     *)
(* them.  The mark stays where it is.                                      *)
(* Mutant: no run of them is long enough.                                  *)
IsLateForever(s, seq) == GapAt(s, seq) >= -MaxReorder
IsLate(s, seq) ==
  GapAt(s, seq) >= -MaxReorder /\ s.backwards + 1 < ResyncAfter

(* Mutant: the mark goes back to the late message.                         *)
HeldBackTo(s, seq) == [s EXCEPT !.backwards = @ + 1, !.seq = seq]
HeldBack(s, seq) == [s EXCEPT !.backwards = @ + 1]

Late(k, seq) ==
  LET s == streams[k]
  IN  /\ s.mode # "unknown" /\ GapAt(s, seq) < 0 /\ IsLate(s, seq)
      /\ Remember(k, HeldBack(s, seq))
      /\ backwards' = backwards + 1
      /\ UNCHANGED <<missed, units, resyncs, warned, gapEvents>>

(* A long step back, a run of short ones, or an implausible step forward:  *)
(* the counter restarted, and the message is the new base.                 *)
Resync(k, seq, n) ==
  LET s == streams[k]
  IN  /\ s.mode # "unknown"
      /\ \/ GapAt(s, seq) < 0 /\ ~IsLate(s, seq)
         \/ GapAt(s, seq) > MaxPlausibleGap
      /\ Remember(k, Moved(s, seq, n))
      /\ resyncs' = resyncs + 1
      /\ UNCHANGED <<missed, units, backwards, warned, gapEvents>>

InStep(k, seq, n) ==
  LET s == streams[k]
  IN  /\ s.mode # "unknown" /\ GapAt(s, seq) = 0
      /\ Remember(k, Moved(s, seq, n))
      /\ UNCHANGED <<missed, units, resyncs, backwards, warned, gapEvents>>

IsGap(gap) == gap > 0 /\ gap <= MaxPlausibleGap

(* An exporter's first gap is announced.                                   *)
(* Mutant: every gap is.                                                   *)
AnnounceAlways(e, event) == /\ gapEvents' = Append(gapEvents, event)
                            /\ warned' = Append(warned, e)
AnnounceOnce(e, event) ==
  IF e \in ToSet(warned) THEN UNCHANGED <<warned, gapEvents>>
  ELSE warned' = Append(warned, e) /\ gapEvents' = Append(gapEvents, event)

(* A gap, counted for the stream.                                          *)
Gap(k, seq, n) ==
  LET s == streams[k]
      gap == GapAt(s, seq)
      unit == Unit(s.mode, VersionOf[k])
  IN  /\ s.mode # "unknown" /\ IsGap(gap)
      /\ Remember(k, Moved(s, seq, n))
      /\ missed' = [x \in DOMAIN missed \cup {k} |->
                      Lookup(missed, x, 0) + IF x = k THEN gap ELSE 0]
      /\ units' = [x \in DOMAIN units \cup {k} |->
                     IF x = k THEN unit ELSE units[x]]
      /\ AnnounceOnce(ExporterOf[k], [exporter |-> ExporterOf[k], stream |-> k,
                                      missed |-> gap, unit |-> unit])
      /\ UNCHANGED <<resyncs, backwards>>

Observe(k, seq, n) ==
  \/ Track(k, seq, n)
  \/ k \in DOMAIN streams /\ \/ Learn(k, seq, n)
                             \/ Late(k, seq)
                             \/ Resync(k, seq, n)
                             \/ InStep(k, seq, n)
                             \/ Gap(k, seq, n)

TakeGapEvents ==
  /\ gapEvents' = <<>>
  /\ UNCHANGED <<order, streams, missed, units, counters, warned>>

-----------------------------------------------------------------------------
WatchTypeOK ==
  /\ order \in Seq(Streams)
  /\ streams \in [ToSet(order) -> State]
  /\ missed \in [DOMAIN missed -> Nat \ {0}] /\ DOMAIN missed \subseteq Streams
  /\ units \in [DOMAIN missed -> Units]
  /\ resyncs \in Nat /\ backwards \in Nat /\ evicted \in Nat
  /\ warned \in Seq(Exporters)
  /\ gapEvents \in Seq(GapEvent)
=============================================================================
