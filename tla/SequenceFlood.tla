--------------------------- MODULE SequenceFlood ----------------------------
(***************************************************************************)
(* One SequenceWatch hearing from more sources than it has room for.       *)
(* Source addresses are forgeable, so any stream may send any counter      *)
(* value with any number of records, at any moment.                        *)
(***************************************************************************)
EXTENDS SequenceWatch

CONSTANTS Seqs,         \* bound: the counter values sources send
          RecordCounts, \* bound: the record counts they send
          MaxObserved   \* bound: messages one behaviour may deliver

ASSUME FloodAssumption == /\ Seqs \subseteq 0..(SeqModulus - 1)
                          /\ RecordCounts \subseteq Nat
                          /\ MaxObserved \in Nat

VARIABLES observed,       \* messages delivered
          heard,          \* streams that ever sent
          since,          \* stream -> other streams seen since it last was
          announcements   \* exporter -> ExportGap events ever raised for it

floodVars == <<watchVars, observed, heard, since, announcements>>

FloodInit == /\ WatchInit
             /\ observed = 0
             /\ heard = {} /\ since = [k \in Streams |-> {}]
             /\ announcements = [e \in Exporters |-> 0]

Hear(k, seq, n) ==
  /\ observed < MaxObserved
  /\ observed' = observed + 1
  /\ heard' = heard \cup {k}
  /\ since' = [x \in Streams |-> IF x = k THEN {} ELSE since[x] \cup {k}]
  /\ Observe(k, seq, n)
  /\ announcements' = [e \in Exporters |->
                         announcements[e]
                         + IF gapEvents' # gapEvents /\ e = ExporterOf[k]
                           THEN 1 ELSE 0]

Take == /\ gapEvents # <<>>
        /\ TakeGapEvents
        /\ UNCHANGED <<observed, heard, since, announcements>>

FloodNext == \/ \E k \in Streams, seq \in Seqs, n \in RecordCounts :
                  Hear(k, seq, n)
             \/ Take

FloodSpec == FloodInit /\ [][FloodNext]_floodVars

-----------------------------------------------------------------------------
FloodTypeOK == /\ WatchTypeOK
               /\ observed \in Nat
               /\ heard \subseteq Streams
               /\ since \in [Streams -> SUBSET Streams]
               /\ announcements \in [Exporters -> Nat]

(* A count of missed exports never outlives the stream it is about: what   *)
(* is evicted is evicted from every table, so a stream heard from again    *)
(* starts clean, and no table passes the ceiling (sequence.py:58-64).      *)
TablesTogether ==
  /\ NoRepeats(order) /\ Len(order) <= MaxStreams
  /\ DOMAIN streams = ToSet(order)
  /\ DOMAIN missed \subseteq DOMAIN streams
  /\ DOMAIN units = DOMAIN missed

(* The table of announced exporters is trimmed only when a new stream      *)
(* arrives, yet it never passes twice the ceiling: between two trims only  *)
(* exporters of tracked streams can join it.                               *)
WarnedBounded == Len(warned) <= 2 * MaxStreams /\ NoRepeats(warned)

(* Nothing is reported before a stream has taught its rule, and what is    *)
(* reported is in the unit of that rule, for as long as it is reported.    *)
GapsHaveARule ==
  \A k \in DOMAIN missed : /\ streams[k].mode # "unknown"
                           /\ units[k] = Unit(streams[k].mode, VersionOf[k])

(* Whoever reads only the events still learns of every losing exporter,    *)
(* and, unless the ceiling was met, hears of each one once.                *)
LossAnnounced ==
  /\ \A k \in DOMAIN missed : announcements[ExporterOf[k]] > 0
  /\ evicted = 0 => \A e \in Exporters : announcements[e] <= 1

(* A flood of other sources does not make the watch forget a stream heard  *)
(* from recently: it is tracked while fewer than MaxStreams others were    *)
(* heard from since.                                                       *)
ActiveStreamKept ==
  \A k \in heard : Cardinality(since[k]) < MaxStreams => k \in DOMAIN streams
=============================================================================
