---------------------------- MODULE ExportStream ----------------------------
(***************************************************************************)
(* Exporters, each stamping its messages with its counter, a network that  *)
(* loses, repeats and delays them, exporters that restart, and the         *)
(* SequenceWatch that has to tell these apart from the counter alone.      *)
(*                                                                         *)
(* A message is named by its place in what its exporter sent.  A message   *)
(* never delivered is a lost one.                                          *)
(***************************************************************************)
EXTENDS SequenceWatch

CONSTANTS Starts,       \* where a counter may start
          Widths,       \* data records a message may carry
          Deferral,     \* whether a data set may arrive before its template
          MaxSent,      \* bound: messages an exporter sends
          MaxRestarts,  \* bound: restarts of an exporter
          MaxDelivered, \* bound: messages the network delivers
          MaxLate       \* 0: in order.  1: and repeats of the newest.
                        \* n: and up to n - 1 places late

(* A datagram has no room for half a counter's range of records.           *)
ASSUME StreamAssumption ==
  /\ Starts \subseteq 0..(SeqModulus - 1)
  /\ Widths \subseteq 0..(SeqModulus - Half - 1)
  /\ Deferral \in BOOLEAN
  /\ {MaxSent, MaxRestarts, MaxDelivered, MaxLate} \subseteq Nat

VARIABLES counting,   \* stream -> what its exporter's counter truly counts
          counter,    \* stream -> its exporter's counter, as if it never wrapped
          epoch,      \* stream -> its exporter's restarts
          sent,       \* stream -> the messages sent
          newest,     \* stream -> the latest message delivered, 0 before any
          seen,       \* stream -> the messages delivered
          inOrder,    \* stream -> none of them was overtaken by another
          delivered   \* messages delivered to the watch, all streams

(* What the watch's mark stands for: `high` is the message the mark is at, *)
(* `from` the one it was last set at without being judged, `base` the      *)
(* exports already counted as missed then, `accepted` the exports in the   *)
(* messages the mark has left since, `misread` whether the watch has since *)
(* taken a restart of the exporter for a message in step or after a gap,   *)
(* and `row` how many messages in a row arrived in the order sent.         *)
VARIABLES high, from, base, accepted, misread, row

network == <<counting, counter, epoch, sent, newest, seen, inOrder, delivered>>
marks == <<high, from, base, accepted, misread, row>>
vars == <<watchVars, network, marks>>

Message == [count : Nat, width : Widths, epoch : 0..MaxRestarts]

(* The sequence number in the header.                                      *)
SequenceOf(m) == m.count % SeqModulus

Init == /\ WatchInit
        /\ counting \in [Streams -> {"messages", "records"}]
        /\ counter \in [Streams -> Starts]
        /\ epoch = [k \in Streams |-> 0]
        /\ sent = [k \in Streams |-> <<>>]
        /\ newest = [k \in Streams |-> 0]
        /\ seen = [k \in Streams |-> {}]
        /\ inOrder = [k \in Streams |-> TRUE]
        /\ delivered = 0
        /\ high = [k \in Streams |-> 0] /\ from = [k \in Streams |-> 0]
        /\ base = [k \in Streams |-> 0] /\ accepted = [k \in Streams |-> 0]
        /\ misread = [k \in Streams |-> FALSE]
        /\ row = [k \in Streams |-> 0]

(* How far message i of stream k moved its exporter's counter.             *)
Exports(k, i) == IF counting[k] = "messages" THEN 1 ELSE sent[k][i].width

Send(k, w) ==
  /\ Len(sent[k]) < MaxSent
  /\ sent' = [sent EXCEPT ![k] = Append(@, [count |-> counter[k], width |-> w,
                                            epoch |-> epoch[k]])]
  /\ counter' = [counter EXCEPT ![k] =
                    @ + IF counting[k] = "messages" THEN 1 ELSE w]
  /\ UNCHANGED <<watchVars, counting, epoch, newest, seen, inOrder, delivered,
                 marks>>

Restart(k) ==
  /\ epoch[k] < MaxRestarts
  /\ epoch' = [epoch EXCEPT ![k] = @ + 1]
  /\ counter' = [counter EXCEPT ![k] = 0]
  /\ UNCHANGED <<watchVars, counting, sent, newest, seen, inOrder, delivered,
                 marks>>

(* Message i reaches the watch with n of its records counted: all of them, *)
(* or none when they were deferred.  The mark is set unjudged when the     *)
(* watch itself takes no gap from the message: the first of a stream, one  *)
(* before the rule is known, or one it resynchronises on.                  *)
Deliver(k, i, n) ==
  LET m == sent[k][i]
      late == backwards' # backwards
      unjudged == \/ k \notin DOMAIN streams \/ streams[k].mode = "unknown"
                  \/ resyncs' # resyncs
      next == i = newest[k] + 1 /\ newest[k] > 0
              /\ sent[k][newest[k]].epoch = m.epoch
  IN  /\ delivered < MaxDelivered
      /\ i + MaxLate > newest[k]
      /\ n \in {m.width} \cup (IF Deferral THEN {0} ELSE {})
      /\ Observe(k, SequenceOf(m), n)
      /\ delivered' = delivered + 1
      /\ newest' = [newest EXCEPT ![k] = IF i > @ THEN i ELSE @]
      /\ seen' = [seen EXCEPT ![k] = @ \cup {i}]
      /\ inOrder' = [inOrder EXCEPT ![k] = @ /\ i >= newest[k]]
      /\ row' = [row EXCEPT ![k] = IF next THEN @ + 1
                                   ELSE IF i < newest[k] THEN -1 ELSE 0]
      /\ IF late THEN UNCHANGED <<high, from, base, accepted, misread>>
         ELSE /\ high' = [high EXCEPT ![k] = i]
              /\ from' = [from EXCEPT ![k] = IF unjudged THEN i ELSE @]
              /\ base' = [base EXCEPT ![k] =
                            IF unjudged THEN Lookup(missed', k, 0) ELSE @]
              /\ accepted' = [accepted EXCEPT ![k] =
                   IF unjudged THEN 0 ELSE @ + Exports(k, high[k])]
              /\ misread' = [misread EXCEPT ![k] =
                   ~unjudged /\ (@ \/ sent[k][high[k]].epoch # m.epoch)]
      /\ UNCHANGED <<counting, counter, epoch, sent>>

Next == \E k \in Streams :
          \/ \E w \in Widths : Send(k, w)
          \/ Restart(k)
          \/ \E i \in 1..Len(sent[k]), n \in Widths \cup {0} :
               Deliver(k, i, n)

Spec == Init /\ [][Next]_vars

-----------------------------------------------------------------------------
TypeOK == /\ WatchTypeOK
          /\ counting \in [Streams -> {"messages", "records"}]
          /\ counter \in [Streams -> Nat]
          /\ epoch \in [Streams -> 0..MaxRestarts]
          /\ sent \in [Streams -> Seq(Message)]
          /\ newest \in [Streams -> Nat] /\ high \in [Streams -> Nat]
          /\ from \in [Streams -> Nat] /\ base \in [Streams -> Nat]
          /\ row \in [Streams -> Nat \cup {-1}]
          /\ inOrder \in [Streams -> BOOLEAN] /\ delivered \in Nat
          /\ seen \in [Streams -> SUBSET Nat]
          /\ accepted \in [Streams -> Nat]
          /\ misread \in [Streams -> BOOLEAN]

(* The rule learned is the exporter's own.  When the message after the     *)
(* first is lost the wrong reading can land on the next, and is kept.      *)
RightRule(k) == k \in DOMAIN streams /\ streams[k].mode = counting[k]

(* Under the exporter's own rule every export the counter passes is either *)
(* in a message that was the mark or counted as missed, exactly once: late *)
(* arrivals and repeats take nothing back and are not counted again.  It   *)
(* says nothing of a mark that passed a restart without resynchronising    *)
(* (sequence.py:126), which is what RestartIsNotLoss below is about.       *)
LossAccounted ==
  \A k \in Streams : RightRule(k) /\ ~misread[k] =>
    accepted[k] + (Lookup(missed, k, 0) - base[k])
      = sent[k][high[k]].count - sent[k][from[k]].count

(* The exports of the messages between the last unjudged mark and the mark *)
(* now that never arrived.                                                 *)
Lost(k) == SumFunctionOnSet([i \in 1..Len(sent[k]) |-> Exports(k, i)],
                            ((from[k] + 1)..(high[k] - 1)) \ seen[k])

(* With messages arriving in order, repeats of the newest included, what   *)
(* is counted as missed is what was lost: no more, no less, whatever the   *)
(* wraps and losses on the way and whatever restarts the watch recognised. *)
(* A restart it takes for a gap (sequence.py:126-134) it counts as a loss: *)
(* RestartIsNotLoss below.                                                 *)
NoPhantomLoss ==
  \A k \in Streams : RightRule(k) /\ inOrder[k] /\ ~misread[k] =>
    Lookup(missed, k, 0) - base[k] = Lost(k)

(* "one reading lands exactly on the next message, and that reading        *)
(* becomes the rule" (sequence.py:30): two messages sent one after the     *)
(* other teach the exporter's own rule, and teach none only when the       *)
(* readings agree on them, as they do on one record.  It takes a message   *)
(* lost between the two, or a data set that arrived before its template,   *)
(* to teach the other rule.                                                *)
NeighboursTeach ==
  [][\A k \in DOMAIN streams \cap DOMAIN streams' :
       LET m == sent[k][high[k]]
       IN  /\ streams[k].mode = "unknown" /\ streams[k].records = m.width
           /\ high'[k] = high[k] + 1 /\ sent[k][high'[k]].epoch = m.epoch
           => streams'[k].mode =
                IF (m.width - 1) % SeqModulus = 0 THEN "unknown"
                ELSE counting[k]]_vars

(* An exporter that restarted is followed again within ResyncAfter         *)
(* messages, whatever its counter was ("otherwise every later message      *)
(* reads as stale forever", sequence.py:119).                              *)
RestartAdopted ==
  \A k \in Streams : RightRule(k) /\ row[k] >= ResyncAfter - 1 =>
    high[k] = newest[k]

(* README.md:493, "Repeats, reordering and counter restarts are recognised *)
(* and are not losses": a stream of which every message arrived, in        *)
(* whatever order, learned with its own rule and restarted by nobody, has  *)
(* no missed exports.                                                      *)
ReorderedIsNotLoss ==
  \A k \in DOMAIN missed :
    RightRule(k) /\ epoch[k] = 0 => seen[k] # 1..newest[k]

(* README.md:493 again: a stream of which every message arrived, and       *)
(* in order, learned with its own rule, has no missed exports, though its  *)
(* exporter restarted.                                                     *)
RestartIsNotLoss ==
  \A k \in DOMAIN missed :
    RightRule(k) /\ inOrder[k] => seen[k] # 1..newest[k]

(* events.py:27, "A gap means loss between the exporter and here [...]. It *)
(* is never a decoding failure": a stream of which every message arrived   *)
(* in order has no missed exports, though a data set of it arrived before  *)
(* its template.                                                           *)
DeferredIsNotLoss == ReorderedIsNotLoss
=============================================================================
