------------------------------ MODULE Decoder -------------------------------
(***************************************************************************)
(* decoder.Decoder: decode() taking one datagram through the parser, the   *)
(* sequence watch and the sampling watch, the counters it keeps, and the   *)
(* one bounded queue that the events of all of them end up in.             *)
(*                                                                         *)
(* decode() is one thread's sequential code; its steps are actions here    *)
(* because each calls one operation of one component, and because an       *)
(* exception can end it between any two of them.  The sets of a datagram   *)
(* are chosen as the walk reaches them.                                    *)
(***************************************************************************)
EXTENDS Integers, RecencyOrder

CONSTANTS Sources,       \* the spellings of addresses datagrams come from
          KeyOf,         \* spelling -> the one name of its device
          Domains, Tids, Fields, NoEntry,
          MaxTemplates, MaxPending,          \* the template store's ceilings
          SeqModulus, MaxPlausibleGap, MaxReorder, ResyncAfter, MaxStreams,
          MaxDomains,                        \* the sampling watch's ceiling
          MaxEvents,                         \* MAX_PENDING_EVENTS
          MaxRatio,      \* the largest quotient a float can hold
          OptionSets,    \* bound: the option records of a data set, in order
          HeaderRates,   \* bound: the rates v5 headers carry
          Versions,      \* bound: the versions exporters speak
          Seqs,          \* bound: the counter values headers carry
          MaxRecords,    \* bound: the flows of a data set
          MaxSets,       \* bound: the sets of a datagram
          MaxPackets     \* bound: the datagrams of a behaviour

Exporters == {KeyOf[a] : a \in Sources}
TemplateKeys == Exporters \X Domains \X Tids
Streams == Exporters \X Domains \X {5, 9, 10}

VARIABLES tOrder, held, learned, tEvicted, tDropped, tEvents,
          wOrder, streams, missed, units, resyncs, backwards, wEvicted, warned,
          gapEvents,
          sOrder, rates, sEvicted, changes

T == INSTANCE TemplateStore
       WITH Keys <- TemplateKeys, order <- tOrder, evicted <- tEvicted,
            dropped <- tDropped, events <- tEvents
W == INSTANCE SequenceWatch
       WITH ExporterOf <- [k \in Streams |-> k[1]],
            VersionOf <- [k \in Streams |-> k[3]],
            order <- wOrder, evicted <- wEvicted
S == INSTANCE SamplingWatch
       WITH order <- sOrder, ratesEvicted <- sEvicted

ASSUME DecoderAssumption ==
  /\ KeyOf \in [Sources -> Exporters]
  /\ {MaxTemplates, SeqModulus, ResyncAfter, MaxStreams, MaxDomains, MaxEvents}
       \subseteq Nat \ {0}
  /\ {MaxPending, MaxPlausibleGap, MaxReorder, MaxRatio,
      MaxRecords, MaxSets, MaxPackets} \subseteq Nat
  /\ NoEntry \notin T!Entries
  /\ OptionSets \subseteq Seq(S!OptionRecord) /\ HeaderRates \subseteq Nat
  /\ Versions \subseteq {5, 9, 10} /\ Seqs \subseteq 0..(SeqModulus - 1)

VARIABLES tracking, \* which of the watches the Decoder was built with
          queue,    \* events not yet taken
          stats,
          pc,       \* where decode() is
          msg,      \* the datagram in hand
          sets      \* sets of it walked so far

(* What the program does not store: the events raised so far, those the    *)
(* consumer took and what it knows of each layout and rate from them, the  *)
(* calls that ended in an exception, and the losses that were forgotten    *)
(* with the stream they were counted for.                                  *)
VARIABLES raised, taken, toldLayout, toldRate, escaped, forgotten

storeVars == <<tOrder, held, learned, tEvicted, tDropped, tEvents>>
watchVars == <<wOrder, streams, missed, units, resyncs, backwards, wEvicted,
               warned, gapEvents>>
samplingVars == <<sOrder, rates, sEvicted, changes>>
components == <<storeVars, watchVars, samplingVars>>
ghosts == <<toldLayout, toldRate, taken>>
vars == <<components, tracking, queue, stats, pc, msg, sets, raised, ghosts,
          escaped, forgotten>>

Counters == {"packets", "malformed", "unsupported", "parse_errors", "messages",
             "flows", "option_records", "templates_new", "deferred",
             "missed_exports", "events_dropped"}
NoMessage == [exporter |-> "", domain |-> "", version |-> 0, seq |-> 0,
              flows |-> 0, options |-> <<>>]

Init == /\ T!StoreInit /\ W!WatchInit /\ S!SamplingInit
        /\ tracking \in SUBSET {"sequence", "sampling"}
        /\ queue = <<>> /\ stats = [c \in Counters |-> 0]
        /\ pc = "idle" /\ msg = NoMessage /\ sets = 0
        /\ raised = 0 /\ taken = 0 /\ escaped = 0 /\ forgotten = 0
        /\ toldLayout = [k \in TemplateKeys |-> NoEntry]
        /\ toldRate = [k \in S!Keys |-> 1]

(* _exporter_key: one name for a device, however its address is spelled.   *)
(* Mutant: the spelling is the name.                                       *)
AsSpelled(a) == a
ExporterKey(a) == KeyOf[a]

(* self.stats[c] += amounts[c], for the counters named.                    *)
Count(amounts) ==
  stats' = [c \in Counters |-> stats[c] + Lookup(amounts, c, 0)]

(* The amounts, and n of counter c.                                        *)
And(amounts, c, n) ==
  [x \in DOMAIN amounts \cup {c} |-> IF x = c THEN n ELSE amounts[x]]

(* Mutant of Queue: what is dropped is not counted.                        *)
QueueUncounted(es, amounts) ==
  /\ queue' = Newest(queue \o es, MaxEvents)
  /\ Count(amounts)

(* _queue: past the ceiling the oldest events go, each of them counted.    *)
Queue(es, amounts) ==
  LET over == Len(queue) + Len(es) - MaxEvents
  IN  /\ queue' = Newest(queue \o es, MaxEvents)
      /\ Count(And(amounts, "events_dropped", IF over > 0 THEN over ELSE 0))

Tagged(kind, es) == [i \in 1..Len(es) |-> [kind |-> kind, event |-> es[i]]]

(* _fail, behind events that come before it: the failure is an event, and  *)
(* counted as malformed unless it has a counter of its own.                *)
(* Mutant: it is counted as malformed in any case.                         *)
ExtraAlways(counted) == 1
Extra(counted) == IF counted THEN 0 ELSE 1
FailAfter(es, e, reason, counted, amounts) ==
  LET error == [kind |-> "error", event |-> [exporter |-> e, reason |-> reason]]
  IN  Queue(Append(es, error), And(amounts, "malformed", Extra(counted)))

-----------------------------------------------------------------------------
(* Fewer bytes than a version, or than the header of its version.          *)
Short(a) ==
  /\ pc = "idle" /\ stats["packets"] < MaxPackets
  /\ FailAfter(<<>>, ExporterKey(a), "short", FALSE, [packets |-> 1])
  /\ raised' = raised + 1
  /\ UNCHANGED <<components, tracking, pc, msg, sets, ghosts, escaped,
                 forgotten>>

Unsupported(a) ==
  /\ pc = "idle" /\ stats["packets"] < MaxPackets
  /\ FailAfter(<<>>, ExporterKey(a), "unsupported", TRUE,
               [packets |-> 1, unsupported |-> 1])
  /\ raised' = raised + 1
  /\ UNCHANGED <<components, tracking, pc, msg, sets, ghosts, escaped,
                 forgotten>>

(* A header that can be read.  What v5 says is all in its fixed layout, and *)
(* the rate in its header becomes an option record when it is a sampled    *)
(* one; v9 and IPFIX go on to walk the sets.                               *)
Header(a, d, v, seq) ==
  /\ pc = "idle" /\ stats["packets"] < MaxPackets
  /\ pc' = "walk" /\ sets' = 0
  /\ \/ v \in {9, 10} /\ msg' = [NoMessage EXCEPT !.exporter = ExporterKey(a),
                                   !.domain = d, !.version = v, !.seq = seq]
     \/ v = 5 /\ \E n \in 0..MaxRecords, rate \in HeaderRates :
          msg' = [exporter |-> ExporterKey(a), domain |-> d, version |-> 5,
                  seq |-> seq, flows |-> n,
                  options |-> IF rate > 1
                    THEN <<[interval |-> rate, sampler |-> 0, every |-> 0,
                            space |-> S!Absent, size |-> 0, population |-> 0]>>
                    ELSE <<>>]
  /\ Count([packets |-> 1])
  /\ UNCHANGED <<components, tracking, queue, raised, ghosts, escaped,
                 forgotten>>

NextSet == /\ pc = "walk" /\ msg.version # 5 /\ sets < MaxSets
           /\ sets' = sets + 1
           /\ UNCHANGED <<watchVars, samplingVars, tracking, queue, pc,
                          ghosts, escaped, forgotten>>

(* A template, of data or of options, that is all there.                   *)
TemplateSet(tid, entry) ==
  /\ NextSet
  /\ T!Put(<<msg.exporter, msg.domain, tid>>, entry)
  /\ Count([templates_new |-> learned' - learned])
  /\ raised' = raised + learned' - learned
  /\ UNCHANGED msg

(* A data set, cut up by the template held: into flows, or into option    *)
(* records, as the template says; without a template it is counted only.    *)
DataSet(tid) ==
  LET k == <<msg.exporter, msg.domain, tid>>
  IN  /\ NextSet
      /\ T!Get(k)
      /\ \/ /\ k \notin DOMAIN held
            /\ Count([deferred |-> 1]) /\ UNCHANGED msg
         \/ /\ k \in DOMAIN held /\ ~held[k].options
            /\ \E n \in 0..MaxRecords : msg' = [msg EXCEPT !.flows = @ + n]
            /\ UNCHANGED stats
         \/ /\ k \in DOMAIN held /\ held[k].options
            /\ \E recs \in OptionSets :
                 msg' = [msg EXCEPT !.options = @ \o recs]
            /\ UNCHANGED stats
      /\ UNCHANGED raised

(* The templates a failing datagram taught.  Mutant: they are not news.    *)
NothingLearned == <<>>
Learned == Tagged("template", tEvents)

(* The parser raised.  What it had already learned is handed over first.   *)
Malformed ==
  /\ pc = "walk"
  /\ FailAfter(Learned, msg.exporter, "malformed", TRUE, [parse_errors |-> 1])
  /\ T!TakeEvents
  /\ raised' = raised + 1
  /\ pc' = "idle" /\ msg' = NoMessage
  /\ UNCHANGED <<watchVars, samplingVars, tracking, sets, ghosts, escaped,
                 forgotten>>

Parsed ==
  /\ pc = "walk"
  /\ Queue(Tagged("template", tEvents),
           [messages |-> 1, flows |-> msg.flows,
            option_records |-> Len(msg.options)])
  /\ T!TakeEvents
  /\ pc' = IF "sequence" \in tracking THEN "observe" ELSE "note"
  /\ UNCHANGED <<watchVars, samplingVars, tracking, msg, sets, raised, ghosts,
                 escaped, forgotten>>

-----------------------------------------------------------------------------
(* The gap observe returned.  Mutant: the total is what the watch still    *)
(* holds, so that the losses of a stream it evicts are taken back.         *)
GapStillHeld(k) == SumFunction(missed') - SumFunction(missed)
GapOf(k) == Lookup(missed', k, 0) - Lookup(missed, k, 0)

Observe ==
  LET k == <<msg.exporter, msg.domain, msg.version>>
  IN  /\ pc = "observe"
      /\ W!Observe(k, msg.seq, W!Records(k, msg.flows, Len(msg.options)))
      /\ Count([missed_exports |-> GapOf(k)])
      /\ raised' = raised + Len(gapEvents') - Len(gapEvents)
      /\ forgotten' = forgotten
           + SumFunctionOnSet(missed, DOMAIN missed \ DOMAIN missed')
      /\ pc' = "gaps"
      /\ UNCHANGED <<storeVars, samplingVars, tracking, queue, msg, sets,
                     ghosts, escaped>>

DrainGaps ==
  /\ pc = "gaps"
  /\ Queue(Tagged("gap", gapEvents), [packets |-> 0])
  /\ W!TakeGapEvents
  /\ pc' = "note"
  /\ UNCHANGED <<storeVars, samplingVars, tracking, msg, sets, raised, ghosts,
                 escaped, forgotten>>

(* Python divides two integers into a float, or raises OverflowError when  *)
(* the quotient is past what one can hold.                                 *)
Overflows(rec) ==
  /\ rec.interval = 0 /\ rec.sampler = 0
  /\ \/ /\ rec.every > 0 /\ rec.space # S!Absent
        /\ (rec.every + rec.space) \div rec.every > MaxRatio
     \/ /\ rec.every = 0 \/ rec.space = S!Absent
        /\ rec.size > 0 /\ rec.population \div rec.size > MaxRatio

ToNote == pc = "note" /\ "sampling" \in tracking /\ msg.options # <<>>

Note ==
  /\ ToNote /\ ~Overflows(Head(msg.options))
  /\ S!Note(<<msg.exporter, msg.domain>>, Head(msg.options))
  /\ msg' = [msg EXCEPT !.options = Tail(@)]
  /\ raised' = raised + Len(changes') - Len(changes)
  /\ UNCHANGED <<storeVars, watchVars, tracking, queue, stats, pc, sets,
                 ghosts, escaped, forgotten>>

(* decode() itself raises, with changes already noted left where they are. *)
Raise ==
  /\ ToNote /\ Overflows(Head(msg.options))
  /\ escaped' = escaped + 1
  /\ pc' = "idle" /\ msg' = NoMessage
  /\ UNCHANGED <<components, tracking, queue, stats, sets, raised, ghosts,
                 forgotten>>

Return ==
  /\ pc = "note" /\ ~ToNote
  /\ Queue(Tagged("sampling", changes), [packets |-> 0])
  /\ S!TakeChanges
  /\ pc' = "idle" /\ msg' = NoMessage
  /\ UNCHANGED <<storeVars, watchVars, tracking, sets, raised, ghosts, escaped,
                 forgotten>>

-----------------------------------------------------------------------------
(* What a consumer knows of x once the pending events are applied, when    *)
(* the events `about` x are those of one kind, and `known` is what it knew. *)
Applied(es, about, known, Says(_)) ==
  IF about = {} THEN known
  ELSE Says(es[CHOOSE i \in about : \A j \in about : j <= i].event)

LayoutAfter(es, k, known) ==
  Applied(es, {i \in 1..Len(es) :
                 es[i].kind = "template" /\ es[i].event.key = k},
          known, LAMBDA e : e.now)
RateAfter(es, k, known) ==
  Applied(es, {i \in 1..Len(es) :
                 es[i].kind = "sampling" /\ es[i].event.key = k},
          known, LAMBDA e : e.rate)

Take ==
  /\ pc = "idle" /\ queue # <<>>
  /\ toldLayout' = [k \in TemplateKeys |-> LayoutAfter(queue, k, toldLayout[k])]
  /\ toldRate' = [k \in S!Keys |-> RateAfter(queue, k, toldRate[k])]
  /\ taken' = taken + Len(queue)
  /\ queue' = <<>>
  /\ UNCHANGED <<components, tracking, stats, pc, msg, sets, raised, escaped,
                 forgotten>>

Next == \/ \E a \in Sources : \/ Short(a) \/ Unsupported(a)
                              \/ \E d \in Domains, v \in Versions, seq \in Seqs :
                                   Header(a, d, v, seq)
        \/ \E tid \in Tids : \/ \E entry \in T!Entries : TemplateSet(tid, entry)
                             \/ DataSet(tid)
        \/ Malformed \/ Parsed
        \/ Observe \/ DrainGaps
        \/ Note \/ Raise \/ Return
        \/ Take

Spec == Init /\ [][Next]_vars

-----------------------------------------------------------------------------
TypeOK == /\ T!StoreTypeOK /\ W!WatchTypeOK /\ S!SamplingTypeOK
          /\ stats \in [Counters -> Nat]
          /\ pc \in {"idle", "walk", "observe", "gaps", "note"}
          /\ sets \in 0..MaxSets
          /\ raised \in Nat /\ taken \in Nat /\ escaped \in Nat
          /\ forgotten \in Nat
          /\ toldLayout \in [TemplateKeys -> T!Entries \cup {NoEntry}]
          /\ toldRate \in [S!Keys -> Nat \ {0}]

(* Every datagram is filed exactly once, as a message or under the one     *)
(* reason it is not, whatever went wrong in it and however far it got.     *)
EveryPacketFiled ==
  stats["packets"] = stats["malformed"] + stats["unsupported"]
                     + stats["parse_errors"] + stats["messages"]
                     + IF pc = "walk" THEN 1 ELSE 0

(* No event is lost uncounted between the component that raised it and the *)
(* consumer, on any path through decode(), the failing ones included; and  *)
(* between calls a component holds none back, unless a call raised.        *)
EventsAccounted ==
  /\ raised = taken + stats["events_dropped"] + tDropped + Len(queue)
              + Len(tEvents) + Len(gapEvents) + Len(changes)
  /\ Len(queue) <= MaxEvents
  /\ pc = "idle" => tEvents = <<>> /\ gapEvents = <<>>
                    /\ (changes # <<>> => escaped > 0)

(* Between calls, a consumer that applies the events in order knows every  *)
(* layout and every rate the decoder works with, those a datagram taught   *)
(* before it turned out malformed included, as long as no queue overflowed *)
(* (decoder.py:202).                                                       *)
ConsumerInformed ==
  pc = "idle" /\ stats["events_dropped"] = 0 /\ tDropped = 0 /\ escaped = 0 =>
    /\ \A k \in DOMAIN held : LayoutAfter(queue, k, toldLayout[k]) = held[k]
    /\ \A k \in DOMAIN rates : RateAfter(queue, k, toldRate[k]) = rates[k]

(* The counters a dashboard reads agree with the components they are       *)
(* about: the losses counted (decoder.py:225) are those of the streams the *)
(* watch tracks and those it forgot with the streams it evicted, none      *)
(* taken back and none twice.                                              *)
CountersAgree ==
  /\ stats["templates_new"] = learned
  /\ stats["missed_exports"] = SumFunction(missed) + forgotten

(* decoder.py:161, a datagram with nothing usable in it is counted and     *)
(* queued, and "none of them raises, because a decoder that dies on one    *)
(* bad packet is useless on a real network".                               *)
NeverRaises == escaped = 0
=============================================================================
