------------------------------ MODULE FlowTime ------------------------------
(***************************************************************************)
(* When a flow began and how long it lasted: what the typed view makes of  *)
(* a message whose exporter counts milliseconds since its boot in a        *)
(* counter that wraps, may have its clock wrong or not set, and spells the *)
(* times of a flow in one or several of the forms the code reads.          *)
(*                                                                         *)
(* All times are in milliseconds, of which Milli make a second; what the   *)
(* code holds as seconds in a float is held here as milliseconds.          *)
(***************************************************************************)
EXTENDS Integers, Sequences, FiniteSetsExt

CONSTANTS None,       \* Python's None
          Milli,      \* 1000: milliseconds in a second
          Day,        \* 86400: seconds in the day of the wrap guard
          Wrap,       \* 2^32: the modulus of the uptime counter
          Skews,      \* how far an exporter's clock may be from ours
          Templates,  \* what an exporter may send: time fields, and the
                      \* uptime in its header, which IPFIX leaves out
          Uptimes,    \* where its counter may stand at the beginning
          MaxLag,     \* bound: from a flow's first packet to its dating
          MaxFlows,   \* bound: the flows of the exporter's cache
          Epoch,      \* the time at the beginning
          Horizon     \* bound: and for how long the exporter is watched

(* The forms flow_timestamp and flow_duration read, in their order.        *)
Starts == <<"flow_start_ms", "flow_start_s", "flow_start_us", "flow_start_ns">>
Ends == <<"flow_end_ms", "flow_end_s", "flow_end_us", "flow_end_ns">>
Pairs == << <<Starts[1], Ends[1]>>, <<Starts[2], Ends[2]>>,
            <<Starts[3], Ends[3]>>, <<Starts[4], Ends[4]>>,
            <<"first_switched", "last_switched">> >>
Keys == UNION {{Pairs[i][1], Pairs[i][2]} : i \in 1..5}
InSeconds == {Starts[2], Ends[2]}

ASSUME Sizes == /\ {Milli, Day, Wrap, MaxLag, MaxFlows} \subseteq Nat \ {0}
                /\ Epoch \in Nat /\ Horizon \in Nat /\ None \notin Int
                /\ Skews \subseteq Int /\ Uptimes \subseteq 0 .. Wrap - 1
                /\ Templates \subseteq [fields : SUBSET Keys, uptime : BOOLEAN]
(* The counter comes round once at most in mid-flow, and that can be told  *)
(* from a flow that is old: with the lag and the skew there are, it moves  *)
(* the start by more than a day.                                           *)
ASSUME WrapIsFar ==
  /\ MaxLag < Wrap
  /\ \A skew \in Skews : MaxLag + (Day + 1) * Milli - skew <= Wrap
ASSUME ClocksRun == \A skew \in Skews : Epoch + skew >= Milli

VARIABLES exporter,  \* what it sends, and how its clock is
          clock,     \* the time
          uptime,    \* the exporter's counter
          cache,     \* its flows not yet exported
          msg,       \* its message, under way or at hand, or None
          now,       \* what typed_flows read, or None
          built      \* the typed flows of msg so far

timeVars == <<exporter, clock, uptime, cache, msg, now, built>>

TimeInit ==
  /\ exporter \in [sends : Templates, skew : Skews \cup {None}]
  /\ clock = Epoch /\ uptime \in Uptimes
  /\ cache = <<>> /\ msg = None /\ now = None /\ built = <<>>

-----------------------------------------------------------------------------
(* The exporter, up to the message it sends.  A cached flow is when it     *)
(* began and was last seen, by our clock and by the exporter's counter.    *)
Stamp == [at |-> clock, up |-> uptime]

Pending == IF msg = None THEN cache ELSE msg.flows

Tick == /\ clock < Epoch + Horizon
        /\ \A i \in DOMAIN Pending : clock - Pending[i].first.at < MaxLag
        /\ clock' = clock + 1 /\ uptime' = (uptime + 1) % Wrap
        /\ UNCHANGED <<exporter, cache, msg, now, built>>

Begin == /\ msg = None /\ Len(cache) < MaxFlows
         /\ cache' = Append(cache, [first |-> Stamp, last |-> Stamp])
         /\ UNCHANGED <<exporter, clock, uptime, msg, now, built>>

Packet == /\ msg = None
          /\ \E i \in DOMAIN cache :
               cache[i].last # Stamp /\ cache' = [cache EXCEPT ![i].last = Stamp]
          /\ UNCHANGED <<exporter, clock, uptime, msg, now, built>>

Reboot == /\ msg = None /\ uptime # 0
          /\ uptime' = 0 /\ cache' = <<>>
          /\ UNCHANGED <<exporter, clock, msg, now, built>>

(* The fields of a record, as decode_value leaves them.  An exporter whose *)
(* clock is not set leaves the absolute ones, and the header's, at zero.   *)
Seen(at) == IF exporter.skew = None THEN 0 ELSE at + exporter.skew

Sent(key, stamp) == IF key \in {"first_switched", "last_switched"} THEN stamp.up
                    ELSE IF key \in InSeconds THEN Seen(stamp.at) \div Milli
                    ELSE Seen(stamp.at)

Record(flow) ==
  [key \in exporter.sends.fields |->
     Sent(key, IF \E i \in 1..5 : key = Pairs[i][1] THEN flow.first ELSE flow.last)]

Header == [unix_secs |-> Seen(clock) \div Milli,
           sys_uptime |-> IF exporter.sends.uptime THEN uptime ELSE None]

Export == /\ msg = None /\ cache # <<>>
          /\ msg' = [hdr |-> Header, flows |-> cache, sent |-> Stamp,
                     recs |-> [i \in DOMAIN cache |-> Record(cache[i])]]
          /\ cache' = <<>>
          /\ UNCHANGED <<exporter, clock, uptime, now, built>>

-----------------------------------------------------------------------------
Get(rec, key) == IF key \in DOMAIN rec THEN rec[key] ELSE None

(* Python's truth of a number: zero is no more a time than None is.  Its   *)
(* mutant takes zero for one.                                              *)
GivenUnlessNone(rec, key) == Get(rec, key) # None
Given(rec, key) == Get(rec, key) \notin {None, 0}

InMillis(key, value) == IF key \in InSeconds THEN value * Milli ELSE value

Abs(x) == IF x < 0 THEN -x ELSE x
(* The guard against a wrapped counter, and its mutant.                    *)
NearAnything(time, reading) == TRUE
NearNow(time, reading) == Abs(time - reading) < Day * Milli

flow_timestamp(rec, hdr, reading) ==
  LET given == {i \in 1..4 : Given(rec, Starts[i])}
      key == Starts[Min(given)]
      base == hdr.unix_secs * Milli
      candidate == base - (hdr.sys_uptime - Get(rec, "first_switched"))
  IN  IF given # {} THEN InMillis(key, rec[key])
      ELSE IF /\ Get(rec, "first_switched") # None /\ hdr.sys_uptime # None
              /\ base # 0 /\ NearNow(candidate, reading)
        THEN candidate
      ELSE IF base # 0 THEN base ELSE reading

(* Mutant of InOrder: a wrap between the two is not noticed.               *)
AnyOrder(a, b) == TRUE
InOrder(a, b) == b >= a

flow_duration(rec) ==
  LET told == {i \in 1..5 : /\ Given(rec, Pairs[i][1]) /\ Given(rec, Pairs[i][2])
                            /\ InOrder(rec[Pairs[i][1]], rec[Pairs[i][2]])}
      pair == Pairs[Min(told)]
  IN  IF told = {} THEN None
      ELSE InMillis(pair[2], rec[pair[2]] - rec[pair[1]])

-----------------------------------------------------------------------------
(* typed_flows, which reads the clock and then makes one flow after the    *)
(* other while the clock goes on.                                          *)
Read == /\ msg # None /\ now = None
        /\ now' = clock
        /\ UNCHANGED <<exporter, clock, uptime, cache, msg, built>>

(* Mutant of Reading: one for every flow.                                  *)
ReadingEach == clock
Reading == now

FromRecord ==
  /\ msg # None /\ now # None /\ Len(built) < Len(msg.recs)
  /\ LET rec == msg.recs[Len(built) + 1]
     IN  built' = Append(built, [start |-> flow_timestamp(rec, msg.hdr, Reading),
                                 duration |-> flow_duration(rec)])
  /\ UNCHANGED <<exporter, clock, uptime, cache, msg, now>>

TimeNext == Tick \/ Begin \/ Packet \/ Reboot \/ Export \/ Read \/ FromRecord

TimeSpec == TimeInit /\ [][TimeNext]_timeVars

-----------------------------------------------------------------------------
Dated == {i \in DOMAIN built : i \in DOMAIN msg.flows}

(* A flow's start as the exporter saw it, to the second its own header or  *)
(* field is truncated to.                                                  *)
StartsRight(i) ==
  LET true == msg.flows[i].first.at + exporter.skew
  IN  built[i].start \in true - Milli + 1 .. true

(* The counter came round while the flow was in the exporter's cache.      *)
Wrapped(i) == LET first == msg.flows[i].first
              IN  first.up + (msg.sent.at - first.at) >= Wrap

SendsStart == exporter.sends.fields \cap {Starts[i] : i \in 1..4} # {}

(* A flow is dated when it began, or else, when that cannot be told, when  *)
(* its message was sent: never anything else, whatever wraps on the way.   *)
(* It is not told only when the counter wrapped, or is not sent, or the    *)
(* flow is a day old by the exporter's clock and ours.                     *)
StartIsTrue ==
  exporter.skew # None => \A i \in Dated :
    \/ StartsRight(i)
    \/ /\ ~SendsStart
       /\ built[i].start = ((msg.sent.at + exporter.skew) \div Milli) * Milli
       /\ \/ Wrapped(i)
          \/ "first_switched" \notin exporter.sends.fields
          \/ ~exporter.sends.uptime
          \/ Abs(now - (msg.flows[i].first.at + exporter.skew)) > (Day - 1) * Milli

(* With no clock to go by a flow is dated at its reading, and so not       *)
(* before it began: 1970 is never an answer.                               *)
UnsetClockIsNoTime ==
  exporter.skew = None => \A i \in Dated :
    built[i].start \in msg.flows[i].first.at .. clock

(* A duration is the time from a flow's first packet to its last, to the   *)
(* second where both are sent in seconds; it is unknown only when no pair  *)
(* is sent, or its counter wrapped in between, or stood at zero.           *)
DurationIsTrue ==
  \A i \in Dated :
    LET flow == msg.flows[i]
        true == flow.last.at - flow.first.at
        sent == {p \in 1..5 : {Pairs[p][1], Pairs[p][2]} \subseteq exporter.sends.fields}
    IN  IF built[i].duration # None
        THEN /\ Abs(built[i].duration - true) < Milli
             /\ 1 \in sent => \/ built[i].duration = true
                              \/ exporter.skew = None
        ELSE /\ exporter.skew # None => sent \subseteq {5}
             /\ 5 \in sent => \/ flow.first.up + true >= Wrap
                              \/ 0 \in {flow.first.up, flow.last.up}

(* Flows that say the same of themselves are dated the same, however long  *)
(* the message takes to go through.                                        *)
OneReading ==
  \A i, j \in Dated : msg.recs[i] = msg.recs[j] => built[i].start = built[j].start
=============================================================================
