# netflume in TLA+

netflume decodes NetFlow v5, NetFlow v9 and IPFIX: a UDP socket is read by a
`Collector`, each datagram is taken apart by a `Decoder`, and what the decoder
remembers from one datagram to the next lives in three bounded tables, for
templates, sequence numbers and sampling rates. Source addresses are
forgeable, so every table has a ceiling and forgets its least recently used
entry. This directory holds TLA+ modules of those parts, TLC configurations
that check them on small instances, and TLAPS proofs, for every instance, about
the template store, the sequence watch, the sampling watch, the decoder that
composes them, the walk over a datagram, the times of flows, the opening of the
socket and the collector. Paths below are in `src/netflume/`.

## Inventory

| part | state | operations | interacts with |
|---|---|---|---|
| `parse.TemplateStore` | `templates` (ordered), `learned`, `evicted`, `dropped`, a `deque(maxlen)` of events | `put`, `get`, `take_events` | called by the parser while it walks a datagram; drained by `decode` |
| `sequence.SequenceWatch` | `streams` (ordered), `missed`, `units`, `_warned` (ordered), `resyncs`, `backwards`, `evicted`, events | `observe`, `_evict`, `take_events`, and the readers `report`, `gaps`, `watched` | called by `decode` once a message |
| `sampling.SamplingWatch` | `rates` (ordered), `evicted`, events | `note`, `rate_for`, `take_events`, the pure `sampling_rate` | called by `decode` once an option record |
| `decoder.Decoder` | the three above, `stats`, a bounded event queue | `decode`, `take_events`, `sampling_rate`, `export_gaps` | owns the tables; called by `Collector` or by a user with bytes |
| `collector.Collector` | socket, socketpair ("waker"), selector, `_stopping`, `_closed` | `poll`, `messages`, `__iter__`, `flows`, `stop`, `close` | `stop` from any thread or signal handler, the rest from one reader |
| `parse.parse_*` | none of its own | the walk over sets and records, field decoding | calls `put` and `get`, returns records |
| `collector._open_socket` | none kept | dual-stack socket, with a fallback | constructor of `Collector` |
| `flow.Flow`, `parse.flow_timestamp`, `parse.flow_duration` | none | a typed view of a record, dated by the header and the clock | made by `Message.typed_flows` |
| `values`, `ie`, `events` | memo tables in `values` | names, constants, event types | leaf modules |

What is hard here, and what makes each part correct:

- **Template store.** Eviction under a flood of declarations while exporters
  still use older templates; an id redefined with another layout or as the
  other kind; a consumer that must be able to follow the layouts from the events
  alone; a queue that drops in silence at its ceiling. Correct: within the ceiling,
  what is in use is kept, what is held is what was last declared, every event
  is accounted for and says truly what changed.
- **Sequence watch.** Loss, repeats, reordering, restarts, a 32-bit wrap, and
  two incompatible readings of one counter have to be told apart from the
  counter alone. Correct: an export is either received or missed, once; a
  restart does not silence a stream for ever; four tables that are evicted
  together.
- **Sampling watch.** Stale multipliers: after "I sample everything", after an
  eviction, across the domains of one exporter, and through the v5 header that
  says "unsampled" by saying nothing. Correct: the answer is the last one stated,
  rounded to the nearest integer, or 1.
- **Decoder.** Failing in the middle of a datagram, after part of it changed
  the tables; one device under two spellings of its address; one queue for the
  events of three components. Correct: a datagram is filed once, nothing a datagram
  taught is lost, no event disappears uncounted.
- **Collector.** `stop()` at any moment of the read loop, its wake byte in
  front of a datagram or drained by someone else's read, timeouts that race
  with arrivals. Correct: no datagram lost, repeated or reordered; a poll does
  not come back empty when a datagram was waiting; a stopped iterator ends.
- **Parser.** Lengths and counts come from the wire: fields of no length, padding
  shorter than a record, sets that run off their message, templates cut short
  with more behind them, a name twice in a template. Correct: nothing is read
  outside the set in hand or twice, what arrived whole is found and nothing
  else, and the call returns.
- **Opening the socket.** Three places where a host without IPv6 can say no, errors
  that mean something else, other collectors on the same port. Correct: what
  fails is closed, what is returned listens where it was asked to.
- **Flow times.** A millisecond counter that wraps after 49 days, clocks wrong
  or not set, zeros for "not filled in", five spellings. Correct: a start is
  true or is the export time, a duration is true or unknown.

## Modules

| module | models |
|---|---|
| `RecencyOrder` | what the tables use of `OrderedDict` and `deque(maxlen)` (library code) |
| `TemplateStore` | the store: `Put` (`Hold`, then `Announce`), `Get`, `TakeEvents` |
| `TemplateMap` | what the store promises: a map that may forget one other entry, and only to make room |
| `TemplateFeed` | exporters and a consumer around the store; its properties and the refinement of `TemplateMap` |
| `SequenceWatch` | `observe`, one action for each way through it: `Track`, `Learn`, `Late`, `Resync`, `InStep`, `Gap` |
| `SequenceFlood` | one watch and more sources than it has room for, each sending anything |
| `ExportStream` | the same watch behind a network that loses, repeats and delays an exporter's messages, and exporters that restart |
| `SamplingWatch`, `SamplingFeed` | `sampling_rate`, `note`, `rate_for`; exporters, v5 headers and a consumer around them |
| `Decoder` | `decode`, from `Short` to `Return`, with instances of the three components |
| `Collector` | the reader, the threads that stop it, the kernel's buffers |
| `ParseSets` | `parse_message` over the bytes of one datagram: v5, v9 and IPFIX, templates, records, fields |
| `OpenSocket` | `_open_socket` and `_dual_stack`, by several callers on one host, and `close` |
| `FlowTime` | `flow_timestamp`, `flow_duration` and `typed_flows` against an exporter's clocks |
| `MC*` | the instances TLC checks; `Collector` and `OpenSocket` need none |
| `*_proofs` | the theorems about the module each is named after; `RecencyOrder_proofs` has the lemmas on the ordered tables and on sums, `Sequence_proofs` the theorems about `SequenceFlood` and `ExportStream`, `Records_proofs` those about `ParseSets` and `FlowTime` |

The three component modules hold state and operations only, without a next-state
relation, so that the module around each (`TemplateFeed`, `SequenceFlood`,
`ExportStream`, `SamplingFeed`) can put a different environment there and
`Decoder` can compose all of them by `INSTANCE`. An `OrderedDict` is a
sequence of keys (`order`) and a function from keys to values (`held`, `streams`,
`rates`); that the two name the same keys is a property, not an assumption.

How actions correspond to code:

- `TemplateFeed`: `Declare` is one `put`, `Read` and `ReadUnknown` one `get`,
  `Take` one `take_events`. History variables record what the exporter last
  declared, which other keys were used since, and what the consumer was told.
- `SequenceWatch.Observe` is one call of `observe`; its disjuncts exclude each
  other as the early returns do. `observe` with no sequence number returns at
  once; every header of a supported version has one, so it is left out. In
  `SequenceFlood` any source may call it at any time (`Hear`).
- `ExportStream`: `Send` stamps a message with the counter and moves it by one
  or by the records in it, `Restart` sets it to 0, `Deliver` gives any message
  recent enough to `observe`. One never delivered is lost. The counter is held
  as if it never wrapped, and the header carries it modulo `SeqModulus`
  (`SequenceOf`). `high`, `from`, `base`, `accepted` say what the watch's mark
  stands for: the message it is at, and what was accepted and counted as missed
  since it was last set without being judged. A restart of the exporter that the
  watch did judge, as a gap or as a message in step, sets nothing anew and is
  written down in `misread`.
- `SamplingFeed.HeaderMessage` is the v5 header (parse.py:254-260): an option
  record only when the rate is above 1.
- `Decoder`: a datagram begins as `Short`, `Unsupported` or `Header`; v9 and
  IPFIX go through `TemplateSet` and `DataSet`; `Malformed` is the `except` of
  decoder.py:200, `Parsed` the drain behind it; then `Observe`, `DrainGaps`,
  `Note` for each option record, `Return`. `Raise` is an exception from
  `sampling.note`, outside the `try`. `forgotten` adds up what `missed` held of the
  streams that `_evict` dropped. No datagram is known to make the parser
  itself raise; the handler is written for any, so `Malformed` may happen
  wherever the parser runs.
- `Collector`: an action of the reader is what happens between two points at
  which another thread can be seen: `Check` (the loop condition), `Select`,
  `Drain` (the waker), `Receive` (`recvfrom`), `GoRound` (collector.py:411-414),
  `Decode`. `stop()` is two steps, `Flag` and `Wake`, since a read can fall
  between them. `Flag` is what a signal handler does as well.
- `ParseSets`: `data.bytes` is the datagram, and every length, count and id is
  read out of it where the code reads it. A loop of the code is a place `pc` can
  be at and an iteration is an action: `OpenSet` for a set, `ReadTemplate` and
  the two options headers, `ReadSpec` for a field specification, `StartRecord`,
  `ReadField` and `EndRecord` for a record. Each way out of a loop is an action
  of its own (`SpecCutShort`, `FieldCutShort`, `EmptyRecord`, ...). `read`
  records the bytes last looked at. A value is the bytes it is decoded from.
- `OpenSocket`: each call of the socket API is an action of one opener, which
  fails as the host and the other openers make it fail. `host` says which of
  the three steps lacks IPv6 there. `Interrupt` is any other exception arriving
  during a step; `Collect` is the garbage collector finding what that left.
- `FlowTime`: an exporter keeps flows by the time and by its counter (`Begin`,
  `Packet`, `Tick`, `Reboot`) and sends them in one of the forms the code
  reads (`Export`); `Read` and `FromRecord` are `typed_flows`, while the
  clock goes on.

Left abstract: except in `ParseSets` a layout is a model value; a datagram in
`Collector` is the number of flows it decodes to; addresses and ids are model
values; `FlowTime` counts milliseconds where the code divides floats, and
`Round` takes the exact ratio where `sampling_rate` rounds a float's, which is
the same in fields of the 32 bits the registry gives these elements.
`Decoder` leaves `bytes_rx` and `truncated` out of its counters, and counts
the messages of all versions as one. The three classes' `log` calls are left
out.

## Runs

| run | instance | shows |
|---|---|---|
| `template_feed` | 3 keys, 2 layouts, 2 places, 2 pending events, 5 learned | `TableBounded`, `WorkingSetKept`, `ConsumerCurrent`, `EventsChain`, `EventsAccounted`, and the store implements `TemplateMap` |
| `sequence_flood` | 4 sources, 2 places, 10 messages | `TablesTogether`, `GapsHaveARule`, `ActiveStreamKept`, `LossAnnounced` |
| `export_stream` | 5 messages sent, 5 delivered, 1 restart, 1 place late | `NoPhantomLoss`, `LossAccounted`, `RestartAdopted`, `NeighboursTeach` |
| `sampling_feed` | 2 exporters of 2 domains, 2 places, 5 messages | `AnswerIsLastStated`, `ConsumerAgrees`, `WholeAnswerIsStated` |
| `collector` | 2 stoppers of 2 stops, 2 datagrams, buffers of 2 | `EveryDatagramOnce`, `PollAnswersWaiting`, `StopsAfterOne`, `MessageYieldedWhole`, and, under fairness, `StopEndsWait` |
| `decoder` | 4 datagrams of one set each, ceilings of 1, an event queue of 2 | `EveryPacketFiled`, `EventsAccounted`, `ConsumerInformed`, `CountersAgree` |
| `parse_sets` | some 14000 datagrams: scripts of one and two sets, each cut at 7 places and claiming 3 lengths, a template known beforehand or not; v5 with 0 to 4 records claimed | `ReadsInside`, `FindsWhatIsThere`, `EachByteOnce`, `EveryStepGetsOn`, and, under fairness, `Terminates` |
| `open_socket` | 2 openers, 7 addresses, 24 kinds of host, 2 descriptors | `NothingLeft`, `ServesAsAsked`, `DefaultStarts` |
| `flow_time` | a second of 2 ticks, a day of 2 seconds, a counter modulo 13, 6 ticks, 2 flows, 4 states of the exporter's clock | `StartIsTrue`, `UnsetClockIsNoTime`, `DurationIsTrue`, `OneReading` |

`sampling_feed` and `decoder` have their module's `TypeOK` as well, where the
values of a table are tied to its order and one device to one key; the other
type invariants are proved (below). The three remaining runs find a
documented statement violated, and are described under Divergences. Every
property of a passing run is one that some plausible slip in the code would
break; the slips are defined beside the definitions they change ("Mutant") and
TLC finds each.

Bounds, and why they are enough. An eviction needs one key more than places,
and to tell the least recently used from any other it takes two places. In
`sequence_flood` the counter values 0, 1, 3 with two records a message reach
every way through `observe`: 0, 1 teaches one rule, 1 after 3 is late, then a
resync. In `export_stream` a modulus of 64 is far above what a behaviour
sends, as 2^32 is; a counter that starts at 62 wraps, and a restart to 0 is
then a step back within `MaxReorder` or past it, or before the wrap a step
forward. Messages of 0, 1 and 2 records are those that the two readings of the
counter disagree about, agree about, and disagree about the other way. Two
messages teach a rule, so five leave room for a loss, a late message and what
follows. `MaxPlausibleGap`, `MaxReorder`, `ResyncAfter` and the ceilings are
the code's constants scaled down; `sequence_flood` and `decoder` use their
smallest values that keep every branch reachable. `decoder` has ceilings of 1
so that four datagrams evict in every table and overflow the queue; a data set
may bring two option records, of which the second raises when the first has
left its event in the sampling watch. In `collector` two datagrams may wait together, four stops are twice what the
waker has room for, and messages of none, one and two flows give every order
of arrival, wakeup and timeout around a read.

The datagrams of `parse_sets` are put together in `MCParseSets` from sets an
exporter can send, and `holds` says what each contains from how it was put
together, never by reading it back: this is the reference definition that
`FindsWhatIsThere` compares the walk with. Among the sets are every form of
template, several in a set, withdrawn ones, ones that claim more fields than
they have, records with padding, of no length, of fields with their own
length, of repeated names in either order, IPv4 and IPv6 addresses of their full width
among them, sets of unknown ids and of an
impossible length. Two sets are enough for a template to meet the data it
describes, and for whatever follows a faulty set. Cuts of 0 to 12 bytes end
the datagram in the padding, in a field, in a specification and in a header.
Data that contradicts the template held is left out of the comparison: what it
should be read as is nowhere defined. Proofs cover it for the bounds (below).
In `open_socket` two calls are what it takes for a port to be taken between
the steps of the other; `::` with a v4 address, and two wildcards, are the
overlaps there are. In `flow_time` `MaxLag` is above the day, so that the
guard rejects true starts too, and below the counter's period less a day and
the worst skew (`WrapIsFar`), as 49 days are.

Deadlock checking is off where behaviours are bounded by a number of messages or
end with the call, or where the caller may stop asking (`Collector`);
`template_feed` has it on.

Fairness is assumed in two modules. In `ParseSets` the call runs on until it
returns, and `Terminates` says that it does: `PassedOver` and `EmptyRecord`
are what it depends on. What of it needs no fairness is `EveryStepGetsOn`. In `Collector` it is weak fairness of the reader's
steps inside the collector, since a thread that can run is run, and of each
`Wake`, since a thread inside `stop()` goes on to the send. Nothing is assumed
of arrivals, of the timeout, of the kernel's spurious reports, or of the
caller. `StopEndsWait` needs the wake byte: with `call.timed` false nothing
else ends the wait. Other modules state safety only; nothing in the code
promises that an exporter ever sends.

## Divergences

Three runs are expected to be violated. Each checks one statement of the
documentation against what the code does.

- `deferred_export`: records of a data set that arrived before its template are
  not counted, and are reported as an export gap (events.py:27-29).
- `restarted_export`: a restart can be counted as a loss (README.md:493 and
  `test_a_counter_restart_is_not_loss` have it that it is none). A restart is
  recognised by a long step back, by `RESYNC_AFTER` messages in a row behind the
  mark, or by a jump past `MAX_PLAUSIBLE_GAP`. In the run the exporter restarts
  while its counter is low: its first messages are held back as late
  (sequence.py:110-116), and the next one, by now ahead of the old mark, counts
  as a gap (:134) although every message arrived in order. A restart shortly
  before the wrap is a plausible step forward too and is counted at once: after
  messages at 62 modulo 64, a restart to 0 is a gap of 2. With the code's
  constants that takes a counter at most 1000 past its beginning, which the new
  one passes within five messages, or a counter within 1000000 of 2^32. `NoPhantomLoss` and `LossAccounted` leave out a mark that
  has passed such a restart (`misread`), until the watch sets it anew.
- `decoder_raises`: a sampling ratio outside a float's range raises out of
  `decode` (decoder.py:163-165). Element widths are whatever a template says, so
  integers may have any number of bits. `MaxRatio` stands for the largest quotient.

Four more have a property and a configuration of their own, in which TLC finds
the property violated in the same way (`tlc -config <cfg> <module>`):

- `ReorderedIsNotLoss`, `MCExportStreamReordered.cfg`: a message overtaken by
  another is reported as missing and not taken back when it arrives
  (README.md:493). `LossAccounted` says what does hold.
- `WholeAnswerUnambiguous`, `MCSamplingFeedUnambiguous.cfg`: a domain that stated
  "unsampled" leaves nothing behind, so `rate_for` without a domain does not see
  that it disagrees with one that is sampled, and answers the sampled one's rate
  (README.md:452-456, sampling.py:127-131). `WholeAnswerIsStated` says what does
  hold.
- `HeaderRateInForce`, `MCSamplingFeedStopped.cfg`: a v5 exporter that stops
  sampling keeps its old rate (parse.py:258), although `Message.sampling_rate` is
  "the rate in force" (decoder.py:89).
- `AnswerChangesTold`, `MCSamplingFeedForgotten.cfg`: an evicted rate changes its
  domain's answer to 1 without an event (sampling.py:111), although `take_events`
  "reports the moments the answer changed" (sampling.py:69). `ConsumerAgrees` says
  what consumers can rely on.

More is visible in the modules without a property of its own:

- The rule of a stream is the reading that lands on the next message *received*;
  when a message between was lost, that can be the wrong reading, and it is
  kept (sequence.py:30-35, :99). `NoPhantomLoss`, `LossAccounted` and
  `RestartAdopted` are therefore about streams that learned their own rule
  (`RightRule`). `NeighboursTeach` says when the rule is sure to be the right
  one: when the message that teaches it was sent right after the one it is
  compared with, and that one's records were all counted.
- `stop()` can block when the waker is full (`RoomToWake`), which takes hundreds
  of calls that no read drains.
- `_dual_stack` says that making the socket "only ever fail[s] for want of
  IPv6" (collector.py:106-109). It also fails for want of a descriptor, and a
  collector on a host with IPv6 then listens on IPv4 alone if one comes free
  in time: with `Descriptors = 1`, `ServesAsAsked` and `DefaultStarts` fail.
  The run has a descriptor for each opener.
- A `KeyboardInterrupt` while `IPV6_V6ONLY` is cleared (collector.py:117) leaves
  the socket to the garbage collector, and so does `Collector.__init__` when a
  later step of it fails; `NothingLeft` names the first.
- When the counter wraps, or a flow is a day old, its start is the export
  time, but its duration is still added to it for `Flow.end`, which is then
  after the export. A counter at zero at either end leaves the duration unknown.
- An IPFIX options template without fields ends its set, where a data template
  without fields is passed over (parse.py:487, :439); the `count` of a v9
  header is not compared with anything, so v9 messages that lost whole
  sets at their end are not counted as truncated.
- Of two elements of one name the value filled in is kept, except that a MAC
  address of zeros counts as filled in (parse.py:60, :112).

## Proofs

For every set of keys and layouts, every ceiling and every length of the event
queue (assumption `StoreAssumption`: the ceiling is at least 1, `NoEntry` is no
entry; `FeedAssumption`: the bound is a number), `TemplateFeed_proofs` proves of
`TemplateFeed!Spec`:

| theorem | property |
|---|---|
| `TypeCorrect` | `[]TypeOK` |
| `TableStaysBounded` | `[]TableBounded` |
| `WorkingSetIsKept` | `[]WorkingSetKept` |
| `EventsAreAccounted` | `[]EventsAccounted` |
| `ConsumerStaysCurrent` | `[]ConsumerCurrent` |
| `EventsAreChained` | `[]EventsChain` |
| `StoreImplementsMap` | `ImplementsMap`, the refinement of `TemplateMap` |

`WorkingSetKept` is not inductive: it says nothing of the order. The invariant
`IInv` adds three facts about recency. `Newer`: every key behind another in the
order was used since it. `Passed`: every key used and then evicted has seen as
many other keys as the table has places. `Current`: what is held is what was
last declared. With `FewUsed`, that these sets are finite, a `put` or
`get` that moves a key to the end preserves all of them, and a key that
falls out of the table had `MaxTemplates` others behind it, all of them in its
`since`. A second invariant, `Told`, is proved on top of it for the two
properties about a consumer: as long as no event was dropped, the queue that is
waiting begins where the consumer is and ends at what the store holds, and the
events between are chained. `RecencyOrder_proofs` has the facts about sequences this rests on:
what `Without`, `MoveToEnd` and `Newest` do to the set of keys, to their order
and to the absence of repeats, and that a sequence without repeats is as long
as its set is large.

`Sequence_proofs` does the same for `SequenceFlood!FloodSpec`, for every set of
streams, exporters and versions, every modulus, plausible gap and ceiling
(assumptions `WatchAssumption` and `FloodAssumption`, which only say that these
are positive numbers and that a source sends counter values below the modulus):

| theorem | property |
|---|---|
| `FloodTypeCorrect` | `[]FloodTypeOK` |
| `TablesStayTogether` | `[]TablesTogether` |
| `GapsKeepTheirRule` | `[]GapsHaveARule` |
| `ActiveStreamIsKept` | `[]ActiveStreamKept` |
| `LossIsAnnounced` | `[]LossAnnounced` |
| `WarnedStaysBounded` | `[]WarnedBounded`, which no run checks: passing the bound takes more exporters than the instance has |

Recency is the same argument (`UseKeepsRecency`, shared by the two). What is
new is the table of announced exporters, which grows on a gap and is trimmed
only when a new stream arrives. `WarnedAreTracked` says who can be in it past
the ceiling: exporters of tracked streams, none twice. There are no more
of those than the table of streams has places, hence twice the ceiling. Until
the first eviction every announced exporter is one of them, so nothing is
trimmed and nobody is announced twice (`WarnedIsTrue`).

The second half of `Sequence_proofs` is about `ExportStream!Spec`, the same watch
behind a network, for every number of messages, restarts and places late
(`StreamAssumption`: counters start below the modulus, and the records of a
message, of which a datagram holds some thousands, fit in the half of the
modulus that means ahead):

| theorem | property |
|---|---|
| `StreamTypes` | `[]TypeOK` |
| `RestartIsAdopted` | `[]RestartAdopted` |
| `LossIsAccounted` | `[]LossAccounted`, given `~Deferral` and `[]WithinHalf` |
| `LossIsNoPhantom` | `[]NoPhantomLoss`, given `~Deferral` and `[]WithinHalf` |
| `NeighboursTeachTheRule` | `NeighboursTeach`, an action property |

The invariant ties the watch to what was sent. `Chained`: between restarts a
message carries the counter on from where the one before left it. `MarkIsSent`:
what the watch remembers of a stream is the message its mark is at.
`CatchesUp`: while the mark is not at the newest message, every further message
in the order sent is one more late one in a row, and the watch resyncs before
there are `ResyncAfter` of them; that is `RestartAdopted`. It rests
on `NextIsAhead`: the message sent after the one the mark is at is never late.

`LossAccounted` and `NoPhantomLoss` hold of the marks that have passed no restart
unrecognised (`misread`); of the others they say nothing, since `RestartIsNotLoss`
fails. `JudgedAsSent` is what the two share: a message that is judged comes from
the epoch of the mark, or the mark is `misread` from there on.

`LossIsAccounted` needs two hypotheses. With deferred data sets the property
fails (run `deferred_export`). `WithinHalf` says that no message which can still
be delivered is half a turn of the counter or more away from the mark, unless
the exporter restarted between the two: beyond that, ahead and behind are the same
reading and no watch could tell. It holds in every state of the instance of
`export_stream`, where a behaviour sends far less than half a modulus. Under
it the code's `gap`, computed modulo `SeqModulus`, is the true distance
(`GapIsDistance`), and `Tallied` adds up: what was accepted and what was counted
as missed make the distance from the last unjudged mark.

`LossIsNoPhantom` has the same two hypotheses and compares the watch with the
network itself: with the sum of what the messages that never arrived carried.
Its invariant is `LossIsReal`, over streams whose messages arrive in the order
sent and whose mark is not `misread`: the mark is at the newest message delivered, unless the exporter restarted
since and the watch still takes its messages for late ones, and what is counted
is what is `Lost`. `SpanIsSum`: where no restart lies between two messages, the
distance between their counters is the sum of what the messages from the one up
to the other exported. A message of the mark's epoch therefore finds the mark at
the newest (`MarkAtNewest`) and is judged by the sum of the messages skipped
(`JudgedInOrder`), none of which can still arrive in order, and which are what
it adds to the lost ones (`LostFurther`).

`NeighboursTeachTheRule` needs neither hypothesis: it follows from `Chained`
and `MarkIsSent`, and from two facts about a counter read modulo `SeqModulus`:
moved on from its remainder it reads the same (`MovedOn`), and two numbers read
the same just when they are whole turns apart (`SameRemainder`), so that the
readings agree on a message of one record and on no other.

Sums need induction over a finite set, which `RecencyOrder_proofs` does by
least counterexample: every set of naturals that is not empty has a first
element (`FirstOfNaturals`), and so every failing family of finite sets has a
smallest member (`LeastSubset`), both from the well-foundedness of `<`. From there
`SumTelescopes`, `SumOfSame`, `SumOfChanged` and `SumOfFewer` say what the folds
of the models' sums return.

`Records_proofs`, for every set of datagrams, every table of elements and
every store held beforehand (assumption `DatagramsAssumption`: datagrams are
bytes, stores hold templates):

| theorem | property |
|---|---|
| `TypeCorrect` | `[]TypeOK` |
| `WalkStaysInside` | `[]ReadsInside` |
| `WalkGoesForward` | `EachByteOnce`, an action property |
| `WalkGetsOn` | `EveryStepGetsOn`, an action property |
| `NoEndlessWalk` | that no endless sequence falls in the measure of `EveryStepGetsOn`, a fact about `Less` alone |

The invariant `InBounds` says where the walk stands: nothing at or behind the
cursor in use has been read, and each end lies within the one around it, the
set in the message and the message in the datagram. Every action reads at its
cursor after comparing with the nearest end. `Left` is what remains of the
walk, compared like words in a dictionary: the bytes behind the outer cursor,
how deep in the loops it is, the bytes left of the set, the stage inside it,
and the fields left of the record, which is what falls where a field has no
bytes. The two theorems together say that a call which takes its steps returns,
for every datagram; that it takes them is the fairness `Terminates` assumes. `MinLength` is a
recursive function and is nowhere needed: what it computes bounds nothing,
since every field is compared with the end of the set again.

The second half of `Records_proofs` is about `FlowTime!TimeSpec`, for every
exporter, every set of clock skews, every modulus and length of a second and a
day, every lag and horizon:

| theorem | property |
|---|---|
| `StartsAreTrue` | `[]StartIsTrue` |
| `UnsetClockNeverDates` | `[]UnsetClockIsNoTime` |
| `DurationsAreTrue` | `[]DurationIsTrue` |
| `ReadOnce` | `[]OneReading` |

Of the assumptions `Sizes` gives types. `WrapIsFar` says that a flow is dated
before the counter can come round twice since it began, and that a counter which
came round once moves the start by more than a day, whatever the lag and the skew:
with 2^32 milliseconds that leaves 48 days for the two. `ClocksRun` says that
a clock which is set does not read the first second of 1970, which the code takes
for "not set". The invariant `TimeInv` follows a flow from the
cache into the message (`Running`, `Told`): any two stamps of it are apart
by what the counter says, or by that less one period (`Ran`), and neither is more
than `MaxLag` from its beginning (`FlowSeen`). `Viewed` says that each flow built is
the view of its record at the one reading. What is left is arithmetic: a
time cut to seconds loses less than one (`WholeSeconds`), and a wrapped counter
puts the candidate a period late, more than a day after the reading, so `NearNow`
refuses it.

`OpenSocket_proofs`, for every set of openers and every number of descriptors
(`OpenersAssumption`: at least one descriptor; `None` is no socket, error or
address):

| theorem | property |
|---|---|
| `SocketTypes` | `[]TypeOK` |
| `NothingIsLeft` | `[]NothingLeft` |
| `EveryoneServed` | `[]ServesAsAsked`, given `EnoughDescriptors` |
| `DefaultIsServed` | `[]DefaultStarts`, given `EnoughDescriptors` |

The invariant `Holds` says which of its two sockets a call holds in each of its
states; a step of one call changes nothing of another's (`OneCallMoves`).
`EnoughDescriptors`, a descriptor for each call, is the hypothesis of the last
two, since without it they fail (Divergences). It is enough because no call
holds two sockets at once, so one that holds none finds a descriptor left
(`DescriptorLeft`). `Fit` says for each state of a call what the host must be
like for the call to have come there.

`Collector_proofs`, for every set of stopping threads and every bound
(`CollectorAssumption`):

| theorem | property |
|---|---|
| `CollectorTypes` | `[]TypeOK` |
| `NoDatagramLost` | `[]EveryDatagramOnce` |
| `PollsAnswer` | `[]PollAnswersWaiting` |
| `StopsSoon` | `[]StopsAfterOne` |
| `MessagesWhole` | `[]MessageYieldedWhole` |
| `NoWakeupLost` | `[]WakeupOnItsWay`: an iterator waiting although it is to stop has a wake byte, or a thread about to send one and room for it |
| `StopIsHeeded` | `StoppedGetsOn`, an action property: each step of a stopped iterator's reader brings it nearer its caller, six at most, and nothing takes it back |

The invariant adds five facts. `Placed`: the datagrams in hand arrived.
`InOrder`: what is still in the kernel is in the order it arrived in, behind
what is being decoded, and nothing of it has been yielded, which is why a
flow is not yielded twice. `InHand`: iteration reads only with no message in
hand. `OwedIsThere`: a poll that began with a datagram waiting still has one
to find, and the selector, once it returned, has named the socket, so no wakeup
in front of it ends the call. `ReadsNoMore`: an iterator that read a
datagram after the flag was set does not get back to the select. Most actions
leave datagrams alone, and `QuietKeeps` deals with them at once.

The last two are stated in `Collector_proofs` itself. They are what of
`StopEndsWait` needs no fairness, and rest on the order of `stop()`, the flag
before the byte: a drain that took the byte is followed by a look at the flag
(`GivesUp`), so a reader that waits again had no stop to miss.

`SamplingFeed_proofs`, for every set of exporters, domains and option records
and every ceiling (`SamplingAssumption`, `SamplingFeedAssumption`: the ceiling
is at least 1, header rates are positive, records have the fields of
`OptionRecord`):

| theorem | property |
|---|---|
| `SamplingTypes` | `[]TypeOK` |
| `AnswersLastStated` | `[]AnswerIsLastStated` |
| `EventsTellTheRates` | `[]ConsumerAgrees` |
| `WholeAnswerIsWhatWasStated` | `[]WholeAnswerIsStated` |

`RateIsRounded` shows that `sampling_rate` is the rounded ratio the record
states, for every record, and `RoundIsNearest` that rounding gives a nearest
integer. `InForce` and `Passed` carry this through time: a rate held is the one
last stated, and a domain with none held stated 1 or was passed by as many others
as there are places, with the argument on recency again (`UseKeepsRecency`).
Together they are also what `rate_for` says of a whole exporter: the rates it
looks at are those its domains last stated, without the 1s and without those of
domains that were passed. What a consumer knows after a
sequence of events follows from what it knew after all but the last
(`ToldByOneMore`), so one new event is all a step has to answer for.

`Decoder_proofs`, about the three components composed, for every set of
addresses and exporters, every ceiling, every bound on datagrams, sets and
records (`DecoderAssumption`: ceilings and moduli are positive, what arrives has
the types that decoding gives it, every address has an exporter key):

| theorem | property |
|---|---|
| `TypeCorrect` | `[]TypeOK` |
| `FiledOnce` | `[]EveryPacketFiled` |
| `NoEventLost` | `[]EventsAccounted` |
| `ConsumerKnows` | `[]ConsumerInformed` |
| `CountersRight` | `[]CountersAgree` |

The first four hold when `decode` is done. What makes them so in the middle of a
datagram is the invariant. `HandedOver` says at which of its steps `decode` may
find events waiting in which component: in the store during the walk, in the
watch behind `observe`, in the sampling watch during the notes, and there also
when an earlier call raised. `Accounted` adds up where the events raised so far
are: taken, dropped by one of the two queues, or waiting in one of four places.
`LayoutsTold` and `RatesTold` say that a consumer which took the queue and then
what the component at hand still has to hand over would know what the decoder
works with; a `put`, a `note` and a drain each extend that sequence or move its
parts (`LayoutOneMore`, `RateOneMore`), and an event that falls off the queue is
counted. The three ways to fail (`Short`, `Unsupported`, `Malformed`) drain the
same store and are proved together (`FailIInv`): this is why a layout that a
datagram taught before it turned out malformed is not lost to the consumer.
The components' own steps are lemmas over any state that satisfies their type
invariant (`StoreOK`, `WatchOK`, `SamplingOK`). `CountersRight` has an invariant
of its own, `Counted`: the losses counted are the sum of the table's and of
what was forgotten with evicted streams, no more and no less. A gap adds the
same to the count and to the table's sum (`SumOfChanged`), and what an eviction
takes from the table's sum it adds to what is forgotten (`SumOfFewer`).

Model-checked only:

- `StopEndsWait` and `Terminates`, because liveness under fairness is out of the
  prover's reach. Of both, all that is not fairness is proved (`NoWakeupLost`
  and `StopIsHeeded`; `WalkGetsOn` and `NoEndlessWalk`).
- `FindsWhatIsThere`, which compares a whole walk with the reference `holds`:
  what a datagram holds is a constant that each instance gives for the
  datagrams it puts together, so there is no reference for every datagram to prove
  about. Nothing is proved of `MinLength` for that reason: it decides which
  records are found, and no bound rests on it.

## Not modelled, and the plan

Not modelled: `decode_value` beyond what means "not filled in" (and for that the
kinds `ntp` and `string`), the header fields and the v5 record fields that
decide nothing, a `TemplateStore` of `None`, `Flow` beyond its times, the memo
tables of `values`, names in `ie`, wording of `events`, and the tools. Errors of
`recvfrom` other than "nothing there" and an `accept` that raises end the read
with an exception and change nothing in the model. `close()` by another thread
than the reader's is not claimed to be safe and is modelled between reads only.

Order of the work, done and to do:

1. `TemplateStore`, `TemplateMap`, `TemplateFeed`, their proofs. Done.
2. `SequenceWatch` with `SequenceFlood` and `ExportStream`. Done.
3. `SamplingWatch` and `SamplingFeed`. Done.
4. `Collector`, with fairness. Done.
5. `Decoder`, composing 1 to 3. Done.
6. `SequenceFlood` in `Sequence_proofs`: the tables stay together and bounded, a
   recent stream is kept, loss is announced. Done.
7. `ParseSets`, against a reference definition, and its proofs. Done.
8. `OpenSocket` and its proofs. Done.
9. `FlowTime`. Done.
10. `Collector_proofs`. Done.
11. `SamplingFeed_proofs`. Done.
12. `Decoder_proofs`, and the consumer's properties of `TemplateFeed` and the
    outcome of `OpenSocket`. Done.
13. `ExportStream` in `Sequence_proofs`: its types, `RestartAdopted`,
    `LossAccounted`. Done.
14. `FlowTime` in `Records_proofs`: its four properties. Done.
15. Sums: `NoPhantomLoss` in `Sequence_proofs`, `CountersAgree` in
    `Decoder_proofs`. Done.
16. The measure of the walk, `EveryStepGetsOn`, and its proof. Done.
17. No lost wakeup and a stopped iterator's way back, in `Collector_proofs`. Done.
18. How a stream's rule is learned, `NeighboursTeach`, and its proof. Done.
