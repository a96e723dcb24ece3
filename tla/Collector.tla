----------------------------- MODULE Collector ------------------------------
(***************************************************************************)
(* collector.Collector: one thread reading a UDP socket, by iterating      *)
(* (__iter__, flows) or with poll(), and other threads or signal handlers  *)
(* calling stop() at any moment.  The selector watches the socket and the  *)
(* read end of a socketpair, the waker, which stop() writes a byte to.     *)
(*                                                                         *)
(* Each action of the reader is what it does between two points where      *)
(* another thread can be seen: the read of a flag, the select, a recv.     *)
(* A datagram is only how many flows it decodes to, none when it does not  *)
(* decode, or Rejected when accept turns its sender away.                  *)
(***************************************************************************)
EXTENDS Integers, Sequences, FiniteSets

CONSTANTS Stoppers,      \* threads that call stop()
          SocketRoom,    \* datagrams the kernel buffers for the socket
          WakerRoom,     \* bytes the waker buffers, within the 4096 of a drain
          MaxFlows,      \* bound: flows in a message
          Timed,         \* whether a read may have a timeout, and may not
          MaxArrivals,   \* bound: datagrams that reach the host
          MaxStops       \* bound: calls of stop() by each thread

ASSUME CollectorAssumption ==
  /\ SocketRoom \in Nat \ {0} /\ WakerRoom \in 1..4096
  /\ Timed \subseteq BOOLEAN
  /\ {MaxFlows, MaxArrivals, MaxStops} \subseteq Nat

Rejected == -1
Kinds == 0..MaxFlows \cup {Rejected}

VARIABLES buffer,    \* datagrams in the kernel, by arrival number
          waker,     \* wake bytes not yet drained
          stopping, closed,
          pc,        \* where the reader is
          call,      \* the call it is in, and whether that has a timeout
          ready,     \* what select returned and is not yet looked at
          data,      \* the datagram read and not yet decoded, 0 for none
          item,      \* the message the iterator is going through, 0 for none
          left,      \* its flows not yet yielded
          decoded, rejected,   \* datagrams decoder.decode and accept dealt with
          stopper,   \* thread -> where it is in stop()
          stops      \* thread -> calls it made

(* What the program does not store: the kind of each datagram, those the   *)
(* kernel kept, those read, the flows each yielded, whether a poll began   *)
(* with a datagram waiting or missed it, and how many datagrams iteration  *)
(* read after stop() had set its flag.                                     *)
VARIABLES kinds, kept, taken, yielded, owed, takenAfterStop

reader == <<pc, call, ready, data, item, left>>
counts == <<decoded, rejected>>
stopVars == <<stopper, stops>>
ghosts == <<kinds, kept, taken, yielded, owed, takenAfterStop>>
vars == <<buffer, waker, stopping, closed, reader, counts, stopVars, ghosts>>

Places == {"outside",   \* in the caller, not in the collector
           "check",     \* at the loop condition of messages()
           "select", "handle", "decode"}

Init == /\ buffer = <<>> /\ waker = 0
        /\ stopping = FALSE /\ closed = FALSE
        /\ pc = "outside" /\ call = [kind |-> "iterate", timed |-> FALSE]
        /\ ready = <<>> /\ data = 0 /\ item = 0 /\ left = 0
        /\ decoded = 0 /\ rejected = 0
        /\ stopper = [t \in Stoppers |-> "idle"]
        /\ stops = [t \in Stoppers |-> 0]
        /\ kinds = <<>> /\ kept = <<>> /\ taken = <<>> /\ yielded = <<>>
        /\ owed = "nothing" /\ takenAfterStop = 0

-----------------------------------------------------------------------------
(* The network and the kernel: a datagram that finds no room is dropped.   *)
Arrive(kind) ==
  /\ Len(kinds) < MaxArrivals
  /\ kinds' = Append(kinds, kind)
  /\ yielded' = Append(yielded, 0)
  /\ IF ~closed /\ Len(buffer) < SocketRoom
     THEN /\ buffer' = Append(buffer, Len(kinds'))
          /\ kept' = Append(kept, Len(kinds'))
     ELSE UNCHANGED <<buffer, kept>>
  /\ UNCHANGED <<waker, stopping, closed, reader, counts, stopVars, taken, owed,
                 takenAfterStop>>

(* stop(): the flag first, then the byte.  A send on a full socketpair     *)
(* waits for room; one on a closed socketpair fails, and is ignored.       *)
Flag(t) ==
  /\ stopper[t] = "idle" /\ stops[t] < MaxStops
  /\ stopping' = TRUE
  /\ stopper' = [stopper EXCEPT ![t] = "flagged"]
  /\ stops' = [stops EXCEPT ![t] = @ + 1]
  /\ UNCHANGED <<buffer, waker, closed, reader, counts, ghosts>>

RoomToWake == closed \/ waker < WakerRoom

Wake(t) ==
  /\ stopper[t] = "flagged"
  /\ RoomToWake
  /\ waker' = IF closed THEN waker ELSE waker + 1
  /\ stopper' = [stopper EXCEPT ![t] = "idle"]
  /\ UNCHANGED <<buffer, stopping, closed, reader, counts, stops, ghosts>>

-----------------------------------------------------------------------------
(* The caller asks the iterator for a flow.  The rest of the message in    *)
(* hand comes first, stopped or not.                                       *)
NextFlow ==
  /\ pc = "outside" /\ left > 0
  /\ left' = left - 1
  /\ yielded' = [yielded EXCEPT ![item] = @ + 1]
  /\ UNCHANGED <<buffer, waker, stopping, closed, pc, call, ready, data, item,
                 counts, stopVars, kinds, kept, taken, owed, takenAfterStop>>

NextMessage(timed) ==
  /\ pc = "outside" /\ left = 0
  /\ pc' = "check"
  /\ item' = 0
  /\ call' = [kind |-> "iterate", timed |-> timed]
  /\ UNCHANGED <<buffer, waker, stopping, closed, ready, data, left, counts,
                 stopVars, ghosts>>

(* The loop condition of messages(): go on reading, or end the iteration.  *)
(* Mutant: stop() alone does not end it.                                   *)
GoesOnUntilClosed == ~closed
GoesOn == ~stopping /\ ~closed

Check ==
  /\ pc = "check"
  /\ pc' = IF GoesOn THEN "select" ELSE "outside"
  /\ UNCHANGED <<buffer, waker, stopping, closed, call, ready, data, item, left,
                 counts, stopVars, ghosts>>

(* poll() may come at any moment the caller has control.  On a closed      *)
(* collector it raises, which changes nothing.                             *)
Poll(timed) ==
  /\ pc = "outside" /\ ~closed
  /\ pc' = "select"
  /\ call' = [kind |-> "poll", timed |-> timed]
  /\ owed' = IF buffer # <<>> THEN "datagram" ELSE "nothing"
  /\ UNCHANGED <<buffer, waker, stopping, closed, ready, data, item, left,
                 counts, stopVars, kinds, kept, taken, yielded, takenAfterStop>>

(* close() between reads, by the thread that reads.                        *)
Close ==
  /\ pc = "outside" /\ ~closed
  /\ closed' = TRUE /\ stopping' = TRUE
  /\ buffer' = <<>> /\ waker' = 0
  /\ UNCHANGED <<reader, counts, stopVars, ghosts>>

-----------------------------------------------------------------------------
(* _receive came back with nothing: messages() looks at its condition      *)
(* again, poll() answers None.                                             *)
NothingRead ==
  /\ pc' = IF call.kind = "iterate" THEN "check" ELSE "outside"
  /\ owed' = IF owed = "datagram" THEN "denied" ELSE owed
  /\ ready' = <<>>

(* The selector reports what can be read, in either order.                 *)
Return(reported) ==
  /\ pc = "select"
  /\ ready' \in {s \in [1..Cardinality(reported) -> reported] :
                   {s[i] : i \in DOMAIN s} = reported}
  /\ pc' = "handle"
  /\ UNCHANGED <<buffer, waker, stopping, closed, call, data, item, left, counts,
                 stopVars, ghosts>>

Readable == (IF buffer = <<>> THEN {} ELSE {"socket"})
            \cup (IF waker = 0 THEN {} ELSE {"waker"})

Select == Readable # {} /\ Return(Readable)

(* The kernel may report a datagram that it then discards.                 *)
SelectSpurious == buffer = <<>> /\ Return(Readable \cup {"socket"})

(* select() timed out with nothing to read.                                *)
Expire ==
  /\ pc = "select" /\ call.timed /\ Readable = {}
  /\ NothingRead
  /\ UNCHANGED <<buffer, waker, stopping, closed, call, data, item, left, counts,
                 stopVars, kinds, kept, taken, yielded, takenAfterStop>>

(* Mutant of Drain: a wakeup ends the call at once.                        *)
DrainReturning ==
  /\ pc = "handle" /\ ready # <<>> /\ Head(ready) = "waker"
  /\ waker' = 0
  /\ NothingRead
  /\ UNCHANGED <<buffer, stopping, closed, call, data, item, left, counts,
                 stopVars, kinds, kept, taken, yielded, takenAfterStop>>

Drain ==
  /\ pc = "handle" /\ ready # <<>> /\ Head(ready) = "waker"
  /\ waker' = 0
  /\ ready' = Tail(ready)
  /\ UNCHANGED <<buffer, stopping, closed, pc, call, data, item, left, counts,
                 stopVars, ghosts>>

(* Only the waker was ready.  An iterator that is to stop gives up, and so *)
(* does a call whose deadline has passed; any other waits again for the    *)
(* time it has left.                                                       *)
(* Mutant: an iterator does not look at the flag here.                     *)
NeverGivesUp == FALSE
GivesUp == call.kind = "iterate" /\ stopping

GoRound ==
  /\ pc = "handle" /\ ready = <<>>
  /\ \/ GivesUp /\ NothingRead
     \/ call.timed /\ NothingRead
     \/ /\ ~GivesUp
        /\ pc' = "select" /\ UNCHANGED <<ready, owed>>
  /\ UNCHANGED <<buffer, waker, stopping, closed, call, data, item, left, counts,
                 stopVars, kinds, kept, taken, yielded, takenAfterStop>>

(* The datagram read is on its way to be decoded.                          *)
(* Mutant: a stopped reader lets go of it.                                 *)
HandOnUnlessStopping ==
  IF stopping THEN NothingRead /\ data' = 0
  ELSE /\ data' = Head(buffer) /\ pc' = "decode"
       /\ ready' = <<>> /\ owed' = "nothing"
HandOn == /\ data' = Head(buffer) /\ pc' = "decode"
          /\ ready' = <<>> /\ owed' = "nothing"

(* recvfrom: the oldest datagram, or EAGAIN when there is none after all.  *)
Receive ==
  /\ pc = "handle" /\ ready # <<>> /\ Head(ready) = "socket"
  /\ IF buffer = <<>>
     THEN NothingRead /\ UNCHANGED <<buffer, data, taken, takenAfterStop>>
     ELSE /\ buffer' = Tail(buffer)
          /\ taken' = Append(taken, Head(buffer))
          /\ takenAfterStop' = takenAfterStop
               + IF stopping /\ call.kind = "iterate" THEN 1 ELSE 0
          /\ HandOn
  /\ UNCHANGED <<waker, stopping, closed, call, item, left, counts, stopVars,
                 kinds, kept, yielded>>

(* The flows still to yield after the first.  Mutant: the first is one.    *)
AllOf(d) == kinds[d]
RestOf(d) == kinds[d] - 1

(* _decode: a poll answers whatever it made of the datagram.  Iteration    *)
(* yields the message's flows, the first on the way out, and passes over a *)
(* datagram that has none.                                                 *)
Decode ==
  /\ pc = "decode"
  /\ data' = 0
  /\ IF kinds[data] = Rejected
     THEN rejected' = rejected + 1 /\ UNCHANGED decoded
     ELSE decoded' = decoded + 1 /\ UNCHANGED rejected
  /\ IF call.kind = "iterate" /\ kinds[data] > 0
     THEN /\ pc' = "outside"
          /\ item' = data /\ left' = RestOf(data)
          /\ yielded' = [yielded EXCEPT ![data] = @ + 1]
     ELSE /\ pc' = IF call.kind = "iterate" THEN "check" ELSE "outside"
          /\ UNCHANGED <<item, left, yielded>>
  /\ UNCHANGED <<buffer, waker, stopping, closed, call, ready, stopVars, kinds,
                 kept, taken, owed, takenAfterStop>>

Inside == Check \/ Select \/ Drain \/ GoRound \/ Receive \/ Decode

Next == \/ \E kind \in Kinds : Arrive(kind)
        \/ \E t \in Stoppers : Flag(t) \/ Wake(t)
        \/ NextFlow
        \/ \E timed \in Timed : NextMessage(timed) \/ Poll(timed)
        \/ Close
        \/ Inside \/ SelectSpurious \/ Expire

(* A thread that can run runs on: the reader inside the collector, and a   *)
(* thread inside stop().  Nothing is assumed of the network, of the        *)
(* timeout or of what the caller asks for next.                            *)
Spec == /\ Init /\ [][Next]_vars
        /\ WF_vars(Inside)
        /\ \A t \in Stoppers : WF_vars(Wake(t))

-----------------------------------------------------------------------------
TypeOK == /\ waker \in 0..WakerRoom
          /\ stopping \in BOOLEAN /\ closed \in BOOLEAN
          /\ pc \in Places
          /\ call \in [kind : {"iterate", "poll"}, timed : BOOLEAN]
          /\ ready \in Seq({"socket", "waker"})
          /\ data \in Nat /\ item \in Nat /\ left \in Nat
          /\ decoded \in Nat /\ rejected \in Nat
          /\ stopper \in [Stoppers -> {"idle", "flagged"}]
          /\ stops \in [Stoppers -> 0..MaxStops]
          /\ kinds \in Seq(Kinds) /\ yielded \in Seq(Nat)
          /\ buffer \in Seq(Nat) /\ kept \in Seq(Nat) /\ taken \in Seq(Nat)
          /\ owed \in {"nothing", "datagram", "denied"}
          /\ takenAfterStop \in Nat

(* No wakeup, timeout or stop loses, repeats or reorders a datagram: what  *)
(* was read and what still waits are what the kernel kept, in order, and   *)
(* each one read was decoded or rejected, unless it is in hand.            *)
EveryDatagramOnce ==
  /\ ~closed => taken \o buffer = kept
  /\ decoded + rejected + (IF pc = "decode" THEN 1 ELSE 0) = Len(taken)

(* A poll that begins with a datagram waiting does not come back without   *)
(* one, however many stop() wakeups are queued in front of it ("stop()     *)
(* must not cost the caller a datagram", collector.py:409).                *)
PollAnswersWaiting == owed # "denied"

(* Once stop() has set its flag iteration reads at most one more datagram, *)
(* the one it was about to, however many are waiting.                      *)
StopsAfterOne == takenAfterStop <= 1

(* Iteration hands over a message whole: stop() and polls in between take  *)
(* no flow of it away and repeat none.                                     *)
MessageYieldedWhole ==
  \A i \in 1..Len(kinds) : yielded[i] > 0 =>
    yielded[i] + (IF i = item THEN left ELSE 0) = kinds[i]

(* An iterator waiting when stop() is called comes back to its caller even *)
(* on a silent network and with no timeout.                                *)
StopEndsWait ==
  (stopping /\ call.kind = "iterate" /\ pc # "outside") ~> (pc = "outside")
=============================================================================
