-------------------------- MODULE Collector_proofs --------------------------
(***************************************************************************)
(* That the collector loses, repeats and reorders nothing, and stops and   *)
(* answers when it must, for any number of threads that stop it, any room  *)
(* in the kernel's buffers and any number of datagrams.                    *)
(***************************************************************************)
EXTENDS Collector, SequenceTheorems, FiniteSetTheorems, TLAPS

(* The type invariant in two parts, one of them about sequences.           *)
Scalars == /\ waker \in 0..WakerRoom
           /\ stopping \in BOOLEAN /\ closed \in BOOLEAN
           /\ pc \in Places
           /\ call \in [kind : {"iterate", "poll"}, timed : BOOLEAN]
           /\ data \in Nat /\ item \in Nat /\ left \in Nat
           /\ decoded \in Nat /\ rejected \in Nat
           /\ stopper \in [Stoppers -> {"idle", "flagged"}]
           /\ stops \in [Stoppers -> 0..MaxStops]
           /\ owed \in {"nothing", "datagram", "denied"}
           /\ takenAfterStop \in Nat

Sequences == /\ ready \in Seq({"socket", "waker"})
             /\ kinds \in Seq(Kinds) /\ yielded \in Seq(Nat)
             /\ buffer \in Seq(Nat) /\ kept \in Seq(Nat) /\ taken \in Seq(Nat)

LEMMA TypesSplit == TypeOK <=> Scalars /\ Sequences
BY DEF TypeOK, Scalars, Sequences

(* Every arrival number in use is one of a datagram that arrived.          *)
Placed ==
  /\ Len(yielded) = Len(kinds)
  /\ \A i \in 1..Len(buffer) : buffer[i] \in 1..Len(kinds)
  /\ pc = "decode" => data \in 1..Len(kinds)
  /\ item \in 0..Len(kinds)

(* What is still to be read or decoded is in the order it arrived in, and  *)
(* nothing of it has been yielded.                                         *)
InOrder ==
  /\ \A i, j \in 1..Len(buffer) : i < j => buffer[i] < buffer[j]
  /\ pc = "decode" => \A i \in 1..Len(buffer) : data < buffer[i]
  /\ \A i \in 1..Len(buffer) : \A n \in 1..Len(kinds) :
       n >= buffer[i] => yielded[n] = 0
  /\ pc = "decode" => \A n \in 1..Len(kinds) : n >= data => yielded[n] = 0

(* The message in hand, and that iteration reads with none in hand.        *)
InHand ==
  /\ item = 0 => left = 0
  /\ item > 0 => yielded[item] > 0
  /\ call.kind = "iterate" /\ pc # "outside" => left = 0

(* A poll that owes a datagram has one to find.                            *)
OwedIsThere ==
  /\ owed # "denied"
  /\ owed = "datagram" =>
       /\ pc \in {"select", "handle"} /\ buffer # <<>>
       /\ pc = "handle" => \E i \in 1..Len(ready) : ready[i] = "socket"

(* Iteration that has read its one datagram reads no more.                 *)
ReadsNoMore ==
  /\ takenAfterStop <= 1
  /\ takenAfterStop = 1 => /\ stopping
                           /\ call.kind = "iterate" => pc \notin {"select", "handle"}

IInv == Scalars /\ Sequences /\ Placed /\ InOrder /\ InHand /\ OwedIsThere /\ ReadsNoMore
          /\ EveryDatagramOnce /\ MessageYieldedWhole

-----------------------------------------------------------------------------
LEMMA InitIInv == Init => IInv
<1> SUFFICES ASSUME Init PROVE IInv
  OBVIOUS
<1>1. Scalars
  <2>1. waker \in 0..WakerRoom /\ stops \in [Stoppers -> 0..MaxStops]
    BY CollectorAssumption DEF Init
  <2>2. stopper \in [Stoppers -> {"idle", "flagged"}]
    BY DEF Init
  <2>3. QED BY <2>1, <2>2 DEF Init, Scalars, Places
<1>2. Sequences
  BY DEF Init, Sequences
<1>3. Placed /\ InOrder /\ InHand /\ OwedIsThere /\ ReadsNoMore
  BY DEF Init, Placed, InOrder, InHand, OwedIsThere, ReadsNoMore
<1>4. EveryDatagramOnce /\ MessageYieldedWhole
  BY DEF Init, EveryDatagramOnce, MessageYieldedWhole
<1>5. QED BY <1>1, <1>2, <1>3, <1>4 DEF IInv

(* A datagram arrives behind all others.                                   *)
LEMMA ArriveIInv ==
  ASSUME IInv, NEW kind \in Kinds, Arrive(kind)
  PROVE  IInv'
<1> USE DEF IInv
<1> DEFINE new == Len(kinds) + 1
<1>1. /\ kinds' \in Seq(Kinds) /\ Len(kinds') = new
      /\ \A i \in 1..Len(kinds) : kinds'[i] = kinds[i]
  BY AppendProperties DEF Arrive, Sequences
<1>2. /\ yielded' \in Seq(Nat) /\ Len(yielded') = new /\ yielded'[new] = 0
      /\ \A i \in 1..Len(kinds) : yielded'[i] = yielded[i]
  BY AppendProperties DEF Arrive, Sequences, Placed
<1>3. \/ UNCHANGED <<buffer, kept>>
      \/ /\ ~closed
         /\ buffer' = Append(buffer, new) /\ kept' = Append(kept, new)
         /\ Len(buffer') = Len(buffer) + 1 /\ buffer'[Len(buffer) + 1] = new
         /\ \A i \in 1..Len(buffer) : buffer'[i] = buffer[i]
         /\ buffer' \in Seq(Nat) /\ buffer' # <<>> /\ kept' \in Seq(Nat)
  <2>1. new \in Nat /\ new = Len(kinds')
    BY <1>1 DEF Sequences
  <2>2. \/ UNCHANGED <<buffer, kept>>
        \/ ~closed /\ buffer' = Append(buffer, new) /\ kept' = Append(kept, new)
    BY <2>1 DEF Arrive
  <2> HIDE DEF new
  <2>3. /\ Append(buffer, new) \in Seq(Nat) /\ Append(buffer, new) # <<>>
        /\ Len(Append(buffer, new)) = Len(buffer) + 1
        /\ Append(buffer, new)[Len(buffer) + 1] = new
        /\ \A i \in 1..Len(buffer) : Append(buffer, new)[i] = buffer[i]
    BY <2>1, AppendProperties DEF Sequences
  <2>4. Append(kept, new) \in Seq(Nat)
    BY <2>1 DEF Sequences
  <2>5. QED BY <2>2, <2>3, <2>4
<1>4. UNCHANGED <<waker, stopping, closed, pc, call, ready, data, item, left,
                  decoded, rejected, stopper, stops, taken, owed, takenAfterStop>>
  BY DEF Arrive, reader, counts, stopVars
<1>5. Scalars'
  BY <1>4 DEF Scalars
<1>6. Sequences'
  BY <1>1, <1>2, <1>3, <1>4 DEF Sequences
<1>7. Len(kinds) \in Nat /\ Len(buffer) \in Nat /\ data \in Nat /\ item \in Nat
      /\ \A i \in 1..Len(buffer) : buffer[i] \in Nat
  BY DEF Sequences, Scalars
<1>8. Placed' /\ InOrder'
  <2>1. \A n \in 1..Len(kinds') : \/ n = new /\ yielded'[n] = 0
                                  \/ n \in 1..Len(kinds) /\ yielded'[n] = yielded[n]
    BY <1>1, <1>2, <1>7
  <2>2. \A i \in 1..Len(buffer') :
          \/ i = Len(buffer) + 1 /\ buffer'[i] = new
          \/ i \in 1..Len(buffer) /\ buffer'[i] = buffer[i]
    <3>1. CASE UNCHANGED buffer
      BY <3>1
    <3>2. CASE ~UNCHANGED buffer
      BY <1>3, <1>7, <3>2
    <3>3. QED BY <3>1, <3>2
  <2>3. \A i \in 1..Len(buffer) : buffer[i] \in 1..Len(kinds)
    BY DEF Placed
  <2>4. new \in Nat /\ Len(kinds') = new
    BY <1>1, <1>7
  <2>5. Placed'
    <3>1. \A i \in 1..Len(buffer') : buffer'[i] \in 1..Len(kinds')
      BY <1>7, <2>2, <2>3, <2>4
    <3>2. QED BY <1>1, <1>2, <1>4, <1>7, <3>1 DEF Placed
  <2>6. \A i, j \in 1..Len(buffer') : i < j => buffer'[i] < buffer'[j]
    <3>1. \A i, j \in 1..Len(buffer) : i < j => buffer[i] < buffer[j]
      BY DEF InOrder
    <3>2. \A i \in 1..Len(buffer) : buffer[i] < new
      BY <1>7, <2>3
    <3> HIDE DEF new
    <3>3. QED BY <1>7, <2>2, <3>1, <3>2
  <2>7. pc = "decode" => \A i \in 1..Len(buffer') : data < buffer'[i]
    BY <1>7, <2>2 DEF InOrder, Placed
  <2>8. \A i \in 1..Len(buffer'), n \in 1..Len(kinds') :
          n >= buffer'[i] => yielded'[n] = 0
    <3>1. \A i \in 1..Len(buffer), n \in 1..Len(kinds) :
            n >= buffer[i] => yielded[n] = 0
      BY DEF InOrder
    <3>2. \A n \in 1..Len(kinds) : ~(n >= new)
      BY <1>7
    <3> HIDE DEF new
    <3>3. QED BY <2>1, <2>2, <3>1, <3>2
  <2>9. pc = "decode" => \A n \in 1..Len(kinds') : n >= data => yielded'[n] = 0
    BY <2>1 DEF InOrder
  <2>10. InOrder'
    BY <1>4, <2>6, <2>7, <2>8, <2>9 DEF InOrder
  <2>11. QED BY <2>5, <2>10
<1>9. InHand'
  BY <1>1, <1>2, <1>4, <1>7 DEF InHand, Placed
<1>10. OwedIsThere' /\ ReadsNoMore'
  BY <1>3, <1>4, <1>7 DEF OwedIsThere, ReadsNoMore
<1>11. MessageYieldedWhole'
  <2>1. \A i \in 1..Len(kinds') : i = new \/ i \in 1..Len(kinds)
    BY <1>1, <1>7
  <2>2. ~(yielded'[new] > 0)
    BY <1>2
  <2>3. QED BY <1>1, <1>2, <1>4, <2>1, <2>2 DEF MessageYieldedWhole
<1>12. EveryDatagramOnce'
  <2>1. ASSUME ~closed, buffer' = Append(buffer, new), kept' = Append(kept, new)
        PROVE  taken \o buffer' = kept'
    <3>1. /\ buffer' = buffer \o <<new>> /\ kept' = kept \o <<new>>
          /\ <<new>> \in Seq(Nat)
      BY <1>7, <2>1, AppendIsConcat DEF Sequences
    <3>2. taken \o (buffer \o <<new>>) = (taken \o buffer) \o <<new>>
      BY <3>1, ConcatAssociative DEF Sequences
    <3>3. QED BY <2>1, <3>1, <3>2 DEF EveryDatagramOnce
  <2>2. QED BY <1>3, <1>4, <2>1 DEF EveryDatagramOnce
<1>13. QED BY <1>5, <1>6, <1>8, <1>9, <1>10, <1>11, <1>12

-----------------------------------------------------------------------------
(* Most steps leave the datagrams, and what was yielded of them, alone.    *)
Quiet == /\ UNCHANGED <<buffer, kinds, kept, taken, yielded, data, item, left,
                        closed, counts>>
         /\ (pc' = "decode") = (pc = "decode")
         /\ call'.kind = "iterate" /\ pc' # "outside" => left = 0

LEMMA QuietKeeps ==
  ASSUME IInv, Quiet, Scalars', ready' \in Seq({"socket", "waker"}),
         OwedIsThere', ReadsNoMore'
  PROVE  IInv'
<1>1. Sequences' /\ Placed' /\ InOrder'
  BY DEF IInv, Quiet, Sequences, Placed, InOrder
<1>2. InHand'
  BY DEF IInv, Quiet, InHand
<1>3. EveryDatagramOnce' /\ MessageYieldedWhole'
  BY DEF IInv, Quiet, EveryDatagramOnce, MessageYieldedWhole, counts
<1>4. QED BY <1>1, <1>2, <1>3 DEF IInv

LEMMA FlagIInv == ASSUME IInv, NEW t \in Stoppers, Flag(t) PROVE IInv'
<1>1. Quiet
  BY DEF IInv, Flag, Quiet, reader, ghosts, counts, InHand
<1>2. Scalars'
  <2>1. stops' \in [Stoppers -> 0..MaxStops]
    <3>1. stops[t] \in 0..MaxStops /\ stops[t] < MaxStops
      BY DEF IInv, Scalars, Flag
    <3>2. stops[t] + 1 \in 0..MaxStops
      BY <3>1, CollectorAssumption
    <3>3. QED BY <3>2 DEF IInv, Scalars, Flag
  <2>2. stopper' \in [Stoppers -> {"idle", "flagged"}]
    BY DEF IInv, Scalars, Flag
  <2>3. QED BY <2>1, <2>2 DEF IInv, Scalars, Flag, reader, counts, ghosts
<1>3. ready' \in Seq({"socket", "waker"}) /\ OwedIsThere' /\ ReadsNoMore'
  BY DEF IInv, Flag, Sequences, OwedIsThere, ReadsNoMore, reader, ghosts
<1>4. QED BY <1>1, <1>2, <1>3, QuietKeeps

LEMMA WakeIInv == ASSUME IInv, NEW t \in Stoppers, Wake(t) PROVE IInv'
<1>1. Quiet
  BY DEF IInv, Wake, Quiet, reader, ghosts, counts, InHand
<1>2. Scalars'
  <2>1. waker' \in 0..WakerRoom
    BY CollectorAssumption DEF IInv, Scalars, Wake, RoomToWake
  <2>2. stopper' \in [Stoppers -> {"idle", "flagged"}]
    BY DEF IInv, Scalars, Wake
  <2>3. QED BY <2>1, <2>2 DEF IInv, Scalars, Wake, reader, counts, ghosts
<1>3. ready' \in Seq({"socket", "waker"}) /\ OwedIsThere' /\ ReadsNoMore'
  BY DEF IInv, Wake, Sequences, OwedIsThere, ReadsNoMore, reader, ghosts
<1>4. QED BY <1>1, <1>2, <1>3, QuietKeeps

LEMMA PollIInv == ASSUME IInv, NEW timed \in BOOLEAN, Poll(timed) PROVE IInv'
<1>1. Quiet
  BY DEF IInv, Poll, Quiet, counts
<1>2. Scalars'
  BY DEF IInv, Scalars, Poll, Places, counts, stopVars
<1>3. ready' \in Seq({"socket", "waker"}) /\ OwedIsThere' /\ ReadsNoMore'
  BY DEF IInv, Poll, Sequences, OwedIsThere, ReadsNoMore
<1>4. QED BY <1>1, <1>2, <1>3, QuietKeeps

LEMMA CheckIInv == ASSUME IInv, Check PROVE IInv'
<1>1. Quiet
  BY DEF IInv, Check, Quiet, counts, ghosts, InHand
<1>2. Scalars'
  BY DEF IInv, Scalars, Check, Places, counts, stopVars, ghosts
<1>3. ready' \in Seq({"socket", "waker"}) /\ OwedIsThere' /\ ReadsNoMore'
  BY DEF IInv, Check, GoesOn, Sequences, OwedIsThere, ReadsNoMore, ghosts
<1>4. QED BY <1>1, <1>2, <1>3, QuietKeeps

(* The selector reports every socket it is given, once.                    *)
LEMMA Reported ==
  ASSUME NEW R \in SUBSET {"socket", "waker"},
         NEW s \in [1..Cardinality(R) -> R], {s[i] : i \in DOMAIN s} = R
  PROVE  /\ s \in Seq({"socket", "waker"})
         /\ "socket" \in R => \E i \in 1..Len(s) : s[i] = "socket"
<1> DEFINE n == Cardinality(R)
<1>1. n \in Nat
  <2>1. IsFiniteSet({"socket"}) /\ {"socket", "waker"} = {"socket"} \cup {"waker"}
    BY FS_Singleton
  <2>2. IsFiniteSet({"socket"} \cup {"waker"})
    BY <2>1, FS_AddElement
  <2>3. IsFiniteSet(R)
    BY <2>1, <2>2, FS_Subset
  <2>4. QED BY <2>3, FS_CardinalityType
<1>2. s \in [1..n -> {"socket", "waker"}] /\ s \in [1..n -> R]
  OBVIOUS
<1> HIDE DEF n
<1>3. s \in Seq({"socket", "waker"}) /\ Len(s) = n
  BY <1>1, <1>2
<1>4. DOMAIN s = 1..Len(s)
  BY <1>2, <1>3
<1>5. QED BY <1>3, <1>4

LEMMA ReturnIInv ==
  ASSUME IInv, NEW R \in SUBSET {"socket", "waker"}, Return(R),
         buffer # <<>> => "socket" \in R
  PROVE  IInv'
<1>1. Quiet
  BY DEF IInv, Return, Quiet, counts, ghosts, InHand
<1>2. Scalars'
  BY DEF IInv, Scalars, Return, Places, counts, stopVars, ghosts
<1>3. /\ ready' \in Seq({"socket", "waker"})
      /\ "socket" \in R => \E i \in 1..Len(ready') : ready'[i] = "socket"
  BY Reported DEF Return
<1>4. OwedIsThere' /\ ReadsNoMore'
  BY <1>3 DEF IInv, Return, OwedIsThere, ReadsNoMore, ghosts
<1>5. QED BY <1>1, <1>2, <1>3, <1>4, QuietKeeps

LEMMA SelectIInv == ASSUME IInv, Select \/ SelectSpurious PROVE IInv'
<1>1. Readable \in SUBSET {"socket", "waker"} /\ (buffer # <<>> => "socket" \in Readable)
  BY DEF Readable
<1>2. CASE Select
  BY <1>1, <1>2, ReturnIInv DEF Select
<1>3. CASE SelectSpurious
  BY <1>1, <1>3, ReturnIInv DEF SelectSpurious
<1>4. QED BY <1>2, <1>3

(* A call comes back with nothing only when nothing was owed.              *)
LEMMA NothingReadIInv ==
  ASSUME IInv, NothingRead, pc # "decode", pc # "outside", owed # "datagram",
         UNCHANGED <<buffer, waker, stopping, closed, call, data, item, left,
                     counts, stopVars, kinds, kept, taken, yielded, takenAfterStop>>
  PROVE  IInv'
<1>1. Quiet
  BY DEF IInv, NothingRead, Quiet, counts, InHand
<1>2. Scalars'
  BY DEF IInv, Scalars, NothingRead, Places, counts, stopVars
<1>3. ready' \in Seq({"socket", "waker"}) /\ OwedIsThere' /\ ReadsNoMore'
  BY DEF IInv, NothingRead, OwedIsThere, ReadsNoMore
<1>4. QED BY <1>1, <1>2, <1>3, QuietKeeps

LEMMA ExpireIInv == ASSUME IInv, Expire PROVE IInv'
<1>1. owed # "datagram"
  BY DEF IInv, Expire, Readable, OwedIsThere
<1>2. QED BY <1>1, NothingReadIInv DEF Expire

LEMMA DrainIInv == ASSUME IInv, Drain PROVE IInv'
<1>1. Quiet
  BY DEF IInv, Drain, Quiet, counts, ghosts, InHand
<1>2. Scalars'
  BY CollectorAssumption DEF IInv, Scalars, Drain, Places, counts, stopVars, ghosts
<1>3. /\ ready' \in Seq({"socket", "waker"}) /\ Len(ready') = Len(ready) - 1
      /\ \A i \in 1..Len(ready') : ready'[i] = ready[i + 1]
      /\ Len(ready) \in Nat /\ ready[1] = "waker"
  BY HeadTailProperties DEF IInv, Sequences, Drain
<1>4. ASSUME NEW i \in 1..Len(ready), ready[i] = "socket"
      PROVE  i - 1 \in 1..Len(ready') /\ ready'[i - 1] = "socket"
  BY <1>3, <1>4
<1>5. OwedIsThere' /\ ReadsNoMore'
  BY <1>4 DEF IInv, Drain, OwedIsThere, ReadsNoMore, ghosts
<1>6. QED BY <1>1, <1>2, <1>3, <1>5, QuietKeeps

LEMMA GoRoundIInv == ASSUME IInv, GoRound PROVE IInv'
<1>1. owed # "datagram"
  BY DEF IInv, GoRound, OwedIsThere
<1>2. CASE NothingRead
  BY <1>1, <1>2, NothingReadIInv DEF GoRound
<1>3. CASE ~GivesUp /\ pc' = "select" /\ UNCHANGED <<ready, owed>>
  <2>1. Quiet
    BY <1>3 DEF IInv, GoRound, Quiet, counts, InHand
  <2>2. Scalars'
    BY <1>3 DEF IInv, Scalars, GoRound, Places, counts, stopVars
  <2>3. ready' \in Seq({"socket", "waker"}) /\ OwedIsThere' /\ ReadsNoMore'
    BY <1>1, <1>3 DEF IInv, GoRound, Sequences, OwedIsThere, ReadsNoMore
  <2>4. QED BY <2>1, <2>2, <2>3, QuietKeeps
<1>4. QED BY <1>2, <1>3 DEF GoRound

-----------------------------------------------------------------------------
(* The caller takes a flow of the message in hand, or asks for the next    *)
(* message.                                                                *)
LEMMA NextFlowIInv == ASSUME IInv, NextFlow PROVE IInv'
<1>1. /\ item \in 1..Len(kinds) /\ Len(yielded) = Len(kinds) /\ Len(kinds) \in Nat
      /\ left \in Nat /\ left > 0 /\ yielded \in Seq(Nat) /\ yielded[item] > 0
  BY DEF IInv, NextFlow, Scalars, Sequences, Placed, InHand
<1>2. yielded[item] \in Nat
  BY <1>1
<1>3. /\ yielded' \in Seq(Nat) /\ Len(yielded') = Len(yielded)
      /\ \A n \in 1..Len(kinds) :
           yielded'[n] = IF n = item THEN yielded[item] + 1 ELSE yielded[n]
  BY <1>1, <1>2, ExceptSeq DEF NextFlow
<1>4. UNCHANGED <<buffer, waker, stopping, closed, pc, call, ready, data, item,
                  decoded, rejected, stopper, stops, kinds, kept, taken, owed,
                  takenAfterStop>> /\ left' = left - 1 /\ pc = "outside"
  BY DEF NextFlow, counts, stopVars
<1>5. Scalars'
  BY <1>1, <1>4 DEF IInv, Scalars
<1>6. Sequences' /\ Placed'
  BY <1>3, <1>4 DEF IInv, Sequences, Placed
<1>7. InOrder'
  <2>1. ASSUME NEW i \in 1..Len(buffer), NEW n \in 1..Len(kinds), n >= buffer[i]
        PROVE  yielded'[n] = 0
    <3>1. yielded[n] = 0
      BY <2>1 DEF IInv, InOrder
    <3>2. n # item
      BY <1>1, <3>1
    <3>3. QED BY <1>3, <3>1, <3>2
  <2>2. \A i, j \in 1..Len(buffer) : i < j => buffer[i] < buffer[j]
    BY DEF IInv, InOrder
  <2>3. QED BY <1>4, <2>1, <2>2 DEF InOrder
<1>8. InHand'
  BY <1>1, <1>2, <1>3, <1>4 DEF InHand
<1>9. OwedIsThere' /\ ReadsNoMore' /\ EveryDatagramOnce'
  BY <1>4 DEF IInv, OwedIsThere, ReadsNoMore, EveryDatagramOnce
<1>10. MessageYieldedWhole'
  <2>1. ASSUME NEW n \in 1..Len(kinds), yielded'[n] > 0
        PROVE  yielded'[n] + (IF n = item THEN left - 1 ELSE 0) = kinds[n]
    <3>1. CASE n = item
      <4>1. yielded[item] + left = kinds[item]
        BY <1>1 DEF IInv, MessageYieldedWhole
      <4>2. QED BY <1>1, <1>2, <1>3, <3>1, <4>1
    <3>2. CASE n # item
      BY <1>3, <2>1, <3>2 DEF IInv, MessageYieldedWhole
    <3>3. QED BY <3>1, <3>2
  <2>2. QED BY <1>4, <2>1 DEF MessageYieldedWhole
<1>11. QED BY <1>5, <1>6, <1>7, <1>8, <1>9, <1>10 DEF IInv

LEMMA NextMessageIInv ==
  ASSUME IInv, NEW timed \in BOOLEAN, NextMessage(timed)
  PROVE  IInv'
<1>1. Scalars'
  BY DEF IInv, Scalars, NextMessage, Places, counts, stopVars, ghosts
<1>2. Sequences' /\ Placed' /\ InOrder' /\ InHand'
  BY DEF IInv, NextMessage, Sequences, Placed, InOrder, InHand, ghosts
<1>3. OwedIsThere' /\ ReadsNoMore' /\ EveryDatagramOnce'
  BY DEF IInv, NextMessage, OwedIsThere, ReadsNoMore, EveryDatagramOnce, counts, ghosts
<1>4. MessageYieldedWhole'
  <2>1. UNCHANGED <<kinds, yielded>> /\ left = 0 /\ left' = 0
    BY DEF NextMessage, ghosts
  <2>2. QED BY <2>1 DEF IInv, MessageYieldedWhole
<1>5. QED BY <1>1, <1>2, <1>3, <1>4 DEF IInv

LEMMA CloseIInv == ASSUME IInv, Close PROVE IInv'
<1>1. Scalars'
  BY CollectorAssumption DEF IInv, Scalars, Close, Places, reader, counts, stopVars, ghosts
<1>2. Sequences' /\ Placed' /\ InOrder' /\ InHand'
  BY DEF IInv, Close, Sequences, Placed, InOrder, InHand, reader, ghosts
<1>3. OwedIsThere' /\ ReadsNoMore' /\ EveryDatagramOnce' /\ MessageYieldedWhole'
  BY DEF IInv, Close, OwedIsThere, ReadsNoMore, EveryDatagramOnce, MessageYieldedWhole,
         reader, counts, ghosts
<1>4. QED BY <1>1, <1>2, <1>3 DEF IInv

-----------------------------------------------------------------------------
(* The oldest datagram is read.                                            *)
LEMMA ReceiveIInv == ASSUME IInv, Receive PROVE IInv'
<1>1. CASE buffer = <<>>
  <2>1. owed # "datagram"
    BY <1>1 DEF IInv, OwedIsThere
  <2>2. QED BY <1>1, <2>1, NothingReadIInv DEF Receive
<1>2. CASE buffer # <<>>
  <2>1. /\ Head(buffer) \in Nat /\ buffer[1] = Head(buffer) /\ Len(buffer) \in Nat
        /\ Len(buffer) >= 1 /\ Tail(buffer) \in Seq(Nat)
        /\ Len(Tail(buffer)) = Len(buffer) - 1
        /\ \A i \in 1..Len(Tail(buffer)) : Tail(buffer)[i] = buffer[i + 1]
    BY <1>2, HeadTailProperties DEF IInv, Sequences
  <2>2. /\ buffer' = Tail(buffer) /\ taken' = Append(taken, Head(buffer))
        /\ data' = buffer[1] /\ pc = "handle" /\ pc' = "decode" /\ ready' = <<>>
        /\ owed' = "nothing"
        /\ takenAfterStop' = takenAfterStop
              + IF stopping /\ call.kind = "iterate" THEN 1 ELSE 0
        /\ UNCHANGED <<waker, stopping, closed, call, item, left, decoded, rejected,
                       stopper, stops, kinds, kept, yielded>>
    BY <1>2, <2>1 DEF Receive, HandOn, counts, stopVars
  <2>3. taken \in Seq(Nat) /\ taken' \in Seq(Nat) /\ Len(taken') = Len(taken) + 1
    BY <2>1, <2>2, AppendProperties DEF IInv, Sequences
  <2>4. Scalars'
    BY <2>1, <2>2 DEF IInv, Scalars, Places
  <2>5. Sequences'
    BY <2>1, <2>2, <2>3 DEF IInv, Sequences
  <2>6. \A i \in 1..Len(buffer') : i + 1 \in 1..Len(buffer) /\ buffer'[i] = buffer[i + 1]
    BY <2>1, <2>2
  <2>7. 1 \in 1..Len(buffer)
    BY <2>1
  <2>8. Placed'
    BY <2>2, <2>6, <2>7 DEF IInv, Placed
  <2>9. InOrder'
    <3>1. \A i, j \in 1..Len(buffer) : i < j => buffer[i] < buffer[j]
      BY DEF IInv, InOrder
    <3>2. \A i \in 1..Len(buffer), n \in 1..Len(kinds) : n >= buffer[i] => yielded[n] = 0
      BY DEF IInv, InOrder
    <3>3. \A i, j \in 1..Len(buffer') : i < j => buffer'[i] < buffer'[j]
      BY <2>6, <3>1
    <3>4. \A i \in 1..Len(buffer') : data' < buffer'[i]
      BY <2>2, <2>6, <2>7, <3>1
    <3>5. \A i \in 1..Len(buffer'), n \in 1..Len(kinds) :
            n >= buffer'[i] => yielded[n] = 0
      BY <2>6, <3>2
    <3>6. \A n \in 1..Len(kinds) : n >= data' => yielded[n] = 0
      BY <2>2, <2>7, <3>2
    <3>7. QED BY <2>2, <3>3, <3>4, <3>5, <3>6 DEF InOrder
  <2>10. InHand' /\ OwedIsThere'
    BY <2>2 DEF IInv, InHand, OwedIsThere
  <2>11. ReadsNoMore'
    BY <2>2 DEF IInv, Scalars, ReadsNoMore
  <2>12. MessageYieldedWhole'
    BY <2>2 DEF IInv, MessageYieldedWhole
  <2>13. EveryDatagramOnce'
    <3>1. Len(taken') = decoded + rejected + 1
      BY <2>2, <2>3 DEF IInv, EveryDatagramOnce, Scalars
    <3>2. taken' \o buffer' = taken \o buffer
      <4>1. <<Head(buffer)>> \in Seq(Nat) /\ taken' = taken \o <<Head(buffer)>>
        BY <2>1, <2>2, <2>3, AppendIsConcat
      <4>2. buffer = <<Head(buffer)>> \o Tail(buffer)
        BY <1>2, <2>1 DEF IInv, Sequences
      <4>3. (taken \o <<Head(buffer)>>) \o Tail(buffer)
              = taken \o (<<Head(buffer)>> \o Tail(buffer))
        BY <2>1, <2>3, <4>1, ConcatAssociative
      <4>4. QED BY <2>2, <4>1, <4>2, <4>3
    <3>3. QED BY <2>2, <3>1, <3>2 DEF IInv, EveryDatagramOnce, Scalars
  <2>14. QED BY <2>4, <2>5, <2>8, <2>9, <2>10, <2>11, <2>12, <2>13 DEF IInv
<1>3. QED BY <1>1, <1>2

(* The datagram read is decoded, and its first flow goes out.              *)
LEMMA DecodeIInv == ASSUME IInv, Decode PROVE IInv'
<1> DEFINE yields == call.kind = "iterate" /\ kinds[data] > 0
<1>1. /\ data \in 1..Len(kinds) /\ Len(yielded) = Len(kinds) /\ Len(kinds) \in Nat
      /\ yielded[data] = 0 /\ yielded \in Seq(Nat) /\ kinds[data] \in Kinds
      /\ pc = "decode"
  BY DEF IInv, Decode, Sequences, Placed, InOrder
<1>2. /\ UNCHANGED <<buffer, waker, stopping, closed, call, ready, stopper, stops,
                     kinds, kept, taken, owed, takenAfterStop>>
      /\ data' = 0 /\ pc' \in {"outside", "check"}
      /\ decoded' \in Nat /\ rejected' \in Nat
      /\ decoded' + rejected' = decoded + rejected + 1
  BY DEF IInv, Scalars, Decode, stopVars
<1>3. /\ yields => /\ pc' = "outside" /\ item' = data /\ left' = kinds[data] - 1
                   /\ yielded' = [yielded EXCEPT ![data] = @ + 1]
      /\ ~yields => /\ UNCHANGED <<item, left, yielded>>
                    /\ call.kind = "iterate" => left = 0
  BY <1>1 DEF IInv, Decode, RestOf, InHand
<1>4. yields => kinds[data] \in Nat /\ kinds[data] >= 1
  BY <1>1, CollectorAssumption DEF Kinds, Rejected
<1>5. /\ yielded' \in Seq(Nat) /\ Len(yielded') = Len(yielded)
      /\ \A n \in 1..Len(kinds) :
           yielded'[n] = IF yields /\ n = data THEN 1 ELSE yielded[n]
  <2>1. CASE yields
    BY <1>1, <1>3, <2>1, ExceptSeq
  <2>2. CASE ~yields
    BY <1>1, <1>3, <2>2
  <2>3. QED BY <2>1, <2>2
<1> HIDE DEF yields
<1>6. Scalars'
  <2>1. item' \in Nat /\ left' \in Nat
    BY <1>1, <1>3, <1>4 DEF IInv, Scalars
  <2>2. QED BY <1>2, <2>1 DEF IInv, Scalars, Places
<1>7. Sequences' /\ Placed'
  <2>1. Sequences /\ Placed
    BY DEF IInv
  <2>2. Sequences'
    BY <1>2, <1>5, <2>1 DEF Sequences
  <2>3. item' \in 0..Len(kinds)
    BY <1>1, <1>3, <2>1 DEF Placed
  <2>4. pc' # "decode"
    BY <1>2
  <2>5. QED BY <1>2, <1>5, <2>1, <2>2, <2>3, <2>4 DEF Placed
<1>8. InOrder'
  <2>1. \A i, j \in 1..Len(buffer) : i < j => buffer[i] < buffer[j]
    BY DEF IInv, InOrder
  <2>2. ASSUME NEW i \in 1..Len(buffer), NEW n \in 1..Len(kinds), n >= buffer[i]
        PROVE  yielded'[n] = 0
    <3>1. yielded[n] = 0 /\ data < buffer[i] /\ buffer[i] \in 1..Len(kinds)
      BY <1>1, <2>2 DEF IInv, InOrder, Placed
    <3>2. n # data
      BY <1>1, <2>2, <3>1
    <3>3. QED BY <1>5, <3>1, <3>2
  <2>3. QED BY <1>2, <2>1, <2>2 DEF InOrder
<1>9. InHand'
  <2>1. CASE yields
    BY <1>1, <1>3, <1>5, <2>1 DEF InHand
  <2>2. CASE ~yields
    BY <1>2, <1>3, <2>2 DEF IInv, InHand
  <2>3. QED BY <2>1, <2>2
<1>10. OwedIsThere' /\ ReadsNoMore'
  BY <1>1, <1>2 DEF IInv, OwedIsThere, ReadsNoMore
<1>11. EveryDatagramOnce'
  <2>1. decoded' + rejected' = Len(taken')
    BY <1>1, <1>2 DEF IInv, Scalars, EveryDatagramOnce
  <2>2. decoded' + rejected' + 0 = Len(taken')
    <3>1. decoded' \in Nat /\ rejected' \in Nat
      BY <1>2
    <3>2. decoded' + rejected' + 0 = decoded' + rejected'
      BY <3>1
    <3>3. QED BY <2>1, <3>2
  <2>3. pc' # "decode" /\ (~closed' => taken' \o buffer' = kept')
    BY <1>2 DEF IInv, EveryDatagramOnce
  <2>4. QED BY <2>2, <2>3 DEF EveryDatagramOnce
<1>12. MessageYieldedWhole'
  <2>1. CASE yields
    <3>1. ASSUME NEW n \in 1..Len(kinds), yielded'[n] > 0
          PROVE  yielded'[n] + (IF n = data THEN kinds[data] - 1 ELSE 0) = kinds[n]
      <4>1. CASE n = data
        BY <1>4, <1>5, <2>1, <4>1
      <4>2. CASE n # data
        <5>1. yielded[n] > 0 /\ yielded'[n] = yielded[n]
          BY <1>5, <3>1, <4>2
        <5>2. left = 0
          BY <1>1, <2>1 DEF IInv, InHand, yields
        <5>3. yielded[n] \in Nat /\ yielded[n] + 0 = kinds[n]
          BY <1>1, <5>1, <5>2 DEF IInv, MessageYieldedWhole
        <5>4. QED BY <4>2, <5>1, <5>3
      <4>3. QED BY <4>1, <4>2
    <3>2. QED BY <1>2, <1>3, <2>1, <3>1 DEF MessageYieldedWhole
  <2>2. CASE ~yields
    BY <1>2, <1>3, <2>2 DEF IInv, MessageYieldedWhole
  <2>3. QED BY <2>1, <2>2
<1>13. QED BY <1>6, <1>7, <1>8, <1>9, <1>10, <1>11, <1>12 DEF IInv

-----------------------------------------------------------------------------
LEMMA NextIInv == IInv /\ [Next]_vars => IInv'
<1> SUFFICES ASSUME IInv, [Next]_vars PROVE IInv'
  OBVIOUS
<1>1. ASSUME NEW kind \in Kinds, Arrive(kind) PROVE IInv'
  BY <1>1, ArriveIInv
<1>2. ASSUME NEW t \in Stoppers, Flag(t) \/ Wake(t) PROVE IInv'
  BY <1>2, FlagIInv, WakeIInv
<1>3. CASE NextFlow
  BY <1>3, NextFlowIInv
<1>4. ASSUME NEW timed \in Timed, NextMessage(timed) \/ Poll(timed) PROVE IInv'
  <2>1. timed \in BOOLEAN
    BY CollectorAssumption
  <2>2. QED BY <1>4, <2>1, NextMessageIInv, PollIInv
<1>5. CASE Close
  BY <1>5, CloseIInv
<1>6. CASE Inside
  BY <1>6, CheckIInv, SelectIInv, DrainIInv, GoRoundIInv, ReceiveIInv, DecodeIInv DEF Inside
<1>7. CASE SelectSpurious
  BY <1>7, SelectIInv
<1>8. CASE Expire
  BY <1>8, ExpireIInv
<1>9. CASE UNCHANGED vars
  <2>1. Quiet
    BY <1>9 DEF IInv, Quiet, InHand, vars, reader, ghosts, counts
  <2>2. Scalars'
    BY <1>9 DEF IInv, Scalars, vars, reader, counts, stopVars, ghosts
  <2>3. ready' \in Seq({"socket", "waker"}) /\ OwedIsThere' /\ ReadsNoMore'
    BY <1>9 DEF IInv, Sequences, OwedIsThere, ReadsNoMore, vars, reader, ghosts
  <2>4. QED BY <2>1, <2>2, <2>3, QuietKeeps
<1>10. QED BY <1>1, <1>2, <1>3, <1>4, <1>5, <1>6, <1>7, <1>8, <1>9 DEF Next

(* Every variable has its type, however many threads call stop().          *)
THEOREM CollectorTypes == Spec => []TypeOK
<1>1. IInv => TypeOK
  BY TypesSplit DEF IInv
<1>2. QED BY <1>1, InitIInv, NextIInv, PTL DEF Spec

(* What the kernel keeps is read once, in order, and decoded or rejected.  *)
THEOREM NoDatagramLost == Spec => []EveryDatagramOnce
<1>1. IInv => EveryDatagramOnce
  BY DEF IInv
<1>2. QED BY <1>1, InitIInv, NextIInv, PTL DEF Spec

(* A poll that began with a datagram waiting comes back with one, whatever *)
(* wakeups lie in front of it and whatever its timeout.                    *)
THEOREM PollsAnswer == Spec => []PollAnswersWaiting
<1>1. IInv => PollAnswersWaiting
  BY DEF IInv, OwedIsThere, PollAnswersWaiting
<1>2. QED BY <1>1, InitIInv, NextIInv, PTL DEF Spec

(* Iteration reads at most one datagram after stop() has set its flag.     *)
THEOREM StopsSoon == Spec => []StopsAfterOne
<1>1. IInv => StopsAfterOne
  BY DEF IInv, ReadsNoMore, StopsAfterOne
<1>2. QED BY <1>1, InitIInv, NextIInv, PTL DEF Spec

(* Iteration hands a message over whole, or has the rest of it in hand.    *)
THEOREM MessagesWhole == Spec => []MessageYieldedWhole
<1>1. IInv => MessageYieldedWhole
  BY DEF IInv
<1>2. QED BY <1>1, InitIInv, NextIInv, PTL DEF Spec

-----------------------------------------------------------------------------
(* An iterator that is stopped comes back: what of StopEndsWait needs no   *)
(* fairness.                                                               *)
StopAwaited == stopping /\ call.kind = "iterate" /\ pc # "outside"

(* No wakeup is lost: an iterator that waits although it is to stop has a  *)
(* wake byte to wait for, or a thread about to send one and room for it.   *)
WakeupOnItsWay ==
  StopAwaited /\ pc = "select" =>
    waker > 0 \/ \E t \in Stoppers : stopper[t] = "flagged" /\ RoomToWake

(* How many steps the reader can still take before it is with its caller.  *)
TurnsLeft == CASE pc = "select" -> 6
               [] pc = "handle" -> Len(ready) + 3
               [] pc = "decode" -> 2
               [] pc = "check"  -> 1
               [] OTHER -> 0

(* Once it is to stop each step of the reader, six at most, brings it      *)
(* nearer, and no arrival, wakeup, timeout or further stop takes it back.  *)
StoppedGetsOn ==
  [][StopAwaited => /\ TurnsLeft <= 6 /\ TurnsLeft' <= TurnsLeft
                    /\ Inside => TurnsLeft' < TurnsLeft]_vars

LEMMA FewReported ==
  ASSUME NEW R \in SUBSET {"socket", "waker"},
         NEW s \in [1..Cardinality(R) -> R]
  PROVE  Len(s) \in 0..2
<1> DEFINE n == Cardinality(R)
<1>1. IsFiniteSet({"socket"}) /\ Cardinality({"socket"}) = 1
  BY FS_Singleton
<1>2. /\ {"socket", "waker"} = {"socket"} \cup {"waker"}
      /\ "waker" \notin {"socket"}
  OBVIOUS
<1>3. /\ IsFiniteSet({"socket", "waker"})
      /\ Cardinality({"socket", "waker"}) = 2
  <2>1. /\ IsFiniteSet({"socket"} \cup {"waker"})
        /\ Cardinality({"socket"} \cup {"waker"})
             = Cardinality({"socket"}) + 1
    BY <1>1, <1>2, FS_AddElement
  <2>2. QED BY <1>1, <1>2, <2>1
<1>4. n \in Nat /\ n <= 2
  BY <1>3, FS_Subset, FS_CardinalityType
<1> HIDE DEF n
<1>5. s \in [1..n -> R]
  BY DEF n
<1>6. Len(s) = n
  BY <1>4, <1>5
<1>7. QED BY <1>4, <1>6

(* Nothing waits on a closed collector.                                    *)
ClosedWaitsNot == closed => pc \in {"outside", "check"}

LEMMA ClosedStays ==
  IInv /\ ClosedWaitsNot /\ [Next]_vars => ClosedWaitsNot'
<1> SUFFICES ASSUME ClosedWaitsNot, [Next]_vars, closed'
             PROVE  pc' \in {"outside", "check"}
  BY DEF ClosedWaitsNot
<1>1. CASE Close
  BY <1>1 DEF Close, reader
<1>2. CASE ~Close
  <2>1. closed /\ pc \in {"outside", "check"}
    BY <1>2 DEF ClosedWaitsNot, Next, Arrive, Flag, Wake, NextFlow, NextMessage,
                Poll, Inside, Check, Select, SelectSpurious, Return, Drain,
                GoRound, Receive, Decode, Expire, vars
  <2>2. ~Select /\ ~SelectSpurious /\ ~Expire /\ ~Drain /\ ~GoRound
        /\ ~Receive /\ ~Decode
    BY <2>1 DEF Select, SelectSpurious, Return, Expire, Drain, GoRound, Receive,
                Decode
  <2>3. CASE Check
    BY <2>1, <2>3 DEF Check, GoesOn
  <2>4. ASSUME NEW timed \in Timed, NextMessage(timed) \/ Poll(timed)
        PROVE  pc' \in {"outside", "check"}
    BY <2>1, <2>4 DEF NextMessage, Poll
  <2>5. ASSUME \/ UNCHANGED vars \/ NextFlow
               \/ \E kind \in Kinds : Arrive(kind)
               \/ \E t \in Stoppers : Flag(t) \/ Wake(t)
        PROVE  pc' \in {"outside", "check"}
    BY <2>1, <2>5 DEF NextFlow, Arrive, Flag, Wake, vars, reader
  <2>6. QED BY <1>2, <2>2, <2>3, <2>4, <2>5 DEF Next, Inside
<1>3. QED BY <1>1, <1>2

LEMMA WakeupComes ==
  IInv /\ ClosedWaitsNot /\ WakeupOnItsWay /\ [Next]_vars => WakeupOnItsWay'
<1> SUFFICES ASSUME IInv, ClosedWaitsNot, WakeupOnItsWay, [Next]_vars,
                    StopAwaited', pc' = "select"
             PROVE  \/ waker' > 0
                    \/ \E t \in Stoppers : stopper'[t] = "flagged" /\ RoomToWake'
  BY DEF WakeupOnItsWay
<1> USE DEF StopAwaited
<1>1. /\ waker \in 0..WakerRoom /\ WakerRoom \in 1..4096
      /\ stopper \in [Stoppers -> {"idle", "flagged"}]
  BY CollectorAssumption DEF IInv, Scalars
<1>2. ASSUME UNCHANGED <<waker, stopping, closed, pc, call, stopper>>
      PROVE  \/ waker' > 0
             \/ \E t \in Stoppers : stopper'[t] = "flagged" /\ RoomToWake'
  BY <1>2 DEF WakeupOnItsWay, RoomToWake
<1>3. ASSUME NEW kind \in Kinds, Arrive(kind)
      PROVE  UNCHANGED <<waker, stopping, closed, pc, call, stopper>>
  BY <1>3 DEF Arrive, reader, stopVars
<1>4. ASSUME NEW t \in Stoppers, Flag(t)
      PROVE  \/ waker' > 0
             \/ \E u \in Stoppers : stopper'[u] = "flagged" /\ RoomToWake'
  <2>1. stopper'[t] = "flagged" /\ UNCHANGED <<waker, closed>>
    BY <1>1, <1>4 DEF Flag
  <2>2. waker' > 0 \/ RoomToWake'
    BY <1>1, <2>1 DEF RoomToWake
  <2>3. QED BY <2>1, <2>2
<1>5. ASSUME NEW t \in Stoppers, Wake(t) PROVE waker' > 0
  <2>1. ~closed
    BY <1>5 DEF Wake, reader, ClosedWaitsNot
  <2>2. QED BY <1>1, <1>5, <2>1 DEF Wake
<1>6. \/ UNCHANGED vars
      \/ \E kind \in Kinds : Arrive(kind)
      \/ \E t \in Stoppers : Flag(t) \/ Wake(t)
  <2>1. ~Check
    BY DEF Check, GoesOn
  <2>2. ~GoRound
    BY DEF GoRound, GivesUp, NothingRead
  <2>3. ~NextFlow /\ ~Close
    BY DEF NextFlow, Close, reader
  <2>4. ASSUME NEW timed \in Timed PROVE ~NextMessage(timed) /\ ~Poll(timed)
    <3>1. [kind |-> "poll", timed |-> timed].kind = "poll"
      OBVIOUS
    <3>2. QED BY <3>1 DEF NextMessage, Poll
  <2>5. ~Select /\ ~SelectSpurious /\ ~Expire
    BY DEF Select, SelectSpurious, Return, Expire, NothingRead
  <2>6. ~Drain /\ ~Receive /\ ~Decode
    BY DEF Drain, Receive, HandOn, NothingRead, Decode
  <2>7. QED BY <2>1, <2>2, <2>3, <2>4, <2>5, <2>6 DEF Next, Inside
<1>7. CASE UNCHANGED vars
  BY <1>2, <1>7 DEF vars, reader, stopVars
<1>8. QED BY <1>2, <1>3, <1>4, <1>5, <1>6, <1>7

(* _receive's wait and stop()'s order, flag first and byte second: an      *)
(* iterator never waits on after a stop with no byte there and none coming *)
(* (collector.py:328), though polls and earlier rounds drain the waker.    *)
THEOREM NoWakeupLost == Spec => []WakeupOnItsWay
<1>1. Init => ClosedWaitsNot /\ WakeupOnItsWay
  BY DEF Init, ClosedWaitsNot, WakeupOnItsWay
<1>2. QED BY <1>1, InitIInv, NextIInv, ClosedStays, WakeupComes, PTL DEF Spec

(* The selector watches two sockets.                                       *)
FewReady == ready \in Seq({"socket", "waker"}) /\ Len(ready) <= 2

LEMMA ReadyStaysFew == FewReady /\ [Next]_vars => FewReady'
<1> SUFFICES ASSUME FewReady, [Next]_vars, ready' # ready PROVE FewReady'
  BY DEF FewReady
<1>1. ASSUME ready' = <<>> PROVE FewReady'
  BY <1>1 DEF FewReady
<1>2. ASSUME NEW R \in SUBSET {"socket", "waker"}, Return(R) PROVE FewReady'
  <2> DEFINE s == ready'
  <2>1. s \in [1..Cardinality(R) -> R] /\ {s[i] : i \in DOMAIN s} = R
    BY <1>2 DEF Return
  <2> HIDE DEF s
  <2>2. s \in Seq({"socket", "waker"})
    BY <2>1, Reported
  <2>3. Len(s) <= 2
    BY <2>1, FewReported
  <2>4. QED BY <2>2, <2>3 DEF FewReady, s
<1>3. CASE Select \/ SelectSpurious
  <2>1. Readable \in SUBSET {"socket", "waker"}
        /\ Readable \cup {"socket"} \in SUBSET {"socket", "waker"}
    BY DEF Readable
  <2>2. QED BY <1>2, <1>3, <2>1 DEF Select, SelectSpurious
<1>4. CASE Drain
  <2>1. ready # <<>> /\ ready' = Tail(ready)
    BY <1>4 DEF Drain
  <2>2. ready' \in Seq({"socket", "waker"}) /\ Len(ready') = Len(ready) - 1
    BY <2>1, HeadTailProperties DEF FewReady
  <2>3. QED BY <2>2 DEF FewReady
<1>5. CASE GoRound \/ Receive \/ Expire
  BY <1>1, <1>5 DEF GoRound, Receive, HandOn, Expire, NothingRead
<1>6. QED
  BY <1>3, <1>4, <1>5
     DEF Next, Arrive, Flag, Wake, NextFlow, NextMessage, Poll, Close, Inside,
         Check, Decode, vars, reader

(* A step of the reader that is to stop.                                   *)
LEMMA InsideGetsOn ==
  ASSUME IInv, StopAwaited, Inside \/ SelectSpurious \/ Expire
  PROVE  TurnsLeft' < TurnsLeft
<1> USE DEF StopAwaited, TurnsLeft
<1>1. Len(ready) \in Nat
  BY DEF IInv, Sequences
<1>2. CASE Check
  BY <1>2 DEF Check, GoesOn
<1>3. ASSUME NEW R \in SUBSET {"socket", "waker"}, Return(R)
      PROVE  TurnsLeft' < TurnsLeft
  <2>1. /\ ready' \in [1..Cardinality(R) -> R]
        /\ pc = "select" /\ pc' = "handle"
    BY <1>3 DEF Return
  <2> DEFINE n == Len(ready')
  <2>2. n \in 0..2
    BY <2>1, FewReported
  <2>3. TurnsLeft = 6 /\ TurnsLeft' = n + 3
    BY <2>1
  <2> HIDE DEF n, TurnsLeft
  <2>4. n + 3 < 6
    BY <2>2
  <2>5. QED BY <2>3, <2>4
<1>4. CASE Select \/ SelectSpurious
  <2>1. Readable \in SUBSET {"socket", "waker"}
        /\ Readable \cup {"socket"} \in SUBSET {"socket", "waker"}
    BY DEF Readable
  <2>2. QED BY <1>3, <1>4, <2>1 DEF Select, SelectSpurious
<1>5. CASE Drain
  <2>1. /\ pc = "handle" /\ pc' = "handle" /\ Len(ready') = Len(ready) - 1
    BY <1>5, HeadTailProperties DEF Drain, IInv, Sequences
  <2>2. QED BY <1>1, <2>1
<1>6. CASE GoRound
  <2>1. GivesUp
    BY DEF GivesUp
  <2>2. pc = "handle" /\ pc' = "check"
    BY <1>6, <2>1 DEF GoRound, NothingRead
  <2>3. QED BY <1>1, <2>2
<1>7. CASE Receive
  <2>1. pc = "handle" /\ pc' \in {"check", "decode"}
    BY <1>7 DEF Receive, HandOn, NothingRead
  <2>2. QED BY <1>1, <2>1
<1>8. CASE Decode
  <2>1. pc = "decode" /\ pc' \in {"check", "outside"}
    BY <1>8 DEF Decode
  <2>2. QED BY <2>1
<1>9. CASE Expire
  BY <1>9 DEF Expire, NothingRead
<1>10. QED BY <1>2, <1>4, <1>5, <1>6, <1>7, <1>8, <1>9 DEF Inside

(* The read loop of an iterator that is to stop is nearer its end with     *)
(* each step, six at most, for any number of stopping threads and whatever *)
(* arrives: what is left to fairness is that it takes them.                *)
THEOREM StopIsHeeded == Spec => StoppedGetsOn
<1>1. ASSUME IInv, FewReady, [Next]_vars, StopAwaited
      PROVE  /\ TurnsLeft <= 6 /\ TurnsLeft' <= TurnsLeft
             /\ Inside => TurnsLeft' < TurnsLeft
  <2>1. TurnsLeft \in Nat /\ TurnsLeft' \in Nat
    <3>1. IInv'
      BY <1>1, NextIInv
    <3>2. ready \in Seq({"socket", "waker"}) /\ ready' \in Seq({"socket", "waker"})
      BY <1>1, <3>1 DEF IInv, Sequences
    <3>3. QED BY <3>2 DEF TurnsLeft
  <2>2. ASSUME Inside \/ SelectSpurious \/ Expire
        PROVE  TurnsLeft' <= TurnsLeft /\ TurnsLeft' < TurnsLeft
    BY <1>1, <2>1, <2>2, InsideGetsOn
  <2>3. ASSUME ~(Inside \/ SelectSpurious \/ Expire)
        PROVE  TurnsLeft' <= TurnsLeft /\ ~Inside
    <3>1. UNCHANGED <<pc, ready>>
      BY <1>1, <2>3 DEF Next, Arrive, Flag, Wake, NextFlow, NextMessage, Poll,
                        Close, StopAwaited, vars, reader
    <3>2. TurnsLeft' = TurnsLeft
      BY <3>1 DEF TurnsLeft
    <3>3. QED BY <2>1, <2>3, <3>2
  <2>4. TurnsLeft <= 6
    <3> DEFINE n == Len(ready)
    <3>1. n \in Nat /\ n <= 2
      BY <1>1 DEF FewReady
    <3>2. TurnsLeft \in {6, n + 3, 2, 1, 0}
      BY DEF TurnsLeft
    <3> HIDE DEF n
    <3>3. QED BY <3>1, <3>2
  <2>5. QED BY <2>2, <2>3, <2>4
<1>2. IInv /\ FewReady /\ [Next]_vars
        => [StopAwaited => /\ TurnsLeft <= 6 /\ TurnsLeft' <= TurnsLeft
                           /\ Inside => TurnsLeft' < TurnsLeft]_vars
  BY <1>1
<1>3. Init => FewReady
  BY DEF Init, FewReady
<1>4. QED
  BY <1>2, <1>3, InitIInv, NextIInv, ReadyStaysFew, PTL DEF Spec, StoppedGetsOn
=============================================================================
