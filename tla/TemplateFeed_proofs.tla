------------------------- MODULE TemplateFeed_proofs ------------------------
(***************************************************************************)
(* That a template store keeps the working set, stays within its ceiling   *)
(* and accounts for every event, for any number of template ids, any       *)
(* ceilings and any behaviour of the exporters.                            *)
(***************************************************************************)
EXTENDS TemplateFeed, RecencyOrder_proofs

(* Used later means standing later in the order.                           *)
Newer == NewerIn(order, since)

(* A template declared and no longer held was passed by a whole tableful   *)
(* of others since it was last used.                                       *)
Passed == \A k \in Keys : declared[k] # NoEntry /\ k \notin ToSet(order) =>
                            Cardinality(since[k]) >= MaxTemplates

Current == \A k \in ToSet(order) : held[k] = declared[k]

FewUsed == \A k \in Keys : IsFiniteSet(since[k])

(* The inductive invariant.  WorkingSetKept alone is not inductive: it     *)
(* does not say that the key an eviction takes is the one least recently   *)
(* used, nor that a key outside the working set stays outside it.          *)
IInv == /\ TypeOK /\ TableBounded /\ EventsAccounted
        /\ Newer /\ Passed /\ Current /\ FewUsed

USE StoreAssumption, FeedAssumption

LEMMA InitIInv == Init => IInv
<1> SUFFICES ASSUME Init PROVE IInv
  OBVIOUS
<1> USE DEF Init, StoreInit
<1>1. order = <<>> /\ Len(order) = 0 /\ ToSet(order) = {}
  BY DEF ToSet
<1>2. TypeOK
  BY <1>1 DEF TypeOK, StoreTypeOK
<1>3. TableBounded /\ EventsAccounted
  BY <1>1 DEF TableBounded, NoRepeats, EventsAccounted
<1>4. Newer /\ Passed /\ Current
  BY <1>1 DEF Newer, NewerIn, Passed, Current
<1>5. FewUsed
  BY FS_EmptySet DEF FewUsed
<1>6. QED BY <1>2, <1>3, <1>4, <1>5 DEF IInv

(* Using a key, whether it is declared or read, keeps the history of the   *)
(* others and what the order says of it.                                   *)
LEMMA UseKeepsHistory ==
  ASSUME IInv, NEW k \in Keys,
         order' = Newest(MoveToEnd(order, k), MaxTemplates),
         Used(k),
         \A x \in Keys \ {k} : declared'[x] = declared[x]
  PROVE  /\ Newer' /\ Passed' /\ FewUsed'
         /\ since' \in [Keys -> SUBSET Keys]
<1> DEFINE kept == Newest(MoveToEnd(order, k), MaxTemplates)
           g == UsedSince(Keys, since, k)
<1>1. /\ order \in Seq(Keys) /\ NoRepeats(order) /\ Len(order) <= MaxTemplates
      /\ since \in [Keys -> SUBSET Keys] /\ MaxTemplates \in Nat \ {0}
      /\ NewerIn(order, since) /\ \A x \in Keys : IsFiniteSet(since[x])
  BY DEF IInv, TypeOK, StoreTypeOK, TableBounded, Newer, FewUsed
<1>2. g \in [Keys -> SUBSET Keys] /\ \A x \in Keys : IsFiniteSet(g[x])
  BY <1>1, UseKeepsRecency
<1>3. NewerIn(kept, g)
  BY <1>1, UseKeepsRecency
<1>4. \A x \in ToSet(order) \ ToSet(kept) : Cardinality(g[x]) >= MaxTemplates
  BY <1>1, UseKeepsRecency
<1>5. \A x \in Keys \ {k} : Cardinality(since[x]) >= MaxTemplates =>
                              Cardinality(g[x]) >= MaxTemplates
  BY <1>1, UseKeepsRecency
<1>6. k \in ToSet(kept)
  BY <1>1, BoundedMoveToEnd
<1>7. since' = g
  BY DEF Used, UsedSince
<1>8. order' = kept
  OBVIOUS
<1> HIDE DEF kept, g
<1>9. Passed'
  <2>1. SUFFICES ASSUME NEW x \in Keys, declared'[x] # NoEntry,
                        x \notin ToSet(kept)
                 PROVE  Cardinality(g[x]) >= MaxTemplates
    BY <1>7, <1>8 DEF Passed
  <2>2. x # k /\ declared[x] # NoEntry
    BY <1>6, <2>1
  <2>3. CASE x \in ToSet(order)
    BY <1>4, <2>1, <2>3
  <2>4. CASE x \notin ToSet(order)
    BY <1>5, <2>2, <2>4 DEF IInv, Passed
  <2>5. QED BY <2>3, <2>4
<1>10. QED BY <1>2, <1>3, <1>7, <1>8, <1>9 DEF Newer, FewUsed

(* The event half of a declaration: the queue stays within its bound and   *)
(* what it holds, drops and hands over adds up.                            *)
LEMMA AnnounceAccounts ==
  ASSUME IInv, NEW k \in Keys, NEW e \in Entries,
         NEW previous \in Entries \cup {NoEntry}, Announce(k, e, previous)
  PROVE  /\ events' \in Seq(Event) /\ Len(events') <= MaxPending
         /\ dropped' \in Nat /\ learned' \in Nat
         /\ dropped' + Len(events') = dropped + Len(events) + 1
<1> DEFINE event == [key |-> k, now |-> e, previous |-> previous]
           full == Append(events, event)
<1>1. /\ events \in Seq(Event) /\ dropped \in Nat /\ learned \in Nat
      /\ Len(events) <= MaxPending
  BY DEF IInv, TypeOK, StoreTypeOK, EventsAccounted
<1>2. event \in Event
  BY DEF Event
<1>3. full \in Seq(Event) /\ Len(full) = Len(events) + 1
  BY <1>1, <1>2
<1>4. events' = Newest(full, MaxPending)
  BY DEF Announce
<1> HIDE DEF full
<1>5. /\ events' \in Seq(Event)
      /\ Len(events') = IF Len(full) > MaxPending THEN MaxPending ELSE Len(full)
  BY <1>3, <1>4, NewestProperties
<1>6. /\ dropped' = IF Len(events) = MaxPending THEN dropped + 1 ELSE dropped
      /\ learned' = learned + 1
  BY DEF Announce
<1>7. /\ Len(events) \in Nat /\ Len(events) <= MaxPending
      /\ Len(full) = Len(events) + 1 /\ MaxPending \in Nat
      /\ Len(events') = IF Len(full) > MaxPending THEN MaxPending ELSE Len(full)
      /\ dropped \in Nat /\ learned \in Nat
  BY <1>1, <1>3, <1>5
<1>8. dropped' + Len(events') = dropped + Len(events) + 1
  <2> DEFINE n == Len(events)
             m == Len(events')
  <2>1. CASE Len(events) = MaxPending
    <3>1. m = n /\ n \in Nat /\ dropped' = dropped + 1
      BY <1>6, <1>7, <2>1
    <3> HIDE DEF m, n
    <3>2. dropped' + m = dropped + n + 1
      BY <1>7, <3>1
    <3>3. QED BY <3>2 DEF m, n
  <2>2. CASE Len(events) # MaxPending
    <3>1. m = n + 1 /\ n \in Nat /\ dropped' = dropped
      BY <1>6, <1>7, <2>2
    <3> HIDE DEF m, n
    <3>2. dropped' + m = dropped + n + 1
      BY <1>7, <3>1
    <3>3. QED BY <3>2 DEF m, n
  <2>3. QED BY <2>1, <2>2
<1>9. dropped' \in Nat /\ learned' \in Nat /\ Len(events') <= MaxPending
  BY <1>6, <1>7
<1>10. QED BY <1>5, <1>8, <1>9

LEMMA DeclareIInv ==
  ASSUME IInv, NEW k \in Keys, NEW e \in Entries, Declare(k, e)
  PROVE  IInv'
<1> DEFINE r == MoveToEnd(order, k)
           kept == Newest(r, MaxTemplates)
           old == Lookup(held, k, NoEntry)
<1>1. /\ order \in Seq(Keys) /\ NoRepeats(order) /\ Len(order) <= MaxTemplates
      /\ held \in [ToSet(order) -> Entries]
      /\ learned \in Nat /\ evicted \in Nat /\ dropped \in Nat /\ taken \in Nat
      /\ declared \in [Keys -> Entries \cup {NoEntry}]
      /\ told \in [Keys -> Entries \cup {NoEntry}]
  BY DEF IInv, TypeOK, StoreTypeOK, TableBounded
<1>2. MaxTemplates \in Nat \ {0}
  OBVIOUS
<1>3. kept \in Seq(Keys) /\ NoRepeats(kept) /\ Len(kept) <= MaxTemplates
  BY <1>1, <1>2, BoundedMoveToEnd
<1>4. /\ Len(r) \in Nat /\ Len(kept) <= Len(r) /\ Len(order) <= Len(kept)
      /\ Len(r) <= Len(order) + 1
  BY <1>1, <1>2, BoundedMoveToEnd
<1>5. ToSet(kept) \subseteq ToSet(order) \cup {k} /\ k \in ToSet(kept)
  BY <1>1, <1>2, BoundedMoveToEnd
<1>6. k \in ToSet(order) => Len(r) = Len(order)
  BY <1>1, <1>2, BoundedMoveToEnd
<1>7. /\ order' = kept
      /\ held' = [x \in ToSet(kept) |-> IF x = k THEN e ELSE held[x]]
      /\ evicted' = evicted + Len(r) - Len(kept)
  BY DEF Declare, Put, Hold, Kept
<1> HIDE DEF r, kept
<1>8. ToSet(kept) \subseteq Keys /\ Len(kept) \in Nat /\ Len(order) \in Nat
  BY <1>1, <1>3 DEF ToSet
<1>9. /\ held' \in [ToSet(kept) -> Entries]
      /\ \A x \in ToSet(kept) \ {k} : held'[x] = held[x]
      /\ held'[k] = e
  BY <1>1, <1>5, <1>7
<1>10. /\ declared' = [declared EXCEPT ![k] = e]
       /\ told' = told /\ taken' = taken /\ Used(k)
  BY DEF Declare
<1>11. /\ old \in Entries \cup {NoEntry}
       /\ k \notin ToSet(order) => old = NoEntry
  BY <1>1 DEF Lookup
<1>12. \/ old # e /\ Announce(k, e, old)
       \/ old = e /\ UNCHANGED <<learned, dropped, events>>
  BY DEF Declare, Put
<1> HIDE DEF old
<1>13. /\ Newer' /\ Passed' /\ FewUsed'
       /\ since' \in [Keys -> SUBSET Keys]
  <2>1. \A x \in Keys \ {k} : declared'[x] = declared[x]
    BY <1>1, <1>10
  <2>2. order' = Newest(MoveToEnd(order, k), MaxTemplates)
    BY <1>7 DEF kept, r
  <2>3. QED BY <1>10, <2>1, <2>2, UseKeepsHistory
<1>14. Current'
  <2>1. ASSUME NEW x \in ToSet(kept) PROVE held'[x] = declared'[x]
    <3>1. CASE x = k
      BY <1>1, <1>9, <1>10, <3>1
    <3>2. CASE x # k
      <4>1. x \in ToSet(order) /\ x \in Keys
        BY <1>5, <1>8, <3>2
      <4>2. held[x] = declared[x]
        BY <4>1 DEF IInv, Current
      <4>3. QED BY <1>1, <1>9, <1>10, <3>2, <4>1, <4>2
    <3>3. QED BY <3>1, <3>2
  <2>2. QED BY <1>7, <2>1 DEF Current
<1>15. TableBounded'
  BY <1>3, <1>7, <1>9 DEF TableBounded
<1>16. /\ events' \in Seq(Event) /\ Len(events') <= MaxPending
       /\ dropped' \in Nat /\ learned' \in Nat
       /\ learned' = taken' + dropped' + Len(events')
       /\ evicted' \in Nat /\ evicted' + Len(order') <= learned'
  <2>1. /\ learned = taken + dropped + Len(events)
        /\ evicted + Len(order) <= learned
        /\ events \in Seq(Event) /\ Len(events) <= MaxPending
    BY DEF IInv, TypeOK, StoreTypeOK, EventsAccounted
  <2>2. evicted' \in Nat /\ evicted' + Len(order') = evicted + Len(r)
    BY <1>1, <1>4, <1>7, <1>8
  <2>3. CASE old # e /\ Announce(k, e, old)
    <3>1. /\ events' \in Seq(Event) /\ Len(events') <= MaxPending
          /\ dropped' \in Nat /\ learned' \in Nat
          /\ dropped' + Len(events') = dropped + Len(events) + 1
      BY <1>11, <2>3, AnnounceAccounts
    <3>2. learned' = learned + 1
      BY <2>3 DEF Announce
    <3>3. Len(events) \in Nat /\ Len(events') \in Nat
      BY <2>1, <3>1
    <3>4. learned' = taken' + dropped' + Len(events')
      <4>1. /\ taken \in Nat /\ taken' = taken
            /\ dropped \in Nat /\ dropped' \in Nat
        BY <1>1, <1>10, <3>1
      <4>2. /\ learned = taken + dropped + Len(events)
            /\ dropped' + Len(events') = dropped + Len(events) + 1
        BY <2>1, <3>1
      <4>3. QED BY <3>2, <3>3, <4>1, <4>2
    <3>5. evicted + Len(r) <= learned + 1
      BY <1>1, <1>4, <1>8, <2>1
    <3>6. QED BY <2>2, <3>1, <3>2, <3>4, <3>5
  <2>4. CASE old = e /\ UNCHANGED <<learned, dropped, events>>
    <3>1. k \in ToSet(order)
      BY <1>11, <2>4
    <3>2. Len(r) = Len(order)
      BY <1>6, <3>1
    <3>3. QED BY <1>1, <1>8, <1>10, <2>1, <2>2, <2>4, <3>2
  <2>5. QED BY <1>12, <2>3, <2>4
<1>17. EventsAccounted'
  BY <1>16 DEF EventsAccounted
<1>18. TypeOK'
  <2>1. StoreTypeOK'
    BY <1>3, <1>7, <1>9, <1>16 DEF StoreTypeOK
  <2>2. declared' \in [Keys -> Entries \cup {NoEntry}]
    BY <1>1, <1>10
  <2>3. QED BY <1>1, <1>10, <1>13, <2>1, <2>2 DEF TypeOK
<1>19. QED BY <1>13, <1>14, <1>15, <1>17, <1>18 DEF IInv

LEMMA ReadIInv ==
  ASSUME IInv, NEW k \in Keys, Read(k)
  PROVE  IInv'
<1> DEFINE r == MoveToEnd(order, k)
<1>1. /\ order \in Seq(Keys) /\ NoRepeats(order) /\ Len(order) <= MaxTemplates
      /\ held \in [ToSet(order) -> Entries]
  BY DEF IInv, TypeOK, StoreTypeOK, TableBounded
<1>2. MaxTemplates \in Nat \ {0}
  OBVIOUS
<1>3. k \in ToSet(order) /\ order' = r
  BY <1>1 DEF Read, Get
<1>4. /\ UNCHANGED <<held, learned, evicted, dropped, events>>
      /\ UNCHANGED <<declared, told, taken>> /\ Used(k)
  BY DEF Read, Get
<1>5. r \in Seq(Keys) /\ NoRepeats(r)
  BY <1>1, MoveToEndProperties
<1>6. ToSet(r) = ToSet(order)
  <2>1. ToSet(r) = ToSet(order) \cup {k}
    BY <1>1, MoveToEndProperties
  <2>2. QED BY <1>3, <2>1
<1>7. Newest(r, MaxTemplates) = r /\ Len(r) = Len(order)
  BY <1>1, <1>2, <1>3, BoundedMoveToEnd
<1>8. /\ Newer' /\ Passed' /\ FewUsed'
      /\ since' \in [Keys -> SUBSET Keys]
  <2>1. order' = Newest(MoveToEnd(order, k), MaxTemplates)
    BY <1>3, <1>7
  <2>2. \A x \in Keys \ {k} : declared'[x] = declared[x]
    BY <1>4
  <2>3. QED BY <1>4, <2>1, <2>2, UseKeepsHistory
<1> HIDE DEF r
<1>9. Current'
  BY <1>3, <1>4, <1>6 DEF IInv, Current
<1>10. TableBounded'
  BY <1>1, <1>3, <1>4, <1>5, <1>6, <1>7 DEF TableBounded
<1>11. EventsAccounted'
  BY <1>3, <1>4, <1>7 DEF IInv, EventsAccounted
<1>12. TypeOK'
  <2>1. StoreTypeOK'
    BY <1>3, <1>4, <1>5, <1>6 DEF IInv, TypeOK, StoreTypeOK
  <2>2. QED BY <1>4, <1>8, <2>1 DEF IInv, TypeOK
<1>13. QED BY <1>8, <1>9, <1>10, <1>11, <1>12 DEF IInv

LEMMA TakeIInv ==
  ASSUME IInv, Take
  PROVE  IInv'
<1>1. /\ events' = <<>> /\ taken' = taken + Len(events)
      /\ told' = [k \in Keys |-> ToldAfter(events, k)]
      /\ UNCHANGED <<order, held, learned, evicted, dropped, declared, since>>
  BY DEF Take, TakeEvents
<1>2. /\ events \in Seq(Event) /\ taken \in Nat /\ dropped \in Nat
      /\ told \in [Keys -> Entries \cup {NoEntry}]
  BY DEF IInv, TypeOK, StoreTypeOK
<1>3. ASSUME NEW k \in Keys
      PROVE  ToldAfter(events, k) \in Entries \cup {NoEntry}
  <2> DEFINE about == {i \in 1..Len(events) : events[i].key = k}
  <2>1. CASE about = {}
    BY <1>2, <2>1 DEF ToldAfter
  <2>2. CASE about # {}
    <3> DEFINE last == CHOOSE i \in about : \A j \in about : j <= i
    <3>1. \E i \in about : \A j \in about : j <= i
      <4>1. Len(events) \in Nat /\ about \in SUBSET (1..Len(events))
        BY <1>2
      <4>2. QED BY <2>2, <4>1, LastPosition
    <3>2. last \in 1..Len(events)
      BY <3>1
    <3> HIDE DEF last
    <3>3. events[last] \in Event
      BY <1>2, <3>2
    <3>4. events[last].now \in Entries
      BY <3>3 DEF Event
    <3>5. QED BY <2>2, <3>4 DEF ToldAfter, last
  <2>3. QED BY <2>1, <2>2
<1>4. TypeOK'
  <2>1. told' \in [Keys -> Entries \cup {NoEntry}]
    BY <1>1, <1>3
  <2>2. events' \in Seq(Event) /\ taken' \in Nat
    BY <1>1, <1>2
  <2>3. QED BY <1>1, <2>1, <2>2 DEF IInv, TypeOK, StoreTypeOK
<1>5. EventsAccounted'
  <2>1. Len(events) \in Nat /\ Len(events') = 0
    BY <1>1, <1>2
  <2>2. /\ learned = taken + dropped + Len(events)
        /\ evicted + Len(order) <= learned
    BY DEF IInv, EventsAccounted
  <2>3. learned' = taken' + dropped' + Len(events')
    BY <1>1, <1>2, <2>1, <2>2
  <2>4. QED BY <1>1, <2>1, <2>2, <2>3 DEF EventsAccounted
<1>6. TableBounded' /\ Newer' /\ Passed' /\ Current' /\ FewUsed'
  BY <1>1 DEF IInv, TableBounded, Newer, Passed, Current, FewUsed
<1>7. QED BY <1>4, <1>5, <1>6 DEF IInv

LEMMA NextIInv == IInv /\ [Next]_vars => IInv'
<1> SUFFICES ASSUME IInv, [Next]_vars PROVE IInv'
  OBVIOUS
<1>1. ASSUME NEW k \in Keys, NEW e \in Entries, Declare(k, e) PROVE IInv'
  BY <1>1, DeclareIInv
<1>2. ASSUME NEW k \in Keys, Read(k) PROVE IInv'
  BY <1>2, ReadIInv
<1>3. ASSUME NEW k \in Keys, ReadUnknown(k) PROVE UNCHANGED vars
  BY <1>3 DEF ReadUnknown, Get, vars, storeVars, history
<1>4. CASE Take
  BY <1>4, TakeIInv
<1>5. CASE UNCHANGED vars
  BY <1>5 DEF vars, storeVars, history, IInv, TypeOK, StoreTypeOK, TableBounded,
              EventsAccounted, Newer, Passed, Current, FewUsed
<1>6. QED BY <1>1, <1>2, <1>3, <1>4, <1>5 DEF Next

LEMMA IInvAlways == Spec => []IInv
BY InitIInv, NextIInv, PTL DEF Spec

-----------------------------------------------------------------------------
(* Every variable stays in its type: the table holds entries for exactly   *)
(* the keys of its order, the queue holds events, whatever is declared.    *)
THEOREM TypeCorrect == Spec => []TypeOK
<1>1. IInv => TypeOK
  BY DEF IInv
<1>2. QED BY <1>1, IInvAlways, PTL

(* parse.TemplateStore never passes its ceiling, and its two halves name   *)
(* the same keys (parse.py:155-163).                                       *)
THEOREM TableStaysBounded == Spec => []TableBounded
<1>1. IInv => TableBounded
  BY DEF IInv
<1>2. QED BY <1>1, IInvAlways, PTL

(* An exporter that keeps using its template keeps it, through any flood   *)
(* of declarations (parse.py:213), and a template held is the one last     *)
(* declared.                                                               *)
THEOREM WorkingSetIsKept == Spec => []WorkingSetKept
<1>1. IInv => WorkingSetKept
  <2> SUFFICES ASSUME IInv, NEW k \in Keys
               PROVE  /\ /\ declared[k] # NoEntry
                         /\ Cardinality(since[k]) < MaxTemplates
                         => k \in DOMAIN held
                      /\ k \in DOMAIN held => held[k] = declared[k]
    BY DEF WorkingSetKept
  <2>1. DOMAIN held = ToSet(order)
    BY DEF IInv, TableBounded
  <2>2. k \in DOMAIN held => held[k] = declared[k]
    BY <2>1 DEF IInv, Current
  <2>3. ASSUME declared[k] # NoEntry, k \notin DOMAIN held
        PROVE  ~(Cardinality(since[k]) < MaxTemplates)
    <3>1. Cardinality(since[k]) >= MaxTemplates
      BY <2>1, <2>3 DEF IInv, Passed
    <3>2. Cardinality(since[k]) \in Nat
      BY FS_CardinalityType DEF IInv, FewUsed
    <3>3. QED BY <3>1, <3>2
  <2>4. QED BY <2>2, <2>3
<1>2. QED BY <1>1, IInvAlways, PTL

(* No TemplateLearned event is lost uncounted, whatever the queue's bound  *)
(* (parse.py:169-187), and no template is evicted uncounted.               *)
THEOREM EventsAreAccounted == Spec => []EventsAccounted
<1>1. IInv => EventsAccounted
  BY DEF IInv
<1>2. QED BY <1>1, IInvAlways, PTL

-----------------------------------------------------------------------------
(* What a consumer is told by one more event.                              *)
LEMMA ToldByOneMore ==
  ASSUME NEW es \in Seq(Event), NEW e \in Event, NEW k
  PROVE  ToldAfter(Append(es, e), k) =
           IF e.key = k THEN e.now ELSE ToldAfter(es, k)
<1> DEFINE fs == Append(es, e)
           new == Len(es) + 1
           about == {i \in 1..Len(es) : es[i].key = k}
           aboutNow == {i \in 1..Len(fs) : fs[i].key = k}
<1>1. /\ Len(es) \in Nat /\ Len(fs) = new /\ fs[new] = e
      /\ \A i \in 1..Len(es) : fs[i] = es[i]
  OBVIOUS
<1> HIDE DEF fs
<1>2. CASE e.key = k
  <2>1. new \in aboutNow /\ \A j \in aboutNow : j <= new
    BY <1>1, <1>2
  <2> DEFINE last == CHOOSE i \in aboutNow : \A j \in aboutNow : j <= i
  <2>2. last \in aboutNow /\ \A j \in aboutNow : j <= last
    BY <2>1
  <2>3. last = new
    BY <1>1, <2>1, <2>2
  <2>4. ToldAfter(fs, k) = fs[last].now
    BY <2>1 DEF ToldAfter
  <2>5. QED BY <1>1, <1>2, <2>3, <2>4 DEF fs
<1>3. CASE e.key # k
  <2>1. aboutNow = about
    BY <1>1, <1>3
  <2>2. CASE about = {}
    BY <1>3, <2>1, <2>2 DEF ToldAfter, fs
  <2>3. CASE about # {}
    <3> DEFINE last == CHOOSE i \in about : \A j \in about : j <= i
    <3>1. last \in about
      BY <1>1, <2>3, LastPosition
    <3>2. ToldAfter(es, k) = es[last].now /\ ToldAfter(fs, k) = fs[last].now
      BY <2>1, <2>3 DEF ToldAfter
    <3>3. QED BY <1>1, <1>3, <3>1, <3>2 DEF fs
  <2>4. QED BY <2>2, <2>3
<1>4. QED BY <1>2, <1>3

(* As long as nothing was evicted, the consumer knows of no template the   *)
(* store does not hold.                                                    *)
NoneForgotten == dropped = 0 /\ evicted = 0 =>
  \A k \in Keys \ ToSet(order) : ToldAfter(events, k) = NoEntry

(* Inductive with IInv.  ConsumerCurrent says nothing of the keys that are *)
(* not held, whose next event must chain on as well.                       *)
Told == ConsumerCurrent /\ EventsChain /\ NoneForgotten

LEMMA InitTold == Init => Told
<1> SUFFICES ASSUME Init PROVE Told
  OBVIOUS
<1>1. /\ events = <<>> /\ Len(events) = 0 /\ DOMAIN held = {}
      /\ \A k \in Keys : told[k] = NoEntry
  BY DEF Init, StoreInit
<1>2. \A k \in Keys : ToldAfter(events, k) = NoEntry
  BY <1>1 DEF ToldAfter
<1>3. QED BY <1>1, <1>2 DEF Told, ConsumerCurrent, EventsChain, NoneForgotten

(* An announcement tells the consumer of its key and of no other, and      *)
(* names the entry it knew; a full queue counts what that undoes.          *)
LEMMA AnnounceTells ==
  ASSUME IInv, Told, NEW k \in Keys, NEW e \in Entries,
         e # Lookup(held, k, NoEntry), Announce(k, e, Lookup(held, k, NoEntry)),
         told' = told, evicted' \in Nat, evicted' >= evicted
  PROVE  /\ EventsChain'
         /\ dropped' = 0 =>
              /\ dropped = 0
              /\ \A x : ToldAfter(events, x)' =
                          IF x = k THEN e ELSE ToldAfter(events, x)
<1> DEFINE previous == Lookup(held, k, NoEntry)
           ev == [key |-> k, now |-> e, previous |-> previous]
           full == Append(events, ev)
           new == Len(events) + 1
<1>1. /\ events \in Seq(Event) /\ Len(events) \in Nat /\ Len(events) <= MaxPending
      /\ dropped \in Nat /\ evicted \in Nat /\ held \in [ToSet(order) -> Entries]
  BY DEF IInv, TypeOK, StoreTypeOK, EventsAccounted
<1>2. previous \in Entries \cup {NoEntry}
  BY <1>1 DEF Lookup
<1>3. ev \in Event
  BY <1>2 DEF Event
<1>4. ev.key = k /\ ev.now = e /\ ev.previous = previous /\ ev.now # ev.previous
  OBVIOUS
<1>5. /\ events' = Newest(full, MaxPending)
      /\ dropped' = IF Len(events) = MaxPending THEN dropped + 1 ELSE dropped
  BY DEF Announce
<1>6. dropped = 0 => \/ previous = ToldAfter(events, k)
                     \/ previous = NoEntry /\ evicted > 0
  <2>1. CASE k \in DOMAIN held
    BY <2>1 DEF Told, ConsumerCurrent, Lookup
  <2>2. CASE k \notin DOMAIN held
    BY <1>1, <2>2 DEF Told, NoneForgotten, Lookup
  <2>3. QED BY <2>1, <2>2
<1> HIDE DEF ev, previous
<1>7. /\ full \in Seq(Event) /\ Len(full) = new /\ full[new] = ev
      /\ \A i \in 1..Len(events) : full[i] = events[i]
  BY <1>1, <1>3
<1>8. \A i \in 1..new : SubSeq(full, 1, i - 1) = SubSeq(events, 1, i - 1)
  BY <1>1, <1>3, <1>7
<1>9. SubSeq(events, 1, new - 1) = events
  BY <1>1
<1>10. dropped' = 0 => dropped = 0 /\ events' = full
  BY <1>1, <1>5, <1>7 DEF Newest
<1>11. \A x : ToldAfter(full, x) = IF x = k THEN e ELSE ToldAfter(events, x)
  BY <1>1, <1>3, <1>4, ToldByOneMore
<1> HIDE DEF full
<1>12. \A es, x : ToldAfter(es, x)' = ToldAfter(es, x)
  BY DEF ToldAfter
<1>13. ASSUME NEW i \in 1..Len(events') PROVE events'[i].now # events'[i].previous
  <2>1. \A j \in 1..new : full[j].now # full[j].previous
    BY <1>1, <1>4, <1>7 DEF Told, EventsChain
  <2>2. /\ events' \in Seq(Event)
        /\ i + (Len(full) - Len(events')) \in 1..Len(full)
        /\ events'[i] = full[i + (Len(full) - Len(events'))]
    BY <1>5, <1>7, NewestProperties
  <2>3. QED BY <1>7, <2>1, <2>2
<1>14. ASSUME dropped' = 0, NEW i \in 1..new
       PROVE  LET before == ToldAfter(SubSeq(full, 1, i - 1), full[i].key)
              IN  \/ full[i].previous = before
                  \/ full[i].previous = NoEntry /\ evicted' > 0
  <2> DEFINE before == ToldAfter(SubSeq(full, 1, i - 1), full[i].key)
  <2>1. evicted > 0 => evicted' > 0
    BY <1>1
  <2>2. CASE i = new
    <3>1. full[i].key = k /\ full[i].previous = previous
      BY <1>4, <1>7, <2>2
    <3>2. SubSeq(full, 1, i - 1) = events
      BY <1>8, <1>9, <2>2
    <3>3. before = ToldAfter(events, k)
      BY <3>1, <3>2
    <3> HIDE DEF before
    <3>4. QED BY <1>6, <1>10, <1>14, <2>1, <3>1, <3>3 DEF before
  <2>3. CASE i \in 1..Len(events)
    <3>1. full[i] = events[i]
      BY <1>7, <2>3
    <3>2. before = ToldAfter(SubSeq(events, 1, i - 1), events[i].key)
      BY <1>8, <3>1
    <3> HIDE DEF before
    <3>3. \/ events[i].previous = before
          \/ events[i].previous = NoEntry /\ evicted > 0
      BY <1>10, <1>14, <2>3, <3>2 DEF Told, EventsChain
    <3>4. QED BY <2>1, <3>1, <3>3 DEF before
  <2>4. QED BY <1>1, <2>2, <2>3
<1>15. EventsChain'
  <2> SUFFICES ASSUME NEW i \in 1..Len(events'), dropped' = 0
               PROVE  LET before == ToldAfter(SubSeq(events', 1, i - 1), events'[i].key)
                      IN  \/ events'[i].previous = before
                          \/ events'[i].previous = NoEntry /\ evicted' > 0
    BY <1>12, <1>13 DEF EventsChain
  <2>1. events' = full /\ i \in 1..new
    BY <1>7, <1>10
  <2>2. QED BY <1>14, <2>1
<1>16. ASSUME dropped' = 0, NEW x
       PROVE  ToldAfter(events, x)' = IF x = k THEN e ELSE ToldAfter(events, x)
  <2>1. events' = full
    BY <1>10, <1>16
  <2>2. ToldAfter(events, x)' = ToldAfter(full, x)
    BY <2>1 DEF ToldAfter
  <2>3. QED BY <1>11, <2>2
<1>17. QED BY <1>10, <1>15, <1>16

LEMMA DeclareTold ==
  ASSUME IInv, Told, NEW k \in Keys, NEW e \in Entries, Declare(k, e)
  PROVE  Told'
<1> DEFINE r == MoveToEnd(order, k)
           kept == Newest(r, MaxTemplates)
           old == Lookup(held, k, NoEntry)
<1>1. /\ order \in Seq(Keys) /\ NoRepeats(order) /\ Len(order) <= MaxTemplates
      /\ MaxTemplates \in Nat \ {0}
  BY DEF IInv, TypeOK, StoreTypeOK, TableBounded
<1>2. held \in [ToSet(order) -> Entries] /\ evicted \in Nat
  BY DEF IInv, TypeOK, StoreTypeOK
<1>3. Len(r) \in Nat /\ Len(kept) <= Len(r) /\ kept \in Seq(Keys)
  BY <1>1, BoundedMoveToEnd
<1>4. ToSet(kept) \subseteq ToSet(order) \cup {k} /\ k \in ToSet(kept)
  BY <1>1, BoundedMoveToEnd
<1>5. ToSet(r) = ToSet(order) \cup {k}
  BY <1>1, MoveToEndProperties
<1>6. Len(r) = Len(kept) => kept = r
  BY <1>1, <1>3 DEF Newest
<1>7. /\ order' = kept /\ told' = told
      /\ held' = [x \in ToSet(kept) |-> IF x = k THEN e ELSE held[x]]
      /\ evicted' = evicted + Len(r) - Len(kept)
  BY DEF Declare, Put, Hold, Kept
<1> HIDE DEF r, kept
<1>8. Len(kept) \in Nat
  BY <1>3
<1>9. /\ evicted' \in Nat /\ evicted' >= evicted
      /\ evicted' = 0 => evicted = 0 /\ kept = r
  BY <1>2, <1>3, <1>6, <1>7, <1>8
<1>10. /\ EventsChain'
       /\ dropped' = 0 =>
            /\ dropped = 0
            /\ \A x : ToldAfter(events, x)' =
                        IF x = k THEN e ELSE ToldAfter(events, x)
  <2>1. CASE old # e /\ Announce(k, e, old)
    BY <1>7, <1>9, <2>1, AnnounceTells
  <2>2. CASE old = e /\ UNCHANGED <<learned, dropped, events>>
    <3>1. k \in DOMAIN held /\ held[k] = e
      BY <2>2 DEF Lookup
    <3>2. \A es, x : ToldAfter(es, x)' = ToldAfter(es, x)
      BY <1>7 DEF ToldAfter
    <3>3. \A x : ToldAfter(events, x)' = ToldAfter(events, x)
      BY <1>7, <2>2 DEF ToldAfter
    <3>4. evicted > 0 => evicted' > 0
      BY <1>2, <1>9
    <3>5. EventsChain'
      BY <2>2, <3>2, <3>4 DEF Told, EventsChain
    <3>6. dropped = 0 => ToldAfter(events, k) = e
      BY <3>1 DEF Told, ConsumerCurrent
    <3>7. QED BY <2>2, <3>3, <3>5, <3>6
  <2>3. QED BY <2>1, <2>2 DEF Declare, Put
<1>11. ConsumerCurrent'
  <2> SUFFICES ASSUME dropped' = 0, NEW x \in ToSet(kept)
               PROVE  ToldAfter(events, x)' = held'[x]
    BY <1>7 DEF ConsumerCurrent
  <2>1. CASE x = k
    BY <1>7, <1>10, <2>1
  <2>2. CASE x # k
    <3>1. x \in DOMAIN held /\ held'[x] = held[x]
      BY <1>2, <1>4, <1>7, <2>2
    <3>2. QED BY <1>10, <2>2, <3>1 DEF Told, ConsumerCurrent
  <2>3. QED BY <2>1, <2>2
<1>12. NoneForgotten'
  <2> SUFFICES ASSUME dropped' = 0, evicted' = 0, NEW x \in Keys \ ToSet(kept)
               PROVE  ToldAfter(events, x)' = NoEntry
    BY <1>7 DEF NoneForgotten
  <2>1. evicted = 0 /\ x \notin ToSet(order) /\ x # k
    BY <1>5, <1>9
  <2>2. QED BY <1>10, <2>1 DEF Told, NoneForgotten
<1>13. QED BY <1>10, <1>11, <1>12 DEF Told

LEMMA NextTold == IInv /\ Told /\ [Next]_vars => Told'
<1> SUFFICES ASSUME IInv, Told, [Next]_vars PROVE Told'
  OBVIOUS
<1>1. ASSUME ToSet(order') = ToSet(order),
             UNCHANGED <<held, evicted, dropped, events, told>>
      PROVE  Told'
  <2>1. \A es, x : ToldAfter(es, x)' = ToldAfter(es, x)
    BY <1>1 DEF ToldAfter
  <2>2. \A x : ToldAfter(events, x)' = ToldAfter(events, x)
    BY <1>1 DEF ToldAfter
  <2>3. EventsChain'
    BY <1>1, <2>1 DEF Told, EventsChain
  <2>4. QED BY <1>1, <2>2, <2>3 DEF Told, ConsumerCurrent, NoneForgotten
<1>2. ASSUME NEW k \in Keys, Read(k) PROVE Told'
  <2>1. /\ order \in Seq(Keys) /\ NoRepeats(order) /\ DOMAIN held = ToSet(order)
    BY DEF IInv, TypeOK, StoreTypeOK, TableBounded
  <2>2. ToSet(MoveToEnd(order, k)) = ToSet(order) \cup {k}
    BY <2>1, MoveToEndProperties
  <2>3. /\ order' = MoveToEnd(order, k) /\ k \in ToSet(order)
        /\ UNCHANGED <<held, evicted, dropped, events, told>>
    BY <1>2, <2>1 DEF Read, Get
  <2>4. QED BY <1>1, <2>2, <2>3
<1>3. ASSUME NEW k \in Keys, ReadUnknown(k) PROVE Told'
  BY <1>1, <1>3 DEF ReadUnknown, Get, history
<1>4. CASE Take
  <2>1. /\ events' = <<>> /\ told' = [k \in Keys |-> ToldAfter(events, k)]
        /\ UNCHANGED <<order, held, evicted, dropped>>
    BY <1>4 DEF Take, TakeEvents
  <2>2. \A k \in Keys : ToldAfter(events, k)' = ToldAfter(events, k)
    BY <2>1 DEF ToldAfter
  <2>3. DOMAIN held \subseteq Keys
    BY DEF IInv, TypeOK, StoreTypeOK, ToSet
  <2>4. EventsChain'
    BY <2>1 DEF EventsChain
  <2>5. QED BY <2>1, <2>2, <2>3, <2>4 DEF Told, ConsumerCurrent, NoneForgotten
<1>5. CASE UNCHANGED vars
  BY <1>1, <1>5 DEF vars, storeVars, history
<1>6. QED BY <1>2, <1>3, <1>4, <1>5, DeclareTold DEF Next

LEMMA ToldAlways == Spec => []Told
BY InitTold, NextTold, IInvAlways, PTL DEF Spec

(* A consumer that applies the events of take_events in order knows every  *)
(* layout the store decodes with, evictions and kind changes included, as  *)
(* long as the queue never overflowed (parse.py:169-197).                  *)
THEOREM ConsumerStaysCurrent == Spec => []ConsumerCurrent
<1>1. Told => ConsumerCurrent
  BY DEF Told
<1>2. QED BY <1>1, ToldAlways, PTL

(* Every TemplateLearned event is news and names the entry it replaces: what *)
(* the consumer last heard, or nothing if the store has forgotten it.      *)
THEOREM EventsAreChained == Spec => []EventsChain
<1>1. Told => EventsChain
  BY DEF Told
<1>2. QED BY <1>1, ToldAlways, PTL

-----------------------------------------------------------------------------
(* What is looked up changes only at the declared key and at the one, if   *)
(* any, that made room for it.                                             *)
LEMMA DeclareImplements ==
  ASSUME IInv, NEW k \in Keys, NEW e \in Entries, Declare(k, e)
  PROVE  Promise!Declare(k, e)
<1> DEFINE kept == Newest(MoveToEnd(order, k), MaxTemplates)
           forgotten == ToSet(order) \ ToSet(kept)
<1>1. /\ order \in Seq(Keys) /\ NoRepeats(order) /\ Len(order) <= MaxTemplates
      /\ held \in [ToSet(order) -> Entries] /\ ToSet(order) \subseteq Keys
      /\ MaxTemplates \in Nat \ {0} /\ NoEntry \notin Entries
  BY DEF IInv, TypeOK, StoreTypeOK, TableBounded, StoreAssumption, ToSet
<1>2. ToSet(kept) \subseteq ToSet(order) \cup {k} /\ k \in ToSet(kept)
  BY <1>1, BoundedMoveToEnd
<1>3. MadeRoom(kept, k, MaxTemplates, order)
  BY <1>1, BoundedMoveToEnd
<1>4. held' = [x \in ToSet(kept) |-> IF x = k THEN e ELSE held[x]]
  BY DEF Declare, Put, Hold, Kept
<1> HIDE DEF kept
<1>5. Promise!Known = ToSet(order)
  BY <1>1 DEF Promise!Known, known, Lookup
<1>6. k \notin forgotten /\ forgotten \in SUBSET (Promise!Known \ {k})
  BY <1>2, <1>5
<1>7. known' = [x \in Keys |-> IF x = k THEN e
                                ELSE IF x \in forgotten THEN NoEntry
                                ELSE known[x]]
  <2>1. ASSUME NEW x \in Keys
        PROVE  Lookup(held', x, NoEntry)
                 = IF x = k THEN e ELSE IF x \in forgotten THEN NoEntry
                   ELSE Lookup(held, x, NoEntry)
    <3>1. DOMAIN held' = ToSet(kept) /\ DOMAIN held = ToSet(order)
      BY <1>1, <1>4
    <3>2. CASE x = k
      BY <1>2, <1>4, <3>1, <3>2 DEF Lookup
    <3>3. CASE x # k /\ x \in ToSet(kept)
      BY <1>2, <1>4, <3>1, <3>3 DEF Lookup
    <3>4. CASE x # k /\ x \notin ToSet(kept)
      BY <1>2, <1>4, <3>1, <3>4 DEF Lookup
    <3>5. QED BY <3>2, <3>3, <3>4
  <2>2. QED BY <2>1 DEF known
<1>8. ASSUME forgotten # {}
       PROVE  /\ k \notin Promise!Known
              /\ Cardinality(Promise!Known) = MaxTemplates
              /\ forgotten = {order[1]}
  <2>1. \A x \in forgotten : /\ Len(order) = MaxTemplates /\ x = order[1]
                             /\ k \notin ToSet(order)
    BY <1>3 DEF MadeRoom
  <2>2. /\ Len(order) = MaxTemplates /\ k \notin ToSet(order)
        /\ forgotten = {order[1]}
    BY <1>8, <2>1
  <2>3. Cardinality(ToSet(order)) = Len(order)
    BY <1>1, LengthIsCardinality
  <2>4. QED BY <1>5, <2>2, <2>3
<1>9. Cardinality(forgotten) <= 1
  <2>1. CASE forgotten = {}
    BY <2>1, FS_EmptySet
  <2>2. CASE forgotten # {}
    <3>1. Cardinality({order[1]}) = 1
      BY FS_Singleton
    <3>2. QED BY <1>8, <2>2, <3>1
  <2>3. QED BY <2>1, <2>2
<1>10. \A A : Promise!Cardinality(A) = Cardinality(A)
  BY DEF Promise!Cardinality, Cardinality
<1> HIDE DEF forgotten
<1>11. QED BY <1>6, <1>7, <1>8, <1>9, <1>10 DEF Promise!Declare

(* The store implements the map it promises: its table is a refinement of  *)
(* a map that forgets one entry at most, when it is full and needs room.   *)
THEOREM StoreImplementsMap == Spec => ImplementsMap
<1>1. Init => Promise!Init
  BY DEF Init, StoreInit, Promise!Init, known, Lookup
<1>2. IInv /\ [Next]_vars => [Promise!Next]_known
  <2> SUFFICES ASSUME IInv, [Next]_vars PROVE [Promise!Next]_known
    OBVIOUS
  <2>1. ASSUME NEW k \in Keys, NEW e \in Entries, Declare(k, e)
        PROVE  Promise!Next
    BY <2>1, DeclareImplements DEF Promise!Next
  <2>2. ASSUME UNCHANGED held PROVE UNCHANGED known
    BY <2>2 DEF known
  <2>3. ASSUME NEW k \in Keys, Read(k) \/ ReadUnknown(k) PROVE UNCHANGED held
    BY <2>3 DEF Read, ReadUnknown, Get
  <2>4. CASE Take
    BY <2>2, <2>4 DEF Take, TakeEvents
  <2>5. CASE UNCHANGED vars
    BY <2>2, <2>5 DEF vars, storeVars
  <2>6. QED BY <2>1, <2>2, <2>3, <2>4, <2>5 DEF Next
<1>3. QED BY <1>1, <1>2, IInvAlways, PTL DEF Spec, ImplementsMap, Promise!Spec
=============================================================================
