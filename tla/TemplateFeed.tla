---------------------------- MODULE TemplateFeed ----------------------------
(***************************************************************************)
(* A TemplateStore between the exporters that declare and use templates,   *)
(* in any order, and a consumer that takes its events whenever it likes    *)
(* (take_events, which Decoder.decode calls and a parse_message caller     *)
(* calls itself, or never).                                                *)
(*                                                                         *)
(* The history variables are what the program never stores: what each      *)
(* exporter last declared, which other keys were used since a key last     *)
(* was, and what the consumer has been told.                               *)
(***************************************************************************)
EXTENDS TemplateStore

CONSTANT MaxLearned      \* bound: template events one behaviour may raise
ASSUME FeedAssumption == MaxLearned \in Nat

VARIABLES declared,  \* key -> the entry its exporter last declared
          since,     \* key -> the other keys used since it last was
          told,      \* key -> the entry in the last event taken about it
          taken      \* events taken, ever

history == <<declared, since, told, taken>>
vars == <<storeVars, history>>

(* Key k has just been used: it is the newest, and one more key has been   *)
(* used since each of the others.                                          *)
Used(k) == since' = [x \in Keys |-> IF x = k THEN {} ELSE since[x] \cup {k}]

(* What the consumer holds about k once it has applied the events es.      *)
ToldAfter(es, k) ==
  LET about == {i \in 1..Len(es) : es[i].key = k}
  IN  IF about = {} THEN told[k]
      ELSE es[CHOOSE i \in about : \A j \in about : j <= i].now

Init == /\ StoreInit
        /\ declared = [k \in Keys |-> NoEntry]
        /\ since = [k \in Keys |-> {}]
        /\ told = [k \in Keys |-> NoEntry]
        /\ taken = 0

Declare(k, e) ==
  /\ learned < MaxLearned
  /\ Put(k, e)
  /\ Used(k)
  /\ declared' = [declared EXCEPT ![k] = e]
  /\ UNCHANGED <<told, taken>>

Read(k) ==
  /\ k \in DOMAIN held
  /\ Get(k)
  /\ Used(k)
  /\ UNCHANGED <<declared, told, taken>>

(* A data set whose template is not held: nothing is moved or counted.     *)
ReadUnknown(k) ==
  /\ k \notin DOMAIN held
  /\ Get(k)
  /\ UNCHANGED history

Take ==
  /\ told' = [k \in Keys |-> ToldAfter(events, k)]
  /\ taken' = taken + Len(events)
  /\ TakeEvents
  /\ UNCHANGED <<declared, since>>

Next == \/ \E k \in Keys, e \in Entries : Declare(k, e)
        \/ \E k \in Keys : Read(k) \/ ReadUnknown(k)
        \/ Take

Spec == Init /\ [][Next]_vars

-----------------------------------------------------------------------------
TypeOK == /\ StoreTypeOK
          /\ declared \in [Keys -> Entries \cup {NoEntry}]
          /\ since \in [Keys -> SUBSET Keys]
          /\ told \in [Keys -> Entries \cup {NoEntry}]
          /\ taken \in Nat

(* The table never passes its ceiling, holds no key twice, and the order   *)
(* and the values name the same keys after every put, read and eviction.   *)
TableBounded == /\ NoRepeats(order)
                /\ Len(order) <= MaxTemplates
                /\ DOMAIN held = ToSet(order)

(* An exporter still using its template keeps it: a key is held as long as *)
(* fewer than MaxTemplates other keys were used since it was, however many *)
(* were declared before (parse.py:213, "Reading counts as use").  Outside  *)
(* the working set a template may be gone but is never out of date: data   *)
(* is cut up by the layout last declared for it or not at all.             *)
WorkingSetKept ==
  \A k \in Keys :
    /\ declared[k] # NoEntry /\ Cardinality(since[k]) < MaxTemplates =>
         k \in DOMAIN held
    /\ k \in DOMAIN held => held[k] = declared[k]

(* A consumer that applies the events in order knows every layout the      *)
(* store decodes with, evictions and kind changes included, unless the     *)
(* queue overflowed.                                                       *)
ConsumerCurrent ==
  dropped = 0 => \A k \in DOMAIN held : ToldAfter(events, k) = held[k]

(* Every event is news, and names what it replaced: the entry the consumer *)
(* was last told of, or nothing when the store had since forgotten it.     *)
EventsChain ==
  \A i \in 1..Len(events) :
    LET e == events[i]
        before == ToldAfter(SubSeq(events, 1, i - 1), e.key)
    IN  /\ e.now # e.previous
        /\ dropped = 0 => \/ e.previous = before
                          \/ e.previous = NoEntry /\ evicted > 0

(* No event is lost uncounted, and no eviction happens without a template  *)
(* learned for it: the three counters and the queue always add up.         *)
EventsAccounted == /\ learned = taken + dropped + Len(events)
                   /\ evicted + Len(order) <= learned
                   /\ Len(events) <= MaxPending

(* What a lookup of each key finds.                                        *)
known == [k \in Keys |-> Lookup(held, k, NoEntry)]

(* A template once held goes only to make room: in one step at most one    *)
(* goes, and then the table is full before and after the step.             *)
Promise == INSTANCE TemplateMap WITH Capacity <- MaxTemplates
ImplementsMap == Promise!Spec
=============================================================================
