--------------------------- MODULE TemplateStore ----------------------------
(***************************************************************************)
(* parse.TemplateStore: the bounded table of templates exporters declared, *)
(* and the bounded queue of TemplateLearned events it raises.              *)
(*                                                                         *)
(* A key is an (exporter, domain, template id) triple and Fields is a set  *)
(* of layouts; neither is ever looked into here.  This module holds the    *)
(* state and the three operations; TemplateFeed puts exporters and a       *)
(* consumer around them.                                                   *)
(***************************************************************************)
EXTENDS Integers, RecencyOrder

CONSTANTS Keys,          \* (exporter, domain, template id) triples
          Fields,        \* field layouts a template can declare
          NoEntry,       \* Python's None: no template held
          MaxTemplates,  \* the store's ceiling
          MaxPending     \* maxlen of the event queue

(* One entry of the table: the layout, and which kind of template it is.   *)
Entries == [fields : Fields, options : BOOLEAN]

ASSUME StoreAssumption == /\ MaxTemplates \in Nat \ {0}
                          /\ MaxPending \in Nat
                          /\ NoEntry \notin Entries

VARIABLES order,    \* the keys held, least recently used first
          held,     \* key -> entry
          learned,  \* templates new or changed, ever
          evicted,  \* templates dropped to make room, ever
          dropped,  \* events lost to a full queue, ever
          events    \* TemplateLearned events not yet taken

storeVars == <<order, held, learned, evicted, dropped, events>>

Event == [key : Keys, now : Entries, previous : Entries \cup {NoEntry}]

StoreInit == /\ order = <<>>
             /\ held = [k \in {} |-> NoEntry]
             /\ learned = 0 /\ evicted = 0 /\ dropped = 0
             /\ events = <<>>

(* The keys left, in order, once k is taken in and the oldest are out.     *)
(* Mutants: the ceiling is off by one; room is made before it is known     *)
(* that k needs it.                                                        *)
KeptOneMore(k) == Newest(MoveToEnd(order, k), MaxTemplates + 1)
KeptEvictingFirst(k) == MoveToEnd(Newest(order, MaxTemplates - 1), k)
Kept(k) == Newest(MoveToEnd(order, k), MaxTemplates)

(* The first half of put: the entry goes in last, the oldest go out.       *)
Hold(k, e) ==
  /\ order' = Kept(k)
  /\ held' = [x \in ToSet(Kept(k)) |-> IF x = k THEN e ELSE held[x]]
  /\ evicted' = evicted + Len(MoveToEnd(order, k)) - Len(Kept(k))

(* Mutant of Announce: the deque drops in silence.                         *)
AnnounceUncounted(k, e, previous) ==
  /\ learned' = learned + 1
  /\ events' = Newest(Append(events,
                        [key |-> k, now |-> e, previous |-> previous]),
                      MaxPending)
  /\ UNCHANGED dropped

(* The second half: an entry new or different from the one held under its  *)
(* key raises an event; a full queue loses its oldest event, counted.      *)
Announce(k, e, previous) ==
  /\ learned' = learned + 1
  /\ dropped' = IF Len(events) = MaxPending THEN dropped + 1 ELSE dropped
  /\ events' = Newest(Append(events,
                        [key |-> k, now |-> e, previous |-> previous]),
                      MaxPending)

(* Mutants of Put: only the layout is compared; nothing is compared.       *)
PutComparingLayouts(k, e) ==
  LET old == Lookup(held, k, NoEntry)
      news == IF old = NoEntry THEN TRUE ELSE old.fields # e.fields
  IN  /\ Hold(k, e)
      /\ \/ news /\ Announce(k, e, old)
         \/ ~news /\ UNCHANGED <<learned, dropped, events>>

PutAnnouncingAll(k, e) == Hold(k, e) /\ Announce(k, e, Lookup(held, k, NoEntry))

Put(k, e) ==
  LET old == Lookup(held, k, NoEntry)
  IN  /\ Hold(k, e)
      /\ \/ old # e /\ Announce(k, e, old)
         \/ old = e /\ UNCHANGED <<learned, dropped, events>>

(* Mutant of Get: reading does not count as use.                           *)
GetUntouched(k) == UNCHANGED storeVars

(* A reader cutting a data set up by the template; reading counts as use.  *)
Get(k) ==
  /\ order' = IF k \in DOMAIN held THEN MoveToEnd(order, k) ELSE order
  /\ UNCHANGED <<held, learned, evicted, dropped, events>>

TakeEvents ==
  /\ events' = <<>>
  /\ UNCHANGED <<order, held, learned, evicted, dropped>>

-----------------------------------------------------------------------------
StoreTypeOK == /\ order \in Seq(Keys)
               /\ held \in [ToSet(order) -> Entries]
               /\ learned \in Nat /\ evicted \in Nat /\ dropped \in Nat
               /\ events \in Seq(Event)
=============================================================================
