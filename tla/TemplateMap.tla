---------------------------- MODULE TemplateMap -----------------------------
(***************************************************************************)
(* What parse.TemplateStore promises the record decoder: a map from        *)
(* template ids to the entry last declared for them, that may forget one   *)
(* other entry, and only when a declaration needs the room.                *)
(***************************************************************************)
EXTENDS Naturals, FiniteSets

CONSTANTS Keys, Entries, NoEntry, Capacity

VARIABLE known   \* key -> the entry a lookup finds, or NoEntry

Known == {k \in Keys : known[k] # NoEntry}

Init == known = [k \in Keys |-> NoEntry]

(* The declared entry is there at once; at most one other entry is gone,   *)
(* and none unless the map was full and this key was not in it.            *)
Declare(k, e) ==
  \E forgotten \in SUBSET (Known \ {k}) :
    /\ forgotten # {} => k \notin Known /\ Cardinality(Known) = Capacity
    /\ Cardinality(forgotten) <= 1
    /\ known' = [x \in Keys |-> IF x = k THEN e
                                ELSE IF x \in forgotten THEN NoEntry
                                ELSE known[x]]

Next == \E k \in Keys, e \in Entries : Declare(k, e)

Spec == Init /\ [][Next]_known
=============================================================================
