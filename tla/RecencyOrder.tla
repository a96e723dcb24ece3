---------------------------- MODULE RecencyOrder ----------------------------
(***************************************************************************)
(* The order half of collections.OrderedDict, as netflume's bounded tables *)
(* use it: a sequence of distinct keys, the least recently used first.     *)
(* Each table keeps its values in a function whose domain is the set of    *)
(* these keys (TemplateStore, SequenceWatch, SamplingWatch).               *)
(***************************************************************************)
EXTENDS SequencesExt

(* `d.pop(key, None)`: the order without the key, if it was there.         *)
Without(s, k) ==
  IF k \in ToSet(s) THEN RemoveAt(s, CHOOSE i \in 1..Len(s) : s[i] = k) ELSE s

(* `d[key] = value; d.move_to_end(key)`: the key ends up last, wherever it *)
(* was, and every other key keeps its place.                               *)
MoveToEnd(s, k) == Append(Without(s, k), k)

(* `while len(d) > n: d.popitem(last=False)`: the n newest are left.       *)
(* Also what a deque of maxlen n does to its left end.                     *)
Newest(s, n) == IF Len(s) > n THEN SubSeq(s, Len(s) - n + 1, Len(s)) ELSE s

(* A dictionary never holds a key twice.                                   *)
NoRepeats(s) == \A i, j \in 1..Len(s) : s[i] = s[j] => i = j

(* The value held for a key, or `none` when the key is not in the table.   *)
Lookup(table, k, none) == IF k \in DOMAIN table THEN table[k] ELSE none
=============================================================================
