----------------------------- MODULE MCDecoder ------------------------------
(* One router heard under two spellings of its address, speaking v5 and v9 *)
(* in one domain, with two template ids for a store with room for one of   *)
(* them.  Counters 0 and 3 are enough for a stream to learn its rule, lose *)
(* exports twice and be evicted by the other version's.  Option records    *)
(* state 1-in-2, a ratio past MaxRatio, or the one and then the other.     *)
EXTENDS Decoder

CONSTANTS router, domain, t1, t2, f1
MCSources == {"192.0.2.1", "::ffff:192.0.2.1"}
MCKeyOf == [a \in MCSources |-> router]
MCDomains == {domain}
MCTids == {t1, t2}
MCFields == {f1}
MCSeqs == {0, 3}
MCHeaderRates == {1}
Says(every, space) == [interval |-> 0, sampler |-> 0, every |-> every,
                       space |-> space, size |-> 0, population |-> 0]
MCOptionSets == {<<Says(1, 1)>>, <<Says(1, 9)>>, <<Says(1, 1), Says(1, 9)>>}
=============================================================================
