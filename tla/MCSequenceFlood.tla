-------------------------- MODULE MCSequenceFlood ---------------------------
(* Four IPFIX sources, one stream each, for a watch with room for two.     *)
(* Counter values 0, 1, 3 with two records a message let a stream learn    *)
(* either rule and then show a gap, a repeat or a step back.               *)
EXTENDS SequenceFlood

CONSTANTS s1, s2, s3, s4
MCStreams == {s1, s2, s3, s4}
MCExporterOf == [k \in MCStreams |-> k]
MCVersionOf == [k \in MCStreams |-> 10]
MCSeqs == {0, 1, 3}
MCRecordCounts == {2}
Symmetry == Permutations(MCStreams)
=============================================================================
