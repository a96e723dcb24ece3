--------------------------- MODULE MCExportStream ---------------------------
(* One v9 exporter, which may count either way.  Messages of no, one or    *)
(* two records move its counter differently under the two readings.  The   *)
(* modulus is far above what a behaviour sends, as 2^32 is; the counter    *)
(* starts two short of it, wraps, and goes back to 0 when restarted.       *)
EXTENDS ExportStream

CONSTANT s1
MCStreams == {s1}
MCExporterOf == [k \in MCStreams |-> k]
MCVersionOf == [k \in MCStreams |-> 9]
MCStarts == {62}
MCWidths == {0, 1, 2}
=============================================================================
