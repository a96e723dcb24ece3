--------------------------- MODULE MCSamplingFeed ---------------------------
(* Two exporters of two domains each, one pair of them v5, for a watch     *)
(* with room for two rates.  The option records state 1-in-1, 1-in-2 in    *)
(* every form, the ratios 3/2 and 5/2 that need rounding, and nothing.     *)
EXTENDS SamplingFeed

CONSTANTS e1, e2, d1, d2
MCExporters == {e1, e2}
MCDomains == {d1, d2}
MCHeaderKeys == {<<e2, d2>>}
MCHeaderRates == {1, 2}
Says(i, s, e, sp, z, p) ==
  [interval |-> i, sampler |-> s, every |-> e, space |-> sp, size |-> z,
   population |-> p]
MCOptionRecords == { Says(1, 0, 0, Absent, 0, 0), Says(0, 2, 0, Absent, 0, 0),
                     Says(0, 0, 2, 1, 0, 0), Says(0, 0, 2, Absent, 2, 5),
                     Says(0, 0, 1, 3, 0, 0), Says(0, 0, 0, Absent, 5, 2) }
=============================================================================
