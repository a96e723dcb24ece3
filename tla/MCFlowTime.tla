----------------------------- MODULE MCFlowTime -----------------------------
(* The typed view of time with a second of two ticks, a day of two seconds *)
(* and a counter that wraps within reach.                                  *)
EXTENDS FlowTime

MCSkews == {-1, 0, 5}
MCUptimes == {0} \cup (Wrap - 6) .. (Wrap - 1)

Switched == {"first_switched", "last_switched"}
MCTemplates ==
  [fields : {Switched, {"flow_start_ms"} \cup Switched}, uptime : BOOLEAN]
    \cup [fields : {{"flow_start_s", "flow_end_s"} \cup Switched,
                    {"flow_start_us", "flow_end_us", "flow_start_s", "flow_end_s"},
                    {"flow_start_ms", "flow_end_ms", "flow_start_ns"}},
          uptime : {FALSE}]
=============================================================================
