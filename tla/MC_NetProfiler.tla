-------------------------- MODULE MC_NetProfiler --------------------------
(* Two addresses, one of them in the no-bypass ipset, for the passing run; *)
(* three for the group_by run, so that a complete row can sit on both     *)
(* sides of an incomplete one in the table's order.  The clock bound     *)
(* MaxTime is set per cfg (2 or 3 ticks); with a dedup window of 2 and a   *)
(* staleness of 1, repeated checks and stale re-sends happen.  The measured*)
(* values make the rule decide bypass (local 40 ms / 0%, relay 20 ms / 0%) *)
(* or not (local 300 ms, a latency above the u8 range); the relay may    *)
(* answer 20 ms with no loss.                                               *)
EXTENDS NetProfiler

CONSTANTS a, b, c

MCIPs == {a, c}
MCIPs3 == {a, b, c}
MCNoBypass == {c}
MCLocalPings == {40, 300}
MCLocalLosts == {0}
MCRemotePings == {20}
MCRemoteLosts == {0}
MCCondPings == {200}
MCCondLosts == {0, 3}
=============================================================================
