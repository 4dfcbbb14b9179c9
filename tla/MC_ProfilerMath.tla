-------------------------- MODULE MC_ProfilerMath --------------------------
(* Checks the profiler arithmetic over bounded inputs: every sequence of 3 *)
(* probe outcomes over {lost, 10 ms, 20 ms}, and decision inputs around    *)
(* the edges of the rule (equal pings, 1% losses, the u16 limit).          *)
EXTENDS ProfilerMath, FiniteSets

VARIABLES outcomes, inp

vars == <<outcomes, inp>>

Outcomes == {LOST, 10, 20}

Inputs == [cp : {200}, cl : {1, 3}, lp : {0, 40, 65534}, ll : {0, 1, 2},
           rp : {20, 65534}, rl : {0, 1, 254}]

Init == /\ outcomes \in [1 .. 3 -> Outcomes]
        /\ inp \in Inputs

Next == UNCHANGED vars

Spec == Init /\ [][Next]_vars

\* The running average of do_check equals the mean of the replies (spec
\* 4.8: "average latency and loss count") and the loss count is exact.
ProbeAverage == ProbeResult(outcomes) = MeanOfReplies(outcomes)

\* Where cond.ping + remote_ping fits in u16, NetProfiler::update decides
\* exactly as the rule of spec 8, with proxy_loss rounded down.
DecisionMatchesSpec ==
  inp.cp + inp.rp < U16 =>
    (Bypass(inp.cp, inp.cl, inp.lp, inp.ll, inp.rp, inp.rl, TRUE)
       <=> SpecBypass(inp.cp, inp.cl, inp.lp, inp.ll, inp.rp, inp.rl))

\* remote_ping as decoded from the ping channel (at most u16::MAX - 1 after
\* the clamp) never makes cond.ping + remote_ping overflow u16.
NoProxyPingOverflow == ProxyPing(inp.cp, inp.rp, FALSE) # Overflow
=============================================================================
