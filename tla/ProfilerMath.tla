---------------------------- MODULE ProfilerMath ----------------------------
(***************************************************************************)
(* The arithmetic of the bypass profiler (src/src/proxy/net_profiler.rs):  *)
(* the running average of do_check / check_server and the bypass decision  *)
(* of NetProfiler::update, with the widths of the Rust types, next to the  *)
(* reference definitions the spec (4.8, 8) gives for them.                 *)
(***************************************************************************)
EXTENDS Integers, Sequences, SequencesExt

U16 == 65536

\* Integer division truncating toward zero (Rust `/` and `as` from f32).
TruncDiv(a, b) == IF a >= 0 THEN a \div b ELSE -((-a) \div b)

\* `x as u8` from f32 saturates at 0 and 255.
SatU8(x) == IF x < 0 THEN 0 ELSE IF x > 255 THEN 255 ELSE x

LOST == -1   \* a probe that timed out (pinger.ping returned Err)

\* The probe loop of do_check and check_server over the outcomes of the
\* probes: a reply updates avg_cost = (avg_cost * i + cost) / (i + 1) with
\* i the index of the probe among all probes sent; a timeout counts a loss.
RECURSIVE Probe(_, _, _, _)
Probe(outcomes, i, avg, lost) ==
  IF i = Len(outcomes) THEN [avg |-> avg, lost |-> lost]
  ELSE IF outcomes[i + 1] = LOST THEN Probe(outcomes, i + 1, avg, lost + 1)
  ELSE Probe(outcomes, i + 1, (avg * i + outcomes[i + 1]) \div (i + 1), lost)

ProbeResult(outcomes) == Probe(outcomes, 0, 0, 0)

\* Reference (spec 4.8): the average latency of the replies, rounded down,
\* and the number of lost probes.
MeanOfReplies(outcomes) ==
  LET ok == SelectSeq(outcomes, LAMBDA c : c # LOST)
      sum == FoldLeft(+, 0, ok)
  IN  [avg |-> IF ok = <<>> THEN 0 ELSE sum \div Len(ok),
       lost |-> Len(outcomes) - Len(ok)]

\* proxy_ping = cond.ping + pr.remote_ping in u16: a debug build panics on
\* overflow (Overflow), a release build wraps.
Overflow == -1   \* no u16 value: the debug-build panic
ProxyPing(condPing, remotePing, wraps) ==
  IF condPing + remotePing < U16 \/ wraps THEN (condPing + remotePing) % U16
  ELSE Overflow

\* proxy_lost = 100 - ((100.0 - cond.lost) * (100.0 - remote_lost) / 100.0) as u8
\* (the f32 quotient of integers below 10^5 truncates exactly).
ProxyLost(condLost, remoteLost) ==
  100 - SatU8(TruncDiv((100 - condLost) * (100 - remoteLost), 100))

\* The decision of NetProfiler::update for a complete row.
Bypass(condPing, condLost, localPing, localLost, remotePing, remoteLost, wraps) ==
  LET pp == ProxyPing(condPing, remotePing, wraps) IN
    /\ pp # Overflow
    /\ localPing < pp
    /\ localLost < ProxyLost(condLost, remoteLost)
    /\ localPing > remotePing

\* Reference (spec 4.8, 8): bypass iff local_ping < cond.ping + remote_ping,
\* local_lost < 100 - (100 - cond.loss)(100 - remote_loss)/100 rounded down,
\* and local_ping > remote_ping, in unbounded integers.
SpecBypass(condPing, condLost, localPing, localLost, remotePing, remoteLost) ==
  /\ localPing < condPing + remotePing
  /\ localLost < (100 * 100 - (100 - condLost) * (100 - remoteLost)) \div 100
  /\ localPing > remotePing
=============================================================================
