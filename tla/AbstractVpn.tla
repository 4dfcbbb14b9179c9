---------------------------- MODULE AbstractVpn ----------------------------
(***************************************************************************)
(* What the mobile bridge promises the host (spec 4.9 and the mobile      *)
(* bridge of section 5), without threads, flags or locks:                  *)
(*   - after init_runtime the host may start the VPN when it is stopped    *)
(*     and stop it when it is started;                                     *)
(*   - at most one engine is active; stop turns it into a draining one,   *)
(*     and every draining engine eventually ends;                          *)
(*   - each start is reported as starting (1), each stop as stopped (3),   *)
(*     each engine failure as error (2); the report of a call comes after  *)
(*     the call's effect, so it may follow an engine's report.            *)
(***************************************************************************)
EXTENDS Naturals, Sequences

VARIABLES
  ready,     \* the platform context exists
  started,   \* the host has started the VPN
  active,    \* an engine runs that the host has not stopped
  draining,  \* engines stopped by the host that have not ended yet
  pending,   \* the report the current host call has still to publish (0: none)
  statuses   \* the reports the host got, in order

vars == <<ready, started, active, draining, pending, statuses>>

Init ==
  /\ ready = FALSE /\ started = FALSE /\ active = FALSE
  /\ draining = 0 /\ pending = 0 /\ statuses = <<>>

Initialize ==
  /\ ~ready
  /\ ready' = TRUE
  /\ UNCHANGED <<started, active, draining, pending, statuses>>

StartVpn ==
  /\ ready /\ pending = 0 /\ ~started
  /\ started' = TRUE /\ active' = TRUE /\ pending' = 1
  /\ UNCHANGED <<ready, draining, statuses>>

StopVpn ==
  /\ ready /\ pending = 0 /\ started
  /\ started' = FALSE /\ active' = FALSE /\ pending' = 3
  /\ draining' = draining + (IF active THEN 1 ELSE 0)
  /\ UNCHANGED <<ready, statuses>>

Publish ==
  /\ pending # 0
  /\ statuses' = Append(statuses, pending) /\ pending' = 0
  /\ UNCHANGED <<ready, started, active, draining>>

\* The active engine fails: the host is told error.
EngineFail ==
  /\ active
  /\ active' = FALSE /\ statuses' = Append(statuses, 2)
  /\ UNCHANGED <<ready, started, draining, pending>>

\* A draining engine ends, cleanly or with an error report.
EngineEnd ==
  /\ draining > 0
  /\ draining' = draining - 1
  /\ \/ UNCHANGED statuses
     \/ statuses' = Append(statuses, 2)
  /\ UNCHANGED <<ready, started, active, pending>>

Next ==
  Initialize \/ StartVpn \/ StopVpn \/ Publish \/ EngineFail \/ EngineEnd

Spec ==
  /\ Init /\ [][Next]_vars
  /\ WF_vars(Publish)
  /\ WF_vars(EngineEnd)
=============================================================================
