----------------------------- MODULE AndroidVpn -----------------------------
(***************************************************************************)
(* The VPN lifecycle of the Android bridge                                 *)
(* (src/mobile/src-tauri/src/platform/android.rs): initRust, onStart and   *)
(* onStop called by the Java VpnService on the JNI thread, the VPN threads *)
(* spawned by onStart, each with the running flag (an Arc<AtomicBool>) it  *)
(* was given, and the on_status_changed events (1 starting, 2 error,       *)
(* 3 stopped) published to the host.                                       *)
(*                                                                         *)
(* A JNI call runs under the CONTEXT lock up to its emit_event, which runs *)
(* after the lock is dropped: the call is two steps, and a VPN thread can  *)
(* act between them.  process_vpn (the engine, in the mobile crate root)   *)
(* runs until it sees its flag cleared, or fails at any time.              *)
(***************************************************************************)
EXTENDS Integers, Sequences, FiniteSets

CONSTANTS
  Fds,           \* TUN descriptors the VpnService may hand over
  MaxStarts,     \* bound: onStart calls
  HostRestarts,  \* TRUE: the service may call onStart again while started
  MaxFlags       \* bound: running flags created (by initRust and onStart)

ASSUME /\ Fds \subseteq Nat /\ MaxStarts \in Nat /\ HostRestarts \in BOOLEAN
       /\ MaxFlags \in Nat

None == [fd |-> -2, running |-> 0]   \* CONTEXT = None (before initRust)

VARIABLES
  ctx,        \* CONTEXT: None or [fd, running] (running: index into flags)
  flags,      \* flags[k]: the k-th AtomicBool created
  threads,    \* threads[i]: [fd, flag, live] of the i-th VPN thread
  jni,        \* the JNI thread: 0 when idle, else the status it has still to emit
  hostStarted,\* the service's view: started (onStart) or not (onStop)
  statuses    \* on_status_changed events, in the order the host gets them

vars == <<ctx, flags, threads, jni, hostStarted, statuses>>

Live == {i \in DOMAIN threads : threads[i].live}

-----------------------------------------------------------------------------

\* init_rust (MainActivity.initRust, called again whenever the activity is
\* created): CONTEXT is replaced, whatever it held, by the JVM, a new
\* running flag set to false and no descriptor.
InitRust ==
  /\ Len(flags) < MaxFlags
  /\ flags' = Append(flags, FALSE)
  /\ ctx' = [fd |-> -1, running |-> Len(flags')]
  /\ UNCHANGED <<threads, jni, hostStarted, statuses>>

\* on_vpn_start under the lock: store the descriptor and a new running flag
\* set to true, then spawn the VPN thread with a clone of that flag.  With
\* no CONTEXT, get_mut_context fails and nothing happens.
OnStart ==
  /\ jni = 0 /\ ctx # None
  /\ Len(threads) < MaxStarts
  /\ HostRestarts \/ ~hostStarted
  /\ \E fd \in Fds :
       /\ flags' = Append(flags, TRUE)
       /\ ctx' = [fd |-> fd, running |-> Len(flags')]
       /\ threads' = Append(threads, [fd |-> fd, flag |-> Len(flags'), live |-> TRUE])
  /\ jni' = 1
  /\ hostStarted' = TRUE
  /\ UNCHANGED statuses

\* on_vpn_stop under the lock: forget the descriptor and clear the flag
\* CONTEXT holds now.
OnStop ==
  /\ jni = 0 /\ ctx # None
  /\ hostStarted
  /\ ctx' = [ctx EXCEPT !.fd = -1]
  /\ flags' = [flags EXCEPT ![ctx.running] = FALSE]
  /\ jni' = 3
  /\ hostStarted' = FALSE
  /\ UNCHANGED <<threads, statuses>>

\* The tail of on_vpn_start / on_vpn_stop after the lock is dropped:
\* emit_event("on_status_changed", 1 or 3).
Emit ==
  /\ jni # 0
  /\ statuses' = Append(statuses, jni)
  /\ jni' = 0
  /\ UNCHANGED <<ctx, flags, threads, hostStarted>>

\* process_vpn returns Ok after it sees its running flag cleared; the
\* thread logs and exits.
ThreadStop(i) ==
  /\ threads[i].live
  /\ ~flags[threads[i].flag]
  /\ threads' = [threads EXCEPT ![i].live = FALSE]
  /\ UNCHANGED <<ctx, flags, jni, hostStarted, statuses>>

\* process_vpn returns an error (at any time): the thread emits status 2
\* and exits.
ThreadFail(i) ==
  /\ threads[i].live
  /\ threads' = [threads EXCEPT ![i].live = FALSE]
  /\ statuses' = Append(statuses, 2)
  /\ UNCHANGED <<ctx, flags, jni, hostStarted>>

Init ==
  /\ ctx = None
  /\ flags = <<>>
  /\ threads = <<>>
  /\ jni = 0
  /\ hostStarted = FALSE
  /\ statuses = <<>>

Next ==
  \/ InitRust \/ OnStart \/ OnStop \/ Emit
  \/ \E i \in DOMAIN threads : ThreadStop(i) \/ ThreadFail(i)

\* process_vpn polls its flag, so a thread whose flag stays cleared stops;
\* the JNI thread finishes the call it is in.
Fairness ==
  /\ \A i \in 1 .. MaxStarts : WF_vars(i \in DOMAIN threads /\ ThreadStop(i))
  /\ WF_vars(Emit)

Spec == Init /\ [][Next]_vars /\ Fairness

-----------------------------------------------------------------------------
(* Properties                                                              *)

\* At most one VPN thread runs with its running flag set: a started VPN is
\* stopped (its flag cleared) before another one is started.
SingleActiveVpn ==
  Cardinality({i \in Live : flags[threads[i].flag]}) <= 1

\* Every VPN thread running when onStop has completed eventually exits:
\* onStop clears the flag of every VPN thread that is still running.
StopStopsThreads ==
  \A i \in 1 .. MaxStarts :
    (/\ i \in DOMAIN threads /\ threads[i].live
     /\ ~hostStarted /\ jni = 0)
      ~> ~(i \in DOMAIN threads /\ threads[i].live)

\* The bridge implements the abstract VPN service: the context exists
\* after initRust; the engine the host has not stopped is the live thread
\* whose flag is set; the draining engines are the live threads whose flag
\* is clear; the JNI thread's unpublished status is the pending report.
\* So every onStart, onStop, emit and thread exit is a step the service
\* allows, in particular onStop stops the engine onStart started, and
\* every thread onStop stopped eventually ends.
AV == INSTANCE AbstractVpn WITH
        ready    <- ctx # None,
        started  <- hostStarted,
        active   <- \E i \in Live : flags[threads[i].flag],
        draining <- Cardinality({i \in Live : ~flags[threads[i].flag]}),
        pending  <- jni,
        statuses <- statuses

ImplementsAbstractVpn == AV!Spec

\* Spec 4.9: once the JNI thread is idle, the last status the host got is
\* "starting" only while a VPN thread is running.
StatusReflectsVpn ==
  (jni = 0 /\ statuses # <<>> /\ statuses[Len(statuses)] = 1) => Live # {}
=============================================================================
