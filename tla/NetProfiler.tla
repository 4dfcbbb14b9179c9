---------------------------- MODULE NetProfiler ----------------------------
(***************************************************************************)
(* The bypass profiler of src/src/proxy/net_profiler.rs with profiling     *)
(* enabled: the table NetProfiler.set kept by the main loop (check,        *)
(* update, decode of the relay's answers, reset of the ping channel), the  *)
(* request routine and the do_check tasks on the profiler runtime, the     *)
(* response routine that applies decisions to the bypass ipset, and the    *)
(* check_server thread that rewrites CONDITION.                            *)
(*                                                                         *)
(* Time is a clock of whole ticks; a do_check task may finish at any time  *)
(* after it is spawned.  The ping channel is abstracted to the set of IPs  *)
(* whose request the relay holds; its byte-level decoding is not modelled  *)
(* here.                                                                   *)
(***************************************************************************)
EXTENDS Integers, Sequences, SequencesExt, FiniteSets

CONSTANTS
  IPs,          \* destination addresses
  NoBypass,     \* addresses in the no-bypass ipset (session.test is true)
  Dedup,        \* 3600 s: check ignores an address checked this recently
  Stale,        \* 100 s: incomplete rows older than this are re-sent
  MaxTime,      \* bound on the clock
  LocalPings, LocalLosts,    \* results a do_check task may report
  RemotePings, RemoteLosts,  \* values the relay may answer (any u16 / u8)
  CondPings, CondLosts       \* results check_server may store in CONDITION

ASSUME /\ NoBypass \subseteq IPs
       /\ Dedup \in Nat \ {0} /\ Stale \in Nat /\ MaxTime \in Nat

M == INSTANCE ProfilerMath

PingUnknown == 65535   \* u16::MAX, the "unknown" sentinel of PingResult
LostUnknown == 255     \* u8::MAX

VARIABLES
  now,          \* the clock
  set,          \* NetProfiler.set: address -> PingResult
  reqQ,         \* check_sender -> request routine (unbounded mpsc)
  checks,       \* addresses of the running do_check tasks
  respQ,        \* resp_sender -> NetProfiler::update (unbounded mpsc)
  cond,         \* CONDITION
  ipsetQ,       \* ipset_sender -> response routine (unbounded mpsc)
  bypassSet,    \* the bypass ipset
  conn,         \* the ping channel: "up" or "none"
  relayHeld,    \* addresses whose request the relay holds on the channel
  unsent,       \* bytes of send_buffer never written (in requests)
  lastUpdate,   \* the tick of the last update (update runs once a second)
  lastReq,      \* history: tick of the last request of each address, or -1
  lastComplete, \* history: rows complete at the last update
  lastDecided   \* history: addresses decided at the last update

vars == <<now, set, reqQ, checks, respQ, cond, ipsetQ, bypassSet, conn,
          relayHeld, unsent, lastUpdate, lastReq, lastComplete, lastDecided>>

Row == [last : 0 .. MaxTime, localPing : Nat, localLost : Nat,
        remotePing : Nat, remoteLost : Nat]

\* PingResult::default with last_time = now.
NewRow == [last |-> now, localPing |-> PingUnknown, localLost |-> LostUnknown,
           remotePing |-> PingUnknown, remoteLost |-> LostUnknown]

\* PingResult::is_complete
IsComplete(pr) ==
  /\ pr.localLost # LostUnknown /\ pr.localPing # PingUnknown
  /\ pr.remoteLost # LostUnknown /\ pr.remotePing # PingUnknown

\* x.min(sentinel - 1): a measurement never reads as unknown.
Clamp(x, sentinel) == IF x < sentinel THEN x ELSE sentinel - 1

-----------------------------------------------------------------------------

\* send_remote_ip: the request goes out on the channel if there is one,
\* else it stays in send_buffer.
SendRemoteIp(ip) ==
  \/ /\ conn = "up"
     /\ relayHeld' = relayHeld \cup {ip}
     /\ UNCHANGED unsent
  \/ /\ conn = "none"
     /\ unsent' = unsent + 1
     /\ UNCHANGED relayHeld

\* Mutant: check refreshes last_time only when it creates the row.
CheckNoRefresh(ip) ==
  /\ ~(ip \in DOMAIN set /\ now - set[ip].last < Dedup)
  /\ SendRemoteIp(ip)
  /\ reqQ' = Append(reqQ, ip)
  /\ lastReq' = [lastReq EXCEPT ![ip] = now]
  /\ set' = IF ip \in DOMAIN set THEN set ELSE set @@ (ip :> NewRow)

\* NetProfiler::check: ignore an address checked less than Dedup ago; else
\* send it to the relay and to the request routine, and stamp its row.
Check(ip) ==
  /\ ~(ip \in DOMAIN set /\ now - set[ip].last < Dedup)
  /\ SendRemoteIp(ip)
  /\ reqQ' = Append(reqQ, ip)
  /\ lastReq' = [lastReq EXCEPT ![ip] = now]
  /\ set' = IF ip \in DOMAIN set THEN [set EXCEPT ![ip].last = now]
            ELSE set @@ (ip :> NewRow)

\* The main loop saw a new destination.
SeeDestination ==
  /\ \E ip \in IPs : Check(ip)
  /\ UNCHANGED <<now, checks, respQ, cond, ipsetQ, bypassSet, conn,
                 lastUpdate, lastComplete, lastDecided>>

\* start_request (unix build): one address from the channel; skip it only
\* if session.test answers Ok(true), i.e. it is in the no-bypass ipset;
\* on Ok(false) or an Err of the ipset session spawn do_check.
StartRequest ==
  /\ reqQ # <<>>
  /\ reqQ' = Tail(reqQ)
  /\ \/ /\ Head(reqQ) \in NoBypass
        /\ UNCHANGED checks
     \/ checks' = Append(checks, Head(reqQ))
  /\ UNCHANGED <<now, set, respQ, cond, ipsetQ, bypassSet, conn, relayHeld,
                 unsent, lastUpdate, lastReq, lastComplete, lastDecided>>

\* Mutant: do_check sends loss and latency in swapped positions.
DoCheckDoneSwapped ==
  \E i \in DOMAIN checks, ping \in LocalPings, lost \in LocalLosts :
    /\ respQ' = Append(respQ, <<checks[i], lost, ping>>)
    /\ checks' = RemoveAt(checks, i)
    /\ UNCHANGED <<now, set, reqQ, cond, ipsetQ, bypassSet, conn, relayHeld,
                   unsent, lastUpdate, lastReq, lastComplete, lastDecided>>

\* do_check finishes its probes and sends (ip, avg_cost, lost_ratio).
DoCheckDone ==
  \E i \in DOMAIN checks, ping \in LocalPings, lost \in LocalLosts :
    /\ respQ' = Append(respQ, <<checks[i], ping, lost>>)
    /\ checks' = RemoveAt(checks, i)
    /\ UNCHANGED <<now, set, reqQ, cond, ipsetQ, bypassSet, conn, relayHeld,
                   unsent, lastUpdate, lastReq, lastComplete, lastDecided>>

\* decode: a record for an address in the table sets its remote values,
\* clamped below the sentinels; an unknown address is only logged.
StoreRemote(s, ip, ping, lost) ==
  IF ip \in DOMAIN s
  THEN [s EXCEPT ![ip].remoteLost = Clamp(lost, LostUnknown),
                 ![ip].remotePing = Clamp(ping, PingUnknown)]
  ELSE s

\* NetProfiler::ready on a readable event: one answer record decoded.
RelayAnswer ==
  /\ conn = "up"
  /\ \E ip \in relayHeld, ping \in RemotePings, lost \in RemoteLosts :
       /\ set' = StoreRemote(set, ip, ping, lost)
       /\ relayHeld' = relayHeld \ {ip}
  /\ UNCHANGED <<now, reqQ, checks, respQ, cond, ipsetQ, bypassSet, conn,
                 unsent, lastUpdate, lastReq, lastComplete, lastDecided>>

\* NetProfiler::ready finds the channel shut down: reset drops it (and the
\* requests the relay held) and initialize takes a new connection from the
\* pool and writes the PING request, or fails and leaves none.
ChannelReset ==
  /\ conn = "up"
  /\ conn' \in {"up", "none"}
  /\ relayHeld' = {}
  /\ UNCHANGED <<now, set, reqQ, checks, respQ, cond, ipsetQ, bypassSet,
                 unsent, lastUpdate, lastReq, lastComplete, lastDecided>>

\* update, first loop: the do_check results, in channel order, set the
\* local values of rows in the table (clamped below the sentinels).
StoreLocal(s, r) ==
  IF r[1] \in DOMAIN s
  THEN [s EXCEPT ![r[1]].localLost = Clamp(r[3], LostUnknown),
                 ![r[1]].localPing = Clamp(r[2], PingUnknown)]
  ELSE s

\* The group_by key of update: 1 for a complete row, 0 otherwise.
GroupKey(s, ip) == IF IsComplete(s[ip]) THEN 1 ELSE 0

\* The last group with key k that itertools::group_by yields over the
\* addresses order of the table s: the last maximal run of consecutive
\* addresses whose row has key k.
LastRun(order, s, k) ==
  LET J == {i \in DOMAIN order : GroupKey(s, order[i]) = k} IN
  IF J = {} THEN <<>>
  ELSE LET j == Max(J)
           i == Min({x \in 1 .. j : \A y \in x .. j : GroupKey(s, order[y]) = k})
       IN  SubSeq(order, i, j)

\* The decision of update for a complete row, with the CONDITION snapshot
\* (a release build: cond.ping + remote_ping wraps).
Decide(c, pr) ==
  M!Bypass(c.ping, c.lost, pr.localPing, pr.localLost, pr.remotePing,
           pr.remoteLost, TRUE)

\* NetProfiler::update, once a second: store the local results; snapshot
\* CONDITION; group the rows, in the table's iteration order, by
\* completeness; re-send the stale rows of the last incomplete group to the
\* relay and send a decision for each row of the last complete group.  The
\* iteration order of the HashMap is arbitrary.
Update ==
  /\ lastUpdate < now
  /\ LET s1 == FoldLeft(StoreLocal, set, respQ) IN \E order \in SetToSeqs(DOMAIN s1) :
          LET ips1 == LastRun(order, s1, 1)
              ips0 == SelectSeq(LastRun(order, s1, 0),
                                LAMBDA ip : now - s1[ip].last > Stale)
          IN /\ set' = s1
             /\ respQ' = <<>>
             /\ \/ /\ conn = "up"
                   /\ relayHeld' = relayHeld \cup ToSet(ips0)
                   /\ UNCHANGED unsent
                \/ /\ conn = "none"
                   /\ unsent' = unsent + Len(ips0)
                   /\ UNCHANGED relayHeld
             /\ ipsetQ' = ipsetQ \o [i \in DOMAIN ips1 |-> <<ips1[i], Decide(cond, s1[ips1[i]])>>]
             /\ lastComplete' = {ip \in DOMAIN s1 : IsComplete(s1[ip])}
             /\ lastDecided' = ToSet(ips1)
  /\ lastUpdate' = now
  /\ UNCHANGED <<now, reqQ, checks, cond, bypassSet, conn, lastReq>>

\* start_response: apply one decision to the bypass ipset.
ApplyDecision ==
  /\ ipsetQ # <<>>
  /\ bypassSet' = IF Head(ipsetQ)[2] THEN bypassSet \cup {Head(ipsetQ)[1]}
                  ELSE bypassSet \ {Head(ipsetQ)[1]}
  /\ ipsetQ' = Tail(ipsetQ)
  /\ UNCHANGED <<now, set, reqQ, checks, respQ, cond, conn, relayHeld, unsent,
                 lastUpdate, lastReq, lastComplete, lastDecided>>

\* check_server stores a new measurement of the relay under the write lock.
CheckServer ==
  /\ \E p \in CondPings, l \in CondLosts : cond' = [ping |-> p, lost |-> l]
  /\ UNCHANGED <<now, set, reqQ, checks, respQ, ipsetQ, bypassSet, conn,
                 relayHeld, unsent, lastUpdate, lastReq, lastComplete, lastDecided>>

Tick ==
  /\ now < MaxTime
  /\ now' = now + 1
  /\ UNCHANGED <<set, reqQ, checks, respQ, cond, ipsetQ, bypassSet, conn,
                 relayHeld, unsent, lastUpdate, lastReq, lastComplete, lastDecided>>

-----------------------------------------------------------------------------
\* NetProfiler::new with profiling enabled sets CONDITION to 200 ms / 3;
\* the response routine flushes the bypass ipset; initialize may fail.
Init ==
  /\ now = 0
  /\ set = [ip \in {} |-> NewRow]
  /\ reqQ = <<>> /\ checks = <<>> /\ respQ = <<>> /\ ipsetQ = <<>>
  /\ cond = [ping |-> 200, lost |-> 3]
  /\ bypassSet = {}
  /\ conn \in {"up", "none"}
  /\ relayHeld = {}
  /\ unsent = 0
  /\ lastUpdate = -1
  /\ lastReq = [ip \in IPs |-> -1]
  /\ lastComplete = {} /\ lastDecided = {}

Next ==
  \/ SeeDestination
  \/ StartRequest
  \/ DoCheckDone
  \/ RelayAnswer
  \/ ChannelReset
  \/ Update
  \/ ApplyDecision
  \/ CheckServer
  \/ Tick

Spec == Init /\ [][Next]_vars

-----------------------------------------------------------------------------
(* Properties                                                              *)

TypeOK ==
  /\ now \in 0 .. MaxTime /\ lastUpdate \in -1 .. MaxTime
  /\ DOMAIN set \subseteq IPs /\ \A ip \in DOMAIN set : set[ip] \in Row
  /\ reqQ \in Seq(IPs) /\ checks \in Seq(IPs) /\ ipsetQ \in Seq(IPs \X BOOLEAN)
  /\ respQ \in Seq(IPs \X (0 .. PingUnknown) \X (0 .. LostUnknown))
  /\ bypassSet \subseteq IPs /\ relayHeld \subseteq IPs
  /\ lastReq \in [IPs -> -1 .. MaxTime]
  /\ conn \in {"up", "none"} /\ unsent \in Nat

\* Spec 8 scenario 5: an address is handed to the check routine (one
\* direct probe) at most once per Dedup window, however often the main
\* loop sees it: check stamps last_time on every request it lets through.
DedupWindow ==
  [][\A ip \in IPs :
       (reqQ' = Append(reqQ, ip) /\ lastReq[ip] # -1) => now - lastReq[ip] >= Dedup]_vars

\* An address in the no-bypass ipset never enters the bypass ipset (spec
\* 4.8: no-bypass addresses are never probed directly): the request
\* routine must not probe it, so its row never completes and update never
\* decides it.
NoBypassRespected == bypassSet \cap NoBypass = {}

\* Spec 4.8 step 4: each update emits a decision for every complete row.
CompleteRowsDecided == lastComplete \subseteq lastDecided
=============================================================================
