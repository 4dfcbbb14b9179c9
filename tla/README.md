# TLA+ models of trojan-rs (wintun UDP relay and bypass profiler)

This directory holds TLA+ models of the parts of this repository that have
state and concurrency. TLC checks them. Each module is translated from the
Rust source under `src/`. `PROJECT.json` maps every definition to the lines it
models, and lists the runs, mutants, findings and hazards.

## The system

The repository has these parts:

| part | source | what it does |
|---|---|---|
| UDP association connection | `src/src/wintun/udp1.rs` (`Connection`) | Frames local datagrams as UDP-associate records (ADDR, LEN, CRLF, payload) and writes them on a TLS connection, behind the UDP_ASSOCIATE request. Parses records coming back and writes their payloads to the smoltcp socket. |
| UDP server tables | `src/src/wintun/udp1.rs` (`UdpServer`, `next_token`) | Maps source endpoints and mio tokens to connections. Keeps the last activity time per socket and evicts idle associations. |
| Bypass profiler | `src/src/proxy/net_profiler.rs` | The main loop calls `check` for every new destination and `update` once a second. A tokio runtime runs the request routine, which spawns one `do_check` (100 ICMP probes) per address, and the response routine, which edits the bypass ipset. A ping channel to the relay returns the relay's measurement of each address. A `check_server` thread rewrites `CONDITION` (the latency and loss to the relay). `update` decides per address whether direct routing beats the proxy. |
| Engine loop | `src/src/awintun/mod.rs` | The mio loop that dispatches to the TCP/UDP workers. Those workers (`tcp.rs`, `udp.rs`, `tls_conn`, `idle_pool`, `proto`) are not in this repository. |
| Android bridge | `src/mobile/src-tauri/src/platform/android.rs` | JNI entry points: starting and stopping the VPN thread, status callbacks, permissions, storage. |
| Desktop shell | `src/trojan-client/src-tauri/src/main.rs` | Tauri commands that start and stop the proxy sidecar and report its state. |
| Error types | `src/src/types.rs` | An error enum; no state. |

## Modules

### `UdpConn` (`MC_UdpConn`): one UDP association

Each handler runs to completion on the single mio thread, so each handler is
one atomic action.

Bytes are abstract values:

- Outbound byte `<<d, k>>` is byte `k` of datagram `d`'s record; bytes with `k <= HeaderLen` are the header.
- Preamble bytes are `<<0, k>>`.
- Inbound byte `<<r, k>>` is byte `k` of relay record `r`.

This lets the invariants name exactly which bytes reached the wire and which were handed on.

State, with the Rust field each variable models:

- `established`, `rclosed`, `rbuffer` and `lbuffer` are the `Connection` fields of the same names.
- `wire` is the byte stream the TLS connection accepted.
- `inStream` and `relayRecs` are what the relay wrote.
- `readPos` counts the bytes already read.
- History variables `sent` and `handed` record the records the code committed to send and those it handed to the local socket.

Actions:

| action | code |
|---|---|
| `LocalDatagram` | `UdpServer::do_local` delivering one datagram to `Connection::do_local` (`DoLocal`). This drops the datagram while bytes are staged, stages it before the handshake, and otherwise calls `local_to_remote`. |
| `RemoteWritable` | `do_remote` on a writable event. It writes the UDP_ASSOCIATE request (an error closes the connection), then calls `local_to_remote` with empty slices. |
| `RemoteReadable` | `do_remote` on a readable event, i.e. `remote_to_local`. The read loop is the recursive operator `Drain`: it fills the free tail of `lbuffer`, never grows it, and a full buffer reads `Ok(0)`. The parse loop is the recursive operator `ParseAll`: records are handed on, the residual is compacted, and an invalid address type closes the connection. The read ends in WouldBlock, end of stream or an error. |
| `RelaySend`, `RelayClose` | The relay (environment). |

`LocalToRemote` and `WriteFresh` translate `local_to_remote`:

- `send_all` of the staged bytes comes first. If it does not finish, the new datagram is dropped, then the code flushes, or closes on error.
- Then the write loop runs over header and body. Each TLS `write` may take any prefix, block, return `Ok(0)` or fail.
- Then the remainder is cached, exactly as lines 183-190 compute it (`Remainder`), and the connection is flushed.

`TlsConn` is not in this repository, so the outcomes of its writes are modelled as every result its `Write` contract allows.

### `ProfilerMath` (`MC_ProfilerMath`): the profiler's arithmetic

These are pure operators, checked over bounded inputs:

- `Probe` / `ProbeResult` is the running average of `do_check` and `check_server`.
- `ProxyPing` is the u16 sum, which panics in debug builds and wraps in release.
- `ProxyLost` is the f32 computation with its `as u8` cast.
- `Bypass` is the decision of `update`.

Each is compared with a reference definition taken from the spec: `MeanOfReplies` and `SpecBypass`. `MC_ProfilerMath` makes every input a constant-valued variable, so TLC checks the comparison for every input.

### `NetProfiler` (`MC_NetProfiler`): the profiler's concurrent parts

State:

- `set` is the table of `PingResult` rows.
- `reqQ`, `respQ` and `ipsetQ` are the three unbounded mpsc channels.
- `checks` is the set of running `do_check` tasks.
- `cond` is `CONDITION`.
- `bypassSet` is the ipset.
- `conn` is the ping channel. `relayHeld` is the set of requests the relay holds. `unsent` is the requests left in `send_buffer` while there is no channel.
- `now` is a clock of whole ticks.

Actions:

| action | code |
|---|---|
| `SeeDestination` | `check` |
| `StartRequest` | The request routine. `session.test` skips an address only when it answers `Ok(true)`. An `Err` from the ipset session falls through to `do_check`. |
| `DoCheckDone` | A `do_check` task finishing. |
| `RelayAnswer` | `ready` / `decode` of one answer. |
| `ChannelReset` | `ready` finding the channel shut down, then `reset` and `initialize`, which may fail. |
| `Update` | The whole of `update`, explained below. |
| `ApplyDecision` | The response routine. |
| `CheckServer` | One measurement stored by `check_server`. |
| `Tick` | The clock advancing. |

`Update` covers all of `update`:

1. The results waiting in `respQ` are applied in order (`StoreLocal`, clamped).
2. `CONDITION` is snapshotted.
3. Rows are grouped by completeness with itertools `group_by`, in a HashMap iteration order chosen nondeterministically (`SetToSeqs`). `LastRun` keeps the last run of each key, which is what the `ips1 =` / `ips0 =` assignments do.
4. Stale incomplete rows are re-sent.
5. One decision per row of `ips1` is sent.

The HashMap order is chosen afresh at every update. The real order only changes when the table changes, so this over-approximates the real orders.

The arithmetic comes from `ProfilerMath` through `INSTANCE`.

### `UdpServer` (`MC_UdpServer`): the UDP server's tables

The server runs on the single mio thread, so each handler is one atomic
action. A connection is abstracted to five fields: its token, the smoltcp
socket it replies through, its source endpoint, whether its UDP_ASSOCIATE
handshake is written (`established`), and whether it is closed.
Its own byte handling is module `UdpConn`.

State: `token2conns`, `addr2conns` and `sockets` are the `UdpServer` tables, as
TLA+ functions whose domains change. `nextIndex` is `NEXT_INDEX`. `smol` is
the smoltcp `SocketSet`. History variables record the replies sent, the last
datagram of each source, and the tick of the last sweep.

| action | code |
|---|---|
| `NewSocket` | `new_socket` |
| `Datagram` | One datagram of `do_local`: find the connection of the source, or take one from the pool with `next_token` (`NextIndex`, wrapping). A pool failure panics (`unwrap`). Then `or_insert` under the token, forward, and remove the connection if it closed (`DeliverLocal`, `Remove`). |
| `RemoteEvent` | `do_remote`: dispatch by token. The first writable event writes the handshake, and a failed write closes the connection. An established connection may close and may hand records to the socket it was created with. |
| `CheckTimeout` | `check_timeout`: idle `sockets` keys (destinations) are looked up in `addr2conns` (sources). |
| `Tick` | The clock. |

Sources and destinations are disjoint sets of model values, as the TUN
network's addresses and remote addresses are.

### `AndroidVpn` (`MC_AndroidVpn`): the Android VPN bridge

The state is the following:

- `ctx` is `CONTEXT`.
- `flags` is every `Arc<AtomicBool>` created.
- `threads` is the VPN threads, each with its descriptor and the flag it was given.
- `jni` is the status the JNI thread still has to emit.
- `hostStarted` is the service's view.
- `statuses` is the `on_status_changed` events.

`OnStart` and `OnStop` are the parts of `on_vpn_start` and `on_vpn_stop`
under the `CONTEXT` lock. `Emit` is their `emit_event` after the lock is
dropped, so a VPN thread can act in between. `process_vpn` lives in the mobile
crate root, so it is modelled from the spec: it stops once its flag is clear
(`ThreadStop`) or fails at any time and emits 2 (`ThreadFail`).

`InitRust` is `init_rust`, which `MainActivity` calls each time the activity
is created. It has no guard: `CONTEXT` is replaced by a new context with a new
running flag set to false, whatever it held. A VPN thread that is running at
that moment keeps its old flag, and `on_vpn_stop` now clears only the new one.
`MaxFlags` bounds the flags that `init_rust` and `on_vpn_start` create.

### `AbstractVpn`: what the Android bridge promises

`AbstractVpn` states the VPN service the host sees, without threads, flags or
locks. After `init_runtime` the host may start a stopped VPN and stop a
started one. At most one engine is `active`. Stopping it makes it one of the
`draining` engines, and each of those eventually ends. Each call's report is
`pending` until it is published: starting (1) or stopped (3). An engine
failure reports error (2).

`AndroidVpn` implements it through `AV == INSTANCE AbstractVpn WITH ...`.
The refinement mapping is the following:

| abstract | `AndroidVpn` |
|---|---|
| `ready` | `ctx # None` |
| `started` | `hostStarted` |
| `active` | some live thread's flag is set |
| `draining` | the number of live threads whose flag is clear |
| `pending` | `jni` |
| `statuses` | `statuses` |

The property `ImplementsAbstractVpn == AV!Spec` includes the abstract
fairness. So it also says that every stopped engine ends and every report
is published. It fails because of the re-initialisation described above
(run `androidvpn_reinit`).

### `PingChannel` (`MC_PingChannel`): the ping channel's inbound framing

This module covers `NetProfiler::ready`, `reset`, `initialize` and `decode`.
The relay answers each address with the record ATYP, ADDR, PING(2) and
LOST(1), which is 8 bytes for IPv4 and 20 for IPv6. A byte is `<<r, k>>`:
byte `k` of the relay's `r`-th answer. Byte 1 is the ATYP. Read as an ATYP,
any other byte may be IPv4, IPv6 or anything else, because address octets
and ping values can hold any value.

| action | code |
|---|---|
| `RelayAnswer` | The relay writes one answer on the current connection. |
| `ReadChunk` | `ready` on a readable event: `do_read` returns some prefix of what is in flight, which is appended to `recv_buffer` and decoded. |
| `ConnLost` | The TLS connection shuts down. Unread bytes are lost with it. |
| `Reset` | `ready` finds the connection shut down. It calls `reset` and `initialize`, which may fail and leave `conn` None for good. `recv_buffer` is kept. |

`Decode` is `RECURSIVE` and returns the set of outcomes (rest, answers
applied, panic) over the values the non-ATYP bytes may hold. An unknown
ATYP is the `unreachable!` at line 475. `ReadChunk` is weakly fair and
nothing else is, for the reason given under Fairness.

### `DesktopShell`: the desktop shell's sidecars

The state is the following:

- `wintun` and `dns` are the handles `TrojanProxy` holds.
- `children` is the sidecar processes, each alive or not, killed or not.
- `tasks` is the async task of each start, with its program counter and the set of children whose receiver it still watches (`rxs`).
- `ui` is the last `state-update` event.
- `hung` is the state of a stop command that blocked while holding the `TrojanState` lock.
- `dnsSet` says that the adapter's DNS points at a dns sidecar's listener.
- `exited` says that the tray's quit item ended the process.

The dns sidecar's code is not in this repository. The shell calls `set_dns_server("")` when the dns sidecar terminates and when quit kills it. From that the model infers that a running dns sidecar has pointed the adapter's DNS at itself: `SpawnDns` sets `dnsSet`, and only those two resets clear it.

Each `lock().unwrap()` section is one step. The actions are these:

| action | code |
|---|---|
| `Start` | `start`. It may fail to save the config. Otherwise it emits true and spawns a task unless a wintun handle is held. |
| `Stop` | `stop`. |
| `SpawnWintun` | The wintun spawn, with the handle replaced. |
| `DnsCheck` | The `enable_dns` read. It is followed by the 10 s sleep. |
| `SpawnDns` | The dns spawn. If it fails, the wintun child is killed. |
| `Monitor` | One `Terminated` event of the watch loop. |
| `TaskEnd` | The loop ends and emits false. |
| `ChildExit` | A sidecar exits, because it was killed or by itself. |
| `Quit` | The tray's quit item. It takes the dns handle, resets the DNS and kills it, kills the held wintun child, and exits the process, which ends every task. |

`stop` calls `emit_state_update_event` while it holds the guard. That function
emits stopped (line 255) and then locks the same `std::sync::Mutex` again at
line 258. The mutex is not reentrant, so that stop never returns and `hung`
stays TRUE. Every later step
that needs the lock is disabled.

## Runs

| run | result | what it shows |
|---|---|---|
| `UdpConn.cfg` | pass, about 637k states | Under every write and read outcome the following hold. `PreambleFirst`: the UDP_ASSOCIATE request precedes all record bytes on the wire. `StagingSingleDatagram`: before the handshake at most one datagram is staged. `NoReorder`: records reach the wire in the order the code committed to them, with none interleaved. `InboundIntegrity`: the payloads handed to the local socket, followed by `lbuffer`, are exactly the bytes read, so nothing is lost, duplicated or reordered across reads, compaction and parse. |
| `UdpConn_OutboundFraming.cfg` | violation | `OutboundFraming` fails. The record bytes on the wire plus `rbuffer` are not a prefix of the records sent. A 1-byte body whose write blocks right after the header is cached twice. A write blocked at offset 0 loses the body. (finding) |
| `NetProfiler.cfg` | pass, about 1.68M states | `DedupWindow`: an address is handed to the request routine at most once per dedup window, however often it is seen, across checks, updates and re-sends. |
| `NetProfiler_NoBypass.cfg` | violation | `NoBypassRespected` fails (spec 4.8: no-bypass addresses are never bypassed). `session.test` fails with an `Err`, the request routine spawns `do_check` anyway, and the address is decided for bypass and added to the bypass ipset. (finding) |
| `NetProfiler_GroupBy.cfg` | violation | `CompleteRowsDecided` fails with three addresses. An update decides only the last run of complete rows, and a complete row gets no decision. (finding) |
| `UdpServer.cfg` | pass, about 453k states | `TablesAgree`: while tokens are not reused, `token2conns` and `addr2conns` name the same connections in both directions. `ClosedRemoved`: no closed connection stays in a table. Both hold across datagrams, TLS events, closes and sweeps. |
| `UdpServer_TokenWrap.cfg` | violation | `TablesAgree` fails with two tokens. Connection 2 closes, `next_token` wraps, and connection 3 gets token 0, which connection 1 still holds. `or_insert` keeps connection 1 under that token, so connection 3's TLS events go to connection 1. (finding) |
| `UdpServer_Idle.cfg` | violation | `IdleFlowsEvicted` fails. `check_timeout` looks the idle destination endpoints up in `addr2conns`, which is keyed by source endpoints, so it never evicts a flow. (finding) |
| `AndroidVpn.cfg` | violation | `ImplementsAbstractVpn` fails. `init_rust` runs, onStart starts a VPN thread, the activity is created again and `init_rust` replaces `CONTEXT` with a new flag. onStop clears the new flag and the thread keeps running on the old one. The host is stopped and an engine is still active, which no abstract step allows. (finding) |
| `PingChannel.cfg` | pass, 1457 states | `DecodeFaithful`: unless a connection was lost while `recv_buffer` held part of a record, decode applies exactly the relay's answers, each once and in order, and never panics. This holds however `do_read` splits the bytes. `AnswerEventuallyApplied` (liveness): every answer whose bytes are in flight or buffered on a connection that stays up is eventually applied, because decode takes every complete record in the call that read its last byte. |
| `PingChannel_Torn.cfg` | violation | `NoJunkAnswer` fails. The connection is lost after the first byte (the ATYP) of an IPv4 answer has been read. `reset` keeps that byte in `recv_buffer`. On the new connection the relay answers the same address again, and decode reads the stale ATYP plus the new answer's first bytes as one garbled record. Other byte values reach `unreachable!` and kill the main loop. (finding) |
| `DesktopShell.cfg` | pass, 23489 states | `IdleShowsStopped`: whenever no start task is running, the window shows stopped. This holds with two starts, stops, quit, spawn failures and sidecar exits in any order. |
| `DesktopShell_StopHang.cfg` | violation | `CleanupCompletes` (liveness: after stop or quit, unless started again, every sidecar ends and the DNS is reset) fails. A stop during the dns startup sleep kills wintun, and the dns sidecar is spawned anyway. A second stop finds no wintun handle and blocks on the lock it holds. The watch loop can no longer lock the state to kill dns, which runs for good. If the dns sidecar exits by itself instead, the watch loop cannot reset the DNS it set. A stop before any start hangs in one step. (finding) |

Every property of a passing run has a mutant in `PROJECT.json`. The mutant is a plausible bug in the mapped code, and TLC finds the property violated when the mutant replaces the code. Examples:

- staging a second datagram;
- writing before the handshake;
- dropping the parse residual;
- refreshing `last_time` only on row creation;
- `next_token` without the wrap;
- skipping the token entry;
- `remove` forgetting `addr2conns`;
- `do_check`'s completion and the table refresh in the wrong order;
- a task ending without its final event;
- an off-by-one length check in `decode` that panics on a short record;
- one that leaves a complete last record in `recv_buffer` (breaks `AnswerEventuallyApplied`).

### Further counterexamples

These configurations sit beside the runs. Each checks one property, and TLC shows it violated:

| cfg | what it shows |
|---|---|
| `UdpConn_NoOversizeClose.cfg` | A valid 6-byte record with a 4-byte `lbuffer` fills the buffer. The next read gets an empty slice, returns `Ok(0)` and closes the association. |
| `ProfilerMath_ProbeAverage.cfg` | The running average is not the mean of the replies. Outcomes lost, lost, 10 ms give 3, not 10. |
| `ProfilerMath_NoProxyPingOverflow.cfg` | A remote ping of 65534 with `cond.ping` 200 overflows the u16 sum. |
| `UdpServer_ReplySource.cfg` | A source that talks to two destinations gets every reply from the socket of the first, not from the record's ADDR. |
| `UdpServer_Panic.cfg` | A new source at a moment the pool cannot connect panics the event loop (`pool.get().unwrap()`). |
| `ProfilerMath_DecisionMatchesSpec.cfg` | With a loss of 1% to the relay, 1% from the relay and 1% locally, the code bypasses and the spec's rule does not. The f32 cast rounds the combined loss up. |
| `DesktopShell_Restart.cfg` | `NoOrphan` fails. Two starts come before the first task spawns. Both tasks spawn a wintun sidecar, and `wintun.replace` drops the first handle, so no stop can kill that sidecar. |
| `DesktopShell_QuitDns.cfg` | `QuitRestoresDns` fails. The wintun sidecar exits, and the watch loop takes the dns handle and kills dns. Quit comes before the loop handles dns's exit. It finds no dns handle, skips `set_dns_server("")` and exits, so the adapter's DNS points at a resolver that is gone. `CleanupCompletes` covers this case too, but its run shows the hang first. |
| `AndroidVpn_Restart.cfg` | `HostRestarts = TRUE`, `MaxFlags` = 1 (no re-init). A second onStart replaces the running flag without clearing the old one, and the first VPN thread outlives onStop. The same configuration breaks `ImplementsAbstractVpn`, because a second start is no step of the abstract service. |
| `AndroidVpn_Status.cfg` | `MaxFlags` = 1. A VPN thread that fails at once emits error (2) before onStart emits starting (1). The host's last status is then "starting" while no VPN runs. |

## Bounds

The bounds are set in the MC modules and the .cfg files.

`UdpConn`:

| constant | value | why |
|---|---|---|
| `HeaderLen` | 2 | Enough to cut a write inside the header. |
| `BodyLens` | {0, 1, 3} | An empty body, a body shorter than the header (the case lines 187-188 single out), and a longer one. |
| `MaxDgrams` | 3 | Staged, dropped and written datagrams all occur. |
| `Cap` | 4 | Stands for the 1500-byte capacity. |
| `RecLens` | {2, 6} | Records that fit and records that do not. |
| `MaxInbound` | 2 | Residuals spanning two reads occur. |

`NetProfiler`:

| constant | value | why |
|---|---|---|
| IPs | two addresses, one of them no-bypass; three for the group-by run | Three addresses are the fewest that can interleave complete and incomplete rows. |
| `Dedup` | 2 ticks | Stands for 3600 s. |
| `Stale` | 1 tick | Stands for 100 s. |
| `MaxTime` | 2 (3 for the no-bypass run) | A check inside the window and one after it both occur. |
| Local pings | 40 and 300 ms | One is decided for bypass, one is not, and 300 ms is above the u8 range. |
| Relay answer | 20 ms, no loss | The dedup property does not depend on the relay's values. |
| `CONDITION` | 200 ms with 0% or 3% loss | — |

`UdpServer`:

| constant | value | why |
|---|---|---|
| sources, destinations | 2 each, symmetric | A source can talk to two destinations, and two sources can share one. |
| `NumIndex` | 3 (2 for the wrap run) | Three tokens cover three connections without reuse. Two make the wrap reachable. |
| `Idle` | 1 tick | Stands for 600 s. |
| `MaxConns` | 3 | — |
| `MaxTime` | 1 (3 for the violation runs) | A sweep after idle time occurs. |

`AndroidVpn`: two descriptors, `MaxStarts` = 3, which covers start, stop and a restart, and `MaxFlags` = 3, which lets `init_rust` run twice around a start.

`PingChannel`: one IPv4 and one IPv6 address. `V4Len` = 3 and `V6Len` = 4 stand for 8 and 20. They keep the two lengths different, which is all the torn case needs. `MaxAnswers` = 3 and `MaxResets` = 1: two answers around one reset produce the torn record, and a third checks the buffer afterwards.

`DesktopShell`: `MaxStarts` = 2 for the passing run. Two overlapping tasks occur in it. The hang needs only one.

## Fairness

The liveness properties assume weak fairness only where the code schedules the step:

- `AndroidVpn`:
  - `ThreadStop(i)`: `process_vpn` polls its flag, so a thread whose flag stays clear returns.
  - `Emit`: the JNI call finishes the statement it is in.
  - Nothing forces `ThreadFail`.
- `DesktopShell`:
  - every task step: the tokio runtime runs a task that is ready.
  - `ChildExit` of a killed child: a killed process terminates.
  - A sidecar that is not killed may run forever.
  - Start, stop and quit are the user's, so none of them is fair.

`ImplementsAbstractVpn` asks `AndroidVpn`'s fairness to imply the abstract one: `Publish` follows from `Emit` and `EngineEnd` from `ThreadStop`. Its violation is a safety step, not a fairness one.

- `PingChannel`: `ReadChunk` is weakly fair. mio reports the connection readable while bytes wait in the socket, and the main loop calls `ready` on every event. That assumes `do_read` (in `TlsConn`, not in this repository) returns what it can on each readable event. The relay, the network and `reset` are not fair.

The other modules check safety only. The code does not guarantee that the relay answers or that a TLS write makes progress.

## Not modelled

- `TlsConn`, `IdlePool`, `proto` and the TCP worker are not in this repository. `TlsConn` write/read/flush and the record parser are modelled by their possible outcomes.
- The handshake request is assumed to be written whole, because it is the first write on a fresh TLS connection. A short write of it needs the `TlsConn` buffering.
- When one event is both writable and readable, `do_remote` runs both parts in one call. The model runs them as two actions. The write part touches only outbound state and the read part only inbound state, so this differs only when the write part closes the connection. In that case the code still reads from the closed connection.
- In `NetProfiler`, the ping channel is reduced to the set of requests the relay holds. `PingChannel` models its inbound framing. The outbound `send_buffer` framing (`send_request`, `do_send`) is not modelled: it writes whole requests or keeps the rest in the buffer, and no property tells its records apart.
- `src/src/awintun/mod.rs` is the engine's setup (config, wintun adapter, the smoltcp interface) and a mio loop that hands events to the TCP and UDP workers. The workers are not in this repository, so the loop has nothing to model but its dispatch.
- `src/src/types.rs` is an error enum with no state.
- ICMP, the ipset kernel calls, logging, JNI helpers and config files are I/O.

The following are not modelled either:

- In the desktop shell: config load and save (file I/O), the `init` command (a read of the config), and the tray handlers other than quit, which show the window or open the dev tools.
- In the Android bridge: the JNI helpers (permissions, notification, storage, packet copy, `Session`), which are I/O.

## Plan

| item | contents |
|---|---|
| liveness in `NetProfiler` and `UdpConn` | A complete row is eventually decided. A staged datagram reaches the wire or the connection closes. Re-sends of stale rows are bounded. |
| composition | `UdpServer` with `UdpConn` instances per connection. |
