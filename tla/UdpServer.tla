----------------------------- MODULE UdpServer -----------------------------
(***************************************************************************)
(* The UDP server of the wintun engine (src/src/wintun/udp1.rs, UdpServer  *)
(* and next_token): the tables token2conns, addr2conns and sockets, the    *)
(* allocation of mio tokens, the delivery of local datagrams and of TLS    *)
(* events to connections, the idle sweep and the removal of closed         *)
(* connections.                                                            *)
(*                                                                         *)
(* A connection (module UdpConn) is abstracted to its token, the smoltcp   *)
(* socket it replies through (local), its source endpoint, whether its    *)
(* UDP_ASSOCIATE request has been written (established) and whether it is *)
(* closed.  Connections are numbered *)
(* in order of creation.  Source and destination endpoints are disjoint:   *)
(* sources are addresses of the TUN network, destinations remote ones.     *)
(***************************************************************************)
EXTENDS Integers, FiniteSets, Functions, TLC

CONSTANTS
  Srcs,       \* source endpoints (local applications)
  Dsts,       \* destination endpoints (one smoltcp socket each)
  NumIndex,   \* MAX_INDEX - MIN_INDEX: the tokens next_token cycles through
  Idle,       \* 600 s: the idle timeout of a UDP flow, in ticks
  MaxConns,   \* bound: connections created
  MaxTime     \* bound on the clock

ASSUME /\ Srcs \cap Dsts = {}
       /\ NumIndex \in Nat \ {0} /\ Idle \in Nat /\ MaxConns \in Nat
       /\ MaxTime \in Nat

VARIABLES
  now,          \* the clock
  nextIndex,    \* NEXT_INDEX - MIN_INDEX
  conns,        \* conns[i]: connection i (token, local, endpoint, closed)
  token2conns,  \* UdpServer.token2conns: token -> connection
  addr2conns,   \* UdpServer.addr2conns: source endpoint -> connection
  sockets,      \* UdpServer.sockets: destination endpoint -> last active
  smol,         \* smoltcp sockets still in the SocketSet
  sentTo,       \* sentTo[i]: destinations connection i forwarded to
  panicked,     \* the event loop panicked
  replies,      \* history: <<source, record ADDR, replying socket>>
  lastSeen,     \* history: last datagram of each source, either direction
  sweptAt       \* history: tick of the last check_timeout

vars == <<now, nextIndex, conns, token2conns, addr2conns, sockets, smol,
          sentTo, panicked, replies, lastSeen, sweptAt>>

Conn == [token : 0 .. NumIndex - 1, local : Dsts, endpoint : Srcs,
         established : BOOLEAN, closed : BOOLEAN]

\* A table without key k (HashMap::remove).
Drop(f, k) == Restrict(f, DOMAIN f \ {k})

\* Mutant: the token entry is never made.
OrInsertSkip(f, k, v) == f

\* A table with k mapped to v unless k is present (entry().or_insert_with).
OrInsert(f, k, v) == IF k \in DOMAIN f THEN f ELSE f @@ (k :> v)

\* Connections some table still holds (the others have been dropped, and
\* their TLS connections with them).
Held == Range(token2conns) \cup Range(addr2conns)

-----------------------------------------------------------------------------

\* Mutant: next_token without the wrap to MIN_INDEX.
NextIndexNoWrap(i) == i + 1

\* next_token: the counter steps through the reserved range and wraps.
NextIndex(i) == IF i + 1 >= NumIndex THEN 0 ELSE i + 1

\* Mutant: remove forgets the addr2conns entry.
RemoveTokenOnly(t2c, a2c, c) ==
  /\ token2conns' = Drop(t2c, c.token)
  /\ addr2conns' = a2c

\* UdpServer::remove of connection c from the tables t2c and a2c: both
\* entries are removed by key, whichever connection they hold.
Remove(t2c, a2c, c) ==
  /\ token2conns' = Drop(t2c, c.token)
  /\ addr2conns' = Drop(a2c, c.endpoint)

\* The engine creates the smoltcp socket of a new destination and records
\* it with new_socket.
NewSocket ==
  /\ ~panicked
  /\ \E d \in Dsts \ DOMAIN sockets :
       /\ sockets' = sockets @@ (d :> now)
       /\ smol' = smol \cup {d}
  /\ UNCHANGED <<now, nextIndex, conns, token2conns, addr2conns, sentTo,
                 panicked, replies, lastSeen, sweptAt>>

\* Connection::do_local on connection i of the connections cs, entered in
\* the tables t2c and a2c: before the handshake it only stages the
\* datagram; after it, a failed write closes the connection.  A closed
\* connection is removed.
DeliverLocal(cs, t2c, a2c, i) ==
  \E closed \in IF cs[i].established THEN BOOLEAN ELSE {FALSE} :
    LET c == [cs[i] EXCEPT !.closed = @ \/ closed] IN
      /\ conns' = [cs EXCEPT ![i] = c]
      /\ IF c.closed THEN Remove(t2c, a2c, c)
         ELSE token2conns' = t2c /\ addr2conns' = a2c

\* UdpServer::do_local, one datagram from s to the socket of d: stamp the
\* socket; find the connection of s, or take a TLS connection from the pool
\* with the next token (pool.get().unwrap(): a pool that fails panics);
\* enter the connection under its token if the token is free (or_insert);
\* forward the datagram.
Datagram ==
  /\ ~panicked
  /\ \E d \in smol, s \in Srcs :
       \/ /\ s \in DOMAIN addr2conns
          /\ LET i == addr2conns[s] IN
               /\ DeliverLocal(conns, OrInsert(token2conns, conns[i].token, i), addr2conns, i)
               /\ sentTo' = [sentTo EXCEPT ![i] = @ \cup {d}]
          /\ sockets' = [sockets EXCEPT ![d] = now]
          /\ lastSeen' = [lastSeen EXCEPT ![s] = now]
          /\ UNCHANGED <<nextIndex, panicked>>
       \/ /\ s \notin DOMAIN addr2conns
          /\ panicked' = TRUE
          /\ UNCHANGED <<nextIndex, conns, token2conns, addr2conns, sockets,
                         sentTo, lastSeen>>
       \/ /\ s \notin DOMAIN addr2conns
          /\ Cardinality(DOMAIN conns) < MaxConns
          /\ LET i == Cardinality(DOMAIN conns) + 1
                 c == [token |-> nextIndex, local |-> d, endpoint |-> s,
                       established |-> FALSE, closed |-> FALSE]
             IN /\ DeliverLocal(conns @@ (i :> c), OrInsert(token2conns, c.token, i),
                                addr2conns @@ (s :> i), i)
                /\ sentTo' = sentTo @@ (i :> {d})
          /\ nextIndex' = NextIndex(nextIndex)
          /\ sockets' = [sockets EXCEPT ![d] = now]
          /\ lastSeen' = [lastSeen EXCEPT ![s] = now]
          /\ UNCHANGED panicked
  /\ UNCHANGED <<now, smol, replies, sweptAt>>

\* UdpServer::do_remote for a TLS event of connection i (registered with
\* its token while a table holds it): the connection entered under that
\* token handles the event (Connection::do_remote): the first writable
\* event writes the UDP_ASSOCIATE request and establishes it, any failed
\* write or read closes it, and once established it may hand relay
\* records to the local socket; the payload of a record
\* for destination a goes from the connection's socket to its source.  A
\* closed connection is removed.  An unknown token is ignored.
RemoteEvent ==
  /\ ~panicked
  /\ \E i \in Held :
       /\ ~conns[i].closed
       /\ conns[i].token \in DOMAIN token2conns
       /\ LET j == token2conns[conns[i].token]
              c == conns[j]
          IN \E closed \in BOOLEAN,
                out \in IF c.established THEN SUBSET sentTo[j] ELSE {{}} :
               /\ conns' = [conns EXCEPT ![j].closed = @ \/ closed,
                                         ![j].established = @ \/ ~closed]
               /\ replies' = replies \cup {<<c.endpoint, a, c.local>> : a \in out}
               /\ lastSeen' = IF out = {} THEN lastSeen
                              ELSE [lastSeen EXCEPT ![c.endpoint] = now]
               /\ IF conns'[j].closed THEN Remove(token2conns, addr2conns, c)
                  ELSE UNCHANGED <<token2conns, addr2conns>>
  /\ UNCHANGED <<now, nextIndex, sockets, smol, sentTo, panicked, sweptAt>>

\* UdpServer::check_timeout: the endpoints of sockets idle for more than
\* Idle are looked up in addr2conns; each connection found loses its
\* sockets entry (by its endpoint), its smoltcp socket, and its table
\* entries.
CheckTimeout ==
  /\ ~panicked
  /\ sweptAt < now
  /\ LET idle == {e \in DOMAIN sockets : now - sockets[e] > Idle}
         found == {addr2conns[e] : e \in idle \cap DOMAIN addr2conns}
     IN /\ sockets' = Restrict(sockets, DOMAIN sockets \ {conns[i].endpoint : i \in found})
        /\ smol' = smol \ {conns[i].local : i \in found}
        /\ token2conns' = Restrict(token2conns, DOMAIN token2conns \ {conns[i].token : i \in found})
        /\ addr2conns' = Restrict(addr2conns, DOMAIN addr2conns \ {conns[i].endpoint : i \in found})
  /\ sweptAt' = now
  /\ UNCHANGED <<now, nextIndex, conns, sentTo, panicked, replies, lastSeen>>

Tick ==
  /\ now < MaxTime
  /\ now' = now + 1
  /\ UNCHANGED <<nextIndex, conns, token2conns, addr2conns, sockets, smol,
                 sentTo, panicked, replies, lastSeen, sweptAt>>

Init ==
  /\ now = 0
  /\ nextIndex = 0
  /\ conns = <<>>
  /\ token2conns = <<>> /\ addr2conns = <<>> /\ sockets = <<>>
  /\ smol = {}
  /\ sentTo = <<>>
  /\ panicked = FALSE
  /\ replies = {}
  /\ lastSeen = [s \in Srcs |-> 0]
  /\ sweptAt = -1

Next == NewSocket \/ Datagram \/ RemoteEvent \/ CheckTimeout \/ Tick

Spec == Init /\ [][Next]_vars

-----------------------------------------------------------------------------
(* Properties                                                              *)

TypeOK ==
  /\ now \in 0 .. MaxTime /\ nextIndex \in 0 .. NumIndex - 1
  /\ \E n \in 0 .. MaxConns : DOMAIN conns = 1 .. n
  /\ \A i \in DOMAIN conns : conns[i] \in Conn /\ sentTo[i] \subseteq Dsts
  /\ DOMAIN token2conns \subseteq 0 .. NumIndex - 1
  /\ DOMAIN addr2conns \subseteq Srcs /\ DOMAIN sockets \subseteq Dsts
  /\ Held \subseteq DOMAIN conns /\ smol \subseteq Dsts
  /\ panicked \in BOOLEAN

\* The two tables name the same connections (spec 4.7): the connection of
\* every source is the one its token delivers TLS events to, and every
\* token leads to the connection of that token's source; so a TLS event
\* always reaches the connection whose TLS connection raised it.
TablesAgree ==
  /\ \A s \in DOMAIN addr2conns :
       LET i == addr2conns[s] IN
         conns[i].token \in DOMAIN token2conns /\ token2conns[conns[i].token] = i
  /\ \A t \in DOMAIN token2conns :
       LET i == token2conns[t] IN
         conns[i].endpoint \in DOMAIN addr2conns /\ addr2conns[conns[i].endpoint] = i

\* No table holds a closed connection: do_local and do_remote remove a
\* connection as soon as one of its handlers closes it.
ClosedRemoved == \A i \in Held : ~conns[i].closed

\* Spec 4.6 step 3: the payload of an inbound record is delivered from the
\* record's ADDR to the source.
ReplyFromRecordAddr == \A r \in replies : r[2] = r[3]

\* Spec 4.6 step 5 and 4.7: right after a sweep, no flow has been idle (no
\* datagram either way) for longer than Idle.
IdleFlowsEvicted ==
  sweptAt = now => \A s \in DOMAIN addr2conns : now - lastSeen[s] <= Idle

\* Spec 4.4: acquiring a TLS connection may fail when the relay is
\* unreachable; a UDP flow that cannot get one must not take the engine
\* down.
NoPanic == ~panicked
=============================================================================
