------------------------------ MODULE UdpConn ------------------------------
(***************************************************************************)
(* One UDP-associate connection of the wintun UDP server                  *)
(* (src/src/wintun/udp1.rs, struct Connection).                            *)
(*                                                                         *)
(* Outbound: datagrams from the local application are framed as           *)
(* ADDR||LEN||CRLF (the header) followed by the payload (the body) and     *)
(* written to the TLS connection; bytes the TLS connection does not take   *)
(* are staged in rbuffer.  The UDP_ASSOCIATE preamble is written on the    *)
(* first writable event.                                                   *)
(* Inbound: bytes read from the TLS connection accumulate in lbuffer       *)
(* (capacity Cap, never grown), complete records are parsed and their      *)
(* payload written to the smoltcp socket, the residual is compacted.       *)
(*                                                                         *)
(* Bytes are abstract: outbound byte <<d, k>> is the k-th byte of the      *)
(* record of datagram d (header bytes are k <= HeaderLen), preamble bytes  *)
(* are <<0, k>>; inbound byte <<r, k>> is the k-th byte of relay record r. *)
(* Each handler runs to completion on the single mio event loop, so each   *)
(* is one atomic action.                                                   *)
(***************************************************************************)
EXTENDS Integers, Sequences, SequencesExt

CONSTANTS
  HeaderLen,    \* length of ADDR||LEN||CRLF of an outbound record
  PreambleLen,  \* length of CMD||ADDR||CRLF of the UDP_ASSOCIATE request
  BodyLens,     \* payload lengths a local datagram may have
  MaxDgrams,    \* bound: datagrams the local application sends
  Cap,          \* capacity of lbuffer (Vec::with_capacity(1500))
  RecLens,      \* total lengths of records the relay may send
  MaxInbound    \* bound: records the relay sends

ASSUME /\ HeaderLen \in Nat \ {0} /\ PreambleLen \in Nat \ {0}
       /\ BodyLens \subseteq Nat /\ RecLens \subseteq Nat \ {0}
       /\ Cap \in Nat \ {0} /\ MaxDgrams \in Nat /\ MaxInbound \in Nat

VARIABLES
  established, \* Connection.established: preamble written
  rclosed,     \* Connection.rclosed: TLS side closed
  rbuffer,     \* Connection.rbuffer: staged outbound bytes
  wire,        \* bytes accepted by the TLS connection, in order
  sent,        \* history: records of the datagrams the code committed to send
  arrived,     \* number of datagrams delivered by the local socket
  lbuffer,     \* Connection.lbuffer: unparsed inbound bytes
  inStream,    \* bytes the relay has written on this connection
  relayRecs,   \* relayRecs[r]: [len, ok] of the r-th relay record
  relayClosed, \* the relay closed its side
  readPos,     \* number of inStream bytes read so far
  handed       \* history: relay records whose payload went to socket.write

outVars == <<established, rclosed, rbuffer, wire, sent, arrived>>
inVars  == <<lbuffer, inStream, relayRecs, relayClosed, readPos, handed>>
vars    == <<outVars, inVars>>

Preamble == [k \in 1 .. PreambleLen |-> <<0, k>>]

Header(d) == [k \in 1 .. HeaderLen |-> <<d, k>>]

Body(d, b) == [k \in 1 .. b |-> <<d, HeaderLen + k>>]

\* The record bytes of a byte sequence: everything but the preamble.
DataBytes(s) == SelectSeq(s, LAMBDA x : x[1] # 0)

-----------------------------------------------------------------------------
(* Outbound path                                                           *)

\* close_remote: idempotent, closes the TLS connection.
CloseRemote == rclosed' = TRUE

\* flush_remote: Ok and WouldBlock leave the connection open, any other
\* error closes it.
FlushRemote == rclosed' \in BOOLEAN

\* The bytes local_to_remote caches when the write loop stops after m
\* bytes: the rest of the slice being written (data), then the whole body
\* again if data is shorter than the header.
Remainder(header, body, m) ==
  LET data == IF m < Len(header) THEN SubSeq(header, m + 1, Len(header))
              ELSE SubSeq(body, m - Len(header) + 1, Len(body))
  IN  data \o (IF Len(data) < Len(header) THEN body ELSE <<>>)

\* The write loop of local_to_remote over header then body, starting from
\* the TLS stream w0: m bytes are taken; then either everything is written,
\* or write returns WouldBlock (remainder cached, then flush), or write
\* returns Ok(0) or an error (close, return).
WriteFresh(w0, header, body) ==
  LET data == header \o body
  IN  \E m \in 0 .. Len(data) :
        /\ wire' = w0 \o SubSeq(data, 1, m)
        /\ \/ /\ m = Len(data)
              /\ rbuffer' = <<>>
              /\ FlushRemote
           \/ /\ m < Len(data)
              /\ rbuffer' = Remainder(header, body, m)
              /\ FlushRemote
           \/ /\ m < Len(data)
              /\ rbuffer' = <<>>
              /\ CloseRemote

\* local_to_remote: send_all the cached bytes first; if they do not all
\* go out, the new datagram is discarded (flush, or close on error), else
\* the write loop runs on header and body.
LocalToRemote(w0, header, body) ==
  \/ /\ rbuffer = <<>>
     /\ WriteFresh(w0, header, body)
  \/ /\ rbuffer # <<>>
     /\ \/ WriteFresh(w0 \o rbuffer, header, body)
        \/ \E n \in 0 .. Len(rbuffer) - 1 :
             /\ wire' = w0 \o SubSeq(rbuffer, 1, n)
             /\ rbuffer' = SubSeq(rbuffer, n + 1, Len(rbuffer))
             /\ \/ FlushRemote   \* Ok(false): blocked
                \/ CloseRemote   \* Err

\* Mutant: do_local without the staging check queues behind a blocked write.
DoLocalQueue(header, body) ==
  \/ /\ ~established
     /\ rbuffer' = rbuffer \o header \o body
     /\ sent' = Append(sent, header \o body)
     /\ UNCHANGED <<established, rclosed, wire>>
  \/ /\ established
     /\ sent' = Append(sent, header \o body)
     /\ LocalToRemote(wire, header, body)
     /\ UNCHANGED established

\* Mutant: do_local without the readiness check writes at once.
DoLocalEager(header, body) ==
  \/ /\ rbuffer # <<>>
     /\ UNCHANGED <<established, rclosed, rbuffer, wire, sent>>
  \/ /\ rbuffer = <<>>
     /\ sent' = Append(sent, header \o body)
     /\ LocalToRemote(wire, header, body)
     /\ UNCHANGED established

\* Mutant: do_local writes a new datagram at once, leaving the staged bytes
\* for a later writable event.
DoLocalBypass(header, body) ==
  \/ /\ rbuffer # <<>>
     /\ established
     /\ wire' = wire \o header \o body
     /\ sent' = Append(sent, header \o body)
     /\ UNCHANGED <<established, rclosed, rbuffer>>
  \/ /\ rbuffer = <<>>
     /\ ~established
     /\ rbuffer' = header \o body
     /\ sent' = Append(sent, header \o body)
     /\ UNCHANGED <<established, rclosed, wire>>
  \/ /\ rbuffer = <<>>
     /\ established
     /\ sent' = Append(sent, header \o body)
     /\ LocalToRemote(wire, header, body)
     /\ UNCHANGED established

\* Connection::do_local: drop the datagram while bytes are staged; before
\* the preamble is out, stage it; else write it.
DoLocal(header, body) ==
  \/ /\ rbuffer # <<>>
     /\ UNCHANGED <<established, rclosed, rbuffer, wire, sent>>
  \/ /\ rbuffer = <<>>
     /\ ~established
     /\ rbuffer' = header \o body
     /\ sent' = Append(sent, header \o body)
     /\ UNCHANGED <<established, rclosed, wire>>
  \/ /\ rbuffer = <<>>
     /\ established
     /\ sent' = Append(sent, header \o body)
     /\ LocalToRemote(wire, header, body)
     /\ UNCHANGED established

\* UdpServer::do_local delivering one datagram of this source endpoint:
\* UdpAssociate::generate_endpoint builds the header, the payload is the
\* body.  A closed connection has been removed from the server's tables.
LocalDatagram ==
  /\ ~rclosed
  /\ arrived < MaxDgrams
  /\ arrived' = arrived + 1
  /\ \E b \in BodyLens : DoLocal(Header(arrived + 1), Body(arrived + 1, b))
  /\ UNCHANGED inVars

\* Connection::do_remote on a writable event: the first one writes the
\* UDP_ASSOCIATE request (is_ok marks the connection established, an error
\* closes it and returns), then local_to_remote with nothing new.  The
\* request is the first write on a fresh connection and is taken whole.
RemoteWritable ==
  /\ ~rclosed
  /\ \/ /\ ~established
        /\ established' = TRUE
        /\ LocalToRemote(wire \o Preamble, <<>>, <<>>)
     \/ /\ ~established
        /\ CloseRemote
        /\ UNCHANGED <<established, rbuffer, wire>>
     \/ /\ established
        /\ LocalToRemote(wire, <<>>, <<>>)
        /\ UNCHANGED established
  /\ UNCHANGED <<sent, arrived, inVars>>

-----------------------------------------------------------------------------
(* Inbound path                                                            *)

RecStart(b) == b[2] = 1

\* Mutant: the Continued branch drops the residual instead of compacting it.
ParseAllClear(buf, out) == [residual |-> <<>>, out |-> out, invalid |-> FALSE]

\* The parse loop of remote_to_local over buf: every complete record is
\* handed to socket.write; Continued keeps the unconsumed tail (copy_within
\* to the front); InvalidProtocol closes the connection.  A buffer that does
\* not start at a record boundary is taken as an invalid ATYP.
RECURSIVE ParseAll(_, _)
ParseAll(buf, out) ==
  IF buf = <<>> THEN [residual |-> <<>>, out |-> out, invalid |-> FALSE]
  ELSE LET r == buf[1][1] IN
       IF ~RecStart(buf[1]) \/ ~relayRecs[r].ok
         THEN [residual |-> buf, out |-> out, invalid |-> TRUE]
       ELSE IF Len(buf) < relayRecs[r].len
         THEN [residual |-> buf, out |-> out, invalid |-> FALSE]
       ELSE ParseAll(SubSeq(buf, relayRecs[r].len + 1, Len(buf)), Append(out, r))

RECURSIVE Drain(_, _, _, _)

\* Mutant: each read takes one byte more than the free tail of lbuffer.
DrainOverread(lbuf, out, rest, got) ==
  IF rest = <<>> THEN [lbuffer |-> lbuf, handed |-> out, read |-> got, closed |-> FALSE]
  ELSE LET n == IF Cap - Len(lbuf) + 1 < Len(rest) THEN Cap - Len(lbuf) + 1 ELSE Len(rest)
           p == ParseAll(lbuf \o SubSeq(rest, 1, n), out)
       IN  IF p.invalid
             THEN [lbuffer |-> p.residual, handed |-> p.out, read |-> got + n, closed |-> TRUE]
           ELSE Drain(p.residual, p.out, SubSeq(rest, n + 1, Len(rest)), got + n)

\* The read loop of remote_to_local over the bytes rest that the TLS
\* connection has ready (got counts the bytes read): each read fills the free tail of lbuffer (whose
\* capacity is never grown), then the parse loop runs; no bytes ready is
\* WouldBlock (return); a full lbuffer reads into an empty slice, which
\* returns Ok(0) and closes the connection.
Drain(lbuf, out, rest, got) ==
  IF rest = <<>> THEN [lbuffer |-> lbuf, handed |-> out, read |-> got, closed |-> FALSE]
  ELSE IF Len(lbuf) = Cap THEN [lbuffer |-> lbuf, handed |-> out, read |-> got, closed |-> TRUE]
  ELSE LET n == IF Cap - Len(lbuf) < Len(rest) THEN Cap - Len(lbuf) ELSE Len(rest)
           p == ParseAll(lbuf \o SubSeq(rest, 1, n), out)
       IN  IF p.invalid
             THEN [lbuffer |-> p.residual, handed |-> p.out, read |-> got + n, closed |-> TRUE]
           ELSE Drain(p.residual, p.out, SubSeq(rest, n + 1, Len(rest)), got + n)

\* Connection::do_remote on a readable event (remote_to_local): the TLS
\* connection has the next bytes of the relay's stream ready up to avail;
\* after them read returns WouldBlock, or Ok(0) once the relay has closed
\* and everything is read, or a read error.
RemoteReadable ==
  /\ ~rclosed
  /\ \E avail \in readPos .. Len(inStream), ending \in {"block", "eof", "error"} :
       /\ ending = "block" => avail > readPos
       /\ ending = "eof" => relayClosed /\ avail = Len(inStream)
       /\ LET d == Drain(lbuffer, handed, SubSeq(inStream, readPos + 1, avail), 0) IN
            /\ lbuffer' = d.lbuffer
            /\ handed' = d.handed
            /\ readPos' = readPos + d.read
            /\ rclosed' = (d.closed \/ ending # "block")
  /\ UNCHANGED <<established, rbuffer, wire, sent, arrived, inStream, relayRecs, relayClosed>>

-----------------------------------------------------------------------------
(* The relay (environment)                                                 *)

\* The relay answers with a record of total length len; ok is FALSE for a
\* record with an invalid address type.
RelaySend ==
  /\ ~relayClosed
  /\ established
  /\ Len(relayRecs) < MaxInbound
  /\ \E len \in RecLens, ok \in BOOLEAN :
       LET r == Len(relayRecs) + 1 IN
         /\ relayRecs' = Append(relayRecs, [len |-> len, ok |-> ok])
         /\ inStream' = inStream \o [k \in 1 .. len |-> <<r, k>>]
  /\ UNCHANGED <<outVars, lbuffer, relayClosed, readPos, handed>>

RelayClose ==
  /\ ~relayClosed
  /\ relayClosed' = TRUE
  /\ UNCHANGED <<outVars, lbuffer, inStream, relayRecs, readPos, handed>>

-----------------------------------------------------------------------------
Init ==
  /\ established = FALSE
  /\ rclosed = FALSE
  /\ rbuffer = <<>>
  /\ wire = <<>>
  /\ sent = <<>>
  /\ arrived = 0
  /\ lbuffer = <<>>
  /\ inStream = <<>>
  /\ relayRecs = <<>>
  /\ relayClosed = FALSE
  /\ readPos = 0
  /\ handed = <<>>

Next ==
  \/ LocalDatagram
  \/ RemoteWritable
  \/ RemoteReadable
  \/ RelaySend
  \/ RelayClose

Spec == Init /\ [][Next]_vars

-----------------------------------------------------------------------------
(* Properties                                                              *)

OutByte == ({0} \X (1 .. PreambleLen)) \cup
           ((1 .. MaxDgrams) \X (1 .. HeaderLen + Max(BodyLens)))

TypeOK ==
  /\ established \in BOOLEAN /\ rclosed \in BOOLEAN
  /\ rbuffer \in Seq(OutByte) /\ wire \in Seq(OutByte)
  /\ arrived \in 0 .. MaxDgrams /\ Len(sent) <= arrived
  /\ readPos \in 0 .. Len(inStream)
  /\ relayRecs \in Seq([len : RecLens, ok : BOOLEAN])
  /\ Len(handed) <= Len(relayRecs) /\ Len(lbuffer) <= Cap

\* The relay reads the UDP_ASSOCIATE request before any record: no record
\* byte reaches the TLS connection unless the whole preamble came first
\* (do_local stages datagrams until do_remote has written the request).
PreambleFirst ==
  DataBytes(wire) # <<>> => IsPrefix(Preamble, wire)

\* The staging buffer only ever holds bytes of one datagram: do_local drops
\* a datagram while anything is staged (UDP semantics, spec 4.6 step 4)
\* instead of queueing behind a blocked write.
StagingSingleDatagram ==
  \A i, j \in DOMAIN rbuffer : rbuffer[i][1] = rbuffer[j][1]

\* No reordering: record bytes reach the TLS connection in datagram order,
\* cached bytes before the bytes of any later datagram.
NoReorder ==
  LET s == DataBytes(wire) IN \A i \in 1 .. Len(s) - 1 : s[i][1] <= s[i + 1][1]

\* Inbound framing: the records handed to the socket, followed by the
\* residual in lbuffer, are exactly the bytes read from the relay, in
\* order (no record lost, duplicated or split across the compaction).
InboundIntegrity ==
  FlattenSeq([i \in DOMAIN handed |->
                [k \in 1 .. relayRecs[handed[i]].len |-> <<handed[i], k>>]])
    \o lbuffer = SubSeq(inStream, 1, readPos)

\* Outbound framing (spec 4.3, 4.6): the record bytes the relay receives,
\* followed by the staged bytes, are a prefix of the encoded records of the
\* datagrams the connection accepted, so every LEN is followed by exactly
\* its payload.
OutboundFraming ==
  IsPrefix(DataBytes(wire \o rbuffer), FlattenSeq(sent))

\* A well-formed record is never the reason the connection closes: a closed
\* connection does not hold, in a full lbuffer, the start of a valid record.
NoOversizeClose ==
  ~(/\ rclosed /\ Len(lbuffer) = Cap /\ lbuffer # <<>>
    /\ RecStart(lbuffer[1]) /\ relayRecs[lbuffer[1][1]].ok)
=============================================================================
