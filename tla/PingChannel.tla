---------------------------- MODULE PingChannel ----------------------------
(***************************************************************************)
(* The inbound side of the profiler's ping channel to the relay            *)
(* (src/src/proxy/net_profiler.rs, NetProfiler::ready, reset, initialize   *)
(* and decode).  The relay answers with records ATYP || ADDR || PING(2) || *)
(* LOST(1): 8 bytes for IPv4, 20 for IPv6.  ready appends what do_read     *)
(* returns to recv_buffer and decodes every complete record; when the TLS  *)
(* connection is shut down, reset drops it and initialize opens another   *)
(* one, but recv_buffer is kept.                                           *)
(*                                                                         *)
(* A byte is <<r, k>>: byte k of the relay's r-th answer.  Byte 1 is the   *)
(* ATYP of the answer's address; any other byte (address octets, ping,    *)
(* loss) may hold any value, so read as an ATYP it may be IPV4, IPV6 or    *)
(* anything else.  The main loop runs ready, so each call is one step.     *)
(***************************************************************************)
EXTENDS Integers, Sequences, FiniteSets

CONSTANTS
  IPs4, IPs6,     \* addresses the relay answers for
  V4Len, V6Len,   \* 8 and 20: record lengths
  MaxAnswers,     \* bound: answers the relay sends
  MaxResets       \* bound: connections lost

ASSUME /\ IPs4 \cap IPs6 = {} /\ 2 <= V4Len /\ V4Len < V6Len
       /\ MaxAnswers \in Nat /\ MaxResets \in Nat

Junk == 0   \* a decoded answer made of bytes of no single record

VARIABLES
  conn,      \* self.conn: "up", "dead" (shut down, not yet noticed) or "none"
  inflight,  \* bytes the relay wrote on the current connection, not yet read
  recvBuf,   \* self.recv_buffer
  answers,   \* answers[r]: the address of the relay's r-th answer
  applied,   \* history: the record of each answer decode applied (or Junk)
  panicked,  \* decode reached unreachable!: the main loop is gone
  resets,    \* connections lost
  torn       \* history: a connection was lost with a partial record buffered

vars == <<conn, inflight, recvBuf, answers, applied, panicked, resets, torn>>

LenOf(t) == IF t = "v4" THEN V4Len ELSE V6Len

Kind(ip) == IF ip \in IPs4 THEN "v4" ELSE "v6"

Record(r, ip) == [k \in 1 .. LenOf(Kind(ip)) |-> <<r, k>>]

\* What the first byte b of recv_buffer reads as: the ATYP of its answer,
\* or, for any other byte, whatever value it holds.
Atyp(b) == IF b[2] = 1 THEN {Kind(answers[b[1]])} ELSE {"v4", "v6", "other"}

\* The answer decoded from the bytes seg: record r if seg is exactly its
\* bytes, else Junk.
Answer(seg) == IF seg = Record(seg[1][1], answers[seg[1][1]]) THEN seg[1][1] ELSE Junk

\* Mutant: the length check is off by one (len < 7 for IPv4), so a record
\* one byte short is read and get_u8 panics on the empty buffer.
RECURSIVE DecodeShort(_, _)
DecodeShort(buf, out) ==
  IF buf = <<>> THEN {[rest |-> buf, out |-> out, panic |-> FALSE]}
  ELSE UNION {
    CASE t = "other" -> {[rest |-> buf, out |-> out, panic |-> TRUE]}
      [] Len(buf) < LenOf(t) - 1 -> {[rest |-> buf, out |-> out, panic |-> FALSE]}
      [] Len(buf) < LenOf(t) -> {[rest |-> buf, out |-> out, panic |-> TRUE]}
      [] OTHER -> DecodeShort(SubSeq(buf, LenOf(t) + 1, Len(buf)),
                              Append(out, Answer(SubSeq(buf, 1, LenOf(t)))))
    : t \in Atyp(buf[1]) }

\* Mutant: the length check breaks on len <= 8, so a record that ends
\* exactly at the end of recv_buffer waits for bytes that may never come.
RECURSIVE DecodeStall(_, _)
DecodeStall(buf, out) ==
  IF buf = <<>> THEN {[rest |-> buf, out |-> out, panic |-> FALSE]}
  ELSE UNION {
    CASE t = "other" -> {[rest |-> buf, out |-> out, panic |-> TRUE]}
      [] Len(buf) <= LenOf(t) -> {[rest |-> buf, out |-> out, panic |-> FALSE]}
      [] OTHER -> DecodeStall(SubSeq(buf, LenOf(t) + 1, Len(buf)),
                              Append(out, Answer(SubSeq(buf, 1, LenOf(t)))))
    : t \in Atyp(buf[1]) }

\* decode: while recv_buffer is not empty, read the ATYP; break if the
\* record is not complete; take the record; an unknown ATYP is
\* unreachable!.  The set of outcomes [rest, out, panic] over the values
\* the non-ATYP bytes may hold.
RECURSIVE Decode(_, _)
Decode(buf, out) ==
  IF buf = <<>> THEN {[rest |-> buf, out |-> out, panic |-> FALSE]}
  ELSE UNION {
    CASE t = "other" -> {[rest |-> buf, out |-> out, panic |-> TRUE]}
      [] Len(buf) < LenOf(t) -> {[rest |-> buf, out |-> out, panic |-> FALSE]}
      [] OTHER -> Decode(SubSeq(buf, LenOf(t) + 1, Len(buf)),
                         Append(out, Answer(SubSeq(buf, 1, LenOf(t)))))
    : t \in Atyp(buf[1]) }

-----------------------------------------------------------------------------

\* The relay answers for an address on the current connection.
RelayAnswer ==
  /\ ~panicked /\ conn = "up"
  /\ Len(answers) < MaxAnswers
  /\ \E ip \in IPs4 \cup IPs6 :
       /\ answers' = Append(answers, ip)
       /\ inflight' = inflight \o Record(Len(answers) + 1, ip)
  /\ UNCHANGED <<conn, recvBuf, applied, panicked, resets, torn>>

\* ready on a readable event: do_read returns the next n bytes, they are
\* appended to recv_buffer, and decode runs.
ReadChunk ==
  /\ ~panicked /\ conn = "up"
  /\ \E n \in 1 .. Len(inflight) :
       \E d \in Decode(recvBuf \o SubSeq(inflight, 1, n), <<>>) :
         /\ inflight' = SubSeq(inflight, n + 1, Len(inflight))
         /\ recvBuf' = d.rest
         /\ applied' = applied \o d.out
         /\ panicked' = d.panic
  /\ UNCHANGED <<conn, answers, resets, torn>>

\* The TLS connection shuts down; what the relay wrote and was not read is
\* lost with it.
ConnLost ==
  /\ ~panicked /\ conn = "up"
  /\ resets < MaxResets
  /\ conn' = "dead"
  /\ inflight' = <<>>
  /\ resets' = resets + 1
  /\ torn' = (torn \/ recvBuf # <<>>)
  /\ UNCHANGED <<recvBuf, answers, applied, panicked>>

\* initialize: a connection from the pool, re-registered under PINGER,
\* that takes the PING request; any failure shuts it down and leaves conn
\* None.
Initialize == conn' \in {"up", "none"}

\* ready finds the connection shut down: reset drops it and calls
\* initialize, whose result nobody looks at (with conn None, ready returns
\* at once, for good).  recv_buffer is left as it is.
Reset ==
  /\ ~panicked /\ conn = "dead"
  /\ Initialize
  /\ UNCHANGED <<inflight, recvBuf, answers, applied, panicked, resets, torn>>

Init ==
  /\ conn = "up" /\ inflight = <<>> /\ recvBuf = <<>>
  /\ answers = <<>> /\ applied = <<>>
  /\ panicked = FALSE /\ resets = 0 /\ torn = FALSE

Next == RelayAnswer \/ ReadChunk \/ ConnLost \/ Reset

\* mio reports the connection readable while the relay's bytes wait in the
\* socket, and the main loop then calls ready, so a read is never put off
\* for good.  The relay, the network and the reset are not fair.
Spec == Init /\ [][Next]_vars /\ WF_vars(ReadChunk)

-----------------------------------------------------------------------------
(* Properties                                                              *)

\* Unless a connection was lost with part of a record in recv_buffer,
\* decode applies exactly the relay's answers, each once and in order,
\* however do_read splits them, and never panics.
DecodeFaithful ==
  ~torn => /\ ~panicked
           /\ \A i \in DOMAIN applied : applied[i] # Junk
           /\ \A i, j \in DOMAIN applied : i < j => applied[i] < applied[j]

Bytes(s) == {s[i] : i \in DOMAIN s}

\* Every answer the relay writes on a connection that stays up is
\* eventually applied: ready decodes every record complete in recv_buffer
\* in the same call, since nothing runs decode again without new bytes.
AnswerEventuallyApplied ==
  \A r \in 1 .. MaxAnswers :
    (\E b \in Bytes(inflight \o recvBuf) : b[1] = r) ~>
      (\E i \in DOMAIN applied : applied[i] = r) \/ conn # "up" \/ torn

\* decode never applies values that are not an answer of the relay and
\* never panics, whatever the connection does.
NoJunkAnswer ==
  ~panicked /\ \A i \in DOMAIN applied : applied[i] # Junk
=============================================================================
