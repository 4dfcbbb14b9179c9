---------------------------- MODULE MC_UdpConn ----------------------------
(* Model-checking instance of UdpConn: a 2-byte header, a 1-byte preamble *)
(* and payloads of 0, 1 and 3 bytes, so that a write can stop inside the   *)
(* header, exactly at its end, and inside a body longer or shorter than a  *)
(* header; relay records of 2 bytes and of 6 bytes, the latter larger than *)
(* the 4-byte lbuffer.                                                     *)
EXTENDS UdpConn

MCHeaderLen == 2
MCPreambleLen == 1
MCBodyLens == {0, 1, 3}
MCMaxDgrams == 3
MCCap == 4
MCRecLens == {2, 6}
MCMaxInbound == 2
=============================================================================
