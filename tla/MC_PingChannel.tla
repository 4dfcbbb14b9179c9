--------------------------- MODULE MC_PingChannel ---------------------------
(* PingChannel for TLC: one IPv4 and one IPv6 address; record lengths 3   *)
(* and 4 stand for 8 and 20 (only their order and the length check        *)
(* matter).                                                                *)
EXTENDS PingChannel

CONSTANTS a4, a6

MCIPs4 == {a4}
MCIPs6 == {a6}
=============================================================================
