---------------------------- MODULE MC_UdpServer ----------------------------
(* Model-checking instance of UdpServer: two sources and two destinations, *)
(* so that one source can reach two destinations and two sources one; up  *)
(* to three connections, so that a source gets a new connection after its *)
(* first one closed.  Sources and destinations are symmetric.             *)
EXTENDS UdpServer

CONSTANTS s1, s2, d1, d2

MCSrcs == {s1, s2}
MCDsts == {d1, d2}

MCSymmetry == Permutations(MCSrcs) \cup Permutations(MCDsts)
=============================================================================
