--------------------------- MODULE MC_AndroidVpn ---------------------------
(* Model-checking instance of AndroidVpn: two descriptors and up to three  *)
(* starts, so that a VPN is started again after a stop, or twice.          *)
EXTENDS AndroidVpn

MCFds == {3, 4}
=============================================================================
