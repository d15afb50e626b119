------------------------- MODULE MC_DhcpRelayServer -------------------------
(* Model values for DhcpRelayServer: two good names, the empty name that *)
(* ValidateKey rejects, and an 8-bit server address, whose all-ones value  *)
(* plays 0xffffffff.                                                       *)
EXTENDS DhcpRelayServer

MC_Names      == {"vtn1", "vtn2", ""}
MC_ValidNames == {"vtn1", "vtn2"}
====
