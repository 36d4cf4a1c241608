---------------------------- MODULE MCNegotiation ----------------------------
(* A peripheral that speaks nibble mode, its device ID and ECP. *)
EXTENDS Negotiation

SomeModes == {NIBBLE, NIBBLE + DEVICEID, BYTE, COMPAT, ECPSWE, BECP, EPPSL}
SomeBytes == {NIBBLE, NIBBLE + DEVICEID, ECP}
=============================================================================
