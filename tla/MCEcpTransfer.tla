---------------------------- MODULE MCEcpTransfer ----------------------------
(***************************************************************************)
(* A run of two, a single byte, a channel command and a byte behind it.    *)
(***************************************************************************)
EXTENDS EcpTransfer

MCStream == <<2, 1, Channel, 1>>
=============================================================================
