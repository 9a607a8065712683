-------------------------- MODULE MCCredentialBridge --------------------------
(* CredentialBridge with one connection beside the window and the startup  *)
(* thread: three actors that may rotate. The proofs are for any number.    *)
EXTENDS CredentialBridge

CONSTANTS c1

OneConn == {c1}
===============================================================================
