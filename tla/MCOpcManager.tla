---------------------------- MODULE MCOpcManager ----------------------------
(* OpcManager with two devices, on one server or on two.                   *)
EXTENDS OpcManager, TLC

CONSTANTS p1, p2, n1, n2

OneServer  == (p1 :> {n1, n2})
TwoServers == (p1 :> {n1}) @@ (p2 :> {n2})
=============================================================================
