------------------------------ MODULE MCBridge ------------------------------
(* A small instance of Bridge: one restart beside the watchdog, and enough  *)
(* process identities for every bridge that two races can leave behind.     *)
EXTENDS Bridge

CONSTANTS p1, p2, p3, p4, r1

FourProcs    == {p1, p2, p3, p4}
OneRestarter == {r1}
=============================================================================
