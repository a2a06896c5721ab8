------------------------------- MODULE MCLink -------------------------------
(* Link on a small instance.                                               *)
EXTENDS LinkProperties, TLC
=============================================================================
