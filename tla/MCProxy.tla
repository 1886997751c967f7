------------------------------- MODULE MCProxy -------------------------------
(* Values for the constants of Proxy.                                      *)
EXTENDS Proxy

CONSTANTS a, b, c, p1, p2, c1, c2
=============================================================================
