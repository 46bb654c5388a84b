----------------------------- MODULE MCLocalProxy -----------------------------
(* An instance of LocalProxy for TLC: three clients for one worker, a       *)
(* limiter that lets two of them in per second of two ticks.                 *)
EXTENDS LocalProxy

CONSTANTS c1, c2, c3

ThreeConns == {c1, c2, c3}
==============================================================================
