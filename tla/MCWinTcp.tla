------------------------------ MODULE MCWinTcp ------------------------------
(* Model checking of WinTcp: two keys, and enough connections to reuse one. *)
EXTENDS WinTcp

CONSTANTS k1, k2

OneKey  == {k1}
TwoKeys == {k1, k2}
=============================================================================
