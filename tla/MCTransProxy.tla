---------------------------- MODULE MCTransProxy ----------------------------
(* Model checking of TransProxy: two proxies, and one or two connections. *)
EXTENDS TransProxy, TLC

CONSTANTS p1, p2, c1, c2

TwoProxies == {p1, p2}
OneConn    == {c1}
TwoConns   == {c1, c2}

(* Nothing tells the proxies, or the connections, apart. *)
Symmetry == Permutations(TwoProxies) \cup Permutations(TwoConns)
=============================================================================
