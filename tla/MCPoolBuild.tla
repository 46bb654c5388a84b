----------------------------- MODULE MCPoolBuild -----------------------------
(* Model checking of PoolBuild: a few proxies, two runs of the program. *)
EXTENDS PoolBuild

CONSTANTS p1, p2, p3

TwoProxies   == {p1, p2}
ThreeProxies == {p1, p2, p3}
=============================================================================
