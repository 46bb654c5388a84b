---------------------------- MODULE MCProxyPool ----------------------------
(* Model checking of ProxyPool on its own: its most general callers. *)
EXTENDS ProxyPool, TLC

CONSTANTS p1, p2, p3, c1, c2

SomeProxies == {p1, p2, p3}
SomeCallers == {c1, c2}

(* Nothing tells the proxies, or the handlers, apart. *)
Symmetry == Permutations(SomeProxies) \cup Permutations(SomeCallers)

(* The comprehension as the standard library writes it. *)
ASSUME WithoutAssumption ==
    \A s \in UNION {[1 .. n -> SomeProxies] : n \in 0 .. 4}, S \in SUBSET SomeProxies :
        Without(s, S) = SelectSeq(s, LAMBDA p : p \notin S)

(* list.remove and list.insert, one after the other. *)
ASSUME MoveToFrontAssumption ==
    \A s \in UNION {[1 .. n -> SomeProxies] : n \in 1 .. 4}, i \in 1 .. 4 :
        i \in DOMAIN s /\ (\A j \in 1 .. (i - 1) : s[j] # s[i]) =>
            MoveToFront(s, s[i]) =
                <<s[i]>> \o SubSeq(s, 1, i - 1) \o SubSeq(s, i + 1, Len(s))
=============================================================================
