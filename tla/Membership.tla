----------------------------- MODULE Membership -----------------------------
(***************************************************************************)
(* What the pool of src/proxy_pool.py promises of its members and of the   *)
(* proxy in use, whatever order it keeps them in, however it counts        *)
(* failures, and whoever calls it when: only listed proxies are selected,  *)
(* only the proxy in use can be listed again, an empty pool stays empty,   *)
(* and selecting anew is the only way to get another proxy into use.       *)
(***************************************************************************)
CONSTANTS Proxies, None

VARIABLES
    members,    \* the proxies listed
    chosen      \* the proxy in use, or None

vars == <<members, chosen>>

Init ==
    /\ members \in SUBSET Proxies
    /\ chosen \in members

Select ==
    /\ chosen' \in members
    /\ UNCHANGED members

(* A connection's failure takes the proxy in use out; it stays in use      *)
(* until the next selection.                                               *)
EvictChosen ==
    /\ chosen # None
    /\ members' = members \ {chosen}
    /\ UNCHANGED chosen

(* The health check takes any proxies out, from the list and from use.     *)
EvictUnfit ==
    \E S \in SUBSET Proxies :
        /\ members' = members \ S
        /\ chosen' = IF chosen \in S THEN None ELSE chosen

Readmit ==
    /\ chosen # None /\ members # {}
    /\ members' = members \cup {chosen}
    /\ UNCHANGED chosen

Next == Select \/ EvictChosen \/ EvictUnfit \/ Readmit

Spec == Init /\ [][Next]_vars
=============================================================================
