---------------------------- MODULE DnsForwardProofs ----------------------------
(***************************************************************************)
(* Proofs about the DNS forwarder.  The sessions that it runs in are those *)
(* of RunVpn, so all that holds of them holds with it; and a query that    *)
(* comes back to the forwarder never overtakes the one it came of.         *)
(***************************************************************************)
EXTENDS DnsForward, RunVpnProofs

-----------------------------------------------------------------------------
(* With queries or without, a session takes the steps of RunVpn.           *)
LEMMA SessionSteps ==
    ASSUME [DnsNext]_dnsVars
    PROVE  [Next]_vars
  BY DEF DnsNext, Along, Forwarding, dnsVars

-----------------------------------------------------------------------------

(* A query that came back to the forwarder came from a handler that found  *)
(* no proxy.                                                               *)
InOrder(q) ==
    \A j \in 2 .. MaxDepth : q[j] # "none" => q[j - 1] \in {"self", "over"}

(* A thread that has not handed its query back changes no other, and one   *)
(* that waits for the forwarder's own answer only ends (dns.py:30-60).     *)
LEMMA OwnChange ==
    ASSUME NEW q \in [Queries -> States], InOrder(q), NEW i \in Queries, NEW v \in States,
           q[i] \notin {"none", "over"}, v # "none", q[i] = "self" => v = "over"
    PROVE  InOrder([q EXCEPT ![i] = v])
<1> DEFINE r == [q EXCEPT ![i] = v]
<1> SUFFICES ASSUME NEW j \in 2 .. MaxDepth, r[j] # "none"
             PROVE  r[j - 1] \in {"self", "over"}
  BY DEF InOrder
<1>1. j \in Queries /\ j - 1 \in Queries /\ j - 1 # j /\ i \in Int
  BY DepthAssumption DEF Queries
<1>2. q[j] # "none" => q[j - 1] \in {"self", "over"}
  BY DEF InOrder
<1>3. q[j] # "none"
  BY <1>1
<1>4. CASE j - 1 = i
  BY <1>1, <1>2, <1>3, <1>4
<1>5. CASE j - 1 # i
  BY <1>1, <1>2, <1>3, <1>5
<1> QED
  BY <1>4, <1>5

(* Nothing came back yet of a query that its thread still looks at.        *)
LEMMA NextUnused ==
    ASSUME NEW q \in [Queries -> States], InOrder(q), NEW i \in Queries, q[i] = "handled"
    PROVE  /\ i + 1 \in Queries => q[i + 1] = "none"
           /\ i + 2 \in Queries => q[i + 2] = "none"
<1>1. \A j \in Queries : j + 1 \in Queries => j + 1 \in 2 .. MaxDepth /\ (j + 1) - 1 = j
  BY DepthAssumption DEF Queries
<1>2. i + 1 \in Queries => q[i + 1] = "none"
  BY <1>1 DEF InOrder
<1>3. ASSUME i + 2 \in Queries
      PROVE  q[i + 2] = "none"
  <2>1. i + 1 \in Queries /\ (i + 1) + 1 = i + 2
    BY <1>3, DepthAssumption DEF Queries
  <2> QED
    BY <2>1, <1>1, <1>2, <1>3 DEF InOrder
<1> QED
  BY <1>2, <1>3

(* The query to the upstream server comes back as the next (dns.py:38-42). *)
LEMMA SentBack ==
    ASSUME NEW q \in [Queries -> States], InOrder(q), NEW i \in Queries, q[i] = "handled",
           i < MaxDepth
    PROVE  InOrder([q EXCEPT ![i] = "self", ![i + 1] = "queued"])
<1> DEFINE r == [q EXCEPT ![i] = "self", ![i + 1] = "queued"]
<1> SUFFICES ASSUME NEW j \in 2 .. MaxDepth, r[j] # "none"
             PROVE  r[j - 1] \in {"self", "over"}
  BY DEF InOrder
<1>1. /\ j \in Queries /\ j - 1 \in Queries /\ i \in Int /\ j \in Int
      /\ i + 1 \in Queries /\ i + 1 # i
  BY DepthAssumption DEF Queries
<1>2. q[i + 1] = "none" /\ (i + 2 \in Queries => q[i + 2] = "none")
  BY NextUnused, <1>1
<1>3. r[i] = "self"
  BY <1>1
<1>4. CASE j = i + 1
  BY <1>1, <1>3, <1>4
<1>5. CASE j = i + 2
  BY <1>1, <1>2, <1>5
<1>6. CASE j = i
  <2>1. q[j - 1] \in {"self", "over"}
    BY <1>6 DEF InOrder
  <2> QED
    BY <2>1, <1>1, <1>6
<1>7. CASE j \notin {i, i + 1, i + 2}
  <2>1. q[j - 1] \in {"self", "over"}
    BY <1>1, <1>7 DEF InOrder
  <2> QED
    BY <2>1, <1>1, <1>7
<1> QED
  BY <1>4, <1>5, <1>6, <1>7

(* An application asks, or a query's thread takes a step.                  *)
LEMMA QueryStep ==
    ASSUME DnsTypeOK, Ask \/ \E i \in Queries : Handle(i)
    PROVE  query' \in [Queries -> States] /\ InOrder(query')
<1>1. /\ query \in [Queries -> States] /\ InOrder(query)
  BY DEF DnsTypeOK, States, InOrder
<1>2. 1 \in Queries
  BY DepthAssumption DEF Queries
<1>3. CASE Ask
  <2>1. /\ query[1] = "none" /\ query' = [query EXCEPT ![1] = "queued"]
    BY <1>3 DEF Ask
  <2>2. ASSUME NEW j \in 2 .. MaxDepth, query'[j] # "none"
        PROVE  query'[j - 1] \in {"self", "over"}
    <3>1. j \in Queries /\ j - 1 \in Queries /\ j # 1
      BY DepthAssumption DEF Queries
    <3>2. query[j - 1] \in {"self", "over"}
      BY <2>1, <2>2, <3>1, <1>1 DEF InOrder
    <3> QED
      BY <2>1, <3>1, <3>2, <1>1
  <2> QED
    BY <1>1, <1>2, <2>1, <2>2 DEF InOrder, States
<1>4. ASSUME NEW i \in Queries, FallbackRedirected(i)
      PROVE  query' \in [Queries -> States] /\ InOrder(query')
  <2>1. /\ query[i] = "handled" /\ i < MaxDepth
        /\ query' = [query EXCEPT ![i] = "self", ![i + 1] = "queued"]
    BY <1>4 DEF FallbackRedirected
  <2>2. InOrder(query')
    BY <2>1, <1>1, SentBack
  <2>3. query' \in [Queries -> States]
    BY <2>1, <1>1 DEF States, Waiting
  <2> QED
    BY <2>2, <2>3
<1>5. ASSUME NEW i \in Queries, Handle(i), ~FallbackRedirected(i)
      PROVE  query' \in [Queries -> States] /\ InOrder(query')
  <2>2. query[i] \notin {"none", "over"}
    BY <1>5 DEF Handle, Receive, Forward, FallbackDirect, FallbackLost, Answer, Fail,
                Waiting
  <2>3. PICK v \in States \ {"none"} :
           query' = [query EXCEPT ![i] = v] /\ (query[i] = "self" => v = "over")
    <3>1. CASE Answer(i)
      BY <3>1 DEF Answer, States
    <3>2. CASE Fail(i)
      BY <3>2 DEF Fail, States
    <3>3. CASE Receive(i) \/ Forward(i) \/ FallbackDirect(i) \/ FallbackLost(i)
      BY <3>3 DEF Receive, Forward, FallbackDirect, FallbackLost, States, Waiting
    <3> QED
      BY <1>5, <3>1, <3>2, <3>3 DEF Handle
  <2>4. InOrder(query')
    BY <1>1, <2>2, <2>3, OwnChange
  <2> QED
    BY <1>1, <2>3, <2>4
<1> QED
  BY <1>3, <1>4, <1>5

(* A step of the session only ends queries: those in a socket that it      *)
(* closes, and those of a process that it ends (dns.py:83-89; vpn.py:230). *)
LEMMA SessionStep ==
    ASSUME DnsTypeOK, Along(Next)
    PROVE  query' \in [Queries -> States] /\ InOrder(query')
<1>1. query \in [Queries -> States] /\ InOrder(query)
  BY DEF DnsTypeOK, States, InOrder
<1>2. query' = [i \in Queries |-> IF Lost(query[i]) THEN "over" ELSE query[i]]
  BY DEF Along
<1>3. query' \in [Queries -> States]
  <2>1. "over" \in States
    BY DEF States
  <2> QED
    BY <1>1, <1>2, <2>1
<1>4. ASSUME NEW j \in 2 .. MaxDepth, query'[j] # "none"
      PROVE  query'[j - 1] \in {"self", "over"}
  <2>1. j \in Queries /\ j - 1 \in Queries
    BY DepthAssumption DEF Queries
  <2>2. query[j] # "none"
    BY <1>2, <1>4, <2>1 DEF Lost
  <2>3. query[j - 1] \in {"self", "over"}
    BY <1>1, <2>2 DEF InOrder
  <2> QED
    BY <1>2, <2>1, <2>3
<1> QED
  BY <1>2, <1>3, <1>4 DEF InOrder

-----------------------------------------------------------------------------
(* Every run of sessions with the forwarder is a run of the sessions.      *)
LEMMA SessionsWithDns == DnsSpec => Spec
<1>1. DnsInit => Init
  BY DEF DnsInit
<1>2. [DnsNext]_dnsVars => [Next]_vars
  BY SessionSteps
<1> QED
  BY <1>1, <1>2, PTL DEF DnsSpec, Spec

(* So what is true of sessions is true of them with queries under way: a   *)
(* set-up that fails is undone, an end leaves nothing behind, and marked   *)
(* packets are not redirected (vpn.py:201-236).                            *)
THEOREM SessionsStaySafe ==
    DnsSpec => [](TypeOK /\ SetupFailureUndone /\ CleanEnd /\ MarkedTrafficBypasses)
  BY SessionsWithDns, TypeCorrect, FailedSetupsUndone, EndsAreClean, MarkedIsExempt, PTL

(* Through all sessions a query that came back to the forwarder is the one *)
(* query of a handler that found no proxy and is waiting for it or gave it *)
(* up (dns.py:30-60).                                                      *)
THEOREM QueriesInOrder == DnsSpec => []DnsTypeOK
<1>1. DnsInit => DnsTypeOK
  BY DepthAssumption DEF DnsInit, DnsTypeOK, Queries, States
<1>2. TypeOK /\ DnsTypeOK /\ [DnsNext]_dnsVars => DnsTypeOK'
  <2> SUFFICES ASSUME TypeOK, DnsTypeOK, [DnsNext]_dnsVars
               PROVE  DnsTypeOK'
    OBVIOUS
  <2>2. query' \in [Queries -> States] /\ InOrder(query')
    <3>1. CASE Along(Next)
      BY <3>1, SessionStep DEF DnsTypeOK
    <3>2. CASE Forwarding
      BY <3>2, QueryStep DEF Forwarding
    <3>3. CASE UNCHANGED dnsVars
      BY <3>3 DEF dnsVars, DnsTypeOK, States, InOrder
    <3> QED
      BY <3>1, <3>2, <3>3 DEF DnsNext
  <2> QED
    BY <2>2 DEF DnsTypeOK, States, InOrder
<1> QED
  BY <1>1, <1>2, SessionsWithDns, TypeCorrect, PTL DEF DnsSpec
=================================================================================
