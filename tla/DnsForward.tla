------------------------------- MODULE DnsForward -------------------------------
(***************************************************************************)
(* src/dns.py DnsProxy, the forwarder of DNS queries, in a session of TUN  *)
(* mode: run_vpn() opens and closes its socket and TunManager redirects    *)
(* queries to it, as RunVpn says.  Every query has a thread, which asks    *)
(* the upstream server through a proxy or, when no proxy suits, directly.  *)
(*                                                                         *)
(* A packet may be lost, a proxy may fail, and both end in a timeout.      *)
(* Followed here is one query of an application and what comes of it.      *)
(***************************************************************************)
EXTENDS RunVpn

CONSTANT MaxDepth   \* bound on how often a query comes back to the forwarder

ASSUME DepthAssumption == MaxDepth \in Nat \ {0}

VARIABLE
    query   \* the application's query, and what came back of it, in order

dnsVars == <<vars, query>>

Queries == 1 .. MaxDepth

(* "none", "queued" in the socket's buffer, "handled" by its thread, which *)
(* waits for an answer from "upstream", through a proxy or directly, from  *)
(* the forwarder itself, "self", or from nobody, "lost", and is "over"     *)
(* when it is answered or given up.                                        *)
Waiting == {"upstream", "self", "lost"}
States  == {"none", "queued", "handled", "over"} \cup Waiting

-----------------------------------------------------------------------------
(* The rule for port 53 catches every UDP packet, marked or not, because   *)
(* the rule that exempts marked packets is about TCP (tun.py:83-88).       *)
Redirected == "natDns" \in ToSet(rules)
Listening  == "dns" \in installed

DnsInit == Init /\ query = [i \in Queries |-> "none"]

Ask ==
    /\ query[1] = "none" /\ Redirected /\ Listening
    /\ query' = [query EXCEPT ![1] = "queued"]

(* serve(): recvfrom(), and a thread for the query. *)
Receive(i) ==
    /\ query[i] = "queued" /\ Listening
    /\ query' = [query EXCEPT ![i] = "handled"]

(* pool.get_for_dns() returns a proxy, and the query goes through it. *)
Forward(i) ==
    /\ query[i] = "handled"
    /\ query' = [query EXCEPT ![i] = "upstream"]

FallbackDirect(i) ==
    /\ query[i] = "handled" /\ ~Redirected
    /\ query' = [query EXCEPT ![i] = "upstream"]

(* A faulty handler that does not wait for the answer. *)
FallbackRetried(i) ==
    /\ query[i] = "handled" /\ Redirected /\ Listening /\ i < MaxDepth
    /\ query' = [query EXCEPT ![i + 1] = "queued"]

(* The query to the upstream server is sent back by the program's own rule. *)
FallbackRedirected(i) ==
    /\ query[i] = "handled" /\ Redirected /\ Listening /\ i < MaxDepth
    /\ query' = [query EXCEPT ![i] = "self", ![i + 1] = "queued"]

(* Nobody listens any more at the port it is sent back to. *)
FallbackLost(i) ==
    /\ query[i] = "handled" /\ Redirected /\ ~Listening
    /\ query' = [query EXCEPT ![i] = "lost"]

(* An answer comes, from the forwarder itself only to what came back, and  *)
(* is sent on; if stop() has closed the socket, that is an error like any. *)
Answer(i) ==
    /\ query[i] \in Waiting \ {"lost"}
    /\ query[i] = "self" => i < MaxDepth /\ query[i + 1] = "over"
    /\ query' = [query EXCEPT ![i] = "over"]

(* A faulty handler without a timeout for what was sent back or lost. *)
NoTimeout(i) ==
    /\ query[i] \in {"handled", "upstream"}
    /\ query' = [query EXCEPT ![i] = "over"]

(* The timeout of 10 s, or another error. *)
Fail(i) ==
    /\ query[i] \in {"handled"} \cup Waiting
    /\ query' = [query EXCEPT ![i] = "over"]

Handle(i) ==
    \/ Receive(i) \/ Forward(i) \/ FallbackDirect(i) \/ FallbackRedirected(i)
    \/ FallbackLost(i) \/ Answer(i) \/ Fail(i)

-----------------------------------------------------------------------------
(* A step of the session: the socket takes its unread queries along, and   *)
(* the process its threads.                                                *)
Lost(q) ==
    \/ q = "queued" /\ "dns" \notin installed'
    \/ q \notin {"none", "over"} /\ phase' \in {"exited", "died"}

Along(step) ==
    /\ step
    /\ query' = [i \in Queries |-> IF Lost(query[i]) THEN "over" ELSE query[i]]

Forwarding == (Ask \/ \E i \in Queries : Handle(i)) /\ UNCHANGED vars

DnsNext == Along(Next) \/ Forwarding

(* Every command and every stop() of the program returns, threads run, and *)
(* every wait of a handler has a timeout.                                  *)
DnsSpec ==
    /\ DnsInit /\ [][DnsNext]_dnsVars
    /\ WF_vars(MainThread)
    /\ \A i \in Queries : WF_query(Handle(i) /\ UNCHANGED vars)

-----------------------------------------------------------------------------
(* Properties *)

(* The variable keeps its type, and a query that came back is the one      *)
(* query of a handler that found no proxy.                                 *)
DnsTypeOK ==
    /\ query \in [Queries -> States]
    /\ \A i \in 2 .. MaxDepth :
          query[i] # "none" => query[i - 1] \in {"self", "over"}

(* "no suitable proxy, falling back to direct" (dns.py:38): a handler that *)
(* finds no proxy asks the upstream server, and not the forwarder itself.  *)
FallbackIsDirect ==
    \A i \in Queries : query[i] # "self"

(* An application's query does not keep its thread for ever (dns.py:42,    *)
(* 58): it is answered or given up, also when it came back to the          *)
(* forwarder and the session ended meanwhile.                              *)
EveryQueryEnds == query[1] = "queued" ~> query[1] = "over"
=================================================================================
