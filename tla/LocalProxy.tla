------------------------------- MODULE LocalProxy -------------------------------
(***************************************************************************)
(* The local SOCKS5 proxy, src/local_proxy.py LocalSocksProxy: _handle()   *)
(* on the workers of Listener.  The pool is there only as what it may      *)
(* answer: a proxy, None, any size, and from mark_failed() an exception,   *)
(* all of which ProxyPool does in some state.                              *)
(***************************************************************************)
EXTENDS Listener

CONSTANTS
    KillSwitch,     \* self.kill_switch
    MaxTries        \* the 5 of min(size or 5, 5)

ASSUME HandlerAssumption == KillSwitch \in BOOLEAN /\ MaxTries \in Nat \ {0}

VARIABLES
    left,       \* attempts that the loop still allows
    verdicts    \* history: how many replies its request has got

handler == <<left, verdicts>>
vars    == <<server, handler>>

Init ==
    /\ ServerInit
    /\ left = [c \in Conns |-> 0]
    /\ verdicts = [c \in Conns |-> 0]

-----------------------------------------------------------------------------
(* A step of the handler leaves the listener alone. *)
Goes(c, from, to) ==
    /\ conn[c] = from
    /\ Becomes(c, to)
    /\ UNCHANGED <<queue, listening, clock, limiter>>

(* The loop is over: its counter is not read again. *)
Forget(c) == left' = [left EXCEPT ![c] = 0]

Tell(c) == verdicts' = [verdicts EXCEPT ![c] = @ + 1]

(* Version 5; the methods are read and the first is accepted. *)
Greet(c) == Goes(c, "started", "request") /\ UNCHANGED handler

(* Another version, fewer bytes than asked for, or the client has gone. *)
BadGreeting(c) == Goes(c, "started", "closed") /\ UNCHANGED handler

Request(c) == Goes(c, "request", "asking") /\ UNCHANGED handler

(* A short read, an address that cannot be read, or nobody to reply to. *)
BadRequest(c) == Goes(c, "request", "closed") /\ UNCHANGED handler

WrongCommand(c) == Goes(c, "request", "closed") /\ Tell(c) /\ UNCHANGED left

NoProxy(c) ==
    /\ Goes(c, "asking", "closed")
    /\ UNCHANGED verdicts \/ (~KillSwitch /\ Tell(c))
    /\ UNCHANGED left

Attempts(n) == IF n = 0 \/ n > MaxTries THEN MaxTries ELSE n

GotProxy(c, n) ==
    /\ Goes(c, "asking", "trying")
    /\ left' = [left EXCEPT ![c] = Attempts(n)]
    /\ UNCHANGED verdicts

ConnectOk(c) == Goes(c, "trying", "replying") /\ UNCHANGED handler

ConnectFails(c) == Goes(c, "trying", "marking") /\ UNCHANGED handler

Reply(c) == Goes(c, "replying", "piping") /\ Tell(c) /\ UNCHANGED left

(* The client has gone: sendall raises, and the proxy is blamed. *)
ReplyFails(c) == Goes(c, "replying", "marking") /\ UNCHANGED handler

(* A faulty loop that never uses its attempts up. *)
RetryForever(c) == Goes(c, "marking", "trying") /\ UNCHANGED handler

(* mark_failed() has named another proxy. *)
Retry(c) ==
    /\ left[c] > 1
    /\ Goes(c, "marking", "trying")
    /\ left' = [left EXCEPT ![c] = @ - 1]
    /\ UNCHANGED verdicts

(* It returned None or raised, or the attempts are used up: no reply. *)
GiveUp(c) == Goes(c, "marking", "closed") /\ Forget(c) /\ UNCHANGED verdicts

(* A faulty _pipe() that lets an error out into the retry loop. *)
PipeRaises(c) ==
    /\ \/ Goes(c, "piping", "closed") /\ Forget(c)
       \/ Goes(c, "piping", "marking") /\ UNCHANGED left
    /\ UNCHANGED verdicts

(* Either side closes or fails; _pipe() swallows it and closes both.       *)
PipeEnds(c) == Goes(c, "piping", "closed") /\ Forget(c) /\ UNCHANGED verdicts

-----------------------------------------------------------------------------
(* What the client holds up for as long as it likes: no socket of a client *)
(* has a timeout.                                                          *)
ClientPaced(c) ==
    Greet(c) \/ BadGreeting(c) \/ Request(c) \/ BadRequest(c) \/ WrongCommand(c) \/ PipeEnds(c)

Work(c) ==
    \/ NoProxy(c) \/ \E n \in 0 .. MaxTries + 1 : GotProxy(c, n)
    \/ ConnectOk(c) \/ ConnectFails(c) \/ Reply(c) \/ ReplyFails(c)
    \/ Retry(c) \/ GiveUp(c)

Serving == ServerNext /\ UNCHANGED handler

Next ==
    \/ Serving
    \/ \E c \in Conns : ClientPaced(c) \/ Work(c)

Spec == Init /\ [][Next]_vars

(* The serving thread and the workers go on unless they wait for a client; *)
(* a connect times out after 15 s, and stop() does not wait.               *)
Fairness ==
    /\ WF_vars(Loop /\ UNCHANGED handler)
    /\ WF_vars(StartWork /\ UNCHANGED handler)
    /\ \A c \in Conns :
        /\ WF_vars(Accept(c) /\ UNCHANGED handler)
        /\ WF_vars(Dispatch(c) /\ UNCHANGED handler)
        /\ WF_vars(Work(c))
    /\ WF_vars((StopClose \/ StopShutdown) /\ UNCHANGED handler)

LiveSpec == Spec /\ Fairness

-----------------------------------------------------------------------------
(* Properties *)

InHandler == {"started", "request", "asking", "trying", "replying", "marking", "piping"}

(* Every variable keeps its type; the thread holds a connection exactly    *)
(* between accept() and submit(), and the queue and the connections agree  *)
(* (lines 52-63 of local_proxy.py).                                        *)
TypeOK ==
    /\ conn \in [Conns -> Outside \cup Ended \cup {"queued"} \cup InHandler]
    /\ queue \in Seq(Conns)
    /\ \A c \in Conns : conn[c] = "queued" <=> \E i \in DOMAIN queue : queue[i] = c
    /\ serve \in {"loop", "accept", "checking", "ended", "dead"}
    /\ srv \in {"open", "closed"} /\ running \in BOOLEAN /\ shut \in BOOLEAN
    /\ serve = "checking" <=> \E c \in Conns : conn[c] \in {"accepted", "granted"}
    /\ clock \in 0 .. MaxTime
    /\ times \subseteq grants /\ grants \subseteq (0 .. MaxTime) \X Conns
    /\ left \in [Conns -> 0 .. MaxTries]
    /\ verdicts \in [Conns -> Nat]

(* In no second, wherever it begins, does the limiter let more than        *)
(* MaxPerSec connections in, although it trims its list only when it is    *)
(* asked (transproxy.py:20-28, local_proxy.py:21-29).                      *)
RateBound ==
    \A t \in 0 .. MaxTime :
        Cardinality({g \in grants : t <= g[1] /\ g[1] < t + Second}) <= MaxPerSec

(* A client gets one verdict on its request: once it has been told that    *)
(* its connection stands, nothing that happens to it can bring the         *)
(* handler back to its loop and a second reply into the client's data      *)
(* (local_proxy.py:98-120, 153).                                           *)
OneVerdict == \A c \in Conns : verdicts[c] <= 1

Promise == INSTANCE Server WITH
    fresh     <- {c \in Conns : conn[c] \in Outside},
    waiting   <- queue,
    inService <- Handling,
    open      <- ~shut

(* The listener, its executor and stop() implement the server: the workers *)
(* are never more than MaxWorkers, connections are taken in order, and     *)
(* none is admitted after stop() although the thread may still be in       *)
(* accept() (local_proxy.py:51-72).                                        *)
ServerSpec == Promise!LiveSpec

(* A request that has been read is answered by a connection or by the end  *)
(* of this one: no handler is kept by its retry loop (local_proxy.py:98).  *)
RequestResolves == \A c \in Conns : conn[c] = "asking" ~> conn[c] \in {"piping", "closed"}

(* As long as its thread lives the server does not leave a client in the   *)
(* backlog, whatever became of those before it (local_proxy.py:52-63).     *)
BacklogServed ==
    \A c \in Conns : conn[c] = "pending" ~> conn[c] # "pending" \/ serve \in {"ended", "dead"}
==================================================================================
