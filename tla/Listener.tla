-------------------------------- MODULE Listener --------------------------------
(***************************************************************************)
(* The server half that TransProxy (src/transproxy.py) and LocalSocksProxy *)
(* (src/local_proxy.py) have word for word in common: the serving thread   *)
(* with its accept loop and its RateLimiter, the ThreadPoolExecutor that   *)
(* runs the handlers, and stop().  What a handler does is left to the      *)
(* module that extends this one.                                           *)
(*                                                                         *)
(* Every caller leaves allowed_ips at None and binds 127.0.0.1, so that    *)
(* the limiter sees one address.  Time passes in ticks, Second of them to  *)
(* one second of the limiter's clock.                                      *)
(***************************************************************************)
EXTENDS Integers, Sequences, FiniteSets

CONSTANTS
    Conns,          \* clients' connections
    MaxWorkers,     \* MAX_WORKERS
    MaxPerSec,      \* RateLimiter's max_per_sec
    Second,         \* ticks of the clock in one second
    MaxTime         \* bound on the clock

ASSUME ConnsAssumption == IsFiniteSet(Conns)
ASSUME SizesAssumption ==
    /\ MaxWorkers \in Nat \ {0} /\ MaxPerSec \in Nat \ {0}
    /\ Second \in Nat \ {0} /\ MaxTime \in Nat

VARIABLES
    conn,       \* how far each connection has come
    queue,      \* the executor's queue of connections to be handled
    serve,      \* where the serving thread is
    srv,        \* self._srv: "open" or "closed"
    running,    \* self._running
    shut,       \* the executor has been shut down
    clock,      \* time.monotonic()
    times,      \* the limiter's list: pairs of a time and a connection
    grants      \* history: every time the limiter said yes

listening == <<serve, srv, running, shut>>
limiter   == <<times, grants>>
server    == <<conn, queue, listening, clock, limiter>>

-----------------------------------------------------------------------------
(* "pending" is in the kernel's backlog, "accepted" and "granted" with the *)
(* serving thread, "queued" with the executor, "started" with a worker.    *)
Outside  == {"new", "pending", "accepted", "granted"}
Ended    == {"turnedAway", "closed"}
Handling == {c \in Conns : conn[c] \notin Outside \cup Ended \cup {"queued"}}

ServerInit ==
    /\ conn = [c \in Conns |-> "new"]
    /\ queue = <<>>
    /\ serve = "loop" /\ srv = "open" /\ running = TRUE /\ shut = FALSE
    /\ clock = 0 /\ times = {} /\ grants = {}

Becomes(c, s) == conn' = [conn EXCEPT ![c] = s]

(* A closed socket lives on while a thread is blocked in its accept(); the *)
(* connections in its backlog go with it.                                  *)
Reachable == srv = "open" \/ serve = "accept"
Reset(f)  == [c \in Conns |-> IF f[c] = "pending" THEN "turnedAway" ELSE f[c]]

Tick ==
    /\ clock < MaxTime /\ clock' = clock + 1
    /\ UNCHANGED <<conn, queue, listening, limiter>>

Connect(c) ==
    /\ conn[c] = "new" /\ Reachable
    /\ Becomes(c, "pending")
    /\ UNCHANGED <<queue, listening, clock, limiter>>

-----------------------------------------------------------------------------
(* serve()                                                                 *)

(* The loop's condition, and the call of accept(). *)
Loop ==
    /\ serve = "loop"
    /\ serve' = IF running THEN "accept" ELSE "ended"
    /\ UNCHANGED <<conn, queue, srv, running, shut, clock, limiter>>

Accept(c) ==
    /\ serve = "accept" /\ conn[c] = "pending"
    /\ serve' = "checking"
    /\ LET taken == [conn EXCEPT ![c] = "accepted"]
       IN  conn' = IF srv = "open" THEN taken ELSE Reset(taken)
    /\ UNCHANGED <<queue, srv, running, shut, clock, limiter>>

(* accept() raises OSError: no descriptor is free, the client has gone, or *)
(* another platform's close() wakes it.  The loop ends for good.           *)
AcceptFails ==
    /\ serve = "accept"
    /\ serve' = "ended"
    /\ conn' = IF srv = "open" THEN conn ELSE Reset(conn)
    /\ UNCHANGED <<queue, srv, running, shut, clock, limiter>>

(* RateLimiter.allow() *)
Recent(now, since) == {g \in times : now - g[1] < since}

(* A faulty limiter that forgets a second too early. *)
GrantTooMany(c) ==
    /\ conn[c] = "accepted"
    /\ times' = Recent(clock, Second - 1) \cup {<<clock, c>>}
    /\ Cardinality(Recent(clock, Second - 1)) < MaxPerSec
    /\ grants' = grants \cup {<<clock, c>>}
    /\ Becomes(c, "granted")
    /\ UNCHANGED <<queue, listening, clock>>

Grant(c) ==
    /\ conn[c] = "accepted"
    /\ Cardinality(Recent(clock, Second)) < MaxPerSec
    /\ times' = Recent(clock, Second) \cup {<<clock, c>>}
    /\ grants' = grants \cup {<<clock, c>>}
    /\ Becomes(c, "granted")
    /\ UNCHANGED <<queue, listening, clock>>

(* A faulty loop that goes on without closing the connection. *)
DenyForgets(c) ==
    /\ conn[c] = "accepted"
    /\ Cardinality(Recent(clock, Second)) >= MaxPerSec
    /\ times' = Recent(clock, Second) /\ serve' = "loop"
    /\ UNCHANGED <<conn, queue, srv, running, shut, clock, grants>>

Deny(c) ==
    /\ conn[c] = "accepted"
    /\ Cardinality(Recent(clock, Second)) >= MaxPerSec
    /\ times' = Recent(clock, Second)
    /\ Becomes(c, "turnedAway") /\ serve' = "loop"
    /\ UNCHANGED <<queue, srv, running, shut, clock, grants>>

(* A faulty executor that takes work after its shutdown. *)
SubmitLate(c) ==
    /\ conn[c] = "granted"
    /\ Becomes(c, "queued") /\ queue' = Append(queue, c) /\ serve' = "loop"
    /\ UNCHANGED <<srv, running, shut, clock, limiter>>

(* A faulty executor that makes submit() wait for a free worker. *)
SubmitWaits(c) ==
    /\ conn[c] = "granted" /\ ~shut
    /\ queue = <<>> /\ Cardinality(Handling) < MaxWorkers
    /\ Becomes(c, "queued") /\ queue' = <<c>> /\ serve' = "loop"
    /\ UNCHANGED <<srv, running, shut, clock, limiter>>

Submit(c) ==
    /\ conn[c] = "granted" /\ ~shut
    /\ Becomes(c, "queued") /\ queue' = Append(queue, c) /\ serve' = "loop"
    /\ UNCHANGED <<srv, running, shut, clock, limiter>>

(* submit() raises RuntimeError, which ends the thread; the connection is  *)
(* closed when the last reference to it goes.                              *)
SubmitRaises(c) ==
    /\ conn[c] = "granted" /\ shut
    /\ Becomes(c, "turnedAway") /\ serve' = "dead"
    /\ UNCHANGED <<queue, srv, running, shut, clock, limiter>>

(* A worker takes the next connection, also after the shutdown. *)
StartWork ==
    /\ queue # <<>> /\ Cardinality(Handling) < MaxWorkers
    /\ Becomes(Head(queue), "started") /\ queue' = Tail(queue)
    /\ UNCHANGED <<listening, clock, limiter>>

-----------------------------------------------------------------------------
(* stop(), a step at a time                                                *)

StopFlag ==
    /\ running /\ running' = FALSE
    /\ UNCHANGED <<conn, queue, serve, srv, shut, clock, limiter>>

StopClose ==
    /\ ~running /\ srv = "open" /\ srv' = "closed"
    /\ conn' = IF serve = "accept" THEN conn ELSE Reset(conn)
    /\ UNCHANGED <<queue, serve, running, shut, clock, limiter>>

StopShutdown ==
    /\ srv = "closed" /\ ~shut /\ shut' = TRUE
    /\ UNCHANGED <<conn, queue, serve, srv, running, clock, limiter>>

Stop == StopFlag \/ StopClose \/ StopShutdown

-----------------------------------------------------------------------------
(* The serving thread once accept() has returned needs nobody else. *)
Dispatch(c) == Grant(c) \/ Deny(c) \/ Submit(c) \/ SubmitRaises(c)

ServerNext ==
    \/ Tick \/ Loop \/ AcceptFails \/ StartWork \/ Stop
    \/ \E c \in Conns : Connect(c) \/ Accept(c) \/ Dispatch(c)
==================================================================================
