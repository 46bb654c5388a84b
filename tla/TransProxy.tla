------------------------------ MODULE TransProxy ------------------------------
(***************************************************************************)
(* The connection handlers of the transparent proxy, src/transproxy.py     *)
(* TransProxy._handle(), each on a worker thread of its own, composed with *)
(* the proxy pool they share.  A handler is the caller of the pool that    *)
(* ProxyPool leaves unspecified.                                           *)
(***************************************************************************)
EXTENDS Integers, Sequences, FiniteSets

CONSTANTS
    Conns,            \* client connections handed to the workers
    KillSwitch,       \* self.kill_switch
    MaxTries,         \* the 5 of min(size or 5, 5)
    Proxies, EvictThreshold, SampleSize, MaxListed, None

ASSUME PoolAssumption ==
    /\ IsFiniteSet(Proxies) /\ Proxies # {} /\ None \notin Proxies
    /\ Conns \cap {"rotate", "health"} = {} /\ None \notin Conns \cup {"rotate", "health"}
    /\ {EvictThreshold, SampleSize, MaxListed} \subseteq Nat \ {0}

ASSUME KillSwitchAssumption == KillSwitch \in BOOLEAN
ASSUME TriesAssumption      == MaxTries \in Nat \ {0}

VARIABLES
    pool, active, idx, failures, lock, pc, count,
    todo, cur, hcCount, toEvict, running, stopper,   \* those of ProxyPool
    conn,       \* what has become of each connection
    proxy,      \* the handler's local variable proxy
    left        \* attempts its loop still allows

Pool == INSTANCE ProxyPool WITH Callers <- Conns

poolVars == <<pool, active, idx, failures, lock, pc, count,
              todo, cur, hcCount, toEvict, running, stopper>>
locals   == <<proxy, left>>
vars     == <<poolVars, conn, locals>>

-----------------------------------------------------------------------------
Becomes(c, s) == conn' = [conn EXCEPT ![c] = s]

(* A local that is not read again is cleared. *)
Finish(c, s) ==
    /\ Becomes(c, s)
    /\ proxy' = [proxy EXCEPT ![c] = None]
    /\ left'  = [left EXCEPT ![c] = 0]

InHandler == {"sizing", "trying", "marking", "piping", "fallback", "direct", "bypassing"}
Closed    == {"proxied", "bypassed", "dropped", "error", "aborted"}

Init ==
    /\ Pool!Init
    /\ conn  = [c \in Conns |-> "queued"]
    /\ proxy = [c \in Conns |-> None]
    /\ left  = [c \in Conns |-> 0]

-----------------------------------------------------------------------------
(* _handle() *)

(* A faulty start that does not look at what get() returned. *)
BeginUnchecked(c) ==
    /\ conn[c] = "queued"
    /\ Pool!LockFree
    /\ proxy' = [proxy EXCEPT ![c] = active]
    /\ Becomes(c, "sizing")
    /\ UNCHANGED <<poolVars, left>>

(* A worker picks the connection up; pool.get() returns a proxy. *)
Begin(c) ==
    /\ conn[c] = "queued"
    /\ Pool!LockFree /\ active # None
    /\ proxy' = [proxy EXCEPT ![c] = active]
    /\ Becomes(c, "sizing")
    /\ UNCHANGED <<poolVars, left>>

NoProxy(c) ==
    /\ conn[c] = "queued"
    /\ Pool!LockFree /\ active = None
    /\ Finish(c, "dropped")
    /\ UNCHANGED poolVars

(* get_orig_dst() or getpeername() raises: the client has gone. *)
ClientGone(c) ==
    /\ conn[c] = "queued"
    /\ Finish(c, "error")
    /\ UNCHANGED poolVars

Attempts(n) == IF n = 0 \/ n > MaxTries THEN MaxTries ELSE n

SizeUp(c) ==
    /\ conn[c] = "sizing" /\ Pool!LockFree
    /\ left' = [left EXCEPT ![c] = Attempts(Len(pool))]
    /\ Becomes(c, "trying")
    /\ UNCHANGED <<poolVars, proxy>>

(* Any attempt may succeed or fail: the proxy, the destination or the      *)
(* client may be to blame, and the handler does not ask which.             *)
ConnectOk(c) ==
    /\ conn[c] = "trying"
    /\ Finish(c, "piping")
    /\ UNCHANGED poolVars

(* The attempt failed; the handler is in mark_failed() until it returns. *)
ConnectFails(c) ==
    /\ conn[c] = "trying"
    /\ Pool!MarkFailedRead(c)
    /\ proxy' = [proxy EXCEPT ![c] = None]
    /\ Becomes(c, "marking")
    /\ UNCHANGED left

(* mark_failed() returns None at once: break. *)
ConnectFailsNoProxy(c) ==
    /\ conn[c] = "trying"
    /\ Pool!MarkFailedNone(c)
    /\ proxy' = [proxy EXCEPT ![c] = None]
    /\ Becomes(c, "fallback")
    /\ UNCHANGED left

(* The steps of mark_failed() and of the switch() it ends with. *)
Marking(c) ==
    /\ conn[c] = "marking"
    /\ \/ Pool!MarkFailedRequeue(c) \/ Pool!MarkFailedThreshold(c)
       \/ Pool!MarkFailedEvict(c)
       \/ Pool!SwitchAdvance(c) \/ Pool!SwitchLog(c)
    /\ UNCHANGED <<conn, locals>>

(* An exception out of mark_failed() leaves the retry loop and is caught   *)
(* around it: the connection is neither retried nor sent directly.         *)
MarkingRaises(c) ==
    /\ conn[c] = "marking"
    /\ Pool!MarkFailedKeyError(c) \/ Pool!SwitchLogRaises(c)
    /\ Finish(c, "aborted")

PoolEmptied(c) ==
    /\ conn[c] = "marking"
    /\ Pool!SwitchEmpty(c)
    /\ Becomes(c, "fallback")
    /\ UNCHANGED locals

(* A faulty loop that never uses its attempts up. *)
RetryForever(c) ==
    /\ conn[c] = "marking"
    /\ Pool!SwitchReturn(c)
    /\ IF active # None
       THEN Becomes(c, "trying")   /\ proxy' = [proxy EXCEPT ![c] = active]
       ELSE Becomes(c, "fallback") /\ UNCHANGED proxy
    /\ UNCHANGED left

(* proxy = self.pool.mark_failed(); if not proxy: break *)
Retry(c) ==
    /\ conn[c] = "marking"
    /\ Pool!SwitchReturn(c)
    /\ IF active # None /\ left[c] > 1
       THEN Becomes(c, "trying")   /\ proxy' = [proxy EXCEPT ![c] = active]
       ELSE Becomes(c, "fallback") /\ UNCHANGED proxy
    /\ left' = [left EXCEPT ![c] = IF active = None THEN @ ELSE @ - 1]

(* Either side closes; _pipe() swallows every error. *)
PipeEnds(c) ==
    /\ conn[c] = "piping"
    /\ Pool!RecordSuccess(c)
    /\ Finish(c, "proxied")

Drop(c) ==
    /\ conn[c] = "fallback" /\ KillSwitch
    /\ Finish(c, "dropped")
    /\ UNCHANGED poolVars

GoDirect(c) ==
    /\ conn[c] = "fallback" /\ ~KillSwitch
    /\ Finish(c, "direct")
    /\ UNCHANGED poolVars

DirectOk(c) ==
    /\ conn[c] = "direct"
    /\ Becomes(c, "bypassing")
    /\ UNCHANGED <<poolVars, locals>>

DirectFails(c) ==
    /\ conn[c] = "direct"
    /\ Finish(c, "error")
    /\ UNCHANGED poolVars

DirectEnds(c) ==
    /\ conn[c] = "bypassing"
    /\ Finish(c, "bypassed")
    /\ UNCHANGED poolVars

-----------------------------------------------------------------------------
(* The pool's own threads and pool.stop().                                 *)

Background ==
    /\ \/ \E t \in Pool!Timers : Pool!Switch(t) \/ Pool!Timer(t)
       \/ Pool!HealthCheck
       \/ Pool!Stop
    /\ UNCHANGED <<conn, locals>>

-----------------------------------------------------------------------------
(* What a handler does that does not wait for a peer to close. *)
Work(c) ==
    \/ Begin(c) \/ NoProxy(c) \/ ClientGone(c) \/ SizeUp(c)
    \/ ConnectOk(c) \/ ConnectFails(c) \/ ConnectFailsNoProxy(c)
    \/ Marking(c) \/ MarkingRaises(c) \/ PoolEmptied(c) \/ Retry(c)
    \/ Drop(c) \/ GoDirect(c) \/ DirectOk(c) \/ DirectFails(c)

Handle(c) == Work(c) \/ PipeEnds(c) \/ DirectEnds(c)

Next ==
    \/ \E c \in Conns : Handle(c)
    \/ Background

Spec == Init /\ [][Next]_vars

(* One step of a timer's thread. *)
TimerThread(t) ==
    /\ \/ Pool!Switch(t) \/ Pool!Timer(t)
       \/ t = "health" /\ Pool!HealthCheck
    /\ UNCHANGED <<conn, locals>>

(* A connect times out after 15 s, a probe after 8 s, and a timer fires    *)
(* after its interval, so every thread goes on; clients, the pipes' ends   *)
(* and the decision to stop are not owed.                                  *)
Fairness ==
    /\ \A c \in Conns : WF_vars(Work(c))
    /\ \A t \in Pool!Timers : WF_vars(TimerThread(t))
    /\ WF_vars((Pool!StopCancelRotate \/ Pool!StopCancelHealth)
                   /\ UNCHANGED <<conn, locals>>)

LiveSpec == Spec /\ Fairness

-----------------------------------------------------------------------------
(* Properties *)

(* Every variable holds a value of its kind; a handler that is trying a    *)
(* proxy, or blaming one, has one, because _handle() checks what get() and *)
(* mark_failed() return before it goes on.                                 *)
TypeOK ==
    /\ Pool!TypeOK
    /\ conn \in [Conns -> {"queued"} \cup InHandler \cup Closed]
    /\ proxy \in [Conns -> Proxies \cup {None}]
    /\ left \in [Conns -> 0 .. MaxTries]
    /\ \A c \in Conns :
        conn[c] \in {"sizing", "trying"} => proxy[c] \in Proxies

(* get() never goes on answering with a proxy that is no longer in the     *)
(* pool: whoever took it out still has its switch() ahead, or there was no *)
(* other proxy to switch to.  The exception is a handler that lost its     *)
(* race with the health check inside mark_failed() (line 284's KeyError)   *)
(* and so never reached switch().                                          *)
EvictedActiveIsReplaced ==
    active # None /\ active \notin Pool!Elements(pool) =>
        \/ pool = <<>>
        \/ \E t \in Pool!Threads : pc[t] = "swLock"
        \/ \E c \in Conns : conn[c] = "aborted"

(* A handler gives up before it has used its attempts (line 153) only when *)
(* the pool is empty or the health check is between evicting the active    *)
(* proxy and switching: neither another handler's failure nor a rotation   *)
(* can make mark_failed() return None.                                     *)
GivesUpEarlyOnlyWithoutProxy ==
    [][\A c \in Conns :
        conn[c] # "fallback" /\ conn'[c] = "fallback" /\ left'[c] > 0 =>
            pool = <<>> \/ pc["health"] \in {"hcCheck", "swLock"}]_vars

(* Every connection comes to be piped, sent directly or closed, and stays  *)
(* so: no handler is stuck in its retry loop or waiting for the pool's     *)
(* lock, also when another handler's mark_failed() raised under it         *)
(* (proxy_pool.py:284).  That handler's own connection ends "aborted": its *)
(* retries are given up, and its `finally' (transproxy.py:166-170) closes  *)
(* the client unserved.                                                    *)
ConnResolves ==
    <>[](\A c \in Conns : conn[c] \in {"piping", "bypassing"} \cup Closed)

(* After stop() the timer threads come to rest for good, although a tick   *)
(* that was under way may have created a timer that stop() did not see.    *)
StopQuiesces ==
    <>[](stopper = "stopped" => \A t \in Pool!Timers : pc[t] \in {"ended", "dead"})

-----------------------------------------------------------------------------
(* What the project's documents say, which the runs named after them refute *)

(* README.md:3, "changes your public IP every N minutes": a rotation       *)
(* with another proxy in the pool leaves a different one active.           *)
RotationChangesProxy ==
    [][pc["rotate"] = "swLock" /\ pc'["rotate"] = "swLog" /\
           Len(pool) > 1 /\ Pool!DistinctItems(pool) => active' # active]_vars

(* README.md:31, "(rotates every N s)": the rotation's thread does not die. *)
RotationSurvives == pc["rotate"] # "dead"

(* STATE.md:21, "removed from the pool entirely": an evicted proxy does    *)
(* not come back.  It does: a proxy that one handler's mark_failed() has   *)
(* evicted (line 283) stays active until that handler's switch(), and      *)
(* another handler's mark_failed() in between lists it again (286).        *)
EvictedStaysOut == [][Pool!Elements(pool') \subseteq Pool!Elements(pool)]_vars
==============================================================================
