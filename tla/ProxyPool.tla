------------------------------ MODULE ProxyPool ------------------------------
(***************************************************************************)
(* The shared pool of upstream proxies, src/proxy_pool.py class ProxyPool, *)
(* after it has been built: the operations of the connection handlers      *)
(* (mark_failed, record_success, switch), the two self-rearming timers     *)
(* (rotation and health check), and stop().                                *)
(*                                                                         *)
(* Grain.  A CPython thread can lose the GIL at a call or at a loop's back *)
(* edge.  A block under self._lock that no unlocked code can observe half  *)
(* done is one step that needs the lock free.  mark_failed is split,       *)
(* because the health check updates self._failures and self._active is     *)
(* read without the lock.                                                  *)
(***************************************************************************)
EXTENDS Integers, Sequences, FiniteSets

CONSTANTS
    Proxies,          \* the (host, port, type) keys
    Callers,          \* connection handler threads
    EvictThreshold,   \* self._evict_threshold
    SampleSize,       \* the most candidates one health check probes
    MaxListed,        \* bound on the length of the list the build leaves
    None

Timers  == {"rotate", "health"}
Threads == Callers \cup Timers

ASSUME ProxiesAssumption   == IsFiniteSet(Proxies) /\ Proxies # {} /\ None \notin Proxies
ASSUME CallersAssumption   == Callers \cap Timers = {} /\ None \notin Threads
ASSUME ThresholdAssumption == EvictThreshold \in Nat \ {0}
ASSUME SampleAssumption    == SampleSize \in Nat \ {0}
ASSUME ListedAssumption    == MaxListed \in Nat \ {0}

VARIABLES
    pool,       \* self._pool
    active,     \* self._active
    idx,        \* self._idx
    failures,   \* self._failures; 0 stands for an absent key
    lock,       \* the thread inside a split self._lock block, or None
    pc,         \* where each thread is
    count,      \* the failure count mark_failed has read (line 280)
    todo,       \* health check: how often each proxy is still in the sample
    cur,        \* health check: the proxy whose count was read (line 348)
    hcCount,    \* health check: that count
    toEvict,    \* health check: to_evict
    running,    \* self._running
    stopper     \* how far stop() has got

data   == <<pool, active, idx, failures>>
health == <<todo, cur, hcCount, toEvict>>
stops  == <<running, stopper>>
vars   == <<data, lock, pc, count, health, stops>>

-----------------------------------------------------------------------------
(* Lists.  Without is the list comprehension [p for p in s if p not in S]. *)

Elements(s)   == {s[i] : i \in DOMAIN s}
Kept(s, S)    == {i \in DOMAIN s : s[i] \notin S}
Rank(K, i)    == Cardinality({j \in K : j <= i})
Without(s, S) ==
    LET K == Kept(s, S)
    IN  [j \in 1 .. Cardinality(K) |-> s[CHOOSE i \in K : Rank(K, i) = j]]

(* A faulty requeue that keeps the old entry. *)
RequeueNoFilter(s, p) == Append(s, p)
Requeue(s, p) == Append(Without(s, {p}), p)

(* list.remove takes out the first entry only, list.insert puts it first:  *)
(* the entries before it move up by one, a second entry stays.             *)
FirstEntry(s, p) == CHOOSE i \in DOMAIN s :
                        s[i] = p /\ \A j \in DOMAIN s : s[j] = p => i <= j
MoveToFront(s, p) ==
    IF p \notin Elements(s) THEN s
    ELSE [i \in DOMAIN s |-> IF i = 1 THEN p
                            ELSE IF i <= FirstEntry(s, p) THEN s[i - 1] ELSE s[i]]

NextIndex(i, s) == (i + 1) % Len(s)

DistinctItems(s) == \A i, j \in DOMAIN s : s[i] = s[j] => i = j
Copies(s, p)     == Cardinality({i \in DOMAIN s : s[i] = p})

(* What the build may leave; a proxy file may list a proxy twice. *)
Pools == UNION {[1 .. n -> Proxies] : n \in 1 .. MaxListed}

-----------------------------------------------------------------------------
Goto(t, l) == pc' = [pc EXCEPT ![t] = l]

(* Where a call of switch() returns to, and where an exception in it ends. *)
Resumed(t)   == IF t \in Timers THEN "rearm" ELSE "out"
Abandoned(t) == IF t \in Timers THEN "dead" ELSE "out"

LockFree == lock = None

(* The pool has been built by refresh() or load_file(), which made the     *)
(* first switch(), and both timers have been started.                      *)
Init ==
    /\ pool \in Pools
    /\ idx = NextIndex(0, pool)
    /\ active = pool[idx + 1]
    /\ failures = [p \in Proxies |-> 0]
    /\ lock = None
    /\ pc = [t \in Threads |-> IF t \in Timers THEN "armed" ELSE "out"]
    /\ count = 0
    /\ todo = [p \in Proxies |-> 0] /\ cur = None /\ hcCount = 0 /\ toEvict = {}
    /\ running = TRUE /\ stopper = "live"

-----------------------------------------------------------------------------
(* switch() *)

SwitchAdvance(t) ==
    /\ pc[t] = "swLock" /\ LockFree /\ pool # <<>>
    /\ idx' = NextIndex(idx, pool)
    /\ active' = pool[idx' + 1]
    /\ Goto(t, "swLog")
    /\ UNCHANGED <<pool, failures, lock, count, health, stops>>

SwitchEmpty(t) ==
    /\ pc[t] = "swLock" /\ LockFree /\ pool = <<>>
    /\ Goto(t, Resumed(t))
    /\ UNCHANGED <<data, lock, count, health, stops>>

(* The log call reads self._active again, now without the lock.  The       *)
(* on_switch callbacks follow; their exceptions are caught.  A timer does  *)
(* not use the value returned.                                             *)
SwitchLog(t) ==
    /\ pc[t] = "swLog" /\ active # None
    /\ Goto(t, IF t \in Timers THEN Resumed(t) ELSE "swReturn")
    /\ UNCHANGED <<data, lock, count, health, stops>>

(* self._active[0] with self._active None is a TypeError: a handler's      *)
(* mark_failed() is abandoned, a timer's thread ends without rearming.     *)
SwitchLogRaises(t) ==
    /\ pc[t] = "swLog" /\ active = None
    /\ Goto(t, Abandoned(t))
    /\ UNCHANGED <<data, lock, count, health, stops>>

(* The value returned to a handler is self._active as it is now. *)
SwitchReturn(c) ==
    /\ pc[c] = "swReturn"
    /\ Goto(c, "out")
    /\ UNCHANGED <<data, lock, count, health, stops>>

-----------------------------------------------------------------------------
(* mark_failed() *)

(* A faulty test that does not ask whether the pool is empty. *)
HasActive == active # None
HasProxy == active # None /\ pool # <<>>

MarkFailedNone(c) ==
    /\ pc[c] = "out" /\ LockFree /\ ~HasProxy
    /\ UNCHANGED vars

MarkFailedRead(c) ==
    /\ pc[c] = "out" /\ LockFree /\ HasProxy
    /\ lock' = c
    /\ count' = failures[active]
    /\ Goto(c, "mfStore")
    /\ UNCHANGED <<data, health, stops>>

(* A faulty threshold test, > for >=. *)
OneTooMany(n) == n > EvictThreshold
AtThreshold(n) == n >= EvictThreshold

StoreCount == failures' = [failures EXCEPT ![active] = count + 1]

MarkFailedRequeue(c) ==
    /\ pc[c] = "mfStore" /\ ~AtThreshold(count + 1)
    /\ StoreCount
    /\ pool' = Requeue(pool, active)
    /\ lock' = None /\ count' = 0
    /\ Goto(c, "swLock")
    /\ UNCHANGED <<active, idx, health, stops>>

MarkFailedThreshold(c) ==
    /\ pc[c] = "mfStore" /\ AtThreshold(count + 1)
    /\ StoreCount
    /\ count' = 0
    /\ Goto(c, "mfEvict")
    /\ UNCHANGED <<pool, active, idx, lock, health, stops>>

(* A faulty eviction that also forgets the active proxy. *)
EvictAndForget(c) ==
    /\ pc[c] = "mfEvict" /\ failures[active] > 0
    /\ pool' = Without(pool, {active})
    /\ failures' = [failures EXCEPT ![active] = 0]
    /\ active' = None
    /\ lock' = None
    /\ Goto(c, "swLock")
    /\ UNCHANGED <<idx, count, health, stops>>

MarkFailedEvict(c) ==
    /\ pc[c] = "mfEvict" /\ failures[active] > 0
    /\ pool' = Without(pool, {active})
    /\ failures' = [failures EXCEPT ![active] = 0]
    /\ lock' = None
    /\ Goto(c, "swLock")
    /\ UNCHANGED <<active, idx, count, health, stops>>

(* A faulty block that leaves its lock held when it raises. *)
KeyErrorLeaksLock(c) ==
    /\ pc[c] = "mfEvict" /\ failures[active] = 0
    /\ pool' = Without(pool, {active})
    /\ Goto(c, "out")
    /\ UNCHANGED <<active, idx, failures, lock, count, health, stops>>

(* del self._failures[key] after the health check has popped the key. *)
MarkFailedKeyError(c) ==
    /\ pc[c] = "mfEvict" /\ failures[active] = 0
    /\ pool' = Without(pool, {active})
    /\ lock' = None
    /\ Goto(c, "out")
    /\ UNCHANGED <<active, idx, failures, count, health, stops>>

(* A faulty record_success() that puts the proxy in front whether or not   *)
(* there is one and it is listed.                                          *)
SuccessUnchecked(c) ==
    /\ pc[c] = "out" /\ LockFree
    /\ pool' = IF active \in Elements(pool) THEN MoveToFront(pool, active)
               ELSE <<active>> \o pool
    /\ UNCHANGED <<active, idx, failures, lock, pc, count, health, stops>>

(* record_success() credits whichever proxy is active now; with none, the  *)
(* two updates change nothing.                                             *)
RecordSuccess(c) ==
    /\ pc[c] = "out" /\ LockFree
    /\ failures' = [p \in Proxies |-> IF p = active THEN 0 ELSE failures[p]]
    /\ pool' = MoveToFront(pool, active)
    /\ UNCHANGED <<active, idx, lock, pc, count, health, stops>>

-----------------------------------------------------------------------------
(* The timers.  A tick returns at once when the pool is stopped, else does *)
(* its work and arms a new timer.                                          *)

FirstStep(t) == IF t = "rotate" THEN "swLock" ELSE "hcSnap"

Fire(t) ==
    /\ pc[t] = "armed"
    /\ Goto(t, IF running THEN FirstStep(t) ELSE "ended")
    /\ UNCHANGED <<data, lock, count, health, stops>>

Rearm(t) ==
    /\ pc[t] = "rearm"
    /\ Goto(t, IF running THEN "create" ELSE "ended")
    /\ UNCHANGED <<data, lock, count, health, stops>>

(* The new timer is reachable by stop() once self._timer names it, whether *)
(* or not it has been started.                                             *)
Create(t) ==
    /\ pc[t] = "create"
    /\ Goto(t, "armed")
    /\ UNCHANGED <<data, lock, count, health, stops>>

-----------------------------------------------------------------------------
(* _health_check() *)

Candidates == {i \in DOMAIN pool : pool[i] # active}

Sample(S) == {T \in SUBSET S : Cardinality(T) = IF Cardinality(S) < SampleSize
                                                THEN Cardinality(S) ELSE SampleSize}

HealthNoCandidate ==
    /\ pc["health"] = "hcSnap" /\ LockFree /\ Candidates = {}
    /\ Goto("health", "rearm")
    /\ UNCHANGED <<data, lock, count, health, stops>>

HealthSnapshot ==
    /\ pc["health"] = "hcSnap" /\ LockFree /\ Candidates # {}
    /\ \E T \in Sample(Candidates) :
        todo' = [k \in Proxies |-> Cardinality({i \in T : pool[i] = k})]
    /\ Goto("health", "hcProbe")
    /\ UNCHANGED <<data, lock, count, cur, hcCount, toEvict, stops>>

ToProbe   == {k \in Proxies : todo[k] > 0}
Probed(k) == todo' = [todo EXCEPT ![k] = @ - 1]

(* Any probe may fail.  The probe and the update of self._failures hold no *)
(* lock.                                                                   *)
HealthProbeOk ==
    /\ pc["health"] = "hcProbe"
    /\ \E k \in ToProbe : failures' = [failures EXCEPT ![k] = 0] /\ Probed(k)
    /\ UNCHANGED <<pool, active, idx, lock, pc, count, cur, hcCount, toEvict, stops>>

HealthProbeFails ==
    /\ pc["health"] = "hcProbe"
    /\ \E k \in ToProbe : cur' = k /\ hcCount' = failures[k] /\ Probed(k)
    /\ Goto("health", "hcStore")
    /\ UNCHANGED <<data, lock, count, toEvict, stops>>

HealthStore ==
    /\ pc["health"] = "hcStore"
    /\ failures' = [failures EXCEPT ![cur] = hcCount + 1]
    /\ toEvict' = IF AtThreshold(hcCount + 1) THEN toEvict \cup {cur} ELSE toEvict
    /\ cur' = None /\ hcCount' = 0
    /\ Goto("health", "hcProbe")
    /\ UNCHANGED <<pool, active, idx, lock, count, todo, stops>>

HealthNothingToEvict ==
    /\ pc["health"] = "hcProbe" /\ ToProbe = {} /\ toEvict = {}
    /\ Goto("health", "rearm")
    /\ UNCHANGED <<data, lock, count, health, stops>>

(* A faulty eviction that leaves the evicted proxy active. *)
HealthEvictKeepsActive ==
    /\ pc["health"] = "hcProbe" /\ ToProbe = {} /\ toEvict # {} /\ LockFree
    /\ pool' = Without(pool, toEvict)
    /\ failures' = [p \in Proxies |-> IF p \in toEvict THEN 0 ELSE failures[p]]
    /\ toEvict' = {}
    /\ Goto("health", "hcCheck")
    /\ UNCHANGED <<active, idx, lock, count, todo, cur, hcCount, stops>>

HealthEvict ==
    /\ pc["health"] = "hcProbe" /\ ToProbe = {} /\ toEvict # {} /\ LockFree
    /\ pool' = Without(pool, toEvict)
    /\ failures' = [p \in Proxies |-> IF p \in toEvict THEN 0 ELSE failures[p]]
    /\ active' = IF active \in toEvict THEN None ELSE active
    /\ toEvict' = {}
    /\ Goto("health", "hcCheck")
    /\ UNCHANGED <<idx, lock, count, todo, cur, hcCount, stops>>

(* A faulty health check that leaves the pool without an active proxy. *)
CheckForgotten ==
    /\ pc["health"] = "hcCheck"
    /\ Goto("health", "rearm")
    /\ UNCHANGED <<data, lock, count, health, stops>>

(* if self._active is None: self.switch(), read without the lock *)
HealthCheckActive ==
    /\ pc["health"] = "hcCheck"
    /\ Goto("health", IF active = None THEN "swLock" ELSE "rearm")
    /\ UNCHANGED <<data, lock, count, health, stops>>

-----------------------------------------------------------------------------
(* stop() *)

(* A faulty stop() that only cancels the timers. *)
StopWithoutFlag ==
    /\ stopper = "live"
    /\ stopper' = "cancelRotate"
    /\ UNCHANGED <<data, lock, pc, count, health, running>>

StopFlag ==
    /\ stopper = "live"
    /\ running' = FALSE /\ stopper' = "cancelRotate"
    /\ UNCHANGED <<data, lock, pc, count, health>>

(* cancel() reaches the timer object the attribute names, so a tick under  *)
(* way is not stopped; its new timer is, once it has been created.         *)
Cancel(t) == IF pc[t] = "armed" THEN Goto(t, "ended") ELSE UNCHANGED pc

StopCancelRotate ==
    /\ stopper = "cancelRotate" /\ stopper' = "cancelHealth"
    /\ Cancel("rotate")
    /\ UNCHANGED <<data, lock, count, health, running>>

StopCancelHealth ==
    /\ stopper = "cancelHealth" /\ stopper' = "stopped"
    /\ Cancel("health")
    /\ UNCHANGED <<data, lock, count, health, running>>

-----------------------------------------------------------------------------
MarkFailedStep(c) ==
    \/ MarkFailedRequeue(c) \/ MarkFailedThreshold(c)
    \/ MarkFailedEvict(c)   \/ MarkFailedKeyError(c)

Switch(t) ==
    \/ SwitchAdvance(t) \/ SwitchEmpty(t)
    \/ SwitchLog(t) \/ SwitchLogRaises(t)

Caller(c) ==
    \/ MarkFailedNone(c) \/ MarkFailedRead(c) \/ MarkFailedStep(c)
    \/ SwitchReturn(c) \/ RecordSuccess(c)

Timer(t) == Fire(t) \/ Rearm(t) \/ Create(t)

HealthCheck ==
    \/ HealthNoCandidate \/ HealthSnapshot \/ HealthProbeOk \/ HealthProbeFails \/ HealthStore
    \/ HealthNothingToEvict \/ HealthEvict \/ HealthCheckActive

Stop == StopFlag \/ StopCancelRotate \/ StopCancelHealth

Next ==
    \/ \E c \in Callers : Caller(c)
    \/ \E t \in Threads : Switch(t)
    \/ \E t \in Timers  : Timer(t)
    \/ HealthCheck
    \/ Stop

Spec == Init /\ [][Next]_vars

-----------------------------------------------------------------------------
(* Properties *)

CallerStates == {"out", "mfStore", "mfEvict", "swLock", "swLog", "swReturn"}
TimerStates  == {"armed", "swLock", "swLog", "rearm", "create", "ended", "dead"}
HealthStates == TimerStates \cup {"hcSnap", "hcProbe", "hcStore", "hcCheck"}

StatesOf(t) == IF t = "rotate" THEN TimerStates
               ELSE IF t = "health" THEN HealthStates ELSE CallerStates

PcOK == /\ pc \in [Threads -> CallerStates \cup HealthStates]
        /\ \A t \in Threads : pc[t] \in StatesOf(t)

(* Every variable holds a value of its kind: in particular the pool and    *)
(* the failure counts only ever mention proxies, whichever operation       *)
(* rebuilt them.                                                           *)
TypeOK ==
    /\ pool \in Seq(Proxies)
    /\ active \in Proxies \cup {None}
    /\ idx \in Nat
    /\ failures \in [Proxies -> Nat]
    /\ lock \in Callers \cup {None}
    /\ PcOK
    /\ count \in Nat
    /\ todo \in [Proxies -> Nat]
    /\ cur \in Proxies \cup {None}
    /\ hcCount \in Nat
    /\ toEvict \subseteq Proxies
    /\ running \in BOOLEAN
    /\ stopper \in {"live", "cancelRotate", "cancelHealth", "stopped"}

(* A proxy whose failure count has reached the threshold does not stay in  *)
(* the pool: the health check has it on its eviction list, or the handler  *)
(* that counted the failure is about to evict it (mark_failed lines        *)
(* 281-284, _health_check lines 349-361), whatever updates of the counts   *)
(* were lost between the two.                                              *)
EvictionComplete ==
    \A k \in Elements(pool) : failures[k] >= EvictThreshold =>
        \/ k \in toEvict
        \/ active = k /\ \E c \in Callers : pc[c] = "mfEvict"

(* get() answers None, which makes a handler drop its connection, only     *)
(* when the pool is empty or while the health check that evicted the       *)
(* active proxy is on its way to switch() (lines 360-363).                 *)
NoProxyOnlyIfEmpty ==
    active = None => pool = <<>> \/ pc["health"] \in {"hcCheck", "swLock"}

(* A proxy is listed more often than before only when it was not listed    *)
(* and becomes listed once (line 286's append): requeueing, eviction and   *)
(* the move to the front never duplicate an entry, also when several       *)
(* handlers fail or credit the same proxy and when the pool came from a    *)
(* file that lists a proxy twice (line 176).                               *)
NoNewDuplicates ==
    [][\A p \in Proxies : Copies(pool', p) > Copies(pool, p) => Copies(pool', p) = 1]_vars

Members == INSTANCE Membership WITH members <- Elements(pool), chosen <- active

(* The pool keeps to Membership in every interleaving: switch() selects a  *)
(* listed proxy (lines 246-249), mark_failed() lists none but the active   *)
(* one again (286), and once the last proxy has been evicted nothing, not  *)
(* even a mark_failed() that had already counted, refills the pool (277).  *)
KeepsMembership == Members!Spec

(* The health check's thread is never lost to the read of self._active     *)
(* after switch() has released the lock (line 250): only the health check  *)
(* itself takes the active proxy away.                                     *)
HealthSurvives == pc["health"] # "dead"

-----------------------------------------------------------------------------
(* What makes them inductive: a split locked block is mark_failed's, it    *)
(* keeps the active proxy it started with, and the steps that use a proxy  *)
(* have one.                                                               *)

LockDiscipline == \A t \in Threads : pc[t] \in {"mfStore", "mfEvict"} <=> lock = t

StepsHaveProxy ==
    /\ lock # None => active # None
    /\ \A c \in Callers : pc[c] = "mfStore" => pool # <<>>
    /\ pc["health"] = "hcStore" => cur # None
    /\ pc["health"] = "swLog" => active # None

IInv ==
    /\ TypeOK /\ LockDiscipline /\ StepsHaveProxy
    /\ EvictionComplete /\ NoProxyOnlyIfEmpty /\ HealthSurvives
==============================================================================
