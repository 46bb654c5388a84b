-------------------------- MODULE TransProxyProofs --------------------------
(* For any number of connections, proxies and attempts: an evicted proxy   *)
(* does not stay active, and a connection that gives up early has a reason *)
(* to.  The pool's own invariant, proved in ProxyPoolProofs, is carried    *)
(* over to the pool the handlers share.                                    *)
EXTENDS TransProxy, TLAPS

LEMMA NoPoolStep ==
    ASSUME UNCHANGED poolVars
    PROVE  UNCHANGED Pool!vars
BY DEF poolVars, Pool!vars, Pool!data, Pool!health, Pool!stops

(* What a handler does to the pool is a step of the pool's caller.         *)
LEMMA HandlerStep ==
    ASSUME NEW c \in Conns, Handle(c)
    PROVE  Pool!Next \/ UNCHANGED Pool!vars
<1>1. Pool!Caller(c) => Pool!Next
  BY DEF Pool!Next
<1>2. Pool!Switch(c) => Pool!Next
  BY DEF Pool!Next, Pool!Threads
<1>3. CASE ConnectFails(c) \/ ConnectFailsNoProxy(c) \/ PipeEnds(c) \/ Retry(c)
  BY <1>1, <1>3 DEF ConnectFails, ConnectFailsNoProxy, PipeEnds, Retry, Pool!Caller
<1>4. CASE Marking(c) \/ MarkingRaises(c) \/ PoolEmptied(c)
  BY <1>1, <1>2, <1>4 DEF Marking, MarkingRaises, PoolEmptied,
                          Pool!Caller, Pool!MarkFailedStep, Pool!Switch
<1>5. CASE Begin(c) \/ NoProxy(c) \/ ClientGone(c) \/ SizeUp(c) \/ ConnectOk(c)
  BY <1>5, NoPoolStep DEF Begin, NoProxy, ClientGone, SizeUp, ConnectOk
<1>6. CASE Drop(c) \/ GoDirect(c) \/ DirectOk(c) \/ DirectFails(c) \/ DirectEnds(c)
  BY <1>6, NoPoolStep DEF Drop, GoDirect, DirectOk, DirectFails, DirectEnds
<1> QED
  BY <1>3, <1>4, <1>5, <1>6 DEF Handle, Work

LEMMA PoolStep == [Next]_vars => [Pool!Next]_(Pool!vars)
<1> SUFFICES ASSUME [Next]_vars
             PROVE  Pool!Next \/ UNCHANGED Pool!vars
  OBVIOUS
<1>1. ASSUME NEW c \in Conns, Handle(c)
      PROVE  Pool!Next \/ UNCHANGED Pool!vars
  BY <1>1, HandlerStep
<1>2. CASE Background
  BY <1>2 DEF Background, Pool!Next, Pool!Threads
<1>3. CASE UNCHANGED vars
  BY <1>3, NoPoolStep DEF vars
<1> QED
  BY <1>1, <1>2, <1>3 DEF Next

-----------------------------------------------------------------------------
(* What ProxyPoolProofs proves, said of the pool of this module: the two   *)
(* instances have the same definitions.                                    *)

PoolProofs == INSTANCE ProxyPoolProofs WITH Callers <- Conns

LEMMA PoolAssumptions ==
    /\ PoolProofs!ProxiesAssumption /\ PoolProofs!CallersAssumption
    /\ PoolProofs!ThresholdAssumption /\ PoolProofs!SampleAssumption
    /\ PoolProofs!ListedAssumption
BY PoolAssumption
   DEF IsFiniteSet, PoolProofs!IsFiniteSet, PoolProofs!Timers, PoolProofs!Threads,
       PoolProofs!ProxiesAssumption, PoolProofs!CallersAssumption,
       PoolProofs!ThresholdAssumption, PoolProofs!SampleAssumption,
       PoolProofs!ListedAssumption

LEMMA SameSteps == Pool!Next <=> PoolProofs!Next
<1>1. ASSUME NEW c
      PROVE  Pool!Caller(c) <=> PoolProofs!Caller(c)
  BY DEF Pool!Caller, PoolProofs!Caller, Pool!MarkFailedNone, PoolProofs!MarkFailedNone,
         Pool!LockFree, PoolProofs!LockFree, Pool!HasProxy, PoolProofs!HasProxy,
         Pool!vars, PoolProofs!vars, Pool!data, PoolProofs!data, Pool!health,
         PoolProofs!health, Pool!stops, PoolProofs!stops, Pool!MarkFailedRead,
         PoolProofs!MarkFailedRead, Pool!Goto, PoolProofs!Goto, Pool!MarkFailedStep,
         PoolProofs!MarkFailedStep, Pool!MarkFailedRequeue,
         PoolProofs!MarkFailedRequeue, Pool!AtThreshold, PoolProofs!AtThreshold,
         Pool!StoreCount, PoolProofs!StoreCount, Pool!Requeue, PoolProofs!Requeue,
         Pool!Without, PoolProofs!Without, Pool!Kept, PoolProofs!Kept, Pool!Rank,
         PoolProofs!Rank, Pool!MarkFailedThreshold, PoolProofs!MarkFailedThreshold,
         Pool!MarkFailedEvict, PoolProofs!MarkFailedEvict, Pool!MarkFailedKeyError,
         PoolProofs!MarkFailedKeyError, Pool!SwitchReturn, PoolProofs!SwitchReturn,
         Pool!RecordSuccess, PoolProofs!RecordSuccess, Pool!MoveToFront,
         PoolProofs!MoveToFront, Pool!FirstEntry, PoolProofs!FirstEntry, Pool!Elements,
         PoolProofs!Elements, Pool!Cardinality,
         PoolProofs!Cardinality
<1>2. ASSUME NEW t
      PROVE  Pool!Switch(t) <=> PoolProofs!Switch(t)
  BY DEF Pool!Switch, PoolProofs!Switch, Pool!SwitchAdvance, PoolProofs!SwitchAdvance,
         Pool!LockFree, PoolProofs!LockFree, Pool!NextIndex, PoolProofs!NextIndex,
         Pool!Goto, PoolProofs!Goto, Pool!health, PoolProofs!health, Pool!stops,
         PoolProofs!stops, Pool!SwitchEmpty, PoolProofs!SwitchEmpty, Pool!Resumed,
         PoolProofs!Resumed, Pool!Timers, PoolProofs!Timers, Pool!data, PoolProofs!data,
         Pool!SwitchLog, PoolProofs!SwitchLog, Pool!SwitchLogRaises,
         PoolProofs!SwitchLogRaises, Pool!Abandoned, PoolProofs!Abandoned
<1>3. ASSUME NEW t
      PROVE  Pool!Timer(t) <=> PoolProofs!Timer(t)
  BY DEF Pool!Timer, PoolProofs!Timer, Pool!Fire, PoolProofs!Fire, Pool!Goto,
         PoolProofs!Goto, Pool!FirstStep, PoolProofs!FirstStep, Pool!data,
         PoolProofs!data, Pool!health, PoolProofs!health, Pool!stops, PoolProofs!stops,
         Pool!Rearm, PoolProofs!Rearm, Pool!Create, PoolProofs!Create
<1>4. Pool!HealthCheck <=> PoolProofs!HealthCheck
  BY DEF Pool!HealthCheck, PoolProofs!HealthCheck, Pool!HealthNoCandidate,
         PoolProofs!HealthNoCandidate, Pool!health, PoolProofs!health, Pool!LockFree,
         PoolProofs!LockFree, Pool!Candidates, PoolProofs!Candidates, Pool!Goto,
         PoolProofs!Goto, Pool!data, PoolProofs!data, Pool!stops, PoolProofs!stops,
         Pool!HealthSnapshot, PoolProofs!HealthSnapshot, Pool!Sample, PoolProofs!Sample,
         Pool!HealthProbeOk, PoolProofs!HealthProbeOk, Pool!ToProbe, PoolProofs!ToProbe,
         Pool!Probed, PoolProofs!Probed, Pool!HealthProbeFails,
         PoolProofs!HealthProbeFails, Pool!HealthStore, PoolProofs!HealthStore,
         Pool!AtThreshold, PoolProofs!AtThreshold, Pool!HealthNothingToEvict,
         PoolProofs!HealthNothingToEvict, Pool!HealthEvict, PoolProofs!HealthEvict,
         Pool!Without, PoolProofs!Without, Pool!Kept, PoolProofs!Kept, Pool!Rank,
         PoolProofs!Rank, Pool!HealthCheckActive, PoolProofs!HealthCheckActive,
         Pool!Cardinality, PoolProofs!Cardinality
<1>5. Pool!Stop <=> PoolProofs!Stop
  BY DEF Pool!Stop, PoolProofs!Stop, Pool!StopFlag, PoolProofs!StopFlag, Pool!data,
         PoolProofs!data, Pool!health, PoolProofs!health, Pool!StopCancelRotate,
         PoolProofs!StopCancelRotate, Pool!Cancel, PoolProofs!Cancel, Pool!Goto,
         PoolProofs!Goto, Pool!StopCancelHealth, PoolProofs!StopCancelHealth
<1> QED
  BY <1>1, <1>2, <1>3, <1>4, <1>5
     DEF Pool!Next, PoolProofs!Next, Pool!Threads, PoolProofs!Threads, Pool!Timers, PoolProofs!Timers,
         Pool!health,
         PoolProofs!health

LEMMA SameInvariant == Pool!IInv <=> PoolProofs!IInv
BY DEF Pool!IInv, PoolProofs!IInv, Pool!TypeOK, PoolProofs!TypeOK, Pool!PcOK,
       PoolProofs!PcOK, Pool!Threads, PoolProofs!Threads, Pool!Timers,
       PoolProofs!Timers, Pool!health, PoolProofs!health, Pool!CallerStates,
       PoolProofs!CallerStates, Pool!HealthStates, PoolProofs!HealthStates,
       Pool!TimerStates, PoolProofs!TimerStates, Pool!StatesOf, PoolProofs!StatesOf,
       Pool!LockDiscipline, PoolProofs!LockDiscipline, Pool!StepsHaveProxy,
       PoolProofs!StepsHaveProxy, Pool!EvictionComplete, PoolProofs!EvictionComplete,
       Pool!Elements, PoolProofs!Elements, Pool!NoProxyOnlyIfEmpty,
       PoolProofs!NoProxyOnlyIfEmpty, Pool!HealthSurvives, PoolProofs!HealthSurvives

LEMMA SameInit == Pool!Init <=> PoolProofs!Init
BY DEF Pool!Init, PoolProofs!Init, Pool!Pools, PoolProofs!Pools, Pool!NextIndex,
       PoolProofs!NextIndex, Pool!Threads, PoolProofs!Threads, Pool!Timers,
       PoolProofs!Timers, Pool!health, PoolProofs!health

LEMMA NothingMoves == UNCHANGED Pool!vars <=> UNCHANGED PoolProofs!vars
BY DEF Pool!vars, PoolProofs!vars, Pool!data, PoolProofs!data, Pool!health,
       PoolProofs!health, Pool!stops, PoolProofs!stops

LEMMA PoolInit == Pool!Init => Pool!IInv
BY PoolAssumptions, SameInvariant, SameInit, PoolProofs!InitIInv

LEMMA PoolNext == Pool!IInv /\ [Pool!Next]_(Pool!vars) => Pool!IInv'
<1>1. PoolProofs!IInv /\ [PoolProofs!Next]_(PoolProofs!vars) => PoolProofs!IInv'
  BY PoolAssumptions, PoolProofs!NextIInv
<1>2. Pool!IInv' <=> PoolProofs!IInv'
  BY SameInvariant, PTL
<1>3. [Pool!Next]_(Pool!vars) => [PoolProofs!Next]_(PoolProofs!vars)
  BY SameSteps, NothingMoves
<1> QED
  BY <1>1, <1>2, <1>3, SameInvariant

-----------------------------------------------------------------------------
(* The handlers' own variables.                                            *)

(* A handler in its loop has a proxy to try and an attempt to try it with. *)
HandlersOK ==
    /\ conn \in [Conns -> {"queued"} \cup InHandler \cup Closed]
    /\ proxy \in [Conns -> Proxies \cup {None}]
    /\ left \in [Conns -> 0 .. MaxTries]
    /\ \A c \in Conns : conn[c] \in {"sizing", "trying"} => proxy[c] \in Proxies
    /\ \A c \in Conns : conn[c] \in {"trying", "marking"} => left[c] # 0

(* Where a handler ends its turn, it lets go of its locals.                *)
LEMMA FinishOK ==
    ASSUME HandlersOK, NEW c \in Conns, NEW s \in {"piping"} \cup Closed, Finish(c, s)
    PROVE  HandlersOK'
BY TriesAssumption DEF Finish, Becomes, HandlersOK, InHandler, Closed

LEMMA HandlerOK ==
    ASSUME Pool!IInv, HandlersOK, NEW c \in Conns, Handle(c)
    PROVE  HandlersOK'
<1>0. active \in Proxies \cup {None} /\ pool \in Seq(Proxies)
  BY DEF Pool!IInv, Pool!TypeOK
<1>1. CASE \/ NoProxy(c) \/ ClientGone(c) \/ ConnectOk(c) \/ MarkingRaises(c) \/ PipeEnds(c)
           \/ Drop(c) \/ DirectFails(c) \/ DirectEnds(c)
  BY <1>1, FinishOK DEF NoProxy, ClientGone, ConnectOk, MarkingRaises, PipeEnds, Drop,
                        DirectFails, DirectEnds, Closed
<1>2. CASE Begin(c)
  BY <1>0, <1>2 DEF Begin, Becomes, HandlersOK, InHandler
<1>3. CASE SizeUp(c)
  <2>1. Attempts(Len(pool)) \in 1 .. MaxTries
    BY <1>0, TriesAssumption DEF Attempts
  <2> QED
    BY <1>3, <2>1 DEF SizeUp, Becomes, HandlersOK, InHandler
<1>4. CASE ConnectFails(c) \/ ConnectFailsNoProxy(c)
  BY <1>4 DEF ConnectFails, ConnectFailsNoProxy, Becomes, HandlersOK, InHandler
<1>5. CASE Marking(c) \/ PoolEmptied(c) \/ DirectOk(c)
  BY <1>5 DEF Marking, PoolEmptied, DirectOk, Becomes, HandlersOK, InHandler, locals
<1>6. CASE Retry(c)
  <2>1. left[c] \in 1 .. MaxTries
    BY <1>6, TriesAssumption DEF Retry, HandlersOK
  <2>2. CASE active # None /\ left[c] > 1
    <3>1. /\ conn' = [conn EXCEPT ![c] = "trying"] /\ proxy' = [proxy EXCEPT ![c] = active]
          /\ left' = [left EXCEPT ![c] = left[c] - 1]
      BY <1>6, <2>2 DEF Retry, Becomes, HandlersOK
    <3>2. left[c] - 1 \in 1 .. MaxTries /\ active \in Proxies
      BY <1>0, <2>1, <2>2, TriesAssumption
    <3> QED
      BY <3>1, <3>2 DEF HandlersOK, InHandler
  <2>3. CASE ~(active # None /\ left[c] > 1)
    <3> DEFINE n == IF active = None THEN left[c] ELSE 0
    <3>1. n \in 0 .. MaxTries /\ (active # None => left[c] - 1 = n)
      BY <2>1, <2>3, TriesAssumption
    <3>2. conn' = [conn EXCEPT ![c] = "fallback"] /\ proxy' = proxy
      BY <1>6, <2>3 DEF Retry, Becomes
    <3>3. left' = [left EXCEPT ![c] = IF active = None THEN left[c] ELSE left[c] - 1]
      BY <1>6 DEF Retry, HandlersOK
    <3>4. left' = [left EXCEPT ![c] = n]
      BY <3>1, <3>3
    <3> HIDE DEF n
    <3> QED
      BY <3>1, <3>2, <3>4 DEF HandlersOK, InHandler
  <2> QED
    BY <2>2, <2>3
<1>7. CASE GoDirect(c)
  <2>1. 0 \in 0 .. MaxTries
    BY TriesAssumption
  <2> QED
    BY <1>7, <2>1 DEF GoDirect, Finish, Becomes, HandlersOK, InHandler
<1> QED
  BY <1>1, <1>2, <1>3, <1>4, <1>5, <1>6, <1>7 DEF Handle, Work

-----------------------------------------------------------------------------
(* Nobody is left with an evicted proxy.                                   *)

LEMMA Lists ==
    ASSUME NEW s \in Seq(Proxies)
    PROVE  /\ \A S : Pool!Elements(Pool!Without(s, S)) = Pool!Elements(s) \ S
           /\ \A k \in Proxies : k \in Pool!Elements(Pool!Requeue(s, k))
           /\ \A k : Pool!Elements(Pool!MoveToFront(s, k)) = Pool!Elements(s)
           /\ \A i \in Nat : s # <<>> => s[Pool!NextIndex(i, s) + 1] \in Pool!Elements(s)
<1>1. ASSUME NEW S
      PROVE  PoolProofs!Elements(PoolProofs!Without(s, S)) = PoolProofs!Elements(s) \ S
  BY PoolAssumptions, PoolProofs!WithoutLemma
<1>2. ASSUME NEW k \in Proxies
      PROVE  PoolProofs!Elements(PoolProofs!Requeue(s, k)) = PoolProofs!Elements(s) \cup {k}
  BY PoolAssumptions, PoolProofs!RequeueLemma
<1>3. ASSUME NEW k
      PROVE  PoolProofs!Elements(PoolProofs!MoveToFront(s, k)) = PoolProofs!Elements(s)
  BY PoolAssumptions, PoolProofs!MoveToFrontLemma
<1>4. ASSUME NEW i \in Nat, s # <<>>
      PROVE  PoolProofs!NextIndex(i, s) + 1 \in DOMAIN s
  BY <1>4, PoolAssumptions, PoolProofs!NextIndexLemma
<1>5. /\ \A u : Pool!Elements(u) = PoolProofs!Elements(u)
      /\ \A u, i : Pool!NextIndex(i, u) = PoolProofs!NextIndex(i, u)
  BY DEF Pool!Elements, PoolProofs!Elements, Pool!NextIndex, PoolProofs!NextIndex
<1>6. ASSUME NEW u, NEW S
      PROVE  Pool!Without(u, S) = PoolProofs!Without(u, S)
  BY DEF Pool!Without, PoolProofs!Without, Pool!Kept, PoolProofs!Kept, Pool!Rank,
         PoolProofs!Rank, Pool!Cardinality, PoolProofs!Cardinality
<1>7. /\ \A u, k : Pool!Requeue(u, k) = PoolProofs!Requeue(u, k)
      /\ \A u, k : Pool!MoveToFront(u, k) = PoolProofs!MoveToFront(u, k)
  BY <1>5, <1>6 DEF Pool!Requeue, PoolProofs!Requeue, Pool!MoveToFront, PoolProofs!MoveToFront,
                     Pool!FirstEntry, PoolProofs!FirstEntry
<1>8. \A i \in Nat : s # <<>> => s[Pool!NextIndex(i, s) + 1] \in Pool!Elements(s)
  BY <1>4, <1>5 DEF Pool!Elements
<1> QED
  BY <1>1, <1>2, <1>3, <1>5, <1>6, <1>7, <1>8

LEMMA NoElements ==
    ASSUME NEW s \in Seq(Proxies)
    PROVE  s = <<>> <=> Pool!Elements(s) = {}
<1>1. Len(s) \in Nat /\ DOMAIN s = 1 .. Len(s)
  OBVIOUS
<1>2. Len(s) # 0 => s[1] \in Pool!Elements(s)
  BY <1>1 DEF Pool!Elements
<1>3. Len(s) = 0 <=> s = <<>>
  OBVIOUS
<1>4. Len(s) = 0 => Pool!Elements(s) = {}
  BY <1>1 DEF Pool!Elements
<1> QED
  BY <1>2, <1>3, <1>4

(* The pool's steps that are not an eviction or a switch.                  *)
LEMMA KeepsReplaced ==
    ASSUME Pool!IInv, Pool!IInv', EvictedActiveIsReplaced,
           \A c \in Conns : conn[c] = "aborted" => conn'[c] = "aborted",
           NEW t \in Pool!Threads, pc[t] # "swLock",
           \A u \in Pool!Threads : u # t => pc'[u] = pc[u],
           active' = active, Pool!Elements(pool') = Pool!Elements(pool)
    PROVE  EvictedActiveIsReplaced'
<1>1. pool \in Seq(Proxies) /\ pool' \in Seq(Proxies)
  BY DEF Pool!IInv, Pool!TypeOK
<1>2. pool = <<>> => pool' = <<>>
  BY <1>1, NoElements
<1>3. (\E u \in Pool!Threads : pc[u] = "swLock") => \E u \in Pool!Threads : pc'[u] = "swLock"
  OBVIOUS
<1>4. active # None /\ active \notin Pool!Elements(pool) =>
          \/ pool = <<>>
          \/ \E u \in Pool!Threads : pc[u] = "swLock"
          \/ \E c \in Conns : conn[c] = "aborted"
  BY DEF EvictedActiveIsReplaced
<1>5. active' # None /\ active' \notin Pool!Elements(pool') =>
          \/ pool' = <<>>
          \/ \E u \in Pool!Threads : pc'[u] = "swLock"
          \/ \E c \in Conns : conn'[c] = "aborted"
  BY <1>2, <1>3, <1>4
<1> QED
  BY <1>5 DEF EvictedActiveIsReplaced, Pool!Elements, Pool!Threads

LEMMA CallerReplaces ==
    ASSUME Pool!IInv, Pool!IInv', EvictedActiveIsReplaced,
           \A c \in Conns : conn[c] = "aborted" => conn'[c] = "aborted",
           NEW c \in Conns,
           \/ Pool!MarkFailedNone(c) \/ Pool!MarkFailedRead(c) \/ Pool!MarkFailedRequeue(c)
           \/ Pool!MarkFailedThreshold(c) \/ Pool!MarkFailedEvict(c)
           \/ Pool!SwitchReturn(c) \/ Pool!RecordSuccess(c)
    PROVE  EvictedActiveIsReplaced'
<1>0. /\ c \in Pool!Threads /\ pool \in Seq(Proxies) /\ active \in Proxies \cup {None}
      /\ pc \in [Pool!Threads -> Pool!CallerStates \cup Pool!HealthStates]
  BY DEF Pool!IInv, Pool!TypeOK, Pool!PcOK, Pool!Threads
<1>1. CASE \/ Pool!MarkFailedNone(c) \/ Pool!MarkFailedRead(c) \/ Pool!MarkFailedThreshold(c)
           \/ Pool!SwitchReturn(c) \/ Pool!RecordSuccess(c)
  <2>1. active' = active /\ pc[c] # "swLock" /\ \A u \in Pool!Threads : u # c => pc'[u] = pc[u]
    BY <1>0, <1>1
       DEF Pool!MarkFailedNone, Pool!MarkFailedRead, Pool!MarkFailedThreshold,
           Pool!SwitchReturn, Pool!RecordSuccess, Pool!Goto, Pool!vars, Pool!data
  <2>2. pool' = pool \/ pool' = Pool!MoveToFront(pool, active)
    BY <1>1
       DEF Pool!MarkFailedNone, Pool!MarkFailedRead, Pool!MarkFailedThreshold,
           Pool!SwitchReturn, Pool!RecordSuccess, Pool!vars, Pool!data
  <2>3. Pool!Elements(pool') = Pool!Elements(pool)
    BY <1>0, <2>2, Lists
  <2> QED
    BY <1>0, <2>1, <2>3, KeepsReplaced
<1>2. CASE Pool!MarkFailedRequeue(c)
  <2>1. active' = active /\ pool' = Pool!Requeue(pool, active)
    BY <1>2 DEF Pool!MarkFailedRequeue
  <2>2. active = None \/ active \in Pool!Elements(Pool!Requeue(pool, active))
    BY <1>0, Lists
  <2> QED
    BY <2>1, <2>2 DEF EvictedActiveIsReplaced, Pool!Elements
<1>3. CASE Pool!MarkFailedEvict(c)
  <2>1. pc'[c] = "swLock"
    BY <1>0, <1>3 DEF Pool!MarkFailedEvict, Pool!Goto
  <2> QED
    BY <1>0, <2>1 DEF EvictedActiveIsReplaced, Pool!Threads
<1> QED
  BY <1>1, <1>2, <1>3

LEMMA SwitchReplaces ==
    ASSUME Pool!IInv, Pool!IInv', EvictedActiveIsReplaced,
           \A c \in Conns : conn[c] = "aborted" => conn'[c] = "aborted",
           NEW t \in Pool!Threads, Pool!Switch(t) \/ (t \in Pool!Timers /\ Pool!Timer(t))
    PROVE  EvictedActiveIsReplaced'
<1>0. /\ pool \in Seq(Proxies) /\ idx \in Nat
      /\ pc \in [Pool!Threads -> Pool!CallerStates \cup Pool!HealthStates]
  BY DEF Pool!IInv, Pool!TypeOK, Pool!PcOK
<1>1. CASE Pool!SwitchAdvance(t)
  <2>1. pool' = pool /\ active' = pool[Pool!NextIndex(idx, pool) + 1] /\ pool # <<>>
    BY <1>1 DEF Pool!SwitchAdvance
  <2>2. active' \in Pool!Elements(pool)
    BY <1>0, <2>1, Lists
  <2> QED
    BY <2>1, <2>2 DEF EvictedActiveIsReplaced, Pool!Elements
<1>2. CASE Pool!SwitchEmpty(t)
  BY <1>2 DEF Pool!SwitchEmpty, Pool!data, EvictedActiveIsReplaced
<1>3. CASE Pool!SwitchLog(t) \/ Pool!SwitchLogRaises(t) \/ Pool!Timer(t)
  <2>1. /\ active' = active /\ pool' = pool /\ pc[t] # "swLock"
        /\ \A u \in Pool!Threads : u # t => pc'[u] = pc[u]
    BY <1>0, <1>3
       DEF Pool!SwitchLog, Pool!SwitchLogRaises, Pool!Timer, Pool!Fire, Pool!Rearm,
           Pool!Create, Pool!Goto, Pool!data
  <2> QED
    BY <2>1, KeepsReplaced
<1> QED
  BY <1>1, <1>2, <1>3 DEF Pool!Switch

LEMMA BackgroundReplaces ==
    ASSUME Pool!IInv, Pool!IInv', EvictedActiveIsReplaced,
           \A c \in Conns : conn[c] = "aborted" => conn'[c] = "aborted",
           Pool!HealthCheck \/ Pool!Stop
    PROVE  EvictedActiveIsReplaced'
<1>0. /\ pool \in Seq(Proxies) /\ pool' \in Seq(Proxies)
      /\ "health" \in Pool!Threads /\ "rotate" \in Pool!Threads
      /\ pc \in [Pool!Threads -> Pool!CallerStates \cup Pool!HealthStates]
  BY DEF Pool!IInv, Pool!TypeOK, Pool!PcOK, Pool!Threads, Pool!Timers
<1>1. CASE Pool!HealthEvict
  <2>1. /\ pool' = Pool!Without(pool, toEvict) /\ pc["health"] # "swLock"
        /\ active' = IF active \in toEvict THEN None ELSE active
        /\ \A u \in Pool!Threads : u # "health" => pc'[u] = pc[u]
    BY <1>0, <1>1 DEF Pool!HealthEvict, Pool!Goto
  <2>2. Pool!Elements(pool') = Pool!Elements(pool) \ toEvict
    BY <1>0, <2>1, Lists
  <2>3. pool = <<>> => pool' = <<>>
    BY <1>0, <2>2, NoElements
  <2> SUFFICES ASSUME active' # None, active' \notin Pool!Elements(pool')
               PROVE  \/ pool' = <<>>
                      \/ \E u \in Pool!Threads : pc'[u] = "swLock"
                      \/ \E c \in Conns : conn'[c] = "aborted"
    BY DEF EvictedActiveIsReplaced, Pool!Elements, Pool!Threads
  <2>4. active # None /\ active \notin Pool!Elements(pool)
    BY <2>1, <2>2
  <2>5. \/ pool = <<>>
        \/ \E u \in Pool!Threads : pc[u] = "swLock"
        \/ \E c \in Conns : conn[c] = "aborted"
    BY <2>4 DEF EvictedActiveIsReplaced
  <2> QED
    BY <2>1, <2>3, <2>5
<1>2. CASE Pool!HealthCheck /\ ~Pool!HealthEvict
  <2>1. /\ active' = active /\ pool' = pool /\ pc["health"] # "swLock"
        /\ \A u \in Pool!Threads : u # "health" => pc'[u] = pc[u]
    BY <1>0, <1>2
       DEF Pool!HealthCheck, Pool!HealthNoCandidate, Pool!HealthSnapshot, Pool!HealthProbeOk,
           Pool!HealthProbeFails, Pool!HealthStore, Pool!HealthNothingToEvict,
           Pool!HealthCheckActive, Pool!Goto, Pool!data
  <2> QED
    BY <1>0, <2>1, KeepsReplaced
<1>3. CASE Pool!Stop
  <2>1. PICK t \in Pool!Threads :
          /\ active' = active /\ pool' = pool
          /\ pc' = pc \/ (pc[t] = "armed" /\ pc' = [pc EXCEPT ![t] = "ended"])
    BY <1>0, <1>3 DEF Pool!Stop, Pool!StopFlag, Pool!StopCancelRotate, Pool!StopCancelHealth,
                      Pool!Cancel, Pool!Goto, Pool!data
  <2>2. CASE pc' = pc
    BY <2>1, <2>2 DEF EvictedActiveIsReplaced, Pool!Elements, Pool!Threads
  <2>3. CASE pc[t] = "armed" /\ pc' = [pc EXCEPT ![t] = "ended"]
    <3>1. pc[t] # "swLock" /\ \A u \in Pool!Threads : u # t => pc'[u] = pc[u]
      BY <1>0, <2>3
    <3> QED
      BY <2>1, <3>1, KeepsReplaced
  <2> QED
    BY <2>1, <2>2, <2>3
<1> QED
  BY <1>1, <1>2, <1>3

(* What a handler does to the pool, and to its own connection.             *)
LEMMA HandlerReplaces ==
    ASSUME Pool!IInv, Pool!IInv', HandlersOK, EvictedActiveIsReplaced,
           NEW c \in Conns, Handle(c)
    PROVE  EvictedActiveIsReplaced'
<1>0. conn \in [Conns -> {"queued"} \cup InHandler \cup Closed] /\ c \in Pool!Threads
  BY DEF HandlersOK, Pool!Threads
<1>1. \A d \in Conns : conn[d] = "aborted" => conn'[d] = "aborted"
  <2>1. conn[c] # "aborted" /\ \A d \in Conns : d # c => conn'[d] = conn[d]
    BY <1>0 DEF Handle, Work, Begin, NoProxy, ClientGone, SizeUp, ConnectOk, ConnectFails,
                ConnectFailsNoProxy, Marking, MarkingRaises, PoolEmptied, Retry, Drop, GoDirect,
                DirectOk, DirectFails, DirectEnds, PipeEnds, Finish, Becomes
  <2> QED
    BY <2>1
<1>2. CASE ConnectFails(c) \/ ConnectFailsNoProxy(c) \/ PipeEnds(c) \/ Retry(c)
  BY <1>1, <1>2, CallerReplaces DEF ConnectFails, ConnectFailsNoProxy, PipeEnds, Retry
<1>3. CASE Marking(c)
  BY <1>0, <1>1, <1>3, CallerReplaces, SwitchReplaces DEF Marking, Pool!Switch
<1>4. CASE PoolEmptied(c)
  BY <1>0, <1>1, <1>4, SwitchReplaces DEF PoolEmptied, Pool!Switch
<1>5. CASE MarkingRaises(c)
  BY <1>0, <1>5 DEF MarkingRaises, Finish, Becomes, EvictedActiveIsReplaced
<1>6. CASE \/ Begin(c) \/ NoProxy(c) \/ ClientGone(c) \/ SizeUp(c) \/ ConnectOk(c)
           \/ Drop(c) \/ GoDirect(c) \/ DirectOk(c) \/ DirectFails(c) \/ DirectEnds(c)
  <2>1. UNCHANGED <<pool, active, pc>>
    BY <1>6 DEF Begin, NoProxy, ClientGone, SizeUp, ConnectOk, Drop, GoDirect, DirectOk,
                DirectFails, DirectEnds, poolVars
  <2> QED
    BY <1>1, <2>1 DEF EvictedActiveIsReplaced, Pool!Elements, Pool!Threads
<1> QED
  BY <1>2, <1>3, <1>4, <1>5, <1>6 DEF Handle, Work

-----------------------------------------------------------------------------
Inv == Pool!IInv /\ HandlersOK /\ EvictedActiveIsReplaced

LEMMA InitInv == Init => Inv
<1> SUFFICES ASSUME Init
             PROVE  Inv
  OBVIOUS
<1>1. Pool!IInv
  BY PoolInit DEF Init
<1>2. HandlersOK
  BY TriesAssumption DEF Init, HandlersOK
<1>3. active \in Pool!Elements(pool)
  <2>1. pool \in Seq(Proxies) /\ pool # <<>>
    <3>1. PICK n \in 1 .. MaxListed : pool \in [1 .. n -> Proxies]
      BY DEF Init, Pool!Init, Pool!Pools
    <3>2. pool \in Seq(Proxies) /\ Len(pool) = n /\ n # 0
      BY <3>1, PoolAssumption
    <3> QED
      BY <3>2
  <2>2. active = pool[Pool!NextIndex(0, pool) + 1]
    BY DEF Init, Pool!Init
  <2> QED
    BY <2>1, <2>2, Lists
<1> QED
  BY <1>1, <1>2, <1>3 DEF Inv, EvictedActiveIsReplaced

(* The invariant of the pool holds with the handlers at work on it; what   *)
(* the handlers add is their own locals and the exception of line 284.     *)
THEOREM Invariance == Spec => []Inv
<1>1. Inv /\ [Next]_vars => Inv'
  <2> SUFFICES ASSUME Inv, [Next]_vars
               PROVE  Inv'
    OBVIOUS
  <2>1. Pool!IInv'
    BY PoolStep, PoolNext DEF Inv
  <2>2. ASSUME NEW c \in Conns, Handle(c)
        PROVE  Inv'
    BY <2>1, <2>2, HandlerOK, HandlerReplaces DEF Inv
  <2>3. CASE Background
    <3>1. HandlersOK' /\ \A c \in Conns : conn[c] = "aborted" => conn'[c] = "aborted"
      BY <2>3 DEF Background, Inv, HandlersOK, locals
    <3>2. EvictedActiveIsReplaced'
      BY <2>1, <2>3, <3>1, SwitchReplaces, BackgroundReplaces
         DEF Background, Inv, Pool!Threads
    <3> QED
      BY <2>1, <3>1, <3>2 DEF Inv
  <2>4. CASE UNCHANGED vars
    BY <2>1, <2>4 DEF Inv, HandlersOK, EvictedActiveIsReplaced, Pool!Elements, Pool!Threads,
                      vars, poolVars, locals
  <2> QED
    BY <2>2, <2>3, <2>4 DEF Next
<1> QED
  BY InitInv, <1>1, PTL DEF Spec

(* Every variable keeps its type, with the pool's, and a handler that      *)
(* tries a proxy has one.                                                  *)
THEOREM Typing == Spec => []TypeOK
<1>1. Inv => TypeOK
  BY DEF Inv, HandlersOK, TypeOK, Pool!IInv
<1> QED
  BY <1>1, Invariance, PTL

(* get() does not go on answering with a proxy that has been evicted,      *)
(* unless the handler that evicted it died of the KeyError of line 284.    *)
THEOREM EvictedIsReplaced == Spec => []EvictedActiveIsReplaced
BY Invariance, PTL DEF Inv

(* A handler breaks off its attempts only when get() or mark_failed() have *)
(* no proxy to name, and by the pool's invariant that is when there is     *)
(* none or the health check is about to name one (line 153).               *)
THEOREM EarlyEndHasReason == Spec => GivesUpEarlyOnlyWithoutProxy
<1> DEFINE Reason == pool = <<>> \/ pc["health"] \in {"hcCheck", "swLock"}
           Early(c) == conn[c] # "fallback" /\ conn'[c] = "fallback" /\ left'[c] > 0
<1>1. ASSUME Inv, NEW c \in Conns, NEW d \in Conns, Handle(d), Early(c)
      PROVE  Reason
  <2>1. active = None => Reason
    BY <1>1 DEF Inv, Pool!IInv, Pool!NoProxyOnlyIfEmpty
  <2>2. HandlersOK
    BY <1>1 DEF Inv
  <2>3. CASE ConnectFailsNoProxy(d)
    BY <2>1, <2>3 DEF ConnectFailsNoProxy, Pool!MarkFailedNone, Pool!HasProxy
  <2>4. CASE PoolEmptied(d)
    BY <2>4 DEF PoolEmptied, Pool!SwitchEmpty
  <2>5. CASE Retry(d)
    BY <1>1, <2>1, <2>2, <2>5, TriesAssumption DEF Retry, Becomes, HandlersOK
  <2>6. CASE NoProxy(d) \/ Begin(d) \/ ClientGone(d) \/ SizeUp(d)
    BY <1>1, <2>2, <2>6, TriesAssumption
       DEF NoProxy, Begin, ClientGone, SizeUp, Finish, Becomes, HandlersOK, InHandler, Closed
  <2>7. CASE \/ ConnectOk(d) \/ ConnectFails(d) \/ Marking(d) \/ MarkingRaises(d)
             \/ PipeEnds(d) \/ Drop(d) \/ GoDirect(d) \/ DirectOk(d) \/ DirectFails(d)
             \/ DirectEnds(d)
    BY <1>1, <2>2, <2>7
       DEF ConnectOk, ConnectFails, Marking, MarkingRaises, PipeEnds, Drop, GoDirect, DirectOk,
           DirectFails, DirectEnds, Finish, Becomes, HandlersOK, locals
  <2> QED
    BY <1>1, <2>3, <2>4, <2>5, <2>6, <2>7 DEF Handle, Work
<1>2. ASSUME Inv, Next, NEW c \in Conns, Early(c)
      PROVE  Reason
  <2>1. CASE \E d \in Conns : Handle(d)
    BY <1>1, <1>2, <2>1
  <2>2. CASE Background
    BY <1>2, <2>2 DEF Background, locals
  <2> QED
    BY <1>2, <2>1, <2>2 DEF Next
<1>3. Inv /\ [Next]_vars =>
        [\A c \in Conns :
            conn[c] # "fallback" /\ conn'[c] = "fallback" /\ left'[c] > 0 =>
                pool = <<>> \/ pc["health"] \in {"hcCheck", "swLock"}]_vars
  BY <1>2
<1> QED
  BY <1>3, Invariance, PTL DEF Spec, GivesUpEarlyOnlyWithoutProxy
==============================================================================
