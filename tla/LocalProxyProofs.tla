---------------------------- MODULE LocalProxyProofs ----------------------------
(* The local proxy's server half, for any clients, workers, limits and clock: *)
(* its state is consistent, its limiter keeps its bound, a client gets one    *)
(* verdict, and it implements Server.                                         *)
EXTENDS LocalProxy, FiniteSetTheorems, TLAPS

-----------------------------------------------------------------------------
(* The invariant behind TypeOK.                                            *)

(* A connection waits in the queue once. *)
QueuedOnce == \A i, j \in DOMAIN queue : queue[i] = queue[j] => i = j

(* The serving thread has one connection in its hands. *)
OneInHand ==
    \A c, d \in Conns :
        conn[c] \in {"accepted", "granted"} /\ conn[d] \in {"accepted", "granted"} => c = d

Consistent == TypeOK /\ QueuedOnce /\ OneInHand

States == Outside \cup Ended \cup {"queued"} \cup InHandler

LEMMA InitConsistent == Init => Consistent
<1> SUFFICES ASSUME Init
             PROVE  Consistent
  OBVIOUS
<1>1. conn = [c \in Conns |-> "new"] /\ queue = <<>> /\ times = {} /\ grants = {}
      /\ serve = "loop" /\ srv = "open" /\ running = TRUE /\ shut = FALSE /\ clock = 0
  BY DEF Init, ServerInit
<1>2. DOMAIN queue = {}
  BY <1>1
<1>3. 0 \in 0 .. MaxTime /\ 0 \in 0 .. MaxTries
  BY SizesAssumption, HandlerAssumption
<1>4. left \in [Conns -> 0 .. MaxTries] /\ verdicts \in [Conns -> Nat]
  BY <1>3 DEF Init
<1>5. queue \in Seq(Conns)
  BY <1>1
<1>6. conn \in [Conns -> States] /\ \A c \in Conns : conn[c] = "new"
  BY <1>1 DEF States, Outside
<1>7. TypeOK
  BY <1>1, <1>2, <1>3, <1>4, <1>5, <1>6 DEF TypeOK, States
<1>8. QueuedOnce /\ OneInHand
  BY <1>2, <1>6 DEF QueuedOnce, OneInHand
<1> QED
  BY <1>7, <1>8 DEF Consistent

(* What a connection does inside its handler concerns nobody else.         *)
LEMMA GoesConsistent ==
    ASSUME Consistent, NEW c \in Conns,
           NEW from \in InHandler, NEW to \in InHandler \cup {"closed"}, Goes(c, from, to),
           left' \in [Conns -> 0 .. MaxTries], verdicts' \in [Conns -> Nat]
    PROVE  Consistent'
<1>1. /\ conn[c] = from /\ conn' = [conn EXCEPT ![c] = to]
      /\ UNCHANGED <<queue, serve, srv, running, shut, clock, times, grants>>
  BY DEF Goes, Becomes, listening, limiter
<1>2. conn \in [Conns -> States] /\ from \notin Outside \cup {"queued"}
      /\ to \notin Outside \cup {"queued"} /\ to \in States
  BY DEF Consistent, TypeOK, States, InHandler, Outside, Ended
<1>3. \A d \in Conns : conn'[d] = IF d = c THEN to ELSE conn[d]
  BY <1>1, <1>2
<1>4. conn' \in [Conns -> States]
  BY <1>1, <1>2
<1>5. \A d \in Conns : /\ conn'[d] = "queued" <=> conn[d] = "queued"
                       /\ conn'[d] \in {"accepted", "granted"}
                            <=> conn[d] \in {"accepted", "granted"}
  BY <1>1, <1>2, <1>3 DEF Outside
<1>6. TypeOK'
  BY <1>1, <1>4, <1>5 DEF Consistent, TypeOK, States
<1>7. QueuedOnce'
  BY <1>1 DEF Consistent, QueuedOnce
<1>8. OneInHand'
  BY <1>5 DEF Consistent, OneInHand
<1> QED
  BY <1>6, <1>7, <1>8 DEF Consistent

LEMMA ClientConsistent ==
    ASSUME Consistent, NEW c \in Conns, ClientPaced(c)
    PROVE  Consistent'
<1> USE DEF InHandler
<1>0. left \in [Conns -> 0 .. MaxTries] /\ verdicts \in [Conns -> Nat] /\ MaxTries \in Nat
  BY HandlerAssumption DEF Consistent, TypeOK
<1>1. CASE Greet(c)
  <2>1. Goes(c, "started", "request") /\ UNCHANGED <<left, verdicts>>
    BY <1>1 DEF Greet, handler
  <2> QED
    BY <1>0, <2>1, GoesConsistent
<1>2. CASE BadGreeting(c)
  <2>1. Goes(c, "started", "closed") /\ UNCHANGED <<left, verdicts>>
    BY <1>2 DEF BadGreeting, handler
  <2> QED
    BY <1>0, <2>1, GoesConsistent
<1>3. CASE Request(c)
  <2>1. Goes(c, "request", "asking") /\ UNCHANGED <<left, verdicts>>
    BY <1>3 DEF Request, handler
  <2> QED
    BY <1>0, <2>1, GoesConsistent
<1>4. CASE BadRequest(c)
  <2>1. Goes(c, "request", "closed") /\ UNCHANGED <<left, verdicts>>
    BY <1>4 DEF BadRequest, handler
  <2> QED
    BY <1>0, <2>1, GoesConsistent
<1>5. CASE WrongCommand(c)
  <2>1. Goes(c, "request", "closed") /\ left' = left
    BY <1>5 DEF WrongCommand
  <2>2. verdicts' \in [Conns -> Nat]
    BY <1>0, <1>5 DEF WrongCommand, Tell
  <2> QED
    BY <1>0, <2>1, <2>2, GoesConsistent
<1>6. CASE PipeEnds(c)
  <2>1. Goes(c, "piping", "closed") /\ verdicts' = verdicts
    BY <1>6 DEF PipeEnds
  <2>2. left' \in [Conns -> 0 .. MaxTries]
    BY <1>0, <1>6 DEF PipeEnds, Forget
  <2> QED
    BY <1>0, <2>1, <2>2, GoesConsistent
<1> QED
  BY <1>1, <1>2, <1>3, <1>4, <1>5, <1>6 DEF ClientPaced

LEMMA WorkConsistent ==
    ASSUME Consistent, NEW c \in Conns, Work(c)
    PROVE  Consistent'
<1> USE DEF InHandler
<1>0. left \in [Conns -> 0 .. MaxTries] /\ verdicts \in [Conns -> Nat] /\ MaxTries \in Nat
  BY HandlerAssumption DEF Consistent, TypeOK
<1>1. CASE NoProxy(c)
  <2>1. Goes(c, "asking", "closed") /\ left' = left
    BY <1>1 DEF NoProxy
  <2>2. verdicts' \in [Conns -> Nat]
    BY <1>0, <1>1 DEF NoProxy, Tell
  <2> QED
    BY <1>0, <2>1, <2>2, GoesConsistent
<1>2. ASSUME NEW n \in 0 .. MaxTries + 1, GotProxy(c, n)
      PROVE  Consistent'
  <2>1. Goes(c, "asking", "trying") /\ verdicts' = verdicts
    BY <1>2 DEF GotProxy
  <2>2. Attempts(n) \in 0 .. MaxTries
    BY <1>0 DEF Attempts
  <2>3. left' \in [Conns -> 0 .. MaxTries]
    BY <1>0, <1>2, <2>2 DEF GotProxy
  <2> QED
    BY <1>0, <2>1, <2>3, GoesConsistent
<1>3. CASE ConnectOk(c)
  <2>1. Goes(c, "trying", "replying") /\ UNCHANGED <<left, verdicts>>
    BY <1>3 DEF ConnectOk, handler
  <2> QED
    BY <1>0, <2>1, GoesConsistent
<1>4. CASE ConnectFails(c)
  <2>1. Goes(c, "trying", "marking") /\ UNCHANGED <<left, verdicts>>
    BY <1>4 DEF ConnectFails, handler
  <2> QED
    BY <1>0, <2>1, GoesConsistent
<1>5. CASE Reply(c)
  <2>1. Goes(c, "replying", "piping") /\ left' = left
    BY <1>5 DEF Reply
  <2>2. verdicts' \in [Conns -> Nat]
    BY <1>0, <1>5 DEF Reply, Tell
  <2> QED
    BY <1>0, <2>1, <2>2, GoesConsistent
<1>6. CASE ReplyFails(c)
  <2>1. Goes(c, "replying", "marking") /\ UNCHANGED <<left, verdicts>>
    BY <1>6 DEF ReplyFails, handler
  <2> QED
    BY <1>0, <2>1, GoesConsistent
<1>7. CASE Retry(c)
  <2>1. Goes(c, "marking", "trying") /\ verdicts' = verdicts
    BY <1>7 DEF Retry
  <2>2. left[c] \in 0 .. MaxTries /\ left[c] > 1
    BY <1>0, <1>7 DEF Retry
  <2>3. left[c] - 1 \in 0 .. MaxTries
    BY <1>0, <2>2
  <2>4. left' \in [Conns -> 0 .. MaxTries]
    BY <1>0, <1>7, <2>3 DEF Retry
  <2> QED
    BY <1>0, <2>1, <2>4, GoesConsistent
<1>8. CASE GiveUp(c)
  <2>1. Goes(c, "marking", "closed") /\ verdicts' = verdicts
    BY <1>8 DEF GiveUp
  <2>2. left' \in [Conns -> 0 .. MaxTries]
    BY <1>0, <1>8 DEF GiveUp, Forget
  <2> QED
    BY <1>0, <2>1, <2>2, GoesConsistent
<1> QED
  BY <1>1, <1>2, <1>3, <1>4, <1>5, <1>6, <1>7, <1>8 DEF Work

-----------------------------------------------------------------------------
(* The listener's own steps.                                               *)

(* A backlog that is reset moves nobody in or out of the server's hands.   *)
LEMMA ResetKeeps ==
    ASSUME NEW f \in [Conns -> States]
    PROVE  /\ Reset(f) \in [Conns -> States]
           /\ \A c \in Conns :
                 /\ Reset(f)[c] = "queued" <=> f[c] = "queued"
                 /\ Reset(f)[c] = "accepted" <=> f[c] = "accepted"
                 /\ Reset(f)[c] = "granted" <=> f[c] = "granted"
BY DEF Reset, States, Ended, Outside

LEMMA AcceptConsistent ==
    ASSUME Consistent, NEW c \in Conns, Accept(c), UNCHANGED handler
    PROVE  Consistent'
<1> DEFINE taken == [conn EXCEPT ![c] = "accepted"]
<1>1. /\ serve = "accept" /\ serve' = "checking" /\ conn[c] = "pending"
      /\ conn' = taken \/ conn' = Reset(taken)
      /\ UNCHANGED <<queue, srv, running, shut, clock, times, grants, left, verdicts>>
  BY DEF Accept, limiter, handler
<1>2. conn \in [Conns -> States] /\ taken \in [Conns -> States]
  BY DEF Consistent, TypeOK, States, Outside
<1>3. \A d \in Conns : conn[d] # "accepted" /\ conn[d] # "granted"
  BY <1>1 DEF Consistent, TypeOK
<1>4. \A d \in Conns : /\ taken[d] = "queued" <=> conn[d] = "queued"
                       /\ taken[d] = "accepted" <=> d = c
                       /\ taken[d] # "granted"
  BY <1>1, <1>2, <1>3
<1>5. conn' \in [Conns -> States]
      /\ \A d \in Conns :
            /\ conn'[d] = "queued" <=> conn[d] = "queued"
            /\ conn'[d] = "accepted" <=> d = c
            /\ conn'[d] # "granted"
  <2>1. CASE conn' = taken
    BY <1>2, <1>4, <2>1
  <2>2. CASE conn' = Reset(taken)
    <3> HIDE DEF taken
    <3> QED
      BY <1>2, <1>4, <2>2, ResetKeeps
  <2> QED
    BY <1>1, <2>1, <2>2
<1> HIDE DEF taken
<1>6. TypeOK'
  BY <1>1, <1>5 DEF Consistent, TypeOK, States
<1>7. QueuedOnce' /\ OneInHand'
  BY <1>1, <1>5 DEF Consistent, QueuedOnce, OneInHand
<1> QED
  BY <1>6, <1>7 DEF Consistent

LEMMA DispatchConsistent ==
    ASSUME Consistent, NEW c \in Conns, Dispatch(c), UNCHANGED handler
    PROVE  Consistent'
<1>0. /\ conn \in [Conns -> States] /\ queue \in Seq(Conns)
      /\ \A d \in Conns : conn[d] = "queued" <=> \E i \in DOMAIN queue : queue[i] = d
      /\ \A d \in Conns : conn[d] \in {"accepted", "granted"} /\ conn[c] \in {"accepted", "granted"}
                             => d = c
  BY DEF Consistent, TypeOK, OneInHand, States
<1>1. CASE Grant(c)
  <2>1. /\ conn[c] = "accepted" /\ conn' = [conn EXCEPT ![c] = "granted"]
        /\ UNCHANGED <<queue, serve, srv, running, shut, clock, left, verdicts>>
    BY <1>1 DEF Grant, Becomes, listening, handler
  <2>2. \A d \in Conns : conn'[d] = IF d = c THEN "granted" ELSE conn[d]
    BY <1>0, <2>1
  <2>3. conn' \in [Conns -> States]
    BY <1>0, <2>1 DEF States, Outside
  <2>4. times' \subseteq grants' /\ grants' \subseteq (0 .. MaxTime) \X Conns
    BY <1>1 DEF Grant, Recent, Consistent, TypeOK
  <2>5. serve = "checking"
    BY <2>1 DEF Consistent, TypeOK
  <2>6. TypeOK'
    BY <1>0, <2>1, <2>2, <2>3, <2>4, <2>5 DEF Consistent, TypeOK, States
  <2>7. QueuedOnce' /\ OneInHand'
    BY <1>0, <2>1, <2>2 DEF Consistent, QueuedOnce, OneInHand
  <2> QED
    BY <2>6, <2>7 DEF Consistent
<1>2. ASSUME Deny(c) \/ SubmitRaises(c)
      PROVE  Consistent'
  <2>1. /\ conn[c] \in {"accepted", "granted"} /\ conn' = [conn EXCEPT ![c] = "turnedAway"]
        /\ serve' \in {"loop", "dead"}
        /\ UNCHANGED <<queue, srv, running, shut, clock, grants, left, verdicts>>
        /\ times' \subseteq times
    BY <1>2 DEF Deny, SubmitRaises, Becomes, Recent, limiter, handler
  <2>2. \A d \in Conns : conn'[d] = IF d = c THEN "turnedAway" ELSE conn[d]
    BY <1>0, <2>1
  <2>3. conn' \in [Conns -> States]
    BY <1>0, <2>1 DEF States, Ended
  <2>4. \A d \in Conns : conn'[d] \notin {"accepted", "granted"}
    BY <1>0, <2>1, <2>2
  <2>5. TypeOK'
    BY <1>0, <2>1, <2>2, <2>3, <2>4 DEF Consistent, TypeOK, States
  <2>6. QueuedOnce' /\ OneInHand'
    BY <2>1, <2>4 DEF Consistent, QueuedOnce, OneInHand
  <2> QED
    BY <2>5, <2>6 DEF Consistent
<1>3. CASE Submit(c)
  <2>1. /\ conn[c] = "granted" /\ conn' = [conn EXCEPT ![c] = "queued"]
        /\ queue' = Append(queue, c) /\ serve' = "loop"
        /\ UNCHANGED <<srv, running, shut, clock, times, grants, left, verdicts>>
    BY <1>3 DEF Submit, Becomes, limiter, handler
  <2>2. \A d \in Conns : conn'[d] = IF d = c THEN "queued" ELSE conn[d]
    BY <1>0, <2>1
  <2>3. conn' \in [Conns -> States] /\ queue' \in Seq(Conns)
    BY <1>0, <2>1 DEF States
  <2>4. \A d \in Conns : conn'[d] \notin {"accepted", "granted"}
    BY <1>0, <2>1, <2>2
  <2>5. /\ DOMAIN queue = 1 .. Len(queue) /\ DOMAIN queue' = 1 .. Len(queue) + 1
        /\ Len(queue) \in Nat
        /\ \A i \in 1 .. Len(queue) : queue'[i] = queue[i]
        /\ queue'[Len(queue) + 1] = c
    BY <1>0, <2>1
  <2>6. \A i \in 1 .. Len(queue) + 1 : i \in 1 .. Len(queue) \/ i = Len(queue) + 1
    BY <2>5
  <2>7. \A d \in Conns : conn'[d] = "queued" <=> \E i \in DOMAIN queue' : queue'[i] = d
    BY <1>0, <2>1, <2>2, <2>5, <2>6
  <2>8. TypeOK'
    BY <2>1, <2>3, <2>4, <2>7 DEF Consistent, TypeOK, States
  <2>9. \A i \in DOMAIN queue : queue[i] # c
    BY <1>0, <2>1
  <2>10. QueuedOnce'
    BY <2>5, <2>6, <2>9 DEF Consistent, QueuedOnce
  <2>11. OneInHand'
    BY <2>4 DEF OneInHand
  <2> QED
    BY <2>8, <2>10, <2>11 DEF Consistent
<1> QED
  BY <1>1, <1>2, <1>3 DEF Dispatch

LEMMA StartWorkConsistent ==
    ASSUME Consistent, StartWork, UNCHANGED handler
    PROVE  Consistent'
<1> DEFINE c == Head(queue)
<1>1. /\ queue \in Seq(Conns) /\ queue # <<>> /\ queue' = Tail(queue)
      /\ conn' = [conn EXCEPT ![c] = "started"]
      /\ UNCHANGED <<serve, srv, running, shut, clock, times, grants, left, verdicts>>
  BY DEF StartWork, Becomes, listening, limiter, handler, Consistent, TypeOK
<1>2. /\ Len(queue) \in Nat \ {0} /\ DOMAIN queue = 1 .. Len(queue)
      /\ c \in Conns /\ c = queue[1]
      /\ queue' \in Seq(Conns) /\ DOMAIN queue' = 1 .. Len(queue) - 1
      /\ \A i \in DOMAIN queue' : queue'[i] = queue[i + 1]
  BY <1>1
<1>3. /\ conn \in [Conns -> States]
      /\ \A d \in Conns : conn[d] = "queued" <=> \E i \in DOMAIN queue : queue[i] = d
      /\ \A i, j \in DOMAIN queue : queue[i] = queue[j] => i = j
  BY DEF Consistent, TypeOK, QueuedOnce, States
<1>4. conn[c] = "queued"
  BY <1>2, <1>3
<1> HIDE DEF c
<1>5. \A d \in Conns : conn'[d] = IF d = c THEN "started" ELSE conn[d]
  BY <1>1, <1>3
<1>6. conn' \in [Conns -> States]
  BY <1>1, <1>3 DEF States, InHandler
<1>7. ASSUME NEW d \in Conns
      PROVE  conn'[d] = "queued" <=> \E i \in DOMAIN queue' : queue'[i] = d
  <2>1. CASE d = c
    <3>1. \A i \in DOMAIN queue' : queue'[i] # c
      BY <1>2, <1>3
    <3> QED
      BY <1>2, <1>5, <2>1, <3>1
  <2>2. CASE d # c
    <3>1. (\E i \in DOMAIN queue : queue[i] = d) <=> \E i \in DOMAIN queue' : queue'[i] = d
      <4>1. ASSUME NEW i \in DOMAIN queue, queue[i] = d
            PROVE  i - 1 \in DOMAIN queue' /\ queue'[i - 1] = d
        BY <1>2, <2>2, <4>1
      <4>2. ASSUME NEW i \in DOMAIN queue', queue'[i] = d
            PROVE  i + 1 \in DOMAIN queue /\ queue[i + 1] = d
        BY <1>2, <4>2
      <4> QED
        BY <4>1, <4>2
    <3> QED
      BY <1>3, <1>5, <2>2, <3>1
  <2> QED
    BY <2>1, <2>2
<1>8. \A d \in Conns : conn'[d] \in {"accepted", "granted"} <=> conn[d] \in {"accepted", "granted"}
  BY <1>2, <1>4, <1>5
<1>9. TypeOK'
  BY <1>1, <1>2, <1>6, <1>7, <1>8 DEF Consistent, TypeOK, States
<1>10. QueuedOnce'
  BY <1>2, <1>3 DEF QueuedOnce
<1>11. OneInHand'
  BY <1>8 DEF Consistent, OneInHand
<1> QED
  BY <1>9, <1>10, <1>11 DEF Consistent

(* The steps that at most lose the backlog.                                *)
LEMMA OutsideConsistent ==
    ASSUME Consistent, UNCHANGED handler,
           Tick \/ Loop \/ AcceptFails \/ Stop \/ \E c \in Conns : Connect(c)
    PROVE  Consistent'
<1>0. conn \in [Conns -> States]
  BY DEF Consistent, TypeOK, States
<1>1. /\ conn' \in [Conns -> States]
      /\ \A d \in Conns :
            /\ conn'[d] = "queued" <=> conn[d] = "queued"
            /\ conn'[d] = "accepted" <=> conn[d] = "accepted"
            /\ conn'[d] = "granted" <=> conn[d] = "granted"
  <2>1. CASE conn' = conn
    BY <1>0, <2>1
  <2>2. CASE conn' = Reset(conn)
    BY <1>0, <2>2, ResetKeeps
  <2>3. ASSUME NEW c \in Conns, Connect(c)
        PROVE  conn[c] = "new" /\ conn' = [conn EXCEPT ![c] = "pending"]
    BY <2>3 DEF Connect, Becomes
  <2>4. CASE \E c \in Conns : Connect(c)
    BY <1>0, <2>3, <2>4 DEF States, Outside
  <2> QED
    BY <2>1, <2>2, <2>4 DEF Tick, Loop, AcceptFails, Stop, StopFlag, StopClose, StopShutdown
<1>2. /\ UNCHANGED <<queue, times, grants, left, verdicts>>
      /\ clock' \in 0 .. MaxTime
      /\ srv' \in {"open", "closed"} /\ running' \in BOOLEAN /\ shut' \in BOOLEAN
  <2>1. clock \in 0 .. MaxTime /\ srv \in {"open", "closed"}
        /\ running \in BOOLEAN /\ shut \in BOOLEAN
    BY DEF Consistent, TypeOK
  <2>2. CASE Tick
    BY <2>1, <2>2, SizesAssumption DEF Tick, listening, limiter, handler
  <2>3. CASE Loop \/ AcceptFails
    BY <2>1, <2>3 DEF Loop, AcceptFails, limiter, handler
  <2>4. CASE Stop
    BY <2>1, <2>4 DEF Stop, StopFlag, StopClose, StopShutdown, limiter, handler
  <2>5. ASSUME NEW c \in Conns, Connect(c)
        PROVE  UNCHANGED <<queue, times, grants, left, verdicts, clock, srv, running, shut>>
    BY <2>5 DEF Connect, listening, limiter, handler
  <2> QED
    BY <2>1, <2>2, <2>3, <2>4, <2>5
<1>3. /\ serve' \in {"loop", "accept", "checking", "ended", "dead"}
      /\ serve' = "checking" <=> serve = "checking"
  BY DEF Tick, Loop, AcceptFails, Stop, StopFlag, StopClose, StopShutdown, Connect,
         listening, Consistent, TypeOK
<1>4. TypeOK'
  BY <1>1, <1>2, <1>3 DEF Consistent, TypeOK, States
<1>5. QueuedOnce' /\ OneInHand'
  BY <1>1, <1>2 DEF Consistent, QueuedOnce, OneInHand
<1> QED
  BY <1>4, <1>5 DEF Consistent

LEMMA NextConsistent == Consistent /\ [Next]_vars => Consistent'
<1> SUFFICES ASSUME Consistent, [Next]_vars
             PROVE  Consistent'
  OBVIOUS
<1>1. CASE Serving
  BY <1>1, AcceptConsistent, DispatchConsistent, StartWorkConsistent, OutsideConsistent
     DEF Serving, ServerNext
<1>2. CASE \E c \in Conns : ClientPaced(c) \/ Work(c)
  BY <1>2, ClientConsistent, WorkConsistent
<1>3. CASE UNCHANGED vars
  BY <1>3 DEF vars, server, listening, limiter, handler, Consistent, TypeOK, QueuedOnce, OneInHand
<1> QED
  BY <1>1, <1>2, <1>3 DEF Next

(* The thread, the queue, the workers and the connections agree on where   *)
(* every connection is.                                                    *)
THEOREM Typing == Spec => []TypeOK
<1>1. Spec => []Consistent
  BY InitConsistent, NextConsistent, PTL DEF Spec
<1>2. Consistent => TypeOK
  BY DEF Consistent
<1> QED
  BY <1>1, <1>2, PTL

-----------------------------------------------------------------------------
(* The limiter's bound.                                                    *)

Window(t) == {g \in grants : t <= g[1] /\ g[1] < t + Second}

(* The limiter has not forgotten what it granted in the last second, and   *)
(* its clock is not behind any grant: whoever is granted now is counted    *)
(* with all that a window which ends later can hold.                       *)
RecentKept ==
    \A g \in grants : g[1] <= clock /\ (clock - g[1] < Second => g \in times)

Limited == RecentKept /\ RateBound

LEMMA FiniteGrants ==
    ASSUME Consistent
    PROVE  IsFiniteSet(grants) /\ IsFiniteSet(times)
<1>1. IsFiniteSet(0 .. MaxTime)
  BY SizesAssumption, FS_Interval
<1>2. IsFiniteSet((0 .. MaxTime) \X Conns)
  BY <1>1, ConnsAssumption, FS_Product
<1>3. grants \in SUBSET ((0 .. MaxTime) \X Conns) /\ times \in SUBSET ((0 .. MaxTime) \X Conns)
  BY DEF Consistent, TypeOK
<1> QED
  BY <1>2, <1>3, FS_Subset

LEMMA GrantLimited ==
    ASSUME Consistent, Limited, NEW c \in Conns, Grant(c)
    PROVE  Limited'
<1> DEFINE new == <<clock, c>>
           recent == Recent(clock, Second)
<1>1. /\ Cardinality(recent) < MaxPerSec
      /\ times' = recent \cup {new} /\ grants' = grants \cup {new} /\ clock' = clock
  BY DEF Grant
<1>2. /\ clock \in Nat /\ Second \in Nat \ {0} /\ MaxPerSec \in Nat /\ MaxTime \in Nat
      /\ \A g \in grants : g[1] \in Nat
      /\ times \subseteq grants
  BY SizesAssumption DEF Consistent, TypeOK
<1>3. new[1] = clock
  OBVIOUS
<1>4. recent = {g \in times : clock - g[1] < Second}
  BY DEF Recent
<1> HIDE DEF new, recent
<1>5. RecentKept'
  BY <1>1, <1>2, <1>3, <1>4 DEF Limited, RecentKept
<1>6. IsFiniteSet(recent) /\ Cardinality(recent) \in Nat
  BY <1>4, FiniteGrants, FS_Subset, FS_CardinalityType
<1>7. ASSUME NEW t \in 0 .. MaxTime
      PROVE  Cardinality({g \in grants' : t <= g[1] /\ g[1] < t + Second}) <= MaxPerSec
  <2> DEFINE w == {g \in grants' : t <= g[1] /\ g[1] < t + Second}
  <2>1. CASE t <= clock /\ clock < t + Second
    <3>1. \A g \in grants : t <= g[1] => clock - g[1] < Second
      BY <1>2, <2>1
    <3>2. w \in SUBSET (recent \cup {new})
      BY <1>1, <1>4, <3>1 DEF Limited, RecentKept
    <3>3. IsFiniteSet(recent \cup {new}) /\ Cardinality(recent \cup {new}) <= Cardinality(recent) + 1
      BY <1>6, FS_AddElement
    <3>4. Cardinality(w) <= Cardinality(recent \cup {new})
      BY <3>2, <3>3, FS_Subset
    <3>5. Cardinality(w) \in Nat /\ Cardinality(recent \cup {new}) \in Nat
      BY <3>2, <3>3, FS_Subset, FS_CardinalityType
    <3> QED
      BY <1>1, <1>2, <1>6, <3>3, <3>4, <3>5
  <2>2. CASE ~(t <= clock /\ clock < t + Second)
    <3>1. w = Window(t)
      BY <1>1, <1>3, <2>2 DEF Window
    <3>2. Cardinality(Window(t)) <= MaxPerSec
      BY DEF Limited, RateBound, Window
    <3> QED
      BY <3>1, <3>2
  <2> QED
    BY <2>1, <2>2
<1>8. RateBound'
  BY <1>7 DEF RateBound
<1> QED
  BY <1>5, <1>8 DEF Limited

LEMMA NextLimited == Consistent /\ Limited /\ [Next]_vars => Limited'
<1> SUFFICES ASSUME Consistent, Limited, [Next]_vars
             PROVE  Limited'
  OBVIOUS
<1>1. ASSUME NEW c \in Conns, Grant(c)
      PROVE  Limited'
  BY <1>1, GrantLimited
<1>2. CASE UNCHANGED <<times, grants, clock>>
  BY <1>2 DEF Limited, RecentKept, RateBound
<1>3. CASE Tick
  <2>1. clock' = clock + 1 /\ UNCHANGED <<times, grants>>
    BY <1>3 DEF Tick, limiter
  <2>2. clock \in Nat /\ Second \in Nat /\ \A g \in grants : g[1] \in Nat
    BY SizesAssumption DEF Consistent, TypeOK
  <2>3. RecentKept'
    BY <2>1, <2>2 DEF Limited, RecentKept
  <2>4. RateBound'
    BY <2>1 DEF Limited, RateBound
  <2> QED
    BY <2>3, <2>4 DEF Limited
<1>4. ASSUME NEW c \in Conns, Deny(c)
      PROVE  Limited'
  <2>1. times' = {g \in times : clock - g[1] < Second} /\ UNCHANGED <<clock, grants>>
    BY <1>4 DEF Deny, Recent
  <2>2. RecentKept'
    BY <2>1 DEF Limited, RecentKept
  <2>3. RateBound'
    BY <2>1 DEF Limited, RateBound
  <2> QED
    BY <2>2, <2>3 DEF Limited
<1>5. CASE Serving
  <2>1. ASSUME NEW c \in Conns, Connect(c) \/ Accept(c) \/ Submit(c) \/ SubmitRaises(c)
        PROVE  UNCHANGED <<times, grants, clock>>
    BY <2>1 DEF Connect, Accept, Submit, SubmitRaises, limiter
  <2>2. ASSUME Loop \/ AcceptFails \/ StartWork \/ Stop
        PROVE  UNCHANGED <<times, grants, clock>>
    BY <2>2 DEF Loop, AcceptFails, StartWork, Stop, StopFlag, StopClose, StopShutdown, limiter
  <2> QED
    BY <1>1, <1>2, <1>3, <1>4, <1>5, <2>1, <2>2 DEF Serving, ServerNext, Dispatch
<1>6. ASSUME NEW c \in Conns, ClientPaced(c) \/ Work(c)
      PROVE  UNCHANGED <<times, grants, clock>>
  BY <1>6 DEF ClientPaced, Work, Greet, BadGreeting, Request, BadRequest, WrongCommand, PipeEnds,
              NoProxy, GotProxy, ConnectOk, ConnectFails, Reply, ReplyFails, Retry, GiveUp,
              Goes, limiter
<1>7. CASE UNCHANGED vars
  BY <1>2, <1>7 DEF vars, server, limiter
<1> QED
  BY <1>2, <1>5, <1>6, <1>7 DEF Next

LEMMA InitLimited == Init => Limited
<1> SUFFICES ASSUME Init
             PROVE  Limited
  OBVIOUS
<1>1. grants = {}
  BY DEF Init, ServerInit
<1>2. \A t \in 0 .. MaxTime : {g \in grants : t <= g[1] /\ g[1] < t + Second} = {}
  BY <1>1
<1>3. Cardinality({}) = 0 /\ 0 <= MaxPerSec
  BY SizesAssumption, FS_EmptySet
<1> QED
  BY <1>1, <1>2, <1>3 DEF Limited, RecentKept, RateBound

(* No second sees more than MaxPerSec connections let in, for any limit.   *)
THEOREM RateIsBounded == Spec => []RateBound
<1>1. Spec => [](Consistent /\ Limited)
  BY InitConsistent, NextConsistent, InitLimited, NextLimited, PTL DEF Spec
<1>2. Limited => RateBound
  BY DEF Limited
<1> QED
  BY <1>1, <1>2, PTL

-----------------------------------------------------------------------------
(* One verdict for each request.                                           *)

(* Before its pipe, and unless it is over, a connection has had no reply.  *)
NoReplyYet ==
    \A c \in Conns : conn[c] \notin {"piping", "closed"} => verdicts[c] = 0

Told == NoReplyYet /\ OneVerdict

LEMMA GoesTold ==
    ASSUME Consistent, Told, NEW c \in Conns,
           NEW from \in InHandler, NEW to \in InHandler \cup {"closed"}, Goes(c, from, to),
           \/ verdicts' = verdicts /\ (from # "piping" \/ to = "closed")
           \/ Tell(c) /\ from # "piping" /\ to \in {"piping", "closed"}
    PROVE  Told'
<1>1. conn[c] = from /\ \A d \in Conns : conn'[d] = IF d = c THEN to ELSE conn[d]
  BY DEF Goes, Becomes, Consistent, TypeOK
<1>2. \A d \in Conns : verdicts[d] \in Nat
  BY DEF Consistent, TypeOK
<1>3. from # "closed"
  BY DEF InHandler
<1>4. CASE verdicts' = verdicts /\ (from # "piping" \/ to = "closed")
  BY <1>1, <1>3, <1>4 DEF Told, NoReplyYet, OneVerdict
<1>5. CASE Tell(c) /\ from # "piping" /\ to \in {"piping", "closed"}
  <2>1. verdicts[c] = 0
    BY <1>1, <1>3, <1>5 DEF Told, NoReplyYet
  <2>2. \A d \in Conns : verdicts'[d] = IF d = c THEN 1 ELSE verdicts[d]
    BY <1>5, <2>1 DEF Tell, Consistent, TypeOK
  <2> QED
    BY <1>1, <1>5, <2>2 DEF Told, NoReplyYet, OneVerdict
<1> QED
  BY <1>4, <1>5

LEMMA HandlerTold ==
    ASSUME Consistent, Told, NEW c \in Conns, ClientPaced(c) \/ Work(c)
    PROVE  Told'
<1> USE DEF InHandler
<1>1. CASE Greet(c) \/ BadGreeting(c) \/ Request(c) \/ BadRequest(c)
  BY <1>1, GoesTold DEF Greet, BadGreeting, Request, BadRequest, handler
<1>2. CASE WrongCommand(c) \/ NoProxy(c) \/ Reply(c)
  BY <1>2, GoesTold DEF WrongCommand, NoProxy, Reply
<1>3. CASE ConnectOk(c) \/ ConnectFails(c) \/ ReplyFails(c)
  BY <1>3, GoesTold DEF ConnectOk, ConnectFails, ReplyFails, handler
<1>4. CASE Retry(c) \/ GiveUp(c) \/ PipeEnds(c)
  BY <1>4, GoesTold DEF Retry, GiveUp, PipeEnds
<1>5. ASSUME NEW n \in 0 .. MaxTries + 1, GotProxy(c, n)
      PROVE  Told'
  BY <1>5, GoesTold DEF GotProxy
<1> QED
  BY <1>1, <1>2, <1>3, <1>4, <1>5 DEF ClientPaced, Work

LEMMA ServingTold ==
    ASSUME Consistent, Told, Serving
    PROVE  Told'
<1>0. conn \in [Conns -> States] /\ verdicts' = verdicts
  BY DEF Serving, handler, Consistent, TypeOK, States
<1>1. ASSUME NEW d \in Conns, conn[d] \in {"piping", "closed"}
      PROVE  conn'[d] = conn[d]
  <2>1. ASSUME NEW c \in Conns, Connect(c) \/ Dispatch(c)
        PROVE  conn'[d] = conn[d]
    BY <1>0, <1>1, <2>1 DEF Connect, Dispatch, Grant, Deny, Submit, SubmitRaises, Becomes
  <2>2. ASSUME NEW c \in Conns, Accept(c)
        PROVE  conn'[d] = conn[d]
    BY <1>0, <1>1, <2>2 DEF Accept, Reset
  <2>3. CASE StartWork
    <3>1. queue \in Seq(Conns) /\ queue # <<>>
          /\ \A c \in Conns : conn[c] = "queued" <=> \E i \in DOMAIN queue : queue[i] = c
      BY <2>3 DEF StartWork, Consistent, TypeOK
    <3>2. Head(queue) \in Conns /\ conn[Head(queue)] = "queued"
      BY <3>1
    <3> QED
      BY <1>0, <1>1, <2>3, <3>2 DEF StartWork, Becomes
  <2>4. CASE Tick \/ Loop \/ AcceptFails \/ Stop
    BY <1>0, <1>1, <2>4 DEF Tick, Loop, AcceptFails, Stop, StopFlag, StopClose, StopShutdown, Reset
  <2> QED
    BY <2>1, <2>2, <2>3, <2>4 DEF Serving, ServerNext
<1> QED
  BY <1>0, <1>1 DEF Told, NoReplyYet, OneVerdict

(* However its handler goes on, a client never gets a second reply.        *)
THEOREM SingleVerdict == Spec => []OneVerdict
<1>1. Init => Told
  BY DEF Init, ServerInit, Told, NoReplyYet, OneVerdict
<1>2. Consistent /\ Told /\ [Next]_vars => Told'
  <2>1. Consistent /\ Told /\ UNCHANGED vars => Told'
    BY DEF vars, server, handler, Told, NoReplyYet, OneVerdict
  <2> QED
    BY <2>1, HandlerTold, ServingTold DEF Next
<1>3. Spec => [](Consistent /\ Told)
  BY <1>1, <1>2, InitConsistent, NextConsistent, PTL DEF Spec
<1>4. Told => OneVerdict
  BY DEF Told
<1> QED
  BY <1>3, <1>4, PTL

-----------------------------------------------------------------------------
(* The listener, the executor and the handlers implement Server.           *)

LEMMA InitImplements == Init => Promise!Init
BY DEF Init, ServerInit, Promise!Init, Outside, Ended, Handling

(* A step that leaves the server's view alone: a connection stays outside, *)
(* in the queue, in the hands of its worker, or away.                      *)
LEMMA SameView ==
    ASSUME Consistent, UNCHANGED <<queue, shut>>,
           \A d \in Conns : /\ conn'[d] \in Outside <=> conn[d] \in Outside
                            /\ conn'[d] \in InHandler <=> conn[d] \in InHandler,
           Consistent'
    PROVE  UNCHANGED Promise!vars
<1>1. conn \in [Conns -> States] /\ conn' \in [Conns -> States]
  BY DEF Consistent, TypeOK, States
<1>2. Handling = {d \in Conns : conn[d] \in InHandler}
      /\ Handling' = {d \in Conns : conn'[d] \in InHandler}
  BY <1>1 DEF Handling, States, Outside, Ended, InHandler
<1> QED
  BY <1>2 DEF Promise!vars

(* A step that only turns connections away.                                *)
LEMMA TurnsAway ==
    ASSUME Consistent, Consistent', UNCHANGED <<queue, shut>>,
           \A d \in Conns : /\ conn'[d] \in Outside => conn[d] \in Outside
                            /\ conn'[d] \in InHandler <=> conn[d] \in InHandler
    PROVE  Promise!TurnAway
<1>1. conn \in [Conns -> States] /\ conn' \in [Conns -> States]
  BY DEF Consistent, TypeOK, States
<1>2. Handling = {d \in Conns : conn[d] \in InHandler}
      /\ Handling' = {d \in Conns : conn'[d] \in InHandler}
  BY <1>1 DEF Handling, States, Outside, Ended, InHandler
<1>3. Handling' = Handling
  BY <1>2
<1> DEFINE fresh == {d \in Conns : conn[d] \in Outside}
           fresh2 == {d \in Conns : conn'[d] \in Outside}
<1>4. fresh \ fresh2 \in SUBSET fresh /\ fresh2 = fresh \ (fresh \ fresh2)
  OBVIOUS
<1> QED
  BY <1>3, <1>4 DEF Promise!TurnAway

LEMMA HandlerImplements ==
    ASSUME Consistent, Consistent', NEW c \in Conns,
           NEW from \in InHandler, NEW to \in InHandler \cup {"closed"}, Goes(c, from, to)
    PROVE  [Promise!Next]_(Promise!vars)
<1>1. /\ conn[c] = from /\ conn \in [Conns -> States] /\ conn' \in [Conns -> States]
      /\ \A d \in Conns : conn'[d] = IF d = c THEN to ELSE conn[d]
      /\ UNCHANGED <<queue, shut>>
  BY DEF Goes, Becomes, listening, Consistent, TypeOK, States
<1>2. CASE to \in InHandler
  <2>1. \A d \in Conns : /\ conn'[d] \in Outside <=> conn[d] \in Outside
                         /\ conn'[d] \in InHandler <=> conn[d] \in InHandler
    BY <1>1, <1>2 DEF InHandler, Outside
  <2> QED
    BY <1>1, <2>1, SameView
<1>3. CASE to = "closed"
  <2>1. Handling = {d \in Conns : conn[d] \in InHandler}
        /\ Handling' = {d \in Conns : conn'[d] \in InHandler}
    BY <1>1 DEF Handling, States, Outside, Ended, InHandler
  <2>2. c \in Handling /\ Handling' = Handling \ {c}
    BY <1>1, <1>3, <2>1 DEF InHandler
  <2>3. {d \in Conns : conn'[d] \in Outside} = {d \in Conns : conn[d] \in Outside}
    BY <1>1, <1>3 DEF InHandler, Outside
  <2>4. Promise!Finish(c)
    BY <1>1, <2>2, <2>3 DEF Promise!Finish
  <2> QED
    BY <2>4 DEF Promise!Next
<1> QED
  BY <1>2, <1>3

LEMMA HandleImplements ==
    ASSUME Consistent, Consistent', NEW c \in Conns, ClientPaced(c) \/ Work(c)
    PROVE  [Promise!Next]_(Promise!vars)
<1> USE DEF InHandler
<1>1. CASE Greet(c) \/ BadGreeting(c) \/ Request(c) \/ BadRequest(c)
  BY <1>1, HandlerImplements DEF Greet, BadGreeting, Request, BadRequest
<1>2. CASE WrongCommand(c) \/ NoProxy(c) \/ Reply(c)
  BY <1>2, HandlerImplements DEF WrongCommand, NoProxy, Reply
<1>3. CASE ConnectOk(c) \/ ConnectFails(c) \/ ReplyFails(c)
  BY <1>3, HandlerImplements DEF ConnectOk, ConnectFails, ReplyFails
<1>4. CASE Retry(c) \/ GiveUp(c) \/ PipeEnds(c)
  BY <1>4, HandlerImplements DEF Retry, GiveUp, PipeEnds
<1>5. ASSUME NEW n \in 0 .. MaxTries + 1, GotProxy(c, n)
      PROVE  [Promise!Next]_(Promise!vars)
  BY <1>5, HandlerImplements DEF GotProxy
<1> QED
  BY <1>1, <1>2, <1>3, <1>4, <1>5 DEF ClientPaced, Work

LEMMA ServingImplements ==
    ASSUME Consistent, Consistent', ServerNext
    PROVE  [Promise!Next]_(Promise!vars)
<1>0. /\ conn \in [Conns -> States] /\ conn' \in [Conns -> States]
      /\ queue \in Seq(Conns)
      /\ \A d \in Conns : conn[d] = "queued" <=> \E i \in DOMAIN queue : queue[i] = d
  BY DEF Consistent, TypeOK, States
<1>1. /\ Handling = {d \in Conns : conn[d] \in InHandler}
      /\ Handling' = {d \in Conns : conn'[d] \in InHandler}
  BY <1>0 DEF Handling, States, Outside, Ended, InHandler
<1>2. ASSUME NEW c \in Conns, Connect(c) \/ Grant(c)
      PROVE  UNCHANGED Promise!vars
  <2>1. UNCHANGED <<queue, shut>>
    BY <1>2 DEF Connect, Grant, listening
  <2>2. \A d \in Conns : /\ conn'[d] \in Outside <=> conn[d] \in Outside
                         /\ conn'[d] \in InHandler <=> conn[d] \in InHandler
    BY <1>0, <1>2 DEF Connect, Grant, Becomes, Outside, InHandler
  <2> QED
    BY <2>1, <2>2, SameView
<1>3. CASE Tick \/ Loop
  <2>1. UNCHANGED <<conn, queue, shut>>
    BY <1>3 DEF Tick, Loop, listening
  <2> QED
    BY <2>1, SameView
<1>4. ASSUME NEW c \in Conns, Accept(c) \/ Deny(c) \/ SubmitRaises(c)
      PROVE  Promise!TurnAway
  <2>1. UNCHANGED <<queue, shut>>
    BY <1>4 DEF Accept, Deny, SubmitRaises
  <2>2. \A d \in Conns : /\ conn'[d] \in Outside => conn[d] \in Outside
                         /\ conn'[d] \in InHandler <=> conn[d] \in InHandler
    BY <1>0, <1>4 DEF Accept, Deny, SubmitRaises, Reset, Becomes, Outside, InHandler
  <2> QED
    BY <2>1, <2>2, TurnsAway
<1>5. CASE AcceptFails \/ StopFlag \/ StopClose
  <2>1. UNCHANGED <<queue, shut>>
    BY <1>5 DEF AcceptFails, StopFlag, StopClose
  <2>2. \A d \in Conns : /\ conn'[d] \in Outside => conn[d] \in Outside
                         /\ conn'[d] \in InHandler <=> conn[d] \in InHandler
    BY <1>0, <1>5 DEF AcceptFails, StopFlag, StopClose, Reset, Outside, InHandler
  <2>3. Promise!TurnAway
    BY <2>1, <2>2, TurnsAway
  <2> QED
    BY <2>3 DEF Promise!Next
<1>6. CASE StopShutdown
  <2>1. UNCHANGED <<conn, queue>> /\ shut' = TRUE
    BY <1>6 DEF StopShutdown
  <2>2. Handling' = Handling
    BY <1>1, <2>1
  <2>3. Promise!Shut
    BY <2>1, <2>2 DEF Promise!Shut
  <2> QED
    BY <2>3 DEF Promise!Next
<1>7. ASSUME NEW c \in Conns, Submit(c)
      PROVE  Promise!Admit(c)
  <2>1. /\ conn[c] = "granted" /\ ~shut /\ shut' = shut
        /\ queue' = Append(queue, c)
        /\ \A d \in Conns : conn'[d] = IF d = c THEN "queued" ELSE conn[d]
    BY <1>0, <1>7 DEF Submit, Becomes
  <2>2. Handling' = Handling
    BY <1>1, <2>1 DEF InHandler
  <2>3. c \in {d \in Conns : conn[d] \in Outside}
        /\ {d \in Conns : conn'[d] \in Outside} = {d \in Conns : conn[d] \in Outside} \ {c}
    BY <2>1 DEF Outside
  <2> QED
    BY <2>1, <2>2, <2>3 DEF Promise!Admit
<1>8. CASE StartWork
  <2> DEFINE c == Head(queue)
  <2>1. /\ queue # <<>> /\ queue' = Tail(queue) /\ Cardinality(Handling) < MaxWorkers
        /\ conn' = [conn EXCEPT ![c] = "started"] /\ shut' = shut
    BY <1>8 DEF StartWork, Becomes, listening
  <2>2. c \in Conns /\ conn[c] = "queued"
    <3>1. Len(queue) \in Nat \ {0} /\ 1 \in DOMAIN queue /\ c = queue[1] /\ c \in Conns
      BY <1>0, <2>1
    <3> QED
      BY <1>0, <3>1
  <2> HIDE DEF c
  <2>3. \A d \in Conns : conn'[d] = IF d = c THEN "started" ELSE conn[d]
    BY <1>0, <2>1
  <2>4. Handling' = Handling \cup {c}
    BY <1>1, <2>2, <2>3 DEF InHandler
  <2>5. {d \in Conns : conn'[d] \in Outside} = {d \in Conns : conn[d] \in Outside}
    BY <2>2, <2>3 DEF Outside
  <2>6. Promise!Cardinality(Handling) < MaxWorkers
    BY <2>1 DEF Cardinality, Promise!Cardinality
  <2>7. Promise!Take
    BY <2>1, <2>4, <2>5, <2>6 DEF Promise!Take, c
  <2> QED
    BY <2>7 DEF Promise!Next
<1> QED
  BY <1>2, <1>3, <1>4, <1>5, <1>6, <1>7, <1>8 DEF ServerNext, Dispatch, Stop, Promise!Next

(* For any number of clients and workers: no more are served at a time     *)
(* than there are workers, in order, and none is admitted after stop().    *)
THEOREM Implements == Spec => Promise!Spec
<1>1. Consistent /\ Consistent' /\ [Next]_vars => [Promise!Next]_(Promise!vars)
  <2> SUFFICES ASSUME Consistent, Consistent', [Next]_vars
               PROVE  [Promise!Next]_(Promise!vars)
    OBVIOUS
  <2>1. CASE UNCHANGED vars
    <3>1. UNCHANGED <<conn, queue, shut>>
      BY <2>1 DEF vars, server, listening
    <3> QED
      BY <3>1, SameView
  <2> QED
    BY <2>1, HandleImplements, ServingImplements DEF Next, Serving
<1> QED
  BY <1>1, InitImplements, InitConsistent, NextConsistent, PTL DEF Spec, Promise!Spec
=================================================================================
