-------------------------------- MODULE WinTcp --------------------------------
(***************************************************************************)
(* TCP forwarding of the Windows mode, src/windows_vpn.py WindowsVPN: the  *)
(* packet loop on the main thread, one relay thread per upstream, the      *)
(* thread that drops old connections, and _cleanup(), which the Ctrl+C     *)
(* handler runs on a thread of its own.  They share the table of           *)
(* connections and its lock, which is not reentrant.                       *)
(*                                                                         *)
(* A block under _conns_lock is one step that needs the lock free, except  *)
(* for the relay's last one, which calls _close_conn() and so asks for the *)
(* lock it holds.  Payloads are not modelled, only that there is one.      *)
(***************************************************************************)
EXTENDS Integers, FiniteSets

CONSTANTS
    Keys,             \* the (src_ip, sp, dst_ip, dp) tuples
    MaxConns          \* bound on the TcpConn objects made

ASSUME KeysAssumption  == IsFiniteSet(Keys) /\ Keys # {}
ASSUME ConnsAssumption == MaxConns \in Nat \ {0}

Conns  == 1 .. MaxConns     \* in the order in which they are made
None   == 0
Kinds  == {"RST", "SYN", "FIN", "data", "ack"}

VARIABLES
    table,      \* self._conns: the connection under each key, or None
    made,       \* the number of connections made
    keyOf,      \* conn.key
    closing,    \* conn.closing
    up,         \* conn.up: "none", "open" or "closed"
    relay,      \* where the relay thread started for each connection is
    serves,     \* the connection a relay looked up when it started
    lock,       \* the relay that holds _conns_lock across steps, or None
    main,       \* where the packet loop is
    packet,     \* key, kind and connection of the packet being handled
    aged,       \* connections 1 .. aged are more than 300 s old
    stale,      \* the thread of _stale_check is in its loop
    running,    \* self._running
    done,       \* self._cleanup_done
    clean,      \* how far _cleanup() has got
    routed      \* the default route leads into the tunnel

conns  == <<table, made, keyOf, closing, up>>
relays == <<relay, serves, lock>>
loop   == <<main, packet>>
ages   == <<aged, stale>>
stops  == <<running, done, clean, routed>>
vars   == <<conns, relays, loop, ages, stops>>

-----------------------------------------------------------------------------
LockFree == lock = None

RelayAt(o, l) == relay' = [relay EXCEPT ![o] = l]

(* _close_conn() up to its lock: the flag is set and the upstream closed. *)
Shut(c) ==
    /\ closing' = [closing EXCEPT ![c] = TRUE]
    /\ up' = [up EXCEPT ![c] = IF @ = "open" THEN "closed" ELSE @]

AnyKey   == CHOOSE k \in Keys : TRUE
NoPacket == [key |-> AnyKey, kind |-> "ack", conn |-> None]
Idle     == main' = "idle" /\ packet' = NoPacket

(* run() has set up the adapter and the routes and enters its loop. *)
Init ==
    /\ table = [k \in Keys |-> None] /\ made = 0
    /\ keyOf = [o \in Conns |-> AnyKey]
    /\ closing = [o \in Conns |-> FALSE]
    /\ up = [o \in Conns |-> "none"]
    /\ relay = [o \in Conns |-> "none"] /\ serves = [o \in Conns |-> None] /\ lock = None
    /\ main = "idle" /\ packet = NoPacket
    /\ aged = 0 /\ stale = TRUE
    /\ running = TRUE /\ done = FALSE /\ clean = "none" /\ routed = TRUE

-----------------------------------------------------------------------------
(* The packet loop and _handle_tcp()                                       *)

Receive(k, kind) ==
    /\ main = "idle" /\ running
    /\ kind = "SYN" => made < MaxConns
    /\ packet' = [key |-> k, kind |-> kind, conn |-> None]
    /\ main' = "lookup"
    /\ UNCHANGED <<conns, relays, ages, stops>>

(* A faulty handler that closes without looking whether there is one. *)
LookupUnchecked ==
    /\ main = "lookup" /\ LockFree /\ table[packet.key] = None
    /\ main' = IF packet.kind = "SYN" THEN "create" ELSE "closing"
    /\ UNCHANGED <<conns, relays, packet, ages, stops>>

(* A SYN makes a connection; nothing else can be done without one. *)
LookupMiss ==
    /\ main = "lookup" /\ LockFree /\ table[packet.key] = None
    /\ IF packet.kind = "SYN" THEN main' = "create" /\ UNCHANGED packet ELSE Idle
    /\ UNCHANGED <<conns, relays, ages, stops>>

(* A faulty handler that lets a SYN replace the connection unclosed. *)
LookupOverwrites ==
    /\ main = "lookup" /\ LockFree /\ table[packet.key] # None
    /\ main' = CASE packet.kind = "SYN" -> "create"
                 [] packet.kind = "RST" -> "closing"
                 [] OTHER -> "check"
    /\ packet' = [packet EXCEPT !.conn = table[packet.key]]
    /\ UNCHANGED <<conns, relays, ages, stops>>

(* RST and SYN close the connection there is. *)
LookupHit ==
    /\ main = "lookup" /\ LockFree /\ table[packet.key] # None
    /\ main' = IF packet.kind \in {"RST", "SYN"} THEN "closing" ELSE "check"
    /\ packet' = [packet EXCEPT !.conn = table[packet.key]]
    /\ UNCHANGED <<conns, relays, ages, stops>>

(* conn.closing is read without the lock; then FIN, or a payload (or PSH). *)
Check ==
    /\ main = "check"
    /\ IF closing[packet.conn] \/ packet.kind = "ack" THEN Idle
       ELSE IF packet.kind = "FIN" THEN main' = "closing" /\ UNCHANGED packet
       ELSE IF up[packet.conn] = "none" THEN main' = "connect" /\ UNCHANGED packet
       ELSE Idle
    /\ UNCHANGED <<conns, relays, ages, stops>>

Close ==
    /\ main = "closing"
    /\ Shut(packet.conn)
    /\ main' = "popping"
    /\ UNCHANGED <<table, made, keyOf, relays, packet, ages, stops>>

(* A faulty _close_conn() that leaves the entry. *)
PopForgotten ==
    /\ main = "popping" /\ LockFree
    /\ IF packet.kind = "SYN" THEN main' = "create" /\ UNCHANGED packet ELSE Idle
    /\ UNCHANGED <<conns, relays, ages, stops>>

Pop ==
    /\ main = "popping" /\ LockFree
    /\ table' = [table EXCEPT ![packet.key] = None]
    /\ IF packet.kind = "SYN" THEN main' = "create" /\ UNCHANGED packet ELSE Idle
    /\ UNCHANGED <<made, keyOf, closing, up, relays, ages, stops>>

Create ==
    /\ main = "create" /\ LockFree
    /\ made' = made + 1
    /\ keyOf' = [keyOf EXCEPT ![made'] = packet.key]
    /\ table' = [table EXCEPT ![packet.key] = made']
    /\ Idle
    /\ UNCHANGED <<closing, up, relays, ages, stops>>

(* The loop waits for the connect, up to its timeout of 30 s.  A failure   *)
(* or an empty pool leaves the connection as it is.                        *)
ConnectOk ==
    /\ main = "connect"
    /\ up' = [up EXCEPT ![packet.conn] = "open"]
    /\ RelayAt(packet.conn, "starting")
    /\ Idle
    /\ UNCHANGED <<table, made, keyOf, closing, serves, lock, ages, stops>>

ConnectFails ==
    /\ main = "connect"
    /\ Idle
    /\ UNCHANGED <<conns, relays, ages, stops>>

-----------------------------------------------------------------------------
(* _up_relay()                                                             *)

RelayStart(o) ==
    /\ relay[o] = "starting" /\ LockFree
    /\ LET c == table[keyOf[o]]
       IN  IF c # None /\ up[c] # "none"
           THEN RelayAt(o, "loop") /\ serves' = [serves EXCEPT ![o] = c]
           ELSE RelayAt(o, "ended") /\ UNCHANGED serves
    /\ UNCHANGED <<conns, lock, loop, ages, stops>>

(* The loop's condition, and the one after the loop. *)
RelayLoop(o) ==
    /\ relay[o] = "loop"
    /\ RelayAt(o, IF running /\ ~closing[serves[o]] THEN "recv" ELSE "left")
    /\ UNCHANGED <<conns, serves, lock, loop, ages, stops>>

RelayData(o) ==
    /\ relay[o] = "recv" /\ up[serves[o]] = "open"
    /\ RelayAt(o, "data")
    /\ UNCHANGED <<conns, serves, lock, loop, ages, stops>>

(* A faulty relay whose recv has no timeout and is not woken by close(). *)
RelayWaitsForPeer(o) ==
    /\ relay[o] = "recv" /\ up[serves[o]] = "open"
    /\ RelayAt(o, "left")
    /\ UNCHANGED <<conns, serves, lock, loop, ages, stops>>

(* The upstream closes, fails, is silent for 30 s, or was closed here. *)
RelayEof(o) ==
    /\ relay[o] = "recv"
    /\ RelayAt(o, "left")
    /\ UNCHANGED <<conns, serves, lock, loop, ages, stops>>

(* The segment is numbered and addressed as the connection now under the   *)
(* key has it.                                                             *)
RelaySegment(o) ==
    /\ relay[o] = "data" /\ LockFree
    /\ RelayAt(o, IF table[keyOf[o]] # None THEN "loop" ELSE "left")
    /\ UNCHANGED <<conns, serves, lock, loop, ages, stops>>

RelayLeft(o) ==
    /\ relay[o] = "left"
    /\ RelayAt(o, IF closing[serves[o]] THEN "closeUp" ELSE "fin")
    /\ UNCHANGED <<conns, serves, lock, loop, ages, stops>>

(* The connection now under the relay's key, unless it is being closed. *)
FinTarget(o) == {c \in Conns : table[keyOf[o]] = c /\ ~closing[c]}

(* FIN to the client, then _close_conn(), whose own with-block waits for   *)
(* the lock this thread holds: no step follows.                            *)
RelayFin(o) ==
    /\ relay[o] = "fin" /\ LockFree
    /\ \E c \in FinTarget(o) : Shut(c)
    /\ lock' = o
    /\ RelayAt(o, "stuck")
    /\ UNCHANGED <<table, made, keyOf, serves, loop, ages, stops>>

RelayNoFin(o) ==
    /\ relay[o] = "fin" /\ LockFree /\ FinTarget(o) = {}
    /\ RelayAt(o, "closeUp")
    /\ UNCHANGED <<conns, serves, lock, loop, ages, stops>>

RelayCloseUp(o) ==
    /\ relay[o] = "closeUp"
    /\ up' = [up EXCEPT ![serves[o]] = "closed"]
    /\ RelayAt(o, "ended")
    /\ UNCHANGED <<table, made, keyOf, closing, serves, lock, loop, ages, stops>>

-----------------------------------------------------------------------------
(* _stale_check(): what it drops is neither flagged nor closed. *)

StaleCheck ==
    /\ stale /\ LockFree
    /\ aged' \in aged .. made
    /\ table' = [k \in Keys |-> IF table[k] <= aged' THEN None ELSE table[k]]
    /\ stale' = running
    /\ UNCHANGED <<made, keyOf, closing, up, relays, loop, stops>>

-----------------------------------------------------------------------------
(* _cleanup(), run by the Ctrl+C handler or when the loop has ended.  Its  *)
(* flag is tested and set with no call between.                            *)

StartCleanup == running' = FALSE /\ done' = TRUE /\ clean' = "routes" /\ UNCHANGED routed

CtrlC ==
    /\ ~done
    /\ StartCleanup
    /\ UNCHANGED <<conns, relays, loop, ages>>

(* A faulty cleanup that closes the connections before it gives the        *)
(* default route back.                                                     *)
RoutesAfterConns ==
    /\ clean = "routes" /\ LockFree
    /\ routed' = FALSE /\ clean' = "conns"
    /\ UNCHANGED <<conns, relays, loop, ages, running, done>>

RemoveRoutes ==
    /\ clean = "routes"
    /\ routed' = FALSE /\ clean' = "conns"
    /\ UNCHANGED <<conns, relays, loop, ages, running, done>>

CloseConns ==
    /\ clean = "conns" /\ LockFree
    /\ up' = [o \in Conns |-> IF up[o] = "open" /\ table[keyOf[o]] = o THEN "closed" ELSE up[o]]
    /\ table' = [k \in Keys |-> None]
    /\ clean' = "done"
    /\ UNCHANGED <<made, keyOf, closing, relays, loop, ages, running, done, routed>>

(* The loop ends because the flag is down or the read raised. *)
LeaveLoop ==
    /\ main = "idle"
    /\ IF done THEN main' = "exited" /\ UNCHANGED stops
               ELSE main' = "cleaning" /\ StartCleanup
    /\ UNCHANGED <<conns, relays, packet, ages>>

Exit ==
    /\ main = "cleaning" /\ clean = "done"
    /\ main' = "exited"
    /\ UNCHANGED <<conns, relays, packet, ages, stops>>

-----------------------------------------------------------------------------
HandleTcp ==
    \/ LookupMiss \/ LookupHit \/ Check \/ Close \/ Pop \/ Create
    \/ ConnectOk \/ ConnectFails

UpRelay(o) ==
    \/ RelayStart(o) \/ RelayLoop(o) \/ RelayData(o) \/ RelayEof(o) \/ RelaySegment(o)
    \/ RelayLeft(o) \/ RelayFin(o) \/ RelayNoFin(o) \/ RelayCloseUp(o)

Cleanup == RemoveRoutes \/ CloseConns

Next ==
    \/ \E k \in Keys, kind \in Kinds : Receive(k, kind)
    \/ HandleTcp \/ LeaveLoop \/ Exit
    \/ \E o \in Conns : UpRelay(o)
    \/ StaleCheck
    \/ CtrlC \/ Cleanup

Spec == Init /\ [][Next]_vars

(* Threads that hold what they need go on: the connect and the relay's     *)
(* recv time out after 30 s, and the loop polls.  Packets, the stale check *)
(* and Ctrl+C are not owed.                                                *)
Fairness ==
    /\ WF_vars(HandleTcp \/ Exit) /\ WF_vars(~running /\ LeaveLoop)
    /\ \A o \in Conns : WF_vars(UpRelay(o))
    /\ WF_vars(Cleanup)

LiveSpec == Spec /\ Fairness

-----------------------------------------------------------------------------
(* Properties *)

(* Every variable holds a value of its kind, and a thread that uses a      *)
(* connection has one: the packet loop between lookup and close, a relay   *)
(* from its start on.                                                      *)
TypeOK ==
    /\ table \in [Keys -> {None} \cup Conns] /\ made \in 0 .. MaxConns
    /\ keyOf \in [Conns -> Keys]
    /\ closing \in [Conns -> BOOLEAN] /\ up \in [Conns -> {"none", "open", "closed"}]
    /\ relay \in [Conns -> {"none", "starting", "loop", "recv", "data", "left", "fin",
                            "stuck", "closeUp", "ended"}]
    /\ serves \in [Conns -> {None} \cup Conns] /\ lock \in {None} \cup Conns
    /\ main \in {"idle", "lookup", "check", "closing", "popping", "create", "connect",
                 "cleaning", "exited"}
    /\ packet \in [key : Keys, kind : Kinds, conn : {None} \cup Conns]
    /\ aged \in 0 .. made /\ stale \in BOOLEAN
    /\ running \in BOOLEAN /\ done \in BOOLEAN /\ routed \in BOOLEAN
    /\ clean \in {"none", "routes", "conns", "done"}
    /\ main \in {"check", "closing", "popping", "connect"} => packet.conn # None
    /\ \A o \in Conns : relay[o] \notin {"none", "starting", "ended"} => serves[o] # None

(* A connection that has been closed does not stay in the table for later  *)
(* packets to find: whoever closed it is about to take it out, unless it   *)
(* is the relay that waits for its own lock.                               *)
ClosedLeavesTable ==
    \A k \in Keys : table[k] # None /\ closing[table[k]] =>
        \/ main = "popping" /\ packet.key = k
        \/ \E o \in Conns : lock = o /\ keyOf[o] = k

(* An upstream's data is put into another connection of the same key only  *)
(* when the connection it belongs to has been closed or has been dropped   *)
(* for its age or by the cleanup (lines 378-385 look the key up again).    *)
SegmentOfItsOwn ==
    [][\A o \in Conns :
        relay[o] = "data" /\ relay'[o] = "loop" /\ table[keyOf[o]] # serves[o] =>
            closing[serves[o]] \/ serves[o] <= aged \/ ~running]_vars

(* The relay of a closed connection comes to its end; only the lock can    *)
(* keep it.                                                                *)
RelayFollowsConnection ==
    \A o \in Conns :
        relay[o] \notin {"none", "starting"} /\ serves[o] # None /\ closing[serves[o]]
            ~> relay[o] = "ended" \/ lock # None

(* Once the VPN is told to stop, the machine gets its default route back,  *)
(* also when a relay keeps the lock _cleanup() asks for later (516-518).   *)
RouteRestored == ~running ~> ~routed

-----------------------------------------------------------------------------
(* What the program says, which the run named after it refutes             *)

(* vpn.py:242, "Press Ctrl+C to stop": after Ctrl+C the packet loop        *)
(* returns, so that run_vpn() can stop the pool and save the settings.     *)
CtrlCStops == ~running ~> main = "exited"
==============================================================================
