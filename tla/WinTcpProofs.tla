------------------------------ MODULE WinTcpProofs ------------------------------
(* The connections of Windows mode, for any keys and any number of            *)
(* connections: variables keep their types, what is closed leaves the table,  *)
(* and no upstream's data goes astray without a reason.                       *)
EXTENDS WinTcp, TLAPS

-----------------------------------------------------------------------------
(* The inductive invariant.                                                *)

(* A SYN on its way to a connection finds room for it.                     *)
SynRoom ==
    /\ packet.kind = "SYN" /\ main \in {"lookup", "closing", "popping", "create"}
           => made < MaxConns
    /\ main = "create" => packet.kind = "SYN"

(* The table holds connections that were made, each under its own key.     *)
TableKeyed ==
    \A k \in Keys : table[k] # None => table[k] <= made /\ keyOf[table[k]] = k

(* The packet loop alone makes connections, so the entry under the key it  *)
(* is working on can vanish but not change.                                *)
PacketKeyed ==
    /\ main \in {"check", "closing", "popping", "connect"} =>
           /\ packet.conn # None /\ packet.conn <= made
           /\ keyOf[packet.conn] = packet.key
           /\ table[packet.key] \in {None, packet.conn}
    /\ main = "popping" => closing[packet.conn]
    /\ main = "create" => table[packet.key] = None

(* What has not been made has not been closed, and has no relay.           *)
Unmade ==
    \A c \in Conns : c > made => ~closing[c] /\ relay[c] = "none" /\ serves[c] = None

(* A relay serves a connection of its own connection's key.                *)
ServesKeyed ==
    \A o \in Conns : serves[o] # None =>
        serves[o] <= made /\ keyOf[serves[o]] = keyOf[o]

(* Every connection is in the table unless something has taken it out.     *)
Accounted ==
    \A c \in Conns : c <= made =>
        table[keyOf[c]] = c \/ closing[c] \/ c <= aged \/ ~running

CleaningIsDown == clean # "none" => ~running

IInv ==
    /\ TypeOK /\ SynRoom /\ TableKeyed /\ PacketKeyed /\ Unmade /\ ServesKeyed
    /\ Accounted /\ CleaningIsDown /\ ClosedLeavesTable

-----------------------------------------------------------------------------
LEMMA ConnsAreNumbers == /\ MaxConns \in Nat \ {0} /\ None = 0 /\ None \notin Conns
                         /\ \A c \in Conns : c \in Nat \ {0}
BY ConnsAssumption DEF None, Conns

LEMMA InitInvariant == Init => IInv
<1> SUFFICES ASSUME Init
             PROVE  IInv
  OBVIOUS
<1>1. AnyKey \in Keys
  BY KeysAssumption DEF AnyKey
<1>2. TypeOK
  <2>1. 0 \in 0 .. MaxConns /\ 0 \in 0 .. 0 /\ None \in {None} \cup Conns
    BY ConnsAreNumbers
  <2>2. NoPacket \in [key : Keys, kind : Kinds, conn : {None} \cup Conns]
    BY <1>1 DEF NoPacket, Kinds
  <2> QED
    BY <1>1, <2>1, <2>2 DEF Init, TypeOK
<1>3. SynRoom /\ TableKeyed /\ PacketKeyed /\ Unmade /\ ServesKeyed
  BY ConnsAreNumbers DEF Init, SynRoom, TableKeyed, PacketKeyed, Unmade, ServesKeyed
<1>4. Accounted /\ CleaningIsDown /\ ClosedLeavesTable
  BY ConnsAreNumbers DEF Init, Accounted, CleaningIsDown, ClosedLeavesTable
<1> QED
  BY <1>2, <1>3, <1>4 DEF IInv

(* Every variable keeps its type.                                          *)
LEMMA NextTypeOK ==
    ASSUME IInv, Next
    PROVE  TypeOK'
<1> USE ConnsAreNumbers DEF IInv
<1>0. AnyKey \in Keys
  BY KeysAssumption DEF AnyKey
<1>1. NoPacket \in [key : Keys, kind : Kinds, conn : {None} \cup Conns]
  BY <1>0 DEF NoPacket, Kinds
<1>2. ASSUME NEW k \in Keys, NEW kind \in Kinds, Receive(k, kind)
      PROVE  TypeOK'
  BY <1>2 DEF Receive, TypeOK, conns, relays, ages, stops
<1>3. CASE LookupMiss
  BY <1>1, <1>3 DEF LookupMiss, Idle, TypeOK, conns, relays, ages, stops
<1>4. CASE LookupHit
  BY <1>4 DEF LookupHit, TypeOK, conns, relays, ages, stops
<1>5. CASE Check
  BY <1>1, <1>5 DEF Check, Idle, TypeOK, conns, relays, ages, stops
<1>6. CASE Close
  BY <1>6 DEF Close, Shut, TypeOK, relays, ages, stops
<1>7. CASE Pop
  BY <1>1, <1>7 DEF Pop, Idle, TypeOK, relays, ages, stops
<1>8. CASE Create
  <2>1. made' = made + 1 /\ made' \in Conns /\ aged \in 0 .. made'
    BY <1>8 DEF Create, SynRoom, TypeOK, Conns
  <2>2. keyOf' \in [Conns -> Keys] /\ table' \in [Keys -> {None} \cup Conns]
    BY <1>8, <2>1 DEF Create, TypeOK
  <2> QED
    BY <1>1, <1>8, <2>1, <2>2 DEF Create, Idle, TypeOK, Conns, relays, ages, stops
<1>9. CASE ConnectOk \/ ConnectFails
  BY <1>1, <1>9 DEF ConnectOk, ConnectFails, Idle, RelayAt, TypeOK, conns, relays, ages, stops
<1>10. ASSUME NEW o \in Conns, UpRelay(o)
       PROVE  TypeOK'
  <2> USE DEF RelayAt, conns, loop, ages, stops
  <2>1. CASE RelayStart(o)
    BY <1>10, <2>1 DEF RelayStart, TypeOK
  <2>2. CASE RelayLoop(o) \/ RelayData(o) \/ RelayEof(o) \/ RelaySegment(o) \/ RelayLeft(o)
             \/ RelayNoFin(o)
    <3>1. PICK l \in {"loop", "recv", "data", "left", "fin", "closeUp"} :
              relay' = [relay EXCEPT ![o] = l] /\ relay[o] \in {"loop", "recv", "data", "left", "fin"}
      BY <2>2 DEF RelayLoop, RelayData, RelayEof, RelaySegment, RelayLeft, RelayNoFin
    <3>2. UNCHANGED <<table, made, keyOf, closing, up, serves, lock, main, packet, aged, stale,
                      running, done, clean, routed>>
      BY <2>2 DEF RelayLoop, RelayData, RelayEof, RelaySegment, RelayLeft, RelayNoFin
    <3> QED
      BY <3>1, <3>2 DEF TypeOK
  <2>3. CASE RelayFin(o)
    <3>1. PICK c \in Conns : Shut(c)
      BY <2>3 DEF RelayFin, FinTarget
    <3>2. closing' \in [Conns -> BOOLEAN] /\ up' \in [Conns -> {"none", "open", "closed"}]
      BY <3>1 DEF Shut, TypeOK
    <3>3. /\ relay[o] = "fin" /\ relay' = [relay EXCEPT ![o] = "stuck"] /\ lock' = o
          /\ UNCHANGED <<table, made, keyOf, serves, main, packet, aged, stale,
                         running, done, clean, routed>>
      BY <2>3 DEF RelayFin
    <3> QED
      BY <3>2, <3>3 DEF TypeOK
  <2>4. CASE RelayCloseUp(o)
    BY <1>10, <2>4 DEF RelayCloseUp, TypeOK
  <2> QED
    BY <1>10, <2>1, <2>2, <2>3, <2>4 DEF UpRelay
<1>11. CASE StaleCheck
  BY <1>11 DEF StaleCheck, TypeOK, relays, loop, stops
<1>12. CASE CtrlC \/ LeaveLoop \/ Exit \/ RemoveRoutes
  BY <1>12 DEF CtrlC, LeaveLoop, Exit, RemoveRoutes, StartCleanup, TypeOK,
               conns, relays, loop, ages, stops
<1>13. CASE CloseConns
  BY <1>13 DEF CloseConns, TypeOK, relays, loop, ages
<1> QED
  BY <1>2, <1>3, <1>4, <1>5, <1>6, <1>7, <1>8, <1>9, <1>10, <1>11, <1>12, <1>13
     DEF Next, HandleTcp, Cleanup

(* A SYN keeps its room: only Create makes a connection, and ends its turn. *)
LEMMA NextSynRoom ==
    ASSUME IInv, Next
    PROVE  SynRoom'
<1> USE ConnsAreNumbers DEF IInv, SynRoom
<1>0. NoPacket.kind = "ack"
  BY DEF NoPacket
<1>1. ASSUME NEW k \in Keys, NEW kind \in Kinds, Receive(k, kind)
      PROVE  SynRoom'
  BY <1>1 DEF Receive, conns
<1>2. CASE LookupMiss \/ LookupHit \/ Check \/ Close \/ Pop
  BY <1>2 DEF LookupMiss, LookupHit, Check, Close, Pop, Idle, conns, TypeOK
<1>3. CASE Create \/ ConnectOk \/ ConnectFails
  BY <1>0, <1>3 DEF Create, ConnectOk, ConnectFails, Idle
<1>4. CASE LeaveLoop \/ Exit
  BY <1>4 DEF LeaveLoop, Exit, conns
<1>5. ASSUME NEW o \in Conns, UpRelay(o)
      PROVE  SynRoom'
  BY <1>5 DEF UpRelay, RelayStart, RelayLoop, RelayData, RelayEof, RelaySegment, RelayLeft,
              RelayFin, RelayNoFin, RelayCloseUp, conns, loop
<1>6. CASE StaleCheck \/ CtrlC \/ RemoveRoutes \/ CloseConns
  BY <1>6 DEF StaleCheck, CtrlC, RemoveRoutes, CloseConns, conns, loop
<1> QED
  BY <1>1, <1>2, <1>3, <1>4, <1>5, <1>6 DEF Next, HandleTcp, Cleanup

(* What the steps of a relay do: none touches the table or the loop.       *)
LEMMA RelayLeavesTable ==
    ASSUME NEW o \in Conns, UpRelay(o)
    PROVE  UNCHANGED <<table, made, keyOf, main, packet, aged, stale, running, done, clean, routed>>
BY DEF UpRelay, RelayStart, RelayLoop, RelayData, RelayEof, RelaySegment, RelayLeft,
       RelayFin, RelayNoFin, RelayCloseUp, conns, loop, ages, stops

(* ... and only its last one closes a connection, one that is in the table. *)
LEMMA RelayCloses ==
    ASSUME IInv, NEW o \in Conns, UpRelay(o)
    PROVE  \/ closing' = closing /\ lock' = lock
           \/ \E c \in Conns : /\ closing' = [closing EXCEPT ![c] = TRUE]
                               /\ table[keyOf[o]] = c /\ lock = None /\ lock' = o
<1>1. CASE RelayFin(o)
  BY <1>1 DEF RelayFin, FinTarget, Shut, LockFree
<1>2. CASE ~RelayFin(o)
  BY <1>2 DEF UpRelay, RelayStart, RelayLoop, RelayData, RelayEof, RelaySegment, RelayLeft,
              RelayNoFin, RelayCloseUp, conns
<1> QED
  BY <1>1, <1>2

(* A relay keeps the connection it looked up first.                        *)
LEMMA RelayServes ==
    ASSUME IInv, NEW o \in Conns, UpRelay(o)
    PROVE  /\ relay[o] # "none"
           /\ \A d \in Conns : d # o => relay'[d] = relay[d] /\ serves'[d] = serves[d]
           /\ serves'[o] \in {serves[o], table[keyOf[o]]}
<1> USE DEF IInv, TypeOK, RelayAt, conns
<1>1. CASE RelayStart(o)
  BY <1>1 DEF RelayStart
<1>2. CASE ~RelayStart(o)
  BY <1>2 DEF UpRelay, RelayLoop, RelayData, RelayEof, RelaySegment, RelayLeft,
              RelayFin, RelayNoFin, RelayCloseUp
<1> QED
  BY <1>1, <1>2

(* The steps of the loop, the stale check and the cleanup that leave the   *)
(* relays and the flags of the connections alone.                          *)
LEMMA OthersLeaveRelays ==
    ASSUME \/ \E k \in Keys, kind \in Kinds : Receive(k, kind)
           \/ LookupMiss \/ LookupHit \/ Check \/ Pop \/ Create \/ ConnectFails
           \/ StaleCheck \/ CtrlC \/ LeaveLoop \/ Exit \/ RemoveRoutes \/ CloseConns
    PROVE  UNCHANGED <<closing, relay, serves, lock>>
BY DEF Receive, LookupMiss, LookupHit, Check, Pop, Create, ConnectFails, StaleCheck, CtrlC,
       LeaveLoop, Exit, RemoveRoutes, CloseConns, conns, relays

-----------------------------------------------------------------------------
LEMMA NextTableKeyed ==
    ASSUME IInv, Next
    PROVE  TableKeyed'
<1> USE ConnsAreNumbers DEF IInv, TableKeyed
<1>1. CASE UNCHANGED <<table, made, keyOf>>
  BY <1>1
<1>2. CASE Create
  <2>1. made' = made + 1 /\ made' \in Conns
    BY <1>2 DEF Create, SynRoom, TypeOK, Conns
  <2>2. \A k \in Keys : table'[k] = IF k = packet.key THEN made' ELSE table[k]
    BY <1>2 DEF Create, TypeOK
  <2>3. \A c \in Conns : keyOf'[c] = IF c = made' THEN packet.key ELSE keyOf[c]
    BY <1>2 DEF Create, TypeOK
  <2>4. made \in Nat /\ \A k \in Keys : table[k] \in {None} \cup Conns
    BY DEF TypeOK
  <2>5. \A k \in Keys : table[k] # None =>
            /\ table[k] \in Conns /\ table[k] # made' /\ table[k] <= made'
            /\ keyOf[table[k]] = k
    <3> SUFFICES ASSUME NEW k \in Keys, table[k] # None
                 PROVE  /\ table[k] \in Conns /\ table[k] # made' /\ table[k] <= made'
                        /\ keyOf[table[k]] = k
      OBVIOUS
    <3>1. table[k] \in Conns /\ table[k] \in Nat /\ table[k] <= made /\ keyOf[table[k]] = k
      BY <2>4
    <3> QED
      BY <2>1, <2>4, <3>1
  <2>6. made' # None /\ made' <= made' /\ keyOf'[made'] = packet.key
    BY <2>1, <2>3, <2>4
  <2> QED
    <3> SUFFICES ASSUME NEW k \in Keys, table'[k] # None
                 PROVE  table'[k] <= made' /\ keyOf'[table'[k]] = k
      OBVIOUS
    <3>1. CASE k = packet.key
      BY <2>2, <2>6, <3>1
    <3>2. CASE k # packet.key
      BY <2>2, <2>3, <2>5, <3>2
    <3> QED
      BY <3>1, <3>2
<1>3. CASE /\ made' = made /\ keyOf' = keyOf
           /\ \A k \in Keys : table'[k] \in {None, table[k]}
  BY <1>3
<1>4. CASE Pop \/ StaleCheck \/ CloseConns
  BY <1>3, <1>4 DEF Pop, StaleCheck, CloseConns, TypeOK
<1>5. ASSUME NEW o \in Conns, UpRelay(o)
      PROVE  TableKeyed'
  BY <1>1, <1>5, RelayLeavesTable
<1> QED
  BY <1>1, <1>2, <1>4, <1>5
     DEF Next, HandleTcp, Cleanup, Receive, LookupMiss, LookupHit, Check, Close, ConnectOk,
         ConnectFails, LeaveLoop, Exit, CtrlC, RemoveRoutes, Shut, conns

LEMMA NextPacketKeyed ==
    ASSUME IInv, Next
    PROVE  PacketKeyed'
<1> USE ConnsAreNumbers DEF IInv, PacketKeyed
<1>1. ASSUME NEW k \in Keys, NEW kind \in Kinds, Receive(k, kind)
      PROVE  PacketKeyed'
  BY <1>1 DEF Receive
<1>2. CASE LookupMiss
  BY <1>2 DEF LookupMiss, Idle, conns
<1>3. CASE LookupHit
  BY <1>3 DEF LookupHit, conns, TypeOK, TableKeyed
<1>4. CASE Check
  BY <1>4 DEF Check, Idle, conns
<1>5. CASE Close
  <2>1. closing'[packet.conn]
    BY <1>5 DEF Close, Shut, TypeOK
  <2> QED
    BY <1>5, <2>1 DEF Close
<1>6. CASE Pop
  <2>1. table'[packet.key] = None
    BY <1>6 DEF Pop, TypeOK
  <2> QED
    BY <1>6, <2>1 DEF Pop, Idle
<1>7. CASE Create \/ ConnectOk \/ ConnectFails
  BY <1>7 DEF Create, ConnectOk, ConnectFails, Idle
<1>8. CASE LeaveLoop \/ Exit
  BY <1>8 DEF LeaveLoop, Exit
<1>9. CASE /\ UNCHANGED <<main, packet, made, keyOf>>
           /\ \A k \in Keys : table'[k] \in {None, table[k]}
           /\ \A c \in Conns : closing[c] => closing'[c]
  BY <1>9 DEF TypeOK
<1>10. ASSUME NEW o \in Conns, UpRelay(o)
       PROVE  PacketKeyed'
  <2>1. \A c \in Conns : closing[c] => closing'[c]
    BY <1>10, RelayCloses DEF TypeOK
  <2> QED
    BY <1>9, <1>10, <2>1, RelayLeavesTable
<1>11. CASE StaleCheck \/ CtrlC \/ RemoveRoutes \/ CloseConns
  BY <1>9, <1>11 DEF StaleCheck, CtrlC, RemoveRoutes, CloseConns, conns, loop, TypeOK
<1> QED
  BY <1>1, <1>2, <1>3, <1>4, <1>5, <1>6, <1>7, <1>8, <1>10, <1>11 DEF Next, HandleTcp, Cleanup

LEMMA NextUnmade ==
    ASSUME IInv, Next
    PROVE  Unmade'
<1> USE ConnsAreNumbers DEF IInv, Unmade
<1>0. made \in Nat
  BY DEF TypeOK
<1>1. CASE made' \in {made, made + 1} /\ UNCHANGED <<closing, relay, serves>>
  BY <1>0, <1>1
<1>2. CASE Close
  <2>1. made' = made /\ relay' = relay /\ serves' = serves /\ packet.conn <= made
    BY <1>2 DEF Close, PacketKeyed, relays
  <2>2. \A c \in Conns : c # packet.conn => closing'[c] = closing[c]
    BY <1>2 DEF Close, Shut, TypeOK
  <2>3. packet.conn \in Nat
    BY DEF TypeOK
  <2> QED
    BY <1>0, <2>1, <2>2, <2>3
<1>3. CASE ConnectOk
  <2>1. made' = made /\ closing' = closing /\ serves' = serves /\ packet.conn <= made
    BY <1>3 DEF ConnectOk, PacketKeyed
  <2>2. \A c \in Conns : c # packet.conn => relay'[c] = relay[c]
    BY <1>3 DEF ConnectOk, RelayAt, TypeOK
  <2>3. packet.conn \in Nat
    BY DEF TypeOK
  <2> QED
    BY <1>0, <2>1, <2>2, <2>3
<1>4. ASSUME NEW o \in Conns, UpRelay(o)
      PROVE  Unmade'
  <2>1. made' = made /\ ~(o > made) /\ \A d \in Conns : d # o => relay'[d] = relay[d] /\ serves'[d] = serves[d]
    BY <1>4, RelayServes, RelayLeavesTable
  <2>2. \A c \in Conns : c > made => closing'[c] = closing[c]
    <3>1. CASE closing' = closing
      BY <3>1
    <3>2. ASSUME NEW c \in Conns, closing' = [closing EXCEPT ![c] = TRUE], table[keyOf[o]] = c
          PROVE  \A d \in Conns : d > made => closing'[d] = closing[d]
      <4>1. keyOf[o] \in Keys
        BY DEF TypeOK
      <4>2. c <= made
        BY <3>2, <4>1 DEF TableKeyed
      <4>3. \A d \in Conns : d > made => d # c
        BY <1>0, <4>2
      <4>4. \A d \in Conns : d # c => closing'[d] = closing[d]
        BY <3>2 DEF TypeOK
      <4> QED
        BY <4>3, <4>4
    <3> QED
      BY <1>4, <3>1, <3>2, RelayCloses
  <2> QED
    BY <2>1, <2>2
<1>5. CASE Create
  BY <1>1, <1>5 DEF Create, relays
<1>6. CASE \/ \E k \in Keys, kind \in Kinds : Receive(k, kind)
           \/ LookupMiss \/ LookupHit \/ Check \/ Pop \/ ConnectFails
           \/ StaleCheck \/ CtrlC \/ LeaveLoop \/ Exit \/ RemoveRoutes \/ CloseConns
  <2>1. made' = made
    BY <1>6 DEF Receive, LookupMiss, LookupHit, Check, Pop, ConnectFails, StaleCheck, CtrlC,
                LeaveLoop, Exit, RemoveRoutes, CloseConns, conns
  <2> QED
    BY <1>1, <1>6, <2>1, OthersLeaveRelays
<1> QED
  BY <1>2, <1>3, <1>4, <1>5, <1>6 DEF Next, HandleTcp, Cleanup

LEMMA NextServesKeyed ==
    ASSUME IInv, Next
    PROVE  ServesKeyed'
<1> USE ConnsAreNumbers DEF IInv, ServesKeyed
<1>0. made \in Nat /\ serves \in [Conns -> {None} \cup Conns]
  BY DEF TypeOK
<1>1. CASE UNCHANGED <<made, keyOf, serves>>
  BY <1>1
<1>2. CASE Create
  <2>1. made' = made + 1 /\ made' \in Conns /\ serves' = serves
    BY <1>2 DEF Create, SynRoom, TypeOK, Conns, relays
  <2>2. \A c \in Conns : c # made' => keyOf'[c] = keyOf[c]
    BY <1>2 DEF Create, TypeOK
  <2> SUFFICES ASSUME NEW o \in Conns, serves[o] # None
               PROVE  serves[o] <= made' /\ keyOf'[serves[o]] = keyOf'[o]
    BY <2>1
  <2>3. serves[o] \in Conns /\ serves[o] <= made /\ keyOf[serves[o]] = keyOf[o]
    BY <1>0
  <2>4. o <= made
    BY <1>0 DEF Unmade
  <2>5. o # made' /\ serves[o] # made' /\ serves[o] <= made'
    <3>1. o \in Nat /\ serves[o] \in Nat /\ made \in Nat /\ made' = made + 1
      BY <1>0, <2>1, <2>3
    <3> HIDE DEF IInv, ServesKeyed
    <3> QED
      BY <2>3, <2>4, <3>1
  <2> QED
    BY <2>2, <2>3, <2>5
<1>3. ASSUME NEW o \in Conns, UpRelay(o)
      PROVE  ServesKeyed'
  <2>1. UNCHANGED <<made, keyOf>> /\ serves'[o] \in {serves[o], table[keyOf[o]]}
        /\ \A d \in Conns : d # o => serves'[d] = serves[d]
    BY <1>3, RelayServes, RelayLeavesTable
  <2>2. keyOf[o] \in Keys
    BY DEF TypeOK
  <2> SUFFICES ASSUME NEW d \in Conns, serves'[d] # None
               PROVE  serves'[d] <= made /\ keyOf[serves'[d]] = keyOf[d]
    BY <2>1
  <2>3. CASE serves'[d] = serves[d]
    BY <2>3
  <2>4. CASE d = o /\ serves'[d] = table[keyOf[o]]
    BY <2>2, <2>4 DEF TableKeyed
  <2> QED
    BY <2>1, <2>3, <2>4
<1> QED
  BY <1>1, <1>2, <1>3
     DEF Next, HandleTcp, Cleanup, Receive, LookupMiss, LookupHit, Check, Close, Pop, ConnectOk,
         ConnectFails, LeaveLoop, Exit, StaleCheck, CtrlC, RemoveRoutes, CloseConns, Shut,
         conns, relays

LEMMA NextCleaningIsDown ==
    ASSUME IInv, Next
    PROVE  CleaningIsDown' /\ (~running => ~running')
<1> USE DEF IInv, CleaningIsDown
<1>1. ASSUME NEW o \in Conns, UpRelay(o)
      PROVE  CleaningIsDown' /\ (~running => ~running')
  BY <1>1, RelayLeavesTable
<1> QED
  BY <1>1
     DEF Next, HandleTcp, Cleanup, Receive, LookupMiss, LookupHit, Check, Close, Pop, Create,
         ConnectOk, ConnectFails, LeaveLoop, Exit, StaleCheck, CtrlC, RemoveRoutes, CloseConns,
         StartCleanup, stops

(* A connection leaves the table closed, aged or in the cleanup.           *)
LEMMA NextAccounted ==
    ASSUME IInv, Next
    PROVE  Accounted'
<1> USE ConnsAreNumbers DEF IInv
<1>0. /\ made \in Nat /\ aged \in Nat /\ \A c \in Conns : keyOf[c] \in Keys
      /\ table \in [Keys -> {None} \cup Conns] /\ closing \in [Conns -> BOOLEAN]
      /\ packet.key \in Keys /\ packet.conn \in {None} \cup Conns
  BY DEF TypeOK
<1>1. CASE /\ UNCHANGED <<table, made, keyOf, aged>>
           /\ \A c \in Conns : closing[c] => closing'[c]
  BY <1>1, NextCleaningIsDown DEF Accounted
<1>2. CASE Create
  <2>1. made' = made + 1 /\ made' \in Conns
    BY <1>2 DEF Create, SynRoom, TypeOK, Conns
  <2>2. /\ \A k \in Keys : table'[k] = IF k = packet.key THEN made' ELSE table[k]
        /\ \A c \in Conns : keyOf'[c] = IF c = made' THEN packet.key ELSE keyOf[c]
        /\ UNCHANGED <<closing, aged, running>> /\ table[packet.key] = None
    BY <1>2 DEF Create, TypeOK, PacketKeyed, ages, stops
  <2> SUFFICES ASSUME NEW c \in Conns, c <= made'
               PROVE  (table[keyOf[c]] = c \/ closing[c] \/ c <= aged \/ ~running)'
    BY DEF Accounted
  <2>3. CASE c = made'
    BY <1>0, <2>2, <2>3
  <2>4. CASE c # made'
    <3>1. c <= made
      BY <1>0, <2>1, <2>4
    <3>2. CASE table[keyOf[c]] = c
      BY <1>0, <2>2, <2>4, <3>2
    <3> QED
      BY <2>2, <3>1, <3>2 DEF Accounted
  <2> QED
    BY <2>3, <2>4
<1>3. CASE Pop
  <2>1. /\ \A k \in Keys : table'[k] = IF k = packet.key THEN None ELSE table[k]
        /\ UNCHANGED <<made, keyOf, closing, aged, running>>
        /\ table[packet.key] \in {None, packet.conn} /\ closing[packet.conn]
    BY <1>3 DEF Pop, TypeOK, PacketKeyed, ages, stops
  <2> QED
    BY <1>0, <2>1 DEF Accounted
<1>4. CASE StaleCheck
  <2>1. /\ UNCHANGED <<made, keyOf, closing, running>> /\ aged' \in Nat /\ aged <= aged'
        /\ \A k \in Keys : table'[k] = IF table[k] <= aged' THEN None ELSE table[k]
    BY <1>0, <1>4 DEF StaleCheck, stops
  <2> SUFFICES ASSUME NEW c \in Conns, c <= made, ~(c <= aged')
               PROVE  table'[keyOf[c]] = c \/ closing[c] \/ ~running
    BY <2>1 DEF Accounted
  <2>2. ~(c <= aged)
    BY <1>0, <2>1
  <2>3. CASE table[keyOf[c]] = c
    BY <1>0, <2>1, <2>3
  <2> QED
    BY <2>2, <2>3 DEF Accounted
<1>5. CASE CloseConns
  BY <1>5 DEF CloseConns, CleaningIsDown, Accounted
<1>6. ASSUME NEW o \in Conns, UpRelay(o)
      PROVE  Accounted'
  <2>1. \A c \in Conns : closing[c] => closing'[c]
    BY <1>6, RelayCloses DEF TypeOK
  <2> QED
    BY <1>1, <1>6, <2>1, RelayLeavesTable
<1>7. CASE Close
  <2>1. \A c \in Conns : closing[c] => closing'[c]
    BY <1>7 DEF Close, Shut, TypeOK
  <2> QED
    BY <1>1, <1>7, <2>1 DEF Close, ages
<1>8. CASE \/ \E k \in Keys, kind \in Kinds : Receive(k, kind)
           \/ LookupMiss \/ LookupHit \/ Check \/ ConnectOk \/ ConnectFails
           \/ CtrlC \/ LeaveLoop \/ Exit \/ RemoveRoutes
  BY <1>1, <1>8 DEF Receive, LookupMiss, LookupHit, Check, ConnectOk, ConnectFails, CtrlC,
                    LeaveLoop, Exit, RemoveRoutes, conns, ages
<1> QED
  BY <1>2, <1>3, <1>4, <1>5, <1>6, <1>7, <1>8 DEF Next, HandleTcp, Cleanup

LEMMA NextClosedLeavesTable ==
    ASSUME IInv, Next
    PROVE  ClosedLeavesTable'
<1> USE ConnsAreNumbers DEF IInv
<1>0. /\ made \in Nat /\ table \in [Keys -> {None} \cup Conns]
      /\ closing \in [Conns -> BOOLEAN] /\ packet.key \in Keys
      /\ \A c \in Conns : keyOf[c] \in Keys
  BY DEF TypeOK
<1>1. CASE /\ \A k \in Keys : table'[k] \in {None, table[k]}
           /\ UNCHANGED <<keyOf, closing, lock>>
           /\ main = "popping" => UNCHANGED <<main, packet>>
  BY <1>0, <1>1 DEF ClosedLeavesTable
<1>2. CASE Close
  <2>1. /\ main' = "popping" /\ UNCHANGED <<table, packet, keyOf, lock>>
        /\ \A c \in Conns : c # packet.conn => closing'[c] = closing[c]
        /\ main = "closing" /\ keyOf[packet.conn] = packet.key
    BY <1>2 DEF Close, Shut, TypeOK, relays, PacketKeyed
  <2> SUFFICES ASSUME NEW k \in Keys, table[k] # None, closing'[table[k]]
               PROVE  packet.key = k \/ \E o \in Conns : lock = o /\ keyOf[o] = k
    BY <2>1 DEF ClosedLeavesTable
  <2>2. CASE table[k] = packet.conn
    BY <2>1, <2>2 DEF TableKeyed
  <2>3. CASE table[k] # packet.conn
    BY <1>0, <2>1, <2>3 DEF ClosedLeavesTable
  <2> QED
    BY <2>2, <2>3
<1>3. CASE Pop
  <2>1. /\ \A k \in Keys : table'[k] = IF k = packet.key THEN None ELSE table[k]
        /\ UNCHANGED <<keyOf, closing, lock>>
    BY <1>3 DEF Pop, TypeOK, relays
  <2> QED
    BY <1>0, <2>1 DEF ClosedLeavesTable
<1>4. CASE Create
  <2>1. made' = made + 1 /\ made' \in Conns
    BY <1>4 DEF Create, SynRoom, TypeOK, Conns
  <2>2. /\ \A k \in Keys : table'[k] = IF k = packet.key THEN made' ELSE table[k]
        /\ closing' = closing /\ lock = None /\ main = "create"
    BY <1>4 DEF Create, TypeOK, LockFree
  <2>3. ~closing[made']
    BY <1>0, <2>1 DEF Unmade
  <2> QED
    BY <1>0, <2>2, <2>3 DEF ClosedLeavesTable
<1>5. ASSUME NEW o \in Conns, UpRelay(o)
      PROVE  ClosedLeavesTable'
  <2>1. UNCHANGED <<table, keyOf, main, packet>>
    BY <1>5, RelayLeavesTable
  <2>2. CASE closing' = closing /\ lock' = lock
    BY <2>1, <2>2 DEF ClosedLeavesTable
  <2>3. ASSUME NEW c \in Conns, closing' = [closing EXCEPT ![c] = TRUE],
               table[keyOf[o]] = c, lock = None, lock' = o
        PROVE  ClosedLeavesTable'
    <3> SUFFICES ASSUME NEW k \in Keys, table[k] # None, closing'[table[k]]
                 PROVE  (main = "popping" /\ packet.key = k) \/ keyOf[o] = k
      BY <2>1, <2>3 DEF ClosedLeavesTable
    <3>1. CASE table[k] = c
      <4>1. keyOf[c] = k /\ keyOf[c] = keyOf[o]
        BY <1>0, <2>3, <3>1 DEF TableKeyed
      <4> QED
        BY <4>1
    <3>2. CASE table[k] # c
      BY <1>0, <2>3, <3>2 DEF ClosedLeavesTable
    <3> QED
      BY <3>1, <3>2
  <2> QED
    BY <1>5, <2>2, <2>3, RelayCloses
<1>6. CASE StaleCheck \/ CloseConns
  BY <1>1, <1>6 DEF StaleCheck, CloseConns, TypeOK, relays, loop
<1>7. CASE \/ \E k \in Keys, kind \in Kinds : Receive(k, kind)
           \/ LookupMiss \/ LookupHit \/ Check \/ ConnectOk \/ ConnectFails
           \/ CtrlC \/ LeaveLoop \/ Exit \/ RemoveRoutes
  BY <1>1, <1>7 DEF Receive, LookupMiss, LookupHit, Check, ConnectOk, ConnectFails, CtrlC,
                    LeaveLoop, Exit, RemoveRoutes, conns, relays, loop
<1> QED
  BY <1>2, <1>3, <1>4, <1>5, <1>6, <1>7 DEF Next, HandleTcp, Cleanup

-----------------------------------------------------------------------------
(* The invariant holds in every reachable state: nothing but the order of  *)
(* look-up, close and insertion of windows_vpn.py 295-363 is relied on.    *)
THEOREM Invariance == Spec => []IInv
<1>1. IInv /\ [Next]_vars => IInv'
  <2> SUFFICES ASSUME IInv, [Next]_vars
               PROVE  IInv'
    OBVIOUS
  <2>1. CASE Next
    BY <2>1, NextTypeOK, NextSynRoom, NextTableKeyed, NextPacketKeyed, NextUnmade,
       NextServesKeyed, NextAccounted, NextCleaningIsDown, NextClosedLeavesTable DEF IInv
  <2>2. CASE UNCHANGED vars
    BY <2>2 DEF IInv, TypeOK, SynRoom, TableKeyed, PacketKeyed, Unmade, ServesKeyed, Accounted,
                CleaningIsDown, ClosedLeavesTable, vars, conns, relays, loop, ages, stops
  <2> QED
    BY <2>1, <2>2
<1> QED
  BY InitInvariant, <1>1, PTL DEF Spec

(* Every variable keeps its type, and whoever uses a connection has one.   *)
THEOREM Typing == Spec => []TypeOK
BY Invariance, PTL DEF IInv

(* A connection that is closed is out of the table, or about to be taken   *)
(* out by whoever closed it (_close_conn, 447-455).                        *)
THEOREM ClosedIsGone == Spec => []ClosedLeavesTable
BY Invariance, PTL DEF IInv

(* A relay's data goes to another connection of its key only after its own *)
(* was closed, grew old or was cleaned up (378-385).                       *)
THEOREM DataStaysHome == Spec => SegmentOfItsOwn
<1>1. ASSUME IInv, Next, NEW o \in Conns, relay[o] = "data", relay'[o] = "loop",
             table[keyOf[o]] # serves[o]
      PROVE  closing[serves[o]] \/ serves[o] <= aged \/ ~running
  <2>1. serves[o] \in Conns
    BY <1>1 DEF IInv, TypeOK
  <2>2. keyOf[serves[o]] = keyOf[o] /\ serves[o] <= made
    BY <1>1, <2>1, ConnsAreNumbers DEF IInv, ServesKeyed
  <2> QED
    BY <1>1, <2>1, <2>2 DEF IInv, Accounted
<1>2. IInv /\ [Next]_vars =>
        [\A o \in Conns :
            relay[o] = "data" /\ relay'[o] = "loop" /\ table[keyOf[o]] # serves[o] =>
                closing[serves[o]] \/ serves[o] <= aged \/ ~running]_vars
  BY <1>1
<1> QED
  BY <1>2, Invariance, PTL DEF Spec, SegmentOfItsOwn

=============================================================================
