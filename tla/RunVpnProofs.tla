------------------------------ MODULE RunVpnProofs ------------------------------
(***************************************************************************)
(* Proofs about the sessions of RunVpn, for every number of sessions and   *)
(* interruptions.  What a session leaves behind follows from three things  *)
(* about the steps of its set-up and of its cleanups: each adds its thing  *)
(* once, a cleanup that has passed a step has removed its thing, or was    *)
(* killed at it and has another cleanup above it that has not come there,  *)
(* and before a step that may end the session (the event, the handlers, a  *)
(* close that raises) a cleanup has passed all that may stay.              *)
(***************************************************************************)
EXTENDS RunVpn, FiniteSetTheorems, SequenceTheorems, TLAPS

-----------------------------------------------------------------------------
(* The inductive invariant                                                 *)

Kinds  == {"tun", "socks", "system"}
Frames == [steps : {TunCleanup} \cup {Cleanup[m] : m \in Kinds}, i : Nat,
           in : BOOLEAN, own : BOOLEAN]

(* What may stay on the machine when the process is gone.                  *)
Traces == Firewall \cup Lasting

(* The set-up has done this step, and a cleanup that one.                  *)
Placed(x)  == \E m \in 1 .. at - 1 : Setup[mode][m] = x
Past(f, x) == \E m \in 1 .. f.i - 1 : f.steps[m] = x

(* There is no more of it than the session found.                          *)
Clean(x) ==
    IF x \in Firewall THEN Occurs(rules, x) <= Occurs(before.rules, x)
                      ELSE x \in installed => x \in before.items

(* No cleanup has been told to spare it.                                   *)
Removable == ToSet(Rules4) \cup {"sysProxy"} \cup known

Typed ==
    /\ TypeOK
    /\ before \in [rules : Seq(Firewall), items : SUBSET Lasting]
    /\ frames \in Seq(Frames)
    /\ known \cap Routed \in {{}, Routed}

(* Which cleanup runs when, and who has registered it.                     *)
FramesFit ==
    /\ \A j \in DOMAIN frames :
          frames[j].steps = IF phase = "undoing" THEN TunCleanup ELSE Cleanup[mode]
    /\ phase = "undoing" => Len(frames) = 1
    /\ registered # {} => mode = "tun"
    /\ phase \in {"exited", "died"} => registered = {}

(* Until its handlers are set nothing interrupts a session; a set-up fails *)
(* before that, in TUN mode, at a step that can fail.                      *)
Undisturbed ==
    /\ ~Placed("handler") => ~handler
    /\ ~Placed("handler") /\ phase = "setup" => frames = <<>> /\ ~event
    /\ phase \in {"undoing", "failed"} =>
          /\ mode = "tun" /\ ~Placed("handler")
          /\ Step \in Checked \cup ToSet(Create)

(* A session ends with the handlers that were there before it, and when    *)
(* its cleanup has set the event.                                          *)
HandlersGone ==
    /\ \A j \in DOMAIN frames :
          /\ Past(frames[j], "restore") => ~handler
          /\ frames[j].own /\ Past(frames[j], "event") => event
    /\ phase \in {"setup", "locking", "live"} /\ frames = <<>> /\ event => ~handler
    /\ phase \in {"stopped", "failed", "exited", "died"} => ~handler

(* The flags are set behind what they vouch for.                           *)
FlagsSet ==
    /\ Placed("rulesAdded") => Routed \subseteq known
    /\ Placed("iptablesAdded") => ToSet(Rules6) \subseteq known

(* What a session adds it adds once.                                       *)
AddedOnce ==
    /\ \A x \in Traces : Clean(x) \/ Placed(x)
    /\ \A x \in Firewall : Occurs(rules, x) <= Occurs(before.rules, x) + 1

(* A cleanup above is still to come to it.                                 *)
LeftAbove(j, x) == \E k \in DOMAIN frames : k > j /\ ~Past(frames[k], x)

(* What a cleanup has passed is gone, or was being removed when the        *)
(* command was killed: then a cleanup above is still to remove it.         *)
Swept ==
    \A j \in DOMAIN frames :
        /\ \A x \in Removable \cap Traces :
              Past(frames[j], x) => Clean(x) \/ LeftAbove(j, x)
        /\ "ruleTable" \in known /\ Past(frames[j], "ruleTable") =>
              "ruleTable" \notin installed \/ LeftAbove(j, "ruleTable")
        /\ frames[j].own /\ Past(frames[j], "proxy") => "proxy" \notin installed
        /\ frames[j].own /\ Past(frames[j], "fd") => fd # "open"
        /\ phase = "undoing" /\ Past(frames[j], "forget") => fd = "none"

(* A session that has been told to stop, or can no longer be, is clean.    *)
Told ==
    event \/ ~handler \/ phase \in {"stopped", "joining", "exiting", "exited", "died"}

CleanOnceOver ==
    Placed("handler") /\ Told =>
        (\A x \in Traces : Clean(x)) /\ "proxy" \notin installed /\ fd # "open"

(* What the set-up did before it failed has been undone.                   *)
FailedClean ==
    phase = "failed" =>
        \A x \in Traces : Clean(x) \/ (x = "ruleMark" /\ Step = "ruleTable")

(* The device and its descriptor.                                          *)
DeviceOpen ==
    /\ installed \cap Device # {} => fd = "open"
    /\ mode # "tun" => fd # "open"
    /\ phase \in {"exited", "died"} => installed \subseteq Lasting
    /\ phase = "failed" => installed \cap Device = {} /\ (fd = "none" \/ Step = "device")
    /\ phase = "setup" => /\ ~Placed("fd") => fd = "none"
                          /\ ~Placed("device") => installed \cap Device = {}
                          /\ Placed("fd") /\ ~Placed("handler") => fd = "open"

SettingUpRules == phase = "setup" /\ ~Placed("handler")

(* The exemption of marked packets comes before the redirection.           *)
ExemptFirst ==
    /\ mode # "tun" => "proxy" \notin installed
    /\ phase \in {"setup", "undoing", "failed"} /\ ~Placed("proxy") => "proxy" \notin installed
    /\ Exempt(before.rules) /\ phase # "exiting"
       /\ ("proxy" \in installed \/ (phase = "setup" /\ frames = <<>> /\ ~event))
          => Exempt(rules)
    /\ SettingUpRules /\ Placed("natMark") => "natMark" \in ToSet(rules)
    /\ "ruleTable" \in installed => "ruleMark" \in installed
    /\ SettingUpRules /\ Placed("ruleMark") => "ruleMark" \in installed

IInv ==
    /\ Typed /\ FramesFit /\ Undisturbed /\ HandlersGone /\ FlagsSet /\ AddedOnce
    /\ Swept /\ CleanOnceOver /\ FailedClean /\ DeviceOpen /\ ExemptFirst

-----------------------------------------------------------------------------
(* Rules in a chain.                                                       *)

LEMMA LeastExists ==
    ASSUME NEW S \in SUBSET Nat, S # {}
    PROVE  \E n \in S : \A m \in S : n <= m
<1>1. \A m, n \in Nat : m < n => <<m, n>> \in OpToRel(<, Nat)
  BY DEF OpToRel
<1>2. PICK n \in S : \A m \in S : ~ (<<m, n>> \in OpToRel(<, Nat))
  BY WFMin, NatLessThanWellFounded
<1>3. \A m \in S : ~ (m < n)
  BY <1>1, <1>2, Zenon
<1> QED
  BY <1>3

(* RemoveFirst takes out the first item of its kind and no other.          *)
LEMMA RemoveFirstIs ==
    ASSUME NEW T, NEW s \in Seq(T), NEW x, x \in ToSet(s)
    PROVE  \E p \in 1 .. Len(s) :
              /\ s[p] = x
              /\ RemoveFirst(s, x) \in Seq(T) /\ Len(RemoveFirst(s, x)) = Len(s) - 1
              /\ \A i \in 1 .. p - 1 : s[i] # x
              /\ \A i \in 1 .. Len(s) - 1 :
                    RemoveFirst(s, x)[i] = IF i < p THEN s[i] ELSE s[i + 1]
<1> DEFINE I == {i \in 1 .. Len(s) : s[i] = x}
           p == Min(I)
           a == SubSeq(s, 1, p - 1)
           b == SubSeq(s, p + 1, Len(s))
<1>1. Len(s) \in Nat /\ (\E q \in 1 .. Len(s) : s[q] = x) /\ \A i \in 1 .. Len(s) : s[i] \in T
  BY LenProperties DEF ToSet
<1>2. I \in SUBSET Nat /\ I # {}
  BY <1>1
<1>3. p \in I /\ \A i \in I : p <= i
  <2> HIDE DEF I
  <2> QED
    BY <1>2, LeastExists DEF Min
<1>4. RemoveFirst(s, x) = a \o b
  BY <1>1, <1>2 DEF RemoveFirst, RemoveAt, SelectInSeq
<1>5. p \in 1 .. Len(s) /\ s[p] = x /\ \A i \in 1 .. p - 1 : s[i] # x
  <2>1. p \in 1 .. Len(s) /\ s[p] = x
    BY <1>3
  <2>2. ASSUME NEW i \in 1 .. p - 1, s[i] = x PROVE FALSE
    <3> HIDE DEF p
    <3>1. i \in I
      BY <2>1, <2>2, <1>1
    <3> QED
      BY <3>1, <1>3, <2>1, <1>1
  <2> QED
    BY <2>1, <2>2
<1> HIDE DEF p, I
<1>6. a \in Seq(T) /\ Len(a) = p - 1 /\ \A i \in 1 .. p - 1 : a[i] = s[i]
  <2>1. \A i \in 1 .. p - 1 : s[i] \in T
    BY <1>1, <1>5
  <2> QED
    BY <1>1, <1>5, <2>1, SubSeqProperties
<1>7. b \in Seq(T) /\ Len(b) = Len(s) - p /\ \A i \in 1 .. Len(s) - p : b[i] = s[p + i]
  <2>1. \A i \in p + 1 .. Len(s) : s[i] \in T
    BY <1>1, <1>5
  <2>2. p + 1 \in Int /\ Len(s) \in Int
    BY <1>1, <1>5
  <2>3. /\ b \in Seq(T)
        /\ Len(b) = IF p + 1 <= Len(s) THEN Len(s) - (p + 1) + 1 ELSE 0
        /\ \A i \in 1 .. Len(s) - (p + 1) + 1 : b[i] = s[(p + 1) + i - 1]
    BY <2>1, <2>2, SubSeqProperties
  <2> QED
    BY <1>1, <1>5, <2>3
<1> DEFINE t == a \o b
<1>8. /\ t \in Seq(T) /\ Len(t) = Len(s) - 1
      /\ \A i \in 1 .. Len(s) - 1 : t[i] = IF i < p THEN s[i] ELSE s[i + 1]
  <2>1. /\ t \in Seq(T)
        /\ Len(t) = Len(a) + Len(b)
        /\ \A i \in 1 .. Len(a) + Len(b) : t[i] = IF i <= Len(a) THEN a[i] ELSE b[i - Len(a)]
    <3> HIDE DEF a, b
    <3>1. a \in Seq(T) /\ b \in Seq(T)
      BY <1>6, <1>7
    <3> QED
      BY <3>1, ConcatProperties
  <2> HIDE DEF a, b, t
  <2>2. Len(a) + Len(b) = Len(s) - 1
    BY <1>1, <1>5, <1>6, <1>7
  <2>3. ASSUME NEW i \in 1 .. Len(s) - 1
        PROVE  t[i] = IF i < p THEN s[i] ELSE s[i + 1]
    <3>1. CASE i < p
      BY <1>1, <1>5, <1>6, <2>1, <2>2, <3>1
    <3>2. CASE ~(i < p)
      <4>1. i - Len(a) \in 1 .. Len(s) - p /\ p + (i - Len(a)) = i + 1
        BY <1>1, <1>5, <1>6, <3>2
      <4>2. i \in 1 .. Len(a) + Len(b) /\ ~(i <= Len(a))
        BY <1>1, <1>5, <1>6, <2>2, <3>2
      <4>3. t[i] = b[i - Len(a)]
        BY <2>1, <4>2
      <4>4. b[i - Len(a)] = s[p + (i - Len(a))]
        BY <1>7, <4>1
      <4> QED
        BY <3>2, <4>1, <4>3, <4>4
    <3> QED
      BY <3>1, <3>2
  <2> QED
    BY <2>1, <2>2, <2>3
<1> QED
  BY <1>4, <1>5, <1>8

Positions(s, x) == {i \in DOMAIN s : s[i] = x}

(* How often a rule is in a chain.                                         *)
LEMMA OccursNat ==
    ASSUME NEW T, NEW s \in Seq(T), NEW x
    PROVE  /\ IsFiniteSet(Positions(s, x))
           /\ Occurs(s, x) = Cardinality(Positions(s, x))
           /\ Occurs(s, x) \in Nat
           /\ Occurs(s, x) = 0 <=> x \notin ToSet(s)
<1>1. IsFiniteSet(1 .. Len(s)) /\ DOMAIN s = 1 .. Len(s)
  BY LenProperties, FS_Interval
<1>2. Positions(s, x) \in SUBSET (1 .. Len(s))
  BY <1>1 DEF Positions
<1>3. IsFiniteSet(Positions(s, x))
  BY <1>1, <1>2, FS_Subset
<1>4. Occurs(s, x) = Cardinality(Positions(s, x))
  BY DEF Occurs, Positions
<1>5. Positions(s, x) = {} <=> x \notin ToSet(s)
  BY DEF ToSet, Positions
<1> QED
  BY <1>3, <1>4, <1>5, FS_EmptySet, FS_CardinalityType

(* iptables -A adds one.                                                   *)
LEMMA OccursAppend ==
    ASSUME NEW T, NEW s \in Seq(T), NEW y \in T, NEW x
    PROVE  Occurs(Append(s, y), x) = Occurs(s, x) + (IF y = x THEN 1 ELSE 0)
<1> DEFINE n == Len(s) + 1
<1>1. /\ DOMAIN s = 1 .. Len(s) /\ DOMAIN Append(s, y) = 1 .. n /\ Len(s) \in Nat
      /\ \A i \in 1 .. Len(s) : Append(s, y)[i] = s[i]
      /\ Append(s, y)[n] = y
  BY AppendProperties, LenProperties
<1>2. Positions(Append(s, y), x) = Positions(s, x) \cup (IF y = x THEN {n} ELSE {})
  BY <1>1 DEF Positions
<1>3. n \notin Positions(s, x)
  BY <1>1 DEF Positions
<1>4. Append(s, y) \in Seq(T)
  BY AppendProperties
<1>5. /\ IsFiniteSet(Positions(s, x)) /\ Cardinality(Positions(s, x)) \in Nat
      /\ Occurs(s, x) = Cardinality(Positions(s, x))
      /\ Occurs(Append(s, y), x) = Cardinality(Positions(Append(s, y), x))
  BY <1>4, OccursNat, FS_CardinalityType
<1> HIDE DEF n
<1>6. CASE y = x
  <2>1. Positions(Append(s, y), x) = Positions(s, x) \cup {n}
    BY <1>2, <1>6
  <2> QED
    BY <1>3, <1>5, <1>6, <2>1, FS_AddElement
<1>7. CASE y # x
  <2>1. Positions(Append(s, y), x) = Positions(s, x)
    BY <1>2, <1>7
  <2> QED
    BY <1>5, <1>7, <2>1
<1> QED
  BY <1>6, <1>7

(* What is left of a rule after one has been removed.                      *)
LEMMA OccursWithout ==
    ASSUME NEW T, NEW s \in Seq(T), NEW x, NEW y
    PROVE  /\ Without(s, y) \in Seq(T)
           /\ Occurs(Without(s, y), x) <= Occurs(s, x)
           /\ x = y /\ y \in ToSet(s) => Occurs(Without(s, y), x) = Occurs(s, x) - 1
<1>0. Occurs(s, x) \in Nat
  BY OccursNat
<1>1. CASE y \notin ToSet(s)
  BY <1>0, <1>1 DEF Without
<1>2. CASE y \in ToSet(s)
  <2> DEFINE t == RemoveFirst(s, y)
  <2>1. Without(s, y) = t
    BY <1>2 DEF Without
  <2>3. \E p \in 1 .. Len(s) :
              /\ s[p] = y
              /\ t \in Seq(T) /\ Len(t) = Len(s) - 1
              /\ \A i \in 1 .. p - 1 : s[i] # y
              /\ \A i \in 1 .. Len(s) - 1 : t[i] = IF i < p THEN s[i] ELSE s[i + 1]
    BY <1>2, RemoveFirstIs
  <2> HIDE DEF t
  <2>4. PICK p \in 1 .. Len(s) :
              /\ s[p] = y
              /\ t \in Seq(T) /\ Len(t) = Len(s) - 1
              /\ \A i \in 1 .. Len(s) - 1 : t[i] = IF i < p THEN s[i] ELSE s[i + 1]
    BY <2>3
  <2> DEFINE A == Positions(t, x)
             B == Positions(s, x) \ {p}
             f == [i \in A |-> IF i < p THEN i ELSE i + 1]
             g == [i \in B |-> IF i < p THEN i ELSE i - 1]
  <2>5. DOMAIN s = 1 .. Len(s) /\ DOMAIN t = 1 .. Len(s) - 1 /\ Len(s) \in Nat
    BY <2>4, LenProperties
  <2>6. /\ IsFiniteSet(A) /\ IsFiniteSet(B)
        /\ Occurs(s, x) = Cardinality(Positions(s, x)) /\ Occurs(t, x) = Cardinality(A)
        /\ Cardinality(B) = IF p \in Positions(s, x) THEN Occurs(s, x) - 1 ELSE Occurs(s, x)
        /\ Cardinality(A) \in Nat /\ Cardinality(B) \in Nat
    BY <2>4, OccursNat, FS_RemoveElement, FS_CardinalityType
  <2>7. Cardinality(A) <= Cardinality(B)
    <3>1. ASSUME NEW i \in A
          PROVE  (IF i < p THEN i ELSE i + 1) \in B
      BY <2>4, <2>5 DEF Positions
    <3>2. f \in [A -> B]
      BY <3>1
    <3>3. \A i, j \in A : f[i] = f[j] => i = j
      BY <2>4, <2>5 DEF Positions
    <3> HIDE DEF f, A, B
    <3>4. f \in Injection(A, B)
      BY <3>2, <3>3, Zenon DEF Injection, IsInjective
    <3> QED
      BY <3>4, <2>6, FS_Injection
  <2>8. Cardinality(B) <= Cardinality(A)
    <3>1. ASSUME NEW i \in B
          PROVE  (IF i < p THEN i ELSE i - 1) \in A
      BY <2>4, <2>5 DEF Positions
    <3>2. g \in [B -> A]
      BY <3>1
    <3>3. \A i, j \in B : g[i] = g[j] => i = j
      BY <2>4, <2>5 DEF Positions
    <3> HIDE DEF g, A, B
    <3>4. g \in Injection(B, A)
      BY <3>2, <3>3, Zenon DEF Injection, IsInjective
    <3> QED
      BY <3>4, <2>6, FS_Injection
  <2>9. x = y => p \in Positions(s, x)
    BY <2>4, <2>5 DEF Positions
  <2> HIDE DEF A, B, f, g
  <2> QED
    BY <1>0, <2>1, <2>4, <2>6, <2>7, <2>8, <2>9
<1> QED
  BY <1>1, <1>2

-----------------------------------------------------------------------------
(* The steps of a set-up and of a cleanup.                                 *)

LEMMA TunSteps ==
    /\ Len(Setup["tun"]) = 25
    /\ Setup["tun"][1] = "fd" /\ Setup["tun"][2] = "device" /\ Setup["tun"][3] = "addr"
    /\ Setup["tun"][4] = "link" /\ Setup["tun"][5] = "route" /\ Setup["tun"][6] = "routeDefault"
    /\ Setup["tun"][7] = "ruleMark" /\ Setup["tun"][8] = "ruleTable"
    /\ Setup["tun"][9] = "rulesAdded" /\ Setup["tun"][10] = "flush"
    /\ Setup["tun"][11] = "natLo" /\ Setup["tun"][12] = "natMark" /\ Setup["tun"][13] = "natTcp"
    /\ Setup["tun"][14] = "natDns" /\ Setup["tun"][15] = "quic"
    /\ Setup["tun"][16] = "ip6lo" /\ Setup["tun"][17] = "ip6tcp" /\ Setup["tun"][18] = "ip6drop"
    /\ Setup["tun"][19] = "iptablesAdded" /\ Setup["tun"][20] = "proxy" /\ Setup["tun"][21] = "dns"
    /\ Setup["tun"][22] = "timers" /\ Setup["tun"][23] = "status"
    /\ Setup["tun"][24] = "handler" /\ Setup["tun"][25] = "atexit"
  BY DEF Setup, Create, SetupRouting, SetupIptables, Rules4, Rules6

(* The set-ups of SOCKS mode.                                              *)
LEMMA OtherSteps ==
    /\ Len(Setup["socks"]) = 4 /\ Setup["socks"][1] = "local" /\ Setup["socks"][2] = "timers"
    /\ Setup["socks"][3] = "status" /\ Setup["socks"][4] = "handler"
    /\ Len(Setup["system"]) = 5 /\ Setup["system"][1] = "local" /\ Setup["system"][2] = "sysProxy"
    /\ Setup["system"][3] = "timers" /\ Setup["system"][4] = "status"
    /\ Setup["system"][5] = "handler"
  BY DEF Setup

(* The rules and the first steps, as sets.                                 *)
LEMMA StepsOfSets ==
    /\ Firewall = {"natLo", "natMark", "natTcp", "natDns", "quic", "ip6lo", "ip6tcp", "ip6drop"}
    /\ ToSet(Rules4) = {"natLo", "natMark", "natTcp", "natDns", "quic"}
    /\ ToSet(Rules6) = {"ip6lo", "ip6tcp", "ip6drop"}
    /\ ToSet(Create) = {"fd", "device"}
  BY DEF Firewall, Rules4, Rules6, Create, ToSet

(* Each step is taken once.                                                *)
LEMMA StepsDiffer ==
    ASSUME NEW m \in Kinds, NEW i \in 1 .. Len(Setup[m]), NEW j \in 1 .. Len(Setup[m]),
           Setup[m][i] = Setup[m][j]
    PROVE  i = j
<1>1. CASE m = "tun"
  BY <1>1 DEF Setup, Create, SetupRouting, SetupIptables, Rules4, Rules6
<1>2. CASE m = "socks"
  BY <1>2 DEF Setup
<1>3. CASE m = "system"
  BY <1>3 DEF Setup
<1> QED
  BY <1>1, <1>2, <1>3 DEF Kinds

(* Where a step is tells whether it has been done.                         *)
LEMMA PlacedAt ==
    ASSUME mode \in Kinds, at \in 1 .. Len(Setup[mode]) + 1,
           NEW k \in 1 .. Len(Setup[mode])
    PROVE  /\ Placed(Setup[mode][k]) <=> at > k
           /\ at <= Len(Setup[mode]) => (Step = Setup[mode][k] <=> at = k)
<1>1. Len(Setup[mode]) \in Nat
  BY TunSteps, OtherSteps DEF Kinds
<1> QED
  BY <1>1, StepsDiffer DEF Placed, Step

(* How far the set-up of TUN mode is when it has done a step.              *)
LEMMA InTun ==
    ASSUME mode = "tun", at \in 1 .. Len(Setup[mode]) + 1
    PROVE  /\ Placed("fd") <=> at > 1
           /\ Placed("device") <=> at > 2
           /\ Placed("ruleMark") <=> at > 7
           /\ Placed("ruleTable") <=> at > 8
           /\ Placed("rulesAdded") <=> at > 9
           /\ Placed("natMark") <=> at > 12
           /\ Placed("iptablesAdded") <=> at > 19
           /\ Placed("proxy") <=> at > 20
           /\ Placed("handler") <=> at > 24
           /\ Placed("atexit") <=> at > 25
           /\ ~Placed("sysProxy")
           /\ \A x \in Firewall : Placed(x) => at > 11
           /\ \A x \in ToSet(Rules6) : Placed(x) => at > 16
<1> USE TunSteps
<1>1. ASSUME NEW k \in 1 .. 25
      PROVE  Placed(Setup["tun"][k]) <=> at > k
  BY PlacedAt DEF Kinds
<1>2. /\ Placed("fd") <=> at > 1
      /\ Placed("device") <=> at > 2
      /\ Placed("ruleMark") <=> at > 7
      /\ Placed("ruleTable") <=> at > 8
      /\ Placed("rulesAdded") <=> at > 9
      /\ Placed("natMark") <=> at > 12
      /\ Placed("iptablesAdded") <=> at > 19
      /\ Placed("proxy") <=> at > 20
      /\ Placed("handler") <=> at > 24
      /\ Placed("atexit") <=> at > 25
  BY <1>1
<1>3. ~Placed("sysProxy")
  BY DEF Placed, Setup, Create, SetupRouting, SetupIptables, Rules4, Rules6
<1>4. /\ Placed("natLo") <=> at > 11
      /\ Placed("natTcp") <=> at > 13
      /\ Placed("natDns") <=> at > 14
      /\ Placed("quic") <=> at > 15
      /\ Placed("ip6lo") <=> at > 16
      /\ Placed("ip6tcp") <=> at > 17
      /\ Placed("ip6drop") <=> at > 18
  BY <1>1
<1> QED
  BY <1>2, <1>3, <1>4, StepsOfSets

(* Which steps come where.                                                 *)
LEMMA StepInTun ==
    ASSUME mode = "tun", at \in 1 .. Len(Setup[mode])
    PROVE  /\ Step = "fd" <=> at = 1
           /\ Step = "device" <=> at = 2
           /\ Step \in Device <=> at \in 2 .. 6
           /\ Step = "ruleMark" <=> at = 7
           /\ Step = "ruleTable" <=> at = 8
           /\ Step = "rulesAdded" <=> at = 9
           /\ Step = "flush" <=> at = 10
           /\ Step \in Firewall <=> at \in 11 .. 18
           /\ Step = "natMark" <=> at = 12
           /\ Step = "natTcp" <=> at = 13
           /\ Step \in ToSet(Rules6) <=> at \in 16 .. 18
           /\ Step = "iptablesAdded" <=> at = 19
           /\ Step = "proxy" <=> at = 20
           /\ Step = "dns" <=> at = 21
           /\ Step \in Services <=> at \in 20 .. 23
           /\ Step = "handler" <=> at = 24
           /\ Step = "atexit" <=> at = 25
           /\ Step # "sysProxy" /\ Step # "local"
           /\ Step \in Checked => at \in 2 .. 16
  BY StepsOfSets DEF Step, Setup, Create, SetupRouting, SetupIptables, Rules4, Rules6,
     Device, Services, Checked, Routed

(* The set-ups of SOCKS mode leave nothing but the system proxy.           *)
LEMMA InOthers ==
    ASSUME mode \in Kinds \ {"tun"}, at \in 1 .. Len(Setup[mode]) + 1
    PROVE  /\ \A x : Placed(x) => x \in {"local", "sysProxy", "timers", "status", "handler"}
           /\ Placed("handler") <=> at > Len(Setup[mode])
           /\ at <= Len(Setup[mode]) =>
                 Step \in {"local", "sysProxy", "timers", "status", "handler"}
<1>1. CASE mode = "socks"
  BY <1>1, OtherSteps DEF Placed, Step
<1>2. CASE mode = "system"
  BY <1>2, OtherSteps DEF Placed, Step
<1> QED
  BY <1>1, <1>2 DEF Kinds

(* TunManager.cleanup(), step by step.                                     *)
LEMMA TunCleanupSteps ==
    /\ Len(TunCleanup) = 14
    /\ \A x \in Firewall : \E k \in 1 .. 8 : TunCleanup[k] = x
    /\ TunCleanup[9] = "ruleTable" /\ TunCleanup[10] = "ruleMark"
    /\ TunCleanup[11] = "link" /\ TunCleanup[12] = "addr"
    /\ TunCleanup[13] = "fd" /\ TunCleanup[14] = "forget"
<1>1. /\ Len(TunCleanup) = 14
      /\ TunCleanup[1] = "ip6lo" /\ TunCleanup[2] = "ip6tcp" /\ TunCleanup[3] = "ip6drop"
      /\ TunCleanup[4] = "natLo" /\ TunCleanup[5] = "natMark" /\ TunCleanup[6] = "natTcp"
      /\ TunCleanup[7] = "natDns" /\ TunCleanup[8] = "quic"
      /\ TunCleanup[9] = "ruleTable" /\ TunCleanup[10] = "ruleMark"
      /\ TunCleanup[11] = "link" /\ TunCleanup[12] = "addr"
      /\ TunCleanup[13] = "fd" /\ TunCleanup[14] = "forget"
  BY DEF TunCleanup, Rules4, Rules6
<1> QED
  BY <1>1, StepsOfSets

(* The cleanup of TUN mode has it in its middle.                           *)
LEMMA CleanupTunSteps ==
    /\ Len(Cleanup["tun"]) = 20
    /\ Cleanup["tun"][1] = "timers" /\ Cleanup["tun"][2] = "proxy" /\ Cleanup["tun"][3] = "dns"
    /\ \A k \in 1 .. 14 : Cleanup["tun"][k + 3] = TunCleanup[k]
    /\ Cleanup["tun"][18] = "status" /\ Cleanup["tun"][19] = "event"
    /\ Cleanup["tun"][20] = "restore"
  BY DEF Cleanup, TunCleanup, Rules4, Rules6

(* The cleanups of SOCKS mode.                                             *)
LEMMA CleanupOtherSteps ==
    /\ Len(Cleanup["socks"]) = 5 /\ Cleanup["socks"][1] = "timers"
    /\ Cleanup["socks"][2] = "local" /\ Cleanup["socks"][3] = "status"
    /\ Cleanup["socks"][4] = "restore" /\ Cleanup["socks"][5] = "event"
    /\ Len(Cleanup["system"]) = 6 /\ Cleanup["system"][1] = "timers"
    /\ Cleanup["system"][2] = "local" /\ Cleanup["system"][3] = "status"
    /\ Cleanup["system"][4] = "sysProxy" /\ Cleanup["system"][5] = "restore"
    /\ Cleanup["system"][6] = "event"
  BY DEF Cleanup

(* What a cleanup has passed when it comes to a step.                      *)
LEMMA PassedInTun ==
    ASSUME NEW f, f.steps = Cleanup["tun"], f.i \in 1 .. 21
    PROVE  /\ f.i <= 20 /\ f.steps[f.i] \in Firewall => Past(f, "proxy")
           /\ f.i <= 20 /\ f.steps[f.i] = "ruleMark" => Past(f, "ruleTable")
           /\ f.i <= 20 /\ f.steps[f.i] = "forget" => Past(f, "fd")
           /\ f.i <= 20 /\ f.steps[f.i] \in {"fd", "event", "restore"} =>
                 Past(f, "proxy") /\ \A x \in Firewall \cup Routed : Past(f, x)
           /\ f.i <= 20 /\ f.steps[f.i] \in {"event", "restore"} => Past(f, "fd")
           /\ f.i > 20 => Past(f, "restore") /\ Past(f, "event")
<1>1. \A k \in 1 .. f.i - 1 : Past(f, Cleanup["tun"][k])
  BY DEF Past
<1>2. f.i > 2 => Past(f, "proxy")
  BY <1>1, CleanupTunSteps
<1>3. /\ f.i > 12 => Past(f, "ruleTable")
      /\ f.i > 13 => Past(f, "ruleMark")
      /\ f.i > 16 => Past(f, "fd")
      /\ f.i > 20 => Past(f, "restore") /\ Past(f, "event")
  <2>1. \A k \in 1 .. 14 : f.i > k + 3 => Past(f, TunCleanup[k])
    BY <1>1, CleanupTunSteps
  <2> QED
    BY <1>1, <2>1, CleanupTunSteps, TunCleanupSteps
<1>4. f.i > 11 => \A x \in Firewall : Past(f, x)
  <2>1. \A k \in 1 .. 8 : f.i > 11 => Past(f, TunCleanup[k])
    BY <1>1, CleanupTunSteps
  <2> QED
    BY <2>1, TunCleanupSteps
<1>5. f.i <= 20 =>
        /\ f.steps[f.i] \in Firewall => f.i > 3
        /\ f.steps[f.i] = "ruleMark" => f.i > 12
        /\ f.steps[f.i] \in {"fd", "forget", "event", "restore"} => f.i > 15
        /\ f.steps[f.i] \in {"forget", "event", "restore"} => f.i > 16
  BY StepsOfSets DEF Cleanup, TunCleanup, Rules4, Rules6
<1> QED
  BY <1>2, <1>3, <1>4, <1>5 DEF Routed

(* TunManager.cleanup() alone, after a set-up that failed.                 *)
LEMMA PassedInUndoing ==
    ASSUME NEW f, f.steps = TunCleanup, f.i \in 1 .. 15
    PROVE  /\ f.i <= 14 /\ f.steps[f.i] = "ruleMark" => Past(f, "ruleTable")
           /\ f.i <= 14 /\ f.steps[f.i] = "forget" => Past(f, "fd")
           /\ f.i <= 14 => f.steps[f.i] \notin {"proxy", "dns", "local", "event", "restore"}
           /\ f.i > 14 => /\ Past(f, "fd") /\ Past(f, "forget")
                          /\ \A x \in Firewall \cup Routed : Past(f, x)
<1>1. \A k \in 1 .. f.i - 1 : Past(f, TunCleanup[k])
  BY DEF Past
<1>2. f.i <= 14 => /\ f.steps[f.i] = "ruleMark" => f.i > 9
                   /\ f.steps[f.i] = "forget" => f.i > 13
                   /\ f.steps[f.i] \notin {"proxy", "dns", "local", "event", "restore"}
  BY DEF TunCleanup, Rules4, Rules6
<1>3. f.i > 14 => \A k \in 1 .. 14 : Past(f, TunCleanup[k])
  BY <1>1
<1> QED
  BY <1>1, <1>2, <1>3, TunCleanupSteps DEF Routed

(* The cleanups of SOCKS mode.                                             *)
LEMMA PassedInOthers ==
    ASSUME NEW f, NEW m \in {"socks", "system"}, f.steps = Cleanup[m],
           f.i \in 1 .. Len(f.steps) + 1
    PROVE  /\ f.i <= Len(f.steps) =>
                f.steps[f.i] \in {"timers", "local", "status", "sysProxy", "restore", "event"}
           /\ m = "system" /\ f.i <= Len(f.steps) /\ f.steps[f.i] \in {"restore", "event"}
                => Past(f, "sysProxy")
           /\ f.i > Len(f.steps) => Past(f, "restore") /\ Past(f, "event")
           /\ \A x : Past(f, x) =>
                 x \in {"timers", "local", "status", "sysProxy", "restore", "event"}
<1>1. CASE m = "socks"
  BY <1>1, CleanupOtherSteps DEF Past
<1>2. CASE m = "system"
  BY <1>2, CleanupOtherSteps DEF Past
<1> QED
  BY <1>1, <1>2

-----------------------------------------------------------------------------
(* The frames of the cleanups under way.                                   *)

LEMMA Stack ==
    ASSUME frames \in Seq(Frames), frames # <<>>
    PROVE  /\ Len(frames) \in Nat \ {0} /\ DOMAIN frames = 1 .. Len(frames)
           /\ Top = frames[Len(frames)] /\ Top \in Frames
           /\ Front(frames) \in Seq(Frames) /\ Len(Front(frames)) = Len(frames) - 1
           /\ \A j \in 1 .. Len(frames) - 1 : Front(frames)[j] = frames[j]
<1>1. Len(frames) \in Nat \ {0} /\ DOMAIN frames = 1 .. Len(frames)
  BY EmptySeq, LenProperties
<1>2. \A j \in 1 .. Len(frames) : frames[j] \in Frames
  BY ElementOfSeq
<1>3. Top = frames[Len(frames)]
  BY DEF Top, Last
<1>4. /\ Front(frames) \in Seq(Frames) /\ Len(Front(frames)) = Len(frames) - 1
      /\ \A j \in 1 .. Len(frames) - 1 : Front(frames)[j] = frames[j]
  <2>1. \A j \in 1 .. Len(frames) - 1 : frames[j] \in Frames
    BY <1>1, <1>2
  <2> QED
    BY <1>1, <2>1, SubSeqProperties DEF Front
<1> QED
  BY <1>1, <1>2, <1>3, <1>4

(* A cleanup that takes a lock or goes one step on is one all the same.    *)
LEMMA FrameEnters ==
    ASSUME NEW f \in Frames, NEW b \in BOOLEAN
    PROVE  [f EXCEPT !.in = b] \in Frames
  BY DEF Frames

LEMMA FrameGoesOn ==
    ASSUME NEW f \in Frames
    PROVE  [f EXCEPT !.i = @ + 1, !.in = FALSE] \in Frames
<1> DEFINE g == [f EXCEPT !.i = @ + 1]
<1>1. g \in Frames
  BY DEF Frames
<1>2. [g EXCEPT !.in = FALSE] \in Frames
  <2> HIDE DEF g
  <2> QED
    BY <1>1, FrameEnters
<1>3. [f EXCEPT !.i = @ + 1, !.in = FALSE] = [g EXCEPT !.in = FALSE]
  BY Zenon
<1> QED
  BY <1>2, <1>3, Zenon

(* The running cleanup goes one step on, and the others stay.              *)
LEMMA StackAdvanced ==
    ASSUME frames \in Seq(Frames), frames # <<>>, Top.i >= 1
    PROVE  /\ Advanced \in Seq(Frames) /\ Len(Advanced) = Len(frames) /\ Advanced # <<>>
           /\ DOMAIN Advanced = DOMAIN frames
           /\ \A j \in 1 .. Len(frames) - 1 : Advanced[j] = frames[j]
           /\ Advanced[Len(frames)].steps = Top.steps
           /\ Advanced[Len(frames)].i = Top.i + 1
           /\ Advanced[Len(frames)].own = Top.own
           /\ \A j \in DOMAIN frames : \A x :
                 Past(Advanced[j], x) <=>
                    Past(frames[j], x) \/ (j = Len(frames) /\ x = TopStep)
<1> DEFINE g == [Top EXCEPT !.i = @ + 1, !.in = FALSE]
           r == Front(frames)
           n == Len(frames)
<1>1. g \in Frames /\ g.steps = Top.steps /\ g.own = Top.own /\ g.i = Top.i + 1 /\ Top.i \in Nat
  <2>1. Top \in Frames
    BY Stack
  <2>2. g \in Frames
    BY <2>1, FrameGoesOn
  <2>3. g.steps = Top.steps /\ g.own = Top.own /\ g.i = Top.i + 1 /\ Top.i \in Nat
    BY <2>1 DEF Frames
  <2> QED
    BY <2>2, <2>3
<1>2. /\ n \in Nat \ {0} /\ DOMAIN frames = 1 .. n /\ Top = frames[n]
      /\ r \in Seq(Frames) /\ Len(r) = n - 1 /\ \A j \in 1 .. n - 1 : r[j] = frames[j]
  BY Stack
<1>3. Advanced = Append(r, g)
  BY DEF Advanced
<1> HIDE DEF g, r, n
<1>4. /\ Advanced \in Seq(Frames) /\ Advanced # <<>> /\ Len(Advanced) = Len(r) + 1
      /\ \A j \in 1 .. Len(r) : Advanced[j] = r[j]
      /\ Advanced[Len(r) + 1] = g
  BY <1>1, <1>2, <1>3, AppendProperties
<1>5. /\ Len(Advanced) = n /\ Advanced[n] = g
      /\ \A j \in 1 .. n - 1 : Advanced[j] = frames[j]
  BY <1>2, <1>4
<1>6. DOMAIN Advanced = DOMAIN frames
  BY <1>2, <1>4, <1>5, LenProperties
<1>7. ASSUME NEW j \in DOMAIN frames, NEW x
      PROVE  Past(Advanced[j], x) <=> Past(frames[j], x) \/ (j = n /\ x = TopStep)
  <2>1. CASE j = n
    <3>1. Past(g, x) <=> Past(Top, x) \/ x = Top.steps[Top.i]
      BY <1>1 DEF Past
    <3>2. Advanced[j] = g /\ frames[j] = Top
      BY <1>2, <1>5, <2>1
    <3> QED
      BY <2>1, <3>1, <3>2, Zenon DEF TopStep
  <2>2. CASE j # n
    <3>1. Advanced[j] = frames[j]
      BY <1>2, <1>5, <2>2
    <3> QED
      BY <2>2, <3>1, Zenon
  <2> QED
    BY <2>1, <2>2
<1> QED
  BY <1>1, <1>4, <1>5, <1>6, <1>7 DEF n

(* The running cleanup takes a lock.                                       *)
LEMMA StackEntered ==
    ASSUME frames \in Seq(Frames), frames # <<>>,
           frames' = Append(Front(frames), [Top EXCEPT !.in = TRUE])
    PROVE  /\ frames' \in Seq(Frames) /\ Len(frames') = Len(frames) /\ frames' # <<>>
           /\ DOMAIN frames' = DOMAIN frames
           /\ \A j \in DOMAIN frames :
                 /\ frames'[j].steps = frames[j].steps /\ frames'[j].i = frames[j].i
                 /\ frames'[j].own = frames[j].own /\ frames'[j].in \in BOOLEAN
<1> DEFINE g == [Top EXCEPT !.in = TRUE]
           r == Front(frames)
           n == Len(frames)
<1>1. /\ g \in Frames /\ g.steps = Top.steps /\ g.i = Top.i /\ g.own = Top.own
      /\ g.in = TRUE
  <2>1. Top \in Frames
    BY Stack
  <2>2. g \in Frames
    BY <2>1, FrameEnters
  <2>3. g.steps = Top.steps /\ g.i = Top.i /\ g.own = Top.own /\ g.in = TRUE
    BY <2>1 DEF Frames
  <2> QED
    BY <2>2, <2>3
<1>2. /\ n \in Nat \ {0} /\ DOMAIN frames = 1 .. n /\ Top = frames[n]
      /\ r \in Seq(Frames) /\ Len(r) = n - 1 /\ \A j \in 1 .. n - 1 : r[j] = frames[j]
  BY Stack
<1>3. \A j \in 1 .. n : frames[j].in \in BOOLEAN
  <2>1. \A j \in 1 .. n : frames[j] \in Frames
    BY ElementOfSeq
  <2> QED
    BY <2>1 DEF Frames
<1> HIDE DEF g, r, n
<1>4. frames' = Append(r, g)
  BY DEF g, r
<1>5. /\ frames' \in Seq(Frames) /\ frames' # <<>> /\ Len(frames') = Len(r) + 1
      /\ \A j \in 1 .. Len(r) : frames'[j] = r[j]
      /\ frames'[Len(r) + 1] = g
  <2> DEFINE e == Append(r, g)
  <2>1. /\ e \in Seq(Frames) /\ e # <<>> /\ Len(e) = Len(r) + 1
        /\ \A j \in 1 .. Len(r) : e[j] = r[j]
        /\ e[Len(r) + 1] = g
    BY <1>1, <1>2, AppendProperties
  <2>2. frames' = e
    BY <1>4
  <2> HIDE DEF e
  <2> QED
    BY <2>1, <2>2
<1>6. /\ Len(frames') = n /\ frames'[n] = g
      /\ \A j \in 1 .. n - 1 : frames'[j] = frames[j]
  BY <1>2, <1>5
<1>7. DOMAIN frames' = 1 .. n
  BY <1>5, <1>6, LenProperties
<1>8. ASSUME NEW j \in 1 .. n
      PROVE  /\ frames'[j].steps = frames[j].steps /\ frames'[j].i = frames[j].i
             /\ frames'[j].own = frames[j].own /\ frames'[j].in \in BOOLEAN
  <2>1. CASE j = n
    BY <1>1, <1>2, <1>6, <2>1
  <2>2. CASE j # n
    <3>1. j \in 1 .. n - 1
      BY <1>2, <2>2
    <3> QED
      BY <1>3, <1>6, <3>1
  <2> QED
    BY <2>1, <2>2
<1> QED
  BY <1>2, <1>5, <1>6, <1>7, <1>8 DEF n

(* A cleanup on top of the others.                                         *)
LEMMA StackPushed ==
    ASSUME NEW s \in Seq(Frames), NEW f \in Frames
    PROVE  /\ Append(s, f) \in Seq(Frames) /\ Append(s, f) # <<>>
           /\ Len(Append(s, f)) = Len(s) + 1 /\ Len(s) \in Nat
           /\ DOMAIN Append(s, f) = 1 .. Len(s) + 1
           /\ \A j \in 1 .. Len(s) : Append(s, f)[j] = s[j]
           /\ Append(s, f)[Len(s) + 1] = f
  BY AppendProperties, LenProperties

(* The only cleanup.                                                       *)
LEMMA Single ==
    ASSUME NEW f \in Frames
    PROVE  <<f>> \in Seq(Frames) /\ <<f>> # <<>> /\ Len(<<f>>) = 1 /\ DOMAIN <<f>> = {1}
           /\ <<f>>[1] = f
  OBVIOUS

GoAction == 
    \/ OpenDevice \/ AddRule \/ SkipOptional \/ Install \/ Flush \/ SetFlag
    \/ SetHandlers \/ Register

RunsAction == Live \/ Wait \/ CreateFails \/ Stopped \/ Exit \/ Joined

AdvanceAction ==
    \/ RemoveRule \/ Undo \/ StopListening \/ CloseDevice \/ ForgetDevice
    \/ SetEvent \/ RestoreHandlers \/ PassBy

(* The branch taken, and how far its set-up is.                            *)
LEMMA ModeKinds ==
    ASSUME Typed
    PROVE  mode \in Kinds /\ Len(Setup[mode]) \in Nat /\ at \in 1 .. Len(Setup[mode]) + 1
<1>1. mode \in Kinds
  BY DEF Typed, TypeOK, Modes, Kinds
<1>2. Len(Setup[mode]) \in Nat
  BY <1>1, TunSteps, OtherSteps DEF Kinds
<1> QED
  BY <1>1, <1>2 DEF Typed, TypeOK

(* A step of the set-up.                                                   *)
LEMMA Going ==
    ASSUME Typed, Working, Go
    PROVE  /\ at \in 1 .. Len(Setup[mode]) /\ at' = at + 1
           /\ mode' = mode /\ before' = before /\ platform' = platform
           /\ phase = "setup" /\ phase' = "setup" /\ frames = <<>> /\ frames' = <<>>
           /\ sessions' = sessions /\ signals' = signals
           /\ \A x : Placed(x)' <=> (Placed(x) \/ x = Step)
           /\ ~Placed(Step)
<1>1. /\ at \in 1 .. Len(Setup[mode]) /\ at' = at + 1
      /\ mode' = mode /\ before' = before /\ platform' = platform
      /\ phase = "setup" /\ phase' = "setup" /\ frames = <<>> /\ frames' = <<>>
      /\ sessions' = sessions /\ signals' = signals
  BY ModeKinds DEF Working, Go, chosen, bounds
<1>2. \A x : Placed(x)' <=> (Placed(x) \/ x = Step)
  BY <1>1, ModeKinds DEF Placed, Step
<1>3. ~Placed(Step)
  BY <1>1, ModeKinds, StepsDiffer DEF Placed, Step
<1> QED
  BY <1>1, <1>2, <1>3

(* What a step of the set-up changes.                                      *)
LEMMA GoEffect ==
    ASSUME Typed, GoAction
    PROVE  /\ Working /\ Go /\ event' = event
           /\ \/ rules' = rules /\ Step \notin ToSet(Rules4)
              \/ rules' = Append(rules, Step) /\ Step \in Firewall
           /\ IF Step \in Items THEN installed' = installed \cup {Step} /\ CanInstall(Step)
                                ELSE installed' = installed
           /\ fd' = IF Step = "fd" THEN "open" ELSE fd
           /\ known' = known \cup (CASE Step = "rulesAdded" -> Routed
                                     [] Step = "iptablesAdded" -> ToSet(Rules6)
                                     [] OTHER -> {})
           /\ handler' = (Step = "handler" \/ handler)
           /\ registered' = IF Step = "atexit" THEN registered \cup {sessions} ELSE registered
<1> USE StepsOfSets DEF Items, Lasting, Routed, Device, Services, Optional, system
<1> handler \in BOOLEAN
  BY DEF Typed, TypeOK
<1>1. CASE OpenDevice
  BY <1>1 DEF OpenDevice
<1>2. CASE AddRule
  BY <1>2 DEF AddRule
<1>3. CASE SkipOptional
  BY <1>3 DEF SkipOptional
<1>4. CASE Install
  BY <1>4 DEF Install
<1>5. CASE Flush
  BY <1>5 DEF Flush
<1>6. CASE SetFlag
  BY <1>6 DEF SetFlag
<1>7. CASE SetHandlers
  BY <1>7 DEF SetHandlers
<1>8. CASE Register
  BY <1>8 DEF Register
<1> QED
  BY <1>1, <1>2, <1>3, <1>4, <1>5, <1>6, <1>7, <1>8 DEF GoAction

(* The steps that only change where the main thread is.                    *)
LEMMA RunsEffect ==
    ASSUME Typed, RunsAction
    PROVE  /\ UNCHANGED <<at, frames, chosen, system, known, handler, event, registered, bounds>>
           /\ frames = <<>>
           /\ \/ phase = "setup" /\ at > Len(Setup[mode]) /\ phase' = "locking"
              \/ phase = "locking" /\ phase' = "live"
              \/ Working /\ Step \in ToSet(Create) /\ phase' = "failed"
              \/ phase \in {"locking", "live"} /\ event /\ phase' = "stopped"
              \/ phase \in {"stopped", "failed"} /\ phase' = "joining"
              \/ phase = "joining" /\ phase' = "exiting"
<1>1. phase \in {"stopped", "failed"} => frames = <<>>
  BY DEF Typed, TypeOK, Interruptible
<1> QED
  BY <1>1 DEF RunsAction, Live, Wait, CreateFails, Stopped, Exit, Joined, Runs, Working

(* A step of a cleanup.                                                    *)
LEMMA InFrames ==
    ASSUME Typed, FramesFit, frames # <<>>
    PROVE  /\ Len(frames) \in Nat \ {0} /\ DOMAIN frames = 1 .. Len(frames)
           /\ Top = frames[Len(frames)] /\ Top \in Frames
           /\ Top.i \in 1 .. Len(Top.steps) + 1 /\ Len(Top.steps) \in Nat
           /\ Top.steps = IF phase = "undoing" THEN TunCleanup ELSE Cleanup[mode]
           /\ mode \in Kinds /\ Top.own \in BOOLEAN
           /\ Top.own \/ phase = "exiting"
<1>1. /\ Len(frames) \in Nat \ {0} /\ DOMAIN frames = 1 .. Len(frames)
      /\ Top = frames[Len(frames)] /\ Top \in Frames
  BY Stack DEF Typed
<1>2. Top.i \in 1 .. Len(Top.steps) + 1 /\ (Top.own \/ phase = "exiting")
  <2>1. Top \in ToSet(frames)
    BY <1>1 DEF ToSet
  <2> QED
    BY <2>1 DEF Typed, TypeOK
<1>3. Top.steps = IF phase = "undoing" THEN TunCleanup ELSE Cleanup[mode]
  BY <1>1 DEF FramesFit
<1>4. Len(Top.steps) \in Nat
  BY <1>3, ModeKinds, TunCleanupSteps, CleanupTunSteps, CleanupOtherSteps DEF Kinds
<1> QED
  BY <1>1, <1>2, <1>3, <1>4, ModeKinds DEF Frames

(* The running cleanup does a step.                                        *)
LEMMA Advancing ==
    ASSUME Typed, FramesFit, InCleanup, frames' = Advanced
    PROVE  /\ frames' \in Seq(Frames) /\ Len(frames') = Len(frames) /\ frames' # <<>>
           /\ DOMAIN frames' = DOMAIN frames
           /\ \A j \in DOMAIN frames :
                 frames'[j].steps = frames[j].steps /\ frames'[j].own = frames[j].own
           /\ \A j \in DOMAIN frames :
                frames'[j].i = IF j = Len(frames) THEN Top.i + 1 ELSE frames[j].i
           /\ \A j \in DOMAIN frames : \A x :
                Past(frames'[j], x) <=>
                    (Past(frames[j], x) \/ (j = Len(frames) /\ x = TopStep))
<1>1. frames \in Seq(Frames) /\ frames # <<>> /\ Top.i >= 1
  BY InFrames DEF InCleanup, Typed
<1>2. DOMAIN frames = 1 .. Len(frames) /\ Len(frames) \in Nat \ {0} /\ Top = frames[Len(frames)]
  BY <1>1, InFrames
<1>3. /\ Advanced \in Seq(Frames) /\ Len(Advanced) = Len(frames) /\ Advanced # <<>>
      /\ DOMAIN Advanced = DOMAIN frames
      /\ \A j \in 1 .. Len(frames) - 1 : Advanced[j] = frames[j]
      /\ Advanced[Len(frames)].steps = Top.steps
      /\ Advanced[Len(frames)].i = Top.i + 1 /\ Advanced[Len(frames)].own = Top.own
      /\ \A j \in DOMAIN frames : \A x :
            Past(Advanced[j], x) <=>
                (Past(frames[j], x) \/ (j = Len(frames) /\ x = TopStep))
  BY <1>1, StackAdvanced
<1>4. ASSUME NEW j \in DOMAIN frames
      PROVE  /\ Advanced[j].steps = frames[j].steps /\ Advanced[j].own = frames[j].own
             /\ Advanced[j].i = IF j = Len(frames) THEN Top.i + 1 ELSE frames[j].i
  BY <1>2, <1>3
<1> QED
  BY <1>3, <1>4

(* A cleanup only takes away.                                              *)
Fewer ==
    /\ before' = before /\ rules' \in Seq(Firewall)
    /\ \A x \in Firewall : Occurs(rules', x) <= Occurs(rules, x)
    /\ installed' \cap (Lasting \cup Device \cup {"proxy", "dns"}) \subseteq installed
    /\ fd' = "open" => fd = "open"

(* What is clean stays clean.                                              *)
LEMMA FewerClean ==
    ASSUME Typed, Fewer, NEW x \in Traces, Clean(x)
    PROVE  Clean(x)'
<1>1. CASE x \in Firewall
  <2>1. Occurs(rules, x) \in Nat /\ Occurs(rules', x) \in Nat /\ Occurs(before.rules, x) \in Nat
    BY OccursNat DEF Fewer, Typed, TypeOK
  <2> QED
    BY <1>1, <2>1 DEF Fewer, Clean
<1>2. CASE x \notin Firewall
  BY <1>2 DEF Fewer, Clean, Traces
<1> QED
  BY <1>1, <1>2

(* The services do not matter to what stays.                               *)
LEMMA SameClean ==
    ASSUME rules' = rules, installed' \cap Lasting = installed \cap Lasting, before' = before,
           NEW x \in Traces
    PROVE  Clean(x)' <=> Clean(x)
  BY DEF Clean, Traces

(* What a step of a cleanup changes.                                       *)
LEMMA AdvanceEffect ==
    ASSUME Typed, AdvanceAction
    PROVE  /\ InCleanup /\ Advance /\ known' = known /\ registered' = registered
           /\ rules' = IF TopStep \in Firewall \ (ToSet(Rules6) \ known)
                       THEN Without(rules, TopStep) ELSE rules
           /\ installed' \subseteq installed \cup {"proxyAccept", "localAccept"}
           /\ TopStep \in Lasting \ (Routed \ known) => TopStep \notin installed'
           /\ TopStep = "proxy" /\ Top.own => "proxy" \notin installed'
           /\ "ruleMark" \in installed \ installed' => TopStep = "ruleMark" /\ "ruleMark" \in known
           /\ fd' = CASE Top.own /\ TopStep = "fd" /\ fd = "open" -> "closed"
                      [] Top.own /\ TopStep = "forget" -> "none"
                      [] OTHER -> fd
           /\ Top.own /\ TopStep = "fd" /\ fd = "open" => installed' \cap Device = {}
           /\ IF Top.own /\ TopStep = "event" THEN event' = TRUE ELSE event' = event
           /\ IF TopStep = "restore" THEN handler' = FALSE ELSE handler' = handler
<1> DEFINE E1 == InCleanup /\ Advance /\ known' = known /\ registered' = registered
           E2 == rules' = IF TopStep \in Firewall \ (ToSet(Rules6) \ known)
                          THEN Without(rules, TopStep) ELSE rules
           E3 == /\ installed' \subseteq installed \cup {"proxyAccept", "localAccept"}
                 /\ TopStep \in Lasting \ (Routed \ known) => TopStep \notin installed'
                 /\ TopStep = "proxy" /\ Top.own => "proxy" \notin installed'
                 /\ "ruleMark" \in installed \ installed' =>
                        TopStep = "ruleMark" /\ "ruleMark" \in known
           E4 == /\ fd' = CASE Top.own /\ TopStep = "fd" /\ fd = "open" -> "closed"
                            [] Top.own /\ TopStep = "forget" -> "none"
                            [] OTHER -> fd
                 /\ Top.own /\ TopStep = "fd" /\ fd = "open" => installed' \cap Device = {}
           E5 == /\ IF Top.own /\ TopStep = "event" THEN event' = TRUE ELSE event' = event
                 /\ IF TopStep = "restore" THEN handler' = FALSE ELSE handler' = handler
<1>0. TopStep \in Services \cup {"fd", "forget", "event"} /\ Finds => Top.own
  BY DEF Finds
<1> USE StepsOfSets DEF system, Items, Lasting, Routed, Device, Services, Accepting
<1>1. CASE RemoveRule
  BY <1>1 DEF RemoveRule, Ready
<1>2. CASE Undo
  <2>1. TopStep \notin Firewall \cup {"fd", "forget", "event", "restore", "proxy", "local"}
    BY <1>2 DEF Undo
  <2>2. E1 /\ E2 /\ E4 /\ E5
    BY <1>2, <2>1 DEF Undo, Ready
  <2>3. E3
    BY <1>2, <2>1 DEF Undo, Removed
  <2> QED
    BY <2>2, <2>3
<1>3. CASE StopListening
  BY <1>3 DEF StopListening, Ready
<1>4. CASE CloseDevice
  BY <1>0, <1>4 DEF CloseDevice, Ready
<1>5. CASE ForgetDevice
  BY <1>0, <1>5 DEF ForgetDevice, Ready
<1>6. CASE SetEvent
  BY <1>0, <1>6 DEF SetEvent, Ready
<1>7. CASE RestoreHandlers
  BY <1>7 DEF RestoreHandlers, Ready
<1>8. CASE PassBy
  <2>1. ~Top.own /\ TopStep \in Services \cup {"fd", "forget", "event"}
    BY <1>8 DEF PassBy, Finds
  <2> QED
    BY <1>8, <2>1 DEF PassBy
<1> QED
  BY <1>1, <1>2, <1>3, <1>4, <1>5, <1>6, <1>7, <1>8 DEF AdvanceAction

(* No step of a cleanup adds to what may stay.                             *)
LEMMA AdvanceTakesAway ==
    ASSUME Typed, AdvanceAction
    PROVE  Fewer
<1>1. /\ rules \in Seq(Firewall) /\ Occurs(rules, TopStep) \in Nat
      /\ Without(rules, TopStep) \in Seq(Firewall)
      /\ \A x : Occurs(Without(rules, TopStep), x) <= Occurs(rules, x)
      /\ \A x : Occurs(rules, x) \in Nat
  BY OccursNat, OccursWithout DEF Typed, TypeOK
<1>2. /\ rules' = rules \/ rules' = Without(rules, TopStep)
      /\ installed' \subseteq installed \cup {"proxyAccept", "localAccept"}
      /\ fd' = "open" => fd = "open"
      /\ before' = before
  BY AdvanceEffect DEF Advance, chosen
<1>3. /\ rules' \in Seq(Firewall)
      /\ \A x \in Firewall : Occurs(rules', x) <= Occurs(rules, x)
  BY <1>1, <1>2
<1>4. installed' \cap (Lasting \cup Device \cup {"proxy", "dns"}) \subseteq installed
  BY <1>2 DEF Lasting, Routed, Device
<1> QED
  BY <1>2, <1>3, <1>4 DEF Fewer

(* The main thread waits, fails to create the device, stops, or leaves.    *)
LEMMA RunsKeeps ==
    ASSUME IInv, RunsAction
    PROVE  IInv'
<1> USE DEF IInv
<1>1. /\ UNCHANGED <<at, frames, mode, platform, before, rules, installed, fd, known>>
      /\ UNCHANGED <<handler, event, registered, sessions, signals>>
      /\ frames = <<>>
      /\ \/ phase = "setup" /\ at > Len(Setup[mode]) /\ phase' = "locking"
         \/ phase = "locking" /\ phase' = "live"
         \/ Working /\ Step \in ToSet(Create) /\ phase' = "failed"
         \/ phase \in {"locking", "live"} /\ event /\ phase' = "stopped"
         \/ phase \in {"stopped", "failed"} /\ phase' = "joining"
         \/ phase = "joining" /\ phase' = "exiting"
  BY RunsEffect DEF chosen, system, bounds
<1>2. /\ \A x : Placed(x)' <=> Placed(x)
      /\ \A x : Clean(x)' <=> Clean(x)
      /\ Step' = Step
  BY <1>1 DEF Placed, Clean, Step
<1>3. ASSUME Working, Step \in ToSet(Create)
      PROVE  /\ mode = "tun" /\ at \in 1 .. 2 /\ phase = "setup" /\ frames = <<>>
             /\ ~Placed("handler") /\ ~Placed("device") /\ ~Placed("proxy")
             /\ (Step = "fd" => ~Placed("fd")) /\ Step \in {"fd", "device"}
             /\ \A x \in Traces : ~Placed(x)
  <2>1. /\ at \in 1 .. Len(Setup[mode]) /\ mode \in Kinds /\ Step \in {"fd", "device"}
        /\ phase = "setup" /\ frames = <<>>
    BY <1>3, ModeKinds, StepsOfSets DEF Working
  <2>2. mode = "tun"
    BY <2>1, InOthers DEF Kinds
  <2>3. at \in 1 .. 2 /\ (Step = "fd" => at = 1)
    BY <2>1, <2>2, StepInTun
  <2>4. at \in 1 .. Len(Setup[mode]) + 1
    BY ModeKinds
  <2> QED
    BY <2>1, <2>2, <2>3, <2>4, InTun DEF Traces, Lasting, Routed
<1>4. phase' = "failed" => Working /\ Step \in ToSet(Create)
  BY <1>1
<1>5. phase' \in {"locking", "live", "stopped"} => at > Len(Setup[mode])
  BY <1>1 DEF Typed, TypeOK
<1>6. Typed'
  BY <1>1, <1>5 DEF Typed, TypeOK, Modes, Working
<1>7. FramesFit'
  BY <1>1, <1>2 DEF FramesFit
<1>8. Undisturbed'
  BY <1>1, <1>2, <1>3 DEF Undisturbed
<1>9. HandlersGone'
  BY <1>1, <1>3 DEF HandlersGone, Undisturbed
<1>10. FlagsSet'
  BY <1>1, <1>2 DEF FlagsSet
<1>11. AddedOnce'
  BY <1>1, <1>2 DEF AddedOnce
<1>12. Swept'
  BY <1>1 DEF Swept
<1>13. CleanOnceOver'
  BY <1>1, <1>2, <1>3 DEF CleanOnceOver, Told, Undisturbed
<1>14. FailedClean'
  BY <1>2, <1>3, <1>4 DEF AddedOnce, FailedClean
<1>15. DeviceOpen'
  BY <1>1, <1>2, <1>3 DEF DeviceOpen
<1>16. ExemptFirst'
  BY <1>1, <1>2, <1>3 DEF ExemptFirst, SettingUpRules
<1> QED
  BY <1>6, <1>7, <1>8, <1>9, <1>10, <1>11, <1>12, <1>13, <1>14, <1>15, <1>16

(* Connections come and go.                                                *)
LEMMA ClientsKeep ==
    ASSUME IInv, Clients
    PROVE  IInv'
<1> USE DEF IInv
<1>1. /\ UNCHANGED <<at, frames, mode, platform, before, rules, fd, known>>
      /\ UNCHANGED <<phase, handler, event, registered, sessions, signals>>
      /\ installed' \subseteq installed \cup {"worker"}
      /\ phase \in {"exited", "died"} => installed' \subseteq installed
      /\ installed' \cap (Lasting \cup Device \cup {"proxy", "dns"})
            = installed \cap (Lasting \cup Device \cup {"proxy", "dns"})
  <2>1. CASE Wake
    BY <2>1 DEF Wake, chosen, program, bounds, Lasting, Device, Routed
  <2>2. CASE ClientComes
    BY <2>2 DEF ClientComes, chosen, program, bounds, Lasting, Device, Routed, DeviceOpen
  <2>3. CASE ClientGoes
    BY <2>3 DEF ClientGoes, chosen, program, bounds, Lasting, Device, Routed
  <2> QED
    BY <2>1, <2>2, <2>3 DEF Clients
<1>2. \A x : x \in Lasting \cup Device \cup {"proxy"} => (x \in installed' <=> x \in installed)
  BY <1>1
<1>3. "ruleMark" \in Lasting /\ "ruleTable" \in Lasting
  BY DEF Lasting, Routed
<1>4. /\ \A x : Placed(x)' <=> Placed(x)
      /\ \A x \in Traces : Clean(x)' <=> Clean(x)
      /\ Step' = Step
  BY <1>1, <1>2 DEF Placed, Clean, Step, Traces
<1>5. \A j, x : LeftAbove(j, x)' <=> LeftAbove(j, x)
  BY <1>1 DEF LeftAbove
<1>6. Typed'
  BY <1>1 DEF Typed, TypeOK, Modes, Items, Services
<1>7. FramesFit'
  BY <1>1, <1>4 DEF FramesFit
<1>8. Undisturbed'
  BY <1>1, <1>4 DEF Undisturbed
<1>9. HandlersGone'
  BY <1>1 DEF HandlersGone
<1>10. FlagsSet'
  BY <1>1, <1>4 DEF FlagsSet
<1>11. AddedOnce'
  BY <1>1, <1>4 DEF AddedOnce
<1>12. Swept'
  BY <1>1, <1>2, <1>3, <1>4, <1>5 DEF Swept, Removable
<1>13. CleanOnceOver'
  BY <1>1, <1>2, <1>4 DEF CleanOnceOver, Told
<1>14. FailedClean'
  BY <1>1, <1>4 DEF FailedClean
<1>15. DeviceOpen'
  BY <1>1, <1>4 DEF DeviceOpen
<1>16. ExemptFirst'
  BY <1>1, <1>2, <1>3, <1>4 DEF ExemptFirst, SettingUpRules
<1> QED
  BY <1>6, <1>7, <1>8, <1>9, <1>10, <1>11, <1>12, <1>13, <1>14, <1>15, <1>16

(* The chain after iptables -A.                                            *)
LEMMA RuleAppended ==
    ASSUME Typed, NEW y \in Firewall
    PROVE  /\ Append(rules, y) \in Seq(Firewall)
           /\ \A x : Occurs(Append(rules, y), x) = Occurs(rules, x) + (IF y = x THEN 1 ELSE 0)
           /\ \A x : Occurs(rules, x) \in Nat /\ Occurs(before.rules, x) \in Nat
           /\ \A i \in DOMAIN rules :
                 i \in DOMAIN Append(rules, y) /\ Append(rules, y)[i] = rules[i]
           /\ DOMAIN rules = 1 .. Len(rules) /\ Len(rules) \in Nat
           /\ ToSet(Append(rules, y)) = ToSet(rules) \cup {y}
<1>1. rules \in Seq(Firewall) /\ before.rules \in Seq(Firewall)
  BY DEF Typed, TypeOK
<1>2. /\ Append(rules, y) \in Seq(Firewall)
      /\ DOMAIN Append(rules, y) = 1 .. Len(rules) + 1
      /\ DOMAIN rules = 1 .. Len(rules) /\ Len(rules) \in Nat
      /\ \A i \in 1 .. Len(rules) : Append(rules, y)[i] = rules[i]
      /\ Append(rules, y)[Len(rules) + 1] = y
  BY <1>1, AppendProperties, LenProperties
<1>3. \A x : Occurs(Append(rules, y), x) = Occurs(rules, x) + (IF y = x THEN 1 ELSE 0)
  BY <1>1, OccursAppend
<1>4. \A x : Occurs(rules, x) \in Nat /\ Occurs(before.rules, x) \in Nat
  BY <1>1, OccursNat
<1>5. ToSet(Append(rules, y)) = ToSet(rules) \cup {y}
  BY <1>2 DEF ToSet
<1> QED
  BY <1>2, <1>3, <1>4, <1>5

(* What is a rule is not an item, and neither is a flag.                   *)
LEMMA SetsApart ==
    /\ Items \cap (Firewall \cup {"fd", "rulesAdded", "iptablesAdded", "atexit", "handler"}) = {}
    /\ Routed \cap ToSet(Rules6) = {} /\ Device \cap Traces = {}
    /\ Traces \subseteq Items \cup Firewall /\ Lasting \subseteq Items /\ Device \subseteq Items
    /\ "ruleMark" \in Routed /\ "ruleTable" \in Routed /\ Routed \subseteq Lasting
    /\ "proxy" \in Items \ (Traces \cup Device) /\ "device" \in Device
    /\ {"natTcp", "natMark"} \subseteq ToSet(Rules4) /\ ToSet(Rules4) \subseteq Firewall
    /\ {"atexit", "handler", "fd", "proxy"} \cap Firewall = {}
  BY StepsOfSets DEF Items, Lasting, Routed, Device, Services, Traces

(* A step of the set-up.                                                   *)
LEMMA GoKeeps ==
    ASSUME IInv, GoAction
    PROVE  IInv'
<1> USE DEF IInv
<1>1. /\ Working /\ Go /\ event' = event
      /\ \/ rules' = rules /\ Step \notin ToSet(Rules4)
         \/ rules' = Append(rules, Step) /\ Step \in Firewall
      /\ IF Step \in Items THEN installed' = installed \cup {Step} /\ CanInstall(Step)
                           ELSE installed' = installed
      /\ fd' = IF Step = "fd" THEN "open" ELSE fd
      /\ known' = known \cup (CASE Step = "rulesAdded" -> Routed
                                [] Step = "iptablesAdded" -> ToSet(Rules6)
                                [] OTHER -> {})
      /\ handler' = (Step = "handler" \/ handler)
      /\ registered' = IF Step = "atexit" THEN registered \cup {sessions} ELSE registered
  BY GoEffect
<1>2. /\ at \in 1 .. Len(Setup[mode]) /\ at' = at + 1
      /\ mode' = mode /\ before' = before /\ platform' = platform
      /\ phase = "setup" /\ phase' = "setup" /\ frames = <<>> /\ frames' = <<>>
      /\ sessions' = sessions /\ signals' = signals
      /\ \A x : Placed(x)' <=> (Placed(x) \/ x = Step)
      /\ ~Placed(Step)
  BY <1>1, Going
<1>3. mode \in Kinds /\ Len(Setup[mode]) \in Nat /\ at \in 1 .. Len(Setup[mode]) + 1
  BY ModeKinds
(* Where the set-up is, as far as it matters here.                         *)
<1>4. /\ Step \in Firewall \cup Routed \cup Device
              \cup {"fd", "rulesAdded", "iptablesAdded", "proxy", "dns", "atexit"} => mode = "tun"
      /\ Step = "atexit" <=> Placed("handler")
      /\ Step = "fd" => ~Placed("device")
      /\ Step \in Device => Placed("fd") /\ (Placed("device") \/ Step = "device")
      /\ Step = "ruleTable" => Placed("ruleMark")
      /\ Step = "natTcp" => Placed("natMark")
      /\ Step = "atexit" => Placed("proxy")
  <2>1. CASE mode = "tun"
    BY <1>2, <1>3, <2>1, InTun, StepInTun, TunSteps
  <2>2. CASE mode # "tun"
    BY <1>2, <1>3, <2>2, InOthers, StepsOfSets DEF Routed, Device
  <2> QED
    BY <2>1, <2>2
<1>5. ASSUME NEW x \in Traces
      PROVE  /\ x # Step /\ Clean(x) => Clean(x)'
             /\ x = Step => Placed(x)'
             /\ Placed(x) => Placed(x)'
  <2>1. CASE x \in Firewall
    <3>1. \/ rules' = rules
          \/ /\ Step \in Firewall /\ rules' = Append(rules, Step)
             /\ Occurs(rules', x) = Occurs(rules, x) + (IF Step = x THEN 1 ELSE 0)
             /\ Occurs(rules, x) \in Nat
      BY <1>1, RuleAppended
    <3> QED
      BY <1>2, <2>1, <3>1 DEF Clean
  <2>2. CASE x \notin Firewall
    BY <1>1, <1>2, <2>2 DEF Clean
  <2> QED
    BY <2>1, <2>2
<1>6. Typed'
  <2>0. Step \in Firewall => Append(rules, Step) \in Seq(Firewall)
    BY RuleAppended
  <2>1. rules' \in Seq(Firewall)
    BY <1>1, <2>0 DEF Typed, TypeOK
  <2>2. /\ installed' \subseteq Items /\ known' \subseteq Routed \cup ToSet(Rules6)
        /\ known' \cap Routed \in {{}, Routed}
        /\ fd' \in {"none", "open", "closed"} /\ handler' \in BOOLEAN
    BY <1>1, SetsApart DEF Typed, TypeOK
  <2>3. registered' \subseteq 1 .. sessions /\ ToSet(frames') = {}
    BY <1>1, <1>2 DEF Typed, TypeOK, ToSet
  <2>4. at' \in 1 .. Len(Setup[mode]) + 1
    BY <1>2, <1>3
  <2> QED
    BY <1>1, <1>2, <2>1, <2>2, <2>3, <2>4 DEF Typed, TypeOK, Modes
<1>7. FramesFit'
  BY <1>1, <1>2, <1>4 DEF FramesFit, Typed, TypeOK
<1>8. Undisturbed'
  BY <1>1, <1>2 DEF Undisturbed
<1>9. HandlersGone'
  <2>1. Step = "handler" => ~event
    BY <1>2 DEF Undisturbed
  <2>2. event' => ~handler'
    BY <1>1, <1>2, <2>1 DEF HandlersGone
  <2> QED
    BY <1>2, <2>2 DEF HandlersGone
<1>10. FlagsSet'
  BY <1>1, <1>2 DEF FlagsSet
<1>11. AddedOnce'
  <2>1. \A x \in Traces : (Clean(x) \/ Placed(x))'
    BY <1>5 DEF AddedOnce
  <2>2. ASSUME NEW x \in Firewall
        PROVE  Occurs(rules', x) <= Occurs(before.rules, x) + 1
    <3>1. CASE rules' = rules
      BY <3>1 DEF AddedOnce
    <3>2. CASE rules' = Append(rules, Step) /\ Step \in Firewall
      <4>1. /\ Occurs(rules', x) = Occurs(rules, x) + (IF Step = x THEN 1 ELSE 0)
            /\ Occurs(rules, x) \in Nat /\ Occurs(before.rules, x) \in Nat
        BY <3>2, RuleAppended
      <4>2. Step = x => Clean(x)
        BY <1>2 DEF AddedOnce, Traces
      <4> QED
        BY <4>1, <4>2 DEF AddedOnce, Clean
    <3> QED
      BY <1>1, <3>1, <3>2
  <2> QED
    BY <1>2, <2>1, <2>2 DEF AddedOnce
<1>12. Swept'
  BY <1>2 DEF Swept
<1>13. CleanOnceOver'
  <2>1. CASE Step = "atexit"
    <3>1. /\ rules' = rules /\ installed' = installed /\ fd' = fd /\ (handler => handler')
          /\ Placed("handler")
      BY <1>1, <1>4, <2>1, SetsApart
    <3> QED
      BY <1>1, <1>2, <3>1 DEF CleanOnceOver, Told, Clean
  <2>2. CASE Step # "atexit"
    <3>1. ~Placed("handler") /\ ~event
      BY <1>2, <1>4, <2>2 DEF Undisturbed
    <3> QED
      BY <1>1, <1>2, <3>1 DEF CleanOnceOver, Told
  <2> QED
    BY <2>1, <2>2
<1>14. FailedClean'
  BY <1>2 DEF FailedClean
<1>15. DeviceOpen'
  <2>1. Step \in Device => fd = "open" /\ fd' = "open"
    <3>1. Step \in Device => Placed("fd") /\ ~Placed("handler") /\ Step # "fd"
      BY <1>4, SetsApart
    <3> QED
      BY <1>1, <1>2, <3>1 DEF DeviceOpen
  <2>2. installed' \cap Device \subseteq (installed \cap Device) \cup ({Step} \cap Device)
    BY <1>1
  <2>3. installed \cap Device # {} => fd' = "open"
    BY <1>1 DEF DeviceOpen
  <2>4. installed' \cap Device # {} => fd' = "open"
    BY <2>1, <2>2, <2>3
  <2>5. mode' # "tun" => fd' # "open"
    BY <1>1, <1>2, <1>4 DEF DeviceOpen
  <2>6. ~Placed("fd")' => fd' = "none"
    BY <1>1, <1>2 DEF DeviceOpen
  <2>7. ~Placed("device")' => installed' \cap Device = {}
    BY <1>1, <1>2, <1>4, <2>2 DEF DeviceOpen
  <2>8. Placed("fd")' /\ ~Placed("handler")' => fd' = "open"
    BY <1>1, <1>2 DEF DeviceOpen
  <2> QED
    BY <1>2, <2>4, <2>5, <2>6, <2>7, <2>8 DEF DeviceOpen
<1>16. ExemptFirst'
  <2>1. /\ mode' # "tun" => "proxy" \notin installed'
        /\ ~Placed("proxy")' => "proxy" \notin installed'
    BY <1>1, <1>2, <1>4 DEF ExemptFirst
  <2>2. Exempt(before.rules) /\ ("proxy" \in installed' \/ ~event') => Exempt(rules')
    <3>1. SUFFICES ASSUME Exempt(before.rules), "proxy" \in installed' \/ ~event
                   PROVE  Exempt(rules')
      BY <1>1
    <3>2. Exempt(rules)
      <4>1. CASE ~event
        BY <1>2, <3>1, <4>1 DEF ExemptFirst
      <4>2. CASE event
        <5>1. Placed("handler") /\ Step = "atexit"
          BY <1>2, <1>4, <4>2 DEF Undisturbed
        <5> QED
          BY <1>1, <1>2, <3>1, <4>2, <5>1, SetsApart DEF ExemptFirst
      <4> QED
        BY <4>1, <4>2
    <3>3. CASE rules' = rules
      BY <3>2, <3>3
    <3>4. CASE rules' = Append(rules, Step) /\ Step \in Firewall
      <4>1. /\ \A i \in DOMAIN rules : i \in DOMAIN rules' /\ rules'[i] = rules[i]
            /\ DOMAIN rules = 1 .. Len(rules) /\ Len(rules) \in Nat
            /\ ToSet(rules') = ToSet(rules) \cup {Step}
        BY <3>4, RuleAppended
      <4>2. CASE "natTcp" \in ToSet(rules)
        <5>1. PICK i \in DOMAIN rules :
                     rules[i] = "natMark" /\ \A j \in 1 .. i : rules[j] # "natTcp"
          BY <3>2, <4>2 DEF Exempt
        <5>2. i \in DOMAIN rules' /\ rules'[i] = "natMark" /\ \A j \in 1 .. i : rules'[j] # "natTcp"
          BY <4>1, <5>1
        <5> QED
          BY <5>2 DEF Exempt
      <4>3. CASE "natTcp" \notin ToSet(rules) /\ Step = "natTcp"
        <5>1. SettingUpRules /\ Placed("natMark")
          BY <1>2, <1>4, <4>3 DEF SettingUpRules
        <5>2. PICK i \in DOMAIN rules : rules[i] = "natMark"
          BY <5>1 DEF ExemptFirst, ToSet
        <5>3. \A j \in 1 .. i : rules[j] # "natTcp"
          BY <4>1, <4>3, <5>2 DEF ToSet
        <5>4. i \in DOMAIN rules' /\ rules'[i] = "natMark" /\ \A j \in 1 .. i : rules'[j] # "natTcp"
          BY <4>1, <5>2, <5>3
        <5> QED
          BY <5>4 DEF Exempt
      <4>4. CASE "natTcp" \notin ToSet(rules) /\ Step # "natTcp"
        BY <4>1, <4>4 DEF Exempt
      <4> QED
        BY <4>2, <4>3, <4>4
    <3> QED
      BY <1>1, <3>3, <3>4
  <2>3. SettingUpRules' /\ Placed("natMark")' => "natMark" \in ToSet(rules')
    <3>1. ToSet(rules') = ToSet(rules) \/ ToSet(rules') = ToSet(rules) \cup {Step}
      BY <1>1, RuleAppended
    <3>2. Step = "natMark" => ToSet(rules') = ToSet(rules) \cup {Step}
      BY <1>1, SetsApart, RuleAppended
    <3> QED
      BY <1>2, <3>1, <3>2 DEF ExemptFirst, SettingUpRules
  <2>4. "ruleTable" \in installed' => "ruleMark" \in installed'
    <3>1. Step = "ruleTable" => "ruleMark" \in installed
      BY <1>2, <1>4 DEF ExemptFirst, SettingUpRules
    <3> QED
      BY <1>1, <3>1 DEF ExemptFirst
  <2>5. SettingUpRules' /\ Placed("ruleMark")' => "ruleMark" \in installed'
    <3>1. "ruleMark" \in Items
      BY DEF Items, Lasting, Routed
    <3> QED
      BY <1>1, <1>2, <3>1 DEF ExemptFirst, SettingUpRules
  <2> QED
    BY <1>1, <1>2, <2>1, <2>2, <2>3, <2>4, <2>5 DEF ExemptFirst
<1> QED
  BY <1>6, <1>7, <1>8, <1>9, <1>10, <1>11, <1>12, <1>13, <1>14, <1>15, <1>16

(* What the running cleanup has passed, by the step it is at.              *)
LEMMA TopPassed ==
    ASSUME Typed, FramesFit, InCleanup
    PROVE  /\ TopStep \in Firewall /\ phase # "undoing" => Past(Top, "proxy") /\ mode = "tun"
           /\ TopStep = "ruleMark" => Past(Top, "ruleTable")
           /\ TopStep = "forget" => Past(Top, "fd")
           /\ TopStep \in {"proxy", "event", "restore"} => phase # "undoing"
           /\ TopStep \in {"fd", "event", "restore"} /\ phase # "undoing" /\ mode = "tun" =>
                 Past(Top, "proxy") /\ \A x \in Firewall \cup Routed : Past(Top, x)
           /\ TopStep \in {"event", "restore"} /\ mode = "tun" => Past(Top, "fd")
           /\ TopStep \in {"event", "restore"} /\ mode = "system" => Past(Top, "sysProxy")
           /\ TopStep = "fd" /\ phase # "undoing" => mode = "tun"
<1>1. /\ Top.i \in 1 .. Len(Top.steps) /\ Top.i \in 1 .. Len(Top.steps) + 1
      /\ Top.steps = IF phase = "undoing" THEN TunCleanup ELSE Cleanup[mode]
      /\ mode \in Kinds /\ TopStep = Top.steps[Top.i]
  BY InFrames DEF InCleanup, TopStep
<1>2. CASE phase = "undoing"
  <2>1. Top.steps = TunCleanup /\ Top.i \in 1 .. 15 /\ Top.i <= 14
    <3>1. Top.steps = TunCleanup /\ Len(TunCleanup) = 14
      BY <1>1, <1>2, TunCleanupSteps
    <3>2. Len(Top.steps) = Len(TunCleanup)
      BY <3>1, Zenon
    <3>3. Top.i \in 1 .. Len(TunCleanup)
      BY <1>1, <3>2
    <3> QED
      BY <3>1, <3>3
  <2>2. /\ Top.steps[Top.i] = "ruleMark" => Past(Top, "ruleTable")
        /\ Top.steps[Top.i] = "forget" => Past(Top, "fd")
        /\ Top.steps[Top.i] \notin {"proxy", "dns", "local", "event", "restore"}
    BY <2>1, PassedInUndoing
  <2> QED
    BY <1>1, <1>2, <2>2
<1>3. CASE phase # "undoing" /\ mode = "tun"
  <2>1. Top.steps = Cleanup["tun"] /\ Top.i \in 1 .. 21 /\ Top.i <= 20
    <3>1. Top.steps = Cleanup["tun"] /\ Len(Cleanup["tun"]) = 20
      BY <1>1, <1>3, CleanupTunSteps
    <3>2. Len(Top.steps) = Len(Cleanup["tun"])
      BY <3>1, Zenon
    <3>3. Top.i \in 1 .. Len(Cleanup["tun"])
      BY <1>1, <3>2
    <3> QED
      BY <3>1, <3>3
  <2>2. /\ Top.steps[Top.i] \in Firewall => Past(Top, "proxy")
        /\ Top.steps[Top.i] = "ruleMark" => Past(Top, "ruleTable")
        /\ Top.steps[Top.i] = "forget" => Past(Top, "fd")
        /\ Top.steps[Top.i] \in {"fd", "event", "restore"} =>
              Past(Top, "proxy") /\ \A x \in Firewall \cup Routed : Past(Top, x)
        /\ Top.steps[Top.i] \in {"event", "restore"} => Past(Top, "fd")
    BY <2>1, PassedInTun
  <2> QED
    BY <1>1, <1>3, <2>2
<1>4. CASE phase # "undoing" /\ mode # "tun"
  <2>1. TopStep \in {"timers", "local", "status", "sysProxy", "restore", "event"}
    BY <1>1, <1>4, PassedInOthers DEF Kinds
  <2>2. TopStep \in {"event", "restore"} /\ mode = "system" => Past(Top, "sysProxy")
    BY <1>1, <1>4, PassedInOthers DEF Kinds
  <2> QED
    BY <1>4, <2>1, <2>2, StepsOfSets
<1> QED
  BY <1>2, <1>3, <1>4

(* Nothing is left for a cleanup above the running one.                    *)
LEMMA TopSwept ==
    ASSUME Typed, FramesFit, Swept, frames # <<>>
    PROVE  /\ \A x \in Removable \cap Traces : Past(Top, x) => Clean(x)
           /\ "ruleTable" \in known /\ Past(Top, "ruleTable") => "ruleTable" \notin installed
           /\ Top.own /\ Past(Top, "proxy") => "proxy" \notin installed
           /\ Top.own /\ Past(Top, "fd") => fd # "open"
           /\ phase = "undoing" /\ Past(Top, "forget") => fd = "none"
<1>1. Len(frames) \in DOMAIN frames /\ Top = frames[Len(frames)]
  BY InFrames
<1>2. \A x : ~LeftAbove(Len(frames), x)
  BY InFrames DEF LeftAbove
<1> QED
  BY <1>1, <1>2 DEF Swept

(* The items a complete set-up may have left.                              *)
LEMMA AllRemovable ==
    ASSUME Typed, FlagsSet, Placed("handler"), NEW x \in Traces, Placed(x)
    PROVE  /\ x \in Removable
           /\ mode = "tun" => x \in Firewall \cup Routed
           /\ mode # "tun" => x = "sysProxy" /\ mode = "system"
<1>1. mode \in Kinds /\ at \in 1 .. Len(Setup[mode]) + 1
  BY ModeKinds
<1>2. CASE mode = "tun"
  <2>1. Placed("rulesAdded") /\ Placed("iptablesAdded") /\ ~Placed("sysProxy")
    BY <1>1, <1>2, InTun
  <2>2. x \in Firewall \cup Routed
    <3>1. x # "sysProxy"
      BY <2>1
    <3> QED
      BY <3>1 DEF Traces, Lasting
  <2>3. Firewall = ToSet(Rules4) \cup ToSet(Rules6)
    BY StepsOfSets
  <2>4. Routed \subseteq known /\ ToSet(Rules6) \subseteq known
    BY <2>1 DEF FlagsSet
  <2>5. x \in Removable
    BY <2>2, <2>3, <2>4 DEF Removable
  <2> QED
    BY <1>2, <2>2, <2>5
<1>3. CASE mode # "tun"
  <2>1. x \in {"local", "sysProxy", "timers", "status", "handler"}
    BY <1>1, <1>3, InOthers
  <2>2. x = "sysProxy"
    BY <2>1, StepsOfSets DEF Traces, Lasting, Routed
  <2>3. mode = "system"
    <3>1. PICK m \in 1 .. at - 1 : Setup[mode][m] = "sysProxy"
      BY <2>2 DEF Placed
    <3>2. CASE mode = "socks"
      BY <1>1, <3>1, <3>2, OtherSteps
    <3> QED
      BY <1>1, <1>3, <3>2 DEF Kinds
  <2> QED
    BY <1>3, <2>2, <2>3 DEF Removable
<1> QED
  BY <1>2, <1>3

(* A cleanup that comes to its last steps has done its work.               *)
LEMMA TopDone ==
    ASSUME IInv, InCleanup, Top.own, Placed("handler"),
           TopStep \in {"event", "restore"} \/ (TopStep = "fd" /\ fd = "closed")
    PROVE  (\A x \in Traces : Clean(x)) /\ "proxy" \notin installed /\ fd # "open"
<1> USE DEF IInv
<1>1. frames # <<>> /\ phase # "undoing" /\ mode \in Kinds
  BY ModeKinds DEF InCleanup, Undisturbed
<1>2. CASE mode = "tun"
  <2>1. /\ Past(Top, "proxy") /\ \A x \in Firewall \cup Routed : Past(Top, x)
        /\ TopStep # "fd" => Past(Top, "fd")
    BY <1>1, <1>2, TopPassed
  <2>2. "proxy" \notin installed /\ fd # "open"
    BY <1>1, <2>1, TopSwept
  <2>3. ASSUME NEW x \in Traces PROVE Clean(x)
    <3>1. Placed(x) => x \in Removable /\ x \in Firewall \cup Routed
      BY <1>2, AllRemovable
    <3> QED
      BY <1>1, <2>1, <3>1, TopSwept DEF AddedOnce
  <2> QED
    BY <2>2, <2>3
<1>3. CASE mode # "tun"
  <2>1. "proxy" \notin installed /\ fd # "open"
    BY <1>3 DEF DeviceOpen, ExemptFirst
  <2>2. ASSUME NEW x \in Traces PROVE Clean(x)
    <3>1. Placed(x) => x \in Removable /\ x = "sysProxy" /\ mode = "system"
      BY <1>3, AllRemovable
    <3>2. mode = "system" => Past(Top, "sysProxy")
      BY <1>1, <1>3, TopPassed
    <3> QED
      BY <1>1, <3>1, <3>2, TopSwept DEF AddedOnce
  <2> QED
    BY <2>1, <2>2
<1> QED
  BY <1>2, <1>3

(* The step at which a set-up fails comes before the services, and         *)
(* TunManager.cleanup() does not look for what it may spare, but for the   *)
(* first policy rule when the second could not be added.                   *)
LEMMA FailingStep ==
    ASSUME Typed, FlagsSet, mode = "tun", ~Placed("handler"),
           Step \in Checked \cup ToSet(Create)
    PROVE  /\ ~Placed("proxy")
           /\ \A x \in Traces : Placed(x) =>
                 /\ x \in Firewall \cup Routed
                 /\ x \in Removable \/ (x = "ruleMark" /\ Step = "ruleTable")
<1>1. at \in 1 .. Len(Setup[mode]) + 1
  BY ModeKinds
<1>2. at \in 1 .. 24
  BY <1>1, InTun
<1>3. at \in 1 .. 16
  BY <1>2, StepInTun, TunSteps, StepsOfSets
<1>4. (Step = "ruleTable" <=> at = 8) /\ at # 9
  BY <1>3, StepInTun, TunSteps, StepsOfSets DEF Checked, Device, Routed
<1>5. /\ ~Placed("proxy") /\ ~Placed("sysProxy")
      /\ \A x \in ToSet(Rules6) : ~Placed(x)
      /\ at > 9 => Placed("rulesAdded")
      /\ at <= 9 => ~Placed("ruleTable")
      /\ Placed("ruleMark") => at > 7
  BY <1>1, <1>3, <1>4, InTun
<1>6. ASSUME NEW x \in Traces, Placed(x)
      PROVE  /\ x \in Firewall \cup Routed
             /\ x \in Removable \/ (x = "ruleMark" /\ Step = "ruleTable")
  <2>1. x \in ToSet(Rules4) \cup Routed
    BY <1>5, <1>6, StepsOfSets DEF Traces, Lasting
  <2>2. CASE x \in ToSet(Rules4)
    BY <2>2, StepsOfSets DEF Removable
  <2>3. CASE x \in Routed /\ at > 9
    BY <1>5, <2>3 DEF FlagsSet, Removable
  <2>4. CASE x \in Routed /\ ~(at > 9)
    <3>1. at = 8
      BY <1>3, <1>4, <1>5, <1>6, <2>4 DEF Routed
    <3> QED
      BY <1>4, <1>5, <1>6, <2>4, <3>1 DEF Routed
  <2> QED
    BY <2>1, <2>2, <2>3, <2>4
<1> QED
  BY <1>5, <1>6

(* A step that has been undone leaves no more than there was.              *)
LEMMA StepUndone ==
    ASSUME IInv, AdvanceAction, NEW x \in Removable \cap Traces, x = TopStep
    PROVE  Clean(x)'
<1> USE DEF IInv
<1>1. before' = before
  BY AdvanceEffect DEF Advance, chosen
<1>2. CASE x \in Firewall
  <2>1. x \notin ToSet(Rules6) \ known
    BY <1>2, StepsOfSets DEF Removable
  <2>2. rules' = Without(rules, x)
    BY <1>2, <2>1, AdvanceEffect
  <2>3. rules \in Seq(Firewall) /\ before.rules \in Seq(Firewall)
    BY DEF Typed, TypeOK
  <2>4. /\ Occurs(rules, x) \in Nat /\ Occurs(before.rules, x) \in Nat
        /\ Occurs(rules', x) \in Nat
        /\ Occurs(rules, x) = 0 <=> x \notin ToSet(rules)
        /\ Occurs(rules', x) <= Occurs(rules, x)
        /\ x \in ToSet(rules) => Occurs(rules', x) = Occurs(rules, x) - 1
    <3>1. rules' \in Seq(Firewall)
      BY <2>2, <2>3, OccursWithout
    <3> QED
      BY <2>2, <2>3, <3>1, OccursNat, OccursWithout
  <2>5. Occurs(rules, x) <= Occurs(before.rules, x) + 1
    BY <1>2 DEF AddedOnce
  <2>6. Occurs(rules', x) <= Occurs(before.rules, x)
    BY <2>4, <2>5
  <2> QED
    BY <1>1, <1>2, <2>6 DEF Clean
<1>3. CASE x \notin Firewall
  <2>1. x \in Lasting \ (Routed \ known)
    BY <1>3, StepsOfSets DEF Removable, Traces, Lasting, Routed
  <2>2. x \notin installed'
    BY <2>1, AdvanceEffect
  <2> QED
    BY <1>3, <2>2 DEF Clean
<1> QED
  BY <1>2, <1>3

(* A step of a cleanup.                                                    *)
LEMMA AdvanceKeeps ==
    ASSUME IInv, AdvanceAction
    PROVE  IInv'
<1> USE DEF IInv
<1>1. /\ InCleanup /\ frames' = Advanced /\ known' = known /\ registered' = registered
      /\ UNCHANGED <<phase, at, mode, platform, before, sessions, signals>>
      /\ rules' = IF TopStep \in Firewall \ (ToSet(Rules6) \ known)
                  THEN Without(rules, TopStep) ELSE rules
      /\ installed' \subseteq installed \cup {"proxyAccept", "localAccept"}
      /\ TopStep \in Lasting \ (Routed \ known) => TopStep \notin installed'
      /\ TopStep = "proxy" /\ Top.own => "proxy" \notin installed'
      /\ "ruleMark" \in installed \ installed' => TopStep = "ruleMark" /\ "ruleMark" \in known
      /\ fd' = CASE Top.own /\ TopStep = "fd" /\ fd = "open" -> "closed"
                 [] Top.own /\ TopStep = "forget" -> "none"
                 [] OTHER -> fd
      /\ Top.own /\ TopStep = "fd" /\ fd = "open" => installed' \cap Device = {}
      /\ IF Top.own /\ TopStep = "event" THEN event' = TRUE ELSE event' = event
      /\ IF TopStep = "restore" THEN handler' = FALSE ELSE handler' = handler
  BY AdvanceEffect DEF Advance, chosen, bounds
<1>2. /\ frames # <<>> /\ Len(frames) \in Nat \ {0} /\ DOMAIN frames = 1 .. Len(frames)
      /\ Top = frames[Len(frames)] /\ Top.i \in 1 .. Len(Top.steps) /\ mode \in Kinds
      /\ Top.own \in BOOLEAN /\ (Top.own \/ phase = "exiting")
  BY <1>1, InFrames DEF InCleanup
<1>3. /\ frames' \in Seq(Frames) /\ Len(frames') = Len(frames) /\ frames' # <<>>
      /\ DOMAIN frames' = DOMAIN frames
      /\ \A j \in DOMAIN frames :
            frames'[j].steps = frames[j].steps /\ frames'[j].own = frames[j].own
      /\ \A j \in DOMAIN frames :
            frames'[j].i = IF j = Len(frames) THEN Top.i + 1 ELSE frames[j].i
      /\ \A j \in DOMAIN frames : \A x :
            Past(frames'[j], x) <=>
                (Past(frames[j], x) \/ (j = Len(frames) /\ x = TopStep))
  BY <1>1, Advancing
<1>4. /\ \A x : Placed(x)' <=> Placed(x)
      /\ Step' = Step
  BY <1>1 DEF Placed, Step
<1>5. \A x \in Traces : Clean(x) => Clean(x)'
  BY AdvanceTakesAway, FewerClean
<1>6. phase \in {"undoing", "setup", "locking", "live", "joining", "exiting"}
  BY <1>2 DEF Typed, TypeOK, Interruptible
<1>7. phase = "setup" => Placed("handler")
  BY <1>2 DEF Undisturbed
<1>8. Fewer
  BY AdvanceTakesAway
<1>9. Typed'
  <2>1. rules' \in Seq(Firewall)
    BY <1>8 DEF Fewer
  <2>2. installed' \subseteq Items /\ fd' \in {"none", "open", "closed"}
    BY <1>1 DEF Typed, TypeOK, Items, Services
  <2>3. handler' \in BOOLEAN /\ event' \in BOOLEAN
    BY <1>1 DEF Typed, TypeOK
  <2>4. \A f \in ToSet(frames') :
            /\ f.i \in 1 .. Len(f.steps) + 1 /\ f.in \in BOOLEAN
            /\ f.own \/ phase = "exiting"
    <3>1. \A j \in DOMAIN frames : /\ frames[j].i \in 1 .. Len(frames[j].steps) + 1
                                   /\ frames[j].own \/ phase = "exiting"
      BY DEF Typed, TypeOK, ToSet
    <3>3. \A j \in DOMAIN frames : frames'[j].in \in BOOLEAN
      <4>1. \A j \in 1 .. Len(frames) : frames'[j] \in Frames
        BY <1>3, ElementOfSeq
      <4> QED
        BY <1>2, <4>1 DEF Frames
    <3>2. ASSUME NEW j \in DOMAIN frames
          PROVE  frames'[j].i \in 1 .. Len(frames'[j].steps) + 1
      <4>1. CASE j = Len(frames)
        <5>1. frames'[j].i = Top.i + 1 /\ frames'[j].steps = Top.steps
          BY <1>2, <1>3, <4>1
        <5>2. Top.i + 1 \in 1 .. Len(Top.steps) + 1
          BY <1>2, InFrames
        <5> QED
          BY <5>1, <5>2
      <4>2. CASE j # Len(frames)
        BY <1>3, <3>1, <4>2
      <4> QED
        BY <4>1, <4>2
    <3> QED
      BY <1>3, <3>1, <3>2, <3>3 DEF ToSet
  <2> QED
    BY <1>1, <1>3, <1>6, <2>1, <2>2, <2>3, <2>4 DEF Typed, TypeOK, Modes
<1>10. FramesFit'
  BY <1>1, <1>3, <1>4 DEF FramesFit
<1>11. Undisturbed'
  BY <1>1, <1>4, <1>6, <1>7 DEF Undisturbed
<1>12. HandlersGone'
  BY <1>1, <1>2, <1>3, <1>6 DEF HandlersGone
<1>13. FlagsSet'
  BY <1>1, <1>4 DEF FlagsSet
<1>14. AddedOnce'
  <2>1. \A x \in Traces : (Clean(x) \/ Placed(x))'
    BY <1>4, <1>5 DEF AddedOnce
  <2>2. ASSUME NEW x \in Firewall
        PROVE  Occurs(rules', x) <= Occurs(before.rules, x) + 1
    <3>1. Occurs(rules, x) \in Nat /\ Occurs(rules', x) \in Nat /\ Occurs(before.rules, x) \in Nat
      BY <1>8, OccursNat DEF Fewer, Typed, TypeOK
    <3> QED
      BY <1>8, <3>1 DEF Fewer, AddedOnce
  <2> QED
    BY <1>1, <2>1, <2>2 DEF AddedOnce
<1>15. Swept'
  <2> SUFFICES ASSUME NEW j \in DOMAIN frames
               PROVE  /\ \A x \in Removable \cap Traces :
                            Past(frames'[j], x) => Clean(x)' \/ LeftAbove(j, x)'
                      /\ "ruleTable" \in known /\ Past(frames'[j], "ruleTable") =>
                            "ruleTable" \notin installed' \/ LeftAbove(j, "ruleTable")'
                      /\ frames[j].own /\ Past(frames'[j], "proxy") => "proxy" \notin installed'
                      /\ frames[j].own /\ Past(frames'[j], "fd") => fd' # "open"
                      /\ phase = "undoing" /\ Past(frames'[j], "forget") => fd' = "none"
    BY <1>1, <1>3 DEF Swept, Removable
  <2>1. ASSUME NEW x, x # TopStep, LeftAbove(j, x)
        PROVE  LeftAbove(j, x)'
    BY <1>3, <2>1 DEF LeftAbove
  <2>2. ASSUME NEW x \in Removable \cap Traces, Past(frames'[j], x)
        PROVE  Clean(x)' \/ LeftAbove(j, x)'
    <3>1. CASE x = TopStep
      BY <3>1, StepUndone
    <3>2. CASE x # TopStep
      BY <1>3, <1>5, <2>1, <2>2, <3>2 DEF Swept
    <3> QED
      BY <3>1, <3>2
  <2>3. ASSUME "ruleTable" \in known, Past(frames'[j], "ruleTable")
        PROVE  "ruleTable" \notin installed' \/ LeftAbove(j, "ruleTable")'
    <3>1. "ruleTable" \in Lasting
      BY DEF Lasting, Routed
    <3>2. CASE TopStep = "ruleTable"
      BY <1>1, <2>3, <3>1, <3>2
    <3>3. CASE TopStep # "ruleTable"
      BY <1>3, <1>8, <2>1, <2>3, <3>1, <3>3 DEF Swept, Fewer
    <3> QED
      BY <3>2, <3>3
  <2>4. frames[j].own /\ Past(frames'[j], "proxy") => "proxy" \notin installed'
    BY <1>1, <1>2, <1>3, <1>8 DEF Swept, Fewer
  <2>5. frames[j].own /\ Past(frames'[j], "fd") => fd' # "open"
    BY <1>1, <1>2, <1>3 DEF Swept
  <2>6. phase = "undoing" /\ Past(frames'[j], "forget") => fd' = "none"
    BY <1>1, <1>2, <1>3 DEF Swept
  <2> QED
    BY <2>2, <2>3, <2>4, <2>5, <2>6
<1>16. CleanOnceOver'
  <2>1. CASE TopStep \in {"event", "restore"} /\ Placed("handler") /\ Top.own
    <3>1. (\A x \in Traces : Clean(x)) /\ "proxy" \notin installed /\ fd # "open"
      BY <1>1, <2>1, TopDone
    <3> QED
      BY <1>5, <1>8, <3>1 DEF Fewer, CleanOnceOver
  <2>2. CASE TopStep \notin {"event", "restore"}
    <3>1. Told' <=> Told
      BY <1>1, <2>2 DEF Told
    <3> QED
      BY <1>4, <1>5, <1>8, <3>1 DEF Fewer, CleanOnceOver
  <2>3. CASE phase = "exiting"
    BY <1>1, <1>4, <1>5, <1>8, <2>3 DEF Fewer, CleanOnceOver, Told
  <2> QED
    BY <1>2, <1>4, <2>1, <2>2, <2>3 DEF CleanOnceOver
<1>17. FailedClean'
  BY <1>1, <1>6 DEF FailedClean
<1>18. DeviceOpen'
  <2>1. installed' \cap Device \subseteq installed \cap Device
    BY <1>8 DEF Fewer
  <2>2. TopStep = "forget" /\ Top.own => fd # "open"
    BY <1>1, <1>2, TopPassed, TopSwept
  <2>3. installed' \cap Device # {} => fd' = "open"
    BY <1>1, <2>1, <2>2 DEF DeviceOpen
  <2>4. fd = "none" => fd' = "none"
    BY <1>1
  <2> QED
    BY <1>1, <1>4, <1>6, <1>7, <1>8, <2>1, <2>3, <2>4 DEF DeviceOpen, Fewer
<1>19. ExemptFirst'
  <2>1. "proxy" \in installed' => "proxy" \in installed
    BY <1>8 DEF Fewer
  <2>2. ~SettingUpRules'
    BY <1>1, <1>4, <1>7 DEF SettingUpRules
  <2>3. Exempt(before.rules) /\ phase # "exiting" /\ "proxy" \in installed' => Exempt(rules')
    <3>1. TopStep \in Firewall /\ phase # "exiting" => "proxy" \notin installed
      <4>1. CASE phase = "undoing"
        <5>1. mode = "tun" /\ Step \in Checked \cup ToSet(Create) /\ ~Placed("handler")
          BY <4>1 DEF Undisturbed
        <5>2. ~Placed("proxy")
          BY <5>1, FailingStep
        <5> QED
          BY <4>1, <5>2 DEF ExemptFirst
      <4>2. CASE phase # "undoing"
        BY <1>1, <1>2, <4>2, TopPassed, TopSwept
      <4> QED
        BY <4>1, <4>2
    <3>2. phase # "exiting" /\ "proxy" \in installed' => rules' = rules
      BY <1>1, <2>1, <3>1
    <3> QED
      BY <2>1, <3>2 DEF ExemptFirst
  <2>4. "ruleTable" \in installed' => "ruleMark" \in installed'
    <3>1. "ruleTable" \in installed' => "ruleTable" \in installed
      BY <1>8 DEF Fewer, Lasting, Routed
    <3>2. TopStep = "ruleMark" /\ "ruleMark" \in known => "ruleTable" \notin installed
      <4>1. "ruleMark" \in known => "ruleTable" \in known
        BY DEF Typed, Routed
      <4> QED
        BY <1>1, <1>2, <4>1, TopPassed, TopSwept
    <3> QED
      BY <1>1, <3>1, <3>2 DEF ExemptFirst
  <2> QED
    BY <1>1, <1>3, <1>4, <2>1, <2>2, <2>3, <2>4 DEF ExemptFirst
<1> QED
  BY <1>9, <1>10, <1>11, <1>12, <1>13, <1>14, <1>15, <1>16, <1>17, <1>18, <1>19

(* A cleanup that starts has passed nothing.                               *)
LEMMA FreshFrames ==
    ASSUME NEW f, NEW own \in BOOLEAN,
           f \in {NewFrame(TunCleanup, own)} \cup {NewFrame(Cleanup[m], own) : m \in Kinds}
    PROVE  /\ f \in Frames /\ f.i = 1 /\ f.i \in 1 .. Len(f.steps) + 1
           /\ f.in = FALSE /\ f.own = own
           /\ \A x : ~Past(f, x)
<1>0. PICK c \in {TunCleanup} \cup {Cleanup[m] : m \in Kinds} : f = NewFrame(c, own)
  OBVIOUS
<1>1. f \in Frames /\ f.i = 1 /\ f.in = FALSE /\ f.own = own /\ f.steps = c
  BY <1>0 DEF Frames, NewFrame
<1>2. Len(f.steps) \in Nat
  BY <1>1, TunCleanupSteps, CleanupTunSteps, CleanupOtherSteps DEF Kinds
<1> QED
  BY <1>1, <1>2 DEF Past

(* A command of the set-up fails.                                          *)
LEMMA CommandFailsKeeps ==
    ASSUME IInv, CommandFails
    PROVE  IInv'
<1> USE DEF IInv
<1> DEFINE f == NewFrame(TunCleanup, TRUE)
<1>1. /\ Working /\ phase = "setup" /\ frames = <<>> /\ at \in 1 .. Len(Setup[mode])
      /\ Step \in Checked /\ phase' = "undoing" /\ frames' = <<f>>
      /\ UNCHANGED <<at, platform, mode, before, rules, installed, fd, known>>
      /\ UNCHANGED <<handler, event, registered, sessions, signals>>
  BY ModeKinds DEF CommandFails, Working, chosen, system, bounds
<1>2. /\ f \in Frames /\ f.i \in 1 .. Len(f.steps) + 1 /\ f.steps = TunCleanup
      /\ f.in = FALSE /\ f.own = TRUE
      /\ \A x : ~Past(f, x)
  <2>1. f.steps = TunCleanup
    BY DEF NewFrame
  <2> HIDE DEF f
  <2>2. f = NewFrame(TunCleanup, TRUE)
    BY DEF f
  <2> QED
    BY <2>1, <2>2, FreshFrames
<1> HIDE DEF f
<1>3. /\ <<f>> \in Seq(Frames) /\ <<f>> # <<>> /\ Len(<<f>>) = 1 /\ DOMAIN <<f>> = {1}
      /\ <<f>>[1] = f /\ ToSet(<<f>>) = {f}
  BY <1>2, Single DEF ToSet
<1>4. mode = "tun" /\ ~Placed("handler") /\ ~Placed("proxy")
  <2>1. mode = "tun"
    BY <1>1, ModeKinds, InOthers, StepsOfSets DEF Checked, Device, Routed
  <2>2. at \in 1 .. 16 /\ at \in 1 .. Len(Setup[mode]) + 1
    BY <1>1, <2>1, StepInTun, TunSteps
  <2> QED
    BY <2>1, <2>2, InTun
<1>5. /\ \A x : Placed(x)' <=> Placed(x)
      /\ \A x : Clean(x)' <=> Clean(x)
      /\ Step' = Step
  BY <1>1 DEF Placed, Clean, Step
<1>6. Typed'
  BY <1>1, <1>2, <1>3 DEF Typed, TypeOK, Modes
<1>7. FramesFit'
  BY <1>1, <1>2, <1>3, <1>5 DEF FramesFit
<1>8. Undisturbed'
  BY <1>1, <1>4, <1>5 DEF Undisturbed
<1>9. HandlersGone'
  BY <1>1, <1>2, <1>3 DEF HandlersGone
<1>10. FlagsSet'
  BY <1>1, <1>5 DEF FlagsSet
<1>11. AddedOnce'
  BY <1>1, <1>5 DEF AddedOnce
<1>12. Swept'
  BY <1>1, <1>2, <1>3 DEF Swept
<1>13. CleanOnceOver'
  BY <1>4, <1>5 DEF CleanOnceOver
<1>14. FailedClean'
  BY <1>1 DEF FailedClean
<1>15. DeviceOpen'
  BY <1>1, <1>5 DEF DeviceOpen
<1>16. ExemptFirst'
  BY <1>1, <1>4, <1>5 DEF ExemptFirst, SettingUpRules
<1> QED
  BY <1>6, <1>7, <1>8, <1>9, <1>10, <1>11, <1>12, <1>13, <1>14, <1>15, <1>16

(* An exception ends the program.                                          *)
LEMMA RaisedKeeps ==
    ASSUME IInv, StartFails \/ CloseRaises \/ InterruptRaises
    PROVE  IInv'
<1> USE DEF IInv
<1>1. /\ UNCHANGED <<at, platform, mode, before, rules, installed, known>>
      /\ UNCHANGED <<handler, event, registered, sessions>>
      /\ phase' \in {"joining", "exiting"} /\ frames' = <<>>
      /\ phase' # "exiting" => phase # "exiting"
      /\ fd' = fd \/ (fd = "closed" /\ fd' = "none")
      /\ phase \notin {"exited", "died"} \/ frames # <<>>
  BY DEF StartFails, CloseRaises, InterruptRaises, Raised, Working, Ready, InCleanup, Alive,
     chosen, system
<1>2. signals' \in 0 .. MaxSignals
  BY BoundsAssumption DEF StartFails, CloseRaises, InterruptRaises, Press, Typed, TypeOK
<1>3. /\ \A x : Placed(x)' <=> Placed(x)
      /\ \A x : Clean(x)' <=> Clean(x)
      /\ Step' = Step
  BY <1>1 DEF Placed, Clean, Step
<1>4. Typed'
  BY <1>1, <1>2, EmptySeq DEF Typed, TypeOK, Modes, ToSet
<1>5. FramesFit'
  BY <1>1, <1>3 DEF FramesFit
<1>6. Undisturbed'
  BY <1>1, <1>3 DEF Undisturbed
<1>7. HandlersGone'
  BY <1>1 DEF HandlersGone
<1>8. FlagsSet'
  BY <1>1, <1>3 DEF FlagsSet
<1>9. AddedOnce'
  BY <1>1, <1>3 DEF AddedOnce
<1>10. Swept'
  BY <1>1 DEF Swept
<1>11. CleanOnceOver'
  <2> SUFFICES ASSUME Placed("handler")
               PROVE  (\A x \in Traces : Clean(x)) /\ "proxy" \notin installed /\ fd' # "open"
    BY <1>1, <1>3 DEF CleanOnceOver
  <2>1. CASE StartFails
    <3>1. Working /\ Step \in {"proxy", "dns", "local", "sysProxy"}
      BY <2>1 DEF StartFails
    <3>2. mode \in Kinds /\ at \in 1 .. Len(Setup[mode]) /\ at \in 1 .. Len(Setup[mode]) + 1
      BY <3>1, ModeKinds DEF Working
    <3>3. CASE mode = "tun"
      BY <3>1, <3>2, <3>3, InTun, StepInTun
    <3>4. CASE mode # "tun"
      BY <3>2, <3>4, InOthers
    <3> QED
      BY <3>3, <3>4
  <2>2. CASE CloseRaises
    <3>1. InCleanup /\ TopStep = "fd" /\ fd = "closed" /\ fd' = "none" /\ Top.own
      BY <2>2 DEF CloseRaises, Ready, Finds
    <3> QED
      BY <1>1, <3>1, TopDone
  <2>3. CASE InterruptRaises
    BY <1>1, <2>3 DEF InterruptRaises, CleanOnceOver, Told
  <2> QED
    BY <2>1, <2>2, <2>3
<1>12. FailedClean'
  BY <1>1 DEF FailedClean
<1>13. DeviceOpen'
  BY <1>1, <1>3 DEF DeviceOpen
<1>14. ExemptFirst'
  BY <1>1, <1>3 DEF ExemptFirst, SettingUpRules
<1> QED
  BY <1>4, <1>5, <1>6, <1>7, <1>8, <1>9, <1>10, <1>11, <1>12, <1>13, <1>14

(* A cleanup takes the lock of a step.                                     *)
LEMMA EnterKeeps ==
    ASSUME IInv, Enter
    PROVE  IInv'
<1> USE DEF IInv
<1>1. /\ UNCHANGED <<phase, at, platform, mode, before, rules, installed, fd, known>>
      /\ UNCHANGED <<handler, event, registered, sessions, signals>>
      /\ frames # <<>> /\ frames' = Append(Front(frames), [Top EXCEPT !.in = TRUE])
  BY DEF Enter, InCleanup, chosen, system, bounds
<1>2. /\ frames' \in Seq(Frames) /\ Len(frames') = Len(frames) /\ frames' # <<>>
      /\ DOMAIN frames' = DOMAIN frames
      /\ \A j \in DOMAIN frames :
            /\ frames'[j].steps = frames[j].steps /\ frames'[j].i = frames[j].i
            /\ frames'[j].own = frames[j].own /\ frames'[j].in \in BOOLEAN
  BY <1>1, StackEntered DEF Typed
<1>3. \A j \in DOMAIN frames : \A x : Past(frames'[j], x) <=> Past(frames[j], x)
  BY <1>2 DEF Past
<1>4. /\ \A x : Placed(x)' <=> Placed(x)
      /\ \A x : Clean(x)' <=> Clean(x)
      /\ Step' = Step
  BY <1>1 DEF Placed, Clean, Step
<1>5. \A j, x : LeftAbove(j, x)' <=> LeftAbove(j, x)
  BY <1>2, <1>3 DEF LeftAbove
<1>6. Typed'
  <2>1. \A f \in ToSet(frames') :
            /\ f.i \in 1 .. Len(f.steps) + 1 /\ f.in \in BOOLEAN
            /\ f.own \/ phase = "exiting"
    BY <1>2 DEF Typed, TypeOK, ToSet
  <2> QED
    BY <1>1, <1>2, <2>1 DEF Typed, TypeOK, Modes
<1>7. FramesFit'
  BY <1>1, <1>2, <1>4 DEF FramesFit
<1>8. Undisturbed'
  BY <1>1, <1>2, <1>4 DEF Undisturbed
<1>9. HandlersGone'
  BY <1>1, <1>2, <1>3 DEF HandlersGone
<1>10. FlagsSet'
  BY <1>1, <1>4 DEF FlagsSet
<1>11. AddedOnce'
  BY <1>1, <1>4 DEF AddedOnce
<1>12. Swept'
  BY <1>1, <1>2, <1>3, <1>4, <1>5 DEF Swept, Removable
<1>13. CleanOnceOver'
  BY <1>1, <1>4 DEF CleanOnceOver, Told
<1>14. FailedClean'
  BY <1>1, <1>4 DEF FailedClean
<1>15. DeviceOpen'
  BY <1>1, <1>4 DEF DeviceOpen
<1>16. ExemptFirst'
  BY <1>1, <1>2, <1>4 DEF ExemptFirst, SettingUpRules
<1> QED
  BY <1>6, <1>7, <1>8, <1>9, <1>10, <1>11, <1>12, <1>13, <1>14, <1>15, <1>16

(* A cleanup returns to what it interrupted.                               *)
LEMMA ReturnKeeps ==
    ASSUME IInv, Return
    PROVE  IInv'
<1> USE DEF IInv
<1>1. /\ frames # <<>> /\ Top.i > Len(Top.steps) /\ frames' = Front(frames)
      /\ phase' = IF phase = "undoing" THEN "failed" ELSE phase
      /\ UNCHANGED <<at, platform, mode, before, rules, installed, fd, known>>
      /\ UNCHANGED <<handler, event, registered, sessions, signals>>
  BY DEF Return, chosen, system, bounds
<1>2. /\ Len(frames) \in Nat \ {0} /\ DOMAIN frames = 1 .. Len(frames)
      /\ Top = frames[Len(frames)] /\ Top.i = Len(Top.steps) + 1
      /\ Top.i \in 1 .. Len(Top.steps) + 1 /\ Len(Top.steps) \in Nat
      /\ Top.steps = IF phase = "undoing" THEN TunCleanup ELSE Cleanup[mode]
      /\ mode \in Kinds /\ (Top.own \/ phase = "exiting")
  BY <1>1, InFrames
<1>3. /\ frames' \in Seq(Frames) /\ Len(frames') = Len(frames) - 1
      /\ DOMAIN frames' = 1 .. Len(frames) - 1
      /\ \A j \in 1 .. Len(frames) - 1 : j \in DOMAIN frames /\ frames'[j] = frames[j]
  <2>1. /\ frames' \in Seq(Frames) /\ Len(frames') = Len(frames) - 1
        /\ \A j \in 1 .. Len(frames) - 1 : frames'[j] = frames[j]
    BY <1>1, Stack DEF Typed
  <2>2. DOMAIN frames' = 1 .. Len(frames')
    BY <2>1, LenProperties
  <2> QED
    BY <1>2, <2>1, <2>2
<1>4. /\ \A x : Placed(x)' <=> Placed(x)
      /\ \A x : Clean(x)' <=> Clean(x)
      /\ Step' = Step
  BY <1>1 DEF Placed, Clean, Step
<1>5. phase \in {"undoing", "setup", "locking", "live", "joining", "exiting"}
  BY <1>1 DEF Typed, TypeOK, Interruptible
<1>6. phase = "setup" => Placed("handler")
  BY <1>1 DEF Undisturbed
<1>7. frames' # <<>> => phase # "undoing"
  <2>1. phase = "undoing" => Len(frames') = 0
    BY <1>3 DEF FramesFit
  <2> QED
    BY <1>3, <2>1, EmptySeq
(* What a cleanup has passed when it returns.                              *)
<1>8. /\ phase # "undoing" => Past(Top, "restore") /\ Past(Top, "event")
      /\ phase = "undoing" => /\ Past(Top, "fd") /\ Past(Top, "forget")
                              /\ \A x \in Firewall \cup Routed : Past(Top, x)
  <2>1. CASE phase = "undoing"
    <3>1. Top.steps = TunCleanup /\ Len(TunCleanup) = 14
      BY <1>2, <2>1, TunCleanupSteps
    <3>2. Len(Top.steps) = 14
      BY <3>1, Zenon
    <3>3. Top.i = Len(Top.steps) + 1
      BY <1>2
    <3>4. Top.i = 15 /\ Top.i \in 1 .. 15
      BY <3>2, <3>3
    <3> QED
      BY <2>1, <3>1, <3>4, PassedInUndoing
  <2>2. CASE phase # "undoing" /\ mode = "tun"
    <3>1. Top.steps = Cleanup["tun"] /\ Len(Cleanup["tun"]) = 20
      BY <1>2, <2>2, CleanupTunSteps
    <3>2. Len(Top.steps) = 20
      BY <3>1, Zenon
    <3>3. Top.i = Len(Top.steps) + 1
      BY <1>2
    <3>4. Top.i = 21 /\ Top.i \in 1 .. 21
      BY <3>2, <3>3
    <3> QED
      BY <2>2, <3>1, <3>4, PassedInTun
  <2>3. CASE phase # "undoing" /\ mode # "tun"
    <3>1. mode \in {"socks", "system"} /\ Top.steps = Cleanup[mode]
      BY <1>2, <2>3 DEF Kinds
    <3> QED
      BY <1>1, <1>2, <2>3, <3>1, PassedInOthers
  <2> QED
    BY <2>1, <2>2, <2>3
<1>9. Typed'
  <2>1. \A f \in ToSet(frames') :
            /\ f.i \in 1 .. Len(f.steps) + 1 /\ f.in \in BOOLEAN
            /\ f.own \/ phase = "exiting"
    BY <1>3 DEF Typed, TypeOK, ToSet
  <2> QED
    BY <1>1, <1>3, <1>5, <1>7, <2>1 DEF Typed, TypeOK, Modes
<1>10. FramesFit'
  <2>1. \A j \in DOMAIN frames' :
            frames'[j].steps = IF phase' = "undoing" THEN TunCleanup ELSE Cleanup[mode]
    <3>1. CASE phase = "undoing"
      BY <1>2, <1>3, <3>1 DEF FramesFit
    <3>2. CASE phase # "undoing"
      BY <1>1, <1>3, <3>2 DEF FramesFit
    <3> QED
      BY <3>1, <3>2
  <2> QED
    BY <1>1, <1>4, <1>5, <2>1 DEF FramesFit
<1>11. Undisturbed'
  BY <1>1, <1>4, <1>6 DEF Undisturbed
<1>12. HandlersGone'
  <2>1. phase = "undoing" => ~handler
    BY DEF Undisturbed
  <2>2. phase # "undoing" => ~handler
    BY <1>2, <1>8 DEF HandlersGone
  <2> QED
    BY <1>1, <1>3, <2>1, <2>2 DEF HandlersGone
<1>13. FlagsSet'
  BY <1>1, <1>4 DEF FlagsSet
<1>14. AddedOnce'
  BY <1>1, <1>4 DEF AddedOnce
<1>15. Swept'
  <2> SUFFICES ASSUME NEW j \in 1 .. Len(frames) - 1
               PROVE  /\ \A x \in Removable \cap Traces :
                            Past(frames[j], x) => Clean(x) \/ LeftAbove(j, x)'
                      /\ "ruleTable" \in known /\ Past(frames[j], "ruleTable") =>
                            "ruleTable" \notin installed \/ LeftAbove(j, "ruleTable")'
                      /\ frames[j].own /\ Past(frames[j], "proxy") => "proxy" \notin installed
                      /\ frames[j].own /\ Past(frames[j], "fd") => fd # "open"
                      /\ phase' # "undoing"
    BY <1>1, <1>3, <1>4 DEF Swept, Removable
  <2>1. j \in DOMAIN frames /\ phase # "undoing"
    BY <1>2, <1>3 DEF FramesFit
  (* The cleanup that returns had passed every step of the one below.      *)
  <2>2. ASSUME NEW x, Past(frames[j], x)
        PROVE  Past(Top, x)
    <3>1. Top.steps = frames[j].steps
      BY <1>2, <2>1 DEF FramesFit
    <3>2. frames[j].i \in 1 .. Len(frames[j].steps) + 1
      BY <2>1 DEF Typed, TypeOK, ToSet
    <3> QED
      BY <1>2, <2>2, <3>1, <3>2 DEF Past
  <2>3. ASSUME NEW x, Past(frames[j], x), LeftAbove(j, x)
        PROVE  LeftAbove(j, x)'
    <3>1. PICK k \in DOMAIN frames : k > j /\ ~Past(frames[k], x)
      BY <2>3 DEF LeftAbove
    <3>2. k # Len(frames)
      BY <1>2, <2>2, <2>3, <3>1
    <3>3. k \in 1 .. Len(frames) - 1
      BY <1>2, <3>1, <3>2
    <3> QED
      BY <1>3, <3>1, <3>3 DEF LeftAbove
  <2> QED
    BY <1>1, <2>1, <2>3 DEF Swept
<1>16. CleanOnceOver'
  BY <1>1, <1>4 DEF CleanOnceOver, Told
<1>17. FailedClean'
  <2> SUFFICES ASSUME phase = "undoing", NEW x \in Traces
               PROVE  Clean(x) \/ (x = "ruleMark" /\ Step = "ruleTable")
    BY <1>1, <1>4, <1>5 DEF FailedClean
  <2>1. Placed(x) => /\ x \in Firewall \cup Routed
                     /\ x \in Removable \/ (x = "ruleMark" /\ Step = "ruleTable")
    BY FailingStep DEF Undisturbed
  <2>2. \A y \in Removable \cap Traces : Past(Top, y) => Clean(y)
    BY <1>1, TopSwept
  <2> QED
    BY <1>8, <2>1, <2>2 DEF AddedOnce
<1>18. DeviceOpen'
  <2>1. phase = "undoing" => fd = "none"
    BY <1>1, <1>8, TopSwept
  <2> QED
    BY <1>1, <1>4, <1>5, <2>1 DEF DeviceOpen
<1>19. ExemptFirst'
  <2>1. phase = "setup" => event
    BY <1>2, <1>8 DEF HandlersGone
  <2> QED
    BY <1>1, <1>4, <2>1 DEF ExemptFirst, SettingUpRules
<1> QED
  BY <1>9, <1>10, <1>11, <1>12, <1>13, <1>14, <1>15, <1>16, <1>17, <1>18, <1>19

(* The cleanups that run at exit.                                          *)
LEMMA NextCallbackKeeps ==
    ASSUME IInv, NextCallback
    PROVE  IInv'
<1> USE DEF IInv
<1>0. PICK s \in registered :
         /\ registered' = registered \ {s}
         /\ frames' = <<NewFrame(Cleanup["tun"], s = sessions)>>
  BY DEF NextCallback
<1> DEFINE f == NewFrame(Cleanup["tun"], s = sessions)
<1>1. /\ phase = "exiting" /\ phase' = phase /\ frames = <<>> /\ frames' = <<f>>
      /\ registered # {} /\ registered' \subseteq registered
      /\ known' = Routed \cup ToSet(Rules6)
      /\ UNCHANGED <<at, platform, mode, before, rules, installed, fd>>
      /\ UNCHANGED <<handler, event, sessions, signals>>
  BY <1>0 DEF NextCallback, chosen, system, bounds
<1>2. /\ f \in Frames /\ f.i \in 1 .. Len(f.steps) + 1 /\ f.steps = Cleanup["tun"]
      /\ f.in = FALSE /\ \A x : ~Past(f, x)
  <2>1. f.steps = Cleanup["tun"]
    BY DEF NewFrame
  <2>2. f \in {NewFrame(Cleanup[m], s = sessions) : m \in Kinds} /\ (s = sessions) \in BOOLEAN
    BY DEF Kinds
  <2> HIDE DEF f
  <2> QED
    BY <2>1, <2>2, FreshFrames
<1> HIDE DEF f
<1>3. /\ <<f>> \in Seq(Frames) /\ <<f>> # <<>> /\ Len(<<f>>) = 1 /\ DOMAIN <<f>> = {1}
      /\ <<f>>[1] = f /\ ToSet(<<f>>) = {f}
  BY <1>2, Single DEF ToSet
<1>4. mode = "tun"
  BY <1>1 DEF FramesFit
<1>5. /\ \A x : Placed(x)' <=> Placed(x)
      /\ \A x : Clean(x)' <=> Clean(x)
      /\ Step' = Step
  BY <1>1 DEF Placed, Clean, Step
<1>6. Typed'
  <2>1. known' \cap Routed = Routed
    BY <1>1
  <2> QED
    BY <1>1, <1>2, <1>3, <2>1 DEF Typed, TypeOK, Modes, Interruptible
<1>7. FramesFit'
  BY <1>1, <1>2, <1>3, <1>4, <1>5 DEF FramesFit, Typed, TypeOK
<1>8. Undisturbed'
  BY <1>1, <1>5 DEF Undisturbed
<1>9. HandlersGone'
  BY <1>1, <1>2, <1>3 DEF HandlersGone
<1>10. FlagsSet'
  BY <1>1 DEF FlagsSet
<1>11. AddedOnce'
  BY <1>1, <1>5 DEF AddedOnce
<1>12. Swept'
  BY <1>1, <1>2, <1>3 DEF Swept
<1>13. CleanOnceOver'
  BY <1>1, <1>5 DEF CleanOnceOver, Told
<1>14. FailedClean'
  BY <1>1 DEF FailedClean
<1>15. DeviceOpen'
  BY <1>1, <1>5 DEF DeviceOpen
<1>16. ExemptFirst'
  BY <1>1, <1>5 DEF ExemptFirst, SettingUpRules
<1> QED
  BY <1>6, <1>7, <1>8, <1>9, <1>10, <1>11, <1>12, <1>13, <1>14, <1>15, <1>16

(* The process ends.                                                       *)
LEMMA GoneKeeps ==
    ASSUME IInv, Gone \/ Terminate
    PROVE  IInv'
<1> USE DEF IInv
<1>1. /\ UNCHANGED <<at, platform, mode, before, rules, known, event, sessions>>
      /\ phase' \in {"exited", "died"} /\ frames' = <<>>
      /\ installed' = installed \cap Lasting /\ fd' = "none"
      /\ registered' = {} /\ handler' = FALSE
      /\ phase = "exiting" \/ ~handler
  BY DEF Gone, Terminate, ProcessGone, chosen
<1>2. signals' \in 0 .. MaxSignals
  BY BoundsAssumption DEF Gone, Terminate, Press, Typed, TypeOK
<1>3. /\ installed' \cap Lasting = installed \cap Lasting /\ installed' \cap Device = {}
      /\ "proxy" \notin installed' /\ "ruleMark" \in Lasting /\ "ruleTable" \in Lasting
      /\ installed' \subseteq Lasting
  BY <1>1, SetsApart DEF Lasting, Routed, Device
<1>4. /\ \A x : Placed(x)' <=> Placed(x)
      /\ Step' = Step
  BY <1>1 DEF Placed, Step
<1>5. \A x \in Traces : Clean(x)' <=> Clean(x)
  BY <1>1, <1>3, SameClean
<1>6. Typed'
  <2>1. installed' \subseteq Items /\ frames' \in Seq(Frames) /\ ToSet(frames') = {}
    BY <1>1, EmptySeq DEF Typed, TypeOK, ToSet
  <2> QED
    BY <1>1, <1>2, <2>1 DEF Typed, TypeOK, Modes
<1>7. FramesFit'
  BY <1>1, <1>4 DEF FramesFit, Typed, TypeOK
<1>8. Undisturbed'
  BY <1>1, <1>4 DEF Undisturbed
<1>9. HandlersGone'
  BY <1>1 DEF HandlersGone
<1>10. FlagsSet'
  BY <1>1, <1>4 DEF FlagsSet
<1>11. AddedOnce'
  BY <1>1, <1>4, <1>5 DEF AddedOnce
<1>12. Swept'
  BY <1>1 DEF Swept
<1>13. CleanOnceOver'
  BY <1>1, <1>3, <1>4, <1>5 DEF CleanOnceOver, Told
<1>14. FailedClean'
  BY <1>1 DEF FailedClean
<1>15. DeviceOpen'
  BY <1>1, <1>3 DEF DeviceOpen
<1>16. ExemptFirst'
  BY <1>1, <1>3 DEF ExemptFirst, SettingUpRules
<1> QED
  BY <1>6, <1>7, <1>8, <1>9, <1>10, <1>11, <1>12, <1>13, <1>14, <1>15, <1>16

(* cleanup() on top of what was under way, perhaps of a command it killed. *)
LEMMA InterruptKeeps ==
    ASSUME IInv, Interrupt
    PROVE  IInv'
<1> USE DEF IInv
<1> DEFINE f == AllSteps
<1>1. /\ handler /\ phase \in {"setup", "locking", "live", "joining", "exiting"}
      /\ UNCHANGED <<phase, at, platform, mode, before, rules, installed, fd, known>>
      /\ UNCHANGED <<handler, event, registered, sessions>>
      /\ signals < MaxSignals /\ signals' = signals + 1
      /\ Placed("handler")
  BY DEF Interrupt, Press, chosen, system, Undisturbed, Interruptible
<1>2. /\ f \in Frames /\ f.i \in 1 .. Len(f.steps) + 1 /\ f.steps = Cleanup[mode]
      /\ f.in = FALSE /\ f.own = TRUE
      /\ \A x : ~Past(f, x)
  <2>1. f = NewFrame(Cleanup[mode], TRUE) /\ mode \in Kinds /\ f.steps = Cleanup[mode]
    BY ModeKinds DEF AllSteps, NewFrame
  <2> HIDE DEF f
  <2> QED
    BY <2>1, FreshFrames
<1> HIDE DEF f
<1>3. PICK s \in Seq(Frames) :
        /\ Len(s) = Len(frames) /\ DOMAIN s = DOMAIN frames
        /\ \A j \in DOMAIN frames :
              s[j].steps = frames[j].steps /\ s[j].own = frames[j].own
        /\ \A j \in DOMAIN frames : s[j].i \in 1 .. Len(s[j].steps) + 1
        /\ \A j \in DOMAIN frames : \A x :
              Past(s[j], x) => Past(frames[j], x) \/ x \in Commands
        /\ \A j \in DOMAIN frames : \A x : Past(frames[j], x) => Past(s[j], x)
        /\ frames' = Append(s, f)
  <2>1. \A j \in DOMAIN frames : frames[j].i \in 1 .. Len(frames[j].steps) + 1
    BY DEF Typed, TypeOK, ToSet
  <2>2. CASE frames' = Append(frames, f)
    <3>1. frames \in Seq(Frames)
      BY DEF Typed
    <3> QED
      BY <2>1, <2>2, <3>1
  <2>3. CASE Killed /\ frames' = Append(Advanced, f)
    <3>1. InCleanup /\ TopStep \in Commands
      BY <2>3 DEF Killed
    <3>2. frames # <<>> /\ frames \in Seq(Frames) /\ Top.i \in 1 .. Len(Top.steps)
      BY <3>1, InFrames DEF InCleanup, Typed
    <3>3. DOMAIN frames = 1 .. Len(frames) /\ Len(frames) \in Nat \ {0} /\ Top = frames[Len(frames)]
          /\ Len(Top.steps) \in Nat
      BY <3>2, InFrames
    <3>4. /\ Advanced \in Seq(Frames) /\ Len(Advanced) = Len(frames)
          /\ DOMAIN Advanced = DOMAIN frames
          /\ \A j \in 1 .. Len(frames) - 1 : Advanced[j] = frames[j]
          /\ Advanced[Len(frames)].steps = Top.steps
          /\ Advanced[Len(frames)].i = Top.i + 1 /\ Advanced[Len(frames)].own = Top.own
          /\ \A j \in DOMAIN frames : \A x :
                Past(Advanced[j], x) <=>
                    (Past(frames[j], x) \/ (j = Len(frames) /\ x = TopStep))
      BY <3>2, StackAdvanced
    <3>5. ASSUME NEW j \in DOMAIN frames
          PROVE  /\ Advanced[j].steps = frames[j].steps /\ Advanced[j].own = frames[j].own
                 /\ Advanced[j].i \in 1 .. Len(Advanced[j].steps) + 1
      <4>1. CASE j = Len(frames)
        <5>1. /\ Advanced[j].steps = Top.steps /\ Advanced[j].i = Top.i + 1
              /\ Advanced[j].own = Top.own
          BY <3>4, <4>1
        <5>2. Top.i + 1 \in 1 .. Len(Top.steps) + 1
          BY <3>2, <3>3
        <5> QED
          BY <3>3, <4>1, <5>1, <5>2
      <4>2. CASE j # Len(frames)
        BY <2>1, <3>3, <3>4, <4>2
      <4> QED
        BY <4>1, <4>2
    <3> QED
      BY <2>3, <3>1, <3>4, <3>5
  <2> QED
    BY <2>2, <2>3 DEF Interrupt, f
<1> DEFINE n == Len(frames)
<1>4. /\ frames' \in Seq(Frames) /\ frames' # <<>> /\ n \in Nat
      /\ DOMAIN frames = 1 .. n /\ DOMAIN frames' = 1 .. n + 1
      /\ \A j \in 1 .. n : frames'[j] = s[j]
      /\ frames'[n + 1] = f
  <2>1. DOMAIN frames = 1 .. n
    BY LenProperties DEF Typed
  <2> QED
    BY <1>2, <1>3, <2>1, StackPushed
<1>5. /\ \A x : Placed(x)' <=> Placed(x)
      /\ \A x : Clean(x)' <=> Clean(x)
      /\ Step' = Step
  BY <1>1 DEF Placed, Clean, Step
<1>6. Typed'
  <2>0. \A j \in DOMAIN frames : frames[j].own \/ phase = "exiting"
    BY DEF Typed, TypeOK, ToSet
  <2>1. \A g \in ToSet(frames') :
            /\ g.i \in 1 .. Len(g.steps) + 1 /\ g.in \in BOOLEAN
            /\ g.own \/ phase = "exiting"
    <3>1. ASSUME NEW j \in 1 .. n + 1
          PROVE  /\ frames'[j].i \in 1 .. Len(frames'[j].steps) + 1
                 /\ frames'[j].own \/ phase = "exiting"
      <4>1. CASE j = n + 1
        BY <1>2, <1>4, <4>1
      <4>2. CASE j \in 1 .. n
        BY <1>3, <1>4, <2>0, <4>2
      <4> QED
        BY <1>4, <4>1, <4>2
    <3>2. \A j \in 1 .. n + 1 : frames'[j].in \in BOOLEAN
      <4>1. Len(frames') = n + 1
        BY <1>2, <1>3, StackPushed
      <4>2. \A j \in 1 .. n + 1 : frames'[j] \in Frames
        BY <1>4, <4>1, ElementOfSeq
      <4> QED
        BY <4>2 DEF Frames
    <3> QED
      BY <1>4, <3>1, <3>2 DEF ToSet
  <2>2. signals' \in 0 .. MaxSignals
    BY <1>1, BoundsAssumption DEF Typed, TypeOK
  <2> QED
    BY <1>1, <1>4, <2>1, <2>2 DEF Typed, TypeOK, Modes, Interruptible
<1>7. FramesFit'
  <2>1. ASSUME NEW j \in 1 .. n + 1
        PROVE  frames'[j].steps = Cleanup[mode]
    <3>1. CASE j = n + 1
      BY <1>2, <1>4, <3>1
    <3>2. CASE j \in 1 .. n
      BY <1>1, <1>3, <1>4, <3>2 DEF FramesFit
    <3> QED
      BY <1>4, <3>1, <3>2
  <2> QED
    BY <1>1, <1>4, <1>5, <2>1 DEF FramesFit
<1>8. Undisturbed'
  BY <1>1, <1>5 DEF Undisturbed
<1>9. HandlersGone'
  <2>1. "restore" \notin Commands /\ "event" \notin Commands
    BY StepsOfSets DEF Commands, Routed
  <2>2. ASSUME NEW j \in 1 .. n + 1
        PROVE  /\ ~Past(frames'[j], "restore")
               /\ frames'[j].own /\ Past(frames'[j], "event") => event
    <3>1. CASE j = n + 1
      BY <1>2, <1>4, <3>1
    <3>2. CASE j \in 1 .. n
      BY <1>1, <1>3, <1>4, <2>1, <3>2 DEF HandlersGone
    <3> QED
      BY <1>4, <3>1, <3>2
  <2> QED
    BY <1>1, <1>4, <2>2 DEF HandlersGone
<1>10. FlagsSet'
  BY <1>1, <1>5 DEF FlagsSet
<1>11. AddedOnce'
  BY <1>1, <1>5 DEF AddedOnce
(* The new cleanup is still to remove everything.                          *)
<1>12. Swept'
  <2>1. {"proxy", "fd", "forget"} \cap Commands = {}
    BY StepsOfSets DEF Commands, Routed
  <2>2. ASSUME NEW j \in 1 .. n, NEW x
        PROVE  LeftAbove(j, x)'
    <3>1. n + 1 \in DOMAIN frames' /\ n + 1 > j /\ ~Past(frames'[n + 1], x)
      BY <1>2, <1>4
    <3> QED
      BY <3>1 DEF LeftAbove
  <2>3. ASSUME NEW j \in 1 .. n
        PROVE  /\ frames'[j].own /\ Past(frames'[j], "proxy") => "proxy" \notin installed
               /\ frames'[j].own /\ Past(frames'[j], "fd") => fd # "open"
    <3>1. /\ frames'[j].own = frames[j].own
          /\ Past(frames'[j], "proxy") => Past(frames[j], "proxy")
          /\ Past(frames'[j], "fd") => Past(frames[j], "fd")
      BY <1>3, <1>4, <2>1
    <3> QED
      BY <1>4, <3>1 DEF Swept
  <2>4. \A x : ~Past(frames'[n + 1], x)
    BY <1>2, <1>4
  <2>5. \A j \in 1 .. n + 1 : j \in 1 .. n \/ j = n + 1
    BY <1>4
  <2> QED
    BY <1>1, <1>4, <2>2, <2>3, <2>4, <2>5 DEF Swept
<1>13. CleanOnceOver'
  BY <1>1, <1>5 DEF CleanOnceOver, Told
<1>14. FailedClean'
  BY <1>1 DEF FailedClean
<1>15. DeviceOpen'
  BY <1>1, <1>5 DEF DeviceOpen
<1>16. ExemptFirst'
  BY <1>1, <1>4, <1>5 DEF ExemptFirst, SettingUpRules
<1> QED
  BY <1>6, <1>7, <1>8, <1>9, <1>10, <1>11, <1>12, <1>13, <1>14, <1>15, <1>16

(* run_vpn() is entered again.                                             *)
LEMMA NewSessionKeeps ==
    ASSUME IInv, NewSession
    PROVE  IInv'
<1> USE DEF IInv
<1>1. /\ sessions < MaxSessions /\ sessions' = sessions + 1
      /\ phase \in {"stopped", "failed", "exited", "died"}
      /\ mode' \in Modes \/ (mode = "tun" /\ mode' = "tun")
      /\ registered # {} => mode' = "tun"
      /\ phase' = "setup" /\ at' = 1 /\ frames' = <<>>
      /\ known' = {} /\ event' = FALSE /\ fd' = "none"
      /\ before' = [rules |-> rules, items |-> installed \cap Lasting]
      /\ UNCHANGED <<platform, rules, installed, handler, registered, signals>>
  BY DEF NewSession, FramesFit, Alive
<1>2. mode' \in Modes /\ mode' \in Kinds
  BY <1>1 DEF Typed, TypeOK, Modes, Kinds
<1>3. /\ \A x : ~Placed(x)'
      /\ Len(Setup[mode']) \in Nat
  BY <1>1, <1>2, TunSteps, OtherSteps DEF Placed, Kinds
<1>4. ~handler
  BY <1>1 DEF HandlersGone
(* What is left has no device and no server.                               *)
<1>5. "proxy" \notin installed /\ installed \cap Device = {}
  <2>1. CASE phase = "stopped"
    <3>1. Placed("handler")
      <4>1. mode \in Kinds /\ at \in 1 .. Len(Setup[mode]) + 1 /\ at > Len(Setup[mode])
        BY <2>1, ModeKinds DEF Typed, TypeOK
      <4>2. CASE mode = "tun"
        BY <4>1, <4>2, InTun, TunSteps
      <4>3. CASE mode # "tun"
        BY <4>1, <4>3, InOthers
      <4> QED
        BY <4>2, <4>3
    <3> QED
      BY <2>1, <3>1 DEF CleanOnceOver, Told, DeviceOpen
  <2>2. CASE phase = "failed"
    <3>1. ~Placed("proxy")
      BY <2>2, FailingStep DEF Undisturbed
    <3> QED
      BY <2>2, <3>1 DEF DeviceOpen, ExemptFirst
  <2>3. CASE phase \in {"exited", "died"}
    BY <2>3, SetsApart DEF DeviceOpen, Traces
  <2> QED
    BY <1>1, <2>1, <2>2, <2>3
<1>6. Typed'
  <2>1. ToSet(<<>>) = {} /\ <<>> \in Seq(Frames)
    BY DEF ToSet
  <2>2. mode' \in Modes' /\ sessions' \in 1 .. MaxSessions /\ registered' \subseteq 1 .. sessions'
    BY <1>1, <1>2, BoundsAssumption DEF Modes, Typed, TypeOK
  <2>3. at' \in 1 .. Len(Setup[mode']) + 1
    BY <1>1, <1>3
  <2> QED
    BY <1>1, <2>1, <2>2, <2>3 DEF Typed, TypeOK
<1>7. FramesFit'
  BY <1>1 DEF FramesFit, Typed, TypeOK
<1>8. Undisturbed'
  BY <1>1, <1>4 DEF Undisturbed
<1>9. HandlersGone'
  BY <1>1, <1>4 DEF HandlersGone
<1>10. FlagsSet'
  BY <1>3 DEF FlagsSet
<1>11. AddedOnce'
  <2>1. \A x : Occurs(rules, x) \in Nat
    BY OccursNat DEF Typed, TypeOK
  <2>2. before'.rules = rules /\ before'.items = installed \cap Lasting /\ rules' = rules
        /\ installed' = installed
    BY <1>1
  <2>3. ASSUME NEW x \in Traces
        PROVE  Clean(x)'
    BY <2>1, <2>2 DEF Clean, Traces
  <2> QED
    BY <2>1, <2>2, <2>3 DEF AddedOnce
<1>12. Swept'
  BY <1>1 DEF Swept
<1>13. CleanOnceOver'
  BY <1>3 DEF CleanOnceOver
<1>14. FailedClean'
  BY <1>1 DEF FailedClean
<1>15. DeviceOpen'
  BY <1>1, <1>3, <1>5 DEF DeviceOpen
<1>16. ExemptFirst'
  <2>1. before'.rules = rules
    BY <1>1
  <2> QED
    BY <1>1, <1>3, <1>5, <2>1 DEF ExemptFirst
<1> QED
  BY <1>6, <1>7, <1>8, <1>9, <1>10, <1>11, <1>12, <1>13, <1>14, <1>15, <1>16

(* The first session starts on a clean machine.                            *)
LEMMA Beginning ==
    ASSUME Init
    PROVE  IInv
<1>1. /\ mode \in Kinds /\ at = 1 /\ phase = "setup" /\ frames = <<>> /\ rules = <<>>
      /\ installed = {} /\ fd = "none" /\ known = {} /\ handler = FALSE /\ event = FALSE
      /\ registered = {} /\ sessions = 1 /\ signals = 0
      /\ before.rules = <<>> /\ before.items = {}
  BY DEF Init, Modes, Kinds
<1>2. /\ \A x : ~Placed(x)
      /\ Len(Setup[mode]) \in Nat
  BY <1>1, TunSteps, OtherSteps DEF Placed, Kinds
<1>3. \A x : Occurs(rules, x) \in Nat
  <2>1. rules \in Seq(Firewall)
    BY <1>1
  <2> QED
    BY <2>1, OccursNat
<1>4. Typed
  <2>1. ToSet(<<>>) = {} /\ <<>> \in Seq(Frames)
    BY DEF ToSet
  <2>2. before \in [rules : Seq(Firewall), items : SUBSET Lasting]
    BY DEF Init
  <2>3. sessions \in 1 .. MaxSessions /\ signals \in 0 .. MaxSignals
    BY <1>1, BoundsAssumption
  <2>4. at \in 1 .. Len(Setup[mode]) + 1
    BY <1>1, <1>2
  <2> QED
    BY <1>1, <2>1, <2>2, <2>3, <2>4 DEF Init, Typed, TypeOK
<1>5. FramesFit
  BY <1>1 DEF FramesFit
<1>6. Undisturbed /\ HandlersGone /\ FlagsSet
  BY <1>1, <1>2 DEF Undisturbed, HandlersGone, FlagsSet
<1>7. AddedOnce
  BY <1>1, <1>3 DEF AddedOnce, Clean
<1>8. Swept /\ CleanOnceOver /\ FailedClean
  BY <1>1, <1>2 DEF Swept, CleanOnceOver, FailedClean
<1>9. DeviceOpen
  BY <1>1, <1>2 DEF DeviceOpen
<1>10. ExemptFirst
  BY <1>1, <1>2 DEF ExemptFirst
<1> QED
  BY <1>4, <1>5, <1>6, <1>7, <1>8, <1>9, <1>10 DEF IInv

(* Nothing happens.                                                        *)
LEMMA StutterKeeps ==
    ASSUME IInv, UNCHANGED vars
    PROVE  IInv'
<1>1. /\ UNCHANGED <<platform, mode, before, rules, installed, fd, known, phase, at, frames>>
      /\ UNCHANGED <<handler, event, registered, sessions, signals>>
  BY DEF vars, chosen, system, program, bounds
<1>2. /\ \A x : Placed(x)' <=> Placed(x)
      /\ \A x : Clean(x)' <=> Clean(x)
      /\ \A j, x : LeftAbove(j, x)' <=> LeftAbove(j, x)
      /\ Step' = Step
  BY <1>1 DEF Placed, Clean, LeftAbove, Step
<1>3. Typed' /\ FramesFit' /\ Undisturbed'
  BY <1>1, <1>2 DEF IInv, Typed, TypeOK, Modes, FramesFit, Undisturbed
<1>4. HandlersGone' /\ FlagsSet' /\ AddedOnce'
  BY <1>1, <1>2 DEF IInv, HandlersGone, FlagsSet, AddedOnce
<1>5. Swept' /\ CleanOnceOver' /\ FailedClean'
  BY <1>1, <1>2 DEF IInv, Swept, Removable, CleanOnceOver, Told, FailedClean
<1>6. DeviceOpen' /\ ExemptFirst'
  BY <1>1, <1>2 DEF IInv, DeviceOpen, ExemptFirst, SettingUpRules
<1> QED
  BY <1>3, <1>4, <1>5, <1>6 DEF IInv

(* Every step of the program keeps the invariant.                          *)
LEMMA StepKeeps ==
    ASSUME IInv, [Next]_vars
    PROVE  IInv'
<1>1. CASE GoAction
  BY <1>1, GoKeeps
<1>2. CASE RunsAction
  BY <1>2, RunsKeeps
<1>3. CASE AdvanceAction
  BY <1>3, AdvanceKeeps
<1>4. CASE CommandFails
  BY <1>4, CommandFailsKeeps
<1>5. CASE StartFails \/ CloseRaises \/ InterruptRaises
  BY <1>5, RaisedKeeps
<1>6. CASE Return
  BY <1>6, ReturnKeeps
<1>7. CASE NextCallback
  BY <1>7, NextCallbackKeeps
<1>8. CASE Gone \/ Terminate
  BY <1>8, GoneKeeps
<1>9. CASE Interrupt
  BY <1>9, InterruptKeeps
<1>10. CASE Clients
  BY <1>10, ClientsKeep
<1>11. CASE NewSession
  BY <1>11, NewSessionKeeps
<1>12. CASE UNCHANGED vars
  BY <1>12, StutterKeeps
<1>13. CASE Enter
  BY <1>13, EnterKeeps
<1> QED
  BY <1>1, <1>2, <1>3, <1>4, <1>5, <1>6, <1>7, <1>8, <1>9, <1>10, <1>11, <1>12, <1>13
     DEF Next, SettingUp, CleaningUp, Interruption, GoAction, RunsAction, AdvanceAction

(* The invariant holds in every state of every run of the sessions.        *)
THEOREM Invariance == Spec => []IInv
<1>1. Init => IInv
  BY Beginning
<1>2. IInv /\ [Next]_vars => IInv'
  BY StepKeeps
<1> QED
  BY <1>1, <1>2, PTL DEF Spec

(* Every variable of a session keeps its type, run_vpn() waits only at the *)
(* end of its set-up, and only cleanups of the one thread are under way    *)
(* (vpn.py:160-277).                                                       *)
THEOREM TypeCorrect == Spec => []TypeOK
<1>1. IInv => TypeOK
  BY DEF IInv, Typed
<1> QED
  BY <1>1, Invariance, PTL

(* Clean, as the properties say it.                                        *)
LEMMA CleanMeans ==
    ASSUME Typed, NEW items, \A x \in Traces : Clean(x) \/ x \in items \ Firewall
    PROVE  NothingLeftBut(items)
<1>1. \A r \in Firewall : Occurs(rules, r) <= Occurs(before.rules, r)
  BY DEF Clean, Traces
<1>2. Lasting \cap Firewall = {}
  BY StepsOfSets DEF Lasting, Routed
<1>3. ASSUME NEW x \in installed \cap Lasting
      PROVE  x \in before.items \cup items
  BY <1>2, <1>3 DEF Clean, Traces
<1> QED
  BY <1>1, <1>3 DEF NothingLeftBut

(* The invariant gives the property of a failed set-up ...                 *)
LEMMA FailureUndone ==
    ASSUME IInv
    PROVE  SetupFailureUndone
<1> SUFFICES ASSUME phase = "failed"
             PROVE  /\ NothingLeftBut(IF Step = "ruleTable" THEN {"ruleMark"} ELSE {})
                    /\ fd = "none" \/ Step = "device"
                    /\ installed \cap Device = {}
  BY DEF SetupFailureUndone
<1>1. \A x \in Traces : Clean(x) \/ (x = "ruleMark" /\ Step = "ruleTable")
  BY DEF IInv, FailedClean
<1>2. "ruleMark" \notin Firewall
  BY StepsOfSets
<1>3. NothingLeftBut(IF Step = "ruleTable" THEN {"ruleMark"} ELSE {})
  BY <1>1, <1>2, CleanMeans DEF IInv
<1> QED
  BY <1>3 DEF IInv, DeviceOpen

(* A set-up in TUN mode that fails undoes what it did, but for the first   *)
(* policy rule when the second cannot be added and the open descriptor     *)
(* when there is no device (tun.py:24-61, 96-98; vpn.py:206-211).          *)
THEOREM FailedSetupsUndone == Spec => []SetupFailureUndone
<1>1. IInv => SetupFailureUndone
  BY FailureUndone
<1> QED
  BY <1>1, Invariance, PTL

(* ... and of a session that ended ...                                     *)
LEMMA EndIsClean ==
    ASSUME IInv
    PROVE  CleanEnd
<1> SUFFICES ASSUME phase \in {"stopped", "exited", "died"}, at > Len(Setup[mode])
             PROVE  NothingLeftBut({})
  BY DEF CleanEnd
<1>1. mode \in Kinds /\ at \in 1 .. Len(Setup[mode]) + 1
  BY ModeKinds DEF IInv
<1>2. Placed("handler")
  <2>1. CASE mode = "tun"
    BY <1>1, <2>1, InTun, TunSteps
  <2>2. CASE mode # "tun"
    BY <1>1, <2>2, InOthers
  <2> QED
    BY <2>1, <2>2
<1>3. \A x \in Traces : Clean(x)
  BY <1>2 DEF IInv, CleanOnceOver, Told
<1> QED
  BY <1>3, CleanMeans DEF IInv

(* A session that was told to stop once it was live leaves no rule, no     *)
(* policy rule and no system proxy that it did not find, however often and *)
(* wherever in its cleanups it is interrupted (vpn.py:227-236, 268-277;    *)
(* tun.py:100-130).                                                        *)
THEOREM EndsAreClean == Spec => []CleanEnd
<1>1. IInv => CleanEnd
  BY EndIsClean
<1> QED
  BY <1>1, Invariance, PTL

(* ... and of the order of rules.                                          *)
LEMMA MarkedBypasses ==
    ASSUME IInv
    PROVE  MarkedTrafficBypasses
<1>1. "ruleTable" \in installed => "ruleMark" \in installed
  BY DEF IInv, ExemptFirst
<1>2. Exempt(before.rules) /\ phase # "exiting"
      /\ ("proxy" \in installed \/ (phase = "setup" /\ frames = <<>> /\ ~event))
         => Exempt(rules)
  BY DEF IInv, ExemptFirst
<1> QED
  BY <1>1, <1>2 DEF MarkedTrafficBypasses

(* Marked packets bypass the tunnel's table whenever it is in use, and     *)
(* unless an earlier session left a redirection without its exemption,     *)
(* they pass the redirection from the first rule of a set-up until the     *)
(* proxy has been stopped or the program exits, however many sessions      *)
(* there have been (tun.py:54-55, 81-86, 107-122; vpn.py:230).             *)
THEOREM MarkedIsExempt == Spec => []MarkedTrafficBypasses
<1>1. IInv => MarkedTrafficBypasses
  BY MarkedBypasses
<1> QED
  BY <1>1, Invariance, PTL
====================================================================================
