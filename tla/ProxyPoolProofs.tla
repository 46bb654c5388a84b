--------------------------- MODULE ProxyPoolProofs ---------------------------
(* The safety invariants of ProxyPool, for any proxies, callers, threshold *)
(* and sample size.                                                        *)
EXTENDS ProxyPool, FiniteSetTheorems, WellFoundedInduction, TLAPS

-----------------------------------------------------------------------------
(* How often a list has an item.                                           *)

LEMMA CopiesNat ==
    ASSUME NEW X, NEW s \in Seq(X), NEW q
    PROVE  IsFiniteSet({i \in DOMAIN s : s[i] = q}) /\ Copies(s, q) \in Nat
<1>1. DOMAIN s = 1 .. Len(s) /\ Len(s) \in Nat
  OBVIOUS
<1>2. IsFiniteSet(DOMAIN s)
  BY <1>1, FS_Interval
<1>3. IsFiniteSet({i \in DOMAIN s : s[i] = q})
  BY <1>2, FS_Subset
<1> QED
  BY <1>3, FS_CardinalityType DEF Copies

(* A list whose entries are different entries of another has no item more  *)
(* often.                                                                  *)
LEMMA FewerCopies ==
    ASSUME NEW X, NEW s \in Seq(X), NEW m \in Seq(X), NEW f \in [DOMAIN m -> DOMAIN s],
           \A i \in DOMAIN m : m[i] = s[f[i]],
           \A i, j \in DOMAIN m : f[i] = f[j] => i = j,
           NEW q
    PROVE  Copies(m, q) <= Copies(s, q)
<1> DEFINE A == {i \in DOMAIN m : m[i] = q}
           B == {i \in DOMAIN s : s[i] = q}
           g == [i \in A |-> f[i]]
<1>1. \A i \in A : g[i] \in B
  OBVIOUS
<1>2. \A i, j \in A : g[i] = g[j] => i = j
  OBVIOUS
<1>3. g \in Injection(A, B)
  BY <1>1, <1>2 DEF Injection, IsInjective
<1>4. IsFiniteSet(B)
  <2>1. IsFiniteSet({i \in DOMAIN s : s[i] = q}) /\ Copies(s, q) \in Nat
    BY CopiesNat, Zenon
  <2> QED
    BY <2>1
<1>5. Cardinality(A) <= Cardinality(B)
  <2> HIDE DEF g, A, B
  <2> QED
    BY <1>3, <1>4, FS_Injection
<1> QED
  BY <1>5 DEF Copies

-----------------------------------------------------------------------------
(* The filter of a list. *)

(* Rank numbers the kept indices 1, 2, ... in their order. *)
LEMMA RankBijection ==
    ASSUME NEW n \in Nat, NEW K \in SUBSET (1 .. n)
    PROVE  /\ Cardinality(K) \in Nat
           /\ \A i \in K : Rank(K, i) \in 1 .. Cardinality(K)
           /\ \A i, j \in K : Rank(K, i) = Rank(K, j) => i = j
           /\ \A r \in 1 .. Cardinality(K) : \E i \in K : Rank(K, i) = r
<1> DEFINE upTo(i) == {j \in K : j <= i}
           f == [i \in K |-> Rank(K, i)]
<1>1. IsFiniteSet(K) /\ Cardinality(K) \in Nat
  <2>1. IsFiniteSet(1 .. n)
    BY FS_Interval
  <2>2. IsFiniteSet(K)
    BY <2>1, FS_Subset
  <2> QED
    BY <2>2, FS_CardinalityType
<1>2. ASSUME NEW i \in K
      PROVE  IsFiniteSet(upTo(i)) /\ Rank(K, i) \in 1 .. Cardinality(K)
  <2>1. upTo(i) \in SUBSET K /\ i \in upTo(i)
    OBVIOUS
  <2>2. IsFiniteSet(upTo(i)) /\ Cardinality(upTo(i)) <= Cardinality(K)
    BY <1>1, <2>1, FS_Subset
  <2>3. Cardinality(upTo(i)) \in Nat /\ Cardinality(upTo(i)) # 0
    BY <2>1, <2>2, FS_CardinalityType, FS_EmptySet
  <2> QED
    BY <1>1, <2>2, <2>3 DEF Rank
<1>3. ASSUME NEW i \in K, NEW j \in K, Rank(K, i) = Rank(K, j), i < j
      PROVE  FALSE
  <2>1. upTo(i) \in SUBSET upTo(j) /\ j \in upTo(j) /\ j \notin upTo(i)
    <3>1. i \in Int /\ j \in Int /\ \A k \in K : k \in Int
      OBVIOUS
    <3>2. \A k \in K : k <= i => k <= j
      BY <1>3, <3>1
    <3>3. j <= j /\ ~(j <= i)
      BY <1>3, <3>1
    <3> QED
      BY <3>2, <3>3
  <2>2. upTo(i) = upTo(j)
    BY <1>2, <1>3, <2>1, FS_Subset DEF Rank
  <2> QED
    BY <2>1, <2>2
<1>4. \A i, j \in K : Rank(K, i) = Rank(K, j) => i = j
  <2> SUFFICES ASSUME NEW i \in K, NEW j \in K, Rank(K, i) = Rank(K, j)
               PROVE  i = j
    OBVIOUS
  <2>1. i < j \/ j < i \/ i = j
    OBVIOUS
  <2> QED
    BY <1>3, <2>1
<1>5. f \in Injection(K, 1 .. Cardinality(K))
  BY <1>2, <1>4 DEF Injection, IsInjective
<1>6. f \in Surjection(K, 1 .. Cardinality(K))
  <2>1. /\ IsFiniteSet(1 .. Cardinality(K))
        /\ Cardinality(1 .. Cardinality(K)) = Cardinality(K)
    BY <1>1, FS_Interval
  <2> QED
    BY <1>5, <2>1, FS_Injection
<1>7. \A r \in 1 .. Cardinality(K) : \E i \in K : Rank(K, i) = r
  BY <1>6 DEF Surjection
<1> QED
  BY <1>1, <1>2, <1>4, <1>7

(* Without(s, S) is a list of the items of s outside S, as often as s.     *)
LEMMA WithoutLemma ==
    ASSUME NEW X, NEW s \in Seq(X), NEW S
    PROVE  /\ Without(s, S) \in Seq(X)
           /\ Elements(Without(s, S)) = Elements(s) \ S
           /\ \A q : Copies(Without(s, S), q) <= Copies(s, q)
<1> DEFINE K == Kept(s, S)
           at(r) == CHOOSE i \in K : Rank(K, i) = r
           w == Without(s, S)
<1>1. Len(s) \in Nat /\ DOMAIN s = 1 .. Len(s) /\ K \in SUBSET (1 .. Len(s))
  BY DEF Kept
<1>2. /\ Cardinality(K) \in Nat
      /\ \A i \in K : Rank(K, i) \in 1 .. Cardinality(K)
      /\ \A i, j \in K : Rank(K, i) = Rank(K, j) => i = j
      /\ \A r \in 1 .. Cardinality(K) : \E i \in K : Rank(K, i) = r
  <2> HIDE DEF K
  <2> QED
    BY <1>1, RankBijection
<1>3. \A r \in 1 .. Cardinality(K) : at(r) \in K /\ Rank(K, at(r)) = r
  <2> HIDE DEF K
  <2> QED
    BY <1>2
<1>4. w = [r \in 1 .. Cardinality(K) |-> s[at(r)]]
  BY DEF Without
<1>5. \A i \in K : i \in DOMAIN s /\ s[i] \in X /\ s[i] \notin S
  BY DEF Kept
<1> HIDE DEF K, w
<1>6. DOMAIN w = 1 .. Cardinality(K) /\ \A r \in DOMAIN w : w[r] = s[at(r)]
  BY <1>4
<1> HIDE DEF at
<1>7. w \in Seq(X)
  BY <1>2, <1>3, <1>4, <1>5
<1>8. Elements(w) = Elements(s) \ S
  <2>1. \A r \in DOMAIN w : w[r] \in Elements(s) \ S
    BY <1>3, <1>5, <1>6 DEF Elements
  <2>2. ASSUME NEW x \in Elements(s) \ S
        PROVE  x \in Elements(w)
    <3>1. PICK i \in DOMAIN s : s[i] = x
      BY DEF Elements
    <3>2. i \in K
      BY <3>1 DEF K, Kept
    <3>3. Rank(K, i) \in DOMAIN w /\ at(Rank(K, i)) = i
      BY <1>2, <1>3, <1>6, <3>2
    <3> QED
      BY <1>6, <3>1, <3>3 DEF Elements
  <2> QED
    BY <2>1, <2>2 DEF Elements
<1>9. \A q : Copies(w, q) <= Copies(s, q)
  <2> DEFINE f == [r \in DOMAIN w |-> at(r)]
  <2>1. f \in [DOMAIN w -> DOMAIN s] /\ \A r \in DOMAIN w : w[r] = s[f[r]]
    BY <1>3, <1>5, <1>6
  <2>2. \A r, t \in DOMAIN w : f[r] = f[t] => r = t
    BY <1>3, <1>6
  <2> HIDE DEF f
  <2> QED
    BY <1>7, <2>1, <2>2, FewerCopies
<1> QED
  BY <1>7, <1>8, <1>9 DEF w

(* Requeueing puts the proxy at the end, listed or not, exactly once.      *)
LEMMA RequeueLemma ==
    ASSUME NEW X, NEW s \in Seq(X), NEW p \in X
    PROVE  /\ Requeue(s, p) \in Seq(X)
           /\ Elements(Requeue(s, p)) = Elements(s) \cup {p}
           /\ Copies(Requeue(s, p), p) = 1
           /\ \A q : q # p => Copies(Requeue(s, p), q) <= Copies(s, q)
<1> DEFINE w == Without(s, {p})
<1>1. /\ w \in Seq(X) /\ Elements(w) = Elements(s) \ {p}
      /\ \A q : Copies(w, q) <= Copies(s, q)
  BY WithoutLemma
<1> HIDE DEF w
<1>2. /\ Append(w, p) \in Seq(X) /\ Len(Append(w, p)) = Len(w) + 1
      /\ DOMAIN w = 1 .. Len(w) /\ Len(w) \in Nat
      /\ DOMAIN Append(w, p) = 1 .. (Len(w) + 1)
      /\ \A i \in 1 .. Len(w) : Append(w, p)[i] = w[i]
      /\ Append(w, p)[Len(w) + 1] = p
  BY <1>1
<1>3. Elements(Append(w, p)) = Elements(w) \cup {p}
  <2>1. \A i \in 1 .. (Len(w) + 1) : i \in 1 .. Len(w) \/ i = Len(w) + 1
    BY <1>2
  <2>2. \A i \in 1 .. Len(w) : i \in 1 .. (Len(w) + 1)
    BY <1>2
  <2>3. Len(w) + 1 \in 1 .. (Len(w) + 1)
    BY <1>2
  <2> QED
    BY <1>2, <2>1, <2>2, <2>3 DEF Elements
<1>4. p \in Elements(s) \cup {p} /\ Elements(Append(w, p)) = Elements(s) \cup {p}
  BY <1>1, <1>3
<1>5. Copies(Append(w, p), p) = 1
  <2>1. \A i \in 1 .. Len(w) : w[i] # p
    BY <1>1, <1>2 DEF Elements
  <2>2. {i \in DOMAIN Append(w, p) : Append(w, p)[i] = p} = {Len(w) + 1}
    BY <1>2, <2>1
  <2> QED
    BY <2>2, FS_Singleton DEF Copies
<1>6. ASSUME NEW q, q # p
      PROVE  Copies(Append(w, p), q) <= Copies(s, q)
  <2>1. {i \in DOMAIN Append(w, p) : Append(w, p)[i] = q} = {i \in DOMAIN w : w[i] = q}
    BY <1>2, <1>6
  <2> QED
    BY <1>1, <2>1 DEF Copies
<1> QED
  BY <1>1, <1>2, <1>4, <1>5, <1>6 DEF Requeue, w

LEMMA LeastExists ==
    ASSUME NEW S \in SUBSET Nat, S # {}
    PROVE  \E n \in S : \A m \in S : n <= m
<1>1. \A m, n \in Nat : m < n => <<m, n>> \in OpToRel(<, Nat)
  BY DEF OpToRel
<1>2. PICK n \in S : \A m \in S : ~ (<<m, n>> \in OpToRel(<, Nat))
  BY WFMin, NatLessThanWellFounded
<1>3. \A m \in S : ~ (m < n)
  BY <1>1, <1>2, Zenon
<1> QED
  BY <1>3

(* Moving to the front permutes the list, also one with duplicates.        *)
LEMMA MoveToFrontLemma ==
    ASSUME NEW X, NEW s \in Seq(X), NEW p
    PROVE  /\ MoveToFront(s, p) \in Seq(X)
           /\ Elements(MoveToFront(s, p)) = Elements(s)
           /\ \A q : Copies(MoveToFront(s, p), q) <= Copies(s, q)
<1>0. DOMAIN s = 1 .. Len(s) /\ Len(s) \in Nat /\ \A i \in DOMAIN s : s[i] \in X
  OBVIOUS
<1>1. CASE p \notin Elements(s)
  <2>1. \A q : Copies(s, q) <= Copies(s, q)
    <3> TAKE q
    <3>1. Copies(s, q) \in Nat
      BY CopiesNat
    <3> QED
      BY <3>1
  <2> QED
    BY <1>1, <2>1 DEF MoveToFront
<1>2. CASE p \in Elements(s)
  <2> DEFINE n == FirstEntry(s, p)
             m == MoveToFront(s, p)
             from(i) == IF i = 1 THEN n ELSE IF i <= n THEN i - 1 ELSE i
             f == [i \in DOMAIN m |-> from(i)]
  <2>1. n \in DOMAIN s /\ s[n] = p
    <3> DEFINE I == {i \in DOMAIN s : s[i] = p}
    <3>1. I \in SUBSET Nat /\ I # {}
      BY <1>0, <1>2 DEF Elements
    <3>2. PICK k \in I : \A j \in I : k <= j
      BY <3>1, LeastExists
    <3>3. k \in DOMAIN s /\ s[k] = p /\ \A j \in DOMAIN s : s[j] = p => k <= j
      BY <3>2
    <3> QED
      BY <3>3 DEF FirstEntry
  <2>2. m = [i \in DOMAIN s |-> IF i = 1 THEN p ELSE IF i <= n THEN s[i - 1] ELSE s[i]]
    BY <1>2 DEF MoveToFront
  <2> HIDE DEF n, m
  <2>3. DOMAIN m = 1 .. Len(s)
    BY <1>0, <2>2
  <2>4. \A i \in 1 .. Len(s) : from(i) \in 1 .. Len(s) /\ m[i] = s[from(i)]
    BY <1>0, <2>1, <2>2
  <2>5. m \in Seq(X)
    <3>1. \A i \in 1 .. Len(s) : m[i] \in X
      BY <1>0, <2>4
    <3>2. m = [i \in 1 .. Len(s) |-> m[i]]
      BY <1>0, <2>2
    <3> QED
      BY <1>0, <3>1, <3>2
  <2>6. \A i, j \in 1 .. Len(s) : from(i) = from(j) => i = j
    BY <1>0, <2>1
  <2>7. \A k \in 1 .. Len(s) : \E i \in 1 .. Len(s) : from(i) = k
    <3> TAKE k \in 1 .. Len(s)
    <3>1. CASE k = n
      <4>1. 1 \in 1 .. Len(s) /\ from(1) = k
        BY <1>0, <2>1, <3>1
      <4> QED
        BY <4>1
    <3>2. CASE k < n
      <4>1. k + 1 \in 1 .. Len(s) /\ from(k + 1) = k
        BY <1>0, <2>1, <3>2
      <4> QED
        BY <4>1
    <3>3. CASE k > n
      <4>1. from(k) = k
        BY <1>0, <2>1, <3>3
      <4> QED
        BY <4>1
    <3>4. n \in Int /\ k \in Int
      BY <1>0, <2>1
    <3> QED
      BY <3>1, <3>2, <3>3, <3>4
  <2> HIDE DEF from
  <2>8. Elements(m) = Elements(s)
    <3>1. \A i \in DOMAIN m : m[i] \in Elements(s)
      BY <1>0, <2>3, <2>4 DEF Elements
    <3>2. \A k \in DOMAIN s : s[k] \in Elements(m)
      <4> TAKE k \in DOMAIN s
      <4>1. PICK i \in 1 .. Len(s) : from(i) = k
        BY <1>0, <2>7
      <4>2. i \in DOMAIN m /\ m[i] = s[k]
        BY <2>3, <2>4, <4>1
      <4> QED
        BY <4>2 DEF Elements
    <3> QED
      BY <3>1, <3>2 DEF Elements
  <2>9. \A q : Copies(m, q) <= Copies(s, q)
    <3>1. f \in [DOMAIN m -> DOMAIN s] /\ \A i \in DOMAIN m : m[i] = s[f[i]]
      BY <1>0, <2>3, <2>4
    <3>2. \A i, j \in DOMAIN m : f[i] = f[j] => i = j
      BY <2>3, <2>6
    <3> HIDE DEF f
    <3> QED
      BY <2>5, <3>1, <3>2, FewerCopies
  <2> QED
    BY <2>5, <2>8, <2>9 DEF m
<1> QED
  BY <1>1, <1>2

(* switch() finds its next proxy in the list.                              *)
LEMMA NextIndexLemma ==
    ASSUME NEW X, NEW s \in Seq(X), s # <<>>, NEW i \in Nat
    PROVE  /\ NextIndex(i, s) \in Nat
           /\ NextIndex(i, s) + 1 \in DOMAIN s
           /\ s[NextIndex(i, s) + 1] \in X
<1>1. Len(s) \in Nat \ {0} /\ DOMAIN s = 1 .. Len(s)
  OBVIOUS
<1>2. NextIndex(i, s) \in 0 .. (Len(s) - 1)
  BY <1>1 DEF NextIndex
<1>3. NextIndex(i, s) \in Nat /\ NextIndex(i, s) + 1 \in 1 .. Len(s)
  BY <1>1, <1>2
<1> QED
  BY <1>1, <1>3

-----------------------------------------------------------------------------
(* Type correctness. *)

LEMMA ThreadFacts ==
    /\ \A c \in Callers : c \in Threads /\ c \notin Timers /\ c # None
                         /\ StatesOf(c) = CallerStates
    /\ "rotate" \in Timers /\ "rotate" \in Threads /\ StatesOf("rotate") = TimerStates
    /\ "health" \in Timers /\ "health" \in Threads /\ StatesOf("health") = HealthStates
    /\ \A t \in Timers : t \in Threads /\ TimerStates \subseteq StatesOf(t)
    /\ \A t \in Threads : t \in Timers \/ t \in Callers
    /\ None \notin Threads
<1>1. Callers \cap Timers = {} /\ None \notin Threads
  BY CallersAssumption
<1> QED
  BY <1>1 DEF Threads, Timers, StatesOf, HealthStates

LEMMA GotoLemma ==
    ASSUME PcOK, NEW t \in Threads, NEW l \in StatesOf(t), Goto(t, l)
    PROVE  PcOK'
<1>1. StatesOf(t) \subseteq CallerStates \cup HealthStates
  BY DEF StatesOf, HealthStates
<1> QED
  BY <1>1 DEF PcOK, Goto

LEMMA TypeInit == Init => TypeOK
<1> SUFFICES ASSUME Init
             PROVE  TypeOK
  OBVIOUS
<1>1. pool \in Seq(Proxies) /\ pool # <<>>
  <2>1. PICK n \in 1 .. MaxListed : pool \in [1 .. n -> Proxies]
    BY DEF Init, Pools
  <2>2. n \in Nat /\ n # 0
    BY <2>1, ListedAssumption
  <2> QED
    BY <2>1, <2>2
<1>2. idx \in Nat /\ active \in Proxies
  BY <1>1, NextIndexLemma DEF Init
<1>3. PcOK
  BY ThreadFacts DEF Init, PcOK, CallerStates, TimerStates, HealthStates, StatesOf
<1> QED
  BY <1>1, <1>2, <1>3 DEF Init, TypeOK

LEMMA TypeStep ==
    ASSUME TypeOK, LockDiscipline, StepsHaveProxy, Next
    PROVE  TypeOK'
<1> USE DEF data, health, stops, vars
<1>1. ASSUME NEW c \in Callers, Caller(c)
      PROVE  TypeOK'
  <2> c \in Threads /\ StatesOf(c) = CallerStates /\ c \notin Timers
    BY ThreadFacts
  <2>1. CASE MarkFailedNone(c)
    BY <2>1 DEF MarkFailedNone, TypeOK, PcOK
  <2>2. CASE MarkFailedRead(c)
    <3>1. PcOK'
      BY <2>2, GotoLemma DEF MarkFailedRead, TypeOK, CallerStates
    <3> QED
      BY <2>2, <3>1 DEF MarkFailedRead, HasProxy, TypeOK
  <2>3. CASE MarkFailedRequeue(c)
    <3>1. PcOK'
      BY <2>3, GotoLemma DEF MarkFailedRequeue, TypeOK, CallerStates
    <3>2. active \in Proxies
      <4>1. lock = c /\ lock # None
        BY <2>3, ThreadFacts DEF MarkFailedRequeue, LockDiscipline
      <4> QED
        BY <4>1 DEF StepsHaveProxy, TypeOK
    <3>3. pool' \in Seq(Proxies)
      BY <2>3, <3>2, RequeueLemma DEF MarkFailedRequeue, TypeOK
    <3>4. failures' \in [Proxies -> Nat]
      <4>1. failures \in [Proxies -> Nat] /\ count + 1 \in Nat
        BY DEF TypeOK
      <4>2. failures' = [failures EXCEPT ![active] = count + 1]
        BY <2>3 DEF MarkFailedRequeue, StoreCount
      <4> QED
        BY <4>1, <4>2
    <3> QED
      BY <2>3, <3>1, <3>3, <3>4 DEF MarkFailedRequeue, TypeOK
  <2>4. CASE MarkFailedThreshold(c)
    <3>1. PcOK'
      BY <2>4, GotoLemma DEF MarkFailedThreshold, TypeOK, CallerStates
    <3>2. failures' \in [Proxies -> Nat]
      <4>1. failures \in [Proxies -> Nat] /\ count + 1 \in Nat
        BY DEF TypeOK
      <4>2. failures' = [failures EXCEPT ![active] = count + 1]
        BY <2>4 DEF MarkFailedThreshold, StoreCount
      <4> QED
        BY <4>1, <4>2
    <3> QED
      BY <2>4, <3>1, <3>2 DEF MarkFailedThreshold, TypeOK
  <2>5. CASE MarkFailedEvict(c)
    <3>1. PcOK'
      BY <2>5, GotoLemma DEF MarkFailedEvict, TypeOK, CallerStates
    <3>2. pool' \in Seq(Proxies)
      BY <2>5, WithoutLemma DEF MarkFailedEvict, TypeOK
    <3> QED
      BY <2>5, <3>1, <3>2 DEF MarkFailedEvict, TypeOK
  <2>6. CASE MarkFailedKeyError(c)
    <3>1. PcOK'
      BY <2>6, GotoLemma DEF MarkFailedKeyError, TypeOK, CallerStates
    <3>2. pool' \in Seq(Proxies)
      BY <2>6, WithoutLemma DEF MarkFailedKeyError, TypeOK
    <3> QED
      BY <2>6, <3>1, <3>2 DEF MarkFailedKeyError, TypeOK
  <2>7. CASE SwitchReturn(c)
    <3>1. PcOK'
      BY <2>7, GotoLemma DEF SwitchReturn, TypeOK, CallerStates
    <3> QED
      BY <2>7, <3>1 DEF SwitchReturn, TypeOK
  <2>8. CASE RecordSuccess(c)
    <3>1. pool' \in Seq(Proxies)
      BY <2>8, MoveToFrontLemma DEF RecordSuccess, TypeOK
    <3> QED
      BY <2>8, <3>1 DEF RecordSuccess, TypeOK, PcOK
  <2> QED
    BY <1>1, <2>1, <2>2, <2>3, <2>4, <2>5, <2>6, <2>7, <2>8
       DEF Caller, MarkFailedStep
<1>2. ASSUME NEW t \in Threads, Switch(t)
      PROVE  TypeOK'
  <2>1. /\ "swLog" \in StatesOf(t) /\ Resumed(t) \in StatesOf(t)
        /\ Abandoned(t) \in StatesOf(t)
        /\ (IF t \in Timers THEN Resumed(t) ELSE "swReturn") \in StatesOf(t)
    BY ThreadFacts DEF Resumed, Abandoned, CallerStates, TimerStates
  <2>2. CASE SwitchAdvance(t)
    <3>1. PcOK'
      BY <2>1, <2>2, GotoLemma DEF SwitchAdvance, TypeOK
    <3>2. idx' \in Nat /\ active' \in Proxies
      BY <2>2, NextIndexLemma DEF SwitchAdvance, TypeOK
    <3> QED
      BY <2>2, <3>1, <3>2 DEF SwitchAdvance, TypeOK
  <2>3. CASE SwitchEmpty(t)
    <3>1. PcOK'
      BY <2>1, <2>3, GotoLemma DEF SwitchEmpty, TypeOK
    <3> QED
      BY <2>3, <3>1 DEF SwitchEmpty, TypeOK
  <2>4. CASE SwitchLog(t)
    <3>1. PcOK'
      BY <2>1, <2>4, GotoLemma DEF SwitchLog, TypeOK
    <3> QED
      BY <2>4, <3>1 DEF SwitchLog, TypeOK
  <2>5. CASE SwitchLogRaises(t)
    <3>1. PcOK'
      BY <2>1, <2>5, GotoLemma DEF SwitchLogRaises, TypeOK
    <3> QED
      BY <2>5, <3>1 DEF SwitchLogRaises, TypeOK
  <2> QED
    BY <1>2, <2>2, <2>3, <2>4, <2>5 DEF Switch
<1>3. ASSUME NEW t \in Timers, Timer(t)
      PROVE  TypeOK'
  <2>1. /\ t \in Threads /\ "ended" \in StatesOf(t) /\ "create" \in StatesOf(t)
        /\ "armed" \in StatesOf(t) /\ FirstStep(t) \in StatesOf(t)
    BY ThreadFacts DEF FirstStep, TimerStates, HealthStates, Timers
  <2>2. CASE Fire(t)
    <3>1. PcOK'
      BY <2>1, <2>2, GotoLemma DEF Fire, TypeOK
    <3> QED
      BY <2>2, <3>1 DEF Fire, TypeOK
  <2>3. CASE Rearm(t)
    <3>1. PcOK'
      BY <2>1, <2>3, GotoLemma DEF Rearm, TypeOK
    <3> QED
      BY <2>3, <3>1 DEF Rearm, TypeOK
  <2>4. CASE Create(t)
    <3>1. PcOK'
      BY <2>1, <2>4, GotoLemma DEF Create, TypeOK
    <3> QED
      BY <2>4, <3>1 DEF Create, TypeOK
  <2> QED
    BY <1>3, <2>2, <2>3, <2>4 DEF Timer
<1>4. CASE HealthCheck
  <2> "health" \in Threads /\ StatesOf("health") = HealthStates
    BY ThreadFacts
  <2>0. \A l \in {"rearm", "hcProbe", "hcStore", "hcCheck", "swLock"} : l \in StatesOf("health")
    BY DEF HealthStates, TimerStates
  <2>1. CASE HealthSnapshot
    <3>1. PcOK'
      BY <2>0, <2>1, GotoLemma DEF HealthSnapshot, TypeOK
    <3>2. todo' \in [Proxies -> Nat]
      <4>1. PICK T \in Sample(Candidates) :
                todo' = [k \in Proxies |-> Cardinality({i \in T : pool[i] = k})]
        BY <2>1 DEF HealthSnapshot
      <4>2. IsFiniteSet(1 .. Len(pool)) /\ T \subseteq 1 .. Len(pool)
        <5>1. Len(pool) \in Nat /\ DOMAIN pool = 1 .. Len(pool)
          BY DEF TypeOK
        <5>2. IsFiniteSet(1 .. Len(pool))
          BY <5>1, FS_Interval
        <5>3. T \subseteq DOMAIN pool
          BY <4>1 DEF Sample, Candidates
        <5> QED
          BY <5>1, <5>2, <5>3
      <4>3. \A k : Cardinality({i \in T : pool[i] = k}) \in Nat
        <5> TAKE k
        <5>1. IsFiniteSet({i \in T : pool[i] = k})
          BY <4>2, FS_Subset
        <5> QED
          BY <5>1, FS_CardinalityType
      <4> QED
        BY <4>1, <4>3
    <3> QED
      BY <2>1, <3>1, <3>2 DEF HealthSnapshot, TypeOK
  <2>1a. CASE HealthNoCandidate
    <3>1. PcOK'
      BY <2>0, <2>1a, GotoLemma DEF HealthNoCandidate, TypeOK
    <3> QED
      BY <2>1a, <3>1 DEF HealthNoCandidate, TypeOK
  <2>2. CASE HealthProbeOk
    <3>1. PICK k \in ToProbe : failures' = [failures EXCEPT ![k] = 0] /\ Probed(k)
      BY <2>2 DEF HealthProbeOk
    <3>2. todo' \in [Proxies -> Nat] /\ failures' \in [Proxies -> Nat]
      BY <3>1 DEF Probed, ToProbe, TypeOK
    <3> QED
      BY <2>2, <3>2 DEF HealthProbeOk, TypeOK, PcOK
  <2>3. CASE HealthProbeFails
    <3>1. PcOK'
      BY <2>0, <2>3, GotoLemma DEF HealthProbeFails, TypeOK
    <3>2. PICK k \in ToProbe : cur' = k /\ hcCount' = failures[k] /\ Probed(k)
      BY <2>3 DEF HealthProbeFails
    <3>3. todo' \in [Proxies -> Nat] /\ cur' \in Proxies /\ hcCount' \in Nat
      BY <3>2 DEF Probed, ToProbe, TypeOK
    <3> QED
      BY <2>3, <3>1, <3>3 DEF HealthProbeFails, TypeOK
  <2>4. CASE HealthStore
    <3>1. PcOK'
      BY <2>0, <2>4, GotoLemma DEF HealthStore, TypeOK
    <3>2. cur \in Proxies
      BY <2>4 DEF HealthStore, StepsHaveProxy, TypeOK
    <3> QED
      BY <2>4, <3>1, <3>2 DEF HealthStore, TypeOK
  <2>5. CASE HealthNothingToEvict
    <3>1. PcOK'
      BY <2>0, <2>5, GotoLemma DEF HealthNothingToEvict, TypeOK
    <3> QED
      BY <2>5, <3>1 DEF HealthNothingToEvict, TypeOK
  <2>6. CASE HealthEvict
    <3>1. PcOK'
      BY <2>0, <2>6, GotoLemma DEF HealthEvict, TypeOK
    <3>2. pool' \in Seq(Proxies)
      BY <2>6, WithoutLemma DEF HealthEvict, TypeOK
    <3> QED
      BY <2>6, <3>1, <3>2 DEF HealthEvict, TypeOK
  <2>7. CASE HealthCheckActive
    <3>1. PcOK'
      BY <2>0, <2>7, GotoLemma DEF HealthCheckActive, TypeOK
    <3> QED
      BY <2>7, <3>1 DEF HealthCheckActive, TypeOK
  <2> QED
    BY <1>4, <2>1, <2>1a, <2>2, <2>3, <2>4, <2>5, <2>6, <2>7 DEF HealthCheck
<1>5. CASE Stop
  <2>1. ASSUME NEW t \in Timers, Cancel(t)
        PROVE  PcOK'
    <3>1. t \in Threads /\ "ended" \in StatesOf(t)
      BY ThreadFacts DEF TimerStates
    <3>2. CASE pc[t] = "armed"
      BY <2>1, <3>1, <3>2, GotoLemma DEF Cancel, TypeOK
    <3>3. CASE pc[t] # "armed"
      BY <2>1, <3>3 DEF Cancel, TypeOK, PcOK
    <3> QED
      BY <3>2, <3>3
  <2>2. CASE StopFlag
    BY <2>2 DEF StopFlag, TypeOK, PcOK
  <2>3. CASE StopCancelRotate
    <3>1. PcOK'
      BY <2>1, <2>3, ThreadFacts DEF StopCancelRotate
    <3> QED
      BY <2>3, <3>1 DEF StopCancelRotate, TypeOK
  <2>4. CASE StopCancelHealth
    <3>1. PcOK'
      BY <2>1, <2>4, ThreadFacts DEF StopCancelHealth
    <3> QED
      BY <2>4, <3>1 DEF StopCancelHealth, TypeOK
  <2> QED
    BY <1>5, <2>2, <2>3, <2>4 DEF Stop
<1> QED
  BY <1>1, <1>2, <1>3, <1>4, <1>5 DEF Next

-----------------------------------------------------------------------------
(* The lock and the thread inside a split block. *)

Split == {"mfStore", "mfEvict"}

LEMMA LockKept ==
    ASSUME PcOK, LockDiscipline, NEW t \in Threads, NEW l, Goto(t, l),
           pc[t] \in Split <=> l \in Split, UNCHANGED lock
    PROVE  LockDiscipline'
BY DEF PcOK, LockDiscipline, Goto, Split

LEMMA LockTaken ==
    ASSUME PcOK, LockDiscipline, NEW t \in Threads, NEW l \in Split, Goto(t, l),
           LockFree, lock' = t
    PROVE  LockDiscipline'
<1>1. \A u \in Threads : pc[u] \notin Split
  BY ThreadFacts DEF LockDiscipline, LockFree, Split
<1> QED
  BY <1>1 DEF PcOK, LockDiscipline, Goto, Split

LEMMA LockReleased ==
    ASSUME PcOK, LockDiscipline, NEW t \in Threads, pc[t] \in Split, NEW l, Goto(t, l),
           l \notin Split, lock' = None
    PROVE  LockDiscipline'
<1>1. \A u \in Threads : u # t => pc[u] \notin Split
  BY DEF LockDiscipline, Split
<1> QED
  BY <1>1, ThreadFacts DEF PcOK, LockDiscipline, Goto, Split

LEMMA LockStep ==
    ASSUME PcOK, LockDiscipline, Next
    PROVE  LockDiscipline'
<1> USE DEF data, health, stops, vars
<1>1. ASSUME NEW c \in Callers, Caller(c)
      PROVE  LockDiscipline'
  <2> c \in Threads
    BY ThreadFacts
  <2>1. CASE MarkFailedNone(c)
    BY <2>1 DEF MarkFailedNone, LockDiscipline
  <2>2. CASE MarkFailedRead(c)
    BY <2>2, LockTaken DEF MarkFailedRead, Split
  <2>3. CASE MarkFailedRequeue(c)
    BY <2>3, LockReleased DEF MarkFailedRequeue, Split
  <2>4. CASE MarkFailedThreshold(c)
    BY <2>4, LockKept DEF MarkFailedThreshold, Split
  <2>5. CASE MarkFailedEvict(c)
    BY <2>5, LockReleased DEF MarkFailedEvict, Split
  <2>6. CASE MarkFailedKeyError(c)
    BY <2>6, LockReleased DEF MarkFailedKeyError, Split
  <2>7. CASE SwitchReturn(c)
    BY <2>7, LockKept DEF SwitchReturn, Split
  <2>8. CASE RecordSuccess(c)
    BY <2>8 DEF RecordSuccess, LockDiscipline
  <2> QED
    BY <1>1, <2>1, <2>2, <2>3, <2>4, <2>5, <2>6, <2>7, <2>8
       DEF Caller, MarkFailedStep
<1>2. ASSUME NEW t \in Threads, Switch(t)
      PROVE  LockDiscipline'
  <2>1. PICK l : Goto(t, l) /\ l \notin Split
    BY <1>2 DEF Switch, SwitchAdvance, SwitchEmpty, SwitchLog, SwitchLogRaises,
                Resumed, Abandoned, Split
  <2>2. pc[t] \notin Split /\ UNCHANGED lock
    BY <1>2 DEF Switch, SwitchAdvance, SwitchEmpty, SwitchLog, SwitchLogRaises, Split
  <2> QED
    BY <2>1, <2>2, LockKept
<1>3. ASSUME NEW t \in Timers, Timer(t)
      PROVE  LockDiscipline'
  <2>1. PICK l : Goto(t, l) /\ l \notin Split
    BY <1>3 DEF Timer, Fire, Rearm, Create, FirstStep, Split
  <2>2. t \in Threads /\ pc[t] \notin Split /\ UNCHANGED lock
    BY <1>3, ThreadFacts DEF Timer, Fire, Rearm, Create, Split
  <2> QED
    BY <2>1, <2>2, LockKept
<1>4. CASE HealthCheck
  <2>1. "health" \in Threads /\ pc["health"] \notin Split /\ UNCHANGED lock
    BY <1>4, ThreadFacts
       DEF HealthCheck, HealthNoCandidate, HealthSnapshot, HealthProbeOk, HealthProbeFails, HealthStore,
           HealthNothingToEvict, HealthEvict, HealthCheckActive, Split
  <2>2. CASE HealthProbeOk
    BY <2>2 DEF HealthProbeOk, LockDiscipline
  <2>3. CASE ~HealthProbeOk
    <3>1. PICK l : Goto("health", l) /\ l \notin Split
      BY <1>4, <2>3
         DEF HealthCheck, HealthNoCandidate, HealthSnapshot, HealthProbeFails, HealthStore,
             HealthNothingToEvict, HealthEvict, HealthCheckActive, Split
    <3> QED
      BY <2>1, <3>1, LockKept
  <2> QED
    BY <2>2, <2>3
<1>5. CASE Stop
  <2>1. UNCHANGED lock
    BY <1>5 DEF Stop, StopFlag, StopCancelRotate, StopCancelHealth
  <2>2. CASE UNCHANGED pc
    BY <2>1, <2>2 DEF LockDiscipline
  <2>3. CASE pc' # pc
    <3>1. PICK t \in Timers : pc[t] = "armed" /\ Goto(t, "ended")
      BY <1>5, <2>3, ThreadFacts DEF Stop, StopFlag, StopCancelRotate, StopCancelHealth, Cancel
    <3> QED
      BY <2>1, <3>1, LockKept, ThreadFacts DEF Split
  <2> QED
    BY <2>2, <2>3
<1> QED
  BY <1>1, <1>2, <1>3, <1>4, <1>5 DEF Next

-----------------------------------------------------------------------------
(* Which steps touch the active proxy, the lock and the health check.      *)

LEMMA ActiveSteps ==
    ASSUME TypeOK, Next, ~HealthEvict
    PROVE  active' = active \/ active' \in Proxies
<1> USE DEF data, health, stops, vars
<1>1. ASSUME NEW t \in Threads, SwitchAdvance(t)
      PROVE  active' \in Proxies
  BY <1>1, NextIndexLemma DEF SwitchAdvance, TypeOK
<1>2. ASSUME NEW t \in Threads, Switch(t), ~SwitchAdvance(t)
      PROVE  active' = active
  BY <1>2 DEF Switch, SwitchEmpty, SwitchLog, SwitchLogRaises
<1>3. ASSUME NEW c \in Callers, Caller(c)
      PROVE  active' = active
  BY <1>3 DEF Caller, MarkFailedNone, MarkFailedRead, MarkFailedStep, MarkFailedRequeue,
              MarkFailedThreshold, MarkFailedEvict, MarkFailedKeyError, SwitchReturn,
              RecordSuccess
<1>4. ASSUME NEW t \in Timers, Timer(t)
      PROVE  active' = active
  BY <1>4 DEF Timer, Fire, Rearm, Create
<1>5. ASSUME HealthCheck, ~HealthEvict
      PROVE  active' = active
  BY <1>5 DEF HealthCheck, HealthNoCandidate, HealthSnapshot, HealthProbeOk, HealthProbeFails, HealthStore,
              HealthNothingToEvict, HealthCheckActive
<1>6. ASSUME Stop
      PROVE  active' = active
  BY <1>6 DEF Stop, StopFlag, StopCancelRotate, StopCancelHealth
<1> QED
  BY <1>1, <1>2, <1>3, <1>4, <1>5, <1>6 DEF Next

LEMMA LockSteps ==
    ASSUME Next
    PROVE  lock' = lock \/ lock' = None \/ (HasProxy /\ UNCHANGED active)
<1> USE DEF data, health, stops, vars
<1>1. ASSUME NEW c \in Callers, Caller(c)
      PROVE  lock' = lock \/ lock' = None \/ (HasProxy /\ UNCHANGED active)
  BY <1>1 DEF Caller, MarkFailedNone, MarkFailedRead, MarkFailedStep, MarkFailedRequeue,
              MarkFailedThreshold, MarkFailedEvict, MarkFailedKeyError, SwitchReturn,
              RecordSuccess
<1>2. ASSUME NEW t \in Threads, Switch(t)
      PROVE  lock' = lock
  BY <1>2 DEF Switch, SwitchAdvance, SwitchEmpty, SwitchLog, SwitchLogRaises
<1>3. ASSUME NEW t \in Timers, Timer(t)
      PROVE  lock' = lock
  BY <1>3 DEF Timer, Fire, Rearm, Create
<1>4. CASE HealthCheck
  BY <1>4 DEF HealthCheck, HealthNoCandidate, HealthSnapshot, HealthProbeOk, HealthProbeFails, HealthStore,
              HealthNothingToEvict, HealthEvict, HealthCheckActive
<1>5. CASE Stop
  BY <1>5 DEF Stop, StopFlag, StopCancelRotate, StopCancelHealth
<1> QED
  BY <1>1, <1>2, <1>3, <1>4, <1>5 DEF Next

(* No other thread moves the health check or changes what it has gathered. *)
LEMMA HealthSteps ==
    ASSUME PcOK, Next
    PROVE  \/ pc'["health"] = pc["health"] /\ UNCHANGED health
           \/ Switch("health") \/ Timer("health") \/ HealthCheck
           \/ /\ pc["health"] = "armed" /\ pc'["health"] = "ended"
              /\ UNCHANGED <<health, active, pool>>
<1> USE DEF data, health, stops, vars
<1> DEFINE Still == pc'["health"] = pc["health"] /\ UNCHANGED health
<1>1. ASSUME NEW t \in Threads, t # "health", NEW l, Goto(t, l)
      PROVE  pc'["health"] = pc["health"]
  BY <1>1, ThreadFacts DEF PcOK, Goto
<1>2. ASSUME NEW c \in Callers, Caller(c)
      PROVE  Still
  <2>1. c \in Threads /\ c # "health"
    BY ThreadFacts
  <2>2. UNCHANGED pc \/ \E l : Goto(c, l)
    BY <1>2 DEF Caller, MarkFailedNone, MarkFailedRead, MarkFailedStep, MarkFailedRequeue,
                MarkFailedThreshold, MarkFailedEvict, MarkFailedKeyError, SwitchReturn,
                RecordSuccess
  <2>3. UNCHANGED health
    BY <1>2 DEF Caller, MarkFailedNone, MarkFailedRead, MarkFailedStep, MarkFailedRequeue,
                MarkFailedThreshold, MarkFailedEvict, MarkFailedKeyError, SwitchReturn,
                RecordSuccess
  <2> QED
    BY <1>1, <2>1, <2>2, <2>3
<1>3. ASSUME NEW t \in Threads, t # "health", Switch(t)
      PROVE  Still
  <2>1. (\E l : Goto(t, l)) /\ UNCHANGED health
    BY <1>3 DEF Switch, SwitchAdvance, SwitchEmpty, SwitchLog, SwitchLogRaises
  <2> QED
    BY <1>1, <1>3, <2>1
<1>4. ASSUME NEW t \in Timers, t # "health", Timer(t)
      PROVE  Still
  <2>1. t \in Threads /\ (\E l : Goto(t, l)) /\ UNCHANGED health
    BY <1>4, ThreadFacts DEF Timer, Fire, Rearm, Create
  <2> QED
    BY <1>1, <1>4, <2>1
<1>5. CASE Stop
  <2>1. UNCHANGED <<health, active, pool>>
    BY <1>5 DEF Stop, StopFlag, StopCancelRotate, StopCancelHealth
  <2>2. CASE UNCHANGED pc
    BY <2>1, <2>2
  <2>3. CASE pc' # pc
    <3>1. PICK t \in Timers : pc[t] = "armed" /\ Goto(t, "ended")
      BY <1>5, <2>3, ThreadFacts DEF Stop, StopFlag, StopCancelRotate, StopCancelHealth, Cancel
    <3>2. CASE t = "health"
      BY <2>1, <3>1, <3>2, ThreadFacts DEF PcOK, Goto
    <3>3. CASE t # "health"
      BY <1>1, <2>1, <3>1, <3>3, ThreadFacts
    <3> QED
      BY <3>2, <3>3
  <2> QED
    BY <2>2, <2>3
<1> QED
  BY <1>2, <1>3, <1>4, <1>5 DEF Next

(* Where the health check's own steps can take it. *)
LEMMA HealthTargets ==
    ASSUME PcOK, Switch("health") \/ Timer("health") \/ HealthCheck
    PROVE  /\ pc'["health"] = "hcStore" =>
                  HealthProbeFails
           /\ pc'["health"] = "swLog" => SwitchAdvance("health")
           /\ pc'["health"] = "dead" => SwitchLogRaises("health") \/ pc["health"] = "dead"
           /\ pc["health"] = "hcCheck" => HealthCheckActive
           /\ pc["health"] = "swLock" => SwitchAdvance("health") \/ SwitchEmpty("health")
<1> USE DEF data, health, stops, vars
<1>1. \A l : Goto("health", l) => pc'["health"] = l
  BY ThreadFacts DEF PcOK, Goto
<1>2. CASE Switch("health")
  BY <1>1, <1>2, ThreadFacts
     DEF Switch, SwitchAdvance, SwitchEmpty, SwitchLog, SwitchLogRaises, Resumed, Abandoned
<1>3. CASE Timer("health")
  BY <1>1, <1>3 DEF Timer, Fire, Rearm, Create, FirstStep
<1>4. CASE HealthCheck
  BY <1>1, <1>4
     DEF HealthCheck, HealthNoCandidate, HealthSnapshot, HealthProbeOk, HealthProbeFails, HealthStore,
         HealthNothingToEvict, HealthEvict, HealthCheckActive
<1> QED
  BY <1>2, <1>3, <1>4

-----------------------------------------------------------------------------
(* The steps that use a proxy have one. *)

(* Nobody changes the pool under a handler that is about to store its      *)
(* count; and it began with a pool that was not empty.                     *)
LEMMA StoringSteps ==
    ASSUME PcOK, LockDiscipline, Next, NEW c \in Callers, pc'[c] = "mfStore"
    PROVE  UNCHANGED pool /\ (pc[c] = "mfStore" \/ pool # <<>>)
<1> USE DEF data, health, stops, vars
<1>0. c \in Threads /\ c \notin Timers /\ c # None
  BY ThreadFacts
<1>a. \A t \in Threads : \A l : Goto(t, l) => pc'[t] = l /\ (t # c => pc'[c] = pc[c])
  BY <1>0 DEF PcOK, Goto
<1>b. pc[c] = "mfStore" => ~LockFree /\ \A t \in Threads : t # c => pc[t] \notin Split
  BY <1>0 DEF LockDiscipline, LockFree, Split
<1>1. ASSUME Caller(c)
      PROVE  UNCHANGED pool /\ (pc[c] = "mfStore" \/ pool # <<>>)
  <2>1. CASE MarkFailedRead(c)
    BY <2>1 DEF MarkFailedRead, HasProxy
  <2>2. CASE MarkFailedStep(c)
    BY <1>0, <1>a, <2>2 DEF MarkFailedStep, MarkFailedRequeue, MarkFailedThreshold,
                            MarkFailedEvict, MarkFailedKeyError
  <2>3. CASE SwitchReturn(c)
    BY <1>0, <1>a, <2>3 DEF SwitchReturn
  <2>4. CASE MarkFailedNone(c) \/ RecordSuccess(c)
    BY <2>4 DEF MarkFailedNone, RecordSuccess
  <2> QED
    BY <1>1, <2>1, <2>2, <2>3, <2>4 DEF Caller
<1>2. ASSUME NEW d \in Callers, d # c, Caller(d)
      PROVE  UNCHANGED pool /\ (pc[c] = "mfStore" \/ pool # <<>>)
  <2>1. d \in Threads
    BY ThreadFacts
  <2>2. UNCHANGED pc \/ \E l : Goto(d, l)
    BY <1>2 DEF Caller, MarkFailedNone, MarkFailedRead, MarkFailedStep, MarkFailedRequeue,
                MarkFailedThreshold, MarkFailedEvict, MarkFailedKeyError, SwitchReturn,
                RecordSuccess
  <2>3. pc[c] = "mfStore"
    BY <1>2, <1>a, <2>1, <2>2
  <2>4. ~LockFree /\ pc[d] \notin Split
    BY <1>2, <1>b, <2>1, <2>3
  <2> QED
    BY <1>2, <2>3, <2>4
       DEF Caller, MarkFailedNone, MarkFailedRead, MarkFailedStep, MarkFailedRequeue,
           MarkFailedThreshold, MarkFailedEvict, MarkFailedKeyError, SwitchReturn,
           RecordSuccess, Split
<1>3. ASSUME NEW t \in Threads, Switch(t)
      PROVE  UNCHANGED pool /\ (pc[c] = "mfStore" \/ pool # <<>>)
  <2>1. PICK l : Goto(t, l) /\ l # "mfStore"
    BY <1>3 DEF Switch, SwitchAdvance, SwitchEmpty, SwitchLog, SwitchLogRaises, Resumed, Abandoned
  <2>2. UNCHANGED pool
    BY <1>3 DEF Switch, SwitchAdvance, SwitchEmpty, SwitchLog, SwitchLogRaises
  <2> QED
    BY <1>a, <2>1, <2>2
<1>4. ASSUME NEW t \in Timers, Timer(t)
      PROVE  UNCHANGED pool /\ (pc[c] = "mfStore" \/ pool # <<>>)
  <2>1. t \in Threads /\ t # c
    BY <1>0, ThreadFacts
  <2>2. PICK l : Goto(t, l)
    BY <1>4 DEF Timer, Fire, Rearm, Create
  <2>3. UNCHANGED pool
    BY <1>4 DEF Timer, Fire, Rearm, Create
  <2> QED
    BY <1>a, <2>1, <2>2, <2>3
<1>5. CASE HealthCheck
  <2>1. "health" \in Threads /\ "health" # c
    BY <1>0, ThreadFacts
  <2>2. UNCHANGED pc \/ \E l : Goto("health", l)
    BY <1>5 DEF HealthCheck, HealthNoCandidate, HealthSnapshot, HealthProbeOk, HealthProbeFails,
                HealthStore, HealthNothingToEvict, HealthEvict, HealthCheckActive
  <2>3. pc[c] = "mfStore"
    BY <1>a, <2>1, <2>2
  <2>4. ~LockFree
    BY <1>b, <2>3
  <2> QED
    BY <1>5, <2>3, <2>4
       DEF HealthCheck, HealthNoCandidate, HealthSnapshot, HealthProbeOk, HealthProbeFails,
           HealthStore, HealthNothingToEvict, HealthEvict, HealthCheckActive
<1>6. CASE Stop
  <2>1. UNCHANGED pool
    BY <1>6 DEF Stop, StopFlag, StopCancelRotate, StopCancelHealth
  <2>2. UNCHANGED pc \/ \E t \in Timers : Goto(t, "ended")
    BY <1>6, ThreadFacts DEF Stop, StopFlag, StopCancelRotate, StopCancelHealth, Cancel
  <2>3. \A t \in Timers : t \in Threads /\ t # c
    BY <1>0, ThreadFacts
  <2>4. pc[c] = "mfStore"
    BY <1>a, <2>2, <2>3
  <2> QED
    BY <2>1, <2>4
<1> QED
  BY <1>1, <1>2, <1>3, <1>4, <1>5, <1>6 DEF Next

LEMMA HaveProxyStep ==
    ASSUME TypeOK, LockDiscipline, StepsHaveProxy, Next
    PROVE  StepsHaveProxy'
<1> USE ProxiesAssumption DEF data, health, stops, vars
<1>0. PcOK
  BY DEF TypeOK
<1>1. lock' # None => active' # None
  <2>1. CASE HealthEvict
    BY <2>1 DEF HealthEvict, LockFree
  <2>2. CASE ~HealthEvict
    BY <2>2, ActiveSteps, LockSteps DEF StepsHaveProxy, HasProxy
  <2> QED
    BY <2>1, <2>2
<1>2. pc'["health"] = "hcStore" => cur' # None
  <2>1. CASE HealthProbeFails
    BY <2>1 DEF HealthProbeFails, ToProbe, TypeOK
  <2>2. CASE pc'["health"] = pc["health"] /\ UNCHANGED health
    BY <2>2 DEF StepsHaveProxy
  <2> QED
    BY <1>0, <2>1, <2>2, HealthSteps, HealthTargets
<1>3. pc'["health"] = "swLog" => active' # None
  <2>1. CASE SwitchAdvance("health")
    <3>1. active' \in Proxies
      BY <2>1, NextIndexLemma DEF SwitchAdvance, TypeOK
    <3> QED
      BY <3>1
  <2>2. CASE pc'["health"] = pc["health"] /\ pc["health"] = "swLog"
    <3>1. ~HealthEvict
      BY <2>2 DEF HealthEvict
    <3> QED
      BY <2>2, <3>1, ActiveSteps DEF StepsHaveProxy
  <2> QED
    BY <1>0, <2>1, <2>2, HealthSteps, HealthTargets
<1>4. \A c \in Callers : pc'[c] = "mfStore" => pool' # <<>>
  BY <1>0, StoringSteps DEF StepsHaveProxy
<1> QED
  BY <1>1, <1>2, <1>3, <1>4 DEF StepsHaveProxy

LEMMA HealthSurvivesStep ==
    ASSUME TypeOK, StepsHaveProxy, HealthSurvives, Next
    PROVE  HealthSurvives'
<1>1. PcOK
  BY DEF TypeOK
<1>2. ~SwitchLogRaises("health")
  BY DEF SwitchLogRaises, StepsHaveProxy
<1> QED
  BY <1>1, <1>2, HealthSteps, HealthTargets DEF HealthSurvives

-----------------------------------------------------------------------------
(* The list of proxies. *)

LEMMA PoolSteps ==
    ASSUME Next
    PROVE  \/ UNCHANGED pool
           \/ pool' = Requeue(pool, active) /\ \E c \in Callers : pc[c] = "mfStore"
           \/ \E S : pool' = Without(pool, S)
           \/ pool' = MoveToFront(pool, active)
<1> USE DEF data, health, stops, vars
<1>1. ASSUME NEW c \in Callers, Caller(c)
      PROVE  \/ UNCHANGED pool
             \/ pool' = Requeue(pool, active) /\ pc[c] = "mfStore"
             \/ pool' = Without(pool, {active})
             \/ pool' = MoveToFront(pool, active)
  BY <1>1 DEF Caller, MarkFailedNone, MarkFailedRead, MarkFailedStep, MarkFailedRequeue,
              MarkFailedThreshold, MarkFailedEvict, MarkFailedKeyError, SwitchReturn,
              RecordSuccess
<1>2. ASSUME NEW t \in Threads, Switch(t)
      PROVE  UNCHANGED pool
  BY <1>2 DEF Switch, SwitchAdvance, SwitchEmpty, SwitchLog, SwitchLogRaises
<1>3. ASSUME NEW t \in Timers, Timer(t)
      PROVE  UNCHANGED pool
  BY <1>3 DEF Timer, Fire, Rearm, Create
<1>4. ASSUME HealthCheck
      PROVE  UNCHANGED pool \/ pool' = Without(pool, toEvict)
  BY <1>4 DEF HealthCheck, HealthNoCandidate, HealthSnapshot, HealthProbeOk, HealthProbeFails, HealthStore,
              HealthNothingToEvict, HealthEvict, HealthCheckActive
<1>5. ASSUME Stop
      PROVE  UNCHANGED pool
  BY <1>5 DEF Stop, StopFlag, StopCancelRotate, StopCancelHealth
<1> QED
  BY <1>1, <1>2, <1>3, <1>4, <1>5 DEF Next

(* A handler inside its split block holds the lock, so there is an active  *)
(* proxy.                                                                  *)
LEMMA HolderHasProxy ==
    ASSUME TypeOK, LockDiscipline, StepsHaveProxy, NEW c \in Callers, pc[c] \in Split
    PROVE  lock = c /\ active \in Proxies
<1>1. lock = c /\ lock # None
  BY ThreadFacts DEF LockDiscipline, Split
<1> QED
  BY <1>1 DEF StepsHaveProxy, TypeOK

LEMMA CopiesStep ==
    ASSUME TypeOK, LockDiscipline, StepsHaveProxy, Next, NEW p \in Proxies,
           Copies(pool', p) > Copies(pool, p)
    PROVE  Copies(pool', p) = 1
<1>0. pool \in Seq(Proxies) /\ Copies(pool, p) \in Nat
  BY CopiesNat DEF TypeOK
<1>1. CASE UNCHANGED pool
  BY <1>0, <1>1
<1>2. ASSUME NEW c \in Callers, pc[c] = "mfStore", pool' = Requeue(pool, active)
      PROVE  Copies(pool', p) = 1
  <2>1. active \in Proxies
    BY <1>2, HolderHasProxy DEF Split
  <2>2. /\ pool' \in Seq(Proxies) /\ Copies(pool', active) = 1
        /\ p # active => Copies(pool', p) <= Copies(pool, p)
    BY <1>0, <1>2, <2>1, RequeueLemma
  <2>3. Copies(pool', p) \in Nat
    BY <2>2, CopiesNat
  <2> QED
    BY <1>0, <2>2, <2>3
<1>3. ASSUME NEW S, pool' = Without(pool, S)
      PROVE  FALSE
  <2>1. pool' \in Seq(Proxies) /\ Copies(pool', p) <= Copies(pool, p)
    BY <1>0, <1>3, WithoutLemma
  <2>2. Copies(pool', p) \in Nat
    BY <2>1, CopiesNat
  <2> QED
    BY <1>0, <2>1, <2>2
<1>4. ASSUME pool' = MoveToFront(pool, active)
      PROVE  FALSE
  <2>1. pool' \in Seq(Proxies) /\ Copies(pool', p) <= Copies(pool, p)
    BY <1>0, <1>4, MoveToFrontLemma
  <2>2. Copies(pool', p) \in Nat
    BY <2>1, CopiesNat
  <2> QED
    BY <1>0, <2>1, <2>2
<1> QED
  BY <1>1, <1>2, <1>3, <1>4, PoolSteps

LEMMA NoProxyStep ==
    ASSUME TypeOK, LockDiscipline, StepsHaveProxy, NoProxyOnlyIfEmpty, Next
    PROVE  NoProxyOnlyIfEmpty'
<1> USE DEF data, health, stops, vars
<1>0. PcOK /\ pool \in Seq(Proxies) /\ None \notin Proxies
  BY ProxiesAssumption DEF TypeOK
<1>1. CASE HealthEvict
  <2>1. pc'["health"] = "hcCheck"
    BY <1>0, <1>1, ThreadFacts DEF HealthEvict, Goto, PcOK
  <2> QED
    BY <2>1 DEF NoProxyOnlyIfEmpty
<1>2. ASSUME ~HealthEvict, active' = None
      PROVE  pool' = <<>> \/ pc'["health"] \in {"hcCheck", "swLock"}
  <2>1. active = None
    BY <1>0, <1>2, ActiveSteps
  <2>2. pool = <<>> => pool' = <<>>
    <3>1. ASSUME pool = <<>>, NEW S
          PROVE  Without(pool, S) = <<>>
      <4> DEFINE w == Without(pool, S)
      <4>1. w \in Seq(Proxies) /\ Elements(w) = Elements(pool) \ S
        BY <1>0, WithoutLemma
      <4> HIDE DEF w
      <4>2. Elements(w) = {}
        BY <3>1, <4>1 DEF Elements
      <4>3. DOMAIN w = 1 .. Len(w) /\ Len(w) \in Nat
        BY <4>1
      <4>4. Len(w) = 0
        <5>1. Len(w) # 0 => 1 \in DOMAIN w
          BY <4>3
        <5> QED
          BY <4>2, <5>1 DEF Elements
      <4>5. w = <<>>
        BY <4>1, <4>4
      <4> QED
        BY <4>5 DEF w
    <3>2. pool = <<>> => MoveToFront(pool, active) = <<>>
      BY DEF MoveToFront, Elements
    <3>3. ~\E c \in Callers : pc[c] = "mfStore"
      BY <1>0, <2>1, HolderHasProxy DEF Split
    <3> QED
      BY <3>1, <3>2, <3>3, PoolSteps
  <2>3. CASE pool = <<>>
    BY <2>2, <2>3
  <2>4. CASE pool # <<>> /\ pc["health"] = "hcCheck"
    <3>1. CASE HealthCheckActive
      BY <1>0, <2>1, <3>1, ThreadFacts DEF HealthCheckActive, Goto, PcOK
    <3>2. CASE pc'["health"] = pc["health"]
      BY <2>4, <3>2
    <3> QED
      BY <1>0, <2>4, <3>1, <3>2, HealthSteps, HealthTargets
  <2>5. CASE pool # <<>> /\ pc["health"] = "swLock"
    <3>1. ~SwitchAdvance("health") /\ ~SwitchEmpty("health")
      <4>1. SwitchAdvance("health") => active' \in Proxies
        BY <1>0, NextIndexLemma DEF SwitchAdvance, TypeOK
      <4> QED
        BY <1>0, <1>2, <2>5, <4>1 DEF SwitchEmpty
    <3> QED
      BY <1>0, <2>5, <3>1, HealthSteps, HealthTargets
  <2> QED
    BY <2>1, <2>3, <2>4, <2>5 DEF NoProxyOnlyIfEmpty
<1> QED
  BY <1>1, <1>2 DEF NoProxyOnlyIfEmpty

-----------------------------------------------------------------------------
(* Evictions are not lost. *)

Evicting(k) == active = k /\ \E c \in Callers : pc[c] = "mfEvict"

(* A handler about to evict still is after a step of another thread that   *)
(* leaves the active proxy alone.                                          *)
LEMMA EvictingKept ==
    ASSUME PcOK, NEW t \in Threads, pc[t] # "mfEvict", UNCHANGED active,
           NEW l, Goto(t, l), NEW k, Evicting(k)
    PROVE  Evicting(k)'
<1>1. PICK c \in Callers : pc[c] = "mfEvict"
  BY DEF Evicting
<1>2. c \in Threads /\ c # t
  BY <1>1, ThreadFacts
<1>3. pc'[c] = "mfEvict"
  BY <1>1, <1>2 DEF PcOK, Goto
<1> QED
  BY <1>3 DEF Evicting

(* Nobody is about to evict when the lock is free or held at another step. *)
LEMMA NotEvicting ==
    ASSUME LockDiscipline, LockFree \/ \E c \in Callers : pc[c] = "mfStore"
    PROVE  \A k : ~Evicting(k)
BY ThreadFacts DEF LockDiscipline, LockFree, Evicting

(* The frame: a step that changes neither pool nor counts nor list.        *)
LEMMA EvictionFrame ==
    ASSUME EvictionComplete, UNCHANGED <<pool, failures, toEvict>>,
           \A k : Evicting(k) => Evicting(k)'
    PROVE  EvictionComplete'
BY DEF EvictionComplete, Evicting, Elements

LEMMA EvictionCallerStep ==
    ASSUME TypeOK, LockDiscipline, StepsHaveProxy, EvictionComplete,
           NEW c \in Callers, Caller(c)
    PROVE  EvictionComplete'
<1> USE DEF data, health, stops, vars
<1> c \in Threads /\ PcOK /\ pool \in Seq(Proxies) /\ failures \in [Proxies -> Nat]
  BY ThreadFacts DEF TypeOK
<1>a. Elements(pool) \subseteq Proxies /\ EvictThreshold \in Nat \ {0}
  BY ThresholdAssumption DEF Elements
<1>1. CASE MarkFailedNone(c)
  BY <1>1 DEF MarkFailedNone, EvictionComplete, Elements
<1>2. CASE MarkFailedRead(c)
  BY <1>2, NotEvicting, EvictionFrame DEF MarkFailedRead
<1>3. CASE MarkFailedRequeue(c)
  <2>1. active \in Proxies /\ \A k : ~Evicting(k)
    BY <1>3, HolderHasProxy, NotEvicting DEF MarkFailedRequeue, Split
  <2>2. Elements(pool') = Elements(pool) \cup {active}
    BY <1>3, <2>1, RequeueLemma DEF MarkFailedRequeue
  <2>3. /\ failures' = [failures EXCEPT ![active] = count + 1] /\ toEvict' = toEvict
        /\ ~(count + 1 >= EvictThreshold)
    BY <1>3 DEF MarkFailedRequeue, StoreCount, AtThreshold
  <2> QED
    BY <1>a, <2>1, <2>2, <2>3 DEF EvictionComplete, Evicting
<1>4. CASE MarkFailedThreshold(c)
  <2>1. \A k : ~Evicting(k)
    BY <1>4, NotEvicting DEF MarkFailedThreshold
  <2>2. /\ failures' = [failures EXCEPT ![active] = count + 1] /\ UNCHANGED <<pool, active, toEvict>>
        /\ pc'[c] = "mfEvict"
    BY <1>4 DEF MarkFailedThreshold, StoreCount, Goto, PcOK
  <2>3. Elements(pool') = Elements(pool)
    BY <2>2
  <2> QED
    BY <1>a, <2>1, <2>2, <2>3 DEF EvictionComplete, Evicting
<1>5. CASE MarkFailedEvict(c)
  <2>1. Elements(pool') = Elements(pool) \ {active}
    BY <1>5, WithoutLemma DEF MarkFailedEvict
  <2>2. failures' = [failures EXCEPT ![active] = 0] /\ toEvict' = toEvict
    BY <1>5 DEF MarkFailedEvict
  <2> QED
    BY <1>a, <2>1, <2>2 DEF EvictionComplete
<1>6. CASE MarkFailedKeyError(c)
  <2>1. Elements(pool') = Elements(pool) \ {active}
    BY <1>6, WithoutLemma DEF MarkFailedKeyError
  <2>2. failures' = failures /\ toEvict' = toEvict
    BY <1>6 DEF MarkFailedKeyError
  <2> QED
    BY <1>a, <2>1, <2>2 DEF EvictionComplete
<1>7. CASE SwitchReturn(c)
  BY <1>7, EvictingKept, EvictionFrame DEF SwitchReturn
<1>8. CASE RecordSuccess(c)
  <2>1. \A k : ~Evicting(k)
    BY <1>8, NotEvicting DEF RecordSuccess
  <2>2. Elements(pool') = Elements(pool)
    BY <1>8, MoveToFrontLemma DEF RecordSuccess
  <2>3. /\ failures' = [p \in Proxies |-> IF p = active THEN 0 ELSE failures[p]]
        /\ toEvict' = toEvict
    BY <1>8 DEF RecordSuccess
  <2> QED
    BY <1>a, <2>1, <2>2, <2>3 DEF EvictionComplete, Evicting
<1> QED
  BY <1>1, <1>2, <1>3, <1>4, <1>5, <1>6, <1>7, <1>8 DEF Caller, MarkFailedStep

LEMMA EvictionHealthStep ==
    ASSUME TypeOK, LockDiscipline, StepsHaveProxy, EvictionComplete, HealthCheck
    PROVE  EvictionComplete'
<1> USE DEF data, health, stops, vars
<1> "health" \in Threads /\ PcOK /\ pool \in Seq(Proxies) /\ failures \in [Proxies -> Nat]
  BY ThreadFacts DEF TypeOK
<1>a. Elements(pool) \subseteq Proxies /\ EvictThreshold \in Nat \ {0}
  BY ThresholdAssumption DEF Elements
<1>1. CASE HealthNoCandidate \/ HealthSnapshot
  <2>1. pc["health"] # "mfEvict" /\ UNCHANGED <<active, pool, failures, toEvict>>
    BY <1>1 DEF HealthNoCandidate, HealthSnapshot
  <2>2. PICK l : Goto("health", l)
    BY <1>1 DEF HealthNoCandidate, HealthSnapshot
  <2> QED
    BY <2>1, <2>2, EvictingKept, EvictionFrame
<1>2. CASE HealthProbeOk
  <2>1. PICK k : failures' = [failures EXCEPT ![k] = 0]
    BY <1>2 DEF HealthProbeOk
  <2>2. UNCHANGED <<pool, active, pc, toEvict>>
    BY <1>2 DEF HealthProbeOk
  <2>3. Elements(pool') = Elements(pool)
    BY <2>2
  <2> QED
    BY <1>a, <2>1, <2>2, <2>3 DEF EvictionComplete
<1>3. CASE HealthProbeFails
  BY <1>3, EvictingKept, EvictionFrame DEF HealthProbeFails
<1>4. CASE HealthStore
  <2>1. /\ failures' = [failures EXCEPT ![cur] = hcCount + 1]
        /\ UNCHANGED <<pool, active>> /\ Goto("health", "hcProbe")
        /\ pc["health"] = "hcStore"
    BY <1>4 DEF HealthStore
  <2>2. /\ toEvict \subseteq toEvict'
        /\ hcCount + 1 >= EvictThreshold => cur \in toEvict'
    BY <1>4 DEF HealthStore, AtThreshold
  <2>3. Elements(pool') = Elements(pool) /\ \A k : Evicting(k) => Evicting(k)'
    BY <2>1, EvictingKept
  <2> SUFFICES ASSUME NEW k \in Elements(pool'), failures'[k] >= EvictThreshold
               PROVE  k \in toEvict' \/ Evicting(k)'
    BY DEF EvictionComplete, Evicting
  <2>4. CASE k = cur
    BY <1>a, <2>1, <2>2, <2>3, <2>4
  <2>5. CASE k # cur
    BY <1>a, <2>1, <2>2, <2>3, <2>5 DEF EvictionComplete, Evicting
  <2> QED
    BY <2>4, <2>5
<1>5. CASE HealthNothingToEvict
  BY <1>5, EvictingKept, EvictionFrame DEF HealthNothingToEvict
<1>6. CASE HealthEvict
  <2>1. \A k : ~Evicting(k)
    BY <1>6, NotEvicting DEF HealthEvict
  <2>2. Elements(pool') = Elements(pool) \ toEvict
    BY <1>6, WithoutLemma DEF HealthEvict
  <2>3. failures' = [p \in Proxies |-> IF p \in toEvict THEN 0 ELSE failures[p]]
    BY <1>6 DEF HealthEvict
  <2> QED
    BY <1>a, <2>1, <2>2, <2>3 DEF EvictionComplete, Evicting
<1>7. CASE HealthCheckActive
  BY <1>7, EvictingKept, EvictionFrame DEF HealthCheckActive
<1> QED
  BY <1>1, <1>2, <1>3, <1>4, <1>5, <1>6, <1>7 DEF HealthCheck

LEMMA EvictionStep ==
    ASSUME TypeOK, LockDiscipline, StepsHaveProxy, EvictionComplete, Next
    PROVE  EvictionComplete'
<1> USE DEF data, health, stops, vars
<1>0. PcOK
  BY DEF TypeOK
<1>1. ASSUME NEW t \in Threads, Switch(t)
      PROVE  EvictionComplete'
  <2>1. /\ pc[t] # "mfEvict" /\ UNCHANGED <<pool, failures, toEvict>>
        /\ UNCHANGED active \/ LockFree
    BY <1>1 DEF Switch, SwitchAdvance, SwitchEmpty, SwitchLog, SwitchLogRaises
  <2>2. PICK l : Goto(t, l)
    BY <1>1 DEF Switch, SwitchAdvance, SwitchEmpty, SwitchLog, SwitchLogRaises
  <2>3. \A k : Evicting(k) => Evicting(k)'
    BY <1>0, <2>1, <2>2, EvictingKept, NotEvicting
  <2> QED
    BY <2>1, <2>3, EvictionFrame
<1>2. ASSUME NEW t \in Timers, Timer(t)
      PROVE  EvictionComplete'
  <2>1. t \in Threads /\ pc[t] # "mfEvict" /\ UNCHANGED <<pool, failures, toEvict, active>>
    BY <1>2, ThreadFacts DEF Timer, Fire, Rearm, Create
  <2>2. PICK l : Goto(t, l)
    BY <1>2 DEF Timer, Fire, Rearm, Create
  <2> QED
    BY <1>0, <2>1, <2>2, EvictingKept, EvictionFrame
<1>3. CASE Stop
  <2>1. UNCHANGED <<pool, failures, toEvict, active>>
    BY <1>3 DEF Stop, StopFlag, StopCancelRotate, StopCancelHealth
  <2>2. UNCHANGED pc \/ \E t \in Timers : pc[t] = "armed" /\ Goto(t, "ended")
    BY <1>3, ThreadFacts DEF Stop, StopFlag, StopCancelRotate, StopCancelHealth, Cancel
  <2>3. \A k : Evicting(k) => Evicting(k)'
    <3>1. CASE UNCHANGED pc
      BY <2>1, <3>1 DEF Evicting
    <3>2. CASE \E t \in Timers : pc[t] = "armed" /\ Goto(t, "ended")
      BY <1>0, <2>1, <3>2, EvictingKept, ThreadFacts
    <3> QED
      BY <2>2, <3>1, <3>2
  <2> QED
    BY <2>1, <2>3, EvictionFrame
<1> QED
  BY <1>1, <1>2, <1>3, EvictionCallerStep, EvictionHealthStep DEF Next

-----------------------------------------------------------------------------
(* The inductive invariant. *)

LEMMA InitIInv == Init => IInv
<1> SUFFICES ASSUME Init
             PROVE  IInv
  OBVIOUS
<1>1. TypeOK
  BY TypeInit
<1>2. pool # <<>> /\ pool \in Seq(Proxies)
  <2>1. PICK n \in 1 .. MaxListed : pool \in [1 .. n -> Proxies]
    BY DEF Init, Pools
  <2>2. n \in Nat /\ n # 0
    BY <2>1, ListedAssumption
  <2> QED
    BY <2>1, <2>2 DEF Init, Pools
<1>3. active # None
  <2>1. active \in Proxies
    BY <1>2, NextIndexLemma DEF Init
  <2> QED
    BY <2>1, ProxiesAssumption
<1>4. LockDiscipline
  BY ThreadFacts DEF Init, LockDiscipline
<1>5. StepsHaveProxy /\ HealthSurvives
  BY <1>3, ThreadFacts DEF Init, StepsHaveProxy, HealthSurvives
<1>6. EvictionComplete
  <2>1. Elements(pool) \subseteq Proxies
    BY <1>2 DEF Elements
  <2> QED
    BY <2>1, ThresholdAssumption DEF Init, EvictionComplete
<1> QED
  BY <1>1, <1>2, <1>3, <1>4, <1>5, <1>6 DEF IInv, NoProxyOnlyIfEmpty

LEMMA NextIInv == IInv /\ [Next]_vars => IInv'
<1> SUFFICES ASSUME IInv, [Next]_vars
             PROVE  IInv'
  OBVIOUS
<1>1. CASE Next
  <2>1. PcOK
    BY DEF IInv, TypeOK
  <2> QED
    BY <1>1, <2>1, TypeStep, LockStep, HaveProxyStep, EvictionStep, NoProxyStep, HealthSurvivesStep
       DEF IInv
<1>2. CASE UNCHANGED vars
  BY <1>2 DEF vars, data, health, stops, IInv, TypeOK, PcOK, LockDiscipline, StepsHaveProxy,
              EvictionComplete, NoProxyOnlyIfEmpty, HealthSurvives, Elements
<1> QED
  BY <1>1, <1>2

(* The inductive invariant holds of every behaviour of the pool.           *)
THEOREM Invariance == Spec => []IInv
BY InitIInv, NextIInv, PTL DEF Spec

(* Type correctness.                                                       *)
THEOREM Typing == Spec => []TypeOK
<1>1. IInv => TypeOK
  BY DEF IInv
<1> QED
  BY <1>1, Invariance, PTL

(* No proxy at the failure threshold stays listed without its eviction     *)
(* pending, although the health check updates the counts without the lock. *)
THEOREM EvictionIsComplete == Spec => []EvictionComplete
<1>1. IInv => EvictionComplete
  BY DEF IInv
<1> QED
  BY <1>1, Invariance, PTL

(* There is no active proxy only when the pool is empty or the health      *)
(* check is about to switch.                                               *)
THEOREM ActiveWheneverPossible == Spec => []NoProxyOnlyIfEmpty
<1>1. IInv => NoProxyOnlyIfEmpty
  BY DEF IInv
<1> QED
  BY <1>1, Invariance, PTL

(* No operation lists a proxy a second time, whatever the list was.        *)
THEOREM ListedOnce == Spec => NoNewDuplicates
<1>1. IInv /\ [Next]_vars =>
        [\A p \in Proxies : Copies(pool', p) > Copies(pool, p) => Copies(pool', p) = 1]_vars
  <2> SUFFICES ASSUME IInv, Next
               PROVE  \A p \in Proxies :
                        Copies(pool', p) > Copies(pool, p) => Copies(pool', p) = 1
    BY DEF vars, data
  <2> QED
    BY CopiesStep DEF IInv
<1> QED
  BY <1>1, Invariance, PTL DEF Spec, NoNewDuplicates

(* The pool keeps to Membership, whatever the interleaving of its callers  *)
(* with the timers: the steps of one locked block, split or not, amount to *)
(* one selection, eviction or readmission.                                 *)
LEMMA MembersInit == Init => Members!Init
<1> SUFFICES ASSUME Init
             PROVE  Members!Init
  OBVIOUS
<1>1. PICK n \in 1 .. MaxListed : pool \in [1 .. n -> Proxies]
  BY DEF Init, Pools
<1>2. pool # <<>> /\ pool \in Seq(Proxies)
  BY <1>1, ListedAssumption
<1>3. idx + 1 \in DOMAIN pool /\ active = pool[idx + 1]
  BY <1>2, NextIndexLemma DEF Init
<1> QED
  BY <1>2, <1>3 DEF Members!Init, Elements

LEMMA MembersStep ==
    ASSUME IInv, Next
    PROVE  [Members!Next]_(Members!vars)
<1> USE DEF data, health, stops, vars
<1>0. /\ pool \in Seq(Proxies) /\ active \in Proxies \cup {None}
      /\ toEvict \subseteq Proxies /\ None \notin Proxies
      /\ TypeOK /\ LockDiscipline /\ StepsHaveProxy
  BY ProxiesAssumption DEF IInv, TypeOK
<1>1. ASSUME UNCHANGED <<pool, active>>
      PROVE  UNCHANGED Members!vars
  BY <1>1 DEF Members!vars, Elements
<1>2. ASSUME NEW c \in Callers, Caller(c)
      PROVE  Members!Next \/ UNCHANGED Members!vars
  <2>1. CASE MarkFailedNone(c) \/ MarkFailedRead(c) \/ MarkFailedThreshold(c) \/ SwitchReturn(c)
    <3>1. UNCHANGED <<pool, active>>
      BY <2>1 DEF MarkFailedNone, MarkFailedRead, MarkFailedThreshold, SwitchReturn
    <3> QED
      BY <1>1, <3>1
  <2>2. CASE MarkFailedRequeue(c)
    <3>1. pc[c] = "mfStore" /\ pool' = Requeue(pool, active) /\ UNCHANGED active
      BY <2>2 DEF MarkFailedRequeue
    <3>2. active \in Proxies /\ pool # <<>>
      <4>1. active \in Proxies
        BY <1>0, <3>1, HolderHasProxy DEF Split
      <4>2. pool # <<>>
        BY <1>0, <3>1 DEF StepsHaveProxy
      <4> QED
        BY <4>1, <4>2
    <3>3. Elements(pool') = Elements(pool) \cup {active}
      <4>1. pool \in Seq(Proxies) /\ active \in Proxies
        BY <1>0, <3>2
      <4>2. Elements(Requeue(pool, active)) = Elements(pool) \cup {active}
        BY <4>1, RequeueLemma
      <4> QED
        BY <3>1, <4>2
    <3>4. Elements(pool) # {}
      <4>1. 1 \in DOMAIN pool
        BY <1>0, <3>2
      <4> QED
        BY <4>1 DEF Elements
    <3>5. active # None
      BY <1>0, <3>2
    <3>6. Members!Readmit
      BY <3>1, <3>3, <3>4, <3>5 DEF Members!Readmit
    <3> QED
      BY <3>6 DEF Members!Next
  <2>3. CASE MarkFailedEvict(c) \/ MarkFailedKeyError(c)
    <3>1. pc[c] = "mfEvict" /\ pool' = Without(pool, {active}) /\ UNCHANGED active
      BY <2>3 DEF MarkFailedEvict, MarkFailedKeyError
    <3>2. active \in Proxies
      BY <1>0, <3>1, HolderHasProxy DEF Split
    <3>3. Elements(pool') = Elements(pool) \ {active}
      BY <1>0, <3>1, WithoutLemma
    <3>4. active # None
      BY <1>0, <3>2
    <3>5. Members!EvictChosen
      BY <3>1, <3>3, <3>4 DEF Members!EvictChosen
    <3> QED
      BY <3>5 DEF Members!Next
  <2>4. CASE RecordSuccess(c)
    <3>1. pool' = MoveToFront(pool, active) /\ UNCHANGED active
      BY <2>4 DEF RecordSuccess
    <3>2. Elements(pool') = Elements(pool)
      BY <1>0, <3>1, MoveToFrontLemma
    <3> QED
      BY <3>1, <3>2 DEF Members!vars
  <2> QED
    BY <1>2, <2>1, <2>2, <2>3, <2>4 DEF Caller, MarkFailedStep
<1>3. ASSUME NEW t \in Threads, Switch(t)
      PROVE  Members!Next \/ UNCHANGED Members!vars
  <2>1. CASE SwitchAdvance(t)
    <3>1. /\ idx' + 1 \in DOMAIN pool /\ active' = pool[idx' + 1] /\ UNCHANGED pool
      <4>1. pool # <<>> /\ idx' = NextIndex(idx, pool) /\ active' = pool[idx' + 1]
        BY <2>1 DEF SwitchAdvance
      <4>2. idx \in Nat
        BY <1>0 DEF TypeOK
      <4>3. UNCHANGED pool
        BY <2>1 DEF SwitchAdvance
      <4> QED
        BY <1>0, <4>1, <4>2, <4>3, NextIndexLemma
    <3>2. active' \in Elements(pool) /\ Elements(pool') = Elements(pool)
      BY <3>1 DEF Elements
    <3>3. Members!Select
      BY <3>2 DEF Members!Select
    <3> QED
      BY <3>3 DEF Members!Next
  <2>2. CASE SwitchEmpty(t) \/ SwitchLog(t) \/ SwitchLogRaises(t)
    <3>1. UNCHANGED <<pool, active>>
      BY <2>2 DEF SwitchEmpty, SwitchLog, SwitchLogRaises
    <3> QED
      BY <1>1, <3>1
  <2> QED
    BY <1>3, <2>1, <2>2 DEF Switch
<1>4. ASSUME NEW t \in Timers, Timer(t)
      PROVE  UNCHANGED Members!vars
  <2>1. UNCHANGED <<pool, active>>
    BY <1>4 DEF Timer, Fire, Rearm, Create
  <2> QED
    BY <1>1, <2>1
<1>5. CASE HealthCheck
  <2>1. CASE HealthEvict
    <3>1. /\ pool' = Without(pool, toEvict)
          /\ active' = IF active \in toEvict THEN None ELSE active
      BY <2>1 DEF HealthEvict
    <3>2. Elements(pool') = Elements(pool) \ toEvict
      BY <1>0, <3>1, WithoutLemma
    <3>3. Members!EvictUnfit
      BY <1>0, <3>1, <3>2 DEF Members!EvictUnfit
    <3> QED
      BY <3>3 DEF Members!Next
  <2>2. CASE ~HealthEvict
    <3>1. UNCHANGED <<pool, active>>
      BY <1>5, <2>2 DEF HealthCheck, HealthNoCandidate, HealthSnapshot, HealthProbeOk,
                        HealthProbeFails, HealthStore, HealthNothingToEvict, HealthCheckActive
    <3> QED
      BY <1>1, <3>1
  <2> QED
    BY <2>1, <2>2
<1>6. CASE Stop
  <2>1. UNCHANGED <<pool, active>>
    BY <1>6 DEF Stop, StopFlag, StopCancelRotate, StopCancelHealth
  <2> QED
    BY <1>1, <2>1
<1> QED
  BY <1>2, <1>3, <1>4, <1>5, <1>6 DEF Next

(* The pool implements Membership: only listed proxies are selected, only  *)
(* the proxy in use is listed again, and an empty pool stays empty.        *)
THEOREM MembershipKept == Spec => KeepsMembership
<1>1. IInv /\ [Next]_vars => [Members!Next]_(Members!vars)
  <2> SUFFICES ASSUME IInv, [Next]_vars
               PROVE  [Members!Next]_(Members!vars)
    OBVIOUS
  <2>1. CASE Next
    BY <2>1, MembersStep
  <2>2. CASE UNCHANGED vars
    BY <2>2 DEF vars, data, Members!vars, Elements
  <2> QED
    BY <2>1, <2>2
<1> QED
  BY <1>1, MembersInit, Invariance, PTL DEF Spec, KeepsMembership, Members!Spec

(* The health check's thread survives the unlocked read in switch().       *)
THEOREM HealthCheckSurvives == Spec => []HealthSurvives
<1>1. IInv => HealthSurvives
  BY DEF IInv
<1> QED
  BY <1>1, Invariance, PTL
==============================================================================
