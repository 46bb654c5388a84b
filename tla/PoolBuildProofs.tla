---------------------------- MODULE PoolBuildProofs ----------------------------
(* Building the pool, for any proxies, sizes and number of runs: only proxies *)
(* that passed a check get in, and twice only for a reason.                   *)
EXTENDS PoolBuild, TLAPS

-----------------------------------------------------------------------------
(* The inductive invariant.                                                *)

(* What has been found, on any list, has passed.                           *)
FoundPassed ==
    /\ \A g \in Kinds : Occurs(found[g]) \subseteq passed
    /\ Occurs(snapshot) \subseteq passed
    /\ active \in passed \cup {None}

(* A run starts with nothing under way, and the DNS checks come last.      *)
InOrder ==
    /\ main \in {"cache", "failed"} =>
           /\ \A g \in Kinds, k \in Proxies : found[g][k] = 0 /\ probing[g][k] = 0
           /\ Occurs(snapshot) = {} /\ active = None
    /\ main \in {"cache", "fetch"} => toCheck = {}
    /\ main \in {"cache", "fetch", "http", "few"} =>
           \A k \in Proxies : dns[k] = 0 /\ probing["dns"][k] = 0

(* A proxy chosen for a check is checked once by each kind, no other is.   *)
CheckedOnce ==
    \A k \in Proxies :
        /\ http[k] + probing["http"][k] <= 1 /\ dns[k] + probing["dns"][k] <= 1
        /\ k \notin toCheck => http[k] = 0 /\ dns[k] = 0

(* How often a proxy is listed, up to line 204, up to the HTTP checks, up  *)
(* to the DNS checks and at the end.                                       *)
ListedTimes(k) ==
    /\ main \in {"cache", "fetch", "http"} => working[k] + probing["cached"][k] <= loaded[k]
    /\ k \notin late =>
           /\ main = "http" /\ k \in toCheck => working[k] = 0
           /\ main = "few"  /\ k \in toCheck => working[k] <= http[k]
           /\ main = "dns"  /\ k \in toCheck => working[k] + dns[k] + probing["dns"][k] <= 1
           /\ k \notin toCheck => working[k] <= loaded[k]
           /\ working[k] <= 1 \/ working[k] <= loaded[k]

IInv ==
    /\ TypeOK /\ FoundPassed /\ InOrder /\ CheckedOnce
    /\ \A k \in Proxies : ListedTimes(k)
    /\ ActiveIfFound

-----------------------------------------------------------------------------
(* Lists as counts.                                                        *)

Lists == [Proxies -> Nat]

LEMMA NothingIsEmpty == Nothing \in Lists /\ Occurs(Nothing) = {} /\ \A k \in Proxies : Nothing[k] = 0
BY DEF Nothing, Lists, Occurs

LEMMA OnceIsOnce ==
    ASSUME NEW S \in SUBSET Proxies
    PROVE  /\ Once(S) \in Lists /\ Occurs(Once(S)) = S
           /\ \A k \in Proxies : Once(S)[k] = IF k \in S THEN 1 ELSE 0
BY DEF Once, Lists, Occurs

LEMMA PlusAdds ==
    ASSUME NEW a \in Lists, NEW b \in Lists
    PROVE  /\ Plus(a, b) \in Lists /\ Occurs(Plus(a, b)) = Occurs(a) \cup Occurs(b)
           /\ \A k \in Proxies : Plus(a, b)[k] = a[k] + b[k]
BY DEF Plus, Lists, Occurs

LEMMA FilesAreLists == Files \subseteq Lists
BY BoundsAssumption DEF Files, Lists

LEMMA InitInvariant == Init => IInv
<1> SUFFICES ASSUME Init
             PROVE  IInv
  OBVIOUS
<1> USE DEF Init, Started
<1>1. /\ \A g \in Kinds : found[g] = Nothing /\ probing[g] = Nothing
      /\ Kinds = {"cached", "http", "dns"} /\ cache \in Lists
  BY FilesAreLists DEF Kinds
<1>2. TypeOK
  <2>1. /\ probing \in [Kinds -> Lists] /\ found \in [Kinds -> Lists]
        /\ cache \in Lists /\ loaded \in Lists /\ snapshot \in Lists
    BY <1>1, NothingIsEmpty
  <2>2. Occurs(probing["cached"]) = {} /\ Occurs(probing["http"]) = {} /\ Occurs(probing["dns"]) = {}
    BY <1>1, NothingIsEmpty
  <2>3. runs \in 1 .. MaxRuns
    BY BoundsAssumption
  <2> QED
    BY <2>1, <2>2, <2>3 DEF TypeOK, Lists
<1>3. FoundPassed /\ InOrder /\ CheckedOnce /\ \A k \in Proxies : ListedTimes(k)
  BY <1>1, NothingIsEmpty DEF FoundPassed, InOrder, CheckedOnce, ListedTimes, working, http, dns
<1>4. ActiveIfFound
  BY DEF ActiveIfFound
<1> QED
  BY <1>2, <1>3, <1>4 DEF IInv

-----------------------------------------------------------------------------
(* An answer takes one check off, and a pass puts one on its list.         *)
LEMMA AnswerCounts ==
    ASSUME TypeOK, NEW g \in Kinds, NEW k \in Proxies, Answers(g, k)
    PROVE  /\ probing' \in [Kinds -> Lists] /\ probing[g][k] > 0
           /\ \A h \in Kinds, j \in Proxies :
                probing'[h][j] = IF h = g /\ j = k THEN probing[h][j] - 1 ELSE probing[h][j]
<1>1. probing \in [Kinds -> Lists] /\ probing[g] \in Lists /\ probing[g][k] - 1 \in Nat
  BY DEF TypeOK, Lists, Answers
<1>2. [probing[g] EXCEPT ![k] = @ - 1] \in Lists
  BY <1>1 DEF Lists
<1>3. probing' = [probing EXCEPT ![g] = [probing[g] EXCEPT ![k] = @ - 1]]
  BY DEF Answers
<1>4. probing' \in [Kinds -> Lists]
  BY <1>1, <1>2, <1>3
<1>5. \A h \in Kinds, j \in Proxies :
        probing'[h][j] = IF h = g /\ j = k THEN probing[h][j] - 1 ELSE probing[h][j]
  BY <1>1, <1>3 DEF Lists
<1> QED
  BY <1>4, <1>5 DEF Answers

LEMMA PassCounts ==
    ASSUME TypeOK, NEW g \in Kinds, NEW k \in Proxies, found' = [found EXCEPT ![g][k] = @ + 1]
    PROVE  /\ found' \in [Kinds -> Lists]
           /\ \A h \in Kinds, j \in Proxies :
                found'[h][j] = IF h = g /\ j = k THEN found[h][j] + 1 ELSE found[h][j]
<1>1. found \in [Kinds -> Lists] /\ found[g] \in Lists /\ found[g][k] + 1 \in Nat
  BY DEF TypeOK, Lists
<1>2. [found[g] EXCEPT ![k] = @ + 1] \in Lists
  BY <1>1 DEF Lists
<1>3. found' = [found EXCEPT ![g] = [found[g] EXCEPT ![k] = @ + 1]]
  OBVIOUS
<1>4. found' \in [Kinds -> Lists]
  BY <1>1, <1>2, <1>3
<1>5. \A h \in Kinds, j \in Proxies :
        found'[h][j] = IF h = g /\ j = k THEN found[h][j] + 1 ELSE found[h][j]
  BY <1>1, <1>3 DEF Lists
<1> QED
  BY <1>4, <1>5

LEMMA CheckInvariant ==
    ASSUME IInv, NEW g \in Kinds, NEW k \in Proxies, CheckPasses(g, k) \/ CheckFails(g, k)
    PROVE  IInv'
<1> USE DEF Lists
<1>1. /\ probing' \in [Kinds -> Lists] /\ probing[g][k] > 0
      /\ \A h \in Kinds, j \in Proxies :
           probing'[h][j] = IF h = g /\ j = k THEN probing[h][j] - 1 ELSE probing[h][j]
  BY AnswerCounts DEF CheckPasses, CheckFails, IInv
<1>2. UNCHANGED <<cache, runs, main, loaded, toCheck, snapshot, published, active>>
  BY DEF CheckPasses, CheckFails
<1>3. /\ found' \in [Kinds -> Lists]
      /\ \/ found' = found /\ passed' = passed /\ late' = late
         \/ /\ \A h \in Kinds, j \in Proxies :
                 found'[h][j] = IF h = g /\ j = k THEN found[h][j] + 1 ELSE found[h][j]
            /\ passed' = passed \cup {k}
            /\ late' = IF g = "cached" /\ main \in Fetched THEN late \cup {k} ELSE late
  BY PassCounts DEF CheckPasses, CheckFails, IInv, TypeOK
<1>4. /\ "cached" \in Kinds /\ "http" \in Kinds /\ "dns" \in Kinds
      /\ found \in [Kinds -> Lists] /\ probing \in [Kinds -> Lists] /\ loaded \in Lists
      /\ late \subseteq Proxies /\ passed \subseteq Proxies /\ toCheck \subseteq Proxies
  BY DEF IInv, TypeOK, Kinds
<1>5. TypeOK'
  <2>1. \A h \in Kinds : Occurs(probing'[h]) \subseteq Occurs(probing[h])
    BY <1>1, <1>4 DEF Occurs
  <2>2. late' \subseteq Proxies /\ passed' \subseteq Proxies
    BY <1>3, <1>4
  <2> QED
    BY <1>1, <1>2, <1>3, <1>4, <2>1, <2>2 DEF IInv, TypeOK
<1>6. FoundPassed'
  <2>1. passed \subseteq passed'
    BY <1>3
  <2>2. \A h \in Kinds : Occurs(found'[h]) \subseteq Occurs(found[h]) \cup (passed' \cap Proxies)
    BY <1>3, <1>4 DEF Occurs
  <2> QED
    BY <1>2, <2>1, <2>2 DEF IInv, FoundPassed
<1>7. main \notin {"cache", "failed"}
  BY <1>1, <1>4 DEF IInv, InOrder
<1>8. InOrder'
  <2>1. g = "dns" => main \notin {"cache", "fetch", "http", "few"}
    BY <1>1, <1>4 DEF IInv, InOrder
  <2>2. g # "dns" => \A j \in Proxies : found'["dns"][j] = found["dns"][j]
                                        /\ probing'["dns"][j] = probing["dns"][j]
    BY <1>1, <1>3, <1>4
  <2> QED
    BY <1>2, <1>7, <2>1, <2>2 DEF IInv, InOrder, dns
<1>9. CheckedOnce'
  <2> SUFFICES ASSUME NEW j \in Proxies
               PROVE  /\ http'[j] + probing'["http"][j] <= 1 /\ dns'[j] + probing'["dns"][j] <= 1
                      /\ j \notin toCheck => http'[j] = 0 /\ dns'[j] = 0
    BY <1>2 DEF CheckedOnce
  <2>1. j \notin toCheck => probing["http"][j] = 0 /\ probing["dns"][j] = 0
    BY <1>4 DEF IInv, TypeOK, Occurs
  <2>2. \A h \in Kinds : /\ found[h][j] \in Nat /\ probing[h][j] \in Nat
                         /\ found'[h][j] \in Nat /\ probing'[h][j] \in Nat
    BY <1>1, <1>3, <1>4
  <2>3. \A h \in Kinds : found'[h][j] + probing'[h][j] <= found[h][j] + probing[h][j]
    BY <1>1, <1>3, <2>2
  <2>4. /\ found["http"][j] + probing["http"][j] <= 1 /\ found["dns"][j] + probing["dns"][j] <= 1
        /\ j \notin toCheck => found["http"][j] = 0 /\ found["dns"][j] = 0
    BY DEF IInv, CheckedOnce, http, dns
  <2>5. /\ found'["http"][j] + probing'["http"][j] <= 1
        /\ found'["dns"][j] + probing'["dns"][j] <= 1
    <3>1. ASSUME NEW h \in {"http", "dns"}
          PROVE  found'[h][j] + probing'[h][j] <= 1
      <4>1. h \in Kinds /\ found[h][j] + probing[h][j] <= 1
        BY <2>4 DEF Kinds
      <4> QED
        BY <2>2, <2>3, <4>1
    <3> QED
      BY <3>1
  <2>6. j \notin toCheck => found'["http"][j] = 0 /\ found'["dns"][j] = 0
    <3>1. ASSUME j \notin toCheck, NEW h \in {"http", "dns"}
          PROVE  found'[h][j] = 0
      <4>1. h \in Kinds /\ found[h][j] = 0 /\ probing[h][j] = 0
        BY <2>1, <2>4, <3>1 DEF Kinds
      <4>2. found'[h][j] + probing'[h][j] <= 0 /\ found'[h][j] \in Nat /\ probing'[h][j] \in Nat
        BY <2>2, <2>3, <4>1
      <4> QED
        BY <4>2
    <3> QED
      BY <3>1
  <2> QED
    BY <2>5, <2>6 DEF http, dns
<1>10. ASSUME NEW j \in Proxies
       PROVE  ListedTimes(j)'
  <2>1. \A h \in Kinds : /\ found[h][j] \in Nat /\ probing[h][j] \in Nat
                         /\ found'[h][j] \in Nat /\ probing'[h][j] \in Nat
    BY <1>1, <1>3, <1>4
  <2>2. \A h \in Kinds : /\ found'[h][j] + probing'[h][j] <= found[h][j] + probing[h][j]
                         /\ found[h][j] <= found'[h][j]
    BY <1>1, <1>3, <2>1
  <2>3. main' = main /\ loaded' = loaded /\ toCheck' = toCheck /\ loaded[j] \in Nat
        /\ (j \notin late' => j \notin late)
    BY <1>2, <1>3, <1>4
  <2>4. j \notin late' /\ main \in Fetched => found'["cached"][j] = found["cached"][j]
    BY <1>3, <1>4
  <2>5. main \in {"cache", "fetch", "failed"} \cup Fetched /\ (main = "fetch" => toCheck = {})
    BY DEF IInv, TypeOK, InOrder
  <2>6. ListedTimes(j)
    BY DEF IInv
  <2>7. CASE main = "fetch"
    BY <1>4, <2>1, <2>2, <2>3, <2>5, <2>6, <2>7 DEF ListedTimes, working, http, dns
  <2>8. CASE main \in Fetched
    BY <1>4, <2>1, <2>2, <2>3, <2>4, <2>6, <2>8 DEF ListedTimes, working, http, dns, Fetched
  <2> QED
    BY <1>7, <2>5, <2>7, <2>8
<1>11. ActiveIfFound'
  <2>1. main = "done" => Occurs(found'["cached"]) \subseteq Occurs(found["cached"]) \cup late'
    BY <1>3, <1>4 DEF Occurs, Fetched
  <2>2. late \subseteq late'
    BY <1>3
  <2> QED
    BY <1>2, <2>1, <2>2 DEF IInv, ActiveIfFound, working
<1> QED
  BY <1>5, <1>6, <1>8, <1>9, <1>10, <1>11 DEF IInv

-----------------------------------------------------------------------------
(* refresh(), step by step.                                                *)

LEMMA Shape ==
    ASSUME IInv
    PROVE  /\ "cached" \in Kinds /\ "http" \in Kinds /\ "dns" \in Kinds
           /\ found \in [Kinds -> Lists] /\ probing \in [Kinds -> Lists]
           /\ loaded \in Lists /\ cache \in Lists /\ snapshot \in Lists
           /\ toCheck \subseteq Proxies /\ passed \subseteq Proxies /\ late \subseteq Proxies
           /\ working \in Lists /\ http \in Lists /\ dns \in Lists
           /\ main \in {"cache", "fetch", "failed"} \cup Fetched
BY DEF IInv, TypeOK, Kinds, Lists, working, http, dns

LEMMA LoadCacheInvariant ==
    ASSUME IInv, LoadCache
    PROVE  IInv'
<1> USE Shape DEF Lists, IInv
<1>1. /\ main = "cache" /\ main' = "fetch" /\ loaded' \in Lists /\ probing' \in [Kinds -> Lists]
      /\ probing'["cached"] = loaded' /\ probing'["http"] = probing["http"]
      /\ probing'["dns"] = probing["dns"]
      /\ UNCHANGED <<cache, runs, toCheck, found, snapshot, published, active, passed, late>>
  BY NothingIsEmpty DEF LoadCache, Kinds
<1>2. TypeOK'
  BY <1>1 DEF TypeOK, Fetched
<1>3. \A k \in Proxies : \A g \in Kinds : found[g][k] = 0 /\ probing[g][k] = 0
  BY <1>1 DEF InOrder
<1>4. FoundPassed' /\ InOrder' /\ CheckedOnce' /\ ActiveIfFound'
  BY <1>1, <1>3 DEF FoundPassed, InOrder, CheckedOnce, ActiveIfFound, working, http, dns
<1>5. ASSUME NEW k \in Proxies
      PROVE  ListedTimes(k)'
  <2>1. working'[k] = 0 /\ loaded'[k] \in Nat /\ probing'["cached"][k] = loaded'[k]
    BY <1>1, <1>3 DEF working
  <2> QED
    BY <1>1, <2>1 DEF ListedTimes
<1> QED
  BY <1>2, <1>4, <1>5

LEMMA FetchInvariant ==
    ASSUME IInv, Fetch
    PROVE  IInv'
<1> USE Shape DEF Lists, IInv
<1>1. PICK S \in SUBSET Proxies :
        /\ S \cap Occurs(working) = {} /\ toCheck' = S
        /\ probing' = [probing EXCEPT !["http"] = Once(S)]
  <2>1. PICK raw \in SUBSET Proxies :
          \E S \in SUBSET (raw \ Occurs(working)) :
            toCheck' = S /\ probing' = [probing EXCEPT !["http"] = Once(S)]
    BY DEF Fetch
  <2> QED
    BY <2>1
<1>2. /\ main = "fetch" /\ main' = "http" /\ probing' \in [Kinds -> Lists]
      /\ probing'["http"] = Once(S) /\ probing'["cached"] = probing["cached"]
      /\ probing'["dns"] = probing["dns"]
      /\ UNCHANGED <<cache, runs, loaded, found, snapshot, published, active, passed, late>>
  BY <1>1, OnceIsOnce DEF Fetch, Kinds
<1>3. toCheck = {} /\ \A k \in Proxies : http[k] = 0 /\ dns[k] = 0 /\ probing["dns"][k] = 0
  BY <1>2 DEF InOrder, CheckedOnce
<1>4. TypeOK'
  <2>1. Occurs(probing'["dns"]) = {}
    BY <1>2, <1>3 DEF Occurs
  <2>2. Occurs(probing'["http"]) = S
    BY <1>2, OnceIsOnce
  <2> QED
    BY <1>1, <1>2, <2>1, <2>2 DEF TypeOK, Fetched
<1>5. FoundPassed' /\ InOrder' /\ ActiveIfFound'
  BY <1>2, <1>3 DEF FoundPassed, InOrder, ActiveIfFound, dns
<1>6. CheckedOnce'
  <2> SUFFICES ASSUME NEW k \in Proxies
               PROVE  http'[k] + probing'["http"][k] <= 1 /\ dns'[k] + probing'["dns"][k] <= 1
                      /\ http'[k] = 0 /\ dns'[k] = 0
    BY DEF CheckedOnce
  <2>1. probing'["http"][k] \in {0, 1}
    BY <1>2, OnceIsOnce
  <2> QED
    BY <1>2, <1>3, <2>1 DEF http, dns
<1>7. ASSUME NEW k \in Proxies
      PROVE  ListedTimes(k)'
  <2>1. working' = working /\ working[k] \in Nat /\ loaded[k] \in Nat /\ probing["cached"][k] \in Nat
    BY <1>2 DEF working
  <2>2. k \in S => working[k] = 0
    BY <1>1, <2>1 DEF Occurs
  <2>3. working[k] + probing["cached"][k] <= loaded[k]
    BY <1>2 DEF ListedTimes
  <2>4. working[k] <= loaded[k]
    BY <2>1, <2>3
  <2> QED
    BY <1>1, <1>2, <2>1, <2>2, <2>3, <2>4 DEF ListedTimes
<1> QED
  BY <1>4, <1>5, <1>6, <1>7

(* A list is extended by another.                                          *)
LEMMA Extends ==
    ASSUME IInv, NEW g \in {"http", "dns"},
           found' = [found EXCEPT !["cached"] = Plus(working, found[g])],
           UNCHANGED <<cache, runs, loaded, toCheck, probing, snapshot, published, active,
                       passed, late>>,
           main' \in Fetched \ {"done"}, main \in {"http", "dns"}, main' \notin {"http", "dns"}
    PROVE  /\ TypeOK' /\ FoundPassed' /\ CheckedOnce' /\ ActiveIfFound'
           /\ http' = http /\ dns' = dns
           /\ \A k \in Proxies : working'[k] = working[k] + found[g][k]
<1> USE Shape
<1>1. /\ found[g] \in Lists /\ found'["cached"] = Plus(working, found[g])
      /\ found' \in [Kinds -> Lists] /\ found'["http"] = found["http"]
      /\ found'["dns"] = found["dns"]
  BY PlusAdds DEF Kinds
<1>2. TypeOK'
  BY <1>1 DEF IInv, TypeOK, Lists
<1>3. FoundPassed'
  <2>1. Occurs(found'["cached"]) = Occurs(found["cached"]) \cup Occurs(found[g])
    BY <1>1, PlusAdds DEF working
  <2> QED
    BY <1>1, <2>1 DEF IInv, FoundPassed, Kinds
<1>4. CheckedOnce' /\ ActiveIfFound'
  BY <1>1 DEF IInv, CheckedOnce, ActiveIfFound, http, dns
<1>5. \A k \in Proxies : working'[k] = working[k] + found[g][k]
  BY <1>1, PlusAdds DEF working
<1> QED
  BY <1>1, <1>2, <1>3, <1>4, <1>5 DEF http, dns

LEMMA ExtendInvariant ==
    ASSUME IInv, ExtendHttp \/ ExtendDns
    PROVE  IInv'
<1> USE Shape
<1>1. CASE ExtendHttp
  <2>1. /\ main = "http" /\ main' = "few"
        /\ UNCHANGED <<cache, runs, loaded, toCheck, probing, snapshot, published, active,
                       passed, late>>
    BY <1>1 DEF ExtendHttp
  <2>2. /\ TypeOK' /\ FoundPassed' /\ CheckedOnce' /\ ActiveIfFound' /\ http' = http /\ dns' = dns
        /\ \A k \in Proxies : working'[k] = working[k] + http[k]
    BY <1>1, <2>1, Extends DEF ExtendHttp, Fetched, http
  <2>3. InOrder'
    BY <2>1, <2>2 DEF IInv, InOrder
  <2>4. ASSUME NEW k \in Proxies
        PROVE  ListedTimes(k)'
    <3>1. /\ working[k] \in Nat /\ http[k] \in Nat /\ loaded[k] \in Nat
          /\ probing["cached"][k] \in Nat /\ probing["http"][k] \in Nat
      BY DEF Lists
    <3>2. http[k] <= 1 /\ (k \notin toCheck => http[k] = 0)
      BY <3>1 DEF IInv, CheckedOnce
    <3>3. /\ working[k] <= loaded[k]
          /\ k \notin late /\ k \in toCheck => working[k] = 0
      BY <2>1, <3>1 DEF IInv, ListedTimes
    <3> QED
      BY <2>1, <2>2, <3>1, <3>2, <3>3 DEF ListedTimes
  <2> QED
    BY <2>2, <2>3, <2>4 DEF IInv
<1>2. CASE ExtendDns
  <2>1. /\ main = "dns" /\ main' = "publish"
        /\ UNCHANGED <<cache, runs, loaded, toCheck, probing, snapshot, published, active,
                       passed, late>>
    BY <1>2 DEF ExtendDns
  <2>2. /\ TypeOK' /\ FoundPassed' /\ CheckedOnce' /\ ActiveIfFound' /\ http' = http /\ dns' = dns
        /\ \A k \in Proxies : working'[k] = working[k] + dns[k]
    BY <1>2, <2>1, Extends DEF ExtendDns, Fetched, dns
  <2>3. InOrder'
    BY <2>1, <2>2 DEF IInv, InOrder
  <2>4. ASSUME NEW k \in Proxies
        PROVE  ListedTimes(k)'
    <3>1. /\ working[k] \in Nat /\ dns[k] \in Nat /\ loaded[k] \in Nat
          /\ probing["dns"][k] \in Nat
      BY DEF Lists
    <3>2. k \notin toCheck => dns[k] = 0
      BY DEF IInv, CheckedOnce
    <3>3. /\ k \notin late /\ k \in toCheck => working[k] + dns[k] + probing["dns"][k] <= 1
          /\ k \notin late /\ k \notin toCheck => working[k] <= loaded[k]
      BY <2>1 DEF IInv, ListedTimes
    <3>4. k \notin late /\ k \in toCheck => working[k] + dns[k] <= 1
      BY <3>1, <3>3
    <3> QED
      BY <2>1, <2>2, <3>1, <3>2, <3>3, <3>4 DEF ListedTimes
  <2> QED
    BY <2>2, <2>3, <2>4 DEF IInv
<1> QED
  BY <1>1, <1>2

(* A proxy that is on the HTTP list is not checked for DNS.                *)
LEMMA FewHttpInvariant ==
    ASSUME IInv, FewHttp
    PROVE  IInv'
<1> USE Shape
<1> DEFINE S == toCheck \ Occurs(http)
<1>1. /\ main = "few" /\ main' = "dns" /\ probing' \in [Kinds -> Lists]
      /\ probing'["dns"] = Once(S) /\ probing'["cached"] = probing["cached"]
      /\ probing'["http"] = probing["http"]
      /\ UNCHANGED <<cache, runs, loaded, toCheck, found, snapshot, published, active,
                     passed, late>>
  BY OnceIsOnce DEF FewHttp, Kinds
<1>2. \A k \in Proxies : probing'["dns"][k] = IF k \in S THEN 1 ELSE 0
  BY <1>1, OnceIsOnce
<1>3. TypeOK'
  <2>1. Occurs(probing'["dns"]) = S
    BY <1>1, OnceIsOnce
  <2> QED
    BY <1>1, <2>1 DEF IInv, TypeOK, Lists, Fetched
<1>4. FoundPassed' /\ InOrder' /\ ActiveIfFound'
  BY <1>1 DEF IInv, FoundPassed, InOrder, ActiveIfFound
<1>5. \A k \in Proxies : dns[k] = 0
  BY <1>1 DEF IInv, InOrder
<1>6. CheckedOnce'
  <2> SUFFICES ASSUME NEW k \in Proxies
               PROVE  /\ http[k] + probing["http"][k] <= 1 /\ dns[k] + probing'["dns"][k] <= 1
                      /\ k \notin toCheck => http[k] = 0 /\ dns[k] = 0
    BY <1>1 DEF CheckedOnce, http, dns
  <2> QED
    BY <1>2, <1>5 DEF IInv, CheckedOnce
<1>7. ASSUME NEW k \in Proxies
      PROVE  ListedTimes(k)'
  <2>1. working[k] \in Nat /\ http[k] \in Nat /\ probing["http"][k] \in Nat
    BY DEF Lists
  <2>2. http[k] <= 1 /\ dns'[k] = 0 /\ working' = working /\ (k \in Occurs(http) <=> http[k] > 0)
    BY <1>1, <1>5, <2>1 DEF IInv, CheckedOnce, Occurs, dns, working
  <2>3. k \notin late /\ k \in toCheck => working[k] + dns'[k] + probing'["dns"][k] <= 1
    <3>1. k \notin late /\ k \in toCheck => working[k] <= http[k]
      BY <1>1 DEF IInv, ListedTimes
    <3> QED
      BY <1>2, <2>1, <2>2, <3>1
  <2> QED
    BY <1>1, <2>2, <2>3 DEF IInv, ListedTimes
<1> QED
  BY <1>3, <1>4, <1>6, <1>7 DEF IInv

(* The steps that only look at the lists.                                  *)
LEMMA LaterInvariant ==
    ASSUME IInv, EnoughHttp \/ Publish \/ TakeSnapshot \/ Rename \/ Pick \/ NothingToPick
    PROVE  IInv'
<1> USE Shape
<1> USE DEF EnoughHttp, Publish, TakeSnapshot, Rename, Pick, NothingToPick
<1>1. /\ UNCHANGED <<runs, loaded, toCheck, probing, found, passed, late>>
      /\ main \in {"few", "publish", "save", "rename", "pick"}
      /\ main' \in {"publish", "save", "rename", "pick", "done"}
  BY DEF lists
<1>2. /\ snapshot' \in {snapshot, working, Nothing} /\ active' \in Occurs(working) \cup {active}
      /\ cache' \in {snapshot, cache} /\ published' \in {published, TRUE}
  OBVIOUS
<1>3. Nothing \in Lists /\ Occurs(Nothing) = {} /\ Occurs(working) \subseteq Proxies
  BY NothingIsEmpty DEF Occurs
<1> HIDE DEF EnoughHttp, Publish, TakeSnapshot, Rename, Pick, NothingToPick
<1>4. TypeOK'
  BY <1>1, <1>2, <1>3 DEF IInv, TypeOK, Lists, Fetched
<1>5. FoundPassed'
  BY <1>1, <1>2, <1>3 DEF IInv, FoundPassed, working
<1>6. InOrder' /\ CheckedOnce'
  BY <1>1 DEF IInv, InOrder, CheckedOnce, http, dns
<1>7. ASSUME NEW k \in Proxies
      PROVE  ListedTimes(k)'
  BY <1>1 DEF IInv, ListedTimes, working
<1>8. ActiveIfFound'
  <2>1. main' = "done" => active' \in Proxies \/ Occurs(working) = {}
    BY <1>3 DEF EnoughHttp, Publish, TakeSnapshot, Rename, Pick, NothingToPick
  <2> QED
    BY <1>1, <2>1, ProxiesAssumption DEF ActiveIfFound, working
<1> QED
  BY <1>4, <1>5, <1>6, <1>7, <1>8 DEF IInv

LEMMA LoadFileInvariant ==
    ASSUME IInv, LoadFile
    PROVE  IInv'
<1> USE Shape
<1>1. PICK lines \in Files : \E ok \in {w \in Files : \A k \in Proxies : w[k] <= lines[k]} :
        found' = [found EXCEPT !["cached"] = ok] /\ loaded' = lines /\ passed' = Occurs(ok)
  BY DEF LoadFile
<1>2. PICK ok \in {w \in Files : \A k \in Proxies : w[k] <= lines[k]} :
        found' = [found EXCEPT !["cached"] = ok] /\ loaded' = lines /\ passed' = Occurs(ok)
  BY <1>1
<1>3. /\ main = "cache" /\ main' = "pick" /\ published' = TRUE /\ lines \in Lists /\ ok \in Lists
      /\ UNCHANGED <<cache, runs, toCheck, probing, snapshot, active, late>>
      /\ found' \in [Kinds -> Lists] /\ found'["cached"] = ok
      /\ found'["http"] = found["http"] /\ found'["dns"] = found["dns"]
  BY <1>2, FilesAreLists DEF LoadFile, Kinds
<1>4. \A k \in Proxies : \A g \in Kinds : found[g][k] = 0 /\ probing[g][k] = 0
  BY <1>3 DEF IInv, InOrder
<1>5. toCheck = {} /\ passed' \subseteq Proxies /\ Occurs(probing["cached"]) = {}
      /\ \A g \in {"http", "dns"} : Occurs(found[g]) = {}
  BY <1>2, <1>3, <1>4 DEF IInv, InOrder, Occurs, Kinds
<1>6. Occurs(snapshot) = {} /\ active = None
  BY <1>3 DEF IInv, InOrder
<1>7. TypeOK'
  BY <1>2, <1>3, <1>5 DEF IInv, TypeOK, Lists, Fetched
<1>8. FoundPassed'
  BY <1>2, <1>3, <1>5, <1>6 DEF FoundPassed, Kinds
<1>9. InOrder' /\ ActiveIfFound'
  BY <1>3 DEF InOrder, ActiveIfFound
<1>10. CheckedOnce'
  BY <1>3, <1>4 DEF CheckedOnce, http, dns
<1>11. ASSUME NEW k \in Proxies
       PROVE  ListedTimes(k)'
  BY <1>2, <1>3 DEF ListedTimes, working
<1> QED
  BY <1>7, <1>8, <1>9, <1>10, <1>11 DEF IInv

LEMMA FileUnreadableInvariant ==
    ASSUME IInv, FileUnreadable
    PROVE  IInv'
<1>1. /\ main = "cache" /\ main' = "failed"
      /\ UNCHANGED <<cache, runs, loaded, toCheck, probing, found, snapshot, published, active,
                     passed, late>>
  BY DEF FileUnreadable, lists
<1>2. TypeOK'
  BY <1>1 DEF IInv, TypeOK
<1>3. FoundPassed' /\ InOrder' /\ CheckedOnce' /\ ActiveIfFound'
  BY <1>1 DEF IInv, FoundPassed, InOrder, CheckedOnce, ActiveIfFound, working, http, dns
<1>4. ASSUME NEW k \in Proxies
      PROVE  ListedTimes(k)'
  BY <1>1 DEF IInv, ListedTimes, working
<1> QED
  BY <1>2, <1>3, <1>4 DEF IInv

LEMMA RestartInvariant ==
    ASSUME IInv, Restart
    PROVE  IInv'
<1> USE Shape DEF Restart
<1>1. /\ \A g \in Kinds : found'[g] = Nothing /\ probing'[g] = Nothing
      /\ found' \in [Kinds -> Lists] /\ probing' \in [Kinds -> Lists]
  BY NothingIsEmpty
<1>2. runs' \in 1 .. MaxRuns
  BY BoundsAssumption DEF IInv, TypeOK
<1>3. TypeOK'
  BY <1>1, <1>2, NothingIsEmpty DEF IInv, TypeOK, Lists
<1>4. FoundPassed' /\ InOrder' /\ CheckedOnce' /\ \A k \in Proxies : ListedTimes(k)'
  BY <1>1, NothingIsEmpty DEF FoundPassed, InOrder, CheckedOnce, ListedTimes, working, http, dns
<1>5. ActiveIfFound'
  BY DEF ActiveIfFound
<1> QED
  BY <1>3, <1>4, <1>5 DEF IInv

-----------------------------------------------------------------------------
(* The invariant holds in every reachable state: the DNS check is only for *)
(* proxies the HTTP list did not have (209-230), the HTTP check only for   *)
(* those the cache had not yielded by line 204.                            *)
THEOREM Invariance == Spec => []IInv
<1>1. IInv /\ [Next]_vars => IInv'
  <2> SUFFICES ASSUME IInv, [Next]_vars
               PROVE  IInv'
    OBVIOUS
  <2>1. CASE Check
    BY <2>1, CheckInvariant DEF Check
  <2>2. CASE Refresh
    BY <2>2, LoadCacheInvariant, FetchInvariant, ExtendInvariant, FewHttpInvariant,
       LaterInvariant DEF Refresh
  <2>3. CASE LoadFile \/ FileUnreadable \/ Restart
    BY <2>3, LoadFileInvariant, FileUnreadableInvariant, RestartInvariant
  <2>4. CASE UNCHANGED vars
    BY <2>4 DEF IInv, TypeOK, FoundPassed, InOrder, CheckedOnce, ListedTimes, ActiveIfFound,
                working, http, dns, vars, lists
  <2> QED
    BY <2>1, <2>2, <2>3, <2>4 DEF Next
<1> QED
  BY InitInvariant, <1>1, PTL DEF Spec

(* Every variable keeps its type, and checks are only of proxies that were *)
(* loaded or chosen.                                                       *)
THEOREM Typing == Spec => []TypeOK
BY Invariance, PTL DEF IInv

(* The pool, the active proxy and what is cached passed a check in this    *)
(* run (188-232, 327-342).                                                 *)
THEOREM PoolHasPassed == Spec => []OnlyPassed
<1>1. IInv => OnlyPassed
  BY DEF IInv, FoundPassed, OnlyPassed, working, Kinds
<1> QED
  BY <1>1, Invariance, PTL

(* A proxy is listed twice only if its file has it twice or its check as a *)
(* cached proxy came in after line 204.                                    *)
THEOREM RarelyTwice == Spec => []TwiceOnlyIfLate
<1>1. IInv => TwiceOnlyIfLate
  <2> SUFFICES ASSUME IInv, NEW k \in Proxies, working[k] > 1
               PROVE  loaded[k] > 1 \/ k \in late
    BY DEF TwiceOnlyIfLate
  <2>1. working[k] \in Nat /\ loaded[k] \in Nat
    BY Shape DEF Lists
  <2> QED
    BY <2>1 DEF IInv, ListedTimes
<1> QED
  BY <1>1, Invariance, PTL

(* The pool is left without an active proxy only if nothing was found by   *)
(* line 241.                                                               *)
THEOREM StartsIfFound == Spec => []ActiveIfFound
BY Invariance, PTL DEF IInv

================================================================================
