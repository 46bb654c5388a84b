------------------------------ MODULE PoolBuild ------------------------------
(***************************************************************************)
(* How the proxy pool comes to be, src/proxy_pool.py refresh(),            *)
(* load_cache() and save_cache(), with the threads that check proxies and  *)
(* which refresh() only waits for until a timeout; and load_file().        *)
(*                                                                         *)
(* The lists are shuffled before they are used, so a list is how often     *)
(* each proxy occurs in it.  self._pool is the very list `working' to      *)
(* which a check of a cached proxy that is late still appends.             *)
(***************************************************************************)
EXTENDS Integers, FiniteSets

CONSTANTS
    Proxies,
    MaxCheck,         \* refresh()'s max_check
    MinHttp,          \* the 10 of len(http_working) < 10
    MaxCopies,        \* bound on the copies of a proxy in a file
    MaxRuns,          \* bound on the runs of the program
    None

ASSUME ProxiesAssumption == IsFiniteSet(Proxies) /\ None \notin Proxies
ASSUME BoundsAssumption  == {MaxCheck, MinHttp, MaxCopies, MaxRuns} \subseteq Nat \ {0}

VARIABLES
    cache,      \* the cache file, which outlives the program
    runs,       \* how often the program has been started
    main,       \* where refresh() is
    loaded,     \* what load_cache() returned
    toCheck,    \* to_check
    probing,    \* the check threads under way, of each kind
    found,      \* working, http_working and dns_working
    snapshot,   \* what save_cache() is about to write
    published,  \* self._pool is working
    active,     \* self._active
    passed,     \* history: the proxies that passed a check in this run
    late        \* history: cached proxies whose check passed after line 204

lists == <<toCheck, probing, found>>
vars  == <<cache, runs, main, loaded, lists, snapshot, published, active, passed, late>>

-----------------------------------------------------------------------------
Kinds == {"cached", "http", "dns"}

Nothing     == [k \in Proxies |-> 0]
Occurs(b)   == {k \in Proxies : b[k] > 0}
Once(S)     == [k \in Proxies |-> IF k \in S THEN 1 ELSE 0]
Plus(a, b)  == [k \in Proxies |-> a[k] + b[k]]
Files       == [Proxies -> 0 .. MaxCopies]

working == found["cached"]
http    == found["http"]
dns     == found["dns"]

(* How far refresh() is when late answers are late. *)
Fetched == {"http", "few", "dns", "publish", "save", "rename", "pick", "done"}

Started ==
    /\ main = "cache" /\ loaded = Nothing /\ toCheck = {}
    /\ probing = [g \in Kinds |-> Nothing] /\ found = [g \in Kinds |-> Nothing]
    /\ snapshot = Nothing /\ published = FALSE /\ active = None
    /\ passed = {} /\ late = {}

Init == cache \in Files /\ runs = 1 /\ Started

-----------------------------------------------------------------------------
(* The check threads, check_cached, check_http and check_dns: each has its *)
(* verdict when it has it, whatever refresh() is doing by then.            *)

(* A faulty check that goes on to answer again. *)
AnswersAgain(g, k) ==
    /\ \E h \in Kinds : probing[h][k] > 0
    /\ probing' = [probing EXCEPT ![g][k] = @ - 1]

Answers(g, k) ==
    /\ probing[g][k] > 0
    /\ probing' = [probing EXCEPT ![g][k] = @ - 1]

(* A faulty thread that appends before it has checked. *)
ListedUnchecked(g, k) ==
    /\ Answers(g, k)
    /\ found' = [found EXCEPT ![g][k] = @ + 1]
    /\ UNCHANGED <<cache, runs, main, loaded, toCheck, snapshot, published, active,
                   passed, late>>

CheckPasses(g, k) ==
    /\ Answers(g, k)
    /\ found' = [found EXCEPT ![g][k] = @ + 1]
    /\ passed' = passed \cup {k}
    /\ late' = IF g = "cached" /\ main \in Fetched THEN late \cup {k} ELSE late
    /\ UNCHANGED <<cache, runs, main, loaded, toCheck, snapshot, published, active>>

CheckFails(g, k) ==
    /\ Answers(g, k)
    /\ UNCHANGED <<cache, runs, main, loaded, toCheck, found, snapshot, published, active,
                   passed, late>>

-----------------------------------------------------------------------------
(* refresh() *)

(* An unreadable file counts as an empty one. *)
LoadCache ==
    /\ main = "cache"
    /\ loaded' \in {cache, Nothing}
    /\ probing' = [probing EXCEPT !["cached"] = loaded']
    /\ main' = "fetch"
    /\ UNCHANGED <<cache, runs, toCheck, found, snapshot, published, active, passed, late>>

(* A faulty fetch that checks, and lists, what is listed already. *)
FetchAll ==
    /\ main = "fetch"
    /\ \E S \in SUBSET Proxies :
        /\ toCheck' = S
        /\ probing' = [probing EXCEPT !["http"] = Once(S)]
    /\ main' = "http"
    /\ UNCHANGED <<cache, runs, loaded, found, snapshot, published, active, passed, late>>

(* Each join has a timeout, so refresh() goes on when it likes.  A source  *)
(* that cannot be read only contributes nothing.                           *)
Fetch ==
    /\ main = "fetch"
    /\ \E raw \in SUBSET Proxies :
        LET fresh == raw \ Occurs(working)
        IN  \E S \in SUBSET fresh :
              /\ Cardinality(S) = IF Cardinality(fresh) < MaxCheck
                                  THEN Cardinality(fresh) ELSE MaxCheck
              /\ toCheck' = S
              /\ probing' = [probing EXCEPT !["http"] = Once(S)]
    /\ main' = "http"
    /\ UNCHANGED <<cache, runs, loaded, found, snapshot, published, active, passed, late>>

ExtendHttp ==
    /\ main = "http"
    /\ found' = [found EXCEPT !["cached"] = Plus(working, http)]
    /\ main' = "few"
    /\ UNCHANGED <<cache, runs, loaded, toCheck, probing, snapshot, published, active,
                   passed, late>>

(* http_working, to which late checks still append, is read again. *)
EnoughHttp ==
    /\ main = "few" /\ Cardinality(Occurs(http)) >= MinHttp
    /\ main' = "publish"
    /\ UNCHANGED <<cache, runs, loaded, lists, snapshot, published, active, passed, late>>

FewHttp ==
    /\ main = "few" /\ Cardinality(Occurs(http)) < MinHttp
    /\ probing' = [probing EXCEPT !["dns"] = Once(toCheck \ Occurs(http))]
    /\ main' = "dns"
    /\ UNCHANGED <<cache, runs, loaded, toCheck, found, snapshot, published, active,
                   passed, late>>

(* A faulty refresh() that waits for every thread it has started. *)
ExtendWhenAllEnded ==
    /\ main = "dns" /\ probing["dns"] = Nothing
    /\ found' = [found EXCEPT !["cached"] = Plus(working, dns)]
    /\ main' = "publish"
    /\ UNCHANGED <<cache, runs, loaded, toCheck, probing, snapshot, published, active,
                   passed, late>>

ExtendDns ==
    /\ main = "dns"
    /\ found' = [found EXCEPT !["cached"] = Plus(working, dns)]
    /\ main' = "publish"
    /\ UNCHANGED <<cache, runs, loaded, toCheck, probing, snapshot, published, active,
                   passed, late>>

Publish ==
    /\ main = "publish"
    /\ published' = TRUE
    /\ main' = "save"
    /\ UNCHANGED <<cache, runs, loaded, lists, snapshot, active, passed, late>>

(* save_cache(): a copy, a temporary file, a rename.  Any error only means *)
(* that the cache stays as it is.                                          *)
TakeSnapshot ==
    /\ main = "save"
    /\ snapshot' = working
    /\ main' = "rename"
    /\ UNCHANGED <<cache, runs, loaded, lists, published, active, passed, late>>

Rename ==
    /\ main = "rename"
    /\ cache' \in {snapshot, cache}
    /\ snapshot' = Nothing
    /\ main' = "pick"
    /\ UNCHANGED <<runs, loaded, lists, published, active, passed, late>>

(* switch(), of a list in random order. *)
Pick ==
    /\ main = "pick" /\ Occurs(working) # {}
    /\ active' \in Occurs(working)
    /\ main' = "done"
    /\ UNCHANGED <<cache, runs, loaded, lists, snapshot, published, passed, late>>

(* A faulty refresh() that looks at what it has fetched only. *)
NothingFresh ==
    /\ main = "pick" /\ Occurs(http) \cup Occurs(dns) = {}
    /\ main' = "done"
    /\ UNCHANGED <<cache, runs, loaded, lists, snapshot, published, active, passed, late>>

NothingToPick ==
    /\ main = "pick" /\ Occurs(working) = {}
    /\ main' = "done"
    /\ UNCHANGED <<cache, runs, loaded, lists, snapshot, published, active, passed, late>>

-----------------------------------------------------------------------------
(* load_file() in place of refresh(): one check after the other, in this   *)
(* thread; a line that occurs twice is checked and listed twice.           *)
LoadFile ==
    /\ main = "cache"
    /\ \E lines \in Files :
        \E ok \in {w \in Files : \A k \in Proxies : w[k] <= lines[k]} :
            /\ found' = [found EXCEPT !["cached"] = ok]
            /\ loaded' = lines
            /\ passed' = Occurs(ok)
    /\ published' = TRUE
    /\ main' = "pick"
    /\ UNCHANGED <<cache, runs, toCheck, probing, snapshot, active, late>>

(* The file is missing or cannot be read: the exception leaves load_file() *)
(* and ends the program.                                                   *)
FileUnreadable ==
    /\ main = "cache"
    /\ main' = "failed"
    /\ UNCHANGED <<cache, runs, loaded, lists, snapshot, published, active, passed, late>>

(* The program ends, or is killed, at any moment and is started again.     *)
Restart ==
    /\ runs < MaxRuns
    /\ runs' = runs + 1
    /\ main' = "cache" /\ loaded' = Nothing /\ toCheck' = {}
    /\ probing' = [g \in Kinds |-> Nothing] /\ found' = [g \in Kinds |-> Nothing]
    /\ snapshot' = Nothing /\ published' = FALSE /\ active' = None
    /\ passed' = {} /\ late' = {}
    /\ UNCHANGED cache

-----------------------------------------------------------------------------
Check == \E g \in Kinds, k \in Proxies : CheckPasses(g, k) \/ CheckFails(g, k)

Refresh ==
    \/ LoadCache \/ Fetch \/ ExtendHttp \/ EnoughHttp \/ FewHttp \/ ExtendDns
    \/ Publish \/ TakeSnapshot \/ Rename \/ Pick \/ NothingToPick

Next == Check \/ Refresh \/ LoadFile \/ FileUnreadable \/ Restart

Spec == Init /\ [][Next]_vars

(* refresh() goes on by itself; no check thread is owed an answer.         *)
LiveSpec == Spec /\ WF_vars(Refresh)

-----------------------------------------------------------------------------
(* Properties *)

(* Every variable holds a value of its kind; the checks under way are of   *)
(* proxies that were loaded or chosen for them.                            *)
TypeOK ==
    /\ cache \in [Proxies -> Nat] /\ loaded \in [Proxies -> Nat]
    /\ runs \in 1 .. MaxRuns
    /\ main \in {"cache", "fetch", "failed"} \cup Fetched
    /\ toCheck \subseteq Proxies
    /\ probing \in [Kinds -> [Proxies -> Nat]] /\ found \in [Kinds -> [Proxies -> Nat]]
    /\ Occurs(probing["cached"]) \subseteq Occurs(loaded)
    /\ Occurs(probing["http"]) \cup Occurs(probing["dns"]) \subseteq toCheck
    /\ snapshot \in [Proxies -> Nat] /\ published \in BOOLEAN
    /\ active \in Proxies \cup {None}
    /\ passed \subseteq Proxies /\ late \subseteq Proxies

(* The pool, its active proxy and what is about to be cached consist of    *)
(* proxies that have passed a check since the program was started; in      *)
(* particular the cache of an earlier run is not trusted (lines 188-200).  *)
OnlyPassed ==
    Occurs(working) \cup Occurs(snapshot) \cup ({active} \ {None}) \subseteq passed

(* A proxy is listed twice only if the file it was loaded from has it      *)
(* twice, or its check as a cached proxy was still under way when line 204 *)
(* looked for it in `working'; the HTTP check and the DNS check that       *)
(* follows it never both list a proxy.                                     *)
TwiceOnlyIfLate ==
    \A k \in Proxies : working[k] > 1 => loaded[k] > 1 \/ k \in late

(* When the pool has been built there is an active proxy, so that the VPN  *)
(* starts, unless nothing was found in time for line 241.                  *)
ActiveIfFound ==
    main = "done" /\ active = None => Occurs(working) \subseteq late

(* In every run building the pool comes to its end, however long the       *)
(* checks take and whether or not they answer: all joins have a timeout    *)
(* (200, 217, 229).  A proxy file that cannot be opened (162) ends the run *)
(* without a pool.                                                         *)
RefreshEnds ==
    \A r \in 1 .. MaxRuns : runs = r ~> main \in {"done", "failed"} \/ runs > r
==============================================================================
