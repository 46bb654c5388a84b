# A formal model of GhostVPN

GhostVPN tunnels a machine's TCP traffic through public SOCKS/HTTP proxies and
changes the proxy every few minutes. This directory holds TLA+ modules for the
concurrent parts of it and for the life of a session on the machine, the TLC
configurations that check them, and theorems about them with proofs checked by
TLAPS. Line numbers below are of the files in `src/`.

## Running

    tlc -workers 2 -config MCProxyPool.cfg MCProxyPool      # a run, see the table
    tlapm ProxyPoolProofs.tla                               # all proofs of a module

## 1. The system

| part | state | operations | talks to |
|---|---|---|---|
| **ProxyPool**, run time (`proxy_pool.py` 244-372) | `_pool`, `_active`, `_idx`, `_failures`, `_running`, two timers; `_lock` | `get`, `switch`, `mark_failed`, `record_success`, the rotation tick, the health check, `stop` | called by every connection thread and by two timer threads; `on_switch` callbacks |
| **Pool building** (`proxy_pool.py` 61-242) | the lists `working`, `http_working`, `dns_working` shared with check threads; the cache file | `refresh`, `load_cache`, `save_cache`, `load_file` | proxy lists over HTTPS, the proxies, the disk |
| **TransProxy** (`transproxy.py`) | listener, 100 workers and their queue, rate limiter, statistics | `start`, `serve`, `_handle`, `_pipe`, `stop` | pool; clients redirected by iptables |
| **LocalSocksProxy** (`local_proxy.py`) | the same listener, limiter and workers, word for word | `start`, `serve`, `_handle`, `_pipe`, `stop` | pool; any program that speaks SOCKS5 |
| **Sessions**: `run_vpn` (`vpn.py` 160-277) and **TunManager** (`tun.py`) | the machine's device, routes, rules, iptables, its system proxy; two flags; the signal handlers; what is registered to run at exit | `create`, `setup_routing`, `setup_iptables`, `cleanup`; the two nested `cleanup()` | everything that has a `stop()` |
| **WindowsVPN** (`windows_vpn.py` 167-560) | `_conns` and its lock, `_running`, `_cleanup_done`, bypass routes | the packet loop, `_handle_tcp`, `_up_relay`, `_stale_check`, `_cleanup` | Wintun, the pool |
| **DnsProxy** (`dns.py`) | one UDP socket, a thread per query | `start`, `serve`, `_handle`, `stop` | pool (`get_for_dns`); queries redirected by iptables |
| **Config, menu** (`vpn.py`), **display** (`ui.py`), **logging** (`utils.py`), **wintun download** (`wintun_dl.py`) | one JSON file | sequential | |

What is hard in it:

* *Threads on one pool.* Any number of handlers report failures and successes
  while a rotation timer and a health check change the same four variables;
  not every access is under the lock (`switch` 250-256, `_health_check`
  346-352).
* *Threads nobody waits for.* The check threads of `refresh()` are joined with
  a timeout and may append to a list that has become the pool.
* *Timers that re-arm themselves* while `stop()` cancels them.
* *A lock that is not reentrant*, taken twice (Windows relay, 389 and 454).
* *A stop that does not wait*: `stop()` closes the listening socket and shuts
  the executor down while the serving thread is in `accept()`, or between
  `accept()` and `submit()`.
* *Look-up, unlock, use* of connections under keys that are reused.
* *Partial set-up and nested clean-up* of the machine's network, under Ctrl+C
  and SIGTERM, and what it leaves for the next session.
* *The program in its own way*: it redirects the machine's TCP and DNS to itself,
  and marks those of its packets that have to leave.
* *Signals against locks*: Ctrl+C runs the clean-up on whatever the main thread
  was doing, also where that is inside an `Event` or an executor's `shutdown()`.

What makes each part correct: a proxy that fails too often is taken out, and
whoever is active is replaced; nobody is told that there is no proxy when there
is one, but for a known moment; every connection comes to an end; only proxies
that passed a check are used; no more clients are let in than the limiter says,
none after `stop()`, and each is told at most once how its request ended; an
upstream's data does not get into another live connection of the same port; the
machine's own routes and rules come back. The hazards, at their lines, and the properties that cover
them, are in `PROJECT.json`.

## 2. Modules

| module | models | state and actions |
|---|---|---|
| `ProxyPool` | the pool at run time | the attributes under their own names (without `_`); `pc` says where each thread is, and `lock` which thread is inside a locked block that is more than one step. One action per step at which the thread can lose control: `SwitchAdvance` is lines 245-249, `SwitchLog` 250-255, `SwitchReturn` 256; `MarkFailedRead`, `MarkFailedRequeue`, `MarkFailedThreshold`, `MarkFailedEvict` and `MarkFailedKeyError` are 276-287; the health check takes its snapshot, probes, stores each count, evicts, and tests `_active`; `Fire`, `Rearm`, `Create` are a timer tick; `StopFlag`, `StopCancelRotate`, `StopCancelHealth` are `stop()`. |
| `TransProxy` | `_handle` for each connection, over `ProxyPool` | instantiates `ProxyPool` with the connections as callers. `conn` says where a handler is, `proxy` and `left` are its local variables. Each handler step is the pool's step in conjunction with its own. |
| `Listener` | the server half of `transproxy.py` and `local_proxy.py` | `conn` follows each client's connection from the backlog to its end; `serve` is where the serving thread is; `queue` is the executor's. Actions are `accept()`, the limiter's yes and no, `submit()` and its exception, a worker taking a connection, and the three steps of `stop()`. Time is a clock of ticks, `Second` of them to a second. |
| `LocalProxy` | `LocalSocksProxy._handle`, over `Listener` | one action per thing that may happen to the handler at each of its blocking calls; the pool is there as what it may answer. `verdicts` counts the replies. |
| `Membership` | what the pool promises of its members | abstract: the set of listed proxies and the one in use; selecting, evicting and listing again. |
| `Server` | what both listeners promise | abstract: turned away or admitted, in order, at most `MaxWorkers` in service, none admitted once shut. |
| `PoolBuild` | `refresh()` and `load_file()` | the lists as how often each proxy occurs (they are shuffled), the check threads under way, the cache file across restarts; a file that cannot be opened ends the run (`FileUnreadable`). |
| `RunVpn` | sessions of the program, one after another | set-up and clean-up of each mode as sequences of steps (`Setup`, `Cleanup`) that add or remove one thing each; `rules` is the firewall in its order, `installed` what else there is; `frames` is the stack of clean-ups that Ctrl+C has put on top of each other, each with the step it is at and whether it is inside the lock that step takes (`Enter`, `Held`). `phase` "locking" is `wait()` before it sleeps, "joining" the interpreter waiting for workers, "exiting" what is registered at exit. One action per kind of step. |
| `DnsForward` | `DnsProxy`, in a session of `RunVpn` | extends `RunVpn`: a query is redirected while its rule is there, and received while the socket is installed. Follows one query and the queries its handler makes of it. |
| `WinTcp` | Windows TCP forwarding | the table of connections, each connection's flag and upstream, one relay per connection, the main loop, `_stale_check`, `_cleanup` on the Ctrl+C thread. |
| `MC*` | instances | sizes, symmetry sets. |
| `*Proofs` | theorems about the module of that name | see section 5. |

Two modules serve as abstract specifications. `Membership` says what becomes of
the set of listed proxies and of the one in use, without order, counts, locks or
threads, and `ProxyPool` implements it (`KeepsMembership`) with the elements of its
list and `_active` for the two. `Server` says what a client sees of a listener,
and `LocalProxy` with its `Listener` implements it (`ServerSpec`), with the
connections not decided about, the executor's queue, the connections with a worker
and the executor's flag for its variables. Both are model-checked and proved.
`TransProxy` instantiates `ProxyPool` over its own variables, so that its handlers'
steps are steps of the pool is a lemma of its proofs and not a result.

How the modules fit together: `TransProxy` is the handler on the real pool, with
connections as callers, and does not repeat the listener; `Listener` is the real
listener under the handler of `LocalProxy`, whose pool is any pool. A product of
the two would show nothing more: the listener does not touch the pool, and the
pool's answers to `LocalProxy` are all those that `ProxyPool` can give. `RunVpn`
knows of the services only that they are installed, that a socket may outlive its
`close()` in `accept()`, as `Listener` has it (`Reachable`), and whether any worker
is with a client.

**Grain.** A step is what runs between two points at which CPython (3.10 and
later) can switch threads: a call, a loop's back edge, a blocking operation.
`self._failures[k] = self._failures.get(k, 0) + 1` is therefore two steps (the
call to `get`, then the store), and `if self._active in to_evict: self._active
= None` one. A block under a lock whose steps no unlocked code can observe is
one step. An unlocked access is always a step of its own.
In `RunVpn` a signal handler runs on the main thread between any two steps: the
steps there are the commands and the calls that change something, with
`os.close` and the assignment after it apart (`CloseDevice`, `ForgetDevice`), and
with a step in between for each call that runs Python code under a lock that is not
reentrant: `Event.set()` (also by `Timer.cancel()` and the display's `stop()`),
`Event.wait()`, and the executor's `shutdown()`.

## 3. Runs

| run | bounds | shows |
|---|---|---|
| `MCProxyPool.cfg` | 3 proxies in lists of up to 3 entries (also with duplicates), 2 handlers, threshold 2, 1 proxy per health check; 1.08 M states | `TypeOK`, `EvictionComplete`, `NoProxyOnlyIfEmpty`, `HealthSurvives`, `NoNewDuplicates`, and `KeepsMembership`: refinement |
| `MCTransProxy.cfg` | 2 proxies, 2 connections, threshold 2, kill switch off; 1.88 M states | `TypeOK`, `EvictedActiveIsReplaced`, `GivesUpEarlyOnlyWithoutProxy` |
| `MCTransProxyLive.cfg` | 2 proxies, 2 connections of 2 attempts, threshold 1, kill switch on, fairness; 0.94 M states | `ConnResolves`, `StopQuiesces` |
| `MCLocalProxy.cfg` | 3 clients, 1 worker, 2 clients per second of 2 ticks, 2 attempts; 0.13 M states | `TypeOK`, `RateBound`, `OneVerdict`, `RequestResolves`, `BacklogServed`, and `ServerSpec`: refinement |
| `MCPoolBuild.cfg` | 2 proxies, both of them checked, 2 enough, 2 copies, 2 runs; 1.51 M states | `TypeOK`, `OnlyPassed`, `TwiceOnlyIfLate`, `ActiveIfFound`, `RefreshEnds` |
| `MCDnsForward.cfg` | 2 signals, 2 sessions, a query that comes back once; 0.58 M states | `TypeOK`, `DnsTypeOK`, `SetupFailureUndone`, `CleanEnd`, `MarkedTrafficBypasses`, `EndsAfterCtrlC`, `EveryQueryEnds` |
| `MCWinTcp.cfg` | 1 key, 2 successive connections; 0.12 M states | `TypeOK`, `ClosedLeavesTable`, `SegmentOfItsOwn`, `RelayFollowsConnection`, `RouteRestored` |
| `RotationChangesProxy.cfg` | 2 proxies, 2 connections, threshold 3 | **violated**: a rotation may select the proxy that is active already |
| `RotationSurvives.cfg` | same | **violated**: the rotation thread can die |
| `EvictedStaysOut.cfg` | same | **violated**: an evicted proxy can come back |
| `CtrlCStops.cfg` | 2 keys, 2 connections | **violated**: Ctrl+C may hang in Windows mode |
| `FallbackIsDirect.cfg` | 1 signal, 1 session, a query that comes back once | **violated**: the forwarder's direct query comes back to it |

Why these bounds are enough for what they are meant to show. Every race in the
pool is between two users of one proxy, or of the active one and its successor:
two proxies give a switch somewhere to go, and a third an entry that is neither.
A threshold of 2 distinguishes requeueing from eviction. Lists longer than
three differ only in how far the index moves. For `ConnResolves` a threshold of 1
makes every failure an eviction, so that the health check can take the count away
under a handler (`MarkFailedKeyError`) while the other handler waits for the lock. In
`PoolBuild` with two proxies checked and two needed, one of them can come in too late
and the DNS checks are started for what is missing. With three clients one is served,
one waits in the executor and one is in the serving thread's hands or the
backlog, which is every place there is; a second of two ticks is the shortest
whose windows overlap, and two clients to a second the fewest that a window can
hold apart. Two attempts in `LocalProxy` (the source's 5) give a first, a last
and, by the answer of a size above the maximum, a cut. In Windows mode the
interesting case is a key used again while the first connection's relay is
alive: two connections of one key. Two signals hit a session and its clean-up;
of two sessions the second meets what the first one left. `RunVpn` by itself also
passes with three signals (a clean-up whose successor has restored the handlers) and
with three sessions. A query that comes back once more does what it did before.

Every bound is a constant of its module: `MaxListed`, `MaxTries` (5 in the
source, as in `MCTransProxy`; 2 where liveness is checked), `MaxConns`, `MaxCheck`, `MinHttp` (200 and 10 in the
source), `MaxCopies`, `MaxRuns`, `MaxWorkers` and `MaxPerSec` (100 and 50 in the
source), `Second`, `MaxTime`, `MaxSignals`, `MaxSessions`, `MaxDepth`. `idx`
needs none: it is kept within the list's length as line 248 does on use.

Deadlock is checked in `MCProxyPool`, where a handler can always come back.
Elsewhere the system may really stop (connections closed, timers ended, program
ended), and the configurations say so.

### Disagreements with the documents

1. `switch()` indexes the list by a counter (248) while `record_success` moves
   the active proxy to the front (293-296). With two proxies the rotation can
   land on the active one. README.md:3: it "changes your public IP every N
   minutes".
2. `switch()` reads `self._active` after the unlock (250); a health check that
   sets it to `None` (361) at that moment makes the read raise, in the timer
   thread, before the next timer is armed. README.md:31: "rotates every".
   The health check's own thread is safe from this (`HealthSurvives`, proved).
3. `mark_failed` appends the active proxy without asking whether it is listed
   (286). A proxy that one handler's `mark_failed` evicts (283) is active until that
   handler's `switch()` (287); another handler that fails in between lists it again,
   with a fresh count. The health check's evictions do not have this: it clears
   `_active` in the same locked block (360-361), and `switch()` selects listed proxies
   only (`KeepsMembership`). STATE.md:21: "removed from the pool entirely".
4. The relay's last block holds `_conns_lock` (389) and calls `_close_conn`,
   which takes it (454). A relay gets there when its loop ends while its
   connection is not closing: the upstream ends first (372-376), or `_running` is
   False. From then on the packet loop waits at its next lookup, and after Ctrl+C
   `_cleanup` at 518; vpn.py:242: "Press Ctrl+C to stop".
   `RouteRestored` shows that the default route comes back all the same,
   because line 516 precedes 518.
5. Without a proxy that suits DNS the forwarder asks the upstream server from a
   marked UDP socket (dns.py 43), but only marked TCP is exempt (tun.py 83-84)
   and every UDP packet to port 53 is redirected (87-88): it asks itself, a
   thread each time, until the first one's 10 s are over. dns.py:38: "falling
   back to direct". `EveryQueryEnds` shows that it does end.

Two more things the models show of the code, which no document denies: a set-up
that fails at the second policy rule leaves the first (`SetupFailureUndone` says
so), and a port that is taken leaves every rule (`StartFails`).

And two ways in which Ctrl+C does not end the program, which `EndsAfterCtrlC` names
as its exceptions: it hits the main thread inside one of the locks of section 2, so
that the nested clean-up waits for its own thread (`SelfDeadlock`); or a worker is in
the pipe's `select()`, which has no timeout (transproxy.py 97, local_proxy.py 142),
and the interpreter waits for it before it runs the registered clean-up (`ExitWaits`).
The second lasts as long as a client and its peer keep their connection; a session that
was live has had its clean-up by then.

`MarkedTrafficBypasses` is about packets with the program's mark. The health check's
sockets (proxy_pool.py 121-124, called at 347) have none: in TUN mode they are
redirected to the transparent proxy like any other connection, and what
they measure is a path through the active proxy. During a clean-up the exemption goes before the
redirection (tun.py 109, 111); the property ends where the transparent proxy has been
stopped, before that.

## 4. Fairness

Weak fairness is assumed of threads whose next step has a timeout in the source
or needs nothing:

* handlers up to the pipe (connect: 15 s, `transproxy.py` 138 and
  `local_proxy.py` 98-120), the health check (8 s per probe, 347), timers (they
  fire after their interval), the rest of `stop()` once it has begun,
  `refresh()` (joins of 10, 12 and 8 s);
* the serving thread when a connection is there or the loop's condition is to be
  read, and a worker when the queue is not empty;
* on Windows the packet handler, the relays (30 s) and `_cleanup`;
* in a session the main thread, through set-up and clean-up (`MainThread`): commands
  and `stop()` return; a handler of the DNS forwarder (10 s).

It is not assumed of anything outside: clients, which have no timeout in
either listener (`ClientPaced`), and their packets, the end of a pipe, an answer
from a check thread, the end of a client that a worker serves, the connection that
would wake a thread in `accept()`, the decision to stop, a signal, a restart. No strong fairness is used. A lock is
only needed by `WF` steps whose holders are themselves `WF`, except in `WinTcp`,
where a holder may block itself (finding 4, and `RelayFollowsConnection` names
it), and in `RunVpn`, where Ctrl+C may hit the main thread in an `Event` or in
`shutdown()` while it holds the lock (`EndsAfterCtrlC` names it). A handler that
raises under the pool's lock gives it up, as `with` does; `ConnResolves` fails if it
did not.

## 5. What is proved

For every value of the constants that satisfies the assumptions named in the
modules; the proofs take nothing else for granted.

**`ProxyPoolProofs`**, for every finite set of proxies, every set of callers,
every positive threshold and sample size:

* `Invariance`: `Spec => []IInv`. The invariants as they stand are not
  inductive. `IInv` adds `LockDiscipline` (a thread is between the steps of
  `mark_failed`'s block exactly if it is the `lock`'s holder, so there is at
  most one) and `StepsHaveProxy` (the steps that use a proxy have one). With
  these, `EvictionComplete` survives the health check's store, which may write
  a count of the threshold or more only together with the entry on `toEvict`;
  `NoProxyOnlyIfEmpty` survives eviction; and `HealthSurvives` follows because
  only the health check itself sets `_active` to `None`.
* `Typing`, `EvictionIsComplete`, `ActiveWheneverPossible`,
  `HealthCheckSurvives`: its parts. `TypeOK` rests on lemmas about the filtered
  list, which the model defines by counting (`Rank`).
* `ListedOnce`: the action property `NoNewDuplicates`, from the same lemmas:
  filtering keeps a list without repetitions, and a proxy is put in front or at
  the end only of a list it has been filtered from; `list.remove` and `list.insert`
  only move entries (`MoveToFrontLemma`).
* `MembershipKept`: `Spec => KeepsMembership`. That a handler that fails may only list the
  active proxy, and only while the list is not empty, rests on `LockDiscipline`:
  between its test of line 277 and its append nobody else can take the last entry out.

**`TransProxyProofs`**, for any number of connections and attempts:

* `Invariance`, `Typing`, `EvictedIsReplaced`: the pool's `IInv` carries over by
  an instance of `ProxyPoolProofs`; to it comes `HandlersOK`, what each step of
  a handler knows of its locals. `EvictedActiveIsReplaced` is not inductive
  without it: it rests on the handler that evicts being at a step that switches.
* `EarlyEndHasReason`: the action property `GivesUpEarlyOnlyWithoutProxy`, from
  the pool's `NoProxyOnlyIfEmpty` and from a handler in its loop having attempts.

**`LocalProxyProofs`**, for any clients, workers, limits, clock and attempts:

* `Typing`, with `QueuedOnce` and `OneInHand` (the serving thread has one
  connection at most) to make it inductive.
* `RateIsBounded`: with `RecentKept`, that every grant of the last second is
  still in the limiter's list. A window that the new grant falls into begins no
  more than a second before it, so what it holds was in the list counted.
* `SingleVerdict`: with `NoReplyYet`, that up to its reply a connection has had
  none.
* `Implements`: `Spec => Server`, by the mapping of section 2. `Typing` is what
  makes the queue the waiting connections.

**`WinTcpProofs`**, for any keys and number of connections:

* `Invariance`. The conjuncts beyond the types say that the table has
  connections under their own keys (`TableKeyed`), that the entry the packet loop
  works on can vanish but not change (`PacketKeyed`, because only the loop makes
  connections, `Unmade` and `SynRoom`), that a relay serves a connection of its
  own key (`ServesKeyed`), and that a connection not in the table is closed, old
  or cleaned up (`Accounted`, `CleaningIsDown`).
* `Typing`, `ClosedIsGone`, and `DataStaysHome`, the action property
  `SegmentOfItsOwn`.

**`PoolBuildProofs`**, for any proxies, sizes and number of runs:

* `Invariance`. `FoundPassed` (what is on any list has passed), `InOrder` (which
  phase may have what), `CheckedOnce` (a chosen proxy is checked once by each
  kind) and `ListedTimes` (how often a proxy can be listed by now, phase by phase).
* `Typing`, `PoolHasPassed`, `RarelyTwice`, `StartsIfFound`.

**`RunVpnProofs`**, for any number of sessions and of signals, so for stacks of
clean-ups of any height:

* `Invariance`. `CleanEnd` is far from inductive: it speaks of the end, and every
  stack of clean-ups on the way there has to be described. Four ideas do it.
  `AddedOnce`: whatever is there beyond what the session found, the set-up has
  come past it and put it there once. `Swept`: a thing that a clean-up on the stack
  has passed is gone, or Ctrl+C killed the command that was removing it, and then a
  clean-up *above* has not come to it yet (`LeftAbove`). Because the clean-up above
  started from the first step, and the stack is left from the top, nothing
  is missed. `FlagsSet`: the flags that make a clean-up spare something are set by
  the end of the set-up. `CleanOnceOver`: once a session has been told to stop, or
  its handlers are gone so that the next signal would end it, nothing is left:
  in every clean-up the event, the handlers and the close that may raise come after
  what has to be removed (`HandlersGone` relates the two).
* For a set-up that fails: `Undisturbed` (nothing interrupts it into a clean-up,
  and it fails at a step that can), `FailedClean` and `DeviceOpen`. For
  the order of the rules: `ExemptFirst`, which says where in the chain the exemption
  of marked packets is from the first rule on, until the proxy has stopped or the program exits.
* `TypeCorrect`, `FailedSetupsUndone`, `EndsAreClean`, `MarkedIsExempt`.

The lemmas on the way say what the model's operators do: `RemoveFirst` on a chain
and on how often a rule is in it, the position of each thing in the
sequences of steps, what pushing, popping and advancing a frame change.

**`DnsForwardProofs`**, for any depth of returning queries:

* `SessionsStaySafe`: the four invariants above for the specification that
  `MCDnsForward` checks; the forwarder only observes the session.
* `QueriesInOrder`: `DnsTypeOK`. It is inductive with `TypeOK`: a handler that
  still looks at its query has none that came back (`NextUnused`).

The proof that each action preserves an invariant has one lemma per conjunct, or
group of conjuncts, and in it one step per action.

With these every invariant and every action property of a passing run has its
theorem, and so have `KeepsMembership` and the safety part of `ServerSpec`. Only model-checked is
liveness: `ConnResolves`, `StopQuiesces`, `RequestResolves`, `BacklogServed`,
`RefreshEnds`, `RelayFollowsConnection`, `RouteRestored`, `EndsAfterCtrlC`,
`EveryQueryEnds` and the fairness in `ServerSpec`; the prover has no rule for
`ENABLED`, without which weak fairness cannot be used.

## 6. Not modelled

* Payloads, addresses, the SOCKS and HTTP dialogues, parsing of proxy lists:
  a proxy is a model value and a check passes or fails.
* Statistics, logging, the display, menus: output only. Of the menu `RunVpn` has
  which session may follow which in one process: SOCKS mode can become TUN mode
  but not the reverse, because `vpn.py` 127 ignores the third choice.
* The configuration file: one small JSON file, rewritten in place by one thread.
* In Windows mode sequence numbers and buffers (nothing in the code or its
  documents promises a stream: a retransmission is sent upstream again and
  numbers are not reduced modulo 2^32, see the hazards), DNS over UDP (each
  query has a thread without state, as in `dns.py`), and bypass routes: the pool's
  proxies have theirs from the start, so the race of `on_switch` with the
  clean-up needs a proxy whose check came in late (196) and was chosen while
  Ctrl+C ran.
* The manual repair of README.md 219-226, which leaves the ip6tables and QUIC rules.
* `wintun_dl.py`, the Wintun driver: a download, and an external library.

Assumptions about the outside: an iptables or ip removal succeeds unless Ctrl+C
kills it, and so does switching the system proxy off; the kernel drops a device,
its addresses and its routes with the last descriptor; a descriptor left open by
a failed `create()` is not followed into the next session; the DNS port can be
bound again while an old socket is there; an unreadable cache counts as empty,
which is what `load_cache` makes of it.

## 7. Plan

Done: `Membership` and `ProxyPool`, `TransProxy`, `Server`, `Listener` and
`LocalProxy`, `PoolBuild`, `WinTcp`, `RunVpn`, `DnsForward`; the proofs of
section 5. Next, in this order:

1. The safety half of the liveness properties, as invariants with proofs: who
   can be waiting for whom in `WinTcp` (the self-deadlock of finding 4 is the only
   cycle), and that a phase of `RunVpn` in which nothing is under way has a next
   step.
2. Payload and sequence numbers of one Windows connection, with retransmission
   and reordering, modulo 2^w, should the code come to promise a stream.
