--------------------------------- MODULE RunVpn ---------------------------------
(***************************************************************************)
(* Sessions of the program, one after another: src/vpn.py run_vpn() on the *)
(* main thread with its signal handlers, in its Linux branch with          *)
(* src/tun.py TunManager, or in its SOCKS branch with or without the       *)
(* system proxy of macOS.  Setting up and cleaning up are                  *)
(* sequences of steps that add and remove one thing each, in the program   *)
(* or on the machine; what a session leaves on the machine the next finds. *)
(*                                                                         *)
(* A command that has to succeed may fail; a removal does what it says,    *)
(* unless Ctrl+C, which the terminal also sends to the command, kills it.  *)
(* Python runs a signal's handler between two of the main thread's own     *)
(* instructions, so also where that thread holds a lock.                   *)
(***************************************************************************)
EXTENDS Integers, Sequences, FiniteSets, SequencesExt

CONSTANTS
    MaxSignals,     \* bound on how often the program is interrupted
    MaxSessions     \* bound on how often run_vpn() is entered

ASSUME BoundsAssumption == MaxSignals \in Nat /\ MaxSessions \in Nat \ {0}

VARIABLES
    platform,   \* "linux" or "macos"
    mode,       \* the branch taken: "tun", "socks", or "system" with cfg.sys_proxy
    rules,      \* the firewall rules of the program, in the order of their chains
    installed,  \* what else is set up
    fd,         \* the device's descriptor; "closed" while _fd still holds its number
    known,      \* _rules_added and _iptables_added, as the items they vouch for
    phase,      \* where the main thread is
    at,         \* the step of the set-up it is at
    frames,     \* the cleanups under way, the running one last
    handler,    \* SIGINT and SIGTERM run cleanup()
    event,      \* stop_event is set
    registered, \* the sessions whose cleanup is registered to run at exit
    before,     \* history: what the session found on the machine
    sessions,   \* how many sessions there have been
    signals     \* how often the program has been interrupted

system  == <<rules, installed, fd>>
program == <<phase, at, frames>>
bounds  == <<sessions, signals>>
chosen  == <<platform, mode, before>>
vars    == <<chosen, system, known, program, handler, event, registered, bounds>>

-----------------------------------------------------------------------------
Rules6   == <<"ip6lo", "ip6tcp", "ip6drop">>

(* A faulty order, in which the redirection comes before the exemption.    *)
RedirectFirst == <<"natLo", "natTcp", "natMark", "natDns", "quic">>

Rules4   == <<"natLo", "natMark", "natTcp", "natDns", "quic">>
Firewall == ToSet(Rules4 \o Rules6)

Create        == <<"fd", "device">>
SetupRouting  == <<"addr", "link", "route", "routeDefault", "ruleMark", "ruleTable",
                   "rulesAdded", "flush">>
SetupIptables == Rules4 \o Rules6 \o <<"iptablesAdded">>

Setup ==
    [tun    |-> Create \o SetupRouting \o SetupIptables
                  \o <<"proxy", "dns", "timers", "status", "handler", "atexit">>,
     socks  |-> <<"local", "timers", "status", "handler">>,
     system |-> <<"local", "sysProxy", "timers", "status", "handler">>]

(* TunManager.cleanup(), and the two cleanup() of run_vpn(). *)
TunCleanup == Rules6 \o Rules4 \o <<"ruleTable", "ruleMark", "link", "addr", "fd", "forget">>

Cleanup ==
    [tun    |-> <<"timers", "proxy", "dns">> \o TunCleanup \o <<"status", "event", "restore">>,
     socks  |-> <<"timers", "local", "status", "restore", "event">>,
     system |-> <<"timers", "local", "status", "sysProxy", "restore", "event">>]

Device == {"device", "addr", "link", "route", "routeDefault"}
Routed == {"ruleMark", "ruleTable"}

(* A listening socket outlives its close() in the thread that is blocked   *)
(* in its accept(), until one more connection comes; and a worker of its   *)
(* executor stays with a client it serves, without a timeout.              *)
Accepting == [proxy |-> "proxyAccept", local |-> "localAccept"]
Services  == {"proxy", "dns", "local", "timers", "status", "proxyAccept", "localAccept",
              "worker"}

(* Steps of a cleanup in which the main thread holds a lock that it cannot *)
(* take twice: Event.set(), also by Timer.cancel(), and the shutdown() of  *)
(* an executor.                                                            *)
Locks == {"timers", "proxy", "local", "status", "event"}

(* The rest goes with the process, the device with its descriptor. *)
Lasting == Routed \cup {"sysProxy"}
Items   == Lasting \cup Device \cup Services

(* The ip6tables commands may fail unnoticed (check=False), but the first  *)
(* raises where there is no ip6tables.                                     *)
Optional == ToSet(Rules6)
Checked  == Device \cup Routed \cup ToSet(Rules4) \cup {"flush", "ip6lo"}

(* Commands of a cleanup, which run as processes of their own. *)
Commands == Firewall \cup Routed \cup {"link", "addr", "sysProxy"}

-----------------------------------------------------------------------------
Modes == IF platform = "linux" THEN {"tun", "socks"} ELSE {"socks", "system"}

Init ==
    /\ platform \in {"linux", "macos"} /\ mode \in Modes
    /\ rules = <<>> /\ installed = {} /\ fd = "none"
    /\ before = [rules |-> <<>>, items |-> {}]
    /\ known = {} /\ phase = "setup" /\ at = 1 /\ frames = <<>>
    /\ handler = FALSE /\ event = FALSE /\ registered = {}
    /\ sessions = 1 /\ signals = 0

Working == phase = "setup" /\ frames = <<>> /\ at <= Len(Setup[mode])
Step    == Setup[mode][at]

(* The main thread goes on to the next step of the set-up. *)
Go == at' = at + 1 /\ UNCHANGED <<phase, frames, chosen, bounds>>

OpenDevice ==
    /\ Working /\ Step = "fd"
    /\ fd' = "open"
    /\ Go /\ UNCHANGED <<rules, installed, known, handler, event, registered>>

(* iptables -A puts a rule last, whether or not it is there already. *)
AddRule ==
    /\ Working /\ Step \in Firewall
    /\ rules' = Append(rules, Step)
    /\ Go /\ UNCHANGED <<installed, fd, known, handler, event, registered>>

SkipOptional ==
    /\ Working /\ Step \in Optional
    /\ Go /\ UNCHANGED <<system, known, handler, event, registered>>

(* A policy rule that is there already is an error, and so is the port of  *)
(* a socket that is still in its accept().                                 *)
CanInstall(x) ==
    /\ x \in Routed => x \notin installed
    /\ x \in DOMAIN Accepting => Accepting[x] \notin installed

Install ==
    /\ Working /\ Step \in Items /\ CanInstall(Step)
    /\ installed' = installed \cup {Step}
    /\ Go /\ UNCHANGED <<rules, fd, known, handler, event, registered>>

Flush ==
    /\ Working /\ Step = "flush"
    /\ Go /\ UNCHANGED <<system, known, handler, event, registered>>

(* self._rules_added = True, self._iptables_added = True *)
SetFlag ==
    /\ Working /\ Step \in {"rulesAdded", "iptablesAdded"}
    /\ known' = known \cup (IF Step = "rulesAdded" THEN Routed ELSE ToSet(Rules6))
    /\ Go /\ UNCHANGED <<system, handler, event, registered>>

SetHandlers ==
    /\ Working /\ Step = "handler"
    /\ handler' = TRUE
    /\ Go /\ UNCHANGED <<system, known, event, registered>>

Register ==
    /\ Working /\ Step = "atexit"
    /\ registered' = registered \cup {sessions}
    /\ Go /\ UNCHANGED <<system, known, handler, event>>

Runs(p) == phase' = p /\ UNCHANGED <<at, frames, chosen, system, known, handler, event,
                                     registered, bounds>>

(* A faulty main thread that waits without the rest of the set-up. *)
LiveEarly == phase = "setup" /\ frames = <<>> /\ Runs("locking")

(* stop_event.wait() takes the event's lock, finds the event unset, and    *)
(* gives the lock up as it goes to sleep.                                  *)
Live == phase = "setup" /\ at > Len(Setup[mode]) /\ frames = <<>> /\ Runs("locking")
Wait == phase = "locking" /\ frames = <<>> /\ ~event /\ Runs("live")

(* The device cannot be created: no cleanup. *)
CreateFails == Working /\ Step \in ToSet(Create) /\ Runs("failed")

(* A cleanup that begins: the step it is at, whether it is inside the lock *)
(* of that step, and whether it is a cleanup of this session.              *)
NewFrame(steps, own) == [steps |-> steps, i |-> 1, in |-> FALSE, own |-> own]

(* A routing or iptables command fails: TunManager.cleanup(), and raise. *)
CommandFails ==
    /\ Working /\ Step \in Checked /\ at > Len(Create)
    /\ phase' = "undoing" /\ frames' = <<NewFrame(TunCleanup, TRUE)>>
    /\ UNCHANGED <<at, chosen, system, known, handler, event, registered, bounds>>

(* An exception leaves run_vpn() and ends the program; while the program   *)
(* ends it only ends what is under way.                                    *)
Raised ==
    /\ phase' = (IF phase \in {"joining", "exiting"} THEN "exiting" ELSE "joining")
    /\ frames' = <<>>
    /\ UNCHANGED <<at, chosen, handler, event, registered, sessions>>

(* A port is taken, or networksetup is missing. *)
StartFails ==
    /\ Working /\ Step \in {"proxy", "dns", "local", "sysProxy"}
    /\ Raised /\ UNCHANGED <<system, known, signals>>

-----------------------------------------------------------------------------
(* Cleaning up: the next step of the last frame.                           *)

Top       == Last(frames)
TopStep   == Top.steps[Top.i]
InCleanup == frames # <<>> /\ Top.i <= Len(Top.steps)
Advanced  == Append(Front(frames), [Top EXCEPT !.i = @ + 1, !.in = FALSE])
AllSteps  == NewFrame(Cleanup[mode], TRUE)

(* An earlier session has stopped its own services and closed its device.  *)
Finds == Top.own \/ TopStep \notin Services \cup {"fd", "forget", "event"}

(* The lock of a step; a timer that has been forgotten is not cancelled.   *)
NeedsLock == TopStep \in Locks /\ (TopStep = "timers" => "timers" \in installed)

(* The lock is held by a cleanup that this one interrupts, or by wait().   *)
Held ==
    \/ \E j \in 1 .. Len(frames) - 1 :
          frames[j].in /\ frames[j].steps[frames[j].i] = TopStep
    \/ TopStep = "event" /\ phase = "locking"

Enter ==
    /\ InCleanup /\ Finds /\ NeedsLock /\ ~Top.in /\ ~Held
    /\ frames' = Append(Front(frames), [Top EXCEPT !.in = TRUE])
    /\ UNCHANGED <<phase, at, chosen, system, known, handler, event, registered, bounds>>

Ready == InCleanup /\ Finds /\ (NeedsLock => Top.in)

Advance == frames' = Advanced /\ UNCHANGED <<phase, at, chosen, bounds>>

(* iptables -D takes the first rule of its kind. *)
Without(s, x) == IF x \in ToSet(s) THEN RemoveFirst(s, x) ELSE s

(* A faulty cleanup that asks _iptables_added for every rule. *)
RemoveKnownRule ==
    /\ Ready /\ TopStep \in Firewall
    /\ rules' = IF ToSet(Rules6) \subseteq known THEN Without(rules, TopStep) ELSE rules
    /\ Advance /\ UNCHANGED <<installed, fd, known, handler, event, registered>>

RemoveRule ==
    /\ Ready /\ TopStep \in Firewall
    /\ rules' = IF TopStep \in ToSet(Rules6) \ known THEN rules ELSE Without(rules, TopStep)
    /\ Advance /\ UNCHANGED <<installed, fd, known, handler, event, registered>>

(* What a removal takes along: with the link go its routes. *)
Removed(x) == IF x = "link" THEN {"link", "route", "routeDefault"} ELSE {x}

Undo ==
    /\ Ready /\ TopStep \in Items \ DOMAIN Accepting
    /\ installed' = IF TopStep \in Routed \ known THEN installed
                    ELSE installed \ Removed(TopStep)
    /\ Advance /\ UNCHANGED <<rules, fd, known, handler, event, registered>>

(* A faulty stop() that joins the serving thread. *)
StopJoins ==
    /\ Ready /\ TopStep \in DOMAIN Accepting
    /\ \/ /\ TopStep \in installed
          /\ installed' = (installed \ {TopStep}) \cup {Accepting[TopStep]}
          /\ UNCHANGED <<program, chosen, bounds>>
       \/ /\ {TopStep, Accepting[TopStep]} \cap installed = {}
          /\ Advance /\ UNCHANGED installed
    /\ UNCHANGED <<rules, fd, known, handler, event, registered>>

StopListening ==
    /\ Ready /\ TopStep \in DOMAIN Accepting
    /\ \/ installed' = installed \ {TopStep}
       \/ /\ TopStep \in installed
          /\ installed' = (installed \ {TopStep}) \cup {Accepting[TopStep]}
    /\ Advance /\ UNCHANGED <<rules, fd, known, handler, event, registered>>

(* The connection that wakes the blocked thread; submit() ends it. *)
Wake ==
    /\ \E x \in {"proxyAccept", "localAccept"} \cap installed : installed' = installed \ {x}
    /\ UNCHANGED <<chosen, rules, fd, known, program, handler, event, registered, bounds>>

(* A worker serves a client, as long as the client and its peer like; none *)
(* starts when the interpreter has begun to shut down.                     *)
ClientComes ==
    /\ {"proxy", "local"} \cap installed # {} /\ phase \notin {"joining", "exiting"}
    /\ installed' = installed \cup {"worker"}
    /\ UNCHANGED <<chosen, rules, fd, known, program, handler, event, registered, bounds>>

ClientGoes ==
    /\ "worker" \in installed /\ installed' = installed \ {"worker"}
    /\ UNCHANGED <<chosen, rules, fd, known, program, handler, event, registered, bounds>>

(* if self._fd >= 0: os.close(self._fd), then self._fd = -1 *)
CloseDevice ==
    /\ Ready /\ TopStep = "fd" /\ fd # "closed"
    /\ fd' = (IF fd = "open" THEN "closed" ELSE fd)
    /\ installed' = IF fd = "open" THEN installed \ Device ELSE installed
    /\ Advance /\ UNCHANGED <<rules, known, handler, event, registered>>

ForgetDevice ==
    /\ Ready /\ TopStep = "forget"
    /\ fd' = "none"
    /\ Advance /\ UNCHANGED <<rules, installed, known, handler, event, registered>>

(* The cleanup this one interrupts has closed the number: OSError. *)
CloseRaises ==
    /\ Ready /\ TopStep = "fd" /\ fd = "closed"
    /\ fd' = "none"
    /\ Raised /\ UNCHANGED <<rules, installed, known, signals>>

SetEvent ==
    /\ Ready /\ TopStep = "event"
    /\ event' = TRUE
    /\ Advance /\ UNCHANGED <<system, known, handler, registered>>

RestoreHandlers ==
    /\ Ready /\ TopStep = "restore"
    /\ handler' = FALSE
    /\ Advance /\ UNCHANGED <<system, known, event, registered>>

PassBy ==
    /\ InCleanup /\ ~Finds
    /\ Advance /\ UNCHANGED <<system, known, handler, event, registered>>

(* A cleanup returns to what it interrupted. *)
Return ==
    /\ frames # <<>> /\ Top.i > Len(Top.steps)
    /\ frames' = Front(frames)
    /\ phase' = IF phase = "undoing" THEN "failed" ELSE phase
    /\ UNCHANGED <<at, chosen, system, known, handler, event, registered, bounds>>

Stopped == phase \in {"locking", "live"} /\ frames = <<>> /\ event /\ Runs("stopped")

(* The user leaves the menu, or run_vpn() was called from the command line. *)
Exit == phase \in {"stopped", "failed"} /\ Runs("joining")

(* The interpreter waits for the workers of every executor before it runs  *)
(* what is registered.                                                     *)
Joined == phase = "joining" /\ frames = <<>> /\ "worker" \notin installed /\ Runs("exiting")

(* Every Linux session that got so far has registered its cleanup, which   *)
(* runs with both flags of its own TunManager set, the last one first.     *)
NextCallback ==
    /\ phase = "exiting" /\ frames = <<>>
    /\ \E s \in registered :
          /\ \A r \in registered : r <= s
          /\ registered' = registered \ {s}
          /\ frames' = <<NewFrame(Cleanup["tun"], s = sessions)>>
    /\ known' = Routed \cup ToSet(Rules6)
    /\ UNCHANGED <<phase, at, chosen, system, handler, event, bounds>>

ProcessGone ==
    /\ installed' = installed \cap Lasting /\ fd' = "none"
    /\ frames' = <<>> /\ registered' = {} /\ handler' = FALSE
    /\ UNCHANGED <<at, chosen, rules, known, event, sessions>>

Gone ==
    /\ phase = "exiting" /\ frames = <<>> /\ registered = {}
    /\ phase' = "exited"
    /\ ProcessGone /\ UNCHANGED signals

-----------------------------------------------------------------------------
(* Ctrl+C, and SIGTERM                                                     *)

Interruptible == {"setup", "locking", "live", "joining", "exiting"}

Press  == signals < MaxSignals /\ signals' = signals + 1
Killed == InCleanup /\ TopStep \in Commands

(* A faulty handler that does nothing while a cleanup is under way. *)
InterruptIgnored ==
    /\ Press /\ handler /\ phase \in Interruptible
    /\ \/ frames = <<>> /\ frames' = <<AllSteps>>
       \/ Killed /\ frames' = Advanced
    /\ UNCHANGED <<phase, at, chosen, system, known, handler, event, registered, sessions>>

(* cleanup() runs on top of whatever the main thread was doing, also of a  *)
(* cleanup; a command that was removing something may be killed.           *)
Interrupt ==
    /\ Press /\ handler /\ phase \in Interruptible
    /\ \/ frames' = Append(frames, AllSteps)
       \/ Killed /\ frames' = Append(Advanced, AllSteps)
    /\ UNCHANGED <<phase, at, chosen, system, known, handler, event, registered, sessions>>

Alive == phase \notin {"exited", "died"}

(* KeyboardInterrupt, which no `except Exception' catches, ends the        *)
(* program, or at exit the waiting or the callback that is running.        *)
InterruptRaises ==
    /\ Press /\ ~handler /\ Alive
    /\ Raised /\ UNCHANGED <<system, known>>

(* SIGTERM has no exception: nothing runs at exit.                         *)
Terminate ==
    /\ Press /\ ~handler /\ Alive
    /\ phase' = "died" /\ ProcessGone

-----------------------------------------------------------------------------
(* The next session, in the same process from the menu, or in another one. *)
(* The menu can change SOCKS mode to TUN mode, but not back (vpn.py:127).  *)

NewSession ==
    /\ sessions < MaxSessions /\ sessions' = sessions + 1
    /\ phase \in {"stopped", "failed", "exited", "died"}
    /\ mode' \in IF mode = "tun" /\ Alive THEN {"tun"} ELSE Modes
    /\ phase' = "setup" /\ at' = 1 /\ frames' = <<>>
    /\ known' = {} /\ event' = FALSE /\ fd' = "none"
    /\ before' = [rules |-> rules, items |-> installed \cap Lasting]
    /\ UNCHANGED <<platform, rules, installed, handler, registered, signals>>

-----------------------------------------------------------------------------
SettingUp ==
    \/ OpenDevice \/ AddRule \/ SkipOptional \/ Install \/ Flush \/ SetFlag
    \/ SetHandlers \/ Register \/ Live \/ Wait
    \/ CreateFails \/ CommandFails \/ StartFails

CleaningUp ==
    \/ Enter \/ RemoveRule \/ Undo \/ StopListening \/ CloseDevice \/ ForgetDevice
    \/ CloseRaises \/ SetEvent \/ RestoreHandlers \/ PassBy \/ Return
    \/ Stopped \/ Joined \/ NextCallback \/ Gone

Interruption == Interrupt \/ InterruptRaises \/ Terminate

Clients == Wake \/ ClientComes \/ ClientGoes

Next == SettingUp \/ CleaningUp \/ Exit \/ Interruption \/ Clients \/ NewSession

Spec == Init /\ [][Next]_vars

(* Every command and every stop() of the program returns. *)
MainThread == SettingUp \/ CleaningUp

LiveSpec == Spec /\ WF_vars(MainThread)

-----------------------------------------------------------------------------
(* Properties *)

Occurs(s, x) == Cardinality({i \in DOMAIN s : s[i] = x})

(* What is on the machine now was there when the session began. *)
NothingLeftBut(items) ==
    /\ \A r \in Firewall : Occurs(rules, r) <= Occurs(before.rules, r)
    /\ installed \cap Lasting \subseteq before.items \cup items

(* Every variable keeps its type, run_vpn() waits only at the end of its   *)
(* set-up, and only the cleanups of one thread are under way.              *)
TypeOK ==
    /\ platform \in {"linux", "macos"} /\ mode \in Modes
    /\ rules \in Seq(Firewall) /\ installed \subseteq Items
    /\ fd \in {"none", "open", "closed"} /\ known \subseteq Routed \cup ToSet(Rules6)
    /\ phase \in {"setup", "undoing", "failed", "locking", "live", "stopped",
                  "joining", "exiting", "exited", "died"}
    /\ at \in 1 .. Len(Setup[mode]) + 1
    /\ phase \in {"locking", "live", "stopped"} => at > Len(Setup[mode])
    /\ \A f \in ToSet(frames) :
          /\ f.i \in 1 .. Len(f.steps) + 1 /\ f.in \in BOOLEAN
          /\ f.own \/ phase = "exiting"
    /\ frames # <<>> => phase \in Interruptible \cup {"undoing"}
    /\ handler \in BOOLEAN /\ event \in BOOLEAN /\ registered \subseteq 1 .. sessions
    /\ sessions \in 1 .. MaxSessions /\ signals \in 0 .. MaxSignals

(* A set-up that fails undoes what it did (tun.py:59-61, 96-98), although  *)
(* it may fail before the flags that cleanup() asks are set, and although  *)
(* there may be rules of an earlier session.  It leaves the first policy   *)
(* rule when the second cannot be added, because _rules_added comes after  *)
(* both (54-56), and the open descriptor when there is no device, because  *)
(* create() does not clean up (28-30).                                     *)
SetupFailureUndone ==
    phase = "failed" =>
        /\ NothingLeftBut(IF Step = "ruleTable" THEN {"ruleMark"} ELSE {})
        /\ fd = "none" \/ Step = "device"
        /\ installed \cap Device = {}

(* A session that was told to stop once it was live leaves nothing on the  *)
(* machine, however often Ctrl+C is pressed, whatever command or cleanup   *)
(* it hits, and also when the program dies of it (vpn.py:227-236,          *)
(* 268-277).                                                               *)
CleanEnd ==
    phase \in {"stopped", "exited", "died"} /\ at > Len(Setup[mode]) => NothingLeftBut({})

(* Marked packets that come to these rules are not redirected.             *)
Exempt(s) ==
    "natTcp" \in ToSet(s) =>
        \E i \in DOMAIN s : s[i] = "natMark" /\ \A j \in 1 .. i : s[j] # "natTcp"

(* The marked packets of the program, with which connections go to their   *)
(* proxies, never enter its own tunnel: whenever everything goes to the    *)
(* tunnel's table, they do not; and if the chain was clean before, they    *)
(* pass the rule that redirects to the transparent proxy, throughout the   *)
(* set-up and until the proxy has been stopped or the program exits        *)
(* (tun.py:54-55, 81-86, 107-122; vpn.py:230).  The cleanup then removes   *)
(* the exemption before the redirection (109-112).  Nothing is said of the *)
(* packets of the health check, which have no mark (proxy_pool.py:121).    *)
MarkedTrafficBypasses ==
    /\ "ruleTable" \in installed => "ruleMark" \in installed
    /\ Exempt(before.rules) /\ phase # "exiting"
       /\ ("proxy" \in installed \/ (phase = "setup" /\ frames = <<>> /\ ~event))
          => Exempt(rules)

(* A cleanup waits for a lock that its own thread holds.                   *)
SelfDeadlock == InCleanup /\ Finds /\ NeedsLock /\ ~Top.in /\ Held

(* The program waits for a worker that waits for its client.               *)
ExitWaits == phase = "joining" /\ frames = <<>> /\ "worker" \in installed

(* Ctrl+C ends the session or the program: every cleanup comes to its end, *)
(* wait() returns and the interpreter exits (vpn.py:230-236, 268-277).     *)
(* The exceptions are a Ctrl+C that hits the thread while it holds the     *)
(* lock of an Event or an executor, which the cleanup then waits for, and  *)
(* an exit while a worker serves a client without a timeout                *)
(* (transproxy.py:97, local_proxy.py:142).                                 *)
EndsAfterCtrlC ==
    frames # <<>> \/ phase \in {"joining", "exiting"} ~>
        \/ phase \in {"stopped", "failed", "exited", "died"}
        \/ SelfDeadlock \/ ExitWaits
==================================================================================
