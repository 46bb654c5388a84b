--------------------------------- MODULE Server ---------------------------------
(***************************************************************************)
(* What the listeners of src/transproxy.py and src/local_proxy.py promise, *)
(* seen from outside: a connection is turned away or admitted, the ones    *)
(* admitted are taken into service in order of admission, no more at a     *)
(* time than there are workers, and none is admitted once the server has   *)
(* been shut.                                                              *)
(***************************************************************************)
EXTENDS Integers, Sequences, FiniteSets

CONSTANTS Conns, MaxWorkers

VARIABLES
    fresh,      \* connections nothing has been decided about
    waiting,    \* admitted, in order
    inService,  \* in the hands of a worker
    open        \* connections are still admitted

vars == <<fresh, waiting, inService, open>>

Init ==
    /\ fresh = Conns
    /\ waiting = <<>>
    /\ inService = {}
    /\ open = TRUE

Admit(c) ==
    /\ open /\ c \in fresh
    /\ fresh' = fresh \ {c}
    /\ waiting' = Append(waiting, c)
    /\ UNCHANGED <<inService, open>>

(* Several are turned away at once when the listening socket goes. *)
TurnAway ==
    /\ \E some \in SUBSET fresh : fresh' = fresh \ some
    /\ UNCHANGED <<waiting, inService, open>>

Take ==
    /\ waiting # <<>> /\ Cardinality(inService) < MaxWorkers
    /\ inService' = inService \cup {Head(waiting)}
    /\ waiting' = Tail(waiting)
    /\ UNCHANGED <<fresh, open>>

Finish(c) ==
    /\ c \in inService
    /\ inService' = inService \ {c}
    /\ UNCHANGED <<fresh, waiting, open>>

Shut ==
    /\ open' = FALSE
    /\ UNCHANGED <<fresh, waiting, inService>>

Next ==
    \/ \E c \in Conns : Admit(c) \/ Finish(c)
    \/ TurnAway \/ Take \/ Shut

Spec == Init /\ [][Next]_vars

(* Whoever waits is taken as soon as there is a worker. *)
LiveSpec == Spec /\ WF_vars(Take)
==================================================================================
