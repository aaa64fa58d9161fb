-------------------------- MODULE AbstractMonitor ---------------------------
(***************************************************************************)
(* What a Lock with its Condition variables promises (threads/synch.h):    *)
(* Mesa monitors.  At most one thread is inside; Wait leaves the monitor   *)
(* and starts waiting in one step; Signal moves one waiter, if there is    *)
(* one, to the threads that want to enter; a thread that wants to enter    *)
(* does so in one step while nobody is inside.                             *)
(***************************************************************************)
CONSTANTS Threads, Conds

VARIABLES inside,    \* the threads inside the monitor
          entering,  \* the threads that want to enter and have not yet
          waiting    \* for each condition, the threads waiting on it

vars == <<inside, entering, waiting>>

Init ==
    /\ inside = {}
    /\ entering = {}
    /\ waiting = [c \in Conds |-> {}]

(* A thread finds somebody inside and stays outside.                       *)
Block(t) ==
    /\ inside # {}
    /\ t \notin inside
    /\ \A c \in Conds : t \notin waiting[c]
    /\ entering' = entering \cup {t}
    /\ UNCHANGED <<inside, waiting>>

Enter(t) ==
    /\ inside = {}
    /\ \A c \in Conds : t \notin waiting[c]
    /\ inside' = {t}
    /\ entering' = entering \ {t}
    /\ UNCHANGED waiting

Leave(t) ==
    /\ t \in inside
    /\ inside' = inside \ {t}
    /\ UNCHANGED <<entering, waiting>>

Wait(t, c) ==
    /\ t \in inside
    /\ inside' = inside \ {t}
    /\ waiting' = [waiting EXCEPT ![c] = @ \cup {t}]
    /\ UNCHANGED entering

(* Signal wakes exactly one waiter, or nobody when nobody waits.           *)
Signal(t, c) ==
    /\ t \in inside
    /\ \/ /\ waiting[c] = {}
          /\ UNCHANGED <<entering, waiting>>
       \/ \E u \in waiting[c] :
             /\ waiting' = [waiting EXCEPT ![c] = @ \ {u}]
             /\ entering' = entering \cup {u}
    /\ UNCHANGED inside

Broadcast(t, c) ==
    /\ t \in inside
    /\ waiting' = [waiting EXCEPT ![c] = {}]
    /\ entering' = entering \cup waiting[c]
    /\ UNCHANGED inside

Next == \E t \in Threads :
            \/ Block(t) \/ Enter(t) \/ Leave(t)
            \/ \E c \in Conds : Wait(t, c) \/ Signal(t, c) \/ Broadcast(t, c)

(* A free monitor that threads want to enter does not stay free.           *)
Fairness == WF_vars(\E t \in entering : Enter(t))

SafetySpec == Init /\ [][Next]_vars

Spec == SafetySpec /\ Fairness
=============================================================================
