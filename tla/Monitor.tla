------------------------------ MODULE Monitor -------------------------------
(***************************************************************************)
(* A Lock and its Condition variables used by any threads in any order the *)
(* assertions of synch.cc allow.  Interrupts are enabled, and any other    *)
(* ready thread may run, between two actions; every action runs with       *)
(* interrupts disabled or calls nothing that enables them.                 *)
(***************************************************************************)
EXTENDS Synch, FiniteSets

VARIABLES
    m,          \* the Lock and the Conditions
    entering    \* the threads inside Acquire, or inside Wait once they have
                \* left the monitor

vars == <<m, entering>>

Init ==
    /\ m = NewMonitor
    /\ entering = {}

(* A thread woken in Acquire that does not test "locked" again.            *)
DoAcquireIfInsteadOfWhile(t) ==
    /\ t \notin Sleeping(m) /\ ~isHeldBy(m, t)
    /\ \/ /\ m.locked = 1 /\ t \notin entering
          /\ entering' = entering \cup {t}
          /\ m' = Acquire(m, t)
       \/ /\ m.locked = 0 \/ t \in entering
          /\ entering' = entering \ {t}
          /\ m' = [m EXCEPT !.locked = 1, !.threadHeld = t]

(* Lock::Acquire, called by a thread that does not hold the lock, or       *)
(* resumed by one woken in Acquire or in Wait.                             *)
DoAcquire(t) ==
    /\ t \notin Sleeping(m) /\ ~isHeldBy(m, t)
    /\ m' = Acquire(m, t)
    /\ entering' = IF m.locked = 1 THEN entering \cup {t} ELSE entering \ {t}

DoRelease(t) ==
    /\ isHeldBy(m, t)
    /\ m' = Release(m)
    /\ UNCHANGED entering

DoWait(t, c) ==
    /\ isHeldBy(m, t)
    /\ m' = Wait(m, c, t)
    /\ entering' = entering \cup {t}

DoSignal(t, c) ==
    /\ isHeldBy(m, t)
    /\ m' = Signal(m, c)
    /\ UNCHANGED entering

DoBroadcast(t, c) ==
    /\ isHeldBy(m, t)
    /\ m' = Broadcast(m, c)
    /\ UNCHANGED entering

Next ==
    \E t \in Threads :
        \/ DoAcquire(t)
        \/ DoRelease(t)
        \/ \E c \in Conds : DoWait(t, c) \/ DoSignal(t, c) \/ DoBroadcast(t, c)

(* A thread that is in Acquire or Wait and not asleep is on the ready      *)
(* list, and every ready thread eventually runs.                           *)
Fairness == \A t \in Threads : WF_vars(t \in entering /\ DoAcquire(t))

SafetySpec == Init /\ [][Next]_vars

Spec == SafetySpec /\ Fairness

-----------------------------------------------------------------------------
(* The threads on the lists are in Acquire or Wait, and the lock is        *)
(* marked taken exactly when it has an owner.                              *)
TypeOK ==
    /\ m \in Monitors
    /\ entering \in SUBSET Threads
    /\ Sleeping(m) \subseteq entering
    /\ m.locked = 1 <=> m.threadHeld # NULL

(* Nobody sleeps twice, neither on two lists nor on one list twice, and    *)
(* the thread that holds the lock is past its Acquire: it is not asleep    *)
(* and not about to test "locked" again.                                   *)
SleepsOnce ==
    /\ PriorityQueue(m.queue, Priority)
    /\ \A c \in Conds :
          /\ PriorityQueue(m.waitQ[c], Priority)
          /\ Items(m.waitQ[c]) \cap Items(m.queue) = {}
          /\ \A d \in Conds \ {c} : Items(m.waitQ[c]) \cap Items(m.waitQ[d]) = {}
    /\ m.threadHeld \notin entering

(* No wakeup is lost in Release: while threads sleep in Acquire and the    *)
(* lock is free, a thread that was woken, or came on its own, is about to  *)
(* take it.                                                                *)
NoLostWakeup ==
    m.locked = 0 /\ m.queue # <<>> => entering \ Sleeping(m) # {}

(* The inductive invariant.                                                *)
Inv == TypeOK /\ SleepsOnce /\ NoLostWakeup

(* What a step may leave of a list: nobody it takes off has a lower        *)
(* priority than somebody it leaves.                                       *)
ByPriority(q, r) ==
    \A t \in Items(q) \ Items(r) : \A u \in Items(r) : Priority[u] <= Priority[t]

WakeOrder ==
    /\ ByPriority(m.queue, m'.queue)
    /\ \A c \in Conds : ByPriority(m.waitQ[c], m'.waitQ[c])

(* Whoever Release or Signal takes off a list has the highest priority of  *)
(* the threads on that list.                                               *)
WakesHighestPriority == [][WakeOrder]_vars

(* Lock and Condition implement Mesa monitors.                             *)
Abstract == INSTANCE AbstractMonitor WITH
    inside   <- IF m.locked = 1 THEN {m.threadHeld} ELSE {},
    entering <- entering \ Waiting(m),
    waiting  <- [c \in Conds |-> Items(m.waitQ[c])]

ImplementsSafety == Abstract!SafetySpec

Implements == Abstract!Spec
=============================================================================
