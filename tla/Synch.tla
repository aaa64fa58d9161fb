------------------------------- MODULE Synch --------------------------------
(***************************************************************************)
(* Lock and Condition (threads/synch.cc) as operators on the state of a    *)
(* monitor: one Lock and the Condition variables used with it.  A kernel   *)
(* routine that calls several of them between two points where interrupts  *)
(* are enabled is one step, the composition of the operators it calls.     *)
(*                                                                         *)
(* A thread on one of the lists is asleep (Thread::Sleep); taking it off   *)
(* the list stands for Scheduler::ReadyToRun.  The assertions of the code  *)
(* are the guards under which modules apply the operators.                 *)
(***************************************************************************)
EXTENDS List

CONSTANTS
    Threads,    \* the threads that use the monitor
    Priority,   \* Thread::getPriority of each of them
    Conds,      \* the Condition variables
    NULL        \* the null Thread pointer

ASSUME SynchAssumption ==
    /\ Priority \in [Threads -> Int]
    /\ NULL \notin Threads

(* Lock::Lock and Condition::Condition.                                    *)
NewMonitor ==
    [locked     |-> 0,
     threadHeld |-> NULL,
     queue      |-> <<>>,
     waitQ      |-> [c \in Conds |-> <<>>]]

(* The states of a monitor.                                                *)
Monitors ==
    [locked     : {0, 1},
     threadHeld : Threads \cup {NULL},
     queue      : Seq([item : Threads, key : Int]),
     waitQ      : [Conds -> Seq([item : Threads, key : Int])]]

(* The threads asleep in Acquire, those asleep in Wait, and both.          *)
Contending(m) == Items(m.queue)
Waiting(m) == UNION {Items(m.waitQ[c]) : c \in Conds}
Sleeping(m) == Contending(m) \cup Waiting(m)

isHeldBy(m, t) == m.threadHeld = t

(* One test of Acquire's while condition by t: a thread that finds the     *)
(* lock taken queues itself and sleeps, any other takes the lock.          *)
Acquire(m, t) ==
    IF m.locked = 1
    THEN [m EXCEPT !.queue = SortedInsert(@, t, -Priority[t])]
    ELSE [locked |-> 1, threadHeld |-> t, queue |-> m.queue, waitQ |-> m.waitQ]

(* Release that forgets the threads asleep in Acquire.                     *)
ReleaseWithoutWakeup(m) ==
    [m EXCEPT !.locked = 0, !.threadHeld = NULL]

Release(m) ==
    [locked |-> 0, threadHeld |-> NULL, queue |-> Rest(m.queue), waitQ |-> m.waitQ]

(* Wait that queues its caller at the back, whatever its priority.         *)
WaitUnordered(m, c, t) ==
    [Release(m) EXCEPT !.waitQ[c] = Append(@, Element(t, -Priority[t]))]

(* The part of Wait before Sleep; the rest of Wait is an Acquire.          *)
Wait(m, c, t) ==
    [Release(m) EXCEPT !.waitQ[c] = SortedInsert(@, t, -Priority[t])]

Signal(m, c) == [m EXCEPT !.waitQ[c] = Rest(@)]

Broadcast(m, c) == [m EXCEPT !.waitQ[c] = <<>>]
=============================================================================
