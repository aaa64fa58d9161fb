----------------------------- MODULE Semaphore ------------------------------
(***************************************************************************)
(* Semaphore::P and Semaphore::V (threads/synch.cc).                       *)
(*                                                                         *)
(* Both run with interrupts disabled, so the only place where another      *)
(* thread can run in the middle of one is the Sleep in P's while loop: an  *)
(* action is one iteration of that loop, or a whole V.  A thread on the    *)
(* queue is asleep.  A thread taken off the queue is on the ready list and *)
(* tests the value again when the scheduler gets to it; nothing is assumed *)
(* about the order in which the scheduler picks ready threads, nor about   *)
(* when the timer preempts them.                                           *)
(***************************************************************************)
EXTENDS List, FiniteSets

CONSTANTS
    Threads,        \* the threads that use the semaphore
    Priority,       \* Thread::getPriority of each of them
    InitialValue,   \* the constructor's initialValue
    MaxValue        \* bound on value, for model checking

ASSUME SemaphoreAssumption ==
    /\ IsFiniteSet(Threads)
    /\ Priority \in [Threads -> Int]
    /\ InitialValue \in Nat
    /\ MaxValue \in Nat

VARIABLES
    value,          \* Semaphore::value
    queue,          \* Semaphore::queue, keyed by the negated priority
    inP             \* the threads that have called P and not returned

vars == <<value, queue, inP>>

Asleep == Items(queue)

(* In P's loop but off the queue: these will test the value again.         *)
Woken == inP \ Asleep

-----------------------------------------------------------------------------
(* The constructor.                                                        *)
Init ==
    /\ value = InitialValue
    /\ queue = <<>>
    /\ inP = {}

(* P without its loop: a woken thread takes the token it was woken for     *)
(* without looking at the value again.                                     *)
PIfInsteadOfWhile(t) ==
    /\ t \notin Asleep
    /\ \/ /\ value = 0 /\ t \notin inP
          /\ queue' = SortedInsert(queue, t, -Priority[t])
          /\ inP' = inP \cup {t}
          /\ UNCHANGED value
       \/ /\ value > 0 \/ t \in inP
          /\ value' = value - 1
          /\ inP' = inP \ {t}
          /\ UNCHANGED queue

(* P that queues its caller at the back, whatever its priority.            *)
PUnordered(t) ==
    /\ t \notin Asleep
    /\ \/ /\ value = 0
          /\ queue' = Append(queue, Element(t, -Priority[t]))
          /\ inP' = inP \cup {t}
          /\ UNCHANGED value
       \/ /\ value > 0
          /\ value' = value - 1
          /\ inP' = inP \ {t}
          /\ UNCHANGED queue

(* One test of P's while condition by a thread that calls P or was woken   *)
(* in it: with value == 0 it queues itself and sleeps, otherwise it takes  *)
(* a token and returns.                                                    *)
P(t) ==
    /\ t \notin Asleep
    /\ \/ /\ value = 0
          /\ queue' = SortedInsert(queue, t, -Priority[t])
          /\ inP' = inP \cup {t}
          /\ UNCHANGED value
       \/ /\ value > 0
          /\ value' = value - 1
          /\ inP' = inP \ {t}
          /\ UNCHANGED queue

(* V that wakes a sleeper only when the value leaves 0.                    *)
VWakesAtZero ==
    /\ value < MaxValue
    /\ queue' = IF value = 0 THEN Rest(queue) ELSE queue
    /\ value' = value + 1
    /\ UNCHANGED inP

(* V, by a thread or by an interrupt handler: the first of the queue, if   *)
(* there is one, becomes ready, and the value grows.                       *)
V ==
    /\ value < MaxValue
    /\ queue' = Rest(queue)
    /\ value' = value + 1
    /\ UNCHANGED inP

Next == (\E t \in Threads : P(t)) \/ V

(* A woken thread is on the ready list and is eventually run; nobody is    *)
(* obliged to call P or V.                                                 *)
Fairness == \A t \in Threads : WF_vars(t \in Woken /\ P(t))

SafetySpec == Init /\ [][Next]_vars

Spec == SafetySpec /\ Fairness

-----------------------------------------------------------------------------
(* The value never goes below zero (synch.h calls it "always >= 0"), and   *)
(* only threads inside P are on the queue.                                 *)
TypeOK ==
    /\ value \in Nat
    /\ queue \in Seq([item : Threads, key : Int])
    /\ inP \in SUBSET Threads
    /\ Asleep \subseteq inP

(* No wakeup is lost: while threads sleep in P, every token the semaphore  *)
(* holds has a woken thread on its way to take it.  P's re-test after      *)
(* Sleep and V's unconditional wakeup are both needed for this.            *)
NoLostWakeup == queue # <<>> => value <= Cardinality(Woken)

(* The inductive invariant.                                                *)
Inv == TypeOK /\ PriorityQueue(queue, Priority) /\ NoLostWakeup

(* V wakes a thread of the highest priority among those asleep.            *)
WakesHighestPriority ==
    [][\A t \in Asleep \ Asleep' : \A u \in Asleep' : Priority[u] <= Priority[t]]_vars

(* P and V behave as if P took its token in one step, and tokens are not   *)
(* left unused for ever while threads sleep.                               *)
Abstract == INSTANCE AbstractSemaphore WITH tokens <- value, blocked <- inP

ImplementsSafety == Abstract!SafetySpec

Implements == Abstract!Spec
=============================================================================
