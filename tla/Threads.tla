------------------------------ MODULE Threads -------------------------------
(***************************************************************************)
(* The life of threads (threads/thread.cc) under the scheduler as it is    *)
(* (threads/scheduler.cc): one running thread, a ready list ordered by     *)
(* priority, and the deletion of finished threads by the thread that runs  *)
(* next.                                                                   *)
(*                                                                         *)
(* Only the running thread acts.  A step ends where interrupts are enabled *)
(* again or where the thread gives up the processor.  At the places where  *)
(* a running thread has interrupts enabled the timer may make it yield;    *)
(* Finish has them disabled from end to end.                               *)
(***************************************************************************)
EXTENDS Integers, Sequences

CONSTANTS
    Threads,            \* the Thread objects
    Main,               \* the one Initialize creates
    NULL,               \* the null Thread pointer
    Priorities,         \* the arguments of setPriority
    OnlyParentJoins,    \* TRUE: Join is called by the thread's creator only
    MaxOps              \* bound on the calls of Yield and setPriority in a
                        \* behaviour

VARIABLES
    currentThread, readyList, threadToBeDestroyed,
    priority,           \* Thread::priority
    join,               \* Thread::join
    readyToJoin,        \* Thread::readyToJoin
    isForked,           \* Thread::isForked
    mon,                \* Thread::lock and Thread::cv
    pc,                 \* how far each thread has come
    target,             \* the thread whose Join a thread is in
    creator,            \* the thread that created a thread
    ops                 \* how many of them there have been

vars == <<currentThread, readyList, threadToBeDestroyed, priority, join, readyToJoin,
          isForked, mon, pc, target, creator, ops>>

(* Initialize creates the main thread, with priority 0.                    *)
ThreadsAssumption ==
    /\ Main \in Threads /\ NULL \notin Threads
    /\ 0 \in Priorities /\ Priorities \subseteq Int

INSTANCE Synch WITH Priority <- priority, Conds <- {"cv"}

(* No object yet, or not any more; constructed; forked and not yet run; in *)
(* its procedure; in Join, in the order of the code; in Finish, in the     *)
(* order of the code; after Finish's last Sleep.                           *)
JoinPlaces == {"joinAcquire", "joinHeld", "joinWoken", "joinReacquire", "joinHeldAgain"}
FinishPlaces == {"finishAcquire", "finishLoop", "finishLast"}
Places == {"none", "created", "forked", "run", "dead", "deleted"}
              \cup JoinPlaces \cup FinishPlaces

Exists(t) == pc[t] \notin {"none", "deleted"}

-----------------------------------------------------------------------------
(* Scheduler.                                                              *)

ReadyToRun(ready, t) == SortedInsert(ready, t, -priority[t])

(* ReadyToRun for what Remove takes off a list.                            *)
WakeFirst(ready, list) ==
    IF list = <<>> THEN ready ELSE ReadyToRun(ready, Head(list).item)

(* Run, after SWITCH.  A thread that has run before returns from its own   *)
(* call of Run and deletes the thread that finished; a thread that runs    *)
(* for the first time starts in ThreadRoot and does not.                   *)
Run(next, places, finished) ==
    /\ currentThread' = next
    /\ \/ /\ places[next] = "forked"
          /\ pc' = [places EXCEPT ![next] = "run"]
          /\ threadToBeDestroyed' = finished
       \/ /\ places[next] # "forked"
          /\ pc' = [t \in Threads |-> IF t = finished THEN "deleted" ELSE places[t]]
          /\ threadToBeDestroyed' = NULL

(* Sleep: with nobody to run and no interrupt pending the machine halts.   *)
Sleep(ready, places, finished) ==
    \/ /\ ready # <<>>
       /\ readyList' = Rest(ready)
       /\ Run(Head(ready).item, places, finished)
    \/ /\ ready = <<>>
       /\ readyList' = <<>>
       /\ currentThread' = NULL
       /\ pc' = places
       /\ threadToBeDestroyed' = finished

(* Release, Signal and Wait on a thread's own lock and condition, together *)
(* with what they do to the ready list: k is the pair of the two.          *)
KRelease(k) == [mon |-> Release(k.mon), ready |-> WakeFirst(k.ready, k.mon.queue)]
KSignal(k) == [mon |-> Signal(k.mon, "cv"), ready |-> WakeFirst(k.ready, k.mon.waitQ["cv"])]
KWait(k, t) == [mon |-> Wait(k.mon, "cv", t), ready |-> KRelease(k).ready]
KAcquire(k, t) == [k EXCEPT !.mon = Acquire(@, t)]
Kernel(u) == [mon |-> mon[u], ready |-> readyList]

(* The current thread sleeps at a place with the monitor of u changed.     *)
SleepAt(u, k, place) ==
    /\ mon' = [mon EXCEPT ![u] = k.mon]
    /\ Sleep(k.ready, [pc EXCEPT ![currentThread] = place], threadToBeDestroyed)

(* The current thread goes on with the monitor of u changed.               *)
GoOnAt(u, k, place) ==
    /\ mon' = [mon EXCEPT ![u] = k.mon]
    /\ readyList' = k.ready
    /\ pc' = [pc EXCEPT ![currentThread] = place]
    /\ UNCHANGED <<currentThread, threadToBeDestroyed>>

(* One more of the calls that a thread could make for ever.                *)
CountOp ==
    /\ ops < MaxOps
    /\ ops' = ops + 1

At(place) == currentThread # NULL /\ pc[currentThread] = place

-----------------------------------------------------------------------------
Init ==
    /\ currentThread = Main
    /\ readyList = <<>>
    /\ threadToBeDestroyed = NULL
    /\ priority = [t \in Threads |-> 0]
    /\ join = [t \in Threads |-> 0]
    /\ readyToJoin = [t \in Threads |-> 0]
    /\ isForked = [t \in Threads |-> 0]
    /\ mon = [t \in Threads |-> NewMonitor]
    /\ pc = [t \in Threads |-> IF t = Main THEN "run" ELSE "none"]
    /\ target = [t \in Threads |-> NULL]
    /\ creator = [t \in Threads |-> NULL]
    /\ ops = 0

(* The constructor.  It leaves isForked uninitialized; of the values it    *)
(* may have, Join only tells 1 from the others.                            *)
New(u, Pjoin, garbage) ==
    /\ At("run") /\ pc[u] = "none"
    /\ join' = [join EXCEPT ![u] = Pjoin]
    /\ isForked' = [isForked EXCEPT ![u] = garbage]
    /\ pc' = [pc EXCEPT ![u] = "created"]
    /\ creator' = [creator EXCEPT ![u] = currentThread]
    /\ UNCHANGED <<currentThread, readyList, threadToBeDestroyed, priority, readyToJoin,
                   mon, target, ops>>

Fork(u) ==
    /\ At("run") /\ pc[u] = "created"
    /\ isForked' = [isForked EXCEPT ![u] = 1]
    /\ pc' = [pc EXCEPT ![u] = "forked"]
    /\ readyList' = ReadyToRun(readyList, u)
    /\ UNCHANGED <<currentThread, threadToBeDestroyed, priority, join, readyToJoin, mon,
                   target, creator, ops>>

setPriority(u, newPriority) ==
    /\ At("run") /\ Exists(u)
    /\ priority[u] # newPriority
    /\ CountOp
    /\ priority' = [priority EXCEPT ![u] = newPriority]
    /\ UNCHANGED <<currentThread, readyList, threadToBeDestroyed, join, readyToJoin,
                   isForked, mon, pc, target, creator>>

(* Yield, called by the thread or for it by the timer interrupt.           *)
Yield ==
    /\ At("run") \/ At("joinHeld") \/ At("joinWoken") \/ At("joinHeldAgain")
    /\ readyList # <<>>
    /\ CountOp
    /\ readyList' = ReadyToRun(Rest(readyList), currentThread)
    /\ Run(Head(readyList).item, pc, threadToBeDestroyed)
    /\ UNCHANGED <<priority, join, readyToJoin, isForked, mon, target, creator>>

-----------------------------------------------------------------------------
(* Join.                                                                   *)

(* The assertions, and the Acquire of the lock of u by a thread that calls *)
(* Join or was woken in that Acquire.                                      *)
JoinAcquire(u) ==
    /\ \/ /\ At("run") /\ Exists(u) /\ u # currentThread
          /\ join[u] = 1 /\ readyToJoin[u] = 0 /\ isForked[u] = 1
          /\ OnlyParentJoins => creator[u] = currentThread
       \/ At("joinAcquire") /\ target[currentThread] = u
    /\ target' = [target EXCEPT ![currentThread] = u]
    /\ LET k == KAcquire(Kernel(u), currentThread) IN
          \/ mon[u].locked = 1 /\ SleepAt(u, k, "joinAcquire")
          \/ mon[u].locked = 0 /\ GoOnAt(u, k, "joinHeld")
    /\ UNCHANGED <<priority, join, readyToJoin, isForked, creator, ops>>

(* With the lock held: the child may end, if it waits it is woken, and the *)
(* caller waits for it.                                                    *)
JoinWaits ==
    LET u == target[currentThread] IN
    /\ At("joinHeld")
    /\ readyToJoin' = [readyToJoin EXCEPT ![u] = 1]
    /\ SleepAt(u, KWait(KSignal(Kernel(u)), currentThread), "joinWoken")
    /\ UNCHANGED <<priority, join, isForked, target, creator, ops>>

(* The Acquire at the end of Wait.                                         *)
JoinReacquire ==
    LET u == target[currentThread]
        k == KAcquire(Kernel(u), currentThread)
    IN
    /\ At("joinWoken") \/ At("joinReacquire")
    /\ \/ mon[u].locked = 1 /\ SleepAt(u, k, "joinReacquire")
       \/ mon[u].locked = 0 /\ GoOnAt(u, k, "joinHeldAgain")
    /\ UNCHANGED <<priority, join, readyToJoin, isForked, target, creator, ops>>

(* The second Signal and the Release: the child may go.                    *)
JoinReturns ==
    LET u == target[currentThread] IN
    /\ At("joinHeldAgain")
    /\ GoOnAt(u, KRelease(KSignal(Kernel(u))), "run")
    /\ target' = [target EXCEPT ![currentThread] = NULL]
    /\ UNCHANGED <<priority, join, readyToJoin, isForked, creator, ops>>

-----------------------------------------------------------------------------
(* Finish, of the current thread c.                                        *)

(* Its lock is taken, at one of the three places where Finish acquires it. *)
FinishBlocked ==
    LET c == currentThread
        k == KAcquire(Kernel(c), c)
    IN
    /\ c # NULL /\ pc[c] \in FinishPlaces \cup {"run"}
    /\ mon[c].locked = 1
    /\ SleepAt(c, k, IF pc[c] = "run" THEN "finishAcquire" ELSE pc[c])
    /\ UNCHANGED <<priority, join, readyToJoin, isForked, target, creator, ops>>

(* The state when c gets to the test of Finish's loop, with the lock: a    *)
(* thread that comes out of the Wait in the loop first signals.            *)
AtFinishTest(c) ==
    /\ c # NULL /\ pc[c] \in {"run", "finishAcquire", "finishLoop"}
    /\ mon[c].locked = 0

FinishKernel(c) ==
    LET k == KAcquire(Kernel(c), c)
    IN  IF pc[c] = "finishLoop" THEN KSignal(k) ELSE k

(* Join has not been called: signal and wait.                              *)
FinishAwaitsJoin ==
    LET c == currentThread IN
    /\ AtFinishTest(c)
    /\ readyToJoin[c] = 0 /\ join[c] # 0
    /\ SleepAt(c, KWait(KSignal(FinishKernel(c)), c), "finishLoop")
    /\ UNCHANGED <<priority, join, readyToJoin, isForked, target, creator, ops>>

(* Finish that does not wait for the parent's permission.                  *)
FinishWithoutPermission ==
    LET c == currentThread
        k == KRelease(KSignal(FinishKernel(c)))
    IN
    /\ AtFinishTest(c)
    /\ readyToJoin[c] # 0 /\ join[c] # 0
    /\ mon' = [mon EXCEPT ![c] = k.mon]
    /\ Sleep(k.ready, [pc EXCEPT ![c] = "dead"], c)
    /\ UNCHANGED <<priority, join, readyToJoin, isForked, target, creator, ops>>

(* Finish that waits for the parent without waking it.                     *)
FinishWithoutSignal ==
    LET c == currentThread IN
    /\ AtFinishTest(c)
    /\ readyToJoin[c] # 0 /\ join[c] # 0
    /\ SleepAt(c, KWait(KAcquire(Kernel(c), c), c), "finishLast")
    /\ UNCHANGED <<priority, join, readyToJoin, isForked, target, creator, ops>>

(* Join has been called: signal, and wait for the parent to permit the     *)
(* deletion.                                                               *)
FinishAwaitsParent ==
    LET c == currentThread IN
    /\ AtFinishTest(c)
    /\ readyToJoin[c] # 0 /\ join[c] # 0
    /\ SleepAt(c, KWait(KSignal(FinishKernel(c)), c), "finishLast")
    /\ UNCHANGED <<priority, join, readyToJoin, isForked, target, creator, ops>>

(* The end of Finish, of a thread that cannot be joined or whose parent    *)
(* has given permission.                                                   *)
FinishEnds ==
    LET c == currentThread
        k == IF pc[c] = "finishLast" THEN KRelease(KAcquire(Kernel(c), c))
             ELSE KRelease(KSignal(FinishKernel(c)))
    IN
    /\ c # NULL /\ mon[c].locked = 0
    /\ pc[c] = "finishLast" \/ (AtFinishTest(c) /\ join[c] = 0)
    /\ mon' = [mon EXCEPT ![c] = k.mon]
    /\ Sleep(k.ready, [pc EXCEPT ![c] = "dead"], c)
    /\ UNCHANGED <<priority, join, readyToJoin, isForked, target, creator, ops>>

(* The machine has halted.                                                 *)
Halted == currentThread = NULL /\ UNCHANGED vars

Step ==
    \/ \E u \in Threads :
          \/ \E Pjoin, garbage \in {0, 1} : New(u, Pjoin, garbage)
          \/ Fork(u)
          \/ \E p \in Priorities : setPriority(u, p)
          \/ JoinAcquire(u)
    \/ Yield
    \/ JoinWaits \/ JoinReacquire \/ JoinReturns
    \/ FinishBlocked \/ FinishAwaitsJoin \/ FinishAwaitsParent \/ FinishEnds

Next == Step \/ Halted

(* The processor does not stop while there is a thread to run, and a       *)
(* thread that runs for long enough yields, or the timer makes it yield.   *)
Spec == Init /\ [][Next]_vars /\ WF_vars(Step) /\ WF_vars(Yield)

-----------------------------------------------------------------------------
(* The ready list is in the order of the keys, whatever setPriority has    *)
(* done since.                                                             *)
TypeOK ==
    /\ currentThread \in Threads \cup {NULL}
    /\ readyList \in Seq([item : Threads, key : Int]) /\ Sorted(readyList)
    /\ threadToBeDestroyed \in Threads \cup {NULL}
    /\ priority \in [Threads -> Priorities]
    /\ join \in [Threads -> {0, 1}]
    /\ readyToJoin \in [Threads -> {0, 1}]
    /\ isForked \in [Threads -> {0, 1}]
    /\ mon \in [Threads -> Monitors]
    /\ pc \in [Threads -> Places]
    /\ target \in [Threads -> Threads \cup {NULL}]
    /\ creator \in [Threads -> Threads \cup {NULL}]

(* Where t is: running, on the ready list, asleep on locks or conditions.  *)
Whereabouts(t) ==
    {w \in {<<"running">>} : t = currentThread}
      \cup {w \in {<<"ready">>} : t \in Items(readyList)}
      \cup {<<"lock", u>> : u \in {v \in Threads : t \in Items(mon[v].queue)}}
      \cup {<<"cv", u>> : u \in {v \in Threads : t \in Items(mon[v].waitQ["cv"])}}

(* No thread is lost or doubled: it is on a list once at most, from Fork   *)
(* to the end of Finish it is in exactly one place from which it can go    *)
(* on, before and after it is in none.                                     *)
OnePlace ==
    /\ NoDuplicates(readyList)
    /\ \A u \in Threads : NoDuplicates(mon[u].queue) /\ NoDuplicates(mon[u].waitQ["cv"])
    /\ \A t \in Threads :
          IF pc[t] \in {"none", "created", "dead", "deleted"} THEN Whereabouts(t) = {}
          ELSE \E w \in Whereabouts(t) : Whereabouts(t) = {w}

(* A deleted thread has gone from every list, nobody is inside its Join,   *)
(* and its lock and condition were idle, as their destructors assert.      *)
NoDangling ==
    \A u \in Threads :
        pc[u] = "deleted" =>
            /\ Whereabouts(u) = {}
            /\ \A t \in Threads : target[t] # u
            /\ mon[u] = NewMonitor

(* A thread is in one place, running, ready, asleep on one list, or done;  *)
(* no list, no Join and no pointer of the scheduler holds a deleted one.   *)
ThreadsSound == TypeOK /\ OnePlace /\ NoDangling

(* A Join returns only when the thread it waits for is at the end of       *)
(* Finish: it has seen that Join was called and waits for permission.      *)
JoinWaitsForFinish ==
    [][\A t \in Threads :
          pc[t] = "joinHeldAgain" /\ pc'[t] = "run" => pc[target[t]] = "finishLast"]_vars

(* Once a thread is in Finish, its Join returns, in whatever order the two *)
(* begin.                                                                  *)
JoinEventuallyReturns ==
    \A u \in Threads :
        (pc[u] \in FinishPlaces /\ \E t \in Threads : target[t] = u)
            ~> (\A t \in Threads : target[t] # u)

(* Finish's comment: "we set threadToBeDestroyed, so that Scheduler::Run() *)
(* will call the destructor": a thread that has finished is deleted or     *)
(* still on its way to be.                                                 *)
DestroyedInTheEnd ==
    \A t \in Threads : pc[t] = "dead" => t = threadToBeDestroyed

(* Join's comment: "Panic if join has been called prior".                  *)
JoinedOnce ==
    \A t, u \in Threads : t # u /\ target[t] # NULL => target[t] # target[u]
=============================================================================
