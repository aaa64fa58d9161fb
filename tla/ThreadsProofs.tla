---------------------------- MODULE ThreadsProofs ----------------------------
(***************************************************************************)
(* Threads are scheduled, joined and deleted correctly, for every set of   *)
(* threads and of priorities.  That each is in one place needs no more     *)
(* than that; that a deleted thread is used by nobody, and that Join waits *)
(* for Finish, need a thread to be joined by its creator alone.            *)
(***************************************************************************)
EXTENDS Threads, ListTheorems

(* The threads asleep on the lock and on the condition of u.               *)
Locked(u) == Items(mon[u].queue)
Waits(u) == Items(mon[u].waitQ["cv"])

(* The threads that are nowhere.                                           *)
Out == {"none", "created", "dead", "deleted"}

(* The lists of threads.                                                   *)
Queues == Seq(ElementsOf(Threads))

(* A monitor m together with the ready list: nobody is twice on them.      *)
Sound(m, ready) ==
    /\ m \in Monitors
    /\ ready \in Queues /\ Sorted(ready) /\ NoDuplicates(ready)
    /\ NoDuplicates(m.queue) /\ NoDuplicates(m.waitQ["cv"])
    /\ Items(ready) \cap Items(m.queue) = {}
    /\ Items(ready) \cap Items(m.waitQ["cv"]) = {}
    /\ Items(m.queue) \cap Items(m.waitQ["cv"]) = {}

(* Where t may sleep on the lock or the condition of u, given where the    *)
(* threads have come and whom they join.                                   *)
MayLock(t, u, places, joined) ==
    \/ t = u /\ places[t] \in FinishPlaces
    \/ joined[t] = u /\ places[t] \in {"joinAcquire", "joinReacquire"}
MayWait(t, u, places, joined) ==
    \/ t = u /\ places[t] \in {"finishLoop", "finishLast"}
    \/ joined[t] = u /\ places[t] = "joinWoken"

(* t is running, with current the running thread, or ready, or asleep.     *)
Somewhere(t, current, ready, ms) ==
    \/ t = current
    \/ t \in Items(ready)
    \/ \E u \in Threads : t \in Items(ms[u].queue) \cup Items(ms[u].waitQ["cv"])

(* The inductive invariant behind OnePlace, as a predicate on the parts of *)
(* the state, so that it can be stated of the moment in Sleep when nobody  *)
(* is running.                                                             *)
PlacesAt(current, ready, ms, places, joined, finished) ==
    /\ \A u \in Threads : Sound(ms[u], ready)
    /\ \A u \in Threads : \A t \in Items(ms[u].queue) : MayLock(t, u, places, joined)
    /\ \A u \in Threads : \A t \in Items(ms[u].waitQ["cv"]) : MayWait(t, u, places, joined)
    /\ current \notin Items(ready)
    /\ \A u \in Threads : current \notin Items(ms[u].queue) \cup Items(ms[u].waitQ["cv"])
    /\ \A t \in Threads : Somewhere(t, current, ready, ms) <=> places[t] \notin Out
    /\ \A t \in Threads : t = current => places[t] # "forked"
    /\ \A t \in Threads : t = finished => places[t] = "dead"
    /\ \A t \in Threads : places[t] \in JoinPlaces => joined[t] \in Threads

PlacesOK == PlacesAt(currentThread, readyList, mon, pc, target, threadToBeDestroyed)

-----------------------------------------------------------------------------
(* What a thread that only its creator joins goes through.                 *)
Joiners(u) == {t \in Threads : target[t] = u}
Idle(u) == mon[u].locked = 0 /\ mon[u].threadHeld = NULL /\ mon[u].queue = <<>>
Over(u) == pc[u] \in {"finishLast", "dead", "deleted"}

(* It does not exist yet, or cannot be joined.                             *)
Unjoinable(u) ==
    /\ join[u] = 0 \/ pc[u] = "none"
    /\ Joiners(u) = {}
    /\ mon[u] = NewMonitor
    /\ pc[u] \notin FinishPlaces
    /\ pc[u] = "none" => readyToJoin[u] = 0

(* Join has not been called; the thread may already wait for that.         *)
NotJoined(u) ==
    /\ join[u] = 1 /\ pc[u] # "none" /\ ~Over(u)
    /\ readyToJoin[u] = 0
    /\ Joiners(u) = {}
    /\ Idle(u) /\ Waits(u) \subseteq {u}

(* The creator is in Join and has the lock; the thread may wait for it or  *)
(* for the call.                                                           *)
JoinBegun(u) ==
    /\ join[u] = 1 /\ pc[u] # "none" /\ ~Over(u)
    /\ readyToJoin[u] = 0
    /\ \E p \in Threads \ {u} :
          /\ Joiners(u) = {p} /\ creator[u] = p
          /\ pc[p] = "joinHeld"
          /\ mon[u].locked = 1
    /\ Locked(u) \subseteq {u} /\ Waits(u) \subseteq {u}

(* The creator waits for the thread to get to the end of Finish.           *)
JoinAsleep(u) ==
    /\ join[u] = 1 /\ pc[u] # "none" /\ ~Over(u)
    /\ readyToJoin[u] = 1
    /\ \E p \in Threads \ {u} :
          /\ Joiners(u) = {p} /\ creator[u] = p
          /\ pc[p] = "joinWoken"
          /\ Waits(u) = {p}
    /\ Idle(u)

(* The thread is at the end of Finish and waits for permission; its        *)
(* creator has been woken.                                                 *)
JoinMeets(u) ==
    /\ join[u] = 1 /\ pc[u] = "finishLast"
    /\ readyToJoin[u] = 1
    /\ \E p \in Threads \ {u} :
          /\ Joiners(u) = {p} /\ creator[u] = p
          /\ \/ pc[p] = "joinWoken" /\ mon[u].locked = 0
             \/ pc[p] = "joinHeldAgain" /\ mon[u].locked = 1
    /\ mon[u].queue = <<>> /\ Waits(u) = {u}

(* The creator has returned from Join.                                     *)
JoinDone(u) ==
    /\ join[u] = 1 /\ Over(u)
    /\ readyToJoin[u] = 1
    /\ Joiners(u) = {}
    /\ mon[u] = NewMonitor

JoinPhase(u) ==
    \/ Unjoinable(u) \/ NotJoined(u) \/ JoinBegun(u)
    \/ JoinAsleep(u) \/ JoinMeets(u) \/ JoinDone(u)

(* The inductive invariant behind NoDangling and JoinWaitsForFinish.       *)
JoinOK ==
    /\ \A u \in Threads : JoinPhase(u)
    /\ \A t \in Threads : target[t] # NULL <=> pc[t] \in JoinPlaces

-----------------------------------------------------------------------------
(* The steps are first-order and set reasoning, which is Zenon's, unless   *)
(* they cite SMT.                                                          *)
USE Zenon

(* Scheduler::ReadyToRun puts a thread that is nowhere on the ready list.  *)
LEMMA ReadyToRunOK ==
    ASSUME ThreadsAssumption, TypeOK,
           NEW ready \in Queues, Sorted(ready), NoDuplicates(ready),
           NEW t \in Threads, t \notin Items(ready)
    PROVE  /\ ReadyToRun(ready, t) \in Queues
           /\ Sorted(ReadyToRun(ready, t))
           /\ NoDuplicates(ReadyToRun(ready, t))
           /\ Items(ReadyToRun(ready, t)) = Items(ready) \cup {t}
<1> DEFINE k == -priority[t]
<1>1. priority[t] \in Int
  <2>1. priority \in [Threads -> Priorities]
    BY DEF TypeOK
  <2>2. priority[t] \in Priorities
    BY <2>1
  <2> QED
    BY <2>2 DEF ThreadsAssumption
<1>2. k \in Int
  BY SMT, <1>1
<1>3. ReadyToRun(ready, t) = SortedInsert(ready, t, k)
  BY DEF ReadyToRun
<1> HIDE DEF k
<1>4. /\ SortedInsert(ready, t, k) \in Queues
      /\ Items(SortedInsert(ready, t, k)) = Items(ready) \cup {t}
      /\ Sorted(SortedInsert(ready, t, k))
  <2>1. SortedInsert(ready, t, k) \in Queues
    BY <1>2, SortedInsertProperties DEF Queues
  <2>2. Items(SortedInsert(ready, t, k)) = Items(ready) \cup {t}
    BY SMT, <1>2, SortedInsertProperties DEF Queues
  <2>3. Sorted(SortedInsert(ready, t, k))
    BY <1>2, SortedInsertProperties DEF Queues
  <2> QED
    BY <2>1, <2>2, <2>3
<1>5. NoDuplicates(SortedInsert(ready, t, k))
  <2>1. NoDuplicates(ready) /\ t \notin Items(ready) => NoDuplicates(SortedInsert(ready, t, k))
    BY <1>2, SortedInsertProperties DEF Queues
  <2> QED
    BY <2>1
<1> QED
  BY <1>3, <1>4, <1>5

(* What Remove leaves on a list without duplicates.                        *)
LEMMA RestOK ==
    ASSUME NEW list \in Queues, NoDuplicates(list)
    PROVE  /\ Rest(list) \in Queues /\ NoDuplicates(Rest(list))
           /\ list # <<>> => /\ Head(list).item \in Threads
                             /\ Items(list) = Items(Rest(list)) \cup {Head(list).item}
                             /\ Head(list).item \notin Items(Rest(list))
           /\ list = <<>> => Rest(list) = <<>> /\ Items(list) = {}
           /\ Items(list) \subseteq Threads
           /\ list = <<>> <=> Items(list) = {}
<1>1. CASE list = <<>>
  BY <1>1, EmptyListProperties DEF Queues
<1>2. CASE list # <<>>
  <2>1. Head(list) \in ElementsOf(Threads)
    BY <1>2, RestProperties DEF Queues
  <2>2. Head(list).item \in Threads
    BY <2>1 DEF ElementsOf
  <2> QED
    BY SMT, <1>2, <2>2, RestProperties, EmptyListProperties DEF Queues
<1> QED
  BY <1>1, <1>2

(* Removing the first thread of a list and making it ready.                *)
LEMMA WakeFirstOK ==
    ASSUME ThreadsAssumption, TypeOK,
           NEW ready \in Queues, Sorted(ready), NoDuplicates(ready),
           NEW list \in Queues, NoDuplicates(list),
           Items(ready) \cap Items(list) = {}
    PROVE  /\ WakeFirst(ready, list) \in Queues
           /\ Sorted(WakeFirst(ready, list)) /\ NoDuplicates(WakeFirst(ready, list))
           /\ Items(Rest(list)) \subseteq Items(list)
           /\ Items(WakeFirst(ready, list)) \cup Items(Rest(list)) = Items(ready) \cup Items(list)
           /\ Items(WakeFirst(ready, list)) \cap Items(Rest(list)) = {}
<1>1. CASE list = <<>>
  BY <1>1, RestOK DEF WakeFirst
<1>2. CASE list # <<>>
  <2> DEFINE h == Head(list).item
  <2>1. /\ h \in Threads /\ Items(list) = Items(Rest(list)) \cup {h}
        /\ h \notin Items(Rest(list))
    BY <1>2, RestOK
  <2>2. WakeFirst(ready, list) = ReadyToRun(ready, h)
    BY <1>2 DEF WakeFirst
  <2> HIDE DEF h
  <2>3. h \notin Items(ready)
    BY <2>1
  <2>4. /\ ReadyToRun(ready, h) \in Queues
        /\ Sorted(ReadyToRun(ready, h)) /\ NoDuplicates(ReadyToRun(ready, h))
        /\ Items(ReadyToRun(ready, h)) = Items(ready) \cup {h}
    BY <2>1, <2>3, ReadyToRunOK
  <2> QED
    BY <2>1, <2>2, <2>3, <2>4
<1> QED
  BY <1>1, <1>2

-----------------------------------------------------------------------------
(* The threads on the ready list and on the lists of the monitor.          *)
People(k) == Items(k.ready) \cup Items(k.mon.queue) \cup Items(k.mon.waitQ["cv"])

(* From k1 to k2 threads of the monitor have become ready, and no other    *)
(* has moved.                                                              *)
Frees(k1, k2) ==
    /\ Sound(k2.mon, k2.ready)
    /\ Items(k2.mon.queue) \subseteq Items(k1.mon.queue)
    /\ Items(k2.mon.waitQ["cv"]) \subseteq Items(k1.mon.waitQ["cv"])
    /\ People(k2) = People(k1)

(* From k1 to k2 t has gone to sleep on the monitor, and threads of the    *)
(* monitor may have become ready.                                          *)
FallsAsleep(k1, k2, t) ==
    /\ Sound(k2.mon, k2.ready)
    /\ Items(k2.mon.queue) \subseteq Items(k1.mon.queue) \cup {t}
    /\ Items(k2.mon.waitQ["cv"]) \subseteq Items(k1.mon.waitQ["cv"]) \cup {t}
    /\ t \notin Items(k2.ready)
    /\ People(k2) = People(k1) \cup {t}

(* Condition::Signal.                                                      *)
LEMMA SignalOK ==
    ASSUME ThreadsAssumption, TypeOK, NEW k, Sound(k.mon, k.ready)
    PROVE  /\ Frees(k, KSignal(k))
           /\ KSignal(k).mon.locked = k.mon.locked
           /\ KSignal(k).mon.threadHeld = k.mon.threadHeld
           /\ KSignal(k).mon.queue = k.mon.queue
           /\ KSignal(k).mon.waitQ["cv"] = Rest(k.mon.waitQ["cv"])
<1> DEFINE list == k.mon.waitQ["cv"]
           woken == WakeFirst(k.ready, list)
           m == Signal(k.mon, "cv")
<1>1. k.mon \in Monitors /\ list \in Queues
  BY DEF Sound, Monitors, Queues, ElementsOf
<1>2. /\ woken \in Queues /\ Sorted(woken) /\ NoDuplicates(woken)
      /\ Rest(list) \in Queues /\ NoDuplicates(Rest(list))
      /\ Items(Rest(list)) \subseteq Items(list)
      /\ Items(woken) \cup Items(Rest(list)) = Items(k.ready) \cup Items(list)
      /\ Items(woken) \cap Items(Rest(list)) = {}
  BY SMT, <1>1, RestOK, WakeFirstOK DEF Sound
<1>3. /\ m \in Monitors
      /\ m.locked = k.mon.locked /\ m.threadHeld = k.mon.threadHeld
      /\ m.queue = k.mon.queue /\ m.waitQ["cv"] = Rest(list)
  BY <1>1, <1>2 DEF Signal, Monitors, Queues, ElementsOf
<1>4. KSignal(k).mon = m /\ KSignal(k).ready = woken
  BY DEF KSignal
<1> HIDE DEF m, woken
<1>5. Sound(m, woken)
  BY <1>1, <1>2, <1>3 DEF Sound
<1> QED
  BY <1>2, <1>3, <1>4, <1>5 DEF Frees, People

(* Lock::Release.                                                          *)
LEMMA ReleaseOK ==
    ASSUME ThreadsAssumption, TypeOK, NEW k, Sound(k.mon, k.ready)
    PROVE  /\ Frees(k, KRelease(k))
           /\ KRelease(k).mon.locked = 0
           /\ KRelease(k).mon.threadHeld = NULL
           /\ KRelease(k).mon.queue = Rest(k.mon.queue)
           /\ KRelease(k).mon.waitQ = k.mon.waitQ
<1> DEFINE list == k.mon.queue
           woken == WakeFirst(k.ready, list)
           m == Release(k.mon)
<1>1. k.mon \in Monitors /\ list \in Queues
  BY DEF Sound, Monitors, Queues, ElementsOf
<1>2. /\ woken \in Queues /\ Sorted(woken) /\ NoDuplicates(woken)
      /\ Rest(list) \in Queues /\ NoDuplicates(Rest(list))
      /\ Items(Rest(list)) \subseteq Items(list)
      /\ Items(woken) \cup Items(Rest(list)) = Items(k.ready) \cup Items(list)
      /\ Items(woken) \cap Items(Rest(list)) = {}
  BY SMT, <1>1, RestOK, WakeFirstOK DEF Sound
<1>3. /\ m \in Monitors
      /\ m.locked = 0 /\ m.threadHeld = NULL
      /\ m.queue = Rest(list) /\ m.waitQ = k.mon.waitQ
  BY <1>1, <1>2 DEF Release, Monitors, Queues, ElementsOf
<1>4. KRelease(k).mon = m /\ KRelease(k).ready = woken
  BY DEF KRelease
<1> HIDE DEF m, woken
<1>5. Sound(m, woken)
  BY <1>1, <1>2, <1>3 DEF Sound
<1> QED
  BY <1>2, <1>3, <1>4, <1>5 DEF Frees, People

(* Lock::Acquire of a free lock.                                           *)
LEMMA AcquireFreeOK ==
    ASSUME ThreadsAssumption, TypeOK, NEW k, Sound(k.mon, k.ready), k.mon.locked = 0,
           NEW t \in Threads, k = [mon |-> k.mon, ready |-> k.ready]
    PROVE  /\ Frees(k, KAcquire(k, t))
           /\ KAcquire(k, t).mon.locked = 1
           /\ KAcquire(k, t).mon.threadHeld = t
           /\ KAcquire(k, t).mon.queue = k.mon.queue
           /\ KAcquire(k, t).mon.waitQ = k.mon.waitQ
           /\ KAcquire(k, t).ready = k.ready
<1> DEFINE m == Acquire(k.mon, t)
<1>1. k.mon \in Monitors
  BY DEF Sound
<1>2. /\ m \in Monitors
      /\ m.locked = 1 /\ m.threadHeld = t
      /\ m.queue = k.mon.queue /\ m.waitQ = k.mon.waitQ
  BY SMT, <1>1 DEF Acquire, Monitors
<1>3. KAcquire(k, t).mon = m /\ KAcquire(k, t).ready = k.ready
  BY DEF KAcquire
<1> HIDE DEF m
<1>4. Sound(m, k.ready)
  BY <1>2 DEF Sound
<1> QED
  BY <1>2, <1>3, <1>4 DEF Frees, People

(* SortedInsert by priority of a thread that is not on the list.           *)
LEMMA InsertOK ==
    ASSUME ThreadsAssumption, TypeOK, NEW list \in Queues, NoDuplicates(list),
           NEW t \in Threads, t \notin Items(list)
    PROVE  /\ SortedInsert(list, t, -priority[t]) \in Queues
           /\ NoDuplicates(SortedInsert(list, t, -priority[t]))
           /\ Items(SortedInsert(list, t, -priority[t])) = Items(list) \cup {t}
<1> DEFINE k == -priority[t]
<1>1. priority[t] \in Int
  <2>1. priority \in [Threads -> Priorities]
    BY DEF TypeOK
  <2>2. priority[t] \in Priorities
    BY <2>1
  <2> QED
    BY <2>2 DEF ThreadsAssumption
<1>2. k \in Int
  BY SMT, <1>1
<1> HIDE DEF k
<1>3. /\ SortedInsert(list, t, k) \in Queues
      /\ Items(SortedInsert(list, t, k)) = Items(list) \cup {t}
  <2>1. SortedInsert(list, t, k) \in Queues
    BY <1>2, SortedInsertProperties DEF Queues
  <2>2. Items(SortedInsert(list, t, k)) = Items(list) \cup {t}
    BY SMT, <1>2, SortedInsertProperties DEF Queues
  <2> QED
    BY <2>1, <2>2
<1>4. NoDuplicates(SortedInsert(list, t, k))
  <2>1. NoDuplicates(list) /\ t \notin Items(list) => NoDuplicates(SortedInsert(list, t, k))
    BY <1>2, SortedInsertProperties DEF Queues
  <2> QED
    BY <2>1
<1> QED
  BY <1>3, <1>4 DEF k

(* Lock::Acquire of a lock that is taken.                                  *)
LEMMA AcquireTakenOK ==
    ASSUME ThreadsAssumption, TypeOK, NEW k, Sound(k.mon, k.ready), k.mon.locked = 1,
           NEW t \in Threads, k = [mon |-> k.mon, ready |-> k.ready],
           t \notin People(k)
    PROVE  /\ FallsAsleep(k, KAcquire(k, t), t)
           /\ KAcquire(k, t).mon.locked = 1
           /\ Items(KAcquire(k, t).mon.queue) = Items(k.mon.queue) \cup {t}
           /\ KAcquire(k, t).mon.waitQ = k.mon.waitQ
           /\ KAcquire(k, t).ready = k.ready
<1> DEFINE m == Acquire(k.mon, t)
           list == SortedInsert(k.mon.queue, t, -priority[t])
<1>1. k.mon \in Monitors /\ k.mon.queue \in Queues
  BY DEF Sound, Monitors, Queues, ElementsOf
<1>2. /\ list \in Queues /\ NoDuplicates(list)
      /\ Items(list) = Items(k.mon.queue) \cup {t}
  BY <1>1, InsertOK DEF Sound, People
<1>3. m = [k.mon EXCEPT !.queue = list]
  BY DEF Acquire
<1> HIDE DEF list, m
<1>4. /\ m \in Monitors
      /\ m.locked = 1 /\ m.queue = list /\ m.waitQ = k.mon.waitQ
  BY <1>1, <1>2, <1>3 DEF Monitors, Queues, ElementsOf
<1>5. KAcquire(k, t).mon = m /\ KAcquire(k, t).ready = k.ready
  BY DEF KAcquire, m
<1>6. Sound(m, k.ready)
  BY <1>2, <1>4 DEF Sound, People
<1> QED
  BY <1>2, <1>4, <1>5, <1>6 DEF FallsAsleep, People

(* The part of Condition::Wait before Sleep.                               *)
LEMMA WaitOK ==
    ASSUME ThreadsAssumption, TypeOK, NEW k, Sound(k.mon, k.ready),
           NEW t \in Threads, t \notin People(k)
    PROVE  /\ FallsAsleep(k, KWait(k, t), t)
           /\ KWait(k, t).mon.locked = 0
           /\ KWait(k, t).mon.threadHeld = NULL
           /\ KWait(k, t).mon.queue = Rest(k.mon.queue)
           /\ Items(KWait(k, t).mon.waitQ["cv"]) = Items(k.mon.waitQ["cv"]) \cup {t}
<1> DEFINE k2 == KRelease(k)
           m == Wait(k.mon, "cv", t)
           old == k.mon.waitQ["cv"]
           list == SortedInsert(old, t, -priority[t])
<1>1. /\ Frees(k, k2) /\ k2.mon = Release(k.mon)
      /\ k2.mon.locked = 0 /\ k2.mon.threadHeld = NULL
      /\ k2.mon.queue = Rest(k.mon.queue) /\ k2.mon.waitQ = k.mon.waitQ
  BY ReleaseOK DEF KRelease
<1>2. KWait(k, t).mon = m /\ KWait(k, t).ready = k2.ready
  BY DEF KWait
<1>3. k2.mon \in Monitors /\ old \in Queues /\ NoDuplicates(old)
  BY <1>1 DEF Frees, Sound, Monitors, Queues, ElementsOf
<1>4. list \in Queues /\ NoDuplicates(list) /\ Items(list) = Items(old) \cup {t}
  BY <1>3, InsertOK DEF People
<1>5. m = [k2.mon EXCEPT !.waitQ["cv"] = list]
  BY <1>1 DEF Wait
<1> HIDE DEF k2, m, old, list
<1>6. /\ m \in Monitors
      /\ m.locked = 0 /\ m.threadHeld = NULL
      /\ m.queue = k2.mon.queue /\ m.waitQ["cv"] = list
  BY <1>1, <1>3, <1>4, <1>5 DEF Monitors, Queues, ElementsOf
<1>7. t \notin People(k2) /\ k2.mon.waitQ["cv"] = old
  BY <1>1 DEF Frees, old
<1>8. Sound(m, k2.ready)
  BY SMT, <1>1, <1>4, <1>6, <1>7 DEF Sound, People, Frees
<1>9. Items(m.waitQ["cv"]) = Items(k.mon.waitQ["cv"]) \cup {t}
  BY <1>4, <1>6 DEF old
<1>10. FallsAsleep(k, KWait(k, t), t)
  BY <1>1, <1>2, <1>4, <1>6, <1>7, <1>8, <1>9 DEF FallsAsleep, Frees, People
<1> QED
  BY <1>1, <1>2, <1>6, <1>9, <1>10

-----------------------------------------------------------------------------
(* The lists hold threads.                                                 *)
LEMMA SoundTypes ==
    ASSUME NEW m, NEW ready, Sound(m, ready)
    PROVE  /\ m.queue \in Queues /\ m.waitQ["cv"] \in Queues
           /\ Items(ready) \subseteq Threads
           /\ Items(m.queue) \subseteq Threads /\ Items(m.waitQ["cv"]) \subseteq Threads
<1>1. m.queue \in Queues /\ m.waitQ["cv"] \in Queues
  BY DEF Sound, Monitors, Queues, ElementsOf
<1>2. ASSUME NEW list \in Queues PROVE Items(list) \subseteq Threads
  BY EmptyListProperties DEF Queues
<1>3. ready \in Queues
  BY DEF Sound
<1> QED
  BY <1>1, <1>2, <1>3

(* A thread sleeps on one monitor.                                         *)
LEMMA OneMonitor ==
    ASSUME PlacesOK, NEW u \in Threads, NEW v \in Threads, NEW t,
           t \in Locked(u) \cup Waits(u), t \in Locked(v) \cup Waits(v)
    PROVE  u = v
<1>1. MayLock(t, u, pc, target) \/ MayWait(t, u, pc, target)
  BY DEF PlacesOK, PlacesAt, Locked, Waits
<1>2. MayLock(t, v, pc, target) \/ MayWait(t, v, pc, target)
  BY DEF PlacesOK, PlacesAt, Locked, Waits
<1> QED
  BY <1>1, <1>2 DEF MayLock, MayWait, FinishPlaces

(* The running thread gets to a place, and keeps the processor or leaves   *)
(* it, as the monitor of u and the ready list become those of k.           *)
Leaves(u, k, place, joined, cur, finished) ==
    LET c == currentThread
        places == [pc EXCEPT ![c] = place]
    IN
    /\ \A t \in Threads \ {c} : joined[t] = target[t]
    /\ Sound(k.mon, k.ready)
    /\ Items(k.mon.queue) \subseteq Locked(u) \cup {c}
    /\ Items(k.mon.waitQ["cv"]) \subseteq Waits(u) \cup {c}
    /\ People(k) \ {c} = People(Kernel(u))
    /\ c \in Items(k.mon.queue) => MayLock(c, u, places, joined)
    /\ c \in Items(k.mon.waitQ["cv"]) => MayWait(c, u, places, joined)
    /\ cur = NULL \/ (cur = c /\ cur \notin People(k) /\ place # "forked")
    /\ (cur = c \/ c \in People(k)) <=> place \notin Out
    /\ place \in JoinPlaces => joined[c] \in Threads
    /\ finished = threadToBeDestroyed \/ (finished = c /\ place = "dead")

(* Every thread is then in one place.                                      *)
LEMMA LeaveOK ==
    ASSUME ThreadsAssumption, TypeOK, PlacesOK, currentThread \in Threads,
           NEW u \in Threads, NEW k, NEW place, NEW joined, NEW cur, NEW finished,
           Leaves(u, k, place, joined, cur, finished)
    PROVE  PlacesAt(cur, k.ready, [mon EXCEPT ![u] = k.mon],
                    [pc EXCEPT ![currentThread] = place], joined, finished)
<1> DEFINE c == currentThread
           ms == [mon EXCEPT ![u] = k.mon]
           places == [pc EXCEPT ![c] = place]
<1>1. /\ ms[u] = k.mon
      /\ \A v \in Threads : v # u => ms[v] = mon[v]
      /\ places[c] = place
      /\ \A t \in Threads : t # c => places[t] = pc[t]
  BY DEF TypeOK
<1> HIDE DEF places
<1>a. /\ \A t \in Threads \ {c} : joined[t] = target[t]
      /\ Sound(k.mon, k.ready)
      /\ Items(k.mon.queue) \subseteq Locked(u) \cup {c}
      /\ Items(k.mon.waitQ["cv"]) \subseteq Waits(u) \cup {c}
      /\ People(k) \ {c} = People(Kernel(u))
      /\ c \in Items(k.mon.queue) => MayLock(c, u, places, joined)
      /\ c \in Items(k.mon.waitQ["cv"]) => MayWait(c, u, places, joined)
      /\ cur = NULL \/ (cur = c /\ cur \notin People(k) /\ place # "forked")
      /\ (cur = c \/ c \in People(k)) <=> place \notin Out
      /\ place \in JoinPlaces => joined[c] \in Threads
      /\ finished = threadToBeDestroyed \/ (finished = c /\ place = "dead")
  BY DEF Leaves, places
<1> USE <1>a
<1>2. People(Kernel(u)) = Items(readyList) \cup Locked(u) \cup Waits(u)
  BY DEF People, Kernel, Locked, Waits
<1>3. /\ Items(k.ready) \subseteq Threads
      /\ \A v \in Threads : Locked(v) \subseteq Threads /\ Waits(v) \subseteq Threads
  BY SoundTypes DEF PlacesOK, PlacesAt, Locked, Waits
<1>4. \A v \in Threads :
         /\ Items(readyList) \cap Locked(v) = {} /\ Items(readyList) \cap Waits(v) = {}
         /\ c \notin Locked(v) \cup Waits(v)
  BY DEF PlacesOK, PlacesAt, Sound, Locked, Waits
<1>5. ASSUME NEW v \in Threads, v # u
      PROVE  Items(k.ready) \cap Locked(v) = {} /\ Items(k.ready) \cap Waits(v) = {}
  <2> SUFFICES ASSUME NEW t, t \in Items(k.ready), t \in Locked(v) \cup Waits(v)
               PROVE  FALSE
    OBVIOUS
  <2>1. t \in People(Kernel(u))
    BY <1>4 DEF People
  <2>2. t \in Locked(u) \cup Waits(u)
    BY <2>1, <1>2, <1>4
  <2> QED
    BY <2>2, <1>5, OneMonitor
<1> HIDE DEF ms
<1>6. ASSUME NEW v \in Threads PROVE Sound(ms[v], k.ready)
  <2>1. CASE v = u
    BY <2>1, <1>1
  <2>2. CASE v # u
    BY <2>2, <1>1, <1>5 DEF PlacesOK, PlacesAt, Sound, Locked, Waits
  <2> QED
    BY <2>1, <2>2
<1>7. ASSUME NEW v \in Threads, NEW t \in Items(ms[v].queue)
      PROVE  MayLock(t, v, places, joined)
  <2>1. CASE t = c
    BY <2>1, <1>1, <1>4 DEF Locked
  <2>2. CASE t # c
    <3>1. t \in Locked(v) /\ t \in Threads
      BY SMT, <2>2, <1>1, <1>3 DEF Locked
    <3>2. MayLock(t, v, pc, target)
      BY <3>1 DEF PlacesOK, PlacesAt, Locked
    <3> QED
      BY <3>1, <3>2, <2>2, <1>1 DEF MayLock
  <2> QED
    BY <2>1, <2>2
<1>8. ASSUME NEW v \in Threads, NEW t \in Items(ms[v].waitQ["cv"])
      PROVE  MayWait(t, v, places, joined)
  <2>1. CASE t = c
    BY <2>1, <1>1, <1>4 DEF Waits
  <2>2. CASE t # c
    <3>1. t \in Waits(v) /\ t \in Threads
      BY SMT, <2>2, <1>1, <1>3 DEF Waits
    <3>2. MayWait(t, v, pc, target)
      BY <3>1 DEF PlacesOK, PlacesAt, Waits
    <3> QED
      BY <3>1, <3>2, <2>2, <1>1 DEF MayWait
  <2> QED
    BY <2>1, <2>2
<1>9. cur \notin Items(k.ready)
  BY <1>3 DEF ThreadsAssumption, People
<1>10. ASSUME NEW v \in Threads
       PROVE  cur \notin Items(ms[v].queue) \cup Items(ms[v].waitQ["cv"])
  <2>1. Sound(ms[v], k.ready)
    BY <1>6
  <2>2. Items(ms[v].queue) \subseteq Threads /\ Items(ms[v].waitQ["cv"]) \subseteq Threads
    BY <2>1, SoundTypes
  <2> QED
    BY SMT, <2>2, <1>1, <1>4 DEF ThreadsAssumption, People, Locked, Waits
<1>11. ASSUME NEW t \in Threads
       PROVE  Somewhere(t, cur, k.ready, ms) <=> places[t] \notin Out
  <2>1. CASE t = c
    <3>1. Somewhere(c, cur, k.ready, ms) <=> cur = c \/ c \in People(k)
      BY <1>1, <1>4 DEF Somewhere, People, Locked, Waits, ThreadsAssumption
    <3> QED
      BY <3>1, <2>1, <1>1
  <2>2. CASE t # c
    <3>1. Somewhere(t, c, readyList, mon) <=> pc[t] \notin Out
      BY DEF PlacesOK, PlacesAt
    <3>2. t \in People(k) <=> t \in Items(readyList) \cup Locked(u) \cup Waits(u)
      BY <2>2, <1>2
    <3>3. Somewhere(t, cur, k.ready, ms) <=> Somewhere(t, c, readyList, mon)
      BY SMT, <3>2, <2>2, <1>1 DEF Somewhere, People, Locked, Waits, ThreadsAssumption
    <3> QED
      BY <3>1, <3>3, <2>2, <1>1
  <2> QED
    BY <2>1, <2>2
<1>12. \A t \in Threads : t = cur => places[t] # "forked"
  BY <1>1 DEF ThreadsAssumption
<1>13. ASSUME NEW t \in Threads, t = finished PROVE places[t] = "dead"
  <2>1. Somewhere(c, c, readyList, mon) /\ pc[c] \notin Out
    BY DEF PlacesOK, PlacesAt, Somewhere
  <2>2. t = threadToBeDestroyed => pc[t] = "dead"
    BY DEF PlacesOK, PlacesAt
  <2> QED
    BY <1>13, <2>1, <2>2, <1>1 DEF Out
<1>14. ASSUME NEW t \in Threads, places[t] \in JoinPlaces PROVE joined[t] \in Threads
  BY <1>14, <1>1 DEF PlacesOK, PlacesAt
<1>15. PlacesAt(cur, k.ready, ms, places, joined, finished)
  BY <1>6, <1>7, <1>8, <1>9, <1>10, <1>11, <1>12, <1>13, <1>14 DEF PlacesAt
<1> QED
  BY <1>15 DEF ms, places

(* The places of the other threads only change as Run changes them.        *)
OthersStay(places) ==
    \A t \in Threads :
        \/ pc'[t] = places[t]
        \/ places[t] = "forked" /\ pc'[t] = "run"
        \/ places[t] = "dead" /\ pc'[t] = "deleted"

(* Scheduler::Run gives the processor to a thread of the ready list.       *)
LEMMA DispatchOK ==
    ASSUME ThreadsAssumption, NEW ms, NEW places \in [Threads -> Places], NEW joined,
           NEW finished, NEW before,
           PlacesAt(NULL, before, ms, places, joined, finished),
           NEW next \in Threads, NEW ready \in Queues, Sorted(ready), NoDuplicates(ready),
           next \notin Items(ready), Items(before) = Items(ready) \cup {next},
           Run(next, places, finished)
    PROVE  /\ PlacesAt(next, ready, ms, pc', joined, threadToBeDestroyed')
           /\ pc' \in [Threads -> Places]
           /\ OthersStay(places)
<1>1. Somewhere(next, NULL, before, ms) /\ places[next] \notin Out
  BY DEF PlacesAt, Somewhere
<1>2. \A t \in Threads :
         \/ pc'[t] = places[t] /\ (t = next => pc'[t] # "forked")
         \/ places[t] = "forked" /\ pc'[t] = "run"
         \/ places[t] = "dead" /\ pc'[t] = "deleted" /\ t # next
  BY SMT, <1>1 DEF Run, PlacesAt, Out
<1>3. pc' \in [Threads -> Places]
  BY DEF Run, Places
<1>4. ASSUME NEW u \in Threads
      PROVE  /\ Sound(ms[u], ready)
             /\ \A t \in Items(ms[u].queue) : t \in Threads /\ MayLock(t, u, places, joined)
             /\ \A t \in Items(ms[u].waitQ["cv"]) : t \in Threads /\ MayWait(t, u, places, joined)
             /\ next \notin Items(ms[u].queue) \cup Items(ms[u].waitQ["cv"])
  <2>1. Sound(ms[u], before)
    BY DEF PlacesAt
  <2>2. next \notin Items(ms[u].queue) \cup Items(ms[u].waitQ["cv"])
    BY <2>1 DEF Sound
  <2>3. Sound(ms[u], ready)
    BY <2>1 DEF Sound
  <2> QED
    BY <2>1, <2>2, <2>3, SoundTypes DEF PlacesAt
<1>5. ASSUME NEW u \in Threads
      PROVE  /\ \A t \in Items(ms[u].queue) : MayLock(t, u, pc', joined)
             /\ \A t \in Items(ms[u].waitQ["cv"]) : MayWait(t, u, pc', joined)
  BY SMT, <1>2, <1>4 DEF MayLock, MayWait, FinishPlaces
<1>6. ASSUME NEW t \in Threads
      PROVE  Somewhere(t, next, ready, ms) <=> pc'[t] \notin Out
  <2>1. Somewhere(t, NULL, before, ms) <=> places[t] \notin Out
    BY DEF PlacesAt
  <2>2. Somewhere(t, NULL, before, ms) <=> Somewhere(t, next, ready, ms)
    BY DEF Somewhere, ThreadsAssumption
  <2>3. pc'[t] \in Out <=> places[t] \in Out
    BY <1>2 DEF Out
  <2> QED
    BY <2>1, <2>2, <2>3
<1>7. \A t \in Threads : t = next => pc'[t] # "forked"
  BY <1>2
<1>8. ASSUME NEW t \in Threads, t = threadToBeDestroyed' PROVE pc'[t] = "dead"
  <2>1. t = finished /\ places[next] = "forked" /\ pc' = [places EXCEPT ![next] = "run"]
    BY <1>8 DEF Run, ThreadsAssumption
  <2>2. places[t] = "dead"
    BY <2>1 DEF PlacesAt
  <2> QED
    BY <2>1, <2>2
<1>9. ASSUME NEW t \in Threads, pc'[t] \in JoinPlaces PROVE joined[t] \in Threads
  <2>1. places[t] \in JoinPlaces
    BY <1>9, <1>2 DEF JoinPlaces
  <2> QED
    BY <2>1 DEF PlacesAt
<1>10. PlacesAt(next, ready, ms, pc', joined, threadToBeDestroyed')
  BY <1>4, <1>5, <1>6, <1>7, <1>8, <1>9 DEF PlacesAt
<1> QED
  BY <1>2, <1>3, <1>10 DEF OthersStay

(* Thread::Sleep, from the moment when nobody is running.                  *)
LEMMA SleepOK ==
    ASSUME ThreadsAssumption, NEW ready, NEW places \in [Threads -> Places],
           NEW finished \in Threads \cup {NULL},
           PlacesAt(NULL, ready, mon', places, target', finished),
           Sleep(ready, places, finished)
    PROVE  /\ PlacesOK'
           /\ currentThread' \in Threads \cup {NULL}
           /\ readyList' \in Queues /\ Sorted(readyList')
           /\ threadToBeDestroyed' \in Threads \cup {NULL}
           /\ pc' \in [Threads -> Places]
           /\ OthersStay(places)
<1>1. ready \in Queues /\ Sorted(ready) /\ NoDuplicates(ready)
  BY DEF PlacesAt, Sound, ThreadsAssumption
<1>2. CASE ready # <<>> /\ readyList' = Rest(ready) /\ Run(Head(ready).item, places, finished)
  <2> DEFINE next == Head(ready).item
  <2>1. /\ next \in Threads /\ Items(ready) = Items(Rest(ready)) \cup {next}
        /\ next \notin Items(Rest(ready))
        /\ Rest(ready) \in Queues /\ NoDuplicates(Rest(ready))
    BY <1>1, <1>2, RestOK
  <2>2. Sorted(Rest(ready))
    BY <1>1, <1>2, RestProperties DEF Queues
  <2> HIDE DEF next
  <2>3. Run(next, places, finished)
    BY <1>2 DEF next
  <2>4. /\ PlacesAt(next, Rest(ready), mon', pc', target', threadToBeDestroyed')
        /\ pc' \in [Threads -> Places]
        /\ OthersStay(places)
    BY <1>1, <2>1, <2>2, <2>3, DispatchOK
  <2>5. currentThread' = next /\ threadToBeDestroyed' \in {finished, NULL}
    BY <2>3 DEF Run
  <2> QED
    BY <1>2, <2>1, <2>2, <2>4, <2>5 DEF PlacesOK
<1>3. CASE /\ ready = <<>> /\ readyList' = <<>> /\ currentThread' = NULL
           /\ pc' = places /\ threadToBeDestroyed' = finished
  BY <1>1, <1>3 DEF PlacesOK, OthersStay
<1> QED
  BY <1>2, <1>3 DEF Sleep

-----------------------------------------------------------------------------
(* The part of TypeOK that the scheduler's steps change.                   *)
SchedulerTypes ==
    /\ currentThread \in Threads \cup {NULL}
    /\ readyList \in Queues /\ Sorted(readyList)
    /\ threadToBeDestroyed \in Threads \cup {NULL}
    /\ mon \in [Threads -> Monitors]
    /\ pc \in [Threads -> Places]

(* The running thread is on no list.                                       *)
LEMMA KernelOK ==
    ASSUME PlacesOK, NEW u \in Threads
    PROVE  /\ Sound(Kernel(u).mon, Kernel(u).ready)
           /\ currentThread \notin People(Kernel(u))
           /\ Kernel(u) = [mon |-> Kernel(u).mon, ready |-> Kernel(u).ready]
           /\ Kernel(u).mon = mon[u] /\ Kernel(u).ready = readyList
<1>1. /\ Kernel(u).mon = mon[u] /\ Kernel(u).ready = readyList
      /\ Kernel(u) = [mon |-> Kernel(u).mon, ready |-> Kernel(u).ready]
  BY DEF Kernel
<1>2. Sound(mon[u], readyList)
  BY DEF PlacesOK, PlacesAt
<1>3. currentThread \notin People(Kernel(u))
  BY <1>1 DEF PlacesOK, PlacesAt, People
<1> QED
  BY <1>1, <1>2, <1>3

(* The running thread falls asleep on the monitor of u.                    *)
LEMMA SleepAtOK ==
    ASSUME ThreadsAssumption, TypeOK, PlacesOK, currentThread \in Threads,
           NEW u \in Threads, NEW k, FallsAsleep(Kernel(u), k, currentThread),
           NEW place \in Places \ Out,
           target' \in [Threads -> Threads \cup {NULL}],
           \A t \in Threads \ {currentThread} : target'[t] = target[t],
           currentThread \in Items(k.mon.queue)
               => MayLock(currentThread, u, [pc EXCEPT ![currentThread] = place], target'),
           currentThread \in Items(k.mon.waitQ["cv"])
               => MayWait(currentThread, u, [pc EXCEPT ![currentThread] = place], target'),
           place \in JoinPlaces => target'[currentThread] \in Threads,
           SleepAt(u, k, place)
    PROVE  /\ PlacesOK'
           /\ SchedulerTypes'
           /\ OthersStay([pc EXCEPT ![currentThread] = place])
<1> DEFINE c == currentThread
           ms == [mon EXCEPT ![u] = k.mon]
           places == [pc EXCEPT ![c] = place]
<1>1. /\ Sound(k.mon, k.ready) /\ c \in People(k) /\ People(k) \ {c} = People(Kernel(u))
      /\ Items(k.mon.queue) \subseteq Locked(u) \cup {c}
      /\ Items(k.mon.waitQ["cv"]) \subseteq Waits(u) \cup {c}
  BY KernelOK DEF FallsAsleep, Locked, Waits
<1>2. NULL # c
  BY DEF ThreadsAssumption
<1>3. PlacesAt(NULL, k.ready, ms, places, target', threadToBeDestroyed)
  <2>1. Leaves(u, k, place, target', NULL, threadToBeDestroyed)
    BY <1>1, <1>2 DEF Leaves
  <2> QED
    BY <2>1, LeaveOK
<1>4. /\ mon' = ms /\ Sleep(k.ready, places, threadToBeDestroyed)
  BY DEF SleepAt
<1>5. places \in [Threads -> Places] /\ threadToBeDestroyed \in Threads \cup {NULL}
  BY DEF TypeOK
<1>6. mon' \in [Threads -> Monitors]
  BY <1>1, <1>4 DEF TypeOK, Sound
<1>7. PlacesAt(NULL, k.ready, mon', places, target', threadToBeDestroyed)
  BY <1>3, <1>4
<1> HIDE DEF ms, places
<1>8. /\ PlacesOK'
      /\ currentThread' \in Threads \cup {NULL}
      /\ readyList' \in Queues /\ Sorted(readyList')
      /\ threadToBeDestroyed' \in Threads \cup {NULL}
      /\ pc' \in [Threads -> Places]
      /\ OthersStay(places)
  BY <1>4, <1>5, <1>7, SleepOK
<1> QED
  BY <1>6, <1>8 DEF SchedulerTypes, places

(* The running thread goes on after a change of the monitor of u.          *)
LEMMA GoOnAtOK ==
    ASSUME ThreadsAssumption, TypeOK, PlacesOK, currentThread \in Threads,
           NEW u \in Threads, NEW k, Frees(Kernel(u), k),
           NEW place \in Places \ (Out \cup {"forked"}),
           target' \in [Threads -> Threads \cup {NULL}],
           \A t \in Threads \ {currentThread} : target'[t] = target[t],
           place \in JoinPlaces => target'[currentThread] \in Threads,
           GoOnAt(u, k, place)
    PROVE  /\ PlacesOK'
           /\ SchedulerTypes'
           /\ OthersStay([pc EXCEPT ![currentThread] = place])
<1> DEFINE c == currentThread
           ms == [mon EXCEPT ![u] = k.mon]
           places == [pc EXCEPT ![c] = place]
<1>1. /\ Sound(k.mon, k.ready) /\ c \notin People(k) /\ People(k) \ {c} = People(Kernel(u))
      /\ Items(k.mon.queue) \subseteq Locked(u) \cup {c}
      /\ Items(k.mon.waitQ["cv"]) \subseteq Waits(u) \cup {c}
      /\ c \notin Items(k.mon.queue) /\ c \notin Items(k.mon.waitQ["cv"])
  BY KernelOK DEF Frees, Locked, Waits, People
<1>2. PlacesAt(c, k.ready, ms, places, target', threadToBeDestroyed)
  <2>1. Leaves(u, k, place, target', c, threadToBeDestroyed)
    BY <1>1 DEF Leaves
  <2> QED
    BY <2>1, LeaveOK
<1>3. /\ mon' = ms /\ readyList' = k.ready /\ pc' = places
      /\ currentThread' = c /\ threadToBeDestroyed' = threadToBeDestroyed
  BY DEF GoOnAt
<1>4. PlacesOK'
  BY <1>2, <1>3 DEF PlacesOK
<1>5. /\ places \in [Threads -> Places] /\ ms \in [Threads -> Monitors]
      /\ threadToBeDestroyed \in Threads \cup {NULL}
  BY <1>1 DEF TypeOK, Sound
<1>6. SchedulerTypes'
  BY <1>1, <1>3, <1>5 DEF SchedulerTypes, Sound
<1> QED
  BY <1>3, <1>4, <1>6 DEF OthersStay

-----------------------------------------------------------------------------
(* Wake-ups add up.                                                        *)
LEMMA FreesTransitive ==
    ASSUME NEW k1, NEW k2, NEW k3, Frees(k1, k2), Frees(k2, k3)
    PROVE  Frees(k1, k3)
BY DEF Frees

LEMMA FreesThenSleeps ==
    ASSUME NEW k1, NEW k2, NEW k3, NEW t, Frees(k1, k2), FallsAsleep(k2, k3, t)
    PROVE  FallsAsleep(k1, k3, t)
BY DEF Frees, FallsAsleep

(* The variables that a step of the scheduler leaves alone keep their      *)
(* types.                                                                  *)
LEMMA TypesOK ==
    ASSUME TypeOK, SchedulerTypes', UNCHANGED <<priority, join, isForked, creator>>,
           readyToJoin' \in [Threads -> {0, 1}],
           target' \in [Threads -> Threads \cup {NULL}]
    PROVE  TypeOK'
BY DEF TypeOK, SchedulerTypes, Queues, ElementsOf

LEMMA NewOK ==
    ASSUME ThreadsAssumption, TypeOK, PlacesOK, NEW u \in Threads,
           NEW Pjoin \in {0, 1}, NEW garbage \in {0, 1}, New(u, Pjoin, garbage)
    PROVE  TypeOK' /\ PlacesOK'
<1>1. /\ pc[u] = "none" /\ pc' = [pc EXCEPT ![u] = "created"]
      /\ UNCHANGED <<currentThread, readyList, threadToBeDestroyed, mon, target>>
      /\ currentThread \in Threads
  BY DEF New, At, TypeOK
<1>2. TypeOK'
  BY <1>1 DEF New, TypeOK, Places
<1>3. ASSUME NEW v \in Threads
      PROVE  /\ \A t \in Locked(v) : MayLock(t, v, pc', target)
             /\ \A t \in Waits(v) : MayWait(t, v, pc', target)
  <2>1. Locked(v) \subseteq Threads /\ Waits(v) \subseteq Threads
    BY SoundTypes DEF PlacesOK, PlacesAt, Locked, Waits
  <2>2. \A t \in Threads : t # u => pc'[t] = pc[t]
    BY <1>1 DEF TypeOK
  <2> QED
    BY SMT, <1>1, <2>1, <2>2 DEF PlacesOK, PlacesAt, Locked, Waits, MayLock, MayWait, FinishPlaces
<1>4. \A t \in Threads : (pc'[t] \in Out <=> pc[t] \in Out)
                         /\ (pc'[t] # pc[t] => pc[t] = "none" /\ pc'[t] = "created")
  BY <1>1 DEF TypeOK, Out
<1>5. PlacesAt(currentThread, readyList, mon, pc', target, threadToBeDestroyed)
  BY SMT, <1>3, <1>4 DEF PlacesOK, PlacesAt, Locked, Waits, JoinPlaces
<1> QED
  BY <1>1, <1>2, <1>5 DEF PlacesOK

LEMMA ForkOK ==
    ASSUME ThreadsAssumption, TypeOK, PlacesOK, NEW u \in Threads, Fork(u)
    PROVE  TypeOK' /\ PlacesOK'
<1>1. /\ pc[u] = "created" /\ pc' = [pc EXCEPT ![u] = "forked"]
      /\ readyList' = ReadyToRun(readyList, u)
      /\ UNCHANGED <<currentThread, threadToBeDestroyed, mon, target>>
      /\ currentThread \in Threads /\ pc[currentThread] = "run"
  BY DEF Fork, At, TypeOK
<1>2. /\ u # currentThread /\ u \notin Items(readyList)
      /\ \A v \in Threads : u \notin Locked(v) \cup Waits(v)
  BY <1>1 DEF PlacesOK, PlacesAt, Somewhere, Out, Locked, Waits
<1>3. /\ readyList' \in Queues /\ Sorted(readyList') /\ NoDuplicates(readyList')
      /\ Items(readyList') = Items(readyList) \cup {u}
  BY <1>1, <1>2, ReadyToRunOK DEF PlacesOK, PlacesAt, Sound
<1>4. TypeOK'
  BY <1>1, <1>3 DEF Fork, TypeOK, Places, Queues, ElementsOf
<1>5. /\ pc'[u] = "forked" /\ \A t \in Threads : t # u => pc'[t] = pc[t]
  BY <1>1 DEF TypeOK
<1>6. ASSUME NEW v \in Threads
      PROVE  /\ Sound(mon[v], readyList')
             /\ \A t \in Locked(v) : MayLock(t, v, pc', target)
             /\ \A t \in Waits(v) : MayWait(t, v, pc', target)
  <2>1. Sound(mon[v], readyList) /\ Locked(v) \subseteq Threads /\ Waits(v) \subseteq Threads
    BY SoundTypes DEF PlacesOK, PlacesAt, Locked, Waits
  <2>2. Sound(mon[v], readyList')
    BY <1>2, <1>3, <2>1 DEF Sound, Locked, Waits
  <2> QED
    BY SMT, <1>2, <1>5, <2>1, <2>2 DEF PlacesOK, PlacesAt, Locked, Waits, MayLock, MayWait
<1>7. ASSUME NEW t \in Threads
      PROVE  Somewhere(t, currentThread, readyList', mon) <=> pc'[t] \notin Out
  BY <1>3, <1>5 DEF PlacesOK, PlacesAt, Somewhere, Out
<1>8. /\ currentThread \notin Items(readyList')
      /\ \A v \in Threads : currentThread \notin Locked(v) \cup Waits(v)
  BY <1>2, <1>3 DEF PlacesOK, PlacesAt, Locked, Waits
<1>9. ASSUME NEW t \in Threads
      PROVE  /\ t = currentThread => pc'[t] # "forked"
             /\ t = threadToBeDestroyed => pc'[t] = "dead"
             /\ pc'[t] \in JoinPlaces => target[t] \in Threads
  BY <1>1, <1>2, <1>5 DEF PlacesOK, PlacesAt, JoinPlaces
<1>10. PlacesAt(currentThread, readyList', mon, pc', target, threadToBeDestroyed)
  BY <1>6, <1>7, <1>8, <1>9 DEF PlacesAt, Locked, Waits
<1> QED
  BY <1>1, <1>4, <1>10 DEF PlacesOK

LEMMA setPriorityOK ==
    ASSUME ThreadsAssumption, TypeOK, PlacesOK, NEW u \in Threads, NEW p \in Priorities,
           setPriority(u, p)
    PROVE  TypeOK' /\ PlacesOK'
<1>1. TypeOK'
  BY DEF setPriority, TypeOK
<1>2. UNCHANGED <<currentThread, readyList, mon, pc, target, threadToBeDestroyed>>
  BY DEF setPriority
<1> QED
  BY <1>1, <1>2 DEF PlacesOK

LEMMA YieldOK ==
    ASSUME ThreadsAssumption, TypeOK, PlacesOK, Yield
    PROVE  TypeOK' /\ PlacesOK' /\ OthersStay(pc)
<1> DEFINE c == currentThread
           next == Head(readyList).item
           rest == Rest(readyList)
           before == ReadyToRun(readyList, c)
           k == [mon |-> mon[c], ready |-> before]
<1>1. /\ c \in Threads /\ readyList # <<>> /\ readyList' = ReadyToRun(rest, c)
      /\ pc[c] \in {"run", "joinHeld", "joinWoken", "joinHeldAgain"}
      /\ Run(next, pc, threadToBeDestroyed)
      /\ UNCHANGED <<priority, join, readyToJoin, isForked, mon, target, creator>>
  BY DEF Yield, At, TypeOK
<1>2. /\ readyList \in Queues /\ Sorted(readyList) /\ NoDuplicates(readyList)
      /\ c \notin Items(readyList) /\ Sound(mon[c], readyList)
      /\ c \notin Locked(c) \cup Waits(c)
  BY <1>1 DEF PlacesOK, PlacesAt, Sound, Locked, Waits
<1>3. /\ next \in Threads /\ rest \in Queues /\ NoDuplicates(rest)
      /\ Items(readyList) = Items(rest) \cup {next} /\ next \notin Items(rest)
  BY <1>1, <1>2, RestOK
<1>4. Sorted(rest)
  BY <1>1, <1>2, RestProperties DEF Queues
<1>5. /\ before \in Queues /\ Sorted(before) /\ NoDuplicates(before)
      /\ Items(before) = Items(readyList) \cup {c}
  BY <1>1, <1>2, ReadyToRunOK
<1>6. /\ readyList' \in Queues /\ Sorted(readyList') /\ NoDuplicates(readyList')
      /\ Items(readyList') = Items(rest) \cup {c}
  BY <1>1, <1>2, <1>3, <1>4, ReadyToRunOK
<1>7. k.mon = mon[c] /\ k.ready = before
  OBVIOUS
<1>8. [mon EXCEPT ![c] = k.mon] = mon /\ [pc EXCEPT ![c] = pc[c]] = pc
  BY <1>1 DEF TypeOK
<1> HIDE DEF next, rest, before, k
<1>9. Sound(k.mon, k.ready)
  BY <1>2, <1>5, <1>7 DEF Sound, Locked, Waits
<1>10. Leaves(c, k, pc[c], target, NULL, threadToBeDestroyed)
  <2>1. /\ People(k) = People(Kernel(c)) \cup {c} /\ c \notin People(Kernel(c))
        /\ Items(k.mon.queue) = Locked(c) /\ Items(k.mon.waitQ["cv"]) = Waits(c)
    BY <1>1, <1>5, <1>7, KernelOK DEF People, Locked, Waits
  <2>2. pc[c] \in JoinPlaces => target[c] \in Threads
    BY <1>1 DEF PlacesOK, PlacesAt
  <2> QED
    BY <1>1, <1>2, <1>9, <2>1, <2>2 DEF Leaves, Out, ThreadsAssumption
<1>11. PlacesAt(NULL, before, mon, pc, target, threadToBeDestroyed)
  BY SMT, <1>1, <1>7, <1>8, <1>10, LeaveOK
<1>12. next \notin Items(readyList') /\ Items(before) = Items(readyList') \cup {next}
  BY <1>2, <1>3, <1>5, <1>6
<1>13. pc \in [Threads -> Places]
  BY DEF TypeOK
<1>14. /\ PlacesAt(next, readyList', mon, pc', target, threadToBeDestroyed')
       /\ pc' \in [Threads -> Places]
       /\ OthersStay(pc)
  BY <1>1, <1>3, <1>6, <1>11, <1>12, <1>13, DispatchOK
<1>15. currentThread' = next /\ threadToBeDestroyed' \in {threadToBeDestroyed, NULL}
  BY <1>1 DEF Run
<1>16. PlacesOK'
  BY <1>1, <1>14, <1>15 DEF PlacesOK
<1>17. SchedulerTypes'
  BY <1>1, <1>3, <1>6, <1>14, <1>15 DEF SchedulerTypes, TypeOK
<1>18. TypeOK'
  BY <1>1, <1>17, TypesOK DEF TypeOK
<1> QED
  BY <1>14, <1>16, <1>18

-----------------------------------------------------------------------------
(* Thread::Join, step by step.                                             *)

LEMMA JoinAcquireOK ==
    ASSUME ThreadsAssumption, TypeOK, PlacesOK, NEW u \in Threads, JoinAcquire(u)
    PROVE  /\ TypeOK' /\ PlacesOK'
           /\ \E place \in {"joinAcquire", "joinHeld"} :
                 OthersStay([pc EXCEPT ![currentThread] = place])
<1> DEFINE c == currentThread
           k == KAcquire(Kernel(u), c)
<1>1. /\ c \in Threads /\ target' = [target EXCEPT ![c] = u]
      /\ UNCHANGED <<priority, join, readyToJoin, isForked, creator>>
  BY DEF JoinAcquire, At, TypeOK
<1>2. /\ target' \in [Threads -> Threads \cup {NULL}] /\ target'[c] = u
      /\ \A t \in Threads \ {c} : target'[t] = target[t]
  BY <1>1 DEF TypeOK
<1>3. /\ Sound(Kernel(u).mon, Kernel(u).ready) /\ c \notin People(Kernel(u))
      /\ Kernel(u) = [mon |-> Kernel(u).mon, ready |-> Kernel(u).ready]
      /\ Kernel(u).mon = mon[u]
  BY KernelOK
<1>4. CASE mon[u].locked = 1 /\ SleepAt(u, k, "joinAcquire")
  <2> DEFINE places == [pc EXCEPT ![c] = "joinAcquire"]
  <2>1. /\ FallsAsleep(Kernel(u), k, c)
        /\ k.mon.waitQ = mon[u].waitQ
    BY SMT, <1>1, <1>3, <1>4, AcquireTakenOK
  <2>2. c \notin Items(k.mon.waitQ["cv"])
    BY <1>3, <2>1 DEF People
  <2>3. MayLock(c, u, places, target')
    BY <1>1, <1>2 DEF MayLock, TypeOK
  <2>4. "joinAcquire" \in Places \ Out
    BY DEF Places, JoinPlaces, Out
  <2> HIDE DEF k
  <2>5. PlacesOK' /\ SchedulerTypes' /\ OthersStay(places)
    <3>1. /\ c \in Items(k.mon.queue) => MayLock(c, u, places, target')
          /\ c \in Items(k.mon.waitQ["cv"]) => MayWait(c, u, places, target')
          /\ "joinAcquire" \in JoinPlaces => target'[c] \in Threads
      BY <1>2, <2>2, <2>3
    <3> QED
      BY <1>1, <1>2, <1>4, <2>1, <2>4, <3>1, SleepAtOK
  <2> QED
    BY <1>1, <1>2, <2>5, TypesOK DEF TypeOK
<1>5. CASE mon[u].locked = 0 /\ GoOnAt(u, k, "joinHeld")
  <2> DEFINE places == [pc EXCEPT ![c] = "joinHeld"]
  <2>1. Frees(Kernel(u), k)
    BY <1>1, <1>3, <1>5, AcquireFreeOK
  <2>2. "joinHeld" \in Places \ (Out \cup {"forked"})
    BY DEF Places, JoinPlaces, Out
  <2> HIDE DEF k
  <2>3. PlacesOK' /\ SchedulerTypes' /\ OthersStay(places)
    BY <1>1, <1>2, <1>5, <2>1, <2>2, GoOnAtOK
  <2> QED
    BY <1>1, <1>2, <2>3, TypesOK DEF TypeOK
<1> QED
  BY <1>4, <1>5 DEF JoinAcquire

LEMMA JoinWaitsOK ==
    ASSUME ThreadsAssumption, TypeOK, PlacesOK, JoinWaits
    PROVE  /\ TypeOK' /\ PlacesOK'
           /\ OthersStay([pc EXCEPT ![currentThread] = "joinWoken"])
<1> DEFINE c == currentThread
           u == target[c]
           k1 == KSignal(Kernel(u))
           k == KWait(k1, c)
           places == [pc EXCEPT ![c] = "joinWoken"]
<1>1. /\ c \in Threads /\ pc[c] = "joinHeld"
      /\ readyToJoin' = [readyToJoin EXCEPT ![u] = 1]
      /\ SleepAt(u, k, "joinWoken")
      /\ UNCHANGED <<priority, join, isForked, target, creator>>
  BY DEF JoinWaits, At, TypeOK
<1>2. u \in Threads
  BY <1>1 DEF PlacesOK, PlacesAt, JoinPlaces
<1>3. Sound(Kernel(u).mon, Kernel(u).ready) /\ c \notin People(Kernel(u))
  BY <1>2, KernelOK
<1>4. Frees(Kernel(u), k1)
  BY <1>3, SignalOK
<1>5. Sound(k1.mon, k1.ready) /\ c \notin People(k1)
  BY <1>3, <1>4 DEF Frees
<1> HIDE DEF k1
<1>6. FallsAsleep(k1, k, c) /\ k.mon.queue = Rest(k1.mon.queue)
  BY <1>1, <1>5, WaitOK
<1>7. FallsAsleep(Kernel(u), k, c)
  BY <1>4, <1>6, FreesThenSleeps
<1>8. c \notin Items(k.mon.queue)
  <2>1. k1.mon.queue \in Queues /\ NoDuplicates(k1.mon.queue) /\ c \notin Items(k1.mon.queue)
    BY <1>5, SoundTypes DEF People, Sound
  <2> QED
    BY SMT, <1>6, <2>1, RestOK
<1>9. MayWait(c, u, places, target')
  BY <1>1 DEF MayWait, TypeOK
<1>10. "joinWoken" \in Places \ Out
  BY DEF Places, JoinPlaces, Out
<1>11. /\ target' \in [Threads -> Threads \cup {NULL}] /\ target'[c] = u
       /\ \A t \in Threads \ {c} : target'[t] = target[t]
  BY <1>1 DEF TypeOK
<1> HIDE DEF k
<1>12. PlacesOK' /\ SchedulerTypes' /\ OthersStay(places)
  BY <1>1, <1>2, <1>7, <1>8, <1>9, <1>10, <1>11, SleepAtOK
<1>13. readyToJoin' \in [Threads -> {0, 1}]
  BY <1>1, <1>2 DEF TypeOK
<1> QED
  BY <1>1, <1>11, <1>12, <1>13, TypesOK

LEMMA JoinReacquireOK ==
    ASSUME ThreadsAssumption, TypeOK, PlacesOK, JoinReacquire
    PROVE  /\ TypeOK' /\ PlacesOK'
           /\ \E place \in {"joinReacquire", "joinHeldAgain"} :
                 OthersStay([pc EXCEPT ![currentThread] = place])
<1> DEFINE c == currentThread
           u == target[c]
           k == KAcquire(Kernel(u), c)
<1>1. /\ c \in Threads /\ pc[c] \in {"joinWoken", "joinReacquire"}
      /\ UNCHANGED <<priority, join, readyToJoin, isForked, target, creator>>
  BY DEF JoinReacquire, At, TypeOK
<1>2. u \in Threads
  BY <1>1 DEF PlacesOK, PlacesAt, JoinPlaces
<1>3. /\ target' \in [Threads -> Threads \cup {NULL}] /\ target'[c] = u
      /\ \A t \in Threads \ {c} : target'[t] = target[t]
      /\ readyToJoin' \in [Threads -> {0, 1}]
  BY <1>1 DEF TypeOK
<1>4. /\ Sound(Kernel(u).mon, Kernel(u).ready) /\ c \notin People(Kernel(u))
      /\ Kernel(u) = [mon |-> Kernel(u).mon, ready |-> Kernel(u).ready]
      /\ Kernel(u).mon = mon[u]
  BY <1>2, KernelOK
<1>5. CASE mon[u].locked = 1 /\ SleepAt(u, k, "joinReacquire")
  <2> DEFINE places == [pc EXCEPT ![c] = "joinReacquire"]
  <2>1. /\ FallsAsleep(Kernel(u), k, c)
        /\ k.mon.waitQ = mon[u].waitQ
    BY SMT, <1>1, <1>2, <1>4, <1>5, AcquireTakenOK
  <2>2. c \notin Items(k.mon.waitQ["cv"])
    BY <1>4, <2>1 DEF People
  <2>3. MayLock(c, u, places, target')
    BY <1>1, <1>3 DEF MayLock, TypeOK
  <2>4. "joinReacquire" \in Places \ Out
    BY DEF Places, JoinPlaces, Out
  <2> HIDE DEF k
  <2>5. PlacesOK' /\ SchedulerTypes' /\ OthersStay(places)
    <3>1. /\ c \in Items(k.mon.queue) => MayLock(c, u, places, target')
          /\ c \in Items(k.mon.waitQ["cv"]) => MayWait(c, u, places, target')
          /\ "joinReacquire" \in JoinPlaces => target'[c] \in Threads
      BY <1>2, <1>3, <2>2, <2>3
    <3> QED
      BY <1>1, <1>2, <1>3, <1>5, <2>1, <2>4, <3>1, SleepAtOK
  <2> QED
    BY <1>1, <1>3, <2>5, TypesOK
<1>6. CASE mon[u].locked = 0 /\ GoOnAt(u, k, "joinHeldAgain")
  <2> DEFINE places == [pc EXCEPT ![c] = "joinHeldAgain"]
  <2>1. Frees(Kernel(u), k)
    BY <1>1, <1>2, <1>4, <1>6, AcquireFreeOK
  <2>2. "joinHeldAgain" \in Places \ (Out \cup {"forked"})
    BY DEF Places, JoinPlaces, Out
  <2> HIDE DEF k
  <2>3. PlacesOK' /\ SchedulerTypes' /\ OthersStay(places)
    BY <1>1, <1>2, <1>3, <1>6, <2>1, <2>2, GoOnAtOK
  <2> QED
    BY <1>1, <1>3, <2>3, TypesOK
<1> QED
  BY <1>5, <1>6 DEF JoinReacquire

LEMMA JoinReturnsOK ==
    ASSUME ThreadsAssumption, TypeOK, PlacesOK, JoinReturns
    PROVE  /\ TypeOK' /\ PlacesOK'
           /\ OthersStay([pc EXCEPT ![currentThread] = "run"])
<1> DEFINE c == currentThread
           u == target[c]
           k1 == KSignal(Kernel(u))
           k == KRelease(k1)
           places == [pc EXCEPT ![c] = "run"]
<1>1. /\ c \in Threads /\ pc[c] = "joinHeldAgain"
      /\ GoOnAt(u, k, "run")
      /\ target' = [target EXCEPT ![c] = NULL]
      /\ UNCHANGED <<priority, join, readyToJoin, isForked, creator>>
  BY DEF JoinReturns, At, TypeOK
<1>2. u \in Threads
  BY <1>1 DEF PlacesOK, PlacesAt, JoinPlaces
<1>3. Sound(Kernel(u).mon, Kernel(u).ready)
  BY <1>2, KernelOK
<1>4. Frees(Kernel(u), k1)
  BY <1>3, SignalOK
<1>5. Sound(k1.mon, k1.ready)
  BY <1>4 DEF Frees
<1> HIDE DEF k1
<1>6. Frees(k1, k)
  BY <1>5, ReleaseOK
<1>7. Frees(Kernel(u), k)
  BY <1>4, <1>6, FreesTransitive
<1>8. "run" \in Places \ (Out \cup {"forked"}) /\ "run" \notin JoinPlaces
  BY DEF Places, JoinPlaces, Out
<1>9. /\ target' \in [Threads -> Threads \cup {NULL}]
      /\ \A t \in Threads \ {c} : target'[t] = target[t]
      /\ readyToJoin' \in [Threads -> {0, 1}]
  BY <1>1 DEF TypeOK
<1> HIDE DEF k
<1>10. PlacesOK' /\ SchedulerTypes' /\ OthersStay(places)
  BY <1>1, <1>2, <1>7, <1>8, <1>9, GoOnAtOK
<1> QED
  BY <1>1, <1>9, <1>10, TypesOK

-----------------------------------------------------------------------------
(* Thread::Finish.                                                         *)

LEMMA FinishBlockedOK ==
    ASSUME ThreadsAssumption, TypeOK, PlacesOK, FinishBlocked
    PROVE  /\ TypeOK' /\ PlacesOK'
           /\ \E place \in FinishPlaces :
                 /\ OthersStay([pc EXCEPT ![currentThread] = place])
                 /\ place = IF pc[currentThread] = "run" THEN "finishAcquire"
                            ELSE pc[currentThread]
<1> DEFINE c == currentThread
           k == KAcquire(Kernel(c), c)
           place == IF pc[c] = "run" THEN "finishAcquire" ELSE pc[c]
           places == [pc EXCEPT ![c] = place]
<1>1. /\ c \in Threads /\ pc[c] \in FinishPlaces \cup {"run"}
      /\ mon[c].locked = 1 /\ SleepAt(c, k, place)
      /\ UNCHANGED <<priority, join, readyToJoin, isForked, target, creator>>
  BY DEF FinishBlocked, TypeOK
<1>2. place \in FinishPlaces
  BY <1>1 DEF FinishPlaces
<1>3. place \in Places \ Out /\ place \notin JoinPlaces
  BY <1>2 DEF Places, FinishPlaces, JoinPlaces, Out
<1>4. /\ Sound(Kernel(c).mon, Kernel(c).ready) /\ c \notin People(Kernel(c))
      /\ Kernel(c) = [mon |-> Kernel(c).mon, ready |-> Kernel(c).ready]
      /\ Kernel(c).mon = mon[c]
  BY <1>1, KernelOK
<1>5. /\ FallsAsleep(Kernel(c), k, c)
      /\ k.mon.waitQ = mon[c].waitQ
  BY SMT, <1>1, <1>4, AcquireTakenOK
<1>6. c \notin Items(k.mon.waitQ["cv"])
  BY <1>4, <1>5 DEF People
<1> HIDE DEF k, place
<1>7. MayLock(c, c, places, target')
  BY <1>1, <1>2 DEF MayLock, TypeOK
<1>8. /\ target' \in [Threads -> Threads \cup {NULL}]
      /\ \A t \in Threads \ {c} : target'[t] = target[t]
      /\ readyToJoin' \in [Threads -> {0, 1}]
  BY <1>1 DEF TypeOK
<1>9. PlacesOK' /\ SchedulerTypes' /\ OthersStay(places)
  <2>1. /\ c \in Items(k.mon.queue) => MayLock(c, c, places, target')
        /\ c \in Items(k.mon.waitQ["cv"]) => MayWait(c, c, places, target')
        /\ place \in JoinPlaces => target'[c] \in Threads
    BY <1>3, <1>6, <1>7
  <2> QED
    BY <1>1, <1>3, <1>5, <1>8, <2>1, SleepAtOK
<1>10. TypeOK'
  BY <1>1, <1>8, <1>9, TypesOK
<1> QED
  BY <1>2, <1>9, <1>10 DEF place

(* The lock taken and the parent or the child woken: the state in which    *)
(* Finish gives up the lock.                                               *)
LEMMA FinishKernelOK ==
    ASSUME ThreadsAssumption, TypeOK, PlacesOK, currentThread \in Threads,
           AtFinishTest(currentThread),
           NEW k, k = KSignal(FinishKernel(currentThread)),
           NEW list, list = mon[currentThread].waitQ["cv"]
    PROVE  /\ Frees(Kernel(currentThread), k)
           /\ Sound(k.mon, k.ready) /\ currentThread \notin People(k)
           /\ k.mon.queue = mon[currentThread].queue
           /\ k.mon.waitQ["cv"] = Rest(list) \/ k.mon.waitQ["cv"] = Rest(Rest(list))
<1> DEFINE c == currentThread
           k1 == KAcquire(Kernel(c), c)
           k2 == FinishKernel(c)
<1>1. mon[c].locked = 0
  BY DEF AtFinishTest
<1>2. /\ Sound(Kernel(c).mon, Kernel(c).ready) /\ c \notin People(Kernel(c))
      /\ Kernel(c) = [mon |-> Kernel(c).mon, ready |-> Kernel(c).ready]
      /\ Kernel(c).mon = mon[c]
  BY KernelOK
<1>3. /\ Frees(Kernel(c), k1)
      /\ k1.mon.queue = mon[c].queue /\ k1.mon.waitQ = mon[c].waitQ
  BY SMT, <1>1, <1>2, AcquireFreeOK
<1>4. Sound(k1.mon, k1.ready)
  BY <1>3 DEF Frees
<1>5. k2 = IF pc[c] = "finishLoop" THEN KSignal(k1) ELSE k1
  BY DEF FinishKernel
<1> HIDE DEF k1, k2
<1>6. /\ Frees(Kernel(c), k2)
      /\ k2.mon.queue = mon[c].queue
      /\ k2.mon.waitQ["cv"] = list \/ k2.mon.waitQ["cv"] = Rest(list)
  <2>1. CASE pc[c] = "finishLoop"
    <3>1. /\ Frees(k1, KSignal(k1))
          /\ KSignal(k1).mon.queue = k1.mon.queue
          /\ KSignal(k1).mon.waitQ["cv"] = Rest(k1.mon.waitQ["cv"])
      BY <1>4, SignalOK
    <3>2. Frees(Kernel(c), KSignal(k1))
      BY <1>3, <3>1, FreesTransitive
    <3> QED
      BY <1>3, <1>5, <2>1, <3>1, <3>2
  <2>2. CASE pc[c] # "finishLoop"
    BY <1>3, <1>5, <2>2
  <2> QED
    BY <2>1, <2>2
<1>7. Sound(k2.mon, k2.ready)
  BY <1>6 DEF Frees
<1>8. k = KSignal(k2)
  BY DEF k2
<1>9. /\ Frees(k2, k) /\ k.mon.queue = k2.mon.queue
      /\ k.mon.waitQ["cv"] = Rest(k2.mon.waitQ["cv"])
  BY <1>7, <1>8, SignalOK
<1>10. Frees(Kernel(c), k)
  BY <1>6, <1>9, FreesTransitive
<1>11. Sound(k.mon, k.ready) /\ c \notin People(k)
  BY <1>2, <1>10 DEF Frees
<1> QED
  BY <1>6, <1>9, <1>10, <1>11

(* Finish waits on its condition, for the call of Join or for permission.  *)
LEMMA FinishSleepsOK ==
    ASSUME ThreadsAssumption, TypeOK, PlacesOK, currentThread \in Threads,
           AtFinishTest(currentThread), NEW place \in {"finishLoop", "finishLast"},
           SleepAt(currentThread, KWait(KSignal(FinishKernel(currentThread)), currentThread), place),
           UNCHANGED <<priority, join, readyToJoin, isForked, target, creator, ops>>
    PROVE  /\ TypeOK' /\ PlacesOK'
           /\ OthersStay([pc EXCEPT ![currentThread] = place])
<1> DEFINE c == currentThread
           k1 == KSignal(FinishKernel(c))
           k == KWait(k1, c)
           places == [pc EXCEPT ![c] = place]
<1>1. Frees(Kernel(c), k1) /\ Sound(k1.mon, k1.ready) /\ c \notin People(k1)
  BY FinishKernelOK
<1>2. SleepAt(c, k, place)
  OBVIOUS
<1> HIDE DEF k1
<1>3. FallsAsleep(k1, k, c) /\ k.mon.queue = Rest(k1.mon.queue)
  BY <1>1, WaitOK
<1>4. FallsAsleep(Kernel(c), k, c)
  BY <1>1, <1>3, FreesThenSleeps
<1>5. c \notin Items(k.mon.queue)
  <2>1. k1.mon.queue \in Queues /\ NoDuplicates(k1.mon.queue) /\ c \notin Items(k1.mon.queue)
    BY <1>1, SoundTypes DEF People, Sound
  <2> QED
    BY SMT, <1>3, <2>1, RestOK
<1>6. MayWait(c, c, places, target')
  BY DEF MayWait, TypeOK
<1>7. place \in Places \ Out /\ place \notin JoinPlaces
  BY DEF Places, JoinPlaces, FinishPlaces, Out
<1>8. /\ target' \in [Threads -> Threads \cup {NULL}]
      /\ \A t \in Threads \ {c} : target'[t] = target[t]
      /\ readyToJoin' \in [Threads -> {0, 1}]
  BY DEF TypeOK
<1> HIDE DEF k
<1>9. PlacesOK' /\ SchedulerTypes' /\ OthersStay(places)
  <2>1. /\ c \in Items(k.mon.queue) => MayLock(c, c, places, target')
        /\ c \in Items(k.mon.waitQ["cv"]) => MayWait(c, c, places, target')
        /\ place \in JoinPlaces => target'[c] \in Threads
    BY <1>5, <1>6, <1>7
  <2> QED
    BY <1>2, <1>4, <1>7, <1>8, <2>1, SleepAtOK
<1>10. TypeOK'
  BY <1>8, <1>9, TypesOK
<1> QED
  BY <1>9, <1>10

LEMMA FinishEndsOK ==
    ASSUME ThreadsAssumption, TypeOK, PlacesOK, FinishEnds
    PROVE  /\ TypeOK' /\ PlacesOK'
           /\ OthersStay([pc EXCEPT ![currentThread] = "dead"])
<1> DEFINE c == currentThread
           k == IF pc[c] = "finishLast" THEN KRelease(KAcquire(Kernel(c), c))
                ELSE KRelease(KSignal(FinishKernel(c)))
           places == [pc EXCEPT ![c] = "dead"]
           ms == [mon EXCEPT ![c] = k.mon]
<1>1. /\ c \in Threads /\ mon[c].locked = 0
      /\ pc[c] = "finishLast" \/ AtFinishTest(c)
      /\ mon' = ms
      /\ Sleep(k.ready, places, c)
      /\ UNCHANGED <<priority, join, readyToJoin, isForked, target, creator>>
  BY DEF FinishEnds, TypeOK
<1>2. /\ Sound(Kernel(c).mon, Kernel(c).ready) /\ c \notin People(Kernel(c))
      /\ Kernel(c) = [mon |-> Kernel(c).mon, ready |-> Kernel(c).ready]
      /\ Kernel(c).mon = mon[c]
  BY <1>1, KernelOK
<1>3. Frees(Kernel(c), k)
  <2>1. CASE pc[c] = "finishLast"
    <3> DEFINE k1 == KAcquire(Kernel(c), c)
    <3>1. Frees(Kernel(c), k1)
      BY <1>1, <1>2, AcquireFreeOK
    <3>2. Sound(k1.mon, k1.ready)
      BY <3>1 DEF Frees
    <3>3. k = KRelease(k1)
      BY <2>1
    <3> HIDE DEF k1, k
    <3>4. Frees(k1, k)
      BY <3>2, <3>3, ReleaseOK
    <3> QED
      BY <3>1, <3>4, FreesTransitive
  <2>2. CASE pc[c] # "finishLast"
    <3> DEFINE k1 == KSignal(FinishKernel(c))
    <3>1. Frees(Kernel(c), k1) /\ Sound(k1.mon, k1.ready)
      BY <1>1, <2>2, FinishKernelOK
    <3>2. k = KRelease(k1)
      BY <2>2
    <3> HIDE DEF k1, k
    <3>3. Frees(k1, k)
      BY <3>1, <3>2, ReleaseOK
    <3> QED
      BY <3>1, <3>3, FreesTransitive
  <2> QED
    BY <2>1, <2>2
<1> HIDE DEF k
<1>4. Leaves(c, k, "dead", target, NULL, c)
  <2>1. /\ Sound(k.mon, k.ready) /\ c \notin People(k) /\ People(k) = People(Kernel(c))
        /\ Items(k.mon.queue) \subseteq Locked(c)
        /\ Items(k.mon.waitQ["cv"]) \subseteq Waits(c)
    BY <1>2, <1>3 DEF Frees, Locked, Waits
  <2>2. c \notin Items(k.mon.queue) /\ c \notin Items(k.mon.waitQ["cv"])
    BY <2>1 DEF People
  <2> QED
    BY <1>1, <2>1, <2>2 DEF Leaves, Out, JoinPlaces, ThreadsAssumption
<1>5. PlacesAt(NULL, k.ready, mon', places, target', c)
  <2>1. PlacesAt(NULL, k.ready, ms, places, target, c)
    BY <1>1, <1>4, LeaveOK
  <2> QED
    BY <1>1, <2>1
<1>6. places \in [Threads -> Places] /\ c \in Threads \cup {NULL}
  BY <1>1 DEF TypeOK, Places
<1>7. mon' \in [Threads -> Monitors]
  BY <1>1, <1>3 DEF TypeOK, Frees, Sound
<1> HIDE DEF places
<1>8. /\ PlacesOK'
      /\ currentThread' \in Threads \cup {NULL}
      /\ readyList' \in Queues /\ Sorted(readyList')
      /\ threadToBeDestroyed' \in Threads \cup {NULL}
      /\ pc' \in [Threads -> Places]
      /\ OthersStay(places)
  BY <1>1, <1>5, <1>6, SleepOK
<1>9. SchedulerTypes'
  BY <1>7, <1>8 DEF SchedulerTypes
<1>10. TypeOK'
  BY <1>1, <1>9, TypesOK DEF TypeOK
<1> QED
  BY <1>8, <1>10 DEF places

-----------------------------------------------------------------------------
(* At the start the main thread runs.                                      *)
LEMMA InitPlaces ==
    ASSUME ThreadsAssumption, Init
    PROVE  TypeOK /\ PlacesOK
<1>1. /\ <<>> \in Queues /\ Items(<<>>) = {} /\ Sorted(<<>>) /\ NoDuplicates(<<>>)
  <2>1. <<>> \in Queues
    BY SMT DEF Queues
  <2>2. Items(<<>>) = {} /\ Sorted(<<>>) /\ NoDuplicates(<<>>)
    BY SMT DEF Items, Sorted, NoDuplicates
  <2> QED
    BY <2>1, <2>2
<1>2. NewMonitor \in Monitors /\ NewMonitor.queue = <<>> /\ NewMonitor.waitQ["cv"] = <<>>
  BY <1>1 DEF NewMonitor, Monitors, Queues, ElementsOf
<1>3. TypeOK
  BY <1>1, <1>2 DEF Init, TypeOK, ThreadsAssumption, Places, Queues, ElementsOf
<1>4. \A u \in Threads : mon[u] = NewMonitor
  BY DEF Init
<1>5. ASSUME NEW u \in Threads PROVE Sound(mon[u], readyList)
  BY <1>1, <1>2, <1>4 DEF Init, Sound
<1>6. ASSUME NEW t \in Threads
      PROVE  Somewhere(t, currentThread, readyList, mon) <=> pc[t] \notin Out
  BY <1>1, <1>2, <1>4 DEF Init, Somewhere, Out
<1>7. ASSUME NEW t \in Threads
      PROVE  /\ t = currentThread => pc[t] # "forked"
             /\ t = threadToBeDestroyed => pc[t] = "dead"
             /\ pc[t] \in JoinPlaces => target[t] \in Threads
  BY DEF Init, ThreadsAssumption, JoinPlaces
<1>8. /\ currentThread \notin Items(readyList)
      /\ \A u \in Threads : Items(mon[u].queue) = {} /\ Items(mon[u].waitQ["cv"]) = {}
  BY <1>1, <1>2, <1>4 DEF Init
<1>9. PlacesOK
  BY <1>5, <1>6, <1>7, <1>8 DEF PlacesOK, PlacesAt
<1> QED
  BY <1>3, <1>9

(* Every step keeps every thread in its place.                             *)
LEMMA NextPlaces ==
    ASSUME ThreadsAssumption, TypeOK, PlacesOK, [Next]_vars
    PROVE  TypeOK' /\ PlacesOK'
<1>1. CASE UNCHANGED vars
  BY <1>1 DEF vars, TypeOK, PlacesOK
<1>2. ASSUME NEW u \in Threads, NEW Pjoin \in {0, 1}, NEW garbage \in {0, 1},
             New(u, Pjoin, garbage)
      PROVE  TypeOK' /\ PlacesOK'
  BY <1>2, NewOK
<1>3. ASSUME NEW u \in Threads, Fork(u) PROVE TypeOK' /\ PlacesOK'
  BY <1>3, ForkOK
<1>4. ASSUME NEW u \in Threads, NEW p \in Priorities, setPriority(u, p)
      PROVE  TypeOK' /\ PlacesOK'
  BY <1>4, setPriorityOK
<1>5. ASSUME NEW u \in Threads, JoinAcquire(u) PROVE TypeOK' /\ PlacesOK'
  BY <1>5, JoinAcquireOK
<1>6. CASE Yield
  BY <1>6, YieldOK
<1>7. CASE JoinWaits
  BY <1>7, JoinWaitsOK
<1>8. CASE JoinReacquire
  BY <1>8, JoinReacquireOK
<1>9. CASE JoinReturns
  BY <1>9, JoinReturnsOK
<1>10. CASE FinishBlocked
  BY <1>10, FinishBlockedOK
<1>11. CASE FinishAwaitsJoin
  <2>1. currentThread \in Threads
    BY <1>11 DEF FinishAwaitsJoin, AtFinishTest, TypeOK
  <2> QED
    BY <1>11, <2>1, FinishSleepsOK DEF FinishAwaitsJoin
<1>12. CASE FinishAwaitsParent
  <2>1. currentThread \in Threads
    BY <1>12 DEF FinishAwaitsParent, AtFinishTest, TypeOK
  <2> QED
    BY <1>12, <2>1, FinishSleepsOK DEF FinishAwaitsParent
<1>13. CASE FinishEnds
  BY <1>13, FinishEndsOK
<1> QED
  BY SMT, <1>1, <1>2, <1>3, <1>4, <1>5, <1>6, <1>7, <1>8, <1>9, <1>10, <1>11, <1>12, <1>13
  DEF Next, Step, Halted

(* The invariant says where each thread is.                                *)
LEMMA PlacesAreOne ==
    ASSUME ThreadsAssumption, TypeOK, PlacesOK
    PROVE  OnePlace
<1>1. ASSUME NEW t \in Threads, pc[t] \in Out PROVE Whereabouts(t) = {}
  BY SMT, <1>1 DEF PlacesOK, PlacesAt, Somewhere, Whereabouts
<1>2. ASSUME NEW t \in Threads, pc[t] \notin Out
      PROVE  \E w \in Whereabouts(t) : Whereabouts(t) = {w}
  <2>1. Somewhere(t, currentThread, readyList, mon)
    BY <1>2 DEF PlacesOK, PlacesAt
  <2>2. \A u, v \in Threads :
           t \in Locked(u) \cup Waits(u) /\ t \in Locked(v) \cup Waits(v) => u = v
    BY OneMonitor
  <2>3. ASSUME NEW u \in Threads
        PROVE  /\ t = currentThread => t \notin Items(readyList) \cup Locked(u) \cup Waits(u)
               /\ t \in Items(readyList) => t \notin Locked(u) \cup Waits(u)
               /\ t \in Locked(u) => t \notin Waits(u)
    BY DEF PlacesOK, PlacesAt, Sound, Locked, Waits
  <2>4. CASE t = currentThread
    <3>1. Whereabouts(t) = {<<"running">>}
      BY <2>3, <2>4 DEF Whereabouts, Locked, Waits
    <3> QED
      BY <3>1
  <2>5. CASE t \in Items(readyList)
    <3>1. Whereabouts(t) = {<<"ready">>}
      BY <2>3, <2>5 DEF Whereabouts, Locked, Waits
    <3> QED
      BY <3>1
  <2>6. ASSUME NEW u \in Threads, t \in Locked(u)
        PROVE  \E w \in Whereabouts(t) : Whereabouts(t) = {w}
    <3>1. Whereabouts(t) = {<<"lock", u>>}
      BY <2>2, <2>3, <2>6 DEF Whereabouts, Locked, Waits
    <3> QED
      BY <3>1
  <2>7. ASSUME NEW u \in Threads, t \in Waits(u)
        PROVE  \E w \in Whereabouts(t) : Whereabouts(t) = {w}
    <3>1. Whereabouts(t) = {<<"cv", u>>}
      BY <2>2, <2>3, <2>7 DEF Whereabouts, Locked, Waits
    <3> QED
      BY <3>1
  <2>8. CASE \E u \in Threads : t \in Locked(u) \cup Waits(u)
    BY <2>6, <2>7, <2>8
  <2> QED
    BY <2>1, <2>4, <2>5, <2>8 DEF Somewhere, Locked, Waits
<1>3. /\ NoDuplicates(readyList)
      /\ \A u \in Threads : NoDuplicates(mon[u].queue) /\ NoDuplicates(mon[u].waitQ["cv"])
  <2>1. ASSUME NEW u \in Threads PROVE Sound(mon[u], readyList)
    BY DEF PlacesOK, PlacesAt
  <2> QED
    BY <2>1 DEF Sound, ThreadsAssumption
<1> QED
  BY <1>1, <1>2, <1>3 DEF OnePlace, Out

-----------------------------------------------------------------------------
(* What follows is about threads that only their creators join.            *)

(* The phase of v lasts while nothing happens to its monitor, to its flags *)
(* or to its joiner.                                                       *)
LEMMA PhaseStays ==
    ASSUME NEW v \in Threads, JoinPhase(v),
           mon'[v] = mon[v], join'[v] = join[v], readyToJoin'[v] = readyToJoin[v],
           creator'[v] = creator[v],
           Joiners(v)' = Joiners(v), \A t \in Joiners(v) : pc'[t] = pc[t],
           \/ pc'[v] = pc[v]
           \/ {pc[v], pc'[v]} \subseteq {"created", "forked", "run"} \cup JoinPlaces
           \/ pc[v] = "dead" /\ pc'[v] = "deleted"
    PROVE  JoinPhase(v)'
<1>1. /\ Locked(v)' = Locked(v) /\ Waits(v)' = Waits(v) /\ Idle(v)' = Idle(v)
  BY DEF Locked, Waits, Idle
<1>2. /\ pc'[v] = "none" <=> pc[v] = "none"
      /\ pc'[v] \in FinishPlaces <=> pc[v] \in FinishPlaces
      /\ pc'[v] = "finishLast" <=> pc[v] = "finishLast"
      /\ Over(v)' <=> Over(v)
  BY DEF JoinPlaces, FinishPlaces, Over
<1>3. CASE Unjoinable(v)
  BY <1>2, <1>3 DEF Unjoinable, JoinPhase
<1>4. CASE NotJoined(v)
  BY <1>1, <1>2, <1>4 DEF NotJoined, JoinPhase
<1>5. CASE JoinBegun(v)
  <2>1. JoinBegun(v)'
    BY <1>1, <1>2, <1>5 DEF JoinBegun
  <2> QED
    BY <2>1 DEF JoinPhase
<1>6. CASE JoinAsleep(v)
  <2>1. JoinAsleep(v)'
    BY <1>1, <1>2, <1>6 DEF JoinAsleep
  <2> QED
    BY <2>1 DEF JoinPhase
<1>7. CASE JoinMeets(v)
  <2>1. JoinMeets(v)'
    BY <1>1, <1>2, <1>7 DEF JoinMeets
  <2> QED
    BY <2>1 DEF JoinPhase
<1>8. CASE JoinDone(v)
  BY <1>2, <1>8 DEF JoinDone, JoinPhase
<1> QED
  BY <1>3, <1>4, <1>5, <1>6, <1>7, <1>8 DEF JoinPhase

(* The phases that a step of the running thread leaves alone.              *)
LEMMA OtherPhases ==
    ASSUME ThreadsAssumption, TypeOK, TypeOK', JoinOK, currentThread \in Threads,
           NEW place, OthersStay([pc EXCEPT ![currentThread] = place]),
           NEW v \in Threads,
           mon'[v] = mon[v], join'[v] = join[v], readyToJoin'[v] = readyToJoin[v],
           creator'[v] = creator[v],
           \A t \in Threads \ {currentThread} : target'[t] = target[t],
           target[currentThread] # v, target'[currentThread] # v,
           v # currentThread \/ {pc[v], place} \subseteq {"run"} \cup JoinPlaces
    PROVE  JoinPhase(v)'
<1> DEFINE places == [pc EXCEPT ![currentThread] = place]
<1>1. /\ places[currentThread] = place
      /\ \A t \in Threads \ {currentThread} : places[t] = pc[t]
  BY DEF TypeOK
<1>2. ASSUME NEW t \in Threads
      PROVE  \/ pc'[t] = places[t]
             \/ places[t] = "forked" /\ pc'[t] = "run"
             \/ places[t] = "dead" /\ pc'[t] = "deleted"
  BY DEF OthersStay
<1> HIDE DEF places
<1>3. Joiners(v)' = Joiners(v) /\ currentThread \notin Joiners(v)
  BY DEF Joiners
<1>4. ASSUME NEW t \in Joiners(v) PROVE pc'[t] = pc[t]
  <2>1. t \in Threads /\ t # currentThread /\ target[t] = v
    BY <1>3 DEF Joiners
  <2>2. pc[t] \in JoinPlaces
    BY <2>1 DEF JoinOK, ThreadsAssumption
  <2> QED
    BY <1>1, <1>2, <2>1, <2>2 DEF JoinPlaces
<1>5. \/ pc'[v] = pc[v]
      \/ {pc[v], pc'[v]} \subseteq {"created", "forked", "run"} \cup JoinPlaces
      \/ pc[v] = "dead" /\ pc'[v] = "deleted"
  <2>1. CASE v # currentThread
    BY <1>1, <1>2, <2>1
  <2>2. CASE v = currentThread
    BY SMT, <1>1, <1>2, <2>2 DEF JoinPlaces
  <2> QED
    BY <2>1, <2>2
<1>6. JoinPhase(v)
  BY DEF JoinOK
<1> QED
  BY <1>3, <1>4, <1>5, <1>6, PhaseStays

(* The second half of JoinOK: who is in Join has somebody to join.         *)
LEMMA TargetsOK ==
    ASSUME TypeOK, TypeOK', JoinOK, currentThread \in Threads,
           NEW place, OthersStay([pc EXCEPT ![currentThread] = place]),
           \A t \in Threads \ {currentThread} : target'[t] = target[t],
           target'[currentThread] # NULL <=> place \in JoinPlaces
    PROVE  \A t \in Threads : target'[t] # NULL <=> pc'[t] \in JoinPlaces
<1> DEFINE places == [pc EXCEPT ![currentThread] = place]
<1>1. /\ places[currentThread] = place
      /\ \A t \in Threads \ {currentThread} : places[t] = pc[t]
  BY DEF TypeOK
<1>2. ASSUME NEW t \in Threads
      PROVE  pc'[t] \in JoinPlaces <=> places[t] \in JoinPlaces
  BY DEF OthersStay, JoinPlaces
<1> HIDE DEF places
<1>3. ASSUME NEW t \in Threads
      PROVE  target'[t] # NULL <=> places[t] \in JoinPlaces
  BY <1>1 DEF JoinOK
<1> QED
  BY <1>2, <1>3

(* The monitor of a thread that was never used, and the lists it has.      *)
LEMMA NewMonitorOK ==
    ASSUME NEW m \in Monitors
    PROVE  /\ m = NewMonitor => /\ m.locked = 0 /\ m.threadHeld = NULL
                                /\ m.queue = <<>> /\ m.waitQ["cv"] = <<>>
                                /\ Items(m.queue) = {} /\ Items(m.waitQ["cv"]) = {}
           /\ /\ m.locked = 0 /\ m.threadHeld = NULL
              /\ m.queue = <<>> /\ m.waitQ["cv"] = <<>>
              => m = NewMonitor
<1>1. Items(<<>>) = {}
  BY SMT DEF Items
<1>2. m = NewMonitor => /\ m.locked = 0 /\ m.threadHeld = NULL
                        /\ m.queue = <<>> /\ m.waitQ["cv"] = <<>>
  BY SMT DEF NewMonitor
<1>3. ASSUME m.locked = 0, m.threadHeld = NULL, m.queue = <<>>, m.waitQ["cv"] = <<>>
      PROVE  m = NewMonitor
  <2>1. m.waitQ = [c \in {"cv"} |-> <<>>]
    BY <1>3 DEF Monitors
  <2>2. m = [locked |-> m.locked, threadHeld |-> m.threadHeld, queue |-> m.queue,
             waitQ |-> m.waitQ]
    BY DEF Monitors
  <2> QED
    BY <1>3, <2>1, <2>2 DEF NewMonitor
<1> QED
  BY <1>1, <1>2, <1>3

(* One Remove empties a list of at most one thread.                        *)
LEMMA OneRest ==
    ASSUME NEW list \in Queues, NoDuplicates(list), NEW t, Items(list) \subseteq {t}
    PROVE  Rest(list) = <<>>
<1>1. Items(Rest(list)) = {} /\ Rest(list) \in Queues
  BY SMT, RestOK
<1> QED
  BY SMT, <1>1, EmptyListProperties DEF Queues

LEMMA NewJoin ==
    ASSUME ThreadsAssumption, TypeOK, TypeOK', JoinOK, NEW u \in Threads,
           NEW Pjoin \in {0, 1}, NEW garbage \in {0, 1}, New(u, Pjoin, garbage)
    PROVE  JoinOK'
<1>1. /\ pc[u] = "none" /\ pc'[u] = "created"
      /\ join'[u] = Pjoin
      /\ \A t \in Threads : t # u => /\ pc'[t] = pc[t] /\ join'[t] = join[t]
                                     /\ creator'[t] = creator[t]
      /\ UNCHANGED <<readyToJoin, mon, target>>
  BY SMT DEF New, TypeOK
<1>2. /\ Joiners(u) = {} /\ mon[u] = NewMonitor /\ readyToJoin[u] = 0
  BY <1>1 DEF JoinOK, JoinPhase, Unjoinable, NotJoined, JoinBegun, JoinAsleep, JoinMeets,
              JoinDone, Over
<1>3. JoinPhase(u)'
  <2>1. /\ mon'[u] = NewMonitor /\ Joiners(u)' = {} /\ readyToJoin'[u] = 0
    BY <1>1, <1>2 DEF Joiners
  <2>2. Idle(u)' /\ Waits(u)' = {}
    <3>1. mon'[u] \in Monitors
      BY DEF TypeOK
    <3> QED
      BY <2>1, <3>1, NewMonitorOK DEF Idle, Waits
  <2>3. CASE Pjoin = 0
    BY <1>1, <2>1, <2>3 DEF JoinPhase, Unjoinable, FinishPlaces
  <2>4. CASE Pjoin = 1
    BY <1>1, <2>1, <2>2, <2>4 DEF JoinPhase, NotJoined, Over
  <2> QED
    BY <2>3, <2>4
<1>4. ASSUME NEW v \in Threads, v # u PROVE JoinPhase(v)'
  <2>1. Joiners(v)' = Joiners(v)
    BY <1>1 DEF Joiners
  <2>2. ASSUME NEW t \in Joiners(v) PROVE pc'[t] = pc[t]
    <3>1. t \in Threads /\ pc[t] \in JoinPlaces
      BY DEF Joiners, JoinOK, ThreadsAssumption
    <3> QED
      BY <1>1, <3>1 DEF JoinPlaces
  <2>3. JoinPhase(v)
    BY DEF JoinOK
  <2> QED
    BY <1>1, <1>4, <2>1, <2>2, <2>3, PhaseStays
<1>5. \A t \in Threads : target'[t] # NULL <=> pc'[t] \in JoinPlaces
  BY <1>1 DEF JoinOK, JoinPlaces
<1> QED
  BY <1>3, <1>4, <1>5 DEF JoinOK

LEMMA ForkJoin ==
    ASSUME ThreadsAssumption, TypeOK, TypeOK', JoinOK, NEW u \in Threads, Fork(u)
    PROVE  JoinOK'
<1>1. /\ pc[u] = "created" /\ pc'[u] = "forked"
      /\ \A t \in Threads : t # u => pc'[t] = pc[t]
      /\ UNCHANGED <<join, creator, readyToJoin, mon, target>>
  BY SMT DEF Fork, TypeOK
<1>2. ASSUME NEW v \in Threads PROVE JoinPhase(v)'
  <2>1. Joiners(v)' = Joiners(v)
    BY <1>1 DEF Joiners
  <2>2. ASSUME NEW t \in Joiners(v) PROVE pc'[t] = pc[t]
    <3>1. t \in Threads /\ pc[t] \in JoinPlaces
      BY DEF Joiners, JoinOK, ThreadsAssumption
    <3> QED
      BY <1>1, <3>1 DEF JoinPlaces
  <2>3. JoinPhase(v)
    BY DEF JoinOK
  <2>4. pc'[v] = pc[v] \/ {pc[v], pc'[v]} \subseteq {"created", "forked", "run"} \cup JoinPlaces
    BY <1>1
  <2> QED
    BY <1>1, <2>1, <2>2, <2>3, <2>4, PhaseStays
<1>3. \A t \in Threads : target'[t] # NULL <=> pc'[t] \in JoinPlaces
  BY <1>1 DEF JoinOK, JoinPlaces
<1> QED
  BY <1>2, <1>3 DEF JoinOK

LEMMA YieldJoin ==
    ASSUME ThreadsAssumption, TypeOK, TypeOK', JoinOK, OthersStay(pc), Yield
    PROVE  JoinOK'
<1>1. UNCHANGED <<join, creator, readyToJoin, mon, target>>
  BY DEF Yield
<1>2. ASSUME NEW t \in Threads
      PROVE  \/ pc'[t] = pc[t]
             \/ pc[t] = "forked" /\ pc'[t] = "run"
             \/ pc[t] = "dead" /\ pc'[t] = "deleted"
  BY DEF OthersStay
<1>3. ASSUME NEW v \in Threads PROVE JoinPhase(v)'
  <2>1. Joiners(v)' = Joiners(v)
    BY <1>1 DEF Joiners
  <2>2. ASSUME NEW t \in Joiners(v) PROVE pc'[t] = pc[t]
    <3>1. t \in Threads /\ pc[t] \in JoinPlaces
      BY DEF Joiners, JoinOK, ThreadsAssumption
    <3> QED
      BY <1>2, <3>1 DEF JoinPlaces
  <2>3. JoinPhase(v)
    BY DEF JoinOK
  <2>4. \/ pc'[v] = pc[v]
        \/ {pc[v], pc'[v]} \subseteq {"created", "forked", "run"} \cup JoinPlaces
        \/ pc[v] = "dead" /\ pc'[v] = "deleted"
    BY <1>2
  <2> QED
    BY <1>1, <2>1, <2>2, <2>3, <2>4, PhaseStays
<1>4. \A t \in Threads : target'[t] # NULL <=> pc'[t] \in JoinPlaces
  BY <1>1, <1>2 DEF JoinOK, JoinPlaces
<1> QED
  BY <1>3, <1>4 DEF JoinOK

(* Where the threads are after a step of the running one.                  *)
LEMMA StepPlaces ==
    ASSUME TypeOK, currentThread \in Threads, NEW place,
           OthersStay([pc EXCEPT ![currentThread] = place])
    PROVE  /\ place \notin {"forked", "dead"} => pc'[currentThread] = place
           /\ place = "dead" => pc'[currentThread] \in {"dead", "deleted"}
           /\ \A t \in Threads \ {currentThread} :
                 \/ pc'[t] = pc[t]
                 \/ pc[t] = "forked" /\ pc'[t] = "run"
                 \/ pc[t] = "dead" /\ pc'[t] = "deleted"
<1> DEFINE places == [pc EXCEPT ![currentThread] = place]
<1>1. /\ places[currentThread] = place
      /\ \A t \in Threads \ {currentThread} : places[t] = pc[t]
  BY DEF TypeOK
<1>2. ASSUME NEW t \in Threads
      PROVE  \/ pc'[t] = places[t]
             \/ places[t] = "forked" /\ pc'[t] = "run"
             \/ places[t] = "dead" /\ pc'[t] = "deleted"
  BY DEF OthersStay
<1> HIDE DEF places
<1> QED
  BY <1>1, <1>2

(* The phase of the thread that the running one is joining.                *)
LEMMA JoinerPhase ==
    ASSUME ThreadsAssumption, PlacesOK, JoinOK, currentThread \in Threads,
           NEW u \in Threads, target[currentThread] = u
    PROVE  /\ u # currentThread
           /\ pc[currentThread] \in {"joinHeld", "joinWoken", "joinHeldAgain"}
           /\ pc[currentThread] = "joinHeld" => JoinBegun(u)
           /\ pc[currentThread] # "joinHeld" => JoinMeets(u)
           /\ Joiners(u) = {currentThread} /\ creator[u] = currentThread
           /\ pc[currentThread] = "joinWoken" => mon[u].locked = 0
<1>1. currentThread \in Joiners(u)
  BY DEF Joiners
<1>2. currentThread \notin Waits(u)
  BY DEF PlacesOK, PlacesAt, Waits
<1>3. CASE JoinBegun(u)
  BY <1>1, <1>3 DEF JoinBegun
<1>4. CASE JoinMeets(u)
  BY <1>1, <1>4 DEF JoinMeets
<1>5. CASE JoinAsleep(u)
  BY <1>1, <1>2, <1>5 DEF JoinAsleep
<1>6. JoinPhase(u) /\ ~Unjoinable(u) /\ ~NotJoined(u) /\ ~JoinDone(u)
  BY <1>1 DEF JoinOK, Unjoinable, NotJoined, JoinDone
<1> QED
  BY <1>3, <1>4, <1>5, <1>6 DEF JoinPhase

LEMMA JoinAcquireJoin ==
    ASSUME ThreadsAssumption, OnlyParentJoins, TypeOK, PlacesOK, TypeOK', JoinOK,
           NEW u \in Threads, JoinAcquire(u)
    PROVE  JoinOK'
<1> DEFINE c == currentThread
           k == KAcquire(Kernel(u), c)
<1>1. c \in Threads /\ target' = [target EXCEPT ![c] = u]
      /\ UNCHANGED <<join, readyToJoin, creator>>
  BY DEF JoinAcquire, At, TypeOK
<1>2. /\ pc[c] = "run" /\ Exists(u) /\ u # c
      /\ join[u] = 1 /\ readyToJoin[u] = 0 /\ creator[u] = c
  <2>1. CASE At("joinAcquire") /\ target[c] = u
    BY <1>1, <2>1, JoinerPhase DEF At
  <2> QED
    BY <2>1 DEF JoinAcquire, At
<1>3. target[c] = NULL
  BY <1>1, <1>2 DEF JoinOK, JoinPlaces
<1>4. NotJoined(u)
  <2>1. ~JoinBegun(u)
    BY <1>1, <1>2, <1>3 DEF JoinBegun, Joiners, ThreadsAssumption
  <2>2. ~Unjoinable(u) /\ ~JoinAsleep(u) /\ ~JoinMeets(u) /\ ~JoinDone(u)
    BY SMT, <1>2 DEF Unjoinable, JoinAsleep, JoinMeets, JoinDone, Exists
  <2> QED
    BY <2>1, <2>2 DEF JoinOK, JoinPhase
<1>5. /\ mon[u].locked = 0 /\ mon[u].queue = <<>> /\ Waits(u) \subseteq {u}
      /\ Joiners(u) = {} /\ pc[u] # "none" /\ ~Over(u)
  BY <1>4 DEF NotJoined, Idle
<1>6. GoOnAt(u, k, "joinHeld")
  BY SMT, <1>5 DEF JoinAcquire
<1>7. /\ k.mon.locked = 1 /\ k.mon.queue = mon[u].queue /\ k.mon.waitQ = mon[u].waitQ
  BY SMT, <1>1, <1>5, KernelOK, AcquireFreeOK
<1> HIDE DEF k
<1>8. /\ pc' = [pc EXCEPT ![c] = "joinHeld"]
      /\ mon'[u] = k.mon /\ \A v \in Threads : v # u => mon'[v] = mon[v]
  BY <1>6 DEF GoOnAt, TypeOK
<1>9. OthersStay([pc EXCEPT ![c] = "joinHeld"])
  BY <1>8 DEF OthersStay
<1>10. /\ target'[c] = u /\ \A t \in Threads \ {c} : target'[t] = target[t]
  BY <1>1 DEF TypeOK
<1>11. JoinPhase(u)'
  <2>1. Joiners(u)' = {c}
    BY SMT, <1>1, <1>5, <1>10 DEF Joiners
  <2>2. pc'[c] = "joinHeld" /\ pc'[u] = pc[u]
    BY <1>1, <1>2, <1>8 DEF TypeOK
  <2>3. Locked(u)' = {} /\ Waits(u)' \subseteq {u}
    BY SMT, <1>5, <1>7, <1>8 DEF Locked, Waits, Items
  <2>4. ~Over(u)'
    BY <1>5, <2>2 DEF Over
  <2>5. JoinBegun(u)'
    BY <1>1, <1>2, <1>5, <1>7, <1>8, <2>1, <2>2, <2>3, <2>4 DEF JoinBegun
  <2> QED
    BY <2>5 DEF JoinPhase
<1>12. ASSUME NEW v \in Threads, v # u PROVE JoinPhase(v)'
  <2>1. target[c] # v /\ target'[c] # v
    BY <1>3, <1>10, <1>12 DEF ThreadsAssumption
  <2>2. v # c \/ {pc[v], "joinHeld"} \subseteq {"run"} \cup JoinPlaces
    BY <1>2 DEF JoinPlaces
  <2>3. /\ mon'[v] = mon[v] /\ join'[v] = join[v] /\ readyToJoin'[v] = readyToJoin[v]
        /\ creator'[v] = creator[v]
    BY <1>1, <1>8, <1>12
  <2> QED
    BY <1>1, <1>9, <1>10, <2>1, <2>2, <2>3, OtherPhases
<1>13. \A t \in Threads : target'[t] # NULL <=> pc'[t] \in JoinPlaces
  BY <1>1, <1>9, <1>10, TargetsOK DEF JoinPlaces, ThreadsAssumption
<1> QED
  BY <1>11, <1>12, <1>13 DEF JoinOK

LEMMA JoinWaitsJoin ==
    ASSUME ThreadsAssumption, TypeOK, PlacesOK, TypeOK', JoinOK, JoinWaits,
           NEW u \in Threads, target[currentThread] = u,
           OthersStay([pc EXCEPT ![currentThread] = "joinWoken"])
    PROVE  JoinOK'
<1> DEFINE c == currentThread
           k1 == KSignal(Kernel(u))
           k == KWait(k1, c)
<1>1. /\ c \in Threads /\ pc[c] = "joinHeld"
      /\ readyToJoin' = [readyToJoin EXCEPT ![u] = 1]
      /\ mon' = [mon EXCEPT ![u] = k.mon]
      /\ UNCHANGED <<join, target, creator>>
  BY DEF JoinWaits, SleepAt, At, TypeOK
<1>2. u \in Threads /\ target[c] = u
  OBVIOUS
<1>3. u # c /\ JoinBegun(u) /\ Joiners(u) = {c} /\ creator[u] = c
  BY <1>1, <1>2, JoinerPhase
<1>4. /\ join[u] = 1 /\ pc[u] # "none" /\ ~Over(u)
      /\ Locked(u) \subseteq {u} /\ Waits(u) \subseteq {u}
  BY <1>3 DEF JoinBegun
<1>5. /\ Sound(Kernel(u).mon, Kernel(u).ready) /\ c \notin People(Kernel(u))
      /\ Kernel(u).mon = mon[u]
  BY <1>2, KernelOK
<1>6. /\ Frees(Kernel(u), k1) /\ k1.mon.queue = mon[u].queue
      /\ k1.mon.waitQ["cv"] = Rest(mon[u].waitQ["cv"])
  BY SMT, <1>5, SignalOK
<1>7. Sound(k1.mon, k1.ready) /\ c \notin People(k1)
  BY <1>5, <1>6 DEF Frees
<1> HIDE DEF k1
<1>8. /\ k.mon.locked = 0 /\ k.mon.threadHeld = NULL
      /\ k.mon.queue = Rest(k1.mon.queue)
      /\ Items(k.mon.waitQ["cv"]) = Items(k1.mon.waitQ["cv"]) \cup {c}
  BY <1>1, <1>7, WaitOK
<1>9. Rest(mon[u].waitQ["cv"]) = <<>> /\ Rest(mon[u].queue) = <<>>
  <2>1. /\ mon[u].queue \in Queues /\ mon[u].waitQ["cv"] \in Queues
        /\ NoDuplicates(mon[u].queue) /\ NoDuplicates(mon[u].waitQ["cv"])
    BY <1>5, SoundTypes DEF Sound
  <2> QED
    BY <1>4, <2>1, OneRest DEF Locked, Waits
<1>10. Items(k.mon.waitQ["cv"]) = {c} /\ k.mon.queue = <<>>
  <2>1. Items(<<>>) = {}
    BY SMT DEF Items
  <2> QED
    BY <1>6, <1>8, <1>9, <2>1
<1> HIDE DEF k
<1>11. /\ mon'[u] = k.mon /\ readyToJoin'[u] = 1
       /\ \A v \in Threads : v # u => mon'[v] = mon[v] /\ readyToJoin'[v] = readyToJoin[v]
  BY SMT, <1>1, <1>2 DEF TypeOK
<1>12. /\ pc'[c] = "joinWoken"
       /\ \A t \in Threads \ {c} :
             \/ pc'[t] = pc[t]
             \/ pc[t] = "forked" /\ pc'[t] = "run"
             \/ pc[t] = "dead" /\ pc'[t] = "deleted"
  BY SMT, <1>1, StepPlaces
<1>13. JoinPhase(u)'
  <2>1. Joiners(u)' = {c} /\ Waits(u)' = {c} /\ Idle(u)'
    BY <1>1, <1>3, <1>8, <1>10, <1>11 DEF Joiners, Waits, Idle
  <2>2. pc'[u] # "none" /\ ~Over(u)'
    BY <1>2, <1>3, <1>4, <1>12 DEF Over
  <2>3. JoinAsleep(u)'
    BY <1>1, <1>3, <1>4, <1>11, <1>12, <2>1, <2>2 DEF JoinAsleep
  <2> QED
    BY <2>3 DEF JoinPhase
<1>14. ASSUME NEW v \in Threads, v # u PROVE JoinPhase(v)'
  <2>1. target[c] # v /\ target'[c] # v /\ \A t \in Threads \ {c} : target'[t] = target[t]
    BY <1>1, <1>14
  <2>2. v # c \/ {pc[v], "joinWoken"} \subseteq {"run"} \cup JoinPlaces
    BY <1>1 DEF JoinPlaces
  <2>3. /\ mon'[v] = mon[v] /\ join'[v] = join[v] /\ readyToJoin'[v] = readyToJoin[v]
        /\ creator'[v] = creator[v]
    BY <1>1, <1>11, <1>14
  <2> QED
    BY <1>1, <2>1, <2>2, <2>3, OtherPhases
<1>15. \A t \in Threads : target'[t] # NULL <=> pc'[t] \in JoinPlaces
  BY <1>1, <1>2, TargetsOK DEF JoinPlaces, ThreadsAssumption
<1> QED
  BY <1>13, <1>14, <1>15 DEF JoinOK

LEMMA JoinReacquireJoin ==
    ASSUME ThreadsAssumption, TypeOK, PlacesOK, TypeOK', JoinOK, JoinReacquire,
           NEW u \in Threads, target[currentThread] = u
    PROVE  JoinOK'
<1> DEFINE c == currentThread
           k == KAcquire(Kernel(u), c)
<1>1. /\ c \in Threads /\ pc[c] \in {"joinWoken", "joinReacquire"}
      /\ UNCHANGED <<join, readyToJoin, target, creator>>
  BY DEF JoinReacquire, At, TypeOK
<1>2. u \in Threads /\ target[c] = u
  OBVIOUS
<1>3. /\ u # c /\ JoinMeets(u) /\ Joiners(u) = {c} /\ creator[u] = c
      /\ pc[c] = "joinWoken" /\ mon[u].locked = 0
  BY <1>1, <1>2, JoinerPhase
<1>4. GoOnAt(u, k, "joinHeldAgain")
  BY SMT, <1>3 DEF JoinReacquire
<1>5. /\ k.mon.locked = 1 /\ k.mon.queue = mon[u].queue /\ k.mon.waitQ = mon[u].waitQ
  BY SMT, <1>1, <1>2, <1>3, KernelOK, AcquireFreeOK
<1> HIDE DEF k
<1>6. /\ pc' = [pc EXCEPT ![c] = "joinHeldAgain"]
      /\ mon'[u] = k.mon /\ \A v \in Threads : v # u => mon'[v] = mon[v]
  BY <1>2, <1>4 DEF GoOnAt, TypeOK
<1>7. OthersStay([pc EXCEPT ![c] = "joinHeldAgain"])
  BY <1>6 DEF OthersStay
<1>8. JoinPhase(u)'
  <2>1. pc'[c] = "joinHeldAgain" /\ pc'[u] = pc[u]
    BY SMT, <1>1, <1>2, <1>3, <1>6 DEF TypeOK
  <2>2. Joiners(u)' = {c} /\ Waits(u)' = Waits(u) /\ mon'[u].queue = mon[u].queue
    BY <1>1, <1>3, <1>5, <1>6 DEF Joiners, Waits
  <2>3. JoinMeets(u)'
    BY SMT, <1>1, <1>3, <1>5, <1>6, <2>1, <2>2 DEF JoinMeets
  <2> QED
    BY <2>3 DEF JoinPhase
<1>9. ASSUME NEW v \in Threads, v # u PROVE JoinPhase(v)'
  <2>1. target[c] # v /\ target'[c] # v /\ \A t \in Threads \ {c} : target'[t] = target[t]
    BY <1>1, <1>9
  <2>2. v # c \/ {pc[v], "joinHeldAgain"} \subseteq {"run"} \cup JoinPlaces
    BY <1>1 DEF JoinPlaces
  <2>3. /\ mon'[v] = mon[v] /\ join'[v] = join[v] /\ readyToJoin'[v] = readyToJoin[v]
        /\ creator'[v] = creator[v]
    BY <1>1, <1>6, <1>9
  <2> QED
    BY <1>1, <1>7, <2>1, <2>2, <2>3, OtherPhases
<1>10. \A t \in Threads : target'[t] # NULL <=> pc'[t] \in JoinPlaces
  BY <1>1, <1>2, <1>7, TargetsOK DEF JoinPlaces, ThreadsAssumption
<1> QED
  BY <1>8, <1>9, <1>10 DEF JoinOK

LEMMA JoinReturnsJoin ==
    ASSUME ThreadsAssumption, TypeOK, PlacesOK, TypeOK', JoinOK, JoinReturns,
           NEW u \in Threads, target[currentThread] = u
    PROVE  JoinOK'
<1> DEFINE c == currentThread
           k1 == KSignal(Kernel(u))
           k == KRelease(k1)
<1>1. /\ c \in Threads /\ pc[c] = "joinHeldAgain"
      /\ mon' = [mon EXCEPT ![u] = k.mon] /\ pc' = [pc EXCEPT ![c] = "run"]
      /\ target' = [target EXCEPT ![c] = NULL]
      /\ UNCHANGED <<join, readyToJoin, creator>>
  BY DEF JoinReturns, GoOnAt, At, TypeOK
<1>2. u \in Threads /\ target[c] = u
  OBVIOUS
<1>3. u # c /\ JoinMeets(u) /\ Joiners(u) = {c}
  BY <1>1, <1>2, JoinerPhase
<1>4. Sound(Kernel(u).mon, Kernel(u).ready) /\ Kernel(u).mon = mon[u]
  BY <1>2, KernelOK
<1>5. /\ Frees(Kernel(u), k1) /\ k1.mon.queue = mon[u].queue
      /\ k1.mon.waitQ["cv"] = Rest(mon[u].waitQ["cv"])
  BY <1>4, SignalOK
<1>6. Sound(k1.mon, k1.ready)
  BY <1>5 DEF Frees
<1> HIDE DEF k1
<1>7. /\ k.mon.locked = 0 /\ k.mon.threadHeld = NULL
      /\ k.mon.queue = Rest(k1.mon.queue) /\ k.mon.waitQ = k1.mon.waitQ
  BY <1>6, ReleaseOK
<1> HIDE DEF k
<1>8. mon[u].waitQ["cv"] \in Queues /\ NoDuplicates(mon[u].waitQ["cv"])
  BY <1>4, SoundTypes DEF Sound
<1>9. Rest(mon[u].waitQ["cv"]) = <<>>
  <2>1. Items(mon[u].waitQ["cv"]) \subseteq {u}
    BY <1>3 DEF JoinMeets, Waits
  <2> QED
    BY <1>8, <2>1, OneRest
<1>10. k.mon.waitQ["cv"] = <<>> /\ k.mon.queue = <<>>
  <2>1. mon[u].queue = <<>>
    BY <1>3 DEF JoinMeets
  <2>2. k.mon.queue = Rest(<<>>)
    BY <1>5, <1>7, <2>1
  <2>3. Rest(<<>>) = <<>>
    BY DEF Rest
  <2> QED
    BY <1>5, <1>7, <1>9, <2>2, <2>3
<1>11. /\ mon'[u] = k.mon /\ \A v \in Threads : v # u => mon'[v] = mon[v]
       /\ target'[c] = NULL /\ \A t \in Threads \ {c} : target'[t] = target[t]
       /\ pc'[u] = pc[u]
  BY SMT, <1>1, <1>2, <1>3 DEF TypeOK
<1>12. OthersStay([pc EXCEPT ![c] = "run"])
  BY <1>1 DEF OthersStay
<1>13. JoinPhase(u)'
  <2>1. mon'[u] \in Monitors
    BY <1>2 DEF TypeOK
  <2>2. mon'[u] = NewMonitor
    BY <1>7, <1>10, <1>11, <2>1, NewMonitorOK
  <2>3. Joiners(u)' = {}
    BY SMT, <1>2, <1>3, <1>11 DEF Joiners, ThreadsAssumption
  <2>4. JoinDone(u)'
    BY <1>1, <1>3, <1>11, <2>2, <2>3 DEF JoinDone, JoinMeets, Over
  <2> QED
    BY <2>4 DEF JoinPhase
<1>14. ASSUME NEW v \in Threads, v # u PROVE JoinPhase(v)'
  <2>1. target[c] # v /\ target'[c] # v
    BY <1>11, <1>14 DEF ThreadsAssumption
  <2>2. v # c \/ {pc[v], "run"} \subseteq {"run"} \cup JoinPlaces
    BY <1>1 DEF JoinPlaces
  <2>3. /\ mon'[v] = mon[v] /\ join'[v] = join[v] /\ readyToJoin'[v] = readyToJoin[v]
        /\ creator'[v] = creator[v]
    BY <1>1, <1>11, <1>14
  <2> QED
    BY <1>1, <1>11, <1>12, <2>1, <2>2, <2>3, OtherPhases
<1>15. \A t \in Threads : target'[t] # NULL <=> pc'[t] \in JoinPlaces
  <2>1. target'[c] # NULL <=> "run" \in JoinPlaces
    BY <1>11 DEF JoinPlaces
  <2> QED
    BY <1>1, <1>11, <1>12, <2>1, TargetsOK
<1> QED
  BY <1>13, <1>14, <1>15 DEF JoinOK

LEMMA FinishBlockedJoin ==
    ASSUME ThreadsAssumption, TypeOK, PlacesOK, TypeOK', JoinOK, FinishBlocked,
           NEW c \in Threads, c = currentThread,
           NEW place \in FinishPlaces, OthersStay([pc EXCEPT ![c] = place]),
           place = IF pc[c] = "run" THEN "finishAcquire" ELSE pc[c]
    PROVE  JoinOK'
<1> DEFINE k == KAcquire(Kernel(c), c)
<1>1. /\ pc[c] \in FinishPlaces \cup {"run"} /\ mon[c].locked = 1
      /\ mon' = [mon EXCEPT ![c] = k.mon]
      /\ UNCHANGED <<join, readyToJoin, target, creator>>
  BY DEF FinishBlocked, SleepAt
<1>2. target[c] = NULL /\ place \notin JoinPlaces
  BY <1>1 DEF JoinOK, JoinPlaces, FinishPlaces
<1>3. c \notin Waits(c)
  BY DEF PlacesOK, PlacesAt, Waits
<1>4. JoinBegun(c)
  <2>1. mon[c] \in Monitors
    BY DEF TypeOK
  <2>2. ~Unjoinable(c) /\ ~JoinDone(c)
    BY SMT, <1>1, <2>1, NewMonitorOK DEF Unjoinable, JoinDone
  <2>3. ~NotJoined(c) /\ ~JoinAsleep(c) /\ ~JoinMeets(c)
    BY SMT, <1>1, <1>3 DEF NotJoined, JoinAsleep, JoinMeets, Idle
  <2> QED
    BY <2>2, <2>3 DEF JoinOK, JoinPhase
<1>5. /\ k.mon.locked = 1 /\ Items(k.mon.queue) = Items(mon[c].queue) \cup {c}
      /\ k.mon.waitQ = mon[c].waitQ
  <2>1. /\ Sound(Kernel(c).mon, Kernel(c).ready) /\ c \notin People(Kernel(c))
        /\ Kernel(c) = [mon |-> Kernel(c).mon, ready |-> Kernel(c).ready]
        /\ Kernel(c).mon = mon[c]
    BY KernelOK
  <2> QED
    BY SMT, <1>1, <2>1, AcquireTakenOK
<1> HIDE DEF k
<1>6. mon'[c] = k.mon /\ \A v \in Threads : v # c => mon'[v] = mon[v]
  BY <1>1 DEF TypeOK
<1>7. /\ pc'[c] = place
      /\ \A t \in Threads \ {c} :
            \/ pc'[t] = pc[t]
            \/ pc[t] = "forked" /\ pc'[t] = "run"
            \/ pc[t] = "dead" /\ pc'[t] = "deleted"
  BY StepPlaces DEF FinishPlaces
<1>8. JoinPhase(c)'
  <2>1. Joiners(c)' = Joiners(c) /\ Waits(c)' = Waits(c) /\ Locked(c)' = Locked(c) \cup {c}
    BY <1>1, <1>5, <1>6 DEF Joiners, Waits, Locked
  <2>2. place \notin {"none", "finishLast", "dead", "deleted"}
    BY <1>1, <1>4 DEF JoinBegun, Over, FinishPlaces
  <2>3. pc'[c] # "none" /\ ~Over(c)'
    BY <1>7, <2>2 DEF Over
  <2>4. PICK p \in Threads \ {c} :
            Joiners(c) = {p} /\ creator[c] = p /\ pc[p] = "joinHeld" /\ mon[c].locked = 1
    BY <1>4 DEF JoinBegun
  <2>5. pc'[p] = "joinHeld"
    BY <1>7, <2>4
  <2>6. join[c] = 1 /\ readyToJoin[c] = 0 /\ Locked(c) \subseteq {c} /\ Waits(c) \subseteq {c}
    BY <1>4 DEF JoinBegun
  <2>7. JoinBegun(c)'
    BY SMT, <1>1, <1>5, <1>6, <2>1, <2>3, <2>4, <2>5, <2>6 DEF JoinBegun
  <2> QED
    BY <2>7 DEF JoinPhase
<1>9. ASSUME NEW v \in Threads, v # c PROVE JoinPhase(v)'
  <2>1. target[c] # v /\ target'[c] # v /\ \A t \in Threads \ {c} : target'[t] = target[t]
    BY <1>1, <1>2 DEF ThreadsAssumption
  <2>2. /\ mon'[v] = mon[v] /\ join'[v] = join[v] /\ readyToJoin'[v] = readyToJoin[v]
        /\ creator'[v] = creator[v]
    BY <1>1, <1>6, <1>9
  <2> QED
    BY <1>9, <2>1, <2>2, OtherPhases
<1>10. \A t \in Threads : target'[t] # NULL <=> pc'[t] \in JoinPlaces
  BY <1>1, <1>2, TargetsOK
<1> QED
  BY <1>8, <1>9, <1>10 DEF JoinOK

(* The monitor after Finish has gone to sleep on a condition that at most  *)
(* one thread was waiting for.                                             *)
LEMMA FinishWaits ==
    ASSUME ThreadsAssumption, TypeOK, PlacesOK, NEW c \in Threads, c = currentThread,
           AtFinishTest(c), mon[c].queue = <<>>, NEW p, Waits(c) \subseteq {p},
           NEW m, m = KWait(KSignal(FinishKernel(c)), c).mon
    PROVE  /\ m.locked = 0 /\ m.threadHeld = NULL /\ m.queue = <<>>
           /\ Items(m.waitQ["cv"]) = {c}
<1> DEFINE k1 == KSignal(FinishKernel(c))
           list == mon[c].waitQ["cv"]
<1>1. list \in Queues /\ NoDuplicates(list) /\ Items(list) \subseteq {p}
  <2>1. Sound(mon[c], readyList)
    BY KernelOK
  <2> QED
    BY <2>1, SoundTypes DEF Sound, Waits
<1>2. Rest(list) = <<>> /\ Rest(<<>>) = <<>>
  <2>1. Rest(list) = <<>>
    BY <1>1, OneRest
  <2> QED
    BY <2>1 DEF Rest
<1>3. /\ Sound(k1.mon, k1.ready) /\ c \notin People(k1)
      /\ k1.mon.queue = mon[c].queue
      /\ k1.mon.waitQ["cv"] = Rest(list) \/ k1.mon.waitQ["cv"] = Rest(Rest(list))
  BY FinishKernelOK
<1> HIDE DEF k1
<1>4. k1.mon.waitQ["cv"] = <<>> /\ k1.mon.queue = <<>>
  BY <1>2, <1>3
<1>5. m = KWait(k1, c).mon
  BY DEF k1
<1>6. /\ m.locked = 0 /\ m.threadHeld = NULL
      /\ m.queue = Rest(k1.mon.queue)
      /\ Items(m.waitQ["cv"]) = Items(k1.mon.waitQ["cv"]) \cup {c}
  BY SMT, <1>3, <1>5, WaitOK
<1>7. Items(<<>>) = {}
  BY SMT DEF Items
<1> QED
  BY <1>2, <1>4, <1>6, <1>7

LEMMA FinishAwaitsJoinJoin ==
    ASSUME ThreadsAssumption, TypeOK, PlacesOK, TypeOK', JoinOK, FinishAwaitsJoin,
           NEW c \in Threads, c = currentThread,
           OthersStay([pc EXCEPT ![c] = "finishLoop"])
    PROVE  JoinOK'
<1> DEFINE m == KWait(KSignal(FinishKernel(c)), c).mon
<1>1. /\ AtFinishTest(c) /\ mon[c].locked = 0
      /\ pc[c] \in {"run", "finishAcquire", "finishLoop"}
      /\ readyToJoin[c] = 0 /\ join[c] = 1
      /\ mon' = [mon EXCEPT ![c] = m]
      /\ UNCHANGED <<join, readyToJoin, target, creator>>
  BY DEF FinishAwaitsJoin, SleepAt, AtFinishTest, TypeOK
<1>2. target[c] = NULL
  BY <1>1 DEF JoinOK, JoinPlaces
<1>3. NotJoined(c)
  <2>1. ~Unjoinable(c) /\ ~JoinBegun(c) /\ ~JoinAsleep(c) /\ ~JoinMeets(c) /\ ~JoinDone(c)
    BY SMT, <1>1 DEF Unjoinable, JoinBegun, JoinAsleep, JoinMeets, JoinDone
  <2> QED
    BY <2>1 DEF JoinOK, JoinPhase
<1>4. Joiners(c) = {} /\ mon[c].queue = <<>> /\ Waits(c) \subseteq {c}
  BY <1>3 DEF NotJoined, Idle
<1>5. /\ m.locked = 0 /\ m.threadHeld = NULL /\ m.queue = <<>>
      /\ Items(m.waitQ["cv"]) = {c}
  BY <1>1, <1>4, FinishWaits
<1> HIDE DEF m
<1>6. mon'[c] = m /\ \A v \in Threads : v # c => mon'[v] = mon[v]
  BY <1>1 DEF TypeOK
<1>7. pc'[c] = "finishLoop"
  BY SMT, StepPlaces
<1>8. JoinPhase(c)'
  <2>1. Joiners(c)' = {} /\ Waits(c)' = {c} /\ Idle(c)'
    BY <1>1, <1>4, <1>5, <1>6 DEF Joiners, Waits, Idle
  <2>2. NotJoined(c)'
    BY <1>1, <1>7, <2>1 DEF NotJoined, Over
  <2> QED
    BY <2>2 DEF JoinPhase
<1>9. ASSUME NEW v \in Threads, v # c PROVE JoinPhase(v)'
  <2>1. target[c] # v /\ target'[c] # v /\ \A t \in Threads \ {c} : target'[t] = target[t]
    BY <1>1, <1>2 DEF ThreadsAssumption
  <2>2. /\ mon'[v] = mon[v] /\ join'[v] = join[v] /\ readyToJoin'[v] = readyToJoin[v]
        /\ creator'[v] = creator[v]
    BY <1>1, <1>6, <1>9
  <2> QED
    BY <1>9, <2>1, <2>2, OtherPhases
<1>10. \A t \in Threads : target'[t] # NULL <=> pc'[t] \in JoinPlaces
  <2>1. "finishLoop" \notin JoinPlaces
    BY DEF JoinPlaces
  <2> QED
    BY <1>1, <1>2, <2>1, TargetsOK
<1> QED
  BY <1>8, <1>9, <1>10 DEF JoinOK

LEMMA FinishAwaitsParentJoin ==
    ASSUME ThreadsAssumption, TypeOK, PlacesOK, TypeOK', JoinOK, FinishAwaitsParent,
           NEW c \in Threads, c = currentThread,
           OthersStay([pc EXCEPT ![c] = "finishLast"])
    PROVE  JoinOK'
<1> DEFINE m == KWait(KSignal(FinishKernel(c)), c).mon
<1>1. /\ AtFinishTest(c) /\ mon[c].locked = 0
      /\ pc[c] \in {"run", "finishAcquire", "finishLoop"}
      /\ readyToJoin[c] = 1 /\ join[c] = 1
      /\ mon' = [mon EXCEPT ![c] = m]
      /\ UNCHANGED <<join, readyToJoin, target, creator>>
  BY DEF FinishAwaitsParent, SleepAt, AtFinishTest, TypeOK
<1>2. target[c] = NULL
  BY <1>1 DEF JoinOK, JoinPlaces
<1>3. JoinAsleep(c)
  <2>1. ~Unjoinable(c) /\ ~NotJoined(c) /\ ~JoinBegun(c) /\ ~JoinMeets(c) /\ ~JoinDone(c)
    BY SMT, <1>1 DEF Unjoinable, NotJoined, JoinBegun, JoinMeets, JoinDone, Over
  <2> QED
    BY <2>1 DEF JoinOK, JoinPhase
<1>4. PICK p \in Threads \ {c} :
         Joiners(c) = {p} /\ creator[c] = p /\ pc[p] = "joinWoken" /\ Waits(c) = {p}
  BY <1>3 DEF JoinAsleep
<1>5. mon[c].queue = <<>> /\ Waits(c) \subseteq {p}
  BY <1>3, <1>4 DEF JoinAsleep, Idle
<1>6. /\ m.locked = 0 /\ m.threadHeld = NULL /\ m.queue = <<>>
      /\ Items(m.waitQ["cv"]) = {c}
  BY <1>1, <1>5, FinishWaits
<1> HIDE DEF m
<1>7. mon'[c] = m /\ \A v \in Threads : v # c => mon'[v] = mon[v]
  BY <1>1 DEF TypeOK
<1>8. pc'[c] = "finishLast" /\ pc'[p] = "joinWoken"
  BY SMT, <1>4, StepPlaces
<1>9. JoinPhase(c)'
  <2>1. Joiners(c)' = {p} /\ Waits(c)' = {c}
    BY <1>1, <1>4, <1>6, <1>7 DEF Joiners, Waits
  <2>2. JoinMeets(c)'
    BY <1>1, <1>4, <1>6, <1>7, <1>8, <2>1 DEF JoinMeets
  <2> QED
    BY <2>2 DEF JoinPhase
<1>10. ASSUME NEW v \in Threads, v # c PROVE JoinPhase(v)'
  <2>1. target[c] # v /\ target'[c] # v /\ \A t \in Threads \ {c} : target'[t] = target[t]
    BY <1>1, <1>2 DEF ThreadsAssumption
  <2>2. /\ mon'[v] = mon[v] /\ join'[v] = join[v] /\ readyToJoin'[v] = readyToJoin[v]
        /\ creator'[v] = creator[v]
    BY <1>1, <1>7, <1>10
  <2> QED
    BY <1>10, <2>1, <2>2, OtherPhases
<1>11. \A t \in Threads : target'[t] # NULL <=> pc'[t] \in JoinPlaces
  <2>1. "finishLast" \notin JoinPlaces
    BY DEF JoinPlaces
  <2> QED
    BY <1>1, <1>2, <2>1, TargetsOK
<1> QED
  BY <1>9, <1>10, <1>11 DEF JoinOK

LEMMA FinishEndsJoin ==
    ASSUME ThreadsAssumption, TypeOK, PlacesOK, TypeOK', JoinOK, FinishEnds,
           NEW c \in Threads, c = currentThread,
           OthersStay([pc EXCEPT ![c] = "dead"])
    PROVE  JoinOK'
<1> DEFINE k1 == IF pc[c] = "finishLast" THEN KAcquire(Kernel(c), c)
                 ELSE KSignal(FinishKernel(c))
           m == KRelease(k1).mon
<1>1. /\ mon[c].locked = 0
      /\ pc[c] = "finishLast" \/ (AtFinishTest(c) /\ join[c] = 0)
      /\ mon' = [mon EXCEPT ![c] = m]
      /\ UNCHANGED <<join, readyToJoin, target, creator>>
  <2>1. m = (IF pc[c] = "finishLast" THEN KRelease(KAcquire(Kernel(c), c))
             ELSE KRelease(KSignal(FinishKernel(c)))).mon
    <3>1. CASE pc[c] = "finishLast"
      BY <3>1
    <3>2. CASE pc[c] # "finishLast"
      BY <3>2
    <3> QED
      BY <3>1, <3>2
  <2> HIDE DEF m
  <2> QED
    BY <2>1 DEF FinishEnds
<1>2. pc[c] \in FinishPlaces \cup {"run"}
  BY <1>1 DEF AtFinishTest, FinishPlaces
<1>3. target[c] = NULL
  BY <1>2 DEF JoinOK, JoinPlaces, FinishPlaces
<1>4. c \notin Waits(c)
  BY DEF PlacesOK, PlacesAt, Waits
<1>5. (JoinDone(c) \/ Unjoinable(c)) /\ mon[c] = NewMonitor /\ Joiners(c) = {}
  <2>1. CASE pc[c] = "finishLast"
    <3>1. ~NotJoined(c) /\ ~JoinBegun(c) /\ ~JoinAsleep(c) /\ ~JoinMeets(c)
      BY <1>4, <2>1 DEF NotJoined, JoinBegun, JoinAsleep, JoinMeets, Over
    <3> QED
      BY <3>1 DEF JoinOK, JoinPhase, JoinDone, Unjoinable
  <2>2. CASE join[c] = 0
    <3>1. ~NotJoined(c) /\ ~JoinBegun(c) /\ ~JoinAsleep(c) /\ ~JoinMeets(c)
      BY SMT, <2>2 DEF NotJoined, JoinBegun, JoinAsleep, JoinMeets
    <3> QED
      BY <3>1 DEF JoinOK, JoinPhase, JoinDone, Unjoinable
  <2> QED
    BY <1>1, <2>1, <2>2
<1>6. mon[c] \in Monitors /\ mon[c].queue = <<>> /\ mon[c].waitQ["cv"] = <<>>
  <2>1. mon[c] \in Monitors
    BY DEF TypeOK
  <2> QED
    BY <1>5, <2>1, NewMonitorOK
<1>7. Rest(<<>>) = <<>>
  BY DEF Rest
<1>8. Sound(k1.mon, k1.ready) /\ k1.mon.queue = <<>> /\ k1.mon.waitQ["cv"] = <<>>
  <2>1. CASE pc[c] = "finishLast"
    <3> DEFINE k2 == KAcquire(Kernel(c), c)
    <3>1. /\ Sound(Kernel(c).mon, Kernel(c).ready)
          /\ Kernel(c) = [mon |-> Kernel(c).mon, ready |-> Kernel(c).ready]
          /\ Kernel(c).mon = mon[c]
      BY KernelOK
    <3>2. /\ Frees(Kernel(c), k2)
          /\ k2.mon.queue = mon[c].queue /\ k2.mon.waitQ = mon[c].waitQ
      BY SMT, <1>1, <3>1, AcquireFreeOK
    <3>3. k1 = k2
      BY <2>1
    <3> HIDE DEF k1, k2
    <3> QED
      BY <1>6, <3>2, <3>3 DEF Frees
  <2>2. CASE pc[c] # "finishLast"
    <3> DEFINE k2 == KSignal(FinishKernel(c))
               list == mon[c].waitQ["cv"]
    <3>1. /\ Sound(k2.mon, k2.ready)
          /\ k2.mon.queue = mon[c].queue
          /\ k2.mon.waitQ["cv"] = Rest(list) \/ k2.mon.waitQ["cv"] = Rest(Rest(list))
      BY <1>1, <2>2, FinishKernelOK
    <3>2. k1 = k2
      BY <2>2
    <3> HIDE DEF k1, k2
    <3> QED
      BY <1>6, <1>7, <3>1, <3>2
  <2> QED
    BY <2>1, <2>2
<1> HIDE DEF k1
<1>9. /\ m.locked = 0 /\ m.threadHeld = NULL
      /\ m.queue = Rest(k1.mon.queue) /\ m.waitQ = k1.mon.waitQ
  BY <1>8, ReleaseOK
<1> HIDE DEF m
<1>10. mon'[c] = m /\ \A v \in Threads : v # c => mon'[v] = mon[v]
  BY <1>1 DEF TypeOK
<1>11. pc'[c] \in {"dead", "deleted"}
  BY StepPlaces
<1>12. JoinPhase(c)'
  <2>1. mon'[c] \in Monitors
    BY DEF TypeOK
  <2>2. mon'[c] = NewMonitor
    BY <1>7, <1>8, <1>9, <1>10, <2>1, NewMonitorOK
  <2>3. Joiners(c)' = {}
    BY <1>1, <1>5 DEF Joiners
  <2>4. CASE JoinDone(c)
    BY <1>1, <1>11, <2>2, <2>3, <2>4 DEF JoinPhase, JoinDone, Over
  <2>5. CASE Unjoinable(c)
    <3>1. join[c] = 0
      BY <1>2, <2>5 DEF Unjoinable, FinishPlaces
    <3> QED
      BY <1>1, <1>11, <2>2, <2>3, <3>1 DEF JoinPhase, Unjoinable, FinishPlaces
  <2> QED
    BY <1>5, <2>4, <2>5
<1>13. ASSUME NEW v \in Threads, v # c PROVE JoinPhase(v)'
  <2>1. target[c] # v /\ target'[c] # v /\ \A t \in Threads \ {c} : target'[t] = target[t]
    BY <1>1, <1>3 DEF ThreadsAssumption
  <2>2. /\ mon'[v] = mon[v] /\ join'[v] = join[v] /\ readyToJoin'[v] = readyToJoin[v]
        /\ creator'[v] = creator[v]
    BY <1>1, <1>10, <1>13
  <2> QED
    BY <1>13, <2>1, <2>2, OtherPhases
<1>14. \A t \in Threads : target'[t] # NULL <=> pc'[t] \in JoinPlaces
  <2>1. "dead" \notin JoinPlaces
    BY DEF JoinPlaces
  <2> QED
    BY <1>1, <1>3, <2>1, TargetsOK
<1> QED
  BY <1>12, <1>13, <1>14 DEF JoinOK

-----------------------------------------------------------------------------
(* At the start nobody has been joined.                                    *)
LEMMA InitJoin ==
    ASSUME ThreadsAssumption, Init
    PROVE  JoinOK
<1>1. ASSUME NEW u \in Threads PROVE Unjoinable(u)
  BY DEF Init, Unjoinable, Joiners, FinishPlaces, ThreadsAssumption
<1>2. ASSUME NEW t \in Threads PROVE target[t] # NULL <=> pc[t] \in JoinPlaces
  <2>1. /\ target = [x \in Threads |-> NULL]
        /\ pc = [x \in Threads |-> IF x = Main THEN "run" ELSE "none"]
    BY DEF Init
  <2>2. target[t] = NULL
    BY <2>1
  <2>3. pc[t] = "run" \/ pc[t] = "none"
    BY <2>1
  <2>4. pc[t] \notin JoinPlaces
    BY <2>3 DEF JoinPlaces
  <2> QED
    BY <2>2, <2>4
<1> QED
  BY <1>1, <1>2 DEF JoinOK, JoinPhase

(* Every step keeps the meeting of Join and Finish in order.               *)
LEMMA NextJoin ==
    ASSUME ThreadsAssumption, OnlyParentJoins, TypeOK, PlacesOK, JoinOK, [Next]_vars
    PROVE  JoinOK'
<1>0. TypeOK'
  BY NextPlaces
<1> DEFINE Rests == UNCHANGED <<join, readyToJoin, mon, pc, target, creator>>
<1>1. ASSUME Rests PROVE JoinOK'
  <2>1. ASSUME NEW v \in Threads PROVE JoinPhase(v)'
    <3>1. Joiners(v)' = Joiners(v)
      BY <1>1 DEF Joiners
    <3>2. JoinPhase(v)
      BY DEF JoinOK
    <3> QED
      BY <1>1, <3>1, <3>2, PhaseStays
  <2> QED
    BY <1>1, <2>1 DEF JoinOK
<1>2. CASE UNCHANGED vars
  BY <1>1, <1>2 DEF vars
<1> HIDE DEF Rests
<1>3. ASSUME NEW u \in Threads, NEW Pjoin \in {0, 1}, NEW garbage \in {0, 1},
             New(u, Pjoin, garbage)
      PROVE  JoinOK'
  BY <1>0, <1>3, NewJoin
<1>4. ASSUME NEW u \in Threads, Fork(u) PROVE JoinOK'
  BY <1>0, <1>4, ForkJoin
<1>5. ASSUME NEW u \in Threads, NEW p \in Priorities, setPriority(u, p) PROVE JoinOK'
  BY <1>1, <1>5 DEF setPriority, Rests
<1>6. ASSUME NEW u \in Threads, JoinAcquire(u) PROVE JoinOK'
  BY <1>0, <1>6, JoinAcquireJoin
<1>7. CASE Yield
  BY <1>0, <1>7, YieldOK, YieldJoin
<1>8. ASSUME At("joinHeld") \/ At("joinWoken") \/ At("joinReacquire") \/ At("joinHeldAgain")
      PROVE  \E u \in Threads : target[currentThread] = u
  BY <1>8 DEF At, TypeOK, PlacesOK, PlacesAt, JoinPlaces
<1>9. CASE JoinWaits
  <2>1. PICK u \in Threads : target[currentThread] = u
    BY <1>8, <1>9 DEF JoinWaits
  <2>2. OthersStay([pc EXCEPT ![currentThread] = "joinWoken"])
    BY <1>9, JoinWaitsOK
  <2> QED
    BY <1>0, <1>9, <2>1, <2>2, JoinWaitsJoin
<1>10. CASE JoinReacquire
  <2>1. PICK u \in Threads : target[currentThread] = u
    BY <1>8, <1>10 DEF JoinReacquire
  <2> QED
    BY <1>0, <1>10, <2>1, JoinReacquireJoin
<1>11. CASE JoinReturns
  <2>1. PICK u \in Threads : target[currentThread] = u
    BY <1>8, <1>11 DEF JoinReturns
  <2> QED
    BY <1>0, <1>11, <2>1, JoinReturnsJoin
<1>12. ASSUME currentThread # NULL PROVE \E c \in Threads : c = currentThread
  BY <1>12 DEF TypeOK
<1>13. CASE FinishBlocked
  <2>1. PICK c \in Threads : c = currentThread
    BY <1>12, <1>13 DEF FinishBlocked
  <2>2. PICK place \in FinishPlaces :
           /\ OthersStay([pc EXCEPT ![currentThread] = place])
           /\ place = IF pc[currentThread] = "run" THEN "finishAcquire" ELSE pc[currentThread]
    BY <1>13, FinishBlockedOK
  <2> QED
    BY <1>0, <1>13, <2>1, <2>2, FinishBlockedJoin
<1>14. CASE FinishAwaitsJoin
  <2>1. PICK c \in Threads : c = currentThread
    BY <1>12, <1>14 DEF FinishAwaitsJoin, AtFinishTest
  <2>2. OthersStay([pc EXCEPT ![c] = "finishLoop"])
    BY <1>14, <2>1, FinishSleepsOK DEF FinishAwaitsJoin
  <2> QED
    BY <1>0, <1>14, <2>1, <2>2, FinishAwaitsJoinJoin
<1>15. CASE FinishAwaitsParent
  <2>1. PICK c \in Threads : c = currentThread
    BY <1>12, <1>15 DEF FinishAwaitsParent, AtFinishTest
  <2>2. OthersStay([pc EXCEPT ![c] = "finishLast"])
    BY <1>15, <2>1, FinishSleepsOK DEF FinishAwaitsParent
  <2> QED
    BY <1>0, <1>15, <2>1, <2>2, FinishAwaitsParentJoin
<1>16. CASE FinishEnds
  <2>1. PICK c \in Threads : c = currentThread
    BY <1>12, <1>16 DEF FinishEnds
  <2>2. OthersStay([pc EXCEPT ![c] = "dead"])
    BY <1>16, <2>1, FinishEndsOK
  <2> QED
    BY <1>0, <1>16, <2>1, <2>2, FinishEndsJoin
<1> QED
  BY SMT, <1>2, <1>3, <1>4, <1>5, <1>6, <1>7, <1>9, <1>10, <1>11, <1>13, <1>14, <1>15, <1>16
  DEF Next, Step, Halted

-----------------------------------------------------------------------------
(* No thread is lost or doubled by the scheduler, the locks and the        *)
(* conditions, whoever joins whom: every thread that was forked and has    *)
(* not finished runs, is ready or sleeps on one list, once.                *)
THEOREM ThreadsInOnePlace ==
    ASSUME ThreadsAssumption
    PROVE  Spec => [](TypeOK /\ OnePlace)
<1>1. Init => TypeOK /\ PlacesOK
  BY InitPlaces
<1>2. TypeOK /\ PlacesOK /\ [Next]_vars => (TypeOK /\ PlacesOK)'
  BY NextPlaces
<1>3. TypeOK /\ PlacesOK => TypeOK /\ OnePlace
  BY PlacesAreOne
<1> QED
  BY <1>1, <1>2, <1>3, PTL DEF Spec

(* The inductive invariant, when a thread is joined by its creator only.   *)
LEMMA JoinInvariance ==
    ASSUME ThreadsAssumption, OnlyParentJoins
    PROVE  Spec => [](TypeOK /\ PlacesOK /\ JoinOK)
<1>1. Init => TypeOK /\ PlacesOK /\ JoinOK
  BY InitPlaces, InitJoin
<1>2. TypeOK /\ PlacesOK /\ JoinOK /\ [Next]_vars => (TypeOK /\ PlacesOK /\ JoinOK)'
  BY NextPlaces, NextJoin
<1> QED
  BY <1>1, <1>2, PTL DEF Spec

(* When Scheduler::Run deletes a thread, no list holds it, nobody is in    *)
(* its Join, and its lock and condition are idle.                          *)
THEOREM DeletedThreadsUnused ==
    ASSUME ThreadsAssumption, OnlyParentJoins
    PROVE  Spec => []NoDangling
<1>1. ASSUME TypeOK, PlacesOK, JoinOK PROVE NoDangling
  <2> SUFFICES ASSUME NEW u \in Threads, pc[u] = "deleted"
               PROVE  /\ Whereabouts(u) = {}
                      /\ \A t \in Threads : target[t] # u
                      /\ mon[u] = NewMonitor
    BY DEF NoDangling
  <2>1. Whereabouts(u) = {}
    BY <1>1, PlacesAreOne DEF OnePlace
  <2>2. Unjoinable(u) \/ JoinDone(u)
    BY <1>1 DEF JoinOK, JoinPhase, NotJoined, JoinBegun, JoinAsleep, JoinMeets, Over
  <2> QED
    BY <2>1, <2>2 DEF Unjoinable, JoinDone, Joiners
<1> QED
  BY <1>1, JoinInvariance, PTL

(* Threads are in one place, and used by nobody when they are deleted.     *)
THEOREM ThreadsAreSound ==
    ASSUME ThreadsAssumption, OnlyParentJoins
    PROVE  Spec => []ThreadsSound
<1>1. TypeOK /\ OnePlace /\ NoDangling => ThreadsSound
  BY DEF ThreadsSound
<1> QED
  BY <1>1, ThreadsInOnePlace, DeletedThreadsUnused, PTL

(* Join returns only when the thread it waits for has come to the end of   *)
(* Finish.                                                                 *)
THEOREM JoinAfterFinish ==
    ASSUME ThreadsAssumption, OnlyParentJoins
    PROVE  Spec => JoinWaitsForFinish
<1>1. ASSUME TypeOK, PlacesOK, JoinOK, NEW t \in Threads, pc[t] = "joinHeldAgain"
      PROVE  pc[target[t]] = "finishLast"
  <2>1. PICK u \in Threads : u = target[t]
    BY <1>1 DEF JoinOK, JoinPlaces, TypeOK
  <2>2. t \in Joiners(u)
    BY <2>1 DEF Joiners
  <2>3. JoinMeets(u)
    BY <1>1, <2>2 DEF JoinOK, JoinPhase, Unjoinable, NotJoined, JoinBegun, JoinAsleep, JoinDone
  <2> QED
    BY <2>1, <2>3 DEF JoinMeets
<1>2. TypeOK /\ PlacesOK /\ JoinOK =>
         [\A t \in Threads :
             pc[t] = "joinHeldAgain" /\ pc'[t] = "run" => pc[target[t]] = "finishLast"]_vars
  BY <1>1
<1> QED
  BY <1>2, JoinInvariance, PTL DEF JoinWaitsForFinish
=============================================================================
