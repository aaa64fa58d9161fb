--------------------------- MODULE MonitorProofs ----------------------------
(***************************************************************************)
(* Locks and condition variables are correct for every set of threads,     *)
(* every assignment of priorities and every set of conditions.             *)
(***************************************************************************)
EXTENDS Monitor, ListTheorems

Queues == Seq(ElementsOf(Threads))

(* EnqueueProperties and DequeueProperties for the monitor's threads.      *)
LEMMA QueueInsert ==
    ASSUME NEW q \in Queues, PriorityQueue(q, Priority),
           NEW t \in Threads, t \notin Items(q)
    PROVE  /\ SortedInsert(q, t, -Priority[t]) \in Queues
           /\ Items(SortedInsert(q, t, -Priority[t])) = Items(q) \cup {t}
           /\ PriorityQueue(SortedInsert(q, t, -Priority[t]), Priority)
BY SynchAssumption, EnqueueProperties DEF Queues

LEMMA QueueRest ==
    ASSUME NEW q \in Queues, PriorityQueue(q, Priority), q # <<>>
    PROVE  /\ Head(q).item \in Items(q)
           /\ Rest(q) \in Queues
           /\ Items(Rest(q)) = Items(q) \ {Head(q).item}
           /\ PriorityQueue(Rest(q), Priority)
           /\ \A u \in Items(Rest(q)) : Priority[u] <= Priority[Head(q).item]
BY SynchAssumption, DequeueProperties DEF Queues

(* What the invariant says about each list and about the owner.            *)
Structure ==
    /\ m.locked \in {0, 1}
    /\ m.threadHeld \in Threads \cup {NULL}
    /\ m.queue \in Queues /\ PriorityQueue(m.queue, Priority)
    /\ m.waitQ \in [Conds -> Queues]
    /\ m.locked = 1 <=> m.threadHeld # NULL
    /\ m.threadHeld \notin entering
    /\ entering \subseteq Threads
    /\ Items(m.queue) \subseteq entering
    /\ \A c \in Conds :
          /\ m.waitQ[c] \in Queues /\ PriorityQueue(m.waitQ[c], Priority)
          /\ Items(m.waitQ[c]) \subseteq entering
          /\ Items(m.waitQ[c]) \cap Items(m.queue) = {}
          /\ \A d \in Conds \ {c} : Items(m.waitQ[c]) \cap Items(m.waitQ[d]) = {}

LEMMA InvStructure == Inv => Structure /\ m \in Monitors
<1> SUFFICES ASSUME Inv PROVE Structure /\ m \in Monitors
  OBVIOUS
<1>1. m \in Monitors
  BY DEF Inv, TypeOK
<1>2. \A c \in Conds : Items(m.waitQ[c]) \subseteq entering
  BY DEF Inv, TypeOK, Sleeping, Waiting
<1> QED BY <1>1, <1>2 DEF Inv, TypeOK, SleepsOnce, Queues, ElementsOf, Sleeping, Contending, Monitors, Structure

(* The constructors establish the invariant.                               *)
LEMMA InitInv == Init => Inv
<1> SUFFICES ASSUME Init PROVE Inv
  OBVIOUS
<1>1. /\ m.locked = 0 /\ m.threadHeld = NULL /\ m.queue = <<>>
      /\ m.waitQ = [c \in Conds |-> <<>>] /\ entering = {}
      /\ m \in Monitors
  BY DEF Init, NewMonitor, Monitors
<1>2. Items(<<>>) = {} /\ PriorityQueue(<<>>, Priority)
  BY DEF Items, Sorted, NoDuplicates, PriorityQueue
<1>3. Sleeping(m) = {}
  BY <1>1, <1>2 DEF Sleeping, Contending, Waiting
<1> QED BY <1>1, <1>2, <1>3 DEF Inv, TypeOK, SleepsOnce, NoLostWakeup

(* The parts of the invariant that Sleeping does not occur in, from facts  *)
(* about the fields of the new monitor.                                    *)
LEMMA InvFromFields ==
    ASSUME NEW locked \in {0, 1}, NEW held \in Threads \cup {NULL},
           NEW queue \in Queues, NEW waitQ \in [Conds -> Queues],
           m' = [locked |-> locked, threadHeld |-> held,
                 queue |-> queue, waitQ |-> waitQ],
           entering' \in SUBSET Threads,
           locked = 1 <=> held # NULL,
           held \notin entering',
           PriorityQueue(queue, Priority),
           Items(queue) \subseteq entering',
           \A c \in Conds : /\ PriorityQueue(waitQ[c], Priority)
                            /\ Items(waitQ[c]) \subseteq entering'
                            /\ Items(waitQ[c]) \cap Items(queue) = {}
                            /\ \A d \in Conds \ {c} : Items(waitQ[c]) \cap Items(waitQ[d]) = {},
           NoLostWakeup'
    PROVE  Inv'
<1>1. /\ m'.locked = locked /\ m'.threadHeld = held
      /\ m'.queue = queue /\ m'.waitQ = waitQ
  OBVIOUS
<1>2. Waiting(m') \subseteq entering'
  BY <1>1 DEF Waiting
<1>3. Sleeping(m') \subseteq entering'
  BY <1>1, <1>2 DEF Sleeping, Contending
<1>4. TypeOK'
  BY <1>1, <1>3 DEF TypeOK, Queues, ElementsOf, Monitors
<1>5. SleepsOnce'
  BY <1>1 DEF SleepsOnce
<1> QED BY <1>4, <1>5 DEF Inv

-----------------------------------------------------------------------------
(* Acquire: the caller goes to sleep on the lock's queue, or becomes the   *)
(* owner.                                                                  *)
LEMMA AcquireStep ==
    ASSUME Inv, NEW t \in Threads, DoAcquire(t)
    PROVE  /\ Inv'
           /\ m'.waitQ = m.waitQ
           /\ Items(m.queue) \subseteq Items(m'.queue)
<1>0. Structure /\ m \in Monitors
  BY InvStructure
<1>1. /\ t \notin Items(m.queue) /\ m.threadHeld # t
      /\ \A c \in Conds : t \notin Items(m.waitQ[c])
  BY DEF DoAcquire, Sleeping, Contending, Waiting, isHeldBy
<1>2. CASE m.locked = 1
  <2> DEFINE q == SortedInsert(m.queue, t, -Priority[t])
  <2>1. /\ m' = [locked |-> 1, threadHeld |-> m.threadHeld,
                 queue |-> q, waitQ |-> m.waitQ]
        /\ entering' = entering \cup {t}
    BY <1>0, <1>2 DEF DoAcquire, Acquire, Monitors
  <2>2. q \in Queues /\ Items(q) = Items(m.queue) \cup {t} /\ PriorityQueue(q, Priority)
    BY <1>0, <1>1, QueueInsert DEF Structure
  <2> HIDE DEF q
  <2>3. NoLostWakeup'
    BY <2>1 DEF NoLostWakeup
  <2>4. Inv'
    BY <1>0, <1>1, <1>2, <2>1, <2>2, <2>3, InvFromFields DEF Structure
  <2> QED BY <2>1, <2>2, <2>4
<1>3. CASE m.locked = 0
  <2>1. /\ m' = [locked |-> 1, threadHeld |-> t,
                 queue |-> m.queue, waitQ |-> m.waitQ]
        /\ entering' = entering \ {t}
    BY <1>0, <1>3 DEF DoAcquire, Acquire, Monitors
  <2>2. NoLostWakeup'
    BY <2>1 DEF NoLostWakeup
  <2>3. Inv'
    BY <1>0, <1>1, <2>1, <2>2, SynchAssumption, InvFromFields DEF Structure
  <2> QED BY <2>1, <2>3
<1> QED BY <1>0, <1>2, <1>3 DEF Structure

(* Release takes the first thread off the lock's queue, and that thread is *)
(* then on no list at all.                                                 *)
LEMMA ReleaseProperties ==
    ASSUME Inv
    PROVE  /\ Release(m) = [locked |-> 0, threadHeld |-> NULL,
                            queue |-> Rest(m.queue), waitQ |-> m.waitQ]
           /\ Rest(m.queue) \in Queues /\ PriorityQueue(Rest(m.queue), Priority)
           /\ Items(Rest(m.queue)) \subseteq Items(m.queue)
           /\ \A x \in Items(m.queue) \ Items(Rest(m.queue)) :
                 \A u \in Items(Rest(m.queue)) : Priority[u] <= Priority[x]
           /\ Rest(m.queue) # <<>> =>
                 \E h \in entering : /\ h \notin Items(Rest(m.queue))
                                     /\ \A c \in Conds : h \notin Items(m.waitQ[c])
<1>0. Structure /\ m \in Monitors
  BY InvStructure
<1>1. Release(m) = [locked |-> 0, threadHeld |-> NULL,
                    queue |-> Rest(m.queue), waitQ |-> m.waitQ]
  BY <1>0 DEF Release, Monitors
<1>2. CASE m.queue = <<>>
  <2>1. Rest(m.queue) = <<>>
    BY <1>2 DEF Rest
  <2> QED BY <1>0, <1>1, <1>2, <2>1 DEF Structure
<1>3. CASE m.queue # <<>>
  <2> DEFINE h == Head(m.queue).item
             r == Rest(m.queue)
  <2>1. /\ h \in Items(m.queue)
        /\ r \in Queues
        /\ Items(r) = Items(m.queue) \ {h}
        /\ PriorityQueue(r, Priority)
        /\ \A u \in Items(r) : Priority[u] <= Priority[h]
    BY <1>0, <1>3, QueueRest DEF Structure
  <2> HIDE DEF h, r
  <2>2. h \in entering /\ h \notin Items(r) /\ \A c \in Conds : h \notin Items(m.waitQ[c])
    BY <1>0, <2>1 DEF Structure
  <2> QED BY <1>1, <2>1, <2>2 DEF r
<1> QED BY <1>2, <1>3

LEMMA ReleaseStep ==
    ASSUME Inv, NEW t \in Threads, DoRelease(t)
    PROVE  Inv'
<1>0. Structure /\ m \in Monitors
  BY InvStructure
<1>1. /\ m' = [locked |-> 0, threadHeld |-> NULL,
               queue |-> Rest(m.queue), waitQ |-> m.waitQ]
      /\ entering' = entering
  BY ReleaseProperties DEF DoRelease
<1>2. NoLostWakeup'
  <2> SUFFICES ASSUME m'.queue # <<>> PROVE (entering \ Sleeping(m))' # {}
    BY DEF NoLostWakeup
  <2>1. PICK h \in entering : /\ h \notin Items(Rest(m.queue))
                              /\ \A c \in Conds : h \notin Items(m.waitQ[c])
    BY <1>1, ReleaseProperties
  <2> QED BY <1>1, <2>1 DEF Sleeping, Contending, Waiting
<1>3. NULL \notin entering
  BY <1>0, SynchAssumption DEF Structure
<1>4. /\ Rest(m.queue) \in Queues /\ PriorityQueue(Rest(m.queue), Priority)
      /\ Items(Rest(m.queue)) \subseteq Items(m.queue)
  BY ReleaseProperties
<1> QED BY <1>0, <1>1, <1>2, <1>3, <1>4, InvFromFields DEF Structure

(* Wait releases the lock and puts the caller, who was on no list, on the  *)
(* condition's list.                                                       *)
LEMMA WaitStep ==
    ASSUME Inv, NEW t \in Threads, NEW c \in Conds, DoWait(t, c)
    PROVE  /\ Inv'
           /\ m'.waitQ = [m.waitQ EXCEPT ![c] = SortedInsert(@, t, -Priority[t])]
           /\ Items(m'.waitQ[c]) = Items(m.waitQ[c]) \cup {t}
           /\ m'.queue = Rest(m.queue) /\ m'.locked = 0
<1>0. Structure /\ m \in Monitors
  BY InvStructure
<1> DEFINE q == SortedInsert(m.waitQ[c], t, -Priority[t])
           w == [m.waitQ EXCEPT ![c] = q]
<1>1. /\ m' = [locked |-> 0, threadHeld |-> NULL,
               queue |-> Rest(m.queue), waitQ |-> w]
      /\ entering' = entering \cup {t}
  BY <1>0, ReleaseProperties DEF DoWait, Wait
<1>2. /\ t = m.threadHeld /\ t \notin entering /\ t \notin Items(m.queue)
      /\ \A d \in Conds : t \notin Items(m.waitQ[d])
  BY <1>0 DEF DoWait, isHeldBy, Structure
<1>3. q \in Queues /\ Items(q) = Items(m.waitQ[c]) \cup {t} /\ PriorityQueue(q, Priority)
  BY <1>0, <1>2, QueueInsert DEF Structure
<1>4. /\ Rest(m.queue) \in Queues /\ PriorityQueue(Rest(m.queue), Priority)
      /\ Items(Rest(m.queue)) \subseteq Items(m.queue)
  BY ReleaseProperties
<1> HIDE DEF q
<1>5. w \in [Conds -> Queues] /\ w[c] = q /\ \A d \in Conds \ {c} : w[d] = m.waitQ[d]
  BY <1>0, <1>3 DEF Structure
<1>6. m'.waitQ = w /\ m'.queue = Rest(m.queue) /\ m'.locked = 0
  BY <1>1
<1> HIDE DEF w
<1>7. NoLostWakeup'
  <2> SUFFICES ASSUME m'.queue # <<>> PROVE (entering \ Sleeping(m))' # {}
    BY DEF NoLostWakeup
  <2>1. PICK h \in entering : /\ h \notin Items(Rest(m.queue))
                              /\ \A d \in Conds : h \notin Items(m.waitQ[d])
    BY <1>6, ReleaseProperties
  <2>2. \A d \in Conds : h \notin Items(w[d])
    BY <1>2, <1>3, <1>5, <2>1
  <2> QED BY <1>1, <1>6, <2>1, <2>2 DEF Sleeping, Contending, Waiting
<1>8. NULL \notin entering \cup {t}
  BY <1>0, SynchAssumption DEF Structure
<1>9. \A d \in Conds :
         /\ PriorityQueue(w[d], Priority)
         /\ Items(w[d]) \subseteq entering \cup {t}
         /\ Items(w[d]) \cap Items(Rest(m.queue)) = {}
         /\ \A e \in Conds \ {d} : Items(w[d]) \cap Items(w[e]) = {}
  BY <1>0, <1>2, <1>3, <1>4, <1>5 DEF Structure
<1>10. Inv'
  BY <1>0, <1>1, <1>4, <1>5, <1>7, <1>8, <1>9, InvFromFields DEF Structure
<1> QED BY <1>3, <1>5, <1>6, <1>10 DEF w, q

(* Signal and Broadcast leave fewer threads on one condition's list.       *)
LEMMA ShrinkStep ==
    ASSUME Inv, NEW t \in Threads, isHeldBy(m, t), NEW c \in Conds,
           NEW q \in Queues, PriorityQueue(q, Priority),
           Items(q) \subseteq Items(m.waitQ[c]),
           m' = [locked |-> m.locked, threadHeld |-> m.threadHeld, queue |-> m.queue,
                 waitQ |-> [m.waitQ EXCEPT ![c] = q]],
           UNCHANGED entering
    PROVE  /\ Inv'
           /\ m'.queue = m.queue /\ m'.locked = m.locked /\ m'.threadHeld = m.threadHeld
           /\ m'.waitQ = [m.waitQ EXCEPT ![c] = q]
<1>0. Structure /\ m \in Monitors
  BY InvStructure
<1> DEFINE w == [m.waitQ EXCEPT ![c] = q]
<1>1. m' = [locked |-> m.locked, threadHeld |-> m.threadHeld,
            queue |-> m.queue, waitQ |-> w]
  OBVIOUS
<1>2. w \in [Conds -> Queues] /\ w[c] = q /\ \A d \in Conds \ {c} : w[d] = m.waitQ[d]
  BY <1>0 DEF Structure
<1>3. m'.waitQ = w /\ m'.queue = m.queue /\ m'.locked = m.locked /\ m'.threadHeld = m.threadHeld
  BY <1>1
<1> HIDE DEF w
<1>4. m.locked = 1
  BY <1>0, SynchAssumption DEF isHeldBy, Structure
<1>5. NoLostWakeup'
  BY <1>3, <1>4 DEF NoLostWakeup
<1>6. \A d \in Conds :
         /\ PriorityQueue(w[d], Priority)
         /\ Items(w[d]) \subseteq entering'
         /\ Items(w[d]) \cap Items(m.queue) = {}
         /\ \A e \in Conds \ {d} : Items(w[d]) \cap Items(w[e]) = {}
  BY <1>0, <1>2 DEF Structure
<1>7. /\ m.locked \in {0, 1} /\ m.threadHeld \in Threads \cup {NULL}
      /\ m.queue \in Queues /\ PriorityQueue(m.queue, Priority)
      /\ m.locked = 1 <=> m.threadHeld # NULL
      /\ entering' = entering /\ entering' \in SUBSET Threads
      /\ m.threadHeld \notin entering' /\ Items(m.queue) \subseteq entering'
  BY <1>0 DEF Structure
<1>8. Inv'
  BY <1>1, <1>2, <1>5, <1>6, <1>7, InvFromFields
<1> QED BY <1>3, <1>8 DEF w

LEMMA SignalStep ==
    ASSUME Inv, NEW t \in Threads, NEW c \in Conds, DoSignal(t, c)
    PROVE  /\ Inv'
           /\ m'.queue = m.queue /\ m'.locked = m.locked /\ m'.threadHeld = m.threadHeld
           /\ m'.waitQ = [m.waitQ EXCEPT ![c] = Rest(@)]
           /\ \A x \in Items(m.waitQ[c]) \ Items(Rest(m.waitQ[c])) :
                 \A u \in Items(Rest(m.waitQ[c])) : Priority[u] <= Priority[x]
           /\ IF m.waitQ[c] = <<>> THEN Rest(m.waitQ[c]) = <<>>
              ELSE \E h \in Items(m.waitQ[c]) : Items(Rest(m.waitQ[c])) = Items(m.waitQ[c]) \ {h}
<1>0. Structure /\ m \in Monitors
  BY InvStructure
<1> DEFINE q == Rest(m.waitQ[c])
<1>1. /\ isHeldBy(m, t) /\ UNCHANGED entering
      /\ m' = [locked |-> m.locked, threadHeld |-> m.threadHeld, queue |-> m.queue,
               waitQ |-> [m.waitQ EXCEPT ![c] = q]]
  BY <1>0 DEF DoSignal, Signal, Monitors
<1>2. CASE m.waitQ[c] = <<>>
  <2>1. q = m.waitQ[c]
    BY <1>2 DEF Rest
  <2>2. q \in Queues /\ PriorityQueue(q, Priority) /\ Items(q) \subseteq Items(m.waitQ[c])
    BY <1>0, <2>1 DEF Structure
  <2> HIDE DEF q
  <2>3. /\ Inv'
        /\ m'.queue = m.queue /\ m'.locked = m.locked /\ m'.threadHeld = m.threadHeld
        /\ m'.waitQ = [m.waitQ EXCEPT ![c] = q]
    BY <1>1, <2>2, ShrinkStep
  <2> QED BY <1>2, <2>1, <2>3 DEF q
<1>3. CASE m.waitQ[c] # <<>>
  <2> DEFINE h == Head(m.waitQ[c]).item
  <2>1. /\ q \in Queues /\ PriorityQueue(q, Priority)
        /\ h \in Items(m.waitQ[c]) /\ Items(q) = Items(m.waitQ[c]) \ {h}
        /\ \A u \in Items(q) : Priority[u] <= Priority[h]
    BY <1>0, <1>3, QueueRest DEF Structure
  <2> HIDE DEF q, h
  <2>2. /\ Inv'
        /\ m'.queue = m.queue /\ m'.locked = m.locked /\ m'.threadHeld = m.threadHeld
        /\ m'.waitQ = [m.waitQ EXCEPT ![c] = q]
    BY <1>1, <2>1, ShrinkStep
  <2> QED BY <1>3, <2>1, <2>2 DEF q
<1> QED BY <1>2, <1>3

LEMMA BroadcastStep ==
    ASSUME Inv, NEW t \in Threads, NEW c \in Conds, DoBroadcast(t, c)
    PROVE  /\ Inv'
           /\ m'.queue = m.queue /\ m'.locked = m.locked /\ m'.threadHeld = m.threadHeld
           /\ m'.waitQ = [m.waitQ EXCEPT ![c] = <<>>]
<1>0. m \in Monitors
  BY InvStructure
<1>1. <<>> \in Queues /\ PriorityQueue(<<>>, Priority) /\ Items(<<>>) = {}
  BY DEF Queues, PriorityQueue, Items, NoDuplicates, Sorted
<1>2. /\ isHeldBy(m, t) /\ UNCHANGED entering
      /\ m' = [locked |-> m.locked, threadHeld |-> m.threadHeld, queue |-> m.queue,
               waitQ |-> [m.waitQ EXCEPT ![c] = <<>>]]
  BY <1>0 DEF DoBroadcast, Broadcast, Monitors
<1> QED BY <1>1, <1>2, ShrinkStep

LEMMA StutterStep == Inv /\ UNCHANGED vars => Inv'
BY DEF Inv, vars, TypeOK, SleepsOnce, NoLostWakeup

-----------------------------------------------------------------------------
(* The invariant is inductive.                                             *)
THEOREM Invariant == SafetySpec => []Inv
<1>1. Inv /\ [Next]_vars => Inv'
  BY AcquireStep, ReleaseStep, WaitStep, SignalStep, BroadcastStep, StutterStep DEF Next
<1> QED BY InitInv, <1>1, PTL DEF SafetySpec

(* The lock is marked taken exactly when it has an owner, and only threads *)
(* in Acquire or Wait are on its lists.                                    *)
THEOREM TypeCorrect == SafetySpec => []TypeOK
BY Invariant, PTL DEF Inv

(* No thread is ever asleep in two places, and the owner of the lock is    *)
(* never asleep on the monitor's lists.                                    *)
THEOREM NobodySleepsTwice == SafetySpec => []SleepsOnce
BY Invariant, PTL DEF Inv

(* Release never loses a wakeup: a free lock with sleepers has a thread on *)
(* its way to take it.                                                     *)
THEOREM NeverLosesAWakeup == SafetySpec => []NoLostWakeup
BY Invariant, PTL DEF Inv

-----------------------------------------------------------------------------
(* Release and Signal wake a thread of the highest priority on the list    *)
(* they take it from.                                                      *)
THEOREM WakesByPriority == SafetySpec => WakesHighestPriority
<1>1. Inv /\ [Next]_vars => [WakeOrder]_vars
  <2> SUFFICES ASSUME Inv, Next PROVE WakeOrder
    OBVIOUS
  <2>0. m.waitQ \in [Conds -> Queues]
    BY InvStructure DEF Structure
  <2> USE DEF WakeOrder, ByPriority
  <2>1. ASSUME NEW t \in Threads, DoAcquire(t) PROVE WakeOrder
    BY <2>1, AcquireStep
  <2>2. ASSUME NEW t \in Threads, DoRelease(t) PROVE WakeOrder
    <3>1. m'.queue = Rest(m.queue) /\ m'.waitQ = m.waitQ
      BY <2>2, ReleaseProperties DEF DoRelease
    <3> QED BY <3>1, ReleaseProperties
  <2>3. ASSUME NEW t \in Threads, NEW c \in Conds, DoWait(t, c) PROVE WakeOrder
    <3>1. /\ m'.queue = Rest(m.queue)
          /\ Items(m'.waitQ[c]) = Items(m.waitQ[c]) \cup {t}
          /\ m'.waitQ = [m.waitQ EXCEPT ![c] = SortedInsert(@, t, -Priority[t])]
      BY <2>3, WaitStep
    <3>2. \A d \in Conds \ {c} : m'.waitQ[d] = m.waitQ[d]
      BY <2>0, <3>1
    <3>3. \A d \in Conds : Items(m.waitQ[d]) \subseteq Items(m'.waitQ[d])
      BY <3>1, <3>2
    <3>4. \A d \in Conds : ByPriority(m.waitQ[d], m'.waitQ[d])
      BY <3>3
    <3>5. ByPriority(m.queue, m'.queue)
      BY <3>1, ReleaseProperties
    <3> QED BY <3>4, <3>5
  <2>4. ASSUME NEW t \in Threads, NEW c \in Conds, DoSignal(t, c) PROVE WakeOrder
    <3>1. /\ m'.queue = m.queue
          /\ m'.waitQ = [m.waitQ EXCEPT ![c] = Rest(@)]
          /\ ByPriority(m.waitQ[c], Rest(m.waitQ[c]))
      BY <2>4, SignalStep
    <3>2. /\ m'.waitQ[c] = Rest(m.waitQ[c])
          /\ \A d \in Conds \ {c} : m'.waitQ[d] = m.waitQ[d]
      BY <2>0, <3>1
    <3> QED BY <3>1, <3>2
  <2>5. ASSUME NEW t \in Threads, NEW c \in Conds, DoBroadcast(t, c) PROVE WakeOrder
    <3>1. /\ m'.queue = m.queue
          /\ m'.waitQ = [m.waitQ EXCEPT ![c] = <<>>]
      BY <2>5, BroadcastStep
    <3>2. /\ m'.waitQ[c] = <<>>
          /\ \A d \in Conds \ {c} : m'.waitQ[d] = m.waitQ[d]
      BY <2>0, <3>1
    <3>3. Items(<<>>) = {}
      BY DEF Items
    <3> QED BY <3>1, <3>2, <3>3
  <2> QED BY <2>1, <2>2, <2>3, <2>4, <2>5 DEF Next
<1> QED BY Invariant, <1>1, PTL DEF SafetySpec, WakesHighestPriority

-----------------------------------------------------------------------------
(* Locks with condition variables are Mesa monitors.                       *)

inside == IF m.locked = 1 THEN {m.threadHeld} ELSE {}
outside == entering \ Waiting(m)
waiting == [c \in Conds |-> Items(m.waitQ[c])]

LEMMA AcquireMaps ==
    ASSUME Inv, NEW t \in Threads, DoAcquire(t)
    PROVE  Abstract!Block(t) \/ Abstract!Enter(t)
<1>0. Structure /\ m \in Monitors
  BY InvStructure
<1>1. /\ t \notin Waiting(m) /\ m.threadHeld # t
      /\ \A c \in Conds : t \notin Items(m.waitQ[c])
  BY DEF DoAcquire, Sleeping, Waiting, isHeldBy
<1>2. m'.waitQ = m.waitQ
  BY AcquireStep
<1>3. waiting' = waiting /\ Waiting(m)' = Waiting(m)
  BY <1>2 DEF waiting, Waiting
<1>4. CASE m.locked = 1
  <2>1. m'.locked = 1 /\ m'.threadHeld = m.threadHeld /\ entering' = entering \cup {t}
    BY <1>0, <1>4 DEF DoAcquire, Acquire, Monitors
  <2>2. outside' = outside \cup {t} /\ inside' = inside /\ inside = {m.threadHeld}
    BY <1>1, <1>3, <1>4, <2>1 DEF outside, inside
  <2>3. Abstract!Block(t)
    BY <1>1, <1>3, <2>2 DEF Abstract!Block, inside, outside, waiting
  <2> QED BY <2>3
<1>5. CASE m.locked = 0
  <2>1. m'.locked = 1 /\ m'.threadHeld = t /\ entering' = entering \ {t}
    BY <1>0, <1>5 DEF DoAcquire, Acquire, Monitors
  <2>2. outside' = outside \ {t} /\ inside' = {t} /\ inside = {}
    BY <1>1, <1>3, <1>5, <2>1 DEF outside, inside
  <2>3. Abstract!Enter(t)
    BY <1>1, <1>3, <2>2 DEF Abstract!Enter, inside, outside, waiting
  <2> QED BY <2>3
<1> QED BY <1>0, <1>4, <1>5 DEF Structure

LEMMA ReleaseMaps ==
    ASSUME Inv, NEW t \in Threads, DoRelease(t)
    PROVE  Abstract!Leave(t)
<1>0. Structure
  BY InvStructure
<1>1. m'.locked = 0 /\ m'.waitQ = m.waitQ /\ entering' = entering
  BY ReleaseProperties DEF DoRelease
<1>2. waiting' = waiting /\ Waiting(m)' = Waiting(m) /\ outside' = outside
  BY <1>1 DEF waiting, Waiting, outside
<1>3. inside = {t} /\ inside' = {}
  BY <1>0, <1>1, SynchAssumption DEF DoRelease, isHeldBy, Structure, inside
<1> QED BY <1>2, <1>3 DEF Abstract!Leave, inside, outside, waiting

LEMMA WaitMaps ==
    ASSUME Inv, NEW t \in Threads, NEW c \in Conds, DoWait(t, c)
    PROVE  Abstract!Wait(t, c)
<1>0. Structure
  BY InvStructure
<1>1. /\ m'.locked = 0
      /\ m'.waitQ = [m.waitQ EXCEPT ![c] = SortedInsert(@, t, -Priority[t])]
      /\ Items(m'.waitQ[c]) = Items(m.waitQ[c]) \cup {t}
  BY WaitStep
<1>2. \A d \in Conds \ {c} : m'.waitQ[d] = m.waitQ[d]
  BY <1>0, <1>1 DEF Structure
<1>3. waiting' = [waiting EXCEPT ![c] = @ \cup {t}]
  BY <1>1, <1>2 DEF waiting
<1>4. Waiting(m)' = Waiting(m) \cup {t}
  BY <1>1, <1>2 DEF Waiting
<1>5. inside = {t} /\ inside' = {}
  BY <1>0, <1>1, SynchAssumption DEF DoWait, isHeldBy, Structure, inside
<1>6. t \notin entering /\ entering' = entering \cup {t}
  BY <1>0 DEF DoWait, isHeldBy, Structure
<1>7. outside' = outside
  BY <1>4, <1>6 DEF outside
<1> QED BY <1>3, <1>5, <1>7 DEF Abstract!Wait, inside, outside, waiting

(* What Signal and Broadcast change: the threads in woken stop waiting on  *)
(* c, and since nobody waits twice they are then outside and not waiting.  *)
LEMMA WakeMaps ==
    ASSUME Inv, NEW t \in Threads, isHeldBy(m, t), NEW c \in Conds,
           NEW woken \in SUBSET Items(m.waitQ[c]),
           Items(m'.waitQ[c]) = Items(m.waitQ[c]) \ woken,
           \A d \in Conds \ {c} : m'.waitQ[d] = m.waitQ[d],
           m'.locked = m.locked, m'.threadHeld = m.threadHeld,
           entering' = entering
    PROVE  /\ inside = {t} /\ inside' = inside
           /\ waiting' = [waiting EXCEPT ![c] = @ \ woken]
           /\ outside' = outside \cup woken
<1>0. Structure
  BY InvStructure
<1>1. inside = {t} /\ inside' = inside
  BY <1>0, SynchAssumption DEF isHeldBy, Structure, inside
<1>2. waiting' = [waiting EXCEPT ![c] = @ \ woken]
  BY DEF waiting
<1>3. \A d \in Conds \ {c} : woken \cap Items(m.waitQ[d]) = {}
  BY <1>0 DEF Structure
<1>4. Waiting(m)' = Waiting(m) \ woken
  BY <1>3 DEF Waiting
<1>5. woken \subseteq entering
  BY <1>0 DEF Structure
<1>6. outside' = outside \cup woken
  BY <1>4, <1>5 DEF outside
<1> QED BY <1>1, <1>2, <1>6

LEMMA SignalMaps ==
    ASSUME Inv, NEW t \in Threads, NEW c \in Conds, DoSignal(t, c)
    PROVE  Abstract!Signal(t, c)
<1>0. m.waitQ \in [Conds -> Queues]
  BY InvStructure DEF Structure
<1>1. isHeldBy(m, t) /\ entering' = entering
  BY DEF DoSignal
<1>2. /\ m'.locked = m.locked /\ m'.threadHeld = m.threadHeld
      /\ m'.waitQ = [m.waitQ EXCEPT ![c] = Rest(@)]
  BY SignalStep
<1>3. /\ m'.waitQ[c] = Rest(m.waitQ[c])
      /\ \A d \in Conds \ {c} : m'.waitQ[d] = m.waitQ[d]
  BY <1>0, <1>2
<1>4. Items(<<>>) = {}
  BY DEF Items
<1>5. CASE m.waitQ[c] = <<>>
  <2>1. Items(m.waitQ[c]) = {} /\ Items(m'.waitQ[c]) = Items(m.waitQ[c]) \ {}
    BY <1>3, <1>4, <1>5, SignalStep
  <2>2. /\ inside = {t} /\ inside' = inside
        /\ waiting' = [waiting EXCEPT ![c] = @ \ {}]
        /\ outside' = outside \cup {}
    BY <1>1, <1>2, <1>3, <2>1, WakeMaps
  <2>3. waiting[c] = {} /\ waiting' = waiting /\ outside' = outside
    BY <2>1, <2>2 DEF waiting
  <2> QED BY <2>2, <2>3 DEF Abstract!Signal, inside, outside, waiting
<1>6. CASE m.waitQ[c] # <<>>
  <2>1. PICK h \in Items(m.waitQ[c]) : Items(Rest(m.waitQ[c])) = Items(m.waitQ[c]) \ {h}
    BY <1>6, SignalStep
  <2>2. {h} \in SUBSET Items(m.waitQ[c]) /\ Items(m'.waitQ[c]) = Items(m.waitQ[c]) \ {h}
    BY <1>3, <2>1
  <2>3. /\ inside = {t} /\ inside' = inside
        /\ waiting' = [waiting EXCEPT ![c] = @ \ {h}]
        /\ outside' = outside \cup {h}
    BY <1>1, <1>2, <1>3, <2>2, WakeMaps
  <2>4. h \in waiting[c]
    BY <2>1 DEF waiting
  <2> QED BY <2>3, <2>4 DEF Abstract!Signal, inside, outside, waiting
<1> QED BY <1>5, <1>6

LEMMA BroadcastMaps ==
    ASSUME Inv, NEW t \in Threads, NEW c \in Conds, DoBroadcast(t, c)
    PROVE  Abstract!Broadcast(t, c)
<1>0. m.waitQ \in [Conds -> Queues]
  BY InvStructure DEF Structure
<1>1. isHeldBy(m, t) /\ entering' = entering
  BY DEF DoBroadcast
<1>2. /\ m'.locked = m.locked /\ m'.threadHeld = m.threadHeld
      /\ m'.waitQ = [m.waitQ EXCEPT ![c] = <<>>]
  BY BroadcastStep
<1> DEFINE woken == Items(m.waitQ[c])
<1>3. /\ m'.waitQ[c] = <<>> /\ Items(<<>>) = {}
      /\ \A d \in Conds \ {c} : m'.waitQ[d] = m.waitQ[d]
  BY <1>0, <1>2 DEF Items
<1>4. woken \in SUBSET Items(m.waitQ[c]) /\ Items(m'.waitQ[c]) = Items(m.waitQ[c]) \ woken
  BY <1>3
<1>5. woken = waiting[c]
  BY DEF waiting
<1> HIDE DEF woken
<1>6. /\ inside = {t} /\ inside' = inside
      /\ waiting' = [waiting EXCEPT ![c] = @ \ woken]
      /\ outside' = outside \cup woken
  BY <1>1, <1>2, <1>3, <1>4, WakeMaps
<1>7. waiting' = [waiting EXCEPT ![c] = {}] /\ outside' = outside \cup waiting[c]
  BY <1>5, <1>6 DEF waiting
<1> QED BY <1>6, <1>7 DEF Abstract!Broadcast, inside, outside, waiting

(* Every step of Lock and Condition is a step of the Mesa monitor.         *)
THEOREM ImplementsMesaMonitor == SafetySpec => ImplementsSafety
<1>1. Init => Abstract!Init
  <2> SUFFICES ASSUME Init PROVE Abstract!Init
    OBVIOUS
  <2>1. /\ m.locked = 0 /\ entering = {} /\ Items(<<>>) = {}
        /\ m.waitQ = [c \in Conds |-> <<>>]
    BY DEF Init, NewMonitor, Items
  <2> QED BY <2>1 DEF Abstract!Init
<1>2. Inv /\ [Next]_vars => [Abstract!Next]_(Abstract!vars)
  <2> SUFFICES ASSUME Inv, [Next]_vars PROVE [Abstract!Next]_(Abstract!vars)
    OBVIOUS
  <2>1. CASE Next
    BY <2>1, AcquireMaps, ReleaseMaps, WaitMaps, SignalMaps, BroadcastMaps DEF Next, Abstract!Next
  <2>2. CASE UNCHANGED vars
    BY <2>2 DEF vars, Abstract!vars, Waiting
  <2> QED BY <2>1, <2>2
<1> QED BY Invariant, <1>1, <1>2, PTL DEF SafetySpec, ImplementsSafety, Abstract!SafetySpec
=============================================================================
