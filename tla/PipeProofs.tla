----------------------------- MODULE PipeProofs -----------------------------
(***************************************************************************)
(* The pipe is a FIFO queue, sleeps only with reason and is deleted only   *)
(* when nobody is inside it, for every capacity and every number of calls. *)
(***************************************************************************)
EXTENDS Pipe, ListTheorems, SequenceTheorems

Queues == Seq(ElementsOf(Threads))

(* The part of the invariant about the ring and the histories.             *)
RingOK ==
    /\ buffer \in [0..(Capacity - 1) -> Bytes \cup {0}] /\ ch \in Bytes \cup {0}
    /\ size \in 0..Capacity /\ start \in 0..Capacity /\ end \in 0..(Capacity - 1)
    /\ start + size \in {end, end + Capacity, end + 2 * Capacity}
    /\ accepted \in Seq(Bytes \cup {0}) /\ got \in Seq(Bytes \cup {0})
    /\ InOrder

(* The part about the processes.  An end is open while its process is      *)
(* there, and only a process inside Read or Write has anything to do with  *)
(* the monitor.                                                            *)
UsersOK ==
    /\ m \in Monitors
    /\ inOpen \in {0, 1} /\ outOpen \in {0, 1}
    /\ freePipe \in BOOLEAN /\ deleted \in BOOLEAN
    /\ pc \in [Threads -> {"none", "user", "read", "write", "exited"}]
    /\ inOpen = 1 <=> pc[reader] \in {"user", "read"}
    /\ outOpen = 1 <=> pc[writer] \in {"user", "write"}
    /\ pc[reader] # "write" /\ pc[writer] # "read"
    /\ deleted => inOpen = 0 /\ outOpen = 0
    /\ m.locked = 1 <=> m.threadHeld # NULL
    /\ \A t \in Threads :
          /\ m.threadHeld = t \/ t \in Sleeping(m) => pc[t] \in {"read", "write"}
          /\ ~(m.threadHeld = t /\ t \in Sleeping(m))
    /\ SleepJustified

(* The inductive invariant.                                                *)
Inv == RingOK /\ UsersOK

-----------------------------------------------------------------------------

(* SortedInsertProperties for the pipe's processes.                        *)
LEMMA QueueInsert ==
    ASSUME NEW q \in Queues, NEW t \in Threads
    PROVE  /\ SortedInsert(q, t, -Priority[t]) \in Queues
           /\ Items(SortedInsert(q, t, -Priority[t])) = Items(q) \cup {t}
<1>1. ASSUME NEW list \in Seq(ElementsOf(Threads)), NEW k \in Int
      PROVE  Items(SortedInsert(list, t, k)) = Items(list) \cup {t}
  BY SortedInsertProperties
<1>2. ASSUME NEW list \in Seq(ElementsOf(Threads)), NEW k \in Int
      PROVE  SortedInsert(list, t, k) \in Seq(ElementsOf(Threads))
  BY SortedInsertProperties
<1>3. -Priority[t] \in Int
  BY SynchAssumption
<1> QED BY <1>1, <1>2, <1>3, Zenon DEF Queues

(* Who sleeps on a monitor with one condition.                             *)
LEMMA WaitingOf ==
    ASSUME NEW x
    PROVE  /\ Waiting(x) = Items(x.waitQ["bufferCV"])
           /\ Sleeping(x) = Items(x.queue) \cup Items(x.waitQ["bufferCV"])
BY PipeAssumption DEF Waiting, Sleeping, Contending

(* What Acquire, Release, Wait and Broadcast do to a monitor.              *)
LEMMA AcquireEffect ==
    ASSUME NEW x \in Monitors, NEW t \in Threads
    PROVE  /\ Acquire(x, t) \in Monitors
           /\ Waiting(Acquire(x, t)) = Waiting(x)
           /\ \/ /\ Sleeping(Acquire(x, t)) = Sleeping(x) \cup {t}
                 /\ Acquire(x, t).threadHeld = x.threadHeld
              \/ /\ Sleeping(Acquire(x, t)) = Sleeping(x)
                 /\ Acquire(x, t).threadHeld = t
           /\ (x.locked = 1 <=> x.threadHeld # NULL)
                 => (Acquire(x, t).locked = 1 <=> Acquire(x, t).threadHeld # NULL)
<1>1. /\ x.locked \in {0, 1} /\ x.threadHeld \in Threads \cup {NULL}
      /\ x.queue \in Queues /\ x.waitQ \in [Conds -> Queues]
  BY Zenon DEF Monitors, Queues, ElementsOf
<1> DEFINE q == SortedInsert(x.queue, t, -Priority[t])
<1>2. q \in Queues /\ Items(q) = Items(x.queue) \cup {t}
  BY <1>1, QueueInsert, Zenon
<1> HIDE DEF q
<1>3. CASE x.locked = 1
  <2>1. Acquire(x, t) = [x EXCEPT !.queue = q]
    BY <1>3 DEF Acquire, q
  <2>2. /\ Acquire(x, t) \in Monitors
        /\ Acquire(x, t).queue = q /\ Acquire(x, t).waitQ = x.waitQ
        /\ Acquire(x, t).locked = x.locked /\ Acquire(x, t).threadHeld = x.threadHeld
    BY <1>1, <1>2, <2>1, Zenon DEF Monitors, Queues, ElementsOf
  <2> QED BY <1>2, <2>2, WaitingOf
<1>4. CASE x.locked # 1
  <2>1. Acquire(x, t) = [locked |-> 1, threadHeld |-> t, queue |-> x.queue, waitQ |-> x.waitQ]
    BY <1>4 DEF Acquire
  <2>2. /\ Acquire(x, t) \in Monitors
        /\ Acquire(x, t).queue = x.queue /\ Acquire(x, t).waitQ = x.waitQ
        /\ Acquire(x, t).locked = 1 /\ Acquire(x, t).threadHeld = t
    <3> DEFINE y == [locked |-> 1, threadHeld |-> t, queue |-> x.queue, waitQ |-> x.waitQ]
    <3>1. y \in Monitors
      BY <1>1, Zenon DEF Monitors, Queues, ElementsOf
    <3> QED BY <2>1, <3>1
  <2> QED BY <2>2, WaitingOf, SynchAssumption, Zenon
<1> QED BY <1>3, <1>4

LEMMA ReleaseEffect ==
    ASSUME NEW x \in Monitors
    PROVE  /\ Release(x) \in Monitors
           /\ Waiting(Release(x)) = Waiting(x)
           /\ Sleeping(Release(x)) \subseteq Sleeping(x)
           /\ Release(x).locked = 0 /\ Release(x).threadHeld = NULL
<1>1. x.queue \in Queues /\ x.waitQ \in [Conds -> Queues]
  BY Zenon DEF Monitors, Queues, ElementsOf
<1>2. Rest(x.queue) \in Queues /\ Items(Rest(x.queue)) \subseteq Items(x.queue)
  <2>1. CASE x.queue = <<>>
    BY <1>1, <2>1 DEF Rest
  <2>2. CASE x.queue # <<>>
    BY <1>1, <2>2, RestProperties DEF Queues
  <2> QED BY <2>1, <2>2
<1>3. /\ Release(x) \in Monitors
      /\ Release(x).queue = Rest(x.queue) /\ Release(x).waitQ = x.waitQ
      /\ Release(x).locked = 0 /\ Release(x).threadHeld = NULL
  BY <1>1, <1>2, Zenon DEF Release, Monitors, Queues, ElementsOf
<1> QED BY <1>2, <1>3, WaitingOf

LEMMA WaitEffect ==
    ASSUME NEW x \in Monitors, NEW t \in Threads
    PROVE  /\ Wait(x, "bufferCV", t) \in Monitors
           /\ Waiting(Wait(x, "bufferCV", t)) = Waiting(x) \cup {t}
           /\ Sleeping(Wait(x, "bufferCV", t)) \subseteq Sleeping(x) \cup {t}
           /\ Wait(x, "bufferCV", t).locked = 0 /\ Wait(x, "bufferCV", t).threadHeld = NULL
<1> DEFINE r == Release(x)
           w == SortedInsert(r.waitQ["bufferCV"], t, -Priority[t])
           y == [r EXCEPT !.waitQ = [@ EXCEPT !["bufferCV"] = w]]
<1>1. /\ r \in Monitors /\ Waiting(r) = Waiting(x) /\ Sleeping(r) \subseteq Sleeping(x)
      /\ r.locked = 0 /\ r.threadHeld = NULL
  BY ReleaseEffect
<1>2. Wait(x, "bufferCV", t) = y
  BY DEF Wait
<1> HIDE DEF r
<1>3. r.queue \in Queues /\ r.waitQ["bufferCV"] \in Queues /\ r.waitQ \in [Conds -> Queues]
  BY <1>1, PipeAssumption DEF Monitors, Queues, ElementsOf
<1>4. w \in Queues /\ Items(w) = Items(r.waitQ["bufferCV"]) \cup {t}
  BY <1>3, QueueInsert
<1> HIDE DEF w
<1>5. /\ y \in Monitors /\ y.queue = r.queue /\ y.waitQ["bufferCV"] = w
      /\ y.locked = 0 /\ y.threadHeld = NULL
  BY <1>1, <1>3, <1>4, PipeAssumption, Zenon DEF Monitors, Queues, ElementsOf
<1> HIDE DEF y
<1> QED BY <1>1, <1>2, <1>4, <1>5, WaitingOf

LEMMA BroadcastEffect ==
    ASSUME NEW x \in Monitors
    PROVE  /\ Broadcast(x, "bufferCV") \in Monitors
           /\ Waiting(Broadcast(x, "bufferCV")) = {}
           /\ Sleeping(Broadcast(x, "bufferCV")) \subseteq Sleeping(x)
           /\ Broadcast(x, "bufferCV").locked = x.locked
           /\ Broadcast(x, "bufferCV").threadHeld = x.threadHeld
<1> DEFINE y == [x EXCEPT !.waitQ = [@ EXCEPT !["bufferCV"] = <<>>]]
<1>1. Broadcast(x, "bufferCV") = y
  BY DEF Broadcast
<1>2. y \in Monitors /\ y.queue = x.queue /\ y.waitQ["bufferCV"] = <<>>
        /\ y.locked = x.locked /\ y.threadHeld = x.threadHeld
  <2>1. x.waitQ \in [Conds -> Queues] /\ <<>> \in Queues
    <3>1. <<>> \in Queues
      BY DEF Queues
    <3>2. x.waitQ \in [Conds -> Queues]
      BY Zenon DEF Monitors, Queues, ElementsOf
    <3> QED BY <3>1, <3>2
  <2>2. [x.waitQ EXCEPT !["bufferCV"] = <<>>] \in [Conds -> Queues]
    BY <2>1, Zenon
  <2>3. [x.waitQ EXCEPT !["bufferCV"] = <<>>]["bufferCV"] = <<>>
    BY <2>1, PipeAssumption
  <2> QED BY <2>2, <2>3, Zenon DEF Monitors, Queues, ElementsOf
<1>3. Items(<<>>) = {}
  BY DEF Items
<1> HIDE DEF y
<1> QED BY <1>1, <1>2, <1>3, WaitingOf

-----------------------------------------------------------------------------
(* Taking the first of the bytes c that follow g, and adding one to them.  *)
LEMMA TakeOrder ==
    ASSUME NEW B, NEW g \in Seq(B), NEW c \in Seq(B), c # <<>>
    PROVE  Append(g, Head(c)) \o Tail(c) = g \o c
<1> DEFINE h == Append(g, Head(c))
           l == h \o Tail(c)
           r == g \o c
<1>1. /\ Tail(c) \in Seq(B) /\ Len(Tail(c)) = Len(c) - 1 /\ Len(c) \in Nat \ {0}
      /\ h \in Seq(B) /\ Len(h) = Len(g) + 1 /\ Len(g) \in Nat
  BY HeadTailProperties, EmptySeq
<1>2. r \in Seq(B) /\ Len(r) = Len(g) + Len(c)
  BY ConcatProperties
<1>3. l \in Seq(B) /\ Len(l) = Len(r)
  <2> HIDE DEF h
  <2>1. l \in Seq(B) /\ Len(l) = Len(h) + Len(Tail(c))
    BY <1>1, ConcatProperties, Zenon
  <2> QED BY <1>1, <1>2, <2>1
<1>4. ASSUME NEW i \in 1..Len(l) PROVE l[i] = r[i]
  BY <1>1, <1>2, <1>3
<1> QED BY <1>2, <1>3, <1>4, SeqEqual

LEMMA PutOrder ==
    ASSUME NEW B, NEW g \in Seq(B), NEW c \in Seq(B), NEW b \in B
    PROVE  g \o Append(c, b) = Append(g \o c, b)
OBVIOUS

-----------------------------------------------------------------------------
(* The bytes in the ring occupy different places, one after another.       *)
LEMMA SlotProperties ==
    ASSUME RingOK
    PROVE  /\ \A i \in 1..size : Slot(i) \in 0..(Capacity - 1)
           /\ \A i, j \in 1..size : Slot(i) = Slot(j) => i = j
           /\ Contents \in [1..size -> Bytes \cup {0}]
           /\ \A i \in 1..size : Contents[i] = buffer[Slot(i)]
<1>1. /\ size \in 0..Capacity /\ start \in 0..Capacity /\ Capacity \in Nat
      /\ buffer \in [0..(Capacity - 1) -> Bytes \cup {0}]
  BY PipeAssumption DEF RingOK
<1>2. \A i \in 1..size : Slot(i) \in 0..(Capacity - 1)
  BY <1>1 DEF Slot
<1>3. \A i, j \in 1..size : Slot(i) = Slot(j) => i = j
  BY <1>1 DEF Slot
<1> QED BY <1>1, <1>2, <1>3 DEF Contents

LEMMA TakeRing ==
    ASSUME RingOK, Take
    PROVE  RingOK'
<1> DEFINE B == Bytes \cup {0}
<1>1. /\ size \in 1..Capacity /\ start \in 0..Capacity /\ end \in 0..(Capacity - 1)
      /\ Capacity \in Nat \ {0} /\ start + size \in {end, end + Capacity, end + 2 * Capacity}
      /\ buffer \in [0..(Capacity - 1) -> B] /\ got \in Seq(B) /\ accepted \in Seq(B)
  BY PipeAssumption DEF RingOK, Take
<1>2. /\ size' = size - 1 /\ start' = Wrapped + 1 /\ end' = end
      /\ got' = Append(got, buffer[Wrapped]) /\ accepted' = accepted /\ ch' = ch
      /\ buffer' = [buffer EXCEPT ![Wrapped] = 0]
  BY DEF Take
<1>3. Wrapped \in 0..(Capacity - 1) /\ Slot(1) = Wrapped
  BY <1>1 DEF Wrapped, Slot
<1>4. /\ buffer' \in [0..(Capacity - 1) -> B]
      /\ \A k \in 0..(Capacity - 1) : k # Wrapped => buffer'[k] = buffer[k]
  BY <1>1, <1>2, Zenon
<1>5. \A i \in 1..(size - 1) : Slot(i)' = Slot(i + 1)
  BY <1>1, <1>2 DEF Slot, Wrapped
<1>6. \A i \in 1..(size - 1) : Slot(i + 1) \in 0..(Capacity - 1) /\ Slot(i + 1) # Wrapped
  BY <1>1, <1>3, SlotProperties
<1>7. /\ Contents' \in [1..(size - 1) -> B]
      /\ \A i \in 1..(size - 1) : Contents'[i] = Contents[i + 1]
  <2>1. Contents' = [i \in 1..(size - 1) |-> buffer'[Slot(i)']]
    BY <1>2 DEF Contents
  <2>2. \A i \in 1..(size - 1) : buffer'[Slot(i)'] = buffer[Slot(i + 1)] /\ buffer[Slot(i + 1)] \in B
    BY <1>1, <1>4, <1>5, <1>6, SMTT(30)
  <2>3. \A i \in 1..(size - 1) : Contents[i + 1] = buffer[Slot(i + 1)]
    BY <1>1, SlotProperties
  <2> HIDE DEF B
  <2> QED BY <2>1, <2>2, <2>3
<1>8. Contents \in [1..size -> B] /\ Contents[1] = buffer[Wrapped]
  BY <1>1, <1>3, SlotProperties, SMTT(30)
<1>9. InOrder'
  <2>1. /\ accepted = got \o Contents /\ got \in Seq(B)
        /\ Contents \in Seq(B) /\ Contents # <<>> /\ Head(Contents) = buffer[Wrapped]
    BY <1>1, <1>8 DEF RingOK, InOrder
  <2>2. Contents' = Tail(Contents)
    BY <1>1, <1>7, <1>8
  <2> HIDE DEF B
  <2>3. Append(got, Head(Contents)) \o Tail(Contents) = got \o Contents
    BY <2>1, TakeOrder
  <2> QED BY <1>2, <2>1, <2>2, <2>3, SMTT(30) DEF InOrder
<1>10. size' \in 0..Capacity /\ start' \in 0..Capacity /\ end' \in 0..(Capacity - 1)
  BY <1>1, <1>2, <1>3
<1>11. (start + size \in {end, end + Capacity, end + 2 * Capacity})'
  BY <1>1, <1>2 DEF Wrapped
<1>12. got' \in Seq(B) /\ accepted' \in Seq(B) /\ ch' \in B
  BY <1>1, <1>2, <1>3 DEF RingOK
<1> QED BY <1>4, <1>9, <1>10, <1>11, <1>12, Zenon DEF RingOK

LEMMA PutRing ==
    ASSUME RingOK, Put
    PROVE  RingOK'
<1> DEFINE B == Bytes \cup {0}
<1>1. /\ size \in 0..(Capacity - 1) /\ start \in 0..Capacity /\ end \in 0..(Capacity - 1)
      /\ Capacity \in Nat \ {0} /\ start + size \in {end, end + Capacity, end + 2 * Capacity}
      /\ buffer \in [0..(Capacity - 1) -> B] /\ got \in Seq(B) /\ accepted \in Seq(B)
      /\ ch \in B
  BY PipeAssumption DEF RingOK, Put
<1>2. /\ size' = size + 1 /\ start' = start /\ end' = NextEnd
      /\ got' = got /\ accepted' = Append(accepted, ch) /\ ch' = ch
      /\ buffer' = [buffer EXCEPT ![end] = ch]
  BY DEF Put
<1>3. /\ \A i \in 1..size + 1 : Slot(i)' = Slot(i)
      /\ Slot(size + 1) = end
      /\ \A i \in 1..size : Slot(i) # end
  BY <1>1, <1>2 DEF Slot
<1>4. /\ buffer' \in [0..(Capacity - 1) -> B] /\ buffer'[end] = ch
      /\ \A k \in 0..(Capacity - 1) : k # end => buffer'[k] = buffer[k]
  BY <1>1, <1>2
<1>5. Contents \in [1..size -> B]
  BY SlotProperties
<1>6. /\ Contents' \in [1..(size + 1) -> B]
      /\ \A i \in 1..size : Contents'[i] = Contents[i]
      /\ Contents'[size + 1] = ch
  <2>1. Contents' = [i \in 1..(size + 1) |-> buffer'[Slot(i)']]
    BY <1>2 DEF Contents
  <2>2. \A i \in 1..size : buffer'[Slot(i)'] = Contents[i] /\ Contents[i] \in B
    BY <1>1, <1>3, <1>4, SlotProperties
  <2>3. \A i \in 1..(size + 1) : i = size + 1 => buffer'[Slot(i)'] = ch
    BY <1>1, <1>3, <1>4
  <2>4. /\ \A i \in 1..(size + 1) : i \in 1..size \/ i = size + 1
        /\ \A i \in 1..size : i \in 1..(size + 1)
        /\ size + 1 \in 1..(size + 1)
    BY <1>1
  <2>5. \A i \in 1..(size + 1) : Contents'[i] = buffer'[Slot(i)']
    BY <2>1, Zenon
  <2>6. \A i \in 1..size : Contents'[i] = Contents[i]
    BY <2>2, <2>4, <2>5, Zenon
  <2>7. Contents'[size + 1] = ch
    BY <2>3, <2>4, <2>5, Zenon
  <2>8. ch \in B
    BY <1>1
  <2>9. \A i \in 1..(size + 1) : buffer'[Slot(i)'] \in B
    <3> HIDE DEF B
    <3> QED BY <2>2, <2>3, <2>4, <2>8, Zenon
  <2>10. Contents' \in [1..(size + 1) -> B]
    <3> HIDE DEF B
    <3> QED BY <2>1, <2>9, Zenon
  <2> QED BY <2>6, <2>7, <2>10
<1>7. InOrder'
  <2>1. /\ accepted = got \o Contents /\ got \in Seq(B)
        /\ Contents \in Seq(B) /\ ch \in B
    BY <1>1, <1>5 DEF RingOK, InOrder
  <2>2. Contents' = Append(Contents, ch)
    BY <1>1, <1>5, <1>6
  <2> HIDE DEF B
  <2>3. got \o Append(Contents, ch) = Append(got \o Contents, ch)
    BY <2>1, PutOrder
  <2> QED BY <1>2, <2>1, <2>2, <2>3 DEF InOrder
<1>8. size' \in 0..Capacity /\ start' \in 0..Capacity /\ end' \in 0..(Capacity - 1)
  BY <1>1, <1>2 DEF NextEnd
<1>9. (start + size \in {end, end + Capacity, end + 2 * Capacity})'
  BY <1>1, <1>2 DEF NextEnd
<1>10. got' \in Seq(B) /\ accepted' \in Seq(B) /\ ch' \in B
  BY <1>1, <1>2
<1> QED BY <1>4, <1>7, <1>8, <1>9, <1>10, Zenon DEF RingOK

-----------------------------------------------------------------------------
LEMMA NewMonitorProperties ==
    /\ NewMonitor \in Monitors /\ Sleeping(NewMonitor) = {} /\ Waiting(NewMonitor) = {}
    /\ NewMonitor.locked = 0 /\ NewMonitor.threadHeld = NULL
<1>1. <<>> \in Seq([item : Threads, key : Int]) /\ Items(<<>>) = {}
  BY DEF Items
<1>2. NewMonitor \in Monitors
  BY <1>1 DEF NewMonitor, Monitors
<1>3. /\ NewMonitor.queue = <<>> /\ NewMonitor.waitQ["bufferCV"] = <<>>
      /\ NewMonitor.locked = 0 /\ NewMonitor.threadHeld = NULL
  BY PipeAssumption DEF NewMonitor
<1> QED BY <1>1, <1>2, <1>3, WaitingOf

(* A pipe whose constructor has run satisfies the invariant.               *)
LEMMA InitInv == Init => Inv
<1> SUFFICES ASSUME Init PROVE Inv
  OBVIOUS
<1>1. RingOK
  <2>1. Contents = <<>>
    BY DEF Init, Contents
  <2> QED BY <2>1, PipeAssumption DEF Init, RingOK, InOrder
<1>2. UsersOK
  <2>1. PICK first \in Threads :
            /\ inOpen = IF first = reader THEN 1 ELSE 0
            /\ outOpen = IF first = writer THEN 1 ELSE 0
            /\ pc = [t \in Threads |-> IF t = first THEN "user" ELSE "none"]
    BY DEF Init
  <2>2. m = NewMonitor /\ freePipe = TRUE /\ deleted = FALSE
    BY DEF Init
  <2>3. /\ inOpen \in {0, 1} /\ outOpen \in {0, 1}
        /\ pc \in [Threads -> {"none", "user", "read", "write", "exited"}]
        /\ inOpen = 1 <=> pc[reader] \in {"user", "read"}
        /\ outOpen = 1 <=> pc[writer] \in {"user", "write"}
        /\ pc[reader] # "write" /\ pc[writer] # "read"
    <3>1. first = reader \/ first = writer
      BY PipeAssumption
    <3> QED BY <2>1, <3>1, PipeAssumption
  <2>4. /\ m \in Monitors /\ m.locked = 0 /\ m.threadHeld = NULL
        /\ Sleeping(m) = {} /\ Waiting(m) = {} /\ NULL \notin Threads
    BY <2>2, NewMonitorProperties, SynchAssumption
  <2>5. SleepJustified
    BY <2>4 DEF SleepJustified
  <2>6. /\ freePipe \in BOOLEAN /\ deleted \in BOOLEAN
        /\ deleted => inOpen = 0 /\ outOpen = 0
    BY <2>2, Zenon
  <2>7. /\ m.locked = 1 <=> m.threadHeld # NULL
        /\ \A t \in Threads : ~(m.threadHeld = t \/ t \in Sleeping(m))
    BY <2>4
  <2> QED BY <2>3, <2>4, <2>5, <2>6, <2>7, Zenon DEF UsersOK
<1> QED BY <1>1, <1>2 DEF Inv

(* Only Take, Put and the argument of Write touch the ring.                *)
LEMMA RingStep == RingOK /\ [Next]_vars => RingOK'
<1> SUFFICES ASSUME RingOK, [Next]_vars PROVE RingOK'
  OBVIOUS
<1>1. CASE UNCHANGED <<ring, ch, accepted, got>>
  BY <1>1 DEF RingOK, InOrder, Contents, Slot, ring
<1>2. ASSUME NEW c \in Bytes, CallWrite(c) PROVE RingOK'
  BY <1>2 DEF CallWrite, RingOK, InOrder, Contents, Slot, ring
<1>3. CASE ReadTakes
  BY <1>3, TakeRing DEF ReadTakes
<1>4. CASE WritePuts
  BY <1>4, PutRing DEF WritePuts
<1>5. CASE UNCHANGED vars
  BY <1>1, <1>5, SMTT(30) DEF vars, ring
<1>6. ASSUME NEW t \in Threads,
             Exec(t) \/ Exit(t) \/ Reacquire(t) \/ ReadEnds \/ ReadWaits \/ WriteFails
                \/ WriteWaits \/ CallRead
      PROVE  RingOK'
  BY <1>1, <1>6 DEF Exec, Exit, Reacquire, ReadEnds, ReadWaits, WriteFails, WriteWaits, CallRead
<1> QED BY <1>2, <1>3, <1>4, <1>5, <1>6, PipeAssumption, SMTT(30) DEF Next, Step

-----------------------------------------------------------------------------
(* A call returns: its process no longer has anything to do with the       *)
(* monitor.                                                                *)
LEMMA ReturnUsers ==
    ASSUME UsersOK, NEW t \in Threads, NEW x \in Monitors, isHeldBy(m, t),
           Sleeping(x) \subseteq Sleeping(m),
           Returns(t, x), UNCHANGED ends,
           Waiting(x) = {} \/ (Waiting(x) = Waiting(m) /\ size' = size)
    PROVE  UsersOK'
<1>1. /\ m' = Release(x) /\ pc' = [pc EXCEPT ![t] = "user"]
      /\ inOpen' = inOpen /\ outOpen' = outOpen
      /\ freePipe' = freePipe /\ deleted' = deleted
  BY DEF Returns, ends
<1>2. /\ m' \in Monitors /\ Waiting(m') = Waiting(x) /\ Sleeping(m') \subseteq Sleeping(x)
      /\ m'.locked = 0 /\ m'.threadHeld = NULL
  BY <1>1, ReleaseEffect
<1>3. pc[t] \in {"read", "write"} /\ pc' \in [Threads -> {"none", "user", "read", "write", "exited"}]
  BY <1>1 DEF UsersOK, isHeldBy
<1>4. SleepJustified'
  BY <1>2 DEF UsersOK, SleepJustified
<1>5. \A u \in Threads : u \in Sleeping(m') => pc'[u] \in {"read", "write"}
  BY <1>1, <1>2 DEF UsersOK, isHeldBy
<1>6. /\ inOpen' = 1 <=> pc'[reader] \in {"user", "read"}
      /\ outOpen' = 1 <=> pc'[writer] \in {"user", "write"}
      /\ pc'[reader] # "write" /\ pc'[writer] # "read"
  BY <1>1, <1>3, PipeAssumption, SMTT(30) DEF UsersOK
<1> QED BY <1>1, <1>2, <1>3, <1>4, <1>5, <1>6, SynchAssumption, SMTT(30) DEF UsersOK

(* A process in Acquire or in Wait goes on being in its call.              *)
LEMMA AcquireUsers ==
    ASSUME UsersOK, NEW t \in Threads, m' = Acquire(m, t), UNCHANGED <<ends, size>>,
           t \notin Sleeping(m), ~isHeldBy(m, t),
           pc' \in [Threads -> {"none", "user", "read", "write", "exited"}],
           pc'[t] = IF t = reader THEN "read" ELSE "write",
           pc[t] \in {"user", pc'[t]},
           \A u \in Threads \ {t} : pc'[u] = pc[u]
    PROVE  UsersOK'
<1>1. /\ m' \in Monitors /\ Waiting(m') = Waiting(m)
      /\ m'.locked = 1 <=> m'.threadHeld # NULL
      /\ \/ Sleeping(m') = Sleeping(m) \cup {t} /\ m'.threadHeld = m.threadHeld
         \/ Sleeping(m') = Sleeping(m) /\ m'.threadHeld = t
  BY AcquireEffect DEF UsersOK
<1>2. /\ inOpen' = inOpen /\ outOpen' = outOpen /\ size' = size
      /\ freePipe' = freePipe /\ deleted' = deleted
  BY DEF ends
<1>3. SleepJustified'
  BY <1>1, <1>2 DEF UsersOK, SleepJustified
<1>4. \A u \in Threads :
         /\ m'.threadHeld = u \/ u \in Sleeping(m') => pc'[u] \in {"read", "write"}
         /\ ~(m'.threadHeld = u /\ u \in Sleeping(m'))
  <2>1. ASSUME NEW u \in Threads, u # t
        PROVE  /\ m'.threadHeld = u \/ u \in Sleeping(m') => pc'[u] \in {"read", "write"}
               /\ ~(m'.threadHeld = u /\ u \in Sleeping(m'))
    BY <1>1, <2>1, SMTT(30) DEF UsersOK
  <2>2. pc'[t] \in {"read", "write"} /\ ~(m'.threadHeld = t /\ t \in Sleeping(m'))
    BY <1>1 DEF isHeldBy
  <2> QED BY <2>1, <2>2, SMTT(30)
<1>5. /\ inOpen' = 1 <=> pc'[reader] \in {"user", "read"}
      /\ outOpen' = 1 <=> pc'[writer] \in {"user", "write"}
      /\ pc'[reader] # "write" /\ pc'[writer] # "read"
  <2>1. CASE t = reader
    BY <1>2, <2>1, PipeAssumption, SMTT(30) DEF UsersOK
  <2>2. CASE t = writer
    BY <1>2, <2>2, PipeAssumption, SMTT(30) DEF UsersOK
  <2> QED BY <2>1, <2>2, PipeAssumption
<1> QED BY <1>1, <1>2, <1>3, <1>4, <1>5, SMTT(30) DEF UsersOK

LEMMA WaitUsers ==
    ASSUME UsersOK, NEW t \in Threads, m' = Wait(m, "bufferCV", t),
           isHeldBy(m, t), UNCHANGED <<ends, size, pc>>,
           t = reader => size = 0, t = writer => size = Capacity
    PROVE  UsersOK'
<1>1. /\ m' \in Monitors /\ Waiting(m') = Waiting(m) \cup {t}
      /\ Sleeping(m') \subseteq Sleeping(m) \cup {t}
      /\ m'.locked = 0 /\ m'.threadHeld = NULL
  BY WaitEffect DEF UsersOK
<1>2. /\ inOpen' = inOpen /\ outOpen' = outOpen /\ size' = size /\ pc' = pc
      /\ freePipe' = freePipe /\ deleted' = deleted
  BY DEF ends
<1>3. SleepJustified'
  BY <1>1, <1>2, SMTT(30) DEF UsersOK, SleepJustified
<1>4. \A u \in Threads : u \in Sleeping(m') => pc'[u] \in {"read", "write"}
  BY <1>1, <1>2 DEF UsersOK, isHeldBy
<1> QED BY <1>1, <1>2, <1>3, <1>4, SynchAssumption, SMTT(30) DEF UsersOK

-----------------------------------------------------------------------------
(* Each action preserves the part of the invariant about the processes.    *)
LEMMA UsersStep == Inv /\ [Next]_vars => UsersOK'
<1> SUFFICES ASSUME Inv, [Next]_vars PROVE UsersOK'
  OBVIOUS
<1>0. UsersOK /\ RingOK
  BY DEF Inv
<1>1. ASSUME NEW t \in Threads, Exec(t) PROVE UsersOK'
  <2>1. /\ pc[t] = "none" /\ ~deleted /\ pc' = [pc EXCEPT ![t] = "user"]
        /\ inOpen' = (IF t = reader THEN 1 ELSE inOpen)
        /\ outOpen' = (IF t = writer THEN 1 ELSE outOpen)
        /\ freePipe' = FALSE /\ deleted' = deleted /\ m' = m /\ size' = size
    BY <1>1 DEF Exec, ring
  <2>2. SleepJustified'
    BY <1>0, <2>1 DEF UsersOK, SleepJustified
  <2>3. t = reader \/ t = writer
    BY PipeAssumption
  <2> QED BY <1>0, <2>1, <2>2, <2>3, PipeAssumption, Zenon DEF UsersOK
<1>2. ASSUME NEW t \in Threads, Exit(t) PROVE UsersOK'
  <2>1. /\ pc[t] = "user" /\ pc' = [pc EXCEPT ![t] = "exited"]
        /\ inOpen' = (IF t = reader THEN 0 ELSE inOpen)
        /\ outOpen' = (IF t = writer THEN 0 ELSE outOpen)
        /\ deleted' = (inOpen' = 0 /\ outOpen' = 0)
        /\ freePipe' = freePipe /\ m' = m /\ size' = size
    BY <1>2 DEF Exit, ring
  <2>2. SleepJustified'
    BY <1>0, <2>1, SMTT(30) DEF UsersOK, SleepJustified
  <2>3. t = reader \/ t = writer
    BY PipeAssumption
  <2> QED BY <1>0, <2>1, <2>2, <2>3, PipeAssumption, SMTT(30) DEF UsersOK
<1>3. CASE CallRead
  BY <1>0, <1>3, AcquireUsers, PipeAssumption, SMTT(30) DEF CallRead, UsersOK, isHeldBy, ring
<1>4. ASSUME NEW c \in Bytes, CallWrite(c) PROVE UsersOK'
  BY <1>0, <1>4, AcquireUsers, PipeAssumption, SMTT(30) DEF CallWrite, UsersOK, isHeldBy, ring
<1>5. ASSUME NEW t \in Threads, Reacquire(t) PROVE UsersOK'
  BY <1>0, <1>5, AcquireUsers, PipeAssumption, SMTT(30) DEF Reacquire, UsersOK, ring
<1>6. CASE ReadEnds \/ WriteFails
  BY <1>0, <1>6, ReturnUsers, PipeAssumption DEF ReadEnds, WriteFails, Holds, UsersOK, ring
<1>7. CASE ReadWaits \/ WriteWaits
  BY <1>0, <1>7, WaitUsers, PipeAssumption DEF ReadWaits, WriteWaits, Holds, ring
<1>8. CASE ReadTakes
  <2> DEFINE x == Broadcast(m, "bufferCV")
  <2>1. x \in Monitors /\ Sleeping(x) \subseteq Sleeping(m) /\ Waiting(x) = {}
    BY <1>0, BroadcastEffect DEF UsersOK
  <2>2. reader \in Threads /\ isHeldBy(m, reader) /\ Returns(reader, x) /\ UNCHANGED ends
    BY <1>8, PipeAssumption, SMTT(30) DEF ReadTakes, Take, Holds, ends
  <2> HIDE DEF x
  <2> QED BY <1>0, <2>1, <2>2, ReturnUsers, SMTT(30)
<1>9. CASE WritePuts
  <2> DEFINE x == Broadcast(m, "bufferCV")
  <2>1. x \in Monitors /\ Sleeping(x) \subseteq Sleeping(m) /\ Waiting(x) = {}
    BY <1>0, BroadcastEffect DEF UsersOK
  <2>2. writer \in Threads /\ isHeldBy(m, writer) /\ Returns(writer, x) /\ UNCHANGED ends
    BY <1>9, PipeAssumption DEF WritePuts, Put, Holds, ends
  <2> HIDE DEF x
  <2> QED BY <1>0, <2>1, <2>2, ReturnUsers, SMTT(30)
<1>10. CASE UNCHANGED vars
  BY <1>0, <1>10 DEF vars, UsersOK, SleepJustified
<1> QED BY <1>1, <1>2, <1>3, <1>4, <1>5, <1>6, <1>7, <1>8, <1>9, <1>10, SMTT(30) DEF Next, Step

LEMMA InvInductive == SafetySpec => []Inv
<1>1. Inv /\ [Next]_vars => Inv'
  BY RingStep, UsersStep DEF Inv
<1> QED BY <1>1, InitInv, PTL DEF SafetySpec

(* The ring's indices stay in step for every capacity.                     *)
THEOREM TypeCorrect == SafetySpec => []TypeOK
<1>1. Inv => TypeOK
  BY DEF Inv, RingOK, UsersOK, TypeOK
<1> QED BY <1>1, InvInductive, PTL

(* Read returns the bytes Write has accepted, once each and in order,      *)
(* whatever the capacity and however often the ring has wrapped around.    *)
THEOREM FirstInFirstOut == SafetySpec => []InOrder
<1>1. Inv => InOrder
  BY DEF Inv, RingOK
<1> QED BY <1>1, InvInductive, PTL

(* No process sleeps on bufferCV while it could go on: one condition for   *)
(* both directions loses no wakeup between Read and Write.                 *)
THEOREM NoLostWakeup == SafetySpec => []SleepJustified
<1>1. Inv => SleepJustified
  BY DEF Inv, UsersOK
<1> QED BY <1>1, InvInductive, PTL

(* The pipe is deleted only when its lock is free, nobody sleeps on it and *)
(* neither process will use it again.                                      *)
THEOREM DeletedWhenUnused == SafetySpec => []DeletedUnused
<1>1. ASSUME Inv, deleted PROVE m = NewMonitor /\ \A t \in Threads : pc[t] \in {"none", "exited"}
  <2>1. \A t \in Threads : pc[t] \in {"none", "exited"}
    BY <1>1, PipeAssumption DEF Inv, UsersOK
  <2>2. m.threadHeld = NULL /\ m.locked = 0 /\ \A t \in Threads : t \notin Sleeping(m)
    BY <1>1, <2>1, Zenon DEF Inv, UsersOK, Monitors
  <2>3. m \in Monitors /\ m.queue \in Queues /\ m.waitQ["bufferCV"] \in Queues
    BY <1>1, PipeAssumption DEF Inv, UsersOK, Monitors, Queues, ElementsOf
  <2>4. ASSUME NEW q \in Queues, \A t \in Threads : t \notin Items(q) PROVE q = <<>>
    <3>1. q \in Seq(ElementsOf(Threads))
      BY DEF Queues
    <3>2. Items(q) \subseteq Threads
      BY <3>1, EmptyListProperties
    <3>3. q = <<>> <=> Items(q) = {}
      BY <3>1, EmptyListProperties
    <3> QED BY <2>4, <3>2, <3>3
  <2>5. m.queue = <<>> /\ m.waitQ["bufferCV"] = <<>>
    BY <2>2, <2>3, <2>4, WaitingOf
  <2>6. m.waitQ = [c \in Conds |-> <<>>]
    BY <2>3, <2>5, PipeAssumption DEF Monitors
  <2> QED BY <2>1, <2>2, <2>3, <2>5, <2>6 DEF Monitors, NewMonitor
<1>2. Inv => DeletedUnused
  BY <1>1 DEF DeletedUnused
<1> QED BY <1>2, InvInductive, PTL
=============================================================================
