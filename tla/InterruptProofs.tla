-------------------------- MODULE InterruptProofs ---------------------------
(***************************************************************************)
(* Interrupts are delivered once and in time, user code runs in user mode  *)
(* and the machine halts only when nothing is left to do, for every set of *)
(* threads and all delays.                                                 *)
(***************************************************************************)
EXTENDS Interrupt, ListTheorems, SequenceTheorems, FiniteSetTheorems

Events == {Timer} \cup {Device(t) : t \in Threads}

(* A thread runs, or is in the middle of its OneTick.                      *)
Busy == doing \in {"run", "tick"}

(* The lists: no event is pending twice, and a device's interrupt is       *)
(* pending exactly for the threads that sleep until it comes.              *)
ListsOK ==
    /\ pending \in Seq(ElementsOf(Events)) /\ NoDuplicates(pending) /\ Sorted(pending)
    /\ readyList \in Seq(Threads) /\ IsInjective(readyList)
    /\ \A t \in Threads :
          Device(t) \in Items(pending) <=> at[t] = "waiting" /\ t \notin Range(readyList)

(* The threads: one that is neither new, asleep nor finished runs or is    *)
(* ready after a Yield in OneTick, whose local variable holds the status   *)
(* to go on with.                                                          *)
ThreadsOK ==
    \A t \in Threads :
        /\ at[t] \in {"user", "kernel"} =>
              (Busy /\ t = currentThread) \/ (t \in Range(readyList) /\ old[t] # NULL)
        /\ t \in Range(readyList) => at[t] # "finished"
        /\ old[t] # NULL => t \in Range(readyList) /\ at[t] \in {"user", "kernel"}
        /\ old[t] # NULL /\ at[t] = "user" => old[t] = "UserMode"

(* The machine: its status belongs to the thread that runs.                *)
MachineOK ==
    /\ Busy => /\ currentThread \notin Range(readyList)
               /\ at[currentThread] \in {"user", "kernel"}
               /\ status \in {"SystemMode", "UserMode"}
               /\ at[currentThread] = "user" => status = "UserMode"
    /\ ~Busy => status = "IdleMode"
    /\ doing = "idleFirst" => readyList = <<>>

Types ==
    /\ status \in {"IdleMode", "SystemMode", "UserMode"}
    /\ yieldOnReturn \in BOOLEAN
    /\ doing \in {"run", "tick", "idleFirst", "idle", "halted"}
    /\ currentThread \in Threads
    /\ at \in [Threads -> {"new", "user", "kernel", "waiting", "finished"}]
    /\ fault \subseteq Threads
    /\ old \in [Threads -> {NULL, "SystemMode", "UserMode"}]

IInv == Types /\ ListsOK /\ ThreadsOK /\ MachineOK /\ NothingOverdue /\ HaltsWhenDone


-----------------------------------------------------------------------------
(* Lemmas about the lists.                                                 *)

(* SortedInsert adds one element and leaves the others as they are.        *)
LEMMA SortedInsertElements ==
    ASSUME NEW S, NEW list \in Seq(ElementsOf(S)), NEW x \in S, NEW k \in Int
    PROVE  Range(SortedInsert(list, x, k)) = Range(list) \cup {Element(x, k)}
<1> DEFINE p == Place(list, k)
           e == Element(x, k)
           E == ElementsOf(S)
           new == SortedInsert(list, x, k)
<1>1. Len(list) \in Nat /\ DOMAIN list = 1..Len(list)
  OBVIOUS
<1>2. p \in 1..Len(list)+1
  BY PlaceProperties
<1>3. /\ new \in Seq(E) /\ Len(new) = Len(list) + 1
      /\ \A j \in 1..Len(list)+1 :
            new[j] = IF j < p THEN list[j] ELSE IF j = p THEN e ELSE list[j-1]
  BY SortedInsertPlaces, Zenon
<1> HIDE DEF p, e, E, new
<1>4. DOMAIN new = 1..Len(list)+1
  BY <1>1, <1>3
<1>5. ASSUME NEW j \in 1..Len(list)+1 PROVE new[j] \in Range(list) \cup {e}
  <2>1. CASE j = p
    BY <1>3, <2>1
  <2>2. CASE j # p
    <3>1. \E i \in 1..Len(list) : new[j] = list[i]
      BY <1>1, <1>2, <1>3, <2>2
    <3> QED BY <1>1, <3>1 DEF Range
  <2> QED BY <2>1, <2>2
<1>6. e \in Range(new)
  BY <1>2, <1>3, <1>4 DEF Range
<1>7. ASSUME NEW i \in 1..Len(list) PROVE list[i] \in Range(new)
  <2>1. CASE i < p
    BY <1>1, <1>2, <1>3, <1>4, <2>1 DEF Range
  <2>2. CASE i >= p
    <3>1. i + 1 \in 1..Len(list)+1 /\ new[i+1] = list[i]
      BY <1>1, <1>2, <1>3, <2>2
    <3> QED BY <1>4, <3>1 DEF Range
  <2> QED BY <1>1, <1>2, <2>1, <2>2
<1> QED BY <1>1, <1>4, <1>5, <1>6, <1>7 DEF Range, new, e

(* Time that passes changes the keys and nothing else.                     *)
LEMMA ElapseProperties ==
    ASSUME NEW S, NEW list \in Seq(ElementsOf(S)), NEW n \in Int
    PROVE  /\ Elapse(list, n) \in Seq(ElementsOf(S))
           /\ Items(Elapse(list, n)) = Items(list)
           /\ DOMAIN Elapse(list, n) = DOMAIN list
           /\ \A i \in DOMAIN list : /\ Elapse(list, n)[i].item = list[i].item
                                     /\ Elapse(list, n)[i].key = list[i].key - n
           /\ Sorted(list) => Sorted(Elapse(list, n))
           /\ NoDuplicates(list) => NoDuplicates(Elapse(list, n))
<1>1. Len(list) \in Nat /\ DOMAIN list = 1..Len(list)
  BY LenProperties
<1>2. \A i \in DOMAIN list : list[i] \in ElementsOf(S)
  BY ElementOfSeq, <1>1
<1>3. \A i \in DOMAIN list : [list[i] EXCEPT !.key = @ - n] \in ElementsOf(S)
  BY <1>2 DEF ElementsOf
<1>4. Elapse(list, n) \in Seq(ElementsOf(S))
  BY <1>1, <1>3, IsASeq DEF Elapse
<1>5. DOMAIN Elapse(list, n) = DOMAIN list
  BY DEF Elapse
<1>6. \A i \in DOMAIN list : /\ Elapse(list, n)[i].item = list[i].item
                             /\ Elapse(list, n)[i].key = list[i].key - n
  BY <1>2 DEF Elapse, ElementsOf
<1>7. Items(Elapse(list, n)) = Items(list)
  BY <1>5, <1>6 DEF Items
<1>8. Sorted(list) => Sorted(Elapse(list, n))
  BY <1>2, <1>5, <1>6 DEF Sorted, ElementsOf
<1>9. NoDuplicates(list) => NoDuplicates(Elapse(list, n))
  BY <1>5, <1>6 DEF NoDuplicates
<1> QED
  BY <1>4, <1>5, <1>6, <1>7, <1>8, <1>9

(* ReadyToRun of a thread that is not on the ready list.                   *)
LEMMA AppendReady ==
    ASSUME NEW S, NEW q \in Seq(S), IsInjective(q), NEW x \in S, x \notin Range(q)
    PROVE  /\ Append(q, x) \in Seq(S) /\ Append(q, x) # <<>>
           /\ IsInjective(Append(q, x))
           /\ Range(Append(q, x)) = Range(q) \cup {x}
<1>1. /\ Append(q, x) \in Seq(S) /\ Append(q, x) # <<>>
      /\ Len(Append(q, x)) = Len(q) + 1
      /\ \A i \in 1..Len(q) : Append(q, x)[i] = q[i]
      /\ Append(q, x)[Len(q) + 1] = x
  BY AppendProperties
<1>2. /\ Len(q) \in Nat /\ DOMAIN q = 1..Len(q)
      /\ DOMAIN Append(q, x) = 1..(Len(q) + 1)
  BY <1>1, LenProperties
<1>3. Range(Append(q, x)) = Range(q) \cup {x}
  BY <1>1, <1>2 DEF Range
<1>4. IsInjective(Append(q, x))
  <2> SUFFICES ASSUME NEW i \in 1..(Len(q) + 1), NEW j \in 1..(Len(q) + 1),
                      Append(q, x)[i] = Append(q, x)[j]
               PROVE  i = j
    BY <1>2 DEF IsInjective
  <2>1. \A k \in 1..Len(q) : q[k] # x
    BY <1>2 DEF Range
  <2> QED
    BY <1>1, <1>2, <2>1 DEF IsInjective
<1> QED
  BY <1>1, <1>3, <1>4

(* FindNextToRun on a ready list that is not empty.                        *)
LEMMA TailReady ==
    ASSUME NEW S, NEW q \in Seq(S), IsInjective(q), q # <<>>
    PROVE  /\ Head(q) \in S /\ Head(q) \in Range(q)
           /\ Tail(q) \in Seq(S) /\ IsInjective(Tail(q))
           /\ Range(Tail(q)) = Range(q) \ {Head(q)}
<1>1. /\ Len(q) \in Nat \ {0} /\ DOMAIN q = 1..Len(q) /\ Head(q) = q[1]
      /\ Tail(q) \in Seq(S) /\ DOMAIN Tail(q) = 1..(Len(q) - 1)
      /\ \A i \in 1..(Len(q) - 1) : Tail(q)[i] = q[i + 1]
  BY LenProperties, HeadTailProperties, EmptySeq
<1>2. Head(q) \in Range(q) /\ Head(q) \in S
  BY <1>1, ElementOfSeq DEF Range
<1>3. IsInjective(Tail(q))
  BY <1>1 DEF IsInjective
<1>4. ASSUME NEW x \in Range(Tail(q)) PROVE x \in Range(q) /\ x # Head(q)
  BY <1>1 DEF Range, IsInjective
<1>5. ASSUME NEW x \in Range(q), x # Head(q) PROVE x \in Range(Tail(q))
  <2>1. PICK i \in 1..Len(q) : x = q[i]
    BY <1>1 DEF Range
  <2>2. i - 1 \in 1..(Len(q) - 1) /\ Tail(q)[i - 1] = x
    BY <1>1, <1>5, <2>1
  <2> QED
    BY <1>1, <2>2 DEF Range
<1> QED
  BY <1>1, <1>2, <1>3, <1>4, <1>5

-----------------------------------------------------------------------------
(* Lemmas about the switch of threads.                                     *)

Places == {"new", "user", "kernel", "waiting", "finished"}

(* What Switch and Sleep need: nobody runs, so every thread that is not    *)
(* new, asleep or finished is ready after a Yield.                         *)
GaveUp(ready, places, olds) ==
    \A t \in Threads :
        /\ places[t] \in {"user", "kernel"} => t \in Range(ready) /\ olds[t] # NULL
        /\ t \in Range(ready) => places[t] # "finished"
        /\ olds[t] # NULL => t \in Range(ready) /\ places[t] \in {"user", "kernel"}
        /\ olds[t] # NULL /\ places[t] = "user" => olds[t] = "UserMode"

(* The parts of the invariant that do not speak of the pending interrupts, *)
(* after a switch, and that nobody has begun or ceased to sleep by it.     *)
Switched(ready, places) ==
    /\ status' \in {"IdleMode", "SystemMode", "UserMode"}
    /\ doing' \in {"run", "idleFirst"}
    /\ currentThread' \in Threads
    /\ at' \in [Threads -> Places]
    /\ old' \in [Threads -> {NULL, "SystemMode", "UserMode"}]
    /\ readyList' \in Seq(Threads) /\ IsInjective(readyList)'
    /\ ThreadsOK' /\ MachineOK'
    /\ \A t \in Threads : at'[t] = "waiting" /\ t \notin Range(readyList')
                             <=> places[t] = "waiting" /\ t \notin Range(ready)

LEMMA SwitchOK ==
    ASSUME NEW ready \in Seq(Threads), IsInjective(ready), ready # <<>>,
           NEW places \in [Threads -> Places],
           NEW olds \in [Threads -> {NULL, "SystemMode", "UserMode"}],
           NEW st \in {"SystemMode", "UserMode"},
           GaveUp(ready, places, olds),
           Switch(ready, places, olds, st)
    PROVE  Switched(ready, places)
<1> DEFINE next == Head(ready)
<1>1. /\ next \in Threads /\ next \in Range(ready)
      /\ Tail(ready) \in Seq(Threads) /\ IsInjective(Tail(ready))
      /\ Range(Tail(ready)) = Range(ready) \ {next}
  BY TailReady
<1>2. /\ currentThread' = next /\ readyList' = Tail(ready) /\ doing' = "run"
      /\ at' = [places EXCEPT ![next] = IF @ \in {"new", "waiting"} THEN "kernel" ELSE @]
      /\ old' = [olds EXCEPT ![next] = NULL]
      /\ status' = IF olds[next] # NULL THEN olds[next] ELSE st
  BY DEF Switch
<1> HIDE DEF next
<1>3. \A t \in Threads : t # next => at'[t] = places[t] /\ old'[t] = olds[t]
  BY <1>2
<1>4. /\ at'[next] \in {"user", "kernel"} /\ old'[next] = NULL
      /\ at'[next] = "user" => places[next] = "user" /\ olds[next] = "UserMode"
  BY <1>1, <1>2 DEF GaveUp, Places
<1>5. status' \in {"SystemMode", "UserMode"}
  BY <1>1, <1>2
<1>6. ThreadsOK'
  BY <1>1, <1>2, <1>3, <1>4 DEF ThreadsOK, GaveUp, Busy
<1>7. MachineOK'
  BY <1>1, <1>2, <1>4, <1>5, InterruptAssumption DEF MachineOK, Busy
<1>8. at' \in [Threads -> Places] /\ old' \in [Threads -> {NULL, "SystemMode", "UserMode"}]
  BY <1>1, <1>2 DEF Places
<1>9. \A t \in Threads : at'[t] = "waiting" /\ t \notin Range(readyList')
                             <=> places[t] = "waiting" /\ t \notin Range(ready)
  BY <1>1, <1>2, <1>3, <1>4
<1> QED
  BY <1>1, <1>2, <1>5, <1>6, <1>7, <1>8, <1>9 DEF Switched

LEMMA SleepOK ==
    ASSUME Types, ListsOK,
           NEW places \in [Threads -> Places],
           NEW st \in {"SystemMode", "UserMode"},
           GaveUp(readyList, places, old),
           Sleep(places, st)
    PROVE  Switched(readyList, places)
<1>1. CASE readyList # <<>> /\ Switch(readyList, places, old, st)
  BY <1>1, SwitchOK DEF Types, ListsOK
<1>2. CASE /\ readyList = <<>> /\ doing' = "idleFirst" /\ status' = "IdleMode"
           /\ at' = places /\ UNCHANGED <<currentThread, readyList, old>>
  <2>1. ThreadsOK'
    BY <1>2 DEF ThreadsOK, GaveUp
  <2>2. MachineOK'
    BY <1>2 DEF MachineOK, Busy
  <2> QED
    BY <1>2, <2>1, <2>2 DEF Switched, Types, ListsOK, IsInjective
<1> QED
  BY <1>1, <1>2 DEF Sleep

-----------------------------------------------------------------------------
(* One lemma for each group of actions.                                    *)

LEMMA DeviceInjective ==
    /\ \A t, u \in Threads : Device(t) = Device(u) => t = u
    /\ \A t \in Threads : Device(t) # Timer
    /\ \A e \in Events : e # Timer => e.thread \in Threads /\ e = Device(e.thread)
BY DEF Device, Timer, Events

LEMMA InitOK == Init => IInv
<1> SUFFICES ASSUME Init PROVE IInv
  OBVIOUS
<1> USE InterruptAssumption DEF Init
<1>1. Types
  BY DEF Types
<1>2. readyList \in Seq(Threads) /\ IsInjective(readyList) /\ Range(readyList) = {}
  BY DEF IsInjective, Range
<1>3. \A t \in Threads : Device(t) # Timer
  BY DeviceInjective
<1>4. ListsOK
  <2>1. CASE pending = <<>>
    <3>1. pending \in Seq(ElementsOf(Events)) /\ DOMAIN pending = {}
      BY <2>1
    <3> QED
      BY <1>2, <3>1 DEF ListsOK, NoDuplicates, Sorted, Items
  <2>2. CASE \E d \in TimerDelays : pending = <<Element(Timer, d)>>
    <3>1. PICK d \in TimerDelays : pending = <<Element(Timer, d)>>
      BY <2>2
    <3>2. Element(Timer, d) \in ElementsOf(Events) /\ Element(Timer, d).item = Timer
      BY DEF ElementsOf, Element, Events
    <3>3. pending \in Seq(ElementsOf(Events)) /\ DOMAIN pending = {1} /\ pending[1].item = Timer
      BY <3>1, <3>2
    <3>4. Items(pending) = {Timer}
      BY <3>3 DEF Items
    <3>5. Sorted(pending) /\ NoDuplicates(pending)
      BY <3>3 DEF Sorted, NoDuplicates
    <3> QED
      BY <1>2, <1>3, <3>3, <3>4, <3>5 DEF ListsOK
  <2> QED
    BY <2>1, <2>2
<1>5. ThreadsOK
  BY <1>2 DEF ThreadsOK, Busy
<1>6. MachineOK
  BY <1>2 DEF MachineOK, Busy
<1>7. NothingOverdue
  <2>1. CASE pending = <<>>
    BY <2>1 DEF NothingOverdue
  <2>2. CASE \E d \in TimerDelays : pending = <<Element(Timer, d)>>
    BY <2>2 DEF NothingOverdue, Element
  <2> QED
    BY <2>1, <2>2
<1> QED
  BY <1>1, <1>4, <1>5, <1>6, <1>7 DEF IInv, HaltsWhenDone

(* What the steps that begin a OneTick have in common.                     *)
LEMMA TickBegins ==
    ASSUME IInv, doing = "run", NEW st \in {"SystemMode", "UserMode"}, OneTick(st)
    PROVE  /\ doing' = "tick" /\ status' = st
           /\ pending' \in Seq(ElementsOf(Events)) /\ NoDuplicates(pending') /\ Sorted(pending')
           /\ Items(pending') = Items(pending)
<1> DEFINE n == IF st = "SystemMode" THEN SystemTick ELSE UserTick
<1>1. n \in Int
  BY InterruptAssumption
<1>2. pending' = Elapse(pending, n)
  BY DEF OneTick
<1> HIDE DEF n
<1> QED
  BY <1>1, <1>2, ElapseProperties DEF OneTick, IInv, ListsOK

LEMMA TickStepsOK ==
    ASSUME IInv, NEW t \in Threads,
           OneInstruction(t) \/ ReturnToUser(t) \/ RaiseInKernel(t) \/ SetLevelOn(t)
    PROVE  IInv'
<1>1. /\ doing = "run" /\ currentThread = t /\ at[t] \in {"user", "kernel"}
      /\ t \notin Range(readyList) /\ status \in {"SystemMode", "UserMode"}
      /\ at[t] = "user" => status = "UserMode"
  BY DEF IInv, MachineOK, Busy, Running, OneInstruction, ReturnToUser, RaiseInKernel, SetLevelOn
<1>2. PICK st \in {"SystemMode", "UserMode"} :
         /\ OneTick(st)
         /\ UNCHANGED <<yieldOnReturn, currentThread, readyList, old>>
         /\ fault' \subseteq Threads
         /\ \/ at' = at /\ (at[t] = "user" => st = "UserMode")
            \/ at' = [at EXCEPT ![t] = "user"] /\ st = "UserMode"
  BY <1>1 DEF IInv, Types, OneInstruction, ReturnToUser, RaiseInKernel, SetLevelOn, Running
<1>3. /\ doing' = "tick" /\ status' = st
      /\ pending' \in Seq(ElementsOf(Events)) /\ NoDuplicates(pending') /\ Sorted(pending')
      /\ Items(pending') = Items(pending)
  BY <1>1, <1>2, TickBegins
<1>4. /\ \A u \in Threads : u # t => at'[u] = at[u]
      /\ at'[t] \in {"user", "kernel"} /\ (at'[t] = "user" => st = "UserMode")
      /\ at' \in [Threads -> {"new", "user", "kernel", "waiting", "finished"}]
  BY <1>1, <1>2 DEF IInv, Types
<1>5. Types'
  BY <1>2, <1>3, <1>4 DEF IInv, Types
<1>6. ListsOK'
  BY <1>1, <1>2, <1>3, <1>4 DEF IInv, ListsOK, IsInjective, Range
<1>7. ThreadsOK'
  BY <1>1, <1>2, <1>3, <1>4 DEF IInv, ThreadsOK, Busy, Range
<1>8. MachineOK'
  BY <1>1, <1>2, <1>3, <1>4 DEF MachineOK, Busy, Range
<1> QED
  BY <1>3, <1>5, <1>6, <1>7, <1>8 DEF IInv, NothingOverdue, HaltsWhenDone

LEMMA ForkOK ==
    ASSUME IInv, NEW t \in Threads, NEW u \in Threads, Fork(t, u)
    PROVE  IInv'
<1>1. /\ doing = "run" /\ currentThread = t /\ at[t] = "kernel"
      /\ t \notin Range(readyList) /\ status \in {"SystemMode", "UserMode"}
      /\ at[u] = "new" /\ u \notin Range(readyList) /\ u # t
      /\ OneTick(status) /\ readyList' = Append(readyList, u)
      /\ UNCHANGED <<yieldOnReturn, currentThread, at, fault, old>>
  BY DEF IInv, MachineOK, Busy, Fork, Running
<1>2. /\ doing' = "tick" /\ status' = status
      /\ pending' \in Seq(ElementsOf(Events)) /\ NoDuplicates(pending') /\ Sorted(pending')
      /\ Items(pending') = Items(pending)
  BY <1>1, TickBegins
<1>3. /\ readyList' \in Seq(Threads) /\ IsInjective(readyList')
      /\ Range(readyList') = Range(readyList) \cup {u}
  BY <1>1, AppendReady DEF IInv, ListsOK
<1>4. Types'
  BY <1>1, <1>2 DEF IInv, Types
<1>5. ListsOK'
  BY <1>1, <1>2, <1>3 DEF IInv, ListsOK
<1>6. ThreadsOK'
  BY <1>1, <1>2, <1>3 DEF IInv, ThreadsOK, Busy
<1>7. MachineOK'
  BY <1>1, <1>2, <1>3 DEF IInv, MachineOK, Busy
<1> QED
  BY <1>2, <1>4, <1>5, <1>6, <1>7 DEF IInv, NothingOverdue, HaltsWhenDone

LEMMA ExceptionStepsOK ==
    ASSUME IInv, NEW t \in Threads, RaiseException(t) \/ ReturnToKernel(t)
    PROVE  IInv'
<1>1. /\ doing = "run" /\ currentThread = t /\ at[t] \in {"user", "kernel"}
      /\ status' \in {"SystemMode", "UserMode"}
      /\ at' = [at EXCEPT ![t] = "kernel"]
      /\ fault' \subseteq Threads
      /\ UNCHANGED <<pending, yieldOnReturn, doing, currentThread, readyList, old>>
  BY DEF IInv, Types, RaiseException, ReturnToKernel, Running
<1>2. t \notin Range(readyList)
  BY <1>1 DEF IInv, MachineOK, Busy
<1>3. /\ \A u \in Threads : u # t => at'[u] = at[u]
      /\ at'[t] = "kernel"
      /\ at' \in [Threads -> {"new", "user", "kernel", "waiting", "finished"}]
  BY <1>1 DEF IInv, Types
<1>4. Types'
  BY <1>1, <1>3 DEF IInv, Types
<1>5. ListsOK'
  BY <1>1, <1>3 DEF IInv, ListsOK
<1>6. ThreadsOK'
  BY <1>1, <1>2, <1>3 DEF IInv, ThreadsOK, Busy
<1>7. MachineOK'
  BY <1>1, <1>3 DEF IInv, MachineOK, Busy
<1> QED
  BY <1>1, <1>4, <1>5, <1>6, <1>7 DEF IInv, NothingOverdue, HaltsWhenDone

(* A thread that runs in the kernel leaves the processor.                  *)
LEMMA LeavesProcessor ==
    ASSUME IInv, NEW t \in Threads, Running(t, "kernel"),
           NEW place \in {"waiting", "finished"},
           Sleep([at EXCEPT ![t] = place], status)
    PROVE  /\ Switched(readyList, [at EXCEPT ![t] = place])
           /\ t \notin Range(readyList)
<1> DEFINE places == [at EXCEPT ![t] = place]
<1>1. /\ doing = "run" /\ currentThread = t /\ at[t] = "kernel"
      /\ t \notin Range(readyList) /\ status \in {"SystemMode", "UserMode"}
  BY DEF IInv, MachineOK, Busy, Running
<1>2. places \in [Threads -> Places]
  BY DEF IInv, Types, Places
<1>3. GaveUp(readyList, places, old)
  BY <1>1 DEF GaveUp, IInv, Types, ThreadsOK
<1> QED
  BY <1>1, <1>2, <1>3, SleepOK DEF IInv

LEMMA FinishOK ==
    ASSUME IInv, NEW t \in Threads, Finish(t)
    PROVE  IInv'
<1> DEFINE places == [at EXCEPT ![t] = "finished"]
<1>1. Switched(readyList, places) /\ t \notin Range(readyList)
  BY LeavesProcessor DEF Finish
<1>2. doing = "run" /\ at[t] = "kernel" /\ UNCHANGED <<pending, yieldOnReturn>>
  BY DEF Finish, Running
<1>3. Types'
  BY <1>1, <1>2 DEF Switched, IInv, Types, Finish, Places
<1>4. \A u \in Threads : places[u] = "waiting" <=> at[u] = "waiting"
  BY <1>2 DEF IInv, Types
<1>5. ListsOK'
  BY <1>1, <1>2, <1>4 DEF Switched, IInv, ListsOK
<1> QED
  BY <1>1, <1>2, <1>3, <1>5 DEF Switched, IInv, NothingOverdue, HaltsWhenDone

LEMMA ScheduleOK ==
    ASSUME NEW list \in Seq(ElementsOf(Events)), NoDuplicates(list), Sorted(list),
           NEW e \in Events, e \notin Items(list), NEW d \in Int
    PROVE  /\ Schedule(list, e, d) \in Seq(ElementsOf(Events))
           /\ NoDuplicates(Schedule(list, e, d)) /\ Sorted(Schedule(list, e, d))
           /\ Items(Schedule(list, e, d)) = Items(list) \cup {e}
<1>1. SortedInsert(list, e, d) \in Seq(ElementsOf(Events))
  BY SortedInsertProperties
<1>2. Items(SortedInsert(list, e, d)) = Items(list) \cup {e}
  BY SortedInsertProperties
<1>3. NoDuplicates(SortedInsert(list, e, d))
  BY SortedInsertProperties
<1>4. Sorted(SortedInsert(list, e, d))
  BY SortedInsertProperties
<1> QED
  BY <1>1, <1>2, <1>3, <1>4 DEF Schedule

LEMMA RequestOK ==
    ASSUME IInv, NEW t \in Threads, NEW d \in Delays, Request(t, d)
    PROVE  IInv'
<1> DEFINE places == [at EXCEPT ![t] = "waiting"]
<1>1. Switched(readyList, places) /\ t \notin Range(readyList)
  BY LeavesProcessor DEF Request
<1>2. /\ doing = "run" /\ at[t] = "kernel" /\ UNCHANGED <<yieldOnReturn, fault>>
      /\ pending' = SortedInsert(pending, Device(t), d)
  BY DEF Request, Running, Schedule
<1>3. Device(t) \in Events /\ d \in Int /\ d > 0 /\ Device(t) \notin Items(pending)
  BY <1>2, InterruptAssumption DEF Events, IInv, ListsOK
<1>4. /\ pending' \in Seq(ElementsOf(Events)) /\ NoDuplicates(pending') /\ Sorted(pending')
      /\ Items(pending') = Items(pending) \cup {Device(t)}
  BY <1>2, <1>3, ScheduleOK DEF IInv, ListsOK, Schedule
<1>5. Types'
  BY <1>1, <1>2 DEF Switched, IInv, Types, Places
<1>6. \A u \in Threads : places[u] = "waiting" <=> at[u] = "waiting" \/ u = t
  BY <1>2 DEF IInv, Types
<1>7. ListsOK'
  BY <1>1, <1>2, <1>4, <1>6, DeviceInjective DEF Switched, IInv, ListsOK
<1>8. NothingOverdue'
  <2> SUFFICES ASSUME NEW i \in DOMAIN pending', pending'[i].item # Timer
               PROVE  pending'[i].key > 0
    BY DEF NothingOverdue
  <2>1. Range(pending') = Range(pending) \cup {Element(Device(t), d)}
    BY <1>2, <1>3, SortedInsertElements DEF IInv, ListsOK
  <2>2. pending'[i] \in Range(pending')
    BY DEF Range
  <2>3. CASE pending'[i] = Element(Device(t), d)
    BY <1>3, <2>3 DEF Element
  <2>4. CASE pending'[i] \in Range(pending)
    BY <1>2, <2>4 DEF IInv, NothingOverdue, Range
  <2> QED
    BY <2>1, <2>2, <2>3, <2>4
<1> QED
  BY <1>1, <1>2, <1>5, <1>7, <1>8 DEF Switched, IInv, HaltsWhenDone

-----------------------------------------------------------------------------
(* CheckIfDue and the ends of OneTick and Idle.                            *)

LEMMA PendingTypes ==
    ASSUME IInv
    PROVE  \A i \in DOMAIN pending : pending[i].item \in Events /\ pending[i].key \in Int
<1>1. pending \in Seq(ElementsOf(Events))
  BY DEF IInv, ListsOK
<1>2. \A i \in DOMAIN pending : pending[i] \in ElementsOf(Events)
  BY <1>1, LenProperties, ElementOfSeq
<1> QED
  BY <1>2 DEF ElementsOf

(* The first pending interrupt, and the list without it.                   *)
LEMMA FirstPending ==
    ASSUME IInv, pending # <<>>
    PROVE  /\ Head(pending) = pending[1] /\ 1 \in DOMAIN pending
           /\ pending[1].item \in Events /\ pending[1].key \in Int
           /\ pending[1].item \in Items(pending)
           /\ \A i \in DOMAIN pending : pending[1].key <= pending[i].key
<1>1. pending \in Seq(ElementsOf(Events)) /\ Sorted(pending)
  BY DEF IInv, ListsOK
<1>2. Head(pending) = pending[1] /\ Len(pending) \in Nat \ {0} /\ DOMAIN pending = 1..Len(pending)
  BY <1>1, LenProperties, HeadTailProperties, EmptySeq
<1>3. \A i \in DOMAIN pending : pending[i].item \in Events /\ pending[i].key \in Int
  BY PendingTypes
<1> QED
  BY <1>1, <1>2, <1>3 DEF Items, Sorted

LEMMA RemainingOK ==
    ASSUME IInv, pending # <<>>
    PROVE  /\ Remaining \in Seq(ElementsOf(Events)) /\ NoDuplicates(Remaining) /\ Sorted(Remaining)
           /\ Items(Remaining) = Items(pending) \ {Head(pending).item}
<1> DEFINE n == IF doing = "idleFirst" /\ Head(pending).key > 0 THEN Head(pending).key ELSE 0
<1>1. pending \in Seq(ElementsOf(Events)) /\ NoDuplicates(pending) /\ Sorted(pending)
  BY DEF IInv, ListsOK
<1>2. n \in Int
  BY FirstPending
<1>3. Remaining = Elapse(Rest(pending), n)
  BY DEF Remaining, Rest
<1> HIDE DEF n
<1>4. /\ Rest(pending) \in Seq(ElementsOf(Events))
      /\ NoDuplicates(Rest(pending)) /\ Sorted(Rest(pending))
      /\ Items(pending) = Items(Rest(pending)) \cup {Head(pending).item}
      /\ Head(pending).item \notin Items(Rest(pending))
  BY <1>1, RestProperties
<1> QED
  BY <1>2, <1>3, <1>4, ElapseProperties

(* When CheckIfDue returns FALSE, but for an idle machine with nothing     *)
(* more to wait for, every time on the list is still to come.              *)
LEMMA NotDueOK ==
    ASSUME IInv, doing \in {"tick", "idle"}, ~Due
    PROVE  \A i \in DOMAIN pending : pending[i].key > 0
<1>1. CASE pending = <<>>
  BY <1>1
<1>2. CASE pending # <<>>
  <2>1. ~(pending[1].key <= 0) /\ pending[1].key \in Int
    BY <1>2, FirstPending DEF Due
  <2>2. \A i \in DOMAIN pending : pending[i].key \in Int
    BY PendingTypes
  <2> QED
    BY <1>2, <2>1, <2>2, FirstPending
<1> QED
  BY <1>1, <1>2

LEMMA AfterFirstOK ==
    ASSUME IInv, doing \in {"tick", "idleFirst", "idle"}, doing' = AfterFirst
    PROVE  doing' \in {"tick", "idle"} /\ (Busy' <=> Busy)
BY DEF AfterFirst, Busy

LEMMA TimerExpiredOK == ASSUME IInv, TimerExpired PROVE IInv'
<1>1. /\ doing \in {"tick", "idleFirst", "idle"}
      /\ pending # <<>> /\ Head(pending).item = Timer
      /\ yieldOnReturn' = TRUE /\ doing' = AfterFirst
      /\ UNCHANGED <<status, currentThread, readyList, at, fault, old>>
  BY DEF TimerExpired, Due
<1>2. PICK d \in TimerDelays : pending' = Schedule(Remaining, Timer, d)
  BY DEF TimerExpired
<1>3. d \in Int /\ Timer \in Events /\ Timer \in Items(pending)
  BY <1>1, FirstPending, InterruptAssumption DEF Events
<1>4. /\ pending' \in Seq(ElementsOf(Events)) /\ NoDuplicates(pending') /\ Sorted(pending')
      /\ Items(pending') = Items(pending)
  <2>1. /\ Remaining \in Seq(ElementsOf(Events))
        /\ NoDuplicates(Remaining) /\ Sorted(Remaining)
        /\ Items(Remaining) = Items(pending) \ {Timer}
    BY <1>1, RemainingOK
  <2>2. /\ Schedule(Remaining, Timer, d) \in Seq(ElementsOf(Events))
        /\ NoDuplicates(Schedule(Remaining, Timer, d)) /\ Sorted(Schedule(Remaining, Timer, d))
        /\ Items(Schedule(Remaining, Timer, d)) = Items(Remaining) \cup {Timer}
    BY <1>3, <2>1, ScheduleOK
  <2> QED
    BY <1>2, <1>3, <2>1, <2>2
<1>5. doing' \in {"tick", "idle"} /\ (Busy' <=> Busy)
  BY <1>1, AfterFirstOK
<1>6. Types'
  BY <1>1, <1>5 DEF IInv, Types
<1>7. ListsOK'
  BY <1>1, <1>4 DEF IInv, ListsOK
<1>8. ThreadsOK'
  BY <1>1, <1>5 DEF IInv, ThreadsOK
<1>9. MachineOK'
  BY <1>1, <1>5 DEF IInv, MachineOK
<1> QED
  BY <1>5, <1>6, <1>7, <1>8, <1>9 DEF IInv, NothingOverdue, HaltsWhenDone

LEMMA DeviceDoneOK == ASSUME IInv, DeviceDone PROVE IInv'
<1> DEFINE u == Head(pending).item.thread
<1>1. /\ doing \in {"tick", "idleFirst", "idle"}
      /\ pending # <<>> /\ Head(pending).item # Timer
      /\ pending' = Remaining /\ doing' = AfterFirst
      /\ readyList' = Append(readyList, u)
      /\ UNCHANGED <<status, yieldOnReturn, currentThread, at, fault, old>>
  BY DEF DeviceDone, Due
<1>2. u \in Threads /\ Head(pending).item = Device(u) /\ Device(u) \in Items(pending)
  BY <1>1, FirstPending, DeviceInjective
<1> HIDE DEF u
<1>3. at[u] = "waiting" /\ u \notin Range(readyList)
  BY <1>2 DEF IInv, ListsOK
<1>4. /\ readyList' \in Seq(Threads) /\ IsInjective(readyList')
      /\ Range(readyList') = Range(readyList) \cup {u}
  BY <1>1, <1>2, <1>3, AppendReady DEF IInv, ListsOK
<1>5. /\ pending' \in Seq(ElementsOf(Events)) /\ NoDuplicates(pending') /\ Sorted(pending')
      /\ Items(pending') = Items(pending) \ {Device(u)}
  BY <1>1, <1>2, RemainingOK
<1>6. doing' \in {"tick", "idle"} /\ (Busy' <=> Busy)
  BY <1>1, AfterFirstOK
<1>7. Types'
  BY <1>1, <1>6 DEF IInv, Types
<1>8. ListsOK'
  BY <1>1, <1>2, <1>3, <1>4, <1>5, DeviceInjective DEF IInv, ListsOK
<1>9. ThreadsOK'
  BY <1>1, <1>3, <1>4, <1>6 DEF IInv, ThreadsOK
<1>10. MachineOK'
  BY <1>1, <1>3, <1>4, <1>6 DEF IInv, MachineOK
<1> QED
  BY <1>6, <1>7, <1>8, <1>9, <1>10 DEF IInv, NothingOverdue, HaltsWhenDone

LEMMA TickReturnsOK == ASSUME IInv, TickReturns PROVE IInv'
<1>1. /\ doing = "tick" /\ ~Due /\ doing' = "run" /\ yieldOnReturn' = FALSE
      /\ UNCHANGED <<pending, status, currentThread, readyList, at, fault, old>>
  BY DEF TickReturns
<1>2. NothingOverdue'
  BY <1>1, NotDueOK DEF NothingOverdue
<1> QED
  BY <1>1, <1>2 DEF IInv, Types, ListsOK, ThreadsOK, MachineOK, Busy, HaltsWhenDone

LEMMA TickYieldsOK == ASSUME IInv, TickYields PROVE IInv'
<1> DEFINE ready == Append(readyList, currentThread)
           olds == [old EXCEPT ![currentThread] = status]
<1>1. /\ doing = "tick" /\ ~Due /\ yieldOnReturn' = FALSE
      /\ Switch(ready, at, olds, "SystemMode")
      /\ UNCHANGED <<pending, fault>>
  BY DEF TickYields
<1>2. /\ currentThread \in Threads /\ currentThread \notin Range(readyList)
      /\ at[currentThread] \in {"user", "kernel"}
      /\ status \in {"SystemMode", "UserMode"}
      /\ at[currentThread] = "user" => status = "UserMode"
  BY <1>1 DEF IInv, Types, MachineOK, Busy
<1>3. /\ ready \in Seq(Threads) /\ IsInjective(ready) /\ ready # <<>>
      /\ Range(ready) = Range(readyList) \cup {currentThread}
  BY <1>2, AppendReady DEF IInv, ListsOK
<1>4. olds \in [Threads -> {NULL, "SystemMode", "UserMode"}] /\ at \in [Threads -> Places]
  BY <1>2 DEF IInv, Types, Places
<1>5. GaveUp(ready, at, olds)
  BY <1>2, <1>3, InterruptAssumption DEF GaveUp, IInv, Types, ThreadsOK
<1> HIDE DEF ready, olds
<1>6. Switched(ready, at)
  BY <1>1, <1>3, <1>4, <1>5, SwitchOK
<1>7. NothingOverdue'
  BY <1>1, NotDueOK DEF NothingOverdue
<1>8. Types'
  BY <1>1, <1>6 DEF Switched, IInv, Types, Places
<1>9. ListsOK'
  BY <1>1, <1>2, <1>3, <1>6 DEF Switched, IInv, ListsOK
<1> QED
  BY <1>6, <1>7, <1>8, <1>9 DEF Switched, IInv, HaltsWhenDone

LEMMA IdleReturnsOK == ASSUME IInv, IdleReturns PROVE IInv'
<1>1. /\ doing = "idle" /\ ~(Due /\ ~NothingMore) /\ yieldOnReturn' = FALSE
      /\ Sleep(at, "SystemMode") /\ UNCHANGED <<pending, fault>>
  BY DEF IdleReturns
<1>2. at \in [Threads -> Places]
  BY DEF IInv, Types, Places
<1>3. GaveUp(readyList, at, old)
  BY <1>1 DEF GaveUp, IInv, ThreadsOK, Busy
<1>4. Switched(readyList, at)
  BY <1>1, <1>2, <1>3, SleepOK DEF IInv
<1>5. NothingOverdue'
  <2>1. CASE ~Due
    BY <1>1, <2>1, NotDueOK DEF NothingOverdue
  <2>2. CASE NothingMore
    <3>1. Len(pending) = 1 /\ pending # <<>> /\ Head(pending).item = Timer
      BY <2>2 DEF NothingMore
    <3>2. pending[1].item = Timer /\ DOMAIN pending = 1..1
      BY <3>1, FirstPending, LenProperties DEF IInv, ListsOK
    <3> QED
      BY <1>1, <3>2 DEF NothingOverdue
  <2> QED
    BY <1>1, <2>1, <2>2
<1>6. Types'
  BY <1>1, <1>4 DEF Switched, IInv, Types, Places
<1>7. ListsOK'
  BY <1>1, <1>4 DEF Switched, IInv, ListsOK
<1> QED
  BY <1>4, <1>5, <1>6, <1>7 DEF Switched, IInv, HaltsWhenDone

LEMMA HaltOK == ASSUME IInv, Halt PROVE IInv'
<1>1. /\ doing = "idleFirst" /\ doing' = "halted"
      /\ pending = <<>> \/ NothingMore
      /\ UNCHANGED <<pending, status, yieldOnReturn, currentThread, readyList, at, fault, old>>
  BY DEF Halt
<1>2. Items(pending) \subseteq {Timer}
  <2>1. CASE pending = <<>>
    BY <2>1 DEF Items
  <2>2. CASE NothingMore
    <3>1. Len(pending) = 1 /\ pending # <<>> /\ Head(pending).item = Timer
      BY <2>2 DEF NothingMore
    <3>2. pending[1].item = Timer /\ DOMAIN pending = 1..1
      BY <3>1, FirstPending, LenProperties DEF IInv, ListsOK
    <3> QED
      BY <3>2 DEF Items
  <2> QED
    BY <1>1, <2>1, <2>2
<1>3. readyList = <<>> /\ Range(readyList) = {}
  BY <1>1 DEF IInv, MachineOK, Range
<1>4. ASSUME NEW t \in Threads PROVE at[t] \in {"new", "finished"}
  <2>1. at[t] # "waiting"
    BY <1>2, <1>3, DeviceInjective DEF IInv, ListsOK
  <2>2. at[t] \notin {"user", "kernel"}
    BY <1>1, <1>3 DEF IInv, ThreadsOK, Busy
  <2> QED
    BY <2>1, <2>2 DEF IInv, Types
<1>5. HaltsWhenDone'
  BY <1>1, <1>3, <1>4 DEF HaltsWhenDone
<1> QED
  BY <1>1, <1>5 DEF IInv, Types, ListsOK, ThreadsOK, MachineOK, Busy, NothingOverdue

-----------------------------------------------------------------------------
LEMMA NextOK == ASSUME IInv, [Next]_vars PROVE IInv'
<1>1. CASE Machine
  BY <1>1, TimerExpiredOK, DeviceDoneOK, TickReturnsOK, TickYieldsOK, IdleReturnsOK, HaltOK
     DEF Machine
<1>2. CASE UNCHANGED vars
  BY <1>2 DEF vars, IInv, Types, ListsOK, ThreadsOK, MachineOK, Busy, NothingOverdue, HaltsWhenDone
<1>3. CASE Halted
  BY <1>2, <1>3 DEF Halted
<1>4. ASSUME NEW t \in Threads, Run(t) PROVE IInv'
  BY <1>4, TickStepsOK, ExceptionStepsOK, ForkOK, FinishOK, RequestOK DEF Run
<1> QED
  BY <1>1, <1>2, <1>3, <1>4 DEF Next

LEMMA Invariance == Spec => []IInv
<1>1. Init => IInv
  BY InitOK
<1>2. IInv /\ [Next]_vars => IInv'
  BY NextOK
<1> QED
  BY <1>1, <1>2, PTL DEF Spec

(* A device's interrupt is on the list at most once, so to be on it is to  *)
(* be on it once.                                                          *)
LEMMA PairUp == ASSUME IInv PROVE InterruptsPairUp
<1> SUFFICES ASSUME NEW t \in Threads
             PROVE  Cardinality({i \in DOMAIN pending : pending[i].item = Device(t)})
                      = IF at[t] = "waiting" /\ t \notin Range(readyList) THEN 1 ELSE 0
  BY DEF InterruptsPairUp
<1> DEFINE D == {i \in DOMAIN pending : pending[i].item = Device(t)}
<1>1. CASE Device(t) \in Items(pending)
  <2>1. PICK i \in DOMAIN pending : pending[i].item = Device(t)
    BY <1>1 DEF Items
  <2>2. D = {i}
    BY <2>1 DEF IInv, ListsOK, NoDuplicates
  <2>3. Cardinality(D) = 1
    BY <2>2, FS_Singleton
  <2> QED
    BY <1>1, <2>3 DEF IInv, ListsOK
<1>2. CASE Device(t) \notin Items(pending)
  <2>1. D = {}
    BY <1>2 DEF Items
  <2>2. Cardinality(D) = 0
    BY <2>1, FS_EmptySet
  <2> QED
    BY <1>2, <2>2 DEF IInv, ListsOK
<1> QED
  BY <1>1, <1>2

(* OneTick, Idle and CheckIfDue keep the machine sound: a device's         *)
(* interrupt comes exactly once to the thread that waits for it and before *)
(* any thread goes on after its time, and user code finds the machine in   *)
(* user mode, whatever the threads that ran in between have done.          *)
THEOREM InterruptsDelivered == Spec => []MachineSound
<1>1. IInv => MachineSound
  <2> SUFFICES ASSUME IInv PROVE MachineSound
    OBVIOUS
  <2>1. TypeOK
    <3>1. Range(pending) \subseteq [item : {Timer} \cup {Device(t) : t \in Threads}, key : Int]
      <4>1. pending \in Seq(ElementsOf(Events))
        BY DEF IInv, ListsOK
      <4>2. Range(pending) \subseteq ElementsOf(Events)
        BY <4>1, LenProperties, ElementOfSeq DEF Range
      <4> QED
        BY <4>2 DEF ElementsOf, Events
    <3>2. Range(readyList) \subseteq Threads
      BY LenProperties, ElementOfSeq DEF IInv, ListsOK, Range
    <3> QED
      BY <3>1, <3>2 DEF IInv, Types, ListsOK, TypeOK
  <2>2. UserInUserMode
    BY DEF IInv, MachineOK, Busy, UserInUserMode
  <2> QED
    BY <2>1, <2>2, PairUp DEF IInv, MachineSound
<1> QED
  BY <1>1, Invariance, PTL

(* Idle halts the machine only when nobody is ready and nobody waits for a *)
(* device.                                                                 *)
THEOREM HaltsOnlyWhenDone == Spec => []HaltsWhenDone
<1>1. IInv => HaltsWhenDone
  BY DEF IInv
<1> QED
  BY <1>1, Invariance, PTL
=============================================================================
