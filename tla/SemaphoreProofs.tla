-------------------------- MODULE SemaphoreProofs ---------------------------
(***************************************************************************)
(* The semaphore is correct for every finite set of threads, every         *)
(* assignment of priorities and every initial value.                       *)
(***************************************************************************)
EXTENDS Semaphore, ListTheorems, FiniteSetTheorems

(* The constructor establishes the invariant.                              *)
LEMMA InitInv == Init => Inv
<1> SUFFICES ASSUME Init PROVE Inv
  OBVIOUS
<1>1. queue = <<>> /\ value \in Nat /\ inP = {}
  BY SemaphoreAssumption DEF Init
<1>2. Items(<<>>) = {} /\ Sorted(<<>>) /\ NoDuplicates(<<>>)
  BY DEF Items, Sorted, NoDuplicates
<1> QED BY <1>1, <1>2 DEF Inv, TypeOK, PriorityQueue, NoLostWakeup, Asleep

(* A P that goes to sleep only adds its caller to the sleepers; one that   *)
(* takes a token uses up one woken thread's worth of value.                *)
LEMMA PStep ==
    ASSUME Inv, NEW t \in Threads, P(t)
    PROVE  Inv' /\ Asleep \ Asleep' = {}
<1> USE DEF Inv
<1>1. /\ Priority \in [Threads -> Int]
      /\ queue \in Seq(ElementsOf(Threads))
      /\ IsFiniteSet(Threads)
  BY SemaphoreAssumption DEF TypeOK, ElementsOf
<1>2. CASE value = 0 /\ queue' = SortedInsert(queue, t, -Priority[t])
           /\ inP' = inP \cup {t} /\ value' = value
  <2>1. t \notin Items(queue)
    BY DEF P, Asleep
  <2>2. /\ queue' \in Seq(ElementsOf(Threads))
        /\ Items(queue') = Items(queue) \cup {t}
        /\ PriorityQueue(queue', Priority)
    BY <1>1, <1>2, <2>1, EnqueueProperties
  <2>3. TypeOK'
    BY <1>2, <2>2 DEF TypeOK, ElementsOf, Asleep
  <2>4. IsFiniteSet(Woken')
    BY <1>1, <2>3, FS_Subset DEF TypeOK, Woken
  <2>5. NoLostWakeup'
    BY <1>2, <2>4, FS_CardinalityType DEF NoLostWakeup
  <2> QED BY <2>2, <2>3, <2>5 DEF Asleep
<1>3. CASE value > 0 /\ value' = value - 1 /\ inP' = inP \ {t} /\ queue' = queue
  <2>1. t \notin Asleep /\ Asleep' = Asleep
    BY <1>3 DEF P, Asleep
  <2>2. TypeOK'
    BY <1>3, <2>1 DEF TypeOK
  <2>3. Woken' = Woken \ {t}
    BY <1>3, <2>1 DEF Woken
  <2>4. IsFiniteSet(Woken)
    BY <1>1, FS_Subset DEF TypeOK, Woken
  <2>5. IsFiniteSet(Woken') /\ Cardinality(Woken') = IF t \in Woken THEN Cardinality(Woken) - 1
                                                    ELSE Cardinality(Woken)
    BY <2>3, <2>4, FS_RemoveElement
  <2>6. Cardinality(Woken) \in Nat /\ Cardinality(Woken') \in Nat
    BY <2>4, <2>5, FS_CardinalityType
  <2>7. NoLostWakeup'
    BY <1>3, <2>5, <2>6 DEF NoLostWakeup, TypeOK
  <2> QED BY <1>3, <2>1, <2>2, <2>7
<1> QED BY <1>2, <1>3 DEF P

(* A V that finds a sleeper moves it to the woken threads, so the value    *)
(* and the number of woken threads grow together.                          *)
LEMMA VStep ==
    ASSUME Inv, V
    PROVE  /\ Inv'
           /\ \A t \in Asleep \ Asleep' : \A u \in Asleep' : Priority[u] <= Priority[t]
<1> USE DEF Inv
<1>1. /\ Priority \in [Threads -> Int]
      /\ queue \in Seq(ElementsOf(Threads))
      /\ IsFiniteSet(Threads)
  BY SemaphoreAssumption DEF TypeOK, ElementsOf
<1>2. /\ queue' = Rest(queue) /\ inP' = inP /\ value' = value + 1
  BY DEF V
<1>3. CASE queue = <<>>
  <2>1. queue' = <<>> /\ Asleep' = Asleep
    BY <1>2, <1>3 DEF Rest, Asleep
  <2>2. TypeOK'
    BY <1>1, <1>2, <2>1 DEF TypeOK, ElementsOf
  <2>3. PriorityQueue(queue', Priority)
    BY <1>3, <2>1
  <2> QED BY <2>1, <2>2, <2>3 DEF NoLostWakeup
<1>4. CASE queue # <<>>
  <2> DEFINE h == Head(queue).item
  <2>1. /\ h \in Items(queue)
        /\ queue' \in Seq(ElementsOf(Threads))
        /\ Items(queue') = Items(queue) \ {h}
        /\ PriorityQueue(queue', Priority)
        /\ \A u \in Items(queue') : Priority[u] <= Priority[h]
    BY <1>1, <1>2, <1>4, DequeueProperties
  <2> HIDE DEF h
  <2>2. TypeOK'
    BY <1>2, <2>1 DEF TypeOK, ElementsOf, Asleep
  <2>3. Woken' = Woken \cup {h} /\ h \notin Woken
    BY <1>2, <2>1 DEF Woken, Asleep, TypeOK
  <2>4. IsFiniteSet(Woken)
    BY <1>1, FS_Subset DEF TypeOK, Woken
  <2>5. Cardinality(Woken) \in Nat /\ Cardinality(Woken') = Cardinality(Woken) + 1
    BY <2>3, <2>4, FS_AddElement, FS_CardinalityType
  <2>6. NoLostWakeup'
    BY <1>2, <1>4, <2>5 DEF NoLostWakeup, TypeOK
  <2> QED BY <2>1, <2>2, <2>6 DEF Asleep
<1> QED BY <1>3, <1>4

(* A step that changes nothing.                                            *)
LEMMA StutterStep == Inv /\ UNCHANGED vars => Inv' /\ Asleep' = Asleep
BY DEF Inv, vars, TypeOK, NoLostWakeup, Woken, Asleep

(* The invariant is inductive.                                             *)
THEOREM Invariant == SafetySpec => []Inv
<1>1. Inv /\ [Next]_vars => Inv'
  BY PStep, VStep, StutterStep DEF Next
<1> QED BY InitInv, <1>1, PTL DEF SafetySpec

(* The value of the semaphore stays a natural number and only threads      *)
(* inside P sleep on its queue.                                            *)
THEOREM TypeCorrect == SafetySpec => []TypeOK
BY Invariant, PTL DEF Inv

(* No wakeup is ever lost: while threads sleep in P, every token has a     *)
(* woken thread on its way to take it.                                     *)
THEOREM NeverLosesAWakeup == SafetySpec => []NoLostWakeup
BY Invariant, PTL DEF Inv

(* Every V wakes a thread of the highest priority asleep.                  *)
THEOREM WakesByPriority == SafetySpec => WakesHighestPriority
<1>1. Inv /\ [Next]_vars =>
        [\A t \in Asleep \ Asleep' : \A u \in Asleep' : Priority[u] <= Priority[t]]_vars
  BY PStep, VStep DEF Next
<1> QED BY Invariant, <1>1, PTL DEF SafetySpec, WakesHighestPriority

(* Every step of the semaphore is a step of the atomic semaphore.          *)
THEOREM ImplementsAtomicSemaphore == SafetySpec => ImplementsSafety
<1>1. Init => Abstract!Init
  BY DEF Init, Abstract!Init
<1>2. Inv /\ [Next]_vars => [Abstract!Next]_(Abstract!vars)
  <2> SUFFICES ASSUME Inv, [Next]_vars PROVE [Abstract!Next]_(Abstract!vars)
    OBVIOUS
  <2> USE DEF Abstract!Next, Abstract!vars
  <2>1. ASSUME NEW t \in Threads, P(t) PROVE [Abstract!Next]_(Abstract!vars)
    BY <2>1 DEF P, Abstract!Block, Abstract!Take
  <2>2. CASE V
    BY <2>2 DEF V, Abstract!Give
  <2>3. CASE UNCHANGED vars
    BY <2>3 DEF vars
  <2> QED BY <2>1, <2>2, <2>3 DEF Next
<1> QED BY Invariant, <1>1, <1>2, PTL DEF SafetySpec, ImplementsSafety, Abstract!SafetySpec
=============================================================================
