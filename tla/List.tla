-------------------------------- MODULE List --------------------------------
(***************************************************************************)
(* The kernel's List (threads/list.cc), as every other part of the kernel  *)
(* sees it: a sequence of elements, each an item with the integer key it   *)
(* was inserted under.  The ready list, the queues of semaphores, locks    *)
(* and condition variables and the queue of pending interrupts are all     *)
(* Lists.  Module LinkedList shows that the pointer structure implements   *)
(* these operators.                                                        *)
(***************************************************************************)
EXTENDS Integers, Sequences

(* One ListElement.                                                        *)
Element(item, key) == [item |-> item, key |-> key]

(* The items of a list.                                                    *)
Items(list) == {list[i].item : i \in DOMAIN list}

(* The places of a list whose key is greater than sortKey.                 *)
Greater(list, sortKey) == {i \in DOMAIN list : sortKey < list[i].key}

(* Where SortedInsert puts an element: before the first greater key.       *)
Place(list, sortKey) ==
    IF Greater(list, sortKey) = {} THEN Len(list) + 1
    ELSE CHOOSE i \in Greater(list, sortKey) :
            \A j \in Greater(list, sortKey) : i <= j

(* The list with an element put in at place i.                             *)
InsertBefore(list, i, element) ==
    SubSeq(list, 1, i - 1) \o <<element>> \o SubSeq(list, i, Len(list))

SortedInsert(list, item, sortKey) ==
    InsertBefore(list, Place(list, sortKey), Element(item, sortKey))

(* What Remove leaves: the list without its first element, if it has one.  *)
Rest(list) == IF list = <<>> THEN <<>> ELSE Tail(list)

(* Keys never decrease from the front to the back.                         *)
Sorted(list) ==
    \A i, j \in DOMAIN list : i < j => list[i].key <= list[j].key

(* No item is on the list twice.                                           *)
NoDuplicates(list) ==
    \A i, j \in DOMAIN list : list[i].item = list[j].item => i = j

(* The queues of the synchronization primitives: distinct threads, keyed   *)
(* by their negated priorities, in the order of the keys.                  *)
PriorityQueue(list, priority) ==
    /\ NoDuplicates(list)
    /\ Sorted(list)
    /\ \A i \in DOMAIN list : list[i].key = -priority[list[i].item]
=============================================================================
