----------------------------- MODULE LinkedList -----------------------------
(***************************************************************************)
(* List as it is built (threads/list.cc): ListElements linked by pointers, *)
(* with pointers to the first and the last of them.                        *)
(***************************************************************************)
EXTENDS Integers, Sequences, FiniteSets

CONSTANTS
    Addresses,          \* the ListElements that new may return
    Values,             \* the items
    Keys,               \* the keys SortedInsert is called with
    NULL                \* the null pointer

VARIABLES
    first, last,        \* List::first and List::last
    item, key, next,    \* the fields of the ListElement at each address
    used,               \* the addresses new has returned and delete has not
                        \* been given
    result              \* what the last operation returned

vars == <<first, last, item, key, next, used, result>>

(* The element n steps from the first, and how many there are.             *)
Reached[n \in 0..Cardinality(Addresses)] ==
    IF n = 0 THEN first
    ELSE IF Reached[n - 1] = NULL THEN NULL ELSE next[Reached[n - 1]]

Length == Cardinality({n \in DOMAIN Reached : Reached[n] # NULL})

IsEmpty == first = NULL

-----------------------------------------------------------------------------
Init ==
    /\ first = NULL /\ last = NULL
    /\ item = [a \in Addresses |-> NULL]
    /\ key = [a \in Addresses |-> 0]
    /\ next = [a \in Addresses |-> NULL]
    /\ used = {}
    /\ result = NULL

(* ListElement's constructor, at an address that is free.                  *)
NewElement(a, v, k) ==
    /\ a \notin used
    /\ used' = used \cup {a}
    /\ item' = [item EXCEPT ![a] = v]
    /\ key' = [key EXCEPT ![a] = k]
    /\ result' = NULL

(* The element at a goes to the front, to the end, or becomes the only one.*)
AtFront(a) ==
    /\ next' = [next EXCEPT ![a] = first]
    /\ first' = a
    /\ last' = IF IsEmpty THEN a ELSE last

AtEnd(a) ==
    /\ next' = [n \in Addresses |-> IF n = a THEN NULL ELSE IF n = last THEN a ELSE next[n]]
    /\ first' = IF IsEmpty THEN a ELSE first
    /\ last' = a

AppendItem(v) == \E a \in Addresses : NewElement(a, v, 0) /\ AtEnd(a)

PrependItem(v) == \E a \in Addresses : NewElement(a, v, 0) /\ AtFront(a)

(* SortedInsert's first two tests: the new element becomes the first.      *)
BeforeFirst(k) == IF IsEmpty THEN TRUE ELSE k < key[first]

(* A loop that also stops at an equal key.                                 *)
GreaterNextOrEqual(k) == {n \in 0..(Length - 2) : k <= key[Reached[n + 1]]}

(* The steps at which SortedInsert's loop finds a next element with a      *)
(* greater key.                                                            *)
GreaterNext(k) == {n \in 0..(Length - 2) : k < key[Reached[n + 1]]}

InsertItem(v, k) ==
    \E a \in Addresses :
        /\ NewElement(a, v, k)
        /\ \/ BeforeFirst(k) /\ AtFront(a)
           \/ /\ ~BeforeFirst(k)
              /\ \E n \in GreaterNext(k) :
                    /\ \A i \in GreaterNext(k) : n <= i
                    /\ next' = [next EXCEPT ![a] = next[Reached[n]], ![Reached[n]] = a]
              /\ UNCHANGED <<first, last>>
           \/ /\ ~BeforeFirst(k) /\ GreaterNext(k) = {}
              /\ AtEnd(a)

(* delete, of the first element: its fields are not to be read any more.   *)
DeleteFirst ==
    /\ used' = used \ {first}
    /\ item' = [item EXCEPT ![first] = NULL]
    /\ key' = [key EXCEPT ![first] = 0]
    /\ next' = [next EXCEPT ![first] = NULL]

(* SortedRemove; Remove is the same without the key.                       *)
RemoveItem ==
    \/ /\ IsEmpty
       /\ result' = NULL
       /\ UNCHANGED <<first, last, item, key, next, used>>
    \/ /\ ~IsEmpty
       /\ result' = [item |-> item[first], key |-> key[first]]
       /\ \/ first = last /\ first' = NULL /\ last' = NULL
          \/ first # last /\ first' = next[first] /\ UNCHANGED last
       /\ DeleteFirst

Next ==
    \/ \E v \in Values :
          AppendItem(v) \/ PrependItem(v) \/ \E k \in Keys : InsertItem(v, k)
    \/ RemoveItem

Spec == Init /\ [][Next]_vars

-----------------------------------------------------------------------------
(* Exactly the elements that are not deleted are linked from first, each   *)
(* once, and last is the one without a successor.                          *)
WellLinked ==
    /\ used = {Reached[n] : n \in 0..(Length - 1)}
    /\ Cardinality(used) = Length
    /\ last = IF Length = 0 THEN NULL ELSE Reached[Length - 1]
    /\ last # NULL => next[last] = NULL

(* The pointers implement the sequence that the rest of the kernel is      *)
(* modelled with.                                                          *)
Abstract == INSTANCE AbstractList WITH
    list <- [i \in 1..Length |-> [item |-> item[Reached[i - 1]], key |-> key[Reached[i - 1]]]]

ImplementsList == Abstract!Spec
=============================================================================
