---------------------------- MODULE AbstractList ----------------------------
(***************************************************************************)
(* What List promises to the rest of the kernel, in terms of the operators *)
(* of module List: a sequence of items with keys.                          *)
(***************************************************************************)
EXTENDS List

CONSTANTS Values, Keys, NULL

VARIABLES list,      \* the elements
          result     \* what the last operation returned

vars == <<list, result>>

Init == list = <<>> /\ result = NULL

AppendItem(v) == list' = Append(list, Element(v, 0)) /\ result' = NULL

PrependItem(v) == list' = <<Element(v, 0)>> \o list /\ result' = NULL

InsertItem(v, k) == list' = SortedInsert(list, v, k) /\ result' = NULL

(* SortedRemove returns the first element, or nothing from an empty list.  *)
RemoveItem ==
    /\ list' = Rest(list)
    /\ result' = IF list = <<>> THEN NULL ELSE Head(list)

Next ==
    \/ \E v \in Values : AppendItem(v) \/ PrependItem(v) \/ \E k \in Keys : InsertItem(v, k)
    \/ RemoveItem

Spec == Init /\ [][Next]_vars
=============================================================================
