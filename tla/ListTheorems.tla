---------------------------- MODULE ListTheorems ----------------------------
(***************************************************************************)
(* What the operators of module List return, for lists of any length.      *)
(* The invariants of the synchronization primitives and of the scheduler   *)
(* rest on these facts.                                                    *)
(***************************************************************************)
EXTENDS List, TLAPS, WellFoundedInduction

(* The elements a List of items from S is made of.                         *)
ElementsOf(S) == [item : S, key : Int]

(* The elements of InsertBefore, one by one: those before the place stay,  *)
(* the others move back by one.                                            *)
LEMMA InsertBeforeProperties ==
    ASSUME NEW S, NEW s \in Seq(S), NEW i \in 1..Len(s)+1, NEW e \in S
    PROVE  /\ InsertBefore(s, i, e) \in Seq(S)
           /\ Len(InsertBefore(s, i, e)) = Len(s) + 1
           /\ \A j \in 1..Len(s)+1 :
                 InsertBefore(s, i, e)[j] = IF j < i THEN s[j]
                                        ELSE IF j = i THEN e ELSE s[j-1]
<1> DEFINE a == SubSeq(s, 1, i-1)
           b == SubSeq(s, i, Len(s))
<1>1. Len(s) \in Nat /\ \A k \in 1..Len(s) : s[k] \in S
  OBVIOUS
<1>2. /\ a \in Seq(S) /\ Len(a) = i-1
      /\ \A k \in 1..(i-1) : a[k] = s[k]
  <2>1. 1 \in Int /\ i-1 \in Int /\ \A k \in 1..(i-1) : s[k] \in S
    BY <1>1
  <2>2. /\ SubSeq(s, 1, i-1) \in Seq(S)
        /\ Len(SubSeq(s, 1, i-1)) = IF 1 <= i-1 THEN i-1-1+1 ELSE 0
        /\ \A k \in 1..i-1-1+1 : SubSeq(s, 1, i-1)[k] = s[1+k-1]
    BY <2>1
  <2> QED BY <2>2, <1>1
<1>3. /\ b \in Seq(S) /\ Len(b) = Len(s) - i + 1
      /\ \A k \in 1..Len(s)-i+1 : b[k] = s[k+i-1]
  <2>1. Len(s) \in Int /\ i \in Int /\ \A k \in i..Len(s) : s[k] \in S
    BY <1>1
  <2>2. /\ SubSeq(s, i, Len(s)) \in Seq(S)
        /\ Len(SubSeq(s, i, Len(s))) = IF i <= Len(s) THEN Len(s)-i+1 ELSE 0
        /\ \A k \in 1..Len(s)-i+1 : SubSeq(s, i, Len(s))[k] = s[i+k-1]
    BY <2>1
  <2> QED BY <2>2, <1>1
<1> HIDE DEF a, b
<1> DEFINE c == a \o <<e>>
<1>4. /\ c \in Seq(S) /\ Len(c) = i
      /\ \A k \in 1..i : c[k] = IF k < i THEN s[k] ELSE e
  BY <1>1, <1>2
<1> HIDE DEF c
<1>5. /\ c \o b \in Seq(S) /\ Len(c \o b) = Len(s) + 1
      /\ \A k \in 1..Len(s)+1 :
            (c \o b)[k] = IF k <= i THEN c[k] ELSE b[k - i]
  <2>1. /\ c \o b \in Seq(S) /\ Len(c \o b) = Len(c) + Len(b)
        /\ \A k \in 1..Len(c)+Len(b) :
              (c \o b)[k] = IF k <= Len(c) THEN c[k] ELSE b[k - Len(c)]
    BY <1>3, <1>4
  <2>2. Len(c) = i /\ Len(c) + Len(b) = Len(s) + 1
    BY <1>1, <1>3, <1>4
  <2> QED BY <2>1, <2>2
<1>6. InsertBefore(s, i, e) = c \o b
  BY DEF InsertBefore, a, b, c
<1> QED BY <1>1, <1>3, <1>4, <1>5, <1>6

(* SortedInsert finds its place: keys before it are not greater than       *)
(* sortKey, and the key at it, if there is one, is.                        *)
LEMMA PlaceProperties ==
    ASSUME NEW S, NEW list \in Seq(ElementsOf(S)), NEW k \in Int
    PROVE  /\ Place(list, k) \in 1..Len(list)+1
           /\ \A i \in 1..Len(list) : i < Place(list, k) => list[i].key <= k
           /\ Place(list, k) <= Len(list) => k < list[Place(list, k)].key
<1>1. Len(list) \in Nat /\ DOMAIN list = 1..Len(list)
  OBVIOUS
<1>2. \A i \in 1..Len(list) : list[i].key \in Int
  <2>1. \A i \in 1..Len(list) : list[i] \in ElementsOf(S)
    OBVIOUS
  <2> QED BY <2>1 DEF ElementsOf
<1> DEFINE G == Greater(list, k)
<1>3. /\ G \subseteq 1..Len(list)
      /\ \A i \in 1..Len(list) : i \in G <=> k < list[i].key
  BY <1>1 DEF Greater
<1>4. CASE G = {}
  BY <1>1, <1>2, <1>3, <1>4 DEF Place
<1>5. CASE G # {}
  <2>1. \E i \in G : \A j \in G :
           ~(<<j, i>> \in {ss \in Nat \X Nat : ss[1] < ss[2]})
    <3> DEFINE R == {ss \in Nat \X Nat : ss[1] < ss[2]}
    <3>1. G \subseteq Nat
      BY <1>1, <1>3
    <3>2. IsWellFoundedOn(R, Nat)
      BY NatLessThanWellFounded, Zenon DEF OpToRel
    <3> HIDE DEF G, R
    <3>3. \E i \in G : \A j \in G : ~(<<j, i>> \in R)
      BY <3>1, <3>2, <1>5, WFMin
    <3> QED BY <3>3 DEF R
  <2>2. \E i \in G : \A j \in G : i <= j
    <3>1. PICK i \in G : \A j \in G :
             ~(<<j, i>> \in {ss \in Nat \X Nat : ss[1] < ss[2]})
      BY <2>1
    <3>2. i \in Nat /\ \A j \in G : j \in Nat
      BY <1>1, <1>3
    <3> HIDE DEF G
    <3>3. \A j \in G : <<j, i>> \in Nat \X Nat /\ ~(j < i)
      BY <3>1, <3>2
    <3>4. ASSUME NEW j \in G PROVE i <= j
      <4>1. i \in Nat /\ j \in Nat /\ ~(j < i)
        BY <3>2, <3>3
      <4> QED BY <4>1
    <3> QED BY <3>4
  <2>3. /\ Place(list, k) \in G
        /\ \A j \in G : Place(list, k) <= j
    BY <2>2, <1>5 DEF Place
  <2> QED BY <1>1, <1>2, <1>3, <2>3
<1> QED BY <1>4, <1>5

(* The elements of SortedInsert, one by one.                               *)
LEMMA SortedInsertPlaces ==
    ASSUME NEW S, NEW list \in Seq(ElementsOf(S)), NEW x \in S, NEW k \in Int
    PROVE  /\ SortedInsert(list, x, k) \in Seq(ElementsOf(S))
           /\ Len(SortedInsert(list, x, k)) = Len(list) + 1
           /\ \A j \in 1..Len(list)+1 :
                 SortedInsert(list, x, k)[j] = IF j < Place(list, k) THEN list[j]
                    ELSE IF j = Place(list, k) THEN Element(x, k) ELSE list[j-1]
<1> DEFINE E == ElementsOf(S)
           p == Place(list, k)
           e == Element(x, k)
<1>1. e \in E /\ list \in Seq(E) /\ p \in 1..Len(list)+1
  BY PlaceProperties DEF Element, ElementsOf
<1> HIDE DEF E, p, e
<1>2. /\ InsertBefore(list, p, e) \in Seq(E)
      /\ Len(InsertBefore(list, p, e)) = Len(list) + 1
      /\ \A j \in 1..Len(list)+1 :
            InsertBefore(list, p, e)[j] = IF j < p THEN list[j]
                                      ELSE IF j = p THEN e ELSE list[j-1]
  BY <1>1, InsertBeforeProperties
<1> QED BY <1>2, Zenon DEF SortedInsert, E, p, e

(* SortedInsert adds exactly the item, keeps a sorted list sorted, and     *)
(* keeps the items distinct when the item is new.                          *)
THEOREM SortedInsertProperties ==
    ASSUME NEW S, NEW list \in Seq(ElementsOf(S)), NEW x \in S, NEW k \in Int
    PROVE  /\ SortedInsert(list, x, k) \in Seq(ElementsOf(S))
           /\ SortedInsert(list, x, k) # <<>>
           /\ Items(SortedInsert(list, x, k)) = Items(list) \cup {x}
           /\ Sorted(list) => Sorted(SortedInsert(list, x, k))
           /\ NoDuplicates(list) /\ x \notin Items(list)
                 => NoDuplicates(SortedInsert(list, x, k))
<1> DEFINE p == Place(list, k)
           e == Element(x, k)
           new == SortedInsert(list, x, k)
<1>1. Len(list) \in Nat /\ DOMAIN list = 1..Len(list)
  OBVIOUS
<1>2. /\ p \in 1..Len(list)+1
      /\ \A i \in 1..Len(list) : i < p => list[i].key <= k
      /\ p <= Len(list) => k < list[p].key
  BY PlaceProperties
<1>3. e \in ElementsOf(S) /\ e.item = x /\ e.key = k
  BY DEF Element, ElementsOf
<1>4. \A i \in 1..Len(list) : list[i] \in ElementsOf(S)
  OBVIOUS
<1>5. \A i \in 1..Len(list) : list[i].key \in Int
  BY <1>4 DEF ElementsOf
<1>6. new = InsertBefore(list, p, e)
  BY DEF SortedInsert
<1> HIDE DEF p, e, new
<1>7. /\ new \in Seq(ElementsOf(S))
      /\ Len(new) = Len(list) + 1
      /\ \A j \in 1..Len(list)+1 :
            new[j] = IF j < p THEN list[j] ELSE IF j = p THEN e ELSE list[j-1]
  BY SortedInsertPlaces DEF p, e, new
<1>8. DOMAIN new = 1..Len(list)+1 /\ new # <<>>
  BY <1>1, <1>7
<1>9. Items(new) = Items(list) \cup {x}
  <2>1. ASSUME NEW j \in 1..Len(list)+1
        PROVE  new[j].item \in Items(list) \cup {x}
    BY <1>1, <1>2, <1>3, <1>7 DEF Items
  <2>2. ASSUME NEW i \in 1..Len(list)
        PROVE  list[i].item \in Items(new)
    <3>1. CASE i < p
      BY <1>1, <1>2, <1>7, <1>8, <3>1 DEF Items
    <3>2. CASE i >= p
      <4>1. i + 1 \in 1..Len(list)+1 /\ new[i+1] = list[i]
        BY <1>1, <1>2, <1>7, <3>2
      <4> QED BY <1>8, <4>1 DEF Items
    <3> QED BY <1>1, <1>2, <3>1, <3>2
  <2>3. x \in Items(new)
    BY <1>1, <1>2, <1>3, <1>7, <1>8 DEF Items
  <2> QED BY <1>1, <1>8, <2>1, <2>2, <2>3 DEF Items
<1>10. ASSUME Sorted(list) PROVE Sorted(new)
  <2>1. \A i, j \in 1..Len(list) : i < j => list[i].key <= list[j].key
    BY <1>1, <1>10 DEF Sorted
  <2>2. \A i \in 1..Len(list) : i >= p => k <= list[i].key
    BY <1>1, <1>2, <1>5, <2>1
  <2>3. ASSUME NEW i \in 1..Len(list)+1, NEW j \in 1..Len(list)+1, i < j
        PROVE  new[i].key <= new[j].key
    <3>1. CASE i < p /\ j < p
      BY <1>1, <1>2, <1>7, <2>1, <2>3, <3>1
    <3>2. CASE i < p /\ j = p
      BY <1>1, <1>2, <1>3, <1>7, <2>3, <3>2
    <3>3. CASE i < p /\ j > p
      <4>1. /\ i \in 1..Len(list) /\ j-1 \in 1..Len(list) /\ i < j-1
            /\ new[i] = list[i] /\ new[j] = list[j-1]
        BY <1>1, <1>2, <1>7, <2>3, <3>3
      <4> QED BY <2>1, <4>1
    <3>4. CASE i = p
      <4>1. j-1 \in 1..Len(list) /\ j-1 >= p /\ new[i] = e /\ new[j] = list[j-1]
        BY <1>1, <1>2, <1>7, <2>3, <3>4
      <4> QED BY <1>3, <2>2, <4>1
    <3>5. CASE i > p
      <4>1. /\ i-1 \in 1..Len(list) /\ j-1 \in 1..Len(list) /\ i-1 < j-1
            /\ new[i] = list[i-1] /\ new[j] = list[j-1]
        BY <1>1, <1>2, <1>7, <2>3, <3>5
      <4> QED BY <2>1, <4>1
    <3> QED BY <1>1, <1>2, <3>1, <3>2, <3>3, <3>4, <3>5
  <2> QED BY <1>8, <2>3 DEF Sorted
<1>11. ASSUME NoDuplicates(list), x \notin Items(list) PROVE NoDuplicates(new)
  <2>1. \A i, j \in 1..Len(list) : list[i].item = list[j].item => i = j
    BY <1>1, <1>11 DEF NoDuplicates
  <2>2. \A i \in 1..Len(list) : list[i].item # x
    BY <1>1, <1>11 DEF Items
  <2> DEFINE old(i) == IF i < p THEN i ELSE i - 1
  <2>3. ASSUME NEW i \in 1..Len(list)+1, i # p
        PROVE  old(i) \in 1..Len(list) /\ new[i] = list[old(i)]
    BY <1>1, <1>2, <1>7, <2>3
  <2>4. \A i, j \in 1..Len(list)+1 : i # p /\ j # p /\ old(i) = old(j) => i = j
    BY <1>1, <1>2
  <2> HIDE DEF old
  <2>5. new[p].item = x
    BY <1>1, <1>2, <1>3, <1>7
  <2>6. ASSUME NEW i \in 1..Len(list)+1, NEW j \in 1..Len(list)+1,
               new[i].item = new[j].item
        PROVE  i = j
    <3>1. CASE i # p /\ j # p
      <4>1. list[old(i)].item = list[old(j)].item
        BY <2>3, <2>6, <3>1
      <4>2. old(i) = old(j)
        BY <2>1, <2>3, <3>1, <4>1
      <4> QED BY <2>4, <3>1, <4>2
    <3>2. CASE i = p /\ j # p
      BY <2>2, <2>3, <2>5, <2>6, <3>2
    <3>3. CASE i # p /\ j = p
      BY <2>2, <2>3, <2>5, <2>6, <3>3
    <3> QED BY <3>1, <3>2, <3>3
  <2> QED BY <1>8, <2>6 DEF NoDuplicates
<1> QED BY <1>7, <1>8, <1>9, <1>10, <1>11 DEF new

(* Remove takes away exactly the first item, keeps the order, and in a     *)
(* list without duplicates the removed item is gone; in a sorted list no   *)
(* remaining key is smaller than the removed one.                          *)
THEOREM RestProperties ==
    ASSUME NEW S, NEW list \in Seq(ElementsOf(S)), list # <<>>
    PROVE  /\ Head(list) \in ElementsOf(S)
           /\ Rest(list) \in Seq(ElementsOf(S))
           /\ Items(list) = Items(Rest(list)) \cup {Head(list).item}
           /\ Sorted(list) => /\ Sorted(Rest(list))
                              /\ \A i \in DOMAIN Rest(list) :
                                    Head(list).key <= Rest(list)[i].key
           /\ NoDuplicates(list) => /\ NoDuplicates(Rest(list))
                                    /\ Head(list).item \notin Items(Rest(list))
<1> DEFINE r == Tail(list)
<1>1. Len(list) \in Nat \ {0} /\ DOMAIN list = 1..Len(list)
  OBVIOUS
<1>2. /\ Head(list) = list[1]
      /\ r \in Seq(ElementsOf(S)) /\ Len(r) = Len(list) - 1
      /\ \A i \in 1..Len(r) : r[i] = list[i+1]
  OBVIOUS
<1>3. DOMAIN r = 1..Len(list)-1
  BY <1>2
<1>4. Rest(list) = r
  BY DEF Rest
<1> HIDE DEF r
<1>5. list[1] \in ElementsOf(S)
  BY <1>1
<1>6. Items(list) = Items(r) \cup {list[1].item}
  <2>1. ASSUME NEW i \in 1..Len(list)
        PROVE  list[i].item \in Items(r) \cup {list[1].item}
    <3>1. CASE i # 1
      <4>1. i - 1 \in 1..Len(list)-1 /\ r[i-1] = list[i]
        BY <1>1, <1>2, <3>1
      <4> QED BY <1>3, <4>1 DEF Items
    <3> QED BY <3>1
  <2>2. ASSUME NEW i \in 1..Len(list)-1
        PROVE  r[i].item \in Items(list)
    <3>1. i+1 \in 1..Len(list) /\ r[i] = list[i+1]
      BY <1>1, <1>2
    <3> QED BY <1>1, <3>1 DEF Items
  <2> QED BY <1>1, <1>3, <2>1, <2>2 DEF Items
<1>7. ASSUME Sorted(list)
      PROVE  Sorted(r) /\ \A i \in DOMAIN r : list[1].key <= r[i].key
  <2>1. \A i, j \in 1..Len(list) : i < j => list[i].key <= list[j].key
    BY <1>1, <1>7 DEF Sorted
  <2>2. \A i \in 1..Len(list)-1 : i+1 \in 1..Len(list) /\ 1 < i+1 /\ r[i] = list[i+1]
    BY <1>1, <1>2
  <2>3. \A i, j \in 1..Len(list)-1 : i < j => r[i].key <= r[j].key
    BY <1>1, <2>1, <2>2
  <2>4. \A i \in 1..Len(list)-1 : list[1].key <= r[i].key
    BY <1>1, <2>1, <2>2
  <2> QED BY <1>3, <2>3, <2>4 DEF Sorted
<1>8. ASSUME NoDuplicates(list)
      PROVE  NoDuplicates(r) /\ list[1].item \notin Items(r)
  <2>1. \A i, j \in 1..Len(list) : list[i].item = list[j].item => i = j
    BY <1>1, <1>8 DEF NoDuplicates
  <2>2. \A i \in 1..Len(list)-1 : i+1 \in 1..Len(list) /\ 1 # i+1 /\ r[i] = list[i+1]
    BY <1>1, <1>2
  <2>3. \A i, j \in 1..Len(list)-1 : r[i].item = r[j].item => i = j
    BY <1>1, <2>1, <2>2
  <2>4. \A i \in 1..Len(list)-1 : list[1].item # r[i].item
    BY <1>1, <2>1, <2>2
  <2> QED BY <1>3, <2>3, <2>4 DEF NoDuplicates, Items
<1> QED BY <1>2, <1>4, <1>5, <1>6, <1>7, <1>8

(* An empty list has no items; a non-empty one has its first.              *)
LEMMA EmptyListProperties ==
    ASSUME NEW S, NEW list \in Seq(ElementsOf(S))
    PROVE  /\ Items(<<>>) = {} /\ Sorted(<<>>) /\ NoDuplicates(<<>>)
           /\ Rest(<<>>) = <<>>
           /\ list = <<>> <=> Items(list) = {}
           /\ Items(list) \subseteq S
<1>1. DOMAIN <<>> = {}
  OBVIOUS
<1>2. ASSUME list # <<>> PROVE Items(list) # {}
  BY <1>2, RestProperties
<1>3. Items(list) \subseteq S
  <2>1. DOMAIN list = 1..Len(list) /\ \A i \in 1..Len(list) : list[i] \in ElementsOf(S)
    OBVIOUS
  <2> QED BY <2>1 DEF Items, ElementsOf
<1> QED BY <1>1, <1>2, <1>3 DEF Items, Sorted, NoDuplicates, Rest

-----------------------------------------------------------------------------
(* SortedInsert of a new thread under its negated priority, as P, Acquire  *)
(* and Wait call it, keeps a priority queue one.                           *)
THEOREM EnqueueProperties ==
    ASSUME NEW S, NEW priority \in [S -> Int],
           NEW list \in Seq(ElementsOf(S)), PriorityQueue(list, priority),
           NEW x \in S, x \notin Items(list)
    PROVE  /\ SortedInsert(list, x, -priority[x]) \in Seq(ElementsOf(S))
           /\ SortedInsert(list, x, -priority[x]) # <<>>
           /\ Items(SortedInsert(list, x, -priority[x])) = Items(list) \cup {x}
           /\ PriorityQueue(SortedInsert(list, x, -priority[x]), priority)
<1> DEFINE k == -priority[x]
           new == SortedInsert(list, x, k)
           p == Place(list, k)
           e == Element(x, k)
           E == ElementsOf(S)
<1>1. k \in Int
  OBVIOUS
<1>2. e \in E /\ e.item = x /\ e.key = -priority[x]
  BY <1>1 DEF Element, ElementsOf
<1>3. new = InsertBefore(list, p, e)
  BY DEF SortedInsert
<1> HIDE DEF k
<1>4. /\ new \in Seq(ElementsOf(S))
      /\ new # <<>>
      /\ Items(new) = Items(list) \cup {x}
      /\ Sorted(new) /\ NoDuplicates(new)
  BY <1>1, SortedInsertProperties DEF PriorityQueue
<1>5. p \in 1..Len(list)+1
  BY <1>1, PlaceProperties
<1>6. DOMAIN list = 1..Len(list) /\ DOMAIN new = 1..Len(new) /\ Len(list) \in Nat
  BY <1>4
<1>7. list \in Seq(E)
  OBVIOUS
<1> HIDE DEF p, e, E, new
<1>8. /\ Len(new) = Len(list) + 1
      /\ \A j \in 1..Len(list)+1 :
            new[j] = IF j < p THEN list[j] ELSE IF j = p THEN e ELSE list[j-1]
  <2>1. /\ Len(InsertBefore(list, p, e)) = Len(list) + 1
        /\ \A j \in 1..Len(list)+1 :
              InsertBefore(list, p, e)[j] = IF j < p THEN list[j]
                                        ELSE IF j = p THEN e ELSE list[j-1]
    BY <1>2, <1>5, <1>7, InsertBeforeProperties
  <2> QED BY <1>3, <2>1
<1>9. \A i \in 1..Len(list) : list[i].key = -priority[list[i].item]
  BY <1>6 DEF PriorityQueue
<1>10. ASSUME NEW i \in 1..Len(list)+1
       PROVE  new[i].key = -priority[new[i].item]
  <2>1. CASE i < p
    BY <1>5, <1>6, <1>8, <1>9, <2>1
  <2>2. CASE i = p
    BY <1>2, <1>8, <2>2
  <2>3. CASE i > p
    <3>1. i-1 \in 1..Len(list) /\ new[i] = list[i-1]
      BY <1>5, <1>6, <1>8, <2>3
    <3> QED BY <1>9, <3>1
  <2> QED BY <1>5, <1>6, <2>1, <2>2, <2>3
<1>11. PriorityQueue(new, priority)
  BY <1>4, <1>6, <1>8, <1>10 DEF PriorityQueue
<1> QED BY <1>4, <1>11 DEF new, k

(* Remove from a priority queue, as V, Release and Signal call it: the     *)
(* removed thread is gone, and no thread left behind has a higher          *)
(* priority.                                                               *)
THEOREM DequeueProperties ==
    ASSUME NEW S, NEW priority \in [S -> Int],
           NEW list \in Seq(ElementsOf(S)), PriorityQueue(list, priority),
           list # <<>>
    PROVE  /\ Head(list).item \in Items(list)
           /\ Rest(list) \in Seq(ElementsOf(S))
           /\ Items(Rest(list)) = Items(list) \ {Head(list).item}
           /\ PriorityQueue(Rest(list), priority)
           /\ \A u \in Items(Rest(list)) : priority[u] <= priority[Head(list).item]
<1> DEFINE r == Rest(list)
           h == Head(list)
<1>1. /\ h \in ElementsOf(S)
      /\ r \in Seq(ElementsOf(S))
      /\ Items(list) = Items(r) \cup {h.item}
      /\ Sorted(r) /\ NoDuplicates(r) /\ h.item \notin Items(r)
      /\ \A i \in DOMAIN r : h.key <= r[i].key
  BY RestProperties DEF PriorityQueue
<1>2. /\ DOMAIN list = 1..Len(list) /\ Len(list) \in Nat \ {0}
      /\ DOMAIN r = 1..Len(list)-1
      /\ h = list[1]
      /\ \A i \in 1..Len(list)-1 : i+1 \in 1..Len(list) /\ r[i] = list[i+1]
  <2>1. r = Tail(list)
    BY DEF Rest
  <2> QED BY <2>1
<1> HIDE DEF r, h
<1>3. /\ \A i \in DOMAIN r : r[i].key = -priority[r[i].item]
      /\ h.key = -priority[h.item]
  <2>1. \A i \in 1..Len(list) : list[i].key = -priority[list[i].item]
    BY <1>2 DEF PriorityQueue
  <2>2. ASSUME NEW i \in DOMAIN r PROVE r[i].key = -priority[r[i].item]
    BY <1>2, <2>1
  <2>3. 1 \in 1..Len(list)
    BY <1>2
  <2> QED BY <1>2, <2>1, <2>2, <2>3
<1>4. ASSUME NEW u \in Items(r)
      PROVE  priority[u] <= priority[h.item]
  <2>1. PICK i \in DOMAIN r : r[i].item = u
    BY DEF Items
  <2>2. r[i] \in ElementsOf(S)
    BY <1>1, <2>1
  <2>3. priority[u] \in Int /\ priority[h.item] \in Int
    BY <1>1, <2>1, <2>2 DEF ElementsOf
  <2>4. -priority[h.item] <= -priority[u]
    BY <1>1, <1>3, <2>1
  <2> QED BY <2>3, <2>4
<1> QED BY <1>1, <1>3, <1>4 DEF PriorityQueue, r, h
=============================================================================
