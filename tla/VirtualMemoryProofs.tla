------------------------ MODULE VirtualMemoryProofs -------------------------
(***************************************************************************)
(* Demand paging is correct for any number of spaces, threads, pages and   *)
(* frames, with either way of choosing a victim.  What holds only as long  *)
(* as the timer has not struck inside the kernel is stated of the states   *)
(* with switches = 0.                                                      *)
(***************************************************************************)
EXTENDS VirtualMemory, FiniteSetTheorems, TLAPS

Entries == [physicalPage : Frames \cup {-2}, valid : BOOLEAN, use : BOOLEAN, dirty : BOOLEAN]

(* A page table of space s.  Only pages of the program are ever paged out. *)
TableOK(table, s) ==
    /\ Cardinality(DOMAIN table) \in Nat
    /\ table \in [0..(Cardinality(DOMAIN table) - 1) -> Entries]
    /\ ProgramPages[s] \subseteq DOMAIN table
    /\ \A p \in DOMAIN table :
          /\ table[p].valid \/ table[p].dirty => table[p].physicalPage \in Frames
          /\ p \notin ProgramPages[s] => table[p].valid

CorePages ==
    {c \in [space : Spaces, vpn : Nat, frame : Frames] : c.vpn \in ProgramPages[c.space]}

(* How far a thread of space s may be in the kernel.                       *)
AtOK(a, s) ==
    \/ a = User
    \/ a = [pc |-> "exited"]
    \/ a \in [pc : {"alloc"}, vpn : ProgramPages[s]]
    \/ a \in [pc : {"free"}, vpn : ProgramPages[s], frame : Frames]
    \/ a \in [pc : {"load"}, vpn : ProgramPages[s], frame : Frames \cup {-1}]
    \/ /\ a \in [pc : {"stack", "map"}, child : Forked, frames : Seq(Frames),
                 newTable : {a.newTable}]
       /\ TableOK(a.newTable, s)
       /\ IF a.pc = "stack" THEN Len(a.frames) < StackPages ELSE Len(a.frames) = StackPages

(* The types, whatever the timer does.                                     *)
Types ==
    /\ LRU \in LRUs
    /\ pageTable = [s \in Spaces |-> pageTable[s]]
    /\ \A s \in Spaces : TableOK(pageTable[s], s)
    /\ mainMemory \in [Frames -> Contents]
    /\ pages \subseteq Frames
    /\ holder \in Threads \cup {NONE} /\ kernel \in Threads \cup {NONE}
    /\ chain \in Seq(CorePages) /\ tailLost \in BOOLEAN
    /\ size \in 0..NumPhysPages /\ Len(chain) <= size
    /\ size = NumPhysPages => chain # <<>>
    /\ stored = [s \in Spaces |-> stored[s]] /\ file = [s \in Spaces |-> file[s]]
    /\ \A s \in Spaces : /\ stored[s] \subseteq ProgramPages[s]
                         /\ file[s] \in [ProgramPages[s] -> Contents]
    /\ active \subseteq Threads
    /\ at = [t \in Threads |-> at[t]]
    /\ \A t \in Threads : AtOK(at[t], SpaceOf[t])
    /\ writes \in 0..MaxWrites /\ switches \in Nat
    /\ fault \in {"none", "no frame", "beyond table"}

Outside == {"user", "exited"}

(* As long as the timer has not struck inside the kernel, one thread at    *)
(* most is there.                                                          *)
Alone ==
    /\ holder # NONE => holder = kernel
    /\ \A t \in Threads : /\ at[t].pc \notin Outside => t = kernel
                          /\ at[t].pc \in {"load", "map"} => holder = NONE

Valid(s, p) == p \in DOMAIN pageTable[s] /\ pageTable[s][p].valid
Frame(s, p) == pageTable[s][p].physicalPage

(* No valid page is in frame f.                                            *)
Unowned(f) == \A s \in Spaces : \A p \in DOMAIN pageTable[s] : Valid(s, p) => Frame(s, p) # f

(* The frames, the page tables and the core map agree.                     *)
FramesOK ==
    /\ \A s, r \in Spaces : \A p \in DOMAIN pageTable[s] : \A q \in DOMAIN pageTable[r] :
          Valid(s, p) /\ Valid(r, q) /\ Frame(s, p) = Frame(r, q) => s = r /\ p = q
    /\ \A s \in Spaces : \A p \in DOMAIN pageTable[s] :
          /\ Valid(s, p) => Frame(s, p) \in pages
          /\ ~Valid(s, p) => ~pageTable[s][p].dirty
    /\ \A i \in DOMAIN chain :
          Valid(chain[i].space, chain[i].vpn)
            /\ Frame(chain[i].space, chain[i].vpn) = chain[i].frame
    /\ \A i, j \in DOMAIN chain :
          chain[i].space = chain[j].space /\ chain[i].vpn = chain[j].vpn => i = j

(* A page that has not been written since it was loaded is what its file   *)
(* or its backing store has.                                               *)
CleanOK ==
    \A s \in Spaces : \A p \in ProgramPages[s] :
        Valid(s, p) /\ ~pageTable[s][p].dirty => mainMemory[Frame(s, p)] = Loaded(s, p)

(* What the thread in the kernel has taken is its own.                     *)
KernelOwns(t) ==
    /\ at[t].pc \in {"free", "alloc", "load"} =>
          ~Valid(SpaceOf[t], at[t].vpn) /\ size < NumPhysPages
    /\ at[t].pc = "free" \/ (at[t].pc = "load" /\ at[t].frame # -1) =>
          at[t].frame \in pages /\ Unowned(at[t].frame)
    /\ at[t].pc \in {"stack", "map"} =>
          /\ at[t].newTable = pageTable[SpaceOf[t]]
          /\ \A i \in DOMAIN at[t].frames : at[t].frames[i] \in pages /\ Unowned(at[t].frames[i])
          /\ \A i, j \in DOMAIN at[t].frames : at[t].frames[i] = at[t].frames[j] => i = j

(* How many frames a thread has taken that no table and no core map has.   *)
Taken(t) ==
    CASE at[t].pc \in {"free", "load"} -> 1
      [] at[t].pc \in {"stack", "map"} -> Len(at[t].frames)
      [] OTHER -> 0

(* Before the first Fork the core map counts the frames that are in use.   *)
Grown == \E s \in Spaces : DOMAIN pageTable[s] # ProgramPages[s]
CountOK ==
    /\ fault = "none" /\ ~Grown =>
          /\ kernel = NONE => Cardinality(pages) = size
          /\ kernel # NONE => Cardinality(pages) = size + Taken(kernel)
    /\ fault = "no frame" => Grown
    /\ \A t \in Threads : at[t].pc = "load" /\ at[t].frame = -1 => Grown

(* Without -e every page of a program that is in memory is in the core     *)
(* map.                                                                    *)
Complete ==
    LRU = 0 =>
        /\ ~tailLost /\ size = Len(chain)
        /\ \A s \in Spaces : \A p \in ProgramPages[s] :
              Valid(s, p) => \E i \in DOMAIN chain : chain[i].space = s /\ chain[i].vpn = p

(* The inductive invariant.                                                *)
Undisturbed ==
    /\ Alone /\ FramesOK /\ CleanOK /\ CountOK /\ Complete
    /\ \A t \in Threads : KernelOwns(t)

IInv == Types /\ (switches = 0 => Undisturbed)

-----------------------------------------------------------------------------
(* The steps are first-order and set reasoning, which is Zenon's, unless   *)
(* they cite SMT.                                                          *)
USE Zenon

(* The smallest element of a set of naturals is one of its elements.       *)
LEMMA MinInSet ==
    ASSUME NEW S, S \subseteq Nat, S # {}
    PROVE  Min(S) \in S
<1>1. IsWellFoundedOn(OpToRel(<, Nat), Nat)
  BY NatLessThanWellFounded DEF OpToRel
<1>2. PICK x \in S : \A y \in S : ~(<<y, x>> \in OpToRel(<, Nat))
  BY <1>1, WFMin
<1>3. \A y \in S : ~(y < x)
  BY <1>2 DEF OpToRel
<1>4. \A y \in S : x =< y
  BY SMT, <1>3
<1> QED BY <1>4 DEF Min

LEMMA FramesAreNat == Frames \subseteq Nat /\ -1 \notin Frames /\ -2 \notin Frames
  BY SMT, VirtualMemoryAssumption DEF Frames

LEMMA TypesNumbers ==
    ASSUME Types
    PROVE  size \in Int /\ NumPhysPages \in Nat \ {0} /\ pages \subseteq Frames
<1>1. NumPhysPages \in Nat \ {0}
  BY VirtualMemoryAssumption
<1>2. size \in 0..NumPhysPages /\ pages \subseteq Frames
  BY DEF Types
<1> QED BY SMT, <1>1, <1>2

(* BitMap::Find returns a frame that is not allocated, or -1 when there is *)
(* none, and Mark allocates it.                                            *)
LEMMA FindProperties ==
    ASSUME pages \subseteq Frames
    PROVE  /\ pages = Frames => Find = -1 /\ Mark(Find) = pages
           /\ pages # Frames => /\ Find \in Frames \ pages /\ Find # -1
                                /\ Mark(Find) = pages \cup {Find}
<1>1. CASE pages = Frames
  BY <1>1, FramesAreNat DEF Find, Mark
<1>2. CASE pages # Frames
  <2>1. Min(Frames \ pages) \in Frames \ pages
    BY <1>2, FramesAreNat, MinInSet
  <2> QED BY <1>2, <2>1, FramesAreNat DEF Find, Mark
<1> QED BY <1>1, <1>2

(* A list without its i-th element.                                        *)
Without(q, i) == SubSeq(q, 1, i - 1) \o SubSeq(q, i + 1, Len(q))

LEMMA WithoutProperties ==
    ASSUME NEW S, NEW q \in Seq(S), NEW i \in 1..Len(q)
    PROVE  /\ Without(q, i) \in Seq(S)
           /\ Len(Without(q, i)) = Len(q) - 1
           /\ \A j \in 1..(Len(q) - 1) :
                 Without(q, i)[j] = IF j < i THEN q[j] ELSE q[j + 1]
<1> DEFINE a == SubSeq(q, 1, i - 1)
           b == SubSeq(q, i + 1, Len(q))
<1>1. Len(q) \in Nat /\ \A k \in 1..Len(q) : q[k] \in S
  BY SMT
<1>2. /\ a \in Seq(S) /\ Len(a) = i - 1
      /\ \A k \in 1..(i - 1) : a[k] = q[k]
  <2>1. 1 \in Int /\ i - 1 \in Int /\ \A k \in 1..(i - 1) : q[k] \in S
    BY SMT, <1>1
  <2>2. /\ SubSeq(q, 1, i - 1) \in Seq(S)
        /\ Len(SubSeq(q, 1, i - 1)) = IF 1 <= i - 1 THEN i - 1 - 1 + 1 ELSE 0
        /\ \A k \in 1..i - 1 - 1 + 1 : SubSeq(q, 1, i - 1)[k] = q[1 + k - 1]
    BY SMT, <2>1
  <2> QED BY SMT, <2>2, <1>1
<1>3. /\ b \in Seq(S) /\ Len(b) = Len(q) - i
      /\ \A k \in 1..(Len(q) - i) : b[k] = q[k + i]
  <2>1. Len(q) \in Int /\ i + 1 \in Int /\ \A k \in (i + 1)..Len(q) : q[k] \in S
    BY SMT, <1>1
  <2>2. /\ SubSeq(q, i + 1, Len(q)) \in Seq(S)
        /\ Len(SubSeq(q, i + 1, Len(q))) = IF i + 1 <= Len(q) THEN Len(q) - (i + 1) + 1 ELSE 0
        /\ \A k \in 1..Len(q) - (i + 1) + 1 : SubSeq(q, i + 1, Len(q))[k] = q[i + 1 + k - 1]
    BY SMT, <2>1
  <2> QED BY SMT, <2>2, <1>1
<1> HIDE DEF a, b
<1>4. /\ a \o b \in Seq(S) /\ Len(a \o b) = Len(a) + Len(b)
      /\ \A k \in 1..Len(a) + Len(b) :
            (a \o b)[k] = IF k <= Len(a) THEN a[k] ELSE b[k - Len(a)]
  <2>1. a \in Seq(S) /\ b \in Seq(S)
    BY <1>2, <1>3
  <2> QED BY SMT, <2>1
<1>5. Len(a) + Len(b) = Len(q) - 1
  BY SMT, <1>1, <1>2, <1>3
<1>6. \A k \in 1..(Len(q) - 1) : (a \o b)[k] = IF k < i THEN q[k] ELSE q[k + 1]
  <2> SUFFICES ASSUME NEW k \in 1..(Len(q) - 1)
               PROVE  (a \o b)[k] = IF k < i THEN q[k] ELSE q[k + 1]
    OBVIOUS
  <2>1. (a \o b)[k] = IF k <= i - 1 THEN a[k] ELSE b[k - (i - 1)]
    BY <1>2, <1>4, <1>5
  <2>2. CASE k < i
    BY SMT, <2>1, <2>2, <1>1, <1>2
  <2>3. CASE ~(k < i)
    BY SMT, <2>1, <2>3, <1>1, <1>3
  <2> QED BY <2>2, <2>3
<1>7. Without(q, i) = a \o b
  BY DEF Without, a, b
<1> QED BY <1>4, <1>5, <1>6, <1>7

(* evictCorePage takes a CorePage that is in the chain, the head unless    *)
(* LRU is set.                                                             *)
LEMMA VictimProperties ==
    ASSUME Types, size = NumPhysPages
    PROVE  Victim \in 1..Len(chain) /\ (LRU = 0 => Victim = 1)
<1>1. chain \in Seq(CorePages) /\ chain # <<>>
  BY DEF Types
<1>2. Len(chain) \in Nat /\ Len(chain) # 0 /\ DOMAIN chain = 1..Len(chain)
  BY SMT, <1>1
<1> DEFINE unused == {i \in DOMAIN chain : ~Used(chain[i])}
<1>3. unused # {} => Min(unused) \in unused
  <2>1. unused \subseteq Nat
    BY SMT, <1>2
  <2> HIDE DEF unused
  <2> QED BY <2>1, MinInSet
<1>4. Victim = IF LRU = 0 \/ (Len(chain) = 1 /\ ~tailLost) \/ unused = {} THEN 1 ELSE Min(unused)
  BY DEF Victim
<1>5. unused \subseteq 1..Len(chain)
  BY <1>2
<1> HIDE DEF unused
<1> QED BY SMT, <1>2, <1>3, <1>4, <1>5

-----------------------------------------------------------------------------
(* The tables new are those of before, but for the use bits and for page p *)
(* of space s, which gets the frame f and the bits v and d.                *)
Retables(new, s, p, f, v, d) ==
    /\ new = [r \in Spaces |-> new[r]]
    /\ \A r \in Spaces : new[r] \in [DOMAIN pageTable[r] -> Entries]
    /\ \A r \in Spaces : \A q \in DOMAIN pageTable[r] :
          IF r = s /\ q = p
          THEN new[r][q].physicalPage = f /\ new[r][q].valid = v /\ new[r][q].dirty = d
          ELSE /\ new[r][q].physicalPage = pageTable[r][q].physicalPage
               /\ new[r][q].valid = pageTable[r][q].valid
               /\ new[r][q].dirty = pageTable[r][q].dirty

LEMMA RetablesOK ==
    ASSUME NEW s \in Spaces, NEW p \in DOMAIN pageTable[s], NEW f, NEW v, NEW d, NEW new,
           \A r \in Spaces : TableOK(pageTable[r], r),
           Retables(new, s, p, f, v, d),
           v \/ d => f \in Frames, p \in ProgramPages[s] \/ v
    PROVE  \A r \in Spaces : TableOK(new[r], r)
<1> TAKE r \in Spaces
<1>1. /\ new[r] \in [DOMAIN pageTable[r] -> Entries] /\ DOMAIN new[r] = DOMAIN pageTable[r]
      /\ \A q \in DOMAIN pageTable[r] :
           IF r = s /\ q = p
           THEN new[r][q].physicalPage = f /\ new[r][q].valid = v /\ new[r][q].dirty = d
           ELSE /\ new[r][q].physicalPage = pageTable[r][q].physicalPage
                /\ new[r][q].valid = pageTable[r][q].valid
                /\ new[r][q].dirty = pageTable[r][q].dirty
  BY DEF Retables
<1>2. TableOK(pageTable[r], r)
  OBVIOUS
<1>3. /\ DOMAIN new[r] = 0..(Cardinality(DOMAIN new[r]) - 1)
      /\ Cardinality(DOMAIN new[r]) \in Nat /\ ProgramPages[r] \subseteq DOMAIN new[r]
  BY <1>1, <1>2 DEF TableOK
<1>4. \A q \in DOMAIN new[r] :
          /\ new[r][q].valid \/ new[r][q].dirty => new[r][q].physicalPage \in Frames
          /\ q \notin ProgramPages[r] => new[r][q].valid
  BY <1>1, <1>2 DEF TableOK
<1>5. new[r] \in [0..(Cardinality(DOMAIN new[r]) - 1) -> Entries]
  BY <1>1, <1>3
<1> QED BY <1>3, <1>4, <1>5 DEF TableOK

(* What becomes of the bits of an entry.                                   *)
HitEntry(e, w) == [e EXCEPT !.use = TRUE, !.dirty = @ \/ w]
OutEntry(e) == [e EXCEPT !.valid = FALSE, !.dirty = FALSE]
InEntry(e, f) == [e EXCEPT !.physicalPage = f, !.valid = TRUE]

LEMMA HitBits ==
    ASSUME NEW e \in Entries, NEW w \in BOOLEAN
    PROVE  /\ HitEntry(e, w) \in Entries /\ HitEntry(e, w).physicalPage = e.physicalPage
           /\ HitEntry(e, w).valid = e.valid /\ HitEntry(e, w).dirty = (e.dirty \/ w)
<1>1. (e.dirty \/ w) \in BOOLEAN
  BY DEF Entries
<1> DEFINE b == e.dirty \/ w
<1>2. HitEntry(e, w) = [e EXCEPT !.use = TRUE, !.dirty = b] /\ b \in BOOLEAN
  BY <1>1 DEF Entries, HitEntry
<1> HIDE DEF b
<1>3. HitEntry(e, w) \in Entries
  BY <1>2 DEF Entries
<1>4. HitEntry(e, w).physicalPage = e.physicalPage /\ HitEntry(e, w).valid = e.valid
  BY <1>2 DEF Entries
<1>5. HitEntry(e, w).dirty = b
  BY <1>2 DEF Entries
<1> QED BY <1>3, <1>4, <1>5 DEF b

LEMMA OutBits ==
    ASSUME NEW e \in Entries
    PROVE  /\ OutEntry(e) \in Entries /\ OutEntry(e).physicalPage = e.physicalPage
           /\ OutEntry(e).valid = FALSE /\ OutEntry(e).dirty = FALSE
<1>1. OutEntry(e) \in Entries
  BY DEF Entries, OutEntry
<1>2. OutEntry(e).physicalPage = e.physicalPage
  BY DEF Entries, OutEntry
<1>3. OutEntry(e).valid = FALSE /\ OutEntry(e).dirty = FALSE
  BY DEF Entries, OutEntry
<1> QED BY <1>1, <1>2, <1>3

LEMMA InBits ==
    ASSUME NEW e \in Entries, NEW f \in Frames
    PROVE  /\ InEntry(e, f) \in Entries /\ InEntry(e, f).physicalPage = f
           /\ InEntry(e, f).valid = TRUE /\ InEntry(e, f).dirty = e.dirty
<1>1. InEntry(e, f) \in Entries
  BY DEF Entries, InEntry
<1>2. InEntry(e, f).physicalPage = f /\ InEntry(e, f).valid = TRUE
  BY DEF Entries, InEntry
<1>3. InEntry(e, f).dirty = e.dirty
  BY DEF Entries, InEntry
<1> QED BY <1>1, <1>2, <1>3

(* An access to a page that is in memory.                                  *)
LEMMA HitRetables ==
    ASSUME Types, NEW s \in Spaces, NEW p \in DOMAIN pageTable[s], NEW w \in BOOLEAN, NEW new,
           new = [pageTable EXCEPT ![s][p].use = TRUE, ![s][p].dirty = @ \/ w]
    PROVE  Retables(new, s, p, pageTable[s][p].physicalPage, pageTable[s][p].valid,
                    pageTable[s][p].dirty \/ w)
<1>1. pageTable = [r \in Spaces |-> pageTable[r]] /\ \A r \in Spaces : TableOK(pageTable[r], r)
  BY DEF Types
<1>2. \A r \in Spaces : pageTable[r] \in [DOMAIN pageTable[r] -> Entries]
  BY <1>1 DEF TableOK
<1>3. new = [r \in Spaces |-> new[r]] /\ \A r \in Spaces : r # s => new[r] = pageTable[r]
  BY <1>1
<1>4. /\ new[s] = [q \in DOMAIN pageTable[s] |-> new[s][q]]
      /\ \A q \in DOMAIN pageTable[s] : q # p => new[s][q] = pageTable[s][q]
  BY <1>1, <1>2
<1>5. new[s][p] = HitEntry(pageTable[s][p], w)
  BY <1>1, <1>2 DEF HitEntry
<1>6. pageTable[s][p] \in Entries
  BY <1>2
<1>7. /\ new[s][p] \in Entries /\ new[s][p].physicalPage = pageTable[s][p].physicalPage
      /\ new[s][p].valid = pageTable[s][p].valid
      /\ new[s][p].dirty = (pageTable[s][p].dirty \/ w)
  BY SMT, <1>5, <1>6, HitBits
<1>8. \A r \in Spaces : new[r] = [q \in DOMAIN pageTable[r] |-> new[r][q]]
  BY ZenonT(30), <1>2, <1>3, <1>4
<1>9. \A r \in Spaces : \A q \in DOMAIN pageTable[r] :
         new[r][q] \in Entries /\ (r # s \/ q # p => new[r][q] = pageTable[r][q])
  BY SMT, <1>2, <1>3, <1>4, <1>7
<1>10. \A r \in Spaces : \A q \in DOMAIN pageTable[r] :
          /\ new[r][q] \in Entries
          /\ r # s \/ q # p =>
                /\ new[r][q].physicalPage = pageTable[r][q].physicalPage
                /\ new[r][q].valid = pageTable[r][q].valid
                /\ new[r][q].dirty = pageTable[r][q].dirty
  BY <1>9
<1>11. \A r \in Spaces : new[r] \in [DOMAIN pageTable[r] -> Entries]
  BY ZenonT(30), <1>8, <1>9
<1> QED BY ZenonT(30), <1>3, <1>7, <1>10, <1>11 DEF Retables

(* The tables without the use bits of some pages.                          *)
ClearedTable(clear) ==
    [r \in Spaces |-> [q \in DOMAIN pageTable[r] |->
        IF <<r, q>> \in clear THEN [pageTable[r][q] EXCEPT !.use = FALSE] ELSE pageTable[r][q]]]

IsPagedOut(new, clear, s, p) ==
    new = [ClearedTable(clear) EXCEPT ![s][p].valid = FALSE, ![s][p].dirty = FALSE]

(* pageOut after evictCorePage has cleared use bits.                       *)
LEMMA OutRetables ==
    ASSUME Types, NEW s \in Spaces, NEW p \in DOMAIN pageTable[s], NEW clear, NEW new,
           IsPagedOut(new, clear, s, p)
    PROVE  Retables(new, s, p, pageTable[s][p].physicalPage, FALSE, FALSE)
<1>0. SUFFICES ASSUME NEW table, table = ClearedTable(clear),
                   new = [table EXCEPT ![s][p].valid = FALSE, ![s][p].dirty = FALSE]
             PROVE  Retables(new, s, p, pageTable[s][p].physicalPage, FALSE, FALSE)
  BY DEF IsPagedOut
<1>1. pageTable = [r \in Spaces |-> pageTable[r]] /\ \A r \in Spaces : TableOK(pageTable[r], r)
  BY DEF Types
<1>2. \A r \in Spaces : pageTable[r] \in [DOMAIN pageTable[r] -> Entries]
  BY <1>1 DEF TableOK
<1>3. \A r \in Spaces : \A q \in DOMAIN pageTable[r] :
         /\ table[r][q] \in Entries
         /\ table[r][q].physicalPage = pageTable[r][q].physicalPage
         /\ table[r][q].valid = pageTable[r][q].valid /\ table[r][q].dirty = pageTable[r][q].dirty
  <2> TAKE r \in Spaces
  <2> TAKE q \in DOMAIN pageTable[r]
  <2>1. table[r][q] = IF <<r, q>> \in clear THEN [pageTable[r][q] EXCEPT !.use = FALSE]
                      ELSE pageTable[r][q]
    BY <1>0 DEF ClearedTable
  <2>2. pageTable[r][q] \in Entries
    BY <1>2
  <2> QED BY <2>1, <2>2 DEF Entries
<1>4. table = [r \in Spaces |-> table[r]] /\ \A r \in Spaces : DOMAIN table[r] = DOMAIN pageTable[r]
  BY <1>0 DEF ClearedTable
<1>5. \A r \in Spaces : table[r] \in [DOMAIN pageTable[r] -> Entries]
  <2> TAKE r \in Spaces
  <2>1. table[r] = [q \in DOMAIN pageTable[r] |-> table[r][q]]
    BY <1>0 DEF ClearedTable
  <2> QED BY <2>1, <1>3
<1>6. new = [r \in Spaces |-> new[r]] /\ \A r \in Spaces : r # s => new[r] = table[r]
  BY <1>0, <1>4
<1>7. /\ new[s] = [q \in DOMAIN table[s] |-> new[s][q]]
      /\ \A q \in DOMAIN table[s] : q # p => new[s][q] = table[s][q]
  BY <1>0, <1>4, <1>5
<1>8. new[s][p] = OutEntry(table[s][p])
  BY <1>0, <1>4, <1>5 DEF OutEntry
<1>9. /\ new[s][p] \in Entries /\ new[s][p].physicalPage = table[s][p].physicalPage
      /\ new[s][p].valid = FALSE /\ new[s][p].dirty = FALSE
  <2>1. table[s][p] \in Entries
    BY <1>3
  <2>2. LET e == OutEntry(table[s][p])
        IN  /\ e \in Entries /\ e.physicalPage = table[s][p].physicalPage
            /\ e.valid = FALSE /\ e.dirty = FALSE
    BY <2>1, OutBits
  <2> QED BY <1>8, <2>2
<1>10. \A r \in Spaces : new[r] = [q \in DOMAIN pageTable[r] |-> new[r][q]]
  BY <1>4, <1>5, <1>6, <1>7
<1>11. \A r \in Spaces : \A q \in DOMAIN pageTable[r] :
          new[r][q] \in Entries /\ (r # s \/ q # p => new[r][q] = table[r][q])
  BY SMT, <1>3, <1>4, <1>6, <1>7, <1>9
<1>12. \A r \in Spaces : \A q \in DOMAIN pageTable[r] :
          /\ new[r][q] \in Entries
          /\ r # s \/ q # p =>
                /\ new[r][q].physicalPage = pageTable[r][q].physicalPage
                /\ new[r][q].valid = pageTable[r][q].valid
                /\ new[r][q].dirty = pageTable[r][q].dirty
  <2> TAKE r \in Spaces
  <2> TAKE q \in DOMAIN pageTable[r]
  <2>1. new[r][q] \in Entries /\ (r # s \/ q # p => new[r][q] = table[r][q])
    BY <1>11
  <2>2. /\ table[r][q].physicalPage = pageTable[r][q].physicalPage
        /\ table[r][q].valid = pageTable[r][q].valid
        /\ table[r][q].dirty = pageTable[r][q].dirty
    BY <1>3
  <2> QED BY <2>1, <2>2
<1>13. new[s][p].physicalPage = pageTable[s][p].physicalPage
  BY <1>3, <1>9
<1>14. \A r \in Spaces : new[r] \in [DOMAIN pageTable[r] -> Entries]
  <2> TAKE r \in Spaces
  <2>1. \A q \in DOMAIN pageTable[r] : new[r][q] \in Entries
    BY <1>11
  <2>2. new[r] = [q \in DOMAIN pageTable[r] |-> new[r][q]]
    BY <1>10
  <2> QED BY <2>1, <2>2
<1> QED BY <1>6, <1>9, <1>12, <1>13, <1>14 DEF Retables

(* allocVirtualPage.                                                       *)
LEMMA InRetables ==
    ASSUME Types, NEW s \in Spaces, NEW p \in DOMAIN pageTable[s], NEW f \in Frames, NEW new,
           new = [pageTable EXCEPT ![s][p].physicalPage = f, ![s][p].valid = TRUE]
    PROVE  Retables(new, s, p, f, TRUE, pageTable[s][p].dirty)
<1>1. pageTable = [r \in Spaces |-> pageTable[r]] /\ \A r \in Spaces : TableOK(pageTable[r], r)
  BY DEF Types
<1>2. \A r \in Spaces : pageTable[r] \in [DOMAIN pageTable[r] -> Entries]
  BY <1>1 DEF TableOK
<1>3. new = [r \in Spaces |-> new[r]] /\ \A r \in Spaces : r # s => new[r] = pageTable[r]
  BY <1>1
<1>4. /\ new[s] = [q \in DOMAIN pageTable[s] |-> new[s][q]]
      /\ \A q \in DOMAIN pageTable[s] : q # p => new[s][q] = pageTable[s][q]
  BY <1>1, <1>2
<1>5. new[s][p] = InEntry(pageTable[s][p], f)
  BY <1>1, <1>2 DEF InEntry
<1>6. pageTable[s][p] \in Entries
  BY <1>2
<1>7. /\ new[s][p] \in Entries /\ new[s][p].physicalPage = f
      /\ new[s][p].valid = TRUE /\ new[s][p].dirty = pageTable[s][p].dirty
  <2>1. LET e == InEntry(pageTable[s][p], f)
        IN  /\ e \in Entries /\ e.physicalPage = f
            /\ e.valid = TRUE /\ e.dirty = pageTable[s][p].dirty
    BY <1>6, InBits
  <2> QED BY <1>5, <2>1
<1>8. \A r \in Spaces : new[r] = [q \in DOMAIN pageTable[r] |-> new[r][q]]
  BY <1>2, <1>3, <1>4
<1>9. \A r \in Spaces : \A q \in DOMAIN pageTable[r] :
         new[r][q] \in Entries /\ (r # s \/ q # p => new[r][q] = pageTable[r][q])
  BY SMT, <1>2, <1>3, <1>4, <1>7
<1>10. \A r \in Spaces : \A q \in DOMAIN pageTable[r] :
          /\ new[r][q] \in Entries
          /\ r # s \/ q # p =>
                /\ new[r][q].physicalPage = pageTable[r][q].physicalPage
                /\ new[r][q].valid = pageTable[r][q].valid
                /\ new[r][q].dirty = pageTable[r][q].dirty
  BY <1>9
<1>11. \A r \in Spaces : new[r] \in [DOMAIN pageTable[r] -> Entries]
  BY <1>8, <1>9
<1> QED BY <1>3, <1>7, <1>10, <1>11 DEF Retables

(* How many pages 0..(n - 1) are.                                          *)
LEMMA IntervalSize ==
    ASSUME NEW n \in Nat
    PROVE  Cardinality(0..(n - 1)) = n
<1>1. 0 \in Int /\ n - 1 \in Int
  BY SMT
<1>2. Cardinality(0..(n - 1)) = IF 0 > n - 1 THEN 0 ELSE (n - 1) - 0 + 1
  BY <1>1, FS_Interval
<1> QED BY SMT, <1>2

(* allocateThreadSpace: the pages of the new table.                        *)
IsGrown(new, old, n, frames) ==
    /\ n = Cardinality(DOMAIN old)
    /\ new = [p \in 0..(n + StackPages - 1) |->
                IF p < n THEN old[p] ELSE StackEntry(frames[p - n + 1])]

LEMMA GrownTable ==
    ASSUME NEW s \in Spaces, NEW old, TableOK(old, s), NEW frames \in Seq(Frames),
           Len(frames) = StackPages, NEW n, NEW new, IsGrown(new, old, n, frames)
    PROVE  /\ n \in Nat /\ DOMAIN old = 0..(n - 1) /\ DOMAIN new = 0..(n + StackPages - 1)
           /\ \A p \in DOMAIN old : p \in DOMAIN new /\ new[p] = old[p]
           /\ \A p \in DOMAIN new \ DOMAIN old :
                 /\ p - n + 1 \in 1..Len(frames)
                 /\ new[p] = StackEntry(frames[p - n + 1])
           /\ TableOK(new, s) /\ DOMAIN new # ProgramPages[s]
<1>0. /\ n = Cardinality(DOMAIN old)
      /\ new = [p \in 0..(n + StackPages - 1) |->
                  IF p < n THEN old[p] ELSE StackEntry(frames[p - n + 1])]
  BY DEF IsGrown
<1>1. /\ n \in Nat /\ old \in [0..(n - 1) -> Entries] /\ ProgramPages[s] \subseteq 0..(n - 1)
      /\ DOMAIN old = 0..(n - 1) /\ DOMAIN new = 0..(n + StackPages - 1)
      /\ StackPages \in Nat \ {0}
  BY <1>0, VirtualMemoryAssumption DEF TableOK
<1>2. \A p \in DOMAIN old : p \in DOMAIN new /\ new[p] = old[p]
  BY SMT, <1>0, <1>1
<1>3. \A p \in DOMAIN new \ DOMAIN old :
         p - n + 1 \in 1..Len(frames) /\ new[p] = StackEntry(frames[p - n + 1])
  BY SMT, <1>0, <1>1
<1>4. Cardinality(DOMAIN new) = n + StackPages
  <2>1. Cardinality(0..(n + StackPages - 1)) = n + StackPages
    <3>1. PICK k \in Nat : k = n + StackPages /\ k - 1 = n + StackPages - 1
      BY SMT, <1>1
    <3>2. Cardinality(0..(k - 1)) = k
      BY IntervalSize
    <3> QED BY <3>1, <3>2
  <2> QED BY <1>1, <2>1
<1>5. \A f \in Frames : StackEntry(f) \in Entries /\ StackEntry(f).valid /\ StackEntry(f).physicalPage = f
  BY DEF StackEntry, Entries
<1>6. \A i \in 1..Len(frames) : frames[i] \in Frames
  BY SMT
<1>7. \A p \in DOMAIN new :
         /\ new[p] \in Entries
         /\ new[p].valid \/ new[p].dirty => new[p].physicalPage \in Frames
         /\ p \notin ProgramPages[s] => new[p].valid
  <2> TAKE p \in DOMAIN new
  <2>1. CASE p \in DOMAIN old
    BY <2>1, <1>1, <1>2 DEF TableOK
  <2>2. CASE p \notin DOMAIN old
    BY SMT, <2>2, <1>3, <1>5, <1>6
  <2> QED BY <2>1, <2>2
<1>8. new \in [0..(Cardinality(DOMAIN new) - 1) -> Entries]
  BY SMT, <1>0, <1>1, <1>4, <1>7
<1>9. n + StackPages - 1 \in DOMAIN new /\ n + StackPages - 1 \notin 0..(n - 1)
  BY SMT, <1>1
<1>10. TableOK(new, s)
  BY SMT, <1>1, <1>4, <1>7, <1>8 DEF TableOK
<1> QED BY <1>1, <1>2, <1>3, <1>9, <1>10

(* A thread moves on in the kernel.                                        *)
LEMMA AtUpdate ==
    ASSUME at = [t \in Threads |-> at[t]], \A t \in Threads : AtOK(at[t], SpaceOf[t]),
           NEW t \in Threads, NEW a, AtOK(a, SpaceOf[t]), at' = [at EXCEPT ![t] = a]
    PROVE  /\ at' = [u \in Threads |-> at'[u]] /\ \A u \in Threads : AtOK(at'[u], SpaceOf[u])
           /\ at'[t] = a /\ \A u \in Threads : u # t => at'[u] = at[u]
<1>1. at' = [u \in Threads |-> at'[u]] /\ at'[t] = a /\ \A u \in Threads : u # t => at'[u] = at[u]
  OBVIOUS
<1> QED BY <1>1

(* Lock::Acquire and Lock::Release on MemoryManager::lock.                 *)
LEMMA LockTypes ==
    ASSUME holder \in Threads \cup {NONE}, NEW t \in Threads, Acquire(t) \/ Release(t)
    PROVE  holder' \in Threads \cup {NONE} /\ kernel' \in Threads \cup {NONE}
  BY DEF Acquire, Release

(* addCorePage leaves the chain and the counter as it should.              *)
LEMMA AddTypes ==
    ASSUME Types, NEW c \in CorePages, addCorePage(c)
    PROVE  /\ chain' \in Seq(CorePages) /\ tailLost' \in BOOLEAN
           /\ size' \in 0..NumPhysPages /\ Len(chain') <= size'
           /\ size' = NumPhysPages => chain' # <<>>
<1>1. /\ chain \in Seq(CorePages) /\ tailLost \in BOOLEAN /\ size \in 0..NumPhysPages
      /\ Len(chain) <= size /\ (size = NumPhysPages => chain # <<>>) /\ NumPhysPages \in Nat
  BY VirtualMemoryAssumption DEF Types
<1>2. CASE size = NumPhysPages
  BY <1>1, <1>2 DEF addCorePage
<1>3. CASE size # NumPhysPages /\ chain = <<>>
  <2>1. chain' = <<c>> /\ size' = size + 1 /\ tailLost' \in BOOLEAN
    <3>1. chain' = <<c>>
      BY <1>3 DEF addCorePage
    <3>2. size' = size + 1
      BY <1>3 DEF addCorePage
    <3>3. tailLost' \in BOOLEAN
      BY DEF addCorePage
    <3> QED BY <3>1, <3>2, <3>3
  <2>2. <<c>> \in Seq(CorePages) /\ Len(<<c>>) = 1 /\ <<c>> # <<>>
    BY SMT
  <2> QED BY SMT, <1>1, <1>3, <2>1, <2>2
<1>4. CASE size # NumPhysPages /\ chain # <<>> /\ tailLost
  BY SMT, <1>1, <1>4 DEF addCorePage
<1>5. CASE size # NumPhysPages /\ chain # <<>> /\ ~tailLost
  <2>1. chain' = Append(chain, c) /\ size' = size + 1 /\ tailLost' \in BOOLEAN
    BY <1>1, <1>5 DEF addCorePage
  <2>2. chain' \in Seq(CorePages) /\ Len(chain') = Len(chain) + 1 /\ Len(chain) \in Nat
    BY SMT, <1>1, <2>1
  <2>3. chain' # <<>>
    BY SMT, <2>2
  <2> QED BY SMT, <1>1, <1>5, <2>1, <2>2, <2>3
<1> QED BY <1>1, <1>2, <1>3, <1>4, <1>5

(* What allocVirtualPage loads is contents of a page.                      *)
LEMMA LoadedType ==
    ASSUME Types, NEW s \in Spaces, NEW p \in ProgramPages[s]
    PROVE  Loaded(s, p) \in Contents
<1>1. file[s] \in [ProgramPages[s] -> Contents]
  BY DEF Types
<1>2. FromFile(s, p) \in Contents
  BY SMT DEF FromFile, Contents
<1> QED BY <1>1, <1>2 DEF Loaded

-----------------------------------------------------------------------------
(* The types are kept, by one action after the other.                      *)
LEMMA PageFaultTypes ==
    ASSUME Types, NEW t \in Threads, NEW p \in ProgramPages[SpaceOf[t]],
           PageFault(t, p), UNCHANGED <<settings, pages, writes>>
    PROVE  Types'
<1> DEFINE s == SpaceOf[t]
<1>1. /\ SpaceOf[t] \in Spaces /\ NumPhysPages \in Nat \ {0}
      /\ \A r \in Spaces : ProgramPages[r] \subseteq DOMAIN pageTable[r]
  BY VirtualMemoryAssumption DEF Types, TableOK
<1>2. holder' \in Threads \cup {NONE} /\ kernel' \in Threads \cup {NONE}
  <2>1. Acquire(t)
    BY DEF PageFault
  <2> QED BY <2>1, LockTypes DEF Types
<1>3. CASE size < NumPhysPages
  <2> DEFINE a == [pc |-> "alloc", vpn |-> p]
  <2>1. at' = [at EXCEPT ![t] = a] /\ UNCHANGED <<memory, coreMap, fault>>
    <3>1. size # NumPhysPages
      BY SMT, <1>1, <1>3
    <3> QED BY <3>1 DEF PageFault
  <2>2. AtOK(a, SpaceOf[t])
    BY DEF AtOK
  <2> HIDE DEF a
  <2>3. at' = [u \in Threads |-> at'[u]] /\ \A u \in Threads : AtOK(at'[u], SpaceOf[u])
    BY <2>1, <2>2, AtUpdate DEF Types
  <2> QED BY <1>2, <2>1, <2>3 DEF Types, memory, coreMap, settings
<1>4. CASE ~(size < NumPhysPages)
  <2> DEFINE c == chain[Victim]
             clear == {<<chain[i].space, chain[i].vpn>> : i \in Cleared}
             table == ClearedTable(clear)
             a == [pc |-> "free", vpn |-> p, frame |-> c.frame]
  <2>1. /\ size = NumPhysPages /\ chain' = Without(chain, Victim)
        /\ tailLost' = (tailLost \/ LosesTail(Victim)) /\ size' = size - 1
        /\ pageOut(c, table) /\ at' = [at EXCEPT ![t] = a] /\ UNCHANGED <<mainMemory, fault>>
    BY <1>4 DEF PageFault, Without, ClearedTable
  <2>2. Victim \in 1..Len(chain) /\ chain \in Seq(CorePages)
    BY <2>1, VictimProperties DEF Types
  <2>3. c \in CorePages
    BY SMT, <2>2
  <2> HIDE DEF c
  <2>4. /\ c.space \in Spaces /\ c.vpn \in ProgramPages[c.space] /\ c.frame \in Frames
        /\ c.vpn \in DOMAIN pageTable[c.space]
    BY <2>3, <1>1 DEF CorePages
  <2>5. AtOK(a, SpaceOf[t])
    BY <2>4 DEF AtOK
  <2> HIDE DEF a
  <2>6. at' = [u \in Threads |-> at'[u]] /\ \A u \in Threads : AtOK(at'[u], SpaceOf[u])
    BY <2>1, <2>5, AtUpdate DEF Types
  <2>7. /\ chain' \in Seq(CorePages) /\ Len(chain') = Len(chain) - 1
    BY <2>1, <2>2, WithoutProperties
  <2>8. IsPagedOut(pageTable', clear, c.space, c.vpn)
    BY <2>1 DEF pageOut, IsPagedOut
  <2> HIDE DEF clear
  <2>9. Retables(pageTable', c.space, c.vpn, pageTable[c.space][c.vpn].physicalPage, FALSE, FALSE)
    BY <2>4, <2>8, OutRetables
  <2>10. pageTable' = [r \in Spaces |-> pageTable'[r]]
    BY <2>9 DEF Retables
  <2>11. \A r \in Spaces : TableOK(pageTable'[r], r)
    BY <2>4, <2>9, RetablesOK DEF Types
  <2>12. /\ stored' = [r \in Spaces |-> stored'[r]] /\ file' = [r \in Spaces |-> file'[r]]
         /\ \A r \in Spaces : /\ stored'[r] \subseteq ProgramPages[r]
                              /\ file'[r] \in [ProgramPages[r] -> Contents]
    <3> DEFINE e == pageTable[c.space][c.vpn]
    <3>1. /\ stored' = [stored EXCEPT ![c.space] = @ \cup IF e.dirty THEN {c.vpn} ELSE {}]
          /\ file' = IF e.dirty THEN [file EXCEPT ![c.space][c.vpn] = mainMemory[e.physicalPage]]
                     ELSE file
      BY <2>1 DEF pageOut, WriteBack
    <3>2. e.dirty => mainMemory[e.physicalPage] \in Contents
      BY <2>4 DEF Types, TableOK
    <3>3. /\ stored = [r \in Spaces |-> stored[r]] /\ file = [r \in Spaces |-> file[r]]
          /\ \A r \in Spaces : /\ stored[r] \subseteq ProgramPages[r]
                               /\ file[r] \in [ProgramPages[r] -> Contents]
      BY DEF Types
    <3> HIDE DEF e
    <3>4. stored' = [r \in Spaces |-> stored'[r]] /\ \A r \in Spaces : stored'[r] \subseteq ProgramPages[r]
      BY <3>1, <3>3, <2>4
    <3>5. file' = [r \in Spaces |-> file'[r]] /\ \A r \in Spaces : file'[r] \in [ProgramPages[r] -> Contents]
      BY <3>1, <3>2, <3>3, <2>4
    <3> QED BY <3>4, <3>5
  <2>13. /\ size' \in 0..NumPhysPages /\ Len(chain') <= size' /\ size' # NumPhysPages
         /\ tailLost' \in BOOLEAN
    <3>1. Len(chain) \in Nat /\ Len(chain) <= size /\ tailLost \in BOOLEAN
      <4>1. chain \in Seq(CorePages) /\ Len(chain) <= size /\ tailLost \in BOOLEAN
        BY DEF Types
      <4>2. Len(chain) \in Nat
        BY SMT, <4>1
      <4> QED BY <4>1, <4>2
    <3>2. tailLost' \in BOOLEAN
      BY <2>1, <3>1 DEF LosesTail
    <3> QED BY SMT, <1>1, <2>1, <2>7, <3>1, <3>2
  <2> HIDE DEF table
  <2> QED BY <1>2, <2>1, <2>6, <2>7, <2>10, <2>11, <2>12, <2>13 DEF Types, settings
<1> QED BY <1>3, <1>4

LEMMA AccessTypes ==
    ASSUME Types, NEW t \in Threads, NEW p \in DOMAIN pageTable[SpaceOf[t]],
           NEW writing \in BOOLEAN, Access(t, p, writing)
    PROVE  Types'
<1> DEFINE s == SpaceOf[t]
           e == pageTable[s][p]
<1>1. s \in Spaces /\ MaxWrites \in Nat
  BY VirtualMemoryAssumption
<1>2. TableOK(pageTable[s], s) /\ e \in Entries
  BY <1>1 DEF Types, TableOK
<1>3. UNCHANGED <<settings, pages>>
  BY DEF Access
<1>4. CASE ~e.valid
  <2>1. PageFault(t, p) /\ UNCHANGED writes
    BY <1>4 DEF Access
  <2>2. p \in ProgramPages[SpaceOf[t]]
    BY <1>2, <1>4 DEF TableOK
  <2> QED BY <1>3, <2>1, <2>2, PageFaultTypes
<1>5. CASE e.valid
  <2>1. /\ pageTable' = [pageTable EXCEPT ![s][p].use = TRUE, ![s][p].dirty = @ \/ writing]
        /\ writes' = IF writing THEN writes + 1 ELSE writes
        /\ mainMemory' = IF writing THEN [mainMemory EXCEPT ![e.physicalPage] = <<"data", writes'>>]
                         ELSE mainMemory
        /\ UNCHANGED <<stored, file, coreMap, at, holder, kernel, fault>>
        /\ writing => writes < MaxWrites
    BY <1>5 DEF Access
  <2>2. writes \in 0..MaxWrites /\ mainMemory \in [Frames -> Contents]
    BY DEF Types
  <2>3. writes' \in 0..MaxWrites /\ (writing => writes' \in 1..MaxWrites)
    BY SMT, <1>1, <2>1, <2>2
  <2>4. mainMemory' \in [Frames -> Contents]
    <3>1. writing => <<"data", writes'>> \in Contents
      BY SMT, <2>3 DEF Contents
    <3> QED BY <2>1, <2>2, <3>1
  <2>5. Retables(pageTable', s, p, e.physicalPage, e.valid, e.dirty \/ writing)
    BY <1>1, <2>1, HitRetables
  <2>6. e.physicalPage \in Frames
    BY <1>2, <1>5 DEF TableOK
  <2>7. \A r \in Spaces : TableOK(pageTable'[r], r)
    <3>1. \A r \in Spaces : TableOK(pageTable[r], r)
      BY DEF Types
    <3> HIDE DEF e, s
    <3>2. p \in DOMAIN pageTable[s]
      BY DEF s
    <3> QED BY <3>1, <3>2, <1>1, <1>5, <2>5, <2>6, RetablesOK
  <2>8. pageTable' = [r \in Spaces |-> pageTable'[r]]
    BY <2>5 DEF Retables
  <2> QED BY <1>3, <2>1, <2>3, <2>4, <2>7, <2>8 DEF Types, settings, coreMap
<1> QED BY <1>4, <1>5

LEMMA ForkTypes ==
    ASSUME Types, NEW t \in Threads, NEW child \in Forked, Fork(t, child)
    PROVE  Types'
<1> DEFINE a == [pc |-> "stack", child |-> child, frames |-> <<>>,
                 newTable |-> pageTable[SpaceOf[t]]]
<1>1. /\ at' = [at EXCEPT ![t] = a] /\ Acquire(t)
      /\ UNCHANGED <<settings, memory, coreMap, pages, writes, fault>>
  BY DEF Fork
<1>2. AtOK(a, SpaceOf[t])
  <2>1. SpaceOf[t] \in Spaces /\ StackPages \in Nat \ {0}
    BY VirtualMemoryAssumption
  <2>2. TableOK(a.newTable, SpaceOf[t])
    BY <2>1 DEF Types
  <2>3. <<>> \in Seq(Frames) /\ Len(<<>>) = 0
    BY SMT
  <2>4. a \in [pc : {"stack", "map"}, child : Forked, frames : Seq(Frames), newTable : {a.newTable}]
    BY <2>3
  <2>5. a.pc = "stack" /\ Len(a.frames) < StackPages
    BY SMT, <2>1, <2>3
  <2> QED BY <2>2, <2>4, <2>5 DEF AtOK
<1> HIDE DEF a
<1>3. at' = [u \in Threads |-> at'[u]] /\ \A u \in Threads : AtOK(at'[u], SpaceOf[u])
  BY <1>1, <1>2, AtUpdate DEF Types
<1>4. holder' \in Threads \cup {NONE} /\ kernel' \in Threads \cup {NONE}
  BY <1>1, LockTypes DEF Types
<1> QED BY <1>1, <1>3, <1>4 DEF Types, settings, memory, coreMap

LEMMA ExitTypes ==
    ASSUME Types, NEW t \in Threads, Exit(t)
    PROVE  Types'
<1>1. /\ at' = [at EXCEPT ![t] = [pc |-> "exited"]] /\ active' = active \ {t}
      /\ UNCHANGED <<LRU, switches, memory, coreMap, pages, holder, kernel, writes, fault>>
  BY DEF Exit
<1>2. AtOK([pc |-> "exited"], SpaceOf[t])
  BY DEF AtOK
<1>3. at' = [u \in Threads |-> at'[u]] /\ \A u \in Threads : AtOK(at'[u], SpaceOf[u])
  BY <1>1, <1>2, AtUpdate DEF Types
<1> QED BY <1>1, <1>3 DEF Types, memory, coreMap

LEMMA TryAgainTypes ==
    ASSUME Types, NEW t \in Threads, TryAgain(t)
    PROVE  Types'
<1>1. Acquire(t) /\ UNCHANGED <<settings, memory, coreMap, pages, at, writes, fault>>
  BY DEF TryAgain
<1>2. holder' \in Threads \cup {NONE} /\ kernel' \in Threads \cup {NONE}
  BY <1>1, LockTypes DEF Types
<1> QED BY <1>1, <1>2 DEF Types, settings, memory, coreMap

LEMMA PreemptTypes ==
    ASSUME Types, Preempt
    PROVE  Types'
<1>1. /\ kernel' = NONE /\ switches' = switches + 1
      /\ UNCHANGED <<LRU, active, memory, coreMap, pages, holder, at, writes, fault>>
  BY DEF Preempt
<1>2. switches' \in Nat
  <2>1. switches \in Nat
    BY DEF Types
  <2> QED BY SMT, <1>1, <2>1
<1> QED BY <1>1, <1>2 DEF Types, memory, coreMap

(* What a thread that is inside the kernel has at hand.                    *)
LEMMA AtFields ==
    ASSUME NEW a, NEW s, AtOK(a, s)
    PROVE  /\ a.pc \in {"user", "exited", "alloc", "free", "load", "stack", "map"}
           /\ a.pc = "user" => a = User
           /\ a.pc \in {"alloc", "free", "load"} => a.vpn \in ProgramPages[s]
           /\ a.pc = "free" => a.frame \in Frames
           /\ a.pc = "load" => a.frame \in Frames \cup {-1}
           /\ a.pc \in {"stack", "map"} =>
                 /\ a \in [pc : {"stack", "map"}, child : Forked, frames : Seq(Frames),
                           newTable : {a.newTable}]
                 /\ TableOK(a.newTable, s)
                 /\ a.pc = "stack" => Len(a.frames) < StackPages
                 /\ a.pc = "map" => Len(a.frames) = StackPages
<1>1. CASE a = User \/ a = [pc |-> "exited"]
  BY SMT, <1>1 DEF User
<1>2. CASE \/ a \in [pc : {"alloc"}, vpn : ProgramPages[s]]
           \/ a \in [pc : {"free"}, vpn : ProgramPages[s], frame : Frames]
           \/ a \in [pc : {"load"}, vpn : ProgramPages[s], frame : Frames \cup {-1}]
  BY <1>2
<1>3. CASE /\ a \in [pc : {"stack", "map"}, child : Forked, frames : Seq(Frames),
                     newTable : {a.newTable}]
           /\ TableOK(a.newTable, s)
           /\ IF a.pc = "stack" THEN Len(a.frames) < StackPages ELSE Len(a.frames) = StackPages
  BY <1>3
<1> QED BY <1>1, <1>2, <1>3 DEF AtOK

LEMMA FreePageTypes ==
    ASSUME Types, NEW t \in Threads, FreePage(t)
    PROVE  Types'
<1> DEFINE a == [pc |-> "alloc", vpn |-> at[t].vpn]
<1>1. /\ at[t].pc = "free" /\ pages' = pages \ {at[t].frame} /\ at' = [at EXCEPT ![t] = a]
      /\ Release(t) /\ UNCHANGED <<settings, memory, coreMap, writes, fault>>
  BY DEF FreePage
<1>2. AtOK(a, SpaceOf[t])
  BY <1>1, AtFields DEF AtOK, Types
<1> HIDE DEF a
<1>3. at' = [u \in Threads |-> at'[u]] /\ \A u \in Threads : AtOK(at'[u], SpaceOf[u])
  BY <1>1, <1>2, AtUpdate DEF Types
<1>4. holder' \in Threads \cup {NONE} /\ kernel' \in Threads \cup {NONE}
  BY <1>1, LockTypes DEF Types
<1> QED BY <1>1, <1>3, <1>4 DEF Types, settings, memory, coreMap

LEMMA AllocPageTypes ==
    ASSUME Types, NEW t \in Threads, AllocPage(t)
    PROVE  Types'
<1> DEFINE a == [pc |-> "load", vpn |-> at[t].vpn, frame |-> Find]
<1>1. /\ at[t].pc = "alloc" /\ pages' = Mark(Find) /\ at' = [at EXCEPT ![t] = a]
      /\ Release(t) /\ UNCHANGED <<settings, memory, coreMap, writes, fault>>
  BY DEF AllocPage
<1>2. Find \in Frames \cup {-1} /\ pages' \subseteq Frames
  BY <1>1, FindProperties DEF Types
<1>3. AtOK(a, SpaceOf[t])
  BY <1>1, <1>2, AtFields DEF AtOK, Types
<1> HIDE DEF a
<1>4. at' = [u \in Threads |-> at'[u]] /\ \A u \in Threads : AtOK(at'[u], SpaceOf[u])
  BY <1>1, <1>3, AtUpdate DEF Types
<1>5. holder' \in Threads \cup {NONE} /\ kernel' \in Threads \cup {NONE}
  BY <1>1, LockTypes DEF Types
<1> QED BY <1>1, <1>2, <1>4, <1>5 DEF Types, settings, memory, coreMap

LEMMA LoadTypes ==
    ASSUME Types, NEW t \in Threads, allocVirtualPage(t)
    PROVE  Types'
<1> DEFINE s == SpaceOf[t]
           p == at[t].vpn
           f == at[t].frame
<1>1. at[t].pc = "load" /\ UNCHANGED <<settings, pages, holder, writes>>
  BY DEF allocVirtualPage
<1>2. s \in Spaces /\ p \in ProgramPages[s] /\ f \in Frames \cup {-1} /\ -1 \notin Frames
  BY <1>1, AtFields, FramesAreNat, VirtualMemoryAssumption DEF Types
<1>3. CASE f = -1
  <2>1. fault' = "no frame" /\ UNCHANGED <<memory, coreMap, at, kernel>>
    BY <1>3 DEF allocVirtualPage
  <2> QED BY <1>1, <2>1 DEF Types, settings, memory, coreMap
<1>4. CASE f # -1
  <2> DEFINE c == [space |-> s, vpn |-> p, frame |-> f]
  <2>1. /\ addCorePage(c)
        /\ pageTable' = [pageTable EXCEPT ![s][p].physicalPage = f, ![s][p].valid = TRUE]
        /\ mainMemory' = [mainMemory EXCEPT ![f] = Loaded(s, p)]
        /\ at' = [at EXCEPT ![t] = User] /\ kernel' = NONE /\ UNCHANGED <<stored, file, fault>>
    BY <1>4 DEF allocVirtualPage
  <2>2. \A r \in Spaces : TableOK(pageTable[r], r)
    BY DEF Types
  <2>3. p \in DOMAIN pageTable[s] /\ f \in Frames
    BY <1>2, <1>4, <2>2 DEF TableOK
  <2>4. AtOK(User, SpaceOf[t])
    BY DEF AtOK
  <2>5. at' = [u \in Threads |-> at'[u]] /\ \A u \in Threads : AtOK(at'[u], SpaceOf[u])
    BY <2>1, <2>4, AtUpdate DEF Types
  <2>6. Retables(pageTable', s, p, f, TRUE, pageTable[s][p].dirty)
    BY <1>2, <2>1, <2>3, InRetables
  <2>7. c \in CorePages
    <3>1. p \in Nat
      BY SMT, <1>2, <2>2 DEF TableOK
    <3> QED BY <1>2, <2>3, <3>1 DEF CorePages
  <2>8. Loaded(s, p) \in Contents
    BY <1>2, LoadedType
  <2> HIDE DEF s, p, f, c
  <2>9. pageTable' = [r \in Spaces |-> pageTable'[r]]
    BY <2>6 DEF Retables
  <2>10. \A r \in Spaces : TableOK(pageTable'[r], r)
    BY <1>2, <2>2, <2>3, <2>6, RetablesOK
  <2>11. mainMemory' \in [Frames -> Contents]
    BY <2>1, <2>3, <2>8 DEF Types
  <2>12. /\ chain' \in Seq(CorePages) /\ tailLost' \in BOOLEAN
         /\ size' \in 0..NumPhysPages /\ Len(chain') <= size'
         /\ size' = NumPhysPages => chain' # <<>>
    BY <2>1, <2>7, AddTypes
  <2> QED BY <1>1, <2>1, <2>5, <2>9, <2>10, <2>11, <2>12 DEF Types, settings
<1> QED BY <1>3, <1>4

LEMMA AllocStackPageTypes ==
    ASSUME Types, NEW t \in Threads, AllocStackPage(t)
    PROVE  Types'
<1>1. /\ at[t].pc = "stack" /\ pages' = Mark(Find) /\ holder' = NONE
      /\ UNCHANGED <<settings, memory, coreMap, writes>>
  BY DEF AllocStackPage
<1>2. /\ at[t] \in [pc : {"stack", "map"}, child : Forked, frames : Seq(Frames),
                    newTable : {at[t].newTable}]
      /\ TableOK(at[t].newTable, SpaceOf[t]) /\ Len(at[t].frames) < StackPages
      /\ StackPages \in Nat
  BY <1>1, AtFields, VirtualMemoryAssumption DEF Types
<1>3. pages' \subseteq Frames /\ (Find # -1 => Find \in Frames)
  BY <1>1, FindProperties DEF Types
<1>4. /\ at' = [u \in Threads |-> at'[u]] /\ \A u \in Threads : AtOK(at'[u], SpaceOf[u])
      /\ kernel' \in Threads \cup {NONE} /\ fault' \in {"none", "no frame", "beyond table"}
  <2>1. CASE Find # -1
    <3> DEFINE a == [at[t] EXCEPT !.frames = Append(@, Find),
                        !.pc = IF Len(at[t].frames) = StackPages - 1 THEN "map" ELSE @]
    <3>1. at' = [at EXCEPT ![t] = a] /\ kernel' = t /\ UNCHANGED fault
      BY <2>1 DEF AllocStackPage, Types
    <3>2. /\ Append(at[t].frames, Find) \in Seq(Frames)
          /\ Len(Append(at[t].frames, Find)) = Len(at[t].frames) + 1 /\ Len(at[t].frames) \in Nat
      BY SMT, <1>2, <1>3, <2>1
    <3>3. /\ a.frames = Append(at[t].frames, Find) /\ a.child = at[t].child
          /\ a.newTable = at[t].newTable
          /\ a.pc = IF Len(at[t].frames) = StackPages - 1 THEN "map" ELSE "stack"
      BY <1>1, <1>2
    <3>4. a \in [pc : {"stack", "map"}, child : Forked, frames : Seq(Frames), newTable : {a.newTable}]
      BY <1>2, <3>2
    <3> HIDE DEF a
    <3>5. IF a.pc = "stack" THEN Len(a.frames) < StackPages ELSE Len(a.frames) = StackPages
      BY SMT, <1>2, <3>2, <3>3
    <3>6. AtOK(a, SpaceOf[t])
      BY <1>2, <3>3, <3>4, <3>5 DEF AtOK
    <3> QED BY <3>1, <3>6, AtUpdate DEF Types
  <2>2. CASE Find = -1
    <3>1. at' = [at EXCEPT ![t] = User] /\ kernel' = NONE /\ fault' \in {"none", "beyond table"}
      BY <2>2 DEF AllocStackPage
    <3>2. AtOK(User, SpaceOf[t])
      BY DEF AtOK
    <3> QED BY <3>1, <3>2, AtUpdate DEF Types
  <2> QED BY <2>1, <2>2
<1> QED BY <1>1, <1>3, <1>4 DEF Types, settings, memory, coreMap

LEMMA MapStackTypes ==
    ASSUME Types, NEW t \in Threads, MapStack(t)
    PROVE  Types'
<1> DEFINE s == SpaceOf[t]
           old == at[t].newTable
           n == Cardinality(DOMAIN old)
           frames == at[t].frames
           new == [p \in 0..(n + StackPages - 1) |->
                     IF p < n THEN old[p] ELSE StackEntry(frames[p - n + 1])]
<1>1. /\ at[t].pc = "map" /\ pageTable' = [pageTable EXCEPT ![s] = new]
      /\ mainMemory' = [f \in Frames |-> IF \E i \in DOMAIN frames : frames[i] = f
                                         THEN Zero ELSE mainMemory[f]]
      /\ active' = active \cup {at[t].child} /\ at' = [at EXCEPT ![t] = User] /\ kernel' = NONE
      /\ UNCHANGED <<LRU, switches, pages, holder, coreMap, stored, file, writes, fault>>
  BY DEF MapStack
<1>2. /\ frames \in Seq(Frames) /\ TableOK(old, s) /\ Len(frames) = StackPages
      /\ at[t].child \in Forked /\ s \in Spaces /\ Forked \subseteq Threads
  <2>1. AtOK(at[t], SpaceOf[t])
    BY DEF Types
  <2>2. /\ at[t] \in [pc : {"stack", "map"}, child : Forked, frames : Seq(Frames),
                      newTable : {at[t].newTable}]
        /\ TableOK(at[t].newTable, SpaceOf[t]) /\ Len(at[t].frames) = StackPages
    BY <1>1, <2>1, AtFields
  <2>3. s \in Spaces /\ Forked \subseteq Threads
    BY VirtualMemoryAssumption
  <2> QED BY <2>2, <2>3
<1>3. TableOK(new, s)
  <2>1. IsGrown(new, old, n, frames)
    BY DEF IsGrown
  <2> HIDE DEF frames, old, s, n, new
  <2> QED BY <1>2, <2>1, GrownTable
<1>4. AtOK(User, SpaceOf[t])
  BY DEF AtOK
<1>5. at' = [u \in Threads |-> at'[u]] /\ \A u \in Threads : AtOK(at'[u], SpaceOf[u])
  BY <1>1, <1>4, AtUpdate DEF Types
<1>6. mainMemory' \in [Frames -> Contents]
  <2>1. Zero \in Contents
    BY SMT DEF Contents
  <2> QED BY <1>1, <2>1 DEF Types
<1> HIDE DEF new
<1>7. pageTable' = [r \in Spaces |-> pageTable'[r]] /\ \A r \in Spaces : TableOK(pageTable'[r], r)
  BY <1>1, <1>2, <1>3 DEF Types
<1> QED BY <1>1, <1>2, <1>5, <1>6, <1>7 DEF Types, coreMap

(* Every step keeps the types.                                             *)
LEMMA TypesStep ==
    ASSUME Types, [Next]_vars
    PROVE  Types'
<1>1. CASE UNCHANGED vars
  BY <1>1 DEF Types, vars
<1>2. CASE Next
  BY <1>2, AccessTypes, ForkTypes, ExitTypes, TryAgainTypes, FreePageTypes, AllocPageTypes,
     LoadTypes, AllocStackPageTypes, MapStackTypes, PreemptTypes DEF Next, KernelStep
<1> QED BY <1>1, <1>2

LEMMA TypesInit ==
    ASSUME Init
    PROVE  Types
<1>1. \A s \in Spaces : TableOK(pageTable[s], s)
  <2> TAKE s \in Spaces
  <2>1. /\ IsFiniteSet(ProgramPages[s]) /\ Cardinality(ProgramPages[s]) \in Nat
        /\ ProgramPages[s] = 0..(Cardinality(ProgramPages[s]) - 1)
    BY VirtualMemoryAssumption, FS_CardinalityType
  <2>2. pageTable[s] = [p \in ProgramPages[s] |-> NoEntry]
    BY DEF Init
  <2>3. NoEntry \in Entries /\ ~NoEntry.valid /\ ~NoEntry.dirty
    BY DEF NoEntry, Entries
  <2> HIDE DEF NoEntry
  <2> QED BY <2>1, <2>2, <2>3 DEF TableOK
<1>2. Zero \in Contents /\ AtOK(User, 0) /\ \A s : AtOK(User, s)
  BY SMT DEF Contents, AtOK
<1>3. NumPhysPages \in Nat \ {0} /\ MaxWrites \in Nat /\ <<>> \in Seq(CorePages) /\ Len(<<>>) = 0
  BY SMT, VirtualMemoryAssumption
<1>4. /\ pageTable = [s \in Spaces |-> pageTable[s]] /\ mainMemory \in [Frames -> Contents]
      /\ stored = [s \in Spaces |-> stored[s]] /\ file = [s \in Spaces |-> file[s]]
  BY <1>2 DEF Init
<1>5. \A s \in Spaces : stored[s] \subseteq ProgramPages[s] /\ file[s] \in [ProgramPages[s] -> Contents]
  BY <1>2 DEF Init
<1>6. at = [t \in Threads |-> at[t]] /\ \A t \in Threads : AtOK(at[t], SpaceOf[t])
  <2>1. at = [t \in Threads |-> User]
    BY DEF Init
  <2> HIDE DEF User
  <2> QED BY <1>2, <2>1
<1>7. /\ chain \in Seq(CorePages) /\ tailLost \in BOOLEAN /\ size \in 0..NumPhysPages
      /\ Len(chain) <= size /\ size # NumPhysPages /\ writes \in 0..MaxWrites /\ switches \in Nat
  <2>1. chain = <<>> /\ tailLost = FALSE /\ size = 0 /\ writes = 0 /\ switches = 0
    BY DEF Init
  <2>2. chain \in Seq(CorePages) /\ Len(chain) = 0
    BY <1>3, <2>1
  <2>3. size \in 0..NumPhysPages /\ size # NumPhysPages /\ writes \in 0..MaxWrites /\ switches \in Nat
    BY SMT, <1>3, <2>1
  <2>4. Len(chain) <= size
    BY SMT, <2>1, <2>2
  <2>5. tailLost \in BOOLEAN
    BY <2>1
  <2> QED BY <2>2, <2>3, <2>4, <2>5
<1>8. /\ LRU \in LRUs /\ pages \subseteq Frames /\ active \subseteq Threads
      /\ holder \in Threads \cup {NONE} /\ kernel \in Threads \cup {NONE} /\ fault = "none"
  BY DEF Init
<1> QED BY <1>1, <1>4, <1>5, <1>6, <1>7, <1>8 DEF Types

-----------------------------------------------------------------------------
(* A thread that moves on leaves the others where they are.                *)
LEMMA AtOthers ==
    ASSUME Types, NEW t \in Threads, NEW a, at' = [at EXCEPT ![t] = a]
    PROVE  at'[t] = a /\ \A u \in Threads : u # t => at'[u] = at[u]
  BY DEF Types

(* The thread t that runs is the only one in the kernel, and afterwards it *)
(* is too.                                                                 *)
LEMMA AloneStep ==
    ASSUME Types, Alone, NEW t \in Threads, kernel \in {t, NONE},
           \A u \in Threads : u # t => at'[u] = at[u],
           \/ kernel' = t /\ holder' \in {t, NONE}
                /\ (at'[t].pc \in {"load", "map"} => holder' = NONE)
           \/ kernel' = NONE /\ holder' = NONE /\ at'[t].pc \in Outside
    PROVE  Alone' /\ \A u \in Threads : u # t => at[u].pc \in Outside /\ at'[u].pc \in Outside
<1>1. NONE \notin Threads
  BY VirtualMemoryAssumption
<1>2. \A u \in Threads : u # t => at[u].pc \in Outside /\ at'[u].pc \in Outside
  BY SMT, <1>1 DEF Alone
<1>3. \A x \in Outside : x \notin {"load", "map"}
  BY DEF Outside
<1> QED BY <1>1, <1>2, <1>3 DEF Alone

(* When the thread in the kernel comes to Acquire the lock is free.        *)
LEMMA AcquireAlone ==
    ASSUME Types, Alone, NEW t \in Threads, Acquire(t),
           kernel = NONE \/ (kernel = t /\ holder # t)
    PROVE  holder' = t /\ kernel' = t
<1>1. NONE \notin Threads
  BY VirtualMemoryAssumption
<1> QED BY <1>1 DEF Alone, Acquire

(* A thread outside the kernel has taken nothing.                          *)
LEMMA OutsideOwns ==
    ASSUME NEW u \in Threads, at[u].pc \in Outside
    PROVE  /\ KernelOwns(u) /\ Taken(u) = 0
           /\ ~(at[u].pc = "load" /\ at[u].frame = -1)
  BY DEF Outside, KernelOwns, Taken

(* What does not touch the tables, the memory and the core map leaves      *)
(* alone what is stated of them.                                           *)
LEMMA SameMemory ==
    ASSUME UNCHANGED <<LRU, memory, coreMap>>
    PROVE  /\ \A s, p : Valid(s, p)' = Valid(s, p) /\ Frame(s, p)' = Frame(s, p)
           /\ \A f : Unowned(f)' = Unowned(f)
           /\ CleanOK => CleanOK'
           /\ Complete => Complete'
           /\ Grown' = Grown
<1>1. UNCHANGED <<LRU, pageTable, mainMemory, stored, file, chain, tailLost, size>>
  BY DEF memory, coreMap
<1>2. \A s, p : Valid(s, p)' = Valid(s, p) /\ Frame(s, p)' = Frame(s, p)
  BY <1>1 DEF Valid, Frame
<1>3. \A f : Unowned(f)' = Unowned(f)
  BY <1>1 DEF Unowned, Valid, Frame
<1>4. CleanOK => CleanOK'
  BY <1>1 DEF CleanOK, Valid, Frame, Loaded
<1>5. Complete => Complete'
  BY SMT, <1>1 DEF Complete, Valid
<1>6. Grown' = Grown
  BY <1>1 DEF Grown
<1> QED BY <1>2, <1>3, <1>4, <1>5, <1>6

LEMMA SameMemoryFrames ==
    ASSUME UNCHANGED <<LRU, memory, coreMap>>, FramesOK,
           \A s \in Spaces : \A p \in DOMAIN pageTable[s] :
              Valid(s, p) /\ Frame(s, p) \in pages => Frame(s, p) \in pages'
    PROVE  FramesOK'
<1>1. UNCHANGED <<pageTable, chain>>
  BY DEF memory, coreMap
<1> QED BY SMT, <1>1 DEF FramesOK, Valid, Frame

(* The frames are finitely many.                                           *)
LEMMA PagesFinite ==
    ASSUME pages \subseteq Frames
    PROVE  /\ IsFiniteSet(pages) /\ Cardinality(pages) \in Nat
           /\ pages = Frames => Cardinality(pages) = NumPhysPages
<1>1. IsFiniteSet(Frames) /\ Cardinality(Frames) = NumPhysPages
  <2>1. NumPhysPages \in Nat \ {0}
    BY VirtualMemoryAssumption
  <2>2. /\ IsFiniteSet(0..(NumPhysPages - 1))
        /\ Cardinality(0..(NumPhysPages - 1)) = NumPhysPages
    BY SMT, <2>1, FS_Interval
  <2> QED BY <2>2 DEF Frames
<1>2. IsFiniteSet(pages)
  BY <1>1, FS_Subset
<1> QED BY <1>1, <1>2, FS_CardinalityType

(* The actions that leave tables, memory and core map alone.               *)
LEMMA ForkUndisturbed ==
    ASSUME Types, Undisturbed, NEW t \in Threads, NEW child \in Forked, Fork(t, child)
    PROVE  Undisturbed'
<1> DEFINE a == [pc |-> "stack", child |-> child, frames |-> <<>>,
                 newTable |-> pageTable[SpaceOf[t]]]
<1>1. /\ kernel = NONE /\ fault = "none" /\ at' = [at EXCEPT ![t] = a] /\ Acquire(t)
      /\ UNCHANGED <<settings, memory, coreMap, pages, writes, fault>>
  BY DEF Fork, InUser
<1>2. Alone /\ FramesOK /\ CleanOK /\ CountOK /\ Complete
  BY DEF Undisturbed
<1>3. holder' = t /\ kernel' = t
  BY <1>1, <1>2, AcquireAlone
<1>4. at'[t] = a /\ \A u \in Threads : u # t => at'[u] = at[u]
  BY <1>1, AtOthers
<1>5. Alone' /\ \A u \in Threads : u # t => at[u].pc \in Outside /\ at'[u].pc \in Outside
  BY SMT, <1>1, <1>2, <1>3, <1>4, AloneStep
<1>6. UNCHANGED <<LRU, memory, coreMap>>
  BY <1>1 DEF settings
<1>7. FramesOK' /\ CleanOK' /\ Complete' /\ Grown' = Grown
  BY <1>1, <1>2, <1>6, SameMemory, SameMemoryFrames
<1>8. KernelOwns(t)' /\ Taken(t)' = 0 /\ at'[t].pc = "stack"
  <2>1. at'[t].pc = "stack" /\ at'[t].frames = <<>> /\ at'[t].newTable = pageTable'[SpaceOf[t]]
    BY SMT, <1>1, <1>4 DEF memory
  <2>2. DOMAIN <<>> = {} /\ Len(<<>>) = 0
    BY SMT
  <2> QED BY <2>1, <2>2 DEF KernelOwns, Taken
<1>9. \A u \in Threads : KernelOwns(u)'
  <2> SUFFICES ASSUME NEW u \in Threads, u # t PROVE KernelOwns(u)'
    BY <1>8
  <2>1. at'[u].pc \in Outside
    BY <1>5
  <2> QED BY <2>1, OutsideOwns DEF Outside, KernelOwns
<1>10. CountOK'
  <2>1. NONE \notin Threads /\ size' = size /\ Cardinality(pages') = Cardinality(pages) /\ size \in Int
    BY SMT, <1>1, VirtualMemoryAssumption DEF coreMap, Types
  <2>2. \A u \in Threads : at'[u].pc # "load"
    BY <1>5, <1>8 DEF Outside
  <2> QED BY SMT, <1>1, <1>2, <1>3, <1>7, <1>8, <2>1, <2>2 DEF CountOK
<1> QED BY <1>5, <1>7, <1>9, <1>10 DEF Undisturbed

LEMMA ExitUndisturbed ==
    ASSUME Types, Undisturbed, NEW t \in Threads, Exit(t)
    PROVE  Undisturbed'
<1>1. /\ kernel = NONE /\ fault = "none" /\ at' = [at EXCEPT ![t] = [pc |-> "exited"]]
      /\ UNCHANGED <<LRU, switches, memory, coreMap, pages, holder, kernel, writes, fault>>
  BY DEF Exit, InUser
<1>2. Alone /\ FramesOK /\ CleanOK /\ CountOK /\ Complete
  BY DEF Undisturbed
<1>3. holder' = NONE /\ kernel' = NONE
  BY <1>1, <1>2 DEF Alone
<1>4. at'[t].pc = "exited" /\ \A u \in Threads : u # t => at'[u] = at[u]
  <2>1. at'[t] = [pc |-> "exited"] /\ \A u \in Threads : u # t => at'[u] = at[u]
    BY <1>1, AtOthers
  <2> QED BY SMT, <2>1
<1>5. Alone' /\ \A u \in Threads : u # t => at[u].pc \in Outside /\ at'[u].pc \in Outside
  BY <1>1, <1>2, <1>3, <1>4, AloneStep DEF Outside
<1>6. FramesOK' /\ CleanOK' /\ Complete' /\ Grown' = Grown
  BY <1>1, <1>2, SameMemory, SameMemoryFrames
<1>7. \A u \in Threads : at'[u].pc \in Outside
  BY <1>4, <1>5 DEF Outside
<1>8. \A u \in Threads : KernelOwns(u)'
  BY <1>7 DEF Outside, KernelOwns
<1>9. CountOK'
  <2>1. size' = size /\ Cardinality(pages') = Cardinality(pages)
    BY <1>1 DEF coreMap
  <2> QED BY <1>1, <1>2, <1>3, <1>6, <1>7, <2>1 DEF CountOK, Outside
<1> QED BY <1>5, <1>6, <1>8, <1>9 DEF Undisturbed

LEMMA TryAgainUndisturbed ==
    ASSUME Types, Undisturbed, NEW t \in Threads, TryAgain(t)
    PROVE  Undisturbed'
<1>1. /\ fault = "none" /\ kernel \in {t, NONE} /\ at[t].pc \in {"free", "alloc", "stack"}
      /\ holder # t /\ Acquire(t)
      /\ UNCHANGED <<settings, memory, coreMap, pages, at, writes, fault>>
  BY DEF TryAgain, Runs
<1>2. Alone /\ FramesOK /\ CleanOK /\ CountOK /\ Complete /\ \A u \in Threads : KernelOwns(u)
  BY DEF Undisturbed
<1>3. kernel = t
  BY <1>1, <1>2 DEF Alone, Outside
<1>4. holder' = t /\ kernel' = t
  BY <1>1, <1>2, <1>3, AcquireAlone
<1>5. Alone'
  BY <1>1, <1>2, <1>3, <1>4, AloneStep
<1>6. FramesOK' /\ CleanOK' /\ Complete' /\ Grown' = Grown /\ \A f : Unowned(f)' = Unowned(f)
  <2>1. UNCHANGED <<LRU, memory, coreMap>>
    BY <1>1 DEF settings
  <2> QED BY <1>1, <1>2, <2>1, SameMemory, SameMemoryFrames
<1>7. UNCHANGED <<pageTable, size, pages, at>>
  BY <1>1 DEF memory, coreMap
<1>8. \A u \in Threads : KernelOwns(u)'
  BY <1>2, <1>6, <1>7 DEF KernelOwns, Valid
<1>9. CountOK'
  BY <1>1, <1>2, <1>3, <1>4, <1>6, <1>7 DEF CountOK, Taken
<1> QED BY <1>5, <1>6, <1>8, <1>9 DEF Undisturbed

LEMMA FreePageUndisturbed ==
    ASSUME Types, Undisturbed, NEW t \in Threads, FreePage(t)
    PROVE  Undisturbed'
<1> DEFINE a == [pc |-> "alloc", vpn |-> at[t].vpn]
<1>1. /\ fault = "none" /\ kernel \in {t, NONE} /\ at[t].pc = "free"
      /\ pages' = pages \ {at[t].frame} /\ at' = [at EXCEPT ![t] = a] /\ Release(t)
      /\ UNCHANGED <<settings, memory, coreMap, writes, fault>>
  BY DEF FreePage, Runs
<1>2. Alone /\ FramesOK /\ CleanOK /\ CountOK /\ Complete /\ KernelOwns(t)
  BY DEF Undisturbed
<1>3. kernel = t /\ holder' = NONE /\ kernel' = t
  BY <1>1, <1>2 DEF Alone, Outside, Release
<1>4. /\ at'[t].pc = "alloc" /\ at'[t].vpn = at[t].vpn
      /\ \A u \in Threads : u # t => at'[u] = at[u]
  <2>1. at'[t] = a /\ \A u \in Threads : u # t => at'[u] = at[u]
    BY <1>1, AtOthers
  <2> QED BY SMT, <2>1
<1>5. Alone' /\ \A u \in Threads : u # t => at[u].pc \in Outside /\ at'[u].pc \in Outside
  BY <1>1, <1>2, <1>3, <1>4, AloneStep
<1>6. UNCHANGED <<LRU, memory, coreMap>>
  BY <1>1 DEF settings
<1>7. /\ at[t].frame \in pages /\ Unowned(at[t].frame)
      /\ ~Valid(SpaceOf[t], at[t].vpn) /\ size < NumPhysPages
  BY <1>1, <1>2 DEF KernelOwns
<1>8. FramesOK'
  <2>1. \A s \in Spaces : \A p \in DOMAIN pageTable[s] :
           Valid(s, p) /\ Frame(s, p) \in pages => Frame(s, p) \in pages'
    BY <1>1, <1>7 DEF Unowned
  <2> QED BY <1>2, <1>6, <2>1, SameMemoryFrames
<1>9. /\ CleanOK' /\ Complete' /\ Grown' = Grown
      /\ Valid(SpaceOf[t], at[t].vpn)' = Valid(SpaceOf[t], at[t].vpn)
  <2>1. UNCHANGED pageTable
    BY <1>6 DEF memory
  <2>2. SpaceOf[t]' = SpaceOf[t] /\ at'[t].vpn = at[t].vpn
    BY <1>4
  <2> QED BY <1>2, <1>4, <1>6, <2>1, <2>2, SameMemory DEF Valid
<1>10. size' = size
  BY <1>6 DEF coreMap
<1>11. \A u \in Threads : KernelOwns(u)'
  <2>1. KernelOwns(t)'
    BY <1>4, <1>7, <1>9, <1>10 DEF KernelOwns, Valid
  <2>2. \A u \in Threads : u # t => KernelOwns(u)'
    BY <1>5 DEF KernelOwns, Outside
  <2> QED BY <2>1, <2>2
<1>12. CountOK'
  <2>1. Cardinality(pages') = Cardinality(pages) - 1
    BY <1>1, <1>7, PagesFinite, FS_RemoveElement DEF Types
  <2>2. Taken(t) = 1 /\ Taken(t)' = 0
    BY <1>1, <1>4 DEF Taken
  <2>3. size \in Int /\ Cardinality(pages) \in Int /\ NONE \notin Threads
    <3>1. size \in Int /\ pages \subseteq Frames
      BY TypesNumbers
    <3>2. Cardinality(pages) \in Nat
      BY <3>1, PagesFinite
    <3> QED BY SMT, <3>1, <3>2, VirtualMemoryAssumption
  <2>4. \A u \in Threads : at'[u].pc # "load"
    BY <1>4, <1>5 DEF Outside
  <2> QED BY SMT, <1>1, <1>2, <1>3, <1>9, <1>10, <2>1, <2>2, <2>3, <2>4 DEF CountOK
<1> QED BY <1>5, <1>8, <1>9, <1>11, <1>12 DEF Undisturbed

(* A frame that is not allocated is not that of any valid page.            *)
LEMMA FreshFrame ==
    ASSUME FramesOK, NEW f, f \notin pages
    PROVE  Unowned(f)
  BY SMT DEF FramesOK, Unowned

LEMMA AllocPageUndisturbed ==
    ASSUME Types, Undisturbed, NEW t \in Threads, AllocPage(t)
    PROVE  Undisturbed'
<1> DEFINE a == [pc |-> "load", vpn |-> at[t].vpn, frame |-> Find]
<1>1. /\ fault = "none" /\ kernel \in {t, NONE} /\ at[t].pc = "alloc"
      /\ pages' = Mark(Find) /\ at' = [at EXCEPT ![t] = a] /\ Release(t)
      /\ UNCHANGED <<settings, memory, coreMap, writes, fault>>
  BY DEF AllocPage, Runs
<1>2. Alone /\ FramesOK /\ CleanOK /\ CountOK /\ Complete /\ KernelOwns(t)
  BY DEF Undisturbed
<1>3. kernel = t /\ holder' = NONE /\ kernel' = t
  BY <1>1, <1>2 DEF Alone, Outside, Release
<1>4. /\ at'[t].pc = "load" /\ at'[t].vpn = at[t].vpn /\ at'[t].frame = Find
      /\ \A u \in Threads : u # t => at'[u] = at[u]
  <2>1. at'[t] = a /\ \A u \in Threads : u # t => at'[u] = at[u]
    BY <1>1, AtOthers
  <2> QED BY SMT, <2>1
<1>5. Alone' /\ \A u \in Threads : u # t => at[u].pc \in Outside /\ at'[u].pc \in Outside
  BY <1>1, <1>2, <1>3, <1>4, AloneStep
<1>6. UNCHANGED <<LRU, memory, coreMap>>
  BY <1>1 DEF settings
<1>7. /\ pages \subseteq pages'
      /\ pages = Frames => Find = -1 /\ pages' = pages
      /\ pages # Frames => Find \notin pages /\ Find # -1 /\ pages' = pages \cup {Find}
  BY <1>1, FindProperties DEF Types
<1>8. FramesOK'
  BY <1>2, <1>6, <1>7, SameMemoryFrames
<1>9. CleanOK' /\ Complete' /\ Grown' = Grown /\ \A f : Unowned(f)' = Unowned(f)
  BY <1>2, <1>6, SameMemory
<1>10. UNCHANGED <<pageTable, size>>
  BY <1>6 DEF memory, coreMap
<1>11. \A u \in Threads : KernelOwns(u)'
  <2>1. KernelOwns(t)'
    <3>1. ~Valid(SpaceOf[t], at[t].vpn) /\ size < NumPhysPages
      BY <1>1, <1>2 DEF KernelOwns
    <3>2. PICK f : f = Find
      OBVIOUS
    <3>3. f # -1 => f \in pages' /\ Unowned(f)
      BY <1>2, <1>7, <3>2, FreshFrame
    <3>4. f # -1 => Unowned(f)'
      BY <1>9, <3>3
    <3>5. at'[t].frame = f
      BY <1>4, <3>2
    <3> QED BY <1>4, <1>10, <3>1, <3>3, <3>4, <3>5 DEF KernelOwns, Valid, Unowned
  <2>2. \A u \in Threads : u # t => KernelOwns(u)'
    BY <1>5 DEF KernelOwns, Outside
  <2> QED BY <2>1, <2>2
<1>12. CountOK'
  <2>1. /\ size \in Int /\ pages \subseteq Frames /\ NONE \notin Threads
        /\ size < NumPhysPages /\ NumPhysPages \in Nat
    BY SMT, <1>1, <1>2, VirtualMemoryAssumption DEF Types, KernelOwns
  <2>2. /\ IsFiniteSet(pages) /\ Cardinality(pages) \in Nat
        /\ pages = Frames => Cardinality(pages) = NumPhysPages
    BY <2>1, PagesFinite
  <2>3. Find # -1 => Cardinality(pages') = Cardinality(pages) + 1
    BY <1>7, <2>2, FS_AddElement
  <2>4. Taken(t) = 0 /\ Taken(t)' = 1
    BY <1>1, <1>4 DEF Taken
  <2>5. \A u \in Threads : u # t => at'[u].pc # "load"
    BY <1>5 DEF Outside
  <2>6. ~Grown => Cardinality(pages) = size
    BY SMT, <1>1, <1>2, <1>3, <2>1, <2>4 DEF CountOK
  <2>7. Find = -1 => Grown
    BY SMT, <1>7, <2>1, <2>2, <2>6
  <2> QED BY <1>1, <1>2, <1>3, <1>4, <1>9, <1>10, <2>1, <2>2, <2>3, <2>4, <2>5, <2>6, <2>7 DEF CountOK
<1> QED BY <1>5, <1>8, <1>9, <1>11, <1>12 DEF Undisturbed

LEMMA AllocStackPageUndisturbed ==
    ASSUME Types, Undisturbed, NEW t \in Threads, AllocStackPage(t)
    PROVE  Undisturbed'
<1>1. /\ fault = "none" /\ kernel \in {t, NONE} /\ at[t].pc = "stack" /\ pages' = Mark(Find)
      /\ holder' = NONE /\ UNCHANGED <<settings, memory, coreMap, writes>>
  BY DEF AllocStackPage, Runs
<1>2. Alone /\ FramesOK /\ CleanOK /\ CountOK /\ Complete /\ KernelOwns(t)
  BY DEF Undisturbed
<1>3. kernel = t
  BY <1>1, <1>2 DEF Alone, Outside
<1>4. UNCHANGED <<LRU, memory, coreMap>>
  BY <1>1 DEF settings
<1>5. /\ pages \subseteq pages'
      /\ pages = Frames => Find = -1 /\ pages' = pages
      /\ pages # Frames => Find \notin pages /\ Find # -1 /\ pages' = pages \cup {Find}
  BY <1>1, FindProperties DEF Types
<1>6. FramesOK'
  BY <1>2, <1>4, <1>5, SameMemoryFrames
<1>7. CleanOK' /\ Complete' /\ Grown' = Grown /\ \A f : Unowned(f)' = Unowned(f)
  BY <1>2, <1>4, SameMemory
<1>8. UNCHANGED <<pageTable, size>>
  BY <1>4 DEF memory, coreMap
<1>9. /\ at[t] \in [pc : {"stack", "map"}, child : Forked, frames : Seq(Frames),
                    newTable : {at[t].newTable}]
      /\ at[t].newTable = pageTable[SpaceOf[t]]
      /\ \A i \in DOMAIN at[t].frames : at[t].frames[i] \in pages /\ Unowned(at[t].frames[i])
      /\ \A i, j \in DOMAIN at[t].frames : at[t].frames[i] = at[t].frames[j] => i = j
  BY <1>1, <1>2, AtFields DEF Types, KernelOwns
<1>10. /\ size \in Int /\ pages \subseteq Frames /\ NONE \notin Threads
       /\ IsFiniteSet(pages) /\ Cardinality(pages) \in Nat
  <2>1. size \in Int /\ pages \subseteq Frames
    BY TypesNumbers
  <2> QED BY <2>1, PagesFinite, VirtualMemoryAssumption
<1>11. /\ Taken(t) = Len(at[t].frames) /\ Len(at[t].frames) \in Nat
       /\ ~Grown => Cardinality(pages) = size + Len(at[t].frames)
  <2>1. Taken(t) = Len(at[t].frames) /\ Len(at[t].frames) \in Nat
    BY SMT, <1>1, <1>9 DEF Taken
  <2> QED BY <1>1, <1>2, <1>3, <1>10, <2>1 DEF CountOK
<1>12. CASE Find # -1
  <2> DEFINE a == [at[t] EXCEPT !.frames = Append(@, Find),
                      !.pc = IF Len(at[t].frames) = StackPages - 1 THEN "map" ELSE @]
  <2>1. at' = [at EXCEPT ![t] = a] /\ kernel' = t /\ UNCHANGED fault
    BY <1>12 DEF AllocStackPage, Types
  <2>2. /\ a.frames = Append(at[t].frames, Find) /\ a.newTable = at[t].newTable
        /\ a.pc \in {"stack", "map"}
    BY <1>1, <1>9
  <2> HIDE DEF a
  <2>3. at'[t] = a /\ \A u \in Threads : u # t => at'[u] = at[u]
    BY <2>1, AtOthers
  <2>4. Alone' /\ \A u \in Threads : u # t => at[u].pc \in Outside /\ at'[u].pc \in Outside
    BY <1>1, <1>2, <1>3, <2>1, <2>3, AloneStep
  <2>5. /\ Len(a.frames) = Len(at[t].frames) + 1 /\ DOMAIN a.frames = 1..(Len(at[t].frames) + 1)
        /\ DOMAIN at[t].frames = 1..Len(at[t].frames)
        /\ \A i \in DOMAIN a.frames :
              a.frames[i] = IF i \in DOMAIN at[t].frames THEN at[t].frames[i] ELSE Find
        /\ \A i \in DOMAIN a.frames : i \notin DOMAIN at[t].frames => i = Len(at[t].frames) + 1
    BY SMT, <1>9, <1>11, <2>2
  <2>6. \A i \in DOMAIN a.frames : \A f : f = a.frames[i] => f \in pages' /\ Unowned(f)'
    <3>1. \A i \in DOMAIN a.frames : a.frames[i] \in pages' /\ Unowned(a.frames[i])
      BY <1>2, <1>5, <1>9, <1>12, <2>5, FreshFrame
    <3> QED BY <3>1, <1>7
  <2>7. \A i, j \in DOMAIN a.frames : a.frames[i] = a.frames[j] => i = j
    BY SMT, <1>5, <1>9, <1>12, <2>5
  <2>8. \A u \in Threads : KernelOwns(u)'
    <3>1. KernelOwns(t)'
      <4>1. at'[t].frames = a.frames /\ at'[t].newTable = pageTable'[SpaceOf[t]]
        BY <1>8, <1>9, <2>2, <2>3
      <4>2. \A i \in DOMAIN at'[t].frames : at'[t].frames[i] \in pages' /\ Unowned(at[t].frames[i])'
        BY <2>6, <4>1 DEF Unowned
      <4>3. at'[t].pc \in {"stack", "map"}
        BY <2>2, <2>3
      <4> QED BY <2>7, <4>1, <4>2, <4>3 DEF KernelOwns
    <3>2. \A u \in Threads : u # t => KernelOwns(u)'
      BY <2>4 DEF KernelOwns, Outside
    <3> QED BY <3>1, <3>2
  <2>9. CountOK'
    <3>1. Cardinality(pages') = Cardinality(pages) + 1
      BY <1>5, <1>10, <1>12, FS_AddElement
    <3>2. Taken(t)' = Len(at[t].frames) + 1
      BY <2>2, <2>3, <2>5 DEF Taken
    <3>3. \A u \in Threads : at'[u].pc # "load"
      BY <2>2, <2>3, <2>4 DEF Outside
    <3> QED BY SMT, <1>1, <1>7, <1>8, <1>10, <1>11, <2>1, <3>1, <3>2, <3>3 DEF CountOK
  <2> QED BY <1>6, <1>7, <2>4, <2>8, <2>9 DEF Undisturbed
<1>13. CASE Find = -1
  <2>1. /\ at' = [at EXCEPT ![t] = User] /\ kernel' = NONE
        /\ fault' = IF at[t].frames = <<>> THEN "none" ELSE "beyond table"
    BY <1>13 DEF AllocStackPage
  <2>2. at'[t].pc = "user" /\ \A u \in Threads : u # t => at'[u] = at[u]
    <3>1. at'[t] = User /\ \A u \in Threads : u # t => at'[u] = at[u]
      BY <2>1, AtOthers
    <3> QED BY SMT, <3>1 DEF User
  <2>3. Alone' /\ \A u \in Threads : u # t => at[u].pc \in Outside /\ at'[u].pc \in Outside
    BY <1>1, <1>2, <1>3, <2>1, <2>2, AloneStep DEF Outside
  <2>4. \A u \in Threads : at'[u].pc \in Outside
    BY <2>2, <2>3 DEF Outside
  <2>5. \A u \in Threads : KernelOwns(u)'
    BY <2>4 DEF KernelOwns, Outside
  <2>6. CountOK'
    <3>1. pages' = pages /\ (fault' = "none" => Len(at[t].frames) = 0)
      <4>1. pages' = pages
        BY <1>5, <1>13
      <4>2. fault' = "none" => at[t].frames = <<>>
        BY <2>1
      <4> QED BY <4>1, <4>2
    <3>2. fault' # "no frame"
      BY <2>1
    <3>3. fault' = "none" /\ ~Grown' => Cardinality(pages') = size'
      BY SMT, <1>7, <1>8, <1>10, <1>11, <3>1
    <3> QED BY <2>1, <2>4, <3>2, <3>3 DEF CountOK, Outside
  <2> QED BY <1>6, <1>7, <2>3, <2>5, <2>6 DEF Undisturbed
<1> QED BY <1>12, <1>13

-----------------------------------------------------------------------------
(* The step gives page p of space s the frame f and the bits v and d.      *)
Repaged(s, p, f, v, d) ==
    /\ \A r \in Spaces : DOMAIN pageTable'[r] = DOMAIN pageTable[r]
    /\ \A r \in Spaces : \A q \in DOMAIN pageTable[r] :
          /\ r = s /\ q = p => /\ Valid(r, q)' <=> v
                               /\ Frame(r, q)' = f
                               /\ pageTable'[r][q].dirty <=> d
          /\ r # s \/ q # p => /\ Valid(r, q)' <=> Valid(r, q)
                               /\ Frame(r, q)' = Frame(r, q)
                               /\ pageTable'[r][q].dirty <=> pageTable[r][q].dirty
    /\ Grown' = Grown

(* What Retables says, in terms of the pages that are valid.               *)
LEMMA RetablesPages ==
    ASSUME NEW s, NEW p, NEW f, NEW v \in BOOLEAN, NEW d \in BOOLEAN,
           Retables(pageTable', s, p, f, v, d)
    PROVE  Repaged(s, p, f, v, d)
<1>1. \A r \in Spaces : DOMAIN pageTable'[r] = DOMAIN pageTable[r]
  BY DEF Retables
<1>2. \A r \in Spaces : \A q \in DOMAIN pageTable[r] :
         /\ r = s /\ q = p => /\ pageTable'[r][q].valid = v
                              /\ Frame(r, q)' = f
                              /\ pageTable'[r][q].dirty = d
         /\ r # s \/ q # p => /\ pageTable'[r][q].valid = pageTable[r][q].valid
                              /\ Frame(r, q)' = Frame(r, q)
                              /\ pageTable'[r][q].dirty = pageTable[r][q].dirty
  BY DEF Retables, Frame
<1>3. \A r \in Spaces : \A q \in DOMAIN pageTable[r] :
         /\ Valid(r, q)' <=> pageTable'[r][q].valid
         /\ Valid(r, q) <=> pageTable[r][q].valid
  BY <1>1 DEF Valid
<1>4. Grown' = Grown
  BY <1>1 DEF Grown
<1>5. \A r \in Spaces : \A q \in DOMAIN pageTable[r] :
         /\ r = s /\ q = p => /\ Valid(r, q)' <=> v
                              /\ Frame(r, q)' = f
                              /\ pageTable'[r][q].dirty <=> d
         /\ r # s \/ q # p => /\ Valid(r, q)' <=> Valid(r, q)
                              /\ Frame(r, q)' = Frame(r, q)
                              /\ pageTable'[r][q].dirty <=> pageTable[r][q].dirty
  <2> TAKE r \in Spaces
  <2> TAKE q \in DOMAIN pageTable[r]
  <2> QED BY ZenonT(30), <1>2, <1>3
<1> QED BY <1>1, <1>4, <1>5 DEF Repaged

(* What FramesOK says of one page, of two pages and of a CorePage.         *)
LEMMA FrameInPages ==
    ASSUME FramesOK, NEW r \in Spaces, NEW q \in DOMAIN pageTable[r], Valid(r, q)
    PROVE  Frame(r, q) \in pages
BY DEF FramesOK

LEMMA FrameOfOne ==
    ASSUME FramesOK, NEW r \in Spaces, NEW z \in Spaces, NEW q \in DOMAIN pageTable[r],
           NEW x \in DOMAIN pageTable[z], Valid(r, q), Valid(z, x), Frame(r, q) = Frame(z, x)
    PROVE  r = z /\ q = x
BY DEF FramesOK

LEMMA ChainValid ==
    ASSUME FramesOK, NEW j \in DOMAIN chain
    PROVE  /\ Valid(chain[j].space, chain[j].vpn)
           /\ Frame(chain[j].space, chain[j].vpn) = chain[j].frame
BY DEF FramesOK

(* FramesOK of the next state, from its parts.                             *)
LEMMA FramesOKAfter ==
    ASSUME \A r, z \in Spaces : \A q \in DOMAIN pageTable'[r] : \A x \in DOMAIN pageTable'[z] :
              Valid(r, q)' /\ Valid(z, x)' /\ Frame(r, q)' = Frame(z, x)' => r = z /\ q = x,
           \A r \in Spaces : \A q \in DOMAIN pageTable'[r] : Valid(r, q)' => Frame(r, q)' \in pages',
           \A r \in Spaces : \A q \in DOMAIN pageTable'[r] : ~Valid(r, q)' => ~pageTable'[r][q].dirty,
           \A j \in DOMAIN chain' : \A r, q : r = chain'[j].space /\ q = chain'[j].vpn =>
              Valid(r, q)' /\ Frame(r, q)' = chain'[j].frame,
           \A j, k \in DOMAIN chain' :
              chain'[j].space = chain'[k].space /\ chain'[j].vpn = chain'[k].vpn => j = k
    PROVE  FramesOK'
<1>1. \A j \in DOMAIN chain' :
         Valid(chain[j].space, chain[j].vpn)' /\ Frame(chain[j].space, chain[j].vpn)' = chain'[j].frame
  BY SMT DEF Valid, Frame
<1> QED BY <1>1 DEF FramesOK

(* The core map has pages of programs.                                     *)
LEMMA ChainPages ==
    ASSUME Types, NEW i \in DOMAIN chain
    PROVE  /\ i \in 1..Len(chain) /\ chain[i] \in CorePages
           /\ chain[i].space \in Spaces /\ chain[i].vpn \in ProgramPages[chain[i].space]
           /\ chain[i].vpn \in DOMAIN pageTable[chain[i].space] /\ chain[i].frame \in Frames
<1>1. chain \in Seq(CorePages)
  BY DEF Types
<1>2. DOMAIN chain = 1..Len(chain)
  BY SMT, <1>1
<1>3. chain[i] \in CorePages
  BY SMT, <1>1, <1>2
<1>4. /\ chain[i].space \in Spaces /\ chain[i].vpn \in ProgramPages[chain[i].space]
      /\ chain[i].frame \in Frames
  BY <1>3 DEF CorePages
<1>5. chain[i].vpn \in DOMAIN pageTable[chain[i].space]
  BY <1>4 DEF Types, TableOK
<1> QED BY <1>2, <1>3, <1>4, <1>5

(* An access to a page that is in memory moves no page.                    *)
LEMMA HitPages ==
    ASSUME Types, NEW t \in Threads, NEW p \in DOMAIN pageTable[SpaceOf[t]],
           NEW writing \in BOOLEAN, Access(t, p, writing), pageTable[SpaceOf[t]][p].valid,
           NEW s \in Spaces, s = SpaceOf[t]
    PROVE  /\ \A r \in Spaces : DOMAIN pageTable'[r] = DOMAIN pageTable[r]
           /\ \A r \in Spaces : \A q \in DOMAIN pageTable[r] :
                 /\ Valid(r, q)' <=> Valid(r, q)
                 /\ Frame(r, q)' = Frame(r, q)
                 /\ r = s /\ q = p => (pageTable'[r][q].dirty <=> pageTable[s][p].dirty \/ writing)
                 /\ r # s \/ q # p => (pageTable'[r][q].dirty <=> pageTable[r][q].dirty)
           /\ Grown' = Grown
<1> DEFINE e == pageTable[s][p]
<1>1. pageTable' = [pageTable EXCEPT ![s][p].use = TRUE, ![s][p].dirty = @ \/ writing]
  BY DEF Access
<1>2. p \in DOMAIN pageTable[s] /\ e.valid /\ e \in Entries
  BY DEF Types, TableOK
<1>3. Retables(pageTable', s, p, e.physicalPage, e.valid, e.dirty \/ writing)
  BY <1>1, <1>2, HitRetables
<1>4. PICK f, v, d : f = e.physicalPage /\ v = e.valid /\ d = (e.dirty \/ writing)
  OBVIOUS
<1>5. v \in BOOLEAN /\ d \in BOOLEAN /\ Retables(pageTable', s, p, f, v, d)
  BY <1>2, <1>3, <1>4 DEF Entries
<1>6. Valid(s, p) /\ Frame(s, p) = f
  BY <1>2, <1>4 DEF Valid, Frame
<1>7. Repaged(s, p, f, v, d)
  BY <1>5, RetablesPages
<1>8. v /\ (d <=> (e.dirty \/ writing))
  BY <1>2, <1>4
<1> HIDE DEF e
<1>9. /\ \A r \in Spaces : DOMAIN pageTable'[r] = DOMAIN pageTable[r]
      /\ \A r \in Spaces : \A q \in DOMAIN pageTable[r] :
            /\ Valid(r, q)' <=> Valid(r, q)
            /\ Frame(r, q)' = Frame(r, q)
            /\ r = s /\ q = p => (pageTable'[r][q].dirty <=> e.dirty \/ writing)
            /\ r # s \/ q # p => (pageTable'[r][q].dirty <=> pageTable[r][q].dirty)
      /\ Grown' = Grown
  BY <1>6, <1>7, <1>8 DEF Repaged
<1> QED BY <1>9 DEF e

(* An access to a page that is in memory.                                  *)
LEMMA HitUndisturbed ==
    ASSUME Types, Undisturbed, NEW t \in Threads, NEW p \in DOMAIN pageTable[SpaceOf[t]],
           NEW writing \in BOOLEAN, Access(t, p, writing), pageTable[SpaceOf[t]][p].valid
    PROVE  Undisturbed'
<1>1. PICK s \in Spaces : s = SpaceOf[t]
  BY VirtualMemoryAssumption
<1> DEFINE e == pageTable[s][p]
<1>2. /\ pageTable' = [pageTable EXCEPT ![s][p].use = TRUE, ![s][p].dirty = @ \/ writing]
      /\ mainMemory' = IF writing THEN [mainMemory EXCEPT ![e.physicalPage] = <<"data", writes'>>]
                       ELSE mainMemory
      /\ UNCHANGED <<LRU, stored, file, chain, tailLost, size, at, holder, kernel, fault, pages>>
  BY <1>1 DEF Access, settings, coreMap
<1>3. Alone /\ FramesOK /\ CleanOK /\ CountOK /\ Complete /\ \A u \in Threads : KernelOwns(u)
  BY DEF Undisturbed
<1>4. p \in DOMAIN pageTable[s] /\ e.valid /\ e \in Entries /\ kernel = NONE
  <2>1. TableOK(pageTable[s], s)
    BY DEF Types
  <2>2. pageTable[s] \in [0..(Cardinality(DOMAIN pageTable[s]) - 1) -> Entries]
    BY <2>1 DEF TableOK
  <2>3. p \in DOMAIN pageTable[s] /\ e.valid /\ kernel = NONE
    BY <1>1 DEF Access, InUser
  <2> QED BY <2>2, <2>3
<1>6. /\ \A r \in Spaces : DOMAIN pageTable'[r] = DOMAIN pageTable[r]
      /\ \A r \in Spaces : \A q \in DOMAIN pageTable[r] :
            /\ Valid(r, q)' <=> Valid(r, q)
            /\ Frame(r, q)' = Frame(r, q)
            /\ r = s /\ q = p => (pageTable'[r][q].dirty <=> e.dirty \/ writing)
            /\ r # s \/ q # p => (pageTable'[r][q].dirty <=> pageTable[r][q].dirty)
      /\ Grown' = Grown
  BY SMT, <1>1, HitPages
<1>7. Alone'
  BY <1>2, <1>3 DEF Alone
<1>8. FramesOK'
  <2>1. \A r, z \in Spaces : \A q \in DOMAIN pageTable'[r] : \A x \in DOMAIN pageTable'[z] :
           Valid(r, q)' /\ Valid(z, x)' /\ Frame(r, q)' = Frame(z, x)' => r = z /\ q = x
    <3> SUFFICES ASSUME NEW r \in Spaces, NEW z \in Spaces, NEW q \in DOMAIN pageTable'[r],
                        NEW x \in DOMAIN pageTable'[z],
                        Valid(r, q)', Valid(z, x)', Frame(r, q)' = Frame(z, x)'
                 PROVE  r = z /\ q = x
      OBVIOUS
    <3>1. /\ q \in DOMAIN pageTable[r] /\ x \in DOMAIN pageTable[z]
          /\ Valid(r, q) /\ Valid(z, x) /\ Frame(r, q) = Frame(z, x)
      BY <1>6
    <3> QED BY <1>3, <3>1, FrameOfOne
  <2>2. \A r \in Spaces : \A q \in DOMAIN pageTable'[r] : Valid(r, q)' => Frame(r, q)' \in pages'
    <3> TAKE r \in Spaces
    <3> TAKE q \in DOMAIN pageTable'[r]
    <3>1. q \in DOMAIN pageTable[r] /\ (Valid(r, q)' <=> Valid(r, q)) /\ Frame(r, q)' = Frame(r, q)
      BY <1>6
    <3>2. Valid(r, q) => Frame(r, q) \in pages
      BY <1>3, <3>1, FrameInPages
    <3> QED BY <1>2, <3>1, <3>2
  <2>3. \A r \in Spaces : \A q \in DOMAIN pageTable'[r] : ~Valid(r, q)' => ~pageTable'[r][q].dirty
    <3>1. Valid(s, p)
      BY <1>4 DEF Valid
    <3> QED BY SMT, <1>3, <1>6, <3>1 DEF FramesOK
  <2>4. \A i \in DOMAIN chain :
           Valid(chain[i].space, chain[i].vpn)' /\ Frame(chain[i].space, chain[i].vpn)' = chain[i].frame
    <3> TAKE i \in DOMAIN chain
    <3>1. PICK r, q : r = chain[i].space /\ q = chain[i].vpn
      OBVIOUS
    <3>2. r \in Spaces /\ q \in DOMAIN pageTable[r] /\ Valid(r, q) /\ Frame(r, q) = chain[i].frame
      <4>1. chain[i].space \in Spaces
        BY ChainPages
      <4>2. Valid(r, q) /\ Frame(r, q) = chain[i].frame
        BY <1>3, <3>1 DEF FramesOK
      <4> QED BY <3>1, <4>1, <4>2 DEF Valid
    <3>3. Valid(r, q)' /\ Frame(r, q)' = chain[i].frame
      BY <1>6, <3>2
    <3> QED BY <1>2, <3>1, <3>3 DEF Valid, Frame
  <2>5. \A i, j \in DOMAIN chain :
           chain[i].space = chain[j].space /\ chain[i].vpn = chain[j].vpn => i = j
    BY <1>3 DEF FramesOK
  <2> QED BY <1>2, <2>1, <2>2, <2>3, <2>4, <2>5 DEF FramesOK, Valid, Frame

<1>9. CleanOK'
  <2> SUFFICES ASSUME NEW r \in Spaces, NEW q \in ProgramPages[r], Valid(r, q)',
                      ~pageTable'[r][q].dirty
               PROVE  mainMemory'[Frame(r, q)'] = Loaded(r, q)'
    BY DEF CleanOK
  <2>1. q \in DOMAIN pageTable[r]
    BY DEF Types, TableOK
  <2>2. Valid(r, q) /\ Frame(r, q)' = Frame(r, q)
    BY <1>6, <2>1
  <2>3. ~pageTable[r][q].dirty /\ (writing => r # s \/ q # p)
    BY <1>6, <2>1
  <2>4. mainMemory[Frame(r, q)] = Loaded(r, q)
    BY <1>3, <2>2, <2>3 DEF CleanOK
  <2>5. Loaded(r, q)' = Loaded(r, q)
    BY <1>2 DEF Loaded
  <2>6. writing => Frame(r, q) # e.physicalPage
    <3>1. Valid(s, p) /\ Frame(s, p) = e.physicalPage
      BY <1>4 DEF Valid, Frame
    <3> QED BY <1>3, <1>4, <2>1, <2>2, <2>3, <3>1 DEF FramesOK
  <2>7. Frame(r, q) \in Frames
    BY <2>1, <2>2 DEF Types, TableOK, Valid, Frame
  <2>8. mainMemory'[Frame(r, q)] = mainMemory[Frame(r, q)]
    BY <1>2, <2>6, <2>7 DEF Types
  <2> QED BY <2>2, <2>4, <2>5, <2>8
<1>10. CountOK'
  BY <1>2, <1>3, <1>6 DEF CountOK, Taken
<1>11. Complete'
  <2>1. \A r \in Spaces : \A q \in ProgramPages[r] : Valid(r, q)' => Valid(r, q)
    BY <1>6 DEF Types, TableOK
  <2> QED BY SMT, <1>2, <1>3, <2>1 DEF Complete
<1>12. \A u \in Threads : KernelOwns(u)'
  <2> TAKE u \in Threads
  <2>1. at'[u].pc \in Outside
    <3>1. NONE \notin Threads
      BY VirtualMemoryAssumption
    <3> QED BY <1>2, <1>3, <1>4, <3>1 DEF Alone
  <2> QED BY <2>1 DEF KernelOwns, Outside
<1> QED BY <1>7, <1>8, <1>9, <1>10, <1>11, <1>12 DEF Undisturbed

(* A fault on page p while the core map is not full.                       *)
LEMMA MissUndisturbed ==
    ASSUME Types, Undisturbed, NEW t \in Threads, NEW p, ~Valid(SpaceOf[t], p),
           kernel = NONE, fault = "none", size < NumPhysPages, PageFault(t, p),
           UNCHANGED <<settings, pages, writes>>
    PROVE  Undisturbed'
<1> DEFINE a == [pc |-> "alloc", vpn |-> p]
<1>1. at' = [at EXCEPT ![t] = a] /\ Acquire(t) /\ UNCHANGED <<memory, coreMap, fault>>
  <2>1. size # NumPhysPages
    BY SMT, TypesNumbers
  <2> QED BY <2>1 DEF PageFault
<1>2. Alone /\ FramesOK /\ CleanOK /\ CountOK /\ Complete
  BY DEF Undisturbed
<1>3. holder' = t /\ kernel' = t
  BY <1>1, <1>2, AcquireAlone
<1>4. /\ at'[t].pc = "alloc" /\ at'[t].vpn = p
      /\ \A u \in Threads : u # t => at'[u] = at[u]
  <2>1. at'[t] = a /\ \A u \in Threads : u # t => at'[u] = at[u]
    BY <1>1, AtOthers
  <2> QED BY SMT, <2>1
<1>5. Alone' /\ \A u \in Threads : u # t => at[u].pc \in Outside /\ at'[u].pc \in Outside
  BY <1>2, <1>3, <1>4, AloneStep
<1>6. UNCHANGED <<LRU, memory, coreMap>>
  BY <1>1 DEF settings
<1>7. FramesOK' /\ CleanOK' /\ Complete' /\ Grown' = Grown
  BY <1>2, <1>6, SameMemory, SameMemoryFrames
<1>8. UNCHANGED <<pageTable, size>>
  BY <1>6 DEF memory, coreMap
<1>9. \A u \in Threads : KernelOwns(u)'
  <2>1. KernelOwns(t)'
    BY <1>4, <1>8 DEF KernelOwns, Valid
  <2>2. \A u \in Threads : u # t => KernelOwns(u)'
    BY <1>5 DEF KernelOwns, Outside
  <2> QED BY <2>1, <2>2
<1>10. CountOK'
  <2>1. Taken(t)' = 0 /\ size \in Int /\ NONE \notin Threads
    BY <1>4, TypesNumbers, VirtualMemoryAssumption DEF Taken
  <2>2. \A u \in Threads : at'[u].pc # "load"
    BY <1>4, <1>5 DEF Outside
  <2> QED BY SMT, <1>1, <1>2, <1>3, <1>7, <1>8, <2>1, <2>2 DEF CountOK
<1> QED BY <1>5, <1>7, <1>9, <1>10 DEF Undisturbed

(* A fault on page p while the core map is full, which takes the i-th      *)
(* CorePage c out of it.                                                   *)
Evicts(t, p, i, c) ==
    /\ i \in DOMAIN chain /\ i \in 1..Len(chain) /\ c = chain[i] /\ (LRU = 0 => i = 1)
    /\ size = NumPhysPages /\ size' = size - 1
    /\ chain' = Without(chain, i)
    /\ tailLost' = (tailLost \/ LosesTail(i))
    /\ c.space \in Spaces /\ c.vpn \in ProgramPages[c.space]
    /\ c.vpn \in DOMAIN pageTable[c.space] /\ c.frame \in Frames
    /\ Repaged(c.space, c.vpn, Frame(c.space, c.vpn), FALSE, FALSE)
    /\ stored' = [stored EXCEPT ![c.space] =
                    @ \cup IF pageTable[c.space][c.vpn].dirty THEN {c.vpn} ELSE {}]
    /\ file' = IF pageTable[c.space][c.vpn].dirty
               THEN [file EXCEPT ![c.space][c.vpn] = mainMemory[Frame(c.space, c.vpn)]]
               ELSE file
    /\ at' = [at EXCEPT ![t] = [pc |-> "free", vpn |-> p, frame |-> c.frame]]
    /\ Acquire(t) /\ UNCHANGED <<mainMemory, fault>>

LEMMA EvictsOne ==
    ASSUME Types, NEW t \in Threads, NEW p, PageFault(t, p), ~(size < NumPhysPages)
    PROVE  \E i, c : Evicts(t, p, i, c)
<1>1. PICK i, c : i = Victim /\ c = chain[i]
  OBVIOUS
<1> DEFINE clear == {<<chain[j].space, chain[j].vpn>> : j \in Cleared}
<1>2. /\ size = NumPhysPages /\ chain' = Without(chain, i)
      /\ tailLost' = (tailLost \/ LosesTail(i)) /\ size' = size - 1
      /\ pageOut(c, ClearedTable(clear))
      /\ at' = [at EXCEPT ![t] = [pc |-> "free", vpn |-> p, frame |-> c.frame]]
      /\ Acquire(t) /\ UNCHANGED <<mainMemory, fault>>
  BY <1>1 DEF PageFault, Without, ClearedTable
<1>3. i \in 1..Len(chain) /\ (LRU = 0 => i = 1) /\ chain \in Seq(CorePages)
  BY <1>1, <1>2, VictimProperties DEF Types
<1>4. i \in DOMAIN chain
  BY SMT, <1>3
<1>5. /\ c.space \in Spaces /\ c.vpn \in ProgramPages[c.space]
      /\ c.vpn \in DOMAIN pageTable[c.space] /\ c.frame \in Frames
  BY <1>1, <1>4, ChainPages
<1>6. IsPagedOut(pageTable', clear, c.space, c.vpn)
  BY <1>2 DEF pageOut, IsPagedOut
<1>7. /\ stored' = [stored EXCEPT ![c.space] =
                      @ \cup IF pageTable[c.space][c.vpn].dirty THEN {c.vpn} ELSE {}]
      /\ file' = IF pageTable[c.space][c.vpn].dirty
                 THEN [file EXCEPT ![c.space][c.vpn] = mainMemory[Frame(c.space, c.vpn)]]
                 ELSE file
  BY <1>2 DEF pageOut, WriteBack, Frame
<1> HIDE DEF clear
<1>8. Retables(pageTable', c.space, c.vpn, pageTable[c.space][c.vpn].physicalPage, FALSE, FALSE)
  BY <1>5, <1>6, OutRetables
<1>9. Repaged(c.space, c.vpn, Frame(c.space, c.vpn), FALSE, FALSE)
  <2>1. PICK f, v, d : f = Frame(c.space, c.vpn) /\ v = FALSE /\ d = FALSE
    OBVIOUS
  <2>2. Retables(pageTable', c.space, c.vpn, f, v, d) /\ v \in BOOLEAN /\ d \in BOOLEAN
    BY <1>8, <2>1 DEF Frame
  <2>3. Repaged(c.space, c.vpn, f, v, d)
    BY <2>2, RetablesPages
  <2> QED BY <2>1, <2>3
<1>10. Evicts(t, p, i, c)
  BY <1>1, <1>2, <1>3, <1>4, <1>5, <1>7, <1>9 DEF Evicts
<1> QED BY <1>10

(* What is loaded for a page afterwards.                                   *)
LEMMA EvictsLoaded ==
    ASSUME Types, NEW t, NEW p, NEW i, NEW c, Evicts(t, p, i, c),
           NEW r \in Spaces, NEW q \in ProgramPages[r]
    PROVE  Loaded(r, q)' = IF r = c.space /\ q = c.vpn /\ pageTable[r][q].dirty
                           THEN mainMemory[Frame(r, q)] ELSE Loaded(r, q)
<1> DEFINE s0 == c.space
           p0 == c.vpn
           dirty == pageTable[s0][p0].dirty
<1>1. /\ stored' = [stored EXCEPT ![s0] = @ \cup IF dirty THEN {p0} ELSE {}]
      /\ file' = IF dirty THEN [file EXCEPT ![s0][p0] = mainMemory[Frame(s0, p0)]] ELSE file
      /\ s0 \in Spaces /\ p0 \in ProgramPages[s0]
  BY DEF Evicts
<1>2. /\ stored = [x \in Spaces |-> stored[x]] /\ file = [x \in Spaces |-> file[x]]
      /\ \A x \in Spaces : file[x] \in [ProgramPages[x] -> Contents]
  BY DEF Types
<1> HIDE DEF dirty, s0, p0
<1>3. q \in stored'[r] <=> q \in stored[r] \/ (r = s0 /\ q = p0 /\ dirty)
  BY <1>1, <1>2
<1>4. r # s0 \/ q # p0 => file'[r][q] = file[r][q]
  BY <1>1, <1>2
<1>5. r = s0 /\ q = p0 /\ dirty => file'[r][q] = mainMemory[Frame(r, q)]
  BY <1>1, <1>2
<1>6. ~dirty => file' = file
  BY <1>1
<1>7. Loaded(r, q)' = IF r = s0 /\ q = p0 /\ dirty THEN mainMemory[Frame(r, q)] ELSE Loaded(r, q)
  BY <1>3, <1>4, <1>5, <1>6 DEF Loaded
<1> QED BY <1>7 DEF s0, p0, dirty

LEMMA EvictUndisturbed ==
    ASSUME Types, Undisturbed, NEW t \in Threads, NEW p \in DOMAIN pageTable[SpaceOf[t]],
           ~Valid(SpaceOf[t], p), kernel = NONE, fault = "none",
           NEW i, NEW c, Evicts(t, p, i, c), UNCHANGED <<settings, pages, writes>>
    PROVE  Undisturbed'
<1> DEFINE s0 == c.space
           p0 == c.vpn
           a == [pc |-> "free", vpn |-> p, frame |-> c.frame]
<1>1. /\ at' = [at EXCEPT ![t] = a] /\ Acquire(t) /\ UNCHANGED <<mainMemory, fault>>
      /\ i \in DOMAIN chain /\ i \in 1..Len(chain) /\ c = chain[i] /\ (LRU = 0 => i = 1)
      /\ size = NumPhysPages /\ size' = size - 1 /\ chain' = Without(chain, i)
      /\ tailLost' = (tailLost \/ LosesTail(i))
      /\ s0 \in Spaces /\ p0 \in ProgramPages[s0] /\ p0 \in DOMAIN pageTable[s0] /\ c.frame \in Frames
  BY DEF Evicts
<1>2. Alone /\ FramesOK /\ CleanOK /\ CountOK /\ Complete
  BY DEF Undisturbed
<1>3. holder' = t /\ kernel' = t
  BY <1>1, <1>2, AcquireAlone
<1>4. /\ at'[t].pc = "free" /\ at'[t].vpn = p /\ at'[t].frame = c.frame
      /\ \A u \in Threads : u # t => at'[u] = at[u]
  <2>1. at'[t] = a /\ \A u \in Threads : u # t => at'[u] = at[u]
    BY <1>1, AtOthers
  <2> QED BY SMT, <2>1
<1>5. Alone' /\ \A u \in Threads : u # t => at[u].pc \in Outside /\ at'[u].pc \in Outside
  BY <1>2, <1>3, <1>4, AloneStep
<1>6. Repaged(s0, p0, Frame(s0, p0), FALSE, FALSE)
  BY DEF Evicts
<1>7. /\ \A r \in Spaces : DOMAIN pageTable'[r] = DOMAIN pageTable[r]
      /\ \A r \in Spaces : \A q \in DOMAIN pageTable[r] :
            /\ Valid(r, q)' <=> Valid(r, q) /\ (r # s0 \/ q # p0)
            /\ Frame(r, q)' = Frame(r, q)
            /\ pageTable'[r][q].dirty <=> pageTable[r][q].dirty /\ (r # s0 \/ q # p0)
      /\ Grown' = Grown
  <2> HIDE DEF s0, p0
  <2> QED BY <1>6 DEF Repaged
<1>8. Valid(s0, p0) /\ Frame(s0, p0) = c.frame
  BY <1>1, <1>2 DEF FramesOK
<1>9. /\ chain \in Seq(CorePages) /\ Len(chain) \in Nat /\ DOMAIN chain = 1..Len(chain)
      /\ chain' \in Seq(CorePages) /\ Len(chain') = Len(chain) - 1
      /\ DOMAIN chain' = 1..(Len(chain) - 1)
      /\ \A j \in 1..(Len(chain) - 1) : chain'[j] = IF j < i THEN chain[j] ELSE chain[j + 1]
  <2>1. chain \in Seq(CorePages)
    BY DEF Types
  <2>2. /\ chain' \in Seq(CorePages) /\ Len(chain') = Len(chain) - 1
        /\ \A j \in 1..(Len(chain) - 1) : chain'[j] = IF j < i THEN chain[j] ELSE chain[j + 1]
    BY <1>1, <2>1, WithoutProperties
  <2> QED BY SMT, <2>1, <2>2
(* Where the CorePages that stay were.                                     *)
<1> DEFINE was(j) == IF j < i THEN j ELSE j + 1
<1>a. /\ i \in 1..Len(chain) /\ Len(chain) \in Nat
      /\ DOMAIN chain = 1..Len(chain) /\ DOMAIN chain' = 1..(Len(chain) - 1)
  BY <1>1, <1>9
<1>10. \A j \in DOMAIN chain' : was(j) \in DOMAIN chain /\ was(j) # i /\ chain'[j] = chain[was(j)]
  <2>1. \A j \in DOMAIN chain' : was(j) \in DOMAIN chain /\ was(j) # i
    BY SMT, <1>a
  <2>2. \A j \in DOMAIN chain' : chain'[j] = chain[was(j)]
    BY <1>9
  <2> QED BY <2>1, <2>2
<1>11. \A j, k \in DOMAIN chain' : was(j) = was(k) => j = k
  BY SMT, <1>a
<1>12. \A k \in DOMAIN chain : k # i => \E j \in DOMAIN chain' : was(j) = k
  <2> TAKE k \in DOMAIN chain
  <2>1. CASE k < i
    BY SMT, <2>1, <1>a
  <2>2. CASE k > i
    <3>1. k - 1 \in DOMAIN chain' /\ was(k - 1) = k
      BY SMT, <2>2, <1>a
    <3> QED BY <3>1
  <2>3. k # i => k < i \/ k > i
    BY SMT, <1>a
  <2> QED BY <2>1, <2>2, <2>3
<1> HIDE DEF was
<1>13. FramesOK'
  <2>1. \A r, z \in Spaces : \A q \in DOMAIN pageTable'[r] : \A x \in DOMAIN pageTable'[z] :
           Valid(r, q)' /\ Valid(z, x)' /\ Frame(r, q)' = Frame(z, x)' => r = z /\ q = x
    <3> SUFFICES ASSUME NEW r \in Spaces, NEW z \in Spaces, NEW q \in DOMAIN pageTable'[r],
                        NEW x \in DOMAIN pageTable'[z],
                        Valid(r, q)', Valid(z, x)', Frame(r, q)' = Frame(z, x)'
                 PROVE  r = z /\ q = x
      OBVIOUS
    <3>1. /\ q \in DOMAIN pageTable[r] /\ x \in DOMAIN pageTable[z]
          /\ Valid(r, q) /\ Valid(z, x) /\ Frame(r, q) = Frame(z, x)
      BY <1>7
    <3> QED BY <1>2, <3>1, FrameOfOne
  <2>2. \A r \in Spaces : \A q \in DOMAIN pageTable'[r] : Valid(r, q)' => Frame(r, q)' \in pages'
    <3> TAKE r \in Spaces
    <3> TAKE q \in DOMAIN pageTable'[r]
    <3>1. q \in DOMAIN pageTable[r] /\ (Valid(r, q)' => Valid(r, q)) /\ Frame(r, q)' = Frame(r, q)
      BY <1>7
    <3>2. Valid(r, q) => Frame(r, q) \in pages
      BY <1>2, <3>1, FrameInPages
    <3> QED BY <3>1, <3>2
  <2>3. \A r \in Spaces : \A q \in DOMAIN pageTable'[r] : ~Valid(r, q)' => ~pageTable'[r][q].dirty
    BY <1>2, <1>7 DEF FramesOK
  <2>4. \A j \in DOMAIN chain' : \A r, q : r = chain'[j].space /\ q = chain'[j].vpn =>
           Valid(r, q)' /\ Frame(r, q)' = chain'[j].frame
    <3> SUFFICES ASSUME NEW j \in DOMAIN chain', NEW r, NEW q,
                        r = chain'[j].space /\ q = chain'[j].vpn
                 PROVE  Valid(r, q)' /\ Frame(r, q)' = chain'[j].frame
      OBVIOUS
    <3>1. PICK k \in DOMAIN chain : k # i /\ chain'[j] = chain[k]
      BY <1>10
    <3>2. Valid(r, q) /\ Frame(r, q) = chain'[j].frame /\ r \in Spaces /\ q \in DOMAIN pageTable[r]
      BY <3>1, <1>2, ChainPages DEF FramesOK
    <3>3. r # s0 \/ q # p0
      BY <3>1, <1>1, <1>2 DEF FramesOK
    <3> QED BY <1>7, <3>2, <3>3
  <2>5. \A j, k \in DOMAIN chain' :
           chain'[j].space = chain'[k].space /\ chain'[j].vpn = chain'[k].vpn => j = k
    <3> SUFFICES ASSUME NEW j \in DOMAIN chain', NEW k \in DOMAIN chain',
                        chain'[j].space = chain'[k].space, chain'[j].vpn = chain'[k].vpn
                 PROVE  j = k
      OBVIOUS
    <3>1. /\ was(j) \in DOMAIN chain /\ was(k) \in DOMAIN chain
          /\ chain'[j] = chain[was(j)] /\ chain'[k] = chain[was(k)]
      BY <1>10
    <3>2. was(j) = was(k)
      BY <1>2, <3>1 DEF FramesOK
    <3> QED BY <1>11, <3>2
  <2> QED BY <2>1, <2>2, <2>3, <2>4, <2>5, FramesOKAfter
<1>14. \A r \in Spaces : \A q \in ProgramPages[r] : r # s0 \/ q # p0 => Loaded(r, q)' = Loaded(r, q)
  <2> SUFFICES ASSUME NEW r \in Spaces, NEW q \in ProgramPages[r], r # s0 \/ q # p0
               PROVE  Loaded(r, q)' = Loaded(r, q)
    OBVIOUS
  <2>1. Loaded(r, q)' = IF r = s0 /\ q = p0 /\ pageTable[r][q].dirty
                        THEN mainMemory[Frame(r, q)] ELSE Loaded(r, q)
    BY EvictsLoaded
  <2> QED BY <2>1
<1>15. CleanOK'
  <2> SUFFICES ASSUME NEW r \in Spaces, NEW q \in ProgramPages[r], Valid(r, q)',
                      ~pageTable'[r][q].dirty
               PROVE  mainMemory'[Frame(r, q)'] = Loaded(r, q)'
    BY DEF CleanOK
  <2>1. q \in DOMAIN pageTable[r]
    BY DEF Types, TableOK
  <2>2. Valid(r, q) /\ Frame(r, q)' = Frame(r, q) /\ (r # s0 \/ q # p0) /\ ~pageTable[r][q].dirty
    BY <1>7, <2>1
  <2> QED BY <1>1, <1>2, <1>14, <2>2 DEF CleanOK
<1>16. \A u \in Threads : KernelOwns(u)'
  <2>1. KernelOwns(t)'
    <3>1. ~Valid(SpaceOf[t], p)' /\ size' < NumPhysPages
      <4>1. SpaceOf[t] \in Spaces
        BY VirtualMemoryAssumption
      <4>2. ~Valid(SpaceOf[t], p)'
        BY <4>1, <1>7
      <4>3. size \in Int /\ NumPhysPages \in Nat \ {0} /\ size = NumPhysPages /\ size' = size - 1
        BY <1>1, TypesNumbers
      <4>4. size' < NumPhysPages
        BY SMT, <4>3
      <4> QED BY <4>2, <4>4
    <3>2. \A f : f = c.frame => f \in pages' /\ Unowned(f)'
      <4>1. c.frame \in pages
        BY <1>1, <1>2, <1>8, FrameInPages
      <4>2. ASSUME NEW r \in Spaces, NEW q \in DOMAIN pageTable'[r], Valid(r, q)'
            PROVE  Frame(r, q)' # c.frame
        <5>1. /\ q \in DOMAIN pageTable[r] /\ Valid(r, q) /\ Frame(r, q)' = Frame(r, q)
              /\ (r # s0 \/ q # p0)
          BY <1>7, <4>2
        <5>2. FramesOK /\ s0 \in Spaces /\ p0 \in DOMAIN pageTable[s0]
          BY <1>1, <1>2
        <5> HIDE DEF s0, p0
        <5> QED BY <5>1, <5>2, <1>8, FrameOfOne
      <4> QED BY <4>1, <4>2 DEF Unowned
    <3> QED BY <1>4, <3>1, <3>2 DEF KernelOwns, Valid, Unowned
  <2>2. \A u \in Threads : u # t => KernelOwns(u)'
    BY <1>5 DEF KernelOwns, Outside
  <2> QED BY <2>1, <2>2
<1>17. CountOK'
  <2>1. Taken(t)' = 1 /\ size \in Int /\ NONE \notin Threads
    BY <1>4, TypesNumbers, VirtualMemoryAssumption DEF Taken
  <2>2. \A u \in Threads : at'[u].pc # "load"
    BY <1>4, <1>5 DEF Outside
  <2>3. /\ fault' = fault /\ pages' = pages /\ kernel' = t /\ kernel' # NONE /\ Grown' = Grown
        /\ size' + Taken(kernel)' = size
    <3>1. size' = size - 1 /\ kernel' = t /\ t # NONE /\ fault' = fault /\ Grown' = Grown
      BY <1>1, <1>3, <1>7, <2>1
    <3>2. Taken(kernel)' = 1
      BY <2>1, <3>1 DEF Taken
    <3>3. size' + Taken(kernel)' = size
      BY SMT, <2>1, <3>1, <3>2
    <3> QED BY <3>1, <3>3
  <2> QED BY <1>2, <2>2, <2>3 DEF CountOK
<1>18. Complete'
  <2> SUFFICES ASSUME LRU = 0
               PROVE  /\ ~tailLost' /\ size' = Len(chain')
                      /\ \A r \in Spaces : \A q \in ProgramPages[r] :
                            Valid(r, q)' => \E j \in DOMAIN chain' :
                                               chain'[j].space = r /\ chain'[j].vpn = q
    BY DEF Complete, settings
  <2>1. ~tailLost' /\ size' = Len(chain')
    <3>1. ~tailLost /\ size = Len(chain)
      BY <1>2 DEF Complete
    <3>2. ~LosesTail(i)
      <4>1. i = 1
        BY <1>1
      <4> QED BY SMT, <4>1 DEF LosesTail
    <3>3. ~tailLost'
      BY <1>1, <3>1, <3>2
    <3> QED BY <1>1, <1>9, <3>1, <3>3
  <2>2. ASSUME NEW r \in Spaces, NEW q \in ProgramPages[r], Valid(r, q)'
        PROVE  \E j \in DOMAIN chain' : chain'[j].space = r /\ chain'[j].vpn = q
    <3>1. Valid(r, q) /\ (r # s0 \/ q # p0)
      BY <2>2, <1>7 DEF Types, TableOK
    <3>2. PICK k \in DOMAIN chain : chain[k].space = r /\ chain[k].vpn = q
      BY <3>1, <1>2 DEF Complete
    <3>3. k # i
      BY <3>1, <3>2, <1>1
    <3> QED BY <3>2, <3>3, <1>10, <1>12
  <2> QED BY <2>1, <2>2
<1> QED BY <1>5, <1>13, <1>15, <1>16, <1>17, <1>18 DEF Undisturbed

(* allocVirtualPage without a frame.                                       *)
LEMMA NoFrameUndisturbed ==
    ASSUME Types, Undisturbed, NEW t \in Threads, allocVirtualPage(t), at[t].frame = -1
    PROVE  Undisturbed'
<1>1. /\ at[t].pc = "load" /\ fault = "none" /\ fault' = "no frame"
      /\ UNCHANGED <<settings, pages, holder, writes, memory, coreMap, at, kernel>>
  BY DEF allocVirtualPage, Runs
<1>2. Alone /\ FramesOK /\ CleanOK /\ CountOK /\ Complete /\ \A u \in Threads : KernelOwns(u)
  BY DEF Undisturbed
<1>3. UNCHANGED <<LRU, memory, coreMap>> /\ UNCHANGED <<pageTable, size>>
  BY <1>1 DEF settings, memory, coreMap
<1>4. FramesOK' /\ CleanOK' /\ Complete' /\ Grown' = Grown /\ \A f : Unowned(f)' = Unowned(f)
  BY <1>1, <1>2, <1>3, SameMemory, SameMemoryFrames
<1>5. Alone'
  BY <1>1, <1>2 DEF Alone
<1>6. \A u \in Threads : KernelOwns(u)'
  BY <1>1, <1>2, <1>3, <1>4 DEF KernelOwns, Valid
<1>7. CountOK'
  BY <1>1, <1>2, <1>4 DEF CountOK
<1> QED BY <1>4, <1>5, <1>6, <1>7 DEF Undisturbed

(* allocVirtualPage loads page p of space s into the frame f.              *)
Loads(t, s, p, f) ==
    /\ at[t].pc = "load" /\ fault = "none" /\ kernel \in {t, NONE}
    /\ s = SpaceOf[t] /\ s \in Spaces /\ p = at[t].vpn /\ p \in ProgramPages[s]
    /\ p \in DOMAIN pageTable[s] /\ f = at[t].frame /\ f \in Frames /\ f # -1
    /\ addCorePage([space |-> s, vpn |-> p, frame |-> f])
    /\ [space |-> s, vpn |-> p, frame |-> f] \in CorePages
    /\ Retables(pageTable', s, p, f, TRUE, pageTable[s][p].dirty)
    /\ mainMemory' = [mainMemory EXCEPT ![f] = Loaded(s, p)]
    /\ at' = [at EXCEPT ![t] = User] /\ kernel' = NONE
    /\ UNCHANGED <<stored, file, fault, settings, pages, holder, writes>>

LEMMA LoadsOne ==
    ASSUME Types, NEW t \in Threads, allocVirtualPage(t), at[t].frame # -1
    PROVE  \E s, p, f : Loads(t, s, p, f)
<1>1. PICK s, p, f : s = SpaceOf[t] /\ p = at[t].vpn /\ f = at[t].frame
  OBVIOUS
<1> DEFINE c == [space |-> s, vpn |-> p, frame |-> f]
<1>2. /\ at[t].pc = "load" /\ fault = "none" /\ kernel \in {t, NONE} /\ addCorePage(c)
      /\ pageTable' = [pageTable EXCEPT ![s][p].physicalPage = f, ![s][p].valid = TRUE]
      /\ mainMemory' = [mainMemory EXCEPT ![f] = Loaded(s, p)]
      /\ at' = [at EXCEPT ![t] = User] /\ kernel' = NONE
      /\ UNCHANGED <<stored, file, fault, settings, pages, holder, writes>>
  BY <1>1 DEF allocVirtualPage, Runs
<1>3. AtOK(at[t], SpaceOf[t]) /\ SpaceOf[t] \in Spaces
  BY VirtualMemoryAssumption DEF Types
<1>4. s \in Spaces /\ p \in ProgramPages[s] /\ f \in Frames
  BY <1>1, <1>2, <1>3, AtFields
<1>5. p \in DOMAIN pageTable[s] /\ p \in Nat
  <2>1. TableOK(pageTable[s], s)
    BY <1>4 DEF Types
  <2>2. p \in DOMAIN pageTable[s]
    BY <1>4, <2>1 DEF TableOK
  <2>3. DOMAIN pageTable[s] \subseteq Nat
    BY SMT, <2>1 DEF TableOK
  <2> QED BY <2>2, <2>3
<1>6. c \in CorePages
  BY <1>4, <1>5 DEF CorePages
<1>7. Retables(pageTable', s, p, f, TRUE, pageTable[s][p].dirty)
  BY <1>2, <1>4, <1>5, InRetables
<1> HIDE DEF c
<1>8. Loads(t, s, p, f)
  BY <1>1, <1>2, <1>4, <1>5, <1>6, <1>7 DEF Loads, c
<1> QED BY <1>8

LEMMA LoadsPages ==
    ASSUME Types, NEW t, NEW s, NEW p, NEW f, Loads(t, s, p, f)
    PROVE  /\ \A r \in Spaces : DOMAIN pageTable'[r] = DOMAIN pageTable[r]
           /\ \A r \in Spaces : \A q \in DOMAIN pageTable[r] :
                 /\ Valid(r, q)' <=> Valid(r, q) \/ (r = s /\ q = p)
                 /\ r = s /\ q = p => Frame(r, q)' = f
                 /\ r # s \/ q # p => Frame(r, q)' = Frame(r, q)
                 /\ pageTable'[r][q].dirty <=> pageTable[r][q].dirty
           /\ Grown' = Grown
<1>1. PICK v, d : v = TRUE /\ d = pageTable[s][p].dirty
  OBVIOUS
<1>2. d \in BOOLEAN /\ v \in BOOLEAN
  <2>1. pageTable[s][p] \in Entries
    BY DEF Loads, Types, TableOK
  <2> QED BY <1>1, <2>1 DEF Entries
<1>3. Retables(pageTable', s, p, f, v, d)
  BY <1>1 DEF Loads
<1>4. Repaged(s, p, f, v, d)
  BY <1>2, <1>3, RetablesPages
<1>5. v /\ (d <=> pageTable[s][p].dirty)
  BY <1>1
<1> QED BY <1>4, <1>5 DEF Repaged

LEMMA LoadUndisturbed ==
    ASSUME Types, Undisturbed, NEW t \in Threads, NEW s, NEW p, NEW f, Loads(t, s, p, f)
    PROVE  Undisturbed'
<1> DEFINE c == [space |-> s, vpn |-> p, frame |-> f]
<1>1. /\ at[t].pc = "load" /\ fault = "none" /\ kernel \in {t, NONE}
      /\ s = SpaceOf[t] /\ s \in Spaces /\ p = at[t].vpn /\ p \in ProgramPages[s]
      /\ p \in DOMAIN pageTable[s] /\ f = at[t].frame /\ f \in Frames /\ f # -1
      /\ addCorePage(c) /\ c \in CorePages
      /\ mainMemory' = [mainMemory EXCEPT ![f] = Loaded(s, p)]
      /\ at' = [at EXCEPT ![t] = User] /\ kernel' = NONE
      /\ UNCHANGED <<stored, file, fault, settings, pages, holder, writes>>
  BY DEF Loads
<1>2. Alone /\ FramesOK /\ CleanOK /\ CountOK /\ Complete /\ KernelOwns(t)
  BY DEF Undisturbed
<1>3. kernel = t /\ holder = NONE
  BY <1>1, <1>2 DEF Alone, Outside
<1>4. at'[t].pc = "user" /\ \A u \in Threads : u # t => at'[u] = at[u]
  <2>1. at'[t] = User /\ \A u \in Threads : u # t => at'[u] = at[u]
    BY <1>1, AtOthers
  <2> QED BY SMT, <2>1 DEF User
<1>5. Alone' /\ \A u \in Threads : u # t => at[u].pc \in Outside /\ at'[u].pc \in Outside
  BY <1>1, <1>2, <1>3, <1>4, AloneStep DEF Outside
<1>6. ~Valid(s, p) /\ size < NumPhysPages /\ f \in pages /\ Unowned(f)
  BY <1>1, <1>2 DEF KernelOwns
<1>7. /\ \A r \in Spaces : DOMAIN pageTable'[r] = DOMAIN pageTable[r]
      /\ \A r \in Spaces : \A q \in DOMAIN pageTable[r] :
            /\ Valid(r, q)' <=> Valid(r, q) \/ (r = s /\ q = p)
            /\ r = s /\ q = p => Frame(r, q)' = f
            /\ r # s \/ q # p => Frame(r, q)' = Frame(r, q)
            /\ pageTable'[r][q].dirty <=> pageTable[r][q].dirty
      /\ Grown' = Grown
  BY LoadsPages
<1>8. /\ size' = size + 1 /\ size # NumPhysPages
      /\ chain' = IF chain = <<>> THEN <<c>> ELSE IF tailLost THEN chain ELSE Append(chain, c)
      /\ ~tailLost => ~tailLost'
  <2>1. size # NumPhysPages
    BY SMT, <1>6, TypesNumbers
  <2>2. size' = size + 1
    BY <1>1, <2>1 DEF addCorePage
  <2>3. chain' = IF chain = <<>> THEN <<c>> ELSE IF tailLost THEN chain ELSE Append(chain, c)
    BY <1>1, <2>1 DEF addCorePage
  <2>4. ~tailLost => ~tailLost'
    BY <1>1 DEF addCorePage
  <2> QED BY <2>1, <2>2, <2>3, <2>4
<1> HIDE DEF c
<1>9. /\ chain \in Seq(CorePages) /\ Len(chain) \in Nat /\ DOMAIN chain = 1..Len(chain)
      /\ chain' \in {chain, Append(chain, c)} /\ (~tailLost => chain' = Append(chain, c))
  <2>1. chain \in Seq(CorePages)
    BY DEF Types
  <2>2. chain = <<>> => Append(chain, c) = <<c>>
    BY SMT
  <2> QED BY SMT, <1>8, <2>1, <2>2
<1>10. /\ Append(chain, c) \in Seq(CorePages) /\ Len(Append(chain, c)) = Len(chain) + 1
       /\ DOMAIN Append(chain, c) = 1..(Len(chain) + 1)
       /\ \A j \in 1..(Len(chain) + 1) :
             Append(chain, c)[j] = IF j \in DOMAIN chain THEN chain[j] ELSE c
       /\ \A j \in 1..(Len(chain) + 1) : j \notin DOMAIN chain => j = Len(chain) + 1
  BY SMT, <1>1, <1>9
<1>11. \A j \in DOMAIN chain' : IF j \in DOMAIN chain THEN chain'[j] = chain[j]
                                ELSE chain'[j] = c /\ j = Len(chain) + 1
  BY <1>9, <1>10
<1>12. c.space = s /\ c.vpn = p /\ c.frame = f
  BY DEF c
<1>13. \A j \in DOMAIN chain : chain[j].space # s \/ chain[j].vpn # p
  BY <1>2, <1>6, ChainValid
<1>14. FramesOK'
  <2>1. \A r, z \in Spaces : \A q \in DOMAIN pageTable'[r] : \A x \in DOMAIN pageTable'[z] :
           Valid(r, q)' /\ Valid(z, x)' /\ Frame(r, q)' = Frame(z, x)' => r = z /\ q = x
    <3> SUFFICES ASSUME NEW r \in Spaces, NEW z \in Spaces, NEW q \in DOMAIN pageTable'[r],
                        NEW x \in DOMAIN pageTable'[z],
                        Valid(r, q)', Valid(z, x)', Frame(r, q)' = Frame(z, x)'
                 PROVE  r = z /\ q = x
      OBVIOUS
    <3>1. /\ q \in DOMAIN pageTable[r] /\ x \in DOMAIN pageTable[z]
          /\ (r = s /\ q = p) \/ (Valid(r, q) /\ Frame(r, q)' = Frame(r, q))
          /\ (z = s /\ x = p) \/ (Valid(z, x) /\ Frame(z, x)' = Frame(z, x))
      BY <1>6, <1>7
    <3>2. /\ r = s /\ q = p => Frame(r, q)' = f
          /\ z = s /\ x = p => Frame(z, x)' = f
      BY <1>7, <3>1
    <3>3. Valid(r, q) /\ Valid(z, x) /\ Frame(r, q) = Frame(z, x) => r = z /\ q = x
      BY <1>2, <3>1, FrameOfOne
    <3>4. (Valid(r, q) => Frame(r, q) # f) /\ (Valid(z, x) => Frame(z, x) # f)
      BY <1>6, <3>1 DEF Unowned
    <3> QED BY <3>1, <3>2, <3>3, <3>4
  <2>2. \A r \in Spaces : \A q \in DOMAIN pageTable'[r] : Valid(r, q)' => Frame(r, q)' \in pages'
    <3> TAKE r \in Spaces
    <3> TAKE q \in DOMAIN pageTable'[r]
    <3>1. /\ q \in DOMAIN pageTable[r] /\ (Valid(r, q)' <=> Valid(r, q) \/ (r = s /\ q = p))
          /\ r = s /\ q = p => Frame(r, q)' = f
          /\ r # s \/ q # p => Frame(r, q)' = Frame(r, q)
      BY <1>7
    <3>2. Valid(r, q) => Frame(r, q) \in pages
      BY <1>2, <3>1, FrameInPages
    <3> QED BY <1>1, <1>6, <3>1, <3>2
  <2>3. \A r \in Spaces : \A q \in DOMAIN pageTable'[r] : ~Valid(r, q)' => ~pageTable'[r][q].dirty
    BY <1>2, <1>7 DEF FramesOK
  <2>4. \A j \in DOMAIN chain' : \A r, q : r = chain'[j].space /\ q = chain'[j].vpn =>
           Valid(r, q)' /\ Frame(r, q)' = chain'[j].frame
    <3> SUFFICES ASSUME NEW j \in DOMAIN chain', NEW r, NEW q,
                        r = chain'[j].space /\ q = chain'[j].vpn
                 PROVE  Valid(r, q)' /\ Frame(r, q)' = chain'[j].frame
      OBVIOUS
    <3>1. CASE j \in DOMAIN chain
      <4>1. chain'[j] = chain[j]
        BY <1>11, <3>1
      <4>2. Valid(r, q) /\ Frame(r, q) = chain'[j].frame /\ r \in Spaces /\ q \in DOMAIN pageTable[r]
        BY <3>1, <4>1, <1>2, ChainPages DEF FramesOK
      <4>3. r # s \/ q # p
        BY <3>1, <4>1, <1>13
      <4> QED BY <1>7, <4>2, <4>3
    <3>2. CASE j \notin DOMAIN chain
      <4>1. r = s /\ q = p /\ chain'[j].frame = f
        BY <1>11, <1>12, <3>2
      <4> QED BY <1>1, <1>7, <4>1
    <3> QED BY <3>1, <3>2
  <2>5. \A j, k \in DOMAIN chain' :
           chain'[j].space = chain'[k].space /\ chain'[j].vpn = chain'[k].vpn => j = k
    <3> SUFFICES ASSUME NEW j \in DOMAIN chain', NEW k \in DOMAIN chain',
                        chain'[j].space = chain'[k].space, chain'[j].vpn = chain'[k].vpn
                 PROVE  j = k
      OBVIOUS
    <3>1. CASE j \in DOMAIN chain /\ k \in DOMAIN chain
      BY <1>2, <1>11, <3>1 DEF FramesOK
    <3>2. CASE j \notin DOMAIN chain /\ k \notin DOMAIN chain
      BY <1>11, <3>2
    <3>3. CASE j \in DOMAIN chain /\ k \notin DOMAIN chain
      BY <1>11, <1>12, <1>13, <3>3
    <3>4. CASE j \notin DOMAIN chain /\ k \in DOMAIN chain
      BY <1>11, <1>12, <1>13, <3>4
    <3> QED BY <3>1, <3>2, <3>3, <3>4
  <2> QED BY <2>1, <2>2, <2>3, <2>4, <2>5, FramesOKAfter
<1>15. CleanOK'
  <2> SUFFICES ASSUME NEW r \in Spaces, NEW q \in ProgramPages[r], Valid(r, q)',
                      ~pageTable'[r][q].dirty
               PROVE  mainMemory'[Frame(r, q)'] = Loaded(r, q)'
    BY DEF CleanOK
  <2>1. q \in DOMAIN pageTable[r] /\ mainMemory \in [Frames -> Contents]
    BY DEF Types, TableOK
  <2>2. Loaded(r, q)' = Loaded(r, q)
    BY <1>1 DEF Loaded
  <2>3. CASE r = s /\ q = p
    <3>1. Frame(r, q)' = f
      BY <1>7, <2>1, <2>3
    <3>2. mainMemory'[f] = Loaded(s, p)
      BY <1>1, <2>1
    <3> QED BY <2>2, <2>3, <3>1, <3>2
  <2>4. CASE r # s \/ q # p
    <3>1. Valid(r, q) /\ Frame(r, q)' = Frame(r, q) /\ ~pageTable[r][q].dirty
      BY <1>7, <2>1, <2>4
    <3>2. Frame(r, q) # f
      BY <1>6, <2>1, <3>1 DEF Unowned
    <3>3. Frame(r, q) \in Frames
      BY <2>1, <3>1 DEF Types, TableOK, Valid, Frame
    <3>4. mainMemory'[Frame(r, q)] = mainMemory[Frame(r, q)]
      BY <1>1, <2>1, <3>2, <3>3
    <3> QED BY <1>2, <2>2, <3>1, <3>4 DEF CleanOK
  <2> QED BY <2>3, <2>4
<1>16. \A u \in Threads : at'[u].pc \in Outside
  BY <1>4, <1>5 DEF Outside
<1>17. \A u \in Threads : KernelOwns(u)'
  BY <1>16 DEF KernelOwns, Outside
<1>18. CountOK'
  <2>1. Taken(t) = 1 /\ size \in Int /\ NONE \notin Threads
    BY <1>1, TypesNumbers, VirtualMemoryAssumption DEF Taken
  <2> QED BY <1>1, <1>2, <1>3, <1>7, <1>8, <1>16, <2>1 DEF CountOK, Outside
<1>19. Complete'
  <2> SUFFICES ASSUME LRU = 0
               PROVE  /\ ~tailLost' /\ size' = Len(chain')
                      /\ \A r \in Spaces : \A q \in ProgramPages[r] :
                            Valid(r, q)' => \E j \in DOMAIN chain' :
                                               chain'[j].space = r /\ chain'[j].vpn = q
    BY <1>1 DEF Complete, settings
  <2>1. /\ ~tailLost /\ size = Len(chain)
        /\ \A r \in Spaces : \A q \in ProgramPages[r] :
              Valid(r, q) => \E j \in DOMAIN chain : chain[j].space = r /\ chain[j].vpn = q
    BY <1>2 DEF Complete
  <2>2. chain' = Append(chain, c) /\ ~tailLost' /\ size' = Len(chain')
    BY <1>8, <1>9, <1>10, <2>1
  <2>3. ASSUME NEW r \in Spaces, NEW q \in ProgramPages[r], Valid(r, q)'
        PROVE  \E j \in DOMAIN chain' : chain'[j].space = r /\ chain'[j].vpn = q
    <3>1. q \in DOMAIN pageTable[r]
      BY DEF Types, TableOK
    <3>2. CASE r = s /\ q = p
      <4>1. Len(chain) + 1 \in DOMAIN chain' /\ Len(chain) + 1 \notin DOMAIN chain
        BY SMT, <1>9, <1>10, <2>2
      <4> QED BY <3>2, <4>1, <1>11, <1>12
    <3>3. CASE r # s \/ q # p
      <4>1. PICK j \in DOMAIN chain : chain[j].space = r /\ chain[j].vpn = q
        <5>1. Valid(r, q)
          BY <1>7, <2>3, <3>1, <3>3
        <5> QED BY <2>1, <5>1
      <4>2. j \in DOMAIN chain'
        BY SMT, <1>9, <1>10, <2>2
      <4> QED BY <1>11, <4>1, <4>2
    <3> QED BY <3>2, <3>3
  <2> QED BY <2>2, <2>3
<1> QED BY <1>5, <1>14, <1>15, <1>17, <1>18, <1>19 DEF Undisturbed

(* allocateThreadSpace adds pages to space s, whose frames are those that  *)
(* the thread has taken.                                                   *)
Maps(t, s, n, frames) ==
    /\ at[t].pc = "map" /\ fault = "none" /\ kernel \in {t, NONE} /\ frames = at[t].frames
    /\ s = SpaceOf[t] /\ s \in Spaces /\ n \in Nat /\ DOMAIN pageTable[s] = 0..(n - 1)
    /\ frames \in Seq(Frames) /\ DOMAIN frames = 1..Len(frames)
    /\ \A r \in Spaces : r # s => pageTable'[r] = pageTable[r]
    /\ DOMAIN pageTable'[s] = 0..(n + StackPages - 1)
    /\ DOMAIN pageTable[s] \subseteq DOMAIN pageTable'[s]
    /\ \A p \in DOMAIN pageTable[s] : pageTable'[s][p] = pageTable[s][p]
    /\ \A p \in DOMAIN pageTable'[s] \ DOMAIN pageTable[s] :
          p - n + 1 \in DOMAIN frames /\ pageTable'[s][p] = StackEntry(frames[p - n + 1])
    /\ DOMAIN pageTable'[s] # ProgramPages[s]
    /\ mainMemory' = [f \in Frames |-> IF \E i \in DOMAIN frames : frames[i] = f
                                       THEN Zero ELSE mainMemory[f]]
    /\ at' = [at EXCEPT ![t] = User] /\ kernel' = NONE
    /\ UNCHANGED <<LRU, switches, pages, holder, coreMap, stored, file, writes, fault>>

LEMMA MapsOne ==
    ASSUME Types, NEW t \in Threads, MapStack(t), at[t].newTable = pageTable[SpaceOf[t]]
    PROVE  \E s, n, frames : Maps(t, s, n, frames)
<1>1. PICK s, n, frames, old : /\ s = SpaceOf[t] /\ frames = at[t].frames
                               /\ old = pageTable[s] /\ n = Cardinality(DOMAIN old)
  OBVIOUS
<1> DEFINE new == [p \in 0..(n + StackPages - 1) |->
                     IF p < n THEN old[p] ELSE StackEntry(frames[p - n + 1])]
<1>2. /\ at[t].pc = "map" /\ fault = "none" /\ kernel \in {t, NONE}
      /\ pageTable' = [pageTable EXCEPT ![s] = new]
      /\ mainMemory' = [f \in Frames |-> IF \E i \in DOMAIN frames : frames[i] = f
                                         THEN Zero ELSE mainMemory[f]]
      /\ at' = [at EXCEPT ![t] = User] /\ kernel' = NONE
      /\ UNCHANGED <<LRU, switches, pages, holder, coreMap, stored, file, writes, fault>>
  BY <1>1 DEF MapStack, Runs
<1>3. AtOK(at[t], SpaceOf[t]) /\ SpaceOf[t] \in Spaces
  BY VirtualMemoryAssumption DEF Types
<1>4. /\ at[t] \in [pc : {"stack", "map"}, child : Forked, frames : Seq(Frames),
                    newTable : {at[t].newTable}]
      /\ Len(at[t].frames) = StackPages
  BY <1>2, <1>3, AtFields
<1>5. frames \in Seq(Frames) /\ Len(frames) = StackPages /\ s \in Spaces
  BY <1>1, <1>3, <1>4
<1>6. TableOK(old, s)
  BY <1>1, <1>5 DEF Types
<1>7. /\ n \in Nat /\ DOMAIN old = 0..(n - 1) /\ DOMAIN new = 0..(n + StackPages - 1)
      /\ \A p \in DOMAIN old : p \in DOMAIN new /\ new[p] = old[p]
      /\ \A p \in DOMAIN new \ DOMAIN old :
           p - n + 1 \in 1..Len(frames) /\ new[p] = StackEntry(frames[p - n + 1])
      /\ DOMAIN new # ProgramPages[s]
  <2>1. IsGrown(new, old, n, frames)
    BY <1>1 DEF IsGrown
  <2> HIDE DEF new
  <2> QED BY SMT, <2>1, <1>5, <1>6, GrownTable
<1> HIDE DEF new
<1>8. pageTable'[s] = new /\ \A r \in Spaces : r # s => pageTable'[r] = pageTable[r]
  BY <1>2, <1>5 DEF Types
<1>9. DOMAIN frames = 1..Len(frames)
  BY SMT, <1>5
<1>10. Maps(t, s, n, frames)
  BY ZenonT(30), <1>1, <1>2, <1>5, <1>7, <1>8, <1>9 DEF Maps
<1> QED BY <1>10

LEMMA MapUndisturbed ==
    ASSUME Types, Undisturbed, NEW t \in Threads, NEW s, NEW n, NEW frames,
           Maps(t, s, n, frames)
    PROVE  Undisturbed'
<1>1. /\ at[t].pc = "map" /\ fault = "none" /\ kernel \in {t, NONE} /\ frames = at[t].frames
      /\ s = SpaceOf[t] /\ s \in Spaces /\ n \in Nat
      /\ frames \in Seq(Frames) /\ DOMAIN frames = 1..Len(frames)
      /\ mainMemory' = [f \in Frames |-> IF \E i \in DOMAIN frames : frames[i] = f
                                         THEN Zero ELSE mainMemory[f]]
      /\ at' = [at EXCEPT ![t] = User] /\ kernel' = NONE
      /\ UNCHANGED <<LRU, switches, pages, holder, chain, tailLost, size, stored, file, writes, fault>>
  BY DEF Maps, coreMap
<1>2. Alone /\ FramesOK /\ CleanOK /\ CountOK /\ Complete /\ KernelOwns(t)
  BY DEF Undisturbed
<1>3. kernel = t /\ holder = NONE
  BY <1>1, <1>2 DEF Alone, Outside
<1>4. at'[t].pc = "user" /\ \A u \in Threads : u # t => at'[u] = at[u]
  <2>1. at'[t] = User /\ \A u \in Threads : u # t => at'[u] = at[u]
    BY <1>1, AtOthers
  <2> QED BY SMT, <2>1 DEF User
<1>5. Alone' /\ \A u \in Threads : u # t => at[u].pc \in Outside /\ at'[u].pc \in Outside
  BY <1>1, <1>2, <1>3, <1>4, AloneStep DEF Outside
<1>6. /\ \A i \in DOMAIN frames : frames[i] \in pages /\ Unowned(frames[i])
      /\ \A i, j \in DOMAIN frames : frames[i] = frames[j] => i = j
  BY <1>1, <1>2 DEF KernelOwns
(* Pages that were there are as they were; the others are in the frames.   *)
<1>7. \A r \in Spaces : \A q \in DOMAIN pageTable[r] :
         /\ q \in DOMAIN pageTable'[r] /\ pageTable'[r][q] = pageTable[r][q]
         /\ Valid(r, q)' <=> Valid(r, q)
         /\ Frame(r, q)' = Frame(r, q)
  <2>1. \A r \in Spaces : \A q \in DOMAIN pageTable[r] :
           q \in DOMAIN pageTable'[r] /\ pageTable'[r][q] = pageTable[r][q]
    BY DEF Maps
  <2> QED BY <2>1 DEF Valid, Frame
<1>8. \A r \in Spaces : \A q \in DOMAIN pageTable'[r] :
         q \notin DOMAIN pageTable[r] =>
           /\ r = s /\ q - n + 1 \in DOMAIN frames /\ Valid(r, q)'
           /\ Frame(r, q)' = frames[q - n + 1] /\ q \in Int
  <2> SUFFICES ASSUME NEW r \in Spaces, NEW q \in DOMAIN pageTable'[r], q \notin DOMAIN pageTable[r]
               PROVE  /\ r = s /\ q - n + 1 \in DOMAIN frames /\ Valid(r, q)'
                      /\ Frame(r, q)' = frames[q - n + 1] /\ q \in Int
    OBVIOUS
  <2>1. r = s
    BY DEF Maps
  <2>2. /\ q - n + 1 \in DOMAIN frames /\ pageTable'[r][q] = StackEntry(frames[q - n + 1])
        /\ q \in 0..(n + StackPages - 1)
    BY <2>1 DEF Maps
  <2>3. pageTable'[r][q].valid /\ pageTable'[r][q].physicalPage = frames[q - n + 1]
    BY SMT, <2>2 DEF StackEntry
  <2> QED BY SMT, <2>1, <2>2, <2>3 DEF Valid, Frame
<1>9. \A r \in Spaces : \A q \in DOMAIN pageTable'[r] : Valid(r, q)' =>
         \/ q \in DOMAIN pageTable[r] /\ Valid(r, q) /\ Frame(r, q)' = Frame(r, q)
         \/ /\ r = s /\ q - n + 1 \in DOMAIN frames /\ q \in Int
            /\ Frame(r, q)' = frames[q - n + 1]
  BY <1>7, <1>8
<1>10. Grown'
  BY <1>1 DEF Grown, Maps
<1>11. FramesOK'
  <2>1. ASSUME NEW r \in Spaces, NEW z \in Spaces, NEW q \in DOMAIN pageTable'[r],
               NEW x \in DOMAIN pageTable'[z],
               Valid(r, q)' /\ Valid(z, x)' /\ Frame(r, q)' = Frame(z, x)'
        PROVE  r = z /\ q = x
    <3>1. CASE q \in DOMAIN pageTable[r] /\ x \in DOMAIN pageTable[z]
      <4>1. Valid(r, q) /\ Valid(z, x) /\ Frame(r, q) = Frame(z, x)
        BY <1>7, <2>1, <3>1
      <4> QED BY <1>2, <3>1, <4>1 DEF FramesOK
    <3>2. CASE q \notin DOMAIN pageTable[r] /\ x \notin DOMAIN pageTable[z]
      <4>1. /\ r = s /\ q - n + 1 \in DOMAIN frames /\ Frame(r, q)' = frames[q - n + 1] /\ q \in Int
            /\ z = s /\ x - n + 1 \in DOMAIN frames /\ Frame(z, x)' = frames[x - n + 1] /\ x \in Int
        BY <1>8, <3>2
      <4>2. q - n + 1 = x - n + 1
        BY <1>6, <2>1, <4>1
      <4>3. q = x
        <5>1. n \in Nat /\ q \in Int /\ x \in Int
          BY <1>1, <4>1
        <5> QED BY SMT, <4>2, <5>1
      <4> QED BY <4>1, <4>3
    <3>3. CASE q \in DOMAIN pageTable[r] /\ x \notin DOMAIN pageTable[z]
      <4>1. Valid(r, q) /\ Frame(r, q)' = Frame(r, q)
        BY <1>7, <2>1, <3>3
      <4>2. x - n + 1 \in DOMAIN frames /\ Frame(z, x)' = frames[x - n + 1]
        BY <1>8, <3>3
      <4> QED BY <1>6, <2>1, <3>3, <4>1, <4>2 DEF Unowned
    <3>4. CASE q \notin DOMAIN pageTable[r] /\ x \in DOMAIN pageTable[z]
      <4>1. Valid(z, x) /\ Frame(z, x)' = Frame(z, x)
        BY <1>7, <2>1, <3>4
      <4>2. q - n + 1 \in DOMAIN frames /\ Frame(r, q)' = frames[q - n + 1]
        BY <1>8, <3>4
      <4> QED BY <1>6, <2>1, <3>4, <4>1, <4>2 DEF Unowned
    <3> QED BY <3>1, <3>2, <3>3, <3>4
  <2>2. \A r \in Spaces : \A q \in DOMAIN pageTable'[r] : Valid(r, q)' => Frame(r, q)' \in pages'
    <3> SUFFICES ASSUME NEW r \in Spaces, NEW q \in DOMAIN pageTable'[r], Valid(r, q)'
                 PROVE  Frame(r, q)' \in pages
      BY <1>1
    <3>1. CASE q \in DOMAIN pageTable[r]
      <4>1. Valid(r, q) /\ Frame(r, q)' = Frame(r, q)
        BY <1>7, <3>1
      <4> QED BY <1>2, <3>1, <4>1, FrameInPages
    <3>2. CASE q \notin DOMAIN pageTable[r]
      BY <1>6, <1>8, <3>2
    <3> QED BY <3>1, <3>2
  <2>3. \A r \in Spaces : \A q \in DOMAIN pageTable'[r] : ~Valid(r, q)' => ~pageTable'[r][q].dirty
    BY <1>2, <1>7, <1>8 DEF FramesOK
  <2>4. \A j \in DOMAIN chain : \A r, q : r = chain[j].space /\ q = chain[j].vpn =>
           Valid(r, q)' /\ Frame(r, q)' = chain[j].frame
    <3> SUFFICES ASSUME NEW j \in DOMAIN chain, NEW r, NEW q,
                        r = chain[j].space /\ q = chain[j].vpn
                 PROVE  Valid(r, q)' /\ Frame(r, q)' = chain[j].frame
      OBVIOUS
    <3>1. Valid(r, q) /\ Frame(r, q) = chain[j].frame /\ r \in Spaces /\ q \in DOMAIN pageTable[r]
      BY <1>2, ChainPages DEF FramesOK
    <3> QED BY <1>7, <3>1
  <2>5. \A j, k \in DOMAIN chain :
           chain[j].space = chain[k].space /\ chain[j].vpn = chain[k].vpn => j = k
    BY <1>2 DEF FramesOK
  <2>6. chain' = chain
    BY <1>1
  <2> QED BY <2>1, <2>2, <2>3, <2>4, <2>5, <2>6, FramesOKAfter
<1>12. CleanOK'
  <2> SUFFICES ASSUME NEW r \in Spaces, NEW q \in ProgramPages[r], Valid(r, q)',
                      ~pageTable'[r][q].dirty
               PROVE  mainMemory'[Frame(r, q)'] = Loaded(r, q)'
    BY DEF CleanOK
  <2>1. q \in DOMAIN pageTable[r]
    BY DEF Types, TableOK
  <2>2. Loaded(r, q)' = Loaded(r, q)
    BY <1>1 DEF Loaded
  <2>3. Valid(r, q) /\ Frame(r, q)' = Frame(r, q) /\ ~pageTable[r][q].dirty
    BY <1>7, <2>1
  <2>4. Frame(r, q) \in Frames
    BY <2>1, <2>3 DEF Types, TableOK, Valid, Frame
  <2>5. \A i \in DOMAIN frames : frames[i] # Frame(r, q)
    BY <1>6, <2>1, <2>3 DEF Unowned
  <2>6. mainMemory'[Frame(r, q)] = mainMemory[Frame(r, q)]
    BY <1>1, <2>4, <2>5
  <2> QED BY <1>2, <2>2, <2>3, <2>6 DEF CleanOK
<1>13. \A u \in Threads : at'[u].pc \in Outside
  BY <1>4, <1>5 DEF Outside
<1>14. \A u \in Threads : KernelOwns(u)'
  BY <1>13 DEF KernelOwns, Outside
<1>15. CountOK'
  BY <1>10 DEF CountOK
<1>16. Complete'
  <2>1. \A r \in Spaces : \A q \in ProgramPages[r] : Valid(r, q)' => Valid(r, q)
    BY <1>7 DEF Types, TableOK
  <2>2. LRU' = LRU /\ tailLost' = tailLost /\ size' = size /\ chain' = chain
    BY <1>1
  <2>3. LRU = 0 =>
           /\ ~tailLost /\ size = Len(chain)
           /\ \A r \in Spaces : \A q \in ProgramPages[r] :
                 Valid(r, q)' => \E i \in DOMAIN chain : chain[i].space = r /\ chain[i].vpn = q
    BY <1>2, <2>1 DEF Complete
  <2> QED BY SMT, <2>2, <2>3 DEF Complete
<1> QED BY <1>5, <1>11, <1>12, <1>14, <1>15, <1>16 DEF Undisturbed

-----------------------------------------------------------------------------
(* A page fault, whether or not the core map is full.                      *)
LEMMA FaultUndisturbed ==
    ASSUME Types, Undisturbed, NEW t \in Threads, NEW p \in DOMAIN pageTable[SpaceOf[t]],
           NEW writing \in BOOLEAN, Access(t, p, writing), ~pageTable[SpaceOf[t]][p].valid
    PROVE  Undisturbed'
<1>1. /\ kernel = NONE /\ fault = "none" /\ PageFault(t, p)
      /\ UNCHANGED <<settings, pages, writes>>
  BY DEF Access, InUser
<1>2. ~Valid(SpaceOf[t], p)
  BY DEF Valid
<1>3. CASE size < NumPhysPages
  BY <1>1, <1>2, <1>3, MissUndisturbed
<1>4. CASE ~(size < NumPhysPages)
  <2>1. PICK i, c : Evicts(t, p, i, c)
    BY <1>1, <1>4, EvictsOne
  <2> QED BY <1>1, <1>2, <2>1, EvictUndisturbed
<1> QED BY <1>3, <1>4

LEMMA InitUndisturbed ==
    ASSUME Init
    PROVE  Undisturbed
<1>1. /\ \A s \in Spaces : DOMAIN pageTable[s] = ProgramPages[s]
      /\ \A s \in Spaces : \A p \in DOMAIN pageTable[s] : pageTable[s][p] = NoEntry
  BY DEF Init
<1>2. \A s \in Spaces : \A p \in DOMAIN pageTable[s] : ~Valid(s, p) /\ ~pageTable[s][p].dirty
  BY SMT, <1>1 DEF Valid, NoEntry
<1>3. /\ chain = <<>> /\ tailLost = FALSE /\ size = 0 /\ pages = {} /\ holder = NONE
      /\ kernel = NONE /\ fault = "none" /\ \A t \in Threads : at[t].pc = "user"
  BY DEF Init, User
<1>4. Alone /\ FramesOK /\ CleanOK
  <2>1. DOMAIN chain = {}
    BY SMT, <1>3
  <2>2. \A s \in Spaces : \A p \in ProgramPages[s] : ~Valid(s, p)
    BY <1>1, <1>2
  <2> QED BY <1>2, <1>3, <2>1, <2>2 DEF Alone, FramesOK, CleanOK, Outside
<1>5. CountOK
  <2>1. Cardinality({}) = 0
    BY FS_EmptySet
  <2> QED BY <1>3, <2>1 DEF CountOK
<1>6. Complete
  <2>1. Len(chain) = 0
    BY <1>3
  <2> QED BY <1>1, <1>2, <1>3, <2>1 DEF Complete
<1>7. \A t \in Threads : KernelOwns(t)
  BY <1>3 DEF KernelOwns
<1> QED BY <1>4, <1>5, <1>6, <1>7 DEF Undisturbed

(* The inductive invariant is one.                                         *)
LEMMA Invariance == Spec => []IInv
<1>1. Init => IInv
  BY TypesInit, InitUndisturbed DEF IInv
<1>2. IInv /\ [Next]_vars => IInv'
  <2> SUFFICES ASSUME Types, switches = 0 => Undisturbed, [Next]_vars, switches' = 0
               PROVE  Undisturbed'
    BY TypesStep DEF IInv
  <2>1. CASE UNCHANGED vars
    <3>1. Undisturbed
      BY <2>1 DEF vars
    <3>2. Alone' /\ CountOK'
      BY <2>1, <3>1 DEF vars, Undisturbed, Alone, CountOK, Grown, Taken
    <3>3. UNCHANGED <<LRU, memory, coreMap>> /\ UNCHANGED <<pageTable, size, pages, at>>
      BY <2>1 DEF vars, memory, coreMap
    <3>4. FramesOK' /\ CleanOK' /\ Complete' /\ \A f : Unowned(f)' = Unowned(f)
      BY <3>1, <3>3, SameMemory, SameMemoryFrames DEF Undisturbed
    <3>5. \A u \in Threads : KernelOwns(u)'
      BY <3>1, <3>3, <3>4 DEF Undisturbed, KernelOwns, Valid
    <3> QED BY <3>2, <3>4, <3>5 DEF Undisturbed
  <2>2. CASE Preempt
    <3>1. switches \in Nat /\ switches' = switches + 1
      BY <2>2 DEF Preempt, Types
    <3> QED BY SMT, <3>1
  <2>3. ASSUME NEW t \in Threads,
               \/ \E p \in DOMAIN pageTable[SpaceOf[t]], writing \in BOOLEAN : Access(t, p, writing)
               \/ \E child \in Forked : Fork(t, child)
               \/ Exit(t)
               \/ KernelStep(t)
        PROVE  Undisturbed'
    <3>1. Undisturbed
      <4>1. UNCHANGED switches
        BY <2>3 DEF Access, Fork, Exit, KernelStep, TryAgain, FreePage, AllocPage,
           allocVirtualPage, AllocStackPage, MapStack, settings
      <4> QED BY <4>1
    <3>2. ASSUME NEW p \in DOMAIN pageTable[SpaceOf[t]], NEW writing \in BOOLEAN,
                 Access(t, p, writing)
          PROVE  Undisturbed'
      BY <3>1, <3>2, HitUndisturbed, FaultUndisturbed
    <3>3. ASSUME NEW child \in Forked, Fork(t, child) PROVE Undisturbed'
      BY <3>1, <3>3, ForkUndisturbed
    <3>4. CASE Exit(t)
      BY <3>1, <3>4, ExitUndisturbed
    <3>5. CASE TryAgain(t)
      BY <3>1, <3>5, TryAgainUndisturbed
    <3>6. CASE FreePage(t)
      BY <3>1, <3>6, FreePageUndisturbed
    <3>7. CASE AllocPage(t)
      BY <3>1, <3>7, AllocPageUndisturbed
    <3>8. CASE allocVirtualPage(t)
      BY <3>1, <3>8, NoFrameUndisturbed, LoadsOne, LoadUndisturbed
    <3>9. CASE AllocStackPage(t)
      BY <3>1, <3>9, AllocStackPageUndisturbed
    <3>10. CASE MapStack(t)
      <4>1. at[t].newTable = pageTable[SpaceOf[t]]
        BY <3>1, <3>10 DEF MapStack, Undisturbed, KernelOwns
      <4> QED BY <3>1, <3>10, <4>1, MapsOne, MapUndisturbed
    <3> QED BY <2>3, <3>2, <3>3, <3>4, <3>5, <3>6, <3>7, <3>8, <3>9, <3>10 DEF KernelStep
  <2> QED BY <2>1, <2>2, <2>3 DEF Next
<1> QED BY <1>1, <1>2, PTL DEF Spec

(* No frame holds two valid pages, and without -e the core map lists the   *)
(* pages of programs that are in memory, with their frames, and no other,  *)
(* as long as the timer has not struck inside the kernel.                  *)
THEOREM FramesAreAccountedFor == Spec => []FramesAccountedFor
<1>1. IInv => FramesAccountedFor
  <2> SUFFICES ASSUME Types, switches = 0 => Undisturbed
               PROVE  FramesAccountedFor
    BY DEF IInv
  <2>1. TypeOK
    <3>1. \A s \in Spaces : \A p \in DOMAIN pageTable[s] : pageTable[s][p] \in Entries
      BY DEF Types, TableOK
    <3> QED BY <3>1 DEF Types, TypeOK, Entries
  <2>2. FrameOwnedOnce
    BY SMT DEF FrameOwnedOnce, Undisturbed, FramesOK, Valid, Frame
  <2>3. CoreMapComplete
    <3> SUFFICES ASSUME Undisturbed, LRU = 0
                 PROVE  /\ size = Len(chain)
                        /\ {<<chain[i].space, chain[i].vpn, chain[i].frame>> : i \in DOMAIN chain}
                             = UNION {{<<s, p, pageTable[s][p].physicalPage>> :
                                         p \in {q \in ProgramPages[s] : pageTable[s][q].valid}} :
                                      s \in Spaces}
      BY DEF CoreMapComplete
    <3> DEFINE A == {<<chain[i].space, chain[i].vpn, chain[i].frame>> : i \in DOMAIN chain}
               Of(s) == {<<s, p, pageTable[s][p].physicalPage>> :
                           p \in {q \in ProgramPages[s] : pageTable[s][q].valid}}
               B == UNION {Of(s) : s \in Spaces}
    <3>1. size = Len(chain) /\ \A s \in Spaces : \A p \in ProgramPages[s] :
             Valid(s, p) => \E i \in DOMAIN chain : chain[i].space = s /\ chain[i].vpn = p
      BY DEF Undisturbed, Complete
    <3>2. \A i \in DOMAIN chain :
             /\ chain[i].space \in Spaces /\ chain[i].vpn \in ProgramPages[chain[i].space]
             /\ pageTable[chain[i].space][chain[i].vpn].valid
             /\ pageTable[chain[i].space][chain[i].vpn].physicalPage = chain[i].frame
      BY ChainPages DEF Undisturbed, FramesOK, Valid, Frame
    <3>3. ASSUME NEW x \in A PROVE x \in B
      <4>1. PICK i \in DOMAIN chain : x = <<chain[i].space, chain[i].vpn, chain[i].frame>>
        OBVIOUS
      <4>2. PICK s, p :
               /\ s \in Spaces /\ p \in ProgramPages[s]
               /\ s = chain[i].space /\ p = chain[i].vpn /\ pageTable[s][p].valid
               /\ pageTable[s][p].physicalPage = chain[i].frame
        BY <3>2
      <4>3. x = <<s, p, pageTable[s][p].physicalPage>>
        BY <4>1, <4>2
      <4>4. x \in Of(s)
        BY <4>2, <4>3
      <4> HIDE DEF Of
      <4> QED BY <4>2, <4>4
    <3>4. ASSUME NEW x \in B PROVE x \in A
      <4>1. PICK s \in Spaces : x \in Of(s)
        OBVIOUS
      <4>2. PICK p \in ProgramPages[s] :
               pageTable[s][p].valid /\ x = <<s, p, pageTable[s][p].physicalPage>>
        BY <4>1
      <4>3. Valid(s, p)
        BY <4>2 DEF Valid, Types, TableOK
      <4>4. PICK i \in DOMAIN chain : chain[i].space = s /\ chain[i].vpn = p
        BY <3>1, <4>3
      <4>5. chain[i].frame = pageTable[s][p].physicalPage
        BY <3>2, <4>4
      <4>6. x = <<chain[i].space, chain[i].vpn, chain[i].frame>>
        BY <4>2, <4>4, <4>5
      <4> QED BY <4>6
    <3>5. A = B
      <4> HIDE DEF A, B
      <4> QED BY <3>3, <3>4
    <3> QED BY <3>1, <3>5
  <2> QED BY <2>1, <2>2, <2>3 DEF FramesAccountedFor
<1> QED BY <1>1, Invariance, PTL

(* A full core map always has a CorePage to evict, and the handler of a    *)
(* page fault finds a frame, unless the timer has struck inside it or a    *)
(* Fork has taken frames.                                                  *)
THEOREM AFrameIsFound == Spec => []FrameAlwaysFound
<1>1. IInv => FrameAlwaysFound
  <2> SUFFICES ASSUME Types, switches = 0 => Undisturbed
               PROVE  FrameAlwaysFound
    BY DEF IInv
  <2>1. AlwaysAVictim
    BY DEF Types, AlwaysAVictim
  <2>2. FrameAfterEviction
    <3>1. switches \in Nat
      BY DEF Types
    <3>2. switches = 0 \/ switches > 0
      BY SMT, <3>1
    <3> QED BY <3>2 DEF Undisturbed, CountOK, Grown, FrameAfterEviction, AnyFork
  <2> QED BY <2>1, <2>2 DEF FrameAlwaysFound
<1> QED BY <1>1, Invariance, PTL

-----------------------------------------------------------------------------
(* Virtual memory is the abstract memory.                                  *)
LEMMA SeesPage ==
    ASSUME NEW r \in Spaces, NEW q \in DOMAIN pageTable[r]
    PROVE  Sees(r, q) = IF Valid(r, q) THEN mainMemory[Frame(r, q)] ELSE Loaded(r, q)
  BY DEF Sees, Valid, Frame

LEMMA SeesPageAfter ==
    ASSUME NEW r \in Spaces, NEW q \in DOMAIN pageTable'[r]
    PROVE  Sees(r, q)' = IF Valid(r, q)' THEN mainMemory'[Frame(r, q)'] ELSE Loaded(r, q)'
  BY DEF Sees, Valid, Frame

LEMMA SameView ==
    ASSUME \A r \in Spaces : DOMAIN pageTable'[r] = DOMAIN pageTable[r],
           \A r \in Spaces : \A q \in DOMAIN pageTable[r] : Sees(r, q)' = Sees(r, q)
    PROVE  View' = View
  BY DEF View

LEMMA MemoryUnchanged ==
    ASSUME UNCHANGED memory
    PROVE  View' = View
<1>1. UNCHANGED <<pageTable, mainMemory, stored, file>>
  BY DEF memory
<1> QED BY <1>1 DEF View, Sees, Loaded

(* Only pages of the program are ever not in memory.                       *)
LEMMA InvalidPages ==
    ASSUME Types, NEW r \in Spaces, NEW q \in DOMAIN pageTable[r], ~Valid(r, q)
    PROVE  q \in ProgramPages[r]
  BY DEF Types, TableOK, Valid

(* Evicting a page, whether it is written back or not, changes nothing     *)
(* that programs see.                                                      *)
LEMMA EvictView ==
    ASSUME Types, Undisturbed, NEW t, NEW p, NEW i, NEW c, Evicts(t, p, i, c)
    PROVE  View' = View
<1> DEFINE s0 == c.space
           p0 == c.vpn
<1>1. /\ UNCHANGED mainMemory /\ s0 \in Spaces /\ p0 \in ProgramPages[s0] /\ p0 \in DOMAIN pageTable[s0]
      /\ i \in DOMAIN chain /\ c = chain[i]
      /\ Repaged(s0, p0, Frame(s0, p0), FALSE, FALSE)
  BY DEF Evicts
<1>2. /\ \A r \in Spaces : DOMAIN pageTable'[r] = DOMAIN pageTable[r]
      /\ \A r \in Spaces : \A q \in DOMAIN pageTable[r] :
            /\ Valid(r, q)' <=> Valid(r, q) /\ (r # s0 \/ q # p0)
            /\ Frame(r, q)' = Frame(r, q)
  <2> HIDE DEF s0, p0
  <2> QED BY <1>1 DEF Repaged
<1>3. FramesOK /\ CleanOK
  BY DEF Undisturbed
<1>4. Valid(s0, p0)
  BY <1>1, <1>3 DEF FramesOK
<1>5. ASSUME NEW r \in Spaces, NEW q \in DOMAIN pageTable[r]
      PROVE  Sees(r, q)' = Sees(r, q)
  <2>1. /\ Sees(r, q) = IF Valid(r, q) THEN mainMemory[Frame(r, q)] ELSE Loaded(r, q)
        /\ Sees(r, q)' = IF Valid(r, q)' THEN mainMemory'[Frame(r, q)'] ELSE Loaded(r, q)'
    BY <1>2, SeesPage, SeesPageAfter
  <2>2. CASE r = s0 /\ q = p0
    <3>1. Loaded(r, q)' = IF pageTable[r][q].dirty THEN mainMemory[Frame(r, q)] ELSE Loaded(r, q)
      BY <1>1, <2>2, EvictsLoaded
    <3>2. ~pageTable[r][q].dirty => mainMemory[Frame(r, q)] = Loaded(r, q)
      BY <1>1, <1>3, <1>4, <2>2 DEF CleanOK
    <3>3. Valid(r, q) /\ ~Valid(r, q)'
      BY <1>2, <1>4, <2>2
    <3> QED BY <2>1, <3>1, <3>2, <3>3
  <2>3. CASE r # s0 \/ q # p0
    <3>1. ~Valid(r, q) => Loaded(r, q)' = Loaded(r, q)
      BY SMT, <1>1, <2>3, InvalidPages, EvictsLoaded
    <3>2. (Valid(r, q)' <=> Valid(r, q)) /\ Frame(r, q)' = Frame(r, q)
      BY <1>2, <2>3
    <3>3. mainMemory' = mainMemory
      BY <1>1
    <3>4. mainMemory'[Frame(r, q)'] = mainMemory[Frame(r, q)]
      BY <3>2, <3>3
    <3>5. CASE Valid(r, q)
      BY <2>1, <3>2, <3>4, <3>5
    <3>6. CASE ~Valid(r, q)
      BY <2>1, <3>1, <3>2, <3>6
    <3> QED BY <3>5, <3>6
  <2> QED BY <2>2, <2>3
<1> QED BY <1>2, <1>5, SameView

(* Loading a page changes nothing that programs see.                       *)
LEMMA LoadView ==
    ASSUME Types, Undisturbed, NEW t \in Threads, NEW s, NEW p, NEW f, Loads(t, s, p, f)
    PROVE  View' = View
<1>1. /\ at[t].pc = "load" /\ s = SpaceOf[t] /\ s \in Spaces /\ p = at[t].vpn /\ p \in ProgramPages[s]
      /\ p \in DOMAIN pageTable[s] /\ f = at[t].frame /\ f \in Frames /\ f # -1
      /\ mainMemory' = [mainMemory EXCEPT ![f] = Loaded(s, p)] /\ UNCHANGED <<stored, file>>
  BY DEF Loads
<1>2. ~Valid(s, p) /\ Unowned(f)
  BY <1>1 DEF Undisturbed, KernelOwns
<1>3. /\ \A r \in Spaces : DOMAIN pageTable'[r] = DOMAIN pageTable[r]
      /\ \A r \in Spaces : \A q \in DOMAIN pageTable[r] :
            /\ Valid(r, q)' <=> Valid(r, q) \/ (r = s /\ q = p)
            /\ r = s /\ q = p => Frame(r, q)' = f
            /\ r # s \/ q # p => Frame(r, q)' = Frame(r, q)
  BY SMT, LoadsPages
<1>4. ASSUME NEW r \in Spaces, NEW q \in DOMAIN pageTable[r]
      PROVE  Sees(r, q)' = Sees(r, q)
  <2>1. /\ Sees(r, q) = IF Valid(r, q) THEN mainMemory[Frame(r, q)] ELSE Loaded(r, q)
        /\ Sees(r, q)' = IF Valid(r, q)' THEN mainMemory'[Frame(r, q)'] ELSE Loaded(r, q)'
    BY <1>3, SeesPage, SeesPageAfter
  <2>2. mainMemory \in [Frames -> Contents] /\ Loaded(r, q)' = Loaded(r, q)
    BY <1>1 DEF Types, Loaded
  <2>3. CASE r = s /\ q = p
    BY <1>1, <1>2, <1>3, <2>1, <2>2, <2>3
  <2>4. CASE r # s \/ q # p
    <3>1. Valid(r, q) => Frame(r, q) # f /\ Frame(r, q) \in Frames
      BY <1>2 DEF Unowned, Types, TableOK, Valid, Frame
    <3>2. (Valid(r, q)' <=> Valid(r, q)) /\ Frame(r, q)' = Frame(r, q)
      BY <1>3, <2>4
    <3>3. Valid(r, q) => mainMemory'[Frame(r, q)] = mainMemory[Frame(r, q)]
      BY <1>1, <2>2, <3>1
    <3> QED BY <2>1, <2>2, <3>2, <3>3
  <2> QED BY <2>3, <2>4
<1> QED BY <1>3, <1>4, SameView

(* A read changes nothing that programs see, a write the page written.     *)
LEMMA HitView ==
    ASSUME Types, Undisturbed, NEW t \in Threads, NEW p \in DOMAIN pageTable[SpaceOf[t]],
           NEW writing \in BOOLEAN, Access(t, p, writing), pageTable[SpaceOf[t]][p].valid
    PROVE  (View' = View /\ writes' = writes) \/ M!MNext
<1>1. PICK s \in Spaces : s = SpaceOf[t]
  BY VirtualMemoryAssumption
<1>2. /\ \A r \in Spaces : DOMAIN pageTable'[r] = DOMAIN pageTable[r]
      /\ \A r \in Spaces : \A q \in DOMAIN pageTable[r] :
            (Valid(r, q)' <=> Valid(r, q)) /\ Frame(r, q)' = Frame(r, q)
  BY <1>1, HitPages
<1>3. /\ writes' = IF writing THEN writes + 1 ELSE writes
      /\ mainMemory' = IF writing THEN [mainMemory EXCEPT ![Frame(s, p)] = <<"data", writes'>>]
                       ELSE mainMemory
      /\ UNCHANGED <<stored, file>>
  BY <1>1 DEF Access, Frame
<1>4. /\ Valid(s, p) /\ FramesOK /\ mainMemory \in [Frames -> Contents]
      /\ p \in DOMAIN pageTable[s] /\ Frame(s, p) \in Frames
  BY <1>1 DEF Valid, Undisturbed, Types, TableOK, Frame
<1>5. ASSUME NEW r \in Spaces, NEW q \in DOMAIN pageTable[r]
      PROVE  Sees(r, q)' = IF writing /\ r = s /\ q = p THEN <<"data", writes'>> ELSE Sees(r, q)
  <2>1. /\ Sees(r, q) = IF Valid(r, q) THEN mainMemory[Frame(r, q)] ELSE Loaded(r, q)
        /\ Sees(r, q)' = IF Valid(r, q)' THEN mainMemory'[Frame(r, q)'] ELSE Loaded(r, q)'
    BY <1>2, SeesPage, SeesPageAfter
  <2>2. Loaded(r, q)' = Loaded(r, q)
    BY <1>3 DEF Loaded
  <2>3. Valid(r, q) /\ (r # s \/ q # p) => Frame(r, q) # Frame(s, p) /\ Frame(r, q) \in Frames
    <3>1. Valid(r, q) => Frame(r, q) \in Frames
      BY DEF Types, TableOK, Valid, Frame
    <3> QED BY <1>4, <3>1 DEF FramesOK
  <2>4. CASE r = s /\ q = p
    BY <1>2, <1>3, <1>4, <2>1, <2>4
  <2>5. CASE r # s \/ q # p
    BY <1>2, <1>3, <1>4, <2>1, <2>2, <2>3, <2>5
  <2> QED BY <2>4, <2>5
<1>6. CASE ~writing
  BY <1>2, <1>3, <1>5, <1>6, SameView
<1>7. CASE writing
  <2>1. View' = [View EXCEPT ![s][p] = <<"data", writes + 1>>]
    <3>1. View = [r \in Spaces |-> [q \in DOMAIN pageTable[r] |-> Sees(r, q)]]
      BY DEF View
    <3>2. View' = [r \in Spaces |-> [q \in DOMAIN pageTable[r] |-> Sees(r, q)']]
      BY <1>2 DEF View
    <3>3. \A r \in Spaces : \A q \in DOMAIN pageTable[r] :
             Sees(r, q)' = IF r = s /\ q = p THEN <<"data", writes + 1>> ELSE Sees(r, q)
      BY <1>3, <1>5, <1>7
    <3> QED BY <3>1, <3>2, <3>3
  <2>2. M!Write(s, p)
    BY <1>3, <1>7, <2>1 DEF M!Write
  <2>3. p \in DOMAIN View[s]
    BY <1>4 DEF View
  <2> QED BY <2>2, <2>3 DEF M!MNext
<1> QED BY <1>6, <1>7

(* Fork's new stack is new pages of zeroes, and nothing else.              *)
LEMMA MapView ==
    ASSUME Types, Undisturbed, NEW t \in Threads, NEW s, NEW n, NEW frames,
           Maps(t, s, n, frames)
    PROVE  M!MNext
<1>1. /\ at[t].pc = "map" /\ s \in Spaces /\ n \in Nat /\ DOMAIN pageTable[s] = 0..(n - 1)
      /\ DOMAIN pageTable'[s] = 0..(n + StackPages - 1) /\ frames = at[t].frames
      /\ frames \in Seq(Frames)
      /\ \A r \in Spaces : r # s => pageTable'[r] = pageTable[r]
      /\ \A q \in DOMAIN pageTable[s] : q \in DOMAIN pageTable'[s] /\ pageTable'[s][q] = pageTable[s][q]
      /\ \A q \in DOMAIN pageTable'[s] \ DOMAIN pageTable[s] :
            q - n + 1 \in DOMAIN frames /\ pageTable'[s][q] = StackEntry(frames[q - n + 1])
      /\ mainMemory' = [f \in Frames |-> IF \E i \in DOMAIN frames : frames[i] = f
                                         THEN Zero ELSE mainMemory[f]]
      /\ UNCHANGED <<stored, file, writes>>
  BY DEF Maps
<1>2. \A i \in DOMAIN frames : Unowned(frames[i])
  BY <1>1 DEF Undisturbed, KernelOwns
<1>3. ASSUME NEW r \in Spaces, NEW q \in DOMAIN pageTable[r]
      PROVE  Sees(r, q)' = Sees(r, q)
  <2>1. q \in DOMAIN pageTable'[r] /\ pageTable'[r][q] = pageTable[r][q]
    BY <1>1
  <2>2. /\ Sees(r, q) = IF Valid(r, q) THEN mainMemory[Frame(r, q)] ELSE Loaded(r, q)
        /\ Sees(r, q)' = IF Valid(r, q)' THEN mainMemory'[Frame(r, q)'] ELSE Loaded(r, q)'
    BY <2>1, SeesPage, SeesPageAfter
  <2>3. Loaded(r, q)' = Loaded(r, q)
    BY <1>1 DEF Loaded
  <2>4. (Valid(r, q)' <=> Valid(r, q)) /\ Frame(r, q)' = Frame(r, q)
    BY <2>1 DEF Valid, Frame
  <2>5. Valid(r, q) => /\ Frame(r, q) \in Frames
                       /\ \A i \in DOMAIN frames : frames[i] # Frame(r, q)
    BY <1>2 DEF Unowned, Types, TableOK, Valid, Frame
  <2>6. Valid(r, q) => mainMemory'[Frame(r, q)] = mainMemory[Frame(r, q)]
    BY <1>1, <2>5
  <2> QED BY <2>2, <2>3, <2>4, <2>6
<1>4. ASSUME NEW q \in DOMAIN pageTable'[s], q \notin DOMAIN pageTable[s]
      PROVE  Sees(s, q)' = Zero
  <2>1. q - n + 1 \in DOMAIN frames /\ pageTable'[s][q] = StackEntry(frames[q - n + 1])
    BY <1>1, <1>4
  <2>2. PICK i \in DOMAIN frames : pageTable'[s][q] = StackEntry(frames[i])
    BY <2>1
  <2>3. frames[i] \in Frames /\ mainMemory'[frames[i]] = Zero
    <3>1. frames[i] \in Frames
      <4>1. frames \in Seq(Frames)
        BY <1>1
      <4> QED BY SMT, <4>1
    <3>2. mainMemory' = [f \in Frames |-> IF \E j \in DOMAIN frames : frames[j] = f
                                          THEN Zero ELSE mainMemory[f]]
      BY <1>1
    <3> QED BY <3>1, <3>2
  <2>4. pageTable'[s][q].valid /\ pageTable'[s][q].physicalPage = frames[i]
    BY SMT, <2>2 DEF StackEntry
  <2> QED BY <2>3, <2>4 DEF Sees
<1>5. /\ View = [r \in Spaces |-> [q \in DOMAIN pageTable[r] |-> Sees(r, q)]]
      /\ View' = [r \in Spaces |-> [q \in DOMAIN pageTable'[r] |-> Sees(r, q)']]
  BY DEF View
<1>6. Cardinality(DOMAIN View[s]) = n
  <2>1. DOMAIN View[s] = 0..(n - 1)
    BY <1>1, <1>5
  <2>2. Cardinality(0..(n - 1)) = n
    <3>1. n \in Nat
      BY <1>1
    <3> QED BY <3>1, IntervalSize
  <2> QED BY <2>1, <2>2
<1> DEFINE grown == [q \in 0..(n + StackPages - 1) |-> IF q < n THEN View[s][q] ELSE Zero]
<1>a. /\ n \in Nat /\ StackPages \in Nat \ {0} /\ DOMAIN pageTable[s] = 0..(n - 1)
      /\ DOMAIN pageTable'[s] = 0..(n + StackPages - 1)
  BY <1>1, VirtualMemoryAssumption
<1>7. View'[s] = grown
  <2>1. View'[s] = [q \in 0..(n + StackPages - 1) |-> Sees(s, q)']
    BY <1>1, <1>5
  <2>2. ASSUME NEW q \in 0..(n + StackPages - 1)
        PROVE  Sees(s, q)' = IF q < n THEN View[s][q] ELSE Zero
    <3>1. CASE q < n
      <4>1. q \in DOMAIN pageTable[s]
        BY SMT, <1>a, <3>1
      <4> QED BY <1>1, <1>3, <1>5, <3>1, <4>1
    <3>2. CASE ~(q < n)
      <4>1. q \notin DOMAIN pageTable[s] /\ q \in DOMAIN pageTable'[s]
        BY SMT, <1>a, <3>2
      <4> QED BY <1>4, <3>2, <4>1
    <3> QED BY <3>1, <3>2
  <2> QED BY <2>1, <2>2
<1>8. \A r \in Spaces : r # s => View'[r] = View[r]
  <2> SUFFICES ASSUME NEW r \in Spaces, r # s PROVE View'[r] = View[r]
    OBVIOUS
  <2>1. /\ View'[r] = [q \in DOMAIN pageTable[r] |-> Sees(r, q)']
        /\ View[r] = [q \in DOMAIN pageTable[r] |-> Sees(r, q)]
    BY <1>1, <1>5
  <2> QED BY <1>3, <2>1
<1>9. View' = [View EXCEPT ![s] = grown]
  <2> HIDE DEF grown
  <2>1. View = [r \in Spaces |-> View[r]] /\ View' = [r \in Spaces |-> View'[r]]
    BY <1>5
  <2> QED BY <1>1, <1>7, <1>8, <2>1
<1>10. M!Grow(s)
  <2>1. \A k : k = n =>
           View' = [View EXCEPT ![s] = [q \in 0..(k + StackPages - 1) |->
                                          IF q < k THEN View[s][q] ELSE Zero]]
    BY <1>9
  <2>2. View' = [View EXCEPT ![s] = [q \in 0..(Cardinality(DOMAIN View[s]) + StackPages - 1) |->
                                       IF q < Cardinality(DOMAIN View[s]) THEN View[s][q] ELSE Zero]]
    BY <1>6, <2>1
  <2>3. writes' = writes
    BY <1>1
  <2>4. \A S : M!Cardinality(S) = Cardinality(S)
    BY DEF M!Cardinality, Cardinality, M!IsFiniteSet, IsFiniteSet
  <2> QED BY <2>2, <2>3, <2>4 DEF M!Grow
<1> QED BY <1>1, <1>10 DEF M!MNext

LEMMA InitView == Init => M!MInit
<1> SUFFICES ASSUME Init PROVE M!MInit
  OBVIOUS
<1>1. /\ pageTable = [s \in Spaces |-> [p \in ProgramPages[s] |-> NoEntry]]
      /\ stored = [s \in Spaces |-> {}] /\ writes = 0
  BY DEF Init
<1>2. ASSUME NEW s \in Spaces
      PROVE  /\ DOMAIN pageTable[s] = ProgramPages[s]
             /\ \A p \in ProgramPages[s] : Sees(s, p) = FromFile(s, p)
  BY <1>1 DEF Sees, Loaded, NoEntry
<1>3. View = [s \in Spaces |-> [p \in ProgramPages[s] |-> FromFile(s, p)]]
  BY <1>2 DEF View
<1> QED BY <1>1, <1>3 DEF M!MInit

(* A step without a switch inside the kernel is a step of the abstract     *)
(* memory, or none.                                                        *)
LEMMA MemoryStep ==
    ASSUME Types, Undisturbed, [Next]_vars
    PROVE  UNCHANGED <<View, writes>> \/ M!MNext
<1>1. CASE UNCHANGED vars
  <2>1. UNCHANGED memory /\ UNCHANGED writes
    BY <1>1 DEF vars, memory
  <2> QED BY <2>1, MemoryUnchanged
<1>2. CASE Preempt
  <2>1. UNCHANGED memory /\ UNCHANGED writes
    BY <1>2 DEF Preempt
  <2> QED BY <2>1, MemoryUnchanged
<1>3. ASSUME NEW t \in Threads, NEW p \in DOMAIN pageTable[SpaceOf[t]], NEW writing \in BOOLEAN,
             Access(t, p, writing)
      PROVE  UNCHANGED <<View, writes>> \/ M!MNext
  <2>1. CASE pageTable[SpaceOf[t]][p].valid
    BY <1>3, <2>1, HitView
  <2>2. CASE ~pageTable[SpaceOf[t]][p].valid /\ size < NumPhysPages
    <3>1. UNCHANGED memory /\ UNCHANGED writes
      <4>1. PageFault(t, p) /\ UNCHANGED writes
        BY <1>3, <2>2 DEF Access
      <4>2. size # NumPhysPages
        BY SMT, <2>2, VirtualMemoryAssumption
      <4> QED BY <4>1, <4>2 DEF PageFault
    <3> QED BY <3>1, MemoryUnchanged
  <2>3. CASE ~pageTable[SpaceOf[t]][p].valid /\ ~(size < NumPhysPages)
    <3>1. PICK i, c : Evicts(t, p, i, c)
      BY <1>3, <2>3, EvictsOne DEF Access
    <3>2. UNCHANGED writes
      BY <1>3, <2>3 DEF Access
    <3> QED BY <3>1, <3>2, EvictView
  <2> QED BY <2>1, <2>2, <2>3
<1>4. ASSUME NEW t \in Threads,
             \/ \E child \in Forked : Fork(t, child)
             \/ Exit(t) \/ TryAgain(t) \/ FreePage(t) \/ AllocPage(t) \/ AllocStackPage(t)
      PROVE  UNCHANGED <<View, writes>>
  <2>1. UNCHANGED memory /\ UNCHANGED writes
    BY <1>4 DEF Fork, Exit, TryAgain, FreePage, AllocPage, AllocStackPage
  <2> QED BY <2>1, MemoryUnchanged
<1>5. ASSUME NEW t \in Threads, allocVirtualPage(t)
      PROVE  UNCHANGED <<View, writes>>
  <2>1. UNCHANGED writes
    BY <1>5 DEF allocVirtualPage
  <2>2. CASE at[t].frame = -1
    <3>1. UNCHANGED memory
      BY <1>5, <2>2 DEF allocVirtualPage
    <3> QED BY <2>1, <3>1, MemoryUnchanged
  <2>3. CASE at[t].frame # -1
    BY <1>5, <2>1, <2>3, LoadsOne, LoadView
  <2> QED BY <2>2, <2>3
<1>6. ASSUME NEW t \in Threads, MapStack(t)
      PROVE  M!MNext
  <2>1. at[t].newTable = pageTable[SpaceOf[t]]
    BY <1>6 DEF MapStack, Undisturbed, KernelOwns
  <2> QED BY <1>6, <2>1, MapsOne, MapView
<1> QED BY <1>1, <1>2, <1>3, <1>4, <1>5, <1>6 DEF Next, KernelStep

(* What programs see is the abstract memory, as long as the timer does not *)
(* strike inside the fault handler: evictions, write-backs and reloads, of *)
(* any space and in any order, change nothing.                             *)
THEOREM ProgramsSeeMemory == Spec => IsMemory
<1>1. IInv /\ [Next]_vars => [switches' > 0 \/ M!MNext]_<<View, writes>>
  <2> SUFFICES ASSUME Types, switches = 0 => Undisturbed, [Next]_vars, ~(switches' > 0)
               PROVE  UNCHANGED <<View, writes>> \/ M!MNext
    BY DEF IInv
  <2>1. switches' = switches \/ switches' = switches + 1
    <3>1. ASSUME NEW t \in Threads,
                 \/ \E p \in DOMAIN pageTable[SpaceOf[t]], writing \in BOOLEAN : Access(t, p, writing)
                 \/ \E child \in Forked : Fork(t, child)
                 \/ Exit(t)
                 \/ KernelStep(t)
          PROVE  UNCHANGED switches
      BY <3>1 DEF Access, Fork, Exit, KernelStep, TryAgain, FreePage, AllocPage,
         allocVirtualPage, AllocStackPage, MapStack, settings
    <3>2. CASE Preempt
      BY <3>2 DEF Preempt
    <3>3. CASE UNCHANGED vars
      BY <3>3 DEF vars
    <3> QED BY <3>1, <3>2, <3>3 DEF Next
  <2>2. switches \in Nat
    BY DEF Types
  <2>3. switches = 0
    BY SMT, <2>1, <2>2
  <2> QED BY <2>3, MemoryStep
<1> QED BY <1>1, InitView, Invariance, PTL DEF Spec, IsMemory
=============================================================================
