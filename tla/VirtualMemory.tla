--------------------------- MODULE VirtualMemory ----------------------------
(***************************************************************************)
(* Demand paging: the page fault handler of ExceptionHandler               *)
(* (userprog/exception.cc), AddrSpace, MemoryManager, BackingStore and     *)
(* CoreMap (userprog/addrspace.cc), driven by the reads and writes of user *)
(* programs (machine/translate.cc) and by the system call Fork, which      *)
(* takes frames for a stack.  The build is the one of userprog/Makefile:   *)
(* page tables, and files that are host files.                             *)
(*                                                                         *)
(* With -rs the timer may switch threads after every user instruction, and *)
(* inside the kernel where the lock of MemoryManager has enabled           *)
(* interrupts.  Without it the kernel runs the handler to the end.  A      *)
(* page's contents are one value.                                          *)
(***************************************************************************)
EXTENDS Integers, Sequences, FiniteSets, FiniteSetsExt

CONSTANTS
    Spaces,         \* the address spaces
    Threads,        \* the user threads
    SpaceOf,        \* the space of each thread
    Forked,         \* the threads that a system call Fork starts
    NONE,           \* no thread
    ProgramPages,   \* the pages of each space's program
    CodePages,      \* those of them its file has contents for
    StackPages,     \* how many pages allocateThreadSpace adds
    NumPhysPages,
    LRUs,           \* the values of LRU: 1 with the option -e
    MaxWrites,      \* bound on the writes of user programs
    MaxSwitches     \* bound on the switches inside the kernel

ASSUME VirtualMemoryAssumption ==
    /\ SpaceOf \in [Threads -> Spaces] /\ Forked \subseteq Threads /\ NONE \notin Threads
    /\ \A s \in Spaces : IsFiniteSet(ProgramPages[s])
                         /\ ProgramPages[s] = 0..(Cardinality(ProgramPages[s]) - 1)
    /\ NumPhysPages \in Nat \ {0} /\ StackPages \in Nat \ {0}
    /\ LRUs \subseteq {0, 1} /\ MaxWrites \in Nat /\ MaxSwitches \in Nat

VARIABLES
    LRU,
    pageTable,      \* pageTable[s][p]
    mainMemory,     \* the contents of each frame
    pages,          \* MemoryManager::pages: the frames that are allocated
    holder,         \* who holds MemoryManager::lock
    chain,          \* the CorePages from head on
    tailLost,       \* tail points to a CorePage that is not in the chain
    size,           \* CoreMap::size
    stored, file,   \* BackingStore::pages and the file, for each space
    active,         \* the threads that run
    at,             \* how far each thread is in the kernel
    kernel,         \* the thread inside the kernel, when it has not been
                    \* switched away from
    writes,
    switches,       \* how often the timer has struck inside the kernel
    fault           \* "none", or what made the kernel go wrong

vars == <<LRU, pageTable, mainMemory, pages, holder, chain, tailLost, size,
          stored, file, active, at, kernel, writes, switches, fault>>

Zero == <<"zero">>
Contents ==
    {Zero} \cup {<<"image", s, p>> : s \in Spaces, p \in CodePages}
           \cup {<<"data", n>> : n \in 1..MaxWrites}
Frames == 0..(NumPhysPages - 1)

(* AddrSpace::allocVirtualPage on a page that was never written out: what  *)
(* the program's file has of the page, and zeroes.                         *)
FromFile(s, p) == IF p \in CodePages THEN <<"image", s, p>> ELSE Zero

(* AddrSpace::Initialize.                                                  *)
NoEntry == [physicalPage |-> -2, valid |-> FALSE, use |-> FALSE, dirty |-> FALSE]

User == [pc |-> "user"]

Init ==
    /\ LRU \in LRUs
    /\ pageTable = [s \in Spaces |-> [p \in ProgramPages[s] |-> NoEntry]]
    /\ mainMemory = [f \in Frames |-> Zero]
    /\ pages = {} /\ holder = NONE
    /\ chain = <<>> /\ tailLost = FALSE /\ size = 0
    /\ stored = [s \in Spaces |-> {}]
    /\ file = [s \in Spaces |-> [p \in ProgramPages[s] |-> Zero]]
    /\ active = Threads \ Forked
    /\ at = [t \in Threads |-> User]
    /\ kernel = NONE
    /\ writes = 0 /\ switches = 0
    /\ fault = "none"

memory == <<pageTable, mainMemory, stored, file>>
coreMap == <<chain, tailLost, size>>
settings == <<LRU, active, switches>>

-----------------------------------------------------------------------------
(* Lock::Acquire on MemoryManager::lock by the thread in the kernel, which *)
(* sleeps when the lock is taken.                                          *)
Acquire(t) ==
    \/ holder = NONE /\ holder' = t /\ kernel' = t
    \/ holder # NONE /\ kernel' = NONE /\ UNCHANGED holder

(* Release that leaves the lock taken.                                     *)
ReleaseNot(t) == kernel' = t /\ UNCHANGED holder

Release(t) == holder' = NONE /\ kernel' = t

Runs(t) == fault = "none" /\ kernel \in {t, NONE}
InUser(t) == t \in active /\ fault = "none" /\ kernel = NONE /\ at[t] = User

Used(c) == pageTable[c.space][c.vpn].use

(* CoreMap::evictCorePage: the CorePage it takes, by its position, and     *)
(* those whose use bit it clears.  The head when LRU is 0 or it is the     *)
(* only one, else the first whose use bit is clear, else the head.         *)
Victim ==
    LET unused == {i \in DOMAIN chain : ~Used(chain[i])}
    IN  IF LRU = 0 \/ (Len(chain) = 1 /\ ~tailLost) \/ unused = {} THEN 1 ELSE Min(unused)

Cleared ==
    LET unused == {i \in DOMAIN chain : ~Used(chain[i])}
    IN  IF LRU = 0 \/ (Len(chain) = 1 /\ ~tailLost) THEN {}
        ELSE {i \in DOMAIN chain : \A j \in unused : i < j}

(* pageOut that writes nothing back.                                       *)
WriteBackNever(e) == FALSE

(* BackingStore::pageOut writes the page back when it is dirty.            *)
WriteBack(e) == e.dirty

(* Taking the last CorePage out of the chain while another one is the head *)
(* leaves tail pointing to it.                                             *)
LosesTail(i) == i = Len(chain) /\ i > 1

(* pageOut that leaves the page table entry valid.                         *)
pageOutStillValid(c, table) ==
    pageTable' = table /\ UNCHANGED <<stored, file>>

pageOut(c, table) ==
    LET e == pageTable[c.space][c.vpn]
    IN  /\ pageTable' = [table EXCEPT ![c.space][c.vpn].valid = FALSE,
                                      ![c.space][c.vpn].dirty = FALSE]
        /\ stored' = [stored EXCEPT ![c.space] = @ \cup IF WriteBack(e) THEN {c.vpn} ELSE {}]
        /\ file' = IF WriteBack(e) THEN [file EXCEPT ![c.space][c.vpn] = mainMemory[e.physicalPage]]
                   ELSE file

(* The handler of a page fault of t on page p, up to the first Acquire.    *)
PageFault(t, p) ==
    \/ /\ size < NumPhysPages
       /\ at' = [at EXCEPT ![t] = [pc |-> "alloc", vpn |-> p]]
       /\ Acquire(t)
       /\ UNCHANGED <<memory, coreMap, fault>>
    \/ /\ size = NumPhysPages
       /\ LET c == chain[Victim]
              clear == {<<chain[i].space, chain[i].vpn>> : i \in Cleared}
              table == [s \in Spaces |-> [q \in DOMAIN pageTable[s] |->
                           IF <<s, q>> \in clear THEN [pageTable[s][q] EXCEPT !.use = FALSE]
                           ELSE pageTable[s][q]]]
          IN  /\ chain' = SubSeq(chain, 1, Victim - 1) \o SubSeq(chain, Victim + 1, Len(chain))
              /\ tailLost' = (tailLost \/ LosesTail(Victim))
              /\ size' = size - 1
              /\ pageOut(c, table)
              /\ at' = [at EXCEPT ![t] = [pc |-> "free", vpn |-> p, frame |-> c.frame]]
       /\ Acquire(t)
       /\ UNCHANGED <<mainMemory, fault>>

(* Machine::Translate, then ReadMem or WriteMem, for an instruction of t.  *)
Access(t, p, writing) ==
    LET s == SpaceOf[t]
        e == pageTable[s][p]
    IN  /\ InUser(t)
        /\ p \in DOMAIN pageTable[s]
        /\ writing => writes < MaxWrites
        /\ \/ /\ ~e.valid
              /\ PageFault(t, p)
              /\ UNCHANGED writes
           \/ /\ e.valid
              /\ pageTable' = [pageTable EXCEPT ![s][p].use = TRUE,
                                                ![s][p].dirty = @ \/ writing]
              /\ writes' = IF writing THEN writes + 1 ELSE writes
              /\ mainMemory' = IF writing
                               THEN [mainMemory EXCEPT ![e.physicalPage] = <<"data", writes'>>]
                               ELSE mainMemory
              /\ UNCHANGED <<stored, file, coreMap, at, holder, kernel, fault>>
        /\ UNCHANGED <<settings, pages>>

(* A thread that waits for the lock, or comes to its next Acquire.         *)
TryAgain(t) ==
    /\ Runs(t)
    /\ at[t].pc \in {"free", "alloc", "stack"}
    /\ holder # t
    /\ kernel = NONE => holder = NONE
    /\ Acquire(t)
    /\ UNCHANGED <<settings, memory, coreMap, pages, at, writes, fault>>

(* BitMap::Find.                                                           *)
Find == IF pages = Frames THEN -1 ELSE Min(Frames \ pages)
Mark(f) == pages \cup ({f} \cap Frames)

(* MemoryManager::FreePage and AllocPage, from Acquire to Release.         *)
FreePage(t) ==
    /\ Runs(t) /\ at[t].pc = "free" /\ holder = t
    /\ pages' = pages \ {at[t].frame}
    /\ at' = [at EXCEPT ![t] = [pc |-> "alloc", vpn |-> at[t].vpn]]
    /\ Release(t)
    /\ UNCHANGED <<settings, memory, coreMap, writes, fault>>

AllocPage(t) ==
    /\ Runs(t) /\ at[t].pc = "alloc" /\ holder = t
    /\ pages' = Mark(Find)
    /\ at' = [at EXCEPT ![t] = [pc |-> "load", vpn |-> at[t].vpn, frame |-> Find]]
    /\ Release(t)
    /\ UNCHANGED <<settings, memory, coreMap, writes, fault>>

(* addCorePage without the case of an empty map.                           *)
addCorePageToTail(c) ==
    /\ size' = IF size = NumPhysPages THEN size ELSE size + 1
    /\ chain' = IF size = NumPhysPages \/ chain = <<>> \/ tailLost THEN chain ELSE Append(chain, c)
    /\ UNCHANGED tailLost

(* CoreMap::addCorePage.  A CorePage added behind a tail that is not in    *)
(* the chain is lost.                                                      *)
addCorePage(c) ==
    /\ size' = IF size = NumPhysPages THEN size ELSE size + 1
    /\ chain' = IF size = NumPhysPages THEN chain
                ELSE IF chain = <<>> THEN <<c>>
                ELSE IF tailLost THEN chain ELSE Append(chain, c)
    /\ tailLost' = (tailLost /\ ~(size < NumPhysPages /\ chain = <<>>))

(* What allocVirtualPage puts in the frame.                                *)
Loaded(s, p) == IF p \in stored[s] THEN file[s][p] ELSE FromFile(s, p)

(* The rest of allocVirtualPage.  Without a frame it clears memory that is *)
(* not mainMemory.                                                         *)
allocVirtualPage(t) ==
    LET s == SpaceOf[t]
        p == at[t].vpn
        f == at[t].frame
    IN  /\ Runs(t) /\ at[t].pc = "load"
        /\ \/ /\ f = -1
              /\ fault' = "no frame"
              /\ UNCHANGED <<memory, coreMap, at, kernel>>
           \/ /\ f # -1
              /\ addCorePage([space |-> s, vpn |-> p, frame |-> f])
              /\ pageTable' = [pageTable EXCEPT ![s][p].physicalPage = f, ![s][p].valid = TRUE]
              /\ mainMemory' = [mainMemory EXCEPT ![f] = Loaded(s, p)]
              /\ at' = [at EXCEPT ![t] = User]
              /\ kernel' = NONE
              /\ UNCHANGED <<stored, file, fault>>
        /\ UNCHANGED <<settings, pages, holder, writes>>

-----------------------------------------------------------------------------
(* Fork2 for the thread child: allocateThreadSpace copies the page table   *)
(* and takes frames for the stack one by one.                              *)
Fork(t, child) ==
    /\ InUser(t)
    /\ child \in Forked \ active /\ SpaceOf[child] = SpaceOf[t]
    /\ at' = [at EXCEPT ![t] = [pc |-> "stack", child |-> child, frames |-> <<>>,
                                newTable |-> pageTable[SpaceOf[t]]]]
    /\ Acquire(t)
    /\ UNCHANGED <<settings, memory, coreMap, pages, writes, fault>>

(* The next frame.  When there is none the frames taken so far are looked  *)
(* up in the old page table, beyond its end.                               *)
AllocStackPage(t) ==
    /\ Runs(t) /\ at[t].pc = "stack" /\ holder = t
    /\ pages' = Mark(Find)
    /\ holder' = NONE
    /\ \/ /\ Find # -1
          /\ at' = [at EXCEPT ![t].frames = Append(@, Find),
                              ![t].pc = IF Len(at[t].frames) = StackPages - 1 THEN "map" ELSE @]
          /\ kernel' = t
          /\ UNCHANGED fault
       \/ /\ Find = -1
          /\ at' = [at EXCEPT ![t] = User]
          /\ kernel' = NONE
          /\ fault' = IF at[t].frames = <<>> THEN "none" ELSE "beyond table"
    /\ UNCHANGED <<settings, memory, coreMap, writes>>

StackEntry(f) == [physicalPage |-> f, valid |-> TRUE, use |-> FALSE, dirty |-> FALSE]

(* The new table takes the place of the old one, and the thread starts.    *)
MapStack(t) ==
    LET s == SpaceOf[t]
        old == at[t].newTable
        n == Cardinality(DOMAIN old)
        frames == at[t].frames
    IN  /\ Runs(t) /\ at[t].pc = "map"
        /\ pageTable' = [pageTable EXCEPT ![s] =
              [p \in 0..(n + StackPages - 1) |->
                 IF p < n THEN old[p] ELSE StackEntry(frames[p - n + 1])]]
        /\ mainMemory' = [f \in Frames |-> IF \E i \in DOMAIN frames : frames[i] = f
                                           THEN Zero ELSE mainMemory[f]]
        /\ active' = active \cup {at[t].child}
        /\ at' = [at EXCEPT ![t] = User]
        /\ kernel' = NONE
        /\ UNCHANGED <<LRU, switches, pages, holder, coreMap, stored, file, writes, fault>>

(* SysCallExit: nothing of the space is given back.                        *)
Exit(t) ==
    /\ InUser(t)
    /\ active' = active \ {t}
    /\ at' = [at EXCEPT ![t] = [pc |-> "exited"]]
    /\ UNCHANGED <<LRU, switches, memory, coreMap, pages, holder, kernel, writes, fault>>

(* The timer interrupts the kernel.                                        *)
Preempt ==
    /\ kernel # NONE /\ switches < MaxSwitches
    /\ kernel' = NONE
    /\ switches' = switches + 1
    /\ UNCHANGED <<LRU, active, memory, coreMap, pages, holder, at, writes, fault>>

KernelStep(t) ==
    TryAgain(t) \/ FreePage(t) \/ AllocPage(t) \/ allocVirtualPage(t)
      \/ AllocStackPage(t) \/ MapStack(t)

Next ==
    \/ \E t \in Threads :
          \/ \E p \in DOMAIN pageTable[SpaceOf[t]], writing \in BOOLEAN : Access(t, p, writing)
          \/ \E child \in Forked : Fork(t, child)
          \/ Exit(t)
          \/ KernelStep(t)
    \/ Preempt

Spec == Init /\ [][Next]_vars /\ \A t \in Threads : SF_vars(KernelStep(t))

-----------------------------------------------------------------------------
(* What a thread of space s sees in page p.                                *)
Sees(s, p) ==
    LET e == pageTable[s][p]
    IN  IF e.valid THEN mainMemory[e.physicalPage] ELSE Loaded(s, p)

View == [s \in Spaces |-> [p \in DOMAIN pageTable[s] |-> Sees(s, p)]]

M == INSTANCE AbstractMemory WITH
       mem <- View, count <- writes,
       Image <- [s \in Spaces |-> [p \in ProgramPages[s] |-> FromFile(s, p)]]

(* The types of the tables, the frames and the counters.                   *)
TypeOK ==
    /\ \A s \in Spaces : \A p \in DOMAIN pageTable[s] :
          pageTable[s][p] \in [physicalPage : Frames \cup {-2}, valid : BOOLEAN,
                               use : BOOLEAN, dirty : BOOLEAN]
    /\ mainMemory \in [Frames -> Contents]
    /\ pages \subseteq Frames /\ holder \in Threads \cup {NONE}
    /\ size \in 0..NumPhysPages /\ Len(chain) <= size
    /\ fault \in {"none", "no frame", "beyond table"}

(* What programs see is the abstract memory: a page holds what was last    *)
(* written to it, and evictions, write-backs and reloads, of any space and *)
(* in any order, change nothing, as long as the timer does not strike      *)
(* inside the handler.                                                     *)
IsMemory == M!MInit /\ [][switches' > 0 \/ M!MNext]_<<View, writes>>

(* Nor does a frame then ever hold two pages that are both valid, be they  *)
(* of one space or of two.                                                 *)
FrameOwnedOnce ==
    switches = 0 =>
      \A s, r \in Spaces : \A p \in DOMAIN pageTable[s] : \A q \in DOMAIN pageTable[r] :
        pageTable[s][p].valid /\ pageTable[r][q].valid
          /\ pageTable[s][p].physicalPage = pageTable[r][q].physicalPage
            => s = r /\ p = q

(* When the core map is full it has a CorePage to evict, even after        *)
(* evictions with -e have made it lose CorePages.                          *)
AlwaysAVictim == size = NumPhysPages => chain # <<>>

(* The handler, which does not look at what AllocPage returns, is without  *)
(* a frame only if the timer has struck inside it, or a Fork has taken     *)
(* frames that are not in the core map.                                    *)
AnyFork ==
    \/ \E s \in Spaces : DOMAIN pageTable[s] # ProgramPages[s]
    \/ \E t \in Threads : at[t].pc \in {"stack", "map"}
FrameAfterEviction == fault = "no frame" => switches > 0 \/ AnyFork

(* Without -e and without a switch inside the kernel the core map lists    *)
(* the pages of programs that are in memory, with their frames, and no     *)
(* other.                                                                  *)
CoreMapComplete ==
    switches = 0 /\ LRU = 0 /\ kernel = NONE =>
        /\ size = Len(chain)
        /\ {<<chain[i].space, chain[i].vpn, chain[i].frame>> : i \in DOMAIN chain}
             = UNION {{<<s, p, pageTable[s][p].physicalPage>> :
                         p \in {q \in ProgramPages[s] : pageTable[s][q].valid}} : s \in Spaces}

(* As long as the timer does not strike inside the fault handler, no frame *)
(* holds two valid pages and, without -e, the core map lists the pages of  *)
(* programs that are in memory, with their frames, and no other.           *)
FramesAccountedFor == TypeOK /\ FrameOwnedOnce /\ CoreMapComplete

(* A full core map has a page to evict, even after it has lost some; a     *)
(* fault finds a frame after an eviction, unless the timer struck in the   *)
(* handler or a Fork took frames that are not in the core map.             *)
FrameAlwaysFound == AlwaysAVictim /\ FrameAfterEviction

(* A thread that enters the kernel to handle a page fault or to fork comes *)
(* back, whatever the others do with the lock of MemoryManager, unless the *)
(* kernel goes wrong.                                                      *)
KernelReturns ==
    \A t \in Threads :
        at[t].pc # "user" ~> (at[t].pc \in {"user", "exited"} \/ fault # "none")
=============================================================================
