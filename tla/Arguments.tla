----------------------------- MODULE Arguments ------------------------------
(***************************************************************************)
(* The way of Exec's strings from the caller's memory to the stack of the  *)
(* new process: the loops of Exec2, readArgument and ProcessStartExec      *)
(* (userprog/exception.cc), AddArguments and LoadArguments                 *)
(* (userprog/addrspace.cc).                                                *)
(*                                                                         *)
(* ReadMem and WriteMem fail on a page that is not in memory, after the    *)
(* fault handler has loaded it.  Exec2 tries twice for the name and for    *)
(* the pointers; the strings are read, and everything is written, with one *)
(* try.  A fault may push out other pages of the same space and, when the  *)
(* timer lets other processes run before it returns, the page it loaded.   *)
(***************************************************************************)
EXTENDS Integers, Sequences, FiniteSets

CONSTANTS
    PageSize,
    NumPages,       \* the pages of the new space
    CallerPages,    \* the pages of the caller
    MAXSIZE,        \* the bound on the name
    MAX,            \* the bound on an argument
    Calls           \* the calls: [name, argv, args], with the addresses of
                    \* the strings and the array and the strings' characters

VARIABLES
    call,
    at,             \* how far Exec, and then the new process, has come
    i, n,           \* the loops' indices: the character, the argument
    again,          \* this is the second try
    resident,       \* the pages in memory, of the space that runs
    argv,           \* AddrSpace::argv: the strings that have been read
    sp, arr,        \* LoadArguments
    memory,         \* the bytes of the new space
    reg,            \* registers 4 and 5, and StackReg
    pushed,         \* a fault has pushed out a page of the space that runs
    struck          \* a fault has lost the page it loaded

vars == <<call, at, i, n, again, resident, argv, sp, arr, memory, reg, pushed, struck>>

PageOf(addr) == addr \div PageSize
Addresses == 0..(NumPages * PageSize - 1)
NUL == 0

Init ==
    /\ call \in Calls
    /\ at = "name" /\ i = 0 /\ n = 1 /\ again = FALSE
    /\ resident \in SUBSET CallerPages
    /\ argv = <<>>
    /\ sp = NumPages * PageSize /\ arr = <<>>
    /\ memory = [a \in Addresses |-> NUL]
    /\ reg = [r4 |-> 0, r5 |-> 0, sp |-> 0]
    /\ pushed = FALSE /\ struck = FALSE

caller == <<call, argv>>
stack == <<sp, arr, memory, reg>>

(* A page fault: the page is loaded, and any may be pushed out.            *)
Fault(p) ==
    \E lost \in SUBSET (resident \cup {p}) :
        /\ resident' = (resident \cup {p}) \ lost
        /\ pushed' = (pushed \/ lost # {})
        /\ struck' = (struck \/ p \in lost)
NoFault == UNCHANGED <<resident, pushed, struck>>

-----------------------------------------------------------------------------
(* The caller.                                                             *)

(* The character of string s at index k, with the NUL that ends it.        *)
Char(s, k) == IF k < Len(s.text) THEN s.text[k + 1] ELSE NUL

(* The address that the next ReadMem is for.                               *)
Source == CASE at = "name" -> call.name.at + i
            [] at = "pointer" -> call.argv + 4 * (n - 1)
            [] at = "string" -> call.args[n].at + i

Reads == at \in {"name", "string"} \/ (at = "pointer" /\ n <= Len(call.args))

(* ReadMem outside the space or not aligned: the process is killed.        *)
AddressError ==
    /\ Reads
    /\ PageOf(Source) \notin CallerPages \/ (at = "pointer" /\ Source % 4 # 0)
    /\ at' = "killed"
    /\ UNCHANGED <<caller, i, n, again, stack, resident, pushed, struck>>

(* ReadMem on a page that is not in memory.  readArgument gives up, Exec2  *)
(* tries again once.                                                       *)
ReadFails ==
    /\ Reads
    /\ PageOf(Source) \in CallerPages \ resident /\ (at = "pointer" => Source % 4 = 0)
    /\ Fault(PageOf(Source))
    /\ at' = CASE at = "string" -> "unread"
               [] at # "string" /\ again -> "failed"
               [] OTHER -> at
    /\ again' = TRUE
    /\ UNCHANGED <<caller, i, n, stack>>

(* One turn of the loop over the name, after which the file is opened.     *)
ReadName ==
    LET c == Char(call.name, i)
    IN  /\ at = "name" /\ PageOf(Source) \in resident
        /\ \/ c = NUL /\ at' \in {"pointer", "refused"}
           \/ c # NUL /\ at' = IF i + 1 = MAXSIZE THEN "refused" ELSE at
        /\ argv' = IF at' = "pointer" THEN <<SubSeq(call.name.text, 1, i)>> ELSE argv
        /\ i' = i + 1 /\ again' = FALSE
        /\ NoFault
        /\ UNCHANGED <<call, n, stack>>

(* The pointer to argument n.                                              *)
ReadPointer ==
    /\ at = "pointer" /\ n <= Len(call.args)
    /\ PageOf(Source) \in resident /\ Source % 4 = 0
    /\ at' = "string" /\ i' = 0 /\ again' = FALSE
    /\ NoFault
    /\ UNCHANGED <<caller, n, stack>>

(* readArgument, one turn of its loop.                                     *)
readArgument ==
    LET c == Char(call.args[n], i)
        last == c = NUL
    IN  /\ at = "string" /\ PageOf(Source) \in resident
        /\ at' = CASE last -> "pointer"
                   [] ~last /\ i + 1 = MAX -> "refused"
                   [] OTHER -> at
        /\ argv' = IF last THEN Append(argv, SubSeq(call.args[n].text, 1, i)) ELSE argv
        /\ n' = IF last THEN n + 1 ELSE n
        /\ i' = i + 1
        /\ NoFault
        /\ UNCHANGED <<call, again, stack>>

(* The rest of Exec2, which is Process's; AddArguments.  The new process   *)
(* begins with none of its pages in memory.                                *)
AddArguments ==
    /\ at = "pointer" /\ n > Len(call.args)
    /\ at' \in {"place", "refused"} /\ n' = 1 /\ resident' = {}
    /\ UNCHANGED <<caller, i, again, stack, pushed, struck>>

-----------------------------------------------------------------------------
(* LoadArguments, called by ProcessStartExec.  Its calls of checkSP never  *)
(* find anything: they ask whether sp is still at the end.                 *)

(* Where string s goes, below sp; without room for its NUL.                *)
BelowShort(top, s) == top - Len(s)
Below(top, s) == top - (Len(s) + 1)

Place ==
    /\ at = "place" /\ n <= Len(argv)
    /\ sp' = Below(sp, argv[n])
    /\ arr' = Append(arr, sp')
    /\ i' = 0 /\ at' = "bytes"
    /\ NoFault
    /\ UNCHANGED <<caller, n, again, memory, reg>>

(* WriteMem of the bytes b from address a: all of them or, when the page   *)
(* is not in memory, none.                                                 *)
WriteMem(a, b) ==
    \/ /\ PageOf(a) \in resident /\ NoFault
       /\ memory' = [x \in Addresses |-> IF x \in a..(a + Len(b) - 1) THEN b[x - a + 1] ELSE memory[x]]
    \/ PageOf(a) \notin resident /\ Fault(PageOf(a)) /\ UNCHANGED memory

(* One byte of string n, its NUL included.                                 *)
WriteByte ==
    LET s == argv[n]
        last == i = Len(s)
    IN  /\ at = "bytes" /\ sp + i \in Addresses
        /\ WriteMem(sp + i, <<IF last THEN NUL ELSE s[i + 1]>>)
        /\ i' = i + 1
        /\ n' = IF last THEN n + 1 ELSE n
        /\ at' = IF last THEN "place" ELSE at
        /\ UNCHANGED <<caller, again, sp, arr, reg>>

(* The remainder of C, which has the sign of x.                            *)
Rem4(x) == IF x >= 0 THEN x % 4 ELSE -((-x) % 4)

(* The place of the pointers, and the registers.                           *)
Registers ==
    LET below == sp - 4 * Len(argv)
        a == below - Rem4(below)
    IN  /\ at = "place" /\ n > Len(argv)
        /\ sp' = a
        /\ reg' = [r4 |-> Len(argv), r5 |-> a, sp |-> a - 16]
        /\ n' = 1 /\ at' = "pointers"
        /\ NoFault
        /\ UNCHANGED <<caller, i, again, arr, memory>>

(* One pointer; addresses are below 256.                                   *)
WritePointer ==
    /\ at = "pointers" /\ sp + 4 * (n - 1) \in Addresses
    /\ WriteMem(sp + 4 * (n - 1), <<arr[n], 0, 0, 0>>)
    /\ n' = n + 1
    /\ at' = IF n = Len(argv) THEN "runs" ELSE at
    /\ UNCHANGED <<caller, i, again, sp, arr, reg>>

(* WriteMem outside the space: the new process is killed.                  *)
StackOverflow ==
    /\ \/ at = "bytes" /\ sp + i \notin Addresses
       \/ at = "pointers" /\ sp + 4 * (n - 1) \notin Addresses
    /\ at' = "killed"
    /\ UNCHANGED <<caller, i, n, again, resident, stack, pushed, struck>>

Next ==
    \/ AddressError \/ ReadFails \/ ReadName \/ ReadPointer \/ readArgument \/ AddArguments
    \/ Place \/ WriteByte \/ Registers \/ WritePointer \/ StackOverflow

Spec == Init /\ [][Next]_vars

-----------------------------------------------------------------------------
Texts == <<call.name.text>> \o [k \in DOMAIN call.args |-> call.args[k].text]
NewProcess == at \in {"place", "bytes", "pointers", "runs"}

(* The strings the new process is given are the caller's, each whole and   *)
(* in its place, whatever faults there were on the way.                    *)
StringsAreRead == NewProcess => argv = Texts

(* Two tries are enough for the name and the pointers, whatever the first  *)
(* has pushed out, unless the page was lost in between.                    *)
TwoTriesSuffice == at = "failed" => struck

(* The program that starts finds its stack in order: the pointers are      *)
(* aligned, and lie below the strings, which do not overlap.  The process  *)
(* is killed before that only if there is not enough room.                 *)
StackInOrder ==
    /\ at = "runs" =>
         /\ reg.r4 = Len(Texts) /\ reg.r5 % 4 = 0 /\ reg.sp < reg.r5
         /\ reg.r5 + 4 * reg.r4 <= arr[reg.r4]
         /\ \A k \in 1..reg.r4 :
               arr[k] + Len(Texts[k]) < IF k = 1 THEN NumPages * PageSize ELSE arr[k - 1]
    /\ at = "killed" /\ arr # <<>> => sp < 0

(* What the program finds by pointer k: a string up to its NUL.            *)
Pointer(k) == memory[reg.r5 + 4 * (k - 1)]
Holds(a, s) == \A k \in 0..Len(s) : a + k \in Addresses /\ memory[a + k] = IF k < Len(s) THEN s[k + 1] ELSE NUL

(* A string arrives whole if no part of it is the first that is written to *)
(* its page, and its pointer if the page had been written to before; but   *)
(* the first byte of the name, and so the name, never arrives.             *)
ArgumentsArrive ==
    at = "runs" =>
        /\ memory[arr[1]] = NUL
        /\ ~pushed /\ ~struck =>
             \A k \in 2..reg.r4 :
                /\ PageOf(arr[k]) = PageOf(arr[k - 1]) => Holds(arr[k], Texts[k])
                /\ PageOf(reg.r5 + 4 * (k - 1)) \in {PageOf(reg.r5), PageOf(arr[reg.r4])}
                     => Pointer(k) = arr[k]
=============================================================================
