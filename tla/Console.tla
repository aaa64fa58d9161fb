------------------------------ MODULE Console -------------------------------
(***************************************************************************)
(* The console: the device (machine/console.cc), SynchConsole              *)
(* (userprog/SynchConsole.cc), and what uses it: the system calls Read and *)
(* Write on the console (userprog/exception.cc) and ConsoleTest            *)
(* (userprog/progtest.cc).                                                 *)
(*                                                                         *)
(* The caller's buffer is on one page.  A page that is not in memory makes *)
(* the first ReadMem or WriteMem fail after its handler has loaded the     *)
(* page; while the caller sleeps other programs may take the page away,    *)
(* and with -rs they may do so between the two tries.                      *)
(***************************************************************************)
EXTENDS Integers, Sequences, SequencesExt

CONSTANTS
    Threads, NONE,
    Scenarios,      \* the roles the threads can have: "read", "write", both
                    \* system calls, or "echo", ConsoleTest
    Size,           \* the size that Read and Write are called with
    Room,           \* the bytes of each buffer that are inside the space
    Inputs,         \* what can be typed: sequences of characters
    EOF,            \* the character of value -1
    Quit,           \* the character q
    MaxSwitches     \* bound on the switches inside a page fault handler

VARIABLES
    role,
    input,          \* what is typed and not yet read by the device
    incoming, putBusy,
    output,         \* what the device has written, with the writer
    r, w,           \* the semaphores of SynchConsole
    ReadLock, WriteLock,
    at, i,          \* where each thread is in its call, and the loop's index
    ch,             \* the character it holds
    resident,       \* whether its buffer is in memory
    received,       \* the characters that GetChar has returned, with the reader
    result,         \* what the calls return
    typed,          \* what was typed, in all
    switches,
    broken          \* the assertion of Console::PutChar has failed

device == <<input, incoming, putBusy, output>>
vars == <<role, device, r, w, ReadLock, WriteLock, at, i, ch, resident, received, result,
          typed, switches, broken>>

Init ==
    /\ role \in Scenarios
    /\ typed \in Inputs /\ input = typed
    /\ incoming = EOF /\ putBusy = FALSE /\ output = <<>>
    /\ r = 0 /\ w = 0
    /\ ReadLock = NONE /\ WriteLock = NONE
    /\ at = [t \in Threads |-> "user"] /\ i = [t \in Threads |-> 0]
    /\ ch = [t \in Threads |-> EOF]
    /\ resident \in [Threads -> BOOLEAN]
    /\ received = <<>> /\ result = [t \in Threads |-> -2]
    /\ switches = 0 /\ broken = FALSE

locks == <<ReadLock, WriteLock>>
rest == <<role, typed>>

-----------------------------------------------------------------------------
(* The device.                                                             *)

(* Console::CheckCharAvail, which calls SynchConsole::CheckCharAvail.      *)
CheckCharAvail ==
    /\ incoming = EOF /\ input # <<>>
    /\ incoming' = Head(input)
    /\ input' = Tail(input)
    /\ r' = r + 1
    /\ UNCHANGED <<rest, putBusy, output, w, locks, at, i, ch, resident, received, result, switches, broken>>

(* Console::WriteDone, which calls SynchConsole::WriteDone; and one that   *)
(* does not.                                                               *)
WriteDoneOnly ==
    /\ putBusy /\ putBusy' = FALSE
    /\ UNCHANGED <<rest, input, incoming, output, r, w, locks, at, i, ch, resident, received, result, switches, broken>>
WriteDone ==
    /\ putBusy /\ putBusy' = FALSE
    /\ w' = w + 1
    /\ UNCHANGED <<rest, input, incoming, output, r, locks, at, i, ch, resident, received, result, switches, broken>>

-----------------------------------------------------------------------------
Go(t, from, to) == at[t] = from /\ at' = [at EXCEPT ![t] = to]
Reads(t) == role[t] = "read"
Writes(t) == role[t] = "write"

(* The tests before the loop: the file is not the console.                 *)
Refuse(t) ==
    /\ role[t] \in {"read", "write"} /\ Go(t, "user", "done")
    /\ result' = [result EXCEPT ![t] = -1]
    /\ UNCHANGED <<rest, device, r, w, locks, i, ch, resident, received, switches, broken>>

Enter(t) ==
    /\ \/ role[t] \in {"read", "write"} /\ Go(t, "user", "acquire")
       \/ role[t] = "echo" /\ Go(t, "user", "get")
    /\ UNCHANGED <<rest, device, r, w, locks, i, ch, resident, received, result, switches, broken>>

(* Acquire that does not wait.                                             *)
AcquireAnyway(t) ==
    /\ Go(t, "acquire", "loop")
    /\ \/ Reads(t) /\ ReadLock' = t /\ UNCHANGED WriteLock
       \/ Writes(t) /\ WriteLock' = t /\ UNCHANGED ReadLock
    /\ UNCHANGED <<rest, device, r, w, i, ch, resident, received, result, switches, broken>>

Acquire(t) ==
    /\ Go(t, "acquire", "loop")
    /\ \/ Reads(t) /\ ReadLock = NONE /\ ReadLock' = t /\ UNCHANGED WriteLock
       \/ Writes(t) /\ WriteLock = NONE /\ WriteLock' = t /\ UNCHANGED ReadLock
    /\ UNCHANGED <<rest, device, r, w, i, ch, resident, received, result, switches, broken>>

(* The head of the loop, and the end of the call.                          *)
Loop(t) ==
    /\ i[t] < Size /\ i[t] < Room[t]
    /\ Go(t, "loop", IF Reads(t) THEN "get" ELSE "memory")
    /\ UNCHANGED <<rest, device, r, w, locks, i, ch, resident, received, result, switches, broken>>

(* EndCall that leaves the locks.                                          *)
EndCallKeeps(t) ==
    /\ i[t] = Size \/ i[t] >= Room[t]
    /\ Go(t, "loop", "done")
    /\ result' = [result EXCEPT ![t] = i[t]]
    /\ UNCHANGED <<rest, device, r, w, locks, i, ch, resident, received, switches, broken>>

EndCall(t) ==
    /\ i[t] = Size \/ i[t] >= Room[t]
    /\ Go(t, "loop", "done")
    /\ ReadLock' = IF Reads(t) THEN NONE ELSE ReadLock
    /\ WriteLock' = IF Writes(t) THEN NONE ELSE WriteLock
    /\ result' = [result EXCEPT ![t] = i[t]]
    /\ UNCHANGED <<rest, device, r, w, i, ch, resident, received, switches, broken>>

(* ReadMem or WriteMem of the character, tried twice.  When both fail the  *)
(* call returns, and the lock stays taken.                                 *)
Moved(t) == IF Reads(t) THEN "loop" ELSE "put"
Memory(t) ==
    LET c == IF Writes(t) THEN <<t, i[t]>> ELSE ch[t]
    IN  /\ \/ /\ resident[t] /\ at[t] \in {"memory", "again"}
              /\ at' = [at EXCEPT ![t] = Moved(t)]
              /\ ch' = [ch EXCEPT ![t] = c]
              /\ i' = [i EXCEPT ![t] = IF Reads(t) THEN @ + 1 ELSE @]
              /\ UNCHANGED <<resident, result>>
           \/ /\ ~resident[t] /\ Go(t, "memory", "again")
              /\ resident' = [resident EXCEPT ![t] = TRUE]
              /\ UNCHANGED <<ch, i, result>>
           \/ /\ ~resident[t] /\ Go(t, "again", "done")
              /\ resident' = [resident EXCEPT ![t] = TRUE]
              /\ result' = [result EXCEPT ![t] = -1]
              /\ UNCHANGED <<ch, i>>
        /\ UNCHANGED <<rest, device, r, w, locks, received, switches, broken>>

(* SynchConsole::GetChar: P, then Console::GetChar.                        *)
GetChar(t) ==
    /\ r > 0 /\ r' = r - 1
    /\ Go(t, "get", IF Reads(t) THEN "memory" ELSE "put")
    /\ ch' = [ch EXCEPT ![t] = incoming]
    /\ incoming' = EOF
    /\ received' = Append(received, <<t, incoming>>)
    /\ UNCHANGED <<rest, input, putBusy, output, w, locks, i, resident, result, switches, broken>>

(* SynchConsole::PutChar: Console::PutChar, then P.                        *)
PutChar(t) ==
    /\ Go(t, "put", "sent")
    /\ broken' = (broken \/ putBusy)
    /\ output' = Append(output, <<t, ch[t]>>)
    /\ putBusy' = TRUE
    /\ UNCHANGED <<rest, input, incoming, r, w, locks, i, ch, resident, received, result, switches>>

Sent(t) ==
    /\ w > 0 /\ w' = w - 1
    /\ Go(t, "sent", CASE Writes(t) -> "loop"
                       [] ~Writes(t) /\ ch[t] = Quit -> "done"
                       [] OTHER -> "get")
    /\ i' = [i EXCEPT ![t] = IF Writes(t) THEN @ + 1 ELSE @]
    /\ UNCHANGED <<rest, device, r, locks, ch, resident, received, result, switches, broken>>

(* Another program takes the page of t's buffer: while t sleeps in Acquire *)
(* or P, or between two tries if the timer strikes in the handler.         *)
Evict(t) ==
    /\ role[t] \in {"read", "write"} /\ resident[t]
    /\ \/ at[t] \in {"acquire", "get", "sent"} /\ UNCHANGED switches
       \/ at[t] = "again" /\ switches < MaxSwitches /\ switches' = switches + 1
    /\ resident' = [resident EXCEPT ![t] = FALSE]
    /\ UNCHANGED <<rest, device, r, w, locks, at, i, ch, received, result, broken>>

Step(t) ==
    \/ Enter(t) \/ Acquire(t) \/ Loop(t) \/ EndCall(t) \/ Memory(t)
    \/ GetChar(t) \/ PutChar(t) \/ Sent(t)

Next ==
    \/ CheckCharAvail \/ WriteDone
    \/ \E t \in Threads : Step(t) \/ Refuse(t) \/ Evict(t)

(* Interrupts that are scheduled happen, and the scheduler and the locks   *)
(* leave nobody out.                                                       *)
Fairness ==
    /\ WF_vars(CheckCharAvail) /\ WF_vars(WriteDone)
    /\ \A t \in Threads : SF_vars(Step(t))
Spec == Init /\ [][Next]_vars /\ Fairness

-----------------------------------------------------------------------------
(* The semaphores are 0 or 1, and locks are held by callers.               *)
TypeOK ==
    /\ {r, w} \subseteq 0..Len(typed) + 1 /\ w <= 1
    /\ {ReadLock, WriteLock} \subseteq Threads \cup {NONE}
    /\ putBusy \in BOOLEAN /\ resident \in [Threads -> BOOLEAN]
    /\ i \in [Threads -> 0..Size] /\ switches \in 0..MaxSwitches

(* The assertion of Console::PutChar holds, though SynchConsole has no     *)
(* lock: Write has one, and ConsoleTest is alone.                          *)
NeverBusy == ~broken

(* The characters of one call of Write come out together, and those of one *)
(* call of Read went in together, whatever other calls there are.          *)
Together(s) == \A a, c \in DOMAIN s : \A b \in a..c : s[a][1] = s[c][1] => s[b][1] = s[a][1]
CallsDoNotMix == Together(output) /\ Together(received)

(* No character is lost, doubled or moved between the keyboard and the     *)
(* readers, unless the character -1 has been typed, which the device takes *)
(* for an empty buffer.                                                    *)
InputInOrder ==
    LET buffered == IF incoming = EOF THEN <<>> ELSE <<incoming>>
        got == [k \in DOMAIN received |-> received[k][2]]
    IN  EOF \notin Range(typed) => typed = got \o buffered \o input

(* ConsoleTest writes what is typed, in order, up to the first q.          *)
Echoed ==
    \A t \in Threads : role[t] = "echo" /\ EOF \notin Range(typed) =>
        /\ IsPrefix([k \in DOMAIN output |-> output[k][2]], typed)
        /\ at[t] = "done" => output # <<>> /\ Last(output)[2] = Quit

(* A call that is over has given the lock back, unless its page was taken  *)
(* between two tries.                                                      *)
LocksReturned ==
    switches = 0 => \A t \in Threads : at[t] = "done" => t \notin {ReadLock, WriteLock}

(* A call returns the number of characters it moved, or -1.                *)
ResultIsCount ==
    \A t \in Threads : at[t] = "done" /\ result[t] >= 0 =>
        result[t] = Len(SelectSeq(IF Reads(t) THEN received ELSE output, LAMBDA e : e[1] = t))

(* Every Write returns, even when its buffer is taken away again and       *)
(* again, unless that happens between two tries.                           *)
WriteReturns ==
    \A t \in Threads : (Writes(t) /\ at[t] = "acquire") ~> (at[t] = "done" \/ switches > 0)
=============================================================================
