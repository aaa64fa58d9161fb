-------------------------------- MODULE Pipe --------------------------------
(***************************************************************************)
(* A pipe between two processes (class Pipe in userprog/exception.cc): a   *)
(* ring buffer under a lock and one condition variable, the Execs that     *)
(* give it a writer and a reader, and the Exits that close its two ends.   *)
(* An end is closed without the lock and without waking anybody.           *)
(*                                                                         *)
(* inOpen is about the reader, outOpen about the writer.  A process that   *)
(* Exec attaches but fails to start is one that never calls anything.      *)
(***************************************************************************)
EXTENDS Synch

CONSTANTS
    reader, writer,     \* the two processes
    Bytes,              \* the characters that are written
    Capacity,           \* PIPE_SIZE
    MaxWrites           \* bound on the calls of Write, for model checking

ASSUME PipeAssumption ==
    /\ Threads = {reader, writer} /\ reader # writer
    /\ Conds = {"bufferCV"}
    /\ Capacity \in Nat \ {0}

VARIABLES
    m,                  \* bufferLock and bufferCV
    buffer, size, start, end,
    inOpen, outOpen,
    freePipe,           \* is this pipe the one that the next Exec attaches?
    deleted,            \* has the pipe been deleted?
    pc,                 \* where each process is
    ch,                 \* the argument of the last call of Write
    writes,             \* how many calls of Write there have been
    accepted,           \* the bytes for which Write has returned 1, in order
    got                 \* the bytes Read has returned, in order

vars == <<m, buffer, size, start, end, inOpen, outOpen, freePipe, deleted, pc, ch, writes,
          accepted, got>>

ring == <<buffer, size, start, end>>
ends == <<inOpen, outOpen, freePipe, deleted>>

-----------------------------------------------------------------------------
(* The state when the first of the two Execs has created the pipe.         *)
Init ==
    /\ m = NewMonitor
    /\ buffer = [i \in 0..(Capacity - 1) |-> 0]
    /\ size = 0 /\ start = 0 /\ end = 0
    /\ \E first \in Threads :
          /\ inOpen = IF first = reader THEN 1 ELSE 0
          /\ outOpen = IF first = writer THEN 1 ELSE 0
          /\ pc = [t \in Threads |-> IF t = first THEN "user" ELSE "none"]
    /\ freePipe = TRUE /\ deleted = FALSE
    /\ ch = 0 /\ writes = 0 /\ accepted = <<>> /\ got = <<>>

(* The second Exec, which gives the pipe its other process.                *)
Exec(t) ==
    /\ pc[t] = "none" /\ freePipe /\ ~deleted
    /\ pc' = [pc EXCEPT ![t] = "user"]
    /\ inOpen' = IF t = reader THEN 1 ELSE inOpen
    /\ outOpen' = IF t = writer THEN 1 ELSE outOpen
    /\ freePipe' = FALSE
    /\ UNCHANGED <<m, ring, deleted, ch, writes, accepted, got>>

(* Exit that deletes the pipe whoever still uses it.                       *)
ExitDeletes(t) ==
    /\ pc[t] = "user"
    /\ pc' = [pc EXCEPT ![t] = "exited"]
    /\ deleted' = TRUE
    /\ inOpen' = IF t = reader THEN 0 ELSE inOpen
    /\ outOpen' = IF t = writer THEN 0 ELSE outOpen
    /\ UNCHANGED <<m, ring, freePipe, ch, writes, accepted, got>>

(* Exit closes the process's end and deletes the pipe when the other end   *)
(* is not open.                                                            *)
Exit(t) ==
    /\ pc[t] = "user"
    /\ pc' = [pc EXCEPT ![t] = "exited"]
    /\ inOpen' = IF t = reader THEN 0 ELSE inOpen
    /\ outOpen' = IF t = writer THEN 0 ELSE outOpen
    /\ deleted' = (inOpen' = 0 /\ outOpen' = 0)
    /\ UNCHANGED <<m, ring, freePipe, ch, writes, accepted, got>>

-----------------------------------------------------------------------------
(* Read and Write, up to their first Acquire.                              *)
CallRead ==
    /\ pc[reader] = "user"
    /\ pc' = [pc EXCEPT ![reader] = "read"]
    /\ m' = Acquire(m, reader)
    /\ UNCHANGED <<ring, ends, ch, writes, accepted, got>>

CallWrite(c) ==
    /\ pc[writer] = "user" /\ writes < MaxWrites
    /\ pc' = [pc EXCEPT ![writer] = "write"]
    /\ m' = Acquire(m, writer)
    /\ ch' = c
    /\ writes' = writes + 1
    /\ UNCHANGED <<ring, ends, accepted, got>>

(* A process woken in Acquire or in Wait tries to take the lock again.     *)
Reacquire(t) ==
    /\ pc[t] \in {"read", "write"} /\ t \notin Sleeping(m) /\ ~isHeldBy(m, t)
    /\ m' = Acquire(m, t)
    /\ UNCHANGED <<ring, ends, pc, ch, writes, accepted, got>>

Holds(t, place) == pc[t] = place /\ isHeldBy(m, t)

(* The end of a call: the lock is released.                                *)
Returns(t, mon) ==
    /\ m' = Release(mon)
    /\ pc' = [pc EXCEPT ![t] = "user"]

(* Read, with the lock held: nothing to read and nobody to write.          *)
ReadEnds ==
    /\ Holds(reader, "read") /\ size = 0 /\ outOpen = 0
    /\ Returns(reader, m)
    /\ UNCHANGED <<ring, ends, ch, writes, accepted, got>>

ReadWaits ==
    /\ Holds(reader, "read") /\ size = 0 /\ outOpen = 1
    /\ m' = Wait(m, "bufferCV", reader)
    /\ UNCHANGED <<ring, ends, pc, ch, writes, accepted, got>>

(* start is wrapped around before it is used.                              *)
Wrapped == IF start = Capacity THEN 0 ELSE start

Take ==
    /\ Holds(reader, "read") /\ size # 0
    /\ size' = size - 1
    /\ got' = Append(got, buffer[Wrapped])
    /\ buffer' = [buffer EXCEPT ![Wrapped] = 0]
    /\ start' = Wrapped + 1
    /\ UNCHANGED <<end, ends, ch, writes, accepted>>

(* Read that does not tell the writer that there is room.                  *)
ReadTakesSilently == Take /\ Returns(reader, m)

ReadTakes == Take /\ Returns(reader, Broadcast(m, "bufferCV"))

(* Write that returns 1 for a byte it has no room for.                     *)
WriteFailsUnnoticed ==
    /\ Holds(writer, "write") /\ size = Capacity /\ inOpen = 0
    /\ Returns(writer, m)
    /\ accepted' = Append(accepted, ch)
    /\ UNCHANGED <<ring, ends, ch, writes, got>>

(* Write, with the lock held: no room and nobody to read.                  *)
WriteFails ==
    /\ Holds(writer, "write") /\ size = Capacity /\ inOpen = 0
    /\ Returns(writer, m)
    /\ UNCHANGED <<ring, ends, ch, writes, accepted, got>>

WriteWaits ==
    /\ Holds(writer, "write") /\ size = Capacity /\ inOpen = 1
    /\ m' = Wait(m, "bufferCV", writer)
    /\ UNCHANGED <<ring, ends, pc, ch, writes, accepted, got>>

(* end is wrapped around after it is used.                                 *)
NextEnd == IF end + 1 = Capacity THEN 0 ELSE end + 1

Put ==
    /\ Holds(writer, "write") /\ size # Capacity
    /\ buffer' = [buffer EXCEPT ![end] = ch]
    /\ size' = size + 1
    /\ end' = NextEnd
    /\ accepted' = Append(accepted, ch)
    /\ UNCHANGED <<start, ends, ch, writes, got>>

WritePuts == Put /\ Returns(writer, Broadcast(m, "bufferCV"))

Step(t) ==
    \/ Reacquire(t)
    \/ t = reader /\ (ReadEnds \/ ReadWaits \/ ReadTakes)
    \/ t = writer /\ (WriteFails \/ WriteWaits \/ WritePuts)

Next ==
    \/ \E t \in Threads : Exec(t) \/ Exit(t) \/ Step(t)
    \/ CallRead
    \/ \E c \in Bytes : CallWrite(c)

SafetySpec == Init /\ [][Next]_vars

(* A process inside Read or Write that is not asleep is eventually run.    *)
Spec == SafetySpec /\ \A t \in Threads : WF_vars(Step(t))

-----------------------------------------------------------------------------
(* The indices stay in the buffer, start up to one past its end, and they  *)
(* are as far apart as there are bytes in the buffer.                      *)
TypeOK ==
    /\ m \in Monitors
    /\ buffer \in [0..(Capacity - 1) -> Bytes \cup {0}]
    /\ size \in 0..Capacity /\ start \in 0..Capacity /\ end \in 0..(Capacity - 1)
    /\ start + size \in {end, end + Capacity, end + 2 * Capacity}
    /\ inOpen \in {0, 1} /\ outOpen \in {0, 1}
    /\ freePipe \in BOOLEAN /\ deleted \in BOOLEAN
    /\ pc \in [Threads -> {"none", "user", "read", "write", "exited"}]
    /\ ch \in Bytes \cup {0}

(* The bytes in the ring, from the one to be read next.                    *)
Slot(i) == IF start + i - 1 < Capacity THEN start + i - 1 ELSE start + i - 1 - Capacity
Contents == [i \in 1..size |-> buffer[Slot(i)]]

(* The bytes Read returns are those Write accepted, once and in order.     *)
InOrder == accepted = got \o Contents

(* A reader asleep on the condition has nothing to read and a writer       *)
(* asleep on it has no room: with one condition for both, the Broadcasts   *)
(* of Read and Write wake whoever can go on.  So the two never sleep       *)
(* there side by side.                                                     *)
SleepJustified ==
    /\ reader \in Waiting(m) => size = 0
    /\ writer \in Waiting(m) => size = Capacity

(* Nobody is inside a pipe that has been deleted, or ever will be but      *)
(* through freePipe.                                                       *)
DeletedUnused ==
    deleted => m = NewMonitor /\ \A t \in Threads : pc[t] \in {"none", "exited"}

(* A Read with something to read returns, and so does a Write with room.   *)
ReadReturns == pc[reader] = "read" /\ size > 0 ~> pc[reader] # "read"
WriteReturns == pc[writer] = "write" /\ size < Capacity ~> pc[writer] # "write"

(* userprog/README: a process waits at an empty or full pipe "unless the   *)
(* pipe is broken on the other side, in which case the process would not   *)
(* wait".                                                                  *)
BrokenPipeEndsWait ==
    /\ pc[reader] = "read" /\ pc[writer] = "exited" ~> pc[reader] # "read"
    /\ pc[writer] = "write" /\ pc[reader] = "exited" ~> pc[writer] # "write"
=============================================================================
