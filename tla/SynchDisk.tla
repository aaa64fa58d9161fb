----------------------------- MODULE SynchDisk ------------------------------
(***************************************************************************)
(* The disk (machine/disk.cc) and the synchronous interface to it          *)
(* (filesys/synchdisk.cc).  A request reads or writes the sector at once   *)
(* and schedules an interrupt for when the head has passed the sector; the *)
(* interrupt handler does V, for which the caller waits in P.              *)
(*                                                                         *)
(* The lock and the semaphore are those of Monitor and Semaphore: here a   *)
(* holder and a count.  The clock advances to the interrupt, or by what a  *)
(* thread spends between two calls.                                        *)
(***************************************************************************)
EXTENDS Integers

CONSTANTS
    Threads, NONE,
    SectorsPerTrack, NumTracks,
    SeekTime,           \* ticks to seek past one track
    RotationTime,       \* ticks to rotate past one sector
    Data,               \* what a sector can hold
    Zero,               \* and does on a new disk
    MaxCalls,           \* bound on the calls of all threads
    Pauses              \* the ticks a thread may spend before a call

ASSUME DiskAssumption ==
    /\ NONE \notin Threads
    /\ SectorsPerTrack \in Nat \ {0} /\ NumTracks \in Nat \ {0}
    /\ SeekTime \in Nat \ {0} /\ RotationTime \in Nat \ {0}
    /\ Zero \in Data /\ MaxCalls \in Nat /\ Pauses \subseteq Nat

VARIABLES
    sector,             \* the disk's contents
    active,             \* Disk::active
    lastSector, bufferInit,
    due,                \* when the interrupt is scheduled for
    totalTicks,
    holder,             \* who holds SynchDisk::lock
    semaphore,          \* the value of SynchDisk::semaphore
    pc,                 \* how far each thread is in its call
    call,               \* the call: its sector, and the data or Zero
    data,               \* the caller's buffer
    calls,
    broken              \* an assertion of the disk has failed

disk == <<sector, active, lastSector, bufferInit, due, totalTicks, broken>>
vars == <<disk, holder, semaphore, pc, call, data, calls>>

NumSectors == SectorsPerTrack * NumTracks
Sectors == 0..(NumSectors - 1)
Calls == [sector : Sectors, writing : BOOLEAN, value : Data]

Init ==
    /\ sector = [s \in Sectors |-> Zero]
    /\ active = FALSE /\ lastSector = 0 /\ bufferInit = 0 /\ due = 0 /\ totalTicks = 0
    /\ holder = NONE /\ semaphore = 0
    /\ pc = [t \in Threads |-> "idle"]
    /\ call = [t \in Threads |-> [sector |-> 0, writing |-> FALSE, value |-> Zero]]
    /\ data = [t \in Threads |-> Zero]
    /\ calls = 0
    /\ broken = FALSE

-----------------------------------------------------------------------------
(* Disk::TimeToSeek: the time to seek, and from then to the next boundary  *)
(* of two sectors.                                                         *)
Distance(a, b) == IF a < b THEN b - a ELSE a - b
TimeToSeek(s) == Distance(s \div SectorsPerTrack, lastSector \div SectorsPerTrack) * SeekTime

Rotation(s) ==
    LET over == (totalTicks + TimeToSeek(s)) % RotationTime
    IN  IF over > 0 THEN RotationTime - over ELSE 0

ModuloDiff(to, from) ==
    (((to % SectorsPerTrack) - (from % SectorsPerTrack)) + SectorsPerTrack) % SectorsPerTrack

(* InBuffer that takes a sector that is passing by to be there.            *)
InBufferEarly(s, after) ==
    (after - bufferInit) \div RotationTime >= ModuloDiff(s, bufferInit \div RotationTime)

(* Whether the track buffer has the sector at time after.                  *)
InBuffer(s, after) ==
    (after - bufferInit) \div RotationTime > ModuloDiff(s, bufferInit \div RotationTime)

ComputeLatency(s, writing) ==
    LET seek == TimeToSeek(s)
        after == totalTicks + seek + Rotation(s)
    IN  IF ~writing /\ seek = 0 /\ InBuffer(s, after) THEN RotationTime
        ELSE seek + Rotation(s) + ModuloDiff(s, after \div RotationTime) * RotationTime
               + RotationTime

(* Disk::UpdateLast: a seek begins to fill the track buffer anew.          *)
UpdateLast(s) ==
    /\ bufferInit' = IF TimeToSeek(s) # 0 THEN totalTicks + TimeToSeek(s) + Rotation(s)
                     ELSE bufferInit
    /\ lastSector' = s

(* Disk::ReadRequest and WriteRequest.                                     *)
Request(s, writing, value) ==
    /\ broken' = (broken \/ active)
    /\ sector' = IF writing THEN [sector EXCEPT ![s] = value] ELSE sector
    /\ active' = TRUE
    /\ due' = totalTicks + ComputeLatency(s, writing)
    /\ UpdateLast(s)
    /\ UNCHANGED totalTicks

-----------------------------------------------------------------------------
(* A thread calls ReadSector or WriteSector.                               *)
Call(t, c) ==
    /\ pc[t] = "idle" /\ calls < MaxCalls
    /\ c.writing \/ c.value = Zero
    /\ \E pause \in Pauses : totalTicks' = totalTicks + pause
    /\ pc' = [pc EXCEPT ![t] = "acquire"]
    /\ call' = [call EXCEPT ![t] = c]
    /\ calls' = calls + 1
    /\ UNCHANGED <<sector, active, lastSector, bufferInit, due, broken, holder, semaphore, data>>

(* Acquire that does not wait for the lock.                                *)
AcquireAnyway(t) ==
    /\ pc[t] = "acquire"
    /\ holder' = t
    /\ pc' = [pc EXCEPT ![t] = "request"]
    /\ UNCHANGED <<disk, semaphore, call, data, calls>>

(* lock->Acquire().                                                        *)
Acquire(t) ==
    /\ pc[t] = "acquire" /\ holder = NONE
    /\ holder' = t
    /\ pc' = [pc EXCEPT ![t] = "request"]
    /\ UNCHANGED <<disk, semaphore, call, data, calls>>

(* The request; a read fills the caller's buffer.                          *)
DoRequest(t) ==
    /\ pc[t] = "request"
    /\ Request(call[t].sector, call[t].writing, call[t].value)
    /\ data' = IF call[t].writing THEN data ELSE [data EXCEPT ![t] = sector[call[t].sector]]
    /\ pc' = [pc EXCEPT ![t] = "wait"]
    /\ UNCHANGED <<holder, semaphore, call, calls>>

(* Wait that returns without the interrupt.                                *)
WaitNot(t) ==
    /\ pc[t] = "wait"
    /\ pc' = [pc EXCEPT ![t] = "release"]
    /\ UNCHANGED <<disk, holder, semaphore, call, data, calls>>

(* semaphore->P().                                                         *)
Wait(t) ==
    /\ pc[t] = "wait" /\ semaphore > 0
    /\ semaphore' = semaphore - 1
    /\ pc' = [pc EXCEPT ![t] = "release"]
    /\ UNCHANGED <<disk, holder, call, data, calls>>

(* lock->Release(), and the call returns.                                  *)
Release(t) ==
    /\ pc[t] = "release"
    /\ holder' = NONE
    /\ pc' = [pc EXCEPT ![t] = "idle"]
    /\ UNCHANGED <<disk, semaphore, call, data, calls>>

(* SynchDisk::RequestDone.                                                 *)
RequestDone == semaphore' = semaphore + 1

(* Disk::HandleInterrupt, which calls RequestDone.                         *)
HandleInterrupt ==
    /\ active
    /\ active' = FALSE
    /\ RequestDone
    /\ totalTicks' = IF totalTicks < due THEN due ELSE totalTicks
    /\ UNCHANGED <<sector, lastSector, bufferInit, due, broken, holder, pc, call, data, calls>>

Step(t) == Acquire(t) \/ DoRequest(t) \/ Wait(t) \/ Release(t)

Next ==
    \/ \E t \in Threads : Step(t) \/ \E c \in Calls : Call(t, c)
    \/ HandleInterrupt

(* A thread waiting for the lock is in the lock's queue, and the clock     *)
(* advances to the interrupt when no thread is ready.                      *)
Fairness == (\A t \in Threads : SF_vars(Step(t))) /\ WF_vars(HandleInterrupt)
Spec == Init /\ [][Next]_vars /\ Fairness

-----------------------------------------------------------------------------
(* The types of the disk's and the callers' state.                         *)
TypeOK ==
    /\ sector \in [Sectors -> Data]
    /\ active \in BOOLEAN /\ broken \in BOOLEAN
    /\ lastSector \in Sectors /\ {bufferInit, due, totalTicks} \subseteq Nat
    /\ holder \in Threads \cup {NONE} /\ semaphore \in 0..1
    /\ pc \in [Threads -> {"idle", "acquire", "request", "wait", "release"}]
    /\ call \in [Threads -> Calls] /\ data \in [Threads -> Data]
    /\ calls \in 0..MaxCalls

(* The disk's assertion that there is one request at a time holds: the     *)
(* lock is held from before the request until the interrupt.               *)
OneRequest == ~broken

(* A call returns when its own request is done, not another's: whoever has *)
(* passed P finds the disk idle and the semaphore used up.                 *)
OwnInterrupt == \A t \in Threads : pc[t] = "release" => ~active /\ semaphore = 0 /\ holder = t

(* The two together, and the semaphore never above one: requests, and the  *)
(* interrupts that answer them, take turns.                                *)
RequestsTakeTurns == TypeOK /\ OneRequest /\ OwnInterrupt

(* What a read returns is what its sector holds when the call returns, as  *)
(* no write can come between the request and the return.                   *)
ReadIsCurrent ==
    \A t \in Threads : pc[t] \in {"wait", "release"} /\ ~call[t].writing =>
        data[t] = sector[call[t].sector]

(* The strengthening that makes these inductive: the lock is held from     *)
(* before the request until after P, and only then is there a request or a *)
(* V that no P has taken, of which there is one or the other.              *)
Turns ==
    /\ \A t \in Threads : (holder = t) <=> (pc[t] \in {"request", "wait", "release"})
    /\ \A t \in Threads : pc[t] = "wait" => semaphore = IF active THEN 0 ELSE 1
    /\ (\A t \in Threads : pc[t] # "wait") => ~active /\ semaphore = 0
Inv == TypeOK /\ OneRequest /\ ReadIsCurrent /\ Turns

(* The interrupt comes when the head has just passed the sector for the    *)
(* first time after the seek, or, for a read of the track it is on, one    *)
(* sector's time later if the head has passed it since it came there: the  *)
(* time that ComputeLatency computes is the one a simulation of the        *)
(* rotating disk gives.                                                    *)
PassedAt(s, from) ==
    CHOOSE f \in from..(from + (SectorsPerTrack + 2) * RotationTime) :
        /\ f % RotationTime = 0 /\ f - RotationTime >= from
        /\ ((f \div RotationTime) - 1) % SectorsPerTrack = s % SectorsPerTrack
        /\ \A g \in from..(f - 1) :
              ~(/\ g % RotationTime = 0 /\ g - RotationTime >= from
                /\ ((g \div RotationTime) - 1) % SectorsPerTrack = s % SectorsPerTrack)
LatencyIsRotation ==
    \A s \in Sectors, writing \in BOOLEAN :
        LET buffered == /\ ~writing /\ TimeToSeek(s) = 0
                        /\ PassedAt(s, bufferInit) <= totalTicks + Rotation(s)
        IN  ~active => ComputeLatency(s, writing) =
                IF buffered THEN RotationTime
                ELSE PassedAt(s, totalTicks + TimeToSeek(s)) - totalTicks

(* It rests on where the track buffer begins to be filled: at the boundary *)
(* of two sectors.                                                         *)
BufferAtBoundary == bufferInit % RotationTime = 0

(* Every call returns.                                                     *)
CallReturns == \A t \in Threads : pc[t] # "idle" ~> pc[t] = "idle"
=============================================================================
