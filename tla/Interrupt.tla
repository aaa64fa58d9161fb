----------------------------- MODULE Interrupt ------------------------------
(***************************************************************************)
(* Simulated time, interrupts and the timer (machine/interrupt.cc and      *)
(* timer.cc), with threads that run in the kernel and in user mode, ask    *)
(* devices for work and sleep until the device's interrupt.                *)
(*                                                                         *)
(* Times on the list of pending interrupts are relative to totalTicks.     *)
(* The threads have the same priority, so the ready list is in order of    *)
(* arrival.  Nobody but the machine acts between the beginning of OneTick  *)
(* or Idle and its end; each call of CheckIfDue in between is a step.      *)
(***************************************************************************)
EXTENDS List, FiniteSets, Functions

CONSTANTS
    Threads,        \* the threads
    Main,           \* the one that runs first
    NULL,           \* no thread, no saved status
    SystemTick, UserTick,
    Delays,         \* how long a device may take
    TimerDelays     \* the values of TimeOfNextInterrupt; {}: no timer

ASSUME InterruptAssumption ==
    /\ Main \in Threads /\ NULL \notin Threads \cup {"SystemMode", "UserMode"}
    /\ SystemTick \in Nat \ {0} /\ UserTick \in Nat \ {0}
    /\ Delays \subseteq Nat \ {0} /\ TimerDelays \subseteq Nat \ {0}

VARIABLES
    pending,        \* keyed by when - totalTicks
    status,         \* IdleMode, SystemMode or UserMode
    yieldOnReturn,
    doing,          \* running a thread, in OneTick, before or after the first
                    \* CheckIfDue of Idle, or halted
    currentThread, readyList,
    at,             \* what each thread does, or will when it is run again
    fault,          \* the threads in the handler of a fault of the kernel
    old             \* OneTick's local variable, of a thread that yielded there

vars == <<pending, status, yieldOnReturn, doing, currentThread, readyList, at, fault, old>>

Timer == [type |-> "TimerInt", thread |-> NULL]
Device(t) == [type |-> "DeviceInt", thread |-> t]

Init ==
    /\ status = "SystemMode" /\ yieldOnReturn = FALSE /\ doing = "run"
    /\ currentThread = Main /\ readyList = <<>>
    /\ at = [t \in Threads |-> IF t = Main THEN "kernel" ELSE "new"]
    /\ fault = {}
    /\ old = [t \in Threads |-> NULL]
    /\ IF TimerDelays = {} THEN pending = <<>>
       ELSE \E d \in TimerDelays : pending = <<Element(Timer, d)>>

Running(t, place) == doing = "run" /\ currentThread = t /\ at[t] = place

(* The pending list when n ticks have passed.                              *)
Elapse(list, n) == [i \in DOMAIN list |-> [list[i] EXCEPT !.key = @ - n]]

Schedule(list, toOccur, fromNow) == SortedInsert(list, toOccur, fromNow)

(* OneTick, to its first CheckIfDue, in machine status st.                 *)
OneTick(st) ==
    /\ doing' = "tick"
    /\ status' = st
    /\ pending' = Elapse(pending, IF st = "SystemMode" THEN SystemTick ELSE UserTick)

(* The first ready thread continues where it gave up the processor, with   *)
(* the machine in status st: in OneTick the status is set to what it was.  *)
Switch(ready, places, olds, st) ==
    LET next == Head(ready) IN
    /\ currentThread' = next
    /\ readyList' = Tail(ready)
    /\ doing' = "run"
    /\ at' = [places EXCEPT ![next] = IF @ \in {"new", "waiting"} THEN "kernel" ELSE @]
    /\ old' = [olds EXCEPT ![next] = NULL]
    /\ status' = IF olds[next] # NULL THEN olds[next] ELSE st

(* Sleep: another thread, or Idle to its first CheckIfDue.                 *)
Sleep(places, st) ==
    \/ readyList # <<>> /\ Switch(readyList, places, old, st)
    \/ /\ readyList = <<>>
       /\ doing' = "idleFirst"
       /\ status' = "IdleMode"
       /\ at' = places
       /\ UNCHANGED <<currentThread, readyList, old>>

-----------------------------------------------------------------------------
(* The running thread.                                                     *)

(* An instruction of a user program.                                       *)
OneInstruction(t) ==
    /\ Running(t, "user")
    /\ OneTick(status)
    /\ UNCHANGED <<yieldOnReturn, currentThread, readyList, at, fault, old>>

(* An instruction that raises an exception, to the handler.                *)
RaiseException(t) ==
    /\ Running(t, "user")
    /\ status' = "SystemMode"
    /\ at' = [at EXCEPT ![t] = "kernel"]
    /\ UNCHANGED <<pending, yieldOnReturn, doing, currentThread, readyList, fault, old>>

(* The end of RaiseException, and of the instruction.                      *)
ReturnToUser(t) ==
    /\ Running(t, "kernel") /\ t \notin fault
    /\ OneTick("UserMode")
    /\ at' = [at EXCEPT ![t] = "user"]
    /\ UNCHANGED <<yieldOnReturn, currentThread, readyList, fault, old>>

(* A system call reads or writes user memory that is not present: the      *)
(* kernel raises an exception itself, to the SetLevel in the handler's     *)
(* allocation of a frame.                                                  *)
RaiseInKernel(t) ==
    /\ Running(t, "kernel") /\ t \notin fault
    /\ OneTick("SystemMode")
    /\ fault' = fault \cup {t}
    /\ UNCHANGED <<yieldOnReturn, currentThread, readyList, at, old>>

(* The end of that RaiseException, back in the system call.                *)
ReturnToKernel(t) ==
    /\ Running(t, "kernel") /\ t \in fault
    /\ status' = "UserMode"
    /\ fault' = fault \ {t}
    /\ UNCHANGED <<pending, yieldOnReturn, doing, currentThread, readyList, at, old>>

(* SetLevel(IntOn) in kernel code, after a stretch with interrupts off.    *)
SetLevelOn(t) ==
    /\ Running(t, "kernel")
    /\ OneTick(status)
    /\ UNCHANGED <<yieldOnReturn, currentThread, readyList, at, fault, old>>

(* Fork of a new thread, with the SetLevel at its end.                     *)
Fork(t, u) ==
    /\ Running(t, "kernel") /\ at[u] = "new" /\ u \notin Range(readyList)
    /\ OneTick(status)
    /\ readyList' = Append(readyList, u)
    /\ UNCHANGED <<yieldOnReturn, currentThread, at, fault, old>>

(* A request to a device, which schedules the interrupt, and the P that    *)
(* waits for it.                                                           *)
Request(t, fromNow) ==
    /\ Running(t, "kernel")
    /\ pending' = Schedule(pending, Device(t), fromNow)
    /\ Sleep([at EXCEPT ![t] = "waiting"], status)
    /\ UNCHANGED <<yieldOnReturn, fault>>

Finish(t) ==
    /\ Running(t, "kernel")
    /\ Sleep([at EXCEPT ![t] = "finished"], status)
    /\ fault' = fault \ {t}
    /\ UNCHANGED <<pending, yieldOnReturn>>

-----------------------------------------------------------------------------
(* CheckIfDue.                                                             *)

(* There is an interrupt, and its time has come or the clock is advanced.  *)
Due == pending # <<>> /\ (doing = "idleFirst" \/ Head(pending).key <= 0)

(* An idle machine that stops for the timer whatever else is pending.      *)
NothingMoreForTimer ==
    status = "IdleMode" /\ pending # <<>> /\ Head(pending).item = Timer

(* An idle machine has nothing to wait for but the timer.                  *)
NothingMore ==
    status = "IdleMode" /\ Len(pending) = 1 /\ Head(pending).item = Timer

(* The list without its first element, at the time that one fires.         *)
Remaining ==
    Elapse(Tail(pending), IF doing = "idleFirst" /\ Head(pending).key > 0 THEN Head(pending).key ELSE 0)

AfterFirst == IF doing = "idleFirst" THEN "idle" ELSE doing

(* A timer that only schedules its next interrupt.                         *)
TimerExpiredSilently ==
    /\ doing \in {"tick", "idleFirst", "idle"}
    /\ Due /\ ~NothingMore /\ Head(pending).item = Timer
    /\ \E d \in TimerDelays : pending' = Schedule(Remaining, Timer, d)
    /\ doing' = AfterFirst
    /\ UNCHANGED <<status, yieldOnReturn, currentThread, readyList, at, fault, old>>

(* The timer's handler: it schedules the next interrupt and asks for a     *)
(* Yield.  The status it tests is SystemMode in every handler.             *)
TimerExpired ==
    /\ doing \in {"tick", "idleFirst", "idle"}
    /\ Due /\ ~NothingMore /\ Head(pending).item = Timer
    /\ \E d \in TimerDelays : pending' = Schedule(Remaining, Timer, d)
    /\ yieldOnReturn' = TRUE
    /\ doing' = AfterFirst
    /\ UNCHANGED <<status, currentThread, readyList, at, fault, old>>

(* A device's handler: V, which makes the thread ready.                    *)
DeviceDone ==
    /\ doing \in {"tick", "idleFirst", "idle"}
    /\ Due /\ ~NothingMore /\ Head(pending).item # Timer
    /\ pending' = Remaining
    /\ readyList' = Append(readyList, Head(pending).item.thread)
    /\ doing' = AfterFirst
    /\ UNCHANGED <<status, yieldOnReturn, currentThread, at, fault, old>>

-----------------------------------------------------------------------------
(* The ends of OneTick and Idle, when CheckIfDue returns FALSE.            *)

(* Nobody asked for a Yield, or nobody is ready.                           *)
TickReturns ==
    /\ doing = "tick" /\ ~Due
    /\ ~yieldOnReturn \/ readyList = <<>>
    /\ doing' = "run"
    /\ yieldOnReturn' = FALSE
    /\ UNCHANGED <<pending, status, currentThread, readyList, at, fault, old>>

(* OneTick that does not put the status back after Yield.                  *)
TickYieldsForgettingStatus ==
    /\ doing = "tick" /\ ~Due
    /\ yieldOnReturn /\ readyList # <<>>
    /\ yieldOnReturn' = FALSE
    /\ Switch(Append(readyList, currentThread), at, old, "SystemMode")
    /\ UNCHANGED <<pending, fault>>

TickYields ==
    /\ doing = "tick" /\ ~Due
    /\ yieldOnReturn /\ readyList # <<>>
    /\ yieldOnReturn' = FALSE
    /\ Switch(Append(readyList, currentThread), at, [old EXCEPT ![currentThread] = status], "SystemMode")
    /\ UNCHANGED <<pending, fault>>

(* Idle returns to Sleep, which finds a thread to run or is idle again.    *)
IdleReturns ==
    /\ doing = "idle" /\ ~(Due /\ ~NothingMore)
    /\ yieldOnReturn' = FALSE
    /\ Sleep(at, "SystemMode")
    /\ UNCHANGED <<pending, fault>>

(* Idle finds nothing to wait for.                                         *)
Halt ==
    /\ doing = "idleFirst" /\ (pending = <<>> \/ NothingMore)
    /\ doing' = "halted"
    /\ UNCHANGED <<pending, status, yieldOnReturn, currentThread, readyList, at, fault, old>>

Halted == doing = "halted" /\ UNCHANGED vars

Machine == TimerExpired \/ DeviceDone \/ TickReturns \/ TickYields \/ IdleReturns \/ Halt

Run(t) ==
    \/ OneInstruction(t) \/ RaiseException(t) \/ ReturnToUser(t)
    \/ RaiseInKernel(t) \/ ReturnToKernel(t)
    \/ SetLevelOn(t) \/ Finish(t)
    \/ \E u \in Threads : Fork(t, u)
    \/ \E d \in Delays : Request(t, d)

Next == Machine \/ Halted \/ \E t \in Threads : Run(t)

(* The simulation does not stop.                                           *)
Spec == Init /\ [][Next]_vars /\ WF_vars(Machine) /\ WF_vars(\E t \in Threads : Run(t))

-----------------------------------------------------------------------------
TypeOK ==
    /\ Range(pending) \subseteq [item : {Timer} \cup {Device(t) : t \in Threads}, key : Int]
    /\ Sorted(pending)
    /\ status \in {"IdleMode", "SystemMode", "UserMode"}
    /\ yieldOnReturn \in BOOLEAN
    /\ doing \in {"run", "tick", "idleFirst", "idle", "halted"}
    /\ currentThread \in Threads
    /\ Range(readyList) \subseteq Threads /\ IsInjective(readyList)
    /\ at \in [Threads -> {"new", "user", "kernel", "waiting", "finished"}]
    /\ fault \subseteq Threads
    /\ old \in [Threads -> {NULL, "SystemMode", "UserMode"}]

(* When a thread goes on, every device's interrupt whose time has come has *)
(* been delivered.  (Idle may leave the timer's, if it is the only one.)   *)
NothingOverdue ==
    doing = "run" =>
        \A i \in DOMAIN pending : pending[i].item # Timer => pending[i].key > 0

(* Each thread that sleeps for a device has exactly one interrupt to come, *)
(* and no other thread has any: CheckIfDue neither drops nor repeats one.  *)
InterruptsPairUp ==
    \A t \in Threads :
        Cardinality({i \in DOMAIN pending : pending[i].item = Device(t)})
            = IF at[t] = "waiting" /\ t \notin Range(readyList) THEN 1 ELSE 0

(* Idle halts the machine only when there is nothing left to run: nobody   *)
(* waits for a device, and nobody is ready.                                *)
HaltsWhenDone ==
    doing = "halted" => readyList = <<>> /\ \A t \in Threads : at[t] \in {"new", "finished"}

(* User code runs in UserMode, whatever other threads have done to the     *)
(* machine's status since it was last interrupted.                         *)
UserInUserMode == doing = "run" /\ at[currentThread] = "user" => status = "UserMode"

(* Each thread that waits for a device has exactly one interrupt to come,  *)
(* no device's interrupt is overdue when a thread goes on, and user code   *)
(* runs in user mode, whatever switches OneTick has made.                  *)
MachineSound == TypeOK /\ NothingOverdue /\ InterruptsPairUp /\ UserInUserMode

(* A request to a device completes.                                        *)
IOCompletes == \A t \in Threads : at[t] = "waiting" ~> at[t] # "waiting"

(* With the timer a thread that is ready gets to run although the others   *)
(* never give up the processor (all have the same priority).               *)
TimeSliced == \A t \in Threads : t \in Range(readyList) ~> currentThread = t

(* Every request to a device completes, and the timer lets every thread    *)
(* that is ready run.                                                      *)
ThreadsGoOn == IOCompletes /\ TimeSliced
=============================================================================
