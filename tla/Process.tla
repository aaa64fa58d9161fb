------------------------------ MODULE Process -------------------------------
(***************************************************************************)
(* The system calls Exec, Exit, Join and Fork (userprog/exception.cc): the *)
(* two tables, the threads and address spaces they name, and the pipes     *)
(* that Exec connects.                                                     *)
(*                                                                         *)
(* A system call runs to its end unless it sleeps or, with -rs, the timer  *)
(* switches threads where a lock or Fork has enabled interrupts.  What the *)
(* calls do to memory is in VirtualMemory, the handshake of Thread::Join   *)
(* and Finish in Threads; here it is: the child waits in Finish for Join   *)
(* to be called, Join waits for the child to be in Finish.                 *)
(***************************************************************************)
EXTENDS Integers, Sequences, FiniteSets, FiniteSetsExt

CONSTANTS
    MAXPROCESS,     \* the size of both tables
    Options,        \* the values of willJoin: 1 joinable, 2 the output is a
                    \* pipe, 4 the input is one
    MaxThreads,     \* bound on the threads in a behaviour
    MaxSwitches     \* bound on the switches inside the kernel

VARIABLES
    thread,         \* the Thread objects, in the order of creation
    TablePtr,       \* the threads in the process table; 0 is NULL
    storeTable,     \* the spaces whose backing store has each store ID
    freePipe,       \* the pipe with one end; 0 is NULL
    pipe,           \* the Pipe objects
    ids,            \* ids[s]: what Exec has returned to threads of space s,
                    \* with the thread it was returned for
    got,            \* what calls of Join have returned
    kernel,         \* the thread in the kernel that is not switched away
                    \* from, or 0
    switches,
    fault           \* "none", or what the kernel did wrong

vars == <<thread, TablePtr, storeTable, freePipe, pipe, ids, got, kernel, switches, fault>>

Index == 0..(MAXPROCESS - 1)
User == [pc |-> "user"]
Spaces == 1..MaxThreads

(* Thread::Thread.  A space has the number of its first thread.            *)
NewThread(s, join, pipeValue) ==
    [space |-> s, join |-> join, readyToJoin |-> 0, state |-> "new", pipeValue |-> pipeValue,
     inPipe |-> 0, outPipe |-> 0, spaceDeleted |-> FALSE, at |-> User]

(* StartProcess (userprog/progtest.cc): the first process.                 *)
Init ==
    /\ thread = <<[NewThread(1, 0, 0) EXCEPT !.state = "run"]>>
    /\ TablePtr = [i \in Index |-> IF i = 0 THEN 1 ELSE 0]
    /\ storeTable = [i \in Index |-> IF i = 0 THEN 1 ELSE 0]
    /\ freePipe = 0 /\ pipe = <<>>
    /\ ids = [s \in Spaces |-> {}]
    /\ got = {}
    /\ kernel = 0 /\ switches = 0
    /\ fault = "none"

(* Bits of willJoin.                                                       *)
Joins(opt) == opt % 2
Writes(opt) == (opt \div 2) % 2 = 1
Reads(opt) == (opt \div 4) % 2 = 1

(* Table::Alloc: the first entry that is NULL, or -1.                      *)
Alloc(table) ==
    IF \E i \in Index : table[i] = 0 THEN Min({i \in Index : table[i] = 0}) ELSE -1

InUser(t) ==
    /\ fault = "none" /\ kernel = 0
    /\ thread[t].state = "run" /\ thread[t].at = User /\ ~thread[t].spaceDeleted
Does(t, pc) == fault = "none" /\ kernel \in {0, t} /\ thread[t].at.pc = pc

tables == <<TablePtr, storeTable>>
pipes == <<freePipe, pipe>>
history == <<ids, got>>

-----------------------------------------------------------------------------
(* Exec2.                                                                  *)

(* What becomes of the pipes: the pipe each end of the new thread is on,   *)
(* and freePipe.  A program in the middle of a pipeline reads from         *)
(* freePipe and leaves a new pipe; at an end it takes freePipe, or makes   *)
(* it when there is none.                                                  *)
Connect(opt) ==
    LET new == Len(pipe) + 1
        end == IF freePipe = 0 THEN new ELSE freePipe
    IN  CASE Reads(opt) /\ Writes(opt) -> [in |-> freePipe, out |-> new, free |-> new]
          [] Reads(opt) /\ ~Writes(opt) ->
                [in |-> end, out |-> 0, free |-> IF freePipe = 0 THEN new ELSE 0]
          [] Writes(opt) /\ ~Reads(opt) ->
                [in |-> 0, out |-> end, free |-> IF freePipe = 0 THEN new ELSE 0]
          [] OTHER -> [in |-> 0, out |-> 0, free |-> freePipe]

NewPipe == [inOpen |-> 0, outOpen |-> 0, deleted |-> FALSE]

Opened(c) ==
    LET all == IF c.in > Len(pipe) \/ c.out > Len(pipe) THEN Append(pipe, NewPipe) ELSE pipe
    IN  [q \in DOMAIN all |-> [all[q] EXCEPT !.inOpen = IF c.in = q THEN 1 ELSE @,
                                             !.outOpen = IF c.out = q THEN 1 ELSE @]]

(* What is wrong with the pipe the call uses, if anything.                 *)
BadPipe(opt) ==
    CASE Reads(opt) /\ Writes(opt) /\ freePipe = 0 -> "no pipe"
      [] (Reads(opt) \/ Writes(opt)) /\ freePipe # 0 /\ pipe[freePipe].deleted -> "deleted pipe"
      [] OTHER -> "none"

(* Up to storeTable->Alloc: the thread and its pipes, then the arguments.  *)
(* An argument that cannot be read and a full table both end the call.     *)
Exec(t, opt) ==
    LET c == Connect(opt)
        u == Len(thread) + 1
        child == [NewThread(u, Joins(opt), IF Reads(opt) \/ Writes(opt) THEN opt ELSE 0)
                    EXCEPT !.inPipe = c.in, !.outPipe = c.out]
        store == Alloc(storeTable)
    IN  /\ InUser(t)
        /\ Len(thread) < MaxThreads
        /\ fault' = BadPipe(opt)
        /\ \/ /\ BadPipe(opt) # "none"
              /\ UNCHANGED <<thread, storeTable, pipes, kernel>>
           \/ /\ BadPipe(opt) = "none"
              /\ freePipe' = c.free
              /\ pipe' = Opened(c)
              /\ \/ /\ store # -1
                    /\ storeTable' = [storeTable EXCEPT ![store] = u]
                    /\ thread' = Append([thread EXCEPT ![t].at = [pc |-> "init", child |-> u]], child)
                    /\ kernel' = t
                 \/ /\ thread' = Append(thread, child)
                    /\ UNCHANGED <<storeTable, kernel>>
        /\ UNCHANGED <<TablePtr, history, switches>>

(* Table::Release for thread x.                                            *)
Without(table, x) == [i \in Index |-> IF table[i] = x THEN 0 ELSE table[i]]

(* The store IDs after the space and the backing store of u were made, or  *)
(* could not be.                                                           *)
StoreAfter(u, made) == IF made THEN storeTable ELSE Without(storeTable, u)

(* The address space and the backing store; either may fail and gives the  *)
(* store ID back, and the first deletes the thread.  Then Fork.            *)
ExecInit(t) ==
    LET u == thread[t].at.child
    IN  /\ Does(t, "init")
        /\ \/ /\ thread' = [thread EXCEPT ![t].at.pc = "enter", ![u].state = "run"]
              /\ kernel' = t
              /\ storeTable' = StoreAfter(u, TRUE)
           \/ /\ storeTable' = StoreAfter(u, FALSE)
              /\ thread' \in {[thread EXCEPT ![t].at = User],
                              [thread EXCEPT ![t].at = User, ![u].state = "deleted"]}
              /\ kernel' = 0
        /\ UNCHANGED <<TablePtr, pipes, history, switches, fault>>

(* TablePtr->Alloc.  When the table is full the space goes, though its     *)
(* thread has been forked.                                                 *)
ExecEnter(t) ==
    LET u == thread[t].at.child
        i == Alloc(TablePtr)
    IN  /\ Does(t, "enter")
        /\ \/ /\ i # -1
              /\ TablePtr' = [TablePtr EXCEPT ![i] = u]
              /\ ids' = [ids EXCEPT ![thread[t].space] = @ \cup {<<i + 1, u>>}]
              /\ thread' = [thread EXCEPT ![t].at = User]
              /\ UNCHANGED storeTable
           \/ /\ i = -1
              /\ storeTable' = Without(storeTable, u)
              /\ thread' = [v \in DOMAIN thread |->
                              [thread[v] EXCEPT !.at = IF v = t THEN User ELSE @,
                                                !.spaceDeleted = @ \/ thread[v].space = u]]
              /\ UNCHANGED <<TablePtr, ids>>
        /\ kernel' = 0
        /\ UNCHANGED <<pipes, got, switches, fault>>

(* A thread of a deleted space runs.                                       *)
RunWithoutSpace(t) ==
    /\ fault = "none" /\ kernel = 0
    /\ thread[t].state = "run" /\ thread[t].spaceDeleted
    /\ fault' = "deleted space"
    /\ UNCHANGED <<thread, tables, pipes, history, kernel, switches>>

-----------------------------------------------------------------------------
(* Fork2.                                                                  *)

(* The thread and its entry, if there is one to have.  Its pipeValue is    *)
(* not initialised.                                                        *)
Fork(t) ==
    LET u == Len(thread) + 1
        i == Alloc(TablePtr)
    IN  /\ InUser(t)
        /\ Len(thread) < MaxThreads
        /\ \E garbage \in {0, 6} :
              thread' = Append([thread EXCEPT ![t].at = [pc |-> "fork", child |-> u]],
                               NewThread(thread[t].space, 1, garbage))
        /\ TablePtr' = IF i = -1 THEN TablePtr ELSE [TablePtr EXCEPT ![i] = u]
        /\ kernel' = t
        /\ UNCHANGED <<storeTable, pipes, history, switches, fault>>

ForkEnd(t) ==
    /\ Does(t, "fork")
    /\ thread' = [thread EXCEPT ![t].at = User, ![thread[t].at.child].state = "run"]
    /\ kernel' = 0
    /\ UNCHANGED <<tables, pipes, history, switches, fault>>

-----------------------------------------------------------------------------
(* SysCallExit.                                                            *)

(* ClosePipes that deletes the pipe whoever closes an end.                 *)
ClosePipesBoth(r) ==
    [q \in DOMAIN pipe |->
       [pipe[q] EXCEPT !.deleted = @ \/ (Reads(r.pipeValue) /\ r.inPipe = q)
                                     \/ (Writes(r.pipeValue) /\ r.outPipe = q)]]

(* The pipes after thread r has closed its ends: an end that finds the     *)
(* other one closed deletes the pipe.                                      *)
ClosePipes(r) ==
    LET in == Reads(r.pipeValue)
        out == Writes(r.pipeValue)
    IN  [q \in DOMAIN pipe |->
           [inOpen |-> IF in /\ r.inPipe = q THEN 0 ELSE pipe[q].inOpen,
            outOpen |-> IF out /\ r.outPipe = q THEN 0 ELSE pipe[q].outOpen,
            deleted |-> \/ pipe[q].deleted
                        \/ in /\ r.inPipe = q /\ pipe[q].outOpen = 0
                        \/ out /\ r.outPipe = q /\ pipe[q].inOpen = 0]]

(* What is wrong with a pipe that thread r closes, if anything.            *)
BadEnd(r) ==
    LET ends == (IF Reads(r.pipeValue) THEN {r.inPipe} ELSE {})
                  \cup (IF Writes(r.pipeValue) THEN {r.outPipe} ELSE {})
    IN  CASE 0 \in ends -> "garbage pipe"
          [] 0 \notin ends /\ \E q \in ends : pipe[q].deleted -> "deleted pipe"
          [] OTHER -> "none"

Exit(t) ==
    /\ InUser(t)
    /\ fault' = BadEnd(thread[t])
    /\ \/ fault' # "none" /\ UNCHANGED <<thread, pipe, kernel>>
       \/ /\ fault' = "none"
          /\ pipe' = ClosePipes(thread[t])
          /\ thread' = [thread EXCEPT ![t].at = [pc |-> "get", i |-> 0]]
          /\ kernel' = t
    /\ UNCHANGED <<tables, freePipe, history, switches>>

(* One turn of the loop over the table: Get, then the test of the thread   *)
(* it returned, and Release.                                               *)
ExitGet(t) ==
    /\ Does(t, "get")
    /\ thread' = [thread EXCEPT ![t].at = [pc |-> "release", i |-> @.i, temp |-> TablePtr[@.i]]]
    /\ kernel' = t
    /\ UNCHANGED <<tables, pipes, history, switches, fault>>

(* Thread::Finish: a thread that may be joined waits for that, another is  *)
(* deleted.                                                                *)
Finish(r) == CASE r.join = 0 -> "deleted"
               [] r.join = 1 /\ r.readyToJoin = 1 -> "done"
               [] OTHER -> "waiting"

(* The table after thread t has looked at temp, the entry i; and one that  *)
(* keeps the thread, and one that releases every thread.                   *)
ReleasedNot(t, i, temp) == TablePtr
ReleasedAny(t, i, temp) == [TablePtr EXCEPT ![i] = 0]
Released(t, i, temp) ==
    IF temp # 0 /\ thread[temp].space = thread[t].space
    THEN [TablePtr EXCEPT ![i] = 0] ELSE TablePtr

ExitRelease(t) ==
    LET i == thread[t].at.i
        temp == thread[t].at.temp
        last == i + 1 = MAXPROCESS
    IN  /\ Does(t, "release")
        /\ \/ /\ temp # 0 /\ thread[temp].state = "deleted"
              /\ fault' = "deleted thread"
              /\ UNCHANGED <<thread, TablePtr, kernel>>
           \/ /\ temp # 0 => thread[temp].state # "deleted"
              /\ TablePtr' = Released(t, i, temp)
              /\ thread' = [thread EXCEPT
                              ![t].at = [pc |-> IF last THEN "finished" ELSE "get", i |-> i + 1],
                              ![t].state = IF last THEN Finish(thread[t]) ELSE @]
              /\ kernel' = IF last THEN 0 ELSE t
              /\ UNCHANGED fault
        /\ UNCHANGED <<storeTable, pipes, history, switches>>

-----------------------------------------------------------------------------
(* Join2.                                                                  *)

(* Whether a thread of space s has begun to exit, or has finished.         *)
Exits(s, pcs) == \E v \in DOMAIN thread : thread[v].space = s /\ thread[v].at.pc \in pcs
Gone(s) == Exits(s, {"get", "release", "finished"})
When(s) == CASE Exits(s, {"finished"}) -> "after" [] ~Gone(s) -> "before" [] OTHER -> "during"

(* Table::Get for an id that Exec has returned for thread c.               *)
Join(t, id, c) ==
    /\ InUser(t)
    /\ <<id, c>> \in ids[thread[t].space]
    /\ thread' = [thread EXCEPT ![t].at = [pc |-> "joins", child |-> c, call |-> When(c),
                                           joinThread |-> TablePtr[id - 1]]]
    /\ kernel' = t
    /\ UNCHANGED <<tables, pipes, history, switches, fault>>

Returns(t, v) ==
    /\ got' = got \cup {[child |-> thread[t].at.child, call |-> thread[t].at.call, value |-> v]}
    /\ thread' = [thread EXCEPT ![t].at = User]
    /\ kernel' = 0

(* The tests of Join2, then Thread::Join up to its Wait: its assertions    *)
(* stop the kernel when the thread is being joined, or joins itself.       *)
JoinChecks(t) ==
    LET e == thread[t].at.joinThread
    IN  /\ Does(t, "joins")
        /\ \/ /\ e # 0 => thread[e].state # "deleted" /\ thread[e].join = 0
              /\ Returns(t, -65535)
              /\ UNCHANGED fault
           \/ /\ e # 0 /\ thread[e].state = "deleted"
              /\ fault' = "deleted thread"
              /\ UNCHANGED <<thread, got, kernel>>
           \/ /\ e # 0 /\ thread[e].state # "deleted" /\ thread[e].join = 1
              /\ \/ /\ e = t \/ thread[e].readyToJoin = 1 \/ thread[e].state = "new"
                    /\ fault' = "assertion"
                    /\ UNCHANGED <<thread, kernel>>
                 \/ /\ e # t /\ thread[e].readyToJoin = 0 /\ thread[e].state # "new"
                    /\ thread' = [thread EXCEPT ![t].at.pc = "waits", ![e].readyToJoin = 1,
                                    ![e].state = IF @ = "waiting" THEN "done" ELSE @]
                    /\ kernel' = 0
                    /\ UNCHANGED fault
              /\ UNCHANGED got
        /\ UNCHANGED <<tables, pipes, ids, switches>>

(* Join returns; the child, woken by its last Signal, may then be deleted. *)
JoinEnds(t) ==
    /\ Does(t, "waits")
    /\ thread[thread[t].at.joinThread].state = "done"
    /\ thread' = [thread EXCEPT ![t].at.pc = "joined"]
    /\ kernel' = t
    /\ UNCHANGED <<tables, pipes, history, switches, fault>>

Deletion(u) ==
    /\ fault = "none" /\ kernel = 0
    /\ thread[u].state = "done"
    /\ \A t \in DOMAIN thread : thread[t].at.pc = "waits" => thread[t].at.joinThread # u
    /\ thread' = [thread EXCEPT ![u].state = "deleted"]
    /\ UNCHANGED <<tables, pipes, history, kernel, switches, fault>>

(* getJoinValue.  The status of a thread is its number.                    *)
JoinValue(t) ==
    LET e == thread[t].at.joinThread
    IN  /\ Does(t, "joined")
        /\ \/ /\ thread[e].state = "deleted"
              /\ fault' = "deleted thread"
              /\ UNCHANGED <<thread, got, kernel>>
           \/ /\ thread[e].state # "deleted"
              /\ Returns(t, e)
              /\ UNCHANGED fault
        /\ UNCHANGED <<tables, pipes, ids, switches>>

-----------------------------------------------------------------------------
(* The timer interrupts the kernel.                                        *)
Preempt ==
    /\ fault = "none" /\ kernel # 0 /\ switches < MaxSwitches
    /\ kernel' = 0
    /\ switches' = switches + 1
    /\ UNCHANGED <<thread, tables, pipes, history, fault>>

KernelStep(t) ==
    \/ ExecInit(t) \/ ExecEnter(t) \/ ForkEnd(t) \/ ExitGet(t) \/ ExitRelease(t)
    \/ JoinChecks(t) \/ JoinEnds(t) \/ JoinValue(t)

Next ==
    \/ \E t \in DOMAIN thread :
          \/ \E opt \in Options : Exec(t, opt)
          \/ Fork(t) \/ Exit(t) \/ RunWithoutSpace(t) \/ KernelStep(t) \/ Deletion(t)
          \/ \E id \in ids[thread[t].space] : Join(t, id[1], id[2])
    \/ Preempt

Spec == Init /\ [][Next]_vars

-----------------------------------------------------------------------------
(* The entries of both tables, and the states of the threads.              *)
TypeOK ==
    /\ TablePtr \in [Index -> 0..Len(thread)]
    /\ storeTable \in [Index -> 0..Len(thread)]
    /\ freePipe \in 0..Len(pipe)
    /\ \A t \in DOMAIN thread :
          /\ thread[t].state \in {"new", "run", "waiting", "done", "deleted"}
          /\ {thread[t].inPipe, thread[t].outPipe} \subseteq 0..Len(pipe)
    /\ kernel \in 0..Len(thread)

(* No exit has been switched away from while another thread of the same    *)
(* process exited too: then one may release an entry that it looked at     *)
(* before the other released it, and that is by now another process's.     *)
ExitsApart ==
    switches = 0 \/ \A u, v \in DOMAIN thread :
        /\ thread[u].space = thread[v].space
        /\ {thread[u].at.pc, thread[v].at.pc} \subseteq {"get", "release", "finished"}
        => u = v

(* Join returns the exit status of the process its id was given for if it  *)
(* is called before that process exits and, when the timer does not switch *)
(* threads inside a call, never if it is called after: a process leaves    *)
(* the table when it exits, and its entry may by then be another's.        *)
StatusOnlyIfInTime ==
    \A g \in got :
        /\ g.call = "before" /\ thread[g.child].join = 1 /\ ExitsApart => g.value = g.child
        /\ g.call = "after" /\ switches = 0 => g.value # g.child

(* The id that Exec has returned goes on naming the same process until a   *)
(* thread of that process exits.                                           *)
IdNamesProcess ==
    ExitsApart => \A s \in Spaces : \A id \in ids[s] :
                      ~Gone(id[2]) => TablePtr[id[1] - 1] = id[2]

(* A store ID is never given back by a process that has started: it counts *)
(* processes ever started, and after MAXPROCESS of them Exec fails for     *)
(* ever, however many have exited.                                         *)
StoreIdForLife ==
    LET made(u) == \/ thread[u].state \notin {"new", "deleted"}
                   \/ thread[u].at.pc = "finished"
        making(u) == \E t \in DOMAIN thread : thread[t].at = [pc |-> "init", child |-> u]
    IN  {storeTable[i] : i \in Index} \ {0} =
          {u \in DOMAIN thread : /\ thread[u].space = u /\ ~thread[u].spaceDeleted
                                 /\ made(u) \/ making(u)}

(* A process whose Exec is refused for want of an entry loses its space    *)
(* while its thread is ready.  The two tables have one size, so that       *)
(* happens only after a Fork, whose threads take entries but no store IDs. *)
SpaceOutlivesThread ==
    fault = "deleted space" => \E u \in DOMAIN thread : thread[u].space # u

(* The kernel uses a deleted thread, by a table entry or after Join, only  *)
(* if the timer has switched threads inside a system call.                 *)
ThreadOutlivesUse == fault = "deleted thread" => switches > 0

(* A process that runs still has its pipes, unless two processes have been *)
(* put on one end of a pipe.                                               *)
PipeOutlivesUsers ==
    LET on(q, end) == {t \in DOMAIN thread : thread[t][end] = q}
    IN  \A t \in DOMAIN thread : \A q \in {thread[t].inPipe, thread[t].outPipe} \ {0} :
          thread[t].state = "run" /\ thread[t].at = User /\ pipe[q].deleted =>
            Cardinality(on(q, "inPipe")) > 1 \/ Cardinality(on(q, "outPipe")) > 1

(* A thread that waits to be joined when it exits waits for ever, if the   *)
(* timer does not switch threads inside a call: it has left the table, and *)
(* only a thread in the table can be joined.                               *)
NeverReclaimed ==
    [][\A u \in DOMAIN thread :
         thread[u].state = "waiting" /\ switches' = 0 => thread'[u].state = "waiting"]_vars
=============================================================================
