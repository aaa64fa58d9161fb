----------------------------- MODULE ThreadTest -----------------------------
(***************************************************************************)
(* The tests of threads/threadtest.cc, run by the kernel they test: the    *)
(* scheduler, Thread::Join and Finish, Lock, Condition, Semaphore, Mailbox *)
(* and Whale together.                                                     *)
(*                                                                         *)
(* What a thread has still to do is its code, a sequence of operations.    *)
(* The functions of threadtest.cc, and the routines of thread.cc and       *)
(* synch.cc that contain a wait, are sequences; a while loop is an         *)
(* operation that puts what its condition leads to in front of the code.   *)
(* Without -rs nothing is preempted.  With it the timer may make the       *)
(* running thread yield wherever an operation has enabled interrupts.      *)
(***************************************************************************)
EXTENDS Integers, SequencesExt

CONSTANTS
    Tests,          \* the values of testnum without -rs
    RandomTests,    \* the values of testnum with -rs
    MaxCount,       \* bound on the loop counts of the tests with -rs
    MaxYields       \* bound on the counts of MultiYield with -rs

VARIABLES
    testnum, randomYield,
    garbage,        \* what is in Thread::isForked before Fork
    current, ready, doomed,     \* currentThread, readyList,
                                \* threadToBeDestroyed
    thread,         \* the Thread objects in the order of creation
    mon,            \* the lock and the conditions of each thread, and, at 0,
                    \* those of the object under test
    sema,           \* prioritySema
    box, message, buffer,       \* the mailbox and the two globals
    whale,
    deleted,        \* the object under test is deleted
    out,            \* what has been printed
    status          \* "run", "halted", "aborted" by a failed ASSERT, or
                    \* "undefined": a deleted object was used

objects == <<sema, box, message, buffer, whale>>
scheduling == <<current, ready, doomed>>
settings == <<testnum, randomYield, garbage>>
vars == <<settings, scheduling, thread, mon, objects, deleted, out, status>>

Kinds == <<"male", "female", "matchmaker">>
Waits == {"cv", "sendWait", "receiveWait"} \cup Range(Kinds)

S == INSTANCE Synch WITH Threads <- Nat, NULL <- 0, Conds <- Waits,
                         Priority <- [t \in DOMAIN thread |-> thread[t].priority]

-----------------------------------------------------------------------------
(* The programs.  A loop or a MultiYield is cut short with -rs.            *)
Times(n) == IF randomYield /\ n > MaxCount THEN MaxCount ELSE n
Loop(n, Body(_)) == FlattenSeq([i \in 1..Times(n) |-> Body(i - 1)])

MultiYield(n) == <<<<"Yield", IF randomYield /\ n > MaxYields THEN MaxYields ELSE n>>>>
Yield == MultiYield(1)
Show(what) == <<<<"Print", what>>>>
Acquire == <<<<"Acquire", 0>>>>
Release == <<<<"Release", 0>>>>
Wait(c) == <<<<"Wait", 0, c>>>>
Signal(c) == <<<<"Signal", 0, c>>>>
Broadcast == <<<<"Broadcast", 0, "cv">>>>
New(Pjoin) == <<<<"New", Pjoin>>>>
Fork(t, func) == <<<<"Fork", t, func>>>>
setPriority(t, p) == <<<<"setPriority", t, p>>>>
Join(t) == <<<<"Join", t>>>>
DeleteLock == <<<<"DeleteLock">>>>
Delete(conds) == <<<<"DeleteConditions", conds>>>>
Op(name) == <<<<name>>>>

(* new Thread, and Fork of the thread just made (0).                       *)
Spawn(func) == New(0) \o Fork(0, func)

SimpleThread(which) == Loop(5, LAMBDA num : Show(<<which, num>>) \o Yield)
ThreadTest1 == Spawn(SimpleThread(1)) \o SimpleThread(0)

(* Locks.                                                                  *)
LockThread(n) ==
    Show(<<n, 0>>) \o Acquire \o Show(<<n, 1>>) \o Yield \o Show(<<n, 2>>)
      \o Release \o Show(<<n, 3>>)
LockTest1 == Spawn(LockThread(1)) \o Spawn(LockThread(2))
acquireTwice == Acquire \o Acquire
LocktestHolder_Reacquires == Spawn(acquireTwice)
Locktest_ReleaseWithout_Held == Release
AcquireThenRelease == Acquire \o Release
Locktest_ReleaseWithout_Held2 ==
    Acquire \o Loop(10, LAMBDA i : Spawn(AcquireThenRelease)) \o Release \o Release
grabLock == Acquire
LockTest_DeleteLockThatIsHeld == Acquire \o Spawn(grabLock) \o DeleteLock

(* Condition variables.                                                    *)
ThreadWait == Acquire \o Wait("cv") \o Show(<<"woken">>) \o Release
LoadOntoCV(numOftests) ==
    Loop(numOftests, LAMBDA i : Spawn(ThreadWait)) \o MultiYield(Times(numOftests) * 2)
Locked(call) == Acquire \o call \o Release
Condition_Test_Signal_WakesUpOne == LoadOntoCV(20) \o Locked(Signal("cv"))
Condition_Test_BroadCastWakesAll == LoadOntoCV(5) \o Locked(Broadcast)
Condition_Test_Signal_Lost ==
    Locked(Signal("cv")) \o LoadOntoCV(5) \o Locked(Signal("cv"))
      \o MultiYield(10) \o Show(<<"signalled">>) \o Locked(Broadcast)
Condition_Test_BroadCast_Lost ==
    Locked(Broadcast) \o LoadOntoCV(5) \o Locked(Signal("cv"))
      \o MultiYield(5) \o Show(<<"signalled">>) \o Locked(Broadcast)
Condition_Test_GivesUpLockInWait ==
    Spawn(ThreadWait) \o Locked(Show(<<"success">>) \o Signal("cv"))
Condition_TestNotHoldingHelper == Wait("cv")
ConditionTest_NotHoldingLock == Acquire \o Spawn(Condition_TestNotHoldingHelper)
ConditionTest_DeleteWaitTest == LoadOntoCV(20) \o Delete(<<"cv">>)

(* Mailboxes.  first is sendGoesFirst or receiveGoesFirst.                 *)
callSend == Op("Send")
callReceive == Op("Receive")
MailBoxDeleteEmpty == DeleteLock \o Delete(<<"sendWait", "receiveWait">>)
MultiSender(numberOfSenders, start, first) ==
    Loop(numberOfSenders, LAMBDA i :
        <<<<"message", start + i>>>> \o Spawn(callSend) \o MultiYield(40)
          \o (IF first = 0 THEN Op("PrintBuffer") ELSE <<>>))
MultiReceive(numberOfReceivers, first) ==
    Loop(numberOfReceivers, LAMBDA i :
        Spawn(callReceive) \o MultiYield(40)
          \o (IF first = 0 THEN Op("PrintBuffer") ELSE <<>>))
MailBoxSimpleTest ==
    <<<<"message", 1>>>> \o Spawn(callSend) \o MultiYield(1) \o Spawn(callReceive)
      \o MultiYield(30) \o Op("PrintBuffer")
      \o <<<<"message", 2>>>> \o Spawn(callReceive) \o MultiYield(1) \o Spawn(callSend)
      \o MultiYield(30) \o Op("PrintBuffer")
MailBoxMultiSendersWaiting == MultiSender(6, 0, 1) \o MultiYield(40) \o MultiReceive(6, 0)
MailBoxMultiReceiveWaiting == MultiReceive(6, 1) \o MultiYield(40) \o MultiSender(6, 0, 0)
MailBoxCrashsWhenDeleted == MultiSender(1, 0, 1) \o MailBoxDeleteEmpty
MailBoxCrashsWhenDeleted2 == MultiReceive(1, 1) \o MailBoxDeleteEmpty
MailBoxMixedSendAndReceive ==
    MultiSender(6, 0, 1) \o MultiYield(40) \o MultiReceive(2, 0) \o MultiSender(2, 6, 1)
      \o MultiReceive(6, 0) \o MultiReceive(2, 1) \o MultiSender(2, 8, 0) \o MailBoxDeleteEmpty

(* Join.  Thread 1 is main, 2 the first one it creates.                    *)
BusyWork(n) ==
    Loop(n, LAMBDA i : Show(<<"child", i>>) \o MultiYield(n)) \o Show(<<"child", n>>)
Joiner(joinee) == MultiYield(4) \o Join(joinee) \o MultiYield(2)
                    \o Show(<<"joined">>) \o MultiYield(2)
Joinee == Loop(5, LAMBDA i : Show(<<"smell", i>>) \o Yield)
            \o Yield \o Show(<<"done">>) \o Yield
ForkerThread == New(0) \o New(1) \o Fork(2, Joiner(3)) \o Fork(3, Joinee)
noOpStub == <<>>
SelfJoin == Join(2)
TestJoinOnlyAfterFork == New(1) \o Join(2)
TestNonJoinableCrashs == Spawn(noOpStub) \o Join(2)
TestThatJoinCallableOnce == New(1) \o Fork(2, noOpStub) \o Join(2) \o Join(2)
TestThatJoinCannotBeCalledOnself == New(1) \o Fork(2, SelfJoin)
TestThatParentsBlocking == New(1) \o Fork(2, BusyWork(20)) \o Join(2) \o Show(<<"joined">>)
TestTerminatesOnlyWhenJoinCalled ==
    New(1) \o Fork(2, noOpStub) \o MultiYield(1) \o Join(2) \o MultiYield(1)

(* Priorities.  Threads print theirs.                                      *)
task == Op("PrintPriority")
multiTask == Loop(3, LAMBDA i : task)
waitTask(p) == Locked(setPriority(-1, p) \o Wait("cv") \o task)
waitOnLock(p) == setPriority(-1, p) \o Locked(task)
waitOnSema(p) == setPriority(-1, p) \o Op("P") \o task \o Op("V")
PriorityTest ==
    Acquire
      \o Loop(10, LAMBDA i : New(0) \o setPriority(0, IF i % 2 = 0 THEN i ELSE -i)
                                 \o Fork(0, task))
      \o Release \o DeleteLock
TestThatMaxPriorityAlwaysTop ==
    New(0) \o New(0) \o New(0)
      \o setPriority(2, 10) \o setPriority(3, 2) \o setPriority(4, 0)
      \o Fork(4, multiTask) \o Fork(3, multiTask) \o Fork(2, multiTask) \o Yield
TestPriorityWithConditionVariable ==
    Loop(3, LAMBDA i : Spawn(waitTask(i))) \o MultiYield(3)
      \o Loop(3, LAMBDA i : Locked(Signal("cv")) \o MultiYield(2))
(* The second argument of new Thread, meant for the name, is Pjoin.        *)
TestPriorityWithLock ==
    Acquire \o Loop(3, LAMBDA i : New(i) \o Fork(0, waitOnLock(i))) \o MultiYield(3)
      \o Release \o MultiYield(3)
TestPriorityWithSemaphore ==
    Op("P") \o Loop(3, LAMBDA i : Spawn(waitOnSema(i))) \o MultiYield(3)
      \o Op("V") \o MultiYield(3)

(* Whales.                                                                 *)
callWhale(k) == <<<<"Whale", k>>>>
DeleteWhale == Delete(Kinds) \o DeleteLock
MultiMale(n) == Loop(n, LAMBDA i : Spawn(callWhale("male")) \o MultiYield(40))
MultiFemale(n) ==
    Loop(n, LAMBDA i : New(0) \o setPriority(0, 100) \o Fork(0, callWhale("female"))
                         \o MultiYield(40))
MultiMatchmaker(n) == Loop(n, LAMBDA i : Spawn(callWhale("matchmaker")) \o MultiYield(40))
WhaleTest ==
    MultiMale(3) \o MultiFemale(1) \o MultiMatchmaker(2) \o MultiFemale(3)
      \o MultiMatchmaker(2) \o MultiMale(1) \o MultiYield(40) \o DeleteWhale

MaleCrash == MultiMale(1) \o DeleteWhale
FemaleCrash == MultiFemale(1) \o DeleteWhale
MatchmakerCrash == MultiMatchmaker(1) \o DeleteWhale

(* The switch of ThreadTest; main calls Finish when it returns.            *)
ThreadTest ==
    CASE testnum = 1 -> ThreadTest1
      [] testnum = 2 -> LockTest1
      [] testnum = 3 -> LocktestHolder_Reacquires
      [] testnum = 4 -> Locktest_ReleaseWithout_Held
      [] testnum = 5 -> Locktest_ReleaseWithout_Held2
      [] testnum = 6 -> LockTest_DeleteLockThatIsHeld
      [] testnum = 7 -> ConditionTest_NotHoldingLock
      [] testnum = 8 -> ConditionTest_DeleteWaitTest
      [] testnum = 9 -> Condition_Test_Signal_WakesUpOne
      [] testnum = 10 -> Condition_Test_BroadCastWakesAll
      [] testnum = 11 -> Condition_Test_Signal_Lost
      [] testnum = 12 -> Condition_Test_BroadCast_Lost
      [] testnum = 13 -> Condition_Test_GivesUpLockInWait
      [] testnum = 14 -> MailBoxSimpleTest
      [] testnum = 15 -> MailBoxMultiSendersWaiting
      [] testnum = 16 -> MailBoxMultiReceiveWaiting
      [] testnum = 17 -> MailBoxCrashsWhenDeleted
      [] testnum = 18 -> MailBoxCrashsWhenDeleted2
      [] testnum = 19 -> MailBoxDeleteEmpty
      [] testnum = 20 -> MailBoxMixedSendAndReceive
      [] testnum = 21 -> ForkerThread
      [] testnum = 22 -> TestJoinOnlyAfterFork
      [] testnum = 23 -> TestNonJoinableCrashs
      [] testnum = 24 -> TestThatJoinCallableOnce
      [] testnum = 25 -> TestThatJoinCannotBeCalledOnself
      [] testnum = 26 -> TestThatParentsBlocking
      [] testnum = 27 -> TestTerminatesOnlyWhenJoinCalled
      [] testnum = 28 -> PriorityTest
      [] testnum = 29 -> TestThatMaxPriorityAlwaysTop
      [] testnum = 30 -> TestPriorityWithConditionVariable
      [] testnum = 31 -> TestPriorityWithLock
      [] testnum = 32 -> TestPriorityWithSemaphore
      [] testnum = 33 -> WhaleTest
      [] testnum = 34 -> MaleCrash
      [] testnum = 35 -> FemaleCrash
      [] testnum = 36 -> MatchmakerCrash

-----------------------------------------------------------------------------
(* The kernel.                                                             *)

(* Thread::Thread.  tick: the last thing the thread did enabled            *)
(* interrupts, so the timer may strike now.  intOff: it is in Finish.      *)
NewThread(Pjoin, code) ==
    [code |-> code, priority |-> 0, join |-> Pjoin, readyToJoin |-> 0,
     isForked |-> garbage, started |-> FALSE, deleted |-> FALSE,
     intOff |-> FALSE, tick |-> TRUE]

Code == thread[current].code

(* The running thread goes on with code.                                   *)
Then(code, tick) ==
    [thread EXCEPT ![current].code = code, ![current].tick = tick /\ ~thread[current].intOff]

Does(name) == status = "run" /\ Code # <<>> /\ Head(Code)[1] = name
Arg(i) == Head(Code)[i + 1]
Rest == Tail(Code)

ReadyToRun(list, t) == S!SortedInsert(list, t, -thread[t].priority)
First(list) == IF list = <<>> THEN list ELSE <<Head(list)>>
WakeAll(list, waiters) ==
    FoldLeft(LAMBDA l, e : ReadyToRun(l, e.item), list, waiters)
WakeFirst(list, waiters) == WakeAll(list, First(waiters))

(* Scheduler::Run.  A thread that has run before deletes the one that      *)
(* finished, whose lock and condition must then be unused.                 *)
Run(th, m, next, finished) ==
    LET deletes == th[next].started /\ finished # 0
    IN  /\ current' = next
        /\ doomed' = IF th[next].started THEN 0 ELSE finished
        /\ thread' = [t \in DOMAIN th |->
              [th[t] EXCEPT !.started = @ \/ t = next,
                            !.deleted = @ \/ (deletes /\ t = finished)]]
        /\ status' = IF deletes /\ (m[finished].locked = 1 \/ S!Sleeping(m[finished]) # {})
                     THEN "aborted" ELSE status

(* Thread::Sleep: with nobody to run and nothing pending, the machine      *)
(* halts.                                                                  *)
Sleep(th, m, list, finished) ==
    \/ /\ list = <<>>
       /\ status' = "halted"
       /\ thread' = th
       /\ ready' = list
       /\ doomed' = finished
       /\ UNCHANGED current
    \/ /\ list # <<>>
       /\ ready' = S!Rest(list)
       /\ Run(th, m, Head(list).item, finished)

GiveWay(th) ==
    /\ ready' = ReadyToRun(S!Rest(ready), current)
    /\ Run(th, mon, Head(ready).item, doomed)

Stop(how) == status' = how /\ UNCHANGED <<scheduling, thread, mon>>
GoOn == UNCHANGED <<scheduling, status>>

(* The timer's handler makes the running thread yield.                     *)
Preempt ==
    /\ status = "run" /\ randomYield /\ thread[current].tick /\ ready # <<>>
    /\ GiveWay(Then(Code, FALSE))
    /\ UNCHANGED <<settings, mon, objects, deleted, out>>

DoYield ==
    /\ Does("Yield")
    /\ LET th == Then(IF Arg(1) = 1 THEN Rest ELSE <<<<"Yield", Arg(1) - 1>>>> \o Rest, TRUE)
       IN  \/ ready = <<>> /\ thread' = th /\ GoOn
           \/ ready # <<>> /\ GiveWay(th)
    /\ UNCHANGED <<settings, mon, objects, deleted, out>>

Freed(i) == IF i = 0 THEN deleted ELSE thread[i].deleted
Held(i) == mon[i].locked = 1 /\ S!isHeldBy(mon[i], current)

(* A thread that finds the lock taken sleeps and tests it again.           *)
DoAcquire ==
    /\ Does("Acquire")
    /\ LET i == Arg(1)
           m == [mon EXCEPT ![i] = S!Acquire(@, current)]
       IN  \/ Freed(i) /\ Stop("undefined")
           \/ ~Freed(i) /\ Held(i) /\ Stop("aborted")
           \/ /\ ~Freed(i) /\ ~Held(i)
              /\ mon' = m
              /\ \/ mon[i].locked = 0 /\ thread' = Then(Rest, TRUE) /\ GoOn
                 \/ mon[i].locked = 1 /\ Sleep(Then(Code, FALSE), m, ready, doomed)
    /\ UNCHANGED <<settings, objects, deleted, out>>

DoRelease ==
    /\ Does("Release")
    /\ LET i == Arg(1)
       IN  \/ ~Held(i) /\ Stop("aborted")
           \/ /\ Held(i)
              /\ mon' = [mon EXCEPT ![i] = S!Release(@)]
              /\ ready' = WakeFirst(ready, mon[i].queue)
              /\ thread' = Then(Rest, TRUE)
              /\ UNCHANGED <<current, doomed, status>>
    /\ UNCHANGED <<settings, objects, deleted, out>>

(* Condition::Wait; when woken, the thread acquires the lock.              *)
DoWait ==
    /\ Does("Wait")
    /\ LET i == Arg(1)
           m == [mon EXCEPT ![i] = S!Wait(@, Arg(2), current)]
       IN  \/ ~Held(i) /\ Stop("aborted")
           \/ /\ Held(i)
              /\ mon' = m
              /\ Sleep(Then(<<<<"Acquire", i>>>> \o Rest, TRUE), m,
                       WakeFirst(ready, mon[i].queue), doomed)
    /\ UNCHANGED <<settings, objects, deleted, out>>

(* Signal and Broadcast leave the interrupt level alone.                   *)
Wakes(name, woken, after) ==
    /\ Does(name)
    /\ LET i == Arg(1)
       IN  \/ ~S!isHeldBy(mon[i], current) /\ Stop("aborted")
           \/ /\ S!isHeldBy(mon[i], current)
              /\ mon' = [mon EXCEPT ![i] = after]
              /\ ready' = WakeAll(ready, woken)
              /\ thread' = Then(Rest, FALSE)
              /\ UNCHANGED <<current, doomed, status>>
    /\ UNCHANGED <<settings, objects, deleted, out>>

Waiting == mon[Arg(1)].waitQ[Arg(2)]

DoSignal ==
    Wakes("Signal", First(Waiting), S!Signal(mon[Arg(1)], Arg(2)))

DoBroadcast ==
    Wakes("Broadcast", Waiting, S!Broadcast(mon[Arg(1)], Arg(2)))

(* Semaphore::P and V.                                                     *)
DoP ==
    /\ Does("P")
    /\ \/ /\ sema.value = 0
          /\ sema' = [sema EXCEPT !.queue = ReadyToRun(@, current)]
          /\ Sleep(Then(Code, FALSE), mon, ready, doomed)
       \/ /\ sema.value > 0
          /\ sema' = [sema EXCEPT !.value = @ - 1]
          /\ thread' = Then(Rest, TRUE)
          /\ GoOn
    /\ UNCHANGED <<settings, mon, box, message, buffer, whale, deleted, out>>

DoV ==
    /\ Does("V")
    /\ ready' = WakeFirst(ready, sema.queue)
    /\ sema' = [value |-> sema.value + 1, queue |-> S!Rest(sema.queue)]
    /\ thread' = Then(Rest, TRUE)
    /\ UNCHANGED <<settings, current, doomed, status, mon, box, message, buffer, whale,
                   deleted, out>>

(* new Thread, setPriority and Fork.  0 is the thread created last, -1 the *)
(* running one.                                                            *)
Which(t) == CASE t = 0 -> Len(thread) [] t = -1 -> current [] OTHER -> t

DoNew ==
    /\ Does("New")
    /\ thread' = Append(Then(Rest, FALSE), NewThread(Arg(1), <<>>))
    /\ mon' = mon @@ ((Len(thread) + 1) :> S!NewMonitor)
    /\ UNCHANGED <<settings, scheduling, objects, deleted, out, status>>

DoSetPriority ==
    /\ Does("setPriority")
    /\ thread' = [Then(Rest, FALSE) EXCEPT ![Which(Arg(1))].priority = Arg(2)]
    /\ UNCHANGED <<settings, scheduling, mon, objects, deleted, out, status>>

DoFork ==
    /\ Does("Fork")
    /\ LET t == Which(Arg(1))
       IN  /\ thread' = [Then(Rest, TRUE) EXCEPT ![t].isForked = 1, ![t].code = Arg(2)]
           /\ ready' = ReadyToRun(ready, t)
    /\ UNCHANGED <<settings, current, doomed, mon, objects, deleted, out, status>>

(* Thread::Join and Thread::Finish, on the thread's own lock and cv.       *)
JoinCode(t) ==
    <<<<"Acquire", t>>, <<"ReadyToJoin", t>>, <<"Signal", t, "cv">>, <<"Wait", t, "cv">>,
      <<"Signal", t, "cv">>, <<"Release", t>>>>

DoJoin ==
    /\ Does("Join")
    /\ LET t == Arg(1)
           c == thread[t]
       IN  \/ c.deleted /\ Stop("undefined")
           \/ /\ ~c.deleted
              /\ c.join # 1 \/ c.readyToJoin # 0 \/ t = current \/ c.isForked # 1
              /\ Stop("aborted")
           \/ /\ ~c.deleted
              /\ c.join = 1 /\ c.readyToJoin = 0 /\ t # current /\ c.isForked = 1
              /\ thread' = Then(JoinCode(t) \o Rest, FALSE)
              /\ UNCHANGED mon
              /\ GoOn
    /\ UNCHANGED <<settings, objects, deleted, out>>

SetReadyToJoin ==
    /\ Does("ReadyToJoin")
    /\ thread' = [Then(Rest, FALSE) EXCEPT ![Arg(1)].readyToJoin = 1]
    /\ UNCHANGED <<settings, scheduling, mon, objects, deleted, out, status>>

BeginFinish ==
    /\ status = "run" /\ Code = <<>>
    /\ thread' = [thread EXCEPT ![current].intOff = TRUE, ![current].tick = FALSE,
                               ![current].code = <<<<"Acquire", current>>, <<"FinishTest">>>>]
    /\ UNCHANGED <<settings, scheduling, mon, objects, deleted, out, status>>

FinishCode(me) ==
    LET signal == <<<<"Signal", current, "cv">>>>
        wait == <<<<"Wait", current, "cv">>>>
    IN  IF me.readyToJoin = 0 /\ me.join # 0
        THEN signal \o wait \o signal \o <<<<"FinishTest">>>>
        ELSE signal \o (IF me.join # 0 THEN wait ELSE <<>>)
               \o <<<<"Release", current>>, <<"Destroy">>>>

FinishTest ==
    /\ Does("FinishTest")
    /\ thread' = Then(FinishCode(thread[current]), FALSE)
    /\ UNCHANGED <<settings, scheduling, mon, objects, deleted, out, status>>

EndFinish ==
    /\ Does("Destroy")
    /\ Sleep(thread, mon, ready, current)
    /\ UNCHANGED <<settings, mon, objects, deleted, out>>

(* What the tests print.                                                   *)
DoPrint ==
    /\ \/ Does("Print") /\ out' = Append(out, Arg(1))
       \/ Does("PrintPriority") /\ out' = Append(out, <<"performed", thread[current].priority>>)
       \/ Does("PrintBuffer") /\ out' = Append(out, <<"message", buffer>>)
    /\ thread' = Then(Rest, FALSE)
    /\ UNCHANGED <<settings, scheduling, mon, objects, deleted, status>>

(* Mailbox::Send and Receive.                                              *)
SetMessage ==
    /\ Does("message")
    /\ message' = Arg(1)
    /\ thread' = Then(Rest, FALSE)
    /\ UNCHANGED <<settings, scheduling, mon, sema, box, buffer, whale, deleted, out, status>>

BeginMail ==
    /\ \/ Does("Send") /\ thread' = Then(Acquire \o <<<<"Put", message>>>> \o Rest, FALSE)
       \/ Does("Receive") /\ thread' = Then(Acquire \o Op("Arrive") \o Rest, FALSE)
    /\ UNCHANGED <<settings, scheduling, mon, objects, deleted, out, status>>

Put ==
    /\ Does("Put")
    /\ \/ /\ box.bufferRead = 1 \/ box.receivePres <= 0
          /\ thread' = Then(Wait("sendWait") \o Code, FALSE)
          /\ UNCHANGED box
       \/ /\ box.bufferRead = 0 /\ box.receivePres > 0
          /\ box' = [box EXCEPT !.buffer = Arg(1), !.bufferRead = 1]
          /\ thread' = Then(Signal("receiveWait") \o Release \o Rest, FALSE)
    /\ UNCHANGED <<settings, scheduling, mon, sema, message, buffer, whale, deleted, out, status>>

Arrive ==
    /\ Does("Arrive")
    /\ box' = [box EXCEPT !.receivePres = @ + 1]
    /\ thread' = Then(Signal("sendWait") \o Op("Get") \o Rest, FALSE)
    /\ UNCHANGED <<settings, scheduling, mon, sema, message, buffer, whale, deleted, out, status>>

Emptied == [buffer |-> 0, bufferRead |-> 0, receivePres |-> box.receivePres - 1]

Get ==
    /\ Does("Get")
    /\ \/ /\ box.bufferRead = 0
          /\ thread' = Then(Wait("receiveWait") \o Code, FALSE)
          /\ UNCHANGED <<box, buffer>>
       \/ /\ box.bufferRead # 0
          /\ buffer' = box.buffer
          /\ box' = Emptied
          /\ thread' = Then(Release \o Rest, FALSE)
    /\ UNCHANGED <<settings, scheduling, mon, sema, message, whale, deleted, out, status>>

(* Whale::Male, Female and Matchmaker, which differ in the kind.           *)
Others(k) == SelectSeq(Kinds, LAMBDA j : j # k)
SignalAll(kinds) == FlattenSeq([i \in DOMAIN kinds |-> Signal(kinds[i])])

BeginWhale ==
    /\ Does("Whale")
    /\ thread' = Then(Acquire \o <<<<"Count", Arg(1)>>>> \o SignalAll(Others(Arg(1)))
                       \o <<<<"Match", Arg(1)>>>> \o Rest, FALSE)
    /\ UNCHANGED <<settings, scheduling, mon, objects, deleted, out, status>>

Count ==
    /\ Does("Count")
    /\ whale' = [whale EXCEPT !.count[Arg(1)] = @ + 1]
    /\ thread' = Then(Rest, FALSE)
    /\ UNCHANGED <<settings, scheduling, mon, sema, box, message, buffer, deleted, out, status>>

(* resetAll that forgets the counts.                                       *)
resetFlags == [whale EXCEPT !.found = [j \in Range(Kinds) |-> 0]]

resetAll ==
    [count |-> [j \in Range(Kinds) |-> whale.count[j] - 1],
     found |-> [j \in Range(Kinds) |-> 0]]

(* The loop's test, then the flag, and resetAll when all three are set.    *)
Match ==
    /\ Does("Match")
    /\ LET k == Arg(1)
           found == [whale.found EXCEPT ![k] = 1]
       IN  \/ /\ \E j \in Range(Others(k)) : whale.count[j] < 1
              /\ whale.found[k] = 0
              /\ thread' = Then(Wait(k) \o Code, FALSE)
              /\ UNCHANGED <<whale, out>>
           \/ /\ (\A j \in Range(Others(k)) : whale.count[j] >= 1) \/ whale.found[k] # 0
              /\ \/ /\ \E j \in Range(Kinds) : found[j] = 0
                    /\ whale' = [whale EXCEPT !.found = found]
                    /\ thread' = Then(Release \o Show(<<k>>) \o Rest, FALSE)
                    /\ UNCHANGED out
                 \/ /\ \A j \in Range(Kinds) : found[j] = 1
                    /\ whale' = resetAll
                    /\ thread' = Then(SignalAll(Kinds) \o Release \o Show(<<k>>) \o Rest, FALSE)
                    /\ out' = Append(out, <<"match">>)
    /\ UNCHANGED <<settings, scheduling, mon, sema, box, message, buffer, deleted, status>>

(* The destructors' assertions.                                            *)
Idle ==
    \/ Does("DeleteLock") /\ mon[0].locked # 1 /\ mon[0].queue = <<>>
    \/ Does("DeleteConditions") /\ \A c \in Range(Arg(1)) : mon[0].waitQ[c] = <<>>

DoDelete ==
    /\ Does("DeleteLock") \/ Does("DeleteConditions")
    /\ \/ Idle /\ thread' = Then(Rest, FALSE) /\ deleted' = TRUE /\ UNCHANGED mon /\ GoOn
       \/ ~Idle /\ Stop("aborted") /\ UNCHANGED deleted
    /\ UNCHANGED <<settings, objects, out>>

-----------------------------------------------------------------------------
Init ==
    /\ \/ randomYield = FALSE /\ testnum \in Tests
       \/ randomYield = TRUE /\ testnum \in RandomTests
    /\ garbage \in {0, 1}
    /\ current = 1 /\ ready = <<>> /\ doomed = 0
    /\ thread = <<[NewThread(0, ThreadTest) EXCEPT !.started = TRUE]>>
    /\ mon = [i \in 0..1 |-> S!NewMonitor]
    /\ sema = [value |-> 1, queue |-> <<>>]
    /\ box = [buffer |-> 0, bufferRead |-> 0, receivePres |-> 0]
    /\ message = 0 /\ buffer = 0
    /\ whale = [count |-> [k \in Range(Kinds) |-> 0], found |-> [k \in Range(Kinds) |-> 0]]
    /\ deleted = FALSE
    /\ out = <<>>
    /\ status = "run"

Next ==
    \/ Preempt \/ DoYield
    \/ DoAcquire \/ DoRelease \/ DoWait \/ DoSignal \/ DoBroadcast
    \/ DoP \/ DoV
    \/ DoNew \/ DoSetPriority \/ DoFork
    \/ DoJoin \/ SetReadyToJoin \/ BeginFinish \/ FinishTest \/ EndFinish
    \/ DoPrint
    \/ SetMessage \/ BeginMail \/ Put \/ Arrive \/ Get
    \/ BeginWhale \/ Count \/ Match
    \/ DoDelete

Spec == Init /\ [][Next]_vars

-----------------------------------------------------------------------------
Printed(what) == \E i \in DOMAIN out : out[i] = what
HowOften(what) == Len(SelectSeq(out, LAMBDA x : x = what))

(* The tests whose comments say that they crash the system.                *)
ShouldCrash == (3..8) \cup {17, 18} \cup (22..25) \cup (34..36)

(* A test stops at a failed assertion exactly when its comment says that   *)
(* the system should crash, whatever the timer does.  The exception is     *)
(* test 22, Join before Fork, where the code reads a flag that nothing has *)
(* set: with the wrong garbage main sleeps for ever instead.               *)
CrashesWhenItShould ==
    /\ status = "aborted" => testnum \in ShouldCrash
    /\ status = "halted" => testnum \notin ShouldCrash \/ (testnum = 22 /\ garbage = 1)

(* Of all the tests only 23 and 24 can touch a deleted object, and only    *)
(* with -rs: the timer lets the child finish and be deleted before main    *)
(* calls the Join that should crash.                                       *)
NothingDeletedIsUsed == status = "undefined" => testnum \in {23, 24} /\ randomYield

(* Tests 9 to 12: a signal wakes one of the threads that wait, a broadcast *)
(* all of them, and a signal or broadcast before anyone waits wakes nobody *)
(* and is not remembered.                                                  *)
WakesAsManyAsItShould ==
    status = "halted" =>
        /\ testnum = 9 => HowOften(<<"woken">>) = 1
        /\ testnum \in 10..12 => HowOften(<<"woken">>) = Len(thread) - 1

(* Tests 28 to 32, without -rs: the threads run, wake from the condition,  *)
(* get the lock and get the semaphore from the greatest priority to the    *)
(* least.                                                                  *)
GreatestPriorityFirst ==
    testnum \in 28..32 /\ ~randomYield =>
        \A i, j \in DOMAIN out : i < j => out[i][2] >= out[j][2]

(* Tests 21, 26 and 27: main goes on after Join only when the child has    *)
(* done all its work, and a thread created to be joined is not deleted     *)
(* before Join has been called.                                            *)
JoinWaitsForTheChild ==
    /\ Printed(<<"joined">>) =>
          Printed(IF testnum = 21 THEN <<"done">> ELSE <<"child", 20>>)
    /\ \A t \in DOMAIN thread :
          thread[t].deleted /\ thread[t].join # 0 => thread[t].readyToJoin = 1

(* Tests 14 to 16 and 20, without -rs: every message sent is received,     *)
(* in the order of sending.                                                *)
MessagesArriveInOrder ==
    LET received(first, n) == out = [i \in 1..n |-> <<"message", first + i - 1>>]
    IN  status = "halted" /\ ~randomYield =>
            /\ testnum = 14 => received(1, 2)
            /\ testnum \in {15, 16} => received(0, 6)
            /\ testnum = 20 => received(0, 10)

(* Test 2: no thread is between Acquire and Release while the other is.    *)
LockThreadsTakeTurns ==
    LET inside(n) == testnum = 2 /\ Printed(<<n, 1>>) /\ ~Printed(<<n, 2>>)
    IN  ~(inside(1) /\ inside(2))

(* Test 33: four of each kind make four matches and nobody is left.        *)
WhalesAllReturn ==
    testnum = 33 /\ status = "halted" =>
        HowOften(<<"match">>) = 4 /\ \A k \in Range(Kinds) : HowOften(<<k>>) = 4
=============================================================================
