----------------------------- MODULE MCMonitors -----------------------------
(* Monitor with four threads of three priorities and two conditions,       *)
(* ThreadTest: all the tests as they are and, with the timer and shorter   *)
(* loops, all but the two longest, and Console with three threads, two of  *)
(* them on the same side, or one that echoes. A behaviour is of one of the *)
(* three.                                                                  *)
EXTENDS Monitor, TLC

CONSTANTS t1, t2, t3, t4, a, b, EOF, NONE

VARIABLES
    part,               \* the part that this behaviour is of
    testnum, randomYield, garbage, current, ready, doomed, thread, mon,
    sema, box, message, buffer, whale, deleted, out, status,
    cn_role, cn_input, cn_incoming, cn_putBusy, cn_output, cn_r, cn_w,
    cn_ReadLock, cn_WriteLock, cn_at, cn_i, cn_ch, cn_resident,
    cn_received, cn_result, cn_typed, cn_switches, cn_broken

Trio == {t1, t2, t3}
Roles(x, y, z) == t1 :> x @@ t2 :> y @@ t3 :> z
Scenarios == {Roles("read", "read", "write"), Roles("write", "write", "read"), Roles("echo", "none", "none")}
Typed == {<<a, b, a>>, <<a, EOF, b>>}
Room == t1 :> 2 @@ t2 :> 1 @@ t3 :> 2
MCThreads == {t1, t2, t3, t4}
MCPriority == (t1 :> 0) @@ (t2 :> 0) @@ (t3 :> 1) @@ (t4 :> -1)

X == INSTANCE ThreadTest WITH
    Tests <- 1..36, RandomTests <- (1..36) \ {20, 33}, MaxCount <- 3,
    MaxYields <- 6
C == INSTANCE Console WITH
    Threads <- Trio, Size <- 2, Inputs <- Typed, Quit <- b,
    MaxSwitches <- 1, role <- cn_role, input <- cn_input,
    incoming <- cn_incoming, putBusy <- cn_putBusy, output <- cn_output,
    r <- cn_r, w <- cn_w, ReadLock <- cn_ReadLock,
    WriteLock <- cn_WriteLock, at <- cn_at, i <- cn_i, ch <- cn_ch,
    resident <- cn_resident, received <- cn_received, result <- cn_result,
    typed <- cn_typed, switches <- cn_switches, broken <- cn_broken

testsVars == <<testnum, randomYield, garbage, current, ready, doomed,
    thread, mon, sema, box, message, buffer, whale, deleted, out, status>>
consoleVars == <<cn_role, cn_input, cn_incoming, cn_putBusy, cn_output,
    cn_r, cn_w, cn_ReadLock, cn_WriteLock, cn_at, cn_i, cn_ch, cn_resident,
    cn_received, cn_result, cn_typed, cn_switches, cn_broken>>
allVars == <<part, vars, testsVars, consoleVars>>

SumInit ==
    /\ part \in {"monitor", "tests", "console"}
    /\ Init
    /\ X!Init /\ (part # "tests" => testnum = 1 /\ ~randomYield /\ garbage = 0)
    /\ C!Init /\ (part # "console" => cn_role[t1] = "echo" /\ cn_typed = <<a, b, a>> /\ \A t \in Trio : cn_resident[t])

SumNext ==
    \/ part = "monitor" /\ Next /\ UNCHANGED <<part, testsVars, consoleVars>>
    \/ part = "tests" /\ X!Next /\ UNCHANGED <<part, vars, consoleVars>>
    \/ part = "console" /\ C!Next /\ UNCHANGED <<part, vars, testsVars>>

SumSpec ==
    /\ SumInit /\ [][SumNext]_allVars
    /\ (\A t \in Threads : WF_vars(part = "monitor" /\ t \in entering /\ DoAcquire(t)))
    /\ WF_consoleVars(part = "console" /\ C!CheckCharAvail) /\ WF_consoleVars(part = "console" /\ C!WriteDone)
    /\ (\A t \in Trio : SF_consoleVars(part = "console" /\ C!Step(t)))

-----------------------------------------------------------------------------
(* The tests of threadtest.cc end as their comments say, whatever the      *)
(* timer does. A test stops at a failed assertion exactly when its comment *)
(* says that the system should crash, but for the one that reads an        *)
(* uninitialized flag, and a deleted thread is used only where a joining   *)
(* thread is made to wait by the timer. Signal wakes one thread and        *)
(* Broadcast all, threads get the processor, the lock and the semaphore by *)
(* priority, what follows a Join comes after the end of the thread joined, *)
(* messages arrive in order, increments under a lock do not mix, and       *)
(* whales return three at a time.                                          *)
TestsEndAsTheySay == part = "tests" =>
         X!CrashesWhenItShould /\ X!NothingDeletedIsUsed
           /\ X!WakesAsManyAsItShould /\ X!GreatestPriorityFirst
           /\ X!JoinWaitsForTheChild /\ X!MessagesArriveInOrder
           /\ X!LockThreadsTakeTurns /\ X!WhalesAllReturn

(* The console is never asked to write while it is busy, the characters of *)
(* one call stay together, none is lost, doubled or moved between the      *)
(* keyboard and the readers, unless the character -1 has been typed, and   *)
(* ConsoleTest echoes up to the first q.                                   *)
CharactersInOrder == part = "console" =>
         C!TypeOK /\ C!NeverBusy /\ C!CallsDoNotMix /\ C!InputInOrder
           /\ C!Echoed

(* A Read or Write that is over returns the number of characters it moved, *)
(* or -1, and has given its lock back, unless its page was taken between   *)
(* two tries.                                                              *)
CallsEndClean == part = "console" => C!LocksReturned /\ C!ResultIsCount

(* Every Write returns, unless its page is taken between two tries.        *)
WriteReturns == C!WriteReturns
=============================================================================
