------------------------------ MODULE MCQueues ------------------------------
(* Semaphore with four threads, two of them of the same priority,          *)
(* LinkedList with up to four elements, two items and three keys, and      *)
(* Threads with the main thread and two that it creates. A behaviour is of *)
(* one of the three.                                                       *)
EXTENDS Semaphore, TLC

CONSTANTS t1, t2, t3, t4, a1, a2, a3, a4, main, NULL

VARIABLES
    part,               \* the part that this behaviour is of
    first, last, item, key, next, used, result,
    th_currentThread, th_readyList, th_threadToBeDestroyed, th_priority,
    th_join, th_readyToJoin, th_isForked, th_mon, th_pc, th_target,
    th_creator, th_ops

MCThreads == {t1, t2, t3, t4}
MCPriority == (t1 :> 0) @@ (t2 :> 0) @@ (t3 :> 1) @@ (t4 :> -1)

L == INSTANCE LinkedList WITH
    Addresses <- {a1, a2, a3, a4}, Values <- {"x", "y"}, Keys <- {-1, 0, 1}
T == INSTANCE Threads WITH
    Threads <- {main, t1, t2}, Main <- main, Priorities <- {0, 1},
    OnlyParentJoins <- TRUE, MaxOps <- 3,
    currentThread <- th_currentThread, readyList <- th_readyList,
    threadToBeDestroyed <- th_threadToBeDestroyed, priority <- th_priority,
    join <- th_join, readyToJoin <- th_readyToJoin,
    isForked <- th_isForked, mon <- th_mon, pc <- th_pc,
    target <- th_target, creator <- th_creator, ops <- th_ops

ASSUME ThreadsAssumed == T!ThreadsAssumption

listVars == <<first, last, item, key, next, used, result>>
threadsVars == <<th_currentThread, th_readyList, th_threadToBeDestroyed,
    th_priority, th_join, th_readyToJoin, th_isForked, th_mon, th_pc,
    th_target, th_creator, th_ops>>
allVars == <<part, vars, listVars, threadsVars>>

SumInit ==
    /\ part \in {"semaphore", "list", "threads"}
    /\ Init
    /\ L!Init
    /\ T!Init

SumNext ==
    \/ part = "semaphore" /\ Next /\ UNCHANGED <<part, listVars, threadsVars>>
    \/ part = "list" /\ L!Next /\ UNCHANGED <<part, vars, threadsVars>>
    \/ part = "threads" /\ T!Next /\ UNCHANGED <<part, vars, listVars>>

SumSpec ==
    /\ SumInit /\ [][SumNext]_allVars
    /\ (\A t \in Threads : WF_vars(part = "semaphore" /\ t \in Woken /\ P(t)))
    /\ WF_threadsVars(part = "threads" /\ T!Step) /\ WF_threadsVars(part = "threads" /\ T!Yield)

-----------------------------------------------------------------------------
(* The pointers of list.cc implement the sequence of AbstractList: the     *)
(* elements that are not deleted are linked from first, each once, and     *)
(* each operation leaves and returns what it should.                       *)
ImplementsList == [](part = "list" => L!WellLinked) /\ L!ImplementsList

(* A thread is in one place, running, ready, asleep on one list, or done;  *)
(* no list, no Join and no pointer of the scheduler holds a deleted        *)
(* thread.                                                                 *)
ThreadsSound == part = "threads" => T!ThreadsSound

(* Join returns only after the thread it joins has finished, and then it   *)
(* does return, whichever of the two comes first.                          *)
JoinMeetsFinish == T!JoinWaitsForFinish /\ T!JoinEventuallyReturns
=============================================================================
