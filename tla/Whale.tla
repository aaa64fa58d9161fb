------------------------------- MODULE Whale --------------------------------
(***************************************************************************)
(* Whale (threads/synch.cc): Male, Female and Matchmaker wait for calls of *)
(* the other two kinds.  The three methods differ only in which counter,   *)
(* flag and Condition are their own, so they are one operation with the    *)
(* kind of the call as a parameter.                                        *)
(*                                                                         *)
(* As in Mailbox, a step goes from a return of Acquire or of Wait to the   *)
(* end of Release or to the Sleep in the next Wait.                        *)
(***************************************************************************)
EXTENDS Integers

CONSTANTS
    Threads,        \* the threads that use the whale
    Priority,       \* Thread::getPriority of each of them
    NULL,           \* the null Thread pointer
    MayCall,        \* the kinds of calls each thread makes
    MaxCalls        \* bound on the calls of each kind, for model checking

Kinds == {"male", "female", "matchmaker"}

INSTANCE Synch WITH Conds <- Kinds

VARIABLES
    m,              \* lock, maleWhale, femaleWhale and matchmaker
    count,          \* maleCount, femaleCount, matchmakerCount
    found,          \* maleFound, femaleFound, matchmakerFound
    call,           \* the kind of call each thread is in, or "none"
    counted,        \* the threads in a call that has incremented its count
    called,         \* how many calls of each kind have been made
    returned        \* how many calls of each kind have returned

vars == <<m, count, found, call, counted, called, returned>>

Zero == [k \in Kinds |-> 0]

-----------------------------------------------------------------------------
Init ==
    /\ m = NewMonitor
    /\ count = Zero /\ found = Zero
    /\ call = [t \in Threads |-> "none"]
    /\ counted = {}
    /\ called = Zero /\ returned = Zero

(* A thread calls Male, Female or Matchmaker, up to their first Acquire.   *)
Call(t, k) ==
    /\ call[t] = "none" /\ k \in MayCall[t] /\ called[k] < MaxCalls
    /\ m' = Acquire(m, t)
    /\ call' = [call EXCEPT ![t] = k]
    /\ called' = [called EXCEPT ![k] = @ + 1]
    /\ UNCHANGED <<count, found, counted, returned>>

(* A thread woken in Acquire or in Wait tries to take the lock again.      *)
Reacquire(t) ==
    /\ call[t] # "none" /\ t \notin Sleeping(m) /\ ~isHeldBy(m, t)
    /\ m' = Acquire(m, t)
    /\ UNCHANGED <<count, found, call, counted, called, returned>>

(* A Signal on the Condition of each of the kinds.                         *)
SignalAll(mon, kinds) ==
    [mon EXCEPT !.waitQ = [k \in Kinds |-> IF k \in kinds THEN Rest(@[k]) ELSE @[k]]]

(* The first part of the three methods, done once: the call is counted and *)
(* one waiting call of each other kind is woken.                           *)
CountWith(t) ==
    IF t \in counted THEN count ELSE [count EXCEPT ![call[t]] = @ + 1]

(* A call that does not tell the others it has come.                       *)
AlertNobody(t) == m

AlertOthers(t) ==
    IF t \in counted THEN m ELSE SignalAll(m, Kinds \ {call[t]})

(* The while condition of call k, when cnt are the counts.                 *)
NoMatch(k, cnt) == (\E j \in Kinds \ {k} : cnt[j] < 1) /\ found[k] = 0

(* A call with the lock held, to the Sleep in Wait.                        *)
Waits(t) ==
    /\ call[t] # "none" /\ isHeldBy(m, t)
    /\ NoMatch(call[t], CountWith(t))
    /\ count' = CountWith(t)
    /\ m' = Wait(AlertOthers(t), call[t], t)
    /\ counted' = counted \cup {t}
    /\ UNCHANGED <<found, call, called, returned>>

(* The end of every call that gets past its loop.                          *)
Returns(t) ==
    /\ counted' = counted \ {t}
    /\ call' = [call EXCEPT ![t] = "none"]
    /\ returned' = [returned EXCEPT ![call[t]] = @ + 1]
    /\ UNCHANGED called

(* A call with the lock held, to its return, that is not the last of the   *)
(* three kinds to get past its loop.                                       *)
Passes(t) ==
    /\ call[t] # "none" /\ isHeldBy(m, t)
    /\ ~NoMatch(call[t], CountWith(t))
    /\ \E j \in Kinds \ {call[t]} : found[j] = 0
    /\ count' = CountWith(t)
    /\ found' = [found EXCEPT ![call[t]] = 1]
    /\ m' = Release(AlertOthers(t))
    /\ Returns(t)

(* A call with the lock held, to its return, that completes the match and  *)
(* runs resetAll.                                                          *)
Completes(t) ==
    /\ call[t] # "none" /\ isHeldBy(m, t)
    /\ ~NoMatch(call[t], CountWith(t))
    /\ \A j \in Kinds \ {call[t]} : found[j] = 1
    /\ count' = [j \in Kinds |-> CountWith(t)[j] - 1]
    /\ found' = Zero
    /\ m' = Release(SignalAll(AlertOthers(t), Kinds))
    /\ Returns(t)

(* The rest of a call that has been made.                                  *)
Step(t) == Reacquire(t) \/ Waits(t) \/ Passes(t) \/ Completes(t)

Next == \E t \in Threads : (\E k \in Kinds : Call(t, k)) \/ Step(t)

(* A thread inside a call that is not asleep is eventually run; nobody is  *)
(* obliged to make a call.                                                 *)
Spec == Init /\ [][Next]_vars /\ \A t \in Threads : WF_vars(Step(t))

-----------------------------------------------------------------------------
(* The counts never go below zero: resetAll only takes off calls that have *)
(* been counted.                                                           *)
TypeOK ==
    /\ m \in Monitors
    /\ count \in [Kinds -> Nat]
    /\ found \in [Kinds -> {0, 1}]
    /\ call \in [Threads -> Kinds \cup {"none"}]
    /\ counted \subseteq {t \in Threads : call[t] # "none"}
    /\ called \in [Kinds -> 0..MaxCalls]

(* "For any of the methods to complete there must be at least one          *)
(* corresponding call to the other two methods" (synch.h).                 *)
NeedsAllKinds ==
    (\E k \in Kinds : returned[k] > 0) => \A k \in Kinds : called[k] > 0

(* When as many calls of each kind have been made, all of them return: no  *)
(* single Signal goes to a call that cannot use it while another one that  *)
(* could stays asleep.                                                     *)
AllReturn ==
    (\A k \in Kinds : called[k] = MaxCalls) ~> (\A k \in Kinds : returned[k] = MaxCalls)
=============================================================================
