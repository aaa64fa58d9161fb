------------------------------ MODULE Mailbox -------------------------------
(***************************************************************************)
(* Mailbox (threads/synch.cc): Send and Receive meet through a one-message *)
(* buffer under a Lock with two Condition variables.                       *)
(*                                                                         *)
(* Interrupts are enabled when Acquire returns, so a thread may be         *)
(* preempted there with the lock held.  From there to the end of Release,  *)
(* or to the Sleep in Wait, no call enables interrupts: that is one step.  *)
(***************************************************************************)
EXTENDS Integers, Sequences, FiniteSets

CONSTANTS
    Threads,        \* the threads that use the mailbox
    Priority,       \* Thread::getPriority of each of them
    NULL,           \* the null Thread pointer
    Messages,       \* the messages that are sent
    MaxCalls        \* bound on the number of calls, for model checking

INSTANCE Synch WITH Conds <- {"sendWait", "receiveWait"}

VARIABLES
    m,              \* lock, sendWait and receiveWait
    receivePres, buffer, bufferRead,
    pc,             \* where each thread is: outside, in Send, in Receive
                    \* before or after it has been counted in receivePres
    message,        \* the argument of the Send a thread is in
    sent,           \* the messages Sends have put in the buffer, in order
    received        \* the messages Receives have returned, in order

vars == <<m, receivePres, buffer, bufferRead, pc, message, sent, received>>

InSend == {t \in Threads : pc[t] = "send"}
InReceive == {t \in Threads : pc[t] \in {"receive", "receiveLoop"}}

(* Calls made so far.                                                      *)
Calls == Len(sent) + Cardinality(InSend) + Len(received) + Cardinality(InReceive)

-----------------------------------------------------------------------------
Init ==
    /\ m = NewMonitor
    /\ receivePres = 0 /\ buffer = 0 /\ bufferRead = 0
    /\ pc = [t \in Threads |-> "outside"]
    /\ message = [t \in Threads |-> 0]
    /\ sent = <<>> /\ received = <<>>

(* A thread calls Send or Receive and gets to the Acquire they begin with. *)
CallSend(t, msg) ==
    /\ pc[t] = "outside" /\ Calls < MaxCalls
    /\ m' = Acquire(m, t)
    /\ pc' = [pc EXCEPT ![t] = "send"]
    /\ message' = [message EXCEPT ![t] = msg]
    /\ UNCHANGED <<receivePres, buffer, bufferRead, sent, received>>

CallReceive(t) ==
    /\ pc[t] = "outside" /\ Calls < MaxCalls
    /\ m' = Acquire(m, t)
    /\ pc' = [pc EXCEPT ![t] = "receive"]
    /\ UNCHANGED <<receivePres, buffer, bufferRead, message, sent, received>>

(* A thread woken in Acquire or in Wait tries to take the lock again.      *)
Reacquire(t) ==
    /\ pc[t] # "outside" /\ t \notin Sleeping(m) /\ ~isHeldBy(m, t)
    /\ m' = Acquire(m, t)
    /\ UNCHANGED <<receivePres, buffer, bufferRead, pc, message, sent, received>>

(* Send's while condition, and without its second half.                    *)
SendBlockedIgnoresReceivers == bufferRead = 1

SendBlocked == bufferRead = 1 \/ receivePres <= 0

(* Send, from a return of its Acquire or of its Wait with the lock held,   *)
(* to the Sleep in Wait.                                                   *)
SendWaits(t) ==
    /\ pc[t] = "send" /\ isHeldBy(m, t)
    /\ SendBlocked
    /\ m' = Wait(m, "sendWait", t)
    /\ UNCHANGED <<receivePres, buffer, bufferRead, pc, message, sent, received>>

(* Send, from a return of its Acquire or of its Wait with the lock held,   *)
(* to its own return.                                                      *)
SendPuts(t) ==
    /\ pc[t] = "send" /\ isHeldBy(m, t)
    /\ ~SendBlocked
    /\ buffer' = message[t]
    /\ bufferRead' = 1
    /\ m' = Release(Signal(m, "receiveWait"))
    /\ pc' = [pc EXCEPT ![t] = "outside"]
    /\ message' = [message EXCEPT ![t] = 0]
    /\ sent' = Append(sent, message[t])
    /\ UNCHANGED <<receivePres, received>>

(* What Receive does once, before its loop: it counts itself and wakes a   *)
(* Send.                                                                   *)
Counted(t) == IF pc[t] = "receive" THEN receivePres + 1 ELSE receivePres
SendWoken(t) == IF pc[t] = "receive" THEN Signal(m, "sendWait") ELSE m

(* Receive, with the lock held, to the Sleep in Wait.                      *)
ReceiveWaits(t) ==
    /\ t \in InReceive /\ isHeldBy(m, t)
    /\ bufferRead = 0
    /\ receivePres' = Counted(t)
    /\ m' = Wait(SendWoken(t), "receiveWait", t)
    /\ pc' = [pc EXCEPT ![t] = "receiveLoop"]
    /\ UNCHANGED <<buffer, bufferRead, message, sent, received>>

(* Receive, with the lock held, to its return.                             *)
ReceiveTakes(t) ==
    /\ t \in InReceive /\ isHeldBy(m, t)
    /\ bufferRead # 0
    /\ received' = Append(received, buffer)
    /\ buffer' = 0
    /\ bufferRead' = 0
    /\ receivePres' = Counted(t) - 1
    /\ m' = Release(SendWoken(t))
    /\ pc' = [pc EXCEPT ![t] = "outside"]
    /\ UNCHANGED <<message, sent>>

(* The rest of a call that has been made.                                  *)
Step(t) ==
    \/ Reacquire(t)
    \/ SendWaits(t) \/ SendPuts(t)
    \/ ReceiveWaits(t) \/ ReceiveTakes(t)

Next ==
    \E t \in Threads :
        \/ \E msg \in Messages : CallSend(t, msg)
        \/ CallReceive(t)
        \/ Step(t)

(* A thread inside a call that is not asleep is eventually run; nobody is  *)
(* obliged to make a call.                                                 *)
Spec == Init /\ [][Next]_vars /\ \A t \in Threads : WF_vars(Step(t))

-----------------------------------------------------------------------------
TypeOK ==
    /\ m \in Monitors
    /\ receivePres \in 0..Cardinality(Threads)
    /\ bufferRead \in {0, 1}
    /\ buffer \in Messages \cup {0}
    /\ pc \in [Threads -> {"outside", "send", "receive", "receiveLoop"}]
    /\ message \in [Threads -> Messages \cup {0}]
    /\ sent \in Seq(Messages) /\ received \in Seq(Messages)
    /\ Sleeping(m) \subseteq InSend \cup InReceive

(* Every message is received once and in the order of the Sends: nothing   *)
(* in the buffer is overwritten, read twice or dropped.                    *)
InOrder == sent = received \o (IF bufferRead = 1 THEN <<buffer>> ELSE <<>>)

(* A message is put in the buffer for a Receive that is there to take it:  *)
(* as long as it lies in the buffer, some Receive that has been counted is *)
(* awake.  A Send therefore never returns before a Receive was called.     *)
ReceiverAwake ==
    bufferRead = 1 => {t \in Threads : pc[t] = "receiveLoop"} \ Waiting(m) # {}

(* What was put in the buffer is eventually received.                      *)
Delivered == bufferRead = 1 ~> bufferRead = 0

(* synch.h: Send "waits until Receive(int * message) is called on the same *)
(* Mailbox.  Once it has been called the method copies the parameter into  *)
(* the Receive buffer and returns", and the same for Receive.  With        *)
(* finitely many calls this leaves, in the end, no Send or no Receive.     *)
SendMeetsReceive == []<>(InSend = {} \/ InReceive = {})
=============================================================================
