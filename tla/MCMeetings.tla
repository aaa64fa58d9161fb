----------------------------- MODULE MCMeetings -----------------------------
(* Pipe with a buffer of three bytes, Mailbox with three threads, one of   *)
(* them of a higher priority, and Whale with two threads for each of its   *)
(* methods. A behaviour is of one of the three.                            *)
EXTENDS Pipe

CONSTANTS t1, t2, t3, t4, t5, t6

VARIABLES
    part,               \* the part that this behaviour is of
    mb_m, mb_receivePres, mb_buffer, mb_bufferRead, mb_pc, mb_message,
    mb_sent, mb_received,
    wh_m, wh_count, wh_found, wh_call, wh_counted, wh_called, wh_returned

MCPriority == [t \in Threads |-> 0]
Six == {t1, t2, t3, t4, t5, t6}
MayCall == [t \in Six |-> CASE t \in {t1, t2} -> {"male"} [] t \in {t3, t4} -> {"female"}
                              [] t \in {t5, t6} -> {"matchmaker"}]

B == INSTANCE Mailbox WITH
    Threads <- {t1, t2, t3},
    Priority <- [t \in {t1, t2, t3} |-> IF t = t3 THEN 1 ELSE 0],
    Messages <- {0, 1}, MaxCalls <- 6, m <- mb_m,
    receivePres <- mb_receivePres, buffer <- mb_buffer,
    bufferRead <- mb_bufferRead, pc <- mb_pc, message <- mb_message,
    sent <- mb_sent, received <- mb_received
W == INSTANCE Whale WITH
    Threads <- Six, Priority <- [t \in Six |-> 0], MaxCalls <- 2,
    m <- wh_m, count <- wh_count, found <- wh_found, call <- wh_call,
    counted <- wh_counted, called <- wh_called, returned <- wh_returned

mailboxVars == <<mb_m, mb_receivePres, mb_buffer, mb_bufferRead, mb_pc,
    mb_message, mb_sent, mb_received>>
whaleVars == <<wh_m, wh_count, wh_found, wh_call, wh_counted, wh_called,
    wh_returned>>
allVars == <<part, vars, mailboxVars, whaleVars>>

SumInit ==
    /\ part \in {"pipe", "mailbox", "whale"}
    /\ Init /\ (part # "pipe" => inOpen = 1)
    /\ B!Init
    /\ W!Init

SumNext ==
    \/ part = "pipe" /\ Next /\ UNCHANGED <<part, mailboxVars, whaleVars>>
    \/ part = "mailbox" /\ B!Next /\ UNCHANGED <<part, vars, whaleVars>>
    \/ part = "whale" /\ W!Next /\ UNCHANGED <<part, vars, mailboxVars>>

SumSpec ==
    /\ SumInit /\ [][SumNext]_allVars
    /\ (\A t \in Threads : WF_vars(part = "pipe" /\ Step(t)))
    /\ (\A t \in {t1, t2, t3} : WF_mailboxVars(part = "mailbox" /\ B!Step(t)))
    /\ (\A t \in Six : WF_whaleVars(part = "whale" /\ W!Step(t)))

-----------------------------------------------------------------------------
(* The pipe's indices stay inside its buffer and as far apart as there are *)
(* bytes in it. Receive returns the messages of Send, in order, each once, *)
(* and while a message is in the buffer some thread in Receive is awake or *)
(* about to be. No call of the whale returns before there has been a call  *)
(* of each kind, and no count goes below zero.                             *)
MeetingsSound ==
    /\ TypeOK
    /\ part = "mailbox" => B!TypeOK /\ B!InOrder /\ B!ReceiverAwake
    /\ part = "whale" => W!TypeOK /\ W!NeedsAllKinds

(* A Read or a Write that the pipe has bytes or room for returns; a        *)
(* message in the mailbox is taken out; when as many calls of each kind of *)
(* the whale have been made, all of them return.                           *)
EveryCallReturns == ReadReturns /\ WriteReturns /\ B!Delivered /\ W!AllReturn
=============================================================================
