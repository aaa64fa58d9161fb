------------------------------- MODULE MCDisk -------------------------------
(* SynchDisk with two threads and four sectors, and PostOffice with two    *)
(* machines: the test of the network on both, or two senders on one and    *)
(* two receivers on the other. A behaviour is of one of the two.           *)
EXTENDS SynchDisk, NetTest, TLC

CONSTANTS t1, t2, a, b, c, d, m1, m2, w1, w2, NULL

VARIABLES
    part,               \* the part that this behaviour is of
    script, reliable, socket, inbox, sending, sendLock, messageSent,
    messageAvailable, box, list, done, at, holds, halted, sent, taken, lost

BothMailTest == a :> MailTest(m2) @@ b :> <<>> @@ c :> MailTest(m1) @@ d :> <<>>
Crossing == a :> <<SendTo(m2, 0), SendTo(m2, 0)>> @@ b :> <<SendTo(m2, 0)>>
              @@ c :> <<ReceiveFrom(0), ReceiveFrom(0)>> @@ d :> <<ReceiveFrom(0)>>
Worker == m1 :> w1 @@ m2 :> w2
MachineOf == w1 :> m1 @@ w2 :> m2 @@ a :> m1 @@ b :> m1 @@ c :> m2 @@ d :> m2

O == INSTANCE PostOffice WITH
    Machines <- {m1, m2}, Boxes <- {0, 1}, Threads <- {a, b, c, d},
    Scripts <- {BothMailTest, Crossing}

postVars == <<script, reliable, socket, inbox, sending, sendLock,
    messageSent, messageAvailable, box, list, done, at, holds, halted,
    sent, taken, lost>>
allVars == <<part, vars, postVars>>

SumInit ==
    /\ part \in {"disk", "post"}
    /\ Init
    /\ O!Init /\ (part # "post" => script = Crossing /\ ~reliable)

SumNext ==
    \/ part = "disk" /\ Next /\ UNCHANGED <<part, postVars>>
    \/ part = "post" /\ O!Next /\ UNCHANGED <<part, vars>>

SumSpec ==
    /\ SumInit /\ [][SumNext]_allVars
    /\ (\A t \in Threads : SF_vars(part = "disk" /\ Step(t))) /\ WF_vars(part = "disk" /\ HandleInterrupt)
    /\ WF_postVars(part = "post" /\ O!Next)

-----------------------------------------------------------------------------
(* Mail is received in the order it was sent, each at most once, whatever  *)
(* the network drops; when nothing is dropped, mail not yet received is in *)
(* a socket, a device, a worker or a mailbox; nobody waits at a mailbox    *)
(* with mail that no thread is on its way to take; and MailTest ends only  *)
(* after the other machine has received its mail.                          *)
MailDelivered == part = "post" =>
         O!TypeOK /\ O!MailInOrder /\ O!NothingLost /\ O!NobodyForgotten
           /\ O!HaltsWhenAnswered

(* Every call of ReadSector and WriteSector returns; when nothing is       *)
(* dropped, every thread comes to the end of its script; and no packet is  *)
(* sent to a machine that has halted.                                      *)
RequestsAndMailEnd == CallReturns /\ O!ScriptsEnd /\ O!NoMailToTheHalted
=============================================================================
