---------------------------- MODULE PostOffice ------------------------------
(***************************************************************************)
(* Machines that exchange mail: the network device (machine/network.cc),   *)
(* PostOffice and MailBox (network/post.cc) with the SynchList that a      *)
(* MailBox is (threads/synchlist.cc), and the program that uses them,      *)
(* MailTest (network/nettest.cc).  A machine is a process of the host; the *)
(* host delivers packets in order, the device may drop one when it is      *)
(* sent.                                                                   *)
(*                                                                         *)
(* A user thread runs a script of sends and receives.  sendLock and the    *)
(* semaphores are a holder and counts; the lock and the condition of a     *)
(* mailbox are a monitor of Synch.                                         *)
(***************************************************************************)
EXTENDS NetTest, Integers, Sequences, SequencesExt, FiniteSets

CONSTANTS
    Machines, NULL,
    Boxes,          \* the mailboxes of a post office
    Threads,        \* the user threads
    Worker,         \* the postal worker of each machine
    MachineOf,
    Scripts         \* the scripts the user threads can have

Workers == {Worker[k] : k \in Machines}
AllThreads == Threads \cup Workers

S == INSTANCE Synch WITH
       Threads <- AllThreads, Priority <- [t \in AllThreads |-> 0], Conds <- {"listEmpty"}

VARIABLES
    script, reliable,
    socket,         \* the packets in the socket of each machine
    inbox,          \* Network::inHdr and inbox: a packet or NULL
    sending,        \* how many send interrupts are scheduled
    sendLock, messageSent, messageAvailable,
    box, list,      \* the monitor and the list of each mailbox
    done,           \* how much of its script each thread has done
    at, holds,      \* where a thread is in an operation, and its mail
    halted,
    sent, taken,    \* history: the mail sent and received, for each mailbox
    lost            \* how many packets were dropped

network == <<socket, inbox, sending>>
office == <<sendLock, messageSent, messageAvailable>>
boxes == <<box, list>>
history == <<sent, taken, lost>>
vars == <<script, reliable, network, office, boxes, done, at, holds, halted, history>>

Places == Machines \X Boxes

Init ==
    /\ script \in Scripts /\ reliable \in BOOLEAN
    /\ socket = [k \in Machines |-> <<>>] /\ inbox = [k \in Machines |-> NULL]
    /\ sending = [k \in Machines |-> 0]
    /\ sendLock = [k \in Machines |-> NULL]
    /\ messageSent = [k \in Machines |-> 0] /\ messageAvailable = [k \in Machines |-> 0]
    /\ box = [p \in Places |-> S!NewMonitor] /\ list = [p \in Places |-> <<>>]
    /\ done = [t \in Threads |-> 0]
    /\ at = [t \in AllThreads |-> "next"] /\ holds = [t \in AllThreads |-> NULL]
    /\ halted = {}
    /\ sent = [p \in Places |-> <<>>] /\ taken = [p \in Places |-> <<>>] /\ lost = 0

Runs(t) == MachineOf[t] \notin halted
Go(t, from, to) == Runs(t) /\ at[t] = from /\ at' = [at EXCEPT ![t] = to]
settings == <<script, reliable>>

HasOp(t, op) == done[t] < Len(script[t]) /\ script[t][done[t] + 1].op = op
Op(t) == script[t][done[t] + 1]
Advance(t) == done' = [done EXCEPT ![t] = @ + 1]

-----------------------------------------------------------------------------
(* PostOffice::Send.                                                       *)

(* The mail of a send: its sender, destination and the box to reply to; of *)
(* a reply: to where the last mail says.                                   *)
Mail(t) ==
    IF Op(t).op = "send"
    THEN [from |-> MachineOf[t], by |-> t, to |-> Op(t).to, box |-> Op(t).box, back |-> Op(t).back,
          number |-> done[t]]
    ELSE [from |-> MachineOf[t], by |-> t, to |-> holds[t].from, box |-> holds[t].back,
          back |-> holds[t].back, number |-> done[t]]

AcquireSend(t) ==
    /\ HasOp(t, "send") \/ HasOp(t, "reply")
    /\ sendLock[MachineOf[t]] = NULL
    /\ Go(t, "next", "send")
    /\ sendLock' = [sendLock EXCEPT ![MachineOf[t]] = t]
    /\ UNCHANGED <<settings, network, messageSent, messageAvailable, boxes, done, holds, halted, history>>

(* Network::Send: schedules the interrupt, and drops the packet or hands   *)
(* it to the host.                                                         *)
NetworkSend(t) ==
    LET mail == Mail(t)
    IN  /\ Go(t, "send", "sent")
        /\ sending' = [sending EXCEPT ![MachineOf[t]] = @ + 1]
        /\ \/ /\ ~reliable /\ lost' = lost + 1 /\ UNCHANGED socket
           \/ /\ socket' = [socket EXCEPT ![mail.to] = Append(@, mail)] /\ UNCHANGED lost
        /\ sent' = [sent EXCEPT ![<<mail.to, mail.box>>] = Append(@, mail)]
        /\ UNCHANGED <<settings, inbox, office, boxes, done, holds, halted, taken>>

(* Network::SendDone, which calls PacketSent.                              *)
SendDone(k) ==
    /\ k \notin halted /\ sending[k] > 0
    /\ sending' = [sending EXCEPT ![k] = @ - 1]
    /\ messageSent' = [messageSent EXCEPT ![k] = @ + 1]
    /\ UNCHANGED <<settings, socket, inbox, sendLock, messageAvailable, boxes, done, at, holds, halted, history>>

(* messageSent->P() and sendLock->Release().                               *)
Sent(t) ==
    LET k == MachineOf[t]
    IN  /\ Go(t, "sent", "next") /\ messageSent[k] > 0
        /\ messageSent' = [messageSent EXCEPT ![k] = @ - 1]
        /\ sendLock' = [sendLock EXCEPT ![k] = NULL]
        /\ Advance(t)
        /\ UNCHANGED <<settings, network, messageAvailable, boxes, holds, halted, history>>

-----------------------------------------------------------------------------
(* CheckPktAvail that reads a packet over one that is buffered.            *)
CheckPktAvailAlways(k) ==
    /\ k \notin halted /\ socket[k] # <<>>
    /\ inbox' = [inbox EXCEPT ![k] = Head(socket[k])]
    /\ socket' = [socket EXCEPT ![k] = Tail(@)]
    /\ messageAvailable' = [messageAvailable EXCEPT ![k] = @ + 1]
    /\ UNCHANGED <<settings, sending, sendLock, messageSent, boxes, done, at, holds, halted, history>>

(* Network::CheckPktAvail, which calls IncomingPacket.                     *)
CheckPktAvail(k) ==
    /\ k \notin halted /\ inbox[k] = NULL /\ socket[k] # <<>>
    /\ inbox' = [inbox EXCEPT ![k] = Head(socket[k])]
    /\ socket' = [socket EXCEPT ![k] = Tail(@)]
    /\ messageAvailable' = [messageAvailable EXCEPT ![k] = @ + 1]
    /\ UNCHANGED <<settings, sending, sendLock, messageSent, boxes, done, at, holds, halted, history>>

(* PostalDelivery: P, Network::Receive, and Put up to its Acquire.         *)
PostalDelivery(k) ==
    LET t == Worker[k]
        p == <<k, inbox[k].box>>
    IN  /\ Go(t, "next", "put") /\ messageAvailable[k] > 0
        /\ messageAvailable' = [messageAvailable EXCEPT ![k] = @ - 1]
        /\ holds' = [holds EXCEPT ![t] = inbox[k]]
        /\ inbox' = [inbox EXCEPT ![k] = NULL]
        /\ box' = [box EXCEPT ![p] = S!Acquire(@, t)]
        /\ UNCHANGED <<settings, socket, sending, sendLock, messageSent, list, done, halted, history>>

PlaceOf(t) == <<MachineOf[t], IF t \in Workers THEN holds[t].box ELSE Op(t).box>>

(* SynchList::Append with the lock held.                                   *)
SynchListAppend(k) ==
    LET t == Worker[k]
        p == PlaceOf(t)
    IN  /\ Go(t, "put", "next") /\ S!isHeldBy(box[p], t)
        /\ list' = [list EXCEPT ![p] = Append(@, holds[t])]
        /\ box' = [box EXCEPT ![p] = S!Release(S!Signal(@, "listEmpty"))]
        /\ holds' = [holds EXCEPT ![t] = NULL]
        /\ UNCHANGED <<settings, network, office, done, halted, history>>

-----------------------------------------------------------------------------
(* PostOffice::Receive, up to the Acquire of SynchList::Remove.            *)
Receive(t) ==
    /\ HasOp(t, "receive")
    /\ Go(t, "next", "get")
    /\ box' = [box EXCEPT ![PlaceOf(t)] = S!Acquire(@, t)]
    /\ UNCHANGED <<settings, network, office, list, done, holds, halted, history>>

(* A thread woken in Acquire or Wait tries to take the lock again.         *)
Reacquire(t) ==
    LET p == PlaceOf(t)
    IN  /\ Runs(t) /\ at[t] \in {"put", "get"}
        /\ t \notin S!Sleeping(box[p]) /\ ~S!isHeldBy(box[p], t)
        /\ box' = [box EXCEPT ![p] = S!Acquire(@, t)]
        /\ UNCHANGED <<settings, network, office, list, done, at, holds, halted, history>>

(* SynchList::Remove with the lock held.                                   *)
RemoveWaits(t) ==
    LET p == PlaceOf(t)
    IN  /\ Runs(t) /\ at[t] = "get" /\ S!isHeldBy(box[p], t)
        /\ list[p] = <<>>
        /\ box' = [box EXCEPT ![p] = S!Wait(@, "listEmpty", t)]
        /\ UNCHANGED <<settings, network, office, list, done, at, holds, halted, history>>

RemoveTakes(t) ==
    LET p == PlaceOf(t)
    IN  /\ at[t] = "get" /\ S!isHeldBy(box[p], t)
        /\ list[p] # <<>>
        /\ Go(t, "get", "next")
        /\ holds' = [holds EXCEPT ![t] = Head(list[p])]
        /\ list' = [list EXCEPT ![p] = Tail(@)]
        /\ taken' = [taken EXCEPT ![p] = Append(@, Head(list[p]))]
        /\ box' = [box EXCEPT ![p] = S!Release(@)]
        /\ Advance(t)
        /\ UNCHANGED <<settings, network, office, halted, sent, lost>>

(* Interrupt::Halt, the end of MailTest: the machine is gone.              *)
Halt(t) ==
    /\ HasOp(t, "halt") /\ Go(t, "next", "over")
    /\ halted' = halted \cup {MachineOf[t]}
    /\ Advance(t)
    /\ UNCHANGED <<settings, network, office, boxes, holds, history>>

UserStep(t) ==
    \/ AcquireSend(t) \/ NetworkSend(t) \/ Sent(t) \/ Receive(t)
    \/ RemoveWaits(t) \/ RemoveTakes(t) \/ Halt(t)

Next ==
    \/ \E k \in Machines : SendDone(k) \/ CheckPktAvail(k) \/ PostalDelivery(k) \/ SynchListAppend(k)
    \/ \E t \in Threads : UserStep(t)
    \/ \E t \in AllThreads : Reacquire(t)

(* The scripts are finite: it is enough that the machines do not stop      *)
(* while something can happen.                                             *)
Spec == Init /\ [][Next]_vars /\ WF_vars(Next)

-----------------------------------------------------------------------------
(* The semaphores and the monitors.                                        *)
TypeOK ==
    /\ \A k \in Machines : messageSent[k] \in 0..1 /\ sending[k] \in 0..1 /\ messageAvailable[k] \in 0..1
    /\ \A p \in Places : box[p] \in S!Monitors
    /\ halted \subseteq Machines

(* The mail received from a mailbox is among the mail sent to it, in the   *)
(* order it was sent, each at most once, whatever the network drops.       *)
MailInOrder ==
    \A p \in Places : \E f \in [DOMAIN taken[p] -> DOMAIN sent[p]] :
        /\ \A n \in DOMAIN taken[p] : taken[p][n] = sent[p][f[n]]
        /\ \A n, o \in DOMAIN taken[p] : n < o => f[n] < f[o]

(* When nothing is dropped nothing is lost: mail that has been sent and    *)
(* not received is in a socket, a device, a worker's hands or a mailbox.   *)
NothingLost ==
    LET here(k) == Range(socket[k]) \cup {inbox[k], holds[Worker[k]]}
                     \cup UNION {Range(list[<<k, b>>]) : b \in Boxes}
    IN  reliable => \A p \in Places : Range(sent[p]) \subseteq Range(taken[p]) \cup here(p[1])

(* MailTest ends only after the other machine has received its mail, and   *)
(* so does not leave it without its acknowledgement.                       *)
HaltsWhenAnswered ==
    \A t \in Threads : at[t] = "over" =>
        \A p \in Places : \A n \in DOMAIN sent[p] :
            sent[p][n].by = t /\ sent[p][n].number = 0 => sent[p][n] \in Range(taken[p])

(* No packet is ever sent to a machine that has halted, whose socket no    *)
(* longer exists.                                                          *)
NoMailToTheHalted ==
    [][\A p \in Places : sent'[p] # sent[p] => p[1] \notin halted]_vars

(* Nobody waits for mail in a mailbox that has more mail than threads on   *)
(* their way to take it.                                                   *)
NobodyForgotten ==
    \A p \in Places :
        LET waiting == S!Items(box[p].waitQ["listEmpty"])
            coming == {t \in Threads : at[t] = "get" /\ PlaceOf(t) = p} \ waiting
        IN  waiting # {} => Len(list[p]) <= Cardinality(coming)

(* When nothing is dropped, every thread comes to the end of its script.   *)
ScriptsEnd == \A t \in Threads : reliable ~> done[t] = Len(script[t])
=============================================================================
