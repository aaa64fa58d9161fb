------------------------------ MODULE NetTest -------------------------------
(***************************************************************************)
(* The scripts that threads of PostOffice run: sequences of sends, whose   *)
(* answers go to mailbox 1, and receives, and the one of MailTest          *)
(* (network/nettest.cc).                                                   *)
(***************************************************************************)

SendTo(k, n) == [op |-> "send", to |-> k, box |-> n, back |-> 1]
ReceiveFrom(n) == [op |-> "receive", box |-> n]

(* MailTest that does not wait for the acknowledgement.                    *)
MailTestNoWait(far) == <<SendTo(far, 0), ReceiveFrom(0), [op |-> "reply"], [op |-> "halt"]>>
(* MailTest: a message, the other machine's, an acknowledgement of it, and *)
(* the other machine's acknowledgement.                                    *)
MailTest(far) ==
    <<SendTo(far, 0), ReceiveFrom(0), [op |-> "reply"], ReceiveFrom(1), [op |-> "halt"]>>
=============================================================================
