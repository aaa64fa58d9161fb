----------------------------- MODULE MCMailbox ------------------------------
(* Mailbox for TLC: three threads, one of them of a higher priority.       *)
EXTENDS Mailbox

CONSTANTS t1, t2, t3

MCThreads == {t1, t2, t3}
MCPriority == [t \in MCThreads |-> IF t = t3 THEN 1 ELSE 0]
=============================================================================
