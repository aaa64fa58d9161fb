---------------------------- MODULE AbstractMips ----------------------------
(***************************************************************************)
(* The processor a program sees: one instruction after the other, a branch *)
(* that takes effect after the next instruction, a load that has happened  *)
(* when the next instruction begins, and memory that is all there.  There  *)
(* are no page faults, no other threads and no delayed loads.              *)
(***************************************************************************)
EXTENDS Instructions

CONSTANTS Programs, NumPages, PageSize, Results, ResultReg

VARIABLES
    code,               \* the program: an instruction for each word address
    reg, pc, npc, mem,
    exited              \* "no", or the exception that ended the program

vars == <<code, reg, pc, npc, mem, exited>>

DataAddresses(c) == (4 * Len(c))..(NumPages * PageSize - 1)

Init ==
    /\ code \in Programs
    /\ reg = [k \in 0..LoReg |-> 0]
    /\ pc = 0 /\ npc = 4
    /\ mem \in {[d \in DataAddresses(code) |-> d % ByteMax]}
    /\ exited = "no"

Fails(addr, size) == addr % size # 0 \/ addr >= NumPages * PageSize
Current == code[(pc \div 4) + 1]
Result == Effect(Current, reg, mem, npc, reg[Current.rt])

(* Why the instruction does not complete.                                  *)
Why ==
    LET addr == Address(Current, reg)
    IN  IF Fails(pc, 4) THEN "AddressError"
        ELSE IF Current.op \in {"LWL", "LWR", "SWL", "SWR"} /\ addr % 4 # 0 THEN "host"
        ELSE IF Current.op \in (Loads \cup Stores) /\ Fails(addr, Size(Current.op)) THEN "AddressError"
        ELSE Result.trap

Completes ==
    /\ exited = "no" /\ Why = "none"
    /\ reg' = [[Result.reg EXCEPT ![Result.load[1]] = Result.load[2]] EXCEPT ![0] = 0]
    /\ pc' = npc /\ npc' = Result.pcAfter /\ mem' = Result.mem
    /\ UNCHANGED <<code, exited>>

SystemCall ==
    /\ exited = "no" /\ Why = "Syscall"
    /\ \E v \in Results \cup {reg[ResultReg]} : reg' = [reg EXCEPT ![ResultReg] = v]
    /\ pc' = npc /\ npc' = U(npc + 4)
    /\ UNCHANGED <<code, mem, exited>>

Ends ==
    /\ exited = "no" /\ Why # "none"
    /\ exited' = Why
    /\ UNCHANGED <<code, reg, pc, npc, mem>>

Next == Completes \/ SystemCall \/ Ends
Spec == Init /\ [][Next]_vars
=============================================================================
