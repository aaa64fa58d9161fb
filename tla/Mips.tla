-------------------------------- MODULE Mips --------------------------------
(***************************************************************************)
(* The simulated processor (machine/mipssim.cc, machine.cc, translate.cc)  *)
(* with the kernel's answer to its exceptions (userprog/exception.cc): a   *)
(* thread runs a program whose pages come and go, an instruction that      *)
(* faults is begun again, a load reaches its register one instruction      *)
(* late, and the thread may lose the processor after any instruction.      *)
(*                                                                         *)
(* Frames and the backing store are left to VirtualMemory; here a page is  *)
(* valid or not, and its bytes stay.  The program lies at address 0 and is *)
(* not written to.                                                         *)
(***************************************************************************)
EXTENDS Instructions

CONSTANTS
    Programs,           \* sequences of instructions
    NumPages, PageSize, \* of the address space
    Results, ResultReg, \* what Exec and Join return, and where
    MaxFaults, MaxSwitches

VARIABLES
    code,
    registers,          \* the machine's registers
    mem,                \* the data of the address space
    valid,              \* the pages that are in memory
    exited,             \* "no", or the exception that ended the program
    running,            \* the thread has the processor
    saved,              \* its userRegisters
    early,              \* an instruction used a register in its load's delay
    faults, switches    \* how many page faults and switches there were

vars == <<code, registers, mem, valid, exited, running, saved, early, faults, switches>>

Registers == 0..BadVAddrReg
Pages == 0..(NumPages - 1)

(* AddrSpace::InitRegisters.                                               *)
Init ==
    /\ code \in Programs
    /\ registers = [k \in Registers |-> IF k = NextPCReg THEN 4 ELSE 0]
    /\ mem = [d \in (4 * Len(code))..(NumPages * PageSize - 1) |-> d % ByteMax]
    /\ valid \in {{}, Pages}
    /\ exited = "no" /\ early = FALSE
    /\ running = TRUE /\ saved = [k \in Registers |-> 0]
    /\ faults = 0 /\ switches = 0

(* Machine::Translate without a TLB; AddrSpace makes no page read-only.    *)
Translate(addr, size) ==
    IF addr % size # 0 \/ addr \div PageSize \notin Pages THEN "AddressError"
    ELSE IF addr \div PageSize \notin valid THEN "PageFault"
    ELSE "none"

(* Machine::DelayedLoad.                                                   *)
DelayedLoad(r, reg, value) ==
    [[r EXCEPT ![r[LoadReg]] = r[LoadValueReg]]
        EXCEPT ![LoadReg] = reg, ![LoadValueReg] = value, ![0] = 0]

(* Machine::RaiseException up to the handler.                              *)
Raised(r, bad) == DelayedLoad([r EXCEPT ![BadVAddrReg] = bad], 0, 0)

(* The end of ExceptionHandler: the call is not made again.                *)
Advanced(r) == [r EXCEPT ![PCReg] = r[NextPCReg], ![NextPCReg] = U(r[NextPCReg] + 4)]

(* RaiseException and ExceptionHandler.  A page fault brings in the page,  *)
(* perhaps in place of another; a system call returns, with a result if it *)
(* is Exec or Join, or is Exit; anything else ends the program.            *)
RaiseException(which, bad) ==
    LET r == Raised(registers, bad)
    IN  /\ CASE which = "PageFault" ->
                  /\ faults < MaxFaults
                  /\ faults' = faults + 1
                  /\ registers' = r
                  /\ \E out \in {{}} \cup {{p} : p \in valid} :
                        valid' = (valid \ out) \cup {bad \div PageSize}
                  /\ UNCHANGED exited
             [] which = "Syscall" ->
                  /\ \/ /\ \E v \in Results \cup {r[ResultReg]} :
                              registers' = Advanced([r EXCEPT ![ResultReg] = v])
                        /\ UNCHANGED exited
                     \/ registers' = r /\ exited' = which
                  /\ UNCHANGED <<valid, faults>>
             [] OTHER ->
                  /\ exited' = which
                  /\ registers' = r
                  /\ UNCHANGED <<valid, faults>>
        /\ UNCHANGED <<code, mem, running, saved, early, switches>>

(* What stops an instruction: of the fetch, of its ASSERT that the address *)
(* is aligned, of its access to memory, or of what it computes.            *)
Partial == {"LWL", "LWR", "SWL", "SWR"}
Access(i) ==
    LET addr == Address(i, registers)
    IN  IF i.op \in Partial /\ addr % 4 # 0 THEN "host"
        ELSE IF i.op \in Loads \cup Stores THEN Translate(addr, Size(i.op))
        ELSE "none"

(* What LWR merges its bytes with.                                         *)
OldValue(i) == IF registers[LoadReg] = i.rt THEN registers[LoadValueReg] ELSE registers[i.rt]

(* The registers the instruction names.                                    *)
Uses(i) == ({i.rs, i.rt, i.rd} \cup (IF i.op \in {"JAL", "BGEZAL", "BLTZAL"} THEN {R31} ELSE {})) \ {0}

(* The end of OneInstruction.                                              *)
Completed(e) ==
    LET r == DelayedLoad(e.reg, e.load[1], e.load[2])
    IN  [r EXCEPT ![PrevPCReg] = r[PCReg], ![PCReg] = r[NextPCReg], ![NextPCReg] = e.pcAfter]

(* Machine::OneInstruction.                                                *)
OneInstruction ==
    LET pc == registers[PCReg]
        i == code[(pc \div 4) + 1]
        e == Effect(i, registers, mem, registers[NextPCReg], OldValue(i))
    IN  /\ exited = "no" /\ running
        /\ IF Translate(pc, 4) # "none" THEN RaiseException(Translate(pc, 4), pc)
           ELSE IF Access(i) # "none" THEN RaiseException(Access(i), Address(i, registers))
           ELSE IF e.trap # "none" THEN RaiseException(e.trap, 0)
           ELSE
                  /\ registers' = Completed(e)
                  /\ mem' = e.mem
                  /\ early' = (early \/ registers[LoadReg] \in Uses(i))
                  /\ UNCHANGED <<code, valid, exited, running, saved, faults, switches>>

(* Thread::SaveUserState of the general registers and the counters only.   *)
SaveUserStateShort(r) == [k \in Registers |-> IF k <= NextPCReg THEN r[k] ELSE 0]
(* Thread::SaveUserState.                                                  *)
SaveUserState(r) == r

(* Scheduler::Run: another thread takes the processor, and uses it; pages  *)
(* may be taken from this one's space.                                     *)
SwitchOut ==
    /\ exited = "no" /\ running
    /\ switches < MaxSwitches
    /\ switches' = switches + 1
    /\ running' = FALSE
    /\ saved' = SaveUserState(registers)
    /\ registers' = [k \in Registers |-> 1]
    /\ valid' \in {valid, {}}
    /\ UNCHANGED <<code, mem, exited, early, faults>>

(* Scheduler::Run and Thread::RestoreUserState.                            *)
SwitchIn ==
    /\ ~running
    /\ registers' = saved
    /\ running' = TRUE
    /\ UNCHANGED <<code, mem, valid, saved, exited, early, faults, switches>>

Next == OneInstruction \/ SwitchOut \/ SwitchIn
Spec == Init /\ [][Next]_vars

-----------------------------------------------------------------------------
(* Registers hold words, and R0 holds zero whatever is written or loaded   *)
(* to it.                                                                  *)
TypeOK ==
    /\ registers \in [Registers -> Word]
    /\ saved \in [Registers -> Word]
    /\ \A d \in DOMAIN mem : mem[d] \in 0..(ByteMax - 1)
    /\ valid \subseteq Pages
    /\ running => registers[0] = 0 /\ registers[LoadReg] \in GPRegs

(* The registers of the thread, with a load that is on its way in place.   *)
Own == IF running THEN registers ELSE saved
View == [k \in 0..LoReg |-> IF k = 0 THEN 0 ELSE IF k = Own[LoadReg] THEN Own[LoadValueReg] ELSE Own[k]]

A == INSTANCE AbstractMips WITH reg <- View, pc <- Own[PCReg], npc <- Own[NextPCReg]

(* Whatever page faults and switches happen, and wherever, the program     *)
(* computes what a processor without them and without delayed loads does,  *)
(* up to the first instruction that uses a register in the delay of its    *)
(* load: a faulting instruction has done nothing when it is begun again,   *)
(* in the delay slot of a branch too, and a load that is on its way        *)
(* survives exceptions and switches.                                       *)
FaultsAreInvisible == A!Init /\ [][A!Next \/ early']_(A!vars)
=============================================================================
