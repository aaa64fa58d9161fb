---------------------------- MODULE Instructions ----------------------------
(***************************************************************************)
(* The instructions of Machine::OneInstruction (machine/mipssim.cc): which *)
(* memory an instruction accesses, and what it does to registers, memory   *)
(* and the program counter when nothing stops it.                          *)
(*                                                                         *)
(* A byte has W / 4 bits, so that a word has four; memory is little-endian.*)
(* An instruction is [op, rs, rt, rd, extra]; HI and LO are registers.     *)
(***************************************************************************)
EXTENDS Alu, Sequences

CONSTANT NumGPRegs      \* the last of the registers is R31

R31 == NumGPRegs - 1
HiReg == NumGPRegs      \* the registers of machine.h, in their order
LoReg == NumGPRegs + 1
PCReg == NumGPRegs + 2
NextPCReg == NumGPRegs + 3
PrevPCReg == NumGPRegs + 4
LoadReg == NumGPRegs + 5
LoadValueReg == NumGPRegs + 6
BadVAddrReg == NumGPRegs + 7
GPRegs == 0..R31
ByteMax == 2^(W \div 4)

Immediates == {"ADDI", "ADDIU", "SLTI", "SLTIU", "ANDI", "ORI", "XORI", "LUI"}
Branches == {"BEQ", "BNE", "BGEZ", "BGEZAL", "BGTZ", "BLEZ", "BLTZ", "BLTZAL"}
Jumps == {"J", "JAL", "JR", "JALR"}
Moves == {"MFHI", "MFLO", "MTHI", "MTLO"}
Loads == {"LB", "LBU", "LH", "LHU", "LW", "LWL", "LWR"}
Stores == {"SB", "SH", "SW", "SWL", "SWR"}

-----------------------------------------------------------------------------
(* Memory.                                                                 *)

Size(o) == IF o \in {"LB", "LBU", "SB"} THEN 1 ELSE IF o \in {"LH", "LHU", "SH"} THEN 2 ELSE 4

(* The address a load or a store computes.                                 *)
Address(i, r) == U(r[i.rs] + U(i.extra))

(* The switches of ReadMem and WriteMem on the size.                       *)
RECURSIVE Bytes(_, _, _)
Bytes(m, addr, size) ==
    IF size = 0 THEN 0 ELSE m[addr] + ByteMax * Bytes(m, addr + 1, size - 1)
Stored(m, addr, size, v) ==
    [d \in DOMAIN m |-> IF addr <= d /\ d < addr + size THEN (v \div ByteMax^(d - addr)) % ByteMax ELSE m[d]]

(* LB, LBU, LH and LHU.                                                    *)
Extended(o, v) ==
    CASE o = "LB" /\ v >= ByteMax \div 2 -> U(v - ByteMax)
      [] o = "LH" /\ v >= (ByteMax^2) \div 2 -> U(v - ByteMax^2)
      [] OTHER -> v

(* The value a load brings, with old what its register holds or is about   *)
(* to: LWL and LWR go on only with an aligned address.                     *)
Loaded(i, r, m, old) ==
    LET v == Bytes(m, Address(i, r), Size(i.op))
    IN  IF i.op = "LWR" THEN (old \div ByteMax) * ByteMax + (v \div ByteMax^3)
        ELSE Extended(i.op, v)

(* The memory after a store.                                               *)
AfterStore(i, r, m) ==
    LET addr == Address(i, r)
        word == Bytes(m, addr, 4)
    IN  CASE i.op = "SWR" -> Stored(m, addr, 4, (word % ByteMax^3) + (r[i.rt] % ByteMax) * ByteMax^3)
          [] OTHER -> Stored(m, addr, Size(i.op), r[i.rt])

-----------------------------------------------------------------------------
(* Branches and jumps; npc is NextPC, and a link is written first.         *)

Linked(i, r, npc) ==
    CASE i.op \in {"BGEZAL", "BLTZAL", "JAL"} -> [r EXCEPT ![R31] = U(npc + 4)]
      [] i.op = "JALR" -> [r EXCEPT ![i.rd] = U(npc + 4)]
      [] OTHER -> r

Taken(i, r) ==
    CASE i.op = "BEQ" -> r[i.rs] = r[i.rt]
      [] i.op = "BNE" -> r[i.rs] # r[i.rt]
      [] i.op \in {"BGEZ", "BGEZAL"} -> ~Sign(r[i.rs])
      [] i.op \in {"BLTZ", "BLTZAL"} -> Sign(r[i.rs])
      [] i.op = "BGTZ" -> S(r[i.rs]) > 0
      [] i.op = "BLEZ" -> S(r[i.rs]) <= 0

Region == 2^(W - 4)     \* what the mask 0xf0000000 keeps of a jump's address
JumpTo(i, r, npc) ==
    IF i.op \in {"J", "JAL"} THEN (U(npc + 4) \div Region) * Region + 4 * i.extra ELSE r[i.rs]

(* pcAfter, with r the registers after the link.                           *)
PcAfter(i, r, npc) ==
    CASE i.op \in Branches -> IF Taken(i, r) THEN U(npc + 4 * i.extra) ELSE U(npc + 4)
      [] i.op \in Jumps -> JumpTo(i, r, npc)
      [] OTHER -> U(npc + 4)

-----------------------------------------------------------------------------
(* The registers after an instruction that computes, or moves HI or LO.    *)
AfterMove(i, r) ==
    CASE i.op = "MFHI" -> [r EXCEPT ![i.rd] = r[HiReg]] [] i.op = "MTHI" -> [r EXCEPT ![HiReg] = r[i.rs]]
      [] i.op = "MFLO" -> [r EXCEPT ![i.rd] = r[LoReg]] [] i.op = "MTLO" -> [r EXCEPT ![LoReg] = r[i.rs]]

AfterCompute(i, r, c) ==
    IF c.val = None THEN [r EXCEPT ![HiReg] = c.hi, ![LoReg] = c.lo]
    ELSE [r EXCEPT ![IF i.op \in Immediates THEN i.rt ELSE i.rd] = c.val]

(* What OneInstruction's switch does, once its access to memory succeeds:  *)
(* what stops it, registers, memory, and a load for DelayedLoad.           *)
Effect(i, r, m, npc, old) ==
    LET same == [trap |-> "none", reg |-> r, mem |-> m, load |-> <<0, 0>>, pcAfter |-> U(npc + 4)]
        c == Compute(i.op, r[i.rs], r[i.rt], i.extra, i.extra)
    IN  CASE i.op \in Operations -> IF c.trap # "none" THEN [same EXCEPT !.trap = c.trap]
                                    ELSE [same EXCEPT !.reg = AfterCompute(i, r, c)]
          [] i.op \in Moves -> [same EXCEPT !.reg = AfterMove(i, r)]
          [] i.op \in Branches \cup Jumps ->
                LET s == Linked(i, r, npc) IN [same EXCEPT !.reg = s, !.pcAfter = PcAfter(i, s, npc)]
          [] i.op \in Loads -> [same EXCEPT !.load = <<i.rt, Loaded(i, r, m, old)>>]
          [] i.op \in Stores -> [same EXCEPT !.mem = AfterStore(i, r, m)]
          [] i.op = "SYSCALL" -> [same EXCEPT !.trap = "Syscall"]
          [] i.op \in {"RES", "UNIMP"} -> [same EXCEPT !.trap = "IllegalInstr"]
=============================================================================
