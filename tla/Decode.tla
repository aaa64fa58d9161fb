------------------------------- MODULE Decode -------------------------------
(***************************************************************************)
(* The three decoders of MIPS instructions in the repository: Instruction::*)
(* Decode of the machine (mipssim.cc, with the tables of mipssim.h), the   *)
(* switches of runprogram (bin/execute.c, with the codes of encode.h), and *)
(* the disassembler dump_ascii (bin/d.c, with the names of opstrings.c).   *)
(*                                                                         *)
(* An instruction is its fields; the low 16 bits are rd, shamt and funct.  *)
(***************************************************************************)
EXTENDS Integers, Sequences

CONSTANTS Regs, Shamts  \* the values that rs, rt and rd, and shamt, take

VARIABLES
    field,              \* the fields of the instruction
    decoded, run, shown \* what the three make of it

vars == <<field, decoded, run, shown>>

-----------------------------------------------------------------------------
(* machine/mipssim.h, by the numbers of the fields from 0 on.              *)

opTable == <<
    "SPECIAL", "BCOND", "J", "JAL", "BEQ", "BNE", "BLEZ", "BGTZ", "ADDI", "ADDIU",
    "SLTI", "SLTIU", "ANDI", "ORI", "XORI", "LUI", "UNIMP", "UNIMP", "UNIMP", "UNIMP",
    "RES", "RES", "RES", "RES", "RES", "RES", "RES", "RES", "RES", "RES", "RES", "RES",
    "LB", "LH", "LWL", "LW", "LBU", "LHU", "LWR", "RES", "SB", "SH", "SWL", "SW", "RES",
    "RES", "SWR", "RES", "UNIMP", "UNIMP", "UNIMP", "UNIMP", "RES", "RES", "RES", "RES",
    "UNIMP", "UNIMP", "UNIMP", "UNIMP", "RES", "RES", "RES", "RES" >>

specialTable == <<
    "SLL", "RES", "SRL", "SRA", "SLLV", "RES", "SRLV", "SRAV", "JR", "JALR", "RES",
    "RES", "SYSCALL", "UNIMP", "RES", "RES", "MFHI", "MTHI", "MFLO", "MTLO", "RES",
    "RES", "RES", "RES", "MULT", "MULTU", "DIV", "DIVU", "RES", "RES", "RES", "RES",
    "ADD", "ADDU", "SUB", "SUBU", "AND", "OR", "XOR", "NOR", "RES", "RES", "SLT",
    "SLTU", "RES", "RES", "RES", "RES", "RES", "RES", "RES", "RES", "RES", "RES", "RES",
    "RES", "RES", "RES", "RES", "RES", "RES", "RES", "RES", "RES" >>

(* Instruction::Decode of the code and the format, and with the test of    *)
(* BCOND's codes for BLTZAL and BGEZAL exchanged.                          *)
Format(op) == CASE opTable[op + 1] = "SPECIAL" -> "R"
                [] opTable[op + 1] \in {"J", "JAL"} -> "J"
                [] OTHER -> "I"

BcondCodeSwapped(rt) ==
    CASE rt = 0 -> "BLTZ" [] rt = 1 -> "BGEZ" [] rt = 17 -> "BLTZAL" [] rt = 16 -> "BGEZAL"
      [] OTHER -> "UNIMP"
BcondCode(rt) ==
    CASE rt = 0 -> "BLTZ" [] rt = 1 -> "BGEZ" [] rt = 16 -> "BLTZAL" [] rt = 17 -> "BGEZAL"
      [] OTHER -> "UNIMP"

Low16(f) == f.rd * 2048 + f.shamt * 64 + f.funct

Extra(f) ==
    CASE Format(f.op) = "I" -> IF Low16(f) >= 32768 THEN Low16(f) - 65536 ELSE Low16(f)
      [] Format(f.op) = "R" -> f.shamt
      [] OTHER -> (f.rs * 32 + f.rt) * 65536 + Low16(f)

OpCode(f) ==
    CASE opTable[f.op + 1] = "SPECIAL" -> specialTable[f.funct + 1]
      [] opTable[f.op + 1] = "BCOND" -> BcondCode(f.rt)
      [] OTHER -> opTable[f.op + 1]

(* The fields of a shift.                                                  *)
ShiftFields(n) == IF n \in {"SLL", "SRA", "SRL"} THEN {"RD", "RT", "EXTRA"} ELSE {"RD", "RT", "RS"}

(* opStrings and TypeToReg: the fields the machine's trace prints.         *)
Printed(n) ==
    CASE n \in {"SLL", "SRA", "SRL", "SLLV", "SRAV", "SRLV"} -> ShiftFields(n)
      [] n \in {"ADD", "ADDU", "AND", "NOR", "OR", "SLT", "SLTU", "SUB", "SUBU",
                "XOR"} -> {"RD", "RS", "RT"}
      [] n \in {"ADDI", "ADDIU", "ANDI", "BEQ", "BNE", "LB", "LBU", "LH", "LHU",
                "LW", "LWL", "LWR", "ORI", "SB", "SH", "SLTI", "SLTIU", "SW", "SWL",
                "SWR", "XORI"} -> {"EXTRA", "RS", "RT"}
      [] n \in {"BGEZ", "BGEZAL", "BGTZ", "BLEZ", "BLTZ", "BLTZAL"} -> {"EXTRA", "RS"}
      [] n \in {"DIV", "DIVU", "MULT", "MULTU"} -> {"RS", "RT"}
      [] n \in {"J", "JAL"} -> {"EXTRA"}
      [] n \in {"JALR", "JR"} -> {"RD", "RS"}
      [] n \in {"LUI"} -> {"EXTRA", "RT"}
      [] n \in {"MFHI", "MFLO"} -> {"RD"}
      [] n \in {"MTHI", "MTLO"} -> {"RS"}
      [] OTHER -> {}

-----------------------------------------------------------------------------
(* bin/encode.h, and the switches of runprogram.                           *)

normalCodes ==
    [SPECIAL |-> 0, BCOND |-> 1, J |-> 2, JAL |-> 3, BEQ |-> 4, BNE |-> 5, BLEZ |-> 6,
     BGTZ |-> 7, ADDI |-> 8, ADDIU |-> 9, SLTI |-> 10, SLTIU |-> 11, ANDI |-> 12,
     ORI |-> 13, XORI |-> 14, LUI |-> 15, COP0 |-> 16, COP1 |-> 17, COP2 |-> 18,
     COP3 |-> 19, LB |-> 32, LH |-> 33, LWL |-> 34, LW |-> 35, LBU |-> 36, LHU |-> 37,
     LWR |-> 38, SB |-> 40, SH |-> 41, SWL |-> 42, SW |-> 43, SWR |-> 46, LWC0 |-> 48,
     LWC1 |-> 49, LWC2 |-> 50, LWC3 |-> 51, SWC0 |-> 56, SWC1 |-> 57, SWC2 |-> 58,
     SWC3 |-> 59]

specialCodes ==
    [SLL |-> 0, SRL |-> 2, SRA |-> 3, SLLV |-> 4, SRLV |-> 6, SRAV |-> 7, JR |-> 8,
     JALR |-> 9, SYSCALL |-> 12, BREAK |-> 13, MFHI |-> 16, MTHI |-> 17, MFLO |-> 18,
     MTLO |-> 19, MULT |-> 24, MULTU |-> 25, DIV |-> 26, DIVU |-> 27, ADD |-> 32,
     ADDU |-> 33, SUB |-> 34, SUBU |-> 35, AND |-> 36, OR |-> 37, XOR |-> 38,
     NOR |-> 39, SLT |-> 42, SLTU |-> 43]

bcondCodes == [BLTZ |-> 0, BGEZ |-> 1, BLTZAL |-> 16, BGEZAL |-> 17]

NameIn(codes, v) ==
    IF \E n \in DOMAIN codes : codes[n] = v THEN CHOOSE n \in DOMAIN codes : codes[n] = v ELSE "?"

RunName(f) ==
    CASE f.op = normalCodes.SPECIAL -> NameIn(specialCodes, f.funct)
      [] f.op = normalCodes.BCOND -> NameIn(bcondCodes, f.rt)
      [] OTHER -> NameIn(normalCodes, f.op)

(* immed, shamt and the 26 bits of a jump, of instr.h.                     *)
immed(f) == IF (f.rd \div 16) % 2 = 1 THEN Low16(f) - 65536 ELSE Low16(f)
off26(f) == f.rs * 2097152 + f.rt * 65536 + Low16(f)

-----------------------------------------------------------------------------
(* bin/opstrings.c, and dump_ascii; a number stands for a code with none.  *)

normalops == <<
    "SPECIAL", "BCOND", "J", "JAL", "BEQ", "BNE", "BLEZ", "BGTZ", "ADDI", "ADDIU",
    "SLTI", "SLTIU", "ANDI", "ORI", "XORI", "LUI", "COP0", "COP1", "COP2", "COP3",
    "024", "025", "026", "027", "030", "031", "032", "033", "034", "035", "036", "037",
    "LB", "LH", "LWL", "LW", "LBU", "LHU", "LWR", "047", "SB", "SH", "SWL", "SW", "054",
    "055", "SWR", "057", "LWC0", "LWC1", "LWC2", "LWC3", "064", "065", "066", "067",
    "SWC0", "SWC1", "SWC2", "SWC3", "074", "075", "076", "077" >>

specialops == <<
    "SLL", "001", "SRL", "SRA", "SLLV", "005", "SRLV", "SRAV", "JR", "JALR", "012",
    "013", "SYSCALL", "BREAK", "016", "017", "MFHI", "MTHI", "MFLO", "MTLO", "024",
    "025", "026", "027", "MULT", "MULTU", "DIV", "DIVU", "034", "035", "036", "037",
    "ADD", "ADDU", "SUB", "SUBU", "AND", "OR", "XOR", "NOR", "050", "051", "SLT",
    "SLTU", "054", "055", "056", "057", "060", "061", "062", "063", "064", "065", "066",
    "067", "070", "071", "072", "073", "074", "075", "076", "077" >>

Nop(f) == f = [op |-> 0, rs |-> 0, rt |-> 0, rd |-> 0, shamt |-> 0, funct |-> 0]

ShownName(f) ==
    CASE Nop(f) -> "NOP"
      [] f.op = 0 /\ ~Nop(f) -> specialops[f.funct + 1]
      [] f.op = 1 -> IF f.rt \in {0, 1, 16, 17} THEN NameIn(bcondCodes, f.rt) ELSE "BCOND"
      [] OTHER -> normalops[f.op + 1]

(* The fields dump_ascii prints, with EXTRA for an immediate or an address.*)
Shown(n) ==
    CASE n \in {"SLL", "SRL", "SRA"} -> {"RD", "RT", "EXTRA"}
      [] n \in {"SLLV", "SRLV", "SRAV", "ADD", "ADDU", "SUB", "SUBU", "AND", "OR", "XOR", "NOR",
                "SLT", "SLTU"} -> {"RD", "RT", "RS"}
      [] n \in {"JR", "JALR", "MFLO", "MTLO"} -> {"RS"}
      [] n \in {"MFHI", "MTHI"} -> {"RD"}
      [] n \in {"MULT", "MULTU", "DIV", "DIVU"} -> {"RS", "RT"}
      [] n \in {"BLTZ", "BGEZ", "BLTZAL", "BGEZAL"} -> {"RS", "EXTRA"}
      [] n \in {"J", "JAL"} -> {"EXTRA"}
      [] n = "LUI" -> {"RT", "EXTRA"}
      [] n \in DOMAIN normalCodes \ {"J", "JAL", "LUI", "BLEZ", "BGTZ", "COP0", "COP1", "COP2", "COP3"} ->
            {"RT", "RS", "EXTRA"}
      [] OTHER -> {}

-----------------------------------------------------------------------------
Fields == {f \in [op : 0..63, rs : Regs, rt : 0..31, rd : Regs, shamt : Shamts, funct : 0..63] :
             (f.op = 1 \/ f.rt \in Regs) /\ (f.op = 0 \/ f.funct \in Regs)}

Init == field = <<>> /\ decoded = <<>> /\ run = <<>> /\ shown = <<>>

Step ==
    /\ field = <<>>
    /\ \E f \in Fields :
          /\ field' = f
          /\ decoded' = <<OpCode(f), Extra(f), Printed(OpCode(f))>>
          /\ run' = <<RunName(f), IF f.op = 0 THEN f.shamt
                                  ELSE IF f.op \in {2, 3} THEN off26(f) ELSE immed(f)>>
          /\ shown' = <<ShownName(f), Shown(ShownName(f))>>

Next == Step
Spec == Init /\ [][Next]_vars

Implemented == decoded # <<>> /\ ~Nop(field) /\ decoded[1] \notin {"UNIMP", "RES"}

(* The three decoders give every instruction the machine implements the    *)
(* same name, and one the machine calls reserved is unknown to the others. *)
NamesAgree ==
    decoded # <<>> =>
        /\ Implemented => decoded[1] = run[1] /\ decoded[1] = shown[1]
        /\ decoded[1] = "RES" => run[1] = "?" /\ shown[1] \notin DOMAIN normalCodes \cup DOMAIN specialCodes

(* The machine and runprogram take the same immediate operand, shift       *)
(* distance or jump index from an instruction.                             *)
OperandsAgree == Implemented => decoded[2] = run[2]

(* The machine's trace and the disassembler print the same fields, but for *)
(* MFLO, MTHI, JR and JALR, and BLEZ and BGTZ that the disassembler leaves *)
(* without operands.                                                       *)
TracesAgree ==
    (Implemented /\ decoded[1] \notin {"MFLO", "MTHI", "JR", "JALR", "BLEZ", "BGTZ"})
        => decoded[3] = shown[2]
=============================================================================
