---------------------------- MODULE MipsPrograms ----------------------------
(***************************************************************************)
(* Short programs for Mips, with each kind of instruction in each kind of  *)
(* place: after a load, in the delay slot of a branch, at a page's border. *)
(***************************************************************************)

EXTENDS Integers

I(o, s, t, d, x) == [op |-> o, rs |-> s, rt |-> t, rd |-> d, extra |-> x]
Nop == I("SLL", 0, 0, 0, 0)
Stop == I("RES", 0, 0, 0, 0)

Idle == <<Stop, Stop, Stop, Stop, Stop, Stop, Stop, Stop>>

Programs == {
    Idle,
    \* loads, a store of what was loaded, and a use of it
    <<I("LUI", 0, 1, 0, 2), I("LW", 1, 2, 0, 0), I("ADDIU", 1, 1, 0, 4), I("SW", 1, 2, 0, 0),
      I("LB", 1, 2, 0, 1), I("LHU", 1, 3, 0, 2), I("ADDU", 2, 2, 2, 0), Stop>>,
    \* a use in the delay slot of a load
    <<I("LUI", 0, 1, 0, 2), I("LW", 1, 2, 0, 0), I("ADDU", 2, 1, 3, 0), I("ADDU", 2, 1, 3, 0),
      I("SB", 1, 3, 0, 1), Stop, Stop, Stop>>,
    \* branches with loads and stores in their delay slots
    <<I("LUI", 0, 1, 0, 2), I("BEQ", 0, 0, 0, 2), I("LW", 1, 2, 0, 4), Stop,
      I("BGEZAL", 1, 0, 0, 2), I("SH", 1, 1, 0, 6), Stop, Stop>>,
    \* a call and a return, and a system call in a delay slot
    <<I("JAL", 0, 0, 0, 3), I("ADDIU", 0, 1, 0, 1), Stop, I("JR", 3, 0, 0, 0),
      I("SYSCALL", 0, 0, 0, 0), Stop, Stop, Stop>>,
    \* partial words, multiplication, HI and LO
    <<I("LUI", 0, 1, 0, 2), I("LWR", 1, 2, 0, 0), Nop, I("SWR", 1, 2, 0, 4), I("SWL", 1, 2, 0, 8),
      I("MULT", 1, 2, 0, 0), I("MFHI", 0, 0, 2, 0), I("LWL", 1, 2, 0, 1)>>,
    \* two loads in a row, and one to R0
    <<I("LUI", 0, 1, 0, 2), I("LW", 1, 2, 0, 0), I("LBU", 1, 3, 0, 5), I("LW", 1, 0, 0, 0),
      I("SUB", 2, 3, 2, 0), I("ADD", 1, 1, 1, 0), I("ADD", 1, 1, 1, 0), I("ADD", 1, 1, 1, 0)>>,
    \* loops, and jumps through a register
    <<I("LUI", 0, 1, 0, 2), I("ADDIU", 0, 2, 0, 2), I("ADDIU", 2, 2, 0, -1), I("BGTZ", 2, 0, 0, -2),
      I("LH", 1, 3, 0, 2), Nop, I("JALR", 3, 0, 2, 0), I("MTLO", 1, 0, 0, 0)>> }
=============================================================================
