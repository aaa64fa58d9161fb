--------------------------------- MODULE Alu ---------------------------------
(***************************************************************************)
(* The arithmetic of the simulated MIPS processor: what the register       *)
(* instructions of Machine::OneInstruction (machine/mipssim.cc) compute.   *)
(*                                                                         *)
(* A word has W bits where the machine has 32, an immediate operand half   *)
(* as many, and a word is the number it is when it is read unsigned.       *)
(***************************************************************************)
EXTENDS Integers, Bitwise

CONSTANT W

Word == 0..(2^W - 1)
Immediate == (-(2^((W \div 2) - 1)))..(2^((W \div 2) - 1) - 1)

U(n) == n % 2^W                                    \* the word for a number
S(w) == IF w >= 2^(W - 1) THEN w - 2^W ELSE w      \* a word read as signed
Sign(w) == w >= 2^(W - 1)                          \* w & SIGN_BIT
Complement(w) == 2^W - 1 - w                       \* ~w

(* What an instruction leaves: the value for its register, HI and LO, and  *)
(* what stops it.                                                          *)
None == -1
Value(v) == [val |-> v, hi |-> None, lo |-> None, trap |-> "none"]
HiLo(h, l) == [val |-> None, hi |-> h, lo |-> l, trap |-> "none"]
Trap(what) == [val |-> None, hi |-> None, lo |-> None, trap |-> what]
Bit(b) == Value(IF b THEN 1 ELSE 0)

-----------------------------------------------------------------------------
(* Machine::OneInstruction, with a and b the registers rs and rt and x the *)
(* field extra, sign-extended.                                             *)

Add(a, b) ==
    LET sum == U(a + b)
    IN  IF ~Sign(a ^^ b) /\ Sign(a ^^ sum) THEN Trap("Overflow") ELSE Value(sum)

Addi(a, x) ==
    LET sum == U(a + U(x))
    IN  IF ~Sign(a ^^ U(x)) /\ Sign(U(x) ^^ sum) THEN Trap("Overflow") ELSE Value(sum)

Sub(a, b) ==
    LET diff == U(a - b)
    IN  IF Sign(a ^^ b) /\ Sign(a ^^ diff) THEN Trap("Overflow") ELSE Value(diff)

(* The low half of x, which the logical operations with an immediate take. *)
Unsigned(x) == x % 2^(W \div 2)

(* C division, towards zero; the host stops the program that divides the   *)
(* least number by -1.                                                     *)
Quotient(n, d) == LET q == (IF n < 0 THEN -n ELSE n) \div (IF d < 0 THEN -d ELSE d)
                  IN  IF (n < 0) = (d < 0) THEN q ELSE -q
Div(a, b) ==
    IF b = 0 THEN HiLo(0, 0)
    ELSE IF S(a) = -(2^(W - 1)) /\ S(b) = -1 THEN Trap("host")
    ELSE LET q == Quotient(S(a), S(b)) IN HiLo(U(S(a) - q * S(b)), U(q))
Divu(a, b) == IF b = 0 THEN HiLo(0, 0) ELSE HiLo(a % b, a \div b)

(* The loop of Mult that loses the carry out of the low word.              *)
RECURSIVE MultLoopNoCarry(_, _, _, _, _, _)
MultLoopNoCarry(i, a, bHi, bLo, hi, lo) ==
    LET lo1 == IF a % 2 = 1 THEN U(lo + bLo) ELSE lo
        hi1 == IF a % 2 = 1 THEN U(hi + bHi) ELSE hi
    IN  IF i = W THEN <<hi, lo>>
        ELSE MultLoopNoCarry(i + 1, U(S(a) \div 2), U(2 * bHi + (IF Sign(bLo) THEN 1 ELSE 0)),
                             U(2 * bLo), hi1, lo1)

(* The loop of Mult: one bit of a at a time, with b shifted along; >> keeps*)
(* the sign of a.                                                          *)
RECURSIVE MultLoop(_, _, _, _, _, _)
MultLoop(i, a, bHi, bLo, hi, lo) ==
    LET lo1 == U(lo + bLo)
        hi1 == U(hi + (IF lo1 < bLo THEN 1 ELSE 0) + bHi)
        last == a % 2 = 1 /\ a \div 2 = 0
        sum == IF a % 2 = 1 THEN <<hi1, lo1>> ELSE <<hi, lo>>
    IN  IF i = W THEN <<hi, lo>>
        ELSE IF last THEN sum
        ELSE MultLoop(i + 1, U(S(a) \div 2), U(2 * bHi + (IF Sign(bLo) THEN 1 ELSE 0)),
                      U(2 * bLo), sum[1], sum[2])

Mult(a, b, signedArith) ==
    LET negA == signedArith /\ S(a) < 0
        negB == signedArith /\ S(b) < 0
        r == MultLoop(0, IF negA THEN U(-a) ELSE a, 0, IF negB THEN U(-b) ELSE b, 0, 0)
        lo == U(Complement(r[2]) + 1)
        hi == IF lo = 0 THEN U(Complement(r[1]) + 1) ELSE Complement(r[1])
    IN  CASE a = 0 \/ b = 0 -> HiLo(0, 0)
          [] a # 0 /\ b # 0 /\ negA # negB -> HiLo(hi, lo)
          [] OTHER -> HiLo(r[1], r[2])

(* The bits of a register that give the distance of a shift.               *)
Distance(a) == a % W
(* >> of a signed int.                                                     *)
ShiftRight(w, n) == U(S(w) \div 2^n)

OrCase(a, b) == Value(a | a)

(* OneInstruction for the instructions that compute in registers; sh is    *)
(* the shift distance in the instruction.                                  *)
Compute(op, a, b, x, sh) ==
    CASE op = "ADD" -> Add(a, b)             [] op = "ADDI" -> Addi(a, x)
      [] op = "ADDU" -> Value(U(a + b))      [] op = "ADDIU" -> Value(U(a + U(x)))
      [] op = "SUB" -> Sub(a, b)             [] op = "SUBU" -> Value(U(a - b))
      [] op = "AND" -> Value(a & b)          [] op = "ANDI" -> Value(a & Unsigned(x))
      [] op = "OR" -> OrCase(a, b)           [] op = "ORI" -> Value(a | Unsigned(x))
      [] op = "XOR" -> Value(a ^^ b)         [] op = "XORI" -> Value(a ^^ Unsigned(x))
      [] op = "NOR" -> Value(Complement(a | b)) [] op = "LUI" -> Value(U(x * 2^(W \div 2)))
      [] op = "SLT" -> Bit(S(a) < S(b))      [] op = "SLTI" -> Bit(S(a) < x)
      [] op = "SLTU" -> Bit(a < b)           [] op = "SLTIU" -> Bit(a < U(x))
      [] op = "SLL" -> Value(U(b * 2^sh))    [] op = "SLLV" -> Value(U(b * 2^Distance(a)))
      [] op = "SRA" -> Value(ShiftRight(b, sh)) [] op = "SRAV" -> Value(ShiftRight(b, Distance(a)))
      [] op = "SRL" -> Value(ShiftRight(b, sh)) [] op = "SRLV" -> Value(ShiftRight(b, Distance(a)))
      [] op = "DIV" -> Div(a, b)             [] op = "DIVU" -> Divu(a, b)
      [] op = "MULT" -> Mult(a, b, TRUE)     [] op = "MULTU" -> Mult(a, b, FALSE)

Operations ==
    {"ADD", "ADDI", "ADDU", "ADDIU", "SUB", "SUBU", "AND", "ANDI", "OR", "ORI", "XOR", "XORI",
     "NOR", "LUI", "SLT", "SLTI", "SLTU", "SLTIU", "SLL", "SLLV", "SRA", "SRAV", "SRL", "SRLV",
     "DIV", "DIVU", "MULT", "MULTU"}
==============================================================================
