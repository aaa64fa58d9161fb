----------------------------- MODULE Simulators -----------------------------
(***************************************************************************)
(* The two simulators of the repository on one instruction: the machine's  *)
(* (machine/mipssim.cc, the operators of Alu) and runprogram's             *)
(* (bin/execute.c), set against arithmetic on numbers and against each     *)
(* other, with all the operands there are.                                 *)
(***************************************************************************)
EXTENDS Alu

-----------------------------------------------------------------------------
(* runprogram of bin/execute.c for the same instructions.                  *)

(* The high word it computes for a product of two words.                   *)
High(t1, t2) ==
    LET half == W \div 2
        l1 == t1 % 2^half   h1 == t1 \div 2^half
        l2 == t2 % 2^half   h2 == t2 \div 2^half
    IN  U(h1 * h2 + ShiftRight(U(h1 * l2), half) + ShiftRight(U(h2 * l1), half))

(* I_MULT.                                                                 *)
MultExecute(a, b) ==
    LET t1 == IF S(a) < 0 THEN U(-a) ELSE a
        t2 == IF S(b) < 0 THEN U(-b) ELSE b
        lo == U(t1 * t2)
        hi == High(t1, t2)
    IN  IF (S(a) < 0) = (S(b) < 0) THEN HiLo(hi, lo)
        ELSE HiLo(IF lo = 0 THEN U(Complement(hi) + 1) ELSE Complement(hi), U(-lo))

(* The cases of I_SPECIAL.                                                 *)
Special(op, a, b, sh) ==
    CASE op = "SLL" -> Value(U(b * 2^sh))    [] op = "SLLV" -> Value(U(b * 2^a))
      [] op = "SRL" -> Value(b \div 2^sh)    [] op = "SRLV" -> Value(b \div 2^a)
      [] op = "SRA" -> Value(U(S(b) \div 2^sh)) [] op = "SRAV" -> Value(U(S(b) \div 2^a))
      [] op = "MULT" -> MultExecute(a, b)
      [] op = "MULTU" -> HiLo(High(a, b), U(a * b))
      [] op \in {"DIV", "DIVU"} /\ b = 0 -> Trap("host")
      [] op = "DIV" /\ b # 0 -> Div(a, b)    [] op = "DIVU" /\ b # 0 -> Divu(a, b)
      [] op \in {"ADD", "ADDU"} -> Value(U(a + b))
      [] op \in {"SUB", "SUBU"} -> Value(U(a - b))
      [] op = "AND" -> Value(a & b)          [] op = "OR" -> Value(a | b)
      [] op = "XOR" -> Value(a ^^ b)         [] op = "NOR" -> Value(Complement(a | b))
      [] op = "SLT" -> Bit(S(a) < S(b))      [] op = "SLTU" -> Bit(a < b)

(* The cases with an immediate operand, which is always sign-extended.     *)
WithImmediate(op, a, x) ==
    CASE op \in {"ADDI", "ADDIU"} -> Value(U(a + U(x)))
      [] op = "SLTI" -> Bit(S(a) < x)        [] op = "SLTIU" -> Bit(a < U(x))
      [] op = "ANDI" -> Value(a & U(x))      [] op = "ORI" -> Value(a | U(x))
      [] op = "XORI" -> Value(a ^^ U(x))     [] op = "LUI" -> Value(U(x * 2^(W \div 2)))

Immediates == {"ADDI", "ADDIU", "SLTI", "SLTIU", "ANDI", "ORI", "XORI", "LUI"}
Shifts == {"SLL", "SRL", "SRA"}

Execute(op, a, b, x, sh) ==
    IF op \in Immediates THEN WithImmediate(op, a, x) ELSE Special(op, a, b, sh)

-----------------------------------------------------------------------------
VARIABLES
    op, a, b, x, sh,    \* an instruction and its operands
    sim, exe            \* what the two simulators compute

vars == <<op, a, b, x, sh, sim, exe>>

Init ==
    /\ op = "none" /\ a = 0 /\ b = 0 /\ x = 0 /\ sh = 0
    /\ sim = Trap("not yet") /\ exe = Trap("not yet")

Step ==
    /\ op = "none"
    /\ op' \in Operations
    /\ a' \in (IF op' \in Shifts THEN {0} ELSE Word)
    /\ b' \in (IF op' \in Immediates THEN {0} ELSE Word)
    /\ x' \in (IF op' \in Immediates THEN Immediate ELSE {0})
    /\ sh' \in (IF op' \in Shifts THEN 0..(W - 1) ELSE {0})
    /\ sim' = Compute(op', a', b', x', sh')
    /\ exe' = Execute(op', a', b', x', sh')

Next == Step
Spec == Init /\ [][Next]_vars

Done == op # "none"

(* ADD, ADDI and SUB raise the overflow exception exactly when the signed  *)
(* result is not a word, however the operands' signs lie, and give that    *)
(* result when it is; the unsigned operations never do, and the            *)
(* comparisons order signed and unsigned numbers, immediates included.     *)
ArithmeticIsExact ==
    LET y == IF op \in Immediates THEN x ELSE S(b)
        exact == IF op = "SUB" THEN S(a) - y ELSE S(a) + y
        fits == exact >= -(2^(W - 1)) /\ exact < 2^(W - 1)
    IN  Done =>
        /\ op \in {"ADD", "ADDI", "SUB"} => sim = IF fits THEN Value(U(exact)) ELSE Trap("Overflow")
        /\ op \in {"SLT", "SLTI"} => (sim = Value(1)) = (S(a) < y)
        /\ op \in {"SLTU", "SLTIU"} => (sim = Value(1)) = (a < U(y))

(* HI and LO after MULT and MULTU are the product of the two numbers in    *)
(* two words, for the least number and for operands of both signs too.     *)
MultIsExact ==
    Done => /\ op = "MULT" => /\ sim.lo = (S(a) * S(b)) % 2^W
                              /\ sim.hi = ((S(a) * S(b)) \div 2^W) % 2^W
            /\ op = "MULTU" => sim.hi * 2^W + sim.lo = a * b

(* The two simulators compute the same, but for what is written here: the  *)
(* shift SRL of a negative word, OR, shifts by a register beyond the word, *)
(* overflow, logical operations with a negative immediate, division by     *)
(* zero, and HI after a multiplication.                                    *)
SimulatorsAgree ==
    LET differ == \/ op = "OR"
                  \/ op \in {"SRL", "SRLV"} /\ Sign(b)
                  \/ op \in {"SLLV", "SRLV", "SRAV"} /\ a >= W
                  \/ sim.trap = "Overflow"
                  \/ op \in {"ANDI", "ORI", "XORI"} /\ x < 0
                  \/ op \in {"DIV", "DIVU"} /\ b = 0
    IN  (Done /\ ~differ) => sim.val = exe.val /\ sim.lo = exe.lo /\ sim.trap = exe.trap

(* OR and SRL compute what the other simulator computes for them: the      *)
(* bitwise or of the two registers, and a shift that brings in zeros.      *)
OrAndSrlAgree == (Done /\ op \in {"OR", "SRL"}) => sim = exe
=============================================================================
