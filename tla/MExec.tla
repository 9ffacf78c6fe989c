-------------------------------- MODULE MExec --------------------------------
(***************************************************************************)
(* M instructions in EX: core.sv prepares the operands and asks the unit,  *)
(* execute.sv takes the result.  The instruction in EX stays until the     *)
(* unit is ready; if the memory stage holds the pipeline in that very      *)
(* cycle, ready is missed and the instruction starts over.                 *)
(***************************************************************************)
EXTENDS MulDiv

CONSTANTS FirstOps,     \* the M instructions that may come first
          NextOps,      \* and after them
          NoOp

\* An M instruction and its operands; an instruction is not the absence of one.
MInstr == [sel : 0 .. 7, is_word : BOOLEAN, op1 : Words, rs2_val : Words]
ASSUME MExecAssumption == FirstOps \union NextOps \subseteq MInstr /\ NoOp \notin MInstr

VARIABLES id_ex,        \* the M instruction in EX: [sel, is_word, op1, rs2_val]
          begun         \* history: some instruction has come

vars == <<unitVars, id_ex, begun>>

muldiv_unsigned_w(i) == i.is_word /\ i.sel \in {DIVU, REMU}
Operand(i, v) == IF ~i.is_word THEN v
                 ELSE IF muldiv_unsigned_w(i) THEN Low(v) ELSE SignExtend(v)
Asked(i) == [a |-> Operand(i, i.op1), b |-> Operand(i, i.rs2_val), sel |-> i.sel,
             is_word |-> i.is_word]

wb_val(i) == IF i.is_word THEN SignExtend(result) ELSE result

Init == MulDivInit /\ id_ex = NoOp /\ begun = FALSE

Enter == id_ex' \in (IF begun THEN NextOps ELSE FirstOps) \union {NoOp}

\* mem_wait: the memory stage holds the pipeline.
Cycle(mem_wait) ==
    /\ MulDivCycle(id_ex # NoOp /\ ~busy /\ ~ready_q, Asked(id_ex))
    /\ IF ~mem_wait /\ (id_ex = NoOp \/ ready_q) THEN Enter ELSE UNCHANGED id_ex
    /\ begun' = (begun \/ id_ex # NoOp)

Next == \E mem_wait \in BOOLEAN : Cycle(mem_wait)

\* The clock never stops.
Safety == Init /\ [][Next]_vars
Spec   == Safety /\ WF_vars(Next)
-----------------------------------------------------------------------------
(* The reference: the M extension, on integers.                            *)

Width(i)     == IF i.is_word THEN HALF ELSE XLEN
Unsigned(i, v) == v % Pow2[Width(i)]
Signed(i, v) == LET u == Unsigned(i, v)
                IN  IF u >= Pow2[Width(i) - 1] THEN u - Pow2[Width(i)] ELSE u
Number(i, v) == IF i.sel \in {DIVU, REMU} THEN Unsigned(i, v) ELSE Signed(i, v)

Mag(n)      == IF n < 0 THEN -n ELSE n
Quot(m, n)  == IF n = 0 THEN -1
               ELSE IF (m < 0) = (n < 0) THEN Mag(m) \div Mag(n) ELSE -(Mag(m) \div Mag(n))
Rem(m, n)   == IF n = 0 THEN m
               ELSE IF m < 0 THEN -(Mag(m) % Mag(n)) ELSE m % Mag(n)

Reference(i) ==
    LET m == Number(i, i.op1)
        n == Number(i, i.rs2_val)
        v == CASE i.sel = MUL            -> m * n
               [] i.sel \in {DIV, DIVU} -> Quot(m, n)
               [] i.sel \in {REM, REMU} -> Rem(m, n)
    IN  IF i.is_word THEN SignExtend(v % Pow2[XLEN]) ELSE v % Pow2[XLEN]

\* The instructions Lab1-extra sets out to provide.
Provided(i) == i.sel \in {MUL, DIV, DIVU, REM, REMU}

\* A full-width division of the least W number by -1.
HalfOverflow(i) == ~i.is_word /\ signed_overflow(Asked(i)) /\ ~Negative(Neg(i.op1))

Takes == ready_q /\ id_ex # NoOp /\ Provided(id_ex)

(* The value an M instruction takes from the unit is the M extension's, in *)
(* both widths, for every pair of operands, after whatever the unit did    *)
(* before; one quotient the next property is about is left out.            *)
ValueMatches == Takes /\ ~HalfOverflow(id_ex) => wb_val(id_ex) = Reference(id_ex)

(* Overflow is the least negative number divided by -1, and only that      *)
(* ("the least negative number divided by minus one gives the dividend",   *)
(* "as the specification has it in both widths", Lab1-extra report).       *)
OverflowMatches == Takes => wb_val(id_ex) = Reference(id_ex)

\* What is left of the dividend in div_a.
Left == div_a \div Pow2[XLEN - iter_q]

(* The loop: quotient and remainder so far, with the bits still to come    *)
(* down, make up the dividend's absolute value; the remainder is less than *)
(* the divisor and never about to lose its top bit in the shift.           *)
LoopInvariant ==
    state = "DIV" =>
        /\ (quot_q * div_b + rem_q) * Pow2[iter_q] + Left =
               LET v == IF unsigned_op(op_q) THEN op_q.a ELSE Abs(op_q.a)
               IN  IF id_ex.is_word THEN Low(v) ELSE v
        /\ rem_q < div_b
        /\ iter_q # 0 => rem_q < Pow2[XLEN - 1]

\* The unit as the core sees it.
muldiv == [st |-> IF ready_q THEN "ready" ELSE IF busy THEN "busy" ELSE "idle",
           a  |-> IF ready_q \/ busy THEN op_q ELSE NoOp]

Unit == INSTANCE MulDivUnit WITH
            Operands <- [a : Words, b : Words, sel : 0 .. 7],
            NoOperands <- NoOp

(* It keeps the promise Core relies on: the operands latched at the start  *)
(* are the ones it answers for, ready lasts one cycle, and comes.          *)
KeepsPromise == Unit!UnitSpec
=============================================================================
