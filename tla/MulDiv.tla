------------------------------- MODULE MulDiv -------------------------------
(***************************************************************************)
(* muldiv.sv at a width of 2 * HALF bits: multiplication in two cycles,    *)
(* division by shifting and subtracting, one bit a cycle, on absolute      *)
(* values, with the signs restored at the output.  A register is the       *)
(* natural number of its bits.                                             *)
(***************************************************************************)
EXTENDS Integers

CONSTANT HALF           \* the width of a W instruction's operands
ASSUME HalfAssumption == HALF \in Nat \ {0, 1}

XLEN  == 2 * HALF

\* 2 ^ n, in a form that can be reasoned about.
Pow2[n \in 0 .. XLEN] == IF n = 0 THEN 1 ELSE 2 * Pow2[n - 1]

Words == 0 .. Pow2[XLEN] - 1
Ones  == Pow2[XLEN] - 1

VARIABLES state, op_q, iter_q, mul_res, rem_q, quot_q, div_a, div_b,
          neg_quot_q, neg_rem_q, ready_q

unitVars == <<state, op_q, iter_q, mul_res, rem_q, quot_q, div_a, div_b,
              neg_quot_q, neg_rem_q, ready_q>>

\* funct3.
MUL == 0  MULH == 1  DIV == 4  DIVU == 5  REM == 6  REMU == 7

Negative(v) == v >= Pow2[XLEN - 1]
Neg(v)      == (Pow2[XLEN] - v) % Pow2[XLEN]
Abs(v)      == IF Negative(v) THEN Neg(v) ELSE v
Low(v)      == v % Pow2[HALF]

\* The low half of v, its sign extended.
SignExtend(v) == IF Low(v) >= Pow2[HALF - 1] THEN Low(v) + Pow2[XLEN] - Pow2[HALF] ELSE Low(v)

signed_op(r)       == r.sel \in {DIV, REM}
unsigned_op(r)     == r.sel \in {DIVU, REMU}
signed_overflow(r) == /\ signed_op(r) /\ r.b = Ones
                      /\ r.a \in {Pow2[XLEN - 1], SignExtend(Pow2[HALF - 1])}

busy == state # "IDLE"

result == CASE op_q.sel = MUL  -> mul_res % Pow2[XLEN]
            [] op_q.sel = MULH -> mul_res \div Pow2[XLEN]
            [] op_q.sel \in {DIV, DIVU} -> IF neg_quot_q THEN Neg(quot_q) ELSE quot_q
            [] op_q.sel \in {REM, REMU} -> IF neg_rem_q THEN Neg(rem_q) ELSE rem_q
            [] OTHER -> 0

-----------------------------------------------------------------------------
\* The source resets state, ready_q and the signs; the rest is written before it
\* is read.
MulDivInit == /\ state = "IDLE" /\ ready_q = FALSE
              /\ neg_quot_q = FALSE /\ neg_rem_q = FALSE
              /\ op_q = [a |-> 0, b |-> 0, sel |-> MUL] /\ iter_q = 0 /\ mul_res = 0
              /\ rem_q = 0 /\ quot_q = 0 /\ div_a = 0 /\ div_b = 0

StartMul(r) ==
    /\ r.sel \in {MUL, MULH}
    /\ mul_res' = r.a * r.b
    /\ state' = "MUL" /\ ready_q' = FALSE
    /\ UNCHANGED <<iter_q, rem_q, quot_q, div_a, div_b, neg_quot_q, neg_rem_q>>

\* Division by zero and the overflow have their values at once.
Special(r) == r.b = 0 \/ signed_overflow(r)
StartSpecial(r) ==
    /\ r.sel \notin {MUL, MULH} /\ Special(r)
    /\ neg_quot_q' = FALSE /\ neg_rem_q' = FALSE
    /\ quot_q' = IF signed_overflow(r) THEN r.a ELSE Ones
    /\ rem_q' = IF signed_overflow(r) THEN 0 ELSE r.a
    /\ ready_q' = TRUE
    /\ UNCHANGED <<state, iter_q, mul_res, div_a, div_b>>

\* Mutant of StartDiv: the remainder takes the sign of the quotient.
StartDivOneSign(r) ==
    LET abs(v) == IF unsigned_op(r) THEN v ELSE Abs(v)
        negative == signed_op(r) /\ Negative(r.a) # Negative(r.b)
    IN  /\ r.sel \notin {MUL, MULH} /\ ~Special(r)
        /\ neg_quot_q' = negative /\ neg_rem_q' = negative
        /\ div_a' = IF r.is_word THEN Low(abs(r.a)) * Pow2[HALF] ELSE abs(r.a)
        /\ div_b' = IF r.is_word THEN Low(abs(r.b)) ELSE abs(r.b)
        /\ iter_q' = IF r.is_word THEN HALF ELSE XLEN
        /\ rem_q' = 0 /\ quot_q' = 0
        /\ state' = "DIV" /\ ready_q' = FALSE
        /\ UNCHANGED mul_res

StartDiv(r) ==
    LET abs(v) == IF unsigned_op(r) THEN v ELSE Abs(v)
        signOfA == IF r.is_word THEN Low(r.a) >= Pow2[HALF - 1] ELSE Negative(r.a)
    IN  /\ r.sel \notin {MUL, MULH} /\ ~Special(r)
        /\ neg_quot_q' = (signed_op(r) /\ Negative(r.a) # Negative(r.b))
        /\ neg_rem_q' = (signed_op(r) /\ signOfA)
        /\ div_a' = IF r.is_word THEN Low(abs(r.a)) * Pow2[HALF] ELSE abs(r.a)
        /\ div_b' = IF r.is_word THEN Low(abs(r.b)) ELSE abs(r.b)
        /\ iter_q' = IF r.is_word THEN HALF ELSE XLEN
        /\ rem_q' = 0 /\ quot_q' = 0
        /\ state' = "DIV" /\ ready_q' = FALSE
        /\ UNCHANGED mul_res

Start(r) == /\ state = "IDLE"
            /\ op_q' = [a |-> r.a, b |-> r.b, sel |-> r.sel]
            /\ StartMul(r) \/ StartSpecial(r) \/ StartDiv(r)

Rest == /\ state = "IDLE"
        /\ ready_q' = FALSE
        /\ UNCHANGED <<state, op_q, iter_q, mul_res, rem_q, quot_q, div_a, div_b,
                       neg_quot_q, neg_rem_q>>

\* Mutant of End: a multiplication ends without its ready.
EndSilent == /\ state = "MUL" \/ (state = "DIV" /\ iter_q = 0)
             /\ state' = "IDLE" /\ ready_q' = (state = "DIV")
             /\ UNCHANGED <<op_q, iter_q, mul_res, rem_q, quot_q, div_a, div_b,
                            neg_quot_q, neg_rem_q>>

End == /\ state = "MUL" \/ (state = "DIV" /\ iter_q = 0)
       /\ state' = "IDLE" /\ ready_q' = TRUE
       /\ UNCHANGED <<op_q, iter_q, mul_res, rem_q, quot_q, div_a, div_b,
                      neg_quot_q, neg_rem_q>>

\* A shift drops the top bit; one bit of the dividend comes down into the remainder.
shifted(v)      == (2 * v) % Pow2[XLEN]
rem_shifted     == shifted(rem_q) + div_a \div Pow2[XLEN - 1]
rem_gt          == rem_shifted > div_b   \* Mutant of rem_ge.
rem_ge          == rem_shifted >= div_b

Iterate ==
    /\ state = "DIV" /\ iter_q # 0
    /\ div_a' = shifted(div_a)
    /\ IF rem_ge
       THEN rem_q' = rem_shifted - div_b /\ quot_q' = shifted(quot_q) + 1
       ELSE rem_q' = rem_shifted /\ quot_q' = shifted(quot_q)
    /\ iter_q' = iter_q - 1
    /\ ready_q' = FALSE
    /\ UNCHANGED <<state, op_q, mul_res, div_b, neg_quot_q, neg_rem_q>>

MulDivCycle(req_valid, r) == IF req_valid /\ ~busy THEN Start(r)
                             ELSE Rest \/ End \/ Iterate
=============================================================================
