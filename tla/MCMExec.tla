------------------------------- MODULE MCMExec -------------------------------
(***************************************************************************)
(* Every instruction first, in every width and on all operands; then one   *)
(* of each kind of start, so that what the first left behind is there.     *)
(***************************************************************************)
EXTENDS MExec

MCFirst == [sel : 0 .. 7, is_word : BOOLEAN, op1 : Words, rs2_val : Words]
M(sel, w, a, b) == [sel |-> sel, is_word |-> w, op1 |-> a, rs2_val |-> b]
MCNext  == {M(MUL, FALSE, 3, Ones), M(DIV, FALSE, Ones, 2), M(REM, TRUE, 6, 3),
            M(DIVU, TRUE, 5, 0)}
=============================================================================
