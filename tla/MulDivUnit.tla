----------------------------- MODULE MulDivUnit -----------------------------
(***************************************************************************)
(* What the multiplier promises the core, without what it computes: an     *)
(* idle unit that is asked latches the operands, is busy for some time and *)
(* raises ready for one cycle, whoever is waiting then.  There is no way   *)
(* to call it off.                                                         *)
(***************************************************************************)
CONSTANTS Operands, NoOperands

VARIABLE muldiv         \* where it is, and the operands it latched

UnitInit == muldiv = [st |-> "idle", a |-> NoOperands]

\* done says whether the unit finishes in this cycle; ops is read when it starts.
UnitCycle(req_valid, ops, done) ==
    LET start == muldiv.st = "idle" /\ req_valid
    IN  muldiv' = IF start \/ muldiv.st = "busy"
                  THEN [st |-> IF done THEN "ready" ELSE "busy",
                        a  |-> IF start THEN ops ELSE muldiv.a]
                  ELSE [st |-> "idle", a |-> NoOperands]

Finishes == muldiv.st = "busy" /\ UnitCycle(FALSE, muldiv.a, TRUE)

\* UnitCycle for whatever the core asks.
UnitNext == \/ muldiv.st = "idle" /\ muldiv' \in [st : {"busy", "ready"}, a : Operands]
            \/ muldiv.st # "idle" /\ \E done \in BOOLEAN : UnitCycle(FALSE, muldiv.a, done)
UnitSafety == UnitInit /\ [][UnitNext]_muldiv
UnitSpec   == UnitSafety /\ WF_muldiv(Finishes)
=============================================================================
