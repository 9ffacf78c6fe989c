----------------------------- MODULE CBusArbiter -----------------------------
(***************************************************************************)
(* CBusArbiter.sv: the round-robin arbiter that shares the one CBus        *)
(* between the fetch unit and the memory stage.  Every action is what one  *)
(* rising clock edge does; the inputs of that cycle are its parameters.    *)
(***************************************************************************)
EXTENDS Common

CONSTANTS NUM_INPUTS,   \* number of masters
          Request,      \* the valid requests
          NoRequest     \* a request whose valid bit is low

ASSUME ArbiterAssumption == /\ NUM_INPUTS \in Nat \ {0}
                            /\ NoRequest \notin Request

VARIABLES busy,         \* a request has been granted and not answered yet
          index,        \* the master it was granted to
          grant_ptr,    \* where the next search starts
          saved_req,    \* the granted request, driven while busy
          saved_priv    \* and the privilege it was made with

arbVars == <<busy, index, grant_ptr, saved_req, saved_priv>>

Inputs    == 0 .. NUM_INPUTS - 1
MAX_INDEX == NUM_INPUTS - 1

Valid(req) == req # NoRequest

\* How far the search that starts at p looks before it reaches i:
\* the j with i = (p + j) % NUM_INPUTS.
Dist(p, i) == IF i >= p THEN i - p ELSE i + NUM_INPUTS - p

\* Mutant of Select: the search ends one master early.
SelectShort(ireqs) ==
    LET Asking == {i \in Inputs : Valid(ireqs[i]) /\ Dist(grant_ptr, i) < MAX_INDEX}
    IN  IF Asking = {} THEN grant_ptr
        ELSE CHOOSE i \in Asking :
                \A k \in Asking : Dist(grant_ptr, i) <= Dist(grant_ptr, k)

\* The first valid master from grant_ptr on; grant_ptr when there is none.
Select(ireqs) ==
    LET Asking == {i \in Inputs : Valid(ireqs[i])}
    IN  IF Asking = {} THEN grant_ptr
        ELSE CHOOSE i \in Asking :
                \A k \in Asking : Dist(grant_ptr, i) <= Dist(grant_ptr, k)

\* Mutants of NextPtr: no wrap at the last master; the served one keeps the turn.
NextPtrNoWrap(i) == i + 1
NextPtrSame(i)   == i

\* The pointer after master i has been served.
NextPtr(i) == IF i = MAX_INDEX THEN 0 ELSE i + 1

-----------------------------------------------------------------------------
(* Combinational outputs.                                                  *)

oreq(ireqs) == IF busy THEN saved_req ELSE ireqs[Select(ireqs)]

\* Note that an idle arbiter drives the privilege of the selected master.
opriv(ireqs, iprivs) == IF busy THEN saved_priv ELSE iprivs[Select(ireqs)]

iresps(oresp) == [i \in Inputs |-> IF busy /\ index = i THEN oresp ELSE NoResp]

-----------------------------------------------------------------------------
(* One clock cycle.                                                        *)

ArbInit == /\ busy = FALSE
           /\ index = 0
           /\ grant_ptr = 0
           /\ saved_req = NoRequest
           /\ saved_priv = PRV_U

\* Mutant of Grant: the master noted is where the search started.
GrantToPtr(ireqs, iprivs) ==
    /\ ~busy
    /\ Valid(ireqs[Select(ireqs)])
    /\ busy' = TRUE
    /\ index' = grant_ptr
    /\ saved_req' = ireqs[Select(ireqs)]
    /\ saved_priv' = iprivs[Select(ireqs)]
    /\ UNCHANGED grant_ptr

\* Idle, and some master asks: the request and its privilege are latched.
Grant(ireqs, iprivs) ==
    /\ ~busy
    /\ Valid(ireqs[Select(ireqs)])
    /\ busy' = TRUE
    /\ index' = Select(ireqs)
    /\ saved_req' = ireqs[Select(ireqs)]
    /\ saved_priv' = iprivs[Select(ireqs)]
    /\ UNCHANGED grant_ptr

\* Idle, and nobody asks: the same registers are written, busy stays low.
Idle(ireqs, iprivs) ==
    /\ ~busy
    /\ ~Valid(ireqs[Select(ireqs)])
    /\ index' = Select(ireqs)
    /\ saved_req' = NoRequest
    /\ saved_priv' = iprivs[Select(ireqs)]
    /\ UNCHANGED <<busy, grant_ptr>>

\* Busy, and the slave has not finished.
Hold(oresp) == /\ busy
               /\ ~Okay(oresp)
               /\ UNCHANGED arbVars

\* Busy, and the slave finishes: the master after the served one comes next.
Release(oresp) == /\ busy
                  /\ Okay(oresp)
                  /\ busy' = FALSE
                  /\ saved_req' = NoRequest
                  /\ grant_ptr' = NextPtr(index)
                  /\ UNCHANGED <<index, saved_priv>>

ArbCycle(ireqs, iprivs, oresp) == \/ Grant(ireqs, iprivs)
                                  \/ Idle(ireqs, iprivs)
                                  \/ Hold(oresp)
                                  \/ Release(oresp)

ArbTypeOK == /\ busy \in BOOLEAN
             /\ index \in Inputs
             /\ grant_ptr \in Inputs
             /\ saved_req \in Request \union {NoRequest}
             /\ saved_priv \in Priv
             /\ busy => Valid(saved_req)
=============================================================================
