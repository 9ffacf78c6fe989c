------------------------------- MODULE Fetch -------------------------------
(***************************************************************************)
(* fetch.sv: the fetch unit.  One request is outstanding at most, one      *)
(* fetched instruction waits to be accepted at most; a redirect during a   *)
(* request lets the request finish and drops its answer.                   *)
(***************************************************************************)
EXTENDS Common

CONSTANTS PCINIT,       \* the reset program counter
          NoInstr       \* the reset value of instr_q

VARIABLE fetch          \* the unit's registers, by their source names

\* Mutant of start_request: the waiting instruction is not looked at.
start_request_over(ctl) == /\ ~ctl.stop_fetch /\ ~ctl.flush /\ ~ctl.redirect_valid
                           /\ ~fetch.req_pending_q

\* Keep request stable until response returns.
start_request(ctl) == /\ ~ctl.stop_fetch /\ ~ctl.flush /\ ~ctl.redirect_valid
                      /\ ~fetch.req_pending_q /\ ~fetch.data_valid_q

\* Only the first cycle of a response counts.
response_fire(iresp) ==
    fetch.req_pending_q /\ iresp.data_ok /\ ~fetch.data_ok_prev_q

fetch_valid == fetch.data_valid_q
fetch_fault == fetch.fault_q
fetch_pc    == fetch.data_pc_q
fetch_instr == fetch.instr_q

FetchInit == fetch = [pc_q |-> PCINIT, req_pc_q |-> PCINIT, data_pc_q |-> 0,
                      req_priv_q |-> PRV_M, req_pending_q |-> FALSE,
                      data_valid_q |-> FALSE, drop_resp_q |-> FALSE,
                      data_ok_prev_q |-> FALSE, instr_q |-> NoInstr,
                      fault_q |-> FALSE]

-----------------------------------------------------------------------------
(* What the registers f become, one cause at a time.                       *)

\* Mutant of Latch: once high, data_ok_prev_q stays high.
LatchSticky(f, iresp) ==
    [f EXCEPT !.data_ok_prev_q = @ \/ iresp.data_ok, !.fault_q = FALSE]

Latch(f, iresp) == [f EXCEPT !.data_ok_prev_q = iresp.data_ok, !.fault_q = FALSE]

\* The answer to a request made before a redirect is thrown away; a fault is
\* reported for one cycle and leaves data_pc_q alone.
Respond(f, iresp) ==
    IF f.drop_resp_q
    THEN [f EXCEPT !.req_pending_q = FALSE, !.drop_resp_q = FALSE, !.data_valid_q = FALSE]
    ELSE IF iresp.fault
    THEN [f EXCEPT !.req_pending_q = FALSE, !.data_valid_q = FALSE, !.fault_q = TRUE]
    ELSE [f EXCEPT !.req_pending_q = FALSE, !.data_valid_q = TRUE,
                   !.data_pc_q = f.req_pc_q, !.instr_q = iresp.data]

Start(f, priv) == [f EXCEPT !.req_pending_q = TRUE, !.req_pc_q = f.pc_q,
                            !.req_priv_q = priv]

Accepted(f) == [f EXCEPT !.data_valid_q = FALSE, !.pc_q = fetch.data_pc_q + 4]

-----------------------------------------------------------------------------
(* One clock cycle.  ctl holds the core's side of the interface (with      *)
(* flush driven by ifetch_trap_flush), iresp the bus's.                    *)

\* Mutant of FetchRedirect: the request that is out is not marked to be dropped.
FetchRedirectKeeping(ctl, iresp) ==
    /\ ctl.redirect_valid \/ ctl.flush
    /\ fetch' = [Latch(fetch, iresp) EXCEPT
                    !.pc_q = ctl.redirect_pc, !.data_valid_q = FALSE,
                    !.req_pending_q = @ /\ ~response_fire(iresp)]

\* The redirect and the flush branch of the source are the same statements.
FetchRedirect(ctl, iresp) ==
    /\ ctl.redirect_valid \/ ctl.flush
    /\ fetch' = [Latch(fetch, iresp) EXCEPT
                    !.pc_q = ctl.redirect_pc,
                    !.data_valid_q = FALSE,
                    !.req_pending_q = @ /\ ~response_fire(iresp),
                    !.drop_resp_q = IF response_fire(iresp) THEN FALSE
                                    ELSE @ \/ fetch.req_pending_q]

FetchAdvance(ctl, iresp) ==
    /\ ~ctl.redirect_valid /\ ~ctl.flush
    /\ LET f == Latch(fetch, iresp)
           g == IF response_fire(iresp) THEN Respond(f, iresp)
                ELSE IF start_request(ctl) THEN Start(f, ctl.current_priv)
                ELSE f
       IN  fetch' = IF ctl.fetch_accept /\ fetch.data_valid_q THEN Accepted(g) ELSE g

FetchCycle(ctl, iresp) == FetchRedirect(ctl, iresp) \/ FetchAdvance(ctl, iresp)
=============================================================================
