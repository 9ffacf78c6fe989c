------------------------------ MODULE MemPath ------------------------------
(***************************************************************************)
(* SimTop.sv/VTop.sv: the fetch unit and the memory stage on their two     *)
(* buses, the bus converters, the arbiter and the MMU, wired together.     *)
(* One PathCycle is one clock cycle of all of them.                        *)
(***************************************************************************)
EXTENDS Fetch, MemStage, MMU

CONSTANT PAGE_SIZE

VARIABLES busy, index, grant_ptr, saved_req, saved_priv

arbVars  == <<busy, index, grant_ptr, saved_req, saved_priv>>
pathVars == <<fetch, memVars, arbVars, mmuVars>>

\* The two inputs of the arbiter: ({icreq, dcreq}).
DPORT == 0
IPORT == 1

Arb == INSTANCE CBusArbiter WITH NUM_INPUTS <- 2

\* The fields of an address the MMU looks at (small: one index level is used).
AddrOf(a) == [vpn2 |-> 0, vpn1 |-> 0, vpn0 |-> a \div PAGE_SIZE, off |-> a % PAGE_SIZE]

-----------------------------------------------------------------------------
(* Requests and privileges up to the MMU.                                  *)

icreq == IF fetch.req_pending_q
         THEN [addr |-> AddrOf(fetch.req_pc_q), kind |-> "fetch", data |-> NoData]
         ELSE NoRequest

dcreq(in) == IF dreq_valid(in)
             THEN [addr |-> AddrOf(cur(in).mem_addr),
                   kind |-> IF cur(in).is_store THEN "store" ELSE "load",
                   data |-> IF cur(in).is_store THEN dreq_data(cur(in)) ELSE NoData]
             ELSE NoRequest

creqs(in)    == [i \in {DPORT, IPORT} |-> IF i = IPORT THEN icreq ELSE dcreq(in)]
cprivs(priv) == [i \in {DPORT, IPORT} |->
                    IF i = IPORT THEN fetch.req_priv_q ELSE dreq_priv(priv)]

(* Responses back: DBusToCBus makes a CBus response a bus one.             *)
BusResp(cresp, dn_data) == [data_ok |-> Okay(cresp), fault |-> cresp.fault, data |-> dn_data]

iresp(dn_resp, dn_data) == BusResp(Arb!iresps(up_resp(dn_resp))[IPORT], dn_data)
dresp(dn_resp, dn_data) == BusResp(Arb!iresps(up_resp(dn_resp))[DPORT], dn_data)

PathInit == FetchInit /\ MemInit /\ Arb!ArbInit /\ MMUInit

\* ctl is what the core drives towards fetch, in is ex_mem, flush is wb_is_trap;
\* dn_resp and dn_data are memory's answer.
PathCycle(ctl, flush, in, satp, dn_resp, dn_data) ==
    /\ FetchCycle(ctl, iresp(dn_resp, dn_data))
    /\ MemCycle(flush, in, dresp(dn_resp, dn_data), ctl.current_priv)
    /\ Arb!ArbCycle(creqs(in), cprivs(ctl.current_priv), up_resp(dn_resp))
    /\ MMUCycle(Arb!oreq(creqs(in)), Arb!opriv(creqs(in), cprivs(ctl.current_priv)),
                satp, dn_resp, dn_data)
=============================================================================
