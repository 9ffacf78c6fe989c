----------------------------- MODULE PathClients -----------------------------
(***************************************************************************)
(* The memory path under any core: what the core drives towards fetch, and *)
(* the instruction in ex_mem, which moves on when the memory stage does    *)
(* not hold it.  What answers on the other side is left to those who       *)
(* extend this.                                                            *)
(***************************************************************************)
EXTENDS MemPath

CONSTANTS PCs,          \* where the core may redirect to
          Ops,          \* the memory instructions it may issue
          Ptes,         \* what a page-table read may return
          Satps

ASSUME PathClientsAssumption == PCs \subseteq Int /\ PCINIT \in Int

VARIABLE ex_mem

clientVars == <<pathVars, ex_mem>>

ClientsInit == PathInit /\ ex_mem = NoOp

OK == [ready |-> TRUE, last |-> TRUE, fault |-> FALSE]

\* The fetch controls of one cycle: redirect (or flush) to somewhere, accept the
\* instruction on offer, or neither.
Control(kind, pc, priv) ==
    [stop_fetch |-> FALSE, flush |-> kind = "flush", redirect_valid |-> kind = "redirect",
     redirect_pc |-> pc, fetch_accept |-> kind = "accept", current_priv |-> priv]

\* The privilege is looked at when a fetch starts or ex_mem itself asks.
Privs(kind) == IF \/ kind = "none" /\ ~fetch.req_pending_q /\ ~fetch.data_valid_q
                  \/ ~pending /\ IsMem(ex_mem)
               THEN Priv ELSE {PRV_M}

\* The data lines carry a PTE while a page table is read; satp is looked at only
\* by an idle MMU.
Lines == IF state \in Walking THEN Ptes ELSE {NoInstr}
Roots == IF state = "IDLE" THEN Satps ELSE {satp_q}

\* One cycle of the path and of ex_mem.
PathStep(ctl, satp, dn_resp, dn_data) ==
    /\ PathCycle(ctl, FALSE, ex_mem, satp, dn_resp, dn_data)
    /\ IF mem_wait(ex_mem, dresp(dn_resp, dn_data)) THEN UNCHANGED ex_mem
       ELSE ex_mem' \in Ops \union {NoOp}
-----------------------------------------------------------------------------
TypeOK ==
    /\ fetch \in [pc_q : Int, req_pc_q : Int, data_pc_q : Int, req_priv_q : Priv,
                  req_pending_q : BOOLEAN, data_valid_q : BOOLEAN,
                  drop_resp_q : BOOLEAN, data_ok_prev_q : BOOLEAN,
                  instr_q : Ptes \union {NoInstr}, fault_q : BOOLEAN]
    /\ index \in {DPORT, IPORT} /\ grant_ptr \in {DPORT, IPORT}

(* The arbiter and the MMU hold the same request and privilege at the same *)
(* time: neither answers a request the other has forgotten.                *)
Lockstep == /\ busy <=> state # "IDLE"
            /\ busy => saved_req = req_q /\ saved_priv = priv_mode_q

(* The port that was granted still asks with the very request and          *)
(* privilege that are being served, through redirects, flushes, privilege  *)
(* changes and the move from ex_mem to the pend copy.                      *)
StillAsked == busy => /\ creqs(ex_mem)[index] = saved_req
                      /\ \A priv \in Priv : cprivs(priv)[index] = saved_priv

(* fetch never asks while an instruction waits in it, and remembers to     *)
(* drop exactly while a request is out.                                    *)
OneSlot == /\ ~(fetch.req_pending_q /\ fetch.data_valid_q)
           /\ fetch.drop_resp_q => fetch.req_pending_q

\* A granted request is one; the arbiter is idle in the cycle after an answer to the
\* stage.
Served == /\ busy => Arb!Valid(saved_req)
          /\ mem_ok_prev_q => ~busy

PathInv == TypeOK /\ Lockstep /\ StillAsked /\ OneSlot /\ Served
=============================================================================
