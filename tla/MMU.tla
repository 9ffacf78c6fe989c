-------------------------------- MODULE MMU --------------------------------
(***************************************************************************)
(* MMU.sv: the Sv39 walker between the arbiter and memory.  It holds one   *)
(* request at a time together with the privilege and the satp of the cycle *)
(* it was accepted in, walks three levels when translation is on, issues   *)
(* the access itself, and answers.  An address is a virtual page number    *)
(* (three indices) and an offset; a PTE keeps its valid bit, its           *)
(* permission bits and its page number.                                    *)
(***************************************************************************)
EXTENDS Common

CONSTANTS Page,         \* physical page numbers
          Index,        \* one 9-bit field of a virtual page number
          Offset,       \* offsets within a page
          Data,         \* what a store carries
          NoData,       \* what a read carries
          NoRequest,
          VERILATOR     \* TRUE: the simulation build; FALSE: the FPGA build

VAddr   == [vpn2 : Index, vpn1 : Index, vpn0 : Index, off : Offset]
PAddr   == [ppn : Page, off : Offset]
PteAddr == [table : Page, idx : Index]
Kind    == {"fetch", "load", "store"}
Request == [addr : VAddr, kind : Kind, data : Data \union {NoData}]
Satp    == [sv39 : BOOLEAN, ppn : Page]
Pte     == [v : BOOLEAN, r : BOOLEAN, w : BOOLEAN, x : BOOLEAN, u : BOOLEAN,
            ppn : Page]

ASSUME MMUAssumption == /\ NoRequest \notin Request
                        /\ VERILATOR \in BOOLEAN
                        /\ 0 \in Page /\ 0 \in Index /\ 0 \in Offset

VARIABLES state, req_q, pte_addr_q, phys_addr_q, priv_mode_q, satp_q,
          resp_armed_q

mmuVars == <<state, req_q, pte_addr_q, phys_addr_q, priv_mode_q, satp_q,
             resp_armed_q>>

Walking == {"PTW_L2", "PTW_L1", "PTW_L0"}
State   == Walking \union {"IDLE", "CHECK", "FINAL_REQ", "FAULT"}

-----------------------------------------------------------------------------
(* PTE predicates (the functions at the head of MMU.sv).                   *)

pte_is_leaf(pte)    == pte.v /\ (pte.r \/ pte.w \/ pte.x)
pte_is_nonleaf(pte) == pte.v /\ ~(pte.r \/ pte.w \/ pte.x)

\* Mutant of pte_allow: the user bit is not looked at.
pte_allow_anyone(pte, kind, mode) == CASE kind = "fetch" -> pte.x
                                       [] kind = "load"  -> pte.r
                                       [] kind = "store" -> pte.w

\* Mutant of pte_allow: a store is let through where a load is.
pte_allow_readable(pte, kind, mode) == /\ IF kind = "fetch" THEN pte.x ELSE pte.r
                                       /\ mode = PRV_U => pte.u

pte_allow(pte, kind, mode) ==
    /\ CASE kind = "fetch" -> pte.x
         [] kind = "load"  -> pte.r
         [] kind = "store" -> pte.w
    /\ mode = PRV_U => pte.u

translate_en_q == priv_mode_q # PRV_M /\ satp_q.sv39

\* Mutant of dn_done: any answer is taken, as in the simulation build.
dn_done_unarmed(resp) == Okay(resp)

\* The FPGA build takes a read response only in a cycle it was waiting before.
dn_done(resp) == /\ Okay(resp)
                 /\ \/ VERILATOR
                    \/ state = "FINAL_REQ" /\ req_q.kind = "store"
                    \/ resp_armed_q

-----------------------------------------------------------------------------
(* Combinational outputs.                                                  *)

dn_req == CASE state \in Walking   -> [addr |-> pte_addr_q, kind |-> "load", data |-> NoData]
            [] state = "FINAL_REQ" -> [req_q EXCEPT !.addr = phys_addr_q]
            [] OTHER               -> NoRequest

\* Mutant of up_resp: a fault does not say that it ends the transfer.
up_resp_endless(dn_resp) ==
    CASE state = "FINAL_REQ" /\ dn_done(dn_resp) -> dn_resp
      [] state = "FAULT" -> [ready |-> TRUE, last |-> FALSE, fault |-> TRUE]
      [] OTHER -> NoResp

up_resp(dn_resp) ==
    CASE state = "FINAL_REQ" /\ dn_done(dn_resp) -> dn_resp
      [] state = "FAULT" -> [ready |-> TRUE, last |-> TRUE, fault |-> TRUE]
      [] OTHER -> NoResp

-----------------------------------------------------------------------------
(* One clock cycle: one action per arm of the state machine.               *)

MMUInit == /\ state = "IDLE"
           /\ req_q = NoRequest
           /\ pte_addr_q = [table |-> 0, idx |-> 0]
           /\ phys_addr_q = [ppn |-> 0, off |-> 0]
           /\ priv_mode_q = PRV_M
           /\ satp_q = [sv39 |-> FALSE, ppn |-> 0]
           /\ resp_armed_q = FALSE

MMUWait == /\ state = "IDLE"
           /\ resp_armed_q' = FALSE
           /\ UNCHANGED <<state, req_q, pte_addr_q, phys_addr_q, priv_mode_q,
                          satp_q>>

\* A request is taken with the privilege and satp of this very cycle.
Accept(up_req, priv_mode, satp) ==
    /\ state = "IDLE"
    /\ req_q' = up_req
    /\ priv_mode_q' = priv_mode
    /\ satp_q' = satp
    /\ state' = "CHECK"
    /\ resp_armed_q' = FALSE
    /\ UNCHANGED <<pte_addr_q, phys_addr_q>>

Check == /\ state = "CHECK"
         /\ resp_armed_q' = FALSE
         /\ IF translate_en_q
            THEN /\ pte_addr_q' = [table |-> satp_q.ppn, idx |-> req_q.addr.vpn2]
                 /\ state' = "PTW_L2"
                 /\ UNCHANGED phys_addr_q
            ELSE /\ phys_addr_q' = req_q.addr
                 /\ state' = "FINAL_REQ"
                 /\ UNCHANGED pte_addr_q
         /\ UNCHANGED <<req_q, priv_mode_q, satp_q>>

\* One of the two upper levels: a PTE that is not a pointer is a fault, so a
\* superpage is one.
WalkUp(here, next, vpn, pte) ==
    /\ state = here
    /\ resp_armed_q' = FALSE
    /\ IF pte_is_nonleaf(pte)
       THEN /\ pte_addr_q' = [table |-> pte.ppn, idx |-> vpn]
            /\ state' = next
       ELSE /\ state' = "FAULT"
            /\ UNCHANGED pte_addr_q
    /\ UNCHANGED <<req_q, phys_addr_q, priv_mode_q, satp_q>>

WalkL2(pte) == WalkUp("PTW_L2", "PTW_L1", req_q.addr.vpn1, pte)
\* Mutant of WalkL1: the last level is indexed with the field of the level above.
WalkL1SameIndex(pte) == WalkUp("PTW_L1", "PTW_L0", req_q.addr.vpn1, pte)

WalkL1(pte) == WalkUp("PTW_L1", "PTW_L0", req_q.addr.vpn0, pte)

WalkL0(pte) ==
    /\ state = "PTW_L0"
    /\ resp_armed_q' = FALSE
    /\ IF pte_is_leaf(pte) /\ pte_allow(pte, req_q.kind, priv_mode_q)
       THEN /\ phys_addr_q' = [ppn |-> pte.ppn, off |-> req_q.addr.off]
            /\ state' = "FINAL_REQ"
       ELSE /\ state' = "FAULT"
            /\ UNCHANGED phys_addr_q
    /\ UNCHANGED <<req_q, pte_addr_q, priv_mode_q, satp_q>>

\* Mutant of AwaitMemory: the wait does not arm the acceptance of the answer.
AwaitUnarmed(dn_resp) == /\ state \in Walking \union {"FINAL_REQ"}
                         /\ ~dn_done(dn_resp)
                         /\ resp_armed_q' = FALSE
                         /\ UNCHANGED <<state, req_q, pte_addr_q, phys_addr_q,
                                        priv_mode_q, satp_q>>

\* Waiting for memory: the cycle arms the acceptance of a response.
AwaitMemory(dn_resp) ==
    /\ state \in Walking \union {"FINAL_REQ"}
    /\ ~dn_done(dn_resp)
    /\ resp_armed_q' = TRUE
    /\ UNCHANGED <<state, req_q, pte_addr_q, phys_addr_q, priv_mode_q, satp_q>>

\* Mutant of Finish: the request is kept.
FinishKeeping == /\ state' = "IDLE"
                 /\ resp_armed_q' = FALSE
                 /\ UNCHANGED <<req_q, pte_addr_q, phys_addr_q, priv_mode_q, satp_q>>

\* The access is answered, or the fault reported: the request is forgotten.
Finish ==
    /\ req_q' = NoRequest
    /\ state' = "IDLE"
    /\ resp_armed_q' = FALSE
    /\ UNCHANGED <<pte_addr_q, phys_addr_q, priv_mode_q, satp_q>>

Answer(dn_resp) == state = "FINAL_REQ" /\ dn_done(dn_resp) /\ Finish
Fault           == state = "FAULT" /\ Finish

\* dn_data is the PTE on the data lines when a level of the walk is answered.
MMUCycle(up_req, priv_mode, satp, dn_resp, dn_data) ==
    \/ up_req = NoRequest /\ MMUWait
    \/ up_req # NoRequest /\ Accept(up_req, priv_mode, satp)
    \/ Check
    \/ dn_done(dn_resp) /\ (WalkL2(dn_data) \/ WalkL1(dn_data) \/ WalkL0(dn_data))
    \/ AwaitMemory(dn_resp)
    \/ Answer(dn_resp)
    \/ Fault

MMUTypeOK == /\ state \in State
             /\ req_q \in Request \union {NoRequest}
             /\ (req_q = NoRequest) <=> (state = "IDLE")
             /\ pte_addr_q \in PteAddr
             /\ phys_addr_q \in PAddr \union VAddr
             /\ priv_mode_q \in Priv
             /\ satp_q \in Satp
             /\ resp_armed_q \in BOOLEAN
             /\ resp_armed_q => state \in Walking \union {"FINAL_REQ"}
=============================================================================
