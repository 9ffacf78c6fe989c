------------------------------ MODULE MMUWalk ------------------------------
(***************************************************************************)
(* The MMU closed with an arbiter that may present any request in any      *)
(* cycle, privilege and satp that change freely while a walk runs, and a   *)
(* memory that answers in its own time and holds the page tables pt.       *)
(* Translate is the reference: Sv39 as the MMU's header describes it, read *)
(* off the whole page table at once.                                       *)
(***************************************************************************)
EXTENDS MMU

CONSTANTS PageTables,   \* the page tables to consider
          Satps         \* and the values of satp
ASSUME PageTablesAssumption == PageTables \subseteq [PteAddr -> Pte] /\ Satps \subseteq Satp

VARIABLES pt,           \* the page table in memory, by PTE address
          asked         \* the request being served, as it was accepted

vars == <<mmuVars, pt, asked>>

PageFault == [fault |-> TRUE]

\* A valid entry that gives what the access needs, to the user only if it is his.
Maps(pte, kind, priv) == /\ pte.v
                         /\ kind = "fetch" => pte.x
                         /\ kind = "load"  => pte.r
                         /\ kind = "store" => pte.w
                         /\ priv = PRV_U   => pte.u

Translate(req, priv, satp) ==
    LET e2 == pt[[table |-> satp.ppn, idx |-> req.addr.vpn2]]
        e1 == pt[[table |-> e2.ppn,   idx |-> req.addr.vpn1]]
        e0 == pt[[table |-> e1.ppn,   idx |-> req.addr.vpn0]]
    IN  IF priv = PRV_M \/ ~satp.sv39 THEN req.addr
        ELSE IF pte_is_nonleaf(e2) /\ pte_is_nonleaf(e1) /\ Maps(e0, req.kind, priv)
             THEN [ppn |-> e0.ppn, off |-> req.addr.off]
             ELSE PageFault

-----------------------------------------------------------------------------
Init == /\ MMUInit
        /\ pt \in PageTables
        /\ asked = NoRequest

\* In IDLE the cycle reads the arbiter, the privilege and satp; afterwards only
\* the response, a PTE read being answered from pt.
Take == \E up_req \in Request \union {NoRequest}, priv \in Priv, satp \in Satps :
            /\ state = "IDLE"
            /\ MMUCycle(up_req, priv, satp, NoResp, pt[pte_addr_q])
            /\ asked' = IF up_req = NoRequest THEN asked
                       ELSE [req |-> up_req, priv |-> priv, satp |-> satp]
            /\ UNCHANGED pt

Run(dn_resp) == /\ state # "IDLE"
                /\ MMUCycle(req_q, priv_mode_q, satp_q, dn_resp, pt[pte_addr_q])
                /\ UNCHANGED <<pt, asked>>

Quiet   == Run(NoResp)
Answers == \E fault \in BOOLEAN :
               Run([ready |-> TRUE, last |-> TRUE, fault |-> fault])

Next == Take \/ Quiet \/ Answers

\* The clock never stops and memory answers what it is asked.
Safety == Init /\ [][Next]_vars
Spec   == Safety /\ WF_vars(Answers)
-----------------------------------------------------------------------------
TypeOK == /\ MMUTypeOK
          /\ pt \in PageTables
          /\ asked \in [req : Request, priv : Priv, satp : Satps] \union {NoRequest}

(* The access the MMU issues is the one the reference translation of the   *)
(* accepted request gives, under the privilege and satp of the cycle it    *)
(* was accepted in, whatever those registers do during the walk; and a     *)
(* request whose translation faults never reaches memory as an access.     *)
IssuesTranslation ==
    state = "FINAL_REQ" =>
        dn_req = [asked.req EXCEPT !.addr =
                     Translate(asked.req, asked.priv, asked.satp)]

(* Conversely a fault is reported only for a request the reference faults. *)
FaultsAreReal ==
    state = "FAULT" => Translate(asked.req, asked.priv, asked.satp) = PageFault

\* What makes the two inductive: how far the walk has come.
E2 == pt[[table |-> satp_q.ppn, idx |-> req_q.addr.vpn2]]
E1 == pt[[table |-> E2.ppn,     idx |-> req_q.addr.vpn1]]

WalkInv ==
    /\ state # "IDLE" => asked = [req |-> req_q, priv |-> priv_mode_q, satp |-> satp_q]
    /\ state \in Walking => translate_en_q
    /\ state = "PTW_L2" => pte_addr_q = [table |-> satp_q.ppn, idx |-> req_q.addr.vpn2]
    /\ state = "PTW_L1" => /\ pte_is_nonleaf(E2)
                           /\ pte_addr_q = [table |-> E2.ppn, idx |-> req_q.addr.vpn1]
    /\ state = "PTW_L0" => /\ pte_is_nonleaf(E2) /\ pte_is_nonleaf(E1)
                           /\ pte_addr_q = [table |-> E1.ppn, idx |-> req_q.addr.vpn0]

IInv == TypeOK /\ WalkInv /\ IssuesTranslation /\ FaultsAreReal

(* Every accepted request is answered (FINAL_REQ/FAULT back to IDLE).      *)
EveryRequestAnswered == state # "IDLE" ~> state = "IDLE"
=============================================================================
