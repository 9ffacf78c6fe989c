----------------------------- MODULE MMUProofs -----------------------------
(***************************************************************************)
(* For every page table, request, privilege and satp: what the walker      *)
(* issues to memory, and what it faults, is what the reference translation *)
(* of the accepted request says.                                           *)
(***************************************************************************)
EXTENDS MMUWalk, TLAPS

USE DEF Walking

LEMMA InitIInv == Init => IInv
<1> SUFFICES ASSUME Init
             PROVE  IInv
  OBVIOUS
<1> USE MMUAssumption DEF Init, MMUInit
<1>1. TypeOK
  <2>1. /\ pte_addr_q \in PteAddr
        /\ phys_addr_q \in PAddr
        /\ satp_q \in Satp
    BY DEF PteAddr, PAddr, Satp
  <2> QED
    BY <2>1 DEF TypeOK, MMUTypeOK, State, Priv
<1>2. WalkInv /\ IssuesTranslation /\ FaultsAreReal
  BY DEF WalkInv, IssuesTranslation, FaultsAreReal, Walking
<1> QED
  BY <1>1, <1>2 DEF IInv

LEMMA Types ==
    ASSUME TypeOK, [Next]_vars
    PROVE  TypeOK'
<1> USE DEF TypeOK, MMUTypeOK, State
<1>1. \A a \in PteAddr : pt[a] \in Pte
  BY PageTablesAssumption
<1>2. /\ \A p \in Page, i \in Index : [table |-> p, idx |-> i] \in PteAddr
      /\ \A p \in Page, o \in Offset : [ppn |-> p, off |-> o] \in PAddr
      /\ \A e \in Pte : e.ppn \in Page
      /\ \A r \in Request : /\ r.addr \in VAddr /\ r.addr.off \in Offset
                            /\ r.addr.vpn2 \in Index /\ r.addr.vpn1 \in Index
                            /\ r.addr.vpn0 \in Index
      /\ \A s \in Satp : s.ppn \in Page
  BY DEF PteAddr, PAddr, Pte, Request, VAddr, Satp
<1>3. CASE Take
  <2>1. state = "IDLE" /\ req_q = NoRequest
    BY <1>3 DEF Take
  <2>2. PICK up_req \in Request \union {NoRequest}, priv \in Priv, satp \in Satps :
            /\ MMUCycle(up_req, priv, satp, NoResp, pt[pte_addr_q])
            /\ asked' = IF up_req = NoRequest THEN asked
                        ELSE [req |-> up_req, priv |-> priv, satp |-> satp]
            /\ UNCHANGED pt
    BY <1>3 DEF Take
  <2>3. \/ up_req = NoRequest /\ MMUWait
        \/ up_req # NoRequest /\ Accept(up_req, priv, satp)
    BY <2>1, <2>2 DEF MMUCycle, Check, WalkL2, WalkL1, WalkL0, WalkUp,
                      AwaitMemory, Answer, Fault
  <2> QED
    BY <2>1, <2>2, <2>3, MMUAssumption, PageTablesAssumption DEF MMUWait, Accept
<1>4. ASSUME NEW dn_resp, Run(dn_resp)
      PROVE  TypeOK'
  <2>1. state # "IDLE" /\ req_q \in Request /\ UNCHANGED <<pt, asked>>
    BY <1>4 DEF Run
  <2>2. CASE Check
    BY <2>1, <2>2, <1>2 DEF Check
  <2>3. CASE WalkL2(pt[pte_addr_q])
    BY <2>1, <2>3, <1>1, <1>2 DEF WalkL2, WalkUp
  <2>4. CASE WalkL1(pt[pte_addr_q])
    BY <2>1, <2>4, <1>1, <1>2 DEF WalkL1, WalkUp
  <2>5. CASE WalkL0(pt[pte_addr_q])
    BY <2>1, <2>5, <1>1, <1>2 DEF WalkL0
  <2>6. CASE AwaitMemory(dn_resp)
    BY <2>1, <2>6 DEF AwaitMemory
  <2>7. CASE Answer(dn_resp) \/ Fault
    BY <2>1, <2>7 DEF Answer, Fault, Finish
  <2> QED
    BY <1>4, <2>1, <2>2, <2>3, <2>4, <2>5, <2>6, <2>7
    DEF Run, MMUCycle, MMUWait, Accept
<1>5. CASE UNCHANGED vars
  BY <1>5 DEF vars, mmuVars
<1> QED
  BY <1>3, <1>4, <1>5 DEF Next, Quiet, Answers

\* The two ways to read the last entry of a walk agree.
LEMMA ReadingLeaf ==
    ASSUME NEW pte \in Pte, NEW kind \in Kind, NEW priv
    PROVE  pte_is_leaf(pte) /\ pte_allow(pte, kind, priv) <=> Maps(pte, kind, priv)
BY DEF Pte, Kind, pte_is_leaf, pte_allow, Maps

LEMMA Step ==
    ASSUME IInv, TypeOK', [Next]_vars
    PROVE  IInv'
<1> USE DEF IInv
<1> DEFINE Good == WalkInv /\ IssuesTranslation /\ FaultsAreReal
<1>1. CASE Take
  <2>1. /\ state = "IDLE"
        /\ \/ UNCHANGED mmuVars \/ state' = "IDLE"
           \/ /\ state' = "CHECK"
              /\ asked' = [req |-> req_q', priv |-> priv_mode_q', satp |-> satp_q']
    BY <1>1 DEF Take, MMUCycle, MMUWait, Accept, Check, WalkL2, WalkL1, WalkL0,
                WalkUp, AwaitMemory, Answer, Fault
  <2> QED
    BY <2>1 DEF mmuVars, WalkInv, IssuesTranslation, FaultsAreReal
<1>2. ASSUME NEW dn_resp, Run(dn_resp)
      PROVE  Good'
  <2>1. state # "IDLE" /\ UNCHANGED <<pt, asked>>
    BY <1>2 DEF Run
  <2>2. asked = [req |-> req_q, priv |-> priv_mode_q, satp |-> satp_q]
    BY <2>1 DEF WalkInv
  <2>3. Translate(asked.req, asked.priv, asked.satp)' =
        Translate(asked.req, asked.priv, asked.satp)
    BY <2>1 DEF Translate
  <2>4. CASE Check
    <3>1. CASE translate_en_q
      BY <2>1, <2>2, <2>4, <3>1
      DEF Check, translate_en_q, WalkInv, IssuesTranslation, FaultsAreReal
    <3>2. CASE ~translate_en_q
      <4>1. Translate(asked.req, asked.priv, asked.satp) = req_q.addr
        BY <2>2, <3>2 DEF translate_en_q, Translate
      <4> QED
        BY <2>1, <2>2, <2>3, <2>4, <3>2, <4>1
        DEF Check, WalkInv, IssuesTranslation, FaultsAreReal, dn_req
    <3> QED
      BY <3>1, <3>2
  <2>5. CASE WalkL2(pt[pte_addr_q])
    <3>1. state = "PTW_L2" /\ pt[pte_addr_q] = E2
      BY <2>5 DEF WalkL2, WalkUp, WalkInv, E2
    <3>2. CASE pte_is_nonleaf(E2)
      BY <2>1, <2>2, <2>5, <3>1, <3>2
      DEF WalkL2, WalkUp, WalkInv, IssuesTranslation, FaultsAreReal, E2, E1,
          translate_en_q
    <3>3. CASE ~pte_is_nonleaf(E2)
      <4>1. Translate(asked.req, asked.priv, asked.satp) = PageFault
        BY <2>2, <3>1, <3>3 DEF Translate, E2, WalkInv, translate_en_q
      <4> QED
        BY <2>1, <2>2, <2>3, <2>5, <3>1, <3>3, <4>1
        DEF WalkL2, WalkUp, WalkInv, IssuesTranslation, FaultsAreReal
    <3> QED
      BY <3>2, <3>3
  <2>6. CASE WalkL1(pt[pte_addr_q])
    <3>1. state = "PTW_L1" /\ pt[pte_addr_q] = E1
      BY <2>6 DEF WalkL1, WalkUp, WalkInv, E1
    <3>2. CASE pte_is_nonleaf(E1)
      BY <2>1, <2>2, <2>6, <3>1, <3>2
      DEF WalkL1, WalkUp, WalkInv, IssuesTranslation, FaultsAreReal, E2, E1,
          translate_en_q
    <3>3. CASE ~pte_is_nonleaf(E1)
      <4>1. Translate(asked.req, asked.priv, asked.satp) = PageFault
        BY <2>2, <3>1, <3>3 DEF Translate, E2, E1, WalkInv, translate_en_q
      <4> QED
        BY <2>1, <2>2, <2>3, <2>6, <3>1, <3>3, <4>1
        DEF WalkL1, WalkUp, WalkInv, IssuesTranslation, FaultsAreReal
    <3> QED
      BY <3>2, <3>3
  <2>7. CASE WalkL0(pt[pte_addr_q])
    <3> DEFINE e0 == pt[pte_addr_q]
               ok == pte_is_leaf(e0) /\ pte_allow(e0, req_q.kind, priv_mode_q)
    <3>1. state = "PTW_L0" /\ pte_addr_q = [table |-> E1.ppn, idx |-> req_q.addr.vpn0]
      BY <2>7 DEF WalkL0, WalkInv
    <3>5. e0 \in Pte /\ req_q.kind \in Kind
      BY <2>1, PageTablesAssumption DEF TypeOK, MMUTypeOK, Request
    <3>2. Translate(asked.req, asked.priv, asked.satp) =
          IF ok THEN [ppn |-> e0.ppn, off |-> req_q.addr.off] ELSE PageFault
      BY <2>2, <3>1, <3>5, ReadingLeaf DEF Translate, E1, E2, WalkInv, translate_en_q
    <3>3. CASE ok
      BY <2>1, <2>2, <2>3, <2>7, <3>1, <3>2, <3>3
      DEF WalkL0, WalkInv, IssuesTranslation, FaultsAreReal, dn_req
    <3>4. CASE ~ok
      BY <2>1, <2>2, <2>3, <2>7, <3>1, <3>2, <3>4
      DEF WalkL0, WalkInv, IssuesTranslation, FaultsAreReal
    <3> QED
      BY <3>3, <3>4
  <2>8. CASE AwaitMemory(dn_resp)
    BY <2>1, <2>3, <2>8
    DEF AwaitMemory, WalkInv, IssuesTranslation, FaultsAreReal, dn_req, E1, E2,
        translate_en_q
  <2>9. CASE Answer(dn_resp) \/ Fault
    BY <2>9 DEF Answer, Fault, Finish, WalkInv, IssuesTranslation, FaultsAreReal
  <2> QED
    BY <1>2, <2>1, <2>4, <2>5, <2>6, <2>7, <2>8, <2>9
    DEF Run, MMUCycle, MMUWait, Accept
<1>3. CASE UNCHANGED vars
  BY <1>3 DEF vars, mmuVars, WalkInv, IssuesTranslation, FaultsAreReal, dn_req,
              E1, E2, translate_en_q, Translate
<1> QED
  BY <1>1, <1>2, <1>3 DEF Next, Quiet, Answers

\* Registers keep their types, for every set of pages, indices and offsets.
THEOREM MMUTypeCorrect == Safety => []TypeOK
<1>1. Init => TypeOK
  BY InitIInv DEF IInv
<1>2. TypeOK /\ [Next]_vars => TypeOK'
  BY Types
<1> QED
  BY <1>1, <1>2, PTL DEF Safety

\* The invariant the two theorems below rest on.
LEMMA WalkInvariant == Safety => []IInv
<1>1. IInv /\ [Next]_vars => IInv'
  <2>1. IInv => TypeOK
    BY DEF IInv
  <2> QED
    BY <2>1, Types, Step
<1> QED
  BY InitIInv, <1>1, PTL DEF Safety

\* The walker computes the reference translation: what it issues is what Translate gives
\* (the request made in state FINAL_REQ).
THEOREM MMUTranslates == Safety => []IssuesTranslation
<1>1. IInv => IssuesTranslation
  BY DEF IInv
<1> QED
  BY WalkInvariant, <1>1, PTL

\* What the walker faults Translate faults (the fault outcomes of the three levels).
THEOREM MMUFaultsAreReal == Safety => []FaultsAreReal
<1>1. IInv => FaultsAreReal
  BY DEF IInv
<1> QED
  BY WalkInvariant, <1>1, PTL
=============================================================================
