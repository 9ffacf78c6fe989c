--------------------------- MODULE MemPathProofs ---------------------------
(***************************************************************************)
(* For every program, page table, satp and timing of memory: arbiter and   *)
(* MMU serve the same request, the port that made it still asks with it,   *)
(* fetch offers what the core expects, and an access is made exactly once. *)
(* On the board, for every delay of its RAM and ratio of its clocks: a     *)
(* read is answered with what was asked for, a store to the UART with one  *)
(* frame on the line.                                                      *)
(***************************************************************************)
EXTENDS MemPathEnv, Board, NatLemmas, SequenceTheorems, TLAPS

USE DEF DPORT, IPORT

\* The arbiter's search ends at one of its two ports.
LEMMA SelectsPort ==
    ASSUME TypeOK, NEW reqs
    PROVE  Arb!Select(reqs) \in {DPORT, IPORT}
<1> DEFINE Asking == {i \in {0, 1} : Arb!Valid(reqs[i])}
<1>1. Arb!Inputs = {0, 1}
  BY DEF Arb!Inputs
<1>2. CASE Asking = {}
  BY <1>1, <1>2 DEF Arb!Select, TypeOK
<1>3. CASE Asking # {}
  <2>1. \E i \in Asking : \A k \in Asking : Arb!Dist(grant_ptr, i) <= Arb!Dist(grant_ptr, k)
    BY <1>3 DEF Arb!Dist, TypeOK
  <2> QED
    BY <1>1, <1>3, <2>1 DEF Arb!Select
<1> QED
  BY <1>2, <1>3

\* What the MMU answers: nothing until the access or the fault that ends it.
LEMMA UpResponse ==
    ASSUME NEW dn_resp \in {NoResp, OK}
    PROVE  /\ Okay(up_resp(dn_resp)) <=> \/ state = "FINAL_REQ" /\ dn_done(dn_resp)
                                         \/ state = "FAULT"
           /\ ~Okay(up_resp(dn_resp)) => up_resp(dn_resp) = NoResp
           /\ up_resp(dn_resp).fault <=> state = "FAULT"
BY DEF up_resp, Okay, NoResp, OK, dn_done

\* A port sees the answer when it is the one granted, and nothing otherwise.
LEMMA PortResponse ==
    ASSUME TypeOK, NEW dn_resp \in {NoResp, OK}, NEW dn_data
    PROVE  /\ iresp(dn_resp, dn_data).data_ok <=> busy /\ index = IPORT /\ Okay(up_resp(dn_resp))
           /\ dresp(dn_resp, dn_data).data_ok <=> busy /\ index = DPORT /\ Okay(up_resp(dn_resp))
           /\ iresp(dn_resp, dn_data).fault <=> busy /\ index = IPORT /\ state = "FAULT"
           /\ dresp(dn_resp, dn_data).fault <=> busy /\ index = DPORT /\ state = "FAULT"
           /\ iresp(dn_resp, dn_data).data = dn_data
<1>1. Arb!Inputs = {0, 1}
  BY DEF Arb!Inputs
<1> DEFINE resp == up_resp(dn_resp)
<1>2. /\ Arb!iresps(resp)[IPORT] = IF busy /\ index = IPORT THEN resp ELSE NoResp
      /\ Arb!iresps(resp)[DPORT] = IF busy /\ index = DPORT THEN resp ELSE NoResp
  BY <1>1 DEF Arb!iresps, Arb!NoResp, NoResp
<1>3. ~Okay(NoResp) /\ ~NoResp.fault
  BY DEF Okay, NoResp
<1> QED
  BY <1>2, <1>3, UpResponse DEF iresp, dresp, BusResp

\* What any core may drive towards fetch.
Driven(ctl) ==
    /\ ctl.redirect_pc \in Int /\ ctl.current_priv \in Priv
    /\ ctl.redirect_valid \in BOOLEAN /\ ctl.flush \in BOOLEAN
    /\ ctl.fetch_accept => fetch.data_valid_q /\ ~ctl.redirect_valid /\ ~ctl.flush

\* The core is in one of the two privileges.
LEMMA PrivsArePriv == \A kind : Privs(kind) \subseteq Priv
BY DEF Privs, Priv

\* The core of MemPathEnv is one.
LEMMA ControlTypes ==
    ASSUME NEW waits, NEW ctl \in Controls(waits)
    PROVE  Driven(ctl)
<1>1. PICK kind \in {"redirect", "flush", "none", "accept"}, pc \in PCs \union {PCINIT},
           priv \in Priv :
              /\ ctl = Control(kind, pc, priv)
              /\ kind = "accept" => fetch_valid
  <2>2. CASE ctl \in {Control("redirect", pc, priv) : pc \in PCs, priv \in Privs("redirect")}
    BY PrivsArePriv, <2>2
  <2>3. CASE ctl \in {Control("flush", PCINIT, priv) : priv \in Privs("flush")}
    BY PrivsArePriv, <2>3
  <2>4. CASE ctl \in {Control("none", PCINIT, priv) : priv \in Privs("none")}
    BY PrivsArePriv, <2>4
  <2>5. CASE ctl \in {Control("accept", PCINIT, priv) : priv \in
                         IF fetch_valid /\ ~waits /\ fetch_pc + 4 <= MAX_PC
                         THEN Privs("accept") ELSE {}}
    BY PrivsArePriv, <2>5
  <2> QED
    BY <2>2, <2>3, <2>4, <2>5 DEF Controls
<1> QED
  BY <1>1, PathClientsAssumption DEF Driven, Control, fetch_valid

\* After reset nothing is asked and nothing held.
LEMMA InitPath == ClientsInit => PathInv
<1> USE PathClientsAssumption
    DEF ClientsInit, PathInit, FetchInit, MemInit, Arb!ArbInit, MMUInit, TypeOK, Priv
<1> SUFFICES ASSUME ClientsInit PROVE PathInv
  OBVIOUS
<1>1. TypeOK
  OBVIOUS
<1>2. Lockstep /\ StillAsked /\ OneSlot /\ Served
  BY DEF Lockstep, StillAsked, OneSlot, Served
<1> QED
  BY <1>1, <1>2 DEF PathInv

\* Nor is anything expected or counted.
LEMMA InitIInv == Init => IInv
<1> SUFFICES ASSUME Init PROVE IInv
  OBVIOUS
<1>1. PathInv
  BY InitPath DEF Init
<1>2. FreshFetch /\ ExactlyOnce /\ Follows /\ performed = 0
  BY DEF Init, ClientsInit, PathInit, FetchInit, Arb!ArbInit, FreshFetch, fetch_valid, ExactlyOnce,
         Follows
<1> QED
  BY <1>1, <1>2 DEF IInv

-----------------------------------------------------------------------------
(* One clock cycle.  The lemmas below share these assumptions.             *)

\* The arbiter and the MMU take a request together and let go of it together.
LEMMA BusCycle ==
    ASSUME PathInv, NEW dn_resp \in {NoResp, OK}, NEW dn_data, NEW satp, NEW ctl,
           PathStep(ctl, satp, dn_resp, dn_data)
    PROVE  /\ Lockstep' /\ (busy => Arb!Valid(saved_req))'
           /\ index' \in {DPORT, IPORT} /\ grant_ptr' \in {DPORT, IPORT}
           /\ ~busy /\ busy' => /\ index' = Arb!Select(creqs(ex_mem))
                                /\ saved_req' = creqs(ex_mem)[index']
                                /\ saved_priv' = cprivs(ctl.current_priv)[index']
           /\ busy /\ busy' => /\ ~Okay(up_resp(dn_resp))
                               /\ UNCHANGED <<index, saved_req, saved_priv>>
           /\ ~busy /\ ~busy' => ~Arb!Valid(creqs(ex_mem)[Arb!Select(creqs(ex_mem))])
           /\ busy /\ ~busy' => Okay(up_resp(dn_resp))
<1> DEFINE resp == up_resp(dn_resp)
           s    == Arb!Select(creqs(ex_mem))
           req  == Arb!oreq(creqs(ex_mem))
           priv == Arb!opriv(creqs(ex_mem), cprivs(ctl.current_priv))
<1> USE DEF PathInv
<1>1. /\ Arb!ArbCycle(creqs(ex_mem), cprivs(ctl.current_priv), resp)
      /\ MMUCycle(req, priv, satp, dn_resp, dn_data)
  BY DEF PathStep, PathCycle
<1>2. s \in {DPORT, IPORT}
  BY SelectsPort
<1>3. Arb!Okay(resp) <=> Okay(resp)
  BY DEF Arb!Okay, Okay
<1>4. Okay(resp) <=> (state = "FINAL_REQ" /\ dn_done(dn_resp)) \/ state = "FAULT"
  BY UpResponse
<1> USE DEF Lockstep, Arb!Valid
<1>5. CASE ~busy
  <2>1. state = "IDLE" /\ req = creqs(ex_mem)[s] /\ priv = cprivs(ctl.current_priv)[s]
    BY <1>5 DEF Arb!oreq, Arb!opriv
  <2>2. \/ req = NoRequest /\ MMUWait
        \/ req # NoRequest /\ Accept(req, priv, satp)
    BY <1>1, <2>1 DEF MMUCycle, Check, WalkL2, WalkL1, WalkL0, WalkUp, AwaitMemory,
                      Walking, Answer, Fault
  <2>3. \/ Arb!Grant(creqs(ex_mem), cprivs(ctl.current_priv))
        \/ Arb!Idle(creqs(ex_mem), cprivs(ctl.current_priv))
    BY <1>1, <1>5 DEF Arb!ArbCycle, Arb!Hold, Arb!Release
  <2> QED
    BY <1>2, <1>5, <2>1, <2>2, <2>3 DEF Arb!Grant, Arb!Idle, MMUWait, Accept, TypeOK
<1>6. CASE busy /\ ~Okay(resp)
  <2>1. UNCHANGED <<busy, index, grant_ptr, saved_req, saved_priv>>
    BY <1>1, <1>3, <1>6 DEF Arb!ArbCycle, Arb!Grant, Arb!Idle, Arb!Hold, Arb!Release, Arb!arbVars
  <2>2. UNCHANGED <<req_q, priv_mode_q>> /\ state' # "IDLE"
    BY <1>1, <1>4, <1>6 DEF MMUCycle, MMUWait, Accept, Check, WalkL2, WalkL1, WalkL0,
                            WalkUp, AwaitMemory, Walking, Answer, Fault
  <2> QED
    BY <1>6, <2>1, <2>2 DEF TypeOK, Served
<1>7. CASE busy /\ Okay(resp)
  <2>1. ~busy' /\ index' = index /\ grant_ptr' = Arb!NextPtr(index)
    BY <1>1, <1>3, <1>7 DEF Arb!ArbCycle, Arb!Grant, Arb!Idle, Arb!Hold, Arb!Release
  <2>2. state' = "IDLE"
    BY <1>1, <1>4, <1>7 DEF MMUCycle, MMUWait, Accept, Check, WalkL2, WalkL1, WalkL0,
                            WalkUp, AwaitMemory, Walking, Answer, Fault, Finish
  <2> QED
    BY <1>7, <2>1, <2>2 DEF TypeOK, Arb!NextPtr, Arb!MAX_INDEX
<1> QED
  BY <1>5, <1>6, <1>7

\* Fetch keeps to its slot; with the ghosts of MemPathEnv, to the core's program counter,
\* and drops what it should not offer.
LEMMA FetchCycleKeeps ==
    ASSUME PathInv, NEW dn_resp \in {NoResp, OK}, NEW dn_data \in Ptes \union {NoInstr},
           NEW satp, NEW ctl, Driven(ctl), PathStep(ctl, satp, dn_resp, dn_data)
    PROVE  /\ TypeOK' /\ OneSlot'
           /\ Clock(ctl, satp, dn_resp, dn_data) /\ FreshFetch /\ Follows
                => FreshFetch' /\ Follows'
<1> DEFINE ir     == iresp(dn_resp, dn_data)
           f      == Latch(fetch, ir)
           fire   == response_fire(ir)
           kicked == ctl.redirect_valid \/ ctl.flush
           ghostly == Clock(ctl, satp, dn_resp, dn_data) /\ FreshFetch /\ Follows
<1> USE DEF PathInv
<1>0. /\ ctl.redirect_pc \in Int /\ ctl.current_priv \in Priv
      /\ ctl.fetch_accept => fetch.data_valid_q /\ ~kicked
  BY DEF Driven
<1>1. /\ fire <=> fetch.req_pending_q /\ ir.data_ok /\ ~fetch.data_ok_prev_q
      /\ ir.data_ok => busy /\ index = IPORT /\ ~busy'
      /\ ir.data = dn_data /\ ir.data_ok \in BOOLEAN
  <2>1. ir.data_ok => busy /\ index = IPORT /\ Okay(up_resp(dn_resp))
    BY PortResponse
  <2> QED
    BY <2>1, PortResponse, BusCycle DEF response_fire, iresp, BusResp, Okay
<1>2. FetchCycle(ctl, ir)
  BY DEF PathStep, PathCycle
<1>10. ghostly =>
      /\ FreshFetch /\ Follows
      /\ target' = IF kicked THEN ctl.redirect_pc
                   ELSE IF ctl.fetch_accept THEN fetch_pc + 4 ELSE target
      /\ stale' = (kicked \/ (~Grants /\ stale))
      /\ held_stale' = IF fire THEN stale ELSE held_stale
  BY DEF Clock
<1>3. index' \in {DPORT, IPORT} /\ grant_ptr' \in {DPORT, IPORT}
  BY BusCycle
\* A request of fetch in service at the end of the cycle is a pending one.
<1>4. busy' /\ index' = IPORT => /\ fetch.req_pending_q /\ ~fire
                                 /\ busy \/ Grants
                                 /\ busy => index = IPORT
  <2>1. CASE ~busy /\ busy' /\ index' = IPORT
    <3>1. Arb!Select(creqs(ex_mem)) = IPORT /\ saved_req' = icreq /\ Arb!Valid(saved_req)'
      BY <2>1, BusCycle DEF creqs
    <3>2. Arb!Valid(icreq)
      BY <3>1 DEF Arb!Valid
    <3>3. ~fire
      BY <1>1, <2>1
    <3> QED
      BY <2>1, <3>1, <3>2, <3>3 DEF Grants, icreq, Arb!Valid
  <2>2. CASE busy /\ busy' /\ index' = IPORT
    <3>1. index = IPORT
      BY <2>2, BusCycle
    <3>2. icreq = saved_req /\ Arb!Valid(saved_req)
      BY <2>2, <3>1 DEF StillAsked, creqs, Served
    <3>3. ~fire
      BY <1>1, <2>2
    <3> QED
      BY <2>2, <3>1, <3>2, <3>3 DEF icreq, Arb!Valid
  <2> QED
    BY <2>1, <2>2
<1>5. f \in [pc_q : Int, req_pc_q : Int, data_pc_q : Int, req_priv_q : Priv,
             req_pending_q : BOOLEAN, data_valid_q : BOOLEAN,
             drop_resp_q : BOOLEAN, data_ok_prev_q : BOOLEAN,
             instr_q : Ptes \union {NoInstr}, fault_q : BOOLEAN]
      /\ f.pc_q = fetch.pc_q /\ f.req_pc_q = fetch.req_pc_q /\ f.data_pc_q = fetch.data_pc_q
      /\ f.req_pending_q = fetch.req_pending_q /\ f.data_valid_q = fetch.data_valid_q
      /\ f.drop_resp_q = fetch.drop_resp_q
  BY <1>1 DEF TypeOK, Latch
<1> SUFFICES TypeOK' /\ OneSlot' /\ (ghostly => FreshFetch' /\ Follows')
  OBVIOUS
<1> HIDE DEF f, ir, fire, ghostly
<1>6. CASE kicked
  <2>1. fetch' = [f EXCEPT !.pc_q = ctl.redirect_pc,
                           !.data_valid_q = FALSE,
                           !.req_pending_q = @ /\ ~fire,
                           !.drop_resp_q = IF fire THEN FALSE ELSE @ \/ fetch.req_pending_q]
    BY <1>2, <1>6 DEF FetchCycle, FetchRedirect, FetchAdvance, f, fire
  <2> QED
    BY <1>0, <1>1, <1>2, <1>3, <1>4, <1>5, <1>6, <1>10, <2>1
    DEF TypeOK, OneSlot, FreshFetch, Follows, fetch_valid
<1>7. CASE ~kicked /\ fire
  <2>1. fetch.req_pending_q /\ ~fetch.data_valid_q /\ ~ctl.fetch_accept
        /\ busy /\ index = IPORT /\ ~busy'
    BY <1>0, <1>1, <1>7 DEF OneSlot
  <2>2. fetch' = Respond(f, ir)
    BY <1>2, <1>7, <2>1 DEF FetchCycle, FetchRedirect, FetchAdvance, f, fire
  <2> QED
    BY <1>1, <1>2, <1>3, <1>5, <1>7, <1>10, <2>1, <2>2
    DEF Respond, TypeOK, OneSlot, FreshFetch, Follows, fetch_valid, fetch_pc
<1>8. CASE ~kicked /\ ~fire /\ start_request(ctl)
  <2>1. fetch' = Start(f, ctl.current_priv)
    BY <1>0, <1>2, <1>8 DEF FetchCycle, FetchRedirect, FetchAdvance, f, fire, start_request
  <2>2. ~fetch.req_pending_q /\ ~fetch.data_valid_q /\ ~ctl.fetch_accept
    BY <1>0, <1>8 DEF start_request
  <2> QED
    BY <1>0, <1>2, <1>3, <1>4, <1>5, <1>8, <1>10, <2>1, <2>2
    DEF Start, TypeOK, OneSlot, FreshFetch, Follows, fetch_valid
<1>9. CASE ~kicked /\ ~fire /\ ~start_request(ctl)
  <2>1. fetch' = IF ctl.fetch_accept /\ fetch.data_valid_q THEN Accepted(f) ELSE f
    BY <1>2, <1>9 DEF FetchCycle, FetchRedirect, FetchAdvance, f, fire
  <2>2. CASE ctl.fetch_accept
    <3>1. /\ fetch' = [f EXCEPT !.data_valid_q = FALSE, !.pc_q = fetch.data_pc_q + 4]
          /\ ghostly => target' = fetch.data_pc_q + 4
      BY <1>0, <1>2, <1>10, <2>1, <2>2 DEF Accepted, fetch_pc
    <3>2. ~fetch.req_pending_q /\ ~fetch.drop_resp_q /\ ~(busy' /\ index' = IPORT)
      BY <1>0, <1>4, <2>2 DEF OneSlot
    <3>3. fetch.data_pc_q + 4 \in Int
      BY DEF TypeOK
    <3>4. TypeOK'
      BY <1>3, <1>5, <3>1, <3>3 DEF TypeOK
    <3>5. OneSlot' /\ (ghostly => FreshFetch' /\ Follows')
      BY <1>5, <3>1, <3>2 DEF OneSlot, FreshFetch, Follows, fetch_valid
    <3> QED
      BY <3>4, <3>5
  <2>3. CASE ~ctl.fetch_accept
    <3>1. /\ fetch' = f
          /\ ghostly => /\ FreshFetch /\ Follows
                        /\ target' = target /\ held_stale' = held_stale
                        /\ stale' = (~Grants /\ stale)
      BY <1>2, <1>9, <1>10, <2>1, <2>3
    <3>2. TypeOK' /\ OneSlot'
      BY <1>3, <1>5, <3>1 DEF TypeOK, OneSlot
    <3>3. ghostly => FreshFetch'
      BY <1>5, <3>1 DEF FreshFetch, fetch_valid, fetch_pc
    <3>4. ghostly => Follows'
      BY <1>4, <1>5, <3>1 DEF Follows, Grants
    <3> QED
      BY <3>2, <3>3, <3>4
  <2> QED
    BY <2>2, <2>3
<1> QED
  BY <1>6, <1>7, <1>8, <1>9

\* The granted port keeps asking, and the stage makes its access exactly once.
LEMMA StageCycleKeeps ==
    ASSUME PathInv, NEW dn_resp \in {NoResp, OK}, NEW dn_data, NEW satp, NEW ctl, Driven(ctl),
           PathStep(ctl, satp, dn_resp, dn_data)
    PROVE  /\ StillAsked' /\ Served'
           /\ Clock(ctl, satp, dn_resp, dn_data) /\ performed = 0 /\ ExactlyOnce
                => performed' = 0 /\ ExactlyOnce'
<1> DEFINE dr == dresp(dn_resp, dn_data)
           ir == iresp(dn_resp, dn_data)
<1> USE DEF PathInv
<1>0. /\ ctl.fetch_accept => fetch.data_valid_q
      /\ FetchCycle(ctl, ir)
      /\ MemCycle(FALSE, ex_mem, dr, ctl.current_priv)
  BY DEF Driven, PathStep, PathCycle
<1>1. /\ ir.data_ok <=> busy /\ index = IPORT /\ Okay(up_resp(dn_resp))
      /\ dr.data_ok <=> busy /\ index = DPORT /\ Okay(up_resp(dn_resp))
      /\ dr.fault <=> busy /\ index = DPORT /\ state = "FAULT"
  BY PortResponse
<1>2. Okay(up_resp(dn_resp)) <=> (state = "FINAL_REQ" /\ dn_done(dn_resp)) \/ state = "FAULT"
  BY UpResponse
<1>3. busy' => ~dr.data_ok /\ ~ir.data_ok /\ ~dr.fault
  BY <1>1, <1>2, BusCycle
\* While the data port is served, its request is that of the instruction here.
<1>4. busy /\ index = DPORT => dreq_valid(ex_mem)
  BY DEF StillAsked, creqs, dcreq, Served, Arb!Valid
<1>5. StillAsked'
  <2> SUFFICES ASSUME busy'
               PROVE  /\ creqs(ex_mem)'[index'] = saved_req'
                      /\ \A priv \in Priv : cprivs(priv)'[index'] = saved_priv'
    BY DEF StillAsked
  <2>1. /\ index' \in {DPORT, IPORT}
        /\ saved_req' = creqs(ex_mem)[index'] /\ Arb!Valid(saved_req')
        /\ \/ busy /\ \A priv \in Priv : cprivs(priv)[index'] = saved_priv'
           \/ saved_priv' = cprivs(ctl.current_priv)[index']
    BY BusCycle DEF StillAsked, Arb!Valid
  <2>2. CASE index' = IPORT
    <3>1. icreq = saved_req' /\ fetch.req_pending_q /\ ~fetch.data_valid_q
      BY <2>1, <2>2 DEF creqs, icreq, Arb!Valid, OneSlot
    <3>2. /\ fetch'.req_pending_q /\ fetch'.req_pc_q = fetch.req_pc_q
          /\ fetch'.req_priv_q = fetch.req_priv_q
      BY <1>0, <1>3, <3>1
      DEF FetchCycle, FetchRedirect, FetchAdvance, Latch, response_fire, start_request, TypeOK
    <3>3. icreq' = icreq
      BY <3>1, <3>2 DEF icreq
    <3>4. saved_priv' = fetch.req_priv_q
      BY <2>1, <2>2 DEF cprivs, Priv
    <3> QED
      BY <2>2, <3>1, <3>2, <3>3, <3>4 DEF creqs, cprivs
  <2>3. CASE index' = DPORT
    <3>1. dcreq(ex_mem) = saved_req' /\ dreq_valid(ex_mem)
      BY <2>1, <2>3 DEF creqs, dcreq, Arb!Valid
    <3>2. cur_is_mem(ex_mem) /\ ~resp_fire(ex_mem, dr) /\ ~dr.fault /\ ~addr_misaligned(ex_mem)
      BY <1>3, <3>1 DEF dreq_valid, resp_fire
    <3>3. pending' /\ pend' = cur(ex_mem)
          /\ mem_priv_q' = IF pending THEN mem_priv_q ELSE ctl.current_priv
      BY <1>0, <3>2 DEF MemCycle, MemCapture, MemRelease, MemKeep, captures, releases,
                        cur_is_mem, addr_misaligned, cur
    <3>4. dcreq(ex_mem)' = dcreq(ex_mem)
      BY <3>3 DEF dcreq, dreq_valid, cur_is_mem, addr_misaligned, cur, dreq_data
    <3>5. saved_priv' = mem_priv_q'
      BY <2>1, <2>3, <3>3 DEF cprivs, dreq_priv, Priv, PRV_U, PRV_M
    <3> QED
      BY <2>3, <3>1, <3>3, <3>4, <3>5 DEF creqs, cprivs, dreq_priv
  <2> QED
    BY <2>1, <2>2, <2>3
<1>6. mem_ok_prev_q' => ~busy'
  <2>1. mem_ok_prev_q' = dr.data_ok
    BY <1>0 DEF MemCycle, MemCapture, MemRelease, MemKeep
  <2> QED
    BY <1>3, <2>1
\* An access that reaches memory ends the instruction in the same cycle.
<1>7. Hits(dn_resp) <=> dr.data_ok /\ ~dr.fault
  BY <1>1, <1>2 DEF Hits, Lockstep
<1>8. dr.data_ok \/ dr.fault => /\ cur_is_mem(ex_mem) /\ ~mem_wait(ex_mem, dr)
                                /\ ~addr_misaligned(ex_mem)
  <2>1. dr.data_ok \/ dr.fault => dreq_valid(ex_mem) /\ ~mem_ok_prev_q
    BY <1>1, <1>4 DEF Served
  <2> QED
    BY <2>1 DEF dreq_valid, mem_wait, cur_done, resp_fire
<1>9. cur_is_mem(ex_mem) /\ ~mem_wait(ex_mem, dr)
        => dr.data_ok \/ dr.fault \/ out_misaligned(ex_mem, dr)
  BY DEF mem_wait, cur_done, resp_fire, out_misaligned
<1>10. ASSUME Clock(ctl, satp, dn_resp, dn_data), performed = 0, ExactlyOnce
       PROVE  performed' = 0 /\ ExactlyOnce'
  <2> DEFINE leaves == cur_is_mem(ex_mem) /\ ~mem_wait(ex_mem, dr)
             made   == IF Hits(dn_resp) THEN 1 ELSE 0
             failed == out_fault(ex_mem, dr) \/ out_misaligned(ex_mem, dr)
  <2>1. /\ performed' = IF leaves THEN 0 ELSE 0 + made
        /\ outcome' = IF leaves THEN [failed |-> failed, n |-> 0 + made] ELSE outcome
    BY <1>10 DEF Clock
  <2>2. CASE ~leaves
    BY <1>7, <1>8, <1>10, <2>1, <2>2 DEF ExactlyOnce
  <2>3. CASE leaves
    <3>1. failed <=> ~Hits(dn_resp)
      BY <1>7, <1>8, <1>9, <2>3 DEF out_fault, out_misaligned
    <3>2. performed' = 0 /\ outcome'.failed = failed /\ outcome'.n = made
      <4> HIDE DEF leaves, failed, made
      <4>1. outcome' = [failed |-> failed, n |-> 0 + made] /\ performed' = 0
        BY <2>1, <2>3
      <4>2. 0 + made = made
        BY DEF made
      <4> QED
        BY <4>1, <4>2
    <3> QED
      BY <3>1, <3>2 DEF ExactlyOnce
  <2> QED
    BY <2>2, <2>3
<1> QED
  BY <1>5, <1>6, <1>10, BusCycle DEF Served

-----------------------------------------------------------------------------
\* A cycle of the path keeps its invariant, under any core and any memory that answers
\* with one beat or none.
LEMMA PathKeeps ==
    ASSUME PathInv, NEW dn_resp \in {NoResp, OK}, NEW dn_data \in Ptes \union {NoInstr},
           NEW satp, NEW ctl, Driven(ctl), PathStep(ctl, satp, dn_resp, dn_data)
    PROVE  PathInv'
BY BusCycle, FetchCycleKeeps, StageCycleKeeps DEF PathInv

\* So does a step that leaves the path alone.
LEMMA PathStays == PathInv /\ UNCHANGED clientVars => PathInv'
<1> SUFFICES ASSUME PathInv, UNCHANGED clientVars PROVE PathInv'
  OBVIOUS
<1> USE DEF PathInv, clientVars, pathVars, memVars, arbVars, mmuVars
<1>1. TypeOK' /\ Lockstep' /\ OneSlot'
  BY DEF TypeOK, Lockstep, OneSlot
<1>2. StillAsked'
  BY DEF StillAsked, creqs, cprivs, icreq, dcreq, dreq_valid, dreq_priv, dreq_data,
         cur_is_mem, addr_misaligned, cur
<1>3. Served'
  BY DEF Served, Arb!Valid
<1> QED
  BY <1>1, <1>2, <1>3

\* A step of MemPathEnv keeps the invariant.
LEMMA NextIInv == IInv /\ [Next]_vars => IInv'
<1> SUFFICES ASSUME IInv, [Next]_vars PROVE IInv'
  OBVIOUS
<1>1. CASE Next
  <2>1. PICK dn_resp \in {NoResp, OK} : Cycle(dn_resp)
    BY <1>1 DEF Next, Quiet, Answers
  <2>2. PICK dn_data, satp :
            /\ dn_data \in Ptes \union {NoInstr}
            /\ \E ctl \in Controls(mem_wait(ex_mem, dresp(dn_resp, dn_data))) :
                Clock(ctl, satp, dn_resp, dn_data)
    BY <2>1 DEF Cycle, Lines
  <2>3. PICK ctl \in Controls(mem_wait(ex_mem, dresp(dn_resp, dn_data))) :
            Clock(ctl, satp, dn_resp, dn_data)
    BY <2>2
  <2>4. Driven(ctl) /\ PathStep(ctl, satp, dn_resp, dn_data)
    BY <2>3, ControlTypes DEF Clock
  <2>5. PathInv'
    BY <2>2, <2>4, PathKeeps DEF IInv
  <2> QED
    BY <2>2, <2>3, <2>4, <2>5, FetchCycleKeeps, StageCycleKeeps DEF IInv
<1>2. CASE UNCHANGED vars
  <2>1. PathInv'
    BY <1>2, PathStays DEF vars, IInv
  <2>2. FreshFetch' /\ ExactlyOnce' /\ Follows' /\ performed' = 0
    BY <1>2 DEF vars, clientVars, pathVars, arbVars, ghosts, IInv, FreshFetch, fetch_valid,
                fetch_pc, ExactlyOnce, Follows
  <2> QED
    BY <2>1, <2>2 DEF IInv
<1> QED
  BY <1>1, <1>2

\* The invariant holds of every behaviour of MemPathEnv.
LEMMA PathIInv == Safety => []IInv
BY InitIInv, NextIInv, PTL DEF Safety

\* The MMU never answers a request the arbiter has forgotten, nor the reverse.
THEOREM PathLockstep == Safety => []Lockstep
<1>1. IInv => Lockstep
  BY DEF IInv, PathInv
<1> QED
  BY <1>1, PathIInv, PTL

\* The served port asks unchanged, through redirects and the move to pend.
THEOREM PathStillAsked == Safety => []StillAsked
<1>1. IInv => StillAsked
  BY DEF IInv, PathInv
<1> QED
  BY <1>1, PathIInv, PTL

\* Fetch never asks while it holds an instruction, and drops only what is out.
THEOREM PathOneSlot == Safety => []OneSlot
<1>1. IInv => OneSlot
  BY DEF IInv, PathInv
<1> QED
  BY <1>1, PathIInv, PTL

\* What fetch offers is what the core expects, fetched after the last redirect.
THEOREM PathFreshFetch == Safety => []FreshFetch
<1>1. IInv => FreshFetch
  BY DEF IInv
<1> QED
  BY <1>1, PathIInv, PTL

\* A load or store that is not faulted reaches memory once, a faulted one never.
THEOREM PathExactlyOnce == Safety => []ExactlyOnce
<1>1. IInv => ExactlyOnce
  BY DEF IInv
<1> QED
  BY <1>1, PathIInv, PTL

-----------------------------------------------------------------------------
(* The board: the same path, with RAM and UART to answer it.               *)

BramFlags == real_valid \in BOOLEAN /\ ready_read \in BOOLEAN

\* RAM and UART answer in one beat, and never with a fault.
LEMMA BoardAnswers ==
    ASSUME BramFlags
    PROVE  oresp \in {NoResp, OK} /\ (Okay(oresp) <=> ready)
<1>1. ready \in BOOLEAN
  <2> DEFINE there == tx_ready(uart[RATIO - 1].dev)
  <2>1. there \in BOOLEAN
    BY DEF tx_ready
  <2> HIDE DEF there
  <2>2. ready = IF to_ram THEN IF is_store THEN real_valid ELSE ready_read ELSE there
    BY DEF ready, Bram!ram_ready, there
  <2> QED
    BY <2>1, <2>2 DEF BramFlags
<1> HIDE DEF ready
<1> QED
  BY <1>1 DEF oresp, NoResp, OK, Okay

\* The core of the board drives what any core may.
LEMMA BoardControl ==
    ASSUME NEW kind \in Kinds, NEW pc \in PCs, NEW priv \in Privs(kind)
    PROVE  Driven(Control(kind, pc, priv))
BY PrivsArePriv, PathClientsAssumption DEF Kinds, Driven, Control

\* What a cycle of the board is made of.
LEMMA BoardClock ==
    ASSUME BramFlags, BoardNext
    PROVE  /\ Bram!BramCycle(to_ram, addr, is_store, device_req.data)
           /\ dev' = uart[RATIO].dev /\ line' = uart[RATIO].line
           /\ state' = "FINAL_REQ" => Phys(phys_addr_q') = Phys(req_q.addr)
           /\ \E dn_data, satp, ctl :
                /\ dn_data \in Ptes \union {NoInstr}
                /\ Driven(ctl) /\ PathStep(ctl, satp, oresp, dn_data)
                /\ uart[RATIO].dev.finish /\ ~mem_wait(ex_mem, dresp(oresp, dn_data))
                     => ~IsTx(ex_mem')
<1> HIDE DEF oresp, uart, to_ram, addr, is_store, device_req
<1>1. BoardCycle(oresp, uart[RATIO])
  BY DEF BoardNext
<1>2. PICK dn_data \in Lines, satp \in Roots, kind \in Kinds :
        /\ \E pc \in PCs, priv \in Privs(kind) :
              PathStep(Control(kind, pc, priv), satp, oresp, dn_data)
        /\ state' = "FINAL_REQ" => Phys(phys_addr_q') = Phys(req_q.addr)
        /\ uart[RATIO].dev.finish /\ ~mem_wait(ex_mem, dresp(oresp, dn_data)) => ~IsTx(ex_mem')
        /\ Bram!BramCycle(to_ram, addr, is_store, device_req.data)
        /\ dev' = uart[RATIO].dev /\ line' = uart[RATIO].line
  BY <1>1 DEF BoardCycle
<1>3. PICK pc \in PCs, priv \in Privs(kind) :
         PathStep(Control(kind, pc, priv), satp, oresp, dn_data)
  BY <1>2
<1>4. Driven(Control(kind, pc, priv))
  BY BoardControl
<1>5. dn_data \in Ptes \union {NoInstr}
  BY DEF Lines
<1> HIDE DEF Control
<1> QED
  BY <1>2, <1>3, <1>4, <1>5

\* The flags of the RAM stay Booleans.
LEMMA BoardFlags ==
    ASSUME BramFlags, BoardNext
    PROVE  BramFlags'
<1>1. Bram!BramCycle(to_ram, addr, is_store, device_req.data)
  BY BoardClock
<1> HIDE DEF to_ram, addr, is_store, device_req
<1>2. ready_read' = real_valid
      /\ real_valid' = (counter = BRAM_DELAY /\ to_ram /\ ~Bram!ram_ready(is_store))
  BY <1>1 DEF Bram!BramCycle, Bram!BramCount
<1> QED
  BY <1>2 DEF BramFlags

\* A step of the board is one of the path.
LEMMA BoardPath ==
    ASSUME BramFlags, PathInv, [BoardNext]_boardVars
    PROVE  BramFlags' /\ PathInv'
<1>1. CASE BoardNext
  <2>1. oresp \in {NoResp, OK}
    BY BoardAnswers
  <2> HIDE DEF oresp
  <2>2. PICK dn_data, satp, ctl : /\ dn_data \in Ptes \union {NoInstr}
                                  /\ Driven(ctl) /\ PathStep(ctl, satp, oresp, dn_data)
    BY <1>1, BoardClock
  <2>3. PathInv'
    BY <2>1, <2>2, PathKeeps
  <2> QED
    BY <1>1, <2>3, BoardFlags
<1>2. CASE UNCHANGED boardVars
  <2>1. UNCHANGED clientVars /\ UNCHANGED <<real_valid, ready_read>>
    BY <1>2 DEF boardVars, Bram!bramVars
  <2> QED
    BY <2>1, PathStays DEF BramFlags
<1> QED
  BY <1>1, <1>2

\* With the memory of the board too, arbiter and MMU serve the same request and the
\* port that made it still asks with it.
THEOREM BoardKeepsPath == BoardSafety => [](Lockstep /\ StillAsked /\ OneSlot)
<1>1. BoardInit => BramFlags /\ PathInv
  BY InitPath DEF BoardInit, BramFlags, Bram!BramInit
<1>2. BramFlags /\ PathInv /\ [BoardNext]_boardVars => (BramFlags /\ PathInv)'
  BY BoardPath
<1>3. PathInv => Lockstep /\ StillAsked /\ OneSlot
  BY DEF PathInv
<1> QED
  BY <1>1, <1>2, <1>3, PTL DEF BoardSafety

-----------------------------------------------------------------------------
(* Reads of RAM.                                                           *)

\* The MMU keeps what it asks for until memory has answered, and only a wait arms it.
LEMMA Asks ==
    ASSUME NEW dn_resp, NEW dn_data, NEW satp, NEW ctl, PathStep(ctl, satp, dn_resp, dn_data)
    PROVE  /\ resp_armed_q' => /\ state \in Walking \union {"FINAL_REQ"}
                               /\ UNCHANGED <<state, req_q, pte_addr_q, phys_addr_q>>
           /\ state = "FINAL_REQ" => \/ UNCHANGED <<state, req_q, phys_addr_q>> /\ ~dn_done(dn_resp)
                                     \/ state' = "IDLE" /\ dn_done(dn_resp)
           /\ state' = "FINAL_REQ" => state # "IDLE" /\ req_q' = req_q
<1>1. PICK up_req, priv_mode : MMUCycle(up_req, priv_mode, satp, dn_resp, dn_data)
  BY DEF PathStep, PathCycle
<1> QED
  BY <1>1 DEF MMUCycle, MMUWait, Accept, Check, WalkL2, WalkL1, WalkL0, WalkUp, AwaitMemory,
              Walking, Answer, Fault, Finish

\* An answer the MMU waits for is the RAM's own answer to what it asks.
Answered == resp_armed_q /\ ready_read /\ to_ram /\ ~is_store => douta = Bram!Content(addr)

\* A wait that arms the MMU leaves its request on the bus, which the RAM answers.
LEMMA BoardAnswered ==
    ASSUME BramFlags, Answered, [BoardNext]_boardVars
    PROVE  Answered'
<1>1. CASE BoardNext
  <2>1. PICK dn_data, satp, ctl : PathStep(ctl, satp, oresp, dn_data)
    BY <1>1, BoardClock
  <2> SUFFICES ASSUME resp_armed_q', ready_read', to_ram', ~is_store'
               PROVE  douta' = Bram!Content(addr)'
    BY DEF Answered
  <2>2. UNCHANGED <<state, req_q, pte_addr_q, phys_addr_q>>
    BY <2>1, Asks
  <2>3. UNCHANGED <<dn_req, valid, addr, to_ram, is_store>>
    BY <2>2 DEF dn_req, valid, addr, to_ram, is_store
  <2>4. Bram!BramCycle(to_ram, addr, is_store, device_req.data)
    BY <1>1, BoardClock
  <2> HIDE DEF addr, to_ram, is_store, device_req
  <2>5. real_valid /\ douta' = Bram!Content(addr) /\ ram' = ram
    BY <2>3, <2>4 DEF Bram!BramCycle, Bram!BramAccess
  <2> QED
    BY <2>3, <2>5 DEF Bram!Content
<1>2. CASE UNCHANGED boardVars
  BY <1>2 DEF boardVars, clientVars, pathVars, mmuVars, Bram!bramVars, Answered, to_ram, is_store,
              addr, valid, dn_req, Bram!Content
<1> QED
  BY <1>1, <1>2

\* A read takes what the RAM holds at the address it asks for, whatever the delay of
\* the RAM and although its answer outlasts the request.
THEOREM BoardFreshAnswer == BoardSafety => []FreshAnswer
<1>1. BoardInit => BramFlags /\ PathInv /\ Answered
  BY InitPath DEF BoardInit, ClientsInit, PathInit, MMUInit, BramFlags, Bram!BramInit, Answered
<1>2. BramFlags /\ PathInv /\ Answered /\ [BoardNext]_boardVars
        => (BramFlags /\ PathInv /\ Answered)'
  BY BoardPath, BoardAnswered
<1>3. BramFlags /\ Answered => FreshAnswer
  <2> SUFFICES ASSUME BramFlags, Answered, Ends, to_ram, ~is_store PROVE douta = Bram!Content(addr)
    BY DEF FreshAnswer
  <2>1. dn_done(oresp) /\ ready
    BY BoardAnswers DEF Ends, dn_done
  <2>2. resp_armed_q
    <3>1. CASE state = "FINAL_REQ" /\ req_q.kind = "store"
      <4>1. valid /\ dn_req = [req_q EXCEPT !.addr = phys_addr_q]
        BY <3>1 DEF Ends, dn_req, Walking
      <4>2. dn_req.kind = "store"
        BY <3>1, <4>1
      <4> QED
        BY <4>1, <4>2 DEF is_store
    <3> QED
      BY <2>1, <3>1, BoardAssumption DEF dn_done
  <2>3. ready_read
    BY <2>1 DEF ready, Bram!ram_ready
  <2> QED
    BY <2>2, <2>3 DEF Answered
<1> QED
  BY <1>1, <1>2, <1>3, PTL DEF BoardSafety

-----------------------------------------------------------------------------
(* The UART between two edges of the CPU's clock.                          *)

\* The definition of uart has a solution, which is uart.
LEMMA UartIs ==
    uart = [n \in 0 .. RATIO |->
              IF n = 0 THEN [dev |-> dev, line |-> line]
              ELSE CHOOSE v \in {Tick(u) : u \in {uart[n - 1]}} : TRUE]
<1> DEFINE first      == [dev |-> dev, line |-> line]
           next(u)    == CHOOSE v \in {Tick(w) : w \in {u}} : TRUE
           Upto(f, n) == f[0] = first /\ \A k \in 1 .. n : f[k] = next(f[k - 1])
           Fun(f)     == f = [n \in 0 .. RATIO |-> f[n]]
           Built      == {n \in 0 .. RATIO : \E f : Fun(f) /\ Upto(f, n)}
<1>1. RATIO \in Nat
  BY BoardAssumption
<1> HIDE DEF first, next
<1>2. 0 \in Built
  <2> DEFINE f == [n \in 0 .. RATIO |-> first]
  <2>1. Fun(f) /\ Upto(f, 0) /\ 0 \in 0 .. RATIO
    BY <1>1
  <2> HIDE DEF f, Fun, Upto
  <2> QED
    BY <2>1
<1>3. ASSUME NEW m \in 1 .. RATIO, m - 1 \in Built PROVE m \in Built
  <2>1. PICK f : Fun(f) /\ Upto(f, m - 1)
    BY <1>3
  <2> DEFINE g == [n \in 0 .. RATIO |-> IF n = m THEN next(f[m - 1]) ELSE f[n]]
  <2>2. Fun(g) /\ g[m] = next(f[m - 1]) /\ \A k \in 0 .. m - 1 : g[k] = f[k]
    BY <1>1, <1>3
  <2> HIDE DEF g
  <2>3. g[0] = first
    BY <1>3, <2>1, <2>2
  <2>4. ASSUME NEW k \in 1 .. m PROVE g[k] = next(g[k - 1])
    <3>1. CASE k = m
      BY <1>3, <2>2, <3>1
    <3>2. CASE k # m
      <4>1. k \in 1 .. m - 1 /\ k \in 0 .. m - 1 /\ k - 1 \in 0 .. m - 1
        BY <1>3, <3>2
      <4> QED
        BY <2>1, <2>2, <4>1
    <3> QED
      BY <3>1, <3>2
  <2>5. Upto(g, m)
    BY <2>3, <2>4
  <2>6. m \in 0 .. RATIO
    BY <1>1, <1>3
  <2> HIDE DEF Fun, Upto
  <2> QED
    BY <2>2, <2>5, <2>6
<1>4. RATIO \in Built
  <2> HIDE DEF Built
  <2>1. 0 .. RATIO \subseteq Built
    BY <1>1, <1>2, <1>3, CountUp
  <2> QED
    BY <1>1, <2>1
<1> DEFINE Solves(f) == f = [n \in 0 .. RATIO |-> IF n = 0 THEN first ELSE next(f[n - 1])]
<1>5. \E f : Solves(f)
  <2>1. PICK f : Fun(f) /\ Upto(f, RATIO)
    BY <1>4
  <2>2. ASSUME NEW n \in 0 .. RATIO
        PROVE  f[n] = IF n = 0 THEN first ELSE next(f[n - 1])
    <3>1. n = 0 \/ n \in 1 .. RATIO
      BY <1>1
    <3> HIDE DEF Fun
    <3> QED
      BY <2>1, <3>1
  <2>3. [n \in 0 .. RATIO |-> f[n]] =
           [n \in 0 .. RATIO |-> IF n = 0 THEN first ELSE next(f[n - 1])]
    BY <2>2
  <2>4. Solves(f)
    BY <2>1, <2>3
  <2> HIDE DEF Solves
  <2> QED
    BY <2>4
<1>6. uart = CHOOSE f : Solves(f)
  BY DEF uart, first, next
<1> HIDE DEF Solves
<1>7. Solves(uart)
  BY <1>5, <1>6
<1> QED
  BY <1>7 DEF Solves, first, next

\* It starts as it was at the last edge, and makes a step in each cycle of its clock.
LEMMA UartStep ==
    /\ uart[0].dev = dev /\ uart[0].line = line
    /\ \A n \in 1 .. RATIO : uart[n].dev = DeviceStep(uart[n - 1].dev, device_req)
    /\ \A n \in 1 .. RATIO : uart[n].line = IF ~valid THEN <<>>
                                ELSE IF tx_ready(uart[n - 1].dev) THEN uart[n - 1].line
                                ELSE Append(uart[n - 1].line, uart[n].dev.txBit)
<1>1. RATIO \in Nat /\ 0 \in 0 .. RATIO
  BY BoardAssumption
<1>2. uart[0] = [dev |-> dev, line |-> line]
  BY <1>1, UartIs
<1>3. ASSUME NEW n \in 1 .. RATIO PROVE uart[n] = Tick(uart[n - 1])
  <2>1. n \in 0 .. RATIO /\ n # 0
    BY <1>1
  <2> DEFINE here == uart[n - 1]
  <2>2. uart[n] = CHOOSE v \in {Tick(u) : u \in {here}} : TRUE
    BY <2>1, UartIs
  <2> HIDE DEF here
  <2>3. {Tick(u) : u \in {here}} = {Tick(here)}
    OBVIOUS
  <2>4. uart[n] = Tick(here)
    BY <2>2, <2>3
  <2> QED
    BY <2>4 DEF here
<1> HIDE DEF uart
<1>4. ASSUME NEW n \in 1 .. RATIO
      PROVE  /\ uart[n].dev = DeviceStep(uart[n - 1].dev, device_req)
             /\ uart[n].line = IF ~valid THEN <<>>
                               ELSE IF tx_ready(uart[n - 1].dev) THEN uart[n - 1].line
                               ELSE Append(uart[n - 1].line, uart[n].dev.txBit)
  <2> DEFINE d == DeviceStep(uart[n - 1].dev, device_req)
             l == IF ~valid THEN <<>>
                  ELSE IF tx_ready(uart[n - 1].dev) THEN uart[n - 1].line
                  ELSE Append(uart[n - 1].line, d.txBit)
  <2>1. uart[n] = [dev |-> d, line |-> l]
    BY <1>3 DEF Tick
  <2> HIDE DEF d, l
  <2>2. uart[n].dev = d /\ uart[n].line = l
    BY <2>1
  <2> QED
    BY <2>2 DEF d, l
<1>5. uart[0].dev = dev /\ uart[0].line = line
  BY <1>2
<1> QED
  BY <1>4, <1>5

-----------------------------------------------------------------------------
(* One frame for each store to TX_DATA.                                    *)

Period == BIT_TMR_MAX + 1
Sent   == <<"cpu", dn_req.data>>

\* The first n cycles of the frame of the byte on the bus.
OnLine(l, n) == l = [k \in 1 .. n |-> Bit(Sent, (k - 1) \div Period)]

\* The transmitter is at the byte on the bus, or done with it: d the UART, l the line.
Loads(d, l) == /\ d.txState = "LOAD_BIT" /\ d.bitTmr = 0 /\ d.txData = Sent
               /\ d.bitIndex \in 0 .. BIT_INDEX_MAX - 1
               /\ OnLine(l, d.bitIndex * Period)
Shifts(d, l) == /\ d.txState = "SEND_BIT" /\ d.bitTmr \in 1 .. BIT_TMR_MAX /\ d.txData = Sent
                /\ d.bitIndex \in 1 .. BIT_INDEX_MAX
                /\ d.txBit = Bit(Sent, d.bitIndex - 1)
                /\ OnLine(l, (d.bitIndex - 1) * Period + d.bitTmr)
Has(d, l)    == d.txState = "RDY" /\ ~d.putchar /\ OnLine(l, BIT_INDEX_MAX * Period)
Started(d, l) == ~d.finish /\ (Loads(d, l) \/ Shifts(d, l) \/ Has(d, l))

\* Or it has not begun.
Fresh(d, l) == d.txState = "RDY" /\ d.putchar /\ l = <<>>
Sends(d, l) == (~d.finish /\ Fresh(d, l)) \/ Started(d, l)

\* A store to TX_DATA is one to the device, and not to FINISH_ADDR.
LEMMA TxRequest ==
    ASSUME device_req.tx
    PROVE  /\ valid /\ is_store /\ ~to_ram /\ addr = TX_DATA
           /\ device_req.valid /\ ~device_req.fin /\ device_req.data = dn_req.data
<1>1. valid /\ ~to_ram /\ is_store /\ addr = TX_DATA
  BY DEF device_req
<1> HIDE DEF valid, to_ram, is_store, addr
<1> QED
  BY <1>1, BoardAssumption DEF device_req

\* One more cycle of the frame.
LEMMA OneMore ==
    ASSUME NEW l, NEW n \in Nat, OnLine(l, n), NEW b, b = Bit(Sent, n \div Period)
    PROVE  OnLine(Append(l, b), n + 1)
<1> DEFINE at(k) == Bit(Sent, (k - 1) \div Period)
           S     == {at(k) : k \in 1 .. n + 1}
<1>1. l = [k \in 1 .. n |-> at(k)]
  BY DEF OnLine
<1>2. b = at(n + 1)
  OBVIOUS
<1> HIDE DEF at
<1>3. l \in Seq(S) /\ Len(l) = n /\ b \in S
  BY <1>1, <1>2
<1> HIDE DEF S
<1>4. /\ Append(l, b) \in Seq(S) /\ Len(Append(l, b)) = n + 1
      /\ \A k \in 1 .. n : Append(l, b)[k] = l[k]
      /\ Append(l, b)[n + 1] = b
  BY <1>3, AppendProperties
<1>5. \A k \in 1 .. n + 1 : Append(l, b)[k] = at(k)
  BY <1>1, <1>2, <1>4
<1>6. Append(l, b) = [k \in 1 .. n + 1 |-> Append(l, b)[k]]
  BY <1>4
<1>7. Append(l, b) = [k \in 1 .. n + 1 |-> at(k)]
  BY <1>5, <1>6
<1> QED
  BY <1>7 DEF OnLine, at

\* A cycle of the board's clock while the byte is on the bus.
LEMMA OneTick ==
    ASSUME device_req.tx, NEW d, NEW l, Sends(d, l),
           NEW e, e = DeviceStep(d, device_req),
           NEW m, m = IF tx_ready(d) THEN l ELSE Append(l, e.txBit)
    PROVE  Started(e, m)
<1> DEFINE req == device_req
<1>1. req.tx /\ req.valid /\ ~req.fin /\ char_data(d, req) = Sent
  BY TxRequest DEF char_data, Sends, Started, Sent
<1> HIDE DEF req
<1>2. /\ e.txState = NextState(d, req) /\ e.txData = Sent
      /\ e.bitTmr = IF tx_ready(d) \/ bitDone(d) THEN 0 ELSE d.bitTmr + 1
      /\ e.bitIndex = IF tx_ready(d) THEN 0
                      ELSE IF d.txState = "LOAD_BIT" THEN d.bitIndex + 1 ELSE d.bitIndex
      /\ d.txState = "LOAD_BIT" => e.txBit = Bit(d.txData, d.bitIndex)
      /\ d.txState = "SEND_BIT" => e.txBit = d.txBit
      /\ e.putchar <=> (d.putchar /\ d.txState = "RDY")
      /\ e.finish <=> d.finish
  BY <1>1 DEF DeviceStep, req, send, tx_ready, putchar
<1>3. ~e.finish
  BY <1>2 DEF Sends, Started
<1>4. /\ BIT_TMR_MAX \in Nat \ {0} /\ BIT_INDEX_MAX \in Nat \ {0, 1}
      /\ Period \in Nat \ {0} /\ Period = BIT_TMR_MAX + 1
  BY DeviceAssumption DEF Period
<1>5. CASE Fresh(d, l)
  <2>1. e.txState = "LOAD_BIT" /\ e.bitTmr = 0 /\ e.bitIndex = 0 /\ m = <<>>
    BY <1>1, <1>2, <1>5 DEF Fresh, NextState, send, tx_ready
  <2>2. OnLine(m, 0 * Period)
    BY <1>4, <2>1 DEF OnLine
  <2> QED
    BY <1>2, <1>3, <1>4, <2>1, <2>2 DEF Started, Loads
<1>6. CASE Loads(d, l)
  <2> DEFINE i == d.bitIndex
             n == i * Period
  <2>1. d.txState = "LOAD_BIT" /\ d.bitTmr = 0 /\ d.txData = Sent /\ OnLine(l, n)
        /\ i \in 0 .. BIT_INDEX_MAX - 1
    BY <1>6 DEF Loads
  <2> HIDE DEF i
  <2>2. e.txState = "SEND_BIT" /\ e.bitTmr = 1 /\ e.bitIndex = i + 1 /\ e.txBit = Bit(Sent, i)
        /\ m = Append(l, e.txBit)
    BY <1>2, <1>4, <2>1 DEF NextState, tx_ready, bitDone, i
  <2>3. n \in Nat /\ i \in Int /\ n = Period * i + 0 /\ 0 \in 0 .. Period - 1
    BY <1>4, <2>1
  <2> HIDE DEF n
  <2>4. n \div Period = i
    BY <1>4, <2>3, Quotient
  <2>5. OnLine(m, n + 1)
    BY <2>1, <2>2, <2>3, <2>4, OneMore
  <2>6. e.bitIndex \in 1 .. BIT_INDEX_MAX /\ e.bitIndex - 1 = i
        /\ 1 \in 1 .. BIT_TMR_MAX /\ (e.bitIndex - 1) * Period + e.bitTmr = n + 1
    BY <1>4, <2>1, <2>2 DEF n
  <2>7. Shifts(e, m)
    BY <1>2, <2>2, <2>5, <2>6 DEF Shifts
  <2> QED
    BY <1>3, <2>7 DEF Started
<1>7. CASE Shifts(d, l)
  <2> DEFINE i == d.bitIndex
             t == d.bitTmr
             n == (i - 1) * Period + t
  <2>1. d.txState = "SEND_BIT" /\ d.txData = Sent /\ OnLine(l, n) /\ d.txBit = Bit(Sent, i - 1)
        /\ i \in 1 .. BIT_INDEX_MAX /\ t \in 1 .. BIT_TMR_MAX
    BY <1>7 DEF Shifts
  <2> HIDE DEF i, t
  <2>2. /\ e.txState = IF t # BIT_TMR_MAX THEN "SEND_BIT"
                       ELSE IF i = BIT_INDEX_MAX THEN "RDY" ELSE "LOAD_BIT"
        /\ e.bitTmr = IF t = BIT_TMR_MAX THEN 0 ELSE t + 1
        /\ e.bitIndex = i /\ e.txBit = Bit(Sent, i - 1) /\ ~e.putchar
        /\ m = Append(l, e.txBit)
    BY <1>2, <2>1 DEF NextState, tx_ready, bitDone, i, t
  <2>3. /\ (i - 1) * Period \in Nat /\ n \in Nat /\ i - 1 \in Int
        /\ n = Period * (i - 1) + t /\ t \in 0 .. Period - 1
    BY <1>4, <2>1
  <2> HIDE DEF n
  <2>4. n \div Period = i - 1
    BY <1>4, <2>3, Quotient
  <2>5. OnLine(m, n + 1)
    BY <2>1, <2>2, <2>3, <2>4, OneMore
  <2>6. CASE t # BIT_TMR_MAX
    <3>1. t + 1 \in 1 .. BIT_TMR_MAX /\ (i - 1) * Period + (t + 1) = n + 1
      BY <1>4, <2>1, <2>3, <2>6 DEF n
    <3>2. Shifts(e, m)
      BY <1>2, <2>1, <2>2, <2>5, <2>6, <3>1 DEF Shifts
    <3> QED
      BY <1>3, <3>2 DEF Started
  <2>7. CASE t = BIT_TMR_MAX
    <3>1. i * Period = n + 1
      <4>1. i \in Int /\ Period \in Int
        BY <1>4, <2>1
      <4>2. (i - 1) * Period = i * Period - Period
        BY <4>1
      <4> QED
        BY <1>4, <2>7, <4>1, <4>2 DEF n
    <3>2. CASE i = BIT_INDEX_MAX
      BY <1>3, <2>2, <2>5, <2>7, <3>1, <3>2 DEF Started, Has
    <3>3. CASE i # BIT_INDEX_MAX
      <4>1. i \in 0 .. BIT_INDEX_MAX - 1
        BY <1>4, <2>1, <3>3
      <4>2. Loads(e, m)
        BY <1>2, <2>2, <2>5, <2>7, <3>1, <3>3, <4>1 DEF Loads
      <4> QED
        BY <1>3, <4>2 DEF Started
    <3> QED
      BY <3>2, <3>3
  <2> QED
    BY <2>6, <2>7
<1>8. CASE Has(d, l)
  <2>1. e.txState = "RDY" /\ ~e.putchar /\ m = l
    BY <1>2, <1>8 DEF Has, NextState, tx_ready
  <2> QED
    BY <1>3, <1>8, <2>1 DEF Started, Has
<1> QED
  BY <1>5, <1>6, <1>7, <1>8 DEF Sends, Started

\* A store that is on the bus between two edges of the CPU's clock has begun.
LEMMA Sending ==
    ASSUME device_req.tx, Sends(dev, line)
    PROVE  \A n \in 1 .. RATIO : Started(uart[n].dev, uart[n].line)
<1> DEFINE S == {n \in 0 .. RATIO : n = 0 \/ Started(uart[n].dev, uart[n].line)}
<1>1. RATIO \in Nat
  BY BoardAssumption
<1> HIDE DEF uart, device_req, Started, valid
<1>2. ASSUME NEW n \in 1 .. RATIO, n - 1 \in S PROVE Started(uart[n].dev, uart[n].line)
  <2>1. Sends(uart[n - 1].dev, uart[n - 1].line)
    <3>1. CASE n = 1
      <4>1. uart[n - 1].dev = dev /\ uart[n - 1].line = line
        BY <3>1, UartStep
      <4> QED
        BY <4>1
    <3>2. CASE n # 1
      <4>1. Started(uart[n - 1].dev, uart[n - 1].line)
        BY <1>2, <3>2
      <4> QED
        BY <4>1 DEF Sends
    <3> QED
      BY <3>1, <3>2
  <2>2. valid
    BY TxRequest
  <2>3. /\ uart[n].dev = DeviceStep(uart[n - 1].dev, device_req)
        /\ uart[n].line = IF tx_ready(uart[n - 1].dev) THEN uart[n - 1].line
                          ELSE Append(uart[n - 1].line, uart[n].dev.txBit)
    BY <2>2, UartStep
  <2> HIDE DEF Sends
  <2> QED
    BY <2>1, <2>3, OneTick
<1>3. \A n \in 1 .. RATIO : n - 1 \in S => n \in S
  BY <1>1, <1>2
<1>4. 0 \in S
  BY <1>1
<1> HIDE DEF S
<1>5. 0 .. RATIO \subseteq S
  BY <1>1, <1>3, <1>4, CountUp
<1> QED
  BY <1>1, <1>5 DEF S

\* The device has finished when it had, or when it is told.
LEMMA Finishes == \A n \in 1 .. RATIO : uart[n].dev.finish <=> (dev.finish \/ device_req.fin)
<1> DEFINE Told(n) == uart[n].dev.finish <=> (dev.finish \/ device_req.fin)
           S       == {n \in 0 .. RATIO : n = 0 \/ Told(n)}
<1>1. RATIO \in Nat
  BY BoardAssumption
<1> HIDE DEF uart, device_req
<1>2. ASSUME NEW n \in 1 .. RATIO, n - 1 \in S
      PROVE  uart[n].dev.finish <=> (dev.finish \/ device_req.fin)
  <2>1. uart[n].dev.finish <=> (uart[n - 1].dev.finish \/ device_req.fin)
    <3> DEFINE d == uart[n - 1].dev
               e == uart[n].dev
    <3>1. e = DeviceStep(d, device_req)
      BY UartStep
    <3> HIDE DEF d, e
    <3>2. e.finish = (d.finish \/ device_req.fin)
      BY <3>1 DEF DeviceStep
    <3> QED
      BY <3>2 DEF d, e
  <2>2. n = 1 => uart[n - 1].dev = dev
    BY UartStep
  <2>3. n # 1 => (uart[n - 1].dev.finish <=> (dev.finish \/ device_req.fin))
    BY <1>2
  <2> QED
    BY <2>1, <2>2, <2>3
<1>3. \A n \in 1 .. RATIO : n - 1 \in S => n \in S
  BY <1>1, <1>2
<1>4. 0 \in S
  BY <1>1
<1> HIDE DEF S
<1>5. 0 .. RATIO \subseteq S
  BY <1>1, <1>3, <1>4, CountUp
<1> QED
  BY <1>1, <1>5 DEF S

\* Without a byte to send the transmitter rests, ready for one.
LEMMA Rests ==
    ASSUME ~device_req.tx, ~dev.finish, ~device_req.fin, dev.txState = "RDY",
           valid => Fresh(dev, line)
    PROVE  \A n \in 1 .. RATIO : Fresh(uart[n].dev, uart[n].line)
<1> DEFINE Rest(n) == /\ uart[n].dev.txState = "RDY"
                      /\ valid \/ n # 0 => Fresh(uart[n].dev, uart[n].line)
           S       == {n \in 0 .. RATIO : Rest(n)}
<1>1. RATIO \in Nat
  BY BoardAssumption
<1>2. device_req.valid => valid
  BY DEF device_req
<1> HIDE DEF uart, device_req, valid
<1>3. ASSUME NEW n \in 1 .. RATIO, n - 1 \in S PROVE Rest(n)
  <2> DEFINE d == uart[n - 1].dev
             l == uart[n - 1].line
             e == uart[n].dev
  <2>1. d.txState = "RDY" /\ (valid => Fresh(d, l))
    BY <1>3
  <2>2. ~d.finish
    <3>1. n = 1 => d = dev
      BY UartStep
    <3>2. n # 1 => n - 1 \in 1 .. RATIO
      BY <1>1
    <3> QED
      BY <3>1, <3>2, Finishes
  <2>3. e = DeviceStep(d, device_req)
        /\ uart[n].line = IF ~valid THEN <<>>
                          ELSE IF tx_ready(d) THEN l ELSE Append(l, e.txBit)
    BY UartStep
  <2> HIDE DEF d, l, e
  <2>4. e.txState = "RDY" /\ (e.putchar <=> ~device_req.valid \/ d.putchar)
    BY <2>1, <2>2, <2>3 DEF DeviceStep, NextState, send, putchar
  <2>5. uart[n].line = IF ~valid THEN <<>> ELSE l
    BY <2>1, <2>3 DEF tx_ready
  <2>6. Fresh(e, uart[n].line)
    BY <1>2, <2>1, <2>4, <2>5 DEF Fresh
  <2> QED
    BY <2>4, <2>6 DEF e
<1>4. \A n \in 1 .. RATIO : n - 1 \in S => n \in S
  BY <1>1, <1>3
<1>5. 0 \in S
  <2>1. uart[0].dev = dev /\ uart[0].line = line
    BY UartStep
  <2> QED
    BY <1>1, <2>1
<1> HIDE DEF S
<1>6. 0 .. RATIO \subseteq S
  BY <1>1, <1>4, <1>5, CountUp
<1> QED
  BY <1>1, <1>6 DEF S

-----------------------------------------------------------------------------
\* The copy the stage asks with is that of ex_mem.
PendInv == pending => pend = ex_mem /\ IsMem(pend) /\ addr_aligned(pend)

\* Pages are mapped to themselves.
PhysInv == state = "FINAL_REQ" => Phys(phys_addr_q) = Phys(req_q.addr)

\* No byte is to be sent after the store to FINISH_ADDR.
FinishInv == dev.finish => ~IsTx(ex_mem)

\* The transmitter is at the store on the bus, or waits for the next one.
DevInv == ~dev.finish =>
             IF device_req.tx THEN Sends(dev, line)
             ELSE dev.txState = "RDY" /\ (state # "IDLE" => Fresh(dev, line))

BoardInv == BramFlags /\ PathInv /\ PendInv /\ PhysInv /\ FinishInv /\ DevInv

\* A store on the bus is that of the instruction in ex_mem.
LEMMA TheStore ==
    ASSUME PathInv, PendInv, PhysInv, valid, is_store
    PROVE  /\ state = "FINAL_REQ"
           /\ ex_mem # NoOp /\ ex_mem.is_store
           /\ addr = Phys(AddrOf(ex_mem.mem_addr))
<1>1. valid /\ dn_req.kind = "store" /\ addr = Phys(dn_req.addr)
  BY DEF is_store, addr
<1>2. state = "FINAL_REQ" /\ dn_req = [req_q EXCEPT !.addr = phys_addr_q]
  BY <1>1 DEF valid, dn_req
<1>3. req_q = creqs(ex_mem)[index] /\ index \in {DPORT, IPORT} /\ Arb!Valid(req_q)
  BY <1>2 DEF PathInv, Lockstep, StillAsked, Served, TypeOK
<1>4. CASE index = IPORT
  <2>1. req_q = [addr |-> AddrOf(fetch.req_pc_q), kind |-> "fetch", data |-> NoData]
    BY <1>3, <1>4 DEF creqs, icreq, Arb!Valid
  <2>2. dn_req.kind = "fetch"
    BY <1>2, <2>1
  <2> QED
    BY <1>1, <2>2
<1>5. CASE index = DPORT
  <2>1. req_q = dcreq(ex_mem) /\ dreq_valid(ex_mem)
    <3>1. creqs(ex_mem)[index] = dcreq(ex_mem)
      BY <1>5 DEF creqs
    <3>2. dcreq(ex_mem) # NoRequest
      BY <1>3, <3>1 DEF Arb!Valid
    <3> QED
      BY <1>3, <3>1, <3>2 DEF dcreq
  <2>2. cur(ex_mem) = ex_mem /\ ex_mem # NoOp
    BY <2>1 DEF PendInv, dreq_valid, cur_is_mem, cur, IsMem
  <2>3. /\ DOMAIN req_q = {"addr", "kind", "data"}
        /\ req_q.addr = AddrOf(ex_mem.mem_addr)
        /\ req_q.kind = IF ex_mem.is_store THEN "store" ELSE "load"
    BY <2>1, <2>2 DEF dcreq
  <2>4. dn_req.addr = phys_addr_q /\ dn_req.kind = req_q.kind
    BY <1>2, <2>3
  <2>5. ex_mem.is_store
    BY <1>1, <2>3, <2>4
  <2>6. addr = Phys(req_q.addr)
    BY <1>1, <1>2, <2>4 DEF PhysInv
  <2> QED
    BY <1>2, <2>2, <2>3, <2>5, <2>6
<1> QED
  BY <1>3, <1>4, <1>5

\* After reset the transmitter rests and the bus is idle.
LEMMA BoardInvInit == BoardInit => BoardInv
<1> SUFFICES ASSUME BoardInit PROVE BoardInv
  OBVIOUS
<1>1. BramFlags /\ PathInv
  BY InitPath DEF BoardInit, BramFlags, Bram!BramInit
<1>2. state = "IDLE" /\ ~pending /\ ~dev.finish /\ dev.txState = "RDY"
  BY DEF BoardInit, ClientsInit, PathInit, MMUInit, MemInit, DeviceInit
<1>3. ~valid
  BY <1>2 DEF valid, dn_req, Walking
<1>4. ~device_req.tx
  BY <1>3 DEF device_req
<1> HIDE DEF device_req
<1> QED
  BY <1>1, <1>2, <1>4 DEF BoardInv, PendInv, PhysInv, FinishInv, DevInv

\* A memory instruction that waits is copied, and the copy is let go of with it.
LEMMA PendKeeps ==
    ASSUME PendInv, NEW dr, NEW priv, MemCycle(FALSE, ex_mem, dr, priv),
           mem_wait(ex_mem, dr) => UNCHANGED ex_mem
    PROVE  PendInv'
<1> SUFFICES ASSUME pending' PROVE pend' = ex_mem' /\ IsMem(pend') /\ addr_aligned(pend')
  BY DEF PendInv
<1>1. CASE captures(ex_mem, dr)
  <2>1. ~pending /\ IsMem(ex_mem) /\ addr_aligned(ex_mem) /\ pend' = ex_mem
        /\ ~resp_fire(ex_mem, dr) /\ ~dr.fault
    BY <1>1 DEF MemCycle, MemCapture, MemRelease, MemKeep, releases, captures
  <2>2. mem_wait(ex_mem, dr)
    BY <2>1 DEF mem_wait, cur_done, cur_is_mem, cur, addr_misaligned
  <2> QED
    BY <2>1, <2>2
<1>2. CASE ~captures(ex_mem, dr)
  <2>1. pending /\ pend' = pend /\ ~resp_fire(ex_mem, dr) /\ ~dr.fault
    BY <1>2 DEF MemCycle, MemCapture, MemRelease, MemKeep, releases
  <2>2. pend = ex_mem /\ IsMem(pend) /\ addr_aligned(pend)
    BY <2>1 DEF PendInv
  <2>3. mem_wait(ex_mem, dr)
    BY <2>1, <2>2 DEF mem_wait, cur_done, cur_is_mem, cur, addr_misaligned
  <2> QED
    BY <2>1, <2>2, <2>3
<1> QED
  BY <1>1, <1>2

\* The transmitter is at the store for as long as it is on the bus, and rests after it.
LEMMA DevKeeps ==
    ASSUME BoardInv, BoardNext
    PROVE  DevInv'
<1> USE DEF BoardInv
<1>1. RATIO \in Nat /\ RATIO \in 1 .. RATIO /\ RATIO - 1 \in 1 .. RATIO
  BY BoardAssumption
<1>2. dev' = uart[RATIO].dev /\ line' = uart[RATIO].line
  BY BoardClock
<1>3. PICK dn_data, satp, ctl : PathStep(ctl, satp, oresp, dn_data)
  BY BoardClock
<1> SUFFICES ASSUME ~dev'.finish
             PROVE  IF device_req.tx' THEN Sends(dev, line)'
                    ELSE dev'.txState = "RDY" /\ (state' # "IDLE" => Fresh(dev, line)')
  BY DEF DevInv
<1>4. ~dev.finish /\ ~device_req.fin
  <2> HIDE DEF uart, device_req
  <2> QED
    BY <1>1, <1>2, Finishes
<1>5. CASE device_req.tx
  <2>1. valid /\ is_store /\ ~to_ram /\ state = "FINAL_REQ"
    BY <1>5, TxRequest, TheStore
  <2>2. \A n \in 1 .. RATIO : Started(uart[n].dev, uart[n].line)
    <3> HIDE DEF device_req
    <3> QED
      BY <1>4, <1>5, Sending DEF DevInv
  <2>3. CASE UNCHANGED <<state, req_q, phys_addr_q>>
    <3>1. UNCHANGED dn_req
      BY <2>1, <2>3 DEF dn_req, Walking
    <3>2. UNCHANGED <<valid, addr>>
      BY <3>1 DEF valid, addr
    <3>3. UNCHANGED device_req /\ UNCHANGED Sent
      BY <3>1, <3>2 DEF device_req, is_store, to_ram, Sent
    <3>4. Started(uart[RATIO].dev, uart[RATIO].line)
      BY <1>1, <2>2
    <3>5. Started(dev, line)'
      BY <1>2, <3>3, <3>4 DEF Started, Loads, Shifts, Has, OnLine
    <3> HIDE DEF device_req
    <3> QED
      BY <1>5, <3>3, <3>5 DEF Sends
  <2>4. CASE state' = "IDLE" /\ dn_done(oresp)
    <3>1. ready
      BY <2>4, BoardAnswers DEF dn_done
    <3>2. tx_ready(uart[RATIO - 1].dev)
      BY <2>1, <3>1 DEF ready
    <3>3. Started(uart[RATIO - 1].dev, uart[RATIO - 1].line)
      BY <1>1, <2>2
    <3> HIDE DEF uart, device_req
    <3>4. uart[RATIO - 1].dev.txState = "RDY" /\ ~uart[RATIO - 1].dev.putchar
      BY <3>2, <3>3 DEF tx_ready, Started, Loads, Shifts, Has
    <3>5. uart[RATIO].dev.txState = "RDY"
      <4> DEFINE d == uart[RATIO - 1].dev
      <4>1. uart[RATIO].dev = DeviceStep(d, device_req)
        BY <1>1, UartStep
      <4>2. d.txState = "RDY" /\ ~d.putchar
        BY <3>4
      <4> HIDE DEF d
      <4>3. uart[RATIO].dev.txState = NextState(d, device_req)
        BY <4>1 DEF DeviceStep
      <4> QED
        BY <4>2, <4>3 DEF NextState
    <3>6. ~device_req.tx'
      <4>1. ~valid'
        BY <2>4 DEF valid, dn_req, Walking
      <4> QED
        BY <4>1 DEF device_req
    <3> QED
      BY <1>2, <2>4, <3>5, <3>6
  <2>5. UNCHANGED <<state, req_q, phys_addr_q>> \/ (state' = "IDLE" /\ dn_done(oresp))
    <3> HIDE DEF oresp
    <3> QED
      BY <1>3, <2>1, Asks
  <2> QED
    BY <2>3, <2>4, <2>5
<1>6. CASE ~device_req.tx
  <2>1. dev.txState = "RDY" /\ (valid => Fresh(dev, line))
    <3>1. valid => state # "IDLE"
      BY DEF valid, dn_req, Walking
    <3> HIDE DEF device_req
    <3> QED
      BY <1>4, <1>6, <3>1 DEF DevInv
  <2>2. Fresh(uart[RATIO].dev, uart[RATIO].line)
    <3> HIDE DEF uart, device_req, valid
    <3> QED
      BY <1>1, <1>4, <1>6, <2>1, Rests
  <2>3. Fresh(dev, line)'
    BY <1>2, <2>2 DEF Fresh
  <2>4. dev'.txState = "RDY"
    BY <2>3 DEF Fresh
  <2> HIDE DEF device_req
  <2> QED
    BY <2>3, <2>4 DEF Sends
<1> QED
  BY <1>5, <1>6

\* The copy is that of ex_mem, and what it asks for is not a byte once the program is over.
LEMMA FinishKeeps ==
    ASSUME BoardInv, BoardNext
    PROVE  FinishInv' /\ PendInv' /\ PhysInv'
<1> USE DEF BoardInv
<1>1. RATIO \in 1 .. RATIO
  BY BoardAssumption
<1>2. dev' = uart[RATIO].dev /\ (state' = "FINAL_REQ" => Phys(phys_addr_q') = Phys(req_q.addr))
  BY BoardClock
<1>3. PICK dn_data, satp, ctl :
        /\ PathStep(ctl, satp, oresp, dn_data)
        /\ uart[RATIO].dev.finish /\ ~mem_wait(ex_mem, dresp(oresp, dn_data)) => ~IsTx(ex_mem')
  BY BoardClock
<1> DEFINE dr == dresp(oresp, dn_data)
<1>4. /\ MemCycle(FALSE, ex_mem, dr, ctl.current_priv)
      /\ mem_wait(ex_mem, dr) => UNCHANGED ex_mem
  BY <1>3 DEF PathStep, PathCycle
<1>5. uart[RATIO].dev.finish /\ ~mem_wait(ex_mem, dr) => ~IsTx(ex_mem')
  BY <1>3
<1>6. PhysInv'
  <2> HIDE DEF oresp, uart
  <2>1. state' = "FINAL_REQ" => req_q' = req_q
    BY <1>3, Asks
  <2> QED
    BY <1>2, <2>1 DEF PhysInv
<1> HIDE DEF dr, uart
<1>7. PendInv'
  BY <1>4, PendKeeps
<1>8. FinishInv'
  <2> SUFFICES ASSUME dev'.finish, mem_wait(ex_mem, dr) PROVE ~IsTx(ex_mem)'
    BY <1>2, <1>5 DEF FinishInv, IsTx
  <2>1. dev.finish \/ device_req.fin
    <3> HIDE DEF device_req
    <3> QED
      BY <1>1, <1>2, Finishes
  <2>2. ~IsTx(ex_mem)
    <3>1. CASE dev.finish
      BY <3>1 DEF FinishInv
    <3>2. CASE device_req.fin
      <4>1. valid /\ is_store /\ addr = FINISH_ADDR
        BY <3>2 DEF device_req
      <4>2. addr = Phys(AddrOf(ex_mem.mem_addr))
        BY <4>1, TheStore
      <4> HIDE DEF addr
      <4> QED
        BY <4>1, <4>2, BoardAssumption DEF IsTx
    <3> QED
      BY <2>1, <3>1, <3>2
  <2> QED
    BY <1>4, <2>2 DEF IsTx
<1> QED
  BY <1>6, <1>7, <1>8

\* A step of the board keeps the invariant.
LEMMA BoardInvNext == BoardInv /\ [BoardNext]_boardVars => BoardInv'
<1> SUFFICES ASSUME BoardInv, [BoardNext]_boardVars PROVE BoardInv'
  OBVIOUS
<1>1. BramFlags' /\ PathInv'
  BY BoardPath DEF BoardInv
<1>2. CASE BoardNext
  BY <1>1, <1>2, DevKeeps, FinishKeeps DEF BoardInv
<1>3. CASE UNCHANGED boardVars
  <2>1. UNCHANGED <<ex_mem, pending, pend, dev, line>>
    BY <1>3 DEF boardVars, clientVars, pathVars, memVars
  <2>2. UNCHANGED <<state, req_q, phys_addr_q, pte_addr_q>>
    BY <1>3 DEF boardVars, clientVars, pathVars, mmuVars
  <2>3. PendInv' /\ PhysInv' /\ FinishInv'
    BY <2>1, <2>2 DEF BoardInv, PendInv, PhysInv, FinishInv, IsTx, IsMem, addr_aligned
  <2>4. UNCHANGED dn_req
    BY <2>2 DEF dn_req
  <2>5. UNCHANGED <<valid, addr>>
    BY <2>4 DEF valid, addr
  <2>6. UNCHANGED device_req /\ UNCHANGED Sent
    BY <2>4, <2>5 DEF device_req, is_store, to_ram, Sent
  <2>7. DevInv'
    BY <2>1, <2>2, <2>6 DEF BoardInv, DevInv, Sends, Fresh, Started, Loads, Shifts, Has, OnLine
  <2> QED
    BY <1>1, <2>3, <2>7 DEF BoardInv
<1> QED
  BY <1>2, <1>3

\* A store to TX_DATA is answered when its byte, and nothing else, has been on the
\* line as one frame, whatever the length of a frame and the ratio of the clocks.
THEOREM BoardOneByteEach == BoardSafety => []OneByteEach
<1>1. BoardInv => OneByteEach
  <2> SUFFICES ASSUME BoardInv, device_req.tx, Ends
               PROVE  uart[RATIO - 1].line = Frame(<<"cpu", dn_req.data>>)
    BY DEF OneByteEach
  <2> USE DEF BoardInv
  <2>1. valid /\ is_store /\ ~to_ram /\ addr = TX_DATA
    BY TxRequest
  <2>2. IsTx(ex_mem)
    BY <2>1, TheStore DEF IsTx
  <2>3. Sends(dev, line)
    BY <2>2 DEF FinishInv, DevInv
  <2>4. RATIO - 1 \in 1 .. RATIO
    BY BoardAssumption
  <2>5. Started(uart[RATIO - 1].dev, uart[RATIO - 1].line)
    <3> HIDE DEF device_req, uart
    <3> QED
      BY <2>3, <2>4, Sending
  <2>6. tx_ready(uart[RATIO - 1].dev)
    <3>1. ready
      BY BoardAnswers DEF Ends, dn_done
    <3> QED
      BY <2>1, <3>1 DEF ready
  <2> HIDE DEF uart
  <2>7. OnLine(uart[RATIO - 1].line, BIT_INDEX_MAX * Period)
    BY <2>5, <2>6 DEF Started, Loads, Shifts, Has, tx_ready
  <2> QED
    BY <2>7 DEF OnLine, Period, Sent, Frame
<1> QED
  BY <1>1, BoardInvInit, BoardInvNext, PTL DEF BoardSafety
=============================================================================
