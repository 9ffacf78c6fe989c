---------------------------- MODULE SimTopProofs ----------------------------
(***************************************************************************)
(* The core against the machine it stands for, for every program, page     *)
(* table and timing of memory, multiplier and timer.  The proof is built   *)
(* in layers, each inductive on the ones before it:                        *)
(*                                                                         *)
(*   Spacing     how far apart fetch keeps the instructions                *)
(*   Path        who is served by the arbiter and the MMU, and with what   *)
(*   Walks       the walk under way is that of the page table              *)
(*   Program     the cells of memory that are decided stay as they are     *)
(*   Types       every value fits its register (on top of facts about the  *)
(*               bytes of a word: what a load cuts out, what a store puts  *)
(*               on its lanes)                                             *)
(*   Front       the privilege an instruction is fetched with              *)
(*   Ages        which of two instructions in flight is the older          *)
(*   FetchRight  what fetch holds is the word at its address               *)
(*   Follows     the pipeline is the reference machine, some steps ahead   *)
(*                                                                         *)
(* The first layers need no hypothesis.  Front needs UserFetches, and      *)
(* FetchRight and Follows need Ordinary: what the core does in U mode when *)
(* a fetch fails or the timer fires differs from the machine it stands     *)
(* for.                                                                    *)
(***************************************************************************)
EXTENDS SimTop, NatLemmas, TLAPS

USE DEF DPORT, IPORT

\* One cycle, with what memory answers and what it brings from outside.
Clock(dn_resp, data, io) ==
    /\ dn_resp \in {NoResp, OK} /\ data \in ReadData(dn_resp)
    /\ io.dr = dresp(dn_resp, data)
    /\ PathCycle(ctl(io), wb_is_trap, ex_mem, csr.satp, dn_resp, data)
    /\ CoreCycle(io)
    /\ RamCycle(dn_resp, data)
    /\ ReferenceCycle(io)

\* Every step is a cycle: memory answers or not, and the outside comes with
\* what Clock names.
LEMMA NextClock == Next => \E dn_resp, data, io : Clock(dn_resp, data, io)
<1> SUFFICES ASSUME Next PROVE \E dn_resp, data, io : Clock(dn_resp, data, io)
  OBVIOUS
<1>1. \A dn_resp, md : dn_resp \in {NoResp, OK} /\ Cycle(dn_resp, md) =>
                           \E data, io : Clock(dn_resp, data, io)
  BY DEF Cycle, Clock
<1>2. /\ NoResp \in {NoResp, OK} /\ OK \in {NoResp, OK}
      /\ (IF Asked THEN OK ELSE NoResp) \in {NoResp, OK}
  OBVIOUS
<1>3. CASE Quiet
  BY <1>1, <1>2, <1>3 DEF Quiet
<1>4. CASE Answers
  BY <1>1, <1>2, <1>4 DEF Answers
<1>5. CASE Reads
  BY <1>1, <1>2, <1>5 DEF Reads
<1>6. CASE Mults
  BY <1>1, <1>2, <1>6 DEF Mults
<1> QED
  BY <1>3, <1>4, <1>5, <1>6 DEF Next

-----------------------------------------------------------------------------
(* How far apart fetch keeps the instructions.  It asks only when its slot *)
(* is empty, and the slot is emptied into if_id: an instruction is decoded *)
(* before the next request goes out and executed before its answer can     *)
(* come.  Only a multiplication stays in EX long enough to be overtaken    *)
(* there, and what is fetched meanwhile waits in the slot.                 *)

\* The registers fetch and if_id keep their fields.
Shape == /\ DOMAIN fetch = {"pc_q", "req_pc_q", "data_pc_q", "req_priv_q", "req_pending_q",
                            "data_valid_q", "drop_resp_q", "data_ok_prev_q", "instr_q",
                            "fault_q"}
         /\ DOMAIN if_id = {"valid", "pc", "instr"}

FetchSlot == ~(fetch.req_pending_q /\ fetch.data_valid_q)

\* The memory stage holds a copy of ex_mem, which waits for it.
StageCopy == pending => pend = ex_mem /\ IsMem(ex_mem) /\ addr_aligned(ex_mem)

InDecode  == if_id.valid => /\ id_ex = NoOp /\ ~IsMem(ex_mem)
                            /\ ~fetch.req_pending_q /\ ~fetch.data_valid_q

InExecute == id_ex # NoOp => /\ ex_mem = NoOp /\ ~if_id.valid
                             /\ if_id.pc = id_ex.pc
                             /\ ~is_muldiv(id_ex.instr) => ~fetch.data_valid_q

InWriteback == mem_wb # NoOp => ex_mem = NoOp

Spacing == Shape /\ FetchSlot /\ StageCopy /\ InDecode /\ InExecute /\ InWriteback

\* At reset the pipeline and fetch are empty.
LEMMA InitSpacing == Init => Spacing
BY DEF Init, CoreInit, PathInit, FetchInit, MemInit, Spacing, Shape, FetchSlot, StageCopy,
       InDecode, InExecute, InWriteback

\* The copy in the memory stage is made of an instruction that waits, and goes
\* with it.
LEMMA StageCopyStep ==
    ASSUME Spacing, NEW io, CoreCycle(io),
           MemCycle(wb_is_trap, ex_mem, io.dr, ctl(io).current_priv)
    PROVE  StageCopy'
<1>1. CASE wb_is_trap
  BY <1>1 DEF MemCycle, MemFlush, StageCopy
<1>2. CASE ~wb_is_trap /\ waits(io)
  <2>1. UNCHANGED ex_mem
    BY <1>2 DEF CoreCycle, Halt, Wait, Advance
  <2> QED
    BY <1>2, <2>1 DEF MemCycle, MemCapture, MemRelease, MemKeep, captures, Spacing,
                      StageCopy, IsMem, addr_aligned
<1>3. CASE ~wb_is_trap /\ ~waits(io)
  <2>1. ~captures(ex_mem, io.dr)
    BY <1>3 DEF waits, mem_wait, captures, cur_done, cur_is_mem, cur, addr_misaligned
  <2>2. pending => releases(ex_mem, io.dr)
    BY <1>3 DEF waits, mem_wait, releases, cur_done, cur_is_mem, cur, addr_misaligned,
                Spacing, StageCopy
  <2> QED
    BY <1>3, <2>1, <2>2 DEF MemCycle, MemCapture, MemRelease, MemKeep, StageCopy
<1> QED
  BY <1>1, <1>2, <1>3

\* What one cycle makes of fetch's two slots.
LEMMA FetchSlots ==
    ASSUME Shape, FetchSlot, NEW c, NEW resp, FetchCycle(c, resp)
    PROVE  /\ FetchSlot' /\ DOMAIN fetch' = DOMAIN fetch
           /\ ~fetch.req_pending_q /\ ~fetch.data_valid_q => ~fetch'.data_valid_q
           /\ /\ c.fetch_accept /\ fetch.data_valid_q
              /\ ~c.redirect_valid /\ ~c.flush
              => ~fetch'.req_pending_q /\ ~fetch'.data_valid_q
<1> DEFINE f == Latch(fetch, resp)
<1>1. /\ DOMAIN f = DOMAIN fetch
      /\ f.req_pending_q = fetch.req_pending_q /\ f.data_valid_q = fetch.data_valid_q
  BY DEF Latch, Shape
<1>2. CASE FetchRedirect(c, resp)
  BY <1>1, <1>2 DEF FetchRedirect, Shape, FetchSlot
<1>3. CASE FetchAdvance(c, resp)
  BY <1>1, <1>3 DEF FetchAdvance, Respond, Start, Accepted, response_fire, start_request,
                    Shape, FetchSlot
<1> QED
  BY <1>2, <1>3 DEF FetchCycle

\* An instruction is decoded into an empty EX, and executed before the next one is
\* fetched.
LEMMA StagesStep ==
    ASSUME Spacing, NEW io, CoreCycle(io), NEW resp, FetchCycle(ctl(io), resp)
    PROVE  Shape' /\ FetchSlot' /\ InDecode' /\ InExecute' /\ InWriteback'
<1> USE DEF Spacing, Shape, InDecode, InExecute, InWriteback
<1>1. /\ FetchSlot' /\ DOMAIN fetch' = DOMAIN fetch
      /\ ~fetch.req_pending_q /\ ~fetch.data_valid_q => ~fetch'.data_valid_q
      /\ fetch_accept(io) => ~fetch'.req_pending_q /\ ~fetch'.data_valid_q
                             /\ fetch.data_valid_q
  <2>1. /\ ctl(io).fetch_accept = fetch_accept(io)
        /\ ctl(io).redirect_valid = fetch_redirect_valid(io)
        /\ ctl(io).flush = ifetch_trap_flush
    BY DEF ctl
  <2> QED
    BY <2>1, FetchSlots DEF fetch_accept, fetch_valid
<1>2. CASE Halt
  BY <1>1, <1>2 DEF Halt, Bubble
<1>3. CASE Wait(io)
  <2>1. IsMem(ex_mem)
    BY <1>3 DEF Wait, waits, mem_wait, cur_is_mem, cur, StageCopy
  <2> QED
    BY <1>1, <1>3, <2>1 DEF Wait, IsMem
<1>4. CASE Advance(io)
  <2>1. ex_mem' # NoOp => id_ex # NoOp /\ ex_passes /\ ex_mem' = Executed(io)
    BY <1>4 DEF Advance, ex_passes
  <2>2. is_muldiv(id_ex.instr) => ~IsMem(Executed(io))
    BY DEF Executed, IsMem, is_load, is_store, is_muldiv
  <2>3. ~load_use_hazard
    BY DEF load_use_hazard, IsMem
  <2>4. fetch_accept(io) => ~if_id.valid /\ ~muldiv_stall
    BY DEF fetch_accept, fetch_valid
  <2>5. \/ id_ex' = NoOp /\ if_id' = Bubble
        \/ if_id.valid /\ id_ex' = Decoded(io) /\ if_id' = Bubble
        \/ muldiv_stall /\ UNCHANGED <<id_ex, if_id>>
        \/ fetch_accept(io) /\ id_ex' = NoOp
           /\ if_id' = [valid |-> TRUE, pc |-> fetch_pc, instr |-> fetch_instr]
    BY <1>4, <2>3, <2>4 DEF Advance, decode_pred_redirect
  <2>6. /\ DOMAIN Bubble = DOMAIN if_id /\ ~Bubble.valid /\ Bubble.pc = if_id.pc
        /\ Decoded(io).pc = if_id.pc
    BY DEF Bubble, Decoded
  <2>7. muldiv_stall => ~ex_passes /\ is_muldiv(id_ex.instr) /\ id_ex # NoOp
    BY DEF muldiv_stall, ex_passes
  <2>8. ex_mem' # NoOp => (fetch_accept(io) => ~IsMem(ex_mem'))
    BY <2>1, <2>2 DEF fetch_accept, fetch_valid
  <2>9. ex_mem' # NoOp => mem_wb' = NoOp
    BY <1>4, <2>1 DEF Advance, out_valid, cur, IsMem, StageCopy
  <2> QED
    BY <1>1, <2>1, <2>4, <2>5, <2>6, <2>7, <2>8, <2>9 DEF IsMem
<1> QED
  BY <1>2, <1>3, <1>4 DEF CoreCycle

\* A cycle keeps the instructions as far apart as fetch puts them.
LEMMA NextSpacing == Spacing /\ [Next]_vars => Spacing'
<1> SUFFICES ASSUME Spacing, [Next]_vars PROVE Spacing'
  OBVIOUS
<1>1. CASE Next
  <2>1. PICK dn_resp, data, io : Clock(dn_resp, data, io)
    BY <1>1, NextClock
  <2>2. /\ FetchCycle(ctl(io), iresp(dn_resp, data))
        /\ MemCycle(wb_is_trap, ex_mem, io.dr, ctl(io).current_priv)
    BY <2>1 DEF Clock, PathCycle
  <2> QED
    BY <2>1, <2>2, StageCopyStep, StagesStep DEF Clock, Spacing
<1>2. CASE UNCHANGED vars
  BY <1>2 DEF vars, coreVars, pathVars, memVars, Spacing, Shape, FetchSlot, StageCopy,
              InDecode, InExecute, InWriteback
<1> QED
  BY <1>1, <1>2

\* The spacing holds throughout: it needs no hypothesis on the program.
LEMMA SafetySpacing == Safety => []Spacing
BY InitSpacing, NextSpacing, PTL DEF Safety

\* EX and MEM never hold instructions at the same time, so that what
\* suppress_wrong_path_wb would take from the one in MEM is never there.
THEOREM CoreNeverSuppressed == Safety => []NeverSuppressed
<1>1. Spacing => NeverSuppressed
  BY DEF Spacing, InExecute, NeverSuppressed
<1> QED
  BY <1>1, SafetySpacing, PTL

\* The branch predictor trains the counter it has just read.
THEOREM CoreTrainsItsOwn == Safety => []TrainsItsOwn
<1>1. Spacing => TrainsItsOwn
  BY DEF Spacing, InExecute, TrainsItsOwn, bht_train_valid
<1> QED
  BY <1>1, SafetySpacing, PTL

-----------------------------------------------------------------------------
(* The memory path under the core: who is being served, and with what.     *)

IServed == busy /\ index = IPORT
DServed == busy /\ index = DPORT

\* The arbiter and the MMU are busy together.
Lockstep == /\ busy \in BOOLEAN /\ index \in {DPORT, IPORT} /\ grant_ptr \in {DPORT, IPORT}
            /\ busy <=> state # "IDLE"

\* The port that is served still asks for what the MMU works on.
FetchServed == IServed => /\ fetch.req_pending_q
                          /\ req_q = icreq /\ priv_mode_q = fetch.req_priv_q
StageServed == DServed => /\ pending
                          /\ req_q = dcreq(ex_mem) /\ priv_mode_q = mem_priv_q

\* What is dropped is out, and an answer finds the stage ready for it.
Tidy == /\ fetch.drop_resp_q => fetch.req_pending_q
        /\ mem_ok_prev_q => ~busy

Path == Lockstep /\ FetchServed /\ StageServed /\ Tidy

\* At reset nobody asks anything of memory.
LEMMA InitPath == Init => Path
<1> SUFFICES ASSUME Init PROVE Path
  OBVIOUS
<1>1. ~busy /\ busy \in BOOLEAN /\ index = 0 /\ grant_ptr = 0 /\ state = "IDLE"
  BY DEF Init, CoreInit, PathInit, Arb!ArbInit, MMUInit
<1>2. ~fetch.drop_resp_q
  BY DEF Init, CoreInit, PathInit, FetchInit
<1> QED
  BY <1>1, <1>2 DEF Path, Lockstep, FetchServed, StageServed, IServed, DServed, Tidy

\* The arbiter's search ends at one of its two ports.
LEMMA SelectsPort ==
    ASSUME Lockstep, NEW reqs
    PROVE  Arb!Select(reqs) \in {DPORT, IPORT}
<1> DEFINE Asking == {i \in {0, 1} : Arb!Valid(reqs[i])}
<1>1. Arb!Inputs = {0, 1}
  BY DEF Arb!Inputs
<1>2. CASE Asking = {}
  BY <1>1, <1>2 DEF Arb!Select, Lockstep
<1>3. CASE Asking # {}
  <2>1. \E i \in Asking : \A k \in Asking : Arb!Dist(grant_ptr, i) <= Arb!Dist(grant_ptr, k)
    BY <1>3 DEF Arb!Dist, Lockstep
  <2> QED
    BY <1>1, <1>3, <2>1 DEF Arb!Select
<1> QED
  BY <1>2, <1>3

\* A port sees the answer when it is the one granted, and nothing otherwise; the
\* MMU answers when memory does and when a walk has failed.
LEMMA PortResponse ==
    ASSUME NEW dn_resp \in {NoResp, OK}, NEW data
    PROVE  LET ended == state = "FAULT" \/ Answering(dn_resp)
           IN  /\ iresp(dn_resp, data).data_ok <=> IServed /\ ended
               /\ dresp(dn_resp, data).data_ok <=> DServed /\ ended
               /\ iresp(dn_resp, data).fault <=> IServed /\ state = "FAULT"
               /\ dresp(dn_resp, data).fault <=> DServed /\ state = "FAULT"
               /\ iresp(dn_resp, data).data = data /\ dresp(dn_resp, data).data = data
               /\ Okay(up_resp(dn_resp)) <=> ended
<1> DEFINE resp == up_resp(dn_resp)
<1>1. /\ Okay(resp) <=> state = "FAULT" \/ Answering(dn_resp)
      /\ resp.fault <=> state = "FAULT"
  BY DEF up_resp, Okay, NoResp, OK, dn_done, Answering
<1>2. Arb!Inputs = {0, 1}
  BY DEF Arb!Inputs
<1>3. /\ Arb!iresps(resp)[IPORT] = IF busy /\ index = IPORT THEN resp ELSE NoResp
      /\ Arb!iresps(resp)[DPORT] = IF busy /\ index = DPORT THEN resp ELSE NoResp
  BY <1>2 DEF Arb!iresps, Arb!NoResp, NoResp
<1>4. ~Okay(NoResp) /\ ~NoResp.fault
  BY DEF Okay, NoResp
<1> QED
  BY <1>1, <1>3, <1>4 DEF iresp, dresp, BusResp, IServed, DServed

\* What a cycle does to the request in service.
LEMMA BusCycle ==
    ASSUME Lockstep, NEW dn_resp, NEW data, NEW io, Clock(dn_resp, data, io)
    PROVE  LET ended == state = "FAULT" \/ Answering(dn_resp)
               port  == Arb!Select(creqs(ex_mem))
           IN  /\ Lockstep'
               /\ ~busy /\ busy' => /\ index' = port /\ req_q' = creqs(ex_mem)[port]
                                    /\ req_q' # NoRequest
                                    /\ priv_mode_q' = cprivs(mmu_priv)[port]
                                    /\ satp_q' = csr.satp /\ state' = "CHECK"
               /\ busy /\ busy' => /\ ~ended /\ state' # "CHECK"
                                   /\ UNCHANGED <<index, req_q, priv_mode_q, satp_q>>
               /\ busy /\ ~busy' => ended
<1> DEFINE resp == up_resp(dn_resp)
           s    == Arb!Select(creqs(ex_mem))
           req  == Arb!oreq(creqs(ex_mem))
           priv == Arb!opriv(creqs(ex_mem), cprivs(mmu_priv))
<1>1. /\ Arb!ArbCycle(creqs(ex_mem), cprivs(mmu_priv), resp)
      /\ MMUCycle(req, priv, csr.satp, dn_resp, data)
  BY DEF Clock, PathCycle, ctl
<1>2. s \in {DPORT, IPORT}
  BY SelectsPort
<1>3. Arb!Okay(resp) <=> Okay(resp)
  BY DEF Arb!Okay, Okay
<1>4. Okay(resp) <=> state = "FAULT" \/ Answering(dn_resp)
  BY PortResponse DEF Clock
<1> USE DEF Lockstep, Arb!Valid
<1>5. CASE ~busy
  <2>1. state = "IDLE" /\ req = creqs(ex_mem)[s] /\ priv = cprivs(mmu_priv)[s]
    BY <1>5 DEF Arb!oreq, Arb!opriv
  <2>2. \/ req = NoRequest /\ MMUWait
        \/ req # NoRequest /\ Accept(req, priv, csr.satp)
    BY <1>1, <2>1 DEF MMUCycle, Check, WalkL2, WalkL1, WalkL0, WalkUp, AwaitMemory,
                      Walking, Answer, Fault
  <2>3. \/ Arb!Grant(creqs(ex_mem), cprivs(mmu_priv))
        \/ Arb!Idle(creqs(ex_mem), cprivs(mmu_priv))
    BY <1>1, <1>5 DEF Arb!ArbCycle, Arb!Hold, Arb!Release
  <2>4. CASE Arb!Grant(creqs(ex_mem), cprivs(mmu_priv))
    <3>1. /\ busy' = TRUE /\ index' = s /\ grant_ptr' = grant_ptr
          /\ creqs(ex_mem)[s] # NoRequest
      BY <2>4 DEF Arb!Grant
    <3>2. /\ req_q' = creqs(ex_mem)[s] /\ priv_mode_q' = cprivs(mmu_priv)[s]
          /\ satp_q' = csr.satp /\ state' = "CHECK"
      BY <2>1, <2>2, <3>1 DEF Accept
    <3> QED
      BY <1>2, <1>5, <3>1, <3>2
  <2>5. CASE Arb!Idle(creqs(ex_mem), cprivs(mmu_priv))
    <3>1. /\ busy' = busy /\ index' = s /\ grant_ptr' = grant_ptr
          /\ creqs(ex_mem)[s] = NoRequest
      BY <2>5 DEF Arb!Idle
    <3>2. state' = "IDLE"
      BY <2>1, <2>2, <3>1 DEF MMUWait
    <3> QED
      BY <1>2, <1>5, <3>1, <3>2
  <2> QED
    BY <2>3, <2>4, <2>5
<1>6. CASE busy /\ ~Okay(resp)
  <2>1. UNCHANGED <<busy, index, grant_ptr>>
    BY <1>1, <1>3, <1>6 DEF Arb!ArbCycle, Arb!Grant, Arb!Idle, Arb!Hold, Arb!Release, Arb!arbVars
  <2>2. UNCHANGED <<req_q, priv_mode_q, satp_q>> /\ state' # "IDLE" /\ state' # "CHECK"
    BY <1>1, <1>4, <1>6 DEF MMUCycle, MMUWait, Accept, Check, WalkL2, WalkL1, WalkL0,
                            WalkUp, AwaitMemory, Walking, Answer, Fault, Answering
  <2> QED
    BY <1>4, <1>6, <2>1, <2>2
<1>7. CASE busy /\ Okay(resp)
  <2>1. ~busy' /\ busy' \in BOOLEAN /\ index' = index /\ grant_ptr' = Arb!NextPtr(index)
    BY <1>1, <1>3, <1>7 DEF Arb!ArbCycle, Arb!Grant, Arb!Idle, Arb!Hold, Arb!Release
  <2>2. state' = "IDLE"
    BY <1>1, <1>4, <1>7 DEF MMUCycle, MMUWait, Accept, Check, WalkL2, WalkL1, WalkL0,
                            WalkUp, AwaitMemory, Walking, Answer, Fault, Finish, Answering
  <2> QED
    BY <1>4, <1>7, <2>1, <2>2 DEF Arb!NextPtr, Arb!MAX_INDEX
<1> QED
  BY <1>5, <1>6, <1>7

\* What one cycle does to the registers of fetch, cause by cause.
LEMMA FetchMoves ==
    ASSUME Shape, FetchSlot, NEW c, NEW resp, FetchCycle(c, resp)
    PROVE  LET kick    == c.redirect_valid \/ c.flush
               fire    == response_fire(resp)
               start   == start_request(c)
               accept  == c.fetch_accept /\ fetch.data_valid_q
           IN  /\ fetch'.fault_q <=> ~kick /\ fire /\ ~fetch.drop_resp_q /\ resp.fault
               /\ fetch'.data_valid_q <=>
                     /\ ~kick
                     /\ \/ fire /\ ~fetch.drop_resp_q /\ ~resp.fault
                        \/ ~fire /\ fetch.data_valid_q /\ ~accept
               /\ fetch'.req_pending_q <=> \/ fetch.req_pending_q /\ ~fire
                                           \/ ~kick /\ ~fire /\ start
               /\ fetch'.drop_resp_q <=> \/ ~fire /\ fetch.drop_resp_q
                                         \/ kick /\ ~fire /\ fetch.req_pending_q
               /\ fetch'.pc_q = IF kick THEN c.redirect_pc
                                ELSE IF accept THEN fetch.data_pc_q + 4 ELSE fetch.pc_q
               /\ fetch'.req_pc_q = IF ~kick /\ ~fire /\ start THEN fetch.pc_q ELSE fetch.req_pc_q
               /\ fetch'.req_priv_q = IF ~kick /\ ~fire /\ start THEN c.current_priv
                                      ELSE fetch.req_priv_q
               /\ IF ~kick /\ fire /\ ~fetch.drop_resp_q /\ ~resp.fault
                  THEN fetch'.data_pc_q = fetch.req_pc_q /\ fetch'.instr_q = resp.data
                  ELSE UNCHANGED <<fetch.data_pc_q, fetch.instr_q>>
<1> DEFINE kick    == c.redirect_valid \/ c.flush
           fire    == response_fire(resp)
           start   == start_request(c)
           accept  == c.fetch_accept /\ fetch.data_valid_q
           f       == Latch(fetch, resp)
<1>1. /\ DOMAIN f = DOMAIN fetch
      /\ f.req_pending_q = fetch.req_pending_q /\ f.data_valid_q = fetch.data_valid_q
      /\ f.drop_resp_q = fetch.drop_resp_q /\ f.pc_q = fetch.pc_q
      /\ f.req_pc_q = fetch.req_pc_q /\ f.req_priv_q = fetch.req_priv_q
      /\ f.data_pc_q = fetch.data_pc_q /\ f.instr_q = fetch.instr_q
      /\ f.fault_q = FALSE
  BY DEF Latch, Shape
<1>2. /\ fire => fetch.req_pending_q /\ ~fetch.data_valid_q
      /\ start => ~kick /\ ~fetch.req_pending_q /\ ~fetch.data_valid_q
  BY DEF FetchSlot, response_fire, start_request
<1> HIDE DEF f
<1>3. CASE kick
  <2>1. fetch' = [f EXCEPT !.pc_q = c.redirect_pc, !.data_valid_q = FALSE,
                           !.req_pending_q = @ /\ ~fire,
                           !.drop_resp_q = IF fire THEN FALSE ELSE @ \/ fetch.req_pending_q]
    BY <1>3 DEF FetchCycle, FetchRedirect, FetchAdvance, f
  <2> QED
    BY <1>1, <1>2, <1>3, <2>1 DEF Shape
<1>4. CASE ~kick /\ fire
  <2>1. fetch' = Respond(f, resp)
    BY <1>2, <1>4 DEF FetchCycle, FetchRedirect, FetchAdvance, f
  <2> QED
    BY <1>1, <1>2, <1>4, <2>1 DEF Shape, Respond
<1>5. CASE ~kick /\ ~fire /\ start
  <2>1. fetch' = Start(f, c.current_priv)
    BY <1>2, <1>5 DEF FetchCycle, FetchRedirect, FetchAdvance, f
  <2> QED
    BY <1>1, <1>2, <1>5, <2>1 DEF Shape, Start
<1>6. CASE ~kick /\ ~fire /\ ~start
  <2>1. fetch' = IF accept THEN Accepted(f) ELSE f
    BY <1>6 DEF FetchCycle, FetchRedirect, FetchAdvance, f
  <2> QED
    BY <1>1, <1>6, <2>1 DEF Shape, Accepted
<1> QED
  BY <1>3, <1>4, <1>5, <1>6

\* A request of fetch stays as it is until it is answered.
LEMMA FetchServedStep ==
    ASSUME Spacing, Path, NEW dn_resp, NEW data, NEW io, Clock(dn_resp, data, io)
    PROVE  FetchServed'
<1> DEFINE ir == iresp(dn_resp, data)
<1> SUFFICES ASSUME IServed' PROVE FetchServed'
  BY DEF FetchServed
<1>1. FetchCycle(ctl(io), ir) /\ dn_resp \in {NoResp, OK}
  BY DEF Clock, PathCycle
<1>2. ~(ir.data_ok /\ busy /\ busy')
  BY <1>1, PortResponse, BusCycle DEF Path
<1>3. CASE IServed
  <2>1. /\ fetch.req_pending_q /\ ~response_fire(ir) /\ ~start_request(ctl(io))
        /\ req_q = icreq /\ priv_mode_q = fetch.req_priv_q
    BY <1>2, <1>3 DEF Path, FetchServed, IServed, response_fire, start_request
  <2>2. /\ fetch'.req_pending_q /\ fetch'.req_pc_q = fetch.req_pc_q
        /\ fetch'.req_priv_q = fetch.req_priv_q
    BY <1>1, <2>1, FetchMoves DEF Spacing
  <2>3. UNCHANGED <<req_q, priv_mode_q>>
    BY <1>3, BusCycle DEF IServed, Path
  <2> QED
    BY <2>1, <2>2, <2>3 DEF FetchServed, icreq
<1>4. CASE ~IServed
  <2>1. ~busy /\ busy' /\ index' = IPORT
    BY <1>4, BusCycle DEF IServed, Path
  <2>2. /\ req_q' = creqs(ex_mem)[IPORT] /\ req_q' # NoRequest
        /\ priv_mode_q' = cprivs(mmu_priv)[IPORT]
    BY <2>1, BusCycle DEF Path
  <2>3. req_q' = icreq /\ priv_mode_q' = fetch.req_priv_q /\ fetch.req_pending_q
    BY <2>2 DEF creqs, cprivs, icreq
  <2>4. ~response_fire(ir) /\ ~start_request(ctl(io))
    BY <1>1, <1>4, <2>3, PortResponse DEF response_fire, start_request
  <2>5. /\ fetch'.req_pending_q /\ fetch'.req_pc_q = fetch.req_pc_q
        /\ fetch'.req_priv_q = fetch.req_priv_q
    BY <1>1, <2>3, <2>4, FetchMoves DEF Spacing
  <2> QED
    BY <2>3, <2>5 DEF FetchServed, icreq
<1> QED
  BY <1>3, <1>4

\* An access of the memory stage stays as it is until it is answered: the copy in
\* the stage asks what ex_mem asked.
LEMMA StageServedStep ==
    ASSUME Spacing, Path, NEW dn_resp, NEW data, NEW io, Clock(dn_resp, data, io)
    PROVE  StageServed' /\ Tidy'
<1> DEFINE ir == iresp(dn_resp, data)
           dr == dresp(dn_resp, data)
<1>1. /\ FetchCycle(ctl(io), ir) /\ dn_resp \in {NoResp, OK}
      /\ MemCycle(wb_is_trap, ex_mem, dr, mmu_priv) /\ io.dr = dr /\ CoreCycle(io)
  BY DEF Clock, PathCycle, ctl
<1>2. ~(dr.data_ok /\ busy') /\ ~(dr.fault /\ busy')
  BY <1>1, PortResponse, BusCycle DEF Path, IServed, DServed
<1>3. StageServed'
  <2> SUFFICES ASSUME DServed' PROVE StageServed'
    BY DEF StageServed
  <2>1. /\ dreq_valid(ex_mem) /\ req_q' = dcreq(ex_mem)
        /\ priv_mode_q' = dreq_priv(mmu_priv)
    <3>1. CASE DServed
      <4>1. /\ pending /\ req_q = dcreq(ex_mem) /\ priv_mode_q = mem_priv_q
            /\ UNCHANGED <<req_q, priv_mode_q>>
        BY <3>1, BusCycle DEF Path, StageServed, DServed
      <4>2. dreq_valid(ex_mem)
        BY <4>1 DEF dreq_valid, cur_is_mem, addr_misaligned, cur, Spacing, StageCopy
      <4> QED
        BY <4>1, <4>2 DEF dreq_priv
    <3>2. CASE ~DServed
      <4>1. /\ req_q' = creqs(ex_mem)[DPORT] /\ req_q' # NoRequest
            /\ priv_mode_q' = cprivs(mmu_priv)[DPORT]
        BY <3>2, BusCycle DEF Path, DServed
      <4>2. req_q' = dcreq(ex_mem) /\ priv_mode_q' = dreq_priv(mmu_priv)
        BY <4>1 DEF creqs, cprivs
      <4> QED
        BY <4>1, <4>2 DEF dcreq
    <3> QED
      BY <3>1, <3>2
  <2>2. cur_is_mem(ex_mem) /\ ~resp_fire(ex_mem, dr) /\ ~dr.fault /\ ~addr_misaligned(ex_mem)
    BY <1>2, <2>1 DEF dreq_valid, resp_fire, DServed
  <2>3. mem_wait(ex_mem, dr)
    BY <2>2 DEF mem_wait, cur_done
  <2>4. CASE ~wb_is_trap
    <3>1. ex_mem' = ex_mem
      BY <1>1, <2>3, <2>4 DEF CoreCycle, Halt, Wait, Advance, waits
    <3>2. pending' /\ pend' = cur(ex_mem)
          /\ mem_priv_q' = dreq_priv(mmu_priv)
      BY <1>1, <2>2, <2>4 DEF MemCycle, MemCapture, MemRelease, MemKeep, captures, releases,
                        cur_is_mem, addr_misaligned, cur, dreq_priv
    <3>3. dcreq(ex_mem)' = dcreq(ex_mem)
      BY <3>1, <3>2 DEF dcreq, dreq_valid, cur_is_mem, addr_misaligned, cur, dreq_data
    <3> QED
      BY <2>1, <3>2, <3>3 DEF StageServed
  <2>5. CASE wb_is_trap
    BY <2>2, <2>5 DEF wb_is_trap, cur_is_mem, cur, IsMem, Spacing, StageCopy, InWriteback
  <2> QED
    BY <2>4, <2>5
<1>4. Tidy'
  <2>1. mem_ok_prev_q' => dr.data_ok
    BY <1>1 DEF MemCycle, MemFlush, MemCapture, MemRelease, MemKeep
  <2>2. fetch'.drop_resp_q => fetch'.req_pending_q
    BY <1>1, FetchMoves DEF Spacing, Path, Tidy
  <2> QED
    BY <1>2, <2>1, <2>2 DEF Tidy
<1> QED
  BY <1>3, <1>4

\* A cycle keeps the arbiter, the MMU and the two askers in agreement on who
\* is served.
LEMMA NextPath == Spacing /\ Path /\ [Next]_vars => Path'
<1> SUFFICES ASSUME Spacing, Path, [Next]_vars PROVE Path'
  OBVIOUS
<1>1. CASE Next
  <2>1. PICK dn_resp, data, io : Clock(dn_resp, data, io)
    BY <1>1, NextClock
  <2> QED
    BY <2>1, BusCycle, FetchServedStep, StageServedStep DEF Path
<1>2. CASE UNCHANGED vars
  BY <1>2 DEF vars, coreVars, pathVars, memVars, arbVars, mmuVars, Path, Lockstep,
              FetchServed, StageServed, IServed, DServed, Tidy, icreq, dcreq, dreq_valid,
              cur_is_mem, addr_misaligned, cur, dreq_data
<1> QED
  BY <1>1, <1>2

\* The agreement of the memory path holds throughout.
LEMMA SafetyPath == Safety => []Path
BY InitPath, NextPath, SafetySpacing, PTL DEF Safety

-----------------------------------------------------------------------------
(* The walker: what it issues and what it faults is what the page table    *)
(* says of the request it took, with the privilege and satp it took.       *)

Walk == INSTANCE MMUWalk WITH pt <- PTE,
            asked <- [req |-> req_q, priv |-> priv_mode_q, satp |-> satp_q],
            PageTables <- {PTE}, Satps <- {}

Translated == Walk!Translate(req_q, priv_mode_q, satp_q)

Walks == /\ req_q # NoRequest => req_q.kind \in Kind /\ req_q.addr # Walk!PageFault
         /\ state = "IDLE" => req_q = NoRequest
         /\ state # "IDLE" => req_q # NoRequest
         /\ state \in State
         /\ Walk!WalkInv
         /\ state = "FINAL_REQ" => phys_addr_q = Translated /\ Translated # Walk!PageFault
         /\ state = "FAULT" => Translated = Walk!PageFault

\* At reset no walk is under way.
LEMMA InitWalks == Init => Walks
BY DEF Init, CoreInit, PathInit, MMUInit, Walks, Walk!WalkInv, Walking, State, Walk!Walking

\* The request the MMU may take.
LEMMA RequestShape ==
    ASSUME Lockstep
    PROVE  LET req == creqs(ex_mem)[Arb!Select(creqs(ex_mem))]
           IN  req # NoRequest => req.kind \in Kind /\ req.addr # Walk!PageFault
<1> DEFINE s == Arb!Select(creqs(ex_mem))
<1>1. s \in {DPORT, IPORT}
  BY SelectsPort
<1>2. \A a : AddrOf(a) # Walk!PageFault
  <2> TAKE a
  <2>1. DOMAIN AddrOf(a) # DOMAIN Walk!PageFault
    BY DEF AddrOf, Walk!PageFault
  <2> QED
    BY <2>1
<1> HIDE DEF s
<1> QED
  BY <1>1, <1>2 DEF creqs, icreq, dcreq, Kind, s

\* The two ways to read the last entry of a walk agree.
LEMMA ReadingLeaf ==
    ASSUME NEW pte, NEW kind \in Kind, NEW priv
    PROVE  pte_is_leaf(pte) /\ pte_allow(pte, kind, priv) <=> Walk!Maps(pte, kind, priv)
BY DEF Kind, pte_is_leaf, pte_allow, Walk!Maps, PRV_U, Walk!PRV_U

\* A cycle goes on with the walk of the request in service, entry by entry of
\* the page table.
LEMMA WalksStep ==
    ASSUME Lockstep, Walks, NEW dn_resp, NEW data, NEW io, Clock(dn_resp, data, io)
    PROVE  Walks'
<1> DEFINE req  == Arb!oreq(creqs(ex_mem))
           priv == Arb!opriv(creqs(ex_mem), cprivs(mmu_priv))
<1> USE DEF Walking, State, Walk!Walking
<1>1. /\ MMUCycle(req, priv, csr.satp, dn_resp, data)
      /\ data \in ReadData(dn_resp)
  BY DEF Clock, PathCycle, ctl
<1>2. state \in Walking => data = PTE[pte_addr_q]
  BY <1>1 DEF ReadData
<1>3. CASE state = "IDLE"
  <2>1. \/ req = NoRequest /\ MMUWait
        \/ req # NoRequest /\ Accept(req, priv, csr.satp)
    BY <1>1, <1>3 DEF MMUCycle, Check, WalkL2, WalkL1, WalkL0, WalkUp, AwaitMemory,
                      Answer, Fault
  <2>2. req # NoRequest => req.kind \in Kind /\ req.addr # Walk!PageFault
    BY <1>3, RequestShape DEF Arb!oreq, Lockstep
  <2> HIDE DEF req
  <2> QED
    BY <1>3, <2>1, <2>2 DEF MMUWait, Accept, Walks, Walk!WalkInv
<1>4. ASSUME state # "IDLE" PROVE Walks'
  <2>1. CASE Check
    <3>1. CASE translate_en_q
      BY <1>4, <2>1, <3>1
      DEF Check, Walks, Walk!WalkInv, Walk!translate_en_q, translate_en_q, PRV_M, Walk!PRV_M
    <3>2. CASE ~translate_en_q
      <4>1. Translated = req_q.addr /\ Translated' = Translated
        BY <2>1, <3>2
        DEF Check, Translated, Walk!Translate, translate_en_q, PRV_M, Walk!PRV_M
      <4> QED
        BY <1>4, <2>1, <3>2, <4>1 DEF Check, Walks, Walk!WalkInv
    <3> QED
      BY <3>1, <3>2
  <2>2. CASE dn_done(dn_resp) /\ WalkL2(data)
    <3>1. state = "PTW_L2" /\ data = Walk!E2
      BY <1>2, <2>2 DEF WalkL2, WalkUp, Walks, Walk!WalkInv, Walk!E2
    <3> QED
      BY <1>4, <2>2, <3>1
      DEF WalkL2, WalkUp, Walks, Walk!WalkInv, Translated, Walk!Translate, Walk!E2, Walk!E1,
          Walk!translate_en_q, Walk!pte_is_nonleaf, pte_is_nonleaf
  <2>3. CASE dn_done(dn_resp) /\ WalkL1(data)
    <3>1. state = "PTW_L1" /\ data = Walk!E1
      BY <1>2, <2>3 DEF WalkL1, WalkUp, Walks, Walk!WalkInv, Walk!E1
    <3> QED
      BY <1>4, <2>3, <3>1
      DEF WalkL1, WalkUp, Walks, Walk!WalkInv, Translated, Walk!Translate, Walk!E2, Walk!E1,
          Walk!translate_en_q, Walk!pte_is_nonleaf, pte_is_nonleaf
  <2>4. CASE dn_done(dn_resp) /\ WalkL0(data)
    <3> DEFINE ok == pte_is_leaf(data) /\ pte_allow(data, req_q.kind, priv_mode_q)
    <3>1. state = "PTW_L0" /\ data = PTE[[table |-> Walk!E1.ppn, idx |-> req_q.addr.vpn0]]
      BY <1>2, <2>4 DEF WalkL0, Walks, Walk!WalkInv
    <3>2. ok <=> Walk!Maps(data, req_q.kind, priv_mode_q)
      BY <1>4, ReadingLeaf DEF Walks
    <3>3. Translated = IF ok THEN [ppn |-> data.ppn, off |-> req_q.addr.off] ELSE Walk!PageFault
      BY <3>1, <3>2 DEF Translated, Walk!Translate, Walk!E2, Walk!E1, Walks, Walk!WalkInv,
                        Walk!translate_en_q
    <3>4. [ppn |-> data.ppn, off |-> req_q.addr.off] # Walk!PageFault
      <4>1. DOMAIN [ppn |-> data.ppn, off |-> req_q.addr.off] # DOMAIN Walk!PageFault
        BY DEF Walk!PageFault
      <4> QED
        BY <4>1
    <3>5. Translated' = Translated
      BY <2>4 DEF WalkL0, Translated, Walk!Translate
    <3> QED
      BY <1>4, <2>4, <3>1, <3>3, <3>4, <3>5 DEF WalkL0, Walks, Walk!WalkInv
  <2>5. CASE AwaitMemory(dn_resp)
    BY <1>4, <2>5 DEF AwaitMemory, Walks, Walk!WalkInv, Translated, Walk!Translate, Walk!E2, Walk!E1,
                Walk!translate_en_q
  <2>6. CASE Answer(dn_resp) \/ Fault
    BY <2>6 DEF Answer, Fault, Finish, Walks, Walk!WalkInv
  <2> QED
    BY <1>1, <1>4, <2>1, <2>2, <2>3, <2>4, <2>5, <2>6 DEF MMUCycle, MMUWait, Accept
<1> QED
  BY <1>3, <1>4

\* The walks the MMU makes stay those of the page table.
LEMMA NextWalks == Path /\ Walks /\ [Next]_vars => Walks'
<1> SUFFICES ASSUME Path, Walks, [Next]_vars PROVE Walks'
  OBVIOUS
<1>1. CASE Next
  <2>1. PICK dn_resp, data, io : Clock(dn_resp, data, io)
    BY <1>1, NextClock
  <2> QED
    BY <2>1, WalksStep DEF Path
<1>2. CASE UNCHANGED vars
  BY <1>2 DEF vars, pathVars, mmuVars, Walks, Walk!WalkInv, Translated, Walk!Translate,
              Walk!E2, Walk!E1, Walk!translate_en_q
<1> QED
  BY <1>1, <1>2

\* The MMU's walks are those of the page table throughout.
LEMMA SafetyWalks == Safety => []Walks
BY InitWalks, NextWalks, SafetyPath, PTL DEF Safety

-----------------------------------------------------------------------------
(* The program, once decided, stays.  The operators of the reference       *)
(* machine are restated with the program p as a parameter.                 *)

InsnIn(p, pa) == IF pa \in DOMAIN CODE THEN p[pa] ELSE Stop

SeenBy(priv, satp, addr, kind) ==
    Sv39!Translate([addr |-> AddrOf(addr), kind |-> kind, data |-> NoData], priv, satp)

\* The instruction at pc, NoInstr where there is none (yet).
Word(p, pc, priv, satp) ==
    IF SeenBy(priv, satp, pc, "fetch") = Sv39!PageFault THEN NoInstr
    ELSE InsnIn(p, WordAddr(SeenBy(priv, satp, pc, "fetch")))

FetchedIn(p, s) == Word(p, s.pc, s.priv, s.csr.satp)
StepIn(p, s)    == IF FetchedIn(p, s) = NoInstr THEN s ELSE Execute(s, FetchedIn(p, s))

\* The reference's fetch and step with the program as a parameter, so that
\* they can be named in the next state too.
LEMMA Reference ==
    ASSUME NEW s
    PROVE  /\ Fetched(s) = FetchedIn(prog, s) /\ Step(s) = StepIn(prog, s)
           /\ Faults(s, s.pc, "fetch") => FetchedIn(prog, s) = NoInstr
BY DEF Fetched, Step, FetchedIn, StepIn, Word, Faults, Seen, SeenBy, InsnAt, InsnIn

Program == /\ DOMAIN prog = DOMAIN CODE
           /\ \A pa \in DOMAIN CODE : prog[pa] \in CODE[pa] \union {NoInstr}

\* What memory holds at an address is an instruction, or nothing that is
\* mapped or decided.
LEMMA ProgramTypes ==
    ASSUME Program, NEW pc, NEW priv, NEW satp
    PROVE  Word(prog, pc, priv, satp) \in Instr \union {NoInstr}
<1>1. Stop \in Instr
  BY DEF Stop, Instr, Op, CsrName
<1> QED
  BY <1>1, SimTopAssumption DEF Word, InsnIn, Program

\* A cycle decides one cell at most, the one whose instruction memory brings.
LEMMA ProgramStep ==
    ASSUME Program, NEW dn_resp, NEW data, NEW io, Clock(dn_resp, data, io)
    PROVE  /\ Program'
           /\ \A pc, priv, satp : Word(prog, pc, priv, satp) # NoInstr =>
                 Word(prog', pc, priv, satp) = Word(prog, pc, priv, satp)
           /\ Answering(dn_resp) /\ req_q.kind = "fetch" =>
                 data \in Instr /\ data = InsnIn(prog', WordAddr(phys_addr_q))
<1> DEFINE pa == WordAddr(phys_addr_q)
           deciding == Answering(dn_resp) /\ req_q.kind = "fetch"
<1>1. /\ prog' = IF deciding /\ pa \in DOMAIN CODE THEN [prog EXCEPT ![pa] = data] ELSE prog
      /\ data \in ReadData(dn_resp)
  BY DEF Clock, RamCycle
<1>2. Stop \in Instr
  BY DEF Stop, Instr, Op, CsrName
<1>3. deciding => data \in Decided(pa)
  BY <1>1 DEF ReadData, Answering, Walking
<1> HIDE DEF pa, deciding
<1>4. deciding => data \in Instr /\ data = InsnIn(prog', pa)
                  /\ (pa \in DOMAIN CODE => data \in CODE[pa])
  BY <1>1, <1>2, <1>3, SimTopAssumption, CoreAssumption
  DEF Decided, InsnAt, InsnIn, Program
<1>5. deciding /\ InsnIn(prog, pa) # NoInstr => data = InsnIn(prog, pa)
  BY <1>3 DEF Decided, InsnAt, InsnIn
<1>6. \A a : InsnIn(prog, a) # NoInstr => InsnIn(prog', a) = InsnIn(prog, a)
  BY <1>1, <1>5 DEF InsnIn, Program
<1>7. Program'
  BY <1>1, <1>4 DEF Program
<1>8. \A pc, priv, satp : Word(prog, pc, priv, satp) # NoInstr =>
         Word(prog', pc, priv, satp) = Word(prog, pc, priv, satp)
  BY <1>6 DEF Word
<1> QED
  BY <1>4, <1>7, <1>8 DEF pa, deciding

\* The program stays a program: what is decided once does not change.
LEMMA SafetyProgram == Safety => []Program
<1>1. Init => Program
  BY DEF Init, Program
<1>2. Program /\ [Next]_vars => Program'
  <2>1. Program /\ Next => Program'
    BY NextClock, ProgramStep
  <2>2. Program /\ UNCHANGED vars => Program'
    BY DEF vars, Program
  <2> QED
    BY <2>1, <2>2
<1> QED
  BY <1>1, <1>2, PTL DEF Safety

W2 == BYTE * BYTE
W3 == BYTE * BYTE * BYTE
W4 == BYTE * BYTE * BYTE * BYTE

\* The weights of the byte lanes, powers of 256.
LEMMA Weights ==
    /\ Weight(0) = 1 /\ Weight(1) = BYTE /\ Weight(2) = W2 /\ Weight(3) = W3 /\ Weight(4) = W4
    /\ BYTE \in Nat /\ BYTE >= 2 /\ W2 \in Nat /\ W3 \in Nat /\ W4 \in Nat
    /\ W2 >= BYTE /\ W3 >= W2 /\ W4 >= W3
    /\ Weight(LANES) = W4 /\ XMOD = W4
<1>1. BYTE \in Nat /\ BYTE >= 2 /\ LANES = 4
  BY SimTopAssumption
<1>2. W2 \in Nat /\ W2 >= BYTE
  BY <1>1 DEF W2
<1>3. W3 \in Nat /\ W3 >= W2
  <2>1. W3 = W2 * BYTE
    BY DEF W2, W3
  <2> QED
    BY <1>1, <1>2, <2>1
<1>4. W4 \in Nat /\ W4 >= W3
  <2>1. W4 = W3 * BYTE
    BY DEF W4, W3
  <2> QED
    BY <1>1, <1>3, <2>1
<1>5. /\ Weight(0) = 1 /\ Weight(1) = BYTE /\ Weight(2) = W2 /\ Weight(3) = W3 /\ Weight(4) = W4
  BY DEF Weight, W2, W3, W4
<1> QED
  BY <1>1, <1>2, <1>3, <1>4, <1>5, SimTopAssumption

Byte == 0 .. BYTE - 1

\* Two, three and four bytes, the least significant first.
LEMMA Bytes2 ==
    ASSUME NEW a \in Byte, NEW b \in Byte
    PROVE  a + BYTE * b \in 0 .. W2 - 1
<1>1. BYTE \in Nat /\ a \in Nat /\ b \in Nat /\ a <= BYTE - 1 /\ b <= BYTE - 1
  BY Weights DEF Byte
<1>2. BYTE * b <= BYTE * (BYTE - 1)
  BY <1>1
<1>3. BYTE * (BYTE - 1) = W2 - BYTE /\ BYTE * b \in Nat /\ W2 \in Nat
  BY <1>1 DEF W2
<1> QED
  BY <1>1, <1>2, <1>3

\* Three bytes, the least significant first, make a number below the weight
\* of the fourth.
LEMMA Bytes3 ==
    ASSUME NEW a \in Byte, NEW b \in Byte, NEW c \in Byte
    PROVE  a + BYTE * (b + BYTE * c) \in 0 .. W3 - 1
<1> DEFINE r == b + BYTE * c
<1>1. BYTE \in Nat /\ a \in Nat /\ a <= BYTE - 1 /\ r \in Nat /\ r <= W2 - 1 /\ W2 \in Nat
  BY Weights, Bytes2 DEF Byte
<1> HIDE DEF r
<1>2. BYTE * r <= BYTE * (W2 - 1) /\ BYTE * r \in Nat
  BY <1>1
<1>3. BYTE * (W2 - 1) = W3 - BYTE /\ W3 \in Nat
  BY <1>1, Weights DEF W2, W3
<1>4. a + BYTE * r \in 0 .. W3 - 1
  BY <1>1, <1>2, <1>3
<1> QED
  BY <1>4 DEF r

\* Four bytes, the least significant first, make a word.
LEMMA Bytes4 ==
    ASSUME NEW a \in Byte, NEW b \in Byte, NEW c \in Byte, NEW d \in Byte
    PROVE  a + BYTE * (b + BYTE * (c + BYTE * d)) \in 0 .. W4 - 1
<1> DEFINE r == b + BYTE * (c + BYTE * d)
<1>1. BYTE \in Nat /\ a \in Nat /\ a <= BYTE - 1 /\ W3 \in Nat
  BY Weights DEF Byte
<1>0. r \in Nat /\ r <= W3 - 1
  <2>1. r \in 0 .. W3 - 1
    BY Bytes3
  <2> HIDE DEF r
  <2> QED
    BY <1>1, <2>1
<1> HIDE DEF r
<1>2. BYTE * r <= BYTE * (W3 - 1) /\ BYTE * r \in Nat
  BY <1>0, <1>1
<1>3. BYTE * (W3 - 1) = W4 - BYTE /\ W4 \in Nat
  BY <1>1, Weights DEF W3, W4
<1>4. a + BYTE * r \in 0 .. W4 - 1
  BY <1>0, <1>1, <1>2, <1>3
<1> QED
  BY <1>4 DEF r

\* A word of four bytes, cut at each of them.
LEMMA Cuts ==
    ASSUME NEW a \in Byte, NEW b \in Byte, NEW c \in Byte, NEW d \in Byte
    PROVE  LET v == a + BYTE * (b + BYTE * (c + BYTE * d))
           IN  /\ v \in 0 .. W4 - 1
               /\ v \div BYTE = b + BYTE * (c + BYTE * d) /\ v % BYTE = a
               /\ v \div W2 = c + BYTE * d /\ v % W2 = a + BYTE * b
               /\ v \div W3 = d /\ v % W3 = a + BYTE * (b + BYTE * c)
               /\ (b + BYTE * (c + BYTE * d)) % BYTE = b
               /\ (c + BYTE * d) % BYTE = c /\ (c + BYTE * d) % W2 = c + BYTE * d
               /\ d % BYTE = d
<1> DEFINE v == a + BYTE * (b + BYTE * (c + BYTE * d))
<1>1. /\ a \in Nat /\ b \in Nat /\ c \in Nat /\ d \in Nat /\ a \in 0 .. BYTE - 1
      /\ b \in 0 .. BYTE - 1 /\ c \in 0 .. BYTE - 1 /\ d \in 0 .. BYTE - 1
      /\ BYTE \in Nat \ {0} /\ W2 \in Nat \ {0} /\ W3 \in Nat \ {0} /\ W4 \in Nat \ {0}
  BY Weights DEF Byte
<1>2. /\ a + BYTE * b \in 0 .. W2 - 1 /\ a + BYTE * (b + BYTE * c) \in 0 .. W3 - 1
      /\ v \in 0 .. W4 - 1 /\ c + BYTE * d \in 0 .. W2 - 1
  BY Bytes2, Bytes3, Bytes4
<1>3. /\ v = BYTE * (b + BYTE * (c + BYTE * d)) + a
      /\ b + BYTE * (c + BYTE * d) = BYTE * (c + BYTE * d) + b
      /\ c + BYTE * d = BYTE * d + c
  BY <1>1
<1>4. v = W2 * (c + BYTE * d) + (a + BYTE * b)
  BY <1>1 DEF W2
<1>5. v = W3 * d + (a + BYTE * (b + BYTE * c))
  BY <1>1 DEF W3
<1>6. b + BYTE * (c + BYTE * d) \in Int /\ c + BYTE * d \in Int
  BY <1>1
<1> HIDE DEF v
<1>7. /\ v \div BYTE = b + BYTE * (c + BYTE * d) /\ v % BYTE = a
  <2> DEFINE q == b + BYTE * (c + BYTE * d)
  <2>1. v = BYTE * q + a /\ q \in Int
    BY <1>3, <1>6
  <2> HIDE DEF q
  <2>2. v \div BYTE = q /\ v % BYTE = a
    BY <1>1, <2>1, Quotient
  <2> QED
    BY <2>2 DEF q
<1>8. /\ v \div W2 = c + BYTE * d /\ v % W2 = a + BYTE * b
  <2> DEFINE q == c + BYTE * d
             r == a + BYTE * b
  <2>1. v = W2 * q + r /\ q \in Int /\ r \in 0 .. W2 - 1
    BY <1>2, <1>4, <1>6
  <2> HIDE DEF q, r
  <2>2. v \div W2 = q /\ v % W2 = r
    BY <1>1, <2>1, Quotient
  <2> QED
    BY <2>2 DEF q, r
<1>9. /\ v \div W3 = d /\ v % W3 = a + BYTE * (b + BYTE * c)
  <2> DEFINE r == a + BYTE * (b + BYTE * c)
  <2>1. r \in 0 .. W3 - 1 /\ v = W3 * d + r /\ d \in Int
    BY <1>1, <1>2, <1>5
  <2> HIDE DEF r
  <2>2. v \div W3 = d /\ v % W3 = r
    BY <1>1, <2>1, Quotient
  <2> QED
    BY <2>2 DEF r
<1>10. (b + BYTE * (c + BYTE * d)) % BYTE = b /\ (c + BYTE * d) % BYTE = c
  <2> DEFINE q == c + BYTE * d
             w == b + BYTE * q
  <2>1. w = BYTE * q + b /\ q = BYTE * d + c /\ q \in Int /\ d \in Int
    BY <1>1
  <2> HIDE DEF q, w
  <2>2. w % BYTE = b /\ q % BYTE = c
    BY <1>1, <2>1, Quotient
  <2> QED
    BY <2>2 DEF q, w
<1>11. (c + BYTE * d) % W2 = c + BYTE * d /\ d % BYTE = d
  <2> DEFINE q == c + BYTE * d
  <2>1. q \in 0 .. W2 - 1
    BY <1>2
  <2> HIDE DEF q
  <2>2. q % W2 = q /\ d % BYTE = d
    BY <1>1, <2>1, Below
  <2> QED
    BY <2>2 DEF q
<1> QED
  BY <1>2, <1>7, <1>8, <1>9, <1>10, <1>11 DEF v


\* The sign of a number is that of its top byte.
LEMMA TopByte ==
    ASSUME NEW w \in Nat \ {0}, NEW r \in 0 .. w - 1, NEW t \in Byte
    PROVE  r + w * t < (w * BYTE) \div 2 <=> t \div (BYTE \div 2) = 0
<1> DEFINE h == BYTE \div 2
<1>1. h \in Nat \ {0} /\ BYTE = 2 * h /\ t \in Nat /\ t < 2 * h
  BY SimTopAssumption DEF Byte
<1>2. (w * BYTE) \div 2 = w * h
  <2>1. w * BYTE = 2 * (w * h) + 0 /\ w * h \in Int
    BY <1>1
  <2> HIDE DEF h
  <2> QED
    BY <2>1, Quotient
<1> HIDE DEF h
<1>3. CASE t < h
  <2>1. t \div h = 0
    BY <1>1, <1>3
  <2>2. w * t <= w * (h - 1)
    BY <1>1, <1>3
  <2>3. w * (h - 1) = w * h - w /\ w * t \in Int /\ w * h \in Int
    BY <1>1
  <2>4. r + w * t < w * h
    BY <2>2, <2>3
  <2> QED
    BY <1>2, <2>1, <2>4 DEF h
<1>4. CASE t >= h
  <2>1. t \div h # 0
    <3>1. t = h * 1 + (t - h) /\ t - h \in 0 .. h - 1 /\ 1 \in Int
      BY <1>1, <1>4
    <3>2. t \div h = 1
      BY <1>1, <3>1, Quotient
    <3> QED
      BY <3>2
  <2>2. w * t >= w * h /\ w * t \in Int /\ w * h \in Int
    BY <1>1, <1>4
  <2>3. ~(r + w * t < w * h)
    BY <2>2
  <2> QED
    BY <1>2, <2>1, <2>3 DEF h
<1> QED
  BY <1>1, <1>3, <1>4

\* What a load cuts out of the word is the value of its bytes.
LEMMA LoadedBytes ==
    ASSUME NEW m \in [0 .. 3 -> Byte], NEW off \in 0 .. 3, NEW size \in {1, 2, 4},
           off % size = 0
    PROVE  LET low   == (ValueOf(m) \div Weight(off)) % Weight(size)
               bytes == [k \in 0 .. size - 1 |-> m[off + k]]
           IN  /\ low = ValueOf(bytes) /\ low \in 0 .. Weight(size) - 1
               /\ low < Weight(size) \div 2 <=> bytes[size - 1] \div (BYTE \div 2) = 0
<1> DEFINE bytes == [k \in 0 .. size - 1 |-> m[off + k]]
           low   == (ValueOf(m) \div Weight(off)) % Weight(size)
<1>1. m[0] \in Byte /\ m[1] \in Byte /\ m[2] \in Byte /\ m[3] \in Byte
  OBVIOUS
<1>2. \A a \in Byte : a \in Nat /\ a \in 0 .. BYTE - 1
  BY Weights DEF Byte
<1>3. BYTE \in Nat \ {0} /\ W2 \in Nat \ {0} /\ W3 \in Nat \ {0} /\ W4 \in Nat \ {0}
  BY Weights
<1>4. ValueOf(m) = m[0] + BYTE * (m[1] + BYTE * (m[2] + BYTE * m[3]))
  BY DEF ValueOf
<1> DEFINE v == ValueOf(m)
<1>5. /\ v \in 0 .. W4 - 1
      /\ v \div BYTE = m[1] + BYTE * (m[2] + BYTE * m[3]) /\ v % BYTE = m[0]
      /\ v \div W2 = m[2] + BYTE * m[3] /\ v % W2 = m[0] + BYTE * m[1]
      /\ v \div W3 = m[3]
      /\ (m[1] + BYTE * (m[2] + BYTE * m[3])) % BYTE = m[1]
      /\ (m[2] + BYTE * m[3]) % BYTE = m[2] /\ (m[2] + BYTE * m[3]) % W2 = m[2] + BYTE * m[3]
      /\ m[3] % BYTE = m[3]
  BY <1>1, <1>4, Cuts
<1>6. v \div 1 = v
  BY <1>3, <1>5
<1> HIDE DEF v
<1>7. CASE size = 1
  <2>1. low = m[off]
    BY <1>5, <1>6, <1>7, Weights DEF v
  <2>2. ValueOf(bytes) = m[off]
    <3>1. bytes[0] = m[off] /\ DOMAIN bytes = {0}
      BY <1>7
    <3>2. m[off] \in Nat
      BY <1>2
    <3> HIDE DEF bytes
    <3> QED
      BY <1>3, <3>1, <3>2 DEF ValueOf
  <2>3. m[off] < BYTE \div 2 <=> m[off] \div (BYTE \div 2) = 0
    <3>1. m[off] \in Byte /\ 0 \in 0 .. 1 - 1 /\ 0 + 1 * m[off] = m[off] /\ 1 * BYTE = BYTE
      BY <1>2, <1>3
    <3> QED
      BY <3>1, TopByte
  <2>4. bytes[size - 1] = m[off]
    BY <1>7
  <2> HIDE DEF low, bytes
  <2>5. m[off] \in 0 .. BYTE - 1
    BY <1>2
  <2>6. /\ low = ValueOf(bytes) /\ low \in 0 .. Weight(size) - 1
        /\ low < Weight(size) \div 2 <=> bytes[size - 1] \div (BYTE \div 2) = 0
    BY <1>7, <2>1, <2>2, <2>3, <2>4, <2>5, Weights
  <2> QED
    BY <2>6 DEF low, bytes
<1>8. CASE size = 2
  <2>0. off = 0 \/ off = 2
    BY <1>8
  <2>1. low = m[off] + BYTE * m[off + 1]
    BY <1>5, <1>6, <1>8, <2>0, Weights DEF v
  <2>2. ValueOf(bytes) = m[off] + BYTE * m[off + 1] /\ bytes[1] = m[off + 1]
    <3>1. bytes[0] = m[off] /\ bytes[1] = m[off + 1] /\ DOMAIN bytes = {0, 1}
      BY <1>8, <2>0
    <3>2. m[off] \in Nat /\ m[off + 1] \in Nat
      BY <1>2, <2>0
    <3> HIDE DEF bytes
    <3> QED
      BY <1>3, <3>1, <3>2 DEF ValueOf
  <2>3. m[off] \in 0 .. BYTE - 1 /\ m[off + 1] \in Byte /\ m[off] \in Byte
    BY <1>2, <2>0
  <2>4. m[off] + BYTE * m[off + 1] < W2 \div 2 <=> m[off + 1] \div (BYTE \div 2) = 0
    BY <1>3, <2>3, TopByte DEF W2
  <2>5. m[off] + BYTE * m[off + 1] \in 0 .. W2 - 1
    BY <2>3, Bytes2
  <2> HIDE DEF low, bytes
  <2>6. /\ low = ValueOf(bytes) /\ low \in 0 .. Weight(size) - 1
        /\ low < Weight(size) \div 2 <=> bytes[size - 1] \div (BYTE \div 2) = 0
    BY <1>8, <2>1, <2>2, <2>4, <2>5, Weights
  <2> QED
    BY <2>6 DEF low, bytes
<1>9. CASE size = 4
  <2>0. off = 0
    BY <1>9
  <2>1. low = v
    <3>1. v % W4 = v
      BY <1>3, <1>5, Below
    <3>2. Weight(off) = 1 /\ Weight(size) = W4
      BY <1>9, <2>0, Weights
    <3> QED
      BY <1>6, <3>1, <3>2 DEF v
  <2>2. bytes = m
    BY <1>9, <2>0
  <2>3. v = (m[0] + BYTE * (m[1] + BYTE * m[2])) + W3 * m[3]
    <3>1. m[0] \in Nat /\ m[1] \in Nat /\ m[2] \in Nat /\ m[3] \in Nat
      BY <1>2
    <3> QED
      BY <1>3, <1>4, <3>1 DEF v, W3
  <2>4. m[0] + BYTE * (m[1] + BYTE * m[2]) \in 0 .. W3 - 1
    BY <1>1, Bytes3
  <2>5. v < (W3 * BYTE) \div 2 <=> m[3] \div (BYTE \div 2) = 0
    BY <1>1, <1>3, <2>3, <2>4, TopByte
  <2>6. W3 * BYTE = W4
    BY <1>3 DEF W3, W4
  <2> HIDE DEF low, bytes
  <2>7. /\ low = ValueOf(bytes) /\ low \in 0 .. Weight(size) - 1
        /\ low < Weight(size) \div 2 <=> bytes[size - 1] \div (BYTE \div 2) = 0
    BY <1>5, <1>9, <2>1, <2>2, <2>5, <2>6, Weights DEF v
  <2> QED
    BY <2>7 DEF low, bytes
<1> QED
  BY <1>7, <1>8, <1>9

\* A number cut at a weight is its quotient and its remainder.
LEMMA Divided ==
    ASSUME NEW n \in Nat \ {0}, NEW v \in Nat
    PROVE  v = n * (v \div n) + (v % n) /\ v % n \in 0 .. n - 1 /\ v \div n \in Nat
<1>1. v \div n \in Nat
  OBVIOUS
<1> QED
  BY <1>1, DivMod

\* Every word is made of four bytes.
LEMMA Decomposed ==
    ASSUME NEW v \in 0 .. W4 - 1
    PROVE  \E a, b, c, d \in Byte : v = a + BYTE * (b + BYTE * (c + BYTE * d))
<1> DEFINE q == v \div BYTE
           r == q \div BYTE
           d == r \div BYTE
<1>1. BYTE \in Nat \ {0} /\ v \in Nat /\ v < W4 /\ W4 \in Nat
  BY Weights
<1>2. v = BYTE * q + (v % BYTE) /\ v % BYTE \in 0 .. BYTE - 1 /\ q \in Nat
  BY <1>1, Divided
<1> HIDE DEF q
<1>3. q = BYTE * r + (q % BYTE) /\ q % BYTE \in 0 .. BYTE - 1 /\ r \in Nat
  BY <1>1, <1>2, Divided
<1> HIDE DEF r
<1>4. r = BYTE * d + (r % BYTE) /\ r % BYTE \in 0 .. BYTE - 1 /\ d \in Nat
  BY <1>1, <1>3, Divided
<1> HIDE DEF d
<1> DEFINE a == v % BYTE
           b == q % BYTE
           c == r % BYTE
<1>5. a \in Byte /\ b \in Byte /\ c \in Byte
  BY <1>2, <1>3, <1>4 DEF Byte
<1>6. v = BYTE * q + a /\ q = BYTE * r + b /\ r = BYTE * d + c /\ a \in Nat /\ b \in Nat /\ c \in Nat
  BY <1>2, <1>3, <1>4
<1> HIDE DEF a, b, c
<1>7. v = a + BYTE * (b + BYTE * (c + BYTE * d))
  BY <1>1, <1>2, <1>3, <1>4, <1>6
<1>8. d \in Byte
  <2> SUFFICES ASSUME d >= BYTE PROVE FALSE
    BY <1>1, <1>4 DEF Byte
  <2>1. r >= W2
    <3>1. BYTE * d >= BYTE * BYTE
      BY <1>1, <1>4
    <3> QED
      BY <1>1, <1>4, <1>6, <3>1 DEF W2
  <2>2. q >= W3
    <3>1. BYTE * r >= BYTE * W2 /\ W3 = BYTE * W2 /\ W2 \in Nat
      BY <1>1, <1>3, <2>1, Weights DEF W2, W3
    <3> QED
      BY <1>1, <1>3, <1>6, <3>1
  <2>3. v >= W4
    <3>1. BYTE * q >= BYTE * W3 /\ W4 = BYTE * W3 /\ W3 \in Nat
      BY <1>1, <1>2, <2>2, Weights DEF W3, W4
    <3> QED
      BY <1>1, <1>2, <1>6, <3>1
  <2> QED
    BY <1>1, <2>3
<1> QED
  BY <1>5, <1>7, <1>8

Lane(v, l) == (v \div Weight(l)) % BYTE

\* The lanes of a word hold its four bytes and nothing else.
LEMMA Lanes ==
    ASSUME NEW a \in Byte, NEW b \in Byte, NEW c \in Byte, NEW d \in Byte,
           NEW v, v = a + BYTE * (b + BYTE * (c + BYTE * d))
    PROVE  v % W4 = v /\ Lane(v, 0) = a /\ Lane(v, 1) = b /\ Lane(v, 2) = c /\ Lane(v, 3) = d
<1>1. /\ v \in 0 .. W4 - 1
      /\ v \div BYTE = b + BYTE * (c + BYTE * d) /\ v % BYTE = a
      /\ v \div W2 = c + BYTE * d
      /\ v \div W3 = d
      /\ (b + BYTE * (c + BYTE * d)) % BYTE = b
      /\ (c + BYTE * d) % BYTE = c
      /\ d % BYTE = d
  BY Cuts
<1>2. W4 \in Nat \ {0}
  BY Weights
<1>3. v % W4 = v /\ v \div 1 = v
  <2>1. v \div 1 = v
    BY <1>1, <1>2
  <2> QED
    BY <1>1, <1>2, <2>1, Below
<1> QED
  BY <1>1, <1>3, Weights DEF Lane

\* What a store shifts onto its lanes are the bytes of the register.
LEMMA StoredBytes ==
    ASSUME NEW v \in 0 .. W4 - 1, NEW off \in 0 .. 3, NEW size \in {1, 2, 4},
           off % size = 0, NEW l \in off .. off + size - 1
    PROVE  Lane((v * Weight(off)) % W4, l) = Lane(v, l - off)
<1>1. PICK a, b, c, d \in Byte : v = a + BYTE * (b + BYTE * (c + BYTE * d))
  BY Decomposed
<1>2. /\ 0 \in Byte /\ BYTE \in Nat /\ W4 \in Nat \ {0} /\ a \in Nat /\ b \in Nat /\ c \in Nat /\ d \in Nat
      /\ a \in Int /\ b \in Int /\ c \in Int /\ d \in Int
  BY Weights DEF Byte
<1>3. Lane(v, 0) = a /\ Lane(v, 1) = b /\ Lane(v, 2) = c /\ Lane(v, 3) = d /\ v % W4 = v
  BY <1>1, Lanes
<1> DEFINE w == (v * Weight(off)) % W4
<1>4. CASE off = 0
  <2>1. v * Weight(off) = v
    BY <1>2, <1>4, Weights
  <2> QED
    BY <1>3, <1>4, <2>1
<1>5. CASE off = 1
  <2> DEFINE r == 0 + BYTE * (a + BYTE * (b + BYTE * c))
  <2>1. v * Weight(off) = W4 * d + r
    BY <1>1, <1>2, <1>5, Weights DEF W4
  <2>2. r \in 0 .. W4 - 1
    BY <1>2, Bytes4
  <2>3. w = r
    <3> HIDE DEF r
    <3> QED
      BY <1>2, <2>1, <2>2, Quotient
  <2>4. Lane(r, 1) = a /\ Lane(r, 2) = b /\ Lane(r, 3) = c
    BY <1>2, Lanes
  <2> HIDE DEF r
  <2>5. l = 1 \/ l = 2 \/ l = 3
    BY <1>5
  <2> QED
    BY <1>3, <1>5, <2>3, <2>4, <2>5
<1>6. CASE off = 2
  <2> DEFINE r == 0 + BYTE * (0 + BYTE * (a + BYTE * b))
             q == c + BYTE * d
  <2>1. v * Weight(off) = W4 * q + r
    BY <1>1, <1>2, <1>6, Weights DEF W2, W4
  <2>2. r \in 0 .. W4 - 1 /\ q \in Int
    BY <1>2, Bytes4
  <2>3. w = r
    <3> DEFINE t == v * Weight(off)
    <3>1. t = W4 * q + r
      BY <2>1
    <3> HIDE DEF r, q, t
    <3>2. t % W4 = r
      BY <1>2, <2>2, <3>1, Quotient
    <3> QED
      BY <3>2 DEF t
  <2>4. Lane(r, 2) = a /\ Lane(r, 3) = b
    BY <1>2, Lanes
  <2> HIDE DEF r
  <2>5. l = 2 \/ l = 3
    BY <1>6
  <2> QED
    BY <1>3, <1>6, <2>3, <2>4, <2>5
<1>7. CASE off = 3
  <2> DEFINE r == 0 + BYTE * (0 + BYTE * (0 + BYTE * a))
             q == b + BYTE * (c + BYTE * d)
  <2>1. v * Weight(off) = W4 * q + r
    BY <1>1, <1>2, <1>7, Weights DEF W3, W4
  <2>2. r \in 0 .. W4 - 1 /\ q \in Int
    BY <1>2, Bytes4
  <2>3. w = r
    <3> DEFINE t == v * Weight(off)
    <3>1. t = W4 * q + r
      BY <2>1
    <3> HIDE DEF r, q, t
    <3>2. t % W4 = r
      BY <1>2, <2>2, <3>1, Quotient
    <3> QED
      BY <3>2 DEF t
  <2>4. Lane(r, 3) = a
    BY <1>2, Lanes
  <2> HIDE DEF r
  <2>5. l = 3
    BY <1>7
  <2> QED
    BY <1>3, <1>7, <2>3, <2>4, <2>5
<1> QED
  BY <1>4, <1>5, <1>6, <1>7


-----------------------------------------------------------------------------
(* What the registers hold.                                                *)

Cause == {"none", "mti", "store fault", "load fault", "store misaligned", "load misaligned",
          "fetch misaligned", "fetch fault", "illegal", "ecall U", "ecall M"}

CsrFile == [mstatus : Status, mtvec : Int, mepc : Int, mcause : Cause, mtval : Int,
            satp : [sv39 : BOOLEAN, ppn : {0, ROOT}], mie : BOOLEAN]

\* The value v may be written to the CSR reg.
Fits(reg, v) == /\ reg = "mstatus" => v \in Status
                /\ reg \in {"mtvec", "mepc"} => v \in Int
                /\ reg = "satp" => v \in [sv39 : BOOLEAN, ppn : {0, ROOT}]
                /\ reg = "mie" => v \in BOOLEAN

FetchTypes == /\ fetch.pc_q \in Int /\ fetch.req_pc_q \in Int /\ fetch.data_pc_q \in Int
              /\ fetch.req_priv_q \in Priv
              /\ fetch.data_valid_q => fetch.instr_q \in Instr

CsrTypes == csr \in CsrFile /\ priv_mode \in Priv /\ mmu_priv \in Priv

RegTypes == /\ x \in Reg /\ ram \in [0 .. 3 -> Byte]
            /\ DOMAIN muldiv = {"st", "a"} /\ muldiv.a \in Reg

StageTypes == /\ if_id.valid \in BOOLEAN /\ if_id.pc \in Int /\ arch_pc_q \in Int
              /\ if_id.valid => if_id.instr \in Instr
              /\ id_ex \in IdEx \union {NoOp}
              /\ ex_mem \in ExMem \union {NoOp}
              /\ mem_wb \in MemWb \union {NoOp}
              /\ ~(ex_mem # NoOp /\ ex_mem.is_load /\ ex_mem.is_store)
              /\ ex_mem # NoOp /\ ex_mem.csr_we =>
                    is_csr(ex_mem.instr) /\ Fits(ex_mem.instr.csr, ex_mem.csr_new)
              /\ mem_wb # NoOp /\ mem_wb.csr_we =>
                    is_csr(mem_wb.instr) /\ Fits(mem_wb.instr.csr, mem_wb.csr_new)

Types == FetchTypes /\ CsrTypes /\ RegTypes /\ StageTypes

\* At reset every value fits its register.
LEMMA InitTypes == Init => Types
<1> SUFFICES ASSUME Init PROVE Types
  OBVIOUS
<1>1. 0 \in Reg /\ 0 \in Byte
  BY Weights DEF Reg, Byte
<1>2. FetchTypes
  BY CoreAssumption DEF Init, CoreInit, PathInit, FetchInit, FetchTypes, Priv, PRV_M, PRV_U
<1>3. CsrTypes
  <2>1. CsrReset.mstatus \in Status
    BY DEF CsrReset, Status, Priv, PRV_U
  <2>2. "none" \in Cause
    BY DEF Cause
  <2>3. CsrReset \in CsrFile
    BY <2>1, <2>2 DEF CsrReset, CsrFile
  <2> QED
    BY <2>3 DEF Init, CoreInit, CsrTypes, Priv, PRV_M
<1>4. RegTypes
  BY <1>1, SimTopAssumption DEF Init, CoreInit, RegTypes, MulDiv!UnitInit
<1>5. StageTypes
  BY CoreAssumption DEF Init, CoreInit, StageTypes
<1> QED
  BY <1>2, <1>3, <1>4, <1>5 DEF Types

\* What the ALU answers fits a register, and a branch goes to an address.
LEMMA Values ==
    ASSUME NEW i \in Instr, NEW v \in Reg, NEW pc \in Int
    PROVE  Value(i, v) \in Reg /\ Target(pc, i, v) \in Int
<1>1. XMOD \in Nat \ {0}
  BY Weights
<1>2. i.imm \in Int /\ v \in Int
  BY DEF Instr, Reg
<1>3. (v + i.imm) % XMOD \in 0 .. XMOD - 1 /\ (v * v) % XMOD \in 0 .. XMOD - 1
  BY <1>1, <1>2
<1>4. Value(i, v) \in Reg
  BY <1>3 DEF Value, Reg
<1>5. Target(pc, i, v) \in Int
  BY <1>2 DEF Target
<1> QED
  BY <1>4, <1>5

\* What a CSR instruction writes fits the CSR.
LEMMA CsrNewFits ==
    ASSUME NEW i \in Instr, i.op = "csr", NEW old, Fits(i.csr, old)
    PROVE  Fits(i.csr, CsrNew(i, old)) /\ CsrNew(i, old) \in CsrValue
<1>1. i.imm \in Int /\ i.csr \in CsrName /\ (i.csr = "mstatus" => i.fn \in {"set", "clear"})
  BY DEF Instr
<1>2. CASE i.csr = "mstatus"
  <2>1. old \in Status
    BY <1>2 DEF Fits
  <2>2. [old EXCEPT !.mie = TRUE] \in Status /\ [old EXCEPT !.mie = FALSE] \in Status
    BY <2>1 DEF Status
  <2> QED
    BY <1>1, <1>2, <2>2 DEF CsrNew, Fits, CsrValue
<1>3. CASE i.csr # "mstatus"
  BY <1>1, <1>3 DEF CsrNew, Fits, CsrName, CsrValue
<1> QED
  BY <1>2, <1>3

\* Each CSR holds what fits it, and writing what fits keeps it so.
LEMMA FileFits ==
    ASSUME NEW c \in CsrFile, NEW reg \in CsrName
    PROVE  /\ Fits(reg, c[reg])
           /\ \A v : Fits(reg, v) => [c EXCEPT ![reg] = v] \in CsrFile
<1>1. Fits(reg, c[reg])
  BY DEF CsrFile, CsrName, Fits
<1>2. ASSUME NEW v, Fits(reg, v) PROVE [c EXCEPT ![reg] = v] \in CsrFile
  <2>1. CASE reg = "mstatus"
    BY <1>2, <2>1 DEF CsrFile, Fits
  <2>2. CASE reg \in {"mtvec", "mepc"}
    BY <1>2, <2>2 DEF CsrFile, Fits
  <2>3. CASE reg = "satp"
    BY <1>2, <2>3 DEF CsrFile, Fits
  <2>4. CASE reg = "mie"
    BY <1>2, <2>4 DEF CsrFile, Fits
  <2> QED
    BY <2>1, <2>2, <2>3, <2>4 DEF CsrName
<1> QED
  BY <1>1, <1>2

\* The values in flight have the types of what they will be written to.
LEMMA Forwarded ==
    ASSUME Types
    PROVE  /\ \A reg \in CsrName : Fits(reg, csr_fwd(reg))
           /\ id_ex # NoOp => ex_result \in Reg
           /\ if_id.valid => id_op_pre \in Reg
<1> USE DEF Types, StageTypes, RegTypes, CsrTypes
<1>1. ASSUME NEW reg \in CsrName PROVE Fits(reg, csr_fwd(reg))
  BY FileFits DEF csr_fwd, Writes
<1>2. id_ex # NoOp => ex_result \in Reg
  BY Values DEF IdEx, ex_result
<1>3. if_id.valid => id_op_pre \in Reg
  BY <1>2 DEF id_op_pre, wb_wen, ExMem, MemWb
<1> QED
  BY <1>1, <1>2, <1>3

\* What a trap writes to the CSRs has the type they have: its address, its
\* value and its cause.
LEMMA TrapTypes ==
    ASSUME Types, Spacing, NEW io
    PROVE  /\ arch_pc_next \in Int
           /\ Trap(io) # NoTrap => /\ Trap(io).pc \in Int /\ Trap(io).tval \in Int
                                   /\ Trap(io).cause \in Cause
<1>1. cur(ex_mem) = ex_mem
  BY DEF cur, Spacing, StageCopy
<1>2. /\ fetch_pc \in Int /\ if_id.pc \in Int /\ arch_pc_q \in Int
      /\ id_ex # NoOp => id_ex.pc \in Int
      /\ ex_mem # NoOp => ex_mem.pc \in Int /\ ex_mem.mem_addr \in Int
      /\ if_id.valid => if_id.instr.imm \in Int
  BY DEF Types, FetchTypes, StageTypes, fetch_pc, IdEx, ExMem, Instr
<1>3. arch_pc_next \in Int
  <2>1. csrsi_opens_mie_ex => ex_mem # NoOp
    BY DEF csrsi_opens_mie_ex, Writes
  <2> QED
    BY <1>2, <2>1 DEF arch_pc_next
<1>4. mem_fault_fire(io) \/ mem_misalign_fire(io) => ex_mem # NoOp
  BY <1>1 DEF mem_fault_fire, mem_misalign_fire, out_valid
<1>5. /\ illegal_fire(io) => if_id.valid
      /\ ecall_fire(io) => id_ex # NoOp
  BY DEF illegal_fire, ecall_fire
<1>6. ASSUME NEW cause \in Cause, NEW pc \in Int, NEW tval \in Int, NEW t, t = TrapOf(cause, pc, tval)
      PROVE  t.pc \in Int /\ t.tval \in Int /\ t.cause \in Cause
  BY <1>6 DEF TrapOf
<1>7. 0 \in Int /\ \A c \in {"mti", "store fault", "load fault", "store misaligned", "load misaligned",
          "fetch misaligned", "fetch fault", "illegal", "ecall U", "ecall M"} : c \in Cause
  BY DEF Cause
<1>8. CASE interrupt_fire(io)
  BY <1>3, <1>6, <1>7, <1>8 DEF Trap
<1>9. CASE ~interrupt_fire(io) /\ (mem_fault_fire(io) \/ mem_misalign_fire(io))
  <2>1. /\ TrapOf("store fault", ex_mem.pc, ex_mem.mem_addr) = Trap(io)
           \/ TrapOf("load fault", ex_mem.pc, ex_mem.mem_addr) = Trap(io)
           \/ TrapOf("store misaligned", ex_mem.pc, ex_mem.mem_addr) = Trap(io)
           \/ TrapOf("load misaligned", ex_mem.pc, ex_mem.mem_addr) = Trap(io)
    BY <1>1, <1>9 DEF Trap
  <2> QED
    BY <1>2, <1>3, <1>4, <1>6, <1>7, <1>9, <2>1
<1>10. CASE ~interrupt_fire(io) /\ ~mem_fault_fire(io) /\ ~mem_misalign_fire(io)
  <2>1. \/ Trap(io) = TrapOf("fetch misaligned", fetch_pc, fetch_pc)
        \/ Trap(io) = TrapOf("fetch fault", fetch_pc, fetch_pc)
        \/ illegal_fire(io) /\ Trap(io) = TrapOf("illegal", if_id.pc, if_id.instr.imm)
        \/ ecall_fire(io) /\ Trap(io) = TrapOf("ecall U", id_ex.pc, 0)
        \/ ecall_fire(io) /\ Trap(io) = TrapOf("ecall M", id_ex.pc, 0)
        \/ Trap(io) = NoTrap
    BY <1>10 DEF Trap
  <2> QED
    BY <1>2, <1>3, <1>5, <1>6, <1>7, <2>1
<1> QED
  BY <1>8, <1>9, <1>10

\* The CSRs keep their types, and the privileges stay privileges.
LEMMA CsrTypesStep ==
    ASSUME Types, Spacing, NEW io, CsrCycle(io), PrivCycle(io)
    PROVE  CsrTypes'
<1>1. /\ csr.mstatus \in Status /\ csr.mstatus.mpp \in Priv
      /\ csr.mstatus.mpie \in BOOLEAN /\ csr.mstatus.mie \in BOOLEAN
      /\ priv_mode \in Priv /\ PRV_M \in Priv /\ PRV_U \in Priv
  BY DEF Types, CsrTypes, CsrFile, Status, Priv
<1>2. mmu_priv' \in Priv /\ priv_mode' \in Priv
  BY <1>1 DEF PrivCycle, CsrCycle
<1>3. csr' \in CsrFile
  <2>0. csr \in CsrFile
    BY DEF Types, CsrTypes
  <2>1. CASE mret_fire(io)
    <3>1. MretStatus \in Status
      BY <1>1 DEF MretStatus, Status
    <3> QED
      BY <2>0, <2>1, <3>1 DEF CsrCycle, CsrFile
  <2>2. CASE ~mret_fire(io) /\ Trap(io) # NoTrap
    <3>1. TrapStatus \in Status
      BY <1>1 DEF TrapStatus, Status
    <3> QED
      BY <2>0, <2>2, <3>1, TrapTypes DEF CsrCycle, CsrFile
  <2>3. CASE ~mret_fire(io) /\ Trap(io) = NoTrap
    <3>1. mem_wb # NoOp /\ mem_wb.csr_we =>
             mem_wb.instr.csr \in CsrName /\ Fits(mem_wb.instr.csr, mem_wb.csr_new)
      BY DEF Types, StageTypes, is_csr, MemWb, Instr
    <3> QED
      BY <2>0, <2>3, <3>1, FileFits DEF CsrCycle
  <2> QED
    BY <2>1, <2>2, <2>3
<1> QED
  BY <1>2, <1>3 DEF CsrTypes

\* Fetch is only sent to integers.
LEMMA FetchTypesStep ==
    ASSUME Types, Spacing, Path, Program, NEW dn_resp, NEW data, NEW io, Clock(dn_resp, data, io)
    PROVE  FetchTypes'
<1>1. redirect_pc(io) \in Int
  <2>1. csr_fwd("mepc") \in Int /\ csr_fwd("mtvec") \in Int
    BY Forwarded DEF Fits, CsrName
  <2>2. id_ex # NoOp => id_ex.pc \in Int /\ ex_target \in Int
    BY Values DEF Types, StageTypes, IdEx, ex_target
  <2>3. if_id.valid => dec_pred_target \in Int
    BY Values, Forwarded DEF Types, StageTypes, dec_pred_target
  <2>4. /\ csr_redirect_valid => id_ex # NoOp
        /\ branch_mispredict => id_ex # NoOp
        /\ decode_pred_redirect(io) => if_id.valid
    BY DEF csr_redirect_valid, branch_mispredict, decode_pred_redirect
  <2> QED
    BY <2>1, <2>2, <2>3, <2>4 DEF redirect_pc, trap_redirect_pc, branch_correct_pc
<1>2. /\ FetchCycle(ctl(io), iresp(dn_resp, data)) /\ dn_resp \in {NoResp, OK}
  BY DEF Clock, PathCycle
<1>3. /\ response_fire(iresp(dn_resp, data)) /\ ~iresp(dn_resp, data).fault
      => iresp(dn_resp, data).data \in Instr
  <2>1. /\ response_fire(iresp(dn_resp, data)) /\ ~iresp(dn_resp, data).fault
        => IServed /\ Answering(dn_resp) /\ iresp(dn_resp, data).data = data
    BY <1>2, PortResponse DEF response_fire
  <2>2. IServed => req_q.kind = "fetch"
    BY DEF Path, FetchServed, icreq
  <2> QED
    BY <2>1, <2>2, ProgramStep
<1>4. ctl(io).redirect_pc = redirect_pc(io) /\ ctl(io).current_priv = mmu_priv
  BY DEF ctl
<1>5. /\ fetch'.pc_q \in Int /\ fetch'.req_pc_q \in Int /\ fetch'.data_pc_q \in Int
      /\ fetch'.req_priv_q \in Priv
  BY <1>1, <1>2, <1>4, FetchMoves DEF Types, FetchTypes, CsrTypes, Spacing
<1>6. fetch'.data_valid_q => fetch'.instr_q \in Instr
  BY <1>2, <1>3, FetchMoves DEF Types, FetchTypes, Spacing
<1> QED
  BY <1>5, <1>6 DEF FetchTypes

\* A store brings bytes, and what the pipeline writes back is what a register holds.
LEMMA RegTypesStep ==
    ASSUME Types, Spacing, Path, NEW dn_resp, NEW data, NEW io, Clock(dn_resp, data, io)
    PROVE  RegTypes'
<1> USE DEF Types, RegTypes, StageTypes
<1>1. RegisterCycle /\ MulDivCycle(io) /\ RamCycle(dn_resp, data)
  BY DEF Clock, CoreCycle
<1>2. x' \in Reg
  BY <1>1 DEF RegisterCycle, wb_wen, MemWb
<1>3. DOMAIN muldiv' = {"st", "a"} /\ muldiv'.a \in Reg
  <2>1. 0 \in Reg
    BY Weights DEF Reg
  <2>2. muldiv_stall => id_ex.op \in Reg
    BY DEF muldiv_stall, IdEx
  <2> QED
    BY <1>1, <2>1, <2>2 DEF MulDivCycle, MulDiv!UnitCycle
<1>4. ram' \in [0 .. 3 -> Byte]
  <2>1. CASE Answering(dn_resp) /\ req_q.kind = "store"
    <3>1. state # "IDLE" /\ IPORT # DPORT
      BY <2>1 DEF Answering
    <3>2. DServed
      BY <2>1, <3>1 DEF Path, Lockstep, FetchServed, IServed, DServed, icreq
    <3>3. /\ req_q = dcreq(ex_mem) /\ pending /\ cur(ex_mem) = ex_mem /\ ex_mem # NoOp
      BY <3>2 DEF Path, StageServed, Spacing, StageCopy, IsMem, cur
    <3>4. req_q.data = dreq_data(ex_mem)
      BY <2>1, <3>3 DEF dcreq, dreq_valid, cur_is_mem, addr_misaligned, Spacing, StageCopy
    <3>5. ASSUME NEW l \in 0 .. 3, l \in DOMAIN req_q.data PROVE req_q.data[l] \in Byte
      <4> DEFINE v == shifted_store_data(ex_mem)
      <4>1. req_q.data[l] = (v \div Weight(l)) % BYTE
        BY <3>4, <3>5 DEF dreq_data
      <4>2. v \in Int
        <5>1. ex_mem.store_data \in Int /\ byte_off(ex_mem) \in 0 .. 3
          BY <3>3, SimTopAssumption DEF ExMem, Reg, byte_off
        <5>2. Weight(byte_off(ex_mem)) \in Int
          BY <5>1, Weights
        <5>3. ex_mem.store_data * Weight(byte_off(ex_mem)) \in Int
          BY <5>1, <5>2
        <5> QED
          BY <5>3, Weights DEF shifted_store_data
      <4>3. Weight(l) \in Nat \ {0} /\ BYTE \in Nat \ {0}
        BY Weights
      <4> HIDE DEF v
      <4>4. v \div Weight(l) \in Int
        BY <4>2, <4>3
      <4> QED
        BY <4>1, <4>3, <4>4 DEF Byte
    <3> QED
      BY <1>1, <3>5 DEF RamCycle
  <2>2. CASE ~(Answering(dn_resp) /\ req_q.kind = "store")
    BY <1>1, <2>2 DEF RamCycle
  <2> QED
    BY <2>1, <2>2
<1> QED
  BY <1>2, <1>3, <1>4

\* A load that is answered is given the word.
LEMMA LoadAnswered ==
    ASSUME Types, Spacing, Path, NEW dn_resp, NEW data, NEW io, Clock(dn_resp, data, io),
           IsMem(ex_mem), ex_mem.is_load, ~ex_mem.is_store,
           io.dr.data_ok, ~io.dr.fault
    PROVE  data = ValueOf(ram) /\ io.dr.data = data
<1>1. dn_resp \in {NoResp, OK} /\ io.dr = dresp(dn_resp, data) /\ data \in ReadData(dn_resp)
  BY DEF Clock
<1>2. DServed /\ Answering(dn_resp) /\ io.dr.data = data
  BY <1>1, PortResponse
<1>3. req_q = dcreq(ex_mem) /\ cur(ex_mem) = ex_mem /\ addr_aligned(ex_mem)
  BY <1>2 DEF Path, StageServed, Spacing, StageCopy, cur
<1>4. req_q.kind = "load"
  BY <1>3 DEF dcreq, dreq_valid, cur_is_mem, addr_misaligned
<1> QED
  BY <1>1, <1>2, <1>4 DEF ReadData, Answering, Walking

\* What a load cuts out of a word fits a register.
LEMMA LoadInReg ==
    ASSUME NEW op \in ExMem, NEW data \in Int
    PROVE  load_result(op, data) \in Reg
<1> DEFINE q      == data \div Weight(byte_off(op))
           values == Weight(op.mem_size)
           low    == q % values
<1>1. byte_off(op) \in 0 .. 3 /\ op.mem_size \in {1, 2, 4}
  BY SimTopAssumption DEF ExMem, byte_off
<1>2. Weight(byte_off(op)) \in Nat \ {0} /\ values \in Nat \ {0} /\ values <= W4 /\ W4 \in Nat
  BY <1>1, Weights
<1>3. q \in Int
  BY <1>2
<1> HIDE DEF q, values
<1>4. low \in 0 .. values - 1
  BY <1>2, <1>3
<1>5. load_result(op, data) = low \/ (load_result(op, data) = low + W4 - values)
  BY Weights DEF load_result, low, q, values
<1> HIDE DEF low
<1> QED
  BY <1>2, <1>4, <1>5, Weights DEF Reg

\* What EX and MEM hand on.
LEMMA ExecutedType ==
    ASSUME Types, NEW io, id_ex # NoOp
    PROVE  /\ Executed(io) \in ExMem /\ ~(Executed(io).is_load /\ Executed(io).is_store)
           /\ Executed(io).csr_we => /\ is_csr(Executed(io).instr)
                                     /\ Fits(Executed(io).instr.csr, Executed(io).csr_new)
<1> DEFINE i == id_ex.instr
<1>1. id_ex \in IdEx /\ i \in Instr /\ i.imm \in Int /\ i.op \in Op /\ id_ex.pc \in Int /\ id_ex.op \in Reg
  BY DEF Types, StageTypes, IdEx, Instr
<1>2. ex_result \in Reg
  BY Forwarded
<1>3. is_csr(i) => /\ Fits(i.csr, CsrNew(i, csr_fwd(i.csr))) /\ csr_fwd(i.csr) \in CsrValue
                   /\ CsrNew(i, csr_fwd(i.csr)) \in CsrValue
  <2> SUFFICES ASSUME is_csr(i)
               PROVE  /\ Fits(i.csr, CsrNew(i, csr_fwd(i.csr))) /\ csr_fwd(i.csr) \in CsrValue
                      /\ CsrNew(i, csr_fwd(i.csr)) \in CsrValue
    OBVIOUS
  <2>1. i.op = "csr" /\ i.csr \in CsrName
    BY <1>1 DEF is_csr, Instr
  <2>2. Fits(i.csr, csr_fwd(i.csr))
    BY <2>1, Forwarded
  <2>3. csr_fwd(i.csr) \in CsrValue
    BY <2>1, <2>2 DEF Fits, CsrName, CsrValue
  <2> QED
    BY <1>1, <2>1, <2>2, <2>3, CsrNewFits
<1>4. mem_size(i) \in {1, 2, 4}
  BY DEF mem_size
<1>5. Executed(io) \in ExMem
  BY <1>1, <1>2, <1>3, <1>4
  DEF Executed, ExMem, reg_write, is_load, is_store, load_unsigned, is_csr
<1>6. Executed(io).csr_we => /\ is_csr(Executed(io).instr)
                             /\ Fits(Executed(io).instr.csr, Executed(io).csr_new)
  BY <1>3 DEF Executed
<1>7. ~(Executed(io).is_load /\ Executed(io).is_store)
  BY DEF Executed, is_load, is_store
<1> QED
  BY <1>5, <1>6, <1>7

\* What MEM hands on to WB fits its registers.
LEMMA AccessedType ==
    ASSUME Types, Spacing, Path, NEW dn_resp, NEW data, NEW io, Clock(dn_resp, data, io),
           ~waits(io), ex_mem # NoOp
    PROVE  /\ Accessed(io) \in MemWb
           /\ Accessed(io).csr_we => /\ is_csr(Accessed(io).instr)
                                     /\ Fits(Accessed(io).instr.csr, Accessed(io).csr_new)
<1>1. cur(ex_mem) = ex_mem /\ ex_mem \in ExMem
  BY DEF cur, Spacing, StageCopy, Types, StageTypes
<1> DEFINE res == IF ex_mem.is_load /\ out_reg_write(ex_mem, io.dr)
                  THEN load_result(ex_mem, io.dr.data) ELSE ex_mem.result
<1>2. res \in Reg
  <2>1. CASE ex_mem.is_load /\ out_reg_write(ex_mem, io.dr)
    <3>1. IsMem(ex_mem) /\ io.dr.data_ok /\ ~io.dr.fault
      BY <1>1, <2>1 DEF out_reg_write, out_fault, IsMem, waits, mem_wait, cur_done, cur_is_mem,
                        addr_misaligned, resp_fire
    <3>2. io.dr.data \in Int
      <4>1. io.dr.data = ValueOf(ram) /\ ram \in [0 .. 3 -> Byte]
        BY <1>1, <2>1, <3>1, LoadAnswered DEF IsMem, Types, StageTypes, RegTypes
      <4>2. ValueOf(ram) = ram[0] + BYTE * (ram[1] + BYTE * (ram[2] + BYTE * ram[3]))
        BY <4>1 DEF ValueOf
      <4>3. ram[0] \in Byte /\ ram[1] \in Byte /\ ram[2] \in Byte /\ ram[3] \in Byte
        BY <4>1
      <4>4. ValueOf(ram) \in 0 .. W4 - 1
        BY <4>2, <4>3, Bytes4
      <4> QED
        BY <4>1, <4>4, Weights
    <3> QED
      BY <1>1, <2>1, <3>2, LoadInReg
  <2> QED
    BY <1>1, <2>1 DEF ExMem
<1> HIDE DEF res
<1>3. Accessed(io) = [pc |-> ex_mem.pc, instr |-> ex_mem.instr,
                      reg_write |-> out_reg_write(ex_mem, io.dr), result |-> res,
                      csr_we |-> ex_mem.csr_we, csr_new |-> ex_mem.csr_new]
  BY <1>1 DEF Accessed, res
<1> QED
  BY <1>1, <1>2, <1>3 DEF ExMem, MemWb, Types, StageTypes, out_reg_write

\* What decode hands on to EX fits its registers.
LEMMA DecodedType ==
    ASSUME Types, NEW io, if_id.valid
    PROVE  Decoded(io) \in IdEx
<1> USE DEF Types, StageTypes
<1>1. id_op_pre \in Reg /\ dec_pred_target \in Int /\ if_id.instr \in Instr
  BY Forwarded, Values DEF dec_pred_target
<1>2. is_jump(if_id.instr) \/ (is_branch(if_id.instr) /\ io.taken) \in BOOLEAN
  BY DEF is_jump, is_branch
<1> QED
  BY <1>1, <1>2 DEF Decoded, IdEx

\* What becomes of the pipeline registers.
LEMMA StageTypesStep ==
    ASSUME Types, Spacing, Path, NEW dn_resp, NEW data, NEW io, Clock(dn_resp, data, io)
    PROVE  StageTypes'
<1> USE DEF Types, StageTypes
<1>0. CoreCycle(io) /\ arch_pc_q' \in Int
  BY TrapTypes DEF Clock, CoreCycle
<1>1. /\ Bubble.valid = FALSE /\ Bubble.pc = if_id.pc
  BY DEF Bubble, Spacing, Shape
<1>2. if_id.valid => Decoded(io) \in IdEx
  BY DecodedType
<1>3. fetch_accept(io) => fetch_pc \in Int /\ fetch_instr \in Instr
  BY DEF fetch_accept, fetch_valid, fetch_pc, fetch_instr, FetchTypes
<1>4. CASE Halt
  BY <1>0, <1>1, <1>4, CoreAssumption DEF Halt
<1>5. CASE Wait(io)
  BY <1>0, <1>5 DEF Wait
<1>6. CASE Advance(io)
  <2>1. /\ if_id'.valid \in BOOLEAN /\ if_id'.pc \in Int
        /\ if_id'.valid => if_id'.instr \in Instr
    <3>1. \/ if_id' = Bubble
          \/ if_id' = if_id
          \/ fetch_accept(io) /\ if_id' = [valid |-> TRUE, pc |-> fetch_pc, instr |-> fetch_instr]
      BY <1>6 DEF Advance
    <3>2. CASE if_id' = Bubble
      BY <1>1, <3>2
    <3>3. CASE if_id' = if_id
      BY <3>3
    <3>4. CASE fetch_accept(io) /\ if_id' = [valid |-> TRUE, pc |-> fetch_pc, instr |-> fetch_instr]
      <4> DEFINE r == [valid |-> TRUE, pc |-> fetch_pc, instr |-> fetch_instr]
      <4>1. r.valid = TRUE /\ r.pc = fetch_pc /\ r.instr = fetch_instr
        OBVIOUS
      <4> HIDE DEF r
      <4>2. if_id' = r
        BY <3>4 DEF r
      <4> QED
        BY <1>3, <3>4, <4>1, <4>2
    <3> QED
      BY <3>1, <3>2, <3>3, <3>4
  <2>2. id_ex' \in IdEx \union {NoOp}
    BY <1>2, <1>6 DEF Advance, decode_pred_redirect
  <2>3. /\ ex_mem' \in ExMem \union {NoOp}
        /\ ~(ex_mem' # NoOp /\ ex_mem'.is_load /\ ex_mem'.is_store)
        /\ ex_mem' # NoOp /\ ex_mem'.csr_we =>
              is_csr(ex_mem'.instr) /\ Fits(ex_mem'.instr.csr, ex_mem'.csr_new)
    BY <1>6, ExecutedType DEF Advance, ex_passes
  <2>4. /\ mem_wb' \in MemWb \union {NoOp}
        /\ mem_wb' # NoOp /\ mem_wb'.csr_we =>
              is_csr(mem_wb'.instr) /\ Fits(mem_wb'.instr.csr, mem_wb'.csr_new)
    <3>1. out_valid(ex_mem, io.dr) => ex_mem # NoOp
      BY DEF out_valid, cur, Spacing, StageCopy, IsMem
    <3> QED
      BY <1>6, <3>1, AccessedType DEF Advance
  <2> QED
    BY <1>0, <2>1, <2>2, <2>3, <2>4
<1> QED
  BY <1>0, <1>4, <1>5, <1>6 DEF CoreCycle

\* A cycle keeps every value within its width.
LEMMA NextTypes == Types /\ Spacing /\ Path /\ Program /\ [Next]_vars => Types'
<1> SUFFICES ASSUME Types, Spacing, Path, Program, [Next]_vars PROVE Types'
  OBVIOUS
<1>1. CASE Next
  <2>1. PICK dn_resp, data, io : Clock(dn_resp, data, io)
    BY <1>1, NextClock
  <2>2. CsrCycle(io) /\ PrivCycle(io)
    BY <2>1 DEF Clock, CoreCycle
  <2> QED
    BY <2>1, <2>2, CsrTypesStep, FetchTypesStep, RegTypesStep, StageTypesStep DEF Types
<1>2. CASE UNCHANGED vars
  BY <1>2 DEF vars, coreVars, pathVars, Types, FetchTypes, CsrTypes, RegTypes, StageTypes
<1> QED
  BY <1>1, <1>2

\* Every value fits its register throughout.
LEMMA SafetyTypes == Safety => []Types
BY InitTypes, NextTypes, SafetySpacing, SafetyPath, SafetyProgram, PTL DEF Safety

-----------------------------------------------------------------------------
(* The privilege fetch asks with.  mmu_priv leaves priv_mode behind when a *)
(* fetch faults or is misaligned in U mode: that trap does not count as a  *)
(* redirect.  Where that does not happen the two are the same.             *)

\* No fetch fails in U mode.
UserFetches == priv_mode = PRV_U => ~ifetch_trap_flush

Fires(io) == \/ interrupt_fire(io) \/ mem_fault_fire(io) \/ mem_misalign_fire(io)
             \/ illegal_fire(io) \/ ecall_fire(io)

\* A trap is that of an instruction in the pipeline, or of the one fetched.
LEMMA TrapFires ==
    ASSUME NEW io
    PROVE  Trap(io) # NoTrap <=> Fires(io) \/ ifetch_trap_flush
<1>1. ASSUME NEW cause, NEW pc, NEW tval PROVE TrapOf(cause, pc, tval) # NoTrap
  <2>1. DOMAIN TrapOf(cause, pc, tval) # DOMAIN NoTrap
    BY DEF TrapOf, NoTrap
  <2> QED
    BY <2>1
<1> QED
  BY <1>1 DEF Trap, Fires, ifetch_trap_flush

\* The instruction in EX does not wait for memory: nothing is before it in MEM.
LEMMA ExecuteAlone ==
    ASSUME Spacing, id_ex # NoOp, NEW io
    PROVE  /\ ~waits(io) /\ cur(ex_mem) = NoOp
           /\ ~mem_fault_fire(io) /\ ~mem_misalign_fire(io) /\ ~illegal_fire(io)
           /\ ~csrsi_opens_mie_ex /\ ~ex_mem_is_wrong_path /\ ~out_valid(ex_mem, io.dr)
BY DEF Spacing, InExecute, StageCopy, IsMem, waits, mem_wait, cur_is_mem, cur, mem_fault_fire,
       mem_misalign_fire, out_valid, illegal_fire, csrsi_opens_mie_ex, Writes,
       ex_mem_is_wrong_path

PrivSame == mmu_priv = priv_mode
Front    == PrivSame /\ FetchPrivilege

\* While no fetch fails in U mode, what is in front of a redirect is dropped
\* before the privilege it was fetched with matters.
LEMMA FrontStep ==
    ASSUME Types, Spacing, Front, UserFetches,
           NEW dn_resp, NEW data, NEW io, Clock(dn_resp, data, io)
    PROVE  Front'
<1> DEFINE kick == fetch_redirect_valid(io) \/ ifetch_trap_flush
<1>1. PrivCycle(io) /\ CsrCycle(io) /\ FetchCycle(ctl(io), iresp(dn_resp, data))
  BY DEF Clock, CoreCycle, PathCycle
<1>2. priv_mode # PRV_U => priv_mode = PRV_M
  BY DEF Types, CsrTypes, Priv
<1>3. Fires(io) /\ ~cpu_halt => fetch_redirect_valid(io)
  BY DEF Fires, fetch_redirect_valid
<1>4. cpu_halt => Trap(io) = NoTrap /\ ~mret_fire(io) /\ ~fetch_redirect_valid(io)
  BY TrapFires DEF Fires, interrupt_fire, mem_fault_fire, mem_misalign_fire, illegal_fire,
     ecall_fire, ifetch_trap_flush, instr_fault_fire, instr_misalign_fire, mret_fire,
     fetch_redirect_valid
<1>5. /\ id_ex # NoOp /\ fetch_redirect_valid(io) /\ id_ex.instr.op = "mret" <=> mret_fire(io)
      /\ id_ex # NoOp /\ fetch_redirect_valid(io) /\ id_ex.instr.op = "ecall" <=> ecall_fire(io)
  BY ExecuteAlone DEF mret_fire, ecall_fire, fetch_redirect_valid
<1>6. ecall_fire(io) => Trap(io) # NoTrap
  BY TrapFires DEF Fires
<1>7. PrivSame'
  BY <1>1, <1>2, <1>3, <1>4, <1>5, <1>6, TrapFires
  DEF PrivCycle, CsrCycle, PrivSame, UserFetches
<1>8. FetchPrivilege'
  <2>1. ctl(io).current_priv = mmu_priv /\ ctl(io).redirect_valid = fetch_redirect_valid(io)
        /\ ctl(io).flush = ifetch_trap_flush
    BY DEF ctl
  <2>2. CASE kick
    <3>1. fetch'.req_pending_q => fetch'.drop_resp_q
      BY <1>1, <2>1, <2>2, FetchMoves DEF Spacing, start_request
    <3> QED
      BY <3>1 DEF FetchPrivilege
  <2>3. CASE ~kick
    <3>1. priv_mode' = priv_mode
      BY <1>1, <1>3, <1>4, <2>3, TrapFires DEF CsrCycle, mret_fire, fetch_redirect_valid
    <3>2. fetch'.req_pending_q /\ ~fetch'.drop_resp_q =>
             \/ fetch'.req_priv_q = mmu_priv
             \/ /\ fetch'.req_priv_q = fetch.req_priv_q
                /\ fetch.req_pending_q /\ ~fetch.drop_resp_q
      BY <1>1, <2>1, <2>3, FetchMoves DEF Spacing
    <3> QED
      BY <3>1, <3>2 DEF Front, PrivSame, FetchPrivilege
  <2> QED
    BY <2>2, <2>3
<1> QED
  BY <1>7, <1>8 DEF Front

\* The privilege the front was fetched with is the one in force, or the front
\* is being dropped.
LEMMA SafetyFront == Safety /\ []UserFetches => []Front
<1>1. Init => Front
  BY DEF Init, CoreInit, PathInit, FetchInit, Front, PrivSame, FetchPrivilege
<1>2. Types /\ Spacing /\ UserFetches /\ Front /\ [Next]_vars => Front'
  <2>1. Types /\ Spacing /\ UserFetches /\ Front /\ Next => Front'
    BY NextClock, FrontStep
  <2>2. Front /\ UNCHANGED vars => Front'
    BY DEF vars, coreVars, pathVars, Front, PrivSame, FetchPrivilege
  <2> QED
    BY <2>1, <2>2
<1> QED
  BY <1>1, <1>2, SafetyTypes, SafetySpacing, PTL DEF Safety

\* Where no fetch fails in U mode, what is fetched and used was asked for with the
\* privilege that holds now: mmu_priv is ahead of priv_mode in the cycle of every
\* redirect.
THEOREM CoreFetchPrivilege == Safety /\ []UserFetches => []FetchPrivilege
<1>1. Front => FetchPrivilege
  BY DEF Front
<1> QED
  BY <1>1, SafetyFront, PTL

-----------------------------------------------------------------------------
(* How old what fetch holds is, seen from the stages: an instruction that  *)
(* is not a multiplication has left nothing behind it in fetch but what    *)
(* was asked for after it was decoded.                                     *)

\* Where the content of each pipeline register comes from.
LEMMA Moves ==
    ASSUME Spacing, NEW io, CoreCycle(io)
    PROVE  /\ if_id'.valid => /\ fetch_accept(io) /\ fetch.data_valid_q /\ ~wb_is_trap
                              /\ if_id'.pc = fetch_pc /\ if_id'.instr = fetch_instr
                              /\ ~pipeline_flush_young(io)
           /\ id_ex' # NoOp => /\ ~pipeline_flush_young(io) /\ ~wb_is_trap /\ ~waits(io)
                               /\ \/ if_id.valid /\ id_ex' = Decoded(io)
                                  \/ muldiv_stall /\ id_ex' = id_ex
           /\ ex_mem' # NoOp => /\ ~wb_is_trap
                                /\ \/ ex_passes /\ ex_mem' = Executed(io) /\ ~waits(io)
                                   \/ waits(io) /\ IsMem(ex_mem) /\ Wait(io) /\ ex_mem' = ex_mem
           /\ mem_wb' # NoOp => /\ ex_mem # NoOp /\ ~waits(io) /\ ~wb_is_trap
                                /\ out_valid(ex_mem, io.dr) /\ ~csr_replaced(io)
                                /\ mem_wb' = Accessed(io)
           /\ cpu_halt' => cpu_halt \/ wb_is_trap
<1> USE DEF Spacing, Shape
<1>1. waits(io) => IsMem(ex_mem) /\ id_ex = NoOp /\ ~if_id.valid
  BY DEF waits, mem_wait, cur_is_mem, cur, StageCopy, IsMem, InExecute, InDecode
<1>2. Bubble.valid = FALSE
  BY DEF Bubble
<1>3. out_valid(ex_mem, io.dr) => ex_mem # NoOp
  BY DEF out_valid, cur, StageCopy, IsMem
<1>4. CASE Halt
  BY <1>2, <1>4 DEF Halt
<1>5. CASE Wait(io)
  BY <1>1, <1>5 DEF Wait
<1>6. CASE Advance(io)
  <2>1. ~wb_is_trap /\ ~waits(io) /\ cpu_halt' = cpu_halt
    BY <1>6 DEF Advance
  <2>2. mem_wb' # NoOp => /\ out_valid(ex_mem, io.dr) /\ ~csr_replaced(io)
                          /\ mem_wb' = Accessed(io)
    BY <1>6 DEF Advance
  <2>3. ex_mem' # NoOp => ex_passes /\ ex_mem' = Executed(io)
    BY <1>6 DEF Advance
  <2>4. id_ex' # NoOp => /\ ~pipeline_flush_young(io)
                         /\ \/ if_id.valid /\ id_ex' = Decoded(io)
                            \/ muldiv_stall /\ id_ex' = id_ex
    BY <1>6 DEF Advance, decode_pred_redirect
  <2>5. if_id'.valid => /\ fetch_accept(io) /\ ~pipeline_flush_young(io)
                        /\ if_id' = [valid |-> TRUE, pc |-> fetch_pc, instr |-> fetch_instr]
    <3>1. if_id.valid => ~load_use_hazard /\ ~muldiv_stall
      BY DEF load_use_hazard, muldiv_stall, InDecode, IsMem
    <3>2. load_use_hazard => if_id.valid
      BY DEF load_use_hazard
    <3> QED
      BY <1>2, <1>6, <3>1, <3>2 DEF Advance
  <2>6. if_id'.valid => if_id'.pc = fetch_pc /\ if_id'.instr = fetch_instr
    BY <2>5
  <2>7. fetch_accept(io) => fetch.data_valid_q
    BY DEF fetch_accept, fetch_valid
  <2> QED
    BY <1>3, <2>1, <2>2, <2>3, <2>4, <2>5, <2>6, <2>7
<1> QED
  BY <1>4, <1>5, <1>6 DEF CoreCycle

Mul(op)     == is_muldiv(op.instr)
Accesses(i) == i.op \in {"load", "store"}
Mem(op)     == Accesses(op.instr)
CsrSatp(op) == is_csr(op.instr) /\ op.instr.csr = "satp"
Dropping    == fetch.req_pending_q /\ fetch.drop_resp_q

DecodeAge  == if_id.valid => ~fetch.fault_q
ExecuteAge == id_ex # NoOp =>
                 /\ ~Mul(id_ex) => ~IServed /\ ~fetch.fault_q
                 /\ ~Mul(id_ex) /\ ~is_ctrl(id_ex.instr) => fetch.req_pending_q
                 /\ mem_wb # NoOp => Mul(mem_wb)
MemoryAge  == ex_mem # NoOp =>
                 /\ IsMem(ex_mem) <=> Mem(ex_mem)
                 /\ ~Mul(ex_mem) => ~if_id.valid
                 /\ ~Mul(ex_mem) /\ ~Mem(ex_mem) =>
                       ~fetch.data_valid_q /\ (IServed => state = "CHECK")
                 /\ CsrSatp(ex_mem) => Dropping
WriteAge   == mem_wb # NoOp =>
                 /\ ~Mul(mem_wb) /\ ~Mem(mem_wb) => ~if_id.valid /\ ~fetch.data_valid_q
                 /\ CsrSatp(mem_wb) => Dropping
Halted     == cpu_halt => ~if_id.valid /\ id_ex = NoOp /\ ex_mem = NoOp /\ mem_wb = NoOp

Ages == DecodeAge /\ ExecuteAge /\ MemoryAge /\ WriteAge /\ Halted

\* At reset there is nothing to have an age.
LEMMA InitAges == Init => Ages
BY DEF Init, CoreInit, Ages, DecodeAge, ExecuteAge, MemoryAge, WriteAge, Halted

\* What a cycle makes of fetch, by what the core does and by the port that is served.
LEMMA FetchOutcome ==
    ASSUME Spacing, Path, NEW dn_resp, NEW data, NEW io, Clock(dn_resp, data, io)
    PROVE  LET kick  == fetch_redirect_valid(io) \/ ifetch_trap_flush
               fire  == response_fire(iresp(dn_resp, data))
               start == /\ ~cpu_halt /\ ~kick
                        /\ ~fetch.req_pending_q /\ ~fetch.data_valid_q
           IN  /\ fire <=> IServed /\ (state = "FAULT" \/ Answering(dn_resp))
                           /\ ~fetch.data_ok_prev_q
               /\ iresp(dn_resp, data).fault <=> IServed /\ state = "FAULT"
               /\ fetch'.fault_q <=> ~kick /\ fire /\ ~fetch.drop_resp_q /\ state = "FAULT"
               /\ fetch'.data_valid_q <=>
                     /\ ~kick
                     /\ \/ fire /\ ~fetch.drop_resp_q /\ state # "FAULT"
                        \/ ~fire /\ fetch.data_valid_q /\ ~fetch_accept(io)
               /\ fetch'.req_pending_q <=> (fetch.req_pending_q /\ ~fire) \/ start
               /\ fetch'.drop_resp_q <=> ~fire /\ fetch.req_pending_q
                                         /\ (fetch.drop_resp_q \/ kick)
               /\ fetch'.pc_q = IF kick THEN redirect_pc(io)
                                ELSE IF fetch_accept(io) THEN fetch.data_pc_q + 4 ELSE fetch.pc_q
               /\ fetch'.req_pc_q = IF start THEN fetch.pc_q ELSE fetch.req_pc_q
               /\ fetch'.req_priv_q = IF start THEN mmu_priv ELSE fetch.req_priv_q
               /\ IF ~kick /\ fire /\ ~fetch.drop_resp_q /\ state # "FAULT"
                  THEN fetch'.data_pc_q = fetch.req_pc_q /\ fetch'.instr_q = data
                  ELSE UNCHANGED <<fetch.data_pc_q, fetch.instr_q>>
<1> DEFINE ir   == iresp(dn_resp, data)
           fire == response_fire(ir)
<1>1. FetchCycle(ctl(io), ir) /\ dn_resp \in {NoResp, OK}
  BY DEF Clock, PathCycle
<1>2. /\ ctl(io).redirect_valid = fetch_redirect_valid(io) /\ ctl(io).flush = ifetch_trap_flush
      /\ ctl(io).redirect_pc = redirect_pc(io) /\ ctl(io).fetch_accept = fetch_accept(io)
      /\ ctl(io).current_priv = mmu_priv /\ ctl(io).stop_fetch = cpu_halt
  BY DEF ctl
<1>3. /\ ir.data_ok <=> IServed /\ (state = "FAULT" \/ Answering(dn_resp))
      /\ ir.fault <=> IServed /\ state = "FAULT"
      /\ ir.data = data
  BY <1>1, PortResponse
<1>4. /\ IServed => fetch.req_pending_q
      /\ fetch.drop_resp_q => fetch.req_pending_q
      /\ fetch_accept(io) => fetch.data_valid_q
      /\ ~(fetch.req_pending_q /\ fetch.data_valid_q)
      /\ Shape /\ FetchSlot
  BY DEF Path, FetchServed, Tidy, fetch_accept, fetch_valid, Spacing, FetchSlot
<1>5. /\ fire <=> ir.data_ok /\ ~fetch.data_ok_prev_q
      /\ fire => fetch.req_pending_q
      /\ start_request(ctl(io)) <=> /\ ~cpu_halt /\ ~fetch_redirect_valid(io) /\ ~ifetch_trap_flush
                                    /\ ~fetch.req_pending_q /\ ~fetch.data_valid_q
  BY <1>2, <1>3, <1>4 DEF response_fire, start_request
<1> HIDE DEF ir, fire
<1>6. /\ fire => IServed
      /\ fire => (ir.fault <=> state = "FAULT")
  BY <1>3, <1>5
<1> QED
  BY <1>1, <1>2, <1>3, <1>4, <1>5, <1>6, FetchMoves DEF ir, fire

\* A port is served next only if it asks now.
LEMMA ServedNext ==
    ASSUME Path, NEW dn_resp, NEW data, NEW io, Clock(dn_resp, data, io)
    PROVE  /\ IServed' => fetch.req_pending_q
           /\ IServed' /\ ~IServed => state' = "CHECK" /\ satp_q' = csr.satp
           /\ IServed' /\ IServed => /\ ~(state = "FAULT" \/ Answering(dn_resp))
                                     /\ satp_q' = satp_q
<1>1. CASE IServed
  BY <1>1, BusCycle DEF IServed, Path, FetchServed
<1>2. CASE ~IServed /\ IServed'
  <2>1. ~busy /\ busy' /\ index' = IPORT
    BY <1>2, BusCycle DEF IServed, Path
  <2>2. /\ req_q' = creqs(ex_mem)[IPORT] /\ req_q' # NoRequest
        /\ state' = "CHECK" /\ satp_q' = csr.satp
    BY <2>1, BusCycle DEF Path
  <2>3. fetch.req_pending_q
    BY <2>2 DEF creqs, icreq
  <2> QED
    BY <1>2, <2>2, <2>3
<1> QED
  BY <1>1, <1>2
\* A request of fetch is no older than the write that decides what it finds,
\* or it is dropped.
LEMMA AgesStep ==
    ASSUME Types, Spacing, Path, Ages,
           NEW dn_resp, NEW data, NEW io, Clock(dn_resp, data, io)
    PROVE  Ages'
<1> DEFINE fire == response_fire(iresp(dn_resp, data))
           kick == fetch_redirect_valid(io) \/ ifetch_trap_flush
<1>0. CoreCycle(io)
  BY DEF Clock
<1>1. /\ fire => IServed /\ (state = "FAULT" \/ Answering(dn_resp)) /\ fetch.req_pending_q
      /\ fetch'.fault_q => fire
      /\ fetch'.data_valid_q => fire \/ fetch.data_valid_q
      /\ fetch.req_pending_q /\ ~fire => /\ fetch'.req_pending_q
                                         /\ kick \/ fetch.drop_resp_q => fetch'.drop_resp_q
      /\ ~cpu_halt /\ ~kick /\ ~fetch.req_pending_q /\ ~fetch.data_valid_q => fetch'.req_pending_q
  BY FetchOutcome DEF response_fire
<1>2. /\ IServed' => fetch.req_pending_q
      /\ IServed' /\ ~IServed => state' = "CHECK"
  BY ServedNext
<1>3. ~(fetch.req_pending_q /\ fetch.data_valid_q)
  BY DEF Spacing, FetchSlot
<1> HIDE DEF fire, kick
<1>4. DecodeAge'
  BY <1>0, <1>1, <1>3, Moves DEF DecodeAge
<1>5. ExecuteAge'
  <2> SUFFICES ASSUME id_ex' # NoOp PROVE ExecuteAge'
    BY DEF ExecuteAge
  <2>1. CASE if_id.valid /\ id_ex' = Decoded(io)
    <3>1. /\ ~fetch.req_pending_q /\ ~fetch.data_valid_q /\ ~fetch.fault_q /\ ~cpu_halt
          /\ id_ex = NoOp /\ id_ex'.instr = if_id.instr
      BY <2>1 DEF Ages, DecodeAge, Halted, Spacing, InDecode, Decoded
    <3>2. ~IServed' /\ ~fetch'.fault_q
      BY <1>1, <1>2, <3>1
    <3>3. ~is_ctrl(if_id.instr) => ~kick
      <4>1. ~pipeline_flush_young(io)
        BY <1>0, Moves
      <4>2. ~Fires(io) /\ ~mret_fire(io) /\ ~csr_redirect_valid /\ ~branch_mispredict
        BY <4>1, TrapFires DEF pipeline_flush_young, trap_redirect_valid
      <4>3. ~is_ctrl(if_id.instr) => ~decode_pred_redirect(io)
        BY DEF decode_pred_redirect, is_ctrl
      <4>4. ~ifetch_trap_flush
        BY <3>1 DEF ifetch_trap_flush, instr_fault_fire, instr_misalign_fire, fetch_fault,
                    fetch_valid
      <4> QED
        BY <4>2, <4>3, <4>4 DEF kick, fetch_redirect_valid, Fires
    <3>4. mem_wb' # NoOp => Mul(mem_wb')
      <4>1. mem_wb' # NoOp => /\ ex_mem # NoOp /\ mem_wb' = Accessed(io)
        BY <1>0, Moves
      <4>2. Accessed(io).instr = ex_mem.instr
        BY DEF Accessed, cur, Spacing, StageCopy
      <4> QED
        BY <2>1, <4>1, <4>2 DEF Ages, MemoryAge, Mul
    <3> QED
      BY <1>1, <3>1, <3>2, <3>3, <3>4 DEF ExecuteAge, Mul
  <2>2. CASE muldiv_stall /\ id_ex' = id_ex
    <3>1. id_ex # NoOp /\ Mul(id_ex) /\ ex_mem = NoOp
      BY <2>2 DEF muldiv_stall, Mul, Spacing, InExecute
    <3> QED
      BY <1>0, <2>2, <3>1, Moves DEF ExecuteAge, Mul
  <2> QED
    BY <1>0, <2>1, <2>2, Moves
<1>6. MemoryAge'
  <2> SUFFICES ASSUME ex_mem' # NoOp PROVE MemoryAge'
    BY DEF MemoryAge
  <2>1. CASE ex_passes /\ ex_mem' = Executed(io) /\ ~waits(io)
    <3>1. /\ id_ex # NoOp /\ ~cpu_halt
          /\ ~Mul(id_ex) => ~fetch.data_valid_q /\ ~IServed
      BY <2>1 DEF ex_passes, Ages, Halted, ExecuteAge, Spacing, InExecute, Mul
    <3>2. /\ ex_mem'.instr = id_ex.instr
          /\ ex_mem'.is_load = is_load(id_ex.instr) /\ ex_mem'.is_store = is_store(id_ex.instr)
      BY <2>1 DEF Executed
    <3>3. IsMem(ex_mem') <=> Mem(ex_mem')
      BY <3>2 DEF IsMem, Mem, Accesses, is_load, is_store
    <3>4. ~Mul(ex_mem') => ~if_id'.valid
      BY <1>0, <3>1, <3>2, Moves DEF Mul
    <3>5. ~Mul(ex_mem') => ~fetch'.data_valid_q /\ (IServed' => state' = "CHECK")
      BY <1>1, <1>2, <3>1, <3>2 DEF Mul
    <3>6. CsrSatp(ex_mem') => Dropping'
      <4> SUFFICES ASSUME CsrSatp(ex_mem') PROVE Dropping'
        OBVIOUS
      <4>1. is_csr(id_ex.instr) /\ id_ex.instr.csr = "satp"
        BY <3>2 DEF CsrSatp
      <4>2. ~Mul(id_ex) /\ ~is_ctrl(id_ex.instr)
        BY <4>1 DEF Mul, is_csr, is_muldiv, is_ctrl, is_branch, is_jump
      <4>3. kick
        BY <3>1, <4>1 DEF kick, fetch_redirect_valid, csr_redirect_valid
      <4>4. fetch.req_pending_q /\ ~fire
        BY <1>1, <3>1, <4>2 DEF Ages, ExecuteAge
      <4> QED
        BY <1>1, <4>3, <4>4 DEF Dropping
    <3> QED
      BY <3>3, <3>4, <3>5, <3>6 DEF MemoryAge
  <2>2. CASE waits(io) /\ IsMem(ex_mem) /\ Wait(io) /\ ex_mem' = ex_mem
    <3>1. Mem(ex_mem) /\ ~is_csr(ex_mem.instr) /\ if_id' = if_id
      BY <2>2 DEF Ages, MemoryAge, IsMem, Mem, Accesses, is_csr, Wait
    <3> QED
      BY <2>2, <3>1 DEF Ages, MemoryAge, CsrSatp
  <2> QED
    BY <1>0, <2>1, <2>2, Moves
<1>7. WriteAge'
  <2> SUFFICES ASSUME mem_wb' # NoOp PROVE WriteAge'
    BY DEF WriteAge
  <2>1. ex_mem # NoOp /\ mem_wb' = Accessed(io)
    BY <1>0, Moves
  <2>2. mem_wb'.instr = ex_mem.instr
    BY <2>1 DEF Accessed, cur, Spacing, StageCopy
  <2>3. ~Mul(ex_mem) /\ ~Mem(ex_mem) => ~fetch.data_valid_q /\ ~fire
    BY <1>1, <2>1 DEF Ages, MemoryAge, Answering
  <2>4. ~Mul(mem_wb') /\ ~Mem(mem_wb') => ~if_id'.valid /\ ~fetch'.data_valid_q
    BY <1>0, <1>1, <2>2, <2>3, Moves DEF Mul, Mem
  <2>5. CsrSatp(mem_wb') => Dropping'
    <3>1. CsrSatp(ex_mem) => ~Mul(ex_mem) /\ ~Mem(ex_mem)
      BY DEF CsrSatp, Mul, Mem, Accesses, is_csr, is_muldiv
    <3>2. CsrSatp(ex_mem) => Dropping
      BY <2>1 DEF Ages, MemoryAge
    <3> QED
      BY <1>1, <2>2, <2>3, <3>1, <3>2 DEF CsrSatp, Dropping
  <2> QED
    BY <2>4, <2>5 DEF WriteAge
<1>8. Halted'
  <2>1. CASE wb_is_trap
    BY <1>0, <2>1, Moves DEF Halted
  <2>2. CASE ~wb_is_trap
    <3> SUFFICES ASSUME cpu_halt PROVE Halted'
      BY <1>0, <2>2, Moves DEF Halted
    <3>1. ~fetch_accept(io) /\ ~ex_passes /\ ~muldiv_stall /\ ex_mem = NoOp /\ ~if_id.valid
      BY DEF fetch_accept, ex_passes, muldiv_stall, Ages, Halted
    <3> QED
      BY <1>0, <3>1, Moves DEF Halted, IsMem
  <2> QED
    BY <2>1, <2>2
<1> QED
  BY <1>4, <1>5, <1>6, <1>7, <1>8 DEF Ages

\* The ages hold throughout.
LEMMA SafetyAges == Safety => []Ages
<1>1. Types /\ Spacing /\ Path /\ Ages /\ [Next]_vars => Ages'
  <2>1. Types /\ Spacing /\ Path /\ Ages /\ Next => Ages'
    BY NextClock, AgesStep
  <2>2. Ages /\ UNCHANGED vars => Ages'
    BY DEF vars, coreVars, pathVars, arbVars, mmuVars, Ages, DecodeAge, ExecuteAge, MemoryAge,
           WriteAge, Halted, Dropping, IServed, CsrSatp, Mul, Mem, IsMem
  <2> QED
    BY <2>1, <2>2
<1> QED
  BY <1>1, InitAges, SafetyTypes, SafetySpacing, SafetyPath, PTL DEF Safety

-----------------------------------------------------------------------------
(* What fetch hands to decode is the word at its address.                  *)

\* What the proofs about the reference ask of a run: in U mode the timer interrupt
\* is off and no fetch fails.
Ordinary == priv_mode = PRV_U => ~csr.mie /\ ~ifetch_trap_flush

FetchRight ==
    /\ fetch.req_pending_q /\ ~fetch.drop_resp_q /\ IServed => satp_q = csr.satp
    /\ fetch.data_valid_q => /\ fetch.instr_q = Word(prog, fetch.data_pc_q, priv_mode, csr.satp)
                             /\ fetch.instr_q # NoInstr
    /\ fetch.fault_q => priv_mode = PRV_U

\* A fetch that fails does so in M mode, for its address.
LEMMA FetchFails ==
    ASSUME Types, FetchRight, Ordinary, ifetch_trap_flush
    PROVE  /\ priv_mode = PRV_M /\ ~cpu_halt /\ instr_misalign_fire
           /\ fetch.data_valid_q /\ fetch.data_pc_q % 4 # 0
BY DEF Types, CsrTypes, Priv, FetchRight, Ordinary, ifetch_trap_flush, instr_fault_fire,
       instr_misalign_fire, fetch_fault, fetch_valid, fetch_pc

\* What an answer from memory is to a request of fetch.
LEMMA FetchAnswered ==
    ASSUME Path, Walks, Program, NEW dn_resp, NEW data, NEW io, Clock(dn_resp, data, io),
           IServed
    PROVE  /\ state = "FAULT" => fetch.req_priv_q # PRV_M
           /\ Answering(dn_resp) =>
                 /\ data = Word(prog', fetch.req_pc_q, fetch.req_priv_q, satp_q)
                 /\ data \in Instr
<1> DEFINE request == [addr |-> AddrOf(fetch.req_pc_q), kind |-> "fetch", data |-> NoData]
           seen    == SeenBy(fetch.req_priv_q, satp_q, fetch.req_pc_q, "fetch")
<1>1. req_q = request /\ req_q # NoRequest /\ priv_mode_q = fetch.req_priv_q
  BY DEF Path, FetchServed, icreq, Walks, Lockstep, IServed
<1>2. Translated = seen /\ Walk!PageFault = Sv39!PageFault
  BY <1>1 DEF Translated, SeenBy, Walk!Translate, Sv39!Translate, Walk!PageFault, Sv39!PageFault,
              Walk!Maps, Sv39!Maps, Walk!pte_is_nonleaf, Sv39!pte_is_nonleaf, PRV_M, PRV_U,
              Walk!PRV_M, Walk!PRV_U, Sv39!PRV_M, Sv39!PRV_U
<1>3. state = "FAULT" => fetch.req_priv_q # PRV_M
  <2> SUFFICES ASSUME state = "FAULT" PROVE fetch.req_priv_q # PRV_M
    OBVIOUS
  <2>1. Translated = Walk!PageFault /\ req_q.addr # Walk!PageFault
    BY <1>1 DEF Walks
  <2>2. priv_mode_q # PRV_M
    BY <2>1 DEF Translated, Walk!Translate, PRV_M, Walk!PRV_M
  <2> QED
    BY <1>1, <2>2
<1>4. ASSUME Answering(dn_resp)
      PROVE  /\ data = Word(prog', fetch.req_pc_q, fetch.req_priv_q, satp_q)
             /\ data \in Instr
  <2>1. phys_addr_q = seen /\ seen # Sv39!PageFault
    BY <1>2, <1>4 DEF Walks, Answering
  <2>2. req_q.kind = "fetch"
    BY <1>1
  <2>3. data \in Instr /\ data = InsnIn(prog', WordAddr(phys_addr_q))
    BY <1>4, <2>2, ProgramStep
  <2> HIDE DEF seen
  <2> QED
    BY <2>1, <2>3 DEF Word, seen
<1> QED
  BY <1>3, <1>4

\* The privilege changes with a redirect only, and satp while fetch drops.
LEMMA PrivSatpChange ==
    ASSUME Types, Spacing, Ages, FetchRight, Ordinary,
           NEW dn_resp, NEW data, NEW io, Clock(dn_resp, data, io)
    PROVE  /\ priv_mode' # priv_mode => fetch_redirect_valid(io)
           /\ csr'.satp # csr.satp => Dropping
<1>1. CsrCycle(io)
  BY DEF Clock, CoreCycle
<1>2. Trap(io) # NoTrap => Fires(io) \/ (ifetch_trap_flush /\ priv_mode = PRV_M)
  BY TrapFires, FetchFails
<1>3. /\ Fires(io) => ~cpu_halt
      /\ mret_fire(io) => ~cpu_halt
  BY DEF Fires, interrupt_fire, mem_fault_fire, mem_misalign_fire, illegal_fire, ecall_fire, mret_fire
<1>4. Fires(io) \/ mret_fire(io) => fetch_redirect_valid(io)
  BY <1>3 DEF Fires, fetch_redirect_valid
<1>5. priv_mode' # priv_mode => fetch_redirect_valid(io)
  BY <1>1, <1>2, <1>4 DEF CsrCycle
<1>6. csr \in CsrFile
  BY DEF Types, CsrTypes
<1>7. csr'.satp # csr.satp => Dropping
  <2>1. CASE mret_fire(io) \/ Trap(io) # NoTrap
    BY <1>1, <1>6, <2>1 DEF CsrCycle, CsrFile
  <2>2. CASE ~mret_fire(io) /\ Trap(io) = NoTrap
    <3>1. csr' = IF mem_wb # NoOp /\ mem_wb.csr_we
                 THEN [csr EXCEPT ![mem_wb.instr.csr] = mem_wb.csr_new] ELSE csr
      BY <1>1, <2>2 DEF CsrCycle
    <3>2. mem_wb # NoOp /\ mem_wb.csr_we => is_csr(mem_wb.instr)
      BY DEF Types, StageTypes
    <3>3. csr'.satp # csr.satp => mem_wb # NoOp /\ CsrSatp(mem_wb)
      BY <1>6, <3>1, <3>2 DEF CsrFile, CsrSatp
    <3> QED
      BY <3>3 DEF Ages, WriteAge
  <2> QED
    BY <2>1, <2>2
<1> QED
  BY <1>5, <1>7

\* A word fetch holds is what the reference finds at its address under the
\* satp and the privilege it was fetched with.
LEMMA FetchRightStep ==
    ASSUME Types, Spacing, Path, Walks, Program, Front, Ages, FetchRight, Ordinary,
           NEW dn_resp, NEW data, NEW io, Clock(dn_resp, data, io)
    PROVE  FetchRight'
<1> DEFINE fire == response_fire(iresp(dn_resp, data))
           kick == fetch_redirect_valid(io) \/ ifetch_trap_flush
<1>1. /\ fire => IServed /\ (state = "FAULT" \/ Answering(dn_resp))
      /\ fetch'.fault_q <=> ~kick /\ fire /\ ~fetch.drop_resp_q /\ state = "FAULT"
      /\ fetch'.data_valid_q <=> /\ ~kick
                                 /\ \/ fire /\ ~fetch.drop_resp_q /\ state # "FAULT"
                                    \/ ~fire /\ fetch.data_valid_q /\ ~fetch_accept(io)
      /\ fetch.req_pending_q /\ ~fire => /\ fetch'.req_pending_q
                                         /\ kick \/ fetch.drop_resp_q => fetch'.drop_resp_q
      /\ IF ~kick /\ fire /\ ~fetch.drop_resp_q /\ state # "FAULT"
         THEN fetch'.data_pc_q = fetch.req_pc_q /\ fetch'.instr_q = data
         ELSE UNCHANGED <<fetch.data_pc_q, fetch.instr_q>>
  BY FetchOutcome DEF response_fire
<1>2. /\ IServed' => fetch.req_pending_q
      /\ IServed' /\ ~IServed => satp_q' = csr.satp
      /\ IServed' /\ IServed => satp_q' = satp_q /\ ~fire
  BY <1>1, ServedNext
<1>3. /\ ~(fetch.req_pending_q /\ fetch.data_valid_q)
      /\ IServed => fetch.req_pending_q
  BY DEF Spacing, FetchSlot, Path, FetchServed
<1>4. /\ priv_mode' # priv_mode => fetch_redirect_valid(io)
      /\ csr'.satp # csr.satp => fetch.req_pending_q /\ fetch.drop_resp_q
  BY PrivSatpChange DEF Dropping
<1>5. fire => /\ state = "FAULT" => fetch.req_priv_q = PRV_U
              /\ state # "FAULT" => /\ data = Word(prog', fetch.req_pc_q, fetch.req_priv_q, satp_q)
                                    /\ data # NoInstr
  <2>1. fetch.req_priv_q # PRV_M => fetch.req_priv_q = PRV_U
    BY DEF Types, FetchTypes, Priv
  <2> QED
    BY <1>1, <2>1, FetchAnswered, CoreAssumption
<1>6. fire /\ ~fetch.drop_resp_q => fetch.req_priv_q = priv_mode /\ satp_q = csr.satp
  BY <1>1, <1>3 DEF Front, FetchPrivilege, FetchRight
<1>7. \A pc, priv, satp : Word(prog, pc, priv, satp) # NoInstr =>
         Word(prog', pc, priv, satp) = Word(prog, pc, priv, satp)
  BY ProgramStep
<1> HIDE DEF fire, kick
<1>8. fetch'.req_pending_q /\ ~fetch'.drop_resp_q /\ IServed' => satp_q' = csr'.satp
  BY <1>1, <1>2, <1>4 DEF FetchRight
<1>9. fetch'.data_valid_q => /\ fetch'.instr_q = Word(prog', fetch'.data_pc_q, priv_mode', csr'.satp)
                             /\ fetch'.instr_q # NoInstr
  <2>1. fetch'.data_valid_q => priv_mode' = priv_mode
    BY <1>1, <1>4 DEF kick
  <2>2. CASE fire
    BY <1>1, <1>4, <1>5, <1>6, <2>1, <2>2
  <2>3. CASE ~fire
    BY <1>1, <1>3, <1>4, <1>7, <2>1, <2>3 DEF FetchRight
  <2> QED
    BY <2>2, <2>3
<1>10. fetch'.fault_q => priv_mode' = PRV_U
  BY <1>1, <1>4, <1>5, <1>6 DEF kick
<1> QED
  BY <1>8, <1>9, <1>10 DEF FetchRight

\* While U mode is ordinary, what fetch holds is right.
LEMMA SafetyFetchRight == Safety /\ []Ordinary => []FetchRight
<1>1. Init => FetchRight
  BY DEF Init, CoreInit, PathInit, FetchInit, FetchRight
<1>2. Types /\ Spacing /\ Path /\ Walks /\ Program /\ Front /\ Ages /\ Ordinary
      /\ FetchRight /\ [Next]_vars
      => FetchRight'
  <2>1. Types /\ Spacing /\ Path /\ Walks /\ Program /\ Front /\ Ages /\ Ordinary
        /\ FetchRight /\ Next
        => FetchRight'
    BY NextClock, FetchRightStep
  <2>2. FetchRight /\ UNCHANGED vars => FetchRight'
    BY DEF vars, coreVars, pathVars, arbVars, mmuVars, FetchRight, IServed, Word, InsnIn
  <2> QED
    BY <2>1, <2>2
<1>3. Ordinary => UserFetches
  BY DEF Ordinary, UserFetches
<1> QED
  BY <1>1, <1>2, <1>3, SafetyTypes, SafetySpacing, SafetyPath, SafetyWalks, SafetyProgram,
     SafetyAges, SafetyFront, PTL DEF Safety

-----------------------------------------------------------------------------
(* The reference machine: what one instruction makes of it.                *)

Machine(s) == /\ DOMAIN s = {"pc", "x", "ram", "priv", "csr"}
              /\ s.pc \in Int /\ s.priv \in Priv /\ s.csr \in CsrFile

\* The trap TrapOf(cause, pc, tval) taken by s.
Raised(s, cause, pc, tval, n) ==
    /\ n.pc = s.csr.mtvec /\ n.x = s.x /\ n.ram = s.ram /\ n.priv = PRV_M
    /\ n.csr = [s.csr EXCEPT !.mepc = pc, !.mcause = cause, !.mtval = tval,
                             !.mstatus = [mie |-> FALSE, mpie |-> s.csr.mstatus.mie, mpp |-> s.priv]]

\* What taking a trap makes of the reference, CSR by CSR.
LEMMA Raises ==
    ASSUME NEW s, Machine(s), NEW cause \in Cause, NEW pc \in Int, NEW tval \in Int
    PROVE  Machine(Raise(s, cause, pc, tval)) /\ Raised(s, cause, pc, tval, Raise(s, cause, pc, tval))
<1> DEFINE n == Raise(s, cause, pc, tval)
<1>1. /\ s.csr \in CsrFile /\ s.csr.mstatus.mie \in BOOLEAN /\ s.csr.mtvec \in Int /\ s.priv \in Priv
  BY DEF Machine, CsrFile, Status
<1>2. [mie |-> FALSE, mpie |-> s.csr.mstatus.mie, mpp |-> s.priv] \in Status
  BY <1>1 DEF Status
<1> DEFINE c == [s.csr EXCEPT !.mepc = pc, !.mcause = cause, !.mtval = tval,
                         !.mstatus = [mie |-> FALSE, mpie |-> s.csr.mstatus.mie, mpp |-> s.priv]]
<1>3. DOMAIN n = DOMAIN s /\ Raised(s, cause, pc, tval, n)
  <2>1. DOMAIN s = {"pc", "x", "ram", "priv", "csr"}
    BY DEF Machine
  <2>2. n.pc = s.csr.mtvec /\ n.priv = PRV_M /\ n.x = s.x /\ n.ram = s.ram /\ DOMAIN n = DOMAIN s
    BY <2>1 DEF Raise
  <2>3. n.csr = c
    BY <1>1, <2>1 DEF Raise, CsrFile
  <2> HIDE DEF n
  <2> QED
    BY <2>2, <2>3 DEF Raised
<1>4. n.csr \in CsrFile /\ n.priv \in Priv /\ n.pc \in Int
  BY <1>1, <1>2, <1>3 DEF Raised, CsrFile, Priv
<1> QED
  BY <1>3, <1>4 DEF Machine

Failing(s, i) == i.imm % mem_size(i) # 0 \/ SeenBy(s.priv, s.csr.satp, i.imm, i.op) = Sv39!PageFault

Cause1(s, i) == IF i.imm % mem_size(i) # 0
                THEN IF is_store(i) THEN "store misaligned" ELSE "load misaligned"
                ELSE IF is_store(i) THEN "store fault" ELSE "load fault"

\* What i makes of s, by the kind of i.
Ran(s, i, n) ==
    LET next == n.pc = s.pc + 4
    IN
    /\ i.op \in {"alu", "muldiv"} =>
          next /\ n.x = Value(i, s.x) /\ n.ram = s.ram /\ n.priv = s.priv /\ n.csr = s.csr
    /\ is_ctrl(i) =>
          /\ n.pc = IF Taken(i, s.x) THEN Target(s.pc, i, s.x) ELSE s.pc + 4
          /\ n.x = s.x /\ n.ram = s.ram /\ n.priv = s.priv /\ n.csr = s.csr
    /\ is_csr(i) =>
          /\ next /\ n.x = s.x /\ n.ram = s.ram /\ n.priv = s.priv
          /\ n.csr = [s.csr EXCEPT ![i.csr] = CsrNew(i, s.csr[i.csr])]
    /\ i.op = "ecall" =>
          Raised(s, IF s.priv = PRV_U THEN "ecall U" ELSE "ecall M", s.pc, 0, n)
    /\ i.op = "mret" =>
          /\ n.pc = s.csr.mepc /\ n.x = s.x /\ n.ram = s.ram /\ n.priv = s.csr.mstatus.mpp
          /\ n.csr = [s.csr EXCEPT !.mstatus = [mie |-> s.csr.mstatus.mpie,
                                                mpie |-> TRUE, mpp |-> PRV_U]]
    /\ i.op = "trap" => n = s
    /\ Accesses(i) /\ Failing(s, i) => Raised(s, Cause1(s, i), s.pc, i.imm, n)
    /\ Accesses(i) /\ ~Failing(s, i) =>
          /\ next /\ n.priv = s.priv /\ n.csr = s.csr
          /\ is_store(i) =>
                /\ n.x = s.x
                /\ n.ram = IF WordAddr(SeenBy(s.priv, s.csr.satp, i.imm, "store")) = DADDR
                           THEN Store(s, i) ELSE s.ram
          /\ is_load(i) => n.x = Load(s, i) /\ n.ram = s.ram

\* What the reference makes of an instruction, kind by kind.
LEMMA Executes ==
    ASSUME NEW s, Machine(s), s.x \in Reg, NEW i \in Instr, i.op # "illegal"
    PROVE  Machine(Execute(s, i)) /\ Ran(s, i, Execute(s, i))
<1> DEFINE n == Execute(s, i)
<1> SUFFICES Machine(n) /\ Ran(s, i, n)
  OBVIOUS
<1> HIDE DEF n
<1>1. /\ DOMAIN s = {"pc", "x", "ram", "priv", "csr"} /\ s.pc \in Int /\ s.priv \in Priv
      /\ s.csr \in CsrFile /\ i.imm \in Int /\ i.op \in Op /\ s.pc + 4 \in Int
      /\ s.csr.mepc \in Int /\ s.csr.mstatus.mpp \in Priv /\ s.csr.mstatus.mpie \in BOOLEAN
      /\ s.x \in Int
  BY DEF Machine, Instr, CsrFile, Status, Reg
<1>2. CASE i.op \in {"alu", "muldiv"} \/ is_ctrl(i)
  <2>1. n = [s EXCEPT !.x = Value(i, s.x),
                      !.pc = IF Taken(i, s.x) THEN Target(s.pc, i, s.x) ELSE s.pc + 4]
    BY <1>2 DEF n, Execute, is_ctrl, is_branch, is_jump
  <2>2. /\ i.op \in {"alu", "muldiv"} => ~Taken(i, s.x)
        /\ is_ctrl(i) => Value(i, s.x) = s.x
    BY DEF Taken, Value, is_ctrl, is_branch, is_jump
  <2> DEFINE p == IF Taken(i, s.x) THEN Target(s.pc, i, s.x) ELSE s.pc + 4
  <2>3. p \in Int
    BY <1>1 DEF Target
  <2>4. DOMAIN n = DOMAIN s /\ n.pc = p /\ n.x = Value(i, s.x) /\ n.ram = s.ram /\ n.priv = s.priv
        /\ n.csr = s.csr
    BY <1>1, <2>1
  <2>5. Machine(n)
    BY <1>1, <2>3, <2>4 DEF Machine
  <2> QED
    BY <1>2, <2>2, <2>4, <2>5 DEF is_ctrl, is_branch, is_jump, is_csr, Accesses, Ran
<1>3. CASE is_csr(i)
  <2>1. i.op = "csr" /\ i.csr \in CsrName
    BY <1>3 DEF is_csr, Instr
  <2>2. n = [s EXCEPT !.pc = s.pc + 4, !.csr = [s.csr EXCEPT ![i.csr] = CsrNew(i, s.csr[i.csr])]]
    BY <1>1, <2>1 DEF n, Execute
  <2>3. [s.csr EXCEPT ![i.csr] = CsrNew(i, s.csr[i.csr])] \in CsrFile
    BY <1>1, <2>1, FileFits, CsrNewFits
  <2>4. DOMAIN n = DOMAIN s /\ n.pc = s.pc + 4 /\ n.x = s.x /\ n.ram = s.ram /\ n.priv = s.priv
        /\ n.csr = [s.csr EXCEPT ![i.csr] = CsrNew(i, s.csr[i.csr])]
    BY <1>1, <2>2
  <2>5. Machine(n)
    BY <1>1, <2>3, <2>4 DEF Machine
  <2> QED
    BY <2>1, <2>4, <2>5 DEF is_ctrl, is_branch, is_jump, Accesses, Ran
<1>4. CASE i.op = "ecall"
  <2> DEFINE cause == IF s.priv = PRV_U THEN "ecall U" ELSE "ecall M"
  <2>1. n = Raise(s, cause, s.pc, 0)
    BY <1>4 DEF n, Execute
  <2>2. cause \in Cause
    BY DEF Cause
  <2> HIDE DEF cause
  <2>3. Machine(n) /\ Raised(s, cause, s.pc, 0, n)
    BY <1>1, <2>1, <2>2, Raises
  <2> QED
    BY <1>4, <2>3 DEF is_ctrl, is_branch, is_jump, is_csr, Accesses, Ran, cause
<1>5. CASE i.op = "mret"
  <2> DEFINE st == [mie |-> s.csr.mstatus.mpie, mpie |-> TRUE, mpp |-> PRV_U]
  <2>1. n = [s EXCEPT !.pc = s.csr.mepc, !.priv = s.csr.mstatus.mpp,
                      !.csr = [s.csr EXCEPT !.mstatus = st]]
    BY <1>1, <1>5 DEF n, Execute, CsrFile
  <2>2. st \in Status
    BY <1>1 DEF Status, Priv
  <2>3. [s.csr EXCEPT !.mstatus = st] \in CsrFile
    BY <1>1, <2>2 DEF CsrFile
  <2>4. DOMAIN n = DOMAIN s /\ n.pc = s.csr.mepc /\ n.x = s.x /\ n.ram = s.ram
        /\ n.priv = s.csr.mstatus.mpp /\ n.csr = [s.csr EXCEPT !.mstatus = st]
    BY <1>1, <2>1
  <2>5. Machine(n)
    BY <1>1, <2>3, <2>4 DEF Machine
  <2> QED
    BY <1>5, <2>4, <2>5 DEF is_ctrl, is_branch, is_jump, is_csr, Accesses, Ran
<1>6. CASE i.op = "trap"
  <2>1. n = s
    BY <1>6 DEF n, Execute
  <2> QED
    BY <1>6, <2>1 DEF is_ctrl, is_branch, is_jump, is_csr, Accesses, Ran
<1>7. CASE Accesses(i) /\ Failing(s, i)
  <2>1. n = Raise(s, Cause1(s, i), s.pc, i.imm)
    BY <1>7 DEF n, Execute, Access, Accesses, Failing, Cause1, Faults, Seen, SeenBy
  <2>2. Cause1(s, i) \in Cause
    BY DEF Cause, Cause1
  <2>3. Machine(n) /\ Raised(s, Cause1(s, i), s.pc, i.imm, n)
    BY <1>1, <2>1, <2>2, Raises
  <2> QED
    BY <1>7, <2>3 DEF is_ctrl, is_branch, is_jump, is_csr, Accesses, Ran
<1>8. CASE Accesses(i) /\ ~Failing(s, i)
  <2>1. n = IF is_store(i)
            THEN [s EXCEPT !.pc = s.pc + 4,
                    !.ram = IF WordAddr(SeenBy(s.priv, s.csr.satp, i.imm, "store")) = DADDR
                            THEN Store(s, i) ELSE s.ram]
            ELSE [s EXCEPT !.pc = s.pc + 4, !.x = Load(s, i)]
    BY <1>1, <1>8 DEF n, Execute, Access, Accesses, Failing, Faults, Seen, SeenBy
  <2>2. Machine(n)
    BY <1>1, <2>1 DEF Machine
  <2>3. is_store(i) <=> ~is_load(i)
    BY <1>8 DEF Accesses, is_store, is_load
  <2>4. /\ n.pc = s.pc + 4 /\ n.priv = s.priv /\ n.csr = s.csr
        /\ is_store(i) =>
              /\ n.x = s.x
              /\ n.ram = IF WordAddr(SeenBy(s.priv, s.csr.satp, i.imm, "store")) = DADDR
                         THEN Store(s, i) ELSE s.ram
        /\ is_load(i) => n.x = Load(s, i) /\ n.ram = s.ram
    BY <1>1, <2>1, <2>3
  <2> QED
    BY <1>8, <2>2, <2>4 DEF is_ctrl, is_branch, is_jump, is_csr, Accesses, Ran
<1>9. \/ i.op \in {"alu", "muldiv"} \/ is_ctrl(i) \/ is_csr(i) \/ i.op \in {"ecall", "mret", "trap"}
      \/ Accesses(i)
  BY <1>1 DEF Op, is_ctrl, is_branch, is_jump, is_csr, Accesses
<1> QED
  BY <1>2, <1>3, <1>4, <1>5, <1>6, <1>7, <1>8, <1>9

-----------------------------------------------------------------------------
(* The pipeline next to the reference machine.  What is in WB or in MEM is *)
(* the reference's next instruction; what is in EX or in decode comes      *)
(* after it, at Ahead; and fetch goes on from there.                       *)

\* The reference one instruction on, and where it is when what is in MEM or in WB
\* has retired.
Ahead1 == StepIn(prog, isa)
Ahead  == IF mem_wb # NoOp \/ ex_mem # NoOp THEN Ahead1 ELSE isa

\* op is the reference's next instruction.
Retiring(op) == /\ op.pc = isa.pc /\ op.pc % 4 = 0
                /\ op.instr = FetchedIn(prog, isa) /\ op.instr.op # "illegal"
                /\ op.csr_we <=> is_csr(op.instr)
                /\ op.csr_we => op.csr_new = CsrNew(op.instr, isa.csr[op.instr.csr])

\* The registers are those of the reference.
RegRight == Machine(isa) /\ x = isa.x

InWb == mem_wb # NoOp =>
            /\ Retiring(mem_wb)
            /\ Ahead1.x = IF mem_wb.reg_write THEN mem_wb.result ELSE isa.x
            /\ Mem(mem_wb) /\ Failing(isa, mem_wb.instr) => ~if_id.valid /\ ~fetch.data_valid_q

InMem == ex_mem # NoOp =>
            /\ Retiring(ex_mem)
            /\ ex_mem.reg_write <=> reg_write(ex_mem.instr)
            /\ ex_mem.reg_write /\ ~ex_mem.is_load => Ahead1.x = ex_mem.result
            /\ ex_mem.is_load <=> is_load(ex_mem.instr)
            /\ ex_mem.is_store <=> is_store(ex_mem.instr)
            /\ ex_mem.mem_size = mem_size(ex_mem.instr)
            /\ ex_mem.load_unsigned <=> load_unsigned(ex_mem.instr)
            /\ ex_mem.mem_addr = ex_mem.instr.imm
            /\ ex_mem.is_store => ex_mem.store_data = isa.x

InEx == id_ex # NoOp =>
            /\ id_ex.pc = Ahead.pc /\ id_ex.pc % 4 = 0
            /\ id_ex.instr = FetchedIn(prog, Ahead) /\ id_ex.instr.op # "illegal"
            /\ use_rs(id_ex.instr) => id_ex.op = Ahead.x
            /\ id_ex.pred_taken => is_ctrl(id_ex.instr)
            /\ id_ex.pred_target = IF id_ex.pred_taken
                                   THEN Target(id_ex.pc, id_ex.instr, id_ex.op) ELSE id_ex.pc + 4

InDec == if_id.valid => /\ if_id.pc = Ahead.pc /\ if_id.pc % 4 = 0
                        /\ if_id.instr = FetchedIn(prog, Ahead)

MulOwn == muldiv.st # "idle" => id_ex # NoOp /\ Mul(id_ex) /\ muldiv.a = id_ex.op

\* TakeDue, with the program as a parameter.
Take(p, s, cause) ==
    IF cause = "mti" THEN Raise(s, cause, IF s.priv = PRV_M THEN s.pc + 4 ELSE s.pc, 0)
    ELSE IF cause = "illegal"
    THEN Raise(s, cause, s.pc, IF FetchedIn(p, s) = NoInstr THEN 0 ELSE FetchedIn(p, s).imm)
    ELSE Raise(s, cause, s.pc, s.pc)

\* The traps and mret write the CSRs before the instruction retires.
Early == \/ ex_mem # NoOp /\ ex_mem.instr.op \in {"ecall", "mret"}
         \/ mem_wb # NoOp /\ \/ mem_wb.instr.op \in {"ecall", "mret"}
                             \/ Mem(mem_wb) /\ Failing(isa, mem_wb.instr)

Current == IF due # "none" THEN Take(prog, Ahead, due) ELSE IF Early THEN Ahead1 ELSE isa
CsrRight == csr = Current.csr /\ priv_mode = Current.priv

RamRight == ram = IF mem_wb # NoOp THEN Ahead1.ram ELSE isa.ram

DueRight == due # "none" =>
               /\ due \in Cause
               /\ ~cpu_halt /\ ~if_id.valid /\ id_ex = NoOp /\ ex_mem = NoOp /\ ~fetch.data_valid_q
               /\ mem_wb # NoOp => ~fetch.req_pending_q /\ Mul(mem_wb)
               /\ due = "illegal" => FetchedIn(prog, Ahead) # NoInstr

\* Fetch goes on after an instruction that traps or halts until it does.
GoesOn == \/ ex_mem # NoOp /\ \/ ex_mem.instr.op = "trap"
                              \/ Mem(ex_mem) /\ Failing(isa, ex_mem.instr)
          \/ mem_wb # NoOp /\ mem_wb.instr.op = "trap"
NextPC == IF due # "none" THEN Take(prog, Ahead, due).pc
          ELSE IF if_id.valid THEN if_id.pc + 4
          ELSE IF id_ex # NoOp THEN id_ex.pred_target
          ELSE IF GoesOn THEN isa.pc + 4
          ELSE Ahead.pc
FetchAt == ~cpu_halt => /\ fetch.pc_q = NextPC
                        /\ fetch.req_pending_q /\ ~fetch.drop_resp_q => fetch.req_pc_q = NextPC
                        /\ fetch.data_valid_q => fetch.data_pc_q = NextPC

AccessRight == /\ pending => mem_priv_q = isa.priv
               /\ DServed => satp_q = isa.csr.satp

Follows == /\ RegRight /\ InWb /\ InMem /\ InEx /\ InDec /\ MulOwn
           /\ CsrRight /\ RamRight /\ DueRight /\ FetchAt /\ AccessRight

\* What the earlier layers give.
Grounds == /\ Types /\ Spacing /\ Path /\ Walks /\ Program /\ Front /\ Ages /\ FetchRight
           /\ Ordinary

\* At reset the empty pipeline follows a reference that has done nothing.
LEMMA InitFollows == Init => Follows
<1> SUFFICES ASSUME Init PROVE Follows
  OBVIOUS
<1>1. /\ if_id.valid = FALSE /\ id_ex = NoOp /\ ex_mem = NoOp /\ mem_wb = NoOp /\ due = "none"
      /\ isa = [pc |-> PCINIT, x |-> 0, ram |-> ram, priv |-> PRV_M, csr |-> CsrReset]
      /\ csr = CsrReset /\ priv_mode = PRV_M /\ x = 0 /\ muldiv.st = "idle" /\ ~pending /\ ~busy
      /\ fetch.pc_q = PCINIT /\ ~fetch.req_pending_q /\ ~fetch.data_valid_q
  BY DEF Init, CoreInit, PathInit, FetchInit, MemInit, Arb!ArbInit, MulDiv!UnitInit
<1>2. CsrReset \in CsrFile
  BY <1>1, InitTypes DEF Types, CsrTypes
<1>3. Machine(isa)
  BY <1>1, <1>2, CoreAssumption DEF Machine, Priv
<1>4. Ahead = isa /\ NextPC = isa.pc /\ Current = isa
  BY <1>1 DEF Ahead, NextPC, Current, GoesOn, Early
<1> QED
  BY <1>1, <1>3, <1>4
  DEF Follows, RegRight, InWb, InMem, InEx, InDec, MulOwn, CsrRight, RamRight, DueRight, FetchAt,
      AccessRight, DServed

\* The instruction in WB or in MEM is the one the reference executes next.
LEMMA Heads ==
    ASSUME Types, RegRight, InWb, InMem
    PROVE  /\ mem_wb # NoOp => /\ mem_wb.instr \in Instr /\ FetchedIn(prog, isa) # NoInstr
                               /\ Ahead1 = Execute(isa, mem_wb.instr)
                               /\ Machine(Ahead1) /\ Ran(isa, mem_wb.instr, Ahead1)
           /\ ex_mem # NoOp => /\ ex_mem.instr \in Instr /\ FetchedIn(prog, isa) # NoInstr
                               /\ Ahead1 = Execute(isa, ex_mem.instr)
                               /\ Machine(Ahead1) /\ Ran(isa, ex_mem.instr, Ahead1)
           /\ Machine(Ahead)
<1>1. isa.x \in Reg /\ Machine(isa)
  BY DEF Types, RegTypes, RegRight
<1>2. ASSUME NEW i \in Instr, i = FetchedIn(prog, isa), i.op # "illegal"
      PROVE  FetchedIn(prog, isa) # NoInstr /\ Ahead1 = Execute(isa, i)
             /\ Machine(Ahead1) /\ Ran(isa, i, Ahead1)
  <2>1. i # NoInstr
    BY CoreAssumption
  <2>2. Ahead1 = Execute(isa, i)
    BY <1>2, <2>1 DEF Ahead1, StepIn
  <2> QED
    BY <1>1, <1>2, <2>1, <2>2, Executes
<1>3. /\ mem_wb # NoOp => mem_wb.instr \in Instr
      /\ ex_mem # NoOp => ex_mem.instr \in Instr
  BY DEF Types, StageTypes, MemWb, ExMem
<1>4. /\ mem_wb # NoOp => mem_wb.instr = FetchedIn(prog, isa) /\ mem_wb.instr.op # "illegal"
      /\ ex_mem # NoOp => ex_mem.instr = FetchedIn(prog, isa) /\ ex_mem.instr.op # "illegal"
  BY DEF InWb, InMem, Retiring
<1> HIDE DEF Ahead1
<1> QED
  BY <1>1, <1>2, <1>3, <1>4 DEF Ahead

\* An M instruction and an access that does not fail go on at the next word, and
\* leave the CSRs and the privilege alone.
LEMMA Straight ==
    ASSUME Types, RegRight, InWb, InMem,
           NEW i, \/ mem_wb # NoOp /\ i = mem_wb.instr
                  \/ ex_mem # NoOp /\ i = ex_mem.instr,
           is_muldiv(i) \/ (Accesses(i) /\ ~Failing(isa, i))
    PROVE  Ahead1.pc = isa.pc + 4 /\ Ahead1.csr = isa.csr /\ Ahead1.priv = isa.priv
<1>1. Ran(isa, i, Ahead1)
  BY Heads
<1> HIDE DEF Ahead1
<1> QED
  BY <1>1 DEF Ran, is_muldiv

\* Traps but those of the instructions in the pipeline: no interrupt in U mode, and
\* in M mode the window's; no fetch fails but for an odd address, and that when
\* nothing is before it.
LEMMA TrapAt ==
    ASSUME Grounds, Follows, NEW io
    PROVE  /\ interrupt_fire(io) =>
                 /\ priv_mode = PRV_M /\ csrsi_opens_mie_ex /\ ex_mem # NoOp /\ id_ex = NoOp
                 /\ is_csr(ex_mem.instr) /\ ex_mem.instr.csr = "mstatus" /\ ~cpu_halt
           /\ ifetch_trap_flush =>
                 /\ ~if_id.valid /\ id_ex = NoOp /\ ex_mem = NoOp /\ mem_wb = NoOp /\ due = "none"
                 /\ ~cpu_halt /\ instr_misalign_fire /\ priv_mode = PRV_M
                 /\ fetch.data_valid_q /\ fetch.data_pc_q = isa.pc
<1> USE DEF Grounds, Follows
<1>1. interrupt_fire(io) =>
                 /\ priv_mode = PRV_M /\ csrsi_opens_mie_ex /\ ex_mem # NoOp /\ id_ex = NoOp
                 /\ is_csr(ex_mem.instr) /\ ex_mem.instr.csr = "mstatus" /\ ~cpu_halt
  <2>1. priv_mode # PRV_M => priv_mode = PRV_U
    BY DEF Types, CsrTypes, Priv
  <2>2. csrsi_opens_mie_ex => ex_mem # NoOp /\ is_csr(ex_mem.instr) /\ ex_mem.instr.csr = "mstatus"
    BY DEF csrsi_opens_mie_ex, Writes, InMem, Retiring
  <2> QED
    BY <2>1, <2>2 DEF interrupt_fire, irq_active, Ordinary, Spacing, InExecute
<1>2. ASSUME ifetch_trap_flush
      PROVE  /\ ~if_id.valid /\ id_ex = NoOp /\ ex_mem = NoOp /\ mem_wb = NoOp /\ due = "none"
             /\ ~cpu_halt /\ instr_misalign_fire /\ priv_mode = PRV_M
             /\ fetch.data_valid_q /\ fetch.data_pc_q = isa.pc
  <2>1. /\ priv_mode = PRV_M /\ ~cpu_halt /\ instr_misalign_fire
        /\ fetch.data_valid_q /\ fetch.data_pc_q % 4 # 0 /\ fetch.data_pc_q = NextPC
    BY <1>2, FetchFails DEF FetchAt
  <2>2. due = "none" /\ ~if_id.valid
    BY <2>1 DEF DueRight, Spacing, InDecode
  <2>3. \A pc \in Int : pc % 4 = 0 => (pc + 4) % 4 = 0
    OBVIOUS
  <2>4. isa.pc \in Int
    BY DEF RegRight, Machine
  <2>5. id_ex = NoOp
    <3> SUFFICES ASSUME id_ex # NoOp PROVE FALSE
      OBVIOUS
    <3>1. is_muldiv(id_ex.instr) /\ id_ex.pc \in Int
      BY <2>1 DEF Spacing, InExecute, Types, StageTypes, IdEx
    <3>2. id_ex.pred_target = id_ex.pc + 4 /\ id_ex.pc % 4 = 0
      BY <3>1 DEF InEx, is_ctrl, is_branch, is_jump, is_muldiv
    <3>3. NextPC = id_ex.pred_target
      BY <2>2 DEF NextPC
    <3> QED
      BY <2>1, <2>3, <3>1, <3>2, <3>3
  <2>6. ex_mem = NoOp
    <3> SUFFICES ASSUME ex_mem # NoOp PROVE FALSE
      OBVIOUS
    <3>1. is_muldiv(ex_mem.instr) \/ Accesses(ex_mem.instr)
      BY <2>1 DEF Ages, MemoryAge, Mul, Mem
    <3>2. isa.pc % 4 = 0
      BY DEF InMem, Retiring
    <3>3. GoesOn \/ Ahead.pc = isa.pc + 4
      BY <3>1, Straight DEF GoesOn, Mem, Ahead
    <3>4. NextPC = isa.pc + 4
      BY <2>2, <2>5, <3>3 DEF NextPC
    <3> QED
      BY <2>1, <2>3, <2>4, <3>2, <3>4
  <2>7. mem_wb = NoOp
    <3> SUFFICES ASSUME mem_wb # NoOp PROVE FALSE
      OBVIOUS
    <3>1. is_muldiv(mem_wb.instr) \/ (Accesses(mem_wb.instr) /\ ~Failing(isa, mem_wb.instr))
      BY <2>1 DEF Ages, WriteAge, Mul, Mem, InWb
    <3>2. isa.pc % 4 = 0
      BY DEF InWb, Retiring
    <3>3. Ahead.pc = isa.pc + 4
      BY <3>1, Straight DEF Ahead
    <3>4. NextPC = isa.pc + 4
      BY <2>2, <2>5, <3>3 DEF NextPC
    <3> QED
      BY <2>1, <2>3, <2>4, <3>2, <3>4
  <2>8. NextPC = isa.pc
    BY <2>2, <2>5, <2>6, <2>7 DEF NextPC, GoesOn, Ahead
  <2> QED
    BY <2>1, <2>2, <2>5, <2>6, <2>7, <2>8
<1> QED
  BY <1>1, <1>2

-----------------------------------------------------------------------------
(* One cycle of the pipeline next to one of the reference.                 *)

\* What is decided stays what it is for the reference.
LEMMA Decides ==
    ASSUME Program, NEW dn_resp, NEW data, NEW io, Clock(dn_resp, data, io),
           NEW s, FetchedIn(prog, s) # NoInstr
    PROVE  /\ FetchedIn(prog', s) = FetchedIn(prog, s)
           /\ StepIn(prog', s) = StepIn(prog, s)
<1>1. FetchedIn(prog', s) = FetchedIn(prog, s)
  BY ProgramStep DEF FetchedIn
<1> QED
  BY <1>1 DEF StepIn

\* A trap that is due stays the same trap.
LEMMA TakesSame ==
    ASSUME Program, NEW dn_resp, NEW data, NEW io, Clock(dn_resp, data, io),
           NEW s, NEW cause, cause = "illegal" => FetchedIn(prog, s) # NoInstr
    PROVE  Take(prog', s, cause) = Take(prog, s, cause)
BY Decides DEF Take

\* The reference is driven by what is in WB, and by a trap that is due when nothing
\* is before it.
LEMMA ReferenceMoves ==
    ASSUME Grounds, Follows, NEW dn_resp, NEW data, NEW io, Clock(dn_resp, data, io)
    PROVE  /\ mem_wb # NoOp => ~cpu_halt /\ isa' = Ahead1
           /\ mem_wb = NoOp /\ due # "none" => isa' = Take(prog, isa, due)
           /\ mem_wb = NoOp /\ due = "none" => isa' = isa
           /\ due' = IF Trap(io).cause \in {"mti", "fetch misaligned", "fetch fault", "illegal"}
                     THEN Trap(io).cause
                     ELSE IF mem_wb = NoOp THEN "none" ELSE due
<1>1. ReferenceCycle(io)
  BY DEF Clock
<1>2. mem_wb # NoOp => ~cpu_halt
  BY DEF Grounds, Ages, Halted
<1>3. due # "none" => /\ ex_mem = NoOp
                      /\ mem_wb # NoOp => ~Trapped(isa)
  <2> SUFFICES ASSUME due # "none" PROVE ex_mem = NoOp /\ (mem_wb # NoOp => ~Trapped(isa))
    OBVIOUS
  <2>1. ex_mem = NoOp /\ (mem_wb # NoOp => Mul(mem_wb))
    BY DEF Follows, DueRight
  <2>2. mem_wb # NoOp => mem_wb.instr = Fetched(isa)
    BY Reference DEF Follows, InWb, Retiring
  <2> QED
    BY <2>1, <2>2 DEF Trapped, Mul, is_muldiv
<1>4. Step(isa) = Ahead1
  BY Reference DEF Ahead1
<1>5. TakeDue(isa, due) = Take(prog, isa, due)
  BY Reference DEF TakeDue, Take, Illegal
<1> QED
  BY <1>1, <1>2, <1>3, <1>4, <1>5 DEF ReferenceCycle, Drained

\* Where a trap that is due goes.
LEMMA TakeRaises ==
    ASSUME NEW p, NEW s, Machine(s), NEW cause \in Cause \ {"none"},
           FetchedIn(p, s) # NoInstr => FetchedIn(p, s) \in Instr
    PROVE  /\ Machine(Take(p, s, cause)) /\ Take(p, s, cause).x = s.x
           /\ Take(p, s, cause).ram = s.ram /\ Take(p, s, cause).priv = PRV_M
           /\ Take(p, s, cause).pc = s.csr.mtvec
           /\ cause = "mti" => Raised(s, cause, IF s.priv = PRV_M THEN s.pc + 4 ELSE s.pc, 0,
                                      Take(p, s, cause))
           /\ cause = "illegal" /\ FetchedIn(p, s) # NoInstr =>
                 Raised(s, cause, s.pc, FetchedIn(p, s).imm, Take(p, s, cause))
           /\ cause \notin {"mti", "illegal"} => Raised(s, cause, s.pc, s.pc, Take(p, s, cause))
<1> DEFINE pc   == IF cause = "mti" /\ s.priv = PRV_M THEN s.pc + 4 ELSE s.pc
           tval == IF cause = "mti" THEN 0
                   ELSE IF cause = "illegal"
                   THEN IF FetchedIn(p, s) = NoInstr THEN 0 ELSE FetchedIn(p, s).imm
                   ELSE s.pc
<1>1. s.pc \in Int /\ pc \in Int /\ tval \in Int
  BY DEF Machine, Instr
<1>2. Take(p, s, cause) = Raise(s, cause, pc, tval)
  BY DEF Take
<1>3. /\ cause = "mti" => pc = (IF s.priv = PRV_M THEN s.pc + 4 ELSE s.pc) /\ tval = 0
      /\ cause = "illegal" /\ FetchedIn(p, s) # NoInstr => pc = s.pc /\ tval = FetchedIn(p, s).imm
      /\ cause \notin {"mti", "illegal"} => pc = s.pc /\ tval = s.pc
  OBVIOUS
<1> HIDE DEF pc, tval
<1>4. /\ Machine(Take(p, s, cause)) /\ Raised(s, cause, pc, tval, Take(p, s, cause))
  BY <1>1, <1>2, Raises
<1> QED
  BY <1>3, <1>4 DEF Raised

\* The register file stays that of the instructions that have left WB.
LEMMA RegRightStep ==
    ASSUME Grounds, Follows, NEW dn_resp, NEW data, NEW io, Clock(dn_resp, data, io)
    PROVE  RegRight'
<1>1. x' = IF wb_wen THEN mem_wb.result ELSE x
  BY DEF Clock, CoreCycle, RegisterCycle
<1>2. CASE mem_wb # NoOp
  <2>1. isa' = Ahead1 /\ Machine(Ahead1)
    BY <1>2, ReferenceMoves, Heads DEF Grounds, Follows
  <2>2. Ahead1.x = x'
    BY <1>1, <1>2 DEF Follows, InWb, RegRight, wb_wen
  <2> QED
    BY <2>1, <2>2 DEF RegRight
<1>3. CASE mem_wb = NoOp /\ due # "none"
  <2>1. isa' = Take(prog, isa, due) /\ due \in Cause
    BY <1>3, ReferenceMoves DEF Follows, DueRight
  <2>2. FetchedIn(prog, isa) # NoInstr => FetchedIn(prog, isa) \in Instr
    BY ProgramTypes DEF Grounds, FetchedIn
  <2>3. Machine(isa') /\ isa'.x = isa.x
    BY <1>3, <2>1, <2>2, TakeRaises DEF Follows, RegRight
  <2> QED
    BY <1>1, <1>3, <2>3 DEF Follows, RegRight, wb_wen
<1>4. CASE mem_wb = NoOp /\ due = "none"
  BY <1>1, <1>4, ReferenceMoves DEF Follows, RegRight, wb_wen
<1> QED
  BY <1>2, <1>3, <1>4

\* The cycle of an instruction in EX: nothing is in decode or in MEM, and the stages
\* move unless it is a multiplication that is not ready.
LEMMA ExecuteCycle ==
    ASSUME Grounds, Follows, NEW io, CoreCycle(io), id_ex # NoOp
    PROVE  /\ ~wb_is_trap /\ ~waits(io) /\ ~if_id.valid /\ ex_mem = NoOp /\ ~cpu_halt
           /\ due = "none" /\ ~ifetch_trap_flush /\ (mem_wb # NoOp => Mul(mem_wb))
           /\ Trap(io) = IF id_ex.instr.op = "ecall"
                         THEN TrapOf(IF priv_mode = PRV_U THEN "ecall U" ELSE "ecall M", id_ex.pc, 0)
                         ELSE NoTrap
           /\ mret_fire(io) <=> id_ex.instr.op = "mret"
           /\ fetch_redirect_valid(io) <=> \/ id_ex.instr.op \in {"ecall", "mret"}
                                           \/ csr_redirect_valid \/ branch_mispredict
           /\ pipeline_flush_young(io) <=> fetch_redirect_valid(io)
           /\ ~cpu_halt' /\ mem_wb' = NoOp
           /\ ex_mem' = IF ex_passes THEN Executed(io) ELSE NoOp
           /\ muldiv_stall => UNCHANGED <<id_ex, if_id>> /\ ~fetch_redirect_valid(io)
           /\ ~muldiv_stall => id_ex' = NoOp
           /\ if_id'.valid <=> ~muldiv_stall /\ fetch_accept(io)
<1> USE DEF Grounds, Follows
<1>1. /\ ~waits(io) /\ cur(ex_mem) = NoOp
      /\ ~mem_fault_fire(io) /\ ~mem_misalign_fire(io) /\ ~illegal_fire(io)
      /\ ~csrsi_opens_mie_ex /\ ~ex_mem_is_wrong_path /\ ~out_valid(ex_mem, io.dr)
  BY ExecuteAlone
<1>2. /\ ~if_id.valid /\ ex_mem = NoOp /\ ~cpu_halt /\ due = "none" /\ ~ifetch_trap_flush
      /\ mem_wb # NoOp => Mul(mem_wb)
      /\ ~interrupt_fire(io)
  BY TrapAt DEF Spacing, InExecute, Ages, Halted, ExecuteAge, DueRight
<1>3. ~wb_is_trap
  BY <1>2 DEF wb_is_trap, Mul, is_muldiv
<1>4. /\ ecall_fire(io) <=> id_ex.instr.op = "ecall"
      /\ mret_fire(io) <=> id_ex.instr.op = "mret"
  BY <1>1, <1>2 DEF ecall_fire, mret_fire
<1>5. Trap(io) = IF id_ex.instr.op = "ecall"
                 THEN TrapOf(IF priv_mode = PRV_U THEN "ecall U" ELSE "ecall M", id_ex.pc, 0)
                 ELSE NoTrap
  BY <1>1, <1>2, <1>4 DEF Trap, ifetch_trap_flush
<1>6. Trap(io) # NoTrap <=> id_ex.instr.op = "ecall"
  BY <1>1, <1>2, <1>4, TrapFires DEF Fires
<1>7. ~decode_pred_redirect(io) /\ ~load_use_hazard
  BY <1>2 DEF decode_pred_redirect, load_use_hazard
<1>8. /\ fetch_redirect_valid(io) <=> \/ id_ex.instr.op \in {"ecall", "mret"}
                                      \/ csr_redirect_valid \/ branch_mispredict
      /\ pipeline_flush_young(io) <=> fetch_redirect_valid(io)
  BY <1>1, <1>2, <1>4, <1>6, <1>7
  DEF fetch_redirect_valid, pipeline_flush_young, trap_redirect_valid
<1>9. muldiv_stall => ~fetch_redirect_valid(io)
  BY <1>8 DEF muldiv_stall, is_muldiv, csr_redirect_valid, branch_mispredict, is_csr, is_ctrl,
              is_branch, is_jump
<1>10. Advance(io)
  BY <1>1, <1>3 DEF CoreCycle, Halt, Wait
<1>11. ~suppress_wrong_path_wb(io)
  BY <1>1 DEF suppress_wrong_path_wb
<1>12. /\ cpu_halt' = cpu_halt /\ mem_wb' = NoOp
       /\ ex_mem' = IF ex_passes THEN Executed(io) ELSE NoOp
       /\ muldiv_stall => UNCHANGED <<id_ex, if_id>>
  BY <1>1, <1>7, <1>8, <1>9, <1>10, <1>11 DEF Advance
<1>13. ~muldiv_stall =>
          /\ id_ex' = NoOp
          /\ if_id' = IF fetch_accept(io)
                      THEN [valid |-> TRUE, pc |-> fetch_pc, instr |-> fetch_instr] ELSE Bubble
  BY <1>2, <1>7, <1>8, <1>10 DEF Advance, fetch_accept
<1>14. Bubble.valid = FALSE /\ [valid |-> TRUE, pc |-> fetch_pc, instr |-> fetch_instr].valid = TRUE
  BY DEF Bubble, Spacing, Shape
<1>15. if_id'.valid <=> ~muldiv_stall /\ fetch_accept(io)
  BY <1>2, <1>12, <1>13, <1>14
<1> QED
  BY <1>1, <1>2, <1>3, <1>4, <1>5, <1>8, <1>9, <1>12, <1>13, <1>15

\* The multiplier's operands stay those of the instruction in EX.
LEMMA MulOwnStep ==
    ASSUME Grounds, Follows, NEW io, CoreCycle(io)
    PROVE  MulOwn'
<1>1. MulDiv!UnitCycle(muldiv_stall, id_ex.op, io.md)
  BY DEF CoreCycle, MulDivCycle
<1>2. muldiv_stall => id_ex' = id_ex /\ id_ex # NoOp /\ Mul(id_ex)
  BY ExecuteCycle DEF muldiv_stall, Mul
<1>3. muldiv.st = "busy" => muldiv_stall /\ muldiv.a = id_ex.op
  BY DEF Follows, MulOwn, muldiv_stall, Mul
<1>4. CASE (muldiv.st = "idle" /\ muldiv_stall) \/ muldiv.st = "busy"
  BY <1>1, <1>2, <1>3, <1>4 DEF MulDiv!UnitCycle, MulOwn
<1>5. CASE ~((muldiv.st = "idle" /\ muldiv_stall) \/ muldiv.st = "busy")
  BY <1>1, <1>5 DEF MulDiv!UnitCycle, MulOwn
<1> QED
  BY <1>4, <1>5

\* The cycle of an instruction in decode: only a multiplication may be before it in
\* MEM, and it goes to EX unless it is illegal.
LEMMA DecodeCycle ==
    ASSUME Grounds, Follows, NEW io, CoreCycle(io), if_id.valid
    PROVE  LET bad  == if_id.instr.op = "illegal"
               pred == is_jump(if_id.instr) \/ (is_branch(if_id.instr) /\ io.taken)
           IN  /\ ~wb_is_trap /\ ~waits(io) /\ id_ex = NoOp /\ ~cpu_halt /\ due = "none"
               /\ ~ifetch_trap_flush
               /\ ex_mem # NoOp => Mul(ex_mem)
               /\ mem_wb # NoOp => Mul(mem_wb) \/ (Mem(mem_wb) /\ ~Failing(isa, mem_wb.instr))
               /\ Trap(io) = IF bad THEN TrapOf("illegal", if_id.pc, if_id.instr.imm) ELSE NoTrap
               /\ ~mret_fire(io) /\ ~csr_redirect_valid /\ ~branch_mispredict
               /\ decode_pred_redirect(io) <=> pred
               /\ fetch_redirect_valid(io) <=> bad \/ pred
               /\ ~cpu_halt' /\ ~if_id'.valid /\ ex_mem' = NoOp
               /\ mem_wb' = IF ex_mem # NoOp THEN Accessed(io) ELSE NoOp
               /\ id_ex' = IF bad THEN NoOp ELSE Decoded(io)
               /\ ~fetch_accept(io)
<1> USE DEF Grounds, Follows
<1> DEFINE bad  == if_id.instr.op = "illegal"
           pred == is_jump(if_id.instr) \/ (is_branch(if_id.instr) /\ io.taken)
<1>1. /\ id_ex = NoOp /\ ~IsMem(ex_mem) /\ ~fetch.req_pending_q /\ ~fetch.data_valid_q
      /\ ~cpu_halt /\ due = "none" /\ ~ifetch_trap_flush
  BY TrapAt DEF Spacing, InDecode, Ages, Halted, DueRight
<1>2. ex_mem # NoOp => Mul(ex_mem)
  BY DEF Ages, MemoryAge
<1>3. mem_wb # NoOp => Mul(mem_wb) \/ (Mem(mem_wb) /\ ~Failing(isa, mem_wb.instr))
  BY DEF Ages, WriteAge, InWb
<1>4. /\ ~wb_is_trap /\ ~waits(io) /\ cur(ex_mem) = ex_mem
  BY <1>1, <1>3 DEF wb_is_trap, Mul, Mem, Accesses, is_muldiv, waits, mem_wait, cur_is_mem, cur,
                    Spacing, StageCopy
<1>5. ~interrupt_fire(io) /\ ~mem_fault_fire(io) /\ ~mem_misalign_fire(io)
  BY <1>1, <1>2, <1>4, TrapAt DEF Mul, is_muldiv, is_csr, mem_fault_fire, mem_misalign_fire,
     out_fault, out_misaligned, addr_misaligned, cur_is_mem
<1>6. /\ illegal_fire(io) <=> bad
      /\ ~ecall_fire(io) /\ ~mret_fire(io) /\ ~csr_redirect_valid /\ ~branch_mispredict
  BY <1>1, <1>4 DEF illegal_fire, ecall_fire, mret_fire, csr_redirect_valid, branch_mispredict
<1>7. Trap(io) = IF bad THEN TrapOf("illegal", if_id.pc, if_id.instr.imm) ELSE NoTrap
  BY <1>1, <1>5, <1>6 DEF Trap, ifetch_trap_flush
<1>8. Trap(io) # NoTrap <=> bad
  BY <1>1, <1>5, <1>6, TrapFires DEF Fires
<1>9. decode_pred_redirect(io) <=> pred
  BY <1>1 DEF decode_pred_redirect
<1>10. /\ fetch_redirect_valid(io) <=> bad \/ pred
       /\ pipeline_flush_young(io) <=> bad
  BY <1>1, <1>5, <1>6, <1>8, <1>9
  DEF fetch_redirect_valid, pipeline_flush_young, trap_redirect_valid
<1>11. ~load_use_hazard /\ ~muldiv_stall /\ ~ex_passes /\ ~fetch_accept(io)
  BY <1>1 DEF load_use_hazard, IsMem, muldiv_stall, ex_passes, fetch_accept, fetch_valid
<1>12. ~suppress_wrong_path_wb(io) /\ ~csr_replaced(io)
  BY <1>1, <1>5 DEF suppress_wrong_path_wb, ex_mem_is_wrong_path, csr_replaced
<1>13. out_valid(ex_mem, io.dr) <=> ex_mem # NoOp
  BY <1>1, <1>4 DEF out_valid, cur_done, cur_is_mem
<1>14. Advance(io)
  BY <1>4 DEF CoreCycle, Halt, Wait
<1>15. /\ cpu_halt' = cpu_halt /\ if_id' = Bubble /\ ex_mem' = NoOp
       /\ mem_wb' = IF ex_mem # NoOp THEN Accessed(io) ELSE NoOp
       /\ id_ex' = IF bad THEN NoOp ELSE Decoded(io)
  BY <1>9, <1>10, <1>11, <1>12, <1>13, <1>14 DEF Advance
<1>16. Bubble.valid = FALSE
  BY DEF Bubble, Spacing, Shape
<1> QED
  BY <1>1, <1>2, <1>3, <1>4, <1>6, <1>7, <1>9, <1>10, <1>11, <1>15, <1>16

\* How an access ends: out of line, with the page fault the reference has, or with
\* memory's answer from where the reference looks.
LEMMA AccessOutcome ==
    ASSUME Grounds, Follows, NEW dn_resp, NEW data, NEW io, Clock(dn_resp, data, io),
           ex_mem # NoOp, Mem(ex_mem), ~waits(io)
    PROVE  LET i    == ex_mem.instr
               seen == SeenBy(isa.priv, isa.csr.satp, i.imm, i.op)
           IN  /\ mem_misalign_fire(io) <=> i.imm % mem_size(i) # 0
               /\ mem_fault_fire(io) <=> i.imm % mem_size(i) = 0 /\ seen = Sv39!PageFault
               /\ ~Failing(isa, i) => /\ DServed /\ Answering(dn_resp) /\ phys_addr_q = seen
                                      /\ io.dr.data_ok /\ ~io.dr.fault /\ req_q = dcreq(ex_mem)
               /\ Failing(isa, i) => ~(DServed /\ Answering(dn_resp))
<1> USE DEF Grounds, Follows
<1> DEFINE i    == ex_mem.instr
           seen == SeenBy(isa.priv, isa.csr.satp, i.imm, i.op)
<1>1. /\ cur(ex_mem) = ex_mem /\ IsMem(ex_mem) /\ ~cpu_halt
      /\ ex_mem.mem_addr = i.imm /\ ex_mem.mem_size = mem_size(i)
      /\ ex_mem.is_store <=> is_store(i)
      /\ i.op \in {"load", "store"}
  BY DEF Spacing, StageCopy, cur, Ages, MemoryAge, Halted, InMem, Mem, Accesses
<1>2. addr_misaligned(ex_mem) <=> i.imm % mem_size(i) # 0
  BY <1>1 DEF addr_misaligned, cur_is_mem, addr_aligned
<1>3. dn_resp \in {NoResp, OK} /\ io.dr = dresp(dn_resp, data)
  BY DEF Clock
<1>4. /\ io.dr.data_ok <=> DServed /\ (state = "FAULT" \/ Answering(dn_resp))
      /\ io.dr.fault <=> DServed /\ state = "FAULT"
  BY <1>3, PortResponse
<1>5. ASSUME DServed
      PROVE  /\ i.imm % mem_size(i) = 0 /\ req_q = dcreq(ex_mem)
             /\ state = "FAULT" => seen = Sv39!PageFault
             /\ Answering(dn_resp) => phys_addr_q = seen /\ seen # Sv39!PageFault
  <2>1. /\ pending /\ req_q = dcreq(ex_mem) /\ priv_mode_q = isa.priv
        /\ satp_q = isa.csr.satp /\ addr_aligned(ex_mem)
    BY <1>5 DEF Path, StageServed, AccessRight, Spacing, StageCopy
  <2>2. i.imm % mem_size(i) = 0
    BY <1>1, <2>1 DEF addr_aligned
  <2>3. req_q.addr = AddrOf(i.imm) /\ req_q.kind = i.op
    BY <1>1, <1>2, <2>1, <2>2 DEF dcreq, dreq_valid, cur_is_mem, is_store
  <2>4. Translated = seen /\ Walk!PageFault = Sv39!PageFault
    BY <2>1, <2>3 DEF Translated, SeenBy, Walk!Translate, Sv39!Translate, Walk!PageFault,
              Sv39!PageFault, Walk!Maps, Sv39!Maps, Walk!pte_is_nonleaf, Sv39!pte_is_nonleaf,
              PRV_M, PRV_U, Walk!PRV_M, Walk!PRV_U, Sv39!PRV_M, Sv39!PRV_U
  <2> HIDE DEF seen
  <2>5. /\ state = "FAULT" => seen = Sv39!PageFault
        /\ Answering(dn_resp) => phys_addr_q = seen /\ seen # Sv39!PageFault
    BY <2>4 DEF Walks, Answering
  <2> QED
    BY <2>1, <2>2, <2>5
<1> HIDE DEF seen
<1>6. mem_misalign_fire(io) <=> i.imm % mem_size(i) # 0
  BY <1>1, <1>2 DEF mem_misalign_fire, out_valid, out_misaligned, cur_done
<1>7. i.imm % mem_size(i) = 0 => DServed /\ (state = "FAULT" \/ Answering(dn_resp))
  BY <1>1, <1>2, <1>4 DEF waits, mem_wait, cur_is_mem, cur_done, resp_fire
<1>8. mem_fault_fire(io) <=> io.dr.fault
  BY <1>1 DEF mem_fault_fire, out_valid, out_fault, cur_is_mem, cur_done
<1>9. state = "FAULT" => ~Answering(dn_resp)
  BY DEF Answering
<1>10. mem_fault_fire(io) <=> i.imm % mem_size(i) = 0 /\ seen = Sv39!PageFault
  BY <1>4, <1>5, <1>7, <1>8, <1>9
<1>11. Failing(isa, i) <=> i.imm % mem_size(i) # 0 \/ seen = Sv39!PageFault
  BY DEF Failing, seen
<1> HIDE DEF i
<1>12. ~Failing(isa, i) => /\ DServed /\ Answering(dn_resp) /\ phys_addr_q = seen
                           /\ io.dr.data_ok /\ ~io.dr.fault /\ req_q = dcreq(ex_mem)
  BY <1>4, <1>5, <1>7, <1>9, <1>11
<1>13. Failing(isa, i) => ~(DServed /\ Answering(dn_resp))
  BY <1>5, <1>11
<1> QED
  BY <1>6, <1>10, <1>12, <1>13 DEF i, seen

\* The cycle of an instruction in MEM with nothing in decode: it waits, retires with
\* or without a trap of its own, or is replaced by the interrupt it lets in.
LEMMA MemoryCycle ==
    ASSUME Grounds, Follows, NEW dn_resp, NEW data, NEW io, Clock(dn_resp, data, io),
           ex_mem # NoOp, ~if_id.valid
    PROVE  /\ ~wb_is_trap /\ mem_wb = NoOp /\ id_ex = NoOp /\ due = "none"
           /\ ~cpu_halt /\ ~cpu_halt' /\ ~ifetch_trap_flush /\ ~mret_fire(io)
           /\ ~csr_redirect_valid /\ ~branch_mispredict /\ ~decode_pred_redirect(io)
           /\ Trap(io) = IF interrupt_fire(io) THEN TrapOf("mti", isa.pc + 4, 0)
                         ELSE IF ~waits(io) /\ Mem(ex_mem) /\ Failing(isa, ex_mem.instr)
                         THEN TrapOf(Cause1(isa, ex_mem.instr), isa.pc, ex_mem.instr.imm)
                         ELSE NoTrap
           /\ fetch_redirect_valid(io) <=> Trap(io) # NoTrap
           /\ interrupt_fire(io) => /\ ~waits(io) /\ is_csr(ex_mem.instr) /\ priv_mode = PRV_M
                                    /\ ex_mem.instr.csr = "mstatus"
           /\ waits(io) => /\ UNCHANGED <<if_id, id_ex, ex_mem>> /\ mem_wb' = NoOp
                           /\ ~fetch_accept(io)
           /\ ~waits(io) => /\ ex_mem' = NoOp /\ id_ex' = NoOp
                            /\ mem_wb' = IF interrupt_fire(io) THEN NoOp ELSE Accessed(io)
                            /\ if_id'.valid <=> fetch_accept(io)
<1> USE DEF Grounds, Follows
<1> DEFINE i == ex_mem.instr
<1>0. CoreCycle(io)
  BY DEF Clock
<1>1. /\ id_ex = NoOp /\ mem_wb = NoOp /\ due = "none" /\ ~cpu_halt /\ ~ifetch_trap_flush
      /\ cur(ex_mem) = ex_mem /\ ~wb_is_trap /\ ex_mem.pc = isa.pc
  BY TrapAt DEF Spacing, InExecute, InWriteback, StageCopy, cur, DueRight, Ages, Halted,
     wb_is_trap, InMem, Retiring
<1>2. /\ ~mret_fire(io) /\ ~ecall_fire(io) /\ ~illegal_fire(io)
      /\ ~csr_redirect_valid /\ ~branch_mispredict /\ ~decode_pred_redirect(io)
      /\ ~load_use_hazard /\ ~muldiv_stall /\ ~ex_passes
  BY <1>1 DEF mret_fire, ecall_fire, illegal_fire, csr_redirect_valid, branch_mispredict,
     decode_pred_redirect, load_use_hazard, muldiv_stall, ex_passes
<1>3. interrupt_fire(io) =>
         /\ ~waits(io) /\ is_csr(i) /\ priv_mode = PRV_M /\ i.csr = "mstatus"
         /\ csrsi_opens_mie_ex /\ Writes(ex_mem, "mstatus")
  BY TrapAt DEF interrupt_fire, csrsi_opens_mie_ex
<1>4. mem_fault_fire(io) \/ mem_misalign_fire(io) <=> ~waits(io) /\ Mem(ex_mem) /\ Failing(isa, i)
  <2>1. ~waits(io) /\ Mem(ex_mem) =>
           (mem_fault_fire(io) \/ mem_misalign_fire(io) <=> Failing(isa, i))
    BY AccessOutcome DEF Failing
  <2>2. mem_fault_fire(io) \/ mem_misalign_fire(io) => Mem(ex_mem) /\ ~waits(io)
    BY <1>1 DEF mem_fault_fire, mem_misalign_fire, out_valid, out_fault, out_misaligned,
       addr_misaligned, cur_is_mem, waits, mem_wait, Ages, MemoryAge
  <2> QED
    BY <2>1, <2>2
<1>5. /\ mem_fault_fire(io) => i.imm % mem_size(i) = 0
      /\ mem_misalign_fire(io) => i.imm % mem_size(i) # 0
      /\ ex_mem.mem_addr = i.imm /\ (ex_mem.is_store <=> is_store(i))
  <2>1. mem_fault_fire(io) \/ mem_misalign_fire(io) => Mem(ex_mem) /\ ~waits(io)
    BY <1>4
  <2> QED
    BY <2>1, AccessOutcome DEF InMem
<1>6. Trap(io) = IF interrupt_fire(io) THEN TrapOf("mti", isa.pc + 4, 0)
                 ELSE IF ~waits(io) /\ Mem(ex_mem) /\ Failing(isa, i)
                 THEN TrapOf(Cause1(isa, i), isa.pc, i.imm)
                 ELSE NoTrap
  <2>1. CASE interrupt_fire(io)
    BY <1>1, <1>3, <2>1 DEF Trap, arch_pc_next
  <2>2. CASE ~interrupt_fire(io) /\ mem_fault_fire(io)
    BY <1>1, <1>4, <1>5, <2>2 DEF Trap, Cause1
  <2>3. CASE ~interrupt_fire(io) /\ ~mem_fault_fire(io) /\ mem_misalign_fire(io)
    BY <1>1, <1>4, <1>5, <2>3 DEF Trap, Cause1
  <2>4. CASE ~interrupt_fire(io) /\ ~mem_fault_fire(io) /\ ~mem_misalign_fire(io)
    BY <1>1, <1>2, <1>4, <2>4 DEF Trap, ifetch_trap_flush
  <2> QED
    BY <2>1, <2>2, <2>3, <2>4
<1>7. Trap(io) # NoTrap <=> interrupt_fire(io) \/ mem_fault_fire(io) \/ mem_misalign_fire(io)
  BY <1>1, <1>2, TrapFires DEF Fires
<1>8. /\ fetch_redirect_valid(io) <=> Trap(io) # NoTrap
      /\ pipeline_flush_young(io) <=> Trap(io) # NoTrap
  BY <1>1, <1>2, <1>7 DEF fetch_redirect_valid, pipeline_flush_young, trap_redirect_valid
<1>9. waits(io) => UNCHANGED <<if_id, id_ex, ex_mem, cpu_halt>> /\ mem_wb' = NoOp /\ ~fetch_accept(io)
  BY <1>0, <1>1 DEF CoreCycle, Halt, Wait, Advance, fetch_accept
<1>10. ASSUME ~waits(io)
       PROVE  /\ ex_mem' = NoOp /\ id_ex' = NoOp /\ cpu_halt' = cpu_halt
              /\ mem_wb' = IF interrupt_fire(io) THEN NoOp ELSE Accessed(io)
              /\ if_id'.valid <=> fetch_accept(io)
  <2>1. Advance(io)
    BY <1>0, <1>1, <1>10 DEF CoreCycle, Halt, Wait
  <2>2. /\ out_valid(ex_mem, io.dr)
        /\ csr_replaced(io) <=> interrupt_fire(io)
        /\ ~suppress_wrong_path_wb(io)
    BY <1>1, <1>3, <1>10 DEF out_valid, waits, mem_wait, cur_done, csr_replaced,
       suppress_wrong_path_wb, ex_mem_is_wrong_path
  <2>3. /\ ex_mem' = NoOp /\ id_ex' = NoOp /\ cpu_halt' = cpu_halt
        /\ mem_wb' = IF interrupt_fire(io) THEN NoOp ELSE Accessed(io)
    BY <1>2, <2>1, <2>2 DEF Advance
  <2>4. if_id' = IF fetch_accept(io)
                 THEN [valid |-> TRUE, pc |-> fetch_pc, instr |-> fetch_instr] ELSE Bubble
    BY <1>2, <1>8, <2>1 DEF Advance, fetch_accept
  <2>5. Bubble.valid = FALSE /\ [valid |-> TRUE, pc |-> fetch_pc, instr |-> fetch_instr].valid = TRUE
    BY DEF Bubble, Spacing, Shape
  <2> QED
    BY <2>3, <2>4, <2>5
<1> QED
  BY <1>1, <1>2, <1>3, <1>6, <1>8, <1>9, <1>10

\* The cycle of a pipeline that is empty but for WB.
LEMMA EmptyCycle ==
    ASSUME Grounds, Follows, NEW io, CoreCycle(io),
           ex_mem = NoOp, id_ex = NoOp, ~if_id.valid, ~wb_is_trap
    PROVE  /\ Trap(io) = IF ifetch_trap_flush
                         THEN TrapOf("fetch misaligned", fetch_pc, fetch_pc) ELSE NoTrap
           /\ ~mret_fire(io) /\ ~fetch_redirect_valid(io) /\ ~waits(io)
           /\ cpu_halt' = cpu_halt /\ mem_wb' = NoOp /\ ex_mem' = NoOp /\ id_ex' = NoOp
           /\ if_id'.valid <=> fetch_accept(io)
<1> USE DEF Grounds, Follows
<1>1. /\ ~waits(io) /\ cur(ex_mem) = NoOp /\ ~out_valid(ex_mem, io.dr)
  BY DEF Spacing, StageCopy, IsMem, waits, mem_wait, cur_is_mem, cur, out_valid
<1>2. /\ ~interrupt_fire(io) /\ ~mem_fault_fire(io) /\ ~mem_misalign_fire(io)
      /\ ~illegal_fire(io) /\ ~ecall_fire(io) /\ ~mret_fire(io)
      /\ ~csr_redirect_valid /\ ~branch_mispredict /\ ~decode_pred_redirect(io)
      /\ ~load_use_hazard /\ ~muldiv_stall /\ ~ex_passes
  BY <1>1, TrapAt DEF mem_fault_fire, mem_misalign_fire, illegal_fire, ecall_fire, mret_fire,
     csr_redirect_valid, branch_mispredict, decode_pred_redirect, load_use_hazard,
     muldiv_stall, ex_passes
<1>3. Trap(io) = IF ifetch_trap_flush
                 THEN TrapOf("fetch misaligned", fetch_pc, fetch_pc) ELSE NoTrap
  BY <1>2, TrapAt DEF Trap, ifetch_trap_flush
<1>4. Trap(io) # NoTrap <=> ifetch_trap_flush
  BY <1>2, TrapFires DEF Fires
<1>5. /\ ~fetch_redirect_valid(io)
      /\ pipeline_flush_young(io) <=> ifetch_trap_flush
  BY <1>2, <1>4 DEF fetch_redirect_valid, pipeline_flush_young, trap_redirect_valid
<1>6. Advance(io)
  BY <1>1 DEF CoreCycle, Halt, Wait
<1>7. /\ cpu_halt' = cpu_halt /\ mem_wb' = NoOp /\ ex_mem' = NoOp /\ id_ex' = NoOp
      /\ if_id' = IF fetch_accept(io)
                  THEN [valid |-> TRUE, pc |-> fetch_pc, instr |-> fetch_instr] ELSE Bubble
  BY <1>1, <1>2, <1>5, <1>6 DEF Advance, fetch_accept
<1>8. Bubble.valid = FALSE /\ [valid |-> TRUE, pc |-> fetch_pc, instr |-> fetch_instr].valid = TRUE
  BY DEF Bubble, Spacing, Shape
<1> QED
  BY <1>1, <1>2, <1>3, <1>5, <1>7, <1>8

\* The cycle in which the halting instruction retires: it is alone.
LEMMA HaltCycle ==
    ASSUME Grounds, Follows, NEW io, CoreCycle(io), wb_is_trap
    PROVE  /\ mem_wb # NoOp /\ due = "none" /\ Trap(io) = NoTrap /\ ~mret_fire(io)
           /\ ex_mem = NoOp
           /\ cpu_halt' /\ mem_wb' = NoOp /\ ex_mem' = NoOp /\ id_ex' = NoOp /\ ~if_id'.valid
<1> USE DEF Grounds, Follows
<1>1. /\ mem_wb # NoOp /\ ~Mul(mem_wb) /\ ~Mem(mem_wb)
  BY DEF wb_is_trap, Mul, Mem, Accesses, is_muldiv
<1>2. /\ due = "none" /\ ex_mem = NoOp /\ id_ex = NoOp /\ ~if_id.valid /\ ~ifetch_trap_flush
  BY <1>1, TrapAt DEF DueRight, Spacing, InWriteback, Ages, ExecuteAge, WriteAge
<1>3. /\ ~interrupt_fire(io) /\ ~mem_fault_fire(io) /\ ~mem_misalign_fire(io)
      /\ ~illegal_fire(io) /\ ~ecall_fire(io) /\ ~mret_fire(io)
  BY <1>2, TrapAt DEF mem_fault_fire, mem_misalign_fire, illegal_fire, ecall_fire, mret_fire,
     out_valid, cur, Spacing, StageCopy, IsMem
<1>4. Trap(io) = NoTrap
  BY <1>2, <1>3, TrapFires DEF Fires
<1>5. Halt
  BY DEF CoreCycle, Wait, Advance
<1>6. Bubble.valid = FALSE
  BY DEF Bubble, Spacing, Shape
<1> QED
  BY <1>1, <1>2, <1>3, <1>4, <1>5, <1>6 DEF Halt

-----------------------------------------------------------------------------
(* What a cycle makes of memory, of the access in MEM, and of fetch.       *)

\* Memory changes in the cycle a store is answered.
LEMMA RamKeeps ==
    ASSUME Grounds, Follows, NEW dn_resp, NEW data, NEW io, Clock(dn_resp, data, io)
    PROVE  /\ ~(DServed /\ Answering(dn_resp) /\ ~waits(io) /\ ex_mem # NoOp /\ is_store(ex_mem.instr))
              => ram' = ram
           /\ DServed /\ Answering(dn_resp) /\ is_store(ex_mem.instr) =>
                 ram' = IF WordAddr(phys_addr_q) = DADDR
                        THEN [l \in DOMAIN ram |-> IF l \in DOMAIN dreq_data(ex_mem)
                                                   THEN dreq_data(ex_mem)[l] ELSE ram[l]]
                        ELSE ram
<1> USE DEF Grounds, Follows
<1>1. RamCycle(dn_resp, data) /\ io.dr = dresp(dn_resp, data) /\ dn_resp \in {NoResp, OK}
  BY DEF Clock
<1>2. Answering(dn_resp) /\ req_q.kind = "store" => DServed
  BY DEF Answering, Path, Lockstep, FetchServed, IServed, DServed, icreq
<1>3. ASSUME DServed
      PROVE  /\ ex_mem # NoOp /\ (ex_mem.is_store <=> is_store(ex_mem.instr))
             /\ req_q.kind = "store" <=> ex_mem.is_store
             /\ ex_mem.is_store => req_q.data = dreq_data(ex_mem)
             /\ Answering(dn_resp) => ~waits(io)
  <2>1. /\ pending /\ req_q = dcreq(ex_mem) /\ cur(ex_mem) = ex_mem /\ IsMem(ex_mem)
        /\ addr_aligned(ex_mem) /\ ~mem_ok_prev_q
    BY <1>3 DEF Path, StageServed, Spacing, StageCopy, cur, Tidy, DServed
  <2>2. dreq_valid(ex_mem)
    BY <2>1 DEF dreq_valid, cur_is_mem, addr_misaligned
  <2>3. Answering(dn_resp) => io.dr.data_ok
    BY <1>1, <1>3, PortResponse
  <2> QED
    BY <2>1, <2>2, <2>3
    DEF dcreq, IsMem, InMem, waits, mem_wait, cur_done, resp_fire, cur_is_mem
<1> QED
  BY <1>1, <1>2, <1>3 DEF RamCycle

\* Every instruction in MEM that ends carries what the reference computes of it.
LEMMA AccessedKeeps ==
    ASSUME Grounds, Follows, NEW io, ex_mem # NoOp
    PROVE  /\ Accessed(io).pc = ex_mem.pc /\ Accessed(io).instr = ex_mem.instr
           /\ Accessed(io).csr_we = ex_mem.csr_we /\ Accessed(io).csr_new = ex_mem.csr_new
           /\ Accessed(io).reg_write <=> /\ ex_mem.reg_write
                                         /\ ~out_fault(ex_mem, io.dr) /\ ~addr_misaligned(ex_mem)
           /\ Accessed(io).result = IF ex_mem.is_load /\ Accessed(io).reg_write
                                    THEN load_result(ex_mem, io.dr.data) ELSE ex_mem.result
<1>1. cur(ex_mem) = ex_mem
  BY DEF Grounds, Spacing, StageCopy, cur
<1> QED
  BY <1>1 DEF Accessed, out_reg_write

\* A load's answer, cut and extended, is the value the reference loads.
LEMMA LoadMatches ==
    ASSUME Grounds, Follows, NEW dn_resp, NEW data, NEW io, Clock(dn_resp, data, io),
           ex_mem # NoOp, is_load(ex_mem.instr), ~waits(io), ~Failing(isa, ex_mem.instr)
    PROVE  load_result(ex_mem, io.dr.data) = Load(isa, ex_mem.instr)
<1> DEFINE i     == ex_mem.instr
           size  == mem_size(i)
           off   == i.imm % 4
           bytes == [k \in 0 .. size - 1 |-> ram[off + k]]
<1> USE DEF Grounds, Follows
<1>1. /\ ex_mem.mem_addr = i.imm /\ ex_mem.mem_size = size /\ i.imm \in Int
      /\ ex_mem.load_unsigned <=> load_unsigned(i)
      /\ ex_mem.is_load /\ ~ex_mem.is_store /\ Mem(ex_mem) /\ mem_wb = NoOp
      /\ size \in {1, 2, 4} /\ ram \in [0 .. 3 -> Byte]
  BY DEF InMem, is_load, is_store, Mem, Accesses, mem_size, Types, StageTypes, RegTypes, ExMem,
         Instr, Spacing, InWriteback
<1>2. io.dr.data_ok /\ ~io.dr.fault /\ i.imm % size = 0
  BY <1>1, AccessOutcome DEF Failing
<1>3. io.dr.data = ValueOf(ram) /\ ram = isa.ram
  BY <1>1, <1>2, LoadAnswered DEF IsMem, RamRight
<1>4. off \in 0 .. 3 /\ off % size = 0
  BY <1>1, <1>2
<1> DEFINE low == (ValueOf(ram) \div Weight(off)) % Weight(size)
<1>5. /\ low = ValueOf(bytes)
      /\ low < Weight(size) \div 2 <=> bytes[size - 1] \div (BYTE \div 2) = 0
  BY <1>1, <1>4, LoadedBytes
<1>6. load_result(ex_mem, io.dr.data) =
         IF load_unsigned(i) \/ low < Weight(size) \div 2 THEN low
         ELSE low + XMOD - Weight(size)
  BY <1>1, <1>3, SimTopAssumption DEF load_result, byte_off
<1>7. Load(isa, i) = IF bytes[size - 1] \div (BYTE \div 2) = 0 \/ load_unsigned(i) THEN ValueOf(bytes)
                     ELSE ValueOf(bytes) + XMOD - Weight(size)
  BY <1>3 DEF Load, Bytes, First
<1> QED
  BY <1>5, <1>6, <1>7

\* A store's lanes and strobe leave the word the reference stores.
LEMMA StoreMatches ==
    ASSUME Grounds, Follows, ex_mem # NoOp, is_store(ex_mem.instr),
           ex_mem.instr.imm % mem_size(ex_mem.instr) = 0
    PROVE  Store(isa, ex_mem.instr) =
              [l \in DOMAIN isa.ram |-> IF l \in DOMAIN dreq_data(ex_mem)
                                        THEN dreq_data(ex_mem)[l] ELSE isa.ram[l]]
<1> DEFINE i    == ex_mem.instr
           size == mem_size(i)
           off  == i.imm % 4
           v    == isa.x
<1> USE DEF Grounds, Follows
<1>1. /\ ex_mem.mem_addr = i.imm /\ ex_mem.mem_size = size /\ i.imm \in Int
      /\ ex_mem.store_data = v /\ size \in {1, 2, 4} /\ mem_wb = NoOp
      /\ v \in 0 .. W4 - 1
  BY Weights DEF InMem, is_store, mem_size, Types, StageTypes, RegTypes, ExMem, Instr, RegRight,
     Reg, Spacing, InWriteback
<1>2. off \in 0 .. 3 /\ off % size = 0 /\ size \in Nat
  BY <1>1
<1>3. DOMAIN isa.ram = 0 .. 3
  BY <1>1 DEF RamRight, Types, RegTypes
<1>4. dreq_data(ex_mem) = [l \in off .. off + size - 1 |-> Lane((v * Weight(off)) % W4, l)]
  BY <1>1, SimTopAssumption, Weights
  DEF dreq_data, shifted_strobe, byte_off, shifted_store_data, Lane
<1> HIDE DEF off, size, v
<1>5. \A l \in 0 .. 3 : l - off \in 0 .. size - 1 <=> l \in off .. off + size - 1
  BY <1>2
<1>6. \A l \in off .. off + size - 1 : dreq_data(ex_mem)[l] = Lane(v, l - off)
  BY <1>1, <1>2, <1>4, StoredBytes
<1>7. DOMAIN dreq_data(ex_mem) = off .. off + size - 1
  BY <1>4
<1>8. Store(isa, i) = [l \in DOMAIN isa.ram |-> IF l - off \in 0 .. size - 1
                                               THEN Lane(v, l - off) ELSE isa.ram[l]]
  BY DEF Store, First, Bytes, Lane, off, size, v
<1> QED
  BY <1>3, <1>5, <1>6, <1>7, <1>8

\* What the instruction in MEM leaves in the register, and a store in memory.
LEMMA AccessedValue ==
    ASSUME Grounds, Follows, NEW dn_resp, NEW data, NEW io, Clock(dn_resp, data, io),
           ex_mem # NoOp, ~waits(io)
    PROVE  /\ Ahead1.x = IF Accessed(io).reg_write THEN Accessed(io).result ELSE isa.x
           /\ Ahead1.ram = ram'
<1> DEFINE i == ex_mem.instr
           w == Accessed(io)
<1> USE DEF Grounds, Follows
<1>1. Ran(isa, i, Ahead1) /\ i \in Instr
  BY Heads
<1>2. /\ w.reg_write <=> /\ ex_mem.reg_write
                         /\ ~out_fault(ex_mem, io.dr) /\ ~addr_misaligned(ex_mem)
      /\ w.result = IF ex_mem.is_load /\ w.reg_write
                    THEN load_result(ex_mem, io.dr.data) ELSE ex_mem.result
  BY AccessedKeeps
<1>3. /\ ex_mem.reg_write <=> reg_write(i)
      /\ ex_mem.reg_write /\ ~ex_mem.is_load => Ahead1.x = ex_mem.result
      /\ ex_mem.is_load <=> is_load(i)
      /\ ex_mem.is_store <=> is_store(i)
      /\ IsMem(ex_mem) <=> Accesses(i)
      /\ ram = isa.ram /\ cur(ex_mem) = ex_mem
  BY DEF InMem, Ages, MemoryAge, Mem, RamRight, Spacing, InWriteback, StageCopy, cur
<1> SUFFICES /\ Ahead1.x = IF w.reg_write THEN w.result ELSE isa.x
             /\ Ahead1.ram = ram'
  OBVIOUS
<1> HIDE DEF w, Ahead1
<1>4. CASE ~Accesses(i)
  <2>1. w.reg_write <=> ex_mem.reg_write
    BY <1>2, <1>3, <1>4 DEF out_fault, addr_misaligned, cur_is_mem
  <2>2. ~is_load(i) /\ ~is_store(i)
    BY <1>4 DEF Accesses, is_load, is_store
  <2>3. Ahead1.ram = isa.ram /\ (~reg_write(i) => Ahead1.x = isa.x)
    <3>1. \/ i.op \in {"alu", "muldiv"} \/ is_ctrl(i) \/ is_csr(i) \/ i.op \in {"ecall", "mret", "trap"}
      <4>1. i.op \in Op /\ i.op # "illegal"
        BY <1>1 DEF Instr, InMem, Retiring
      <4> QED
        BY <1>4, <4>1 DEF Op, is_ctrl, is_branch, is_jump, is_csr, Accesses
    <3> QED
      BY <1>1, <3>1 DEF Ran, Raised, reg_write
  <2>4. ram' = ram
    BY <2>2, RamKeeps
  <2> QED
    BY <1>2, <1>3, <2>1, <2>2, <2>3, <2>4
<1>5. CASE Accesses(i) /\ Failing(isa, i)
  <2>1. Raised(isa, Cause1(isa, i), isa.pc, i.imm, Ahead1)
    BY <1>1, <1>5 DEF Ran
  <2>2. out_fault(ex_mem, io.dr) \/ addr_misaligned(ex_mem)
    <3>1. mem_fault_fire(io) \/ mem_misalign_fire(io)
      BY <1>5, AccessOutcome DEF Mem, Failing
    <3> QED
      BY <3>1 DEF mem_fault_fire, mem_misalign_fire, out_misaligned
  <2>3. ram' = ram
    BY <1>5, RamKeeps, AccessOutcome DEF Mem
  <2> QED
    BY <1>2, <1>3, <2>1, <2>2, <2>3 DEF Raised
<1>6. CASE Accesses(i) /\ ~Failing(isa, i) /\ is_load(i)
  <2>1. Ahead1.x = Load(isa, i) /\ Ahead1.ram = isa.ram
    BY <1>1, <1>6 DEF Ran
  <2>2. /\ ~out_fault(ex_mem, io.dr) /\ ~addr_misaligned(ex_mem)
    BY <1>3, <1>6, AccessOutcome DEF Mem, out_fault, Failing, addr_misaligned, addr_aligned, InMem
  <2>3. w.reg_write /\ w.result = load_result(ex_mem, io.dr.data)
    BY <1>2, <1>3, <1>6, <2>2 DEF reg_write, is_load
  <2>4. load_result(ex_mem, io.dr.data) = Load(isa, i)
    BY <1>6, LoadMatches
  <2>5. ram' = ram
    BY <1>6, RamKeeps DEF is_load, is_store
  <2> QED
    BY <1>3, <2>1, <2>3, <2>4, <2>5
<1>7. CASE Accesses(i) /\ ~Failing(isa, i) /\ is_store(i)
  <2> DEFINE there == WordAddr(SeenBy(isa.priv, isa.csr.satp, i.imm, "store")) = DADDR
  <2>1. Ahead1.x = isa.x /\ Ahead1.ram = IF there THEN Store(isa, i) ELSE isa.ram
    BY <1>1, <1>7 DEF Ran
  <2>2. ~w.reg_write
    BY <1>2, <1>3, <1>7 DEF reg_write, is_store
  <2>3. /\ DServed /\ Answering(dn_resp)
        /\ phys_addr_q = SeenBy(isa.priv, isa.csr.satp, i.imm, "store")
    BY <1>7, AccessOutcome DEF Mem, is_store
  <2>4. Store(isa, i) = [l \in DOMAIN isa.ram |-> IF l \in DOMAIN dreq_data(ex_mem)
                                                  THEN dreq_data(ex_mem)[l] ELSE isa.ram[l]]
    BY <1>7, StoreMatches DEF Failing
  <2>5. ram' = IF there THEN [l \in DOMAIN ram |-> IF l \in DOMAIN dreq_data(ex_mem)
                                                   THEN dreq_data(ex_mem)[l] ELSE ram[l]]
               ELSE ram
    BY <1>7, <2>3, RamKeeps
  <2> QED
    BY <1>3, <2>1, <2>2, <2>4, <2>5
<1>8. Accesses(i) => is_load(i) \/ is_store(i)
  BY DEF Accesses, is_load, is_store
<1> QED
  BY <1>4, <1>5, <1>6, <1>7, <1>8

\* An access that waits belongs to the reference's next instruction: it keeps the
\* privilege and the satp of that.
LEMMA AccessRightStep ==
    ASSUME Grounds, Follows, NEW dn_resp, NEW data, NEW io, Clock(dn_resp, data, io)
    PROVE  AccessRight'
<1> USE DEF Grounds, Follows
<1>1. /\ MemCycle(wb_is_trap, ex_mem, io.dr, mmu_priv)
  BY DEF Clock, PathCycle, ctl
<1>2. ASSUME pending'
      PROVE  /\ isa' = isa /\ csr.satp = isa.csr.satp
             /\ mem_priv_q' = isa.priv
  <2>1. IsMem(ex_mem) /\ waits(io) /\ ~wb_is_trap
    BY <1>1, <1>2 DEF MemCycle, MemFlush, MemCapture, MemRelease, MemKeep, captures, releases, waits,
       mem_wait, cur_done, cur_is_mem, cur, addr_misaligned, Spacing, StageCopy
  <2>2. ex_mem # NoOp /\ ~if_id.valid
    BY <2>1 DEF IsMem, Spacing, InDecode
  <2>3. mem_wb = NoOp /\ due = "none"
    BY <2>2, MemoryCycle
  <2>4. isa' = isa
    BY <2>3, ReferenceMoves
  <2>5. Current = isa
    BY <2>1, <2>2, <2>3 DEF Current, Early, Ages, MemoryAge, Mem, Accesses
  <2>6. priv_mode = isa.priv /\ csr = isa.csr /\ mmu_priv = isa.priv
    BY <2>5 DEF CsrRight, Front, PrivSame
  <2>7. mem_priv_q' = mmu_priv \/ (pending /\ mem_priv_q' = mem_priv_q)
    BY <1>1, <1>2, <2>1 DEF MemCycle, MemCapture, MemRelease, MemKeep
  <2> QED
    BY <2>4, <2>6, <2>7 DEF AccessRight
<1>3. ASSUME DServed'
      PROVE  satp_q' = isa'.csr.satp
  <2>1. pending'
    BY <1>3, StageServedStep DEF StageServed
  <2>2. \/ satp_q' = csr.satp
        \/ DServed /\ satp_q' = satp_q
    BY <1>3, BusCycle DEF DServed, Path
  <2> QED
    BY <1>2, <2>1, <2>2 DEF AccessRight
<1> QED
  BY <1>2, <1>3 DEF AccessRight

-----------------------------------------------------------------------------
(* The rest of Follows, register by register.                              *)

Kick(io) == fetch_redirect_valid(io) \/ ifetch_trap_flush

\* Fetch goes where it is sent, on from what is accepted, or stays.
LEMMA FetchAtStep ==
    ASSUME Grounds, Follows, NEW dn_resp, NEW data, NEW io, Clock(dn_resp, data, io), ~cpu_halt,
           Kick(io) => redirect_pc(io) = NextPC',
           ~Kick(io) /\ fetch_accept(io) => NextPC' = fetch.data_pc_q + 4,
           ~Kick(io) /\ ~fetch_accept(io) => NextPC' = NextPC
    PROVE  FetchAt'
<1> DEFINE fire  == response_fire(iresp(dn_resp, data))
           start == ~cpu_halt /\ ~Kick(io) /\ ~fetch.req_pending_q /\ ~fetch.data_valid_q
           n     == NextPC'
<1>1. /\ fire => IServed
      /\ fetch'.data_valid_q <=> /\ ~Kick(io)
                                 /\ \/ fire /\ ~fetch.drop_resp_q /\ state # "FAULT"
                                    \/ ~fire /\ fetch.data_valid_q /\ ~fetch_accept(io)
      /\ fetch'.req_pending_q <=> (fetch.req_pending_q /\ ~fire) \/ start
      /\ fetch'.drop_resp_q <=> ~fire /\ fetch.req_pending_q /\ (fetch.drop_resp_q \/ Kick(io))
      /\ fetch'.pc_q = IF Kick(io) THEN redirect_pc(io)
                       ELSE IF fetch_accept(io) THEN fetch.data_pc_q + 4 ELSE fetch.pc_q
      /\ fetch'.req_pc_q = IF start THEN fetch.pc_q ELSE fetch.req_pc_q
      /\ IF ~Kick(io) /\ fire /\ ~fetch.drop_resp_q /\ state # "FAULT"
         THEN fetch'.data_pc_q = fetch.req_pc_q
         ELSE fetch'.data_pc_q = fetch.data_pc_q
  BY FetchOutcome DEF Grounds, Kick
<1>2. /\ IServed => fetch.req_pending_q
      /\ fetch.drop_resp_q => fetch.req_pending_q
      /\ fetch_accept(io) => fetch.data_valid_q
      /\ ~(fetch.req_pending_q /\ fetch.data_valid_q)
  BY DEF Grounds, Path, FetchServed, Tidy, fetch_accept, fetch_valid, Spacing, FetchSlot
<1>3. /\ fetch.pc_q = NextPC
      /\ fetch.req_pending_q /\ ~fetch.drop_resp_q => fetch.req_pc_q = NextPC
      /\ fetch.data_valid_q => fetch.data_pc_q = NextPC
  BY DEF Follows, FetchAt
<1> HIDE DEF fire
<1>4. /\ fetch'.pc_q = n
      /\ fetch'.req_pending_q /\ ~fetch'.drop_resp_q => fetch'.req_pc_q = n
      /\ fetch'.data_valid_q => fetch'.data_pc_q = n
  <2>1. CASE Kick(io)
    BY <1>1, <1>2, <2>1
  <2>2. CASE ~Kick(io) /\ fetch_accept(io)
    BY <1>1, <1>2, <2>2
  <2>3. CASE ~Kick(io) /\ ~fetch_accept(io)
    BY <1>1, <1>2, <1>3, <2>3
  <2> QED
    BY <2>1, <2>2, <2>3
<1> QED
  BY <1>4 DEF FetchAt

\* What decode takes over is the word fetch had to go on with.
LEMMA Accepts ==
    ASSUME Grounds, Follows, NEW dn_resp, NEW data, NEW io, Clock(dn_resp, data, io), if_id'.valid
    PROVE  /\ fetch_accept(io) /\ ~Kick(io) /\ ~cpu_halt /\ fetch.data_valid_q
           /\ if_id'.pc = NextPC /\ if_id'.pc = fetch.data_pc_q /\ if_id'.pc % 4 = 0
           /\ if_id'.instr = Word(prog', NextPC, priv_mode, csr.satp)
<1>1. /\ fetch_accept(io) /\ fetch.data_valid_q
      /\ if_id'.pc = fetch.data_pc_q /\ if_id'.instr = fetch.instr_q
  BY Moves DEF Clock, Grounds, fetch_pc, fetch_instr
<1>2. ~Kick(io) /\ ~cpu_halt
  BY <1>1 DEF fetch_accept, Kick
<1>3. fetch.data_pc_q % 4 = 0
  BY <1>1, <1>2 DEF Kick, ifetch_trap_flush, instr_misalign_fire, fetch_valid, fetch_pc
<1>4. fetch.data_pc_q = NextPC
  BY <1>1, <1>2 DEF Follows, FetchAt
<1>5. /\ fetch.instr_q = Word(prog, fetch.data_pc_q, priv_mode, csr.satp)
      /\ fetch.instr_q # NoInstr
  BY <1>1 DEF Grounds, FetchRight
<1>6. Word(prog', fetch.data_pc_q, priv_mode, csr.satp) = fetch.instr_q
  BY <1>5, ProgramStep DEF Grounds
<1> QED
  BY <1>1, <1>2, <1>3, <1>4, <1>6

\* The reference retires what is in WB in the cycle it leaves; what is in MEM or in
\* EX comes one place nearer.
LEMMA AheadMoves ==
    ASSUME Grounds, Follows, NEW dn_resp, NEW data, NEW io, Clock(dn_resp, data, io)
    PROVE  /\ ex_mem # NoOp => /\ mem_wb = NoOp /\ due = "none" /\ isa' = isa
                               /\ FetchedIn(prog, isa)' = FetchedIn(prog, isa) /\ Ahead1' = Ahead1
           /\ due = "none" /\ ex_mem = NoOp => isa' = Ahead
           /\ mem_wb # NoOp => isa' = Ahead /\ Ahead = Ahead1
<1> USE DEF Grounds, Follows
<1>1. ex_mem # NoOp => mem_wb = NoOp /\ due = "none"
  BY DEF Spacing, InWriteback, DueRight
<1>2. ex_mem # NoOp => FetchedIn(prog, isa) # NoInstr
  BY Heads
<1>3. ex_mem # NoOp => isa' = isa
  BY <1>1, ReferenceMoves
<1>4. ex_mem # NoOp => FetchedIn(prog', isa) = FetchedIn(prog, isa) /\ StepIn(prog', isa) = StepIn(prog, isa)
  BY <1>2, Decides
<1>5. ex_mem # NoOp => FetchedIn(prog, isa)' = FetchedIn(prog, isa) /\ Ahead1' = Ahead1
  <2>1. FetchedIn(prog, isa)' = FetchedIn(prog', isa')
    BY DEF FetchedIn, Word, InsnIn
  <2>2. Ahead1' = StepIn(prog', isa')
    BY <2>1 DEF Ahead1, StepIn
  <2> QED
    BY <1>3, <1>4, <2>1, <2>2 DEF Ahead1
<1>6. due = "none" /\ ex_mem = NoOp => isa' = Ahead
  BY ReferenceMoves DEF Ahead
<1>7. mem_wb # NoOp => isa' = Ahead /\ Ahead = Ahead1
  BY ReferenceMoves DEF Ahead
<1> QED
  BY <1>1, <1>3, <1>5, <1>6, <1>7

\* What enters WB is what the reference commits next, with its result.
LEMMA InWbStep ==
    ASSUME Grounds, Follows, NEW dn_resp, NEW data, NEW io, Clock(dn_resp, data, io)
    PROVE  InWb'
<1> USE DEF Grounds, Follows
<1> SUFFICES ASSUME mem_wb' # NoOp PROVE InWb'
  BY DEF InWb
<1>1. ex_mem # NoOp /\ ~waits(io) /\ ~csr_replaced(io) /\ mem_wb' = Accessed(io)
  BY Moves DEF Clock
<1>2. /\ mem_wb'.pc = ex_mem.pc /\ mem_wb'.instr = ex_mem.instr
      /\ mem_wb'.csr_we = ex_mem.csr_we /\ mem_wb'.csr_new = ex_mem.csr_new
  BY <1>1, AccessedKeeps
<1>3. isa' = isa /\ FetchedIn(prog, isa)' = FetchedIn(prog, isa) /\ Ahead1' = Ahead1
  BY <1>1, AheadMoves
<1>4. Ahead1.x = IF mem_wb'.reg_write THEN mem_wb'.result ELSE isa.x
  BY <1>1, AccessedValue
<1>5. Retiring(mem_wb)'
  BY <1>1, <1>2, <1>3 DEF InMem, Retiring
<1>6. ASSUME Mem(ex_mem), Failing(isa, ex_mem.instr) PROVE ~if_id'.valid /\ ~fetch'.data_valid_q
  <2>1. ~if_id.valid
    BY <1>1, <1>6 DEF Ages, MemoryAge, Mem, Mul, Accesses, is_muldiv
  <2>2. ~interrupt_fire(io)
    BY <1>6, TrapAt DEF Mem, Accesses, is_csr
  <2>3. ~if_id'.valid /\ fetch_redirect_valid(io)
    <3>1. Trap(io) = TrapOf(Cause1(isa, ex_mem.instr), isa.pc, ex_mem.instr.imm)
      BY <1>1, <1>6, <2>1, <2>2, MemoryCycle
    <3>2. Trap(io) # NoTrap
      <4>1. DOMAIN Trap(io) # DOMAIN NoTrap
        BY <3>1 DEF TrapOf, NoTrap
      <4> QED
        BY <4>1
    <3> QED
      BY <1>1, <2>1, <3>2, MemoryCycle DEF fetch_accept
  <2> QED
    BY <2>3, FetchOutcome
<1>7. Mem(mem_wb)' /\ Failing(isa, mem_wb.instr)' => ~if_id'.valid /\ ~fetch'.data_valid_q
  <2>1. Mem(mem_wb)' <=> Mem(ex_mem)
    BY <1>2 DEF Mem
  <2>2. Failing(isa, mem_wb.instr)' <=> Failing(isa, ex_mem.instr)
    BY <1>2, <1>3 DEF Failing, SeenBy
  <2> QED
    BY <1>6, <2>1, <2>2
<1> QED
  BY <1>3, <1>4, <1>5, <1>7 DEF InWb

\* The instruction in EX is the one the reference executes next, on the CSRs and the
\* privilege that hold; those are not written from behind.
LEMMA ExecuteRuns ==
    ASSUME Grounds, Follows, Types', NEW dn_resp, NEW data, NEW io, Clock(dn_resp, data, io),
           id_ex # NoOp
    PROVE  /\ id_ex.instr \in Instr /\ isa' = Ahead /\ Machine(Ahead)
           /\ FetchedIn(prog, isa)' = id_ex.instr /\ Ran(Ahead, id_ex.instr, Ahead1')
           /\ csr = Ahead.csr /\ priv_mode = Ahead.priv
           /\ \A reg : csr_fwd(reg) = csr[reg]
           /\ ~(mem_wb # NoOp /\ mem_wb.csr_we)
<1> USE DEF Grounds, Follows
<1>0. CoreCycle(io)
  BY DEF Clock
<1>1. ex_mem = NoOp /\ due = "none" /\ (mem_wb # NoOp => Mul(mem_wb))
  BY <1>0, ExecuteCycle
<1>2. isa' = Ahead /\ Machine(Ahead)
  BY <1>1, AheadMoves, Heads
<1>3. id_ex.instr \in Instr /\ id_ex.instr # NoInstr /\ id_ex.instr = FetchedIn(prog, Ahead)
      /\ id_ex.instr.op # "illegal"
  BY CoreAssumption DEF Types, StageTypes, IdEx, InEx
<1>4. FetchedIn(prog', Ahead) = id_ex.instr
  BY <1>3, Decides
<1>5. FetchedIn(prog, isa)' = id_ex.instr /\ Ahead1' = Execute(Ahead, id_ex.instr)
  <2>1. FetchedIn(prog, isa)' = FetchedIn(prog', isa')
    BY DEF FetchedIn, Word, InsnIn
  <2>2. Ahead1' = StepIn(prog', isa')
    BY <2>1 DEF Ahead1, StepIn
  <2> QED
    BY <1>2, <1>3, <1>4, <2>1, <2>2 DEF StepIn
<1>6. Ahead.x \in Reg
  BY <1>2, RegRightStep DEF RegRight, Types, RegTypes
<1>7. Ran(Ahead, id_ex.instr, Ahead1')
  BY <1>2, <1>3, <1>5, <1>6, Executes
<1>8. ~(mem_wb # NoOp /\ mem_wb.csr_we)
  BY <1>1 DEF InWb, Retiring, Mul, is_muldiv, is_csr
<1>9. \A reg : csr_fwd(reg) = csr[reg]
  BY <1>1, <1>8 DEF csr_fwd, Writes
<1>10. csr = Ahead.csr /\ priv_mode = Ahead.priv
  <2>1. ~Early
    BY <1>1 DEF Early, Mul, Mem, Accesses, is_muldiv
  <2>2. csr = isa.csr /\ priv_mode = isa.priv
    BY <1>1, <2>1 DEF CsrRight, Current
  <2>3. mem_wb # NoOp => Ahead.csr = isa.csr /\ Ahead.priv = isa.priv
    BY <1>1, Straight DEF Ahead, Mul
  <2>4. mem_wb = NoOp => Ahead = isa
    BY <1>1 DEF Ahead
  <2> QED
    BY <2>2, <2>3, <2>4
<1> QED
  BY <1>2, <1>3, <1>5, <1>7, <1>8, <1>9, <1>10

\* What enters MEM has the operands and the result the reference gives it.
LEMMA InMemStep ==
    ASSUME Grounds, Follows, Types', NEW dn_resp, NEW data, NEW io, Clock(dn_resp, data, io)
    PROVE  InMem'
<1> USE DEF Grounds, Follows
<1> SUFFICES ASSUME ex_mem' # NoOp PROVE InMem'
  BY DEF InMem
<1>1. CASE ex_passes /\ ex_mem' = Executed(io)
  <2> DEFINE i == id_ex.instr
             e == Executed(io)
  <2>1. id_ex # NoOp /\ (is_muldiv(i) => muldiv.a = id_ex.op)
    BY <1>1 DEF ex_passes, MulOwn
  <2>2. /\ i \in Instr /\ isa' = Ahead /\ FetchedIn(prog, isa)' = i /\ Ran(Ahead, i, Ahead1')
        /\ csr = Ahead.csr /\ \A reg : csr_fwd(reg) = csr[reg]
    BY <2>1, ExecuteRuns
  <2>3. /\ id_ex.pc = Ahead.pc /\ id_ex.pc % 4 = 0 /\ i.op # "illegal"
        /\ use_rs(i) => id_ex.op = Ahead.x
    BY <2>1 DEF InEx
  <2>4. /\ e.pc = id_ex.pc /\ e.instr = i
        /\ e.reg_write <=> reg_write(i) /\ Trap(io) = NoTrap
        /\ e.result = ex_result
        /\ e.is_load = is_load(i) /\ e.is_store = is_store(i)
        /\ e.mem_size = mem_size(i) /\ e.load_unsigned = load_unsigned(i) /\ e.mem_addr = i.imm
        /\ e.store_data = id_ex.op /\ e.csr_we = is_csr(i)
        /\ is_csr(i) => e.csr_new = CsrNew(i, csr_fwd(i.csr))
    BY DEF Executed
  <2> HIDE DEF e
  <2>5. e.reg_write <=> reg_write(i)
    <3>1. Trap(io) # NoTrap => i.op = "ecall"
      BY <2>1, ExecuteCycle DEF Clock
    <3> QED
      BY <2>4, <3>1 DEF reg_write
  <2>6. reg_write(i) /\ ~is_load(i) => Ahead1'.x = e.result
    <3>1. reg_write(i) /\ ~is_load(i) => i.op \in {"alu", "muldiv"} /\ use_rs(i)
      BY DEF reg_write, is_load, use_rs
    <3>2. reg_write(i) /\ ~is_load(i) => ex_result = Value(i, Ahead.x)
      BY <2>1, <2>3, <3>1 DEF ex_result
    <3> HIDE DEF i
    <3> QED
      BY <2>2, <2>4, <3>1, <3>2 DEF Ran
  <2>7. is_store(i) => e.store_data = isa'.x
    BY <2>2, <2>3, <2>4 DEF is_store, use_rs
  <2>8. Retiring(ex_mem)'
    BY <1>1, <2>2, <2>3, <2>4 DEF Retiring, e
  <2>9. ex_mem' = e
    BY <1>1 DEF e
  <2> QED
    BY <2>4, <2>5, <2>6, <2>7, <2>8, <2>9 DEF InMem
<1>2. CASE waits(io) /\ IsMem(ex_mem) /\ ex_mem' = ex_mem
  <2>1. ex_mem # NoOp
    BY <1>2 DEF IsMem
  <2>2. isa' = isa /\ FetchedIn(prog, isa)' = FetchedIn(prog, isa) /\ Ahead1' = Ahead1
    BY <2>1, AheadMoves
  <2>3. Retiring(ex_mem)'
    BY <1>2, <2>1, <2>2 DEF InMem, Retiring
  <2> QED
    BY <1>2, <2>1, <2>2, <2>3 DEF InMem
<1> QED
  BY <1>1, <1>2, Moves DEF Clock

\* Nothing changes place in front of decode but decode's own instruction.
LEMMA DecodeAhead ==
    ASSUME Grounds, Follows, NEW dn_resp, NEW data, NEW io, Clock(dn_resp, data, io), if_id.valid
    PROVE  /\ Ahead' = Ahead /\ if_id.instr # NoInstr /\ if_id.instr = FetchedIn(prog, Ahead)'
           /\ mem_wb' # NoOp <=> ex_mem # NoOp
           /\ mem_wb' # NoOp => Mul(mem_wb)'
<1> USE DEF Grounds, Follows
<1>1. /\ ex_mem # NoOp => Mul(ex_mem)
      /\ ex_mem' = NoOp /\ mem_wb' = IF ex_mem # NoOp THEN Accessed(io) ELSE NoOp
      /\ due = "none" /\ ~waits(io)
  BY DecodeCycle DEF Clock
<1>2. ex_mem # NoOp => Accessed(io) # NoOp
  BY <1>1, AccessedType, CoreAssumption
<1>3. mem_wb' # NoOp <=> ex_mem # NoOp
  BY <1>1, <1>2
<1>4. Ahead' = Ahead
  <2>1. CASE ex_mem # NoOp
    BY <1>3, <2>1, AheadMoves DEF Ahead
  <2>2. CASE ex_mem = NoOp
    BY <1>1, <1>3, <2>2, AheadMoves DEF Ahead
  <2> QED
    BY <2>1, <2>2
<1>5. if_id.instr # NoInstr /\ if_id.instr = FetchedIn(prog, Ahead)
  BY CoreAssumption DEF InDec, Types, StageTypes
<1>6. if_id.instr = FetchedIn(prog', Ahead)
  BY <1>5, Decides
<1>7. FetchedIn(prog, Ahead)' = FetchedIn(prog', Ahead')
  BY DEF FetchedIn, Word, InsnIn
<1>8. mem_wb' # NoOp => Mul(mem_wb)'
  BY <1>1, <1>3, AccessedKeeps DEF Mul
<1> QED
  BY <1>3, <1>4, <1>5, <1>6, <1>7, <1>8

\* What enters EX has the operands the reference will find, forwarding
\* included.
LEMMA InExStep ==
    ASSUME Grounds, Follows, NEW dn_resp, NEW data, NEW io, Clock(dn_resp, data, io)
    PROVE  InEx'
<1> USE DEF Grounds, Follows
<1> SUFFICES ASSUME id_ex' # NoOp PROVE InEx'
  BY DEF InEx
<1>1. CASE if_id.valid /\ id_ex' = Decoded(io)
  <2> DEFINE i == if_id.instr
  <2>1. /\ Ahead' = Ahead /\ i = FetchedIn(prog, Ahead)'
        /\ if_id.pc = Ahead.pc /\ if_id.pc % 4 = 0
    BY <1>1, DecodeAhead DEF InDec
  <2>2. /\ id_ex = NoOp /\ (ex_mem # NoOp => Mul(ex_mem)) /\ i.op # "illegal"
        /\ mem_wb # NoOp => ex_mem = NoOp
    BY <1>1, DecodeCycle DEF Clock, Spacing, InWriteback
  <2>3. use_rs(i) => id_op_pre = Ahead.x
    <3>1. CASE ex_mem # NoOp
      <4>1. ex_mem.reg_write /\ ~ex_mem.is_load /\ ex_mem.result = Ahead.x
        BY <2>2, <3>1 DEF InMem, Mul, is_muldiv, reg_write, is_load, Ahead
      <4> QED
        BY <2>2, <3>1, <4>1 DEF id_op_pre
    <3>2. CASE ex_mem = NoOp /\ mem_wb # NoOp
      BY <2>2, <3>2 DEF id_op_pre, InWb, Ahead, wb_wen, RegRight
    <3>3. CASE ex_mem = NoOp /\ mem_wb = NoOp
      BY <2>2, <3>3 DEF id_op_pre, Ahead, wb_wen, RegRight
    <3> QED
      BY <3>1, <3>2, <3>3
  <2> DEFINE d == Decoded(io)
  <2>4. /\ d.pc = if_id.pc /\ d.instr = i /\ d.op = id_op_pre
        /\ d.pred_taken => is_ctrl(i)
        /\ d.pred_target = IF d.pred_taken THEN Target(d.pc, d.instr, d.op) ELSE d.pc + 4
    BY DEF Decoded, dec_pred_target, is_ctrl
  <2>5. id_ex' = d
    BY <1>1
  <2> HIDE DEF d
  <2> QED
    BY <2>1, <2>2, <2>3, <2>4, <2>5 DEF InEx
<1>2. CASE muldiv_stall /\ id_ex' = id_ex
  <2>1. id_ex # NoOp
    BY <1>2
  <2>2. /\ mem_wb' = NoOp /\ ex_mem' = NoOp /\ ex_mem = NoOp /\ due = "none"
    BY <1>2, <2>1, ExecuteCycle DEF Clock, muldiv_stall, ex_passes
  <2>3. Ahead' = isa' /\ isa' = Ahead
    BY <2>2, AheadMoves DEF Ahead
  <2>4. id_ex.instr = FetchedIn(prog, Ahead) /\ id_ex.instr # NoInstr
    BY <2>1, CoreAssumption DEF InEx, Types, StageTypes, IdEx
  <2>5. FetchedIn(prog', Ahead) = id_ex.instr
    BY <2>4, Decides
  <2>6. FetchedIn(prog, Ahead)' = FetchedIn(prog', Ahead')
    BY DEF FetchedIn, Word, InsnIn
  <2> QED
    BY <1>2, <2>1, <2>3, <2>5, <2>6 DEF InEx
<1> QED
  BY <1>1, <1>2, Moves DEF Clock

\* Memory stays that of the stores that have been answered.
LEMMA RamRightStep ==
    ASSUME Grounds, Follows, NEW dn_resp, NEW data, NEW io, Clock(dn_resp, data, io)
    PROVE  RamRight'
<1> USE DEF Grounds, Follows
<1>1. CASE mem_wb' # NoOp
  <2>1. ex_mem # NoOp /\ ~waits(io)
    BY <1>1, Moves DEF Clock
  <2> QED
    BY <1>1, <2>1, AccessedValue, AheadMoves DEF RamRight
<1>2. CASE mem_wb' = NoOp /\ ex_mem # NoOp
  <2>1. mem_wb = NoOp /\ isa' = isa
    BY <1>2, AheadMoves
  <2>2. ~waits(io) => ~is_store(ex_mem.instr)
    <3>1. CASE if_id.valid
      BY <1>2, <3>1, DecodeCycle DEF Clock, Mul, is_muldiv, is_store
    <3>2. CASE ~if_id.valid /\ ~waits(io)
      <4>1. Accessed(io) # NoOp
        BY <1>2, <3>2, AccessedType, CoreAssumption
      <4> QED
        BY <1>2, <3>2, <4>1, MemoryCycle DEF is_csr, is_store
    <3> QED
      BY <3>1, <3>2
  <2>3. ram' = ram
    BY <2>2, RamKeeps
  <2> QED
    BY <1>2, <2>1, <2>3 DEF RamRight
<1>3. CASE mem_wb' = NoOp /\ ex_mem = NoOp
  <2>1. ram' = ram
    BY <1>3, RamKeeps
  <2>2. CASE mem_wb # NoOp
    BY <1>3, <2>1, <2>2, AheadMoves DEF RamRight
  <2>3. CASE mem_wb = NoOp /\ due = "none"
    BY <1>3, <2>1, <2>3, ReferenceMoves DEF RamRight
  <2>4. CASE mem_wb = NoOp /\ due # "none"
    <3>1. isa' = Take(prog, isa, due) /\ due \in Cause \ {"none"} /\ Machine(isa)
      BY <2>4, ReferenceMoves DEF DueRight, RegRight
    <3>2. FetchedIn(prog, isa) # NoInstr => FetchedIn(prog, isa) \in Instr
      BY ProgramTypes DEF FetchedIn
    <3>3. isa'.ram = isa.ram
      BY <3>1, <3>2, TakeRaises
    <3> QED
      BY <1>3, <2>1, <2>4, <3>3 DEF RamRight
  <2> QED
    BY <2>2, <2>3, <2>4
<1> QED
  BY <1>1, <1>2, <1>3

\* Where what decode takes over comes in the reference.
LEMMA InDecStep ==
    ASSUME Grounds, Follows, Types', NEW dn_resp, NEW data, NEW io, Clock(dn_resp, data, io)
    PROVE  InDec'
<1> USE DEF Grounds, Follows
<1> SUFFICES ASSUME if_id'.valid
             PROVE  Ahead'.pc = NextPC /\ Ahead'.priv = priv_mode /\ Ahead'.csr.satp = csr.satp
  <2>1. FetchedIn(prog, Ahead)' = Word(prog', Ahead'.pc, Ahead'.priv, Ahead'.csr.satp)
    BY DEF FetchedIn, Word, InsnIn
  <2> QED
    BY <2>1, Accepts DEF InDec
<1>1. /\ fetch_accept(io) /\ ~Kick(io) /\ ~cpu_halt /\ fetch.data_valid_q
      /\ ~waits(io) /\ ~muldiv_stall /\ ~fetch_redirect_valid(io) /\ ~wb_is_trap /\ due = "none"
  BY Accepts, Moves DEF Clock, fetch_accept, DueRight
<1>2. ~if_id.valid
  BY <1>1, DecodeCycle DEF Clock
<1>3. CASE id_ex # NoOp
  <2>1. Mul(id_ex) /\ ex_passes
    BY <1>1, <1>3 DEF Spacing, InExecute, Mul, ex_passes, muldiv_stall
  <2>2. ex_mem' # NoOp
    <3>1. ex_mem' = Executed(io)
      BY <1>3, <2>1, ExecuteCycle DEF Clock
    <3> QED
      BY <1>3, <3>1, ExecutedType, CoreAssumption
  <2>3. Ahead' = Ahead1'
    BY <2>2 DEF Ahead
  <2>4. /\ Ran(Ahead, id_ex.instr, Ahead1') /\ csr = Ahead.csr /\ priv_mode = Ahead.priv
    BY <1>3, ExecuteRuns
  <2>5. NextPC = Ahead.pc + 4
    BY <1>1, <1>2, <1>3, <2>1 DEF NextPC, InEx, Mul, is_muldiv, is_ctrl, is_branch, is_jump
  <2> QED
    BY <2>1, <2>3, <2>4, <2>5 DEF Ran, Mul, is_muldiv
<1>4. CASE ex_mem # NoOp
  <2>1. mem_wb = NoOp /\ isa' = isa /\ Ahead1' = Ahead1 /\ id_ex = NoOp
    BY <1>4, AheadMoves DEF Spacing, InExecute
  <2>2. Mul(ex_mem) \/ Mem(ex_mem)
    BY <1>1, <1>4 DEF Ages, MemoryAge
  <2>3. /\ Trap(io) = NoTrap /\ ~interrupt_fire(io)
    BY <1>1, <1>2, <1>4, MemoryCycle, TrapFires DEF Fires
  <2>4. Mem(ex_mem) => ~Failing(isa, ex_mem.instr)
    <3>1. DOMAIN TrapOf(Cause1(isa, ex_mem.instr), isa.pc, ex_mem.instr.imm) # DOMAIN NoTrap
      BY DEF TrapOf, NoTrap
    <3> QED
      BY <1>1, <1>2, <1>4, <2>3, <3>1, MemoryCycle
  <2>5. mem_wb' # NoOp
    <3>1. mem_wb' = Accessed(io)
      BY <1>1, <1>2, <1>4, <2>3, MemoryCycle
    <3> QED
      BY <1>1, <1>4, <3>1, AccessedType, CoreAssumption
  <2>6. Ahead' = Ahead1
    BY <2>1, <2>5 DEF Ahead
  <2>7. Ahead1.pc = isa.pc + 4 /\ Ahead1.csr = isa.csr /\ Ahead1.priv = isa.priv
    BY <1>4, <2>2, <2>4, Straight DEF Mul, Mem
  <2>8. NextPC = isa.pc + 4
    BY <1>1, <1>2, <1>4, <2>1, <2>7 DEF NextPC, Ahead
  <2>9. ~Early
    BY <2>1, <2>2 DEF Early, Mul, Mem, is_muldiv, Accesses
  <2>10. csr = isa.csr /\ priv_mode = isa.priv
    BY <1>1, <2>9 DEF CsrRight, Current
  <2> QED
    BY <2>6, <2>7, <2>8, <2>10
<1>5. CASE id_ex = NoOp /\ ex_mem = NoOp
  <2>1. /\ mem_wb' = NoOp /\ ex_mem' = NoOp
    BY <1>1, <1>2, <1>5, EmptyCycle DEF Clock
  <2>2. Ahead' = Ahead
    BY <1>1, <1>5, <2>1, AheadMoves DEF Ahead
  <2>3. NextPC = Ahead.pc
    BY <1>1, <1>2, <1>5 DEF NextPC, GoesOn, wb_is_trap
  <2>4. mem_wb # NoOp => Mul(mem_wb) \/ (Mem(mem_wb) /\ ~Failing(isa, mem_wb.instr))
    BY <1>1 DEF Ages, WriteAge, InWb
  <2>5. mem_wb # NoOp => Ahead.csr = isa.csr /\ Ahead.priv = isa.priv
    BY <2>4, Straight DEF Mul, Mem, Ahead
  <2>6. mem_wb = NoOp => Ahead = isa
    BY <1>5 DEF Ahead
  <2>7. ~Early
    BY <1>5, <2>4 DEF Early, Mul, Mem, is_muldiv, Accesses
  <2>8. csr = isa.csr /\ priv_mode = isa.priv
    BY <1>1, <2>7 DEF CsrRight, Current
  <2> QED
    BY <2>2, <2>3, <2>5, <2>6, <2>8
<1> QED
  BY <1>3, <1>4, <1>5

\* A trap writes the CSRs as the reference does when it raises it, and sends fetch to
\* the handler the reference goes to.
LEMMA TrapWrites ==
    ASSUME Types, NEW io, CsrCycle(io), ~mret_fire(io),
           NEW cause, NEW pc, NEW tval, Trap(io) = TrapOf(cause, pc, tval),
           NEW s, csr = s.csr, priv_mode = s.priv, NEW n, Raised(s, cause, pc, tval, n),
           csr_fwd("mtvec") = csr.mtvec
    PROVE  csr' = n.csr /\ priv_mode' = n.priv /\ redirect_pc(io) = n.pc
<1>1. Trap(io) # NoTrap
  <2>1. DOMAIN Trap(io) # DOMAIN NoTrap
    BY DEF TrapOf, NoTrap
  <2> QED
    BY <2>1
<1>2. Trap(io).pc = pc /\ Trap(io).cause = cause /\ Trap(io).tval = tval
  BY DEF TrapOf
<1>3. csr' = n.csr /\ priv_mode' = n.priv
  BY <1>1, <1>2 DEF CsrCycle, Raised, TrapStatus
<1>4. redirect_pc(io) = n.pc
  BY <1>1 DEF redirect_pc, trap_redirect_valid, trap_redirect_pc, Raised
<1> QED
  BY <1>3, <1>4

\* The traps of an instruction leave none due.
LEMMA SyncCauses ==
    ASSUME NEW s, NEW i
    PROVE  Cause1(s, i) \notin {"mti", "fetch misaligned", "fetch fault", "illegal"}
BY DEF Cause1

\* The cause of a trap is read off the record as the code picks it.
LEMMA CauseOf ==
    ASSUME NEW io, NEW cause, NEW pc, NEW tval, Trap(io) = TrapOf(cause, pc, tval)
    PROVE  Trap(io).cause = cause
<1>1. TrapOf(cause, pc, tval).cause = cause
  BY DEF TrapOf
<1> QED
  BY <1>1

\* The cycle of an instruction in EX.
LEMMA ExecuteStep ==
    ASSUME Grounds, Follows, Types', NEW dn_resp, NEW data, NEW io, Clock(dn_resp, data, io),
           id_ex # NoOp
    PROVE  CsrRight' /\ DueRight' /\ FetchAt'
<1> USE DEF Grounds, Follows
<1> DEFINE i    == id_ex.instr
           trap == IF priv_mode = PRV_U THEN "ecall U" ELSE "ecall M"
<1>0. CoreCycle(io) /\ CsrCycle(io)
  BY DEF Clock, CoreCycle
<1>1. /\ ~if_id.valid /\ ex_mem = NoOp /\ ~cpu_halt /\ ~cpu_halt' /\ due = "none"
      /\ Trap(io) = IF i.op = "ecall" THEN TrapOf(trap, id_ex.pc, 0) ELSE NoTrap
      /\ mret_fire(io) <=> i.op = "mret"
      /\ fetch_redirect_valid(io) <=> \/ i.op \in {"ecall", "mret"}
                                      \/ csr_redirect_valid \/ branch_mispredict
      /\ Kick(io) <=> fetch_redirect_valid(io)
      /\ mem_wb' = NoOp /\ ex_mem' = IF ex_passes THEN Executed(io) ELSE NoOp
      /\ muldiv_stall => id_ex' = id_ex /\ ~if_id'.valid /\ ~fetch_redirect_valid(io)
      /\ ~muldiv_stall => id_ex' = NoOp
      /\ if_id'.valid => fetch_accept(io)
      /\ ~muldiv_stall /\ fetch_accept(io) => if_id'.valid
  BY <1>0, ExecuteCycle DEF Kick
<1>2. /\ i \in Instr /\ isa' = Ahead /\ Ran(Ahead, i, Ahead1')
      /\ csr = Ahead.csr /\ priv_mode = Ahead.priv
      /\ \A reg : csr_fwd(reg) = csr[reg]
      /\ ~(mem_wb # NoOp /\ mem_wb.csr_we)
  BY ExecuteRuns
<1>3. /\ id_ex.pc = Ahead.pc
      /\ use_rs(i) => id_ex.op = Ahead.x
      /\ id_ex.pred_taken => is_ctrl(i)
      /\ id_ex.pred_target = IF id_ex.pred_taken THEN Target(id_ex.pc, i, id_ex.op) ELSE id_ex.pc + 4
  BY DEF InEx
<1>4. /\ csr_fwd("mtvec") = csr.mtvec /\ csr_fwd("mepc") = csr.mepc
  BY <1>2 DEF Types, CsrTypes, CsrFile
<1>5. due' = "none"
  <2>1. Trap(io).cause \notin {"mti", "fetch misaligned", "fetch fault", "illegal"}
    <3>1. trap \in {"ecall U", "ecall M"}
      OBVIOUS
    <3>2. Trap(io).cause \in {trap, "none"}
      <4>1. CASE i.op = "ecall"
        <5> HIDE DEF trap
        <5> QED
          BY <1>1, <4>1, CauseOf
      <4>2. CASE i.op # "ecall"
        <5>1. Trap(io) = NoTrap
          BY <1>1, <4>2
        <5> QED
          BY <5>1 DEF NoTrap
      <4> QED
        BY <4>1, <4>2
    <3> QED
      BY <3>1, <3>2
  <2> QED
    BY <1>1, <2>1, ReferenceMoves
<1>6. DueRight'
  BY <1>5 DEF DueRight
<1>7. NextPC = id_ex.pred_target
  BY <1>1 DEF NextPC
<1> HIDE DEF i, trap
<1>8. CASE muldiv_stall
  <2>1. ~ex_passes /\ ex_mem' = NoOp /\ is_muldiv(i) /\ ~fetch_accept(io)
    BY <1>1, <1>8 DEF muldiv_stall, ex_passes, i, fetch_accept
  <2>2. Current' = isa'
    BY <1>1, <1>5, <2>1 DEF Current, Early
  <2>3. csr' = csr /\ priv_mode' = priv_mode
    BY <1>0, <1>1, <1>2, <2>1 DEF CsrCycle, is_muldiv
  <2>4. CsrRight'
    BY <1>2, <2>2, <2>3 DEF CsrRight
  <2>5. NextPC' = id_ex.pred_target
    BY <1>1, <1>5, <1>8 DEF NextPC
  <2>6. FetchAt'
    BY <1>1, <1>7, <1>8, <2>1, <2>5, FetchAtStep
  <2> QED
    BY <1>6, <2>4, <2>6
<1>9. CASE ~muldiv_stall
  <2>1. /\ ex_passes /\ ex_mem' = Executed(io) /\ ex_mem' # NoOp /\ ex_mem'.instr = i
    <3>1. ex_passes
      BY <1>9 DEF ex_passes, muldiv_stall
    <3>2. Executed(io).instr = i
      BY DEF Executed, i
    <3> QED
      BY <1>1, <3>1, <3>2, ExecutedType, CoreAssumption
  <2>2. Ahead' = Ahead1' /\ id_ex' = NoOp
    BY <1>1, <1>9, <2>1 DEF Ahead
  <2>3. Current' = IF i.op \in {"ecall", "mret"} THEN Ahead1' ELSE isa'
    BY <1>1, <1>5, <2>1 DEF Current, Early
  <2>4. GoesOn' <=> i.op = "trap" \/ (Accesses(i) /\ Failing(Ahead, i))
    <3>1. Failing(isa, ex_mem.instr)' <=> Failing(Ahead, i)
      BY <1>2, <2>1 DEF Failing, SeenBy
    <3>2. Mem(ex_mem)' <=> Accesses(i)
      BY <2>1 DEF Mem
    <3> QED
      BY <1>1, <2>1, <3>1, <3>2 DEF GoesOn
  <2>5. NextPC' = IF if_id'.valid THEN if_id'.pc + 4
                  ELSE IF GoesOn' THEN Ahead.pc + 4 ELSE Ahead1'.pc
    BY <1>2, <1>5, <2>2 DEF NextPC
  <2>6. if_id'.valid => ~Kick(io) /\ if_id'.pc = fetch.data_pc_q
    BY Accepts
  <2>7. fetch_accept(io) <=> if_id'.valid
    BY <1>1, <1>9
  <2> DEFINE n == Ahead1'
  <2>8. CASE i.op = "ecall"
    <3>1. Raised(Ahead, trap, id_ex.pc, 0, n)
      BY <1>2, <1>3, <2>8 DEF Ran, trap
    <3>2. Trap(io) = TrapOf(trap, id_ex.pc, 0) /\ ~mret_fire(io) /\ Kick(io)
      BY <1>1, <2>8 DEF i
    <3> HIDE DEF n
    <3>3. csr' = n.csr /\ priv_mode' = n.priv /\ redirect_pc(io) = n.pc
      BY <1>0, <1>2, <1>4, <3>1, <3>2, TrapWrites
    <3>4. CsrRight'
      BY <2>3, <2>8, <3>3 DEF CsrRight, n
    <3>5. ~GoesOn'
      BY <2>4, <2>8 DEF Accesses
    <3>6. NextPC' = redirect_pc(io)
      BY <2>5, <2>6, <3>2, <3>3, <3>5 DEF n
    <3>7. FetchAt'
      BY <1>1, <3>2, <3>6, FetchAtStep
    <3> QED
      BY <1>6, <3>4, <3>7
  <2>9. CASE i.op = "mret"
    <3>1. /\ n.pc = csr.mepc /\ n.priv = csr.mstatus.mpp
          /\ n.csr = [csr EXCEPT !.mstatus = MretStatus]
      BY <1>2, <2>9 DEF Ran, MretStatus
    <3>2. mret_fire(io) /\ Kick(io)
      BY <1>1, <2>9 DEF i
    <3> HIDE DEF n
    <3>3. csr' = n.csr /\ priv_mode' = n.priv /\ redirect_pc(io) = n.pc
      BY <1>0, <1>4, <3>1, <3>2 DEF CsrCycle, redirect_pc, trap_redirect_valid, trap_redirect_pc
    <3>4. CsrRight'
      BY <2>3, <2>9, <3>3 DEF CsrRight, n
    <3>5. ~GoesOn'
      BY <2>4, <2>9 DEF Accesses
    <3>6. NextPC' = redirect_pc(io)
      BY <2>5, <2>6, <3>2, <3>3, <3>5 DEF n
    <3>7. FetchAt'
      BY <1>1, <3>2, <3>6, FetchAtStep
    <3> QED
      BY <1>6, <3>4, <3>7
  <2>10. CASE i.op \notin {"ecall", "mret"}
    <3>1. Trap(io) = NoTrap /\ ~mret_fire(io) /\ ~trap_redirect_valid(io)
      BY <1>1, <2>10 DEF trap_redirect_valid, i
    <3>2. csr' = csr /\ priv_mode' = priv_mode
      BY <1>0, <1>2, <3>1 DEF CsrCycle
    <3>3. CsrRight'
      BY <1>2, <2>3, <2>10, <3>2 DEF CsrRight
    <3>4. CASE is_ctrl(i)
      <4>1. n.pc = IF ex_taken THEN ex_target ELSE id_ex.pc + 4
        <5>1. n.pc = IF Taken(i, Ahead.x) THEN Target(Ahead.pc, i, Ahead.x) ELSE Ahead.pc + 4
          BY <1>2, <3>4 DEF Ran
        <5>2. Taken(i, Ahead.x) <=> ex_taken
          BY <1>3, <3>4 DEF Taken, ex_taken, is_ctrl, is_jump, is_branch, use_rs, i
        <5>3. Target(Ahead.pc, i, Ahead.x) = ex_target
          BY <1>3, <3>4 DEF Target, ex_target, use_rs, i
        <5> QED
          BY <1>3, <5>1, <5>2, <5>3
      <4>2. ~csr_redirect_valid /\ ~GoesOn'
        BY <2>4, <3>4 DEF csr_redirect_valid, is_csr, is_ctrl, is_jump, is_branch, Accesses, i
      <4>3. ~fetch.data_valid_q /\ ~fetch_accept(io)
        BY <3>4 DEF Spacing, InExecute, fetch_accept, fetch_valid, is_muldiv, is_ctrl, is_branch, is_jump, i
      <4>4. Kick(io) <=> branch_mispredict
        BY <1>1, <2>10, <4>2 DEF i
      <4>5. NextPC' = n.pc
        BY <2>5, <2>7, <4>2, <4>3
      <4>6. Kick(io) => redirect_pc(io) = n.pc
        BY <3>1, <4>1, <4>2, <4>4 DEF redirect_pc, branch_correct_pc
      <4>7. ~Kick(io) => NextPC = n.pc
        <5>1. ~branch_mispredict =>
                 /\ ex_taken = id_ex.pred_taken
                 /\ ex_taken => ex_target = id_ex.pred_target
          BY <3>4 DEF branch_mispredict, i
        <5> QED
          BY <1>3, <1>7, <4>1, <4>4, <5>1
      <4>8. FetchAt'
        BY <1>1, <4>3, <4>5, <4>6, <4>7, FetchAtStep
      <4> QED
        BY <1>6, <3>3, <4>8
    <3>5. CASE ~is_ctrl(i)
      <4>1. ~branch_mispredict /\ (Kick(io) <=> csr_redirect_valid)
        BY <1>1, <2>10, <3>5 DEF branch_mispredict, i
      <4>2. NextPC = Ahead.pc + 4
        BY <1>3, <1>7, <3>5
      <4>3. GoesOn' \/ n.pc = Ahead.pc + 4
        <5>1. i.op # "illegal" /\ i.op \in Op
          BY <1>2 DEF InEx, Instr, i
        <5>2. i.op \in {"alu", "muldiv", "trap"} \/ is_csr(i) \/ Accesses(i)
          BY <2>10, <3>5, <5>1 DEF Op, is_ctrl, is_branch, is_jump, is_csr, Accesses
        <5> QED
          BY <1>2, <2>4, <5>2 DEF Ran
      <4>4. Kick(io) => redirect_pc(io) = Ahead.pc + 4
        BY <1>3, <3>1, <4>1 DEF redirect_pc
      <4>5. ~if_id'.valid => NextPC' = Ahead.pc + 4
        BY <2>5, <4>3
      <4>6. if_id'.valid => NextPC' = fetch.data_pc_q + 4
        BY <2>5, <2>6
      <4>7. FetchAt'
        BY <1>1, <2>6, <2>7, <4>2, <4>4, <4>5, <4>6, FetchAtStep
      <4> QED
        BY <1>6, <3>3, <4>7
    <3> QED
      BY <3>4, <3>5
  <2> QED
    BY <2>8, <2>9, <2>10
<1> QED
  BY <1>8, <1>9

\* The cycle of an instruction in decode.
LEMMA DecodeStep ==
    ASSUME Grounds, Follows, NEW dn_resp, NEW data, NEW io, Clock(dn_resp, data, io), if_id.valid
    PROVE  CsrRight' /\ DueRight' /\ FetchAt'
<1> USE DEF Grounds, Follows
<1> DEFINE i    == if_id.instr
           bad  == i.op = "illegal"
           pred == is_jump(i) \/ (is_branch(i) /\ io.taken)
<1>0. CoreCycle(io) /\ CsrCycle(io)
  BY DEF Clock, CoreCycle
<1>1. /\ id_ex = NoOp /\ ~cpu_halt /\ due = "none"
      /\ ex_mem # NoOp => Mul(ex_mem)
      /\ mem_wb # NoOp => Mul(mem_wb) \/ (Mem(mem_wb) /\ ~Failing(isa, mem_wb.instr))
      /\ Trap(io) = IF bad THEN TrapOf("illegal", if_id.pc, i.imm) ELSE NoTrap
      /\ ~mret_fire(io) /\ ~csr_redirect_valid /\ ~branch_mispredict
      /\ decode_pred_redirect(io) <=> pred
      /\ Kick(io) <=> bad \/ pred
      /\ ~cpu_halt' /\ ~if_id'.valid /\ ex_mem' = NoOp
      /\ id_ex' = IF bad THEN NoOp ELSE Decoded(io)
      /\ ~fetch_accept(io)
  BY <1>0, DecodeCycle DEF Kick
<1>2. /\ Ahead' = Ahead /\ i # NoInstr /\ i = FetchedIn(prog, Ahead)'
      /\ mem_wb' # NoOp => Mul(mem_wb)'
      /\ if_id.pc = Ahead.pc /\ i = FetchedIn(prog, Ahead)
  BY DecodeAhead DEF InDec
<1>3. /\ ~(mem_wb # NoOp /\ mem_wb.csr_we) /\ ~(ex_mem # NoOp /\ ex_mem.csr_we)
      /\ csr_fwd("mtvec") = csr.mtvec
  <2>1. ~(mem_wb # NoOp /\ mem_wb.csr_we) /\ ~(ex_mem # NoOp /\ ex_mem.csr_we)
    BY <1>1 DEF InWb, InMem, Retiring, Mul, Mem, Accesses, is_muldiv, is_csr
  <2> QED
    BY <2>1 DEF csr_fwd, Writes, Types, CsrTypes, CsrFile
<1>4. csr = isa.csr /\ priv_mode = isa.priv /\ Ahead.csr = isa.csr /\ Ahead.priv = isa.priv
  <2>1. ~Early
    BY <1>1 DEF Early, Mul, Mem, Accesses, is_muldiv
  <2>2. csr = isa.csr /\ priv_mode = isa.priv
    BY <1>1, <2>1 DEF CsrRight, Current
  <2>3. ex_mem # NoOp \/ mem_wb # NoOp => Ahead1.csr = isa.csr /\ Ahead1.priv = isa.priv
    BY <1>1, Straight DEF Mul, Mem
  <2> QED
    BY <2>2, <2>3 DEF Ahead
<1>5. isa'.csr = isa.csr /\ isa'.priv = isa.priv
  <2>1. ex_mem # NoOp => isa' = isa
    BY AheadMoves
  <2>2. ex_mem = NoOp => isa' = Ahead
    BY <1>1, AheadMoves
  <2> QED
    BY <1>4, <2>1, <2>2
<1>6. ~Early'
  BY <1>1, <1>2 DEF Early, Mul, Mem, Accesses, is_muldiv
<1>7. CASE bad
  <2>1. Trap(io) = TrapOf("illegal", if_id.pc, i.imm) /\ Kick(io)
    BY <1>1, <1>7
  <2>2. due' = "illegal"
    <3>1. Trap(io).cause = "illegal"
      BY <2>1, CauseOf
    <3> QED
      BY <3>1, ReferenceMoves
  <2> DEFINE n == Take(prog', Ahead, "illegal")
  <2>3. Current' = n /\ NextPC' = n.pc
    <3>1. Take(prog, Ahead, due)' = n
      BY <1>2, <2>2 DEF Take, FetchedIn, Word, InsnIn
    <3> HIDE DEF n
    <3> QED
      BY <2>2, <3>1 DEF Current, NextPC
  <2>4. FetchedIn(prog', Ahead) = i
    BY <1>2 DEF FetchedIn, Word, InsnIn
  <2>5. Machine(Ahead) /\ "illegal" \in Cause \ {"none"} /\ i \in Instr
    BY Heads DEF Cause, Types, StageTypes
  <2>6. Raised(Ahead, "illegal", if_id.pc, i.imm, n)
    <3>1. FetchedIn(prog', Ahead) # NoInstr /\ FetchedIn(prog', Ahead) \in Instr
      BY <1>2, <2>4, <2>5
    <3>2. Raised(Ahead, "illegal", Ahead.pc, FetchedIn(prog', Ahead).imm, n)
      BY <2>5, <3>1, TakeRaises
    <3> QED
      BY <1>2, <2>4, <3>2
  <2> HIDE DEF n, i
  <2>7. csr' = n.csr /\ priv_mode' = n.priv /\ redirect_pc(io) = n.pc
    BY <1>0, <1>1, <1>3, <1>4, <2>1, <2>6, TrapWrites
  <2>8. CsrRight'
    BY <2>3, <2>7 DEF CsrRight
  <2>9. FetchAt'
    BY <1>1, <2>1, <2>3, <2>7, FetchAtStep
  <2>10. DueRight'
    <3>1. ~fetch.req_pending_q /\ ~fetch.data_valid_q
      BY DEF Spacing, InDecode
    <3>2. ~fetch'.req_pending_q /\ ~fetch'.data_valid_q
      BY <2>1, <3>1, FetchOutcome DEF Kick, response_fire
    <3>3. "illegal" \in Cause
      BY DEF Cause
    <3> QED
      BY <1>1, <1>2, <1>7, <2>2, <3>2, <3>3 DEF DueRight
  <2> QED
    BY <2>8, <2>9, <2>10
<1>8. CASE ~bad
  <2>1. Trap(io) = NoTrap
    BY <1>1, <1>8
  <2>2. due' = "none"
    <3>1. Trap(io).cause = "none"
      BY <2>1 DEF NoTrap
    <3> QED
      BY <1>1, <3>1, ReferenceMoves
  <2>3. csr' = csr /\ priv_mode' = priv_mode
    BY <1>0, <1>1, <1>3, <2>1 DEF CsrCycle
  <2>4. Current' = isa'
    BY <1>6, <2>2 DEF Current
  <2>5. CsrRight'
    BY <1>4, <1>5, <2>3, <2>4 DEF CsrRight
  <2>6. DueRight'
    BY <2>2 DEF DueRight
  <2>7. /\ Decoded(io) # NoOp /\ id_ex' = Decoded(io)
        /\ Decoded(io).pred_target = IF pred THEN dec_pred_target ELSE if_id.pc + 4
    BY <1>1, <1>8, DecodedType, CoreAssumption DEF Decoded
  <2>8. NextPC' = IF pred THEN dec_pred_target ELSE if_id.pc + 4
    <3>1. NextPC' = id_ex'.pred_target
      BY <1>1, <2>2, <2>7 DEF NextPC
    <3> QED
      BY <2>7, <3>1
  <2>9. NextPC = if_id.pc + 4
    BY <1>1 DEF NextPC
  <2>10. Kick(io) => redirect_pc(io) = dec_pred_target
    BY <1>1, <1>8, <2>1 DEF redirect_pc, trap_redirect_valid
  <2>11. FetchAt'
    <3> HIDE DEF pred
    <3> QED
      BY <1>1, <1>8, <2>8, <2>9, <2>10, FetchAtStep
  <2> QED
    BY <2>5, <2>6, <2>11
<1> QED
  BY <1>7, <1>8

\* The cycle of an instruction in MEM.
LEMMA MemoryStep ==
    ASSUME Grounds, Follows, NEW dn_resp, NEW data, NEW io, Clock(dn_resp, data, io),
           ex_mem # NoOp, ~if_id.valid
    PROVE  CsrRight' /\ DueRight' /\ FetchAt'
<1> USE DEF Grounds, Follows
<1> DEFINE i     == ex_mem.instr
           fails == Mem(ex_mem) /\ Failing(isa, i)
<1>0. CoreCycle(io) /\ CsrCycle(io)
  BY DEF Clock, CoreCycle
<1>1. /\ mem_wb = NoOp /\ id_ex = NoOp /\ due = "none" /\ ~cpu_halt /\ ~cpu_halt'
      /\ ~mret_fire(io) /\ ~csr_redirect_valid /\ ~branch_mispredict /\ ~decode_pred_redirect(io)
      /\ Trap(io) = IF interrupt_fire(io) THEN TrapOf("mti", isa.pc + 4, 0)
                    ELSE IF ~waits(io) /\ fails
                    THEN TrapOf(Cause1(isa, i), isa.pc, i.imm)
                    ELSE NoTrap
      /\ Kick(io) <=> Trap(io) # NoTrap
      /\ interrupt_fire(io) => ~waits(io) /\ is_csr(i) /\ priv_mode = PRV_M /\ i.csr = "mstatus"
      /\ waits(io) => /\ if_id' = if_id /\ id_ex' = id_ex /\ ex_mem' = ex_mem /\ mem_wb' = NoOp
                      /\ ~fetch_accept(io)
      /\ ~waits(io) => /\ ex_mem' = NoOp /\ id_ex' = NoOp
                       /\ mem_wb' = IF interrupt_fire(io) THEN NoOp ELSE Accessed(io)
                       /\ if_id'.valid <=> fetch_accept(io)
  BY MemoryCycle DEF Kick
<1>2. /\ isa' = isa /\ FetchedIn(prog, isa)' = FetchedIn(prog, isa) /\ Ahead1' = Ahead1
      /\ Ahead = Ahead1 /\ Ran(isa, i, Ahead1) /\ i = FetchedIn(prog, isa)
      /\ FetchedIn(prog, isa) # NoInstr /\ Machine(isa) /\ i \in Instr /\ i.op # "illegal"
  BY AheadMoves, Heads DEF Ahead, InMem, Retiring, RegRight
<1>3. Current = IF i.op \in {"ecall", "mret"} THEN Ahead1 ELSE isa
  BY <1>1 DEF Current, Early
<1>4. csr = Current.csr /\ priv_mode = Current.priv
  BY DEF CsrRight
<1>5. NextPC = IF i.op = "trap" \/ fails THEN isa.pc + 4 ELSE Ahead1.pc
  BY <1>1, <1>2 DEF NextPC, GoesOn
<1>6. ASSUME Trap(io) = NoTrap
      PROVE  csr' = csr /\ priv_mode' = priv_mode /\ due' = "none"
  <2>1. Trap(io).cause = "none"
    BY <1>6 DEF NoTrap
  <2> QED
    BY <1>0, <1>1, <1>6, <2>1, ReferenceMoves DEF CsrCycle
<1>7. fails => ~(i.op \in {"ecall", "mret"}) /\ Accesses(i) /\ ~is_csr(i)
  BY DEF Mem, Accesses, is_csr
<1> HIDE DEF i, fails
<1>8. CASE waits(io)
  <2>1. Trap(io) = NoTrap /\ ~Kick(io)
    BY <1>1, <1>8
  <2>2. i.op \notin {"ecall", "mret", "trap"}
    BY <1>8 DEF waits, mem_wait, cur_is_mem, cur, Spacing, StageCopy, IsMem, Ages, MemoryAge,
       Mem, Accesses, i
  <2>3. Failing(isa, ex_mem.instr)' <=> Failing(isa, i)
    BY <1>1, <1>2, <1>8 DEF Failing, SeenBy, i
  <2>4. Current' = isa
    BY <1>1, <1>2, <1>6, <1>8, <2>1, <2>2 DEF Current, Early, i
  <2>5. CsrRight'
    BY <1>3, <1>4, <1>6, <2>1, <2>2, <2>4 DEF CsrRight
  <2>6. Ahead' = Ahead1
    BY <1>1, <1>2, <1>8 DEF Ahead
  <2>7. GoesOn' <=> i.op = "trap" \/ fails
    BY <1>1, <1>8, <2>3 DEF GoesOn, Mem, i, fails
  <2>8. NextPC' = NextPC
    BY <1>1, <1>2, <1>5, <1>6, <1>8, <2>1, <2>6, <2>7 DEF NextPC
  <2>9. FetchAt'
    BY <1>1, <1>8, <2>1, <2>8, FetchAtStep
  <2>10. DueRight'
    BY <1>6, <2>1 DEF DueRight
  <2> QED
    BY <2>5, <2>9, <2>10
<1>9. CASE ~waits(io) /\ interrupt_fire(io)
  <2>1. Trap(io) = TrapOf("mti", isa.pc + 4, 0)
    BY <1>1, <1>9
  <2>2. Trap(io) # NoTrap
    <3>1. DOMAIN Trap(io) # DOMAIN NoTrap
      BY <2>1 DEF TrapOf, NoTrap
    <3> QED
      BY <3>1
  <2>3. Kick(io) /\ ~fetch_accept(io)
    BY <1>1, <2>2 DEF Kick, fetch_accept
  <2>4. due' = "mti"
    <3>1. Trap(io).cause = "mti"
      BY <2>1, CauseOf
    <3> QED
      BY <3>1, ReferenceMoves
  <2>5. csr = isa.csr /\ priv_mode = isa.priv /\ isa.priv = PRV_M
    BY <1>1, <1>3, <1>4, <1>9 DEF is_csr
  <2> DEFINE n == Take(prog', isa, "mti")
  <2>6. Raised(isa, "mti", isa.pc + 4, 0, n)
    <3>1. FetchedIn(prog', isa) # NoInstr => FetchedIn(prog', isa) \in Instr
      <4>1. FetchedIn(prog', isa) = FetchedIn(prog, isa)
        BY <1>2, Decides
      <4> QED
        BY <1>2, <4>1
    <3>2. "mti" \in Cause \ {"none"}
      BY DEF Cause
    <3>3. Raised(isa, "mti", IF isa.priv = PRV_M THEN isa.pc + 4 ELSE isa.pc, 0, n)
      BY <1>2, <3>1, <3>2, TakeRaises
    <3> HIDE DEF n
    <3> QED
      BY <2>5, <3>3
  <2>7. Ahead' = isa
    BY <1>1, <1>2, <1>9 DEF Ahead
  <2>8. Current' = n /\ NextPC' = n.pc
    <3>1. Take(prog, Ahead, due)' = n
      BY <2>4, <2>7 DEF Take, FetchedIn, Word, InsnIn
    <3> HIDE DEF n
    <3> QED
      BY <2>4, <3>1 DEF Current, NextPC
  <2> HIDE DEF n
  <2>9. csr_fwd("mtvec") = csr.mtvec
    BY <1>1, <1>9 DEF csr_fwd, Writes, Types, CsrTypes, CsrFile, i
  <2>10. csr' = n.csr /\ priv_mode' = n.priv /\ redirect_pc(io) = n.pc
    BY <1>0, <1>1, <2>1, <2>5, <2>6, <2>9, TrapWrites
  <2>11. CsrRight'
    BY <2>8, <2>10 DEF CsrRight
  <2>12. FetchAt'
    BY <1>1, <2>3, <2>8, <2>10, FetchAtStep
  <2>13. DueRight'
    <3>1. ~fetch'.data_valid_q
      BY <2>3, FetchOutcome DEF Kick
    <3>2. "mti" \in Cause
      BY DEF Cause
    <3> QED
      BY <1>1, <1>9, <2>3, <2>4, <3>1, <3>2 DEF DueRight
  <2> QED
    BY <2>11, <2>12, <2>13
<1>10. CASE ~waits(io) /\ ~interrupt_fire(io)
  <2>1. mem_wb' = Accessed(io) /\ mem_wb' # NoOp /\ mem_wb'.instr = i
    <3>1. mem_wb' = Accessed(io)
      BY <1>1, <1>10
    <3>2. Accessed(io).instr = i
      BY AccessedKeeps DEF i
    <3> QED
      BY <1>10, <3>1, <3>2, AccessedType, CoreAssumption
  <2>2. Ahead' = Ahead1
    BY <1>2, <2>1 DEF Ahead
  <2>3. Failing(isa, mem_wb.instr)' <=> Failing(isa, i)
    BY <1>2, <2>1 DEF Failing, SeenBy
  <2>4. Mem(mem_wb)' <=> Mem(ex_mem)
    BY <2>1 DEF Mem, i
  <2>5. Early' <=> i.op \in {"ecall", "mret"} \/ fails
    BY <1>1, <1>10, <2>1, <2>3, <2>4 DEF Early, fails
  <2>6. GoesOn' <=> i.op = "trap"
    BY <1>1, <1>10, <2>1 DEF GoesOn
  <2>7. if_id'.valid => ~Kick(io) /\ if_id'.pc = fetch.data_pc_q
    BY Accepts
  <2>8. due' = "none"
    <3>1. CASE fails
      <4>1. Trap(io).cause = Cause1(isa, i)
        BY <1>1, <1>10, <3>1, CauseOf
      <4>2. Trap(io).cause \notin {"mti", "fetch misaligned", "fetch fault", "illegal"}
        BY <4>1, SyncCauses
      <4> QED
        BY <1>1, <4>2, ReferenceMoves
    <3>2. CASE ~fails
      BY <1>1, <1>6, <1>10, <3>2
    <3> QED
      BY <3>1, <3>2
  <2>9. DueRight'
    BY <2>8 DEF DueRight
  <2>10. NextPC' = IF if_id'.valid THEN if_id'.pc + 4
                   ELSE IF i.op = "trap" THEN isa.pc + 4 ELSE Ahead1.pc
    BY <1>1, <1>2, <1>10, <2>2, <2>6, <2>8 DEF NextPC
  <2>11. Current' = IF i.op \in {"ecall", "mret"} \/ fails THEN Ahead1 ELSE isa
    BY <1>2, <2>5, <2>8 DEF Current
  <2>12. CASE fails
    <3>1. Trap(io) = TrapOf(Cause1(isa, i), isa.pc, i.imm)
      BY <1>1, <1>10, <2>12
    <3>2. Trap(io) # NoTrap
      <4>1. DOMAIN Trap(io) # DOMAIN NoTrap
        BY <3>1 DEF TrapOf, NoTrap
      <4> QED
        BY <4>1
    <3>3. Kick(io)
      BY <1>1, <3>2
    <3>4. Raised(isa, Cause1(isa, i), isa.pc, i.imm, Ahead1)
      BY <1>2, <1>7, <2>12 DEF Ran, fails, i
    <3>5. csr = isa.csr /\ priv_mode = isa.priv
      BY <1>3, <1>4, <1>7, <2>12
    <3>6. csr_fwd("mtvec") = csr.mtvec
      <4>1. ~ex_mem.csr_we
        BY <1>7, <2>12 DEF InMem, Retiring, i
      <4> QED
        BY <1>1, <4>1 DEF csr_fwd, Writes, Types, CsrTypes, CsrFile
    <3>7. csr' = Ahead1.csr /\ priv_mode' = Ahead1.priv /\ redirect_pc(io) = Ahead1.pc
      BY <1>0, <1>1, <3>1, <3>4, <3>5, <3>6, TrapWrites
    <3>8. CsrRight'
      BY <2>11, <2>12, <3>7 DEF CsrRight
    <3>9. NextPC' = Ahead1.pc
      <4>1. i.op # "trap"
        BY <1>7, <2>12 DEF Accesses
      <4> QED
        BY <2>7, <2>10, <3>3, <4>1
    <3>10. FetchAt'
      BY <1>1, <3>3, <3>7, <3>9, FetchAtStep
    <3> QED
      BY <2>9, <3>8, <3>10
  <2>13. CASE ~fails
    <3>1. Trap(io) = NoTrap /\ ~Kick(io)
      BY <1>1, <1>10, <2>13
    <3>2. CsrRight'
      BY <1>3, <1>4, <1>6, <2>11, <2>13, <3>1 DEF CsrRight
    <3>3. fetch_accept(io) => if_id'.valid /\ if_id'.pc = fetch.data_pc_q
      BY <1>1, <1>10, <2>7
    <3>4. ~fetch_accept(io) => NextPC' = NextPC
      BY <1>1, <1>5, <1>10, <2>10, <2>13
    <3>5. FetchAt'
      BY <1>1, <2>10, <3>1, <3>3, <3>4, FetchAtStep
    <3> QED
      BY <2>9, <3>2, <3>5
  <2> QED
    BY <2>12, <2>13
<1> QED
  BY <1>8, <1>9, <1>10

\* The cycle of a pipeline that is empty but for WB.
LEMMA EmptyStep ==
    ASSUME Grounds, Follows, NEW dn_resp, NEW data, NEW io, Clock(dn_resp, data, io),
           ex_mem = NoOp, id_ex = NoOp, ~if_id.valid, ~wb_is_trap
    PROVE  CsrRight' /\ DueRight' /\ FetchAt'
<1> USE DEF Grounds, Follows
<1>0. CoreCycle(io) /\ CsrCycle(io)
  BY DEF Clock, CoreCycle
<1>1. /\ Trap(io) = IF ifetch_trap_flush
                    THEN TrapOf("fetch misaligned", fetch_pc, fetch_pc) ELSE NoTrap
      /\ ~mret_fire(io) /\ ~fetch_redirect_valid(io)
      /\ Kick(io) <=> ifetch_trap_flush
      /\ cpu_halt' = cpu_halt /\ mem_wb' = NoOp /\ ex_mem' = NoOp /\ id_ex' = NoOp
      /\ if_id'.valid <=> fetch_accept(io)
  BY <1>0, EmptyCycle DEF Kick
<1>2. ~Early' /\ ~GoesOn' /\ Ahead' = isa'
  BY <1>1 DEF Early, GoesOn, Ahead
<1>3. Machine(isa)
  BY DEF RegRight
<1>4. CASE ifetch_trap_flush
  <2>1. /\ mem_wb = NoOp /\ due = "none" /\ ~cpu_halt
        /\ fetch.data_valid_q /\ fetch.data_pc_q = isa.pc
    BY <1>4, TrapAt
  <2>2. isa' = isa /\ Ahead = isa
    BY <2>1, ReferenceMoves DEF Ahead
  <2>3. csr = isa.csr /\ priv_mode = isa.priv
    BY <2>1 DEF CsrRight, Current, Early
  <2>4. Trap(io) = TrapOf("fetch misaligned", isa.pc, isa.pc) /\ Kick(io)
    BY <1>1, <1>4, <2>1 DEF fetch_pc
  <2>5. due' = "fetch misaligned"
    <3>1. Trap(io).cause = "fetch misaligned"
      BY <2>4, CauseOf
    <3> QED
      BY <3>1, ReferenceMoves
  <2> DEFINE n == Take(prog', isa, "fetch misaligned")
  <2>6. Raised(isa, "fetch misaligned", isa.pc, isa.pc, n)
    <3>1. FetchedIn(prog', isa) # NoInstr => FetchedIn(prog', isa) \in Instr
      <4>1. Program'
        BY ProgramStep
      <4> QED
        BY <4>1, SimTopAssumption DEF FetchedIn, Word, InsnIn, Program, Stop, Instr, Op, CsrName
    <3>2. "fetch misaligned" \in Cause \ {"none"}
      BY DEF Cause
    <3> QED
      BY <1>3, <3>1, <3>2, TakeRaises
  <2>7. Current' = n /\ NextPC' = n.pc
    <3>1. Take(prog, Ahead, due)' = n
      BY <1>2, <2>2, <2>5 DEF Take, FetchedIn, Word, InsnIn
    <3> HIDE DEF n
    <3> QED
      BY <2>5, <3>1 DEF Current, NextPC
  <2> HIDE DEF n
  <2>8. csr_fwd("mtvec") = csr.mtvec
    BY <2>1 DEF csr_fwd, Writes
  <2>9. csr' = n.csr /\ priv_mode' = n.priv /\ redirect_pc(io) = n.pc
    BY <1>0, <1>1, <2>3, <2>4, <2>6, <2>8, TrapWrites
  <2>10. CsrRight'
    BY <2>7, <2>9 DEF CsrRight
  <2>11. FetchAt'
    BY <2>1, <2>4, <2>7, <2>9, FetchAtStep
  <2>12. DueRight'
    <3>1. ~fetch'.data_valid_q /\ ~if_id'.valid
      BY <1>1, <1>4, FetchOutcome DEF fetch_accept
    <3>2. "fetch misaligned" \in Cause
      BY DEF Cause
    <3> QED
      BY <1>1, <2>1, <2>5, <3>1, <3>2 DEF DueRight
  <2> QED
    BY <2>10, <2>11, <2>12
<1>5. CASE ~ifetch_trap_flush
  <2>1. Trap(io) = NoTrap /\ ~Kick(io)
    BY <1>1, <1>5
  <2>2. due' = IF mem_wb = NoOp THEN "none" ELSE due
    <3>1. Trap(io).cause = "none"
      BY <2>1 DEF NoTrap
    <3> QED
      BY <3>1, ReferenceMoves
  <2>3. csr' = (IF mem_wb # NoOp /\ mem_wb.csr_we
                THEN [csr EXCEPT ![mem_wb.instr.csr] = mem_wb.csr_new] ELSE csr)
        /\ priv_mode' = priv_mode
    BY <1>0, <1>1, <2>1 DEF CsrCycle
  <2>4. if_id'.valid => if_id'.pc = fetch.data_pc_q /\ due = "none"
    BY Accepts DEF DueRight
  <2>5. ASSUME if_id'.valid => due' = "none", ~if_id'.valid => NextPC' = NextPC PROVE FetchAt'
    <3>1. CASE cpu_halt
      BY <1>1, <3>1 DEF FetchAt
    <3>2. CASE ~cpu_halt
      <4>1. fetch_accept(io) => NextPC' = fetch.data_pc_q + 4
        BY <1>1, <2>4, <2>5 DEF NextPC
      <4> QED
        BY <1>1, <2>1, <2>5, <3>2, <4>1, FetchAtStep
    <3> QED
      BY <3>1, <3>2
  <2>6. CASE mem_wb = NoOp
    <3>1. due' = "none" /\ Current' = isa'
      BY <1>2, <2>2, <2>6 DEF Current
    <3>2. Current = isa' /\ (~if_id'.valid => NextPC = isa'.pc)
      BY <2>6, ReferenceMoves DEF Current, Early, NextPC, GoesOn, Ahead
    <3>3. CsrRight'
      BY <2>3, <2>6, <3>1, <3>2 DEF CsrRight
    <3>4. ~if_id'.valid => NextPC' = NextPC
      BY <1>1, <1>2, <3>1, <3>2 DEF NextPC
    <3> QED
      BY <2>5, <3>1, <3>3, <3>4 DEF DueRight
  <2>7. CASE mem_wb # NoOp /\ due # "none"
    <3>1. /\ Mul(mem_wb) /\ ~fetch.req_pending_q /\ ~fetch.data_valid_q
          /\ due \in Cause /\ ~cpu_halt
          /\ due = "illegal" => FetchedIn(prog, Ahead) # NoInstr
      BY <2>7 DEF DueRight
    <3>2. due' = due /\ isa' = Ahead /\ Ahead' = Ahead
      BY <1>2, <2>2, <2>7, AheadMoves
    <3>3. Take(prog, Ahead, due)' = Take(prog, Ahead, due)
      <4>1. Take(prog', Ahead, due) = Take(prog, Ahead, due)
        BY <3>1, TakesSame
      <4>2. Take(prog, Ahead, due)' = Take(prog', Ahead', due')
        BY DEF Take, FetchedIn, Word, InsnIn
      <4> QED
        BY <3>2, <4>1, <4>2
    <3>4. Current' = Current /\ NextPC' = NextPC
      BY <2>7, <3>2, <3>3 DEF Current, NextPC
    <3>5. csr' = csr
      BY <2>3, <2>7, <3>1 DEF InWb, Retiring, Mul, is_muldiv, is_csr
    <3>6. CsrRight'
      BY <2>3, <3>4, <3>5 DEF CsrRight
    <3>7. ~if_id'.valid /\ ~fetch'.data_valid_q
      <4>1. ~fetch_accept(io)
        BY <3>1 DEF fetch_accept, fetch_valid
      <4>2. ~fetch'.data_valid_q
        BY <3>1, FetchOutcome DEF response_fire
      <4> QED
        BY <1>1, <4>1, <4>2
    <3>8. due' = "illegal" => FetchedIn(prog, Ahead)' # NoInstr
      <4>1. FetchedIn(prog, Ahead)' = FetchedIn(prog', Ahead')
        BY DEF FetchedIn, Word, InsnIn
      <4> QED
        BY <3>1, <3>2, <4>1, Decides
    <3>9. DueRight'
      BY <1>1, <3>1, <3>2, <3>7, <3>8 DEF DueRight
    <3> QED
      BY <2>5, <3>4, <3>6, <3>7, <3>9
  <2>8. CASE mem_wb # NoOp /\ due = "none"
    <3> DEFINE i == mem_wb.instr
    <3>1. due' = "none" /\ isa' = Ahead1 /\ Ahead = Ahead1 /\ Current' = Ahead1
      BY <1>2, <2>2, <2>8, AheadMoves DEF Current
    <3>2. /\ Ran(isa, i, Ahead1) /\ i \in Instr /\ i.op # "illegal" /\ i.op # "trap"
          /\ mem_wb.csr_we <=> is_csr(i)
          /\ mem_wb.csr_we => mem_wb.csr_new = CsrNew(i, isa.csr[i.csr])
      BY <2>8, Heads DEF InWb, Retiring, wb_is_trap
    <3>3. Early <=> i.op \in {"ecall", "mret"} \/ (Accesses(i) /\ Failing(isa, i))
      BY <2>8 DEF Early, Mem
    <3>4. csr = (IF Early THEN Ahead1 ELSE isa).csr /\ priv_mode = (IF Early THEN Ahead1 ELSE isa).priv
      BY <2>8 DEF CsrRight, Current
    <3> HIDE DEF i
    <3>5. CASE Early
      <4>1. ~mem_wb.csr_we
        BY <3>2, <3>3, <3>5 DEF is_csr, Accesses
      <4> QED
        BY <2>3, <3>4, <3>5, <4>1, <3>1, <2>5, <2>8, <1>1, <1>2 DEF CsrRight, DueRight, NextPC, GoesOn, wb_is_trap
    <3>6. CASE ~Early
      <4>1. Ahead1.priv = isa.priv
            /\ Ahead1.csr = IF is_csr(i) THEN [isa.csr EXCEPT ![i.csr] = CsrNew(i, isa.csr[i.csr])]
                            ELSE isa.csr
        <5>1. i.op \in {"alu", "muldiv"} \/ is_ctrl(i) \/ is_csr(i) \/ (Accesses(i) /\ ~Failing(isa, i))
          BY <3>2, <3>3, <3>6 DEF Instr, Op, is_ctrl, is_branch, is_jump, is_csr, Accesses
        <5> QED
          BY <3>2, <5>1 DEF Ran, is_ctrl, is_branch, is_jump, is_csr, Accesses
      <4>2. csr' = Ahead1.csr /\ priv_mode' = Ahead1.priv
        BY <2>3, <2>8, <3>2, <3>4, <3>6, <4>1 DEF i
      <4> QED
        BY <3>1, <4>2, <2>5, <2>8, <1>1, <1>2 DEF CsrRight, DueRight, NextPC, GoesOn, wb_is_trap
    <3> QED
      BY <3>5, <3>6
  <2> QED
    BY <2>6, <2>7, <2>8
<1> QED
  BY <1>4, <1>5

\* The cycle in which the halting instruction retires.
LEMMA HaltStep ==
    ASSUME Grounds, Follows, NEW dn_resp, NEW data, NEW io, Clock(dn_resp, data, io), wb_is_trap
    PROVE  CsrRight' /\ DueRight' /\ FetchAt'
<1> USE DEF Grounds, Follows
<1>1. /\ mem_wb # NoOp /\ due = "none" /\ Trap(io) = NoTrap /\ ~mret_fire(io) /\ ex_mem = NoOp
      /\ cpu_halt' /\ mem_wb' = NoOp /\ ex_mem' = NoOp /\ id_ex' = NoOp /\ ~if_id'.valid
      /\ CsrCycle(io)
  BY HaltCycle DEF Clock, CoreCycle
<1>2. due' = "none"
  <2>1. Trap(io).cause = "none"
    BY <1>1 DEF NoTrap
  <2> QED
    BY <1>1, <2>1, ReferenceMoves
<1>3. Ahead1 = isa /\ isa' = Ahead1
  BY <1>1, Heads, AheadMoves DEF Ran, wb_is_trap
<1>4. ~mem_wb.csr_we
  BY <1>1 DEF InWb, Retiring, is_csr, wb_is_trap
<1>5. csr' = csr /\ priv_mode' = priv_mode
  BY <1>1, <1>4 DEF CsrCycle
<1>6. Current = isa /\ Current' = isa'
  BY <1>1, <1>2, <1>3 DEF Current, Early
<1> QED
  BY <1>1, <1>2, <1>3, <1>5, <1>6 DEF CsrRight, DueRight, FetchAt

\* A cycle of the core keeps it in step with the reference, whatever is in
\* the pipeline.
LEMMA FollowsStep ==
    ASSUME Grounds, Types', Follows, NEW dn_resp, NEW data, NEW io, Clock(dn_resp, data, io)
    PROVE  Follows'
<1>1. CsrRight' /\ DueRight' /\ FetchAt'
  <2>1. CASE wb_is_trap
    BY <2>1, HaltStep
  <2>2. CASE ~wb_is_trap /\ if_id.valid
    BY <2>2, DecodeStep
  <2>3. CASE ~wb_is_trap /\ ~if_id.valid /\ id_ex # NoOp
    BY <2>3, ExecuteStep
  <2>4. CASE ~wb_is_trap /\ ~if_id.valid /\ ex_mem # NoOp
    BY <2>4, MemoryStep
  <2>5. CASE ~wb_is_trap /\ ~if_id.valid /\ id_ex = NoOp /\ ex_mem = NoOp
    BY <2>5, EmptyStep
  <2> QED
    BY <2>1, <2>2, <2>3, <2>4, <2>5
<1>2. MulOwn'
  BY MulOwnStep DEF Clock
<1> QED
  BY <1>1, <1>2, RegRightStep, InWbStep, InMemStep, InExStep, InDecStep, RamRightStep,
     AccessRightStep DEF Follows

\* Standing still keeps the pipeline and the reference where they are.
LEMMA FollowsStutter == Follows /\ UNCHANGED vars => Follows'
<1> SUFFICES ASSUME Follows, UNCHANGED vars PROVE Follows'
  OBVIOUS
<1>1. /\ UNCHANGED <<prog, ram, isa, due, if_id, id_ex, ex_mem, mem_wb, x, csr, priv_mode,
                     cpu_halt, muldiv, fetch, pending, mem_priv_q, satp_q, busy, index>>
  BY DEF vars, coreVars, pathVars, arbVars, mmuVars, memVars
<1>2. FetchedIn(prog, isa)' = FetchedIn(prog, isa)
  BY <1>1 DEF FetchedIn, Word, InsnIn
<1>3. Ahead1' = Ahead1
  BY <1>1, <1>2 DEF Ahead1, StepIn
<1>4. Ahead' = Ahead
  BY <1>1, <1>3 DEF Ahead
<1>5. FetchedIn(prog, Ahead)' = FetchedIn(prog, Ahead)
  BY <1>1, <1>4 DEF FetchedIn, Word, InsnIn
<1>6. Take(prog, Ahead, due)' = Take(prog, Ahead, due)
  BY <1>1, <1>4, <1>5 DEF Take
<1>7. /\ mem_wb # NoOp => (Retiring(mem_wb)' <=> Retiring(mem_wb))
      /\ ex_mem # NoOp => (Retiring(ex_mem)' <=> Retiring(ex_mem))
      /\ Failing(isa, mem_wb.instr)' <=> Failing(isa, mem_wb.instr)
      /\ Failing(isa, ex_mem.instr)' <=> Failing(isa, ex_mem.instr)
  BY <1>1, <1>2 DEF Retiring, Failing, SeenBy
<1>8. (Early' <=> Early) /\ (GoesOn' <=> GoesOn)
  BY <1>1, <1>7 DEF Early, GoesOn, Mem
<1>9. Current' = Current /\ NextPC' = NextPC
  BY <1>1, <1>3, <1>4, <1>6, <1>8 DEF Current, NextPC
<1>10. RegRight' /\ InWb' /\ InMem' /\ RamRight'
  BY <1>1, <1>3, <1>7 DEF Follows, RegRight, InWb, InMem, RamRight, Mem
<1>11. InEx' /\ InDec' /\ MulOwn'
  BY <1>1, <1>4, <1>5 DEF Follows, InEx, InDec, MulOwn, Mul
<1>12. CsrRight' /\ DueRight' /\ FetchAt' /\ AccessRight'
  BY <1>1, <1>5, <1>9 DEF Follows, CsrRight, DueRight, FetchAt, AccessRight, DServed, Mul
<1> QED
  BY <1>10, <1>11, <1>12 DEF Follows

\* While U mode is ordinary, the pipeline follows the reference throughout.
LEMMA SafetyFollows == Safety /\ []Ordinary => [](Follows /\ Grounds)
<1>1. Grounds /\ Grounds' /\ Follows /\ [Next]_vars => Follows'
  <2>1. Grounds /\ Grounds' /\ Follows /\ Next => Follows'
    <3>1. Grounds' => Types'
      BY DEF Grounds
    <3> QED
      BY <3>1, NextClock, FollowsStep
  <2> QED
    BY <2>1, FollowsStutter
<1>2. Ordinary => UserFetches
  BY DEF Ordinary, UserFetches
<1>3. /\ Types /\ Spacing /\ Path /\ Walks /\ Program /\ Front /\ Ages /\ FetchRight /\ Ordinary
      => Grounds
  BY DEF Grounds
<1>4. Safety /\ []Ordinary => []Grounds
  BY <1>2, <1>3, SafetyTypes, SafetySpacing, SafetyPath, SafetyWalks, SafetyProgram, SafetyFront,
     SafetyAges, SafetyFetchRight, PTL
<1> QED
  BY <1>1, <1>4, InitFollows, PTL DEF Safety

\* What is committed is what the reference executes next, with its result; nothing is
\* lost, repeated or taken from a wrong path, and no operand is stale.
THEOREM CoreCommitsMatch == Safety /\ []Ordinary => []CommitsMatch
<1>1. Follows /\ Grounds => CommitsMatch
  <2> SUFFICES ASSUME Follows, Grounds PROVE CommitsMatch
    OBVIOUS
  <2>1. x = isa.x
    BY DEF Follows, RegRight
  <2>2. ASSUME mem_wb # NoOp
        PROVE  /\ mem_wb.pc = isa.pc /\ mem_wb.instr = FetchedIn(prog, isa)
               /\ FetchedIn(prog, isa) # NoInstr
               /\ StepIn(prog, isa).x = IF mem_wb.reg_write THEN mem_wb.result ELSE x
    BY <2>1, <2>2, Heads DEF Follows, Grounds, InWb, Retiring, Ahead1
  <2> QED
    BY <2>1, <2>2, Reference DEF CommitsMatch
<1> QED
  BY <1>1, SafetyFollows, PTL

\* Memory holds what the committed stores left, and nothing a flushed or failing one
\* would have.
THEOREM CoreStoresMatch == Safety /\ []Ordinary => []StoresMatch
<1>1. Follows => StoresMatch
  BY DEF Follows, RamRight, StoresMatch, Drained
<1> QED
  BY <1>1, SafetyFollows, PTL

\* Between two instructions the CSRs and the privilege are those of the reference: each
\* trap is that of the right instruction, once, and no CSR write is lost to one.
THEOREM CoreCsrsMatch == Safety /\ []Ordinary => []CsrsMatch
<1>1. Follows => CsrsMatch
  BY DEF Follows, CsrRight, Current, Early, CsrsMatch, Drained
<1> QED
  BY <1>1, SafetyFollows, PTL

\* The m_trap window interrupts after the csrsi that opens it and before what follows:
\* mepc is the address of the latter.
THEOREM CoreInterruptPoint == Safety /\ []Ordinary => []InterruptPoint
<1>1. Follows /\ Grounds => InterruptPoint
  <2> SUFFICES ASSUME Follows, Grounds, due = "mti", Drained
               PROVE  csr.mepc = IF isa.priv = PRV_M THEN isa.pc + 4 ELSE isa.pc
    BY DEF InterruptPoint
  <2>1. csr = Take(prog, isa, "mti").csr
    BY DEF Follows, CsrRight, Current, Ahead, Drained
  <2>2. Machine(isa) /\ "mti" \in Cause \ {"none"}
    BY DEF Follows, RegRight, Cause
  <2>3. FetchedIn(prog, isa) # NoInstr => FetchedIn(prog, isa) \in Instr
    BY ProgramTypes DEF Grounds, FetchedIn
  <2>4. Raised(isa, "mti", IF isa.priv = PRV_M THEN isa.pc + 4 ELSE isa.pc, 0, Take(prog, isa, "mti"))
    BY <2>2, <2>3, TakeRaises
  <2>5. isa.csr \in CsrFile
    BY <2>2 DEF Machine
  <2> QED
    BY <2>1, <2>4, <2>5 DEF Raised, CsrFile
<1> QED
  BY <1>1, SafetyFollows, PTL
=============================================================================
