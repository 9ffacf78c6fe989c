---------------------------- MODULE SimBusProofs ----------------------------
(***************************************************************************)
(* For every number of masters: the arbiter's registers keep their types,  *)
(* the bus carries what the granted master asks with, and no master is     *)
(* overtaken by more grants than there are other masters.  The composition *)
(* with either memory is the arbiter and its masters under some slave, so  *)
(* all this holds of it; and it is one atomic memory.                      *)
(***************************************************************************)
EXTENDS SimBus, NatLemmas

\* The search finds a master that asks whenever there is one, and none that asks
\* is nearer to grant_ptr: the loop of CBusArbiter.sv stops at the first.
LEMMA SelectIsFirst ==
    ASSUME TypeOK
    PROVE  /\ Select(ireqs) \in Inputs
           /\ Valid(ireqs[Select(ireqs)])
                 => \A k \in Inputs : Valid(ireqs[k])
                       => Dist(grant_ptr, Select(ireqs)) <= Dist(grant_ptr, k)
           /\ ~Valid(ireqs[Select(ireqs)])
                 => \A k \in Inputs : ~Valid(ireqs[k])
<1> DEFINE Asking == {i \in Inputs : Valid(ireqs[i])}
<1>1. CASE Asking = {}
  BY <1>1 DEF Select, TypeOK, ArbTypeOK
<1>2. CASE Asking # {}
  <2>1. \A i \in Asking : Dist(grant_ptr, i) \in Nat
    BY ArbiterAssumption DEF TypeOK, ArbTypeOK, Inputs, Dist
  <2>2. \E i \in Asking : \A k \in Asking : Dist(grant_ptr, i) <= Dist(grant_ptr, k)
    <3> DEFINE S == {Dist(grant_ptr, i) : i \in Asking}
    <3>1. S \in SUBSET Nat /\ S # {}
      BY <1>2, <2>1
    <3>2. \E m \in S : \A n \in S : m <= n
      <4> HIDE DEF S
      <4> QED BY <3>1, LeastElement
    <3> QED
      BY <3>2
  <2> QED
    BY <1>2, <2>2 DEF Select
<1> QED
  BY <1>1, <1>2

LEMMA InitTypeOK == Init => TypeOK
<1> SUFFICES ASSUME Init PROVE TypeOK
  OBVIOUS
<1>1. 0 \in Inputs
  BY ArbiterAssumption DEF Inputs
<1>2. ArbTypeOK
  BY <1>1 DEF Init, ArbInit, ArbTypeOK, Priv
<1>3. /\ ireqs \in [Inputs -> Request \union {NoRequest}]
      /\ iprivs \in [Inputs -> Priv]
      /\ overtaken \in [Inputs -> Nat]
  BY DEF Init
<1> QED
  BY <1>2, <1>3 DEF TypeOK

\* Registers and ports keep their types.
THEOREM ArbiterTypeOK == Safety => []TypeOK
<1>1. Init => TypeOK
  BY InitTypeOK
<1>2. TypeOK /\ [Next]_vars => TypeOK'
  <2> SUFFICES ASSUME TypeOK, [Next]_vars
               PROVE  TypeOK'
    OBVIOUS
  <2>0. Select(ireqs) \in Inputs
    BY SelectIsFirst
  <2>1. CASE GrantStep
    BY <2>0, <2>1
    DEF GrantStep, Grant, ClientCycle, CountGrant, TypeOK, ArbTypeOK, Valid
  <2>2. CASE IdleStep
    BY <2>0, <2>2 DEF IdleStep, Idle, ClientCycle, TypeOK, ArbTypeOK
  <2>3. ASSUME NEW oresp \in Resp, HoldStep(oresp)
       PROVE  TypeOK'
    BY <2>3 DEF HoldStep, Hold, ClientCycle, TypeOK, ArbTypeOK, arbVars
  <2>4. ASSUME NEW oresp \in Resp, ReleaseStep(oresp)
       PROVE  TypeOK'
    <3>1. NextPtr(index) \in Inputs
      BY ArbiterAssumption DEF NextPtr, MAX_INDEX, Inputs, TypeOK, ArbTypeOK
    <3> QED
      BY <2>4, <3>1 DEF ReleaseStep, Release, ClientCycle, TypeOK, ArbTypeOK
  <2>5. CASE UNCHANGED vars
    BY <2>5 DEF vars, arbVars, clientVars, TypeOK, ArbTypeOK
  <2> QED
    BY <2>1, <2>2, <2>3, <2>4, <2>5 DEF Next, Step
<1> QED
  BY <1>1, <1>2, PTL DEF Safety

\* A busy bus carries what the granted master still asks with.
THEOREM ArbiterSavedIsAsked == Safety => []SavedIsAsked
<1>1. Init => SavedIsAsked
  BY DEF Init, ArbInit, SavedIsAsked
<1>2. TypeOK /\ SavedIsAsked /\ [Next]_vars => SavedIsAsked'
  <2> SUFFICES ASSUME TypeOK, SavedIsAsked, [Next]_vars
               PROVE  SavedIsAsked'
    OBVIOUS
  <2>1. CASE GrantStep
    BY <2>1, SelectIsFirst
    DEF GrantStep, Grant, ClientCycle, Served, iresps, Okay, NoResp, SavedIsAsked
  <2>2. CASE IdleStep
    BY <2>2 DEF IdleStep, Idle, SavedIsAsked
  <2>3. ASSUME NEW oresp \in Resp, HoldStep(oresp)
       PROVE  SavedIsAsked'
    BY <2>3 DEF HoldStep, Hold, arbVars, ClientCycle, Served, iresps, Okay,
                SavedIsAsked, TypeOK, ArbTypeOK
  <2>4. ASSUME NEW oresp \in Resp, ReleaseStep(oresp)
       PROVE  SavedIsAsked'
    BY <2>4 DEF ReleaseStep, Release, SavedIsAsked
  <2>5. CASE UNCHANGED vars
    BY <2>5 DEF vars, arbVars, clientVars, SavedIsAsked
  <2> QED
    BY <2>1, <2>2, <2>3, <2>4, <2>5 DEF Next, Step
<1> QED
  BY <1>1, <1>2, ArbiterTypeOK, PTL DEF Safety

\* Serving k moves the search past k: every other master comes nearer, by at
\* least one place more than k was ahead of it.
LEMMA PassingBrings ==
    ASSUME NEW p \in Inputs, NEW k \in Inputs, NEW i \in Inputs, i # k,
           Dist(p, k) <= Dist(p, i)
    PROVE  Dist(NextPtr(k), i) + 1 <= Dist(p, i)
BY ArbiterAssumption DEF Dist, NextPtr, MAX_INDEX, Inputs

LEMMA DistBound ==
    ASSUME NEW p \in Inputs, NEW i \in Inputs
    PROVE  Dist(p, i) \in 0 .. NUM_INPUTS - 1
BY ArbiterAssumption DEF Dist, Inputs

\* Round robin: nobody waits for more than one grant to each other master.
THEOREM ArbiterBoundedOvertaking == Safety => []BoundedOvertaking
<1> USE ArbiterAssumption
<1>1. Init => IInv
  <2> SUFFICES ASSUME Init PROVE IInv
    OBVIOUS
  <2>1. TypeOK
    BY InitTypeOK
  <2>2. SavedIsAsked /\ Fresh
    BY DEF Init, ArbInit, SavedIsAsked, Fresh
  <2>3. Ahead
    BY DEF Init, ArbInit, Ahead, Waiting, Valid
  <2> QED
    BY <2>1, <2>2, <2>3 DEF IInv
<1>2. IInv /\ [Next]_vars => Fresh' /\ Ahead'
  <2> SUFFICES ASSUME IInv, TypeOK, SavedIsAsked, Fresh, Ahead, [Next]_vars,
                      NEW i \in Inputs
               PROVE  /\ ~Waiting(i)' => overtaken'[i] = 0
                      /\ Waiting(i)' =>
                           overtaken'[i] + Dist(PtrAfter, i)' <= NUM_INPUTS - 1
    BY DEF IInv, Fresh, Ahead
  <2>1. CASE GrantStep
    <3> DEFINE s == Select(ireqs)
    <3>1. s \in Inputs /\ Valid(ireqs[s]) /\ index' = s /\ busy' = TRUE
      BY <2>1, SelectIsFirst DEF GrantStep, Grant
    <3>2. CASE Valid(ireqs[i]) /\ i # s
      <4>1. Waiting(i) /\ PtrAfter = grant_ptr
        BY <2>1, <3>2 DEF Waiting, PtrAfter, GrantStep, Grant
      <4>2. Dist(NextPtr(s), i) + 1 <= Dist(grant_ptr, i)
        BY <3>1, <3>2, SelectIsFirst, PassingBrings DEF TypeOK, ArbTypeOK
      <4>3. overtaken'[i] = overtaken[i] + 1
        BY <2>1, <3>2 DEF GrantStep, CountGrant
      <4>4. overtaken[i] + Dist(grant_ptr, i) <= NUM_INPUTS - 1
        BY <4>1 DEF Ahead
      <4>5. Dist(PtrAfter, i)' = Dist(NextPtr(s), i)
        BY <3>1 DEF PtrAfter, Dist, NextPtr
      <4>6. /\ Dist(NextPtr(s), i) \in Int
            /\ Dist(grant_ptr, i) \in Int
            /\ overtaken[i] \in Nat
        BY <3>1 DEF Dist, NextPtr, Inputs, MAX_INDEX, TypeOK, ArbTypeOK
      <4>7. Waiting(i)'
        BY <2>1, <3>1, <3>2
        DEF Waiting, GrantStep, Grant, ClientCycle, Served, iresps, Okay, NoResp, Valid
      <4> QED
        BY <4>2, <4>3, <4>4, <4>5, <4>6, <4>7
    <3>3. CASE ~(Valid(ireqs[i]) /\ i # s)
      <4>1. overtaken'[i] = 0
        BY <2>1, <3>3 DEF GrantStep, CountGrant
      <4>2. Dist(PtrAfter, i)' <= NUM_INPUTS - 1
        <5>1. NextPtr(s) \in Inputs
          BY <3>1 DEF NextPtr, MAX_INDEX, Inputs
        <5>2. Dist(PtrAfter, i)' = Dist(NextPtr(s), i)
          BY <3>1 DEF PtrAfter, Dist, NextPtr
        <5> QED
          BY <5>1, <5>2, DistBound
      <4> QED
        BY <4>1, <4>2, <3>1 DEF PtrAfter, Dist, NextPtr, Inputs, MAX_INDEX
    <3> QED
      BY <3>2, <3>3
  <2>2. CASE IdleStep
    <3>1. ~Valid(ireqs[i])
      BY <2>2, SelectIsFirst DEF IdleStep, Idle
    <3>2. overtaken'[i] = 0
      BY <2>2, <3>1 DEF IdleStep, Fresh, Waiting
    <3>3. Dist(PtrAfter, i)' = Dist(grant_ptr, i)
      BY <2>2 DEF IdleStep, Idle, PtrAfter, Dist
    <3> QED
      BY <3>2, <3>3, DistBound DEF TypeOK, ArbTypeOK, Inputs
  <2>3. ASSUME NEW oresp \in Resp, HoldStep(oresp)
       PROVE  /\ ~Waiting(i)' => overtaken'[i] = 0
              /\ Waiting(i)' =>
                   overtaken'[i] + Dist(PtrAfter, i)' <= NUM_INPUTS - 1
    <3>1. UNCHANGED arbVars /\ busy /\ overtaken' = overtaken
      BY <2>3 DEF HoldStep, Hold
    <3>2. Dist(PtrAfter, i)' = Dist(PtrAfter, i)
      BY <3>1 DEF arbVars, PtrAfter, Dist, NextPtr
    <3>3. Waiting(i) => Waiting(i)'
      BY <2>3 DEF HoldStep, Hold, arbVars, ClientCycle, Served, iresps, Okay,
                  NoResp, Waiting, Valid
    <3>4. PtrAfter \in Inputs
      BY DEF PtrAfter, NextPtr, MAX_INDEX, Inputs, TypeOK, ArbTypeOK
    <3>5. Dist(PtrAfter, i) \in 0 .. NUM_INPUTS - 1
      BY <3>4, DistBound
    <3> QED
      BY <3>1, <3>2, <3>3, <3>5 DEF Fresh, Ahead, Inputs
  <2>4. ASSUME NEW oresp \in Resp, ReleaseStep(oresp)
       PROVE  /\ ~Waiting(i)' => overtaken'[i] = 0
              /\ Waiting(i)' =>
                   overtaken'[i] + Dist(PtrAfter, i)' <= NUM_INPUTS - 1
    <3>1. /\ busy /\ ~busy' /\ grant_ptr' = NextPtr(index)
          /\ overtaken' = overtaken
      BY <2>4 DEF ReleaseStep, Release
    <3>2. Dist(PtrAfter, i)' = Dist(PtrAfter, i)
      BY <3>1 DEF PtrAfter, Dist, NextPtr
    <3>3. Waiting(i) => Waiting(i)'
      BY <2>4 DEF ReleaseStep, Release, ClientCycle, Served, iresps, Okay,
                  NoResp, Waiting, Valid
    <3>4. PtrAfter \in Inputs
      BY DEF PtrAfter, NextPtr, MAX_INDEX, Inputs, TypeOK, ArbTypeOK
    <3>5. Dist(PtrAfter, i) \in 0 .. NUM_INPUTS - 1
      BY <3>4, DistBound
    <3> QED
      BY <3>1, <3>2, <3>3, <3>5 DEF Fresh, Ahead, Inputs
  <2>5. CASE UNCHANGED vars
    BY <2>5 DEF vars, arbVars, clientVars, Fresh, Ahead, Waiting, Valid,
                PtrAfter, Dist, NextPtr
  <2> QED
    BY <2>1, <2>2, <2>3, <2>4, <2>5 DEF Next, Step
<1>3. TypeOK /\ Fresh /\ Ahead => BoundedOvertaking
  <2> SUFFICES ASSUME TypeOK, Fresh, Ahead, NEW i \in Inputs
               PROVE  overtaken[i] <= NUM_INPUTS - 1
    BY DEF BoundedOvertaking
  <2>1. PtrAfter \in Inputs
    BY DEF PtrAfter, NextPtr, MAX_INDEX, Inputs, TypeOK, ArbTypeOK
  <2>2. Dist(PtrAfter, i) \in 0 .. NUM_INPUTS - 1 /\ overtaken[i] \in Nat
    BY <2>1, DistBound DEF TypeOK
  <2> QED
    BY <2>2 DEF Fresh, Ahead
<1> QED
  BY <1>1, <1>2, <1>3, ArbiterTypeOK, ArbiterSavedIsAsked, PTL DEF Safety, IInv

-----------------------------------------------------------------------------
(* The arbiter with either memory under it.                                *)

\* What both memories answer is a CBus response.
LEMMA AnswersAreResponses ==
  D!eval_resp \in Resp /\ \A handshake : A!cresp(handshake) \in Resp
<1>1. D!eval_resp \in Resp
  BY DEF D!eval_resp, D!Last, D!NoResp, Resp
<1>2. ASSUME NEW handshake
      PROVE  A!cresp(handshake) \in Resp
  BY DEF A!cresp, A!is_last, A!rlast, A!Last, Resp
<1> QED
  BY <1>1, <1>2

\* The simulation's bus implements the arbiter with any slave that answers in its
\* own time (CBusDevice and CBusToAXI before VTop's arbiter).
THEOREM BusImplementsArbiter == BusSafety => Safety
<1>1. BusInit => Init
  BY DEF BusInit
<1>2. [BusNext]_busVars => [Next]_vars
  <2>1. ASSUME NEW next_enable, DeviceTick(next_enable)
        PROVE  Next
    BY <2>1, AnswersAreResponses DEF DeviceTick, Next
  <2>2. ASSUME NEW handshake, NEW effect, AxiTick(handshake, effect)
        PROVE  Next
    BY <2>2, AnswersAreResponses DEF AxiTick, Next
  <2>3. CASE UNCHANGED busVars
    BY <2>3 DEF busVars
  <2> QED
    BY <2>1, <2>2, <2>3 DEF BusNext
<1> QED
  BY <1>1, <1>2, PTL DEF BusSafety, Safety

\* A master behind either memory is overtaken at most NUM_INPUTS - 1 times.
THEOREM BusBoundedOvertaking == BusSafety => []BoundedOvertaking
BY BusImplementsArbiter, ArbiterBoundedOvertaking, PTL

-----------------------------------------------------------------------------
(* One atomic memory.                                                      *)

\* AXITransaction's addresses are those of a wrapping burst (axi.h).
LEMMA Wraps ==
    ASSUME NEW req \in Request, NEW k \in Nat
    PROVE  LET n == req.len + 1
               low == (req.addr \div n) * n
           IN  /\ WrapAddr(req, 0) = req.addr
               /\ WrapAddr(req, k + 1) = IF WrapAddr(req, k) + 1 >= low + n THEN low
                                         ELSE WrapAddr(req, k) + 1
               /\ req.is_write => WrapAddr(req, k) = req.addr
<1> DEFINE n == req.len + 1
           q == req.addr \div n
           low == q * n
           m == (req.addr + k) % n
<1>1. n \in Nat \ {0} /\ req.addr \in Nat /\ req.addr + k \in Nat
  BY SimBusAssumption
<1>2. req.addr = n * q + (req.addr % n) /\ q \in Int /\ req.addr % n \in 0 .. n - 1
  BY <1>1, DivMod
<1>3. m \in 0 .. n - 1
  BY <1>1, DivMod
<1>4. (req.addr + (k + 1)) % n = IF m + 1 >= n THEN 0 ELSE m + 1
  <2>1. req.addr + (k + 1) = (req.addr + k) + 1
    BY <1>1
  <2> QED
    BY <1>1, <2>1, ModSucc
<1>5. low = n * q /\ low \in Int
  <2> HIDE DEF n, q
  <2> QED
    BY <1>1, <1>2
<1>6. /\ WrapAddr(req, 0) = low + (req.addr % n)
      /\ WrapAddr(req, k) = low + m
      /\ WrapAddr(req, k + 1) = low + ((req.addr + (k + 1)) % n)
  BY <1>1 DEF WrapAddr
<1>7. req.is_write => n = 1
  BY SimBusAssumption
<1> HIDE DEF n, q, low, m
<1>8. WrapAddr(req, 0) = req.addr
  BY <1>1, <1>2, <1>5, <1>6
<1>9. WrapAddr(req, k + 1) = IF WrapAddr(req, k) + 1 >= low + n THEN low
                             ELSE WrapAddr(req, k) + 1
  BY <1>1, <1>3, <1>4, <1>5, <1>6
<1>10. req.is_write => WrapAddr(req, k) = req.addr
  BY <1>1, <1>2, <1>3, <1>5, <1>6, <1>7
<1> QED
  BY <1>8, <1>9, <1>10 DEF n, q, low

LEMMA Transfers ==
    ASSUME NEW req \in Request, NEW k \in Nat
    PROVE  /\ D!Started(req) = Made(req, 0)
           /\ D!Advanced(Made(req, k)) = Made(req, k + 1)
           /\ D!Last(Made(req, k)) <=> k = req.len
<1> DEFINE low == (req.addr \div (req.len + 1)) * (req.len + 1)
           t == Made(req, k)
           next == IF t.addr + 1 >= low + (req.len + 1) THEN low ELSE t.addr + 1
<1>1. D!Started(req) = Made(req, 0)
  <2>1. WrapAddr(req, 0) = req.addr /\ 0 + 1 = 1
    BY Wraps
  <2> QED
    BY <2>1 DEF D!Started, Made
<1>2. D!Advanced(t) = [t EXCEPT !.N = t.N + 1, !.addr = next]
  BY DEF D!Advanced, D!Upper_Wrap_Boundry, D!Lower_Wrap_Boundry, Made
<1>3. next = WrapAddr(req, k + 1)
  BY Wraps DEF Made
<1>4. t.N + 1 = (k + 1) + 1
  BY DEF Made
<1>5. D!Advanced(t) = Made(req, k + 1)
  <2> HIDE DEF next
  <2> QED
    BY <1>2, <1>3, <1>4 DEF Made
<1>6. D!Last(t) <=> k = req.len
  BY SimBusAssumption DEF D!Last, Made
<1> QED
  BY <1>1, <1>5, <1>6

\* What a clock edge does to the granted request and to the ghosts.
LEMMA Observed ==
    ASSUME TypeOK, SavedIsAsked, NEW oresp \in Resp, Step(oresp), Observe(oresp),
           oresp.ready => busy
    PROVE  /\ busy => saved_req \in Request /\ oreq(ireqs) = saved_req
           /\ ~busy => /\ beats' = 0 /\ content' = content
                       /\ IF busy' THEN /\ oreq(ireqs) \in Request
                                        /\ saved_req' = oreq(ireqs)
                          ELSE oreq(ireqs) = NoRequest
           /\ busy /\ Okay(oresp) => ~busy' /\ beats' = 0
           /\ busy /\ ~Okay(oresp) => /\ busy' /\ saved_req' = saved_req
                                      /\ beats' = IF oresp.ready THEN beats + 1 ELSE beats
           /\ content' = IF busy /\ oresp.ready /\ saved_req.is_write
                         THEN [content EXCEPT ![BeatAddr] =
                                 D!Stored(@, saved_req.data, saved_req.strobe)]
                         ELSE content
<1>1. Select(ireqs) \in Inputs
  BY SelectIsFirst
<1>2. CASE ~busy
  <2>1. GrantStep \/ IdleStep
    BY <1>2 DEF Step, HoldStep, Hold, ReleaseStep, Release
  <2> QED
    BY <1>1, <1>2, <2>1
    DEF GrantStep, Grant, IdleStep, Idle, oreq, Valid, Observe, TypeOK
<1>3. CASE busy
  <2>1. HoldStep(oresp) \/ ReleaseStep(oresp)
    BY <1>3 DEF Step, GrantStep, Grant, IdleStep, Idle
  <2> QED
    BY <1>3, <2>1 DEF HoldStep, Hold, ReleaseStep, Release, arbVars, oreq, Valid, Observe,
                      TypeOK, ArbTypeOK, SavedIsAsked
<1> QED
  BY <1>2, <1>3

LEMMA DeviceKeeps ==
    ASSUME TypeOK, SavedIsAsked, MemInv, NEW next_enable, DeviceTick(next_enable)
    PROVE  MemInv'
<1> DEFINE resp == D!eval_resp
           req  == oreq(ireqs)
<1> USE DEF MemInv
<1>1. /\ slave = "device" /\ slave' = "device" /\ beats \in Nat /\ mem = content
      /\ IF tx.busy THEN busy /\ tx = Serving ELSE beats = 0
      /\ Step(resp) /\ Observe(resp) /\ resp \in Resp
      /\ mem' = IF D!stores
                THEN [mem EXCEPT ![tx.addr] = D!Stored(@, req.data, req.strobe)] ELSE mem
  BY AnswersAreResponses DEF DeviceTick, DeviceInv, Observe
<1>2. resp = IF enable /\ tx.busy THEN [ready |-> TRUE, last |-> D!Last(tx), fault |-> FALSE]
             ELSE NoResp
  BY DEF D!eval_resp, D!NoResp, NoResp
<1>3. /\ resp.ready <=> enable /\ tx.busy
      /\ Okay(resp) <=> enable /\ tx.busy /\ D!Last(tx)
  BY <1>2 DEF Okay, NoResp
<1>4. resp.ready => busy
  BY <1>1, <1>3
<1>5. D!Disabled \/ D!Rest(req) \/ D!Begin(req) \/ D!Transfer(req)
  BY DEF DeviceTick, D!DeviceCycle
<1>6. /\ busy => saved_req \in Request /\ req = saved_req
      /\ ~busy => /\ beats' = 0
                  /\ IF busy' THEN req \in Request /\ saved_req' = req ELSE req = NoRequest
      /\ busy /\ Okay(resp) => ~busy' /\ beats' = 0
      /\ busy /\ ~Okay(resp) => /\ busy' /\ saved_req' = saved_req
                                /\ beats' = IF resp.ready THEN beats + 1 ELSE beats
      /\ content' = IF busy /\ resp.ready /\ saved_req.is_write
                    THEN [content EXCEPT ![BeatAddr] =
                            D!Stored(@, saved_req.data, saved_req.strobe)]
                    ELSE content
  BY <1>1, <1>4, Observed
<1> HIDE DEF resp, req
<1>7. mem' = content'
  <2>1. D!stores <=> resp.ready /\ tx.is_write
    BY <1>3 DEF D!stores
  <2>2. resp.ready => /\ busy /\ tx.is_write = saved_req.is_write
                      /\ tx.addr = BeatAddr /\ req = saved_req
    BY <1>1, <1>3, <1>6 DEF Serving, Made, BeatAddr
  <2> QED
    BY <1>1, <1>6, <2>1, <2>2
<1>8. beats' \in Nat
  BY <1>1, <1>6
<1>9. IF tx'.busy THEN busy' /\ tx' = Serving' ELSE beats' = 0
  <2>1. CASE D!Disabled \/ D!Rest(req)
    <3>1. tx' = tx /\ ~resp.ready /\ ~Okay(resp)
      BY <1>3, <2>1 DEF D!Disabled, D!Rest
    <3>2. CASE tx.busy
      BY <1>1, <1>6, <3>1, <3>2 DEF Serving
    <3>3. CASE ~tx.busy
      BY <1>1, <1>6, <3>1, <3>3
    <3> QED
      BY <3>2, <3>3
  <2>2. CASE D!Begin(req)
    <3>1. /\ req # NoRequest /\ tx' = D!Started(req) /\ beats = 0
          /\ ~resp.ready /\ ~Okay(resp)
      BY <1>1, <1>3, <2>2 DEF D!Begin
    <3>2. busy' /\ saved_req' = req /\ req \in Request /\ beats' = 0
      BY <1>6, <3>1
    <3>3. tx' = Made(req, 0)
      BY <3>1, <3>2, Transfers
    <3>4. tx' = Serving'
      BY <3>2, <3>3 DEF Serving
    <3> QED
      BY <3>2, <3>4
  <2>3. CASE D!Transfer(req)
    <3>1. /\ resp.ready /\ busy /\ tx = Serving
          /\ tx' = IF D!Last(tx) THEN D!NoTransaction ELSE D!Advanced(tx)
      BY <1>1, <1>3, <2>3 DEF D!Transfer
    <3>2. CASE D!Last(tx)
      BY <1>1, <1>3, <1>6, <3>1, <3>2 DEF D!NoTransaction
    <3>3. CASE ~D!Last(tx)
      <4>1. busy' /\ saved_req' = saved_req /\ beats' = beats + 1 /\ saved_req \in Request
        BY <1>3, <1>6, <3>1, <3>3
      <4>2. tx' = Made(saved_req, beats + 1)
        BY <1>1, <3>1, <3>3, <4>1, Transfers DEF Serving
      <4>3. tx' = Serving' /\ tx'.busy
        BY <4>1, <4>2 DEF Serving, Made
      <4> QED
        BY <4>1, <4>3
    <3> QED
      BY <3>2, <3>3
  <2> QED
    BY <1>5, <2>1, <2>2, <2>3
<1> QED
  BY <1>1, <1>7, <1>8, <1>9 DEF DeviceInv, AxiInv

\* CBusToAXI and its memory: what is answered before it takes effect is in w.
LEMMA AxiKeeps ==
    ASSUME TypeOK, SavedIsAsked, MemInv, NEW effect \in BOOLEAN,
           NEW handshake \in SUBSET A!Possible, AxiTick(handshake, effect)
    PROVE  MemInv'
<1> DEFINE resp == A!cresp(handshake)
           req  == oreq(ireqs)
<1> USE DEF MemInv
<1>1. /\ slave = "axi" /\ slave' = "axi" /\ beats \in Nat
      /\ Issuing /\ Reading /\ Writing
      /\ Step(resp) /\ Observe(resp) /\ resp \in Resp
      /\ A!Latch(req) \/ A!Issue(handshake)
      /\ A!AxiMemory(req, handshake, effect)
  BY AnswersAreResponses DEF AxiTick, AxiInv, Observe, A!AxiCycle
<1>2. /\ handshake \subseteq in_issue
      /\ "R" \in handshake => ar.busy
      /\ "B" \in handshake => b
  BY DEF A!Possible
<1>3. /\ resp.ready <=> handshake \intersect {"W", "R"} # {}
      /\ Okay(resp) <=> /\ resp.ready /\ count = 0
                        /\ "R" \in in_issue => A!rlast
  BY DEF Okay, A!cresp, A!is_last
<1>4. resp.ready => busy /\ Answering
  BY <1>1, <1>2, <1>3 DEF Issuing, Answering
<1>5. /\ busy => saved_req \in Request /\ req = saved_req
      /\ ~busy => /\ beats' = 0
                  /\ IF busy' THEN req \in Request /\ saved_req' = req ELSE req = NoRequest
      /\ busy /\ Okay(resp) => ~busy' /\ beats' = 0
      /\ busy /\ ~Okay(resp) => /\ busy' /\ saved_req' = saved_req
                                /\ beats' = IF resp.ready THEN beats + 1 ELSE beats
      /\ content' = IF busy /\ resp.ready /\ saved_req.is_write
                    THEN [content EXCEPT ![BeatAddr] =
                            D!Stored(@, saved_req.data, saved_req.strobe)]
                    ELSE content
  BY <1>1, <1>4, Observed
<1> HIDE DEF resp, req
<1>6. beats' \in Nat
  BY <1>1, <1>5
\* The adapter is free: it takes the request on the bus, if there is one.
<1>7. CASE A!Latch(req)
  <2>1. /\ in_issue = {} /\ handshake = {} /\ ~resp.ready /\ ~Okay(resp)
        /\ in_issue' = IF req = NoRequest THEN {} ELSE A!next_issue(req)
        /\ axi_req' = req /\ count' = IF req = NoRequest THEN 0 ELSE req.len
    BY <1>2, <1>3, <1>7 DEF A!Latch, A!busy
  <2>2. ~Answering /\ beats = 0 /\ ~w.busy /\ ~aw.busy /\ ~ar.busy
    BY <1>1, <2>1 DEF Issuing, Reading, Writing, Answering
  <2>3. UNCHANGED <<ar, aw, w, mem>> /\ b' = b /\ ~effect /\ content' = content
    BY <1>1, <1>5, <2>1, <2>2 DEF A!AxiMemory, Writing
  <2>4. beats' = 0 /\ (req # NoRequest => busy' /\ saved_req' = req /\ req \in Request)
    BY <1>5, <2>1, <2>2, ArbiterAssumption
  <2>5. Issuing'
    BY <2>1, <2>4, SimBusAssumption DEF Issuing, Answering, A!next_issue
  <2>6. Reading'
    BY <2>1, <2>2, <2>3, <2>4 DEF Reading, A!next_issue
  <2>7. Writing'
    <3>1. ~b
      BY <1>1, <2>1 DEF Writing
    <3> QED
      BY <1>1, <2>1, <2>2, <2>3, <2>4, <3>1 DEF Writing, A!next_issue
  <2> QED
    BY <1>1, <1>6, <2>5, <2>6, <2>7 DEF DeviceInv, AxiInv
<1>8. CASE A!Issue(handshake) /\ ~axi_req.is_write
  <2>1. /\ in_issue \subseteq {"AR", "R"} /\ "R" \in in_issue /\ axi_req' = axi_req
        /\ in_issue' = in_issue \ A!ended(handshake)
        /\ count' = IF resp.ready /\ ~resp.last THEN count - 1 ELSE count
    BY <1>1, <1>8 DEF A!Issue, A!busy, A!next_issue, Issuing, Reading, resp
  <2>2. /\ Answering /\ busy /\ axi_req = saved_req /\ count = saved_req.len - beats
        /\ ~w.busy /\ ~aw.busy /\ ~b
    BY <1>1, <2>1 DEF Issuing, Writing, Answering
  <2>3. resp.ready <=> "R" \in handshake
    BY <1>2, <1>3, <2>1
  <2>4. content' = content /\ mem' = mem /\ w' = w /\ aw' = aw /\ b' = FALSE
    <3>1. "AW" \notin handshake /\ "W" \notin handshake
      BY <1>2, <2>1
    <3>2. ~effect
      BY <1>1, <2>2 DEF A!AxiMemory
    <3>3. content' = content
      BY <1>5, <1>8, <2>2
    <3> QED
      BY <1>1, <2>2, <3>1, <3>2, <3>3 DEF A!AxiMemory
  <2>5. Writing'
    BY <1>1, <2>1, <2>2, <2>4 DEF Writing
  <2>6. saved_req \in Request /\ saved_req.len \in Nat
    BY <1>5, <2>2, SimBusAssumption
  <2>7. CASE "R" \in handshake
    <3>1. /\ ar = Serving /\ "AR" \notin in_issue /\ resp.ready
          /\ ar' = IF A!rlast THEN A!NoTransaction ELSE A!Advanced(ar)
      BY <1>1, <1>2, <2>3, <2>7 DEF Reading, A!AxiMemory
    <3>2. A!rlast <=> beats = saved_req.len
      BY <1>1, <2>6, <3>1, Transfers DEF A!rlast, A!Last, D!Last, Serving
    <3>3. CASE A!rlast
      <4>1. Okay(resp) /\ ~busy' /\ beats' = 0 /\ in_issue' = {} /\ ar' = A!NoTransaction
        <5>1. count = 0
          BY <1>1, <2>2, <2>6, <3>2, <3>3
        <5>2. Okay(resp) /\ ~busy' /\ beats' = 0
          BY <1>3, <1>5, <2>2, <3>1, <3>3, <5>1
        <5>3. in_issue' = {}
          BY <2>1, <2>7, <3>1, <3>3 DEF A!ended
        <5> QED
          BY <3>1, <3>3, <5>2, <5>3
      <4>2. Issuing' /\ Reading'
        BY <4>1 DEF Issuing, Answering, Reading, A!NoTransaction
      <4> QED
        BY <1>1, <1>6, <2>5, <4>2 DEF DeviceInv, AxiInv
    <3>4. CASE ~A!rlast
      <4>1. /\ ~Okay(resp) /\ busy' /\ beats' = beats + 1 /\ saved_req' = saved_req
            /\ in_issue' = in_issue /\ ar' = A!Advanced(ar)
        BY <1>3, <1>5, <2>1, <2>2, <2>7, <3>1, <3>4 DEF A!ended
      <4>2. count' = count - 1
        BY <1>3, <2>1, <3>1, <4>1 DEF Okay
      <4>3. Issuing'
        <5>1. in_issue' \subseteq A!next_issue(axi_req')
          BY <1>8, <2>1, <4>1 DEF A!next_issue
        <5>2. count' = saved_req'.len - beats'
          BY <1>1, <2>2, <2>6, <4>1, <4>2
        <5>3. Answering'
          BY <2>1, <4>1 DEF Answering
        <5> QED
          BY <2>1, <2>2, <4>1, <5>1, <5>2, <5>3 DEF Issuing
      <4>4. ar' = Made(saved_req, beats + 1)
        BY <1>1, <2>6, <3>1, <4>1, Transfers
        DEF A!Advanced, A!Upper_Wrap_Boundry, A!Lower_Wrap_Boundry,
            D!Advanced, D!Upper_Wrap_Boundry, D!Lower_Wrap_Boundry, Serving
      <4>5. Reading'
        BY <2>1, <3>1, <4>1, <4>4 DEF Reading, Serving
      <4> QED
        BY <1>1, <1>6, <2>5, <4>3, <4>5 DEF DeviceInv, AxiInv
    <3> QED
      BY <3>3, <3>4
  <2>8. CASE "R" \notin handshake
    <3>1. /\ ~resp.ready /\ busy' /\ saved_req' = saved_req /\ beats' = beats /\ count' = count
          /\ in_issue' = in_issue \ handshake /\ "R" \in in_issue'
      BY <1>2, <1>3, <1>5, <2>1, <2>2, <2>3, <2>8 DEF A!ended
    <3>2. Issuing'
      <4>1. in_issue' \subseteq A!next_issue(axi_req')
        BY <1>8, <2>1, <3>1 DEF A!next_issue
      <4>2. Answering'
        BY <3>1 DEF Answering
      <4> QED
        BY <2>1, <2>2, <3>1, <4>1, <4>2 DEF Issuing
    <3>3. CASE "AR" \in handshake
      <4>1. ar' = A!Started(axi_req) /\ beats = 0 /\ "AR" \notin in_issue'
        BY <1>1, <1>2, <3>1, <3>3 DEF A!AxiMemory, Reading
      <4>2. ar' = Made(saved_req, 0)
        BY <2>2, <2>6, <4>1, Transfers DEF A!Started, D!Started
      <4> QED
        BY <1>1, <1>6, <2>5, <3>1, <3>2, <4>1, <4>2 DEF Reading, Serving, DeviceInv, AxiInv
    <3>4. CASE "AR" \notin handshake
      <4>1. ar' = ar
        BY <1>1, <2>8, <3>4 DEF A!AxiMemory
      <4>2. Serving' = Serving
        BY <3>1 DEF Serving
      <4> QED
        BY <1>1, <1>6, <2>5, <3>1, <3>2, <4>1, <4>2 DEF Reading, DeviceInv, AxiInv
    <3> QED
      BY <3>3, <3>4
  <2> QED
    BY <2>7, <2>8
<1>9. CASE A!Issue(handshake) /\ axi_req.is_write
  <2>1. /\ in_issue \subseteq {"AW", "W", "B"} /\ in_issue # {} /\ axi_req' = axi_req
        /\ in_issue' = in_issue \ A!ended(handshake)
        /\ count' = IF resp.ready /\ ~resp.last THEN count - 1 ELSE count
        /\ ~ar.busy /\ ar' = ar /\ beats = 0
    BY <1>1, <1>2, <1>9 DEF A!Issue, A!busy, A!next_issue, A!AxiMemory, Issuing, Reading,
                            Writing, Answering, resp
  <2>2. /\ resp.ready <=> "W" \in handshake
        /\ Answering <=> "W" \in in_issue
    BY <1>2, <1>3, <2>1 DEF Answering
  <2>3. "W" \in in_issue => /\ busy /\ axi_req = saved_req /\ saved_req \in Request
                            /\ count = 0 /\ saved_req.len = 0
    BY <1>1, <1>5, <1>9, <2>1, <2>2, SimBusAssumption DEF Issuing
  <2>4. /\ Okay(resp) <=> "W" \in handshake
        /\ in_issue' = in_issue \ handshake
    BY <1>2, <1>3, <2>1, <2>2, <2>3 DEF A!ended, A!is_last
  <2>5. beats' = 0 /\ count' = count
        /\ ("W" \in in_issue' => busy' /\ saved_req' = saved_req)
    BY <1>3, <1>5, <2>1, <2>2, <2>3, <2>4 DEF Okay
  <2>6. Issuing'
    <3>1. in_issue' \subseteq A!next_issue(axi_req')
      BY <1>9, <2>1, <2>4 DEF A!next_issue
    <3>2. Answering' <=> "W" \in in_issue'
      BY <2>1, <2>4 DEF Answering
    <3>3. "W" \in in_issue' => busy' /\ axi_req' = saved_req' /\ count' = saved_req'.len - beats'
      BY <2>1, <2>3, <2>4, <2>5
    <3> QED
      BY <2>5, <3>1, <3>2, <3>3 DEF Issuing
  <2>7. Reading'
    BY <2>1, <2>4 DEF Reading
  <2>8. CASE "W" \in handshake
    <3>1. /\ ~w.busy /\ ~effect /\ mem' = mem /\ content = mem /\ b' = FALSE
          /\ w' = [busy |-> TRUE, data |-> saved_req.data, strobe |-> saved_req.strobe]
      BY <1>1, <1>2, <1>5, <2>3, <2>8 DEF A!AxiMemory, Writing
    <3>2. BeatAddr = axi_req.addr
      BY <1>2, <1>9, <2>1, <2>3, <2>8, Wraps DEF BeatAddr
    <3>3. content' = [mem EXCEPT ![axi_req.addr] = A!Stored(@, w'.data, w'.strobe)]
      BY <1>2, <1>5, <1>9, <2>2, <2>3, <2>8, <3>1, <3>2 DEF D!Stored, A!Stored
    <3>4. aw' = IF "AW" \in handshake THEN A!Started(axi_req) ELSE aw
      BY <1>1, <3>1 DEF A!AxiMemory
    <3>5. Writing'
      <4>1. "W" \notin in_issue' /\ "B" \in in_issue'
        BY <1>1, <1>2, <2>4, <2>8 DEF Writing
      <4>2. aw'.busy => "AW" \notin in_issue' /\ aw'.addr = axi_req'.addr
        BY <1>1, <1>2, <2>1, <2>4, <3>4 DEF Writing, A!Started
      <4>3. content' = IF w'.busy
                       THEN [mem' EXCEPT ![axi_req'.addr] = A!Stored(@, w'.data, w'.strobe)]
                       ELSE mem'
        BY <2>1, <3>1, <3>3
      <4>4. /\ "W" \in in_issue' => "B" \in in_issue' /\ beats' = 0
            /\ "AW" \in in_issue' => "B" \in in_issue'
            /\ (w'.busy \/ aw'.busy => "B" \in in_issue' /\ ~b')
            /\ b' \in BOOLEAN /\ ~b'
        BY <3>1, <4>1
      <4> QED
        BY <4>1, <4>2, <4>3, <4>4 DEF Writing
    <3> QED
      BY <1>1, <1>6, <2>6, <2>7, <3>5 DEF DeviceInv, AxiInv
  <2>9. CASE "W" \notin handshake
    <3>1. content' = content
      BY <1>5, <2>2, <2>9
    <3>2. CASE effect
      <4>1. /\ w.busy /\ aw.busy /\ aw.addr = axi_req.addr /\ "AW" \notin in_issue
            /\ "W" \notin in_issue /\ "B" \in in_issue /\ ~b
        BY <1>1, <3>2 DEF Writing, A!AxiMemory
      <4>2. /\ mem' = [mem EXCEPT ![aw.addr] = A!Stored(@, w.data, w.strobe)]
            /\ ~w'.busy /\ ~aw'.busy /\ b' = TRUE
        BY <1>1, <1>2, <2>9, <3>2, <4>1 DEF A!AxiMemory, A!NoData, A!NoTransaction
      <4>3. content = mem'
        BY <1>1, <4>1, <4>2 DEF Writing
      <4>4. "B" \in in_issue'
        BY <1>2, <2>4, <4>1
      <4> QED
        BY <1>1, <1>6, <2>4, <2>6, <2>7, <3>1, <4>1, <4>2, <4>3, <4>4
        DEF Writing, DeviceInv, AxiInv
    <3>3. CASE ~effect
      <4>1. /\ mem' = mem /\ w' = w
            /\ aw' = IF "AW" \in handshake THEN A!Started(axi_req) ELSE aw
            /\ b' = (b /\ "B" \notin handshake)
        BY <1>1, <2>9, <3>3 DEF A!AxiMemory
      <4>2. Writing'
        <5>1. b \in BOOLEAN /\ b' \in BOOLEAN /\ ("B" \in in_issue => b \/ "B" \in in_issue')
          BY <1>1, <1>2, <2>4, <4>1 DEF Writing
        <5>2. /\ "W" \in in_issue' => "B" \in in_issue' /\ beats' = 0
              /\ "AW" \in in_issue' => "B" \in in_issue'
          BY <1>1, <2>4, <2>5, <5>1 DEF Writing
        <5>3. /\ w'.busy => "B" \in in_issue' /\ ~b' /\ "W" \notin in_issue'
              /\ aw'.busy => /\ "B" \in in_issue' /\ ~b' /\ "AW" \notin in_issue'
                             /\ aw'.addr = axi_req'.addr
          BY <1>1, <1>2, <2>1, <2>4, <4>1, <5>1 DEF Writing, A!Started
        <5>4. b' => "B" \in in_issue' /\ "W" \notin in_issue' /\ "AW" \notin in_issue'
          BY <1>1, <2>4, <4>1 DEF Writing
        <5>5. content' = IF w'.busy
                         THEN [mem' EXCEPT ![axi_req'.addr] = A!Stored(@, w'.data, w'.strobe)]
                         ELSE mem'
          BY <1>1, <2>1, <3>1, <4>1 DEF Writing
        <5> QED
          BY <5>1, <5>2, <5>3, <5>4, <5>5 DEF Writing
      <4> QED
        BY <1>1, <1>6, <2>6, <2>7, <4>2 DEF DeviceInv, AxiInv
    <3> QED
      BY <3>2, <3>3
  <2> QED
    BY <2>8, <2>9
<1> QED
  BY <1>1, <1>7, <1>8, <1>9

LEMMA InitMemInv == BusInit => MemInv
<1> SUFFICES ASSUME BusInit PROVE MemInv
  OBVIOUS
<1>1. ~tx.busy /\ in_issue = {} /\ ~ar.busy /\ ~aw.busy /\ ~w.busy /\ b = FALSE
  BY DEF BusInit, D!DeviceInit, D!NoTransaction, A!AxiInit, A!NoTransaction, A!NoData
<1>2. mem = content /\ beats = 0 /\ slave \in {"device", "axi"}
  BY DEF BusInit
<1>3. Issuing /\ Reading
  BY <1>1, <1>2 DEF Issuing, Answering, Reading
<1>4. Writing
  BY <1>1, <1>2 DEF Writing
<1> QED
  BY <1>1, <1>2, <1>3, <1>4 DEF MemInv, DeviceInv, AxiInv

\* Whichever memory it is, whatever it contains, and for any number of masters.
THEOREM BusAtomicMemory == BusSafety => []AtomicMemory
<1>1. TypeOK /\ SavedIsAsked /\ MemInv /\ [BusNext]_busVars => MemInv'
  <2> SUFFICES ASSUME TypeOK, SavedIsAsked, MemInv, [BusNext]_busVars PROVE MemInv'
    OBVIOUS
  <2>1. ASSUME NEW next_enable \in BOOLEAN, DeviceTick(next_enable) PROVE MemInv'
    BY <2>1, DeviceKeeps
  <2>2. ASSUME NEW handshake \in SUBSET A!Possible, NEW effect \in BOOLEAN,
               AxiTick(handshake, effect)
        PROVE  MemInv'
    BY <2>2, AxiKeeps
  <2>3. CASE UNCHANGED busVars
    BY <2>3 DEF busVars, vars, arbVars, deviceVars, axiVars, MemInv, DeviceInv, AxiInv,
                Issuing, Answering, Reading, Writing, Serving
  <2> QED
    BY <2>1, <2>2, <2>3 DEF BusNext
<1>2. TypeOK /\ MemInv => AtomicMemory
  <2> SUFFICES ASSUME TypeOK, MemInv, NEW oresp \in Answers, oresp.ready
               PROVE  /\ busy
                      /\ oresp.last <=> beats = saved_req.len
                      /\ ~saved_req.is_write => Word = content[BeatAddr]
    BY DEF AtomicMemory
  <2>1. beats \in Nat /\ (busy => saved_req \in Request)
    BY DEF MemInv, TypeOK, ArbTypeOK, Valid
  <2>2. CASE slave = "device"
    <3>1. oresp = D!eval_resp /\ mem = content /\ Word = mem[tx.addr]
      BY <2>2 DEF Answers, MemInv, DeviceInv, Word
    <3>2. tx.busy /\ oresp.last = D!Last(tx)
      BY <3>1 DEF D!eval_resp, D!NoResp
    <3>3. busy /\ tx = Made(saved_req, beats)
      BY <2>2, <3>2 DEF MemInv, DeviceInv, Serving
    <3>4. tx.addr = BeatAddr
      BY <3>3 DEF Made, BeatAddr
    <3> QED
      BY <2>1, <3>1, <3>2, <3>3, <3>4, Transfers
  <2>3. CASE slave # "device"
    <3>1. PICK handshake \in SUBSET A!Possible : oresp = A!cresp(handshake)
      BY <2>3 DEF Answers
    <3>2. Issuing /\ Reading /\ Writing
      BY <2>3 DEF MemInv, AxiInv
    <3>3. /\ handshake \subseteq in_issue
          /\ "R" \in handshake => ar.busy
          /\ handshake \intersect {"W", "R"} # {}
      BY <3>1 DEF A!Possible, A!cresp
    <3>4. /\ oresp.last <=> ("R" \in in_issue => A!rlast) /\ count = 0
          /\ Answering
      BY <3>1, <3>3 DEF A!cresp, A!is_last, Answering
    <3>5. /\ busy /\ axi_req = saved_req /\ count = saved_req.len - beats
          /\ in_issue \subseteq A!next_issue(saved_req)
      BY <3>2, <3>4 DEF Issuing, Answering
    <3>6. count = 0 <=> beats = saved_req.len
      BY <2>1, <3>5, SimBusAssumption
    <3>7. CASE saved_req.is_write
      BY <3>4, <3>5, <3>6, <3>7 DEF A!next_issue
    <3>8. CASE ~saved_req.is_write
      <4>1. in_issue \subseteq {"AR", "R"}
        BY <3>5, <3>8 DEF A!next_issue
      <4>2. ar = Made(saved_req, beats) /\ ~w.busy
        BY <3>2, <3>3, <4>1 DEF Reading, Writing, Serving
      <4>3. A!rlast <=> beats = saved_req.len
        BY <2>1, <3>5, <4>2, Transfers DEF A!rlast, A!Last, D!Last
      <4>4. Word = content[BeatAddr]
        BY <2>3, <3>2, <4>2 DEF Word, Writing, Made, BeatAddr
      <4> QED
        BY <3>4, <3>5, <3>6, <4>3, <4>4
    <3> QED
      BY <3>7, <3>8
  <2> QED
    BY <2>2, <2>3
<1> QED
  BY <1>1, <1>2, InitMemInv, BusImplementsArbiter, ArbiterTypeOK, ArbiterSavedIsAsked, PTL
  DEF BusSafety
=============================================================================
