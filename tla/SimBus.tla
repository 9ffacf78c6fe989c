------------------------------- MODULE SimBus -------------------------------
(***************************************************************************)
(* The arbiter and its masters before either of the two memories of the    *)
(* simulation that speak the cache bus: CBusDevice, or CBusToAXI and an    *)
(* AXI memory, which it "should match" (memory.h).                         *)
(***************************************************************************)
EXTENDS ArbiterClients

CONSTANTS NoAddress,
          Memory,       \* the words of the memory before the first write
          Privs         \* the privilege of each master

\* A write is a single transfer.
ASSUME SimBusAssumption ==
    /\ Privs \in [Inputs -> Priv]
    /\ \A req \in Request : /\ req.addr \in Nat /\ req.len \in Nat
                            /\ req.is_write => req.len = 0

VARIABLES slave,        \* the memory built in: "device" or "axi"
          enable, tx,
          in_issue, axi_req, count, ar, aw, w, b,
          mem,          \* the memory of whichever it is
          content,      \* ghost: what it must hold, by the writes answered so far
          beats         \* ghost: transfers answered of the granted request

D == INSTANCE CBusDevice
A == INSTANCE CBusToAXI WITH saved_req <- axi_req

deviceVars == <<enable, tx>>
axiVars    == <<in_issue, axi_req, count, ar, aw, w, b>>
busVars    == <<vars, slave, deviceVars, axiVars, mem, content, beats>>

BusInit == /\ Init /\ iprivs = Privs
           /\ slave \in {"device", "axi"}
           /\ D!DeviceInit /\ A!AxiInit
           /\ mem = Memory /\ content = Memory
           /\ beats = 0

\* The address of transfer k of a request, and of the next one of the granted request.
WrapAddr(req, k) == LET n == req.len + 1
                    IN  (req.addr \div n) * n + ((req.addr + k) % n)
BeatAddr         == WrapAddr(saved_req, beats)

\* The masters keep their privilege; a write is done when its transfer is answered.
Observe(oresp) ==
    /\ UNCHANGED <<slave, iprivs>>
    /\ beats' = IF ~busy \/ Okay(oresp) THEN 0
                ELSE IF oresp.ready THEN beats + 1 ELSE beats
    /\ content' = IF busy /\ oresp.ready /\ saved_req.is_write
                  THEN [content EXCEPT ![BeatAddr] =
                            D!Stored(@, ireqs[index].data, ireqs[index].strobe)]
                  ELSE content

DeviceTick(next_enable) ==
    /\ slave = "device"
    /\ Step(D!eval_resp) /\ Observe(D!eval_resp)
    /\ D!DeviceCycle(oreq(ireqs), next_enable)
    /\ mem' = IF D!stores
              THEN [mem EXCEPT ![tx.addr] = D!Stored(@, oreq(ireqs).data, oreq(ireqs).strobe)]
              ELSE mem
    /\ UNCHANGED axiVars

AxiTick(handshake, effect) ==
    /\ slave = "axi"
    /\ Step(A!cresp(handshake)) /\ Observe(A!cresp(handshake))
    /\ A!AxiCycle(oreq(ireqs), handshake, effect)
    /\ UNCHANGED deviceVars

BusNext == \/ \E next_enable \in BOOLEAN : DeviceTick(next_enable)
           \/ \E handshake \in SUBSET A!Possible, effect \in BOOLEAN :
                 AxiTick(handshake, effect)

\* The device is enabled again and again (p_disable < 1); the AXI memory accepts,
\* answers and performs what it can.
BusFairness == /\ WF_busVars(DeviceTick(TRUE))
               /\ WF_busVars(AxiTick(A!Possible, aw.busy /\ w.busy))

BusSafety == BusInit /\ [][BusNext]_busVars
BusSpec   == BusSafety /\ BusFairness
-----------------------------------------------------------------------------
\* What the memory may answer at the end of this cycle, and the word it would give.
Answers == IF slave = "device" THEN {D!eval_resp}
           ELSE {A!cresp(handshake) : handshake \in SUBSET A!Possible}
Word    == IF slave = "device" THEN mem[tx.addr] ELSE mem[ar.addr]

(* Behind the arbiter both memories are one atomic memory: an answer goes  *)
(* to a master that waits for it, a read gives what the writes answered    *)
(* before have left, byte by byte, in the order of a wrapping burst, and   *)
(* its last transfer is the one the length says ("CBusDevice should match  *)
(* the behavior of module CBusToAXI", memory.h).                           *)
AtomicMemory == \A oresp \in Answers : oresp.ready =>
                    /\ busy
                    /\ oresp.last <=> beats = saved_req.len
                    /\ ~saved_req.is_write => Word = content[BeatAddr]

\* What makes AtomicMemory inductive.  The transaction of a request with k transfers
\* made; the one under way is that of the granted request, as far as it is answered.
Made(req, k) == [busy |-> TRUE, is_write |-> req.is_write, N |-> k + 1,
                 addr |-> WrapAddr(req, k), Start_Address |-> req.addr,
                 Number_Bytes |-> req.size, Burst_Length |-> req.len + 1]
Serving      == Made(saved_req, beats)

DeviceInv == slave = "device" => /\ mem = content
                                 /\ IF tx.busy THEN busy /\ tx = Serving ELSE beats = 0

\* The adapter has not answered all of the request it issues.
Answering == in_issue \intersect {"W", "R"} # {}

\* The adapter's request is the granted one until it is answered; a write may go on.
Issuing == /\ in_issue # {} => in_issue \subseteq A!next_issue(axi_req)
           /\ IF Answering THEN busy /\ axi_req = saved_req /\ count = saved_req.len - beats
              ELSE beats = 0

Reading == /\ "AR" \in in_issue => "R" \in in_issue /\ ~ar.busy /\ beats = 0
           /\ ar.busy => "R" \in in_issue /\ ar = Serving

\* A write that is answered is in w until it takes effect, and B outlasts it.
Writing == /\ "W" \in in_issue => "B" \in in_issue /\ beats = 0
           /\ "AW" \in in_issue => "B" \in in_issue
           /\ w.busy \/ aw.busy => "B" \in in_issue /\ ~b
           /\ w.busy => "W" \notin in_issue
           /\ aw.busy => "AW" \notin in_issue /\ aw.addr = axi_req.addr
           /\ b \in BOOLEAN
           /\ b => "B" \in in_issue /\ "W" \notin in_issue /\ "AW" \notin in_issue
           /\ content = IF w.busy
                        THEN [mem EXCEPT ![axi_req.addr] = A!Stored(@, w.data, w.strobe)]
                        ELSE mem

AxiInv == slave = "axi" => Issuing /\ Reading /\ Writing
MemInv == slave \in {"device", "axi"} /\ beats \in Nat /\ DeviceInv /\ AxiInv

(* Every request is granted, and so every one before it answered: the      *)
(* sanity checks of CBusDevice (the request is held for the whole          *)
(* transaction) never stop the simulation, and the adapter is never left   *)
(* waiting for a channel (busy and in_issue).                              *)
NoStarvation == \A i \in Inputs : Valid(ireqs[i]) ~> busy /\ index = i
=============================================================================
