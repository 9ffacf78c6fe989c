------------------------------- MODULE Board -------------------------------
(***************************************************************************)
(* soc_top.sv: the memory path of VTop (FPGA build) under any core, with   *)
(* the memory of the board: crossbar, block RAM, and the UART on a clock   *)
(* RATIO times as fast.  Page 0 is RAM and page 1 the device; the page     *)
(* tables map a page to itself or not at all.                              *)
(***************************************************************************)
EXTENDS PathClients, Device, Sequences

CONSTANTS RATIO,        \* cycles of the board's clock in one of the CPU's
          BRAM_DELAY,
          TX_DATA, FINISH_ADDR, DADDR

\* The build for the board, whose clock is the faster one.
ASSUME BoardAssumption == RATIO \in Nat \ {0, 1} /\ ~VERILATOR /\ TX_DATA # FINISH_ADDR

VARIABLES counter, real_valid, ready_read, ram, douta,
          line          \* ghost: the tx line while the access on the bus lasts

Bram == INSTANCE BramWrapper WITH NoWord <- NoData

boardVars == <<clientVars, dev, Bram!bramVars, line>>

\* An address as the crossbar sees it; page tables are in RAM.
Phys(a) == IF "idx" \in DOMAIN a THEN <<"pte", a.table, a.idx>>
           ELSE IF "ppn" \in DOMAIN a THEN <<a.ppn, a.off>> ELSE <<a.vpn0, a.off>>

-----------------------------------------------------------------------------
(* cbus_crossbar: what the MMU asks goes to the RAM or to the device.      *)

valid    == dn_req # NoRequest
addr     == IF valid THEN Phys(dn_req.addr) ELSE DADDR
is_store == valid /\ dn_req.kind = "store"
to_ram   == valid /\ (Len(addr) = 3 \/ addr[1] = 0)

device_req == LET device_valid == valid /\ ~to_ram
              IN  [valid |-> device_valid,
                   tx    |-> device_valid /\ is_store /\ addr = TX_DATA,
                   fin   |-> device_valid /\ is_store /\ addr = FINISH_ADDR,
                   data  |-> IF valid THEN dn_req.data ELSE NoData]

\* The UART and the line after one cycle of the board's clock, and after the first n
\* since the last edge of the CPU's.
Tick(u) == LET d == DeviceStep(u.dev, device_req)
           IN  [dev  |-> d,
                line |-> IF ~valid THEN <<>>
                         ELSE IF tx_ready(u.dev) THEN u.line ELSE Append(u.line, d.txBit)]

uart[n \in 0 .. RATIO] ==
    IF n = 0 THEN [dev |-> dev, line |-> line]
    ELSE CHOOSE v \in {Tick(u) : u \in {uart[n - 1]}} : TRUE

\* What the CPU sees at its next edge, which is one of the board's as well.
ready == IF to_ram THEN Bram!ram_ready(is_store) ELSE tx_ready(uart[RATIO - 1].dev)
oresp == [ready |-> ready, last |-> ready, fault |-> FALSE]

-----------------------------------------------------------------------------
BoardInit == ClientsInit /\ DeviceInit /\ Bram!BramInit /\ line = <<>>

IsTx(op) == op # NoOp /\ op.is_store /\ Phys(AddrOf(op.mem_addr)) = TX_DATA

\* The core takes what fetch offers in its own time, by redirecting.
Kinds == {"none"} \union IF fetch_valid THEN {"redirect"} ELSE {}

\* One cycle of the CPU's clock: resp is what memory answers at its end, u the UART
\* then.  The program is over with its store to FINISH_ADDR.
BoardCycle(resp, u) ==
    \E dn_data \in Lines, satp \in Roots, kind \in Kinds :
        /\ \E pc \in PCs, priv \in Privs(kind) :
              PathStep(Control(kind, pc, priv), satp, resp, dn_data)
        /\ state' = "FINAL_REQ" => Phys(phys_addr_q') = Phys(req_q.addr)
        /\ u.dev.finish /\ ~mem_wait(ex_mem, dresp(resp, dn_data)) => ~IsTx(ex_mem')
        /\ Bram!BramCycle(to_ram, addr, is_store, device_req.data)
        /\ dev' = u.dev /\ line' = u.line

BoardNext == \E resp \in {oresp}, u \in {uart[RATIO]} : BoardCycle(resp, u)

\* The clocks never stop; nothing is assumed of the memory.
BoardSafety == BoardInit /\ [][BoardNext]_boardVars
BoardSpec   == BoardSafety /\ WF_boardVars(BoardNext)
-----------------------------------------------------------------------------
\* The access on the bus is answered at the coming edge of the CPU's clock.
Ends == valid /\ dn_done(oresp)

(* A read of RAM takes what the RAM holds at the very address it asks for, *)
(* the last store included.  bram_wrapper's answer lasts two cycles and    *)
(* the second one meets the next level of the walk (resp_armed_q in MMU).  *)
FreshAnswer == to_ram /\ ~is_store /\ Ends => douta = Bram!Content(addr)

\* A frame on the line: every bit for the same time.
Frame(c) == [k \in 1 .. BIT_INDEX_MAX * (BIT_TMR_MAX + 1) |->
                Bit(c, (k - 1) \div (BIT_TMR_MAX + 1))]

(* A store to TX_DATA is answered when its byte, and nothing else, has     *)
(* been on the line as one whole frame: no byte is lost or sent twice      *)
(* although the store is held for many cycles ("the UART's requests are    *)
(* not silently lost", Lab3 report, section 9).                            *)
OneByteEach == device_req.tx /\ Ends =>
                   uart[RATIO - 1].line = Frame(<<"cpu", dn_req.data>>)

(* The data port never starves fetch: every fetch request is answered,     *)
(* whatever loads and stores do, to slow RAM and slower device.            *)
FetchAnswered == fetch.req_pending_q ~> ~fetch.req_pending_q

(* Nor does fetch starve the data port; and no answer of RAM or UART, which *)
(* both last for few cycles, is missed for good: every memory instruction  *)
(* that waits in the stage leaves it.                                      *)
MemAnswered == pending ~> ~pending
=============================================================================
