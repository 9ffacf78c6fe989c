------------------------------ MODULE MemStage ------------------------------
(***************************************************************************)
(* mem.sv: the memory stage.  In the first cycle of a memory instruction   *)
(* the request comes straight from ex_mem; from the second on it comes     *)
(* from the pend_* copy, with the privilege of the first.  The fields of   *)
(* an instruction in the stage are those of ex_mem; pend is the copy.      *)
(***************************************************************************)
EXTENDS Common, Integers, Sequences

CONSTANTS NoOp,         \* ex_mem when it holds no valid instruction
          LANES, BYTE   \* the bytes of a bus word, and the values a byte has

VARIABLES pending, pend, mem_priv_q, mem_ok_prev_q

memVars == <<pending, pend, mem_priv_q, mem_ok_prev_q>>

\* An instruction in the stage: in is ex_mem (NoOp when not valid).
cur(in)     == IF pending THEN pend ELSE in
IsMem(op)   == op # NoOp /\ (op.is_load \/ op.is_store)
cur_is_mem(in)      == IsMem(cur(in))
addr_aligned(op)    == op.mem_addr % op.mem_size = 0
addr_misaligned(in) == cur_is_mem(in) /\ ~addr_aligned(cur(in))

\* Only the first cycle of a response counts.
resp_fire(in, dresp) == cur_is_mem(in) /\ dresp.data_ok /\ ~mem_ok_prev_q

cur_done(in, dresp) == \/ ~cur_is_mem(in)
                       \/ resp_fire(in, dresp)
                       \/ dresp.fault
                       \/ addr_misaligned(in)

\* Mutants: a misaligned access is sent out as well; the privilege is not kept.
dreq_valid_any(in)               == cur_is_mem(in)
dreq_priv_now(current_priv)      == current_priv

mem_wait(in, dresp)      == cur_is_mem(in) /\ ~cur_done(in, dresp)
dreq_valid(in)           == cur_is_mem(in) /\ ~addr_misaligned(in)
dreq_priv(current_priv)  == IF pending THEN mem_priv_q ELSE current_priv
out_valid(in, dresp)     == cur(in) # NoOp /\ cur_done(in, dresp)
out_fault(in, dresp)     == cur_is_mem(in) /\ dresp.fault
out_misaligned(in, dresp) == addr_misaligned(in) /\ cur_done(in, dresp)
out_reg_write(in, dresp) == /\ cur(in).reg_write
                            /\ ~out_fault(in, dresp)
                            /\ ~addr_misaligned(in)

\* What a one in lane n of a bus word is worth (a word has four lanes at most).
Weight(n) == <<1, BYTE, BYTE * BYTE, BYTE * BYTE * BYTE, BYTE * BYTE * BYTE * BYTE>>[n + 1]

\* The lanes a store writes, and what it puts on them.
byte_off(op)           == op.mem_addr % LANES
shifted_strobe(op)     == byte_off(op) .. byte_off(op) + op.mem_size - 1
shifted_store_data(op) == (op.store_data * Weight(byte_off(op))) % Weight(LANES)
dreq_data(op)          == [l \in shifted_strobe(op) |-> (shifted_store_data(op) \div Weight(l)) % BYTE]

\* What a load takes of the bus word: its bytes, extended.
load_result(op, data) ==
    LET values == Weight(op.mem_size)
        low    == (data \div Weight(byte_off(op))) % values
    IN  IF op.load_unsigned \/ low < values \div 2 THEN low ELSE low + Weight(LANES) - values

MemInit == /\ pending = FALSE
           /\ pend = NoOp
           /\ mem_priv_q = PRV_M
           /\ mem_ok_prev_q = FALSE

-----------------------------------------------------------------------------
(* One clock cycle.                                                        *)

\* The halting instruction in write-back clears the stage.
MemFlush == /\ pending' = FALSE
            /\ mem_priv_q' = PRV_M
            /\ mem_ok_prev_q' = FALSE
            /\ UNCHANGED pend

\* A memory instruction that is not answered in its first cycle is copied.
captures(in, dresp) == /\ ~pending /\ IsMem(in) /\ addr_aligned(in)
                       /\ ~resp_fire(in, dresp) /\ ~dresp.fault

releases(in, dresp) == pending /\ (resp_fire(in, dresp) \/ dresp.fault)

MemCapture(in, dresp, current_priv) ==
    /\ captures(in, dresp)
    /\ pending' = TRUE
    /\ pend' = in
    /\ mem_priv_q' = current_priv
    /\ mem_ok_prev_q' = dresp.data_ok

MemRelease(in, dresp) == /\ releases(in, dresp)
                         /\ pending' = FALSE
                         /\ mem_ok_prev_q' = dresp.data_ok
                         /\ UNCHANGED <<pend, mem_priv_q>>

MemKeep(in, dresp) == /\ ~captures(in, dresp) /\ ~releases(in, dresp)
                      /\ mem_ok_prev_q' = dresp.data_ok
                      /\ UNCHANGED <<pending, pend, mem_priv_q>>

MemCycle(flush, in, dresp, current_priv) ==
    \/ flush /\ MemFlush
    \/ ~flush /\ \/ MemCapture(in, dresp, current_priv)
                 \/ MemRelease(in, dresp)
                 \/ MemKeep(in, dresp)
=============================================================================
