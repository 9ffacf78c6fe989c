-------------------------------- MODULE Core --------------------------------
(***************************************************************************)
(* core.sv: the five pipeline stages, the CSRs and the trap logic, on top  *)
(* of the memory path.  A pipeline register whose valid bit is low is NoOp *)
(* (if_id keeps its old contents: the branch predictor looks at its pc).   *)
(* The parameter io is what one clock cycle brings from outside: dr, the   *)
(* data bus's response and data; irq, the timer line; taken, the           *)
(* prediction for the branch in decode; md, whether the multiplier         *)
(* finishes.                                                               *)
(***************************************************************************)
EXTENDS MemPath, Insn

VARIABLES if_id, id_ex, ex_mem, mem_wb, x, csr, priv_mode, mmu_priv,
          irq_active_prev, arch_pc_q, cpu_halt, muldiv

coreVars == <<if_id, id_ex, ex_mem, mem_wb, x, csr, priv_mode, mmu_priv,
              irq_active_prev, arch_pc_q, cpu_halt, muldiv>>

\* What the pipeline registers behind decode hold when they are valid.
IdEx  == [pc : Int, instr : Instr, op : Reg, pred_taken : BOOLEAN, pred_target : Int]
ExMem == [pc : Int, instr : Instr, reg_write : BOOLEAN, result : Reg,
          is_load : BOOLEAN, is_store : BOOLEAN, mem_size : {1, 2, 4},
          load_unsigned : BOOLEAN, mem_addr : Int, store_data : Reg, csr_we : BOOLEAN,
          csr_old : CsrValue \union {"none"}, csr_new : CsrValue \union {"none"}]
MemWb == [pc : Int, instr : Instr, reg_write : BOOLEAN, result : Reg,
          csr_we : BOOLEAN, csr_new : CsrValue \union {"none"}]

ASSUME CoreAssumption == /\ PCINIT \in Int /\ ROOT \in Int
                         /\ NoInstr \notin Instr
                         /\ NoOp \notin IdEx \union ExMem \union MemWb

\* The multiplier, seen as in MulDivUnit.
MulDiv == INSTANCE MulDivUnit WITH Operands <- 0 .. XMOD - 1, NoOperands <- 0

CoreInit == /\ PathInit
            /\ if_id = [valid |-> FALSE, pc |-> 0, instr |-> NoInstr]
            /\ id_ex = NoOp /\ ex_mem = NoOp /\ mem_wb = NoOp
            /\ x = 0
            /\ csr = CsrReset
            /\ priv_mode = PRV_M
            /\ mmu_priv = PRV_M
            /\ irq_active_prev = FALSE
            /\ arch_pc_q = PCINIT
            /\ cpu_halt = FALSE
            /\ MulDiv!UnitInit

Writes(op, reg) == op # NoOp /\ op.csr_we /\ op.instr.csr = reg

-----------------------------------------------------------------------------
(* Writeback, and the values the stages in flight have yet to write.       *)

wb_wen     == mem_wb # NoOp /\ mem_wb.reg_write
wb_is_trap == mem_wb # NoOp /\ mem_wb.instr.op = "trap"

\* The CSR register reg as the instruction in EX sees it.
csr_fwd(reg) == IF Writes(ex_mem, reg) THEN ex_mem.csr_new
                ELSE IF Writes(mem_wb, reg) THEN mem_wb.csr_new
                ELSE csr[reg]

\* The multiplier works on the operand it took, not on that of the instruction in EX.
ex_result == Value(id_ex.instr, IF is_muldiv(id_ex.instr) THEN muldiv.a ELSE id_ex.op)

\* The register as the instruction in decode sees it.
id_op_pre ==
    IF ~use_rs(if_id.instr) THEN x
    ELSE IF id_ex # NoOp /\ reg_write(id_ex.instr) /\ ~is_load(id_ex.instr)
            /\ (is_muldiv(id_ex.instr) => muldiv.st = "ready")
    THEN ex_result
    ELSE IF ex_mem # NoOp /\ ex_mem.reg_write /\ ~ex_mem.is_load THEN ex_mem.result
    ELSE IF wb_wen THEN mem_wb.result
    ELSE x

\* The instruction in decode needs the value a load has not brought yet.
load_use_hazard == /\ if_id.valid /\ use_rs(if_id.instr)
                   /\ \/ id_ex # NoOp /\ is_load(id_ex.instr)
                      \/ ex_mem # NoOp /\ ex_mem.is_load

-----------------------------------------------------------------------------
(* Execute.                                                                *)

\* Mutant of ex_passes: a multiplication passes before it is ready.
ex_passes_early == id_ex # NoOp

muldiv_stall == id_ex # NoOp /\ is_muldiv(id_ex.instr) /\ muldiv.st # "ready"
ex_passes    == id_ex # NoOp /\ (is_muldiv(id_ex.instr) => muldiv.st = "ready")

ex_taken  == Taken(id_ex.instr, id_ex.op)
ex_target == Target(id_ex.pc, id_ex.instr, id_ex.op)

branch_mispredict ==
    /\ id_ex # NoOp /\ is_ctrl(id_ex.instr)
    /\ \/ ex_taken # id_ex.pred_taken
       \/ ex_taken /\ ex_target # id_ex.pred_target

\* Mutant of branch_correct_pc: the fall-through is forgotten.
branch_correct_target == ex_target

branch_correct_pc == IF ex_taken THEN ex_target ELSE id_ex.pc + 4

csr_redirect_valid == id_ex # NoOp /\ is_csr(id_ex.instr) /\ id_ex.instr.csr = "satp"

\* The predictor trains with the outcome, at the entry of if_id's pc.
bht_train_valid == id_ex # NoOp /\ is_branch(id_ex.instr)

-----------------------------------------------------------------------------
(* Traps and interrupts.                                                   *)

waits(io) == mem_wait(ex_mem, io.dr)

ecall_fire(io) == id_ex # NoOp /\ id_ex.instr.op = "ecall" /\ ~waits(io) /\ ~cpu_halt
mret_fire(io)  == id_ex # NoOp /\ id_ex.instr.op = "mret" /\ ~waits(io) /\ ~cpu_halt
illegal_fire(io) == if_id.valid /\ if_id.instr.op = "illegal" /\ ~waits(io) /\ ~cpu_halt
mem_fault_fire(io) ==
    out_valid(ex_mem, io.dr) /\ out_fault(ex_mem, io.dr) /\ ~cpu_halt
mem_misalign_fire(io) ==
    out_valid(ex_mem, io.dr) /\ out_misaligned(ex_mem, io.dr) /\ ~cpu_halt

\* Neither of these two waits for an older memory access.
instr_fault_fire    == fetch_fault /\ ~cpu_halt
instr_misalign_fire == fetch_valid /\ fetch_pc % 4 # 0 /\ ~cpu_halt
ifetch_trap_flush   == instr_fault_fire \/ instr_misalign_fire

\* The m_trap window: csrsi mstatus, MIE in MEM opens the window itself.
csrsi_opens_mie_ex == /\ Writes(ex_mem, "mstatus")
                      /\ ex_mem.csr_new.mie /\ ~ex_mem.csr_old.mie
mie_effective  == csr.mstatus.mie \/ csrsi_opens_mie_ex
irq_active(io) == (priv_mode # PRV_M \/ mie_effective) /\ io.irq /\ csr.mie

\* U mode: a rising edge.  M mode: only the window.
interrupt_fire(io) ==
    /\ irq_active(io) /\ ~waits(io) /\ ~cpu_halt
    /\ IF priv_mode = PRV_M THEN csrsi_opens_mie_ex ELSE ~irq_active_prev

\* Mutant of arch_pc_next: the window returns to the csrsi itself.
arch_pc_next_same == IF csrsi_opens_mie_ex THEN ex_mem.pc
                     ELSE IF id_ex # NoOp THEN id_ex.pc
                     ELSE IF ex_mem # NoOp THEN ex_mem.pc
                     ELSE IF if_id.valid THEN if_id.pc
                     ELSE IF fetch_valid THEN fetch_pc
                     ELSE arch_pc_q

arch_pc_next == IF csrsi_opens_mie_ex THEN ex_mem.pc + 4
                ELSE IF id_ex # NoOp THEN id_ex.pc
                ELSE IF ex_mem # NoOp THEN ex_mem.pc
                ELSE IF if_id.valid THEN if_id.pc
                ELSE IF fetch_valid THEN fetch_pc
                ELSE arch_pc_q

NoTrap == [cause |-> "none"]
TrapOf(cause, pc, tval) == [cause |-> cause, pc |-> pc, tval |-> tval]

\* The trap of this cycle, the highest priority first.
Trap(io) ==
    LET op == cur(ex_mem)
    IN  IF interrupt_fire(io) THEN TrapOf("mti", arch_pc_next, 0)
        ELSE IF mem_fault_fire(io)
        THEN TrapOf(IF op.is_store THEN "store fault" ELSE "load fault", op.pc, op.mem_addr)
        ELSE IF mem_misalign_fire(io)
        THEN TrapOf(IF op.is_store THEN "store misaligned" ELSE "load misaligned",
                    op.pc, op.mem_addr)
        ELSE IF instr_misalign_fire THEN TrapOf("fetch misaligned", fetch_pc, fetch_pc)
        ELSE IF instr_fault_fire THEN TrapOf("fetch fault", fetch_pc, fetch_pc)
        ELSE IF illegal_fire(io) THEN TrapOf("illegal", if_id.pc, if_id.instr.imm)
        ELSE IF ecall_fire(io)
        THEN TrapOf(IF priv_mode = PRV_U THEN "ecall U" ELSE "ecall M", id_ex.pc, 0)
        ELSE NoTrap

trap_redirect_valid(io) == mret_fire(io) \/ Trap(io) # NoTrap

\* mepc and mtvec as an older CSR write in flight leaves them.
trap_redirect_pc(io) == IF mret_fire(io) THEN csr_fwd("mepc") ELSE csr_fwd("mtvec")

\* Mutant of TrapStatus: the window's enable is stacked.
TrapStatusOpen == [mie |-> FALSE, mpie |-> mie_effective, mpp |-> priv_mode]

\* On a trap the interrupt enable is stacked as the register has it, not as the
\* window opens it.
TrapStatus == [mie |-> FALSE, mpie |-> csr.mstatus.mie, mpp |-> priv_mode]
MretStatus == [mie |-> csr.mstatus.mpie, mpie |-> TRUE, mpp |-> PRV_U]

-----------------------------------------------------------------------------
(* Redirects and flushes.                                                  *)

decode_pred_redirect(io) == /\ if_id.valid /\ ~cpu_halt
                            /\ \/ is_jump(if_id.instr)
                               \/ is_branch(if_id.instr) /\ io.taken
pipeline_flush_young(io) ==
    branch_mispredict \/ csr_redirect_valid \/ trap_redirect_valid(io)

\* An instruction in MEM directly before the one in EX counts as wrong path when
\* the latter flushes, except around a write of mstatus.
ex_mem_is_wrong_path == /\ ex_mem # NoOp /\ id_ex # NoOp
                        /\ ex_mem.pc + 4 = id_ex.pc
                        /\ ~Writes(ex_mem, "mstatus")

\* An interrupt takes the place of the csrsi or csrci it meets in MEM.
csr_replaced(io) == interrupt_fire(io) /\ Writes(ex_mem, "mstatus")

suppress_wrong_path_wb(io) ==
    pipeline_flush_young(io) /\ ex_mem_is_wrong_path /\ ~interrupt_fire(io)

fetch_redirect_valid(io) ==
    /\ \/ ecall_fire(io) \/ illegal_fire(io) \/ mem_fault_fire(io)
       \/ mem_misalign_fire(io) \/ interrupt_fire(io) \/ mret_fire(io)
       \/ csr_redirect_valid \/ branch_mispredict \/ decode_pred_redirect(io)
    /\ ~cpu_halt

dec_pred_target == Target(if_id.pc, if_id.instr, id_op_pre)

redirect_pc(io) == IF trap_redirect_valid(io) THEN trap_redirect_pc(io)
                   ELSE IF csr_redirect_valid THEN id_ex.pc + 4
                   ELSE IF branch_mispredict THEN branch_correct_pc
                   ELSE IF decode_pred_redirect(io) THEN dec_pred_target
                   ELSE 0

fetch_accept(io) == /\ fetch_valid /\ ~cpu_halt /\ ~waits(io)
                    /\ ~fetch_redirect_valid(io) /\ ~ifetch_trap_flush
                    /\ ~muldiv_stall

ctl(io) == [stop_fetch |-> cpu_halt, flush |-> ifetch_trap_flush,
            redirect_valid |-> fetch_redirect_valid(io),
            redirect_pc |-> redirect_pc(io), fetch_accept |-> fetch_accept(io),
            current_priv |-> mmu_priv]

-----------------------------------------------------------------------------
(* What the pipeline registers take over.                                  *)

\* Mutant of Bubble: the pc goes as well.
BubbleCleared == [valid |-> FALSE, pc |-> 0, instr |-> NoInstr]

\* An instruction leaves if_id for nothing: its pc stays behind.
Bubble == [if_id EXCEPT !.valid = FALSE]

Decoded(io) ==
    LET pred == is_jump(if_id.instr) \/ (is_branch(if_id.instr) /\ io.taken)
    IN  [pc |-> if_id.pc, instr |-> if_id.instr, op |-> id_op_pre,
         pred_taken |-> pred,
         pred_target |-> IF pred THEN dec_pred_target ELSE if_id.pc + 4]

\* A trap in this cycle takes the register write from the instruction in EX, and
\* nothing else.
Executed(io) ==
    LET i == id_ex.instr
    IN  [pc |-> id_ex.pc, instr |-> i,
         reg_write |-> reg_write(i) /\ Trap(io) = NoTrap,
         result |-> ex_result,
         is_load |-> is_load(i), is_store |-> is_store(i),
         mem_size |-> mem_size(i), load_unsigned |-> load_unsigned(i), mem_addr |-> i.imm, store_data |-> id_ex.op,
         csr_we |-> is_csr(i),
         csr_old |-> IF is_csr(i) THEN csr_fwd(i.csr) ELSE "none",
         csr_new |-> IF is_csr(i) THEN CsrNew(i, csr_fwd(i.csr)) ELSE "none"]

\* A load that fails writes nothing, and what it would write is of no account.
Accessed(io) ==
    LET op == cur(ex_mem)
    IN  [pc |-> op.pc, instr |-> op.instr,
         reg_write |-> out_reg_write(ex_mem, io.dr),
         result |-> IF op.is_load /\ out_reg_write(ex_mem, io.dr)
                    THEN load_result(op, io.dr.data) ELSE op.result,
         csr_we |-> ex_mem.csr_we, csr_new |-> ex_mem.csr_new]

-----------------------------------------------------------------------------
(* One clock cycle: the registers in the groups core.sv updates them in.   *)

\* Mutant of PrivCycle: no early update.
PrivLate(io) == mmu_priv' = priv_mode

PrivCycle(io) ==
    mmu_priv' = IF id_ex # NoOp /\ fetch_redirect_valid(io) /\ id_ex.instr.op = "mret"
                THEN csr.mstatus.mpp
                ELSE IF /\ fetch_redirect_valid(io)
                        /\ \/ Trap(io) # NoTrap
                           \/ id_ex # NoOp /\ id_ex.instr.op = "ecall"
                THEN PRV_M
                ELSE priv_mode

\* mret, then a trap, then the CSR instruction in WB.
CsrCycle(io) ==
    LET t == Trap(io)
    IN  IF mret_fire(io)
        THEN /\ csr' = [csr EXCEPT !.mstatus = MretStatus]
             /\ priv_mode' = csr.mstatus.mpp
        ELSE IF t # NoTrap
        THEN /\ csr' = [csr EXCEPT !.mepc = t.pc, !.mcause = t.cause, !.mtval = t.tval,
                                   !.mstatus = TrapStatus]
             /\ priv_mode' = PRV_M
        ELSE /\ csr' = IF mem_wb # NoOp /\ mem_wb.csr_we
                       THEN [csr EXCEPT ![mem_wb.instr.csr] = mem_wb.csr_new]
                       ELSE csr
             /\ UNCHANGED priv_mode

IrqCycle(io) ==
    irq_active_prev' = IF waits(io) THEN irq_active_prev
                       ELSE interrupt_fire(io) \/ irq_active(io)

\* The multiplier takes the operand of the M instruction in EX and finishes in its
\* own time, whatever becomes of that instruction.
MulDivCycle(io) == MulDiv!UnitCycle(muldiv_stall, id_ex.op, io.md)

\* The halting instruction retires: the pipeline empties for good.
Halt == /\ wb_is_trap
        /\ cpu_halt' = TRUE
        /\ if_id' = Bubble
        /\ id_ex' = NoOp /\ ex_mem' = NoOp /\ mem_wb' = NoOp

\* The memory stage holds the pipeline.
Wait(io) == /\ ~wb_is_trap /\ waits(io)
            /\ mem_wb' = NoOp
            /\ UNCHANGED <<if_id, id_ex, ex_mem, cpu_halt>>

Advance(io) ==
    /\ ~wb_is_trap /\ ~waits(io)
    /\ UNCHANGED cpu_halt
    /\ mem_wb' = IF \/ suppress_wrong_path_wb(io)
                    \/ csr_replaced(io)
                    \/ ~out_valid(ex_mem, io.dr)
                 THEN NoOp
                 ELSE Accessed(io)
    /\ ex_mem' = IF ex_passes /\ ~suppress_wrong_path_wb(io) THEN Executed(io) ELSE NoOp
    /\ IF pipeline_flush_young(io)
       THEN id_ex' = NoOp /\ if_id' = Bubble
       ELSE IF decode_pred_redirect(io)
       THEN id_ex' = Decoded(io) /\ if_id' = Bubble
       ELSE IF load_use_hazard
       THEN id_ex' = NoOp /\ UNCHANGED if_id
       ELSE IF muldiv_stall
       THEN UNCHANGED <<id_ex, if_id>>
       ELSE /\ id_ex' = IF if_id.valid THEN Decoded(io) ELSE NoOp
            /\ if_id' = IF fetch_accept(io)
                        THEN [valid |-> TRUE, pc |-> fetch_pc, instr |-> fetch_instr]
                        ELSE Bubble

RegisterCycle == x' = IF wb_wen THEN mem_wb.result ELSE x

CoreCycle(io) ==
    /\ RegisterCycle
    /\ arch_pc_q' = arch_pc_next
    /\ PrivCycle(io)
    /\ CsrCycle(io)
    /\ IrqCycle(io)
    /\ MulDivCycle(io)
    /\ Halt \/ Wait(io) \/ Advance(io)
=============================================================================
