-------------------------------- MODULE Insn --------------------------------
(***************************************************************************)
(* Instructions, as decode.sv and execute.sv tell them apart.  One general *)
(* register x stands for the register file: an instruction reads it, writes*)
(* it, or neither.  An instruction is [op, imm, csr, fn]; its address, its *)
(* jump distance or its CSR operand is imm.                                *)
(***************************************************************************)
EXTENDS Common

CONSTANTS XMOD,         \* registers hold 0 .. XMOD - 1: a narrower XLEN
          ROOT          \* the page of the root page table satp may name

Op      == {"alu", "muldiv", "load", "store", "branch", "jal", "jalr", "csr", "ecall",
            "mret", "illegal", "trap"}
CsrName == {"mstatus", "mtvec", "mepc", "satp", "mie"}

\* mstatus is only set and cleared (csrsi and csrci), never written as a whole.
Instr == {i \in [op : Op, imm : Int, csr : CsrName \union {"none"},
                  fn : {"none", "b", "bu", "h", "hu", "write", "set", "clear"}] :
             i.op = "csr" => /\ i.csr \in CsrName
                             /\ i.csr = "mstatus" => i.fn \in {"set", "clear"}}

\* What a general register holds.
Reg == 0 .. XMOD - 1

is_branch(i) == i.op = "branch"
is_jump(i)   == i.op \in {"jal", "jalr"}
is_ctrl(i)   == is_branch(i) \/ is_jump(i)
is_load(i)   == i.op = "load"
is_store(i)  == i.op = "store"
is_muldiv(i) == i.op = "muldiv"
is_csr(i)    == i.op = "csr"

use_rs(i)    == i.op \in {"alu", "muldiv", "branch", "jalr", "store"}
reg_write(i) == i.op \in {"alu", "muldiv", "load"}

\* The access of a load or store: a byte, two, or the whole word.
mem_size(i)      == CASE i.fn \in {"b", "bu"} -> 1 [] i.fn \in {"h", "hu"} -> 2 [] OTHER -> 4
load_unsigned(i) == i.fn \in {"bu", "hu"}

-----------------------------------------------------------------------------
(* What an instruction computes from the register value v.                 *)

Value(i, v) == CASE i.op = "alu"    -> (v + i.imm) % XMOD
                 [] i.op = "muldiv" -> (v * v) % XMOD
                 [] OTHER           -> v

Taken(i, v) == is_jump(i) \/ (is_branch(i) /\ v # 0)

\* jalr clears the lowest bit, so a target may be misaligned by two.
Target(pc, i, v) == IF i.op = "jalr" THEN ((v + i.imm) \div 2) * 2 ELSE pc + i.imm

-----------------------------------------------------------------------------
(* The CSRs.  Of mstatus the fields the core acts on are kept; satp is     *)
(* bare or Sv39 with one root; mie enables the timer interrupt or not.     *)

CsrReset == [mstatus |-> [mie |-> FALSE, mpie |-> FALSE, mpp |-> PRV_U],
             mtvec |-> 0, mepc |-> 0, mcause |-> "none", mtval |-> 0,
             satp |-> [sv39 |-> FALSE, ppn |-> 0], mie |-> FALSE]

Status   == [mie : BOOLEAN, mpie : BOOLEAN, mpp : Priv]
CsrValue == Status \union [sv39 : BOOLEAN, ppn : {0, ROOT}] \union BOOLEAN \union Int

\* The value a CSR instruction gives its register, whose value was old.
CsrNew(i, old) ==
    CASE i.csr = "mstatus" /\ i.fn = "set"   -> [old EXCEPT !.mie = TRUE]
      [] i.csr = "mstatus" /\ i.fn = "clear" -> [old EXCEPT !.mie = FALSE]
      [] i.csr = "satp" -> [sv39 |-> i.imm # 0, ppn |-> IF i.imm # 0 THEN ROOT ELSE 0]
      [] i.csr = "mie"  -> i.imm # 0
      [] OTHER          -> i.imm
=============================================================================
