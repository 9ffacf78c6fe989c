------------------------------- MODULE SimTop -------------------------------
(***************************************************************************)
(* SimTop.sv: the core and its memory path closed with the simulated RAM   *)
(* and timer, next to a reference machine that executes the same program   *)
(* one instruction at a time, as the Difftest the source instantiates does.*)
(* The program is any one that takes each instruction from CODE; a cell is *)
(* decided when it is first fetched.                                       *)
(***************************************************************************)
EXTENDS Core

CONSTANTS CODE,         \* the instructions to consider at each code address
          PTE,          \* the page table, by PTE address
          DADDR,        \* the physical address of the one data word
          IRQ           \* the timer line's possible values
ASSUME SimTopAssumption == /\ LANES = 4 /\ XMOD = Weight(LANES)
                           /\ BYTE \in Nat \ {0} /\ BYTE % 2 = 0
                           /\ \A pa \in DOMAIN CODE : CODE[pa] \subseteq Instr

VARIABLES prog, ram,
          isa,          \* ghost: the reference machine
          due           \* ghost: a trap taken at no instruction of its own

vars == <<pathVars, coreVars, prog, ram, isa, due>>

OK    == [ready |-> TRUE, last |-> TRUE, fault |-> FALSE]
Stop  == [op |-> "trap", imm |-> 0, csr |-> "none", fn |-> "none"]

-----------------------------------------------------------------------------
(* The memory.                                                             *)

\* A physical address is a page and an offset, or an untranslated address.
Phys(a) == (IF "ppn" \in DOMAIN a THEN a.ppn ELSE a.vpn0) * PAGE_SIZE + a.off

\* The word an access is in.
WordAddr(a) == (Phys(a) \div 4) * 4

\* The value of bytes, the least significant first.
ValueOf(bytes) == LET byte(l) == IF l \in DOMAIN bytes THEN bytes[l] ELSE 0
                  IN  byte(0) + BYTE * (byte(1) + BYTE * (byte(2) + BYTE * byte(3)))

\* What a code address holds (once decided), and what it may be decided to be.
InsnAt(pa)  == IF pa \in DOMAIN CODE THEN prog[pa] ELSE Stop
Decided(pa) == IF InsnAt(pa) = NoInstr THEN CODE[pa] ELSE {InsnAt(pa)}

Answering(dn_resp) == state = "FINAL_REQ" /\ dn_done(dn_resp)

\* The data on the bus in a cycle that ends a read.
ReadData(dn_resp) ==
    IF state \in Walking THEN {PTE[pte_addr_q]}
    ELSE IF ~Answering(dn_resp) THEN {NoInstr}
    ELSE CASE req_q.kind = "fetch" -> Decided(WordAddr(phys_addr_q))
           [] req_q.kind = "load"  -> {ValueOf(ram)}
           [] OTHER                -> {NoInstr}

RamCycle(dn_resp, data) ==
    /\ ram' = IF Answering(dn_resp) /\ req_q.kind = "store" /\ WordAddr(phys_addr_q) = DADDR
              THEN [l \in DOMAIN ram |-> IF l \in DOMAIN req_q.data THEN req_q.data[l] ELSE ram[l]]
              ELSE ram
    /\ prog' = IF Answering(dn_resp) /\ req_q.kind = "fetch"
                  /\ WordAddr(phys_addr_q) \in DOMAIN CODE
               THEN [prog EXCEPT ![WordAddr(phys_addr_q)] = data] ELSE prog

-----------------------------------------------------------------------------
(* The reference machine.                                                  *)

Sv39 == INSTANCE MMUWalk WITH pt <- PTE, asked <- NoRequest,
                              PageTables <- {PTE}, Satps <- {}

Seen(s, addr, kind) ==
    Sv39!Translate([addr |-> AddrOf(addr), kind |-> kind, data |-> NoData],
                   s.priv, s.csr.satp)
Faults(s, addr, kind) == Seen(s, addr, kind) = Sv39!PageFault

Raise(s, cause, pc, tval) ==
    [s EXCEPT !.pc = s.csr.mtvec, !.priv = PRV_M,
              !.csr = [@ EXCEPT !.mepc = pc, !.mcause = cause, !.mtval = tval,
                       !.mstatus = [mie |-> FALSE, mpie |-> s.csr.mstatus.mie,
                                    mpp |-> s.priv]]]

\* The bytes of an access, where they are in the word, and what is loaded of them.
Bytes(i)  == 0 .. mem_size(i) - 1
First(i)  == i.imm % 4
Load(s, i) ==
    LET bytes == [b \in Bytes(i) |-> s.ram[First(i) + b]]
        sign  == bytes[mem_size(i) - 1] \div (BYTE \div 2)
    IN  IF sign = 0 \/ load_unsigned(i) THEN ValueOf(bytes)
        ELSE ValueOf(bytes) + XMOD - Weight(mem_size(i))
Store(s, i) == [l \in DOMAIN s.ram |-> IF l - First(i) \in Bytes(i)
                                        THEN (s.x \div Weight(l - First(i))) % BYTE ELSE s.ram[l]]

Access(s, i) ==
    IF i.imm % mem_size(i) # 0
    THEN Raise(s, IF is_store(i) THEN "store misaligned" ELSE "load misaligned", s.pc, i.imm)
    ELSE IF Faults(s, i.imm, i.op)
    THEN Raise(s, IF is_store(i) THEN "store fault" ELSE "load fault", s.pc, i.imm)
    ELSE IF is_store(i)
    THEN [s EXCEPT !.pc = @ + 4,
                   !.ram = IF WordAddr(Seen(s, i.imm, "store")) = DADDR THEN Store(s, i) ELSE @]
    ELSE [s EXCEPT !.pc = @ + 4, !.x = Load(s, i)]

Execute(s, i) ==
    CASE i.op \in {"load", "store"} -> Access(s, i)
      [] i.op = "ecall" ->
            Raise(s, IF s.priv = PRV_U THEN "ecall U" ELSE "ecall M", s.pc, 0)
      [] i.op = "mret" ->
            [s EXCEPT !.pc = s.csr.mepc, !.priv = s.csr.mstatus.mpp,
                      !.csr.mstatus = [mie |-> @.mpie, mpie |-> TRUE, mpp |-> PRV_U]]
      [] i.op = "csr" ->
            [s EXCEPT !.pc = @ + 4, !.csr[i.csr] = CsrNew(i, @)]
      [] i.op = "trap" -> s
      [] OTHER ->
            [s EXCEPT !.x = Value(i, s.x),
                      !.pc = IF Taken(i, s.x) THEN Target(s.pc, i, s.x) ELSE @ + 4]

\* The reference executes only what the core has fetched.
Fetched(s) == IF Faults(s, s.pc, "fetch") THEN NoInstr
              ELSE InsnAt(WordAddr(Seen(s, s.pc, "fetch")))
Step(s)    == IF Fetched(s) = NoInstr THEN s ELSE Execute(s, Fetched(s))
Trapped(s) == /\ Fetched(s) # NoInstr
              /\ \/ Fetched(s).op = "ecall"
                 \/ Fetched(s).op \in {"load", "store"} /\ Step(s).pc # s.pc + 4

Illegal(s) == IF Fetched(s) = NoInstr THEN 0 ELSE Fetched(s).imm

\* A trap that retires no instruction: a fetch that faults, an illegal instruction,
\* or an interrupt.  In M mode an interrupt takes the place of the csrsi that lets
\* it in, and comes after it.
TakeDue(s, cause) ==
    CASE cause = "mti" -> Raise(s, cause, IF s.priv = PRV_M THEN s.pc + 4 ELSE s.pc, 0)
      [] cause = "illegal" -> Raise(s, cause, s.pc, Illegal(s))
      [] OTHER -> Raise(s, cause, s.pc, s.pc)

\* Commits drive the reference; a trap that is due waits for the instructions
\* before it.
Drained == ex_mem = NoOp /\ mem_wb = NoOp

ReferenceCycle(io) ==
    LET commits == mem_wb # NoOp /\ ~cpu_halt
        t       == Trap(io).cause
    IN  /\ isa' = IF commits THEN Step(isa)
                  ELSE IF due # "none" /\ Drained THEN TakeDue(isa, due)
                  ELSE isa
        /\ due' = IF t \in {"mti", "fetch misaligned", "fetch fault", "illegal"} THEN t
                  ELSE IF Drained \/ (commits /\ Trapped(isa)) THEN "none"
                  ELSE due

-----------------------------------------------------------------------------
Init == /\ CoreInit
        /\ prog = [pa \in DOMAIN CODE |-> NoInstr]
        /\ ram = [l \in 0 .. LANES - 1 |-> 0]
        /\ isa = [pc |-> PCINIT, x |-> 0, ram |-> ram, priv |-> PRV_M, csr |-> CsrReset]
        /\ due = "none"

\* Choices are offered only where the cycle looks at them.
Predictions == IF if_id.valid /\ is_branch(if_id.instr) THEN BOOLEAN ELSE {FALSE}
Lines       == IF csr.mie THEN IRQ ELSE {FALSE}

Cycle(dn_resp, md) ==
    \E data \in ReadData(dn_resp), irq \in Lines, taken \in Predictions :
    LET io == [dr |-> dresp(dn_resp, data), irq |-> irq, taken |-> taken, md |-> md]
    IN  /\ PathCycle(ctl(io), wb_is_trap, ex_mem, csr.satp, dn_resp, data)
        /\ CoreCycle(io)
        /\ RamCycle(dn_resp, data)
        /\ ReferenceCycle(io)

Asked   == dn_req # NoRequest
Working == muldiv_stall \/ muldiv.st = "busy"

\* Memory and the multiplier take their time.
Quiet   == (Asked \/ Working) /\ Cycle(NoResp, FALSE)
Answers == Cycle(IF Asked THEN OK ELSE NoResp, TRUE)
Reads   == Asked /\ Working /\ Cycle(OK, FALSE)
Mults   == Asked /\ Working /\ Cycle(NoResp, TRUE)

Next   == Quiet \/ Answers \/ Reads \/ Mults
Safety == Init /\ [][Next]_vars

\* The clock never stops, memory answers what it is asked, and the multiplier
\* finishes what it starts.
Fairness == WF_vars(Answers \/ Reads) /\ WF_vars(Answers \/ Mults)
Spec     == Safety /\ Fairness
-----------------------------------------------------------------------------
(* What is about to be committed is the reference's next instruction, with *)
(* the result the reference gives it, and registers never differ: no       *)
(* instruction is lost, repeated, taken from a wrong path or given a stale *)
(* operand (the pipeline registers' update, forwarding, flushes and        *)
(* redirects of core.sv).                                                  *)
CommitsMatch ==
    /\ x = isa.x
    /\ mem_wb # NoOp =>
          /\ mem_wb.pc = isa.pc
          /\ ~Faults(isa, isa.pc, "fetch") /\ mem_wb.instr = Fetched(isa)
          /\ Step(isa).x = IF mem_wb.reg_write THEN mem_wb.result ELSE x

(* Once the stages behind EX are empty, memory holds what the committed    *)
(* stores left: a store is performed once, and never for an instruction    *)
(* that was flushed or that faulted (mem.sv under core.sv's flushes).      *)
StoresMatch == Drained => ram = isa.ram

(* Between two instructions, the CSRs and the privilege are those of the   *)
(* reference: each trap is taken for the right instruction, with the right *)
(* cause, once; no CSR write is lost to a trap or undone by a late one     *)
(* (the trap chain and the write-back of CSRs in core.sv).                 *)
CsrsMatch == Drained /\ id_ex = NoOp /\ due = "none" =>
                csr = isa.csr /\ priv_mode = isa.priv

(* EX and MEM never hold instructions at the same time, so the suppression *)
(* of a wrong-path write-back never strikes one that should retire: what   *)
(* keeps suppress_wrong_path_wb harmless is the latency of fetch.          *)
NeverSuppressed == id_ex = NoOp \/ ex_mem = NoOp

(* When the predictor trains, the counter it reads (that of if_id's pc) is *)
(* the one it writes (that of id_ex's): predictor_bht computes cnt_next    *)
(* from idx and stores it at train_idx.                                    *)
TrainsItsOwn == bht_train_valid => if_id.pc = id_ex.pc

(* A fetch whose answer will be used was made with the privilege that      *)
(* holds now ("mmu_priv is updated early in the redirect cycle, so that    *)
(* the next fetch has the right privilege", Lab6 report, section 6).       *)
FetchPrivilege == fetch.req_pending_q /\ ~fetch.drop_resp_q => fetch.req_priv_q = priv_mode

(* The core keeps committing until it halts: no stall, flush or redirect   *)
(* starves the pipeline.                                                   *)
Retires == []<>(mem_wb # NoOp \/ cpu_halt)

(* An interrupt stops the program between two instructions: mepc names the *)
(* first one that has not retired ("the interrupt point never falls on a   *)
(* wrong instruction", Lab6 report, section 4.3; in M mode the csrsi that  *)
(* lets it in counts as retired).                                          *)
InterruptPoint == due = "mti" /\ Drained =>
                      csr.mepc = IF isa.priv = PRV_M THEN isa.pc + 4 ELSE isa.pc

(* The result an M instruction takes is that of its own operands: the      *)
(* unfinished one in id_ex is not displaced by another ("muldiv_stall      *)
(* freezes fetch and ID/EX, so that no new instruction overwrites the M    *)
(* instruction in id_ex", Lab1-extra report).                              *)
OwnResult == ex_passes /\ is_muldiv(id_ex.instr) => muldiv.a = id_ex.op
=============================================================================
