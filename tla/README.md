# TLA+ models of the arch_2026 CPU

The repository is a five-stage, in-order RV64 processor in SystemVerilog with Sv39 paging,
machine and user mode, and timer interrupts, together with the wrappers that run it under
Verilator and on a Basys 3 board, the memories it runs against and a test bench. The modules
of the hardware model it at the level of the clock
cycle: a variable is a register (named as in the source), an operator is a wire, and an
action is what one rising edge does. The combinational inputs of a cycle that come from
outside (the answer of memory, the timer line, a branch prediction, the end of a division)
are parameters, chosen with `\E`. The modules of the C++ test bench have one action for each
tick of the simulation and one for each step of its main thread, of its UART thread, and of the
processes of its worker pool.

## 1. The system

| Part | State it keeps | What happens to it | Module |
|---|---|---|---|
| `CBusArbiter.sv` | `busy, index, grant_ptr, saved_req, saved_priv` | grant, hold, release, idle | `CBusArbiter` |
| `MMU.sv` | `state, req_q, pte_addr_q, phys_addr_q, priv_mode_q, satp_q, resp_armed_q` | accept, check, three levels of walk, access, fault | `MMU` |
| `fetch.sv` | the record `fetch`, one field per register | start a request, take or drop an answer, redirect, flush, hand over | `Fetch` |
| `mem.sv` | `pending, pend, mem_priv_q, mem_ok_prev_q` | capture, wait, release, flush | `MemStage` |
| `IBusToCBus`, `DBusToCBus`, the wiring of `SimTop`/`VTop` | none | combinational | `MemPath` |
| `decode.sv`, `execute.sv` | none | class of an instruction, value, branch target | `Insn` |
| `core.sv`, `writeback.sv`, `regfile.sv` | pipeline registers, CSRs, privilege, `irq_active_prev`, registers | every stage, every cycle | `Core` |
| `muldiv.sv` | `state`, the operands, `iter_q`, `rem_q`, `quot_q`, `div_a`, `div_b`, the signs, `ready_q` | start, iterate, end | `MulDiv`; abstractly `MulDivUnit` |
| `CBusDevice` (C++) over a `BlockMemory` | `enable`, the transaction, words | begin, transfer, rest, disabled | `CBusDevice`, in `SimBus` |
| `CBusToAXI.sv`, an AXI memory (external) | `in_issue, saved_req, count`; the channels | latch, issue; accept, answer, take effect | `CBusToAXI`, in `SimBus` |
| `cbus_crossbar.sv`, `bram_wrapper.sv` | `counter, real_valid, ready_read`, the block RAM | count, access, answer | `BramWrapper`, in `Board` |
| `device.sv` | the UART transmitter, `putchar`, `finish`, `idx` | one cycle of the board's clock | `Device`, in `Board` |
| `run_parallel` of `testbench.cpp` | master, workers, two pipes each | fork, select, serve, fail, close, reap; ask, run, abort, leave | `RunParallel` |
| `bus.h`: `LoadOp`, `DBusGen`, `DBusPipelineGen` | `ongoing`, the request port, the variables loaded into | submit, tick, wait for one access, fence | `LoadOp`, `DBusPipeline`; abstractly `SerialMemory` |
| `memory.cpp`, `confreg.cpp` with its UART thread | words; `ctx`, `ctx0`, `changes`, the registers, `ififo`, the pty | load, store, sync, reset; `fgetc` and push | `Confreg`, in `Soc` |
| `model.cpp`: `install_soc`, `checkout_confreg`, the status line | `_current_num`, `char_buffer` | look at Confreg once in a tick, stop the simulation | `Soc` |
| `run_serial`, hooks, pipelines in tests | where the test is | reset, body, fence, next test | `Testbench` |
| RAM, timer (`RAMHelper2`, outside the repository) | code, one data word | answers at any time | `SimTop` |
| `predictor_bht.sv` | counters | abstracted: any prediction | `SimTop` |
| the rest of the harness: command line, logging, tracing, comparison of traces | | not modelled | |
| `CBusMultiplexer.sv`, `SimpleArbiter.sv` | | not modelled: nothing instantiates them | |

**Interaction.** `core` drives fetch with a redirect (`redirect_valid`, `redirect_pc`), a flush
(fetch faults only), an accept and a privilege. Fetch and the memory stage each hold a
request until its answer; the arbiter gives the one bus to one of them at a time and holds
request and privilege; the MMU holds them again, walks, and performs the access. Answers
come back through the same chain in the cycle they are made. Nothing can be cancelled:
a redirect during a fetch lets the fetch finish and drops the answer, and a trap during a
division lets the division finish (and, as the run `stale_quotient` shows, does not drop its
answer).

**What is hard.** In the processor what interleaves is a program, memory of
any latency, a divider of any latency, a predictor and a timer; on the board also the phase
of a faster clock. In the software it is the worker pool, processes and pipes, and in
a test the main thread, the simulated device that pauses at random, and the thread that reads the
UART's input. The hazards (in `PROJECT.json`, each at its line) are answers that arrive after the question has
changed; registers read in one cycle and used in a later one (privilege, satp, CSRs, operands);
several traps, an interrupt and a CSR write in one cycle; steps cut in half by a flush; ready
pulses that last for a few cycles and are met by the next request; a worker that dies with
work in hand; accesses queued on a pipeline whose answers belong to the one before; what one tick
collects and the next publishes; a test that starts over the remains of another; and the liveness questions, bus starvation, pipeline stall and a pool that hangs.

## 2. Modules

Base: `Common` (privileges, the CBus response), `Insn` (instructions, CSR values).

- `CBusArbiter`, closed by `ArbiterClients` with masters that keep a request stable until it is
  answered, and any answer at all. `overtaken` is a history variable. Proofs in `SimBusProofs`.
- `SimBus` puts a memory under `ArbiterClients`: `CBusDevice`, the memory of the C++ test bench,
  or `CBusToAXI` over an AXI memory, which accepts, answers and performs writes when it likes and
  is external. `AXITransaction` is what both know of a burst. The arbiter is directly above the
  memory, without the MMU of `VTop`, and latches a request whole; so a write has one data word
  and is a single beat, and the wrapping burst is a read. A failed sanity check of `CBusDevice`
  stops the simulation: it is a step that does not exist, which `NoStarvation` would notice.
  `eval_req`'s `ntx` equals `tx` at every edge and is not a variable. The proof that `SimBus`
  implements `ArbiterClients` is in `SimBusProofs` too.
- `MMU`, closed by `MMUWalk` with an arbitrary requester, privilege and satp that change in
  every cycle, and a memory that holds a page table `pt`. `asked` is a history variable.
  `Translate` is the reference: Sv39 read off the whole table at once. Proofs in `MMUProofs`.
- `Fetch`, `MemStage` and the two above are composed by `MemPath`, which has one action,
  `PathCycle`: all of them take the same clock edge. `PathClients` adds the instruction in `ex_mem`
  and what a core drives towards fetch; its invariants hold under any core and any memory.
  `MemPathEnv` closes it with both: redirects, flushes and privilege and satp changes in every cycle,
  and answers at any time. Proofs in `MemPathProofs`.
- `Board` closes `PathClients` in the FPGA build with the board: the crossbar, `BramWrapper` and
  `Device`. One action is one cycle of the CPU's clock, in which the UART makes `RATIO` steps
  (`uart[n]` is the UART after n of them); both clocks come from one source. Memory is not
  free here: its answer is computed, and FreshAnswer compares it with the RAM. The core is a
  program of any loads and stores, any privilege, any redirects; page tables map a page to
  itself or not at all, and the walk is given any entry. After its store to FINISH_ADDR the program
  writes no more to the UART, which is then sending a message of its own. Proofs in `MemPathProofs`. The counter and the switches (read only), the LEDs, and
  `bram_wrapper`'s burst counter (every request of `VTop` is a single beat) are left out, and so
  is a reset during operation.
- `RunParallel` is the master and the workers of `run_parallel`, each a process that stops at
  every system call. A worker inherits the write ends opened before it was forked and never
  closes them, so `EndOfFile` depends on the workers after it. A failing test aborts its process.
  The assertions are evaluated; compiled with NDEBUG the worker's `write`, which is inside
  one, would vanish (this is the mutant `AskNothing`, under which the pool hangs). `run_serial`,
  hooks and defer lists are left out.
- `Testbench` is a run of `run_serial`: tests one after the other, each reset by the pretest hook
  as the example in `testbench.h` does, each any sequence of its calls on a `DBusPipeline`,
  mixed with ticks, fences and waiting accesses; the pipeline's destructor fences. `test` is the
  kind of the run (which calls, how many characters are typed); it never changes.
  `Soc` is the simulated board of `model.cpp` below the bus: `CBusDevice`, the router over a
  block memory that is seen at two places, and `Confreg` with its UART thread. `LoadOp` puts the
  bytes of an access on the lanes of the bus; a 64-bit word is the function of its bytes. The class
  that derives from `ModelBase` is outside the repository. What `model.h` tells of it is that a tick
  answers the request, evaluates it, synchronises the devices and checks Confreg; in which order it
  synchronises the two is left open (`sync_order`), and every property holds in both orders.
  `SerialMemory` is what a test may rely on, and has no lanes, words, bus or pauses: `Testbench`
  implements it (`InProgramOrder`). The ghosts `got, said, sent, nums` are what the program read and
  wrote at the devices, `fresh` that no tick has been since the reset. Proofs in `TestbenchProofs`.
  A failed assertion of the code ends the run (`mismatch` of an `expect`, `stopped` of the monitor); one
  inside a device is a tick that cannot happen, which `WaitsEnd` would notice.
- `Core` adds the pipeline, the CSRs and the traps (`CoreCycle`). `SimTop` closes it with
  memory and timer and runs it beside a reference machine, `isa`, that executes the same
  program an instruction at a time, as the Difftest instance in `core.sv` does in simulation.
  A cell of code is any instruction of its set in `CODE`, decided when first fetched, so one
  run covers every program over those sets. Proofs in `SimTopProofs`.
- `MulDiv` is the multiplier and divider at a width of `2 * HALF` bits, and `MExec` closes it with
  EX: the operands `core.sv` prepares for it, the width correction of `execute.sv`, and a memory
  stage that may hold the pipeline in any cycle. `MulDivUnit` is what `Core` needs to know of it
  (busy for some time, ready for one cycle, answers for the operands it latched, cannot be called
  off): `Core` instantiates it, and `MExec` is checked to implement it (`KeepsPromise`). `Pow2` is a
  recursive function instead of `2^n`, of which the provers know nothing. Proofs in `MExecProofs`.
- `MC*` modules hold the finite values. `CODE` in `MCSimTop` is the set of programs.

**Correspondence in `Core`.** The `always_ff` block of `core.sv` is split by the register it
updates: `PrivCycle`, `CsrCycle`, `IrqCycle`, and for the pipeline `Halt`, `Wait` and `Advance`,
the three arms of its last `if`. The order of arms is that of the source; `Trap(io)` is the trap
chain of lines 1004 to 1048 and `TrapStatus`/`MretStatus` the two next values of mstatus. An
invalid pipeline register is `NoOp`, except that `if_id` keeps its contents because the predictor
reads its pc.

**Abstractions.** One general register `x` stands for the register file, with values modulo
`XMOD`; the four forwarding sources and their priority are kept. ALU and M instructions are
one sum and one square. A code address is a small number, instructions are aligned to 4. Loads and
stores are of a byte, a half and a word, with both extensions, on a bus word of four bytes of one bit
each (`LANES`, `BYTE`; eight bytes of eight bits in the source): the shifts, strobes and extensions
of `mem.sv` are those of the code at that width, and the reference has bytes and no shifts. `jal` and CSR reads do not write the register. Not modelled of the
CSRs: mscratch, mcycle, mip and mhartid; the three interrupt lines are one. Branch predictions
are arbitrary, and so are all latencies: `Quiet` is a cycle in which nothing outside answers,
`Answers` one in which memory and multiplier both do, `Reads` and `Mults` those in which one does.

## 3. Runs

| Run | Question | Bounds |
|---|---|---|
| `bus` | Is the answer routed to the master that still asks; is overtaking bounded by N - 1; do the masters see one atomic memory behind either device; is everyone served? | 3 masters (the pointer can skip, and wraps at a number that is no power of two); a write of one byte and a two-beat read that starts in the middle and wraps, two words of two bytes |
| `mmu` | Is the issued access the reference translation, every fault real, every request answered? FPGA build, whose acceptance rule is the stricter one | 2 pages, 2 indices per level; pointers, leaves and invalid entries at right and wrong levels; every permission denied somewhere |
| `mempath` | Do fetch, memory stage, arbiter and MMU agree whatever the core does? | 2 program counters, a load, a store, a misaligned load; PTEs that continue, end or fault the walk |
| `board` | Is a read answered with the RAM of its own address; is a byte sent once for each store; do the two ports starve each other, or miss an answer for good? | RAM delay 2 (the source's in simulation), clocks 4 to 1 (100 and 25 MHz), frames of 3 bits of 4 cycles, message of 2 characters; a load and stores to RAM and to both registers |
| `core` | Does the core follow the reference through M-mode control flow; across `mret`, `ecall`, illegal instructions, page faults and misalignment, with or without translation; and for interrupts of M mode around `csrsi`/`csrci` on mstatus? Does it ever stall? | three sets of programs in one run, the first instruction leads to one: 4 cells with branches back and forth, misaligned jumps, loads and stores of three sizes, multiplications; 9 cells, of which a handler that skips or goes on; 8 cells, with a timer that may rise and fall in every cycle |
| `muldiv` | Is the value an M instruction takes that of the M extension, and is the unit the one `Core` assumes? | 6 bits (3 for the W forms), every selector on all operands; then one instruction of each kind of start, for what the first leaves in the registers |
| `pool` | Are the verdict and the count right, does the master ever write to nobody, does the pool end? | 3 workers (an inherited write end on each side), 0 to 4 tests |
| `soc` | Do the calls of a test take effect in program order, on one memory; is a character lost, doubled or reordered on any of the three ways; does the monitor notice every number; is anything left between two tests; does every wait end? | 2 tests of 3 calls in all; one word of memory at two addresses, loads, stores and expects of 1 to 8 bytes that overlap, a store of what was loaded; the UART (two characters typed), the virtual UART (lines of 2) and the number register; four kinds of runs, so that the memory and each device meet most combinations, not all |
| `user_interrupt`, `handler_fetch`, `stale_quotient`, `half_overflow` | Four statements of the reports the code does not satisfy | see below |

Why these bounds are enough: the arbiter and MMU results are proved for all values; in the
core at most two instructions are in flight (see below), so a program of four cells holds
every pair of neighbours twice with a branch around them, and the value space (16 values) only has to
tell a stale operand from a fresh one and to place every size at every byte. The divider treats all bits but the top one
and the halves alike: six bits have both, several iterations on each side of the half, and
every sign, zero, overflow and shift out of the top. On the board an access takes several cycles of either clock and the answer lasts for more
than one, so it can meet the next request; a bit of
a UART frame is 10417 cycles long in the source, and only the end of the count matters. A worker of
the pool is the first, the last or in between, and tests are fewer, as many or more. In a test of the
simulated board one access is on the bus and a second is behind it; what a third meets is what the second met.
A reset meets everything a test can leave behind, so a second test is enough; the numbers 1 and 2
are in order, repeated, skipped or not acknowledged.

**The invariants of the core.** `CommitsMatch` says that what writeback holds is the next
instruction of the reference, with the value the reference computes. `StoresMatch` does the
same for memory and `CsrsMatch` for the CSRs and the privilege, at the points where the
pipeline has no older instruction. A trap that retires no instruction (interrupt, illegal
instruction, fetch fault) is told to the reference through the history variable `due` once the
older instructions are out. In M mode the core replaces the `csrsi` that opens the window by
the interrupt, with mepc after it and MPIE closed: the reference takes the trap after that
instruction, and does not give the instruction itself any other effect.

`NeverSuppressed` deserves a note. With this fetch unit an instruction is offered at most every
few cycles, and EX and MEM never hold instructions at once. `suppress_wrong_path_wb`, which
would discard an *older* instruction, the load-use interlock and `fetch_accept`'s missing test of
it are harmless only for that reason. It also means the comment at `core.sv:326` ("csrci must
be in id_ex when csrsi is in ex_mem") describes a cycle that does not happen; the window works
because its mepc is computed from the csrsi alone.

**What the violations show.**

- `user_interrupt`: an interrupt in U mode that meets an instruction in MEM with EX empty saves
  that instruction's pc although it retires, so it runs twice (Lab6 report, line 85).
- `handler_fetch`: the early update of `mmu_priv` is gated by a signal without fetch faults, so
  the handler's first fetch is made with U privilege (Lab6 report, line 117).
- `stale_quotient`: an interrupt flushes a division, the divider runs on, and the next M
  instruction takes its result (Lab1-extra report, line 17).
- `half_overflow`: the overflow test of the divider knows the least W number in both widths, so a
  64-bit division of -2^31 by -1 answers -2^31 (Lab1-extra report, lines 5 and 13). The run
  `muldiv` leaves this one quotient out.

Because of the first two the passing runs leave out timer interrupts and faulting fetches in U
mode; nothing else about U mode is left out. (A faulting fetch also leaves `data_pc_q`, so the
mepc and mtval it sets name the instruction fetched before it.) `mulh`, `mulhsu` and `mulhu`
are decoded, but no document claims them, and the values they take (an unsigned high product, or
zero) are not compared. A smaller divergence without a run: the Lab5 report,
line 45, says the MMU takes its privilege from `core`, while `SimTop.sv:55,67` give it the
arbiter's `opriv`.

**Fairness.** The clock never stops, so an enabled step of the clocked logic happens.

- `mmu`, `core`: memory answers what it is asked (`WF` of the answering steps) and the
  multiplier ends (its counter runs down). In `SimTop` the two are separate, since neither
  waits for the other.
- `board`: `WF` of the clock alone. That memory answers is a consequence.
- `bus`: `CBusDevice` is enabled again and again (`p_disable` is a probability below one); the AXI
  memory accepts, answers and performs what it can.
- `muldiv`: `KeepsPromise` needs only that the clock goes on.
- `soc`: a wait goes on ticking (`fence` and `await` are loops around `tick`), and again and again
  `CBusDevice` is enabled in such a tick (`p_disable` is a probability below one). The body of a test
  need not go on, and the UART thread may wait for ever. The timeouts of the waits, millions of ticks,
  are left out.
- `pool`: the system schedules the master and each worker, and a test ends, one way or the other.

Every property has a mutant of the model (the operators commented "Mutant of ...") that
breaks it; `PROJECT.json` pairs them.

## 4. Proofs

TLAPS checks, for every value of the constants:

- `ArbiterTypeOK`, `ArbiterSavedIsAsked`, `ArbiterBoundedOvertaking`, from `ArbiterAssumption`
  (at least one master; "no request" is not a request). The bound is not inductive:
  `IInv` adds `Ahead`, that the grants a waiting master has seen plus its distance from
  the pointer after the current grant never exceed N - 1, and `Fresh`, that a master that does
  not wait has seen none. The lemma `SelectIsFirst` shows what the search loop returns (its
  well-foundedness is `LeastElement`), `PassingBrings` that passing over a master brings the
  pointer closer.
- `BusImplementsArbiter`, `BusBoundedOvertaking`: the bus with either memory implements the
  arbiter with any answers, step by step, so what is proved of the one holds of the other.
- `BusAtomicMemory`: behind the arbiter both memories are one atomic memory, for reads of any length
  and single writes (`SimBusAssumption`). `MemInv` of `SimBus` says how far each has come: the
  transaction under way is the granted request's after `beats` transfers (`Serving`); the adapter's
  request is the granted one until it is answered (`Issuing`), and a write answered but not yet in
  memory is the one in `w`, which the adapter outlasts (`Writing`). `Wraps` shows that the
  addresses `AXITransaction` counts are those of a wrapping burst.
- `PoolTypeOK`, `PoolReaderWaits`, `PoolVerdict`, `PoolCountIsHonest`: the worker pool with any number
  of workers and tests, from `RunParallelAssumption` (at least one worker). What carries them is
  the invariant `IInv` of `RunParallel`: a worker and its pipes are in one phase of their dialogue
  (`Dialogue`); no test is given twice (`Posted`, `Taken`); and each worker that is listened to and
  has been served holds exactly the one test that is given but not yet counted (`Counts`, `Held`).
  Verdict then is the case in which nobody is listened to; for the count, the tests given and not
  passed are the image of the workers that hold one.
- `PathLockstep`, `PathStillAsked`, `PathOneSlot`, `PathFreshFetch`, `PathExactlyOnce`: the memory
  path in either build, with any instructions, page-table entries, satp and timing, from
  `PathClientsAssumption` (program counters are integers); memory reports no fault of its own, as in
  the runs. `IInv` of `MemPathEnv` adds `Follows` (fetch's next address is the one the core expects;
  so is the address of its request unless that is to be dropped; only a request to be dropped may be
  in service since before the last redirect) and that an access and the departure of its instruction share a
  cycle; `PathInv` of `PathClients` is the part that needs no history. The step is shown part by part: `BusCycle` for arbiter and MMU,
  which rests on nothing else, `FetchCycleKeeps` and `StageCycleKeeps` for the two ports.
- `BoardFreshAnswer`, `BoardOneByteEach`, `BoardKeepsPath`: the board, with any delay of its RAM, any ratio
  of its clocks from two up, any length of a bit and of a frame, any instructions and page-table
  entries, from `BoardAssumption` (the FPGA build; the two registers have different addresses),
  `DeviceAssumption` and `PathClientsAssumption`. `PathInv` holds here too, since the answers of the board are
  among those any memory may give. A read rests on `Answered`: when the MMU is armed and the RAM says
  ready, its output is of the address on the bus; a late second ready cycle finds the MMU not
  armed. A byte rests on `DevInv`: while a store to TX_DATA is on the bus the transmitter has
  not begun (`Fresh`), is at a bit of that byte with just that much of the frame on the line (`Loads`,
  `Shifts`), or has sent it and has `putchar` cleared (`Has`); `OneTick` is one cycle of the board's clock, `Sending`
  and `Rests` a whole one of the CPU's. That the store is still the one in `ex_mem` is `TheStore`,
  from `StillAsked`, `PendInv` and `PhysInv` (pages are mapped to themselves); that the transmitter is not
  at its own message then is `FinishInv`. `uart` is recursive: `UartIs` shows that the
  recursion defines a function, and `CountUp` of `NatLemmas` takes the place of induction.
- `MMUTypeCorrect`, `MMUTranslates`, `MMUFaultsAreReal`, from `MMUAssumption` and
  `PageTablesAssumption`. `IInv` adds
  `WalkInv`: at each level, the PTE address is the one the reference reads and the levels
  above were pointers.

- `BenchInProgramOrder`, `BenchCharsOnce`, `BenchSaidOnce`, `BenchNumbersNoticed`,
  `BenchCleanHandover`: a run of any number of tests with any calls, from `TestbenchAssumption`.
  `TypeInv` says what the coroutine, the pipeline, the bus and the memory below hold of the
  call under way, down to the lanes of the bus (what `apply` reads is what `place` put there); under
  it every step is a step of `SerialMemory` or none. The devices have their own: `PortInv` and
  `CharInv` follow a character from the keyboard to `got`, `PrintInv` and `SendInv` one from a store to
  `out` and `uart_out`, and `NumInv` a number to the comparison; `BenchNumbersNoticed` assumes
  that no test turns the monitor off (`MonitorLeftOn`), since a number stored while it is off is not
  looked at until it is on again.
- `CoreNeverSuppressed`, `CoreTrainsItsOwn`: the core under any program, page table, prediction, timer
  and latency, from `CoreAssumption` and `SimTopAssumption`. They rest on `Spacing`, which is how far
  apart fetch, with its single slot, keeps the instructions: EX and MEM are never both full.
- `CoreCommitsMatch`, `CoreStoresMatch`, `CoreCsrsMatch`, `CoreInterruptPoint`: the core against the
  reference machine, for the same generality, under the hypothesis `[]Ordinary`: in U mode the timer
  interrupt is off and no fetch fails. `CoreFetchPrivilege` needs the second half only
  (`UserFetches`). Without the hypotheses they are false of the code: the runs `user_interrupt` and
  `stale_quotient` break the properties with a timer interrupt in U mode, and `handler_fetch` with
  a fetch that fails there. The run `core` leaves the same cases out and nothing else, so the theorems
  say of every program what the run says of its own. The interrupts that are left are those of M mode:
  `CoreInterruptPoint` is about the m_trap window.

The argument for the core is built in layers, each inductive on the ones before it:

| layer | what it says |
|---|---|
| `Spacing` | which pipeline registers and fetch slots may be full together |
| `Path` | arbiter and MMU are busy together, with what the port they serve still asks |
| `Walks` | the walk under way is that of the page table (`WalkInv` of `MMUWalk`) |
| `Program` | a cell of code that has been decided stays as it is |
| `Types` | every value fits its register; rests on lemmas on the bytes of a word |
| `Front` | the privilege of what fetch holds is the one in force (with `UserFetches`) |
| `Ages` | a translation in use is not older than the write to satp before it, or is dropped |
| `FetchRight` | the word fetch holds is what the reference finds at that address (with `Ordinary`) |
| `Follows` | the pipeline is the reference machine, at most one instruction ahead of it |

`Follows` is the refinement: WB or MEM hold the reference's next instruction (`InWb`, `InMem`), EX and
decode the one after what is in MEM or WB (`InEx`, `InDec`), and fetch goes on from there (`FetchAt`);
registers, memory, CSRs and an operation in the multiplier are those the reference has at that
point (`RegRight`, `RamRight`, `CsrRight`, `MulOwn`, `AccessRight`), or those of a trap that has been
written but has no instruction to retire (`DueRight`). `LoadMatches` and `StoreMatches` are
the arithmetic: shift, strobe, cut and extension of `mem.sv` are the bytes of the reference, for every
address, size and value. The step has one lemma for each kind of cycle of an in-order
pipeline that `Spacing` allows: `DecodeStep`, `ExecuteStep`, `MemoryStep`, `EmptyStep` and `HaltStep`. TLC
checked the conjuncts of `Follows` on the instance of the run `core` before they were proved.

- `MExecValueMatches`, `DividerLoopInvariant`, `MExecKeepsPromise`: the multiplier and divider at any width
  `2 * HALF` (64 bits is `HALF = 32`), any instructions and operands, from `HalfAssumption` and
  `MExecAssumption`. The invariant is `UnitInv`: the unit works for the instruction that is still in EX
  (`Owner`); `Product`; `Division`, the registers of the loop as fractions of the
  dividend's absolute value; `Divided`, what the loop ends with. `Division` strengthens `LoopInvariant` by what
  `div_a` holds below the dividend (nothing) and above it, without which a shift could drop a bit. `OneBit` is the arithmetic of an iteration and
  `Places` its place value. Signs are arithmetic on words: `Coded(n)` is the word of the integer n,
  and `OperandCoded`, `Times` and `NegIs` say that operands, product and the negated output are words of the
  numbers meant. The recursion of `Pow2` is shown to define a function by building it up to the last
  exponent (`PowIs`), with least elements in place of induction. `MExecKeepsPromise` is `KeepsPromise`
  without its liveness.

All are proved of the specification without fairness (`Safety`, `BusSafety`).

`NatLemmas` holds what these share: least elements, counting up, quotients, and counting modulo n.

Only model-checked: liveness (out of the prover's reach, as is ENABLED), which includes that the
multiplier finishes. Every invariant a run checks is a theorem, with the two hypotheses named above:
`MonitorLeftOn`, and `Ordinary` for the core. No module with a theorem reaches a RECURSIVE operator.

## 5. Plan

1. Weaker than `Ordinary`: U mode with the timer on, up to the instruction at which the core takes
   an interrupt it should not; pending U-mode interrupts as liveness.
2. `Predictor`: the counters, with the distance result that keeps training sound.
3. A reset of the board during operation; the order of a defer list and the plugins.

## 6. Not modelled

The multiplexer and `SimpleArbiter` (nothing instantiates them, and the widths of the second are
defined nowhere); encodings of instructions; Difftest hints and performance counters; command line,
logging, tracing and the comparison of traces; loading and dumping of memory images; the opening
of the pty; `TIMER` of Confreg, which counts calls of sync; and `run_worker`'s plugins.

Of the lines of C and C++ under `src/verilate` more than two thirds are two vendored libraries,
`CLI11.hpp` (8258 lines) and `nameof.hpp` (1016), which are no part of this system. What
the modules stand for is for the most part SystemVerilog; of the C++ it is the bus, the pipeline,
the devices, the model and the test runner.

Seen on the way, without a run:

- The device of the board takes each character of its finish message one index late and stops at
  zero, so it sends the newline (index 1) twice. A store to TX_DATA after FINISH_ADDR moves `idx` too,
  below zero in the end (`device.sv:144`), and a reset leaves it (`device.sv:131`).
- The Lab3 report (line 57) gives `BIT_TMR_MAX` as 868, `device.sv:95` as 10416.
- `BlockMemory::map` computes its mask in 32 bits (`memory.cpp:102`).
- `UART_LSR` and `NUM_MONITOR` lie in the upper half of a bus word, while Confreg answers in the lower
  one and looks at the lowest bit of what is stored: a 4-byte load of the first gives zero, and a
  4-byte store to the second always turns the monitor off.
- `cell.h:117` loads eight bytes into a variable of four.
- `_current_num` is not reset with the devices (`model.cpp:147`), so the test after one that stored a
  number stops the simulation (`NumbersNoticed` says when). Changes not yet committed survive the
  reset of Confreg (`confreg.cpp:3`). A line not completed in `char_buffer` is never written.
- `ThreadWorker::once` clears its flag before the thread has stopped (`common.cpp:325`), and Confreg is
  destroyed while its thread is blocked in `fgetc` (`confreg.cpp:171`).
- A fetch fault does not wait for an older memory access (`core.sv:313`).
