----------------------------- MODULE Testbench -----------------------------
(***************************************************************************)
(* testbench.cpp, run_serial: tests one after the other on the simulated   *)
(* board.  The pretest hook resets the devices, as the example in          *)
(* testbench.h does; the body makes any calls on a DBusPipeline, ticks and *)
(* fences it, or waits for single accesses of the DBus; the destructor of  *)
(* the pipeline fences once more.                                          *)
(***************************************************************************)
EXTENDS Soc, SequencesExt

CONSTANTS Tests,        \* kinds of runs: the calls its tests may make, the characters typed
          NoDest, Dests,
          MaxTests, MaxCalls    \* bounds: tests, calls of all tests

VARIABLES at, tests,    \* where the main thread is; tests begun
          test,         \* external: the kind of this run
          ongoing, dreq, dest, mismatch,
          asked,        \* ghost: the calls that made ongoing
          calls,        \* ghost: calls made
          fresh,        \* ghost: no tick since the reset
          got, said, sent, nums \* ghosts: what the program read and wrote at the devices

P == INSTANCE DBusPipeline

(* The calls a test makes: each is aligned, and loads and compares what it *)
(* has a place for.                                                        *)
Data == [Lanes -> Nat]
Call == [kind : {"load", "store", "expect"}, size : Widths, data : Data,
         addr : [region : {"boot", "low", "confreg"}, offset : Nat, bit31 : {FALSE}],
         dest : Dests \union {NoDest}, from : Dests \union {NoDest}]

Proper(c) == /\ c.addr.offset % c.size = 0
             /\ InRam(c.addr) => c.addr.offset + c.size <= 8 * Len(saved_mem)
             /\ c.dest = NoDest <=> c.kind # "load"

\* What the port may carry.
Request == [is_write : BOOLEAN, size : Widths, len : {0}, strobe : SUBSET Lanes, data : Data,
            addr : [region : {"boot", "low", "confreg"}, offset : Nat, bit31 : BOOLEAN]]

ASSUME TestbenchAssumption ==
    /\ saved_mem \in Seq(Data)
    /\ NoDest \notin Dests /\ NoChar \notin Nat /\ NoRequest \notin Request
    /\ \A t \in Tests : \A c \in t.calls : c \in Call /\ Proper(c)

socVars  == <<sync_order, enable, tx, ram, con, current_num, stopped, char_buffer, stderr,
              typed, held>>
portVars == <<ongoing, dreq, dest, mismatch, asked>>
ghosts   == <<got, said, sent, nums, fresh>>
vars     == <<socVars, portVars, at, tests, test, calls, ghosts>>

Init == /\ SocInit
        /\ at = "pre" /\ tests = 0 /\ test \in Tests
        /\ ongoing = <<>> /\ dreq = NoRequest /\ mismatch = FALSE
        /\ dest = [d \in Dests |-> Zero]
        /\ asked = <<>> /\ calls = 0
        /\ got = <<>> /\ said = <<>> /\ sent = <<>> /\ nums = <<[num |-> 0, ack |-> 0]>>
        /\ fresh = FALSE

\* An assertion has failed and the process has aborted.
Aborted == mismatch \/ stopped

\* The parts of said, sent and nums Confreg has not published yet: a store of the last
\* tick, when Confreg is synchronised first.
Unsaid   == con.ctx.vuart_written /\ con.ctx.vuart_data <= 127
Unsent   == con.ctx.uart_written
Unnumbered == fresh \/ con.ctx.v_num # con.ctx0.v_num
Published(written, s) == IF written THEN Front(s) ELSE s

-----------------------------------------------------------------------------
(* ITestbench::run.                                                        *)

Pretest == /\ at = "pre" /\ tests < MaxTests
           /\ SocReset
           /\ at' = "body" /\ tests' = tests + 1
           /\ got' = <<>>
           /\ said' = Published(Unsaid, said) /\ sent' = Published(Unsent, sent)
           /\ nums' = Append(Published(Unnumbered, nums), [num |-> 0, ack |-> 0])
           /\ fresh' = TRUE
           /\ UNCHANGED <<portVars, test, calls>>

\* One call on the pipeline; store data may come from what was loaded.
Given(c) == IF c.from = NoDest THEN c ELSE [c EXCEPT !.data = dest[c.from]]

Made(c) == /\ asked' = Append(asked, c)
           /\ calls' = calls + 1
           /\ UNCHANGED <<socVars, tests, test, ghosts>>

Submit == /\ at = "body" /\ calls < MaxCalls
          /\ \E c \in test.calls : P!submit(P!Task(Given(c))) /\ Made(Given(c))
          /\ UNCHANGED at

\* DBus::load or store: the port must be free.
Access == /\ at = "body" /\ calls < MaxCalls /\ ~P!busy
          /\ \E c \in test.calls : /\ c.kind # "expect"
                              /\ P!submit(P!Task(Given(c))) /\ Made(Given(c))
          /\ at' = "await"

\* A fence of the test, as in MemoryCell's get, and the destructor's.
Fence == at = "body" /\ at' = "fence" /\ UNCHANGED <<socVars, portVars, tests, test, calls, ghosts>>
End   == at = "body" /\ at' = "end" /\ UNCHANGED <<socVars, portVars, tests, test, calls, ghosts>>
\* Mutant of Fenced: what is still queued is not waited for.
FencedAtOnce == /\ at \in {"fence", "end"}
                /\ at' = IF at = "fence" THEN "body" ELSE "post"
                /\ UNCHANGED <<socVars, portVars, tests, test, calls, ghosts>>
Fenced == /\ at \in {"fence", "end"} /\ ongoing = <<>>
          /\ at' = IF at = "fence" THEN "body" ELSE "post"
          /\ UNCHANGED <<socVars, portVars, tests, test, calls, ghosts>>

\* run_defers, with the posttest hook, and on to the next test.
Posttest == /\ at = "post"
            /\ at' = "pre"
            /\ UNCHANGED <<socVars, portVars, tests, test, calls, ghosts>>
-----------------------------------------------------------------------------
(* Ticks.                                                                  *)

\* An answered call that is a load of, or a store to, a register of Confreg.
Reads(c, reg)  == c.kind # "store" /\ c.addr.region = "confreg" /\ c.addr.offset = reg
Writes(c, reg) == c.kind = "store" /\ c.addr.region = "confreg" /\ c.addr.offset = reg

\* s with what call c adds to it.
Noted(s, adds, v) == IF adds THEN Append(s, v) ELSE s

Observe ==
    IF oresp.ready /\ oresp.last
    THEN LET c == Head(asked)
         IN  /\ asked' = Tail(asked)
             /\ got'  = Noted(got, Reads(c, C!UART_RXD) /\ oresp.data # Zero, oresp.data[0])
             /\ said' = Noted(said, Writes(c, C!VIRTUAL_UART) /\ c.data[0] <= 127, c.data[0])
             /\ sent' = Noted(sent, Writes(c, C!UART_TXD), c.data[0])
             /\ nums' = Noted(nums, Writes(c, C!NUM), [num |-> C!number(c.data), ack |-> c.data[0]])
    ELSE UNCHANGED <<asked, got, said, sent, nums>>

Tick(next_enable) == /\ SocTick(creq(dreq), next_enable)
                     /\ Observe /\ fresh' = FALSE
                     /\ UNCHANGED <<tests, test, calls>>

BodyTick(next_enable)  == /\ at = "body"
                          /\ Tick(next_enable) /\ P!tick(oresp)
                          /\ UNCHANGED at
FenceTick(next_enable) == /\ at \in {"fence", "end"} /\ ongoing # <<>>
                          /\ Tick(next_enable) /\ P!tick(oresp)
                          /\ UNCHANGED at
AwaitTick(next_enable) == /\ at = "await"
                          /\ Tick(next_enable) /\ P!await_tick(oresp)
                          /\ at' = IF oresp.ready /\ oresp.last THEN "body" ELSE "await"

\* The UART thread runs whatever the main thread does.
Thread == KeyIn(test.typed) \/ Push

Over == /\ Aborted \/ (at = "pre" /\ tests = MaxTests)
        /\ UNCHANGED vars

Program == \/ Pretest \/ Submit \/ Access \/ Fence \/ End \/ Fenced \/ Posttest
           \/ \E next_enable \in BOOLEAN : \/ BodyTick(next_enable)
                                         \/ FenceTick(next_enable)
                                         \/ AwaitTick(next_enable)

Next == \/ ~Aborted /\ (Program \/ (Thread /\ UNCHANGED <<portVars, at, tests, test, calls, ghosts>>))
        \/ Over

\* CBusDevice is enabled again and again (p_disable < 1), and a wait goes on ticking.
Fairness == /\ WF_vars(~Aborted /\ FenceTick(TRUE)) /\ WF_vars(~Aborted /\ AwaitTick(TRUE))
            /\ WF_vars(~Aborted /\ Fenced)
Safety == Init /\ [][Next]_vars
Spec   == Safety /\ Fairness
-----------------------------------------------------------------------------
(* The calls of a test take effect in the order it makes them, on the one  *)
(* memory behind both regions, byte by byte: pipelining, the bus, the      *)
(* pauses of the device and the placing of bytes on lanes are not seen     *)
(* ("helper functions which handle data placement correctly", bus.h).      *)
Serial == INSTANCE SerialMemory
          WITH Image <- [a \in 0 .. 8 * Len(saved_mem) - 1 |-> saved_mem[a \div 8 + 1][a % 8]],
               Devices <- {"confreg"},
               bytes <- [a \in 0 .. 8 * Len(saved_mem) - 1 |-> ram[a \div 8 + 1][a % 8]]
InProgramOrder == Serial!Spec

(* Every character the UART thread has read is given to the program once   *)
(* and in order: it has got it, or it waits in the FIFO, or the thread     *)
(* still holds it; and uart_avail is never set over an empty FIFO, which   *)
(* sync asserts and _uart_get_char relies on.                              *)
CharsOnce == LET held_ == IF held = NoChar THEN <<>> ELSE <<held>>
                 all   == got \o con.ififo \o held_
             IN  /\ \A i \in DOMAIN all : all[i] = typed - Len(all) + i
                 /\ con.ctx.uart_avail => con.ififo # <<>>

(* Every character stored to the virtual UART is printed once and in       *)
(* order, or is in the line not yet complete; every one stored to UART_TXD *)
(* goes to the terminal once and in order (has_char and sync).             *)
SaidOnce == /\ Published(Unsaid, said) = stderr \o char_buffer
            /\ Published(Unsent, sent) = con.opty

Follows(i) == \/ nums[i].num = nums[i - 1].num
              \/ nums[i].num = nums[i - 1].num + 1 /\ nums[i].ack = nums[i].num

(* The monitor stops the simulation at the first number that is out of     *)
(* order or not acknowledged, and only then; a reset counts as number 0    *)
(* (checkout_confreg looks once in a tick, and must miss no store to NUM). *)
NumbersNoticed == IF stopped THEN \E i \in 2 .. Len(nums) : ~Follows(i)
                  ELSE LET seen == Published(Unnumbered, nums)
                       IN  /\ \A i \in 2 .. Len(seen) : Follows(i)
                           /\ current_num = seen[Len(seen)].num

\* What NumbersNoticed is promised for: no test turns the monitor off.
MonitorLeftOn == \A t \in Tests : \A c \in t.calls : ~Writes(c, C!NUM_MONITOR)

(* No test starts over the remains of another: when a hook runs, no task,  *)
(* request or transaction is left, although the device may be disabled at  *)
(* any time ("implicit tail fence", bus.h, and the reset of the hook).     *)
CleanHandover == at \in {"post", "pre"} => /\ ongoing = <<>> /\ dreq = NoRequest
                                           /\ ~tx.busy

(* A fence, the destructor of a pipeline and a wait for an access end      *)
(* ("wait for all pending and ongoing requests to finish", bus.h).         *)
WaitsEnd == at \in {"fence", "end", "await"} ~> at \in {"body", "post"} \/ Aborted
=============================================================================
