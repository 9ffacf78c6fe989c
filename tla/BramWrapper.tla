---------------------------- MODULE BramWrapper ----------------------------
(***************************************************************************)
(* bram_wrapper.sv: the block RAM of the board behind a delay.  A request  *)
(* waits until the counter is full, then the RAM is enabled; a write is    *)
(* answered in that cycle, a read a cycle later.  The core asks for single *)
(* beats only (AXI_BURST_FIXED, MLEN1): the burst counter stays zero, and  *)
(* last is ready.  The RAM holds one word that matters, at DADDR.          *)
(***************************************************************************)
EXTENDS Naturals

CONSTANTS BRAM_DELAY,
          DADDR,        \* an address
          NoWord        \* what the RAM holds elsewhere, and at DADDR at first

VARIABLES counter, real_valid, ready_read,
          ram,          \* the word at DADDR
          douta         \* the output register: which address, and what was there

bramVars == <<counter, real_valid, ready_read, ram, douta>>

Content(addr) == [addr |-> addr, word |-> IF addr = DADDR THEN ram ELSE NoWord]

\* ready, and last: a read is answered in the cycle after the RAM's.
ram_ready(write) == IF write THEN real_valid ELSE ready_read

BramInit == /\ counter = 0
            /\ real_valid = FALSE
            /\ ready_read = FALSE
            /\ ram = NoWord
            /\ douta = [addr |-> DADDR, word |-> NoWord]

BramCount(valid, write) ==
    /\ counter' = IF ~valid \/ ram_ready(write) THEN 0
                  ELSE IF counter # BRAM_DELAY THEN counter + 1 ELSE counter
    /\ real_valid' = (counter = BRAM_DELAY /\ valid /\ ~ram_ready(write))

\* READ_FIRST: a write puts the old word on the output.
BramAccess(addr, write, data) ==
    IF real_valid THEN /\ douta' = Content(addr)
                       /\ ram' = IF write /\ addr = DADDR THEN data ELSE ram
                  ELSE UNCHANGED <<ram, douta>>

BramCycle(valid, addr, write, data) ==
    /\ BramCount(valid, write)
    /\ BramAccess(addr, write, data)
    /\ ready_read' = real_valid
=============================================================================
