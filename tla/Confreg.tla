------------------------------ MODULE Confreg ------------------------------
(***************************************************************************)
(* confreg.cpp: the device registers of the simulated board, among them a  *)
(* UART whose input a thread of its own reads.  The device is a record;    *)
(* each operation gives the record after it.  What a tick's accesses say   *)
(* is collected in ctx, and sync publishes it in ctx0 and resets it.  Of   *)
(* the plain registers one in each half of a bus word stands for all;      *)
(* TIMER, which counts the calls of sync, is left out.                     *)
(***************************************************************************)
EXTENDS LoadOp, Sequences, FiniteSetsExt

\* enum Layout, below ADDR_MASK.
UART_RXD     == 4096
UART_TXD     == 4096
UART_LSR     == 4116
CR0          == 32768
CR1          == 32772
NUM          == 61456
IO_SIMU      == 65516
VIRTUAL_UART == 65520
SIMU_FLAG    == 65524
OPEN_TRACE   == 65528
NUM_MONITOR  == 65532

Word(byte) == [Zero EXCEPT ![0] = byte]
Bit(flag)  == Word(IF flag THEN 1 ELSE 0)
Ones       == [b \in Lanes |-> IF b < 4 THEN 255 ELSE 0]

\* swap_bytes: the two halfwords of the low word.
swap_bytes(data) == [b \in Lanes |-> IF b < 2 THEN data[b + 2]
                                     ELSE IF b < 4 THEN data[b - 2] ELSE 0]

ResetContext == [uart_avail |-> FALSE, uart_written |-> FALSE, uart_fetched |-> FALSE,
                 uart_data |-> 0, vuart_written |-> FALSE, vuart_data |-> 0,
                 v_open_trace |-> TRUE, v_num_monitor |-> TRUE, v_num |-> Zero]

ResetRegisters == [r \in {CR0, CR1, NUM, IO_SIMU, VIRTUAL_UART,
                          SIMU_FLAG, OPEN_TRACE, NUM_MONITOR} |->
                      IF r = SIMU_FLAG THEN Ones
                      ELSE Bit(r \in {OPEN_TRACE, NUM_MONITOR})]

\* The changes not yet committed survive.
Reset(con) == [con EXCEPT !.ctx = ResetContext, !.ctx0 = ResetContext,
                          !.mem = ResetRegisters, !.ififo = <<>>]

load(con, addr) ==
    IF addr = UART_LSR THEN Bit(con.ctx.uart_avail)
    ELSE IF addr = UART_RXD
         THEN IF con.ctx.uart_avail THEN Word(Head(con.ififo)) ELSE Zero
    ELSE IF addr \in DOMAIN con.mem THEN con.mem[addr] ELSE Zero

\* _uart_get_char is the only load that changes anything.
Loaded(con, addr) ==
    IF addr = UART_RXD THEN [con EXCEPT !.ctx.uart_fetched = @ \/ con.ctx.uart_avail] ELSE con

\* What a store asserts: the line status is read-only, and the UART takes bytes.
Storable(addr, lanes) == addr # UART_LSR /\ (addr = UART_TXD => lanes = {0})

\* The value a register keeps; the mask is ignored.
Kept(addr, data) == IF addr = VIRTUAL_UART THEN Word(data[0])
                    ELSE IF addr = SIMU_FLAG THEN Ones
                    ELSE IF addr = IO_SIMU THEN swap_bytes(data)
                    ELSE IF addr = OPEN_TRACE THEN Bit(data # Zero)
                    ELSE IF addr = NUM_MONITOR THEN Bit(data[0] % 2 = 1)
                    ELSE data

Noted(ctx, addr, data) ==
    IF addr = UART_TXD THEN [ctx EXCEPT !.uart_written = TRUE, !.uart_data = data[0]]
    ELSE IF addr = VIRTUAL_UART
         THEN [ctx EXCEPT !.vuart_written = TRUE, !.vuart_data = data[0]]
    ELSE IF addr = NUM THEN [ctx EXCEPT !.v_num = data]
    ELSE IF addr = OPEN_TRACE THEN [ctx EXCEPT !.v_open_trace = data # Zero]
    ELSE IF addr = NUM_MONITOR THEN [ctx EXCEPT !.v_num_monitor = data[0] % 2 = 1]
    ELSE ctx

Stored(con, addr, data) ==
    [con EXCEPT !.ctx = Noted(@, addr, data),
                !.changes = IF addr = UART_TXD THEN @
                            ELSE Append(@, [addr |-> addr, data |-> Kept(addr, data)])]

\* The loop over changes: the last one to a register is what stays.
Committed(mem, changes) ==
    [r \in DOMAIN mem |->
        LET own == {i \in DOMAIN changes : changes[i].addr = r}
        IN  IF own = {} THEN mem[r] ELSE changes[Max(own)].data]

\* The internal assertion of sync.
Syncable(con) == con.ctx.uart_fetched => con.ififo # <<>>

\* Mutant of Synced: uart_fetched is left as it was.
SyncedFetching(con) ==
    LET ififo == IF con.ctx.uart_fetched /\ con.ififo # <<>> THEN Tail(con.ififo) ELSE con.ififo
    IN  [con EXCEPT
            !.ififo = ififo,
            !.opty  = IF con.ctx.uart_written THEN Append(@, con.ctx.uart_data) ELSE @,
            !.ctx0  = con.ctx,
            !.ctx   = [@ EXCEPT !.uart_avail = ififo # <<>>, !.uart_written = FALSE,
                                !.vuart_written = FALSE],
            !.mem   = Committed(@, con.changes),
            !.changes = <<>>]

\* Mutant of Synced: vuart_written is left as it was.
SyncedPrinting(con) ==
    LET ififo == IF con.ctx.uart_fetched THEN Tail(con.ififo) ELSE con.ififo
    IN  [con EXCEPT
            !.ififo = ififo,
            !.opty  = IF con.ctx.uart_written THEN Append(@, con.ctx.uart_data) ELSE @,
            !.ctx0  = con.ctx,
            !.ctx   = [@ EXCEPT !.uart_avail = ififo # <<>>, !.uart_written = FALSE,
                                !.uart_fetched = FALSE],
            !.mem   = Committed(@, con.changes),
            !.changes = <<>>]

Synced(con) ==
    LET ififo == IF con.ctx.uart_fetched THEN Tail(con.ififo) ELSE con.ififo
    IN  [con EXCEPT
            !.ififo = ififo,
            !.opty  = IF con.ctx.uart_written THEN Append(@, con.ctx.uart_data) ELSE @,
            !.ctx0  = con.ctx,
            !.ctx   = [@ EXCEPT !.uart_avail = ififo # <<>>, !.uart_written = FALSE,
                                !.uart_fetched = FALSE, !.vuart_written = FALSE],
            !.mem   = Committed(@, con.changes),
            !.changes = <<>>]

\* v_num >> 24, as an int; numbers stay below 2^16.
number(v_num) == v_num[3] + 256 * v_num[4]

\* What ModelBase asks of the context that was published last.
has_char(con)        == con.ctx0.vuart_written
get_char(con)        == con.ctx0.vuart_data
monitor_enabled(con) == con.ctx0.v_num_monitor
get_acked_num(con)   == con.ctx0.v_num[0]
get_current_num(con) == number(con.ctx0.v_num)
=============================================================================
