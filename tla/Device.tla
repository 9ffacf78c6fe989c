------------------------------- MODULE Device -------------------------------
(***************************************************************************)
(* device.sv: the UART transmitter of the board, on the board's clock,     *)
(* which is faster than the CPU's.  A store to TX_DATA sends its byte; the *)
(* store is held until the transmitter is back in RDY, and putchar keeps   *)
(* it from being sent again.  A store to FINISH_ADDR makes the device send *)
(* a message of its own.  dev has one field for each register.  Bit n of   *)
(* character c is a pair; start and stop bit are the same for any one.     *)
(***************************************************************************)
EXTENDS Integers

CONSTANTS BIT_TMR_MAX,   \* clock cycles of a bit, less one
          BIT_INDEX_MAX, \* bits of a frame
          LENGTH         \* where idx starts: characters of the message
ASSUME DeviceAssumption == /\ BIT_TMR_MAX \in Nat \ {0} /\ BIT_INDEX_MAX \in Nat \ {0, 1}
                           /\ LENGTH \in Nat

VARIABLE dev

Stop      == BIT_INDEX_MAX - 1
Bit(c, n) == <<n, IF n \in {0, Stop} THEN <<"any", 0>> ELSE c>>

\* req: valid, and tx, fin that it is a store to TX_DATA, to FINISH_ADDR; its data.
send(d, req)      == (d.idx # 0 /\ d.finish) \/ req.tx
char_data(d, req) == IF d.finish THEN <<"str", d.idx>> ELSE <<"cpu", req.data>>
tx_ready(d)       == d.txState = "RDY"
bitDone(d)        == d.bitTmr = BIT_TMR_MAX

DeviceInit == dev = [txState |-> "RDY", txBit |-> Bit(<<"str", 0>>, Stop),
                     bitTmr |-> 0, bitIndex |-> 0, txData |-> <<"str", 0>>,
                     putchar |-> TRUE, finish |-> FALSE, idx |-> LENGTH]

\* Mutant of putchar: the flag is never cleared.
putchar_always(d, req) == TRUE

\* One store, one byte: cleared while it is sent, set again when it has gone.
putchar(d, req) == ~req.valid \/ (d.putchar /\ ~(req.tx /\ d.txState # "RDY"))

NextState(d, req) ==
    CASE d.txState = "RDY"      -> IF send(d, req) /\ d.putchar THEN "LOAD_BIT" ELSE "RDY"
      [] d.txState = "LOAD_BIT" -> "SEND_BIT"
      [] d.txState = "SEND_BIT" -> IF ~bitDone(d) THEN "SEND_BIT"
                                   ELSE IF d.bitIndex = BIT_INDEX_MAX THEN "RDY" ELSE "LOAD_BIT"

\* One cycle of the board's clock.  txData is written in every cycle of a send.
DeviceStep(d, req) ==
    [txState  |-> NextState(d, req),
     putchar  |-> putchar(d, req),
     bitTmr   |-> IF tx_ready(d) \/ bitDone(d) THEN 0 ELSE d.bitTmr + 1,
     bitIndex |-> IF tx_ready(d) THEN 0
                  ELSE IF d.txState = "LOAD_BIT" THEN d.bitIndex + 1 ELSE d.bitIndex,
     txData   |-> IF send(d, req) THEN char_data(d, req) ELSE d.txData,
     txBit    |-> IF tx_ready(d) THEN Bit(d.txData, Stop)
                  ELSE IF d.txState = "LOAD_BIT" THEN Bit(d.txData, d.bitIndex) ELSE d.txBit,
     finish   |-> d.finish \/ req.fin,
     idx      |-> IF send(d, req) /\ d.finish /\ tx_ready(d) THEN d.idx - 1 ELSE d.idx]

=============================================================================
