------------------------------- MODULE LoadOp -------------------------------
(***************************************************************************)
(* bus.h, class LoadOp: where the bytes of an access lie in the eight      *)
(* lanes of the data bus.  An operation of the enum is the number of bytes *)
(* it names and its shift, in bytes; a 64-bit value is the function that   *)
(* gives its bytes, the least significant first.                           *)
(***************************************************************************)
EXTENDS Integers

Lanes  == 0 .. 7
Widths == {1, 2, 4, 8}
Zero   == [b \in Lanes |-> 0]

DISCARD    == [width |-> 0, sht |-> 0]
SIZE8_SHT0 == [width |-> 8, sht |-> 0]

\* Mutant of parse: the two low bits of the address, as the deprecated parse_addr has it.
parse_two_bits(width, addr) ==
    [width |-> width, sht |-> IF width = 8 THEN 0 ELSE ((addr % 4) \div width) * width]

parse(width, addr) == [width |-> width, sht |-> ((addr % 8) \div width) * width]

\* The lanes of an operation: as bits its strobe, as bytes its mask.
strobe(op) == {b \in Lanes : op.sht <= b /\ b < op.sht + op.width}
mask(op)   == strobe(op)

place(op, data) == [b \in Lanes |-> IF b < op.sht THEN 0 ELSE data[b - op.sht]]

apply(op, data) == [b \in Lanes |-> IF op = DISCARD \/ b + op.sht > 7 THEN 0
                                    ELSE data[b + op.sht]]

\* *dest afterwards: the cases fall through to ever narrower stores of the same bytes.
apply_to(op, data, dest) ==
    [b \in Lanes |-> IF b < op.width THEN apply(op, data)[b] ELSE dest[b]]
=============================================================================
