---------------------------- MODULE MCTestbench ----------------------------
(***************************************************************************)
(* One word of memory and the device registers, by calls of every kind and *)
(* of several widths, up to three in the pipeline.  The calls are split    *)
(* into kinds of runs, to keep the states few.                             *)
(***************************************************************************)
EXTENDS Testbench

A(region, offset) == [region |-> region, offset |-> offset, bit31 |-> FALSE]
Bytes(first)      == [b \in Lanes |-> first + b]

Load(addr, size)  == [kind |-> "load", addr |-> addr, size |-> size, data |-> Zero,
                      dest |-> "u", from |-> NoDest]
Put(addr, size, data, from) == [kind |-> "store", addr |-> addr, size |-> size,
                                data |-> data, dest |-> NoDest, from |-> from]
Check(addr, size, data)     == [kind |-> "expect", addr |-> addr, size |-> size,
                                data |-> data, dest |-> NoDest, from |-> NoDest]
Number(num, ack)  == [b \in Lanes |-> IF b = 3 THEN num ELSE IF b = 0 THEN ack ELSE 0]

MCMemory == << Bytes(10) >>
MemoryTest == [typed |-> 0,
               calls |-> {Load(A("low", 0), 8), Load(A("boot", 6), 2),
                          Put(A("boot", 5), 1, Bytes(30), NoDest),
                          Put(A("low", 2), 2, Zero, "u"),
                          Check(A("low", 4), 4, Bytes(14))}]
UartTest   == [typed |-> 2,
               calls |-> {Load(A("confreg", 4096), 1),
                          Put(A("confreg", 4096), 1, Bytes(50), NoDest)}]
OutputTest == [typed |-> 0,
               calls |-> {Put(A("confreg", 65520), 1, Bytes(65), NoDest),
                          Put(A("confreg", 65520), 4, Bytes(10), NoDest),
                          Put(A("confreg", 61456), 4, Number(1, 1), NoDest),
                          Put(A("confreg", 61456), 4, Number(2, 2), NoDest),
                          Put(A("confreg", 61456), 4, Number(1, 2), NoDest)}]
MixedTest  == [typed |-> 1,
               calls |-> {Load(A("confreg", 4096), 1),
                          Put(A("confreg", 65520), 1, Bytes(65), NoDest),
                          Put(A("low", 0), 1, Zero, "u"), Load(A("boot", 0), 4)}]
MCTests == {MemoryTest, UartTest, OutputTest, MixedTest}

ASSUME MonitorAssumption == MonitorLeftOn
=============================================================================
