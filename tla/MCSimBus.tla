------------------------------ MODULE MCSimBus ------------------------------
(***************************************************************************)
(* A write of one byte of the first word, and reads of both words: a burst *)
(* that starts in the middle and wraps.                                    *)
(***************************************************************************)
EXTENDS SimBus

Read  == [is_write |-> FALSE, addr |-> 1, size |-> 8, len |-> 1, strobe |-> {},
           data |-> <<"-", "-">>]
Write == [is_write |-> TRUE, addr |-> 0, size |-> 8, len |-> 0, strobe |-> {1},
           data |-> <<"b", "b">>]
MCRequest == {Read, Write}
MCPrivs   == [i \in 0 .. 2 |-> IF i = 1 THEN PRV_U ELSE PRV_M]
MCMemory  == [word \in 0 .. 1 |-> <<"a", "a">>]
=============================================================================
