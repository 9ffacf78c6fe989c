------------------------------ MODULE MCBoard ------------------------------
(***************************************************************************)
(* Loads and stores of one RAM word and stores to the two registers of the *)
(* UART; a frame of three bits and a message of two characters; the clocks *)
(* of the board.                                                           *)
(***************************************************************************)
EXTENDS Board

Op(store, a, d) == [is_load |-> ~store, is_store |-> store, mem_addr |-> a, mem_size |-> 1,
                    load_unsigned |-> FALSE, store_data |-> d, reg_write |-> ~store]

MCOps    == {Op(FALSE, 8, 0), Op(TRUE, 8, 1), Op(TRUE, 16, 2), Op(TRUE, 20, 2)}
MCStored == {dreq_data(op) : op \in MCOps}

Pte0(perm, p) == [v |-> TRUE, r |-> perm, w |-> perm, x |-> perm, u |-> perm, ppn |-> p]
MCPtes  == {Pte0(FALSE, 0), Pte0(TRUE, 0), Pte0(TRUE, 1)}
MCPCs    == {0}
MCSatps  == {[sv39 |-> TRUE, ppn |-> 0]}
MCTx     == <<1, 0>>
MCFinish == <<1, 4>>
MCData   == <<0, 8>>
=============================================================================
