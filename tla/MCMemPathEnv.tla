---------------------------- MODULE MCMemPathEnv ----------------------------
(***************************************************************************)
(* Two program counters, one load, one store and one misaligned load, one  *)
(* page; PTEs that continue the walk, end it, and fault it.                *)
(***************************************************************************)
EXTENDS MemPathEnv

Op(store, addr, size) ==
    [is_load |-> ~store, is_store |-> store, mem_addr |-> addr, mem_size |-> size,
     load_unsigned |-> FALSE, store_data |-> 1, reg_write |-> ~store]

MCOps    == {Op(FALSE, 0, 1), Op(TRUE, 0, 1), Op(FALSE, 1, 2)}
MCStored == {dreq_data(op) : op \in {Op(TRUE, 0, 1)}}

Bits(v, perm) == [v |-> v, r |-> perm, w |-> perm, x |-> perm, u |-> perm, ppn |-> 0]
MCPtes  == {Bits(TRUE, FALSE), Bits(TRUE, TRUE), Bits(FALSE, FALSE)}
MCSatps == {[sv39 |-> b, ppn |-> 0] : b \in BOOLEAN}
MCPCs   == {0, 4}
=============================================================================
