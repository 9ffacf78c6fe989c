----------------------------- MODULE CBusDevice -----------------------------
(***************************************************************************)
(* The slave of the C++ test bench, over a memory of its owner's.  It      *)
(* answers from its registers, takes the request of the same cycle, and    *)
(* may be disabled in any cycle (p_disable).  Its new state ntx equals tx  *)
(* between two clock edges, so tx alone is kept.                           *)
(***************************************************************************)
EXTENDS AXITransaction

CONSTANT NoRequest
VARIABLES enable, tx

eval_resp == IF enable /\ tx.busy
             THEN [ready |-> TRUE, last |-> Last(tx), fault |-> FALSE] ELSE NoResp

\* eval_req's sanity checks: the request is held for the whole transaction.
Unchanged(req) == /\ req # NoRequest
                  /\ req.is_write = tx.is_write
                  /\ req.size = tx.Number_Bytes
                  /\ req.addr = tx.Start_Address
                  /\ req.len + 1 = tx.Burst_Length

DeviceInit == enable = TRUE /\ tx = NoTransaction

Disabled == ~enable /\ UNCHANGED tx

Rest(req) == /\ enable /\ ~tx.busy
             /\ req = NoRequest
             /\ UNCHANGED tx

Begin(req) == /\ enable /\ ~tx.busy
              /\ req # NoRequest
              /\ tx' = Started(req)

\* A check that fails ends the simulation: no step is left.
Transfer(req) == /\ enable /\ tx.busy
                 /\ Unchanged(req)
                 /\ tx' = IF Last(tx) THEN NoTransaction ELSE Advanced(tx)

\* In such a cycle eval_resp loads from the memory, or sync stores to it.
loads  == enable /\ tx.busy /\ ~tx.is_write
stores == enable /\ tx.busy /\ tx.is_write

\* eval_req, then sync, which draws the next enable.
DeviceCycle(req, next_enable) ==
    /\ Disabled \/ Rest(req) \/ Begin(req) \/ Transfer(req)
    /\ enable' = next_enable
=============================================================================
