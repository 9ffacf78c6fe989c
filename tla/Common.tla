------------------------------- MODULE Common -------------------------------
(***************************************************************************)
(* The types of include/common.sv every part of the memory path shares:    *)
(* privilege levels and the CBus response.  A CBus response is what the    *)
(* slave drives in one clock cycle; a beat is the end of the transfer when *)
(* ready and last are both high.  A request that is not valid is           *)
(* NoRequest in every module.                                              *)
(***************************************************************************)
EXTENDS Integers

PRV_U == 0
PRV_M == 3
Priv  == {PRV_U, PRV_M}

\* A response that carries nothing ('0 in the source).
NoResp == [ready |-> FALSE, last |-> FALSE, fault |-> FALSE]

\* The handshake that ends a single-beat transfer (MLEN1).
Okay(resp) == resp.ready /\ resp.last

Resp == [ready : BOOLEAN, last : BOOLEAN, fault : BOOLEAN]
=============================================================================
