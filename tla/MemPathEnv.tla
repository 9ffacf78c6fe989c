----------------------------- MODULE MemPathEnv -----------------------------
(***************************************************************************)
(* The memory path closed with any core and any memory: the core redirects,*)
(* flushes, accepts, changes privilege and satp; memory answers in its own *)
(* time, with any PTE.  Ghost variables record what the properties relate. *)
(***************************************************************************)
EXTENDS PathClients

VARIABLES target,       \* ghost: the pc the core expects next
          stale,        \* ghost: fetch in service began before the last redirect
          held_stale,   \* ghost: the same, of the instruction in fetch
          performed,    \* ghost: accesses made for the instruction in the stage
          outcome       \* ghost: accesses made for the last one that left

ghosts == <<target, stale, held_stale, performed, outcome>>
vars   == <<clientVars, ghosts>>

MAX_PC == CHOOSE p \in PCs : \A q \in PCs : q <= p

Init == /\ ClientsInit
        /\ target = PCINIT
        /\ stale = FALSE
        /\ held_stale = FALSE
        /\ performed = 0
        /\ outcome = [failed |-> TRUE, n |-> 0]

\* A flush goes to the handler, which has one address.
Controls(waits) ==
       {Control("redirect", pc, priv) : pc \in PCs, priv \in Privs("redirect")}
    \union {Control("flush", PCINIT, priv) : priv \in Privs("flush")}
    \union {Control("none", PCINIT, priv) : priv \in Privs("none")}
    \union {Control("accept", PCINIT, priv) : priv \in
              IF fetch_valid /\ ~waits /\ fetch_pc + 4 <= MAX_PC THEN Privs("accept") ELSE {}}

\* A data access reaches memory and is done in this cycle.
Hits(dn_resp) == state = "FINAL_REQ" /\ dn_done(dn_resp) /\ index = DPORT

\* The request of fetch is granted in this cycle.
Grants == ~busy /\ Arb!Valid(icreq) /\ Arb!Select(creqs(ex_mem)) = IPORT

\* One cycle of the path under the controls ctl, with the bookkeeping of it.
Clock(ctl, satp, dn_resp, dn_data) ==
    LET dr     == dresp(dn_resp, dn_data)
        ir     == iresp(dn_resp, dn_data)
        waits  == mem_wait(ex_mem, dr)
        leaves == cur_is_mem(ex_mem) /\ ~waits
        made   == performed + IF Hits(dn_resp) THEN 1 ELSE 0
        kicked == ctl.redirect_valid \/ ctl.flush
    IN  /\ PathStep(ctl, satp, dn_resp, dn_data)
        /\ target' = IF kicked THEN ctl.redirect_pc
                     ELSE IF ctl.fetch_accept THEN fetch_pc + 4 ELSE target
        /\ stale' = (kicked \/ (~Grants /\ stale))
        /\ held_stale' = IF response_fire(ir) THEN stale ELSE held_stale
        /\ performed' = IF leaves THEN 0 ELSE made
        /\ outcome' = IF leaves
                      THEN [failed |-> out_fault(ex_mem, dr) \/ out_misaligned(ex_mem, dr),
                            n |-> made]
                      ELSE outcome

Cycle(dn_resp) ==
    \E dn_data \in Lines, satp \in Roots :
        \E ctl \in Controls(mem_wait(ex_mem, dresp(dn_resp, dn_data))) :
            Clock(ctl, satp, dn_resp, dn_data)

Quiet   == Cycle(NoResp)
Answers == Cycle(OK)

Next   == Quiet \/ Answers
Safety == Init /\ [][Next]_vars
-----------------------------------------------------------------------------
(* The instruction fetch offers is the one the core expects next, and was  *)
(* fetched by a request that reached the MMU after the last redirect: none *)
(* from before a satp, mret or trap switch is ever offered.                *)
FreshFetch == fetch_valid => fetch_pc = target /\ ~held_stale

(* A memory instruction that leaves the stage made its access exactly      *)
(* once, and none at all when it faulted or was misaligned.                *)
ExactlyOnce == outcome.n = IF outcome.failed THEN 0 ELSE 1

(* What makes them inductive.  Fetch follows the core's program counter,   *)
(* its request too unless it is to be dropped, and only a request to be    *)
(* dropped may be in service since before the last redirect.               *)
Follows == /\ fetch.pc_q = target
           /\ fetch.req_pending_q /\ ~fetch.drop_resp_q => fetch.req_pc_q = target
           /\ busy /\ index = IPORT /\ ~fetch.drop_resp_q => ~stale

IInv == PathInv /\ FreshFetch /\ ExactlyOnce /\ Follows /\ performed = 0
=============================================================================
