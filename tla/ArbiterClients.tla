--------------------------- MODULE ArbiterClients ---------------------------
(***************************************************************************)
(* The arbiter closed with masters that keep a request and its privilege   *)
(* stable until it is answered, as fetch.sv and mem.sv do, and a slave     *)
(* that answers in its own time.  overtaken counts, for every waiting      *)
(* master, the grants other masters got since it began to wait.            *)
(***************************************************************************)
EXTENDS CBusArbiter

VARIABLES ireqs, iprivs, overtaken

clientVars == <<ireqs, iprivs>>
vars == <<arbVars, clientVars, overtaken>>

\* Master i sees its answer in this cycle.
Served(i, oresp) == Okay(iresps(oresp)[i])

\* A master may start, change or withdraw a request only when it is not waiting.
ClientCycle(oresp) ==
    /\ ireqs' \in [Inputs -> Request \union {NoRequest}]
    /\ iprivs' \in [Inputs -> Priv]
    /\ \A i \in Inputs :
          Valid(ireqs[i]) /\ ~Served(i, oresp)
             => ireqs'[i] = ireqs[i] /\ iprivs'[i] = iprivs[i]

Waiting(i) == Valid(ireqs[i]) /\ ~(busy /\ index = i)

CountGrant == overtaken' = [i \in Inputs |->
    IF Valid(ireqs[i]) /\ i # Select(ireqs) THEN overtaken[i] + 1 ELSE 0]

GrantStep   == /\ Grant(ireqs, iprivs) /\ ClientCycle(NoResp) /\ CountGrant
IdleStep    == /\ Idle(ireqs, iprivs) /\ ClientCycle(NoResp)
               /\ UNCHANGED overtaken
HoldStep(oresp)    == Hold(oresp) /\ ClientCycle(oresp) /\ UNCHANGED overtaken
ReleaseStep(oresp) == Release(oresp) /\ ClientCycle(oresp) /\ UNCHANGED overtaken

\* One clock cycle in which the slave answers oresp.
Step(oresp) == GrantStep \/ IdleStep \/ HoldStep(oresp) \/ ReleaseStep(oresp)

Init == /\ ArbInit
        /\ ireqs = [i \in Inputs |-> NoRequest]
        /\ iprivs \in [Inputs -> Priv]
        /\ overtaken = [i \in Inputs |-> 0]

Next == \E oresp \in Resp : Step(oresp)

Safety == Init /\ [][Next]_vars
-----------------------------------------------------------------------------
TypeOK == /\ ArbTypeOK
          /\ ireqs \in [Inputs -> Request \union {NoRequest}]
          /\ iprivs \in [Inputs -> Priv]
          /\ overtaken \in [Inputs -> Nat]

(* While the bus is busy it carries the request, and the privilege, that   *)
(* the granted master is still asking with: no answer goes to a master     *)
(* that asked for something else (oreq/opriv mux and iresps routing).      *)
SavedIsAsked ==
    busy => saved_req = ireqs[index] /\ saved_priv = iprivs[index]

(* Round robin: a master waits for at most one grant to each of the others *)
(* (select loop and grant_ptr update).                                     *)
BoundedOvertaking == \A i \in Inputs : overtaken[i] <= NUM_INPUTS - 1

\* What makes BoundedOvertaking inductive: the grants a waiting master has seen
\* and the masters still ahead of it in the search never exceed the others.
PtrAfter == IF busy THEN NextPtr(index) ELSE grant_ptr

Fresh == \A i \in Inputs : ~Waiting(i) => overtaken[i] = 0
Ahead == \A i \in Inputs :
            Waiting(i) => overtaken[i] + Dist(PtrAfter, i) <= NUM_INPUTS - 1
IInv  == TypeOK /\ SavedIsAsked /\ Fresh /\ Ahead
=============================================================================
