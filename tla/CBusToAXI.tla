----------------------------- MODULE CBusToAXI ------------------------------
(***************************************************************************)
(* CBusToAXI.sv, from the cache bus to the five AXI channels, and an AXI   *)
(* memory behind it.  A request issues on the channels of its kind; each   *)
(* channel ends with its own handshake, and the adapter is free again when *)
(* all have.                                                               *)
(***************************************************************************)
EXTENDS AXITransaction

CONSTANT NoRequest
VARIABLES in_issue, saved_req, count,
          ar, aw, w, b, \* external: the read burst, the parts of a write, its response
          mem

\* Mutant of next_issue: the adapter does not wait for the end of a write.
NextIssueNoB(req) == IF req.is_write THEN {"AW", "W"} ELSE {"AR", "R"}

next_issue(req) == IF req.is_write THEN {"AW", "W", "B"} ELSE {"AR", "R"}

busy    == in_issue # {}
is_last == count = 0
rlast   == Last(ar)

\* The channels on which the memory may shake hands: data follows its address, and
\* the response of a write follows its effect.
Possible == in_issue \intersect ({"AR", "AW", "W"} \union {c \in {"R"} : ar.busy}
                                                \union {c \in {"B"} : b})

cresp(handshake) ==
    LET ready == handshake \intersect {"W", "R"} # {}
    IN  [ready |-> ready, fault |-> FALSE,
         last |-> ready /\ ("R" \in in_issue => rlast) /\ is_last]

ended(handshake) == handshake \ ({c \in {"R"} : ~rlast} \union {c \in {"W"} : ~is_last})

NoData == [busy |-> FALSE]

AxiInit == /\ in_issue = {} /\ saved_req = NoRequest /\ count = 0
           /\ ar = NoTransaction /\ aw = NoTransaction
           /\ w = NoData /\ b = FALSE

\* Not busy: the request is latched whether there is one or not.
Latch(req) == /\ ~busy
              /\ in_issue' = IF req = NoRequest THEN {} ELSE next_issue(req)
              /\ saved_req' = req
              /\ count' = IF req = NoRequest THEN 0 ELSE req.len

Issue(handshake) == /\ busy
                    /\ in_issue' = in_issue \ ended(handshake)
                    /\ count' = IF cresp(handshake).ready /\ ~cresp(handshake).last
                                THEN count - 1 ELSE count
                    /\ UNCHANGED saved_req

\* The memory takes and gives in its own time: effect says whether a write of which it
\* has both parts takes effect in this cycle.
AxiMemory(req, handshake, effect) ==
    /\ effect => aw.busy /\ w.busy
    /\ ar' = IF "AR" \in handshake THEN Started(saved_req)
             ELSE IF "R" \notin handshake THEN ar
             ELSE IF rlast THEN NoTransaction ELSE Advanced(ar)
    /\ mem' = IF effect THEN [mem EXCEPT ![aw.addr] = Stored(@, w.data, w.strobe)] ELSE mem
    /\ aw' = IF "AW" \in handshake THEN Started(saved_req)
             ELSE IF effect THEN NoTransaction ELSE aw
    /\ w' = IF "W" \in handshake
            THEN [busy |-> TRUE, data |-> req.data, strobe |-> req.strobe]
            ELSE IF effect THEN NoData ELSE w
    /\ b' = (effect \/ (b /\ "B" \notin handshake))

AxiCycle(req, handshake, effect) == /\ Latch(req) \/ Issue(handshake)
                                    /\ AxiMemory(req, handshake, effect)
=============================================================================
