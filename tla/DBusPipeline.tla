---------------------------- MODULE DBusPipeline ----------------------------
(***************************************************************************)
(* bus.h, DBusPipelineGen over DBusGen: accesses are queued, the first of  *)
(* them is on the bus, and each tick may complete it.  Also DBusGen's own  *)
(* load and store, which wait for one access.  A call is what the test     *)
(* asks; the task made of it has the data placed on the lanes.             *)
(***************************************************************************)
EXTENDS LoadOp, Sequences

CONSTANTS NoRequest, NoDest
VARIABLES ongoing,      \* the tasks
          dreq,         \* the request port of the DBus
          dest,         \* the variables the test loads into
          mismatch      \* an expect has failed: the simulation ends

busy       == dreq # NoRequest
is_load(t) == t.strobe = {}

\* loadw, storew, expectw and their kin for the other widths.
Load(c)   == [addr |-> c.addr, size |-> c.size, data |-> Zero, strobe |-> {},
              dest |-> c.dest, load_op |-> parse(c.size, c.addr.offset)]
Store(c)  == LET op == parse(c.size, c.addr.offset)
             IN  [addr |-> c.addr, size |-> c.size, data |-> place(op, c.data),
                  strobe |-> strobe(op), dest |-> NoDest, load_op |-> SIZE8_SHT0]
Expect(c) == LET op == parse(c.size, c.addr.offset)
             IN  [addr |-> c.addr, size |-> c.size, data |-> place(op, c.data),
                  strobe |-> {}, dest |-> NoDest, load_op |-> op]

Task(c) == CASE c.kind = "load" -> Load(c) [] c.kind = "store" -> Store(c)
             [] c.kind = "expect" -> Expect(c)

\* async_load and async_store: what issue puts on the port.
request(t) == [is_write |-> ~is_load(t), addr |-> [t.addr EXCEPT !.bit31 = TRUE],
               size |-> t.size, len |-> 0, strobe |-> t.strobe, data |-> t.data]

\* The bytes an expect compares.
differs(t, word) == \E b \in mask(t.load_op) : t.data[b] # word[b]

-----------------------------------------------------------------------------
submit(t) == /\ ongoing' = Append(ongoing, t)
             /\ dreq' = IF busy THEN dreq ELSE request(t)
             /\ UNCHANGED <<dest, mismatch>>

complete(t, word) ==
    /\ dest' = IF t.dest = NoDest THEN dest
               ELSE [dest EXCEPT ![t.dest] = apply_to(t.load_op, word, @)]
    /\ mismatch' = (t.dest = NoDest /\ is_load(t) /\ differs(t, word))

\* Mutant of tick: the next task is not issued.
tick_stopping(resp) ==
    LET answered == resp.ready /\ resp.last /\ busy
    IN  /\ ongoing' = IF answered THEN Tail(ongoing) ELSE ongoing
        /\ dreq' = IF answered THEN NoRequest ELSE dreq
        /\ IF answered THEN complete(Head(ongoing), resp.data) ELSE UNCHANGED <<dest, mismatch>>

\* After top->tick(), with the signals as they were before it.
tick(resp) ==
    LET answered == resp.ready /\ resp.last /\ busy
        rest     == IF answered THEN Tail(ongoing) ELSE ongoing
    IN  /\ ongoing' = rest
        /\ dreq' = IF rest = <<>> THEN NoRequest ELSE request(Head(rest))
        /\ IF answered THEN complete(Head(ongoing), resp.data) ELSE UNCHANGED <<dest, mismatch>>

\* One turn of await's loop.  The access is a local of its caller, kept in ongoing;
\* a load returns its bytes alone (loadw and its kin mask them).
await_tick(resp) ==
    LET answered == resp.ready /\ resp.last
        t        == Head(ongoing)
    IN  /\ ongoing' = IF answered THEN <<>> ELSE ongoing
        /\ dreq' = IF answered THEN NoRequest ELSE dreq
        /\ dest' = IF answered /\ t.dest # NoDest
                   THEN [dest EXCEPT ![t.dest] = apply_to(t.load_op, resp.data, Zero)]
                   ELSE dest
        /\ UNCHANGED mismatch
=============================================================================
