-------------------------- MODULE TestbenchProofs --------------------------
(***************************************************************************)
(* For any tests, calls, memory and characters: the calls take effect in   *)
(* program order on one memory, no test starts over the remains of         *)
(* another, and nothing the program reads or writes at the devices is      *)
(* lost, repeated or reordered.                                            *)
(***************************************************************************)
EXTENDS Testbench, NatLemmas, SequenceTheorems

ProperCall == {c \in Call : Proper(c)}

-----------------------------------------------------------------------------
(* Confreg.                                                                *)

Char    == Nat \ {0}
Context == [uart_avail : BOOLEAN, uart_written : BOOLEAN, uart_fetched : BOOLEAN,
            uart_data : Nat, vuart_written : BOOLEAN, vuart_data : Nat,
            v_open_trace : BOOLEAN, v_num_monitor : BOOLEAN, v_num : Data]
Con == [opty : Seq(Nat), changes : Seq([addr : Nat, data : Data]), ctx : Context,
        ctx0 : Context, mem : [DOMAIN C!ResetRegisters -> Data], ififo : Seq(Char)]

LEMMA ZeroData == Zero \in Data /\ C!Zero = Zero /\ C!Lanes = Lanes /\ P!Zero = Zero /\ P!Lanes = Lanes
BY DEF Data, Zero, Lanes, C!Zero, C!Lanes, P!Zero, P!Lanes

LEMMA SmallData ==
    /\ \A n \in Nat : C!Word(n) \in Data
    /\ C!Word(0) \in Data /\ C!Word(1) \in Data
    /\ C!Ones \in Data
    /\ \A data \in Data : C!swap_bytes(data) \in Data
BY ZeroData DEF C!Word, C!Bit, C!Ones, C!swap_bytes, Data, Lanes

LEMMA ResetType == C!ResetContext \in Context /\ C!ResetRegisters \in [DOMAIN C!ResetRegisters -> Data]
BY ZeroData, SmallData DEF C!ResetContext, C!ResetRegisters, C!Bit, Context

LEMMA KeptType == ASSUME NEW addr, NEW data \in Data
                  PROVE  C!Kept(addr, data) \in Data
<1>1. C!Word(data[0]) \in Data
  BY SmallData DEF Data, Lanes
<1>2. C!Bit(data # C!Zero) \in Data
  BY SmallData DEF C!Bit
<1>3. C!Bit(data[0] % 2 = 1) \in Data
  BY SmallData DEF C!Bit
<1> QED
  BY <1>1, <1>2, <1>3, SmallData DEF C!Kept

LEMMA NotedType == ASSUME NEW addr, NEW data \in Data, NEW ctx \in Context
                   PROVE  C!Noted(ctx, addr, data) \in Context
<1>1. data[0] \in Nat
  BY DEF Data, Lanes
<1>2. [ctx EXCEPT !.uart_written = TRUE, !.uart_data = data[0]] \in Context
  BY <1>1 DEF Context
<1>3. [ctx EXCEPT !.vuart_written = TRUE, !.vuart_data = data[0]] \in Context
  BY <1>1 DEF Context
<1>4. [ctx EXCEPT !.v_open_trace = (data # C!Zero)] \in Context
  BY <1>1 DEF Context
<1>5. [ctx EXCEPT !.v_num_monitor = (data[0] % 2 = 1)] \in Context
  BY <1>1 DEF Context
<1>6. [ctx EXCEPT !.v_num = data] \in Context
  BY <1>1 DEF Context
<1> QED
  BY <1>2, <1>3, <1>4, <1>5, <1>6 DEF C!Noted

\* The last change to each register is one of the changes.
LEMMA CommittedType ==
    ASSUME NEW mem \in [DOMAIN C!ResetRegisters -> Data],
           NEW changes \in Seq([addr : Nat, data : Data])
    PROVE  C!Committed(mem, changes) \in [DOMAIN C!ResetRegisters -> Data]
<1> SUFFICES ASSUME NEW r \in DOMAIN mem,
                    NEW own, own = {i \in DOMAIN changes : changes[i].addr = r}, own # {}
             PROVE  changes[C!Max(own)].data \in Data
  BY DEF C!Committed
<1>1. own \in SUBSET (1 .. Len(changes)) /\ Len(changes) \in Nat
  OBVIOUS
<1> DEFINE far == {Len(changes) - i : i \in own}
<1>2. far \in SUBSET Nat /\ far # {}
  BY <1>1
<1>3. PICK m \in far : \A n \in far : m <= n
  BY <1>2, LeastElement
<1>4. PICK i \in own : m = Len(changes) - i
  OBVIOUS
<1>5. \A k \in own : k <= i
  <2> SUFFICES ASSUME NEW k \in own PROVE k <= i
    OBVIOUS
  <2>1. m <= Len(changes) - k
    BY <1>3
  <2> QED
    BY <1>1, <1>4, <2>1
<1>6. C!Max(own) \in own
  BY <1>5 DEF C!Max
<1>7. C!Max(own) \in 1 .. Len(changes)
  BY <1>1, <1>6
<1>8. changes[C!Max(own)] \in [addr : Nat, data : Data]
  BY <1>7, ElementOfSeq
<1> QED
  BY <1>8

LEMMA LoadType ==
    ASSUME NEW c \in Con, NEW addr \in Nat, c.ctx.uart_avail => c.ififo # <<>>
    PROVE  C!load(c, addr) \in Data /\ C!Loaded(c, addr) \in Con
<1>1. c.ctx \in Context /\ c.ififo \in Seq(Char) /\ c.mem \in [DOMAIN C!ResetRegisters -> Data]
  BY DEF Con
<1>2. c.ctx.uart_avail => Head(c.ififo) \in Nat
  BY <1>1 DEF Char
<1>3. C!load(c, addr) \in Data
  BY <1>1, <1>2, ZeroData, SmallData DEF C!load, C!Bit
<1>4. [c.ctx EXCEPT !.uart_fetched = @ \/ c.ctx.uart_avail] \in Context
  BY <1>1 DEF Context
<1>5. C!Loaded(c, addr) \in Con
  BY <1>4 DEF C!Loaded, Con
<1> QED
  BY <1>3, <1>5

LEMMA StoredType == ASSUME NEW c \in Con, NEW addr \in Nat, NEW data \in Data
                    PROVE  C!Stored(c, addr, data) \in Con
<1>1. C!Noted(c.ctx, addr, data) \in Context
  BY NotedType DEF Con
<1>2. Append(c.changes, [addr |-> addr, data |-> C!Kept(addr, data)])
      \in Seq([addr : Nat, data : Data])
  BY KeptType DEF Con
<1> QED
  BY <1>1, <1>2 DEF C!Stored, Con

LEMMA SyncedType ==
    ASSUME NEW c \in Con, c.ctx.uart_fetched => c.ififo # <<>>
    PROVE  C!Synced(c) \in Con
<1>1. c.ctx \in Context /\ c.ififo \in Seq(Char)
      /\ (c.ctx.uart_fetched => Tail(c.ififo) \in Seq(Char))
  BY DEF Con
<1>2. C!Committed(c.mem, c.changes) \in [DOMAIN C!ResetRegisters -> Data]
  BY CommittedType DEF Con
<1>3. Append(c.opty, c.ctx.uart_data) \in Seq(Nat)
  BY DEF Con, Context
<1>4. \A flag \in BOOLEAN :
          [c.ctx EXCEPT !.uart_avail = flag, !.uart_written = FALSE,
                        !.uart_fetched = FALSE, !.vuart_written = FALSE] \in Context
  BY <1>1 DEF Context
<1> DEFINE ififo == IF c.ctx.uart_fetched THEN Tail(c.ififo) ELSE c.ififo
           opty  == IF c.ctx.uart_written THEN Append(c.opty, c.ctx.uart_data) ELSE c.opty
           ctx   == [c.ctx EXCEPT !.uart_avail = (ififo # <<>>), !.uart_written = FALSE,
                                  !.uart_fetched = FALSE, !.vuart_written = FALSE]
           mem   == C!Committed(c.mem, c.changes)
<1>5. C!Synced(c) = [c EXCEPT !.ififo = ififo, !.opty = opty, !.ctx0 = c.ctx, !.ctx = ctx,
                              !.mem = mem, !.changes = <<>>]
  BY DEF C!Synced
<1>6. ififo \in Seq(Char) /\ opty \in Seq(Nat) /\ ctx \in Context
      /\ mem \in [DOMAIN C!ResetRegisters -> Data]
  BY <1>1, <1>2, <1>3, <1>4 DEF Con
<1>7. <<>> \in Seq([addr : Nat, data : Data])
  OBVIOUS
<1> HIDE DEF ififo, opty, ctx, mem
<1> QED
  BY <1>1, <1>5, <1>6, <1>7 DEF Con

-----------------------------------------------------------------------------
(* The inductive invariant.                                                *)

ProperTask == {P!Task(c) : c \in ProperCall}
Number     == [num : Nat, ack : Nat]

TypeInv == /\ sync_order \in {"device", "confreg"} /\ enable \in BOOLEAN
           /\ ram \in [1 .. Len(saved_mem) -> Data] /\ con \in Con
           /\ typed \in Nat /\ held \in Char \union {NoChar}
           /\ test \in Tests /\ dest \in [Dests -> Data] /\ mismatch \in BOOLEAN
           /\ asked \in Seq(ProperCall) /\ ongoing \in Seq(ProperTask)

\* The pipeline holds the tasks of the calls not yet answered, the first of them is on
\* the port, and CBusDevice has taken up no other.
PortInv == /\ Len(ongoing) = Len(asked)
           /\ \A i \in 1 .. Len(asked) : ongoing[i] = P!Task(asked[i])
           /\ dreq = IF asked = <<>> THEN NoRequest ELSE P!request(P!Task(asked[1]))
           /\ \/ tx = D!NoTransaction
              \/ asked # <<>> /\ tx = D!Started(creq(dreq))
           /\ at = "await" => Len(asked) = 1 /\ asked[1].kind # "expect"
           /\ at \in {"pre", "post"} => asked = <<>>

\* What the thread has read and the program has not got.
Held    == IF held = NoChar THEN <<>> ELSE <<held>>
CharInv == /\ got \in Seq(Char)
           /\ ~con.ctx.uart_fetched
           /\ CharsOnce
           /\ Len(got \o con.ififo \o Held) <= typed

\* What is not yet published is what was stored last.
Said     == stderr \o char_buffer
PrintInv == /\ said \in Seq(Nat) /\ stderr \in Seq(Nat) /\ char_buffer \in Seq(Nat)
            /\ Published(Unsaid, said) = Said
            /\ sync_order = "device" => ~con.ctx.vuart_written
            /\ Unsaid => said # <<>> /\ said[Len(said)] = con.ctx.vuart_data
SendInv  == /\ sent \in Seq(Nat)
            /\ Published(Unsent, sent) = con.opty
            /\ sync_order = "device" => ~con.ctx.uart_written
            /\ Unsent => sent # <<>> /\ sent[Len(sent)] = con.ctx.uart_data

-----------------------------------------------------------------------------
(* Calls, and the requests made of them.                                   *)

\* An aligned access lies in one word.
LEMMA InOneWord ==
    ASSUME NEW offset \in Nat, NEW size \in Widths, offset % size = 0
    PROVE  /\ offset % 8 \in 0 .. 7 /\ offset \div 8 \in Nat
           /\ offset = 8 * (offset \div 8) + (offset % 8)
           /\ ((offset % 8) \div size) * size = offset % 8
           /\ (offset % 8) + size <= 8
<1>1. offset % 8 \in 0 .. 7 /\ offset \div 8 \in Nat /\ offset = 8 * (offset \div 8) + (offset % 8)
  OBVIOUS
<1>2. CASE size = 1
  BY <1>1, <1>2
<1>3. CASE size = 2
  BY <1>1, <1>3
<1>4. CASE size = 4
  BY <1>1, <1>4
<1>5. CASE size = 8
  BY <1>1, <1>5
<1> QED
  BY <1>2, <1>3, <1>4, <1>5 DEF Widths

Sht(c) == c.addr.offset % 8
Op(c)  == [width |-> c.size, sht |-> Sht(c)]

\* The lanes of a call are where its address says.
LEMMA CallOp ==
    ASSUME NEW c \in ProperCall
    PROVE  /\ P!parse(c.size, c.addr.offset) = Op(c)
           /\ c.size \in 1 .. 8 /\ c.addr.offset \in Nat
           /\ Sht(c) \in 0 .. 7 /\ Sht(c) + c.size <= 8
           /\ P!strobe(Op(c)) = {b \in Lanes : Sht(c) <= b /\ b < Sht(c) + c.size}
<1>1. c.size \in Widths /\ c.addr.offset \in Nat /\ c.addr.offset % c.size = 0
  BY DEF ProperCall, Call, Proper
<1> QED
  BY <1>1, InOneWord DEF P!parse, P!strobe, P!Lanes, Lanes, Op, Sht, Widths

\* What is placed on the lanes.
LEMMA PlaceType ==
    ASSUME NEW c \in ProperCall
    PROVE  /\ P!place(Op(c), c.data) \in Data
           /\ \A b \in Lanes : P!place(Op(c), c.data)[b] =
                  IF b < Sht(c) THEN 0 ELSE c.data[b - Sht(c)]
           /\ Sht(c) = 0 => P!place(Op(c), c.data) = c.data
<1>1. c.data \in [0 .. 7 -> Nat]
  BY DEF ProperCall, Call, Data, Lanes
<1>2. Op(c).sht = Sht(c) /\ Sht(c) \in 0 .. 7
  BY CallOp DEF Op
<1>3. P!place(Op(c), c.data) =
        [b \in 0 .. 7 |-> IF b < Sht(c) THEN 0 ELSE c.data[b - Sht(c)]]
  BY <1>2 DEF P!place, P!Lanes
<1> QED
  BY <1>1, <1>2, <1>3 DEF Data, Lanes

\* The task of a call.
LEMMA CallTask ==
    ASSUME NEW c \in ProperCall, NEW t, t = P!Task(c)
    PROVE  /\ t.addr = c.addr /\ t.size = c.size /\ t.dest = c.dest
           /\ t.strobe = IF c.kind = "store" THEN P!strobe(Op(c)) ELSE {}
           /\ t.data = IF c.kind = "load" THEN Zero ELSE P!place(Op(c), c.data)
           /\ c.kind # "store" => t.load_op = Op(c)
           /\ P!is_load(t) <=> c.kind # "store"
<1>1. c.kind \in {"load", "store", "expect"} /\ (c.dest = NoDest <=> c.kind # "load")
  BY DEF ProperCall, Call, Proper
<1>2. Sht(c) \in P!strobe(Op(c))
  BY CallOp DEF Lanes
<1>3. CASE c.kind = "load"
  BY <1>3, CallOp, ZeroData DEF P!Task, P!Load, P!is_load
<1>4. CASE c.kind = "store"
  BY <1>1, <1>2, <1>4, CallOp DEF P!Task, P!Store, P!is_load
<1>5. CASE c.kind = "expect"
  BY <1>1, <1>5, CallOp DEF P!Task, P!Expect, P!is_load
<1> QED
  BY <1>1, <1>3, <1>4, <1>5

\* Its request, and what of it the devices see.
LEMMA CallRequest ==
    ASSUME NEW c \in ProperCall, NEW r, r = P!request(P!Task(c))
    PROVE  /\ r \in Request /\ r # NoRequest
           /\ creq(r).is_write <=> c.kind = "store"
           /\ creq(r).addr.region = c.addr.region /\ creq(r).addr.offset = c.addr.offset
           /\ creq(r).len = 0 /\ creq(r).size = c.size
           /\ c.kind = "store" => /\ creq(r).strobe = P!strobe(Op(c))
                                  /\ creq(r).data = P!place(Op(c), c.data)
<1> DEFINE t == P!Task(c)
<1>1. t.addr \in [region : {"boot", "low", "confreg"}, offset : Nat, bit31 : {FALSE}]
      /\ t.size \in Widths /\ t.addr = c.addr /\ t.size = c.size
  BY CallTask DEF ProperCall, Call
<1>2. t.strobe \in SUBSET Lanes /\ t.data \in Data
  BY CallTask, PlaceType, ZeroData DEF P!strobe
<1>3. P!is_load(t) <=> c.kind # "store"
  BY CallTask
<1> DEFINE is_write == ~P!is_load(t)
           a == [t.addr EXCEPT !.bit31 = TRUE]
<1>4. r = [is_write |-> is_write, addr |-> a,
           size |-> t.size, len |-> 0, strobe |-> t.strobe, data |-> t.data]
  BY DEF P!request
<1>5. a \in [region : {"boot", "low", "confreg"}, offset : Nat, bit31 : BOOLEAN]
      /\ a.region = c.addr.region /\ a.offset = c.addr.offset
  BY <1>1
<1>6. is_write \in BOOLEAN /\ (is_write <=> c.kind = "store")
  BY <1>3
<1>7. c.kind = "store" => t.strobe = P!strobe(Op(c)) /\ t.data = P!place(Op(c), c.data)
  BY CallTask
<1> HIDE DEF t, is_write, a
<1>8. r \in Request
  BY <1>1, <1>2, <1>4, <1>5, <1>6 DEF Request
<1>9. r # NoRequest
  BY <1>8, TestbenchAssumption
<1>10. creq(r) = [r EXCEPT !.addr.bit31 = FALSE]
  BY <1>9 DEF creq
<1> QED
  BY <1>1, <1>4, <1>5, <1>6, <1>7, <1>8, <1>9, <1>10

-----------------------------------------------------------------------------
(* One tick.                                                               *)

\* The router gives the registers their own accesses and memory the others.
LEMMA Routed ==
    ASSUME NEW addr, addr.region \in {"boot", "low", "confreg"}
    PROVE  InRam(addr) <=> addr.region # "confreg"
<1> DEFINE hits == {e \in DOMAIN Layout : addr.region \in Layout[e].regions}
<1>1. DOMAIN Layout = 1 .. 3
  BY DEF Layout
<1>2. CASE addr.region = "boot"
  <2>1. hits = {1, 3}
    BY <1>1, <1>2 DEF Layout
  <2>2. Min(hits) = 1
    BY <2>1 DEF Min
  <2> QED
    BY <1>2, <2>2 DEF InRam, search, Layout
<1>3. CASE addr.region = "low"
  <2>1. hits = {3}
    BY <1>1, <1>3 DEF Layout
  <2>2. Min(hits) = 3
    BY <2>1 DEF Min
  <2> QED
    BY <1>3, <2>2 DEF InRam, search, Layout
<1>4. CASE addr.region = "confreg"
  <2>1. hits = {2, 3}
    BY <1>1, <1>4 DEF Layout
  <2>2. Min(hits) = 2
    BY <2>1 DEF Min
  <2> QED
    BY <1>4, <2>2 DEF InRam, search, Layout
<1> QED
  BY <1>2, <1>3, <1>4

Answered == enable /\ tx.busy

\* What CBusDevice does in a cycle, in terms of the first call.
LEMMA Served ==
    ASSUME TypeInv, PortInv
    PROVE  /\ oresp.ready /\ oresp.last <=> Answered
           /\ Answered => asked # <<>> /\ asked[1] \in ProperCall /\ dreq # NoRequest
           /\ D!loads <=> Answered /\ asked[1].kind # "store"
           /\ D!stores <=> Answered /\ asked[1].kind = "store"
           /\ Answered => /\ InRam(tx.addr) <=> asked[1].addr.region # "confreg"
                          /\ tx.addr.region = asked[1].addr.region
                          /\ tx.addr.offset = asked[1].addr.offset
                          /\ D!Last(tx)
           /\ ~tx.busy => tx = D!NoTransaction
<1>1. D!NoTransaction.busy = FALSE
  BY DEF D!NoTransaction
<1>2. CASE tx = D!NoTransaction
  BY <1>1, <1>2 DEF Answered, oresp, D!eval_resp, D!NoResp, D!loads, D!stores
<1>3. CASE asked # <<>> /\ tx = D!Started(creq(dreq))
  <2>1. asked[1] \in ProperCall
    <3>1. asked \in Seq(ProperCall)
      BY DEF TypeInv
    <3> QED
      BY <1>3, <3>1
  <2>2. dreq = P!request(P!Task(asked[1]))
    BY <1>3 DEF PortInv
  <2>3. /\ tx.busy = TRUE /\ tx.N = 1 /\ tx.Burst_Length = 1
        /\ tx.is_write <=> asked[1].kind = "store"
        /\ tx.addr.region = asked[1].addr.region /\ tx.addr.offset = asked[1].addr.offset
        /\ dreq # NoRequest
    BY <1>3, <2>1, <2>2, CallRequest DEF D!Started
  <2>4. D!Last(tx)
    BY <2>3 DEF D!Last
  <2>5. InRam(tx.addr) <=> asked[1].addr.region # "confreg"
    <3>1. tx.addr.region \in {"boot", "low", "confreg"}
      BY <2>1, <2>3 DEF ProperCall, Call
    <3> QED
      BY <2>3, <3>1, Routed
  <2>6. oresp.ready /\ oresp.last <=> Answered
    BY <2>3 DEF oresp, D!eval_resp, D!NoResp, D!Last, Answered
  <2> QED
    BY <1>3, <2>1, <2>3, <2>4, <2>5, <2>6 DEF Answered, D!loads, D!stores
<1> QED
  BY <1>2, <1>3 DEF PortInv

\* The tick ends a store to, or a load of, a register of Confreg.
Took(reg) == Answered /\ Writes(asked[1], reg)
Gave(reg) == Answered /\ Reads(asked[1], reg)

\* What the stores of a tick leave in the context, by field.
LEMMA NotedFields ==
    ASSUME NEW ctx \in Context, NEW addr, NEW data, NEW n, n = C!Noted(ctx, addr, data)
    PROVE  /\ n.uart_avail = ctx.uart_avail /\ n.uart_fetched = ctx.uart_fetched
           /\ n.uart_written <=> (addr = C!UART_TXD \/ ctx.uart_written)
           /\ n.uart_data = IF addr = C!UART_TXD THEN data[0] ELSE ctx.uart_data
           /\ n.vuart_written <=> (addr = C!VIRTUAL_UART \/ ctx.vuart_written)
           /\ n.vuart_data = IF addr = C!VIRTUAL_UART THEN data[0] ELSE ctx.vuart_data
           /\ n.v_num = IF addr = C!NUM THEN data ELSE ctx.v_num
           /\ addr # C!NUM_MONITOR => n.v_num_monitor = ctx.v_num_monitor
<1> USE DEF C!UART_TXD, C!VIRTUAL_UART, C!NUM, C!OPEN_TRACE, C!NUM_MONITOR
<1>1. CASE addr = C!UART_TXD
  BY <1>1 DEF C!Noted, Context
<1>2. CASE addr = C!VIRTUAL_UART
  BY <1>2 DEF C!Noted, Context
<1>3. CASE addr = C!NUM
  BY <1>3 DEF C!Noted, Context
<1>4. CASE addr = C!OPEN_TRACE
  BY <1>4 DEF C!Noted, Context
<1>5. CASE addr = C!NUM_MONITOR
  BY <1>5 DEF C!Noted, Context
<1>6. CASE addr \notin {C!UART_TXD, C!VIRTUAL_UART, C!NUM, C!OPEN_TRACE, C!NUM_MONITOR}
  BY <1>6 DEF C!Noted, Context
<1> QED
  BY <1>1, <1>2, <1>3, <1>4, <1>5, <1>6

\* A context as a field of what Confreg becomes.
LEMMA ConFields ==
    ASSUME NEW c \in Con
    PROVE  c.ctx \in Context /\ c.ctx0 \in Context /\ c.ififo \in Seq(Char) /\ c.opty \in Seq(Nat)
BY DEF Con

LEMMA StoredFields ==
    ASSUME NEW c \in Con, NEW addr, NEW data, NEW s, s = C!Stored(c, addr, data)
    PROVE  /\ s.ififo = c.ififo /\ s.opty = c.opty /\ s.ctx0 = c.ctx0
           /\ s.ctx = C!Noted(c.ctx, addr, data)
BY DEF C!Stored, Con

LEMMA SyncedFields ==
    ASSUME NEW c \in Con, NEW s, s = C!Synced(c)
    PROVE  /\ s.ififo = IF c.ctx.uart_fetched THEN Tail(c.ififo) ELSE c.ififo
           /\ s.opty = IF c.ctx.uart_written THEN Append(c.opty, c.ctx.uart_data) ELSE c.opty
           /\ s.ctx0 = c.ctx
           /\ s.ctx.uart_avail <=> s.ififo # <<>>
           /\ ~s.ctx.uart_fetched /\ ~s.ctx.uart_written /\ ~s.ctx.vuart_written
           /\ s.ctx.uart_data = c.ctx.uart_data /\ s.ctx.vuart_data = c.ctx.vuart_data
           /\ s.ctx.v_num = c.ctx.v_num /\ s.ctx.v_num_monitor = c.ctx.v_num_monitor
BY ConFields DEF C!Synced, Con, Context

LEMMA LoadedFields ==
    ASSUME NEW c \in Con, NEW addr, NEW s, s = C!Loaded(c, addr)
    PROVE  /\ s.ififo = c.ififo /\ s.opty = c.opty /\ s.ctx0 = c.ctx0
           /\ s.ctx.uart_fetched <=>
                 c.ctx.uart_fetched \/ (addr = C!UART_RXD /\ c.ctx.uart_avail)
           /\ s.ctx.uart_written = c.ctx.uart_written /\ s.ctx.uart_data = c.ctx.uart_data
           /\ s.ctx.vuart_written = c.ctx.vuart_written /\ s.ctx.vuart_data = c.ctx.vuart_data
           /\ s.ctx.v_num = c.ctx.v_num /\ s.ctx.v_num_monitor = c.ctx.v_num_monitor
           /\ s.ctx.uart_avail = c.ctx.uart_avail
BY ConFields DEF C!Loaded, Con, Context

LEMMA AfterLoadFields ==
    ASSUME TypeInv, PortInv, con.ctx.uart_avail => con.ififo # <<>>, NEW l, l = AfterLoad
    PROVE  /\ l \in Con
           /\ l.ififo = con.ififo /\ l.opty = con.opty
           /\ l.ctx.uart_fetched <=>
                 con.ctx.uart_fetched \/ (Gave(C!UART_RXD) /\ con.ctx.uart_avail)
           /\ l.ctx.uart_written <=> con.ctx.uart_written
           /\ l.ctx.vuart_written <=> con.ctx.vuart_written
           /\ l.ctx.uart_data = con.ctx.uart_data /\ l.ctx.vuart_data = con.ctx.vuart_data
           /\ l.ctx.v_num = con.ctx.v_num /\ l.ctx.v_num_monitor = con.ctx.v_num_monitor
<1>1. con \in Con
  BY DEF TypeInv
<1>2. CASE Answered /\ asked[1].kind # "store" /\ asked[1].addr.region = "confreg"
  <2>1. tx.addr.offset = asked[1].addr.offset /\ D!loads /\ ~InRam(tx.addr)
        /\ asked[1] \in ProperCall
    BY <1>2, Served
  <2>2. tx.addr.offset \in Nat
    BY <2>1, CallOp
  <2>3. l = C!Loaded(con, tx.addr.offset)
    BY <2>1 DEF AfterLoad
  <2>4. Gave(C!UART_RXD) <=> tx.addr.offset = C!UART_RXD
    BY <1>2, <2>1 DEF Gave, Reads
  <2>5. l \in Con
    BY <1>1, <2>2, <2>3, LoadType
  <2> QED
    BY <1>1, <2>3, <2>4, <2>5, LoadedFields
<1>3. CASE ~(Answered /\ asked[1].kind # "store" /\ asked[1].addr.region = "confreg")
  <2>1. l = con
    BY <1>3, Served DEF AfterLoad
  <2>2. ~Gave(C!UART_RXD)
    BY <1>3 DEF Gave, Reads
  <2> QED
    BY <1>1, <2>1, <2>2
<1> QED
  BY <1>2, <1>3

LEMMA AfterStoreFields ==
    ASSUME TypeInv, PortInv, NEW c \in Con, NEW s, s = AfterStore(c, creq(dreq))
    PROVE  /\ s \in Con
           /\ s.ififo = c.ififo /\ s.opty = c.opty /\ s.ctx0 = c.ctx0
           /\ s.ctx.uart_avail <=> c.ctx.uart_avail
           /\ s.ctx.uart_fetched <=> c.ctx.uart_fetched
           /\ s.ctx.uart_written <=> Took(C!UART_TXD) \/ c.ctx.uart_written
           /\ s.ctx.uart_data = IF Took(C!UART_TXD) THEN asked[1].data[0] ELSE c.ctx.uart_data
           /\ s.ctx.vuart_written <=> Took(C!VIRTUAL_UART) \/ c.ctx.vuart_written
           /\ s.ctx.vuart_data =
                 IF Took(C!VIRTUAL_UART) THEN asked[1].data[0] ELSE c.ctx.vuart_data
           /\ s.ctx.v_num = IF Took(C!NUM) THEN asked[1].data ELSE c.ctx.v_num
           /\ ~Took(C!NUM_MONITOR) => s.ctx.v_num_monitor = c.ctx.v_num_monitor
<1>1. CASE Answered /\ asked[1].kind = "store" /\ asked[1].addr.region = "confreg"
  <2> DEFINE k == asked[1]
             addr == k.addr.offset
             data == P!place(Op(k), k.data)
  <2>1. tx.addr.offset = addr /\ D!stores /\ ~InRam(tx.addr)
        /\ k \in ProperCall /\ asked # <<>>
    BY <1>1, Served
  <2>2. addr \in Nat /\ data \in Data
    BY <2>1, CallOp, PlaceType
  <2>3. dreq = P!request(P!Task(k))
    BY <2>1 DEF PortInv
  <2>4. creq(dreq).data = data
    BY <1>1, <2>1, <2>3, CallRequest
  <2>5. \A reg : Took(reg) <=> addr = reg
    BY <1>1, <2>1 DEF Took, Writes
  <2>6. addr \in {C!UART_TXD, C!VIRTUAL_UART, C!NUM} => data = k.data
    <3>1. addr \in {C!UART_TXD, C!VIRTUAL_UART, C!NUM} => Sht(k) = 0
      BY DEF Sht, C!UART_TXD, C!VIRTUAL_UART, C!NUM
    <3> QED
      BY <2>1, <3>1, PlaceType
  <2> HIDE DEF addr, data
  <2>7. s = C!Stored(c, addr, data)
    BY <2>1, <2>4 DEF AfterStore
  <2>8. s \in Con
    BY <2>2, <2>7, StoredType
  <2>9. s.ififo = c.ififo /\ s.opty = c.opty /\ s.ctx0 = c.ctx0
        /\ s.ctx = C!Noted(c.ctx, addr, data)
    BY <2>7, StoredFields
  <2>10. c.ctx \in Context
    BY ConFields
  <2> HIDE DEF k
  <2> QED
    BY <2>5, <2>6, <2>8, <2>9, <2>10, NotedFields DEF k
<1>2. CASE ~(Answered /\ asked[1].kind = "store" /\ asked[1].addr.region = "confreg")
  <2>1. s = c
    BY <1>2, Served DEF AfterStore
  <2>2. \A reg : ~Took(reg)
    BY <1>2 DEF Took, Writes
  <2> QED
    BY <2>1, <2>2
<1> QED
  BY <1>1, <1>2

\* Confreg after a tick, by the device that is synchronised first.
LEMMA ConTick ==
    ASSUME TypeInv, PortInv, ~con.ctx.uart_fetched, con.ctx.uart_avail => con.ififo # <<>>,
           NEW c, c = ConAfter(creq(dreq))
    PROVE  /\ c \in Con
           /\ c.ififo = IF Gave(C!UART_RXD) /\ con.ctx.uart_avail THEN Tail(con.ififo)
                        ELSE con.ififo
           /\ ~c.ctx.uart_fetched /\ (c.ctx.uart_avail => c.ififo # <<>>)
           /\ c.ctx.v_num = IF Took(C!NUM) THEN asked[1].data ELSE con.ctx.v_num
           /\ ~Took(C!NUM_MONITOR) => /\ c.ctx.v_num_monitor = con.ctx.v_num_monitor
                                      /\ c.ctx0.v_num_monitor = con.ctx.v_num_monitor
           /\ c.ctx.uart_data = IF Took(C!UART_TXD) THEN asked[1].data[0] ELSE con.ctx.uart_data
           /\ c.ctx.vuart_data = IF Took(C!VIRTUAL_UART) THEN asked[1].data[0]
                                 ELSE con.ctx.vuart_data
           /\ sync_order = "device" =>
                /\ ~c.ctx.uart_written /\ ~c.ctx.vuart_written
                /\ c.opty = IF Took(C!UART_TXD) \/ con.ctx.uart_written
                            THEN Append(con.opty, c.ctx.uart_data) ELSE con.opty
                /\ c.ctx0.vuart_written <=> Took(C!VIRTUAL_UART) \/ con.ctx.vuart_written
                /\ c.ctx0.vuart_data = c.ctx.vuart_data /\ c.ctx0.v_num = c.ctx.v_num
           /\ sync_order = "confreg" =>
                /\ c.ctx.uart_written <=> Took(C!UART_TXD)
                /\ c.ctx.vuart_written <=> Took(C!VIRTUAL_UART)
                /\ c.opty = IF con.ctx.uart_written
                            THEN Append(con.opty, con.ctx.uart_data) ELSE con.opty
                /\ c.ctx0.vuart_written <=> con.ctx.vuart_written
                /\ c.ctx0.vuart_data = con.ctx.vuart_data /\ c.ctx0.v_num = con.ctx.v_num
<1> DEFINE l == AfterLoad
<1>1. /\ l \in Con
      /\ l.ififo = con.ififo /\ l.opty = con.opty
      /\ l.ctx.uart_fetched <=> Gave(C!UART_RXD) /\ con.ctx.uart_avail
      /\ l.ctx.uart_written <=> con.ctx.uart_written
      /\ l.ctx.vuart_written <=> con.ctx.vuart_written
      /\ l.ctx.uart_data = con.ctx.uart_data /\ l.ctx.vuart_data = con.ctx.vuart_data
      /\ l.ctx.v_num = con.ctx.v_num /\ l.ctx.v_num_monitor = con.ctx.v_num_monitor
  BY AfterLoadFields
<1>2. l.ctx.uart_fetched => l.ififo # <<>>
  BY <1>1
<1> HIDE DEF l
<1>3. CASE sync_order = "device"
  <2> DEFINE s == AfterStore(l, creq(dreq))
  <2>1. c = C!Synced(s)
    BY <1>3 DEF ConAfter, l
  <2>2. /\ s \in Con
        /\ s.ififo = l.ififo /\ s.opty = l.opty
        /\ s.ctx.uart_fetched <=> l.ctx.uart_fetched
        /\ s.ctx.uart_written <=> Took(C!UART_TXD) \/ l.ctx.uart_written
        /\ s.ctx.uart_data = IF Took(C!UART_TXD) THEN asked[1].data[0] ELSE l.ctx.uart_data
        /\ s.ctx.vuart_written <=> Took(C!VIRTUAL_UART) \/ l.ctx.vuart_written
        /\ s.ctx.vuart_data =
              IF Took(C!VIRTUAL_UART) THEN asked[1].data[0] ELSE l.ctx.vuart_data
        /\ s.ctx.v_num = IF Took(C!NUM) THEN asked[1].data ELSE l.ctx.v_num
        /\ ~Took(C!NUM_MONITOR) => s.ctx.v_num_monitor = l.ctx.v_num_monitor
    BY <1>1, AfterStoreFields
  <2> HIDE DEF s
  <2>3. c \in Con
    BY <1>2, <2>1, <2>2, SyncedType
  <2>4. /\ c.ififo = IF s.ctx.uart_fetched THEN Tail(s.ififo) ELSE s.ififo
        /\ c.opty = IF s.ctx.uart_written THEN Append(s.opty, s.ctx.uart_data) ELSE s.opty
        /\ c.ctx0 = s.ctx
        /\ c.ctx.uart_avail <=> c.ififo # <<>>
        /\ ~c.ctx.uart_fetched /\ ~c.ctx.uart_written /\ ~c.ctx.vuart_written
        /\ c.ctx.uart_data = s.ctx.uart_data /\ c.ctx.vuart_data = s.ctx.vuart_data
        /\ c.ctx.v_num = s.ctx.v_num /\ c.ctx.v_num_monitor = s.ctx.v_num_monitor
    BY <2>1, <2>2, SyncedFields
  <2> QED
    BY <1>1, <1>3, <2>2, <2>3, <2>4
<1>4. CASE sync_order = "confreg"
  <2> DEFINE s == C!Synced(l)
  <2>1. c = AfterStore(s, creq(dreq))
    BY <1>4 DEF ConAfter, l
  <2>2. s \in Con
    BY <1>1, <1>2, SyncedType
  <2>3. /\ s.ififo = IF l.ctx.uart_fetched THEN Tail(l.ififo) ELSE l.ififo
        /\ s.opty = IF l.ctx.uart_written THEN Append(l.opty, l.ctx.uart_data) ELSE l.opty
        /\ s.ctx0 = l.ctx
        /\ s.ctx.uart_avail <=> s.ififo # <<>>
        /\ ~s.ctx.uart_fetched /\ ~s.ctx.uart_written /\ ~s.ctx.vuart_written
        /\ s.ctx.uart_data = l.ctx.uart_data /\ s.ctx.vuart_data = l.ctx.vuart_data
        /\ s.ctx.v_num = l.ctx.v_num /\ s.ctx.v_num_monitor = l.ctx.v_num_monitor
    BY <1>1, SyncedFields
  <2> HIDE DEF s
  <2>4. /\ c \in Con
        /\ c.ififo = s.ififo /\ c.opty = s.opty /\ c.ctx0 = s.ctx0
        /\ c.ctx.uart_avail <=> s.ctx.uart_avail
        /\ c.ctx.uart_fetched <=> s.ctx.uart_fetched
        /\ c.ctx.uart_written <=> Took(C!UART_TXD) \/ s.ctx.uart_written
        /\ c.ctx.uart_data = IF Took(C!UART_TXD) THEN asked[1].data[0] ELSE s.ctx.uart_data
        /\ c.ctx.vuart_written <=> Took(C!VIRTUAL_UART) \/ s.ctx.vuart_written
        /\ c.ctx.vuart_data =
              IF Took(C!VIRTUAL_UART) THEN asked[1].data[0] ELSE s.ctx.vuart_data
        /\ c.ctx.v_num = IF Took(C!NUM) THEN asked[1].data ELSE s.ctx.v_num
        /\ ~Took(C!NUM_MONITOR) => c.ctx.v_num_monitor = s.ctx.v_num_monitor
    BY <2>1, <2>2, AfterStoreFields
  <2> QED
    BY <1>1, <1>4, <2>3, <2>4
<1> QED
  BY <1>3, <1>4 DEF TypeInv

-----------------------------------------------------------------------------
(* What a tick does to the pipeline, the memory and the variables loaded.  *)

LEMMA InMemory ==
    ASSUME NEW k \in ProperCall, k.addr.region # "confreg"
    PROVE  (k.addr.offset \div 8) + 1 \in 1 .. Len(saved_mem) /\ Len(saved_mem) \in Nat
<1>1. k.addr.offset \in Nat /\ k.addr.region \in {"boot", "low", "confreg"}
      /\ k.size \in 1 .. 8
  BY CallOp DEF ProperCall, Call
<1>2. InRam(k.addr)
  BY <1>1, Routed
<1>3. k.addr.offset + k.size <= 8 * Len(saved_mem)
  BY <1>2 DEF ProperCall, Proper
<1>4. Len(saved_mem) \in Nat
  BY TestbenchAssumption
<1> QED
  BY <1>1, <1>3, <1>4

\* What a load leaves in its variable.
LEMMA Applied ==
    ASSUME NEW k \in ProperCall, NEW word \in Data, NEW d \in Data
    PROVE  /\ P!apply_to(Op(k), word, d) \in Data
           /\ \A b \in Lanes : P!apply_to(Op(k), word, d)[b] =
                  IF b < k.size THEN word[b + Sht(k)] ELSE d[b]
<1>1. Op(k).width = k.size /\ Op(k).sht = Sht(k) /\ Sht(k) \in 0 .. 7 /\ Sht(k) + k.size <= 8
      /\ k.size \in 1 .. 8
  BY CallOp DEF Op
<1>2. Op(k) # P!DISCARD
  BY <1>1 DEF P!DISCARD
<1>3. word \in [0 .. 7 -> Nat] /\ d \in [0 .. 7 -> Nat]
  BY DEF Data, Lanes
<1>4. P!apply(Op(k), word) = [b \in 0 .. 7 |-> IF b + Sht(k) > 7 THEN 0 ELSE word[b + Sht(k)]]
  BY <1>1, <1>2 DEF P!apply, P!Lanes
<1>5. P!apply_to(Op(k), word, d) =
        [b \in 0 .. 7 |-> IF b < k.size THEN P!apply(Op(k), word)[b] ELSE d[b]]
  BY <1>1 DEF P!apply_to, P!Lanes
<1>6. \A b \in 0 .. 7 : P!apply_to(Op(k), word, d)[b] =
         IF b < k.size THEN word[b + Sht(k)] ELSE d[b]
  BY <1>1, <1>4, <1>5
<1>7. \A b \in 0 .. 7 : P!apply_to(Op(k), word, d)[b] \in Nat
  BY <1>1, <1>3, <1>6
<1> QED
  BY <1>5, <1>6, <1>7 DEF Data, Lanes

\* The word of an answer.
LEMMA WordType ==
    ASSUME TypeInv, PortInv, con.ctx.uart_avail => con.ififo # <<>>
    PROVE  /\ oresp.data \in Data
           /\ D!loads /\ asked[1].addr.region # "confreg" =>
                 oresp.data = ram[(asked[1].addr.offset \div 8) + 1]
           /\ D!loads /\ asked[1].addr.region = "confreg" =>
                 oresp.data = C!load(con, asked[1].addr.offset)
<1>1. CASE ~D!loads
  BY <1>1, ZeroData DEF oresp
<1>2. CASE D!loads
  <2>1. Answered /\ asked[1] \in ProperCall /\ tx.addr.offset = asked[1].addr.offset
        /\ (InRam(tx.addr) <=> asked[1].addr.region # "confreg")
        /\ oresp.data = RouterLoad(tx.addr)
    BY <1>2, Served DEF oresp
  <2>2. CASE asked[1].addr.region # "confreg"
    <3>1. oresp.data = ram[(asked[1].addr.offset \div 8) + 1]
      BY <2>1, <2>2 DEF RouterLoad, index
    <3>2. ram \in [1 .. Len(saved_mem) -> Data]
      BY DEF TypeInv
    <3> QED
      BY <2>1, <2>2, <3>1, <3>2, InMemory
  <2>3. CASE asked[1].addr.region = "confreg"
    <3>1. oresp.data = C!load(con, asked[1].addr.offset)
      BY <2>1, <2>3 DEF RouterLoad
    <3>2. con \in Con /\ asked[1].addr.offset \in Nat
      BY <2>1, CallOp DEF TypeInv
    <3> QED
      BY <2>3, <3>1, <3>2, LoadType
  <2> QED
    BY <2>2, <2>3
<1> QED
  BY <1>1, <1>2

\* A tick, in any of the places that wait for one.
Turn(next_enable) == /\ Tick(next_enable)
                     /\ P!tick(oresp) \/ (at = "await" /\ P!await_tick(oresp))

\* The tail of a queue of calls, and of the tasks beside it.
LEMMA Tails ==
    ASSUME TypeInv, PortInv, asked # <<>>
    PROVE  /\ Tail(asked) \in Seq(ProperCall) /\ Tail(ongoing) \in Seq(ProperTask)
           /\ Len(Tail(asked)) = Len(asked) - 1 /\ Len(Tail(ongoing)) = Len(asked) - 1
           /\ \A i \in 1 .. Len(asked) - 1 : /\ Tail(asked)[i] = asked[i + 1]
                                             /\ Tail(ongoing)[i] = P!Task(Tail(asked)[i])
           /\ Head(asked) = asked[1] /\ Head(ongoing) = P!Task(asked[1])
           /\ Len(asked) \in Nat \ {0}
           /\ Tail(asked) = <<>> <=> Tail(ongoing) = <<>>
           /\ Tail(asked) # <<>> => Head(Tail(ongoing)) = P!Task(Tail(asked)[1])
<1>1. asked \in Seq(ProperCall) /\ ongoing \in Seq(ProperTask) /\ Len(ongoing) = Len(asked)
      /\ \A i \in 1 .. Len(asked) : ongoing[i] = P!Task(asked[i])
  BY DEF TypeInv, PortInv
<1>2. ongoing # <<>> /\ Len(asked) \in Nat \ {0}
  BY <1>1
<1> QED
  BY <1>1, <1>2

LEMMA Queue ==
    ASSUME TypeInv, PortInv, NEW next_enable \in BOOLEAN, Turn(next_enable)
    PROVE  /\ Answered => /\ asked' = Tail(asked) /\ ongoing' = Tail(ongoing)
                          /\ dreq' = IF asked' = <<>> THEN NoRequest
                                     ELSE P!request(P!Task(asked'[1]))
                          /\ tx' = D!NoTransaction
           /\ ~Answered => /\ UNCHANGED <<asked, ongoing, dreq>>
                           /\ tx' = tx \/ (asked # <<>> /\ tx' = D!Started(creq(dreq)))
           /\ enable' = next_enable
<1>1. (oresp.ready /\ oresp.last <=> Answered) /\ (Answered => asked # <<>> /\ D!Last(tx))
      /\ (Answered => dreq # NoRequest)
  BY Served
<1>2. D!DeviceCycle(creq(dreq), next_enable)
  BY DEF Turn, Tick, SocTick
<1>3. P!busy <=> dreq # NoRequest
  BY DEF P!busy
<1>4. CASE Answered
  <2>1. asked' = Tail(asked)
    BY <1>1, <1>4 DEF Turn, Tick, Observe
  <2>2. tx' = D!NoTransaction
    BY <1>1, <1>2, <1>4 DEF Answered, D!DeviceCycle, D!Disabled, D!Rest, D!Begin, D!Transfer
  <2>3. CASE P!tick(oresp)
    BY <1>1, <1>2, <1>3, <1>4, <2>1, <2>2, <2>3, Tails DEF P!tick, D!DeviceCycle
  <2>4. CASE at = "await" /\ P!await_tick(oresp)
    <3>1. Len(asked) = 1
      BY <2>4 DEF PortInv
    <3>2. ongoing' = <<>> /\ dreq' = NoRequest
      BY <1>1, <1>4, <2>4 DEF P!await_tick
    <3>3. Tail(asked) = <<>> /\ Tail(ongoing) = <<>>
      <4>1. Tail(asked) \in Seq(ProperCall) /\ Len(Tail(asked)) = 0
            /\ (Tail(asked) = <<>> <=> Tail(ongoing) = <<>>)
        BY <1>1, <1>4, <3>1, Tails
      <4> QED
        BY <4>1, EmptySeq
    <3> QED
      BY <1>2, <1>4, <2>1, <2>2, <3>2, <3>3 DEF D!DeviceCycle
  <2> QED
    BY <2>3, <2>4 DEF Turn
<1>5. CASE ~Answered
  <2>1. asked' = asked
    BY <1>1, <1>5 DEF Turn, Tick, Observe
  <2>2. tx' = tx \/ (dreq # NoRequest /\ tx' = D!Started(creq(dreq)))
    BY <1>2, <1>5 DEF Answered, D!DeviceCycle, D!Disabled, D!Rest, D!Begin, D!Transfer, creq
  <2>3. dreq # NoRequest => asked # <<>>
    BY DEF PortInv
  <2>4. CASE P!tick(oresp)
    <3>1. asked = <<>> <=> ongoing = <<>>
      BY DEF TypeInv, PortInv
    <3>2. ongoing' = ongoing
          /\ dreq' = IF ongoing = <<>> THEN NoRequest ELSE P!request(Head(ongoing))
      BY <1>1, <1>5, <2>4 DEF P!tick
    <3>3. CASE asked = <<>>
      BY <1>2, <1>5, <2>1, <2>2, <2>3, <3>1, <3>2, <3>3 DEF PortInv, D!DeviceCycle
    <3>4. CASE asked # <<>>
      <4>1. dreq = P!request(P!Task(asked[1]))
        BY <3>4 DEF PortInv
      <4>2. dreq' = dreq
        BY <3>1, <3>2, <3>4, <4>1, Tails
      <4> QED
        BY <1>2, <1>5, <2>1, <2>2, <2>3, <3>2, <4>2 DEF D!DeviceCycle
    <3> QED
      BY <3>3, <3>4
  <2>5. CASE at = "await" /\ P!await_tick(oresp)
    BY <1>1, <1>2, <1>5, <2>1, <2>2, <2>3, <2>5 DEF P!await_tick, D!DeviceCycle
  <2> QED
    BY <2>4, <2>5 DEF Turn
<1> QED
  BY <1>4, <1>5

\* The bytes a store changes.
LEMMA RamTick ==
    ASSUME TypeInv, PortInv, NEW next_enable \in BOOLEAN, Turn(next_enable)
    PROVE  /\ ram' \in [1 .. Len(saved_mem) -> Data]
           /\ ~(D!stores /\ asked[1].addr.region # "confreg") => ram' = ram
           /\ D!stores /\ asked[1].addr.region # "confreg" =>
                \A w \in 1 .. Len(saved_mem), b \in Lanes :
                   ram'[w][b] = IF w = (asked[1].addr.offset \div 8) + 1
                                   /\ Sht(asked[1]) <= b /\ b < Sht(asked[1]) + asked[1].size
                                THEN asked[1].data[b - Sht(asked[1])] ELSE ram[w][b]
<1>1. ram \in [1 .. Len(saved_mem) -> Data]
  BY DEF TypeInv
<1>2. ram' = IF D!stores /\ InRam(tx.addr)
             THEN [ram EXCEPT ![index(tx.addr)] =
                      D!Stored(@, creq(dreq).data, creq(dreq).strobe)]
             ELSE ram
  BY DEF Turn, Tick, SocTick
<1>3. CASE D!stores /\ asked[1].addr.region # "confreg"
  <2> DEFINE k == asked[1]
             w0 == (k.addr.offset \div 8) + 1
             data == P!place(Op(k), k.data)
  <2>1. k \in ProperCall /\ k.kind = "store" /\ InRam(tx.addr) /\ asked # <<>>
        /\ tx.addr.offset = k.addr.offset
    BY <1>3, Served
  <2>2. dreq = P!request(P!Task(k))
    BY <2>1 DEF PortInv
  <2>3. creq(dreq).data = data /\ creq(dreq).strobe = P!strobe(Op(k))
    BY <2>1, <2>2, CallRequest
  <2>4. w0 \in 1 .. Len(saved_mem)
    BY <1>3, <2>1, InMemory
  <2>5. data \in [0 .. 7 -> Nat] /\ \A b \in 0 .. 7 : b >= Sht(k) => data[b] = k.data[b - Sht(k)]
    <3>1. data \in Data /\ Sht(k) \in 0 .. 7
      BY <2>1, PlaceType, CallOp
    <3>2. \A b \in Lanes : data[b] = IF b < Sht(k) THEN 0 ELSE k.data[b - Sht(k)]
      BY <2>1, PlaceType
    <3> QED
      BY <3>1, <3>2 DEF Data, Lanes
  <2>6. P!strobe(Op(k)) = {b \in 0 .. 7 : Sht(k) <= b /\ b < Sht(k) + k.size}
    BY <2>1, CallOp DEF Lanes
  <2>7. ram[w0] \in [0 .. 7 -> Nat]
    BY <1>1, <2>4 DEF Data, Lanes
  <2> DEFINE word == D!Stored(ram[w0], data, P!strobe(Op(k)))
  <2>8. word = [b \in 0 .. 7 |-> IF b \in P!strobe(Op(k)) THEN data[b] ELSE ram[w0][b]]
    BY <2>7 DEF D!Stored
  <2>9. ram' = [ram EXCEPT ![w0] = word]
    BY <1>2, <1>3, <2>1, <2>3 DEF index
  <2>10. word \in Data
    BY <2>5, <2>7, <2>8 DEF Data, Lanes
  <2> HIDE DEF word, data, w0
  <2>11. ram' \in [1 .. Len(saved_mem) -> Data]
    BY <1>1, <2>4, <2>9, <2>10
  <2>12. \A w \in 1 .. Len(saved_mem), b \in 0 .. 7 :
            ram'[w][b] = IF w = w0 /\ Sht(k) <= b /\ b < Sht(k) + k.size
                         THEN k.data[b - Sht(k)] ELSE ram[w][b]
    <3> SUFFICES ASSUME NEW w \in 1 .. Len(saved_mem), NEW b \in 0 .. 7
                 PROVE  ram'[w][b] = IF w = w0 /\ Sht(k) <= b /\ b < Sht(k) + k.size
                                     THEN k.data[b - Sht(k)] ELSE ram[w][b]
      OBVIOUS
    <3>1. CASE w # w0
      BY <1>1, <2>9, <3>1
    <3>2. CASE w = w0
      <4>1. ram'[w] = word
        BY <1>1, <2>4, <2>9, <3>2
      <4>2. ram'[w][b] = IF b \in P!strobe(Op(k)) THEN data[b] ELSE ram[w0][b]
        BY <2>8, <4>1
      <4>3. b \in P!strobe(Op(k)) <=> Sht(k) <= b /\ b < Sht(k) + k.size
        BY <2>6
      <4> HIDE DEF k
      <4> QED
        BY <2>5, <3>2, <4>2, <4>3, CallOp, <2>1
    <3> QED
      BY <3>1, <3>2
  <2> QED
    BY <1>3, <2>11, <2>12 DEF w0, Lanes
<1>4. CASE ~(D!stores /\ asked[1].addr.region # "confreg")
  <2>1. ram' = ram
    BY <1>2, <1>4, Served
  <2> QED
    BY <1>1, <1>4, <2>1
<1> QED
  BY <1>3, <1>4

\* The variables loaded into, and the outcome of an expect.
LEMMA DestTick ==
    ASSUME TypeInv, PortInv, con.ctx.uart_avail => con.ififo # <<>>, mismatch = FALSE,
           NEW next_enable \in BOOLEAN, Turn(next_enable)
    PROVE  /\ dest' \in [Dests -> Data]
           /\ ~(Answered /\ asked[1].kind = "load") => dest' = dest
           /\ Answered /\ asked[1].kind = "load" =>
                /\ \A d \in Dests : d # asked[1].dest => dest'[d] = dest[d]
                /\ \A b \in Lanes : b < asked[1].size =>
                      dest'[asked[1].dest][b] = oresp.data[b + Sht(asked[1])]
           /\ mismatch' \in BOOLEAN
           /\ ~(Answered /\ asked[1].kind = "expect") => mismatch' = mismatch
           /\ Answered /\ asked[1].kind = "expect" =>
                mismatch' <=> \E b \in Lanes :
                                 /\ b < asked[1].size
                                 /\ asked[1].data[b] # oresp.data[b + Sht(asked[1])]
<1> DEFINE k == asked[1]
           t == P!Task(k)
<1>1. dest \in [Dests -> Data] /\ oresp.data \in Data
  BY WordType DEF TypeInv
<1>2. oresp.ready /\ oresp.last <=> Answered
  BY Served
<1>3. CASE ~Answered
  <2>1. dest' = dest /\ mismatch' = mismatch
    BY <1>2, <1>3 DEF Turn, P!tick, P!await_tick
  <2> QED
    BY <1>1, <1>3, <2>1
<1>4. CASE Answered
  <2>1. k \in ProperCall /\ dreq # NoRequest /\ asked # <<>>
    BY <1>4, Served
  <2>2. Head(ongoing) = t
    BY <2>1, Tails
  <2>3. k.kind \in {"load", "store", "expect"} /\ (k.dest = NoDest <=> k.kind # "load")
        /\ (k.dest \in Dests \union {NoDest}) /\ k.data \in Data
    BY <2>1 DEF ProperCall, Call, Proper
  <2>4. t.dest = k.dest /\ (P!is_load(t) <=> k.kind # "store")
        /\ (k.kind # "store" => t.load_op = Op(k))
        /\ t.data = IF k.kind = "load" THEN Zero ELSE P!place(Op(k), k.data)
    BY <2>1, CallTask
  <2> HIDE DEF t
  <2>5. CASE k.kind = "load"
    <3>1. PICK d \in Data : dest' = [dest EXCEPT ![k.dest] = P!apply_to(Op(k), oresp.data, d)]
      <4>1. dest[k.dest] \in Data
        BY <1>1, <2>3, <2>5
      <4>2. CASE P!tick(oresp)
        BY <1>2, <1>4, <2>1, <2>2, <2>3, <2>4, <2>5, <4>1, <4>2 DEF P!tick, P!complete, P!busy
      <4>3. CASE at = "await" /\ P!await_tick(oresp)
        BY <1>2, <1>4, <2>1, <2>2, <2>3, <2>4, <2>5, <4>3, ZeroData DEF P!await_tick
      <4> QED
        BY <4>2, <4>3 DEF Turn
    <3>2. mismatch' = mismatch
      BY <1>2, <1>4, <2>1, <2>2, <2>3, <2>4, <2>5
      DEF Turn, P!tick, P!complete, P!await_tick, P!busy
    <3>3. P!apply_to(Op(k), oresp.data, d) \in Data
          /\ \A b \in Lanes : b < k.size =>
                P!apply_to(Op(k), oresp.data, d)[b] = oresp.data[b + Sht(k)]
      BY <1>1, <2>1, Applied
    <3>4. k.dest \in Dests
      BY <2>3, <2>5
    <3> QED
      BY <1>1, <1>4, <2>5, <3>1, <3>2, <3>3, <3>4
  <2>6. CASE k.kind = "store"
    <3>1. dest' = dest
      BY <1>2, <1>4, <2>1, <2>2, <2>3, <2>4, <2>6
      DEF Turn, P!tick, P!complete, P!await_tick, P!busy
    <3>2. mismatch' = mismatch
      BY <1>2, <1>4, <2>1, <2>2, <2>3, <2>4, <2>6
      DEF Turn, P!tick, P!complete, P!await_tick, P!busy
    <3> QED
      BY <1>1, <1>4, <2>6, <3>1, <3>2
  <2>7. CASE k.kind = "expect"
    <3>1. P!tick(oresp)
      BY <2>7 DEF Turn, PortInv
    <3>2. dest' = dest /\ mismatch' \in BOOLEAN /\ (mismatch' <=> P!differs(t, oresp.data))
      BY <1>2, <1>4, <2>1, <2>2, <2>3, <2>4, <2>7, <3>1 DEF P!tick, P!complete, P!busy
    <3>3. P!differs(t, oresp.data) <=>
            \E b \in Lanes : b < k.size /\ k.data[b] # oresp.data[b + Sht(k)]
      <4>1. P!mask(t.load_op) = {b \in 0 .. 7 : Sht(k) <= b /\ b < Sht(k) + k.size}
        BY <2>1, <2>4, <2>7, CallOp DEF P!mask, Lanes
      <4>2. Sht(k) \in 0 .. 7 /\ k.size \in 1 .. 8 /\ Sht(k) + k.size <= 8
        BY <2>1, CallOp
      <4>3. \A b \in 0 .. 7 : b >= Sht(k) => t.data[b] = k.data[b - Sht(k)]
        <5>1. k \in ProperCall /\ t.data = P!place(Op(k), k.data)
          BY <2>1, <2>4, <2>7
        <5> HIDE DEF k
        <5>2. \A b \in Lanes : t.data[b] = IF b < Sht(k) THEN 0 ELSE k.data[b - Sht(k)]
          BY <5>1, PlaceType
        <5> QED
          BY <4>2, <5>2 DEF Lanes
      <4>4. ASSUME NEW b \in P!mask(t.load_op), t.data[b] # oresp.data[b]
            PROVE  \E c \in 0 .. 7 : c < k.size /\ k.data[c] # oresp.data[c + Sht(k)]
        <5>1. b - Sht(k) \in 0 .. 7 /\ b - Sht(k) < k.size /\ (b - Sht(k)) + Sht(k) = b
          BY <4>1, <4>2, <4>4
        <5>2. k.data[b - Sht(k)] # oresp.data[(b - Sht(k)) + Sht(k)]
          BY <4>1, <4>2, <4>3, <4>4, <5>1
        <5> QED
          BY <5>1, <5>2
      <4> HIDE DEF k
      <4>5. ASSUME NEW c \in 0 .. 7, c < k.size, k.data[c] # oresp.data[c + Sht(k)]
            PROVE  \E b \in P!mask(t.load_op) : t.data[b] # oresp.data[b]
        <5>1. c + Sht(k) \in 0 .. 7 /\ c + Sht(k) < Sht(k) + k.size /\ Sht(k) <= c + Sht(k)
              /\ (c + Sht(k)) - Sht(k) = c
          BY <4>2, <4>5
        <5>2. c + Sht(k) \in P!mask(t.load_op)
          BY <4>1, <5>1
        <5>3. t.data[c + Sht(k)] = k.data[c]
          BY <4>3, <5>1
        <5> QED
          BY <4>5, <5>2, <5>3
      <4> QED
        BY <4>4, <4>5 DEF P!differs, Lanes
    <3> QED
      BY <1>1, <1>4, <2>7, <3>2, <3>3
  <2> QED
    BY <2>3, <2>5, <2>6, <2>7
<1> QED
  BY <1>3, <1>4

-----------------------------------------------------------------------------
(* Characters typed.                                                       *)

\* A character that goes from one queue to the one before it keeps its place.
LEMMA Moved ==
    ASSUME NEW S, NEW a \in Seq(S), NEW f \in Seq(S), f # <<>>
    PROVE  Append(a, Head(f)) \o Tail(f) = a \o f
<1>1. Head(f) \in S /\ Tail(f) \in Seq(S) /\ Len(Tail(f)) = Len(f) - 1 /\ Head(f) = f[1]
      /\ \A i \in 1 .. Len(f) - 1 : Tail(f)[i] = f[i + 1]
      /\ Len(f) \in Nat \ {0} /\ Len(a) \in Nat
  OBVIOUS
<1> DEFINE b == Append(a, Head(f))
           g == Tail(f)
           n == Len(a)
           m == Len(f)
<1>2. b \in Seq(S) /\ Len(b) = n + 1 /\ b[n + 1] = f[1]
      /\ \A i \in 1 .. n : b[i] = a[i]
  BY <1>1, AppendProperties
<1>3. g \in Seq(S) /\ Len(g) = m - 1 /\ (\A i \in 1 .. m - 1 : g[i] = f[i + 1])
      /\ m \in Nat \ {0} /\ n \in Nat /\ Len(a) = n /\ Len(f) = m
  BY <1>1
<1> HIDE DEF b, g, n, m
<1>4. /\ a \o f \in Seq(S) /\ Len(a \o f) = n + m
      /\ \A i \in 1 .. n + m : (a \o f)[i] = IF i <= n THEN a[i] ELSE f[i - n]
  BY <1>3, ConcatProperties
<1>5. /\ b \o g \in Seq(S) /\ Len(b \o g) = Len(b) + Len(g)
      /\ \A i \in 1 .. Len(b) + Len(g) :
            (b \o g)[i] = IF i <= Len(b) THEN b[i] ELSE g[i - Len(b)]
  BY <1>2, <1>3, ConcatProperties
<1>6. Len(b) + Len(g) = n + m /\ Len(b) = n + 1
  BY <1>2, <1>3
<1>7. \A i \in 1 .. n + m : (b \o g)[i] = (a \o f)[i]
  <2> SUFFICES ASSUME NEW i \in 1 .. n + m PROVE (b \o g)[i] = (a \o f)[i]
    OBVIOUS
  <2>1. CASE i <= n
    <3>1. (b \o g)[i] = b[i] /\ (a \o f)[i] = a[i] /\ i \in 1 .. n
      BY <1>3, <1>4, <1>5, <1>6, <2>1
    <3> QED
      BY <1>2, <3>1
  <2>2. CASE i = n + 1
    <3>1. (b \o g)[i] = b[n + 1] /\ (a \o f)[i] = f[1]
      BY <1>3, <1>4, <1>5, <1>6, <2>2
    <3> QED
      BY <1>2, <3>1
  <2>3. CASE i > n + 1
    <3>1. i - (n + 1) \in 1 .. m - 1 /\ (i - (n + 1)) + 1 = i - n /\ ~(i <= n + 1) /\ ~(i <= n)
      BY <1>3, <2>3
    <3>2. (b \o g)[i] = g[i - (n + 1)] /\ (a \o f)[i] = f[i - n]
      BY <1>4, <1>5, <1>6, <3>1
    <3> QED
      BY <1>3, <3>1, <3>2
  <2>4. i <= n \/ i = n + 1 \/ i > n + 1
    BY <1>3
  <2> QED
    BY <2>1, <2>2, <2>3, <2>4
<1>8. b \o g = a \o f
  BY <1>4, <1>5, <1>6, <1>7, SeqEqual
<1> QED
  BY <1>8 DEF b, g

AllChars == got \o con.ififo \o Held

\* CharsOnce, on the one sequence it is about.
LEMMA CharsOnceIs ==
    CharsOnce <=> /\ \A i \in DOMAIN AllChars : AllChars[i] = typed - Len(AllChars) + i
                  /\ con.ctx.uart_avail => con.ififo # <<>>
BY DEF CharsOnce, AllChars, Held

\* Where a load of UART_RXD gives a character, and what any other step keeps.
LEMMA CharTick ==
    ASSUME TypeInv, PortInv, CharInv, NEW next_enable \in BOOLEAN, Turn(next_enable)
    PROVE  CharInv'
<1>1. con.ctx.uart_avail => con.ififo # <<>>
  BY CharsOnceIs DEF CharInv
<1>2. con' = ConAfter(creq(dreq))
  BY DEF Turn, Tick, SocTick
<1>3. /\ con'.ififo = IF Gave(C!UART_RXD) /\ con.ctx.uart_avail THEN Tail(con.ififo)
                      ELSE con.ififo
      /\ ~con'.ctx.uart_fetched /\ (con'.ctx.uart_avail => con'.ififo # <<>>)
  BY <1>1, <1>2, ConTick DEF CharInv
<1>4. con.ififo \in Seq(Char) /\ got \in Seq(Char) /\ typed' = typed /\ held' = held
  BY ConFields DEF TypeInv, CharInv, Turn, Tick, SocTick
<1>5. oresp.ready /\ oresp.last <=> Answered
  BY Served
<1>6. got' = IF Gave(C!UART_RXD) /\ oresp.data # Zero THEN Append(got, oresp.data[0]) ELSE got
  <2>1. asked # <<>> => Head(asked) = asked[1]
    BY DEF TypeInv
  <2>2. CASE Answered
    <3>1. got' = Noted(got, Reads(asked[1], C!UART_RXD) /\ oresp.data # Zero, oresp.data[0])
      BY <1>5, <2>1, <2>2, Served DEF Turn, Tick, Observe
    <3> QED
      BY <2>2, <3>1 DEF Noted, Gave
  <2>3. CASE ~Answered
    BY <1>5, <2>3 DEF Turn, Tick, Observe, Gave
  <2> QED
    BY <2>2, <2>3
<1>7. Gave(C!UART_RXD) => oresp.data = IF con.ctx.uart_avail THEN C!Word(Head(con.ififo)) ELSE Zero
  <2>1. Gave(C!UART_RXD) => D!loads /\ asked[1].addr.region = "confreg"
                            /\ asked[1].addr.offset = C!UART_RXD
    BY Served DEF Gave, Reads
  <2> QED
    BY <1>1, <2>1, WordType, ZeroData DEF C!load, C!UART_RXD, C!UART_LSR
<1>8. con.ctx.uart_avail => C!Word(Head(con.ififo)) # Zero
                            /\ C!Word(Head(con.ififo))[0] = Head(con.ififo)
  <2>1. con.ctx.uart_avail => Head(con.ififo) \in Char
    BY <1>1, <1>4
  <2>2. Zero = [b \in 0 .. 7 |-> 0] /\ C!Zero = Zero
    BY ZeroData DEF Zero, Lanes
  <2>3. \A x : C!Word(x)[0] = x
    BY <2>2 DEF C!Word
  <2> QED
    BY <2>1, <2>2, <2>3 DEF Char
<1>9. Held' = Held
  BY <1>4 DEF Held
<1>10. CASE Gave(C!UART_RXD) /\ con.ctx.uart_avail
  <2>1. got' = Append(got, Head(con.ififo)) /\ con'.ififo = Tail(con.ififo) /\ con.ififo # <<>>
    BY <1>1, <1>3, <1>6, <1>7, <1>8, <1>10
  <2>2. got' \o con'.ififo = got \o con.ififo
    BY <1>4, <2>1, Moved
  <2>3. AllChars' = AllChars
    BY <1>9, <2>2 DEF AllChars
  <2>4. got' \in Seq(Char)
    BY <1>4, <2>1
  <2> QED
    BY <1>3, <1>4, <2>3, <2>4, CharsOnceIs DEF CharInv, AllChars, CharsOnce, Held
<1>11. CASE ~(Gave(C!UART_RXD) /\ con.ctx.uart_avail)
  <2>1. got' = got /\ con'.ififo = con.ififo
    BY <1>3, <1>6, <1>7, <1>11
  <2> QED
    BY <1>3, <1>4, <1>9, <2>1, CharsOnceIs DEF CharInv, AllChars, CharsOnce, Held
<1> QED
  BY <1>10, <1>11

-----------------------------------------------------------------------------
(* Types and the pipeline, step by step.                                   *)

CoreInv == TypeInv /\ PortInv /\ CharInv

\* The types of an empty Confreg, whatever was in it.
ConOver(X) == [opty : Seq(Nat), changes : Seq([addr : Nat, data : Data]), ctx : X, ctx0 : X,
               mem : X, ififo : X]

LEMMA ResetCon ==
    ASSUME NEW X, NEW c \in ConOver(X)
    PROVE  /\ C!Reset(c) \in Con
           /\ C!Reset(c).ififo = <<>> /\ C!Reset(c).opty = c.opty
           /\ C!Reset(c).ctx = C!ResetContext /\ C!Reset(c).ctx0 = C!ResetContext
<1>1. <<>> \in Seq(Char)
  OBVIOUS
<1>2. C!ResetContext \in Context /\ C!ResetRegisters \in [DOMAIN C!ResetRegisters -> Data]
  BY ResetType
<1>3. C!Reset(c) \in Con
  BY <1>1, <1>2 DEF C!Reset, Con, ConOver
<1> QED
  BY <1>3 DEF C!Reset, ConOver

LEMMA InitCore == Init => CoreInv
<1> SUFFICES ASSUME Init PROVE CoreInv
  OBVIOUS
<1>1. /\ con \in Con /\ con.ififo = <<>> /\ con.opty = <<>>
      /\ con.ctx = C!ResetContext /\ con.ctx0 = C!ResetContext
  <2>1. <<>> \in Seq(Nat) /\ <<>> \in Seq([addr : Nat, data : Data])
    OBVIOUS
  <2> DEFINE c == [opty |-> <<>>, changes |-> <<>>, ctx |-> {}, ctx0 |-> {}, mem |-> {},
                   ififo |-> <<>>]
             X == {{}, <<>>}
  <2>2. c \in ConOver(X) /\ c.opty = <<>>
    BY <2>1 DEF ConOver
  <2>3. con = C!Reset(c)
    BY DEF Init, SocInit
  <2> HIDE DEF c, X
  <2> QED
    BY <2>2, <2>3, ResetCon
<1>2. saved_mem \in [1 .. Len(saved_mem) -> Data]
  BY TestbenchAssumption
<1>3. TypeInv
  <2>1. asked \in Seq(ProperCall) /\ ongoing \in Seq(ProperTask)
    BY DEF Init
  <2>2. dest \in [Dests -> Data]
    BY ZeroData DEF Init
  <2>3. enable \in BOOLEAN /\ mismatch \in BOOLEAN
    BY DEF Init, SocInit, D!DeviceInit
  <2> QED
    BY <1>1, <1>2, <2>1, <2>2, <2>3 DEF Init, SocInit, TypeInv
<1>4. PortInv
  BY DEF Init, SocInit, D!DeviceInit, PortInv
<1>5. Held = <<>> /\ AllChars = <<>> /\ got \in Seq(Char)
  BY <1>1 DEF Init, SocInit, Held, AllChars
<1>6. ~con.ctx.uart_avail /\ ~con.ctx.uart_fetched
  BY <1>1 DEF C!ResetContext
<1>7. CharInv
  BY <1>5, <1>6, CharsOnceIs DEF CharInv, AllChars, Init, SocInit
<1> QED
  BY <1>3, <1>4, <1>7 DEF CoreInv

\* A call goes to the end of the queue.
LEMMA CallGiven ==
    ASSUME TypeInv, NEW c \in test.calls
    PROVE  Given(c) \in ProperCall /\ Given(c).kind = c.kind
<1>1. c \in Call /\ Proper(c)
  BY TestbenchAssumption DEF TypeInv
<1>2. CASE c.from = NoDest
  BY <1>1, <1>2 DEF Given, ProperCall
<1>3. CASE c.from # NoDest
  <2>1. dest[c.from] \in Data
    BY <1>1, <1>3 DEF TypeInv, Call
  <2> DEFINE g == [c EXCEPT !.data = dest[c.from]]
  <2>2. g \in Call /\ g.addr = c.addr /\ g.size = c.size /\ g.dest = c.dest /\ g.kind = c.kind
    BY <1>1, <2>1 DEF Call
  <2>3. Proper(g)
    BY <1>1, <2>2 DEF Proper
  <2>4. Given(c) = g
    BY <1>3 DEF Given
  <2> QED
    BY <2>2, <2>3, <2>4 DEF ProperCall
<1> QED
  BY <1>2, <1>3

LEMMA SubmitKeeps ==
    ASSUME TypeInv, PortInv, NEW c \in ProperCall, P!submit(P!Task(c)), asked' = Append(asked, c),
           UNCHANGED <<sync_order, enable, ram, con, typed, held, test, tx>>,
           at' = "body" \/ (at' = "await" /\ asked = <<>> /\ c.kind # "expect")
    PROVE  TypeInv' /\ PortInv'
<1>1. asked \in Seq(ProperCall) /\ ongoing \in Seq(ProperTask) /\ Len(ongoing) = Len(asked)
      /\ \A i \in 1 .. Len(asked) : ongoing[i] = P!Task(asked[i])
  BY DEF TypeInv, PortInv
<1>2. ongoing' = Append(ongoing, P!Task(c)) /\ P!Task(c) \in ProperTask
      /\ UNCHANGED <<dest, mismatch>>
  BY DEF P!submit, ProperTask
<1>3. asked' \in Seq(ProperCall) /\ ongoing' \in Seq(ProperTask)
  BY <1>1, <1>2
<1>4. TypeInv'
  BY <1>2, <1>3 DEF TypeInv
<1>5. Len(asked') = Len(asked) + 1 /\ Len(ongoing') = Len(asked) + 1 /\ Len(asked) \in Nat
      /\ asked'[Len(asked) + 1] = c /\ ongoing'[Len(asked) + 1] = P!Task(c)
      /\ \A i \in 1 .. Len(asked) : asked'[i] = asked[i] /\ ongoing'[i] = ongoing[i]
  BY <1>1, <1>2, AppendProperties
<1>6. \A i \in 1 .. Len(asked') : ongoing'[i] = P!Task(asked'[i])
  BY <1>1, <1>5
<1>7. asked' # <<>>
  BY <1>1
<1>8. CASE asked = <<>>
  <2>1. dreq = NoRequest /\ asked'[1] = c /\ Len(asked') = 1
    BY <1>5, <1>8 DEF PortInv
  <2>2. dreq' = P!request(P!Task(c))
    BY <2>1 DEF P!submit, P!busy
  <2>3. tx' = D!NoTransaction
    BY <1>8 DEF PortInv
  <2> QED
    BY <1>4, <1>5, <1>6, <1>7, <2>1, <2>2, <2>3 DEF PortInv
<1>9. CASE asked # <<>>
  <2>1. asked[1] \in ProperCall /\ dreq = P!request(P!Task(asked[1])) /\ 1 \in 1 .. Len(asked)
    BY <1>1, <1>9 DEF PortInv
  <2>2. dreq # NoRequest
    BY <2>1, CallRequest
  <2>3. dreq' = dreq /\ asked'[1] = asked[1]
    BY <1>5, <2>1, <2>2 DEF P!submit, P!busy
  <2>4. tx' = D!NoTransaction \/ tx' = D!Started(creq(dreq'))
    BY <2>3 DEF PortInv
  <2> QED
    BY <1>4, <1>5, <1>6, <1>7, <1>9, <2>1, <2>3, <2>4 DEF PortInv
<1> QED
  BY <1>8, <1>9

LEMMA TurnKeeps ==
    ASSUME CoreInv, mismatch = FALSE, NEW next_enable \in BOOLEAN, Turn(next_enable),
           test' = test, at' \notin {"pre", "post"},
           at' = "await" => at = "await" /\ ~Answered
    PROVE  CoreInv'
<1>1. con.ctx.uart_avail => con.ififo # <<>>
  BY CharsOnceIs DEF CoreInv, CharInv
<1>2. UNCHANGED <<sync_order, typed, held>> /\ con' = ConAfter(creq(dreq))
  BY DEF Turn, Tick, SocTick
<1>3. con' \in Con
  BY <1>1, <1>2, ConTick DEF CoreInv, CharInv
<1>4. ram' \in [1 .. Len(saved_mem) -> Data]
  BY RamTick DEF CoreInv
<1>5. dest' \in [Dests -> Data] /\ mismatch' \in BOOLEAN
  BY <1>1, DestTick DEF CoreInv
<1>6. CASE Answered
  <2>1. asked # <<>> /\ asked[1] \in ProperCall
    BY <1>6, Served DEF CoreInv
  <2>2. /\ asked' = Tail(asked) /\ ongoing' = Tail(ongoing) /\ tx' = D!NoTransaction
        /\ dreq' = IF asked' = <<>> THEN NoRequest ELSE P!request(P!Task(asked'[1]))
        /\ enable' = next_enable
    BY <1>6, Queue DEF CoreInv
  <2>3. asked' \in Seq(ProperCall) /\ ongoing' \in Seq(ProperTask)
        /\ Len(asked') = Len(asked) - 1 /\ Len(ongoing') = Len(asked')
        /\ \A i \in 1 .. Len(asked') : ongoing'[i] = P!Task(asked'[i])
    BY <2>1, <2>2, Tails DEF CoreInv
  <2>4. TypeInv'
    BY <1>2, <1>3, <1>4, <1>5, <2>2, <2>3 DEF TypeInv, CoreInv
  <2>5. PortInv'
    BY <1>6, <2>2, <2>3 DEF PortInv
  <2> QED
    BY <2>4, <2>5, CharTick DEF CoreInv
<1>7. CASE ~Answered
  <2>1. /\ UNCHANGED <<asked, ongoing, dreq>> /\ enable' = next_enable
        /\ tx' = tx \/ (asked # <<>> /\ tx' = D!Started(creq(dreq)))
    BY <1>7, Queue DEF CoreInv
  <2>2. TypeInv'
    BY <1>2, <1>3, <1>4, <1>5, <2>1 DEF TypeInv, CoreInv
  <2>3. creq(dreq)' = creq(dreq)
    BY <2>1 DEF creq
  <2>4. PortInv'
    BY <2>1, <2>3 DEF PortInv, CoreInv
  <2> QED
    BY <2>2, <2>4, CharTick DEF CoreInv
<1> QED
  BY <1>6, <1>7

LEMMA PretestKeeps == ASSUME CoreInv, Pretest PROVE CoreInv'
<1> DEFINE X == {con.ctx, con.ctx0, con.mem, con.ififo}
<1>1. con \in ConOver(X)
  BY DEF ConOver, CoreInv, TypeInv, Con
<1>2. con' = C!Reset(con)
  BY DEF Pretest, SocReset
<1> HIDE DEF X
<1>3. con' \in Con /\ con'.ififo = <<>> /\ con'.ctx = C!ResetContext
  BY <1>1, <1>2, ResetCon
<1>4. saved_mem \in [1 .. Len(saved_mem) -> Data]
  BY TestbenchAssumption
<1>5. TypeInv'
  BY <1>3, <1>4 DEF TypeInv, CoreInv, Pretest, SocReset, portVars
<1>6. PortInv'
  BY DEF PortInv, CoreInv, Pretest, SocReset, portVars
<1>7. Held' = Held /\ typed' = typed /\ got' = <<>> /\ got' \in Seq(Char)
  BY DEF Held, Pretest, SocReset
<1>8. AllChars' = Held
  <2>1. <<>> \o <<>> \o Held = Held
    BY DEF Held
  <2> QED
    BY <1>3, <1>7, <2>1 DEF AllChars
<1>9. held # NoChar => held = typed
  <2>1. CASE held # NoChar
    <3>1. got \o con.ififo \in Seq(Char) /\ Held = <<held>> /\ held \in Char
      BY <2>1 DEF CoreInv, TypeInv, CharInv, Con, Held
    <3>2. AllChars \in Seq(Char) /\ Len(AllChars) \in Nat \ {0} /\ AllChars[Len(AllChars)] = held
      <4>1. Len(AllChars) = Len(got \o con.ififo) + 1 /\ AllChars \in Seq(Char)
            /\ AllChars[Len(got \o con.ififo) + 1] = held /\ Len(got \o con.ififo) \in Nat
        BY <3>1 DEF AllChars
      <4> QED
        BY <4>1
    <3>3. Len(AllChars) \in DOMAIN AllChars
      BY <3>2
    <3>4. AllChars[Len(AllChars)] = typed - Len(AllChars) + Len(AllChars)
      BY <3>3, CharsOnceIs DEF CoreInv, CharInv
    <3> QED
      BY <3>2, <3>4 DEF CoreInv, TypeInv
  <2> QED
    BY <2>1
<1>10. held = NoChar => Held = <<>>
  BY DEF Held
<1>11. held # NoChar => Held = <<held>> /\ typed >= 1
  BY <1>9 DEF Held, CoreInv, TypeInv, Char
<1>12. ~con'.ctx.uart_avail /\ ~con'.ctx.uart_fetched
  BY <1>3 DEF C!ResetContext
<1>13. /\ \A i \in DOMAIN AllChars' : AllChars'[i] = typed' - Len(AllChars') + i
       /\ Len(AllChars') <= typed'
  <2>1. CASE held = NoChar
    <3>1. AllChars' = <<>>
      BY <1>8, <1>10, <2>1
    <3> QED
      BY <1>7, <3>1 DEF CoreInv, TypeInv
  <2>2. CASE held # NoChar
    <3>1. AllChars' = <<typed>> /\ typed \in Nat
      BY <1>8, <1>9, <1>11, <2>2 DEF CoreInv, TypeInv
    <3> QED
      BY <1>7, <1>11, <2>2, <3>1
  <2> QED
    BY <2>1, <2>2
<1>14. CharInv'
  BY <1>7, <1>12, <1>13 DEF CharInv, CharsOnce, AllChars, Held
<1> QED
  BY <1>5, <1>6, <1>14 DEF CoreInv

LEMMA PushKeeps == ASSUME CoreInv, Push, UNCHANGED <<portVars, at, test, ghosts>> PROVE CoreInv'
<1>1. con \in Con /\ con.ififo \in Seq(Char) /\ got \in Seq(Char) /\ held \in Char
  BY DEF CoreInv, TypeInv, Con, CharInv, Push
<1>2. con' = [con EXCEPT !.ififo = Append(@, held)] /\ held' = NoChar /\ typed' = typed
  BY DEF Push
<1>3. Append(con.ififo, held) \in Seq(Char)
  BY <1>1
<1>4. con' \in Con /\ con'.ififo = Append(con.ififo, held) /\ con'.ctx = con.ctx
  BY <1>1, <1>2, <1>3 DEF Con
<1>5. TypeInv'
  BY <1>2, <1>4 DEF TypeInv, CoreInv, Push, portVars
<1>6. PortInv'
  BY DEF PortInv, CoreInv, Push, portVars, creq
<1>7. Held = <<held>> /\ Held' = <<>>
  BY <1>2 DEF Held, Push
<1>8. got \o Append(con.ififo, held) \o <<>> = got \o con.ififo \o <<held>>
  <2>1. Append(con.ififo, held) = con.ififo \o <<held>> /\ <<held>> \in Seq(Char)
    BY <1>1, AppendIsConcat
  <2>2. \A s, t, u \in Seq(Char) : s \o (t \o u) = (s \o t) \o u
    BY ConcatAssociative
  <2>3. got \o Append(con.ififo, held) \in Seq(Char)
    BY <1>1, <1>3
  <2> DEFINE f == con.ififo
             f1 == Append(con.ififo, held)
             d == <<held>>
  <2>4. f1 = f \o d /\ d \in Seq(Char) /\ f \in Seq(Char) /\ got \in Seq(Char)
        /\ got \o f1 \in Seq(Char)
    BY <1>1, <2>1, <2>3
  <2> HIDE DEF f, f1, d
  <2>5. got \o f1 = (got \o f) \o d
    BY <2>2, <2>4
  <2>6. (got \o f1) \o <<>> = got \o f1
    BY <2>4, ConcatEmptySeq
  <2> QED
    BY <2>5, <2>6 DEF f, f1, d
<1>9. AllChars' = AllChars /\ got' = got
  BY <1>4, <1>7, <1>8 DEF AllChars, ghosts
<1>10. Append(con.ififo, held) # <<>>
  BY <1>1
<1>11. CharInv'
  BY <1>1, <1>2, <1>4, <1>9, <1>10, CharsOnceIs
  DEF CharInv, CharsOnce, AllChars, Held, CoreInv
<1> QED
  BY <1>5, <1>6, <1>11 DEF CoreInv

LEMMA KeyInKeeps ==
    ASSUME CoreInv, NEW max, KeyIn(max), UNCHANGED <<portVars, at, test, ghosts>> PROVE CoreInv'
<1>1. con.ififo \in Seq(Char) /\ got \in Seq(Char) /\ typed \in Nat /\ held = NoChar
  BY DEF CoreInv, TypeInv, Con, CharInv, KeyIn
<1>2. held' = typed + 1 /\ typed' = typed + 1 /\ UNCHANGED <<con, got>>
  BY DEF KeyIn, ghosts
<1>3. typed + 1 \in Char /\ typed + 1 # NoChar
  BY <1>1, TestbenchAssumption DEF Char
<1>4. TypeInv'
  BY <1>1, <1>2, <1>3 DEF TypeInv, CoreInv, KeyIn, portVars
<1>5. PortInv'
  BY DEF PortInv, CoreInv, KeyIn, portVars, creq
<1> DEFINE g == got \o con.ififo
<1>6. Held = <<>> /\ Held' = <<typed + 1>> /\ g \in Seq(Char)
  BY <1>1, <1>2, <1>3 DEF Held
<1>7. AllChars = g /\ AllChars' = g \o <<typed + 1>>
  <2>1. g \o <<>> = g
    BY <1>6, ConcatEmptySeq
  <2> QED
    BY <1>2, <1>6, <2>1 DEF AllChars
<1> HIDE DEF g
<1>8. /\ Len(g \o <<typed + 1>>) = Len(g) + 1 /\ Len(g) \in Nat
      /\ DOMAIN (g \o <<typed + 1>>) = 1 .. Len(g) + 1
      /\ \A i \in 1 .. Len(g) : (g \o <<typed + 1>>)[i] = g[i]
      /\ (g \o <<typed + 1>>)[Len(g) + 1] = typed + 1
      /\ DOMAIN g = 1 .. Len(g)
  BY <1>3, <1>6
<1>9. /\ \A i \in DOMAIN g : g[i] = typed - Len(g) + i
      /\ con.ctx.uart_avail => con.ififo # <<>>
      /\ Len(g) <= typed /\ ~con.ctx.uart_fetched
  BY <1>7, CharsOnceIs DEF CoreInv, CharInv, AllChars
<1>10. \A i \in DOMAIN AllChars' : AllChars'[i] = typed' - Len(AllChars') + i
  <2> SUFFICES ASSUME NEW i \in 1 .. Len(g) + 1
               PROVE  (g \o <<typed + 1>>)[i] = (typed + 1) - (Len(g) + 1) + i
    BY <1>2, <1>7, <1>8
  <2>1. CASE i \in 1 .. Len(g)
    BY <1>1, <1>8, <1>9, <2>1
  <2>2. CASE i = Len(g) + 1
    BY <1>1, <1>8, <2>2
  <2> QED
    BY <1>8, <2>1, <2>2
<1>11. Len(AllChars') <= typed'
  BY <1>1, <1>2, <1>7, <1>8, <1>9
<1>12. CharInv'
  BY <1>1, <1>2, <1>9, <1>10, <1>11 DEF CharInv, CharsOnce, AllChars, Held
<1> QED
  BY <1>4, <1>5, <1>12 DEF CoreInv

\* The variables CharInv is about.
LEMMA CharKeeps == ASSUME CharInv, UNCHANGED <<got, con, held, typed>> PROVE CharInv'
BY DEF CharInv, CharsOnce, Held

LEMMA CallKeeps ==
    ASSUME CoreInv, NEW c \in test.calls, P!submit(P!Task(Given(c))), Made(Given(c)),
           at' = "body" \/ (at' = "await" /\ ~P!busy /\ c.kind # "expect")
    PROVE  CoreInv'
<1>1. Given(c) \in ProperCall /\ Given(c).kind = c.kind
  BY CallGiven DEF CoreInv
<1>2. asked' = Append(asked, Given(c)) /\ UNCHANGED <<socVars, test, ghosts>>
  BY DEF Made
<1>3. ~P!busy => asked = <<>>
  <2>1. CASE asked # <<>>
    <3>1. asked[1] \in ProperCall /\ dreq = P!request(P!Task(asked[1]))
      BY <2>1 DEF CoreInv, TypeInv, PortInv
    <3> QED
      BY <3>1, CallRequest DEF P!busy
  <2> QED
    BY <2>1
<1>4. TypeInv' /\ PortInv'
  BY <1>1, <1>2, <1>3, SubmitKeeps DEF CoreInv, socVars
<1>5. CharInv'
  BY <1>2, CharKeeps DEF CoreInv, socVars, ghosts
<1> QED
  BY <1>4, <1>5 DEF CoreInv

\* A step of the main thread between two tests, or to and from a fence.
LEMMA AtKeeps ==
    ASSUME CoreInv, UNCHANGED <<socVars, portVars, test, ghosts>>, at' # "await",
           at' \in {"pre", "post"} => at \in {"pre", "post"} \/ ongoing = <<>>
    PROVE  CoreInv'
<1>1. TypeInv'
  BY DEF CoreInv, TypeInv, socVars, portVars
<1>2. ongoing = <<>> => asked = <<>>
  BY DEF CoreInv, TypeInv, PortInv
<1>3. PortInv'
  BY <1>2 DEF CoreInv, PortInv, socVars, portVars, creq
<1> QED
  BY <1>1, <1>3, CharKeeps DEF CoreInv, socVars, ghosts

LEMMA CoreStep == CoreInv /\ [Next]_vars => CoreInv'
<1> SUFFICES ASSUME CoreInv, [Next]_vars PROVE CoreInv'
  OBVIOUS
<1>1. CASE UNCHANGED vars
  <2>1. TypeInv' /\ PortInv'
    BY <1>1 DEF CoreInv, TypeInv, PortInv, vars, socVars, portVars, creq
  <2> QED
    BY <1>1, <2>1, CharKeeps DEF CoreInv, vars, socVars, ghosts
<1>2. CASE Over
  <2>1. UNCHANGED vars
    BY <1>2 DEF Over
  <2> QED
    BY <1>1, <2>1
<1>3. ASSUME ~Aborted, Program PROVE CoreInv'
  <2>1. mismatch = FALSE
    BY <1>3 DEF Aborted, CoreInv, TypeInv
  <2>2. CASE Pretest
    BY <2>2, PretestKeeps
  <2>3. CASE Submit
    BY <2>3, CallKeeps DEF Submit
  <2>4. CASE Access
    BY <2>4, CallKeeps DEF Access
  <2>5. CASE Fence \/ End \/ Fenced \/ Posttest
    BY <2>5, AtKeeps DEF Fence, End, Fenced, Posttest
  <2>6. ASSUME NEW next_enable \in BOOLEAN, BodyTick(next_enable) \/ FenceTick(next_enable)
        PROVE  CoreInv'
    <3>1. Turn(next_enable)
      BY <2>6 DEF BodyTick, FenceTick, Turn
    <3>2. test' = test /\ at' \in {"body", "fence", "end"}
      BY <2>6 DEF BodyTick, FenceTick, Tick
    <3> QED
      BY <2>1, <3>1, <3>2, TurnKeeps
  <2>7. ASSUME NEW next_enable \in BOOLEAN, AwaitTick(next_enable)
        PROVE  CoreInv'
    <3>1. Turn(next_enable)
      BY <2>7 DEF AwaitTick, Turn
    <3>2. oresp.ready /\ oresp.last <=> Answered
      BY Served DEF CoreInv
    <3>3. test' = test /\ at = "await" /\ at' = IF Answered THEN "body" ELSE "await"
      BY <2>7, <3>2 DEF AwaitTick, Tick
    <3> QED
      BY <2>1, <3>1, <3>3, TurnKeeps
  <2> QED
    BY <1>3, <2>2, <2>3, <2>4, <2>5, <2>6, <2>7 DEF Program
<1>4. CASE Thread /\ UNCHANGED <<portVars, at, tests, test, calls, ghosts>>
  BY <1>4, PushKeeps, KeyInKeeps DEF Thread
<1> QED
  BY <1>1, <1>2, <1>3, <1>4 DEF Next

LEMMA CoreAlways == Safety => []CoreInv
BY InitCore, CoreStep, PTL DEF Safety

(* Every character typed is given to the program once and in order, for    *)
(* any number of characters, any calls and either order of the two syncs,  *)
(* while the UART thread appends and tests reset the device.               *)
THEOREM BenchCharsOnce == Safety => []CharsOnce
<1>1. CoreInv => CharsOnce
  BY DEF CoreInv, CharInv
<1> QED
  BY CoreAlways, <1>1, PTL

(* When a hook runs no task, request or transaction is left of the test    *)
(* before it, whatever it called and wherever it stopped waiting.          *)
THEOREM BenchCleanHandover == Safety => []CleanHandover
<1>1. CoreInv => CleanHandover
  <2> SUFFICES ASSUME CoreInv, at \in {"post", "pre"}
               PROVE  ongoing = <<>> /\ dreq = NoRequest /\ ~tx.busy
    BY DEF CleanHandover
  <2>1. asked = <<>>
    BY DEF CoreInv, PortInv
  <2>2. ongoing = <<>> /\ dreq = NoRequest /\ tx = D!NoTransaction
    BY <2>1 DEF CoreInv, TypeInv, PortInv
  <2> QED
    BY <2>2 DEF D!NoTransaction
<1> QED
  BY CoreAlways, <1>1, PTL

-----------------------------------------------------------------------------
(* Characters printed and sent.                                            *)

LEMMA FrontAppend ==
    ASSUME NEW S, NEW s \in Seq(S), NEW x \in S
    PROVE  Front(Append(s, x)) = s
<1> DEFINE t == Append(s, x)
<1>1. t \in Seq(S) /\ Len(t) = Len(s) + 1 /\ Len(s) \in Nat
      /\ \A i \in 1 .. Len(s) : t[i] = s[i]
  BY AppendProperties
<1> HIDE DEF t
<1>2. Front(t) = SubSeq(t, 1, Len(s))
  BY <1>1 DEF Front
<1>3. \A i \in 1 .. Len(s) : t[i] \in S
  BY <1>1
<1>4. /\ SubSeq(t, 1, Len(s)) \in Seq(S)
      /\ Len(SubSeq(t, 1, Len(s))) = IF 1 <= Len(s) THEN Len(s) - 1 + 1 ELSE 0
      /\ \A i \in 1 .. Len(s) - 1 + 1 : SubSeq(t, 1, Len(s))[i] = t[1 + i - 1]
  BY <1>1, <1>3, SubSeqProperties
<1>5. Len(SubSeq(t, 1, Len(s))) = Len(s) /\ \A i \in 1 .. Len(s) : SubSeq(t, 1, Len(s))[i] = s[i]
  BY <1>1, <1>4
<1> QED
  BY <1>2, <1>4, <1>5, SeqEqual DEF t

LEMMA AppendFront ==
    ASSUME NEW S, NEW s \in Seq(S), s # <<>>
    PROVE  /\ Front(s) \in Seq(S) /\ Append(Front(s), s[Len(s)]) = s
           /\ Len(Front(s)) = Len(s) - 1 /\ Len(s) \in Nat \ {0} /\ s[Len(s)] \in S
           /\ \A i \in 1 .. Len(s) - 1 : Front(s)[i] = s[i]
<1>1. PICK f \in Seq(S), x \in S : s = Append(f, x)
  BY SequenceEmptyOrAppend
<1>2. Front(s) = f
  BY <1>1, FrontAppend
<1>3. Len(s) = Len(f) + 1 /\ s[Len(f) + 1] = x /\ Len(f) \in Nat
      /\ \A i \in 1 .. Len(f) : s[i] = f[i]
  BY <1>1, AppendProperties
<1> QED
  BY <1>1, <1>2, <1>3

LEMMA PublishedType ==
    ASSUME NEW S, NEW s \in Seq(S), NEW written \in BOOLEAN, written => s # <<>>
    PROVE  Published(written, s) \in Seq(S)
BY AppendFront DEF Published

LEMMA Notified ==
    ASSUME stderr \in Seq(Nat), char_buffer \in Seq(Nat), NEW c \in Nat, NotifyChar(c)
    PROVE  stderr' \in Seq(Nat) /\ char_buffer' \in Seq(Nat) /\ Said' = Append(Said, c)
<1> DEFINE line == Append(char_buffer, c)
<1>1. line \in Seq(Nat) /\ line = char_buffer \o <<c>> /\ <<c>> \in Seq(Nat)
  BY AppendIsConcat
<1>2. Said \in Seq(Nat) /\ Append(Said, c) = Said \o <<c>>
  <2>1. Said \in Seq(Nat)
    BY DEF Said
  <2> QED
    BY <2>1, AppendIsConcat
<1>3. \/ stderr' = stderr \o line /\ char_buffer' = <<>>
      \/ stderr' = stderr /\ char_buffer' = line
  BY DEF NotifyChar
<1> HIDE DEF line
<1>4. stderr \o line = Said \o <<c>>
  BY <1>1, ConcatAssociative DEF Said
<1>5. stderr \o line \in Seq(Nat) /\ <<>> \in Seq(Nat)
  BY <1>1
<1>6. (stderr \o line) \o <<>> = stderr \o line
  BY <1>5, ConcatEmptySeq
<1> QED
  BY <1>1, <1>2, <1>3, <1>4, <1>5, <1>6 DEF Said

\* Where the ghosts take down what is stored.
LEMMA GhostTick ==
    ASSUME CoreInv, NEW next_enable \in BOOLEAN, Turn(next_enable)
    PROVE  /\ said' = IF Took(C!VIRTUAL_UART) /\ asked[1].data[0] <= 127
                      THEN Append(said, asked[1].data[0]) ELSE said
           /\ sent' = IF Took(C!UART_TXD) THEN Append(sent, asked[1].data[0]) ELSE sent
           /\ nums' = IF Took(C!NUM) THEN Append(nums, [num |-> C!number(asked[1].data),
                                                        ack |-> asked[1].data[0]])
                      ELSE nums
           /\ fresh' = FALSE
           /\ \A reg : Took(reg) => asked[1].data \in Data
<1>1. (oresp.ready /\ oresp.last <=> Answered)
      /\ (Answered => asked # <<>> /\ asked[1] \in ProperCall)
  BY Served DEF CoreInv
<1>2. asked # <<>> => Head(asked) = asked[1]
  BY DEF CoreInv, TypeInv
<1>3. CASE Answered
  <2>1. /\ said' = Noted(said, Writes(asked[1], C!VIRTUAL_UART) /\ asked[1].data[0] <= 127,
                         asked[1].data[0])
        /\ sent' = Noted(sent, Writes(asked[1], C!UART_TXD), asked[1].data[0])
        /\ nums' = Noted(nums, Writes(asked[1], C!NUM),
                         [num |-> C!number(asked[1].data), ack |-> asked[1].data[0]])
        /\ fresh' = FALSE
    BY <1>1, <1>2, <1>3 DEF Turn, Tick, Observe
  <2>2. asked[1].data \in Data
    BY <1>1, <1>3 DEF ProperCall, Call
  <2> QED
    BY <1>3, <2>1, <2>2 DEF Noted, Took
<1>4. CASE ~Answered
  BY <1>1, <1>4 DEF Turn, Tick, Observe, Took
<1> QED
  BY <1>3, <1>4

\* What the monitor of the simulation prints in a tick.
LEMMA Checked ==
    ASSUME NEW next_enable \in BOOLEAN, Turn(next_enable)
    PROVE  /\ con' = ConAfter(creq(dreq)) /\ sync_order' = sync_order
           /\ checkout_confreg(con')
BY DEF Turn, Tick, SocTick

LEMMA PrintTick ==
    ASSUME CoreInv, PrintInv, NEW next_enable \in BOOLEAN, Turn(next_enable)
    PROVE  PrintInv'
<1> DEFINE stored == Took(C!VIRTUAL_UART)
           c == asked[1].data[0]
<1>1. /\ con' \in Con /\ con \in Con
      /\ con'.ctx.vuart_data = IF stored THEN c ELSE con.ctx.vuart_data
      /\ sync_order = "device" =>
            /\ ~con'.ctx.vuart_written
            /\ con'.ctx0.vuart_written <=> stored \/ con.ctx.vuart_written
            /\ con'.ctx0.vuart_data = con'.ctx.vuart_data
      /\ sync_order = "confreg" =>
            /\ con'.ctx.vuart_written <=> stored
            /\ con'.ctx0.vuart_written <=> con.ctx.vuart_written
            /\ con'.ctx0.vuart_data = con.ctx.vuart_data
  <2>1. con.ctx.uart_avail => con.ififo # <<>>
    BY CharsOnceIs DEF CoreInv, CharInv
  <2> QED
    BY <2>1, Checked, ConTick DEF CoreInv, TypeInv, CharInv
<1>2. /\ said' = IF stored /\ c <= 127 THEN Append(said, c) ELSE said
      /\ stored => c \in Nat
  <2>1. stored => asked[1].data \in Data
    BY GhostTick
  <2>2. \A d \in Data : d[0] \in Nat
    BY DEF Data, Lanes
  <2>3. stored => c \in Nat
    BY <2>1, <2>2
  <2> QED
    BY <2>3, GhostTick
<1>3. sync_order \in {"device", "confreg"} /\ sync_order' = sync_order
  BY Checked DEF CoreInv, TypeInv
<1>4. con.ctx.vuart_data \in Nat /\ con'.ctx0.vuart_data \in Nat
  BY <1>1 DEF Con, Context
<1>5. IF con'.ctx0.vuart_written /\ con'.ctx0.vuart_data <= 127
      THEN NotifyChar(con'.ctx0.vuart_data) ELSE UNCHANGED <<char_buffer, stderr>>
  BY Checked DEF checkout_confreg, C!has_char, C!get_char
<1>6. /\ stderr' \in Seq(Nat) /\ char_buffer' \in Seq(Nat)
      /\ Said' = IF con'.ctx0.vuart_written /\ con'.ctx0.vuart_data <= 127
                 THEN Append(Said, con'.ctx0.vuart_data) ELSE Said
  <2>1. stderr \in Seq(Nat) /\ char_buffer \in Seq(Nat)
    BY DEF PrintInv
  <2>2. CASE con'.ctx0.vuart_written /\ con'.ctx0.vuart_data <= 127
    BY <1>4, <1>5, <2>1, <2>2, Notified
  <2>3. CASE ~(con'.ctx0.vuart_written /\ con'.ctx0.vuart_data <= 127)
    BY <1>5, <2>1, <2>3 DEF Said
  <2> QED
    BY <2>2, <2>3
<1>7. said \in Seq(Nat) /\ said' \in Seq(Nat)
  BY <1>2 DEF PrintInv
<1> HIDE DEF c, stored
<1>8. CASE sync_order = "device"
  <2>1. Said = said
    BY <1>8 DEF PrintInv, Published, Unsaid
  <2>2. Said' = said'
    BY <1>1, <1>2, <1>6, <1>8, <2>1 DEF PrintInv
  <2> QED
    BY <1>1, <1>3, <1>6, <1>7, <1>8, <2>2 DEF PrintInv, Published, Unsaid
<1>9. CASE sync_order = "confreg"
  <2>1. Said' = said
    <3>1. CASE Unsaid
      BY <1>1, <1>6, <1>7, <1>9, <3>1, AppendFront DEF PrintInv, Published, Unsaid
    <3>2. CASE ~Unsaid
      BY <1>1, <1>6, <1>9, <3>2 DEF PrintInv, Published, Unsaid
    <3> QED
      BY <3>1, <3>2
  <2>2. CASE stored /\ c <= 127
    <3>1. said' = Append(said, c) /\ c \in Nat /\ con'.ctx.vuart_data = c
      BY <1>1, <1>2, <2>2
    <3>2. Front(said') = said /\ said' # <<>> /\ said'[Len(said')] = c
      BY <1>7, <3>1, FrontAppend
    <3>3. Unsaid'
      BY <1>1, <1>9, <2>2, <3>1 DEF Unsaid
    <3> QED
      BY <1>3, <1>6, <1>7, <1>9, <2>1, <3>1, <3>2, <3>3 DEF PrintInv, Published
  <2>3. CASE ~(stored /\ c <= 127)
    <3>1. said' = said /\ ~Unsaid'
      BY <1>1, <1>2, <1>9, <2>3 DEF Unsaid
    <3> QED
      BY <1>3, <1>6, <1>7, <1>9, <2>1, <3>1 DEF PrintInv, Published
  <2> QED
    BY <2>2, <2>3
<1> QED
  BY <1>3, <1>8, <1>9

LEMMA SendTick ==
    ASSUME CoreInv, SendInv, NEW next_enable \in BOOLEAN, Turn(next_enable)
    PROVE  SendInv'
<1> DEFINE stored == Took(C!UART_TXD)
           c == asked[1].data[0]
<1>1. /\ con' \in Con /\ con \in Con
      /\ con'.ctx.uart_data = IF stored THEN c ELSE con.ctx.uart_data
      /\ sync_order = "device" =>
            /\ ~con'.ctx.uart_written
            /\ con'.opty = IF stored \/ con.ctx.uart_written
                           THEN Append(con.opty, con'.ctx.uart_data) ELSE con.opty
      /\ sync_order = "confreg" =>
            /\ con'.ctx.uart_written <=> stored
            /\ con'.opty = IF con.ctx.uart_written
                           THEN Append(con.opty, con.ctx.uart_data) ELSE con.opty
  <2>1. con.ctx.uart_avail => con.ififo # <<>>
    BY CharsOnceIs DEF CoreInv, CharInv
  <2> QED
    BY <2>1, Checked, ConTick DEF CoreInv, TypeInv, CharInv
<1>2. /\ sent' = IF stored THEN Append(sent, c) ELSE sent
      /\ stored => c \in Nat
  <2>1. stored => asked[1].data \in Data
    BY GhostTick
  <2>2. \A d \in Data : d[0] \in Nat
    BY DEF Data, Lanes
  <2>3. stored => c \in Nat
    BY <2>1, <2>2
  <2> QED
    BY <2>3, GhostTick
<1>3. sync_order \in {"device", "confreg"} /\ sync_order' = sync_order
  BY Checked DEF CoreInv, TypeInv
<1>7. sent \in Seq(Nat) /\ sent' \in Seq(Nat)
  BY <1>2 DEF SendInv
<1> HIDE DEF c, stored
<1>8. CASE sync_order = "device"
  <2>1. con.opty = sent
    BY <1>8 DEF SendInv, Published, Unsent
  <2>2. con'.opty = sent'
    BY <1>1, <1>2, <1>8, <2>1 DEF SendInv
  <2> QED
    BY <1>1, <1>3, <1>7, <1>8, <2>2 DEF SendInv, Published, Unsent
<1>9. CASE sync_order = "confreg"
  <2>1. con'.opty = sent
    <3>1. CASE Unsent
      BY <1>1, <1>7, <1>9, <3>1, AppendFront DEF SendInv, Published, Unsent
    <3>2. CASE ~Unsent
      BY <1>1, <1>9, <3>2 DEF SendInv, Published, Unsent
    <3> QED
      BY <3>1, <3>2
  <2>2. CASE stored
    <3>1. sent' = Append(sent, c) /\ c \in Nat /\ con'.ctx.uart_data = c
      BY <1>1, <1>2, <2>2
    <3>2. Front(sent') = sent /\ sent' # <<>> /\ sent'[Len(sent')] = c
      BY <1>7, <3>1, FrontAppend
    <3>3. Unsent'
      BY <1>1, <1>9, <2>2, <3>1 DEF Unsent
    <3> QED
      BY <1>3, <1>7, <1>9, <2>1, <3>1, <3>2, <3>3 DEF SendInv, Published
  <2>3. CASE ~stored
    <3>1. sent' = sent /\ ~Unsent'
      BY <1>1, <1>2, <1>9, <2>3 DEF Unsent
    <3> QED
      BY <1>3, <1>7, <1>9, <2>1, <3>1 DEF SendInv, Published
  <2> QED
    BY <2>2, <2>3
<1> QED
  BY <1>3, <1>8, <1>9

SayInv == PrintInv /\ SendInv

LEMMA InitSay == Init => SayInv
<1> SUFFICES ASSUME Init PROVE SayInv
  OBVIOUS
<1> DEFINE c == [opty |-> <<>>, changes |-> <<>>, ctx |-> {}, ctx0 |-> {}, mem |-> {},
                 ififo |-> <<>>]
<1>1. con = C!Reset(c) /\ said = <<>> /\ sent = <<>> /\ stderr = <<>> /\ char_buffer = <<>>
  BY DEF Init, SocInit
<1>2. con.ctx = C!ResetContext /\ con.opty = <<>>
  BY <1>1 DEF C!Reset
<1>3. ~Unsaid /\ ~Unsent /\ ~con.ctx.vuart_written /\ ~con.ctx.uart_written
  BY <1>2 DEF C!ResetContext, Unsaid, Unsent
<1>4. <<>> \in Seq(Nat) /\ <<>> = <<>> \o <<>>
  OBVIOUS
<1> QED
  BY <1>1, <1>2, <1>3, <1>4 DEF SayInv, PrintInv, SendInv, Published, Said

LEMMA PretestSays == ASSUME CoreInv, SayInv, Pretest PROVE SayInv'
<1> DEFINE X == {con.ctx, con.ctx0, con.mem, con.ififo}
<1>1. con \in ConOver(X)
  BY DEF ConOver, CoreInv, TypeInv, Con
<1>2. con' = C!Reset(con)
  BY DEF Pretest, SocReset
<1> HIDE DEF X
<1>3. con'.ctx = C!ResetContext /\ con'.opty = con.opty
  BY <1>1, <1>2, ResetCon
<1>4. ~Unsaid' /\ ~Unsent' /\ ~con'.ctx.vuart_written /\ ~con'.ctx.uart_written
  BY <1>3 DEF C!ResetContext, Unsaid, Unsent
<1>5. /\ said' = Published(Unsaid, said) /\ sent' = Published(Unsent, sent)
      /\ UNCHANGED <<sync_order, stderr, char_buffer>>
  BY DEF Pretest, SocReset
<1>6. Unsaid \in BOOLEAN /\ Unsent \in BOOLEAN
  BY DEF Unsaid, Unsent, CoreInv, TypeInv, Con, Context
<1>7. said' \in Seq(Nat)
  BY <1>5, <1>6, PublishedType DEF SayInv, PrintInv
<1>8. sent' \in Seq(Nat)
  BY <1>5, <1>6, PublishedType DEF SayInv, SendInv
<1>9. PrintInv'
  BY <1>4, <1>5, <1>7 DEF SayInv, PrintInv, Published, Said
<1>10. SendInv'
  BY <1>3, <1>4, <1>5, <1>8 DEF SayInv, SendInv, Published
<1> QED
  BY <1>9, <1>10 DEF SayInv

LEMMA SayKeeps ==
    ASSUME SayInv, UNCHANGED <<said, sent, stderr, char_buffer, sync_order>>,
           con'.ctx = con.ctx, con'.opty = con.opty
    PROVE  SayInv'
BY DEF SayInv, PrintInv, SendInv, Said, Unsaid, Unsent, Published

LEMMA SayStep == CoreInv /\ SayInv /\ [Next]_vars => SayInv'
<1> SUFFICES ASSUME CoreInv, SayInv, [Next]_vars PROVE SayInv'
  OBVIOUS
<1>1. CASE UNCHANGED vars \/ Over
  BY <1>1, SayKeeps DEF Over, vars, socVars, ghosts
<1>2. CASE Program
  <2>1. CASE Pretest
    BY <2>1, PretestSays
  <2>2. CASE Submit \/ Access
    BY <2>2, SayKeeps DEF Submit, Access, Made, socVars, ghosts
  <2>3. CASE Fence \/ End \/ Fenced \/ Posttest
    BY <2>3, SayKeeps DEF Fence, End, Fenced, Posttest, socVars, ghosts
  <2>4. ASSUME NEW next_enable \in BOOLEAN,
               BodyTick(next_enable) \/ FenceTick(next_enable) \/ AwaitTick(next_enable)
        PROVE  SayInv'
    <3>1. Turn(next_enable)
      BY <2>4 DEF BodyTick, FenceTick, AwaitTick, Turn
    <3> QED
      BY <3>1, PrintTick, SendTick DEF SayInv
  <2> QED
    BY <1>2, <2>1, <2>2, <2>3, <2>4 DEF Program
<1>3. CASE Thread /\ UNCHANGED <<portVars, at, tests, test, calls, ghosts>>
  <2>1. CASE KeyIn(test.typed)
    BY <1>3, <2>1, SayKeeps DEF KeyIn, ghosts
  <2>2. CASE Push
    <3>1. con'.ctx = con.ctx /\ con'.opty = con.opty
      BY <2>2 DEF Push, CoreInv, TypeInv, Con
    <3> QED
      BY <1>3, <2>2, <3>1, SayKeeps DEF Push, ghosts
  <2> QED
    BY <1>3, <2>1, <2>2 DEF Thread
<1> QED
  BY <1>1, <1>2, <1>3 DEF Next

(* Every character stored to the virtual UART is printed once and in order *)
(* or waits in the line not yet complete, and every one stored to UART_TXD *)
(* reaches the terminal once and in order: for any calls, and whether      *)
(* Confreg is synchronised before or after CBusDevice.                     *)
THEOREM BenchSaidOnce == Safety => []SaidOnce
<1>1. SayInv => SaidOnce
  BY DEF SayInv, PrintInv, SendInv, SaidOnce, Said
<1> QED
  BY CoreAlways, InitSay, SayStep, <1>1, PTL DEF Safety

-----------------------------------------------------------------------------
(* The calls take effect in the order of the program.                      *)

Offsets == 0 .. 8 * Len(saved_mem) - 1
Bytes   == [a \in Offsets |-> ram[(a \div 8) + 1][a % 8]]

\* Where the bytes of a call are.
LEMMA Placed ==
    ASSUME NEW k \in ProperCall, k.addr.region # "confreg", NEW a \in Offsets
    PROVE  /\ (a \div 8) + 1 \in 1 .. Len(saved_mem) /\ a % 8 \in 0 .. 7
           /\ a - k.addr.offset \in 0 .. k.size - 1 <=>
                 /\ (a \div 8) + 1 = (k.addr.offset \div 8) + 1
                 /\ Sht(k) <= a % 8 /\ (a % 8) < Sht(k) + k.size
           /\ a - k.addr.offset \in 0 .. k.size - 1 =>
                 a - k.addr.offset = (a % 8) - Sht(k)
<1> DEFINE o == k.addr.offset
           q == o \div 8
           r == a % 8
           p == a \div 8
           s == Sht(k)
           z == k.size
<1>1. o \in Nat /\ k.size \in 1 .. 8 /\ Sht(k) \in 0 .. 7 /\ Sht(k) + k.size <= 8
      /\ o = 8 * q + Sht(k) /\ q \in Nat
  <2>1. o \in Nat /\ k.size \in Widths /\ o % k.size = 0
    BY DEF ProperCall, Call, Proper
  <2> QED
    BY <2>1, CallOp, InOneWord DEF Sht
<1>2. Len(saved_mem) \in Nat
  BY TestbenchAssumption
<1>3. a = 8 * p + r /\ p \in Nat /\ r \in 0 .. 7 /\ p + 1 \in 1 .. Len(saved_mem)
  BY <1>2 DEF Offsets
<1>4. z \in 1 .. 8 /\ s \in 0 .. 7 /\ s + z <= 8 /\ o = 8 * q + s
  BY <1>1
<1> HIDE DEF o, q, r, p, s, z
<1>5. a - o = (8 * p - 8 * q) + (r - s)
  BY <1>1, <1>3, <1>4
<1>6. /\ a - o \in 0 .. z - 1 <=> p = q /\ s <= r /\ r < s + z
      /\ a - o \in 0 .. z - 1 => a - o = r - s
      /\ p + 1 = q + 1 <=> p = q
  <2>1. CASE p = q
    BY <1>1, <1>3, <1>4, <1>5, <2>1
  <2>2. CASE p < q
    BY <1>1, <1>3, <1>4, <1>5, <2>2
  <2>3. CASE p > q
    BY <1>1, <1>3, <1>4, <1>5, <2>3
  <2> QED
    BY <1>1, <1>3, <2>1, <2>2, <2>3
<1> QED
  BY <1>3, <1>6 DEF o, p, q, r, s, z

\* The bytes of a call, from its word.
LEMMA BytesOf ==
    ASSUME NEW k \in ProperCall, k.addr.region # "confreg", NEW i \in 0 .. k.size - 1
    PROVE  Bytes[k.addr.offset + i] = ram[(k.addr.offset \div 8) + 1][i + Sht(k)]
<1> DEFINE a == k.addr.offset + i
<1>1. k.addr.offset \in Nat /\ k.size \in 1 .. 8 /\ Sht(k) \in 0 .. 7
      /\ k.addr.region \in {"boot", "low", "confreg"} /\ i \in Nat /\ i < k.size
  <2>1. k.addr.region \in {"boot", "low", "confreg"}
    BY DEF ProperCall, Call
  <2>2. k.addr.offset \in Nat /\ k.size \in 1 .. 8 /\ Sht(k) \in 0 .. 7
    BY CallOp
  <2> QED
    BY <2>1, <2>2
<1>2. InRam(k.addr)
  BY <1>1, Routed
<1>3. k.addr.offset + k.size <= 8 * Len(saved_mem) /\ Len(saved_mem) \in Nat
  BY <1>2, TestbenchAssumption DEF ProperCall, Proper
<1>4. a \in Offsets
  BY <1>1, <1>3 DEF Offsets
<1>5. a - k.addr.offset = i
  BY <1>1
<1>6. (a \div 8) + 1 = (k.addr.offset \div 8) + 1 /\ i = (a % 8) - Sht(k) /\ a % 8 \in 0 .. 7
  BY <1>4, <1>5, Placed
<1> DEFINE r == a % 8
           s == Sht(k)
<1>7. r = i + s
  <2> HIDE DEF r, s
  <2>1. i = r - s /\ r \in 0 .. 7 /\ s \in 0 .. 7
    BY <1>1, <1>6 DEF r, s
  <2> QED
    BY <2>1
<1> QED
  BY <1>4, <1>6, <1>7 DEF Bytes

LEMMA AnswerSerial ==
    ASSUME CoreInv, mismatch = FALSE, Answered, NEW next_enable \in BOOLEAN, Turn(next_enable)
    PROVE  Serial!Answer
<1> DEFINE k == asked[1]
<1>1. asked # <<>> /\ k \in ProperCall /\ (D!loads <=> k.kind # "store")
      /\ (D!stores <=> k.kind = "store")
  BY Served DEF CoreInv
<1>2. asked' = Tail(asked) /\ Head(asked) = k
  BY <1>1, Queue, Tails DEF CoreInv
<1>3. con.ctx.uart_avail => con.ififo # <<>>
  BY CharsOnceIs DEF CoreInv, CharInv
<1>4. k.kind \in {"load", "store", "expect"}
      /\ k.addr.region \in {"boot", "low", "confreg"} /\ k.size \in 1 .. 8 /\ k.addr.offset \in Nat
  BY <1>1, CallOp DEF ProperCall, Call
<1>5. \A addr : Serial!IsMemory(addr) <=> addr.region # "confreg"
  BY DEF Serial!IsMemory
<1>6. Serial!Span(k) = 0 .. k.size - 1 /\ \A i \in Serial!Span(k) : i \in Lanes /\ i < k.size
  BY <1>4 DEF Serial!Span, Lanes
<1>7. k.kind # "store" => Bytes' = Bytes
  BY <1>1, RamTick DEF Bytes, CoreInv
<1>8. k.kind # "store" /\ k.addr.region # "confreg" =>
         \A i \in Serial!Span(k) :
            oresp.data[i + Sht(k)] = Bytes[k.addr.offset + i]
  BY <1>1, <1>3, <1>6, WordType, BytesOf DEF CoreInv
<1>9. CASE k.kind = "load"
  <2>1. /\ \A d \in Dests : d # k.dest => dest'[d] = dest[d]
        /\ \A b \in Lanes : b < k.size => dest'[k.dest][b] = oresp.data[b + Sht(k)]
        /\ mismatch' = mismatch /\ DOMAIN dest = Dests
    BY <1>3, <1>9, DestTick DEF CoreInv, TypeInv
  <2>2. k.addr.region # "confreg" =>
           \A i \in Serial!Span(k) : dest'[k.dest][i] = Bytes[k.addr.offset + i]
    BY <1>6, <1>8, <1>9, <2>1
  <2> HIDE DEF k
  <2>3. Serial!Loads(k)
    BY <1>5, <1>7, <1>9, <2>1, <2>2 DEF Serial!Loads, Bytes, Offsets
  <2> QED
    BY <1>1, <1>2, <2>3 DEF Serial!Answer
<1>10. CASE k.kind = "store"
  <2>1. dest' = dest /\ mismatch' = mismatch
    BY <1>3, <1>10, DestTick DEF CoreInv
  <2>2. Bytes' = [a \in Offsets |->
                    IF k.addr.region # "confreg" /\ a - k.addr.offset \in 0 .. k.size - 1
                    THEN k.data[a - k.addr.offset] ELSE Bytes[a]]
    <3>1. CASE k.addr.region # "confreg"
      <4> SUFFICES ASSUME NEW a \in Offsets
                   PROVE  ram'[(a \div 8) + 1][a % 8] =
                            IF a - k.addr.offset \in 0 .. k.size - 1
                            THEN k.data[a - k.addr.offset] ELSE ram[(a \div 8) + 1][a % 8]
        BY <3>1 DEF Bytes
      <4>1. \A w \in 1 .. Len(saved_mem), b \in Lanes :
               ram'[w][b] = IF w = (k.addr.offset \div 8) + 1
                               /\ Sht(k) <= b /\ b < Sht(k) + k.size
                            THEN k.data[b - Sht(k)] ELSE ram[w][b]
        BY <1>1, <1>10, <3>1, RamTick DEF CoreInv
      <4> DEFINE w == (a \div 8) + 1
                 b == a % 8
      <4>2. w \in 1 .. Len(saved_mem) /\ b \in Lanes
            /\ (a - k.addr.offset \in 0 .. k.size - 1 <=>
                  w = (k.addr.offset \div 8) + 1 /\ Sht(k) <= b /\ b < Sht(k) + k.size)
            /\ (a - k.addr.offset \in 0 .. k.size - 1 => a - k.addr.offset = b - Sht(k))
        BY <1>1, <3>1, Placed DEF Lanes
      <4>3. ram'[w][b] = IF w = (k.addr.offset \div 8) + 1
                            /\ Sht(k) <= b /\ b < Sht(k) + k.size
                         THEN k.data[b - Sht(k)] ELSE ram[w][b]
        BY <4>1, <4>2
      <4> HIDE DEF w, b, k
      <4>4. ram'[w][b] = IF a - k.addr.offset \in 0 .. k.size - 1
                         THEN k.data[a - k.addr.offset] ELSE ram[w][b]
        BY <4>2, <4>3
      <4> QED
        BY <4>4 DEF w, b
    <3>2. CASE k.addr.region = "confreg"
      BY <1>1, <3>2, RamTick DEF Bytes, CoreInv
    <3> QED
      BY <3>1, <3>2
  <2> HIDE DEF k
  <2>3. Serial!Stores(k)
    BY <1>5, <1>6, <1>10, <2>1, <2>2 DEF Serial!Stores, Bytes, Offsets
  <2>4. Serial!Stores(Head(asked))
    BY <1>2, <2>3 DEF Serial!Stores
  <2> QED
    BY <1>1, <1>2, <2>4 DEF Serial!Answer
<1>11. CASE k.kind = "expect"
  <2>1. /\ dest' = dest /\ mismatch' \in BOOLEAN
        /\ mismatch' <=> \E b \in Lanes : b < k.size /\ k.data[b] # oresp.data[b + Sht(k)]
    BY <1>3, <1>11, DestTick DEF CoreInv
  <2>2. k.addr.region # "confreg" =>
           (mismatch' <=> \E i \in Serial!Span(k) : k.data[i] # Bytes[k.addr.offset + i])
    <3>1. Serial!Span(k) = {i \in Lanes : i < k.size}
      BY <1>4, <1>6 DEF Lanes
    <3> QED
      BY <1>8, <1>11, <2>1, <3>1
  <2> HIDE DEF k
  <2>3. k.addr.region # "confreg" =>
           mismatch' = (\E i \in Serial!Span(k) : k.data[i] # Bytes[k.addr.offset + i])
    BY <2>1, <2>2
  <2>4. Serial!Expects(k)
    BY <1>5, <1>7, <1>11, <2>1, <2>3 DEF Serial!Expects, Bytes, Offsets
  <2> QED
    BY <1>1, <1>2, <2>4 DEF Serial!Answer
<1> QED
  BY <1>4, <1>9, <1>10, <1>11

LEMMA AskSerial ==
    ASSUME CoreInv, NEW c \in ProperCall, P!submit(P!Task(c)), asked' = Append(asked, c), ram' = ram
    PROVE  Serial!Ask
<1>1. asked \in Seq(ProperCall)
  BY DEF CoreInv, TypeInv
<1>2. Len(asked') = Len(asked) + 1 /\ asked'[Len(asked) + 1] = c
  BY <1>1, AppendProperties
<1>3. UNCHANGED <<dest, mismatch>>
  BY DEF P!submit
<1> QED
  BY <1>2, <1>3 DEF Serial!Ask

LEMMA StutterSerial ==
    ASSUME UNCHANGED <<asked, ram, dest, mismatch>>
    PROVE  UNCHANGED Serial!vars
BY DEF Serial!vars

LEMMA TurnSerial ==
    ASSUME CoreInv, mismatch = FALSE, NEW next_enable \in BOOLEAN, Turn(next_enable)
    PROVE  [Serial!Next]_Serial!vars
<1>1. CASE Answered
  BY <1>1, AnswerSerial DEF Serial!Next
<1>2. CASE ~Answered
  <2>1. con.ctx.uart_avail => con.ififo # <<>>
    BY CharsOnceIs DEF CoreInv, CharInv
  <2>2. ~D!stores
    BY <1>2, Served DEF CoreInv
  <2>3. asked' = asked
    BY <1>2, Queue DEF CoreInv
  <2>4. ram' = ram
    BY <2>2, RamTick DEF CoreInv
  <2>5. UNCHANGED <<dest, mismatch>>
    BY <1>2, <2>1, DestTick DEF CoreInv
  <2> QED
    BY <2>3, <2>4, <2>5, StutterSerial
<1> QED
  BY <1>1, <1>2

LEMMA SerialStep == CoreInv /\ [Next]_vars => [Serial!Next]_Serial!vars
<1> SUFFICES ASSUME CoreInv, [Next]_vars PROVE [Serial!Next]_Serial!vars
  OBVIOUS
<1>1. CASE UNCHANGED vars \/ Over
  BY <1>1, StutterSerial DEF Over, vars, socVars, portVars
<1>2. ASSUME ~Aborted, Program PROVE [Serial!Next]_Serial!vars
  <2>1. mismatch = FALSE
    BY <1>2 DEF Aborted, CoreInv, TypeInv
  <2>2. CASE Pretest
    <3>1. asked = <<>> /\ UNCHANGED <<asked, dest, mismatch>> /\ ram' = saved_mem
      BY <2>2 DEF Pretest, SocReset, portVars, CoreInv, PortInv
    <3> QED
      BY <3>1 DEF Serial!Next, Serial!Reset
  <2>3. CASE Submit \/ Access
    <3>1. PICK c \in test.calls : P!submit(P!Task(Given(c))) /\ Made(Given(c))
      BY <2>3 DEF Submit, Access
    <3>2. Given(c) \in ProperCall
      BY CallGiven DEF CoreInv
    <3>3. asked' = Append(asked, Given(c)) /\ ram' = ram
      BY <3>1 DEF Made, socVars
    <3> QED
      BY <3>1, <3>2, <3>3, AskSerial DEF Serial!Next
  <2>4. CASE Fence \/ End \/ Fenced \/ Posttest
    BY <2>4, StutterSerial DEF Fence, End, Fenced, Posttest, socVars, portVars
  <2>5. ASSUME NEW next_enable \in BOOLEAN,
               BodyTick(next_enable) \/ FenceTick(next_enable) \/ AwaitTick(next_enable)
        PROVE  [Serial!Next]_Serial!vars
    <3>1. Turn(next_enable)
      BY <2>5 DEF BodyTick, FenceTick, AwaitTick, Turn
    <3> QED
      BY <2>1, <3>1, TurnSerial
  <2> QED
    BY <1>2, <2>2, <2>3, <2>4, <2>5 DEF Program
<1>3. CASE Thread /\ UNCHANGED <<portVars, at, tests, test, calls, ghosts>>
  BY <1>3, StutterSerial DEF Thread, KeyIn, Push, portVars
<1> QED
  BY <1>1, <1>2, <1>3 DEF Next

LEMMA InitSerial == Init => Serial!Init
<1> SUFFICES ASSUME Init PROVE Serial!Init
  OBVIOUS
<1>1. asked = <<>> /\ mismatch = FALSE /\ ram = saved_mem
  BY DEF Init, SocInit
<1> QED
  BY <1>1 DEF Serial!Init

(* The calls of a test take effect one at a time in the order it makes     *)
(* them, on one memory of bytes: for any calls, any memory, any pauses of  *)
(* the device and any number of tests.                                     *)
THEOREM BenchInProgramOrder == Safety => InProgramOrder
BY CoreAlways, InitSerial, SerialStep, PTL DEF Safety, InProgramOrder, Serial!Spec

-----------------------------------------------------------------------------
(* Numbers.                                                                *)

Entry(v)        == [num |-> C!number(v), ack |-> v[0]]
FollowsIn(s, i) == \/ s[i].num = s[i - 1].num
                   \/ s[i].num = s[i - 1].num + 1 /\ s[i].ack = s[i].num

\* How many of the numbers the monitor has looked at.
Seen    == IF Unnumbered THEN Len(nums) - 1 ELSE Len(nums)
Noticed == IF stopped THEN \E i \in 2 .. Len(nums) : ~FollowsIn(nums, i)
           ELSE /\ \A i \in 2 .. Seen : FollowsIn(nums, i)
                /\ current_num = nums[Seen].num

NumType == nums \in Seq(Number) /\ nums # <<>> /\ current_num \in Nat
           /\ (Unnumbered => Len(nums) > 1)
NumInv  == /\ NumType /\ Noticed
           /\ nums[Len(nums)] = Entry(con.ctx.v_num)
           /\ con.ctx.v_num_monitor
           /\ fresh => tx = D!NoTransaction
           /\ sync_order = "device" => con.ctx.v_num = con.ctx0.v_num
           /\ \A i \in 1 .. Len(asked) : ~Writes(asked[i], C!NUM_MONITOR)

LEMMA EntryType ==
    ASSUME NEW v \in Data
    PROVE  Entry(v) \in Number /\ C!number(v) \in Nat /\ v[0] \in Nat
           /\ Entry(v).num = C!number(v) /\ Entry(v).ack = v[0]
<1>1. v[0] \in Nat /\ v[3] \in Nat /\ v[4] \in Nat
  BY DEF Data, Lanes
<1> QED
  BY <1>1 DEF Entry, Number, C!number

LEMMA NoticedIs == ASSUME NumType PROVE Noticed <=> NumbersNoticed
<1> DEFINE seen == Published(Unnumbered, nums)
<1>1. Len(seen) = Seen /\ seen[Seen] = nums[Seen]
  <2>1. CASE Unnumbered
    <3>1. seen = Front(nums) /\ Seen = Len(nums) - 1 /\ Seen \in 1 .. Len(nums) - 1
      BY <2>1 DEF NumType, Published, Seen
    <3> QED
      BY <3>1, AppendFront DEF NumType
  <2>2. CASE ~Unnumbered
    BY <2>2 DEF Published, Seen
  <2> QED
    BY <2>1, <2>2
<1>2. \A i : Follows(i) <=> FollowsIn(nums, i)
  BY DEF Follows, FollowsIn
<1> QED
  BY <1>1, <1>2 DEF Noticed, NumbersNoticed

\* What the monitor makes of the number it looks at, the j-th.
LEMMA NumberChecked ==
    ASSUME NEW s \in Seq(Number), NEW j \in 1 .. Len(s), current_num \in Nat,
           con' \in Con, checkout_confreg(con'), ~stopped,
           con'.ctx0.v_num_monitor, s[j] = Entry(con'.ctx0.v_num),
           \/ current_num = s[j].num /\ \A i \in 2 .. j : FollowsIn(s, i)
           \/ /\ j > 1 /\ current_num = s[j - 1].num
              /\ \A i \in 2 .. j - 1 : FollowsIn(s, i)
    PROVE  /\ current_num' \in Nat
           /\ \/ stopped' /\ j > 1 /\ ~FollowsIn(s, j)
              \/ /\ stopped' = stopped /\ current_num' = s[j].num
                 /\ \A i \in 2 .. j : FollowsIn(s, i)
<1> DEFINE num == s[j].num
           ack == s[j].ack
<1>1. con'.ctx0.v_num \in Data
  BY DEF Con, Context
<1>2. C!get_current_num(con') = num /\ C!get_acked_num(con') = ack /\ num \in Nat
      /\ C!monitor_enabled(con')
  BY <1>1, EntryType DEF C!get_current_num, C!get_acked_num, C!monitor_enabled
<1>3. IF num # current_num
      THEN IF num = current_num + 1 /\ ack = num
           THEN current_num' = num /\ UNCHANGED stopped
           ELSE stopped' = TRUE /\ UNCHANGED current_num
      ELSE UNCHANGED <<current_num, stopped>>
  BY <1>2 DEF checkout_confreg, NumbersAgree
<1>4. CASE num = current_num /\ \A i \in 2 .. j : FollowsIn(s, i)
  BY <1>3, <1>4
<1>5. CASE j > 1 /\ current_num = s[j - 1].num /\ \A i \in 2 .. j - 1 : FollowsIn(s, i)
  <2>1. FollowsIn(s, j) <=> num = current_num \/ (num = current_num + 1 /\ ack = num)
    BY <1>5 DEF FollowsIn
  <2> HIDE DEF num, ack
  <2>2. CASE FollowsIn(s, j)
    <3>1. \A i \in 2 .. j : FollowsIn(s, i)
      BY <1>5, <2>2
    <3>2. current_num' = num /\ stopped' = stopped
      BY <1>3, <2>1, <2>2
    <3> QED
      BY <1>2, <3>1, <3>2 DEF num
  <2>3. CASE ~FollowsIn(s, j)
    BY <1>3, <1>5, <2>1, <2>3
  <2> QED
    BY <2>2, <2>3
<1> QED
  BY <1>4, <1>5

LEMMA NumTick ==
    ASSUME CoreInv, NumInv, ~stopped, NEW next_enable \in BOOLEAN, Turn(next_enable)
    PROVE  NumInv'
<1> DEFINE stored == Took(C!NUM)
           d  == asked[1].data
           v  == con.ctx.v_num
           L  == Len(nums)
<1>1. Answered => asked # <<>>
  BY Served DEF CoreInv
<1>2. asked \in Seq(ProperCall) /\ Len(asked) \in Nat /\ (asked # <<>> => Len(asked) >= 1)
  BY DEF CoreInv, TypeInv
<1>3. ~Took(C!NUM_MONITOR)
  BY <1>1, <1>2 DEF Took, NumInv
<1>4. /\ con' \in Con /\ con \in Con
      /\ con'.ctx.v_num = IF stored THEN d ELSE v
      /\ con'.ctx.v_num_monitor /\ con'.ctx0.v_num_monitor
      /\ sync_order = "device" => con'.ctx0.v_num = con'.ctx.v_num
      /\ sync_order = "confreg" => con'.ctx0.v_num = v
  <2>1. con.ctx.uart_avail => con.ififo # <<>>
    BY CharsOnceIs DEF CoreInv, CharInv
  <2> QED
    BY <1>3, <2>1, Checked, ConTick DEF CoreInv, TypeInv, CharInv, NumInv
<1>5. sync_order \in {"device", "confreg"} /\ sync_order' = sync_order /\ checkout_confreg(con')
  BY Checked DEF CoreInv, TypeInv
<1>6. /\ nums' = IF stored THEN Append(nums, Entry(d)) ELSE nums
      /\ stored => d \in Data
      /\ fresh' = FALSE
  BY GhostTick DEF Entry
<1>7. v \in Data /\ con'.ctx.v_num \in Data /\ con'.ctx0.v_num \in Data
  BY <1>4 DEF Con, Context
<1>8. \A i \in 1 .. Len(asked') : ~Writes(asked'[i], C!NUM_MONITOR)
  <2>1. CASE Answered
    <3>1. asked' = Tail(asked) /\ Len(Tail(asked)) = Len(asked) - 1
          /\ \A i \in 1 .. Len(asked) - 1 : Tail(asked)[i] = asked[i + 1]
      BY <1>1, <2>1, Queue, Tails DEF CoreInv
    <3>2. \A i \in 1 .. Len(asked) - 1 : i + 1 \in 1 .. Len(asked)
      BY <1>2
    <3> QED
      BY <3>1, <3>2 DEF NumInv
  <2>2. CASE ~Answered
    <3>1. asked' = asked
      BY <2>2, Queue DEF CoreInv
    <3> QED
      BY <3>1 DEF NumInv
  <2> QED
    BY <2>1, <2>2
<1>9. nums \in Seq(Number) /\ L \in Nat \ {0} /\ current_num \in Nat /\ nums[L] = Entry(v)
      /\ (Unnumbered => L > 1)
  BY DEF NumInv, NumType
<1>10. fresh => ~stored
  BY DEF NumInv, Took, Answered, D!NoTransaction
<1>11. /\ nums' \in Seq(Number) /\ Len(nums') = IF stored THEN L + 1 ELSE L
       /\ \A i \in 1 .. L : nums'[i] = nums[i]
       /\ stored => nums'[L + 1] = Entry(d)
  <2>1. CASE stored
    <3>1. Entry(d) \in Number
      BY <1>6, <2>1, EntryType
    <3> QED
      BY <1>6, <1>9, <2>1, <3>1, AppendProperties
  <2>2. CASE ~stored
    BY <1>6, <1>9, <2>2
  <2> QED
    BY <2>1, <2>2
<1>12. nums'[Len(nums')] = Entry(con'.ctx.v_num)
  BY <1>4, <1>9, <1>11
<1>13. \A i \in 2 .. L : FollowsIn(nums', i) <=> FollowsIn(nums, i)
  <2>1. \A i \in 2 .. L : i \in 1 .. L /\ i - 1 \in 1 .. L
    BY <1>9
  <2> QED
    BY <1>11, <2>1 DEF FollowsIn
<1>14. \/ Unnumbered /\ L > 1 /\ current_num = nums[L - 1].num
          /\ \A i \in 2 .. L - 1 : FollowsIn(nums', i)
       \/ ~Unnumbered /\ current_num = nums[L].num
          /\ \A i \in 2 .. L : FollowsIn(nums', i)
  BY <1>9, <1>13 DEF NumInv, Noticed, Seen
<1>15. Unnumbered' <=> con'.ctx.v_num # con'.ctx0.v_num
  BY <1>6 DEF Unnumbered
<1> HIDE DEF stored, d, v, L
<1>16. CASE sync_order = "device"
  <2> DEFINE j == Len(nums')
  <2>1. ~Unnumbered'
    BY <1>4, <1>15, <1>16
  <2>2. Unnumbered <=> fresh
    BY <1>16 DEF NumInv, Unnumbered
  <2>3. nums'[j] = Entry(con'.ctx0.v_num) /\ j \in 1 .. Len(nums') /\ j \in Nat \ {0}
    BY <1>4, <1>9, <1>11, <1>12, <1>16
  <2>4. \/ current_num = nums'[j].num /\ \A i \in 2 .. j : FollowsIn(nums', i)
        \/ /\ j > 1 /\ current_num = nums'[j - 1].num
           /\ \A i \in 2 .. j - 1 : FollowsIn(nums', i)
    <3>1. CASE stored
      BY <1>9, <1>10, <1>11, <1>14, <2>2, <3>1
    <3>2. CASE ~stored
      BY <1>9, <1>11, <1>14, <3>2
    <3> QED
      BY <3>1, <3>2
  <2> HIDE DEF j
  <2>5. /\ current_num' \in Nat
        /\ \/ stopped' /\ j > 1 /\ ~FollowsIn(nums', j)
           \/ /\ stopped' = stopped /\ current_num' = nums'[j].num
              /\ \A i \in 2 .. j : FollowsIn(nums', i)
    BY <1>4, <1>5, <1>9, <1>11, <2>3, <2>4, NumberChecked
  <2>6. Seen' = j /\ NumType'
    BY <1>9, <1>11, <2>1, <2>3, <2>5 DEF Seen, NumType, j
  <2>7. Noticed'
    BY <2>3, <2>5, <2>6 DEF Noticed, j
  <2> QED
    BY <1>4, <1>5, <1>6, <1>8, <1>12, <1>16, <2>6, <2>7 DEF NumInv
<1>17. CASE sync_order = "confreg"
  <2>1. nums'[L] = Entry(con'.ctx0.v_num) /\ L \in 1 .. Len(nums')
    BY <1>4, <1>9, <1>11, <1>17
  <2>2. \/ current_num = nums'[L].num /\ \A i \in 2 .. L : FollowsIn(nums', i)
        \/ /\ L > 1 /\ current_num = nums'[L - 1].num
           /\ \A i \in 2 .. L - 1 : FollowsIn(nums', i)
    BY <1>9, <1>11, <1>14
  <2>3. /\ current_num' \in Nat
        /\ \/ stopped' /\ L > 1 /\ ~FollowsIn(nums', L)
           \/ /\ stopped' = stopped /\ current_num' = nums'[L].num
              /\ \A i \in 2 .. L : FollowsIn(nums', i)
    BY <1>4, <1>5, <1>9, <1>11, <2>1, <2>2, NumberChecked
  <2>4. NumType'
    <3>1. Unnumbered' => stored
      BY <1>4, <1>15, <1>17
    <3> QED
      BY <1>9, <1>11, <2>3, <3>1 DEF NumType
  <2>5. CASE stopped'
    <3>1. L \in 2 .. Len(nums') /\ ~FollowsIn(nums', L)
      <4>1. L > 1 /\ ~FollowsIn(nums', L)
        BY <2>3, <2>5
      <4>2. L \in Nat /\ Len(nums') \in Nat /\ Len(nums') >= L
        BY <1>9, <1>11
      <4> QED
        BY <4>1, <4>2
    <3>2. Noticed'
      BY <2>5, <3>1 DEF Noticed
    <3> QED
      BY <1>4, <1>5, <1>6, <1>8, <1>12, <1>17, <2>4, <3>2 DEF NumInv
  <2>6. CASE ~stopped'
    <3>1. CASE ~stored \/ Unnumbered'
      <4>1. Seen' = L
        BY <1>4, <1>9, <1>11, <1>15, <1>17, <3>1 DEF Seen
      <4> QED
        BY <1>4, <1>5, <1>6, <1>8, <1>12, <1>17, <2>3, <2>4, <2>6, <4>1 DEF NumInv, Noticed
    <3>2. CASE stored /\ ~Unnumbered'
      <4>1. Seen' = L + 1 /\ nums'[L + 1] = nums'[L]
        BY <1>4, <1>9, <1>11, <1>15, <1>17, <2>1, <3>2 DEF Seen
      <4>2. FollowsIn(nums', L + 1)
        BY <1>9, <4>1 DEF FollowsIn
      <4>3. \A i \in 2 .. L + 1 : FollowsIn(nums', i)
        BY <1>9, <2>3, <2>6, <4>2
      <4> QED
        BY <1>4, <1>5, <1>6, <1>8, <1>12, <1>17, <2>3, <2>4, <2>6, <4>1, <4>3
        DEF NumInv, Noticed
    <3> QED
      BY <3>1, <3>2
  <2> QED
    BY <2>5, <2>6
<1> QED
  BY <1>5, <1>16, <1>17


LEMMA InitNum == Init => NumInv
<1> SUFFICES ASSUME Init PROVE NumInv
  OBVIOUS
<1> DEFINE c == [opty |-> <<>>, changes |-> <<>>, ctx |-> {}, ctx0 |-> {}, mem |-> {},
                 ififo |-> <<>>]
           n == [num |-> 0, ack |-> 0]
<1>1. con = C!Reset(c) /\ nums = <<n>> /\ asked = <<>> /\ current_num = 0 /\ stopped = FALSE
      /\ fresh = FALSE
  BY DEF Init, SocInit
<1>2. con.ctx = C!ResetContext /\ con.ctx0 = C!ResetContext
  BY <1>1 DEF C!Reset
<1>3. con.ctx.v_num = Zero /\ con.ctx0.v_num = Zero /\ con.ctx.v_num_monitor
  BY <1>2, ZeroData DEF C!ResetContext
<1>4. n = Entry(Zero) /\ n \in Number
  BY DEF Entry, C!number, Zero, Lanes, Number
<1>5. ~Unnumbered
  BY <1>1, <1>3 DEF Unnumbered
<1>6. nums \in Seq(Number) /\ Len(nums) = 1 /\ nums[1] = n
  BY <1>1, <1>4
<1> HIDE DEF n
<1>7. NumType /\ Seen = 1
  BY <1>1, <1>5, <1>6 DEF NumType, Seen
<1>8. current_num = nums[1].num
  BY <1>1, <1>6 DEF n
<1>9. Noticed
  BY <1>1, <1>7, <1>8 DEF Noticed
<1>10. \A i \in 1 .. Len(asked) : ~Writes(asked[i], C!NUM_MONITOR)
  BY <1>1
<1> QED
  BY <1>1, <1>3, <1>4, <1>6, <1>7, <1>9, <1>10 DEF NumInv

LEMMA PretestNums == ASSUME CoreInv, NumInv, ~stopped, Pretest PROVE NumInv'
<1> DEFINE X == {con.ctx, con.ctx0, con.mem, con.ififo}
           n == [num |-> 0, ack |-> 0]
           s == Published(Unnumbered, nums)
<1>1. con \in ConOver(X)
  BY DEF ConOver, CoreInv, TypeInv, Con
<1>2. con' = C!Reset(con)
  BY DEF Pretest, SocReset
<1> HIDE DEF X
<1>3. con'.ctx = C!ResetContext /\ con'.ctx0 = C!ResetContext
  BY <1>1, <1>2, ResetCon
<1>4. con'.ctx.v_num = Zero /\ con'.ctx0.v_num = Zero /\ con'.ctx.v_num_monitor
  BY <1>3, ZeroData DEF C!ResetContext
<1>5. /\ nums' = Append(s, n) /\ fresh' = TRUE /\ tx' = D!NoTransaction
      /\ UNCHANGED <<current_num, stopped, asked, sync_order>>
  BY DEF Pretest, SocReset, portVars
<1>6. n = Entry(Zero) /\ n \in Number
  BY DEF Entry, C!number, Zero, Lanes, Number
<1>7. /\ s \in Seq(Number) /\ Len(s) = Seen /\ Seen \in Nat \ {0}
      /\ \A i \in 1 .. Seen : s[i] = nums[i]
  <2>1. CASE Unnumbered
    BY <2>1, AppendFront DEF NumInv, NumType, Published, Seen
  <2>2. CASE ~Unnumbered
    BY <2>2 DEF NumInv, NumType, Published, Seen
  <2> QED
    BY <2>1, <2>2
<1> HIDE DEF n, s
<1>8. /\ nums' \in Seq(Number) /\ Len(nums') = Seen + 1 /\ nums'[Seen + 1] = n
      /\ \A i \in 1 .. Seen : nums'[i] = nums[i]
  BY <1>5, <1>6, <1>7, AppendProperties
<1>9. Unnumbered' /\ Seen' = Seen
  BY <1>5, <1>7, <1>8 DEF Unnumbered, Seen
<1>10. NumType'
  BY <1>5, <1>7, <1>8 DEF NumType, NumInv
<1>11. \A i \in 2 .. Seen : i \in 1 .. Seen /\ i - 1 \in 1 .. Seen
  BY <1>7
<1>12. \A i \in 2 .. Seen : FollowsIn(nums', i) <=> FollowsIn(nums, i)
  BY <1>8, <1>11 DEF FollowsIn
<1>13. Noticed'
  BY <1>5, <1>7, <1>8, <1>9, <1>12 DEF Noticed, NumInv
<1>14. nums'[Len(nums')] = Entry(con'.ctx.v_num)
  BY <1>4, <1>6, <1>8
<1> QED
  BY <1>4, <1>5, <1>10, <1>13, <1>14 DEF NumInv

LEMMA NumKeeps ==
    ASSUME NumInv, UNCHANGED <<nums, current_num, stopped, fresh, tx, sync_order>>,
           con'.ctx = con.ctx, con'.ctx0 = con.ctx0,
           \A i \in 1 .. Len(asked') : ~Writes(asked'[i], C!NUM_MONITOR)
    PROVE  NumInv'
<1>1. Unnumbered' <=> Unnumbered
  BY DEF Unnumbered
<1>2. Seen' = Seen
  BY <1>1 DEF Seen
<1>3. Noticed' /\ NumType'
  BY <1>1, <1>2 DEF Noticed, NumType, NumInv
<1> QED
  BY <1>3 DEF NumInv

LEMMA NumStep ==
    ASSUME MonitorLeftOn
    PROVE  CoreInv /\ NumInv /\ [Next]_vars => NumInv'
<1> SUFFICES ASSUME CoreInv, NumInv, [Next]_vars PROVE NumInv'
  OBVIOUS
<1>1. CASE UNCHANGED vars \/ Over
  <2>1. UNCHANGED <<nums, current_num, stopped, fresh, tx, sync_order, con, asked>>
    BY <1>1 DEF Over, vars, socVars, portVars, ghosts
  <2> QED
    BY <2>1, NumKeeps DEF NumInv
<1>2. ASSUME ~Aborted, Program PROVE NumInv'
  <2>1. ~stopped
    BY <1>2 DEF Aborted
  <2>2. CASE Pretest
    BY <2>1, <2>2, PretestNums
  <2>3. CASE Submit \/ Access
    <3>1. PICK c \in test.calls : Made(Given(c))
      BY <2>3 DEF Submit, Access
    <3>2. asked' = Append(asked, Given(c)) /\ asked \in Seq(ProperCall) /\ Given(c) \in ProperCall
      BY <3>1, CallGiven DEF Made, CoreInv, TypeInv
    <3>3. ~Writes(c, C!NUM_MONITOR) /\ c \in Call
      BY TestbenchAssumption DEF MonitorLeftOn, CoreInv, TypeInv
    <3>4. Given(c).kind = c.kind /\ Given(c).addr = c.addr
      BY <3>3 DEF Given, Call
    <3>5. ~Writes(Given(c), C!NUM_MONITOR)
      BY <3>3, <3>4 DEF Writes
    <3>6. \A i \in 1 .. Len(asked') : i = Len(asked) + 1 \/ i \in 1 .. Len(asked)
      BY <3>2
    <3>7. \A i \in 1 .. Len(asked') : ~Writes(asked'[i], C!NUM_MONITOR)
      BY <3>2, <3>5, <3>6, AppendProperties DEF NumInv
    <3> QED
      BY <3>1, <3>7, NumKeeps DEF Made, socVars, ghosts
  <2>4. CASE Fence \/ End \/ Fenced \/ Posttest
    <3>1. UNCHANGED <<nums, current_num, stopped, fresh, tx, sync_order, con, asked>>
      BY <2>4 DEF Fence, End, Fenced, Posttest, socVars, portVars, ghosts
    <3> QED
      BY <3>1, NumKeeps DEF NumInv
  <2>5. ASSUME NEW next_enable \in BOOLEAN,
               BodyTick(next_enable) \/ FenceTick(next_enable) \/ AwaitTick(next_enable)
        PROVE  NumInv'
    <3>1. Turn(next_enable)
      BY <2>5 DEF BodyTick, FenceTick, AwaitTick, Turn
    <3> QED
      BY <2>1, <3>1, NumTick
  <2> QED
    BY <1>2, <2>2, <2>3, <2>4, <2>5 DEF Program
<1>3. CASE Thread /\ UNCHANGED <<portVars, at, tests, test, calls, ghosts>>
  <2>1. UNCHANGED <<nums, current_num, stopped, fresh, tx, sync_order, asked>>
    BY <1>3 DEF Thread, KeyIn, Push, portVars, ghosts
  <2>2. con'.ctx = con.ctx /\ con'.ctx0 = con.ctx0
    BY <1>3 DEF Thread, KeyIn, Push, CoreInv, TypeInv, Con
  <2> QED
    BY <2>1, <2>2, NumKeeps DEF NumInv
<1> QED
  BY <1>1, <1>2, <1>3 DEF Next

(* Where no test turns the monitor off, it stops the simulation at the     *)
(* first number that is out of order or not acknowledged, and only then,   *)
(* and misses no store to NUM: in either order of the two syncs, and       *)
(* across resets.                                                          *)
THEOREM BenchNumbersNoticed ==
    ASSUME MonitorLeftOn
    PROVE  Safety => []NumbersNoticed
<1>1. NumInv => NumbersNoticed
  BY NoticedIs DEF NumInv
<1>2. CoreInv /\ NumInv /\ [Next]_vars => NumInv'
  BY NumStep
<1> QED
  BY CoreAlways, InitNum, <1>1, <1>2, PTL DEF Safety
=============================================================================
