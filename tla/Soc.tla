-------------------------------- MODULE Soc --------------------------------
(***************************************************************************)
(* model.cpp, ModelBase with install_soc: CBusDevice over a router over    *)
(* one block memory, which is seen at two places, and Confreg with the     *)
(* thread that reads its UART input.  An address is a region, a byte       *)
(* offset in it, and bit 31, which DBusGen sets and CBusWrapperGen clears. *)
(*                                                                         *)
(* The class that derives from ModelBase is outside the repository: in     *)
(* each tick it answers the request with eval_resp, evaluates it, calls    *)
(* sync of both devices, in an order that is left open, and then           *)
(* checkout_confreg.                                                       *)
(***************************************************************************)
EXTENDS LoadOp, Sequences, FiniteSetsExt

CONSTANTS NoRequest, NoAddress,
          saved_mem,    \* the words of the block memory as it was constructed
          NoChar,
          LOG_MAX_BUFFER_SIZE

VARIABLES sync_order,   \* external: "device" or "confreg", which is synchronised first
          enable, tx,   \* of CBusDevice
          ram,          \* BlockMemory::mem, in words
          con,
          current_num, stopped,         \* _current_num; an assertion of its check failed
          char_buffer, stderr,          \* of notify_char
          typed, held   \* the UART thread: characters it has read, and its local c

C == INSTANCE Confreg
D == INSTANCE CBusDevice

Layout == << [regions |-> {"boot"}, mem |-> "ram"],
             [regions |-> {"confreg"}, mem |-> "con"],
             [regions |-> {"boot", "confreg", "low"}, mem |-> "ram"] >>

\* The first entry that matches.  translate leaves the offset, in both of mem's.
search(addr) == Layout[Min({e \in DOMAIN Layout : addr.region \in Layout[e].regions})]
InRam(addr)  == search(addr).mem = "ram"
index(addr)  == addr.offset \div 8 + 1

RouterLoad(addr) == IF InRam(addr) THEN ram[index(addr)] ELSE C!load(con, addr.offset)

\* CBusWrapperGen's view of the request.
creq(req) == IF req = NoRequest THEN req ELSE [req EXCEPT !.addr.bit31 = FALSE]

\* The response, with the word of a read.
oresp == [ready |-> D!eval_resp.ready, last |-> D!eval_resp.last,
          data |-> IF D!loads THEN RouterLoad(tx.addr) ELSE Zero]

SocInit == /\ sync_order \in {"device", "confreg"}
           /\ D!DeviceInit
           /\ ram = saved_mem
           /\ con = C!Reset([opty |-> <<>>, changes |-> <<>>, ctx |-> {}, ctx0 |-> {},
                             mem |-> {}, ififo |-> <<>>])
           /\ current_num = 0 /\ stopped = FALSE
           /\ char_buffer = <<>> /\ stderr = <<>>
           /\ typed = 0 /\ held = NoChar

\* CBusDevice::reset, through the router.  enable and _current_num stay as they are.
SocReset == /\ tx' = D!NoTransaction
            /\ ram' = saved_mem
            /\ con' = C!Reset(con)
            /\ UNCHANGED <<sync_order, enable, current_num, stopped, char_buffer, stderr,
                           typed, held>>

-----------------------------------------------------------------------------
(* One tick.                                                               *)

AfterLoad == IF D!loads /\ ~InRam(tx.addr) THEN C!Loaded(con, tx.addr.offset) ELSE con
AfterStore(c, req) == IF D!stores /\ ~InRam(tx.addr)
                      THEN C!Stored(c, tx.addr.offset, req.data) ELSE c

\* Confreg after the tick.  What a load does comes first, with eval_resp.
ConAfter(req) == IF sync_order = "device" THEN C!Synced(AfterStore(AfterLoad, req))
                 ELSE AfterStore(C!Synced(AfterLoad), req)

\* The assertions the devices make.
Accepts(req) == /\ D!stores /\ ~InRam(tx.addr) => C!Storable(tx.addr.offset, req.strobe)
                /\ C!Syncable(AfterLoad)

\* notify_char, with the status line on: a line is written when it is complete.
NotifyChar(c) == LET line == Append(char_buffer, c)
                 IN  IF c = 10 \/ Len(line) >= LOG_MAX_BUFFER_SIZE
                     THEN stderr' = stderr \o line /\ char_buffer' = <<>>
                     ELSE char_buffer' = line /\ UNCHANGED stderr

\* Mutant of NumbersAgree: the number the program acknowledges is not looked at.
NumbersAgreeUnacked(c) == C!get_current_num(c) = current_num + 1

\* The assertions of checkout_confreg about a new number.
NumbersAgree(c) == /\ C!get_current_num(c) = current_num + 1
                   /\ C!get_acked_num(c) = C!get_current_num(c)

checkout_confreg(c) ==
    /\ IF C!monitor_enabled(c) /\ C!get_current_num(c) # current_num
       THEN IF NumbersAgree(c)
            THEN current_num' = C!get_current_num(c) /\ UNCHANGED stopped
            ELSE stopped' = TRUE /\ UNCHANGED current_num
       ELSE UNCHANGED <<current_num, stopped>>
    /\ IF C!has_char(c) /\ C!get_char(c) <= 127 THEN NotifyChar(C!get_char(c))
       ELSE UNCHANGED <<char_buffer, stderr>>

SocTick(req, next_enable) ==
    /\ Accepts(req)
    /\ D!DeviceCycle(req, next_enable)
    /\ ram' = IF D!stores /\ InRam(tx.addr)
              THEN [ram EXCEPT ![index(tx.addr)] = D!Stored(@, req.data, req.strobe)]
              ELSE ram
    /\ \E c \in {ConAfter(req)} : con' = c /\ checkout_confreg(c)
    /\ UNCHANGED <<sync_order, typed, held>>

-----------------------------------------------------------------------------
(* The loop of the UART thread: fgetc, then a push under the lock.         *)

KeyIn(max) == /\ held = NoChar /\ typed < max
              /\ held' = typed + 1 /\ typed' = typed + 1
              /\ UNCHANGED <<sync_order, enable, tx, ram, con, current_num, stopped,
                             char_buffer, stderr>>

Push == /\ held # NoChar
        /\ con' = [con EXCEPT !.ififo = Append(@, held)]
        /\ held' = NoChar
        /\ UNCHANGED <<sync_order, enable, tx, ram, current_num, stopped,
                       char_buffer, stderr, typed>>
=============================================================================
