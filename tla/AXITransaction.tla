--------------------------- MODULE AXITransaction ---------------------------
(***************************************************************************)
(* axi.h: the address sequence of a wrapping burst.  In a burst addresses  *)
(* count words and a transfer is one word, so Start_Address is aligned; a  *)
(* single transfer (len 0) keeps its address, whatever that is.            *)
(***************************************************************************)
EXTENDS Common

CONSTANT NoAddress

\* All fields zero, as memset leaves them; the addresses are not used then.
NoTransaction == [busy |-> FALSE, is_write |-> FALSE, N |-> 0, addr |-> NoAddress,
                  Start_Address |-> NoAddress, Number_Bytes |-> 0, Burst_Length |-> 0]

Started(req) == [busy |-> TRUE, is_write |-> req.is_write, N |-> 1, addr |-> req.addr,
                 Start_Address |-> req.addr, Number_Bytes |-> req.size,
                 Burst_Length |-> req.len + 1]

Lower_Wrap_Boundry(t) == (t.Start_Address \div t.Burst_Length) * t.Burst_Length
Upper_Wrap_Boundry(t) == Lower_Wrap_Boundry(t) + t.Burst_Length

\* The transaction after one transfer.
Advanced(t) == [t EXCEPT !.N = @ + 1,
                         !.addr = IF @ + 1 >= Upper_Wrap_Boundry(t)
                                  THEN Lower_Wrap_Boundry(t) ELSE @ + 1]

Last(t) == t.N = t.Burst_Length

\* BlockMemory::store: only the bytes the strobe enables.
Stored(word, data, strobe) == [b \in DOMAIN word |-> IF b \in strobe THEN data[b] ELSE word[b]]
=============================================================================
