---------------------------- MODULE SerialMemory ----------------------------
(***************************************************************************)
(* What a test may rely on: its calls take effect one at a time, in the    *)
(* order it made them, on a memory of bytes that both of its regions show. *)
(* What a device answers is left open.  No lanes, strobes, words,          *)
(* transactions or pauses here.                                            *)
(***************************************************************************)
EXTENDS Integers, Sequences

CONSTANTS Image,        \* the bytes of the memory after reset
          NoDest,
          Devices       \* the regions that are no memory
VARIABLES asked,        \* the calls not yet answered
          bytes,        \* by offset
          dest, mismatch

vars == <<asked, bytes, dest, mismatch>>

Init == asked = <<>> /\ bytes = Image /\ mismatch = FALSE

IsMemory(addr) == addr.region \notin Devices

\* The bytes of a call.
Span(c) == 0 .. c.size - 1

Loads(c) == /\ c.kind = "load"
            /\ \A d \in DOMAIN dest : d # c.dest => dest'[d] = dest[d]
            /\ IsMemory(c.addr) =>
                  \A i \in Span(c) : dest'[c.dest][i] = bytes[c.addr.offset + i]
            /\ UNCHANGED <<bytes, mismatch>>

Stores(c) == /\ c.kind = "store"
             /\ bytes' = [a \in DOMAIN bytes |->
                             IF IsMemory(c.addr) /\ a - c.addr.offset \in Span(c)
                             THEN c.data[a - c.addr.offset] ELSE bytes[a]]
             /\ UNCHANGED <<dest, mismatch>>

Expects(c) == /\ c.kind = "expect"
              /\ IsMemory(c.addr) =>
                    mismatch' = (\E i \in Span(c) : c.data[i] # bytes[c.addr.offset + i])
              /\ UNCHANGED <<bytes, dest>>

\* Any call.
Ask == /\ Len(asked') = Len(asked) + 1
       /\ asked' = Append(asked, asked'[Len(asked')])
       /\ UNCHANGED <<bytes, dest, mismatch>>

Answer == /\ asked # <<>>
          /\ asked' = Tail(asked)
          /\ Loads(Head(asked)) \/ Stores(Head(asked)) \/ Expects(Head(asked))

\* Between two tests.
Reset == asked = <<>> /\ bytes' = Image /\ UNCHANGED <<asked, dest, mismatch>>

Next == Ask \/ Answer \/ Reset
Spec == Init /\ [][Next]_vars
=============================================================================
