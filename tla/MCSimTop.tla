------------------------------ MODULE MCSimTop ------------------------------
(***************************************************************************)
(* Programs for SimTop.  PAGE_SIZE is 32: code on pages 0 and 1, the data  *)
(* word at 64, the page tables on pages 3, 4 and 5.                        *)
(***************************************************************************)
EXTENDS SimTop, TLC

I(op, imm)      == [op |-> op, imm |-> imm, csr |-> "none", fn |-> "none"]
M(op, imm, fn)  == [op |-> op, imm |-> imm, csr |-> "none", fn |-> fn]
C(reg, fn, imm) == [op |-> "csr", imm |-> imm, csr |-> reg, fn |-> fn]

\* Virtual pages 0 and 1 are the code, 2 is the data (read-only), 3 is not mapped.
Bits(b, p) == [v |-> b # {}, r |-> "r" \in b, w |-> "w" \in b, x |-> "x" \in b,
               u |-> "u" \in b, ppn |-> p]
Pointer(p) == [Bits({}, p) EXCEPT !.v = TRUE]
MCTable == [a \in PteAddr |->
    CASE a = [table |-> 3, idx |-> 0] -> Pointer(4)
      [] a = [table |-> 4, idx |-> 0] -> Pointer(5)
      [] a = [table |-> 5, idx |-> 0] -> Bits({"r", "x", "u"}, 0)
      [] a = [table |-> 5, idx |-> 1] -> Bits({"r", "x", "u"}, 1)
      [] a = [table |-> 5, idx |-> 2] -> Bits({"r", "u"}, 2)
      [] OTHER -> Bits({}, 0)]

\* Straight-line and branching code in M mode, loops and misaligned jumps included.
Work == {I("alu", 2), I("muldiv", 0), I("load", 64), I("store", 64)}
MCControl == (176 :> {I("alu", 3), I("muldiv", 0), I("store", 64)}) @@
             (180 :> {I("branch", 8), I("jal", 8), I("jalr", 186),
                      M("store", 66, "h"), M("store", 67, "b")} \union Work) @@
             (184 :> {I("alu", 2), I("load", 64), I("store", 64),
                      M("load", 66, "h"), M("load", 67, "b")}) @@
             (188 :> {I("branch", -8), I("jalr", 178), I("muldiv", 0), I("load", 64),
                      M("load", 66, "hu"), M("load", 67, "bu")})

\* Reset code that enters U mode, with or without translation; user code that
\* traps in every way but a faulting fetch; a handler that skips or retries.
User == {I("alu", 4), I("ecall", 0), I("illegal", 7), I("load", 64), I("store", 64),
         I("load", 66), I("muldiv", 0)}
MCUser == (0  :> {C("satp", "write", 1), I("alu", 4), I("jal", 96), I("jal", 176)}) @@
          (4  :> {C("mtvec", "write", 28)}) @@
          (8  :> {C("mepc", "write", 16)}) @@
          (12 :> {I("mret", 0)}) @@
          (16 :> User \union {I("load", 96), I("branch", 8), I("jalr", 20)}) @@
          (20 :> User) @@
          (24 :> {I("trap", 0), I("branch", -8)}) @@
          (28 :> {C("mepc", "write", 20), C("mepc", "write", 24), I("alu", 4)}) @@
          (32 :> {I("mret", 0)})

\* The m_trap window in M mode: csrsi opens it, csrci closes it, around them
\* anything; a handler that keeps or drops the enable.
Set   == C("mstatus", "set", 8)
Clear == C("mstatus", "clear", 8)
MCWindow == (96  :> {C("mtvec", "write", 120)}) @@
            (100 :> {C("mie", "write", 1), I("muldiv", 0)}) @@
            (104 :> {Set, I("alu", 4), I("load", 64)}) @@
            (108 :> {Clear, Set, I("alu", 4), I("store", 64), I("ecall", 0)}) @@
            (112 :> {I("branch", -8), I("jal", -8), I("muldiv", 0), Clear}) @@
            (116 :> {I("trap", 0), I("jal", -12)}) @@
            (120 :> {C("mie", "write", 0), I("alu", 2), I("store", 64)}) @@
            (124 :> {I("mret", 0)})

\* The first instruction leads to the family the program is of.
MCAll == MCUser @@ MCWindow @@ MCControl

\* U mode under a timer that interrupts.
MCTimer == (0  :> {C("mie", "write", 1)}) @@
           (4  :> {C("mepc", "write", 12)}) @@
           (8  :> {I("mret", 0)}) @@
           (12 :> {I("alu", 2)}) @@
           (16 :> {I("alu", 2)})

\* A multiplication in U mode under that timer, and one in the handler.
MCQuotient == (0  :> {I("alu", 2)}) @@
              (4  :> {C("mie", "write", 1)}) @@
              (8  :> {C("mtvec", "write", 24)}) @@
              (12 :> {C("mepc", "write", 20)}) @@
              (16 :> {I("mret", 0)}) @@
              (20 :> {I("muldiv", 0)}) @@
              (24 :> {I("alu", 1)}) @@
              (28 :> {I("muldiv", 0)})

\* The second code page is not mapped for the user, who runs into it.
MCHole == [MCTable EXCEPT ![[table |-> 5, idx |-> 1]] = Bits({}, 0)]
MCFault == (0  :> {C("satp", "write", 1)}) @@
           (4  :> {C("mtvec", "write", 16)}) @@
           (8  :> {C("mepc", "write", 24)}) @@
           (12 :> {I("mret", 0)}) @@
           (16 :> {C("mepc", "write", 24)}) @@
           (20 :> {I("mret", 0)}) @@
           (24 :> {I("alu", 2), I("load", 64)}) @@
           (28 :> {I("alu", 2), I("load", 64), I("load", 96)})
=============================================================================
