----------------------------- MODULE MCMMUWalk -----------------------------
(***************************************************************************)
(* Two pages and two indices per level: enough for a walk through one      *)
(* table twice, through two tables, and for each level to differ in index. *)
(***************************************************************************)
EXTENDS MMUWalk

Pointer(p)     == [v |-> TRUE, r |-> FALSE, w |-> FALSE, x |-> FALSE,
                   u |-> FALSE, ppn |-> p]
Leaf(bits, p)  == [v |-> TRUE, r |-> "r" \in bits, w |-> "w" \in bits,
                   x |-> "x" \in bits, u |-> "u" \in bits, ppn |-> p]
Invalid(p)     == [Leaf({"r", "w", "x", "u"}, p) EXCEPT !.v = FALSE]

\* What each PTE may hold: pointers, leaves with and without each permission,
\* an invalid entry, in places where either is right or wrong.
Entry(a) ==
    CASE a = [table |-> 0, idx |-> 0] -> {Pointer(0), Pointer(1)}
      [] a = [table |-> 0, idx |-> 1] -> {Pointer(1), Invalid(1)}
      [] a = [table |-> 1, idx |-> 0] -> {Leaf({"r", "x", "u"}, 0), Leaf({"r", "w", "x"}, 1), Pointer(1)}
      [] a = [table |-> 1, idx |-> 1] -> {Leaf({"w", "u"}, 0)}

MCPageTables == {t \in [PteAddr -> UNION {Entry(a) : a \in PteAddr}] :
                    \A a \in PteAddr : t[a] \in Entry(a)}

\* Bare, and Sv39 rooted at page 0.
MCSatps == {[sv39 |-> b, ppn |-> 0] : b \in BOOLEAN}
=============================================================================
