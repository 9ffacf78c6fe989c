--------------------------- MODULE MCRunParallel ---------------------------
(***************************************************************************)
(* Three workers with fewer tests than workers, as many, more, or none.    *)
(***************************************************************************)
EXTENDS RunParallel
MCTotals == 0 .. 4
=============================================================================
