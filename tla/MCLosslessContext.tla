------------------------- MODULE MCLosslessContext -------------------------
(***************************************************************************)
(* Small instances of LosslessContext for TLC.  The three constants of     *)
(* lossless.rs (24, 8 and 4) shrink to 1, 2 and 2: three turns of up to    *)
(* three messages then give leaves, condensed nodes and a condensed node   *)
(* of condensed nodes.                                                     *)
(***************************************************************************)
EXTENDS LosslessContext, TLC

CONSTANTS t1, t2, t3, t4, t5, r1

\* Turns differ only by name.
AnyTurn == Permutations(Turns)
=============================================================================
