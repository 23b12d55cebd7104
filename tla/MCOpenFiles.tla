----------------------------- MODULE MCOpenFiles -----------------------------
(***************************************************************************)
(* TLC instances of OpenFiles.                                             *)
(***************************************************************************)
EXTENDS OpenFiles, TLC

RefSymmetry == Permutations(Refs)

\* What a free FCB holds is cleared before it is used again.
LiveFCBs == <<[r \in Refs |-> IF fcb[r].fork = NoFork THEN <<>> ELSE fcb[r]],
              lists, length, files, unpushed, strayed, stuck>>
==============================================================================
