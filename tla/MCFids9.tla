------------------------------- MODULE MCFids9 -------------------------------
(***************************************************************************)
(* TLC instances of Fids9.                                                 *)
(***************************************************************************)
EXTENDS Fids9, TLC

FidSymmetry == Permutations(Tracked) \cup Permutations(FcbFids)
=============================================================================
