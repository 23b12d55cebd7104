------------------------------- MODULE MCInfo -------------------------------
(***************************************************************************)
(* Flags and host texts for the model checker: colours of one to three     *)
(* bits, flags without a name, lines unknown, cut off or with a name at    *)
(* their end.                                                              *)
(***************************************************************************)
EXTENDS FinderInfo

MCFlagSets == {{}, {1, 2}, {2, 6, 8, 10}, {0, 5, 9, 11}, {1, 2, 3, 7, 12, 13, 14, 15}}

On(name)       == Full(name)
Cut(name)      == [Full(name) EXCEPT !.newline = FALSE]
Preceded(name) == [Full(name) EXCEPT !.before = TRUE]

MCHostLines ==
  {[lines |-> {}, means |-> {}],
   [lines |-> {On("kIsAlias"), On("kColor5")}, means |-> {1, 3, 15}],
   [lines |-> {On("note"), On("kIsInvisible"), Preceded("kIsShared")}, means |-> {6, 14}],
   [lines |-> {On("kHasBundle"), Cut("kIsAlias")}, means |-> {13}]}
=============================================================================
