------------------------------ MODULE MCSortDir ------------------------------
(***************************************************************************)
(* Small instance: four slots on two levels, five names and a hidden one;  *)
(* three share a prefix and one is a folder.                               *)
(***************************************************************************)
EXTENDS SortDir

MCNames   == {<<1>>, <<1, 1>>, <<1, 2>>, <<2>>, <<3>>, <<0>>}
MCHidden  == {<<0>>}
MCFolders == {<<1, 2>>}
MCVolatile == {<<1, 1>>}
MCId      == [n \in MCNames |-> CASE n = <<1>> -> 8 [] n = <<1, 1>> -> 11 [] n = <<1, 2>> -> 9
                                   [] n = <<2>> -> 3 [] n = <<3>> -> 6 [] OTHER -> 1]
=============================================================================
