------------------------------ MODULE MCCatalog ------------------------------
(***************************************************************************)
(* TLC instances of Catalog.                                               *)
(***************************************************************************)
EXTENDS Catalog

CONSTANTS dir1, dir2, file1, short, long

MCLen == (short :> 1) @@ (long :> 2)

\* A directory in a directory, or two side by side.
MCTrees == {(dir1 :> At(Root, short)) @@ (dir2 :> At(dir1, long)),
            (dir1 :> At(Root, short)) @@ (dir2 :> At(Root, long)) @@ (file1 :> At(dir1, short))}

MCPaths == {<<>>, <<short>>, <<long>>, <<short, long>>, <<Up, short>>, <<short, Up>>}
==============================================================================
