------------------------------ MODULE MCBlock ------------------------------
(***************************************************************************)
(* Disks for Block: without a map, without an HFS partition, with one in a *)
(* map whose blocks are two sectors long, and with two.                    *)
(***************************************************************************)
EXTENDS Block

Partition(type, start, count) == [type |-> type, start |-> start, count |-> count]

Map(size, parts) == [sbBlkSize |-> size, parts |-> parts]

MCMaps == {Map(Sector, <<>>),
           Map(Sector, <<Partition("Apple_partition_map", 1, 3)>>),
           Map(2 * Sector, <<Partition("Apple_partition_map", 1, 3), Partition("Apple_HFS", 2, 4)>>),
           Map(Sector, <<Partition("Apple_HFS", 4, 2), Partition("Apple_Free", 6, 2), Partition("Apple_HFS", 8, 4)>>)}
=============================================================================
