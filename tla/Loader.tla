------------------------------- MODULE Loader -------------------------------
(***************************************************************************)
(* The loader that Open Firmware runs before Mac OS (ndrvloader.c): it     *)
(* takes a blob of drivers apart, walks the device tree to give each       *)
(* Virtio device its driver, and boots, from a 9P device if it was handed  *)
(* a Mac OS ROM file.                                                      *)
(***************************************************************************)
EXTENDS Integers, Sequences, Functions, FiniteSetsExt, SequencesExt

CONSTANTS
  DeviceTrees,   \* trees: [kids, id], by node; id is 0 if it is not Virtio
  Blobs          \* the drivers of a blob: the digits each is described by,
                 \* <<>> if it has no description

\* Nodes are numbered as they come in the tree, each before what is under it:
\* past it all comes the next kid of its parent.
DepthFirst(t) ==
  LET n == Len(t.kids)
  IN  \E past \in [1 .. n -> 2 .. n + 1] :
        /\ past[1] = n + 1
        /\ \A m \in 1 .. n :
             IF t.kids[m] = <<>> THEN past[m] = m + 1
             ELSE /\ t.kids[m][1] = m + 1 /\ past[m] = past[t.kids[m][Len(t.kids[m])]]
                  /\ \A i \in 1 .. Len(t.kids[m]) - 1 : t.kids[m][i + 1] = past[t.kids[m][i]]

ASSUME LoaderAssumption ==
  \A t \in DeviceTrees :
    /\ Len(t.kids) \in Nat \ {0} /\ DOMAIN t.kids = 1 .. Len(t.kids) /\ DOMAIN t.id = DOMAIN t.kids
    /\ \A n \in DOMAIN t.kids : t.kids[n] \in Seq(n + 1 .. Len(t.kids))
    /\ \A n \in DOMAIN t.kids \ {1} : \E p \in DOMAIN t.kids : n \in ToSet(t.kids[p])
    /\ DepthFirst(t)

VARIABLES
  devtree, blob,    \* what the machine and the build give
  supported,     \* by type of device: the driver in the blob, or 0
  piece,         \* how much of the blob has been looked at
  ph,            \* the node the walk is at, 0 when it has ended
  passed,          \* history: the nodes of this walk, in order
  driverOf,        \* the property driver,AAPL,MacOS,PowerPC of each node, or 0
  bootpath,      \* of /chosen: a node, or 0
  romFile,       \* a Mac OS ROM file is at bootinfo
  loading          \* "reads", "puts", "chains", "chained" or "boots"

loadVars == <<devtree, blob, supported, piece, ph, passed, driverOf, bootpath, romFile, loading>>

Root == 1
Nodes == DOMAIN devtree.kids

(***************************************************************************)
(* The numbers of devices.                                                 *)
(***************************************************************************)
\* readhex: a digit is a number below 16; a letter counts 16 more than its
\* place in the alphabet, where 10 was meant.
DigitValue(d) == IF d < 10 THEN d ELSE d - 10 + 16
readhex(s) == FoldLeft(LAMBDA n, d : n * 16 + DigitValue(d), 0, s)

LegacyTypes == <<1, 2, 5, 3, 8, 4, 0, 0, 0, 9>>
FirstLegacy == 4096      \* 0x1000
FirstModern == 4161      \* 0x1041
LastModern  == 4223      \* 0x107f

Legacy(id) == id \in FirstLegacy .. FirstLegacy + 9
Modern(id) == id \in FirstModern .. LastModern

virtiotype(id) ==
  IF Legacy(id) THEN LegacyTypes[id - FirstLegacy + 1]
  ELSE IF Modern(id) THEN id - FirstModern ELSE 0

Types == 1 .. 63

Hex(s) == FoldLeft(LAMBDA n, d : n * 16 + d, 0, s)

\* The descriptions in this repository: numbers without a letter, of types that
\* differ from each other and from those of the older numbers not described.
ASSUME BlobAssumption ==
  \A b \in Blobs :
    /\ b \in Seq({b[i] : i \in DOMAIN b})
    /\ \A i \in DOMAIN b : b[i] # <<>> =>
         /\ readhex(b[i]) = Hex(b[i]) /\ virtiotype(Hex(b[i])) # 0
         /\ \A j \in DOMAIN b : b[j] # <<>> /\ virtiotype(Hex(b[j])) = virtiotype(Hex(b[i])) => Hex(b[j]) = Hex(b[i])
         /\ \A id \in FirstLegacy .. FirstLegacy + 9 :
              virtiotype(id) = virtiotype(Hex(b[i])) => id = Hex(b[i])

(***************************************************************************)
(* The device tree.                                                        *)
(***************************************************************************)
Child(n) == IF devtree.kids[n] = <<>> THEN 0 ELSE devtree.kids[n][1]

Parent(n) == IF n = Root THEN 0 ELSE CHOOSE p \in Nodes : n \in ToSet(devtree.kids[p])

Peer(n) == IF n = Root THEN 0
           ELSE LET row == devtree.kids[Parent(n)]
                    at  == CHOOSE i \in DOMAIN row : row[i] = n
                IN IF at = Len(row) THEN 0 ELSE row[at + 1]

\* Up until there is a peer.
Climb[n \in {0} \cup Nodes] ==
  IF n = 0 THEN 0 ELSE IF Peer(n) # 0 THEN Peer(n) ELSE Climb[Parent(n)]

\* Faulty variant: the first peer of the parent only.
dtstepOneUp(prev) ==
  IF Child(prev) # 0 THEN Child(prev)
  ELSE IF Peer(prev) # 0 \/ Parent(prev) = 0 THEN Peer(prev) ELSE Peer(Parent(prev))

dtstep(prev) == IF Child(prev) # 0 THEN Child(prev) ELSE Climb[prev]

(***************************************************************************)
(* The steps.                                                              *)
(***************************************************************************)
\* putNDRVs: one driver of the blob.  A later one for the same type counts.
ReadPiece ==
  /\ loading = "reads" /\ piece < Len(blob)
  /\ piece' = piece + 1
  /\ LET name == blob[piece + 1]
         vid  == virtiotype(readhex(name))
     IN supported' = IF name = <<>> \/ vid = 0 THEN supported
                     ELSE [supported EXCEPT ![vid] = piece + 1]
  /\ UNCHANGED <<devtree, blob, ph, passed, driverOf, bootpath, romFile, loading>>

StartPut ==
  /\ loading = "reads" /\ piece = Len(blob)
  /\ loading' = "puts" /\ ph' = Root /\ passed' = <<>>
  /\ UNCHANGED <<devtree, blob, supported, piece, driverOf, bootpath, romFile>>

\* putNDRVs: one node.
Put ==
  /\ loading = "puts" /\ ph # 0
  /\ LET vid == virtiotype(devtree.id[ph])
     IN driverOf' = IF vid = 0 THEN driverOf ELSE [driverOf EXCEPT ![ph] = supported[vid]]
  /\ passed' = Append(passed, ph) /\ ph' = dtstep(ph)
  /\ UNCHANGED <<devtree, blob, supported, piece, bootpath, romFile, loading>>

\* chain9p returns if there is no ROM file, and then Open Firmware boots.
ChainOrBoot ==
  /\ loading = "puts" /\ ph = 0
  /\ IF romFile THEN loading' = "chains" /\ ph' = Root /\ passed' = <<>>
                ELSE loading' = "boots" /\ UNCHANGED <<ph, passed>>
  /\ UNCHANGED <<devtree, blob, supported, piece, driverOf, bootpath, romFile>>

\* chain9p: one node, until one is of type 9.
Chain9p ==
  /\ loading = "chains" /\ ph # 0
  /\ passed' = Append(passed, ph)
  /\ IF virtiotype(devtree.id[ph]) = 9 THEN bootpath' = ph /\ loading' = "chained" /\ UNCHANGED ph
                                    ELSE ph' = dtstep(ph) /\ UNCHANGED <<bootpath, loading>>
  /\ UNCHANGED <<devtree, blob, supported, piece, driverOf, romFile>>

\* Without such a node the path is empty, and the ROM file starts all the same.
ChainNone ==
  /\ loading = "chains" /\ ph = 0 /\ loading' = "chained"
  /\ UNCHANGED <<devtree, blob, supported, piece, ph, passed, driverOf, bootpath, romFile>>

LoadInit ==
  /\ devtree \in DeviceTrees /\ blob \in Blobs /\ romFile \in BOOLEAN
  /\ supported = [t \in Types |-> 0] /\ piece = 0 /\ ph = 0 /\ passed = <<>>
  /\ driverOf = [n \in Nodes |-> 0] /\ bootpath = 0 /\ loading = "reads"

LoadNext == ReadPiece \/ StartPut \/ Put \/ ChainOrBoot \/ Chain9p \/ ChainNone

LoadSpec == LoadInit /\ [][LoadNext]_loadVars

(***************************************************************************)
(* Properties.                                                             *)
(***************************************************************************)
WalkDone == loading \in {"puts", "chains"} /\ ph = 0

\* The walk that knows of no more than child, peer and parent comes to each
\* node of the tree once, whatever its shape, and ends.
WalkSeesEachOnce ==
  /\ IsInjective(passed)
  /\ WalkDone => ToSet(passed) = Nodes

\* A device is given the driver whose description names it; a device of the
\* older numbers that no description names is given none.  The newer numbers
\* are counted from another beginning, so that a driver for one of them may be
\* given to others (a newer console gets the driver of older disks).
DriversFit ==
  loading = "puts" /\ ph = 0 =>
    \A n \in Nodes :
      LET fitting == {i \in DOMAIN blob : blob[i] # <<>> /\ Hex(blob[i]) = devtree.id[n]}
      IN IF fitting # {} THEN driverOf[n] = Max(fitting)
         ELSE Legacy(devtree.id[n]) => driverOf[n] = 0

\* Every device of the tree is met once, and given the driver whose description
\* names it.  A device that no description names has none if its number is an
\* older one; a newer one may then have the driver of another kind of device.
DevicesServed == WalkSeesEachOnce /\ DriversFit
=============================================================================
