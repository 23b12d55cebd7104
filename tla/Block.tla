------------------------------- MODULE Block -------------------------------
(***************************************************************************)
(* The disk driver (device-block.c): DriverStart looks for a partition;    *)
(* DriverRead cuts a read into passes, as many physical extents of the     *)
(* caller's buffer at a time as the queue has room for.                    *)
(*                                                                         *)
(* The disk holds at each byte the byte's own position.                    *)
(***************************************************************************)
EXTENDS Integers, Sequences, FiniteSetsExt

CONSTANTS
  Sector,    \* 512
  PageBytes,      \* 4096
  buffers,   \* of the queue: two are for the request and the status
  Maps,      \* partition maps the disk may have: the bytes of their blocks and
             \* the entries, one in a block; no entries if there is no map
  Capacity,  \* of the device, in sectors
  FirstSectors,   \* of the volume, that reads begin with
  MaxSectors \* longest read

ASSUME BlockAssumption ==
  /\ Sector \in Nat \ {0} /\ PageBytes \in Nat \ {0} /\ PageBytes % Sector = 0
  /\ buffers \in Nat /\ buffers >= 4 /\ Capacity \in Nat /\ MaxSectors \in Nat
  /\ FirstSectors \subseteq Nat
  /\ \A m \in Maps :
       /\ m.sbBlkSize \in Nat \ {0} /\ m.sbBlkSize % Sector = 0
       /\ m.parts \in Seq({m.parts[i] : i \in DOMAIN m.parts})
       /\ \A i \in DOMAIN m.parts : /\ m.parts[i].type # "none"
                                   /\ m.parts[i].start \in Nat /\ m.parts[i].count \in Nat

VARIABLES
  map,        \* the disk's partition map
  phase,      \* "start", "probing", "ready", "reading", "panic"
  index, chosen,  \* of probePartitions
  firstblock, numblocks,
  request,    \* [pos, count, offset, cuts]: the read, where its buffer begins in
              \* a page and the pages after which memory is not contiguous
  ioActCount,
  buffer      \* what has been read

blockVars == <<map, phase, index, chosen, firstblock, numblocks, request, ioActCount, buffer>>

NoEntry == [type |-> "none", start |-> 0, count |-> 0]

NoMap == [sbBlkSize |-> Sector, parts |-> <<>>]

NoRequest == [pos |-> 0, count |-> 0, offset |-> 0, cuts |-> {}]

(***************************************************************************)
(* probePartitions.                                                        *)
(***************************************************************************)
\* The entry in a sector of the disk: entry i lies i blocks of the map from the
\* disk's start.  Sector 0 says whether there is a map and how long its blocks are.
EntryAt(sector) ==
  LET here == {i \in DOMAIN map.parts : map.sbBlkSize * i = sector * Sector}
  IN  IF here = {} THEN NoEntry ELSE map.parts[CHOOSE i \in here : TRUE]

\* Sectors in a block of the map.
Scale == map.sbBlkSize \div Sector

Probe ==
  /\ phase = "start"
  /\ map' \in Maps
  /\ firstblock' = 0 /\ numblocks' = Capacity /\ index' = 0 /\ chosen' = NoEntry
  /\ phase' = IF map'.parts = <<>> THEN "ready" ELSE "probing"
  /\ UNCHANGED <<request, ioActCount, buffer>>

\* One entry, read through DriverRead from the start of the disk; the last
\* Apple_HFS partition counts, and only when all have been seen.
ProbeEntry ==
  /\ phase = "probing"
  /\ index' = index + 1
  /\ \E part \in {EntryAt(firstblock + Scale * index')} :
       \E now \in {IF part.type = "Apple_HFS" THEN part ELSE chosen} :
         /\ chosen' = now
         /\ phase' = IF index' < Len(map.parts) THEN "probing" ELSE "ready"
         /\ firstblock' = IF index' = Len(map.parts) /\ now # NoEntry THEN Scale * now.start ELSE firstblock
         /\ numblocks'  = IF index' = Len(map.parts) /\ now # NoEntry THEN Scale * now.count ELSE numblocks
  /\ UNCHANGED <<map, request, ioActCount, buffer>>

(***************************************************************************)
(* DriverRead.                                                             *)
(***************************************************************************)
\* Addresses at which physical memory is cut, between here and there.
Cuts(from, to) == {a \in from + 1 .. to - 1 : a % PageBytes = 0 /\ a \div PageBytes \in request.cuts}

\* GetPhysical: where the first n extents of the rest of the buffer end.
GetPhysical(n) ==
  LET from == request.offset + ioActCount
      to   == request.offset + request.count
      cuts == Cuts(from, to)
      last == {a \in cuts : Cardinality({c \in cuts : c <= a}) = n}
  IN  (IF last = {} THEN to ELSE Max(last)) - request.offset

Read(pos, count, offset, cuts) ==
  /\ phase = "ready"
  /\ request' = [pos |-> pos, count |-> count, offset |-> offset, cuts |-> cuts]
  /\ ioActCount' = 0 /\ buffer' = <<>>
  /\ phase' = "reading"
  /\ UNCHANGED <<map, index, chosen, firstblock, numblocks>>

\* The device: so many bytes from a sector on; whole sectors only.
SectorBytes(sector, n) == [i \in 1 .. n |-> sector * Sector + i - 1]

\* Faulty variant: the sector is not moved on for what has been read.
DriverReadPassStays ==
  /\ phase = "reading" /\ ioActCount # request.count
  /\ \E upto \in {GetPhysical(buffers - 2)} :
       IF (upto - ioActCount) % Sector # 0
         THEN phase' = "panic" /\ UNCHANGED <<ioActCount, buffer>>
         ELSE /\ buffer' = buffer \o SectorBytes(firstblock + (request.pos \div Sector), upto - ioActCount)
              /\ ioActCount' = upto
              /\ UNCHANGED phase
  /\ UNCHANGED <<map, index, chosen, firstblock, numblocks, request>>

\* One pass; the device refuses a part of a sector and a bad reply is a panic.
DriverReadPass ==
  /\ phase = "reading" /\ ioActCount # request.count
  /\ \E upto \in {GetPhysical(buffers - 2)} :
       IF (upto - ioActCount) % Sector # 0
         THEN phase' = "panic" /\ UNCHANGED <<ioActCount, buffer>>
         ELSE /\ buffer' = buffer \o SectorBytes(firstblock + ((request.pos + ioActCount) \div Sector), upto - ioActCount)
              /\ ioActCount' = upto
              /\ UNCHANGED phase
  /\ UNCHANGED <<map, index, chosen, firstblock, numblocks, request>>

ReadEnds ==
  /\ phase = "reading" /\ ioActCount = request.count
  /\ phase' = "ready" /\ request' = NoRequest /\ ioActCount' = 0 /\ buffer' = <<>>
  /\ UNCHANGED <<map, index, chosen, firstblock, numblocks>>

BlockInit ==
  /\ map = NoMap /\ phase = "start" /\ index = 0 /\ chosen = NoEntry /\ firstblock = 0 /\ numblocks = 0
  /\ request = NoRequest /\ ioActCount = 0 /\ buffer = <<>>

BlockNext ==
  \/ Probe \/ ProbeEntry
  \/ \E s \in FirstSectors, n \in 0 .. MaxSectors, offset \in 0 .. PageBytes - 1 :
       \E cuts \in SUBSET (1 .. ((offset + n * Sector) \div PageBytes)) : Read(s * Sector, n * Sector, offset, cuts)
  \/ DriverReadPass \/ ReadEnds

BlockSpec == BlockInit /\ [][BlockNext]_blockVars

(***************************************************************************)
(* Properties.                                                             *)
(***************************************************************************)
\* What has been read so far is what the volume holds there, whatever the
\* memory behind the buffer looks like.
DataTrue ==
  phase = "reading" =>
    /\ Len(buffer) = ioActCount
    /\ \A i \in 1 .. Len(buffer) : buffer[i] = firstblock * Sector + request.pos + i - 1

\* The volume is the last HFS partition of the map, byte for byte, whatever the
\* length of the map's blocks, or the whole disk.
VolumeChosen ==
  phase = "ready" =>
    LET hfs == {i \in 1 .. Len(map.parts) : map.parts[i].type = "Apple_HFS"}
    IN  IF hfs = {} THEN firstblock = 0 /\ numblocks = Capacity
        ELSE /\ firstblock * Sector = map.parts[Max(hfs)].start * map.sbBlkSize
             /\ numblocks * Sector = map.parts[Max(hfs)].count * map.sbBlkSize

\* A read fails only if its buffer is scattered and begins within a sector.
PanicMeansScattered ==
  phase = "panic" => request.offset % Sector # 0 /\ Cardinality(request.cuts) >= buffers - 2

\* A read gives what the volume chosen at the start holds, or fails where it is
\* known to.
ReadTrue == DataTrue /\ VolumeChosen /\ PanicMeansScattered
=============================================================================
