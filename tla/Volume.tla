------------------------------- MODULE Volume -------------------------------
(***************************************************************************)
(* The volume of the 9P driver among others (device-9p.c): how it gets     *)
(* into the File Manager's queue, the reference numbers it goes by, the    *)
(* working directories (a table that all volumes share) and the current    *)
(* directory, which is the first entry of the table.                       *)
(*                                                                         *)
(* The calls reach the driver by the patch of ToExtFS: those on its volume *)
(* once that is mounted, MountVol for its drive as long as that has FSID.  *)
(* A working directory is known by its number in the table; its reference  *)
(* number is WDLO + 2 + 16 times that.                                     *)
(***************************************************************************)
EXTENDS Integers, FiniteSets

CONSTANTS
  Folders9,   \* the CNIDs of directories, with the root, which is 2
  Procs,      \* procIDs of working directories
  Entries,    \* entries of the table
  MaxMounts   \* bound on mounts by anyone

ASSUME VolumeAssumption == 2 \in Folders9 /\ 0 \notin Folders9 /\ Entries \in Nat /\ Entries >= 3

VARIABLES
  vcbs,       \* the volumes in the queue: [vol, ref]
  defVol,     \* LMSetDefVCBPtr
  DefVRefNum, \* the number that goes with it
  wds,        \* the table, from 0
  dQFSID,     \* of the drive
  needTime,   \* accRun is called
  diskEvt,    \* a disk event is waiting
  promised,   \* history: what each open working directory of ours stands for
  current,    \* history: the current directory, as it was last set; 0 if it was closed
  mounts      \* counter for MaxMounts

volVars == <<vcbs, defVol, DefVRefNum, wds, dQFSID, needTime, diskEvt, promised, current, mounts>>

Volumes == {"ours", "other"}
Unused9 == [vol |-> "none", dir |-> 0, proc |-> 0]
Skipped == 2                       \* SKIPWD: never use the first two

\* Faulty variant: the first two entries are used.
UsableAll == 0 .. Entries - 1

\* fsOpenWD looks from there on.
Usable == Skipped .. Entries - 1

Mounted9(vol) == \E v \in vcbs : v.vol = vol
Ours == Mounted9("ours")

\* findVol, from -1 on down.
FreeRef == CHOOSE r \in -Cardinality(vcbs) - 1 .. -1 :
             /\ \A v \in vcbs : v.ref # r
             /\ \A s \in r + 1 .. -1 : \E v \in vcbs : v.ref = s

\* findWD's numbers: WDLO, the length of the table, its entries.
WDRef(w) == -32767 + 2 + 16 * w

Queued(vol) == vcbs \cup {[vol |-> vol, ref |-> FreeRef]}

(***************************************************************************)
(* Mounting.                                                               *)
(***************************************************************************)
\* cAccRun: a disk event is posted again and again, and may be lost.
AccRun ==
  /\ needTime /\ diskEvt' = TRUE
  /\ UNCHANGED <<vcbs, defVol, DefVRefNum, wds, dQFSID, needTime, promised, current, mounts>>

EventLost ==
  /\ diskEvt /\ diskEvt' = FALSE
  /\ UNCHANGED <<vcbs, defVol, DefVRefNum, wds, dQFSID, needTime, promised, current, mounts>>

\* fsMountVol: the first volume of all is the default.
fsMountVol ==
  /\ diskEvt /\ dQFSID = "9P" /\ mounts < MaxMounts
  /\ vcbs' = Queued("ours")
  /\ IF vcbs = {} THEN /\ defVol' = "ours" /\ DefVRefNum' = FreeRef /\ current' = 2
                         /\ wds' = [wds EXCEPT ![0] = [vol |-> "ours", dir |-> 2, proc |-> 0]]
                    ELSE UNCHANGED <<defVol, DefVRefNum, wds, current>>
  /\ dQFSID' = "none" /\ needTime' = FALSE /\ diskEvt' = FALSE /\ mounts' = mounts + 1
  /\ UNCHANGED promised

\* fsUnmountVol: the loop looks each time at the entry of the number it was given.
fsUnmountVol(wd) ==
  /\ Ours /\ wd \in {-1} \cup DOMAIN wds /\ (wd >= 0 => wds[wd].vol = "ours")
  /\ wds' = IF wd = -1 THEN wds ELSE [wds EXCEPT ![wd] = Unused9]
  /\ defVol' = IF defVol = "ours" THEN "none" ELSE defVol
  /\ DefVRefNum' = IF defVol = "ours" THEN 0 ELSE DefVRefNum
  /\ vcbs' = {v \in vcbs : v.vol # "ours"}
  /\ promised' = [w \in Usable |-> 0]
  /\ UNCHANGED <<dQFSID, needTime, diskEvt, current, mounts>>

(***************************************************************************)
(* Working directories.                                                    *)
(***************************************************************************)
FirstWD(S) == CHOOSE w \in S : \A v \in S : w <= v

\* fsOpenWD: the same one again if it is open, else the first free one.
OpenWD(dir, proc) ==
  /\ Ours /\ dir # 2
  /\ \E wd \in {[vol |-> "ours", dir |-> dir, proc |-> proc]} :
     \E at \in {IF \E w \in Usable : wds[w] = wd THEN {w \in Usable : wds[w] = wd}
                ELSE {w \in Usable : wds[w].vol = "none"}} :
       /\ at # {}
       /\ wds' = [wds EXCEPT ![FirstWD(at)] = wd]
       /\ promised' = [promised EXCEPT ![FirstWD(at)] = dir]
  /\ UNCHANGED <<vcbs, defVol, DefVRefNum, dQFSID, needTime, diskEvt, current, mounts>>

\* Any number that the File Manager takes for one of ours: zero, and the first
\* entry's own, clear the current directory.
CloseWD(w) ==
  /\ Ours /\ (wds[w].vol = "ours" \/ (w = 0 /\ defVol = "ours"))
  /\ wds' = [wds EXCEPT ![w] = Unused9]
  /\ promised' = IF w \in Usable THEN [promised EXCEPT ![w] = 0] ELSE promised
  /\ current' = IF w = 0 THEN 0 ELSE current
  /\ UNCHANGED <<vcbs, defVol, DefVRefNum, dQFSID, needTime, diskEvt, mounts>>

(***************************************************************************)
(* The current directory.                                                  *)
(***************************************************************************)
SetCurrent(dir, ref) ==
  /\ defVol' = "ours" /\ DefVRefNum' = ref
  /\ wds' = [wds EXCEPT ![0] = [vol |-> "ours", dir |-> dir, proc |-> 0]]

\* HSetVol: any directory.
HSetVol(dir) ==
  /\ \E v \in vcbs : v.vol = "ours" /\ SetCurrent(dir, v.ref)
  /\ current' = dir
  /\ UNCHANGED <<vcbs, dQFSID, needTime, diskEvt, promised, mounts>>

\* SetVol: a working directory, or the root for any other number.
SetVol(w) ==
  /\ Ours
  /\ \/ /\ w = -1 /\ current' = 2
        /\ \E v \in vcbs : v.vol = "ours" /\ SetCurrent(2, v.ref)
     \/ /\ w # -1 /\ wds[w].vol = "ours" /\ SetCurrent(wds[w].dir, WDRef(w))
        /\ current' = IF w \in Usable THEN promised[w] ELSE current
  /\ UNCHANGED <<vcbs, dQFSID, needTime, diskEvt, promised, mounts>>

\* pbDirID: a directory given as such, a working directory, or the root.
pbDirID(dirID, w) == IF dirID # 0 THEN dirID ELSE IF w \in DOMAIN wds THEN wds[w].dir ELSE 2

(***************************************************************************)
(* The File Manager, for another volume.                                   *)
(***************************************************************************)
OtherMounts ==
  /\ ~Mounted9("other") /\ mounts < MaxMounts /\ mounts' = mounts + 1
  /\ vcbs' = Queued("other")
  /\ UNCHANGED <<defVol, DefVRefNum, wds, dQFSID, needTime, diskEvt, promised, current>>

OtherUnmounts ==
  /\ Mounted9("other")
  /\ vcbs' = {v \in vcbs : v.vol # "other"}
  /\ wds' = [w \in DOMAIN wds |-> IF wds[w].vol = "other" THEN Unused9 ELSE wds[w]]
  /\ defVol' = IF defVol = "other" THEN "none" ELSE defVol
  /\ DefVRefNum' = IF defVol = "other" THEN 0 ELSE DefVRefNum
  /\ UNCHANGED <<dQFSID, needTime, diskEvt, promised, current, mounts>>

OtherOpens(w) ==
  /\ Mounted9("other") /\ wds[w].vol = "none" /\ w \in Usable
  /\ wds' = [wds EXCEPT ![w] = [vol |-> "other", dir |-> 2, proc |-> 0]]
  /\ UNCHANGED <<vcbs, defVol, DefVRefNum, dQFSID, needTime, diskEvt, promised, current, mounts>>

OtherIsCurrent ==
  /\ \E v \in vcbs : v.vol = "other" /\ DefVRefNum' = v.ref
  /\ defVol' = "other"
  /\ wds' = [wds EXCEPT ![0] = [vol |-> "other", dir |-> 2, proc |-> 0]]
  /\ UNCHANGED <<vcbs, dQFSID, needTime, diskEvt, promised, current, mounts>>

VolInit ==
  /\ vcbs = {} /\ defVol = "none" /\ DefVRefNum = 0 /\ wds = [w \in 0 .. Entries - 1 |-> Unused9]
  /\ dQFSID = "9P" /\ needTime = TRUE /\ diskEvt = FALSE
  /\ promised = [w \in Usable |-> 0] /\ current = 2 /\ mounts = 0

VolNext ==
  \/ AccRun \/ EventLost \/ fsMountVol \/ OtherMounts \/ OtherUnmounts \/ OtherIsCurrent
  \/ \E w \in {-1} \cup DOMAIN wds : fsUnmountVol(w) \/ SetVol(w)
  \/ \E w \in DOMAIN wds : CloseWD(w) \/ OtherOpens(w)
  \/ \E dir \in Folders9 : HSetVol(dir) \/ \E proc \in Procs : OpenWD(dir, proc)

VolSpec == VolInit /\ [][VolNext]_volVars

(***************************************************************************)
(* Properties.                                                             *)
(***************************************************************************)
\* Volumes, mounted and unmounted in any order, go by different numbers.
RefsDiffer == \A u, v \in vcbs : u # v => u.ref # v.ref

\* A working directory stands for what it was opened for until it is closed,
\* and the current directory is the one last set, whatever was opened, closed
\* and set by users of either volume: but none (number 0, and no volume's entry)
\* from when a program closes it as if it were a working directory (fsCloseWD).
DirsStand ==
  Ours => /\ \A w \in Usable : promised[w] # 0 => pbDirID(0, w) = promised[w]
          /\ defVol = "ours" => /\ pbDirID(0, 0) = current
                                /\ current # 0 => wds[0].vol = "ours"

\* The number of the default volume goes with its VCB: ours, when it is the
\* default, is queued, and the number is its own or that of a working directory
\* (which may have been closed since: fsCloseWD leaves it there).
DefaultAgrees ==
  /\ defVol = "none" => DefVRefNum = 0
  /\ defVol = "ours" => \/ \E v \in vcbs : v.vol = "ours" /\ v.ref = DefVRefNum
                        \/ Ours /\ \E w \in DOMAIN wds : DefVRefNum = WDRef(w)

\* A number given to a program, of a volume or of a working directory, keeps its
\* meaning, and so does the default.
NumbersStand == RefsDiffer /\ DirsStand /\ DefaultAgrees
=============================================================================
