--------------------------- MODULE Drivers_proofs ---------------------------
(***************************************************************************)
(* Proofs about what the three drivers do beside the requests of the 9P file *)
(* system: the queues and tables of the File Manager (Volume), the hook on *)
(* its calls (ExtFS), starting and stopping (Lifecycle), the mouse (Input), *)
(* reading the disk (Block), how Open Firmware finds them (Loader), and the *)
(* patches of the 68k system (Patch68k).  A part to each; they use nothing of *)
(* one another but facts on numbers.                                       *)
(***************************************************************************)
EXTENDS Volume, ExtFS, Lifecycle, Input, Block, Loader, Patch68k,
        FiniteSetTheorems, SequenceTheorems, FunctionTheorems,
        NaturalsInduction, WellFoundedInduction, TLAPS

-----------------------------------------------------------------------------
(***************************************************************************)
(* Volume, for any number of directories, of entries of the table and of   *)
(* mounts.                                                                 *)
(***************************************************************************)

WDs == [vol : Volumes \cup {"none"}, dir : Folders9 \cup {0}, proc : Procs \cup {0}]

VolTypeOK ==
  /\ vcbs \in SUBSET [vol : Volumes, ref : Int]
  /\ wds \in [0 .. Entries - 1 -> WDs]
  /\ promised \in [Usable -> Folders9 \cup {0}]

\* A volume is queued once, ours also because its drive loses its FSID.
QueueInv ==
  /\ \A u, v \in vcbs : u.vol = v.vol => u = v
  /\ RefsDiffer
  /\ dQFSID = "9P" => ~Ours

\* The entries of the table that were given out, and the one of the current
\* directory, are marked ours: the File Manager clears those of its own only.  An
\* entry marked ours is one given out, until the volume is unmounted for good.
TableInv ==
  /\ \A w \in Usable : promised[w] # 0 => wds[w].vol = "ours" /\ wds[w].dir = promised[w]
  /\ \A w \in Usable : wds[w].vol = "ours" => promised[w] # 0 \/ ~(Ours \/ dQFSID = "9P")
  /\ defVol = "ours" => /\ wds[0].vol # "other" /\ wds[0].dir = current
                        /\ current # 0 => wds[0].vol = "ours"
  /\ wds[1] = Unused9
  /\ wds[0].vol = "ours" => wds[0].dir = current \/ ~(Ours \/ dQFSID = "9P")

VolInv == VolTypeOK /\ QueueInv /\ TableInv /\ DefaultAgrees

-----------------------------------------------------------------------------
LEMMA TableFacts ==
  /\ Entries \in Nat /\ Usable \subseteq (0 .. Entries - 1) \ {0}
  /\ 0 \in 0 .. Entries - 1 /\ Unused9 \in WDs /\ 2 \in Folders9 /\ 0 \notin Folders9
  /\ "ours" \in Volumes /\ "other" \in Volumes
  /\ Unused9.vol = "none" /\ Unused9.dir = 0
  /\ 1 \in 0 .. Entries - 1 /\ 1 \notin Usable
  BY VolumeAssumption DEF Usable, Skipped, Unused9, WDs, Volumes

LEMMA LeastNumber ==
  ASSUME NEW S \in SUBSET Nat, S # {}
  PROVE  \E m \in S : \A k \in S : m <= k
<1>1. PICK m \in S : \A k \in S : ~ (<<k, m>> \in OpToRel(<, Nat))
  BY NatLessThanWellFounded, WFMin
<1>2. \A k \in S : ~ (k < m)
  BY <1>1 DEF OpToRel
<1> QED
  BY <1>2

\* The search in fsOpenWD stops at the first entry that will do.
LEMMA FirstIsThere ==
  ASSUME NEW S \in SUBSET Usable, S # {}
  PROVE  FirstWD(S) \in S
<1>1. S \subseteq Nat
  BY VolumeAssumption DEF Usable, Skipped
<1>2. \E w \in S : \A v \in S : w <= v
  BY <1>1, LeastNumber
<1> QED
  BY <1>2 DEF FirstWD

\* The number that findVol comes to is in use by no volume, when there is one
\* other volume at most.
LEMMA FreeRefIsFree ==
  ASSUME VolTypeOK, \A u, v \in vcbs : u = v
  PROVE  FreeRef \in Int /\ \A v \in vcbs : v.ref # FreeRef
<1> DEFINE Free(r) == /\ \A v \in vcbs : v.ref # r
                      /\ \A s \in r + 1 .. -1 : \E v \in vcbs : v.ref = s
<1>1. CASE vcbs = {}
  <2>1. Cardinality(vcbs) = 0
    BY <1>1, FS_EmptySet
  <2>2. -1 \in -Cardinality(vcbs) - 1 .. -1 /\ Free(-1)
    BY <1>1, <2>1
  <2> QED
    BY <1>1, <2>1, <2>2 DEF FreeRef
<1>2. CASE vcbs # {}
  <2>1. PICK u \in vcbs : TRUE
    BY <1>2
  <2>2. vcbs = {u} /\ u.ref \in Int
    BY <2>1 DEF VolTypeOK
  <2>3. Cardinality(vcbs) = 1
    BY <2>2, FS_Singleton
  <2>4. CASE u.ref = -1
    <3>1. -2 \in -Cardinality(vcbs) - 1 .. -1 /\ Free(-2)
      BY <2>2, <2>3, <2>4
    <3> QED
      BY <2>3, <3>1 DEF FreeRef
  <2>5. CASE u.ref # -1
    <3>1. -1 \in -Cardinality(vcbs) - 1 .. -1 /\ Free(-1)
      BY <2>2, <2>3, <2>5
    <3> QED
      BY <2>3, <3>1 DEF FreeRef
  <2> QED
    BY <2>4, <2>5
<1> QED
  BY <1>1, <1>2

\* A volume that is not in the queue yet is put there under a new number.
LEMMA QueuedKeeps ==
  ASSUME VolInv, NEW vol \in Volumes, ~Mounted9(vol)
  PROVE  /\ Queued(vol) \in SUBSET [vol : Volumes, ref : Int]
         /\ \A u, v \in Queued(vol) : u.vol = v.vol => u = v
         /\ \A u, v \in Queued(vol) : u # v => u.ref # v.ref
<1>1. \A u \in vcbs : u.vol \in Volumes /\ u.vol # vol
  BY DEF VolInv, VolTypeOK, Mounted9
<1>2. \A u, v \in vcbs : u.vol = v.vol
  BY <1>1 DEF Volumes
<1>3. \A u, v \in vcbs : u = v
  BY <1>2 DEF VolInv, QueueInv
<1>4. FreeRef \in Int /\ \A v \in vcbs : v.ref # FreeRef
  BY <1>3, FreeRefIsFree DEF VolInv
<1> DEFINE new == [vol |-> vol, ref |-> FreeRef]
<1>5. Queued(vol) = vcbs \cup {new} /\ new.vol = vol /\ new.ref = FreeRef
  BY DEF Queued
<1>6. new \in [vol : Volumes, ref : Int]
  BY <1>4
<1>7. Queued(vol) \in SUBSET [vol : Volumes, ref : Int]
  BY <1>5, <1>6 DEF VolInv, VolTypeOK
<1> HIDE DEF new
<1>8. ASSUME NEW u \in Queued(vol), NEW v \in Queued(vol)
      PROVE  (u.vol = v.vol => u = v) /\ (u # v => u.ref # v.ref)
  BY <1>1, <1>3, <1>4, <1>5
<1> QED
  BY <1>7, <1>8

LEMMA VolInvInit == VolInit => VolInv
<1> SUFFICES ASSUME VolInit PROVE VolInv
  OBVIOUS
<1>1. VolTypeOK
  BY TableFacts DEF VolInit, VolTypeOK
<1>2. QueueInv
  BY DEF VolInit, QueueInv, RefsDiffer, Ours, Mounted9
<1>3. TableInv
  <2>1. \A w \in 0 .. Entries - 1 : wds[w] = Unused9
    BY DEF VolInit
  <2>2. \A w \in Usable : promised[w] = 0
    BY DEF VolInit
  <2>3. defVol = "none"
    BY DEF VolInit
  <2> QED
    BY <2>1, <2>2, <2>3, TableFacts DEF TableInv
<1>4. DefaultAgrees
  BY DEF VolInit, DefaultAgrees
<1> QED
  BY <1>1, <1>2, <1>3, <1>4 DEF VolInv

LEMMA MountKeeps ==
  ASSUME VolInv, fsMountVol
  PROVE  VolInv'
<1>1. ~Mounted9("ours")
  BY DEF fsMountVol, VolInv, QueueInv, Ours
<1>2. /\ vcbs' = Queued("ours") /\ dQFSID' = "none" /\ promised' = promised
  BY DEF fsMountVol
<1>a. dQFSID = "9P"
  BY DEF fsMountVol
<1>b. vcbs \subseteq vcbs' /\ \E v \in vcbs' : v.vol = "ours" /\ v.ref = FreeRef
  <2> DEFINE new == [vol |-> "ours", ref |-> FreeRef]
  <2>1. vcbs' = vcbs \cup {new} /\ new.vol = "ours" /\ new.ref = FreeRef
    BY <1>2 DEF Queued
  <2> HIDE DEF new
  <2> QED
    BY <2>1
<1>3. /\ vcbs' \in SUBSET [vol : Volumes, ref : Int]
      /\ \A u, v \in vcbs' : u.vol = v.vol => u = v
      /\ \A u, v \in vcbs' : u # v => u.ref # v.ref
  BY <1>1, <1>2, QueuedKeeps, TableFacts
<1>4. QueueInv'
  BY <1>2, <1>3 DEF QueueInv, RefsDiffer
<1> DEFINE root == [vol |-> "ours", dir |-> 2, proc |-> 0]
<1>5. root \in WDs /\ root.vol = "ours" /\ root.dir = 2
  BY TableFacts DEF WDs
<1>6. CASE vcbs = {}
  <2>1. wds' = [wds EXCEPT ![0] = root] /\ current' = 2 /\ defVol' = "ours" /\ DefVRefNum' = FreeRef
    BY <1>6 DEF fsMountVol
  <2> HIDE DEF root
  <2>2. wds' \in [0 .. Entries - 1 -> WDs] /\ wds'[0] = root
        /\ \A w \in 0 .. Entries - 1 : w # 0 => wds'[w] = wds[w]
    BY <1>5, <2>1, TableFacts DEF VolInv, VolTypeOK
  <2>3. TableInv'
    BY <1>2, <1>5, <1>a, <2>1, <2>2, TableFacts DEF VolInv, TableInv
  <2>4. DefaultAgrees'
    BY <1>b, <2>1 DEF DefaultAgrees
  <2> QED
    BY <1>2, <1>3, <1>4, <2>2, <2>3, <2>4 DEF VolInv, VolTypeOK
<1>7. CASE vcbs # {}
  <2>1. UNCHANGED <<defVol, DefVRefNum, wds, current>>
    BY <1>7 DEF fsMountVol
  <2>2. TableInv'
    BY <1>2, <1>a, <2>1 DEF VolInv, TableInv
  <2>3. DefaultAgrees'
    BY <1>1, <1>b, <2>1 DEF VolInv, DefaultAgrees, Mounted9, Ours
  <2> QED
    BY <1>2, <1>3, <1>4, <2>1, <2>2, <2>3 DEF VolInv, VolTypeOK
<1> QED
  BY <1>6, <1>7

LEMMA UnmountKeeps ==
  ASSUME VolInv, NEW wd \in {-1} \cup DOMAIN wds, fsUnmountVol(wd)
  PROVE  VolInv'
<1>1. vcbs' \subseteq vcbs /\ ~Ours' /\ UNCHANGED <<dQFSID, current>>
  BY DEF fsUnmountVol, Ours, Mounted9
<1>2. wds' \in [0 .. Entries - 1 -> WDs]
  BY TableFacts DEF fsUnmountVol, VolInv, VolTypeOK
<1>3. promised' = [w \in Usable |-> 0] /\ defVol' # "ours"
  BY DEF fsUnmountVol
<1>4. QueueInv'
  BY <1>1 DEF VolInv, QueueInv, RefsDiffer
<1>5. TableInv'
  <2>1. Ours /\ dQFSID # "9P"
    BY DEF fsUnmountVol, VolInv, QueueInv
  <2>2. wds'[1] = Unused9
    <3>1. wds' = wds \/ wds' = [wds EXCEPT ![wd] = Unused9]
      BY DEF fsUnmountVol
    <3> QED
      BY <3>1, TableFacts DEF VolInv, VolTypeOK, TableInv
  <2>3. ~(Ours \/ dQFSID = "9P")'
    BY <1>1, <2>1
  <2>4. \A w \in Usable : promised'[w] = 0
    BY <1>3
  <2> QED
    BY <1>3, <2>2, <2>3, <2>4 DEF TableInv
<1>6. DefaultAgrees'
  BY <1>3 DEF fsUnmountVol, VolInv, DefaultAgrees
<1> QED
  BY <1>1, <1>2, <1>3, <1>4, <1>5, <1>6 DEF VolInv, VolTypeOK

\* A directory set as the current one.
LEMMA CurrentKeeps ==
  ASSUME VolInv, Ours, NEW dir \in Folders9 \cup {0}, NEW ref, SetCurrent(dir, ref), current' = dir,
         \/ \E v \in vcbs : v.vol = "ours" /\ v.ref = ref
         \/ \E w \in DOMAIN wds : ref = WDRef(w),
         UNCHANGED <<vcbs, dQFSID, promised>>
  PROVE  VolInv'
<1> DEFINE new == [vol |-> "ours", dir |-> dir, proc |-> 0]
<1>1. new \in WDs /\ new.vol = "ours" /\ new.dir = dir
  BY TableFacts DEF WDs
<1>2. wds' = [wds EXCEPT ![0] = new] /\ defVol' = "ours" /\ DefVRefNum' = ref
  BY DEF SetCurrent
<1> HIDE DEF new
<1>3. wds' \in [0 .. Entries - 1 -> WDs] /\ wds'[0] = new
      /\ \A w \in 0 .. Entries - 1 : w # 0 => wds'[w] = wds[w]
  BY <1>1, <1>2, TableFacts DEF VolInv, VolTypeOK
<1>4. Ours' = Ours
  BY DEF Ours, Mounted9
<1>5. TableInv'
  BY <1>1, <1>2, <1>3, <1>4, TableFacts DEF VolInv, TableInv
<1>6. DOMAIN wds' = DOMAIN wds
  BY <1>3 DEF VolInv, VolTypeOK
<1>7. DefaultAgrees'
  BY <1>2, <1>4, <1>6 DEF DefaultAgrees
<1> QED
  BY <1>3, <1>4, <1>5, <1>7 DEF VolInv, VolTypeOK, QueueInv, RefsDiffer

LEMMA OpenWDKeeps ==
  ASSUME VolInv, NEW dir \in Folders9, NEW proc \in Procs, OpenWD(dir, proc)
  PROVE  VolInv'
<1> DEFINE wd == [vol |-> "ours", dir |-> dir, proc |-> proc]
<1>1. wd \in WDs /\ wd.vol = "ours" /\ wd.dir = dir
  BY TableFacts DEF WDs
<1>2. PICK w \in Usable : wds' = [wds EXCEPT ![w] = wd] /\ promised' = [promised EXCEPT ![w] = dir]
  <2>1. PICK at \in SUBSET Usable : /\ at # {}
                                    /\ wds' = [wds EXCEPT ![FirstWD(at)] = wd]
                                    /\ promised' = [promised EXCEPT ![FirstWD(at)] = dir]
    BY DEF OpenWD
  <2>2. FirstWD(at) \in Usable
    BY <2>1, FirstIsThere
  <2> QED
    BY <2>1, <2>2
<1> HIDE DEF wd
<1>3. /\ wds' \in [0 .. Entries - 1 -> WDs] /\ wds'[w] = wd /\ wds'[0] = wds[0]
      /\ \A x \in (0 .. Entries - 1) \ {w} : wds'[x] = wds[x]
  BY <1>1, <1>2, TableFacts DEF VolInv, VolTypeOK
<1>4. /\ promised' \in [Usable -> Folders9 \cup {0}] /\ promised'[w] = dir
      /\ \A x \in Usable \ {w} : promised'[x] = promised[x]
  BY <1>2 DEF VolInv, VolTypeOK
<1>5. UNCHANGED <<vcbs, defVol, DefVRefNum, dQFSID, current>>
  BY DEF OpenWD
<1>6. Ours' = Ours /\ DOMAIN wds' = DOMAIN wds
  BY <1>3, <1>5 DEF Ours, Mounted9, VolInv, VolTypeOK
<1>7. TableInv'
  BY <1>1, <1>3, <1>4, <1>5, <1>6, TableFacts DEF VolInv, TableInv
<1>8. DefaultAgrees'
  BY <1>5, <1>6 DEF VolInv, DefaultAgrees
<1> QED
  BY <1>3, <1>4, <1>5, <1>6, <1>7, <1>8 DEF VolInv, VolTypeOK, QueueInv, RefsDiffer

LEMMA CloseWDKeeps ==
  ASSUME VolInv, NEW w \in DOMAIN wds, CloseWD(w)
  PROVE  VolInv'
<1>1. /\ wds' = [wds EXCEPT ![w] = Unused9]
      /\ promised' = (IF w \in Usable THEN [promised EXCEPT ![w] = 0] ELSE promised)
      /\ current' = (IF w = 0 THEN 0 ELSE current)
      /\ UNCHANGED <<vcbs, defVol, DefVRefNum, dQFSID>>
  BY DEF CloseWD
<1>2. /\ wds' \in [0 .. Entries - 1 -> WDs] /\ wds'[w] = Unused9 /\ w \in 0 .. Entries - 1
      /\ \A x \in 0 .. Entries - 1 : x # w => wds'[x] = wds[x]
  BY <1>1, TableFacts DEF VolInv, VolTypeOK
<1>3. /\ promised' \in [Usable -> Folders9 \cup {0}] /\ (w \in Usable => promised'[w] = 0)
      /\ \A x \in Usable : x # w => promised'[x] = promised[x]
  BY <1>1 DEF VolInv, VolTypeOK
<1>4. Ours' = Ours /\ DOMAIN wds' = DOMAIN wds
  BY <1>1, <1>2 DEF Ours, Mounted9, VolInv, VolTypeOK
<1>5. TableInv'
  <2>1. \A x \in Usable : (promised'[x] # 0 => wds'[x].vol = "ours" /\ wds'[x].dir = promised'[x])
                         /\ (wds'[x].vol = "ours" => promised'[x] # 0 \/ ~(Ours \/ dQFSID = "9P"))
    BY <1>2, <1>3, TableFacts DEF VolInv, TableInv
  <2>2. CASE w = 0
    <3>1. current' = 0 /\ wds'[0] = Unused9 /\ wds'[1] = wds[1]
      BY <1>1, <1>2, <2>2, TableFacts
    <3> QED
      BY <1>1, <1>4, <2>1, <3>1, TableFacts DEF VolInv, TableInv
  <2>3. CASE w # 0
    <3>1. current' = current /\ wds'[0] = wds[0] /\ wds'[1] = Unused9
      BY <1>1, <1>2, <2>3, TableFacts DEF VolInv, TableInv
    <3> QED
      BY <1>1, <1>4, <2>1, <3>1 DEF VolInv, TableInv
  <2> QED
    BY <2>2, <2>3
<1>6. DefaultAgrees'
  BY <1>1, <1>4 DEF VolInv, DefaultAgrees
<1> QED
  BY <1>1, <1>2, <1>3, <1>4, <1>5, <1>6 DEF VolInv, VolTypeOK, QueueInv, RefsDiffer

\* The File Manager takes entries that are free and clears its own.
LEMMA OtherVolumeKeeps ==
  ASSUME VolInv,
         \/ OtherMounts \/ OtherUnmounts \/ OtherIsCurrent
         \/ \E w \in DOMAIN wds : OtherOpens(w)
  PROVE  VolInv'
<1> DEFINE rest9 == [vol |-> "other", dir |-> 2, proc |-> 0]
<1>1. rest9 \in WDs /\ rest9.vol = "other"
  BY TableFacts DEF WDs
<1>2. CASE OtherMounts
  <2>1. vcbs' = Queued("other") /\ ~Mounted9("other")
        /\ UNCHANGED <<defVol, DefVRefNum, wds, dQFSID, promised, current>>
    BY <1>2 DEF OtherMounts
  <2>2. /\ vcbs' \in SUBSET [vol : Volumes, ref : Int]
        /\ \A u, v \in vcbs' : u.vol = v.vol => u = v
        /\ \A u, v \in vcbs' : u # v => u.ref # v.ref
    BY <2>1, QueuedKeeps, TableFacts
  <2>3. Ours' = Ours /\ vcbs \subseteq vcbs'
    BY <2>1 DEF Ours, Mounted9, Queued
  <2>4. QueueInv'
    BY <2>1, <2>2, <2>3 DEF VolInv, QueueInv, RefsDiffer
  <2>5. TableInv'
    BY <2>1, <2>3 DEF VolInv, TableInv
  <2>6. DefaultAgrees'
    BY <2>1, <2>3 DEF VolInv, DefaultAgrees
  <2> QED
    BY <2>1, <2>2, <2>4, <2>5, <2>6 DEF VolInv, VolTypeOK
<1>3. CASE OtherUnmounts
  <2>1. /\ vcbs' \subseteq vcbs /\ UNCHANGED <<dQFSID, promised, current>>
        /\ wds' = [w \in DOMAIN wds |-> IF wds[w].vol = "other" THEN Unused9 ELSE wds[w]]
        /\ vcbs' = {v \in vcbs : v.vol # "other"}
        /\ defVol' = (IF defVol = "other" THEN "none" ELSE defVol)
        /\ DefVRefNum' = (IF defVol = "other" THEN 0 ELSE DefVRefNum)
    BY <1>3 DEF OtherUnmounts
  <2>a. Ours' = Ours
    BY <2>1 DEF Ours, Mounted9
  <2>2. wds' \in [0 .. Entries - 1 -> WDs]
        /\ \A w \in 0 .. Entries - 1 : \/ wds[w].vol # "other" /\ wds'[w] = wds[w]
                                       \/ wds[w].vol = "other" /\ wds'[w] = Unused9
    BY <2>1, TableFacts DEF VolInv, VolTypeOK
  <2>3. QueueInv'
    BY <2>1, <2>a DEF VolInv, QueueInv, RefsDiffer
  <2>4. TableInv'
    <3>1. \A w \in 0 .. Entries - 1 : wds'[w].vol = "ours" <=> wds[w].vol = "ours"
      BY <2>2, TableFacts
    <3>2. \A w \in 0 .. Entries - 1 : wds[w].vol # "other" => wds'[w] = wds[w]
      BY <2>2
    <3>3. wds'[0].vol # "other"
      BY <2>2, TableFacts
    <3>4. wds'[1] = Unused9
      BY <2>2, TableFacts DEF VolInv, TableInv
    <3>5. defVol' = "ours" => defVol = "ours"
      BY <2>1
    <3>6. Usable \subseteq 0 .. Entries - 1 /\ 0 \in 0 .. Entries - 1
      BY TableFacts
    <3>7. \A w \in Usable : /\ promised'[w] # 0 => wds'[w].vol = "ours" /\ wds'[w].dir = promised'[w]
                            /\ wds'[w].vol = "ours" => promised'[w] # 0 \/ ~(Ours \/ dQFSID = "9P")'
      BY <2>1, <2>a, <3>1, <3>2, <3>6 DEF VolInv, TableInv
    <3>8. defVol' = "ours" => wds'[0].dir = current' /\ (current' # 0 => wds'[0].vol = "ours")
      BY <2>1, <3>2, <3>5, <3>6 DEF VolInv, TableInv
    <3>9. wds'[0].vol = "ours" => wds'[0].dir = current' \/ ~(Ours \/ dQFSID = "9P")'
      BY <2>1, <2>a, <3>1, <3>2, <3>6 DEF VolInv, TableInv
    <3> QED
      BY <3>3, <3>4, <3>7, <3>8, <3>9 DEF TableInv
  <2>5. DefaultAgrees'
    <3>1. DOMAIN wds' = DOMAIN wds
      BY <2>1
    <3> QED
      BY <2>1, <2>a, <3>1 DEF VolInv, DefaultAgrees
  <2> QED
    BY <2>1, <2>2, <2>3, <2>4, <2>5 DEF VolInv, VolTypeOK
<1>4. CASE OtherIsCurrent
  <2>1. wds' = [wds EXCEPT ![0] = rest9] /\ defVol' = "other"
        /\ UNCHANGED <<vcbs, dQFSID, promised, current>>
    BY <1>4 DEF OtherIsCurrent
  <2> HIDE DEF rest9
  <2>2. wds' \in [0 .. Entries - 1 -> WDs] /\ \A w \in 0 .. Entries - 1 : w # 0 => wds'[w] = wds[w]
    BY <1>1, <2>1, TableFacts DEF VolInv, VolTypeOK
  <2>3. Ours' = Ours /\ wds'[0] = rest9
    BY <2>1, TableFacts DEF Ours, Mounted9, VolInv, VolTypeOK
  <2>4. TableInv'
    BY <1>1, <2>1, <2>2, <2>3, TableFacts DEF VolInv, TableInv
  <2>5. DefaultAgrees'
    BY <2>1 DEF DefaultAgrees
  <2> QED
    BY <2>1, <2>2, <2>3, <2>4, <2>5 DEF VolInv, VolTypeOK, QueueInv, RefsDiffer
<1>5. ASSUME NEW w \in DOMAIN wds, OtherOpens(w) PROVE VolInv'
  <2>1. /\ wds' = [wds EXCEPT ![w] = rest9] /\ w \in Usable /\ wds[w].vol = "none"
        /\ UNCHANGED <<vcbs, defVol, DefVRefNum, dQFSID, promised, current>>
    BY <1>5 DEF OtherOpens
  <2> HIDE DEF rest9
  <2>2. /\ wds' \in [0 .. Entries - 1 -> WDs] /\ wds'[0] = wds[0]
        /\ \A x \in (0 .. Entries - 1) \ {w} : wds'[x] = wds[x]
    BY <1>1, <2>1, TableFacts DEF VolInv, VolTypeOK
  <2>3. promised[w] = 0
    BY <2>1 DEF VolInv, TableInv
  <2>4. Ours' = Ours /\ DOMAIN wds' = DOMAIN wds
    BY <2>1 DEF Ours, Mounted9
  <2>5. TableInv'
    BY <1>1, <2>1, <2>2, <2>3, <2>4, TableFacts DEF VolInv, TableInv
  <2>6. DefaultAgrees'
    BY <2>1, <2>4 DEF VolInv, DefaultAgrees
  <2> QED
    BY <2>1, <2>2, <2>4, <2>5, <2>6 DEF VolInv, VolTypeOK, QueueInv, RefsDiffer
<1> QED
  BY <1>2, <1>3, <1>4, <1>5

LEMMA VolInvStep ==
  ASSUME VolInv, [VolNext]_volVars
  PROVE  VolInv'
<1>1. ASSUME \/ AccRun \/ EventLost \/ UNCHANGED volVars
      PROVE  VolInv'
  <2>1. UNCHANGED <<vcbs, defVol, DefVRefNum, wds, dQFSID, promised, current>>
    BY <1>1 DEF AccRun, EventLost, volVars
  <2> QED
    BY <2>1 DEF VolInv, VolTypeOK, QueueInv, TableInv, RefsDiffer, DefaultAgrees, Ours, Mounted9
<1>2. CASE fsMountVol
  BY <1>2, MountKeeps
<1>3. CASE OtherMounts \/ OtherUnmounts \/ OtherIsCurrent \/ \E w \in DOMAIN wds : OtherOpens(w)
  BY <1>3, OtherVolumeKeeps
<1>4. ASSUME NEW w \in {-1} \cup DOMAIN wds, fsUnmountVol(w) PROVE VolInv'
  BY <1>4, UnmountKeeps
<1>5. ASSUME NEW w \in {-1} \cup DOMAIN wds, SetVol(w) PROVE VolInv'
  <2>1. UNCHANGED <<vcbs, dQFSID, promised>> /\ Ours
    BY <1>5 DEF SetVol
  <2>2. CASE w = -1 /\ current' = 2 /\ \E v \in vcbs : v.vol = "ours" /\ SetCurrent(2, v.ref)
    <3>1. PICK v \in vcbs : v.vol = "ours" /\ SetCurrent(2, v.ref)
      BY <2>2
    <3> QED
      BY <2>1, <2>2, <3>1, CurrentKeeps, TableFacts
  <2>3. CASE /\ w # -1 /\ wds[w].vol = "ours" /\ SetCurrent(wds[w].dir, WDRef(w))
             /\ current' = (IF w \in Usable THEN promised[w] ELSE current)
    <3>1. w \in DOMAIN wds /\ w \in 0 .. Entries - 1
      BY <2>3 DEF VolInv, VolTypeOK
    <3>2. w = 0 \/ w = 1 \/ w \in Usable
      BY <3>1, VolumeAssumption DEF Usable, Skipped
    <3>3. wds[w].dir \in Folders9 \cup {0}
      BY <3>1 DEF VolInv, VolTypeOK, WDs
    <3>4. CASE w \in Usable
      <4>1. current' = wds[w].dir
        BY <2>1, <2>3, <3>4 DEF VolInv, TableInv
      <4> QED
        BY <2>1, <2>3, <3>1, <3>3, <4>1, CurrentKeeps
    <3>5. CASE w = 0
      <4>1. w \notin Usable
        BY <3>5, TableFacts
      <4>2. current' = wds[w].dir
        BY <2>1, <2>3, <3>5, <4>1 DEF VolInv, TableInv
      <4> QED
        BY <2>1, <2>3, <3>1, <3>3, <4>2, CurrentKeeps
    <3>6. CASE w = 1
      BY <2>3, <3>6, TableFacts DEF VolInv, TableInv
    <3> QED
      BY <3>2, <3>4, <3>5, <3>6
  <2> QED
    BY <1>5, <2>2, <2>3 DEF SetVol
<1>6. ASSUME NEW w \in DOMAIN wds, CloseWD(w) PROVE VolInv'
  BY <1>6, CloseWDKeeps
<1>7. ASSUME NEW dir \in Folders9, HSetVol(dir) PROVE VolInv'
  <2>1. PICK v \in vcbs : v.vol = "ours" /\ SetCurrent(dir, v.ref)
    BY <1>7 DEF HSetVol
  <2>2. Ours /\ current' = dir /\ UNCHANGED <<vcbs, dQFSID, promised>>
    BY <1>7, <2>1 DEF HSetVol, Ours, Mounted9
  <2> QED
    BY <2>1, <2>2, CurrentKeeps
<1>8. ASSUME NEW dir \in Folders9, NEW proc \in Procs, OpenWD(dir, proc) PROVE VolInv'
  BY <1>8, OpenWDKeeps
<1> QED
  BY <1>1, <1>2, <1>3, <1>4, <1>5, <1>6, <1>7, <1>8 DEF VolNext

\* The numbers of volumes and of working directories keep their meaning, for
\* any number of directories and table entries (findVol, fsOpenWD, fsCloseWD,
\* fsSetVol, the File Manager on the same table).
THEOREM NumbersAlwaysStand == VolSpec => []NumbersStand
<1>1. VolInv => DirsStand
  <2> SUFFICES ASSUME VolInv PROVE DirsStand
    OBVIOUS
  <2>1. DOMAIN wds = 0 .. Entries - 1
    BY DEF VolInv, VolTypeOK
  <2>2. \A w \in {0} \cup Usable : pbDirID(0, w) = wds[w].dir
    BY <2>1, TableFacts DEF pbDirID
  <2> QED
    BY <2>2 DEF DirsStand, VolInv, TableInv
<1>2. VolInv => NumbersStand
  BY <1>1 DEF VolInv, QueueInv, NumbersStand
<1>3. VolInv /\ [VolNext]_volVars => VolInv'
  BY VolInvStep
<1> QED
  BY <1>2, <1>3, VolInvInit, PTL DEF VolSpec

-----------------------------------------------------------------------------
(***************************************************************************)
(* ExtFS, for any number of drivers and of hooks of other software, put    *)
(* on in any order before and after InitFS.                                *)
(***************************************************************************)

Hooks == {"ours", "other"}
OurPlaces == {k \in DOMAIN ToExtFS : ToExtFS[k] = "ours"}

\* What the steps keep: once a driver has started its hook is there; the hook is
\* the outermost as long as nothing was put on it before InitFS; and before
\* InitFS a patch is there that will save it.
ExtInv ==
  /\ ToExtFS \in Seq(Hooks)
  /\ drives \cup volumes9p # {} => OurPlaces # {}
  /\ called.got = called.for
  /\ \A j, k \in OurPlaces : ~buried => j = k
  /\ ~fileMgr /\ OurPlaces # {} => initFS # <<>>
  /\ ~fileMgr /\ ~buried /\ OurPlaces # {} => Head(ToExtFS) = "ours"

-----------------------------------------------------------------------------
\* A hook put on top of the others (the assignment to ToExtFS in installExtFS)
\* is the outermost, and moves the others down by one.
LEMMA Prepended ==
  ASSUME NEW s \in Seq(Hooks), NEW x \in Hooks
  PROVE  /\ <<x>> \o s \in Seq(Hooks)
         /\ DOMAIN (<<x>> \o s) = 1 .. Len(s) + 1
         /\ (<<x>> \o s)[1] = x
         /\ \A k \in 1 .. Len(s) : (<<x>> \o s)[k + 1] = s[k]
         /\ <<x>> \o s # <<>>
         /\ Head(<<x>> \o s) = x
<1>1. <<x>> \in Seq(Hooks) /\ Len(<<x>>) = 1 /\ <<x>>[1] = x
  OBVIOUS
<1>2. Len(s) \in Nat
  BY LenProperties
<1> DEFINE t == <<x>> \o s
<1>3. /\ t \in Seq(Hooks) /\ Len(t) = 1 + Len(s)
      /\ \A i \in 1 .. 1 + Len(s) : t[i] = IF i <= 1 THEN <<x>>[i] ELSE s[i - 1]
  BY <1>1, ConcatProperties
<1>4. DOMAIN t = 1 .. Len(s) + 1
  BY <1>2, <1>3, LenProperties
<1>5. t[1] = x
  BY <1>1, <1>2, <1>3
<1>6. \A k \in 1 .. Len(s) : t[k + 1] = s[k]
  BY <1>2, <1>3
<1> HIDE DEF t
<1>7. t # <<>> /\ Head(t) = x
  BY <1>2, <1>3, <1>5
<1> QED
  BY <1>3, <1>4, <1>5, <1>6, <1>7 DEF t

\* Whether a call reaches a driver is whether our hook is in the chain.
LEMMA OursThere ==
  ASSUME ToExtFS \in Seq(Hooks)
  PROVE  "ours" \in ToSet(ToExtFS) <=> OurPlaces # {}
  BY DEF ToSet, OurPlaces

LEMMA ExtInvInit == ExtInit => ExtInv
<1> SUFFICES ASSUME ExtInit PROVE ExtInv
  OBVIOUS
<1>1. CASE ToExtFS = <<>>
  BY <1>1 DEF ExtInit, ExtInv, OurPlaces
<1>2. CASE ToExtFS = <<"other">>
  <2>1. ToExtFS \in Seq(Hooks) /\ DOMAIN ToExtFS = {1} /\ ToExtFS[1] = "other"
    BY <1>2 DEF Hooks
  <2>2. OurPlaces = {}
    BY <2>1 DEF OurPlaces
  <2> QED
    BY <2>1, <2>2 DEF ExtInit, ExtInv
<1> QED
  BY <1>1, <1>2 DEF ExtInit

\* Our hook, put on when it is found nowhere, is the only one, on top, and saved.
LEMMA InstallKeeps ==
  ASSUME ExtInv, NEW i \in Instances, Install9(i)
  PROVE  ExtInv'
<1>1. ToExtFS \in Seq(Hooks)
  BY DEF ExtInv
<1>2. CASE AlreadyPatched(i)
  <2>1. OurPlaces # {}
    <3>1. CASE ToExtFS # <<>> /\ Head(ToExtFS) = "ours"
      <4>1. 1 \in DOMAIN ToExtFS /\ ToExtFS[1] = "ours"
        BY <1>1, <3>1
      <4> QED
        BY <4>1 DEF OurPlaces
    <3>2. CASE Probed(i)
      <4>1. CASE "ours" \in ToSet(ToExtFS)
        BY <1>1, <4>1, OursThere
      <4>2. CASE ~("ours" \in ToSet(ToExtFS))
        <5>1. i = "nobody"
          BY <3>2, <4>2 DEF Probed, Reaches
        <5> QED
          BY <5>1, ExtAssumption
      <4> QED
        BY <4>1, <4>2
    <3> QED
      BY <1>2, <3>1, <3>2 DEF AlreadyPatched
  <2>2. UNCHANGED <<ToExtFS, initFS, fileMgr, called, buried>>
    BY <1>2 DEF Install9
  <2> QED
    BY <2>1, <2>2 DEF ExtInv, OurPlaces
<1>3. CASE ~AlreadyPatched(i)
  <2>1. /\ ToExtFS' = <<"ours">> \o ToExtFS
        /\ initFS' = IF fileMgr THEN initFS ELSE <<"saver">> \o initFS
        /\ drives' = drives \cup {i}
        /\ UNCHANGED <<fileMgr, volumes9p, called, buried>>
    BY <1>3 DEF Install9
  <2>2. /\ ToExtFS' \in Seq(Hooks) /\ DOMAIN ToExtFS' = 1 .. Len(ToExtFS) + 1
        /\ ToExtFS'[1] = "ours" /\ Head(ToExtFS') = "ours"
        /\ \A k \in 1 .. Len(ToExtFS) : ToExtFS'[k + 1] = ToExtFS[k]
    BY <1>1, <2>1, Prepended DEF Hooks
  <2>3. Len(ToExtFS) \in Nat /\ DOMAIN ToExtFS = 1 .. Len(ToExtFS)
    BY <1>1, LenProperties
  <2>4. OurPlaces' # {}
    BY <2>2, <2>3 DEF OurPlaces
  <2>5. ~fileMgr => initFS' # <<>>
    BY <2>1
  <2>6. ASSUME ~buried, OurPlaces # {} PROVE FALSE
    <3>1. CASE fileMgr
      <4>1. Probed(i)
        BY <1>1, <2>1, <2>6, <3>1, OursThere DEF Probed, Reaches
      <4> QED
        BY <1>3, <4>1 DEF AlreadyPatched
    <3>2. CASE ~fileMgr
      <4>1. Head(ToExtFS) = "ours"
        BY <2>6, <3>2 DEF ExtInv
      <4>2. ToExtFS # <<>>
        BY <2>6 DEF OurPlaces
      <4> QED
        BY <1>3, <4>1, <4>2 DEF AlreadyPatched
    <3> QED
      BY <3>1, <3>2
  <2>7. ASSUME NEW j \in OurPlaces', ~buried'
        PROVE  j = 1
    <3>1. j \in 1 .. Len(ToExtFS) + 1 /\ ToExtFS'[j] = "ours"
      BY <2>2 DEF OurPlaces
    <3>2. ASSUME j # 1 PROVE FALSE
      <4>1. j - 1 \in 1 .. Len(ToExtFS) /\ (j - 1) + 1 = j
        BY <2>3, <3>1, <3>2
      <4>2. ToExtFS[j - 1] = "ours"
        BY <2>2, <3>1, <4>1
      <4>3. j - 1 \in OurPlaces
        BY <2>3, <4>1, <4>2 DEF OurPlaces
      <4> QED
        BY <2>1, <2>6, <2>7, <4>3
    <3> QED
      BY <3>2
  <2> QED
    BY <2>1, <2>2, <2>4, <2>5, <2>7 DEF ExtInv
<1> QED
  BY <1>2, <1>3

\* A hook of other software does not hide ours, and moves it down.
LEMMA OtherKeeps ==
  ASSUME ExtInv, OtherHook
  PROVE  ExtInv'
<1>1. ToExtFS \in Seq(Hooks) /\ Len(ToExtFS) \in Nat /\ DOMAIN ToExtFS = 1 .. Len(ToExtFS)
  BY LenProperties DEF ExtInv
<1>2. /\ ToExtFS' = <<"other">> \o ToExtFS
      /\ buried' = (buried \/ (~fileMgr /\ "ours" \in ToSet(ToExtFS)))
      /\ UNCHANGED <<initFS, fileMgr, drives, volumes9p, called>>
  BY DEF OtherHook
<1>3. /\ ToExtFS' \in Seq(Hooks) /\ DOMAIN ToExtFS' = 1 .. Len(ToExtFS) + 1
      /\ ToExtFS'[1] = "other"
      /\ \A k \in 1 .. Len(ToExtFS) : ToExtFS'[k + 1] = ToExtFS[k]
  BY <1>1, <1>2, Prepended DEF Hooks
<1>4. ASSUME NEW k \in OurPlaces PROVE k + 1 \in OurPlaces'
  BY <1>1, <1>3 DEF OurPlaces
<1>5. ASSUME NEW j \in OurPlaces' PROVE j - 1 \in OurPlaces /\ j \in Nat
  <2>1. j \in 1 .. Len(ToExtFS) + 1 /\ ToExtFS'[j] = "ours" /\ j # 1
    BY <1>3 DEF OurPlaces
  <2>2. j - 1 \in 1 .. Len(ToExtFS) /\ (j - 1) + 1 = j
    BY <1>1, <2>1
  <2>3. ToExtFS[j - 1] = "ours"
    BY <1>3, <2>1, <2>2
  <2> QED
    BY <1>1, <2>1, <2>2, <2>3 DEF OurPlaces
<1>6. OurPlaces' # {} <=> OurPlaces # {}
  BY <1>4, <1>5
<1>7. ASSUME NEW j \in OurPlaces', NEW k \in OurPlaces', ~buried'
      PROVE  j = k
  <2>1. j - 1 = k - 1 /\ j \in Nat /\ k \in Nat
    BY <1>2, <1>5, <1>7 DEF ExtInv
  <2> QED
    BY <2>1
<1>8. ~fileMgr' /\ OurPlaces' # {} => buried'
  BY <1>1, <1>2, <1>6, OursThere
<1> QED
  BY <1>2, <1>3, <1>6, <1>7, <1>8 DEF ExtInv

\* The File Manager's initialisation finds ToExtFS saved if it is ours.
LEMMA InitFSKeeps ==
  ASSUME ExtInv, InitFS
  PROVE  ExtInv'
<1>1. CASE initFS = <<>>
  <2>1. ToExtFS' = <<>>
    BY <1>1 DEF InitFS, Restored
  <2>2. OurPlaces' = {} /\ OurPlaces = {}
    BY <1>1, <2>1 DEF OurPlaces, ExtInv, InitFS
  <2> QED
    BY <2>1, <2>2 DEF ExtInv, InitFS
<1>2. CASE initFS # <<>>
  <2>1. ToExtFS' = ToExtFS /\ fileMgr' /\ UNCHANGED <<drives, volumes9p, called, buried>>
    BY <1>2 DEF InitFS, Restored
  <2> QED
    BY <2>1 DEF ExtInv, OurPlaces
<1> QED
  BY <1>1, <1>2

LEMMA ExtInvStep ==
  ASSUME ExtInv, [ExtNext]_extVars
  PROVE  ExtInv'
<1>1. CASE OtherHook
  BY <1>1, OtherKeeps
<1>2. CASE InitFS
  BY <1>2, InitFSKeeps
<1>3. ASSUME NEW i \in Instances, Install9(i) PROVE ExtInv'
  BY <1>3, InstallKeeps
<1>4. ASSUME NEW i \in Instances, MountVol(i) PROVE ExtInv'
  <2>1. "ours" \in ToSet(ToExtFS)
    BY <1>4, OursThere DEF MountVol, ExtInv
  <2>2. Reaches(i, drives) = i
    BY <1>4, <2>1 DEF MountVol, Reaches
  <2>3. /\ called'.got = called'.for
        /\ drives' \cup volumes9p' = drives \cup volumes9p
        /\ UNCHANGED <<ToExtFS, initFS, fileMgr, buried>>
    BY <1>4, <2>2 DEF MountVol
  <2> QED
    BY <2>3 DEF ExtInv, OurPlaces
<1>5. ASSUME NEW i \in Instances, VolumeCall(i) PROVE ExtInv'
  <2>1. "ours" \in ToSet(ToExtFS)
    BY <1>5, OursThere DEF VolumeCall, ExtInv
  <2>2. /\ called'.got = called'.for
        /\ UNCHANGED <<ToExtFS, initFS, fileMgr, drives, volumes9p, buried>>
    BY <1>5, <2>1 DEF VolumeCall, Reaches
  <2> QED
    BY <2>2 DEF ExtInv, OurPlaces
<1>6. CASE UNCHANGED extVars
  BY <1>6 DEF extVars, ExtInv, OurPlaces
<1> QED
  BY <1>1, <1>2, <1>3, <1>4, <1>5, <1>6 DEF ExtNext

\* From its start on each call for a drive or volume reaches its driver through
\* one hook, for any number of drivers (installExtFS, InitFS).
THEOREM HookServesAll == ExtSpec => []HookServes
<1>1. ExtInv => CallsReach
  BY OursThere DEF ExtInv, CallsReach
<1>2. ASSUME ExtInv PROVE OneHook
  <2> SUFFICES ASSUME ~buried PROVE Cardinality(OurPlaces) <= 1
    BY DEF OneHook, OurPlaces
  <2>1. CASE OurPlaces = {}
    BY <2>1, FS_EmptySet
  <2>2. CASE OurPlaces # {}
    <3> PICK j \in OurPlaces : TRUE
      BY <2>2
    <3>1. OurPlaces = {j}
      BY <1>2 DEF ExtInv
    <3> QED
      BY <3>1, FS_Singleton
  <2> QED
    BY <2>1, <2>2
<1>3. ExtInv => HookServes
  BY <1>1, <1>2 DEF HookServes
<1>4. ExtInv /\ [ExtNext]_extVars => ExtInv'
  BY ExtInvStep
<1> QED
  BY <1>3, <1>4, ExtInvInit, PTL DEF ExtSpec

-----------------------------------------------------------------------------
(***************************************************************************)
(* Lifecycle, for each driver on each board, and any number of starts.     *)
(***************************************************************************)

Drivers == [kind : Kinds, board : Boards]
HandlerNames == {"handler", "backstop"}
Blocks == {"ring", "own"}

\* What may be registered, for Cleanup to call.
Registrable == {Reset, removeDrive} \cup {RemoveHandler(h) : h \in HandlerNames}
                 \cup {FreePages(b) : b \in Blocks}

Has(undo, f) == \E i \in DOMAIN undo : undo[i] = f
Registered(f) == Has(funcs, f)

\* The steps of this start that have been taken.
Past(name) == \E i \in 1 .. step - 1 : Steps(driver)[i] = name

\* The device is reset before anything is given back that it uses.
ResetsFirst(undo) ==
  \E j \in DOMAIN undo : undo[j] = Reset /\ \A k \in DOMAIN undo : k > j => undo[k] = removeDrive

LifeTypeOK ==
  /\ life \in {"stopped", "starting", "started", "undoing"}
  /\ driver \in Drivers \cup {None} /\ (life # "stopped" => driver \in Drivers)
  /\ funcs \in Seq(Registrable)
  /\ pages \subseteq Blocks /\ handlers \subseteq HandlerNames
  /\ ready \in BOOLEAN /\ drive \in BOOLEAN /\ mounted \in BOOLEAN /\ vcbVRefNum \in BOOLEAN
  /\ life \in {"starting", "started"} =>
       /\ step \in 1 .. Len(Steps(driver)) + 1
       /\ (life = "started") <=> (step = Len(Steps(driver)) + 1)

\* What there is to give back is registered, and a stopped driver has nothing.
AllRegistered ==
  /\ \A b \in pages : Registered(FreePages(b))
  /\ \A h \in handlers : Registered(RemoveHandler(h))
  /\ drive => Registered(removeDrive)
  /\ ready \/ status \in {"known", "agreed", "running"} => Registered(Reset)
  /\ life = "stopped" => funcs = <<>>

\* What a start has got to.
StartedSoFar ==
  life \in {"starting", "started"} =>
    /\ \A h \in HandlerNames : Past(h) <=> h \in handlers
    /\ Past("acknowledge") => Registered(Reset)
    /\ Past("AllocPages") => "own" \in pages
    /\ Past("QInit") => "ring" \in pages /\ ResetsFirst(funcs)
    /\ ready => Past("QInit")
    /\ status = "running" => Past("VDriverOK")

\* There are the handlers and the pages that a running device needs.
NeedsMet ==
  /\ handlers = Handlers(driver)
  /\ ready => "ring" \in pages /\ (driver.kind # "9p" => "own" \in pages)

\* The device runs until it is reset, with all that it needs.
RunsTillReset ==
  life = "undoing" /\ status = "running" => NeedsMet /\ ResetsFirst(funcs)

VolumeInv ==
  /\ drive \/ mounted => life # "stopped" /\ driver.kind \in {"9p", "block"}
  /\ mounted => life = "started" /\ (driver.kind = "9p" => vcbVRefNum)

LifeInv == LifeTypeOK /\ AllRegistered /\ StartedSoFar /\ RunsTillReset /\ VolumeInv

\* The pages that FreePages leaves locked on this board.
LeftLocked == IF driver.board = "mmio" THEN PagesOf("ring") \ {<<"ring", 0>>} ELSE {}

\* Pages are locked as long as they are there, and no others are but those.
LockInv ==
  /\ \A b \in pages : PagesOf(b) \subseteq locked
  /\ \A p \in locked : p \in LeftLocked \/ \E b \in pages : p \in PagesOf(b)

StepNames == {"capabilities", "VReset", "acknowledge", "version1", "handler", "backstop",
              "VFeaturesOK", "VDriverOK", "QInit", "Attach9", "MFInit", "installDrive",
              "AllocPages", "probe", "reQueue"}

\* The five steps of VInit on each board.
LEMMA VInitIs ==
  ASSUME NEW board \in Boards
  PROVE  /\ VInit(board) \in Seq(StepNames) /\ Len(VInit(board)) = 5
         /\ VInit(board)[1] = IF board = "mmio" THEN "VReset" ELSE "capabilities"
         /\ VInit(board)[2] = IF board = "mmio" THEN "acknowledge" ELSE "VReset"
         /\ VInit(board)[3] = IF board = "mmio" THEN "version1" ELSE "acknowledge"
         /\ VInit(board)[4] = IF board = "mmio" THEN "handler" ELSE "version1"
         /\ VInit(board)[5] = IF board = "mmio" THEN "backstop" ELSE "handler"
<1>1. CASE board = "mmio"
  BY <1>1 DEF VInit, StepNames
<1>2. CASE board = "pci"
  BY <1>2 DEF VInit, StepNames
<1> QED
  BY <1>1, <1>2 DEF Boards

\* The steps of each kind of driver after VInit.
LEMMA RestIs ==
  ASSUME NEW kind \in Kinds
  PROVE  /\ Rest(kind) \in Seq(StepNames) /\ Len(Rest(kind)) = IF kind = "input" THEN 5 ELSE 6
         /\ Rest(kind)[1] = IF kind = "input" THEN "AllocPages" ELSE "VFeaturesOK"
         /\ Rest(kind)[2] = CASE kind = "9p" -> "VDriverOK" [] kind = "block" -> "AllocPages" [] kind = "input" -> "VFeaturesOK"
         /\ Rest(kind)[3] = IF kind = "9p" THEN "QInit" ELSE "VDriverOK"
         /\ Rest(kind)[4] = IF kind = "9p" THEN "Attach9" ELSE "QInit"
         /\ Rest(kind)[5] = CASE kind = "9p" -> "MFInit" [] kind = "block" -> "probe" [] kind = "input" -> "reQueue"
         /\ kind # "input" => Rest(kind)[6] = "installDrive"
<1>1. CASE kind = "9p"
  BY <1>1 DEF Rest, StepNames
<1>2. CASE kind = "block"
  BY <1>2 DEF Rest, StepNames
<1>3. CASE kind = "input"
  BY <1>3 DEF Rest, StepNames
<1> QED
  BY <1>1, <1>2, <1>3 DEF Kinds

\* The steps of a start are those of VInit and then those of the driver.
LEMMA StepsAre ==
  ASSUME NEW d \in Drivers
  PROVE  /\ Steps(d) \in Seq(StepNames)
         /\ Len(Steps(d)) = 5 + Len(Rest(d.kind))
         /\ \A i \in 1 .. 5 : Steps(d)[i] = VInit(d.board)[i]
         /\ \A i \in 6 .. Len(Steps(d)) : Steps(d)[i] = Rest(d.kind)[i - 5]
<1>1. d.board \in Boards /\ d.kind \in Kinds
  BY DEF Drivers
<1> DEFINE v == VInit(d.board)
           r == Rest(d.kind)
<1>2. v \in Seq(StepNames) /\ Len(v) = 5 /\ r \in Seq(StepNames) /\ Len(r) \in Nat
  BY <1>1, VInitIs, RestIs
<1>3. Steps(d) = v \o r
  BY DEF Steps
<1> HIDE DEF v, r
<1>4. /\ v \o r \in Seq(StepNames) /\ Len(v \o r) = Len(v) + Len(r)
      /\ \A i \in 1 .. Len(v) + Len(r) : (v \o r)[i] = IF i <= Len(v) THEN v[i] ELSE r[i - Len(v)]
  BY <1>2, ConcatProperties
<1>5. /\ Steps(d) \in Seq(StepNames)
      /\ Len(Steps(d)) = 5 + Len(r)
      /\ \A i \in 1 .. 5 : Steps(d)[i] = v[i]
      /\ \A i \in 6 .. Len(Steps(d)) : Steps(d)[i] = r[i - 5]
  BY <1>2, <1>3, <1>4
<1> QED
  BY <1>5 DEF v, r

\* One step of a start comes before another, if there is the other.
Before(d, a, b) ==
  \A i \in 1 .. Len(Steps(d)) : Steps(d)[i] = b => \E j \in 1 .. i - 1 : Steps(d)[j] = a

\* What the orders of DriverStart in the three drivers have in common: each step
\* comes after those it counts on, QInit once, and what is taken outside the
\* ring before it.
LEMMA StepsInOrder ==
  ASSUME NEW d \in Drivers
  PROVE  /\ Before(d, "acknowledge", "VFeaturesOK") /\ Before(d, "acknowledge", "VDriverOK")
         /\ Before(d, "handler", "VDriverOK")
         /\ d.board = "mmio" => Before(d, "backstop", "VDriverOK")
         /\ d.kind # "9p" => Before(d, "AllocPages", "VDriverOK")
         /\ Before(d, "QInit", "MFInit")
         /\ Before(d, "QInit", "installDrive")
         /\ Before(d, "VDriverOK", "QInit")
         /\ \E i \in 1 .. Len(Steps(d)) : Steps(d)[i] = "QInit"
         /\ \A i, j \in 1 .. Len(Steps(d)) :
              Steps(d)[i] \in {"acknowledge", "handler", "backstop", "AllocPages"} /\ Steps(d)[j] = "QInit"
                => i < j
         /\ \A i, j \in 1 .. Len(Steps(d)) : Steps(d)[i] = "QInit" /\ Steps(d)[j] = "QInit" => i = j
         /\ \A i \in 1 .. Len(Steps(d)) :
              /\ Steps(d)[i] = "installDrive" => d.kind # "input"
              /\ Steps(d)[i] = "backstop" => d.board = "mmio"
<1> DEFINE S == Steps(d)
<1>1. d.board \in Boards /\ d.kind \in Kinds
  BY DEF Drivers
<1>2. /\ Len(S) = 5 + Len(Rest(d.kind))
      /\ \A i \in 1 .. 5 : S[i] = VInit(d.board)[i]
      /\ \A i \in 6 .. Len(S) : S[i] = Rest(d.kind)[i - 5]
  BY StepsAre
<1>b. Len(S) = IF d.kind = "input" THEN 10 ELSE 11
  BY <1>1, <1>2, RestIs
<1>c. \A i \in 1 .. 5 : S[i] = VInit(d.board)[i]
  BY <1>2
<1>d. \A i \in 1 .. 5 : i + 5 <= Len(S) => S[i + 5] = Rest(d.kind)[i]
  BY <1>2
<1>e. Len(S) = 11 => S[11] = Rest(d.kind)[6]
  <2>1. Len(S) = 11 => S[11] = Rest(d.kind)[11 - 5]
    BY <1>2, 11 \in 6 .. 11
  <2> QED
    BY <2>1
<1> HIDE DEF S
<1>a. /\ S[1] = VInit(d.board)[1] /\ S[2] = VInit(d.board)[2] /\ S[3] = VInit(d.board)[3]
      /\ S[4] = VInit(d.board)[4] /\ S[5] = VInit(d.board)[5]
      /\ S[6] = Rest(d.kind)[1] /\ S[7] = Rest(d.kind)[2] /\ S[8] = Rest(d.kind)[3]
      /\ S[9] = Rest(d.kind)[4] /\ S[10] = Rest(d.kind)[5] 
      /\ d.kind # "input" => S[11] = Rest(d.kind)[6]
  BY <1>b, <1>c, <1>d, <1>e
<1>3. /\ d.board = "mmio" =>
           /\ S[1] = "VReset" /\ S[2] = "acknowledge" /\ S[3] = "version1"
           /\ S[4] = "handler" /\ S[5] = "backstop"
      /\ d.board = "pci" =>
           /\ S[1] = "capabilities" /\ S[2] = "VReset" /\ S[3] = "acknowledge"
           /\ S[4] = "version1" /\ S[5] = "handler"
  BY <1>1, <1>a, VInitIs
<1>4. /\ d.kind = "9p" =>
           /\ S[6] = "VFeaturesOK" /\ S[7] = "VDriverOK" /\ S[8] = "QInit" /\ S[9] = "Attach9"
           /\ S[10] = "MFInit" /\ S[11] = "installDrive" /\ Len(S) = 11
      /\ d.kind = "block" =>
           /\ S[6] = "VFeaturesOK" /\ S[7] = "AllocPages" /\ S[8] = "VDriverOK" /\ S[9] = "QInit"
           /\ S[10] = "probe" /\ S[11] = "installDrive" /\ Len(S) = 11
      /\ d.kind = "input" =>
           /\ S[6] = "AllocPages" /\ S[7] = "VFeaturesOK" /\ S[8] = "VDriverOK"
           /\ S[9] = "QInit" /\ S[10] = "reQueue" /\ Len(S) = 10
  BY <1>1, <1>a, <1>b, RestIs
<1>5. Len(S) \in 10 .. 11
  BY <1>b
<1>f. ASSUME NEW n \in 10 .. 11, NEW i \in 1 .. n PROVE i \in {1, 2, 3, 4, 5, 6, 7, 8, 9, 10, 11}
  OBVIOUS
<1>6. \A i \in 1 .. Len(S) : i \in {1, 2, 3, 4, 5, 6, 7, 8, 9, 10, 11}
  BY <1>5, <1>f
<1>7. d.board \in {"mmio", "pci"} /\ d.kind \in {"9p", "block", "input"}
  BY <1>1 DEF Boards, Kinds
<1>8. \A i \in 1 .. Len(S) : i <= 5 => S[i] \in {"VReset", "acknowledge", "version1", "handler", "backstop", "capabilities"}
  BY <1>3, <1>6, <1>7
<1>9. \A i \in 1 .. Len(S) : i > 5 =>
       S[i] \in {"VFeaturesOK", "VDriverOK", "QInit", "Attach9", "MFInit", "installDrive", "AllocPages", "probe", "reQueue"}
  BY <1>4, <1>6, <1>7, <1>5
<1>11. Before(d, "acknowledge", "VFeaturesOK") /\ Before(d, "acknowledge", "VDriverOK") 
  <2>1. ASSUME NEW i \in 1 .. Len(S), i > 5 PROVE \E j \in 1 .. i - 1 : S[j] = "acknowledge"
    BY <1>3, <1>7, <2>1, 2 \in 1 .. i - 1, 3 \in 1 .. i - 1
  <2> QED
    BY <2>1, <1>8 DEF Before, S
<1>12. Before(d, "handler", "VDriverOK")
  <2>1. ASSUME NEW i \in 1 .. Len(S), i > 5 PROVE \E j \in 1 .. i - 1 : S[j] = "handler"
    BY <1>3, <1>7, <2>1, 4 \in 1 .. i - 1, 5 \in 1 .. i - 1
  <2> QED
    BY <2>1, <1>8 DEF Before, S
<1>13. ASSUME d.board = "mmio" PROVE Before(d, "backstop", "VDriverOK")
  <2>1. ASSUME NEW i \in 1 .. Len(S), i > 5 PROVE \E j \in 1 .. i - 1 : S[j] = "backstop"
    BY <1>3, <1>13, <2>1, 5 \in 1 .. i - 1
  <2> QED
    BY <2>1, <1>8 DEF Before, S
<1>14. ASSUME d.kind # "9p" PROVE Before(d, "AllocPages", "VDriverOK")
  <2>1. ASSUME NEW i \in 1 .. Len(S), S[i] = "VDriverOK" PROVE i = 8
    <3>1. i \in {6, 7, 8, 9, 10, 11}
      BY <1>6, <1>8, <2>1
    <3>2. CASE d.kind = "block"
      BY <3>1, <3>2, <1>4, <2>1
    <3>3. CASE d.kind = "input"
      <4>a. Len(S) = 10
        BY <3>3, <1>4
      <4>b. i \in 1 .. 10
        BY <4>a
      <4>1. i # 11
        BY <4>b
      <4>2. i \in {6, 7, 8, 9, 10}
        BY <3>1, <4>1
      <4> QED
        BY <4>2, <3>3, <1>4, <2>1
    <3> QED
      BY <3>2, <3>3, <1>7, <1>14
  <2> QED
    BY <2>1, <1>4, <1>7, <1>14, 6 \in 1 .. 8 - 1, 7 \in 1 .. 8 - 1 DEF Before, S
<1>15. Before(d, "QInit", "MFInit") /\ Before(d, "QInit", "installDrive")
  <2>1. ASSUME NEW i \in 1 .. Len(S), S[i] \in {"MFInit", "installDrive"} PROVE i > 9 /\ d.kind # "input"
    <3>1. i \in {6, 7, 8, 9, 10, 11}
      BY <1>6, <1>8, <2>1
    <3>2. CASE d.kind = "block"
      BY <3>1, <3>2, <1>4, <2>1
    <3>3. CASE d.kind = "input"
      <4>a. Len(S) = 10
        BY <3>3, <1>4
      <4>b. i \in 1 .. 10
        BY <4>a
      <4>1. i # 11
        BY <4>b
      <4>2. i \in {6, 7, 8, 9, 10}
        BY <3>1, <4>1
      <4> QED
        BY <4>2, <3>3, <1>4, <2>1
    <3>4. CASE d.kind = "9p"
      BY <3>1, <3>4, <1>4, <2>1
    <3> QED
      BY <3>2, <3>3, <3>4, <1>7
  <2>2. ASSUME NEW i \in 1 .. Len(S), S[i] \in {"MFInit", "installDrive"} PROVE \E j \in 1 .. i - 1 : S[j] = "QInit"
    BY <2>1, <2>2, <1>4, <1>7, 8 \in 1 .. i - 1, 9 \in 1 .. i - 1
  <2> QED
    BY <2>2 DEF Before, S
<1>16. \A i \in 1 .. Len(S) : S[i] = "QInit" => i = IF d.kind = "9p" THEN 8 ELSE 9
  BY <1>4, <1>7, <1>6, <1>8
<1>17. Before(d, "VDriverOK", "QInit")
  BY <1>16, <1>4, <1>7, 7 \in 1 .. 8 - 1, 8 \in 1 .. 9 - 1 DEF Before, S
<1>18. \E i \in 1 .. Len(S) : S[i] = "QInit"
  BY <1>4, <1>7, <1>5, 8 \in 1 .. Len(S), 9 \in 1 .. Len(S)
<1>19. ASSUME NEW i \in 1 .. Len(S), S[i] \in {"acknowledge", "handler", "backstop", "AllocPages"}
       PROVE  i < 8
  BY <1>19, <1>4, <1>7, <1>6
<1>20. ASSUME NEW i \in 1 .. Len(S), NEW j \in 1 .. Len(S),
              S[i] \in {"acknowledge", "handler", "backstop", "AllocPages"}, S[j] = "QInit"
       PROVE  i < j
  BY <1>19, <1>16, <1>20
<1>21. ASSUME NEW i \in 1 .. Len(S)
       PROVE  /\ S[i] = "installDrive" => d.kind # "input"
              /\ S[i] = "backstop" => d.board = "mmio"
  <2>1. S[i] = "installDrive" => i \in {6, 7, 8, 9, 10, 11}
    BY <1>6, <1>8
  <2>2. S[i] = "installDrive" => d.kind # "input"
    BY <2>1, <1>4
  <2>3. S[i] = "backstop" => i \in {1, 2, 3, 4, 5}
    BY <1>6, <1>9
  <2>4. S[i] = "backstop" => d.board # "pci"
    BY <2>3, <1>3
  <2> QED
    BY <2>2, <2>4, <1>7
<1> QED
  BY <1>16, <1>11, <1>12, <1>13, <1>14, <1>15, <1>17, <1>18, <1>20, <1>21 DEF S

\* A call is registered when it was, or is one of those that RegisterCleanup now
\* adds.
LEMMA Appended ==
  ASSUME NEW T, NEW s \in Seq(T), NEW r \in Seq(T)
  PROVE  /\ s \o r \in Seq(T)
         /\ \A f : Has(s, f) \/ Has(r, f) => Has(s \o r, f)
<1>1. /\ s \o r \in Seq(T) /\ Len(s \o r) = Len(s) + Len(r)
      /\ \A i \in 1 .. Len(s) + Len(r) : (s \o r)[i] = IF i <= Len(s) THEN s[i] ELSE r[i - Len(s)]
  BY ConcatProperties
<1>2. /\ DOMAIN s = 1 .. Len(s) /\ DOMAIN r = 1 .. Len(r) /\ Len(s) \in Nat /\ Len(r) \in Nat
      /\ DOMAIN (s \o r) = 1 .. Len(s) + Len(r)
  BY <1>1, LenProperties
<1>3. ASSUME NEW i \in DOMAIN s PROVE i \in DOMAIN (s \o r) /\ (s \o r)[i] = s[i]
  BY <1>1, <1>2
<1>4. ASSUME NEW i \in DOMAIN r PROVE i + Len(s) \in DOMAIN (s \o r) /\ (s \o r)[i + Len(s)] = r[i]
  BY <1>1, <1>2
<1> QED
  BY <1>1, <1>3, <1>4 DEF Has

\* Registering more leaves the reset above what the device uses, if that is only
\* the removal of the drive.
LEMMA ResetsFirstKept ==
  ASSUME NEW T, NEW s \in Seq(T), NEW r \in Seq(T)
  PROVE  /\ r # <<>> /\ r[Len(r)] = Reset => ResetsFirst(s \o r)
         /\ ResetsFirst(s) /\ (\A k \in DOMAIN r : r[k] = removeDrive) => ResetsFirst(s \o r)
<1>1. /\ s \o r \in Seq(T) /\ Len(s \o r) = Len(s) + Len(r)
      /\ \A i \in 1 .. Len(s) + Len(r) : (s \o r)[i] = IF i <= Len(s) THEN s[i] ELSE r[i - Len(s)]
  BY ConcatProperties
<1>2. /\ DOMAIN s = 1 .. Len(s) /\ DOMAIN r = 1 .. Len(r) /\ Len(s) \in Nat /\ Len(r) \in Nat
      /\ DOMAIN (s \o r) = 1 .. Len(s) + Len(r)
      /\ r # <<>> => Len(r) > 0
  BY <1>1, LenProperties, EmptySeq
<1>3. ASSUME r # <<>>, r[Len(r)] = Reset PROVE ResetsFirst(s \o r)
  <2>1. Len(s) + Len(r) \in DOMAIN (s \o r) /\ (s \o r)[Len(s) + Len(r)] = Reset
    BY <1>1, <1>2, <1>3
  <2>2. \A k \in DOMAIN (s \o r) : ~ (k > Len(s) + Len(r))
    BY <1>2
  <2> QED
    BY <2>1, <2>2 DEF ResetsFirst
<1>4. ASSUME ResetsFirst(s), \A k \in DOMAIN r : r[k] = removeDrive PROVE ResetsFirst(s \o r)
  <2>1. PICK j \in DOMAIN s : s[j] = Reset /\ \A k \in DOMAIN s : k > j => s[k] = removeDrive
    BY <1>4 DEF ResetsFirst
  <2>2. j \in DOMAIN (s \o r) /\ (s \o r)[j] = Reset
    BY <1>1, <1>2, <2>1
  <2>3. ASSUME NEW k \in DOMAIN (s \o r), k > j PROVE (s \o r)[k] = removeDrive
    <3>1. CASE k <= Len(s)
      BY <3>1, <1>1, <1>2, <2>1, <2>3
    <3>2. CASE k > Len(s)
      <4>1. k - Len(s) \in DOMAIN r /\ (s \o r)[k] = r[k - Len(s)]
        BY <3>2, <1>1, <1>2
      <4> QED
        BY <4>1, <1>4
    <3> QED
      BY <3>1, <3>2, <1>2
  <2> QED
    BY <2>2, <2>3 DEF ResetsFirst
<1> QED
  BY <1>3, <1>4

\* A step that is done is behind, and so are those that were.
LEMMA DonePast ==
  ASSUME LifeTypeOK, life \in {"starting", "started"}, driver' = driver, step' = step + 1
  PROVE  \A n : Past(n)' <=> (Past(n) \/ Steps(driver)[step] = n)
<1>1. step \in Nat /\ step >= 1
  <2>1. step \in 1 .. Len(Steps(driver)) + 1
    BY DEF LifeTypeOK
  <2> QED
    BY <2>1
<1>2. \A i : i \in 1 .. (step + 1) - 1 <=> (i \in 1 .. step - 1 \/ i = step)
  BY <1>1
<1> QED
  BY <1>2 DEF Past

\* While the device runs, what it needs was taken by an earlier step.
LEMMA HarmlessSoFar ==
  ASSUME LifeInv, life \in {"starting", "started"}
  PROVE  status = "running" => NeedsMet
<1> SUFFICES ASSUME status = "running"
             PROVE  NeedsMet
  OBVIOUS
<1>1. driver \in Drivers /\ Past("VDriverOK") /\ step \in 1 .. Len(Steps(driver)) + 1
  BY DEF LifeInv, LifeTypeOK, StartedSoFar
<1>a. Len(Steps(driver)) \in Nat
  BY <1>1, StepsAre, LenProperties
<1>2. PICK i \in 1 .. step - 1 : Steps(driver)[i] = "VDriverOK"
  BY <1>1 DEF Past
<1>3. i \in 1 .. Len(Steps(driver)) /\ \A j \in 1 .. i - 1 : j \in 1 .. step - 1
  BY <1>1, <1>a
<1>4. \A a : Before(driver, a, "VDriverOK") => Past(a)
  BY <1>2, <1>3 DEF Before, Past
<1>5. /\ Past("handler")
      /\ driver.board = "mmio" => Past("backstop")
      /\ driver.kind # "9p" => Past("AllocPages")
  BY <1>1, <1>4, StepsInOrder
<1>6. Past("backstop") => driver.board = "mmio"
  <2>1. ASSUME NEW k \in 1 .. step - 1 PROVE k \in 1 .. Len(Steps(driver))
    BY <1>1, <1>a
  <2> QED
    BY <2>1, <1>1, StepsInOrder DEF Past
<1>7. handlers = Handlers(driver)
  BY <1>5, <1>6 DEF LifeInv, LifeTypeOK, StartedSoFar, HandlerNames, Handlers
<1> QED
  BY <1>5, <1>7 DEF LifeInv, StartedSoFar, NeedsMet

\* The invariant implies that the device is harmless, that a stopped driver has
\* left nothing and that a mounted volume keeps its driver.
LEMMA InvIsSafe == LifeInv /\ LockInv => DriverSafe
<1> SUFFICES ASSUME LifeInv, LockInv PROVE DriverSafe
  OBVIOUS
<1>1. ASSUME life = "stopped" PROVE \A f : ~Registered(f)
  BY <1>1 DEF LifeInv, AllRegistered, Registered, Has
<1>2. NothingLeft
  <2> SUFFICES ASSUME life = "stopped" PROVE NothingLeft
    BY DEF NothingLeft
  <2>1. /\ funcs = <<>> /\ pages = {} /\ handlers = {} /\ ~drive /\ ~ready
        /\ status \notin {"known", "agreed", "running"}
    BY <1>1 DEF LifeInv, AllRegistered
  <2>2. locked \subseteq LeftLocked
    BY <2>1 DEF LockInv
  <2> QED
    BY <2>1, <2>2 DEF NothingLeft, LeftLocked
<1>3. DeviceHarmless
  <2>1. CASE life \in {"starting", "started"}
    BY <2>1, HarmlessSoFar DEF NeedsMet, DeviceHarmless, LockInv
  <2>2. CASE life = "undoing"
    BY <2>2 DEF LifeInv, RunsTillReset, NeedsMet, DeviceHarmless, LockInv
  <2>3. CASE life = "stopped"
    BY <2>3, <1>2 DEF NothingLeft, DeviceHarmless
  <2> QED
    BY <2>1, <2>2, <2>3 DEF LifeInv, LifeTypeOK
<1>4. MountedStays
  BY DEF LifeInv, VolumeInv, MountedStays
<1> QED
  BY <1>2, <1>3, <1>4 DEF DriverSafe

\* Before the first start nothing is registered.
LEMMA InitHolds == LifeInit => LifeInv /\ LockInv
<1> SUFFICES ASSUME LifeInit PROVE LifeInv /\ LockInv
  OBVIOUS
<1> USE DEF LifeInit
<1>1. LifeTypeOK
  BY EmptySeq DEF LifeTypeOK, None
<1>2. AllRegistered /\ StartedSoFar /\ RunsTillReset /\ VolumeInv
  BY DEF AllRegistered, StartedSoFar, RunsTillReset, VolumeInv
<1> QED
  BY <1>1, <1>2 DEF LifeInv, LockInv

\* A start that is at a step has not got to the end.
LEMMA StepIsOne ==
  ASSUME NEW d \in Drivers
  PROVE  Len(Steps(d)) \in Nat /\ 1 \in 1 .. Len(Steps(d)) + 1 /\ 1 # Len(Steps(d)) + 1
<1>1. Len(Steps(d)) \in Nat /\ (\E i \in 1 .. Len(Steps(d)) : Steps(d)[i] = "QInit")
  BY StepsInOrder, StepsAre, LenProperties
<1> QED
  BY <1>1

\* A start begins with nothing taken.
LEMMA DriverStartKeeps ==
  ASSUME LifeInv, NEW d \in Drivers, DriverStart(d)
  PROVE  LifeInv'
<1> USE DEF DriverStart
<1>1. LifeTypeOK'
  BY StepIsOne DEF LifeInv, LifeTypeOK
<1>2. AllRegistered'
  BY DEF LifeInv, AllRegistered, Registered
<1>3. \A f : ~Registered(f)
  BY DEF LifeInv, AllRegistered, Registered, Has
<1>4. StartedSoFar'
  BY <1>3 DEF LifeInv, AllRegistered, StartedSoFar, Past, Registered
<1>5. RunsTillReset' /\ VolumeInv'
  BY <1>3 DEF LifeInv, AllRegistered, RunsTillReset, VolumeInv
<1> QED
  BY <1>1, <1>2, <1>4, <1>5 DEF LifeInv

\* After a step that is done the start is at the next one, or over.
LEMMA NextStep ==
  ASSUME LifeInv, life = "starting"
  PROVE  /\ driver \in Drivers /\ step \in 1 .. Len(Steps(driver))
         /\ Len(Steps(driver)) \in Nat /\ step \in Nat
<1>1. driver \in Drivers /\ step \in 1 .. Len(Steps(driver)) + 1 /\ step # Len(Steps(driver)) + 1
  BY DEF LifeInv, LifeTypeOK
<1>2. Len(Steps(driver)) \in Nat
  BY <1>1, StepIsOne
<1> QED
  BY <1>1, <1>2

\* A step of a start that is done, if it registers what it takes.
LEMMA DoneKeeps ==
  ASSUME LifeInv, life = "starting", NEW r \in Seq(Registrable), Done(r),
         pages \subseteq pages', pages' \subseteq Blocks,
         ready' \in BOOLEAN, drive' \in BOOLEAN,
         \A b \in pages' : b \in pages \/ Has(r, FreePages(b)),
         \A h \in handlers' : h \in handlers \/ Has(r, RemoveHandler(h)),
         handlers' = handlers \cup {h \in HandlerNames : At(h)},
         drive' => drive \/ (Has(r, removeDrive) /\ At("installDrive")),
         ready' => ready \/ At("QInit"),
         status' \in {"known", "agreed", "running"} =>
           status' = status \/ Past("acknowledge") \/ Has(r, Reset),
         At("acknowledge") => Has(r, Reset),
         At("AllocPages") => "own" \in pages',
         At("QInit") => "ring" \in pages' /\ r # <<>> /\ r[Len(r)] = Reset,
         Past("QInit") => \A k \in DOMAIN r : r[k] = removeDrive,
         status' = "running" => status = "running" \/ At("VDriverOK")
  PROVE  LifeInv'
<1>a. driver \in Drivers /\ step \in 1 .. Len(Steps(driver)) /\ Len(Steps(driver)) \in Nat /\ step \in Nat
  BY NextStep
<1>b. /\ funcs' = funcs \o r /\ step' = step + 1 /\ driver' = driver
      /\ life' = IF step = Len(Steps(driver)) THEN "started" ELSE "starting"
      /\ mounted' = mounted /\ vcbVRefNum' = vcbVRefNum
  BY DEF Done, Others
<1>c. \A f : Registered(f) \/ Has(r, f) => Registered(f)'
  BY <1>b, Appended DEF LifeInv, LifeTypeOK, Registered
<1>d. \A n : Past(n)' <=> (Past(n) \/ At(n))
  BY <1>b, DonePast DEF LifeInv, At
<1>e. At("QInit") => Has(r, Reset)
  <2>1. r # <<>> => Len(r) \in DOMAIN r
    BY EmptySeq, LenProperties
  <2> QED
    BY <2>1 DEF Has
<1>1. LifeTypeOK'
  <2>1. funcs' \in Seq(Registrable)
    BY <1>b, Appended DEF LifeInv, LifeTypeOK
  <2>2. handlers' \subseteq HandlerNames
    BY DEF LifeInv, LifeTypeOK
  <2>3. step' \in 1 .. Len(Steps(driver')) + 1 /\ (step' = Len(Steps(driver')) + 1 <=> step = Len(Steps(driver)))
    BY <1>a, <1>b
  <2> QED
    BY <2>1, <2>2, <2>3, <1>a, <1>b DEF LifeInv, LifeTypeOK
<1>2. AllRegistered'
  <2>1. Past("acknowledge") => Registered(Reset)
    BY DEF LifeInv, StartedSoFar
  <2>2. /\ \A b \in pages' : Registered(FreePages(b))'
        /\ \A h \in handlers' : Registered(RemoveHandler(h))'
        /\ drive' => Registered(removeDrive)'
    BY <1>c DEF LifeInv, AllRegistered
  <2>3. ready' => Registered(Reset)'
    BY <1>c, <1>e DEF LifeInv, AllRegistered
  <2>4. status' \in {"known", "agreed", "running"} => Registered(Reset)'
    BY <1>c, <2>1 DEF LifeInv, AllRegistered
  <2> QED
    BY <2>2, <2>3, <2>4, <1>b DEF AllRegistered
<1>3. StartedSoFar'
  <2>1. \A h \in HandlerNames : Past(h)' <=> h \in handlers'
    BY <1>d DEF LifeInv, StartedSoFar
  <2>2. Past("acknowledge")' => Registered(Reset)'
    BY <1>c, <1>d DEF LifeInv, StartedSoFar
  <2>3. Past("AllocPages")' => "own" \in pages'
    BY <1>d DEF LifeInv, StartedSoFar
  <2>4. Past("QInit")' => "ring" \in pages'
    BY <1>d DEF LifeInv, StartedSoFar
  <2>5. Past("QInit")' => ResetsFirst(funcs)'
    <3>1. CASE At("QInit")
      BY <3>1, <1>b, ResetsFirstKept DEF LifeInv, LifeTypeOK
    <3>2. CASE Past("QInit")
      BY <3>2, <1>b, ResetsFirstKept DEF LifeInv, LifeTypeOK, StartedSoFar
    <3> QED
      BY <3>1, <3>2, <1>d
  <2>6. (ready' => Past("QInit")') /\ (status' = "running" => Past("VDriverOK")')
    BY <1>d DEF LifeInv, StartedSoFar
  <2> QED
    BY <2>1, <2>2, <2>3, <2>4, <2>5, <2>6 DEF StartedSoFar
<1>4. RunsTillReset'
  BY <1>b DEF RunsTillReset
<1>5. VolumeInv'
  <2>1. At("installDrive") => driver.kind \in {"9p", "block"}
    BY <1>a, StepsInOrder DEF At, Drivers, Kinds
  <2> QED
    BY <2>1, <1>b DEF LifeInv, VolumeInv
<1> QED
  BY <1>1, <1>2, <1>3, <1>4, <1>5 DEF LifeInv

\* A step that is refused leaves a device that has failed, or one that will be
\* reset before anything is given back.
LEMMA RefuseKeeps ==
  ASSUME LifeInv, life = "starting", NEW fail \in BOOLEAN, Refuse(fail), fail \/ Past("QInit")
  PROVE  LifeInv'
<1>b. /\ life' = "undoing" /\ driver' = driver /\ mounted' = mounted /\ vcbVRefNum' = vcbVRefNum
      /\ funcs' = funcs /\ ready' = ready /\ pages' = pages /\ handlers' = handlers /\ drive' = drive
      /\ status' \in {status, "failed"}
      /\ status' = "running" => status = "running" /\ ~fail
  BY DEF Refuse, Others
<1>1. LifeTypeOK'
  BY <1>b DEF LifeInv, LifeTypeOK
<1>2. AllRegistered'
  BY <1>b DEF LifeInv, AllRegistered, Registered
<1>3. StartedSoFar' /\ VolumeInv'
  BY <1>b DEF LifeInv, StartedSoFar, VolumeInv
<1>4. RunsTillReset'
  <2>1. status' = "running" => NeedsMet'
    BY <1>b, HarmlessSoFar DEF NeedsMet
  <2>2. status' = "running" => ResetsFirst(funcs)'
    BY <1>b DEF LifeInv, StartedSoFar
  <2> QED
    BY <2>1, <2>2 DEF RunsTillReset
<1> QED
  BY <1>1, <1>2, <1>3, <1>4 DEF LifeInv

\* A step that another one counts on has been taken when the start is at that
\* one.
LEMMA Earlier ==
  ASSUME LifeInv, life = "starting"
  PROVE  /\ At("VFeaturesOK") \/ At("VDriverOK") => Past("acknowledge")
         /\ At("MFInit") => Past("QInit")
         /\ \A n \in {"acknowledge", "handler", "backstop", "AllocPages", "QInit"} :
              ~ (At(n) /\ Past("QInit"))
<1>1. driver \in Drivers /\ step \in 1 .. Len(Steps(driver)) /\ Len(Steps(driver)) \in Nat /\ step \in Nat
  BY NextStep
<1>2. \A a, b : Before(driver, a, b) /\ At(b) => Past(a)
  BY <1>1 DEF Before, At, Past
<1>3. ASSUME NEW n \in {"acknowledge", "handler", "backstop", "AllocPages", "QInit"}, At(n), Past("QInit")
      PROVE  FALSE
  <2>1. PICK j \in 1 .. step - 1 : Steps(driver)[j] = "QInit"
    BY <1>3 DEF Past
  <2>2. j \in 1 .. Len(Steps(driver)) /\ j < step /\ Steps(driver)[step] = n
    BY <1>1, <2>1, <1>3 DEF At
  <2>3. n # "QInit" => step < j
    BY <1>1, <2>1, <2>2, <1>3, StepsInOrder
  <2>4. n = "QInit" => step = j
    BY <1>1, <2>1, <2>2, <1>3, StepsInOrder
  <2>5. j \in Nat
    BY <2>2
  <2> QED
    BY <2>2, <2>3, <2>4, <2>5, <1>1
<1> QED
  BY <1>1, <1>2, <1>3, StepsInOrder

\* Two calls are registered one after the other.
LEMMA PairIsConcat == ASSUME NEW a, NEW b PROVE <<a>> \o <<b>> = <<a, b>>
<1> DEFINE Q == {a, b}
           s == <<a>>
           t == <<b>>
           u == <<a, b>>
<1>1. s \in Seq(Q) /\ t \in Seq(Q) /\ u \in Seq(Q)
  OBVIOUS
<1>2. /\ Len(s) = 1 /\ Len(t) = 1 /\ Len(u) = 2
      /\ s[1] = a /\ t[1] = b /\ u[1] = a /\ u[2] = b
  OBVIOUS
<1> HIDE DEF Q, s, t, u
<1>3. /\ s \o t \in Seq(Q) /\ Len(s \o t) = Len(s) + Len(t)
      /\ \A i \in 1 .. Len(s) + Len(t) : (s \o t)[i] = IF i <= Len(s) THEN s[i] ELSE t[i - Len(s)]
  BY ONLY <1>1, ConcatProperties
<1>4. (s \o t)[1] = a /\ (s \o t)[2] = b
  BY ONLY <1>2, <1>3
<1>5. s \o t = u
  BY ONLY <1>1, <1>2, <1>3, <1>4, SeqEqual
<1> QED
  BY ONLY <1>5 DEF s, t, u

\* Of two calls that a step registers both can be found.
LEMMA RegistersSome ==
  /\ <<>> \in Seq(Registrable) /\ <<Reset>> \in Seq(Registrable) /\ <<removeDrive>> \in Seq(Registrable)
  /\ \A b \in Blocks : <<FreePages(b)>> \in Seq(Registrable) /\ <<FreePages(b), Reset>> \in Seq(Registrable)
  /\ \A h \in HandlerNames : <<RemoveHandler(h)>> \in Seq(Registrable) /\ <<RemoveHandler(h), Reset>> \in Seq(Registrable)
<1>1. /\ Reset \in Registrable /\ removeDrive \in Registrable
      /\ \A b \in Blocks : FreePages(b) \in Registrable
      /\ \A h \in HandlerNames : RemoveHandler(h) \in Registrable
  BY DEF Registrable
<1> HIDE DEF Reset, removeDrive, FreePages, RemoveHandler, Registrable
<1> QED
  BY <1>1

\* A step that is done and registers nothing, nor takes anything.
LEMMA PlainStepKeeps ==
  ASSUME LifeInv, life = "starting", Done(<<>>),
         NEW n, At(n), n \notin {"acknowledge", "handler", "backstop", "AllocPages", "QInit"},
         ready' = ready \/ ready' = FALSE, 
         pages' = pages, handlers' = handlers, drive' = drive,
         status' # status => status' = "reset" \/ (status' \in {"agreed", "running"} /\ Past("acknowledge")),
         status' = "running" => status = "running" \/ n = "VDriverOK"
  PROVE  LifeInv'
<1>1. {h \in HandlerNames : At(h)} = {}
  BY DEF At, HandlerNames
<1>2. ready' \in BOOLEAN /\ drive' \in BOOLEAN /\ pages \subseteq Blocks
  BY DEF LifeInv, LifeTypeOK
<1>3. <<>> \in Seq(Registrable) /\ (\A k \in DOMAIN <<>> : FALSE)
  BY RegistersSome
<1>4. ~At("acknowledge") /\ ~At("AllocPages") /\ ~At("QInit") /\ (n = "VDriverOK" => At("VDriverOK"))
  BY DEF At
<1> HIDE DEF Done, At, Past
<1> QED
  BY <1>1, <1>2, <1>3, <1>4, DoneKeeps

\* Finding the device and resetting it; the reset is registered with the
\* acknowledgement.
LEMMA StepResetKeeps == ASSUME LifeInv, StepReset PROVE LifeInv'
<1>0. life = "starting"
  BY DEF StepReset, At
<1>1. CASE At("capabilities") /\ Done(<<>>) /\ UNCHANGED <<status, ready, pages, locked, handlers, drive>>
  BY <1>0, <1>1, PlainStepKeeps
<1>2. CASE Refuse(TRUE)
  BY <1>0, <1>2, RefuseKeeps
<1>3. CASE At("VReset") /\ Done(<<>>) /\ status' = "reset" /\ ready' = FALSE
           /\ UNCHANGED <<pages, locked, handlers, drive>>
  BY <1>0, <1>3, PlainStepKeeps
<1>4. CASE At("acknowledge") /\ Done(<<Reset>>) /\ status' = "known"
           /\ UNCHANGED <<ready, pages, locked, handlers, drive>>
  <2>1. {h \in HandlerNames : At(h)} = {} /\ ~At("AllocPages") /\ ~At("QInit")
    BY <1>4 DEF At, HandlerNames
  <2>2. ready' \in BOOLEAN /\ drive' \in BOOLEAN /\ pages \subseteq Blocks
    BY <1>4 DEF LifeInv, LifeTypeOK
  <2>3. <<Reset>> \in Seq(Registrable) /\ Has(<<Reset>>, Reset)
    BY RegistersSome DEF Has
  <2>4. ~Past("QInit")
    BY <1>0, <1>4, Earlier
  <2>5. status' = "known"
    BY <1>4
  <2> HIDE DEF Reset
  <2> QED
    BY <1>0, <1>4, <2>1, <2>2, <2>3, <2>4, <2>5, DoneKeeps
<1> QED
  BY <1>1, <1>2, <1>3, <1>4 DEF StepReset

\* Version, features and VDriverOK, from which on the device runs.
LEMMA StepAgreeKeeps == ASSUME LifeInv, StepAgree PROVE LifeInv'
<1>0. life = "starting"
  BY DEF StepAgree, At
<1>1. CASE At("version1") /\ Done(<<>>) /\ UNCHANGED <<status, ready, pages, locked, handlers, drive>>
  BY <1>0, <1>1, PlainStepKeeps
<1>2. CASE Refuse(TRUE)
  BY <1>0, <1>2, RefuseKeeps
<1>3. CASE At("VFeaturesOK") /\ Done(<<>>) /\ status' = "agreed"
           /\ UNCHANGED <<ready, pages, locked, handlers, drive>>
  <2>1. Past("acknowledge")
    BY <1>0, <1>3, Earlier
  <2> QED
    BY <1>0, <1>3, <2>1, PlainStepKeeps
<1>4. CASE At("VDriverOK") /\ Done(<<>>) /\ status' = "running"
           /\ UNCHANGED <<ready, pages, locked, handlers, drive>>
  <2>1. Past("acknowledge")
    BY <1>0, <1>4, Earlier
  <2> QED
    BY <1>0, <1>4, <2>1, PlainStepKeeps
<1> QED
  BY <1>1, <1>2, <1>3, <1>4 DEF StepAgree

\* An interrupt handler is installed with its removal registered.
LEMMA StepHandlerKeeps == ASSUME LifeInv, StepHandler PROVE LifeInv'
<1>1. PICK h \in HandlerNames :
        /\ At(h)
        /\ \/ /\ Done(<<RemoveHandler(h)>> \o (IF handlers \cup {h} = Handlers(driver) THEN <<Reset>> ELSE <<>>))
              /\ handlers' = handlers \cup {h}
              /\ UNCHANGED <<status, ready, pages, locked, drive>>
           \/ driver.board = "mmio" /\ Refuse(TRUE)
  BY DEF StepHandler, HandlerNames
<1>0. life = "starting"
  BY <1>1 DEF At
<1>2. CASE Refuse(TRUE)
  BY <1>0, <1>2, RefuseKeeps
<1>3. CASE /\ Done(<<RemoveHandler(h)>> \o (IF handlers \cup {h} = Handlers(driver) THEN <<Reset>> ELSE <<>>))
           /\ handlers' = handlers \cup {h}
           /\ UNCHANGED <<status, ready, pages, locked, drive>>
  <2>1. PICK r \in {<<RemoveHandler(h)>>, <<RemoveHandler(h), Reset>>} : Done(r)
    <3>1. <<RemoveHandler(h)>> \o <<Reset>> = <<RemoveHandler(h), Reset>>
      BY PairIsConcat
    <3>2. <<RemoveHandler(h)>> \o <<>> = <<RemoveHandler(h)>>
      OBVIOUS
    <3> QED
      BY <1>3, <3>1, <3>2
  <2>2. r \in Seq(Registrable)
    BY <2>1, RegistersSome
  <2>3. Has(r, RemoveHandler(h))
    BY <2>1 DEF Has
  <2>4. {k \in HandlerNames : At(k)} = {h}
    BY <1>1 DEF At
  <2>5. /\ ~At("acknowledge") /\ ~At("AllocPages") /\ ~At("QInit") /\ ~At("VDriverOK")
    BY <1>1 DEF At, HandlerNames
  <2>6. ready' \in BOOLEAN /\ drive' \in BOOLEAN /\ pages \subseteq Blocks
    BY <1>3 DEF LifeInv, LifeTypeOK
  <2>7. ~Past("QInit")
    BY <1>0, <1>1, Earlier DEF HandlerNames
  <2> HIDE DEF RemoveHandler
  <2> QED
    BY <1>0, <1>3, <2>1, <2>2, <2>3, <2>4, <2>5, <2>6, <2>7, DoneKeeps
<1> QED
  BY <1>1, <1>2, <1>3

\* AllocPages for the driver's own block registers FreePages.
LEMMA StepPagesKeeps == ASSUME LifeInv, StepPages PROVE LifeInv'
<1>0. life = "starting" /\ At("AllocPages")
  BY DEF StepPages, At
<1>2. CASE Refuse(TRUE)
  BY <1>0, <1>2, RefuseKeeps
<1>3. CASE /\ Done(<<FreePages("own")>>)
           /\ pages' = pages \cup {"own"} /\ UNCHANGED <<status, ready, handlers, drive>>
  <2>2. <<FreePages("own")>> \in Seq(Registrable) /\ "own" \in Blocks
    BY RegistersSome DEF Blocks
  <2>3. Has(<<FreePages("own")>>, FreePages("own"))
    BY DEF Has
  <2>4. {k \in HandlerNames : At(k)} = {}
    BY <1>0 DEF At, HandlerNames
  <2>5. /\ ~At("acknowledge") /\ ~At("QInit") /\ ~At("VDriverOK")
    BY <1>0 DEF At
  <2>6. ready' \in BOOLEAN /\ drive' \in BOOLEAN /\ pages' \subseteq Blocks
    BY <1>3, <2>2 DEF LifeInv, LifeTypeOK
  <2>7. ~Past("QInit")
    BY <1>0, Earlier
  <2> HIDE DEF FreePages
  <2> QED
    BY <1>0, <1>3, <2>2, <2>3, <2>4, <2>5, <2>6, <2>7, DoneKeeps
<1> QED
  BY <1>2, <1>3 DEF StepPages

\* QInit registers the freeing of the rings and, above it, a reset.
LEMMA QInitKeeps == ASSUME LifeInv, QInit PROVE LifeInv'
<1>0. life = "starting" /\ At("QInit")
  BY DEF QInit, At
<1>2. CASE Refuse(TRUE)
  BY <1>0, <1>2, RefuseKeeps
<1>3. CASE /\ Done(<<FreePages("ring"), Reset>>)
           /\ RingsSet /\ UNCHANGED status
  <2> DEFINE r == <<FreePages("ring"), Reset>>
  <2>1. pages' = pages \cup {"ring"} /\ ready' = TRUE /\ handlers' = handlers /\ drive' = drive /\ status' = status
    BY <1>3 DEF RingsSet
  <2>2. r \in Seq(Registrable) /\ "ring" \in Blocks
    BY RegistersSome DEF Blocks
  <2>3. Has(r, FreePages("ring")) /\ r # <<>> /\ r[Len(r)] = Reset
    BY DEF Has
  <2>4. {k \in HandlerNames : At(k)} = {}
    BY <1>0 DEF At, HandlerNames
  <2>5. /\ ~At("acknowledge") /\ ~At("AllocPages") /\ ~At("VDriverOK")
    BY <1>0 DEF At
  <2>6. ready' \in BOOLEAN /\ drive' \in BOOLEAN /\ pages' \subseteq Blocks
    BY <2>1, <2>2 DEF LifeInv, LifeTypeOK
  <2>7. ~Past("QInit")
    BY <1>0, Earlier
  <2>8. Done(r)
    BY <1>3
  <2> HIDE DEF FreePages, r
  <2> QED
    BY <1>0, <2>1, <2>2, <2>3, <2>4, <2>5, <2>6, <2>7, <2>8, DoneKeeps
<1>4. CASE /\ funcs' = funcs \o <<FreePages("ring"), Reset>> /\ RingsSet
           /\ life' = "undoing" /\ status' = "failed" /\ UNCHANGED Others
  <2> DEFINE r == <<FreePages("ring"), Reset>>
  <2>1. /\ pages' = pages \cup {"ring"} /\ ready' = TRUE /\ handlers' = handlers /\ drive' = drive
        /\ driver' = driver /\ mounted' = mounted /\ vcbVRefNum' = vcbVRefNum
    BY <1>4 DEF RingsSet, Others
  <2>2. r \in Seq(Registrable) /\ "ring" \in Blocks
    BY RegistersSome DEF Blocks
  <2>3. Has(r, FreePages("ring")) /\ Has(r, Reset)
    BY DEF Has
  <2>4. funcs' = funcs \o r
    BY <1>4
  <2> HIDE DEF r
  <2>5. funcs' \in Seq(Registrable) /\ \A f : Registered(f) \/ Has(r, f) => Registered(f)'
    BY <2>2, <2>4, Appended DEF LifeInv, LifeTypeOK, Registered
  <2>6. LifeTypeOK'
    BY <1>0, <1>4, <2>1, <2>2, <2>5 DEF LifeInv, LifeTypeOK, At
  <2>7. AllRegistered'
    BY <1>4, <2>1, <2>3, <2>5 DEF LifeInv, AllRegistered
  <2>8. StartedSoFar' /\ RunsTillReset'
    BY <1>4 DEF StartedSoFar, RunsTillReset
  <2>9. VolumeInv'
    BY <1>0, <1>4, <2>1 DEF LifeInv, VolumeInv, At
  <2> QED
    BY <2>6, <2>7, <2>8, <2>9 DEF LifeInv
<1> QED
  BY <1>2, <1>3, <1>4 DEF QInit

\* The steps that register nothing: Attach9, MF.Init, probe, reQueue.
LEMMA StepDeviceKeeps == ASSUME LifeInv, StepDevice PROVE LifeInv'
<1>0. life = "starting"
  BY DEF StepDevice, At
<1>1. ASSUME NEW n \in {"Attach9", "MFInit", "probe", "reQueue"}, At(n), Done(<<>>),
             UNCHANGED <<status, ready, pages, locked, handlers, drive>>
      PROVE  LifeInv'
  BY <1>0, <1>1, PlainStepKeeps
<1>2. CASE Refuse(TRUE)
  BY <1>0, <1>2, RefuseKeeps
<1>3. CASE At("MFInit") /\ Refuse(FALSE)
  BY <1>0, <1>3, Earlier, RefuseKeeps
<1> QED
  BY <1>1, <1>2, <1>3 DEF StepDevice

\* The drive is queued with its removal registered, above the reset.
LEMMA installDriveKeeps == ASSUME LifeInv, installDrive PROVE LifeInv'
<1>0. life = "starting" /\ At("installDrive") /\ Done(<<removeDrive>>) /\ drive' = TRUE
      /\ UNCHANGED <<status, ready, pages, locked, handlers>>
  BY DEF installDrive, At
<1>1. <<removeDrive>> \in Seq(Registrable) /\ Has(<<removeDrive>>, removeDrive)
      /\ \A k \in DOMAIN <<removeDrive>> : <<removeDrive>>[k] = removeDrive
  BY RegistersSome DEF Has
<1>2. {k \in HandlerNames : At(k)} = {} /\ ~At("acknowledge") /\ ~At("AllocPages") /\ ~At("QInit")
  BY <1>0 DEF At, HandlerNames
<1>3. ready' \in BOOLEAN /\ drive' \in BOOLEAN /\ pages \subseteq Blocks
  BY <1>0 DEF LifeInv, LifeTypeOK
<1> HIDE DEF removeDrive
<1> QED
  BY <1>0, <1>1, <1>2, <1>3, DoneKeeps

\* A volume is mounted on a started driver that has a drive.
LEMMA LifeMountKeeps == ASSUME LifeInv, Mount PROVE LifeInv'
<1> USE DEF Mount
<1>1. LifeTypeOK' /\ AllRegistered'
  BY DEF LifeInv, LifeTypeOK, AllRegistered, Registered
<1>2. StartedSoFar' /\ RunsTillReset'
  BY DEF LifeInv, StartedSoFar, RunsTillReset, Past, Registered
<1>3. VolumeInv'
  BY DEF LifeInv, LifeTypeOK, VolumeInv
<1> QED
  BY <1>1, <1>2, <1>3 DEF LifeInv

\* A volume is unmounted.
LEMMA LifeUnmountKeeps == ASSUME LifeInv, Unmount PROVE LifeInv'
<1> USE DEF Unmount
<1>1. LifeTypeOK' /\ AllRegistered'
  BY DEF LifeInv, LifeTypeOK, AllRegistered, Registered
<1>2. StartedSoFar' /\ RunsTillReset'
  BY DEF LifeInv, StartedSoFar, RunsTillReset, Past, Registered
<1>3. VolumeInv'
  BY DEF LifeInv, VolumeInv
<1> QED
  BY <1>1, <1>2, <1>3 DEF LifeInv

\* A stop is refused, or the undoing of a finished start begins.
LEMMA DriverStopKeeps == ASSUME LifeInv, DriverStop PROVE LifeInv'
<1> USE DEF DriverStop
<1>0. life = "started" /\ life' \in {"started", "undoing"}
      /\ (life' = "undoing" => ~InUse)
  OBVIOUS
<1>1. LifeTypeOK'
  BY DEF LifeInv, LifeTypeOK
<1>2. AllRegistered'
  BY DEF LifeInv, AllRegistered, Registered
<1>3. StartedSoFar'
  BY DEF LifeInv, StartedSoFar, Past, Registered
<1>4. RunsTillReset'
  <2>1. status' = "running" => NeedsMet'
    BY HarmlessSoFar DEF NeedsMet
  <2>2. driver \in Drivers /\ step = Len(Steps(driver)) + 1
    BY DEF LifeInv, LifeTypeOK
  <2>3. PICK i \in 1 .. Len(Steps(driver)) : Steps(driver)[i] = "QInit"
    BY <2>2, StepsInOrder
  <2>4. Len(Steps(driver)) \in Nat
    BY <2>2, StepIsOne
  <2>5. Past("QInit")
    BY <2>2, <2>3, <2>4 DEF Past
  <2>6. ResetsFirst(funcs)
    BY <2>5 DEF LifeInv, StartedSoFar
  <2> QED
    BY <2>1, <2>6 DEF RunsTillReset
<1>5. VolumeInv'
  <2>1. mounted => InUse
    <3> SUFFICES ASSUME mounted PROVE InUse
      OBVIOUS
    <3>1. driver.kind \in {"9p", "block"} /\ (driver.kind = "9p" => vcbVRefNum)
      BY DEF LifeInv, VolumeInv
    <3>2. CASE driver.kind = "9p"
      BY <3>1, <3>2 DEF InUse
    <3>3. CASE driver.kind = "block"
      BY <3>3 DEF InUse
    <3> QED
      BY <3>1, <3>2, <3>3
  <2> QED
    BY <2>1, <1>0 DEF LifeInv, VolumeInv
<1> QED
  BY <1>1, <1>2, <1>3, <1>4, <1>5 DEF LifeInv

\* The calls that are left when Cleanup has made the last.
LEMMA OneUndone ==
  ASSUME NEW T, NEW s \in Seq(T), s # <<>>
  PROVE  /\ Front(s) \in Seq(T)
         /\ Last(s) \in T
         /\ \A f : Has(s, f) => Has(Front(s), f) \/ f = Last(s)
         /\ ResetsFirst(s) => Last(s) = Reset \/ (Last(s) = removeDrive /\ ResetsFirst(Front(s)))
<1> DEFINE n == Len(s)
           t == SubSeq(s, 1, n - 1)
<1>1. n \in Nat /\ n >= 1 /\ DOMAIN s = 1 .. n /\ (\A i \in 1 .. n : s[i] \in T)
  BY EmptySeq, LenProperties, ElementOfSeq
<1>2. t \in Seq(T) /\ Len(t) = n - 1 /\ (\A i \in 1 .. n - 1 : t[i] = s[i])
  <2>1. t = SubSeq(s, 1, n - 1) /\ n - 1 \in 0 .. Len(s)
    BY <1>1
  <2> QED
    BY <1>1, <2>1, SubSeqProperties
<1>3. DOMAIN t = 1 .. n - 1
  BY <1>2, LenProperties
<1>4. Front(s) = t /\ Last(s) = s[n]
  BY DEF Front, Last
<1> HIDE DEF t, n
<1>5. ASSUME NEW i \in 1 .. n, i # n PROVE i \in 1 .. n - 1
  BY <1>1, <1>5
<1>6. \A f : Has(s, f) => Has(t, f) \/ f = s[n]
  BY <1>1, <1>2, <1>3, <1>5 DEF Has
<1>7. ASSUME ResetsFirst(s), s[n] # Reset PROVE s[n] = removeDrive /\ ResetsFirst(t)
  <2>1. PICK j \in 1 .. n : s[j] = Reset /\ \A k \in 1 .. n : k > j => s[k] = removeDrive
    BY <1>1, <1>7 DEF ResetsFirst
  <2>2. j \in 1 .. n - 1 /\ n > j /\ n \in 1 .. n
    BY <1>1, <1>7, <2>1, <1>5
  <2>3. t[j] = Reset /\ \A k \in 1 .. n - 1 : k > j => t[k] = removeDrive
    BY <1>1, <1>2, <2>1, <2>2
  <2> QED
    BY <1>3, <2>1, <2>2, <2>3 DEF ResetsFirst
<1>8. s[n] \in T
  BY <1>1
<1> QED
  BY <1>2, <1>4, <1>6, <1>7, <1>8

\* Cleanup with nothing left to call: nothing is left to give back either.
LEMMA CleanupEnds == ASSUME LifeInv, Cleanup, funcs = <<>> PROVE LifeInv'
<1>1. life = "undoing" /\ life' = "stopped" /\ funcs' = <<>>
  BY DEF Cleanup
<1>2. \A f : ~Registered(f)
  BY DEF Registered, Has
<1>3. /\ driver' = driver /\ mounted' = mounted /\ vcbVRefNum' = vcbVRefNum
      /\ status' = status /\ ready' = ready /\ pages' = pages /\ handlers' = handlers /\ drive' = drive
  <2>1. [call |-> "none", of |-> ""] # Reset /\ [call |-> "none", of |-> ""] # removeDrive
    BY DEF Reset, removeDrive
  <2>2. PICK f \in {[call |-> "none", of |-> ""]} :
          /\ status'   = (IF f = Reset THEN "reset" ELSE status)
          /\ ready'    = (ready /\ f # Reset)
          /\ pages'    = (IF f.call = "FreePages" THEN pages \ {f.of} ELSE pages)
          /\ handlers' = (IF f.call = "remove" THEN handlers \ {f.of} ELSE handlers)
          /\ drive'    = (drive /\ f # removeDrive)
    BY DEF Cleanup
  <2>3. status' = status /\ pages' = pages /\ handlers' = handlers
    <3>1. f = [call |-> "none", of |-> ""]
      OBVIOUS
    <3>2. f.call = "none" /\ f # Reset
      BY <3>1 DEF Reset
    <3> QED
      BY <2>2, <3>2
  <2>4. ready' = ready /\ drive' = drive
    BY <2>1, <2>2 DEF LifeInv, LifeTypeOK
  <2> QED
    BY <2>3, <2>4 DEF Cleanup, Others
<1>4. pages = {} /\ handlers = {} /\ drive = FALSE /\ ready = FALSE /\ status \notin {"known", "agreed", "running"}
  BY <1>2 DEF LifeInv, LifeTypeOK, AllRegistered
<1>5. mounted = FALSE
  BY <1>1 DEF LifeInv, LifeTypeOK, VolumeInv
<1>6. LifeTypeOK'
  BY <1>1, <1>3, EmptySeq DEF LifeInv, LifeTypeOK
<1>7. AllRegistered' /\ StartedSoFar' /\ RunsTillReset' /\ VolumeInv'
  BY <1>1, <1>3, <1>4, <1>5 DEF AllRegistered, StartedSoFar, RunsTillReset, VolumeInv
<1> QED
  BY <1>6, <1>7 DEF LifeInv

\* Cleanup makes the last call: what it gives back was registered by it, and the
\* device no longer uses it.
LEMMA CleanupUndoes == ASSUME LifeInv, Cleanup, funcs # <<>> PROVE LifeInv'
<1> DEFINE f == Last(funcs)
<1>1. life = "undoing" /\ life' = "undoing" /\ funcs' = Front(funcs)
  BY DEF Cleanup
<1>2. /\ driver' = driver /\ mounted' = mounted /\ vcbVRefNum' = vcbVRefNum
      /\ status'   = (IF f = Reset THEN "reset" ELSE status)
      /\ ready'    = (ready /\ f # Reset)
      /\ pages'    = (IF f.call = "FreePages" THEN pages \ {f.of} ELSE pages)
      /\ handlers' = (IF f.call = "remove" THEN handlers \ {f.of} ELSE handlers)
      /\ drive'    = (drive /\ f # removeDrive)
  BY DEF Cleanup, Others
<1>3. /\ Front(funcs) \in Seq(Registrable) /\ f \in Registrable
      /\ \A g : Registered(g) => Registered(g)' \/ g = f
      /\ ResetsFirst(funcs) => f = Reset \/ (f = removeDrive /\ ResetsFirst(funcs)')
  BY <1>1, OneUndone DEF LifeInv, LifeTypeOK, Registered
<1> HIDE DEF f
<1>4. LifeTypeOK'
  BY <1>1, <1>2, <1>3 DEF LifeInv, LifeTypeOK
<1>5. AllRegistered'
  <2>1. ASSUME NEW b \in pages' PROVE Registered(FreePages(b))'
    <3>1. Registered(FreePages(b))
      BY <1>2, <2>1 DEF LifeInv, AllRegistered
    <3>2. FreePages(b) # f
      BY <1>2, <2>1 DEF FreePages
    <3> QED
      BY <1>3, <3>1, <3>2
  <2>2. ASSUME NEW h \in handlers' PROVE Registered(RemoveHandler(h))'
    <3>1. Registered(RemoveHandler(h))
      BY <1>2, <2>2 DEF LifeInv, AllRegistered
    <3>2. RemoveHandler(h) # f
      BY <1>2, <2>2 DEF RemoveHandler
    <3> QED
      BY <1>3, <3>1, <3>2
  <2>3. /\ drive' => Registered(removeDrive)'
        /\ ready' \/ status' \in {"known", "agreed", "running"} => Registered(Reset)'
    BY <1>2, <1>3 DEF LifeInv, AllRegistered
  <2> QED
    BY <1>1, <2>1, <2>2, <2>3 DEF AllRegistered
<1>6. RunsTillReset'
  <2> SUFFICES ASSUME status' = "running" PROVE NeedsMet' /\ ResetsFirst(funcs)'
    BY DEF RunsTillReset
  <2>1. f # Reset /\ status = "running"
    BY <1>2
  <2>2. f = removeDrive /\ ResetsFirst(funcs)' /\ NeedsMet
    BY <1>1, <1>3, <2>1 DEF LifeInv, RunsTillReset
  <2>3. f.call = "removeDrive"
    BY <2>2 DEF removeDrive
  <2> QED
    BY <1>2, <2>1, <2>2, <2>3 DEF NeedsMet
<1>7. StartedSoFar' /\ VolumeInv'
  BY <1>1, <1>2 DEF StartedSoFar, LifeInv, VolumeInv
<1> QED
  BY <1>4, <1>5, <1>6, <1>7 DEF LifeInv

\* The two kinds of blocks, page by page.
LEMMA PagesAre ==
  /\ PagesOf("own") = {<<"own", 0>>}
  /\ PagesOf("ring") = {<<"ring", 0>>, <<"ring", 1>>, <<"ring", 2>>}
<1>1. 0 .. Sizes["own"] - 1 = {0} /\ 0 .. Sizes["ring"] - 1 = {0, 1, 2}
  BY DEF Sizes
<1>2. PagesOf("own") = {<<"own", i>> : i \in {0}}
  BY <1>1 DEF PagesOf
<1>3. PagesOf("ring") = {<<"ring", i>> : i \in {0, 1, 2}}
  BY <1>1 DEF PagesOf
<1> QED
  BY <1>2, <1>3

\* Pages are locked when they are taken; FreePages unlocks all of them or, with
\* the classic allocator, the first.
LEMMA LocksKept == ASSUME LifeInv, LockInv, LifeNext PROVE LockInv'
<1>1. ASSUME UNCHANGED <<pages, locked>>, driver' = driver \/ driver = None PROVE LockInv'
  <2>1. \A p \in LeftLocked : p \in LeftLocked'
    BY <1>1 DEF LeftLocked, None, PagesOf
  <2> QED
    BY <1>1, <2>1 DEF LockInv
<1>2. ASSUME NEW b \in Blocks, pages' = pages \cup {b}, locked' = locked \cup PagesOf(b), driver' = driver
      PROVE  LockInv'
  BY <1>2 DEF LockInv, LeftLocked
<1>3. ASSUME NEW k \in Kinds, NEW b \in Boards, DriverStart([kind |-> k, board |-> b]) PROVE LockInv'
  BY <1>1, <1>3 DEF DriverStart, LifeInv, LifeTypeOK
<1>4. CASE StepReset \/ StepAgree \/ StepHandler \/ StepDevice \/ installDrive
  BY <1>1, <1>4 DEF StepReset, StepAgree, StepHandler, StepDevice, installDrive, Done, Refuse, Others
<1>5. CASE StepPages \/ QInit
  <2>1. driver' = driver /\ "own" \in Blocks /\ "ring" \in Blocks
    BY <1>5 DEF StepPages, QInit, Done, Refuse, Others, Blocks
  <2>2. \/ UNCHANGED <<pages, locked>>
        \/ \E b \in Blocks : pages' = pages \cup {b} /\ locked' = locked \cup PagesOf(b)
    BY <1>5, <2>1 DEF StepPages, QInit, RingsSet, Refuse
  <2> QED
    BY <1>1, <1>2, <2>1, <2>2
<1>6. CASE Mount \/ Unmount \/ DriverStop
  BY <1>1, <1>6 DEF Mount, Unmount, DriverStop
<1>7. CASE Cleanup
  <2>1. driver' = driver
    BY <1>7 DEF Cleanup, Others
  <2>2. PICK f \in {IF funcs = <<>> THEN [call |-> "none", of |-> ""] ELSE Last(funcs)} :
          /\ pages'  = (IF f.call = "FreePages" THEN pages \ {f.of} ELSE pages)
          /\ locked' = (IF f.call = "FreePages" THEN locked \ Unlocked(f.of) ELSE locked)
    BY <1>7 DEF Cleanup
  <2>3. CASE f.call # "FreePages"
    BY <1>1, <2>1, <2>2, <2>3
  <2>4. CASE f.call = "FreePages"
    <3>1. funcs # <<>> /\ f = Last(funcs)
      <4>1. f = IF funcs = <<>> THEN [call |-> "none", of |-> ""] ELSE Last(funcs)
        OBVIOUS
      <4>2. CASE funcs = <<>>
        <5>1. f.call = "none"
          BY <4>1, <4>2
        <5> QED
          BY <2>4, <5>1
      <4> QED
        BY <4>1, <4>2
    <3>2. f \in Registrable
      BY <3>1, OneUndone DEF LifeInv, LifeTypeOK
    <3>3. PICK b \in Blocks : f = FreePages(b)
      <4>1. Reset.call = "VReset" /\ removeDrive.call = "removeDrive"
        BY DEF Reset, removeDrive
      <4>2. \A h : RemoveHandler(h).call = "remove"
        BY DEF RemoveHandler
      <4>3. f # Reset /\ f # removeDrive /\ \A h : f # RemoveHandler(h)
        BY <2>4, <4>1, <4>2
      <4> QED
        BY <3>2, <4>3 DEF Registrable
    <3>4. pages' = pages \ {b} /\ locked' = locked \ Unlocked(b)
      <4>1. f.of = b
        BY <3>3 DEF FreePages
      <4> QED
        BY <2>2, <2>4, <4>1
    <3>5. \A c : c # b => \A p \in PagesOf(c) : p \notin PagesOf(b)
      <4> SUFFICES ASSUME NEW c, NEW p \in PagesOf(c), p \in PagesOf(b) PROVE c = b
        OBVIOUS
      <4>1. PICK i : p = <<c, i>>
        BY DEF PagesOf
      <4>2. PICK j : p = <<b, j>>
        BY DEF PagesOf
      <4>3. <<c, i>>[1] = c /\ <<b, j>>[1] = b
        OBVIOUS
      <4> QED
        BY <4>1, <4>2, <4>3
    <3>b. b = "own" \/ b = "ring"
      BY DEF Blocks
    <3>6. \A p \in Unlocked(b) : p \in PagesOf(b)
      BY PagesAre, <3>b DEF Unlocked
    <3>7. \A p \in PagesOf(b) : p \in Unlocked(b) \/ p \in LeftLocked
      BY PagesAre, <3>b DEF Unlocked, LeftLocked
    <3>8. \A c \in pages' : PagesOf(c) \subseteq locked'
      BY <3>4, <3>5, <3>6 DEF LockInv
    <3>9. ASSUME NEW p \in locked' PROVE p \in LeftLocked \/ \E c \in pages' : p \in PagesOf(c)
      BY <3>4, <3>7, <3>9 DEF LockInv
    <3>10. LeftLocked' = LeftLocked
      BY <2>1 DEF LeftLocked
    <3> QED
      BY <3>8, <3>9, <3>10 DEF LockInv
  <2> QED
    BY <2>3, <2>4
<1> QED
  BY <1>3, <1>4, <1>5, <1>6, <1>7 DEF LifeNext, Start

\* However far a start gets, and if it is refused after the queue is set, what it
\* took is registered, what the device uses is registered below its reset, and
\* its pages are locked.
THEOREM LifeInvariant == LifeSpec => [](LifeInv /\ LockInv)
<1>1. LifeInv /\ [LifeNext]_lifeVars => LifeInv'
  <2> SUFFICES ASSUME LifeInv, [LifeNext]_lifeVars PROVE LifeInv'
    OBVIOUS
  <2>1. ASSUME NEW k \in Kinds, NEW b \in Boards, DriverStart([kind |-> k, board |-> b]) PROVE LifeInv'
    BY <2>1, DriverStartKeeps DEF Drivers
  <2>2. CASE Start
    BY <2>2, StepResetKeeps, StepAgreeKeeps, StepHandlerKeeps, StepPagesKeeps, QInitKeeps,
       StepDeviceKeeps, installDriveKeeps DEF Start
  <2>3. CASE Mount \/ Unmount \/ DriverStop
    BY <2>3, LifeMountKeeps, LifeUnmountKeeps, DriverStopKeeps
  <2>4. CASE Cleanup
    BY <2>4, CleanupEnds, CleanupUndoes
  <2>5. CASE UNCHANGED lifeVars
    BY <2>5 DEF lifeVars, LifeInv, LifeTypeOK, AllRegistered, StartedSoFar, RunsTillReset, VolumeInv,
       NeedsMet, Registered, Past
  <2> QED
    BY <2>1, <2>2, <2>3, <2>4, <2>5 DEF LifeNext
<1>2. LifeInv /\ LockInv /\ [LifeNext]_lifeVars => LockInv'
  BY LocksKept DEF lifeVars, LockInv, LeftLocked
<1> QED
  BY InitHolds, <1>1, <1>2, PTL DEF LifeSpec

\* However far DriverStart gets and whenever DriverStop comes, the device never
\* runs without its handlers and its locked pages, a stopped driver has left
\* nothing registered or taken (Cleanup) but the two pages that the classic
\* FreePages leaves locked, and the driver of a mounted volume is not
\* stopped: DriverSafe, for every driver and board and any number of starts.
THEOREM DriverStaysSafe == LifeSpec => []DriverSafe
  BY LifeInvariant, InvIsSafe, PTL

-----------------------------------------------------------------------------
(***************************************************************************)
(* Input, for any number of places and of events underway.                 *)
(***************************************************************************)

Events == {Key(b, down) : b \in Buttons, down \in BOOLEAN} \cup {Abs(p) : p \in Places}

\* What an event says is so on the host.
Says(e) == IF e.code = "place" THEN e.value = hostPlace ELSE e.value <=> e.code \in hostButtons

InWire(code) == \E i \in DOMAIN wire : wire[i].code = code

InputTypeOK ==
  /\ hostButtons \subseteq Buttons /\ batch \in Seq(Events) /\ wire \in Seq(Events \cup {Syn})
  /\ knowpos \in BOOLEAN /\ knowmask \subseteq Buttons /\ newbtn \subseteq knowmask /\ oldbtn \subseteq Buttons
  /\ posted \in Seq({"mouseDown", "mouseUp"}) /\ mouse.down \in BOOLEAN

\* A batch speaks of each button once, and an EV_SYN ends it.
BatchesApart ==
  /\ \A i, j \in DOMAIN batch : batch[i].code = batch[j].code => i = j
  /\ \A i, j \in DOMAIN wire : i < j /\ wire[i].code = wire[j].code /\ wire[i].code \in Buttons
       => \E k \in i + 1 .. j - 1 : wire[k] = Syn
  /\ \A i \in DOMAIN wire : wire[i].code \in knowmask => \E k \in 1 .. i - 1 : wire[k] = Syn
  /\ wire # <<>> => wire[Len(wire)] = Syn
  /\ wire = <<>> => knowmask = {} /\ ~knowpos

\* The last that was said of a button or of the place is how it is; if nothing
\* is underway the driver has it right.
LastIsTrue ==
  /\ \A i \in DOMAIN batch : Says(batch[i])
  /\ \A i \in DOMAIN wire :
       /\ wire[i] # Syn /\ wire[i].code \notin Touched
       /\ \A j \in DOMAIN wire : j > i => wire[j].code # wire[i].code
       => Says(wire[i])
  /\ \A b \in Buttons \ Touched : ~InWire(b) => (b \in Pressed <=> b \in hostButtons)
  /\ "place" \notin Touched /\ ~InWire("place") => hostPlace = IF knowpos THEN place ELSE mouse.place

EventsPaired ==
  /\ ClicksAlternate
  /\ mouse.down <=> oldbtn # {}
  /\ Len(posted) % 2 = 1 <=> oldbtn # {}

InputInv == InputTypeOK /\ BatchesApart /\ LastIsTrue /\ EventsPaired

\* What the events of the device are told apart by.
LEMMA EventFacts ==
  /\ \A e \in Events : e # Syn /\ e.code \in Buttons \cup {"place"} /\ e.code # "none"
                       /\ (e.type = "abs" <=> e.code = "place") /\ (e.type = "key" <=> e.code \in Buttons)
                       /\ e.type \in {"abs", "key"}
  /\ Syn.code = "none" /\ Syn.type = "syn" /\ "place" \notin Buttons /\ "none" \notin Buttons
  BY DEF Events, Key, Abs, Syn, Buttons

\* The events that remain when DNotified has taken the first.
LEMMA TailShifts ==
  ASSUME NEW T, NEW s \in Seq(T), s # <<>>
  PROVE  /\ Tail(s) \in Seq(T) /\ Len(s) \in Nat /\ Len(s) >= 1 /\ Len(Tail(s)) = Len(s) - 1
         /\ DOMAIN s = 1 .. Len(s) /\ DOMAIN Tail(s) = 1 .. Len(s) - 1
         /\ \A i \in DOMAIN Tail(s) : i + 1 \in DOMAIN s /\ Tail(s)[i] = s[i + 1]
         /\ Head(s) = s[1] /\ 1 \in DOMAIN s /\ Head(s) \in T
         /\ \A i \in DOMAIN s : i # 1 => i - 1 \in DOMAIN Tail(s) /\ Tail(s)[i - 1] = s[i]
<1>1. /\ Head(s) \in T /\ Tail(s) \in Seq(T) /\ Len(Tail(s)) = Len(s) - 1
      /\ \A i \in 1 .. Len(Tail(s)) : Tail(s)[i] = s[i + 1]
  BY HeadTailProperties
<1>2. Len(s) \in Nat /\ Len(s) >= 1 /\ DOMAIN s = 1 .. Len(s) /\ DOMAIN Tail(s) = 1 .. Len(s) - 1
  BY <1>1, EmptySeq, LenProperties
<1>3. Head(s) = s[1]
  OBVIOUS
<1>4. \A i \in DOMAIN Tail(s) : i + 1 \in DOMAIN s /\ Tail(s)[i] = s[i + 1]
  BY <1>1, <1>2
<1>5. ASSUME NEW i \in DOMAIN s, i # 1 PROVE i - 1 \in DOMAIN Tail(s) /\ Tail(s)[i - 1] = s[i]
  <2>1. i - 1 \in DOMAIN Tail(s) /\ (i - 1) + 1 = i
    BY <1>2, <1>5
  <2> QED
    BY <2>1, <1>4
<1> QED
  BY <1>1, <1>2, <1>3, <1>4, <1>5

\* What handling one event does to what is underway.
LEMMA OneHandled ==
  ASSUME InputInv, wire # <<>>, wire' = Tail(wire), batch' = batch,
         hostButtons' = hostButtons, hostPlace' = hostPlace,
         knowmask' \subseteq knowmask \cup {Event.code}, knowmask' \subseteq Buttons,
         Event = Syn => knowmask' = {} /\ ~knowpos'
  PROVE  /\ BatchesApart'
         /\ (\A i \in DOMAIN batch : Says(batch[i]))'
         /\ (\A i \in DOMAIN wire :
               /\ wire[i] # Syn /\ wire[i].code \notin Touched
               /\ \A j \in DOMAIN wire : j > i => wire[j].code # wire[i].code
               => Says(wire[i]))'
         /\ Touched' = Touched
         /\ wire' \in Seq(Events \cup {Syn})
         /\ Event \in Events \cup {Syn}
         /\ \A c \in (Buttons \cup {"place"}) \ Touched : ~InWire(c)' =>
              \/ ~InWire(c) /\ Event.code # c
              \/ Event.code = c /\ Event # Syn /\ Says(Event)
<1>1. wire \in Seq(Events \cup {Syn})
  BY DEF InputInv, InputTypeOK
<1>2. /\ Tail(wire) \in Seq(Events \cup {Syn}) /\ Len(wire) \in Nat /\ Len(wire) >= 1 /\ Len(Tail(wire)) = Len(wire) - 1
      /\ DOMAIN wire = 1 .. Len(wire) /\ DOMAIN Tail(wire) = 1 .. Len(wire) - 1
      /\ \A i \in DOMAIN Tail(wire) : i + 1 \in DOMAIN wire /\ Tail(wire)[i] = wire[i + 1]
      /\ Head(wire) = wire[1] /\ 1 \in DOMAIN wire /\ Head(wire) \in Events \cup {Syn}
      /\ \A i \in DOMAIN wire : i # 1 => i - 1 \in DOMAIN Tail(wire) /\ Tail(wire)[i - 1] = wire[i]
  BY <1>1, TailShifts
<1> DEFINE t == Tail(wire)
           n == Len(wire)
<1>3. /\ t \in Seq(Events \cup {Syn}) /\ n \in Nat /\ n >= 1 /\ Len(t) = n - 1
      /\ DOMAIN wire = 1 .. n /\ DOMAIN t = 1 .. n - 1 /\ wire' = t /\ t = Tail(wire) /\ n = Len(wire)
      /\ \A i \in 1 .. n - 1 : i + 1 \in 1 .. n /\ t[i] = wire[i + 1]
      /\ Event = wire[1] /\ Event \in Events \cup {Syn}
      /\ \A i \in 1 .. n : i # 1 => i - 1 \in 1 .. n - 1 /\ t[i - 1] = wire[i]
  BY <1>2 DEF Event
<1> HIDE DEF t, n
<1>4. Touched' = Touched
  BY DEF Touched
<1>5. \A e : Says(e)' <=> Says(e)
  BY DEF Says
<1>a. /\ \A i, j \in 1 .. n : i < j /\ wire[i].code = wire[j].code /\ wire[i].code \in Buttons
            => \E k \in i + 1 .. j - 1 : wire[k] = Syn
      /\ \A i \in 1 .. n : wire[i].code \in knowmask => \E k \in 1 .. i - 1 : wire[k] = Syn
      /\ wire[n] = Syn
  <2>1. DOMAIN wire = 1 .. n /\ n = Len(wire) /\ BatchesApart
    BY <1>3 DEF InputInv
  <2>2. \A i, j \in 1 .. n : i < j /\ wire[i].code = wire[j].code /\ wire[i].code \in Buttons
            => \E k \in i + 1 .. j - 1 : wire[k] = Syn
    BY <2>1 DEF BatchesApart
  <2>3. \A i \in 1 .. n : wire[i].code \in knowmask => \E k \in 1 .. i - 1 : wire[k] = Syn
    BY <2>1 DEF BatchesApart
  <2>4. wire[n] = Syn
    BY <2>1 DEF BatchesApart
  <2> QED
    BY <2>2, <2>3, <2>4
<1>6. BatchesApart'
  <2>1. \A i, j \in DOMAIN batch' : batch'[i].code = batch'[j].code => i = j
    BY DEF InputInv, BatchesApart
  <2>2. ASSUME NEW i \in 1 .. n - 1, NEW j \in 1 .. n - 1, i < j, t[i].code = t[j].code, t[i].code \in Buttons
        PROVE  \E k \in i + 1 .. j - 1 : t[k] = Syn
    <3>1. wire[i + 1].code = wire[j + 1].code /\ wire[i + 1].code \in Buttons /\ i + 1 < j + 1
          /\ i + 1 \in 1 .. n /\ j + 1 \in 1 .. n
      BY <1>3, <2>2
    <3>2. PICK k \in (i + 1) + 1 .. (j + 1) - 1 : wire[k] = Syn
      BY <1>a, <3>1
    <3>3. k - 1 \in i + 1 .. j - 1 /\ k \in 1 .. n /\ k # 1
      BY <1>3, <3>2
    <3> QED
      BY <1>3, <3>2, <3>3
  <2>3. ASSUME NEW i \in 1 .. n - 1, t[i].code \in knowmask'
        PROVE  \E k \in 1 .. i - 1 : t[k] = Syn
    <3>1. i + 1 \in 1 .. n /\ wire[i + 1] = t[i] /\ Event # Syn /\ 1 \in 1 .. n /\ 1 < i + 1
      BY <1>3, <2>3
    <3>2. \E k \in 1 .. (i + 1) - 1 : wire[k] = Syn /\ k # 1
      <4>1. CASE t[i].code \in knowmask
        BY <4>1, <1>3, <3>1 DEF InputInv, BatchesApart
      <4>2. CASE t[i].code = Event.code
        <5>1. \E k \in 1 + 1 .. (i + 1) - 1 : wire[k] = Syn
          BY <4>2, <1>3, <2>3, <3>1 DEF InputInv, BatchesApart
        <5> QED
          BY <5>1
      <4> QED
        BY <4>1, <4>2, <2>3
    <3>3. PICK k \in 1 .. (i + 1) - 1 : wire[k] = Syn /\ k # 1
      BY <3>2
    <3>4. k - 1 \in 1 .. i - 1 /\ k \in 1 .. n
      BY <1>3, <3>3
    <3> QED
      BY <1>3, <3>3, <3>4
  <2>4. ASSUME t # <<>> PROVE t[Len(t)] = Syn
    <3>1. Len(t) >= 1
      BY <2>4, <1>3, EmptySeq
    <3>2. wire # <<>> /\ n - 1 \in 1 .. n - 1 /\ (n - 1) + 1 = n
      BY <3>1, <1>3
    <3> QED
      BY <3>2, <1>3 DEF InputInv, BatchesApart
  <2>5. ASSUME t = <<>> PROVE knowmask' = {} /\ ~knowpos'
    <3>1. Len(t) = 0
      BY <2>5
    <3>2. n = 1
      BY <3>1, <1>3
    <3> QED
      BY <3>2, <1>3 DEF InputInv, BatchesApart
  <2>6. wire' = t /\ DOMAIN t = 1 .. n - 1
    BY <1>3
  <2>7. (\A i, j \in DOMAIN wire : i < j /\ wire[i].code = wire[j].code /\ wire[i].code \in Buttons
             => \E k \in i + 1 .. j - 1 : wire[k] = Syn)'
    BY <2>2, <2>6
  <2>8. (\A i \in DOMAIN wire : wire[i].code \in knowmask => \E k \in 1 .. i - 1 : wire[k] = Syn)'
    BY <2>3, <2>6
  <2>9. (wire # <<>> => wire[Len(wire)] = Syn)' /\ (wire = <<>> => knowmask = {} /\ ~knowpos)'
    BY <2>4, <2>5, <2>6
  <2> QED
    BY <2>1, <2>7, <2>8, <2>9 DEF BatchesApart
<1>7. (\A i \in DOMAIN batch : Says(batch[i]))'
  BY DEF InputInv, LastIsTrue, Says
<1>8. ASSUME NEW i \in 1 .. n - 1, t[i] # Syn, t[i].code \notin Touched,
             \A j \in 1 .. n - 1 : j > i => t[j].code # t[i].code
      PROVE  Says(t[i])
  <2>1. i + 1 \in 1 .. n /\ wire[i + 1] = t[i]
    BY <1>3
  <2>2. ASSUME NEW j \in 1 .. n, j > i + 1 PROVE wire[j].code # wire[i + 1].code
    <3>1. j # 1 /\ j - 1 > i
      BY <2>2
    <3> QED
      BY <3>1, <2>1, <1>3, <1>8
  <2> QED
    BY <2>1, <2>2, <1>3, <1>8 DEF InputInv, LastIsTrue
<1>9. ASSUME NEW c \in (Buttons \cup {"place"}) \ Touched, ~InWire(c)'
      PROVE  \/ ~InWire(c) /\ Event.code # c
             \/ Event.code = c /\ Event # Syn /\ Says(Event)
  <2>1. \A i \in 1 .. n : i # 1 => wire[i].code # c
    <3>1. \A k \in 1 .. n - 1 : t[k].code # c
      BY <1>3, <1>9 DEF InWire
    <3> QED
      BY <3>1, <1>3
  <2>2. CASE Event.code = c
    <3>1. Event # Syn
      BY <2>2, EventFacts
    <3>2. 1 \in 1 .. n /\ \A j \in 1 .. n : j > 1 => wire[j].code # wire[1].code
      BY <2>1, <2>2, <1>3
    <3> QED
      BY <2>2, <3>1, <3>2, <1>3, <1>9 DEF InputInv, LastIsTrue
  <2>3. CASE Event.code # c
    BY <2>1, <2>3, <1>3 DEF InWire
  <2> QED
    BY <2>2, <2>3
<1>10. wire' = t /\ DOMAIN t = 1 .. n - 1
  BY <1>3
<1>11. (\A i \in DOMAIN wire :
          /\ wire[i] # Syn /\ wire[i].code \notin Touched
          /\ \A j \in DOMAIN wire : j > i => wire[j].code # wire[i].code
          => Says(wire[i]))'
  BY <1>4, <1>5, <1>8, <1>10
<1>12. wire' \in Seq(Events \cup {Syn}) /\ Event \in Events \cup {Syn}
  BY <1>3
<1> QED
  BY <1>4, <1>6, <1>7, <1>9, <1>11, <1>12

\* The same for EventsPaired, which only HandleSyn disturbs.
LEMMA EventsPairedStay ==
  ASSUME EventsPaired, posted' = posted, mouse' = mouse, oldbtn' = oldbtn
  PROVE  EventsPaired'
  BY DEF EventsPaired, ClicksAlternate

\* handleEvent of a position: it counts from the EV_SYN on.
LEMMA HandleAbsKeeps == ASSUME InputInv, HandleAbs PROVE InputInv'
<1>1. /\ wire # <<>> /\ wire' = Tail(wire) /\ batch' = batch /\ hostButtons' = hostButtons
      /\ hostPlace' = hostPlace /\ knowmask' = knowmask /\ newbtn' = newbtn /\ oldbtn' = oldbtn
      /\ mouse' = mouse /\ posted' = posted /\ knowpos' = TRUE /\ place' = Event.value /\ Event.type = "abs"
  BY DEF HandleAbs
<1>2. Event # Syn
  BY <1>1, EventFacts
<1>3. /\ BatchesApart'
      /\ (\A i \in DOMAIN batch : Says(batch[i]))'
      /\ (\A i \in DOMAIN wire :
               /\ wire[i] # Syn /\ wire[i].code \notin Touched
               /\ \A j \in DOMAIN wire : j > i => wire[j].code # wire[i].code
               => Says(wire[i]))'
      /\ Touched' = Touched
      /\ wire' \in Seq(Events \cup {Syn})
      /\ Event \in Events \cup {Syn}
      /\ \A c \in (Buttons \cup {"place"}) \ Touched : ~InWire(c)' =>
              \/ ~InWire(c) /\ Event.code # c
              \/ Event.code = c /\ Event # Syn /\ Says(Event)
  BY <1>1, <1>2, OneHandled DEF InputInv, InputTypeOK
<1>4. Event \in Events /\ Event.code = "place"
  BY <1>1, <1>2, <1>3, EventFacts
<1>5. InputTypeOK'
  BY <1>1, <1>3 DEF InputInv, InputTypeOK
<1>6. ASSUME NEW b \in Buttons \ Touched, ~InWire(b)' PROVE b \in Pressed' <=> b \in hostButtons'
  <2>1. ~InWire(b)
    BY <1>3, <1>4, <1>6, EventFacts
  <2> QED
    BY <1>1, <1>6, <2>1 DEF InputInv, LastIsTrue, Pressed
<1>7. ASSUME "place" \notin Touched, ~InWire("place")' PROVE hostPlace' = IF knowpos' THEN place' ELSE mouse'.place
  BY <1>1, <1>3, <1>4, <1>7 DEF Says
<1>8. LastIsTrue'
  BY <1>3, <1>6, <1>7 DEF LastIsTrue
<1>9. EventsPaired'
  BY <1>1, EventsPairedStay DEF InputInv
<1> QED
  BY <1>3, <1>5, <1>8, <1>9 DEF InputInv

\* handleEvent of a button: the batch has spoken of it.
LEMMA HandleKeyKeeps == ASSUME InputInv, HandleKey PROVE InputInv'
<1>1. /\ wire # <<>> /\ wire' = Tail(wire) /\ batch' = batch /\ hostButtons' = hostButtons
      /\ hostPlace' = hostPlace /\ knowmask' = knowmask \cup {Event.code}
      /\ newbtn' = (IF Event.value THEN newbtn \cup {Event.code} ELSE newbtn) /\ oldbtn' = oldbtn
      /\ mouse' = mouse /\ posted' = posted /\ knowpos' = knowpos /\ place' = place /\ Event.type = "key"
  BY DEF HandleKey
<1>2. Event # Syn
  BY <1>1, EventFacts
<1>a. wire \in Seq(Events \cup {Syn}) /\ Event = Head(wire)
  BY DEF InputInv, InputTypeOK, Event
<1>b. Event \in Events \cup {Syn} /\ Event = wire[1] /\ 1 \in DOMAIN wire
  BY <1>1, <1>a, TailShifts
<1>4. Event \in Events /\ Event.code \in Buttons
  BY <1>1, <1>2, <1>b, EventFacts
<1>3. /\ BatchesApart'
      /\ (\A i \in DOMAIN batch : Says(batch[i]))'
      /\ (\A i \in DOMAIN wire :
               /\ wire[i] # Syn /\ wire[i].code \notin Touched
               /\ \A j \in DOMAIN wire : j > i => wire[j].code # wire[i].code
               => Says(wire[i]))'
      /\ Touched' = Touched
      /\ wire' \in Seq(Events \cup {Syn})
      /\ \A c \in (Buttons \cup {"place"}) \ Touched : ~InWire(c)' =>
              \/ ~InWire(c) /\ Event.code # c
              \/ Event.code = c /\ Event # Syn /\ Says(Event)
  BY <1>1, <1>2, <1>4, OneHandled DEF InputInv, InputTypeOK
<1>5. InputTypeOK'
  BY <1>1, <1>3, <1>4 DEF InputInv, InputTypeOK
<1>c. Event.code \notin newbtn
  <2>1. Event.code \notin knowmask
    BY <1>b DEF InputInv, BatchesApart
  <2> QED
    BY <2>1 DEF InputInv, InputTypeOK
<1>6. ASSUME NEW b \in Buttons \ Touched, ~InWire(b)' PROVE b \in Pressed' <=> b \in hostButtons'
  <2>1. CASE ~InWire(b) /\ Event.code # b
    BY <1>1, <1>6, <2>1 DEF InputInv, LastIsTrue, Pressed
  <2>2. CASE Event.code = b /\ Says(Event)
    <3>1. Event.value <=> b \in hostButtons
      BY <2>2, <1>6, EventFacts DEF Says
    <3> QED
      BY <1>1, <1>c, <2>2, <3>1 DEF Pressed
  <2> QED
    BY <2>1, <2>2, <1>3, <1>6
<1>7. ASSUME "place" \notin Touched, ~InWire("place")' PROVE hostPlace' = IF knowpos' THEN place' ELSE mouse'.place
  <2>1. ~InWire("place")
    BY <1>3, <1>4, <1>7, EventFacts
  <2> QED
    BY <1>1, <1>7, <2>1 DEF InputInv, LastIsTrue
<1>8. LastIsTrue'
  BY <1>3, <1>6, <1>7 DEF LastIsTrue
<1>9. EventsPaired'
  BY <1>1, EventsPairedStay DEF InputInv
<1> QED
  BY <1>3, <1>5, <1>8, <1>9 DEF InputInv

\* A click posted turns the parity of what has been posted with the button.
LEMMA ClickPairs ==
  ASSUME posted \in Seq({"mouseDown", "mouseUp"}), EventsPaired, NEW now,
         posted' = IF Clicks(now) = "none" THEN posted ELSE Append(posted, Clicks(now)),
         mouse'.down = IF Clicks(now) = "none" THEN mouse.down ELSE now # {},
         oldbtn' = now
  PROVE  EventsPaired' /\ posted' \in Seq({"mouseDown", "mouseUp"})
<1> DEFINE n == Len(posted)
<1>1. n \in Nat
  BY LenProperties
<1>2. CASE Clicks(now) = "none"
  <2>1. oldbtn # {} <=> now # {}
    BY <1>2 DEF Clicks
  <2> QED
    BY <2>1, <1>2 DEF EventsPaired, ClicksAlternate
<1>3. CASE Clicks(now) # "none"
  <2>1. (oldbtn # {} <=> now = {}) /\ Clicks(now) = (IF now # {} THEN "mouseDown" ELSE "mouseUp")
    BY <1>3 DEF Clicks
  <2>2. /\ posted' = Append(posted, Clicks(now)) /\ posted' \in Seq({"mouseDown", "mouseUp"})
        /\ Len(posted') = n + 1 /\ posted'[n + 1] = Clicks(now)
        /\ \A i \in 1 .. n : posted'[i] = posted[i]
    BY <1>3, <2>1, AppendProperties
  <2> HIDE DEF n
  <2>3. n % 2 = 1 <=> now = {}
    BY <2>1 DEF EventsPaired, n
  <2>4. (n + 1) % 2 = 1 <=> now # {}
    BY <2>3, <1>1
  <2>5. \A i \in 1 .. n : posted[i] = IF i % 2 = 1 THEN "mouseDown" ELSE "mouseUp"
    BY DEF EventsPaired, ClicksAlternate, n
  <2>6. \A i \in 1 .. n + 1 : posted'[i] = IF i % 2 = 1 THEN "mouseDown" ELSE "mouseUp"
    <3>1. posted'[n + 1] = IF (n + 1) % 2 = 1 THEN "mouseDown" ELSE "mouseUp"
      BY <2>1, <2>2, <2>4
    <3>2. \A i \in 1 .. n + 1 : i \in 1 .. n \/ i = n + 1
      BY <1>1
    <3> QED
      BY <2>2, <2>5, <3>1, <3>2
  <2>7. mouse'.down <=> oldbtn' # {}
    BY <1>3
  <2> QED
    BY <2>2, <2>4, <2>6, <2>7 DEF EventsPaired, ClicksAlternate
<1> QED
  BY <1>2, <1>3

\* handleEvent of an EV_SYN: what the batch spoke of is taken over, and a click
\* is posted if the one button of the system changes.
LEMMA HandleSynKeeps == ASSUME InputInv, HandleSyn PROVE InputInv'
<1>1. /\ wire # <<>> /\ wire' = Tail(wire) /\ batch' = batch /\ hostButtons' = hostButtons
      /\ hostPlace' = hostPlace /\ knowmask' = {} /\ newbtn' = {} /\ oldbtn' = Pressed
      /\ mouse'.place = (IF knowpos THEN place ELSE mouse.place)
      /\ mouse'.down = (IF Clicks(Pressed) = "none" THEN mouse.down ELSE Pressed # {})
      /\ posted' = (IF Clicks(Pressed) = "none" THEN posted ELSE Append(posted, Clicks(Pressed)))
      /\ knowpos' = FALSE /\ place' = place /\ Event.type = "syn"
  BY DEF HandleSyn
<1>a. wire \in Seq(Events \cup {Syn}) /\ Event = Head(wire)
  BY DEF InputInv, InputTypeOK, Event
<1>b. Event \in Events \cup {Syn}
  BY <1>1, <1>a, TailShifts
<1>2. Event = Syn /\ Event.code = "none"
  BY <1>1, <1>b, EventFacts
<1>3. /\ BatchesApart'
      /\ (\A i \in DOMAIN batch : Says(batch[i]))'
      /\ (\A i \in DOMAIN wire :
               /\ wire[i] # Syn /\ wire[i].code \notin Touched
               /\ \A j \in DOMAIN wire : j > i => wire[j].code # wire[i].code
               => Says(wire[i]))'
      /\ Touched' = Touched
      /\ wire' \in Seq(Events \cup {Syn})
      /\ \A c \in (Buttons \cup {"place"}) \ Touched : ~InWire(c)' =>
              \/ ~InWire(c) /\ Event.code # c
              \/ Event.code = c /\ Event # Syn /\ Says(Event)
  BY <1>1, OneHandled
<1>4. EventsPaired' /\ posted' \in Seq({"mouseDown", "mouseUp"})
  BY <1>1, ClickPairs DEF InputInv, InputTypeOK
<1>5. InputTypeOK'
  BY <1>1, <1>3, <1>4 DEF InputInv, InputTypeOK, Pressed
<1>c. \A c \in (Buttons \cup {"place"}) \ Touched : ~InWire(c)' => ~InWire(c)
  BY <1>2, <1>3
<1>6. ASSUME NEW b \in Buttons \ Touched, ~InWire(b)' PROVE b \in Pressed' <=> b \in hostButtons'
  BY <1>1, <1>c, <1>6 DEF InputInv, LastIsTrue, Pressed
<1>7. ASSUME "place" \notin Touched, ~InWire("place")' PROVE hostPlace' = IF knowpos' THEN place' ELSE mouse'.place
  BY <1>1, <1>c, <1>7 DEF InputInv, LastIsTrue
<1>8. LastIsTrue'
  BY <1>3, <1>6, <1>7 DEF LastIsTrue
<1> QED
  BY <1>3, <1>4, <1>5, <1>8 DEF InputInv

\* At first nothing is pressed and nothing underway.
LEMMA InputStarts == ASSUME InputInit PROVE InputInv
<1>1. /\ hostButtons = {} /\ hostPlace = "none" /\ batch = <<>> /\ wire = <<>> /\ knowpos = FALSE
      /\ knowmask = {} /\ newbtn = {} /\ oldbtn = {} /\ posted = <<>>
      /\ mouse = [place |-> "none", down |-> FALSE, control |-> FALSE]
  BY DEF InputInit
<1>2. InputTypeOK
  <2>1. mouse.down \in BOOLEAN
    BY <1>1
  <2>2. batch \in Seq(Events) /\ wire \in Seq(Events \cup {Syn}) /\ posted \in Seq({"mouseDown", "mouseUp"})
    BY <1>1
  <2> QED
    BY <1>1, <2>1, <2>2 DEF InputTypeOK
<1>3. BatchesApart
  BY <1>1 DEF BatchesApart
<1>4. LastIsTrue
  <2>1. \A b \in Buttons : b \notin Pressed /\ b \notin hostButtons
    BY <1>1 DEF Pressed
  <2>2. mouse.place = "none"
    BY <1>1
  <2> QED
    BY <1>1, <2>1, <2>2 DEF LastIsTrue
<1>5. EventsPaired
  <2>1. mouse.down = FALSE
    BY <1>1
  <2>2. Len(posted) = 0 /\ ClicksAlternate
    BY <1>1 DEF ClicksAlternate
  <2> QED
    BY <1>1, <2>1, <2>2 DEF EventsPaired
<1> QED
  BY <1>2, <1>3, <1>4, <1>5 DEF InputInv

\* The host says one thing more, which the wire does not yet speak of.
LEMMA OneMoreSaid ==
  ASSUME InputInv, NEW e \in Events, e.code \notin Touched, batch' = Append(batch, e),
         wire' = wire, knowmask' = knowmask, knowpos' = knowpos, place' = place, newbtn' = newbtn,
         oldbtn' = oldbtn, mouse' = mouse, posted' = posted,
         Says(e)', \A f : f.code # e.code => (Says(f)' <=> Says(f)),
         \A b \in Buttons : b # e.code => (b \in hostButtons' <=> b \in hostButtons),
         hostButtons' \subseteq Buttons, e.code # "place" => hostPlace' = hostPlace
  PROVE  InputInv'
<1> DEFINE n == Len(batch)
           s == batch'
<1>1. batch \in Seq(Events) /\ n \in Nat /\ DOMAIN batch = 1 .. n
  BY LenProperties DEF InputInv, InputTypeOK
<1>2. /\ s \in Seq(Events) /\ Len(s) = n + 1 /\ DOMAIN s = 1 .. n + 1
      /\ \A i \in 1 .. n : s[i] = batch[i]
      /\ s[n + 1] = e
  BY <1>1, AppendProperties, LenProperties
<1>3. Touched = {batch[i].code : i \in 1 .. n} /\ Touched' = {s[i].code : i \in 1 .. n + 1}
  BY <1>2 DEF Touched
<1> HIDE DEF n, s
<1>4. \A i \in 1 .. n + 1 : i \in 1 .. n \/ i = n + 1
  BY <1>1
<1>5. Touched' = Touched \cup {e.code}
  <2>1. 1 .. n \subseteq 1 .. n + 1 /\ n + 1 \in 1 .. n + 1
    BY <1>1
  <2> QED
    BY <1>2, <1>3, <1>4, <2>1
<1>6. \A i \in 1 .. n : batch[i].code # e.code
  BY <1>3
<1>7. InputTypeOK'
  BY <1>2 DEF InputInv, InputTypeOK, s
<1>8. BatchesApart'
  <2>1. ASSUME NEW i \in 1 .. n + 1, NEW j \in 1 .. n + 1, s[i].code = s[j].code PROVE i = j
    <3>1. \A k, l \in 1 .. n : batch[k].code = batch[l].code => k = l
      BY <1>1 DEF InputInv, BatchesApart
    <3> QED
      BY <1>2, <1>4, <1>6, <2>1, <3>1
  <2>2. (\A i, j \in DOMAIN batch : batch[i].code = batch[j].code => i = j)'
    BY <1>2, <2>1 DEF s
  <2> QED
    BY <2>2 DEF InputInv, BatchesApart
<1>9. LastIsTrue'
  <2>1. (\A i \in DOMAIN batch : Says(batch[i]))'
    <3>1. ASSUME NEW i \in 1 .. n PROVE Says(batch[i])'
      BY <1>1, <1>6, <3>1 DEF InputInv, LastIsTrue, Says
    <3>2. ASSUME NEW i \in 1 .. n + 1 PROVE (e \in Events /\ s[i].code # e.code) \/ s[i] = e
      BY <1>2, <1>4, <1>6
    <3>3. ASSUME NEW i \in 1 .. n, NEW f, f = batch[i] PROVE Says(f)'
      <4>1. Says(f) /\ f.code # e.code
        BY <1>1, <1>6, <3>3 DEF InputInv, LastIsTrue
      <4> QED
        BY <4>1
    <3>4. ASSUME NEW i \in 1 .. n + 1, NEW f, f = s[i] PROVE Says(f)'
      <4>1. CASE i = n + 1
        BY <4>1, <1>2, <3>4
      <4>2. CASE i \in 1 .. n
        BY <4>2, <1>2, <3>3, <3>4
      <4> QED
        BY <1>4, <4>1, <4>2
    <3> QED
      BY <1>2, <3>4 DEF s, Says
  <2>2. (\A i \in DOMAIN wire :
           /\ wire[i] # Syn /\ wire[i].code \notin Touched
           /\ \A j \in DOMAIN wire : j > i => wire[j].code # wire[i].code
           => Says(wire[i]))'
    <3>1. ASSUME NEW i \in DOMAIN wire, NEW f, f = wire[i], f # Syn, f.code \notin Touched',
                 \A j \in DOMAIN wire : j > i => wire[j].code # f.code
          PROVE  Says(f)'
      <4>1. Says(f) /\ f.code # e.code
        BY <1>5, <3>1 DEF InputInv, LastIsTrue
      <4> QED
        BY <4>1
    <3> QED
      BY <1>5, <3>1 DEF Says
  <2>3. Pressed' = Pressed /\ \A c : InWire(c)' <=> InWire(c)
    BY DEF Pressed, InWire
  <2>4. (\A b \in Buttons \ Touched : ~InWire(b) => (b \in Pressed <=> b \in hostButtons))'
    BY <1>5, <2>3 DEF InputInv, LastIsTrue
  <2>5. ("place" \notin Touched /\ ~InWire("place") => hostPlace = IF knowpos THEN place ELSE mouse.place)'
    BY <1>5, <2>3 DEF InputInv, LastIsTrue
  <2> QED
    BY <2>1, <2>2, <2>4, <2>5 DEF LastIsTrue
<1>10. EventsPaired'
  BY EventsPairedStay DEF InputInv
<1> QED
  BY <1>7, <1>8, <1>9, <1>10 DEF InputInv

\* The host presses or releases a button the batch has not spoken of.
LEMMA HostPressesKeeps == ASSUME InputInv, NEW b \in Buttons, HostPresses(b) PROVE InputInv'
<1>1. PICK e \in Events : /\ e = Key(b, b \notin hostButtons) /\ e.code = b /\ e.code # "place"
                          /\ e.value = (b \notin hostButtons)
  <2> DEFINE d == b \notin hostButtons
             f == Key(b, d)
  <2>1. d \in BOOLEAN /\ f = [type |-> "key", code |-> b, value |-> d]
    BY DEF Key
  <2>a. f = Key(b, b \notin hostButtons)
    OBVIOUS
  <2> HIDE DEF d
  <2>2. f \in Events
    BY <2>1 DEF Events, Key
  <2>3. f.code = b /\ f.value = d
    BY <2>1
  <2>4. b # "place"
    BY DEF Buttons
  <2> HIDE DEF f
  <2> QED
    BY <2>a, <2>2, <2>3, <2>4 DEF d
<1>2. /\ b \notin Touched /\ batch' = Append(batch, e) /\ hostPlace' = hostPlace
      /\ hostButtons' = (IF b \in hostButtons THEN hostButtons \ {b} ELSE hostButtons \cup {b})
      /\ wire' = wire /\ knowmask' = knowmask /\ knowpos' = knowpos /\ place' = place
      /\ newbtn' = newbtn /\ oldbtn' = oldbtn /\ mouse' = mouse /\ posted' = posted
  BY <1>1 DEF HostPresses
<1>3. hostButtons' \subseteq Buttons
  BY <1>2 DEF InputInv, InputTypeOK
<1>4. \A f : f.code # b => (f.code \in hostButtons' <=> f.code \in hostButtons)
  BY <1>2
<1>5. \A f : f.code # e.code => (Says(f)' <=> Says(f))
  BY <1>1, <1>2, <1>4 DEF Says
<1>6. Says(e)'
  <2>1. b \in hostButtons' <=> b \notin hostButtons
    BY <1>2
  <2>2. (e.value <=> b \notin hostButtons) /\ e.code # "place" /\ e.code = b
    BY <1>1
  <2> QED
    BY <2>1, <2>2 DEF Says
<1>7. \A c \in Buttons : c # e.code => (c \in hostButtons' <=> c \in hostButtons)
  BY <1>1, <1>2
<1> QED
  BY <1>1, <1>2, <1>3, <1>5, <1>6, <1>7, OneMoreSaid

\* The host moves the pointer.
LEMMA HostMovesKeeps == ASSUME InputInv, NEW p \in Places, HostMoves(p) PROVE InputInv'
<1> DEFINE e == Abs(p)
<1>1. e \in Events /\ e.code = "place" /\ e.value = p
  BY DEF Events, Abs
<1>2. /\ "place" \notin Touched /\ batch' = Append(batch, e) /\ hostPlace' = p
      /\ hostButtons' = hostButtons
      /\ wire' = wire /\ knowmask' = knowmask /\ knowpos' = knowpos /\ place' = place
      /\ newbtn' = newbtn /\ oldbtn' = oldbtn /\ mouse' = mouse /\ posted' = posted
  BY DEF HostMoves
<1> HIDE DEF e
<1>3. hostButtons' \subseteq Buttons
  BY <1>2 DEF InputInv, InputTypeOK
<1>5. \A f : f.code # e.code => (Says(f)' <=> Says(f))
  BY <1>1, <1>2 DEF Says
<1>6. Says(e)'
  BY <1>1, <1>2 DEF Says
<1> QED
  BY <1>1, <1>2, <1>3, <1>5, <1>6, OneMoreSaid

\* The batch goes out behind what is on the wire, and an EV_SYN behind it.
LEMMA SentBehind ==
  ASSUME NEW w \in Seq(Events \cup {Syn}), NEW s \in Seq(Events)
  PROVE  LET v == w \o s \o <<Syn>> IN
         /\ v \in Seq(Events \cup {Syn}) /\ Len(v) = (Len(w) + Len(s)) + 1
         /\ \A i \in 1 .. Len(w) : v[i] = w[i]
         /\ \A i \in 1 .. Len(s) : v[Len(w) + i] = s[i]
         /\ v[(Len(w) + Len(s)) + 1] = Syn
<1> DEFINE T == Events \cup {Syn}
           u == w \o s
           z == <<Syn>>
           v == u \o z
<1>1. s \in Seq(T) /\ z \in Seq(T) /\ Len(z) = 1 /\ z[1] = Syn
  OBVIOUS
<1>2. /\ u \in Seq(T) /\ Len(u) = Len(w) + Len(s)
      /\ \A i \in 1 .. Len(u) : u[i] = IF i <= Len(w) THEN w[i] ELSE s[i - Len(w)]
  BY <1>1, ConcatProperties
<1>3. /\ v \in Seq(T) /\ Len(v) = Len(u) + 1
      /\ \A i \in 1 .. Len(u) + 1 : v[i] = IF i <= Len(u) THEN u[i] ELSE z[i - Len(u)]
  <2>1. u \in Seq(T) /\ z \in Seq(T)
    BY <1>1, <1>2
  <2> HIDE DEF u, z, T
  <2>2. /\ u \o z \in Seq(T) /\ Len(u \o z) = Len(u) + Len(z)
        /\ \A i \in 1 .. Len(u) + Len(z) : (u \o z)[i] = IF i <= Len(u) THEN u[i] ELSE z[i - Len(u)]
    BY <2>1, ConcatProperties
  <2> QED
    BY <1>1, <2>2
<1> DEFINE m == Len(w)
           k == Len(s)
<1>4. m \in Nat /\ k \in Nat
  BY LenProperties
<1>5. Len(u) = m + k
  BY <1>2
<1> HIDE DEF u, z, m, k, v
<1>6. \A i \in 1 .. m : v[i] = w[i]
  <2>1. \A i \in 1 .. m : i \in 1 .. m + k /\ i \in 1 .. (m + k) + 1 /\ i <= m + k /\ i <= m
    BY <1>4
  <2> QED
    BY <1>2, <1>3, <1>5, <2>1 DEF m
<1>7. \A i \in 1 .. k : v[m + i] = s[i]
  <2>1. \A i \in 1 .. k : m + i \in 1 .. m + k /\ m + i \in 1 .. (m + k) + 1 /\ m + i <= m + k
                          /\ ~(m + i <= m) /\ (m + i) - m = i
    BY <1>4
  <2> QED
    BY <1>2, <1>3, <1>5, <2>1 DEF m
<1>8. v[(m + k) + 1] = Syn
  <2>1. (m + k) + 1 \in 1 .. (m + k) + 1 /\ ~((m + k) + 1 <= m + k) /\ ((m + k) + 1) - (m + k) = 1
    BY <1>4
  <2> QED
    BY <1>1, <1>3, <1>5, <2>1
<1>9. v = w \o s \o <<Syn>>
  BY DEF v, u, z
<1> QED
  BY <1>3, <1>5, <1>6, <1>7, <1>8, <1>9 DEF m, k

\* The batch is sent, with its EV_SYN, into the buffers the driver posted.
LEMMA HostSyncsKeeps == ASSUME InputInv, HostSyncs PROVE InputInv'
<1> DEFINE m == Len(wire)
           n == Len(batch)
           v == wire'
<1>1. wire \in Seq(Events \cup {Syn}) /\ batch \in Seq(Events)
  BY DEF InputInv, InputTypeOK
<1>2. /\ batch # <<>> /\ v = wire \o batch \o <<Syn>> /\ batch' = <<>>
      /\ hostButtons' = hostButtons /\ hostPlace' = hostPlace /\ knowpos' = knowpos /\ place' = place
      /\ knowmask' = knowmask /\ newbtn' = newbtn /\ oldbtn' = oldbtn /\ mouse' = mouse /\ posted' = posted
  BY DEF HostSyncs
<1>3. m \in Nat /\ n \in Nat /\ DOMAIN wire = 1 .. m /\ DOMAIN batch = 1 .. n
  BY <1>1, LenProperties
<1>4. /\ v \in Seq(Events \cup {Syn}) /\ Len(v) = (m + n) + 1
      /\ \A i \in 1 .. m : v[i] = wire[i]
      /\ \A i \in 1 .. n : v[m + i] = batch[i]
      /\ v[(m + n) + 1] = Syn
  BY <1>1, <1>2, SentBehind
<1>5. DOMAIN v = 1 .. (m + n) + 1
  BY <1>4, LenProperties
<1>6. Touched = {batch[i].code : i \in 1 .. n} /\ Touched' = {}
  BY <1>2 DEF Touched
<1>7. /\ \A i \in 1 .. n : batch[i] \in Events
      /\ \A i \in 1 .. m : wire[i] \in Events \cup {Syn}
  BY <1>1, <1>3, ElementOfSeq
<1>a. /\ \A i, j \in 1 .. n : batch[i].code = batch[j].code => i = j
      /\ \A i, j \in 1 .. m : i < j /\ wire[i].code = wire[j].code /\ wire[i].code \in Buttons
            => \E k \in i + 1 .. j - 1 : wire[k] = Syn
      /\ \A i \in 1 .. m : wire[i].code \in knowmask => \E k \in 1 .. i - 1 : wire[k] = Syn
  BY <1>3 DEF InputInv, BatchesApart
<1>b. m > 0 => wire[m] = Syn
  BY <1>1, EmptySeq DEF InputInv, BatchesApart
<1>c. m = 0 => knowmask = {} /\ ~knowpos
  BY <1>1, EmptySeq DEF InputInv, BatchesApart
<1> HIDE DEF m, n, v
\* Each event is an old one, one of the batch, or the EV_SYN at the end.
<1>8. ASSUME NEW i \in 1 .. (m + n) + 1
      PROVE  \/ i \in 1 .. m /\ v[i] = wire[i]
             \/ i - m \in 1 .. n /\ v[i] = batch[i - m] /\ i > m
             \/ i = (m + n) + 1 /\ v[i] = Syn
  <2>1. i \in 1 .. m \/ (i - m \in 1 .. n /\ i > m /\ m + (i - m) = i) \/ i = (m + n) + 1
    BY <1>3
  <2> QED
    BY <1>4, <2>1
<1>9. InputTypeOK'
  BY <1>2, <1>4 DEF InputInv, InputTypeOK, v
<1>10. BatchesApart'
  <2>1. (\A i, j \in DOMAIN batch : batch[i].code = batch[j].code => i = j)'
    BY <1>2
  <2>2. ASSUME NEW i \in 1 .. (m + n) + 1, NEW j \in 1 .. (m + n) + 1,
               i < j, v[i].code = v[j].code, v[i].code \in Buttons
        PROVE  \E k \in i + 1 .. j - 1 : v[k] = Syn
    <3>1. v[i] # Syn /\ v[j] # Syn
      BY <2>2, EventFacts
    <3>2. CASE i \in 1 .. m /\ j \in 1 .. m
      <4>1. PICK k \in i + 1 .. j - 1 : wire[k] = Syn
        BY <1>4, <1>a, <2>2, <3>2
      <4>2. k \in 1 .. m
        BY <1>3, <3>2
      <4> QED
        BY <1>4, <4>1, <4>2
    <3>3. CASE i \in 1 .. m /\ j > m
      <4>1. m > 0 /\ m \in 1 .. m
        BY <1>3, <3>3
      <4>2. v[m] = Syn
        BY <1>4, <1>b, <4>1
      <4>3. m \in i + 1 .. j - 1
        BY <1>3, <3>1, <3>3, <4>2
      <4> QED
        BY <4>2, <4>3
    <3>4. CASE i > m
      <4>1. i - m \in 1 .. n /\ v[i] = batch[i - m]
        BY <1>3, <1>8, <3>1, <3>4
      <4>2. j - m \in 1 .. n /\ v[j] = batch[j - m]
        BY <1>3, <1>8, <2>2, <3>1, <3>4
      <4>3. i - m = j - m
        BY <1>a, <2>2, <4>1, <4>2
      <4> QED
        BY <1>3, <2>2, <4>3
    <3> QED
      BY <1>3, <2>2, <3>2, <3>3, <3>4
  <2>3. ASSUME NEW i \in 1 .. (m + n) + 1, v[i].code \in knowmask
        PROVE  \E k \in 1 .. i - 1 : v[k] = Syn
    <3>1. v[i] # Syn
      BY <2>3, EventFacts DEF InputInv, InputTypeOK
    <3>2. CASE i \in 1 .. m
      <4>1. PICK k \in 1 .. i - 1 : wire[k] = Syn
        BY <1>4, <1>a, <2>3, <3>2
      <4>2. k \in 1 .. m
        BY <1>3, <3>2
      <4> QED
        BY <1>4, <4>1, <4>2
    <3>3. CASE i > m
      <4>1. m > 0 /\ m \in 1 .. m /\ m \in 1 .. i - 1
        BY <1>3, <1>c, <2>3, <3>3
      <4> QED
        BY <1>4, <1>b, <4>1
    <3> QED
      BY <1>3, <3>2, <3>3
  <2>4. v # <<>> /\ v[Len(v)] = Syn
    <3>1. Len(v) # 0
      BY <1>3, <1>4
    <3> QED
      BY <1>4, <3>1
  <2>5. (\A i, j \in DOMAIN wire : i < j /\ wire[i].code = wire[j].code /\ wire[i].code \in Buttons
             => \E k \in i + 1 .. j - 1 : wire[k] = Syn)'
    BY <1>5, <2>2 DEF v
  <2>6. (\A i \in DOMAIN wire : wire[i].code \in knowmask => \E k \in 1 .. i - 1 : wire[k] = Syn)'
    BY <1>2, <1>5, <2>3 DEF v
  <2>7. (wire # <<>> => wire[Len(wire)] = Syn)' /\ (wire = <<>> => knowmask = {} /\ ~knowpos)'
    BY <2>4 DEF v
  <2> QED
    BY <2>1, <2>5, <2>6, <2>7 DEF BatchesApart
<1>11. \A f : Says(f)' <=> Says(f)
  BY <1>2 DEF Says
<1>12. \A c \in Buttons \cup {"place"} : ~InWire(c)' => ~InWire(c) /\ c \notin Touched
  <2>1. ASSUME NEW c, \A i \in 1 .. (m + n) + 1 : v[i].code # c
        PROVE  (\A i \in 1 .. m : wire[i].code # c) /\ (\A i \in 1 .. n : batch[i].code # c)
    <3>1. \A i \in 1 .. m : i \in 1 .. (m + n) + 1
      BY <1>3
    <3>2. \A i \in 1 .. n : m + i \in 1 .. (m + n) + 1
      BY <1>3
    <3> QED
      BY <1>4, <2>1, <3>1, <3>2
  <2> QED
    BY <1>3, <1>5, <1>6, <2>1 DEF InWire, v
<1>13. LastIsTrue'
  <2>1. (\A i \in DOMAIN batch : Says(batch[i]))'
    BY <1>2
  <2>2. ASSUME NEW i \in 1 .. (m + n) + 1, v[i] # Syn,
               \A j \in 1 .. (m + n) + 1 : j > i => v[j].code # v[i].code
        PROVE  Says(v[i])
    <3>1. CASE i > m
      <4>1. i - m \in 1 .. n /\ v[i] = batch[i - m]
        BY <1>3, <1>8, <2>2, <3>1
      <4> QED
        BY <1>3, <4>1 DEF InputInv, LastIsTrue
    <3>2. CASE i \in 1 .. m
      <4>1. v[i] = wire[i]
        BY <1>4, <3>2
      <4>2. wire[i].code \notin Touched
        <5>1. \A j \in 1 .. n : m + j \in 1 .. (m + n) + 1 /\ m + j > i
          BY <1>3, <3>2
        <5> QED
          BY <1>4, <1>6, <2>2, <4>1, <5>1
      <4>3. \A j \in 1 .. m : j > i => wire[j].code # wire[i].code
        <5>1. \A j \in 1 .. m : j \in 1 .. (m + n) + 1
          BY <1>3
        <5> QED
          BY <1>4, <2>2, <4>1, <5>1
      <4> QED
        BY <1>3, <2>2, <3>2, <4>1, <4>2, <4>3 DEF InputInv, LastIsTrue
    <3> QED
      BY <1>3, <3>1, <3>2
  <2>3. (\A i \in DOMAIN wire :
           /\ wire[i] # Syn /\ wire[i].code \notin Touched
           /\ \A j \in DOMAIN wire : j > i => wire[j].code # wire[i].code
           => Says(wire[i]))'
    BY <1>5, <1>11, <2>2 DEF v
  <2>4. Pressed' = Pressed
    BY <1>2 DEF Pressed
  <2>5. (\A b \in Buttons \ Touched : ~InWire(b) => (b \in Pressed <=> b \in hostButtons))'
    BY <1>2, <1>12, <2>4 DEF InputInv, LastIsTrue
  <2>6. ("place" \notin Touched /\ ~InWire("place") => hostPlace = IF knowpos THEN place ELSE mouse.place)'
    BY <1>2, <1>12 DEF InputInv, LastIsTrue
  <2> QED
    BY <2>1, <2>3, <2>5, <2>6 DEF LastIsTrue
<1>14. EventsPaired'
  BY <1>2, EventsPairedStay DEF InputInv
<1> QED
  BY <1>9, <1>10, <1>13, <1>14 DEF InputInv

\* A step of another component changes nothing here.
LEMMA InputStutters == ASSUME InputInv, UNCHANGED inputVars PROVE InputInv'
<1>1. /\ hostButtons' = hostButtons /\ hostPlace' = hostPlace /\ batch' = batch /\ wire' = wire
      /\ knowpos' = knowpos /\ place' = place /\ knowmask' = knowmask /\ newbtn' = newbtn
      /\ oldbtn' = oldbtn /\ mouse' = mouse /\ posted' = posted
  BY DEF inputVars
<1>2. InputTypeOK' /\ BatchesApart'
  BY <1>1 DEF InputInv, InputTypeOK, BatchesApart
<1>3. EventsPaired'
  BY <1>1, EventsPairedStay DEF InputInv
<1>4. Touched' = Touched /\ Pressed' = Pressed
  BY <1>1 DEF Touched, Pressed
<1>5. LastIsTrue'
  BY <1>1, <1>4 DEF InputInv, LastIsTrue, Says, InWire
<1> QED
  BY <1>2, <1>3, <1>5 DEF InputInv

\* In every state of the tablet driver the last word on each button and on the
\* place is true, a batch speaks of each button once and ends with an EV_SYN,
\* and the events posted match the button (handleEvent).
THEOREM InputInvariant == InputSpec => []InputInv
<1>1. InputInit => InputInv
  BY InputStarts
<1>2. InputInv /\ [InputNext]_inputVars => InputInv'
  BY HostPressesKeeps, HostMovesKeeps, HostSyncsKeeps, HandleAbsKeeps, HandleKeyKeeps, HandleSynKeeps,
     InputStutters DEF InputNext
<1> QED
  BY <1>1, <1>2, PTL DEF InputSpec

\* However the host's events are batched and delayed, once handleEvent has
\* handled them all the system's pointer and button are the host's, and the
\* mouseDown and mouseUp events it posted take turns: MouseFollowed, for any
\* number of buffers, places and batches.
THEOREM MouseIsFollowed == InputSpec => []MouseFollowed
<1>1. InputInv => MouseFollowed
  <2> SUFFICES ASSUME InputInv PROVE MouseFollowed
    OBVIOUS
  <2>1. ClicksAlternate
    BY DEF InputInv, EventsPaired
  <2>2. ASSUME Quiet
        PROVE  oldbtn = hostButtons /\ mouse.down = (hostButtons # {}) /\ mouse.place = hostPlace
    <3>1. wire = <<>> /\ batch = <<>> /\ knowmask = {} /\ ~knowpos
      BY <2>2 DEF Quiet, InputInv, BatchesApart
    <3>2. Touched = {} /\ \A c : ~InWire(c)
      BY <3>1 DEF Touched, InWire
    <3>3. Pressed = oldbtn
      BY <3>1 DEF Pressed
    <3>4. oldbtn = hostButtons
      BY <3>2, <3>3 DEF InputInv, LastIsTrue, InputTypeOK
    <3>5. mouse.place = hostPlace
      BY <3>1, <3>2 DEF InputInv, LastIsTrue
    <3>6. (mouse.down <=> hostButtons # {}) /\ mouse.down \in BOOLEAN
      BY <3>4 DEF InputInv, EventsPaired, InputTypeOK
    <3>7. mouse.down = (hostButtons # {})
      BY <3>6
    <3> QED
      BY <3>4, <3>5, <3>7
  <2> QED
    BY <2>1, <2>2 DEF MouseFollowed, MouseTrue
<1> QED
  BY <1>1, InputInvariant, PTL

-----------------------------------------------------------------------------
(***************************************************************************)
(* Block, for any sizes of sectors, pages and queue, any partition map and *)
(* reads of any length.                                                    *)
(***************************************************************************)

\* A whole number of sectors.
Whole(x) == \E k \in Nat : x = k * Sector

\* The HFS partitions among the first entries of the map, and the one chosen by then.
HFSUpTo(n)   == {i \in 1 .. n : map.parts[i].type = "Apple_HFS"}
ChosenUpTo(n) == IF HFSUpTo(n) = {} THEN NoEntry ELSE map.parts[Max(HFSUpTo(n))]

MapShape ==
  /\ map.sbBlkSize \in Nat /\ Scale \in Nat /\ Scale > 0 /\ map.sbBlkSize = Scale * Sector
  /\ Len(map.parts) \in Nat /\ DOMAIN map.parts = 1 .. Len(map.parts)
  /\ \A i \in 1 .. Len(map.parts) : map.parts[i].type # "none" /\ map.parts[i].start \in Nat /\ map.parts[i].count \in Nat

VolumeRight ==
  IF HFSUpTo(Len(map.parts)) = {} THEN firstblock = 0 /\ numblocks = Capacity
  ELSE /\ firstblock = Scale * map.parts[Max(HFSUpTo(Len(map.parts)))].start
       /\ numblocks = Scale * map.parts[Max(HFSUpTo(Len(map.parts)))].count

RequestWhole ==
  /\ request.pos \in Nat /\ request.count \in Nat /\ request.offset \in Nat
  /\ Whole(request.pos) /\ Whole(request.count) /\ IsFiniteSet(request.cuts)
  /\ ioActCount \in Nat /\ ioActCount <= request.count /\ Whole(ioActCount)

\* Passes end between sectors: what has been read is a whole number of them, and the
\* rest of the read begins with one.
BlockInv ==
  /\ MapShape /\ firstblock \in Nat
  /\ phase \in {"start", "probing", "ready", "reading", "panic"}
  /\ phase = "probing" =>
       /\ firstblock = 0 /\ numblocks = Capacity /\ index \in Nat /\ index < Len(map.parts)
       /\ chosen = ChosenUpTo(index)
  /\ phase \in {"ready", "reading", "panic"} => VolumeRight
  /\ phase = "reading" => RequestWhole /\ buffer \in Seq(Int) /\ DataTrue
  /\ PanicMeansScattered

\* What the sizes of Block are.
LEMMA BlockFacts ==
  /\ Sector \in Nat /\ Sector > 0 /\ PageBytes \in Nat /\ PageBytes > 0 /\ PageBytes % Sector = 0
  /\ buffers \in Nat /\ buffers - 2 \in Nat /\ buffers - 2 > 0 /\ Capacity \in Nat
  BY BlockAssumption

\* What the device takes is a whole number of sectors.
LEMMA WholeIs ==
  ASSUME NEW x \in Nat
  PROVE  (x % Sector = 0) <=> Whole(x)
<1>1. ASSUME x % Sector = 0 PROVE Whole(x)
  <2>1. x \div Sector \in Nat /\ x = Sector * (x \div Sector)
    BY <1>1, BlockFacts
  <2>2. x = (x \div Sector) * Sector
    BY <2>1, BlockFacts
  <2> QED
    BY <2>1, <2>2 DEF Whole
<1>2. ASSUME NEW k \in Nat, x = k * Sector PROVE x % Sector = 0
  BY <1>2, BlockFacts
<1> QED
  BY <1>1, <1>2 DEF Whole

\* Whole numbers of sectors add up to one, and leave one.
LEMMA WholeSum ==
  ASSUME NEW x \in Nat, NEW y \in Nat, Whole(x), Whole(y)
  PROVE  Whole(x + y) /\ (x >= y => Whole(x - y))
<1>1. PICK k \in Nat : x = k * Sector
  BY DEF Whole
<1>2. PICK l \in Nat : y = l * Sector
  BY DEF Whole
<1>3. k + l \in Nat /\ x + y = (k + l) * Sector
  BY <1>1, <1>2, BlockFacts
<1>4. ASSUME x >= y PROVE Whole(x - y)
  <2>1. k >= l
    BY <1>1, <1>2, <1>4, BlockFacts
  <2>2. k - l \in Nat /\ x - y = (k - l) * Sector
    BY <1>1, <1>2, <2>1, BlockFacts
  <2> QED
    BY <2>2 DEF Whole
<1> QED
  BY <1>3, <1>4 DEF Whole

\* A whole number of sectors comes back from its number (the sector that
\* DriverRead asks for).
LEMMA WholeDivided ==
  ASSUME NEW x \in Nat, Whole(x)
  PROVE  x \div Sector \in Nat /\ (x \div Sector) * Sector = x
<1>1. PICK k \in Nat : x = k * Sector
  BY DEF Whole
<1>2. x \div Sector = k
  BY <1>1, BlockFacts
<1> QED
  BY <1>1, <1>2

\* Pages end between sectors.
LEMMA PagesWhole ==
  ASSUME NEW x \in Nat, x % PageBytes = 0
  PROVE  Whole(x)
<1>1. PICK p \in Nat : PageBytes = p * Sector
  BY WholeIs, BlockFacts DEF Whole
<1>2. x \div PageBytes \in Nat /\ x = PageBytes * (x \div PageBytes)
  BY BlockFacts
<1>3. PICK q \in Nat : x = PageBytes * q
  BY <1>2
<1>4. q * p \in Nat /\ x = (q * p) * Sector
  BY <1>1, <1>3, BlockFacts
<1> QED
  BY <1>4 DEF Whole

\* The largest of a set of numbers with a bound.
LEMMA MaxIs ==
  ASSUME NEW S \in SUBSET Nat, S # {}, NEW top \in Nat, \A x \in S : x <= top
  PROVE  Max(S) \in S /\ \A y \in S : Max(S) >= y
<1> DEFINE D == {top - x : x \in S}
<1>1. D \in SUBSET Nat /\ D # {}
  <2>1. \A x \in S : x \in Nat /\ top - x \in Nat
    OBVIOUS
  <2>2. PICK x \in S : TRUE
    OBVIOUS
  <2>3. top - x \in D
    BY <2>2
  <2> QED
    BY <2>1, <2>3
<1>2. PICK d \in D : \A e \in D : d <= e
  BY <1>1, LeastNumber
<1>3. PICK m \in S : d = top - m
  OBVIOUS
<1>4. ASSUME NEW y \in S PROVE m >= y
  <2>1. top - y \in D /\ m \in Nat /\ y \in Nat
    OBVIOUS
  <2>2. top - m <= top - y
    BY <1>2, <1>3, <2>1
  <2> QED
    BY <2>1, <2>2
<1> QED
  BY <1>3, <1>4 DEF Max

\* The last HFS partition is one of them and none is after it.
LEMMA HFSLast ==
  ASSUME NEW n \in Nat, HFSUpTo(n) # {}
  PROVE  Max(HFSUpTo(n)) \in HFSUpTo(n) /\ \A i \in HFSUpTo(n) : Max(HFSUpTo(n)) >= i
<1>1. HFSUpTo(n) \in SUBSET Nat /\ \A i \in HFSUpTo(n) : i <= n
  BY DEF HFSUpTo
<1> HIDE DEF HFSUpTo
<1> QED
  BY <1>1, MaxIs

\* One more entry of the map is chosen if it is HFS, and changes nothing if not
\* (probePartitions).
LEMMA HFSOneMore ==
  ASSUME NEW n \in Nat
  PROVE  ChosenUpTo(n + 1) = IF map.parts[n + 1].type = "Apple_HFS" THEN map.parts[n + 1] ELSE ChosenUpTo(n)
<1>1. CASE map.parts[n + 1].type = "Apple_HFS"
  <2>1. n + 1 \in HFSUpTo(n + 1) /\ n + 1 \in Nat
    BY <1>1 DEF HFSUpTo
  <2>2. HFSUpTo(n + 1) # {}
    BY <2>1
  <2>3. Max(HFSUpTo(n + 1)) \in HFSUpTo(n + 1) /\ Max(HFSUpTo(n + 1)) >= n + 1
    BY <2>1, <2>2, HFSLast
  <2>4. Max(HFSUpTo(n + 1)) \in 1 .. n + 1
    BY <2>3 DEF HFSUpTo
  <2>5. Max(HFSUpTo(n + 1)) = n + 1
    BY <2>3, <2>4
  <2> QED
    BY <1>1, <2>2, <2>5 DEF ChosenUpTo
<1>2. CASE map.parts[n + 1].type # "Apple_HFS"
  <2>1. HFSUpTo(n + 1) = HFSUpTo(n)
    BY <1>2 DEF HFSUpTo
  <2> QED
    BY <1>2, <2>1 DEF ChosenUpTo
<1> QED
  BY <1>1, <1>2

\* The extents of a pass go to the end of the read or to a cut in memory, as
\* many cuts on as there is room for extents, and always take it further
\* (GetPhysical).
LEMMA PhysicalIs ==
  ASSUME NEW n \in Nat, request.offset \in Nat, request.count \in Nat, ioActCount \in Nat,
         ioActCount < request.count
  PROVE  /\ GetPhysical(n) \in Nat /\ ioActCount < GetPhysical(n) /\ GetPhysical(n) <= request.count
         /\ \/ GetPhysical(n) = request.count
            \/ LET cuts == Cuts(request.offset + ioActCount, request.offset + request.count)
               IN  \E a \in cuts : /\ GetPhysical(n) = a - request.offset
                                   /\ Cardinality({c \in cuts : c <= a}) = n
<1> DEFINE from == request.offset + ioActCount
           to   == request.offset + request.count
           cuts == Cuts(from, to)
           last == {a \in cuts : Cardinality({c \in cuts : c <= a}) = n}
<1>1. from \in Nat /\ to \in Nat /\ from < to
  OBVIOUS
<1>2. \A a \in cuts : a \in Nat /\ a > from /\ a < to
  BY <1>1 DEF Cuts
<1>3. GetPhysical(n) = (IF last = {} THEN to ELSE Max(last)) - request.offset
  BY DEF GetPhysical
<1>4. CASE last = {}
  <2>1. GetPhysical(n) = to - request.offset
    BY <1>3, <1>4
  <2>2. GetPhysical(n) = request.count
    BY <2>1
  <2> QED
    BY <2>2
<1>5. CASE last # {}
  <2>1. last \in SUBSET Nat /\ \A a \in last : a <= to
    <3> HIDE DEF cuts
    <3> QED
      BY <1>1, <1>2
  <2> HIDE DEF last, to
  <2>2. Max(last) \in last
    BY <1>1, <1>5, <2>1, MaxIs
  <2>3. PICK a \in last : a = Max(last)
    BY <2>2
  <2>4. a \in cuts /\ Cardinality({c \in cuts : c <= a}) = n
    BY DEF last
  <2>5. a \in Nat /\ a > from /\ a < to
    BY <1>2, <2>4
  <2>6. GetPhysical(n) = a - request.offset
    BY <1>3, <1>5, <2>3
  <2>7. GetPhysical(n) \in Nat /\ ioActCount < GetPhysical(n) /\ GetPhysical(n) <= request.count
    BY <2>5, <2>6 DEF to
  <2> QED
    BY <2>4, <2>6, <2>7 DEF to
<1> QED
  BY <1>4, <1>5

\* No more cuts lie on the way than memory has.
LEMMA CutsDiffer ==
  ASSUME IsFiniteSet(request.cuts), NEW from \in Nat, NEW to \in Nat, NEW a \in Nat
  PROVE  Cardinality({c \in Cuts(from, to) : c <= a}) <= Cardinality(request.cuts)
<1> DEFINE C == {c \in Cuts(from, to) : c <= a}
           f == [c \in C |-> c \div PageBytes]
<1>1. \A c \in C : c \in Nat /\ c % PageBytes = 0 /\ c \div PageBytes \in request.cuts
  BY DEF Cuts
<1> HIDE DEF C
<1>2. f \in [C -> request.cuts]
  BY <1>1
<1>3. ASSUME NEW c \in C, NEW d \in C, f[c] = f[d] PROVE c = d
  <2>1. c \div PageBytes = d \div PageBytes /\ c \in Nat /\ d \in Nat /\ c % PageBytes = 0 /\ d % PageBytes = 0
    BY <1>1, <1>3
  <2>2. c = PageBytes * (c \div PageBytes) /\ d = PageBytes * (d \div PageBytes)
    BY <2>1, BlockFacts
  <2> QED
    BY <2>1, <2>2
<1>4. f \in Injection(C, request.cuts)
  BY <1>2, <1>3 DEF Injection, IsInjective
<1>5. Cardinality(C) <= Cardinality(request.cuts)
  BY <1>4, FS_Injection
<1> QED
  BY <1>5 DEF C

\* The map is looked for from the start of the disk (probePartitions).
LEMMA ProbeKeeps == ASSUME BlockInv, Probe PROVE BlockInv'
<1>1. /\ map' \in Maps /\ firstblock' = 0 /\ numblocks' = Capacity /\ index' = 0 /\ chosen' = NoEntry
      /\ phase' = IF map'.parts = <<>> THEN "ready" ELSE "probing"
  BY DEF Probe
<1>2. PICK m : m = map'
  OBVIOUS
<1>3. /\ m.sbBlkSize \in Nat /\ m.sbBlkSize > 0 /\ m.sbBlkSize % Sector = 0
      /\ m.parts \in Seq({m.parts[i] : i \in DOMAIN m.parts})
      /\ \A i \in DOMAIN m.parts : m.parts[i].type # "none" /\ m.parts[i].start \in Nat /\ m.parts[i].count \in Nat
  <2>1. m \in Maps
    BY <1>1, <1>2
  <2>2. /\ m.sbBlkSize \in Nat \ {0} /\ m.sbBlkSize % Sector = 0
        /\ m.parts \in Seq({m.parts[i] : i \in DOMAIN m.parts})
        /\ \A i \in DOMAIN m.parts : m.parts[i].type # "none" /\ m.parts[i].start \in Nat /\ m.parts[i].count \in Nat
    BY <2>1, BlockAssumption, Zenon
  <2>3. m.sbBlkSize > 0
    BY <2>2
  <2> QED
    BY <2>2, <2>3, Zenon
<1>4. /\ Len(m.parts) \in Nat /\ DOMAIN m.parts = 1 .. Len(m.parts)
      /\ (m.parts # <<>> => Len(m.parts) > 0) /\ (m.parts = <<>> => Len(m.parts) = 0)
  BY <1>3, LenProperties, EmptySeq
<1>5. MapShape'
  <2>1. Scale' = m.sbBlkSize \div Sector
    BY <1>2 DEF Scale
  <2>2. Scale' \in Nat /\ Scale' > 0 /\ m.sbBlkSize = Scale' * Sector
    <3>1. PICK k \in Nat : m.sbBlkSize = k * Sector
      BY <1>3, WholeIs DEF Whole
    <3>2. m.sbBlkSize \div Sector = k
      BY <3>1, BlockFacts
    <3>3. k > 0
      BY <1>3, <3>1, BlockFacts
    <3> QED
      BY <2>1, <3>1, <3>2, <3>3
  <2> QED
    BY <1>2, <1>3, <1>4, <2>2 DEF MapShape
<1>6. \A n \in Nat : n = 0 => HFSUpTo(n)' = {}
  BY DEF HFSUpTo
<1>7. phase' = "probing" => index' < Len(map'.parts) /\ chosen' = ChosenUpTo(index)'
  BY <1>1, <1>2, <1>4, <1>6 DEF ChosenUpTo, NoEntry
<1>8. phase' = "ready" => VolumeRight'
  BY <1>1, <1>2, <1>4, <1>6 DEF VolumeRight
<1> QED
  BY <1>1, <1>5, <1>7, <1>8 DEF BlockInv, PanicMeansScattered

\* An entry is found where it lies, block by block of the map (readSector).
LEMMA EntryIs ==
  ASSUME MapShape, NEW n \in 1 .. Len(map.parts)
  PROVE  EntryAt(Scale * n) = map.parts[n]
<1> DEFINE here == {i \in DOMAIN map.parts : map.sbBlkSize * i = (Scale * n) * Sector}
<1>1. /\ Scale \in Nat /\ Scale > 0 /\ map.sbBlkSize = Scale * Sector /\ n \in Nat
      /\ DOMAIN map.parts = 1 .. Len(map.parts) /\ Len(map.parts) \in Nat
  BY DEF MapShape
<1>2. PICK z \in Nat : z = map.sbBlkSize /\ z > 0
  BY <1>1, BlockFacts
<1>3. (Scale * n) * Sector = z * n
  <2>1. \A x, y, u \in Nat : (x * y) * u = (x * u) * y
    OBVIOUS
  <2> QED
    BY <1>1, <1>2, <2>1, BlockFacts
<1>4. ASSUME NEW i \in Nat, z * i = z * n PROVE i = n
  <2>1. \A x, y, u \in Nat : x > 0 /\ y < u => x * y < x * u
    OBVIOUS
  <2>2. z * i \in Nat /\ z * n \in Nat /\ n \in Nat
    BY <1>1, <1>2
  <2>3. ~(i < n) /\ ~(n < i)
    BY <1>2, <1>4, <2>1, <2>2
  <2> QED
    BY <2>2, <2>3
<1>5. here = {n}
  BY <1>1, <1>2, <1>3, <1>4
<1>6. EntryAt(Scale * n) = map.parts[CHOOSE i \in here : TRUE]
  BY <1>5 DEF EntryAt
<1> QED
  BY <1>5, <1>6

\* Each entry is read where it is, for the volume still begins where the disk
\* does (probePartitions).
LEMMA ProbeEntryKeeps == ASSUME BlockInv, ProbeEntry PROVE BlockInv'
<1>1. /\ phase = "probing" /\ index' = index + 1 /\ map' = map /\ request' = request
      /\ MapShape /\ firstblock = 0 /\ numblocks = Capacity /\ index \in Nat /\ index < Len(map.parts) /\ Len(map.parts) \in Nat
      /\ chosen = ChosenUpTo(index)
  BY DEF ProbeEntry, BlockInv, MapShape
<1>2. index' \in 1 .. Len(map.parts) /\ index' = index + 1 /\ EntryAt(firstblock + Scale * index') = map.parts[index + 1]
  <2>1. index + 1 \in 1 .. Len(map.parts) /\ Scale * (index + 1) \in Nat
    BY <1>1 DEF MapShape
  <2>2. firstblock + Scale * index' = Scale * (index + 1)
    BY <1>1, <2>1
  <2> QED
    BY <1>1, <2>1, <2>2, EntryIs
<1>3. /\ chosen' = IF map.parts[index + 1].type = "Apple_HFS" THEN map.parts[index + 1] ELSE chosen
      /\ phase' = IF index' < Len(map.parts) THEN "probing" ELSE "ready"
      /\ firstblock' = IF index' = Len(map.parts) /\ chosen' # NoEntry THEN Scale * chosen'.start ELSE firstblock
      /\ numblocks'  = IF index' = Len(map.parts) /\ chosen' # NoEntry THEN Scale * chosen'.count ELSE numblocks
  BY <1>2 DEF ProbeEntry
<1>4. chosen' = ChosenUpTo(index + 1)
  BY <1>1, <1>3, HFSOneMore
<1>5. \A n \in Nat : HFSUpTo(n) = HFSUpTo(n)' /\ ChosenUpTo(n) = ChosenUpTo(n)'
  BY <1>1 DEF HFSUpTo, ChosenUpTo
<1>6. MapShape' /\ Scale' = Scale
  BY <1>1 DEF MapShape, Scale
<1>7. CASE index' < Len(map.parts)
  <2>1. phase' = "probing" /\ firstblock' = 0 /\ numblocks' = Capacity
    BY <1>1, <1>3, <1>7
  <2>2. index' \in Nat /\ index' < Len(map'.parts) /\ chosen' = ChosenUpTo(index)'
    BY <1>1, <1>4, <1>5, <1>7
  <2> QED
    BY <1>6, <2>1, <2>2 DEF BlockInv, PanicMeansScattered
<1>8. CASE ~(index' < Len(map.parts))
  <2>1. index' = Len(map.parts) /\ index + 1 = Len(map.parts) /\ phase' = "ready"
    BY <1>1, <1>2, <1>3, <1>8
  <2>2. chosen' = ChosenUpTo(Len(map.parts))
    BY <1>4, <2>1
  <2>3. firstblock' \in Nat /\ VolumeRight'
    <3>1. CASE HFSUpTo(Len(map.parts)) = {}
      <4>1. firstblock' = 0 /\ numblocks' = Capacity
        BY <1>1, <1>3, <2>2, <3>1 DEF ChosenUpTo
      <4> QED
        BY <1>1, <1>5, <3>1, <4>1 DEF VolumeRight
    <3>2. CASE HFSUpTo(Len(map.parts)) # {}
      <4> DEFINE k == Max(HFSUpTo(Len(map.parts)))
      <4>1. k \in HFSUpTo(Len(map.parts))
        BY <1>1, <3>2, HFSLast
      <4>2. k \in 1 .. Len(map.parts) /\ map.parts[k].type = "Apple_HFS" /\ map.parts[k].start \in Nat
        BY <1>1, <4>1 DEF HFSUpTo, MapShape
      <4>3. chosen' = map.parts[k]
        BY <2>2, <3>2 DEF ChosenUpTo
      <4>4. chosen' # NoEntry
        BY <4>2, <4>3 DEF NoEntry
      <4>5. firstblock' = Scale * map.parts[k].start /\ numblocks' = Scale * map.parts[k].count
        BY <1>3, <2>1, <4>3, <4>4
      <4>6. firstblock' \in Nat
        <5>1. \A x, y \in Nat : x * y \in Nat
          OBVIOUS
        <5>2. Scale \in Nat
          BY <1>1 DEF MapShape
        <5> QED
          BY ONLY <4>2, <4>5, <5>1, <5>2
      <4> QED
        BY <1>1, <1>5, <1>6, <3>2, <4>2, <4>5, <4>6 DEF VolumeRight
    <3> QED
      BY <3>1, <3>2
  <2> QED
    BY <1>6, <2>1, <2>3 DEF BlockInv, PanicMeansScattered
<1> QED
  BY <1>7, <1>8

\* A read starts with nothing in the buffer (DriverRead).
LEMMA BlockReadKeeps ==
  ASSUME BlockInv, NEW s \in Nat, NEW n \in Nat, NEW offset \in Nat, NEW cuts, IsFiniteSet(cuts),
         Read(s * Sector, n * Sector, offset, cuts)
  PROVE  BlockInv'
<1>1. /\ request' = [pos |-> s * Sector, count |-> n * Sector, offset |-> offset, cuts |-> cuts]
      /\ ioActCount' = 0 /\ buffer' = <<>> /\ phase' = "reading" /\ phase = "ready"
      /\ map' = map /\ index' = index /\ chosen' = chosen /\ firstblock' = firstblock /\ numblocks' = numblocks
  BY DEF Read
<1>2. s * Sector \in Nat /\ n * Sector \in Nat /\ 0 = 0 * Sector
  BY BlockFacts
<1>3. request'.pos = s * Sector /\ request'.count = n * Sector /\ request'.offset = offset /\ request'.cuts = cuts
  BY <1>1
<1>4. Whole(s * Sector) /\ Whole(n * Sector) /\ Whole(0)
  BY <1>2 DEF Whole
<1>5. RequestWhole'
  BY <1>1, <1>2, <1>3, <1>4 DEF RequestWhole, Whole
<1>6. MapShape' /\ VolumeRight'
  BY <1>1 DEF BlockInv, MapShape, VolumeRight, HFSUpTo, Scale
<1>7. buffer' \in Seq(Int) /\ DataTrue'
  BY <1>1 DEF DataTrue
<1> QED
  BY <1>1, <1>5, <1>6, <1>7 DEF BlockInv, PanicMeansScattered

\* A pass ends within a sector only if the buffer begins within one and memory
\* is cut at least as often as there is room for extents.
LEMMA BadPass ==
  ASSUME RequestWhole, ioActCount # request.count,
         (GetPhysical(buffers - 2) - ioActCount) % Sector # 0
  PROVE  request.offset % Sector # 0 /\ Cardinality(request.cuts) >= buffers - 2
<1> DEFINE upto == GetPhysical(buffers - 2)
           cuts == Cuts(request.offset + ioActCount, request.offset + request.count)
<1>1. /\ request.offset \in Nat /\ request.count \in Nat /\ ioActCount \in Nat /\ ioActCount < request.count
      /\ Whole(request.count) /\ Whole(ioActCount) /\ IsFiniteSet(request.cuts)
  BY DEF RequestWhole
<1>2. buffers - 2 \in Nat
  BY BlockFacts
<1>3. /\ upto \in Nat /\ ioActCount < upto
      /\ \/ upto = request.count
         \/ \E a \in cuts : upto = a - request.offset /\ Cardinality({c \in cuts : c <= a}) = buffers - 2
  BY <1>1, <1>2, PhysicalIs
<1>4. upto - ioActCount \in Nat
  BY <1>1, <1>3
<1>5. ~Whole(upto - ioActCount)
  BY <1>4, WholeIs
<1>6. ~Whole(upto)
  BY <1>1, <1>3, <1>5, WholeSum
<1>7. PICK a \in cuts : upto = a - request.offset /\ Cardinality({c \in cuts : c <= a}) = buffers - 2
  BY <1>1, <1>3, <1>6
<1>8. a \in Nat /\ a % PageBytes = 0
  BY <1>1 DEF Cuts
<1>9. Whole(a)
  BY <1>8, PagesWhole
<1>10. Cardinality(request.cuts) >= buffers - 2
  <2>1. request.offset + ioActCount \in Nat /\ request.offset + request.count \in Nat
    BY <1>1
  <2>2. Cardinality({c \in cuts : c <= a}) <= Cardinality(request.cuts)
    BY <1>1, <1>8, <2>1, CutsDiffer
  <2>3. Cardinality(request.cuts) \in Nat
    BY <1>1, FS_CardinalityType
  <2> QED
    BY <1>2, <1>7, <2>2, <2>3
<1>11. request.offset % Sector # 0
  <2>1. a >= request.offset
    BY <1>1, <1>3, <1>7, <1>8
  <2>2. ~Whole(request.offset)
    BY <1>1, <1>6, <1>7, <1>8, <1>9, <2>1, WholeSum
  <2> QED
    BY <1>1, <2>2, WholeIs
<1> QED
  BY <1>10, <1>11

\* A pass goes on at the byte where the one before stopped (DriverRead).
LEMMA PassKeeps == ASSUME BlockInv, DriverReadPass PROVE BlockInv'
<1> DEFINE upto == GetPhysical(buffers - 2)
           n == upto - ioActCount
           q == (request.pos + ioActCount) \div Sector
           more == SectorBytes(firstblock + q, n)
<1>1. /\ phase = "reading" /\ ioActCount # request.count
      /\ IF n % Sector # 0 THEN phase' = "panic" /\ UNCHANGED <<ioActCount, buffer>>
         ELSE buffer' = buffer \o more /\ ioActCount' = upto /\ phase' = phase
      /\ map' = map /\ firstblock' = firstblock /\ numblocks' = numblocks /\ request' = request
  BY DEF DriverReadPass
<1>2. RequestWhole /\ MapShape /\ VolumeRight /\ firstblock \in Nat /\ buffer \in Seq(Int) /\ DataTrue
  BY <1>1 DEF BlockInv
<1>3. MapShape' /\ VolumeRight' /\ firstblock' \in Nat
  BY <1>1, <1>2 DEF MapShape, VolumeRight, HFSUpTo, Scale
<1>4. /\ request.pos \in Nat /\ request.offset \in Nat /\ request.count \in Nat /\ ioActCount \in Nat
      /\ ioActCount < request.count
      /\ Whole(request.pos) /\ Whole(request.count) /\ Whole(ioActCount)
  BY <1>1, <1>2 DEF RequestWhole
<1>5. CASE n % Sector # 0
  <2>1. request.offset % Sector # 0 /\ Cardinality(request.cuts) >= buffers - 2
    BY <1>1, <1>2, <1>5, BadPass
  <2>2. PanicMeansScattered'
    BY <1>1, <2>1 DEF PanicMeansScattered
  <2>3. phase' = "panic"
    BY <1>1, <1>5
  <2> QED
    BY <1>3, <2>2, <2>3 DEF BlockInv
<1>6. CASE n % Sector = 0
  <2>1. buffers - 2 \in Nat
    BY BlockFacts
  <2>2. upto \in Nat /\ ioActCount < upto /\ upto <= request.count
    BY <1>4, <2>1, PhysicalIs
  <2> HIDE DEF upto
  <2>3. n \in Nat /\ upto = ioActCount + n
    BY <1>4, <2>2
  <2>4. Whole(n)
    BY <1>6, <2>3, WholeIs
  <2>5. Whole(upto)
    BY <1>4, <2>3, <2>4, WholeSum
  <2>6. buffer' = buffer \o more /\ ioActCount' = upto /\ phase' = "reading"
    BY <1>1, <1>6
  <2>7. RequestWhole'
    BY <1>1, <1>2, <2>2, <2>5, <2>6 DEF RequestWhole, Whole
  <2>8. q \in Nat /\ q * Sector = request.pos + ioActCount
    <3>1. request.pos + ioActCount \in Nat
      BY <1>4
    <3>2. Whole(request.pos + ioActCount)
      <4>1. request.pos \in Nat /\ ioActCount \in Nat /\ Whole(request.pos) /\ Whole(ioActCount)
        BY <1>4
      <4> QED
        BY ONLY <4>1, WholeSum
    <3> QED
      BY <3>1, <3>2, WholeDivided
  <2> HIDE DEF q, n
  <2>9. (firstblock + q) * Sector = firstblock * Sector + request.pos + ioActCount
    <3>1. \A f, k \in Nat : (f + k) * Sector = f * Sector + k * Sector
      BY BlockFacts
    <3>2. (firstblock + q) * Sector = firstblock * Sector + q * Sector
      BY <1>2, <2>8, <3>1
    <3>3. firstblock * Sector \in Nat
      BY <1>2, BlockFacts
    <3>4. PICK f \in Nat : f = firstblock * Sector
      BY <3>3
    <3> QED
      BY <1>4, <2>8, <3>2, <3>4
  <2>10. more = [i \in 1 .. n |-> firstblock * Sector + request.pos + ioActCount + i - 1]
    BY <2>9 DEF SectorBytes
  <2>11. firstblock * Sector \in Nat
    BY <1>2, BlockFacts
  <2>12. more \in Seq(Int) /\ Len(more) = n
    BY <1>4, <2>3, <2>10, <2>11
  <2>13. \A i \in 1 .. n : more[i] = firstblock * Sector + request.pos + ioActCount + i - 1
    BY <2>10
  <2> HIDE DEF more
  <2>14. Len(buffer) = ioActCount /\ \A i \in 1 .. ioActCount : buffer[i] = firstblock * Sector + request.pos + i - 1
    BY <1>1, <1>2 DEF DataTrue
  <2>15. buffer' \in Seq(Int) /\ Len(buffer') = upto
    BY <1>2, <2>3, <2>6, <2>12, <2>14, ConcatProperties
  <2>16. \A i \in 1 .. ioActCount + n : buffer'[i] = IF i <= ioActCount THEN buffer[i] ELSE more[i - ioActCount]
    BY <1>2, <2>6, <2>12, <2>14, ConcatProperties
  <2>17. ASSUME NEW i \in 1 .. ioActCount + n PROVE buffer'[i] = firstblock * Sector + request.pos + i - 1
    <3>1. CASE i <= ioActCount
      <4>1. i \in 1 .. ioActCount
        BY <1>4, <3>1
      <4> QED
        BY <2>14, <2>16, <3>1, <4>1
    <3>2. CASE i > ioActCount
      <4>1. i - ioActCount \in 1 .. n /\ ~(i <= ioActCount)
        BY <1>4, <2>3, <3>2
      <4>2. buffer'[i] = firstblock * Sector + request.pos + ioActCount + (i - ioActCount) - 1
        BY <2>13, <2>16, <4>1
      <4> HIDE DEF n
      <4>3. PICK f \in Nat : f = firstblock * Sector
        BY <2>11
      <4>4. f + request.pos + ioActCount + (i - ioActCount) - 1 = f + request.pos + i - 1
        BY <1>4, <2>3
      <4> QED
        BY <4>2, <4>3, <4>4
    <3> QED
      BY <1>4, <3>1, <3>2
  <2>18. DataTrue'
    BY <1>1, <2>3, <2>6, <2>15, <2>17 DEF DataTrue
  <2> QED
    BY <1>3, <2>6, <2>7, <2>15, <2>18 DEF BlockInv, PanicMeansScattered
<1> QED
  BY <1>5, <1>6

\* The end of a read leaves the volume.
LEMMA EndsKeeps == ASSUME BlockInv, ReadEnds PROVE BlockInv'
<1>1. /\ phase = "reading" /\ phase' = "ready"
      /\ map' = map /\ firstblock' = firstblock /\ numblocks' = numblocks
  BY DEF ReadEnds
<1> QED
  BY <1>1 DEF BlockInv, MapShape, VolumeRight, HFSUpTo, Scale, PanicMeansScattered

\* The inductive invariant of the disk driver: what probePartitions has chosen
\* by each entry, and that each pass of DriverRead ends between sectors.
THEOREM BlockInvariant == BlockSpec => []BlockInv
<1>1. BlockInit => BlockInv
  <2>1. NoMap.parts = <<>> /\ NoMap.sbBlkSize = Sector /\ Sector \div Sector = 1 /\ Sector = 1 * Sector
    BY BlockFacts DEF NoMap
  <2> QED
    BY <2>1, BlockFacts DEF BlockInit, BlockInv, MapShape, Scale, PanicMeansScattered
<1>2. BlockInv /\ [BlockNext]_blockVars => BlockInv'
  <2> SUFFICES ASSUME BlockInv, [BlockNext]_blockVars PROVE BlockInv'
    OBVIOUS
  <2>1. ASSUME NEW s \in FirstSectors, NEW n \in 0 .. MaxSectors, NEW offset \in 0 .. PageBytes - 1,
               NEW cuts \in SUBSET (1 .. ((offset + n * Sector) \div PageBytes)),
               Read(s * Sector, n * Sector, offset, cuts)
        PROVE  BlockInv'
    <3>1. s \in Nat /\ n \in Nat /\ offset \in Nat
      BY BlockAssumption
    <3>2. (offset + n * Sector) \div PageBytes \in Int
      BY <3>1, BlockFacts
    <3>3. IsFiniteSet(cuts)
      <4>1. IsFiniteSet(1 .. ((offset + n * Sector) \div PageBytes))
        BY <3>2, FS_Interval
      <4> QED
        BY <4>1, FS_Subset
    <3> QED
      BY <2>1, <3>1, <3>3, BlockReadKeeps
  <2>2. CASE UNCHANGED blockVars
    BY <2>2 DEF blockVars, BlockInv, MapShape, ChosenUpTo, HFSUpTo, Scale, VolumeRight, RequestWhole, Whole,
                DataTrue, PanicMeansScattered
  <2> QED
    BY <2>1, <2>2, ProbeKeeps, ProbeEntryKeeps, PassKeeps, EndsKeeps DEF BlockNext
<1> QED
  BY <1>1, <1>2, PTL DEF BlockSpec

\* A read gives what the volume holds there, however its buffer lies in memory,
\* or fails where it is known to; the volume is the last HFS partition, byte for
\* byte, for any map and any length of its blocks (DriverRead, probePartitions).
THEOREM ReadsAlwaysTrue == BlockSpec => []ReadTrue
<1>1. BlockInv => ReadTrue
  <2> SUFFICES ASSUME BlockInv PROVE ReadTrue
    OBVIOUS
  <2>1. ASSUME phase = "ready" PROVE VolumeChosen
    <3> DEFINE hfs == HFSUpTo(Len(map.parts))
    <3>1. MapShape /\ VolumeRight
      BY <2>1 DEF BlockInv
    <3>2. CASE hfs = {}
      BY <3>1, <3>2 DEF VolumeRight, VolumeChosen, HFSUpTo
    <3>3. CASE hfs # {}
      <4>1. Max(hfs) \in hfs
        BY <3>1, <3>3, HFSLast DEF MapShape
      <4>2. map.parts[Max(hfs)].start \in Nat /\ map.parts[Max(hfs)].count \in Nat
        BY <3>1, <4>1 DEF HFSUpTo, MapShape
      <4>3. \A x \in Nat : (Scale * x) * Sector = x * map.sbBlkSize
        <5>1. \A x, y, u \in Nat : (y * x) * u = x * (y * u)
          OBVIOUS
        <5> QED
          BY <3>1, <5>1, BlockFacts DEF MapShape
      <4>4. /\ firstblock * Sector = map.parts[Max(hfs)].start * map.sbBlkSize
            /\ numblocks * Sector = map.parts[Max(hfs)].count * map.sbBlkSize
        BY <3>1, <3>3, <4>2, <4>3 DEF VolumeRight
      <4> QED
        BY <3>3, <4>4 DEF VolumeChosen, HFSUpTo
    <3> QED
      BY <3>2, <3>3
  <2>2. phase # "ready" => VolumeChosen
    BY DEF VolumeChosen
  <2> QED
    BY <2>1, <2>2 DEF BlockInv, ReadTrue, DataTrue
<1> QED
  BY <1>1, BlockInvariant, PTL

-----------------------------------------------------------------------------
(***************************************************************************)
(* Loader, for device trees of any size and shape and any number of drivers. *)
(***************************************************************************)

N == Len(devtree.kids)

\* The tree is one of those there may be, and past gives the node past each.
TreeIs ==
  /\ N \in Nat \ {0} /\ Nodes = 1 .. N /\ DOMAIN devtree.id = Nodes
  /\ \A n \in Nodes : devtree.kids[n] \in Seq(n + 1 .. N)
  /\ \A n \in Nodes \ {1} : \E p \in Nodes : n \in ToSet(devtree.kids[p])
  /\ DepthFirst(devtree)

Follows(past) ==
  /\ past \in [1 .. N -> 2 .. N + 1] /\ past[1] = N + 1
  /\ \A m \in 1 .. N :
       IF devtree.kids[m] = <<>> THEN past[m] = m + 1
       ELSE /\ devtree.kids[m][1] = m + 1 /\ past[m] = past[devtree.kids[m][Len(devtree.kids[m])]]
            /\ \A i \in 1 .. Len(devtree.kids[m]) - 1 : devtree.kids[m][i + 1] = past[devtree.kids[m][i]]

Fitting(t, n)  == {i \in 1 .. n : blob[i] # <<>> /\ virtiotype(readhex(blob[i])) = t}
LastOf(S)      == IF S = {} THEN 0 ELSE Max(S)
DriverFor(n)   == IF virtiotype(devtree.id[n]) = 0 THEN 0 ELSE supported[virtiotype(devtree.id[n])]

\* A walk that is at a node has passed those before it, each once.
Walked(k) == Len(passed) = k /\ passed \in Seq(Nat) /\ \A i \in 1 .. k : passed[i] = i
Walking   == \E k \in 0 .. N : Walked(k) /\ ph = IF k = N THEN 0 ELSE k + 1

LoadInv ==
  /\ devtree \in DeviceTrees /\ blob \in Blobs /\ piece \in 0 .. Len(blob)
  /\ loading \in {"reads", "puts", "chains", "chained", "boots"}
  /\ supported \in [Types -> Nat] /\ \A t \in Types : supported[t] = LastOf(Fitting(t, piece))
  /\ driverOf \in [Nodes -> Nat]
  /\ loading = "reads" => passed = <<>> /\ \A n \in Nodes : driverOf[n] = 0
  /\ loading # "reads" => piece = Len(blob)
  /\ loading \in {"puts", "chains"} => Walking
  /\ loading = "puts" => \A n \in Nodes : driverOf[n] = IF \E i \in 1 .. Len(passed) : passed[i] = n THEN DriverFor(n) ELSE 0
  /\ IsInjective(passed)

\* The tree of the machine is one whose nodes are numbered as they come.
LEMMA TreeOf == ASSUME devtree \in DeviceTrees PROVE TreeIs /\ \E past : Follows(past)
<1>1. TreeIs
  BY LoaderAssumption DEF TreeIs, N, Nodes
<1>2. DepthFirst(devtree)
  BY <1>1 DEF TreeIs
<1>3. PICK past \in [1 .. N -> 2 .. N + 1] :
        /\ past[1] = N + 1
        /\ \A m \in 1 .. N :
             IF devtree.kids[m] = <<>> THEN past[m] = m + 1
             ELSE /\ devtree.kids[m][1] = m + 1 /\ past[m] = past[devtree.kids[m][Len(devtree.kids[m])]]
                  /\ \A i \in 1 .. Len(devtree.kids[m]) - 1 : devtree.kids[m][i + 1] = past[devtree.kids[m][i]]
  BY <1>2, Zenon DEF DepthFirst, N
<1>4. Follows(past)
  BY <1>3, Zenon DEF Follows
<1> QED
  BY <1>1, <1>4

\* A parent comes before what is under it.
LEMMA ParentIs ==
  ASSUME TreeIs, NEW n \in Nodes, n # 1
  PROVE  Parent(n) \in Nodes /\ Parent(n) < n /\ n \in ToSet(devtree.kids[Parent(n)])
<1>1. n # Root
  BY DEF Root
<1>2. \E p \in Nodes : n \in ToSet(devtree.kids[p])
  BY DEF TreeIs
<1>3. Parent(n) \in Nodes /\ n \in ToSet(devtree.kids[Parent(n)])
  BY <1>1, <1>2 DEF Parent
<1>4. devtree.kids[Parent(n)] \in Seq(Parent(n) + 1 .. N)
  BY <1>3 DEF TreeIs
<1>5. PICK p : p = Parent(n)
  OBVIOUS
<1>6. p \in Nat /\ N \in Nat
  BY <1>3, <1>5 DEF TreeIs
<1>7. PICK i \in DOMAIN devtree.kids[p] : devtree.kids[p][i] = n
  BY <1>3, <1>5 DEF ToSet
<1>8. n \in p + 1 .. N
  <2> DEFINE row == devtree.kids[p]
  <2>1. row \in Seq(p + 1 .. N)
    BY <1>4, <1>5
  <2>2. i \in 1 .. Len(row) /\ row[i] = n
    BY <1>7, <2>1, LenProperties
  <2> HIDE DEF row
  <2>3. row[i] \in p + 1 .. N
    BY <2>1, <2>2, ElementOfSeq
  <2> QED
    BY <2>2, <2>3
<1> QED
  BY <1>3, <1>5, <1>6, <1>8

\* The peer of a node is what comes past it; where there is none its parent ends
\* with it.
LEMMA PeerIs ==
  ASSUME TreeIs, NEW past, Follows(past), NEW n \in Nodes
  PROVE  \/ n # 1 /\ Peer(n) = past[n] /\ past[n] \in Nodes /\ Peer(n) # 0
         \/ n # 1 /\ Peer(n) = 0 /\ past[Parent(n)] = past[n]
         \/ n = 1 /\ Peer(n) = 0 /\ Parent(n) = 0 /\ past[n] = N + 1
<1>1. CASE n = 1
  BY <1>1 DEF Peer, Parent, Root, Follows
<1>2. CASE n # 1
  <2> DEFINE p == Parent(n)
             row == devtree.kids[p]
             at == CHOOSE i \in DOMAIN row : row[i] = n
  <2>1. p \in Nodes /\ n \in ToSet(row)
    BY <1>2, ParentIs
  <2>2. row \in Seq(p + 1 .. N) /\ N \in Nat /\ Nodes = 1 .. N
    BY <2>1 DEF TreeIs
  <2>3. p \in 1 .. N /\ p \in Nat
    BY <2>1, <2>2
  <2>4. Peer(n) = IF at = Len(row) THEN 0 ELSE row[at + 1]
    BY <1>2 DEF Peer, Root
  <2>5. at \in DOMAIN row /\ row[at] = n
    BY <2>1 DEF ToSet
  <2> HIDE DEF at
  <2>6. Len(row) \in Nat /\ DOMAIN row = 1 .. Len(row) /\ at \in 1 .. Len(row)
    BY <2>2, <2>5, LenProperties
  <2>7. row # <<>>
    BY <2>6
  <2>8. past[p] = past[row[Len(row)]] /\ \A i \in 1 .. Len(row) - 1 : row[i + 1] = past[row[i]]
    BY <2>3, <2>7 DEF Follows
  <2>9. CASE at = Len(row)
    BY <1>2, <2>4, <2>5, <2>8, <2>9
  <2>10. CASE at # Len(row)
    <3>1. at \in 1 .. Len(row) - 1 /\ at + 1 \in 1 .. Len(row)
      BY <2>6, <2>10
    <3>2. row[at + 1] = past[n]
      BY <2>5, <2>8, <3>1
    <3>3. row[at + 1] \in p + 1 .. N
      BY <2>2, <3>1, ElementOfSeq
    <3>4. row[at + 1] \in 1 .. N /\ row[at + 1] # 0
      BY <2>3, <3>3
    <3> QED
      BY <1>2, <2>2, <2>4, <2>10, <3>2, <3>4
  <2> QED
    BY <2>9, <2>10
<1> QED
  BY <1>1, <1>2

\* Climbing comes to what is past a node, or nowhere past the last.
LEMMA ClimbIs ==
  ASSUME TreeIs, NEW past, Follows(past), NEW n \in Nodes
  PROVE  Climb[n] = IF past[n] = N + 1 THEN 0 ELSE past[n]
<1> DEFINE D == {0} \cup Nodes
           Eq(g) == g = [m \in D |-> IF m = 0 THEN 0 ELSE IF Peer(m) # 0 THEN Peer(m) ELSE g[Parent(m)]]
           there == [m \in D |-> IF m = 0 THEN 0 ELSE IF past[m] = N + 1 THEN 0 ELSE past[m]]
<1>0. N \in Nat /\ Nodes = 1 .. N /\ D = 0 .. N
  BY DEF TreeIs
<1>1. ASSUME NEW m \in Nodes
      PROVE  (IF past[m] = N + 1 THEN 0 ELSE past[m]) = IF Peer(m) # 0 THEN Peer(m) ELSE there[Parent(m)]
  <2>1. CASE m = 1
    <3>1. Peer(m) = 0 /\ Parent(m) = 0 /\ past[m] = N + 1
      BY <2>1, PeerIs
    <3>2. there[0] = 0
      BY <1>0
    <3> QED
      BY <3>1, <3>2
  <2>2. CASE m # 1 /\ Peer(m) # 0
    <3>1. Peer(m) = past[m] /\ past[m] \in 1 .. N
      BY <1>0, <2>2, PeerIs
    <3> QED
      BY <1>0, <2>2, <3>1
  <2>3. CASE m # 1 /\ Peer(m) = 0
    <3>1. past[Parent(m)] = past[m]
      BY <2>3, PeerIs
    <3>2. Parent(m) \in Nodes
      BY <2>3, ParentIs
    <3>3. there[Parent(m)] = IF past[Parent(m)] = N + 1 THEN 0 ELSE past[Parent(m)]
      BY <1>0, <3>2
    <3> QED
      BY <2>3, <3>1, <3>3
  <2> QED
    BY <2>1, <2>2, <2>3
<1>2. Eq(there)
  <2>1. \A m \in D : there[m] = IF m = 0 THEN 0 ELSE IF Peer(m) # 0 THEN Peer(m) ELSE there[Parent(m)]
    BY <1>0, <1>1
  <2> QED
    BY <2>1
<1>3. Eq(Climb)
  <2>1. Climb = CHOOSE g : Eq(g)
    BY DEF Climb
  <2> HIDE DEF Eq
  <2> QED
    BY <1>2, <2>1
<1>4. \A m \in D : Climb[m] = IF m = 0 THEN 0 ELSE IF Peer(m) # 0 THEN Peer(m) ELSE Climb[Parent(m)]
  BY <1>3
<1>5. \A m \in D : there[m] = IF m = 0 THEN 0 ELSE IF Peer(m) # 0 THEN Peer(m) ELSE there[Parent(m)]
  BY <1>2
<1> DEFINE bad == {m \in D : Climb[m] # there[m]}
<1> HIDE DEF there, Eq
<1>6. bad = {}
  <2> SUFFICES ASSUME bad # {} PROVE FALSE
    OBVIOUS
  <2>1. PICK m \in bad : \A k \in bad : m <= k
    <3>1. bad \in SUBSET Nat
      BY <1>0
    <3> HIDE DEF bad
    <3> QED
      BY <3>1, LeastNumber
  <2>2. m \in D /\ m # 0
    BY <1>0, <1>4, <1>5
  <2>3. m \in Nodes /\ Peer(m) = 0
    BY <1>4, <1>5, <2>2
  <2>4. Parent(m) \in D /\ Parent(m) < m
    BY <1>0, <2>3, PeerIs, ParentIs
  <2>5. Parent(m) \notin bad
    BY <1>0, <2>1, <2>2, <2>4
  <2>6. Climb[m] = there[m]
    BY <1>4, <1>5, <2>2, <2>3, <2>4, <2>5
  <2> QED
    BY <2>1, <2>6
<1>7. Climb[n] = there[n]
  BY <1>6
<1> QED
  BY <1>0, <1>7 DEF there

\* The walk goes to the next node in the order of the tree, whatever its shape
\* (dtstep).
LEMMA StepIs ==
  ASSUME devtree \in DeviceTrees, NEW n \in Nodes
  PROVE  dtstep(n) = IF n = N THEN 0 ELSE n + 1
<1>1. TreeIs
  BY TreeOf
<1>2. PICK past : Follows(past)
  BY TreeOf
<1>3. N \in Nat /\ n \in 1 .. N /\ n \in Nat
  BY <1>1 DEF TreeIs
<1>4. CASE devtree.kids[n] = <<>>
  <2>1. Climb[n] = IF past[n] = N + 1 THEN 0 ELSE past[n]
    BY <1>1, <1>2, ClimbIs
  <2>2. past[n] = n + 1
    BY <1>2, <1>3, <1>4 DEF Follows
  <2>3. Child(n) = 0
    BY <1>4 DEF Child
  <2> QED
    BY <1>3, <2>1, <2>2, <2>3 DEF dtstep
<1>5. CASE devtree.kids[n] # <<>>
  <2>1. Child(n) = n + 1
    BY <1>2, <1>3, <1>5 DEF Child, Follows
  <2>2. devtree.kids[n] \in Seq(n + 1 .. N)
    BY <1>1 DEF TreeIs
  <2>3. devtree.kids[n][1] \in n + 1 .. N
    <3>1. 1 \in 1 .. Len(devtree.kids[n])
      BY <1>5, <2>2, EmptySeq, LenProperties
    <3> QED
      BY <2>2, <3>1, ElementOfSeq
  <2>4. n # N /\ n + 1 # 0
    BY <1>3, <1>5, <2>1, <2>3 DEF Child
  <2> QED
    BY <2>1, <2>4 DEF dtstep
<1> QED
  BY <1>4, <1>5

\* The types that numbers of devices come to (virtiotype).
LEMMA TypeIs == ASSUME NEW id PROVE virtiotype(id) = 0 \/ virtiotype(id) \in Types
<1>1. CASE Legacy(id)
  <2>1. id - FirstLegacy + 1 \in 1 .. 10
    BY <1>1 DEF Legacy, FirstLegacy
  <2>2. \A k \in 1 .. 10 : LegacyTypes[k] \in 0 .. 9
    BY DEF LegacyTypes
  <2> QED
    BY <1>1, <2>1, <2>2 DEF virtiotype, Types
<1>2. CASE ~Legacy(id)
  BY <1>2 DEF virtiotype, Types, Modern, FirstModern, LastModern
<1> QED
  BY <1>1, <1>2

\* A blob is a sequence of drivers.
LEMMA BlobIs == ASSUME blob \in Blobs PROVE blob \in Seq({blob[i] : i \in DOMAIN blob}) /\ Len(blob) \in Nat /\ DOMAIN blob = 1 .. Len(blob)
<1>1. blob \in Seq({blob[i] : i \in DOMAIN blob})
  BY BlobAssumption
<1> QED
  BY <1>1, LenProperties

\* One more driver of the blob takes its type over from those before it.
LEMMA FittingMore ==
  ASSUME NEW t \in Types, NEW n \in Nat
  PROVE  LastOf(Fitting(t, n + 1)) =
           IF blob[n + 1] # <<>> /\ virtiotype(readhex(blob[n + 1])) = t THEN n + 1 ELSE LastOf(Fitting(t, n))
<1>1. CASE blob[n + 1] # <<>> /\ virtiotype(readhex(blob[n + 1])) = t
  <2> DEFINE S == Fitting(t, n + 1)
  <2>1. n + 1 \in S /\ S \in SUBSET Nat /\ \A x \in S : x <= n + 1
    BY <1>1 DEF Fitting
  <2> HIDE DEF S
  <2>2. Max(S) \in S /\ Max(S) >= n + 1
    BY <2>1, MaxIs
  <2>3. Max(S) \in Nat /\ Max(S) <= n + 1
    BY <2>1, <2>2
  <2>5. Max(S) = n + 1
    BY <2>2, <2>3
  <2>4. LastOf(S) = n + 1
    BY <2>1, <2>5 DEF LastOf
  <2> QED
    BY <1>1, <2>4 DEF S
<1>2. CASE ~(blob[n + 1] # <<>> /\ virtiotype(readhex(blob[n + 1])) = t)
  <2>1. Fitting(t, n + 1) = Fitting(t, n)
    BY <1>2 DEF Fitting
  <2> QED
    BY <1>2, <2>1
<1> QED
  BY <1>1, <1>2

\* Looking at a driver of the blob (putNDRVs).
LEMMA ReadPieceKeeps == ASSUME LoadInv, ReadPiece PROVE LoadInv'
<1> DEFINE name == blob[piece + 1]
           vid == virtiotype(readhex(name))
<1>1. /\ loading = "reads" /\ piece < Len(blob) /\ piece' = piece + 1
      /\ supported' = IF name = <<>> \/ vid = 0 THEN supported ELSE [supported EXCEPT ![vid] = piece + 1]
      /\ devtree' = devtree /\ blob' = blob /\ ph' = ph /\ passed' = passed /\ driverOf' = driverOf
      /\ bootpath' = bootpath /\ romFile' = romFile /\ loading' = loading
  BY DEF ReadPiece
<1>2. Len(blob) \in Nat /\ piece \in Nat /\ piece + 1 \in 0 .. Len(blob)
  BY <1>1, BlobIs DEF LoadInv
<1>3. vid = 0 \/ vid \in Types
  BY TypeIs
<1> HIDE DEF vid
<1>4. supported' \in [Types -> Nat]
  BY <1>1, <1>2, <1>3 DEF LoadInv
<1>5. ASSUME NEW t \in Types PROVE supported'[t] = LastOf(Fitting(t, piece + 1))
  <2>1. supported[t] = LastOf(Fitting(t, piece)) /\ supported \in [Types -> Nat]
    BY DEF LoadInv
  <2>2. LastOf(Fitting(t, piece + 1)) = IF name # <<>> /\ vid = t THEN piece + 1 ELSE LastOf(Fitting(t, piece))
    BY <1>2, FittingMore DEF vid
  <2>3. t # 0
    BY DEF Types
  <2>4. supported'[t] = IF name # <<>> /\ vid = t THEN piece + 1 ELSE supported[t]
    BY <1>1, <1>3, <2>1, <2>3
  <2> QED
    BY <2>1, <2>2, <2>4
<1>6. \A t \in Types : supported'[t] = LastOf(Fitting(t, piece)')
  BY <1>1, <1>5 DEF Fitting
<1>7. IsInjective(passed')
  BY <1>1 DEF LoadInv
<1> QED
  BY <1>1, <1>2, <1>4, <1>6, <1>7 DEF LoadInv, Nodes, LastOf

\* A walk starts at the root.
LEMMA EmptyWalk ==
  ASSUME TreeIs, passed' = <<>>, ph' = Root, devtree' = devtree
  PROVE  Walking' /\ IsInjective(passed')
<1>1. Walked(0)'
  BY DEF Walked
<1>2. N' = N /\ N # 0 /\ 0 \in 0 .. N /\ ph' = 0 + 1
  BY DEF TreeIs, N, Root
<1>3. Walking'
  BY <1>1, <1>2 DEF Walking, Walked
<1>4. IsInjective(passed')
  BY DEF IsInjective
<1> QED
  BY <1>3, <1>4

\* A step of a walk passes one more node, and none twice.
LEMMA WalkStep ==
  ASSUME devtree \in DeviceTrees, Walking, ph # 0, passed' = Append(passed, ph), ph' = dtstep(ph), devtree' = devtree
  PROVE  /\ Walking' /\ IsInjective(passed') /\ ph \in Nodes /\ Len(passed') = Len(passed) + 1
         /\ \A n \in Nodes : (\E i \in 1 .. Len(passed') : passed'[i] = n) <=> (n = ph \/ \E i \in 1 .. Len(passed) : passed[i] = n)
<1>1. TreeIs
  BY TreeOf
<1>2. PICK k \in 0 .. N : Walked(k) /\ ph = IF k = N THEN 0 ELSE k + 1
  BY DEF Walking
<1>3. N \in Nat /\ Nodes = 1 .. N /\ k \in Nat /\ k # N /\ ph = k + 1 /\ ph \in Nodes /\ N' = N
  BY <1>1, <1>2 DEF TreeIs, N
<1>4. passed' \in Seq(Nat) /\ Len(passed') = k + 1 /\ \A i \in 1 .. k + 1 : passed'[i] = i
  BY <1>2, <1>3 DEF Walked
<1>5. ph' = IF k + 1 = N THEN 0 ELSE k + 2
  BY <1>3, StepIs
<1>6. k + 1 \in 0 .. N'
  BY <1>3
<1>7. passed' \in Seq(Nat)
  BY <1>4
<1>8. \E j \in 0 .. N' : /\ Len(passed') = j /\ passed' \in Seq(Nat) /\ \A i \in 1 .. j : passed'[i] = i
                         /\ ph' = IF j = N' THEN 0 ELSE j + 1
  BY <1>3, <1>4, <1>5, <1>6
<1>9. Walking'
  BY <1>8 DEF Walking, Walked
<1>10. IsInjective(passed')
  BY <1>4 DEF IsInjective
<1> QED
  BY <1>2, <1>3, <1>4, <1>9, <1>10 DEF Walked

\* A walk that has ended has passed every node.
LEMMA WalkEnds ==
  ASSUME devtree \in DeviceTrees, Walking, ph = 0
  PROVE  /\ Len(passed) = N /\ N \in Nat /\ Nodes = 1 .. N /\ ToSet(passed) = Nodes
         /\ \A n \in Nodes : \E i \in 1 .. Len(passed) : passed[i] = n
<1>1. N \in Nat /\ Nodes = 1 .. N
  BY TreeOf DEF TreeIs
<1>2. PICK k \in 0 .. N : Walked(k) /\ ph = IF k = N THEN 0 ELSE k + 1
  BY DEF Walking
<1>3. k = N
  BY <1>1, <1>2
<1>4. Len(passed) = N /\ passed \in Seq(Nat) /\ \A i \in 1 .. N : passed[i] = i
  BY <1>2, <1>3 DEF Walked
<1>5. DOMAIN passed = 1 .. N
  BY <1>4, LenProperties
<1>6. ToSet(passed) = Nodes
  BY <1>1, <1>4, <1>5 DEF ToSet
<1> QED
  BY <1>1, <1>4, <1>6

\* The first walk starts when the blob has been looked at.
LEMMA StartPutKeeps == ASSUME LoadInv, StartPut PROVE LoadInv'
<1>1. /\ loading = "reads" /\ piece = Len(blob) /\ loading' = "puts" /\ ph' = Root /\ passed' = <<>>
      /\ devtree' = devtree /\ blob' = blob /\ supported' = supported /\ piece' = piece /\ driverOf' = driverOf
  BY DEF StartPut
<1>2. devtree \in DeviceTrees
  BY DEF LoadInv
<1>3. Walking' /\ IsInjective(passed')
  BY <1>1, <1>2, TreeOf, EmptyWalk
<1>4. \A n \in Nodes : driverOf[n] = 0
  BY <1>1 DEF LoadInv
<1>5. Len(passed') = 0
  BY <1>1
<1>6. \A n \in Nodes' : ~ \E i \in 1 .. Len(passed') : passed'[i] = n
  BY <1>5
<1>7. \A n \in Nodes' : driverOf'[n] = (IF \E i \in 1 .. Len(passed) : passed[i] = n THEN DriverFor(n) ELSE 0)'
  BY <1>1, <1>4, <1>6 DEF Nodes
<1>8. \A t \in Types : supported'[t] = LastOf(Fitting(t, piece))'
  BY <1>1 DEF LoadInv, LastOf, Fitting
<1> QED
  BY <1>1, <1>2, <1>3, <1>7, <1>8 DEF LoadInv, Nodes

\* A node gets the driver of its type (putNDRVs).
LEMMA PutKeeps == ASSUME LoadInv, Put PROVE LoadInv'
<1> DEFINE vid == virtiotype(devtree.id[ph])
<1>1. /\ loading = "puts" /\ ph # 0 /\ driverOf' = (IF vid = 0 THEN driverOf ELSE [driverOf EXCEPT ![ph] = supported[vid]])
      /\ passed' = Append(passed, ph) /\ ph' = dtstep(ph) /\ loading' = loading
      /\ devtree' = devtree /\ blob' = blob /\ supported' = supported /\ piece' = piece
  BY DEF Put
<1>2. /\ devtree \in DeviceTrees /\ Walking /\ driverOf \in [Nodes -> Nat] /\ supported \in [Types -> Nat]
      /\ \A n \in Nodes : driverOf[n] = IF \E i \in 1 .. Len(passed) : passed[i] = n THEN DriverFor(n) ELSE 0
  BY <1>1 DEF LoadInv
<1>3. /\ Walking' /\ IsInjective(passed') /\ ph \in Nodes
      /\ \A n \in Nodes : (\E i \in 1 .. Len(passed') : passed'[i] = n) <=> (n = ph \/ \E i \in 1 .. Len(passed) : passed[i] = n)
  BY <1>1, <1>2, WalkStep
<1>4. vid = 0 \/ vid \in Types
  BY TypeIs
<1>5. DriverFor(ph) = IF vid = 0 THEN 0 ELSE supported[vid]
  BY DEF DriverFor
<1>6. driverOf[ph] = IF \E i \in 1 .. Len(passed) : passed[i] = ph THEN DriverFor(ph) ELSE 0
  BY <1>2, <1>3
<1> HIDE DEF vid
<1>7. driverOf' \in [Nodes -> Nat]
  BY <1>1, <1>2, <1>3, <1>4
<1>8. driverOf'[ph] = DriverFor(ph)
  BY <1>1, <1>2, <1>3, <1>5, <1>6
<1>9. \A n \in Nodes : n # ph => driverOf'[n] = driverOf[n]
  BY <1>1, <1>2
<1>10. \A n \in Nodes : driverOf'[n] = IF \E i \in 1 .. Len(passed') : passed'[i] = n THEN DriverFor(n) ELSE 0
  BY <1>2, <1>3, <1>8, <1>9
<1>11. \A n \in Nodes : DriverFor(n)' = DriverFor(n)
  BY <1>1 DEF DriverFor
<1>12. \A n \in Nodes' : driverOf'[n] = (IF \E i \in 1 .. Len(passed) : passed[i] = n THEN DriverFor(n) ELSE 0)'
  BY <1>1, <1>10, <1>11 DEF Nodes
<1>13. \A t \in Types : supported'[t] = LastOf(Fitting(t, piece))'
  BY <1>1 DEF LoadInv, LastOf, Fitting
<1> QED
  BY <1>1, <1>2, <1>3, <1>7, <1>12, <1>13 DEF LoadInv, Nodes

\* The second walk starts if there is a Mac OS ROM file.
LEMMA ChainOrBootKeeps == ASSUME LoadInv, ChainOrBoot PROVE LoadInv'
<1>1. /\ loading = "puts"
      /\ \/ loading' = "chains" /\ ph' = Root /\ passed' = <<>>
         \/ loading' = "boots" /\ ph' = ph /\ passed' = passed
      /\ devtree' = devtree /\ blob' = blob /\ supported' = supported /\ piece' = piece /\ driverOf' = driverOf
  BY DEF ChainOrBoot
<1>2. devtree \in DeviceTrees /\ IsInjective(passed)
  BY DEF LoadInv
<1>3. IsInjective(passed') /\ (loading' = "chains" => Walking')
  BY <1>1, <1>2, TreeOf, EmptyWalk
<1>4. \A t \in Types : supported'[t] = LastOf(Fitting(t, piece))'
  BY <1>1 DEF LoadInv, LastOf, Fitting
<1> QED
  BY <1>1, <1>2, <1>3, <1>4 DEF LoadInv, Nodes

\* It stops at the first 9P device (chain9p).
LEMMA Chain9pKeeps == ASSUME LoadInv, Chain9p PROVE LoadInv'
<1>1. /\ loading = "chains" /\ ph # 0 /\ passed' = Append(passed, ph)
      /\ \/ loading' = "chained" /\ ph' = ph
         \/ loading' = loading /\ ph' = dtstep(ph)
      /\ devtree' = devtree /\ blob' = blob /\ supported' = supported /\ piece' = piece /\ driverOf' = driverOf
  BY DEF Chain9p
<1>2. devtree \in DeviceTrees /\ Walking
  BY <1>1 DEF LoadInv
<1>3. loading' = "chains" => Walking'
  BY <1>1, <1>2, WalkStep
<1>4. IsInjective(passed')
  <2>1. PICK k \in 0 .. N : Walked(k) /\ ph = IF k = N THEN 0 ELSE k + 1
    BY <1>2 DEF Walking
  <2>2. N \in Nat
    BY <1>2, TreeOf DEF TreeIs
  <2>3. k \in Nat /\ ph = k + 1 /\ Len(passed) = k /\ passed \in Seq(Nat) /\ \A i \in 1 .. k : passed[i] = i
    BY <1>1, <2>1, <2>2 DEF Walked
  <2>4. passed' \in Seq(Nat) /\ Len(passed') = k + 1 /\ \A i \in 1 .. k + 1 : passed'[i] = i
    BY <1>1, <2>3
  <2> QED
    BY <2>4 DEF IsInjective
<1>5. \A t \in Types : supported'[t] = LastOf(Fitting(t, piece))'
  BY <1>1 DEF LoadInv, LastOf, Fitting
<1> QED
  BY <1>1, <1>2, <1>3, <1>4, <1>5 DEF LoadInv, Nodes

\* It ends, or nothing happens.
LEMMA ChainNoneKeeps == ASSUME LoadInv, ChainNone \/ UNCHANGED loadVars PROVE LoadInv'
<1>1. /\ loading' \in {loading, "chained"} /\ (loading' # loading => loading = "chains") /\ passed' = passed /\ ph' = ph
      /\ devtree' = devtree /\ blob' = blob /\ supported' = supported /\ piece' = piece /\ driverOf' = driverOf
  BY DEF ChainNone, loadVars
<1>2. IsInjective(passed')
  BY <1>1 DEF LoadInv
<1>3. \A t \in Types : supported'[t] = LastOf(Fitting(t, piece))'
  BY <1>1 DEF LoadInv, LastOf, Fitting
<1>4. loading' \in {"puts", "chains"} => Walking'
  BY <1>1 DEF LoadInv, Walking, Walked, N
<1>5. \A n \in Nodes : DriverFor(n)' = DriverFor(n)
  BY <1>1 DEF DriverFor
<1>6. loading' = "puts" => \A n \in Nodes' : driverOf'[n] = (IF \E i \in 1 .. Len(passed) : passed[i] = n THEN DriverFor(n) ELSE 0)'
  BY <1>1, <1>5 DEF LoadInv, Nodes
<1> QED
  BY <1>1, <1>2, <1>3, <1>4, <1>6 DEF LoadInv, Nodes

\* Before the first driver nothing is known.
LEMMA LoadStarts == ASSUME LoadInit PROVE LoadInv
<1>1. /\ devtree \in DeviceTrees /\ blob \in Blobs /\ supported = [t \in Types |-> 0] /\ piece = 0 /\ passed = <<>>
      /\ driverOf = [n \in Nodes |-> 0] /\ loading = "reads"
  BY DEF LoadInit
<1>2. Len(blob) \in Nat
  BY <1>1, BlobIs
<1>3. \A t : Fitting(t, 0) = {}
  BY DEF Fitting
<1>4. \A t \in Types : supported[t] = LastOf(Fitting(t, piece))
  BY <1>1, <1>3 DEF LastOf
<1>5. IsInjective(passed)
  BY <1>1 DEF IsInjective
<1> QED
  BY <1>1, <1>2, <1>4, <1>5 DEF LoadInv

\* The loader's inductive invariant: by type the last driver of the blob looked
\* at so far, and a walk that has passed the nodes of the tree from the first to
\* the one before where it is (ndrvloader.c).
THEOREM LoadInvariant == LoadSpec => []LoadInv
<1>1. LoadInit => LoadInv
  BY LoadStarts
<1>2. LoadInv /\ [LoadNext]_loadVars => LoadInv'
  BY ReadPieceKeeps, StartPutKeeps, PutKeeps, ChainOrBootKeeps, Chain9pKeeps, ChainNoneKeeps DEF LoadNext
<1> QED
  BY <1>1, <1>2, PTL DEF LoadSpec

\* A device whose number a driver describes has the last such driver, and an
\* older number that none describes has none.
LEMMA DriversAreFit == ASSUME LoadInv PROVE DriversFit
<1> SUFFICES ASSUME loading = "puts", ph = 0, NEW n \in Nodes
             PROVE  LET fitting == {i \in DOMAIN blob : blob[i] # <<>> /\ Hex(blob[i]) = devtree.id[n]}
                    IN IF fitting # {} THEN driverOf[n] = Max(fitting)
                       ELSE Legacy(devtree.id[n]) => driverOf[n] = 0
  BY DEF DriversFit
<1> DEFINE id == devtree.id[n]
           fitting == {i \in DOMAIN blob : blob[i] # <<>> /\ Hex(blob[i]) = id}
           vid == virtiotype(id)
           all == Fitting(vid, Len(blob))
<1>1. devtree \in DeviceTrees /\ blob \in Blobs /\ Walking /\ piece = Len(blob)
  BY DEF LoadInv
<1>2. \E i \in 1 .. Len(passed) : passed[i] = n
  BY <1>1, WalkEnds
<1>3. driverOf[n] = DriverFor(n)
  BY <1>2 DEF LoadInv
<1>4. driverOf[n] = IF vid = 0 THEN 0 ELSE supported[vid]
  BY <1>3 DEF DriverFor
<1>5. DOMAIN blob = 1 .. Len(blob)
  BY <1>1, BlobIs
<1>6. vid = 0 \/ vid \in Types
  BY TypeIs
<1>7. vid # 0 => driverOf[n] = LastOf(all)
  BY <1>1, <1>4, <1>6 DEF LoadInv
<1>8. \A i \in DOMAIN blob : blob[i] # <<>> =>
         /\ readhex(blob[i]) = Hex(blob[i]) /\ virtiotype(Hex(blob[i])) # 0
         /\ \A j \in DOMAIN blob : blob[j] # <<>> /\ virtiotype(Hex(blob[j])) = virtiotype(Hex(blob[i])) => Hex(blob[j]) = Hex(blob[i])
         /\ \A k \in FirstLegacy .. FirstLegacy + 9 :
              virtiotype(k) = virtiotype(Hex(blob[i])) => k = Hex(blob[i])
  BY <1>1, BlobAssumption
<1>9. all = {i \in DOMAIN blob : blob[i] # <<>> /\ virtiotype(Hex(blob[i])) = vid}
  BY <1>5, <1>8 DEF Fitting
<1> HIDE DEF all
<1>10. CASE fitting # {}
  <2>1. PICK i \in DOMAIN blob : blob[i] # <<>> /\ Hex(blob[i]) = id
    BY <1>10
  <2>2. vid # 0
    BY <1>8, <2>1
  <2>3. \A j \in DOMAIN blob : blob[j] # <<>> => (virtiotype(Hex(blob[j])) = vid <=> Hex(blob[j]) = id)
    BY <1>8, <2>1
  <2>4. all = fitting
    BY <1>9, <2>3
  <2> QED
    BY <1>7, <1>10, <2>2, <2>4 DEF LastOf
<1>11. CASE fitting = {} /\ Legacy(id)
  <2>1. CASE vid = 0
    BY <1>4, <1>11, <2>1
  <2>2. CASE vid # 0
    <3>1. ASSUME NEW j \in all PROVE FALSE
      <4>1. j \in DOMAIN blob /\ blob[j] # <<>> /\ virtiotype(Hex(blob[j])) = vid
        BY <1>9, <3>1
      <4>2. id \in FirstLegacy .. FirstLegacy + 9
        BY <1>11 DEF Legacy
      <4>3. id = Hex(blob[j])
        BY <1>8, <4>1, <4>2
      <4> QED
        BY <1>11, <4>1, <4>3
    <3>2. all = {}
      BY <3>1
    <3> QED
      BY <1>7, <1>11, <2>2, <3>2 DEF LastOf
  <2> QED
    BY <2>1, <2>2
<1>12. CASE fitting = {} /\ ~Legacy(id)
  BY <1>12
<1> QED
  BY <1>10, <1>11, <1>12

\* Both walks meet every device once, and give each the driver that names it, if
\* there is one, for a tree of any shape and any blob (dtstep, putNDRVs, chain9p).
\* A device that none names is left without if its number is an older one; of
\* the newer ones nothing is said (virtiotype counts them from 0, not from 1).
THEOREM DevicesAreServed == LoadSpec => []DevicesServed
<1>1. ASSUME LoadInv PROVE WalkSeesEachOnce
  <2>1. IsInjective(passed) /\ devtree \in DeviceTrees
    BY <1>1 DEF LoadInv
  <2>2. WalkDone => ToSet(passed) = Nodes
    <3>1. WalkDone => Walking /\ ph = 0
      BY <1>1 DEF LoadInv, WalkDone
    <3> QED
      BY <2>1, <3>1, WalkEnds
  <2> QED
    BY <2>1, <2>2 DEF WalkSeesEachOnce
<1>2. LoadInv => DevicesServed
  BY <1>1, DriversAreFit DEF DevicesServed
<1> QED
  BY <1>2, LoadInvariant, PTL

-----------------------------------------------------------------------------
(***************************************************************************)
(* Patch68k, for texts of any length.                                      *)
(***************************************************************************)

\* The bytes of an instruction, and the labels of the text.
Size68k(ins) == IF ins.ins = "label" THEN 0 ELSE ins.len
Tos == {patchText[i].to : i \in DOMAIN patchText}

\* What the text before the next instruction has become.
Assembled ==
  /\ nextIns \in 1 .. Len(patchText) + 1
  /\ codeLen \in Nat /\ codeLen % 2 = 0 /\ codeLen = BytesOf(patchText)[nextIns - 1]
  /\ 0 \in DOMAIN ops \cup {codeLen}
  /\ labels \in [Tos -> Nat]
  /\ Len(fixups) \in Nat /\ fixups \in Seq([at : Nat, to : Tos])
  /\ \A j \in 1 .. nextIns - 1 : patchText[j].ins = "label" =>
       labels[patchText[j].to] = BytesOf(patchText)[j] /\ labels[patchText[j].to] \in DOMAIN ops \cup {codeLen}
  /\ \A k \in 1 .. Len(fixups) : fixups[k].at < codeLen
  /\ \A k, l \in 1 .. Len(fixups) : fixups[k].at = fixups[l].at => k = l

\* Each instruction in memory is one of those, and the next begins where it ends.
Written(o) ==
  /\ o \in Nat /\ o % 2 = 0 /\ o < codeLen
  /\ \E i \in 1 .. nextIns - 1 :
       /\ patchText[i].ins # "label" /\ ops[o] = Spared(patchText[i])
       /\ o + patchText[i].len = BytesOf(patchText)[i] /\ o + patchText[i].len \in DOMAIN ops \cup {codeLen}
  /\ ops[o].ins \in Branches =>
       \E k \in 1 .. Len(fixups) : fixups[k].at = o + ops[o].len \div 2 /\ fixups[k].to = ops[o].to

\* What the 68k may rely on.
Runnable(o) ==
  /\ o \in Nat
  /\ ops[o].ins = "remove" => CopiesTo(o) = 0
  /\ original # "code" => ops[o].ins # "jmp"
  /\ ops[o].ins \in {"plain", "jsr", "bcc", "lbcc"} => o + ops[o].len \in DOMAIN ops
  /\ ops[o].ins \in Branches =>
       LET d == disp[IF ops[o].ins # "lbcc" THEN o + 1 ELSE o + 2]
       IN  /\ o + 2 + d = labels[ops[o].to] /\ o + 2 + d \in DOMAIN ops
           /\ ops[o].ins # "lbcc" => d # 0

\* While the patch is assembled memory is what its text has become so far; from
\* then on the 68k can run it.
PatchInv ==
  /\ patchText \in Texts /\ original \in Originals
  /\ IF phase68k = "assembles"
       THEN Assembled /\ (\A o \in DOMAIN ops : Written(o)) /\ ~removed /\ fell = 0
       ELSE (\A o \in DOMAIN ops : Runnable(o)) /\ 0 \in DOMAIN ops
  /\ phase68k = "runs" => pc \in DOMAIN ops /\ ~removed
  /\ fell \in Nat /\ (~removed => fell = 0)
  /\ PatchWorks

\* What the texts are.
LEMMA TextIs ==
  ASSUME NEW t \in Texts
  PROVE  /\ Len(t) \in Nat /\ DOMAIN t = 1 .. Len(t) /\ BytesOf(t)[Len(t)] < WordReach
         /\ \A i \in DOMAIN t :
              /\ Instruction(t[i])
              /\ t[i].ins \in Branches => \E j \in DOMAIN t : LabelOf(t, i, j) /\ (t[i].ins \in Shorts => InReach(t, i, j))
              /\ t[i].ins = "label" => \A j \in DOMAIN t : LabelOf(t, i, j) => j = i
<1>1. t \in Seq({t[i] : i \in DOMAIN t})
  BY PatchAssumption
<1>2. Len(t) \in Nat /\ DOMAIN t = 1 .. Len(t)
  BY <1>1, LenProperties
<1>3. BytesOf(t)[Len(t)] < WordReach
  BY PatchAssumption
<1>4. ASSUME NEW i \in DOMAIN t PROVE Instruction(t[i])
  BY PatchAssumption
<1>5. ASSUME NEW i \in DOMAIN t, t[i].ins \in Branches
      PROVE  \E j \in DOMAIN t : LabelOf(t, i, j) /\ (t[i].ins \in Shorts => InReach(t, i, j))
  BY <1>5, PatchAssumption
<1>6. ASSUME NEW i \in DOMAIN t, t[i].ins = "label", NEW j \in DOMAIN t, LabelOf(t, i, j)
      PROVE  j = i
  BY <1>6, PatchAssumption
<1> QED
  BY <1>2, <1>3, <1>4, <1>5, <1>6

\* Each instruction of a text begins where the one before it ends.
LEMMA BytesAre ==
  ASSUME NEW t \in Texts
  PROVE  /\ BytesOf(t) \in [0 .. Len(t) -> Nat] /\ BytesOf(t)[0] = 0
         /\ \A k \in 1 .. Len(t) : BytesOf(t)[k] = BytesOf(t)[k - 1] + Size68k(t[k])
<1> DEFINE n == Len(t)
           s == [k \in 1 .. n |-> Size68k(t[k])]
           Eq(f) == f = [k \in 0 .. n |-> IF k = 0 THEN 0 ELSE f[k - 1] + IF t[k].ins = "label" THEN 0 ELSE t[k].len]
           Upto(f, m) == f \in [0 .. m -> Nat] /\ f[0] = 0 /\ \A k \in 1 .. m : f[k] = f[k - 1] + s[k]
           bad == {m \in 0 .. n : ~ \E f : Upto(f, m)}
<1>0. n \in Nat /\ s \in [1 .. n -> Nat]
  BY TextIs DEF Size68k, Instruction
<1>1. \A k \in 1 .. n : s[k] = IF t[k].ins = "label" THEN 0 ELSE t[k].len
  BY DEF Size68k
<1> HIDE DEF s
<1>2. Upto([k \in 0 .. 0 |-> 0], 0)
  OBVIOUS
<1>3. ASSUME NEW m \in 1 .. n, NEW f, Upto(f, m - 1)
      PROVE  \E g : Upto(g, m)
  <2> DEFINE g == [k \in 0 .. m |-> IF k = m THEN f[m - 1] + s[m] ELSE f[k]]
  <2>1. m \in Nat /\ m - 1 \in Nat /\ m # 0 /\ s[m] \in Nat
    BY <1>0
  <2>2. f \in [0 .. m - 1 -> Nat] /\ f[m - 1] \in Nat
    BY <1>3, <2>1
  <2>3. g \in [0 .. m -> Nat] /\ g[0] = 0
    BY <1>3, <2>1, <2>2
  <2>4. ASSUME NEW k \in 1 .. m PROVE g[k] = g[k - 1] + s[k]
    <3>1. g[k - 1] = f[k - 1]
      BY <2>1
    <3>2. CASE k = m
      BY <2>1, <3>1, <3>2
    <3>3. CASE k # m
      <4>1. k \in 1 .. m - 1
        BY <2>1, <3>3
      <4>2. f[k] = f[k - 1] + s[k]
        BY <1>3, <4>1
      <4> QED
        BY <3>1, <3>3, <4>2
    <3> QED
      BY <3>2, <3>3
  <2>5. Upto(g, m)
    BY <2>3, <2>4
  <2> QED
    BY <2>5
<1>4. bad = {}
  <2> SUFFICES ASSUME bad # {} PROVE FALSE
    OBVIOUS
  <2>1. PICK m \in bad : \A k \in bad : m <= k
    <3>1. bad \in SUBSET Nat
      OBVIOUS
    <3> HIDE DEF bad
    <3> QED
      BY <3>1, LeastNumber
  <2>2. m # 0
    BY <1>2
  <2>6. m \in 0 .. n
    BY <2>1
  <2>7. m \in 1 .. n /\ m - 1 \in 0 .. n /\ ~(m <= m - 1)
    BY <1>0, <2>2, <2>6
  <2>8. m - 1 \notin bad
    BY <2>1, <2>7
  <2>3. m \in 1 .. n /\ m - 1 \in 0 .. n /\ m - 1 \notin bad
    BY <2>7, <2>8
  <2>4. PICK f : Upto(f, m - 1)
    BY <2>3
  <2> HIDE DEF Upto
  <2>5. \E g : Upto(g, m)
    BY <1>3, <2>3, <2>4
  <2> QED
    BY <2>1, <2>5
<1>5. PICK f : Upto(f, n)
  <2>1. n \in 0 .. n
    BY <1>0
  <2> HIDE DEF Upto
  <2> QED
    BY <1>4, <2>1
<1>6. Eq(f)
  BY <1>0, <1>1, <1>5
<1>7. BytesOf(t) = CHOOSE h : Eq(h)
  BY DEF BytesOf
<1> HIDE DEF Eq
<1>8. Eq(BytesOf(t))
  BY <1>6, <1>7
<1> DEFINE b == BytesOf(t)
<1>9. b = [k \in 0 .. n |-> IF k = 0 THEN 0 ELSE b[k - 1] + IF t[k].ins = "label" THEN 0 ELSE t[k].len]
  BY <1>8 DEF Eq
<1> HIDE DEF b
<1>10. b[0] = 0 /\ \A k \in 1 .. n : b[k] = b[k - 1] + s[k]
  <2>1. \A k \in 0 .. n : b[k] = IF k = 0 THEN 0 ELSE b[k - 1] + IF t[k].ins = "label" THEN 0 ELSE t[k].len
    BY <1>9
  <2> QED
    BY <1>0, <1>1, <2>1
<1> DEFINE off == {k \in 0 .. n : b[k] \notin Nat}
<1>11. off = {}
  <2> SUFFICES ASSUME off # {} PROVE FALSE
    OBVIOUS
  <2>1. PICK m \in off : \A k \in off : m <= k
    <3>1. off \in SUBSET Nat
      OBVIOUS
    <3> HIDE DEF off
    <3> QED
      BY <3>1, LeastNumber
  <2>2. m # 0 /\ m \in 1 .. n
    BY <1>0, <1>10, <2>1
  <2>3. m - 1 \in 0 .. n /\ m - 1 \notin off
    BY <1>0, <2>1, <2>2
  <2>4. b[m - 1] \in Nat /\ s[m] \in Nat
    BY <1>0, <2>2, <2>3
  <2> QED
    BY <1>10, <2>1, <2>2, <2>4
<1>12. b \in [0 .. n -> Nat]
  BY <1>9, <1>11
<1>13. \A k \in 1 .. n : b[k] = b[k - 1] + Size68k(t[k])
  BY <1>10 DEF s
<1> QED
  BY <1>10, <1>12, <1>13 DEF b

\* A jump to nowhere is replaced by an instruction as long, and a branch by none
\* (%o of Patch68k).
LEMMA SparedIs ==
  ASSUME NEW i \in DOMAIN patchText, patchText \in Texts
  PROVE  /\ Spared(patchText[i]).len = patchText[i].len /\ Spared(patchText[i]).to = patchText[i].to
         /\ Spared(patchText[i]).ins # "remove" /\ (original # "code" => Spared(patchText[i]).ins # "jmp")
         /\ Spared(patchText[i]).ins \in Branches <=> patchText[i].ins \in Branches
         /\ Spared(patchText[i]).ins \in Branches => Spared(patchText[i]).ins = patchText[i].ins
<1>1. PICK r : r = patchText[i]
  OBVIOUS
<1>2. r \in [ins : Branches \cup {"plain", "jmp", "jsr", "rts", "label"}, len : Nat, to : {r.to}]
  BY <1>1, TextIs DEF Instruction
<1>3. /\ Spared(r).len = r.len /\ Spared(r).to = r.to
      /\ Spared(r).ins = IF original = "code" THEN r.ins
                         ELSE IF r.ins = "jmp" THEN "rts" ELSE IF r.ins = "jsr" THEN "plain" ELSE r.ins
  BY <1>2 DEF Spared
<1> QED
  BY <1>1, <1>2, <1>3 DEF Branches, Shorts

\* A label stands for the place that the text has come to, where the next
\* instruction will be, or the remover (Patch68k).
LEMMA LabelAssembled ==
  ASSUME PatchInv, Assemble, patchText[nextIns].ins = "label"
  PROVE  PatchInv'
<1> DEFINE n == nextIns
           t == patchText
           b == BytesOf(patchText)
<1>1. /\ phase68k = "assembles" /\ n <= Len(t) /\ nextIns' = n + 1 /\ labels' = [labels EXCEPT ![t[n].to] = codeLen]
      /\ codeLen' = codeLen /\ ops' = ops /\ fixups' = fixups /\ patchText' = patchText /\ original' = original
      /\ removed' = removed /\ phase68k' = phase68k /\ pc' = pc /\ aim' = aim /\ fell' = fell
  BY DEF Assemble
<1>2. t \in Texts /\ Assembled /\ (\A o \in DOMAIN ops : Written(o)) /\ ~removed /\ fell = 0 /\ original \in Originals
  BY <1>1 DEF PatchInv
<1>3. /\ n \in 1 .. Len(t) + 1 /\ codeLen \in Nat /\ codeLen % 2 = 0 /\ codeLen = b[n - 1]
      /\ 0 \in DOMAIN ops \cup {codeLen} /\ labels \in [Tos -> Nat] /\ Len(fixups) \in Nat /\ fixups \in Seq([at : Nat, to : Tos])
      /\ \A j \in 1 .. n - 1 : t[j].ins = "label" => labels[t[j].to] = b[j] /\ labels[t[j].to] \in DOMAIN ops \cup {codeLen}
      /\ \A k \in 1 .. Len(fixups) : fixups[k].at < codeLen
      /\ \A k, l \in 1 .. Len(fixups) : fixups[k].at = fixups[l].at => k = l
  BY <1>2 DEF Assembled
<1>4. Len(t) \in Nat /\ DOMAIN t = 1 .. Len(t) /\ n \in DOMAIN t /\ n \in Nat
  BY <1>1, <1>2, <1>3, TextIs
<1>5. b[n] = b[n - 1] + Size68k(t[n]) /\ Size68k(t[n]) = 0 /\ b[n - 1] \in Nat
  BY <1>1, <1>2, <1>3, <1>4, BytesAre DEF Size68k
<1>6. b[n] = codeLen
  BY <1>3, <1>5
<1>7. \A j \in 1 .. n - 1 : t[j].ins = "label" => t[j].to # t[n].to
  <2> SUFFICES ASSUME NEW j \in 1 .. n - 1, t[j].ins = "label", t[j].to = t[n].to PROVE FALSE
    OBVIOUS
  <2>1. j \in DOMAIN t /\ j # n
    BY <1>4
  <2>2. LabelOf(t, n, j)
    BY DEF LabelOf
  <2> QED
    BY <1>2, <1>4, <2>1, <2>2, TextIs
<1>8. t[n].to \in Tos
  BY <1>4 DEF Tos
<1>9. labels' \in [Tos -> Nat] /\ labels'[t[n].to] = codeLen
  BY <1>1, <1>3, <1>8
<1>10. ASSUME NEW j \in 1 .. n, t[j].ins = "label"
       PROVE  labels'[t[j].to] = b[j] /\ labels'[t[j].to] \in DOMAIN ops \cup {codeLen}
  <2>1. CASE j = n
    BY <1>6, <1>9, <2>1
  <2>2. CASE j # n
    <3>1. j \in 1 .. n - 1 /\ j \in DOMAIN t
      BY <1>4, <2>2
    <3>2. t[j].to # t[n].to /\ t[j].to \in Tos
      BY <1>7, <1>10, <3>1 DEF Tos
    <3> QED
      BY <1>1, <1>3, <1>10, <3>1, <3>2
  <2> QED
    BY <2>1, <2>2
<1>11. n + 1 \in 1 .. Len(t) + 1 /\ (n + 1) - 1 = n /\ codeLen = b[(n + 1) - 1] /\ 1 .. (n + 1) - 1 = 1 .. n
  BY <1>3, <1>4, <1>6
<1>12. Assembled'
  BY <1>1, <1>3, <1>9, <1>10, <1>11 DEF Assembled, Tos
<1>13. ASSUME NEW o \in DOMAIN ops PROVE Written(o)'
  <2>1. Written(o)
    BY <1>2
  <2>2. \E i \in 1 .. n : /\ t[i].ins # "label" /\ ops[o] = Spared(t[i])
                          /\ o + t[i].len = b[i] /\ o + t[i].len \in DOMAIN ops \cup {codeLen}
    BY <1>4, <2>1 DEF Written
  <2>3. \A x : Spared(x)' = Spared(x)
    BY <1>1 DEF Spared
  <2> QED
    BY <1>1, <1>11, <2>1, <2>2, <2>3 DEF Written, Spared
<1>14. PatchWorks'
  BY <1>1, <1>2 DEF PatchWorks, BranchesLand, NowhereOnlyRemoved, FallsThroughOnce
<1> QED
  BY <1>1, <1>2, <1>12, <1>13, <1>14 DEF PatchInv

\* Instructions are even, and so is where they begin.
LEMMA EvenSum ==
  ASSUME NEW x \in Nat, NEW y \in Nat, x % 2 = 0, y % 2 = 0
  PROVE  (x + y) % 2 = 0
  OBVIOUS

\* What is less than a number is less than, and not, any greater one.
LEMMA Less == ASSUME NEW x \in Nat, NEW y \in Nat, NEW z \in Nat, x < y, y <= z PROVE x < z /\ x # z
  OBVIOUS

\* An instruction goes where the one before it ends; a branch leaves a fixup
\* that no other branch has (Patch68k).
LEMMA CodeAssembled ==
  ASSUME PatchInv, Assemble, patchText[nextIns].ins # "label"
  PROVE  PatchInv'
<1> DEFINE n == nextIns
           t == patchText
           b == BytesOf(patchText)
           ins == patchText[nextIns]
           e == codeLen + ins.len
           fix == [at |-> codeLen + ins.len \div 2, to |-> ins.to]
<1>1. /\ phase68k = "assembles" /\ n <= Len(t) /\ nextIns' = n + 1 /\ labels' = labels
      /\ codeLen' = e /\ ops' = WithOp(Spared(ins)) /\ fixups' = IF ins.ins \in Branches THEN Append(fixups, fix) ELSE fixups
      /\ patchText' = patchText /\ original' = original
      /\ removed' = removed /\ phase68k' = phase68k /\ pc' = pc /\ aim' = aim /\ fell' = fell
  BY DEF Assemble
<1>2. t \in Texts /\ Assembled /\ (\A o \in DOMAIN ops : Written(o)) /\ ~removed /\ fell = 0 /\ original \in Originals
  BY <1>1 DEF PatchInv
<1>3. /\ n \in 1 .. Len(t) + 1 /\ codeLen \in Nat /\ codeLen % 2 = 0 /\ codeLen = b[n - 1]
      /\ 0 \in DOMAIN ops \cup {codeLen} /\ labels \in [Tos -> Nat] /\ Len(fixups) \in Nat /\ fixups \in Seq([at : Nat, to : Tos])
      /\ \A j \in 1 .. n - 1 : t[j].ins = "label" => labels[t[j].to] = b[j] /\ labels[t[j].to] \in DOMAIN ops \cup {codeLen}
      /\ \A k \in 1 .. Len(fixups) : fixups[k].at < codeLen
      /\ \A k, l \in 1 .. Len(fixups) : fixups[k].at = fixups[l].at => k = l
  BY <1>2 DEF Assembled
<1>4. Len(t) \in Nat /\ DOMAIN t = 1 .. Len(t) /\ n \in DOMAIN t /\ n \in Nat
  BY <1>1, <1>2, <1>3, TextIs
<1>5. Instruction(ins)
  BY <1>2, <1>4, TextIs
<1>6. /\ ins.len \in Nat /\ ins.len > 0 /\ ins.len % 2 = 0 /\ (ins.ins \in Branches => ins.len = 2 \/ ins.len = 4)
      /\ ins.to \in Tos
  BY <1>4, <1>5 DEF Instruction, Tos, Branches, Shorts
<1>7. b[n] = b[n - 1] + ins.len
  BY <1>1, <1>2, <1>3, <1>4, BytesAre DEF Size68k
<1>8. e = b[n] /\ e \in Nat /\ e % 2 = 0 /\ codeLen < e
  <2>1. e \in Nat /\ codeLen < e
    BY <1>3, <1>6
  <2>2. e % 2 = 0
    BY <1>3, <1>6, EvenSum
  <2> QED
    BY <1>3, <1>7, <2>1, <2>2
<1>9. /\ DOMAIN ops' = DOMAIN ops \cup {codeLen}
      /\ \A o \in DOMAIN ops' : ops'[o] = IF o = codeLen THEN Spared(ins) ELSE ops[o]
  BY <1>1 DEF WithOp
<1>10. \A o \in DOMAIN ops : o < codeLen /\ o \in Nat
  BY <1>2 DEF Written
<1>11. n + 1 \in 1 .. Len(t) + 1 /\ (n + 1) - 1 = n /\ 1 .. (n + 1) - 1 = 1 .. n
  BY <1>3, <1>4
<1>12. \A j \in 1 .. n : t[j].ins = "label" => labels[t[j].to] = b[j] /\ labels[t[j].to] \in DOMAIN ops'
  <2>1. \A j \in 1 .. n : t[j].ins = "label" => j \in 1 .. n - 1
    BY <1>4
  <2> QED
    BY <1>3, <1>9, <2>1
<1>13. fix \in [at : Nat, to : Tos] /\ fix.at = codeLen + ins.len \div 2 /\ fix.to = ins.to /\ fix.at >= codeLen
  BY <1>3, <1>6
<1>14. ins.ins \in Branches => fix.at < e
  BY <1>3, <1>6, <1>13
<1> HIDE DEF ins, fix, e
<1>15. /\ fixups' \in Seq([at : Nat, to : Tos]) /\ Len(fixups') \in Nat
       /\ \A k \in 1 .. Len(fixups') : fixups'[k].at < e
       /\ \A k, l \in 1 .. Len(fixups') : fixups'[k].at = fixups'[l].at => k = l
       /\ \A k \in 1 .. Len(fixups) : k \in 1 .. Len(fixups') /\ fixups'[k] = fixups[k]
       /\ ins.ins \in Branches => \E k \in 1 .. Len(fixups') : fixups'[k] = fix
  <2>0. \A k \in 1 .. Len(fixups) : fixups[k].at \in Nat /\ fixups[k].at < codeLen
    <3>1. \A k \in 1 .. Len(fixups) : fixups[k] \in [at : Nat, to : Tos]
      BY <1>3, ElementOfSeq
    <3> QED
      BY <1>3, <3>1
  <2>3. ASSUME NEW k \in 1 .. Len(fixups) PROVE fixups[k].at < e
    <3>1. fixups[k].at \in Nat /\ fixups[k].at < codeLen
      BY <2>0
    <3>2. codeLen \in Nat /\ e \in Nat /\ codeLen <= e
      BY <1>3, <1>8
    <3> QED
      BY <3>1, <3>2, Less
  <2>4. ASSUME NEW k \in 1 .. Len(fixups), NEW y \in Nat, codeLen <= y PROVE fixups[k].at # y
    <3>1. fixups[k].at \in Nat /\ fixups[k].at < codeLen
      BY <2>0
    <3>2. codeLen \in Nat
      BY <1>3
    <3> QED
      BY <2>4, <3>1, <3>2, Less
  <2>1. CASE ins.ins \notin Branches
    <3>1. fixups' = fixups
      BY <1>1, <2>1
    <3>2. \A k \in 1 .. Len(fixups) : fixups[k].at < e
      BY <2>3
    <3> QED
      BY <1>3, <2>1, <3>1, <3>2
  <2>2. CASE ins.ins \in Branches
    <3>1. fixups' = Append(fixups, fix)
      BY <1>1, <2>2
    <3>2. /\ fixups' \in Seq([at : Nat, to : Tos]) /\ Len(fixups') = Len(fixups) + 1
          /\ fixups'[Len(fixups) + 1] = fix /\ \A k \in 1 .. Len(fixups) : fixups'[k] = fixups[k]
      BY <1>3, <1>13, <3>1, AppendProperties
    <3>3. \A k \in 1 .. Len(fixups') : k \in 1 .. Len(fixups) \/ k = Len(fixups) + 1
      BY <1>3, <3>2
    <3>4. fix.at < e /\ codeLen <= fix.at /\ fix.at \in Nat
      BY <1>13, <1>14, <2>2
    <3>5. \A k \in 1 .. Len(fixups) : fixups[k].at < e /\ fixups[k].at # fix.at
      BY <2>3, <2>4, <3>4
    <3>6. \A k \in 1 .. Len(fixups') : fixups'[k].at < e
      BY <3>2, <3>3, <3>4, <3>5
    <3>7. \A k, l \in 1 .. Len(fixups') : fixups'[k].at = fixups'[l].at => k = l
      BY <1>3, <3>2, <3>3, <3>5
    <3>8. Len(fixups) + 1 \in 1 .. Len(fixups') /\ Len(fixups') \in Nat /\ \A k \in 1 .. Len(fixups) : k \in 1 .. Len(fixups')
      BY <1>3, <3>2
    <3> QED
      BY <3>2, <3>6, <3>7, <3>8
  <2> QED
    BY <2>1, <2>2
<1>16. Assembled'
  <2>1. 0 \in DOMAIN ops'
    BY <1>3, <1>9
  <2>2. codeLen' = e /\ labels' = labels /\ nextIns' = n + 1 /\ patchText' = t
    BY <1>1
  <2>3. /\ nextIns' \in 1 .. Len(patchText') + 1 /\ codeLen' \in Nat /\ codeLen' % 2 = 0
        /\ codeLen' = BytesOf(patchText')[nextIns' - 1]
    BY <1>8, <1>11, <2>2
  <2>4. Tos' = Tos
    BY <2>2 DEF Tos
  <2>5. labels' \in [Tos' -> Nat] /\ fixups' \in Seq([at : Nat, to : Tos']) /\ Len(fixups') \in Nat
    BY <1>3, <1>15, <2>2, <2>4
  <2>6. \A j \in 1 .. nextIns' - 1 : patchText'[j].ins = "label" =>
          labels'[patchText'[j].to] = BytesOf(patchText')[j] /\ labels'[patchText'[j].to] \in DOMAIN ops' \cup {codeLen'}
    BY <1>11, <1>12, <2>2
  <2>7. /\ \A k \in 1 .. Len(fixups') : fixups'[k].at < codeLen'
        /\ \A k, l \in 1 .. Len(fixups') : fixups'[k].at = fixups'[l].at => k = l
    BY <1>15, <2>2
  <2> QED
    BY <2>1, <2>3, <2>5, <2>6, <2>7 DEF Assembled
<1>17. \A x : Spared(x)' = Spared(x)
  BY <1>1 DEF Spared
<1>18. ASSUME NEW o \in DOMAIN ops'
       PROVE  /\ o \in Nat /\ o % 2 = 0 /\ o < e
              /\ \E i \in 1 .. n : /\ t[i].ins # "label" /\ ops'[o] = Spared(t[i])
                                   /\ o + t[i].len = b[i] /\ o + t[i].len \in DOMAIN ops' \cup {e}
              /\ ops'[o].ins \in Branches =>
                   \E k \in 1 .. Len(fixups') : fixups'[k].at = o + ops'[o].len \div 2 /\ fixups'[k].to = ops'[o].to
  <2>1. CASE o = codeLen
    <3>1. ops'[o] = Spared(t[n]) /\ n \in 1 .. n /\ t[n].ins # "label"
      BY <1>4, <1>9, <2>1 DEF ins
    <3>2. o + t[n].len = b[n] /\ o + t[n].len = e
      BY <1>8, <2>1 DEF e, ins
    <3>3. Spared(ins).len = ins.len /\ Spared(ins).to = ins.to /\ (Spared(ins).ins \in Branches => ins.ins \in Branches)
      BY <1>2, <1>4, SparedIs DEF ins
    <3>4. ops'[o].ins \in Branches =>
                   \E k \in 1 .. Len(fixups') : fixups'[k].at = o + ops'[o].len \div 2 /\ fixups'[k].to = ops'[o].to
      BY <1>9, <1>13, <1>15, <2>1, <3>3
    <3> QED
      BY <1>3, <1>8, <2>1, <3>1, <3>2, <3>4
  <2>2. CASE o # codeLen
    <3>1. o \in DOMAIN ops /\ Written(o) /\ ops'[o] = ops[o]
      BY <1>2, <1>9, <2>2
    <3>2. PICK i \in 1 .. n - 1 : /\ t[i].ins # "label" /\ ops[o] = Spared(t[i])
                                  /\ o + t[i].len = b[i] /\ o + t[i].len \in DOMAIN ops \cup {codeLen}
      BY <3>1 DEF Written
    <3>3. i \in 1 .. n /\ o + t[i].len \in DOMAIN ops' \cup {e}
      BY <1>4, <1>9, <3>2
    <3>4. o \in Nat /\ o % 2 = 0 /\ o < e
      BY <1>3, <1>8, <3>1 DEF Written
    <3>5. ops[o].ins \in Branches =>
                   \E k \in 1 .. Len(fixups) : fixups[k].at = o + ops[o].len \div 2 /\ fixups[k].to = ops[o].to
      BY <3>1 DEF Written
    <3>6. ops'[o].ins \in Branches =>
                   \E k \in 1 .. Len(fixups') : fixups'[k].at = o + ops'[o].len \div 2 /\ fixups'[k].to = ops'[o].to
      BY <1>15, <3>1, <3>5
    <3> QED
      BY <3>1, <3>2, <3>3, <3>4, <3>6
  <2> QED
    BY <2>1, <2>2
<1>19. \A o \in DOMAIN ops' : Written(o)'
  <2>1. codeLen' = e /\ nextIns' = n + 1 /\ patchText' = t
    BY <1>1
  <2> QED
    BY <1>11, <1>17, <1>18, <2>1 DEF Written
<1>20. PatchWorks'
  BY <1>1, <1>2 DEF PatchWorks, BranchesLand, NowhereOnlyRemoved, FallsThroughOnce
<1> QED
  BY <1>1, <1>2, <1>16, <1>19, <1>20 DEF PatchInv

\* The remover copies its jump to the beginning of the block, wherever it is
\* itself.
LEMMA RemoverCopies == ASSUME NEW c \in Nat, c < WordReach PROVE CopiesTo(c) = 0
<1>1. (-(c + 10)) % 65536 = 65536 - (c + 10)
  BY DEF WordReach
<1>2. 65536 - (c + 10) >= 65536 \div 2
  BY DEF WordReach
<1>3. Signed(-(c + 10), 65536) = -(c + 10)
  BY <1>1, <1>2 DEF Signed
<1> QED
  BY <1>3 DEF CopiesTo

\* A byte holds a displacement of a byte.
LEMMA ByteBack == ASSUME NEW x \in -128 .. 127 PROVE Signed(x, 256) = x
<1>1. CASE x >= 0
  BY <1>1 DEF Signed
<1>2. CASE x < 0
  <2>1. x % 256 = x + 256
    BY <1>2
  <2> QED
    BY <1>2, <2>1 DEF Signed
<1> QED
  BY <1>1, <1>2

\* A word holds a displacement within a block.
LEMMA WordBack == ASSUME NEW x \in Int, -WordReach < x, x < WordReach PROVE Signed(x, 65536) = x
<1>1. CASE x >= 0
  BY <1>1 DEF Signed, WordReach
<1>2. CASE x < 0
  <2>1. x % 65536 = x + 65536
    BY <1>2 DEF WordReach
  <2> QED
    BY <1>2, <2>1 DEF Signed, WordReach
<1> QED
  BY <1>1, <1>2

\* The displacement at an odd place counts from the byte after it.
LEMMA ShortFix ==
  ASSUME NEW f, f.at \in Nat, f.at % 2 = 1, labels[f.to] \in Nat, labels[f.to] - f.at - 1 \in -128 .. 127
  PROVE  Fixup(f) = labels[f.to] - f.at - 1
  BY ByteBack DEF Fixup

\* The displacement at an even place counts from itself.
LEMMA LongFix ==
  ASSUME NEW f, f.at \in Nat, f.at % 2 = 0, labels[f.to] \in Nat, f.at < WordReach, labels[f.to] < WordReach
  PROVE  Fixup(f) = labels[f.to] - f.at
<1>1. labels[f.to] - f.at \in Int /\ -WordReach < labels[f.to] - f.at /\ labels[f.to] - f.at < WordReach
  BY DEF WordReach
<1>2. Signed(labels[f.to] - f.at, 65536) = labels[f.to] - f.at
  BY <1>1, WordBack
<1>3. f.at % 2 # 1
  OBVIOUS
<1> QED
  BY <1>2, <1>3 DEF Fixup

\* The displacement of a short branch is at an odd place, that of a long one at
\* an even.
LEMMA OddAfter == ASSUME NEW o \in Nat, o % 2 = 0 PROVE (o + 1) % 2 = 1 /\ (o + 2) % 2 = 0 /\ 2 \div 2 = 1 /\ 4 \div 2 = 2
  OBVIOUS

\* The whole text has been read when the next instruction is past it.
LEMMA OnePast == ASSUME NEW n \in Nat, NEW m \in 1 .. n + 1, m > n PROVE m - 1 = n
  OBVIOUS

\* How far a short branch goes, from its place and from that of its
\* displacement.
LEMMA Distance ==
  ASSUME NEW o \in Nat, NEW at \in Nat, at - (o + 2) \in -128 .. 127 \ {0}
  PROVE  at - (o + 1) - 1 \in -128 .. 127 \ {0} /\ at - (o + 1) - 1 = at - o - 2
  OBVIOUS

\* A long branch and its displacement are in the block.
LEMMA Within == ASSUME NEW o \in Nat, NEW c \in Nat, o + 4 <= c, c < WordReach PROVE o + 2 < WordReach
  BY DEF WordReach

\* Places of instructions come before their end.
LEMMA UpToEnd ==
  ASSUME NEW c \in Nat, NEW S, \A o \in S : o \in Nat /\ o < c, NEW x \in S \cup {c}
  PROVE  x \in Nat /\ x <= c
<1>1. CASE x \in S
  <2>1. x \in Nat /\ x < c
    BY <1>1
  <2> QED
    BY <2>1
<1>2. CASE x = c
  BY <1>2
<1> QED
  BY <1>1, <1>2

\* With the displacements filled in and the remover at the end, each instruction
\* leads to another: the code can be run (Patch68k).
LEMMA PatchInstallKeeps == ASSUME PatchInv, Install PROVE PatchInv'
<1> DEFINE t == patchText
           b == BytesOf(patchText)
           f(k) == fixups[k]
           last == [ins |-> "remove", len |-> Remover, to |-> ""]
<1>1. /\ phase68k = "assembles" /\ nextIns > Len(t) /\ labels' = labels
      /\ disp' = [o \in {fixups[i].at : i \in DOMAIN fixups} |->
                   Fixup(fixups[CHOOSE i \in DOMAIN fixups : fixups[i].at = o])]
      /\ ops' = WithOp(last) /\ phase68k' = "idle"
      /\ patchText' = patchText /\ original' = original
      /\ removed' = removed /\ pc' = pc /\ aim' = aim /\ fell' = fell
  BY DEF Install
<1>2. t \in Texts /\ Assembled /\ (\A o \in DOMAIN ops : Written(o)) /\ ~removed /\ fell = 0 /\ original \in Originals
  BY <1>1 DEF PatchInv
<1>3. /\ nextIns \in 1 .. Len(t) + 1 /\ codeLen \in Nat /\ codeLen = b[nextIns - 1]
      /\ 0 \in DOMAIN ops \cup {codeLen} /\ labels \in [Tos -> Nat] /\ Len(fixups) \in Nat /\ fixups \in Seq([at : Nat, to : Tos])
      /\ \A j \in 1 .. nextIns - 1 : t[j].ins = "label" => labels[t[j].to] = b[j] /\ labels[t[j].to] \in DOMAIN ops \cup {codeLen}
      /\ \A k, l \in 1 .. Len(fixups) : fixups[k].at = fixups[l].at => k = l
  BY <1>2 DEF Assembled
<1>4. Len(t) \in Nat /\ DOMAIN t = 1 .. Len(t) /\ nextIns - 1 = Len(t) /\ DOMAIN fixups = 1 .. Len(fixups)
  <2>1. Len(t) \in Nat /\ DOMAIN t = 1 .. Len(t)
    BY <1>2, TextIs
  <2>2. DOMAIN fixups = 1 .. Len(fixups)
    BY <1>3, LenProperties
  <2>3. nextIns - 1 = Len(t)
    BY <1>1, <1>3, <2>1, OnePast
  <2> QED
    BY <2>1, <2>2, <2>3
<1>5. codeLen < WordReach
  BY <1>2, <1>3, <1>4, TextIs
<1>6. /\ DOMAIN ops' = DOMAIN ops \cup {codeLen}
      /\ \A o \in DOMAIN ops' : ops'[o] = IF o = codeLen THEN last ELSE ops[o]
  BY <1>1 DEF WithOp
<1>7. \A o \in DOMAIN ops : o \in Nat /\ o < codeLen
  BY <1>2 DEF Written
<1>8. ASSUME NEW k \in 1 .. Len(fixups) PROVE disp'[fixups[k].at] = Fixup(fixups[k])
  <2>1. fixups[k].at \in {fixups[i].at : i \in DOMAIN fixups}
    BY <1>4
  <2>2. (CHOOSE i \in DOMAIN fixups : fixups[i].at = fixups[k].at) = k
    BY <1>3, <1>4
  <2> QED
    BY <1>1, <2>1, <2>2
<1>9. ASSUME NEW o \in DOMAIN ops, ops[o].ins \in Branches
      PROVE  LET d == disp'[IF ops[o].ins # "lbcc" THEN o + 1 ELSE o + 2]
             IN  /\ o + 2 + d = labels[ops[o].to] /\ o + 2 + d \in DOMAIN ops'
                 /\ ops[o].ins # "lbcc" => d # 0
  <2>1. o \in Nat /\ o % 2 = 0 /\ o < codeLen
    BY <1>2 DEF Written
  <2>2. PICK i \in 1 .. Len(t) : /\ t[i].ins # "label" /\ ops[o] = Spared(t[i]) /\ o + t[i].len = b[i]
                                 /\ o + t[i].len \in DOMAIN ops \cup {codeLen}
    BY <1>2, <1>4 DEF Written
  <2>3. PICK k \in 1 .. Len(fixups) : fixups[k].at = o + ops[o].len \div 2 /\ fixups[k].to = ops[o].to
    BY <1>2, <1>9 DEF Written
  <2>4. ops[o].ins = t[i].ins /\ t[i].ins \in Branches /\ ops[o].to = t[i].to /\ ops[o].len = t[i].len
    BY <1>2, <1>4, <1>9, <2>2, SparedIs
  <2>5. PICK j \in 1 .. Len(t) : LabelOf(t, i, j) /\ (t[i].ins \in Shorts => InReach(t, i, j))
    BY <1>2, <1>4, <2>2, <2>4, TextIs
  <2>6. t[j].ins = "label" /\ t[j].to = t[i].to /\ (t[i].ins \in Shorts => b[j] - b[i] \in -128 .. 127 \ {0})
    BY <2>5 DEF LabelOf, InReach
  <2> DEFINE at == labels[ops[o].to]
  <2>7. at = b[j] /\ at \in DOMAIN ops' /\ labels[fixups[k].to] = at
    <3>1. j \in 1 .. nextIns - 1
      BY <1>4
    <3>2. labels[t[j].to] = b[j] /\ labels[t[j].to] \in DOMAIN ops'
      BY <1>3, <1>6, <2>6, <3>1
    <3>3. ops[o].to = t[j].to /\ fixups[k].to = t[j].to
      BY <2>3, <2>4, <2>6
    <3> QED
      BY <3>2, <3>3
  <2>8. at \in Nat /\ at <= codeLen
    <3>1. at \in DOMAIN ops \/ at = codeLen
      BY <1>6, <2>7
    <3> HIDE DEF at
    <3> QED
      BY <1>3, <1>7, <3>1, UpToEnd
  <2> HIDE DEF at
  <2>9. Instruction(t[i])
    BY <1>2, <1>4, <2>2, TextIs
  <2>10. CASE t[i].ins \in Shorts
    <3>1. ops[o].len = 2 /\ ops[o].ins # "lbcc"
      BY <2>4, <2>9, <2>10 DEF Instruction, Shorts
    <3>2. fixups[k].at = o + 1 /\ (o + 1) % 2 = 1 /\ o + 1 \in Nat
      BY <2>1, <2>3, <3>1, OddAfter
    <3>3. at - (o + 1) - 1 \in -128 .. 127 \ {0} /\ at - (o + 1) - 1 = at - o - 2
      <4>1. b[i] = o + 2
        BY <2>2, <2>4, <3>1
      <4> QED
        <5>1. at - (o + 2) \in -128 .. 127 \ {0}
          BY <2>6, <2>7, <2>10, <4>1
        <5> QED
          BY <2>1, <2>8, <5>1, Distance
    <3>4. Fixup(fixups[k]) = at - (o + 1) - 1
      BY <2>7, <2>8, <3>2, <3>3, ShortFix
    <3>5. disp'[o + 1] = at - o - 2 /\ at - o - 2 # 0
      BY <1>8, <3>2, <3>3, <3>4
    <3>6. o + 2 + (at - o - 2) = at
      BY <2>1, <2>8
    <3> QED
      BY <2>7, <3>1, <3>5, <3>6 DEF at
  <2>11. CASE t[i].ins = "lbcc"
    <3>1. ops[o].len = 4 /\ ops[o].ins = "lbcc"
      BY <2>4, <2>9, <2>11 DEF Instruction
    <3>2. fixups[k].at = o + 2 /\ (o + 2) % 2 = 0 /\ o + 2 \in Nat
      BY <2>1, <2>3, <3>1, OddAfter
    <3>3. o + 2 < WordReach /\ at < WordReach
      <4>1. b[i] = o + 4
        BY <2>2, <2>4, <3>1
      <4>2. o + 4 \in DOMAIN ops \cup {codeLen}
        BY <2>2, <2>4, <3>1
      <4>3. o + 4 <= codeLen
        BY <1>3, <1>7, <4>2, UpToEnd
      <4>4. at < WordReach
        BY <1>3, <1>5, <2>8 DEF WordReach
      <4> QED
        BY <1>3, <1>5, <2>1, <4>3, <4>4, Within
    <3>4. Fixup(fixups[k]) = at - (o + 2)
      BY <2>7, <2>8, <3>2, <3>3, LongFix
    <3>5. disp'[o + 2] = at - (o + 2)
      BY <1>8, <3>2, <3>4
    <3>6. o + 2 + (at - (o + 2)) = at
      BY <2>1, <2>8
    <3> QED
      BY <2>7, <3>1, <3>5, <3>6 DEF at
  <2> QED
    BY <2>4, <2>10, <2>11 DEF Branches
<1>10. ASSUME NEW o \in DOMAIN ops' PROVE Runnable(o)'
  <2>1. CASE o = codeLen
    <3>2. ops'[o] = last
      BY <1>6, <2>1
    <3>1. ops'[o].ins = "remove"
      <4>1. last.ins = "remove"
        OBVIOUS
      <4> HIDE DEF last
      <4> QED
        BY <3>2, <4>1
    <3> QED
      BY <1>3, <1>5, <2>1, <3>1, RemoverCopies DEF Runnable, CopiesTo, Branches, Shorts
  <2>2. CASE o # codeLen
    <3>1. o \in DOMAIN ops /\ ops'[o] = ops[o] /\ o \in Nat
      BY <1>6, <1>7, <2>2
    <3>2. PICK i \in 1 .. Len(t) : ops[o] = Spared(t[i]) /\ o + t[i].len \in DOMAIN ops \cup {codeLen}
      BY <1>2, <1>4, <3>1 DEF Written
    <3>3. ops[o].ins # "remove" /\ (original # "code" => ops[o].ins # "jmp") /\ ops[o].len = t[i].len
      BY <1>2, <1>4, <3>2, SparedIs
    <3>4. o + ops[o].len \in DOMAIN ops'
      BY <1>6, <3>2, <3>3
    <3> QED
      BY <1>1, <1>9, <3>1, <3>3, <3>4 DEF Runnable
  <2> QED
    BY <2>1, <2>2
<1>11. 0 \in DOMAIN ops'
  BY <1>3, <1>6
<1>12. PatchWorks'
  <2>1. phase68k' = "idle" /\ fell' = 0
    BY <1>1, <1>2
  <2> QED
    BY <2>1 DEF PatchWorks, BranchesLand, NowhereOnlyRemoved, FallsThroughOnce
<1> QED
  BY <1>1, <1>2, <1>10, <1>11, <1>12 DEF PatchInv

\* What the code is, is the same while it runs.
Installed ==
  /\ patchText' = patchText /\ original' = original /\ ops' = ops /\ labels' = labels /\ disp' = disp

\* What can be run stays so.
LEMMA CodeStays ==
  ASSUME PatchInv, Installed, phase68k # "assembles"
  PROVE  /\ patchText' \in Texts /\ original' \in Originals /\ (\A o \in DOMAIN ops' : Runnable(o)') /\ 0 \in DOMAIN ops'
<1>1. \A o \in DOMAIN ops : Runnable(o)
  BY DEF PatchInv
<1>2. \A o \in DOMAIN ops' : Runnable(o)'
  BY <1>1 DEF Installed, Runnable
<1> QED
  BY <1>2 DEF PatchInv, Installed

\* A call of the vector starts the code at its beginning, unless it has removed
\* itself (setvec).
LEMMA CallVectorKeeps == ASSUME PatchInv, CallVector PROVE PatchInv'
<1>1. /\ phase68k \in {"idle", "original", "returned"} /\ phase68k' = (IF removed THEN JumpsTo ELSE "runs")
      /\ pc' = 0 /\ aim' = "" /\ removed' = removed /\ fell' = fell /\ Installed
  BY DEF CallVector, Installed
<1>2. /\ patchText' \in Texts /\ original' \in Originals /\ (\A o \in DOMAIN ops' : Runnable(o)') /\ 0 \in DOMAIN ops'
  BY <1>1, CodeStays
<1>3. removed \in BOOLEAN \/ ~(removed \in BOOLEAN)
  OBVIOUS
<1>4. fell \in Nat /\ (~removed => fell = 0) /\ fell <= 1 /\ original' = original /\ original \in {"code", "null", "ones"}
  BY <1>1, PatchAssumption DEF PatchInv, PatchWorks, FallsThroughOnce, Installed
<1>5. CASE removed
  <2>1. phase68k' \in {"original", "returned", "nowhere"} /\ (phase68k' = "nowhere" => original = "ones")
    BY <1>1, <1>4, <1>5 DEF JumpsTo
  <2>2. PatchWorks'
    BY <1>1, <1>4, <1>5, <2>1 DEF PatchWorks, BranchesLand, NowhereOnlyRemoved, FallsThroughOnce
  <2> QED
    BY <1>1, <1>2, <1>4, <1>5, <2>1, <2>2 DEF PatchInv
<1>6. CASE ~removed
  <2>1. phase68k' = "runs"
    BY <1>1, <1>6
  <2>2. PatchWorks'
    BY <1>1, <1>4, <2>1 DEF PatchWorks, BranchesLand, NowhereOnlyRemoved, FallsThroughOnce
  <2> QED
    BY <1>1, <1>2, <1>4, <1>6, <2>1, <2>2 DEF PatchInv
<1> QED
  BY <1>5, <1>6

\* A branch goes to its label.
LEMMA RunBranchKeeps == ASSUME PatchInv, RunBranch PROVE PatchInv'
<1> DEFINE d == disp[IF ops[pc].ins # "lbcc" THEN pc + 1 ELSE pc + 2]
           to == pc + 2 + d
<1>1. /\ phase68k = "runs" /\ ops[pc].ins \in Branches /\ pc' = to /\ aim' = ops[pc].to
      /\ phase68k' = (IF (ops[pc].ins # "lbcc" /\ d = 0) \/ to \notin DOMAIN ops THEN "astray" ELSE "runs")
      /\ removed' = removed /\ fell' = fell /\ Installed
  BY DEF RunBranch, Installed
<1>2. /\ patchText' \in Texts /\ original' \in Originals /\ (\A o \in DOMAIN ops' : Runnable(o)') /\ 0 \in DOMAIN ops'
  BY <1>1, CodeStays
<1>3. pc \in DOMAIN ops /\ ~removed /\ fell \in Nat /\ (~removed => fell = 0) /\ Runnable(pc)
  BY <1>1 DEF PatchInv
<1>4. to = labels[ops[pc].to] /\ to \in DOMAIN ops /\ (ops[pc].ins # "lbcc" => d # 0)
  BY <1>1, <1>3 DEF Runnable
<1> HIDE DEF d, to
<1>5. phase68k' = "runs" /\ pc' \in DOMAIN ops' /\ pc' = labels'[aim'] /\ ~removed' /\ fell' = 0
  BY <1>1, <1>3, <1>4 DEF Installed
<1>6. PatchWorks'
  BY <1>5 DEF PatchWorks, BranchesLand, NowhereOnlyRemoved, FallsThroughOnce
<1> QED
  BY <1>2, <1>5, <1>6 DEF PatchInv

\* After another instruction comes the next.
LEMMA RunPlainKeeps == ASSUME PatchInv, RunPlain PROVE PatchInv'
<1>1. /\ phase68k = "runs" /\ ops[pc].ins \in {"plain", "jsr", "bcc", "lbcc"} /\ pc' = pc + ops[pc].len /\ aim' = ""
      /\ phase68k' = phase68k /\ removed' = removed /\ fell' = fell /\ Installed
  BY DEF RunPlain, Installed
<1>2. /\ patchText' \in Texts /\ original' \in Originals /\ (\A o \in DOMAIN ops' : Runnable(o)') /\ 0 \in DOMAIN ops'
  BY <1>1, CodeStays
<1>3. pc \in DOMAIN ops /\ ~removed /\ fell \in Nat /\ (~removed => fell = 0) /\ Runnable(pc)
  BY <1>1 DEF PatchInv
<1>4. pc + ops[pc].len \in DOMAIN ops
  BY <1>1, <1>3 DEF Runnable
<1>5. phase68k' = "runs" /\ pc' \in DOMAIN ops' /\ aim' = "" /\ ~removed' /\ fell' = 0
  BY <1>1, <1>3, <1>4 DEF Installed
<1>6. PatchWorks'
  <2>1. BranchesLand' /\ NowhereOnlyRemoved'
    BY <1>5, Zenon DEF BranchesLand, NowhereOnlyRemoved
  <2>2. FallsThroughOnce'
    <3>1. fell' = 0
      BY <1>5, Zenon
    <3> QED
      BY ONLY <3>1 DEF FallsThroughOnce
  <2> QED
    BY <2>1, <2>2 DEF PatchWorks
<1> QED
  BY <1>2, <1>5, <1>6 DEF PatchInv

\* A jump goes to the original, if that is code.
LEMMA RunEndKeeps == ASSUME PatchInv, RunEnd PROVE PatchInv'
<1>1. /\ phase68k = "runs" /\ ops[pc].ins \in {"jmp", "rts"} /\ aim' = ""
      /\ phase68k' = (IF ops[pc].ins = "rts" THEN "returned" ELSE IF original = "code" THEN "original" ELSE "nowhere")
      /\ removed' = removed /\ fell' = fell /\ Installed
  BY DEF RunEnd, Installed
<1>2. /\ patchText' \in Texts /\ original' \in Originals /\ (\A o \in DOMAIN ops' : Runnable(o)') /\ 0 \in DOMAIN ops'
  BY <1>1, CodeStays
<1>3. pc \in DOMAIN ops /\ ~removed /\ fell \in Nat /\ (~removed => fell = 0) /\ Runnable(pc)
  BY <1>1 DEF PatchInv
<1>4. phase68k' \in {"returned", "original"} /\ aim' = "" /\ ~removed' /\ fell' = 0
  BY <1>1, <1>3 DEF Runnable
<1>5. PatchWorks'
  <2>1. BranchesLand' /\ NowhereOnlyRemoved'
    BY <1>4, Zenon DEF BranchesLand, NowhereOnlyRemoved
  <2>2. FallsThroughOnce'
    <3>1. fell' = 0
      BY <1>4, Zenon
    <3> QED
      BY ONLY <3>1 DEF FallsThroughOnce
  <2> QED
    BY <2>1, <2>2 DEF PatchWorks
<1> QED
  BY <1>2, <1>4, <1>5 DEF PatchInv

\* The remover removes the patch, for it does copy its jump to the beginning.
LEMMA RunRemoverKeeps == ASSUME PatchInv, RunRemover PROVE PatchInv'
<1>1. /\ phase68k = "runs" /\ ops[pc].ins = "remove" /\ removed' = (CopiesTo(pc) = 0) /\ fell' = fell + 1
      /\ phase68k' = "returned" /\ aim' = "" /\ Installed
  BY DEF RunRemover, Installed
<1>2. /\ patchText' \in Texts /\ original' \in Originals /\ (\A o \in DOMAIN ops' : Runnable(o)') /\ 0 \in DOMAIN ops'
  BY <1>1, CodeStays
<1>3. pc \in DOMAIN ops /\ ~removed /\ fell \in Nat /\ (~removed => fell = 0) /\ Runnable(pc)
  BY <1>1 DEF PatchInv
<1>4. CopiesTo(pc) = 0
  BY <1>1, <1>3 DEF Runnable
<1>5. fell = 0
  BY <1>3
<1>6. fell' = 1
  <2>1. fell' = fell + 1
    BY <1>1, Zenon
  <2> QED
    BY ONLY <1>5, <2>1
<1>7. removed'
  BY <1>1, <1>4, Zenon
<1>8. PatchWorks'
  <2>1. BranchesLand' /\ NowhereOnlyRemoved'
    BY <1>1, Zenon DEF BranchesLand, NowhereOnlyRemoved
  <2>2. FallsThroughOnce'
    BY ONLY <1>6 DEF FallsThroughOnce
  <2> QED
    BY <2>1, <2>2 DEF PatchWorks
<1>9. fell' \in Nat /\ phase68k' = "returned"
  <2>1. fell' \in Nat
    BY ONLY <1>6
  <2> QED
    BY <1>1, <2>1, Zenon
<1> QED
  BY <1>2, <1>7, <1>8, <1>9, Zenon DEF PatchInv

\* Steps of others leave the patch as it is.
LEMMA PatchStutters == ASSUME PatchInv, UNCHANGED patchVars PROVE PatchInv'
<1>1. /\ patchText' = patchText /\ original' = original /\ nextIns' = nextIns /\ codeLen' = codeLen /\ ops' = ops
      /\ labels' = labels /\ fixups' = fixups /\ disp' = disp /\ removed' = removed /\ phase68k' = phase68k /\ pc' = pc
      /\ aim' = aim /\ fell' = fell
  BY DEF patchVars
<1>2. PatchWorks'
  BY <1>1 DEF PatchInv, PatchWorks, BranchesLand, NowhereOnlyRemoved, FallsThroughOnce
<1>3. \A o \in DOMAIN ops' : (Runnable(o) => Runnable(o)') /\ (Written(o) => Written(o)')
  <2>1. ASSUME NEW o \in DOMAIN ops', Runnable(o) PROVE Runnable(o)'
    BY <1>1, <2>1 DEF Runnable
  <2>2. ASSUME NEW o \in DOMAIN ops', Written(o) PROVE Written(o)'
    BY <1>1, <2>2 DEF Written, Spared
  <2> QED
    BY <2>1, <2>2
<1>4. Assembled => Assembled'
  BY <1>1 DEF Assembled, Tos
<1> QED
  BY <1>1, <1>2, <1>3, <1>4 DEF PatchInv

\* Before the first instruction there is nothing in the block.
LEMMA PatchStarts == ASSUME PatchInit PROVE PatchInv
<1>1. /\ patchText \in Texts /\ original \in Originals
      /\ nextIns = 1 /\ codeLen = 0 /\ ops = <<>> /\ fixups = <<>>
      /\ labels = [l \in Tos |-> 0]
      /\ removed = FALSE /\ phase68k = "assembles" /\ fell = 0
  BY DEF PatchInit, Tos
<1>2. Len(patchText) \in Nat /\ BytesOf(patchText)[0] = 0
  BY <1>1, TextIs, BytesAre
<1>3. fixups \in Seq([at : Nat, to : Tos]) /\ Len(fixups) = 0
  BY <1>1
<1>4. DOMAIN ops = {}
  BY <1>1
<1>5. Assembled
  <2>1. nextIns - 1 = 0 /\ 0 % 2 = 0 /\ nextIns \in 1 .. Len(patchText) + 1 /\ labels \in [Tos -> Nat]
    BY <1>1, <1>2
  <2> QED
    BY <1>1, <1>2, <1>3, <1>4, <2>1 DEF Assembled
<1>6. PatchWorks
  BY <1>1 DEF PatchWorks, BranchesLand, NowhereOnlyRemoved, FallsThroughOnce
<1> QED
  BY <1>1, <1>4, <1>5, <1>6 DEF PatchInv

\* The inductive invariant of a patch: each instruction has been put where the
\* one before ends, a label is where an instruction begins, every branch has its
\* own fixup; and once it is installed, whatever instruction the 68k comes to
\* leads to another (Patch68k).
THEOREM PatchInvariant == PatchSpec => []PatchInv
<1>1. PatchInit => PatchInv
  BY PatchStarts
<1>2. PatchInv /\ Assemble => PatchInv'
  BY LabelAssembled, CodeAssembled
<1>3. PatchInv /\ [PatchNext]_patchVars => PatchInv'
  BY <1>2, PatchInstallKeeps, CallVectorKeeps, RunBranchKeeps, RunPlainKeeps, RunEndKeeps, RunRemoverKeeps, PatchStutters
  DEF PatchNext
<1> QED
  BY <1>1, <1>3, PTL DEF PatchSpec

\* Branches of bytes and of words land where the text says, no jump goes to an
\* original that is not there but the one that a removed patch leaves, and a
\* patch that falls through is run no more, for texts of any length (Patch68k).
THEOREM PatchAlwaysWorks == PatchSpec => []PatchWorks
<1>1. PatchInv => PatchWorks
  BY DEF PatchInv
<1> QED
  BY <1>1, PatchInvariant, PTL
=============================================================================
