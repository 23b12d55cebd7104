-------------------------------- MODULE ExtFS --------------------------------
(***************************************************************************)
(* The hook by which file system calls reach the drivers of 9P volumes     *)
(* (device-9p.c, installExtFS).  All of them share one patch of ToExtFS,   *)
(* which the first to start makes.  In early boot the File Manager will    *)
(* still be initialised, which forgets ToExtFS: the driver then patches    *)
(* InitFS too, once, to save it.  Other software puts hooks of its own on  *)
(* top, and passes on the calls that are not its own.                      *)
(***************************************************************************)
EXTENDS Integers, Sequences, FiniteSets, SequencesExt

CONSTANTS
  Instances,     \* drivers of 9P devices
  MaxOthers      \* bound on the hooks of other software

ASSUME ExtAssumption == "nobody" \notin Instances

VARIABLES
  ToExtFS,       \* the hooks, the outermost first
  initFS,        \* patches of InitFS that save ToExtFS, the outermost first
  fileMgr,       \* the File Manager is initialised
  drives,        \* the instances whose drive is in the queue, with FSID
  volumes9p,       \* the instances with a volume
  called,        \* the last call and who got it
  buried,        \* history: a hook was put on ours before InitFS
  others         \* counter for MaxOthers

extVars == <<ToExtFS, initFS, fileMgr, drives, volumes9p, called, buried, others>>

\* The hooks of other software pass the call on, ours knows the volumes by the
\* FSID in their VCB and drives by that in the drive queue.
Reaches(i, known) == IF i \in known /\ "ours" \in ToSet(ToExtFS) THEN i ELSE "nobody"

\* MountVol with a count that no program has: ours answers with nsDrvErr.
Probed(i) == fileMgr /\ Reaches(i, drives') = i

AlreadyPatched(i) == (ToExtFS # <<>> /\ Head(ToExtFS) = "ours") \/ Probed(i)

\* installDrive and installExtFS.
Install9(i) ==
  /\ i \notin drives \cup volumes9p
  /\ drives' = drives \cup {i}
  /\ IF AlreadyPatched(i) THEN UNCHANGED <<ToExtFS, initFS>>
     ELSE /\ ToExtFS' = <<"ours">> \o ToExtFS
          /\ initFS' = IF fileMgr THEN initFS ELSE <<"saver">> \o initFS
  /\ UNCHANGED <<fileMgr, volumes9p, called, buried, others>>

OtherHook ==
  /\ others < MaxOthers /\ others' = others + 1
  /\ ToExtFS' = <<"other">> \o ToExtFS
  /\ buried' = (buried \/ (~fileMgr /\ "ours" \in ToSet(ToExtFS)))
  /\ UNCHANGED <<initFS, fileMgr, drives, volumes9p, called>>

\* Faulty variant: the patches of InitFS are made, but restore nothing.
RestoredNot == <<>>

\* Each patch pushes ToExtFS, calls what is below, and pops it; the innermost
\* is the ROM's, which forgets it.  The patches then remove themselves.
Restored == IF initFS = <<>> THEN <<>> ELSE ToExtFS

InitFS ==
  /\ ~fileMgr /\ fileMgr' = TRUE
  /\ ToExtFS' = Restored /\ initFS' = <<>>
  /\ UNCHANGED <<drives, volumes9p, called, buried, others>>

\* MountVol for a drive; fsMountVol takes its FSID away.
MountVol(i) ==
  /\ fileMgr /\ i \in drives
  /\ called' = [for |-> i, got |-> Reaches(i, drives)]
  /\ IF Reaches(i, drives) = i
     THEN drives' = drives \ {i} /\ volumes9p' = volumes9p \cup {i}
     ELSE UNCHANGED <<drives, volumes9p>>
  /\ UNCHANGED <<ToExtFS, initFS, fileMgr, buried, others>>

\* Any call on a volume.
VolumeCall(i) ==
  /\ i \in volumes9p
  /\ called' = [for |-> i, got |-> Reaches(i, volumes9p)]
  /\ UNCHANGED <<ToExtFS, initFS, fileMgr, drives, volumes9p, buried, others>>

ExtInit ==
  /\ ToExtFS \in {<<>>, <<"other">>} /\ initFS = <<>> /\ fileMgr \in BOOLEAN
  /\ drives = {} /\ volumes9p = {} /\ called = [for |-> "nobody", got |-> "nobody"]
  /\ buried = FALSE /\ others = 0

ExtNext ==
  \/ OtherHook \/ InitFS
  \/ \E i \in Instances : Install9(i) \/ MountVol(i) \/ VolumeCall(i)

ExtSpec == ExtInit /\ [][ExtNext]_extVars

(***************************************************************************)
(* Properties.                                                             *)
(***************************************************************************)
\* From the start of a driver on, before the File Manager is up and after, each
\* call for its drive or volume reaches it, whoever else hooks ToExtFS.
CallsReach ==
  /\ drives \cup volumes9p # {} => "ours" \in ToSet(ToExtFS)
  /\ called.got = called.for

\* One hook serves all drivers, unless another was put on it before the File
\* Manager could be asked for it.
OneHook == ~buried => Cardinality({k \in DOMAIN ToExtFS : ToExtFS[k] = "ours"}) <= 1

\* The drivers share one hook, which stays reachable.
HookServes == CallsReach /\ OneHook
==============================================================================
