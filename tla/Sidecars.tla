------------------------------ MODULE Sidecars ------------------------------
(***************************************************************************)
(* A file of the Macintosh is up to three files of the host: NAME,         *)
(* NAME.rdump and NAME.idump.  The calls of device-9p.c that make, rename, *)
(* move and delete it do so one message of 9P at a time (move3 and del3 of *)
(* multifork-3.c), after the new name has been reserved with an empty      *)
(* file.  In between the Macintosh may stop and other programs may act, and *)
(* the host may refuse any of the messages.                                *)
(*                                                                         *)
(* A file of the host is known by the file of the Macintosh it belongs to. *)
(* The resource fork of a file that is open is written to the place that   *)
(* the catalog knows for it, which a look-up or a rename sets and a CatMove *)
(* does not.                                                               *)
(***************************************************************************)
EXTENDS Integers, FiniteSets

CONSTANTS
  SideFolders,    \* directories
  Titles,     \* names without suffix
  Whose,      \* the files of the Macintosh there may be
  FolderIds,  \* those of them that are directories
  MaxActs     \* bound on what is begun

ASSUME SidecarsAssumption == FolderIds \subseteq Whose

Reserved == "reserved"
Nobody   == "nobody"
SideSuffixes == {"", ".rdump", ".idump"}

ASSUME OwnersAssumption == Reserved \notin Whose /\ Nobody \notin Whose

VARIABLES
  disk,     \* the host: whose file is at a folder, title and suffix
  underway,       \* the call in progress
  result,   \* of the last call; of one in progress, the worst so far
  listedAt,   \* where the catalog knows each file to be that is open, <<>> if it is not open
  acts,     \* counter for MaxActs
  taken,    \* history: files that Delete or another program removed
  torn      \* history: files that a call did by halves, or whose fork went elsewhere:
            \* see SidecarsFollow

sideVars == <<disk, underway, result, listedAt, acts, taken, torn>>

NoCall == [call |-> "none", step |-> "", whose |-> Nobody, from |-> <<>>, to |-> <<>>]

Present(d, p) == d[p] # Nobody
At3(place, suffix) == <<place[1], place[2], suffix>>
SidePlaces == SideFolders \X Titles
Begins == underway = NoCall /\ acts < MaxActs /\ acts' = acts + 1

Ends(r) == underway' = NoCall /\ result' = r

\* The catalog is told where a file is.
Lists(w, p) == listedAt' = [v \in DOMAIN listedAt |-> IF v = w /\ listedAt[v] # <<>> THEN p ELSE listedAt[v]]

\* What the host refused to rename or remove stays behind.
LeftBehind(answered) ==
  torn' = IF ~answered /\ Present(disk, At3(underway.from, underway.step))
            THEN torn \cup {underway.whose} ELSE torn

(***************************************************************************)
(* fsCreate, with its one message, and fsDelete.                           *)
(***************************************************************************)
CreateFile(w, p) ==
  /\ Begins /\ \A q \in DOMAIN disk : disk[q] # w
  /\ w \notin taken
  /\ IF Present(disk, At3(p, ""))
       THEN result' = "dupFNErr" /\ UNCHANGED disk
       ELSE disk' = [disk EXCEPT ![At3(p, "")] = w] /\ result' = "noErr"
  /\ UNCHANGED <<underway, listedAt, taken, torn>>

\* A file that is open is not deleted.  del3: the file itself must go, its
\* sidecars may fail to.
DeleteBegins(p) ==
  /\ Begins /\ disk[At3(p, "")] \in Whose
  /\ disk[At3(p, "")] \in DOMAIN listedAt => listedAt[disk[At3(p, "")]] = <<>>
  /\ underway' = [NoCall EXCEPT !.call = "delete", !.step = "", !.whose = disk[At3(p, "")], !.from = p]
  /\ result' = "none"
  /\ UNCHANGED <<disk, listedAt, taken, torn>>

UnlinkMain(answered) ==
  /\ underway.call = "delete" /\ underway.step = ""
  /\ IF ~answered \/ ~Present(disk, At3(underway.from, ""))
       THEN Ends("ioErr") /\ UNCHANGED <<disk, taken>>
       ELSE /\ disk' = [disk EXCEPT ![At3(underway.from, "")] = Nobody]
            /\ taken' = taken \cup {disk[At3(underway.from, "")]}
            /\ IF underway.whose \in FolderIds THEN Ends("noErr")
               ELSE underway' = [underway EXCEPT !.step = ".rdump"] /\ UNCHANGED result
  /\ UNCHANGED <<listedAt, acts, torn>>

UnlinkSidecar(answered) ==
  /\ underway.call = "delete" /\ underway.step # ""
  /\ disk' = IF answered THEN [disk EXCEPT ![At3(underway.from, underway.step)] = Nobody] ELSE disk
  /\ LeftBehind(answered)
  /\ IF underway.step = ".idump" THEN Ends("noErr")
     ELSE underway' = [underway EXCEPT !.step = ".idump"] /\ UNCHANGED result
  /\ UNCHANGED <<listedAt, acts, taken>>

(***************************************************************************)
(* fsRename and fsCatMove.                                                 *)
(***************************************************************************)
\* Faulty variant: the name is not reserved exclusively.
ReserveAny(p, q) ==
  /\ Begins /\ disk[At3(p, "")] \in Whose /\ p # q
  /\ underway' = [call |-> "move", step |-> "", whose |-> disk[At3(p, "")], from |-> p, to |-> q]
  /\ result' = "none"
  /\ Lists(disk[At3(p, "")], p)
  /\ UNCHANGED <<disk, taken, torn>>

\* Lcreate9 with O_EXCL of the new name; a rename keeps the folder, a move the title.
Reserve(p, q) ==
  /\ Begins /\ disk[At3(p, "")] \in Whose
  /\ p[1] = q[1] \/ p[2] = q[2]
  /\ IF Present(disk, At3(q, ""))
       THEN result' = "dupFNErr" /\ UNCHANGED <<disk, underway>>
       ELSE /\ disk' = [disk EXCEPT ![At3(q, "")] = Reserved]
            /\ underway' = [call |-> "move", step |-> "", whose |-> disk[At3(p, "")], from |-> p, to |-> q]
            /\ result' = "none"
  /\ Lists(disk[At3(p, "")], p)
  /\ UNCHANGED <<taken, torn>>

\* Renameat9 of the file: over a file, but not a directory over a file.  If it is
\* refused the name stays reserved.
MoveMain(answered) ==
  /\ underway.call = "move" /\ underway.step = ""
  /\ IF answered /\ disk[At3(underway.from, "")] \notin {Nobody} \cup FolderIds
       THEN /\ disk' = [disk EXCEPT ![At3(underway.to, "")] = disk[At3(underway.from, "")], ![At3(underway.from, "")] = Nobody]
            /\ underway' = [underway EXCEPT !.step = ".rdump"] /\ UNCHANGED result
       ELSE Ends("ioErr") /\ UNCHANGED disk
  /\ UNCHANGED <<listedAt, acts, taken, torn>>

\* Of a sidecar: there need be none.  The first refused does not keep the second
\* from its turn; the worst is the result, and only a rename without one is told
\* to the catalog.
MoveSidecar(answered) ==
  /\ underway.call = "move" /\ underway.step # ""
  /\ disk' = IF answered /\ Present(disk, At3(underway.from, underway.step))
               THEN [disk EXCEPT ![At3(underway.to, underway.step)] = disk[At3(underway.from, underway.step)],
                                 ![At3(underway.from, underway.step)] = Nobody]
               ELSE disk
  /\ LeftBehind(answered)
  /\ LET worst == IF answered THEN result ELSE "ioErr" IN
     IF underway.step = ".rdump"
       THEN underway' = [underway EXCEPT !.step = ".idump"] /\ result' = worst /\ UNCHANGED listedAt
       ELSE /\ Ends(IF worst = "ioErr" THEN worst ELSE "noErr")
            /\ IF worst # "ioErr" /\ underway.from[1] = underway.to[1]
                 THEN Lists(underway.whose, underway.to) ELSE UNCHANGED listedAt
  /\ UNCHANGED <<acts, taken>>

(***************************************************************************)
(* The resource fork and the Finder information are written; the Macintosh *)
(* stops; other programs act on whole files.                               *)
(***************************************************************************)
\* Of a resource fork; or another call looks the open file up.
OpenResFork(p) ==
  /\ underway = NoCall /\ disk[At3(p, "")] \in DOMAIN listedAt
  /\ listedAt' = [listedAt EXCEPT ![disk[At3(p, "")]] = p]
  /\ UNCHANGED <<disk, underway, result, acts, taken, torn>>

CloseResFork(w) ==
  /\ underway = NoCall /\ listedAt' = [listedAt EXCEPT ![w] = <<>>]
  /\ UNCHANGED <<disk, underway, result, acts, taken, torn>>

\* close3 and seteof3: the text is written, or removed if the fork is empty.
PushFork(w, text) ==
  /\ underway = NoCall /\ listedAt[w] # <<>> /\ text \in {w, Nobody}
  /\ disk' = [disk EXCEPT ![At3(listedAt[w], ".rdump")] = text]
  /\ torn' = IF disk[At3(listedAt[w], "")] = w THEN torn ELSE torn \cup {w}
  /\ UNCHANGED <<underway, result, listedAt, acts, taken>>

\* fsetattr3, when the file has been looked up.
SetFInfo(p) ==
  /\ underway = NoCall /\ disk[At3(p, "")] \in DOMAIN listedAt
  /\ disk' = [disk EXCEPT ![At3(p, ".idump")] = disk[At3(p, "")]]
  /\ Lists(disk[At3(p, "")], p)
  /\ UNCHANGED <<underway, result, acts, taken, torn>>

StopsMidway ==
  /\ underway # NoCall /\ underway' = NoCall /\ result' = "stopped"
  /\ torn' = torn \cup {underway.whose}
  /\ listedAt' = [w \in DOMAIN listedAt |-> <<>>]
  /\ UNCHANGED <<disk, acts, taken>>

\* Another program makes a file, or removes one with its sidecars; what the
\* name reserved it leaves alone.
HostMakes(w, p) ==
  /\ acts < MaxActs /\ acts' = acts + 1
  /\ \A s \in SideSuffixes : ~Present(disk, At3(p, s))
  /\ w \notin taken /\ \A q \in DOMAIN disk : disk[q] # w
  /\ disk' = [disk EXCEPT ![At3(p, "")] = w]
  /\ UNCHANGED <<underway, result, listedAt, taken, torn>>

HostTakes(p) ==
  /\ acts < MaxActs /\ acts' = acts + 1 /\ disk[At3(p, "")] \in Whose
  /\ disk' = [q \in DOMAIN disk |-> IF <<q[1], q[2]>> = p THEN Nobody ELSE disk[q]]
  /\ taken' = taken \cup {disk[At3(p, "")]}
  /\ torn' = IF underway = NoCall THEN torn ELSE torn \cup {underway.whose}
  /\ UNCHANGED <<underway, result, listedAt>>

SideInit ==
  /\ disk = [q \in SideFolders \X Titles \X SideSuffixes |-> Nobody]
  /\ underway = NoCall /\ result = "none" /\ listedAt = [w \in Whose \ FolderIds |-> <<>>]
  /\ acts = 0 /\ taken = {} /\ torn = {}

SideNext ==
  \/ \E w \in Whose, p \in SidePlaces : CreateFile(w, p) \/ HostMakes(w, p)
  \/ \E p \in SidePlaces : DeleteBegins(p) \/ HostTakes(p) \/ OpenResFork(p) \/ SetFInfo(p)
  \/ \E w \in Whose \ FolderIds : CloseResFork(w) \/ PushFork(w, w) \/ PushFork(w, Nobody)
  \/ \E p, q \in SidePlaces : Reserve(p, q)
  \/ \E answered \in BOOLEAN :
       UnlinkMain(answered) \/ UnlinkSidecar(answered) \/ MoveMain(answered) \/ MoveSidecar(answered)
  \/ StopsMidway

SideSpec == SideInit /\ [][SideNext]_sideVars

(***************************************************************************)
(* Properties.                                                             *)
(***************************************************************************)
\* No file is replaced: what was neither deleted nor removed by another program
\* is on the disk, at one place, after each step if it was before.
Kept(w) == w \notin taken' /\ (\E p \in SidePlaces : disk[At3(p, "")] = w)
             => \E p \in SidePlaces : disk'[At3(p, "")] = w

\* Between calls a sidecar lies beside its own file, wherever that has been
\* moved; but for those of files
\*  - that a call stopped half way with, or that another program removed in the
\*    middle of a call with them;
\*  - with which the host refused to rename or remove a sidecar (move3 goes on and
\*    fails, del3 goes on and does not);
\*  - whose resource fork was open during a CatMove, or a rename that failed, and
\*    was then written to the old place.
SidecarsFollow ==
  underway = NoCall =>
    \A p \in SidePlaces, s \in SideSuffixes :
      disk[At3(p, s)] \in Whose \ torn => disk[At3(p, "")] = disk[At3(p, s)]

\* Whatever other programs put in the way between the messages of a call, and
\* whatever the host refuses, no step replaces a file, and none but the failures
\* that SidecarsFollow names leaves a sidecar beside a file of another.
SidecarsSafe == [][(\A w \in Whose : Kept(w)) /\ SidecarsFollow']_sideVars
=============================================================================
