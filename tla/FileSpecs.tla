------------------------------ MODULE FileSpecs ------------------------------
(***************************************************************************)
(* Paths with colons, and what programs are told of the files they lead to *)
(* (catalog.c, device-9p.c): FSSpecs of files that exist or are to be      *)
(* made, file IDs, and the information of GetFInfo and GetCatInfo.         *)
(*                                                                         *)
(* The host changes nothing here and the table of CNIDs forgets nothing    *)
(* (Catalog is about that): a CNID in the table leads to its directory.    *)
(* Paths have names of one letter, and do not climb above the root.        *)
(***************************************************************************)
EXTENDS Integers, Sequences, FiniteSets, SequencesExt

CONSTANTS
  HostTree,     \* files and directories: [id, parent, name, dir]
  PathsAsked,   \* sequences of letters and ":"
  NewFile,      \* the CNID of a file that is made
  Deepest       \* bound on the directories above a file of HostTree

VARIABLES
  files,         \* the host's
  known,        \* CNIDs in the table: [parent, name]
  reply        \* of the last call

specVars == <<files, known, reply>>

RootDir == [id |-> 2, parent |-> 1, name |-> "disk", dir |-> TRUE]
Objects(t) == t \cup {RootDir}
Object(t, id) == CHOOSE o \in Objects(t) : o.id = id
IdsOf(t)  == {o.id : o \in Objects(t)}
Dirs(t) == {o.id : o \in {x \in Objects(t) : x.dir}}

PathColon == ":"
Up == ".."

\* A tree: each file in a directory, with a name that no sibling has.
IsTree(t) ==
  /\ \A o \in t : o.id \notin {0, 1, 2} /\ o.parent \in Dirs(t) /\ o.name \notin {PathColon, Up}
  /\ \A o, x \in t : o.id = x.id \/ (o.parent = x.parent /\ o.name = x.name) => o = x

\* So many directories are above each.
Levelled(t, most, level) ==
  level[2] = 0 /\ \A o \in t : level[o.id] = level[o.parent] + 1 /\ level[o.id] <= most

\* Names have one letter, between colons.
IsPath(path) ==
  /\ path \in Seq(STRING) /\ \A i \in DOMAIN path : path[i] # Up
  /\ \A i \in 2 .. Len(path) : PathColon \in {path[i - 1], path[i]}

ASSUME FileSpecsAssumption ==
  /\ IsTree(HostTree) /\ \A path \in PathsAsked : IsPath(path)
  /\ Deepest \in Nat /\ \E level \in [IdsOf(HostTree) -> 0 .. Deepest] : Levelled(HostTree, Deepest, level)
  /\ NewFile \notin {0, 1} \cup IdsOf(HostTree)

(***************************************************************************)
(* CatalogWalk, in a tree.                                                 *)
(***************************************************************************)
Absolute(dir, path) == dir = 1 \/ (PathColon \in ToSet(path) /\ path[1] # PathColon)

Unled(path) == IF path # <<>> /\ path[1] = PathColon THEN Tail(path) ELSE path

\* The disk's name of an absolute path is dropped, whatever it is.
Undisked(path) ==
  LET at == {i \in DOMAIN path : path[i] = PathColon}
  IN IF at = {} THEN <<>> ELSE SubSeq(path, CHOOSE i \in at : \A j \in at : i <= j, Len(path))

\* One colon ends a name, and each further one is "..".  At the beginning,
\* where no name has been, the first colon is dropped and another expected.
Elements(path) ==
  LET p == Unled(path)
      els[i \in 0 .. Len(p)] ==
        IF i = 0 THEN <<>>
        ELSE IF p[i] # PathColon THEN Append(els[i - 1], p[i])
        ELSE IF i > 1 /\ p[i - 1] = PathColon THEN Append(els[i - 1], Up)
        ELSE els[i - 1]
  IN  els[Len(p)]

ChildNamed(t, id, name) ==
  IF \E o \in t : o.parent = id /\ o.name = name
  THEN (CHOOSE o \in t : o.parent = id /\ o.name = name).id ELSE 0

\* Walk9, one element; 0 is nothing.
StepTo(t, id, el) == IF id = 0 THEN 0
                     ELSE IF el # Up THEN ChildNamed(t, id, el)
                     ELSE IF id = 2 THEN 2 ELSE Object(t, id).parent

WalkedIds(t, from, els) ==
  LET at[k \in 0 .. Len(els)] == IF k = 0 THEN from ELSE StepTo(t, at[k - 1], els[k]) IN at

Upwards(t, path) == IF path[1] = 2 THEN path ELSE <<Object(t, path[1]).parent>> \o path

\* The path from the root to a directory.
Above(t, id) ==
  LET up[k \in 0 .. Deepest + 1] == IF k = 0 THEN <<id>> ELSE Upwards(t, up[k - 1]) IN up[Deepest + 1]

\* The path from the root, with each ".." taking back an element.
FoldedPath(t, from, els, at) ==
  LET path[k \in 0 .. Len(els)] ==
        IF k = 0 THEN Above(t, from)
        ELSE IF els[k] = Up THEN Front(path[k - 1]) ELSE Append(path[k - 1], at[k])
  IN  path

StartsAt(dir, path) == IF Absolute(dir, path) THEN 2 ELSE dir
ElementsOf(dir, path)  == Elements(IF Absolute(dir, path) THEN Undisked(Unled(path)) ELSE path)

\* Whether the path stays below the root, which the code takes for granted.
Bounded(t, dir, path) ==
  LET from == StartsAt(dir, path)
      els  == ElementsOf(dir, path)
      full == FoldedPath(t, from, els, WalkedIds(t, from, els))
  IN \A k \in DOMAIN els : full[k] # <<>>

Failure(err) == [err |-> err, id |-> 0, parent |-> 0, name |-> "", sets |-> {}]

ParentInPath(full) == IF Len(full) = 1 THEN 1 ELSE full[Len(full) - 1]

\* The name CatalogSet was last told, or that of the element arrived at.
LastName(t, els, full) ==
  LET texts == {k \in DOMAIN els : els[k] # Up}
  IN IF texts = {} THEN Object(t, Last(full)).name
     ELSE els[CHOOSE k \in texts : \A j \in texts : j <= k]

\* There must be text after the colon that an absolute path may begin with, and
\* a relative one starts from a directory.
CanWalk(t, dir, path) ==
  IF Absolute(dir, path) THEN Unled(path) # <<>> /\ Unled(path)[1] # PathColon ELSE dir \in Dirs(t)

CatalogWalk(t, dir, path) ==
  LET from == StartsAt(dir, path)
      els  == ElementsOf(dir, path)
      at   == WalkedIds(t, from, els)
      lost == {k \in DOMAIN els : at[k] = 0}
      full == FoldedPath(t, from, els, at)[Len(els)]
  IN IF ~CanWalk(t, dir, path) THEN Failure("fnfErr")
     ELSE IF \E k \in 1 .. Len(els) - 1 : at[k] \notin Dirs(t) /\ at[k + 1] # 0 THEN Failure("dirNFErr")
     ELSE IF lost # {} THEN Failure(IF lost = {Len(els)} THEN "fnfErr" ELSE "dirNFErr")
     ELSE [err |-> "noErr", id |-> at[Len(els)],
           parent |-> ParentInPath(full),
           name |-> LastName(t, els, full),
           sets |-> {[id |-> at[j], parent |-> at[j - 1], name |-> els[j]] :
                       j \in {k \in DOMAIN els : els[k] # Up}}]

(***************************************************************************)
(* The calls.  The directory they name is one the program was told of.     *)
(***************************************************************************)
NoReply == [call |-> "none"]

KnownDirs == {1, 2} \cup ({k.id : k \in known} \cap Dirs(files))
Ok(walk) == walk.err = "noErr"

\* Faulty variant: the directory is cut off before its colon.
pathSplitBare(path) ==
  LET end    == IF path # <<>> /\ Last(path) = PathColon THEN Len(path) - 1 ELSE Len(path)
      colons == {0} \cup {i \in 1 .. end : path[i] = PathColon}
      dirlen == CHOOSE i \in colons : \A j \in colons : j <= i
  IN [dir |-> SubSeq(path, 1, dirlen - 1), leaf |-> SubSeq(path, dirlen + 1, end)]

\* One colon at the end is left out, and the name goes back to the next.
pathSplitLeaf(path) ==
  LET end    == IF path # <<>> /\ Last(path) = PathColon THEN Len(path) - 1 ELSE Len(path)
      colons == {0} \cup {i \in 1 .. end : path[i] = PathColon}
      dirlen == CHOOSE i \in colons : \A j \in colons : j <= i
  IN [dir |-> SubSeq(path, 1, dirlen), leaf |-> SubSeq(path, dirlen + 1, end)]

Told(call, asked, err, id, parent, name) ==
  [call |-> call, asked |-> asked, err |-> err, id |-> id, parent |-> parent, name |-> name]

\* fsMakeFSSpec: the name and parent of what exists or is to be made.
MakeFSSpec(dir, path) ==
  /\ reply = NoReply
  /\ \E w \in {CatalogWalk(files, dir, path)}, split \in {pathSplitLeaf(path)} :
     \E up \in {CatalogWalk(files, dir, split.dir)} :
       /\ reply' = CASE Ok(w) /\ w.id = 2 -> Told("spec", <<dir, path>>, "noErr", 2, 2, <<>>)
                      [] Ok(w) /\ w.id # 2 -> Told("spec", <<dir, path>>, "noErr", w.id, w.parent, <<w.name>>)
                      [] w.err = "fnfErr" /\ split.leaf # <<>> /\ Ok(up) ->
                           Told("spec", <<dir, path>>, "fnfErr", 0, up.id, split.leaf)
                      [] OTHER -> Told("spec", <<dir, path>>, "dirNFErr", 0, 0, <<>>)
       /\ known' = known \cup w.sets \cup (IF w.err = "fnfErr" THEN up.sets ELSE {})
  /\ UNCHANGED files

\* fsCreate, of a file or a directory, asked for by whoever asked.
Created(dir, path, folder, asked) ==
  \E split \in {pathSplitLeaf(path)} : \E up \in {CatalogWalk(files, dir, split.dir)} :
    /\ split.leaf # <<>> /\ Ok(up) /\ up.id \in Dirs(files) /\ ChildNamed(files, up.id, split.leaf[1]) = 0
    /\ files' = files \cup {[id |-> NewFile, parent |-> up.id, name |-> split.leaf[1], dir |-> folder]}
    /\ known' = known \cup up.sets \cup
                 (IF folder THEN {[id |-> NewFile, parent |-> up.id, name |-> split.leaf[1]]} ELSE {})
    /\ reply' = Told("create", asked, "noErr", NewFile, up.id, split.leaf)

Unmade == \A o \in files : o.id # NewFile

CreateAt(dir, path, folder) ==
  Unmade /\ reply = NoReply /\ Created(dir, path, folder, <<dir, path>>)

\* The program makes what the last FSSpec is for.
CreateSpec(folder) ==
  /\ Unmade /\ reply.call = "spec" /\ reply.err = "fnfErr"
  /\ Created(reply.parent, reply.name, folder, reply.asked)

\* The children of a directory, and the one at an index of their listing.
Listed(t, dir, catalogCall) == {o \in t : o.parent = dir /\ (catalogCall \/ ~o.dir)}
ListedAt(row, idx) == {o \in row : Cardinality({x \in row : x.id <= o.id}) = idx}

\* fsGetFileInfo: by index, by path, or (idx below 0) the directory itself.
\* GetFInfo has no directories and takes an index below 0 for 0.  Of what is
\* filled in, the number, the parent and the name are kept.
GetFileInfo(dir, idx, path, catalogCall) ==
  /\ reply = NoReply
  /\ \E w \in {IF idx < 0 /\ catalogCall THEN CatalogWalk(files, dir, <<>>) ELSE CatalogWalk(files, dir, path)} :
       /\ known' = known \cup w.sets
       /\ reply' = IF ~Ok(w) \/ (w.id \in Dirs(files) /\ ~catalogCall)
                    THEN Told("info", <<dir, path>>, "fnfErr", 0, 0, <<>>)
                    ELSE Told("info", <<dir, IF idx < 0 /\ catalogCall THEN <<>> ELSE path>>,
                              "noErr", w.id, w.parent, <<w.name>>)
  /\ UNCHANGED files

GetIndexedInfo(dir, idx, catalogCall) ==
  /\ reply = NoReply /\ dir # 1
  /\ \/ /\ ListedAt(Listed(files, dir, catalogCall), idx) = {}
        /\ reply' = Told("listed", <<dir, <<>>>>, "fnfErr", 0, 0, <<>>) /\ UNCHANGED known
     \/ \E o \in ListedAt(Listed(files, dir, catalogCall), idx) :
          /\ reply' = Told("listed", <<dir, <<>>>>, "noErr", o.id, dir, <<o.name>>)
          /\ known' = known \cup {[id |-> o.id, parent |-> dir, name |-> o.name]}
  /\ UNCHANGED files

\* The ID of a file is its CNID.
CreateFileIDRef(dir, path) ==
  /\ reply = NoReply
  /\ \E w \in {CatalogWalk(files, dir, path)} :
       /\ known' = known \cup w.sets
       /\ reply' = Told("id", <<dir, path>>,
                         IF ~Ok(w) THEN w.err ELSE IF w.id \in Dirs(files) THEN "notAFileErr" ELSE "noErr",
                         w.id, 0, <<>>)
  /\ UNCHANGED files

ResolveFileIDRef(entry) ==
  /\ reply = NoReply
  /\ reply' = Told("resolved", <<2, <<>>>>, "noErr", entry.id, entry.parent, <<entry.name>>)
  /\ UNCHANGED <<files, known>>

\* The program goes on to something else.
NextCall == reply # NoReply /\ reply' = NoReply /\ UNCHANGED <<files, known>>

SpecInit ==
  /\ files = HostTree /\ reply = NoReply
  /\ known = {[id |-> 2, parent |-> 1, name |-> "disk"]}

\* A call that names a directory and a path.
Call(dir, path) ==
  \/ MakeFSSpec(dir, path)
  \/ CreateFileIDRef(dir, path)
  \/ \E folder \in BOOLEAN : CreateAt(dir, path, folder)
  \/ \E idx \in {-1, 0}, catalogCall \in BOOLEAN : GetFileInfo(dir, idx, path, catalogCall)

SpecNext ==
  \/ NextCall
  \/ reply = NoReply /\ \E dir \in KnownDirs : \E path \in PathsAsked : Bounded(files, dir, path) /\ Call(dir, path)
  \/ \E dir \in KnownDirs, idx \in 1 .. 3, catalogCall \in BOOLEAN : GetIndexedInfo(dir, idx, catalogCall)
  \/ \E folder \in BOOLEAN : CreateSpec(folder)
  \/ \E entry \in known : ResolveFileIDRef(entry)

SpecSpec == SpecInit /\ [][SpecNext]_specVars

(***************************************************************************)
(* Properties.                                                             *)
(***************************************************************************)
Asked == CatalogWalk(files, reply.asked[1], reply.asked[2])

\* A path with names that ends by climbing: the name returned is wrong then.
EndsUp(dir, path) ==
  LET els == ElementsOf(dir, path) IN els # <<>> /\ Last(els) = Up /\ \E i \in DOMAIN els : els[i] # Up

\* What a program is told of a file leads back to it: an FSSpec, the parent
\* and name of GetCatInfo, by path or by index, and those of a file ID.
ToldLeadsBack ==
  reply.call \in {"spec", "info", "listed", "resolved"} /\ reply.err = "noErr"
    /\ ~EndsUp(reply.asked[1], reply.asked[2])
  => \/ reply.id = 2
     \/ CatalogWalk(files, reply.parent, reply.name).id = reply.id

\* A name with nothing but the colon of a disk's name: the code makes it in
\* the directory given.
DiskOnly(path) == path # <<>> /\ path[1] # PathColon /\ {i \in DOMAIN path : path[i] = PathColon} = {Len(path)}

\* What is made by a path, or by the FSSpec made from a path, at once or by
\* way of the pieces that pathSplitLeaf makes of it, is what the path leads to.
CreatedIsFound ==
  reply.call = "create" /\ ~DiskOnly(reply.asked[2]) => Ok(Asked) /\ Asked.id = NewFile

\* Names and paths, given out and taken back, mean the same file.
NamesLead == CreatedIsFound /\ ToldLeadsBack
=============================================================================
