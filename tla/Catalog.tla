------------------------------- MODULE Catalog -------------------------------
(***************************************************************************)
(* CatalogWalk and the calls of device-9p.c that walk, list, make, rename, *)
(* move and delete, on a directory tree of the host that other programs on *)
(* the host change too.                                                    *)
(*                                                                         *)
(* The File Manager makes one call at a time, so a call is one action.  A  *)
(* path is a sequence of names and "..": the parsing of colons is left     *)
(* out, and paths that climb above the root with it.  Each file has a      *)
(* CNID of its own (QID2CNID is taken to have no collisions), which a new  *)
(* file may get again.                                                     *)
(***************************************************************************)
EXTENDS CatalogTable

CONSTANTS Dirs,       \* the CNIDs of directories
          Paths,      \* the paths that calls are made with
          Trees,      \* what the host has when the driver starts
          MaxEl,      \* names that fit in el[]
          MaxChanges  \* bound on the changes of the tree, and restarts

Up == ".."
DiskName == "disk"
AllDirs == Dirs \cup {Root}

\* A tree of the host: a parent that there is, and a name no sibling has.
IsTree(t) ==
  /\ DOMAIN t \subseteq Cnids
  /\ \A c \in DOMAIN t : /\ t[c] \in [parent : AllDirs, name : Names]
                         /\ t[c].parent \in DOMAIN t \cup {Root}
                         /\ \A d \in DOMAIN t : t[c] = t[d] => c = d

ASSUME CatalogAssumption ==
  /\ Dirs \subseteq Cnids /\ MaxEl \in Nat \ {0} /\ MaxChanges \in Nat
  /\ Up \notin Names /\ Paths \subseteq Seq(Names \cup {Up})
  /\ \A t \in Trees : IsTree(t)

VARIABLES tree,    \* host: parent and name of each file there is
          db,      \* the table
          listed,  \* lastCNID: the directory whose listing is held
          changes  \* counter for MaxChanges

vars == <<tree, db, listed, changes>>

NoDir == "none"

(***************************************************************************)
(* The host's walks.                                                       *)
(***************************************************************************)
Children(t, dir) == {c \in DOMAIN t : t[c].parent = dir}
Named(t, dir, name) == {c \in Children(t, dir) : t[c].name = name}
ParentOf(t, c) == IF c = Root THEN Root ELSE t[c].parent
Step(t, at, el) == IF el = Up THEN {ParentOf(t, at)} ELSE Named(t, at, el)

\* Walk9 from the root: the files passed, as far as the names lead.
Passed(t, w, i, el) ==
  LET found == Step(t, IF i = 1 THEN Root ELSE w[i - 1], el)
  IN  IF Len(w) < i - 1 \/ found = {} THEN w ELSE Append(w, CHOOSE c \in found : TRUE)

Walk9(t, els) ==
  LET walked[i \in 0 .. Len(els)] == IF i = 0 THEN <<>> ELSE Passed(t, walked[i - 1], i, els[i])
  IN  walked[Len(els)]

(***************************************************************************)
(* CatalogWalk.                                                            *)
(***************************************************************************)
\* One CatalogGet on the way up.
Climb(t) ==
  IF t.at = Root \/ ~t.ok THEN t
  ELSE IF ~Known(t.db, t.at) THEN [t EXCEPT !.ok = FALSE]
  ELSE [at |-> Entry(t.db, t.at).parent, ok |-> TRUE, db |-> CatalogGet(t.db, t.at),
        els |-> <<Entry(t.db, t.at).name>> \o t.els, ids |-> <<t.at>> \o t.ids]

\* The names from the root to a CNID, by the table, which moves as it is read.
Trail(d, cnid) ==
  LET climbed[k \in 0 .. MaxEl] ==
        IF k = 0 THEN [at |-> cnid, ok |-> TRUE, db |-> d, els |-> <<>>, ids |-> <<>>]
                 ELSE Climb(climbed[k - 1])
  IN  climbed[MaxEl]

Reached(trail) == trail.ok /\ trail.at = Root

\* Faulty variant: whatever is at the end of the trail is taken for the CNID.
TakesAny(q, n, cnid) == FALSE

\* Another file is where the table says the CNID is.
OutOfDate(q, n, cnid) == n > 0 /\ q[n] # cnid

\* Faulty variant: only the file at the end of the path is entered.
SetLast(f, id, name, left) ==
  IF left = 0
  THEN CatalogSet(f.db, id, IF f.ids = <<>> THEN Root ELSE Last(f.ids), name)
  ELSE f.db

\* Each name of the path is entered, under the directory before it.
SetEach(f, id, name, left) ==
  CatalogSet(f.db, id, IF f.ids = <<>> THEN Root ELSE Last(f.ids), name)

\* Faulty variant: the parent is the directory that the path started from.
ParentAsAsked(ids, cnid) == cnid

\* retparent: CNID 1, the parent of the root, is given as the root too.
RetParent(ids, cnid) == IF Len(ids) <= 1 THEN Root ELSE ids[Len(ids) - 1]

\* One element of the path, which leads to a file, or up; so many are left.
Element(f, at, el, left) ==
  IF el = Up
  THEN [f EXCEPT !.ids = Front(f.ids), !.names = Front(f.names)]
  ELSE [ids   |-> Append(f.ids, at),
        names |-> Append(f.names, el),
        db    |-> SetEach(f, at, el, left),
        set   |-> <<el>>]

\* The elements found by CNID, then those of the path, with ".." folded.
Folded(q, t, path) ==
  LET n == Len(t.els)
      folded[i \in 0 .. Len(path)] ==
        IF i = 0 THEN [ids |-> SubSeq(q, 1, n), names |-> t.els, db |-> t.db, set |-> <<>>]
                 ELSE Element(folded[i - 1], q[n + i], path[i], Len(path) - i)
  IN  folded[Len(path)]

Failed(d) == [ok |-> FALSE, db |-> d]

\* Where a walk that succeeds ends, and what it says of it.
Arrived(f, q, cnid) ==
  [ok     |-> TRUE,
   db     |-> f.db,
   cnid   |-> IF q = <<>> THEN Root ELSE Last(q),
   parent |-> RetParent(f.ids, cnid),
   name   |-> IF f.set # <<>> THEN f.set[1]
              ELSE IF f.names # <<>> THEN Last(f.names) ELSE DiskName]

\* The checks on what the walk passed.
Judged(q, trail, cnid, path) ==
  IF \/ \E i \in 1 .. Len(q) - 1 : q[i] \notin AllDirs
     \/ Len(q) < Len(trail.els) + Len(path)
     \/ OutOfDate(q, Len(trail.els), cnid)
  THEN Failed(trail.db)
  ELSE Arrived(Folded(q, trail, path), q, cnid)

WalkFrom(t, trail, cnid, path) ==
  IF Reached(trail) /\ Len(trail.els) + Len(path) <= MaxEl
  THEN Judged(Walk9(t, trail.els \o path), trail, cnid, path)
  ELSE Failed(trail.db)

\* The table after a walk, whether it succeeds, and where it arrives.
CatalogWalk(t, d, cnid, path) ==
  IF cnid \in AllDirs THEN WalkFrom(t, Trail(d, cnid), cnid, path) ELSE Failed(d)

\* The calls there can be: from the root no path begins with "..".
Calls == {call \in AllDirs \X Paths :
            call[1] = Root /\ call[2] # <<>> => call[2][1] # Up}

(***************************************************************************)
(* The calls of the File Manager.                                          *)
(***************************************************************************)
Exists(dir) == dir = Root \/ dir \in DOMAIN tree
Changed == changes < MaxChanges /\ changes' = changes + 1
Unused == Cnids \ DOMAIN tree
At(dir, name) == [parent |-> dir, name |-> name]
IsFile(c) == c \notin AllDirs

\* GetCatInfo and all calls that only find a file: open, get or set info, ...
Find(cnid, path) ==
  /\ db' = CatalogWalk(tree, db, cnid, path).db
  /\ UNCHANGED <<tree, listed, changes>>

\* GetCatInfo and GetFileInfo by index.  A directory is walked to, unless it is
\* the last one listed, by the same call (then, if it is gone, populate panics);
\* the entry found, if there is one, is entered under it.
FindByIndex(dir, again) ==
  /\ again => listed = dir /\ Exists(dir)
  /\ \E r \in {IF again THEN [ok |-> TRUE, db |-> db] ELSE CatalogWalk(tree, db, dir, <<>>)} :
       /\ listed' = IF r.ok THEN dir ELSE NoDir
       /\ \/ db' = r.db
          \/ r.ok /\ \E c \in Children(tree, dir) : db' = CatalogSet(r.db, c, dir, tree[c].name)
  /\ UNCHANGED <<tree, changes>>

\* Create and DirCreate: only a directory gets its entry.
Create(cnid, path, name, new) ==
  /\ Changed /\ new \in Unused
  /\ \E r \in {CatalogWalk(tree, db, cnid, path)} :
       /\ r.ok /\ r.cnid \in AllDirs /\ Named(tree, r.cnid, name) = {}
       /\ tree' = Put(tree, new, At(r.cnid, name))
       /\ db' = IF new \in Dirs THEN CatalogSet(r.db, new, r.cnid, name) ELSE r.db
  /\ UNCHANGED listed

Without(t, c) == [d \in DOMAIN t \ {c} |-> t[d]]

\* Delete: what has the name the walk gave, in the directory above the file.
Delete(cnid, path) ==
  /\ Changed
  /\ \E r \in {CatalogWalk(tree, db, cnid, path)} :
       /\ r.ok
       /\ \E c \in Named(tree, ParentOf(tree, r.cnid), r.name) :
            /\ Children(tree, c) = {} /\ IsFile(c) = IsFile(r.cnid)
            /\ tree' = Without(tree, c)
       /\ db' = r.db
  /\ UNCHANGED listed

\* Rename: reserve the new name with an empty file, move over it, enter it.  The
\* host moves a file over a file, never a directory.
Rename(cnid, path, name) ==
  /\ Changed
  /\ \E r \in {CatalogWalk(tree, db, cnid, path)} :
       /\ r.ok /\ r.cnid # Root
       /\ Named(tree, ParentOf(tree, r.cnid), name) = {}
       /\ \/ \E c \in Named(tree, ParentOf(tree, r.cnid), r.name) :
               /\ IsFile(c)
               /\ tree' = [tree EXCEPT ![c].name = name]
               /\ db' = CatalogSet(r.db, r.cnid, r.parent, name)
          \/ \E new \in Unused : \* the move fails, the reserved name stays
               /\ IsFile(new)
               /\ tree' = Put(tree, new, At(ParentOf(tree, r.cnid), name))
               /\ db' = r.db
  /\ UNCHANGED listed

\* The directories above a place in the tree, itself included.
Above(t, dir) ==
  FoldLeft(LAMBDA s, k : s \cup {ParentOf(t, c) : c \in s}, {dir}, [k \in 1 .. MaxEl |-> k])

\* CatMove: the same in another directory; the entry stays as it was.
CatMove(cnid, path, dir) ==
  /\ Changed
  /\ \E r \in {CatalogWalk(tree, db, cnid, path)} :
     \E s \in {CatalogWalk(tree, r.db, dir, <<>>)} :
       /\ r.ok /\ r.cnid # Root /\ s.ok
       /\ Named(tree, dir, r.name) = {}
       /\ \/ \E c \in Named(tree, ParentOf(tree, r.cnid), r.name) :
               /\ IsFile(c)
               /\ tree' = [tree EXCEPT ![c].parent = dir]
          \/ \E new \in Unused :
               /\ IsFile(new)
               /\ tree' = Put(tree, new, At(dir, r.name))
       /\ db' = s.db
  /\ UNCHANGED listed

(***************************************************************************)
(* What happens behind the driver.                                         *)
(***************************************************************************)
HostMoves(c, dir, name) ==
  /\ c \in DOMAIN tree /\ Exists(dir) /\ c \notin Above(tree, dir)
  /\ Named(tree, dir, name) = {} /\ Changed
  /\ tree' = [tree EXCEPT ![c] = At(dir, name)]
  /\ UNCHANGED <<db, listed>>

HostDeletes(c) ==
  /\ c \in DOMAIN tree /\ Children(tree, c) = {} /\ Changed
  /\ tree' = Without(tree, c)
  /\ UNCHANGED <<db, listed>>

HostCreates(c, dir, name) ==
  /\ c \in Unused /\ Exists(dir) /\ Named(tree, dir, name) = {} /\ Changed
  /\ tree' = Put(tree, c, At(dir, name))
  /\ UNCHANGED <<db, listed>>

Restart ==
  /\ Changed
  /\ db' = Restarted(db)
  /\ listed' = NoDir
  /\ UNCHANGED tree

Init == /\ tree \in Trees
        /\ db = EmptyTable
        /\ listed = NoDir /\ changes = 0

Next == \/ \E call \in Calls :
             \/ Find(call[1], call[2])
             \/ \E name \in Names, new \in Cnids : Create(call[1], call[2], name, new)
             \/ Delete(call[1], call[2])
             \/ \E name \in Names : Rename(call[1], call[2], name)
             \/ \E dir \in AllDirs : CatMove(call[1], call[2], dir)
        \/ \E dir \in AllDirs, again \in BOOLEAN : FindByIndex(dir, again)
        \/ \E c \in Cnids, dir \in AllDirs, name \in Names :
             HostMoves(c, dir, name) \/ HostCreates(c, dir, name)
        \/ \E c \in Cnids : HostDeletes(c)
        \/ Restart

Spec == Init /\ [][Next]_vars

(***************************************************************************)
(* Properties.                                                             *)
(***************************************************************************)
TypeOK == /\ IsTree(tree)
          /\ BucketOK(db)
          /\ listed \in AllDirs \cup {NoDir}
          /\ changes \in 0 .. MaxChanges

\* The table stays within its bounds and gives back the parent and name it was last told of a CNID, from
\* memory or from its file, through evictions in any order; but for CNIDs
\* whose name was changed while their entry was clean.
LastSetWins == TypeOK /\ \A c \in DOMAIN db.last \ db.lost : Remembers(db, c)

\* The same without the exception: an entry is not discarded before what was
\* set has been saved.
NothingForgotten == \A c \in DOMAIN db.last : Remembers(db, c)

\* What a path leads to in the tree itself, from a directory.
Leads(t, from, path) ==
  LET reached[i \in 0 .. Len(path)] ==
        IF i = 0 THEN {from} ELSE UNION {Step(t, c, path[i]) : c \in reached[i - 1]}
  IN  reached[Len(path)]

\* A walk finds what its path leads to from the directory asked for, or fails,
\* whatever has been moved, deleted or put in the place of that directory since
\* the table was told where it was.
AskedIsFound ==
  \A call \in Calls : \E r \in {CatalogWalk(tree, db, call[1], call[2])} :
    r.ok => {r.cnid} = Leads(tree, call[1], call[2])

\* The parent and the name a walk returns, which Rename and Delete go by, are
\* those of the file it reached (but for a path that ends in "..").
NameAndParentTrue ==
  \A call \in Calls : \E r \in {CatalogWalk(tree, db, call[1], call[2])} :
    r.ok /\ r.cnid # Root /\ (call[2] # <<>> => Last(call[2]) # Up)
      => tree[r.cnid] = At(r.parent, r.name)

\* A CNID a walk returns is of use: the table connects it to the root, by
\* names that lead back to it; as long as the directories on the way to where
\* the walk began are still those of the table, and no name has been lost.
Undisturbed(trail) == Walk9(tree, trail.els) = trail.ids
LeadsTo(trail, cnid) ==
  Reached(trail) /\ \E q \in {Walk9(tree, trail.els)} :
                      Len(q) = Len(trail.els) /\ Last(q) = cnid

WalkConnects ==
  \A call \in Calls : \E r \in {CatalogWalk(tree, db, call[1], call[2])} :
    r.ok /\ r.cnid # Root /\ Undisturbed(Trail(db, call[1])) /\ r.db.lost = {}
      => LeadsTo(Trail(r.db, r.cnid), r.cnid)
===============================================================================
