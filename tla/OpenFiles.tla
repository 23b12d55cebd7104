------------------------------ MODULE OpenFiles ------------------------------
(***************************************************************************)
(* The open forks of the 9P file system: the file control blocks and their *)
(* rings (universalfcb.c), the File Manager calls on them (device-9p.c),   *)
(* and the marks that say that a cached resource fork is ahead of its      *)
(* sidecar file (multifork-3.c).                                           *)
(*                                                                         *)
(* One File Manager call runs at a time and is one action; a call that     *)
(* only reports an error is left out, and a call names an open FCB.  The   *)
(* data of a fork is abstracted to its length, a position in it to any     *)
(* position, the fork's name to its CNID.  The host changes no fork on its *)
(* own.                                                                    *)
(***************************************************************************)
EXTENDS Integers, FiniteSets

CONSTANTS
  Refs,     \* the FCBs, by refNum
  NoRef,    \* refNum 0
  CNIDs,    \* the files
  Lists,    \* number of rings, 256 in the code
  MaxLen    \* bound on the length of a fork

ASSUME OpenFilesAssumption == /\ NoRef \notin Refs /\ IsFiniteSet(Refs)
                              /\ CNIDs \subseteq Nat \ {0}
                              /\ Lists \in Nat \ {0} /\ MaxLen \in Nat

Forks   == [cnid : CNIDs, res : BOOLEAN]
NoFork  == [cnid |-> 0, res |-> FALSE]   \* fcbFlNm = 0: the FCB is free
Lengths == 0 .. MaxLen
Keys    == 0 .. Lists - 1
Perms   == {"read", "write", "shared"}   \* fsRdPerm; fsCurPerm to fsRdWrPerm; fsRdWrShPerm

VARIABLES
  fcb,       \* each FCB: its fork, flags, ring neighbours, dirty mark, fcbEOF
  lists,     \* the FCB each ring starts from
  length,    \* host: the length of each fork
  files,     \* host: the files there are
  unpushed,  \* history: forks written since their sidecar was
  strayed,   \* history: forks read from beyond their end
  stuck      \* "none", "loop" (a call that never returns) or "panic"

openVars == <<fcb, lists, length, files, unpushed, strayed, stuck>>

(***************************************************************************)
(* The rings.  t is a table of FCBs and l the starts of the rings.         *)
(***************************************************************************)
\* hash: the CNID, its lowest bit turned over for a resource fork.
Key(f) == (IF ~f.res THEN f.cnid ELSE IF f.cnid % 2 = 0 THEN f.cnid + 1 ELSE f.cnid - 1)
            % Lists

\* The FCBs met from r by going right.
Path(t, r) == LET p[n \in 0 .. Cardinality(Refs)] == IF n = 0 THEN r ELSE t[p[n - 1]].right
              IN  p

Earliest(S) == CHOOSE n \in S : \A m \in S : n <= m

\* Where in its ring, before it closes, a fork has FCBs.
Hits(t, l, f) ==
  LET p == Path(t, l[Key(f)])
  IN  {n \in 0 .. Cardinality(Refs) - 1 : /\ t[p[n]].fork = f
                                          /\ \A m \in 1 .. n : p[m] # p[0]}

\* Faulty variant: only the start of the ring is looked at.
HeadFirst(t, l, f) == LET h == l[Key(f)]
                      IN  IF h = NoRef THEN NoRef ELSE IF t[h].fork = f THEN h ELSE NoRef

UnivFirst(t, l, f) ==
  IF l[Key(f)] = NoRef \/ Hits(t, l, f) = {} THEN NoRef
  ELSE Path(t, l[Key(f)])[Earliest(Hits(t, l, f))]

\* To the right of r, another FCB of r's fork, or the start of the ring.
UnivNext(t, l, r) ==
  LET f == t[r].fork
      p == Path(t, r)
      n == Earliest({k \in 1 .. Cardinality(Refs) : p[k] = l[Key(f)] \/ t[p[k]].fork = f})
  IN  IF p[n] = l[Key(f)] THEN NoRef ELSE p[n]

\* for (i=UnivFirst(f); i!=NULL; i=UnivNext(i)): every FCB of the fork.
Siblings(t, l, f) == IF l[Key(f)] = NoRef THEN {}
                     ELSE {Path(t, l[Key(f)])[n] : n \in Hits(t, l, f)}

\* Faulty variant: the loop begins after the first FCB.
SkipsFirst(t, l, r) == {UnivNext(t, l, r)} \ {NoRef}

\* for (i=UnivFirst(f); i!=NULL; i=UnivNext(r)): at most two FCBs, and no end
\* when there is a second.
Marked(t, l, r) == {UnivFirst(t, l, t[r].fork), UnivNext(t, l, r)} \ {NoRef}
MarkingEnds(t, l, r) == \/ UnivFirst(t, l, t[r].fork) = NoRef
                        \/ UnivNext(t, l, r) = NoRef

WithMarks(t, l, r, mark) ==
  IF UnivFirst(t, l, t[r].fork) = NoRef THEN t
  ELSE [s \in Refs |-> IF s \in Marked(t, l, r) THEN [t[s] EXCEPT !.dirty = mark] ELSE t[s]]

\* UnivEnlistFile: to the right of the ring's start.
Enlisted(t, h, r) ==
  IF h = NoRef THEN [t EXCEPT ![r].left = r, ![r].right = r]
  ELSE [t EXCEPT ![r].right = t[h].right, ![r].left = t[t[h].right].left,
                 ![h].right = r, ![t[h].right].left = r]

\* UnivDelistFile.
Delisted(t, r) == [t EXCEPT ![t[r].left].right = t[r].right,
                            ![t[r].right].left = t[r].left]

\* Faulty variant: the ring is dropped with the FCB it starts from.
DroppedList(r) == IF lists[Key(fcb[r].fork)] = r
                    THEN [lists EXCEPT ![Key(fcb[r].fork)] = NoRef] ELSE lists

ListWithout(r) ==
  IF lists[Key(fcb[r].fork)] # r THEN lists
  ELSE [lists EXCEPT ![Key(fcb[r].fork)] = IF fcb[r].left = r THEN NoRef ELSE fcb[r].left]

\* Faulty variant: the length is noted in the first FCB only.
FirstKnows(t, l, f, len) ==
  [s \in Refs |-> IF s = UnivFirst(t, l, f) THEN [t[s] EXCEPT !.eof = len] ELSE t[s]]

\* updateKnownLength
KnownLength(t, l, f, len) ==
  [s \in Refs |-> IF s \in Siblings(t, l, f) THEN [t[s] EXCEPT !.eof = len] ELSE t[s]]

(***************************************************************************)
(* The File Manager's calls.                                               *)
(***************************************************************************)
Running   == stuck = "none"
IsOpen(r) == Running /\ fcb[r].fork # NoFork

\* Faulty variant: a shared writer is let in whoever writes.
LaxConflict(f, perm) ==
  \E s \in Siblings(fcb, lists, f) : fcb[s].write /\ perm = "write"

\* The open that asks for more than an earlier one allows is refused.
Conflict(f, perm) ==
  \E s \in Siblings(fcb, lists, f) :
    fcb[s].write /\ (perm = "write" \/ (perm = "shared" /\ ~fcb[s].shared))

\* fsOpen, with a free FCB (the first of the table; on Mac OS 9, any).  If the
\* host does not open the fork, the FCB is free again.
Open(r, f, perm) ==
  /\ Running /\ fcb[r].fork = NoFork
  /\ f.cnid \in files /\ ~Conflict(f, perm)
  /\ LET new(fork) == [fcb EXCEPT ![r] =
           [fork |-> fork, write |-> perm # "read", shared |-> perm = "shared",
            left |-> NoRef, right |-> NoRef, dirty |-> FALSE, eof |-> 0]]
         l == [lists EXCEPT ![Key(f)] = IF @ = NoRef THEN r ELSE @]
     IN  \/ /\ fcb' = KnownLength(Enlisted(new(f), lists[Key(f)], r), l, f, length[f])
            /\ lists' = l
         \/ /\ fcb' = new(NoFork)
            /\ UNCHANGED lists
  /\ UNCHANGED <<length, files, unpushed, strayed, stuck>>

\* fsClose: out of the ring, then close3, which brings the sidecar up to date
\* if this FCB is marked.
Close(r) ==
  /\ IsOpen(r)
  /\ LET f == fcb[r].fork
         t == Delisted(fcb, r)
         l == ListWithout(r)
         push == f.res /\ fcb[r].dirty
     IN  /\ lists' = l
         /\ IF push /\ ~MarkingEnds(t, l, r)
              THEN /\ fcb' = WithMarks(t, l, r, FALSE)
                   /\ stuck' = "loop"
                   /\ UNCHANGED unpushed
              ELSE /\ fcb' = [(IF push THEN WithMarks(t, l, r, FALSE) ELSE t)
                                EXCEPT ![r].fork = NoFork]
                   /\ unpushed' = IF push THEN unpushed \ {f} ELSE unpushed
                   /\ UNCHANGED stuck
  /\ UNCHANGED <<length, files, strayed>>

\* write3 before the data goes out: mark the fork's FCBs, unless this one is.
Marking(r) == fcb[r].fork.res /\ ~fcb[r].dirty
Hangs(r)   == Marking(r) /\ ~MarkingEnds(fcb, lists, r)

\* fsWrite of the bytes from start to end; it does not look at fcbWriteMask,
\* and panics when the host refuses.
Write(r, start, end) ==
  /\ IsOpen(r) /\ start < end
  /\ LET f == fcb[r].fork
         t == IF Marking(r) THEN WithMarks(fcb, lists, r, TRUE) ELSE fcb
     IN  \/ /\ fcb' = t /\ stuck' = IF Hangs(r) THEN "loop" ELSE "panic"
            /\ UNCHANGED <<length, unpushed>>
         \/ /\ ~Hangs(r) /\ fcb[r].write
            /\ length' = [length EXCEPT ![f] = IF end > @ THEN end ELSE @]
            /\ fcb' = IF end > fcb[r].eof THEN KnownLength(t, lists, f, end) ELSE t
            /\ unpushed' = IF f.res THEN unpushed \cup {f} ELSE unpushed
            /\ UNCHANGED stuck
  /\ UNCHANGED <<lists, files, strayed>>

\* fsSetEOF, which does not look at fcbWriteMask either, and seteof3, which
\* brings the sidecar of a marked or of an empty fork up to date.
SetEOF(r, len) ==
  /\ IsOpen(r)
  /\ LET f == fcb[r].fork
         push == f.res /\ (fcb[r].dirty \/ len = 0)
         t == IF push THEN WithMarks(fcb, lists, r, FALSE) ELSE fcb
     IN  \/ /\ stuck' = "panic"
            /\ UNCHANGED <<fcb, length, unpushed>>
         \/ /\ length' = [length EXCEPT ![f] = len]
            /\ IF push /\ ~MarkingEnds(fcb, lists, r)
                 THEN fcb' = t /\ stuck' = "loop" /\ UNCHANGED unpushed
                 ELSE /\ fcb' = KnownLength(t, lists, f, len)
                      /\ unpushed' = IF push THEN unpushed \ {f} ELSE unpushed
                      /\ UNCHANGED stuck
  /\ UNCHANGED <<lists, files, strayed>>

\* fsRead of the bytes from start to end: where the data stops short of the
\* end, or goes on beyond the known length, that is taken for the length.
Read(r, start, end) ==
  /\ IsOpen(r) /\ start < end
  /\ LET f == fcb[r].fork
         pos == IF length[f] <= start THEN start
                ELSE IF length[f] < end THEN length[f] ELSE end
     IN  /\ fcb' = IF pos > fcb[r].eof \/ pos < end THEN KnownLength(fcb, lists, f, pos)
                                                    ELSE fcb
         /\ strayed' = IF start > length[f] THEN strayed \cup {f} ELSE strayed
  /\ UNCHANGED <<lists, length, files, unpushed, stuck>>

\* fsRead and fsWrite from the end of the fork first ask for its length.
SeekEnd(r) ==
  /\ IsOpen(r)
  /\ fcb' = KnownLength(fcb, lists, fcb[r].fork, length[fcb[r].fork])
  /\ UNCHANGED <<lists, length, files, unpushed, strayed, stuck>>

\* fsGetEOF
GetEOF(r) ==
  /\ IsOpen(r)
  /\ fcb' = [fcb EXCEPT ![r].eof = length[fcb[r].fork]]
  /\ UNCHANGED <<lists, length, files, unpushed, strayed, stuck>>

\* fsDelete refuses a file with an open fork.
Delete(c) ==
  /\ Running /\ c \in files
  /\ \A res \in BOOLEAN : UnivFirst(fcb, lists, [cnid |-> c, res |-> res]) = NoRef
  /\ files' = files \ {c}
  /\ UNCHANGED <<fcb, lists, length, unpushed, strayed, stuck>>

\* fsUnmountVol: UnivCloseAll frees the FCBs of every ring, and closes no fork:
\* what has not reached the sidecars is given up.
CloseAll ==
  /\ Running
  /\ fcb' = [r \in Refs |-> IF r \in UNION {Siblings(fcb, lists, f) : f \in Forks}
                              THEN [fcb[r] EXCEPT !.fork = NoFork] ELSE fcb[r]]
  /\ lists' = [k \in Keys |-> NoRef]
  /\ unpushed' = {}
  /\ UNCHANGED <<length, files, strayed, stuck>>

OpenInit ==
  /\ fcb = [r \in Refs |-> [fork |-> NoFork, write |-> FALSE, shared |-> FALSE,
                            left |-> NoRef, right |-> NoRef, dirty |-> FALSE, eof |-> 0]]
  /\ lists = [k \in Keys |-> NoRef]
  /\ length = [f \in Forks |-> 0]
  /\ files = CNIDs
  /\ unpushed = {} /\ strayed = {}
  /\ stuck = "none"

OpenNext ==
  \/ \E r \in Refs :
       \/ \E f \in Forks, perm \in Perms : Open(r, f, perm)
       \/ Close(r)
       \/ \E start, end \in Lengths : Write(r, start, end) \/ Read(r, start, end)
       \/ \E len \in Lengths : SetEOF(r, len)
       \/ SeekEnd(r)
       \/ GetEOF(r)
  \/ \E c \in CNIDs : Delete(c)
  \/ CloseAll

OpenSpec == OpenInit /\ [][OpenNext]_openVars

(***************************************************************************)
(* Properties.                                                             *)
(***************************************************************************)
FCBs == [fork : Forks \cup {NoFork}, write : BOOLEAN, shared : BOOLEAN,
         left : Refs \cup {NoRef}, right : Refs \cup {NoRef}, dirty : BOOLEAN, eof : Lengths]

OpenTypeOK ==
  /\ fcb \in [Refs -> FCBs]
  /\ lists \in [Keys -> Refs \cup {NoRef}]
  /\ length \in [Forks -> Lengths]
  /\ files \subseteq CNIDs
  /\ unpushed \subseteq Forks /\ strayed \subseteq Forks
  /\ stuck \in {"none", "loop", "panic"}

Opened(f) == {r \in Refs : fcb[r].fork = f}
InRing(k) == {r \in Refs : fcb[r].fork # NoFork /\ Key(fcb[r].fork) = k}

\* Through any order of opens, closes and unmounts, with colliding hashes and
\* reused FCBs: the open FCBs of a hash form one ring, in both directions,
\* and the list starts in it.
RingsIntact ==
  /\ OpenTypeOK
  /\ Running => \A k \in Keys :
       /\ lists[k] = NoRef <=> InRing(k) = {}
       /\ lists[k] # NoRef =>
            /\ {Path(fcb, lists[k])[n] : n \in 0 .. Cardinality(Refs) - 1} = InRing(k)
            /\ \A r \in InRing(k) : fcb[fcb[r].right].left = r /\ fcb[fcb[r].left].right = r

\* Whoever has a fork open for writing, not shared, is its only writer.
ExclusiveWriter ==
  Running => \A r, s \in Refs :
    /\ fcb[r].fork # NoFork /\ fcb[r].write /\ ~fcb[r].shared
    /\ fcb[s].fork = fcb[r].fork /\ fcb[s].write
    => s = r

\* Whichever FCB a fork is written, truncated or extended through, all its
\* FCBs know its length -- until a read begins beyond its end: fsRead takes
\* the place where such a read begins for the length.
LengthsKnown ==
  Running => \A r \in Refs : fcb[r].fork \in Forks \ strayed => fcb[r].eof = length[fcb[r].fork]

\* A resource fork written to and not yet brought to its sidecar has a marked
\* FCB, whose closing will: no write is lost by closing a fork, in whatever
\* order its FCBs are closed (unmounting with the fork open does lose it).
NoWriteLost ==
  Running => \A f \in unpushed : \E r \in Opened(f) : fcb[r].dirty

\* fsDelete deletes no file with a fork open (close3 panics if it does).
OpenFilesExist == Running => \A r \in Refs : fcb[r].fork # NoFork => fcb[r].fork.cnid \in files

\* "Open FCBs for a given file can be listed using a hash table": the loops
\* that mark the FCBs of a resource fork come to an end.
MarkingLoopsEnd == stuck # "loop"
=============================================================================
