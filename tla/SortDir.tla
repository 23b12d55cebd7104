------------------------------- MODULE SortDir -------------------------------
(***************************************************************************)
(* Listing a directory in order (sortdir.c).  The host lists a directory   *)
(* in any order; the driver keeps the lowest names of one pass in a skip   *)
(* list, packs as many as fit into a small store, hands them out by index, *)
(* and makes another pass for the names after the last one handed out.     *)
(*                                                                         *)
(* A call is several steps, with a message to the host in each, so that    *)
(* the directory may change under it.  Names are sequences of characters,  *)
(* ordered as RelString orders them.                                       *)
(***************************************************************************)
EXTENDS Integers, Sequences, FiniteSets

CONSTANTS
  Names,       \* the names there may be
  Hidden,      \* those not listed: dot files, sidecars, not representable
  Folders,     \* those of directories
  SortDirs,    \* the directories listed
  Id,          \* the CNID of each name
  Power,       \* levels of the skip list, 8 in the code; 2^Power slots
  IdBytes,     \* bytes in a CNID, 4 in the code
  ByteBase,    \* values of a byte
  Room,        \* size of the packed store, 2048 in the code
  MaxReuse,    \* longest prefix reused, 0x3f in the code
  Volatile,    \* the names the host may add and remove
  Indexes,     \* the indexes asked for
  MaxChanges   \* bound on the number of its changes

ASSUME SortDirAssumption ==
  /\ Hidden \cup Folders \subseteq Names /\ \A n \in Names : n \in Seq(Nat) /\ n # <<>>
  /\ Id \in [Names -> 0 .. ByteBase ^ IdBytes - 1]
  /\ Volatile \subseteq Names /\ Indexes \subseteq Nat \ {0} /\ 0 \notin SortDirs /\ Power \in Nat \ {0} /\ IdBytes \in Nat \ {0}
  /\ MaxReuse \in Nat /\ 2 ^ Power \in Nat \ {0} /\ Room \in Nat /\ MaxChanges \in Nat /\ IsFiniteSet(Names)
  /\ \A n \in Names : 2 + IdBytes + Len(n) <= Room

VARIABLES
  host,      \* the names in each directory
  gone,      \* directories deleted
  sorted,    \* the static variables of ReadDirSorted and of the packed store
  call,      \* the call in progress
  board,     \* the skip list of the pass in progress
  seen,      \* the names that pass has been given
  answer,    \* the last answer
  changes,   \* number of changes by the host
  evicted,   \* history: an entry left the full list for another
  stable,    \* history: no change since this listing began
  wild       \* history: a NULL link was followed

sortVars == <<host, gone, sorted, call, board, seen, answer, changes, evicted, stable, wild>>

(***************************************************************************)
(* The skip list of one pass: slots 1 .. 2^Power and the two limiting      *)
(* elements, with links to the left and to the right on each level.        *)
(***************************************************************************)
Leftmost  == 0
Rightmost == -1
Null      == -2
Slots     == 1 .. 2 ^ Power
Levels    == 0 .. Power - 1

\* RelString(a, b) > 0
After(a, b) ==
  \/ Len(a) > Len(b) /\ \A i \in 1 .. Len(b) : a[i] = b[i]
  \/ \E i \in 1 .. Len(a) :
       i <= Len(b) /\ a[i] > b[i] /\ \A j \in 1 .. i - 1 : a[j] = b[j]

EmptyList(ignore) ==
  [link |-> [e \in Slots \cup {Leftmost, Rightmost} |-> [d \in Levels |->
               [l |-> IF e = Rightmost THEN Leftmost ELSE Null,
                r |-> IF e = Leftmost THEN Rightmost ELSE Null]]],
   name |-> [e \in Slots \cup {Leftmost} |-> IF e = Leftmost THEN ignore ELSE <<>>],
   nlead |-> 0, complete |-> TRUE, evicted |-> FALSE, wild |-> FALSE]

\* How tall an element stands: as long as the bits of its CNID are ones.
LevelsOf(cnid) == {d \in Levels : \A k \in 1 .. d : (cnid \div 2 ^ k) % 2 = 1}

\* SKIPLIST_INSERT: el to the left of right, on each of its levels.
SkipInsert(b, right, el, levels) ==
  [b EXCEPT
     !.link = [e \in DOMAIN b.link |-> [d \in Levels |->
                 IF d \notin levels THEN b.link[e][d]
                 ELSE IF e = el THEN [l |-> b.link[right][d].l, r |-> right]
                 ELSE [l |-> IF e = right THEN el ELSE b.link[e][d].l,
                       r |-> IF e = b.link[right][d].l THEN el ELSE b.link[e][d].r]]],
     !.wild = @ \/ \E d \in levels : b.link[right][d].l = Null]

\* SKIPLIST_DELETE: el, from every level, its own or not.
SkipDelete(b, el) ==
  [b EXCEPT
     !.link = [e \in DOMAIN b.link |-> [d \in Levels |->
                 IF e = el THEN [l |-> Null, r |-> Null]
                 ELSE [l |-> IF e = b.link[el][d].r THEN b.link[el][d].l ELSE b.link[e][d].l,
                       r |-> IF e = b.link[el][d].l THEN b.link[el][d].r ELSE b.link[e][d].r]]],
     !.wild = @ \/ \E d \in Levels : Null \in {b.link[el][d].l, b.link[el][d].r}]

\* On level d, from right leftwards to the last element not before the name.
StepLeft(b, name, right, d) ==
  LET at[k \in 0 .. 2 ^ Power + 1] ==
        IF k = 0 THEN right
        ELSE IF at[k - 1] = Leftmost THEN Leftmost
        ELSE LET left == b.link[at[k - 1]][d].l
             IN  IF After(name, b.name[left]) THEN at[k - 1] ELSE left
  IN  at[2 ^ Power + 1]

\* The element to insert a name before, or Leftmost: skip it.
Search(b, name) ==
  LET right[k \in 0 .. Power] ==
        IF k = 0 THEN Rightmost
        ELSE IF right[k - 1] = Leftmost THEN Leftmost
        ELSE StepLeft(b, name, right[k - 1], Power - k)
  IN  right[Power]

\* Into a free slot; or nowhere, if it is after all of a full list; or into the
\* slot of the last one, which is dropped.
Place(b, name, right) ==
  IF b.nlead < 2 ^ Power
    THEN LET el == b.nlead + 1
         IN  SkipInsert([b EXCEPT !.nlead = el, !.name[el] = name], right, el, LevelsOf(Id[name]))
  ELSE IF right = Rightmost THEN [b EXCEPT !.complete = FALSE]
  ELSE LET el == b.link[Rightmost][0].l
           c == [b EXCEPT !.name[el] = name, !.evicted = TRUE]
       IN  IF el = right THEN c
           ELSE SkipInsert(SkipDelete(c, el), right, el, LevelsOf(Id[name]))

\* The names of the host's listing that are not passed over at once.
Visible(dir, dirOK) == {n \in host[dir] \ Hidden : dirOK \/ n \notin Folders}

\* One of them.
Leader(b, name) ==
  IF Search(b, name) = Leftmost THEN b
  ELSE Place(b, name, Search(b, name))

\* The names of the list from left to right.
Ascending(b) ==
  LET el[k \in 0 .. b.nlead] == IF k = 0 THEN Leftmost ELSE b.link[el[k - 1]][0].r
  IN  [k \in 1 .. b.nlead |-> b.name[el[k]]]

(***************************************************************************)
(* The packed store: each entry without what it shares with the one before.*)
(***************************************************************************)
Bytes(cnid) == [i \in 1 .. IdBytes |-> (cnid \div ByteBase ^ (IdBytes - i)) % ByteBase]

Shared(a, b, most) ==
  LET same == {n \in 0 .. most : /\ n <= Len(a) /\ n <= Len(b)
                                 /\ \A i \in 1 .. n : a[i] = b[i]}
  IN  CHOOSE n \in same : \A m \in same : m <= n

NothingPacked == [entries |-> <<>>, size |-> 0, id |-> Bytes(0), name |-> <<>>, full |-> FALSE]

\* pack: one byte for the two lengths, then the rest of the CNID and the name.
Pack(p, name) ==
  LET id == Bytes(Id[name])
      i == Shared(p.id, id, IdBytes - 1)
      n == Shared(p.name, name, MaxReuse)
      size == p.size + 1 + (IdBytes - i) + (Len(name) + 1 - n)
  IN  IF p.full \/ size > Room THEN [p EXCEPT !.full = TRUE]
      ELSE [entries |-> Append(p.entries, [reuseID |-> i, reuseName |-> n,
                                           id |-> SubSeq(id, i + 1, IdBytes),
                                           name |-> SubSeq(name, n + 1, Len(name))]),
            size |-> size, id |-> id, name |-> name, full |-> FALSE]

Packed(names) ==
  LET packed[k \in 0 .. Len(names)] ==
        IF k = 0 THEN NothingPacked ELSE Pack(packed[k - 1], names[k])
  IN  packed[Len(names)]

\* unpack: of the store s, the entry at its pointer.
Unpackable(s) == s.ptr < Len(s.entries)
Unpacked(s) ==
  LET e == s.entries[s.ptr + 1]
      name == SubSeq(s.prevName, 1, e.reuseName) \o e.name
      id == SubSeq(s.prevID, 1, e.reuseID) \o e.id
  IN  [s EXCEPT !.ptr = @ + 1, !.prevID = id, !.prevName = name, !.child = id, !.lastName = name]

\* Faulty variant: the ID and the name unpacked last are kept.
EmptiedKeepLast(s) == [s EXCEPT !.entries = <<>>, !.ptr = 0]

\* startPacking and startUnpacking.
Emptied(s) == [s EXCEPT !.entries = <<>>, !.ptr = 0, !.prevID = Bytes(0), !.prevName = <<>>]

(***************************************************************************)
(* ReadDirSorted.                                                          *)
(***************************************************************************)
Idle    == [pc |-> "idle", dir |-> 0, index |-> 0, dirOK |-> FALSE]
Nothing == [what |-> "none", dir |-> 0, index |-> 0, dirOK |-> FALSE, name |-> <<>>,
            cnid |-> <<>>]

Changed(dir, dirOK) == dir # sorted.lastCNID \/ dirOK # sorted.lastDirOK

\* The part before the loop: walk to another directory, or start again for an
\* index not after the last.
CallList(dir, index, dirOK) ==
  /\ call.pc = "idle"
  /\ IF Changed(dir, dirOK) /\ dir \in gone
       THEN /\ sorted' = [Emptied(sorted) EXCEPT !.lastCNID = 0, !.lastIndex = 0, !.far = TRUE,
                                                 !.lastName = <<>>]
            /\ answer' = [Nothing EXCEPT !.what = "dirNFErr", !.dir = dir]
            /\ UNCHANGED <<call, stable, evicted>>
       ELSE LET fresh == Changed(dir, dirOK) \/ sorted.far \/ index <= sorted.lastIndex
                s == [sorted EXCEPT !.lastCNID = dir, !.lastDirOK = dirOK, !.far = FALSE]
            IN  /\ sorted' = IF fresh THEN [Emptied(s) EXCEPT !.lastIndex = 0, !.lastName = <<>>,
                                                              !.complete = FALSE]
                             ELSE s
                /\ call' = [pc |-> "unpack", dir |-> dir, index |-> index, dirOK |-> dirOK]
                /\ stable' = (fresh \/ stable)
                /\ evicted' = (evicted /\ ~fresh)
                /\ answer' = Nothing
  /\ UNCHANGED <<host, gone, board, seen, changes, wild>>

Return(what) ==
  /\ answer' = [what |-> what, dir |-> call.dir, index |-> call.index, dirOK |-> call.dirOK,
                name |-> sorted.lastName, cnid |-> sorted.child]
  /\ call' = Idle

Unpack ==
  /\ call.pc = "unpack"
  /\ IF Unpackable(sorted)
       THEN /\ sorted' = Unpacked(sorted) /\ call' = [call EXCEPT !.pc = "walk"]
            /\ UNCHANGED answer
       ELSE /\ IF sorted.complete THEN Return("fnfErr")
               ELSE call' = [call EXCEPT !.pc = "populate"] /\ UNCHANGED answer
            /\ UNCHANGED sorted
  /\ UNCHANGED <<host, gone, board, seen, changes, evicted, stable, wild>>

\* populate: a pass over the directory, for the names after the last one.  One
\* that is gone is a panic.
Populate ==
  /\ call.pc = "populate"
  /\ IF call.dir \in gone
       THEN call' = [call EXCEPT !.pc = "panic"] /\ UNCHANGED <<board, seen>>
       ELSE /\ call' = [call EXCEPT !.pc = "pass"]
            /\ board' = EmptyList(sorted.lastName) /\ seen' = {}
  /\ UNCHANGED <<host, gone, sorted, answer, changes, evicted, stable, wild>>

\* The host lists its names in any order, over several messages.
PassEntry ==
  /\ call.pc = "pass"
  /\ \E name \in Visible(call.dir, call.dirOK) \ seen :
       /\ board' = Leader(board, name)
       /\ seen' = seen \cup {name}
  /\ UNCHANGED <<host, gone, sorted, call, answer, changes, evicted, stable, wild>>

\* The end of the pass: as many names as fit are packed, and one is unpacked.
PassEnd ==
  /\ call.pc = "pass" /\ Visible(call.dir, call.dirOK) \subseteq seen
  /\ \E p \in {Packed(Ascending(board))} :
       LET s == [Emptied(sorted) EXCEPT !.entries = p.entries, !.complete = board.complete /\ ~p.full,
                                        !.page = Ascending(board), !.after = sorted.lastName]
       IN  IF Unpackable(s)
             THEN /\ sorted' = Unpacked(s) /\ call' = [call EXCEPT !.pc = "walk"]
                  /\ UNCHANGED answer
             ELSE sorted' = s /\ Return("fnfErr")
  /\ evicted' = (evicted \/ board.evicted)
  /\ wild' = (wild \/ board.wild)
  /\ board' = EmptyList(<<>>) /\ seen' = {}
  /\ UNCHANGED <<host, gone, changes, stable>>

\* Faulty variant: a name that is there no more counts too.
CountStale(s) == s.lastIndex + 1

Counted(s) == IF s.lastName \in host[call.dir] /\ call.dir \notin gone
                THEN s.lastIndex + 1 ELSE s.lastIndex

\* A name that is there no more does not count.
WalkTo ==
  /\ call.pc = "walk"
  /\ LET i == Counted(sorted)
     IN  /\ sorted' = [sorted EXCEPT !.lastIndex = i]
         /\ IF i = call.index THEN Return("noErr")
            ELSE call' = [call EXCEPT !.pc = "unpack"] /\ UNCHANGED answer
  /\ UNCHANGED <<host, gone, board, seen, changes, evicted, stable, wild>>

(***************************************************************************)
(* The host.                                                               *)
(***************************************************************************)
HostChanges ==
  /\ call.pc # "panic" /\ changes < MaxChanges
  /\ \E dir \in SortDirs \ gone :
       \/ \E name \in Volatile :
            /\ host' = [host EXCEPT ![dir] = IF name \in @ THEN @ \ {name} ELSE @ \cup {name}]
            /\ UNCHANGED gone
       \/ /\ gone' = gone \cup {dir}
          /\ host' = [host EXCEPT ![dir] = {}]
  /\ stable' = FALSE
  /\ changes' = changes + 1
  /\ UNCHANGED <<sorted, call, board, seen, answer, evicted, wild>>

SortInit ==
  /\ host = [dir \in SortDirs |-> Names]
  /\ gone = {}
  /\ sorted = [lastCNID |-> 0, lastIndex |-> 0, far |-> FALSE, lastDirOK |-> FALSE,
               complete |-> FALSE, lastName |-> <<>>, child |-> <<>>,
               entries |-> <<>>, ptr |-> 0, prevID |-> Bytes(0), prevName |-> <<>>,
               page |-> <<>>, after |-> <<>>]
  /\ call = Idle /\ board = EmptyList(<<>>) /\ seen = {} /\ answer = Nothing /\ changes = 0
  /\ evicted = FALSE /\ stable = TRUE /\ wild = FALSE

SortNext ==
  \/ \E dir \in SortDirs, index \in Indexes, dirOK \in BOOLEAN :
       CallList(dir, index, dirOK)
  \/ Unpack
  \/ Populate
  \/ PassEntry
  \/ PassEnd
  \/ WalkTo
  \/ HostChanges

SortSpec == SortInit /\ [][SortNext]_sortVars

(***************************************************************************)
(* Properties.                                                             *)
(***************************************************************************)
\* The store never outgrows its array (pack measures an entry before it is
\* written), and the pointer into it and the index stay within the listing.
PackedSize(entries) ==
  LET size[k \in 0 .. Len(entries)] ==
        IF k = 0 THEN 0 ELSE size[k - 1] + 2 + Len(entries[k].id) + Len(entries[k].name)
  IN  size[Len(entries)]

SortTypeOK ==
  /\ call.pc \in {"idle", "unpack", "populate", "pass", "walk", "panic"}
  /\ sorted.ptr \in 0 .. Len(sorted.entries) /\ sorted.lastIndex \in 0 .. Cardinality(Names) + MaxChanges
  /\ PackedSize(sorted.entries) <= Room
  /\ sorted.lastName \in Names \cup {<<>>}

\* The rank of a name among others, in the order of the Finder.
Rank(names, n) == Cardinality({m \in names : ~ After(m, n)})

\* Whatever the order of the host's listing and however tall the elements of
\* the skip list, a pass finds the lowest names after the last one listed, in
\* their order (populate).
PassFindsLowest ==
  stable /\ sorted.entries # <<>> =>
    LET rest == {n \in Visible(sorted.lastCNID, sorted.lastDirOK) : After(n, sorted.after)}
    IN  /\ {sorted.page[k] : k \in DOMAIN sorted.page} = {n \in rest : Rank(rest, n) <= 2 ^ Power}
        /\ \A k \in 2 .. Len(sorted.page) : After(sorted.page[k], sorted.page[k - 1])

\* In a directory left alone, the answer to an index is the name of that rank
\* in the order of the Finder, with its own CNID, through as many passes and
\* packed prefixes as it takes (ReadDirSorted, pack, unpack).
ListingTrue ==
  answer.what = "noErr" /\ stable =>
    /\ answer.name \in Visible(answer.dir, answer.dirOK)
    /\ answer.index = Rank(Visible(answer.dir, answer.dirOK), answer.name)
    /\ answer.cnid = Bytes(Id[answer.name])

\* The end of such a directory is said at the end only, unless an entry was
\* dropped from a full list (fnfErr of ReadDirSorted).
EndTrueUnlessEvicted ==
  answer.what = "fnfErr" /\ stable /\ ~evicted =>
    answer.index > Cardinality(Visible(answer.dir, answer.dirOK))

\* Whatever the host changes meanwhile, a listing goes forward: no name is met
\* twice or out of order until it is started again.
ListingAscends ==
  [][call.pc \in {"unpack", "pass"} /\ call'.pc = "walk" =>
       After(sorted'.lastName, sorted.lastName)]_sortVars

\* A name answered was there when it was answered, and a name that has gone
\* does not use up an index (the walk that follows each unpack).
StaleNotCounted ==
  [][sorted'.lastIndex = sorted.lastIndex + 1 =>
       sorted.lastName \in host[call.dir] /\ sorted'.lastName = sorted.lastName]_sortVars

\* What is answered of a directory left alone is right: each name by its rank,
\* with its CNID, and the end where it is.
ListingSound == SortTypeOK /\ PassFindsLowest /\ ListingTrue /\ EndTrueUnlessEvicted

\* What is answered of one that the host changes meanwhile is steady: forwards
\* only, and counting only what was there.
ListingSteady == ListingAscends /\ StaleNotCounted
=============================================================================
