---------------------------- MODULE Walks_proofs ----------------------------
(***************************************************************************)
(* Proofs about what the driver walks with, what it lists, and what its    *)
(* paths lead to: the fids, for any number of them and of FCBs and any     *)
(* lengths of walks and messages (Fids9); the listing of a directory in    *)
(* order, for any names, levels of the skip list and size of the packed    *)
(* store, and any order in which the host lists the directory (SortDir); and *)
(* paths with colons and the names of files, for any tree of the host's and *)
(* any such paths (FileSpecs).  The three parts share no more than the lemmas *)
(* about numbers and recursion.                                            *)
(***************************************************************************)
EXTENDS Fids9, SortDir, FileSpecs, FiniteSetTheorems, SequenceTheorems,
        WellFoundedInduction, TLAPS

-----------------------------------------------------------------------------
(***************************************************************************)
(* A tracked fid has its bit whenever the server has the fid, and no bit   *)
(* is set for a fid the server does not have.                              *)
(***************************************************************************)
LEMMA FidKinds == /\ ROOTFID \in Fids /\ Tracked \subseteq Fids /\ FcbFids \subseteq Fids
                  /\ ROOTFID \notin Tracked \cup FcbFids
                  /\ Tracked \cap FcbFids = {}
  BY FidAssumption DEF Fids

LEMMA WilldoRange ==
  ASSUME FidsTypeOK
  PROVE  /\ Willdo \in 0 .. walk.left
         /\ walk.left - Willdo \in 0 .. MaxNames
<1>1. walk.left \in 0 .. MaxNames
  BY DEF FidsTypeOK, Walks
<1> QED
  BY <1>1, FidAssumption DEF Willdo

LEMMA NotWalkingType == NotWalking \in Walks
  BY FidKinds, FidAssumption DEF NotWalking, Walks

LEMMA TablesTyped ==
  ASSUME FidsTypeOK, NEW fid \in Fids, NEW newfid \in Fids
  PROVE  /\ TableFor(fid, newfid) \in Tables
         /\ BitsFor(fid, newfid) \subseteq Tracked
  BY DEF FidsTypeOK, TableFor, BitsFor, Tables

LEMMA TypeStep ==
  ASSUME FidsTypeOK, [FidsNext]_fidVars
  PROVE  FidsTypeOK'
<1> USE DEF FidsTypeOK
<1>1. ASSUME NEW fid \in {ROOTFID} \cup Tracked, NEW newfid \in Tracked,
             NEW n \in 0 .. MaxNames, Walk9(fid, newfid, n)
      PROVE  FidsTypeOK'
  <2>1. fid \in Fids /\ newfid \in Fids
    BY FidKinds
  <2>2. openfids' \subseteq Tracked /\ server' \in Tables
    BY <1>1, <2>1, TablesTyped DEF Walk9
  <2>3. walk' \in Walks
    BY <1>1, <2>1 DEF Walk9, Walks
  <2> QED
    BY <1>1, <2>2, <2>3 DEF Walk9
<1>2. ASSUME NEW fid \in {ROOTFID} \cup Tracked, NEW newfid \in Tracked,
             NEW n \in 0 .. 1, WalkPath9(fid, newfid, n)
      PROVE  FidsTypeOK'
  <2>1. fid \in Fids /\ newfid \in Fids
    BY FidKinds
  <2>2. /\ TableFor(fid, newfid) \in Tables
        /\ BitsFor(fid, newfid) \subseteq Tracked
    BY <2>1, TablesTyped
  <2>3. openfids' \subseteq Tracked
    BY <1>2, <2>2 DEF WalkPath9, WithBit
  <2>4. server' \in Tables
    BY <1>2, <2>1, <2>2 DEF WalkPath9, Tables
  <2>5. trouble' \in {"none", "in use", "panic"}
    BY <1>2 DEF WalkPath9
  <2> QED
    BY <1>2, <2>3, <2>4, <2>5 DEF WalkPath9
<1>3. CASE WalkRefused \/ WalkMisses
  BY <1>3, NotWalkingType DEF WalkRefused, WalkMisses
<1>4. CASE WalkReaches
  <2>1. server' \in Tables
    BY <1>4 DEF WalkReaches, Tables
  <2>2. openfids' \subseteq Tracked
    BY <1>4 DEF WalkReaches, WithBit
  <2>3. walk.left - Willdo \in 0 .. MaxNames
    BY WilldoRange
  <2>4. walk' \in Walks
    <3>1. CASE walk' = NotWalking
      BY <3>1, NotWalkingType
    <3>2. CASE walk.left > Willdo /\ walk' = [walk EXCEPT !.left = @ - Willdo]
      BY <3>2, <2>3 DEF Walks
    <3> QED
      BY <1>4, <3>1, <3>2 DEF WalkReaches
  <2> QED
    BY <1>4, <2>1, <2>2, <2>4 DEF WalkReaches
<1>5. ASSUME NEW fid \in Tracked, Lopen9(fid) \/ Clunk9(fid)
      PROVE  FidsTypeOK'
  BY <1>5, FidKinds DEF Lopen9, Clunk9, Tables
<1>6. ASSUME NEW f \in FcbFids, OpenFork(f) \/ CloseFork(f)
      PROVE  FidsTypeOK'
  <2>1. f \in Fids /\ f \notin Tracked
    BY FidKinds
  <2>2. CASE OpenFork(f)
    <3>1. server' \in Tables
      BY <2>1, <2>2 DEF OpenFork, Tables
    <3> QED
      BY <2>1, <2>2, <3>1 DEF OpenFork, WithBit
  <2>3. CASE CloseFork(f)
    BY <2>1, <2>3 DEF CloseFork, Tables
  <2> QED
    BY <1>6, <2>2, <2>3
<1>7. CASE UnmountVol
  BY <1>7 DEF UnmountVol
<1>8. CASE UNCHANGED fidVars
  BY <1>8 DEF fidVars
<1> QED
  BY <1>1, <1>2, <1>3, <1>4, <1>5, <1>6, <1>7, <1>8 DEF FidsNext

LEMMA TypeInit == FidsInit => FidsTypeOK
<1> SUFFICES ASSUME FidsInit PROVE FidsTypeOK
  OBVIOUS
<1>1. server \in Tables
  BY DEF FidsInit, Tables
<1> QED
  BY <1>1, NotWalkingType DEF FidsInit, FidsTypeOK

\* Every variable of the client and of the server keeps its type: in
\* particular a bit is only ever set for a fid below 32 (WithBit is the only
\* place that sets one), and a walk never has names left over below zero.
THEOREM TypeCorrect == FidsSpec => []FidsTypeOK
<1>1. FidsTypeOK /\ [FidsNext]_fidVars => FidsTypeOK'
  BY TypeStep
<1> QED
  BY <1>1, TypeInit, PTL DEF FidsSpec

-------------------------------------------------------------------------------
LEMMA ServerMap == FidsTypeOK => /\ openfids \subseteq Tracked
                             /\ server \in [Fids -> {"none", "path", "open"}]
  BY DEF FidsTypeOK, Tables

LEMMA PhantomStep ==
  ASSUME FidsTypeOK, NoPhantomFid, [FidsNext]_fidVars
  PROVE  NoPhantomFid'
<1> USE FidKinds, ServerMap DEF NoPhantomFid
<1>1. ASSUME NEW fid \in {ROOTFID} \cup Tracked, NEW newfid \in Tracked,
             NEW n \in 0 .. MaxNames, Walk9(fid, newfid, n)
      PROVE  NoPhantomFid'
  BY <1>1 DEF Walk9, TableFor, BitsFor, Stale
<1>2. ASSUME NEW fid \in {ROOTFID} \cup Tracked, NEW newfid \in Tracked,
             NEW n \in 0 .. 1, WalkPath9(fid, newfid, n)
      PROVE  NoPhantomFid'
  <2>1. /\ TableFor(fid, newfid) \in [Fids -> {"none", "path", "open"}]
        /\ \A f \in BitsFor(fid, newfid) : f \in Fids /\ TableFor(fid, newfid)[f] # "none"
    BY DEF TableFor, BitsFor, Stale
  <2> QED
    BY <1>2, <2>1 DEF WalkPath9, WithBit
<1>3. CASE WalkRefused \/ WalkMisses
  BY <1>3 DEF WalkRefused, WalkMisses
<1>4. CASE WalkReaches
  BY <1>4 DEF WalkReaches, WithBit
<1>5. ASSUME NEW fid \in Tracked, Lopen9(fid) \/ Clunk9(fid)
      PROVE  NoPhantomFid'
  BY <1>5 DEF Lopen9, Clunk9
<1>6. ASSUME NEW f \in FcbFids, OpenFork(f) \/ CloseFork(f)
      PROVE  NoPhantomFid'
  BY <1>6 DEF OpenFork, CloseFork, WithBit
<1>7. CASE UnmountVol
  BY <1>7 DEF UnmountVol
<1>8. CASE UNCHANGED fidVars
  BY <1>8 DEF fidVars
<1> QED
  BY <1>1, <1>2, <1>3, <1>4, <1>5, <1>6, <1>7, <1>8 DEF FidsNext

\* The Tclunk that Walk9 sends behind its caller's back always names a fid
\* the server has, however walks, opens and clunks fail, and however long the
\* walks are.
THEOREM ClunksAreReal == FidsSpec => []NoPhantomFid
<1>1. FidsInit => NoPhantomFid
  BY DEF FidsInit, NoPhantomFid
<1>2. FidsTypeOK /\ NoPhantomFid /\ [FidsNext]_fidVars => NoPhantomFid'
  BY PhantomStep
<1> QED
  BY <1>1, <1>2, TypeCorrect, PTL DEF FidsSpec

-------------------------------------------------------------------------------
(***************************************************************************)
(* As long as no walk has sent a second Twalk, a walk that has begun is    *)
(* one the server accepts: the Tclunk has made its newfid free.            *)
(***************************************************************************)
WalkReady == walk.on => /\ walk.fid \in Fids /\ walk.newfid \in Tracked
                        /\ Accepts(server, walk.fid, walk.newfid)

WalkInv == ~multi => Known /\ WalkReady /\ trouble # "in use"

LEMMA ClunkMakesRoom ==
  ASSUME FidsTypeOK, Known,
         NEW fid \in {ROOTFID} \cup Tracked, NEW newfid \in Tracked,
         server[fid] = "path"
  PROVE  Accepts(TableFor(fid, newfid), fid, newfid)
  BY FidKinds, ServerMap DEF Known, Accepts, TableFor, Stale

LEMMA WalkStep ==
  ASSUME FidsTypeOK, WalkInv, [FidsNext]_fidVars
  PROVE  WalkInv'
<1>1. CASE multi'
  BY <1>1 DEF WalkInv
<1>2. CASE ~multi' /\ ~UNCHANGED fidVars
  <2>1. ~multi /\ Known /\ WalkReady /\ trouble # "in use"
    <3>1. ~multi
      BY <1>2 DEF FidsNext, Walk9, WalkPath9, WalkRefused, WalkMisses, WalkReaches,
                  Lopen9, Clunk9, OpenFork, CloseFork, UnmountVol
    <3> QED
      BY <3>1 DEF WalkInv
  <2> USE <2>1, FidKinds, ServerMap DEF Known
  <2>2. ASSUME NEW fid \in {ROOTFID} \cup Tracked, NEW newfid \in Tracked,
               NEW n \in 0 .. MaxNames, Walk9(fid, newfid, n)
        PROVE  Known' /\ WalkReady' /\ trouble' # "in use"
    <3>1. Accepts(server', fid, newfid)
      BY <2>2, ClunkMakesRoom DEF Walk9
    <3>2. WalkReady'
      BY <2>2, <3>1 DEF Walk9, WalkReady, Accepts
    <3>3. Known' /\ trouble' # "in use"
      BY <2>2 DEF Walk9, TableFor, BitsFor
    <3> QED
      BY <3>2, <3>3
  <2>3. ASSUME NEW fid \in {ROOTFID} \cup Tracked, NEW newfid \in Tracked,
               NEW n \in 0 .. 1, WalkPath9(fid, newfid, n)
        PROVE  Known' /\ WalkReady' /\ trouble' # "in use"
    <3>1. Accepts(TableFor(fid, newfid), fid, newfid)
      BY <2>3, ClunkMakesRoom DEF WalkPath9
    <3>2. /\ TableFor(fid, newfid) \in [Fids -> {"none", "path", "open"}]
          /\ \A f \in Tracked : TableFor(fid, newfid)[f] # "none" => f \in BitsFor(fid, newfid)
      BY DEF TableFor, BitsFor
    <3>3. Known' /\ trouble' # "in use"
      BY <2>3, <3>1, <3>2 DEF WalkPath9, WithBit
    <3>4. WalkReady'
      BY <2>3 DEF WalkPath9, Calm, WalkReady
    <3> QED
      BY <3>3, <3>4
  <2>4. CASE WalkRefused
    BY <2>4 DEF WalkRefused, WalkReady, WalkInv
  <2>5. CASE WalkMisses
    BY <2>5 DEF WalkMisses, WalkReady, NotWalking, WalkInv
  <2>6. CASE WalkReaches
    <3>1. walk.newfid \in Tracked
      BY <2>6 DEF WalkReaches, WalkReady
    <3>2. walk' = NotWalking /\ openfids' = WithBit(openfids, walk.newfid)
      BY <1>2, <2>6 DEF WalkReaches
    <3> QED
      BY <2>6, <3>1, <3>2 DEF WalkReaches, WithBit, WalkReady, NotWalking, WalkInv
  <2>7. ASSUME NEW fid \in Tracked, Lopen9(fid) \/ Clunk9(fid)
        PROVE  Known' /\ WalkReady' /\ trouble' # "in use"
    BY <2>7 DEF Lopen9, Clunk9, Calm, WalkReady
  <2>8. ASSUME NEW f \in FcbFids, OpenFork(f) \/ CloseFork(f)
        PROVE  Known' /\ WalkReady' /\ trouble' # "in use"
    BY <2>8 DEF OpenFork, CloseFork, WithBit, Calm, WalkReady
  <2>9. CASE UnmountVol
    BY <2>9 DEF UnmountVol, Calm, WalkReady, WalkInv
  <2> QED
    BY <1>2, <2>2, <2>3, <2>4, <2>5, <2>6, <2>7, <2>8, <2>9 DEF FidsNext, WalkInv
<1>3. CASE UNCHANGED fidVars
  BY <1>3 DEF fidVars, WalkInv, Known, WalkReady, Accepts
<1> QED
  BY <1>1, <1>2, <1>3

LEMMA WalkInvariant == FidsSpec => []WalkInv
<1>1. FidsInit => WalkInv
  <2>1. FidsInit => Known /\ trouble # "in use"
    BY FidKinds DEF FidsInit, Known
  <2>2. FidsInit => WalkReady
    BY DEF FidsInit, WalkReady, NotWalking
  <2> QED
    BY <2>1, <2>2 DEF WalkInv
<1>2. FidsTypeOK /\ WalkInv /\ [FidsNext]_fidVars => WalkInv'
  BY WalkStep
<1> QED
  BY <1>1, <1>2, TypeCorrect, PTL DEF FidsSpec

\* While callers pass no more names than fit in one Twalk, the transparent
\* Tclunk does "make everything succeed": the server never refuses a newfid.
\* The condition is needed: with longer walks it does (9p.c:151).
THEOREM ShortWalksSucceed == FidsSpec => []ShortWalksAccepted
<1>1. WalkInv => ShortWalksAccepted
  BY DEF WalkInv, ShortWalksAccepted
<1> QED
  BY <1>1, WalkInvariant, PTL

\* Under the same condition the bitmask loses track of no fid, so every fid
\* below 32 can always be walked to again.
THEOREM EveryFidTracked == FidsSpec => []NoUntrackedFid
<1>1. WalkInv => NoUntrackedFid
  BY DEF WalkInv, NoUntrackedFid
<1> QED
  BY <1>1, WalkInvariant, PTL

\* What the run checks as one: under the condition the bitmask and the server's
\* table agree in both directions (Walk9, Clunk9).
THEOREM BitmaskCorrect == FidsSpec => []BitmaskAgrees
<1>1. NoPhantomFid /\ NoUntrackedFid => BitmaskAgrees
  BY DEF BitmaskAgrees
<1> QED
  BY <1>1, ClunksAreReal, EveryFidTracked, PTL

-----------------------------------------------------------------------------
(***************************************************************************)
(* The skip list of a pass: its links on each level and its order.         *)
(***************************************************************************)

\* The elements and the links of the list, and what it may be.
Elems == Slots \cup {Leftmost, Rightmost}
Links == Elems \cup {Null}
Boards == [link : [Elems -> [Levels -> [l : Links, r : Links]]], name : [Slots \cup {Leftmost} -> Names \cup {<<>>}],
           nlead : 0 .. 2 ^ Power, complete : BOOLEAN, evicted : BOOLEAN, wild : BOOLEAN]

\* The links of a level, to the left and to the right.
Lefts(b, d)  == [e \in Elems |-> b.link[e][d].l]
Rights(b, d) == [e \in Elems |-> b.link[e][d].r]

\* A level is linked both ways, and to the left of its members are members.
LevelOK(l, r, M) ==
  /\ l \in [Elems -> Links] /\ r \in [Elems -> Links]
  /\ \A x, y \in Elems : l[x] = y <=> r[y] = x
  /\ l[Leftmost] = Null /\ r[Rightmost] = Null
  /\ M \subseteq Elems /\ Rightmost \in M /\ Leftmost \notin M
  /\ \A x \in M : l[x] \in (M \ {Rightmost}) \cup {Leftmost}
  /\ \A x \in (M \ {Rightmost}) \cup {Leftmost} : r[x] \in M

\* What an insertion does to the links, and a deletion.
LeftInsert(l, el, right)     == [e \in Elems |-> IF e = el THEN l[right] ELSE IF e = right THEN el ELSE l[e]]
RightInsert(l, r, el, right) == [e \in Elems |-> IF e = el THEN right ELSE IF e = l[right] THEN el ELSE r[e]]
LeftDelete(l, r, el)         == [e \in Elems |-> IF e = el THEN Null ELSE IF e = r[el] THEN l[el] ELSE l[e]]
RightDelete(l, r, el)        == [e \in Elems |-> IF e = el THEN Null ELSE IF e = l[el] THEN r[el] ELSE r[e]]

\* The order of the elements, from left to right.
OrderOK(q, n, r) ==
  /\ q \in [0 .. n + 1 -> Elems] /\ q[0] = Leftmost /\ q[n + 1] = Rightmost
  /\ \A i, j \in 0 .. n + 1 : q[i] = q[j] => i = j
  /\ \A i \in 0 .. n : r[q[i]] = q[i + 1]

\* The order with one more at a place, or without the last.
OrderWith(q, n, p, el) == [i \in 0 .. (n + 1) + 1 |-> IF i < p THEN q[i] ELSE IF i = p THEN el ELSE q[i - 1]]
OrderLess(q, n)        == [i \in 0 .. (n - 1) + 1 |-> IF i = n THEN Rightmost ELSE q[i]]

\* The elements that are in the list.
InList(q, n) == {q[i] : i \in 1 .. n}

\* On every level some of the elements of the one below, and below all in order.
LinkedOK(b, q, n, R) ==
  /\ R \in [Levels -> SUBSET Elems]
  /\ \A d \in Levels : LevelOK(Lefts(b, d), Rights(b, d), R[d])
  /\ \A d \in Levels : R[d] \subseteq R[0] /\ (d + 1 \in Levels => R[d + 1] \subseteq R[d])
  /\ R[0] = InList(q, n) \cup {Rightmost} /\ OrderOK(q, n, Rights(b, 0))
  /\ \A e \in Slots \ InList(q, n), d \in Levels : Lefts(b, d)[e] = Null /\ Rights(b, d)[e] = Null

\* The names of the list ascend, after the one to ignore; and it has all that
\* were given, or as many as it can and the lowest.
NamesOK(b, q, n, ignore, S) ==
  /\ b.name[Leftmost] = ignore
  /\ \A i \in 1 .. n : After(b.name[q[i]], b.name[q[i - 1]])
  /\ \A i \in 1 .. n : b.name[q[i]] \in S
  /\ \A s \in S : After(s, ignore) =>
       \/ \E i \in 1 .. n : b.name[q[i]] = s
       \/ n = 2 ^ Power /\ After(s, b.name[q[n]]) /\ (b.evicted \/ ~ b.complete)

\* A list of the names given to a pass, by the order and the members it has.
BoardWith(b, ignore, S, q, R) ==
  LinkedOK(b, q, b.nlead, R) /\ InList(q, b.nlead) = 1 .. b.nlead /\ NamesOK(b, q, b.nlead, ignore, S)

BoardOK(b, ignore, S) == b \in Boards /\ \E q, R : BoardWith(b, ignore, S, q, R)

\* The store holds the names of the page, or as many as it has room for, each
\* as it follows the one before.
Before(page, i) == IF i = 1 THEN <<>> ELSE page[i - 1]
IdBefore(page, i) == IF i = 1 THEN Bytes(0) ELSE Bytes(Id[page[i - 1]])
Follows(e, was, name, wasId, id) ==
  /\ e.reuseName \in 0 .. Len(was) /\ SubSeq(was, 1, e.reuseName) \o e.name = name
  /\ e.reuseID \in 0 .. IdBytes /\ SubSeq(wasId, 1, e.reuseID) \o e.id = id

StoreOK(entries, page) ==
  /\ Len(entries) <= Len(page)
  /\ \A i \in 1 .. Len(entries) :
       Follows(entries[i], Before(page, i), page[i], IdBefore(page, i), Bytes(Id[page[i]]))
  /\ PackedSize(entries) <= Room

\* A page in order.
AscendingPage(page) == \A i \in 2 .. Len(page) : After(page[i], page[i - 1])

-----------------------------------------------------------------------------
(***************************************************************************)
(* How names compare (RelString).                                          *)
(***************************************************************************)

\* A set of numbers has a least one.
LEMMA LeastNumber ==
  ASSUME NEW S \in SUBSET Nat, S # {}
  PROVE  \E m \in S : \A k \in S : m <= k
<1>1. PICK m \in S : \A k \in S : ~ (<<k, m>> \in OpToRel(<, Nat))
  BY NatLessThanWellFounded, WFMin
<1>2. \A k \in S : ~ (k < m)
  BY <1>1 DEF OpToRel
<1> QED
  BY <1>2

\* No name comes after itself.
LEMMA AfterIrreflexive == ASSUME NEW a \in Seq(Nat) PROVE ~ After(a, a)
<1>1. Len(a) \in Nat /\ \A i \in 1 .. Len(a) : a[i] \in Nat
  BY LenProperties, ElementOfSeq
<1> QED
  BY <1>1 DEF After

\* Of two names one comes after the other (RelString).
LEMMA AfterTotal ==
  ASSUME NEW a \in Seq(Nat), NEW b \in Seq(Nat), a # b, ~ After(a, b)
  PROVE  After(b, a)
<1> DEFINE D == {i \in 1 .. Len(a) : i <= Len(b) /\ a[i] # b[i]}
<1>1. /\ Len(a) \in Nat /\ \A i \in 1 .. Len(a) : a[i] \in Nat
      /\ Len(b) \in Nat /\ \A i \in 1 .. Len(b) : b[i] \in Nat
  BY LenProperties, ElementOfSeq
<1>2. CASE D = {}
  <2>1. \A i \in 1 .. Len(a) : i <= Len(b) => a[i] = b[i]
    BY <1>2
  <2>2. Len(a) # Len(b)
    <3> SUFFICES ASSUME Len(a) = Len(b) PROVE FALSE
      OBVIOUS
    <3>1. \A i \in 1 .. Len(a) : a[i] = b[i]
      BY <1>1, <2>1
    <3> QED
      BY <3>1, SeqEqual
  <2>3. ~ (Len(a) > Len(b))
    <3> SUFFICES ASSUME Len(a) > Len(b) PROVE FALSE
      OBVIOUS
    <3>1. \A i \in 1 .. Len(b) : a[i] = b[i]
      BY <1>1, <2>1
    <3> QED
      BY <3>1 DEF After
  <2>4. Len(b) > Len(a) /\ \A i \in 1 .. Len(a) : b[i] = a[i]
    BY <1>1, <2>1, <2>2, <2>3
  <2> QED
    BY <2>4 DEF After
<1>3. CASE D # {}
  <2>1. PICK i \in D : \A j \in D : i <= j
    <3>1. D \in SUBSET Nat
      OBVIOUS
    <3> HIDE DEF D
    <3> QED
      BY <1>3, <3>1, LeastNumber
  <2>2. i \in 1 .. Len(a) /\ i \in 1 .. Len(b) /\ a[i] # b[i]
    BY <1>1, <2>1
  <2>3. \A j \in 1 .. i - 1 : a[j] = b[j]
    <3> TAKE j \in 1 .. i - 1
    <3>1. j \in 1 .. Len(a) /\ j <= Len(b) /\ ~ (i <= j)
      BY <1>1, <2>2
    <3> QED
      BY <2>1, <3>1
  <2>4. ~ (a[i] > b[i])
    BY <1>1, <2>2, <2>3 DEF After
  <2>5. b[i] > a[i] /\ i <= Len(a) /\ \A j \in 1 .. i - 1 : b[j] = a[j]
    BY <1>1, <2>2, <2>3, <2>4
  <2> QED
    BY <2>2, <2>5 DEF After
<1> QED
  BY <1>2, <1>3

\* What comes after what comes after a name comes after it (RelString).
LEMMA AfterTransitive ==
  ASSUME NEW a \in Seq(Nat), NEW b \in Seq(Nat), NEW c \in Seq(Nat), After(a, b), After(b, c)
  PROVE  After(a, c)
<1> DEFINE Longer(x, y) == Len(x) > Len(y) /\ \A i \in 1 .. Len(y) : x[i] = y[i]
           Higher(x, y, i) == i \in 1 .. Len(x) /\ i <= Len(y) /\ x[i] > y[i] /\ \A j \in 1 .. i - 1 : x[j] = y[j]
<1>1. /\ Len(a) \in Nat /\ \A i \in 1 .. Len(a) : a[i] \in Nat
      /\ Len(b) \in Nat /\ \A i \in 1 .. Len(b) : b[i] \in Nat
      /\ Len(c) \in Nat /\ \A i \in 1 .. Len(c) : c[i] \in Nat
  BY LenProperties, ElementOfSeq
<1>2. Longer(a, b) \/ \E i : Higher(a, b, i)
  BY DEF After
<1>3. Longer(b, c) \/ \E i : Higher(b, c, i)
  BY DEF After
<1>4. Longer(a, c) \/ (\E i : Higher(a, c, i)) => After(a, c)
  BY DEF After
<1>5. CASE Longer(a, b)
  <2>1. CASE Longer(b, c)
    <3>1. Len(a) > Len(c) /\ \A i \in 1 .. Len(c) : i \in 1 .. Len(b)
      BY <1>1, <1>5, <2>1
    <3>2. Longer(a, c)
      BY <1>5, <2>1, <3>1
    <3> QED
      BY <1>4, <3>2
  <2>2. ASSUME NEW i, Higher(b, c, i) PROVE After(a, c)
    <3>1. i \in 1 .. Len(a) /\ i \in 1 .. Len(b) /\ \A j \in 1 .. i - 1 : j \in 1 .. Len(b)
      BY <1>1, <1>5, <2>2
    <3>2. a[i] = b[i] /\ \A j \in 1 .. i - 1 : a[j] = b[j]
      BY <1>5, <3>1
    <3>3. Higher(a, c, i)
      BY <2>2, <3>1, <3>2
    <3> QED
      BY <1>4, <3>3
  <2> QED
    BY <1>3, <2>1, <2>2
<1>6. ASSUME NEW i, Higher(a, b, i) PROVE After(a, c)
  <2>0. i \in 1 .. Len(a) /\ i \in 1 .. Len(b) /\ i \in Nat
    BY <1>1, <1>6
  <2>1. CASE Longer(b, c)
    <3>1. CASE i <= Len(c)
      <4>1. i \in 1 .. Len(c) /\ \A j \in 1 .. i - 1 : j \in 1 .. Len(c)
        BY <1>1, <2>0, <3>1
      <4>2. b[i] = c[i] /\ \A j \in 1 .. i - 1 : b[j] = c[j]
        BY <2>1, <4>1
      <4>3. Higher(a, c, i)
        BY <1>6, <4>1, <4>2
      <4> QED
        BY <1>4, <4>3
    <3>2. CASE ~ (i <= Len(c))
      <4>1. Len(a) > Len(c) /\ \A j \in 1 .. Len(c) : j \in 1 .. i - 1
        BY <1>1, <2>0, <3>2
      <4>2. Longer(a, c)
        BY <1>6, <2>1, <4>1
      <4> QED
        BY <1>4, <4>2
    <3> QED
      BY <3>1, <3>2
  <2>2. ASSUME NEW k, Higher(b, c, k) PROVE After(a, c)
    <3>0. k \in 1 .. Len(b) /\ k \in 1 .. Len(c) /\ k \in Nat
      BY <1>1, <2>2
    <3>1. CASE i < k
      <4>1. i \in 1 .. k - 1 /\ \A j \in 1 .. i - 1 : j \in 1 .. k - 1
        BY <2>0, <3>0, <3>1
      <4>2. b[i] = c[i] /\ (\A j \in 1 .. i - 1 : b[j] = c[j]) /\ i <= Len(c)
        <5>1. b[i] = c[i] /\ \A j \in 1 .. i - 1 : b[j] = c[j]
          BY <2>2, <4>1
        <5>2. i <= Len(c)
          BY <1>1, <2>0, <3>0, <3>1
        <5> QED
          BY <5>1, <5>2
      <4>3. Higher(a, c, i)
        BY <1>6, <4>2
      <4> QED
        BY <1>4, <4>3
    <3>2. CASE k < i
      <4>1. k \in 1 .. i - 1 /\ \A j \in 1 .. k - 1 : j \in 1 .. i - 1
        BY <2>0, <3>0, <3>2
      <4>2. a[k] = b[k] /\ (\A j \in 1 .. k - 1 : a[j] = b[j]) /\ k \in 1 .. Len(a)
        <5>1. a[k] = b[k] /\ \A j \in 1 .. k - 1 : a[j] = b[j]
          BY <1>6, <4>1
        <5>2. k \in 1 .. Len(a)
          BY <1>1, <2>0, <3>0, <3>2
        <5> QED
          BY <5>1, <5>2
      <4>3. Higher(a, c, k)
        BY <2>2, <4>2
      <4> QED
        BY <1>4, <4>3
    <3>3. CASE k = i
      <4>1. a[i] > b[i] /\ b[i] > c[i] /\ a[i] \in Nat /\ b[i] \in Nat /\ c[i] \in Nat
        BY <1>1, <1>6, <2>0, <2>2, <3>0, <3>3
      <4>2. a[i] > c[i]
        BY <4>1
      <4>3. Higher(a, c, i)
        BY <1>6, <2>2, <3>0, <3>3, <4>2
      <4> QED
        BY <1>4, <4>3
    <3> QED
      BY <2>0, <3>0, <3>1, <3>2, <3>3
  <2> QED
    BY <1>3, <2>1, <2>2
<1> QED
  BY <1>2, <1>5, <1>6

-----------------------------------------------------------------------------
(***************************************************************************)
(* Linking and unlinking an element on one level (SKIPLIST_INSERT,         *)
(* SKIPLIST_DELETE), and what that does to the order.                      *)
(***************************************************************************)

\* The limiting elements, the slots and NULL are told apart.
LEMMA ElemsAre ==
  /\ Null \notin Elems /\ Leftmost \notin Slots /\ Rightmost \notin Slots /\ Leftmost # Rightmost
  /\ Slots \subseteq Elems /\ Leftmost \in Elems /\ Rightmost \in Elems /\ Elems \subseteq Links /\ Null \in Links
  BY DEF Elems, Slots, Links, Null, Leftmost, Rightmost

\* Inserted to the left of an element, an element is linked both ways
\* (SKIPLIST_INSERT).
LEMMA LevelInsert ==
  ASSUME NEW l, NEW r, NEW M, LevelOK(l, r, M), NEW el \in Slots \ M, NEW right \in Elems \ {Leftmost}, el # right,
         l[el] = Null, r[el] = Null
  PROVE  LevelOK(LeftInsert(l, el, right), RightInsert(l, r, el, right), IF right \in M THEN M \cup {el} ELSE M)
<1> DEFINE l2 == LeftInsert(l, el, right)
           r2 == RightInsert(l, r, el, right)
<1>1. /\ l \in [Elems -> Links] /\ r \in [Elems -> Links]
      /\ \A x, y \in Elems : l[x] = y <=> r[y] = x
      /\ l[Leftmost] = Null /\ r[Rightmost] = Null
      /\ M \subseteq Elems /\ Rightmost \in M /\ Leftmost \notin M
      /\ \A x \in M : l[x] \in (M \ {Rightmost}) \cup {Leftmost}
      /\ \A x \in (M \ {Rightmost}) \cup {Leftmost} : r[x] \in M
  BY DEF LevelOK
<1>2. el \in Elems /\ el # Leftmost /\ el # Rightmost /\ Links = Elems \cup {Null}
  BY ElemsAre DEF Links
<1>3. \A x \in Elems : l[x] # el /\ r[x] # el
  <2> TAKE x \in Elems
  <2>1. Null \notin Elems
    BY ElemsAre
  <2> QED
    BY <1>1, <1>2, <2>1
<1>4. l2 \in [Elems -> Links] /\ r2 \in [Elems -> Links]
  BY <1>1, <1>2 DEF LeftInsert, RightInsert
<1>5. /\ l2[el] = l[right] /\ l2[right] = el /\ \A x \in Elems : x # el /\ x # right => l2[x] = l[x]
      /\ r2[el] = right /\ \A x \in Elems : x # el => r2[x] = IF x = l[right] THEN el ELSE r[x]
  BY <1>2 DEF LeftInsert, RightInsert
<1> HIDE DEF l2, r2
<1> SUFFICES LevelOK(l2, r2, IF right \in M THEN M \cup {el} ELSE M)
  BY DEF l2, r2
<1>6. ASSUME NEW x \in Elems, NEW y \in Elems PROVE l2[x] = y <=> r2[y] = x
  <2>1. CASE x = el
    BY <1>1, <1>2, <1>3, <1>5, <2>1
  <2>2. CASE x = right
    BY <1>1, <1>2, <1>3, <1>5, <2>2
  <2>3. CASE x # el /\ x # right
    BY <1>1, <1>2, <1>3, <1>5, <2>3
  <2> QED
    BY <2>1, <2>2, <2>3
<1>7. l2[Leftmost] = Null /\ r2[Rightmost] = Null
  <2>1. Rightmost # l[right]
    <3> SUFFICES ASSUME l[right] = Rightmost PROVE FALSE
      OBVIOUS
    <3>1. r[Rightmost] = right
      BY <1>1, ElemsAre
    <3> QED
      BY <1>1, <3>1, ElemsAre
  <2> QED
    BY <1>1, <1>2, <1>5, <2>1, ElemsAre
<1>8. CASE right \in M
  <2>1. l[right] \in (M \ {Rightmost}) \cup {Leftmost}
    BY <1>1, <1>8
  <2>2. \A x \in M \cup {el} : l2[x] \in ((M \cup {el}) \ {Rightmost}) \cup {Leftmost}
    BY <1>1, <1>2, <1>5, <2>1
  <2>3. \A x \in ((M \cup {el}) \ {Rightmost}) \cup {Leftmost} : r2[x] \in M \cup {el}
    BY <1>1, <1>2, <1>5, <1>8, ElemsAre
  <2> QED
    BY <1>1, <1>2, <1>4, <1>6, <1>7, <1>8, <2>2, <2>3 DEF LevelOK
<1>9. CASE right \notin M
  <2>1. l[right] \notin (M \ {Rightmost}) \cup {Leftmost}
    <3> SUFFICES ASSUME l[right] \in (M \ {Rightmost}) \cup {Leftmost} PROVE FALSE
      OBVIOUS
    <3>1. r[l[right]] = right
      BY <1>1, ElemsAre
    <3> QED
      BY <1>1, <1>9, <3>1
  <2>2. \A x \in M : l2[x] \in (M \ {Rightmost}) \cup {Leftmost}
    BY <1>1, <1>5, <1>9
  <2>3. \A x \in (M \ {Rightmost}) \cup {Leftmost} : r2[x] \in M
    BY <1>1, <1>2, <1>5, <2>1, ElemsAre
  <2> QED
    BY <1>1, <1>2, <1>4, <1>6, <1>7, <1>9, <2>2, <2>3 DEF LevelOK
<1> QED
  BY <1>8, <1>9

\* Deleted, it is linked to nothing, and its neighbours to one another
\* (SKIPLIST_DELETE).
LEMMA LevelDelete ==
  ASSUME NEW l, NEW r, NEW M, LevelOK(l, r, M), NEW el \in Slots
  PROVE  LevelOK(LeftDelete(l, r, el), RightDelete(l, r, el), M \ {el})
<1> DEFINE l2 == LeftDelete(l, r, el)
           r2 == RightDelete(l, r, el)
<1>1. /\ l \in [Elems -> Links] /\ r \in [Elems -> Links]
      /\ \A x, y \in Elems : l[x] = y <=> r[y] = x
      /\ l[Leftmost] = Null /\ r[Rightmost] = Null
      /\ M \subseteq Elems /\ Rightmost \in M /\ Leftmost \notin M
      /\ \A x \in M : l[x] \in (M \ {Rightmost}) \cup {Leftmost}
      /\ \A x \in (M \ {Rightmost}) \cup {Leftmost} : r[x] \in M
  BY DEF LevelOK
<1>2. el \in Elems /\ el # Leftmost /\ el # Rightmost /\ Links = Elems \cup {Null} /\ Null \notin Elems
  BY ElemsAre DEF Links
<1>3. l2 \in [Elems -> Links] /\ r2 \in [Elems -> Links]
  BY <1>1, <1>2 DEF LeftDelete, RightDelete
<1>4. /\ l2[el] = Null /\ \A x \in Elems : x # el => l2[x] = IF x = r[el] THEN l[el] ELSE l[x]
      /\ r2[el] = Null /\ \A x \in Elems : x # el => r2[x] = IF x = l[el] THEN r[el] ELSE r[x]
  BY <1>2 DEF LeftDelete, RightDelete
<1> HIDE DEF l2, r2
<1>5. ASSUME NEW x \in Elems, NEW y \in Elems PROVE l2[x] = y <=> r2[y] = x
  <2>1. CASE x = el \/ y = el
    <3>1. \A z \in Elems : l2[z] # el /\ r2[z] # el
      BY <1>1, <1>2, <1>4
    <3> QED
      BY <1>2, <1>4, <2>1, <3>1
  <2>2. CASE x # el /\ y # el /\ x = r[el]
    BY <1>1, <1>2, <1>4, <2>2
  <2>3. CASE x # el /\ y # el /\ x # r[el]
    BY <1>1, <1>2, <1>4, <2>3
  <2> QED
    BY <2>1, <2>2, <2>3
<1>6. l2[Leftmost] = Null /\ r2[Rightmost] = Null
  <2>1. Leftmost # r[el] /\ Rightmost # l[el]
    BY <1>1, <1>2, ElemsAre
  <2> QED
    BY <1>1, <1>2, <1>4, <2>1, ElemsAre
<1>7. el \notin M => \A x \in (M \ {Rightmost}) \cup {Leftmost} : x # l[el]
  <2> SUFFICES ASSUME el \notin M, NEW x \in (M \ {Rightmost}) \cup {Leftmost}, x = l[el] PROVE FALSE
    OBVIOUS
  <2>1. r[x] = el
    BY <1>1, <1>2, ElemsAre
  <2> QED
    BY <1>1, <2>1
<1>8. \A x \in M \ {el} : l2[x] \in ((M \ {el}) \ {Rightmost}) \cup {Leftmost}
  <2> TAKE x \in M \ {el}
  <2>1. CASE x = r[el]
    <3>1. l[x] = el
      BY <1>1, <1>2, <2>1
    <3>2. el \in M
      BY <1>1, <1>2, <3>1
    <3>3. l[el] # el
      <4>1. l[el] = el => r[el] = el
        BY <1>1, <1>2
      <4> QED
        BY <2>1, <4>1
    <3> QED
      BY <1>1, <1>2, <1>4, <2>1, <3>2, <3>3
  <2>2. CASE x # r[el]
    <3>1. l[x] # el
      BY <1>1, <1>2, <2>2
    <3> QED
      BY <1>1, <1>4, <2>2, <3>1
  <2> QED
    BY <2>1, <2>2
<1>9. \A x \in ((M \ {el}) \ {Rightmost}) \cup {Leftmost} : r2[x] \in M \ {el}
  <2> TAKE x \in ((M \ {el}) \ {Rightmost}) \cup {Leftmost}
  <2>0. x \in Elems /\ x # el /\ x \in (M \ {Rightmost}) \cup {Leftmost}
    BY <1>1, <1>2, ElemsAre
  <2>1. CASE x = l[el]
    <3>1. el \in M
      BY <1>7, <2>0, <2>1
    <3>2. r[el] # el
      <4>1. r[el] = el => l[el] = el
        BY <1>1, <1>2
      <4> QED
        BY <2>0, <2>1, <4>1
    <3> QED
      BY <1>1, <1>2, <1>4, <2>0, <2>1, <3>1, <3>2
  <2>2. CASE x # l[el]
    <3>1. r[x] # el
      BY <1>1, <1>2, <2>0, <2>2
    <3> QED
      BY <1>1, <1>4, <2>0, <2>2, <3>1
  <2> QED
    BY <2>1, <2>2
<1>10. LevelOK(l2, r2, M \ {el})
  BY <1>1, <1>2, <1>3, <1>5, <1>6, <1>8, <1>9 DEF LevelOK
<1> QED
  BY <1>10 DEF l2, r2

\* The order on the lowest level with an element inserted.
LEMMA OrderInsert ==
  ASSUME NEW n \in Nat, NEW q, NEW l, NEW r, NEW M, LevelOK(l, r, M), OrderOK(q, n, r),
         NEW el \in Elems, \A i \in 0 .. n + 1 : q[i] # el, NEW p \in 1 .. n + 1
  PROVE  /\ OrderOK(OrderWith(q, n, p, el), n + 1, RightInsert(l, r, el, q[p]))
         /\ InList(OrderWith(q, n, p, el), n + 1) = InList(q, n) \cup {el}
<1> DEFINE q2 == OrderWith(q, n, p, el)
           r2 == RightInsert(l, r, el, q[p])
<1>0. /\ q2 = [i \in 0 .. (n + 1) + 1 |-> IF i < p THEN q[i] ELSE IF i = p THEN el ELSE q[i - 1]]
      /\ r2 = [e \in Elems |-> IF e = el THEN q[p] ELSE IF e = l[q[p]] THEN el ELSE r[e]]
  BY DEF OrderWith, RightInsert
<1> HIDE DEF q2, r2
<1> SUFFICES OrderOK(q2, n + 1, r2) /\ InList(q2, n + 1) = InList(q, n) \cup {el}
  BY DEF q2, r2
<1>1. /\ q \in [0 .. n + 1 -> Elems] /\ q[0] = Leftmost /\ q[n + 1] = Rightmost
      /\ \A i, j \in 0 .. n + 1 : q[i] = q[j] => i = j
      /\ \A i \in 0 .. n : r[q[i]] = q[i + 1]
  BY DEF OrderOK
<1>2. \A i \in 0 .. n : l[q[i + 1]] = q[i]
  <2> TAKE i \in 0 .. n
  <2>1. i \in 0 .. n + 1 /\ i + 1 \in 0 .. n + 1
    OBVIOUS
  <2>2. q[i] \in Elems /\ q[i + 1] \in Elems /\ r[q[i]] = q[i + 1]
    BY <1>1, <2>1
  <2> QED
    BY <2>2 DEF LevelOK
<1>3. p - 1 \in 0 .. n /\ (p - 1) + 1 = p /\ p \in 0 .. n + 1 /\ p - 1 \in 0 .. n + 1
  OBVIOUS
<1>4. l[q[p]] = q[p - 1]
  BY <1>2, <1>3
<1>5. \A i \in 0 .. n + 2 : /\ i < p => i \in 0 .. n + 1 /\ q2[i] = q[i]
                            /\ i = p => q2[i] = el
                            /\ i > p => i - 1 \in 0 .. n + 1 /\ i - 1 >= p /\ q2[i] = q[i - 1]
  BY <1>0
<1>6. q2 \in [0 .. (n + 1) + 1 -> Elems]
  <2>1. \A i \in 0 .. n + 2 : q2[i] \in Elems
    <3> TAKE i \in 0 .. n + 2
    <3>1. i < p \/ i = p \/ i > p
      OBVIOUS
    <3> QED
      BY <1>1, <1>5, <3>1
  <2>2. 0 .. (n + 1) + 1 = 0 .. n + 2
    OBVIOUS
  <2> QED
    BY <1>0, <2>1, <2>2
<1>7. q2[0] = Leftmost /\ q2[(n + 1) + 1] = Rightmost
  BY <1>0, <1>1
<1>8. ASSUME NEW i \in 0 .. n + 2, NEW j \in 0 .. n + 2, q2[i] = q2[j], i < j PROVE FALSE
  <2>1. CASE j < p
    <3>1. i < p /\ i \in 0 .. n + 1 /\ j \in 0 .. n + 1
      BY <1>8, <2>1
    <3> QED
      BY <1>1, <1>5, <1>8, <2>1, <3>1
  <2>2. CASE j = p
    <3>1. i < p
      BY <1>8, <2>2
    <3> QED
      BY <1>5, <1>8, <2>2, <3>1
  <2>3. CASE j > p /\ i < p
    <3>1. j - 1 \in 0 .. n + 1 /\ i \in 0 .. n + 1 /\ i # j - 1 /\ q2[i] = q[i] /\ q2[j] = q[j - 1]
      BY <1>5, <2>3
    <3> QED
      BY <1>1, <1>8, <3>1
  <2>4. CASE j > p /\ i = p
    <3>1. j - 1 \in 0 .. n + 1 /\ q2[i] = el /\ q2[j] = q[j - 1]
      BY <1>5, <2>4
    <3> QED
      BY <1>8, <3>1
  <2>5. CASE j > p /\ i > p
    <3>1. j - 1 \in 0 .. n + 1 /\ i - 1 \in 0 .. n + 1 /\ i - 1 # j - 1 /\ q2[i] = q[i - 1] /\ q2[j] = q[j - 1]
      BY <1>5, <1>8, <2>5
    <3> QED
      BY <1>1, <1>8, <3>1
  <2> QED
    BY <2>1, <2>2, <2>3, <2>4, <2>5
<1>9. \A i, j \in 0 .. (n + 1) + 1 : q2[i] = q2[j] => i = j
  <2> SUFFICES ASSUME NEW i \in 0 .. (n + 1) + 1, NEW j \in 0 .. (n + 1) + 1, q2[i] = q2[j] PROVE i = j
    OBVIOUS
  <2>1. i \in 0 .. n + 2 /\ j \in 0 .. n + 2 /\ (i < j \/ i = j \/ j < i)
    OBVIOUS
  <2> QED
    BY <1>8, <2>1
<1>10. ASSUME NEW i \in 0 .. n + 1 PROVE r2[q2[i]] = q2[i + 1]
  <2>0. i \in 0 .. n + 2 /\ i + 1 \in 0 .. n + 2 /\ q2[i] \in Elems
    BY <1>6
  <2>1. CASE i < p - 1
    <3>1. i < p /\ i + 1 < p /\ i \in 0 .. n /\ i \in 0 .. n + 1 /\ i # p - 1
      BY <2>1
    <3>2. q2[i] = q[i] /\ q2[i + 1] = q[i + 1]
      BY <1>5, <2>0, <3>1
    <3>3. q[i] # el /\ q[i] # q[p - 1] /\ q[i] \in Elems
      BY <1>1, <1>3, <3>1
    <3>4. r2[q[i]] = r[q[i]]
      BY <1>0, <1>4, <3>3
    <3> QED
      BY <1>1, <3>1, <3>2, <3>4
  <2>2. CASE i = p - 1
    <3>1. i < p /\ i + 1 = p
      BY <2>2
    <3>2. q2[i] = q[p - 1] /\ q2[i + 1] = el
      BY <1>5, <2>0, <2>2, <3>1
    <3> QED
      BY <1>0, <1>1, <1>3, <1>4, <3>2
  <2>3. CASE i = p
    <3>1. i + 1 > p /\ (i + 1) - 1 = p
      BY <2>3
    <3>2. q2[i] = el /\ q2[i + 1] = q[p]
      BY <1>5, <2>0, <2>3, <3>1
    <3> QED
      BY <1>0, <3>2
  <2>4. CASE i > p
    <3>1. i + 1 > p /\ (i + 1) - 1 = i /\ i - 1 \in 0 .. n /\ (i - 1) + 1 = i /\ i - 1 # p - 1 /\ i - 1 \in 0 .. n + 1
      BY <2>4
    <3>2. q2[i] = q[i - 1] /\ q2[i + 1] = q[i]
      BY <1>5, <2>0, <2>4, <3>1
    <3>3. q[i - 1] # el /\ q[i - 1] # q[p - 1] /\ q[i - 1] \in Elems
      BY <1>1, <1>3, <3>1
    <3>4. r2[q[i - 1]] = r[q[i - 1]]
      BY <1>0, <1>4, <3>3
    <3> QED
      BY <1>1, <3>1, <3>2, <3>4
  <2> QED
    BY <2>1, <2>2, <2>3, <2>4
<1>11. InList(q2, n + 1) = InList(q, n) \cup {el}
  <2>1. ASSUME NEW i \in 1 .. n + 1 PROVE q2[i] \in InList(q, n) \cup {el}
    <3>1. i \in 0 .. n + 2 /\ (i < p => i \in 1 .. n) /\ (i > p => i - 1 \in 1 .. n) /\ (i < p \/ i = p \/ i > p)
      OBVIOUS
    <3> QED
      BY <1>5, <3>1 DEF InList
  <2>2. ASSUME NEW i \in 1 .. n PROVE \E j \in 1 .. n + 1 : q2[j] = q[i]
    <3>1. CASE i < p
      <4>1. i \in 1 .. n + 1 /\ i \in 0 .. n + 2
        OBVIOUS
      <4> QED
        BY <1>5, <3>1, <4>1
    <3>2. CASE i >= p
      <4>1. i + 1 \in 1 .. n + 1 /\ i + 1 \in 0 .. n + 2 /\ i + 1 > p /\ (i + 1) - 1 = i
        BY <3>2
      <4> QED
        BY <1>5, <4>1
    <3>3. i < p \/ i >= p
      OBVIOUS
    <3> QED
      BY ONLY <3>1, <3>2, <3>3, Zenon
  <2>3. p \in 1 .. n + 1 /\ q2[p] = el
    BY <1>5, <1>3
  <2>4. InList(q2, n + 1) \subseteq InList(q, n) \cup {el}
    BY <2>1 DEF InList
  <2>5. \A x \in InList(q, n) : x \in InList(q2, n + 1)
    <3> TAKE x \in InList(q, n)
    <3>1. PICK i \in 1 .. n : x = q[i]
      BY DEF InList
    <3>2. PICK j \in 1 .. n + 1 : q2[j] = q[i]
      BY <2>2
    <3> QED
      BY ONLY <3>1, <3>2, j \in 1 .. n + 1, Zenon DEF InList
  <2>6. el \in InList(q2, n + 1)
    BY ONLY <2>3, Zenon DEF InList
  <2> QED
    BY <2>4, <2>5, <2>6
<1> QED
  BY <1>6, <1>7, <1>9, <1>10, <1>11 DEF OrderOK

\* The order on the lowest level without the last element.
LEMMA OrderDelete ==
  ASSUME NEW n \in Nat, n # 0, NEW q, NEW l, NEW r, NEW M, LevelOK(l, r, M), OrderOK(q, n, r)
  PROVE  /\ OrderOK(OrderLess(q, n), n - 1, RightDelete(l, r, q[n]))
         /\ InList(OrderLess(q, n), n - 1) = InList(q, n) \ {q[n]}
<1> DEFINE q2 == OrderLess(q, n)
           r2 == RightDelete(l, r, q[n])
<1>0. /\ q2 = [i \in 0 .. (n - 1) + 1 |-> IF i = n THEN Rightmost ELSE q[i]]
      /\ r2 = [e \in Elems |-> IF e = q[n] THEN Null ELSE IF e = l[q[n]] THEN r[q[n]] ELSE r[e]]
  BY DEF OrderLess, RightDelete
<1> HIDE DEF q2, r2
<1> SUFFICES OrderOK(q2, n - 1, r2) /\ InList(q2, n - 1) = InList(q, n) \ {q[n]}
  BY DEF q2, r2
<1>1. /\ q \in [0 .. n + 1 -> Elems] /\ q[0] = Leftmost /\ q[n + 1] = Rightmost
      /\ \A i, j \in 0 .. n + 1 : q[i] = q[j] => i = j
      /\ \A i \in 0 .. n : r[q[i]] = q[i + 1]
  BY DEF OrderOK
<1>2. n - 1 \in 0 .. n /\ (n - 1) + 1 = n /\ n \in 0 .. n + 1 /\ n + 1 \in 0 .. n + 1 /\ n \in 0 .. n /\ n - 1 \in 0 .. n + 1
  OBVIOUS
<1>3. l[q[n]] = q[n - 1]
  <2>1. q[n] \in Elems /\ q[n - 1] \in Elems /\ r[q[n - 1]] = q[n]
    BY <1>1, <1>2
  <2> QED
    BY <2>1 DEF LevelOK
<1>4. \A i \in 0 .. n : i \in 0 .. n + 1 /\ (i # n => q2[i] = q[i]) /\ (i = n => q2[i] = Rightmost)
  BY <1>0, <1>2
<1>5. q2 \in [0 .. (n - 1) + 1 -> Elems] /\ q2[0] = Leftmost /\ q2[(n - 1) + 1] = Rightmost
  BY <1>0, <1>1, <1>2, <1>4, ElemsAre
<1>6. \A i, j \in 0 .. (n - 1) + 1 : q2[i] = q2[j] => i = j
  <2> SUFFICES ASSUME NEW i \in 0 .. (n - 1) + 1, NEW j \in 0 .. (n - 1) + 1, q2[i] = q2[j] PROVE i = j
    OBVIOUS
  <2>1. i \in 0 .. n /\ j \in 0 .. n
    BY <1>2
  <2>2. \A k \in 0 .. n : k \in 0 .. n + 1 /\ k # n + 1
    OBVIOUS
  <2>3. \A k \in 0 .. n : q[k] # Rightmost
    BY <1>1, <1>2, <2>2
  <2> QED
    BY <1>1, <1>4, <2>1, <2>3
<1>7. \A i \in 0 .. n - 1 : r2[q2[i]] = q2[i + 1]
  <2> TAKE i \in 0 .. n - 1
  <2>1. i \in 0 .. n /\ i # n /\ i + 1 \in 0 .. n /\ i \in 0 .. n + 1 /\ (i + 1 = n <=> i = n - 1)
    OBVIOUS
  <2>2. q2[i] = q[i] /\ q[i] # q[n] /\ q[i] \in Elems
    BY <1>1, <1>2, <1>4, <2>1
  <2>3. CASE i = n - 1
    BY <1>0, <1>1, <1>2, <1>3, <1>4, <2>1, <2>2, <2>3
  <2>4. CASE i # n - 1
    <3>1. q[i] # q[n - 1]
      BY <1>1, <1>2, <2>1, <2>4
    <3>2. r2[q[i]] = r[q[i]]
      BY <1>0, <1>3, <2>2, <3>1
    <3> QED
      BY <1>1, <1>4, <2>1, <2>2, <2>4, <3>2
  <2> QED
    BY <2>3, <2>4
<1>8. InList(q2, n - 1) = InList(q, n) \ {q[n]}
  <2>1. \A i \in 1 .. n - 1 : i \in 1 .. n /\ i \in 0 .. n /\ i # n /\ i \in 0 .. n + 1
    OBVIOUS
  <2>2. \A i \in 1 .. n : i # n => i \in 1 .. n - 1
    OBVIOUS
  <2>3. \A i \in 1 .. n - 1 : q2[i] = q[i] /\ q[i] # q[n]
    BY <1>1, <1>2, <1>4, <2>1
  <2> QED
    BY <2>1, <2>2, <2>3 DEF InList
<1>9. n - 1 \in Nat
  OBVIOUS
<1> QED
  BY <1>5, <1>6, <1>7, <1>8, <1>9 DEF OrderOK

-----------------------------------------------------------------------------
(***************************************************************************)
(* The same on all the levels.                                             *)
(***************************************************************************)

\* What SKIPLIST_INSERT does on each level of an element.
LEMMA InsertLinks ==
  ASSUME NEW b \in Boards, NEW right \in Elems, NEW el \in Slots, NEW levels \in SUBSET Levels,
         NEW c, c = SkipInsert(b, right, el, levels)
  PROVE  /\ c \in Boards /\ c.name = b.name /\ c.nlead = b.nlead /\ c.complete = b.complete /\ c.evicted = b.evicted
         /\ \A d \in levels : /\ Lefts(c, d) = LeftInsert(Lefts(b, d), el, right)
                               /\ Rights(c, d) = RightInsert(Lefts(b, d), Rights(b, d), el, right)
         /\ \A d \in Levels \ levels : Lefts(c, d) = Lefts(b, d) /\ Rights(c, d) = Rights(b, d)
<1> DEFINE link == [e \in Elems |-> [d \in Levels |->
                     IF d \notin levels THEN b.link[e][d]
                     ELSE IF e = el THEN [l |-> b.link[right][d].l, r |-> right]
                     ELSE [l |-> IF e = right THEN el ELSE b.link[e][d].l,
                           r |-> IF e = b.link[right][d].l THEN el ELSE b.link[e][d].r]]]
           wild1 == b.wild \/ \E d \in levels : b.link[right][d].l = Null
<1>1. b.link \in [Elems -> [Levels -> [l : Links, r : Links]]] /\ b.wild \in BOOLEAN
  BY DEF Boards
<1>2. DOMAIN b.link = Elems
  BY <1>1
<1>3. c = [b EXCEPT !.link = link, !.wild = wild1]
  BY <1>2 DEF SkipInsert
<1>4. el \in Elems /\ el \in Links /\ right \in Links
  BY ElemsAre
<1>5. \A e \in Elems, d \in Levels : b.link[e][d] \in [l : Links, r : Links]
  BY <1>1
<1>6. \A e \in Elems, d \in Levels : b.link[e][d].l \in Links /\ b.link[e][d].r \in Links
  BY <1>5
<1>7. link \in [Elems -> [Levels -> [l : Links, r : Links]]]
  <2>1. ASSUME NEW e \in Elems, NEW d \in Levels PROVE link[e][d] \in [l : Links, r : Links]
    BY <1>4, <1>5, <1>6
  <2> QED
    BY <2>1
<1>8. wild1 \in BOOLEAN
  OBVIOUS
<1>9. \A e \in Elems : /\ \A d \in levels : /\ link[e][d].l = IF e = el THEN b.link[right][d].l ELSE IF e = right THEN el ELSE b.link[e][d].l
                                            /\ link[e][d].r = IF e = el THEN right ELSE IF e = b.link[right][d].l THEN el ELSE b.link[e][d].r
                       /\ \A d \in Levels \ levels : link[e][d] = b.link[e][d]
  <2> TAKE e \in Elems
  <2>1. ASSUME NEW d \in levels
        PROVE  /\ link[e][d].l = IF e = el THEN b.link[right][d].l ELSE IF e = right THEN el ELSE b.link[e][d].l
               /\ link[e][d].r = IF e = el THEN right ELSE IF e = b.link[right][d].l THEN el ELSE b.link[e][d].r
    <3>1. d \in Levels
      OBVIOUS
    <3> QED
      BY <3>1
  <2>2. \A d \in Levels \ levels : link[e][d] = b.link[e][d]
    OBVIOUS
  <2> QED
    BY <2>1, <2>2
<1> HIDE DEF link, wild1
<1>10. c \in Boards /\ c.link = link
  BY <1>3, <1>7, <1>8 DEF Boards
<1>11. c.name = b.name /\ c.nlead = b.nlead /\ c.complete = b.complete /\ c.evicted = b.evicted
  BY <1>3
<1>12. \A d \in Levels, e \in Elems : Lefts(b, d)[e] = b.link[e][d].l
  BY DEF Lefts
<1>13. ASSUME NEW d \in levels
       PROVE  /\ Lefts(c, d) = LeftInsert(Lefts(b, d), el, right)
              /\ Rights(c, d) = RightInsert(Lefts(b, d), Rights(b, d), el, right)
  <2>0. d \in Levels
    OBVIOUS
  <2>1. Lefts(c, d) = [e \in Elems |-> IF e = el THEN b.link[right][d].l ELSE IF e = right THEN el ELSE b.link[e][d].l]
    BY <1>9, <1>10 DEF Lefts
  <2>2. Rights(c, d) = [e \in Elems |-> IF e = el THEN right ELSE IF e = b.link[right][d].l THEN el ELSE b.link[e][d].r]
    BY <1>9, <1>10 DEF Rights
  <2> QED
    BY <1>12, <2>0, <2>1, <2>2 DEF Rights, LeftInsert, RightInsert
<1>14. ASSUME NEW d \in Levels \ levels PROVE Lefts(c, d) = Lefts(b, d) /\ Rights(c, d) = Rights(b, d)
  BY <1>9, <1>10 DEF Lefts, Rights
<1> QED
  BY <1>10, <1>11, <1>13, <1>14

\* What SKIPLIST_DELETE does on every level, where the element stands and where
\* it does not.
LEMMA DeleteLinks ==
  ASSUME NEW b \in Boards, NEW el \in Slots, NEW c, c = SkipDelete(b, el)
  PROVE  /\ c \in Boards /\ c.name = b.name /\ c.nlead = b.nlead /\ c.complete = b.complete /\ c.evicted = b.evicted
         /\ \A d \in Levels :
              /\ Lefts(c, d) = LeftDelete(Lefts(b, d), Rights(b, d), el)
              /\ Rights(c, d) = RightDelete(Lefts(b, d), Rights(b, d), el)
<1> DEFINE link == [e \in Elems |-> [d \in Levels |->
                     IF e = el THEN [l |-> Null, r |-> Null]
                     ELSE [l |-> IF e = b.link[el][d].r THEN b.link[el][d].l ELSE b.link[e][d].l,
                           r |-> IF e = b.link[el][d].l THEN b.link[el][d].r ELSE b.link[e][d].r]]]
           wild1 == b.wild \/ \E d \in Levels : Null \in {b.link[el][d].l, b.link[el][d].r}
<1>1. b.link \in [Elems -> [Levels -> [l : Links, r : Links]]] /\ b.wild \in BOOLEAN
  BY DEF Boards
<1>2. DOMAIN b.link = Elems
  BY <1>1
<1>3. c = [b EXCEPT !.link = link, !.wild = wild1]
  BY <1>2 DEF SkipDelete
<1>4. el \in Elems /\ Null \in Links
  BY ElemsAre
<1>5. \A e \in Elems, d \in Levels : b.link[e][d] \in [l : Links, r : Links]
  BY <1>1
<1>6. \A e \in Elems, d \in Levels : b.link[e][d].l \in Links /\ b.link[e][d].r \in Links
  BY <1>5
<1>7. link \in [Elems -> [Levels -> [l : Links, r : Links]]]
  <2>1. ASSUME NEW e \in Elems, NEW d \in Levels PROVE link[e][d] \in [l : Links, r : Links]
    BY <1>4, <1>5, <1>6
  <2> QED
    BY <2>1
<1>8. wild1 \in BOOLEAN
  OBVIOUS
<1>9. \A e \in Elems, d \in Levels :
        /\ link[e][d].l = IF e = el THEN Null ELSE IF e = b.link[el][d].r THEN b.link[el][d].l ELSE b.link[e][d].l
        /\ link[e][d].r = IF e = el THEN Null ELSE IF e = b.link[el][d].l THEN b.link[el][d].r ELSE b.link[e][d].r
  OBVIOUS
<1> HIDE DEF link, wild1
<1>10. c \in Boards /\ c.link = link
  BY <1>3, <1>7, <1>8 DEF Boards
<1>11. c.name = b.name /\ c.nlead = b.nlead /\ c.complete = b.complete /\ c.evicted = b.evicted
  BY <1>3
<1>12. ASSUME NEW d \in Levels
       PROVE  /\ Lefts(c, d) = LeftDelete(Lefts(b, d), Rights(b, d), el)
              /\ Rights(c, d) = RightDelete(Lefts(b, d), Rights(b, d), el)
  BY <1>4, <1>9, <1>10 DEF Lefts, Rights, LeftDelete, RightDelete
<1> QED
  BY <1>10, <1>11, <1>12

\* What is in the list are slots, and what is not is not met in its order.
LEMMA ListIs ==
  ASSUME NEW n \in Nat, NEW q, NEW r, OrderOK(q, n, r)
  PROVE  /\ InList(q, n) \subseteq Slots /\ \A i \in 1 .. n : q[i] \in InList(q, n)
         /\ \A i \in 1 .. n + 1 : q[i] \in InList(q, n) \cup {Rightmost} /\ q[i] \in Elems \ {Leftmost}
         /\ \A e \in Slots \ InList(q, n), i \in 0 .. n + 1 : q[i] # e
<1>1. /\ q \in [0 .. n + 1 -> Elems] /\ q[0] = Leftmost /\ q[n + 1] = Rightmost
      /\ \A i, j \in 0 .. n + 1 : q[i] = q[j] => i = j
  BY DEF OrderOK
<1>2. \A i \in 0 .. n + 1 : i = 0 \/ i = n + 1 \/ i \in 1 .. n
  OBVIOUS
<1>3. \A i \in 1 .. n : i \in 0 .. n + 1 /\ i # 0 /\ i # n + 1 /\ 0 \in 0 .. n + 1 /\ n + 1 \in 0 .. n + 1
  OBVIOUS
<1>4. \A i \in 1 .. n : q[i] \in Elems /\ q[i] # Leftmost /\ q[i] # Rightmost
  BY <1>1, <1>3
<1>5. \A i \in 1 .. n : q[i] \in InList(q, n)
  BY DEF InList
<1>6. InList(q, n) \subseteq Slots
  BY <1>4 DEF InList, Elems
<1>7. \A i \in 1 .. n + 1 : i = n + 1 \/ i \in 1 .. n
  OBVIOUS
<1>8. \A i \in 1 .. n + 1 : q[i] \in InList(q, n) \cup {Rightmost} /\ q[i] \in Elems \ {Leftmost}
  BY <1>1, <1>4, <1>5, <1>7, ElemsAre
<1> QED
  BY <1>1, <1>2, <1>5, <1>6, <1>8, ElemsAre

\* The list with an element inserted on its levels is linked as a skip list is.
LEMMA InsertLinked ==
  ASSUME NEW b \in Boards, NEW n \in Nat, NEW q, NEW R, LinkedOK(b, q, n, R),
         NEW el \in Slots \ InList(q, n), NEW p \in 1 .. n + 1,
         NEW levels \in SUBSET Levels, 0 \in levels, \A d \in Levels : d + 1 \in levels => d \in levels,
         NEW c, c = SkipInsert(b, q[p], el, levels), NEW R2,
         R2 = [d \in Levels |-> IF d \in levels /\ q[p] \in R[d] THEN R[d] \cup {el} ELSE R[d]]
  PROVE  LinkedOK(c, OrderWith(q, n, p, el), n + 1, R2) /\ InList(OrderWith(q, n, p, el), n + 1) = InList(q, n) \cup {el}
<1> DEFINE q2 == OrderWith(q, n, p, el)
<1>1. /\ R \in [Levels -> SUBSET Elems]
      /\ \A d \in Levels : LevelOK(Lefts(b, d), Rights(b, d), R[d])
      /\ \A d \in Levels : R[d] \subseteq R[0] /\ (d + 1 \in Levels => R[d + 1] \subseteq R[d])
      /\ R[0] = InList(q, n) \cup {Rightmost} /\ OrderOK(q, n, Rights(b, 0))
      /\ \A e \in Slots \ InList(q, n), d \in Levels : Lefts(b, d)[e] = Null /\ Rights(b, d)[e] = Null
  BY DEF LinkedOK
<1>2. /\ q[p] \in InList(q, n) \cup {Rightmost} /\ q[p] \in Elems \ {Leftmost} /\ q[p] # el
      /\ \A i \in 0 .. n + 1 : q[i] # el
  <2>1. p \in 0 .. n + 1
    OBVIOUS
  <2> QED
    BY <1>1, <2>1, ListIs
<1>3. q[p] \in Elems /\ 0 \in Levels /\ el \in Slots /\ el \in Elems
  BY <1>2, ElemsAre
<1>4. /\ \A d \in levels :
           /\ Lefts(c, d) = LeftInsert(Lefts(b, d), el, q[p])
           /\ Rights(c, d) = RightInsert(Lefts(b, d), Rights(b, d), el, q[p])
      /\ \A d \in Levels \ levels : Lefts(c, d) = Lefts(b, d) /\ Rights(c, d) = Rights(b, d)
  BY <1>3, InsertLinks
<1>5. ASSUME NEW d \in Levels PROVE LevelOK(Lefts(c, d), Rights(c, d), R2[d])
  <2>1. CASE d \in levels
    <3>1. el \notin R[d]
      BY <1>1, ElemsAre
    <3>2. Lefts(b, d)[el] = Null /\ Rights(b, d)[el] = Null
      BY <1>1
    <3>4. /\ Lefts(c, d) = LeftInsert(Lefts(b, d), el, q[p])
          /\ Rights(c, d) = RightInsert(Lefts(b, d), Rights(b, d), el, q[p])
      BY <1>4, <2>1
    <3>5. LevelOK(Lefts(b, d), Rights(b, d), R[d]) /\ el \in Slots \ R[d] /\ q[p] \in Elems \ {Leftmost} /\ el # q[p]
      BY <1>1, <1>2, <3>1
    <3>3. LevelOK(Lefts(c, d), Rights(c, d), IF q[p] \in R[d] THEN R[d] \cup {el} ELSE R[d])
      <4> DEFINE l == Lefts(b, d)
                 rr == Rights(b, d)
                 M == R[d]
                 at == q[p]
      <4>1. LevelOK(l, rr, M) /\ el \in Slots \ M /\ at \in Elems \ {Leftmost} /\ el # at /\ l[el] = Null /\ rr[el] = Null
        BY <3>2, <3>5
      <4>2. Lefts(c, d) = LeftInsert(l, el, at) /\ Rights(c, d) = RightInsert(l, rr, el, at)
        BY <3>4
      <4> HIDE DEF l, rr, M, at
      <4>3. LevelOK(LeftInsert(l, el, at), RightInsert(l, rr, el, at), IF at \in M THEN M \cup {el} ELSE M)
        BY <4>1, LevelInsert
      <4>4. LevelOK(Lefts(c, d), Rights(c, d), IF at \in M THEN M \cup {el} ELSE M)
        BY <4>2, <4>3
      <4> QED
        BY <4>4 DEF M, at
    <3> QED
      BY <2>1, <3>3
  <2>2. CASE d \notin levels
    BY <1>1, <1>4, <2>2
  <2> QED
    BY <2>1, <2>2
<1>6. R2 \in [Levels -> SUBSET Elems]
  BY <1>1, <1>3
<1>7. R2[0] = R[0] \cup {el}
  BY <1>1, <1>2, <1>3
<1>8. ASSUME NEW d \in Levels PROVE R2[d] \subseteq R2[0] /\ (d + 1 \in Levels => R2[d + 1] \subseteq R2[d])
  <2>1. R2[d] \subseteq R2[0]
    BY <1>1, <1>7
  <2>2. ASSUME d + 1 \in Levels PROVE R2[d + 1] \subseteq R2[d]
    BY <1>1, <2>2
  <2> QED
    BY <2>1, <2>2
<1>9. OrderOK(q2, n + 1, Rights(c, 0)) /\ InList(q2, n + 1) = InList(q, n) \cup {el}
  <2>1. Rights(c, 0) = RightInsert(Lefts(b, 0), Rights(b, 0), el, q[p])
    BY <1>4
  <2>2. LevelOK(Lefts(b, 0), Rights(b, 0), R[0])
    BY <1>1, <1>3
  <2> QED
    BY <1>1, <1>2, <1>3, <2>1, <2>2, OrderInsert
<1>10. ASSUME NEW e \in Slots \ InList(q2, n + 1), NEW d \in Levels
       PROVE  Lefts(c, d)[e] = Null /\ Rights(c, d)[e] = Null
  <2>1. e \in Elems /\ e # el /\ e # q[p] /\ Lefts(b, d)[e] = Null /\ Rights(b, d)[e] = Null
    BY <1>1, <1>2, <1>9, ElemsAre
  <2>2. e # Lefts(b, d)[q[p]]
    <3> SUFFICES ASSUME Lefts(b, d)[q[p]] = e PROVE FALSE
      OBVIOUS
    <3>1. Rights(b, d)[e] = q[p]
      BY <1>1, <1>3, <2>1 DEF LevelOK
    <3> QED
      BY <1>3, <2>1, <3>1, ElemsAre
  <2>3. CASE d \in levels
    <3>4. /\ Lefts(c, d) = LeftInsert(Lefts(b, d), el, q[p])
          /\ Rights(c, d) = RightInsert(Lefts(b, d), Rights(b, d), el, q[p])
      BY <1>4, <2>3
    <3> QED
      BY <2>1, <2>2, <3>4 DEF LeftInsert, RightInsert
  <2>4. CASE d \notin levels
    BY <1>4, <2>1, <2>4
  <2> QED
    BY <2>3, <2>4
<1> QED
  BY <1>1, <1>5, <1>6, <1>7, <1>8, <1>9, <1>10 DEF LinkedOK

\* So is the list without its last element.
LEMMA DeleteLinked ==
  ASSUME NEW b \in Boards, NEW n \in Nat, n # 0, NEW q, NEW R, LinkedOK(b, q, n, R),
         NEW c, c = SkipDelete(b, q[n]), NEW R2, R2 = [d \in Levels |-> R[d] \ {q[n]}]
  PROVE  LinkedOK(c, OrderLess(q, n), n - 1, R2) /\ InList(OrderLess(q, n), n - 1) = InList(q, n) \ {q[n]}
<1> DEFINE q2 == OrderLess(q, n)
           el == q[n]
<1>1. /\ R \in [Levels -> SUBSET Elems]
      /\ \A d \in Levels : LevelOK(Lefts(b, d), Rights(b, d), R[d])
      /\ \A d \in Levels : R[d] \subseteq R[0] /\ (d + 1 \in Levels => R[d + 1] \subseteq R[d])
      /\ R[0] = InList(q, n) \cup {Rightmost} /\ OrderOK(q, n, Rights(b, 0))
      /\ \A e \in Slots \ InList(q, n), d \in Levels : Lefts(b, d)[e] = Null /\ Rights(b, d)[e] = Null
  BY DEF LinkedOK
<1>2. el \in Slots /\ el # Rightmost /\ el \in Elems /\ 0 \in Levels
  <2>1. n \in 1 .. n
    OBVIOUS
  <2>2. el \in InList(q, n) /\ InList(q, n) \subseteq Slots
    BY <1>1, <2>1, ListIs
  <2>3. 0 \in Levels
    BY SortDirAssumption DEF Levels
  <2> QED
    BY <2>2, <2>3, ElemsAre
<1>3. \A d \in Levels :
        /\ Lefts(c, d) = LeftDelete(Lefts(b, d), Rights(b, d), el)
        /\ Rights(c, d) = RightDelete(Lefts(b, d), Rights(b, d), el)
  <2>1. b \in Boards /\ el \in Slots /\ c = SkipDelete(b, el)
    BY <1>2
  <2> HIDE DEF el
  <2> QED
    BY <2>1, DeleteLinks
<1>4. \A d \in Levels : LevelOK(Lefts(c, d), Rights(c, d), R2[d])
  <2> TAKE d \in Levels
  <2>1. LevelOK(Lefts(b, d), Rights(b, d), R[d]) /\ el \in Slots /\ R2[d] = R[d] \ {el}
    BY <1>1, <1>2
  <2>2. /\ Lefts(c, d) = LeftDelete(Lefts(b, d), Rights(b, d), el)
        /\ Rights(c, d) = RightDelete(Lefts(b, d), Rights(b, d), el)
    BY <1>3
  <2> HIDE DEF el
  <2>3. LevelOK(Lefts(c, d), Rights(c, d), R[d] \ {el})
    BY <2>1, <2>2, LevelDelete
  <2> QED
    BY <2>1, <2>3
<1>5. R2 \in [Levels -> SUBSET Elems] /\ R2[0] = R[0] \ {el}
  BY <1>1, <1>2
<1>6. \A d \in Levels : R2[d] \subseteq R2[0] /\ (d + 1 \in Levels => R2[d + 1] \subseteq R2[d])
  BY <1>1, <1>5
<1>7. OrderOK(q2, n - 1, Rights(c, 0)) /\ InList(q2, n - 1) = InList(q, n) \ {el}
  <2>1. Rights(c, 0) = RightDelete(Lefts(b, 0), Rights(b, 0), q[n])
    BY <1>2, <1>3
  <2>2. LevelOK(Lefts(b, 0), Rights(b, 0), R[0])
    BY <1>1, <1>2
  <2> QED
    BY <1>1, <2>1, <2>2, OrderDelete
<1>8. ASSUME NEW e \in Slots \ InList(q2, n - 1), NEW d \in Levels
      PROVE  Lefts(c, d)[e] = Null /\ Rights(c, d)[e] = Null
  <2>1. CASE e = el
    BY <1>2, <1>3, <2>1 DEF LeftDelete, RightDelete
  <2>2. CASE e # el
    <3>1. e \in Elems /\ Lefts(b, d)[e] = Null /\ Rights(b, d)[e] = Null
      BY <1>1, <1>7, <2>2, ElemsAre
    <3>2. e # Rights(b, d)[el] /\ e # Lefts(b, d)[el]
      <4>1. e = Rights(b, d)[el] => Lefts(b, d)[e] = el
        BY <1>1, <1>2, <3>1 DEF LevelOK
      <4>2. e = Lefts(b, d)[el] => Rights(b, d)[e] = el
        BY <1>1, <1>2, <3>1 DEF LevelOK
      <4> QED
        BY <1>2, <3>1, <4>1, <4>2, ElemsAre
    <3>3. /\ Lefts(c, d) = LeftDelete(Lefts(b, d), Rights(b, d), el)
          /\ Rights(c, d) = RightDelete(Lefts(b, d), Rights(b, d), el)
      BY <1>3
    <3> HIDE DEF el
    <3> QED
      BY <2>2, <3>1, <3>2, <3>3 DEF LeftDelete, RightDelete
  <2> QED
    BY <2>1, <2>2
<1> QED
  BY <1>1, <1>4, <1>5, <1>6, <1>7, <1>8, <1>2 DEF LinkedOK

-----------------------------------------------------------------------------
(***************************************************************************)
(* Searching the list for where a name belongs, in a bounded number of     *)
(* steps.                                                                  *)
(***************************************************************************)

\* A recursion of so many steps.
Steps(n, T) == [(1 .. n) \X T -> T]
Iterates(f, n, T, b, h) ==
  /\ f \in [0 .. n -> T] /\ f[0] = b
  /\ \A k \in 1 .. n : f[k] = h[<<k, f[k - 1]>>]

\* A recursion of so many steps has a solution.
LEMMA Recursion ==
  ASSUME NEW T, NEW n \in Nat, NEW h \in Steps(n, T), NEW b \in T
  PROVE  \E f : Iterates(f, n, T, b, h)
<1>0. h \in [(1 .. n) \X T -> T]
  BY DEF Steps
<1> DEFINE Sofar(f, m) == /\ f \in [0 .. m -> T] /\ f[0] = b
                         /\ \A k \in 1 .. m : f[k] = h[<<k, f[k - 1]>>]
           bad == {m \in 0 .. n : ~ \E f : Sofar(f, m)}
<1>1. Sofar([k \in 0 .. 0 |-> b], 0)
  OBVIOUS
<1>2. ASSUME NEW m \in 1 .. n, NEW f, Sofar(f, m - 1)
      PROVE  \E g : Sofar(g, m)
  <2> DEFINE v == h[<<m, f[m - 1]>>]
             g == [k \in 0 .. m |-> IF k = m THEN v ELSE f[k]]
  <2>1. m \in Nat /\ m - 1 \in Nat /\ m # 0
    OBVIOUS
  <2>2. f[m - 1] \in T
    BY <1>2, <2>1
  <2>3. v \in T
    BY <1>0, <2>2
  <2> HIDE DEF v
  <2>4. g \in [0 .. m -> T] /\ g[0] = b
    BY <1>2, <2>1, <2>3
  <2>5. ASSUME NEW k \in 1 .. m
        PROVE  g[k] = h[<<k, g[k - 1]>>]
    <3>1. g[k - 1] = f[k - 1]
      BY <2>1
    <3>2. CASE k = m
      BY <2>1, <3>1, <3>2 DEF v
    <3>3. CASE k # m
      <4>1. k \in 1 .. m - 1
        BY <2>1, <3>3
      <4> QED
        BY <1>2, <3>1, <3>3, <4>1
    <3> QED
      BY <3>2, <3>3
  <2>6. Sofar(g, m)
    BY <2>4, <2>5
  <2> QED
    BY <2>6
<1>3. bad = {}
  <2> SUFFICES ASSUME bad # {} PROVE FALSE
    OBVIOUS
  <2>1. PICK m \in bad : \A k \in bad : m <= k
    <3>1. bad \in SUBSET Nat
      OBVIOUS
    <3> HIDE DEF bad
    <3> QED
      BY <3>1, LeastNumber
  <2>2. m # 0
    BY <1>1
  <2>3. m \in 1 .. n /\ m - 1 \in 0 .. n /\ m - 1 \notin bad
    BY <2>1, <2>2
  <2>4. PICK f : Sofar(f, m - 1)
    BY <2>3
  <2> HIDE DEF Sofar
  <2>5. \E g : Sofar(g, m)
    BY <1>2, <2>3, <2>4
  <2> QED
    BY <2>1, <2>5
<1>4. PICK f : Sofar(f, n)
  <2>1. n \in 0 .. n
    OBVIOUS
  <2> HIDE DEF Sofar
  <2> QED
    BY <1>3, <2>1
<1>5. Iterates(f, n, T, b, h)
  BY <1>4 DEF Iterates
<1> QED
  BY <1>5

\* What holds at the start and goes on from each number to the next holds of
\* all.
LEMMA Along ==
  ASSUME NEW n \in Nat, NEW P, 0 \in P, \A k \in 1 .. n : k - 1 \in P => k \in P
  PROVE  \A k \in 0 .. n : k \in P
<1> DEFINE bad == {m \in 0 .. n : m \notin P}
<1>1. bad \in SUBSET Nat
  OBVIOUS
<1> SUFFICES ASSUME bad # {} PROVE FALSE
  OBVIOUS
<1>2. PICK m \in bad : \A k \in bad : m <= k
  <2> HIDE DEF bad
  <2> QED
    BY <1>1, LeastNumber
<1>3. m \in 1 .. n /\ m - 1 \in 0 .. n /\ m - 1 \notin bad
  BY <1>2
<1> QED
  BY <1>2, <1>3

\* A step to the left on a level, and as many as it takes.
StepOf(b, name, d, e) ==
  IF e = Leftmost THEN Leftmost
  ELSE LET left == b.link[e][d].l
       IN  IF After(name, b.name[left]) THEN e ELSE left

Strides(at, b, name, right, d, M) ==
  /\ at \in [0 .. 2 ^ Power + 1 -> M \cup {Leftmost}] /\ at[0] = right
  /\ \A k \in 1 .. 2 ^ Power + 1 : at[k] = StepOf(b, name, d, at[k - 1])
  /\ StepLeft(b, name, right, d) = at[2 ^ Power + 1]

\* The steps to the left on a level are all members of it, until the leftmost
\* (insertIntoLeaderboard's inner loop).
LEMMA StepLeftSteps ==
  ASSUME NEW b, NEW name, NEW d \in Levels, NEW M, LevelOK(Lefts(b, d), Rights(b, d), M), NEW right \in M
  PROVE  \E at : Strides(at, b, name, right, d, M)
<1> DEFINE T == M \cup {Leftmost}
           h == [x \in (1 .. 2 ^ Power + 1) \X T |-> StepOf(b, name, d, x[2])]
<1>1. 2 ^ Power \in Nat /\ 2 ^ Power + 1 \in Nat /\ right \in T
  BY SortDirAssumption
<1>2. ASSUME NEW e \in T PROVE StepOf(b, name, d, e) \in T
  <2>1. CASE e = Leftmost
    BY <2>1 DEF StepOf
  <2>2. CASE e # Leftmost
    <3>1. e \in M /\ e \in Elems
      BY <2>2 DEF LevelOK
    <3>2. Lefts(b, d)[e] \in T
      BY <3>1 DEF LevelOK
    <3>3. Lefts(b, d)[e] = b.link[e][d].l
      BY <3>1 DEF Lefts
    <3> QED
      BY <1>2, <2>2, <3>2, <3>3 DEF StepOf
  <2> QED
    BY <2>1, <2>2
<1>3. h \in Steps(2 ^ Power + 1, T)
  BY <1>2 DEF Steps
<1> HIDE DEF T
<1>4. PICK f : /\ f \in [0 .. 2 ^ Power + 1 -> T] /\ f[0] = right
               /\ \A k \in 1 .. 2 ^ Power + 1 : f[k] = h[<<k, f[k - 1]>>]
  <2> HIDE DEF h
  <2>1. \E f : Iterates(f, 2 ^ Power + 1, T, right, h)
    BY <1>1, <1>3, Recursion
  <2> QED
    BY <2>1 DEF Iterates
<1>5. ASSUME NEW k \in 1 .. 2 ^ Power + 1
      PROVE  f[k - 1] \in T /\ f[k] = StepOf(b, name, d, f[k - 1])
  <2>1. k - 1 \in 0 .. 2 ^ Power + 1
    BY <1>1
  <2>2. f[k - 1] \in T
    BY <1>4, <2>1
  <2>3. <<k, f[k - 1]>> \in (1 .. 2 ^ Power + 1) \X T
    BY <2>2
  <2>4. h[<<k, f[k - 1]>>] = StepOf(b, name, d, f[k - 1])
    BY <2>3
  <2> QED
    BY <1>4, <2>2, <2>4
<1> DEFINE Body(g, k) == IF k = 0 THEN right
                         ELSE IF g[k - 1] = Leftmost THEN Leftmost
                         ELSE LET left == b.link[g[k - 1]][d].l
                              IN  IF After(name, b.name[left]) THEN g[k - 1] ELSE left
           at == CHOOSE g : g = [k \in 0 .. 2 ^ Power + 1 |-> Body(g, k)]
<1>6. f = [k \in 0 .. 2 ^ Power + 1 |-> Body(f, k)]
  <2>1. ASSUME NEW k \in 0 .. 2 ^ Power + 1 PROVE f[k] = Body(f, k)
    <3>1. CASE k = 0
      BY <1>4, <3>1
    <3>2. CASE k # 0
      <4>1. k \in 1 .. 2 ^ Power + 1
        BY <1>1, <3>2
      <4> QED
        BY <1>5, <3>2, <4>1 DEF StepOf
    <3> QED
      BY <3>1, <3>2
  <2> HIDE DEF Body
  <2> QED
    BY <1>4, <2>1
<1>7. at = [k \in 0 .. 2 ^ Power + 1 |-> Body(at, k)]
  <2> HIDE DEF Body
  <2> QED
    BY <1>6
<1>8. StepLeft(b, name, right, d) = at[2 ^ Power + 1]
  BY DEF StepLeft
<1> HIDE DEF at
<1>9. /\ at[0] = right
      /\ \A k \in 1 .. 2 ^ Power + 1 : at[k] = StepOf(b, name, d, at[k - 1])
  <2>1. 0 \in 0 .. 2 ^ Power + 1 /\ \A k \in 1 .. 2 ^ Power + 1 : k \in 0 .. 2 ^ Power + 1 /\ k # 0
    BY <1>1
  <2>2. \A k \in 0 .. 2 ^ Power + 1 : at[k] = Body(at, k)
    <3> HIDE DEF Body
    <3> QED
      BY <1>7
  <2>3. at[0] = right
    BY <2>1, <2>2
  <2> SUFFICES ASSUME NEW k \in 1 .. 2 ^ Power + 1 PROVE at[k] = StepOf(b, name, d, at[k - 1])
    BY <2>3
  <2>4. at[k] = Body(at, k) /\ k # 0
    BY <2>1, <2>2
  <2> QED
    BY <2>4 DEF StepOf
<1> DEFINE P == {k \in 0 .. 2 ^ Power + 1 : at[k] \in T}
<1>10. \A k \in 0 .. 2 ^ Power + 1 : k \in P
  <2>1. 0 \in P
    BY <1>1, <1>9
  <2>2. \A k \in 1 .. 2 ^ Power + 1 : k - 1 \in P => k \in P
    BY <1>1, <1>2, <1>9
  <2> HIDE DEF P
  <2> QED
    BY <1>1, <2>1, <2>2, Along
<1>11. at \in [0 .. 2 ^ Power + 1 -> T]
  <2>1. \A k \in 0 .. 2 ^ Power + 1 : at[k] \in T
    BY <1>10
  <2> HIDE DEF Body
  <2> QED
    BY <1>7, <2>1
<1> QED
  BY <1>8, <1>9, <1>11 DEF T, Strides

\* Not before an element that the name is after.
Passed(b, name, e) == e = Rightmost \/ ~ After(name, b.name[e])

\* They do not pass an element that the name comes after.
LEMMA StepLeftIs ==
  ASSUME NEW b, NEW name, NEW d \in Levels, NEW M, LevelOK(Lefts(b, d), Rights(b, d), M), NEW right \in M,
         Passed(b, name, right)
  PROVE  StepLeft(b, name, right, d) \in M \cup {Leftmost} /\ Passed(b, name, StepLeft(b, name, right, d))
<1> DEFINE N == 2 ^ Power + 1
<1>1. N \in Nat
  BY SortDirAssumption
<1>2. PICK at : /\ at \in [0 .. N -> M \cup {Leftmost}] /\ at[0] = right
                /\ \A k \in 1 .. N : at[k] = StepOf(b, name, d, at[k - 1])
                /\ StepLeft(b, name, right, d) = at[N]
  <2>1. PICK at : Strides(at, b, name, right, d, M)
    BY StepLeftSteps
  <2> QED
    BY <2>1 DEF Strides
<1> HIDE DEF N
<1> DEFINE P == {k \in 0 .. N : Passed(b, name, at[k])}
<1>3. 0 \in P
  BY <1>1, <1>2
<1>4. ASSUME NEW k \in 1 .. N, k - 1 \in P PROVE k \in P
  <2>1. at[k] = StepOf(b, name, d, at[k - 1]) /\ Passed(b, name, at[k - 1]) /\ k \in 0 .. N
    BY <1>1, <1>2, <1>4
  <2>2. Passed(b, name, at[k])
    BY <2>1 DEF StepOf, Passed
  <2> QED
    BY <2>1, <2>2
<1>5. \A k \in 0 .. N : k \in P
  <2> HIDE DEF P
  <2> QED
    BY <1>1, <1>3, <1>4, Along
<1>6. N \in 0 .. N
  BY <1>1
<1> QED
  BY <1>2, <1>5, <1>6

\* On the lowest level they end where the name belongs.
LEMMA StepLeftFinds ==
  ASSUME NEW b, NEW name, NEW M, 0 \in Levels, LevelOK(Lefts(b, 0), Rights(b, 0), M), NEW right \in M,
         NEW n \in 0 .. 2 ^ Power, NEW q, OrderOK(q, n, Rights(b, 0)), M = InList(q, n) \cup {Rightmost}
  PROVE  \/ StepLeft(b, name, right, 0) = Leftmost
         \/ \E p \in 1 .. n + 1 : StepLeft(b, name, right, 0) = q[p] /\ After(name, b.name[q[p - 1]])
<1> DEFINE N == 2 ^ Power + 1
           l == Lefts(b, 0)
           r == Rights(b, 0)
<1>1. N \in Nat /\ n \in Nat /\ n + 1 <= N /\ n + 1 \in Nat
  BY SortDirAssumption
<1>2. PICK at : /\ at \in [0 .. N -> M \cup {Leftmost}] /\ at[0] = right
                /\ \A k \in 1 .. N : at[k] = StepOf(b, name, 0, at[k - 1])
                /\ StepLeft(b, name, right, 0) = at[N]
  <2>1. PICK at : Strides(at, b, name, right, 0, M)
    BY StepLeftSteps
  <2> QED
    BY <2>1 DEF Strides
<1>3. /\ q \in [0 .. n + 1 -> Elems] /\ q[0] = Leftmost /\ q[n + 1] = Rightmost
      /\ \A i \in 0 .. n : r[q[i]] = q[i + 1]
      /\ \A x, y \in Elems : l[x] = y <=> r[y] = x
  BY DEF OrderOK, LevelOK
<1>4. \A e \in Elems : b.link[e][0].l = l[e]
  BY DEF Lefts
<1> HIDE DEF N, l, r
<1>5. ASSUME NEW p \in 1 .. n + 1 PROVE b.link[q[p]][0].l = q[p - 1] /\ q[p] # Leftmost
  <2>1. p - 1 \in 0 .. n /\ p - 1 \in 0 .. n + 1 /\ p \in 0 .. n + 1 /\ (p - 1) + 1 = p
    BY <1>1
  <2>2. r[q[p - 1]] = q[p] /\ q[p - 1] \in Elems /\ q[p] \in Elems
    BY <1>3, <2>1
  <2>3. l[q[p]] = q[p - 1]
    BY <1>3, <2>2
  <2>4. q[p] # Leftmost
    BY <1>1, ListIs
  <2> QED
    BY <1>4, <2>2, <2>3, <2>4
<1> DEFINE Is(k, p) == at[k] = q[p] /\ (After(name, b.name[q[p - 1]]) \/ p <= n + 1 - k)
           P == {k \in 0 .. N : at[k] = Leftmost \/ \E p \in 1 .. n + 1 : Is(k, p)}
<1>6. 0 \in P
  <2>1. \E p \in 1 .. n + 1 : right = q[p]
    <3>1. n + 1 \in 1 .. n + 1 /\ \A p \in 1 .. n : p \in 1 .. n + 1
      BY <1>1
    <3> QED
      BY <1>3, <3>1 DEF InList
  <2>2. PICK p \in 1 .. n + 1 : right = q[p]
    BY <2>1
  <2>3. p <= n + 1 - 0 /\ 0 \in 0 .. N
    BY <1>1
  <2> QED
    BY <1>2, <2>2, <2>3
<1>7. ASSUME NEW k \in 1 .. N, k - 1 \in P PROVE k \in P
  <2>1. at[k] = StepOf(b, name, 0, at[k - 1]) /\ k \in 0 .. N /\ k \in Nat
    BY <1>1, <1>2
  <2>2. CASE at[k - 1] = Leftmost
    BY <2>1, <2>2 DEF StepOf
  <2>3. ASSUME NEW p \in 1 .. n + 1, Is(k - 1, p) PROVE k \in P
    <3>1. at[k] = IF After(name, b.name[q[p - 1]]) THEN q[p] ELSE q[p - 1]
      BY <1>5, <2>1, <2>3 DEF StepOf
    <3>2. CASE After(name, b.name[q[p - 1]])
      BY <2>1, <3>1, <3>2
    <3>3. CASE ~ After(name, b.name[q[p - 1]])
      <4>1. at[k] = q[p - 1] /\ p <= n + 1 - (k - 1)
        BY <2>3, <3>1, <3>3
      <4>2. CASE p = 1
        BY <1>3, <2>1, <4>1, <4>2
      <4>3. CASE p # 1
        <5>1. p - 1 \in 1 .. n + 1 /\ p - 1 <= n + 1 - k
          BY <1>1, <2>1, <4>1, <4>3
        <5>2. Is(k, p - 1)
          BY <4>1, <5>1
        <5> QED
          BY <2>1, <5>1, <5>2
      <4> QED
        BY <4>2, <4>3
    <3> QED
      BY <3>2, <3>3
  <2> QED
    BY <1>7, <2>2, <2>3
<1>8. \A k \in 0 .. N : k \in P
  <2> HIDE DEF P
  <2> QED
    BY <1>1, <1>6, <1>7, Along
<1>9. N \in 0 .. N /\ \A p \in 1 .. n + 1 : ~ (p <= n + 1 - N)
  BY <1>1
<1> QED
  BY <1>2, <1>8, <1>9

\* Where a name belongs.
Belongs(b, q, n, name, e) ==
  \/ e = Leftmost /\ ~ After(name, b.name[Leftmost])
  \/ \E p \in 1 .. n + 1 : /\ e = q[p] /\ After(name, b.name[q[p - 1]])
                           /\ p = n + 1 \/ ~ After(name, b.name[q[p]])

\* So does the search over all the levels, however tall the elements are.
LEMMA SearchIs ==
  ASSUME NEW b, NEW name, NEW n \in 0 .. 2 ^ Power, NEW q, NEW R, LinkedOK(b, q, n, R)
  PROVE  Belongs(b, q, n, name, Search(b, name))
<1>1. /\ \A d \in Levels : LevelOK(Lefts(b, d), Rights(b, d), R[d])
      /\ \A d \in Levels : R[d] \subseteq R[0] /\ (d + 1 \in Levels => R[d + 1] \subseteq R[d])
      /\ R[0] = InList(q, n) \cup {Rightmost} /\ OrderOK(q, n, Rights(b, 0))
  BY DEF LinkedOK
<1>2. Power \in Nat /\ Power # 0 /\ 0 \in Levels /\ \A k \in 1 .. Power : Power - k \in Levels
  BY SortDirAssumption DEF Levels
<1> DEFINE T == R[0] \cup {Leftmost}
           Can(k, e) == e # Leftmost /\ e \in R[Power - k] /\ Passed(b, name, e)
           h == [x \in (1 .. Power) \X T |-> IF Can(x[1], x[2]) THEN StepLeft(b, name, x[2], Power - x[1]) ELSE Leftmost]
<1>3. ASSUME NEW k \in 1 .. Power, NEW e, Can(k, e)
      PROVE  /\ StepLeft(b, name, e, Power - k) \in R[Power - k] \cup {Leftmost}
             /\ StepLeft(b, name, e, Power - k) \in T
             /\ Passed(b, name, StepLeft(b, name, e, Power - k))
  <2>1. Power - k \in Levels /\ e \in R[Power - k] /\ Passed(b, name, e)
    BY <1>2, <1>3
  <2>2. LevelOK(Lefts(b, Power - k), Rights(b, Power - k), R[Power - k]) /\ R[Power - k] \subseteq R[0]
    BY <1>1, <2>1
  <2> DEFINE d == Power - k
  <2> HIDE DEF d
  <2>3. d \in Levels /\ LevelOK(Lefts(b, d), Rights(b, d), R[d]) /\ e \in R[d]
    BY <2>1, <2>2 DEF d
  <2>4. StepLeft(b, name, e, d) \in R[d] \cup {Leftmost} /\ Passed(b, name, StepLeft(b, name, e, d))
    BY <2>1, <2>3, StepLeftIs
  <2> QED
    BY <2>2, <2>4 DEF d
<1>4. Rightmost \in T /\ Passed(b, name, Rightmost) /\ \A d \in Levels : Rightmost \in R[d]
  BY <1>1 DEF Passed, LevelOK
<1>5. h \in Steps(Power, T)
  <2>1. \A x \in (1 .. Power) \X T : (IF Can(x[1], x[2]) THEN StepLeft(b, name, x[2], Power - x[1]) ELSE Leftmost) \in T
    BY <1>3
  <2> HIDE DEF Can, T
  <2> QED
    BY <2>1 DEF Steps
<1>6. PICK f : /\ f \in [0 .. Power -> T] /\ f[0] = Rightmost
               /\ \A k \in 1 .. Power : f[k] = h[<<k, f[k - 1]>>]
  <2> HIDE DEF h, T
  <2>1. \E f : Iterates(f, Power, T, Rightmost, h)
    BY <1>2, <1>4, <1>5, Recursion
  <2> QED
    BY <2>1 DEF Iterates
<1>7. ASSUME NEW k \in 1 .. Power
      PROVE  f[k] = IF Can(k, f[k - 1]) THEN StepLeft(b, name, f[k - 1], Power - k) ELSE Leftmost
  <2>1. k - 1 \in 0 .. Power
    BY <1>2
  <2>2. f[k - 1] \in T
    BY <1>6, <2>1
  <2>3. <<k, f[k - 1]>> \in (1 .. Power) \X T
    BY <2>2
  <2>4. h[<<k, f[k - 1]>>] = IF Can(k, f[k - 1]) THEN StepLeft(b, name, f[k - 1], Power - k) ELSE Leftmost
    <3> HIDE DEF Can, T
    <3> QED
      BY <2>3
  <2> HIDE DEF Can, h
  <2> QED
    BY <1>6, <2>4
<1> HIDE DEF h, T
<1> DEFINE P == {k \in 0 .. Power : /\ Passed(b, name, f[k])
                                    /\ f[k] = Leftmost \/ (k < Power => Can(k + 1, f[k]))}
<1>8. 0 \in P
  <2>1. 0 \in 0 .. Power /\ 0 + 1 \in 1 .. Power /\ Power - (0 + 1) \in Levels
    BY <1>2
  <2> QED
    BY <1>4, <1>6, <2>1, ElemsAre
<1>9. ASSUME NEW k \in 1 .. Power, k - 1 \in P PROVE k \in P
  <2>1. k \in 0 .. Power /\ k - 1 < Power /\ (k - 1) + 1 = k
    BY <1>2
  <2>2. Passed(b, name, f[k - 1]) /\ (f[k - 1] = Leftmost \/ Can(k, f[k - 1]))
    BY <1>9, <2>1
  <2>3. CASE f[k - 1] = Leftmost
    <3>1. f[k] = f[k - 1]
      BY <1>7, <2>3
    <3> QED
      BY <2>1, <2>2, <2>3, <3>1
  <2>4. CASE Can(k, f[k - 1])
    <3>1. f[k] = StepLeft(b, name, f[k - 1], Power - k)
      BY <1>7, <2>4
    <3>2. f[k] \in R[Power - k] \cup {Leftmost} /\ Passed(b, name, f[k])
      BY <1>3, <2>4, <3>1
    <3>3. ASSUME f[k] # Leftmost, k < Power PROVE Can(k + 1, f[k])
      <4>1. Power - (k + 1) \in Levels /\ Power - k = (Power - (k + 1)) + 1 /\ Power - k \in Levels
        BY <1>2, <3>3 DEF Levels
      <4>2. R[Power - k] \subseteq R[Power - (k + 1)]
        BY <1>1, <4>1
      <4> QED
        BY <3>2, <3>3, <4>2
    <3> QED
      BY <2>1, <3>2, <3>3
  <2> QED
    BY <2>2, <2>3, <2>4
<1>10. \A k \in 0 .. Power : k \in P
  <2> HIDE DEF P
  <2> QED
    BY <1>2, <1>8, <1>9, Along
<1>11. \A k \in 1 .. Power : f[k - 1] = Leftmost \/ Can(k, f[k - 1])
  <2> SUFFICES ASSUME NEW k \in 1 .. Power PROVE f[k - 1] = Leftmost \/ Can(k, f[k - 1])
    OBVIOUS
  <2>1. k - 1 \in 0 .. Power /\ k - 1 < Power /\ (k - 1) + 1 = k
    BY <1>2
  <2> QED
    BY <1>10, <2>1
<1>12. \A k \in 1 .. Power : f[k] = IF f[k - 1] = Leftmost THEN Leftmost ELSE StepLeft(b, name, f[k - 1], Power - k)
  BY <1>7, <1>11
<1> DEFINE Body(g, k) == IF k = 0 THEN Rightmost
                         ELSE IF g[k - 1] = Leftmost THEN Leftmost
                         ELSE StepLeft(b, name, g[k - 1], Power - k)
           right == CHOOSE g : g = [k \in 0 .. Power |-> Body(g, k)]
<1>13. f = [k \in 0 .. Power |-> Body(f, k)]
  <2>1. ASSUME NEW k \in 0 .. Power PROVE f[k] = Body(f, k)
    <3>1. CASE k = 0
      BY <1>6, <3>1
    <3>2. CASE k # 0
      <4>1. k \in 1 .. Power
        BY <1>2, <3>2
      <4> QED
        BY <1>12, <3>2, <4>1
    <3> QED
      BY <3>1, <3>2
  <2> HIDE DEF Body
  <2> QED
    BY <1>6, <2>1
<1>14. right = [k \in 0 .. Power |-> Body(right, k)]
  <2> HIDE DEF Body
  <2> QED
    BY <1>13
<1>15. Search(b, name) = right[Power]
  BY DEF Search
<1> HIDE DEF right
<1>16. /\ right[0] = Rightmost
       /\ \A k \in 1 .. Power : right[k] = IF right[k - 1] = Leftmost THEN Leftmost
                                           ELSE StepLeft(b, name, right[k - 1], Power - k)
  <2>1. 0 \in 0 .. Power /\ \A k \in 1 .. Power : k \in 0 .. Power /\ k # 0
    BY <1>2
  <2>2. \A k \in 0 .. Power : right[k] = Body(right, k)
    <3> HIDE DEF Body
    <3> QED
      BY <1>14
  <2>3. right[0] = Rightmost
    BY <2>1, <2>2
  <2> SUFFICES ASSUME NEW k \in 1 .. Power
               PROVE right[k] = IF right[k - 1] = Leftmost THEN Leftmost
                                ELSE StepLeft(b, name, right[k - 1], Power - k)
    BY <2>3
  <2>4. right[k] = Body(right, k) /\ k # 0
    BY <2>1, <2>2
  <2> QED
    BY <2>4
<1> DEFINE Q == {k \in 0 .. Power : right[k] = f[k]}
<1>17. \A k \in 0 .. Power : k \in Q
  <2>1. 0 \in Q
    BY <1>2, <1>6, <1>16
  <2>2. \A k \in 1 .. Power : k - 1 \in Q => k \in Q
    <3> HIDE DEF Can
    <3> QED
      BY <1>2, <1>12, <1>16
  <2> HIDE DEF Q
  <2> QED
    BY <1>2, <2>1, <2>2, Along
<1>18. Search(b, name) = f[Power] /\ Power \in 1 .. Power /\ Power - Power = 0 /\ Power \in 0 .. Power
  BY <1>2, <1>15, <1>17
<1>19. Passed(b, name, f[Power])
  BY <1>10, <1>18
<1> SUFFICES Belongs(b, q, n, name, f[Power])
  BY <1>18
<1> DEFINE e == f[Power - 1]
<1>20. f[Power] = IF e = Leftmost THEN Leftmost ELSE StepLeft(b, name, e, 0)
  BY <1>12, <1>18
<1>21. e = Leftmost \/ e \in R[0]
  BY <1>11, <1>18
<1> HIDE DEF e, P, Can, Body
<1>22. CASE f[Power] = Leftmost
  BY <1>19, <1>22, ElemsAre DEF Passed, Belongs
<1>23. CASE f[Power] # Leftmost
  <2>1. f[Power] = StepLeft(b, name, e, 0) /\ e \in R[0]
    BY <1>20, <1>21, <1>23
  <2>2. \E p \in 1 .. n + 1 : f[Power] = q[p] /\ After(name, b.name[q[p - 1]])
    <3>1. LevelOK(Lefts(b, 0), Rights(b, 0), R[0])
      BY <1>1, <1>2
    <3> DEFINE M == R[0]
    <3> HIDE DEF M
    <3>2. /\ LevelOK(Lefts(b, 0), Rights(b, 0), M) /\ e \in M /\ M = InList(q, n) \cup {Rightmost}
          /\ OrderOK(q, n, Rights(b, 0))
      BY <1>1, <2>1, <3>1 DEF M
    <3>3. \/ StepLeft(b, name, e, 0) = Leftmost
          \/ \E p \in 1 .. n + 1 : StepLeft(b, name, e, 0) = q[p] /\ After(name, b.name[q[p - 1]])
      BY <1>2, <3>2, StepLeftFinds
    <3> QED
      BY <1>23, <2>1, <3>3
  <2>3. PICK p \in 1 .. n + 1 : f[Power] = q[p] /\ After(name, b.name[q[p - 1]])
    BY <2>2
  <2>4. p = n + 1 \/ q[p] # Rightmost
    <3>1. p \in 0 .. n + 1 /\ n + 1 \in 0 .. n + 1
      BY SortDirAssumption
    <3> QED
      BY <1>1, <3>1 DEF OrderOK
  <2> QED
    BY <1>19, <2>3, <2>4 DEF Passed, Belongs
<1> QED
  BY <1>22, <1>23

-----------------------------------------------------------------------------
(***************************************************************************)
(* Putting a name where it belongs; when the list is full, instead of      *)
(* the last or not at all.                                                 *)
(***************************************************************************)

\* The names in an order, by elements.
Ascends(nm, q, n) == \A i \in 1 .. n : After(nm[q[i]], nm[q[i - 1]])

\* A name to be put at a place among them, and what is there then.
Fits(nm, nm2, q, n, p, el, name) ==
  /\ p \in 1 .. n + 1 /\ Ascends(nm, q, n) /\ nm2[el] = name /\ \A i \in 0 .. n : nm2[q[i]] = nm[q[i]]
  /\ After(name, nm[q[p - 1]]) /\ (p = n + 1 \/ After(nm[q[p]], name))
\* What the order of the names is with it.
Slotted(nm, nm2, q, q2, n, p, name) ==
  /\ Ascends(nm2, q2, n + 1) /\ nm2[q2[0]] = nm[q[0]]
  /\ \A i \in 1 .. n + 1 : nm2[q2[i]] = name \/ \E j \in 1 .. n : nm2[q2[i]] = nm[q[j]]
  /\ \E i \in 1 .. n + 1 : nm2[q2[i]] = name
  /\ \A j \in 1 .. n : \E i \in 1 .. n + 1 : nm2[q2[i]] = nm[q[j]]
  /\ p # n + 1 => nm2[q2[n + 1]] = nm[q[n]]

\* Names in order stay so with one more where it belongs.
LEMMA AscendInsert ==
  ASSUME NEW n \in Nat, NEW q, NEW nm, NEW nm2, NEW el, NEW name, NEW p, Fits(nm, nm2, q, n, p, el, name)
  PROVE  Slotted(nm, nm2, q, OrderWith(q, n, p, el), n, p, name)
<1> DEFINE q2 == OrderWith(q, n, p, el)
<1>0. /\ p \in 1 .. n + 1 /\ Ascends(nm, q, n) /\ nm2[el] = name /\ \A i \in 0 .. n : nm2[q[i]] = nm[q[i]]
      /\ After(name, nm[q[p - 1]]) /\ (p = n + 1 \/ After(nm[q[p]], name))
  BY DEF Fits
<1>1. \A i \in 0 .. n + 1 : q2[i] = IF i < p THEN q[i] ELSE IF i = p THEN el ELSE q[i - 1]
  BY <1>0 DEF OrderWith
<1> HIDE DEF q2
<1>2. \A i \in 0 .. n + 1 : nm2[q2[i]] = IF i < p THEN nm[q[i]] ELSE IF i = p THEN name ELSE nm[q[i - 1]]
  <2> SUFFICES ASSUME NEW i \in 0 .. n + 1
               PROVE nm2[q2[i]] = IF i < p THEN nm[q[i]] ELSE IF i = p THEN name ELSE nm[q[i - 1]]
    BY <1>0
  <2>1. CASE i < p
    BY <1>0, <1>1, <2>1
  <2>2. CASE i = p
    BY <1>0, <1>1, <2>2
  <2>3. CASE i > p
    <3>1. i - 1 \in 0 .. n /\ ~ (i < p) /\ i # p
      BY <1>0, <2>3
    <3> QED
      BY <1>0, <1>1, <3>1
  <2> QED
    BY <1>0, <2>1, <2>2, <2>3
<1> DEFINE A(i) == nm2[q2[i]]
           B(i) == nm[q[i]]
<1>3. \A i \in 0 .. n + 1 : A(i) = IF i < p THEN B(i) ELSE IF i = p THEN name ELSE B(i - 1)
  BY <1>2
<1>4. \A i \in 1 .. n : After(B(i), B(i - 1))
  BY <1>0 DEF Ascends
<1>5. After(name, B(p - 1)) /\ (p = n + 1 \/ After(B(p), name))
  BY <1>0
<1> HIDE DEF A, B
<1>6. ASSUME NEW i \in 1 .. n + 1 PROVE After(A(i), A(i - 1))
  <2>1. CASE i < p
    <3>1. i \in 0 .. n + 1 /\ i - 1 \in 0 .. n + 1 /\ i - 1 < p /\ i \in 1 .. n
      BY <1>0, <2>1
    <3> QED
      BY <1>3, <1>4, <2>1, <3>1
  <2>2. CASE i = p
    <3>1. i \in 0 .. n + 1 /\ i - 1 \in 0 .. n + 1 /\ i - 1 < p /\ ~ (i < p)
      BY <1>0, <2>2
    <3>2. A(i) = name /\ A(i - 1) = B(p - 1)
      BY <1>3, <2>2, <3>1
    <3> QED
      BY <1>5, <3>2
  <2>3. CASE i = p + 1
    <3>1. i \in 0 .. n + 1 /\ i - 1 \in 0 .. n + 1 /\ i - 1 = p /\ ~ (i < p) /\ i # p /\ ~ (i - 1 < p) /\ p # n + 1
      BY <1>0, <2>3
    <3>2. A(i) = B(p) /\ A(i - 1) = name
      BY <1>3, <3>1
    <3> QED
      BY <1>5, <3>1, <3>2
  <2>4. CASE i > p + 1
    <3>1. i \in 0 .. n + 1 /\ i - 1 \in 0 .. n + 1 /\ ~ (i < p) /\ i # p /\ ~ (i - 1 < p) /\ i - 1 # p
          /\ i - 1 \in 1 .. n
      BY <1>0, <2>4
    <3>2. A(i) = B(i - 1) /\ A(i - 1) = B((i - 1) - 1)
      BY <1>3, <3>1
    <3> QED
      BY <1>4, <3>1, <3>2
  <2> QED
    BY <1>0, <2>1, <2>2, <2>3, <2>4
<1>7. A(0) = B(0)
  <2>1. 0 \in 0 .. n + 1 /\ 0 < p
    BY <1>0
  <2> QED
    BY <1>3, <2>1
<1>8. ASSUME NEW i \in 1 .. n + 1 PROVE A(i) = name \/ \E j \in 1 .. n : A(i) = B(j)
  <2>1. i \in 0 .. n + 1 /\ (i < p => i \in 1 .. n) /\ (~ (i < p) /\ i # p => i - 1 \in 1 .. n)
    BY <1>0
  <2> QED
    BY <1>3, <2>1
<1>9. \E i \in 1 .. n + 1 : A(i) = name
  <2>1. p \in 1 .. n + 1 /\ p \in 0 .. n + 1 /\ ~ (p < p)
    BY <1>0
  <2> QED
    BY <1>3, <2>1
<1>10. ASSUME NEW j \in 1 .. n PROVE \E i \in 1 .. n + 1 : A(i) = B(j)
  <2>1. CASE j < p
    <3>1. j \in 1 .. n + 1 /\ j \in 0 .. n + 1
      BY <1>0
    <3> QED
      BY <1>3, <2>1, <3>1
  <2>2. CASE ~ (j < p)
    <3>1. j + 1 \in 1 .. n + 1 /\ j + 1 \in 0 .. n + 1 /\ ~ (j + 1 < p) /\ j + 1 # p /\ (j + 1) - 1 = j
      BY <1>0, <2>2
    <3>2. A(j + 1) = B(j)
      BY <1>3, <3>1
    <3> QED
      BY <3>1, <3>2
  <2> QED
    BY <2>1, <2>2
<1>11. p # n + 1 => A(n + 1) = B(n)
  <2> SUFFICES ASSUME p # n + 1 PROVE A(n + 1) = B(n)
    BY <1>0
  <2>1. n + 1 \in 0 .. n + 1 /\ ~ (n + 1 < p) /\ n + 1 # p /\ (n + 1) - 1 = n
    BY <1>0
  <2> QED
    BY <1>3, <2>1
<1>12. Ascends(nm2, q2, n + 1)
  BY <1>6 DEF A, Ascends
<1> QED
  BY <1>7, <1>8, <1>9, <1>10, <1>11, <1>12 DEF A, B, q2, Slotted

\* Names are sequences of characters, none empty.
LEMMA NamesAre ==
  /\ \A n \in Names \cup {<<>>} : n \in Seq(Nat)
  /\ \A n \in Names : n # <<>>
<1>1. \A n \in Names : n \in Seq(Nat) /\ n # <<>>
  BY ONLY SortDirAssumption, Zenon DEF SortDirAssumption
<1>2. <<>> \in Seq(Nat)
  OBVIOUS
<1> QED
  BY ONLY <1>1, <1>2, Zenon

\* An element stands on the lowest levels, as many as its CNID says.
LEMMA StandsOn ==
  ASSUME NEW cnid
  PROVE  /\ LevelsOf(cnid) \subseteq Levels /\ 0 \in LevelsOf(cnid) /\ 0 \in Levels
         /\ \A d \in Levels : d + 1 \in LevelsOf(cnid) => d \in LevelsOf(cnid)
<1>1. 0 \in Levels
  BY SortDirAssumption DEF Levels
<1> DEFINE One(k) == (cnid \div 2 ^ k) % 2 = 1
<1>2. LevelsOf(cnid) = {d \in Levels : \A k \in 1 .. d : One(k)}
  BY DEF LevelsOf
<1> HIDE DEF One
<1>3. \A d \in Levels : \A k \in 1 .. d : k \in 1 .. d + 1
  BY DEF Levels
<1> QED
  BY <1>1, <1>2, <1>3

\* The links of the empty list.
LEMMA EmptyLinks ==
  ASSUME NEW ignore, NEW d \in Levels
  PROVE  /\ Lefts(EmptyList(ignore), d) = [e \in Elems |-> IF e = Rightmost THEN Leftmost ELSE Null]
         /\ Rights(EmptyList(ignore), d) = [e \in Elems |-> IF e = Leftmost THEN Rightmost ELSE Null]
<1> DEFINE lk == [e \in Slots \cup {Leftmost, Rightmost} |-> [c \in Levels |->
               [l |-> IF e = Rightmost THEN Leftmost ELSE Null,
                r |-> IF e = Leftmost THEN Rightmost ELSE Null]]]
<1>1. EmptyList(ignore).link = lk
  BY DEF EmptyList
<1>2. \A e \in Elems : /\ lk[e][d].l = IF e = Rightmost THEN Leftmost ELSE Null
                       /\ lk[e][d].r = IF e = Leftmost THEN Rightmost ELSE Null
  BY DEF Elems
<1> HIDE DEF lk
<1> QED
  BY <1>1, <1>2 DEF Lefts, Rights

\* The empty list has the names that have been given, which are none (populate).
LEMMA EmptyOK ==
  ASSUME NEW ignore \in Names \cup {<<>>}
  PROVE  BoardOK(EmptyList(ignore), ignore, {})
<1> DEFINE b == EmptyList(ignore)
           q == [i \in 0 .. 0 + 1 |-> IF i = 0 THEN Leftmost ELSE Rightmost]
           R == [d \in Levels |-> {Rightmost}]
<1>1. b \in Boards /\ b.nlead = 0 /\ b.name[Leftmost] = ignore
  <2> DEFINE lk == [e \in Slots \cup {Leftmost, Rightmost} |-> [c \in Levels |->
               [l |-> IF e = Rightmost THEN Leftmost ELSE Null,
                r |-> IF e = Leftmost THEN Rightmost ELSE Null]]]
             nm == [e \in Slots \cup {Leftmost} |-> IF e = Leftmost THEN ignore ELSE <<>>]
  <2>1. lk \in [Elems -> [Levels -> [l : Links, r : Links]]]
    BY ElemsAre DEF Elems, Links
  <2>2. nm \in [Slots \cup {Leftmost} -> Names \cup {<<>>}] /\ nm[Leftmost] = ignore
    OBVIOUS
  <2>3. b = [link |-> lk, name |-> nm, nlead |-> 0, complete |-> TRUE, evicted |-> FALSE, wild |-> FALSE]
    BY DEF EmptyList
  <2>4. 0 \in 0 .. 2 ^ Power
    BY SortDirAssumption
  <2> HIDE DEF lk, nm, b
  <2> QED
    BY <2>1, <2>2, <2>3, <2>4 DEF Boards
<1>2. \A d \in Levels : /\ Lefts(b, d) = [e \in Elems |-> IF e = Rightmost THEN Leftmost ELSE Null]
                        /\ Rights(b, d) = [e \in Elems |-> IF e = Leftmost THEN Rightmost ELSE Null]
  BY EmptyLinks
<1> HIDE DEF b
<1>3. \A d \in Levels : LevelOK(Lefts(b, d), Rights(b, d), R[d])
  <2> SUFFICES ASSUME NEW d \in Levels PROVE LevelOK(Lefts(b, d), Rights(b, d), {Rightmost})
    OBVIOUS
  <2> DEFINE l == Lefts(b, d)
             r == Rights(b, d)
  <2>1. /\ l = [e \in Elems |-> IF e = Rightmost THEN Leftmost ELSE Null]
        /\ r = [e \in Elems |-> IF e = Leftmost THEN Rightmost ELSE Null]
    BY <1>2
  <2> HIDE DEF l, r
  <2>2. l \in [Elems -> Links] /\ r \in [Elems -> Links]
    BY <2>1, ElemsAre
  <2>3. \A x \in Elems : /\ l[x] = IF x = Rightmost THEN Leftmost ELSE Null
                         /\ r[x] = IF x = Leftmost THEN Rightmost ELSE Null
    BY <2>1
  <2>4. LevelOK(l, r, {Rightmost})
    BY <2>2, <2>3, ElemsAre DEF LevelOK
  <2> QED
    BY <2>4 DEF l, r
<1>4. 0 \in Levels
  BY StandsOn
<1>5. OrderOK(q, 0, Rights(b, 0)) /\ InList(q, 0) = {}
  <2>1. \A i \in 0 .. 0 : i = 0
    OBVIOUS
  <2>2. q \in [0 .. 0 + 1 -> Elems] /\ q[0] = Leftmost /\ q[0 + 1] = Rightmost
    BY ElemsAre
  <2>3. \A i, j \in 0 .. 0 + 1 : q[i] = q[j] => i = j
    BY ElemsAre
  <2>4. Rights(b, 0)[Leftmost] = Rightmost
    BY <1>2, <1>4, ElemsAre
  <2>5. InList(q, 0) = {}
    BY DEF InList
  <2> HIDE DEF q
  <2> QED
    BY <2>1, <2>2, <2>3, <2>4, <2>5 DEF OrderOK
<1>6. \A d \in Levels : R[d] \subseteq R[0] /\ (d + 1 \in Levels => R[d + 1] \subseteq R[d]) /\ R[0] = {Rightmost}
  BY <1>4
<1>7. R \in [Levels -> SUBSET Elems]
  BY ElemsAre
<1>8. \A e \in Slots, d \in Levels : Lefts(b, d)[e] = Null /\ Rights(b, d)[e] = Null
  BY <1>2, ElemsAre
<1> HIDE DEF q, R
<1>9. LinkedOK(b, q, 0, R)
  BY <1>3, <1>4, <1>5, <1>6, <1>7, <1>8 DEF LinkedOK
<1>10. NamesOK(b, q, 0, ignore, {})
  BY <1>1 DEF NamesOK
<1>11. BoardWith(b, ignore, {}, q, R)
  BY <1>1, <1>5, <1>9, <1>10 DEF BoardWith
<1> QED
  BY <1>1, <1>11 DEF BoardOK, b

\* Being linked is about the links alone.
LEMMA Relinked ==
  ASSUME NEW b, NEW c, NEW q, NEW n, NEW R, c.link = b.link, LinkedOK(b, q, n, R)
  PROVE  LinkedOK(c, q, n, R)
<1>1. \A d \in Levels : Lefts(c, d) = Lefts(b, d) /\ Rights(c, d) = Rights(b, d)
  BY DEF Lefts, Rights
<1>2. 0 \in Levels
  BY StandsOn
<1> QED
  BY <1>1, <1>2 DEF LinkedOK

\* What holds of any list of a pass.
LEMMA BoardFacts ==
  ASSUME NEW b \in Boards, NEW ignore, NEW S, NEW q, NEW R, BoardWith(b, ignore, S, q, R)
  PROVE  /\ b.nlead \in 0 .. 2 ^ Power /\ b.nlead \in Nat /\ 2 ^ Power \in Nat /\ 2 ^ Power # 0
         /\ LinkedOK(b, q, b.nlead, R) /\ InList(q, b.nlead) = 1 .. b.nlead
         /\ b.name[Leftmost] = ignore /\ Ascends(b.name, q, b.nlead)
         /\ \A i \in 1 .. b.nlead : b.name[q[i]] \in S
         /\ \A s \in S : After(s, ignore) =>
              \/ \E i \in 1 .. b.nlead : b.name[q[i]] = s
              \/ b.nlead = 2 ^ Power /\ After(s, b.name[q[b.nlead]]) /\ (b.evicted \/ ~ b.complete)
         /\ q[0] = Leftmost /\ q[b.nlead + 1] = Rightmost
         /\ OrderOK(q, b.nlead, Rights(b, 0)) /\ LevelOK(Lefts(b, 0), Rights(b, 0), R[0])
         /\ \A i \in 1 .. b.nlead : q[i] \in Slots
         /\ \A i, j \in 0 .. b.nlead + 1 : q[i] = q[j] => i = j
<1>1. b.nlead \in 0 .. 2 ^ Power /\ b.nlead \in Nat /\ 2 ^ Power \in Nat /\ 2 ^ Power # 0
  BY SortDirAssumption DEF Boards
<1>2. LinkedOK(b, q, b.nlead, R) /\ InList(q, b.nlead) = 1 .. b.nlead /\ NamesOK(b, q, b.nlead, ignore, S)
  BY DEF BoardWith
<1>3. OrderOK(q, b.nlead, Rights(b, 0)) /\ LevelOK(Lefts(b, 0), Rights(b, 0), R[0])
  BY <1>2, StandsOn DEF LinkedOK
<1>4. /\ q[0] = Leftmost /\ q[b.nlead + 1] = Rightmost
      /\ \A i, j \in 0 .. b.nlead + 1 : q[i] = q[j] => i = j
  BY <1>3 DEF OrderOK
<1>5. \A i \in 1 .. b.nlead : q[i] \in Slots
  BY <1>1, <1>3, ListIs
<1>6. /\ b.name[Leftmost] = ignore
      /\ \A i \in 1 .. b.nlead : After(b.name[q[i]], b.name[q[i - 1]])
      /\ \A i \in 1 .. b.nlead : b.name[q[i]] \in S
      /\ \A s \in S : After(s, ignore) =>
           \/ \E i \in 1 .. b.nlead : b.name[q[i]] = s
           \/ b.nlead = 2 ^ Power /\ After(s, b.name[q[b.nlead]]) /\ (b.evicted \/ ~ b.complete)
  BY <1>2 DEF NamesOK
<1> QED
  BY <1>1, <1>2, <1>3, <1>4, <1>5, <1>6 DEF Ascends

\* There is a free slot: the name is put in it, where it belongs.
LEMMA Put ==
  ASSUME NEW ignore \in Names \cup {<<>>}, NEW S \in SUBSET Names, NEW b \in Boards, NEW q, NEW R,
         BoardWith(b, ignore, S, q, R), NEW name \in Names \ S, NEW p \in 1 .. b.nlead + 1,
         After(name, b.name[q[p - 1]]), p = b.nlead + 1 \/ After(b.name[q[p]], name), b.nlead < 2 ^ Power
  PROVE  BoardOK(Place(b, name, q[p]), ignore, S \cup {name})
<1> DEFINE n == b.nlead
           el == n + 1
           b1 == [b EXCEPT !.nlead = el, !.name[el] = name]
           levels == LevelsOf(Id[name])
           c == SkipInsert(b1, q[p], el, levels)
           q2 == OrderWith(q, n, p, el)
           R2 == [d \in Levels |-> IF d \in levels /\ q[p] \in R[d] THEN R[d] \cup {el} ELSE R[d]]
<1>0. Place(b, name, q[p]) = c
  BY DEF Place
<1>1. /\ n \in Nat /\ LinkedOK(b, q, n, R) /\ InList(q, n) = 1 .. n /\ n + 1 \in 0 .. 2 ^ Power
      /\ b.name[Leftmost] = ignore /\ Ascends(b.name, q, n)
      /\ \A i \in 1 .. n : b.name[q[i]] \in S
      /\ \A s \in S : After(s, ignore) => \E i \in 1 .. n : b.name[q[i]] = s
      /\ q[0] = Leftmost /\ OrderOK(q, n, Rights(b, 0)) /\ \A i \in 1 .. n : q[i] \in Slots
  BY BoardFacts
<1>2. el \in Slots \ InList(q, n) /\ el \in Slots
  BY <1>1 DEF Slots
<1>3. b1 \in Boards /\ b1.link = b.link /\ b1.nlead = el /\ b1.name = [b.name EXCEPT ![el] = name]
      /\ DOMAIN b.name = Slots \cup {Leftmost}
  <2>1. b.name \in [Slots \cup {Leftmost} -> Names \cup {<<>>}]
    BY DEF Boards
  <2>2. [b.name EXCEPT ![el] = name] \in [Slots \cup {Leftmost} -> Names \cup {<<>>}]
    BY <1>2, <2>1
  <2> HIDE DEF el, n
  <2> QED
    BY <1>1, <1>2, <2>1, <2>2 DEF Boards, n, el
<1>4. LinkedOK(b1, q, n, R)
  BY <1>1, <1>3, Relinked
<1>5. levels \in SUBSET Levels /\ 0 \in levels /\ \A d \in Levels : d + 1 \in levels => d \in levels
  BY StandsOn
<1>6. \A i \in 1 .. n + 1 : q[i] \in Elems
  BY <1>1, ListIs
<1> HIDE DEF b1, c, levels, q2, R2, el, n
<1>7. LinkedOK(c, q2, n + 1, R2) /\ InList(q2, n + 1) = InList(q, n) \cup {el}
  <2>1. p \in 1 .. n + 1
    BY DEF n
  <2>2. b1 \in Boards /\ n \in Nat /\ LinkedOK(b1, q, n, R) /\ el \in Slots \ InList(q, n)
    BY <1>1, <1>2, <1>3, <1>4
  <2> DEFINE q3 == OrderWith(q, n, p, el)
  <2>3. LinkedOK(c, q3, n + 1, R2) /\ InList(q3, n + 1) = InList(q, n) \cup {el}
    BY <1>5, <2>1, <2>2, InsertLinked DEF c, R2
  <2> QED
    BY <2>3 DEF q2
<1>8. c \in Boards /\ c.name = b1.name /\ c.nlead = el
  <2>1. q[p] \in Elems
    BY <1>6 DEF n
  <2>2. c \in Boards /\ c.name = b1.name /\ c.nlead = b1.nlead
    BY <1>2, <1>3, <1>5, <2>1, InsertLinks DEF c
  <2> QED
    BY <1>3, <2>2
<1>9. c.name[el] = name /\ \A i \in 0 .. n : c.name[q[i]] = b.name[q[i]]
  <2>1. c.name = [b.name EXCEPT ![el] = name] /\ el \in DOMAIN b.name
    BY <1>2, <1>3, <1>8
  <2>2. ASSUME NEW i \in 0 .. n PROVE q[i] # el /\ q[i] \in DOMAIN b.name
    <3>1. CASE i = 0
      BY <1>1, <1>2, <1>3, <3>1, ElemsAre
    <3>2. CASE i # 0
      <4>1. i \in 1 .. n
        BY <1>1, <3>2
      <4>2. q[i] \in InList(q, n) /\ q[i] \in Slots
        BY <1>1, <4>1, ListIs
      <4> QED
        BY <1>2, <1>3, <4>2
    <3> QED
      BY <3>1, <3>2
  <2> QED
    BY <2>1, <2>2
<1>10. /\ Ascends(c.name, q2, n + 1) /\ c.name[q2[0]] = b.name[q[0]]
       /\ \A i \in 1 .. n + 1 : c.name[q2[i]] = name \/ \E j \in 1 .. n : c.name[q2[i]] = b.name[q[j]]
       /\ \E i \in 1 .. n + 1 : c.name[q2[i]] = name
       /\ \A j \in 1 .. n : \E i \in 1 .. n + 1 : c.name[q2[i]] = b.name[q[j]]
  <2>1. p \in 1 .. n + 1 /\ After(name, b.name[q[p - 1]]) /\ (p = n + 1 \/ After(b.name[q[p]], name))
    BY DEF n
  <2> DEFINE nm == b.name
             nm2 == c.name
  <2>2. Fits(nm, nm2, q, n, p, el, name)
    BY <1>1, <1>9, <2>1 DEF Fits
  <2> HIDE DEF nm, nm2
  <2>3. Slotted(nm, nm2, q, OrderWith(q, n, p, el), n, p, name)
    BY <1>1, <2>2, AscendInsert
  <2> QED
    BY <2>3 DEF nm, nm2, q2, Slotted
<1>11. c.name[Leftmost] = ignore
  <2>1. 0 \in 0 .. n
    BY <1>1
  <2> QED
    BY <1>1, <1>9, <2>1
<1>12. NamesOK(c, q2, n + 1, ignore, S \cup {name})
  <2>1. \A i \in 1 .. n + 1 : c.name[q2[i]] \in S \cup {name}
    BY <1>1, <1>10
  <2>2. \A s \in S \cup {name} : After(s, ignore) => \E i \in 1 .. n + 1 : c.name[q2[i]] = s
    <3> SUFFICES ASSUME NEW s \in S \cup {name}, After(s, ignore) PROVE \E i \in 1 .. n + 1 : c.name[q2[i]] = s
      OBVIOUS
    <3>1. CASE s = name
      BY <1>10, <3>1
    <3>2. CASE s # name
      <4>1. PICK j \in 1 .. n : b.name[q[j]] = s
        BY <1>1, <3>2
      <4> QED
        BY <1>10, <4>1
    <3> QED
      BY <3>1, <3>2
  <2> QED
    BY <1>10, <1>11, <2>1, <2>2 DEF NamesOK, Ascends
<1>13. InList(q2, n + 1) = 1 .. n + 1 /\ c.nlead = n + 1
  <2>1. (1 .. n) \cup {n + 1} = 1 .. n + 1
    BY <1>1
  <2> QED
    BY <1>1, <1>7, <1>8, <2>1 DEF el
<1>14. BoardWith(c, ignore, S \cup {name}, q2, R2)
  BY <1>7, <1>12, <1>13 DEF BoardWith
<1> QED
  BY <1>0, <1>8, <1>14 DEF BoardOK

\* The list is full of lower names: the name is dropped, and the list known not
\* to be complete.
LEMMA Full ==
  ASSUME NEW ignore \in Names \cup {<<>>}, NEW S \in SUBSET Names, NEW b \in Boards, NEW q, NEW R,
         BoardWith(b, ignore, S, q, R), NEW name \in Names \ S,
         After(name, b.name[q[b.nlead]]), b.nlead = 2 ^ Power
  PROVE  BoardOK(Place(b, name, Rightmost), ignore, S \cup {name})
<1> DEFINE n == b.nlead
           c == [b EXCEPT !.complete = FALSE]
<1>1. c \in Boards /\ c.link = b.link /\ c.name = b.name /\ c.nlead = n /\ ~ c.complete
  BY DEF Boards
<1>2. Place(b, name, Rightmost) = c
  BY SortDirAssumption DEF Place
<1> HIDE DEF c
<1>3. /\ LinkedOK(b, q, n, R) /\ InList(q, n) = 1 .. n /\ b.name[Leftmost] = ignore /\ Ascends(b.name, q, n)
      /\ \A i \in 1 .. n : b.name[q[i]] \in S
      /\ \A s \in S : After(s, ignore) =>
           \/ \E i \in 1 .. n : b.name[q[i]] = s
           \/ n = 2 ^ Power /\ After(s, b.name[q[n]]) /\ (b.evicted \/ ~ b.complete)
  BY BoardFacts
<1>4. LinkedOK(c, q, n, R)
  BY <1>1, <1>3, Relinked
<1>5. NamesOK(c, q, n, ignore, S \cup {name})
  <2>1. \A i \in 1 .. n : c.name[q[i]] \in S \cup {name} /\ After(c.name[q[i]], c.name[q[i - 1]])
    BY <1>1, <1>3 DEF Ascends
  <2>2. \A s \in S \cup {name} : After(s, ignore) =>
           \/ \E i \in 1 .. n : c.name[q[i]] = s
           \/ n = 2 ^ Power /\ After(s, c.name[q[n]]) /\ (c.evicted \/ ~ c.complete)
    BY <1>1, <1>3
  <2> QED
    BY <1>1, <1>3, <2>1, <2>2 DEF NamesOK
<1>6. BoardWith(c, ignore, S \cup {name}, q, R)
  BY <1>1, <1>3, <1>4, <1>5 DEF BoardWith
<1> QED
  BY <1>1, <1>2, <1>6 DEF BoardOK

\* The last of a full list makes way for a name before it.
Renamed(b, el, name) == [b EXCEPT !.name[el] = name, !.evicted = TRUE]
\* What the list is without it.
Spared(b, q, n, R, ignore, name, c) ==
  /\ c \in Boards /\ c.link = b.link /\ c.nlead = b.nlead /\ c.evicted = TRUE /\ c.name[q[n]] = name
  /\ \A i \in 0 .. n - 1 : c.name[q[i]] = b.name[q[i]] /\ q[i] # q[n]
  /\ LinkedOK(c, q, n, R) /\ q[n] \in Slots /\ b.link[Rightmost][0].l = q[n]
  /\ c.name[Leftmost] = ignore

\* The last of a full list goes, and what is left is the list of the others.
LEMMA Evict ==
  ASSUME NEW ignore \in Names \cup {<<>>}, NEW S \in SUBSET Names, NEW b \in Boards, NEW q, NEW R,
         BoardWith(b, ignore, S, q, R), b.nlead = 2 ^ Power, NEW name \in Names
  PROVE  Spared(b, q, b.nlead, R, ignore, name, Renamed(b, q[b.nlead], name))
<1> DEFINE n == b.nlead
           el == q[n]
           c == Renamed(b, el, name)
<1>1. /\ n \in Nat /\ n # 0 /\ LinkedOK(b, q, n, R) /\ q[0] = Leftmost /\ q[n + 1] = Rightmost
      /\ \A i \in 1 .. n : q[i] \in Slots
      /\ \A i, j \in 0 .. n + 1 : q[i] = q[j] => i = j
      /\ OrderOK(q, n, Rights(b, 0)) /\ LevelOK(Lefts(b, 0), Rights(b, 0), R[0]) /\ b.name[Leftmost] = ignore
  BY BoardFacts
<1>2. el \in Slots
  BY <1>1
<1>3. b.name \in [Slots \cup {Leftmost} -> Names \cup {<<>>}]
  BY DEF Boards
<1>4. /\ c \in Boards /\ c.link = b.link /\ c.nlead = b.nlead /\ c.evicted = TRUE
      /\ c.name = [b.name EXCEPT ![el] = name]
  <2> DEFINE nm == [b.name EXCEPT ![el] = name]
  <2>1. nm \in [Slots \cup {Leftmost} -> Names \cup {<<>>}]
    BY <1>2, <1>3
  <2>2. c = [b EXCEPT !.name = nm, !.evicted = TRUE]
    BY DEF Renamed
  <2> HIDE DEF nm, el, c
  <2>3. c \in Boards /\ c.link = b.link /\ c.nlead = b.nlead /\ c.evicted = TRUE /\ c.name = nm
    BY <2>1, <2>2 DEF Boards
  <2> QED
    BY <2>3 DEF nm
<1> HIDE DEF c
<1>5. c.name[el] = name
  BY <1>2, <1>3, <1>4
<1>6. ASSUME NEW i \in 0 .. n - 1 PROVE c.name[q[i]] = b.name[q[i]] /\ q[i] # el
  <2>1. i \in 0 .. n + 1 /\ n \in 0 .. n + 1 /\ i # n
    BY <1>1
  <2>2. q[i] # el
    BY <1>1, <2>1
  <2>3. q[i] \in Slots \cup {Leftmost}
    <3>1. i = 0 \/ i \in 1 .. n
      BY <1>1
    <3> QED
      BY <1>1, <3>1
  <2> QED
    BY <1>3, <1>4, <2>2, <2>3
<1>7. LinkedOK(c, q, n, R)
  BY <1>1, <1>4, Relinked
<1>8. b.link[Rightmost][0].l = el
  <2>1. n \in 0 .. n /\ el \in Elems /\ Rightmost \in Elems
    BY <1>1, <1>2, ElemsAre
  <2>2. Rights(b, 0)[el] = Rightmost
    BY <1>1, <2>1 DEF OrderOK
  <2>3. Lefts(b, 0)[Rightmost] = el
    BY <1>1, <2>1, <2>2 DEF LevelOK
  <2> QED
    BY <2>1, <2>3 DEF Lefts
<1>9. c.name[Leftmost] = ignore
  BY <1>1, <1>2, <1>3, <1>4, ElemsAre
<1> QED
  BY <1>2, <1>4, <1>5, <1>6, <1>7, <1>8, <1>9 DEF Spared, c

\* The name comes to be the last of a full list, in the slot of the one before
\* it.
LEMMA ReplaceLast ==
  ASSUME NEW ignore \in Names \cup {<<>>}, NEW S \in SUBSET Names, NEW b \in Boards, NEW q, NEW R,
         BoardWith(b, ignore, S, q, R), NEW name \in Names \ S, b.nlead = 2 ^ Power,
         After(name, b.name[q[b.nlead - 1]]), After(b.name[q[b.nlead]], name)
  PROVE  BoardOK(Place(b, name, q[b.nlead]), ignore, S \cup {name})
<1> DEFINE n == b.nlead
           c == Renamed(b, q[n], name)
<1>1. /\ c \in Boards /\ c.nlead = n /\ c.evicted = TRUE /\ c.name[q[n]] = name
      /\ \A i \in 0 .. n - 1 : c.name[q[i]] = b.name[q[i]]
      /\ LinkedOK(c, q, n, R) /\ q[n] \in Slots /\ b.link[Rightmost][0].l = q[n] /\ c.name[Leftmost] = ignore
  <2>1. Spared(b, q, n, R, ignore, name, c)
    BY Evict
  <2> QED
    BY <2>1 DEF Spared
<1>2. Place(b, name, q[n]) = c
  BY <1>1, SortDirAssumption, ElemsAre DEF Place, Renamed
<1>3. /\ n \in Nat /\ n # 0 /\ InList(q, n) = 1 .. n /\ Ascends(b.name, q, n)
      /\ \A i \in 1 .. n : b.name[q[i]] \in S
      /\ \A s \in S : After(s, ignore) =>
           \/ \E i \in 1 .. n : b.name[q[i]] = s
           \/ After(s, b.name[q[n]])
  BY BoardFacts
<1> HIDE DEF c
<1>4. NamesOK(c, q, n, ignore, S \cup {name})
  <2>1. ASSUME NEW i \in 1 .. n PROVE c.name[q[i]] \in S \cup {name} /\ After(c.name[q[i]], c.name[q[i - 1]])
    <3>1. CASE i = n
      <4>1. n - 1 \in 0 .. n - 1
        BY <1>3
      <4> QED
        BY <1>1, <3>1, <4>1
    <3>2. CASE i # n
      <4>1. i \in 0 .. n - 1 /\ i - 1 \in 0 .. n - 1
        BY <1>3, <3>2
      <4> QED
        BY <1>1, <1>3, <4>1 DEF Ascends
    <3> QED
      BY <3>1, <3>2
  <2>2. ASSUME NEW s \in S \cup {name}, After(s, ignore)
        PROVE  (\E i \in 1 .. n : c.name[q[i]] = s) \/ After(s, c.name[q[n]])
    <3>1. n \in 1 .. n
      BY <1>3
    <3>2. CASE s = name
      BY <1>1, <3>1, <3>2
    <3>3. ASSUME NEW i \in 1 .. n, s = b.name[q[i]] PROVE (\E k \in 1 .. n : c.name[q[k]] = s) \/ After(s, c.name[q[n]])
      <4>1. CASE i = n
        BY <1>1, <3>3, <4>1
      <4>2. CASE i # n
        <5>1. i \in 0 .. n - 1
          BY <1>3, <4>2
        <5> QED
          BY <1>1, <3>3, <5>1
      <4> QED
        BY <4>1, <4>2
    <3>4. ASSUME s \in S, After(s, b.name[q[n]]) PROVE After(s, name)
      <4>1. s \in Names /\ b.name[q[n]] \in Names /\ name \in Names
        BY <1>3, <3>1, <3>4
      <4>2. s \in Seq(Nat) /\ b.name[q[n]] \in Seq(Nat) /\ name \in Seq(Nat)
        BY <4>1, NamesAre
      <4> QED
        BY <3>4, <4>2, AfterTransitive
    <3> QED
      BY <1>1, <1>3, <2>2, <3>2, <3>3, <3>4
  <2> QED
    BY <1>1, <2>1, <2>2 DEF NamesOK
<1>5. BoardWith(c, ignore, S \cup {name}, q, R)
  BY <1>1, <1>3, <1>4 DEF BoardWith
<1> QED
  BY <1>1, <1>2, <1>5 DEF BoardOK

\* The name goes into the middle of a full list, in the slot of the last.
LEMMA ReplaceBefore ==
  ASSUME NEW ignore \in Names \cup {<<>>}, NEW S \in SUBSET Names, NEW b \in Boards, NEW q, NEW R,
         BoardWith(b, ignore, S, q, R), NEW name \in Names \ S, b.nlead = 2 ^ Power,
         NEW p \in 1 .. b.nlead - 1, After(name, b.name[q[p - 1]]), After(b.name[q[p]], name)
  PROVE  BoardOK(Place(b, name, q[p]), ignore, S \cup {name})
<1> DEFINE n == b.nlead
           m == n - 1
           el == q[n]
           c0 == Renamed(b, el, name)
           d0 == SkipDelete(c0, el)
           levels == LevelsOf(Id[name])
           c == SkipInsert(d0, q[p], el, levels)
           ql == OrderLess(q, n)
           q2 == OrderWith(ql, m, p, el)
           R1 == [d \in Levels |-> R[d] \ {el}]
           R2 == [d \in Levels |-> IF d \in levels /\ ql[p] \in R1[d] THEN R1[d] \cup {el} ELSE R1[d]]
<1>1. /\ c0 \in Boards /\ c0.nlead = n /\ c0.evicted = TRUE /\ c0.name[el] = name
      /\ \A i \in 0 .. n - 1 : c0.name[q[i]] = b.name[q[i]] /\ q[i] # el
      /\ LinkedOK(c0, q, n, R) /\ el \in Slots /\ b.link[Rightmost][0].l = el /\ c0.name[Leftmost] = ignore
  <2>1. Spared(b, q, n, R, ignore, name, c0)
    BY Evict
  <2> QED
    BY <2>1 DEF Spared
<1>2. /\ n \in Nat /\ n # 0 /\ InList(q, n) = 1 .. n /\ Ascends(b.name, q, n) /\ q[0] = Leftmost
      /\ \A i \in 1 .. n : b.name[q[i]] \in S
      /\ \A s \in S : After(s, ignore) =>
           \/ \E i \in 1 .. n : b.name[q[i]] = s
           \/ After(s, b.name[q[n]])
      /\ \A i \in 1 .. n : q[i] \in Slots
  BY BoardFacts
<1>3. Place(b, name, q[p]) = c
  <2>1. q[p] # el /\ q[p] # Rightmost
    <3>1. p \in 0 .. n - 1 /\ p \in 1 .. n
      BY <1>2
    <3> QED
      BY <1>1, <1>2, <3>1, ElemsAre
  <2> QED
    BY <1>1, <2>1, SortDirAssumption, ElemsAre DEF Place, Renamed
<1> HIDE DEF c0
<1>4. /\ m \in Nat /\ n = m + 1 /\ p \in 1 .. m /\ p \in 1 .. m + 1
      /\ \A i \in 0 .. m : ql[i] = q[i]
  BY <1>2 DEF OrderLess
<1>5. /\ LinkedOK(d0, ql, m, R1) /\ InList(ql, m) = InList(q, n) \ {el}
      /\ d0 \in Boards /\ d0.name = c0.name /\ d0.nlead = n /\ d0.evicted = TRUE
  <2>1. LinkedOK(d0, ql, m, R1) /\ InList(ql, m) = InList(q, n) \ {el}
    BY <1>1, <1>2, DeleteLinked
  <2>2. d0 \in Boards /\ d0.name = c0.name /\ d0.nlead = c0.nlead /\ d0.evicted = c0.evicted
    <3> HIDE DEF el, d0
    <3> QED
      BY <1>1, DeleteLinks DEF d0
  <2> QED
    BY <1>1, <2>1, <2>2
<1>6. levels \in SUBSET Levels /\ 0 \in levels /\ \A d \in Levels : d + 1 \in levels => d \in levels
  BY StandsOn
<1>7. q[p] \in Elems /\ ql[p] = q[p] /\ n \in 1 .. n
  BY <1>2, <1>4, ElemsAre
<1> HIDE DEF d0, levels, ql, m, n, el, R1
<1>8. LinkedOK(c, q2, m + 1, R2) /\ InList(q2, m + 1) = InList(ql, m) \cup {el}
  <2>1. c = SkipInsert(d0, ql[p], el, levels) /\ el \in Slots \ InList(ql, m)
    BY <1>1, <1>5, <1>7
  <2> HIDE DEF c, R2, q2
  <2> DEFINE q3 == OrderWith(ql, m, p, el)
  <2>2. R2 = [d \in Levels |-> IF d \in levels /\ ql[p] \in R1[d] THEN R1[d] \cup {el} ELSE R1[d]]
    BY DEF R2
  <2>3. LinkedOK(c, q3, m + 1, R2) /\ InList(q3, m + 1) = InList(ql, m) \cup {el}
    BY <1>4, <1>5, <1>6, <2>1, <2>2, InsertLinked
  <2> QED
    BY <2>3 DEF q2
<1>9. c \in Boards /\ c.name = c0.name /\ c.nlead = n /\ c.evicted = TRUE
  <2> HIDE DEF c
  <2>1. c \in Boards /\ c.name = d0.name /\ c.nlead = d0.nlead /\ c.evicted = d0.evicted
    BY <1>1, <1>5, <1>6, <1>7, InsertLinks DEF c
  <2> QED
    BY <1>5, <2>1
<1> HIDE DEF c, R2
<1>10. /\ c.name[el] = name /\ \A i \in 0 .. m : c.name[ql[i]] = b.name[ql[i]]
       /\ c.name[Leftmost] = ignore
  BY <1>1, <1>4, <1>9 DEF m
<1>11. Slotted(b.name, c.name, ql, q2, m, p, name)
  <2> DEFINE nm == b.name
             nm2 == c.name
  <2>1. Ascends(nm, ql, m)
    <3> SUFFICES ASSUME NEW i \in 1 .. m PROVE After(nm[ql[i]], nm[ql[i - 1]])
      BY DEF Ascends
    <3>1. i \in 1 .. n /\ i \in 0 .. m /\ i - 1 \in 0 .. m
      BY <1>4
    <3> QED
      BY <1>2, <1>4, <3>1 DEF Ascends
  <2>2. ql[p - 1] = q[p - 1] /\ ql[p] = q[p]
    BY <1>4
  <2>3. Fits(nm, nm2, ql, m, p, el, name)
    BY <1>4, <1>10, <2>1, <2>2 DEF Fits
  <2> HIDE DEF nm, nm2
  <2>4. Slotted(nm, nm2, ql, OrderWith(ql, m, p, el), m, p, name)
    BY <1>4, <2>3, AscendInsert
  <2> QED
    BY <2>4 DEF nm, nm2, q2
<1> HIDE DEF q2
<1>12. NamesOK(c, q2, n, ignore, S \cup {name})
  <2>0. /\ Ascends(c.name, q2, n) /\ c.name[q2[0]] = b.name[ql[0]]
        /\ \A i \in 1 .. n : c.name[q2[i]] = name \/ \E j \in 1 .. m : c.name[q2[i]] = b.name[ql[j]]
        /\ \E i \in 1 .. n : c.name[q2[i]] = name
        /\ \A j \in 1 .. m : \E i \in 1 .. n : c.name[q2[i]] = b.name[ql[j]]
        /\ c.name[q2[n]] = b.name[ql[m]]
    <3>1. p # m + 1
      BY <1>4
    <3> QED
      BY <1>4, <1>11, <3>1 DEF Slotted
  <2>1. \A i \in 1 .. n : c.name[q2[i]] \in S \cup {name}
    <3>1. \A j \in 1 .. m : j \in 1 .. n /\ j \in 0 .. m
      BY <1>4
    <3>2. \A j \in 1 .. m : b.name[ql[j]] \in S
      BY <1>2, <1>4, <3>1
    <3> QED
      BY <2>0, <3>2
  <2>2. ASSUME NEW s \in S \cup {name}, After(s, ignore)
        PROVE  (\E i \in 1 .. n : c.name[q2[i]] = s) \/ After(s, c.name[q2[n]])
    <3>1. After(b.name[q[n]], c.name[q2[n]])
      <4>1. ql[m] = q[m] /\ m = n - 1 /\ m \in 0 .. m
        BY <1>4
      <4> QED
        BY <1>2, <1>7, <2>0, <4>1 DEF Ascends
    <3>2. CASE s = name
      BY <2>0, <3>2
    <3>3. ASSUME NEW i \in 1 .. n, s = b.name[q[i]]
          PROVE (\E k \in 1 .. n : c.name[q2[k]] = s) \/ After(s, c.name[q2[n]])
      <4>1. CASE i = n
        BY <3>1, <3>3, <4>1
      <4>2. CASE i # n
        <5>1. i \in 1 .. m /\ i \in 0 .. m
          BY <1>4, <4>2
        <5>2. s = b.name[ql[i]]
          BY <1>4, <3>3, <5>1
        <5> QED
          BY <2>0, <5>1, <5>2
      <4> QED
        BY <4>1, <4>2
    <3>4. ASSUME s \in S, After(s, b.name[q[n]]) PROVE After(s, c.name[q2[n]])
      <4>1. n \in 1 .. n /\ m \in 1 .. n /\ m \in 0 .. m
        BY <1>4
      <4>2. s \in Names /\ b.name[q[n]] \in Names /\ c.name[q2[n]] \in Names
        BY <1>2, <1>4, <2>0, <3>4, <4>1
      <4>3. s \in Seq(Nat) /\ b.name[q[n]] \in Seq(Nat) /\ c.name[q2[n]] \in Seq(Nat)
        BY <4>2, NamesAre
      <4> QED
        BY <3>1, <3>4, <4>3, AfterTransitive
    <3> QED
      BY <1>2, <2>2, <3>2, <3>3, <3>4
  <2>3. n = 2 ^ Power
    BY DEF n
  <2> QED
    BY <1>9, <1>10, <2>0, <2>1, <2>2, <2>3 DEF NamesOK, Ascends
<1>13. LinkedOK(c, q2, n, R2) /\ InList(q2, n) = 1 .. n
  <2>1. el \in InList(q, n)
    BY <1>2, <1>7 DEF el, InList
  <2> QED
    BY <1>2, <1>4, <1>5, <1>8, <2>1
<1>14. BoardWith(c, ignore, S \cup {name}, q2, R2)
  BY <1>9, <1>12, <1>13 DEF BoardWith
<1> QED
  BY <1>3, <1>9, <1>14 DEF BoardOK

-----------------------------------------------------------------------------
(***************************************************************************)
(* What a pass gathers, whatever the order it is given the names in.       *)
(***************************************************************************)

\* Given one more name, the list has the lowest of all those given, in order
\* (insertIntoLeaderboard).
LEMMA LeaderKeeps ==
  ASSUME NEW ignore \in Names \cup {<<>>}, NEW S \in SUBSET Names, NEW b, BoardOK(b, ignore, S), NEW name \in Names \ S
  PROVE  BoardOK(Leader(b, name), ignore, S \cup {name})
<1>1. PICK q, R : BoardWith(b, ignore, S, q, R)
  BY DEF BoardOK
<1>2. b \in Boards
  BY DEF BoardOK
<1> DEFINE n == b.nlead
<1>3. /\ n \in 0 .. 2 ^ Power /\ n \in Nat /\ 2 ^ Power \in Nat /\ 2 ^ Power # 0 /\ LinkedOK(b, q, n, R)
      /\ InList(q, n) = 1 .. n /\ b.name[Leftmost] = ignore /\ Ascends(b.name, q, n)
      /\ \A i \in 1 .. n : b.name[q[i]] \in S
      /\ q[0] = Leftmost /\ q[n + 1] = Rightmost
  BY <1>1, <1>2, BoardFacts
<1>4. Belongs(b, q, n, name, Search(b, name))
  BY <1>3, SearchIs
<1> DEFINE e == Search(b, name)
<1>5. Leader(b, name) = IF e = Leftmost THEN b ELSE Place(b, name, e)
  BY DEF Leader
<1> HIDE DEF e
<1>6. CASE e = Leftmost /\ ~ After(name, b.name[Leftmost])
  <2>1. NamesOK(b, q, n, ignore, S)
    BY <1>1 DEF BoardWith
  <2>2. NamesOK(b, q, n, ignore, S \cup {name})
    BY <1>3, <1>6, <2>1 DEF NamesOK
  <2>3. BoardWith(b, ignore, S \cup {name}, q, R)
    BY <1>3, <2>2 DEF BoardWith
  <2> QED
    BY <1>2, <1>5, <1>6, <2>3 DEF BoardOK
<1>7. ASSUME NEW p \in 1 .. n + 1, e = q[p], After(name, b.name[q[p - 1]]), p = n + 1 \/ ~ After(name, b.name[q[p]])
      PROVE  BoardOK(Leader(b, name), ignore, S \cup {name})
  <2>1. e # Leftmost
    <3>1. OrderOK(q, n, Rights(b, 0))
      BY <1>3 DEF LinkedOK
    <3> QED
      BY <1>3, <1>7, <3>1, ListIs
  <2>2. Leader(b, name) = Place(b, name, q[p])
    BY <1>5, <1>7, <2>1
  <2>3. p = n + 1 \/ After(b.name[q[p]], name)
    <3> SUFFICES ASSUME p # n + 1 PROVE After(b.name[q[p]], name)
      OBVIOUS
    <3>1. b.name[q[p]] \in S
      <4>1. p \in 1 .. n
        BY <1>3
      <4> QED
        BY <1>3, <4>1
    <3>2. b.name[q[p]] \in Seq(Nat) /\ name \in Seq(Nat) /\ name # b.name[q[p]]
      BY <3>1, NamesAre
    <3>3. ~ After(name, b.name[q[p]])
      BY <1>7
    <3> QED
      BY <3>2, <3>3, AfterTotal
  <2>4. CASE n < 2 ^ Power
    <3>1. p \in 1 .. b.nlead + 1 /\ (p = b.nlead + 1 \/ After(b.name[q[p]], name)) /\ b.nlead < 2 ^ Power
      BY <2>3, <2>4
    <3>2. After(name, b.name[q[p - 1]])
      BY <1>7
    <3>3. BoardOK(Place(b, name, q[p]), ignore, S \cup {name})
      BY ONLY <1>1, <1>2, <3>1, <3>2, Put, ignore \in Names \cup {<<>>}, S \in SUBSET Names, name \in Names \ S
    <3> QED
      BY <2>2, <3>3
  <2>5. CASE n = 2 ^ Power /\ p = n + 1
    <3>1. p - 1 = n
      BY <1>3, <2>5
    <3> QED
      BY <1>1, <1>2, <1>3, <1>7, <2>2, <2>5, <3>1, Full
  <2>6. CASE n = 2 ^ Power /\ p = n
    <3>1. p # n + 1
      BY <1>3, <2>6
    <3> QED
      <4>1. After(name, b.name[q[b.nlead - 1]]) /\ After(b.name[q[b.nlead]], name) /\ b.nlead = 2 ^ Power
        BY <1>7, <2>3, <2>6, <3>1
      <4>2. BoardOK(Place(b, name, q[b.nlead]), ignore, S \cup {name})
        BY ONLY <1>1, <1>2, <4>1, ReplaceLast, ignore \in Names \cup {<<>>}, S \in SUBSET Names, name \in Names \ S
      <4> QED
        BY <2>2, <2>6, <4>2
  <2>7. CASE n = 2 ^ Power /\ p # n /\ p # n + 1
    <3>1. p \in 1 .. n - 1
      BY <1>3, <2>7
    <3> QED
      <4>1. /\ p \in 1 .. b.nlead - 1 /\ b.nlead = 2 ^ Power
            /\ After(name, b.name[q[p - 1]]) /\ After(b.name[q[p]], name)
        BY <1>7, <2>3, <2>7, <3>1
      <4>2. BoardOK(Place(b, name, q[p]), ignore, S \cup {name})
        BY ONLY <1>1, <1>2, <4>1, ReplaceBefore, ignore \in Names \cup {<<>>}, S \in SUBSET Names, name \in Names \ S
      <4> QED
        BY <2>2, <4>2
  <2> QED
    BY <1>3, <2>4, <2>5, <2>6, <2>7
<1> QED
  BY <1>4, <1>6, <1>7 DEF Belongs, e

\* The page of a board: the names of its list in order.
Page(b, q) == [k \in 1 .. b.nlead |-> b.name[q[k]]]

\* Going right from the leftmost element on the lowest level meets the names in
\* order.
LEMMA AscendingIs ==
  ASSUME NEW ignore, NEW S, NEW b \in Boards, NEW q, NEW R, BoardWith(b, ignore, S, q, R)
  PROVE  Ascending(b) = Page(b, q)
<1> DEFINE n == b.nlead
           Body(g, k) == IF k = 0 THEN Leftmost ELSE b.link[g[k - 1]][0].r
           el == CHOOSE g : g = [k \in 0 .. n |-> Body(g, k)]
           f == [k \in 0 .. n |-> q[k]]
<1>1. n \in Nat /\ OrderOK(q, n, Rights(b, 0))
  BY BoardFacts
<1>2. /\ q[0] = Leftmost /\ \A i \in 0 .. n : Rights(b, 0)[q[i]] = q[i + 1]
      /\ q \in [0 .. n + 1 -> Elems]
  BY <1>1 DEF OrderOK
<1>3. \A k \in 1 .. n : b.link[q[k - 1]][0].r = q[k]
  <2> SUFFICES ASSUME NEW k \in 1 .. n PROVE b.link[q[k - 1]][0].r = q[k]
    OBVIOUS
  <2>1. k - 1 \in 0 .. n /\ k - 1 \in 0 .. n + 1 /\ (k - 1) + 1 = k
    BY <1>1
  <2>2. q[k - 1] \in Elems /\ Rights(b, 0)[q[k - 1]] = q[k]
    BY <1>2, <2>1
  <2> QED
    BY <2>2 DEF Rights
<1> HIDE DEF n
<1>4. f = [k \in 0 .. n |-> Body(f, k)]
  <2>1. ASSUME NEW k \in 0 .. n PROVE f[k] = Body(f, k)
    <3>1. CASE k = 0
      BY <1>2, <3>1
    <3>2. CASE k # 0
      <4>1. k \in 1 .. n /\ k - 1 \in 0 .. n
        BY <1>1, <3>2
      <4> QED
        BY <1>3, <3>2, <4>1
    <3> QED
      BY <3>1, <3>2
  <2> HIDE DEF Body
  <2> QED
    BY <2>1
<1>5. el = [k \in 0 .. n |-> Body(el, k)]
  <2> HIDE DEF Body, f
  <2> QED
    BY <1>4
<1>6. Ascending(b) = [k \in 1 .. n |-> b.name[el[k]]]
  BY DEF Ascending, n
<1> HIDE DEF el
<1>7. \A k \in 0 .. n : el[k] = Body(el, k)
  <2> HIDE DEF Body
  <2> QED
    BY <1>5
<1> DEFINE P == {k \in 0 .. n : el[k] = q[k]}
<1>8. \A k \in 0 .. n : k \in P
  <2>1. 0 \in P
    BY <1>1, <1>2, <1>7
  <2>2. ASSUME NEW k \in 1 .. n, k - 1 \in P PROVE k \in P
    <3>1. k \in 0 .. n /\ k # 0
      BY <1>1
    <3> QED
      BY <1>3, <1>7, <2>2, <3>1
  <2> HIDE DEF P
  <2> QED
    BY <1>1, <2>1, <2>2, Along
<1>9. \A k \in 1 .. n : el[k] = q[k]
  BY <1>1, <1>8
<1>10. [k \in 1 .. n |-> b.name[el[k]]] = [k \in 1 .. n |-> b.name[q[k]]]
  BY <1>9
<1> QED
  BY <1>6, <1>10 DEF Page, n

\* What a pass leaves: names it was given, in order, after those to ignore; and
\* all of them, or the lowest, when it says that some were dropped.
Gathered(page, ignore, S, complete, dropped) ==
  /\ page \in Seq(Names) /\ Len(page) <= 2 ^ Power /\ AscendingPage(page)
  /\ \A i \in 1 .. Len(page) : page[i] \in S /\ After(page[i], ignore)
  /\ \A s \in S : After(s, ignore) =>
       \/ \E i \in 1 .. Len(page) : page[i] = s
       \/ Len(page) = 2 ^ Power /\ After(s, page[2 ^ Power]) /\ (dropped \/ ~ complete)

\* A pass leaves the lowest names it was given, in order, in whatever order it
\* was given them (populate).
LEMMA PassGathers ==
  ASSUME NEW ignore \in Names \cup {<<>>}, NEW S \in SUBSET Names, NEW b, BoardOK(b, ignore, S)
  PROVE  Gathered(Ascending(b), ignore, S, b.complete, b.evicted)
<1>1. PICK q, R : BoardWith(b, ignore, S, q, R)
  BY DEF BoardOK
<1>2. b \in Boards
  BY DEF BoardOK
<1> DEFINE n == b.nlead
           page == Page(b, q)
<1>3. Ascending(b) = page
  BY <1>1, <1>2, AscendingIs
<1>4. /\ n \in 0 .. 2 ^ Power /\ n \in Nat /\ 2 ^ Power \in Nat
      /\ b.name[Leftmost] = ignore /\ Ascends(b.name, q, n) /\ q[0] = Leftmost
      /\ \A i \in 1 .. n : b.name[q[i]] \in S
      /\ \A s \in S : After(s, ignore) =>
           \/ \E i \in 1 .. n : b.name[q[i]] = s
           \/ n = 2 ^ Power /\ After(s, b.name[q[n]]) /\ (b.evicted \/ ~ b.complete)
      /\ 2 ^ Power # 0
  BY <1>1, <1>2, BoardFacts
<1>5. page \in [1 .. n -> Names] /\ \A i \in 1 .. n : page[i] = b.name[q[i]]
  BY <1>4 DEF Page
<1> HIDE DEF page
<1>6. page \in Seq(Names) /\ Len(page) = n
  BY <1>4, <1>5
<1> HIDE DEF n
<1>7. AscendingPage(page)
  <2> SUFFICES ASSUME NEW i \in 2 .. n PROVE After(page[i], page[i - 1])
    BY <1>6 DEF AscendingPage
  <2>1. i \in 1 .. n /\ i - 1 \in 1 .. n
    BY <1>4
  <2> QED
    BY <1>4, <1>5, <2>1 DEF Ascends
<1> DEFINE P == {i \in 0 .. n : i = 0 \/ After(page[i], ignore)}
<1>8. \A i \in 0 .. n : i \in P
  <2>1. 0 \in P
    BY <1>4
  <2>2. ASSUME NEW i \in 1 .. n, i - 1 \in P PROVE i \in P
    <3>0. i \in 0 .. n
      BY <1>4
    <3>1. CASE i = 1
      <4>1. After(page[1], ignore)
        <5>1. 1 \in 1 .. n /\ 1 - 1 = 0
          BY <3>1
        <5>2. After(b.name[q[1]], b.name[q[0]])
          BY <1>4, <5>1 DEF Ascends
        <5> QED
          BY <1>4, <1>5, <5>1, <5>2
      <4> QED
        BY <3>0, <3>1, <4>1
    <3>2. CASE i # 1
      <4>1. i - 1 \in 1 .. n /\ i - 1 # 0 /\ i \in 2 .. Len(page)
        BY <1>4, <1>6, <3>2
      <4>2. After(page[i], page[i - 1]) /\ After(page[i - 1], ignore)
        BY <1>7, <2>2, <4>1 DEF AscendingPage
      <4>3. page[i] \in Seq(Nat) /\ page[i - 1] \in Seq(Nat) /\ ignore \in Seq(Nat)
        BY <1>5, <4>1, NamesAre
      <4>4. After(page[i], ignore)
        BY <4>2, <4>3, AfterTransitive
      <4> QED
        BY <3>0, <4>4
    <3> QED
      BY <3>1, <3>2
  <2> HIDE DEF P
  <2> QED
    BY <1>4, <2>1, <2>2, Along
<1>9. \A i \in 1 .. n : After(page[i], ignore) /\ page[i] \in S
  <2> SUFFICES ASSUME NEW i \in 1 .. n PROVE After(page[i], ignore) /\ page[i] \in S
    OBVIOUS
  <2>1. i \in 0 .. n /\ i # 0
    BY <1>4
  <2> QED
    BY <1>4, <1>5, <1>8, <2>1
<1>10. n = 2 ^ Power => page[2 ^ Power] = b.name[q[n]]
  <2>1. n = 2 ^ Power => n \in 1 .. n
    BY <1>4
  <2> QED
    BY <1>5, <2>1
<1>11. \A s \in S : After(s, ignore) =>
           \/ \E i \in 1 .. n : page[i] = s
           \/ n = 2 ^ Power /\ After(s, page[2 ^ Power]) /\ (b.evicted \/ ~ b.complete)
  BY <1>4, <1>5, <1>10
<1>12. n <= 2 ^ Power
  BY <1>4
<1> QED
  BY <1>3, <1>6, <1>7, <1>9, <1>11, <1>12 DEF Gathered

-----------------------------------------------------------------------------
(***************************************************************************)
(* The packed store: an entry is what it does not share with the one       *)
(* before, and the sizes add up.                                           *)
(***************************************************************************)

\* A beginning, and the rest of what begins so.
Alike(a, c, n) == n \in Nat /\ n <= Len(a) /\ n <= Len(c) /\ \A i \in 1 .. n : a[i] = c[i]
Restored(S, a, c, n) ==
  /\ SubSeq(a, 1, n) \o SubSeq(c, n + 1, Len(c)) = c
  /\ SubSeq(c, n + 1, Len(c)) \in Seq(S) /\ Len(SubSeq(c, n + 1, Len(c))) = Len(c) - n

\* What is shared and the rest make up the whole.
LEMMA Rejoined ==
  ASSUME NEW S, NEW a \in Seq(S), NEW c \in Seq(S), NEW n, Alike(a, c, n)
  PROVE  Restored(S, a, c, n)
<1>0. n \in Nat /\ n <= Len(a) /\ n <= Len(c) /\ \A i \in 1 .. n : a[i] = c[i]
  BY DEF Alike
<1> DEFINE u == SubSeq(a, 1, n)
           v == SubSeq(c, n + 1, Len(c))
<1>1. /\ Len(a) \in Nat /\ Len(c) \in Nat
      /\ \A i \in 1 .. Len(a) : a[i] \in S
      /\ \A i \in 1 .. Len(c) : c[i] \in S
  BY LenProperties, ElementOfSeq
<1>2. u \in Seq(S) /\ Len(u) = n /\ \A i \in 1 .. n : u[i] = a[i]
  <2>1. 1 \in Int /\ n \in Int /\ \A i \in 1 .. n : a[i] \in S
    BY <1>0, <1>1
  <2>2. /\ u \in Seq(S) /\ Len(u) = (IF 1 <= n THEN n - 1 + 1 ELSE 0)
        /\ \A i \in 1 .. n - 1 + 1 : u[i] = a[1 + i - 1]
    BY <2>1, SubSeqProperties
  <2> HIDE DEF u
  <2>3. \A i \in 1 .. n : i \in 1 .. n - 1 + 1 /\ 1 + i - 1 = i
    BY <1>0
  <2> QED
    BY <1>0, <2>2, <2>3
<1>3. v \in Seq(S) /\ Len(v) = Len(c) - n /\ \A i \in 1 .. Len(c) - n : v[i] = c[n + i]
  <2>1. n + 1 \in Int /\ Len(c) \in Int /\ \A i \in n + 1 .. Len(c) : c[i] \in S
    BY <1>0, <1>1
  <2>2. /\ v \in Seq(S) /\ Len(v) = (IF n + 1 <= Len(c) THEN Len(c) - (n + 1) + 1 ELSE 0)
        /\ \A i \in 1 .. Len(c) - (n + 1) + 1 : v[i] = c[(n + 1) + i - 1]
    BY <2>1, SubSeqProperties
  <2> HIDE DEF v
  <2>3. \A i \in 1 .. Len(c) - n : i \in 1 .. Len(c) - (n + 1) + 1 /\ (n + 1) + i - 1 = n + i
    BY <1>0, <1>1
  <2> QED
    BY <1>0, <1>1, <2>2, <2>3
<1> HIDE DEF u, v
<1>4. /\ u \o v \in Seq(S) /\ Len(u \o v) = Len(u) + Len(v)
      /\ \A i \in 1 .. Len(u) + Len(v) : (u \o v)[i] = IF i <= Len(u) THEN u[i] ELSE v[i - Len(u)]
  BY <1>2, <1>3, ConcatProperties
<1>5. Len(u \o v) = Len(c)
  BY <1>0, <1>1, <1>2, <1>3, <1>4
<1>6. \A i \in 1 .. Len(u \o v) : (u \o v)[i] = c[i]
  <2> SUFFICES ASSUME NEW i \in 1 .. Len(c) PROVE (u \o v)[i] = c[i]
    BY <1>5
  <2>1. (u \o v)[i] = IF i <= n THEN u[i] ELSE v[i - n]
    BY <1>2, <1>4, <1>5
  <2>2. CASE i <= n
    <3>1. i \in 1 .. n
      BY <1>0, <2>2
    <3> QED
      BY <1>0, <1>2, <2>1, <2>2, <3>1
  <2>3. CASE ~ (i <= n)
    <3>1. i - n \in 1 .. Len(c) - n /\ n + (i - n) = i
      BY <1>0, <1>1, <2>3
    <3> QED
      BY <1>3, <2>1, <2>3, <3>1
  <2> QED
    BY <1>0, <2>2, <2>3
<1>7. u \o v = c
  BY <1>4, <1>5, <1>6, SeqEqual
<1> QED
  BY <1>3, <1>7 DEF u, v, Restored

\* What two sequences share begins both.
LEMMA SharedIs ==
  ASSUME NEW S, NEW a \in Seq(S), NEW c \in Seq(S), NEW most \in Nat
  PROVE  Shared(a, c, most) \in 0 .. most /\ Alike(a, c, Shared(a, c, most))
<1> DEFINE Same(n) == n <= Len(a) /\ n <= Len(c) /\ \A i \in 1 .. n : a[i] = c[i]
           same == {n \in 0 .. most : Same(n)}
           flip == {most - n : n \in same}
<1>1. Len(a) \in Nat /\ Len(c) \in Nat
  BY LenProperties
<1>2. 0 \in same
  BY <1>1
<1>3. flip \in SUBSET Nat /\ flip # {}
  BY <1>2
<1>4. PICK m \in flip : \A k \in flip : m <= k
  <2> HIDE DEF flip
  <2> QED
    BY <1>3, LeastNumber
<1>5. PICK n \in same : m = most - n
  BY <1>4
<1>6. \A k \in same : k <= n
  <2> SUFFICES ASSUME NEW k \in same PROVE k <= n
    OBVIOUS
  <2>1. most - k \in flip
    OBVIOUS
  <2>2. m <= most - k
    BY <1>4, <2>1
  <2>3. k \in 0 .. most /\ n \in 0 .. most
    BY <1>5
  <2> QED
    BY <1>5, <2>2, <2>3
<1>7. Shared(a, c, most) = CHOOSE k \in same : \A j \in same : j <= k
  BY DEF Shared
<1>8. Shared(a, c, most) \in same
  <2> HIDE DEF same
  <2> QED
    BY <1>5, <1>6, <1>7
<1> QED
  BY <1>8 DEF Alike

(***************************************************************************)
(* The size of the packed store.                                           *)
(***************************************************************************)
\* What a store is made of: bytes of CNIDs, entries, and what they take.
Ids == {0} \cup {Id[n] : n \in Names}
Values == {Bytes(c)[i] : c \in Ids, i \in 1 .. IdBytes}
Entries == [reuseID : Nat, reuseName : Nat, id : Seq(Values), name : Seq(Nat)]
Weight(e) == 2 + Len(e.id) + Len(e.name)

\* The size of a store, entry by entry.
Weighs(f, s) == /\ f \in [0 .. Len(s) -> Nat] /\ f[0] = 0
                /\ \A k \in 1 .. Len(s) : f[k] = f[k - 1] + Weight(s[k])

\* What an entry takes is a number.
LEMMA WeightIs == ASSUME NEW e \in Entries PROVE Weight(e) \in Nat
<1>1. e.id \in Seq(Values) /\ e.name \in Seq(Nat)
  BY DEF Entries
<1>2. Len(e.id) \in Nat /\ Len(e.name) \in Nat
  BY <1>1, LenProperties
<1> DEFINE x == Len(e.id)
           y == Len(e.name)
<1>3. x \in Nat /\ y \in Nat /\ Weight(e) = 2 + x + y
  BY <1>2 DEF Weight
<1> HIDE DEF x, y
<1> QED
  BY <1>3

\* The size of a store adds up from its entries.
LEMMA SizeIs ==
  ASSUME NEW s \in Seq(Entries)
  PROVE  \E f : Weighs(f, s) /\ PackedSize(s) = f[Len(s)]
<1> DEFINE n == Len(s)
           h == [x \in (1 .. n) \X Nat |-> x[2] + Weight(s[x[1]])]
           Body(g, k) == IF k = 0 THEN 0 ELSE g[k - 1] + 2 + Len(s[k].id) + Len(s[k].name)
           size == CHOOSE g : g = [k \in 0 .. n |-> Body(g, k)]
<1>1. n \in Nat /\ 0 \in Nat /\ \A k \in 1 .. n : s[k] \in Entries
  BY LenProperties, ElementOfSeq
<1>2. PackedSize(s) = size[n]
  BY DEF PackedSize
<1> HIDE DEF size, n
<1>3. \A k \in 1 .. n : Weight(s[k]) \in Nat
  BY <1>1, WeightIs
<1>4. h \in Steps(n, Nat)
  <2>1. \A x \in (1 .. n) \X Nat : x[2] + Weight(s[x[1]]) \in Nat
    BY <1>3
  <2> QED
    BY <2>1 DEF Steps
<1>5. PICK f : f \in [0 .. n -> Nat] /\ f[0] = 0 /\ \A k \in 1 .. n : f[k] = h[<<k, f[k - 1]>>]
  <2> HIDE DEF h
  <2>1. \E f : Iterates(f, n, Nat, 0, h)
    BY <1>1, <1>4, Recursion
  <2> QED
    BY <2>1 DEF Iterates
<1>6. \A k \in 1 .. n : f[k] = f[k - 1] + Weight(s[k])
  <2> SUFFICES ASSUME NEW k \in 1 .. n PROVE f[k] = f[k - 1] + Weight(s[k])
    OBVIOUS
  <2>1. k - 1 \in 0 .. n
    BY <1>1
  <2>2. f[k - 1] \in Nat
    BY <1>5, <2>1
  <2>3. <<k, f[k - 1]>> \in (1 .. n) \X Nat
    BY <2>2
  <2>4. h[<<k, f[k - 1]>>] = f[k - 1] + Weight(s[k])
    BY <2>3
  <2> HIDE DEF h
  <2> QED
    BY <1>5, <2>4
<1> HIDE DEF h
<1>7. ASSUME NEW k \in 1 .. n, NEW g, g[k - 1] \in Nat
      PROVE  g[k - 1] + 2 + Len(s[k].id) + Len(s[k].name) = g[k - 1] + Weight(s[k])
  <2>1. s[k] \in Entries
    BY <1>1
  <2>2. s[k].id \in Seq(Values) /\ s[k].name \in Seq(Nat)
    BY <2>1 DEF Entries
  <2>3. Len(s[k].id) \in Nat /\ Len(s[k].name) \in Nat
    BY <2>2, LenProperties
  <2> DEFINE x == Len(s[k].id)
             y == Len(s[k].name)
             z == g[k - 1]
  <2>4. x \in Nat /\ y \in Nat /\ z \in Nat /\ Weight(s[k]) = 2 + x + y
    BY <1>7, <2>3 DEF Weight
  <2> HIDE DEF x, y, z
  <2>5. z + 2 + x + y = z + Weight(s[k])
    BY <2>4
  <2> QED
    BY <2>5 DEF x, y, z
<1>8. f = [k \in 0 .. n |-> Body(f, k)]
  <2>1. ASSUME NEW k \in 0 .. n PROVE f[k] = Body(f, k)
    <3>1. CASE k = 0
      BY <1>5, <3>1
    <3>2. CASE k # 0
      <4>1. k \in 1 .. n /\ k - 1 \in 0 .. n
        BY <1>1, <3>2
      <4>2. f[k - 1] \in Nat
        BY <1>5, <4>1
      <4>3. f[k] = f[k - 1] + 2 + Len(s[k].id) + Len(s[k].name)
        BY <1>6, <1>7, <4>1, <4>2
      <4> QED
        BY <3>2, <4>3
    <3> QED
      BY <3>1, <3>2
  <2> HIDE DEF Body
  <2> QED
    BY <1>5, <2>1
<1>9. size = [k \in 0 .. n |-> Body(size, k)]
  <2> HIDE DEF Body
  <2> QED
    BY <1>8 DEF size
<1>10. \A k \in 0 .. n : size[k] = Body(size, k)
  <2> HIDE DEF Body
  <2> QED
    BY <1>9
<1> DEFINE P == {k \in 0 .. n : size[k] = f[k]}
<1>11. \A k \in 0 .. n : k \in P
  <2>1. 0 \in P
    BY <1>1, <1>5, <1>10
  <2>2. ASSUME NEW k \in 1 .. n, k - 1 \in P PROVE k \in P
    <3>1. k \in 0 .. n /\ k # 0 /\ k - 1 \in 0 .. n
      BY <1>1
    <3>2. size[k - 1] = f[k - 1] /\ f[k - 1] \in Nat
      BY <1>5, <2>2, <3>1
    <3>3. size[k] = size[k - 1] + 2 + Len(s[k].id) + Len(s[k].name)
      BY <1>10, <3>1
    <3>4. size[k] = size[k - 1] + Weight(s[k])
      BY <1>7, <3>2, <3>3
    <3> QED
      BY <1>6, <3>1, <3>2, <3>4
  <2> HIDE DEF P
  <2> QED
    BY <1>1, <2>1, <2>2, Along
<1>12. size[n] = f[n]
  BY <1>1, <1>11
<1>13. Weighs(f, s)
  BY <1>5, <1>6 DEF Weighs, n
<1> QED
  BY <1>2, <1>12, <1>13 DEF n

\* An empty store takes nothing.
LEMMA SizeEmpty == PackedSize(<<>>) = 0
<1>1. PICK f : Weighs(f, <<>>) /\ PackedSize(<<>>) = f[Len(<<>>)]
  BY SizeIs, EmptySeq
<1> QED
  BY <1>1, EmptySeq DEF Weighs

\* An entry more takes its own size more.
LEMMA SizeAppend ==
  ASSUME NEW s \in Seq(Entries), NEW e \in Entries
  PROVE  PackedSize(Append(s, e)) = PackedSize(s) + Weight(e) /\ PackedSize(s) \in Nat
<1> DEFINE n == Len(s)
           t == Append(s, e)
<1>1. n \in Nat /\ t \in Seq(Entries) /\ Len(t) = n + 1 /\ t[n + 1] = e /\ \A i \in 1 .. n : t[i] = s[i]
  BY LenProperties, AppendProperties
<1>2. PICK f : Weighs(f, s) /\ PackedSize(s) = f[n]
  BY SizeIs
<1> HIDE DEF t
<1>3. PICK g : Weighs(g, t) /\ PackedSize(t) = g[Len(t)]
  BY <1>1, SizeIs
<1>4. /\ f \in [0 .. n -> Nat] /\ f[0] = 0 /\ \A k \in 1 .. n : f[k] = f[k - 1] + Weight(s[k])
  BY <1>2 DEF Weighs
<1>5. /\ g[0] = 0 /\ \A k \in 1 .. n + 1 : g[k] = g[k - 1] + Weight(t[k])
  BY <1>1, <1>3 DEF Weighs
<1> HIDE DEF n
<1> DEFINE P == {k \in 0 .. n : f[k] = g[k]}
<1>6. \A k \in 0 .. n : k \in P
  <2>1. 0 \in P
    BY <1>1, <1>4, <1>5
  <2>2. ASSUME NEW k \in 1 .. n, k - 1 \in P PROVE k \in P
    <3>1. k \in 0 .. n /\ k \in 1 .. n + 1 /\ f[k - 1] = g[k - 1] /\ t[k] = s[k]
      BY <1>1, <2>2
    <3> QED
      BY <1>4, <1>5, <3>1
  <2> HIDE DEF P
  <2> QED
    BY <1>1, <2>1, <2>2, Along
<1>7. n \in 0 .. n /\ n + 1 \in 1 .. n + 1 /\ (n + 1) - 1 = n
  BY <1>1
<1>8. f[n] = g[n] /\ f[n] \in Nat
  BY <1>4, <1>6, <1>7
<1>9. g[n + 1] = g[n] + Weight(e)
  <2>1. g[n + 1] = g[(n + 1) - 1] + Weight(t[n + 1])
    BY <1>5, <1>7
  <2> QED
    BY <1>1, <1>7, <2>1
<1>10. PackedSize(t) = g[n + 1]
  BY <1>1, <1>3
<1> QED
  BY <1>2, <1>8, <1>9, <1>10 DEF t

\* The bytes of a CNID.
LEMMA BytesAre == ASSUME NEW c \in Ids PROVE Bytes(c) \in Seq(Values) /\ Len(Bytes(c)) = IdBytes
<1>1. Bytes(c) = [i \in 1 .. IdBytes |-> Bytes(c)[i]]
  BY Zenon DEF Bytes
<1> DEFINE f == Bytes(c)
<1>2. f = [i \in 1 .. IdBytes |-> f[i]] /\ \A i \in 1 .. IdBytes : f[i] \in Values
  <2>1. \A i \in 1 .. IdBytes : Bytes(c)[i] \in Values
    <3> SUFFICES ASSUME NEW i \in 1 .. IdBytes PROVE Bytes(c)[i] \in Values
      OBVIOUS
    <3> DEFINE v == Bytes(c)[i]
    <3>1. \E d \in Ids, j \in 1 .. IdBytes : v = Bytes(d)[j]
      OBVIOUS
    <3> HIDE DEF v
    <3>2. v \in Values
      BY <3>1 DEF Values
    <3> QED
      BY <3>2 DEF v
  <2> QED
    BY ONLY <1>1, <2>1
<1> HIDE DEF f
<1>3. f \in [1 .. IdBytes -> Values] /\ IdBytes \in Nat
  BY <1>2, SortDirAssumption
<1>4. f \in Seq(Values) /\ Len(f) = IdBytes
  BY <1>3
<1> QED
  BY <1>4 DEF f

\* What the packer has so far.
Packings == [entries : Seq(Entries), size : Nat, id : Seq(Values), name : Seq(Nat), full : BOOLEAN]

\* What packing one name does, by the entry that it makes.
PackedAs(p, name, e) ==
  /\ e \in Entries /\ Follows(e, p.name, name, p.id, Bytes(Id[name]))
  /\ Weight(e) <= 2 + IdBytes + Len(name)
  /\ Pack(p, name) = IF p.full \/ p.size + Weight(e) > Room THEN [p EXCEPT !.full = TRUE]
                     ELSE [entries |-> Append(p.entries, e), size |-> p.size + Weight(e),
                           id |-> Bytes(Id[name]), name |-> name, full |-> FALSE]

\* Packing makes an entry from which the name and the CNID come back, or finds
\* that it does not fit (pack).
LEMMA PackIs ==
  ASSUME NEW p \in Packings, NEW name \in Names
  PROVE  \E e : PackedAs(p, name, e)
<1> DEFINE id == Bytes(Id[name])
           i == Shared(p.id, id, IdBytes - 1)
           n == Shared(p.name, name, MaxReuse)
           u == SubSeq(id, i + 1, IdBytes)
           v == SubSeq(name, n + 1, Len(name))
           e == [reuseID |-> i, reuseName |-> n, id |-> u, name |-> v]
           size == p.size + 1 + (IdBytes - i) + (Len(name) + 1 - n)
<1>1. p.id \in Seq(Values) /\ p.name \in Seq(Nat) /\ p.size \in Nat /\ name \in Seq(Nat) /\ Len(name) \in Nat
  BY NamesAre, LenProperties DEF Packings
<1>2. id \in Seq(Values) /\ Len(id) = IdBytes /\ IdBytes \in Nat /\ IdBytes - 1 \in Nat /\ MaxReuse \in Nat
  <2>1. Id[name] \in Ids
    BY DEF Ids
  <2> QED
    BY <2>1, BytesAre, SortDirAssumption
<1>3. Pack(p, name) = IF p.full \/ size > Room THEN [p EXCEPT !.full = TRUE]
                      ELSE [entries |-> Append(p.entries, e), size |-> size, id |-> id, name |-> name, full |-> FALSE]
  BY DEF Pack
<1>4. i \in 0 .. IdBytes - 1 /\ Alike(p.id, id, i)
  <2> HIDE DEF id
  <2> QED
    BY <1>1, <1>2, SharedIs
<1>5. n \in 0 .. MaxReuse /\ Alike(p.name, name, n)
  BY <1>1, <1>2, SharedIs
<1> HIDE DEF id, i, n
<1>6. SubSeq(p.id, 1, i) \o u = id /\ u \in Seq(Values) /\ Len(u) = IdBytes - i
  <2>1. Restored(Values, p.id, id, i)
    BY <1>1, <1>2, <1>4, Rejoined
  <2> QED
    BY <1>2, <2>1 DEF Restored, u
<1>7. SubSeq(p.name, 1, n) \o v = name /\ v \in Seq(Nat) /\ Len(v) = Len(name) - n
  <2>1. Restored(Nat, p.name, name, n)
    BY <1>1, <1>5, Rejoined
  <2> QED
    BY <2>1 DEF Restored, v
<1> HIDE DEF u, v
<1>8. e \in Entries /\ e.reuseID = i /\ e.reuseName = n /\ e.id = u /\ e.name = v
  BY <1>2, <1>4, <1>5, <1>6, <1>7 DEF Entries
<1> HIDE DEF e
<1>9. Follows(e, p.name, name, p.id, id)
  <2>1. i \in 0 .. IdBytes /\ n \in 0 .. Len(p.name)
    <3>1. Len(p.name) \in Nat
      BY <1>1, LenProperties
    <3> QED
      BY <1>2, <1>4, <1>5, <3>1 DEF Alike
  <2> QED
    BY <1>6, <1>7, <1>8, <2>1 DEF Follows
<1>10. Weight(e) = 2 + (IdBytes - i) + (Len(name) - n)
  BY <1>6, <1>7, <1>8 DEF Weight
<1>11. size = p.size + Weight(e) /\ Weight(e) <= 2 + IdBytes + Len(name)
  <2> DEFINE x == Len(name)
             y == p.size
             w == Weight(e)
  <2>1. /\ x \in Nat /\ y \in Nat /\ i \in Nat /\ n \in Nat /\ IdBytes \in Nat /\ w = 2 + (IdBytes - i) + (x - n)
        /\ size = y + 1 + (IdBytes - i) + (x + 1 - n)
    BY <1>1, <1>2, <1>4, <1>5, <1>10
  <2> HIDE DEF x, y, w, size
  <2>2. size = y + w /\ w <= 2 + IdBytes + x
    BY <2>1
  <2> QED
    BY <2>2 DEF x, y, w
<1> HIDE DEF size
<1>12. PackedAs(p, name, e)
  BY <1>3, <1>8, <1>9, <1>11 DEF PackedAs, id
<1> QED
  BY <1>12

\* What the packer has stays what it may be.
LEMMA PackCloses ==
  ASSUME NEW p \in Packings, NEW name \in Names
  PROVE  Pack(p, name) \in Packings
<1>1. PICK e : PackedAs(p, name, e)
  BY PackIs
<1>2. /\ e \in Entries
      /\ Pack(p, name) = IF p.full \/ p.size + Weight(e) > Room THEN [p EXCEPT !.full = TRUE]
                         ELSE [entries |-> Append(p.entries, e), size |-> p.size + Weight(e),
                               id |-> Bytes(Id[name]), name |-> name, full |-> FALSE]
  BY <1>1 DEF PackedAs
<1>3. p.entries \in Seq(Entries) /\ p.size \in Nat
  BY DEF Packings
<1>4. Append(p.entries, e) \in Seq(Entries) /\ Weight(e) \in Nat
  BY <1>2, <1>3, AppendProperties, WeightIs
<1>5. Bytes(Id[name]) \in Seq(Values) /\ name \in Seq(Nat)
  BY BytesAre, NamesAre DEF Ids
<1>6. [p EXCEPT !.full = TRUE] \in Packings
  BY DEF Packings
<1>7. p.size + Weight(e) \in Nat
  BY <1>3, <1>4
<1>8. [entries |-> Append(p.entries, e), size |-> p.size + Weight(e),
       id |-> Bytes(Id[name]), name |-> name, full |-> FALSE] \in Packings
  BY <1>4, <1>5, <1>7 DEF Packings
<1> QED
  BY <1>2, <1>6, <1>8

\* What is packed after some of the page.
PackState(p, page, k) ==
  /\ Len(p.entries) <= k /\ (p.full => k > 0)
  /\ ~ p.full => Len(p.entries) = k /\ p.name = Before(page, k + 1) /\ p.id = IdBefore(page, k + 1)
  /\ p.size = PackedSize(p.entries) /\ p.size <= Room
  /\ \A i \in 1 .. Len(p.entries) :
       Follows(p.entries[i], Before(page, i), page[i], IdBefore(page, i), Bytes(Id[page[i]]))
  /\ k > 0 => p.entries # <<>>

\* The store packed so far holds the page so far, or the part that fitted.
LEMMA PackKeeps ==
  ASSUME NEW page \in Seq(Names), NEW k \in 1 .. Len(page), NEW p \in Packings, PackState(p, page, k - 1)
  PROVE  PackState(Pack(p, page[k]), page, k)
<1>1. page[k] \in Names /\ k \in Nat /\ k # 0
  BY ElementOfSeq, LenProperties
<1> DEFINE name == page[k]
<1>2. PICK e : PackedAs(p, name, e)
  BY <1>1, PackIs
<1> DEFINE w == Weight(e)
           c == [entries |-> Append(p.entries, e), size |-> p.size + w,
                 id |-> Bytes(Id[name]), name |-> name, full |-> FALSE]
<1>3. /\ e \in Entries /\ Follows(e, p.name, name, p.id, Bytes(Id[name])) /\ w <= 2 + IdBytes + Len(name)
      /\ Pack(p, name) = IF p.full \/ p.size + w > Room THEN [p EXCEPT !.full = TRUE] ELSE c
  BY <1>2 DEF PackedAs
<1>4. p.entries \in Seq(Entries) /\ p.size \in Nat /\ w \in Nat /\ Len(p.entries) \in Nat
  BY <1>3, WeightIs, LenProperties DEF Packings
<1>5. /\ Len(p.entries) <= k - 1 /\ (p.full => k - 1 > 0)
      /\ ~ p.full => Len(p.entries) = k - 1 /\ p.name = Before(page, k) /\ p.id = IdBefore(page, k)
      /\ p.size = PackedSize(p.entries) /\ p.size <= Room
      /\ \A i \in 1 .. Len(p.entries) :
           Follows(p.entries[i], Before(page, i), page[i], IdBefore(page, i), Bytes(Id[page[i]]))
      /\ k - 1 > 0 => p.entries # <<>>
  <2>1. (k - 1) + 1 = k
    BY <1>1
  <2> QED
    BY <2>1 DEF PackState
<1>6. CASE p.full \/ p.size + w > Room
  <2> DEFINE d == [p EXCEPT !.full = TRUE]
  <2>1. d.entries = p.entries /\ d.size = p.size /\ d.full = TRUE
    BY DEF Packings
  <2>2. k > 0 => p.entries # <<>>
    <3> SUFFICES ASSUME k = 1, p.entries = <<>> PROVE FALSE
      BY <1>1, <1>5
    <3>1. PackedSize(p.entries) = 0 /\ Len(p.entries) = 0
      BY SizeEmpty, EmptySeq
    <3>2. p.size = 0
      BY <1>5, <3>1
    <3>3. w <= Room
      <4> DEFINE x == Len(name)
      <4>1. x \in Nat /\ 2 + IdBytes + x <= Room /\ w <= 2 + IdBytes + x /\ IdBytes \in Nat /\ Room \in Nat
        BY <1>1, <1>3, NamesAre, LenProperties, SortDirAssumption
      <4> HIDE DEF x, w
      <4> QED
        BY <1>4, <4>1
    <3>4. p.full
      BY <1>4, <1>6, <3>2, <3>3, SortDirAssumption
    <3> QED
      BY <1>5, <3>4
  <2>3. Len(p.entries) <= k
    BY <1>1, <1>4, <1>5
  <2> HIDE DEF d
  <2>4. PackState(d, page, k)
    BY <1>1, <1>5, <2>1, <2>2, <2>3 DEF PackState
  <2> QED
    BY <1>3, <1>6, <2>4 DEF d
<1>7. CASE ~ (p.full \/ p.size + w > Room)
  <2> DEFINE t == Append(p.entries, e)
             m == Len(p.entries)
  <2>1. ~ p.full /\ p.size + w <= Room /\ m = k - 1 /\ p.name = Before(page, k) /\ p.id = IdBefore(page, k)
    <3>1. ~ p.full /\ ~ (p.size + w > Room)
      BY <1>7
    <3>2. p.size + w <= Room
      <4> DEFINE x == p.size
      <4>1. x \in Nat /\ w \in Nat /\ Room \in Nat /\ ~ (x + w > Room)
        BY <1>4, <3>1, SortDirAssumption
      <4> HIDE DEF w, x
      <4>2. x + w <= Room
        BY ONLY <4>1
      <4> QED
        BY <4>2 DEF x
    <3> QED
      BY <1>5, <3>1, <3>2
  <2>2. t \in Seq(Entries) /\ t # <<>> /\ Len(t) = k /\ t[k] = e /\ \A i \in 1 .. m : t[i] = p.entries[i]
    <3>1. /\ t \in Seq(Entries) /\ t # <<>> /\ Len(t) = m + 1 /\ t[m + 1] = e /\ \A i \in 1 .. m : t[i] = p.entries[i]
      <4> DEFINE q == p.entries
      <4>1. q \in Seq(Entries) /\ e \in Entries
        BY <1>3, <1>4
      <4> HIDE DEF q
      <4>2. /\ Append(q, e) \in Seq(Entries) /\ Append(q, e) # <<>> /\ Len(Append(q, e)) = Len(q) + 1
            /\ \A i \in 1 .. Len(q) : Append(q, e)[i] = q[i]
            /\ Append(q, e)[Len(q) + 1] = e
        BY ONLY <4>1, AppendProperties
      <4> QED
        BY <4>2 DEF q
    <3>2. m + 1 = k
      BY <1>1, <2>1
    <3> QED
      BY <3>1, <3>2
  <2>3. PackedSize(t) = p.size + w
    BY <1>3, <1>4, <1>5, SizeAppend
  <2> HIDE DEF t
  <2>4. c.entries = t /\ c.size = p.size + w /\ c.id = Bytes(Id[name]) /\ c.name = name /\ c.full = FALSE
    BY DEF t
  <2>5. Before(page, k + 1) = name /\ IdBefore(page, k + 1) = Bytes(Id[name])
    <3>1. k + 1 # 1 /\ (k + 1) - 1 = k
      BY <1>1
    <3> QED
      BY <3>1 DEF Before, IdBefore
  <2>6. ASSUME NEW i \in 1 .. k
        PROVE  Follows(t[i], Before(page, i), page[i], IdBefore(page, i), Bytes(Id[page[i]]))
    <3>1. CASE i = k
      BY <1>3, <2>1, <2>2, <3>1
    <3>2. CASE i # k
      <4>1. i \in 1 .. m
        BY <1>1, <2>1, <3>2
      <4> QED
        BY <1>5, <2>2, <4>1
    <3> QED
      BY <3>1, <3>2
  <2> HIDE DEF c, w
  <2>7. Len(c.entries) <= k
    BY <1>1, <2>2, <2>4
  <2>8. PackState(c, page, k)
    BY <2>1, <2>2, <2>3, <2>4, <2>5, <2>6, <2>7 DEF PackState
  <2> QED
    BY <1>3, <1>7, <2>8
<1> QED
  BY <1>6, <1>7

\* A whole page packed: the store holds the beginning of it, one name at least,
\* and fits in its array.
LEMMA PackedIs ==
  ASSUME NEW page \in Seq(Names)
  PROVE  Packed(page) \in Packings /\ PackState(Packed(page), page, Len(page))
<1> DEFINE n == Len(page)
           h == [x \in (1 .. n) \X Packings |-> Pack(x[2], page[x[1]])]
           Body(g, k) == IF k = 0 THEN NothingPacked ELSE Pack(g[k - 1], page[k])
           packed == CHOOSE g : g = [k \in 0 .. n |-> Body(g, k)]
<1>1. n \in Nat /\ \A k \in 1 .. n : page[k] \in Names
  BY LenProperties, ElementOfSeq
<1>2. Packed(page) = packed[n]
  BY DEF Packed
<1> HIDE DEF packed
<1>3. NothingPacked \in Packings /\ PackState(NothingPacked, page, 0)
  <2>1. Bytes(0) \in Seq(Values)
    BY BytesAre DEF Ids
  <2>2. <<>> \in Seq(Entries) /\ <<>> \in Seq(Nat) /\ Len(<<>>) = 0
    BY EmptySeq
  <2>3. NothingPacked = [entries |-> <<>>, size |-> 0, id |-> Bytes(0), name |-> <<>>, full |-> FALSE]
    BY DEF NothingPacked
  <2>4. NothingPacked \in Packings
    BY <2>1, <2>2, <2>3 DEF Packings
  <2>5. Before(page, 0 + 1) = <<>> /\ IdBefore(page, 0 + 1) = Bytes(0)
    BY DEF Before, IdBefore
  <2>6. /\ Len(NothingPacked.entries) = 0 /\ NothingPacked.name = <<>> /\ NothingPacked.id = Bytes(0)
        /\ NothingPacked.size = 0 /\ NothingPacked.size = PackedSize(NothingPacked.entries) /\ 0 <= Room /\ NothingPacked.full = FALSE
    BY <2>2, <2>3, SizeEmpty, SortDirAssumption
  <2>7. PackState(NothingPacked, page, 0)
    BY <2>5, <2>6 DEF PackState
  <2> QED
    BY <2>4, <2>7
<1>4. \A x \in (1 .. n) \X Packings : Pack(x[2], page[x[1]]) \in Packings
  BY <1>1, PackCloses
<1> HIDE DEF n
<1>5. h \in Steps(n, Packings)
  BY <1>4 DEF Steps
<1>6. PICK f : f \in [0 .. n -> Packings] /\ f[0] = NothingPacked /\ \A k \in 1 .. n : f[k] = h[<<k, f[k - 1]>>]
  <2> HIDE DEF h
  <2>1. \E f : Iterates(f, n, Packings, NothingPacked, h)
    BY <1>1, <1>3, <1>5, Recursion
  <2> QED
    BY <2>1 DEF Iterates
<1>7. \A k \in 1 .. n : f[k] = Pack(f[k - 1], page[k]) /\ f[k - 1] \in Packings
  <2> SUFFICES ASSUME NEW k \in 1 .. n PROVE f[k] = Pack(f[k - 1], page[k]) /\ f[k - 1] \in Packings
    OBVIOUS
  <2>1. k - 1 \in 0 .. n
    BY <1>1
  <2>2. f[k - 1] \in Packings
    BY <1>6, <2>1
  <2>3. <<k, f[k - 1]>> \in (1 .. n) \X Packings
    BY <2>2
  <2>4. h[<<k, f[k - 1]>>] = Pack(f[k - 1], page[k])
    BY <2>3
  <2> HIDE DEF h
  <2> QED
    BY <1>6, <2>2, <2>4
<1> HIDE DEF h
<1>8. f = [k \in 0 .. n |-> Body(f, k)]
  <2>1. ASSUME NEW k \in 0 .. n PROVE f[k] = Body(f, k)
    <3>1. CASE k = 0
      BY <1>6, <3>1
    <3>2. CASE k # 0
      <4>1. k \in 1 .. n
        BY <1>1, <3>2
      <4> QED
        BY <1>7, <3>2, <4>1
    <3> QED
      BY <3>1, <3>2
  <2> HIDE DEF Body
  <2> QED
    BY <1>6, <2>1
<1>9. packed = [k \in 0 .. n |-> Body(packed, k)]
  <2>1. packed = CHOOSE g : g = [k \in 0 .. n |-> Body(g, k)]
    BY DEF packed, n
  <2> HIDE DEF Body
  <2> QED
    BY <1>8, <2>1
<1>10. \A k \in 0 .. n : packed[k] = Body(packed, k)
  <2> HIDE DEF Body
  <2> QED
    BY <1>9
<1> DEFINE P == {k \in 0 .. n : packed[k] \in Packings /\ PackState(packed[k], page, k)}
<1>11. \A k \in 0 .. n : k \in P
  <2>1. 0 \in P
    BY <1>1, <1>3, <1>10
  <2>2. ASSUME NEW k \in 1 .. n, k - 1 \in P PROVE k \in P
    <3>1. k \in 0 .. n /\ k # 0 /\ page[k] \in Names
      BY <1>1
    <3>2. packed[k] = Pack(packed[k - 1], page[k]) /\ packed[k - 1] \in Packings /\ PackState(packed[k - 1], page, k - 1)
      BY <1>10, <2>2, <3>1
    <3>3. packed[k] \in Packings
      BY <3>1, <3>2, PackCloses
    <3>4. PackState(packed[k], page, k)
      <4>1. k \in 1 .. Len(page)
        BY DEF n
      <4> QED
        BY <3>2, <4>1, PackKeeps
    <3> QED
      BY <3>1, <3>3, <3>4
  <2> HIDE DEF P
  <2> QED
    BY <1>1, <2>1, <2>2, Along
<1>12. packed[n] \in Packings /\ PackState(packed[n], page, n)
  BY <1>1, <1>11
<1> QED
  BY <1>2, <1>12 DEF n

-----------------------------------------------------------------------------
(***************************************************************************)
(* The inductive invariant.  A static variable of sortdir.c is only as good *)
(* as what the last call left in it: the place in the store, the page that *)
(* is packed there, and the index so far.                                  *)
(***************************************************************************)

\* The states and the variables of a call.
Steady   == {"unpack", "populate", "pass", "walk"}
Sorteds  == [lastCNID : SortDirs \cup {0}, lastIndex : Nat, far : BOOLEAN, lastDirOK : BOOLEAN, complete : BOOLEAN,
             lastName : Names \cup {<<>>}, child : Seq(Values), entries : Seq(Entries), ptr : Nat,
             prevID : Seq(Values), prevName : Names \cup {<<>>}, page : Seq(Names), after : Names \cup {<<>>}]
Calls    == [pc : {"idle", "panic"} \cup Steady, dir : SortDirs \cup {0}, index : Nat, dirOK : BOOLEAN]

TypesOK ==
  /\ host \in [SortDirs -> SUBSET Names] /\ gone \subseteq SortDirs /\ \A d \in gone : host[d] = {}
  /\ sorted \in Sorteds /\ call \in Calls /\ evicted \in BOOLEAN /\ stable \in BOOLEAN

\* Where unpacking is: what is unpacked next follows what was unpacked last.
PlaceOK(s) ==
  /\ s.ptr <= Len(s.entries) /\ (s.entries # <<>> => s.ptr > 0)
  /\ s.prevName = Before(s.page, s.ptr + 1) /\ s.prevID = IdBefore(s.page, s.ptr + 1)
  /\ s.ptr > 0 => s.lastName = s.prevName /\ s.child = s.prevID

\* The page is in order after the name it was made for.
PageOK(s) ==
  /\ AscendingPage(s.page) /\ Len(s.page) <= 2 ^ Power
  /\ \A i \in 1 .. Len(s.page) : After(s.page[i], s.after)

\* The static variables, in a call or between two.
SortedOK(s) ==
  /\ StoreOK(s.entries, s.page) /\ PageOK(s) /\ PlaceOK(s)
  /\ s.lastIndex <= Rank(Names, s.lastName)
  /\ s.far => s.lastCNID = 0
  /\ s.lastCNID = 0 => s.entries = <<>>

\* The call in progress is for a name further on, of the directory last listed.
CallOK ==
  /\ call.pc = "walk" => sorted.ptr > 0 /\ sorted.lastIndex < Rank(Names, sorted.lastName)
  /\ call.pc \in Steady => /\ sorted.lastIndex < call.index /\ call.dir = sorted.lastCNID /\ call.dir \in SortDirs
                           /\ call.dirOK = sorted.lastDirOK
  /\ call.pc # "idle" => answer = Nothing
  /\ call.pc = "pass" => seen \subseteq Names /\ BoardOK(board, sorted.lastName, seen)

\* A directory left alone: the index is the rank of the name, the page is all
\* that comes next, or as many as there was room for.
Here == Visible(sorted.lastCNID, sorted.lastDirOK)
Covers(page, after, S, lossy) ==
  /\ \A i \in 1 .. Len(page) : page[i] \in S
  /\ \A s \in S : After(s, after) =>
       \/ \E i \in 1 .. Len(page) : page[i] = s
       \/ Len(page) = 2 ^ Power /\ After(s, page[2 ^ Power]) /\ lossy

StableOK ==
  stable /\ sorted.lastCNID \in SortDirs =>
    /\ IF call.pc = "walk" THEN sorted.lastIndex + 1 = Rank(Here, sorted.lastName)
       ELSE sorted.lastIndex = Rank(Here, sorted.lastName)
    /\ sorted.entries # <<>> =>
         /\ Covers(sorted.page, sorted.after, Here, evicted \/ ~ sorted.complete)
         /\ sorted.complete => Len(sorted.entries) = Len(sorted.page)
    /\ sorted.entries = <<>> /\ sorted.complete /\ ~ evicted => \A s \in Here : ~ After(s, sorted.lastName)
    /\ call.pc = "pass" => seen \subseteq Here

\* What has been answered, and the invariant.
AnswerOK == ListingTrue /\ EndTrueUnlessEvicted

SortIInv == TypesOK /\ SortedOK(sorted) /\ CallOK /\ StableOK /\ AnswerOK

(***************************************************************************)
(* Ranks.                                                                  *)
(***************************************************************************)
\* Every name comes after the empty one, with which a listing starts.
LEMMA AfterEmpty == ASSUME NEW n \in Names PROVE After(n, <<>>)
<1>1. n \in Seq(Nat) /\ n # <<>> /\ <<>> \in Seq(Nat) /\ Len(<<>>) = 0 /\ Len(n) \in Nat
  BY NamesAre, EmptySeq, LenProperties
<1> DEFINE e == <<>>
<1>2. ~ After(e, n)
  <2>1. ~ (Len(e) > Len(n)) /\ \A i : ~ (i \in 1 .. Len(e))
    BY <1>1
  <2> HIDE DEF e
  <2> QED
    BY <2>1 DEF After
<1>3. e \in Seq(Nat) /\ n # e
  BY <1>1
<1> HIDE DEF e
<1>4. After(n, e)
  BY <1>1, <1>2, <1>3, AfterTotal
<1> QED
  BY <1>4 DEF e

\* The names up to one.
Upto(names, n) == {m \in names : ~ After(m, n)}

\* A rank counts the names up to one.
LEMMA RankIs ==
  ASSUME NEW S \in SUBSET Names, NEW n
  PROVE  IsFiniteSet(Upto(S, n)) /\ Rank(S, n) = Cardinality(Upto(S, n)) /\ Rank(S, n) \in Nat /\ IsFiniteSet(S)
<1>1. IsFiniteSet(S)
  BY FS_Subset, SortDirAssumption
<1>2. Upto(S, n) \subseteq S
  BY DEF Upto
<1>3. IsFiniteSet(Upto(S, n))
  BY <1>1, <1>2, FS_Subset
<1>4. Rank(S, n) = Cardinality(Upto(S, n))
  BY DEF Rank, Upto
<1> QED
  BY <1>1, <1>3, <1>4, FS_CardinalityType

\* The next name has the next rank.
LEMMA RankStep ==
  ASSUME NEW S \in SUBSET Names, NEW was \in Names \cup {<<>>}, NEW n \in S, After(n, was),
         \A m \in S : After(m, was) => m = n \/ After(m, n)
  PROVE  Rank(S, n) = Rank(S, was) + 1
<1>1. n \notin Upto(S, was)
  BY DEF Upto
<1>2. Upto(S, n) = Upto(S, was) \cup {n}
  <2>1. ASSUME NEW m \in S, After(m, n) PROVE After(m, was)
    <3>1. m \in Seq(Nat) /\ n \in Seq(Nat) /\ was \in Seq(Nat)
      BY NamesAre
    <3> QED
      BY <2>1, <3>1, AfterTransitive
  <2>2. ~ After(n, n)
    BY NamesAre, AfterIrreflexive
  <2> QED
    BY <2>1, <2>2 DEF Upto
<1>3. Cardinality(Upto(S, was) \cup {n}) = Cardinality(Upto(S, was)) + 1
  BY <1>1, RankIs, FS_AddElement
<1> QED
  BY <1>2, <1>3, RankIs

\* A later name has a greater rank.
LEMMA RankLess ==
  ASSUME NEW S \in SUBSET Names, NEW was \in Names \cup {<<>>}, NEW n \in S, After(n, was)
  PROVE  Rank(S, was) < Rank(S, n)
<1>1. n \notin Upto(S, was)
  BY DEF Upto
<1>2. Upto(S, was) \cup {n} \subseteq Upto(S, n)
  <2>1. ASSUME NEW m \in S, After(m, n) PROVE After(m, was)
    <3>1. m \in Seq(Nat) /\ n \in Seq(Nat) /\ was \in Seq(Nat)
      BY NamesAre
    <3> QED
      BY <2>1, <3>1, AfterTransitive
  <2>2. ~ After(n, n)
    BY NamesAre, AfterIrreflexive
  <2> QED
    BY <2>1, <2>2 DEF Upto
<1>3. Cardinality(Upto(S, was) \cup {n}) = Cardinality(Upto(S, was)) + 1
  BY <1>1, RankIs, FS_AddElement
<1>4. Cardinality(Upto(S, was) \cup {n}) <= Cardinality(Upto(S, n))
  BY <1>2, RankIs, FS_Subset
<1>5. Rank(S, was) = Cardinality(Upto(S, was)) /\ Rank(S, n) = Cardinality(Upto(S, n)) /\ Rank(S, was) \in Nat /\ Rank(S, n) \in Nat
  BY RankIs
<1> QED
  BY <1>3, <1>4, <1>5

\* The last name has the greatest.
LEMMA RankAll ==
  ASSUME NEW S \in SUBSET Names, NEW n, \A s \in S : ~ After(s, n)
  PROVE  Rank(S, n) = Cardinality(S)
<1>1. Upto(S, n) = S
  BY DEF Upto
<1> QED
  BY <1>1, RankIs

\* No rank is greater than the number of names.
LEMMA RankMost ==
  ASSUME NEW S \in SUBSET Names, NEW n
  PROVE  Rank(S, n) <= Cardinality(S)
<1>1. Upto(S, n) \subseteq S
  BY DEF Upto
<1> QED
  BY <1>1, RankIs, FS_Subset

\* A name before all has none.
LEMMA RankNone ==
  ASSUME NEW S \in SUBSET Names, NEW was, \A s \in S : After(s, was)
  PROVE  Rank(S, was) = 0
<1>1. Upto(S, was) = {}
  BY DEF Upto
<1> QED
  BY <1>1, RankIs, FS_EmptySet

\* The names of a page come after all those before them in it.
LEMMA PageOrder ==
  ASSUME NEW page \in Seq(Names), AscendingPage(page)
  PROVE  \A i, j \in 1 .. Len(page) : i < j => After(page[j], page[i])
<1> DEFINE n == Len(page)
<1>1. n \in Nat /\ \A i \in 1 .. n : page[i] \in Names
  BY LenProperties, ElementOfSeq
<1>2. \A i \in 2 .. n : After(page[i], page[i - 1])
  BY DEF AscendingPage
<1> HIDE DEF n
<1> SUFFICES ASSUME NEW i \in 1 .. n PROVE \A j \in 1 .. n : i < j => After(page[j], page[i])
  BY DEF n
<1> DEFINE P == {j \in 0 .. n : i < j => After(page[j], page[i])}
<1>3. 0 \in P
  BY <1>1
<1>4. ASSUME NEW j \in 1 .. n, j - 1 \in P PROVE j \in P
  <2>0. j \in 0 .. n
    BY <1>1
  <2> SUFFICES ASSUME i < j PROVE After(page[j], page[i])
    BY <2>0
  <2>1. j \in 2 .. n
    BY <1>1
  <2>2. After(page[j], page[j - 1])
    BY <1>2, <2>1
  <2>3. CASE i = j - 1
    BY <2>2, <2>3
  <2>4. CASE i # j - 1
    <3>1. i < j - 1 /\ j - 1 \in 1 .. n
      BY <1>1, <2>1, <2>4
    <3>2. After(page[j - 1], page[i])
      BY <1>4, <3>1
    <3>3. page[j] \in Seq(Nat) /\ page[j - 1] \in Seq(Nat) /\ page[i] \in Seq(Nat)
      BY <1>1, <3>1, NamesAre
    <3> QED
      BY <2>2, <3>2, <3>3, AfterTransitive
  <2> QED
    BY <2>3, <2>4
<1>5. \A j \in 0 .. n : j \in P
  <2> HIDE DEF P
  <2> QED
    BY <1>1, <1>3, <1>4, Along
<1> QED
  BY <1>1, <1>5

\* The name before one of a page, or the one the page was made for.
Prior(page, after, k) == IF k = 1 THEN after ELSE page[k - 1]

\* The next name of a page that covers a directory has the next rank in that
\* directory.
LEMMA NextName ==
  ASSUME NEW S \in SUBSET Names, NEW page \in Seq(Names), NEW after \in Names \cup {<<>>}, NEW lossy,
         AscendingPage(page), \A i \in 1 .. Len(page) : After(page[i], after),
         Covers(page, after, S, lossy), NEW k \in 1 .. Len(page)
  PROVE  Rank(S, page[k]) = Rank(S, Prior(page, after, k)) + 1
<1> DEFINE n == Len(page)
           was == Prior(page, after, k)
<1>1. n \in Nat /\ \A i \in 1 .. n : page[i] \in Names
  BY LenProperties, ElementOfSeq
<1>2. \A i, j \in 1 .. n : i < j => After(page[j], page[i])
  BY PageOrder
<1>20. (k = 1 => was = after) /\ (k # 1 => was = page[k - 1])
  BY DEF Prior
<1> HIDE DEF was
<1>3. was \in Names \cup {<<>>} /\ After(page[k], was) /\ (was = after \/ (k - 1 \in 1 .. n /\ was = page[k - 1]))
  <2>1. CASE k = 1
    BY <1>20, <2>1
  <2>2. CASE k # 1
    <3>1. k - 1 \in 1 .. n /\ k - 1 < k
      BY <1>1, <2>2
    <3> QED
      BY <1>1, <1>2, <1>20, <2>2, <3>1
  <2> QED
    BY <2>1, <2>2
<1>4. page[k] \in S
  BY DEF Covers
<1>5. ASSUME NEW m \in S, After(m, was) PROVE m = page[k] \/ After(m, page[k])
  <2>0. \A a, b, c \in Names \cup {<<>>} : After(a, b) /\ After(b, c) => After(a, c)
    BY NamesAre, AfterTransitive
  <2>00. \A a \in Names \cup {<<>>} : ~ After(a, a)
    BY NamesAre, AfterIrreflexive
  <2>1. After(m, after)
    <3>1. was # after => After(was, after)
      BY <1>3
    <3> QED
      BY <1>3, <1>5, <2>0, <3>1
  <2>2. CASE \E i \in 1 .. n : page[i] = m
    <3>1. PICK i \in 1 .. n : page[i] = m
      BY <2>2
    <3>2. CASE i < k
      <4>1. i = k - 1 \/ i < k - 1
        BY <1>1, <3>2
      <4>2. k # 1 /\ was = page[k - 1] /\ k - 1 \in 1 .. n
        BY <1>1, <1>20, <3>2
      <4>3. i < k - 1 => After(page[k - 1], m)
        BY <1>2, <3>1, <4>2
      <4>4. i < k - 1 => After(page[k - 1], page[k - 1])
        BY <1>1, <1>5, <2>0, <4>2, <4>3
      <4> QED
        BY <1>1, <1>5, <2>00, <3>1, <4>1, <4>2, <4>4
    <3>3. CASE k < i
      BY <1>2, <3>1, <3>3
    <3>4. CASE i = k
      BY <3>1, <3>4
    <3> QED
      BY <1>1, <3>2, <3>3, <3>4
  <2>3. CASE n = 2 ^ Power /\ After(m, page[2 ^ Power])
    <3>1. n \in 1 .. n /\ After(m, page[n])
      BY <1>1, <2>3
    <3>2. k = n \/ After(page[n], page[k])
      BY <1>1, <1>2, <3>1
    <3> QED
      BY <1>1, <2>0, <3>1, <3>2
  <2> QED
    BY <2>1, <2>2, <2>3 DEF Covers
<1>6. Rank(S, page[k]) = Rank(S, was) + 1
  BY <1>3, <1>4, <1>5, RankStep
<1> QED
  BY <1>6 DEF was

-----------------------------------------------------------------------------
(***************************************************************************)
(* The steps of a call and of the host.                                    *)
(***************************************************************************)

(***************************************************************************)
(* The static variables.                                                   *)
(***************************************************************************)
\* A store with nothing in it (startPacking).
Blank(t) == t.entries = <<>> /\ t.ptr = 0 /\ t.prevID = Bytes(0) /\ t.prevName = <<>>

\* With nothing in the store the static variables are in order.
LEMMA BlankOK ==
  ASSUME NEW s \in Sorteds, SortedOK(s), NEW t \in Sorteds, Blank(t), t.page = s.page, t.after = s.after,
         t.lastIndex <= Rank(Names, t.lastName), t.far => t.lastCNID = 0
  PROVE  SortedOK(t)
<1>1. PageOK(t)
  BY DEF SortedOK, PageOK
<1>2. t.entries = <<>> /\ Len(t.entries) = 0 /\ PackedSize(t.entries) = 0
  BY EmptySeq, SizeEmpty DEF Blank
<1>3. StoreOK(t.entries, t.page)
  <2>1. Len(t.page) \in Nat
    BY LenProperties DEF Sorteds
  <2>2. 0 <= Room
    BY SortDirAssumption
  <2> QED
    BY <1>2, <2>1, <2>2 DEF StoreOK
<1>4. PlaceOK(t)
  BY <1>2 DEF Blank, PlaceOK, Before, IdBefore
<1> QED
  BY <1>1, <1>2, <1>3, <1>4 DEF SortedOK

\* What startPacking and startUnpacking leave.
LEMMA EmptiedIs ==
  ASSUME NEW s \in Sorteds, NEW t, t = Emptied(s)
  PROVE  /\ t \in Sorteds /\ Blank(t) /\ t.page = s.page /\ t.after = s.after
         /\ t.lastCNID = s.lastCNID /\ t.lastIndex = s.lastIndex /\ t.far = s.far /\ t.lastDirOK = s.lastDirOK
         /\ t.complete = s.complete /\ t.lastName = s.lastName /\ t.child = s.child
<1>1. Bytes(0) \in Seq(Values) /\ <<>> \in Seq(Entries)
  BY BytesAre, EmptySeq DEF Ids
<1>2. t = [s EXCEPT !.entries = <<>>, !.ptr = 0, !.prevID = Bytes(0), !.prevName = <<>>]
  BY DEF Emptied
<1> DEFINE z == Bytes(0)
           e == <<>>
<1>3. z \in Seq(Values) /\ e \in Seq(Entries) /\ e \in Names \cup {<<>>} /\ 0 \in Nat
  BY <1>1
<1>4. t = [s EXCEPT !.entries = e, !.ptr = 0, !.prevID = z, !.prevName = e]
  BY <1>2
<1> HIDE DEF z, e
<1>5. t \in Sorteds
  BY <1>3, <1>4 DEF Sorteds
<1>6. /\ t.entries = e /\ t.ptr = 0 /\ t.prevID = z /\ t.prevName = e
      /\ t.page = s.page /\ t.after = s.after
      /\ t.lastCNID = s.lastCNID /\ t.lastIndex = s.lastIndex /\ t.far = s.far /\ t.lastDirOK = s.lastDirOK
      /\ t.complete = s.complete /\ t.lastName = s.lastName /\ t.child = s.child
  BY <1>4 DEF Sorteds
<1> QED
  BY <1>5, <1>6 DEF Blank, z, e

\* What unpacking needs of the store, and what it gives.
Readable(s) ==
  /\ StoreOK(s.entries, s.page) /\ s.ptr < Len(s.entries)
  /\ s.prevName = Before(s.page, s.ptr + 1) /\ s.prevID = IdBefore(s.page, s.ptr + 1)

\* What is unpacked is the next name of the page, with its CNID (unpack).
LEMMA UnpackedIs ==
  ASSUME NEW s \in Sorteds, Readable(s), NEW t, t = Unpacked(s)
  PROVE  /\ t \in Sorteds /\ s.ptr + 1 \in 1 .. Len(s.page) /\ s.page[s.ptr + 1] \in Names
         /\ t.ptr = s.ptr + 1 /\ t.lastName = s.page[s.ptr + 1] /\ t.prevName = t.lastName
         /\ t.child = Bytes(Id[t.lastName]) /\ t.prevID = t.child
         /\ t.entries = s.entries /\ t.page = s.page /\ t.after = s.after
         /\ t.lastCNID = s.lastCNID /\ t.lastIndex = s.lastIndex /\ t.far = s.far /\ t.lastDirOK = s.lastDirOK
         /\ t.complete = s.complete
<1> DEFINE k == s.ptr + 1
           e == s.entries[k]
           name == SubSeq(s.prevName, 1, e.reuseName) \o e.name
           id == SubSeq(s.prevID, 1, e.reuseID) \o e.id
<1>1. s.ptr \in Nat /\ Len(s.entries) \in Nat /\ Len(s.page) \in Nat
  BY LenProperties DEF Sorteds
<1>2. k \in 1 .. Len(s.entries) /\ k \in 1 .. Len(s.page)
  BY <1>1 DEF Readable, StoreOK
<1>3. s.page[k] \in Names
  <2>1. s.page \in Seq(Names)
    BY DEF Sorteds
  <2> QED
    BY <1>2, <2>1, ElementOfSeq
<1>4. Follows(e, Before(s.page, k), s.page[k], IdBefore(s.page, k), Bytes(Id[s.page[k]]))
  BY <1>2 DEF Readable, StoreOK
<1>5. name = s.page[k] /\ id = Bytes(Id[s.page[k]])
  <2>1. s.prevName = Before(s.page, k) /\ s.prevID = IdBefore(s.page, k)
    BY DEF Readable
  <2> HIDE DEF k
  <2> QED
    BY <1>4, <2>1 DEF Follows
<1>6. t = [s EXCEPT !.ptr = @ + 1, !.prevID = id, !.prevName = name, !.child = id, !.lastName = name]
  BY DEF Unpacked
<1>7. id \in Seq(Values) /\ name \in Names
  <2>1. Id[s.page[k]] \in Ids
    BY <1>3 DEF Ids
  <2> QED
    BY <1>3, <1>5, <2>1, BytesAre
<1>8. s.ptr + 1 = k /\ k \in Nat
  BY <1>1
<1> HIDE DEF k, name, id
<1>9. t = [s EXCEPT !.ptr = k, !.prevID = id, !.prevName = name, !.child = id, !.lastName = name]
  BY <1>6, <1>8
<1>10. t \in Sorteds
  BY <1>7, <1>8, <1>9 DEF Sorteds
<1>11. /\ t.ptr = k /\ t.lastName = name /\ t.prevName = name /\ t.child = id /\ t.prevID = id
       /\ t.entries = s.entries /\ t.page = s.page /\ t.after = s.after
       /\ t.lastCNID = s.lastCNID /\ t.lastIndex = s.lastIndex /\ t.far = s.far /\ t.lastDirOK = s.lastDirOK
       /\ t.complete = s.complete
  BY <1>9 DEF Sorteds
<1> QED
  BY <1>2, <1>3, <1>5, <1>8, <1>10, <1>11

\* It comes after the one before it, and the place in the store is one further
\* on.
LEMMA UnpackedOK ==
  ASSUME NEW s \in Sorteds, Readable(s), PageOK(s), s.lastIndex <= Rank(Names, s.lastName),
         s.far => s.lastCNID = 0, s.lastCNID # 0, s.lastName = Prior(s.page, s.after, s.ptr + 1),
         NEW t, t = Unpacked(s)
  PROVE  SortedOK(t) /\ After(t.lastName, s.lastName) /\ s.lastIndex < Rank(Names, t.lastName)
<1> DEFINE k == s.ptr + 1
<1>1. /\ t \in Sorteds /\ k \in 1 .. Len(s.page) /\ s.page[k] \in Names
      /\ t.ptr = k /\ t.lastName = s.page[k] /\ t.prevName = t.lastName
      /\ t.child = Bytes(Id[t.lastName]) /\ t.prevID = t.child
      /\ t.entries = s.entries /\ t.page = s.page /\ t.after = s.after
      /\ t.lastCNID = s.lastCNID /\ t.lastIndex = s.lastIndex /\ t.far = s.far
  BY UnpackedIs
<1>2. s.ptr \in Nat /\ Len(s.entries) \in Nat /\ s.page \in Seq(Names) /\ s.ptr < Len(s.entries) /\ s.lastIndex \in Nat
      /\ s.lastName \in Names \cup {<<>>}
  BY LenProperties DEF Sorteds, Readable
<1>3. StoreOK(t.entries, t.page) /\ PageOK(t)
  BY <1>1 DEF Readable, PageOK
<1>4. PlaceOK(t)
  <2>1. k <= Len(s.entries) /\ k > 0 /\ k + 1 # 1 /\ (k + 1) - 1 = k
    BY <1>2
  <2> HIDE DEF k
  <2>2. Before(t.page, t.ptr + 1) = s.page[k] /\ IdBefore(t.page, t.ptr + 1) = Bytes(Id[s.page[k]])
    BY <1>1, <2>1 DEF Before, IdBefore
  <2> QED
    BY <1>1, <2>1, <2>2 DEF PlaceOK
<1>5. After(t.lastName, s.lastName)
  <2>1. CASE k = 1
    <3>1. s.lastName = s.after
      BY <2>1 DEF Prior
    <3>2. After(s.page[k], s.after)
      BY <1>1 DEF PageOK
    <3> QED
      BY <1>1, <3>1, <3>2
  <2>2. CASE k # 1
    <3>1. s.lastName = s.page[k - 1] /\ k \in 2 .. Len(s.page)
      <4> HIDE DEF k
      <4>1. s.lastName = Prior(s.page, s.after, k)
        BY DEF k
      <4> QED
        BY <1>1, <2>2, <4>1 DEF Prior
    <3>2. After(s.page[k], s.page[k - 1])
      BY <3>1 DEF PageOK, AscendingPage
    <3> QED
      BY <1>1, <3>1, <3>2
  <2> QED
    BY <2>1, <2>2
<1>6. s.lastIndex < Rank(Names, t.lastName)
  <2>1. t.lastName \in Names /\ Names \in SUBSET Names
    BY <1>1
  <2>2. Rank(Names, s.lastName) < Rank(Names, t.lastName)
    BY <1>2, <1>5, <2>1, RankLess
  <2>3. Rank(Names, s.lastName) \in Nat /\ Rank(Names, t.lastName) \in Nat
    BY <2>1, RankIs
  <2> QED
    BY <1>2, <2>2, <2>3
<1>7. t.lastIndex <= Rank(Names, t.lastName)
  <2>1. Rank(Names, t.lastName) \in Nat
    BY RankIs
  <2> QED
    BY <1>1, <1>2, <1>6, <2>1
<1> QED
  BY <1>1, <1>3, <1>4, <1>5, <1>6, <1>7 DEF SortedOK

\* Before the first call there is nothing in the store.
LEMMA Started == ASSUME SortInit PROVE SortIInv
<1> DEFINE z == Bytes(0)
           e == <<>>
<1>1. z \in Seq(Values) /\ e \in Seq(Entries) /\ e \in Seq(Values) /\ e \in Names \cup {<<>>} /\ e \in Seq(Names)
      /\ 0 \in Nat /\ Len(e) = 0 /\ 2 ^ Power \in Nat
  BY BytesAre, EmptySeq, SortDirAssumption DEF Ids
<1>2. /\ host = [dir \in SortDirs |-> Names] /\ gone = {}
      /\ sorted = [lastCNID |-> 0, lastIndex |-> 0, far |-> FALSE, lastDirOK |-> FALSE,
                   complete |-> FALSE, lastName |-> e, child |-> e,
                   entries |-> e, ptr |-> 0, prevID |-> z, prevName |-> e,
                   page |-> e, after |-> e]
      /\ call = [pc |-> "idle", dir |-> 0, index |-> 0, dirOK |-> FALSE]
      /\ evicted = FALSE /\ stable = TRUE /\ answer.what = "none"
  BY DEF SortInit, Idle, Nothing
<1>3. z = Bytes(0) /\ e = <<>>
  OBVIOUS
<1> HIDE DEF z, e
<1>4. TypesOK
  <2>1. sorted \in Sorteds
    BY <1>1, <1>2 DEF Sorteds
  <2>2. call \in Calls
    BY <1>2 DEF Calls
  <2> QED
    BY <1>2, <2>1, <2>2 DEF TypesOK
<1>5. SortedOK(sorted)
  <2>1. StoreOK(e, e)
    BY <1>1, <1>3, SizeEmpty, SortDirAssumption DEF StoreOK
  <2>2. PageOK(sorted)
    BY <1>1, <1>2 DEF PageOK, AscendingPage
  <2>3. PlaceOK(sorted)
    <3>1. Before(e, 0 + 1) = e /\ IdBefore(e, 0 + 1) = z
      BY <1>3 DEF Before, IdBefore
    <3> QED
      BY <1>1, <1>2, <1>3, <3>1 DEF PlaceOK
  <2>4. Rank(Names, sorted.lastName) \in Nat
    BY RankIs
  <2> QED
    BY <1>2, <1>3, <2>1, <2>2, <2>3, <2>4 DEF SortedOK
<1>6. CallOK
  BY <1>2 DEF CallOK, Steady
<1>7. StableOK
  BY <1>2, SortDirAssumption DEF StableOK
<1>8. AnswerOK
  BY <1>2 DEF AnswerOK, ListingTrue, EndTrueUnlessEvicted
<1> QED
  BY <1>4, <1>5, <1>6, <1>7, <1>8 DEF SortIInv

\* An error says nothing of what is in the directory, nor does an answer about
\* one that has changed.
LEMMA NoClaim ==
  ASSUME answer'.what \in {"none", "dirNFErr"} \/ ~ stable'
  PROVE  AnswerOK'
  BY DEF AnswerOK, ListingTrue, EndTrueUnlessEvicted

\* No answer is no claim.
LEMMA NothingIs == Nothing.what = "none"
  BY DEF Nothing

\* What is listed are names.
LEMMA ShownAre == ASSUME TypesOK, NEW d \in SortDirs, NEW ok PROVE Visible(d, ok) \subseteq Names
  BY DEF TypesOK, Visible

\* A call starts again unless it goes on in the same directory (ReadDirSorted,
\* before its loop).
LEMMA CallListKeeps ==
  ASSUME SortIInv, NEW dir \in SortDirs, NEW index \in Indexes, NEW dirOK \in BOOLEAN, CallList(dir, index, dirOK)
  PROVE  SortIInv'
<1>1. /\ host \in [SortDirs -> SUBSET Names] /\ gone \subseteq SortDirs /\ \A d \in gone : host[d] = {}
      /\ sorted \in Sorteds /\ call \in Calls /\ evicted \in BOOLEAN /\ stable \in BOOLEAN
      /\ SortedOK(sorted) /\ TypesOK
  BY DEF SortIInv, TypesOK
<1>2. host' = host /\ gone' = gone /\ call.pc = "idle"
  BY DEF CallList
<1>3. index \in Nat /\ index > 0 /\ dir # 0
  BY SortDirAssumption
<1>4. \A n : Rank(Names, n) \in Nat
  BY RankIs
<1>5. CASE Changed(dir, dirOK) /\ dir \in gone
  <2> DEFINE s == Emptied(sorted)
             e == <<>>
  <2>1. /\ sorted' = [s EXCEPT !.lastCNID = 0, !.lastIndex = 0, !.far = TRUE, !.lastName = e]
        /\ answer' = [Nothing EXCEPT !.what = "dirNFErr", !.dir = dir]
        /\ call' = call /\ stable' = stable /\ evicted' = evicted
    BY <1>5 DEF CallList
  <2>2. s \in Sorteds /\ Blank(s) /\ s.page = sorted.page /\ s.after = sorted.after
    BY <1>1, EmptiedIs
  <2>3. e \in Names \cup {<<>>}
    OBVIOUS
  <2> HIDE DEF s, e
  <2>4. sorted' \in Sorteds
    BY <2>1, <2>2, <2>3 DEF Sorteds
  <2>5. Blank(sorted') /\ sorted'.page = sorted.page /\ sorted'.after = sorted.after
        /\ sorted'.lastCNID = 0 /\ sorted'.lastIndex = 0
    BY <2>1, <2>2 DEF Sorteds, Blank
  <2>6. SortedOK(sorted')
    <3> DEFINE t == sorted'
    <3>1. t \in Sorteds /\ Blank(t) /\ t.page = sorted.page /\ t.after = sorted.after
          /\ t.lastIndex <= Rank(Names, t.lastName) /\ (t.far => t.lastCNID = 0)
      BY <1>4, <2>4, <2>5
    <3> HIDE DEF t
    <3>2. SortedOK(t)
      BY <1>1, <3>1, BlankOK
    <3> QED
      BY <3>2 DEF t
  <2>7. TypesOK'
    BY <1>1, <1>2, <2>1, <2>4 DEF TypesOK
  <2>8. call'.pc = "idle"
    BY <1>2, <2>1
  <2>9. CallOK'
    BY <2>8 DEF CallOK, Steady
  <2>10. StableOK'
    BY <2>5, SortDirAssumption DEF StableOK
  <2>11. AnswerOK'
    <3>1. answer'.what = "dirNFErr"
      BY <2>1 DEF Nothing
    <3> QED
      BY <3>1, NoClaim
  <2> QED
    BY <2>6, <2>7, <2>9, <2>10, <2>11 DEF SortIInv
<1>6. CASE ~ (Changed(dir, dirOK) /\ dir \in gone)
  <2> DEFINE fresh == Changed(dir, dirOK) \/ sorted.far \/ index <= sorted.lastIndex
             s == [sorted EXCEPT !.lastCNID = dir, !.lastDirOK = dirOK, !.far = FALSE]
             r == Emptied(s)
             e == <<>>
  <2>1. /\ sorted' = IF fresh THEN [r EXCEPT !.lastIndex = 0, !.lastName = e, !.complete = FALSE] ELSE s
        /\ call' = [pc |-> "unpack", dir |-> dir, index |-> index, dirOK |-> dirOK]
        /\ stable' = (fresh \/ stable) /\ evicted' = (evicted /\ ~ fresh) /\ answer' = Nothing
    BY <1>6 DEF CallList
  <2>2. s \in Sorteds /\ s.page = sorted.page /\ s.after = sorted.after /\ s.lastCNID = dir /\ s.lastDirOK = dirOK
        /\ s.far = FALSE
    BY <1>1 DEF Sorteds
  <2> HIDE DEF s
  <2>3. r \in Sorteds /\ Blank(r) /\ r.page = s.page /\ r.after = s.after /\ r.lastCNID = dir /\ r.lastDirOK = dirOK
        /\ r.far = FALSE
    BY <2>2, EmptiedIs
  <2>4. e \in Names \cup {<<>>}
    OBVIOUS
  <2> HIDE DEF r, fresh
  <2>5. call' \in Calls /\ call'.pc = "unpack" /\ call'.dir = dir /\ call'.index = index /\ call'.dirOK = dirOK
    BY <1>3, <2>1 DEF Calls, Steady
  <2>6. CASE fresh
    <3> HIDE DEF e
    <3>1. sorted' \in Sorteds
      BY <2>1, <2>3, <2>4, <2>6 DEF Sorteds
    <3>2. Blank(sorted') /\ sorted'.page = sorted.page /\ sorted'.after = sorted.after
          /\ sorted'.lastCNID = dir /\ sorted'.lastDirOK = dirOK /\ sorted'.lastIndex = 0 /\ sorted'.far = FALSE
          /\ sorted'.complete = FALSE /\ sorted'.lastName = e
      BY <2>1, <2>2, <2>3, <2>6 DEF Sorteds, Blank
    <3>3. SortedOK(sorted')
      <4> DEFINE t == sorted'
      <4>1. t \in Sorteds /\ Blank(t) /\ t.page = sorted.page /\ t.after = sorted.after
            /\ t.lastIndex <= Rank(Names, t.lastName) /\ (t.far => t.lastCNID = 0)
        BY <1>4, <3>1, <3>2
      <4> HIDE DEF t
      <4>2. SortedOK(t)
        BY <1>1, <4>1, BlankOK
      <4> QED
        BY <4>2 DEF t
    <3>4. TypesOK'
      BY <1>1, <1>2, <2>1, <2>5, <3>1 DEF TypesOK
    <3>5. CallOK'
      BY <1>3, <2>1, <2>5, <3>2 DEF CallOK, Steady
    <3>6. StableOK'
      <4>1. Here' \in SUBSET Names
        BY <1>1, <1>2, <3>2 DEF Here, Visible
      <4>2. \A n \in Here' : After(n, e)
        BY <4>1, AfterEmpty DEF e
      <4>3. Rank(Here', e) = 0
        <5> DEFINE S == Here'
        <5>1. S \in SUBSET Names /\ \A n \in S : After(n, e)
          BY <4>1, <4>2
        <5> HIDE DEF S
        <5>2. Rank(S, e) = 0
          BY <5>1, RankNone
        <5> QED
          BY <5>2 DEF S
      <4>4. sorted'.entries = <<>>
        BY <3>2 DEF Blank
      <4>5. call'.pc # "walk" /\ call'.pc # "pass"
        BY <2>5
      <4> HIDE DEF e
      <4> QED
        BY <3>2, <4>3, <4>4, <4>5 DEF StableOK
    <3>7. AnswerOK'
      BY <2>1, NothingIs, NoClaim
    <3> QED
      BY <3>3, <3>4, <3>5, <3>6, <3>7 DEF SortIInv
  <2>7. CASE ~ fresh
    <3>1. sorted.lastCNID = dir /\ sorted.lastDirOK = dirOK /\ sorted.far = FALSE /\ sorted.lastIndex < index
      BY <1>1, <1>3, <2>7 DEF fresh, Changed, Sorteds
    <3>2. sorted' = sorted
      <4>1. sorted' = s
        BY <2>1, <2>7
      <4>2. s = sorted
        BY <1>1, <3>1 DEF s, Sorteds
      <4> QED
        BY <4>1, <4>2
    <3>3. stable' = stable /\ evicted' = evicted
      BY <1>1, <2>1, <2>7
    <3>4. TypesOK'
      BY <1>1, <1>2, <2>5, <3>2, <3>3 DEF TypesOK
    <3>5. CallOK'
      BY <2>1, <2>5, <3>1, <3>2 DEF CallOK, Steady
    <3>6. StableOK'
      <4>1. Here' = Here
        BY <1>2, <3>2 DEF Here, Visible
      <4>2. StableOK
        BY DEF SortIInv
      <4> QED
        BY <1>2, <2>5, <3>2, <3>3, <4>1, <4>2 DEF StableOK
    <3>7. AnswerOK'
      BY <2>1, NothingIs, NoClaim
    <3>8. SortedOK(sorted')
      BY <1>1, <3>2
    <3> QED
      BY <3>4, <3>5, <3>6, <3>7, <3>8 DEF SortIInv
  <2> QED
    BY <2>6, <2>7
<1> QED
  BY <1>5, <1>6

\* An index past the last name is greater than the number of names.
LEMMA AtEnd ==
  ASSUME NEW S \in SUBSET Names, NEW n, NEW i \in Nat, i = Rank(S, n), \A s \in S : ~ After(s, n), NEW index \in Nat, i < index
  PROVE  index > Cardinality(S)
<1>1. Rank(S, n) = Cardinality(S)
  BY RankAll
<1> QED
  BY <1>1

\* No name of a directory comes after the last one of a page that has all the
\* rest of it.
LEMMA PageEnds ==
  ASSUME NEW S \in SUBSET Names, NEW page \in Seq(Names), NEW after \in Names \cup {<<>>}, AscendingPage(page),
         \A i \in 1 .. Len(page) : After(page[i], after), Covers(page, after, S, FALSE), Len(page) > 0
  PROVE  \A s \in S : ~ After(s, page[Len(page)])
<1> DEFINE n == Len(page)
<1>1. n \in Nat /\ n \in 1 .. n /\ \A i \in 1 .. n : page[i] \in Names
  BY LenProperties, ElementOfSeq
<1>2. \A i, j \in 1 .. n : i < j => After(page[j], page[i])
  BY PageOrder
<1> SUFFICES ASSUME NEW s \in S, After(s, page[n]) PROVE FALSE
  OBVIOUS
<1>3. s \in Seq(Nat) /\ page[n] \in Seq(Nat) /\ after \in Seq(Nat) /\ After(page[n], after)
  BY <1>1, NamesAre
<1>4. After(s, after)
  BY <1>3, AfterTransitive
<1>5. PICK i \in 1 .. n : page[i] = s
  BY <1>4 DEF Covers
<1>6. CASE i = n
  BY <1>3, <1>5, <1>6, AfterIrreflexive
<1>7. CASE i # n
  <2>1. After(page[n], s)
    BY <1>1, <1>2, <1>5, <1>7
  <2>2. After(s, s)
    BY <1>3, <2>1, AfterTransitive
  <2> QED
    BY <1>3, <2>2, AfterIrreflexive
<1> QED
  BY <1>6, <1>7

\* An iteration of ReadDirSorted takes the next name from the store, ends at the
\* end, or asks for a pass.
LEMMA UnpackKeeps ==
  ASSUME SortIInv, Unpack
  PROVE  SortIInv' /\ (call'.pc = "walk" => After(sorted'.lastName, sorted.lastName)) /\ sorted'.lastIndex = sorted.lastIndex
<1>1. /\ host \in [SortDirs -> SUBSET Names] /\ gone \subseteq SortDirs /\ \A d \in gone : host[d] = {}
      /\ sorted \in Sorteds /\ call \in Calls /\ evicted \in BOOLEAN /\ stable \in BOOLEAN
      /\ SortedOK(sorted) /\ TypesOK /\ StableOK
  BY DEF SortIInv, TypesOK
<1>2. /\ host' = host /\ gone' = gone /\ call.pc = "unpack" /\ evicted' = evicted /\ stable' = stable
      /\ board' = board /\ seen' = seen
  BY DEF Unpack
<1>3. /\ sorted.lastIndex < call.index /\ call.dir = sorted.lastCNID /\ call.dir \in SortDirs
      /\ call.dirOK = sorted.lastDirOK /\ answer = Nothing
  BY <1>2 DEF SortIInv, CallOK, Steady
<1>4. /\ StoreOK(sorted.entries, sorted.page) /\ PageOK(sorted) /\ PlaceOK(sorted)
      /\ sorted.lastIndex <= Rank(Names, sorted.lastName) /\ (sorted.far => sorted.lastCNID = 0)
  BY <1>1 DEF SortedOK
<1>5. /\ sorted.ptr \in Nat /\ sorted.page \in Seq(Names) /\ sorted.lastIndex \in Nat /\ call.index \in Nat
      /\ Len(sorted.entries) \in Nat /\ sorted.lastName \in Names \cup {<<>>} /\ sorted.after \in Names \cup {<<>>}
      /\ Len(sorted.page) \in Nat /\ sorted.complete \in BOOLEAN /\ sorted.entries \in Seq(Entries)
  BY <1>1, LenProperties DEF Sorteds, Calls
<1>6. Here \in SUBSET Names 
  BY <1>1, <1>3 DEF Here, Visible
<1>7. sorted.ptr > 0 => sorted.lastName = Prior(sorted.page, sorted.after, sorted.ptr + 1)
  <2> SUFFICES ASSUME sorted.ptr > 0 PROVE sorted.lastName = Prior(sorted.page, sorted.after, sorted.ptr + 1)
    OBVIOUS
  <2>1. sorted.ptr + 1 # 1
    BY <1>5
  <2> QED
    BY <1>4, <2>1 DEF PlaceOK, Prior, Before
<1>8. stable => sorted.lastIndex = Rank(Here, sorted.lastName)
  BY <1>1, <1>2, <1>3 DEF StableOK
<1>9. Here' = Here \/ sorted'.lastCNID # sorted.lastCNID \/ sorted'.lastDirOK # sorted.lastDirOK
  BY <1>2 DEF Here, Visible
<1>10. CASE Unpackable(sorted)
  <2>1. sorted' = Unpacked(sorted) /\ call' = [call EXCEPT !.pc = "walk"] /\ answer' = answer
    BY <1>10 DEF Unpack
  <2>2. Readable(sorted) /\ sorted.entries # <<>> /\ sorted.ptr > 0
    <3>1. sorted.ptr < Len(sorted.entries)
      BY <1>10 DEF Unpackable
    <3>2. sorted.entries # <<>>
      <4> SUFFICES ASSUME sorted.entries = <<>> PROVE FALSE
        OBVIOUS
      <4>1. Len(sorted.entries) = 0
        BY EmptySeq
      <4> QED
        BY <1>5, <3>1, <4>1
    <3> QED
      BY <1>4, <3>1, <3>2 DEF PlaceOK, Readable
  <2> DEFINE t == sorted'
             k == sorted.ptr + 1
  <2>3. t = Unpacked(sorted)
    BY <2>1
  <2> HIDE DEF t
  <2>4. /\ t \in Sorteds /\ k \in 1 .. Len(sorted.page)
        /\ t.ptr = k /\ t.lastName = sorted.page[k]
        /\ t.entries = sorted.entries /\ t.page = sorted.page /\ t.after = sorted.after
        /\ t.lastCNID = sorted.lastCNID /\ t.lastIndex = sorted.lastIndex /\ t.lastDirOK = sorted.lastDirOK
        /\ t.complete = sorted.complete
    BY <1>1, <2>2, <2>3, UnpackedIs
  <2>5. SortedOK(t) /\ After(t.lastName, sorted.lastName) /\ sorted.lastIndex < Rank(Names, t.lastName)
    <3>1. sorted.lastCNID # 0
      BY <1>3, SortDirAssumption
    <3>2. sorted.lastName = Prior(sorted.page, sorted.after, sorted.ptr + 1)
      BY <1>7, <2>2
    <3> QED
      BY <1>1, <1>4, <2>2, <2>3, <3>1, <3>2, UnpackedOK
  <2>6. call' \in Calls /\ call'.pc = "walk" /\ call'.dir = call.dir /\ call'.index = call.index /\ call'.dirOK = call.dirOK
    BY <1>1, <2>1 DEF Calls, Steady
  <2>7. TypesOK'
    BY <1>1, <1>2, <2>4, <2>6 DEF TypesOK, t
  <2>8. CallOK'
    <3>1. k > 0
      BY <1>5
    <3> QED
      BY <1>3, <2>1, <2>4, <2>5, <2>6, <3>1 DEF CallOK, Steady, t
  <2>9. Here' = Here
    BY <1>9, <2>4 DEF t
  <2>10. StableOK'
    <3> SUFFICES ASSUME stable, sorted.lastCNID \in SortDirs
                 PROVE  /\ t.lastIndex + 1 = Rank(Here, t.lastName)
                        /\ Covers(t.page, t.after, Here, evicted \/ ~ t.complete)
                        /\ t.complete => Len(t.entries) = Len(t.page)
      BY <1>2, <2>2, <2>4, <2>6, <2>9 DEF StableOK, t
    <3>1. /\ Covers(sorted.page, sorted.after, Here, evicted \/ ~ sorted.complete)
          /\ sorted.complete => Len(sorted.entries) = Len(sorted.page)
      BY <1>1, <2>2 DEF StableOK
    <3>2. Rank(Here, sorted.page[k]) = Rank(Here, Prior(sorted.page, sorted.after, k)) + 1
      <4> DEFINE p == sorted.page
                 a == sorted.after
                 S == Here
                 lossy == evicted \/ ~ sorted.complete
      <4>1. /\ S \in SUBSET Names /\ p \in Seq(Names) /\ a \in Names \cup {<<>>} /\ AscendingPage(p)
            /\ (\A i \in 1 .. Len(p) : After(p[i], a)) /\ Covers(p, a, S, lossy) /\ k \in 1 .. Len(p)
        BY <1>4, <1>5, <1>6, <2>4, <3>1 DEF PageOK
      <4> HIDE DEF p, a, S, lossy, k
      <4>2. Rank(S, p[k]) = Rank(S, Prior(p, a, k)) + 1
        BY <4>1, NextName
      <4> QED
        BY <4>2 DEF p, a, S
    <3>3. Rank(Here, sorted.page[k]) = sorted.lastIndex + 1
      BY <1>7, <1>8, <2>2, <3>2
    <3> QED
      BY <2>4, <3>1, <3>3
  <2>11. AnswerOK'
    BY <1>3, <2>1, NothingIs, NoClaim
  <2> QED
    BY <2>4, <2>5, <2>7, <2>8, <2>10, <2>11 DEF SortIInv, t
<1>11. CASE ~ Unpackable(sorted) /\ sorted.complete
  <2>1. /\ answer' = [what |-> "fnfErr", dir |-> call.dir, index |-> call.index, dirOK |-> call.dirOK,
                      name |-> sorted.lastName, cnid |-> sorted.child]
        /\ call' = Idle /\ sorted' = sorted
    BY <1>11 DEF Unpack, Return
  <2>2. call' \in Calls /\ call'.pc = "idle"
    BY <2>1 DEF Idle, Calls
  <2>3. TypesOK'
    BY <1>1, <1>2, <2>1, <2>2 DEF TypesOK
  <2>4. CallOK'
    BY <2>2 DEF CallOK, Steady
  <2>5. Here' = Here
    BY <1>9, <2>1
  <2>6. StableOK'
    BY <1>1, <1>2, <2>1, <2>2, <2>5 DEF StableOK
  <2>7. AnswerOK'
    <3> SUFFICES ASSUME stable, ~ evicted PROVE call.index > Cardinality(Here)
      <4>1. Visible(call.dir, call.dirOK)' = Here \/ call' # call
        BY <1>2, <1>3 DEF Here, Visible
      <4>2. answer'.what = "fnfErr" /\ answer'.index = call.index /\ answer'.dir = call.dir /\ answer'.dirOK = call.dirOK
        BY <2>1
      <4>3. Visible(answer.dir, answer.dirOK)' = Here
        BY <1>2, <1>3, <4>2 DEF Here, Visible
      <4> QED
        BY <1>2, <4>2, <4>3 DEF AnswerOK, ListingTrue, EndTrueUnlessEvicted
    <3>1. \A s \in Here : ~ After(s, sorted.lastName)
      <4>1. CASE sorted.entries = <<>>
        BY <1>1, <1>3, <1>11, <4>1 DEF StableOK
      <4>2. CASE sorted.entries # <<>>
        <5>1. Len(sorted.entries) = Len(sorted.page) /\ Covers(sorted.page, sorted.after, Here, FALSE)
          BY <1>1, <1>3, <1>11, <4>2 DEF StableOK, Covers
        <5>2. sorted.ptr = Len(sorted.page) /\ sorted.ptr > 0 /\ sorted.lastName = sorted.page[sorted.ptr]
          <6>1. sorted.ptr > 0 /\ sorted.ptr <= Len(sorted.entries) /\ ~ (sorted.ptr < Len(sorted.entries))
            BY <1>4, <1>11, <4>2 DEF PlaceOK, Unpackable
          <6>2. sorted.ptr + 1 # 1 /\ (sorted.ptr + 1) - 1 = sorted.ptr
            BY <1>5, <6>1
          <6>3. sorted.lastName = Before(sorted.page, sorted.ptr + 1)
            BY <1>4, <6>1 DEF PlaceOK
          <6> QED
            BY <1>5, <5>1, <6>1, <6>2, <6>3 DEF Before
        <5> DEFINE p == sorted.page
                   a == sorted.after
                   S == Here
        <5>3. /\ S \in SUBSET Names /\ p \in Seq(Names) /\ a \in Names \cup {<<>>} /\ AscendingPage(p)
              /\ (\A i \in 1 .. Len(p) : After(p[i], a)) /\ Covers(p, a, S, FALSE) /\ Len(p) > 0
          BY <1>4, <1>5, <1>6, <5>1, <5>2 DEF PageOK
        <5> HIDE DEF p, a, S
        <5>4. \A s \in S : ~ After(s, p[Len(p)])
          BY <5>3, PageEnds
        <5> QED
          BY <5>2, <5>4 DEF p, S
      <4> QED
        BY <4>1, <4>2
    <3>2. sorted.lastIndex = Rank(Here, sorted.lastName)
      BY <1>8
    <3> DEFINE S == Here
    <3> HIDE DEF S
    <3>3. S \in SUBSET Names /\ (\A s \in S : ~ After(s, sorted.lastName)) /\ sorted.lastIndex = Rank(S, sorted.lastName)
      BY <1>6, <3>1, <3>2 DEF S
    <3>4. call.index > Cardinality(S)
      BY <1>3, <1>5, <3>3, AtEnd
    <3> QED
      BY <3>4 DEF S
  <2> QED
    BY <1>1, <2>1, <2>2, <2>3, <2>4, <2>6, <2>7 DEF SortIInv
<1>12. CASE ~ Unpackable(sorted) /\ ~ sorted.complete
  <2>1. call' = [call EXCEPT !.pc = "populate"] /\ answer' = answer /\ sorted' = sorted
    BY <1>12 DEF Unpack
  <2>2. call' \in Calls /\ call'.pc = "populate" /\ call'.dir = call.dir /\ call'.index = call.index /\ call'.dirOK = call.dirOK
    BY <1>1, <2>1 DEF Calls, Steady
  <2>3. TypesOK'
    BY <1>1, <1>2, <2>1, <2>2 DEF TypesOK
  <2>4. CallOK'
    BY <1>3, <2>1, <2>2 DEF CallOK, Steady
  <2>5. Here' = Here
    BY <1>9, <2>1
  <2>6. StableOK'
    BY <1>1, <1>2, <2>1, <2>2, <2>5 DEF StableOK
  <2>7. AnswerOK'
    BY <1>3, <2>1, NothingIs, NoClaim
  <2> QED
    BY <1>1, <2>1, <2>2, <2>3, <2>4, <2>6, <2>7 DEF SortIInv
<1> QED
  BY <1>10, <1>11, <1>12

\* What the invariant says in the middle of a call.
Midway ==
  /\ host \in [SortDirs -> SUBSET Names] /\ gone \subseteq SortDirs /\ (\A d \in gone : host[d] = {})
  /\ sorted \in Sorteds /\ call \in Calls /\ evicted \in BOOLEAN /\ stable \in BOOLEAN
  /\ SortedOK(sorted) /\ TypesOK /\ StableOK
  /\ sorted.lastIndex < call.index /\ call.dir = sorted.lastCNID /\ call.dir \in SortDirs
  /\ call.dirOK = sorted.lastDirOK /\ answer = Nothing
  /\ Here \in SUBSET Names /\ Here = Visible(call.dir, call.dirOK)
  /\ sorted.lastIndex \in Nat /\ call.index \in Nat /\ sorted.lastName \in Names \cup {<<>>}

\* What the invariant says of the call is what each step of it needs.
LEMMA MidwayIs == ASSUME SortIInv, call.pc \in Steady PROVE Midway
<1>1. /\ host \in [SortDirs -> SUBSET Names] /\ gone \subseteq SortDirs /\ (\A d \in gone : host[d] = {})
      /\ sorted \in Sorteds /\ call \in Calls /\ evicted \in BOOLEAN /\ stable \in BOOLEAN
      /\ SortedOK(sorted) /\ TypesOK /\ StableOK
  BY DEF SortIInv, TypesOK
<1>2. /\ sorted.lastIndex < call.index /\ call.dir = sorted.lastCNID /\ call.dir \in SortDirs
      /\ call.dirOK = sorted.lastDirOK /\ answer = Nothing
  BY DEF SortIInv, CallOK, Steady
<1>3. Here \in SUBSET Names /\ Here = Visible(call.dir, call.dirOK)
  BY <1>1, <1>2 DEF Here, Visible
<1>4. sorted.lastIndex \in Nat /\ call.index \in Nat /\ sorted.lastName \in Names \cup {<<>>}
  BY <1>1 DEF Sorteds, Calls
<1> QED
  BY <1>1, <1>2, <1>3, <1>4 DEF Midway

\* A pass starts with an empty list, or panics.
LEMMA PopulateKeeps == ASSUME SortIInv, Populate PROVE SortIInv'
<1>1. /\ host' = host /\ gone' = gone /\ sorted' = sorted /\ answer' = answer /\ evicted' = evicted /\ stable' = stable
      /\ call.pc = "populate"
  BY DEF Populate
<1>2. Midway
  BY <1>1, MidwayIs DEF Steady
<1>3. SortedOK(sorted)' /\ Here' = Here
  BY <1>1, <1>2 DEF Midway, Here, Visible
<1>4. AnswerOK'
  BY <1>1, <1>2, NothingIs, NoClaim DEF Midway
<1>5. CASE call.dir \in gone
  <2>1. call' = [call EXCEPT !.pc = "panic"]
    BY <1>5 DEF Populate
  <2>2. call' \in Calls /\ call'.pc = "panic"
    BY <1>2, <2>1 DEF Midway, Calls
  <2>3. TypesOK'
    BY <1>1, <1>2, <2>2 DEF Midway, TypesOK
  <2>4. CallOK'
    BY <1>1, <1>2, <2>2 DEF Midway, CallOK, Steady
  <2>5. StableOK'
    BY <1>1, <1>2, <1>3, <2>2 DEF Midway, StableOK
  <2> QED
    BY <1>3, <1>4, <2>3, <2>4, <2>5 DEF SortIInv
<1>6. CASE call.dir \notin gone
  <2>1. call' = [call EXCEPT !.pc = "pass"] /\ board' = EmptyList(sorted.lastName) /\ seen' = {}
    BY <1>6 DEF Populate
  <2>2. call' \in Calls /\ call'.pc = "pass" /\ call'.dir = call.dir /\ call'.index = call.index /\ call'.dirOK = call.dirOK
    BY <1>2, <2>1 DEF Midway, Calls, Steady
  <2>3. TypesOK'
    BY <1>1, <1>2, <2>2 DEF Midway, TypesOK
  <2>4. BoardOK(board', sorted.lastName, {})
    BY <1>2, <2>1, EmptyOK DEF Midway
  <2>5. CallOK'
    BY <1>1, <1>2, <2>1, <2>2, <2>4 DEF Midway, CallOK, Steady
  <2>6. StableOK'
    BY <1>1, <1>2, <1>3, <2>1, <2>2 DEF Midway, StableOK
  <2> QED
    BY <1>3, <1>4, <2>3, <2>5, <2>6 DEF SortIInv
<1> QED
  BY <1>5, <1>6

\* The host lists one more name.
LEMMA PassEntryKeeps == ASSUME SortIInv, PassEntry PROVE SortIInv'
<1>1. /\ host' = host /\ gone' = gone /\ sorted' = sorted /\ answer' = answer /\ evicted' = evicted /\ stable' = stable
      /\ call' = call /\ call.pc = "pass"
  BY DEF PassEntry
<1>2. Midway
  BY <1>1, MidwayIs DEF Steady
<1>3. SortedOK(sorted)' /\ Here' = Here
  BY <1>1, <1>2 DEF Midway, Here, Visible
<1>4. AnswerOK'
  BY <1>1, <1>2, NothingIs, NoClaim DEF Midway
<1>5. PICK name \in Visible(call.dir, call.dirOK) \ seen : board' = Leader(board, name) /\ seen' = seen \cup {name}
  BY DEF PassEntry
<1>6. name \in Here /\ name \in Names /\ name \notin seen
  BY <1>2, <1>5 DEF Midway
<1>7. seen \subseteq Names /\ BoardOK(board, sorted.lastName, seen)
  BY <1>1 DEF SortIInv, CallOK
<1>8. BoardOK(board', sorted.lastName, seen \cup {name})
  <2> DEFINE ignore == sorted.lastName
  <2>1. ignore \in Names \cup {<<>>} /\ seen \in SUBSET Names /\ BoardOK(board, ignore, seen) /\ name \in Names \ seen
    BY <1>2, <1>6, <1>7 DEF Midway
  <2> HIDE DEF ignore
  <2>2. BoardOK(Leader(board, name), ignore, seen \cup {name})
    BY <2>1, LeaderKeeps
  <2> QED
    BY <1>5, <2>2 DEF ignore
<1>9. TypesOK'
  BY <1>1, <1>2 DEF Midway, TypesOK
<1>10. CallOK'
  BY <1>1, <1>2, <1>5, <1>6, <1>7, <1>8 DEF Midway, CallOK, Steady
<1>11. StableOK'
  BY <1>1, <1>2, <1>3, <1>5, <1>6 DEF Midway, StableOK
<1> QED
  BY <1>3, <1>4, <1>9, <1>10, <1>11 DEF SortIInv

\* The host changes a directory: the names in the store stay as they were, and
\* nothing more is said of it.
LEMMA HostChangesKeeps == ASSUME SortIInv, HostChanges PROVE SortIInv'
<1>1. sorted' = sorted /\ call' = call /\ board' = board /\ seen' = seen /\ answer' = answer /\ evicted' = evicted /\ stable' = FALSE
  BY DEF HostChanges
<1>2. /\ host \in [SortDirs -> SUBSET Names] /\ gone \subseteq SortDirs /\ (\A d \in gone : host[d] = {})
      /\ sorted \in Sorteds /\ call \in Calls /\ evicted \in BOOLEAN /\ SortedOK(sorted)
  BY DEF SortIInv, TypesOK
<1>3. /\ host' \in [SortDirs -> SUBSET Names] /\ gone' \subseteq SortDirs /\ \A d \in gone' : host'[d] = {}
  <2>1. PICK dir \in SortDirs \ gone :
       \/ \E name \in Volatile :
            /\ host' = [host EXCEPT ![dir] = IF name \in @ THEN @ \ {name} ELSE @ \cup {name}]
            /\ UNCHANGED gone
       \/ /\ gone' = gone \cup {dir}
          /\ host' = [host EXCEPT ![dir] = {}]
    BY DEF HostChanges
  <2>2. ASSUME NEW name \in Volatile,
               host' = [host EXCEPT ![dir] = IF name \in @ THEN @ \ {name} ELSE @ \cup {name}], gone' = gone
        PROVE  /\ host' \in [SortDirs -> SUBSET Names] /\ gone' \subseteq SortDirs /\ \A d \in gone' : host'[d] = {}
    <3>1. name \in Names
      BY SortDirAssumption
    <3> DEFINE v == IF name \in host[dir] THEN host[dir] \ {name} ELSE host[dir] \cup {name}
    <3>2. v \in SUBSET Names
      BY <1>2, <2>1, <3>1
    <3>3. host' = [host EXCEPT ![dir] = v]
      BY <2>2
    <3> HIDE DEF v
    <3> QED
      BY <1>2, <2>1, <2>2, <3>2, <3>3
  <2>3. ASSUME gone' = gone \cup {dir}, host' = [host EXCEPT ![dir] = {}]
        PROVE  /\ host' \in [SortDirs -> SUBSET Names] /\ gone' \subseteq SortDirs /\ \A d \in gone' : host'[d] = {}
    BY <1>2, <2>1, <2>3
  <2> QED
    BY <2>1, <2>2, <2>3
<1>4. TypesOK'
  BY <1>1, <1>2, <1>3 DEF TypesOK
<1>5. CallOK'
  BY <1>1 DEF SortIInv, CallOK
<1>6. StableOK' /\ AnswerOK'
  BY <1>1, NoClaim DEF StableOK
<1> QED
  BY <1>1, <1>2, <1>4, <1>5, <1>6 DEF SortIInv

\* The walk to the name counts it if it is there, and answers at the index asked
\* for.
LEMMA WalkToKeeps ==
  ASSUME SortIInv, WalkTo
  PROVE  SortIInv' /\ (sorted'.lastIndex = sorted.lastIndex + 1 =>
                         sorted.lastName \in host[call.dir] /\ sorted'.lastName = sorted.lastName)
<1> DEFINE i == Counted(sorted)
           t == sorted'
<1>1. /\ host' = host /\ gone' = gone /\ evicted' = evicted /\ stable' = stable /\ call.pc = "walk"
      /\ board' = board /\ seen' = seen
      /\ t = [sorted EXCEPT !.lastIndex = i]
      /\ IF i = call.index THEN Return("noErr") ELSE call' = [call EXCEPT !.pc = "unpack"] /\ UNCHANGED answer
  BY DEF WalkTo
<1>2. Midway
  BY <1>1, MidwayIs DEF Steady
<1>3. sorted \in Sorteds /\ SortedOK(sorted) /\ sorted.lastIndex \in Nat /\ call.index \in Nat /\ sorted.lastIndex < call.index
  BY <1>2 DEF Midway
<1>4. /\ i = sorted.lastIndex \/ i = sorted.lastIndex + 1
      /\ i = sorted.lastIndex + 1 => sorted.lastName \in host[call.dir]
  BY <1>3 DEF Counted
<1>5. i \in Nat /\ i <= call.index
  BY <1>3, <1>4
<1> HIDE DEF i, t
<1>6. /\ t \in Sorteds /\ t.lastIndex = i /\ t.lastName = sorted.lastName /\ t.ptr = sorted.ptr /\ t.child = sorted.child
      /\ t.entries = sorted.entries /\ t.page = sorted.page /\ t.after = sorted.after /\ t.complete = sorted.complete
      /\ t.lastCNID = sorted.lastCNID /\ t.lastDirOK = sorted.lastDirOK /\ t.far = sorted.far
      /\ t.prevName = sorted.prevName /\ t.prevID = sorted.prevID
  BY <1>1, <1>3, <1>5 DEF Sorteds
<1>7. sorted.ptr > 0 /\ sorted.lastIndex < Rank(Names, sorted.lastName)
  BY <1>1 DEF SortIInv, CallOK
<1>8. i <= Rank(Names, sorted.lastName)
  <2>1. Rank(Names, sorted.lastName) \in Nat
    BY RankIs
  <2> QED
    BY <1>3, <1>4, <1>7, <2>1
<1>9. SortedOK(t)
  BY <1>3, <1>6, <1>8 DEF SortedOK, PageOK, PlaceOK
<1>10. Here' = Here
  BY <1>1, <1>6 DEF Here, Visible, t
<1>11. \/ call' = Idle /\ i = call.index
          /\ answer' = [what |-> "noErr", dir |-> call.dir, index |-> call.index, dirOK |-> call.dirOK,
                        name |-> sorted.lastName, cnid |-> sorted.child]
       \/ call' = [call EXCEPT !.pc = "unpack"] /\ answer' = answer /\ i # call.index
  BY <1>1 DEF Return
<1>12. call' \in Calls /\ (call'.pc = "idle" \/ call'.pc = "unpack")
       /\ (call'.pc = "unpack" => /\ call'.dir = call.dir /\ call'.index = call.index /\ call'.dirOK = call.dirOK
                                  /\ answer' = answer /\ i # call.index)
  <2>1. call \in Calls
    BY <1>2 DEF Midway
  <2>2. CASE call' = Idle
    <3>1. Idle \in Calls /\ Idle.pc = "idle"
      BY DEF Calls, Steady, Idle
    <3> QED
      BY <2>2, <3>1
  <2>3. CASE call' = [call EXCEPT !.pc = "unpack"] /\ answer' = answer /\ i # call.index
    <3>1. /\ [call EXCEPT !.pc = "unpack"] \in Calls /\ [call EXCEPT !.pc = "unpack"].pc = "unpack"
          /\ [call EXCEPT !.pc = "unpack"].dir = call.dir /\ [call EXCEPT !.pc = "unpack"].index = call.index
          /\ [call EXCEPT !.pc = "unpack"].dirOK = call.dirOK
      BY <2>1 DEF Calls, Steady
    <3> QED
      BY <2>3, <3>1
  <2> QED
    BY <1>11, <2>2, <2>3
<1>13. TypesOK'
  BY <1>1, <1>2, <1>6, <1>12 DEF Midway, TypesOK, t
<1>14. CallOK'
  <2>1. call'.pc = "unpack" => i < call.index
    BY <1>3, <1>5, <1>12
  <2> QED
    BY <1>2, <1>6, <1>12, <2>1 DEF Midway, CallOK, Steady, t
<1>15. ASSUME stable
       PROVE  i = Rank(Here, sorted.lastName) /\ sorted.lastName \in Here /\ sorted.child = Bytes(Id[sorted.lastName])
  <2>1. /\ sorted.lastCNID \in SortDirs /\ sorted.lastIndex + 1 = Rank(Here, sorted.lastName)
    BY <1>1, <1>2, <1>15 DEF Midway, StableOK
  <2>2. PlaceOK(sorted) /\ sorted.entries # <<>> /\ Len(sorted.entries) <= Len(sorted.page)
        /\ sorted.ptr \in 1 .. Len(sorted.page) /\ sorted.ptr + 1 # 1 /\ (sorted.ptr + 1) - 1 = sorted.ptr
    <3>1. /\ sorted.ptr \in Nat /\ sorted.entries \in Seq(Entries) /\ Len(sorted.page) \in Nat /\ Len(sorted.entries) \in Nat
      BY <1>3, LenProperties DEF Sorteds
    <3>2. PlaceOK(sorted) /\ sorted.ptr <= Len(sorted.entries) /\ Len(sorted.entries) <= Len(sorted.page)
      BY <1>3 DEF SortedOK, PlaceOK, StoreOK
    <3>3. sorted.entries # <<>>
      <4> SUFFICES ASSUME sorted.entries = <<>> PROVE FALSE
        OBVIOUS
      <4>1. Len(sorted.entries) = 0
        BY EmptySeq
      <4> QED
        BY <1>7, <3>1, <3>2, <4>1
    <3> QED
      BY <1>7, <3>1, <3>2, <3>3
  <2>3. sorted.lastName = sorted.page[sorted.ptr] /\ sorted.child = Bytes(Id[sorted.page[sorted.ptr]])
    BY <1>7, <2>2 DEF PlaceOK, Before, IdBefore
  <2>4. sorted.lastName \in Here
    BY <1>2, <1>15, <2>1, <2>2, <2>3 DEF Midway, StableOK, Covers
  <2>5. sorted.lastName \in host[call.dir] /\ call.dir \notin gone
    <3>1. sorted.lastName \in host[call.dir]
      BY <1>2, <2>4 DEF Midway, Visible
    <3> QED
      BY <1>2, <3>1 DEF Midway
  <2>6. i = sorted.lastIndex + 1
    BY <2>5 DEF i, Counted
  <2> QED
    BY <2>1, <2>3, <2>4, <2>6
<1>16. StableOK'
  <2> SUFFICES ASSUME stable, sorted.lastCNID \in SortDirs PROVE
    /\ t.lastIndex = Rank(Here, t.lastName)
    /\ t.entries # <<>> =>
         /\ Covers(t.page, t.after, Here, evicted \/ ~ t.complete)
         /\ t.complete => Len(t.entries) = Len(t.page)
    /\ t.entries = <<>> /\ t.complete /\ ~ evicted => \A s \in Here : ~ After(s, t.lastName)
    BY <1>1, <1>6, <1>10, <1>12 DEF StableOK, t
  <2>1. /\ sorted.entries # <<>> =>
         /\ Covers(sorted.page, sorted.after, Here, evicted \/ ~ sorted.complete)
         /\ sorted.complete => Len(sorted.entries) = Len(sorted.page)
        /\ sorted.entries = <<>> /\ sorted.complete /\ ~ evicted => \A s \in Here : ~ After(s, sorted.lastName)
    BY <1>2 DEF Midway, StableOK
  <2> QED
    BY <1>6, <1>15, <2>1
<1>17. AnswerOK'
  <2>1. CASE answer' = answer
    BY <1>2, <2>1, NothingIs, NoClaim DEF Midway
  <2>2. CASE i = call.index
             /\ answer' = [what |-> "noErr", dir |-> call.dir, index |-> call.index, dirOK |-> call.dirOK,
                           name |-> sorted.lastName, cnid |-> sorted.child]
    <3>1. /\ answer'.what = "noErr" /\ answer'.index = i /\ answer'.name = sorted.lastName
          /\ answer'.dir = call.dir /\ answer'.dirOK = call.dirOK /\ answer'.cnid = sorted.child
      BY <2>2
    <3>2. Visible(answer.dir, answer.dirOK)' = Here
      BY <1>1, <1>2, <3>1 DEF Midway, Visible
    <3> QED
      BY <1>1, <1>15, <3>1, <3>2 DEF AnswerOK, ListingTrue, EndTrueUnlessEvicted
  <2> QED
    BY <1>11, <2>1, <2>2
<1> QED
  BY <1>4, <1>6, <1>9, <1>13, <1>14, <1>16, <1>17 DEF SortIInv, t

\* The static variables when a pass has been packed.
Filling(z, page, p, c, s) ==
  s = [Emptied(z) EXCEPT !.entries = p.entries, !.complete = c, !.page = page, !.after = z.lastName]
Filled(z, page, p, c, s) ==
  /\ s \in Sorteds /\ s.ptr = 0 /\ s.prevName = <<>> /\ s.prevID = Bytes(0)
  /\ s.entries = p.entries /\ s.complete = c /\ s.page = page /\ s.after = z.lastName
  /\ s.lastCNID = z.lastCNID /\ s.lastIndex = z.lastIndex /\ s.far = z.far /\ s.lastDirOK = z.lastDirOK
  /\ s.lastName = z.lastName /\ s.child = z.child

\* What is packed replaces what was in the store.
LEMMA FillingIs ==
  ASSUME NEW z \in Sorteds, NEW page \in Seq(Names), NEW p \in Packings, NEW c \in BOOLEAN, NEW s, Filling(z, page, p, c, s)
  PROVE  Filled(z, page, p, c, s)
<1> DEFINE t == Emptied(z)
           e == p.entries
           a == z.lastName
<1>1. /\ t \in Sorteds /\ Blank(t) /\ t.lastCNID = z.lastCNID /\ t.lastIndex = z.lastIndex /\ t.far = z.far
      /\ t.lastDirOK = z.lastDirOK /\ t.lastName = z.lastName /\ t.child = z.child
  BY EmptiedIs
<1>2. t.ptr = 0 /\ t.prevName = <<>> /\ t.prevID = Bytes(0)
  BY <1>1 DEF Blank
<1>3. e \in Seq(Entries) /\ a \in Names \cup {<<>>}
  BY DEF Packings, Sorteds
<1>4. s = [t EXCEPT !.entries = e, !.complete = c, !.page = page, !.after = a]
  BY DEF Filling
<1> HIDE DEF t, e, a
<1>5. s \in Sorteds
  BY <1>1, <1>3, <1>4 DEF Sorteds
<1>6. /\ s.entries = e /\ s.complete = c /\ s.page = page /\ s.after = a /\ s.ptr = t.ptr /\ s.prevName = t.prevName
      /\ s.prevID = t.prevID /\ s.lastCNID = t.lastCNID /\ s.lastIndex = t.lastIndex /\ s.far = t.far
      /\ s.lastDirOK = t.lastDirOK /\ s.lastName = t.lastName /\ s.child = t.child
  BY <1>1, <1>4 DEF Sorteds
<1> QED
  BY <1>1, <1>2, <1>5, <1>6 DEF Filled, e, a

\* What the store of a page is.
PageFilled(page, p, s) ==
  /\ PageOK(s) /\ StoreOK(s.entries, s.page) /\ s.prevName = Before(s.page, 1) /\ s.prevID = IdBefore(s.page, 1)
  /\ (s.entries = <<>> => Len(page) = 0)
  /\ (~ p.full => Len(s.entries) = Len(page))

\* The names of the pass are a page of the store, which has one at least unless
\* the page has none.
LEMMA FilledIs ==
  ASSUME NEW z \in Sorteds, SortedOK(z), NEW S, NEW full, NEW dropped, NEW page, Gathered(page, z.lastName, S, full, dropped),
         NEW p, p = Packed(page), NEW c, NEW s, Filled(z, page, p, c, s)
  PROVE  PageFilled(page, p, s)
<1>1. /\ page \in Seq(Names) /\ Len(page) <= 2 ^ Power /\ AscendingPage(page) /\ Len(page) \in Nat
      /\ \A i \in 1 .. Len(page) : After(page[i], z.lastName)
  BY LenProperties DEF Gathered
<1>2. p \in Packings /\ PackState(p, page, Len(page))
  BY <1>1, PackedIs
<1>3. s.entries = p.entries /\ s.page = page /\ s.after = z.lastName /\ s.prevName = <<>> /\ s.prevID = Bytes(0)
  BY DEF Filled
<1>4. PageOK(s)
  BY <1>1, <1>3 DEF PageOK
<1>5. StoreOK(s.entries, s.page)
  BY <1>2, <1>3 DEF PackState, StoreOK
<1>6. s.prevName = Before(s.page, 1) /\ s.prevID = IdBefore(s.page, 1)
  BY <1>3 DEF Before, IdBefore
<1>7. s.entries = <<>> => Len(page) = 0
  BY <1>1, <1>2, <1>3 DEF PackState
<1>8. ~ p.full => Len(s.entries) = Len(page)
  BY <1>2, <1>3 DEF PackState
<1> QED
  BY <1>4, <1>5, <1>6, <1>7, <1>8 DEF PageFilled

\* The end of a pass packs the names that come next and unpacks the first, or
\* there are no more (populate, ReadDirSorted).
LEMMA PassEndKeeps ==
  ASSUME SortIInv, PassEnd
  PROVE  SortIInv' /\ (call'.pc = "walk" => After(sorted'.lastName, sorted.lastName)) /\ sorted'.lastIndex = sorted.lastIndex
<1> DEFINE page == Ascending(board)
           p == Packed(page)
           c == board.complete /\ ~p.full
           s == [Emptied(sorted) EXCEPT !.entries = p.entries, !.complete = c, !.page = page, !.after = sorted.lastName]
           lossy == evicted' \/ ~ c
<1>1. /\ host' = host /\ gone' = gone /\ stable' = stable /\ call.pc = "pass" /\ Visible(call.dir, call.dirOK) \subseteq seen
      /\ evicted' = (evicted \/ board.evicted)
      /\ IF Unpackable(s) THEN sorted' = Unpacked(s) /\ call' = [call EXCEPT !.pc = "walk"] /\ UNCHANGED answer
         ELSE sorted' = s /\ Return("fnfErr")
  BY DEF PassEnd
<1>2. Midway
  BY <1>1, MidwayIs DEF Steady
<1>3. /\ sorted \in Sorteds /\ SortedOK(sorted) /\ sorted.lastName \in Names \cup {<<>>} /\ sorted.lastIndex \in Nat
      /\ call.index \in Nat /\ sorted.lastIndex < call.index /\ call.dir \in SortDirs /\ call.dir = sorted.lastCNID
      /\ call.dirOK = sorted.lastDirOK /\ answer = Nothing /\ call \in Calls /\ evicted \in BOOLEAN /\ stable \in BOOLEAN
      /\ Here \in SUBSET Names /\ Here = Visible(call.dir, call.dirOK) /\ StableOK
      /\ sorted.lastIndex <= Rank(Names, sorted.lastName) /\ (sorted.far => sorted.lastCNID = 0)
  BY <1>2 DEF Midway, SortedOK
<1>4. seen \subseteq Names /\ BoardOK(board, sorted.lastName, seen)
  BY <1>1 DEF SortIInv, CallOK
<1>5. board.complete \in BOOLEAN /\ board.evicted \in BOOLEAN
  BY <1>4 DEF BoardOK, Boards
<1>6. Gathered(page, sorted.lastName, seen, board.complete, board.evicted)
  <2> DEFINE ignore == sorted.lastName
             S == seen
             b == board
  <2>1. ignore \in Names \cup {<<>>} /\ S \in SUBSET Names /\ BoardOK(b, ignore, S)
    BY <1>3, <1>4
  <2> HIDE DEF ignore, S, b
  <2>2. Gathered(Ascending(b), ignore, S, b.complete, b.evicted)
    BY <2>1, PassGathers
  <2> QED
    BY <2>2 DEF ignore, S, b
<1> HIDE DEF page
<1>7. /\ page \in Seq(Names) /\ Len(page) <= 2 ^ Power /\ AscendingPage(page) /\ Len(page) \in Nat
      /\ \A i \in 1 .. Len(page) : After(page[i], sorted.lastName)
  BY <1>6, LenProperties DEF Gathered
<1>8. p \in Packings /\ p = Packed(page)
  BY <1>7, PackedIs
<1>9. p.full \in BOOLEAN
  BY <1>8 DEF Packings
<1> HIDE DEF p
<1>10. c \in BOOLEAN /\ (c => board.complete /\ ~ p.full)
  BY <1>5, <1>9
<1>11. Filling(sorted, page, p, c, s)
  BY DEF Filling
<1> HIDE DEF c, s
<1>12. Filled(sorted, page, p, c, s)
  BY <1>3, <1>7, <1>8, <1>10, <1>11, FillingIs
<1>13. /\ s \in Sorteds /\ s.ptr = 0 /\ s.entries = p.entries /\ s.complete = c /\ s.page = page /\ s.after = sorted.lastName
       /\ s.lastCNID = sorted.lastCNID /\ s.lastIndex = sorted.lastIndex /\ s.far = sorted.far
       /\ s.lastDirOK = sorted.lastDirOK /\ s.lastName = sorted.lastName /\ s.child = sorted.child
  BY <1>12 DEF Filled
<1>14. /\ PageOK(s) /\ StoreOK(s.entries, s.page) /\ s.prevName = Before(s.page, 1) /\ s.prevID = IdBefore(s.page, 1)
       /\ (s.entries = <<>> => Len(page) = 0)
       /\ (~ p.full => Len(s.entries) = Len(page))
  <2> DEFINE z == sorted
             S == seen
             f == board.complete
             dr == board.evicted
  <2>1. z \in Sorteds /\ SortedOK(z) /\ Gathered(page, z.lastName, S, f, dr) /\ p = Packed(page) /\ Filled(z, page, p, c, s)
    BY <1>3, <1>6, <1>8, <1>12
  <2> HIDE DEF z, S, f, dr
  <2>2. PageFilled(page, p, s)
    BY <2>1, FilledIs
  <2> QED
    BY <2>2 DEF PageFilled
<1>15. stable => (seen = Here /\ sorted.lastIndex = Rank(Here, sorted.lastName) /\ Covers(page, sorted.lastName, Here, lossy))
  <2> SUFFICES ASSUME stable
               PROVE  seen = Here /\ sorted.lastIndex = Rank(Here, sorted.lastName) /\ Covers(page, sorted.lastName, Here, lossy)
    OBVIOUS
  <2>1. seen \subseteq Here /\ sorted.lastIndex = Rank(Here, sorted.lastName)
    BY <1>1, <1>3 DEF StableOK
  <2>2. seen = Here
    BY <1>1, <1>3, <2>1
  <2>3. (board.evicted \/ ~ board.complete) => lossy
    BY <1>1, <1>10
  <2> HIDE DEF lossy
  <2>4. Covers(page, sorted.lastName, Here, lossy)
    BY <1>6, <2>2, <2>3 DEF Gathered, Covers
  <2> QED
    BY <2>1, <2>2, <2>4
<1> HIDE DEF lossy
<1>16. s.entries \in Seq(Entries) /\ Len(s.entries) \in Nat /\ (s.entries # <<>> => Len(s.entries) > 0)
  <2>1. s.entries \in Seq(Entries)
    BY <1>13 DEF Sorteds
  <2> QED
    BY <2>1, EmptySeq, LenProperties
<1>17. Unpackable(s) <=> s.entries # <<>>
  <2>1. s.entries = <<>> => Len(s.entries) = 0
    BY EmptySeq
  <2> QED
    BY <1>13, <1>16, <2>1 DEF Unpackable
<1>18. CASE s.entries # <<>>
  <2> DEFINE t == sorted'
  <2>1. t = Unpacked(s) /\ call' = [call EXCEPT !.pc = "walk"] /\ answer' = answer
    BY <1>1, <1>17, <1>18
  <2> HIDE DEF t
  <2>2. Readable(s) /\ s.ptr + 1 = 1
    BY <1>13, <1>14, <1>16, <1>18 DEF Readable
  <2>3. /\ t \in Sorteds /\ 1 \in 1 .. Len(page) /\ page[1] \in Names
        /\ t.ptr = 1 /\ t.lastName = page[1]
        /\ t.entries = s.entries /\ t.page = page /\ t.after = sorted.lastName
        /\ t.lastCNID = sorted.lastCNID /\ t.lastIndex = sorted.lastIndex /\ t.lastDirOK = sorted.lastDirOK
        /\ t.complete = c
    BY <1>13, <2>1, <2>2, UnpackedIs
  <2>4. s.lastName = Prior(s.page, s.after, s.ptr + 1)
    BY <1>13, <2>2 DEF Prior
  <2>5. SortedOK(t) /\ After(t.lastName, s.lastName) /\ s.lastIndex < Rank(Names, t.lastName)
    <3>1. s.lastCNID # 0 /\ s.lastIndex <= Rank(Names, s.lastName) /\ (s.far => s.lastCNID = 0)
      BY <1>3, <1>13, SortDirAssumption
    <3> QED
      BY <1>13, <1>14, <2>1, <2>2, <2>4, <3>1, UnpackedOK
  <2>6. call' \in Calls /\ call'.pc = "walk" /\ call'.dir = call.dir /\ call'.index = call.index /\ call'.dirOK = call.dirOK
    BY <1>3, <2>1 DEF Calls, Steady
  <2>7. evicted' \in BOOLEAN
    BY <1>1, <1>3, <1>5
  <2>8. TypesOK'
    BY <1>1, <1>2, <2>3, <2>6, <2>7 DEF Midway, TypesOK, t
  <2>9. CallOK'
    <3>1. t.lastIndex < Rank(Names, t.lastName) /\ t.ptr > 0
      BY <1>13, <2>3, <2>5
    <3> QED
      BY <1>3, <2>1, <2>3, <2>6, <3>1 DEF CallOK, Steady, t
  <2>10. Here' = Here
    BY <1>1, <2>3 DEF Here, Visible, t
  <2>11. StableOK'
    <3> SUFFICES ASSUME stable
                 PROVE  /\ t.lastIndex + 1 = Rank(Here, t.lastName)
                        /\ Covers(t.page, t.after, Here, lossy)
                        /\ t.complete => Len(t.entries) = Len(t.page)
      BY <1>1, <1>18, <2>3, <2>6, <2>10 DEF StableOK, t, lossy
    <3>1. Rank(Here, page[1]) = Rank(Here, Prior(page, sorted.lastName, 1)) + 1
      <4> DEFINE a == sorted.lastName
                 S == Here
                 k == 1
      <4>1. /\ S \in SUBSET Names /\ page \in Seq(Names) /\ a \in Names \cup {<<>>} /\ AscendingPage(page)
            /\ (\A i \in 1 .. Len(page) : After(page[i], a)) /\ Covers(page, a, S, lossy) /\ k \in 1 .. Len(page)
        BY <1>3, <1>7, <1>15, <2>3
      <4> HIDE DEF a, S, k
      <4>2. Rank(S, page[k]) = Rank(S, Prior(page, a, k)) + 1
        BY <4>1, NextName
      <4> QED
        BY <4>2 DEF a, S, k
    <3>2. Prior(page, sorted.lastName, 1) = sorted.lastName
      BY DEF Prior
    <3>3. c => Len(s.entries) = Len(page)
      BY <1>10, <1>14
    <3> QED
      BY <1>15, <2>3, <3>1, <3>2, <3>3
  <2>12. AnswerOK'
    BY <1>3, <2>1, NothingIs, NoClaim
  <2>13. SortIInv'
    BY <2>5, <2>8, <2>9, <2>11, <2>12 DEF SortIInv, t
  <2>14. After(sorted'.lastName, sorted.lastName) /\ sorted'.lastIndex = sorted.lastIndex
    BY <1>13, <2>3, <2>5 DEF t
  <2> QED
    BY <2>13, <2>14
<1>19. CASE s.entries = <<>>
  <2>1. /\ sorted' = s
        /\ answer' = [what |-> "fnfErr", dir |-> call.dir, index |-> call.index, dirOK |-> call.dirOK,
                      name |-> sorted.lastName, cnid |-> sorted.child]
        /\ call' = Idle
    BY <1>1, <1>17, <1>19 DEF Return
  <2>2. call' \in Calls /\ call'.pc = "idle"
    BY <2>1 DEF Idle, Calls
  <2>3. evicted' \in BOOLEAN
    BY <1>1, <1>3, <1>5
  <2>4. TypesOK'
    BY <1>1, <1>2, <1>13, <2>1, <2>2, <2>3 DEF Midway, TypesOK
  <2>5. CallOK'
    BY <2>2 DEF CallOK, Steady
  <2>6. SortedOK(s)
    <3>1. PlaceOK(s)
      BY <1>13, <1>14, <1>16, <1>19 DEF PlaceOK
    <3> QED
      BY <1>3, <1>13, <1>14, <1>19, <3>1 DEF SortedOK
  <2>7. Here' = Here
    BY <1>1, <1>13, <2>1 DEF Here, Visible
  <2>8. stable => \A n \in Here : ~ After(n, sorted.lastName)
    <3> SUFFICES ASSUME stable, NEW n \in Here, After(n, sorted.lastName) PROVE FALSE
      OBVIOUS
    <3>1. Len(page) = 0 /\ 0 # 2 ^ Power
      BY <1>14, <1>19, SortDirAssumption
    <3> QED
      BY <1>15, <3>1 DEF Covers
  <2>9. StableOK'
    BY <1>1, <1>13, <1>15, <1>19, <2>1, <2>2, <2>7, <2>8 DEF StableOK
  <2>10. AnswerOK'
    <3> SUFFICES ASSUME stable PROVE call.index > Cardinality(Here)
      <4>1. answer'.what = "fnfErr" /\ answer'.index = call.index /\ answer'.dir = call.dir /\ answer'.dirOK = call.dirOK
        BY <2>1
      <4>2. Visible(answer.dir, answer.dirOK)' = Here
        BY <1>1, <1>3, <4>1 DEF Here, Visible
      <4> QED
        BY <1>1, <4>1, <4>2 DEF AnswerOK, ListingTrue, EndTrueUnlessEvicted
    <3> DEFINE S == Here
    <3> HIDE DEF S
    <3>1. S \in SUBSET Names /\ (\A n \in S : ~ After(n, sorted.lastName)) /\ sorted.lastIndex = Rank(S, sorted.lastName)
      BY <1>3, <1>15, <2>8 DEF S
    <3>2. call.index > Cardinality(S)
      BY <1>3, <3>1, AtEnd
    <3> QED
      BY <3>2 DEF S
  <2>11. SortIInv' /\ sorted'.lastIndex = sorted.lastIndex /\ call'.pc = "idle"
    BY <1>13, <2>1, <2>2, <2>4, <2>5, <2>6, <2>9, <2>10 DEF SortIInv
  <2> QED
    BY <2>11
<1> QED
  BY <1>18, <1>19

-----------------------------------------------------------------------------
(***************************************************************************)
(* The theorems.                                                           *)
(***************************************************************************)

\* Every step keeps the invariant.
LEMMA StepKeeps == ASSUME SortIInv, [SortNext]_sortVars PROVE SortIInv'
<1>1. ASSUME UNCHANGED sortVars PROVE SortIInv'
  <2>1. /\ host' = host /\ gone' = gone /\ sorted' = sorted /\ call' = call /\ board' = board /\ seen' = seen
        /\ answer' = answer /\ evicted' = evicted /\ stable' = stable
    BY <1>1 DEF sortVars
  <2>2. TypesOK' /\ SortedOK(sorted)' /\ CallOK'
    BY <2>1 DEF SortIInv, TypesOK, CallOK
  <2>3. Here' = Here
    BY <2>1 DEF Here, Visible
  <2>4. StableOK'
    BY <2>1, <2>3 DEF SortIInv, StableOK
  <2>5. AnswerOK'
    <3>1. Visible(answer.dir, answer.dirOK)' = Visible(answer.dir, answer.dirOK)
      BY <2>1 DEF Visible
    <3> QED
      BY <2>1, <3>1 DEF SortIInv, AnswerOK, ListingTrue, EndTrueUnlessEvicted
  <2> QED
    BY <2>2, <2>4, <2>5 DEF SortIInv
<1>2. ASSUME SortNext PROVE SortIInv'
  BY <1>2, CallListKeeps, UnpackKeeps, PopulateKeeps, PassEntryKeeps, PassEndKeeps, WalkToKeeps, HostChangesKeeps DEF SortNext
<1> QED
  BY <1>1, <1>2

\* The inductive invariant of a listing: the skip list has the lowest of the
\* names given to the pass so far, the store holds a page in order from which
\* each name comes back, and in a directory left alone the index is the rank of
\* the last name (sortdir.c).
THEOREM SortInvariant == SortSpec => []SortIInv
<1>1. SortInit => SortIInv
  BY Started
<1>2. SortIInv /\ [SortNext]_sortVars => SortIInv'
  BY StepKeeps
<1> QED
  BY <1>1, <1>2, PTL DEF SortSpec

\* A page of the names after one has them by their ranks.
LEMMA PageRanks ==
  ASSUME NEW S \in SUBSET Names, NEW page \in Seq(Names), NEW after \in Names \cup {<<>>}, NEW lossy,
         AscendingPage(page), \A i \in 1 .. Len(page) : After(page[i], after),
         Covers(page, after, S, lossy), \A s \in S : After(s, after)
  PROVE  \A k \in 1 .. Len(page) : Rank(S, page[k]) = k
<1> DEFINE n == Len(page)
           P == {k \in 0 .. n : k # 0 => Rank(S, page[k]) = k}
<1>1. n \in Nat
  BY LenProperties
<1>2. 0 \in P
  BY <1>1
<1>3. ASSUME NEW k \in 1 .. n, k - 1 \in P PROVE k \in P
  <2>1. Rank(S, page[k]) = Rank(S, Prior(page, after, k)) + 1
    BY NextName
  <2>2. Rank(S, Prior(page, after, k)) = k - 1
    <3>1. CASE k = 1
      <4>1. Rank(S, after) = 0
        BY RankNone
      <4> QED
        BY <3>1, <4>1 DEF Prior
    <3>2. CASE k # 1
      <4>1. Rank(S, page[k - 1]) = k - 1
        BY <1>1, <1>3, <3>2
      <4> QED
        BY <3>2, <4>1 DEF Prior
    <3> QED
      BY <3>1, <3>2
  <2>3. k \in 0 .. n /\ (k - 1) + 1 = k
    BY <1>1
  <2> QED
    BY <2>1, <2>2, <2>3
<1>4. \A k \in 0 .. n : k \in P
  <2> HIDE DEF P, n
  <2> QED
    BY <1>1, <1>2, <1>3, Along
<1> QED
  BY <1>1, <1>4

\* It is the lowest of them, as many as there are slots.
LEMMA Lowest ==
  ASSUME NEW S \in SUBSET Names, NEW page \in Seq(Names), NEW after \in Names \cup {<<>>}, NEW lossy,
         AscendingPage(page), \A i \in 1 .. Len(page) : After(page[i], after), Len(page) <= 2 ^ Power,
         Covers(page, after, S, lossy), \A s \in S : After(s, after)
  PROVE  {page[k] : k \in DOMAIN page} = {n \in S : Rank(S, n) <= 2 ^ Power}
<1> DEFINE w == 2 ^ Power
<1>1. w \in Nat \ {0} /\ Len(page) \in Nat /\ DOMAIN page = 1 .. Len(page) /\ Len(page) <= w
  BY LenProperties, SortDirAssumption
<1>2. \A k \in 1 .. Len(page) : Rank(S, page[k]) = k
  BY PageRanks
<1>3. /\ \A i \in 1 .. Len(page) : page[i] \in S
      /\ \A s \in S : (\E i \in 1 .. Len(page) : page[i] = s) \/ (Len(page) = w /\ After(s, page[w]))
  BY DEF Covers
<1> HIDE DEF w
<1>4. ASSUME NEW k \in 1 .. Len(page) PROVE page[k] \in S /\ Rank(S, page[k]) <= w
  <2>1. Rank(S, page[k]) = k
    BY <1>2
  <2>2. k <= w
    BY <1>1
  <2>3. page[k] \in S
    BY <1>3
  <2> QED
    BY <2>1, <2>2, <2>3
<1>5. ASSUME NEW s \in S, Rank(S, s) <= w PROVE \E k \in 1 .. Len(page) : page[k] = s
  <2> SUFFICES ASSUME Len(page) = w, After(s, page[w]) PROVE FALSE
    BY <1>3
  <2>1. w \in 1 .. Len(page) /\ Rank(S, page[w]) = w /\ page[w] \in Names \cup {<<>>}
    BY <1>1, <1>2, <1>3
  <2>2. Rank(S, page[w]) < Rank(S, s)
    BY <2>1, RankLess
  <2>3. Rank(S, s) \in Nat
    BY RankIs
  <2> QED
    BY <1>1, <1>5, <2>1, <2>2, <2>3
<1>6. {page[k] : k \in DOMAIN page} = {n \in S : Rank(S, n) <= w}
  BY <1>1, <1>4, <1>5
<1> QED
  BY <1>6 DEF w

\* The invariant says that what is answered is right.
LEMMA SoundFromIInv == ASSUME SortIInv PROVE ListingSound
<1>1. /\ sorted \in Sorteds /\ call \in Calls /\ SortedOK(sorted) /\ StableOK /\ AnswerOK /\ TypesOK
  BY DEF SortIInv, TypesOK
<1>2. /\ sorted.ptr \in Nat /\ sorted.page \in Seq(Names) /\ sorted.lastIndex \in Nat /\ sorted.entries \in Seq(Entries)
      /\ Len(sorted.entries) \in Nat /\ sorted.lastName \in Names \cup {<<>>} /\ sorted.after \in Names \cup {<<>>}
      /\ sorted.lastCNID \in SortDirs \cup {0}
  BY <1>1, LenProperties DEF Sorteds
<1>3. SortTypeOK
  <2>1. call.pc \in {"idle", "unpack", "populate", "pass", "walk", "panic"}
    BY <1>1 DEF Calls, Steady
  <2>2. sorted.ptr \in 0 .. Len(sorted.entries) /\ PackedSize(sorted.entries) <= Room
    BY <1>1, <1>2 DEF SortedOK, PlaceOK, StoreOK
  <2>3. sorted.lastIndex \in 0 .. Cardinality(Names) + MaxChanges
    <3>1. sorted.lastIndex <= Rank(Names, sorted.lastName) /\ Rank(Names, sorted.lastName) \in Nat
      BY <1>1, RankIs DEF SortedOK
    <3>2. Rank(Names, sorted.lastName) <= Cardinality(Names)
      BY RankMost
    <3>3. Cardinality(Names) \in Nat /\ MaxChanges \in Nat
      BY SortDirAssumption, FS_CardinalityType
    <3> QED
      BY <1>2, <3>1, <3>2, <3>3
  <2> QED
    BY <1>2, <2>1, <2>2, <2>3 DEF SortTypeOK
<1>4. PassFindsLowest
  <2> SUFFICES ASSUME stable, sorted.entries # <<>>
               PROVE  LET rest == {n \in Visible(sorted.lastCNID, sorted.lastDirOK) : After(n, sorted.after)}
                      IN  /\ {sorted.page[k] : k \in DOMAIN sorted.page} = {n \in rest : Rank(rest, n) <= 2 ^ Power}
                          /\ \A k \in 2 .. Len(sorted.page) : After(sorted.page[k], sorted.page[k - 1])
    BY DEF PassFindsLowest
  <2> DEFINE rest == {n \in Visible(sorted.lastCNID, sorted.lastDirOK) : After(n, sorted.after)}
             lossy == evicted \/ ~ sorted.complete
             page == sorted.page
             after == sorted.after
  <2>1. sorted.lastCNID \in SortDirs
    BY <1>1, <1>2 DEF SortedOK
  <2>2. Covers(page, after, Here, lossy)
    BY <1>1, <2>1 DEF StableOK
  <2>3. rest \in SUBSET Names /\ rest = {n \in Here : After(n, after)}
    BY <1>1, <2>1, ShownAre DEF Here
  <2>4. /\ page \in Seq(Names) /\ after \in Names \cup {<<>>} /\ AscendingPage(page) /\ Len(page) <= 2 ^ Power
        /\ \A i \in 1 .. Len(page) : After(page[i], after)
    BY <1>1, <1>2 DEF SortedOK, PageOK
  <2> HIDE DEF lossy, page, after
  <2>5. Covers(page, after, rest, lossy) /\ \A s \in rest : After(s, after)
    BY <2>2, <2>3, <2>4 DEF Covers
  <2> HIDE DEF rest
  <2>6. {page[k] : k \in DOMAIN page} = {n \in rest : Rank(rest, n) <= 2 ^ Power}
    BY <2>3, <2>4, <2>5, Lowest
  <2>7. \A k \in 2 .. Len(page) : After(page[k], page[k - 1])
    BY <2>4 DEF AscendingPage
  <2> QED
    BY <2>6, <2>7 DEF rest, page
<1> QED
  BY <1>1, <1>3, <1>4 DEF ListingSound, AnswerOK

\* What is answered of a directory left alone is right, for any names, order of
\* the host's listing, number of levels and size of store: the name at an index
\* is the one of that rank, with its CNID, and the end is said at the end unless
\* an entry was dropped from a full list (ReadDirSorted, populate, pack,
\* unpack).
THEOREM ListingAlwaysSound == SortSpec => []ListingSound
<1>1. SortIInv => ListingSound
  BY SoundFromIInv
<1> QED
  BY <1>1, SortInvariant, PTL

\* A call starts counting again or goes on.
LEMMA CallListIndex ==
  ASSUME SortIInv, NEW dir, NEW index, NEW dirOK, CallList(dir, index, dirOK)
  PROVE  sorted'.lastIndex = 0 \/ sorted'.lastIndex = sorted.lastIndex
<1>1. sorted \in Sorteds
  BY DEF SortIInv, TypesOK
<1> DEFINE s == [sorted EXCEPT !.lastCNID = dir, !.lastDirOK = dirOK, !.far = FALSE]
<1>2. \/ sorted' = [Emptied(sorted) EXCEPT !.lastCNID = 0, !.lastIndex = 0, !.far = TRUE, !.lastName = <<>>]
      \/ sorted' = [Emptied(s) EXCEPT !.lastIndex = 0, !.lastName = <<>>, !.complete = FALSE]
      \/ sorted' = s
  BY DEF CallList
<1> QED
  BY <1>1, <1>2 DEF Emptied, Sorteds

\* From one name to the next a listing goes forward, and counts what is there.
LEMMA StepSteady ==
  ASSUME SortIInv, SortNext
  PROVE  /\ call.pc \in {"unpack", "pass"} /\ call'.pc = "walk" => After(sorted'.lastName, sorted.lastName)
         /\ sorted'.lastIndex = sorted.lastIndex + 1 => sorted.lastName \in host[call.dir] /\ sorted'.lastName = sorted.lastName
<1>0. sorted.lastIndex \in Nat
  BY DEF SortIInv, TypesOK, Sorteds
<1>1. ASSUME NEW dir \in SortDirs, NEW index \in Indexes, NEW dirOK \in BOOLEAN, CallList(dir, index, dirOK)
      PROVE  call.pc = "idle" /\ (sorted'.lastIndex = 0 \/ sorted'.lastIndex = sorted.lastIndex)
  <2>1. call.pc = "idle"
    BY <1>1 DEF CallList
  <2> QED
    BY <1>1, <2>1, CallListIndex
<1>2. ASSUME Unpack
      PROVE  (call'.pc = "walk" => After(sorted'.lastName, sorted.lastName)) /\ sorted'.lastIndex = sorted.lastIndex
  BY <1>2, UnpackKeeps
<1>3. ASSUME Populate PROVE call.pc = "populate" /\ sorted' = sorted
  BY <1>3 DEF Populate
<1>4. ASSUME PassEntry PROVE call' = call /\ sorted' = sorted
  BY <1>4 DEF PassEntry
<1>5. ASSUME PassEnd
      PROVE  (call'.pc = "walk" => After(sorted'.lastName, sorted.lastName)) /\ sorted'.lastIndex = sorted.lastIndex
  BY <1>5, PassEndKeeps
<1>6. ASSUME WalkTo
      PROVE  /\ call.pc = "walk"
             /\ sorted'.lastIndex = sorted.lastIndex + 1 => sorted.lastName \in host[call.dir] /\ sorted'.lastName = sorted.lastName
  <2>1. call.pc = "walk"
    BY <1>6 DEF WalkTo
  <2> QED
    BY <1>6, <2>1, WalkToKeeps
<1>7. ASSUME HostChanges PROVE call' = call /\ sorted' = sorted
  BY <1>7 DEF HostChanges
<1> QED
  BY <1>0, <1>1, <1>2, <1>3, <1>4, <1>5, <1>6, <1>7 DEF SortNext

\* Whatever the host changes meanwhile, a listing goes forward only, and a name
\* that has gone does not use up an index (ReadDirSorted).
THEOREM ListingAlwaysSteady == SortSpec => ListingSteady
<1>1. SortIInv /\ [SortNext]_sortVars => [call.pc \in {"unpack", "pass"} /\ call'.pc = "walk" =>
                                            After(sorted'.lastName, sorted.lastName)]_sortVars
  BY StepSteady
<1>2. SortIInv /\ [SortNext]_sortVars => [sorted'.lastIndex = sorted.lastIndex + 1 =>
                                            sorted.lastName \in host[call.dir] /\ sorted'.lastName = sorted.lastName]_sortVars
  BY StepSteady
<1> QED
  BY <1>1, <1>2, SortInvariant, PTL DEF SortSpec, ListingSteady, ListingAscends, StaleNotCounted

-----------------------------------------------------------------------------
(***************************************************************************)
(* Paths with colons (FileSpecs): the tree, its directories, and where an  *)
(* element of a path leads.                                                *)
(***************************************************************************)
\* The root is a directory of every tree.
LEMMA RootFacts ==
  ASSUME NEW t
  PROVE  /\ RootDir \in Objects(t) /\ RootDir.id = 2 /\ RootDir.parent = 1 /\ RootDir.dir
         /\ 2 \in Dirs(t) /\ Dirs(t) \subseteq IdsOf(t) /\ t \subseteq Objects(t)
<1>1. RootDir \in Objects(t) /\ RootDir.id = 2 /\ RootDir.parent = 1
  BY DEF RootDir, Objects
<1>2. RootDir.dir
  BY DEF RootDir
<1>3. 2 \in Dirs(t)
  BY <1>1, <1>2 DEF Dirs
<1>4. Dirs(t) \subseteq IdsOf(t)
  BY DEF Dirs, IdsOf
<1> QED
  BY <1>1, <1>2, <1>3, <1>4 DEF Objects

\* A file is found by its CNID.
LEMMA ObjectIs ==
  ASSUME NEW t, IsTree(t), NEW o \in Objects(t)
  PROVE  Object(t, o.id) = o
<1>1. ASSUME NEW x \in Objects(t), x.id = o.id
      PROVE  x = o
  BY <1>1, RootFacts DEF Objects, IsTree
<1> QED
  BY <1>1 DEF Object

\* Where something is, below the root: its parent is a directory.
LEMMA IdFacts ==
  ASSUME NEW t, IsTree(t), NEW id \in IdsOf(t)
  PROVE  /\ id # 0 /\ id # 1 /\ Object(t, id) \in Objects(t) /\ Object(t, id).id = id
         /\ id # 2 => Object(t, id) \in t /\ Object(t, id).parent \in Dirs(t) /\ Object(t, id).parent \in IdsOf(t)
<1>1. PICK o \in Objects(t) : o.id = id
  BY DEF IdsOf
<1>2. Object(t, id) = o
  BY <1>1, ObjectIs
<1>3. o = RootDir \/ o \in t
  BY DEF Objects
<1>4. id # 0 /\ id # 1
  BY <1>1, <1>3, RootFacts DEF IsTree
<1>5. ASSUME id # 2
      PROVE  o \in t /\ o.parent \in Dirs(t) /\ o.parent \in IdsOf(t)
  BY <1>1, <1>3, <1>5, RootFacts DEF IsTree
<1> QED
  BY <1>1, <1>2, <1>4, <1>5

\* A file is found by its directory and its name.
LEMMA ChildIs ==
  ASSUME NEW t, IsTree(t), NEW o \in t
  PROVE  ChildNamed(t, o.parent, o.name) = o.id
<1>1. ASSUME NEW x \in t, x.parent = o.parent, x.name = o.name
      PROVE  x = o
  BY <1>1 DEF IsTree
<1> QED
  BY <1>1 DEF ChildNamed

\* What is found by directory and name is a file there, of that name.
LEMMA ChildFacts ==
  ASSUME NEW t, IsTree(t), NEW id, NEW name, ChildNamed(t, id, name) # 0
  PROVE  \E o \in t : o.parent = id /\ o.name = name /\ o.id = ChildNamed(t, id, name)
<1>1. PICK o \in t : o.parent = id /\ o.name = name
  BY DEF ChildNamed
<1>2. ChildNamed(t, id, name) = o.id
  BY <1>1, ChildIs
<1> QED
  BY <1>1, <1>2

\* Where a walk may be: at nothing, or at a file.
Places(t) == {0} \cup IdsOf(t)

\* An element leads to a place, and from nothing to nothing.
LEMMA StepFacts ==
  ASSUME NEW t, IsTree(t), NEW id \in Places(t), NEW el
  PROVE  /\ StepTo(t, id, el) \in Places(t)
         /\ id = 0 => StepTo(t, id, el) = 0
<1>1. CASE id = 0
  BY <1>1 DEF StepTo, Places
<1>2. CASE id # 0 /\ el # Up
  <2>1. StepTo(t, id, el) = ChildNamed(t, id, el)
    BY <1>2 DEF StepTo
  <2>2. ASSUME ChildNamed(t, id, el) # 0 PROVE ChildNamed(t, id, el) \in IdsOf(t)
    BY <2>2, ChildFacts, RootFacts DEF IdsOf
  <2> QED
    BY <1>2, <2>1, <2>2 DEF Places
<1>3. CASE id # 0 /\ el = Up
  BY <1>3, IdFacts, RootFacts DEF StepTo, Places
<1> QED
  BY <1>1, <1>2, <1>3

\* The one solution there is.
LEMMA Solves ==
  ASSUME NEW T, NEW n \in Nat, NEW h \in Steps(n, T), NEW b \in T, NEW g,
         g = [k \in 0 .. n |-> g[k]], g[0] = b,
         \A k \in 1 .. n : g[k - 1] \in T => g[k] = h[<<k, g[k - 1]>>]
  PROVE  Iterates(g, n, T, b, h)
<1> DEFINE P == {k \in 0 .. n : g[k] \in T}
<1>1. 0 \in P
  OBVIOUS
<1>2. ASSUME NEW k \in 1 .. n, k - 1 \in P PROVE k \in P
  <2>1. g[k - 1] \in T /\ <<k, g[k - 1]>> \in (1 .. n) \X T
    BY <1>2
  <2>2. h[<<k, g[k - 1]>>] \in T
    BY <2>1 DEF Steps
  <2>3. g[k] = h[<<k, g[k - 1]>>]
    BY <2>1
  <2>4. k \in 0 .. n /\ g[k] \in T
    BY <2>2, <2>3
  <2> QED
    BY <2>4
<1>3. \A k \in 0 .. n : k \in P
  <2> HIDE DEF P
  <2> QED
    BY <1>1, <1>2, Along
<1>4. g \in [0 .. n -> T]
  BY <1>3
<1>5. ASSUME NEW k \in 1 .. n PROVE g[k] = h[<<k, g[k - 1]>>]
  <2>1. k - 1 \in 0 .. n
    OBVIOUS
  <2> QED
    BY <1>3, <2>1
<1> QED
  BY <1>4, <1>5 DEF Iterates

\* Walk9, element by element.
WalksTo(at, t, from, els) ==
  /\ at \in [0 .. Len(els) -> Places(t)] /\ at[0] = from
  /\ \A k \in 1 .. Len(els) : at[k] = StepTo(t, at[k - 1], els[k])

\* The recursion of WalkedIds is one element after another.
LEMMA WalkedFacts ==
  ASSUME NEW t, IsTree(t), NEW S, NEW els \in Seq(S), NEW from \in IdsOf(t)
  PROVE  WalksTo(WalkedIds(t, from, els), t, from, els)
<1> DEFINE n == Len(els)
           T == Places(t)
           h == [x \in (1 .. n) \X T |-> StepTo(t, x[2], els[x[1]])]
           Body(g, k) == IF k = 0 THEN from ELSE StepTo(t, g[k - 1], els[k])
           at == CHOOSE g : g = [k \in 0 .. n |-> Body(g, k)]
<1>1. n \in Nat /\ from \in T
  BY DEF Places
<1>2. \A k \in 1 .. n, x \in T : StepTo(t, x, els[k]) \in T
  BY StepFacts
<1> HIDE DEF T
<1>3. h \in Steps(n, T)
  BY <1>2 DEF Steps
<1>4. ASSUME NEW k \in 1 .. n, NEW x \in T PROVE h[<<k, x>>] = StepTo(t, x, els[k])
  <2>1. <<k, x>> \in (1 .. n) \X T
    OBVIOUS
  <2> QED
    BY <2>1
<1> HIDE DEF h
<1>5. PICK f : Iterates(f, n, T, from, h)
  BY <1>1, <1>3, Recursion
<1>6. f = [k \in 0 .. n |-> Body(f, k)]
  <2>1. ASSUME NEW k \in 0 .. n PROVE f[k] = Body(f, k)
    <3>1. CASE k = 0
      BY <1>5, <3>1 DEF Iterates
    <3>2. CASE k # 0
      <4>1. k \in 1 .. n /\ k - 1 \in 0 .. n
        BY <1>1, <3>2
      <4>2. f[k - 1] \in T /\ f[k] = h[<<k, f[k - 1]>>]
        BY <1>5, <4>1 DEF Iterates
      <4> QED
        BY <1>4, <3>2, <4>1, <4>2
    <3> QED
      BY <3>1, <3>2
  <2> HIDE DEF Body
  <2> QED
    BY <1>5, <2>1 DEF Iterates
<1>7. at = [k \in 0 .. n |-> Body(at, k)]
  <2> HIDE DEF Body
  <2> QED
    BY <1>6
<1>8. WalkedIds(t, from, els) = at
  BY DEF WalkedIds
<1> HIDE DEF at
<1>9. \A k \in 0 .. n : at[k] = Body(at, k)
  <2> HIDE DEF Body
  <2> QED
    BY <1>7
<1>10. at[0] = from /\ \A k \in 1 .. n : at[k] = StepTo(t, at[k - 1], els[k])
  BY <1>1, <1>9
<1>11. Iterates(at, n, T, from, h)
  <2>1. at = [k \in 0 .. n |-> at[k]]
    BY <1>7, <1>9
  <2> QED
    BY <1>1, <1>3, <1>4, <1>10, <2>1, Solves
<1> QED
  BY <1>8, <1>10, <1>11 DEF WalksTo, Iterates, T

\* A walk that arrives has passed something at each element.
LEMMA WalkedThrough ==
  ASSUME NEW t, IsTree(t), NEW S, NEW els \in Seq(S), NEW from \in IdsOf(t),
         NEW at, WalksTo(at, t, from, els), at[Len(els)] # 0
  PROVE  \A k \in 0 .. Len(els) : at[k] \in IdsOf(t)
<1> DEFINE n == Len(els)
           P == {k \in 0 .. n : at[n - k] # 0}
<1>1. n \in Nat
  OBVIOUS
<1>2. 0 \in P
  BY <1>1
<1>3. ASSUME NEW k \in 1 .. n, k - 1 \in P PROVE k \in P
  <2>1. n - k + 1 \in 1 .. n /\ n - k \in 0 .. n /\ n - (k - 1) = n - k + 1 /\ (n - k + 1) - 1 = n - k
    BY <1>1
  <2>2. at[n - k + 1] # 0 /\ at[n - k + 1] = StepTo(t, at[n - k], els[n - k + 1]) /\ at[n - k] \in Places(t)
    BY <1>3, <2>1 DEF WalksTo
  <2>3. at[n - k] # 0
    BY <2>2, StepFacts
  <2> QED
    BY <1>1, <2>3
<1>4. \A k \in 0 .. n : k \in P
  <2> HIDE DEF P
  <2> QED
    BY <1>1, <1>2, <1>3, Along
<1>5. ASSUME NEW k \in 0 .. n PROVE at[k] # 0
  <2>1. n - k \in 0 .. n /\ n - (n - k) = k
    BY <1>1
  <2> QED
    BY <1>4, <2>1
<1> QED
  BY <1>5 DEF WalksTo, Places

(***************************************************************************)
(* The path from the root to a file, in a tree that is not too deep, and   *)
(* the same with the elements of a path taken in.                          *)
(***************************************************************************)
\* Paths from one CNID down.
Ways(t) == Seq(IdsOf(t)) \ {<<>>}

\* A path begins with a CNID.
LEMMA WaysFacts ==
  ASSUME NEW t, NEW s \in Ways(t)
  PROVE  s \in Seq(IdsOf(t)) /\ Len(s) \in Nat \ {0} /\ s[1] \in IdsOf(t)
<1>1. s \in Seq(IdsOf(t)) /\ s # <<>>
  BY DEF Ways
<1>2. Len(s) \in Nat /\ Len(s) # 0
  BY <1>1
<1> QED
  BY <1>1, <1>2

\* A path that starts at the root stays; another gets its parent in front.
LEMMA UpwardsFacts ==
  ASSUME NEW t, IsTree(t), NEW s \in Ways(t), NEW c \in IdsOf(t)
  PROVE  /\ Upwards(t, s) \in Ways(t) /\ Append(s, c) \in Ways(t) /\ Append(s, c)[1] = s[1]
         /\ s[1] = 2 => Upwards(t, s) = s
         /\ s[1] # 2 => Upwards(t, s)[1] = Object(t, s[1]).parent
         /\ Upwards(t, Append(s, c)) = Append(Upwards(t, s), c)
<1>1. s \in Seq(IdsOf(t)) /\ Len(s) \in Nat \ {0} /\ s[1] \in IdsOf(t)
  BY WaysFacts
<1>2. Append(s, c) \in Seq(IdsOf(t)) /\ Append(s, c) # <<>> /\ Append(s, c)[1] = s[1]
  BY <1>1
<1>3. CASE s[1] = 2
  <2>1. Upwards(t, s) = s /\ Upwards(t, Append(s, c)) = Append(s, c)
    BY <1>2, <1>3 DEF Upwards
  <2> QED
    BY <1>2, <1>3, <2>1 DEF Ways
<1>4. CASE s[1] # 2
  <2> DEFINE p == Object(t, s[1]).parent
  <2>1. p \in IdsOf(t)
    BY <1>1, <1>4, IdFacts
  <2>2. Upwards(t, s) = <<p>> \o s /\ Upwards(t, Append(s, c)) = <<p>> \o Append(s, c)
    BY <1>2, <1>4 DEF Upwards
  <2> HIDE DEF p
  <2>3. <<p>> \in Seq(IdsOf(t)) /\ Len(<<p>>) = 1 /\ <<p>>[1] = p
    BY <2>1
  <2>4. <<p>> \o s \in Seq(IdsOf(t)) /\ (<<p>> \o s)[1] = p /\ Len(<<p>> \o s) = 1 + Len(s)
    BY <1>1, <2>3
  <2>5. <<p>> \o Append(s, c) = Append(<<p>> \o s, c)
    BY <1>1, <2>3
  <2>6. <<p>> \o s \in Ways(t)
    BY <1>1, <2>4 DEF Ways
  <2> QED
    BY <1>2, <1>4, <2>2, <2>4, <2>5, <2>6 DEF p, Ways
<1> QED
  BY <1>3, <1>4

\* One directory more in front of the path, each time.
ClimbsTo(up, t, id) ==
  /\ up \in [0 .. Deepest + 1 -> Ways(t)] /\ up[0] = <<id>>
  /\ \A k \in 1 .. Deepest + 1 : up[k] = Upwards(t, up[k - 1])

\* The recursion of Above is one directory after another.
LEMMA ClimbFacts ==
  ASSUME NEW t, IsTree(t), NEW id \in IdsOf(t)
  PROVE  \E up : ClimbsTo(up, t, id) /\ Above(t, id) = up[Deepest + 1]
<1> DEFINE n == Deepest + 1
           T == Ways(t)
           h == [x \in (1 .. n) \X T |-> Upwards(t, x[2])]
           Body(g, k) == IF k = 0 THEN <<id>> ELSE Upwards(t, g[k - 1])
           up == CHOOSE g : g = [k \in 0 .. n |-> Body(g, k)]
<1>1. n \in Nat /\ <<id>> \in T
  BY FileSpecsAssumption DEF Ways
<1>2. \A x \in T : Upwards(t, x) \in T
  BY UpwardsFacts
<1>0. Above(t, id) = up[n]
  BY DEF Above
<1> HIDE DEF T, n
<1>3. h \in Steps(n, T)
  BY <1>2 DEF Steps
<1>4. ASSUME NEW k \in 1 .. n, NEW x \in T PROVE h[<<k, x>>] = Upwards(t, x)
  <2>1. <<k, x>> \in (1 .. n) \X T
    OBVIOUS
  <2> QED
    BY <2>1
<1> HIDE DEF h
<1>5. PICK f : Iterates(f, n, T, <<id>>, h)
  BY <1>1, <1>3, Recursion
<1>6. f = [k \in 0 .. n |-> Body(f, k)]
  <2>1. ASSUME NEW k \in 0 .. n PROVE f[k] = Body(f, k)
    <3>1. CASE k = 0
      BY <1>5, <3>1 DEF Iterates
    <3>2. CASE k # 0
      <4>1. k \in 1 .. n /\ k - 1 \in 0 .. n
        BY <1>1, <3>2
      <4>2. f[k - 1] \in T /\ f[k] = h[<<k, f[k - 1]>>]
        BY <1>5, <4>1 DEF Iterates
      <4> QED
        BY <1>4, <3>2, <4>1, <4>2
    <3> QED
      BY <3>1, <3>2
  <2> HIDE DEF Body
  <2> QED
    BY <1>5, <2>1 DEF Iterates
<1>7. up = [k \in 0 .. n |-> Body(up, k)]
  <2> HIDE DEF Body
  <2> QED
    BY <1>6
<1> HIDE DEF up
<1>9. \A k \in 0 .. n : up[k] = Body(up, k)
  <2> HIDE DEF Body
  <2> QED
    BY <1>7
<1>10. up[0] = <<id>> /\ \A k \in 1 .. n : up[k] = Upwards(t, up[k - 1])
  BY <1>1, <1>9
<1>11. Iterates(up, n, T, <<id>>, h)
  <2>1. up = [k \in 0 .. n |-> up[k]]
    BY <1>7, <1>9
  <2>2. \A k \in 1 .. n : up[k - 1] \in T => up[k] = h[<<k, up[k - 1]>>]
    BY <1>4, <1>10
  <2> DEFINE b == <<id>>
  <2>3. b \in T /\ up[0] = b
    BY <1>1, <1>10
  <2> HIDE DEF b
  <2>4. Iterates(up, n, T, b, h)
    BY <1>1, <1>3, <2>1, <2>2, <2>3, Solves
  <2> QED
    BY <2>4 DEF b
<1>12. ClimbsTo(up, t, id)
  BY <1>10, <1>11 DEF ClimbsTo, Iterates, T, n
<1> QED
  BY <1>0, <1>12 DEF n

\* A tree that is not too deep to climb.
IsLow(t) == IsTree(t) /\ \E level \in [IdsOf(t) -> 0 .. Deepest + 1] : Levelled(t, Deepest + 1, level)

\* The path to the root is the root.
LEMMA AboveRoot ==
  ASSUME NEW t, IsTree(t)
  PROVE  Above(t, 2) = <<2>>
<1> DEFINE n == Deepest + 1
           b == <<2>>
<1>1. 2 \in IdsOf(t) /\ n \in Nat /\ b[1] = 2
  BY RootFacts, FileSpecsAssumption
<1>2. PICK up : ClimbsTo(up, t, 2) /\ Above(t, 2) = up[n]
  BY <1>1, ClimbFacts
<1>3. /\ up \in [0 .. n -> Ways(t)] /\ up[0] = b
      /\ \A k \in 1 .. n : up[k] = Upwards(t, up[k - 1])
  BY <1>2 DEF ClimbsTo
<1> HIDE DEF n, b
<1> DEFINE P == {k \in 0 .. n : up[k] = b}
<1>4. 0 \in P
  BY <1>1, <1>3
<1>5. ASSUME NEW k \in 1 .. n, k - 1 \in P PROVE k \in P
  <2>1. k \in 0 .. n /\ up[k] = Upwards(t, up[k - 1]) /\ up[k - 1] = b /\ up[k - 1] \in Ways(t)
    BY <1>1, <1>3, <1>5
  <2>2. up[k] = b
    BY <1>1, <2>1, UpwardsFacts
  <2> QED
    BY <2>1, <2>2
<1>6. \A k \in 0 .. n : k \in P
  <2> HIDE DEF P
  <2> QED
    BY <1>1, <1>4, <1>5, Along
<1> QED
  BY <1>1, <1>2, <1>6 DEF b

\* The path to a file is that to its directory and the file.
LEMMA AboveFacts ==
  ASSUME NEW t, IsLow(t), NEW id \in IdsOf(t), id # 2
  PROVE  Above(t, id) = Append(Above(t, Object(t, id).parent), id)
<1> DEFINE n == Deepest + 1
           p == Object(t, id).parent
<1>1. n \in Nat /\ n - 1 \in Nat /\ IsTree(t)
  BY FileSpecsAssumption DEF IsLow
<1>2. p \in IdsOf(t) /\ Object(t, id) \in t /\ Object(t, id).id = id
  BY <1>1, IdFacts
<1>3. PICK level \in [IdsOf(t) -> 0 .. n] : Levelled(t, n, level)
  BY DEF IsLow
<1>4. level[p] <= n - 1
  <2>1. level[id] = level[p] + 1 /\ level[id] <= n
    BY <1>2, <1>3 DEF Levelled
  <2>2. level[p] \in 0 .. n
    BY <1>2, <1>3
  <2> QED
    BY <1>1, <2>1, <2>2
<1>5. PICK up : ClimbsTo(up, t, id) /\ Above(t, id) = up[n]
  BY <1>1, ClimbFacts
<1>6. PICK of : ClimbsTo(of, t, p) /\ Above(t, p) = of[n]
  <2> HIDE DEF p
  <2> QED
    BY <1>1, <1>2, ClimbFacts
<1>7. /\ up \in [0 .. n -> Ways(t)] /\ up[0] = <<id>>
      /\ \A k \in 1 .. n : up[k] = Upwards(t, up[k - 1])
  BY <1>5 DEF ClimbsTo
<1>8. /\ of \in [0 .. n -> Ways(t)] /\ of[0] = <<p>>
      /\ \A k \in 1 .. n : of[k] = Upwards(t, of[k - 1])
  BY <1>6 DEF ClimbsTo
<1>9. up[1] = Append(of[0], id)
  <2>1. up[1] = Upwards(t, up[0])
    BY <1>1, <1>7
  <2>2. up[1] = <<p>> \o <<id>>
    BY <1>7, <2>1 DEF Upwards
  <2> QED
    BY <1>8, <2>2
<1> HIDE DEF n, p
<1> DEFINE P == {k \in 0 .. n - 1 : /\ up[k + 1] = Append(of[k], id)
                                    /\ of[k][1] = 2 \/ level[of[k][1]] <= level[p] - k}
<1>10. 0 \in P
  <2>1. of[0][1] = p /\ level[p] \in 0 .. n
    BY <1>2, <1>3, <1>8
  <2> QED
    BY <1>1, <1>9, <2>1
<1>11. ASSUME NEW k \in 1 .. n - 1, k - 1 \in P PROVE k \in P
  <2>1. /\ k \in 1 .. n /\ k - 1 \in 0 .. n /\ k + 1 \in 1 .. n /\ (k + 1) - 1 = k /\ (k - 1) + 1 = k
        /\ k \in 0 .. n - 1
    BY <1>1
  <2>2. up[k] = Append(of[k - 1], id) /\ of[k - 1] \in Ways(t) /\ of[k] = Upwards(t, of[k - 1])
    BY <1>8, <1>11, <2>1
  <2>3. up[k + 1] = Upwards(t, up[k])
    BY <1>7, <2>1
  <2>4. up[k + 1] = Append(of[k], id)
    <3> DEFINE s == of[k - 1]
    <3>1. s \in Ways(t) /\ up[k] = Append(s, id) /\ of[k] = Upwards(t, s)
      BY <2>2
    <3> HIDE DEF s
    <3>2. Upwards(t, Append(s, id)) = Append(Upwards(t, s), id)
      BY <1>1, <3>1, UpwardsFacts
    <3> QED
      BY <2>3, <3>1, <3>2
  <2> DEFINE a == of[k - 1][1]
  <2>5. a \in IdsOf(t)
    BY <2>2, WaysFacts
  <2>6. CASE a = 2
    <3>1. of[k][1] = 2
      BY <1>1, <2>2, <2>6, UpwardsFacts
    <3> QED
      BY <2>1, <2>4, <3>1
  <2>7. CASE a # 2
    <3>1. of[k][1] = Object(t, a).parent
      <4> DEFINE s == of[k - 1]
      <4>1. s \in Ways(t) /\ s[1] = a /\ of[k] = Upwards(t, s)
        BY <2>2
      <4> HIDE DEF s, a
      <4>2. Upwards(t, s)[1] = Object(t, s[1]).parent
        BY <1>1, <2>5, <2>7, <4>1, UpwardsFacts
      <4> QED
        BY <4>1, <4>2
    <3>2. Object(t, a) \in t /\ Object(t, a).id = a /\ Object(t, a).parent \in IdsOf(t)
      BY <1>1, <2>5, <2>7, IdFacts
    <3>3. level[a] = level[of[k][1]] + 1
      BY <1>3, <3>1, <3>2 DEF Levelled
    <3>4. level[a] <= level[p] - (k - 1)
      BY <1>11, <2>7
    <3>5. level[of[k][1]] \in 0 .. n /\ level[p] \in 0 .. n /\ level[a] \in 0 .. n
      BY <1>2, <1>3, <2>5, <3>1, <3>2
    <3>6. level[of[k][1]] <= level[p] - k
      BY <1>1, <3>3, <3>4, <3>5
    <3> QED
      BY <2>1, <2>4, <3>6
  <2> QED
    BY <2>6, <2>7
<1>12. n - 1 \in P
  <2>1. n - 1 \in 0 .. n - 1
    BY <1>1
  <2> HIDE DEF P
  <2> QED
    BY <1>1, <1>10, <1>11, <2>1, Along
<1> DEFINE r == of[n - 1]
<1>13. n - 1 \in 0 .. n /\ n \in 1 .. n /\ (n - 1) + 1 = n
  BY <1>1
<1>14. r \in Ways(t) /\ r[1] \in IdsOf(t) /\ of[n] = Upwards(t, r) /\ up[n] = Append(r, id)
  BY <1>8, <1>12, <1>13, WaysFacts
<1>15. r[1] = 2
  <2> SUFFICES ASSUME r[1] # 2 PROVE FALSE
    OBVIOUS
  <2>1. level[r[1]] <= level[p] - (n - 1)
    BY <1>12
  <2>2. Object(t, r[1]) \in t /\ Object(t, r[1]).id = r[1] /\ Object(t, r[1]).parent \in IdsOf(t)
    BY <1>1, <1>14, IdFacts
  <2>3. level[r[1]] = level[Object(t, r[1]).parent] + 1
    BY <1>3, <2>2 DEF Levelled
  <2>4. level[Object(t, r[1]).parent] \in 0 .. n /\ level[p] \in 0 .. n
    BY <1>2, <1>3, <2>2
  <2> QED
    BY <1>1, <1>4, <2>1, <2>3, <2>4
<1>16. of[n] = r
  BY <1>1, <1>14, <1>15, UpwardsFacts
<1> QED
  BY <1>5, <1>6, <1>14, <1>16 DEF n, p

\* The path from the root to a file is of CNIDs.
LEMMA AboveTyped ==
  ASSUME NEW t, IsTree(t), NEW id \in IdsOf(t)
  PROVE  Above(t, id) \in Ways(t)
<1>1. Deepest + 1 \in 0 .. Deepest + 1
  BY FileSpecsAssumption
<1>2. PICK up : ClimbsTo(up, t, id) /\ Above(t, id) = up[Deepest + 1]
  BY ClimbFacts
<1> QED
  BY <1>1, <1>2 DEF ClimbsTo

\* Front takes back what Append put there.
LEMMA ShorterFacts ==
  ASSUME NEW T, NEW s \in Seq(T)
  PROVE  /\ Front(s) \in Seq(T)
         /\ Len(s) <= 1 => Front(s) = <<>>
         /\ \A x \in T : Front(Append(s, x)) = s
<1> DEFINE n == Len(s)
<1>1. n \in Nat
  OBVIOUS
<1>2. \A i \in 1 .. n - 1 : s[i] \in T
  BY <1>1
<1>3. Front(s) \in Seq(T)
  BY <1>1, <1>2, SubSeqProperties DEF Front
<1>4. ASSUME n <= 1 PROVE Front(s) = <<>>
  <2>1. n - 1 \in Int /\ n - 1 < 1
    BY <1>1, <1>4
  <2> QED
    BY <2>1, SubSeqEmpty DEF Front
<1>5. ASSUME NEW x \in T PROVE Front(Append(s, x)) = s
  <2> DEFINE r == Append(s, x)
  <2>1. r \in Seq(T) /\ Len(r) = n + 1 /\ \A i \in 1 .. n : r[i] = s[i] /\ r[i] \in T
    OBVIOUS
  <2>2. Front(r) = SubSeq(r, 1, n)
    BY <1>1, <2>1 DEF Front
  <2> HIDE DEF r
  <2>3. /\ SubSeq(r, 1, n) \in Seq(T) /\ Len(SubSeq(r, 1, n)) = IF 1 <= n THEN n - 1 + 1 ELSE 0
        /\ \A i \in 1 .. n - 1 + 1 : SubSeq(r, 1, n)[i] = r[1 + i - 1]
    BY <1>1, <2>1, SubSeqProperties
  <2>4. Len(SubSeq(r, 1, n)) = n /\ \A i \in 1 .. n : SubSeq(r, 1, n)[i] = s[i]
    BY <1>1, <2>1, <2>3
  <2> QED
    BY <1>1, <2>2, <2>3, <2>4 DEF r
<1> QED
  BY <1>3, <1>4, <1>5

\* An element, taken into the path from the root.
FoldOf(path, el, id) == IF el = Up THEN Front(path) ELSE Append(path, id)

\* One element more taken in, each time.
FoldsTo(full, t, from, els, at) ==
  /\ full \in [0 .. Len(els) -> Seq(Places(t))] /\ full[0] = Above(t, from)
  /\ \A k \in 1 .. Len(els) : full[k] = FoldOf(full[k - 1], els[k], at[k])

\* The recursion of FoldedPath is one element after another.
LEMMA FoldedFacts ==
  ASSUME NEW t, IsTree(t), NEW S, NEW els \in Seq(S), NEW from \in IdsOf(t), NEW at, WalksTo(at, t, from, els)
  PROVE  FoldsTo(FoldedPath(t, from, els, at), t, from, els, at)
<1> DEFINE n == Len(els)
           T == Seq(Places(t))
           b == Above(t, from)
           h == [x \in (1 .. n) \X T |-> FoldOf(x[2], els[x[1]], at[x[1]])]
           Body(g, k) == IF k = 0 THEN b
                         ELSE IF els[k] = Up THEN Front(g[k - 1]) ELSE Append(g[k - 1], at[k])
           path == CHOOSE g : g = [k \in 0 .. n |-> Body(g, k)]
<1>0. FoldedPath(t, from, els, at) = path
  BY DEF FoldedPath
<1>1. n \in Nat /\ b \in T
  <2>1. b \in Ways(t)
    BY AboveTyped
  <2> HIDE DEF b
  <2>2. IdsOf(t) \subseteq Places(t)
    BY DEF Places
  <2>3. b \in Seq(IdsOf(t))
    BY <2>1 DEF Ways
  <2> QED
    BY <2>2, <2>3
<1>2. ASSUME NEW k \in 1 .. n, NEW x \in T PROVE FoldOf(x, els[k], at[k]) \in T
  <2>1. at[k] \in Places(t)
    BY <1>1 DEF WalksTo
  <2>2. Front(x) \in T
    BY ShorterFacts
  <2> QED
    BY <2>1, <2>2 DEF FoldOf
<1> HIDE DEF T, b
<1>3. h \in Steps(n, T)
  BY <1>2 DEF Steps
<1>4. ASSUME NEW k \in 1 .. n, NEW x \in T PROVE h[<<k, x>>] = FoldOf(x, els[k], at[k])
  <2>1. <<k, x>> \in (1 .. n) \X T
    OBVIOUS
  <2> QED
    BY <2>1
<1> HIDE DEF h
<1>5. PICK f : Iterates(f, n, T, b, h)
  BY <1>1, <1>3, Recursion
<1>6. f = [k \in 0 .. n |-> Body(f, k)]
  <2>1. ASSUME NEW k \in 0 .. n PROVE f[k] = Body(f, k)
    <3>1. CASE k = 0
      BY <1>5, <3>1 DEF Iterates
    <3>2. CASE k # 0
      <4>1. k \in 1 .. n /\ k - 1 \in 0 .. n
        BY <1>1, <3>2
      <4>2. f[k - 1] \in T /\ f[k] = h[<<k, f[k - 1]>>]
        BY <1>5, <4>1 DEF Iterates
      <4>3. f[k] = FoldOf(f[k - 1], els[k], at[k])
        BY <1>4, <4>1, <4>2
      <4> QED
        BY <3>2, <4>3 DEF FoldOf
    <3> QED
      BY <3>1, <3>2
  <2> HIDE DEF Body
  <2> QED
    BY <1>5, <2>1 DEF Iterates
<1>7. path = [k \in 0 .. n |-> Body(path, k)]
  <2> HIDE DEF Body
  <2> QED
    BY <1>6
<1> HIDE DEF path
<1>9. \A k \in 0 .. n : path[k] = Body(path, k)
  <2> HIDE DEF Body
  <2> QED
    BY <1>7
<1>10. path[0] = b /\ \A k \in 1 .. n : path[k] = FoldOf(path[k - 1], els[k], at[k])
  BY <1>1, <1>9 DEF FoldOf
<1>11. Iterates(path, n, T, b, h)
  <2>1. path = [k \in 0 .. n |-> path[k]]
    BY <1>7, <1>9
  <2>2. \A k \in 1 .. n : path[k - 1] \in T => path[k] = h[<<k, path[k - 1]>>]
    BY <1>4, <1>10
  <2> QED
    BY <1>1, <1>3, <1>10, <2>1, <2>2, Solves
<1> QED
  BY <1>0, <1>10, <1>11 DEF FoldsTo, Iterates, T, b

\* The path folded is the path to where the walk is, while it stays below.
LEMMA FoldedIs ==
  ASSUME NEW t, IsLow(t), NEW S, NEW els \in Seq(S), NEW from \in IdsOf(t),
         NEW at, WalksTo(at, t, from, els), at[Len(els)] # 0,
         NEW full, FoldsTo(full, t, from, els, at), \A k \in DOMAIN els : full[k] # <<>>
  PROVE  \A k \in 0 .. Len(els) : full[k] = Above(t, at[k])
<1> DEFINE n == Len(els)
           P == {k \in 0 .. n : full[k] = Above(t, at[k])}
<1>1. n \in Nat /\ IsTree(t)
  BY DEF IsLow
<1>2. \A k \in 0 .. n : at[k] \in IdsOf(t)
  BY <1>1, WalkedThrough
<1>3. 0 \in P
  BY <1>1 DEF FoldsTo, WalksTo
<1>4. ASSUME NEW k \in 1 .. n, k - 1 \in P PROVE k \in P
  <2> DEFINE a == at[k - 1]
             s == full[k - 1]
  <2>1. k \in 0 .. n /\ k - 1 \in 0 .. n /\ a \in IdsOf(t) /\ at[k] \in IdsOf(t) /\ at[k] # 0 /\ k \in DOMAIN els
    <3>1. k \in 0 .. n /\ k - 1 \in 0 .. n /\ k \in DOMAIN els
      BY <1>1
    <3>2. a \in IdsOf(t) /\ at[k] \in IdsOf(t)
      BY <1>2, <3>1
    <3> HIDE DEF a
    <3> QED
      BY <1>1, <3>1, <3>2, IdFacts
  <2>2. full[k] = FoldOf(s, els[k], at[k]) /\ at[k] = StepTo(t, a, els[k]) /\ s = Above(t, a) /\ full[k] # <<>>
    BY <1>4, <2>1 DEF FoldsTo, WalksTo
  <2>3. s \in Ways(t) /\ s \in Seq(IdsOf(t)) /\ a # 0
    <3>1. s = Above(t, a)
      BY <2>2
    <3> HIDE DEF a, s
    <3>2. s \in Ways(t)
      BY <1>1, <2>1, <3>1, AboveTyped
    <3> QED
      BY <1>1, <2>1, <3>2, WaysFacts, IdFacts
  <2> HIDE DEF a, s
  <2>4. CASE els[k] # Up
    <3>1. at[k] = ChildNamed(t, a, els[k])
      BY <2>2, <2>3, <2>4 DEF StepTo
    <3>2. PICK o \in t : o.parent = a /\ o.id = at[k]
      BY <1>1, <2>1, <3>1, ChildFacts
    <3>3. Object(t, at[k]) = o /\ at[k] # 2
      BY <1>1, <3>2, ObjectIs, RootFacts DEF IsTree
    <3>4. Above(t, at[k]) = Append(s, at[k])
      BY <1>1, <2>1, <2>2, <3>2, <3>3, AboveFacts
    <3> QED
      BY <2>1, <2>2, <2>4, <3>4 DEF FoldOf
  <2>5. CASE els[k] = Up
    <3>1. full[k] = Front(s)
      BY <2>2, <2>5 DEF FoldOf
    <3>2. a # 2
      <4> SUFFICES ASSUME a = 2 PROVE FALSE
        OBVIOUS
      <4>1. s = <<2>>
        BY <1>1, <2>2, AboveRoot
      <4>2. Len(s) <= 1
        BY <4>1
      <4>3. Front(s) = <<>>
        BY <2>3, <4>2, ShorterFacts
      <4> QED
        BY <2>2, <3>1, <4>3
    <3>3. at[k] = Object(t, a).parent
      BY <2>2, <2>3, <2>5, <3>2 DEF StepTo
    <3>4. s = Append(Above(t, at[k]), a)
      BY <2>1, <2>2, <3>2, <3>3, AboveFacts
    <3>5. Above(t, at[k]) \in Seq(IdsOf(t))
      BY <1>1, <2>1, AboveTyped, WaysFacts
    <3>6. Front(s) = Above(t, at[k])
      <4> DEFINE r == Above(t, at[k])
      <4> HIDE DEF r
      <4>1. r \in Seq(IdsOf(t)) /\ s = Append(r, a)
        BY <3>4, <3>5 DEF r
      <4>2. Front(s) = r
        BY <2>1, <4>1, ShorterFacts
      <4> QED
        BY <4>2 DEF r
    <3> QED
      BY <2>1, <3>1, <3>6
  <2> QED
    BY <2>4, <2>5
<1> QED
  <2> HIDE DEF P
  <2>1. \A k \in 0 .. n : k \in P
    BY <1>1, <1>3, <1>4, Along
  <2> QED
    BY <2>1 DEF P

\* What the path to a file says of it.
LEMMA ParentIs ==
  ASSUME NEW t, IsLow(t), NEW id \in IdsOf(t), id # 2
  PROVE  /\ ParentInPath(Above(t, id)) = Object(t, id).parent
         /\ Last(Above(t, id)) = id
<1> DEFINE p == Object(t, id).parent
           s == Above(t, p)
<1>1. IsTree(t)
  BY DEF IsLow
<1>2. p \in IdsOf(t) /\ Above(t, id) = Append(s, id)
  BY <1>1, AboveFacts, IdFacts
<1>3. s \in Seq(IdsOf(t)) /\ Len(s) \in Nat \ {0}
  <2> HIDE DEF p
  <2> QED
    BY <1>1, <1>2, AboveTyped, WaysFacts
<1>4. s[Len(s)] = p
  <2>1. CASE p = 2
    <3>1. s = <<2>>
      BY <1>1, <2>1, AboveRoot
    <3> HIDE DEF s
    <3> QED
      BY <2>1, <3>1
  <2>2. CASE p # 2
    <3> DEFINE r == Above(t, Object(t, p).parent)
    <3> HIDE DEF p
    <3>1. s = Append(r, p) /\ Object(t, p).parent \in IdsOf(t)
      BY <1>1, <1>2, <2>2, AboveFacts, IdFacts
    <3>2. r \in Seq(IdsOf(t))
      BY <1>1, <3>1, AboveTyped, WaysFacts
    <3> HIDE DEF s, r
    <3> QED
      BY <1>2, <3>1, <3>2
  <2> QED
    BY <2>1, <2>2
<1> HIDE DEF s, p
<1>5. Append(s, id)[Len(s)] = s[Len(s)] /\ Len(Append(s, id)) = Len(s) + 1 /\ Append(s, id)[Len(s) + 1] = id
  BY <1>3
<1>6. Len(s) + 1 # 1 /\ (Len(s) + 1) - 1 = Len(s)
  BY <1>3
<1>7. ParentInPath(Append(s, id)) = p /\ Last(Append(s, id)) = id
  BY <1>4, <1>5, <1>6 DEF ParentInPath, Last
<1> QED
  BY <1>2, <1>7 DEF p

(***************************************************************************)
(* The elements of a path.                                                 *)
(***************************************************************************)
\* A colon that leads is dropped, and nothing else.
LEMMA UnledFacts ==
  ASSUME NEW S, NEW path \in Seq(S)
  PROVE  /\ Unled(path) \in Seq(S)
         /\ path # <<>> /\ path[1] = PathColon => Unled(path) = Tail(path)
         /\ path = <<>> \/ path[1] # PathColon => Unled(path) = path
  BY DEF Unled

\* Where the first colon is.
FirstColon(path, m) ==
  m \in 1 .. Len(path) /\ path[m] = PathColon /\ \A j \in 1 .. Len(path) : path[j] = PathColon => m <= j

\* What follows the disk's name, from the first colon on.
LEMMA UndiskedFacts ==
  ASSUME NEW S, NEW path \in Seq(S)
  PROVE  /\ Undisked(path) \in Seq(S)
         /\ \A m : FirstColon(path, m) => Undisked(path) = SubSeq(path, m, Len(path))
         /\ PathColon \in ToSet(path) => \E m : FirstColon(path, m)
<1> DEFINE at == {i \in DOMAIN path : path[i] = PathColon}
           c == CHOOSE i \in at : \A j \in at : i <= j
<1>1. DOMAIN path = 1 .. Len(path) /\ Len(path) \in Nat /\ at \in SUBSET Nat
  OBVIOUS
<1>2. Undisked(path) = IF at = {} THEN <<>> ELSE SubSeq(path, c, Len(path))
  BY DEF Undisked
<1>3. ASSUME at # {} PROVE FirstColon(path, c)
  <2>1. \E i \in at : \A j \in at : i <= j
    <3> HIDE DEF at
    <3> QED
      BY <1>1, <1>3, LeastNumber
  <2>2. c \in at /\ \A j \in at : c <= j
    BY <2>1
  <2> QED
    BY <1>1, <2>2 DEF FirstColon
<1>4. ASSUME NEW m, FirstColon(path, m) PROVE at # {} /\ c = m
  <2>1. m \in at /\ m \in Nat
    BY <1>1, <1>4 DEF FirstColon
  <2>2. FirstColon(path, c) /\ c \in Nat
    BY <1>1, <1>3, <2>1 DEF FirstColon
  <2>3. m <= c /\ c <= m
    BY <1>4, <2>2 DEF FirstColon
  <2> QED
    BY <2>1, <2>2, <2>3
<1>5. ASSUME PathColon \in ToSet(path) PROVE at # {}
  BY <1>5 DEF ToSet
<1>6. Undisked(path) \in Seq(S)
  <2>1. CASE at = {}
    BY <1>2, <2>1
  <2>2. CASE at # {}
    <3>1. c \in 1 .. Len(path)
      BY <1>3, <2>2 DEF FirstColon
    <3> HIDE DEF c, at
    <3>2. \A i \in c .. Len(path) : path[i] \in S
      BY <1>1, <3>1
    <3>3. SubSeq(path, c, Len(path)) \in Seq(S)
      BY <1>1, <3>1, <3>2, SubSeqProperties
    <3> QED
      BY <1>2, <2>2, <3>3
  <2> QED
    BY <2>1, <2>2
<1> QED
  <2> HIDE DEF at, c
  <2> QED
    BY <1>2, <1>3, <1>4, <1>5, <1>6

\* What a character adds to the elements before it.
ElementOf(els, p, i) ==
  IF p[i] # PathColon THEN Append(els, p[i])
  ELSE IF i > 1 /\ p[i - 1] = PathColon THEN Append(els, Up)
  ELSE els

\* The elements after so many characters.
Parses(els, p, S) ==
  /\ els \in [0 .. Len(p) -> Seq(S \cup {Up})] /\ els[0] = <<>>
  /\ \A i \in 1 .. Len(p) : els[i] = ElementOf(els[i - 1], p, i)

\* The recursion of Elements is one character after another.
LEMMA ElementsFacts ==
  ASSUME NEW S, NEW path \in Seq(S)
  PROVE  \E els : Parses(els, Unled(path), S) /\ Elements(path) = els[Len(Unled(path))]
<1> DEFINE p == Unled(path)
           n == Len(p)
           T == Seq(S \cup {Up})
           h == [x \in (1 .. n) \X T |-> ElementOf(x[2], p, x[1])]
           Body(g, i) == IF i = 0 THEN <<>>
                         ELSE IF p[i] # PathColon THEN Append(g[i - 1], p[i])
                         ELSE IF i > 1 /\ p[i - 1] = PathColon THEN Append(g[i - 1], Up)
                         ELSE g[i - 1]
           els == CHOOSE g : g = [i \in 0 .. n |-> Body(g, i)]
<1>0. Elements(path) = els[n]
  BY DEF Elements
<1> HIDE DEF p
<1>1. p \in Seq(S) /\ n \in Nat /\ <<>> \in T
  BY UnledFacts DEF p
<1>2. ASSUME NEW i \in 1 .. n, NEW x \in T PROVE ElementOf(x, p, i) \in T
  <2>1. p[i] \in S \cup {Up} /\ Up \in S \cup {Up}
    BY <1>1
  <2> QED
    BY <2>1 DEF ElementOf
<1> HIDE DEF T
<1>3. h \in Steps(n, T)
  BY <1>2 DEF Steps
<1>4. ASSUME NEW i \in 1 .. n, NEW x \in T PROVE h[<<i, x>>] = ElementOf(x, p, i)
  <2>1. <<i, x>> \in (1 .. n) \X T
    OBVIOUS
  <2> QED
    BY <2>1
<1> HIDE DEF h
<1>5. PICK f : Iterates(f, n, T, <<>>, h)
  BY <1>1, <1>3, Recursion
<1>6. f = [i \in 0 .. n |-> Body(f, i)]
  <2>1. ASSUME NEW i \in 0 .. n PROVE f[i] = Body(f, i)
    <3>1. CASE i = 0
      BY <1>5, <3>1 DEF Iterates
    <3>2. CASE i # 0
      <4>1. i \in 1 .. n /\ i - 1 \in 0 .. n
        BY <1>1, <3>2
      <4>2. f[i - 1] \in T /\ f[i] = h[<<i, f[i - 1]>>]
        BY <1>5, <4>1 DEF Iterates
      <4>3. f[i] = ElementOf(f[i - 1], p, i)
        BY <1>4, <4>1, <4>2
      <4> QED
        BY <3>2, <4>3 DEF ElementOf
    <3> QED
      BY <3>1, <3>2
  <2> HIDE DEF Body
  <2> QED
    BY <1>5, <2>1 DEF Iterates
<1>7. els = [i \in 0 .. n |-> Body(els, i)]
  <2> HIDE DEF Body
  <2> QED
    BY <1>6
<1> HIDE DEF els
<1>9. \A i \in 0 .. n : els[i] = Body(els, i)
  <2> HIDE DEF Body
  <2> QED
    BY <1>7
<1>10. els[0] = <<>> /\ \A i \in 1 .. n : els[i] = ElementOf(els[i - 1], p, i)
  BY <1>1, <1>9 DEF ElementOf
<1>11. Iterates(els, n, T, <<>>, h)
  <2>1. els = [i \in 0 .. n |-> els[i]]
    BY <1>7, <1>9
  <2>2. \A i \in 1 .. n : els[i - 1] \in T => els[i] = h[<<i, els[i - 1]>>]
    BY <1>4, <1>10
  <2> DEFINE b == <<>>
  <2>3. b \in T /\ els[0] = b
    BY <1>1, <1>10
  <2> HIDE DEF b
  <2>4. Iterates(els, n, T, b, h)
    BY <1>1, <1>3, <2>1, <2>2, <2>3, Solves
  <2> QED
    BY <2>4 DEF b
<1>12. Parses(els, p, S)
  BY <1>10, <1>11 DEF Parses, Iterates, T
<1> QED
  BY <1>0, <1>12 DEF p

\* Elements are the path's names, and climbs.
LEMMA ElementsTyped ==
  ASSUME NEW S, NEW path \in Seq(S), NEW dir
  PROVE  ElementsOf(dir, path) \in Seq(S \cup {Up})
<1>1. ASSUME NEW q \in Seq(S) PROVE Elements(q) \in Seq(S \cup {Up})
  <2>1. PICK els : Parses(els, Unled(q), S) /\ Elements(q) = els[Len(Unled(q))]
    BY ElementsFacts
  <2>2. Len(Unled(q)) \in 0 .. Len(Unled(q))
    BY UnledFacts
  <2> QED
    BY <2>1, <2>2 DEF Parses
<1>2. Undisked(Unled(path)) \in Seq(S)
  BY UnledFacts, UndiskedFacts
<1> QED
  BY <1>1, <1>2 DEF ElementsOf

(***************************************************************************)
(* CatalogWalk, when it succeeds.                                          *)
(***************************************************************************)
\* It is told of a file what the tree says of it.
Described(t, e) == \E o \in t : o.id = e.id /\ o.parent = e.parent /\ o.name = e.name

\* A walk that gets there: by directories, to the place answered.
WalkOf(at, t, dir, path) ==
  /\ CanWalk(t, dir, path)
  /\ WalksTo(at, t, StartsAt(dir, path), ElementsOf(dir, path))
  /\ at = WalkedIds(t, StartsAt(dir, path), ElementsOf(dir, path))
  /\ \A k \in 0 .. Len(ElementsOf(dir, path)) : at[k] \in IdsOf(t)
  /\ \A k \in 1 .. Len(ElementsOf(dir, path)) - 1 : at[k] \in Dirs(t)
  /\ CatalogWalk(t, dir, path).id = at[Len(ElementsOf(dir, path))]

\* A walk that fails tells CatalogSet nothing.
LEMMA FailureFacts ==
  ASSUME NEW err
  PROVE  Failure(err).err = err /\ Failure(err).sets = {} /\ Failure(err).id = 0
  BY DEF Failure

\* A walk that begins starts at a directory.
LEMMA StartFacts ==
  ASSUME NEW t, NEW dir, NEW path, CanWalk(t, dir, path)
  PROVE  StartsAt(dir, path) \in Dirs(t) /\ StartsAt(dir, path) \in IdsOf(t)
  BY RootFacts DEF CanWalk, StartsAt

\* CatalogWalk's failures, what it tells CatalogSet, and what it answers.
Lost(at, els) == {k \in DOMAIN els : at[k] = 0}
PassesFile(t, at, els) == \E k \in 1 .. Len(els) - 1 : at[k] \notin Dirs(t) /\ at[k + 1] # 0
Sets(at, els) == {[id |-> at[j], parent |-> at[j - 1], name |-> els[j]] : j \in {k \in DOMAIN els : els[k] # Up}}
Arrival(t, from, els, at) ==
  [err |-> "noErr", id |-> at[Len(els)],
   parent |-> ParentInPath(FoldedPath(t, from, els, at)[Len(els)]),
   name |-> LastName(t, els, FoldedPath(t, from, els, at)[Len(els)]),
   sets |-> Sets(at, els)]

\* A walk succeeds if it begins, passes no file and loses nothing.
LEMMA WalkCases ==
  ASSUME NEW t, NEW dir, NEW path, NEW from, from = StartsAt(dir, path),
         NEW els, els = ElementsOf(dir, path), NEW at, at = WalkedIds(t, from, els),
         NEW w, w = CatalogWalk(t, dir, path)
  PROVE  /\ Ok(w) <=> CanWalk(t, dir, path) /\ ~PassesFile(t, at, els) /\ Lost(at, els) = {}
         /\ Ok(w) => w = Arrival(t, from, els, at)
         /\ ~Ok(w) => w.sets = {}
<1>1. w = IF ~CanWalk(t, dir, path) THEN Failure("fnfErr")
          ELSE IF PassesFile(t, at, els) THEN Failure("dirNFErr")
          ELSE IF Lost(at, els) # {} THEN Failure(IF Lost(at, els) = {Len(els)} THEN "fnfErr" ELSE "dirNFErr")
          ELSE Arrival(t, from, els, at)
  BY DEF CatalogWalk, PassesFile, Lost, Sets, Arrival
<1>2. Arrival(t, from, els, at).err = "noErr"
  BY DEF Arrival
<1>3. CASE ~CanWalk(t, dir, path)
  BY <1>1, <1>3, FailureFacts DEF Ok
<1>4. CASE CanWalk(t, dir, path) /\ PassesFile(t, at, els)
  BY <1>1, <1>4, FailureFacts DEF Ok
<1>5. CASE CanWalk(t, dir, path) /\ ~PassesFile(t, at, els) /\ Lost(at, els) # {}
  BY <1>1, <1>5, FailureFacts DEF Ok
<1>6. CASE CanWalk(t, dir, path) /\ ~PassesFile(t, at, els) /\ Lost(at, els) = {}
  BY <1>1, <1>2, <1>6 DEF Ok
<1> QED
  BY <1>3, <1>4, <1>5, <1>6

\* A walk that succeeds went by directories.
LEMMA WalkSucceeds ==
  ASSUME NEW t, IsTree(t), NEW S, NEW path \in Seq(S), NEW dir, Ok(CatalogWalk(t, dir, path))
  PROVE  \E at : WalkOf(at, t, dir, path)
<1> DEFINE from == StartsAt(dir, path)
           els == ElementsOf(dir, path)
           at == WalkedIds(t, from, els)
           w == CatalogWalk(t, dir, path)
           n == Len(els)
<1>1. els \in Seq(S \cup {Up}) /\ n \in Nat /\ DOMAIN els = 1 .. n
  BY ElementsTyped
<1> HIDE DEF from, els, at, w
<1>2. CanWalk(t, dir, path) /\ ~PassesFile(t, at, els) /\ Lost(at, els) = {} /\ w = Arrival(t, from, els, at)
  BY WalkCases DEF from, els, at, w
<1>3. from \in IdsOf(t)
  BY <1>2, StartFacts DEF from
<1>4. WalksTo(at, t, from, els)
  BY <1>1, <1>3, WalkedFacts DEF at
<1>5. \A k \in 0 .. n : at[k] \in IdsOf(t)
  <2>1. at[n] # 0
    <3>1. CASE n = 0
      BY <1>3, <1>4, <3>1, IdFacts DEF WalksTo
    <3>2. CASE n # 0
      BY <1>1, <1>2, <3>2 DEF Lost
    <3> QED
      BY <3>1, <3>2
  <2> QED
    BY <1>1, <1>3, <1>4, <2>1, WalkedThrough
<1>6. ASSUME NEW k \in 1 .. n - 1 PROVE at[k] \in Dirs(t)
  <2>1. k + 1 \in 0 .. n
    BY <1>1
  <2>2. at[k + 1] # 0
    BY <1>5, <2>1, IdFacts
  <2> QED
    BY <1>2, <2>2 DEF PassesFile
<1>7. w.id = at[n]
  BY <1>2 DEF Arrival
<1>8. WalkOf(at, t, dir, path)
  BY <1>2, <1>4, <1>5, <1>6, <1>7 DEF WalkOf, from, els, at, w
<1> QED
  BY <1>8

\* A walk that can be made.
Passable(t, at, els) == (\A k \in 1 .. Len(els) : at[k] # 0) /\ \A k \in 1 .. Len(els) - 1 : at[k] \in Dirs(t)

\* A walk that can be made succeeds, and answers where it leads.
LEMMA WalkArrives ==
  ASSUME NEW t, IsTree(t), NEW S, NEW path \in Seq(S), NEW dir, CanWalk(t, dir, path),
         NEW els, els = ElementsOf(dir, path),
         NEW at, at = WalkedIds(t, StartsAt(dir, path), els), Passable(t, at, els)
  PROVE  Ok(CatalogWalk(t, dir, path)) /\ CatalogWalk(t, dir, path).id = at[Len(els)]
<1> DEFINE w == CatalogWalk(t, dir, path)
           from == StartsAt(dir, path)
<1>1. els \in Seq(S \cup {Up})
  BY ElementsTyped
<1> HIDE DEF w
<1>2. ~PassesFile(t, at, els) /\ Lost(at, els) = {}
  BY <1>1 DEF PassesFile, Lost, Passable
<1>3. Ok(w) /\ w = Arrival(t, from, els, at)
  <2> HIDE DEF from
  <2> QED
    BY <1>2, WalkCases DEF from, w
<1>4. w.id = at[Len(els)]
  BY <1>3 DEF Arrival
<1> QED
  BY <1>3, <1>4 DEF w

\* What CatalogSet is told is true.
LEMMA SetsTrue ==
  ASSUME NEW t, IsTree(t), NEW S, NEW path \in Seq(S), NEW dir
  PROVE  \A e \in CatalogWalk(t, dir, path).sets : Described(t, e)
<1> DEFINE els == ElementsOf(dir, path)
           w == CatalogWalk(t, dir, path)
           n == Len(els)
<1>1. CASE ~Ok(w)
  <2>1. w.sets = {}
    BY <1>1, WalkCases
  <2> HIDE DEF w
  <2> QED
    BY <2>1 DEF w
<1>2. CASE Ok(w)
  <2>1. els \in Seq(S \cup {Up}) /\ n \in Nat /\ DOMAIN els = 1 .. n
    BY ElementsTyped
  <2>2. PICK at : WalkOf(at, t, dir, path)
    BY <1>2, WalkSucceeds
  <2>3. w.sets = Sets(at, els)
    <3>1. w = Arrival(t, StartsAt(dir, path), els, at)
      <4> HIDE DEF w, els
      <4> QED
        BY <1>2, <2>2, WalkCases DEF WalkOf, w, els
    <3> QED
      BY <3>1 DEF Arrival
  <2> SUFFICES ASSUME NEW e \in w.sets PROVE Described(t, e)
    BY DEF w
  <2>4. PICK j \in DOMAIN els : els[j] # Up /\ e = [id |-> at[j], parent |-> at[j - 1], name |-> els[j]]
    BY <2>3 DEF Sets
  <2>5. j \in 0 .. n /\ j - 1 \in 0 .. n /\ j \in 1 .. n
    BY <2>1
  <2>6. at[j] \in IdsOf(t) /\ at[j - 1] \in IdsOf(t) /\ at[j] = StepTo(t, at[j - 1], els[j])
    BY <2>2, <2>5 DEF WalkOf, WalksTo
  <2>7. at[j] # 0 /\ at[j - 1] # 0
    BY <2>6, IdFacts
  <2>8. at[j] = ChildNamed(t, at[j - 1], els[j])
    BY <2>4, <2>6, <2>7 DEF StepTo
  <2>9. PICK o \in t : o.parent = at[j - 1] /\ o.name = els[j] /\ o.id = at[j]
    BY <2>7, <2>8, ChildFacts
  <2> QED
    BY <2>4, <2>9 DEF Described
<1> QED
  BY <1>1, <1>2

\* The last of the names there are.
LEMMA LastText ==
  ASSUME NEW els, NEW n \in Nat \ {0}, DOMAIN els = 1 .. n, els[n] # Up, NEW t, NEW full
  PROVE  LastName(t, els, full) = els[n]
<1> DEFINE texts == {k \in DOMAIN els : els[k] # Up}
           c == CHOOSE k \in texts : \A j \in texts : j <= k
<1>1. n \in texts /\ \A j \in texts : j <= n /\ j \in Nat
  OBVIOUS
<1>2. c \in texts /\ \A j \in texts : j <= c
  BY <1>1
<1> HIDE DEF c
<1>3. c = n
  BY <1>1, <1>2
<1>4. LastName(t, els, full) = els[c]
  BY <1>1 DEF LastName, c
<1> QED
  BY <1>3, <1>4

\* The parent and name a walk answers are those of the file it finds, unless
\* the path has names and ends by climbing.
LEMMA AnswerTrue ==
  ASSUME NEW t, IsLow(t), NEW S, NEW path \in Seq(S), NEW dir, Bounded(t, dir, path),
         ~EndsUp(dir, path), Ok(CatalogWalk(t, dir, path)), CatalogWalk(t, dir, path).id # 2
  PROVE  Described(t, CatalogWalk(t, dir, path))
<1> DEFINE from == StartsAt(dir, path)
           els == ElementsOf(dir, path)
           w == CatalogWalk(t, dir, path)
           n == Len(els)
<1>1. els \in Seq(S \cup {Up}) /\ n \in Nat /\ DOMAIN els = 1 .. n
  BY ElementsTyped
<1>2. IsTree(t)
  BY DEF IsLow
<1>3. PICK at : WalkOf(at, t, dir, path)
  BY <1>2, WalkSucceeds
<1> DEFINE full == FoldedPath(t, from, els, at)
<1>4. /\ at = WalkedIds(t, from, els) /\ WalksTo(at, t, from, els) /\ CanWalk(t, dir, path)
      /\ \A k \in 0 .. n : at[k] \in IdsOf(t)
      /\ w.id = at[n]
  BY <1>3 DEF WalkOf
<1>5. \A k \in DOMAIN els : full[k] # <<>>
  BY <1>4 DEF Bounded
<1>6. ~(els # <<>> /\ Last(els) = Up /\ \E i \in DOMAIN els : els[i] # Up)
  BY DEF EndsUp
<1>7. w = Arrival(t, from, els, at)
  <2> HIDE DEF w, els, from
  <2> QED
    BY <1>4, WalkCases DEF w, els, from
<1>8. w.id # 2
  OBVIOUS
<1>9. from \in IdsOf(t)
  BY <1>4, StartFacts
<1> HIDE DEF from, els, w
<1>10. FoldsTo(full, t, from, els, at)
  BY <1>1, <1>2, <1>4, <1>9, FoldedFacts
<1> HIDE DEF full
<1> DEFINE id == at[n]
<1>11. id \in IdsOf(t) /\ id # 0 /\ id # 2
  <2>1. n \in 0 .. n
    BY <1>1
  <2> QED
    BY <1>2, <1>4, <1>8, <2>1, IdFacts
<1>12. full[n] = Above(t, id)
  <2>1. n \in 0 .. n
    BY <1>1
  <2> QED
    BY <1>1, <1>4, <1>5, <1>9, <1>10, <1>11, <2>1, FoldedIs
<1> DEFINE o == Object(t, id)
<1>13. o \in t /\ o.id = id
  BY <1>2, <1>11, IdFacts
<1> HIDE DEF id
<1>14. ParentInPath(Above(t, id)) = o.parent /\ Last(Above(t, id)) = id
  BY <1>11, ParentIs
<1>15. w.id = id /\ w.parent = o.parent /\ w.name = LastName(t, els, full[n])
  BY <1>7, <1>12, <1>14 DEF Arrival, full, id
<1>16. LastName(t, els, full[n]) = o.name
  <2>1. CASE els = <<>> \/ \A i \in DOMAIN els : els[i] = Up
    <3>1. {k \in DOMAIN els : els[k] # Up} = {}
      BY <1>1, <2>1
    <3>2. LastName(t, els, full[n]) = Object(t, Last(full[n])).name
      BY <3>1 DEF LastName
    <3> QED
      BY <1>12, <1>14, <3>2
  <2>2. CASE ~(els = <<>> \/ \A i \in DOMAIN els : els[i] = Up)
    <3>1. n \in Nat \ {0} /\ els[n] # Up
      BY <1>1, <1>6, <2>2 DEF Last
    <3>2. LastName(t, els, full[n]) = els[n]
      BY <1>1, <3>1, LastText
    <3>3. n \in 1 .. n /\ n - 1 \in 0 .. n
      BY <3>1
    <3>4. id = StepTo(t, at[n - 1], els[n]) /\ at[n - 1] \in IdsOf(t)
      BY <1>4, <3>3 DEF WalksTo, id
    <3>5. id = ChildNamed(t, at[n - 1], els[n])
      BY <1>2, <3>1, <3>4, IdFacts DEF StepTo
    <3>6. PICK x \in t : x.name = els[n] /\ x.id = id
      BY <1>2, <1>11, <3>5, ChildFacts
    <3>7. x = o
      BY <1>2, <1>13, <3>6 DEF IsTree
    <3> QED
      BY <3>2, <3>6, <3>7
  <2> QED
    BY <2>1, <2>2
<1>17. Described(t, w)
  BY <1>13, <1>15, <1>16 DEF Described
<1> QED
  BY <1>17 DEF w

\* One letter is one element.
LEMMA OneElement ==
  ASSUME NEW name, name # PathColon
  PROVE  Elements(<<name>>) = <<name>> /\ Elements(<<>>) = <<>>
<1> DEFINE S == {name}
           p == <<name>>
<1>1. p \in Seq(S) /\ Len(p) = 1 /\ p[1] = name /\ p # <<>>
  OBVIOUS
<1>2. Unled(p) = p /\ Unled(<<>>) = <<>>
  BY <1>1 DEF Unled
<1> HIDE DEF p
<1>3. PICK els : Parses(els, p, S) /\ Elements(p) = els[1]
  BY <1>1, <1>2, ElementsFacts
<1>4. els[0] = <<>> /\ els[1] = ElementOf(els[0], p, 1)
  BY <1>1, <1>3 DEF Parses
<1>5. els[1] = <<name>>
  BY <1>1, <1>4 DEF ElementOf
<1>6. Elements(<<>>) = <<>>
  <2> DEFINE b == <<>>
  <2>1. b \in Seq(S) /\ Len(b) = 0
    OBVIOUS
  <2>2. Unled(b) = b
    BY <1>2
  <2> HIDE DEF b
  <2>3. PICK e : Parses(e, b, S) /\ Elements(b) = e[0]
    BY <2>1, <2>2, ElementsFacts
  <2> QED
    BY <2>3 DEF Parses, b
<1> QED
  BY <1>3, <1>5, <1>6 DEF p

\* A file's parent and name lead to it.
LEMMA NameLeads ==
  ASSUME NEW t, IsTree(t), NEW e, Described(t, e)
  PROVE  CatalogWalk(t, e.parent, <<e.name>>).id = e.id
<1>1. PICK o \in t : o.id = e.id /\ o.parent = e.parent /\ o.name = e.name
  BY DEF Described
<1> DEFINE p == o.parent
           name == o.name
           path == <<name>>
<1>2. p \in Dirs(t) /\ p \in IdsOf(t) /\ name # PathColon /\ name # Up /\ o.id # 0
  BY RootFacts DEF IsTree
<1>3. p # 1 /\ p # 0
  <2> HIDE DEF p
  <2> QED
    BY <1>2, IdFacts
<1>4. ChildNamed(t, p, name) = o.id
  BY ChildIs
<1> HIDE DEF p, name
<1>5. path \in Seq({name}) /\ ToSet(path) = {name} /\ path # <<>>
  BY DEF ToSet
<1>6. ~Absolute(p, path)
  BY <1>2, <1>3, <1>5 DEF Absolute
<1>7. ElementsOf(p, path) = path /\ StartsAt(p, path) = p /\ CanWalk(t, p, path)
  BY <1>2, <1>6, OneElement DEF ElementsOf, StartsAt, CanWalk
<1> DEFINE at == WalkedIds(t, p, path)
<1>8. Len(path) = 1 /\ path[1] = name
  OBVIOUS
<1> HIDE DEF path
<1>9. WalksTo(at, t, p, path)
  BY <1>2, <1>5, WalkedFacts
<1> HIDE DEF at
<1>10. at[1] = o.id
  <2>1. at[0] = p /\ at[1] = StepTo(t, at[0], path[1])
    BY <1>8, <1>9 DEF WalksTo
  <2> QED
    BY <1>2, <1>3, <1>4, <1>8, <2>1 DEF StepTo
<1>11. CatalogWalk(t, p, path).id = at[Len(path)]
  <2>1. \A k \in 1 .. Len(path) : at[k] # 0
    BY <1>2, <1>8, <1>10
  <2>2. \A k \in 1 .. Len(path) - 1 : at[k] \in Dirs(t)
    BY <1>8
  <2>3. at = WalkedIds(t, StartsAt(p, path), path)
    BY <1>7 DEF at
  <2>4. Passable(t, at, path)
    BY <2>1, <2>2 DEF Passable
  <2> QED
    BY <1>5, <1>7, <2>3, <2>4, WalkArrives
<1> QED
  BY <1>1, <1>8, <1>10, <1>11 DEF p, name, path

\* A directory itself, by an empty path.
LEMMA ItselfTrue ==
  ASSUME NEW t, IsLow(t), NEW dir, Ok(CatalogWalk(t, dir, <<>>)), CatalogWalk(t, dir, <<>>).id # 2
  PROVE  Described(t, CatalogWalk(t, dir, <<>>))
<1> DEFINE path == <<>>
<1>1. path \in Seq({0}) /\ Unled(path) = <<>>
  BY DEF Unled
<1>2. IsTree(t)
  BY DEF IsLow
<1>3. CanWalk(t, dir, path)
  <2> HIDE DEF path
  <2>1. Ok(CatalogWalk(t, dir, path))
    BY DEF path
  <2>2. PICK at : WalkOf(at, t, dir, path)
    BY <1>1, <1>2, <2>1, WalkSucceeds
  <2> QED
    BY <2>2 DEF WalkOf
<1>4. ElementsOf(dir, path) = <<>>
  <2>1. "a" # PathColon
    BY DEF PathColon
  <2> QED
    BY <1>1, <1>3, <2>1, OneElement DEF ElementsOf, CanWalk
<1>5. Bounded(t, dir, path) /\ ~EndsUp(dir, path)
  <2>1. DOMAIN ElementsOf(dir, path) = {}
    BY <1>4
  <2> QED
    BY <1>4, <2>1 DEF Bounded, EndsUp
<1>6. Ok(CatalogWalk(t, dir, path)) /\ CatalogWalk(t, dir, path).id # 2
  OBVIOUS
<1> HIDE DEF path
<1>7. Described(t, CatalogWalk(t, dir, path))
  BY <1>1, <1>5, <1>6, AnswerTrue
<1> QED
  BY <1>7 DEF path

(***************************************************************************)
(* A path with one more name.                                              *)
(***************************************************************************)
LEMMA UnledGrows ==
  ASSUME NEW S, NEW E \in Seq(S), NEW r \in Seq(S), r # <<>>, r[1] # PathColon
  PROVE  Unled(E \o r) = Unled(E) \o r
<1>1. CASE E = <<>>
  BY <1>1 DEF Unled
<1>2. CASE E # <<>>
  <2>1. Len(E) \in Nat \ {0} /\ Len(r) \in Nat
    BY <1>2
  <2>2. E \o r \in Seq(S) /\ E \o r # <<>> /\ (E \o r)[1] = E[1] /\ Len(E \o r) = Len(E) + Len(r)
    BY <2>1
  <2>3. Tail(E \o r) = Tail(E) \o r
    <3> DEFINE u == Tail(E \o r)
               v == Tail(E) \o r
    <3>1. Tail(E) \in Seq(S) /\ Len(Tail(E)) = Len(E) - 1 /\ \A i \in 1 .. Len(E) - 1 : Tail(E)[i] = E[i + 1]
      BY <1>2, <2>1
    <3>2. u \in Seq(S) /\ Len(u) = Len(E) + Len(r) - 1 /\ \A i \in 1 .. Len(u) : u[i] = (E \o r)[i + 1]
      BY <2>2
    <3>3. v \in Seq(S) /\ Len(v) = Len(E) - 1 + Len(r)
      BY <3>1
    <3>4. Len(u) = Len(v)
      BY <2>1, <3>2, <3>3
    <3>5. ASSUME NEW i \in 1 .. Len(u) PROVE u[i] = v[i]
      <4>1. CASE i <= Len(E) - 1
        <5>1. v[i] = E[i + 1] /\ (E \o r)[i + 1] = E[i + 1]
          BY <2>1, <3>1, <4>1
        <5> QED
          BY <3>2, <5>1
      <4>2. CASE ~(i <= Len(E) - 1)
        <5> DEFINE j == i - (Len(E) - 1)
        <5>1. j \in 1 .. Len(r) /\ i = Len(E) - 1 + j
          BY <2>1, <3>2, <4>2
        <5>2. v[i] = r[j]
          BY <2>1, <3>1, <4>2, <5>1
        <5>3. (E \o r)[i + 1] = r[j]
          BY <2>1, <4>2, <5>1
        <5> QED
          BY <3>2, <5>2, <5>3
      <4> QED
        BY <4>1, <4>2
    <3> HIDE DEF u, v
    <3>6. u = v
      BY <3>2, <3>3, <3>4, <3>5
    <3> QED
      BY <3>6 DEF u, v
  <2> QED
    BY <1>2, <2>2, <2>3 DEF Unled
<1> QED
  BY <1>1, <1>2

\* The end of a path: a name, with or without a colon after it.
IsLeaf(r, c) == (r = <<c>> \/ r = <<c, PathColon>>) /\ c # PathColon /\ c # Up

\* A name at the end of a path is one more element.
LEMMA ElementsGrow ==
  ASSUME NEW S, NEW E \in Seq(S), NEW r \in Seq(S), NEW c, IsLeaf(r, c), E = <<>> \/ E[1] = PathColon
  PROVE  Elements(E \o r) = Append(Elements(E), c)
<1> DEFINE p == Unled(E)
           q == Unled(E \o r)
           n == Len(p)
<1>1. Len(r) \in {1, 2} /\ r[1] = c /\ (Len(r) = 2 => r[2] = PathColon) /\ r # <<>> /\ c # PathColon
  BY DEF IsLeaf
<1>2. p \in Seq(S) /\ q = p \o r /\ n \in Nat
  BY <1>1, UnledFacts, UnledGrows
<1>3. PICK e : Parses(e, p, S) /\ Elements(E) = e[n]
  BY ElementsFacts
<1>4. PICK f : Parses(f, q, S) /\ Elements(E \o r) = f[Len(q)]
  <2>1. E \o r \in Seq(S)
    OBVIOUS
  <2> QED
    BY <2>1, ElementsFacts
<1> HIDE DEF p, q
<1>5. /\ q \in Seq(S) /\ Len(q) = n + Len(r) /\ \A k \in 1 .. n : q[k] = p[k]
      /\ q[n + 1] = c /\ (Len(r) = 2 => q[n + 2] = PathColon)
  BY <1>1, <1>2
<1> HIDE DEF n
<1>6. /\ e[0] = <<>> /\ \A i \in 1 .. n : e[i] = ElementOf(e[i - 1], p, i)
      /\ f[0] = <<>> /\ \A i \in 1 .. n + Len(r) : f[i] = ElementOf(f[i - 1], q, i)
  BY <1>3, <1>4, <1>5 DEF Parses, n
<1> DEFINE P == {k \in 0 .. n : f[k] = e[k]}
<1>7. 0 \in P
  BY <1>2, <1>6
<1>8. ASSUME NEW k \in 1 .. n, k - 1 \in P PROVE k \in P
  <2>1. k \in 1 .. n + Len(r) /\ k \in 0 .. n /\ f[k - 1] = e[k - 1]
    BY <1>1, <1>2, <1>8
  <2>2. q[k] = p[k] /\ (k > 1 => q[k - 1] = p[k - 1])
    BY <1>2, <1>5
  <2>3. ElementOf(f[k - 1], q, k) = ElementOf(e[k - 1], p, k)
    BY <2>1, <2>2 DEF ElementOf
  <2> QED
    BY <1>6, <2>1, <2>3
<1>9. f[n] = e[n]
  <2>1. n \in 0 .. n
    BY <1>2
  <2> HIDE DEF P
  <2>2. n \in P
    BY <1>2, <1>7, <1>8, <2>1, Along
  <2> QED
    BY <2>2 DEF P
<1>10. f[n + 1] = Append(e[n], c)
  <2>1. n + 1 \in 1 .. n + Len(r) /\ (n + 1) - 1 = n
    BY <1>1, <1>2
  <2> QED
    BY <1>1, <1>5, <1>6, <1>9, <2>1 DEF ElementOf
<1>11. f[n + Len(r)] = f[n + 1]
  <2>1. CASE Len(r) = 1
    BY <2>1
  <2>2. CASE Len(r) = 2
    <3>1. n + 2 \in 1 .. n + Len(r) /\ (n + 2) - 1 = n + 1 /\ n + 2 > 1
      BY <1>2, <2>2
    <3>2. f[n + 2] = f[n + 1]
      BY <1>1, <1>5, <1>6, <2>2, <3>1 DEF ElementOf
    <3> QED
      BY <2>2, <3>2
  <2> QED
    BY <1>1, <2>1, <2>2
<1> QED
  BY <1>3, <1>4, <1>5, <1>10, <1>11

\* Where pathSplitLeaf cuts: after a colon, and before one at the end.
Cut(path, d, end) ==
  /\ pathSplitLeaf(path).dir = SubSeq(path, 1, d) /\ pathSplitLeaf(path).leaf = SubSeq(path, d + 1, end)
  /\ end \in Int /\ 0 <= end /\ end <= Len(path) /\ (end # Len(path) => path[Len(path)] = PathColon /\ end = Len(path) - 1)
  /\ d \in Int /\ d >= 0 /\ (d = 0 \/ (d \in 1 .. end /\ path[d] = PathColon))
  /\ \A j \in d + 1 .. end : path[j] # PathColon

\* There is a place to cut.
LEMMA CutFacts ==
  ASSUME NEW S, NEW path \in Seq(S)
  PROVE  \E d, end : Cut(path, d, end)
<1> DEFINE n == Len(path)
           split == pathSplitLeaf(path)
           end == IF path # <<>> /\ Last(path) = PathColon THEN n - 1 ELSE n
           colons == {0} \cup {i \in 1 .. end : path[i] = PathColon}
           d == CHOOSE i \in colons : \A j \in colons : j <= i
<1>0. split.dir = SubSeq(path, 1, d) /\ split.leaf = SubSeq(path, d + 1, end)
  BY DEF pathSplitLeaf, split
<1> HIDE DEF split
<1>1. path \in Seq(S) /\ n \in Nat /\ DOMAIN path = 1 .. n
  OBVIOUS
<1>2. end \in Int /\ 0 <= end /\ end <= n /\ (end # n => path[n] = PathColon /\ end = n - 1)
  <2>1. path = <<>> <=> n = 0
    BY <1>1
  <2>2. CASE path # <<>> /\ Last(path) = PathColon
    <3>1. end = n - 1 /\ path[n] = PathColon
      BY <2>2 DEF Last
    <3> HIDE DEF end
    <3> QED
      BY <1>1, <2>1, <2>2, <3>1
  <2>3. CASE ~(path # <<>> /\ Last(path) = PathColon)
    <3>1. end = n
      BY <2>3
    <3> HIDE DEF end
    <3> QED
      BY <1>1, <3>1
  <2> QED
    BY <2>2, <2>3
<1> HIDE DEF end
<1>3. d \in colons /\ \A j \in colons : j <= d
  <2>1. colons \in SUBSET Int /\ 0 \in colons /\ \A j \in colons : j <= n
    <3>1. ASSUME NEW j \in colons PROVE j \in Int /\ j <= n
      <4>1. CASE j = 0
        BY <1>1, <4>1
      <4>2. CASE j # 0
        <5>1. j \in 1 .. end
          BY <4>2
        <5> HIDE DEF n
        <5> QED
          BY <1>1, <1>2, <5>1
      <4> QED
        BY <4>1, <4>2
    <3>2. 0 \in colons
      OBVIOUS
    <3> HIDE DEF colons, n
    <3> QED
      BY <3>1, <3>2
  <2>2. \E i \in colons : \A j \in colons : j <= i
    <3> DEFINE neg == {n - i : i \in colons}
    <3>1. neg \in SUBSET Nat /\ neg # {}
      BY <1>1, <2>1
    <3>2. PICK m \in neg : \A k \in neg : m <= k
      <4> HIDE DEF neg
      <4> QED
        BY <3>1, LeastNumber
    <3>3. PICK i \in colons : m = n - i
      BY <3>2
    <3>4. \A j \in colons : j <= i
      <4> SUFFICES ASSUME NEW j \in colons PROVE j <= i
        OBVIOUS
      <4>1. n - j \in neg /\ i \in Int /\ j \in Int
        BY <2>1
      <4>2. n - i <= n - j
        BY <3>2, <3>3, <4>1
      <4> HIDE DEF colons
      <4> QED
        BY <1>1, <4>1, <4>2
    <3> QED
      BY <3>4
  <2> HIDE DEF colons
  <2> QED
    BY <2>2
<1>4. d \in Int /\ d >= 0 /\ (d = 0 \/ (d \in 1 .. end /\ path[d] = PathColon))
  BY <1>2, <1>3
<1>5. \A j \in d + 1 .. end : path[j] # PathColon
  <2> SUFFICES ASSUME NEW j \in d + 1 .. end, path[j] = PathColon PROVE FALSE
    OBVIOUS
  <2>1. j \in colons
    BY <1>2, <1>4
  <2> QED
    BY <1>2, <1>3, <1>4, <2>1
<1> HIDE DEF d
<1>6. Cut(path, d, end)
  BY <1>0, <1>2, <1>4, <1>5 DEF Cut, split
<1> QED
  BY <1>6

\* A piece of a path is a path.
LEMMA SplitTyped ==
  ASSUME NEW S, NEW path \in Seq(S)
  PROVE  pathSplitLeaf(path).dir \in Seq(S)
<1>1. PICK d, end : Cut(path, d, end)
  BY CutFacts
<1>2. 1 \in Int /\ d \in Int /\ \A i \in 1 .. d : path[i] \in S
  BY <1>1 DEF Cut
<1>3. SubSeq(path, 1, d) \in Seq(S)
  BY <1>2, SubSeqProperties
<1> QED
  BY <1>1, <1>3 DEF Cut

\* pathSplitLeaf cuts a path that has a name at its end before the name.
Splits(path, D, r, c) ==
  /\ D \in Seq(STRING) /\ r \in Seq(STRING) /\ path = D \o r /\ IsLeaf(r, c)
  /\ D = <<>> \/ D[Len(D)] = PathColon

\* The pieces are the directory, up to its colon, and the name.
LEMMA SplitFacts ==
  ASSUME NEW path, IsPath(path), NEW split, split = pathSplitLeaf(path), split.leaf # <<>>
  PROVE  \E r, c : Splits(path, split.dir, r, c) /\ split.leaf = <<c>>
<1> DEFINE n == Len(path)
<1>1. path \in Seq(STRING) /\ n \in Nat /\ DOMAIN path = 1 .. n
  BY DEF IsPath
<1>19. PICK d, end : Cut(path, d, end)
  BY <1>1, CutFacts
<1>0. split.dir = SubSeq(path, 1, d) /\ split.leaf = SubSeq(path, d + 1, end)
  BY <1>19 DEF Cut
<1>2. end \in Int /\ 0 <= end /\ end <= n /\ (end # n => path[n] = PathColon /\ end = n - 1)
  BY <1>19 DEF Cut
<1>4. d \in Int /\ d >= 0 /\ (d = 0 \/ (d \in 1 .. end /\ path[d] = PathColon))
  BY <1>19 DEF Cut
<1>5. \A j \in d + 1 .. end : path[j] # PathColon
  BY <1>19 DEF Cut
<1>6. d + 1 <= end
  <2> SUFFICES ASSUME end < d + 1 PROVE FALSE
    BY <1>2, <1>4
  <2>1. SubSeq(path, d + 1, end) = <<>>
    BY <1>2, <1>4, SubSeqEmpty
  <2> QED
    BY <1>0, <2>1
<1>7. end = d + 1
  <2> SUFFICES ASSUME d + 2 <= end PROVE FALSE
    BY <1>2, <1>4, <1>6
  <2>1. d + 1 \in d + 1 .. end /\ d + 2 \in d + 1 .. end /\ d + 2 \in 2 .. n /\ (d + 2) - 1 = d + 1
    BY <1>2, <1>4
  <2>2. PathColon \in {path[d + 1], path[d + 2]}
    BY <2>1 DEF IsPath
  <2> QED
    BY <1>5, <2>1, <2>2
<1> DEFINE c == path[d + 1]
           r == SubSeq(path, d + 1, n)
           D == SubSeq(path, 1, d)
<1>8. d + 1 \in 1 .. n /\ c \in STRING /\ c # PathColon /\ c # Up
  <2>1. d + 1 \in 1 .. n /\ d + 1 \in d + 1 .. end
    <3> HIDE DEF n, c
    <3> QED
      BY <1>1, <1>2, <1>4, <1>6
  <2> QED
    BY <1>1, <1>5, <2>1 DEF IsPath
<1>9. D \in Seq(STRING) /\ Len(D) = d /\ \A i \in 1 .. d : D[i] = path[i]
  <2>1. 1 \in Int /\ \A i \in 1 .. d : path[i] \in STRING
    BY <1>1, <1>4, <1>8
  <2>2. /\ D \in Seq(STRING) /\ Len(D) = IF 1 <= d THEN d - 1 + 1 ELSE 0
        /\ \A i \in 1 .. d - 1 + 1 : D[i] = path[1 + i - 1]
    BY <1>4, <2>1, SubSeqProperties
  <2> QED
    BY <1>4, <2>2
<1>10. D = <<>> \/ D[Len(D)] = PathColon
  <2>1. CASE d = 0
    BY <1>9, <2>1
  <2>2. CASE d # 0
    BY <1>4, <1>9, <2>2
  <2> QED
    BY <2>1, <2>2
<1>11. /\ r \in Seq(STRING) /\ Len(r) = n - d /\ \A i \in 1 .. n - d : r[i] = path[d + i]
  <2>1. d + 1 \in Int /\ n \in Int /\ \A i \in d + 1 .. n : path[i] \in STRING
    BY <1>1, <1>4
  <2>2. /\ r \in Seq(STRING) /\ Len(r) = IF d + 1 <= n THEN n - (d + 1) + 1 ELSE 0
        /\ \A i \in 1 .. n - (d + 1) + 1 : r[i] = path[d + 1 + i - 1]
    BY <2>1, SubSeqProperties
  <2>3. n - (d + 1) + 1 = n - d /\ d + 1 <= n /\ \A i \in 1 .. n - d : d + 1 + i - 1 = d + i
    BY <1>1, <1>4, <1>8
  <2> QED
    BY <2>2, <2>3
<1>16. Len(r) \in Nat \ {0} /\ r[1] = c /\ Len(r) = n - d /\ (Len(r) = 2 => r[2] = path[n])
  <2>1. n - d \in Nat \ {0} /\ 1 \in 1 .. n - d /\ (n - d = 2 => 2 \in 1 .. n - d /\ d + 2 = n)
    <3> HIDE DEF n, c, r
    <3> QED
      BY <1>1, <1>4, <1>8
  <2> HIDE DEF r
  <2> QED
    BY <1>11, <2>1
<1>12. IsLeaf(r, c)
  <2> HIDE DEF r
  <2>1. CASE end = n
    <3>1. Len(r) = 1 /\ r[1] = c
      <4> HIDE DEF n, c
      <4> QED
        BY <1>1, <1>4, <1>7, <1>16, <2>1
    <3>2. r = <<c>>
      <4>1. r \in Seq(STRING)
        BY <1>11
      <4> HIDE DEF c
      <4> QED
        BY <3>1, <4>1
    <3> QED
      BY <1>8, <3>2 DEF IsLeaf
  <2>2. CASE end # n
    <3>1. Len(r) = 2 /\ r[1] = c /\ r[2] = PathColon
      <4> HIDE DEF n, c
      <4> QED
        BY <1>1, <1>2, <1>4, <1>7, <1>16, <2>2
    <3>2. r = <<c, PathColon>>
      <4>1. r \in Seq(STRING)
        BY <1>11
      <4> HIDE DEF c
      <4> QED
        BY <3>1, <4>1
    <3> QED
      BY <1>8, <3>2 DEF IsLeaf
  <2> QED
    BY <2>1, <2>2
<1>13. path = D \o r
  <2>1. d \in 0 .. n
    BY <1>1, <1>4, <1>8
  <2>2. 1 \in 1 .. n + 1 /\ d \in 1 - 1 .. n /\ n \in d .. n
    BY <1>1, <2>1
  <2>3. SubSeq(path, 1, d) \o SubSeq(path, d + 1, n) = SubSeq(path, 1, n)
    BY <1>1, <2>2, ConcatAdjacentSubSeq
  <2>4. SubSeq(path, 1, n) = path
    BY <1>1, SubSeqFull
  <2> QED
    BY <2>3, <2>4
<1>14. split.leaf = <<c>>
  <2> DEFINE u == SubSeq(path, d + 1, d + 1)
  <2>1. /\ u \in Seq(STRING) /\ Len(u) = IF d + 1 <= d + 1 THEN (d + 1) - (d + 1) + 1 ELSE 0
        /\ \A i \in 1 .. (d + 1) - (d + 1) + 1 : u[i] = path[d + 1 + i - 1]
    <3>1. d + 1 \in Int /\ \A i \in d + 1 .. d + 1 : path[i] \in STRING
      BY <1>1, <1>4, <1>8
    <3> DEFINE x == d + 1
    <3>2. x \in Int /\ \A i \in x .. x : path[i] \in STRING
      BY <3>1
    <3> HIDE DEF x
    <3>3. /\ SubSeq(path, x, x) \in Seq(STRING) /\ Len(SubSeq(path, x, x)) = IF x <= x THEN x - x + 1 ELSE 0
          /\ \A i \in 1 .. x - x + 1 : SubSeq(path, x, x)[i] = path[x + i - 1]
      BY <3>2, SubSeqProperties
    <3> QED
      BY <3>3 DEF x
  <2>2. (d + 1) - (d + 1) + 1 = 1 /\ d + 1 <= d + 1 /\ d + 1 + 1 - 1 = d + 1
    BY <1>4
  <2>3. Len(u) = 1 /\ u[1] = c
    BY <2>1, <2>2
  <2> HIDE DEF u, c
  <2>4. u = <<c>>
    BY <2>1, <2>3
  <2> QED
    BY <1>0, <1>7, <2>4 DEF u
<1> HIDE DEF c, r, D
<1>15. split.dir = D
  BY <1>0 DEF D
<1>17. path = D \o r
  BY <1>13 DEF D, r
<1>18. Splits(path, D, r, c)
  <2>1. D \in Seq(STRING) /\ r \in Seq(STRING)
    BY <1>9, <1>11
  <2> QED
    BY <1>10, <1>12, <1>17, <2>1 DEF Splits
<1> QED
  BY <1>14, <1>15, <1>18

\* The two walks, to the directory and to the name in it, begin alike.
WalksAlike(u, dir, path, D, c) ==
  /\ ElementsOf(dir, path) = Append(ElementsOf(dir, D), c)
  /\ StartsAt(dir, path) = StartsAt(dir, D)
  /\ CanWalk(u, dir, path)

\* The walk to a path is that to its directory, and the name.
LEMMA SplitWalks ==
  ASSUME NEW path, NEW D, NEW r, NEW c, Splits(path, D, r, c), ~DiskOnly(path),
         NEW t, NEW u, Dirs(t) \subseteq Dirs(u), NEW dir, CanWalk(t, dir, D)
  PROVE  WalksAlike(u, dir, path, D, c)
<1> SUFFICES /\ ElementsOf(dir, path) = Append(ElementsOf(dir, D), c)
             /\ StartsAt(dir, path) = StartsAt(dir, D)
             /\ CanWalk(u, dir, path)
  BY DEF WalksAlike
<1> DEFINE S == STRING
<1>1. D \in Seq(S) /\ r \in Seq(S) /\ path = D \o r /\ path \in Seq(S)
  BY DEF Splits
<1>2. r # <<>> /\ r[1] = c /\ c # PathColon /\ Len(r) \in Nat \ {0} /\ IsLeaf(r, c)
  BY DEF Splits, IsLeaf
<1>3. CASE D = <<>>
  <2>1. path = r
    BY <1>1, <1>3
  <2>2. dir # 1 /\ ~Absolute(dir, D) /\ dir \in Dirs(t)
    BY <1>3 DEF CanWalk, Absolute, Unled, ToSet
  <2>3. r = <<c>>
    <3> SUFFICES ASSUME r = <<c, PathColon>> PROVE FALSE
      BY <1>2 DEF IsLeaf
    <3>1. path = <<c, PathColon>>
      BY <2>1
    <3>2. path # <<>> /\ path[1] # PathColon /\ {i \in DOMAIN path : path[i] = PathColon} = {2} /\ Len(path) = 2
      BY <1>2, <3>1
    <3> QED
      BY <3>2 DEF DiskOnly
  <2>4. ~Absolute(dir, path)
    BY <1>2, <2>1, <2>2, <2>3 DEF Absolute, ToSet
  <2>5. ElementsOf(dir, path) = <<c>> /\ ElementsOf(dir, D) = <<>>
    BY <1>2, <1>3, <2>1, <2>2, <2>3, <2>4, OneElement DEF ElementsOf
  <2> QED
    BY <2>2, <2>4, <2>5 DEF StartsAt, CanWalk
<1>4. CASE D # <<>>
  <2> DEFINE m == Len(D)
  <2>1. m \in 1 .. m /\ m \in Nat /\ D[m] = PathColon
    BY <1>1, <1>4 DEF Splits
  <2>2. path[1] = D[1] /\ path[m] = PathColon /\ m \in DOMAIN path /\ path # <<>>
    BY <1>1, <1>2, <2>1
  <2>3. PathColon \in ToSet(D) /\ PathColon \in ToSet(path)
    BY <1>1, <2>1, <2>2 DEF ToSet
  <2>4. Absolute(dir, path) = Absolute(dir, D)
    BY <2>2, <2>3 DEF Absolute
  <2>5. CASE ~Absolute(dir, D)
    <3>1. D[1] = PathColon /\ dir \in Dirs(t)
      BY <2>3, <2>5 DEF Absolute, CanWalk
    <3>2. ElementsOf(dir, path) = Elements(path) /\ ElementsOf(dir, D) = Elements(D)
      BY <2>4, <2>5 DEF ElementsOf
    <3>3. Elements(path) = Append(Elements(D), c)
      BY <1>1, <1>2, <3>1, ElementsGrow
    <3> QED
      BY <2>4, <2>5, <3>1, <3>2, <3>3 DEF StartsAt, CanWalk
  <2>6. CASE Absolute(dir, D)
    <3> DEFINE V == Unled(D)
               W == Unled(path)
               k == Len(V)
    <3>1. V # <<>> /\ V[1] # PathColon
      BY <2>6 DEF CanWalk
    <3>2. V \in Seq(S) /\ W = V \o r
      BY <1>1, <1>2, UnledFacts, UnledGrows
    <3>3. k \in Nat \ {0} /\ V[k] = PathColon
      <4>1. CASE D[1] = PathColon
        <5>1. V = Tail(D)
          BY <1>1, <1>4, <4>1, UnledFacts
        <5>2. k = m - 1 /\ \A i \in 1 .. m - 1 : V[i] = D[i + 1]
          BY <1>1, <1>4, <2>1, <5>1
        <5>3. m - 1 \in 1 .. m - 1
          BY <2>1, <3>1, <3>2, <5>2
        <5>4. (m - 1) + 1 = m
          BY <2>1
        <5> HIDE DEF V, m
        <5> QED
          BY <2>1, <5>2, <5>3, <5>4
      <4>2. CASE D[1] # PathColon
        <5>1. V = D
          BY <1>1, <4>2, UnledFacts
        <5> QED
          BY <2>1, <5>1
      <4> QED
        BY <4>1, <4>2
    <3> HIDE DEF V
    <3>4. W \in Seq(S) /\ Len(W) = k + Len(r) /\ (\A i \in 1 .. k : W[i] = V[i]) /\ \A i \in 1 .. Len(r) : W[k + i] = r[i]
      BY <1>1, <3>2, <3>3
    <3> HIDE DEF W
    <3>5. CanWalk(u, dir, path)
      <4>1. W # <<>> /\ W[1] = V[1]
        BY <1>2, <3>3, <3>4
      <4> QED
        BY <2>4, <2>6, <3>1, <4>1 DEF CanWalk, W
    <3>6. PICK f : FirstColon(V, f)
      <4>1. PathColon \in ToSet(V)
        BY <3>2, <3>3 DEF ToSet
      <4> QED
        BY <3>2, <4>1, UndiskedFacts
    <3>7. f \in 1 .. k /\ V[f] = PathColon
      BY <3>6 DEF FirstColon
    <3>8. FirstColon(W, f)
      <4>1. f \in 1 .. Len(W) /\ W[f] = PathColon
        BY <1>2, <3>3, <3>4, <3>7
      <4>2. ASSUME NEW j \in 1 .. Len(W), W[j] = PathColon PROVE f <= j
        <5>1. CASE j <= k
          BY <3>3, <3>4, <3>6, <4>2, <5>1 DEF FirstColon
        <5>2. CASE ~(j <= k)
          BY <1>2, <3>3, <3>4, <3>7, <5>2
        <5> QED
          BY <5>1, <5>2
      <4> QED
        BY <4>1, <4>2 DEF FirstColon
    <3> DEFINE E == SubSeq(V, f, k)
    <3>9. Undisked(V) = E /\ Undisked(W) = SubSeq(W, f, Len(W)) /\ E \in Seq(S)
      BY <3>2, <3>4, <3>6, <3>8, UndiskedFacts
    <3>10. E # <<>> /\ E[1] = PathColon
      <4>1. f \in Int /\ k \in Int /\ f <= k /\ \A i \in f .. k : V[i] \in S
        BY <3>2, <3>3, <3>7
      <4>2. /\ Len(E) = IF f <= k THEN k - f + 1 ELSE 0
            /\ \A i \in 1 .. k - f + 1 : E[i] = V[f + i - 1]
        BY <4>1, SubSeqProperties
      <4>3. 1 \in 1 .. k - f + 1 /\ f + 1 - 1 = f /\ k - f + 1 # 0
        BY <4>1
      <4> HIDE DEF E
      <4> QED
        BY <3>7, <4>1, <4>2, <4>3
    <3>11. SubSeq(W, f, Len(W)) = E \o r
      <4> DEFINE w == Len(W)
      <4>1. w \in Nat /\ f \in 1 .. w + 1 /\ k \in f - 1 .. w /\ w \in k .. w
        BY <1>2, <3>3, <3>4, <3>7
      <4>2. SubSeq(W, f, k) \o SubSeq(W, k + 1, w) = SubSeq(W, f, w)
        BY <3>4, <4>1, ConcatAdjacentSubSeq
      <4>3. SubSeq(W, f, k) = E
        <5>1. k \in 1 .. k /\ f \in 1 .. k
          BY <3>3, <3>7
        <5>2. SubSeq(V \o r, f, k) = SubSeq(V, f, k)
          BY <1>1, <3>2, <5>1, SubSeqOfConcat1
        <5> QED
          BY <3>2, <5>2
      <4>4. SubSeq(W, k + 1, w) = r
        <5>1. k + 1 \in k + 1 .. k + Len(r) /\ w \in k + 1 .. k + Len(r) /\ w = k + Len(r)
          BY <1>2, <3>3, <3>4
        <5>2. SubSeq(V \o r, k + 1, w) = SubSeq(r, (k + 1) - k, w - k)
          BY <1>1, <3>2, <5>1, SubSeqOfConcat2
        <5>3. (k + 1) - k = 1 /\ w - k = Len(r)
          BY <1>2, <3>3, <5>1
        <5>4. SubSeq(r, 1, Len(r)) = r
          BY <1>1, SubSeqFull
        <5> QED
          BY <3>2, <5>2, <5>3, <5>4
      <4> QED
        BY <4>2, <4>3, <4>4
    <3> HIDE DEF E
    <3>12. Elements(E \o r) = Append(Elements(E), c)
      BY <1>1, <1>2, <3>9, <3>10, ElementsGrow
    <3>13. ElementsOf(dir, D) = Elements(E) /\ ElementsOf(dir, path) = Elements(E \o r)
      BY <2>4, <2>6, <3>9, <3>11 DEF ElementsOf, V, W
    <3> QED
      BY <2>4, <2>6, <3>5, <3>12, <3>13 DEF StartsAt
  <2> QED
    BY <2>5, <2>6
<1> QED
  BY <1>3, <1>4

\* An empty path leads to the directory given.
LEMMA Itself ==
  ASSUME NEW t, IsTree(t), NEW dir, Ok(CatalogWalk(t, dir, <<>>))
  PROVE  CatalogWalk(t, dir, <<>>).id = dir
<1> DEFINE path == <<>>
<1>1. path \in Seq({0}) /\ Unled(path) = <<>>
  BY DEF Unled
<1> SUFFICES CatalogWalk(t, dir, path).id = dir
  OBVIOUS
<1>2. Ok(CatalogWalk(t, dir, path))
  OBVIOUS
<1>3. "a" # PathColon
  BY DEF PathColon
<1>4. Elements(path) = <<>>
  BY <1>3, OneElement
<1> HIDE DEF path
<1>5. PICK at : WalkOf(at, t, dir, path)
  BY <1>1, <1>2, WalkSucceeds
<1>6. ~Absolute(dir, path)
  BY <1>1, <1>5 DEF WalkOf, CanWalk
<1>7. ElementsOf(dir, path) = <<>> /\ StartsAt(dir, path) = dir
  BY <1>4, <1>6 DEF ElementsOf, StartsAt
<1> QED
  BY <1>5, <1>7 DEF WalkOf, WalksTo

\* Where a walk led, it leads in a tree with one file more.
LEMMA StepSame ==
  ASSUME NEW t, IsTree(t), NEW u, IsTree(u), t \subseteq u, NEW id \in IdsOf(t), NEW el, StepTo(t, id, el) # 0
  PROVE  StepTo(u, id, el) = StepTo(t, id, el)
<1>1. id # 0
  BY IdFacts
<1>2. CASE el # Up
  <2>1. StepTo(t, id, el) = ChildNamed(t, id, el) /\ StepTo(u, id, el) = ChildNamed(u, id, el)
    BY <1>1, <1>2 DEF StepTo
  <2>2. PICK o \in t : o.parent = id /\ o.name = el /\ o.id = ChildNamed(t, id, el)
    BY <2>1, ChildFacts
  <2>3. o \in u
    OBVIOUS
  <2>4. ChildNamed(u, id, el) = o.id
    BY <2>2, <2>3, ChildIs
  <2> QED
    BY <2>1, <2>2, <2>4
<1>3. CASE el = Up
  <2>1. CASE id = 2
    BY <1>1, <1>3, <2>1 DEF StepTo
  <2>2. CASE id # 2
    <3> DEFINE o == Object(t, id)
    <3>1. o \in t /\ o.id = id
      BY <2>2, IdFacts
    <3> HIDE DEF o
    <3>2. o \in Objects(u)
      BY <3>1 DEF Objects
    <3>3. Object(u, id) = o
      BY <3>1, <3>2, ObjectIs
    <3> QED
      BY <1>1, <1>3, <2>2, <3>3 DEF StepTo, o
  <2> QED
    BY <2>1, <2>2
<1> QED
  BY <1>2, <1>3

\* Directories stay.
LEMMA DirsGrow ==
  ASSUME NEW t, NEW u, t \subseteq u
  PROVE  Dirs(t) \subseteq Dirs(u) /\ IdsOf(t) \subseteq IdsOf(u)
<1>1. Objects(t) \subseteq Objects(u)
  BY DEF Objects
<1> QED
  BY <1>1 DEF Dirs, IdsOf

\* What is made in the directory of a path, with its name, is what it leads to.
LEMMA MadeFound ==
  ASSUME NEW t, IsTree(t), NEW path, IsPath(path), ~DiskOnly(path), NEW dir,
         NEW split, split = pathSplitLeaf(path), split.leaf # <<>>,
         NEW up, up = CatalogWalk(t, dir, split.dir), Ok(up), up.id \in Dirs(t),
         NEW new, new.id # 0, new.parent = up.id, new.name = split.leaf[1],
         NEW u, u = t \cup {new}, IsTree(u)
  PROVE  Ok(CatalogWalk(u, dir, path)) /\ CatalogWalk(u, dir, path).id = new.id
<1> DEFINE D == split.dir
           S == STRING \cup {Up}
<1>1. PICK r, c : Splits(path, D, r, c) /\ split.leaf = <<c>>
  BY SplitFacts
<1>2. D \in Seq(STRING) /\ path \in Seq(STRING) /\ c # Up
  BY <1>1 DEF Splits, IsPath, IsLeaf
<1> HIDE DEF D
<1>3. up = CatalogWalk(t, dir, D)
  BY DEF D
<1>4. PICK at : WalkOf(at, t, dir, D)
  BY <1>2, <1>3, WalkSucceeds
<1>5. t \subseteq u /\ Dirs(t) \subseteq Dirs(u) /\ IdsOf(t) \subseteq IdsOf(u) /\ new \in u
  BY DirsGrow
<1> DEFINE els == ElementsOf(dir, D)
           more == ElementsOf(dir, path)
           from == StartsAt(dir, D)
           n == Len(els)
           to == WalkedIds(u, from, more)
<1>6. more = Append(els, c) /\ StartsAt(dir, path) = from /\ CanWalk(u, dir, path)
  <2>1. CanWalk(t, dir, D)
    BY <1>4 DEF WalkOf
  <2>2. WalksAlike(u, dir, path, D, c)
    <3>1. Splits(path, D, r, c)
      BY <1>1 DEF D
    <3> HIDE DEF els, more, from
    <3> QED
      BY <1>5, <2>1, <3>1, SplitWalks
  <2> QED
    BY <2>2 DEF WalksAlike
<1>7. els \in Seq(S) /\ more \in Seq(S)
  BY <1>2, ElementsTyped
<1>8. /\ WalksTo(at, t, from, els) /\ from \in IdsOf(t)
      /\ \A k \in 0 .. n : at[k] \in IdsOf(t)
      /\ \A k \in 1 .. n - 1 : at[k] \in Dirs(t)
      /\ up.id = at[n]
  BY <1>3, <1>4, StartFacts DEF WalkOf
<1> HIDE DEF els, more, from
<1>9. n \in Nat /\ Len(more) = n + 1 /\ more[n + 1] = c /\ \A k \in 1 .. n : more[k] = els[k]
  BY <1>6, <1>7
<1>10. WalksTo(to, u, from, more)
  BY <1>5, <1>7, <1>8, WalkedFacts
<1> HIDE DEF to
<1>11. to[0] = from /\ at[0] = from /\ (\A k \in 1 .. n + 1 : to[k] = StepTo(u, to[k - 1], more[k]))
       /\ \A k \in 1 .. n : at[k] = StepTo(t, at[k - 1], els[k])
  BY <1>8, <1>9, <1>10 DEF WalksTo
<1> HIDE DEF n
<1> DEFINE P == {k \in 0 .. n : to[k] = at[k]}
<1>12. 0 \in P
  BY <1>9, <1>11
<1>13. ASSUME NEW k \in 1 .. n, k - 1 \in P PROVE k \in P
  <2>1. k \in 0 .. n /\ k - 1 \in 0 .. n /\ k \in 1 .. n + 1 /\ to[k - 1] = at[k - 1]
    BY <1>9, <1>13
  <2>2. to[k] = StepTo(u, at[k - 1], els[k]) /\ at[k] = StepTo(t, at[k - 1], els[k])
    BY <1>9, <1>11, <2>1
  <2>3. at[k - 1] \in IdsOf(t) /\ at[k] \in IdsOf(t)
    BY <1>8, <2>1 DEF n
  <2>4. at[k] # 0
    BY <2>3, IdFacts
  <2>5. to[k] = at[k]
    BY <1>5, <2>2, <2>3, <2>4, StepSame
  <2> QED
    BY <2>1, <2>5
<1>14. \A k \in 0 .. n : to[k] = at[k]
  <2> HIDE DEF P
  <2>1. \A k \in 0 .. n : k \in P
    BY <1>9, <1>12, <1>13, Along
  <2> QED
    BY <2>1 DEF P
<1>15. to[n + 1] = new.id
  <2>1. n + 1 \in 1 .. n + 1 /\ (n + 1) - 1 = n /\ n \in 0 .. n
    BY <1>9
  <2>2. to[n + 1] = StepTo(u, to[n], c)
    BY <1>9, <1>11, <2>1
  <2>3. to[n] = new.parent /\ to[n] \in IdsOf(t)
    BY <1>8, <1>14, <2>1 DEF n
  <2>4. to[n] # 0
    BY <2>3, IdFacts
  <2>5. new.name = c
    BY <1>1
  <2>6. ChildNamed(u, new.parent, new.name) = new.id
    BY <1>5, ChildIs
  <2> QED
    BY <1>2, <2>2, <2>3, <2>4, <2>5, <2>6 DEF StepTo
<1>16. \A k \in 1 .. n + 1 : to[k] # 0
  <2> SUFFICES ASSUME NEW k \in 1 .. n + 1 PROVE to[k] # 0
    OBVIOUS
  <2>1. CASE k = n + 1
    BY <1>15, <2>1
  <2>2. CASE k # n + 1
    <3>1. k \in 0 .. n
      BY <1>9, <2>2
    <3>2. to[k] \in IdsOf(t)
      BY <1>8, <1>14, <3>1 DEF n
    <3> QED
      BY <3>2, IdFacts
  <2> QED
    BY <2>1, <2>2
<1>17. \A k \in 1 .. (n + 1) - 1 : to[k] \in Dirs(u)
  <2>0. (n + 1) - 1 = n
    BY <1>9
  <2> SUFFICES ASSUME NEW k \in 1 .. n PROVE to[k] \in Dirs(u)
    BY <2>0
  <2>1. k \in 0 .. n
    BY <1>9
  <2>2. at[k] \in Dirs(t)
    <3>1. CASE k = n
      BY <1>8, <3>1 DEF n
    <3>2. CASE k # n
      <4>1. k \in 1 .. n - 1
        BY <1>9, <3>2
      <4> QED
        BY <1>8, <4>1 DEF n
    <3> QED
      BY <3>1, <3>2
  <2> QED
    BY <1>5, <1>14, <2>1, <2>2
<1>18. to = WalkedIds(u, StartsAt(dir, path), more) /\ Len(more) = n + 1
  BY <1>6, <1>9 DEF to
<1>19. more = ElementsOf(dir, path)
  BY DEF more
<1>20. Passable(u, to, more)
  BY <1>16, <1>17, <1>18 DEF Passable
<1>21. Ok(CatalogWalk(u, dir, path)) /\ CatalogWalk(u, dir, path).id = to[Len(more)]
  BY <1>2, <1>6, <1>18, <1>19, <1>20, WalkArrives
<1> QED
  BY <1>15, <1>18, <1>21

(***************************************************************************)
(* A file that is made.                                                    *)
(***************************************************************************)
\* A new name in a directory leaves a tree.
LEMMA TreeGrows ==
  ASSUME NEW t, IsTree(t), NEW new, new.id \notin {0, 1} \cup IdsOf(t), new.parent \in Dirs(t),
         new.name \notin {PathColon, Up}, ChildNamed(t, new.parent, new.name) = 0,
         NEW u, u = t \cup {new}
  PROVE  IsTree(u)
<1>1. new.id \notin {0, 1, 2} /\ \A o \in t : o.id # new.id
  BY RootFacts DEF IdsOf
<1>2. Dirs(t) \subseteq Dirs(u)
  BY DirsGrow
<1>3. \A o \in u : o.id \notin {0, 1, 2} /\ o.parent \in Dirs(u) /\ o.name \notin {PathColon, Up}
  <2> SUFFICES ASSUME NEW o \in u
               PROVE  o.id \notin {0, 1, 2} /\ o.parent \in Dirs(u) /\ o.name \notin {PathColon, Up}
    OBVIOUS
  <2>1. CASE o = new
    BY <1>1, <1>2, <2>1
  <2>2. CASE o # new
    BY <1>2, <2>2 DEF IsTree
  <2> QED
    BY <2>1, <2>2
<1>4. ASSUME NEW x \in t PROVE ~(x.parent = new.parent /\ x.name = new.name)
  <2> SUFFICES ASSUME x.parent = new.parent, x.name = new.name PROVE FALSE
    OBVIOUS
  <2>1. ChildNamed(t, x.parent, x.name) = x.id
    BY ChildIs
  <2>2. x.id # 0
    BY DEF IsTree
  <2> QED
    BY <2>1, <2>2
<1>5. ASSUME NEW o \in u, NEW x \in u, o.id = x.id \/ (o.parent = x.parent /\ o.name = x.name)
      PROVE  o = x
  <2>1. CASE o = new /\ x # new
    BY <1>1, <1>4, <1>5, <2>1
  <2>2. CASE o # new /\ x = new
    BY <1>1, <1>4, <1>5, <2>2
  <2>3. CASE o # new /\ x # new
    BY <1>5, <2>3 DEF IsTree
  <2> QED
    BY <2>1, <2>2, <2>3
<1> QED
  BY <1>3, <1>5 DEF IsTree

\* In the tree there was, a new file is one level deeper than its directory.
LEMMA LowGrows ==
  ASSUME NEW new, new.id = NewFile, new.parent \in Dirs(HostTree),
         new.name \notin {PathColon, Up}, ChildNamed(HostTree, new.parent, new.name) = 0,
         NEW u, u = HostTree \cup {new}
  PROVE  IsLow(u)
<1> DEFINE t == HostTree
<1>1. /\ IsTree(t) /\ Deepest \in Nat
      /\ NewFile \notin {0, 1} \cup IdsOf(t)
  BY FileSpecsAssumption
<1>2. PICK level \in [IdsOf(t) -> 0 .. Deepest] : Levelled(t, Deepest, level)
  BY FileSpecsAssumption
<1>3. IsTree(u)
  BY <1>1, TreeGrows
<1>4. t \subseteq u /\ IdsOf(u) = IdsOf(t) \cup {new.id} /\ Dirs(t) \subseteq IdsOf(t) /\ 2 \in IdsOf(t)
  BY RootFacts DEF IdsOf, Objects
<1>5. \A o \in t : o.id \in IdsOf(t) /\ o.parent \in IdsOf(t)
  BY <1>1, <1>4, RootFacts DEF IsTree, IdsOf
<1> HIDE DEF t
<1> DEFINE more == [i \in IdsOf(u) |-> IF i = new.id THEN level[new.parent] + 1 ELSE level[i]]
<1>6. new.parent \in IdsOf(t) /\ new.id \notin IdsOf(t)
  BY <1>1, <1>4 DEF t
<1>7. more \in [IdsOf(u) -> 0 .. Deepest + 1]
  <2> SUFFICES ASSUME NEW i \in IdsOf(u)
               PROVE  (IF i = new.id THEN level[new.parent] + 1 ELSE level[i]) \in 0 .. Deepest + 1
    OBVIOUS
  <2>1. CASE i = new.id
    <3>1. level[new.parent] \in 0 .. Deepest
      BY <1>2, <1>6
    <3> QED
      BY <1>1, <2>1, <3>1
  <2>2. CASE i # new.id
    <3>1. level[i] \in 0 .. Deepest
      BY <1>2, <1>4, <2>2
    <3> QED
      BY <1>1, <2>2, <3>1
  <2> QED
    BY <2>1, <2>2
<1>8. \A i \in IdsOf(t) : more[i] = level[i]
  BY <1>4, <1>6
<1>9. more[new.id] = level[new.parent] + 1
  BY <1>4
<1> HIDE DEF more
<1>10. Levelled(u, Deepest + 1, more)
  <2>1. more[2] = 0
    BY <1>2, <1>4, <1>8 DEF Levelled
  <2>2. ASSUME NEW o \in u PROVE more[o.id] = more[o.parent] + 1 /\ more[o.id] <= Deepest + 1
    <3>1. more[o.id] = more[o.parent] + 1
      <4>1. CASE o \in t
        BY <1>2, <1>5, <1>8, <4>1 DEF Levelled
      <4>2. CASE o = new
        BY <1>6, <1>8, <1>9, <4>2
      <4> QED
        BY <4>1, <4>2 DEF t
    <3>2. o.id \in IdsOf(u)
      BY DEF IdsOf, Objects
    <3>3. more[o.id] \in 0 .. Deepest + 1
      BY <1>7, <3>2
    <3> QED
      BY <1>1, <3>1, <3>3
  <2> QED
    BY <2>1, <2>2 DEF Levelled
<1> QED
  BY <1>3, <1>7, <1>10 DEF IsLow

(***************************************************************************)
(* The invariant.                                                          *)
(***************************************************************************)
\* The table says of a file what the host does.
KnownTrue(t, table) == \A e \in table : e.id = 2 \/ Described(t, e)

\* The parent and name that a program was told of a file are the file's.
FileTold(t, dir, path, err, id, parent, name) ==
  err = "noErr" /\ ~EndsUp(dir, path)
  => id = 2 \/ \E o \in t : o.id = id /\ o.parent = parent /\ name = <<o.name>>

\* ... in every answer that says so.
ToldTrue(t, r) ==
  r.call \in {"spec", "info", "listed", "resolved"}
  => FileTold(t, r.asked[1], r.asked[2], r.err, r.id, r.parent, r.name)

\* An FSSpec of a file to be made has the directory the path leads to.
Makes(t, dir, path, parent, name) ==
  /\ IsPath(path) /\ pathSplitLeaf(path).leaf # <<>>
  /\ Ok(CatalogWalk(t, dir, pathSplitLeaf(path).dir))
  /\ parent = CatalogWalk(t, dir, pathSplitLeaf(path).dir).id
  /\ name = pathSplitLeaf(path).leaf

\* ... in every answer of that kind.
ToMake(t, r) == r.call = "spec" /\ r.err = "fnfErr" => Makes(t, r.asked[1], r.asked[2], r.parent, r.name)

\* What is made is what the path leads to.
MadeAt(t, dir, path) ==
  ~DiskOnly(path) => Ok(CatalogWalk(t, dir, path)) /\ CatalogWalk(t, dir, path).id = NewFile

\* ... in every answer to a call that makes it.
Made(t, r) == r.call = "create" => MadeAt(t, r.asked[1], r.asked[2])

\* What holds of an answer, and the invariant.
Answered(t, r) == ToldTrue(t, r) /\ ToMake(t, r) /\ Made(t, r)

SpecInv ==
  /\ IsLow(files) /\ (Unmade => files = HostTree)
  /\ KnownTrue(files, known) /\ Answered(files, reply)

\* The fields of an answer.
LEMMA ToldFields ==
  ASSUME NEW kind, NEW asked, NEW err, NEW id, NEW parent, NEW name,
         NEW r, r = Told(kind, asked, err, id, parent, name)
  PROVE  /\ r.call = kind /\ r.asked = asked /\ r.err = err
         /\ r.id = id /\ r.parent = parent /\ r.name = name
  BY DEF Told

\* Answers that make nothing and promise nothing that is not there.
LEMMA ToldAnswers ==
  ASSUME NEW t, NEW kind, NEW dir, NEW path, NEW err, NEW id, NEW parent, NEW name,
         NEW r, r = Told(kind, <<dir, path>>, err, id, parent, name),
         kind # "create", kind # "spec" \/ err # "fnfErr",
         FileTold(t, dir, path, err, id, parent, name)
  PROVE  Answered(t, r)
<1> DEFINE asked == <<dir, path>>
<1>1. asked[1] = dir /\ asked[2] = path
  OBVIOUS
<1> HIDE DEF asked
<1>2. /\ r.call = kind /\ r.asked = asked /\ r.err = err
      /\ r.id = id /\ r.parent = parent /\ r.name = name
  BY ToldFields DEF asked
<1>3. ToldTrue(t, r)
  BY <1>1, <1>2 DEF ToldTrue
<1>4. ToMake(t, r)
  BY <1>2 DEF ToMake
<1>5. Made(t, r)
  BY <1>2 DEF Made
<1> QED
  BY <1>3, <1>4, <1>5 DEF Answered

\* What CatalogWalk answers, when it is asked and answers well.
LEMMA WalkTold ==
  ASSUME NEW t, IsLow(t), NEW S, NEW path \in Seq(S), NEW dir, Bounded(t, dir, path),
         NEW w, w = CatalogWalk(t, dir, path), Ok(w), NEW err
  PROVE  FileTold(t, dir, path, err, w.id, w.parent, <<w.name>>)
<1> SUFFICES ASSUME ~EndsUp(dir, path), w.id # 2
             PROVE  \E o \in t : o.id = w.id /\ o.parent = w.parent /\ <<w.name>> = <<o.name>>
  BY DEF FileTold
<1>1. Described(t, w)
  BY AnswerTrue
<1> QED
  BY <1>1 DEF Described

\* The table stays true, with what is true added.
LEMMA KnownGrows ==
  ASSUME NEW t, NEW table, KnownTrue(t, table), NEW u, t \subseteq u,
         NEW more, \A e \in more : e.id = 2 \/ Described(u, e)
  PROVE  KnownTrue(u, table \cup more)
<1>1. \A e : Described(t, e) => Described(u, e)
  BY DEF Described
<1> QED
  BY <1>1 DEF KnownTrue

\* Nothing is made or told at first.
LEMMA InitGood == SpecInit => SpecInv
<1> SUFFICES ASSUME SpecInit PROVE SpecInv
  OBVIOUS
<1>1. files = HostTree
  BY DEF SpecInit
<1>2. IsLow(files)
  <2>1. IsTree(HostTree) /\ Deepest \in Nat
    BY FileSpecsAssumption
  <2>2. PICK level \in [IdsOf(HostTree) -> 0 .. Deepest] : Levelled(HostTree, Deepest, level)
    BY FileSpecsAssumption
  <2>3. level \in [IdsOf(HostTree) -> 0 .. Deepest + 1]
    BY <2>1
  <2>4. ASSUME NEW o \in HostTree PROVE level[o.id] <= Deepest + 1
    <3>1. o.id \in IdsOf(HostTree)
      BY DEF IdsOf, Objects
    <3>2. level[o.id] \in 0 .. Deepest
      BY <3>1
    <3> QED
      BY <2>1, <3>2
  <2>5. Levelled(HostTree, Deepest + 1, level)
    BY <2>2, <2>4 DEF Levelled
  <2> QED
    BY <1>1, <2>1, <2>3, <2>5 DEF IsLow
<1>3. KnownTrue(files, known)
  BY DEF SpecInit, KnownTrue
<1>4. Answered(files, reply)
  <2>1. reply.call = "none"
    BY DEF SpecInit, NoReply
  <2> QED
    BY <2>1 DEF Answered, ToldTrue, ToMake, Made
<1> QED
  BY <1>1, <1>2, <1>3, <1>4 DEF SpecInv

\* An action that leaves the files as they are, and one that makes a file.
LEMMA Stays ==
  ASSUME SpecInv, files' = files, KnownTrue(files, known'), Answered(files, reply')
  PROVE  SpecInv'
<1>1. IsLow(files') /\ (Unmade' => files' = HostTree)
  BY DEF SpecInv, Unmade
<1>2. KnownTrue(files', known') /\ Answered(files', reply')
  OBVIOUS
<1> QED
  BY <1>1, <1>2 DEF SpecInv

\* Nothing is promised between calls (NextCall).
LEMMA NextCallGood ==
  ASSUME SpecInv, NextCall
  PROVE  SpecInv'
<1> DEFINE r == reply'
<1>1. r.call = "none" /\ files' = files /\ known' = known
  BY DEF NextCall, NoReply
<1>2. KnownTrue(files, known')
  BY <1>1 DEF SpecInv
<1> HIDE DEF r
<1>3. Answered(files, r)
  BY <1>1 DEF Answered, ToldTrue, ToMake, Made
<1> QED
  BY <1>1, <1>2, <1>3, Stays DEF r

\* A directory and a path that may be asked for.
LEMMA AskedFacts ==
  ASSUME NEW path \in PathsAsked
  PROVE  IsPath(path) /\ path \in Seq(STRING)
  BY FileSpecsAssumption DEF IsPath

\* A walk leaves the table true.
LEMMA WalkKnown ==
  ASSUME NEW t, IsLow(t), NEW S, NEW path \in Seq(S), NEW dir, NEW table, KnownTrue(t, table)
  PROVE  KnownTrue(t, table \cup CatalogWalk(t, dir, path).sets)
<1>1. IsTree(t)
  BY DEF IsLow
<1>2. \A e \in CatalogWalk(t, dir, path).sets : Described(t, e)
  BY <1>1, SetsTrue
<1> DEFINE more == CatalogWalk(t, dir, path).sets
<1>3. \A e \in more : e.id = 2 \/ Described(t, e)
  BY <1>2
<1> HIDE DEF more
<1>4. KnownTrue(t, table \cup more)
  BY <1>3, KnownGrows
<1> QED
  BY <1>4 DEF more

\* CreateFileIDRef keeps the invariant.
LEMMA FileIDGood ==
  ASSUME SpecInv, NEW dir, NEW path \in PathsAsked, CreateFileIDRef(dir, path)
  PROVE  SpecInv'
<1> DEFINE w == CatalogWalk(files, dir, path)
           err == IF ~Ok(w) THEN w.err ELSE IF w.id \in Dirs(files) THEN "notAFileErr" ELSE "noErr"
           r == reply'
<1>1. /\ files' = files /\ known' = known \cup w.sets
      /\ r = Told("id", <<dir, path>>, err, w.id, 0, <<>>)
  BY DEF CreateFileIDRef
<1>2. KnownTrue(files, known')
  BY <1>1, AskedFacts, WalkKnown DEF SpecInv
<1> HIDE DEF err, w, r
<1>3. r.call = "id"
  BY <1>1, ToldFields
<1>4. Answered(files, r)
  BY <1>3 DEF Answered, ToldTrue, ToMake, Made
<1> QED
  BY <1>1, <1>2, <1>4, Stays DEF r

\* ResolveFileIDRef keeps the invariant: it tells what the table says.
LEMMA ResolveGood ==
  ASSUME SpecInv, NEW entry \in known, ResolveFileIDRef(entry)
  PROVE  SpecInv'
<1> DEFINE r == reply'
           p == <<>>
           name == <<entry.name>>
<1>1. /\ files' = files /\ known' = known
      /\ r = Told("resolved", <<2, p>>, "noErr", entry.id, entry.parent, name)
  BY DEF ResolveFileIDRef
<1>2. KnownTrue(files, known)
  BY DEF SpecInv
<1>3. entry.id = 2 \/ \E o \in files : o.id = entry.id /\ o.parent = entry.parent /\ name = <<o.name>>
  BY <1>2 DEF KnownTrue, Described
<1> HIDE DEF r, p, name
<1>4. FileTold(files, 2, p, "noErr", entry.id, entry.parent, name)
  BY <1>3 DEF FileTold
<1>5. Answered(files, r)
  BY <1>1, <1>4, ToldAnswers
<1> QED
  BY <1>1, <1>2, <1>5, Stays DEF r

\* GetFileInfo keeps it, by path or of the directory itself.
LEMMA InfoGood ==
  ASSUME SpecInv, NEW dir, NEW path \in PathsAsked, Bounded(files, dir, path),
         NEW idx, NEW catalogCall, GetFileInfo(dir, idx, path, catalogCall)
  PROVE  SpecInv'
<1> DEFINE q == IF idx < 0 /\ catalogCall THEN <<>> ELSE path
           w == CatalogWalk(files, dir, q)
           r == reply'
           none == <<>>
           name == <<w.name>>
<1>0. IsLow(files) /\ KnownTrue(files, known)
  BY DEF SpecInv
<1>1. /\ files' = files /\ known' = known \cup w.sets
      /\ r = IF ~Ok(w) \/ (w.id \in Dirs(files) /\ ~catalogCall)
             THEN Told("info", <<dir, path>>, "fnfErr", 0, 0, none)
             ELSE Told("info", <<dir, q>>, "noErr", w.id, w.parent, name)
  BY DEF GetFileInfo
<1>2. q \in Seq(STRING)
  <2>1. CASE idx < 0 /\ catalogCall
    BY <2>1
  <2>2. CASE ~(idx < 0 /\ catalogCall)
    BY <2>2, AskedFacts
  <2> QED
    BY <2>1, <2>2
<1>3. Ok(w) => FileTold(files, dir, q, "noErr", w.id, w.parent, name)
  <2> SUFFICES ASSUME Ok(w) PROVE FileTold(files, dir, q, "noErr", w.id, w.parent, name)
    OBVIOUS
  <2>1. CASE idx < 0 /\ catalogCall
    <3>1. q = <<>>
      BY <2>1
    <3>2. w.id = 2 \/ Described(files, w)
      <4>1. w = CatalogWalk(files, dir, <<>>)
        BY <3>1
      <4> HIDE DEF w
      <4> QED
        BY <1>0, <4>1, ItselfTrue
    <3> HIDE DEF w, q
    <3> QED
      BY <3>2 DEF FileTold, Described
  <2>2. CASE ~(idx < 0 /\ catalogCall)
    <3>1. q = path
      BY <2>2
    <3>2. Bounded(files, dir, q)
      BY <3>1
    <3> HIDE DEF q
    <3>3. FileTold(files, dir, q, "noErr", w.id, w.parent, <<w.name>>)
      BY <1>0, <1>2, <3>2, WalkTold
    <3> QED
      BY <3>3
  <2> QED
    BY <2>1, <2>2
<1> HIDE DEF q
<1>4. KnownTrue(files, known')
  BY <1>0, <1>1, <1>2, WalkKnown
<1> HIDE DEF w, r, name, none
<1>5. Answered(files, r)
  <2>1. CASE ~Ok(w) \/ (w.id \in Dirs(files) /\ ~catalogCall)
    <3>1. r = Told("info", <<dir, path>>, "fnfErr", 0, 0, none)
      BY <1>1, <2>1
    <3>2. FileTold(files, dir, path, "fnfErr", 0, 0, none)
      BY DEF FileTold
    <3> QED
      BY <3>1, <3>2, ToldAnswers
  <2>2. CASE ~(~Ok(w) \/ (w.id \in Dirs(files) /\ ~catalogCall))
    <3>1. r = Told("info", <<dir, q>>, "noErr", w.id, w.parent, name)
      BY <1>1, <2>2
    <3> QED
      BY <1>3, <2>2, <3>1, ToldAnswers
  <2> QED
    BY <2>1, <2>2
<1> QED
  BY <1>1, <1>4, <1>5, Stays DEF r

\* GetIndexedInfo keeps it: it tells and keeps what the listing says.
LEMMA IndexedGood ==
  ASSUME SpecInv, NEW dir, NEW idx, NEW catalogCall, GetIndexedInfo(dir, idx, catalogCall)
  PROVE  SpecInv'
<1> DEFINE r == reply'
           p == <<>>
<1>0. KnownTrue(files, known)
  BY DEF SpecInv
<1>1. CASE files' = files /\ known' = known /\ r = Told("listed", <<dir, p>>, "fnfErr", 0, 0, p)
  <2>1. FileTold(files, dir, p, "fnfErr", 0, 0, p)
    BY DEF FileTold
  <2> HIDE DEF r, p
  <2>2. Answered(files, r)
    BY <1>1, <2>1, ToldAnswers
  <2> QED
    BY <1>0, <1>1, <2>2, Stays DEF r
<1>2. CASE \E o \in ListedAt(Listed(files, dir, catalogCall), idx) :
             /\ files' = files /\ r = Told("listed", <<dir, p>>, "noErr", o.id, dir, <<o.name>>)
             /\ known' = known \cup {[id |-> o.id, parent |-> dir, name |-> o.name]}
  <2>1. PICK o \in ListedAt(Listed(files, dir, catalogCall), idx) :
             /\ files' = files /\ r = Told("listed", <<dir, p>>, "noErr", o.id, dir, <<o.name>>)
             /\ known' = known \cup {[id |-> o.id, parent |-> dir, name |-> o.name]}
    BY <1>2
  <2>2. o \in files /\ o.parent = dir
    BY DEF ListedAt, Listed
  <2> DEFINE name == <<o.name>>
             e == [id |-> o.id, parent |-> dir, name |-> o.name]
             id == o.id
  <2>3. Described(files, e)
    BY <2>2 DEF Described
  <2>4. r = Told("listed", <<dir, p>>, "noErr", id, dir, name) /\ known' = known \cup {e}
    BY <2>1
  <2>5. \E x \in files : x.id = id /\ x.parent = dir /\ name = <<x.name>>
    BY <2>2
  <2> HIDE DEF r, p, name, e, id
  <2>6. FileTold(files, dir, p, "noErr", id, dir, name)
    BY <2>5 DEF FileTold
  <2>7. Answered(files, r)
    BY <2>4, <2>6, ToldAnswers
  <2>8. KnownTrue(files, known \cup {e})
    BY <1>0, <2>3, KnownGrows
  <2> QED
    BY <2>1, <2>4, <2>7, <2>8, Stays DEF r
<1> QED
  BY <1>1, <1>2 DEF GetIndexedInfo

\* MakeFSSpec keeps it, whether the file is there or to be made.
LEMMA SpecGood ==
  ASSUME SpecInv, NEW dir, NEW path \in PathsAsked, Bounded(files, dir, path), MakeFSSpec(dir, path)
  PROVE  SpecInv'
<1> DEFINE w == CatalogWalk(files, dir, path)
           split == pathSplitLeaf(path)
           up == CatalogWalk(files, dir, split.dir)
           r == reply'
           none == <<>>
           name == <<w.name>>
           asked == <<dir, path>>
           upsets == IF w.err = "fnfErr" THEN up.sets ELSE {}
<1>1. /\ files' = files
      /\ known' = known \cup w.sets \cup upsets
      /\ r = CASE Ok(w) /\ w.id = 2 -> Told("spec", asked, "noErr", 2, 2, none)
               [] Ok(w) /\ w.id # 2 -> Told("spec", asked, "noErr", w.id, w.parent, name)
               [] w.err = "fnfErr" /\ split.leaf # <<>> /\ Ok(up) ->
                    Told("spec", asked, "fnfErr", 0, up.id, split.leaf)
               [] OTHER -> Told("spec", asked, "dirNFErr", 0, 0, none)
  BY DEF MakeFSSpec
<1>2. IsPath(path) /\ path \in Seq(STRING) /\ IsLow(files) /\ KnownTrue(files, known) /\ IsTree(files)
  BY AskedFacts DEF SpecInv, IsLow
<1>3. \A e \in w.sets : Described(files, e)
  BY <1>2, SetsTrue
<1>4. \A e \in upsets : Described(files, e)
  <2>1. split.dir \in Seq(STRING)
    BY <1>2, SplitTyped
  <2>2. \A e \in up.sets : Described(files, e)
    <3> DEFINE d == split.dir
    <3>1. d \in Seq(STRING) /\ up = CatalogWalk(files, dir, d)
      BY <2>1
    <3> HIDE DEF d, up
    <3>2. \A e \in CatalogWalk(files, dir, d).sets : Described(files, e)
      BY <1>2, <3>1, SetsTrue
    <3> QED
      BY <3>1, <3>2
  <2> HIDE DEF up
  <2> QED
    BY <2>2
<1>6. Ok(w) => w.err # "fnfErr"
  BY DEF Ok
<1>7. Ok(w) => FileTold(files, dir, path, "noErr", w.id, w.parent, name)
  BY <1>2, WalkTold
<1>8. split.leaf # <<>> /\ Ok(up) => Makes(files, dir, path, up.id, split.leaf)
  BY <1>2 DEF Makes
<1> HIDE DEF w, up, split, none, name, upsets
<1>5. KnownTrue(files, known')
  <2> DEFINE more == w.sets \cup upsets
  <2>1. known' = known \cup more /\ \A e \in more : e.id = 2 \/ Described(files, e)
    BY <1>1, <1>3, <1>4
  <2> HIDE DEF more
  <2>2. KnownTrue(files, known \cup more)
    BY <1>2, <2>1, KnownGrows
  <2> QED
    BY <2>1, <2>2
<1>9. Answered(files, r)
  <2>1. CASE Ok(w) /\ w.id = 2
    <3>1. r = Told("spec", <<dir, path>>, "noErr", 2, 2, none)
      BY <1>1, <1>6, <2>1
    <3>2. FileTold(files, dir, path, "noErr", 2, 2, none)
      BY DEF FileTold
    <3> HIDE DEF r
    <3> QED
      BY <3>1, <3>2, ToldAnswers
  <2>2. CASE Ok(w) /\ w.id # 2
    <3>1. r = Told("spec", <<dir, path>>, "noErr", w.id, w.parent, name)
      BY <1>1, <1>6, <2>2
    <3> HIDE DEF r
    <3> QED
      BY <1>7, <2>2, <3>1, ToldAnswers
  <2>3. CASE w.err = "fnfErr" /\ split.leaf # <<>> /\ Ok(up)
    <3> DEFINE leaf == split.leaf
               id == up.id
    <3>1. r = Told("spec", asked, "fnfErr", 0, id, leaf)
      BY <1>1, <1>6, <2>3
    <3>2. Makes(files, dir, path, id, leaf)
      BY <1>8, <2>3
    <3>3. asked[1] = dir /\ asked[2] = path
      OBVIOUS
    <3> HIDE DEF r, leaf, id, asked
    <3>4. r.call = "spec" /\ r.asked = asked /\ r.err = "fnfErr" /\ r.parent = id /\ r.name = leaf
      BY <3>1, ToldFields
    <3>5. ToMake(files, r)
      BY <3>2, <3>3, <3>4 DEF ToMake
    <3>6. ToldTrue(files, r) /\ Made(files, r)
      BY <3>4 DEF ToldTrue, FileTold, Made
    <3> QED
      BY <3>5, <3>6 DEF Answered
  <2>4. CASE ~Ok(w) /\ ~(w.err = "fnfErr" /\ split.leaf # <<>> /\ Ok(up))
    <3>1. r = Told("spec", <<dir, path>>, "dirNFErr", 0, 0, none)
      BY <1>1, <2>4
    <3>2. FileTold(files, dir, path, "dirNFErr", 0, 0, none)
      BY DEF FileTold
    <3> HIDE DEF r
    <3> QED
      BY <3>1, <3>2, ToldAnswers
  <2> QED
    BY <2>1, <2>2, <2>3, <2>4
<1> QED
  BY <1>1, <1>5, <1>9, Stays

\* What is made is found where the path that asked for it leads.
LEMMA MadeGood ==
  ASSUME SpecInv, Unmade, NEW dir, NEW path, IsPath(path), NEW folder, NEW pair, IsPath(pair[2]),
         Created(dir, path, folder, pair),
         Makes(files, pair[1], pair[2], CatalogWalk(files, dir, pathSplitLeaf(path).dir).id, pathSplitLeaf(path).leaf)
  PROVE  SpecInv'
<1> DEFINE split == pathSplitLeaf(path)
           leaf == split.leaf
           D == split.dir
           up == CatalogWalk(files, dir, D)
           new == [id |-> NewFile, parent |-> up.id, name |-> leaf[1], dir |-> folder]
           entry == [id |-> NewFile, parent |-> up.id, name |-> leaf[1]]
           made == IF folder THEN {entry} ELSE {}
           r == reply'
           u == files'
           first == pair[1]
           asked == pair[2]
<1>1. /\ leaf # <<>> /\ Ok(up) /\ up.id \in Dirs(files) /\ ChildNamed(files, up.id, leaf[1]) = 0
      /\ u = files \cup {new}
      /\ known' = known \cup up.sets \cup made
      /\ r = Told("create", pair, "noErr", NewFile, up.id, leaf)
  BY DEF Created
<1>2. /\ IsLow(files) /\ files = HostTree /\ KnownTrue(files, known) /\ IsTree(files)
  BY DEF SpecInv, IsLow
<1>3. PICK c : leaf = <<c>> /\ c # PathColon /\ c # Up
  <2>1. \E x, c : Splits(path, D, x, c) /\ leaf = <<c>>
    BY <1>1, SplitFacts
  <2> QED
    BY <2>1 DEF Splits, IsLeaf
<1>4. leaf[1] = c
  BY <1>3
<1>5. D \in Seq(STRING)
  BY SplitTyped DEF IsPath
<1>6. Makes(files, first, asked, up.id, leaf) /\ IsPath(asked)
  OBVIOUS
<1> HIDE DEF leaf, split, D
<1>7. \A e \in up.sets : Described(files, e)
  BY <1>2, <1>5, SetsTrue
<1> HIDE DEF up
<1>8. new.id = NewFile /\ new.parent = up.id /\ new.name = c
  BY <1>4
<1>9. entry.id = new.id /\ entry.parent = new.parent /\ entry.name = new.name
  OBVIOUS
<1> HIDE DEF new, entry, u, r, first, asked
<1>10. IsLow(u)
  <2>1. new.parent \in Dirs(HostTree) /\ new.name \notin {PathColon, Up} /\ ChildNamed(HostTree, new.parent, new.name) = 0
    BY <1>1, <1>2, <1>3, <1>4, <1>8
  <2>2. u = HostTree \cup {new}
    BY <1>1, <1>2
  <2> QED
    BY <1>8, <2>1, <2>2, LowGrows
<1>11. ~(\A o \in u : o.id # NewFile)
  BY <1>1, <1>8
<1>12. KnownTrue(u, known')
  <2> DEFINE more == up.sets \cup made
  <2>1. known' = known \cup more
    BY <1>1
  <2>2. \A e \in more : e.id = 2 \/ Described(u, e)
    <3>1. new \in u /\ files \subseteq u
      BY <1>1
    <3>2. \A e \in up.sets : Described(u, e)
      BY <1>7, <3>1 DEF Described
    <3>3. \A e \in made : Described(u, e)
      BY <1>9, <3>1 DEF Described
    <3> QED
      BY <3>2, <3>3
  <2> HIDE DEF more
  <2>3. files \subseteq u
    BY <1>1
  <2>4. KnownTrue(u, known \cup more)
    BY <1>2, <2>2, <2>3, KnownGrows
  <2> QED
    BY <2>1, <2>4
<1>13. MadeAt(u, first, asked)
  <2> SUFFICES ASSUME ~DiskOnly(asked)
               PROVE  Ok(CatalogWalk(u, first, asked)) /\ CatalogWalk(u, first, asked).id = NewFile
    BY DEF MadeAt
  <2> DEFINE cut == pathSplitLeaf(asked)
             at == CatalogWalk(files, first, cut.dir)
  <2>1. cut.leaf # <<>> /\ Ok(at) /\ up.id = at.id /\ leaf = cut.leaf
    BY <1>6 DEF Makes
  <2> HIDE DEF cut
  <2>2. at.id \in Dirs(files) /\ new.parent = at.id /\ new.name = cut.leaf[1]
    BY <1>1, <1>4, <1>8, <2>1
  <2>3. new.id # 0
    BY <1>8, FileSpecsAssumption
  <2>4. u = files \cup {new} /\ IsTree(u)
    BY <1>1, <1>10 DEF IsLow
  <2>5. Ok(CatalogWalk(u, first, asked)) /\ CatalogWalk(u, first, asked).id = new.id
    <3>1. cut = pathSplitLeaf(asked) /\ at = CatalogWalk(files, first, cut.dir)
      BY DEF cut
    <3> HIDE DEF at
    <3> QED
      BY <1>2, <1>6, <2>1, <2>2, <2>3, <2>4, <3>1, MadeFound
  <2> QED
    BY <1>8, <2>5
<1>14. Answered(u, r)
  <2>1. pair[1] = first /\ pair[2] = asked
    BY DEF first, asked
  <2>2. r.call = "create" /\ r.asked = pair
    BY <1>1, ToldFields
  <2> QED
    BY <1>13, <2>1, <2>2 DEF Answered, ToldTrue, ToMake, Made
<1>15. IsLow(files') /\ ~Unmade' /\ KnownTrue(files', known') /\ Answered(files', reply')
  BY <1>10, <1>11, <1>12, <1>14 DEF u, r, Unmade
<1> QED
  BY <1>15 DEF SpecInv

\* A file made by a path is where the path leads.
LEMMA CreateAtGood ==
  ASSUME SpecInv, NEW dir, NEW path \in PathsAsked, NEW folder, CreateAt(dir, path, folder)
  PROVE  SpecInv'
<1>1. Unmade /\ Created(dir, path, folder, <<dir, path>>) /\ IsPath(path)
  BY AskedFacts DEF CreateAt
<1> DEFINE split == pathSplitLeaf(path)
           up == CatalogWalk(files, dir, split.dir)
<1>2. split.leaf # <<>> /\ Ok(up)
  BY <1>1 DEF Created
<1>3. Makes(files, dir, path, up.id, split.leaf)
  BY <1>1, <1>2 DEF Makes
<1> DEFINE pair == <<dir, path>>
<1>4. pair[1] = dir /\ pair[2] = path
  OBVIOUS
<1>5. Makes(files, pair[1], pair[2], up.id, split.leaf)
  BY <1>3, <1>4
<1> HIDE DEF pair
<1>6. Created(dir, path, folder, pair) /\ IsPath(pair[2])
  BY <1>1, <1>4 DEF pair
<1> QED
  BY <1>1, <1>5, <1>6, MadeGood

\* The name of an FSSpec, split again, is itself.
LEMMA NameSplits ==
  ASSUME NEW c, IsPath(<<c>>), pathSplitLeaf(<<c>>).leaf # <<>>
  PROVE  pathSplitLeaf(<<c>>).leaf = <<c>> /\ pathSplitLeaf(<<c>>).dir = <<>>
<1> DEFINE path == <<c>>
           split == pathSplitLeaf(path)
           D == split.dir
<1>1. PICK r, x : Splits(path, D, r, x) /\ split.leaf = <<x>>
  BY SplitFacts
<1>2. Len(path) = 1 /\ path[1] = c
  OBVIOUS
<1> HIDE DEF path
<1>3. D \in Seq(STRING) /\ r \in Seq(STRING) /\ path = D \o r /\ IsLeaf(r, x)
  BY <1>1 DEF Splits
<1> HIDE DEF split, D
<1>4. Len(r) \in {1, 2} /\ r[1] = x
  BY <1>3 DEF IsLeaf
<1>5. Len(D) \in Nat /\ Len(path) = Len(D) + Len(r)
  BY <1>3
<1>6. Len(D) = 0 /\ D = <<>>
  <2> DEFINE m == Len(D)
             k == Len(r)
  <2>2. m \in Nat /\ k \in {1, 2} /\ 1 = m + k
    BY <1>2, <1>4, <1>5
  <2> HIDE DEF m, k
  <2>1. m = 0
    BY <2>2
  <2> QED
    BY <1>3, <2>1 DEF m
<1>7. path = r
  BY <1>3, <1>6
<1>8. x = c
  BY <1>2, <1>4, <1>7
<1> QED
  BY <1>1, <1>6, <1>8 DEF path, split, D

\* A sequence of one.
LEMMA OneTyped ==
  ASSUME NEW S, NEW c \in S
  PROVE  <<c>> \in Seq(S) /\ Len(<<c>>) = 1 /\ <<c>>[1] = c
  OBVIOUS

\* A name is a path.
LEMMA NameIsPath ==
  ASSUME NEW c \in STRING, c # Up
  PROVE  IsPath(<<c>>)
<1> DEFINE q == <<c>>
           S == STRING
<1>0. c \in S
  OBVIOUS
<1> HIDE DEF S
<1>1. q \in Seq(S) /\ Len(q) = 1 /\ q[1] = c
  BY <1>0, OneTyped
<1> HIDE DEF q
<1>2. DOMAIN q = 1 .. 1 /\ 2 .. Len(q) = {}
  BY <1>1
<1>3. ASSUME NEW i \in DOMAIN q PROVE q[i] # Up
  <2>1. i = 1
    BY <1>2
  <2> QED
    BY <1>1, <2>1
<1>4. IsPath(q)
  BY <1>1, <1>2, <1>3 DEF IsPath, S
<1> QED
  BY <1>4 DEF q

\* A file made by an FSSpec is where the path leads that the FSSpec was
\* made from.
LEMMA CreateSpecGood ==
  ASSUME SpecInv, NEW folder, CreateSpec(folder)
  PROVE  SpecInv'
<1> DEFINE r == reply
<1>1. /\ Unmade /\ r.call = "spec" /\ r.err = "fnfErr"
      /\ Created(r.parent, r.name, folder, r.asked)
  BY DEF CreateSpec
<1>2. Makes(files, r.asked[1], r.asked[2], r.parent, r.name) /\ IsTree(files)
  BY <1>1 DEF SpecInv, IsLow, Answered, ToMake
<1> DEFINE path == r.name
           dir == r.parent
           pair == r.asked
           split == pathSplitLeaf(path)
           up == CatalogWalk(files, dir, split.dir)
<1>3. split.leaf # <<>> /\ Ok(up)
  BY <1>1 DEF Created
<1>4. Makes(files, pair[1], pair[2], dir, path)
  BY <1>2
<1> HIDE DEF pair, path, dir
<1>5. PICK c : path = <<c>> /\ IsPath(<<c>>)
  <2> DEFINE first == pathSplitLeaf(pair[2])
  <2>1. IsPath(pair[2]) /\ first.leaf # <<>> /\ path = first.leaf
    BY <1>4 DEF Makes
  <2> HIDE DEF first
  <2>2. PICK x, c : Splits(pair[2], first.dir, x, c) /\ first.leaf = <<c>>
    BY <2>1, SplitFacts DEF first
  <2>3. c \in STRING /\ c # Up
    <3>0. x \in Seq(STRING) /\ IsLeaf(x, c)
      BY <2>2 DEF Splits
    <3>1. Len(x) \in {1, 2} /\ x[1] = c /\ c # Up
      BY <3>0 DEF IsLeaf
    <3>2. 1 \in 1 .. Len(x)
      BY <3>1
    <3> QED
      BY <3>0, <3>1, <3>2
  <2>4. IsPath(<<c>>)
    BY <2>3, NameIsPath
  <2> QED
    BY <2>1, <2>2, <2>4
<1>6. split.leaf = path /\ split.dir = <<>>
  BY <1>3, <1>5, NameSplits
<1>7. up = CatalogWalk(files, dir, <<>>)
  BY <1>6
<1> HIDE DEF up, split
<1>8. up.id = dir
  BY <1>2, <1>3, <1>7, Itself
<1>9. Makes(files, pair[1], pair[2], up.id, split.leaf) /\ IsPath(pair[2]) /\ IsPath(path)
  BY <1>4, <1>5, <1>6, <1>8 DEF Makes
<1>10. Created(dir, path, folder, pair) /\ Unmade
  BY <1>1 DEF pair, path, dir
<1> QED
  BY <1>9, <1>10, MadeGood DEF up, split

(***************************************************************************)
(* Names and paths.                                                        *)
(***************************************************************************)
THEOREM FilesKnown == SpecSpec => []SpecInv
<1>1. SpecInit => SpecInv
  BY InitGood
<1>2. SpecInv /\ [SpecNext]_specVars => SpecInv'
  <2> SUFFICES ASSUME SpecInv, [SpecNext]_specVars PROVE SpecInv'
    OBVIOUS
  <2>1. ASSUME NEW dir \in KnownDirs, NEW path \in PathsAsked, Bounded(files, dir, path), Call(dir, path)
        PROVE  SpecInv'
    BY <2>1, SpecGood, FileIDGood, CreateAtGood, InfoGood DEF Call
  <2>2. CASE UNCHANGED specVars
    <3>1. files' = files /\ known' = known /\ reply' = reply
      BY <2>2 DEF specVars
    <3>2. KnownTrue(files, known') /\ Answered(files, reply')
      BY <3>1 DEF SpecInv
    <3> QED
      BY <3>1, <3>2, Stays
  <2>3. CASE SpecNext
    BY <2>1, <2>3, NextCallGood, IndexedGood, CreateSpecGood, ResolveGood DEF SpecNext
  <2> QED
    BY <2>2, <2>3
<1> QED
  BY <1>1, <1>2, PTL DEF SpecSpec

\* The invariant is stronger than NamesLead.
LEMMA InvLeads ==
  ASSUME SpecInv
  PROVE  NamesLead
<1>1. IsLow(files) /\ IsTree(files) /\ Answered(files, reply)
  BY DEF SpecInv, IsLow
<1> DEFINE r == reply
<1>2. CreatedIsFound
  BY <1>1 DEF CreatedIsFound, Answered, Made, MadeAt, Asked
<1>3. ToldLeadsBack
  <2> SUFFICES ASSUME r.call \in {"spec", "info", "listed", "resolved"}, r.err = "noErr",
                      ~EndsUp(r.asked[1], r.asked[2]), r.id # 2
               PROVE  CatalogWalk(files, r.parent, r.name).id = r.id
    BY DEF ToldLeadsBack
  <2>1. PICK o \in files : o.id = r.id /\ o.parent = r.parent /\ r.name = <<o.name>>
    BY <1>1 DEF Answered, ToldTrue, FileTold
  <2>2. Described(files, o)
    BY DEF Described
  <2>3. CatalogWalk(files, o.parent, <<o.name>>).id = o.id
    BY <1>1, <2>2, NameLeads
  <2> QED
    BY <2>1, <2>3
<1> QED
  BY <1>2, <1>3 DEF NamesLead

\* The files a program is told of are found again by parent and name, and what
\* it makes by a path, or by the FSSpec made from one, is what the path leads
\* to: for every tree, every path of names and colons, and every call.
THEOREM NamesLeadAlways == SpecSpec => []NamesLead
BY FilesKnown, InvLeads, PTL
=============================================================================
