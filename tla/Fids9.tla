-------------------------------- MODULE Fids9 --------------------------------
(***************************************************************************)
(* The fids of the 9P client (9p.c) and of the forks it opens for FCBs     *)
(* (multifork-3.c, device-9p.c), against the fid table of the server.      *)
(*                                                                         *)
(* Fids below 32 are tracked in the bitmask openfids: a walk to one that   *)
(* is open clunks it first.  Fids from 32 on belong to FCBs (fidof) and    *)
(* are not tracked; an FCB is chosen by being free, so its fid must be     *)
(* free too.  One File Manager call runs at a time.                        *)
(*                                                                         *)
(* The file names, the host's files and the data are abstracted: a walk    *)
(* has a number of names, and the server may fail any name of it, or any   *)
(* open.                                                                   *)
(***************************************************************************)
EXTENDS Integers

CONSTANTS
  ROOTFID,   \* attached once, and never a newfid
  Tracked,   \* the other fids below 32
  FcbFids,   \* 32 and up, one per FCB
  Chunk,     \* names that fit in one Twalk: 16, or what 1024 bytes hold
  MaxNames   \* the most names a caller passes to Walk9 (32 in CatalogWalk)

ASSUME FidAssumption == /\ ROOTFID \notin Tracked \cup FcbFids
                        /\ Tracked \cap FcbFids = {}
                        /\ Chunk \in Nat \ {0} /\ MaxNames \in Nat

Fids == {ROOTFID} \cup Tracked \cup FcbFids

NotWalking == [fid |-> ROOTFID, newfid |-> ROOTFID, left |-> 0, on |-> FALSE]

VARIABLES
  openfids,  \* the client's bitmask
  server,    \* the server's fid table: "none", "path" (walked), "open"
  walk,      \* the Walk9 in progress
  fcbs,      \* the FCBs in use (fcbFlNm # 0), by fid
  trouble,   \* "none", "in use" (a Twalk the server refused) or "panic"
  multi      \* history: some walk has sent a second Twalk

fidVars == <<openfids, server, walk, fcbs, trouble, multi>>

FidsInit == /\ openfids = {}
        /\ server = [f \in Fids |-> IF f = ROOTFID THEN "path" ELSE "none"]
        /\ walk = NotWalking
        /\ fcbs = {}
        /\ trouble = "none"
        /\ multi = FALSE

\* The driver runs, and no walk is under way.
Calm == trouble # "panic" /\ ~walk.on

(***************************************************************************)
(* The server (external): a walk starts at a fid that is not open for I/O, *)
(* and its newfid is new unless it is the fid itself.                      *)
(***************************************************************************)
Accepts(table, fid, newfid) == /\ table[fid] = "path"
                               /\ newfid = fid \/ table[newfid] = "none"

(***************************************************************************)
(* The transparent Tclunk.                                                 *)
(***************************************************************************)
\* Faulty variant: the bitmask is not consulted.
NeverStale(fid, newfid) == FALSE

Stale(fid, newfid) == newfid \in Tracked /\ fid # newfid /\ newfid \in openfids

TableFor(fid, newfid) == IF Stale(fid, newfid) THEN [server EXCEPT ![newfid] = "none"] ELSE server
BitsFor(fid, newfid)  == IF Stale(fid, newfid) THEN openfids \ {newfid} ELSE openfids

WithBit(bits, newfid) == IF newfid \in Tracked THEN bits \cup {newfid} ELSE bits

(***************************************************************************)
(* Walk9: a Tclunk if newfid is open, then Twalks of at most Chunk names,  *)
(* each one from fid to newfid.                                            *)
(***************************************************************************)
Walk9(fid, newfid, n) ==
  /\ Calm /\ server[fid] = "path"
  /\ server' = TableFor(fid, newfid)
  /\ openfids' = BitsFor(fid, newfid)
  /\ walk' = [fid |-> fid, newfid |-> newfid, left |-> n, on |-> TRUE]
  /\ UNCHANGED <<fcbs, trouble, multi>>

Willdo == IF walk.left < Chunk THEN walk.left ELSE Chunk

WalkRefused ==
  /\ walk.on /\ ~Accepts(server, walk.fid, walk.newfid)
  /\ trouble' = "in use"
  /\ walk' = NotWalking
  /\ UNCHANGED <<openfids, server, fcbs, multi>>

\* Some name does not exist: newfid is left as it was.
WalkMisses ==
  /\ walk.on /\ Accepts(server, walk.fid, walk.newfid) /\ Willdo > 0
  /\ walk' = NotWalking
  /\ UNCHANGED <<openfids, server, fcbs, trouble, multi>>

WalkReaches ==
  /\ walk.on /\ Accepts(server, walk.fid, walk.newfid)
  /\ server' = [server EXCEPT ![walk.newfid] = "path"]
  /\ \/ /\ walk.left > Willdo
        /\ walk' = [walk EXCEPT !.left = @ - Willdo]
        /\ multi' = TRUE
        /\ UNCHANGED openfids
     \/ /\ walk.left = Willdo
        /\ walk' = NotWalking
        /\ openfids' = WithBit(openfids, walk.newfid)
        /\ UNCHANGED multi
  /\ UNCHANGED <<fcbs, trouble>>

(***************************************************************************)
(* WalkPath9 and Xattrwalk9: one message.                                  *)
(***************************************************************************)
WalkPath9(fid, newfid, n) ==
  /\ Calm /\ server[fid] = "path"
  /\ LET table == TableFor(fid, newfid)
         bits  == BitsFor(fid, newfid)
     IN  \/ /\ Accepts(table, fid, newfid)
            /\ server' = [table EXCEPT ![newfid] = "path"]
            /\ openfids' = WithBit(bits, newfid)
            /\ UNCHANGED trouble
         \/ /\ Accepts(table, fid, newfid) /\ n > 0
            /\ server' = table /\ openfids' = bits
            /\ UNCHANGED trouble
         \/ /\ ~Accepts(table, fid, newfid)
            /\ server' = table /\ openfids' = bits
            /\ trouble' = IF n = 0 THEN "panic" ELSE "in use"
  /\ UNCHANGED <<walk, fcbs, multi>>

\* Lopen9 and Lcreate9, of a fid that has been walked; they may fail.
Lopen9(fid) ==
  /\ Calm /\ server[fid] = "path"
  /\ server' = [server EXCEPT ![fid] = "open"]
  /\ UNCHANGED <<openfids, walk, fcbs, trouble, multi>>

\* Faulty variant: the bit is left set.
ForgetfulClunk9(fid) ==
  /\ Calm
  /\ server' = [server EXCEPT ![fid] = "none"]
  /\ UNCHANGED <<openfids, walk, fcbs, trouble, multi>>

\* The bit is cleared first, and the answer is not looked at.
Clunk9(fid) ==
  /\ Calm
  /\ openfids' = openfids \ {fid}
  /\ server' = [server EXCEPT ![fid] = "none"]
  /\ UNCHANGED <<walk, fcbs, trouble, multi>>

(***************************************************************************)
(* The forks of FCBs.                                                      *)
(***************************************************************************)
\* fsOpen takes a free FCB; open3 walks its fid to the file (an untracked
\* fid: no Tclunk first) and opens it.  If Tlopen fails, fsOpen frees the FCB.
OpenFork(f) ==
  /\ Calm /\ f \notin fcbs
  /\ IF server[f] = "none"
       THEN /\ \/ server' = [server EXCEPT ![f] = "open"] /\ fcbs' = fcbs \cup {f}
               \/ server' = [server EXCEPT ![f] = "path"] /\ UNCHANGED fcbs
            /\ openfids' = WithBit(openfids, f)
            /\ UNCHANGED trouble
       ELSE trouble' = "panic" /\ UNCHANGED <<openfids, server, fcbs>>
  /\ UNCHANGED <<walk, multi>>

\* fsClose: close3 clunks the fid and the FCB is freed.
CloseFork(f) ==
  /\ Calm /\ f \in fcbs
  /\ server' = [server EXCEPT ![f] = "none"]
  /\ fcbs' = fcbs \ {f}
  /\ UNCHANGED <<openfids, walk, trouble, multi>>

\* fsUnmountVol: UnivCloseAll frees every FCB and sends nothing.
UnmountVol ==
  /\ Calm /\ fcbs # {}
  /\ fcbs' = {}
  /\ UNCHANGED <<openfids, server, walk, trouble, multi>>

FidsNext ==
  \/ \E fid \in {ROOTFID} \cup Tracked, newfid \in Tracked :
       \/ \E n \in 0 .. MaxNames : Walk9(fid, newfid, n)
       \/ \E n \in 0 .. 1 : WalkPath9(fid, newfid, n)
  \/ WalkRefused \/ WalkMisses \/ WalkReaches
  \/ \E fid \in Tracked : Lopen9(fid) \/ Clunk9(fid)
  \/ \E f \in FcbFids : OpenFork(f) \/ CloseFork(f)
  \/ UnmountVol

FidsSpec == FidsInit /\ [][FidsNext]_fidVars

(***************************************************************************)
(* Properties.                                                             *)
(***************************************************************************)
Tables == [Fids -> {"none", "path", "open"}]
Walks  == [fid : Fids, newfid : Fids, left : 0 .. MaxNames, on : BOOLEAN]

FidsTypeOK == /\ openfids \subseteq Tracked
          /\ server \in Tables
          /\ walk \in Walks
          /\ fcbs \subseteq FcbFids
          /\ trouble \in {"none", "in use", "panic"}
          /\ multi \in BOOLEAN

\* The bitmask never claims a fid the server does not have: no Tclunk, sent
\* behind a caller's back, hits a fid that is not there.
NoPhantomFid == \A f \in openfids : server[f] # "none"

\* As long as every walk has fitted in one Twalk, the bitmask knows, between
\* calls, every fid below 32 the server has, through failed walks, failed
\* opens, re-walks in place and missing clunks: else the fid could never be
\* walked to again.
Known == \A f \in Tracked : server[f] # "none" => f \in openfids
NoUntrackedFid == ~multi /\ ~walk.on => Known

\* As long as every walk has fitted in one Twalk, the Tclunk issued "to make
\* everything succeed" does: the server refuses no walk for its newfid.
ShortWalksAccepted == ~multi => trouble # "in use"

\* "Twalk with 0 components should never fail": nor does the walk of a free
\* FCB's fid.
NeverPanics == trouble # "panic"

\* The bitmask and the server's table agree, in both directions.
BitmaskAgrees == NoPhantomFid /\ NoUntrackedFid
=============================================================================
