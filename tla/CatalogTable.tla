----------------------------- MODULE CatalogTable -----------------------------
(***************************************************************************)
(* The table in catalog.c that remembers the parent and name of every file *)
(* and directory the Macintosh has been told of by number (CNID): one      *)
(* bucket in memory, a bounded sequence whose last entries are evicted,    *)
(* and a file on the host per evicted entry.                               *)
(*                                                                         *)
(* A table is a value, db; the calls are operators that give a table.      *)
(* Names are taken up to case, and only their lengths matter to a bucket.  *)
(* The fields last and lost are history: what CatalogSet last said of each *)
(* CNID, and of which CNIDs a new name met an entry that was clean.        *)
(***************************************************************************)
EXTENDS SequencesExt

CONSTANTS Cnids,    \* all but the root, whose entry stays in memory
          Root,     \* CNID 2
          Names,
          NameLen,  \* bytes of each name with its NUL
          Slots,    \* BUCKETSLOTS
          Bytes     \* BUCKETBYTES

ASSUME TableAssumption ==
  /\ Root \notin Cnids
  /\ NameLen \in [Names -> Nat \ {0}]
  /\ Slots \in Nat \ {0} /\ Bytes \in Nat
  /\ \A n \in Names : NameLen[n] <= Bytes

\* A function with a value for one more, or with another value for it.
Put(f, x, value) == [y \in DOMAIN f \cup {x} |-> IF y = x THEN value ELSE f[y]]

EmptyTable == [slots |-> <<>>, spilled |-> <<>>, last |-> <<>>, lost |-> {}]

Places(c, slots) == {i \in DOMAIN slots : slots[i].cnid = c}
Cached(c, db) == Places(c, db.slots) # {}
whichSlot(c, slots) == CHOOSE i \in Places(c, slots) : TRUE

Content(e) == [parent |-> e.parent, name |-> e.name]
\* Whether CatalogGet finds an entry, and what it finds.
Known(db, c) == Cached(c, db) \/ c \in DOMAIN db.spilled
Entry(db, c) == IF Cached(c, db) THEN Content(db.slots[whichSlot(c, db.slots)])
                                 ELSE db.spilled[c]

\* The bytes of the names, each with the CNID whose name it is in.
NameBytes(slots) ==
  UNION {{slots[i].cnid} \X (1 .. NameLen[slots[i].name]) : i \in DOMAIN slots}

UsedBytes(slots) == Cardinality(NameBytes(slots))

\* How many of the entries can stay when a name comes to them.
Kept(slots, name) ==
  Max({k \in 0 .. Len(slots) :
         k < Slots /\ UsedBytes(SubSeq(slots, 1, k)) + NameLen[name] <= Bytes})

\* Faulty variant: evicted entries are not saved.
SpillNothing(slots, k, spilled) == spilled

\* The host's files after spill of all but k entries: dirty ones are saved.
Spill(slots, k, spilled) ==
  LET saved == {i \in k + 1 .. Len(slots) : slots[i].dirty}
      ids   == {slots[i].cnid : i \in saved}
  IN  [c \in ids \cup DOMAIN spilled |->
         IF c \in ids THEN Content(slots[CHOOSE i \in saved : slots[i].cnid = c]) ELSE spilled[c]]

bubbleUp(slots, i) ==
  IF i = 1 THEN slots ELSE [slots EXCEPT ![i] = slots[i - 1], ![i - 1] = slots[i]]

\* What becomes of the dirty flag of an entry that is corrected.
Dirtied(old, parent) == old.dirty \/ old.parent # parent

\* The entry set is put among the k others that stay: where it was, or higher
\* if those before it are evicted too, or last if it is new.
Insert(others, k, db, entry) ==
  InsertAt(SubSeq(others, 1, k),
           IF Cached(entry.cnid, db) THEN Min({whichSlot(entry.cnid, db.slots), k + 1}) ELSE k + 1,
           entry)

\* What is lost sight of, should the entry be evicted as it is now.
Losing(db, entry) ==
  IF entry.dirty THEN db.lost \ {entry.cnid}
  ELSE IF Entry(db, entry.cnid).name # entry.name THEN db.lost \cup {entry.cnid} ELSE db.lost

WithEntry(db, others, k, entry) ==
  [slots   |-> Insert(others, k, db, entry),
   spilled |-> Spill(others, k, db.spilled),
   last    |-> Put(db.last, entry.cnid, Content(entry)),
   lost    |-> Losing(db, entry)]

Others(db, c) == IF Cached(c, db) THEN RemoveAt(db.slots, whichSlot(c, db.slots)) ELSE db.slots

\* Others are evicted from the end until there is a slot and the name fits.
CatalogSet(db, c, parent, name) ==
  WithEntry(db, Others(db, c), Kept(Others(db, c), name),
            [cnid |-> c, parent |-> parent, name |-> name,
             dirty |-> Cached(c, db) => Dirtied(db.slots[whichSlot(c, db.slots)], parent)])

\* An entry comes back from its file, clean, as unspill evicts others for it.
Unspilled(db, k, entry) ==
  [db EXCEPT !.slots = bubbleUp(Append(SubSeq(db.slots, 1, k), entry), k + 1),
             !.spilled = Spill(db.slots, k, db.spilled)]

\* An entry found moves up one place; one found in a file comes back first.
CatalogGet(db, c) ==
  IF Cached(c, db)
  THEN [db EXCEPT !.slots = bubbleUp(db.slots, whichSlot(c, db.slots))]
  ELSE IF Known(db, c)
  THEN Unspilled(db, Kept(db.slots, db.spilled[c].name),
                 [cnid |-> c, parent |-> db.spilled[c].parent, name |-> db.spilled[c].name,
                  dirty |-> FALSE])
  ELSE db

\* The machine restarts: what was not saved is gone, the host's files are not.
Restarted(db) ==
  [slots |-> <<>>, spilled |-> db.spilled, last |-> db.spilled, lost |-> {}]

(***************************************************************************)
(* Properties of a table.                                                  *)
(***************************************************************************)
Contents == [parent : Cnids \cup {Root}, name : Names]

\* Of the type it says, within the bounds of a bucket, no CNID twice.
BucketOK(db) ==
  /\ \A i \in DOMAIN db.slots : /\ db.slots[i].cnid \in Cnids
                                /\ Content(db.slots[i]) \in Contents
                                /\ Places(db.slots[i].cnid, db.slots) = {i}
  /\ Len(db.slots) <= Slots
  /\ UsedBytes(db.slots) <= Bytes
  /\ DOMAIN db.spilled \subseteq Cnids /\ DOMAIN db.last \subseteq Cnids
  /\ \A c \in DOMAIN db.spilled : db.spilled[c] \in Contents

Remembers(db, c) == Known(db, c) /\ Entry(db, c) = db.last[c]
===============================================================================
