---------------------------- MODULE Catalog_proofs ----------------------------
(***************************************************************************)
(* Proofs about Catalog and CatalogTable: the table gives back what it was *)
(* last told, and a walk by CNID finds what was asked for, tells its       *)
(* parent and name as they are, and leaves the way back to it entered.     *)
(*                                                                         *)
(* First sequences and the table, call by call; then recursion, the climb  *)
(* from a CNID to the root, the walk in the host's tree and the path       *)
(* folded; then CatalogWalk, the actions and the theorems.                 *)
(***************************************************************************)
EXTENDS Catalog, FiniteSetTheorems, FunctionTheorems, SequenceTheorems,
        WellFoundedInduction, TLAPS

(***************************************************************************)
(* Sequences: what is cut, put in and taken out.                           *)
(***************************************************************************)
LEMMA CutFacts ==
  ASSUME NEW T, NEW s \in Seq(T), NEW k \in 0 .. Len(s)
  PROVE  /\ SubSeq(s, 1, k) \in Seq(T) /\ Len(SubSeq(s, 1, k)) = k
         /\ \A i \in 1 .. k : SubSeq(s, 1, k)[i] = s[i]
<1>1. k \in Int /\ 1 \in Int /\ k \in Nat /\ \A i \in 1 .. k : s[i] \in T
  OBVIOUS
<1>2. /\ SubSeq(s, 1, k) \in Seq(T)
      /\ Len(SubSeq(s, 1, k)) = IF 1 <= k THEN k - 1 + 1 ELSE 0
      /\ \A i \in 1 .. k - 1 + 1 : SubSeq(s, 1, k)[i] = s[1 + i - 1]
  BY <1>1, SubSeqProperties
<1>3. \A i \in 1 .. k : i \in 1 .. k - 1 + 1 /\ 1 + i - 1 = i
  BY <1>1
<1> QED
  BY <1>1, <1>2, <1>3

LEMMA RestFacts ==
  ASSUME NEW T, NEW s \in Seq(T), NEW k \in 1 .. Len(s) + 1
  PROVE  /\ SubSeq(s, k, Len(s)) \in Seq(T) /\ Len(SubSeq(s, k, Len(s))) = Len(s) - k + 1
         /\ \A i \in 1 .. Len(s) - k + 1 : SubSeq(s, k, Len(s))[i] = s[k + i - 1]
<1> DEFINE n == Len(s)
           u == SubSeq(s, k, n)
<1>1. k \in Int /\ n \in Int /\ n \in Nat /\ \A i \in k .. n : s[i] \in T
  OBVIOUS
<1>2. /\ u \in Seq(T)
      /\ Len(u) = IF k <= n THEN n - k + 1 ELSE 0
      /\ \A i \in 1 .. n - k + 1 : u[i] = s[k + i - 1]
  BY <1>1, SubSeqProperties
<1>3. k <= n + 1
  OBVIOUS
<1> HIDE DEF u
<1> QED
  BY <1>1, <1>2, <1>3 DEF u

LEMMA InsertFacts ==
  ASSUME NEW T, NEW s \in Seq(T), NEW p \in 1 .. Len(s) + 1, NEW e \in T
  PROVE  /\ InsertAt(s, p, e) \in Seq(T) /\ Len(InsertAt(s, p, e)) = Len(s) + 1
         /\ \A i \in 1 .. Len(s) + 1 :
              InsertAt(s, p, e)[i] = IF i < p THEN s[i] ELSE IF i = p THEN e ELSE s[i - 1]
<1> DEFINE a == SubSeq(s, 1, p - 1)
           b == SubSeq(s, p, Len(s))
           n == Len(s)
<1>1. n \in Nat /\ p \in Nat /\ p - 1 \in 0 .. n /\ <<e>> \in Seq(T) /\ Len(<<e>>) = 1 /\ <<e>>[1] = e
  OBVIOUS
<1>2. a \in Seq(T) /\ Len(a) = p - 1 /\ \A i \in 1 .. p - 1 : a[i] = s[i]
  BY <1>1, CutFacts
<1>3. b \in Seq(T) /\ Len(b) = n - p + 1 /\ \A i \in 1 .. n - p + 1 : b[i] = s[p + i - 1]
  BY RestFacts
<1> HIDE DEF a, b
<1>4. /\ a \o <<e>> \in Seq(T) /\ Len(a \o <<e>>) = p
      /\ \A i \in 1 .. p : (a \o <<e>>)[i] = IF i <= p - 1 THEN a[i] ELSE <<e>>[i - (p - 1)]
  BY <1>1, <1>2, ConcatProperties
<1> DEFINE c == a \o <<e>>
<1> HIDE DEF c
<1>5. c \in Seq(T) /\ Len(c) = p /\ \A i \in 1 .. p : c[i] = IF i < p THEN s[i] ELSE e
  <2>1. \A i \in 1 .. p : c[i] = IF i <= p - 1 THEN a[i] ELSE <<e>>[i - (p - 1)]
    BY <1>4 DEF c
  <2>2. ASSUME NEW i \in 1 .. p PROVE c[i] = IF i < p THEN s[i] ELSE e
    <3>1. CASE i < p
      BY <1>1, <1>2, <2>1, <3>1
    <3>2. CASE i = p
      <4>1. i - (p - 1) = 1 /\ ~(i <= p - 1)
        BY <1>1, <3>2
      <4> QED
        BY <1>1, <2>1, <3>2, <4>1
    <3> QED
      BY <1>1, <3>1, <3>2
  <2> QED
    BY <1>4, <2>2 DEF c
<1>6. /\ c \o b \in Seq(T) /\ Len(c \o b) = n + 1
      /\ \A i \in 1 .. n + 1 : (c \o b)[i] = IF i <= p THEN c[i] ELSE b[i - p]
  <2>1. /\ c \o b \in Seq(T) /\ Len(c \o b) = Len(c) + Len(b)
        /\ \A i \in 1 .. Len(c) + Len(b) :
             (c \o b)[i] = IF i <= Len(c) THEN c[i] ELSE b[i - Len(c)]
    BY <1>3, <1>5, ConcatProperties
  <2>2. Len(c) = p /\ Len(c) + Len(b) = n + 1
    BY <1>1, <1>3, <1>5
  <2> QED
    BY <2>1, <2>2
<1> DEFINE d == c \o b
<1> HIDE DEF d
<1>7. InsertAt(s, p, e) = d
  BY DEF InsertAt, a, b, c, d
<1>8. ASSUME NEW i \in 1 .. n + 1
      PROVE  d[i] = IF i < p THEN s[i] ELSE IF i = p THEN e ELSE s[i - 1]
  <2>1. d[i] = IF i <= p THEN c[i] ELSE b[i - p]
    BY <1>6 DEF d
  <2>2. CASE i <= p
    BY <1>1, <1>5, <2>1, <2>2
  <2>3. CASE i > p
    <3>1. i - p \in 1 .. n - p + 1 /\ p + (i - p) - 1 = i - 1
      BY <1>1, <2>3
    <3> QED
      BY <1>1, <1>3, <2>1, <2>3, <3>1
  <2> QED
    BY <1>1, <2>2, <2>3
<1> QED
  BY <1>6, <1>7, <1>8 DEF d

LEMMA RemoveFacts ==
  ASSUME NEW T, NEW s \in Seq(T), NEW p \in 1 .. Len(s)
  PROVE  /\ RemoveAt(s, p) \in Seq(T) /\ Len(RemoveAt(s, p)) = Len(s) - 1
         /\ \A i \in 1 .. Len(s) - 1 : RemoveAt(s, p)[i] = IF i < p THEN s[i] ELSE s[i + 1]
<1> DEFINE a == SubSeq(s, 1, p - 1)
           b == SubSeq(s, p + 1, Len(s))
           n == Len(s)
<1>1. n \in Nat /\ p \in Nat /\ p - 1 \in 0 .. n /\ p + 1 \in 1 .. n + 1
  OBVIOUS
<1>2. a \in Seq(T) /\ Len(a) = p - 1 /\ \A i \in 1 .. p - 1 : a[i] = s[i]
  BY <1>1, CutFacts
<1>3. b \in Seq(T) /\ Len(b) = n - (p + 1) + 1 /\ \A i \in 1 .. n - (p + 1) + 1 : b[i] = s[(p + 1) + i - 1]
  BY <1>1, RestFacts
<1> HIDE DEF a, b
<1>4. /\ a \o b \in Seq(T) /\ Len(a \o b) = n - 1
      /\ \A i \in 1 .. n - 1 : (a \o b)[i] = IF i <= p - 1 THEN a[i] ELSE b[i - (p - 1)]
  <2>1. /\ a \o b \in Seq(T) /\ Len(a \o b) = Len(a) + Len(b)
        /\ \A i \in 1 .. Len(a) + Len(b) :
             (a \o b)[i] = IF i <= Len(a) THEN a[i] ELSE b[i - Len(a)]
    BY <1>2, <1>3, ConcatProperties
  <2>2. Len(a) = p - 1 /\ Len(a) + Len(b) = n - 1
    BY <1>1, <1>2, <1>3
  <2> QED
    BY <2>1, <2>2
<1> DEFINE d == a \o b
<1> HIDE DEF d
<1>5. RemoveAt(s, p) = d
  BY DEF RemoveAt, a, b, d
<1>6. ASSUME NEW i \in 1 .. n - 1
      PROVE  d[i] = IF i < p THEN s[i] ELSE s[i + 1]
  <2>1. d[i] = IF i <= p - 1 THEN a[i] ELSE b[i - (p - 1)]
    BY <1>4 DEF d
  <2>2. CASE i < p
    BY <1>1, <1>2, <2>1, <2>2
  <2>3. CASE i >= p
    <3>1. i - (p - 1) \in 1 .. n - (p + 1) + 1 /\ (p + 1) + (i - (p - 1)) - 1 = i + 1
      BY <1>1, <2>3
    <3> QED
      BY <1>1, <1>3, <2>1, <2>3, <3>1
  <2> QED
    BY <1>1, <2>2, <2>3
<1> QED
  BY <1>4, <1>5, <1>6 DEF d

(***************************************************************************)
(* Slots of a bucket: of a type, no CNID twice.                            *)
(***************************************************************************)
Slot == [cnid : Cnids, parent : Cnids \cup {Root}, name : Names, dirty : BOOLEAN]

Unique(slots) ==
  slots \in Seq(Slot) /\ \A i, j \in 1 .. Len(slots) : slots[i].cnid = slots[j].cnid => i = j

LEMMA SlotFacts ==
  ASSUME NEW e \in Slot
  PROVE  /\ e.cnid \in Cnids /\ e.parent \in Cnids \cup {Root} /\ e.name \in Names
         /\ Content(e) \in Contents
<1>1. e.cnid \in Cnids /\ e.parent \in Cnids \cup {Root} /\ e.name \in Names
  BY DEF Slot
<1> QED
  BY <1>1 DEF Content, Contents

LEMMA UniqueFacts ==
  ASSUME NEW slots, Unique(slots)
  PROVE  /\ Len(slots) \in Nat /\ DOMAIN slots = 1 .. Len(slots)
         /\ \A i \in 1 .. Len(slots) :
              /\ slots[i] \in Slot /\ slots[i].cnid \in Cnids /\ slots[i].name \in Names
              /\ Content(slots[i]) \in Contents
              /\ Places(slots[i].cnid, slots) = {i} /\ whichSlot(slots[i].cnid, slots) = i
<1>1. slots \in Seq(Slot) /\ Len(slots) \in Nat /\ DOMAIN slots = 1 .. Len(slots)
  BY DEF Unique
<1>2. ASSUME NEW i \in 1 .. Len(slots)
      PROVE  /\ slots[i] \in Slot /\ slots[i].cnid \in Cnids /\ slots[i].name \in Names
             /\ Content(slots[i]) \in Contents
  <2>1. slots[i] \in Slot
    BY <1>1
  <2> QED
    BY <2>1, SlotFacts
<1>3. ASSUME NEW i \in 1 .. Len(slots)
      PROVE  Places(slots[i].cnid, slots) = {i} /\ whichSlot(slots[i].cnid, slots) = i
  <2>1. Places(slots[i].cnid, slots) = {i}
    BY <1>1 DEF Places, Unique
  <2> QED
    BY <2>1 DEF whichSlot
<1> QED
  BY <1>1, <1>2, <1>3

LEMMA CachedFacts ==
  ASSUME NEW d, Unique(d.slots), NEW c
  PROVE  /\ Cached(c, d) <=> \E i \in 1 .. Len(d.slots) : d.slots[i].cnid = c
         /\ \A i \in 1 .. Len(d.slots) :
              d.slots[i].cnid = c =>
                /\ Cached(c, d) /\ Known(d, c) /\ whichSlot(c, d.slots) = i
                /\ Entry(d, c) = Content(d.slots[i])
         /\ ~Cached(c, d) => (Known(d, c) <=> c \in DOMAIN d.spilled)
                              /\ Entry(d, c) = d.spilled[c]
<1>1. DOMAIN d.slots = 1 .. Len(d.slots)
  BY UniqueFacts
<1>2. Cached(c, d) <=> \E i \in 1 .. Len(d.slots) : d.slots[i].cnid = c
  BY <1>1 DEF Cached, Places
<1>3. ASSUME NEW i \in 1 .. Len(d.slots), d.slots[i].cnid = c
      PROVE  /\ Cached(c, d) /\ Known(d, c) /\ whichSlot(c, d.slots) = i
             /\ Entry(d, c) = Content(d.slots[i])
  <2>1. whichSlot(c, d.slots) = i
    BY <1>3, UniqueFacts
  <2>2. Cached(c, d)
    BY <1>2, <1>3
  <2> QED
    BY <2>1, <2>2 DEF Known, Entry
<1>4. ASSUME ~Cached(c, d)
      PROVE  (Known(d, c) <=> c \in DOMAIN d.spilled) /\ Entry(d, c) = d.spilled[c]
  BY <1>4 DEF Known, Entry
<1> QED
  BY <1>2, <1>3, <1>4

(***************************************************************************)
(* The bytes of the names.                                                 *)
(***************************************************************************)
LEMMA NameBytesFinite ==
  ASSUME NEW slots, Unique(slots)
  PROVE  IsFiniteSet(NameBytes(slots)) /\ UsedBytes(slots) \in Nat
<1>1. DOMAIN slots = 1 .. Len(slots) /\ Len(slots) \in Nat
  BY UniqueFacts
<1> DEFINE ids == {slots[i].cnid : i \in 1 .. Len(slots)}
           f == [i \in 1 .. Len(slots) |-> slots[i].cnid]
<1>2. IsFiniteSet(ids)
  <2>1. f \in Surjection(1 .. Len(slots), ids)
    BY DEF Surjection
  <2>2. IsFiniteSet(1 .. Len(slots))
    BY <1>1, FS_Interval
  <2> HIDE DEF f, ids
  <2> QED
    BY <2>1, <2>2, FS_Surjection
<1>3. IsFiniteSet(ids \X (1 .. Bytes))
  <2>1. IsFiniteSet(1 .. Bytes)
    BY FS_Interval, TableAssumption
  <2> QED
    BY <1>2, <2>1, FS_Product
<1>4. NameBytes(slots) \in SUBSET (ids \X (1 .. Bytes))
  <2> SUFFICES ASSUME NEW i \in 1 .. Len(slots), NEW b \in 1 .. NameLen[slots[i].name]
               PROVE  b \in 1 .. Bytes
    BY <1>1 DEF NameBytes
  <2>1. NameLen[slots[i].name] \in Nat /\ NameLen[slots[i].name] <= Bytes /\ Bytes \in Nat
    BY UniqueFacts, TableAssumption
  <2> QED
    BY <2>1
<1>5. IsFiniteSet(NameBytes(slots))
  BY <1>3, <1>4, FS_Subset
<1> QED
  BY <1>5, FS_CardinalityType DEF UsedBytes

\* One entry more brings the bytes of its name, and the order is the same to all.
LEMMA BytesOfMerged ==
  ASSUME NEW slots, Unique(slots), NEW merged, Unique(merged), NEW e \in Slot,
         \A j \in 1 .. Len(merged) :
           merged[j] = e \/ \E i \in 1 .. Len(slots) : merged[j] = slots[i]
  PROVE  UsedBytes(merged) <= UsedBytes(slots) + NameLen[e.name]
<1> DEFINE n == NameLen[e.name]
           own == {e.cnid} \X (1 .. n)
<1>1. n \in Nat
  BY TableAssumption DEF Slot
<1>2. IsFiniteSet(own) /\ Cardinality(own) = n
  <2>1. IsFiniteSet(1 .. n) /\ Cardinality(1 .. n) = n
    <3>1. IsFiniteSet(1 .. n) /\ Cardinality(1 .. n) = IF 1 > n THEN 0 ELSE n - 1 + 1
      BY <1>1, FS_Interval
    <3> HIDE DEF n
    <3> QED
      BY <1>1, <3>1
  <2>2. IsFiniteSet({e.cnid}) /\ Cardinality({e.cnid}) = 1
    BY FS_Singleton
  <2>3. IsFiniteSet(own) /\ Cardinality(own) = Cardinality({e.cnid}) * Cardinality(1 .. n)
    BY <2>1, <2>2, FS_Product
  <2> HIDE DEF own, n
  <2> QED
    BY <1>1, <2>1, <2>2, <2>3
<1>3. DOMAIN slots = 1 .. Len(slots) /\ DOMAIN merged = 1 .. Len(merged)
  BY UniqueFacts
<1>4. NameBytes(merged) \in SUBSET (NameBytes(slots) \cup own)
  BY <1>3 DEF NameBytes
<1>5. IsFiniteSet(NameBytes(slots)) /\ UsedBytes(slots) \in Nat /\ UsedBytes(merged) \in Nat
  BY NameBytesFinite
<1> HIDE DEF own, n
<1>6. /\ IsFiniteSet(NameBytes(slots) \cup own)
      /\ Cardinality(NameBytes(slots) \cup own)
           = Cardinality(NameBytes(slots)) + Cardinality(own) - Cardinality(NameBytes(slots) \cap own)
  BY <1>2, <1>5, FS_Union
<1>7. Cardinality(NameBytes(slots) \cap own) \in Nat
  <2>1. IsFiniteSet(NameBytes(slots) \cap own)
    BY <1>5, FS_Intersection
  <2> QED
    BY <2>1, FS_CardinalityType
<1>8. Cardinality(NameBytes(merged)) <= Cardinality(NameBytes(slots) \cup own)
  BY <1>4, <1>6, FS_Subset
<1>9. UsedBytes(slots) = Cardinality(NameBytes(slots)) /\ UsedBytes(merged) = Cardinality(NameBytes(merged))
  BY DEF UsedBytes
<1>10. UsedBytes(merged) <= UsedBytes(slots) + n
  <2>1. Cardinality(NameBytes(slots) \cup own) <= UsedBytes(slots) + n
    BY <1>1, <1>2, <1>5, <1>6, <1>7, <1>9
  <2>2. Cardinality(NameBytes(slots) \cup own) \in Nat
    BY <1>6, FS_CardinalityType
  <2> QED
    BY <1>1, <1>5, <1>8, <1>9, <2>1, <2>2
<1> QED
  BY <1>10 DEF n

(***************************************************************************)
(* Room for an entry, and what becomes of those that must go.              *)
(***************************************************************************)
LEMMA LeastNat ==
  ASSUME NEW S \in SUBSET Nat, S # {}
  PROVE  \E m \in S : \A k \in S : m <= k
<1>1. PICK m \in S : \A k \in S : ~ (<<k, m>> \in OpToRel(<, Nat))
  BY NatLessThanWellFounded, WFMin
<1>2. \A k \in S : ~ (k < m)
  BY <1>1 DEF OpToRel
<1> QED
  BY <1>2

LEMMA MaxInRange ==
  ASSUME NEW n \in Nat, NEW S \in SUBSET (0 .. n), S # {}
  PROVE  Max(S) \in S /\ \A k \in S : k <= Max(S)
<1> DEFINE D == {n - k : k \in S}
<1>1. D \in SUBSET Nat /\ D # {}
  <2>1. \A k \in S : n - k \in Nat
    OBVIOUS
  <2> QED
    BY <2>1
<1>2. PICK m \in D : \A d \in D : m <= d
  BY <1>1, LeastNat
<1>3. PICK k \in S : m = n - k
  BY <1>2
<1>4. \A j \in S : k >= j
  <2> TAKE j \in S
  <2>1. n - j \in D /\ j \in 0 .. n /\ k \in 0 .. n
    OBVIOUS
  <2>2. n - k <= n - j
    BY <1>2, <1>3, <2>1
  <2> QED
    BY <2>1, <2>2
<1>5. \E x \in S : \A y \in S : x >= y
  BY <1>4
<1>6. Max(S) \in S /\ \A y \in S : Max(S) >= y
  BY <1>5 DEF Max
<1> QED
  BY <1>6

LEMMA CutUnique ==
  ASSUME NEW slots, Unique(slots), NEW k \in 0 .. Len(slots)
  PROVE  Unique(SubSeq(slots, 1, k))
<1>1. slots \in Seq(Slot) /\ Len(slots) \in Nat
  BY DEF Unique
<1>2. /\ SubSeq(slots, 1, k) \in Seq(Slot) /\ Len(SubSeq(slots, 1, k)) = k
      /\ \A i \in 1 .. k : SubSeq(slots, 1, k)[i] = slots[i]
  BY <1>1, CutFacts
<1> QED
  BY <1>1, <1>2 DEF Unique

LEMMA KeptFacts ==
  ASSUME NEW slots, Unique(slots), NEW name \in Names
  PROVE  /\ Kept(slots, name) \in 0 .. Len(slots) /\ Kept(slots, name) < Slots
         /\ UsedBytes(SubSeq(slots, 1, Kept(slots, name))) + NameLen[name] <= Bytes
<1> DEFINE S == {k \in 0 .. Len(slots) :
                   k < Slots /\ UsedBytes(SubSeq(slots, 1, k)) + NameLen[name] <= Bytes}
<1>1. Len(slots) \in Nat /\ slots \in Seq(Slot)
  BY DEF Unique
<1>2. 0 \in S
  <2>1. SubSeq(slots, 1, 0) = <<>>
    BY SubSeqEmpty
  <2>2. NameBytes(<<>>) = {}
    BY DEF NameBytes
  <2>3. UsedBytes(SubSeq(slots, 1, 0)) = 0
    BY <2>1, <2>2, FS_EmptySet DEF UsedBytes
  <2>4. 0 < Slots /\ NameLen[name] \in Nat /\ NameLen[name] <= Bytes
    BY TableAssumption
  <2> QED
    BY <1>1, <2>3, <2>4
<1>3. Max(S) \in S
  BY <1>1, <1>2, MaxInRange
<1>4. Kept(slots, name) = Max(S)
  BY DEF Kept
<1> QED
  BY <1>3, <1>4

\* Files of the host that entries have been saved in, or what has been set.
Saved == UNION {[D -> Contents] : D \in SUBSET Cnids}

LEMMA SavedFacts ==
  ASSUME NEW f \in Saved
  PROVE  DOMAIN f \in SUBSET Cnids /\ (\A c \in DOMAIN f : f[c] \in Contents)
  BY DEF Saved

Evicted(slots, k, c) == \E i \in 1 .. Len(slots) : i > k /\ slots[i].dirty /\ slots[i].cnid = c

LEMMA SpillFacts ==
  ASSUME NEW slots, Unique(slots), NEW k \in 0 .. Len(slots), NEW spilled \in Saved
  PROVE  /\ Spill(slots, k, spilled) \in Saved
         /\ \A c : c \in DOMAIN Spill(slots, k, spilled) <=> c \in DOMAIN spilled \/ Evicted(slots, k, c)
         /\ \A c \in DOMAIN spilled :
              ~Evicted(slots, k, c) => Spill(slots, k, spilled)[c] = spilled[c]
         /\ \A i \in 1 .. Len(slots) :
              i > k /\ slots[i].dirty => Spill(slots, k, spilled)[slots[i].cnid] = Content(slots[i])
<1> DEFINE saved == {i \in k + 1 .. Len(slots) : slots[i].dirty}
           ids   == {slots[i].cnid : i \in saved}
           found(c) == slots[CHOOSE i \in saved : slots[i].cnid = c]
           new   == [c \in ids \cup DOMAIN spilled |-> IF c \in ids THEN Content(found(c)) ELSE spilled[c]]
<1>1. Len(slots) \in Nat /\ k \in Nat
  BY UniqueFacts
<1>2. saved = {i \in 1 .. Len(slots) : i > k /\ slots[i].dirty}
  BY <1>1
<1>3. \A c : c \in ids <=> Evicted(slots, k, c)
  BY <1>2 DEF Evicted
<1>4. ids \in SUBSET Cnids
  BY <1>2, UniqueFacts
<1>5. ASSUME NEW i \in saved
      PROVE  (CHOOSE j \in saved : slots[j].cnid = slots[i].cnid) = i
  <2>1. \A j \in saved : slots[j].cnid = slots[i].cnid => j = i
    BY <1>2 DEF Unique
  <2> QED
    BY <2>1
<1>6. \A i \in saved : found(slots[i].cnid) = slots[i]
  BY <1>5
<1> HIDE DEF found
<1>7. \A c \in ids : Content(found(c)) \in Contents
  BY <1>2, <1>6, UniqueFacts
<1>8. DOMAIN spilled \in SUBSET Cnids /\ \A c \in DOMAIN spilled : spilled[c] \in Contents
  BY SavedFacts
<1>9. new \in [ids \cup DOMAIN spilled -> Contents]
  BY <1>7, <1>8
<1>10. new \in Saved
  <2>1. ids \cup DOMAIN spilled \in SUBSET Cnids
    BY <1>4, <1>8
  <2> HIDE DEF new
  <2> QED
    BY <1>9, <2>1 DEF Saved
<1>11. \A i \in 1 .. Len(slots) : i > k /\ slots[i].dirty => new[slots[i].cnid] = Content(slots[i])
  BY <1>2, <1>6
<1>12. /\ DOMAIN new = ids \cup DOMAIN spilled
       /\ \A c \in DOMAIN spilled : c \notin ids => new[c] = spilled[c]
  OBVIOUS
<1>13. Spill(slots, k, spilled) = new
  BY DEF Spill, found
<1> HIDE DEF new, ids, saved
<1> QED
  BY <1>3, <1>10, <1>11, <1>12, <1>13

(***************************************************************************)
(* An entry comes among those that stay, wherever it is put.               *)
(***************************************************************************)
Merged(merged, slots, k, e) ==
  /\ Unique(merged) /\ Len(merged) = k + 1
  /\ \A j \in 1 .. k + 1 : merged[j] = e \/ \E i \in 1 .. k : merged[j] = slots[i]
  /\ \A i \in 1 .. k : \E j \in 1 .. k + 1 : merged[j] = slots[i]
  /\ \E j \in 1 .. k + 1 : merged[j] = e

LEMMA InsertMerges ==
  ASSUME NEW slots, Unique(slots), NEW k \in 0 .. Len(slots), NEW p \in 1 .. k + 1, NEW e \in Slot,
         \A i \in 1 .. k : slots[i].cnid # e.cnid
  PROVE  Merged(InsertAt(SubSeq(slots, 1, k), p, e), slots, k, e)
<1> DEFINE cut == SubSeq(slots, 1, k)
           new == InsertAt(cut, p, e)
<1>1. slots \in Seq(Slot) /\ Len(slots) \in Nat /\ k \in Nat
  BY DEF Unique
<1>2. cut \in Seq(Slot) /\ Len(cut) = k /\ \A i \in 1 .. k : cut[i] = slots[i]
  BY <1>1, CutFacts
<1> HIDE DEF cut
<1>3. /\ new \in Seq(Slot) /\ Len(new) = k + 1
      /\ \A i \in 1 .. k + 1 : new[i] = IF i < p THEN cut[i] ELSE IF i = p THEN e ELSE cut[i - 1]
  <2>1. p \in 1 .. Len(cut) + 1
    BY <1>2
  <2>2. /\ new \in Seq(Slot) /\ Len(new) = Len(cut) + 1
        /\ \A i \in 1 .. Len(cut) + 1 :
             new[i] = IF i < p THEN cut[i] ELSE IF i = p THEN e ELSE cut[i - 1]
    <3> HIDE DEF new
    <3>1. cut \in Seq(Slot) /\ e \in Slot
      BY <1>2
    <3>2. new = InsertAt(cut, p, e)
      BY DEF new
    <3>3. InsertAt(cut, p, e) \in Seq(Slot)
      BY <2>1, <3>1, InsertFacts
    <3>4. Len(InsertAt(cut, p, e)) = Len(cut) + 1
      BY <2>1, <3>1, InsertFacts
    <3>5. \A i \in 1 .. Len(cut) + 1 :
            InsertAt(cut, p, e)[i] = IF i < p THEN cut[i] ELSE IF i = p THEN e ELSE cut[i - 1]
      BY <2>1, <3>1, InsertFacts
    <3> QED
      BY <3>2, <3>3, <3>4, <3>5
  <2> QED
    BY <1>2, <2>2
<1> HIDE DEF new
<1>4. \A i \in 1 .. k + 1 : /\ i < p => i \in 1 .. k /\ new[i] = slots[i]
                            /\ i = p => new[i] = e
                            /\ i > p => i - 1 \in 1 .. k /\ new[i] = slots[i - 1]
  BY <1>1, <1>2, <1>3
<1>5. Unique(new)
  <2>1. \A i, j \in 1 .. k : slots[i].cnid = slots[j].cnid => i = j
    BY <1>1 DEF Unique
  <2>2. ASSUME NEW i \in 1 .. k + 1, NEW j \in 1 .. k + 1, i < j
        PROVE  new[i].cnid # new[j].cnid
    <3>1. CASE j < p
      BY <1>1, <1>4, <2>1, <2>2, <3>1
    <3>2. CASE j = p
      BY <1>1, <1>4, <2>2, <3>2
    <3>3. CASE j > p /\ i < p
      BY <1>1, <1>4, <2>1, <2>2, <3>3
    <3>4. CASE j > p /\ i = p
      BY <1>1, <1>4, <2>2, <3>4
    <3>5. CASE j > p /\ i > p
      <4>1. i - 1 \in 1 .. k /\ j - 1 \in 1 .. k /\ i - 1 # j - 1
        BY <1>1, <2>2, <3>5
      <4>2. new[i] = slots[i - 1] /\ new[j] = slots[j - 1]
        BY <1>4, <3>5
      <4> QED
        BY <2>1, <4>1, <4>2
    <3> QED
      BY <1>1, <3>1, <3>2, <3>3, <3>4, <3>5
  <2> QED
    BY <1>1, <1>3, <2>2 DEF Unique
<1>6. ASSUME NEW i \in 1 .. k
      PROVE  \E j \in 1 .. k + 1 : new[j] = slots[i]
  <2>1. CASE i < p
    BY <1>1, <1>4, <2>1
  <2>2. CASE i >= p
    <3>1. i + 1 \in 1 .. k + 1 /\ i + 1 > p /\ (i + 1) - 1 = i
      BY <1>1, <2>2
    <3> QED
      BY <1>4, <3>1
  <2> QED
    BY <1>1, <2>1, <2>2
<1>7. p \in 1 .. k + 1 /\ new[p] = e
  BY <1>4
<1>8. \A j \in 1 .. k + 1 : new[j] = e \/ \E i \in 1 .. k : new[j] = slots[i]
  BY <1>1, <1>4
<1>9. Merged(new, slots, k, e)
  BY <1>3, <1>5, <1>6, <1>7, <1>8 DEF Merged
<1> QED
  BY <1>9 DEF new, cut

LEMMA BubbleFacts ==
  ASSUME NEW slots, Unique(slots), NEW n \in 1 .. Len(slots)
  PROVE  /\ Unique(bubbleUp(slots, n)) /\ Len(bubbleUp(slots, n)) = Len(slots)
         /\ \A i \in 1 .. Len(slots) : \E j \in 1 .. Len(slots) : bubbleUp(slots, n)[j] = slots[i]
         /\ \A j \in 1 .. Len(slots) : \E i \in 1 .. Len(slots) : bubbleUp(slots, n)[j] = slots[i]
<1>1. slots \in Seq(Slot) /\ Len(slots) \in Nat
  BY DEF Unique
<1>2. CASE n = 1
  BY <1>1, <1>2 DEF bubbleUp
<1>3. CASE n # 1
  <2> DEFINE new == [slots EXCEPT ![n] = slots[n - 1], ![n - 1] = slots[n]]
  <2>1. n - 1 \in 1 .. Len(slots) /\ n - 1 # n
    BY <1>1, <1>3
  <2>2. /\ new \in Seq(Slot) /\ Len(new) = Len(slots)
        /\ new[n] = slots[n - 1] /\ new[n - 1] = slots[n]
        /\ \A i \in 1 .. Len(slots) : i # n /\ i # n - 1 => new[i] = slots[i]
    BY <1>1, <2>1
  <2>3. bubbleUp(slots, n) = new
    BY <1>3 DEF bubbleUp
  <2> HIDE DEF new
  <2>4. Unique(new)
    <3>1. \A i, j \in 1 .. Len(slots) : slots[i].cnid = slots[j].cnid => i = j
      BY DEF Unique
    <3>2. \A i \in 1 .. Len(slots) :
            new[i] = slots[IF i = n THEN n - 1 ELSE IF i = n - 1 THEN n ELSE i]
      BY <2>1, <2>2
    <3>3. ASSUME NEW i \in 1 .. Len(slots), NEW j \in 1 .. Len(slots), new[i].cnid = new[j].cnid
          PROVE  i = j
      <4>1. (IF i = n THEN n - 1 ELSE IF i = n - 1 THEN n ELSE i)
              = (IF j = n THEN n - 1 ELSE IF j = n - 1 THEN n ELSE j)
        BY <2>1, <3>1, <3>2, <3>3
      <4> QED
        BY <2>1, <4>1
    <3> QED
      BY <2>2, <3>3 DEF Unique
  <2>5. ASSUME NEW i \in 1 .. Len(slots)
        PROVE  /\ \E j \in 1 .. Len(slots) : new[j] = slots[i]
               /\ \E j \in 1 .. Len(slots) : new[i] = slots[j]
    BY <2>1, <2>2
  <2> QED
    BY <2>2, <2>3, <2>4, <2>5
<1> QED
  BY <1>2, <1>3

LEMMA AppendMerges ==
  ASSUME NEW slots, Unique(slots), NEW k \in 0 .. Len(slots), NEW e \in Slot,
         \A i \in 1 .. k : slots[i].cnid # e.cnid
  PROVE  Merged(bubbleUp(Append(SubSeq(slots, 1, k), e), k + 1), slots, k, e)
<1> DEFINE cut == SubSeq(slots, 1, k)
           new == Append(cut, e)
<1>1. slots \in Seq(Slot) /\ Len(slots) \in Nat /\ k \in Nat
  BY DEF Unique
<1>2. cut \in Seq(Slot) /\ Len(cut) = k /\ \A i \in 1 .. k : cut[i] = slots[i]
  BY <1>1, CutFacts
<1> HIDE DEF cut
<1>3. /\ new \in Seq(Slot) /\ Len(new) = k + 1 /\ new[k + 1] = e
      /\ \A i \in 1 .. k : new[i] = slots[i]
  BY <1>1, <1>2
<1> HIDE DEF new
<1>4. Unique(new)
  <2>1. \A i, j \in 1 .. k : slots[i].cnid = slots[j].cnid => i = j
    BY <1>1 DEF Unique
  <2> QED
    BY <1>1, <1>3, <2>1 DEF Unique
<1> DEFINE up == bubbleUp(new, k + 1)
<1>5. k + 1 \in 1 .. Len(new) /\ Len(new) = k + 1
  BY <1>1, <1>3
<1>6. /\ Unique(up) /\ Len(up) = k + 1
      /\ \A i \in 1 .. k + 1 : \E j \in 1 .. k + 1 : up[j] = new[i]
      /\ \A j \in 1 .. k + 1 : \E i \in 1 .. k + 1 : up[j] = new[i]
  <2>1. /\ Unique(up) /\ Len(up) = Len(new)
        /\ \A i \in 1 .. Len(new) : \E j \in 1 .. Len(new) : up[j] = new[i]
        /\ \A j \in 1 .. Len(new) : \E i \in 1 .. Len(new) : up[j] = new[i]
    BY <1>4, <1>5, BubbleFacts
  <2> QED
    BY <1>5, <2>1
<1> HIDE DEF up
<1>7. ASSUME NEW j \in 1 .. k + 1
      PROVE  up[j] = e \/ \E i \in 1 .. k : up[j] = slots[i]
  <2>1. PICK i \in 1 .. k + 1 : up[j] = new[i]
    BY <1>6
  <2>2. i = k + 1 \/ i \in 1 .. k
    BY <1>1
  <2> QED
    BY <1>3, <2>1, <2>2
<1>8. \A i \in 1 .. k : \E j \in 1 .. k + 1 : up[j] = slots[i]
  BY <1>1, <1>3, <1>6
<1>9. \E j \in 1 .. k + 1 : up[j] = e
  BY <1>1, <1>3, <1>6
<1>10. Merged(up, slots, k, e)
  BY <1>6, <1>7, <1>8, <1>9 DEF Merged
<1> QED
  BY <1>10 DEF up, new, cut

(***************************************************************************)
(* The invariant of a table.                                               *)
(***************************************************************************)
Table == [slots : Seq(Slot), spilled : Saved, last : Saved, lost : SUBSET Cnids]

\* A clean entry is in its file as it is, but for a name that is lost sight of.
CleanSaved(t) ==
  \A i \in 1 .. Len(t.slots) :
    ~t.slots[i].dirty /\ t.slots[i].cnid \notin t.lost =>
      /\ t.slots[i].cnid \in DOMAIN t.spilled
      /\ t.spilled[t.slots[i].cnid] = Content(t.slots[i])

LastKept(t) == \A c \in DOMAIN t.last \ t.lost : Remembers(t, c)

\* Nothing is known that was not set.
OnlySet(t) ==
  /\ DOMAIN t.spilled \subseteq DOMAIN t.last
  /\ \A i \in 1 .. Len(t.slots) : t.slots[i].cnid \in DOMAIN t.last

TableInv(t) ==
  /\ t \in Table /\ Unique(t.slots)
  /\ Len(t.slots) <= Slots /\ UsedBytes(t.slots) <= Bytes
  /\ LastKept(t) /\ CleanSaved(t) /\ OnlySet(t)

LEMMA TableFacts ==
  ASSUME NEW t, TableInv(t)
  PROVE  /\ Unique(t.slots) /\ t.slots \in Seq(Slot) /\ Len(t.slots) \in Nat
         /\ t.spilled \in Saved /\ t.last \in Saved /\ t.lost \in SUBSET Cnids
         /\ t = [slots |-> t.slots, spilled |-> t.spilled, last |-> t.last, lost |-> t.lost]
         /\ LastKept(t) /\ CleanSaved(t) /\ OnlySet(t)
  BY DEF TableInv, Table

\* What CatalogGet finds is of the type of an entry.
LEMMA EntryFacts ==
  ASSUME NEW t, TableInv(t), NEW c, Known(t, c)
  PROVE  /\ c \in Cnids /\ Entry(t, c) \in Contents
         /\ Entry(t, c).parent \in Cnids \cup {Root} /\ Entry(t, c).name \in Names
<1>1. Unique(t.slots) /\ t.spilled \in Saved
  BY TableFacts
<1>2. CASE Cached(c, t)
  <2>1. PICK i \in 1 .. Len(t.slots) : t.slots[i].cnid = c
    BY <1>1, <1>2, CachedFacts
  <2>2. Entry(t, c) = Content(t.slots[i])
    BY <1>1, <2>1, CachedFacts
  <2>3. c \in Cnids /\ Entry(t, c) \in Contents
    BY <1>1, <2>1, <2>2, UniqueFacts
  <2> QED
    BY <2>3 DEF Contents
<1>3. CASE ~Cached(c, t)
  <2>1. c \in DOMAIN t.spilled /\ Entry(t, c) = t.spilled[c]
    BY <1>1, <1>3, CachedFacts
  <2>2. c \in Cnids /\ Entry(t, c) \in Contents
    BY <1>1, <2>1, SavedFacts
  <2> QED
    BY <2>2 DEF Contents
<1> QED
  BY <1>2, <1>3

\* The entries but that of c.
AllBut(others, slots, c) ==
  /\ Unique(others)
  /\ \A i \in 1 .. Len(others) :
       others[i].cnid # c /\ \E j \in 1 .. Len(slots) : others[i] = slots[j]
  /\ \A j \in 1 .. Len(slots) :
       slots[j].cnid # c => \E i \in 1 .. Len(others) : others[i] = slots[j]

\* However an entry comes in, the others are there or in their files, and so is
\* all that was set.
LEMMA EntryComes ==
  ASSUME NEW t, TableInv(t), NEW c \in Cnids,
         NEW others, AllBut(others, t.slots, c), NEW k \in 0 .. Len(others), k < Slots,
         NEW e \in Slot, e.cnid = c, UsedBytes(SubSeq(others, 1, k)) + NameLen[e.name] <= Bytes,
         NEW merged, Merged(merged, others, k, e),
         NEW last \in Saved, NEW lost \in SUBSET Cnids,
         \A d \in Cnids : d # c => /\ d \in DOMAIN last <=> d \in DOMAIN t.last
                                   /\ d \in DOMAIN t.last => last[d] = t.last[d]
                                   /\ d \in lost <=> d \in t.lost,
         c \in DOMAIN last, c \notin lost => last[c] = Content(e),
         ~e.dirty /\ c \notin lost => c \in DOMAIN t.spilled /\ t.spilled[c] = Content(e)
  PROVE  TableInv([slots |-> merged, spilled |-> Spill(others, k, t.spilled),
                   last |-> last, lost |-> lost])
<1> DEFINE spilled == Spill(others, k, t.spilled)
           new == [slots |-> merged, spilled |-> spilled, last |-> last, lost |-> lost]
<1>1. Unique(others) /\ Unique(merged) /\ Unique(t.slots) /\ t.spilled \in Saved /\ t.last \in Saved
  BY TableFacts DEF AllBut, Merged
<1>2. Len(others) \in Nat /\ k \in Nat /\ Len(merged) = k + 1
  BY <1>1, UniqueFacts DEF Merged
<1>3. spilled \in Saved
  BY <1>1, SpillFacts
<1>4. /\ \A d : d \in DOMAIN spilled <=> d \in DOMAIN t.spilled \/ Evicted(others, k, d)
      /\ \A d \in DOMAIN t.spilled : ~Evicted(others, k, d) => spilled[d] = t.spilled[d]
      /\ \A i \in 1 .. Len(others) :
           i > k /\ others[i].dirty => spilled[others[i].cnid] = Content(others[i])
  BY <1>1, SpillFacts
<1> HIDE DEF spilled
<1>5. ~Evicted(others, k, c)
  BY DEF Evicted, AllBut
<1>6. \A i \in 1 .. k : ~Evicted(others, k, others[i].cnid)
  BY <1>1, <1>2 DEF Evicted, Unique
<1>7. new \in Table
  BY <1>1, <1>3 DEF Table, Unique
<1>8. Len(merged) <= Slots
  BY <1>2, TableAssumption
<1>9. UsedBytes(merged) <= Bytes
  <2> DEFINE cut == SubSeq(others, 1, k)
  <2>1. Unique(cut)
    BY <1>1, CutUnique
  <2>2. Len(cut) = k /\ \A i \in 1 .. k : cut[i] = others[i]
    BY <1>1, CutFacts DEF Unique
  <2>3. UsedBytes(cut) + NameLen[e.name] <= Bytes
    OBVIOUS
  <2> HIDE DEF cut
  <2>4. UsedBytes(merged) <= UsedBytes(cut) + NameLen[e.name]
    <3>1. ASSUME NEW j \in 1 .. Len(merged), merged[j] # e
          PROVE  \E i \in 1 .. Len(cut) : merged[j] = cut[i]
      <4>1. PICK i \in 1 .. k : merged[j] = others[i]
        BY <1>2, <3>1 DEF Merged
      <4> QED
        BY <2>2, <4>1
    <3> QED
      BY <1>1, <2>1, <3>1, BytesOfMerged
  <2>5. UsedBytes(merged) \in Nat /\ UsedBytes(cut) \in Nat /\ NameLen[e.name] \in Nat /\ Bytes \in Nat
    BY <1>1, <2>1, NameBytesFinite, TableAssumption DEF Slot
  <2> QED
    BY <2>3, <2>4, <2>5
<1>10. new.slots = merged /\ new.spilled = spilled /\ new.last = last /\ new.lost = lost
  OBVIOUS
<1> HIDE DEF new
<1>11. PICK p \in 1 .. Len(merged) : merged[p] = e
  BY <1>2 DEF Merged
<1>12. LastKept(new)
  <2> SUFFICES ASSUME NEW d \in DOMAIN last \ lost
               PROVE  Remembers(new, d)
    BY <1>10 DEF LastKept
  <2>1. d \in Cnids
    BY SavedFacts
  <2>2. CASE d = c
    <3>1. Known(new, d) /\ Entry(new, d) = Content(e)
      BY <1>1, <1>10, <1>11, <2>2, CachedFacts
    <3> QED
      BY <1>10, <2>2, <3>1 DEF Remembers
  <2>3. CASE d # c
    <3>1. d \in DOMAIN t.last \ t.lost /\ last[d] = t.last[d]
      BY <2>1, <2>3
    <3>2. Known(t, d) /\ Entry(t, d) = t.last[d]
      BY <3>1, TableFacts DEF LastKept, Remembers
    <3>3. CASE \E j \in 1 .. Len(t.slots) : t.slots[j].cnid = d
      <4>1. PICK j \in 1 .. Len(t.slots) : t.slots[j].cnid = d
        BY <3>3
      <4>2. Entry(t, d) = Content(t.slots[j])
        BY <1>1, <4>1, CachedFacts
      <4>3. PICK i \in 1 .. Len(others) : others[i] = t.slots[j]
        BY <2>3, <4>1 DEF AllBut
      <4>4. CASE i <= k
        <5>1. i \in 1 .. k
          BY <1>2, <4>4
        <5>2. PICK m \in 1 .. Len(merged) : merged[m] = others[i]
          BY <1>2, <5>1 DEF Merged
        <5>3. Known(new, d) /\ Entry(new, d) = Content(merged[m])
          BY <1>1, <1>10, <4>1, <4>3, <5>2, CachedFacts
        <5> QED
          BY <1>10, <3>1, <3>2, <4>2, <4>3, <5>2, <5>3 DEF Remembers
      <4>5. CASE i > k
        <5>1. ~ \E m \in 1 .. Len(merged) : merged[m].cnid = d
          <6> SUFFICES ASSUME NEW m \in 1 .. Len(merged), merged[m].cnid = d
                       PROVE  FALSE
            OBVIOUS
          <6>1. PICK n \in 1 .. k : merged[m] = others[n]
            BY <1>2, <2>3 DEF Merged
          <6>2. n \in 1 .. Len(others) /\ others[n].cnid = others[i].cnid
            BY <1>2, <4>1, <4>3, <6>1
          <6>3. n = i
            BY <1>1, <6>2 DEF Unique
          <6> QED
            BY <1>2, <4>5, <6>3
        <5>2. ~Cached(d, new)
          BY <1>1, <1>10, <5>1, CachedFacts
        <5>3. d \in DOMAIN spilled /\ spilled[d] = Content(others[i])
          <6>1. CASE others[i].dirty
            BY <1>4, <4>1, <4>3, <4>5, <6>1 DEF Evicted
          <6>2. CASE ~others[i].dirty
            <7>1. d \in DOMAIN t.spilled /\ t.spilled[d] = Content(t.slots[j])
              BY <3>1, <4>1, <4>3, <6>2, TableFacts DEF CleanSaved
            <7>2. ~Evicted(others, k, d)
              BY <1>1, <4>1, <4>3, <6>2 DEF Evicted, Unique
            <7> QED
              BY <1>4, <4>3, <7>1, <7>2
          <6> QED
            BY <6>1, <6>2
        <5>4. Known(new, d) /\ Entry(new, d) = spilled[d]
          BY <1>1, <1>10, <5>2, <5>3, CachedFacts
        <5> QED
          BY <1>10, <3>1, <3>2, <4>2, <4>3, <5>3, <5>4 DEF Remembers
      <4> QED
        BY <1>2, <4>4, <4>5
    <3>4. CASE ~ \E j \in 1 .. Len(t.slots) : t.slots[j].cnid = d
      <4>1. d \in DOMAIN t.spilled /\ Entry(t, d) = t.spilled[d]
        BY <1>1, <3>2, <3>4, CachedFacts
      <4>2. ASSUME NEW i \in 1 .. Len(others)
            PROVE  others[i].cnid # d
        <5>1. PICK j \in 1 .. Len(t.slots) : others[i] = t.slots[j]
          BY DEF AllBut
        <5> QED
          BY <3>4, <5>1
      <4>3. ~Evicted(others, k, d)
        BY <4>2 DEF Evicted
      <4>4. ~ \E m \in 1 .. Len(merged) : merged[m].cnid = d
        BY <1>2, <2>3, <4>2 DEF Merged
      <4>5. ~Cached(d, new)
        BY <1>1, <1>10, <4>4, CachedFacts
      <4>6. Known(new, d) /\ Entry(new, d) = spilled[d]
        BY <1>1, <1>4, <1>10, <4>1, <4>5, CachedFacts
      <4> QED
        BY <1>4, <1>10, <3>1, <3>2, <4>1, <4>3, <4>6 DEF Remembers
    <3> QED
      BY <3>3, <3>4
  <2> QED
    BY <2>2, <2>3
<1>13. CleanSaved(new)
  <2> SUFFICES ASSUME NEW m \in 1 .. Len(merged), ~merged[m].dirty, merged[m].cnid \notin lost
               PROVE  /\ merged[m].cnid \in DOMAIN spilled
                      /\ spilled[merged[m].cnid] = Content(merged[m])
    BY <1>10 DEF CleanSaved
  <2>1. CASE merged[m] = e
    BY <1>4, <1>5, <2>1
  <2>2. CASE merged[m] # e
    <3>1. PICK i \in 1 .. k : merged[m] = others[i]
      BY <1>2, <2>2 DEF Merged
    <3>2. i \in 1 .. Len(others)
      BY <1>2
    <3>3. others[i].cnid # c /\ others[i].cnid \in Cnids
      BY <1>1, <3>2, UniqueFacts DEF AllBut
    <3>4. PICK j \in 1 .. Len(t.slots) : others[i] = t.slots[j]
      BY <3>2 DEF AllBut
    <3>5. others[i].cnid \notin t.lost
      BY <3>1, <3>3
    <3>6. /\ others[i].cnid \in DOMAIN t.spilled
          /\ t.spilled[others[i].cnid] = Content(others[i])
      BY <3>1, <3>4, <3>5, TableFacts DEF CleanSaved
    <3> QED
      BY <1>4, <1>6, <3>1, <3>6
  <2> QED
    BY <2>1, <2>2
<1>14. \A i \in 1 .. Len(others) : others[i].cnid \in DOMAIN last
  <2> SUFFICES ASSUME NEW i \in 1 .. Len(others)
               PROVE  others[i].cnid \in DOMAIN last
    OBVIOUS
  <2>1. PICK j \in 1 .. Len(t.slots) : others[i] = t.slots[j]
    BY DEF AllBut
  <2>2. others[i].cnid \in DOMAIN t.last /\ others[i].cnid \in Cnids /\ others[i].cnid # c
    BY <1>1, <2>1, TableFacts, UniqueFacts DEF OnlySet, AllBut
  <2> QED
    BY <2>2
<1>15. OnlySet(new)
  <2>1. ASSUME NEW d \in DOMAIN spilled PROVE d \in DOMAIN last
    <3>1. d \in Cnids
      BY <1>3, SavedFacts
    <3>2. CASE d = c
      BY <3>2
    <3>3. CASE d \in DOMAIN t.spilled /\ d # c
      BY <3>1, <3>3, TableFacts DEF OnlySet
    <3>4. CASE Evicted(others, k, d)
      BY <1>14, <3>4 DEF Evicted
    <3> QED
      BY <1>4, <3>2, <3>3, <3>4
  <2>2. ASSUME NEW m \in 1 .. Len(merged) PROVE merged[m].cnid \in DOMAIN last
    <3>1. merged[m] = e \/ \E i \in 1 .. k : merged[m] = others[i]
      BY <1>2 DEF Merged
    <3> QED
      BY <1>2, <1>14, <3>1
  <2> QED
    BY <1>10, <2>1, <2>2 DEF OnlySet
<1>16. TableInv(new)
  BY <1>1, <1>7, <1>8, <1>9, <1>10, <1>12, <1>13, <1>15 DEF TableInv
<1> QED
  BY <1>16 DEF new, spilled

(***************************************************************************)
(* The calls keep the invariant.                                           *)
(***************************************************************************)
LEMMA OthersFacts ==
  ASSUME NEW t, TableInv(t), NEW c \in Cnids
  PROVE  AllBut(Others(t, c), t.slots, c)
<1> DEFINE others == Others(t, c)
           n == Len(t.slots)
<1>1. Unique(t.slots) /\ t.slots \in Seq(Slot) /\ n \in Nat
  BY TableFacts
<1>2. CASE Cached(c, t)
  <2>1. PICK p \in 1 .. n : t.slots[p].cnid = c
    BY <1>1, <1>2, CachedFacts
  <2>2. whichSlot(c, t.slots) = p /\ Entry(t, c) = Content(t.slots[p])
    BY <1>1, <2>1, CachedFacts
  <2>3. others = RemoveAt(t.slots, p)
    BY <1>2, <2>2 DEF Others
  <2>4. /\ others \in Seq(Slot) /\ Len(others) = n - 1
        /\ \A i \in 1 .. n - 1 : others[i] = IF i < p THEN t.slots[i] ELSE t.slots[i + 1]
    BY <1>1, <2>3, RemoveFacts
  <2> HIDE DEF others
  <2>5. ASSUME NEW i \in 1 .. n - 1
        PROVE  \E j \in 1 .. n : j # p /\ j = (IF i < p THEN i ELSE i + 1) /\ others[i] = t.slots[j]
    <3>1. CASE i < p
      BY <1>1, <2>4, <3>1
    <3>2. CASE i >= p
      BY <1>1, <2>4, <3>2
    <3> QED
      BY <1>1, <3>1, <3>2
  <2>6. Unique(others)
    <3> SUFFICES ASSUME NEW i \in 1 .. n - 1, NEW j \in 1 .. n - 1, others[i].cnid = others[j].cnid
                 PROVE  i = j
      BY <2>4 DEF Unique
    <3>1. PICK a \in 1 .. n : a = (IF i < p THEN i ELSE i + 1) /\ others[i] = t.slots[a]
      BY <2>5
    <3>2. PICK b \in 1 .. n : b = (IF j < p THEN j ELSE j + 1) /\ others[j] = t.slots[b]
      BY <2>5
    <3>3. a = b
      BY <1>1, <3>1, <3>2 DEF Unique
    <3> QED
      BY <1>1, <3>1, <3>2, <3>3
  <2>7. ASSUME NEW i \in 1 .. Len(others)
        PROVE  others[i].cnid # c /\ \E j \in 1 .. n : others[i] = t.slots[j]
    <3>1. PICK j \in 1 .. n : j # p /\ others[i] = t.slots[j]
      BY <2>4, <2>5
    <3> QED
      BY <1>1, <2>1, <3>1 DEF Unique
  <2>8. ASSUME NEW j \in 1 .. n, t.slots[j].cnid # c
        PROVE  \E i \in 1 .. Len(others) : others[i] = t.slots[j]
    <3>1. CASE j < p
      <4>1. j \in 1 .. n - 1 /\ others[j] = t.slots[j]
        BY <1>1, <2>4, <3>1
      <4> QED
        BY <2>4, <4>1
    <3>2. CASE j > p
      <4>1. j - 1 \in 1 .. n - 1 /\ ~(j - 1 < p) /\ (j - 1) + 1 = j
        BY <1>1, <3>2
      <4>2. others[j - 1] = t.slots[j]
        BY <2>4, <4>1
      <4> QED
        BY <2>4, <4>1, <4>2
    <3>3. j # p
      BY <2>1, <2>8
    <3> QED
      BY <1>1, <3>1, <3>2, <3>3
  <2> QED
    BY <2>6, <2>7, <2>8 DEF AllBut, others
<1>3. CASE ~Cached(c, t)
  <2>1. others = t.slots
    BY <1>3 DEF Others
  <2>2. \A i \in 1 .. n : t.slots[i].cnid # c
    BY <1>1, <1>3, CachedFacts
  <2> QED
    BY <1>1, <2>1, <2>2 DEF AllBut
<1> QED
  BY <1>2, <1>3

LEMMA MinOfTwo ==
  ASSUME NEW a \in Nat, NEW b \in Nat
  PROVE  Min({a, b}) = (IF a <= b THEN a ELSE b)
<1>1. CASE a <= b
  <2>1. \A x \in {a, b} : (\A y \in {a, b} : x <= y) <=> x = a
    BY <1>1
  <2> QED
    BY <1>1, <2>1 DEF Min
<1>2. CASE b < a
  <2>1. \A x \in {a, b} : (\A y \in {a, b} : x <= y) <=> x = b
    BY <1>2
  <2> QED
    BY <1>2, <2>1 DEF Min
<1> QED
  BY <1>1, <1>2

LEMMA PutFacts ==
  ASSUME NEW f \in Saved, NEW c \in Cnids, NEW v \in Contents
  PROVE  /\ Put(f, c, v) \in Saved /\ c \in DOMAIN Put(f, c, v) /\ Put(f, c, v)[c] = v
         /\ \A d \in Cnids : d # c => /\ d \in DOMAIN Put(f, c, v) <=> d \in DOMAIN f
                                      /\ d \in DOMAIN f => Put(f, c, v)[d] = f[d]
<1>1. DOMAIN f \in SUBSET Cnids /\ \A d \in DOMAIN f : f[d] \in Contents
  BY SavedFacts
<1>2. DOMAIN f \cup {c} \in SUBSET Cnids /\ Put(f, c, v) \in [DOMAIN f \cup {c} -> Contents]
  BY <1>1 DEF Put
<1>3. Put(f, c, v) \in Saved
  BY <1>2 DEF Saved
<1> QED
  BY <1>3 DEF Put

LEMMA SetKeeps ==
  ASSUME NEW t, TableInv(t), NEW c \in Cnids, NEW parent \in Cnids \cup {Root}, NEW name \in Names
  PROVE  TableInv(CatalogSet(t, c, parent, name))
<1> DEFINE others == Others(t, c)
           k == Kept(others, name)
           old == t.slots[whichSlot(c, t.slots)]
           dirty == Cached(c, t) => Dirtied(old, parent)
           e == [cnid |-> c, parent |-> parent, name |-> name, dirty |-> dirty]
           merged == Insert(others, k, t, e)
           last == Put(t.last, c, Content(e))
           lost == Losing(t, e)
<1>1. /\ Unique(t.slots) /\ t.slots \in Seq(Slot) /\ Len(t.slots) \in Nat /\ t.spilled \in Saved
      /\ t.last \in Saved /\ t.lost \in SUBSET Cnids
  BY TableFacts
<1>2. AllBut(others, t.slots, c)
  BY OthersFacts
<1>3. CatalogSet(t, c, parent, name)
        = [slots |-> merged, spilled |-> Spill(others, k, t.spilled), last |-> last, lost |-> lost]
  BY DEF CatalogSet, WithEntry
<1> HIDE DEF others
<1>4. /\ Unique(others) /\ Len(others) \in Nat
      /\ \A i \in 1 .. Len(others) : others[i].cnid # c
  BY <1>2, UniqueFacts DEF AllBut
<1>5. /\ k \in 0 .. Len(others) /\ k < Slots
      /\ UsedBytes(SubSeq(others, 1, k)) + NameLen[name] <= Bytes
  BY <1>4, KeptFacts
<1>6. /\ dirty \in BOOLEAN
      /\ ~dirty => Cached(c, t) /\ ~old.dirty /\ old.parent = parent
  BY DEF Dirtied
<1> HIDE DEF k, dirty
<1>7. e \in Slot /\ e.cnid = c /\ e.name = name /\ e.dirty = dirty /\ e.parent = parent
  BY <1>6 DEF Slot
<1>8. Content(e) \in Contents
  BY <1>7, SlotFacts
<1> HIDE DEF e
<1>9. Merged(merged, others, k, e)
  <2>1. CASE Cached(c, t)
    <3>1. PICK p \in 1 .. Len(t.slots) : t.slots[p].cnid = c
      BY <1>1, <2>1, CachedFacts
    <3>2. whichSlot(c, t.slots) = p
      BY <1>1, <3>1, CachedFacts
    <3> DEFINE m == IF p <= k + 1 THEN p ELSE k + 1
    <3>3. m \in 1 .. k + 1 /\ p \in Nat /\ k + 1 \in Nat
      BY <1>4, <1>5
    <3>4. Min({p, k + 1}) = m
      BY <3>3, MinOfTwo
    <3> HIDE DEF m
    <3>5. merged = InsertAt(SubSeq(others, 1, k), m, e)
      BY <1>7, <2>1, <3>2, <3>4 DEF Insert
    <3>6. \A i \in 1 .. k : others[i].cnid # e.cnid
      BY <1>4, <1>5, <1>7
    <3> HIDE DEF merged
    <3> QED
      BY <1>4, <1>5, <1>7, <3>3, <3>5, <3>6, InsertMerges
  <2>2. CASE ~Cached(c, t)
    <3>1. merged = InsertAt(SubSeq(others, 1, k), k + 1, e)
      BY <1>7, <2>2 DEF Insert
    <3>2. k + 1 \in 1 .. k + 1 /\ \A i \in 1 .. k : others[i].cnid # e.cnid
      BY <1>4, <1>5, <1>7
    <3> HIDE DEF merged
    <3> QED
      BY <1>4, <1>5, <1>7, <3>1, <3>2, InsertMerges
  <2> QED
    BY <2>1, <2>2
<1>10. /\ last \in Saved /\ c \in DOMAIN last /\ last[c] = Content(e)
       /\ \A d \in Cnids : d # c => /\ d \in DOMAIN last <=> d \in DOMAIN t.last
                                    /\ d \in DOMAIN t.last => last[d] = t.last[d]
  BY <1>1, <1>8, PutFacts
<1>11. /\ lost \in SUBSET Cnids
       /\ \A d \in Cnids : d # c => (d \in lost <=> d \in t.lost)
       /\ ~dirty /\ c \notin lost => c \notin t.lost /\ Entry(t, c).name = name
  BY <1>1, <1>7 DEF Losing
<1> HIDE DEF last, lost, merged
<1>12. ASSUME ~dirty, c \notin lost
       PROVE  c \in DOMAIN t.spilled /\ t.spilled[c] = Content(e)
  <2>1. PICK p \in 1 .. Len(t.slots) : t.slots[p].cnid = c
    BY <1>1, <1>6, <1>12, CachedFacts
  <2>2. old = t.slots[p] /\ Entry(t, c) = Content(t.slots[p])
    <3>1. whichSlot(c, t.slots) = p /\ Entry(t, c) = Content(t.slots[p])
      BY <1>1, <2>1, CachedFacts
    <3> QED
      BY <3>1
  <2>3. c \notin t.lost /\ ~t.slots[p].dirty /\ Content(t.slots[p]) = Content(e)
    BY <1>6, <1>7, <1>11, <1>12, <2>2 DEF Content
  <2> QED
    BY <2>1, <2>3, TableFacts DEF CleanSaved
<1>13. TableInv([slots |-> merged, spilled |-> Spill(others, k, t.spilled),
                 last |-> last, lost |-> lost])
  BY <1>2, <1>5, <1>7, <1>9, <1>10, <1>11, <1>12, EntryComes
<1> QED
  BY <1>3, <1>13

LEMMA GetKeeps ==
  ASSUME NEW t, TableInv(t), NEW c
  PROVE  TableInv(CatalogGet(t, c))
<1> DEFINE n == Len(t.slots)
<1>1. /\ Unique(t.slots) /\ t.slots \in Seq(Slot) /\ n \in Nat /\ t.spilled \in Saved
      /\ t.last \in Saved /\ t.lost \in SUBSET Cnids /\ LastKept(t) /\ CleanSaved(t) /\ OnlySet(t)
  BY TableFacts
<1>2. CASE Cached(c, t)
  <2>1. PICK p \in 1 .. n : t.slots[p].cnid = c
    BY <1>1, <1>2, CachedFacts
  <2>2. whichSlot(c, t.slots) = p
    BY <1>1, <2>1, CachedFacts
  <2> DEFINE up == bubbleUp(t.slots, p)
             new == [t EXCEPT !.slots = up]
  <2>3. CatalogGet(t, c) = new
    BY <1>2, <2>2 DEF CatalogGet
  <2>4. /\ Unique(up) /\ Len(up) = n
        /\ \A i \in 1 .. n : \E j \in 1 .. n : up[j] = t.slots[i]
        /\ \A j \in 1 .. n : \E i \in 1 .. n : up[j] = t.slots[i]
    BY <1>1, BubbleFacts
  <2> HIDE DEF up
  <2>5. new.slots = up /\ new.spilled = t.spilled /\ new.last = t.last /\ new.lost = t.lost
    BY TableFacts
  <2>6. new \in Table
    <3>1. up \in Seq(Slot)
      BY <2>4 DEF Unique
    <3> QED
      BY <1>1, <3>1, TableFacts DEF Table
  <2> HIDE DEF new
  <2>13. Unique(new.slots) /\ Len(new.slots) = n /\ new.slots = up /\ new.spilled = t.spilled
    BY <2>4, <2>5
  <2>7. Len(up) <= Slots
    BY <2>4 DEF TableInv
  <2>8. UsedBytes(up) <= Bytes
    <3> DEFINE bytes(e) == {e.cnid} \X (1 .. NameLen[e.name])
    <3>1. /\ NameBytes(up) = UNION {bytes(up[j]) : j \in 1 .. n}
          /\ NameBytes(t.slots) = UNION {bytes(t.slots[i]) : i \in 1 .. n}
      BY <1>1, <2>4, UniqueFacts DEF NameBytes
    <3> HIDE DEF bytes
    <3> DEFINE after == {bytes(up[j]) : j \in 1 .. n}
               before == {bytes(t.slots[i]) : i \in 1 .. n}
    <3>2. after = before
      <4>1. ASSUME NEW j \in 1 .. n PROVE bytes(up[j]) \in before
        <5>1. PICK i \in 1 .. n : up[j] = t.slots[i]
          BY <2>4
        <5> QED
          BY <5>1
      <4>2. ASSUME NEW i \in 1 .. n PROVE bytes(t.slots[i]) \in after
        <5>1. PICK j \in 1 .. n : up[j] = t.slots[i]
          BY <2>4
        <5>2. bytes(up[j]) \in after
          OBVIOUS
        <5> QED
          BY <5>1, <5>2
      <4> QED
        BY <4>1, <4>2
    <3>3. NameBytes(up) = NameBytes(t.slots)
      BY <3>1, <3>2
    <3> QED
      BY <3>3 DEF TableInv, UsedBytes
  <2>9. ASSUME NEW d, Known(t, d)
        PROVE  Known(new, d) /\ Entry(new, d) = Entry(t, d)
    <3>1. CASE Cached(d, t)
      <4>1. PICK i \in 1 .. n : t.slots[i].cnid = d
        BY <1>1, <3>1, CachedFacts
      <4>2. PICK j \in 1 .. n : up[j] = t.slots[i]
        BY <2>4
      <4>3. Entry(t, d) = Content(t.slots[i])
        BY <1>1, <4>1, CachedFacts
      <4>4. Known(new, d) /\ Entry(new, d) = Content(up[j])
        <5>1. j \in 1 .. Len(new.slots) /\ new.slots[j].cnid = d
          BY <2>13, <4>1, <4>2
        <5>2. Known(new, d) /\ Entry(new, d) = Content(new.slots[j])
          BY <2>13, <5>1, CachedFacts
        <5> QED
          BY <2>13, <5>2
      <4> QED
        BY <4>2, <4>3, <4>4
    <3>2. CASE ~Cached(d, t)
      <4>1. d \in DOMAIN t.spilled /\ Entry(t, d) = t.spilled[d]
        BY <1>1, <2>9, <3>2, CachedFacts
      <4>2. \A i \in 1 .. n : t.slots[i].cnid # d
        BY <1>1, <3>2, CachedFacts
      <4>3. ASSUME NEW j \in 1 .. n PROVE up[j].cnid # d
        <5>1. PICK i \in 1 .. n : up[j] = t.slots[i]
          BY <2>4
        <5> QED
          BY <4>2, <5>1
      <4>4. ~Cached(d, new)
        <5>1. ~ \E j \in 1 .. Len(new.slots) : new.slots[j].cnid = d
          BY <2>13, <4>3
        <5> QED
          BY <2>13, <5>1, CachedFacts
      <4>5. Known(new, d) /\ Entry(new, d) = t.spilled[d]
        BY <2>13, <4>1, <4>4, CachedFacts
      <4> QED
        BY <4>1, <4>5
    <3> QED
      BY <3>1, <3>2
  <2>10. LastKept(new)
    BY <1>1, <2>5, <2>9 DEF LastKept, Remembers
  <2>11. CleanSaved(new)
    <3> SUFFICES ASSUME NEW j \in 1 .. n, ~up[j].dirty, up[j].cnid \notin t.lost
                 PROVE  up[j].cnid \in DOMAIN t.spilled /\ t.spilled[up[j].cnid] = Content(up[j])
      BY <2>4, <2>5 DEF CleanSaved
    <3>1. PICK i \in 1 .. n : up[j] = t.slots[i]
      BY <2>4
    <3> QED
      BY <1>1, <3>1 DEF CleanSaved
  <2>14. OnlySet(new)
    <3>1. ASSUME NEW j \in 1 .. n PROVE up[j].cnid \in DOMAIN t.last
      <4>1. PICK i \in 1 .. n : up[j] = t.slots[i]
        BY <2>4
      <4> QED
        BY <1>1, <4>1 DEF OnlySet
    <3> QED
      BY <1>1, <2>4, <2>5, <3>1 DEF OnlySet
  <2>12. TableInv(new)
    BY <2>4, <2>5, <2>6, <2>7, <2>8, <2>10, <2>11, <2>14 DEF TableInv
  <2> QED
    BY <2>3, <2>12
<1>3. CASE ~Cached(c, t) /\ Known(t, c)
  <2> DEFINE name == t.spilled[c].name
             k == Kept(t.slots, name)
             e == [cnid |-> c, parent |-> t.spilled[c].parent, name |-> name, dirty |-> FALSE]
             merged == bubbleUp(Append(SubSeq(t.slots, 1, k), e), k + 1)
  <2>1. c \in DOMAIN t.spilled /\ Entry(t, c) = t.spilled[c]
    BY <1>1, <1>3, CachedFacts
  <2>2. c \in Cnids /\ t.spilled[c] \in Contents
    BY <1>1, <2>1, SavedFacts
  <2>3. name \in Names /\ t.spilled[c].parent \in Cnids \cup {Root}
    BY <2>2 DEF Contents
  <2>4. e \in Slot /\ e.cnid = c /\ e.name = name /\ e.dirty = FALSE /\ Content(e) = t.spilled[c]
    BY <2>2, <2>3 DEF Slot, Content, Contents
  <2>5. CatalogGet(t, c) = [slots |-> merged, spilled |-> Spill(t.slots, k, t.spilled),
                            last |-> t.last, lost |-> t.lost]
    <3>1. CatalogGet(t, c) = Unspilled(t, k, e)
      BY <1>3 DEF CatalogGet
    <3> HIDE DEF k, e
    <3>2. Unspilled(t, k, e) = [t EXCEPT !.slots = merged, !.spilled = Spill(t.slots, k, t.spilled)]
      BY DEF Unspilled
    <3> HIDE DEF merged
    <3> QED
      BY <3>1, <3>2, TableFacts
  <2>6. k \in 0 .. Len(t.slots) /\ k < Slots /\ UsedBytes(SubSeq(t.slots, 1, k)) + NameLen[name] <= Bytes
    BY <1>1, <2>3, KeptFacts
  <2> HIDE DEF name, k, e
  <2>7. \A i \in 1 .. n : t.slots[i].cnid # c
    BY <1>1, <1>3, CachedFacts
  <2>8. Merged(merged, t.slots, k, e)
    <3>1. \A i \in 1 .. k : t.slots[i].cnid # e.cnid
      BY <1>1, <2>4, <2>6, <2>7
    <3> QED
      BY <1>1, <2>4, <2>6, <3>1, AppendMerges
  <2>9. AllBut(t.slots, t.slots, c)
    BY <1>1, <2>7 DEF AllBut
  <2>10. c \in DOMAIN t.last /\ (c \notin t.lost => t.last[c] = Content(e))
    BY <1>1, <2>1, <2>4 DEF LastKept, Remembers, OnlySet
  <2> HIDE DEF merged
  <2>11. TableInv([slots |-> merged, spilled |-> Spill(t.slots, k, t.spilled),
                   last |-> t.last, lost |-> t.lost])
    BY <1>1, <2>1, <2>2, <2>4, <2>6, <2>8, <2>9, <2>10, EntryComes
  <2> QED
    BY <2>5, <2>11
<1>4. CASE ~Cached(c, t) /\ ~Known(t, c)
  BY <1>4 DEF CatalogGet
<1> QED
  BY <1>2, <1>3, <1>4

LEMMA NothingSaved == <<>> \in Saved /\ DOMAIN <<>> = {}
<1>1. <<>> \in Seq(Contents) /\ Len(<<>>) = 0
  OBVIOUS
<1>2. <<>> \in [{} -> Contents]
  BY <1>1
<1> QED
  BY <1>2 DEF Saved

LEMMA NoSlots == Unique(<<>>) /\ Len(<<>>) = 0 /\ UsedBytes(<<>>) = 0
<1>1. NameBytes(<<>>) = {}
  BY DEF NameBytes
<1>2. UsedBytes(<<>>) = 0
  BY <1>1, FS_EmptySet DEF UsedBytes
<1> QED
  BY <1>2 DEF Unique

LEMMA RestartKeeps ==
  ASSUME NEW spilled \in Saved
  PROVE  TableInv([slots |-> <<>>, spilled |-> spilled, last |-> spilled, lost |-> {}])
<1> DEFINE t == [slots |-> <<>>, spilled |-> spilled, last |-> spilled, lost |-> {}]
<1>1. Unique(<<>>) /\ Len(<<>>) = 0 /\ UsedBytes(<<>>) = 0
  BY NoSlots
<1>2. t \in Table
  BY DEF Table
<1>3. t.slots = <<>> /\ t.spilled = spilled /\ t.last = spilled /\ t.lost = {}
  OBVIOUS
<1> HIDE DEF t
<1>4. LastKept(t)
  <2> SUFFICES ASSUME NEW c \in DOMAIN spilled PROVE Remembers(t, c)
    BY <1>3 DEF LastKept
  <2>1. ~Cached(c, t)
    BY <1>1, <1>3, CachedFacts
  <2>2. Known(t, c) /\ Entry(t, c) = spilled[c]
    BY <1>1, <1>3, <2>1, CachedFacts
  <2> QED
    BY <1>3, <2>2 DEF Remembers
<1>5. CleanSaved(t)
  BY <1>1, <1>3 DEF CleanSaved
<1>8. OnlySet(t)
  BY <1>1, <1>3 DEF OnlySet
<1>6. Slots \in Nat /\ Bytes \in Nat /\ 0 <= Slots /\ 0 <= Bytes
  BY TableAssumption
<1>7. TableInv(t)
  BY <1>1, <1>2, <1>3, <1>4, <1>5, <1>6, <1>8 DEF TableInv
<1> QED
  BY <1>7 DEF t

LEMMA RestartedKeeps ==
  ASSUME NEW t, TableInv(t)
  PROVE  TableInv(Restarted(t))
<1>1. Restarted(t) = [slots |-> <<>>, spilled |-> t.spilled, last |-> t.spilled, lost |-> {}]
  BY DEF Restarted
<1> QED
  BY <1>1, TableFacts, RestartKeeps

LEMMA EmptyKeeps == TableInv(EmptyTable)
  BY NothingSaved, RestartKeeps DEF EmptyTable

(***************************************************************************)
(* Recursion: what is given by a first value and a step is a function.     *)
(***************************************************************************)
Steps(n, T) == [(1 .. n) \X T -> T]
Iterates(f, n, T, b, h) ==
  /\ f \in [0 .. n -> T] /\ f[0] = b
  /\ \A k \in 1 .. n : f[k] = h[<<k, f[k - 1]>>]

LEMMA Recursion ==
  ASSUME NEW T, NEW n \in Nat, NEW h \in Steps(n, T), NEW b \in T
  PROVE  \E f : Iterates(f, n, T, b, h)
<1>0. h \in [(1 .. n) \X T -> T]
  BY DEF Steps
<1> DEFINE Upto(f, m) == /\ f \in [0 .. m -> T] /\ f[0] = b
                         /\ \A k \in 1 .. m : f[k] = h[<<k, f[k - 1]>>]
           bad == {m \in 0 .. n : ~ \E f : Upto(f, m)}
<1>1. Upto([k \in 0 .. 0 |-> b], 0)
  OBVIOUS
<1>2. ASSUME NEW m \in 1 .. n, NEW f, Upto(f, m - 1)
      PROVE  \E g : Upto(g, m)
  <2> DEFINE v == h[<<m, f[m - 1]>>]
             g == [k \in 0 .. m |-> IF k = m THEN v ELSE f[k]]
  <2>1. m \in Nat /\ m - 1 \in Nat /\ m # 0
    OBVIOUS
  <2>2. f[m - 1] \in T
    BY <1>2, <2>1
  <2>3. v \in T
    BY <1>0, <2>2
  <2> HIDE DEF v
  <2>4. g \in [0 .. m -> T] /\ g[0] = b
    BY <1>2, <2>1, <2>3
  <2>5. ASSUME NEW k \in 1 .. m
        PROVE  g[k] = h[<<k, g[k - 1]>>]
    <3>1. g[k - 1] = f[k - 1]
      BY <2>1
    <3>2. CASE k = m
      BY <2>1, <3>1, <3>2 DEF v
    <3>3. CASE k # m
      <4>1. k \in 1 .. m - 1
        BY <2>1, <3>3
      <4> QED
        BY <1>2, <3>1, <3>3, <4>1
    <3> QED
      BY <3>2, <3>3
  <2>6. Upto(g, m)
    BY <2>4, <2>5
  <2> QED
    BY <2>6
<1>3. bad = {}
  <2> SUFFICES ASSUME bad # {} PROVE FALSE
    OBVIOUS
  <2>1. PICK m \in bad : \A k \in bad : m <= k
    <3>1. bad \in SUBSET Nat
      OBVIOUS
    <3> HIDE DEF bad
    <3> QED
      BY <3>1, LeastNat
  <2>2. m # 0
    BY <1>1
  <2>3. m \in 1 .. n /\ m - 1 \in 0 .. n /\ m - 1 \notin bad
    BY <2>1, <2>2
  <2>4. PICK f : Upto(f, m - 1)
    BY <2>3
  <2> HIDE DEF Upto
  <2>5. \E g : Upto(g, m)
    BY <1>2, <2>3, <2>4
  <2> QED
    BY <2>1, <2>5
<1>4. PICK f : Upto(f, n)
  <2>1. n \in 0 .. n
    OBVIOUS
  <2> HIDE DEF Upto
  <2> QED
    BY <1>3, <2>1
<1>5. Iterates(f, n, T, b, h)
  BY <1>4 DEF Iterates
<1> QED
  BY <1>5

\* What holds at first and is kept by each step holds at every place.
LEMMA Along ==
  ASSUME NEW n \in Nat, NEW P, 0 \in P, \A k \in 1 .. n : k - 1 \in P => k \in P
  PROVE  \A k \in 0 .. n : k \in P
<1> DEFINE bad == {m \in 0 .. n : m \notin P}
<1>1. bad \in SUBSET Nat
  OBVIOUS
<1> SUFFICES ASSUME bad # {} PROVE FALSE
  OBVIOUS
<1>2. PICK m \in bad : \A k \in bad : m <= k
  <2> HIDE DEF bad
  <2> QED
    BY <1>1, LeastNat
<1>3. m \in 1 .. n /\ m - 1 \in 0 .. n /\ m - 1 \notin bad
  BY <1>2
<1> QED
  BY <1>2, <1>3

(***************************************************************************)
(* The trail from a CNID to the root.                                      *)
(***************************************************************************)
Tables == {t \in Table : TableInv(t)}
Trails == [at : Cnids \cup {Root}, ok : BOOLEAN, db : Tables, els : Seq(Names), ids : Seq(Cnids)]

LEMMA ClimbKeeps ==
  ASSUME NEW t \in Trails
  PROVE  /\ Climb(t) \in Trails
         /\ Climb(t).els = <<>> => t.els = <<>> /\ Climb(t).at = t.at
         /\ Len(Climb(t).els) <= Len(t.els) + 1
<1>1. CASE t.at = Root \/ ~t.ok
  <2>1. Climb(t) = t
    BY <1>1 DEF Climb
  <2>2. Len(t.els) \in Nat
    BY DEF Trails
  <2> QED
    BY <2>1, <2>2
<1>2. CASE ~(t.at = Root \/ ~t.ok) /\ ~Known(t.db, t.at)
  <2>1. Climb(t) = [t EXCEPT !.ok = FALSE]
    BY <1>2 DEF Climb
  <2>2. Climb(t) \in Trails /\ Climb(t).els = t.els /\ Climb(t).at = t.at
    BY <2>1 DEF Trails
  <2>3. Len(t.els) \in Nat
    BY DEF Trails
  <2> QED
    BY <2>2, <2>3
<1>3. CASE ~(t.at = Root \/ ~t.ok) /\ Known(t.db, t.at)
  <2> DEFINE e == Entry(t.db, t.at)
             els == <<e.name>> \o t.els
             ids == <<t.at>> \o t.ids
  <2>1. Climb(t) = [at |-> e.parent, ok |-> TRUE, db |-> CatalogGet(t.db, t.at), els |-> els, ids |-> ids]
    BY <1>3 DEF Climb
  <2>2. TableInv(t.db) /\ t.els \in Seq(Names) /\ t.ids \in Seq(Cnids)
    BY DEF Trails, Tables
  <2>3. t.at \in Cnids /\ e.parent \in Cnids \cup {Root} /\ e.name \in Names
    BY <1>3, <2>2, EntryFacts
  <2>4. CatalogGet(t.db, t.at) \in Tables
    BY <2>2, GetKeeps DEF Tables, TableInv
  <2> HIDE DEF e
  <2>5. els \in Seq(Names) /\ Len(els) = 1 + Len(t.els) /\ ids \in Seq(Cnids)
    <3>1. <<e.name>> \in Seq(Names) /\ Len(<<e.name>>) = 1 /\ <<t.at>> \in Seq(Cnids)
      BY <2>3
    <3> QED
      BY <2>2, <3>1, ConcatProperties
  <2>6. els # <<>>
    BY <2>2, <2>5
  <2> HIDE DEF els, ids
  <2>7. Climb(t) \in Trails
    BY <2>1, <2>3, <2>4, <2>5 DEF Trails
  <2> QED
    BY <2>1, <2>2, <2>5, <2>6, <2>7
<1> QED
  BY <1>1, <1>2, <1>3

TrailStart(d, cnid) == [at |-> cnid, ok |-> TRUE, db |-> d, els |-> <<>>, ids |-> <<>>]

LEMMA TrailSteps ==
  ASSUME NEW d, TableInv(d), NEW cnid \in Cnids \cup {Root}
  PROVE  \E f : /\ f \in [0 .. MaxEl -> Trails] /\ f[0] = TrailStart(d, cnid)
                /\ \A k \in 1 .. MaxEl : f[k] = Climb(f[k - 1])
                /\ Trail(d, cnid) = f[MaxEl]
<1> DEFINE b == TrailStart(d, cnid)
           h == [x \in (1 .. MaxEl) \X Trails |-> Climb(x[2])]
<1>1. MaxEl \in Nat
  BY CatalogAssumption
<1>2. b \in Trails
  BY DEF Trails, Tables, TableInv, TrailStart
<1>3. h \in Steps(MaxEl, Trails)
  BY ClimbKeeps DEF Steps
<1> HIDE DEF b
<1>4. PICK f : /\ f \in [0 .. MaxEl -> Trails] /\ f[0] = b
               /\ \A k \in 1 .. MaxEl : f[k] = h[<<k, f[k - 1]>>]
  <2> HIDE DEF h
  <2>1. \E f : Iterates(f, MaxEl, Trails, b, h)
    BY <1>1, <1>2, <1>3, Recursion
  <2> QED
    BY <2>1 DEF Iterates
<1>5. ASSUME NEW k \in 1 .. MaxEl
      PROVE  f[k - 1] \in Trails /\ f[k] = Climb(f[k - 1])
  <2>1. k - 1 \in 0 .. MaxEl
    BY <1>1
  <2>2. f[k - 1] \in Trails
    BY <1>4, <2>1
  <2>3. <<k, f[k - 1]>> \in (1 .. MaxEl) \X Trails
    BY <2>2
  <2>4. h[<<k, f[k - 1]>>] = Climb(f[k - 1])
    BY <2>3
  <2> QED
    BY <1>4, <2>2, <2>4
<1> DEFINE climbed == CHOOSE g : g = [k \in 0 .. MaxEl |-> IF k = 0 THEN b ELSE Climb(g[k - 1])]
<1>6. f = [k \in 0 .. MaxEl |-> IF k = 0 THEN b ELSE Climb(f[k - 1])]
  <2>1. \A k \in 0 .. MaxEl : f[k] = IF k = 0 THEN b ELSE Climb(f[k - 1])
    BY <1>1, <1>4, <1>5
  <2> QED
    BY <1>4, <2>1
<1>7. climbed = [k \in 0 .. MaxEl |-> IF k = 0 THEN b ELSE Climb(climbed[k - 1])]
  BY <1>6
<1>8. Trail(d, cnid) = climbed[MaxEl]
  BY DEF Trail, b, TrailStart
<1> HIDE DEF climbed
<1>9. \A k \in 0 .. MaxEl : climbed[k] = IF k = 0 THEN b ELSE Climb(climbed[k - 1])
  BY <1>7
<1>10. climbed[0] = b /\ \A k \in 1 .. MaxEl : climbed[k] = Climb(climbed[k - 1])
  BY <1>1, <1>9
<1> DEFINE P == {k \in 0 .. MaxEl : climbed[k] \in Trails}
<1>11. 0 \in P
  BY <1>1, <1>2, <1>10
<1>12. \A k \in 1 .. MaxEl : k - 1 \in P => k \in P
  <2> SUFFICES ASSUME NEW k \in 1 .. MaxEl, k - 1 \in P PROVE k \in P
    OBVIOUS
  <2>1. climbed[k] = Climb(climbed[k - 1]) /\ k \in 0 .. MaxEl
    BY <1>1, <1>10
  <2> QED
    BY <2>1, ClimbKeeps
<1>13. \A k \in 0 .. MaxEl : k \in P
  <2> HIDE DEF P
  <2> QED
    BY <1>1, <1>11, <1>12, Along
<1>14. climbed \in [0 .. MaxEl -> Trails]
  BY <1>7, <1>13
<1> QED
  BY <1>8, <1>10, <1>14 DEF b

LEMMA TrailFacts ==
  ASSUME NEW d, TableInv(d), NEW cnid \in Cnids \cup {Root}
  PROVE  /\ Trail(d, cnid) \in Trails
         /\ Trail(d, cnid).els = <<>> => Trail(d, cnid).at = cnid
<1>1. MaxEl \in Nat
  BY CatalogAssumption
<1>2. PICK f : /\ f \in [0 .. MaxEl -> Trails] /\ f[0] = TrailStart(d, cnid)
               /\ \A k \in 1 .. MaxEl : f[k] = Climb(f[k - 1])
               /\ Trail(d, cnid) = f[MaxEl]
  BY TrailSteps
<1> DEFINE P == {k \in 0 .. MaxEl : f[k].els = <<>> => f[k].at = cnid}
<1>3. 0 \in P
  BY <1>1, <1>2 DEF TrailStart
<1>4. \A k \in 1 .. MaxEl : k - 1 \in P => k \in P
  <2> SUFFICES ASSUME NEW k \in 1 .. MaxEl, k - 1 \in P PROVE k \in P
    OBVIOUS
  <2>1. f[k] = Climb(f[k - 1]) /\ k - 1 \in 0 .. MaxEl /\ k \in 0 .. MaxEl
    BY <1>1, <1>2
  <2>2. f[k - 1] \in Trails
    BY <1>2, <2>1
  <2> QED
    BY <2>1, <2>2, ClimbKeeps
<1>5. MaxEl \in P
  <2>1. MaxEl \in 0 .. MaxEl
    BY <1>1
  <2> HIDE DEF P
  <2> QED
    BY <1>1, <1>3, <1>4, <2>1, Along
<1> QED
  BY <1>1, <1>2, <1>5

(***************************************************************************)
(* Walks in the tree of the host.                                          *)
(***************************************************************************)
There(t) == DOMAIN t \cup {Root}
Elements == Names \cup {Up}

LEMMA TreeFacts ==
  ASSUME NEW t, IsTree(t)
  PROVE  /\ DOMAIN t \subseteq Cnids /\ Root \notin DOMAIN t
         /\ \A c \in DOMAIN t : /\ t[c].parent \in AllDirs /\ t[c].name \in Names
                                /\ t[c] = At(t[c].parent, t[c].name)
                                /\ t[c].parent \in There(t)
                                /\ \A d \in DOMAIN t : t[c] = t[d] => c = d
<1>1. DOMAIN t \subseteq Cnids /\ Root \notin DOMAIN t
  BY TableAssumption DEF IsTree
<1>2. ASSUME NEW c \in DOMAIN t
      PROVE  /\ t[c].parent \in AllDirs /\ t[c].name \in Names
             /\ t[c] = At(t[c].parent, t[c].name)
  <2>1. t[c] \in [parent : AllDirs, name : Names]
    BY DEF IsTree
  <2> QED
    BY <2>1 DEF At
<1> QED
  BY <1>1, <1>2 DEF IsTree, There

\* A step leads to one place at most, which is there.
LEMMA StepFacts ==
  ASSUME NEW t, IsTree(t), NEW at \in There(t), NEW el \in Elements
  PROVE  /\ Step(t, at, el) \in SUBSET There(t)
         /\ \A c \in Step(t, at, el) : Step(t, at, el) = {c}
         /\ el # Up => \A c \in Step(t, at, el) :
                         c \in DOMAIN t /\ t[c] = At(at, el)
         /\ el = Up => Step(t, at, el) = {ParentOf(t, at)}
<1>1. CASE el = Up
  <2>1. Step(t, at, el) = {ParentOf(t, at)}
    BY <1>1 DEF Step
  <2>2. ParentOf(t, at) \in There(t)
    BY TreeFacts DEF ParentOf, There
  <2> QED
    BY <1>1, <2>1, <2>2
<1>2. CASE el # Up
  <2>1. Step(t, at, el) = Named(t, at, el)
    BY <1>2 DEF Step
  <2>2. \A c \in Named(t, at, el) : c \in DOMAIN t /\ t[c] = At(at, el)
    BY TreeFacts DEF Named, Children
  <2>3. \A c, d \in Named(t, at, el) : c = d
    BY <2>2, TreeFacts
  <2> QED
    BY <1>2, <2>1, <2>2, <2>3 DEF There
<1> QED
  BY <1>1, <1>2

From(w, i) == IF i = 1 THEN Root ELSE w[i - 1]

\* What a walk has passed, one element each.
Walked(t, w, els) ==
  /\ w \in Seq(There(t)) /\ Len(w) <= Len(els)
  /\ \A j \in 1 .. Len(w) : Step(t, From(w, j), els[j]) = {w[j]}

LEMMA PassedKeeps ==
  ASSUME NEW t, IsTree(t), NEW els \in Seq(Elements), NEW i \in 1 .. Len(els),
         NEW w \in Seq(There(t))
  PROVE  /\ Passed(t, w, i, els[i]) \in Seq(There(t))
         /\ Len(w) <= i - 1 /\ Walked(t, w, els) =>
              Len(Passed(t, w, i, els[i])) <= i /\ Walked(t, Passed(t, w, i, els[i]), els)
<1> DEFINE found == Step(t, IF i = 1 THEN Root ELSE w[i - 1], els[i])
           c == CHOOSE x \in found : TRUE
           p == Passed(t, w, i, els[i])
<1>1. Len(w) \in Nat /\ Len(els) \in Nat /\ i \in Nat /\ els[i] \in Elements
  OBVIOUS
<1>2. CASE Len(w) < i - 1 \/ found = {}
  <2>1. p = w
    BY <1>2 DEF Passed
  <2> HIDE DEF found
  <2> QED
    BY <1>1, <2>1
<1>3. CASE ~(Len(w) < i - 1 \/ found = {})
  <2>1. p = Append(w, c)
    BY <1>3 DEF Passed
  <2>2. From(w, i) \in There(t)
    BY <1>1, <1>3 DEF From, There
  <2>3. found = Step(t, From(w, i), els[i])
    BY DEF From
  <2>4. c \in found
    BY <1>3
  <2> HIDE DEF c
  <2>5. found = {c} /\ c \in There(t)
    <3> HIDE DEF found
    <3> QED
      BY <1>1, <2>2, <2>3, <2>4, StepFacts
  <2>6. p \in Seq(There(t)) /\ Len(p) = Len(w) + 1
    BY <2>1, <2>5
  <2>7. ASSUME Len(w) <= i - 1, Walked(t, w, els)
        PROVE  Len(p) <= i /\ Walked(t, p, els)
    <3>1. Len(w) = i - 1 /\ Len(p) = i
      BY <1>1, <1>3, <2>6, <2>7
    <3>2. \A j \in 1 .. i - 1 : p[j] = w[j]
      BY <2>1, <3>1
    <3>3. p[i] = c
      BY <1>1, <2>1, <3>1
    <3> HIDE DEF p
    <3>4. \A j \in 1 .. i : From(p, j) = From(w, j)
      BY <1>1, <3>2 DEF From
    <3>5. ASSUME NEW j \in 1 .. i
          PROVE  Step(t, From(p, j), els[j]) = {p[j]}
      <4>1. CASE j = i
        BY <2>3, <2>5, <3>3, <3>4, <4>1
      <4>2. CASE j # i
        <5>1. j \in 1 .. i - 1
          BY <1>1, <4>2
        <5>2. Step(t, From(w, j), els[j]) = {w[j]}
          BY <2>7, <3>1, <5>1 DEF Walked
        <5> QED
          BY <3>2, <3>4, <5>1, <5>2
      <4> QED
        BY <4>1, <4>2
    <3>6. Len(p) <= Len(els)
      BY <1>1, <3>1
    <3>7. Walked(t, p, els)
      <4>1. p \in Seq(There(t)) /\ Len(p) = i
        BY <2>6, <3>1 DEF p
      <4> QED
        BY <3>5, <3>6, <4>1 DEF Walked
    <3> QED
      BY <1>1, <3>1, <3>7 DEF p
  <2> HIDE DEF found
  <2> QED
    BY <2>6, <2>7
<1> QED
  BY <1>2, <1>3

LEMMA WalkSteps ==
  ASSUME NEW t, IsTree(t), NEW els \in Seq(Elements)
  PROVE  \E f : /\ f \in [0 .. Len(els) -> Seq(There(t))] /\ f[0] = <<>>
                /\ \A i \in 1 .. Len(els) : f[i] = Passed(t, f[i - 1], i, els[i])
                /\ Walk9(t, els) = f[Len(els)]
<1> DEFINE n == Len(els)
           T == Seq(There(t))
           h == [x \in (1 .. n) \X T |-> Passed(t, x[2], x[1], els[x[1]])]
           walked == CHOOSE g : g = [i \in 0 .. n |-> IF i = 0 THEN <<>> ELSE Passed(t, g[i - 1], i, els[i])]
<1>1. n \in Nat /\ <<>> \in T
  OBVIOUS
<1>2. \A i \in 1 .. n, w \in T : Passed(t, w, i, els[i]) \in T
  BY PassedKeeps
<1> HIDE DEF T
<1>3. h \in Steps(n, T)
  BY <1>2 DEF Steps
<1>4. PICK f : /\ f \in [0 .. n -> T] /\ f[0] = <<>>
               /\ \A k \in 1 .. n : f[k] = h[<<k, f[k - 1]>>]
  <2> HIDE DEF h
  <2>1. \E f : Iterates(f, n, T, <<>>, h)
    BY <1>1, <1>3, Recursion
  <2> QED
    BY <2>1 DEF Iterates
<1>5. ASSUME NEW k \in 1 .. n
      PROVE  f[k] = Passed(t, f[k - 1], k, els[k])
  <2>1. k - 1 \in 0 .. n
    BY <1>1
  <2>2. <<k, f[k - 1]>> \in (1 .. n) \X T
    BY <1>4, <2>1
  <2>3. h[<<k, f[k - 1]>>] = Passed(t, f[k - 1], k, els[k])
    BY <2>2
  <2> QED
    BY <1>4, <2>3
<1>6. f = [i \in 0 .. n |-> IF i = 0 THEN <<>> ELSE Passed(t, f[i - 1], i, els[i])]
  <2>1. \A i \in 0 .. n : f[i] = IF i = 0 THEN <<>> ELSE Passed(t, f[i - 1], i, els[i])
    BY <1>1, <1>4, <1>5
  <2> QED
    BY <1>4, <2>1
<1>7. walked = [i \in 0 .. n |-> IF i = 0 THEN <<>> ELSE Passed(t, walked[i - 1], i, els[i])]
  BY <1>6
<1>8. Walk9(t, els) = walked[n]
  BY DEF Walk9
<1> HIDE DEF walked
<1>9. \A i \in 0 .. n : walked[i] = IF i = 0 THEN <<>> ELSE Passed(t, walked[i - 1], i, els[i])
  BY <1>7
<1>10. walked[0] = <<>> /\ \A i \in 1 .. n : walked[i] = Passed(t, walked[i - 1], i, els[i])
  BY <1>1, <1>9
<1> DEFINE P == {k \in 0 .. n : walked[k] \in T}
<1>11. 0 \in P
  BY <1>1, <1>10
<1>12. \A k \in 1 .. n : k - 1 \in P => k \in P
  <2> SUFFICES ASSUME NEW k \in 1 .. n, k - 1 \in P PROVE k \in P
    OBVIOUS
  <2>1. walked[k] = Passed(t, walked[k - 1], k, els[k]) /\ k \in 0 .. n
    BY <1>1, <1>10
  <2> QED
    BY <1>2, <2>1
<1>13. \A k \in 0 .. n : k \in P
  <2> HIDE DEF P
  <2> QED
    BY <1>1, <1>11, <1>12, Along
<1>14. walked \in [0 .. n -> T]
  BY <1>7, <1>13
<1> QED
  BY <1>8, <1>10, <1>14 DEF T

\* Walk9 gives the places that the elements lead to, as far as they do.
LEMMA WalkFacts ==
  ASSUME NEW t, IsTree(t), NEW els \in Seq(Elements)
  PROVE  Walked(t, Walk9(t, els), els)
<1> DEFINE n == Len(els)
<1>1. n \in Nat
  OBVIOUS
<1>2. PICK f : /\ f \in [0 .. n -> Seq(There(t))] /\ f[0] = <<>>
               /\ \A i \in 1 .. n : f[i] = Passed(t, f[i - 1], i, els[i])
               /\ Walk9(t, els) = f[n]
  BY WalkSteps
<1> DEFINE P == {i \in 0 .. n : Len(f[i]) <= i /\ Walked(t, f[i], els)}
<1>3. 0 \in P
  BY <1>1, <1>2 DEF Walked
<1>4. \A i \in 1 .. n : i - 1 \in P => i \in P
  <2> SUFFICES ASSUME NEW i \in 1 .. n, i - 1 \in P PROVE i \in P
    OBVIOUS
  <2>1. f[i] = Passed(t, f[i - 1], i, els[i]) /\ i \in 0 .. n
    BY <1>1, <1>2
  <2>2. f[i - 1] \in Seq(There(t)) /\ Len(f[i - 1]) <= i - 1 /\ Walked(t, f[i - 1], els)
    BY DEF Walked
  <2> QED
    BY <2>1, <2>2, PassedKeeps
<1>5. n \in P
  <2>1. n \in 0 .. n
    BY <1>1
  <2> HIDE DEF P, n
  <2> QED
    BY <1>1, <1>3, <1>4, <2>1, Along
<1> QED
  BY <1>2, <1>5

\* A way there is through the tree is the one Walk9 takes.
LEMMA WalkComplete ==
  ASSUME NEW t, IsTree(t), NEW els \in Seq(Elements),
         NEW w \in Seq(There(t)), Len(w) = Len(els),
         \A j \in 1 .. Len(els) : Step(t, From(w, j), els[j]) = {w[j]}
  PROVE  Walk9(t, els) = w
<1> DEFINE n == Len(els)
<1>1. n \in Nat /\ Len(w) = n
  OBVIOUS
<1>2. PICK f : /\ f \in [0 .. n -> Seq(There(t))] /\ f[0] = <<>>
               /\ \A i \in 1 .. n : f[i] = Passed(t, f[i - 1], i, els[i])
               /\ Walk9(t, els) = f[n]
  BY WalkSteps
<1> DEFINE P == {i \in 0 .. n : Len(f[i]) = i /\ \A j \in 1 .. i : f[i][j] = w[j]}
<1>3. 0 \in P
  BY <1>1, <1>2
<1>4. \A i \in 1 .. n : i - 1 \in P => i \in P
  <2> SUFFICES ASSUME NEW i \in 1 .. n, i - 1 \in P PROVE i \in P
    OBVIOUS
  <2> DEFINE u == f[i - 1]
             v == f[i]
             found == Step(t, IF i = 1 THEN Root ELSE u[i - 1], els[i])
             c == CHOOSE x \in found : TRUE
  <2>1. v = Passed(t, u, i, els[i]) /\ i \in 0 .. n /\ i - 1 \in 0 .. n
    BY <1>1, <1>2
  <2>2. u \in Seq(There(t)) /\ Len(u) = i - 1 /\ \A j \in 1 .. i - 1 : u[j] = w[j]
    BY <1>2, <2>1
  <2> HIDE DEF u, v
  <2>3. (IF i = 1 THEN Root ELSE u[i - 1]) = From(w, i)
    BY <2>2 DEF From
  <2>4. found = {w[i]}
    BY <2>3
  <2>5. c = w[i]
    BY <2>4
  <2>6. v = Append(u, c)
    <3>1. ~(Len(u) < i - 1 \/ found = {})
      <4>1. found # {}
        BY <2>4
      <4> HIDE DEF found
      <4> QED
        BY <2>2, <4>1
    <3> QED
      BY <2>1, <3>1 DEF Passed
  <2> HIDE DEF c, found
  <2>7. w[i] \in There(t)
    BY <1>1
  <2>8. Len(v) = i /\ \A j \in 1 .. i : v[j] = w[j]
    BY <2>2, <2>5, <2>6, <2>7
  <2> QED
    BY <2>1, <2>8 DEF v
<1>5. n \in P
  <2>1. n \in 0 .. n
    BY <1>1
  <2> HIDE DEF P, n
  <2> QED
    BY <1>1, <1>3, <1>4, <2>1, Along
<1>6. f[n] \in Seq(There(t)) /\ Len(f[n]) = n /\ \A j \in 1 .. n : f[n][j] = w[j]
  BY <1>1, <1>2, <1>5
<1> DEFINE v == f[n]
<1>7. v \in Seq(There(t)) /\ Len(v) = Len(w) /\ \A j \in 1 .. Len(v) : v[j] = w[j]
  BY <1>1, <1>6
<1> HIDE DEF v
<1>8. v = w
  BY <1>7, SeqEqual
<1> QED
  BY <1>2, <1>8 DEF v

(***************************************************************************)
(* The path folded: a chain of files from the root.                        *)
(***************************************************************************)
Folds == [ids : Seq(Cnids), names : Seq(Names), db : Tables, set : Seq(Names)]

Chain(t, ids, names, at) ==
  /\ ids \in Seq(DOMAIN t) /\ names \in Seq(Names) /\ Len(names) = Len(ids)
  /\ \A j \in 1 .. Len(ids) : t[ids[j]] = At(From(ids, j), names[j])
  /\ at = From(ids, Len(ids) + 1)

LEMMA FrontFacts ==
  ASSUME NEW T, NEW s \in Seq(T)
  PROVE  /\ Front(s) \in Seq(T)
         /\ Len(s) = 0 => Front(s) = s
         /\ Len(s) # 0 => Len(Front(s)) = Len(s) - 1 /\ \A i \in 1 .. Len(s) - 1 : Front(s)[i] = s[i]
<1> DEFINE n == Len(s)
<1>1. n \in Nat
  OBVIOUS
<1>2. CASE n = 0
  <2>1. s = <<>> /\ n - 1 = -1
    BY <1>2
  <2>2. SubSeq(s, 1, -1) = <<>>
    BY <2>1, SubSeqEmpty
  <2> QED
    BY <1>2, <2>1, <2>2 DEF Front
<1>3. CASE n # 0
  <2>1. n - 1 \in 0 .. n
    BY <1>1, <1>3
  <2> QED
    BY <1>3, <2>1, CutFacts DEF Front
<1> QED
  BY <1>2, <1>3

LEMMA ChainFacts ==
  ASSUME NEW t, IsTree(t), NEW ids, NEW names, NEW at, Chain(t, ids, names, at)
  PROVE  /\ at \in There(t) /\ (Len(ids) = 0 <=> at = Root) /\ Len(ids) \in Nat
         /\ Len(ids) # 0 => at = ids[Len(ids)]
<1>1. ids \in Seq(DOMAIN t) /\ Len(ids) \in Nat /\ at = From(ids, Len(ids) + 1)
  BY DEF Chain
<1>2. CASE Len(ids) = 0
  BY <1>1, <1>2 DEF From, There
<1>3. CASE Len(ids) # 0
  <2>1. at = ids[Len(ids)] /\ ids[Len(ids)] \in DOMAIN t
    BY <1>1, <1>3 DEF From
  <2> QED
    BY <1>1, <1>3, <2>1, TreeFacts DEF There
<1> QED
  BY <1>2, <1>3

LEMMA ChainGrows ==
  ASSUME NEW t, IsTree(t), NEW ids, NEW names, NEW at, Chain(t, ids, names, at),
         NEW c \in DOMAIN t, NEW name \in Names, t[c] = At(at, name)
  PROVE  Chain(t, Append(ids, c), Append(names, name), c)
<1> DEFINE n == Len(ids)
           new == Append(ids, c)
           as == Append(names, name)
<1>1. ids \in Seq(DOMAIN t) /\ n \in Nat /\ at = From(ids, n + 1) /\ names \in Seq(Names) /\ Len(names) = n
  BY DEF Chain
<1>2. /\ new \in Seq(DOMAIN t) /\ Len(new) = n + 1 /\ new[n + 1] = c
      /\ \A j \in 1 .. n : new[j] = ids[j]
  BY <1>1
<1>3. /\ as \in Seq(Names) /\ Len(as) = n + 1 /\ as[n + 1] = name
      /\ \A j \in 1 .. n : as[j] = names[j]
  BY <1>1
<1> HIDE DEF new, as
<1>4. \A j \in 1 .. n + 1 : From(new, j) = From(ids, j)
  BY <1>1, <1>2 DEF From
<1>5. From(new, Len(new) + 1) = c
  BY <1>1, <1>2 DEF From
<1>6. ASSUME NEW j \in 1 .. n + 1
      PROVE  t[new[j]] = At(From(new, j), as[j])
  <2>1. CASE j = n + 1
    BY <1>1, <1>2, <1>3, <1>4, <2>1
  <2>2. CASE j # n + 1
    <3>1. j \in 1 .. n
      BY <1>1, <2>2
    <3>2. t[ids[j]] = At(From(ids, j), names[j])
      BY <3>1 DEF Chain
    <3> QED
      BY <1>2, <1>3, <1>4, <3>1, <3>2
  <2> QED
    BY <2>1, <2>2
<1>7. Chain(t, new, as, c)
  BY <1>2, <1>3, <1>5, <1>6 DEF Chain
<1> QED
  BY <1>7 DEF new, as

LEMMA ChainShrinks ==
  ASSUME NEW t, IsTree(t), NEW ids, NEW names, NEW at, Chain(t, ids, names, at)
  PROVE  Chain(t, Front(ids), Front(names), ParentOf(t, at))
<1> DEFINE n == Len(ids)
           new == Front(ids)
           as == Front(names)
<1>1. ids \in Seq(DOMAIN t) /\ n \in Nat /\ at = From(ids, n + 1) /\ names \in Seq(Names) /\ Len(names) = n
  BY DEF Chain
<1>2. CASE n = 0
  <2>1. new = ids /\ as = names
    BY <1>1, <1>2, FrontFacts
  <2>2. ParentOf(t, at) = at
    BY <1>2, ChainFacts DEF ParentOf
  <2> QED
    BY <2>1, <2>2
<1>3. CASE n # 0
  <2>1. new \in Seq(DOMAIN t) /\ Len(new) = n - 1 /\ \A j \in 1 .. n - 1 : new[j] = ids[j]
    BY <1>1, <1>3, FrontFacts
  <2>2. as \in Seq(Names) /\ Len(as) = n - 1 /\ \A j \in 1 .. n - 1 : as[j] = names[j]
    BY <1>1, <1>3, FrontFacts
  <2> HIDE DEF new, as
  <2>3. \A j \in 1 .. n : From(new, j) = From(ids, j)
    BY <1>1, <2>1 DEF From
  <2>4. at = ids[n] /\ at # Root
    BY <1>1, <1>3, ChainFacts
  <2>5. n \in 1 .. n
    BY <1>1, <1>3
  <2>6. t[at] = At(From(ids, n), names[n])
    BY <2>4, <2>5 DEF Chain
  <2>7. ParentOf(t, at) = From(new, Len(new) + 1)
    BY <1>1, <2>1, <2>3, <2>4, <2>5, <2>6 DEF ParentOf, At
  <2>8. ASSUME NEW j \in 1 .. n - 1
        PROVE  t[new[j]] = At(From(new, j), as[j])
    <3>1. j \in 1 .. n
      BY <1>1
    <3>2. t[ids[j]] = At(From(ids, j), names[j])
      BY <3>1 DEF Chain
    <3> QED
      BY <2>1, <2>2, <2>3, <3>1, <3>2
  <2>9. Chain(t, new, as, ParentOf(t, at))
    BY <2>1, <2>2, <2>7, <2>8 DEF Chain
  <2> QED
    BY <2>9 DEF new, as
<1> QED
  BY <1>2, <1>3

\* One element keeps to the tree, and what is entered is of the table's types.
LEMMA ElementTyped ==
  ASSUME NEW f \in Folds, NEW at, NEW el \in Elements, el # Up => at \in Cnids, NEW left
  PROVE  Element(f, at, el, left) \in Folds
<1>1. f.ids \in Seq(Cnids) /\ f.names \in Seq(Names) /\ TableInv(f.db) /\ f.set \in Seq(Names)
  BY DEF Folds, Tables
<1>2. CASE el = Up
  <2> DEFINE ids == Front(f.ids)
             names == Front(f.names)
  <2>1. ids \in Seq(Cnids) /\ names \in Seq(Names)
    BY <1>1, FrontFacts
  <2>2. Element(f, at, el, left) = [f EXCEPT !.ids = ids, !.names = names]
    BY <1>2 DEF Element
  <2> HIDE DEF ids, names
  <2> QED
    BY <2>1, <2>2 DEF Folds
<1>3. CASE el # Up
  <2> DEFINE parent == IF f.ids = <<>> THEN Root ELSE Last(f.ids)
             d == CatalogSet(f.db, at, parent, el)
  <2>1. parent \in Cnids \cup {Root}
    BY <1>1 DEF Last
  <2>2. at \in Cnids /\ el \in Names
    BY <1>3 DEF Elements
  <2> HIDE DEF parent
  <2>3. d \in Tables
    BY <1>1, <2>1, <2>2, SetKeeps DEF Tables, TableInv
  <2>4. Element(f, at, el, left) = [ids |-> Append(f.ids, at), names |-> Append(f.names, el), db |-> d, set |-> <<el>>]
    BY <1>3 DEF Element, SetEach, parent
  <2> HIDE DEF d
  <2> QED
    BY <1>1, <2>2, <2>3, <2>4 DEF Folds
<1> QED
  BY <1>2, <1>3

LEMMA ElementChains ==
  ASSUME NEW t, IsTree(t), NEW f \in Folds, NEW at, Chain(t, f.ids, f.names, at),
         NEW el \in Elements, NEW c, Step(t, at, el) = {c}, NEW left
  PROVE  /\ Chain(t, Element(f, c, el, left).ids, Element(f, c, el, left).names, c)
         /\ el # Up => c \in DOMAIN t /\ Element(f, c, el, left).set = <<el>>
<1>1. at \in There(t)
  BY ChainFacts
<1>2. CASE el = Up
  <2>1. c = ParentOf(t, at)
    BY <1>1, <1>2, StepFacts
  <2>2. Element(f, c, el, left).ids = Front(f.ids) /\ Element(f, c, el, left).names = Front(f.names)
    BY <1>2 DEF Element, Folds
  <2> QED
    BY <1>2, <2>1, <2>2, ChainShrinks
<1>3. CASE el # Up
  <2>1. c \in DOMAIN t /\ t[c] = At(at, el) /\ el \in Names
    BY <1>1, <1>3, StepFacts DEF Elements
  <2>2. /\ Element(f, c, el, left).ids = Append(f.ids, c)
        /\ Element(f, c, el, left).names = Append(f.names, el)
        /\ Element(f, c, el, left).set = <<el>>
    BY <1>3 DEF Element
  <2> QED
    BY <2>1, <2>2, ChainGrows
<1> QED
  BY <1>2, <1>3

\* A walk along els and a path that gets to its end.
Complete(t, q, els, path) ==
  /\ els \in Seq(Names) /\ path \in Seq(Elements)
  /\ q \in Seq(There(t)) /\ Len(q) = Len(els) + Len(path)
  /\ \A j \in 1 .. Len(els) : Step(t, From(q, j), els[j]) = {q[j]}
  /\ \A i \in 1 .. Len(path) : Step(t, From(q, Len(els) + i), path[i]) = {q[Len(els) + i]}

LEMMA CompleteFacts ==
  ASSUME NEW t, IsTree(t), NEW els \in Seq(Names), NEW path \in Seq(Elements),
         NEW q, Walked(t, q, els \o path), Len(q) >= Len(els) + Len(path)
  PROVE  Complete(t, q, els, path)
<1> DEFINE n == Len(els)
           m == Len(path)
           all == els \o path
<1>1. n \in Nat /\ m \in Nat /\ els \in Seq(Elements)
  BY DEF Elements
<1>2. /\ all \in Seq(Elements) /\ Len(all) = Len(els) + Len(path)
      /\ \A i \in 1 .. Len(els) + Len(path) :
           all[i] = IF i <= Len(els) THEN els[i] ELSE path[i - Len(els)]
  BY <1>1, ConcatProperties
<1> HIDE DEF all
<1>3. q \in Seq(There(t)) /\ Len(q) \in Nat /\ Len(q) <= n + m
  BY <1>2 DEF Walked, all
<1>4. Len(q) = n + m
  BY <1>1, <1>3
<1>5. \A j \in 1 .. n + m : Step(t, From(q, j), all[j]) = {q[j]}
  BY <1>4 DEF Walked, all
<1>6. ASSUME NEW j \in 1 .. n
      PROVE  Step(t, From(q, j), els[j]) = {q[j]}
  <2>1. j \in 1 .. n + m /\ j <= n
    BY <1>1
  <2>2. all[j] = els[j]
    BY <1>2, <2>1
  <2> QED
    BY <1>5, <2>1, <2>2
<1>7. ASSUME NEW i \in 1 .. m
      PROVE  Step(t, From(q, n + i), path[i]) = {q[n + i]}
  <2>1. n + i \in 1 .. n + m /\ ~(n + i <= n) /\ (n + i) - n = i
    BY <1>1
  <2>2. all[n + i] = path[i]
    BY <1>2, <2>1
  <2> QED
    BY <1>5, <2>1, <2>2
<1> QED
  BY <1>3, <1>4, <1>6, <1>7 DEF Complete

\* Where each element of the path leads.
Leading(t, q, n, path) ==
  \A i \in 1 .. Len(path) :
    /\ From(q, n + i) \in There(t) /\ path[i] \in Elements
    /\ Step(t, From(q, n + i), path[i]) = {q[n + i]}
    /\ path[i] # Up => q[n + i] \in DOMAIN t
    /\ From(q, n + i + 1) = q[n + i]

LEMMA CompleteStep ==
  ASSUME NEW t, IsTree(t), NEW els, NEW path, NEW q, Complete(t, q, els, path)
  PROVE  Leading(t, q, Len(els), path)
<1> DEFINE n == Len(els)
<1> SUFFICES ASSUME NEW i \in 1 .. Len(path)
             PROVE  /\ From(q, n + i) \in There(t) /\ path[i] \in Elements
                    /\ Step(t, From(q, n + i), path[i]) = {q[n + i]}
                    /\ path[i] # Up => q[n + i] \in DOMAIN t
                    /\ From(q, n + i + 1) = q[n + i]
  BY DEF Leading
<1>1. n \in Nat /\ i \in Nat /\ i >= 1 /\ path[i] \in Elements /\ q \in Seq(There(t)) /\ Len(path) \in Nat
  BY DEF Complete
<1>2. i <= Len(path)
  BY <1>1
<1>3. Len(q) = n + Len(path)
  BY DEF Complete
<1> HIDE DEF n
<1>4. From(q, n + i) \in There(t)
  <2>1. CASE n + i = 1
    BY <2>1 DEF From, There
  <2>2. CASE n + i # 1
    <3>1. n + i - 1 \in 1 .. Len(q)
      BY <1>1, <1>2, <1>3, <2>2
    <3> QED
      BY <1>1, <2>2, <3>1 DEF From
  <2> QED
    BY <2>1, <2>2
<1>5. Step(t, From(q, n + i), path[i]) = {q[n + i]}
  BY DEF Complete, n
<1>6. path[i] # Up => q[n + i] \in DOMAIN t
  BY <1>1, <1>4, <1>5, StepFacts
<1>7. From(q, n + i + 1) = q[n + i]
  BY <1>1 DEF From
<1> QED
  BY <1>1, <1>4, <1>5, <1>6, <1>7

\* Before the path: the files found by CNID are a chain.
LEMMA TrailChains ==
  ASSUME NEW t, IsTree(t), NEW els, NEW path, NEW q, Complete(t, q, els, path)
  PROVE  Chain(t, SubSeq(q, 1, Len(els)), els, From(q, Len(els) + 1))
<1> DEFINE n == Len(els)
           ids == SubSeq(q, 1, n)
<1>1. n \in Nat /\ els \in Seq(Names) /\ q \in Seq(There(t)) /\ Len(path) \in Nat /\ Len(q) = n + Len(path)
  BY DEF Complete
<1>2. n \in 0 .. Len(q)
  BY <1>1
<1>3. ids \in Seq(There(t)) /\ Len(ids) = n /\ \A i \in 1 .. n : ids[i] = q[i]
  BY <1>1, <1>2, CutFacts
<1> HIDE DEF ids
<1>4. \A j \in 1 .. n + 1 : From(ids, j) = From(q, j)
  BY <1>1, <1>3 DEF From
<1>5. ASSUME NEW j \in 1 .. n
      PROVE  ids[j] \in DOMAIN t /\ t[ids[j]] = At(From(ids, j), els[j])
  <2>1. From(q, j) \in There(t)
    <3>1. CASE j = 1
      BY <3>1 DEF From, There
    <3>2. CASE j # 1
      <4>1. j - 1 \in 1 .. Len(q)
        BY <1>1, <3>2
      <4> QED
        BY <1>1, <3>2, <4>1 DEF From
    <3> QED
      BY <3>1, <3>2
  <2>2. Step(t, From(q, j), els[j]) = {q[j]}
    BY DEF Complete
  <2>3. els[j] \in Elements /\ els[j] # Up
    BY <1>1, CatalogAssumption DEF Elements
  <2>4. q[j] \in DOMAIN t /\ t[q[j]] = At(From(q, j), els[j])
    BY <2>1, <2>2, <2>3, StepFacts
  <2>5. From(ids, j) = From(q, j)
    BY <1>1, <1>4
  <2> QED
    BY <1>3, <2>4, <2>5
<1>6. ids \in Seq(DOMAIN t)
  BY <1>1, <1>3, <1>5
<1>7. From(ids, n + 1) = From(q, n + 1)
  BY <1>1, <1>4
<1>8. Chain(t, ids, els, From(q, n + 1))
  BY <1>1, <1>3, <1>5, <1>6, <1>7 DEF Chain
<1> QED
  BY <1>8 DEF ids

\* What the table was last told of some files is so, or lost sight of.
Agrees(t, d, ids) ==
  \A j \in 1 .. Len(ids) :
    ids[j] \in DOMAIN d.last /\ (ids[j] \notin d.lost => d.last[ids[j]] = t[ids[j]])

LEMMA SetLeaves ==
  ASSUME NEW d, TableInv(d), NEW c \in Cnids, NEW parent \in Cnids \cup {Root}, NEW name \in Names
  PROVE  /\ c \in DOMAIN CatalogSet(d, c, parent, name).last
         /\ CatalogSet(d, c, parent, name).last[c] = At(parent, name)
         /\ \A x \in Cnids : x # c =>
              /\ x \in DOMAIN d.last =>
                   /\ x \in DOMAIN CatalogSet(d, c, parent, name).last
                   /\ CatalogSet(d, c, parent, name).last[x] = d.last[x]
              /\ x \in CatalogSet(d, c, parent, name).lost <=> x \in d.lost
<1> DEFINE dirty == Cached(c, d) => Dirtied(d.slots[whichSlot(c, d.slots)], parent)
           e == [cnid |-> c, parent |-> parent, name |-> name, dirty |-> dirty]
           new == CatalogSet(d, c, parent, name)
<1>1. new.last = Put(d.last, c, Content(e)) /\ new.lost = Losing(d, e)
  BY DEF CatalogSet, WithEntry
<1> HIDE DEF dirty
<1>2. Content(e) = At(parent, name) /\ e.cnid = c
  BY DEF Content, At
<1>3. Content(e) \in Contents
  BY <1>2 DEF Contents, At
<1> HIDE DEF e, new
<1>4. /\ c \in DOMAIN new.last /\ new.last[c] = At(parent, name)
      /\ \A x \in Cnids : x # c /\ x \in DOMAIN d.last =>
           x \in DOMAIN new.last /\ new.last[x] = d.last[x]
  BY <1>1, <1>2, <1>3, PutFacts, TableFacts
<1>5. \A x \in Cnids : x # c => (x \in new.lost <=> x \in d.lost)
  BY <1>1, <1>2 DEF Losing
<1> QED
  BY <1>4, <1>5 DEF new

LEMMA ElementAgrees ==
  ASSUME NEW t, IsTree(t), NEW f \in Folds, NEW at, Chain(t, f.ids, f.names, at),
         NEW el \in Elements, NEW c, Step(t, at, el) = {c}, NEW left
  PROVE  /\ Len(Element(f, c, el, left).ids) <= Len(f.ids) + 1
         /\ Agrees(t, f.db, f.ids) => Agrees(t, Element(f, c, el, left).db, Element(f, c, el, left).ids)
<1> DEFINE g == Element(f, c, el, left)
<1>1. /\ f.ids \in Seq(Cnids) /\ f.ids \in Seq(DOMAIN t) /\ Len(f.ids) \in Nat /\ TableInv(f.db)
      /\ at \in There(t) /\ (Len(f.ids) = 0 <=> at = Root) /\ (Len(f.ids) # 0 => at = f.ids[Len(f.ids)])
  BY ChainFacts DEF Folds, Tables, Chain
<1>2. CASE el = Up
  <2>1. g.ids = Front(f.ids) /\ g.db = f.db
    BY <1>2 DEF Element, Folds
  <2> DEFINE ids == Front(f.ids)
  <2>2. /\ Len(f.ids) = 0 => ids = f.ids
        /\ Len(f.ids) # 0 => Len(ids) = Len(f.ids) - 1 /\ \A i \in 1 .. Len(f.ids) - 1 : ids[i] = f.ids[i]
    BY <1>1, FrontFacts
  <2> HIDE DEF ids
  <2>3. Len(ids) <= Len(f.ids) + 1 /\ \A j \in 1 .. Len(ids) : j \in 1 .. Len(f.ids) /\ ids[j] = f.ids[j]
    BY <1>1, <2>2
  <2>4. Agrees(t, f.db, f.ids) => Agrees(t, f.db, ids)
    BY <2>3 DEF Agrees
  <2> HIDE DEF g
  <2> QED
    BY <2>1, <2>3, <2>4 DEF ids, g
<1>3. CASE el # Up
  <2> DEFINE parent == IF f.ids = <<>> THEN Root ELSE Last(f.ids)
             d == CatalogSet(f.db, c, parent, el)
             ids == Append(f.ids, c)
  <2>1. c \in DOMAIN t /\ c \in Cnids /\ t[c] = At(at, el) /\ el \in Names
    BY <1>1, <1>3, StepFacts, TreeFacts DEF Elements
  <2>2. parent = at /\ at \in Cnids \cup {Root}
    BY <1>1, TreeFacts DEF Last, There
  <2>3. g.ids = ids /\ g.db = d
    BY <1>3 DEF Element, SetEach
  <2> HIDE DEF parent
  <2>4. /\ c \in DOMAIN d.last /\ d.last[c] = t[c]
        /\ \A x \in Cnids : x # c =>
             /\ x \in DOMAIN f.db.last => x \in DOMAIN d.last /\ d.last[x] = f.db.last[x]
             /\ x \in d.lost <=> x \in f.db.lost
    <3>1. parent \in Cnids \cup {Root}
      BY <2>2
    <3>4. c \in DOMAIN d.last
      BY <1>1, <2>1, <3>1, SetLeaves
    <3>5. d.last[c] = At(parent, el)
      BY <1>1, <2>1, <3>1, SetLeaves
    <3>2. c \in DOMAIN d.last /\ d.last[c] = At(parent, el)
      BY <3>4, <3>5
    <3>3. \A x \in Cnids : x # c =>
            /\ x \in DOMAIN f.db.last => x \in DOMAIN d.last /\ d.last[x] = f.db.last[x]
            /\ x \in d.lost <=> x \in f.db.lost
      BY <1>1, <2>1, <3>1, SetLeaves
    <3> QED
      BY <2>1, <2>2, <3>2, <3>3
  <2>5. /\ Len(ids) = Len(f.ids) + 1 /\ ids[Len(f.ids) + 1] = c
        /\ \A j \in 1 .. Len(f.ids) : ids[j] = f.ids[j]
    BY <1>1
  <2> HIDE DEF d, ids, g
  <2>6. ASSUME Agrees(t, f.db, f.ids) PROVE Agrees(t, d, ids)
    <3> SUFFICES ASSUME NEW j \in 1 .. Len(ids)
                 PROVE  ids[j] \in DOMAIN d.last /\ (ids[j] \notin d.lost => d.last[ids[j]] = t[ids[j]])
      BY DEF Agrees
    <3>1. CASE ids[j] = c
      BY <2>4, <3>1
    <3>2. CASE ids[j] # c
      <4>1. j \in 1 .. Len(f.ids)
        BY <1>1, <2>5, <3>2
      <4>2. ids[j] = f.ids[j] /\ ids[j] \in Cnids
        BY <1>1, <2>5, <4>1
      <4>3. ids[j] \in DOMAIN f.db.last /\ (ids[j] \notin f.db.lost => f.db.last[ids[j]] = t[ids[j]])
        BY <2>6, <4>1, <4>2 DEF Agrees
      <4> QED
        BY <2>4, <3>2, <4>2, <4>3
    <3> QED
      BY <3>1, <3>2
  <2>7. Len(ids) <= Len(f.ids) + 1
    BY <1>1, <2>5
  <2> QED
    BY <2>3, <2>6, <2>7 DEF g
<1> QED
  BY <1>2, <1>3

LEMMA FoldedFacts ==
  ASSUME NEW t, IsTree(t), NEW trail \in Trails, NEW path, NEW q, Complete(t, q, trail.els, path)
  PROVE  /\ Folded(q, trail, path) \in Folds
         /\ Chain(t, Folded(q, trail, path).ids, Folded(q, trail, path).names, From(q, Len(q) + 1))
         /\ Len(path) = 0 => Folded(q, trail, path).set = <<>>
         /\ Len(path) # 0 /\ path[Len(path)] # Up => Folded(q, trail, path).set = <<path[Len(path)]>>
         /\ Len(Folded(q, trail, path).ids) <= Len(trail.els) + Len(path)
         /\ Agrees(t, trail.db, SubSeq(q, 1, Len(trail.els))) =>
              Agrees(t, Folded(q, trail, path).db, Folded(q, trail, path).ids)
<1> DEFINE n == Len(trail.els)
           m == Len(path)
           agreed == Agrees(t, trail.db, SubSeq(q, 1, n))
           b == [ids |-> SubSeq(q, 1, n), names |-> trail.els, db |-> trail.db, set |-> <<>>]
           next(f, i) == Element(f, q[n + i], path[i], m - i)
           h == [x \in (1 .. m) \X Folds |-> next(x[2], x[1])]
           folded == CHOOSE g : g = [i \in 0 .. m |-> IF i = 0 THEN b ELSE next(g[i - 1], i)]
<1>1. /\ n \in Nat /\ m \in Nat /\ trail.els \in Seq(Names) /\ trail.db \in Tables
      /\ q \in Seq(There(t)) /\ Len(q) = n + m
  BY DEF Complete, Trails
<1>14. Leading(t, q, Len(trail.els), path)
  BY CompleteStep
<1>2. Chain(t, SubSeq(q, 1, n), trail.els, From(q, n + 1))
  BY TrailChains
<1>3. b \in Folds
  <2>1. SubSeq(q, 1, n) \in Seq(DOMAIN t)
    BY <1>2 DEF Chain
  <2>2. DOMAIN t \subseteq Cnids
    BY TreeFacts
  <2> DEFINE s == SubSeq(q, 1, n)
  <2> HIDE DEF s
  <2>3. s \in Seq(Cnids)
    <3>1. s \in Seq(DOMAIN t)
      BY <2>1 DEF s
    <3> QED
      BY <2>2, <3>1
  <2> QED
    BY <1>1, <2>3 DEF Folds, s
<1>4. \A i \in 1 .. m, f \in Folds : next(f, i) \in Folds
  <2> SUFFICES ASSUME NEW i \in 1 .. m, NEW f \in Folds PROVE next(f, i) \in Folds
    OBVIOUS
  <2>1. path[i] \in Elements /\ (path[i] # Up => q[n + i] \in Cnids)
    BY <1>14, TreeFacts DEF Leading
  <2> QED
    BY <2>1, ElementTyped
<1> HIDE DEF next, b
<1>5. h \in Steps(m, Folds)
  BY <1>4 DEF Steps
<1>6. PICK f : /\ f \in [0 .. m -> Folds] /\ f[0] = b
               /\ \A k \in 1 .. m : f[k] = h[<<k, f[k - 1]>>]
  <2> HIDE DEF h
  <2>1. \E f : Iterates(f, m, Folds, b, h)
    BY <1>1, <1>3, <1>5, Recursion
  <2> QED
    BY <2>1 DEF Iterates
<1>7. ASSUME NEW k \in 1 .. m
      PROVE  f[k] = next(f[k - 1], k)
  <2>1. k - 1 \in 0 .. m
    BY <1>1
  <2>2. <<k, f[k - 1]>> \in (1 .. m) \X Folds
    BY <1>6, <2>1
  <2>3. h[<<k, f[k - 1]>>] = next(f[k - 1], k)
    BY <2>2
  <2> QED
    BY <1>6, <2>3
<1>8. f = [i \in 0 .. m |-> IF i = 0 THEN b ELSE next(f[i - 1], i)]
  <2>1. \A i \in 0 .. m : f[i] = IF i = 0 THEN b ELSE next(f[i - 1], i)
    BY <1>1, <1>6, <1>7
  <2> QED
    BY <1>6, <2>1
<1>9. folded = [i \in 0 .. m |-> IF i = 0 THEN b ELSE next(folded[i - 1], i)]
  BY <1>8
<1>10. Folded(q, trail, path) = folded[m]
  BY DEF Folded, b, next
<1> HIDE DEF folded, agreed
<1> DEFINE P == {i \in 0 .. m :
                   /\ folded[i] \in Folds
                   /\ Chain(t, folded[i].ids, folded[i].names, From(q, n + i + 1))
                   /\ i = 0 => folded[i].set = <<>>
                   /\ i # 0 /\ path[i] # Up => folded[i].set = <<path[i]>>
                   /\ Len(folded[i].ids) <= n + i
                   /\ agreed => Agrees(t, folded[i].db, folded[i].ids)}
<1>11. 0 \in P
  <2>1. folded[0] = b /\ n + 0 + 1 = n + 1 /\ 0 \in 0 .. m
    BY <1>1, <1>9
  <2>2. b.ids = SubSeq(q, 1, n) /\ b.names = trail.els /\ b.set = <<>> /\ b.db = trail.db
    BY DEF b
  <2>3. Len(SubSeq(q, 1, n)) = n
    BY <1>2 DEF Chain
  <2>4. Len(b.ids) <= n + 0
    BY <1>1, <2>2, <2>3
  <2> HIDE DEF agreed
  <2>5. agreed => Agrees(t, b.db, b.ids)
    BY <2>2 DEF agreed
  <2> QED
    BY <1>2, <1>3, <2>1, <2>2, <2>4, <2>5
<1>12. \A i \in 1 .. m : i - 1 \in P => i \in P
  <2> SUFFICES ASSUME NEW i \in 1 .. m, i - 1 \in P PROVE i \in P
    OBVIOUS
  <2>7. i \in 0 .. m /\ i # 0 /\ n + (i - 1) + 1 = n + i
    BY <1>1
  <2>8. folded[i] = next(folded[i - 1], i)
    BY <1>9, <2>7
  <2>1. i \in 0 .. m /\ i # 0 /\ folded[i] = next(folded[i - 1], i) /\ n + (i - 1) + 1 = n + i
    BY <2>7, <2>8
  <2>2. folded[i - 1] \in Folds
    OBVIOUS
  <2>3. Chain(t, folded[i - 1].ids, folded[i - 1].names, From(q, n + i))
    BY <2>1
  <2>4. /\ path[i] \in Elements /\ Step(t, From(q, n + i), path[i]) = {q[n + i]}
        /\ From(q, n + i + 1) = q[n + i]
    BY <1>14 DEF Leading
  <2>9. next(folded[i - 1], i) = Element(folded[i - 1], q[n + i], path[i], m - i)
    BY DEF next
  <2>5. /\ Chain(t, next(folded[i - 1], i).ids, next(folded[i - 1], i).names, q[n + i])
        /\ path[i] # Up => next(folded[i - 1], i).set = <<path[i]>>
        /\ Len(next(folded[i - 1], i).ids) <= Len(folded[i - 1].ids) + 1
        /\ Agrees(t, folded[i - 1].db, folded[i - 1].ids) =>
             Agrees(t, next(folded[i - 1], i).db, next(folded[i - 1], i).ids)
    <3> DEFINE g == folded[i - 1]
               at == From(q, n + i)
               c == q[n + i]
               left == m - i
               el == path[i]
    <3>1. /\ g \in Folds /\ Chain(t, g.ids, g.names, at) /\ el \in Elements
          /\ Step(t, at, el) = {c} /\ next(g, i) = Element(g, c, el, left)
      BY <2>2, <2>3, <2>4, <2>9
    <3> HIDE DEF g, at, c, left, el
    <3>2. Chain(t, Element(g, c, el, left).ids, Element(g, c, el, left).names, c)
      BY <3>1, ElementChains
    <3>3. el # Up => Element(g, c, el, left).set = <<el>>
      BY DEF Element
    <3>4. Len(Element(g, c, el, left).ids) <= Len(g.ids) + 1
      BY <3>1, ElementAgrees
    <3>5. Agrees(t, g.db, g.ids) => Agrees(t, Element(g, c, el, left).db, Element(g, c, el, left).ids)
      BY <3>1, ElementAgrees
    <3> QED
      BY <3>1, <3>2, <3>3, <3>4, <3>5 DEF g, at, c, left, el
  <2>6. next(folded[i - 1], i) \in Folds
    BY <1>4, <2>2
  <2>10. Len(folded[i].ids) <= n + i
    <3>1. Len(folded[i].ids) <= Len(folded[i - 1].ids) + 1 /\ Len(folded[i - 1].ids) <= n + (i - 1)
      BY <2>1, <2>5
    <3>2. Len(folded[i - 1].ids) \in Nat /\ Len(folded[i].ids) \in Nat
      BY <2>1, <2>2, <2>6 DEF Folds
    <3> DEFINE x == Len(folded[i].ids)
               y == Len(folded[i - 1].ids)
    <3>3. x <= y + 1 /\ y <= n + (i - 1) /\ x \in Nat /\ y \in Nat
      BY <3>1, <3>2
    <3> HIDE DEF x, y, n
    <3>4. x <= n + i
      BY <1>1, <3>3
    <3> QED
      BY <3>4 DEF x, n
  <2> QED
    BY <2>1, <2>4, <2>5, <2>6, <2>10
<1>13. m \in P
  <2>1. m \in 0 .. m
    BY <1>1
  <2> HIDE DEF P
  <2> QED
    BY <1>1, <1>11, <1>12, <2>1, Along
<1> QED
  BY <1>1, <1>10, <1>13 DEF agreed

\* What a path leads to is what the walk passes.
LEMMA LeadsFacts ==
  ASSUME NEW t, IsTree(t), NEW els, NEW path, NEW q, Complete(t, q, els, path)
  PROVE  Leads(t, From(q, Len(els) + 1), path) = {From(q, Len(q) + 1)}
<1> DEFINE n == Len(els)
           m == Len(path)
           T == SUBSET There(t)
           b == {From(q, n + 1)}
           next(s, i) == UNION {Step(t, c, path[i]) : c \in s}
           h == [x \in (1 .. m) \X T |-> next(x[2], x[1])]
           reached == CHOOSE g : g = [i \in 0 .. m |-> IF i = 0 THEN b ELSE next(g[i - 1], i)]
<1>1. n \in Nat /\ m \in Nat /\ path \in Seq(Elements) /\ q \in Seq(There(t)) /\ Len(q) = n + m
  BY DEF Complete
<1>14. Leading(t, q, Len(els), path)
  BY CompleteStep
<1>2. b \in T
  <2>1. From(q, n + 1) \in There(t)
    BY TrailChains, ChainFacts
  <2> QED
    BY <2>1
<1>3. \A i \in 1 .. m, s \in T : next(s, i) \in T
  <2> SUFFICES ASSUME NEW i \in 1 .. m, NEW s \in T, NEW c \in s
               PROVE  Step(t, c, path[i]) \in SUBSET There(t)
    OBVIOUS
  <2>1. c \in There(t) /\ path[i] \in Elements
    BY <1>1
  <2> QED
    BY <2>1, StepFacts
<1>4. ASSUME NEW i \in 1 .. m
      PROVE  next({From(q, n + i)}, i) = {From(q, n + i + 1)}
  <2>1. Step(t, From(q, n + i), path[i]) = {From(q, n + i + 1)}
    BY <1>14 DEF Leading
  <2> QED
    BY <2>1
<1> HIDE DEF next, b, T
<1>5. h \in Steps(m, T)
  BY <1>3 DEF Steps
<1>6. PICK f : /\ f \in [0 .. m -> T] /\ f[0] = b
               /\ \A k \in 1 .. m : f[k] = h[<<k, f[k - 1]>>]
  <2> HIDE DEF h
  <2>1. \E f : Iterates(f, m, T, b, h)
    BY <1>1, <1>2, <1>5, Recursion
  <2> QED
    BY <2>1 DEF Iterates
<1>7. ASSUME NEW k \in 1 .. m
      PROVE  f[k] = next(f[k - 1], k)
  <2>1. k - 1 \in 0 .. m
    BY <1>1
  <2>2. <<k, f[k - 1]>> \in (1 .. m) \X T
    BY <1>6, <2>1
  <2>3. h[<<k, f[k - 1]>>] = next(f[k - 1], k)
    BY <2>2
  <2> QED
    BY <1>6, <2>3
<1>8. f = [i \in 0 .. m |-> IF i = 0 THEN b ELSE next(f[i - 1], i)]
  <2>1. \A i \in 0 .. m : f[i] = IF i = 0 THEN b ELSE next(f[i - 1], i)
    BY <1>1, <1>6, <1>7
  <2> QED
    BY <1>6, <2>1
<1>9. reached = [i \in 0 .. m |-> IF i = 0 THEN b ELSE next(reached[i - 1], i)]
  BY <1>8
<1>10. Leads(t, From(q, n + 1), path) = reached[m]
  BY DEF Leads, b, next
<1> HIDE DEF reached
<1> DEFINE P == {i \in 0 .. m : reached[i] = {From(q, n + i + 1)}}
<1>11. 0 \in P
  <2>1. reached[0] = b /\ n + 0 + 1 = n + 1 /\ 0 \in 0 .. m
    BY <1>1, <1>9
  <2> QED
    BY <2>1 DEF b
<1>12. \A i \in 1 .. m : i - 1 \in P => i \in P
  <2> SUFFICES ASSUME NEW i \in 1 .. m, i - 1 \in P PROVE i \in P
    OBVIOUS
  <2>1. i \in 0 .. m /\ reached[i] = next(reached[i - 1], i) /\ n + (i - 1) + 1 = n + i
    BY <1>1, <1>9
  <2> QED
    BY <1>4, <2>1
<1>13. m \in P
  <2>1. m \in 0 .. m
    BY <1>1
  <2> HIDE DEF P
  <2> QED
    BY <1>1, <1>11, <1>12, <2>1, Along
<1> QED
  BY <1>1, <1>10, <1>13

(***************************************************************************)
(* What CatalogWalk answers.                                               *)
(***************************************************************************)
Answers(t, cnid, path, r) ==
  /\ TableInv(r.db) /\ r.ok \in BOOLEAN
  /\ r.ok => /\ r.cnid \in There(t) /\ r.parent \in Cnids \cup {Root}
             /\ Leads(t, cnid, path) = {r.cnid}
             /\ Len(path) = 0 => r.cnid = cnid
             /\ r.cnid # Root => r.name \in Names
             /\ r.cnid # Root /\ (Len(path) # 0 => path[Len(path)] # Up) =>
                  t[r.cnid] = At(r.parent, r.name)

LEMMA FailedAnswers ==
  ASSUME NEW t, NEW cnid, NEW path, NEW d, TableInv(d)
  PROVE  Answers(t, cnid, path, Failed(d))
  BY DEF Answers, Failed

LEMMA ArrivedAnswers ==
  ASSUME NEW t, IsTree(t), NEW trail \in Trails, NEW path, NEW q, Complete(t, q, trail.els, path),
         NEW cnid, cnid = From(q, Len(trail.els) + 1)
  PROVE  Answers(t, cnid, path, Arrived(Folded(q, trail, path), q, cnid))
<1> DEFINE n == Len(trail.els)
           m == Len(path)
           f == Folded(q, trail, path)
           r == Arrived(f, q, cnid)
           end == From(q, Len(q) + 1)
           len == Len(f.ids)
<1>1. n \in Nat /\ m \in Nat /\ path \in Seq(Elements) /\ q \in Seq(There(t)) /\ Len(q) = n + m
  BY DEF Complete, Trails
<1>2. f \in Folds /\ Chain(t, f.ids, f.names, end)
  BY FoldedFacts
<1>3. m = 0 => f.set = <<>>
  BY FoldedFacts
<1>4. m # 0 /\ path[m] # Up => f.set = <<path[m]>>
  BY FoldedFacts
<1>5. Leads(t, cnid, path) = {end}
  BY LeadsFacts
<1> HIDE DEF f
<1>6. /\ f.ids \in Seq(Cnids) /\ f.names \in Seq(Names) /\ f.set \in Seq(Names) /\ TableInv(f.db)
      /\ len \in Nat /\ Len(f.names) = len
  BY <1>2 DEF Folds, Tables, Chain
<1>7. (IF q = <<>> THEN Root ELSE Last(q)) = end
  BY <1>1 DEF From, Last
<1> DEFINE name == IF f.set # <<>> THEN f.set[1]
                   ELSE IF f.names # <<>> THEN Last(f.names) ELSE DiskName
<1>8. r = [ok |-> TRUE, db |-> f.db, cnid |-> end, parent |-> RetParent(f.ids, cnid), name |-> name]
  BY <1>7 DEF Arrived
<1>9. RetParent(f.ids, cnid) \in Cnids \cup {Root}
  BY <1>6 DEF RetParent
<1>10. end \in There(t) /\ (len = 0 <=> end = Root) /\ (len # 0 => end = f.ids[len])
  BY <1>2, ChainFacts
<1>11. m = 0 => end = cnid
  BY <1>1
<1> HIDE DEF end
<1>12. ASSUME end # Root
       PROVE  /\ name \in Names
              /\ (m # 0 => path[m] # Up) => t[end] = At(RetParent(f.ids, cnid), name)
  <2>1. len # 0 /\ len \in 1 .. len /\ end = f.ids[len] /\ f.names # <<>> /\ Last(f.names) = f.names[len]
    BY <1>6, <1>10, <1>12 DEF Last
  <2>2. f.names[len] \in Names
    BY <1>6, <2>1
  <2>3. t[end] = At(From(f.ids, len), f.names[len])
    BY <1>2, <2>1 DEF Chain
  <2>4. RetParent(f.ids, cnid) = From(f.ids, len)
    <3>1. RetParent(f.ids, cnid) = IF len <= 1 THEN Root ELSE f.ids[len - 1]
      BY DEF RetParent
    <3>2. From(f.ids, len) = IF len = 1 THEN Root ELSE f.ids[len - 1]
      BY DEF From
    <3> HIDE DEF len
    <3>3. len <= 1 <=> len = 1
      BY <1>6, <2>1
    <3> QED
      BY <3>1, <3>2, <3>3
  <2>5. CASE f.set = <<>>
    BY <2>1, <2>2, <2>3, <2>4, <2>5
  <2>6. CASE f.set # <<>>
    <3>1. name = f.set[1] /\ name \in Names
      BY <1>6, <2>6
    <3>2. ASSUME m # 0 => path[m] # Up
          PROVE  name = f.names[len]
      <4>1. m # 0 /\ path[m] # Up /\ name = path[m]
        BY <1>3, <1>4, <2>6, <3>1, <3>2
      <4>2. Leading(t, q, n, path)
        BY CompleteStep
      <4>3. m \in 1 .. m
        BY <1>1, <4>1
      <4>4. /\ From(q, n + m) \in There(t) /\ path[m] \in Elements
            /\ Step(t, From(q, n + m), path[m]) = {q[n + m]}
            /\ From(q, n + m + 1) = q[n + m]
        BY <4>2, <4>3 DEF Leading
      <4>5. t[q[n + m]] = At(From(q, n + m), path[m])
        BY <4>1, <4>4, StepFacts
      <4>6. end = q[n + m]
        BY <1>1, <4>4 DEF end
      <4> QED
        BY <2>3, <4>1, <4>5, <4>6 DEF At
    <3> QED
      BY <2>3, <2>4, <3>1, <3>2
  <2> QED
    BY <2>5, <2>6
<1> HIDE DEF name
<1>13. Answers(t, cnid, path, r)
  <2>1. /\ r.ok = TRUE /\ r.db = f.db /\ r.cnid = end /\ r.parent = RetParent(f.ids, cnid)
        /\ r.name = name
    BY <1>8
  <2> HIDE DEF r
  <2> QED
    BY <1>5, <1>6, <1>9, <1>10, <1>11, <1>12, <2>1 DEF Answers
<1> QED
  BY <1>13 DEF f

LEMMA WalkCases ==
  ASSUME NEW t, IsTree(t), NEW d, TableInv(d), NEW cnid \in AllDirs, NEW path \in Seq(Elements),
         NEW trail, trail = Trail(d, cnid), NEW q, q = Walk9(t, trail.els \o path)
  PROVE  /\ trail \in Trails
         /\ \/ CatalogWalk(t, d, cnid, path) = Failed(trail.db)
            \/ /\ Reached(trail) /\ Len(trail.els) + Len(path) <= MaxEl
               /\ Complete(t, q, trail.els, path) /\ cnid = From(q, Len(trail.els) + 1)
               /\ CatalogWalk(t, d, cnid, path) = Arrived(Folded(q, trail, path), q, cnid)
<1> DEFINE els == trail.els
<1>1. cnid \in Cnids \cup {Root}
  BY CatalogAssumption DEF AllDirs
<1>2. trail \in Trails /\ (els = <<>> => trail.at = cnid)
  BY <1>1, TrailFacts
<1>3. TableInv(trail.db) /\ els \in Seq(Names) /\ els \in Seq(Elements) /\ Len(els) \in Nat
  BY <1>2 DEF Trails, Tables, Elements
<1>4. CatalogWalk(t, d, cnid, path) = WalkFrom(t, trail, cnid, path)
  BY DEF CatalogWalk
<1>6. CASE ~(Reached(trail) /\ Len(trail.els) + Len(path) <= MaxEl)
  BY <1>2, <1>4, <1>6 DEF WalkFrom
<1>7. CASE Reached(trail) /\ Len(trail.els) + Len(path) <= MaxEl
  <2>1. CatalogWalk(t, d, cnid, path) = Judged(q, trail, cnid, path)
    BY <1>4, <1>7 DEF WalkFrom
  <2>2. els \o path \in Seq(Elements)
    BY <1>3
  <2>3. Walked(t, q, els \o path)
    BY <2>2, WalkFacts
  <2> DEFINE stale == OutOfDate(q, Len(els), cnid)
             astray == \E i \in 1 .. Len(q) - 1 : q[i] \notin AllDirs
             short == Len(q) < Len(els) + Len(path)
  <2>4. CASE astray \/ short \/ stale
    <3>1. Judged(q, trail, cnid, path) = Failed(trail.db)
      BY <2>4 DEF Judged
    <3> QED
      BY <1>2, <2>1, <3>1
  <2>5. CASE ~(astray \/ short \/ stale)
    <3>1. Judged(q, trail, cnid, path) = Arrived(Folded(q, trail, path), q, cnid)
      BY <2>5 DEF Judged
    <3>2. Len(q) >= Len(els) + Len(path)
      <4>1. Len(q) \in Nat /\ Len(path) \in Nat
        BY <2>3 DEF Walked
      <4> QED
        BY <1>3, <2>5, <4>1
    <3>3. Complete(t, q, els, path)
      BY <1>3, <2>3, <3>2, CompleteFacts
    <3>4. cnid = From(q, Len(els) + 1)
      <4>1. CASE Len(els) = 0
        <5>1. els = <<>>
          BY <1>3, <4>1
        <5> QED
          BY <1>2, <1>7, <4>1, <5>1 DEF From, Reached
      <4>2. CASE Len(els) # 0
        <5>1. q[Len(els)] = cnid
          BY <1>3, <2>5, <4>2 DEF OutOfDate
        <5> QED
          BY <1>3, <4>2, <5>1 DEF From
      <4> QED
        BY <4>1, <4>2
    <3> QED
      BY <1>2, <1>7, <2>1, <3>1, <3>3, <3>4
  <2> QED
    BY <2>4, <2>5
<1> QED
  BY <1>6, <1>7

LEMMA WalkAnswers ==
  ASSUME NEW t, IsTree(t), NEW d, TableInv(d), NEW cnid \in AllDirs, NEW path \in Seq(Elements)
  PROVE  Answers(t, cnid, path, CatalogWalk(t, d, cnid, path))
<1> DEFINE trail == Trail(d, cnid)
           q == Walk9(t, trail.els \o path)
           r == CatalogWalk(t, d, cnid, path)
<1>1. /\ trail \in Trails
      /\ \/ r = Failed(trail.db)
         \/ /\ Complete(t, q, trail.els, path) /\ cnid = From(q, Len(trail.els) + 1)
            /\ r = Arrived(Folded(q, trail, path), q, cnid)
  BY WalkCases
<1> HIDE DEF trail, q, r
<1>2. CASE r = Failed(trail.db)
  <2>1. TableInv(trail.db)
    BY <1>1 DEF Trails, Tables
  <2> QED
    BY <1>2, <2>1, FailedAnswers DEF r
<1>3. CASE /\ Complete(t, q, trail.els, path) /\ cnid = From(q, Len(trail.els) + 1)
           /\ r = Arrived(Folded(q, trail, path), q, cnid)
  BY <1>1, <1>3, ArrivedAnswers DEF r
<1> QED
  BY <1>1, <1>2, <1>3

(***************************************************************************)
(* The tree stays one.                                                     *)
(***************************************************************************)
LEMMA TreeIs ==
  ASSUME NEW t, DOMAIN t \subseteq Cnids,
         \A c \in DOMAIN t : \E dir \in AllDirs, name \in Names :
           t[c] = At(dir, name) /\ dir \in There(t),
         \A c, d \in DOMAIN t : t[c] = t[d] => c = d
  PROVE  IsTree(t)
<1> SUFFICES ASSUME NEW c \in DOMAIN t
             PROVE  t[c] \in [parent : AllDirs, name : Names] /\ t[c].parent \in DOMAIN t \cup {Root}
  BY DEF IsTree
<1>1. PICK dir \in AllDirs, name \in Names : t[c] = At(dir, name) /\ dir \in There(t)
  OBVIOUS
<1> QED
  BY <1>1 DEF At, There

LEMMA TreeGrows ==
  ASSUME NEW t, IsTree(t), NEW new \in Cnids, new \notin DOMAIN t,
         NEW dir \in AllDirs, dir \in There(t), NEW name \in Names, Named(t, dir, name) = {}
  PROVE  IsTree(Put(t, new, At(dir, name)))
<1> DEFINE u == Put(t, new, At(dir, name))
<1>1. /\ DOMAIN u = DOMAIN t \cup {new} /\ u[new] = At(dir, name)
      /\ \A c \in DOMAIN t : u[c] = t[c]
  BY DEF Put
<1> HIDE DEF u
<1>2. DOMAIN u \subseteq Cnids /\ There(t) \subseteq There(u)
  BY <1>1, TreeFacts DEF There
<1>3. ASSUME NEW c \in DOMAIN u
      PROVE  \E p \in AllDirs, n \in Names : u[c] = At(p, n) /\ p \in There(u)
  BY <1>1, <1>2, TreeFacts
<1>4. \A c \in DOMAIN t : t[c] # At(dir, name)
  BY DEF Named, Children, At
<1>5. \A c, d \in DOMAIN u : u[c] = u[d] => c = d
  BY <1>1, <1>4, TreeFacts
<1>6. IsTree(u)
  BY <1>2, <1>3, <1>5, TreeIs
<1> QED
  BY <1>6 DEF u

LEMMA TreeShrinks ==
  ASSUME NEW t, IsTree(t), NEW x \in DOMAIN t, Children(t, x) = {}
  PROVE  IsTree(Without(t, x))
<1> DEFINE u == Without(t, x)
<1>1. DOMAIN u = DOMAIN t \ {x} /\ \A c \in DOMAIN u : u[c] = t[c]
  BY DEF Without
<1> HIDE DEF u
<1>2. DOMAIN u \subseteq Cnids
  BY <1>1, TreeFacts
<1>3. ASSUME NEW c \in DOMAIN u
      PROVE  \E p \in AllDirs, n \in Names : u[c] = At(p, n) /\ p \in There(u)
  <2>1. c \in DOMAIN t /\ u[c] = t[c] /\ t[c].parent # x
    BY <1>1 DEF Children
  <2>2. /\ t[c].parent \in AllDirs /\ t[c].name \in Names /\ t[c].parent \in There(t)
        /\ t[c] = At(t[c].parent, t[c].name)
    BY <2>1, TreeFacts
  <2>3. t[c].parent \in There(u)
    BY <1>1, <2>1, <2>2 DEF There
  <2> QED
    BY <2>1, <2>2, <2>3
<1>4. \A c, d \in DOMAIN u : u[c] = u[d] => c = d
  BY <1>1, TreeFacts
<1>5. IsTree(u)
  BY <1>2, <1>3, <1>4, TreeIs
<1> QED
  BY <1>5 DEF u

Placed(t, x, e) == [t EXCEPT ![x] = e]

LEMMA TreeMoves ==
  ASSUME NEW t, IsTree(t), NEW x \in DOMAIN t,
         NEW dir \in AllDirs, dir \in There(t), NEW name \in Names, Named(t, dir, name) = {}
  PROVE  IsTree(Placed(t, x, At(dir, name)))
<1> DEFINE u == Placed(t, x, At(dir, name))
<1>1. /\ DOMAIN u = DOMAIN t /\ u[x] = At(dir, name)
      /\ \A c \in DOMAIN t : c # x => u[c] = t[c]
  BY DEF Placed
<1> HIDE DEF u
<1>2. DOMAIN u \subseteq Cnids /\ There(t) = There(u)
  BY <1>1, TreeFacts DEF There
<1>3. ASSUME NEW c \in DOMAIN u
      PROVE  \E p \in AllDirs, n \in Names : u[c] = At(p, n) /\ p \in There(u)
  BY <1>1, <1>2, TreeFacts
<1>4. \A c \in DOMAIN t : t[c] # At(dir, name)
  BY DEF Named, Children, At
<1>5. \A c, d \in DOMAIN u : u[c] = u[d] => c = d
  BY <1>1, <1>4, TreeFacts
<1>6. IsTree(u)
  BY <1>2, <1>3, <1>5, TreeIs
<1> QED
  BY <1>6 DEF u

(***************************************************************************)
(* The invariant.                                                          *)
(***************************************************************************)
CatalogInv ==
  /\ IsTree(tree) /\ TableInv(db)
  /\ listed \in AllDirs \cup {NoDir}
  /\ changes \in 0 .. MaxChanges

LEMMA InitEstablishes == Init => CatalogInv
<1> SUFFICES ASSUME Init PROVE CatalogInv
  OBVIOUS
<1>1. IsTree(tree) /\ MaxChanges \in Nat
  BY CatalogAssumption DEF Init
<1>2. TableInv(db)
  BY EmptyKeeps DEF Init
<1> QED
  BY <1>1, <1>2 DEF Init, CatalogInv

\* The calls, on paths that start in a directory.
LEMMA CallFacts ==
  ASSUME CatalogInv, NEW call \in Calls
  PROVE  /\ call[1] \in AllDirs /\ call[2] \in Seq(Elements) /\ Len(call[2]) \in Nat
         /\ Answers(tree, call[1], call[2], CatalogWalk(tree, db, call[1], call[2]))
<1>1. call[1] \in AllDirs /\ call[2] \in Paths
  BY DEF Calls
<1>2. call[2] \in Seq(Elements)
  BY <1>1, CatalogAssumption DEF Elements
<1>3. Answers(tree, call[1], call[2], CatalogWalk(tree, db, call[1], call[2]))
  BY <1>1, <1>2, WalkAnswers DEF CatalogInv
<1> QED
  BY <1>1, <1>2, <1>3

LEMMA FindKeeps ==
  ASSUME CatalogInv, NEW call \in Calls, Find(call[1], call[2])
  PROVE  CatalogInv'
<1>1. TableInv(db')
  BY CallFacts DEF Answers, Find
<1> QED
  BY <1>1 DEF CatalogInv, Find

LEMMA ListingKeeps ==
  ASSUME CatalogInv, NEW dir \in AllDirs, NEW again \in BOOLEAN, FindByIndex(dir, again)
  PROVE  CatalogInv'
<1> DEFINE w == CatalogWalk(tree, db, dir, <<>>)
<1>1. TableInv(w.db)
  <2>1. <<>> \in Seq(Elements)
    OBVIOUS
  <2> QED
    BY <2>1, WalkAnswers DEF Answers, CatalogInv
<1>2. PICK r : /\ TableInv(r.db)
               /\ listed' = IF r.ok THEN dir ELSE NoDir
               /\ \/ db' = r.db
                  \/ r.ok /\ \E c \in Children(tree, dir) : db' = CatalogSet(r.db, c, dir, tree[c].name)
  <2> DEFINE s == [ok |-> TRUE, db |-> db]
  <2>1. s.db = db
    OBVIOUS
  <2> HIDE DEF s
  <2>2. TableInv(s.db)
    BY <2>1 DEF CatalogInv
  <2>3. \E r \in {IF again THEN s ELSE w} :
          /\ listed' = IF r.ok THEN dir ELSE NoDir
          /\ \/ db' = r.db
             \/ r.ok /\ \E c \in Children(tree, dir) : db' = CatalogSet(r.db, c, dir, tree[c].name)
    BY DEF FindByIndex, s
  <2> HIDE DEF w
  <2> QED
    BY <1>1, <2>2, <2>3 DEF w
<1>3. TableInv(db')
  <2>1. CASE db' = r.db
    BY <1>2, <2>1
  <2>2. ASSUME NEW c \in Children(tree, dir), db' = CatalogSet(r.db, c, dir, tree[c].name)
        PROVE  TableInv(db')
    <3>1. c \in DOMAIN tree
      BY DEF Children
    <3>2. c \in Cnids /\ tree[c].name \in Names /\ dir \in Cnids \cup {Root}
      BY <3>1, TreeFacts, CatalogAssumption DEF CatalogInv, AllDirs
    <3> QED
      BY <1>2, <2>2, <3>2, SetKeeps
  <2> QED
    BY <1>2, <2>1, <2>2
<1>4. listed' \in AllDirs \cup {NoDir}
  BY <1>2
<1> QED
  BY <1>3, <1>4 DEF CatalogInv, FindByIndex

LEMMA ChangedFacts ==
  ASSUME CatalogInv, Changed
  PROVE  changes' \in 0 .. MaxChanges
  BY CatalogAssumption DEF CatalogInv, Changed

LEMMA DirsAreNumbers == AllDirs \subseteq Cnids \cup {Root}
  BY CatalogAssumption DEF AllDirs

LEMMA CreateKeeps ==
  ASSUME CatalogInv, NEW call \in Calls, NEW name \in Names, NEW new \in Cnids,
         Create(call[1], call[2], name, new)
  PROVE  CatalogInv'
<1> DEFINE r == CatalogWalk(tree, db, call[1], call[2])
<1>1. /\ new \notin DOMAIN tree /\ r.ok /\ r.cnid \in AllDirs /\ Named(tree, r.cnid, name) = {}
      /\ tree' = Put(tree, new, At(r.cnid, name))
      /\ db' = IF new \in Dirs THEN CatalogSet(r.db, new, r.cnid, name) ELSE r.db
      /\ Changed /\ listed' = listed
  BY DEF Create, Unused
<1>2. Answers(tree, call[1], call[2], r)
  BY CallFacts
<1> HIDE DEF r
<1>3. TableInv(r.db) /\ r.cnid \in There(tree) /\ r.cnid \in Cnids \cup {Root}
  BY <1>1, <1>2, DirsAreNumbers DEF Answers
<1>4. TableInv(db')
  BY <1>1, <1>3, SetKeeps
<1>5. IsTree(tree')
  BY <1>1, <1>3, TreeGrows DEF CatalogInv
<1> QED
  BY <1>1, <1>4, <1>5, ChangedFacts DEF CatalogInv

\* The directory above a file that is there.
LEMMA AboveFacts ==
  ASSUME NEW t, IsTree(t), NEW c \in There(t), c # Root
  PROVE  c \in DOMAIN t /\ ParentOf(t, c) \in AllDirs /\ ParentOf(t, c) \in There(t)
  BY TreeFacts DEF There, ParentOf

LEMMA NamedFacts ==
  ASSUME NEW t, IsTree(t), NEW dir, NEW name, NEW c \in Named(t, dir, name)
  PROVE  c \in DOMAIN t /\ t[c] = At(dir, name) /\ name \in Names
  BY TreeFacts DEF Named, Children

LEMMA DeleteKeeps ==
  ASSUME CatalogInv, NEW call \in Calls, Delete(call[1], call[2])
  PROVE  CatalogInv'
<1> DEFINE r == CatalogWalk(tree, db, call[1], call[2])
<1>1. PICK c \in Named(tree, ParentOf(tree, r.cnid), r.name) :
        /\ Children(tree, c) = {} /\ tree' = Without(tree, c) /\ db' = r.db
        /\ Changed /\ listed' = listed
  BY DEF Delete
<1>2. TableInv(db')
  BY <1>1, CallFacts DEF Answers
<1> HIDE DEF r
<1>3. c \in DOMAIN tree
  BY DEF Named, Children
<1>4. IsTree(tree')
  BY <1>1, <1>3, TreeShrinks DEF CatalogInv
<1> QED
  BY <1>1, <1>2, <1>4, ChangedFacts DEF CatalogInv

LEMMA RenameKeeps ==
  ASSUME CatalogInv, NEW call \in Calls, NEW name \in Names, Rename(call[1], call[2], name)
  PROVE  CatalogInv'
<1> DEFINE r == CatalogWalk(tree, db, call[1], call[2])
           dir == ParentOf(tree, r.cnid)
           moved(c) == /\ IsFile(c)
                       /\ tree' = [tree EXCEPT ![c].name = name]
                       /\ db' = CatalogSet(r.db, r.cnid, r.parent, name)
           reserved(new) == /\ IsFile(new)
                            /\ tree' = Put(tree, new, At(dir, name))
                            /\ db' = r.db
<1>1. /\ r.ok /\ r.cnid # Root /\ Named(tree, dir, name) = {} /\ Changed /\ listed' = listed
      /\ \/ \E c \in Named(tree, dir, r.name) : moved(c)
         \/ \E new \in Unused : reserved(new)
  BY DEF Rename
<1>2. Answers(tree, call[1], call[2], r)
  BY CallFacts
<1> HIDE DEF r
<1>3. TableInv(r.db) /\ r.cnid \in There(tree) /\ r.parent \in Cnids \cup {Root}
  BY <1>1, <1>2 DEF Answers
<1>4. r.cnid \in Cnids /\ dir \in AllDirs /\ dir \in There(tree)
  BY <1>1, <1>3, AboveFacts, TreeFacts DEF CatalogInv
<1> HIDE DEF dir
<1>5. ASSUME NEW c \in Named(tree, dir, r.name), moved(c)
      PROVE  TableInv(db') /\ IsTree(tree')
  <2>1. c \in DOMAIN tree /\ tree[c] = At(dir, r.name)
    BY NamedFacts DEF CatalogInv
  <2>2. tree' = Placed(tree, c, At(dir, name))
    <3>1. [tree[c] EXCEPT !.name = name] = At(dir, name)
      BY <2>1 DEF At
    <3>2. tree' = [tree EXCEPT ![c] = [tree[c] EXCEPT !.name = name]]
      BY <1>5
    <3> QED
      BY <3>1, <3>2 DEF Placed
  <2>3. IsTree(tree')
    BY <1>1, <1>4, <2>1, <2>2, TreeMoves DEF CatalogInv
  <2> QED
    BY <1>3, <1>4, <1>5, <2>3, SetKeeps
<1>6. ASSUME NEW new \in Unused, reserved(new)
      PROVE  TableInv(db') /\ IsTree(tree')
  BY <1>1, <1>3, <1>4, <1>6, TreeGrows DEF CatalogInv, Unused
<1>7. TableInv(db') /\ IsTree(tree')
  BY <1>1, <1>5, <1>6
<1> QED
  BY <1>1, <1>7, ChangedFacts DEF CatalogInv

LEMMA CatMoveKeeps ==
  ASSUME CatalogInv, NEW call \in Calls, NEW dir \in AllDirs, CatMove(call[1], call[2], dir)
  PROVE  CatalogInv'
<1> DEFINE r == CatalogWalk(tree, db, call[1], call[2])
           s == CatalogWalk(tree, r.db, dir, <<>>)
           above == ParentOf(tree, r.cnid)
           moved(c) == /\ IsFile(c)
                       /\ tree' = [tree EXCEPT ![c].parent = dir]
           reserved(new) == /\ IsFile(new)
                            /\ tree' = Put(tree, new, At(dir, r.name))
<1>1. /\ r.ok /\ r.cnid # Root /\ s.ok /\ Named(tree, dir, r.name) = {} /\ Changed /\ listed' = listed
      /\ db' = s.db
      /\ \/ \E c \in Named(tree, above, r.name) : moved(c)
         \/ \E new \in Unused : reserved(new)
  BY DEF CatMove
<1>2. Answers(tree, call[1], call[2], r)
  BY CallFacts
<1>3. Answers(tree, dir, <<>>, s)
  <2>1. <<>> \in Seq(Elements)
    OBVIOUS
  <2>2. TableInv(r.db)
    BY <1>2 DEF Answers
  <2> QED
    BY <2>1, <2>2, WalkAnswers DEF CatalogInv
<1> HIDE DEF r, s
<1>4. r.name \in Names
  BY <1>1, <1>2 DEF Answers
<1>5. TableInv(db') /\ dir \in There(tree)
  <2>1. Len(<<>>) = 0
    OBVIOUS
  <2> QED
    BY <1>1, <1>3, <2>1 DEF Answers
<1> HIDE DEF above
<1>6. ASSUME NEW c \in Named(tree, above, r.name), moved(c)
      PROVE  IsTree(tree')
  <2>1. c \in DOMAIN tree /\ tree[c] = At(above, r.name)
    BY NamedFacts DEF CatalogInv
  <2>2. tree' = Placed(tree, c, At(dir, r.name))
    <3>1. [tree[c] EXCEPT !.parent = dir] = At(dir, r.name)
      BY <2>1 DEF At
    <3>2. tree' = [tree EXCEPT ![c] = [tree[c] EXCEPT !.parent = dir]]
      BY <1>6
    <3> QED
      BY <3>1, <3>2 DEF Placed
  <2> QED
    BY <1>1, <1>4, <1>5, <2>1, <2>2, TreeMoves DEF CatalogInv
<1>7. ASSUME NEW new \in Unused, reserved(new)
      PROVE  IsTree(tree')
  BY <1>1, <1>4, <1>5, <1>7, TreeGrows DEF CatalogInv, Unused
<1>8. IsTree(tree')
  BY <1>1, <1>6, <1>7
<1> QED
  BY <1>1, <1>5, <1>8, ChangedFacts DEF CatalogInv

LEMMA HostKeeps ==
  ASSUME CatalogInv, NEW c \in Cnids,
         \/ \E dir \in AllDirs, name \in Names : HostMoves(c, dir, name) \/ HostCreates(c, dir, name)
         \/ HostDeletes(c)
  PROVE  CatalogInv'
<1>1. ASSUME NEW dir \in AllDirs, Exists(dir) PROVE dir \in There(tree)
  BY <1>1 DEF Exists, There
<1>2. ASSUME NEW dir \in AllDirs, NEW name \in Names, HostMoves(c, dir, name)
      PROVE  CatalogInv'
  <2>1. IsTree(Placed(tree, c, At(dir, name)))
    BY <1>1, <1>2, TreeMoves DEF HostMoves, CatalogInv
  <2> QED
    BY <1>2, <2>1, ChangedFacts DEF HostMoves, CatalogInv, Placed
<1>3. ASSUME NEW dir \in AllDirs, NEW name \in Names, HostCreates(c, dir, name)
      PROVE  CatalogInv'
  <2>1. IsTree(Put(tree, c, At(dir, name)))
    BY <1>1, <1>3, TreeGrows DEF HostCreates, CatalogInv, Unused
  <2> QED
    BY <1>3, <2>1, ChangedFacts DEF HostCreates, CatalogInv
<1>4. ASSUME HostDeletes(c)
      PROVE  CatalogInv'
  <2>1. IsTree(Without(tree, c))
    BY <1>4, TreeShrinks DEF HostDeletes, CatalogInv
  <2> QED
    BY <1>4, <2>1, ChangedFacts DEF HostDeletes, CatalogInv
<1> QED
  BY <1>2, <1>3, <1>4

LEMMA RestartStepKeeps ==
  ASSUME CatalogInv, Restart
  PROVE  CatalogInv'
  BY RestartedKeeps, ChangedFacts DEF CatalogInv, Restart

LEMMA NextKeeps == CatalogInv /\ [Next]_vars => CatalogInv'
<1> SUFFICES ASSUME CatalogInv, [Next]_vars PROVE CatalogInv'
  OBVIOUS
<1>1. ASSUME NEW call \in Calls, Find(call[1], call[2]) PROVE CatalogInv'
  BY <1>1, FindKeeps
<1>2. ASSUME NEW call \in Calls, NEW name \in Names, NEW new \in Cnids,
             Create(call[1], call[2], name, new)
      PROVE  CatalogInv'
  BY <1>2, CreateKeeps
<1>3. ASSUME NEW call \in Calls, Delete(call[1], call[2]) PROVE CatalogInv'
  BY <1>3, DeleteKeeps
<1>4. ASSUME NEW call \in Calls, NEW name \in Names, Rename(call[1], call[2], name)
      PROVE  CatalogInv'
  BY <1>4, RenameKeeps
<1>5. ASSUME NEW call \in Calls, NEW dir \in AllDirs, CatMove(call[1], call[2], dir)
      PROVE  CatalogInv'
  BY <1>5, CatMoveKeeps
<1>6. ASSUME NEW dir \in AllDirs, NEW again \in BOOLEAN, FindByIndex(dir, again)
      PROVE  CatalogInv'
  BY <1>6, ListingKeeps
<1>7. ASSUME NEW c \in Cnids,
             \/ \E dir \in AllDirs, name \in Names : HostMoves(c, dir, name) \/ HostCreates(c, dir, name)
             \/ HostDeletes(c)
      PROVE  CatalogInv'
  BY <1>7, HostKeeps
<1>8. ASSUME Restart PROVE CatalogInv'
  BY <1>8, RestartStepKeeps
<1>9. ASSUME UNCHANGED vars PROVE CatalogInv'
  BY <1>9 DEF CatalogInv, vars
<1> QED
  BY <1>1, <1>2, <1>3, <1>4, <1>5, <1>6, <1>7, <1>8, <1>9 DEF Next

\* The inductive invariant: the host's tree is one, the table is within its
\* bounds, and its entries and files hold what CatalogSet was last told.
THEOREM CatalogInvariant == Spec => []CatalogInv
<1>1. Init => CatalogInv
  BY InitEstablishes
<1>2. CatalogInv /\ [Next]_vars => CatalogInv'
  BY NextKeeps
<1> QED
  BY <1>1, <1>2, PTL DEF Spec

LEMMA InvKeepsLast == CatalogInv => LastSetWins
<1> SUFFICES ASSUME CatalogInv PROVE LastSetWins
  OBVIOUS
<1>1. Unique(db.slots) /\ db.spilled \in Saved /\ db.last \in Saved
  BY TableFacts DEF CatalogInv
<1>2. BucketOK(db)
  <2>1. \A i \in DOMAIN db.slots : /\ db.slots[i].cnid \in Cnids
                                   /\ Content(db.slots[i]) \in Contents
                                   /\ Places(db.slots[i].cnid, db.slots) = {i}
    BY <1>1, UniqueFacts
  <2>2. Len(db.slots) <= Slots /\ UsedBytes(db.slots) <= Bytes
    BY DEF CatalogInv, TableInv
  <2>3. /\ DOMAIN db.spilled \subseteq Cnids /\ DOMAIN db.last \subseteq Cnids
        /\ \A c \in DOMAIN db.spilled : db.spilled[c] \in Contents
    BY <1>1, SavedFacts
  <2> QED
    BY <2>1, <2>2, <2>3 DEF BucketOK
<1>3. LastKept(db)
  BY DEF CatalogInv, TableInv
<1> QED
  BY <1>2, <1>3 DEF CatalogInv, LastSetWins, TypeOK, LastKept

\* CatalogGet gives back what CatalogSet last said of a CNID, whatever has been
\* evicted, saved and brought back since.
THEOREM LastSetIsKept == Spec => []LastSetWins
  BY CatalogInvariant, InvKeepsLast, PTL

LEMMA InvFindsAsked == CatalogInv => AskedIsFound
<1> SUFFICES ASSUME CatalogInv, NEW call \in Calls
             PROVE  CatalogWalk(tree, db, call[1], call[2]).ok =>
                      {CatalogWalk(tree, db, call[1], call[2]).cnid} = Leads(tree, call[1], call[2])
  BY DEF AskedIsFound
<1>1. Answers(tree, call[1], call[2], CatalogWalk(tree, db, call[1], call[2]))
  BY CallFacts
<1> QED
  BY <1>1 DEF Answers

\* CatalogWalk, when it succeeds, has found what the path leads to from the
\* directory asked for, whatever has changed since the table was told of it.
THEOREM WalkFindsAsked == Spec => []AskedIsFound
  BY CatalogInvariant, InvFindsAsked, PTL

LEMMA InvTellsTruth == CatalogInv => NameAndParentTrue
<1> SUFFICES ASSUME CatalogInv, NEW call \in Calls,
                    NEW r, r = CatalogWalk(tree, db, call[1], call[2]),
                    r.ok, r.cnid # Root, call[2] # <<>> => Last(call[2]) # Up
             PROVE  tree[r.cnid] = At(r.parent, r.name)
  BY DEF NameAndParentTrue
<1>1. Answers(tree, call[1], call[2], r)
  BY CallFacts
<1>2. call[2] # <<>> <=> Len(call[2]) # 0
  BY CallFacts
<1> QED
  BY <1>1, <1>2 DEF Answers, Last

\* The parent and name CatalogWalk returns, by which files are renamed and
\* deleted, are those of the file it found.
THEOREM WalkTellsTruth == Spec => []NameAndParentTrue
  BY CatalogInvariant, InvTellsTruth, PTL

(***************************************************************************)
(* The table connects what a walk returns to the root.                     *)
(***************************************************************************)
LEMMA GetLeaves ==
  ASSUME NEW t, TableInv(t), NEW c
  PROVE  CatalogGet(t, c).last = t.last /\ CatalogGet(t, c).lost = t.lost
<1>1. t = [slots |-> t.slots, spilled |-> t.spilled, last |-> t.last, lost |-> t.lost]
  BY TableFacts
<1>2. CASE Cached(c, t)
  BY <1>1, <1>2 DEF CatalogGet
<1>3. CASE ~Cached(c, t)
  BY <1>1, <1>3 DEF CatalogGet, Unspilled
<1> QED
  BY <1>2, <1>3

\* What CatalogGet finds is what was last set, if it is not lost sight of.
LEMMA EntryIsLast ==
  ASSUME NEW t, TableInv(t), NEW c, Known(t, c)
  PROVE  c \in DOMAIN t.last /\ (c \notin t.lost => Entry(t, c) = t.last[c])
<1>1. Unique(t.slots) /\ LastKept(t) /\ OnlySet(t)
  BY TableFacts
<1>2. CASE Cached(c, t)
  <2>1. PICK i \in 1 .. Len(t.slots) : t.slots[i].cnid = c
    BY <1>1, <1>2, CachedFacts
  <2> QED
    BY <1>1, <2>1 DEF OnlySet, LastKept, Remembers
<1>3. CASE ~Cached(c, t)
  <2>1. c \in DOMAIN t.spilled
    BY <1>1, <1>3, CachedFacts
  <2> QED
    BY <1>1, <2>1 DEF OnlySet, LastKept, Remembers
<1> QED
  BY <1>2, <1>3

AboveOnTrail(t, j) == IF j = 1 THEN t.at ELSE t.ids[j - 1]

\* The trail is what the table was last told, all the way.
Recorded(t, d) ==
  /\ t.db.last = d.last /\ t.db.lost = d.lost /\ Len(t.ids) = Len(t.els)
  /\ \A j \in 1 .. Len(t.ids) :
       /\ t.ids[j] \in DOMAIN d.last
       /\ t.ids[j] \notin d.lost => d.last[t.ids[j]] = At(AboveOnTrail(t, j), t.els[j])

LEMMA ClimbRecords ==
  ASSUME NEW t \in Trails, NEW d, Recorded(t, d)
  PROVE  Recorded(Climb(t), d)
<1>1. /\ TableInv(t.db) /\ t.els \in Seq(Names) /\ t.ids \in Seq(Cnids)
      /\ Len(t.ids) \in Nat /\ Len(t.els) = Len(t.ids)
  BY DEF Trails, Tables, Recorded
<1>2. CASE t.at = Root \/ ~t.ok
  BY <1>2 DEF Climb
<1>3. CASE ~(t.at = Root \/ ~t.ok) /\ ~Known(t.db, t.at)
  <2> DEFINE u == Climb(t)
  <2>1. u = [t EXCEPT !.ok = FALSE]
    BY <1>3 DEF Climb
  <2>2. u.at = t.at /\ u.db = t.db /\ u.els = t.els /\ u.ids = t.ids
    BY <2>1 DEF Trails
  <2> HIDE DEF u
  <2>3. \A j : AboveOnTrail(u, j) = AboveOnTrail(t, j)
    BY <2>2 DEF AboveOnTrail
  <2>4. Recorded(u, d)
    BY <2>2, <2>3 DEF Recorded
  <2> QED
    BY <2>4 DEF u
<1>4. CASE ~(t.at = Root \/ ~t.ok) /\ Known(t.db, t.at)
  <2> DEFINE u == Climb(t)
             e == Entry(t.db, t.at)
             n == Len(t.ids)
             els == <<e.name>> \o t.els
             ids == <<t.at>> \o t.ids
  <2>1. u = [at |-> e.parent, ok |-> TRUE, db |-> CatalogGet(t.db, t.at), els |-> els, ids |-> ids]
    BY <1>4 DEF Climb
  <2>2. t.at \in Cnids /\ e \in Contents /\ e.name \in Names
    BY <1>1, <1>4, EntryFacts
  <2>3. e = At(e.parent, e.name)
    BY <2>2 DEF Contents, At
  <2>4. u.db.last = d.last /\ u.db.lost = d.lost
    BY <1>1, <2>1, GetLeaves DEF Recorded
  <2>5. t.at \in DOMAIN d.last /\ (t.at \notin d.lost => d.last[t.at] = e)
    BY <1>1, <1>4, EntryIsLast DEF Recorded
  <2> HIDE DEF e
  <2>6. /\ Len(els) = n + 1 /\ els[1] = e.name
        /\ \A j \in 2 .. n + 1 : els[j] = t.els[j - 1]
    <3>1. <<e.name>> \in Seq(Names) /\ Len(<<e.name>>) = 1 /\ <<e.name>>[1] = e.name
      BY <2>2
    <3>2. /\ Len(els) = Len(<<e.name>>) + Len(t.els)
          /\ \A j \in 1 .. Len(<<e.name>>) + Len(t.els) :
               els[j] = IF j <= Len(<<e.name>>) THEN <<e.name>>[j] ELSE t.els[j - Len(<<e.name>>)]
      BY <1>1, <3>1, ConcatProperties
    <3> HIDE DEF els
    <3> QED
      BY <1>1, <3>1, <3>2
  <2>7. /\ Len(ids) = n + 1 /\ ids[1] = t.at
        /\ \A j \in 2 .. n + 1 : ids[j] = t.ids[j - 1]
    <3>1. <<t.at>> \in Seq(Cnids) /\ Len(<<t.at>>) = 1 /\ <<t.at>>[1] = t.at
      BY <2>2
    <3>2. /\ Len(ids) = Len(<<t.at>>) + Len(t.ids)
          /\ \A j \in 1 .. Len(<<t.at>>) + Len(t.ids) :
               ids[j] = IF j <= Len(<<t.at>>) THEN <<t.at>>[j] ELSE t.ids[j - Len(<<t.at>>)]
      BY <1>1, <3>1, ConcatProperties
    <3> HIDE DEF ids
    <3> QED
      BY <1>1, <3>1, <3>2
  <2> HIDE DEF els, ids
  <2>8. u.at = e.parent /\ u.els = els /\ u.ids = ids
    BY <2>1
  <2> HIDE DEF u
  <2>9. ASSUME NEW j \in 1 .. n + 1
        PROVE  /\ ids[j] \in DOMAIN d.last
               /\ ids[j] \notin d.lost => d.last[ids[j]] = At(AboveOnTrail(u, j), els[j])
    <3>1. CASE j = 1
      BY <2>3, <2>5, <2>6, <2>7, <2>8, <3>1 DEF AboveOnTrail
    <3>2. CASE j # 1
      <4>1. j \in 2 .. n + 1 /\ j - 1 \in 1 .. n
        BY <1>1, <3>2
      <4>2. ids[j] = t.ids[j - 1] /\ els[j] = t.els[j - 1]
        BY <2>6, <2>7, <4>1
      <4>3. AboveOnTrail(u, j) = AboveOnTrail(t, j - 1)
        <5>1. AboveOnTrail(u, j) = ids[j - 1]
          BY <2>8, <3>2 DEF AboveOnTrail
        <5>2. CASE j = 2
          BY <2>7, <5>1, <5>2 DEF AboveOnTrail
        <5>3. CASE j # 2
          <6>1. j - 1 \in 2 .. n + 1 /\ j - 1 # 1
            BY <1>1, <4>1, <5>3
          <6>2. ids[j - 1] = t.ids[(j - 1) - 1]
            BY <2>7, <6>1
          <6> QED
            BY <5>1, <6>1, <6>2 DEF AboveOnTrail
        <5> QED
          BY <5>2, <5>3
      <4>4. /\ t.ids[j - 1] \in DOMAIN d.last
            /\ t.ids[j - 1] \notin d.lost => d.last[t.ids[j - 1]] = At(AboveOnTrail(t, j - 1), t.els[j - 1])
        BY <4>1 DEF Recorded
      <4> QED
        BY <4>2, <4>3, <4>4
    <3> QED
      BY <3>1, <3>2
  <2>10. Recorded(u, d)
    BY <2>4, <2>6, <2>7, <2>8, <2>9 DEF Recorded
  <2> QED
    BY <2>10 DEF u
<1> QED
  BY <1>2, <1>3, <1>4

LEMMA TrailRecords ==
  ASSUME NEW d, TableInv(d), NEW cnid \in Cnids \cup {Root}
  PROVE  Recorded(Trail(d, cnid), d)
<1>1. MaxEl \in Nat
  BY CatalogAssumption
<1>2. PICK f : /\ f \in [0 .. MaxEl -> Trails] /\ f[0] = TrailStart(d, cnid)
               /\ \A k \in 1 .. MaxEl : f[k] = Climb(f[k - 1])
               /\ Trail(d, cnid) = f[MaxEl]
  BY TrailSteps
<1> DEFINE P == {k \in 0 .. MaxEl : Recorded(f[k], d)}
<1>3. 0 \in P
  <2>1. Recorded(TrailStart(d, cnid), d)
    BY DEF Recorded, TrailStart
  <2> QED
    BY <1>1, <1>2, <2>1
<1>4. \A k \in 1 .. MaxEl : k - 1 \in P => k \in P
  <2> SUFFICES ASSUME NEW k \in 1 .. MaxEl, k - 1 \in P PROVE k \in P
    OBVIOUS
  <2>1. f[k] = Climb(f[k - 1]) /\ k - 1 \in 0 .. MaxEl /\ k \in 0 .. MaxEl
    BY <1>1, <1>2
  <2>2. f[k - 1] \in Trails
    BY <1>2, <2>1
  <2> QED
    BY <2>1, <2>2, ClimbRecords
<1>5. MaxEl \in P
  <2>1. MaxEl \in 0 .. MaxEl
    BY <1>1
  <2> HIDE DEF P
  <2> QED
    BY <1>1, <1>3, <1>4, <2>1, Along
<1> QED
  BY <1>1, <1>2, <1>5

\* Back at some entry of a chain, on the way up.
Back(x, d, ids, names, w) ==
  /\ x.ok /\ x.at = From(ids, Len(ids) + 1 - w)
  /\ x.db.last = d.last /\ x.db.lost = {}
  /\ Len(x.els) = w /\ \A j \in 1 .. w : x.els[j] = names[Len(ids) - w + j]

LEMMA ClimbsBack ==
  ASSUME NEW t, IsTree(t), NEW d, TableInv(d), d.lost = {}, NEW ids, NEW names, NEW c,
         Chain(t, ids, names, c), Agrees(t, d, ids),
         NEW w \in 0 .. Len(ids) - 1, NEW x \in Trails, Back(x, d, ids, names, w)
  PROVE  Back(Climb(x), d, ids, names, w + 1)
<1> DEFINE n == Len(ids)
           p == n - w
           y == Climb(x)
           e == Entry(x.db, x.at)
           els == <<e.name>> \o x.els
<1>1. ids \in Seq(DOMAIN t) /\ names \in Seq(Names) /\ n \in Nat /\ Len(names) = n
  BY DEF Chain
<1>2. p \in 1 .. n /\ w \in Nat /\ n + 1 - w = p + 1 /\ n + 1 - (w + 1) = p
  BY <1>1
<1>3. TableInv(x.db) /\ x.els \in Seq(Names)
  BY DEF Trails, Tables
<1>4. /\ x.ok /\ x.at = From(ids, n + 1 - w) /\ x.db.last = d.last /\ x.db.lost = {}
      /\ Len(x.els) = w /\ \A j \in 1 .. w : x.els[j] = names[n - w + j]
  BY DEF Back
<1>5. x.at = ids[p] /\ x.at # Root /\ x.at \in DOMAIN t
  <2>1. x.at = From(ids, p + 1)
    BY <1>2, <1>4
  <2>2. From(ids, p + 1) = ids[p]
    BY <1>2 DEF From
  <2>3. ids[p] \in DOMAIN t
    BY <1>1, <1>2
  <2> QED
    BY <2>1, <2>2, <2>3, TreeFacts
<1> HIDE DEF p
<1>6. t[ids[p]] = At(From(ids, p), names[p])
  BY <1>2 DEF Chain
<1>7. ids[p] \in DOMAIN d.last /\ d.last[ids[p]] = t[ids[p]]
  BY <1>2 DEF Agrees
<1>8. Known(x.db, x.at) /\ e = At(From(ids, p), names[p])
  <2>1. LastKept(x.db)
    BY <1>3, TableFacts
  <2> QED
    BY <1>4, <1>5, <1>6, <1>7, <2>1 DEF LastKept, Remembers
<1>9. y = [at |-> e.parent, ok |-> TRUE, db |-> CatalogGet(x.db, x.at), els |-> els,
           ids |-> <<x.at>> \o x.ids]
  BY <1>4, <1>5, <1>8 DEF Climb
<1>10. y.ok /\ y.at = From(ids, p) /\ y.els = els /\ y.db = CatalogGet(x.db, x.at)
  BY <1>8, <1>9 DEF At
<1>11. y.db.last = d.last /\ y.db.lost = {}
  BY <1>3, <1>4, <1>10, GetLeaves
<1>12. e.name = names[p] /\ names[p] \in Names
  BY <1>1, <1>2, <1>8 DEF At
<1> HIDE DEF e, y
<1>13. Len(els) = w + 1 /\ \A j \in 1 .. w + 1 : els[j] = IF j = 1 THEN names[p] ELSE x.els[j - 1]
  <2>1. <<e.name>> \in Seq(Names) /\ Len(<<e.name>>) = 1 /\ <<e.name>>[1] = e.name
    BY <1>12
  <2>2. /\ Len(els) = Len(<<e.name>>) + Len(x.els)
        /\ \A j \in 1 .. Len(<<e.name>>) + Len(x.els) :
             els[j] = IF j <= Len(<<e.name>>) THEN <<e.name>>[j] ELSE x.els[j - Len(<<e.name>>)]
    BY <1>3, <2>1, ConcatProperties
  <2> HIDE DEF els
  <2> QED
    BY <1>2, <1>4, <1>12, <2>1, <2>2
<1> HIDE DEF els
<1>14. ASSUME NEW j \in 1 .. w + 1
       PROVE  els[j] = names[n - (w + 1) + j]
  <2>1. CASE j = 1
    <3>1. n - (w + 1) + 1 = p
      BY <1>1, <1>2 DEF p
    <3> QED
      BY <1>13, <2>1, <3>1
  <2>2. CASE j # 1
    <3>1. j - 1 \in 1 .. w /\ n - w + (j - 1) = n - (w + 1) + j
      BY <1>1, <1>2, <2>2
    <3>2. els[j] = x.els[j - 1]
      BY <1>13, <2>2
    <3>3. x.els[j - 1] = names[n - w + (j - 1)]
      BY <1>4, <3>1
    <3> QED
      BY <3>1, <3>2, <3>3
  <2> QED
    BY <2>1, <2>2
<1>15. Back(y, d, ids, names, w + 1)
  BY <1>2, <1>10, <1>11, <1>13, <1>14 DEF Back
<1> QED
  BY <1>15 DEF y

LEMMA TrailBack ==
  ASSUME NEW t, IsTree(t), NEW d, TableInv(d), d.lost = {}, NEW ids, NEW names, NEW c,
         Chain(t, ids, names, c), Agrees(t, d, ids), Len(ids) <= MaxEl
  PROVE  Reached(Trail(d, c)) /\ Trail(d, c).els = names
<1> DEFINE n == Len(ids)
           back(k) == IF k <= n THEN k ELSE n
<1>1. /\ MaxEl \in Nat /\ ids \in Seq(DOMAIN t) /\ names \in Seq(Names) /\ n \in Nat
      /\ Len(names) = n /\ c = From(ids, n + 1)
  BY CatalogAssumption DEF Chain
<1>2. c \in Cnids \cup {Root}
  BY ChainFacts, TreeFacts DEF There
<1>3. PICK f : /\ f \in [0 .. MaxEl -> Trails] /\ f[0] = TrailStart(d, c)
               /\ \A k \in 1 .. MaxEl : f[k] = Climb(f[k - 1])
               /\ Trail(d, c) = f[MaxEl]
  BY <1>2, TrailSteps
<1> DEFINE P == {k \in 0 .. MaxEl : Back(f[k], d, ids, names, back(k))}
<1>4. 0 \in P
  <2>1. back(0) = 0 /\ n + 1 - 0 = n + 1
    BY <1>1
  <2>2. Back(TrailStart(d, c), d, ids, names, 0)
    BY <1>1, <2>1 DEF Back, TrailStart
  <2> HIDE DEF back
  <2> QED
    BY <1>1, <1>3, <2>1, <2>2
<1>5. \A k \in 1 .. MaxEl : k - 1 \in P => k \in P
  <2> SUFFICES ASSUME NEW k \in 1 .. MaxEl, k - 1 \in P PROVE k \in P
    OBVIOUS
  <2>1. f[k] = Climb(f[k - 1]) /\ k - 1 \in 0 .. MaxEl /\ k \in 0 .. MaxEl
    BY <1>1, <1>3
  <2>2. f[k - 1] \in Trails
    BY <1>3, <2>1
  <2>3. CASE k <= n
    <3>1. back(k - 1) = k - 1 /\ back(k) = (k - 1) + 1 /\ k - 1 \in 0 .. n - 1
      BY <1>1, <2>3
    <3> HIDE DEF back
    <3>2. Back(f[k - 1], d, ids, names, k - 1)
      BY <3>1
    <3>3. Back(Climb(f[k - 1]), d, ids, names, (k - 1) + 1)
      BY <2>2, <3>1, <3>2, ClimbsBack
    <3> QED
      BY <2>1, <3>1, <3>3
  <2>4. CASE k > n
    <3>1. back(k - 1) = n /\ back(k) = n /\ n + 1 - n = 1
      BY <1>1, <2>4
    <3> HIDE DEF back
    <3>2. Back(f[k - 1], d, ids, names, n)
      BY <3>1
    <3>3. f[k - 1].at = Root
      BY <3>1, <3>2 DEF Back, From
    <3>4. Climb(f[k - 1]) = f[k - 1]
      BY <3>3 DEF Climb
    <3> QED
      BY <2>1, <3>1, <3>2, <3>4
  <2> QED
    BY <1>1, <2>3, <2>4
<1>6. MaxEl \in P
  <2>1. MaxEl \in 0 .. MaxEl
    BY <1>1
  <2> HIDE DEF P
  <2> QED
    BY <1>1, <1>4, <1>5, <2>1, Along
<1>7. back(MaxEl) = n /\ n + 1 - n = 1
  BY <1>1
<1> DEFINE x == f[MaxEl]
<1>8. Back(x, d, ids, names, n)
  <2> HIDE DEF back
  <2> QED
    BY <1>6, <1>7
<1>9. x \in Trails
  BY <1>1, <1>3
<1> HIDE DEF x
<1>10. x.ok /\ x.at = Root
  BY <1>7, <1>8 DEF Back, From
<1>11. x.els = names
  <2>1. x.els \in Seq(Names) /\ Len(x.els) = n
    BY <1>8, <1>9 DEF Back, Trails
  <2>2. \A j \in 1 .. n : x.els[j] = names[n - n + j]
    BY <1>8 DEF Back
  <2>3. \A j \in 1 .. n : n - n + j = j
    BY <1>1
  <2>4. \A j \in 1 .. n : x.els[j] = names[j]
    BY <2>2, <2>3
  <2> QED
    BY <1>1, <2>1, <2>4, SeqEqual
<1> QED
  BY <1>3, <1>10, <1>11 DEF x, Reached

\* By the names of a chain Walk9 goes to its end.
LEMMA ChainWalks ==
  ASSUME NEW t, IsTree(t), NEW ids, NEW names, NEW c, Chain(t, ids, names, c)
  PROVE  Walk9(t, names) = ids
<1> DEFINE n == Len(ids)
<1>1. /\ ids \in Seq(DOMAIN t) /\ names \in Seq(Names) /\ n \in Nat /\ Len(names) = n
      /\ \A j \in 1 .. n : t[ids[j]] = At(From(ids, j), names[j])
  BY DEF Chain
<1>2. names \in Seq(Elements) /\ ids \in Seq(There(t))
  BY <1>1 DEF Elements, There
<1>3. ASSUME NEW j \in 1 .. n
      PROVE  Step(t, From(ids, j), names[j]) = {ids[j]}
  <2>1. ids[j] \in DOMAIN t /\ names[j] \in Names /\ names[j] # Up /\ names[j] \in Elements
    BY <1>1, CatalogAssumption DEF Elements
  <2>2. From(ids, j) \in There(t)
    <3>1. CASE j = 1
      BY <3>1 DEF From, There
    <3>2. CASE j # 1
      <4>1. j - 1 \in 1 .. n
        BY <1>1, <3>2
      <4> QED
        BY <1>2, <3>2, <4>1 DEF From
    <3> QED
      BY <3>1, <3>2
  <2>3. t[ids[j]] = At(From(ids, j), names[j])
    BY <1>1
  <2>4. t[ids[j]].parent = From(ids, j) /\ t[ids[j]].name = names[j]
    BY <2>3 DEF At
  <2>5. ids[j] \in Step(t, From(ids, j), names[j])
    BY <2>1, <2>4 DEF Step, Named, Children
  <2> QED
    BY <2>1, <2>2, <2>5, StepFacts
<1> QED
  BY <1>1, <1>2, <1>3, WalkComplete

\* What the trail was, the tree is.
LEMMA TrailAgrees ==
  ASSUME NEW t, IsTree(t), NEW d, NEW trail \in Trails, Recorded(trail, d), Reached(trail),
         Walk9(t, trail.els) = trail.ids, NEW path, NEW q, Complete(t, q, trail.els, path)
  PROVE  Agrees(t, trail.db, SubSeq(q, 1, Len(trail.els)))
<1> DEFINE n == Len(trail.els)
           ids == SubSeq(q, 1, n)
<1>1. Chain(t, ids, trail.els, From(q, n + 1))
  BY TrailChains
<1>2. ids = trail.ids
  BY <1>1, ChainWalks
<1> HIDE DEF ids
<1>3. \A j \in 1 .. Len(ids) : t[ids[j]] = At(From(ids, j), trail.els[j])
  BY <1>1 DEF Chain
<1>4. \A j : AboveOnTrail(trail, j) = From(ids, j)
  BY <1>2 DEF AboveOnTrail, From, Reached
<1>5. /\ trail.db.last = d.last /\ trail.db.lost = d.lost
      /\ \A j \in 1 .. Len(ids) :
           /\ ids[j] \in DOMAIN d.last
           /\ ids[j] \notin d.lost => d.last[ids[j]] = At(AboveOnTrail(trail, j), trail.els[j])
  BY <1>2 DEF Recorded
<1>6. Agrees(t, trail.db, ids)
  BY <1>3, <1>4, <1>5 DEF Agrees
<1> QED
  BY <1>6 DEF ids

LEMMA FoldedConnects ==
  ASSUME NEW t, IsTree(t), NEW trail \in Trails, NEW path, NEW q, Complete(t, q, trail.els, path),
         Agrees(t, trail.db, SubSeq(q, 1, Len(trail.els))), Len(trail.els) + Len(path) <= MaxEl,
         NEW f, f = Folded(q, trail, path), f.db.lost = {},
         NEW end, end = From(q, Len(q) + 1), end # Root
  PROVE  /\ Reached(Trail(f.db, end))
         /\ Len(Walk9(t, Trail(f.db, end).els)) = Len(Trail(f.db, end).els)
         /\ Last(Walk9(t, Trail(f.db, end).els)) = end
<1>1. f \in Folds /\ Chain(t, f.ids, f.names, end)
  BY FoldedFacts
<1>2. Len(f.ids) <= Len(trail.els) + Len(path)
  BY FoldedFacts
<1>3. Agrees(t, f.db, f.ids)
  BY FoldedFacts
<1>4. TableInv(f.db) /\ Len(f.ids) \in Nat /\ Len(trail.els) \in Nat /\ Len(path) \in Nat /\ MaxEl \in Nat
  BY <1>1, CatalogAssumption DEF Folds, Tables, Complete
<1>5. Len(f.ids) <= MaxEl
  BY <1>2, <1>4
<1>6. Reached(Trail(f.db, end)) /\ Trail(f.db, end).els = f.names
  BY <1>1, <1>3, <1>4, <1>5, TrailBack
<1>7. Walk9(t, f.names) = f.ids
  BY <1>1, ChainWalks
<1>8. Len(f.names) = Len(f.ids)
  BY <1>1 DEF Chain
<1>9. Last(f.ids) = end
  BY <1>1, ChainFacts DEF Last
<1> QED
  BY <1>6, <1>7, <1>8, <1>9

LEMMA InvConnects == CatalogInv => WalkConnects
<1> SUFFICES ASSUME CatalogInv, NEW call \in Calls,
                    NEW r, r = CatalogWalk(tree, db, call[1], call[2]),
                    r.ok, r.cnid # Root, Undisturbed(Trail(db, call[1])), r.db.lost = {}
             PROVE  LeadsTo(Trail(r.db, r.cnid), r.cnid)
  BY DEF WalkConnects
<1> DEFINE cnid == call[1]
           path == call[2]
           trail == Trail(db, cnid)
           q == Walk9(tree, trail.els \o path)
           f == Folded(q, trail, path)
           end == From(q, Len(q) + 1)
<1>1. cnid \in AllDirs /\ path \in Seq(Elements)
  BY CallFacts
<1> HIDE DEF cnid, path
<1>2. IsTree(tree) /\ TableInv(db) /\ cnid \in Cnids \cup {Root}
  BY <1>1, DirsAreNumbers DEF CatalogInv
<1>3. /\ trail \in Trails
      /\ \/ r = Failed(trail.db)
         \/ /\ Reached(trail) /\ Len(trail.els) + Len(path) <= MaxEl
            /\ Complete(tree, q, trail.els, path) /\ cnid = From(q, Len(trail.els) + 1)
            /\ r = Arrived(Folded(q, trail, path), q, cnid)
  <2> DEFINE w == CatalogWalk(tree, db, cnid, path)
  <2>1. r = w
    BY DEF cnid, path
  <2>2. trail \in Trails
    BY <1>1, <1>2, WalkCases
  <2>3. \/ w = Failed(trail.db)
        \/ /\ Reached(trail) /\ Len(trail.els) + Len(path) <= MaxEl
           /\ Complete(tree, q, trail.els, path) /\ cnid = From(q, Len(trail.els) + 1)
           /\ w = Arrived(Folded(q, trail, path), q, cnid)
    BY <1>1, <1>2, WalkCases
  <2> HIDE DEF w, trail, q
  <2> QED
    BY <2>1, <2>2, <2>3
<1>4. Recorded(trail, db)
  BY <1>2, TrailRecords
<1>5. Walk9(tree, trail.els) = trail.ids
  BY DEF Undisturbed, cnid
<1> HIDE DEF trail, q
<1>6. r # Failed(trail.db)
  BY DEF Failed
<1>7. /\ trail \in Trails /\ Reached(trail) /\ Len(trail.els) + Len(path) <= MaxEl
      /\ Complete(tree, q, trail.els, path) /\ r = Arrived(f, q, cnid)
  BY <1>3, <1>6
<1>8. Agrees(tree, trail.db, SubSeq(q, 1, Len(trail.els)))
  BY <1>2, <1>4, <1>5, <1>7, TrailAgrees
<1> HIDE DEF f
<1>9. r.db = f.db /\ r.cnid = end
  <2>1. (IF q = <<>> THEN Root ELSE Last(q)) = end
    BY <1>7 DEF Complete, From, Last
  <2>2. r.db = f.db /\ r.cnid = IF q = <<>> THEN Root ELSE Last(q)
    BY <1>7 DEF Arrived
  <2> QED
    BY <2>1, <2>2
<1>10. f.db.lost = {} /\ end # Root
  BY <1>9
<1> HIDE DEF end
<1>11. /\ Reached(Trail(f.db, end))
       /\ Len(Walk9(tree, Trail(f.db, end).els)) = Len(Trail(f.db, end).els)
       /\ Last(Walk9(tree, Trail(f.db, end).els)) = end
  BY <1>2, <1>7, <1>8, <1>10, FoldedConnects DEF f, end
<1> QED
  BY <1>9, <1>11 DEF LeadsTo

\* CatalogWalk enters every directory on its way, so that a CNID it returns can be
\* walked to again from the table alone.
THEOREM WalkStaysConnected == Spec => []WalkConnects
  BY CatalogInvariant, InvConnects, PTL
===============================================================================
