--------------------------- MODULE Virtqueue_proofs ---------------------------
(***************************************************************************)
(* Proofs about Virtqueue, for a ring of any size.                         *)
(***************************************************************************)
EXTENDS VirtqueueProps, TLAPS, FiniteSetTheorems, WellFoundedInduction,
        SequenceTheorems, FunctionTheorems

-------------------------------------------------------------------------------
(***************************************************************************)
(* Sets of slots: they are finite, and have a lowest and a highest member. *)
(***************************************************************************)
LEMMA SizeFacts == Size \in Nat /\ Size > 0 /\ IdxMod \in Nat /\ IdxMod >= 2 * Size
  BY RingAssumption

LEMMA LeastNat ==
  ASSUME NEW S \in SUBSET Nat, S # {}
  PROVE  \E m \in S : \A k \in S : m <= k
<1>1. PICK m \in S : \A k \in S : ~ (<<k, m>> \in OpToRel(<, Nat))
  BY NatLessThanWellFounded, WFMin
<1>2. \A k \in S : ~ (k < m)
  BY <1>1 DEF OpToRel
<1> QED
  BY <1>2

LEMMA SlotSets ==
  ASSUME NEW S \in SUBSET Slots
  PROVE  /\ IsFiniteSet(S)
         /\ Cardinality(S) \in Nat
         /\ Cardinality(S) <= Size
<1>1. IsFiniteSet(Slots) /\ Cardinality(Slots) = Size
  BY FS_Interval, SizeFacts DEF Slots
<1> QED
  BY <1>1, FS_Subset, FS_CardinalityType

LEMMA LeastOfSlots ==
  ASSUME NEW S \in SUBSET Slots, S # {}
  PROVE  Least(S) \in S /\ \A t \in S : Least(S) <= t
<1>1. \E s \in S : \A t \in S : s <= t
  BY LeastNat, SizeFacts DEF Slots
<1> QED
  BY <1>1 DEF Least

LEMMA GreatestOfSlots ==
  ASSUME NEW S \in SUBSET Slots, S # {}
  PROVE  \E m \in S : \A k \in S : k <= m
<1> DEFINE D == {d \in Nat : \E s \in S : d = Size - s}
<1>1. D # {}
  <2>1. PICK s \in S : TRUE
    OBVIOUS
  <2>2. Size - s \in D
    BY SizeFacts DEF Slots
  <2> QED
    BY <2>2
<1>2. PICK d \in D : \A k \in D : d <= k
  BY <1>1, LeastNat
<1>3. PICK m \in S : d = Size - m
  BY <1>2
<1>4. ASSUME NEW k \in S PROVE k <= m
  <2>1. Size - k \in D
    BY SizeFacts DEF Slots
  <2> QED
    BY <1>2, <1>3, <2>1, SizeFacts DEF Slots
<1> QED
  BY <1>4

-------------------------------------------------------------------------------
(***************************************************************************)
(* The free slots that QSend fills: of F free slots, the n highest.        *)
(***************************************************************************)
Above(F, s) == {t \in F : t > s}
Top(F, n)   == {s \in F : Cardinality(Above(F, s)) < n}

LEMMA AboveShrinks ==
  ASSUME NEW F \in SUBSET Slots, NEW s \in F, NEW t \in F, s <= t
  PROVE  /\ Above(F, t) \subseteq Above(F, s)
         /\ Cardinality(Above(F, t)) <= Cardinality(Above(F, s))
         /\ s < t => Cardinality(Above(F, t)) < Cardinality(Above(F, s))
<1>0. \A k \in F : k \in Int
  BY SizeFacts DEF Slots
<1>1. Above(F, t) \subseteq Above(F, s) /\ Above(F, s) \in SUBSET Slots
  BY <1>0 DEF Above
<1>2. IsFiniteSet(Above(F, s)) /\ Cardinality(Above(F, s)) \in Nat
  BY <1>1, SlotSets
<1>3. Cardinality(Above(F, t)) <= Cardinality(Above(F, s))
  <2>1. Above(F, t) \in SUBSET Above(F, s)
    BY <1>1
  <2> HIDE DEF Above
  <2> QED
    BY <1>2, <2>1, FS_Subset
<1>4. Cardinality(Above(F, t)) \in Nat
  BY <1>1, SlotSets
<1>5. ASSUME s < t PROVE Cardinality(Above(F, t)) # Cardinality(Above(F, s))
  <2>1. t \in Above(F, s) /\ t \notin Above(F, t)
    BY <1>5, SizeFacts DEF Above, Slots
  <2> QED
    BY <1>1, <1>2, <2>1, FS_Subset
<1> QED
  BY <1>1, <1>2, <1>3, <1>4, <1>5

\* One slot more is the highest of those left.
LEMMA TopGrows ==
  ASSUME NEW F \in SUBSET Slots, NEW n \in Nat, n < Cardinality(F),
         Cardinality(Top(F, n)) = n
  PROVE  Cardinality(Top(F, n + 1)) = n + 1
<1> DEFINE Rest == F \ Top(F, n)
<1>1. IsFiniteSet(F) /\ Top(F, n) \subseteq F /\ IsFiniteSet(Top(F, n))
  BY SlotSets DEF Top
<1>2. Rest # {} /\ Rest \in SUBSET Slots
  BY <1>1, FS_Subset, SlotSets
<1>3. PICK x \in Rest : \A y \in Rest : y <= x
  BY <1>2, GreatestOfSlots
<1>4. x \in F /\ ~(Cardinality(Above(F, x)) < n)
  BY <1>3 DEF Top
<1>5. \A s \in F : Cardinality(Above(F, s)) \in Nat /\ s \in Nat
  BY SlotSets, SizeFacts DEF Above, Slots
<1>6. Above(F, x) = Top(F, n)
  <2>1. ASSUME NEW s \in Above(F, x) PROVE s \in Top(F, n)
    <3>1. s \in F /\ s > x
      BY DEF Above
    <3> QED
      BY <1>3, <1>4, <1>5, <3>1
  <2>2. ASSUME NEW s \in Top(F, n) PROVE s \in Above(F, x)
    <3>1. s \in F /\ Cardinality(Above(F, s)) < n
      BY DEF Top
    <3>2. ~(s <= x)
      BY <1>4, <1>5, <3>1, AboveShrinks
    <3> QED
      BY <1>4, <1>5, <3>1, <3>2 DEF Above
  <2> QED
    BY <2>1, <2>2
<1>7. Top(F, n + 1) = Top(F, n) \cup {x}
  <2>1. ASSUME NEW s \in F, s < x PROVE s \notin Top(F, n + 1)
    <3>1. Cardinality(Above(F, s)) > n
      BY <1>4, <1>5, <1>6, <2>1, AboveShrinks
    <3> QED
      BY <1>5, <3>1 DEF Top
  <2>2. x \in Top(F, n + 1)
    BY <1>4, <1>6 DEF Top
  <2>3. ASSUME NEW s \in F, s > x PROVE s \in Top(F, n) /\ s \in Top(F, n + 1)
    <3>1. s \in Top(F, n)
      BY <1>6, <2>3 DEF Above
    <3> QED
      BY <1>5, <3>1 DEF Top
  <2>4. Top(F, n + 1) \subseteq F
    BY DEF Top
  <2>5. ASSUME NEW s \in F
        PROVE  s \in Top(F, n + 1) <=> s \in Top(F, n) \cup {x}
    <3>0. s \in Nat /\ x \in Nat
      BY <1>4, <1>5
    <3>1. s < x \/ s = x \/ s > x
      BY <3>0
    <3>2. s < x => s \notin Above(F, x)
      BY <3>0 DEF Above
    <3> QED
      BY <1>6, <2>1, <2>2, <2>3, <3>1, <3>2
  <2> QED
    BY <1>1, <1>4, <2>4, <2>5
<1> QED
  BY <1>1, <1>3, <1>7, FS_AddElement

LEMMA TopCount ==
  ASSUME NEW F \in SUBSET Slots, NEW n \in 0 .. Cardinality(F)
  PROVE  Cardinality(Top(F, n)) = n
<1> DEFINE Bad == {k \in Nat : k <= Cardinality(F) /\ Cardinality(Top(F, k)) # k}
<1> SUFFICES ASSUME Bad # {} PROVE FALSE
  BY SlotSets
<1>1. PICK k \in Bad : \A j \in Bad : k <= j
  BY LeastNat
<1>2. k # 0
  <2>1. \A s \in F : Cardinality(Above(F, s)) \in Nat
    BY SlotSets DEF Above
  <2>2. Top(F, 0) = {}
    BY <2>1 DEF Top
  <2> QED
    BY <1>1, <2>2, FS_EmptySet
<1>3. k - 1 \in Nat /\ k - 1 < Cardinality(F) /\ k - 1 \notin Bad
  BY <1>1, <1>2, SlotSets
<1>4. Cardinality(Top(F, k - 1)) = k - 1
  BY <1>3, SlotSets
<1>5. Cardinality(Top(F, (k - 1) + 1)) = (k - 1) + 1
  BY <1>3, <1>4, TopGrows
<1> QED
  BY <1>1, <1>5

\* What QSendFill asks of the table it gets: when n slots are free, n of them.
LEMMA HighestCount ==
  ASSUME NEW n \in Nat, n <= Cardinality(FreeSlots)
  PROVE  /\ Highest(n) \in SUBSET FreeSlots
         /\ Cardinality(Highest(n)) = n
<1>1. FreeSlots \in SUBSET Slots
  BY DEF FreeSlots
<1>2. Highest(n) = Top(FreeSlots, n)
  BY DEF Highest, Top, Above
<1>3. n \in 0 .. Cardinality(FreeSlots)
  BY <1>1, SlotSets
<1> QED
  BY <1>1, <1>2, <1>3, TopCount DEF Top
-------------------------------------------------------------------------------
(***************************************************************************)
(* Type correctness.                                                       *)
(***************************************************************************)
LEMMA IndexTypes ==
  /\ \A i \in Indices : Succ(i) \in Indices /\ Pos(i) \in Slots
  /\ 0 \in Indices /\ 0 \in Slots
  BY SizeFacts DEF Indices, Succ, Pos, Slots

LEMMA ShapeTypes ==
  ASSUME NEW sh \in Shapes
  PROVE  /\ sh[1] \in Nat /\ sh[2] \in Nat
         /\ sh[1] + sh[2] \in Nat /\ sh[1] + sh[2] > 0
  BY CallerAssumption

LEMMA RankTypes ==
  ASSUME NEW S \in SUBSET Slots, NEW s \in S
  PROVE  /\ Rank(s, S) \in Nat
         /\ Rank(s, S) < Cardinality(S) => {t \in S : t > s} # {}
<1>1. {t \in S : t <= s} \in SUBSET Slots
  OBVIOUS
<1>2. Rank(s, S) \in Nat
  BY <1>1, SlotSets DEF Rank
<1>3. ASSUME {t \in S : t > s} = {} PROVE Rank(s, S) = Cardinality(S)
  <2>1. \A t \in S : t \in Nat
    BY SizeFacts DEF Slots
  <2>2. \A t \in S : ~(t > s)
    BY <1>3
  <2>3. {t \in S : t <= s} = S
    BY <2>1, <2>2
  <2> QED
    BY <2>3 DEF Rank
<1> QED
  BY <1>2, <1>3, SlotSets

\* The slots QSendFill takes, and the head among them.
LEMMA FilledSlots ==
  ASSUME NEW n \in Nat, n > 0, n <= Cardinality(FreeSlots)
  PROVE  /\ Highest(n) \in SUBSET Slots
         /\ Highest(n) # {}
         /\ Least(Highest(n)) \in Highest(n)
<1>1. Highest(n) \in SUBSET FreeSlots /\ Cardinality(Highest(n)) = n
  BY HighestCount
<1>2. Highest(n) \in SUBSET Slots
  BY <1>1 DEF FreeSlots
<1>3. Highest(n) # {}
  BY <1>1, FS_EmptySet
<1> QED
  BY <1>2, <1>3, LeastOfSlots

LEMMA DescriptorType ==
  ASSUME NEW r \in Requests, NEW sh \in Shapes, sh[1] + sh[2] <= Cardinality(FreeSlots),
         NEW s \in Highest(sh[1] + sh[2])
  PROVE  Descriptor(r, sh, Highest(sh[1] + sh[2]), s) \in Descriptors
<1> DEFINE n == sh[1] + sh[2]
           S == Highest(n)
           k == Rank(s, S)
           further == {t \in S : t > s}
           next == IF k < n THEN Least(further) ELSE 0
<1>1. n \in Nat /\ n > 0 /\ sh[1] \in Nat
  BY ShapeTypes
<1>2. S \in SUBSET Slots /\ Cardinality(S) = n
  BY <1>1, HighestCount, FilledSlots
<1>3. k \in Nat /\ (k < n => further # {})
  BY <1>2, RankTypes
<1>4. next \in Slots
  <2>1. CASE k < n
    <3>1. further \in SUBSET Slots /\ further # {}
      BY <1>2, <1>3, <2>1
    <3>2. Least(further) \in further
      BY <3>1, LeastOfSlots
    <3> QED
      BY <2>1, <3>1, <3>2
  <2>2. CASE ~(k < n)
    BY <2>2, IndexTypes
  <2> QED
    BY <2>1, <2>2
<1>5. Descriptor(r, sh, S, s) = [addr |-> <<r, k>>, more |-> k < n, write |-> k > sh[1],
                                 next |-> next]
  BY DEF Descriptor
<1>6. <<r, k>> \in (Requests \cup {NoOne}) \X Nat /\ next \in Slots \cup {FreeMark}
  BY <1>3, <1>4
<1>7. (k < n) \in BOOLEAN /\ (k > sh[1]) \in BOOLEAN
  BY <1>1, <1>3
<1>8. Descriptor(r, sh, S, s) \in Descriptors
  <2> HIDE DEF n, S, k, next
  <2> QED
    BY <1>5, <1>6, <1>7 DEF Descriptors
<1> QED
  BY <1>8

LEMMA TypeInit == Init => TypeOK
<1> SUFFICES ASSUME Init PROVE TypeOK
  OBVIOUS
<1>1. desc \in [Slots -> Descriptors]
  <2>1. [addr |-> <<NoOne, 0>>, more |-> FALSE, write |-> FALSE, next |-> FreeMark]
          \in Descriptors
    BY DEF Descriptors
  <2> QED
    BY <2>1 DEF Init
<1>2. usedRing \in [Slots -> [id : Slots, len : Lens \cup {0}]]
  BY IndexTypes DEF Init
<1>3. scan \in [on : BOOLEAN, i : Indices, end : Indices, callback : EventBufs \cup {NoOne}]
  BY IndexTypes DEF Init
<1>4. /\ retlenptrs \in [Slots -> Requests \cup {NoOne}]
      /\ retsize \in [Requests -> Lens \cup {0}]
      /\ availRing \in [Slots -> Slots]
      /\ req \in [Requests -> Shapes \cup {<<0, 0>>}]
  BY IndexTypes DEF Init
<1>5. /\ pc \in [Requests -> {"idle", "publish", "notify", "wait", "poll", "check",
                             "sent", "panic"}]
      /\ calls \in Seq(Waiters)
  BY DEF Init
<1>6. /\ availIdx \in Indices /\ usedIdx \in Indices /\ usedCtr \in Indices
      /\ lastAvail \in Indices
  BY IndexTypes DEF Init
<1> QED
  BY <1>1, <1>2, <1>3, <1>4, <1>5, <1>6 DEF Init, TypeOK

LEMMA FillType ==
  ASSUME TypeOK, NEW r \in Requests, NEW sh \in Shapes, QSendFill(r, sh)
  PROVE  TypeOK'
<1> DEFINE n == sh[1] + sh[2]
           S == Highest(n)
<1>1. n \in Nat /\ n > 0
  BY ShapeTypes
<1>2. /\ retsize' \in [Requests -> Lens \cup {0}]
      /\ req' \in [Requests -> Shapes \cup {<<0, 0>>}]
      /\ calls' \in Seq(Waiters)
  BY DEF QSendFill, TypeOK
<1>3. /\ desc' \in [Slots -> Descriptors]
      /\ retlenptrs' \in [Slots -> Requests \cup {NoOne}]
      /\ availRing' \in [Slots -> Slots]
  <2>1. CASE n <= Cardinality(FreeSlots)
    <3>1. /\ desc' = [s \in Slots |-> IF s \in S THEN Descriptor(r, sh, S, s) ELSE desc[s]]
          /\ retlenptrs' = [retlenptrs EXCEPT ![Least(S)] = r]
          /\ availRing' = [availRing EXCEPT ![Pos(availIdx)] = Least(S)]
      BY <2>1 DEF QSendFill
    <3>2. \A s \in S : Descriptor(r, sh, S, s) \in Descriptors
      BY <2>1, DescriptorType
    <3>3. Least(S) \in Slots
      BY <1>1, <2>1, FilledSlots
    <3> HIDE DEF S
    <3> QED
      BY <3>1, <3>2, <3>3 DEF TypeOK
  <2>2. CASE ~(n <= Cardinality(FreeSlots))
    BY <2>2 DEF QSendFill, TypeOK
  <2> QED
    BY <2>1, <2>2
<1>4. pc' \in [Requests -> {"idle", "publish", "notify", "wait", "poll", "check",
                            "sent", "panic"}]
  BY DEF QSendFill, TypeOK
<1>5. UNCHANGED <<availIdx, usedVars, usedCtr, scan, irq, deviceVars>>
  BY DEF QSendFill
<1> QED
  BY <1>2, <1>3, <1>4, <1>5 DEF TypeOK, usedVars, deviceVars

LEMMA PollElementType ==
  ASSUME TypeOK, PollElement
  PROVE  TypeOK'
<1> DEFINE elem  == usedRing[Pos(scan.i)]
           owner == retlenptrs[elem.id]
           freed == Chain(elem.id)
<1>1. scan.i \in Indices /\ scan.end \in Indices /\ scan.on = TRUE
  BY DEF PollElement, TypeOK
<1>2. Pos(scan.i) \in Slots /\ Succ(scan.i) \in Indices
  BY <1>1, IndexTypes
<1>3. elem.id \in Slots /\ elem.len \in Lens \cup {0}
  BY <1>2 DEF TypeOK
<1>4. owner \in Requests \cup {NoOne}
  BY <1>3 DEF TypeOK
<1>5. /\ desc' = [s \in Slots |-> IF s \in freed THEN [desc[s] EXCEPT !.next = FreeMark]
                                               ELSE desc[s]]
      /\ retsize' = [r \in Requests |-> IF r = owner THEN elem.len ELSE retsize[r]]
      /\ pc' = [r \in Requests |-> IF r = owner /\ r \in EventBufs THEN "idle" ELSE pc[r]]
      /\ scan' = [scan EXCEPT !.i = Succ(scan.i),
                    !.callback = IF owner \in EventBufs THEN owner ELSE NoOne]
  BY DEF PollElement
<1>6. UNCHANGED <<retlenptrs, ringVars, usedVars, usedCtr, calls, req, irq, deviceVars>>
  BY DEF PollElement
<1> HIDE DEF elem, owner, freed
<1>7. desc' \in [Slots -> Descriptors]
  <2>1. ASSUME NEW d \in Descriptors PROVE [d EXCEPT !.next = FreeMark] \in Descriptors
    BY DEF Descriptors
  <2> QED
    BY <1>5, <2>1 DEF TypeOK
<1>8. retsize' \in [Requests -> Lens \cup {0}]
  BY <1>3, <1>5 DEF TypeOK
<1>9. scan' \in [on : BOOLEAN, i : Indices, end : Indices, callback : EventBufs \cup {NoOne}]
  BY <1>2, <1>5 DEF TypeOK
<1>10. pc' \in [Requests -> {"idle", "publish", "notify", "wait", "poll", "check",
                             "sent", "panic"}]
  BY <1>5 DEF TypeOK
<1> QED
  BY <1>6, <1>7, <1>8, <1>9, <1>10 DEF TypeOK, ringVars, usedVars, deviceVars

LEMMA DriverType ==
  ASSUME TypeOK, Driver \/ Interrupt
  PROVE  TypeOK'
<1> USE DEF TypeOK, ringVars, usedVars, deviceVars
<1>1. ASSUME NEW r \in Requests, NEW sh \in Shapes, QSendFill(r, sh)
      PROVE  TypeOK'
  BY <1>1, FillType
<1>2. ASSUME NEW r \in Requests, QSendPublish(r)
      PROVE  TypeOK'
  BY <1>2, IndexTypes DEF QSendPublish
<1>3. ASSUME NEW r \in Requests, QSendNotify(r)
      PROVE  TypeOK'
  <2>1. scan' \in [on : BOOLEAN, i : Indices, end : Indices, callback : EventBufs \cup {NoOne}]
    BY <1>3 DEF QSendNotify
  <2>2. pc' \in [Requests -> {"idle", "publish", "notify", "wait", "poll", "check",
                              "sent", "panic"}]
    BY <1>3 DEF QSendNotify
  <2> QED
    BY <1>3, <2>1, <2>2 DEF QSendNotify
<1>4. ASSUME NEW w \in Waiters, QSendPoll(w)
      PROVE  TypeOK'
  BY <1>4 DEF QSendPoll, StartPoll
<1>5. ASSUME NEW w \in Waiters, QSendReturn(w)
      PROVE  TypeOK'
  <2>1. calls' \in Seq(Waiters)
    <3>1. Len(calls) \in Nat /\ \A k \in 1 .. Len(calls) - 1 : calls[k] \in Waiters
      OBVIOUS
    <3> QED
      BY <1>5, <3>1, SubSeqProperties DEF QSendReturn
  <2> QED
    BY <1>5, <2>1 DEF QSendReturn
<1>6. CASE PollElement
  BY <1>6, PollElementType
<1>7. CASE PollEnd
  BY <1>7, IndexTypes DEF PollEnd
<1>8. CASE Interrupt
  BY <1>8 DEF Interrupt, StartPoll
<1> QED
  BY <1>1, <1>2, <1>3, <1>4, <1>5, <1>6, <1>7, <1>8 DEF Driver

LEMMA DeviceType ==
  ASSUME TypeOK, Device
  PROVE  TypeOK'
<1> USE DEF TypeOK, ringVars, usedVars, deviceVars
<1>1. CASE DevNotice
  BY <1>1 DEF DevNotice
<1>2. CASE DevTake
  <2>1. availRing[Pos(lastAvail)] \in Slots /\ Succ(lastAvail) \in Indices
    BY IndexTypes
  <2> QED
    BY <1>2, <2>1 DEF DevTake
<1>3. CASE DevRest
  BY <1>3 DEF DevRest
<1>4. CASE DevRecheck
  BY <1>4 DEF DevRecheck
<1>5. ASSUME NEW head \in Slots, NEW len \in Lens, DevAnswer(head, len)
      PROVE  TypeOK'
  <2>1. usedRing' \in [Slots -> [id : Slots, len : Lens \cup {0}]]
    BY <1>5 DEF DevAnswer
  <2> QED
    BY <1>5, <2>1, IndexTypes DEF DevAnswer
<1> QED
  BY <1>1, <1>2, <1>3, <1>4, <1>5 DEF Device

\* Every variable of the driver and of the device keeps its type.  In
\* particular QSendFill never runs past the slots it has counted (the chain
\* it links stays in the table), and poll only ever frees slots of the table.
THEOREM TypeCorrect == Spec => []TypeOK
<1>1. TypeOK /\ [Next]_vars => TypeOK'
  <2> SUFFICES ASSUME TypeOK, [Next]_vars PROVE TypeOK'
    OBVIOUS
  <2>1. CASE Next
    BY <2>1, DriverType, DeviceType DEF Next
  <2>2. CASE UNCHANGED vars
    BY <2>2 DEF vars, TypeOK, ringVars, usedVars, deviceVars
  <2> QED
    BY <2>1, <2>2
<1> QED
  BY <1>1, TypeInit, PTL DEF Spec
-------------------------------------------------------------------------------
(***************************************************************************)
(* The ring indices.  IdxMod is a multiple of Size, so the slot of an entry *)
(* follows from its index, and the unread entries of a ring occupy as many *)
(* slots as the indices are apart.                                         *)
(***************************************************************************)
LEMMA SuccCases ==
  ASSUME NEW i \in Indices
  PROVE  /\ i + 1 < IdxMod => Succ(i) = i + 1
         /\ i + 1 = IdxMod => Succ(i) = 0
  BY SizeFacts DEF Indices, Succ

LEMMA MultipleOfSize ==
  ASSUME NEW d \in Nat, d > 0
  PROVE  Size * d >= Size
<1>1. Size * d = Size + Size * (d - 1)
  BY SizeFacts
<1>2. Size * (d - 1) \in Nat
  BY SizeFacts
<1> QED
  BY <1>1, <1>2, SizeFacts

LEMMA QuotientIsUnique ==
  ASSUME NEW p \in Int, NEW q \in Int, NEW x \in Slots, NEW y \in Slots,
         Size * p + x = Size * q + y
  PROVE  x = y /\ p = q
<1>1. Size * (p - q) = y - x /\ Size * (q - p) = x - y
  BY SizeFacts DEF Slots
<1>2. ~(p > q) /\ ~(q > p)
  BY <1>1, MultipleOfSize, SizeFacts DEF Slots
<1> QED
  BY <1>2, SizeFacts DEF Slots

LEMMA PosIsRemainder ==
  ASSUME NEW a \in Nat
  PROVE  \E q \in Nat : a = Size * q + Pos(a) /\ Pos(a) \in Slots
<1>1. a = Size * (a \div Size) + (a % Size) /\ a \div Size \in Nat /\ a % Size \in 0 .. Size - 1
  BY SizeFacts
<1> QED
  BY <1>1 DEF Pos, Slots

\* Positions repeat with the period of the indices, and not within Size of
\* each other.
LEMMA PosRepeats ==
  ASSUME NEW a \in Nat
  PROVE  Pos(a + IdxMod) = Pos(a)
<1>1. PICK k \in Nat : IdxMod = Size * k
  <2>1. \E k \in Nat : IdxMod = Size * k + Pos(IdxMod)
    BY PosIsRemainder, SizeFacts
  <2>2. Pos(IdxMod) = 0
    BY RingAssumption DEF Pos
  <2>3. \A k \in Nat : Size * k + 0 = Size * k
    BY SizeFacts
  <2> QED
    BY <2>1, <2>2, <2>3
<1>2. PICK q \in Nat : a = Size * q + Pos(a) /\ Pos(a) \in Slots
  BY PosIsRemainder
<1>3. a + IdxMod \in Nat
  BY SizeFacts
<1>4. PICK p \in Nat : a + IdxMod = Size * p + Pos(a + IdxMod) /\ Pos(a + IdxMod) \in Slots
  BY <1>3, PosIsRemainder
<1>5. Size * (q + k) = Size * q + Size * k
  BY SizeFacts
<1>6. Size * p + Pos(a + IdxMod) = Size * (q + k) + Pos(a)
  <2> HIDE DEF Pos
  <2> QED
    BY <1>1, <1>2, <1>4, <1>5, SizeFacts DEF Slots
<1>7. q + k \in Int /\ p \in Int
  OBVIOUS
<1> QED
  BY <1>2, <1>4, <1>6, <1>7, QuotientIsUnique

LEMMA PosDiffers ==
  ASSUME NEW a \in Nat, NEW b \in Nat, a < b, b - a < Size
  PROVE  Pos(a) # Pos(b)
<1> SUFFICES ASSUME Pos(a) = Pos(b) PROVE FALSE
  OBVIOUS
<1>1. PICK q \in Nat : a = Size * q + Pos(a) /\ Pos(a) \in Slots
  BY PosIsRemainder
<1>2. PICK p \in Nat : b = Size * p + Pos(b)
  BY PosIsRemainder
<1>3. Size * (p - q) = b - a
  <2>1. Size * (p - q) = Size * p - Size * q
    BY SizeFacts
  <2> QED
    BY <1>1, <1>2, <2>1, SizeFacts DEF Slots
<1>4. p - q > 0
  <2>1. ASSUME p <= q PROVE FALSE
    <3>1. Size * q = Size * p + Size * (q - p)
      BY SizeFacts
    <3>2. Size * (q - p) \in Nat
      BY <2>1, SizeFacts
    <3> QED
      BY <1>1, <1>2, <3>1, <3>2, SizeFacts DEF Slots
  <2> QED
    BY <2>1
<1> QED
  BY <1>3, <1>4, MultipleOfSize, SizeFacts

-------------------------------------------------------------------------------
LEMMA DistFacts ==
  ASSUME NEW i \in Indices, NEW j \in Indices
  PROVE  /\ Dist(i, j) \in Indices
         /\ Dist(i, j) = 0 <=> i = j
         /\ Dist(i, j) < Size => Dist(i, Succ(j)) = Dist(i, j) + 1
         /\ i # j => Dist(Succ(i), j) = Dist(i, j) - 1
         /\ i + Dist(i, j) = j \/ i + Dist(i, j) = j + IdxMod
  BY SuccCases, SizeFacts DEF Indices, Dist

\* The ring slots of the entries from index i up to j.
Window(i, j) == {Pos(i + k) : k \in 0 .. Dist(i, j) - 1}

LEMMA PosAfterSucc ==
  ASSUME NEW i \in Indices, NEW k \in Nat
  PROVE  Pos(Succ(i) + k) = Pos(i + (k + 1))
<1>1. CASE i + 1 < IdxMod
  <2>1. Succ(i) + k = i + (k + 1)
    BY <1>1, SuccCases DEF Indices
  <2> QED
    BY <2>1
<1>2. CASE i + 1 = IdxMod
  <2>1. Succ(i) + k = k /\ i + (k + 1) = k + IdxMod
    BY <1>2, SuccCases DEF Indices
  <2> QED
    BY <2>1, PosRepeats
<1> QED
  BY <1>1, <1>2, SizeFacts DEF Indices

LEMMA PosAtDist ==
  ASSUME NEW i \in Indices, NEW j \in Indices
  PROVE  Pos(i + Dist(i, j)) = Pos(j)
<1>1. CASE i + Dist(i, j) = j
  BY <1>1
<1>2. CASE i + Dist(i, j) = j + IdxMod
  BY <1>2, PosRepeats DEF Indices
<1> QED
  BY <1>1, <1>2, DistFacts

LEMMA WindowSlots ==
  ASSUME NEW i \in Indices, NEW j \in Indices
  PROVE  Window(i, j) \in SUBSET Slots
<1>1. \A k \in 0 .. Dist(i, j) - 1 : i + k \in Nat
  BY DistFacts DEF Indices
<1> QED
  BY <1>1, PosIsRemainder DEF Window

LEMMA WindowEmpty ==
  ASSUME NEW i \in Indices
  PROVE  Window(i, i) = {}
<1>1. Dist(i, i) = 0
  BY DEF Dist, Indices
<1> QED
  BY <1>1 DEF Window

LEMMA WindowGrows ==
  ASSUME NEW i \in Indices, NEW j \in Indices, Dist(i, j) < Size
  PROVE  /\ Window(i, Succ(j)) = Window(i, j) \cup {Pos(j)}
         /\ Pos(j) \notin Window(i, j)
<1> DEFINE n == Dist(i, j)
<1>1. n \in Nat /\ i \in Nat /\ Dist(i, Succ(j)) = n + 1
  BY DistFacts DEF Indices
<1>2. Pos(i + n) = Pos(j)
  BY PosAtDist
<1> HIDE DEF n
<1>3. {Pos(i + k) : k \in 0 .. (n + 1) - 1} = {Pos(i + k) : k \in 0 .. n - 1} \cup {Pos(i + n)}
  <2>1. 0 .. (n + 1) - 1 = (0 .. n - 1) \cup {n}
    BY <1>1
  <2> QED
    BY <2>1
<1>4. ASSUME NEW k \in 0 .. n - 1 PROVE Pos(i + k) # Pos(i + n)
  <2>1. i + k \in Nat /\ i + n \in Nat /\ i + k < i + n /\ (i + n) - (i + k) < Size
    BY <1>1, SizeFacts DEF n
  <2> QED
    BY <2>1, PosDiffers
<1> QED
  BY <1>1, <1>2, <1>3, <1>4 DEF Window, n

LEMMA WindowShrinks ==
  ASSUME NEW i \in Indices, NEW j \in Indices, i # j, Dist(i, j) <= Size
  PROVE  /\ Window(Succ(i), j) = Window(i, j) \ {Pos(i)}
         /\ Pos(i) \in Window(i, j)
<1> DEFINE n == Dist(i, j)
<1>1. n \in Nat /\ n > 0 /\ i \in Nat /\ Dist(Succ(i), j) = n - 1
  BY DistFacts DEF Indices
<1>2. \A k \in Nat : Pos(Succ(i) + k) = Pos(i + (k + 1))
  BY PosAfterSucc
<1>3. Pos(i) = Pos(i + 0)
  BY <1>1
<1>4. ASSUME NEW k \in 1 .. n - 1 PROVE Pos(i + k) # Pos(i)
  <2>1. i + k \in Nat /\ i < i + k /\ (i + k) - i < Size
    BY <1>1, SizeFacts
  <2> QED
    BY <1>1, <2>1, PosDiffers
<1>5. Window(Succ(i), j) = {Pos(i + k) : k \in 1 .. n - 1}
  <2>1. Window(Succ(i), j) = {Pos(i + (k + 1)) : k \in 0 .. (n - 1) - 1}
    <3> HIDE DEF n
    <3> QED
      BY <1>1, <1>2 DEF Window, n
  <2>2. ASSUME NEW k \in 1 .. n - 1 PROVE k - 1 \in 0 .. (n - 1) - 1 /\ (k - 1) + 1 = k
    BY <1>1
  <2>3. ASSUME NEW k \in 0 .. (n - 1) - 1 PROVE k + 1 \in 1 .. n - 1
    BY <1>1
  <2> HIDE DEF n
  <2> QED
    BY <2>1, <2>2, <2>3
<1>6. Window(i, j) = {Pos(i + k) : k \in 0 .. n - 1}
  BY DEF Window
<1>7. 0 .. n - 1 = {0} \cup (1 .. n - 1)
  BY <1>1
<1> HIDE DEF n
<1>8. Window(i, j) = {Pos(i)} \cup {Pos(i + k) : k \in 1 .. n - 1}
  BY <1>3, <1>6, <1>7
<1> QED
  BY <1>4, <1>5, <1>8

-------------------------------------------------------------------------------
(***************************************************************************)
(* A chain: the slots of a set, linked upwards from the least.             *)
(***************************************************************************)
\* Ranks count a chain's descriptors upwards from its head.
LEMMA RankGrows ==
  ASSUME NEW S \in SUBSET Slots, NEW s \in S, NEW t \in S, s < t
  PROVE  Rank(s, S) < Rank(t, S)
<1> DEFINE L == {u \in S : u <= s}
           M == {u \in S : u <= t}
<1>1. \A u \in S : u \in Int
  BY SizeFacts DEF Slots
<1>2. L \in SUBSET M /\ t \in M /\ t \notin L /\ M \in SUBSET Slots
  BY <1>1
<1>3. IsFiniteSet(M) /\ Cardinality(M) \in Nat /\ Cardinality(L) \in Nat
  BY <1>2, SlotSets
<1>4. Rank(s, S) = Cardinality(L) /\ Rank(t, S) = Cardinality(M)
  BY DEF Rank
<1> HIDE DEF L, M
<1>5. Cardinality(L) <= Cardinality(M) /\ (Cardinality(M) = Cardinality(L) => M = L)
  BY <1>2, <1>3, FS_Subset
<1> QED
  BY <1>2, <1>3, <1>4, <1>5

LEMMA RankRange ==
  ASSUME NEW S \in SUBSET Slots, NEW s \in S
  PROVE  /\ Rank(s, S) \in 1 .. Cardinality(S)
         /\ Rank(s, S) < Cardinality(S) <=> {t \in S : t > s} # {}
<1>1. \A u \in S : u \in Int
  BY SizeFacts DEF Slots
<1> DEFINE L == {u \in S : u <= s}
<1>2. L \in SUBSET S /\ s \in L /\ S \in SUBSET Slots
  BY <1>1
<1>3. Rank(s, S) = Cardinality(L)
  BY DEF Rank
<1>4. IsFiniteSet(S) /\ Cardinality(S) \in Nat /\ IsFiniteSet(L) /\ Cardinality(L) \in Nat
  BY <1>2, SlotSets
<1>5. Cardinality(L) <= Cardinality(S) /\ (Cardinality(S) = Cardinality(L) => S = L)
  <2> HIDE DEF L
  <2> QED
    BY <1>2, <1>4, FS_Subset
<1>6. Cardinality(L) # 0
  <2> HIDE DEF L
  <2> QED
    BY <1>2, <1>4, FS_EmptySet
<1>7. S = L <=> {t \in S : t > s} = {}
  BY <1>1
<1> HIDE DEF L
<1> QED
  BY <1>3, <1>4, <1>5, <1>6, <1>7

LEMMA RankOfLeast ==
  ASSUME NEW S \in SUBSET Slots, S # {}
  PROVE  Rank(Least(S), S) = 1
<1>1. Least(S) \in S /\ \A t \in S : Least(S) <= t
  BY LeastOfSlots
<1>2. \A u \in S : u \in Int
  BY SizeFacts DEF Slots
<1>3. {t \in S : t <= Least(S)} = {Least(S)}
  BY <1>1, <1>2
<1> QED
  BY <1>3, FS_Singleton DEF Rank

LEMMA RankOfNext ==
  ASSUME NEW S \in SUBSET Slots, NEW s \in S, Rank(s, S) < Cardinality(S)
  PROVE  /\ Least({t \in S : t > s}) \in S
         /\ Least({t \in S : t > s}) > s
         /\ Rank(Least({t \in S : t > s}), S) = Rank(s, S) + 1
<1> DEFINE U == {t \in S : t > s}
           m == Least(U)
           L == {u \in S : u <= s}
           M == {u \in S : u <= m}
<1>0. \A u \in S : u \in Int
  BY SizeFacts DEF Slots
<1>1. U # {} /\ U \in SUBSET Slots
  BY RankRange
<1>2. m \in U /\ \A t \in U : m <= t
  <2> HIDE DEF U
  <2> QED
    BY <1>1, LeastOfSlots
<1>3. m \in S /\ m > s
  <2> HIDE DEF m
  <2> QED
    BY <1>2
<1>4. M = L \cup {m} /\ m \notin L
  <2> HIDE DEF m
  <2>1. \A u \in S : u > s => m <= u
    BY <1>2
  <2> QED
    BY <1>0, <1>3, <2>1
<1>5. IsFiniteSet(L) /\ Cardinality(L) \in Nat
  BY SlotSets
<1>6. Rank(s, S) = Cardinality(L) /\ Rank(m, S) = Cardinality(M)
  BY DEF Rank
<1>7. Cardinality(M) = Cardinality(L) + 1
  <2> HIDE DEF L, M, m
  <2> QED
    BY <1>4, <1>5, FS_AddElement
<1> QED
  BY <1>3, <1>6, <1>7

\* The table holds, in the slots of S, one chain that ascends through all of S.
Linked(S) ==
  \A s \in S : /\ desc[s].more <=> Rank(s, S) < Cardinality(S)
               /\ desc[s].more => desc[s].next = Least({t \in S : t > s})

LEMMA ChainOfLinked ==
  ASSUME NEW S \in SUBSET Slots, S # {}, Linked(S)
  PROVE  Chain(Least(S)) = S
<1> DEFINE h == Least(S)
           Closed(C) == h \in C /\ \A c \in C : desc[c].more => desc[c].next \in C
<1>0. \A u \in S : u \in Int
  BY SizeFacts DEF Slots
<1>1. h \in S /\ \A t \in S : h <= t
  BY LeastOfSlots
<1>2. Closed(S)
  <2>1. ASSUME NEW c \in S, desc[c].more PROVE desc[c].next \in S
    BY <2>1, RankOfNext DEF Linked
  <2> QED
    BY <1>1, <2>1
<1>3. ASSUME NEW C \in SUBSET Slots, Closed(C) PROVE S \subseteq C
  <2> DEFINE X == S \ C
  <2> SUFFICES ASSUME X # {} PROVE FALSE
    OBVIOUS
  <2>1. X \in SUBSET Slots
    OBVIOUS
  <2> DEFINE x == Least(X)
             B == {t \in S : t < x}
  <2>2. x \in X /\ \A t \in X : x <= t
    <3> HIDE DEF X
    <3> QED
      BY <2>1, LeastOfSlots
  <2> HIDE DEF x
  <2>3. h \in B /\ B \in SUBSET Slots
    <3>1. h \in C /\ x \in S /\ x \notin C /\ x # h
      BY <1>3, <2>2
    <3> QED
      BY <1>0, <1>1, <3>1
  <2>4. PICK p \in B : \A k \in B : k <= p
    <3> HIDE DEF B, h
    <3> QED
      BY <2>3, GreatestOfSlots
  <2>5. p \in S /\ p < x /\ x \in S /\ p \in C
    <3>1. p \in S /\ p < x /\ x \in S
      BY <2>2
    <3>2. p \notin X
      BY <1>0, <2>2, <3>1
    <3> QED
      BY <3>1, <3>2
  <2>6. x \in {t \in S : t > p}
    BY <1>0, <2>5
  <2>7. Rank(p, S) < Cardinality(S)
    BY <2>5, <2>6, RankRange
  <2> DEFINE y == Least({t \in S : t > p})
  <2>8. y \in S /\ y > p
    BY <2>5, <2>7, RankOfNext
  <2>9. y = desc[p].next /\ desc[p].more
    BY <2>5, <2>7 DEF Linked
  <2>10. y \in C
    BY <1>3, <2>5, <2>9
  <2>11. y <= x
    <3>1. {t \in S : t > p} \in SUBSET Slots /\ {t \in S : t > p} # {}
      BY <2>6
    <3> QED
      BY <2>6, <3>1, LeastOfSlots
  <2> HIDE DEF y
  <2>12. y # x
    BY <2>2, <2>10
  <2>13. y \in B
    BY <1>0, <2>5, <2>8, <2>11, <2>12
  <2> QED
    BY <1>0, <2>4, <2>5, <2>8, <2>13
<1>4. Chain(h) = {s \in Slots : \A C \in SUBSET Slots : Closed(C) => s \in C}
  BY DEF Chain
<1> HIDE DEF h, Closed
<1>5. Chain(h) = S
  BY <1>2, <1>3, <1>4
<1> QED
  BY <1>5 DEF h

\* What a ring f holds from index i up to index j, and that it differs.
Entries(f, i, j)  == {f[p] : p \in Window(i, j)}
Distinct(f, i, j) == \A p, q \in Window(i, j) : p # q => f[p] # f[q]

LEMMA EntriesKept ==
  ASSUME NEW f, NEW g, NEW i, NEW j, \A p \in Window(i, j) : g[p] = f[p]
  PROVE  /\ Entries(g, i, j) = Entries(f, i, j)
         /\ Distinct(f, i, j) => Distinct(g, i, j)
  BY DEF Entries, Distinct

LEMMA EntryAdded ==
  ASSUME NEW f, NEW i \in Indices, NEW j \in Indices, Dist(i, j) < Size,
         Distinct(f, i, j), f[Pos(j)] \notin Entries(f, i, j)
  PROVE  /\ Entries(f, i, Succ(j)) = Entries(f, i, j) \cup {f[Pos(j)]}
         /\ Distinct(f, i, Succ(j))
  BY WindowGrows DEF Entries, Distinct

LEMMA EntryRemoved ==
  ASSUME NEW f, NEW i \in Indices, NEW j \in Indices, i # j, Dist(i, j) <= Size,
         Distinct(f, i, j)
  PROVE  /\ Entries(f, Succ(i), j) = Entries(f, i, j) \ {f[Pos(i)]}
         /\ f[Pos(i)] \in Entries(f, i, j)
         /\ Distinct(f, Succ(i), j)
  BY WindowShrinks DEF Entries, Distinct

-------------------------------------------------------------------------------
(***************************************************************************)
(* The inductive invariant.                                                *)
(***************************************************************************)
ChainHead(r) == Least(Own(r))

\* The chain of a request is just as QSendFill wrote it.
ChainsWritten ==
  \A r \in Holding :
    /\ req[r] \in Shapes
    /\ Cardinality(Own(r)) = NumBufs(r)
    /\ \A s \in Own(r) : desc[s] = Descriptor(r, req[r], Own(r), s)
    /\ retlenptrs[ChainHead(r)] = r

TableInv == ChainsWritten /\ DescriptorsAccounted /\ PanicMeansOverload

UsedIds   == [p \in Slots |-> usedRing[p].id]
AvailSet  == Entries(availRing, lastAvail, availIdx)
UsedSet   == Entries(UsedIds, NextUsed, usedIdx)
Heads     == {ChainHead(r) : r \in InFlight}

\* The heads of the published chains are divided between the avail ring, the
\* device and the used ring, and no ring has one twice.
HeadsPlaced ==
  /\ Distinct(availRing, lastAvail, availIdx)
  /\ Distinct(UsedIds, NextUsed, usedIdx)
  /\ AvailSet \cap held = {} /\ AvailSet \cap UsedSet = {} /\ held \cap UsedSet = {}
  /\ AvailSet \cup held \cup UsedSet = Heads

HeadsCounted ==
  Dist(lastAvail, availIdx) + Cardinality(held) + Dist(NextUsed, usedIdx)
    = Cardinality(InFlight)

LensReal == \A p \in Window(NextUsed, usedIdx) : usedRing[p].len \in Lens

RingInv == HeadsPlaced /\ HeadsCounted /\ LensReal

\* A chain that is about to be published stands in the next slot of the ring.
PublishReady ==
  \A r \in Requests : pc[r] = "publish" =>
    retsize[r] = 0 /\ availRing[Pos(availIdx)] = ChainHead(r)

\* One activation at a time: of two QSends that are not waiting one is poll's
\* callback, and poll goes on only when that one is done.
MaskInv ==
  /\ \A r, t \in Requests :
       /\ pc[r] \in {"publish", "notify", "poll", "check"}
       /\ pc[t] \in {"publish", "notify", "poll", "check"}
       /\ r # t
       => scan.callback \in {r, t}
  /\ scan.on => \A r \in Requests : pc[r] \in {"publish", "notify"} => scan.callback = r
  /\ ~scan.on => scan.callback = NoOne
  /\ \A b \in EventBufs : pc[b] \in {"idle", "publish", "notify", "sent", "panic"}
  /\ \A w \in Waiters : pc[w] # "sent"

\* poll's i runs from where used_ctr was to where it is.
ScanInv ==
  scan.on => /\ usedCtr = scan.end
             /\ Dist(scan.i, scan.end) + Dist(scan.end, usedIdx) = Dist(scan.i, usedIdx)

RInv == TypeOK /\ TableInv /\ RingInv /\ PublishReady /\ MaskInv /\ ScanInv

-------------------------------------------------------------------------------
(***************************************************************************)
(* What the table part says of a state.                                    *)
(***************************************************************************)
LEMMA OwnSlots ==
  ASSUME NEW r
  PROVE  Own(r) \in SUBSET Slots /\ IsFiniteSet(Own(r)) /\ Cardinality(Own(r)) \in Nat
<1>1. Own(r) \in SUBSET Slots
  BY DEF Own
<1> QED
  BY <1>1, SlotSets

LEMMA OwnDisjoint ==
  ASSUME NEW r, NEW t, r # t
  PROVE  Own(r) \cap Own(t) = {}
  BY DEF Own

LEMMA HeadIsOwn ==
  ASSUME ChainsWritten, NEW r \in Holding
  PROVE  /\ Own(r) # {}
         /\ ChainHead(r) \in Own(r) /\ ChainHead(r) \in Slots
         /\ desc[ChainHead(r)].addr[1] = r
         /\ desc[ChainHead(r)].next # FreeMark
<1>1. NumBufs(r) > 0 /\ Cardinality(Own(r)) = NumBufs(r)
  BY ShapeTypes DEF ChainsWritten, NumBufs
<1>2. Own(r) # {}
  BY <1>1, FS_EmptySet
<1>3. Least(Own(r)) \in Own(r)
  BY <1>2, OwnSlots, LeastOfSlots
<1> QED
  BY <1>2, <1>3 DEF ChainHead, Own

LEMMA HeadsDiffer ==
  ASSUME ChainsWritten, NEW r \in Holding, NEW t \in Holding, ChainHead(r) = ChainHead(t)
  PROVE  r = t
  BY HeadIsOwn

LEMMA HoldingSlots ==
  ASSUME ChainsWritten, DescriptorsAccounted
  PROVE  /\ IsFiniteSet(Holding)
         /\ Cardinality(Holding) \in Nat
         /\ Cardinality(FreeSlots) \in Nat
         /\ Cardinality(Holding) + Cardinality(FreeSlots) <= Size
         /\ Cardinality(UNION {Own(r) : r \in Holding}) = Size - Cardinality(FreeSlots)
<1> DEFINE Taken == {s \in Slots : desc[s].next # FreeMark}
           f == [r \in Holding |-> ChainHead(r)]
<1>1. Taken = Slots \ FreeSlots /\ FreeSlots \in SUBSET Slots /\ Taken \in SUBSET Slots
  BY DEF FreeSlots
<1>2. IsFiniteSet(Slots) /\ Cardinality(Slots) = Size
  BY FS_Interval, SizeFacts DEF Slots
<1>3. IsFiniteSet(FreeSlots) /\ Cardinality(FreeSlots) \in Nat /\ IsFiniteSet(Taken)
      /\ Cardinality(Taken) \in Nat
  BY <1>1, SlotSets
<1>4. Cardinality(Taken) = Size - Cardinality(FreeSlots)
  <2>1. Slots \cap FreeSlots = FreeSlots
    BY <1>1
  <2> HIDE DEF Taken
  <2> QED
    BY <1>1, <1>2, <2>1, FS_Difference
<1>5. f \in Injection(Holding, Taken)
  <2>1. \A r \in Holding : ChainHead(r) \in Taken
    BY HeadIsOwn
  <2>2. f \in [Holding -> Taken]
    <3> HIDE DEF Taken
    <3> QED
      BY <2>1
  <2>3. \A r, t \in Holding : f[r] = f[t] => r = t
    BY HeadsDiffer
  <2> HIDE DEF f, Taken
  <2> QED
    BY <2>2, <2>3, Fun_IsInj
<1>6. IsFiniteSet(Holding) /\ Cardinality(Holding) <= Cardinality(Taken)
  <2> HIDE DEF f, Taken
  <2> QED
    BY <1>3, <1>5, FS_Injection
<1>7. Taken = UNION {Own(r) : r \in Holding}
  BY DEF DescriptorsAccounted
<1> HIDE DEF Taken
<1> QED
  BY <1>2, <1>3, <1>4, <1>6, <1>7, SizeFacts, FS_CardinalityType

LEMMA WrittenIsLinked ==
  ASSUME ChainsWritten, NEW r \in Holding
  PROVE  Linked(Own(r))
<1>1. Cardinality(Own(r)) = req[r][1] + req[r][2]
  BY DEF ChainsWritten, NumBufs
<1>2. ASSUME NEW s \in Own(r)
      PROVE  /\ desc[s].more <=> Rank(s, Own(r)) < Cardinality(Own(r))
             /\ desc[s].more => desc[s].next = Least({t \in Own(r) : t > s})
  <2>1. desc[s] = Descriptor(r, req[r], Own(r), s)
    BY DEF ChainsWritten
  <2>2. /\ Descriptor(r, req[r], Own(r), s).more = (Rank(s, Own(r)) < req[r][1] + req[r][2])
        /\ Rank(s, Own(r)) < req[r][1] + req[r][2]
             => Descriptor(r, req[r], Own(r), s).next = Least({t \in Own(r) : t > s})
    BY DEF Descriptor
  <2> QED
    BY <1>1, <2>1, <2>2
<1> QED
  BY <1>2 DEF Linked

LEMMA ChainIsOwn ==
  ASSUME ChainsWritten, NEW r \in Holding
  PROVE  Chain(ChainHead(r)) = Own(r)
  BY HeadIsOwn, OwnSlots, WrittenIsLinked, ChainOfLinked DEF ChainHead

LEMMA ChainsWrittenIntact ==
  ASSUME ChainsWritten
  PROVE  /\ ChainsIntact
         /\ \A r \in Holding : desc[ChainHead(r)].addr[2] = 1
<1> SUFFICES ASSUME NEW r \in Holding
    PROVE  /\ Cardinality(Own(r)) = NumBufs(r)
           /\ ChainHead(r) \in Own(r) /\ retlenptrs[ChainHead(r)] = r
           /\ desc[ChainHead(r)].addr[2] = 1
           /\ \A s \in Own(r) :
                /\ desc[s].write <=> desc[s].addr[2] > req[r][1]
                /\ desc[s].more <=> desc[s].addr[2] < NumBufs(r)
                /\ desc[s].more => /\ desc[s].next \in Own(r)
                                   /\ desc[desc[s].next].addr[2] = desc[s].addr[2] + 1
  BY DEF ChainsIntact
<1>1. Cardinality(Own(r)) = NumBufs(r) /\ retlenptrs[ChainHead(r)] = r
  BY DEF ChainsWritten
<1>2. ASSUME NEW s \in Own(r)
      PROVE  /\ desc[s].addr[2] = Rank(s, Own(r))
             /\ desc[s].write <=> Rank(s, Own(r)) > req[r][1]
             /\ desc[s].more <=> Rank(s, Own(r)) < NumBufs(r)
             /\ desc[s].more => desc[s].next = Least({t \in Own(r) : t > s})
  <2>1. desc[s] = Descriptor(r, req[r], Own(r), s)
    BY DEF ChainsWritten
  <2>2. /\ Descriptor(r, req[r], Own(r), s).addr = <<r, Rank(s, Own(r))>>
        /\ Descriptor(r, req[r], Own(r), s).write = (Rank(s, Own(r)) > req[r][1])
    BY DEF Descriptor
  <2>3. /\ desc[s].more <=> Rank(s, Own(r)) < Cardinality(Own(r))
        /\ desc[s].more => desc[s].next = Least({t \in Own(r) : t > s})
    BY WrittenIsLinked DEF Linked
  <2>4. desc[s].addr[2] = Rank(s, Own(r))
    BY <2>1, <2>2
  <2>5. desc[s].write <=> Rank(s, Own(r)) > req[r][1]
    BY <2>1, <2>2
  <2> QED
    BY <1>1, <2>3, <2>4, <2>5
<1>3. ChainHead(r) \in Own(r)
  BY HeadIsOwn
<1>4. Rank(ChainHead(r), Own(r)) = 1
  BY HeadIsOwn, OwnSlots, RankOfLeast DEF ChainHead
<1>5. ASSUME NEW s \in Own(r), desc[s].more
      PROVE  /\ desc[s].next \in Own(r)
             /\ desc[desc[s].next].addr[2] = desc[s].addr[2] + 1
  <2>1. Rank(s, Own(r)) < Cardinality(Own(r))
    BY <1>1, <1>2, <1>5
  <2>2. /\ Least({t \in Own(r) : t > s}) \in Own(r)
        /\ Rank(Least({t \in Own(r) : t > s}), Own(r)) = Rank(s, Own(r)) + 1
    BY <2>1, OwnSlots, RankOfNext
  <2>3. desc[s].next = Least({t \in Own(r) : t > s})
    BY <1>2, <1>5
  <2> QED
    BY <1>2, <2>2, <2>3
<1> QED
  BY <1>1, <1>2, <1>3, <1>4, <1>5

-------------------------------------------------------------------------------
(***************************************************************************)
(* The steps, on the table.                                                *)
(***************************************************************************)
LEMMA TableKept ==
  ASSUME TableInv, UNCHANGED <<desc, retlenptrs, req>>, Holding' = Holding,
         \A r \in Requests : pc'[r] = "panic" => pc[r] = "panic"
  PROVE  /\ TableInv'
         /\ \A r : Own(r)' = Own(r) /\ ChainHead(r)' = ChainHead(r)
<1>1. \A r : Own(r)' = Own(r)
  BY DEF Own
<1>2. \A r : ChainHead(r)' = ChainHead(r)
  BY <1>1 DEF ChainHead
<1>3. \A r : NumBufs(r)' = NumBufs(r)
  BY DEF NumBufs
<1>4. {s \in Slots : desc[s].next # FreeMark}' = {s \in Slots : desc[s].next # FreeMark}
  OBVIOUS
<1>5. (UNION {Own(r) : r \in Holding})' = UNION {Own(r) : r \in Holding}
  BY <1>1
<1>6. ChainsWritten'
  BY <1>1, <1>2, <1>3 DEF TableInv, ChainsWritten
<1>7. DescriptorsAccounted'
  BY <1>4, <1>5 DEF TableInv, DescriptorsAccounted
<1>8. PanicMeansOverload'
  BY <1>3, <1>5 DEF TableInv, PanicMeansOverload
<1> QED
  BY <1>1, <1>2, <1>6, <1>7, <1>8 DEF TableInv

LEMMA FreeMarkIsNoSlot == FreeMark \notin Slots
  BY SizeFacts DEF FreeMark, Slots

\* A filled descriptor is not marked free.
LEMMA FilledDescriptor ==
  ASSUME NEW r, NEW sh \in Shapes, NEW S \in SUBSET Slots,
         Cardinality(S) = sh[1] + sh[2], NEW s \in S
  PROVE  /\ Descriptor(r, sh, S, s).next # FreeMark
         /\ Descriptor(r, sh, S, s).addr[1] = r
<1>1. Descriptor(r, sh, S, s).next
        = IF Rank(s, S) < Cardinality(S) THEN Least({t \in S : t > s}) ELSE 0
  BY DEF Descriptor
<1>2. Descriptor(r, sh, S, s).next \in Slots
  BY <1>1, RankOfNext, IndexTypes
<1>3. Descriptor(r, sh, S, s).addr[1] = r
  BY DEF Descriptor
<1> QED
  BY <1>2, <1>3, FreeMarkIsNoSlot

\* QSendFill, when it finds the slots: the new chain takes free slots, and
\* the chains there are stay.
LEMMA FillChains ==
  ASSUME TypeOK, TableInv, NEW r \in Requests, NEW sh \in Shapes, QSendFill(r, sh),
         sh[1] + sh[2] <= Cardinality(FreeSlots)
  PROVE  /\ Own(r)' = Highest(sh[1] + sh[2])
         /\ \A t : t # r => Own(t)' = Own(t)
         /\ Holding' = Holding \cup {r} /\ r \notin Holding
         /\ InFlight' = InFlight
         /\ \A t \in Holding : \A s \in Own(t) : desc'[s] = desc[s]
<1> DEFINE S == Highest(sh[1] + sh[2])
<1>1. S \in SUBSET FreeSlots /\ S \in SUBSET Slots /\ Cardinality(S) = sh[1] + sh[2]
  BY HighestCount, ShapeTypes DEF FreeSlots
<1>2. /\ desc' = [s \in Slots |-> IF s \in S THEN Descriptor(r, sh, S, s) ELSE desc[s]]
      /\ retsize' = [retsize EXCEPT ![r] = 0]
      /\ pc' = [pc EXCEPT ![r] = "publish"]
      /\ pc[r] = "idle"
  BY DEF QSendFill, MayCall
<1> HIDE DEF S
<1>3. \A s \in S : /\ desc'[s].next # FreeMark /\ desc'[s].addr[1] = r
                   /\ desc[s].next = FreeMark
  BY <1>1, <1>2, FilledDescriptor DEF FreeSlots
<1>4. \A s \in Slots : s \notin S => desc'[s] = desc[s]
  BY <1>2
<1>5. r \notin Holding /\ Holding' = Holding \cup {r} /\ InFlight' = InFlight
  BY <1>2 DEF Holding, InFlight, TypeOK
<1>6. Own(r) = {}
  <2>1. Own(r) \subseteq UNION {Own(h) : h \in Holding}
    BY DEF TableInv, DescriptorsAccounted, Own
  <2> QED
    BY <1>5, <2>1, OwnDisjoint
<1>7. Own(r)' = S
  <2>1. ASSUME NEW s \in S PROVE s \in Own(r)'
    BY <1>1, <1>3 DEF Own
  <2>2. ASSUME NEW s \in Own(r)' PROVE s \in S
    BY <1>4, <1>6 DEF Own
  <2> QED
    BY <2>1, <2>2
<1>8. ASSUME NEW t, t # r PROVE Own(t)' = Own(t)
  <2>1. ASSUME NEW s \in Slots PROVE s \in Own(t)' <=> s \in Own(t)
    BY <1>3, <1>4, <1>8 DEF Own
  <2> QED
    BY <2>1 DEF Own
<1>9. ASSUME NEW t \in Holding, NEW s \in Own(t) PROVE desc'[s] = desc[s]
  BY <1>3, <1>4 DEF Own
<1> QED
  BY <1>5, <1>7, <1>8, <1>9 DEF S

LEMMA FillTable ==
  ASSUME TypeOK, TableInv, NEW r \in Requests, NEW sh \in Shapes, QSendFill(r, sh),
         sh[1] + sh[2] <= Cardinality(FreeSlots)
  PROVE  TableInv'
<1> DEFINE S == Highest(sh[1] + sh[2])
<1>1. /\ Own(r)' = S
      /\ \A t : t # r => Own(t)' = Own(t)
      /\ Holding' = Holding \cup {r} /\ r \notin Holding
      /\ \A t \in Holding : \A s \in Own(t) : desc'[s] = desc[s]
  BY FillChains
<1>2. S \in SUBSET Slots /\ S # {} /\ Cardinality(S) = sh[1] + sh[2] /\ Least(S) \in S
  BY HighestCount, FilledSlots, ShapeTypes
<1>3. /\ desc' = [s \in Slots |-> IF s \in S THEN Descriptor(r, sh, S, s) ELSE desc[s]]
      /\ retlenptrs' = [retlenptrs EXCEPT ![Least(S)] = r]
      /\ req' = [req EXCEPT ![r] = sh]
      /\ pc' = [pc EXCEPT ![r] = "publish"]
      /\ Running
  BY DEF QSendFill
<1> HIDE DEF S
<1>4. ChainHead(r)' = Least(S) /\ \A t : t # r => ChainHead(t)' = ChainHead(t)
  BY <1>1 DEF ChainHead
<1>5. req'[r] = sh /\ NumBufs(r)' = sh[1] + sh[2]
      /\ \A t \in Requests : t # r => req'[t] = req[t] /\ NumBufs(t)' = NumBufs(t)
  BY <1>3 DEF TypeOK, NumBufs
<1>6. ASSUME NEW t \in Holding'
      PROVE  /\ req'[t] \in Shapes
             /\ Cardinality(Own(t)') = NumBufs(t)'
             /\ \A s \in Own(t)' : desc'[s] = Descriptor(t, req'[t], Own(t)', s)
             /\ retlenptrs'[ChainHead(t)'] = t
  <2>1. CASE t = r
    <3>1. retlenptrs'[Least(S)] = r
      BY <1>2, <1>3 DEF TypeOK
    <3>2. \A s \in S : desc'[s] = Descriptor(r, sh, S, s)
      BY <1>2, <1>3
    <3> QED
      BY <1>1, <1>2, <1>4, <1>5, <2>1, <3>1, <3>2
  <2>2. CASE t # r
    <3>1. t \in Holding /\ t \in Requests
      BY <1>1, <2>2 DEF Holding
    <3>2. ChainHead(t) \in Own(t) /\ ChainHead(t) \in Slots /\ ChainHead(t) # Least(S)
      <4>1. ChainHead(t) \in Own(t) /\ ChainHead(t) \in Slots
                /\ desc[ChainHead(t)].next # FreeMark
        BY <3>1, HeadIsOwn DEF TableInv
      <4>2. Least(S) \in FreeSlots
        BY <1>2, HighestCount, ShapeTypes DEF S
      <4> QED
        BY <4>1, <4>2 DEF FreeSlots
    <3>3. retlenptrs'[ChainHead(t)] = retlenptrs[ChainHead(t)]
      BY <1>3, <3>2 DEF TypeOK
    <3> QED
      BY <1>1, <1>4, <1>5, <2>2, <3>1, <3>3 DEF TableInv, ChainsWritten
  <2> QED
    BY <2>1, <2>2
<1>7. ChainsWritten'
  BY <1>6 DEF ChainsWritten
<1>8. DescriptorsAccounted'
  <2>1. ASSUME NEW s \in Slots, desc'[s].next # FreeMark
        PROVE  \E t \in Holding' : s \in Own(t)'
    <3>1. CASE s \in S
      BY <1>1, <3>1
    <3>2. CASE s \notin S
      <4>1. desc[s].next # FreeMark
        BY <1>3, <2>1, <3>2
      <4>2. PICK t \in Holding : s \in Own(t)
        BY <4>1 DEF TableInv, DescriptorsAccounted
      <4> QED
        BY <1>1, <4>2
    <3> QED
      BY <3>1, <3>2
  <2>2. ASSUME NEW t, NEW s \in Own(t)' PROVE s \in Slots /\ desc'[s].next # FreeMark
    BY DEF Own
  <2> QED
    BY <2>1, <2>2 DEF DescriptorsAccounted
<1>9. PanicMeansOverload'
  BY <1>3 DEF PanicMeansOverload, Running, TypeOK
<1> QED
  BY <1>7, <1>8, <1>9 DEF TableInv

\* QSendFill, when it does not.
LEMMA PanicTable ==
  ASSUME TypeOK, TableInv, NEW r \in Requests, NEW sh \in Shapes, QSendFill(r, sh),
         ~(sh[1] + sh[2] <= Cardinality(FreeSlots))
  PROVE  /\ TableInv'
         /\ Holding' = Holding /\ InFlight' = InFlight
         /\ \A t : Own(t)' = Own(t)
<1>1. /\ UNCHANGED <<desc, retlenptrs>>
      /\ retsize' = [retsize EXCEPT ![r] = 0]
      /\ req' = [req EXCEPT ![r] = sh]
      /\ pc' = [pc EXCEPT ![r] = "panic"]
      /\ pc[r] = "idle" /\ Running
  BY DEF QSendFill, MayCall
<1>2. Holding' = Holding /\ InFlight' = InFlight /\ r \notin Holding
  BY <1>1 DEF Holding, InFlight, TypeOK
<1>3. \A t : Own(t)' = Own(t) /\ ChainHead(t)' = ChainHead(t)
  BY <1>1 DEF Own, ChainHead
<1>4. req'[r] = sh /\ \A t \in Holding : req'[t] = req[t]
  BY <1>1, <1>2 DEF TypeOK, Holding
<1>5. NumBufs(r)' = sh[1] + sh[2] /\ \A t \in Holding : NumBufs(t)' = NumBufs(t)
  BY <1>4 DEF NumBufs
<1>6. ChainsWritten'
  BY <1>1, <1>2, <1>3, <1>4, <1>5 DEF TableInv, ChainsWritten
<1>7. (UNION {Own(t) : t \in Holding})' = UNION {Own(t) : t \in Holding}
  BY <1>2, <1>3
<1>8. DescriptorsAccounted'
  BY <1>1, <1>7 DEF TableInv, DescriptorsAccounted
<1>9. PanicMeansOverload'
  <2>1. NumBufs(r)' + Cardinality(UNION {Own(t) : t \in Holding}) > Size
    <3>1. Cardinality(UNION {Own(t) : t \in Holding}) = Size - Cardinality(FreeSlots)
          /\ Cardinality(FreeSlots) \in Nat
      BY HoldingSlots DEF TableInv
    <3> QED
      BY <1>5, <3>1, ShapeTypes, SizeFacts
  <2>2. \A t \in Requests : pc'[t] = "panic" => t = r
    BY <1>1 DEF Running, TypeOK
  <2> QED
    BY <1>7, <2>1, <2>2 DEF PanicMeansOverload
<1> QED
  BY <1>2, <1>3, <1>6, <1>8, <1>9 DEF TableInv

\* poll's turn, on the chain of a request in flight.
LEMMA FreeTable ==
  ASSUME TypeOK, TableInv, PollElement, NEW r \in InFlight,
         usedRing[Pos(scan.i)].id = ChainHead(r), usedRing[Pos(scan.i)].len \in Lens
  PROVE  /\ TableInv'
         /\ Holding' = Holding \ {r} /\ InFlight' = InFlight \ {r}
         /\ \A t : t # r => Own(t)' = Own(t)
         /\ retlenptrs[ChainHead(r)] = r
         /\ \A s \in Slots : desc'[s].addr = desc[s].addr
<1> DEFINE len == usedRing[Pos(scan.i)].len
<1>1. r \in Holding /\ r \in Requests /\ pc[r] # "publish"
  BY DEF InFlight, Holding
<1>2. retlenptrs[ChainHead(r)] = r /\ Chain(ChainHead(r)) = Own(r)
  BY <1>1, ChainIsOwn DEF TableInv, ChainsWritten
<1>3. /\ desc' = [s \in Slots |-> IF s \in Own(r) THEN [desc[s] EXCEPT !.next = FreeMark]
                                                  ELSE desc[s]]
      /\ retsize' = [t \in Requests |-> IF t = r THEN len ELSE retsize[t]]
      /\ pc' = [t \in Requests |-> IF t = r /\ t \in EventBufs THEN "idle" ELSE pc[t]]
      /\ UNCHANGED <<retlenptrs, req>>
      /\ Running
  BY <1>2 DEF PollElement
<1>4. len \in Lens /\ len # 0
  BY DeviceAssumption
<1> HIDE DEF len
<1>5. Holding' = Holding \ {r}
  BY <1>1, <1>3, <1>4 DEF Holding
<1>6. InFlight' = InFlight \ {r}
  BY <1>3, <1>5 DEF InFlight, Holding
<1>7. /\ \A s \in Own(r) : desc'[s].next = FreeMark
      /\ \A s \in Slots : s \notin Own(r) => desc'[s] = desc[s]
      /\ \A s \in Slots : desc'[s].addr = desc[s].addr
  <2>1. \A d \in Descriptors : [d EXCEPT !.next = FreeMark].next = FreeMark
                               /\ [d EXCEPT !.next = FreeMark].addr = d.addr
    BY DEF Descriptors
  <2>2. \A s \in Slots : desc[s] \in Descriptors
    BY DEF TypeOK
  <2>3. Own(r) \in SUBSET Slots
    BY OwnSlots
  <2> QED
    BY <1>3, <2>1, <2>2, <2>3
<1>8. ASSUME NEW t, t # r PROVE Own(t)' = Own(t)
  <2>1. ASSUME NEW s \in Slots PROVE s \in Own(t)' <=> s \in Own(t)
    <3>1. CASE s \in Own(r)
      <4>1. s \notin Own(t)
        BY <1>8, <3>1, OwnDisjoint
      <4> QED
        BY <1>7, <3>1, <4>1 DEF Own
    <3>2. CASE s \notin Own(r)
      BY <1>7, <3>2 DEF Own
    <3> QED
      BY <3>1, <3>2
  <2> QED
    BY <2>1 DEF Own
<1>9. \A t : NumBufs(t)' = NumBufs(t)
  BY <1>3 DEF NumBufs
<1>10. ChainsWritten'
  <2>1. ASSUME NEW t \in Holding, t # r
        PROVE  /\ req'[t] \in Shapes
               /\ Cardinality(Own(t)') = NumBufs(t)'
               /\ \A s \in Own(t)' : desc'[s] = Descriptor(t, req'[t], Own(t)', s)
               /\ retlenptrs'[ChainHead(t)'] = t
    <3>1. \A s \in Own(t) : desc'[s] = desc[s]
      BY <1>7, <2>1, OwnSlots, OwnDisjoint
    <3>2. ChainHead(t)' = ChainHead(t)
      BY <1>8, <2>1 DEF ChainHead
    <3>3. Own(t)' = Own(t) /\ NumBufs(t)' = NumBufs(t)
      BY <1>8, <1>9, <2>1
    <3>4. /\ req[t] \in Shapes
          /\ Cardinality(Own(t)) = NumBufs(t)
          /\ \A s \in Own(t) : desc[s] = Descriptor(t, req[t], Own(t), s)
          /\ retlenptrs[ChainHead(t)] = t
      BY <2>1 DEF TableInv, ChainsWritten
    <3>5. \A s \in Own(t)' : desc'[s] = Descriptor(t, req'[t], Own(t)', s)
      BY <1>3, <3>1, <3>3, <3>4
    <3> QED
      BY <1>3, <3>2, <3>3, <3>4, <3>5
  <2> QED
    BY <1>5, <2>1 DEF ChainsWritten
<1>11. DescriptorsAccounted'
  <2>1. ASSUME NEW s \in Slots, desc'[s].next # FreeMark
        PROVE  \E t \in Holding' : s \in Own(t)'
    <3>1. s \notin Own(r) /\ desc[s].next # FreeMark
      BY <1>7, <2>1
    <3>2. PICK t \in Holding : s \in Own(t)
      BY <3>1 DEF TableInv, DescriptorsAccounted
    <3> QED
      BY <1>5, <1>8, <3>1, <3>2
  <2>2. ASSUME NEW t, NEW s \in Own(t)' PROVE s \in Slots /\ desc'[s].next # FreeMark
    BY DEF Own
  <2> QED
    BY <2>1, <2>2 DEF DescriptorsAccounted
<1>12. PanicMeansOverload'
  BY <1>3 DEF PanicMeansOverload, Running
<1> QED
  BY <1>2, <1>5, <1>6, <1>7, <1>8, <1>10, <1>11, <1>12 DEF TableInv

-------------------------------------------------------------------------------
(***************************************************************************)
(* The steps, on the activations.                                          *)
(***************************************************************************)
LEMMA NoOneIsNone == \A r \in Requests : r # NoOne
  BY CallerAssumption DEF Requests

LEMMA MaskOfCalls ==
  ASSUME TypeOK, MaskInv, NEW r \in Requests,
         \/ \E sh \in Shapes : QSendFill(r, sh)
         \/ QSendPublish(r)
         \/ QSendNotify(r)
  PROVE  MaskInv'
<1> USE DEF MaskInv, TypeOK
<1>1. ASSUME NEW sh \in Shapes, QSendFill(r, sh) PROVE MaskInv'
  <2>1. /\ pc[r] = "idle" /\ UNCHANGED scan
        /\ \E v \in {"publish", "panic"} : pc' = [pc EXCEPT ![r] = v]
        /\ Masked => scan.callback = r
    BY <1>1 DEF QSendFill, MayCall
  <2>2. \A t \in Requests : pc[t] \in {"publish", "notify", "poll", "check"} => Masked
    BY DEF Masked
  <2>3. scan.on => Masked
    BY DEF Masked
  <2> QED
    BY <2>1, <2>2, <2>3, NoOneIsNone DEF Requests
<1>2. CASE QSendPublish(r)
  <2>1. pc[r] = "publish" /\ pc' = [pc EXCEPT ![r] = "notify"] /\ UNCHANGED scan
    BY <1>2 DEF QSendPublish
  <2> QED
    BY <2>1 DEF Requests
<1>3. CASE QSendNotify(r)
  <2>1. /\ pc[r] = "notify"
        /\ \/ r \in Waiters /\ \E v \in {"wait", "poll"} : pc' = [pc EXCEPT ![r] = v]
           \/ r \in EventBufs /\ pc' = [pc EXCEPT ![r] = "sent"]
        /\ scan' = IF scan.callback = r THEN [scan EXCEPT !.callback = NoOne] ELSE scan
    BY <1>3 DEF QSendNotify
  <2>2. CASE scan.callback = r
    <3>1. scan'.on = scan.on /\ scan'.callback = NoOne /\ r \in EventBufs
      BY <2>1, <2>2, NoOneIsNone
    <3>2. pc' = [pc EXCEPT ![r] = "sent"]
      BY <2>1, <3>1, CallerAssumption
    <3>3. \A t \in Requests : t # r => pc'[t] = pc[t]
      BY <3>2
    <3>4. \A t, u \in Requests : /\ pc'[t] \in {"publish", "notify", "poll", "check"}
                                 /\ pc'[u] \in {"publish", "notify", "poll", "check"}
                                 => t = u
      BY <2>2, <3>2, <3>3
    <3>5. scan.on => \A t \in Requests : pc'[t] \notin {"publish", "notify"}
      BY <2>2, <3>2, <3>3
    <3>6. \A w \in Waiters : pc'[w] # "sent"
      BY <3>1, <3>2, <3>3, CallerAssumption DEF Requests
    <3>7. \A b \in EventBufs : pc'[b] \in {"idle", "publish", "notify", "sent", "panic"}
      BY <3>2, <3>3 DEF Requests
    <3> QED
      BY <3>1, <3>4, <3>5, <3>6, <3>7
  <2>3. CASE scan.callback # r
    <3>1. scan' = scan
      BY <2>1, <2>3
    <3>2. \A t \in Requests : t # r => pc'[t] = pc[t]
      BY <2>1
    <3>3. pc'[r] \in {"wait", "poll", "sent"} /\ (pc'[r] = "sent" <=> r \in EventBufs)
      BY <2>1, CallerAssumption
    <3>4. \A w \in Waiters : pc'[w] # "sent"
      BY <3>2, <3>3, CallerAssumption DEF Requests
    <3>5. \A b \in EventBufs : pc'[b] \in {"idle", "publish", "notify", "sent", "panic"}
      BY <3>2, <3>3, CallerAssumption DEF Requests
    <3>6. \A t \in Requests : pc'[t] \in {"publish", "notify"}
                                => t # r /\ pc[t] \in {"publish", "notify"}
      BY <3>2, <3>3
    <3>7. \A t \in Requests : pc'[t] \in {"publish", "notify", "poll", "check"}
                                => pc[t] \in {"publish", "notify", "poll", "check"}
      BY <2>1, <3>2
    <3> QED
      BY <3>1, <3>4, <3>5, <3>6, <3>7
  <2> QED
    BY <2>2, <2>3
<1> QED
  BY <1>1, <1>2, <1>3

LEMMA MaskOfPolls ==
  ASSUME TypeOK, MaskInv,
         \/ \E w \in Waiters : QSendPoll(w) \/ QSendReturn(w)
         \/ PollElement
         \/ PollEnd
         \/ Interrupt
  PROVE  MaskInv'
<1> USE DEF MaskInv, TypeOK
<1>1. ASSUME NEW w \in Waiters, QSendPoll(w) PROVE MaskInv'
  <2>1. /\ ~scan.on /\ pc[w] \in {"poll", "check"}
        /\ pc' = [pc EXCEPT ![w] = "check"]
        /\ scan'.callback = NoOne /\ scan'.on = TRUE
        /\ w \in Requests
    BY <1>1 DEF QSendPoll, StartPoll, Requests
  <2>2. \A t \in Requests : pc[t] \in {"publish", "notify", "poll", "check"} => t = w
    BY <2>1, NoOneIsNone
  <2>3. \A t \in Requests : /\ t # w => pc'[t] = pc[t]
                            /\ pc'[w] = "check"
    BY <2>1
  <2>4. w \notin EventBufs
    BY CallerAssumption
  <2> QED
    BY <2>1, <2>2, <2>3, <2>4 DEF Requests
<1>2. ASSUME NEW w \in Waiters, QSendReturn(w) PROVE MaskInv'
  <2>1. pc' = [pc EXCEPT ![w] = "idle"] /\ UNCHANGED scan /\ w \in Requests
    BY <1>2 DEF QSendReturn, Requests
  <2>2. \A t \in Requests : pc'[t] # "idle" => pc'[t] = pc[t]
    BY <2>1
  <2>3. \A t \in Requests : pc'[t] = "idle" \/ pc'[t] = pc[t]
    BY <2>1
  <2> QED
    BY <2>1, <2>3 DEF Requests
<1>3. CASE PollElement
  <2>1. /\ scan.on /\ scan.callback = NoOne /\ scan'.on = scan.on
        /\ scan'.callback \in EventBufs \cup {NoOne}
    <3>1. TypeOK'
      BY <1>3, PollElementType
    <3>2. scan'.on = scan.on
      BY <1>3 DEF PollElement
    <3> QED
      BY <1>3, <3>1, <3>2 DEF PollElement
  <2>2. \A t \in Requests : pc'[t] = "idle" \/ pc'[t] = pc[t]
    BY <1>3 DEF PollElement
  <2>3. \A t \in Requests : pc[t] \notin {"publish", "notify"}
    BY <2>1, NoOneIsNone
  <2>4. \A t, u \in Requests : /\ pc'[t] \in {"publish", "notify", "poll", "check"}
                               /\ pc'[u] \in {"publish", "notify", "poll", "check"}
                               => t = u
    BY <2>1, <2>2, NoOneIsNone
  <2> QED
    BY <2>1, <2>2, <2>3, <2>4 DEF Requests
<1>4. CASE PollEnd
  <2>1. scan.callback = NoOne /\ scan'.on = FALSE /\ scan'.callback = NoOne /\ UNCHANGED pc
    BY <1>4 DEF PollEnd
  <2> QED
    BY <2>1
<1>5. CASE Interrupt
  <2>1. ~Masked /\ UNCHANGED pc /\ scan'.on = TRUE /\ scan'.callback = NoOne
    BY <1>5 DEF Interrupt, StartPoll
  <2>2. \A t \in Requests : pc[t] \notin {"publish", "notify", "poll", "check"}
    BY <2>1 DEF Masked
  <2> QED
    BY <2>1, <2>2
<1> QED
  BY <1>1, <1>2, <1>3, <1>4, <1>5

LEMMA MaskOfDevice ==
  ASSUME MaskInv, UNCHANGED <<pc, scan>>
  PROVE  MaskInv'
  BY DEF MaskInv

\* poll reads on only while no QSend is at its request or its notification.
LEMMA PollIsAlone ==
  ASSUME TypeOK, MaskInv, scan.on, scan.callback = NoOne
  PROVE  \A r \in Requests : pc[r] \notin {"publish", "notify"}
  BY NoOneIsNone DEF MaskInv

LEMMA OneSender ==
  ASSUME MaskInv, NEW r \in Requests, NEW t \in Requests,
         pc[r] = "publish", pc[t] = "publish"
  PROVE  r = t
  BY NoOneIsNone DEF MaskInv

LEMMA FillIsAlone ==
  ASSUME MaskInv, NEW r \in Requests, MayCall(r)
  PROVE  \A t \in Requests : pc[t] # "publish"
  BY NoOneIsNone DEF MaskInv, MayCall, Masked

-------------------------------------------------------------------------------
(***************************************************************************)
(* The steps, on the rings.                                                *)
(***************************************************************************)
LEMMA RingBounds ==
  ASSUME TypeOK, TableInv, RingInv
  PROVE  /\ InFlight \subseteq Holding /\ IsFiniteSet(InFlight) /\ IsFiniteSet(held)
         /\ NextUsed \in Indices
         /\ Cardinality(InFlight) \in Nat /\ Cardinality(held) \in Nat
         /\ Cardinality(FreeSlots) \in Nat
         /\ Cardinality(InFlight) + Cardinality(FreeSlots) <= Size
         /\ Dist(lastAvail, availIdx) \in Nat /\ Dist(NextUsed, usedIdx) \in Nat
         /\ Dist(lastAvail, availIdx) + Cardinality(held) + Dist(NextUsed, usedIdx)
              = Cardinality(InFlight)
<1>1. InFlight \subseteq Holding /\ InFlight \in SUBSET Holding
  BY DEF InFlight
<1>2. /\ IsFiniteSet(Holding) /\ Cardinality(Holding) \in Nat /\ Cardinality(FreeSlots) \in Nat
      /\ Cardinality(Holding) + Cardinality(FreeSlots) <= Size
  BY HoldingSlots DEF TableInv
<1>3. IsFiniteSet(InFlight) /\ Cardinality(InFlight) <= Cardinality(Holding)
      /\ Cardinality(InFlight) \in Nat
  BY <1>1, <1>2, FS_Subset, FS_CardinalityType
<1>4. IsFiniteSet(held) /\ Cardinality(held) \in Nat
  BY SlotSets DEF TypeOK
<1>5. NextUsed \in Indices /\ lastAvail \in Indices /\ availIdx \in Indices /\ usedIdx \in Indices
  BY DEF NextUsed, TypeOK
<1>6. Dist(lastAvail, availIdx) \in Nat /\ Dist(NextUsed, usedIdx) \in Nat
  BY <1>5, DistFacts DEF Indices
<1> QED
  BY <1>1, <1>2, <1>3, <1>4, <1>5, <1>6, SizeFacts DEF RingInv, HeadsCounted

LEMMA RingKept ==
  ASSUME RingInv, UNCHANGED <<lastAvail, availIdx, usedIdx, usedRing, held>>,
         NextUsed' = NextUsed, InFlight' = InFlight,
         \A r \in InFlight : ChainHead(r)' = ChainHead(r),
         \A p \in Window(lastAvail, availIdx) : availRing'[p] = availRing[p]
  PROVE  RingInv'
<1>1. Heads' = Heads
  BY DEF Heads
<1>2. UsedIds' = UsedIds
  BY DEF UsedIds
<1>3. UsedSet' = UsedSet /\ Distinct(UsedIds', NextUsed', usedIdx') = Distinct(UsedIds, NextUsed, usedIdx)
  BY <1>2 DEF UsedSet
<1>4. /\ AvailSet' = AvailSet
      /\ Distinct(availRing, lastAvail, availIdx) => Distinct(availRing', lastAvail', availIdx')
  <2>1. /\ Entries(availRing', lastAvail, availIdx) = Entries(availRing, lastAvail, availIdx)
        /\ Distinct(availRing, lastAvail, availIdx) => Distinct(availRing', lastAvail, availIdx)
    BY EntriesKept
  <2> QED
    BY <2>1 DEF AvailSet
<1>5. HeadsPlaced'
  BY <1>1, <1>3, <1>4 DEF RingInv, HeadsPlaced
<1>6. HeadsCounted' /\ LensReal'
  BY DEF RingInv, HeadsCounted, LensReal
<1> QED
  BY <1>5, <1>6 DEF RingInv

LEMMA PublishRing ==
  ASSUME TypeOK, TableInv, RingInv, PublishReady, NEW r \in Requests, QSendPublish(r)
  PROVE  RingInv' /\ Holding' = Holding /\ InFlight' = InFlight \cup {r}
<1> DEFINE x == ChainHead(r)
<1>1. /\ pc[r] = "publish" /\ pc' = [pc EXCEPT ![r] = "notify"] /\ availIdx' = Succ(availIdx)
      /\ UNCHANGED <<desc, retsize, availRing, usedRing, usedIdx, usedCtr, scan, lastAvail, held>>
  BY DEF QSendPublish, usedVars, deviceVars
<1>2. availRing[Pos(availIdx)] = x /\ retsize[r] = 0
  BY <1>1 DEF PublishReady
<1>3. Holding' = Holding /\ InFlight' = InFlight \cup {r} /\ r \in Holding /\ r \notin InFlight
  BY <1>1, <1>2 DEF Holding, InFlight, TypeOK
<1>4. \A t : ChainHead(t)' = ChainHead(t)
  BY <1>1 DEF ChainHead, Own
<1>5. NextUsed' = NextUsed /\ UsedIds' = UsedIds
  BY <1>1 DEF NextUsed, UsedIds
<1>6. Heads' = Heads \cup {x}
  BY <1>3, <1>4 DEF Heads
<1>7. x \notin Heads
  <2>1. \A t \in InFlight : t \in Holding /\ t # r
    BY <1>3 DEF InFlight
  <2> QED
    BY <1>3, <2>1, HeadsDiffer DEF Heads, TableInv
<1>8. /\ IsFiniteSet(InFlight) /\ Cardinality(InFlight) \in Nat
      /\ Cardinality(InFlight) < Size
      /\ Dist(lastAvail, availIdx) < Size
  <2>1. /\ IsFiniteSet(Holding) /\ Cardinality(Holding) \in Nat /\ Cardinality(Holding) <= Size
    BY HoldingSlots, SizeFacts DEF TableInv
  <2>2. InFlight \in SUBSET Holding /\ InFlight # Holding
    BY <1>3 DEF InFlight
  <2>3. Cardinality(InFlight) <= Cardinality(Holding)
        /\ Cardinality(InFlight) # Cardinality(Holding)
    BY <2>1, <2>2, FS_Subset
  <2> QED
    BY <2>1, <2>3, RingBounds, SizeFacts
<1>9. lastAvail \in Indices /\ availIdx \in Indices
  BY DEF TypeOK
<1>10. x \notin AvailSet
  BY <1>7 DEF RingInv, HeadsPlaced
<1>11. /\ AvailSet' = AvailSet \cup {x}
       /\ Distinct(availRing', lastAvail', availIdx')
       /\ Dist(lastAvail', availIdx') = Dist(lastAvail, availIdx) + 1
  <2>1. /\ Entries(availRing, lastAvail, Succ(availIdx)) = AvailSet \cup {x}
        /\ Distinct(availRing, lastAvail, Succ(availIdx))
    BY <1>2, <1>8, <1>9, <1>10, EntryAdded DEF AvailSet, RingInv, HeadsPlaced
  <2> QED
    BY <1>1, <1>8, <1>9, <2>1, DistFacts DEF AvailSet
<1>12. UsedSet' = UsedSet
  BY <1>1, <1>5 DEF UsedSet
<1>13. HeadsPlaced'
  BY <1>1, <1>5, <1>6, <1>7, <1>11, <1>12 DEF RingInv, HeadsPlaced
<1>14. HeadsCounted'
  <2>1. Cardinality(InFlight') = Cardinality(InFlight) + 1
    BY <1>3, <1>8, FS_AddElement
  <2> QED
    BY <1>1, <1>5, <1>11, <2>1, RingBounds DEF HeadsCounted
<1>15. LensReal'
  BY <1>1, <1>5 DEF RingInv, LensReal
<1> QED
  BY <1>3, <1>13, <1>14, <1>15 DEF RingInv

LEMMA TakeRing ==
  ASSUME TypeOK, TableInv, RingInv, DevTake
  PROVE  RingInv'
<1> DEFINE x == availRing[Pos(lastAvail)]
<1>1. /\ lastAvail # availIdx /\ lastAvail' = Succ(lastAvail) /\ held' = held \cup {x}
      /\ UNCHANGED <<desc, retsize, pc, req, availIdx, availRing, usedRing, usedIdx, usedCtr, scan>>
  BY DEF DevTake, ringVars, usedVars
<1>2. NextUsed' = NextUsed /\ UsedIds' = UsedIds /\ InFlight' = InFlight /\ Heads' = Heads
  BY <1>1 DEF NextUsed, UsedIds, InFlight, Holding, Heads, ChainHead, Own
<1>3. UsedSet' = UsedSet
  BY <1>1, <1>2 DEF UsedSet
<1>4. lastAvail \in Indices /\ availIdx \in Indices
  BY DEF TypeOK
<1>5. Dist(lastAvail, availIdx) <= Size
  BY RingBounds, SizeFacts
<1>6. /\ AvailSet' = AvailSet \ {x} /\ x \in AvailSet
      /\ Distinct(availRing', lastAvail', availIdx')
      /\ Dist(lastAvail', availIdx') = Dist(lastAvail, availIdx) - 1
  <2>1. /\ Entries(availRing, Succ(lastAvail), availIdx) = AvailSet \ {x}
        /\ x \in AvailSet
        /\ Distinct(availRing, Succ(lastAvail), availIdx)
    BY <1>1, <1>4, <1>5, EntryRemoved DEF AvailSet, RingInv, HeadsPlaced
  <2> QED
    BY <1>1, <1>4, <2>1, DistFacts DEF AvailSet
<1> HIDE DEF x
<1>7. x \notin held /\ x \notin UsedSet
  BY <1>6 DEF RingInv, HeadsPlaced
<1>8. HeadsPlaced'
  BY <1>1, <1>2, <1>3, <1>6, <1>7 DEF RingInv, HeadsPlaced
<1>9. HeadsCounted'
  <2>1. Cardinality(held') = Cardinality(held) + 1
    BY <1>1, <1>7, RingBounds, FS_AddElement
  <2> QED
    BY <1>1, <1>2, <1>6, <2>1, RingBounds DEF HeadsCounted
<1>10. LensReal'
  BY <1>1, <1>2 DEF RingInv, LensReal
<1> QED
  BY <1>8, <1>9, <1>10 DEF RingInv

LEMMA AnswerRing ==
  ASSUME TypeOK, TableInv, RingInv, NEW head \in Slots, NEW len \in Lens, DevAnswer(head, len)
  PROVE  /\ RingInv'
         /\ Dist(NextUsed, usedIdx) < Size /\ NextUsed' = NextUsed
         /\ \A p \in Window(NextUsed, usedIdx) : usedRing'[p] = usedRing[p]
         /\ usedRing'[Pos(usedIdx)] = [id |-> head, len |-> len]
<1>1. /\ head \in held /\ held' = held \ {head}
      /\ usedRing' = [usedRing EXCEPT ![Pos(usedIdx)] = [id |-> head, len |-> len]]
      /\ usedIdx' = Succ(usedIdx)
      /\ UNCHANGED <<desc, retsize, pc, req, lastAvail, availIdx, availRing, usedCtr, scan>>
  BY DEF DevAnswer, ringVars
<1>2. NextUsed' = NextUsed /\ InFlight' = InFlight /\ Heads' = Heads
  BY <1>1 DEF NextUsed, InFlight, Holding, Heads, ChainHead, Own
<1>3. AvailSet' = AvailSet
  BY <1>1 DEF AvailSet
<1>4. usedIdx \in Indices /\ NextUsed \in Indices /\ Pos(usedIdx) \in Slots
  BY RingBounds, IndexTypes DEF TypeOK
<1>5. Cardinality(held') = Cardinality(held) - 1 /\ Cardinality(held) > 0
  <2>1. IsFiniteSet(held) /\ Cardinality(held) \in Nat
    BY RingBounds
  <2>2. Cardinality(held) # 0
    BY <1>1, <2>1, FS_EmptySet
  <2>3. Cardinality(held \ {head}) = Cardinality(held) - 1
    BY <1>1, <2>1, FS_RemoveElement
  <2> QED
    BY <1>1, <2>1, <2>2, <2>3
<1>6. Dist(NextUsed, usedIdx) < Size
  BY <1>5, RingBounds, SizeFacts
<1>7. Pos(usedIdx) \notin Window(NextUsed, usedIdx)
      /\ Window(NextUsed, Succ(usedIdx)) = Window(NextUsed, usedIdx) \cup {Pos(usedIdx)}
  BY <1>4, <1>6, WindowGrows
<1>8. /\ \A p \in Window(NextUsed, usedIdx) : usedRing'[p] = usedRing[p]
      /\ usedRing'[Pos(usedIdx)] = [id |-> head, len |-> len]
      /\ UsedIds'[Pos(usedIdx)] = head
  BY <1>1, <1>4, <1>7, WindowSlots DEF TypeOK, UsedIds
<1>9. /\ Entries(UsedIds', NextUsed, usedIdx) = UsedSet
      /\ Distinct(UsedIds', NextUsed, usedIdx)
  <2>1. \A p \in Window(NextUsed, usedIdx) : UsedIds'[p] = UsedIds[p]
    BY <1>4, <1>8, WindowSlots DEF UsedIds
  <2> QED
    BY <2>1, EntriesKept DEF UsedSet, RingInv, HeadsPlaced
<1>10. head \notin UsedSet /\ head \notin AvailSet
  BY <1>1 DEF RingInv, HeadsPlaced
<1>11. /\ UsedSet' = UsedSet \cup {head}
       /\ Distinct(UsedIds', NextUsed', usedIdx')
       /\ Dist(NextUsed', usedIdx') = Dist(NextUsed, usedIdx) + 1
  <2>1. /\ Entries(UsedIds', NextUsed, Succ(usedIdx)) = UsedSet \cup {head}
        /\ Distinct(UsedIds', NextUsed, Succ(usedIdx))
    BY <1>4, <1>6, <1>8, <1>9, <1>10, EntryAdded
  <2> QED
    BY <1>1, <1>2, <1>4, <1>6, <2>1, DistFacts DEF UsedSet
<1>12. HeadsPlaced'
  BY <1>1, <1>2, <1>3, <1>10, <1>11 DEF RingInv, HeadsPlaced
<1>13. HeadsCounted'
  BY <1>1, <1>2, <1>5, <1>11, RingBounds DEF HeadsCounted
<1>14. LensReal'
  BY <1>1, <1>2, <1>7, <1>8 DEF RingInv, LensReal
<1> QED
  BY <1>2, <1>6, <1>8, <1>12, <1>13, <1>14 DEF RingInv

\* The element that poll looks at answers a request in flight.
LEMMA ElementReal ==
  ASSUME TypeOK, TableInv, RingInv, ScanInv, PollElement
  PROVE  /\ NextUsed = scan.i /\ scan.i # usedIdx /\ NextUsed' = Succ(scan.i)
         /\ usedRing[Pos(scan.i)].len \in Lens
         /\ Dist(scan.i, usedIdx) <= Size /\ scan.i \in Indices
         /\ Dist(Succ(scan.i), scan.end) = Dist(scan.i, scan.end) - 1
         /\ \E r \in InFlight : usedRing[Pos(scan.i)].id = ChainHead(r)
<1>1. /\ scan.on /\ scan.i # scan.end /\ scan'.on = scan.on /\ scan'.i = Succ(scan.i)
  BY DEF PollElement, TypeOK
<1>2. scan.i \in Indices /\ scan.end \in Indices /\ usedIdx \in Indices
  BY DEF TypeOK
<1>3. scan.i # usedIdx
  <2>0. \A i, j \in Indices : Dist(i, j) \in Nat /\ (i # j => Dist(i, j) # 0)
    BY DistFacts DEF Indices
  <2>1. Dist(scan.i, scan.end) \in Nat /\ Dist(scan.i, scan.end) # 0
        /\ Dist(scan.end, usedIdx) \in Nat
    BY <1>1, <1>2, <2>0
  <2>2. Dist(scan.i, usedIdx) # 0
    BY <1>1, <2>1 DEF ScanInv
  <2> QED
    BY <1>2, <2>2, DistFacts
<1>4. NextUsed = scan.i /\ NextUsed' = Succ(scan.i)
  BY <1>1 DEF NextUsed
<1>5. Dist(scan.i, usedIdx) <= Size
  BY <1>4, RingBounds, SizeFacts
<1>6. UsedIds[Pos(scan.i)] \in UsedSet
  BY <1>2, <1>3, <1>4, <1>5, EntryRemoved DEF UsedSet, RingInv, HeadsPlaced
<1>7. UsedIds[Pos(scan.i)] = usedRing[Pos(scan.i)].id
  BY <1>2, IndexTypes DEF UsedIds
<1>8. \E r \in InFlight : usedRing[Pos(scan.i)].id = ChainHead(r)
  BY <1>6, <1>7 DEF RingInv, HeadsPlaced, Heads
<1>9. Pos(scan.i) \in Window(scan.i, usedIdx)
  BY <1>2, <1>3, <1>5, WindowShrinks
<1> QED
  BY <1>1, <1>2, <1>3, <1>4, <1>5, <1>8, <1>9, DistFacts DEF RingInv, LensReal

LEMMA PollRing ==
  ASSUME TypeOK, TableInv, RingInv, ScanInv, PollElement
  PROVE  RingInv' /\ TableInv'
<1>1. /\ NextUsed = scan.i /\ scan.i # usedIdx /\ NextUsed' = Succ(scan.i)
      /\ usedRing[Pos(scan.i)].len \in Lens
      /\ Dist(scan.i, usedIdx) <= Size /\ scan.i \in Indices
  BY ElementReal
<1>2. PICK r \in InFlight : usedRing[Pos(scan.i)].id = ChainHead(r)
  BY ElementReal
<1>3. /\ TableInv'
      /\ InFlight' = InFlight \ {r}
      /\ \A t : t # r => Own(t)' = Own(t)
  BY <1>1, <1>2, FreeTable
<1>4. UNCHANGED <<usedIdx, usedRing, lastAvail, availIdx, availRing, held>>
  BY DEF PollElement, ringVars, usedVars, deviceVars
<1>5. UsedIds' = UsedIds /\ AvailSet' = AvailSet
  BY <1>4 DEF UsedIds, AvailSet
<1> DEFINE x == ChainHead(r)
<1>6. UsedIds[Pos(scan.i)] = x
  BY <1>1, <1>2, IndexTypes DEF UsedIds
<1>7. Heads' = Heads \ {x}
  <2>1. \A t \in InFlight : t # r => ChainHead(t)' = ChainHead(t) /\ ChainHead(t) # x
    <3>1. \A t \in InFlight : t \in Holding
      BY DEF InFlight
    <3> QED
      BY <1>3, <3>1, HeadsDiffer DEF TableInv, ChainHead
  <2> HIDE DEF x
  <2> QED
    BY <1>3, <2>1 DEF Heads, x
<1> HIDE DEF x
<1>8. usedIdx \in Indices
  BY DEF TypeOK
<1>9. /\ UsedSet' = UsedSet \ {x} /\ x \in UsedSet
      /\ Distinct(UsedIds', NextUsed', usedIdx')
      /\ Dist(NextUsed', usedIdx') = Dist(NextUsed, usedIdx) - 1
  <2>1. /\ Entries(UsedIds, Succ(scan.i), usedIdx) = UsedSet \ {x}
        /\ x \in UsedSet
        /\ Distinct(UsedIds, Succ(scan.i), usedIdx)
    BY <1>1, <1>6, <1>8, EntryRemoved DEF UsedSet, RingInv, HeadsPlaced
  <2> QED
    BY <1>1, <1>4, <1>5, <1>8, <2>1, DistFacts DEF UsedSet
<1>10. x \notin AvailSet /\ x \notin held
  BY <1>9 DEF RingInv, HeadsPlaced
<1>11. HeadsPlaced'
  BY <1>4, <1>5, <1>7, <1>9, <1>10 DEF RingInv, HeadsPlaced
<1>12. HeadsCounted'
  <2>1. Cardinality(InFlight') = Cardinality(InFlight) - 1
    BY <1>3, RingBounds, FS_RemoveElement
  <2> QED
    BY <1>4, <1>9, <2>1, RingBounds DEF HeadsCounted
<1>13. LensReal'
  <2>1. Window(Succ(scan.i), usedIdx) \subseteq Window(scan.i, usedIdx)
    BY <1>1, <1>8, WindowShrinks
  <2> QED
    BY <1>1, <1>4, <2>1 DEF RingInv, LensReal
<1> QED
  BY <1>3, <1>11, <1>12, <1>13 DEF RingInv

-------------------------------------------------------------------------------
(***************************************************************************)
(* The invariant is inductive.                                             *)
(***************************************************************************)
LEMMA RingInit == Init => RInv
<1> SUFFICES ASSUME Init PROVE RInv
  OBVIOUS
<1>1. TypeOK
  BY TypeInit
<1>2. Holding = {} /\ InFlight = {}
  BY DEF Init, Holding, InFlight
<1>3. TableInv
  <2>1. {s \in Slots : desc[s].next # FreeMark} = {}
    BY DEF Init
  <2>2. UNION {Own(r) : r \in Holding} = {}
    BY <1>2
  <2> QED
    BY <1>2, <2>1, <2>2 DEF TableInv, ChainsWritten, DescriptorsAccounted, PanicMeansOverload, Init
<1>4. RingInv
  <2>1. Window(0, 0) = {} /\ Dist(0, 0) = 0
    BY IndexTypes, WindowEmpty, DistFacts
  <2>2. /\ lastAvail = 0 /\ availIdx = 0 /\ usedIdx = 0 /\ NextUsed = 0 /\ held = {}
    BY DEF Init, NextUsed
  <2>3. AvailSet = {} /\ UsedSet = {} /\ Heads = {}
    BY <1>2, <2>1, <2>2 DEF AvailSet, UsedSet, Entries, Heads
  <2> QED
    BY <1>2, <2>1, <2>2, <2>3, FS_EmptySet
       DEF RingInv, HeadsPlaced, HeadsCounted, LensReal, Distinct
<1>5. PublishReady /\ MaskInv /\ ScanInv
  BY CallerAssumption DEF Init, PublishReady, MaskInv, ScanInv, Requests
<1> QED
  BY <1>1, <1>3, <1>4, <1>5 DEF RInv

LEMMA FillRing ==
  ASSUME RInv, NEW r \in Requests, NEW sh \in Shapes, QSendFill(r, sh)
  PROVE  TableInv' /\ RingInv' /\ PublishReady' /\ ScanInv'
         /\ \A t \in InFlight : \A s \in Own(t) : desc'[s] = desc[s]
<1> USE DEF RInv
<1>1. /\ UNCHANGED <<lastAvail, availIdx, usedIdx, usedRing, usedCtr, held, scan>>
      /\ retsize' = [retsize EXCEPT ![r] = 0]
      /\ MayCall(r)
  BY DEF QSendFill, usedVars, deviceVars
<1>2. NextUsed' = NextUsed /\ ScanInv'
  BY <1>1 DEF NextUsed, ScanInv
<1>3. \A t \in Requests : pc[t] # "publish"
  BY <1>1, FillIsAlone
<1>4. InFlight \subseteq Holding
  BY DEF InFlight
<1>5. CASE sh[1] + sh[2] <= Cardinality(FreeSlots)
  <2> DEFINE S == Highest(sh[1] + sh[2])
  <2>1. TableInv'
    BY <1>5, FillTable
  <2>2. /\ Own(r)' = S /\ \A t : t # r => Own(t)' = Own(t)
        /\ Holding' = Holding \cup {r} /\ r \notin Holding /\ InFlight' = InFlight
        /\ \A t \in Holding : \A s \in Own(t) : desc'[s] = desc[s]
    BY <1>5, FillChains
  <2>3. /\ availRing' = [availRing EXCEPT ![Pos(availIdx)] = Least(S)]
        /\ pc' = [pc EXCEPT ![r] = "publish"]
    BY <1>5 DEF QSendFill
  <2> HIDE DEF S
  <2>4. Dist(lastAvail, availIdx) < Size
    BY <1>5, RingBounds, ShapeTypes, SizeFacts
  <2>5. availIdx \in Indices /\ lastAvail \in Indices /\ Pos(availIdx) \in Slots
    BY IndexTypes DEF TypeOK
  <2>6. \A p \in Window(lastAvail, availIdx) : availRing'[p] = availRing[p]
    BY <2>3, <2>4, <2>5, WindowGrows, WindowSlots DEF TypeOK
  <2>7. \A t : t # r => ChainHead(t)' = ChainHead(t)
    BY <2>2 DEF ChainHead
  <2>8. RingInv'
    BY <1>1, <1>2, <1>4, <2>2, <2>6, <2>7, RingKept
  <2>9. PublishReady'
    <3>1. ChainHead(r)' = Least(S)
      BY <2>2 DEF ChainHead
    <3>2. availRing'[Pos(availIdx')] = Least(S) /\ retsize'[r] = 0
      BY <1>1, <2>3, <2>5 DEF TypeOK
    <3>3. \A t \in Requests : pc'[t] = "publish" => t = r
      BY <1>3, <2>3 DEF TypeOK
    <3> QED
      BY <3>1, <3>2, <3>3 DEF PublishReady
  <2> QED
    BY <1>2, <1>4, <2>1, <2>2, <2>8, <2>9
<1>6. CASE ~(sh[1] + sh[2] <= Cardinality(FreeSlots))
  <2>1. TableInv' /\ Holding' = Holding /\ InFlight' = InFlight /\ \A t : Own(t)' = Own(t)
    BY <1>6, PanicTable
  <2>2. pc' = [pc EXCEPT ![r] = "panic"] /\ UNCHANGED <<desc, availRing>>
    BY <1>6 DEF QSendFill
  <2>3. RingInv'
    BY <1>1, <1>2, <2>1, <2>2, RingKept DEF ChainHead
  <2>4. PublishReady'
    BY <1>3, <2>2 DEF PublishReady, TypeOK
  <2> QED
    BY <1>2, <2>1, <2>2, <2>3, <2>4
<1> QED
  BY <1>5, <1>6

\* A step that touches neither the table nor a ring.
LEMMA QuietStep ==
  ASSUME TableInv, RingInv, PublishReady,
         UNCHANGED <<desc, retlenptrs, req, retsize, availRing, availIdx, lastAvail, usedIdx,
                     usedRing, held>>,
         NextUsed' = NextUsed, Holding' = Holding, InFlight' = InFlight,
         \A r \in Requests : /\ pc'[r] = "panic" => pc[r] = "panic"
                             /\ pc'[r] = "publish" => pc[r] = "publish"
  PROVE  TableInv' /\ RingInv' /\ PublishReady'
<1>1. TableInv' /\ \A r : ChainHead(r)' = ChainHead(r)
  BY TableKept
<1>2. RingInv'
  BY <1>1, RingKept
<1>3. PublishReady'
  BY <1>1 DEF PublishReady
<1> QED
  BY <1>1, <1>2, <1>3

LEMMA RingNext ==
  ASSUME RInv, Next
  PROVE  RInv'
<1> USE DEF RInv
<1>0. TypeOK'
  BY DriverType, DeviceType DEF Next
<1>1. ASSUME NEW r \in Requests, NEW sh \in Shapes, QSendFill(r, sh) PROVE RInv'
  <2>1. MaskInv'
    BY <1>1, MaskOfCalls
  <2> QED
    BY <1>0, <1>1, <2>1, FillRing
<1>2. ASSUME NEW r \in Requests, QSendPublish(r) PROVE RInv'
  <2>1. MaskInv'
    BY <1>2, MaskOfCalls
  <2>2. RingInv' /\ Holding' = Holding
    BY <1>2, PublishRing
  <2>3. /\ pc[r] = "publish" /\ pc' = [pc EXCEPT ![r] = "notify"]
        /\ UNCHANGED <<desc, retlenptrs, req, scan, usedCtr, usedIdx>>
    BY <1>2 DEF QSendPublish, usedVars
  <2>4. TableInv'
    BY <2>2, <2>3, TableKept DEF TypeOK
  <2>5. PublishReady'
    <3>1. \A t \in Requests : pc'[t] # "publish"
      BY <1>2, <2>3, OneSender DEF TypeOK
    <3> QED
      BY <3>1 DEF PublishReady
  <2>6. ScanInv'
    BY <2>3 DEF ScanInv
  <2> QED
    BY <1>0, <2>1, <2>2, <2>4, <2>5, <2>6
<1>3. ASSUME NEW r \in Requests, QSendNotify(r) PROVE RInv'
  <2>1. MaskInv'
    BY <1>3, MaskOfCalls
  <2>2. /\ pc[r] = "notify"
        /\ \E v \in {"wait", "poll", "sent"} : pc' = [pc EXCEPT ![r] = v]
        /\ scan' = IF scan.callback = r THEN [scan EXCEPT !.callback = NoOne] ELSE scan
        /\ UNCHANGED <<desc, retlenptrs, req, retsize, availRing, availIdx, lastAvail, usedIdx,
                       usedRing, usedCtr, held>>
    BY <1>3 DEF QSendNotify, ringVars, usedVars
  <2>3. scan'.on = scan.on /\ scan'.i = scan.i /\ scan'.end = scan.end
    BY <2>2 DEF TypeOK
  <2>4. NextUsed' = NextUsed /\ ScanInv'
    BY <2>2, <2>3 DEF NextUsed, ScanInv
  <2>5. Holding' = Holding /\ InFlight' = InFlight
    BY <2>2 DEF Holding, InFlight, TypeOK
  <2>6. \A t \in Requests : /\ pc'[t] = "panic" => pc[t] = "panic"
                            /\ pc'[t] = "publish" => pc[t] = "publish"
    BY <2>2 DEF TypeOK
  <2>7. TableInv' /\ RingInv' /\ PublishReady'
    BY <2>2, <2>4, <2>5, <2>6, QuietStep
  <2> QED
    BY <1>0, <2>1, <2>4, <2>7
<1>4. ASSUME NEW w \in Waiters, QSendPoll(w) PROVE RInv'
  <2>1. MaskInv'
    BY <1>4, MaskOfPolls
  <2>2. /\ pc[w] \in {"poll", "check"} /\ w \in Requests /\ ~scan.on
        /\ pc' = [pc EXCEPT ![w] = "check"]
        /\ scan' = [on |-> TRUE, i |-> usedCtr, end |-> usedIdx, callback |-> NoOne]
        /\ usedCtr' = usedIdx
        /\ UNCHANGED <<desc, retlenptrs, req, retsize, availRing, availIdx, lastAvail, usedIdx,
                       usedRing, held>>
    BY <1>4 DEF QSendPoll, StartPoll, ringVars, usedVars, deviceVars, Requests
  <2>3. NextUsed' = NextUsed
    BY <2>2 DEF NextUsed
  <2>4. ScanInv'
    <3>1. Dist(usedCtr, usedIdx) + Dist(usedIdx, usedIdx) = Dist(usedCtr, usedIdx)
      BY DistFacts DEF TypeOK, Indices
    <3> QED
      BY <2>2, <3>1 DEF ScanInv
  <2>5. Holding' = Holding /\ InFlight' = InFlight
    BY <2>2 DEF Holding, InFlight, TypeOK
  <2>6. \A t \in Requests : /\ pc'[t] = "panic" => pc[t] = "panic"
                            /\ pc'[t] = "publish" => pc[t] = "publish"
    BY <2>2 DEF TypeOK
  <2>7. TableInv' /\ RingInv' /\ PublishReady'
    BY <2>2, <2>3, <2>5, <2>6, QuietStep
  <2> QED
    BY <1>0, <2>1, <2>4, <2>7
<1>5. ASSUME NEW w \in Waiters, QSendReturn(w) PROVE RInv'
  <2>1. MaskInv'
    BY <1>5, MaskOfPolls
  <2>2. /\ retsize[w] # 0 /\ w \in Requests
        /\ pc' = [pc EXCEPT ![w] = "idle"]
        /\ UNCHANGED <<desc, retlenptrs, req, retsize, availRing, availIdx, lastAvail, usedIdx,
                       usedRing, held, scan, usedCtr>>
    BY <1>5 DEF QSendReturn, HasAnswer, ringVars, usedVars, deviceVars, Requests
  <2>3. NextUsed' = NextUsed /\ ScanInv'
    BY <2>2 DEF NextUsed, ScanInv
  <2>4. Holding' = Holding /\ InFlight' = InFlight
    BY <2>2 DEF Holding, InFlight, TypeOK
  <2>5. \A t \in Requests : /\ pc'[t] = "panic" => pc[t] = "panic"
                            /\ pc'[t] = "publish" => pc[t] = "publish"
    BY <2>2 DEF TypeOK
  <2>6. TableInv' /\ RingInv' /\ PublishReady'
    BY <2>2, <2>3, <2>4, <2>5, QuietStep
  <2> QED
    BY <1>0, <2>1, <2>3, <2>6
<1>6. CASE PollElement
  <2>1. MaskInv'
    BY <1>6, MaskOfPolls
  <2>2. TableInv' /\ RingInv'
    BY <1>6, PollRing
  <2>3. PublishReady'
    <3>1. \A t \in Requests : pc[t] # "publish"
      BY <1>6, PollIsAlone DEF PollElement
    <3>2. \A t \in Requests : pc'[t] # "publish"
      BY <1>6, <3>1 DEF PollElement
    <3> QED
      BY <3>2 DEF PublishReady
  <2>4. ScanInv'
    <3>1. /\ scan'.i = Succ(scan.i) /\ scan'.end = scan.end /\ scan.on
          /\ UNCHANGED <<usedIdx, usedCtr>>
      BY <1>6 DEF PollElement, usedVars, TypeOK
    <3>2. scan.i \in Indices /\ scan.i # usedIdx /\ usedIdx \in Indices /\ scan.end \in Indices
      BY <1>6, ElementReal DEF TypeOK
    <3>3. /\ Dist(Succ(scan.i), scan.end) = Dist(scan.i, scan.end) - 1
          /\ Dist(Succ(scan.i), usedIdx) = Dist(scan.i, usedIdx) - 1
      BY <1>6, <3>2, ElementReal, DistFacts
    <3>4. \A i, j \in Indices : Dist(i, j) \in Int
      BY DistFacts DEF Indices
    <3>5. /\ Dist(scan.i, scan.end) \in Int /\ Dist(scan.i, usedIdx) \in Int
          /\ Dist(scan.end, usedIdx) \in Int
      BY <3>2, <3>4
    <3> QED
      BY <3>1, <3>3, <3>5 DEF ScanInv
  <2> QED
    BY <1>0, <2>1, <2>2, <2>3, <2>4
<1>7. CASE PollEnd \/ Interrupt
  <2>1. MaskInv'
    BY <1>7, MaskOfPolls
  <2>2. UNCHANGED <<desc, retlenptrs, req, retsize, availRing, availIdx, lastAvail, usedIdx,
                    usedRing, held, pc>>
    BY <1>7 DEF PollEnd, Interrupt, ringVars, usedVars, deviceVars
  <2>3. NextUsed' = NextUsed
    <3>1. CASE PollEnd
      BY <3>1 DEF PollEnd, NextUsed, ScanInv
    <3>2. CASE Interrupt
      BY <3>2 DEF Interrupt, StartPoll, Masked, NextUsed
    <3> QED
      BY <1>7, <3>1, <3>2
  <2>4. ScanInv'
    <3>1. CASE PollEnd
      BY <3>1 DEF PollEnd, ScanInv
    <3>2. CASE Interrupt
      <4>1. Dist(usedCtr, usedIdx) + Dist(usedIdx, usedIdx) = Dist(usedCtr, usedIdx)
        BY DistFacts DEF TypeOK, Indices
      <4> QED
        BY <2>2, <3>2, <4>1 DEF Interrupt, StartPoll, ScanInv
    <3> QED
      BY <1>7, <3>1, <3>2
  <2>5. Holding' = Holding /\ InFlight' = InFlight
    BY <2>2 DEF Holding, InFlight
  <2>6. TableInv' /\ RingInv' /\ PublishReady'
    BY <2>2, <2>3, <2>5, QuietStep
  <2> QED
    BY <1>0, <2>1, <2>4, <2>6
<1>8. CASE Device
  <2>1. UNCHANGED <<desc, retlenptrs, req, retsize, pc, scan, usedCtr, availIdx, availRing>>
    BY <1>8 DEF Device, DevNotice, DevTake, DevRest, DevRecheck, DevAnswer, ringVars, usedVars
  <2>2. MaskInv'
    BY <2>1, MaskOfDevice
  <2>3. Holding' = Holding /\ InFlight' = InFlight /\ NextUsed' = NextUsed
    BY <2>1 DEF Holding, InFlight, NextUsed
  <2>4. TableInv' /\ \A t : ChainHead(t)' = ChainHead(t)
    BY <2>1, <2>3, TableKept
  <2>5. PublishReady'
    BY <2>1, <2>4 DEF PublishReady
  <2>6. RingInv' /\ ScanInv'
    <3>1. CASE DevNotice \/ DevRest \/ DevRecheck
      <4>1. UNCHANGED <<usedIdx, usedRing, lastAvail, held>>
        BY <3>1 DEF DevNotice, DevRest, DevRecheck, usedVars
      <4>2. RingInv'
        BY <2>1, <2>3, <2>4, <4>1, RingKept
      <4> QED
        BY <2>1, <4>1, <4>2 DEF ScanInv
    <3>2. CASE DevTake
      <4>1. UNCHANGED usedIdx
        BY <3>2 DEF DevTake, usedVars
      <4> QED
        BY <2>1, <3>2, <4>1, TakeRing DEF ScanInv
    <3>3. ASSUME NEW head \in Slots, NEW len \in Lens, DevAnswer(head, len)
          PROVE  RingInv' /\ ScanInv'
      <4>1. RingInv' /\ Dist(NextUsed, usedIdx) < Size
        BY <3>3, AnswerRing
      <4>2. ScanInv'
        <5> SUFFICES ASSUME scan.on
            PROVE  Dist(scan.i, scan.end) + Dist(scan.end, usedIdx') = Dist(scan.i, usedIdx')
          BY <2>1 DEF ScanInv
        <5>1. usedIdx' = Succ(usedIdx)
          BY <3>3 DEF DevAnswer
        <5>2. scan.i \in Indices /\ scan.end \in Indices /\ usedIdx \in Indices
          BY DEF TypeOK
        <5>3. \A i, j \in Indices : Dist(i, j) \in Nat
          BY DistFacts DEF Indices
        <5>4. /\ Dist(scan.i, scan.end) \in Nat /\ Dist(scan.i, usedIdx) \in Nat
              /\ Dist(scan.end, usedIdx) \in Nat
          BY <5>2, <5>3
        <5>5. Dist(scan.i, usedIdx) < Size /\ Dist(scan.end, usedIdx) < Size
          BY <4>1, <5>4, SizeFacts DEF ScanInv, NextUsed
        <5>6. /\ Dist(scan.i, Succ(usedIdx)) = Dist(scan.i, usedIdx) + 1
              /\ Dist(scan.end, Succ(usedIdx)) = Dist(scan.end, usedIdx) + 1
          BY <5>2, <5>5, DistFacts
        <5> QED
          BY <5>1, <5>4, <5>6 DEF ScanInv
      <4> QED
        BY <4>1, <4>2
    <3> QED
      BY <1>8, <3>1, <3>2, <3>3 DEF Device
  <2> QED
    BY <1>0, <2>2, <2>4, <2>5, <2>6
<1> QED
  BY <1>1, <1>2, <1>3, <1>4, <1>5, <1>6, <1>7, <1>8 DEF Next, Driver

LEMMA RingStutter ==
  ASSUME RInv, UNCHANGED vars
  PROVE  RInv'
<1>1. TypeOK'
  BY DEF RInv, TypeOK, vars, ringVars, usedVars, deviceVars
<1>2. UNCHANGED <<desc, retlenptrs, req, retsize, availRing, availIdx, lastAvail, usedIdx,
                  usedRing, held, pc, scan, usedCtr>>
  BY DEF vars, ringVars, usedVars, deviceVars
<1>3. Holding' = Holding /\ InFlight' = InFlight /\ NextUsed' = NextUsed
  BY <1>2 DEF Holding, InFlight, NextUsed
<1>4. TableInv' /\ RingInv' /\ PublishReady'
  BY <1>2, <1>3, QuietStep DEF RInv
<1>5. MaskInv' /\ ScanInv'
  BY <1>2 DEF RInv, MaskInv, ScanInv
<1> QED
  BY <1>1, <1>4, <1>5 DEF RInv

\* The chains, the rings and the activations of QSend and poll stay as RInv
\* says, whoever runs: the descriptor table belongs to the requests in
\* progress, the head of a published chain is in one place, and the slot that
\* QSend fills next is none that the device has yet to read.
THEOREM RingInvariant == Spec => []RInv
<1>1. RInv /\ [Next]_vars => RInv'
  BY RingNext, RingStutter
<1> QED
  BY <1>1, RingInit, PTL DEF Spec

\* The invariant says what the properties ask for.
LEMMA PlacedIsAccounted ==
  ASSUME RInv
  PROVE  RingSound
<1> USE DEF RInv
<1>1. ChainsIntact /\ \A r \in Holding : desc[ChainHead(r)].addr[2] = 1
  BY ChainsWrittenIntact DEF TableInv
<1>2. /\ AvailHeads = AvailSet
      /\ UsedHeads = UsedSet
  <2>1. AvailHeads = AvailSet
    BY DEF AvailHeads, AvailSet, Entries, Window
  <2>2. UsedSet = {UsedIds[p] : p \in Window(NextUsed, usedIdx)}
    BY DEF UsedSet, Entries
  <2>3. \A p \in Window(NextUsed, usedIdx) : UsedIds[p] = usedRing[p].id
    BY RingBounds, WindowSlots DEF UsedIds, TypeOK
  <2>4. UsedHeads = {usedRing[p].id : p \in Window(NextUsed, usedIdx)}
    BY DEF UsedHeads, Window
  <2>5. UsedHeads = UsedSet
    BY <2>2, <2>3, <2>4
  <2> QED
    BY <2>1, <2>5
<1>3. ASSUME NEW r \in InFlight
      PROVE  ChainHead(r) \in AvailHeads \cup held \cup UsedHeads /\ ChainHead(r) \in Own(r)
             /\ desc[ChainHead(r)].addr[2] = 1
  <2>1. r \in Holding
    BY DEF InFlight
  <2>2. ChainHead(r) \in Heads
    BY DEF Heads
  <2> QED
    BY <1>1, <1>2, <2>1, <2>2, HeadIsOwn DEF RingInv, HeadsPlaced, TableInv
<1>4. InOnePlace
  BY <1>3 DEF InOnePlace, RingInv, HeadsCounted
<1> QED
  BY <1>1, <1>4 DEF RingSound, RingAccounted, TableInv

\* For a ring of any size, any number of callers and of event buffers, and
\* indices that wrap: no step of QSend, poll or the device disturbs a chain
\* in progress, leaks or loses a descriptor or an entry, or repeats one, and
\* QSend panics only when the ring really is too small for the requests.
THEOREM RingIsSound == Spec => []RingSound
  BY RingInvariant, PlacedIsAccounted, PTL

\* The chain that QSend writes is as it wrote it until poll frees it: the device
\* may read it, and a caller be answered through it, at any time between.
THEOREM ChainsStayIntact == Spec => []ChainsIntact
<1>1. RingSound => ChainsIntact
  BY DEF RingSound
<1> QED
  BY <1>1, RingIsSound, PTL

\* Each descriptor is free or in one chain, and the head of each published chain
\* is in one of the avail ring, the device and the used ring, once.
THEOREM RingStaysAccounted == Spec => []RingAccounted
<1>1. RingSound => RingAccounted
  BY DEF RingSound
<1> QED
  BY <1>1, RingIsSound, PTL

-------------------------------------------------------------------------------
(***************************************************************************)
(* The ring implements RequestReply, step by step.                         *)
(***************************************************************************)
Busy == {r \in Requests : pc[r] # "idle"}

\* A completion is the answer of a request in flight.
LEMMA CompletionReal ==
  ASSUME RInv, NEW k \in 1 .. Dist(NextUsed, usedIdx)
  PROVE  LET elem == usedRing[Pos(NextUsed + k - 1)]
         IN  /\ Pos(NextUsed + k - 1) \in Window(NextUsed, usedIdx)
             /\ elem.id \in UsedSet /\ elem.id \in Slots
             /\ elem.len \in Lens
             /\ Completions[k] = <<desc[elem.id].addr[1], elem.len>>
             /\ \E r \in InFlight : elem.id = ChainHead(r) /\ elem.id \in Own(r)
                                    /\ desc[elem.id].addr[1] = r
<1> USE DEF RInv
<1> DEFINE p == Pos(NextUsed + k - 1)
<1>1. NextUsed \in Indices /\ usedIdx \in Indices /\ Dist(NextUsed, usedIdx) \in Nat
  BY RingBounds DEF TypeOK
<1>2. p = Pos(NextUsed + (k - 1)) /\ k - 1 \in 0 .. Dist(NextUsed, usedIdx) - 1
  <2>1. NextUsed + k - 1 = NextUsed + (k - 1)
    BY <1>1 DEF Indices
  <2> QED
    BY <1>1, <2>1
<1> HIDE DEF p
<1>3. p \in Window(NextUsed, usedIdx) /\ p \in Slots
  BY <1>1, <1>2, WindowSlots DEF Window
<1>4. usedRing[p].id \in UsedSet /\ usedRing[p].len \in Lens /\ usedRing[p].id \in Slots
  BY <1>3 DEF UsedSet, Entries, UsedIds, RingInv, LensReal, TypeOK
<1>5. PICK r \in InFlight : usedRing[p].id = ChainHead(r)
  BY <1>4 DEF RingInv, HeadsPlaced, Heads
<1>6. r \in Holding
  BY DEF InFlight
<1>7. ChainHead(r) \in Own(r) /\ desc[ChainHead(r)].addr[1] = r
  BY <1>6, HeadIsOwn DEF TableInv
<1>8. Completions[k] = <<desc[usedRing[p].id].addr[1], usedRing[p].len>>
  BY DEF Completions, p
<1> QED
  BY <1>3, <1>4, <1>5, <1>7, <1>8 DEF p

LEMMA AppendIsFunction ==
  ASSUME NEW S, NEW s \in Seq(S), NEW x \in S
  PROVE  Append(s, x) = [k \in 1 .. Len(s) + 1 |-> IF k = Len(s) + 1 THEN x ELSE s[k]]
<1>1. Append(s, x) \in [1 .. Len(s) + 1 -> S] /\ Len(s) \in Nat
  BY AppendProperties, LenProperties
<1>2. ASSUME NEW k \in 1 .. Len(s) + 1
      PROVE  Append(s, x)[k] = IF k = Len(s) + 1 THEN x ELSE s[k]
  <2>1. CASE k = Len(s) + 1
    BY <2>1, AppendProperties
  <2>2. CASE k # Len(s) + 1
    <3>1. k \in 1 .. Len(s)
      BY <1>1, <2>2
    <3> QED
      BY <2>2, <3>1, AppendProperties
  <2> QED
    BY <2>1, <2>2
<1> QED
  BY <1>1, <1>2

LEMMA TailIsFunction ==
  ASSUME NEW S, NEW s \in Seq(S), s # << >>
  PROVE  Tail(s) = [k \in 1 .. Len(s) - 1 |-> s[k + 1]]
<1>1. Tail(s) \in [1 .. Len(s) - 1 -> S]
  BY HeadTailProperties, LenProperties
<1>2. \A k \in 1 .. Len(s) - 1 : Tail(s)[k] = s[k + 1]
  BY HeadTailProperties
<1> QED
  BY <1>1, <1>2

LEMMA CompletionsSeq ==
  ASSUME RInv
  PROVE  /\ Completions \in Seq(Requests \X Lens)
         /\ Len(Completions) = Dist(NextUsed, usedIdx)
<1>1. Dist(NextUsed, usedIdx) \in Nat
  BY RingBounds DEF RInv
<1>2. ASSUME NEW k \in 1 .. Dist(NextUsed, usedIdx)
      PROVE  Completions[k] \in Requests \X Lens
  <2>1. /\ usedRing[Pos(NextUsed + k - 1)].len \in Lens
        /\ Completions[k] = <<desc[usedRing[Pos(NextUsed + k - 1)].id].addr[1],
                              usedRing[Pos(NextUsed + k - 1)].len>>
        /\ \E r \in InFlight : desc[usedRing[Pos(NextUsed + k - 1)].id].addr[1] = r
    BY CompletionReal
  <2>2. \A r \in InFlight : r \in Requests
    BY DEF InFlight, Holding
  <2> QED
    BY <2>1, <2>2
<1>3. Completions = [k \in 1 .. Dist(NextUsed, usedIdx) |-> Completions[k]]
  BY DEF Completions
<1>4. Completions \in [1 .. Dist(NextUsed, usedIdx) -> Requests \X Lens]
  BY <1>2, <1>3
<1> QED
  BY <1>1, <1>4, LenProperties, SeqDef

\* The completions stay when the used ring does and the heads keep their owners.
LEMMA CompletionsKept ==
  ASSUME RInv, NextUsed' = NextUsed, UNCHANGED <<usedIdx, usedRing>>,
         \A r \in InFlight : \A s \in Own(r) : desc'[s].addr = desc[s].addr
  PROVE  Completions' = Completions
<1>1. ASSUME NEW k \in 1 .. Dist(NextUsed, usedIdx)
      PROVE  Completions'[k] = Completions[k]
  <2>1. Completions'[k] = <<desc'[usedRing[Pos(NextUsed + k - 1)].id].addr[1],
                            usedRing[Pos(NextUsed + k - 1)].len>>
    BY DEF Completions
  <2> QED
    BY <2>1, CompletionReal
<1>2. /\ Completions' = [k \in 1 .. Dist(NextUsed, usedIdx) |-> Completions'[k]]
      /\ Completions = [k \in 1 .. Dist(NextUsed, usedIdx) |-> Completions[k]]
  BY DEF Completions
<1> QED
  BY <1>1, <1>2

LEMMA RefineInit == Init => Abstract!Init
<1> SUFFICES ASSUME Init PROVE Abstract!Init
  OBVIOUS
<1>1. Dist(NextUsed, usedIdx) = 0
  BY DEF Init, NextUsed, Dist
<1>2. Completions = << >>
  BY <1>1 DEF Completions
<1>3. Busy = {}
  BY DEF Init, Busy
<1> QED
  BY <1>2, <1>3 DEF Abstract!Init, Abstract!Requests, Requests, Init, Busy

\* QSendFill is the abstract Submit, whether it finds the slots or panics.
LEMMA RefineFill ==
  ASSUME RInv, NEW r \in Requests, NEW sh \in Shapes, QSendFill(r, sh)
  PROVE  Abstract!Submit(r)
<1>1. /\ pc[r] = "idle" /\ retsize' = [retsize EXCEPT ![r] = 0]
      /\ \E v \in {"publish", "panic"} : pc' = [pc EXCEPT ![r] = v]
      /\ UNCHANGED <<usedIdx, usedRing, usedCtr, scan>>
  BY DEF QSendFill, MayCall, usedVars
<1>2. \A t \in InFlight : \A s \in Own(t) : desc'[s] = desc[s]
  BY FillRing
<1>3. NextUsed' = NextUsed
  BY <1>1 DEF NextUsed
<1>4. Completions' = Completions
  BY <1>1, <1>2, <1>3, CompletionsKept
<1>5. r \notin Busy /\ Busy' = Busy \cup {r}
  BY <1>1 DEF Busy, RInv, TypeOK
<1> QED
  BY <1>1, <1>4, <1>5 DEF Abstract!Submit, Busy

\* The device's answer is Complete, for the request whose chain it holds.
LEMMA RefineAnswer ==
  ASSUME RInv, NEW head \in Slots, NEW len \in Lens, DevAnswer(head, len)
  PROVE  \E r \in Requests : Abstract!Complete(r, len)
<1> USE DEF RInv
<1>1. /\ head \in held /\ usedIdx' = Succ(usedIdx)
      /\ UNCHANGED <<desc, pc, retsize>>
  BY DEF DevAnswer
<1>2. /\ NextUsed' = NextUsed /\ Dist(NextUsed, usedIdx) < Size
      /\ \A p \in Window(NextUsed, usedIdx) : usedRing'[p] = usedRing[p]
      /\ usedRing'[Pos(usedIdx)] = [id |-> head, len |-> len]
  BY AnswerRing
<1>3. PICK r \in InFlight : head = ChainHead(r)
  BY <1>1 DEF RingInv, HeadsPlaced, Heads
<1>4. r \in Holding /\ r \in Requests /\ retsize[r] = 0 /\ r \in Busy
  BY DEF InFlight, Holding, Busy
<1>5. desc[head].addr[1] = r
  BY <1>3, <1>4, HeadIsOwn DEF TableInv
<1> DEFINE n == Dist(NextUsed, usedIdx)
<1>6. NextUsed \in Indices /\ usedIdx \in Indices /\ n \in Nat
  BY RingBounds DEF TypeOK
<1>7. Dist(NextUsed, Succ(usedIdx)) = n + 1 /\ Pos(NextUsed + n) = Pos(usedIdx)
  BY <1>2, <1>6, DistFacts, PosAtDist
<1>8. Completions \in Seq(Requests \X Lens) /\ Len(Completions) = n
  BY CompletionsSeq
<1>9. ASSUME NEW k \in 1 .. n PROVE Completions[k][1] # r
  <2>1. /\ usedRing[Pos(NextUsed + k - 1)].id \in UsedSet
        /\ Completions[k] = <<desc[usedRing[Pos(NextUsed + k - 1)].id].addr[1],
                              usedRing[Pos(NextUsed + k - 1)].len>>
    BY CompletionReal
  <2>2. PICK t \in InFlight : /\ usedRing[Pos(NextUsed + k - 1)].id = ChainHead(t)
                              /\ desc[usedRing[Pos(NextUsed + k - 1)].id].addr[1] = t
    BY CompletionReal
  <2>3. Completions[k][1] = t
    BY <2>1, <2>2
  <2>4. head \notin UsedSet
    BY <1>1 DEF RingInv, HeadsPlaced
  <2> QED
    BY <1>3, <2>1, <2>2, <2>3, <2>4
<1>10. Completions' = [k \in 1 .. n + 1 |->
         <<desc[usedRing'[Pos(NextUsed + k - 1)].id].addr[1], usedRing'[Pos(NextUsed + k - 1)].len>>]
  <2> HIDE DEF n
  <2> QED
    BY <1>1, <1>2, <1>7 DEF Completions
<1>11. ASSUME NEW k \in 1 .. n PROVE Completions'[k] = Completions[k]
  <2>1. Pos(NextUsed + k - 1) \in Window(NextUsed, usedIdx)
        /\ Completions[k] = <<desc[usedRing[Pos(NextUsed + k - 1)].id].addr[1],
                              usedRing[Pos(NextUsed + k - 1)].len>>
    BY CompletionReal
  <2>2. k \in 1 .. n + 1
    BY <1>6
  <2> HIDE DEF n
  <2> QED
    BY <1>2, <1>10, <2>1, <2>2
<1>12. Completions'[n + 1] = <<r, len>>
  <2>1. NextUsed + (n + 1) - 1 = NextUsed + n /\ n + 1 \in 1 .. n + 1
    BY <1>6 DEF Indices
  <2> HIDE DEF n
  <2>2. Completions'[n + 1] = <<desc[usedRing'[Pos(NextUsed + (n + 1) - 1)].id].addr[1],
                                usedRing'[Pos(NextUsed + (n + 1) - 1)].len>>
    BY <1>10, <2>1
  <2> QED
    BY <1>2, <1>5, <1>7, <2>1, <2>2
<1> HIDE DEF n
<1>13. Completions' = Append(Completions, <<r, len>>)
  <2>1. Completions' = [k \in 1 .. n + 1 |-> Completions'[k]]
    BY <1>10
  <2>2. Append(Completions, <<r, len>>)
          = [k \in 1 .. n + 1 |-> IF k = n + 1 THEN <<r, len>> ELSE Completions[k]]
    <3>1. <<r, len>> \in Requests \X Lens
      BY <1>4
    <3> QED
      BY <1>8, <3>1, AppendIsFunction
  <2>3. ASSUME NEW k \in 1 .. n + 1
        PROVE  Completions'[k] = IF k = n + 1 THEN <<r, len>> ELSE Completions[k]
    <3>1. CASE k = n + 1
      BY <1>12, <3>1
    <3>2. CASE k # n + 1
      BY <1>6, <1>11, <3>2
    <3> QED
      BY <3>1, <3>2
  <2> QED
    BY <2>1, <2>2, <2>3
<1>14. Abstract!Complete(r, len)
  BY <1>1, <1>4, <1>8, <1>9, <1>13 DEF Abstract!Complete, Busy
<1> QED
  BY <1>4, <1>14

\* A turn of poll's loop is Deliver.
LEMMA RefinePoll ==
  ASSUME RInv, PollElement
  PROVE  Abstract!Deliver
<1> USE DEF RInv
<1> DEFINE elem == usedRing[Pos(scan.i)]
           n == Dist(NextUsed, usedIdx)
<1>1. /\ NextUsed = scan.i /\ scan.i # usedIdx /\ NextUsed' = Succ(scan.i)
      /\ elem.len \in Lens /\ scan.i \in Indices
  BY ElementReal
<1>2. PICK r \in InFlight : elem.id = ChainHead(r)
  BY ElementReal
<1>3. retlenptrs[elem.id] = r /\ \A s \in Slots : desc'[s].addr = desc[s].addr
  BY <1>1, <1>2, FreeTable
<1>4. /\ retsize' = [t \in Requests |-> IF t = r THEN elem.len ELSE retsize[t]]
      /\ pc' = [t \in Requests |-> IF t = r /\ t \in EventBufs THEN "idle" ELSE pc[t]]
      /\ UNCHANGED <<usedIdx, usedRing>>
  BY <1>3 DEF PollElement, usedVars
<1>5. r \in Requests /\ r \in Holding
  BY DEF InFlight, Holding
<1>6. usedIdx \in Indices /\ n \in Nat /\ n > 0 /\ Dist(Succ(scan.i), usedIdx) = n - 1
  <2>1. \A i, j \in Indices : i # j => Dist(i, j) \in Nat /\ Dist(i, j) # 0
                                       /\ Dist(Succ(i), j) = Dist(i, j) - 1
    BY DistFacts DEF Indices
  <2>2. usedIdx \in Indices
    BY DEF TypeOK
  <2> QED
    BY <1>1, <2>1, <2>2
<1>7. Completions \in Seq(Requests \X Lens) /\ Len(Completions) = n
  BY CompletionsSeq
<1> HIDE DEF n, elem
<1>8. Completions[1] = <<r, elem.len>>
  <2>1. 1 \in 1 .. Dist(NextUsed, usedIdx)
    BY <1>6 DEF n
  <2>2. NextUsed + 1 - 1 = scan.i
    BY <1>1 DEF Indices
  <2>3. Completions[1] = <<desc[elem.id].addr[1], elem.len>>
    BY <2>1, <2>2, CompletionReal DEF elem
  <2>4. desc[elem.id].addr[1] = r
    BY <1>2, <1>5, HeadIsOwn DEF TableInv
  <2> QED
    BY <2>3, <2>4
<1>9. Completions # << >> /\ Head(Completions) = <<r, elem.len>>
  BY <1>6, <1>7, <1>8
<1>10. Completions' = Tail(Completions)
  <2>1. Completions' = [k \in 1 .. n - 1 |->
          <<desc'[usedRing[Pos(Succ(scan.i) + k - 1)].id].addr[1],
            usedRing[Pos(Succ(scan.i) + k - 1)].len>>]
    BY <1>1, <1>4, <1>6 DEF Completions
  <2>2. Tail(Completions) = [k \in 1 .. n - 1 |-> Completions[k + 1]]
    BY <1>7, <1>9, TailIsFunction
  <2>3. ASSUME NEW k \in 1 .. n - 1
        PROVE  <<desc'[usedRing[Pos(Succ(scan.i) + k - 1)].id].addr[1],
                 usedRing[Pos(Succ(scan.i) + k - 1)].len>> = Completions[k + 1]
    <3>1. Pos(Succ(scan.i) + k - 1) = Pos(NextUsed + (k + 1) - 1)
      <4>1. Succ(scan.i) \in Nat
        BY <1>1, IndexTypes DEF Indices
      <4>2. Succ(scan.i) + k - 1 = Succ(scan.i) + (k - 1) /\ k - 1 \in Nat
            /\ NextUsed + (k + 1) - 1 = scan.i + ((k - 1) + 1)
        BY <1>1, <4>1 DEF Indices
      <4> QED
        BY <1>1, <4>2, PosAfterSucc
    <3>2. k + 1 \in 1 .. Dist(NextUsed, usedIdx)
      BY <1>6 DEF n
    <3>3. /\ usedRing[Pos(NextUsed + (k + 1) - 1)].id \in Slots
          /\ Completions[k + 1] = <<desc[usedRing[Pos(NextUsed + (k + 1) - 1)].id].addr[1],
                                    usedRing[Pos(NextUsed + (k + 1) - 1)].len>>
      BY <3>2, CompletionReal
    <3> QED
      BY <1>3, <3>1, <3>3
  <2> QED
    BY <2>1, <2>2, <2>3
<1>11. retsize' = [retsize EXCEPT ![r] = elem.len]
  BY <1>4 DEF TypeOK
<1>12. Busy' = IF r \in EventBufs THEN Busy \ {r} ELSE Busy
  BY <1>4, <1>5 DEF Busy
<1>13. Head(Completions)[1] = r /\ Head(Completions)[2] = elem.len
  BY <1>9
<1> QED
  BY <1>9, <1>10, <1>11, <1>12, <1>13 DEF Abstract!Deliver, Busy

LEMMA RefineReturn ==
  ASSUME RInv, NEW w \in Waiters, QSendReturn(w)
  PROVE  Abstract!Return(w)
<1>1. /\ pc[w] \in {"wait", "check"} /\ retsize[w] # 0 /\ w \in Requests
      /\ pc' = [pc EXCEPT ![w] = "idle"]
      /\ UNCHANGED <<desc, retsize, usedIdx, usedRing, scan, usedCtr>>
  BY DEF QSendReturn, HasAnswer, usedVars, Requests
<1>2. NextUsed' = NextUsed
  BY <1>1 DEF NextUsed
<1>3. Completions' = Completions
  BY <1>1, <1>2, CompletionsKept
<1>4. w \in Busy /\ Busy' = Busy \ {w}
  BY <1>1 DEF Busy, RInv, TypeOK
<1> QED
  BY <1>1, <1>3, <1>4 DEF Abstract!Return, Busy

\* Nothing else shows.
LEMMA RefineStutter ==
  ASSUME RInv, UNCHANGED <<retsize, usedIdx, usedRing>>, NextUsed' = NextUsed,
         desc' = desc, \A r \in Requests : pc'[r] # "idle" <=> pc[r] # "idle"
  PROVE  UNCHANGED Abstract!vars
<1>1. Completions' = Completions
  BY CompletionsKept
<1>2. Busy' = Busy
  BY DEF Busy
<1> QED
  BY <1>1, <1>2 DEF Abstract!vars, Busy

LEMMA RefineNext ==
  ASSUME RInv, [Next]_vars
  PROVE  [Abstract!Next]_(Abstract!vars)
<1> USE DEF RInv
<1>1. ASSUME NEW r \in Requests, NEW sh \in Shapes, QSendFill(r, sh)
      PROVE  Abstract!Next
  BY <1>1, RefineFill DEF Abstract!Next, Abstract!Requests, Requests
<1>2. ASSUME NEW r \in Requests, QSendPublish(r) \/ QSendNotify(r)
      PROVE  UNCHANGED Abstract!vars
  <2>1. /\ UNCHANGED <<retsize, usedIdx, usedRing, desc, usedCtr>>
        /\ pc[r] # "idle"
        /\ \E v \in {"notify", "wait", "poll", "sent"} : pc' = [pc EXCEPT ![r] = v]
    BY <1>2 DEF QSendPublish, QSendNotify, usedVars
  <2>2. scan'.on = scan.on /\ scan'.i = scan.i
    BY <1>2 DEF QSendPublish, QSendNotify, TypeOK
  <2>3. NextUsed' = NextUsed
    BY <2>1, <2>2 DEF NextUsed
  <2>4. \A t \in Requests : pc'[t] # "idle" <=> pc[t] # "idle"
    BY <2>1 DEF TypeOK
  <2> QED
    BY <2>1, <2>3, <2>4, RefineStutter
<1>3. ASSUME NEW w \in Waiters, QSendPoll(w)
      PROVE  UNCHANGED Abstract!vars
  <2>1. /\ UNCHANGED <<retsize, usedIdx, usedRing, desc>>
        /\ pc[w] # "idle" /\ w \in Requests
        /\ pc' = [pc EXCEPT ![w] = "check"]
    BY <1>3 DEF QSendPoll, usedVars, Requests
  <2>2. NextUsed' = NextUsed
    BY <1>3 DEF QSendPoll, StartPoll, NextUsed
  <2>3. \A t \in Requests : pc'[t] # "idle" <=> pc[t] # "idle"
    BY <2>1 DEF TypeOK
  <2> QED
    BY <2>1, <2>2, <2>3, RefineStutter
<1>4. ASSUME NEW w \in Waiters, QSendReturn(w)
      PROVE  Abstract!Next
  BY <1>4, RefineReturn DEF Abstract!Next
<1>5. CASE PollElement
  BY <1>5, RefinePoll DEF Abstract!Next
<1>6. CASE PollEnd \/ Interrupt
  <2>1. UNCHANGED <<retsize, usedIdx, usedRing, desc, pc>>
    BY <1>6 DEF PollEnd, Interrupt, usedVars
  <2>2. CASE PollEnd
    BY <2>1, <2>2, RefineStutter DEF PollEnd, NextUsed, ScanInv
  <2>3. CASE Interrupt
    BY <2>1, <2>3, RefineStutter DEF Interrupt, StartPoll, Masked, NextUsed
  <2> QED
    BY <1>6, <2>2, <2>3
<1>7. CASE DevNotice \/ DevTake \/ DevRest \/ DevRecheck
  <2>1. UNCHANGED <<retsize, usedIdx, usedRing, desc, pc, scan, usedCtr>>
    BY <1>7 DEF DevNotice, DevTake, DevRest, DevRecheck, usedVars
  <2> QED
    BY <2>1, RefineStutter DEF NextUsed
<1>8. ASSUME NEW head \in Slots, NEW len \in Lens, DevAnswer(head, len)
      PROVE  Abstract!Next
  BY <1>8, RefineAnswer DEF Abstract!Next, Abstract!Requests, Requests
<1>9. CASE UNCHANGED vars
  <2>1. UNCHANGED <<retsize, usedIdx, usedRing, desc, pc, scan, usedCtr>>
    BY <1>9 DEF vars, usedVars
  <2> QED
    BY <2>1, RefineStutter DEF NextUsed
<1> QED
  BY <1>1, <1>2, <1>3, <1>4, <1>5, <1>6, <1>7, <1>8, <1>9 DEF Next, Driver, Device

\* The split ring keeps the promise of RequestReply: QSendFill is Submit, an
\* answer of the device is Complete, a turn of poll's loop is Deliver, the
\* return of a waiting QSend is Return, and no other step shows.
THEOREM RingImplements == Spec => ImplementsRequestReply
<1>1. RInv /\ [Next]_vars => [Abstract!Next]_(Abstract!vars)
  BY RefineNext
<1> QED
  BY <1>1, RefineInit, RingInvariant, PTL DEF Spec, ImplementsRequestReply, Abstract!Spec
===============================================================================
