--------------------------- MODULE Transact9_proofs ---------------------------
(***************************************************************************)
(* Proofs about Transact9, for a queue of any size, any page size, any     *)
(* placement of the messages in memory and any depth of nesting.           *)
(***************************************************************************)
EXTENDS Transact9, FiniteSetTheorems, SequenceTheorems, TLAPS

-------------------------------------------------------------------------------
(***************************************************************************)
(* Every message takes at least one descriptor.                            *)
(***************************************************************************)
LEMMA CountNat ==
  ASSUME NEW fmt, Len(fmt) \in Nat, NEW letter
  PROVE  Count(fmt, letter) \in Nat
<1>1. IsFiniteSet(1 .. Len(fmt))
  BY FS_Interval
<1>2. IsFiniteSet({i \in 1 .. Len(fmt) : fmt[i] = letter})
  BY <1>1, FS_Subset
<1> QED
  BY <1>2, FS_CardinalityType DEF Count

LEMMA SizeNat ==
  ASSUME NEW fmt, Len(fmt) \in Nat, NEW str \in Nat
  PROVE  Size(fmt, str) \in Nat /\ Size(fmt, str) >= 7
<1>1. /\ Count(fmt, "b") \in Nat /\ Count(fmt, "w") \in Nat /\ Count(fmt, "d") \in Nat
      /\ Count(fmt, "q") \in Nat /\ Count(fmt, "Q") \in Nat /\ Count(fmt, "s") \in Nat
  BY CountNat
<1>2. (2 + str) * Count(fmt, "s") \in Nat
  <2>1. \A x, y \in Nat : x * y \in Nat
    OBVIOUS
  <2> QED
    BY <1>1, <2>1
<1>3. ASSUME NEW b \in Nat, NEW w \in Nat, NEW d \in Nat, NEW q \in Nat, NEW Q \in Nat, NEW s \in Nat
      PROVE  /\ 7 + b + 2 * w + 4 * d + 8 * q + 13 * Q + s \in Nat
             /\ 7 + b + 2 * w + 4 * d + 8 * q + 13 * Q + s >= 7
  BY <1>3
<1> HIDE DEF Count
<1> QED
  BY <1>1, <1>2, <1>3 DEF Size

LEMMA ExtentsNat ==
  ASSUME NEW offset \in Nat, NEW bytes \in Nat
  PROVE  Extents(offset, bytes) \in Nat /\ (bytes > 0 => Extents(offset, bytes) > 0)
<1>1. Page \in Nat /\ Page > 0
  BY TransactAssumption
<1>2. offset % Page \in Nat
  BY <1>1
<1>3. CASE bytes = 0
  BY <1>3 DEF Extents
<1>4. CASE bytes > 0
  <2> DEFINE x == (offset % Page) + bytes - 1
  <2>1. x \in Nat
    BY <1>2, <1>4
  <2>2. \A y \in Nat : y \div Page \in Nat
    BY <1>1
  <2>3. x \div Page \in Nat
    BY <2>1, <2>2
  <2> QED
    BY <1>4, <2>3 DEF Extents
<1> QED
  BY <1>3, <1>4

Typed(m) == Len(m.t) \in Nat /\ Len(m.r) \in Nat

LEMMA Formats == \A m \in Messages : Typed(m)
<1>1. Typed(Tversion) /\ Typed(Tattach) /\ Typed(Tstatfs) /\ Typed(Twalk)
  BY DEF Typed, Tversion, Tattach, Tstatfs, Twalk
<1>2. Typed(Tlopen) /\ Typed(Tlcreate) /\ Typed(Txattrwalk) /\ Typed(Txattrcreate)
  BY DEF Typed, Tlopen, Tlcreate, Txattrwalk, Txattrcreate
<1>3. Typed(Tremove) /\ Typed(Tunlinkat) /\ Typed(Trenameat) /\ Typed(Tmkdir)
  BY DEF Typed, Tremove, Tunlinkat, Trenameat, Tmkdir
<1>4. Typed(Treaddir) /\ Typed(Tgetattr) /\ Typed(Tsetattr) /\ Typed(Tclunk)
  BY DEF Typed, Treaddir, Tgetattr, Tsetattr, Tclunk
<1>5. Typed(Tread) /\ Typed(Twrite) /\ Typed(Tfsync) /\ Typed(Tlock)
  BY DEF Typed, Tread, Twrite, Tfsync, Tlock
<1> QED
  BY <1>1, <1>2, <1>3, <1>4, <1>5 DEF Messages

LEMMA DescriptorsPositive ==
  ASSUME NEW m \in Messages, NEW a \in Offsets, NEW b \in Offsets, NEW c \in Offsets,
         NEW big \in Nat
  PROVE  Descriptors(m, a, b, c, big) \in Nat \ {0}
<1>1. a \in Nat /\ b \in Nat /\ c \in Nat /\ a + StackRoom \in Nat /\ MaxName \in Nat
  BY TransactAssumption DEF StackRoom
<1>2. Len(m.t) \in Nat /\ Len(m.r) \in Nat
  BY Formats DEF Typed
<1>3. SizeT(m) \in Nat /\ SizeT(m) > 0
  <2>1. Size(m.t, MaxName) \in Nat /\ Size(m.t, MaxName) >= 7
    BY <1>1, <1>2, SizeNat
  <2> QED
    BY <2>1 DEF SizeT
<1>4. SizeR(m, big) \in Nat
  BY <1>2, SizeNat DEF SizeR, StrMax
<1>5. BigT(m, big) \in Nat /\ BigR(m, big) \in Nat
  BY DEF BigT, BigR, Walked
<1>6. Extents(a, SizeT(m)) \in Nat /\ Extents(a, SizeT(m)) > 0
  BY <1>1, <1>3, ExtentsNat
<1>7. Extents(b, BigT(m, big)) \in Nat
  BY <1>1, <1>5, ExtentsNat
<1>8. Extents(a + StackRoom, SizeR(m, big)) \in Nat
  BY <1>1, <1>4, ExtentsNat
<1>9. Extents(c, BigR(m, big)) \in Nat
  BY <1>1, <1>5, ExtentsNat
<1> QED
  BY <1>6, <1>7, <1>8, <1>9 DEF Descriptors

-------------------------------------------------------------------------------
(***************************************************************************)
(* The inductive invariant: each call on the stack got its tag when the    *)
(* calls below it held what they hold now, so a tag is at least the tag of *)
(* any call below plus what that call holds.                               *)
(***************************************************************************)
Call == [msg : Messages, big : Nat, tag : Nat, n : Nat \ {0}, sent : BOOLEAN]

TagsStacked ==
  \A i, j \in 1 .. Len(calls) : i < j => calls[i].tag + Held(calls[i]) <= calls[j].tag

CallsTyped == calls \in Seq(Call) /\ freebufs \in 0 .. BufCnt /\ Max9 \in Nat

TagInv == CallsTyped /\ BufsCounted /\ TagsStacked

LEMMA HeldNat ==
  ASSUME NEW c \in Call
  PROVE  Held(c) \in Nat /\ (c.sent => Held(c) > 0)
  BY DEF Held, Call

LEMMA TagInvInit == TransactInit => TagInv
  BY TransactAssumption
  DEF TransactInit, TagInv, CallsTyped, BufsCounted, TagsStacked, Max9Of

\* The buffers in use are those of the innermost call and of those below it.
LEMMA FreeOfTop ==
  ASSUME TagInv
  PROVE  BufCnt - freebufs = IF calls = <<>> THEN 0 ELSE Top.tag + Held(Top)
<1>1. BufCnt \in Nat
  BY TransactAssumption
<1>2. CASE calls = <<>>
  BY <1>1, <1>2 DEF TagInv, BufsCounted
<1>3. CASE calls # <<>>
  <2>1. Top \in Call
    BY <1>3 DEF TagInv, CallsTyped, Top
  <2>2. Top.tag + Held(Top) \in Nat
    BY <2>1, HeldNat DEF Call
  <2> QED
    BY <1>1, <1>3, <2>2 DEF TagInv, BufsCounted
<1> QED
  BY <1>2, <1>3

LEMMA BeginKeeps ==
  ASSUME TagInv, NEW m \in Messages, NEW a \in Offsets, NEW b \in Offsets, NEW e \in Offsets,
         NEW big \in Bigs(m), Begin(m, a, b, e, big)
  PROVE  TagInv'
<1> DEFINE c == [msg |-> m, big |-> big, tag |-> BufCnt - freebufs,
                 n |-> Descriptors(m, a, b, e, big), sent |-> FALSE]
           k == Len(calls)
<1>1. big \in Nat
  BY DEF Bigs, PathRoom, ListingRoom, CountRoom, RezTransfers, TagInv, CallsTyped
<1>2. c \in Call
  BY <1>1, DescriptorsPositive, TransactAssumption DEF Call, TagInv, CallsTyped
<1>3. /\ calls' = Append(calls, c) /\ freebufs' = freebufs /\ Max9' = Max9
      /\ calls \in Seq(Call) /\ k \in Nat
  BY DEF Begin, TagInv, CallsTyped
<1>4. /\ Len(calls') = k + 1 /\ calls' # <<>>
      /\ \A i \in 1 .. k : calls'[i] = calls[i]
      /\ calls'[k + 1] = c
  BY <1>2, <1>3
<1>5. CallsTyped'
  BY <1>2, <1>3 DEF TagInv, CallsTyped
<1>6. BufCnt - freebufs = IF k = 0 THEN 0 ELSE calls[k].tag + Held(calls[k])
  BY <1>3, FreeOfTop DEF Top
<1>7. \A i \in 1 .. k : calls[i] \in Call /\ calls[i].tag \in Nat /\ Held(calls[i]) \in Nat
  <2>1. \A i \in 1 .. k : calls[i] \in Call
    BY <1>3
  <2> QED
    BY <2>1, HeldNat DEF Call
<1>8. BufsCounted'
  <2>1. calls'[1].tag = 0
    <3>1. CASE k = 0
      BY <3>1, <1>4, <1>6
    <3>2. CASE k > 0
      BY <3>2, <1>3, <1>4 DEF TagInv, BufsCounted
    <3> QED
      BY <3>1, <3>2, <1>3
  <2>2. ASSUME NEW i \in 1 .. k
        PROVE  calls'[i + 1].tag = calls'[i].tag + Held(calls'[i])
    <3>1. CASE i = k
      BY <3>1, <1>4, <1>6
    <3>2. CASE i < k
      <4>1. i + 1 \in 1 .. k /\ i \in 1 .. k - 1
        BY <3>2, <1>3
      <4> QED
        BY <4>1, <1>4 DEF TagInv, BufsCounted
    <3> QED
      BY <3>1, <3>2, <1>3
  <2>3. freebufs' = BufCnt - (c.tag + Held(c))
    BY <1>3, TransactAssumption DEF Held, TagInv, CallsTyped
  <2> QED
    BY <2>1, <2>2, <2>3, <1>3, <1>4 DEF BufsCounted, Top, Held
<1>9. TagsStacked'
  <2> SUFFICES ASSUME NEW i \in 1 .. k + 1, NEW j \in 1 .. k + 1, i < j
               PROVE  calls'[i].tag + Held(calls'[i]) <= calls'[j].tag
    BY <1>4 DEF TagsStacked, Held
  <2>1. CASE j <= k
    BY <2>1, <1>3, <1>4 DEF TagInv, TagsStacked
  <2>2. CASE j = k + 1
    <3>1. i \in 1 .. k /\ k \in 1 .. k
      BY <2>2, <1>3
    <3>2. calls[i].tag + Held(calls[i]) <= calls[k].tag + Held(calls[k])
      <4>1. CASE i = k
        BY <4>1, <3>1, <1>7
      <4>2. CASE i < k
        BY <4>2, <3>1, <1>3, <1>7 DEF TagInv, TagsStacked
      <4> QED
        BY <4>1, <4>2, <3>1, <1>3
    <3> QED
      BY <2>2, <3>1, <3>2, <1>4, <1>6
  <2> QED
    BY <2>1, <2>2, <1>3
<1> QED
  BY <1>5, <1>8, <1>9 DEF TagInv

LEMMA SendKeeps ==
  ASSUME TagInv, Send
  PROVE  TagInv'
<1> DEFINE k == Len(calls)
           c == [Top EXCEPT !.sent = TRUE]
<1>1. /\ calls \in Seq(Call) /\ k \in Nat /\ k > 0 /\ Max9' = Max9
      /\ calls[k] \in Call /\ Top = calls[k] /\ ~Top.sent
  BY DEF Send, TagInv, CallsTyped, Top
<1>2. Top.n \in Nat /\ Top.tag \in Nat /\ freebufs \in 0 .. BufCnt /\ BufCnt \in Nat
  BY <1>1, TransactAssumption DEF Call, TagInv, CallsTyped
<1>3. CASE UNCHANGED <<calls, freebufs>>
  BY <1>1, <1>3 DEF TagInv, CallsTyped, BufsCounted, TagsStacked, Top
<1>4. CASE /\ Top.n <= freebufs
           /\ calls' = [calls EXCEPT ![k].sent = TRUE]
           /\ freebufs' = freebufs - Top.n
  <2>1. c \in Call /\ c.tag = Top.tag /\ Held(c) = Top.n /\ Held(Top) = 0
    BY <1>1 DEF Call, Held
  <2>2. calls' = [calls EXCEPT ![k] = c]
    BY <1>1, <1>4
  <2> HIDE DEF c
  <2>3. /\ calls' \in Seq(Call) /\ Len(calls') = k /\ calls' # <<>> /\ calls'[k] = c
        /\ \A i \in 1 .. k - 1 : calls'[i] = calls[i]
    BY <1>1, <2>1, <2>2
  <2>4. \A i \in 1 .. k : calls'[i].tag = calls[i].tag
    BY <1>1, <2>1, <2>3
  <2>5. freebufs' \in 0 .. BufCnt
    BY <1>2, <1>4
  <2>6. BufCnt - freebufs = Top.tag
    BY <1>1, <1>2, <2>1, FreeOfTop
  <2>7. BufsCounted'
    <3>1. calls'[1].tag = 0
      BY <1>1, <2>4 DEF TagInv, BufsCounted
    <3>2. ASSUME NEW i \in 1 .. k - 1
          PROVE  calls'[i + 1].tag = calls'[i].tag + Held(calls'[i])
      <4>1. i + 1 \in 1 .. k /\ i \in 1 .. k
        BY <1>1
      <4>2. calls[i + 1].tag = calls[i].tag + Held(calls[i])
        BY DEF TagInv, BufsCounted
      <4> QED
        BY <4>1, <4>2, <2>3, <2>4
    <3>3. freebufs' = BufCnt - (c.tag + Held(c))
      BY <1>2, <1>4, <2>1, <2>6
    <3>4. Top' = c /\ Held(calls'[k]) = Held(c)
      BY <2>3 DEF Top
    <3>5. \A i \in 1 .. k : Held(calls[i])' = Held(calls'[i])
      BY DEF Held
    <3>6. Held(Top)' = Held(c)
      BY <3>4 DEF Held
    <3> QED
      BY <3>1, <3>2, <3>3, <3>4, <3>5, <3>6, <1>1, <2>3 DEF BufsCounted
  <2>8. TagsStacked'
    <3> SUFFICES ASSUME NEW i \in 1 .. k, NEW j \in 1 .. k, i < j
                 PROVE  calls'[i].tag + Held(calls'[i]) <= calls'[j].tag
      BY <2>3 DEF TagsStacked, Held
    <3>1. calls'[i] = calls[i]
      BY <1>1, <2>3
    <3> QED
      BY <3>1, <2>4, <1>1 DEF TagInv, TagsStacked
  <2> QED
    BY <1>1, <2>3, <2>5, <2>7, <2>8 DEF TagInv, CallsTyped
<1> QED
  BY <1>2, <1>3, <1>4 DEF Send

\* What is left of a stack after a pop.
LEMMA Shortened ==
  ASSUME NEW S, NEW s \in Seq(S), Len(s) > 0
  PROVE  /\ SubSeq(s, 1, Len(s) - 1) \in Seq(S)
         /\ Len(SubSeq(s, 1, Len(s) - 1)) = Len(s) - 1
         /\ \A i \in 1 .. Len(s) - 1 : SubSeq(s, 1, Len(s) - 1)[i] = s[i]
<1> DEFINE k == Len(s) - 1
           u == SubSeq(s, 1, k)
<1>1. Len(s) \in Nat /\ \A i \in 1 .. Len(s) : s[i] \in S
  OBVIOUS
<1>2. k \in Nat /\ 1 \in Int /\ k \in Int /\ \A i \in 1 .. k : s[i] \in S
  BY <1>1
<1>3. /\ u \in Seq(S)
      /\ Len(u) = IF 1 <= k THEN k - 1 + 1 ELSE 0
      /\ \A i \in 1 .. k - 1 + 1 : u[i] = s[1 + i - 1]
  BY <1>2, SubSeqProperties
<1> HIDE DEF k, u
<1>4. Len(u) = k /\ \A i \in 1 .. k : u[i] = s[i]
  <2>1. \A i \in 1 .. k : i \in 1 .. k - 1 + 1 /\ 1 + i - 1 = i
    BY <1>2
  <2> QED
    BY <1>2, <1>3, <2>1
<1> QED
  BY <1>3, <1>4 DEF k, u

LEMMA AnswerKeeps ==
  ASSUME TagInv, NEW err \in BOOLEAN, Answer(err)
  PROVE  TagInv'
<1> DEFINE k == Len(calls)
<1>1. /\ calls \in Seq(Call) /\ k \in Nat /\ k > 0 /\ calls[k] \in Call /\ Top = calls[k] /\ Top.sent
      /\ calls' = SubSeq(calls, 1, k - 1) /\ freebufs' = freebufs + Top.n
  BY DEF Answer, TagInv, CallsTyped, Top
<1>0. k \in Nat /\ k > 0
  BY <1>1
<1>2. calls' \in Seq(Call) /\ Len(calls') = k - 1 /\ \A i \in 1 .. k - 1 : calls'[i] = calls[i]
  BY <1>1, Shortened
<1>3. /\ Top.tag \in Nat /\ Held(Top) = Top.n /\ Top.n \in Nat
      /\ freebufs \in 0 .. BufCnt /\ BufCnt \in Nat
  BY <1>1, TransactAssumption DEF Call, Held, TagInv, CallsTyped
<1>4. freebufs' = BufCnt - Top.tag /\ freebufs' \in 0 .. BufCnt
  <2>1. calls # <<>>
    BY <1>1
  <2>2. freebufs = BufCnt - (Top.tag + Held(Top))
    BY <2>1, <1>1, FreeOfTop DEF TagInv, BufsCounted
  <2>3. freebufs' = freebufs + Top.n
    BY <1>1
  <2> HIDE DEF Top, Held
  <2> QED
    BY <2>2, <2>3, <1>3
<1>5. Max9' \in Nat
  <2>1. Max9Of(BufCnt) \in Nat /\ Page \in Nat
    <3>1. \A x, y \in Nat : x * y \in Nat
      OBVIOUS
    <3>2. Page \in Nat /\ BufCnt - 4 \in Nat
      BY TransactAssumption
    <3> QED
      BY <3>1, <3>2 DEF Max9Of
  <2> QED
    BY <2>1 DEF Answer, TagInv, CallsTyped
<1>6. CallsTyped'
  BY <1>2, <1>4, <1>5 DEF CallsTyped
<1>7. BufsCounted'
  <2>1. CASE k = 1
    <3>1. calls' = <<>>
      BY <2>1, <1>2
    <3>2. Top.tag = 0
      <4>1. calls # <<>> /\ Top = calls[1]
        <5>1. Top = calls[k] /\ k # 0
          BY <1>0 DEF Top
        <5>2. Top = calls[1]
          BY <5>1, <2>1
        <5>3. calls # <<>>
          BY <5>1
        <5> QED
          BY <5>2, <5>3
      <4> QED
        BY <4>1 DEF TagInv, BufsCounted
    <3>3. freebufs' = BufCnt - 0
      BY <3>2, <1>4
    <3> QED
      BY <3>1, <3>3, <1>2, <2>1 DEF BufsCounted
  <2>2. CASE k > 1
    <3>1. calls'[1].tag = 0
      BY <2>2, <1>1, <1>2 DEF TagInv, BufsCounted
    <3>2. ASSUME NEW i \in 1 .. k - 2
          PROVE  calls'[i + 1].tag = calls'[i].tag + Held(calls'[i])
      <4>1. i + 1 \in 1 .. k - 1 /\ i \in 1 .. k - 1
        BY <1>1
      <4>2. calls[i + 1].tag = calls[i].tag + Held(calls[i])
        BY <4>1 DEF TagInv, BufsCounted
      <4> QED
        BY <4>1, <4>2, <1>2
    <3>3. k - 1 \in 1 .. k - 1 /\ (k - 1) + 1 = k
      BY <2>2, <1>1
    <3>4. Top.tag = calls'[k - 1].tag + Held(calls'[k - 1])
      <4>1. calls[(k - 1) + 1].tag = calls[k - 1].tag + Held(calls[k - 1])
        BY <3>3 DEF TagInv, BufsCounted
      <4> QED
        BY <4>1, <3>3, <1>1, <1>2
    <3>5. Len(calls') - 1 = k - 2 /\ calls' # <<>>
      <4>1. Len(calls') = k - 1
        BY <1>2
      <4>2. Len(calls') > 0
        BY <4>1, <2>2, <1>0
      <4>3. calls' # <<>>
        BY <4>2
      <4> QED
        BY <4>1, <4>3, <1>0
    <3>6. Top' = calls'[k - 1]
      BY <1>2 DEF Top
    <3>7. Held(Top)' = Held(calls'[k - 1]) /\ \A i \in 1 .. k : Held(calls[i])' = Held(calls'[i])
      BY <3>6 DEF Held
    <3> QED
      BY <3>1, <3>2, <3>4, <3>5, <3>6, <3>7, <1>1, <1>4 DEF BufsCounted
  <2>3. k = 1 \/ k > 1
    <3> HIDE DEF k
    <3> QED
      BY <1>0
  <2> QED
    BY <2>1, <2>2, <2>3
<1>8. TagsStacked'
  BY <1>1, <1>2 DEF TagInv, TagsStacked, Held
<1> QED
  BY <1>6, <1>7, <1>8 DEF TagInv

LEMMA TagInvStep ==
  ASSUME TagInv, [TransactNext]_tVars
  PROVE  TagInv'
<1>1. CASE \E m \in Messages, a, b, c \in Offsets : \E big \in Bigs(m) : Begin(m, a, b, c, big)
  BY <1>1, BeginKeeps
<1>2. CASE Send
  BY <1>2, SendKeeps
<1>3. CASE \E err \in BOOLEAN : Answer(err)
  BY <1>3, AnswerKeeps
<1>4. CASE UNCHANGED tVars
  BY <1>4 DEF tVars, TagInv, CallsTyped, BufsCounted, TagsStacked, Top
<1> QED
  BY <1>1, <1>2, <1>3, <1>4 DEF TransactNext

\* The inductive invariant holds of every reachable state of transact.
THEOREM TagInvariant == TransactSpec => []TagInv
  BY TagInvInit, TagInvStep, PTL DEF TransactSpec

\* freebufs is exact after any nesting of calls, answers and errors of transact,
\* for every size of the queue.
THEOREM BufsAccounted == TransactSpec => []BufsCounted
<1>1. TagInv => BufsCounted
  BY DEF TagInv
<1> QED
  BY <1>1, TagInvariant, PTL

\* No two messages of transact that the server has at one time have the same
\* tag, for every size of the queue and depth of nesting.
THEOREM TagsUnique == TransactSpec => []TagsDiffer
<1>1. ASSUME TagInv
      PROVE  TagsDiffer
  <2> SUFFICES ASSUME NEW i \in 1 .. Len(calls), NEW j \in 1 .. Len(calls),
                      i < j, calls[i].sent
               PROVE  calls[i].tag < calls[j].tag
    BY DEF TagsDiffer
  <2>1. calls[i] \in Call /\ calls[j] \in Call
    BY <1>1 DEF TagInv, CallsTyped
  <2>2. Held(calls[i]) \in Nat /\ Held(calls[i]) > 0
    BY <2>1, HeldNat
  <2>3. calls[i].tag + Held(calls[i]) <= calls[j].tag
    BY <1>1 DEF TagInv, TagsStacked
  <2>4. calls[i].tag \in Nat /\ calls[j].tag \in Nat
    BY <2>1 DEF Call
  <2> QED
    BY <2>2, <2>3, <2>4
<1> QED
  BY <1>1, TagInvariant, PTL

-------------------------------------------------------------------------------
(***************************************************************************)
(* How large a message is.  No letter but s and Q takes more than 8 bytes, *)
(* so a message is bounded by its length and by how many of those it has.  *)
(***************************************************************************)
Places(fmt, letter) == {i \in 1 .. Len(fmt) : fmt[i] = letter}

LEMMA PlacesFinite ==
  ASSUME NEW fmt, Len(fmt) \in Nat, NEW letter
  PROVE  /\ IsFiniteSet(Places(fmt, letter)) /\ Places(fmt, letter) \subseteq 1 .. Len(fmt)
         /\ Count(fmt, letter) = Cardinality(Places(fmt, letter)) /\ Count(fmt, letter) \in Nat
<1>1. IsFiniteSet(1 .. Len(fmt))
  BY FS_Interval
<1>2. IsFiniteSet(Places(fmt, letter))
  BY <1>1, FS_Subset DEF Places
<1> QED
  BY <1>2, FS_CardinalityType DEF Count, Places

LEMMA DisjointUnion ==
  ASSUME NEW S, NEW T, IsFiniteSet(S), IsFiniteSet(T), S \cap T = {}
  PROVE  IsFiniteSet(S \cup T) /\ Cardinality(S \cup T) = Cardinality(S) + Cardinality(T)
<1>1. Cardinality(S \cap T) = 0
  BY FS_EmptySet
<1> QED
  BY <1>1, FS_Union, FS_CardinalityType

LEMMA CountsSum ==
  ASSUME NEW fmt, Len(fmt) \in Nat
  PROVE  Count(fmt, "b") + Count(fmt, "w") + Count(fmt, "d") + Count(fmt, "q")
           + Count(fmt, "Q") + Count(fmt, "s") <= Len(fmt)
<1> DEFINE B == Places(fmt, "b")
           W == Places(fmt, "w")
           D == Places(fmt, "d")
           q == Places(fmt, "q")
           Q == Places(fmt, "Q")
           S == Places(fmt, "s")
<1>1. /\ IsFiniteSet(B) /\ IsFiniteSet(W) /\ IsFiniteSet(D) /\ IsFiniteSet(q)
      /\ IsFiniteSet(Q) /\ IsFiniteSet(S)
  BY PlacesFinite
<1>2. /\ B \cap W = {} /\ (B \cup W) \cap D = {} /\ (B \cup W \cup D) \cap q = {}
      /\ (B \cup W \cup D \cup q) \cap Q = {} /\ (B \cup W \cup D \cup q \cup Q) \cap S = {}
  BY DEF Places
<1>3. B \cup W \cup D \cup q \cup Q \cup S \in SUBSET (1 .. Len(fmt))
  BY DEF Places
<1> HIDE DEF B, W, D, q, Q, S
<1>4. IsFiniteSet(B \cup W) /\ Cardinality(B \cup W) = Cardinality(B) + Cardinality(W)
  BY <1>1, <1>2, DisjointUnion
<1>5. /\ IsFiniteSet(B \cup W \cup D)
      /\ Cardinality(B \cup W \cup D) = Cardinality(B \cup W) + Cardinality(D)
  BY <1>1, <1>2, <1>4, DisjointUnion
<1>6. /\ IsFiniteSet(B \cup W \cup D \cup q)
      /\ Cardinality(B \cup W \cup D \cup q) = Cardinality(B \cup W \cup D) + Cardinality(q)
  BY <1>1, <1>2, <1>5, DisjointUnion
<1>7. /\ IsFiniteSet(B \cup W \cup D \cup q \cup Q)
      /\ Cardinality(B \cup W \cup D \cup q \cup Q)
           = Cardinality(B \cup W \cup D \cup q) + Cardinality(Q)
  BY <1>1, <1>2, <1>6, DisjointUnion
<1>8. Cardinality(B \cup W \cup D \cup q \cup Q \cup S)
        = Cardinality(B \cup W \cup D \cup q \cup Q) + Cardinality(S)
  BY <1>1, <1>2, <1>7, DisjointUnion
<1>9. Cardinality(B \cup W \cup D \cup q \cup Q \cup S) <= Len(fmt)
  <2>1. \A n \in Nat : IsFiniteSet(1 .. n) /\ Cardinality(1 .. n) = n
    <3>1. ASSUME NEW n \in Nat
          PROVE  IsFiniteSet(1 .. n) /\ Cardinality(1 .. n) = n
      <4>1. 1 \in Int /\ n \in Int
        OBVIOUS
      <4>2. /\ IsFiniteSet(1 .. n)
            /\ Cardinality(1 .. n) = IF 1 > n THEN 0 ELSE n - 1 + 1
        BY <4>1, FS_Interval
      <4> QED
        BY <4>2
    <3> QED
      BY <3>1
  <2> QED
    BY <1>3, <2>1, FS_Subset
<1>10. /\ Count(fmt, "b") = Cardinality(B) /\ Count(fmt, "w") = Cardinality(W)
       /\ Count(fmt, "d") = Cardinality(D) /\ Count(fmt, "q") = Cardinality(q)
       /\ Count(fmt, "Q") = Cardinality(Q) /\ Count(fmt, "s") = Cardinality(S)
  BY PlacesFinite DEF B, W, D, q, Q, S
<1> QED
  BY <1>4, <1>5, <1>6, <1>7, <1>8, <1>9, <1>10

OnlyAt(fmt, letter, S) == \A i \in 1 .. Len(fmt) : fmt[i] = letter => i \in S

\* A format has one qid at most; one with a string is short, and one with two,
\* which only a sent message may have, is shorter.
Short(fmt, n, i, j, q) ==
  /\ OnlyAt(fmt, "s", {i, j}) /\ OnlyAt(fmt, "Q", {q})
  /\ \/ i = 0 /\ j = 0 /\ Len(fmt) \in 0 .. 20
     \/ i = j /\ Len(fmt) \in 0 .. 10
     \/ n = 2 /\ Len(fmt) \in 0 .. 5

LEMMA CountOfPair ==
  ASSUME NEW fmt, Len(fmt) \in Nat, NEW letter, NEW i, NEW j, OnlyAt(fmt, letter, {i, j})
  PROVE  /\ Count(fmt, letter) <= 2 /\ (i = j => Count(fmt, letter) <= 1)
         /\ (i = 0 /\ j = 0 => Count(fmt, letter) = 0)
<1>0. Places(fmt, letter) \subseteq {i, j}
  BY DEF Places, OnlyAt
<1>1. IsFiniteSet({i}) /\ Cardinality({i}) = 1
  BY FS_Singleton
<1>2. IsFiniteSet({i} \cup {j}) /\ Cardinality({i} \cup {j}) <= 2
  BY <1>1, FS_AddElement
<1>3. Places(fmt, letter) \in SUBSET ({i} \cup {j})
  BY <1>0
<1>4. Cardinality(Places(fmt, letter)) <= 2
  BY <1>2, <1>3, FS_Subset, FS_CardinalityType
<1>5. ASSUME i = j PROVE Cardinality(Places(fmt, letter)) <= 1
  <2>1. Places(fmt, letter) \in SUBSET {i}
    BY <1>0, <1>5
  <2> QED
    BY <1>1, <2>1, FS_Subset
<1>6. ASSUME i = 0, j = 0 PROVE Cardinality(Places(fmt, letter)) = 0
  <2>1. Places(fmt, letter) = {}
    BY <1>0, <1>6 DEF Places
  <2> QED
    BY <2>1, FS_EmptySet
<1> QED
  BY <1>4, <1>5, <1>6, PlacesFinite

LEMMA SizeOfShort ==
  ASSUME NEW fmt, NEW n \in {1, 2}, NEW str \in 0 .. 127, n = 2 => str <= 106,
         NEW i, NEW j, NEW p, Short(fmt, n, i, j, p)
  PROVE  Size(fmt, str) <= StackRoom
<1>1. Len(fmt) \in Nat
  BY DEF Short
<1> DEFINE b == Count(fmt, "b")
           w == Count(fmt, "w")
           d == Count(fmt, "d")
           q == Count(fmt, "q")
           Q == Count(fmt, "Q")
           s == Count(fmt, "s")
<1>2. b \in Nat /\ w \in Nat /\ d \in Nat /\ q \in Nat /\ Q \in Nat /\ s \in Nat
  BY <1>1, PlacesFinite
<1>3. b + w + d + q + Q + s <= Len(fmt)
  BY <1>1, CountsSum
<1>4. Q <= 1
  <2>1. OnlyAt(fmt, "Q", {p, p})
    BY DEF Short, OnlyAt
  <2> QED
    BY <1>1, <2>1, CountOfPair
<1>5. s = 0 \/ (s <= 1 /\ Len(fmt) <= 10) \/ (s <= 2 /\ Len(fmt) <= 5 /\ n = 2)
  <2>1. s <= 2 /\ (i = j => s <= 1) /\ (i = 0 /\ j = 0 => s = 0)
    BY <1>1, CountOfPair DEF Short
  <2>2. (i = 0 /\ j = 0) \/ (i = j /\ Len(fmt) \in 0 .. 10) \/ (n = 2 /\ Len(fmt) \in 0 .. 5)
    BY DEF Short
  <2>6. \A k : (k \in 0 .. 10 => k <= 10) /\ (k \in 0 .. 5 => k <= 5)
    OBVIOUS
  <2>3. CASE i = 0 /\ j = 0
    BY <2>1, <2>3
  <2>4. CASE i = j /\ Len(fmt) \in 0 .. 10
    BY <2>1, <2>4, <2>6
  <2>5. CASE n = 2 /\ Len(fmt) \in 0 .. 5
    BY <2>1, <2>5, <2>6
  <2> QED
    BY <2>2, <2>3, <2>4, <2>5
<1>6. Size(fmt, str) = 7 + b + 2 * w + 4 * d + 8 * q + 13 * Q + (2 + str) * s
  BY DEF Size
<1> HIDE DEF b, w, d, q, Q, s
<1> DEFINE k == Len(fmt)
           x == (2 + str) * s
<1>7. k \in 0 .. 20
  BY DEF Short
<1>8. Size(fmt, str) = 7 + b + 2 * w + 4 * d + 8 * q + 13 * Q + x
  BY <1>6
<1>9. b + w + d + q + Q + s <= k /\ (s = 0 \/ (s <= 1 /\ k <= 10) \/ (s <= 2 /\ k <= 5 /\ n = 2))
  BY <1>3, <1>5
<1>10. (s = 0 => x = 0) /\ (s = 1 => x = 2 + str) /\ (s = 2 => x = 2 * (2 + str))
  BY <1>2
<1> HIDE DEF k, x
<1>11. b + 2 * w + 4 * d + 8 * q + 13 * Q <= 8 * (b + w + d + q + Q) + 5
  BY <1>2, <1>4
<1>12. CASE s = 0
  BY <1>2, <1>7, <1>8, <1>9, <1>10, <1>11, <1>12 DEF StackRoom
<1>13. CASE s = 1
  <2>1. x <= 129 /\ x \in Nat
    BY <1>10, <1>13
  <2>2. b + w + d + q + Q <= 9
    BY <1>2, <1>7, <1>9, <1>13
  <2> QED
    BY <1>2, <1>8, <1>11, <2>1, <2>2 DEF StackRoom
<1>14. CASE s = 2
  <2>1. x <= 216 /\ x \in Nat
    BY <1>9, <1>10, <1>14
  <2>2. b + w + d + q + Q <= 3
    BY <1>2, <1>7, <1>9, <1>14
  <2> QED
    BY <1>2, <1>8, <1>11, <2>1, <2>2 DEF StackRoom
<1> QED
  BY <1>2, <1>9, <1>12, <1>13, <1>14

LEMMA StackOfShort ==
  ASSUME NEW m, NEW it, NEW jt, NEW qt, NEW ir, NEW qr,
         Short(m.t, 2, it, jt, qt), Short(m.r, 1, ir, ir, qr)
  PROVE  SizeT(m) <= StackRoom /\ Size(m.r, StrMax) <= StackRoom
<1>1. MaxName \in 0 .. 106
  BY TransactAssumption
<1> QED
  BY <1>1, SizeOfShort DEF SizeT, StrMax

\* t and r are large enough for every message that is sent and every answer.
LEMMA StackFits ==
  ASSUME NEW m \in Messages
  PROVE  SizeT(m) <= StackRoom /\ Size(m.r, StrMax) <= StackRoom
<1>1. SizeT(Tversion) <= StackRoom /\ Size(Tversion.r, StrMax) <= StackRoom
  <2>1. Short(Tversion.t, 2, 2, 2, 0) /\ Short(Tversion.r, 1, 2, 2, 0)
    BY DEF Short, OnlyAt, Tversion
  <2> QED
    BY <2>1, StackOfShort
<1>2. SizeT(Tattach) <= StackRoom /\ Size(Tattach.r, StrMax) <= StackRoom
  <2>1. Short(Tattach.t, 2, 3, 4, 0) /\ Short(Tattach.r, 1, 0, 0, 1)
    BY DEF Short, OnlyAt, Tattach
  <2> QED
    BY <2>1, StackOfShort
<1>3. SizeT(Tstatfs) <= StackRoom /\ Size(Tstatfs.r, StrMax) <= StackRoom
  <2>1. Short(Tstatfs.t, 2, 0, 0, 0) /\ Short(Tstatfs.r, 1, 0, 0, 0)
    BY DEF Short, OnlyAt, Tstatfs
  <2> QED
    BY <2>1, StackOfShort
<1>4. SizeT(Twalk) <= StackRoom /\ Size(Twalk.r, StrMax) <= StackRoom
  <2>1. Short(Twalk.t, 2, 0, 0, 0) /\ Short(Twalk.r, 1, 0, 0, 0)
    BY DEF Short, OnlyAt, Twalk
  <2> QED
    BY <2>1, StackOfShort
<1>5. SizeT(Tlopen) <= StackRoom /\ Size(Tlopen.r, StrMax) <= StackRoom
  <2>1. Short(Tlopen.t, 2, 0, 0, 0) /\ Short(Tlopen.r, 1, 0, 0, 1)
    BY DEF Short, OnlyAt, Tlopen
  <2> QED
    BY <2>1, StackOfShort
<1>6. SizeT(Tlcreate) <= StackRoom /\ Size(Tlcreate.r, StrMax) <= StackRoom
  <2>1. Short(Tlcreate.t, 2, 2, 2, 0) /\ Short(Tlcreate.r, 1, 0, 0, 1)
    BY DEF Short, OnlyAt, Tlcreate
  <2> QED
    BY <2>1, StackOfShort
<1>7. SizeT(Txattrwalk) <= StackRoom /\ Size(Txattrwalk.r, StrMax) <= StackRoom
  <2>1. Short(Txattrwalk.t, 2, 3, 3, 0) /\ Short(Txattrwalk.r, 1, 0, 0, 0)
    BY DEF Short, OnlyAt, Txattrwalk
  <2> QED
    BY <2>1, StackOfShort
<1>8. SizeT(Txattrcreate) <= StackRoom /\ Size(Txattrcreate.r, StrMax) <= StackRoom
  <2>1. Short(Txattrcreate.t, 2, 2, 2, 0) /\ Short(Txattrcreate.r, 1, 0, 0, 0)
    BY DEF Short, OnlyAt, Txattrcreate
  <2> QED
    BY <2>1, StackOfShort
<1>9. SizeT(Tremove) <= StackRoom /\ Size(Tremove.r, StrMax) <= StackRoom
  <2>1. Short(Tremove.t, 2, 0, 0, 0) /\ Short(Tremove.r, 1, 0, 0, 0)
    BY DEF Short, OnlyAt, Tremove
  <2> QED
    BY <2>1, StackOfShort
<1>10. SizeT(Tunlinkat) <= StackRoom /\ Size(Tunlinkat.r, StrMax) <= StackRoom
  <2>1. Short(Tunlinkat.t, 2, 2, 2, 0) /\ Short(Tunlinkat.r, 1, 0, 0, 0)
    BY DEF Short, OnlyAt, Tunlinkat
  <2> QED
    BY <2>1, StackOfShort
<1>11. SizeT(Trenameat) <= StackRoom /\ Size(Trenameat.r, StrMax) <= StackRoom
  <2>1. Short(Trenameat.t, 2, 2, 4, 0) /\ Short(Trenameat.r, 1, 0, 0, 0)
    BY DEF Short, OnlyAt, Trenameat
  <2> QED
    BY <2>1, StackOfShort
<1>12. SizeT(Tmkdir) <= StackRoom /\ Size(Tmkdir.r, StrMax) <= StackRoom
  <2>1. Short(Tmkdir.t, 2, 2, 2, 0) /\ Short(Tmkdir.r, 1, 0, 0, 1)
    BY DEF Short, OnlyAt, Tmkdir
  <2> QED
    BY <2>1, StackOfShort
<1>13. SizeT(Treaddir) <= StackRoom /\ Size(Treaddir.r, StrMax) <= StackRoom
  <2>1. Short(Treaddir.t, 2, 0, 0, 0) /\ Short(Treaddir.r, 1, 0, 0, 0)
    BY DEF Short, OnlyAt, Treaddir
  <2> QED
    BY <2>1, StackOfShort
<1>14. SizeT(Tgetattr) <= StackRoom /\ Size(Tgetattr.r, StrMax) <= StackRoom
  <2>1. Short(Tgetattr.t, 2, 0, 0, 0) /\ Short(Tgetattr.r, 1, 0, 0, 2)
    BY DEF Short, OnlyAt, Tgetattr
  <2> QED
    BY <2>1, StackOfShort
<1>15. SizeT(Tsetattr) <= StackRoom /\ Size(Tsetattr.r, StrMax) <= StackRoom
  <2>1. Short(Tsetattr.t, 2, 0, 0, 0) /\ Short(Tsetattr.r, 1, 0, 0, 0)
    BY DEF Short, OnlyAt, Tsetattr
  <2> QED
    BY <2>1, StackOfShort
<1>16. SizeT(Tclunk) <= StackRoom /\ Size(Tclunk.r, StrMax) <= StackRoom
  <2>1. Short(Tclunk.t, 2, 0, 0, 0) /\ Short(Tclunk.r, 1, 0, 0, 0)
    BY DEF Short, OnlyAt, Tclunk
  <2> QED
    BY <2>1, StackOfShort
<1>17. SizeT(Tread) <= StackRoom /\ Size(Tread.r, StrMax) <= StackRoom
  <2>1. Short(Tread.t, 2, 0, 0, 0) /\ Short(Tread.r, 1, 0, 0, 0)
    BY DEF Short, OnlyAt, Tread
  <2> QED
    BY <2>1, StackOfShort
<1>18. SizeT(Twrite) <= StackRoom /\ Size(Twrite.r, StrMax) <= StackRoom
  <2>1. Short(Twrite.t, 2, 0, 0, 0) /\ Short(Twrite.r, 1, 0, 0, 0)
    BY DEF Short, OnlyAt, Twrite
  <2> QED
    BY <2>1, StackOfShort
<1>19. SizeT(Tfsync) <= StackRoom /\ Size(Tfsync.r, StrMax) <= StackRoom
  <2>1. Short(Tfsync.t, 2, 0, 0, 0) /\ Short(Tfsync.r, 1, 0, 0, 0)
    BY DEF Short, OnlyAt, Tfsync
  <2> QED
    BY <2>1, StackOfShort
<1>20. SizeT(Tlock) <= StackRoom /\ Size(Tlock.r, StrMax) <= StackRoom
  <2>1. Short(Tlock.t, 2, 7, 7, 0) /\ Short(Tlock.r, 1, 0, 0, 0)
    BY DEF Short, OnlyAt, Tlock
  <2> QED
    BY <2>1, StackOfShort
<1> QED
  BY <1>1, <1>2, <1>3, <1>4, <1>5, <1>6, <1>7, <1>8, <1>9, <1>10, <1>11, <1>12, <1>13, <1>14, <1>15, <1>16, <1>17, <1>18, <1>19, <1>20 DEF Messages

-------------------------------------------------------------------------------
(***************************************************************************)
(* How many pages a buffer touches.                                        *)
(***************************************************************************)
LEMMA PageDivides ==
  ASSUME NEW x \in Nat, NEW k \in Nat, x < Page * (k + 1)
  PROVE  x \div Page \in Nat /\ x \div Page <= k
<1> DEFINE P == Page
           q == x \div P
<1>1. P \in Nat /\ P > 0
  BY TransactAssumption
<1>2. q \in Nat /\ x >= P * q
  BY <1>1
<1> HIDE DEF P, q
<1>3. ASSUME q > k PROVE FALSE
  <2>1. PICK j \in Nat : q = (k + 1) + j
    <3>1. q - (k + 1) \in Nat /\ q = (k + 1) + (q - (k + 1))
      BY <1>2, <1>3
    <3> QED
      BY <3>1
  <2>2. P * q = P * (k + 1) + P * j /\ P * j \in Nat /\ P * (k + 1) \in Nat
    BY <1>1, <2>1
  <2>3. x < P * (k + 1)
    BY DEF P
  <2> QED
    BY <1>1, <1>2, <2>2, <2>3
<1>4. q <= k
  BY <1>2, <1>3
<1> QED
  BY <1>2, <1>4 DEF q, P

LEMMA ExtentsOfPages ==
  ASSUME NEW offset \in Nat, NEW bytes \in Nat, NEW k \in Nat, bytes <= Page * k
  PROVE  Extents(offset, bytes) \in Nat /\ Extents(offset, bytes) <= k + 1
<1>1. Page \in Nat /\ Page > 0
  BY TransactAssumption
<1>2. CASE bytes = 0
  BY <1>2 DEF Extents
<1>3. CASE bytes > 0
  <2> DEFINE o == offset % Page
             x == o + (bytes - 1)
  <2>1. o \in Nat /\ o <= Page - 1
    BY <1>1
  <2> HIDE DEF o
  <2>2. Page * (k + 1) = Page * k + Page /\ Page * k \in Nat
    BY <1>1
  <2>3. x \in Nat /\ x < Page * (k + 1)
    BY <1>1, <1>3, <2>1, <2>2
  <2> HIDE DEF x
  <2>4. x \div Page \in Nat /\ x \div Page <= k
    BY <2>3, PageDivides
  <2>5. Extents(offset, bytes) = (x \div Page) + 1
    <3>1. bytes # 0
      BY <1>3
    <3> QED
      BY <3>1, Zenon DEF Extents, x, o
  <2> QED
    BY <2>4, <2>5
<1> QED
  BY <1>2, <1>3

LEMMA ExtentsInPage ==
  ASSUME NEW offset \in Nat, NEW bytes \in Nat, (offset % Page) + bytes <= Page
  PROVE  Extents(offset, bytes) <= 1
<1>1. Page \in Nat /\ Page > 0
  BY TransactAssumption
<1>2. CASE bytes = 0
  BY <1>2 DEF Extents
<1>3. CASE bytes > 0
  <2> DEFINE o == offset % Page
             x == o + (bytes - 1)
  <2>1. o \in Nat /\ o + bytes <= Page
    BY <1>1
  <2> HIDE DEF o
  <2>2. x \in Nat /\ x < Page * (0 + 1)
    BY <1>1, <1>3, <2>1
  <2> HIDE DEF x
  <2>3. x \div Page \in Nat /\ x \div Page <= 0
    BY <2>2, PageDivides
  <2>4. Extents(offset, bytes) = (x \div Page) + 1
    <3>1. bytes # 0
      BY <1>3
    <3> QED
      BY <3>1, Zenon DEF Extents, x, o
  <2> QED
    BY <2>3, <2>4
<1> QED
  BY <1>2, <1>3

\* Only one of t and r can lie across the end of a page.
LEMMA StackExtents ==
  ASSUME NEW a \in Offsets, NEW ts \in 0 .. StackRoom, NEW rs \in 0 .. StackRoom
  PROVE  /\ Extents(a, ts) \in Nat /\ Extents(a + StackRoom, rs) \in Nat
         /\ Extents(a, ts) + Extents(a + StackRoom, rs) <= 3
<1>1. /\ Page \in Nat /\ Page >= 1024 /\ a \in 0 .. Page - 1 /\ a \in Nat /\ a + StackRoom \in Nat
      /\ ts \in Nat /\ rs \in Nat /\ ts <= 256 /\ rs <= 256
  BY TransactAssumption DEF StackRoom
<1>2. Extents(a, ts) \in Nat /\ Extents(a, ts) <= 2
  <2>1. ts <= Page * 1
    BY <1>1
  <2>2. Extents(a, ts) \in Nat /\ Extents(a, ts) <= 1 + 1
    BY <1>1, <2>1, ExtentsOfPages
  <2> QED
    BY <2>2
<1>3. Extents(a + StackRoom, rs) \in Nat /\ Extents(a + StackRoom, rs) <= 2
  <2>1. rs <= Page * 1
    BY <1>1
  <2>2. Extents(a + StackRoom, rs) \in Nat /\ Extents(a + StackRoom, rs) <= 1 + 1
    BY <1>1, <2>1, ExtentsOfPages
  <2> QED
    BY <2>2
<1>4. CASE a + 256 <= Page
  <2>1. (a % Page) + ts <= Page
    <3>1. a % Page = a
      BY <1>1
    <3> QED
      BY <1>1, <1>4, <3>1
  <2>2. Extents(a, ts) <= 1
    BY <1>1, <2>1, ExtentsInPage
  <2> QED
    BY <1>2, <1>3, <2>2
<1>5. CASE a + 256 > Page
  <2>1. ((a + StackRoom) % Page) + rs <= Page
    <3>1. a + StackRoom = Page + (a + 256 - Page) /\ a + 256 - Page \in 0 .. 255
      BY <1>1, <1>5 DEF StackRoom
    <3>2. \A y \in 0 .. 255 : (Page + y) % Page = y
      BY <1>1
    <3>3. (a + StackRoom) % Page = a + 256 - Page
      BY <3>1, <3>2
    <3> QED
      BY <1>1, <3>1, <3>3
  <2>2. Extents(a + StackRoom, rs) <= 1
    BY <1>1, <2>1, ExtentsInPage
  <2> QED
    BY <1>2, <1>3, <2>2
<1> QED
  BY <1>1, <1>2, <1>3, <1>4, <1>5

-------------------------------------------------------------------------------
(***************************************************************************)
(* Every message fits the queue.                                           *)
(***************************************************************************)
LEMMA BigMessages ==
  ASSUME NEW m \in Messages
  PROVE  /\ HasBig(m.t) => m \in {Twalk, Twrite}
         /\ HasBig(m.r) => m \in {Twalk, Treaddir, Tread}
<1> DEFINE Small(x) == ~HasBig(x.t) /\ ~HasBig(x.r)
<1>1. Small(Tversion) /\ Small(Tattach) /\ Small(Tstatfs) /\ Small(Tlopen)
  BY DEF HasBig, Tversion, Tattach, Tstatfs, Tlopen
<1>2. Small(Tlcreate) /\ Small(Txattrwalk) /\ Small(Txattrcreate) /\ Small(Tremove)
  BY DEF HasBig, Tlcreate, Txattrwalk, Txattrcreate, Tremove
<1>3. Small(Tunlinkat) /\ Small(Trenameat) /\ Small(Tmkdir)
  BY DEF HasBig, Tunlinkat, Trenameat, Tmkdir
<1>4. Small(Tgetattr) /\ Small(Tsetattr) /\ Small(Tclunk)
  BY DEF HasBig, Tgetattr, Tsetattr, Tclunk
<1>5. Small(Tfsync) /\ Small(Tlock)
  BY DEF HasBig, Tfsync, Tlock
<1>6. ~HasBig(Treaddir.t) /\ ~HasBig(Tread.t) /\ ~HasBig(Twrite.r)
  BY DEF HasBig, Treaddir, Tread, Twrite
<1> HIDE DEF Small
<1>7. Small(m) \/ m \in {Twalk, Twrite, Treaddir, Tread}
  BY <1>1, <1>2, <1>3, <1>4, <1>5 DEF Messages
<1> QED
  BY <1>6, <1>7 DEF Small

LEMMA BigNotWalk == Twrite # Twalk /\ Tread # Twalk /\ Treaddir # Twalk /\ Twrite # Tread /\ Twrite # Treaddir
<1>1. Twrite.r # Twalk.r /\ Tread.r # Twalk.r /\ Treaddir.r # Twalk.r
  BY DEF Twrite, Twalk, Tread, Treaddir
<1>2. Twrite.r # Tread.r /\ Twrite.r # Treaddir.r
  BY DEF Twrite, Tread, Treaddir
<1> QED
  BY <1>1, <1>2

LEMMA StackSizes ==
  ASSUME NEW m \in Messages, NEW big \in Nat
  PROVE  /\ SizeT(m) \in 1 .. StackRoom /\ SizeR(m, big) \in 7 .. StackRoom
         /\ SizeT(m) <= StackRoom /\ SizeR(m, big) <= StackRoom
         /\ BigR(m, big) = 0 => SizeR(m, big) >= 11
<1>1. Len(m.t) \in Nat /\ Len(m.r) \in Nat /\ MaxName \in Nat /\ StrMax \in Nat
  BY Formats, TransactAssumption DEF Typed, StrMax
<1>2. SizeT(m) \in Nat /\ SizeT(m) >= 7
  BY <1>1, SizeNat DEF SizeT
<1>3. Size(m.r, StrMax) \in Nat /\ Size(m.r, StrMax) >= 7
  BY <1>1, SizeNat
<1>4. SizeT(m) <= StackRoom /\ Size(m.r, StrMax) <= StackRoom
  BY StackFits
<1> QED
  BY <1>2, <1>3, <1>4 DEF SizeR, StackRoom

LEMMA DescriptorsFit ==
  ASSUME BufCnt >= 7, Max9 \in Nat, Max9 <= Max9Of(BufCnt), NEW m \in Messages,
         NEW a \in Offsets, NEW b \in Offsets, NEW c \in Offsets, NEW big \in Bigs(m),
         big <= Max9Of(BufCnt)
  PROVE  Descriptors(m, a, b, c, big) <= BufCnt
<1>1. /\ BufCnt \in Nat /\ Page \in Nat /\ Page >= 1024 /\ a \in Nat /\ b \in Nat /\ c \in Nat
      /\ big \in Nat
  BY TransactAssumption DEF Bigs, PathRoom, ListingRoom, CountRoom, RezTransfers
<1> DEFINE x == Extents(a, SizeT(m))
           y == Extents(b, BigT(m, big))
           z == Extents(a + StackRoom, SizeR(m, big))
           w == Extents(c, BigR(m, big))
<1>2. x \in Nat /\ z \in Nat /\ x + z <= 3
  <2>1. SizeT(m) \in 0 .. StackRoom /\ SizeR(m, big) \in 0 .. StackRoom
    BY <1>1, StackSizes DEF StackRoom
  <2> QED
    BY <2>1, StackExtents
<1>3. Descriptors(m, a, b, c, big) = x + y + z + w
  BY DEF Descriptors
<1> HIDE DEF x, z
<1>4. CASE m = Twalk
  <2>1. BigT(m, big) \in Nat /\ BigR(m, big) \in Nat /\ BigT(m, big) <= 1024 /\ BigR(m, big) <= 1024
    BY <1>4, BigNotWalk DEF Bigs, PathRoom, BigT, BigR, Walked
  <2>2. BigT(m, big) <= Page * 1 /\ BigR(m, big) <= Page * 1
    BY <1>1, <2>1
  <2>3. y \in Nat /\ y <= 1 + 1 /\ w \in Nat /\ w <= 1 + 1
    BY <1>1, <2>1, <2>2, ExtentsOfPages
  <2> HIDE DEF y, w
  <2> QED
    BY <1>1, <1>2, <1>3, <2>3
<1>5. CASE m # Twalk
  <2> DEFINE k == BufCnt - 4
  <2>1. k \in Nat /\ k >= 1
    BY <1>1
  <2>2. big <= Page * k
    BY DEF Max9Of
  <2>3. BigT(m, big) = 0 \/ BigR(m, big) = 0
    BY <1>5, BigMessages, BigNotWalk DEF BigT, BigR
  <2>4. BigT(m, big) \in {0, big} /\ BigR(m, big) \in {0, big}
    BY <1>5 DEF BigT, BigR
  <2>5. Extents(b, 0) = 0 /\ Extents(c, 0) = 0
    BY DEF Extents
  <2>6. /\ Extents(b, big) \in Nat /\ Extents(b, big) <= k + 1
        /\ Extents(c, big) \in Nat /\ Extents(c, big) <= k + 1
    BY <1>1, <2>1, <2>2, ExtentsOfPages
  <2>7. y \in Nat /\ w \in Nat /\ y + w <= k + 1
    BY <2>1, <2>3, <2>4, <2>5, <2>6
  <2> HIDE DEF y, w
  <2> QED
    BY <1>1, <1>2, <1>3, <2>7
<1> QED
  BY <1>4, <1>5

\* An error of four bytes ends in r, or in the large buffer that comes after r.
LEMMA ErrnoInside ==
  ASSUME NEW m \in Messages, NEW big \in Nat, NEW i \in 0 .. 3,
         ErrnoByte(m, big, i)[1] = "big"
  PROVE  ErrnoByte(m, big, i)[2] < BigR(m, big)
<1>1. SizeR(m, big) \in 7 .. StackRoom /\ (BigR(m, big) = 0 => SizeR(m, big) >= 11)
  BY StackSizes
<1>2. ~(7 + i < SizeR(m, big)) /\ ErrnoByte(m, big, i)[2] = 7 + i - SizeR(m, big)
  BY DEF ErrnoByte
<1>3. BigR(m, big) # 0
  BY <1>1, <1>2 DEF StackRoom
<1>4. HasBig(m.r)
  BY <1>3 DEF BigR
<1>5. CASE m = Twalk
  <2>1. BigR(m, big) = 208
    BY <1>4, <1>5 DEF BigR, Walked
  <2> QED
    BY <1>1, <1>2, <2>1 DEF StackRoom
<1>6. CASE m # Twalk
  <2>1. m.r = <<"d", "B">>
    BY <1>4, <1>6, BigMessages DEF Tread, Treaddir
  <2>2. Size(m.r, StrMax) >= 11
    <3>1. Len(m.r) \in Nat /\ 1 \in Places(m.r, "d")
      BY <2>1 DEF Places
    <3>2. Count(m.r, "d") \in Nat /\ Count(m.r, "d") # 0
      BY <3>1, PlacesFinite, FS_EmptySet
    <3>3. /\ Count(m.r, "b") \in Nat /\ Count(m.r, "w") \in Nat /\ Count(m.r, "q") \in Nat
          /\ Count(m.r, "Q") \in Nat /\ Count(m.r, "s") \in Nat
      BY <3>1, PlacesFinite
    <3>4. (2 + StrMax) * Count(m.r, "s") \in Nat
      BY <3>3 DEF StrMax
    <3> QED
      BY <3>2, <3>3, <3>4 DEF Size
  <2> QED
    BY <1>1, <1>2, <2>2 DEF SizeR, StackRoom
<1> QED
  BY <1>5, <1>6

-------------------------------------------------------------------------------
(***************************************************************************)
(* Room for every message: each call on the stack would fit an idle queue, *)
(* unless it is larger than what Init9 has counted on, so the outermost,   *)
(* which finds the queue idle, is not refused.                             *)
(***************************************************************************)
Fits(c) == c.n <= BufCnt \/ c.big > Max9Of(BufCnt)

FitInv ==
  /\ TagInv
  /\ panicked \in BOOLEAN /\ Max9 <= Max9Of(BufCnt)
  /\ \A i \in 1 .. Len(calls) : Fits(calls[i])
  /\ LoneCallFits

LEMMA TransfersBounded == Max9Of(BufCnt) \in Nat /\ Page \in Nat /\ Page <= Max9Of(BufCnt)
<1>1. Page \in Nat /\ BufCnt - 5 \in Nat /\ BufCnt \in Nat
  BY TransactAssumption
<1>2. PICK j \in Nat : BufCnt - 4 = 1 + j
  <2>1. BufCnt - 4 = 1 + (BufCnt - 5)
    BY <1>1
  <2> QED
    BY <1>1, <2>1
<1>3. Page * (BufCnt - 4) = Page + Page * j /\ Page * j \in Nat
  BY <1>1, <1>2
<1> QED
  BY <1>1, <1>3 DEF Max9Of

LEMMA FitInvInit == TransactInit => FitInv
<1> SUFFICES ASSUME TransactInit
             PROVE  FitInv
  OBVIOUS
<1>1. TagInv
  BY TagInvInit
<1>2. calls = <<>> /\ panicked = FALSE /\ Max9 = Max9Of(BufCnt)
  BY DEF TransactInit
<1>3. Max9 <= Max9Of(BufCnt)
  BY <1>2, TransfersBounded
<1>4. panicked \in BOOLEAN /\ LoneCallFits
  BY <1>2 DEF LoneCallFits
<1>5. \A i \in 1 .. Len(calls) : Fits(calls[i])
  BY <1>2
<1> QED
  BY <1>1, <1>3, <1>4, <1>5 DEF FitInv

LEMMA FitInvStep ==
  ASSUME BufCnt >= 7, FitInv, [TransactNext]_tVars
  PROVE  FitInv'
<1>1. TagInv /\ TagInv'
  BY TagInvStep DEF FitInv
<1>2. /\ calls \in Seq(Call) /\ Len(calls) \in Nat /\ Max9 \in Nat /\ BufCnt \in Nat
      /\ \A i \in 1 .. Len(calls) : Fits(calls[i])
  BY <1>1, TransactAssumption DEF TagInv, CallsTyped, FitInv
<1>3. CASE \E m \in Messages, a, b, c \in Offsets : \E big \in Bigs(m) : Begin(m, a, b, c, big)
  <2>1. PICK m \in Messages, a \in Offsets, b \in Offsets, c \in Offsets : \E big \in Bigs(m) : Begin(m, a, b, c, big)
    BY <1>3
  <2>2. PICK big \in Bigs(m) : Begin(m, a, b, c, big)
    BY <2>1
  <2> DEFINE call == [msg |-> m, big |-> big, tag |-> BufCnt - freebufs,
                      n |-> Descriptors(m, a, b, c, big), sent |-> FALSE]
  <2>3. /\ calls' = Append(calls, call) /\ ~panicked /\ panicked' = panicked /\ Max9' = Max9
    BY <2>2 DEF Begin
  <2>4. Fits(call)
    <3>1. big \in Nat /\ Max9Of(BufCnt) \in Nat
      BY <1>2, TransfersBounded DEF Bigs, PathRoom, ListingRoom, CountRoom, RezTransfers
    <3>2. big <= Max9Of(BufCnt) => Descriptors(m, a, b, c, big) <= BufCnt
      BY <1>2, DescriptorsFit DEF FitInv
    <3> QED
      BY <3>1, <3>2 DEF Fits
  <2> HIDE DEF call
  <2>5. \A i \in 1 .. Len(calls') : Fits(calls'[i])
    <3>1. /\ Len(calls') = Len(calls) + 1
          /\ \A i \in 1 .. Len(calls) : calls'[i] = calls[i]
          /\ calls'[Len(calls) + 1] = call
      BY <1>2, <2>3
    <3> QED
      BY <1>2, <2>4, <3>1
  <2> QED
    BY <1>1, <2>3, <2>5 DEF FitInv, LoneCallFits
<1>4. CASE Send
  <2>1. /\ Len(calls) > 0 /\ Top = calls[Len(calls)] /\ ~Top.sent /\ Top \in Call /\ Max9' = Max9
    BY <1>2, <1>4 DEF Send, Top
  <2>2. CASE Top.n > BufCnt \/ Top.n > freebufs
    <3>1. panicked' = TRUE /\ calls' = calls
      BY <1>4, <2>2 DEF Send
    <3>2. ASSUME Len(calls) = 1, ~(Top.big > Max9Of(BufCnt)) PROVE FALSE
      <4>1. Top = calls[1] /\ calls # <<>>
        BY <2>1, <3>2
      <4>2. Top.tag = 0
        BY <1>1, <4>1 DEF TagInv, BufsCounted
      <4>3. Held(Top) = 0
        BY <2>1 DEF Held
      <4>4. BufCnt - freebufs = 0 /\ freebufs \in 0 .. BufCnt
        BY <1>1, <4>1, <4>2, <4>3, FreeOfTop DEF TagInv, CallsTyped
      <4>5. Top.n <= BufCnt /\ Top.n \in Nat
        BY <1>2, <2>1, <3>2 DEF Call, Fits
      <4> QED
        BY <1>2, <2>2, <4>4, <4>5
    <3>3. panicked' \in BOOLEAN
      BY <3>1
    <3>4. LoneCallFits'
      <4>1. Len(calls) > 1 \/ Top.big > Max9Of(BufCnt)
        <5>1. \A k \in Nat : k > 0 /\ k # 1 => k > 1
          OBVIOUS
        <5> QED
          BY <1>2, <2>1, <3>2, <5>1
      <4>2. Top' = Top
        BY <3>1 DEF Top
      <4> QED
        BY <3>1, <4>1, <4>2 DEF LoneCallFits
    <3>5. \A i \in 1 .. Len(calls') : Fits(calls'[i])
      BY <1>2, <3>1
    <3>6. Max9' <= Max9Of(BufCnt)
      BY <2>1 DEF FitInv
    <3> QED
      BY <1>1, <3>3, <3>4, <3>5, <3>6 DEF FitInv
  <2>3. CASE ~(Top.n > BufCnt \/ Top.n > freebufs)
    <3>1. panicked' = panicked /\ ~panicked /\ calls' = [calls EXCEPT ![Len(calls)].sent = TRUE]
      BY <1>4, <2>3 DEF Send
    <3>2. /\ Len(calls') = Len(calls)
          /\ \A i \in 1 .. Len(calls) : calls'[i].n = calls[i].n /\ calls'[i].big = calls[i].big
      BY <1>2, <2>1, <3>1 DEF Call
    <3>3. \A i \in 1 .. Len(calls') : Fits(calls'[i])
      BY <1>2, <3>2 DEF Fits
    <3> QED
      BY <1>1, <1>2, <2>1, <3>1, <3>3 DEF FitInv, LoneCallFits
  <2> QED
    BY <2>2, <2>3
<1>5. CASE \E err \in BOOLEAN : Answer(err)
  <2>1. PICK err \in BOOLEAN : Answer(err)
    BY <1>5
  <2>2. /\ calls' = SubSeq(calls, 1, Len(calls) - 1) /\ Len(calls) > 0 /\ ~panicked /\ panicked' = panicked
        /\ Max9' \in {Max9Of(BufCnt), Page, Max9}
    BY <1>2, <2>1 DEF Answer
  <2>3. Max9' <= Max9Of(BufCnt)
    BY <1>2, <2>2, TransfersBounded DEF FitInv
  <2>4. Len(calls') = Len(calls) - 1 /\ \A i \in 1 .. Len(calls') : calls'[i] = calls[i]
    BY <1>2, <2>2, Shortened
  <2>5. \A i \in 1 .. Len(calls') : Fits(calls'[i])
    BY <1>2, <2>4
  <2> QED
    BY <1>1, <2>2, <2>3, <2>5 DEF FitInv, LoneCallFits
<1>6. CASE UNCHANGED tVars
  BY <1>1, <1>6 DEF tVars, FitInv, LoneCallFits, Top
<1> QED
  BY <1>3, <1>4, <1>5, <1>6 DEF TransactNext

LEMMA FitInvFits ==
  ASSUME FitInv
  PROVE  MessagesFit
<1>1. calls \in Seq(Call) /\ \A i \in 1 .. Len(calls) : calls[i] \in Call
  BY DEF FitInv, TagInv, CallsTyped
<1>2. ASSUME NEW i \in 1 .. Len(calls)
      PROVE  calls[i].tag \in 0 .. BufCnt
  <2>1. calls # <<>> /\ Len(calls) \in 1 .. Len(calls) /\ Len(calls) \in Nat /\ BufCnt \in Nat
    BY <1>1, TransactAssumption
  <2>2. Top = calls[Len(calls)] /\ Top \in Call
    BY <1>1, <2>1 DEF Top
  <2>3. BufCnt - freebufs = Top.tag + Held(Top) /\ freebufs \in 0 .. BufCnt
    BY <2>1, FreeOfTop DEF FitInv, TagInv, CallsTyped
  <2>4. /\ Top.tag \in Nat /\ Held(Top) \in Nat
        /\ calls[i].tag \in Nat /\ Held(calls[i]) \in Nat
    BY <1>1, <2>2, HeldNat DEF Call
  <2>5. Top.tag <= BufCnt
    BY <2>1, <2>3, <2>4
  <2>6. CASE i = Len(calls)
    BY <2>1, <2>2, <2>4, <2>5, <2>6
  <2>7. CASE i < Len(calls)
    <3>1. calls[i].tag + Held(calls[i]) <= Top.tag
      BY <2>1, <2>2, <2>7 DEF FitInv, TagInv, TagsStacked
    <3> QED
      BY <2>1, <2>4, <2>5, <3>1
  <2> QED
    BY <2>1, <2>6, <2>7
<1>3. TransactTypeOK
  <2>1. ASSUME NEW i \in 1 .. Len(calls)
        PROVE  /\ calls[i].tag \in 0 .. BufCnt /\ calls[i].n \in Nat /\ calls[i].sent \in BOOLEAN
               /\ SizeT(calls[i].msg) <= StackRoom /\ SizeR(calls[i].msg, calls[i].big) <= StackRoom
    <3>1. calls[i] \in Call
      BY <1>1
    <3>2. calls[i].msg \in Messages /\ calls[i].big \in Nat /\ calls[i].n \in Nat
      BY <3>1 DEF Call
    <3>3. calls[i].sent \in BOOLEAN
      BY <3>1 DEF Call
    <3>4. SizeT(calls[i].msg) <= StackRoom /\ SizeR(calls[i].msg, calls[i].big) <= StackRoom
      BY <3>2, StackSizes
    <3> QED
      BY <1>2, <3>2, <3>3, <3>4
  <2>2. freebufs \in 0 .. BufCnt /\ panicked \in BOOLEAN /\ Max9 \in Nat
    BY DEF FitInv, TagInv, CallsTyped
  <2> QED
    BY <2>1, <2>2 DEF TransactTypeOK
<1>4. ErrnoFound
  <2> SUFFICES ASSUME NEW i \in 1 .. Len(calls), NEW k \in 0 .. 3,
                      ErrnoByte(calls[i].msg, calls[i].big, k)[1] = "big"
               PROVE  ErrnoByte(calls[i].msg, calls[i].big, k)[2] < BigR(calls[i].msg, calls[i].big)
    BY DEF ErrnoFound
  <2>1. calls[i].msg \in Messages /\ calls[i].big \in Nat
    BY <1>1 DEF Call
  <2> QED
    BY <2>1, ErrnoInside
<1> QED
  BY <1>3, <1>4 DEF FitInv, MessagesFit

\* Whatever the message, where its bytes lie and what nests in it, transact has
\* room for it on the stack, descriptors for it when it is alone and no larger
\* than Init9 has counted on (as every message is on a queue of 29 descriptors or
\* more), and errno within the buffers it gave the server; for a queue of seven descriptors or
\* more, as many as a walk may take, and pages of any size from 1024 bytes.
THEOREM MessagesAlwaysFit ==
  ASSUME BufCnt >= 7
  PROVE  TransactSpec => []MessagesFit
<1>1. FitInv /\ [TransactNext]_tVars => FitInv'
  BY FitInvStep
<1>2. FitInv => MessagesFit
  BY FitInvFits
<1> QED
  BY FitInvInit, <1>1, <1>2, PTL DEF TransactSpec

\* Sizes of the transfers are within what Init9 has counted on.
Counted ==
  /\ \A i \in 1 .. Len(calls) : calls[i].big <= Max9Of(BufCnt)
  /\ panicked => calls # <<>>

LEMMA CountedOn ==
  ASSUME BufCnt >= 29, Page >= 4096
  PROVE  Max9Of(BufCnt) \in Nat /\ Max9Of(BufCnt) >= ListingRoom
<1>1. Page \in Nat /\ BufCnt \in Nat
  BY TransactAssumption
<1>2. PICK j \in Nat : BufCnt - 4 = 25 + j
  <2>1. BufCnt - 29 \in Nat /\ BufCnt - 4 = 25 + (BufCnt - 29)
    BY <1>1
  <2> QED
    BY <2>1
<1>3. Page * (25 + j) = Page * 25 + Page * j /\ Page * j \in Nat /\ Page * 25 >= 102400
  BY <1>1, <1>2
<1> QED
  BY <1>1, <1>2, <1>3, TransfersBounded DEF Max9Of, ListingRoom

\* With 29 descriptors or more, and pages of 4096 bytes, even the transfers that
\* no caller cuts to Max9 fit, a listing's among them: the only call of transact
\* that can panic for want of descriptors is one made while another waits.
THEOREM ListingsFit ==
  ASSUME BufCnt >= 29, Page >= 4096
  PROVE  TransactSpec => [](panicked => Len(calls) > 1)
<1> DEFINE LoneInv == FitInv /\ Counted
<1>1. TransactInit => LoneInv
  BY FitInvInit DEF TransactInit, Counted
<1>2. ASSUME LoneInv, [TransactNext]_tVars PROVE LoneInv'
  <2>1. FitInv' /\ calls \in Seq(Call) /\ Len(calls) \in Nat
    BY <1>2, FitInvStep, TransactAssumption DEF FitInv, TagInv, CallsTyped
  <2>2. Max9 \in Nat /\ Max9 <= Max9Of(BufCnt) /\ Max9Of(BufCnt) \in Nat /\ Max9Of(BufCnt) >= ListingRoom
    BY <1>2, CountedOn DEF FitInv, TagInv, CallsTyped
  <2>3. ASSUME NEW m \in Messages, NEW a \in Offsets, NEW b \in Offsets, NEW c \in Offsets,
               NEW big \in Bigs(m), Begin(m, a, b, c, big)
        PROVE  Counted'
    <3> DEFINE call == [msg |-> m, big |-> big, tag |-> BufCnt - freebufs,
                        n |-> Descriptors(m, a, b, c, big), sent |-> FALSE]
    <3>1. big <= Max9Of(BufCnt)
      BY <2>2 DEF Bigs, PathRoom, ListingRoom, CountRoom, RezTransfers
    <3>2. calls' = Append(calls, call) /\ call.big = big
      BY <2>3 DEF Begin
    <3> HIDE DEF call
    <3>3. /\ Len(calls') = Len(calls) + 1
          /\ \A i \in 1 .. Len(calls) : calls'[i] = calls[i]
          /\ calls'[Len(calls) + 1] = call
      BY <2>1, <3>2
    <3> QED
      BY <1>2, <2>1, <3>1, <3>2, <3>3 DEF Counted
  <2>4. ASSUME Send PROVE Counted'
    <3>1. Len(calls) > 0 /\ Len(calls) \in 1 .. Len(calls)
      BY <2>1, <2>4 DEF Send
    <3>2. calls' = calls \/ calls' = [calls EXCEPT ![Len(calls)].sent = TRUE]
      BY <2>4 DEF Send
    <3>3. Len(calls') = Len(calls) /\ \A i \in 1 .. Len(calls) : calls'[i].big = calls[i].big
      <4>1. CASE calls' = calls
        BY <4>1
      <4>2. CASE calls' = [calls EXCEPT ![Len(calls)].sent = TRUE]
        BY <2>1, <3>1, <4>2 DEF Call
      <4> QED
        BY <3>2, <4>1, <4>2
    <3>4. calls' # <<>>
      BY <2>1, <3>1, <3>3
    <3>5. \A i \in 1 .. Len(calls') : calls'[i].big <= Max9Of(BufCnt)
      BY <1>2, <3>3 DEF Counted
    <3> QED
      BY <3>4, <3>5 DEF Counted
  <2>5. ASSUME NEW err \in BOOLEAN, Answer(err) PROVE Counted'
    <3>1. calls' = SubSeq(calls, 1, Len(calls) - 1) /\ Len(calls) > 0 /\ ~panicked'
      BY <2>1, <2>5 DEF Answer
    <3>2. Len(calls') = Len(calls) - 1 /\ \A i \in 1 .. Len(calls') : calls'[i] = calls[i]
      BY <2>1, <3>1, Shortened
    <3>3. \A i \in 1 .. Len(calls') : calls'[i].big <= Max9Of(BufCnt)
      BY <1>2, <2>1, <3>2 DEF Counted
    <3>4. panicked' \in BOOLEAN
      BY <2>1 DEF FitInv
    <3> QED
      BY <3>1, <3>3, <3>4 DEF Counted
  <2>6. CASE UNCHANGED tVars
    <3>1. calls' = calls /\ panicked' = panicked
      BY <2>6 DEF tVars
    <3>2. Counted' = Counted
      BY <3>1 DEF Counted
    <3> QED
      BY <1>2, <2>1, <3>2
  <2> QED
    BY <1>2, <2>1, <2>3, <2>4, <2>5, <2>6 DEF TransactNext
<1>3. LoneInv => (panicked => Len(calls) > 1)
  <2> SUFFICES ASSUME FitInv, Counted, panicked PROVE Len(calls) > 1
    OBVIOUS
  <2>1. calls \in Seq(Call) /\ Max9Of(BufCnt) \in Nat /\ LoneCallFits
    BY CountedOn DEF FitInv, TagInv, CallsTyped
  <2>2. calls # <<>>
    BY DEF Counted
  <2>3. Len(calls) > 1
    <3>1. Len(calls) \in 1 .. Len(calls) /\ Top = calls[Len(calls)] /\ Top \in Call
      BY <2>1, <2>2 DEF Top
    <3>2. Top.big \in Nat /\ Top.big <= Max9Of(BufCnt)
      BY <3>1 DEF Counted, Call
    <3> QED
      BY <2>1, <3>2 DEF LoneCallFits
  <2> QED
    BY <2>3
<1> QED
  BY <1>1, <1>2, <1>3, PTL DEF TransactSpec
===============================================================================
