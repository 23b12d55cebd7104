------------------------------ MODULE Transact9 ------------------------------
(***************************************************************************)
(* Transactions of the 9P client (9p.c).  A message is put together on the *)
(* stack, its memory is cut into pages, and QSend waits for the answer.    *)
(* While a call waits, or before, an interrupt may make another, which     *)
(* ends first: the calls are a stack.                                      *)
(*                                                                         *)
(* A message is the letters of its format strings: b, w, d and q are       *)
(* numbers of 1, 2, 4 and 8 bytes, s a string, Q a qid, B a large buffer.  *)
(***************************************************************************)
EXTENDS Integers, Sequences, FiniteSets

CONSTANTS
  BufCnt,     \* bufs, as given to Init9: descriptors of the queue, at most 256
  Page,       \* 4096
  Offsets,    \* offsets in a page at which the arrays may begin
  MaxName,    \* longest name: MAXNAME with a sidecar's suffix is 106 bytes
  MaxDepth    \* bound on the depth of nesting

ASSUME TransactAssumption ==
  /\ BufCnt \in 5 .. 256 /\ Offsets \subseteq 0 .. Page - 1 /\ MaxDepth \in Nat
  /\ Page \in Nat /\ Page >= 1024 /\ MaxName \in 0 .. 106

VARIABLES
  calls,      \* the calls of transact, the innermost last
  freebufs,
  Max9,       \* the largest transfer, as the server wants it
  panicked

tVars == <<calls, freebufs, Max9, panicked>>

(***************************************************************************)
(* The messages: what each function gives to transact.                     *)
(***************************************************************************)
Tversion     == [t |-> <<"d", "s">>, r |-> <<"d", "s">>]
Tattach      == [t |-> <<"d", "d", "s", "s", "d">>, r |-> <<"Q">>]
Tstatfs      == [t |-> <<"d">>, r |-> <<"d", "d", "q", "q", "q", "q", "q", "q", "d">>]
Twalk        == [t |-> <<"d", "d", "w", "B">>, r |-> <<"w", "B">>]
Tlopen       == [t |-> <<"d", "d">>, r |-> <<"Q", "d">>]
Tlcreate     == [t |-> <<"d", "s", "d", "d", "d">>, r |-> <<"Q", "d">>]
Txattrwalk   == [t |-> <<"d", "d", "s">>, r |-> <<"q">>]
Txattrcreate == [t |-> <<"d", "s", "q", "d">>, r |-> <<>>]
Tremove      == [t |-> <<"d">>, r |-> <<>>]
Tunlinkat    == [t |-> <<"d", "s", "d">>, r |-> <<>>]
Trenameat    == [t |-> <<"d", "s", "d", "s">>, r |-> <<>>]
Tmkdir       == [t |-> <<"d", "s", "d", "d">>, r |-> <<"Q">>]
Treaddir     == [t |-> <<"d", "q", "d">>, r |-> <<"d", "B">>]
Tgetattr     == [t |-> <<"d", "q">>, r |-> <<"q", "Q", "d", "d", "d", "q", "q", "q", "q", "q",
                                                  "q", "q", "q", "q", "q", "q", "q", "q", "q", "q">>]
Tsetattr     == [t |-> <<"d", "d", "d", "d", "d", "q", "q", "q", "q", "q">>, r |-> <<>>]
Tclunk       == [t |-> <<"d">>, r |-> <<>>]
Tread        == [t |-> <<"d", "q", "d">>, r |-> <<"d", "B">>]
Twrite       == [t |-> <<"d", "q", "d", "B">>, r |-> <<"d">>]
Tfsync       == [t |-> <<"d">>, r |-> <<>>]
Tlock        == [t |-> <<"d", "b", "d", "q", "q", "d", "s">>, r |-> <<"b">>]

Messages == {Tversion, Tattach, Tstatfs, Twalk, Tlopen, Tlcreate, Txattrwalk, Txattrcreate,
             Tremove, Tunlinkat, Trenameat, Tmkdir, Treaddir, Tgetattr, Tsetattr, Tclunk,
             Tread, Twrite, Tfsync, Tlock}

(***************************************************************************)
(* Sizes.                                                                  *)
(***************************************************************************)
StackRoom == 256    \* of t and of r
StrMax    == 127    \* STRMAX
Walked    == 16 * 13 \* qids of Walk9 and WalkPath9
PathRoom  == 1024   \* their path and packed

Count(fmt, letter) == Cardinality({i \in 1 .. Len(fmt) : fmt[i] = letter})

\* Bytes on the stack, the header's seven included, of a message whose strings
\* are str long.
Size(fmt, str) == 7 + Count(fmt, "b") + 2 * Count(fmt, "w") + 4 * Count(fmt, "d") + 8 * Count(fmt, "q")
                    + 13 * Count(fmt, "Q") + (2 + str) * Count(fmt, "s")

HasBig(fmt) == \E i \in 1 .. Len(fmt) : fmt[i] = "B"

SizeT(m) == Size(m.t, MaxName)

\* The bytes of the large buffers.  A walk has two: its path, of so many bytes,
\* and the qids.
BigT(m, big) == IF HasBig(m.t) THEN big ELSE 0
BigR(m, big) == IF ~HasBig(m.r) THEN 0 ELSE IF m = Twalk THEN Walked ELSE big

\* With room for Rlerror, unless there is a large buffer to hold the rest of it.
SizeR(m, big) ==
  IF Size(m.r, StrMax) < 11 /\ BigR(m, big) = 0 THEN 11 ELSE Size(m.r, StrMax)

\* The byte of r, or of the large buffer after it, that errno's byte i is read from.
ErrnoByte(m, big, i) == IF 7 + i < SizeR(m, big) THEN <<"r", 7 + i>> ELSE <<"big", 7 + i - SizeR(m, big)>>

\* Pages touched by so many bytes at an offset: LockMemory, GetPhysical.
Extents(offset, bytes) == IF bytes = 0 THEN 0 ELSE ((offset % Page) + bytes - 1) \div Page + 1

\* The descriptors of a message whose t is at offset a, with r after it, and
\* whose large buffers are at offsets b and c.
Descriptors(m, a, b, c, big) ==
  Extents(a, SizeT(m)) + Extents(b, BigT(m, big))
    + Extents(a + StackRoom, SizeR(m, big)) + Extents(c, BigR(m, big))

\* Faulty variant: only t and r themselves are left room for.
Max9TwoSpare(bufs) == Page * (bufs - 2)

\* What Init9 asks for.
Max9Of(bufs) == Page * (bufs - 4)

(***************************************************************************)
(* transact.                                                               *)
(***************************************************************************)
Top == calls[Len(calls)]

\* The message is put together, with its tag: an approximation of the depth.
Begin(m, a, b, c, big) ==
  /\ ~panicked /\ Len(calls) < MaxDepth
  /\ calls' = Append(calls, [msg |-> m, big |-> big, tag |-> BufCnt - freebufs,
                             n |-> Descriptors(m, a, b, c, big), sent |-> FALSE])
  /\ UNCHANGED <<freebufs, Max9, panicked>>

\* Faulty variant: the buffers are taken from freebufs as they come back.
SendUncounted ==
  /\ ~panicked /\ calls # <<>> /\ ~Top.sent
  /\ IF Top.n > BufCnt \/ Top.n > freebufs
       THEN panicked' = TRUE /\ UNCHANGED <<calls, freebufs>>
       ELSE /\ calls' = [calls EXCEPT ![Len(calls)].sent = TRUE]
            /\ UNCHANGED <<freebufs, panicked>>
  /\ UNCHANGED Max9

\* "Too discontiguous" is a panic, and so is QSend without enough descriptors.
Send ==
  /\ ~panicked /\ calls # <<>> /\ ~Top.sent
  /\ IF Top.n > BufCnt \/ Top.n > freebufs
       THEN panicked' = TRUE /\ UNCHANGED <<calls, freebufs>>
       ELSE /\ calls' = [calls EXCEPT ![Len(calls)].sent = TRUE]
            /\ freebufs' = freebufs - Top.n
            /\ UNCHANGED panicked
  /\ UNCHANGED Max9

\* Faulty variant: a call that failed does not give back its buffers.
AnswerErrorKeeps(err) ==
  /\ ~panicked /\ calls # <<>> /\ Top.sent
  /\ calls' = SubSeq(calls, 1, Len(calls) - 1)
  /\ freebufs' = IF err THEN freebufs ELSE freebufs + Top.n
  /\ Max9' \in IF Top.msg = Tversion /\ ~err THEN {Max9Of(BufCnt), Page} ELSE {Max9}
  /\ UNCHANGED panicked

\* The answer, an Rlerror or not; the server may want a smaller Max9.
Answer(err) ==
  /\ ~panicked /\ calls # <<>> /\ Top.sent
  /\ calls' = SubSeq(calls, 1, Len(calls) - 1)
  /\ freebufs' = freebufs + Top.n
  /\ Max9' \in IF Top.msg = Tversion /\ ~err THEN {Max9Of(BufCnt), Page} ELSE {Max9}
  /\ UNCHANGED panicked

\* Large buffers that no caller cuts to Max9: of the listing and the count of a
\* directory, and of Rez and DeRez, who read a resource map in one piece.
ListingRoom  == 100000
CountRoom    == 40000
RezTransfers == {8 * 1024, 32 * 1024, 64 * 1024}

\* The transfers: fsRead and fsWrite ask for Max9 at most.
Bigs(m) ==
  CASE m = Twalk -> {0, PathRoom}
    [] m = Treaddir -> {CountRoom, ListingRoom}
    [] m \in {Tread, Twrite} -> {0, 1, Max9} \cup RezTransfers
    [] OTHER -> {0}

TransactInit == calls = <<>> /\ freebufs = BufCnt /\ Max9 = Max9Of(BufCnt) /\ panicked = FALSE

TransactNext ==
  \/ \E m \in Messages, a, b, c \in Offsets : \E big \in Bigs(m) : Begin(m, a, b, c, big)
  \/ Send
  \/ \E err \in BOOLEAN : Answer(err)

TransactSpec == TransactInit /\ [][TransactNext]_tVars

(***************************************************************************)
(* Properties.                                                             *)
(***************************************************************************)
Held(c) == IF c.sent THEN c.n ELSE 0

TransactTypeOK ==
  /\ freebufs \in 0 .. BufCnt /\ panicked \in BOOLEAN /\ Max9 \in Nat
  /\ \A i \in 1 .. Len(calls) :
       /\ calls[i].tag \in 0 .. BufCnt /\ calls[i].n \in Nat /\ calls[i].sent \in BOOLEAN
       /\ SizeT(calls[i].msg) <= StackRoom /\ SizeR(calls[i].msg, calls[i].big) <= StackRoom

\* No two messages that the server has at the same time bear the same tag,
\* although the tag is made before the buffers are taken and an interrupt may
\* come in between (transact).
TagsDiffer ==
  \A i, j \in 1 .. Len(calls) : i < j /\ calls[i].sent /\ calls[j].sent => calls[i].tag < calls[j].tag

\* The buffers of the calls that wait are accounted for; with none waiting all
\* are free again.
BufsCounted ==
  /\ calls # <<>> => calls[1].tag = 0
  /\ \A i \in 1 .. Len(calls) - 1 : calls[i + 1].tag = calls[i].tag + Held(calls[i])
  /\ freebufs = BufCnt - (IF calls = <<>> THEN 0 ELSE Top.tag + Held(Top))

\* A transfer of as many bytes as Init9 asks for, at any address, fits the queue.
\* A message panics only if it is sent while others wait, or is one of those that
\* no caller cuts to Max9, with a queue too short for it: listing a directory
\* can panic on a queue of fewer than 29 descriptors, and does on one of 8.
LoneCallFits == panicked => Len(calls) > 1 \/ Top.big > Max9Of(BufCnt)

\* The four bytes of an error are where the server put them, in r or across its
\* end in the large buffer, never beyond both.
ErrnoFound ==
  \A i \in 1 .. Len(calls) : \A k \in 0 .. 3 :
    LET c == calls[i]
        byte == ErrnoByte(c.msg, c.big, k)
    IN  byte[1] = "big" => byte[2] < BigR(c.msg, c.big)

\* Whatever the message, where its bytes lie and what nests in it, it and its
\* answer have room on the stack and for an error, and the descriptors that Init9
\* has counted on, unless it is larger than what Init9 has counted on.
MessagesFit == TransactTypeOK /\ LoneCallFits /\ ErrnoFound
=============================================================================
