-------------------------------- MODULE Buf9 --------------------------------
(***************************************************************************)
(* Buffered reading and writing of a file (9buf.c).  The caller borrows a  *)
(* pointer into the buffer with at least min bytes behind it and gives it  *)
(* back, moved over what it has consumed or produced.                      *)
(*                                                                         *)
(* The file read holds at each byte the byte's position; what is written   *)
(* is numbered as it is produced.  Nul is the byte that ends a file.       *)
(***************************************************************************)
EXTENDS Integers, Sequences
LOCAL INSTANCE SequencesExt

CONSTANTS
  rbufsize, wbufsize,
  Lengths,     \* lengths of the file read
  Mins,        \* what the caller asks for at a time
  MaxProduced  \* bound on what is written

\* No caller asks for more than the buffer is long.
ASSUME BufAssumption ==
  /\ rbufsize \in Nat \ {0} /\ wbufsize \in Nat \ {0}
  /\ Lengths \subseteq Nat /\ Mins \subseteq 1 .. rbufsize /\ MaxProduced \in Nat

VARIABLES
  size,        \* of the file read, -1 until SetRead
  rbuf,        \* cells of the buffer, from 1
  rbufat,      \* position of the file at the buffer's start, Poison at first
  rseek,
  rborrow,     \* the cell of the pointer given out, 0 if none
  rgot,        \* the caller's pointer and what it may look at: [at, min]
  wfile,       \* the file written
  wbuf, wbufat, wseek,
  wborrow,     \* [at, made]: the pointer lent and what was put there since
  produced     \* all that was written, as the caller sees it

rVars == <<size, rbuf, rbufat, rseek, rborrow, rgot>>
wVars == <<wfile, wbuf, wbufat, wseek, wborrow, produced>>
bufVars == <<rVars, wVars>>

Poison   == -1 - rbufsize    \* for INT32_MIN: a buffer from there on would not reach the file
Nul      == -1
Leftover == -2

NotLent == [at |-> 0, min |-> 0]

(***************************************************************************)
(* Reading.                                                                *)
(***************************************************************************)
\* Cells as Read9 leaves them: get bytes of the file from offset on, then the
\* nul if the file has ended, then what was there.
Gotten(cells, first, offset, get) ==
  LET gotten == IF offset >= size THEN 0 ELSE IF size - offset < get THEN size - offset ELSE get
  IN  [i \in 1 .. rbufsize |->
         IF i >= first /\ i < first + gotten THEN offset + i - first
         ELSE IF i = first + gotten /\ gotten < get THEN Nul ELSE cells[i]]

SetRead(s) ==
  /\ size = -1
  /\ size' = s
  /\ rbuf' = [i \in 1 .. rbufsize |-> Leftover] /\ rbufat' = Poison /\ rseek' = 0 /\ rborrow' = 0
  /\ rgot' = NotLent
  /\ UNCHANGED wVars

\* RSeek, only when nothing is lent.
RSeek(to) ==
  /\ size # -1 /\ rborrow = 0
  /\ rseek' = to
  /\ UNCHANGED <<size, rbuf, rbufat, rborrow, rgot, wVars>>

\* Faulty variant: the rest is read from after what was not kept.
RefillFarWrong(at, min) ==
  LET first == rbufat <= at /\ at < rbufat + rbufsize
      last  == rbufat <= at + min - 1 /\ at + min - 1 < rbufat + rbufsize
      keep  == IF first THEN rbufat + rbufsize - at ELSE at + rbufsize - rbufat
      get   == IF first \/ last THEN rbufsize - keep ELSE rbufsize
      moved == [i \in 1 .. rbufsize |->
                  IF first /\ i <= keep THEN rbuf[i + get]
                  ELSE IF ~first /\ last /\ i > get THEN rbuf[i - get] ELSE rbuf[i]]
  IN  IF first THEN Gotten(moved, keep + 1, at + get, get) ELSE Gotten(moved, 1, at, get)

\* The buffer for the position `at`: what it has of it is moved, to lower
\* addresses if its first byte is there, to higher if its last, and the rest read.
Refill(at, min) ==
  LET first == rbufat <= at /\ at < rbufat + rbufsize
      last  == rbufat <= at + min - 1 /\ at + min - 1 < rbufat + rbufsize
      keep  == IF first THEN rbufat + rbufsize - at ELSE at + rbufsize - rbufat
      get   == IF first \/ last THEN rbufsize - keep ELSE rbufsize
      moved == [i \in 1 .. rbufsize |->
                  IF first /\ i <= keep THEN rbuf[i + get]
                  ELSE IF ~first /\ last /\ i > get THEN rbuf[i - get] ELSE rbuf[i]]
  IN  IF first THEN Gotten(moved, keep + 1, at + keep, get) ELSE Gotten(moved, 1, at, get)

InBuffer(at, min) == rbufat <= at /\ at + min - 1 < rbufat + rbufsize

\* RBuffer with a pointer to give back, used bytes on from the one it gave, or
\* with none (used is then 0); min is 0 to give it back for good.
RBuffer(used, min) ==
  /\ size # -1
  /\ IF rborrow # 0 /\ min # 0 /\ rgot.at + used + min <= rbufsize + 1
       THEN rgot' = [at |-> rgot.at + used, min |-> min] /\ UNCHANGED <<rbuf, rbufat, rseek, rborrow>>
       ELSE \E at \in {IF rborrow # 0 THEN rseek + rgot.at + used - rborrow ELSE rseek} :
              /\ rseek' = at
              /\ IF min = 0
                   THEN rborrow' = 0 /\ rgot' = NotLent /\ UNCHANGED <<rbuf, rbufat>>
                 ELSE IF InBuffer(at, min)
                   THEN /\ rborrow' = 1 + at - rbufat /\ rgot' = [at |-> 1 + at - rbufat, min |-> min]
                        /\ UNCHANGED <<rbuf, rbufat>>
                 ELSE /\ rbuf' = Refill(at, min) /\ rbufat' = at
                      /\ rborrow' = 1 /\ rgot' = [at |-> 1, min |-> min]
  /\ UNCHANGED <<size, wVars>>

(***************************************************************************)
(* Writing.                                                                *)
(***************************************************************************)
\* The file after Write9: bytes past its end that nothing was written to are nul.
Written(file, at, cells) ==
  LET n == IF at + Len(cells) > Len(file) THEN at + Len(cells) ELSE Len(file)
  IN  [i \in 1 .. n |-> IF i > at /\ i <= at + Len(cells) THEN cells[i - at]
                        ELSE IF i <= Len(file) THEN file[i] ELSE Nul]

\* WFlush, with so much produced.
Flush(seek) ==
  /\ wfile' = IF seek > wbufat THEN Written(wfile, wbufat, SubSeq(wbuf, 1, seek - wbufat)) ELSE wfile
  /\ wbufat' = seek

NothingLent == [at |-> 0, made |-> 0]

\* The caller fills made more bytes of what it has been lent.
Produce(made) ==
  /\ wborrow.at # 0 /\ Len(produced) + made <= MaxProduced
  /\ wborrow.at + wborrow.made + made <= wbufsize + 1
  /\ wbuf' = [i \in 1 .. wbufsize |->
                IF i >= wborrow.at + wborrow.made /\ i < wborrow.at + wborrow.made + made
                  THEN Len(produced) + i - wborrow.at - wborrow.made ELSE wbuf[i]]
  /\ produced' = produced \o [i \in 1 .. made |-> Len(produced) + i - 1]
  /\ wborrow' = [wborrow EXCEPT !.made = @ + made]
  /\ UNCHANGED <<rVars, wfile, wbufat, wseek>>

\* WBuffer: on in the same buffer if there is room, else flushed; min is 0 to
\* give the pointer back for good.
WBuffer(min) ==
  /\ IF wborrow.at # 0 /\ min # 0 /\ wborrow.at + wborrow.made + min <= wbufsize + 1
       THEN UNCHANGED <<wfile, wbufat, wseek, wborrow>>
       ELSE /\ wseek' = wseek + wborrow.made
            /\ IF min = 0 THEN wborrow' = NothingLent /\ UNCHANGED <<wfile, wbufat>>
               ELSE IF wseek' + min < wbufat + wbufsize
                 THEN wborrow' = [at |-> 1 + wseek' - wbufat, made |-> 0] /\ UNCHANGED <<wfile, wbufat>>
               ELSE wborrow' = [at |-> 1, made |-> 0] /\ Flush(wseek')
  /\ UNCHANGED <<rVars, wbuf, produced>>

WFlush ==
  /\ wborrow.at = 0 /\ Flush(wseek)
  /\ UNCHANGED <<rVars, wbuf, wseek, wborrow, produced>>

New(at, cnt) == [i \in 1 .. cnt |-> 100 + at + i]

\* Rewrite, of bytes produced before: in the buffer, and in the file too unless
\* all of them are in the buffer.
Rewrite(at, cnt) ==
  /\ wborrow.at = 0 /\ at + cnt <= wseek
  /\ wbuf' = [i \in 1 .. wbufsize |->
                IF wbufat + i - 1 >= at /\ wbufat + i - 1 < at + cnt /\ wbufat + i - 1 < wseek
                  THEN New(at, cnt)[wbufat + i - at] ELSE wbuf[i]]
  /\ wfile' = IF at >= wbufat THEN wfile ELSE Written(wfile, at, New(at, cnt))
  /\ produced' = Written(produced, at, New(at, cnt))
  /\ UNCHANGED <<rVars, wbufat, wseek, wborrow>>

BufInit ==
  /\ size = -1 /\ rbuf = <<>> /\ rbufat = Poison /\ rseek = 0 /\ rborrow = 0 /\ rgot = NotLent
  /\ wfile = <<>> /\ wbuf = [i \in 1 .. wbufsize |-> Leftover] /\ wbufat = 0 /\ wseek = 0
  /\ wborrow = NothingLent /\ produced = <<>>

\* A caller consumes no more than it asked for; to look on it asks for more.
ReadNext ==
  \/ \E s \in Lengths : SetRead(s)
  \/ \E to \in 0 .. size : RSeek(to)
  \/ \E used \in 0 .. rgot.min, min \in {0} \cup Mins :
       rseek + rgot.at + used - rborrow <= size /\ RBuffer(used, min)

WriteNext ==
  \/ \E made \in Mins : Produce(made)
  \/ \E min \in {0} \cup Mins : WBuffer(min)
  \/ WFlush
  \/ \E at \in 0 .. wseek, cnt \in Mins : Rewrite(at, cnt)

\* One file is read and another written: neither touches the other's buffer.
BufNext == (produced = <<>> /\ wborrow = NothingLent /\ ReadNext) \/ (size = -1 /\ WriteNext)

BufSpec == BufInit /\ [][BufNext]_bufVars

(***************************************************************************)
(* Properties.                                                             *)
(***************************************************************************)
\* What the caller may look at is the file from where it is, and a nul where
\* the file ends, whichever part of it the buffer had and however it was moved.
ReadsTrue ==
  rborrow # 0 =>
    \A i \in 0 .. rgot.min - 1 :
      LET pos == rseek + rgot.at - rborrow + i
      IN  /\ pos < size => rbuf[rgot.at + i] = pos
          /\ pos = size => rbuf[rgot.at + i] = Nul

\* The file with what is still in the buffer is what was produced, changes to
\* earlier bytes included.
WritesTrue ==
  Written(wfile, wbufat, SubSeq(wbuf, 1, wseek + wborrow.made - wbufat)) = produced

\* Both buffers are invisible: the caller deals with the file, whatever part of
\* it is in memory.
BuffersTrue == ReadsTrue /\ WritesTrue
=============================================================================
