---------------------------- MODULE Forks_proofs ----------------------------
(***************************************************************************)
(* Proofs about the forks of a file, for any number of files, names and    *)
(* times: that what was written is found again, whichever calls, edits by  *)
(* the host and crashes there are (ForkCache), that a sidecar stays with its *)
(* file (Sidecars) and keeps the Finder's information (FinderInfo), and that *)
(* buffers are not seen (Buf9).                                            *)
(***************************************************************************)
EXTENDS ForkCache, Sidecars, FinderInfo, Buf9, SequenceTheorems, TLAPS

-----------------------------------------------------------------------------
(***************************************************************************)
(* ForkCache, for any number of names and any clock.                       *)
(***************************************************************************)

Clock0   == 0 .. MaxClock
TextType == [there : BOOLEAN, ver : Clock0, time : Clock0, whole : {TRUE}]

Pushing  == {"push", "derez", "rename", "record", "unlink"}
Phases   == {"idle", "pull", "rez", "movetext", "deltext"} \cup Pushing
WorkType == [pc : Phases, then : {"stat", "open", "seteof", "close", "rename", "catmove"},
             seen : TextType, from : FileNames \cup {Gone}]

ForkTypes ==
  /\ fname \in FileNames \cup {Gone} /\ knownAt \in FileNames
  /\ rdump \in [FileNames -> TextType]
  /\ cached \in [ver : Clock0, empty : BOOLEAN, bare : BOOLEAN]
  /\ rezstat \in [there : BOOLEAN, time : Clock0]
  /\ opened \in [open : BOOLEAN, dirty : BOOLEAN] /\ (opened.dirty => opened.open)
  /\ clock \in Clock0
  /\ work \in WorkType
  /\ owed \in [ver : Clock0, empty : BOOLEAN] /\ parted \in BOOLEAN

\* No two texts have a time in common, nor does a text that is yet to be put in
\* place; all were made at a time that has been.
TimesApart ==
  /\ \A n \in FileNames :
       /\ rdump[n].ver <= clock /\ rdump[n].time <= clock
       /\ rdump[n].there => rdump[n].ver > 0 /\ rdump[n].time > 0
  /\ \A m, n \in FileNames : rdump[m].there /\ rdump[n].there /\ rdump[m].time = rdump[n].time => m = n
  /\ cached.ver <= clock /\ owed.ver <= clock /\ rezstat.time <= clock
  /\ ~cached.empty => cached.ver > 0
  /\ work.pc \in {"rez", "rename", "record"} =>
       /\ work.seen.there /\ work.seen.time > 0 /\ work.seen.time <= clock
       /\ work.seen.ver > 0 /\ work.seen.ver <= clock
       /\ \A n \in FileNames : rdump[n].there /\ rdump[n].time = work.seen.time =>
            work.pc # "rename" /\ rdump[n] = work.seen /\ (work.pc = "rez" => n = fname)

\* What a call in progress has found or done.
CallsGo ==
  /\ work.pc \notin {"idle", "deltext"} => fname # Gone
  /\ work.pc \in {"movetext", "deltext"} <=> work.from # Gone
  /\ work.pc \in {"movetext", "deltext"} => work.from # fname
  /\ work.pc = "deltext" => fname = Gone
  /\ work.pc \in {"pull", "rez", "deltext"} \/ fname = Gone => ~opened.open
  /\ work.pc \in Pushing => opened.open /\ ~opened.dirty
  /\ work.pc = "unlink" => cached.empty /\ rezstat.time = 0
  /\ work.pc \in {"derez", "rename", "record"} => ~cached.empty
  /\ work.pc \in {"rename", "record"} => work.seen.ver = cached.ver

\* The record names no text that the cache is not of.
RecordTrue ==
  work.pc \notin Pushing /\ ~opened.dirty /\ ~cached.bare /\ rezstat.there =>
    /\ rezstat.time = 0 => cached.empty
    /\ \A n \in FileNames : rdump[n].there /\ rdump[n].time = rezstat.time => rdump[n].ver = cached.ver

\* A text, or none, in which what was made safe is.
Holds(t, o) ==
  \/ t.ver >= o.ver /\ (t.ver = o.ver => t.there = ~o.empty)
  \/ ~t.there /\ o.empty

OwedSafe ==
  ~parted =>
    /\ work.pc # "movetext" /\ fname # Gone => Holds(rdump[fname], owed)
    /\ work.pc = "movetext" => Holds(rdump[work.from], owed)
    /\ work.pc = "idle" /\ fname = Gone => owed = [ver |-> 0, empty |-> TRUE]

ForkInv == ForkTypes /\ TimesApart /\ CallsGo /\ RecordTrue /\ OwedSafe

\* Of the value of work between calls, and of a text that is not there.
LEMMA RestFacts ==
  /\ AtRest.pc = "idle" /\ AtRest.seen = NoText /\ AtRest.from = Gone
  /\ AtRest \in WorkType
  /\ NoText \in TextType /\ NoText.there = FALSE /\ NoText.ver = 0
  /\ \A w \in WorkType : w.pc \in Phases /\ w.seen \in TextType /\ w.from \in FileNames \cup {Gone}
  /\ \A q \in Phases, a \in {"stat", "open", "seteof", "close", "rename", "catmove"}, f \in FileNames \cup {Gone} :
       LET w == [AtRest EXCEPT !.pc = q, !.then = a, !.from = f] IN w \in WorkType /\ w.pc = q /\ w.from = f /\ w.then = a
<1>1. MaxClock \in Nat
  BY ForkAssumption
<1>2. NoText \in TextType /\ NoText.there = FALSE /\ NoText.ver = 0
  BY <1>1 DEF NoText, TextType, Clock0
<1>3. "idle" \in Phases
  BY DEF Phases
<1> HIDE DEF NoText, TextType, Phases
<1> QED
  BY <1>2, <1>3 DEF AtRest, WorkType

\* Of an FCB that is closed, and of one that has just been opened.
LEMMA CloseFacts ==
  /\ Closed \in [open : BOOLEAN, dirty : BOOLEAN] /\ Closed.open = FALSE /\ Closed.dirty = FALSE
  /\ [Closed EXCEPT !.open = TRUE] \in [open : BOOLEAN, dirty : BOOLEAN]
  /\ [Closed EXCEPT !.open = TRUE].open = TRUE /\ [Closed EXCEPT !.open = TRUE].dirty = FALSE
  BY DEF Closed

\* statResourceFork: a fork found up to date is opened or not, or a pull begins.
LEMMA StatForkKeeps ==
  ASSUME ForkInv, NEW then \in {"stat", "open"}, StatFork(then)
  PROVE  ForkInv'
<1>1. /\ fname' = fname /\ knownAt' = fname /\ rdump' = rdump /\ cached' = cached /\ rezstat' = rezstat /\ clock' = clock
      /\ owed' = owed /\ parted' = parted /\ work.pc = "idle" /\ fname # Gone
      /\ then = "open" => ~opened.open
  BY DEF StatFork, Starting
<1>2. ForkTypes /\ TimesApart /\ CallsGo /\ RecordTrue /\ OwedSafe
  BY DEF ForkInv
<1>3. CASE work' = work /\ UpToDate(then)
  <2>1. /\ opened' \in [open : BOOLEAN, dirty : BOOLEAN] /\ (opened'.dirty => opened'.open)
        /\ opened'.dirty = opened.dirty
    <3>1. CASE then = "open"
      <4>1. opened' = [Closed EXCEPT !.open = TRUE] /\ opened.dirty = FALSE
        BY <1>1, <1>2, <1>3, <3>1 DEF UpToDate, ForkTypes
      <4> QED
        BY <4>1, CloseFacts
    <3>2. CASE then # "open"
      BY <1>2, <1>3, <3>2 DEF UpToDate, ForkTypes
    <3> QED
      BY <3>1, <3>2
  <2>2. ForkTypes'
    BY <1>1, <1>2, <1>3, <2>1 DEF ForkTypes
  <2>3. TimesApart'
    BY <1>1, <1>2, <1>3 DEF TimesApart
  <2>4. CallsGo'
    BY <1>1, <1>2, <1>3, <2>1 DEF CallsGo, Pushing
  <2>5. RecordTrue'
    BY <1>1, <1>2, <1>3, <2>1 DEF RecordTrue
  <2>6. OwedSafe'
    BY <1>1, <1>2, <1>3, <2>1 DEF OwedSafe, Holds
  <2> QED
    BY <2>2, <2>3, <2>4, <2>5, <2>6 DEF ForkInv
<1>4. CASE work' = [AtRest EXCEPT !.pc = "pull", !.then = then] /\ opened' = opened /\ ~opened.open
  <2>1. /\ work'.pc = "pull" /\ work'.from = Gone
        /\ work' \in WorkType
    <3>1. "pull" \in Phases
      BY DEF Phases
    <3> QED
      BY <1>4, <3>1, RestFacts DEF AtRest, WorkType
  <2>2. ForkTypes'
    BY <1>1, <1>2, <1>4, <2>1 DEF ForkTypes
  <2>3. TimesApart'
    BY <1>1, <1>2, <1>4, <2>1 DEF TimesApart
  <2>4. CallsGo'
    BY <1>1, <1>2, <1>4, <2>1 DEF CallsGo, Pushing
  <2>5. RecordTrue'
    BY <1>1, <1>2, <1>4, <2>1 DEF RecordTrue, Pushing
  <2>6. OwedSafe'
    BY <1>1, <1>2, <1>4, <2>1 DEF OwedSafe, Holds, CallsGo, Pushing
  <2> QED
    BY <2>2, <2>3, <2>4, <2>5, <2>6 DEF ForkInv
<1>5. \/ work' = work /\ UpToDate(then)
      \/ work' = [AtRest EXCEPT !.pc = "pull", !.then = then] /\ opened' = opened /\ ~opened.open
  BY DEF StatFork
<1> QED
  BY <1>3, <1>4, <1>5

\* Of the call in progress.
LEMMA WorkFacts ==
  ASSUME ForkTypes
  PROVE  /\ work.pc \in Phases /\ work.seen \in TextType /\ work.from \in FileNames \cup {Gone}
         /\ \A q \in Phases : LET w == [work EXCEPT !.pc = q] IN
              /\ w \in WorkType
              /\ w.pc = q /\ w.seen = work.seen /\ w.from = work.from
         /\ \A q \in Phases, t \in TextType : LET w == [work EXCEPT !.pc = q, !.seen = t] IN
              /\ w \in WorkType
              /\ w.pc = q /\ w.seen = t /\ w.from = work.from
  BY DEF ForkTypes, WorkType

\* Of a text.
LEMMA TextFacts ==
  \A t \in TextType : t.there \in BOOLEAN /\ t.ver \in Clock0 /\ t.time \in Clock0 /\ t.whole = TRUE
  BY DEF TextType

\* Of the clock, the phases of a call and the name of a deleted file.
LEMMA ClockFacts == MaxClock \in Nat /\ Clock0 = 0 .. MaxClock /\ 0 \in Clock0 /\ Gone \notin FileNames
                    /\ \A q : q \in {"pull", "rez", "idle", "movetext", "deltext", "push", "derez", "rename", "record", "unlink"}
                              <=> q \in Phases
  BY ForkAssumption DEF Clock0, Phases, Pushing

\* pullResourceFork takes the time of the text; if there is none the fork and
\* the record are emptied.
LEMMA PullStatKeeps == ASSUME ForkInv, PullStat PROVE ForkInv'
<1>1. ForkTypes /\ TimesApart /\ CallsGo /\ RecordTrue /\ OwedSafe
  BY DEF ForkInv
<1>2. /\ work.pc = "pull" /\ fname' = fname /\ knownAt' = knownAt /\ rdump' = rdump /\ clock' = clock /\ owed' = owed
      /\ parted' = parted /\ fname \in FileNames
  BY <1>1 DEF PullStat, CallsGo, ForkTypes
<1>3. rdump[fname] \in TextType /\ ~opened.open /\ ~opened.dirty /\ work.from = Gone
  BY <1>1, <1>2 DEF ForkTypes, CallsGo
<1>4. CASE rdump[fname].there
  <2>1. /\ cached' = cached /\ rezstat' = rezstat /\ opened' = opened
        /\ work' = [work EXCEPT !.pc = "rez", !.seen = rdump[fname]]
    BY <1>4 DEF PullStat
  <2>2. work' \in WorkType /\ work'.pc = "rez" /\ work'.seen = rdump[fname] /\ work'.from = Gone
    BY <1>1, <1>3, <2>1, WorkFacts, ClockFacts DEF WorkType
  <2>3. ForkTypes'
    BY <1>1, <1>2, <2>1, <2>2 DEF ForkTypes
  <2>4. TimesApart'
    BY <1>1, <1>2, <1>4, <2>1, <2>2 DEF TimesApart
  <2>5. CallsGo'
    BY <1>1, <1>2, <1>3, <2>1, <2>2, ClockFacts DEF CallsGo, Pushing
  <2>6. RecordTrue'
    BY <1>1, <1>2, <2>1, <2>2 DEF RecordTrue, Pushing
  <2>7. OwedSafe'
    BY <1>1, <1>2, <1>3, <2>1, <2>2 DEF OwedSafe, Holds, Pushing
  <2> QED
    BY <2>3, <2>4, <2>5, <2>6, <2>7 DEF ForkInv
<1>5. CASE ~rdump[fname].there
  <2>1. /\ cached' = [NoCache EXCEPT !.ver = rdump[fname].ver] /\ rezstat' = EmptyRecord
        /\ UpToDate(work.then) /\ work' = AtRest
    BY <1>5 DEF PullStat
  <2>2. /\ cached' \in [ver : Clock0, empty : BOOLEAN, bare : BOOLEAN]
        /\ cached'.ver = rdump[fname].ver /\ cached'.empty = TRUE
    BY <1>3, <2>1, TextFacts DEF NoCache
  <2>3. /\ rezstat' \in [there : BOOLEAN, time : Clock0] /\ rezstat'.there = TRUE /\ rezstat'.time = 0
    BY <2>1, ClockFacts DEF EmptyRecord
  <2>4. opened' \in [open : BOOLEAN, dirty : BOOLEAN] /\ ~opened'.dirty
    BY <1>1, <1>3, <2>1, CloseFacts DEF UpToDate, ForkTypes
  <2>5. work' \in WorkType /\ work'.pc = "idle" /\ work'.from = Gone
    BY <2>1, RestFacts
  <2>6. ForkTypes'
    BY <1>1, <1>2, <2>2, <2>3, <2>4, <2>5 DEF ForkTypes
  <2>7. TimesApart'
    BY <1>1, <1>2, <2>2, <2>3, <2>5, ClockFacts DEF TimesApart, ForkTypes
  <2>8. CallsGo'
    BY <1>1, <1>2, <2>2, <2>4, <2>5, ClockFacts DEF CallsGo, Pushing
  <2>9. RecordTrue'
    BY <1>1, <1>2, <2>2, <2>3, <2>5 DEF RecordTrue, TimesApart
  <2>10. OwedSafe'
    BY <1>1, <1>2, <1>3, <2>2, <2>4, <2>5, ClockFacts DEF OwedSafe, Holds, Pushing
  <2> QED
    BY <2>6, <2>7, <2>8, <2>9, <2>10 DEF ForkInv
<1> QED
  BY <1>4, <1>5

\* Rez reads the text as it was or as it has become; the record is of the text
\* as it was.
LEMMA PullRezKeeps == ASSUME ForkInv, PullRez PROVE ForkInv'
<1>1. ForkTypes /\ TimesApart /\ CallsGo /\ RecordTrue /\ OwedSafe
  BY DEF ForkInv
<1>2. /\ work.pc = "rez" /\ fname' = fname /\ knownAt' = knownAt /\ rdump' = rdump /\ clock' = clock /\ owed' = owed
      /\ parted' = parted /\ fname \in FileNames /\ work' = AtRest /\ UpToDate(work.then)
      /\ rezstat' = RecordOf(work.seen)
  BY <1>1 DEF PullRez, CallsGo, ForkTypes
<1>3. rdump[fname] \in TextType /\ ~opened.open /\ ~opened.dirty /\ work.from = Gone /\ work.seen \in TextType
  BY <1>1, <1>2 DEF ForkTypes, CallsGo, WorkType
<1>4. PICK t \in {work.seen} \cup {s \in {rdump[fname]} : s.there} :
        cached' = [ver |-> t.ver, empty |-> FALSE, bare |-> FALSE]
  BY DEF PullRez
<1>5. t \in TextType /\ (t = work.seen \/ t = rdump[fname]) /\ t.there
  BY <1>1, <1>2, <1>3, <1>4 DEF TimesApart
<1>6. /\ cached' \in [ver : Clock0, empty : BOOLEAN, bare : BOOLEAN]
      /\ cached'.ver = t.ver /\ cached'.empty = FALSE /\ t.ver <= clock /\ t.ver > 0
  <2>1. t.ver <= clock /\ t.ver > 0
    BY <1>1, <1>2, <1>5 DEF TimesApart
  <2> QED
    BY <1>4, <1>5, <2>1, TextFacts
<1>7. /\ rezstat' \in [there : BOOLEAN, time : Clock0] /\ rezstat'.time = work.seen.time
  BY <1>2, <1>3, TextFacts DEF RecordOf
<1>8. opened' \in [open : BOOLEAN, dirty : BOOLEAN] /\ ~opened'.dirty
  BY <1>1, <1>2, <1>3, CloseFacts DEF UpToDate, ForkTypes
<1>9. work' \in WorkType /\ work'.pc = "idle" /\ work'.from = Gone
  BY <1>2, RestFacts
<1>10. ForkTypes'
  BY <1>1, <1>2, <1>6, <1>7, <1>8, <1>9 DEF ForkTypes
<1>11. TimesApart'
  BY <1>1, <1>2, <1>6, <1>7, <1>9, ClockFacts DEF TimesApart, ForkTypes
<1>12. CallsGo'
  BY <1>1, <1>2, <1>8, <1>9, ClockFacts DEF CallsGo, Pushing
<1>13. RecordTrue'
  <2>1. work.seen.time > 0
    BY <1>1, <1>2 DEF TimesApart
  <2>2. ASSUME NEW n \in FileNames, rdump[n].there, rdump[n].time = work.seen.time
        PROVE  rdump[n].ver = t.ver
    <3>1. n = fname /\ rdump[n] = work.seen
      BY <1>1, <1>2, <2>2 DEF TimesApart
    <3> QED
      BY <1>5, <3>1
  <2> QED
    BY <1>2, <1>6, <1>7, <2>1, <2>2 DEF RecordTrue
<1>14. OwedSafe'
  BY <1>1, <1>2, <1>3, <1>8, <1>9, ClockFacts DEF OwedSafe, Holds, Pushing
<1> QED
  BY <1>10, <1>11, <1>12, <1>13, <1>14 DEF ForkInv

\* The clock goes on by one.
LEMMA LaterFacts ==
  ASSUME ForkTypes, Later
  PROVE  clock' \in Clock0 /\ clock' = clock + 1 /\ clock \in Nat /\ clock' \in Nat /\ clock' > 0
  BY ForkAssumption DEF ForkTypes, Later, Clock0

\* A fork that is marked is open.
LEMMA OpenFacts ==
  ASSUME ForkTypes
  PROVE  \A d \in BOOLEAN : LET o == [opened EXCEPT !.dirty = d] IN
           o \in [open : BOOLEAN, dirty : BOOLEAN] /\ o.dirty = d /\ o.open = opened.open
  BY DEF ForkTypes

\* Versions and times are numbers.
LEMMA NumberFacts ==
  ASSUME ForkTypes
  PROVE  /\ \A n \in FileNames : rdump[n].ver \in Nat /\ rdump[n].time \in Nat /\ rdump[n].there \in BOOLEAN
         /\ cached.ver \in Nat /\ owed.ver \in Nat /\ rezstat.time \in Nat /\ clock \in Nat
<1>1. Clock0 \subseteq Nat
  BY ClockFacts
<1>2. ASSUME NEW n \in FileNames PROVE rdump[n].ver \in Nat /\ rdump[n].time \in Nat /\ rdump[n].there \in BOOLEAN
  <2>1. rdump[n] \in TextType
    BY DEF ForkTypes
  <2> QED
    BY <1>1, <2>1, TextFacts
<1>3. cached.ver \in Nat /\ owed.ver \in Nat /\ rezstat.time \in Nat /\ clock \in Nat
  BY <1>1 DEF ForkTypes
<1> QED
  BY <1>2, <1>3

\* write3: a version of the fork that no text is of.
LEMMA write3Keeps == ASSUME ForkInv, write3 PROVE ForkInv'
<1>1. ForkTypes /\ TimesApart /\ CallsGo /\ RecordTrue /\ OwedSafe
  BY DEF ForkInv
<1>2. /\ fname' = fname /\ knownAt' = knownAt /\ rdump' = rdump /\ rezstat' = rezstat /\ work' = work /\ owed' = owed
      /\ parted' = parted /\ opened.open /\ Later /\ work.pc = "idle"
      /\ cached' = [ver |-> clock', empty |-> FALSE, bare |-> cached.bare /\ ~opened.dirty]
      /\ opened' = [opened EXCEPT !.dirty = TRUE]
  BY DEF write3, Starting
<1>3. clock' \in Clock0 /\ clock' = clock + 1 /\ clock \in Nat /\ clock' \in Nat /\ clock' > 0
  BY <1>1, <1>2, LaterFacts
<1>4. cached' \in [ver : Clock0, empty : BOOLEAN, bare : BOOLEAN] /\ cached'.ver = clock' /\ cached'.empty = FALSE
  <2>1. (cached.bare /\ ~opened.dirty) \in BOOLEAN
    BY <1>1 DEF ForkTypes
  <2> QED
    BY <1>2, <1>3, <2>1
<1>5. opened' \in [open : BOOLEAN, dirty : BOOLEAN] /\ opened'.dirty = TRUE /\ opened'.open = opened.open
  BY <1>1, <1>2, OpenFacts
<1>10. ForkTypes'
  BY <1>1, <1>2, <1>3, <1>4, <1>5 DEF ForkTypes
<1>11. TimesApart'
  <2>1. /\ \A n \in FileNames : rdump[n].ver \in Nat /\ rdump[n].time \in Nat
        /\ cached.ver \in Nat /\ owed.ver \in Nat /\ rezstat.time \in Nat
    BY <1>1, NumberFacts
  <2> QED
    BY <1>1, <1>2, <1>3, <1>4, <2>1 DEF TimesApart
<1>12. CallsGo'
  BY <1>1, <1>2, <1>5 DEF CallsGo, Pushing
<1>13. RecordTrue'
  BY <1>5 DEF RecordTrue
<1>14. OwedSafe'
  <2>1. owed.ver \in Nat /\ owed.ver <= clock
    BY <1>1, ClockFacts DEF ForkTypes, TimesApart
  <2> QED
    BY <1>1, <1>2, <1>3, <1>4, <1>5, <2>1 DEF OwedSafe, Holds, Pushing
<1> QED
  BY <1>10, <1>11, <1>12, <1>13, <1>14 DEF ForkInv

\* seteof3: likewise, pushed if the fork was marked or is emptied.
LEMMA seteof3Keeps == ASSUME ForkInv, NEW zero \in BOOLEAN, seteof3(zero) PROVE ForkInv'
<1>1. ForkTypes /\ TimesApart /\ CallsGo /\ RecordTrue /\ OwedSafe
  BY DEF ForkInv
<1>2. /\ fname' = fname /\ knownAt' = knownAt /\ rdump' = rdump /\ rezstat' = rezstat /\ owed' = owed
      /\ parted' = parted /\ opened.open /\ Later /\ work.pc = "idle" /\ fname # Gone
      /\ cached' = [ver |-> clock', empty |-> zero \/ cached.empty, bare |-> ~opened.dirty /\ ~zero]
  BY DEF seteof3, Starting
<1>3. clock' \in Clock0 /\ clock' = clock + 1 /\ clock \in Nat /\ clock' \in Nat /\ clock' > 0
  BY <1>1, <1>2, LaterFacts
<1>4. cached' \in [ver : Clock0, empty : BOOLEAN, bare : BOOLEAN] /\ cached'.ver = clock' /\ (cached'.bare <=> ~opened.dirty /\ ~zero)
  <2>1. (zero \/ cached.empty) \in BOOLEAN /\ (~opened.dirty /\ ~zero) \in BOOLEAN
    BY <1>1 DEF ForkTypes
  <2> QED
    BY <1>2, <1>3, <2>1
<1>5. opened' \in [open : BOOLEAN, dirty : BOOLEAN] /\ opened'.dirty = FALSE /\ opened'.open = opened.open
  <2>1. (opened.dirty /\ ~opened.dirty) = FALSE
    BY <1>1 DEF ForkTypes
  <2>2. opened' = [opened EXCEPT !.dirty = FALSE]
    BY <2>1 DEF seteof3
  <2> QED
    BY <1>1, <2>2, OpenFacts
<1>6. \/ work' = work /\ ~opened.dirty /\ ~zero
      \/ work' \in WorkType /\ work'.pc = "push" /\ work'.from = Gone
  <2>1. CASE opened.dirty \/ zero
    <3>1. work' = [AtRest EXCEPT !.pc = "push", !.then = "seteof"]
      BY <2>1 DEF seteof3
    <3> QED
      BY <3>1, RestFacts, ClockFacts DEF AtRest, WorkType
  <2>2. CASE ~(opened.dirty \/ zero)
    BY <2>2 DEF seteof3
  <2> QED
    BY <2>1, <2>2
<1>10. ForkTypes'
  BY <1>1, <1>2, <1>3, <1>4, <1>5, <1>6 DEF ForkTypes
<1>7. work'.pc \in {"idle", "push"} /\ work'.from = Gone
  BY <1>1, <1>2, <1>6 DEF CallsGo
<1>11. TimesApart'
  <2>1. /\ \A n \in FileNames : rdump[n].ver \in Nat /\ rdump[n].time \in Nat
        /\ cached.ver \in Nat /\ owed.ver \in Nat /\ rezstat.time \in Nat
    BY <1>1, NumberFacts
  <2> QED
    BY <1>1, <1>2, <1>3, <1>4, <1>7, <2>1 DEF TimesApart
<1>12. CallsGo'
  BY <1>1, <1>2, <1>5, <1>7 DEF CallsGo, Pushing
<1>13. RecordTrue'
  BY <1>4, <1>6 DEF RecordTrue, Pushing
<1>14. OwedSafe'
  <2>1. owed.ver \in Nat /\ owed.ver <= clock
    BY <1>1, ClockFacts DEF ForkTypes, TimesApart
  <2> QED
    BY <1>1, <1>2, <1>3, <1>4, <1>5, <1>7, <2>1 DEF OwedSafe, Holds, Pushing, CallsGo
<1> QED
  BY <1>10, <1>11, <1>12, <1>13, <1>14 DEF ForkInv

\* close3: a fork that is marked is pushed.
LEMMA close3Keeps == ASSUME ForkInv, close3 PROVE ForkInv'
<1>1. ForkTypes /\ TimesApart /\ CallsGo /\ RecordTrue /\ OwedSafe
  BY DEF ForkInv
<1>2. /\ fname' = fname /\ knownAt' = knownAt /\ rdump' = rdump /\ rezstat' = rezstat /\ owed' = owed /\ cached' = cached
      /\ parted' = parted /\ opened.open /\ clock' = clock /\ work.pc = "idle" /\ fname # Gone
  BY DEF close3, Starting
<1>3. /\ opened' \in [open : BOOLEAN, dirty : BOOLEAN] /\ opened'.dirty = FALSE
      /\ \/ work' = work /\ ~opened.dirty
         \/ work' \in WorkType /\ work'.pc = "push" /\ work'.from = Gone /\ opened.dirty /\ opened'.open
  <2>1. CASE opened.dirty
    <3>1. work' = [AtRest EXCEPT !.pc = "push", !.then = "close"] /\ opened' = [opened EXCEPT !.dirty = FALSE]
      BY <2>1 DEF close3
    <3>2. opened' \in [open : BOOLEAN, dirty : BOOLEAN] /\ opened'.dirty = FALSE /\ opened'.open = opened.open
      BY <1>1, <3>1, OpenFacts
    <3> QED
      BY <1>2, <2>1, <3>1, <3>2, RestFacts, ClockFacts DEF AtRest, WorkType
  <2>2. CASE ~opened.dirty
    <3>1. work' = work /\ opened' = Closed
      BY <2>2 DEF close3
    <3> QED
      BY <2>2, <3>1, CloseFacts
  <2> QED
    BY <2>1, <2>2
<1>4. work'.pc \in {"idle", "push"} /\ work'.from = Gone
  BY <1>1, <1>2, <1>3 DEF CallsGo
<1>10. ForkTypes'
  BY <1>1, <1>2, <1>3 DEF ForkTypes
<1>11. TimesApart'
  BY <1>1, <1>2, <1>4 DEF TimesApart
<1>12. CallsGo'
  BY <1>1, <1>2, <1>3, <1>4 DEF CallsGo, Pushing
<1>13. RecordTrue'
  BY <1>1, <1>2, <1>3 DEF RecordTrue, Pushing
<1>14. OwedSafe'
  BY <1>1, <1>2, <1>3, <1>4 DEF OwedSafe, Holds, Pushing, CallsGo
<1> QED
  BY <1>10, <1>11, <1>12, <1>13, <1>14 DEF ForkInv

\* pushResourceFork empties the record of an empty fork, or has DeRez begin its
\* text.
LEMMA PushKeeps == ASSUME ForkInv, Push PROVE ForkInv'
<1>1. ForkTypes /\ TimesApart /\ CallsGo /\ RecordTrue /\ OwedSafe
  BY DEF ForkInv
<1>2. /\ fname' = fname /\ knownAt' = knownAt /\ rdump' = rdump /\ cached' = cached /\ opened' = opened /\ owed' = owed
      /\ parted' = parted /\ clock' = clock /\ work.pc = "push"
  BY DEF Push
<1>3. clock' \in Clock0 /\ clock' = clock /\ clock \in Nat
  BY <1>1, <1>2, NumberFacts DEF ForkTypes
<1>4. /\ rezstat' \in [there : BOOLEAN, time : Clock0] /\ rezstat'.time <= clock'
      /\ work' \in WorkType /\ work'.from = work.from
      /\ \/ work'.pc = "unlink" /\ cached.empty /\ rezstat'.time = 0
         \/ work'.pc = "derez" /\ ~cached.empty
  <2>1. CASE cached.empty
    <3>1. rezstat' = EmptyRecord /\ work' = [work EXCEPT !.pc = "unlink"]
      BY <2>1 DEF Push, Doing
    <3>2. rezstat' \in [there : BOOLEAN, time : Clock0] /\ rezstat'.time = 0
      BY <3>1, ClockFacts DEF EmptyRecord
    <3>3. work' \in WorkType /\ work'.from = work.from /\ work'.pc = "unlink"
      BY <1>1, <3>1, WorkFacts, ClockFacts
    <3> QED
      BY <1>3, <2>1, <3>2, <3>3
  <2>2. CASE ~cached.empty
    <3>1. rezstat' = rezstat /\ work' = [work EXCEPT !.pc = "derez"]
      BY <2>2 DEF Push, Doing
    <3>2. rezstat' \in [there : BOOLEAN, time : Clock0] /\ rezstat.time <= clock /\ rezstat.time \in Nat
      BY <1>1, <3>1, NumberFacts DEF ForkTypes, TimesApart
    <3>3. work' \in WorkType /\ work'.from = work.from /\ work'.pc = "derez"
      BY <1>1, <3>1, WorkFacts, ClockFacts
    <3> QED
      BY <1>3, <2>2, <3>1, <3>2, <3>3
  <2> QED
    BY <2>1, <2>2
<1>10. ForkTypes'
  BY <1>1, <1>2, <1>3, <1>4 DEF ForkTypes
<1>11. TimesApart'
  <2>1. /\ \A n \in FileNames : rdump[n].ver \in Nat /\ rdump[n].time \in Nat
        /\ cached.ver \in Nat /\ owed.ver \in Nat
    BY <1>1, NumberFacts
  <2> QED
    BY <1>1, <1>2, <1>3, <1>4, <2>1 DEF TimesApart
<1>12. CallsGo'
  BY <1>1, <1>2, <1>4 DEF CallsGo, Pushing
<1>13. RecordTrue'
  BY <1>4 DEF RecordTrue, Pushing
<1>14. OwedSafe'
  BY <1>1, <1>2, <1>4 DEF OwedSafe, Holds, Pushing
<1> QED
  BY <1>10, <1>11, <1>12, <1>13, <1>14 DEF ForkInv

\* The text is complete under its temporary name, of a time no other has.
LEMMA PushDeRezKeeps == ASSUME ForkInv, PushDeRez PROVE ForkInv'
<1>1. ForkTypes /\ TimesApart /\ CallsGo /\ RecordTrue /\ OwedSafe
  BY DEF ForkInv
<1>2. /\ fname' = fname /\ knownAt' = knownAt /\ rdump' = rdump /\ cached' = cached /\ opened' = opened /\ owed' = owed
      /\ parted' = parted /\ Later /\ work.pc = "derez" /\ rezstat' = rezstat
  BY DEF PushDeRez
<1>3. clock' \in Clock0 /\ clock' = clock + 1 /\ clock \in Nat /\ clock' \in Nat /\ clock' > 0
  BY <1>1, <1>2, LaterFacts
<1>4. PICK t \in TextType : /\ work' = [work EXCEPT !.pc = "rename", !.seen = t]
                            /\ t.there = TRUE /\ t.ver = cached.ver /\ t.time = clock'
  <2> DEFINE t == [there |-> TRUE, ver |-> cached.ver, time |-> clock', whole |-> TRUE]
  <2>1. t \in TextType
    BY <1>1, <1>3 DEF ForkTypes, TextType
  <2>2. t.there = TRUE /\ t.ver = cached.ver /\ t.time = clock'
    OBVIOUS
  <2>3. work' = [work EXCEPT !.pc = "rename", !.seen = t]
    BY DEF PushDeRez
  <2> QED
    BY <2>1, <2>2, <2>3
<1>5. work' \in WorkType /\ work'.pc = "rename" /\ work'.seen = t /\ work'.from = work.from
  BY <1>1, <1>4, WorkFacts, ClockFacts DEF WorkType
<1>6. /\ \A n \in FileNames : rdump[n].ver \in Nat /\ rdump[n].time \in Nat
      /\ cached.ver \in Nat /\ owed.ver \in Nat /\ rezstat.time \in Nat
  BY <1>1, NumberFacts
<1>7. ~cached.empty /\ cached.ver > 0 /\ cached.ver <= clock
  BY <1>1, <1>2 DEF CallsGo, TimesApart
<1>10. ForkTypes'
  BY <1>1, <1>2, <1>3, <1>5 DEF ForkTypes
<1>11. TimesApart'
  BY <1>1, <1>2, <1>3, <1>4, <1>5, <1>6, <1>7 DEF TimesApart
<1>12. CallsGo'
  BY <1>1, <1>2, <1>4, <1>5 DEF CallsGo, Pushing
<1>13. RecordTrue'
  BY <1>5 DEF RecordTrue, Pushing
<1>14. OwedSafe'
  BY <1>1, <1>2, <1>5 DEF OwedSafe, Holds, Pushing
<1> QED
  BY <1>10, <1>11, <1>12, <1>13, <1>14 DEF ForkInv

\* What was pushed is in its place, which is the file's unless they are parted.
LEMMA PlacedFacts ==
  ASSUME ForkTypes, NEW answered \in BOOLEAN, Placed(answered)
  PROVE  /\ owed' \in [ver : Clock0, empty : BOOLEAN] /\ owed'.ver = cached.ver /\ owed'.empty = cached.empty
         /\ parted' \in BOOLEAN /\ (~parted' => answered /\ knownAt = fname)
<1>1. owed' = [ver |-> cached.ver, empty |-> cached.empty] /\ parted' = (~answered \/ knownAt # fname)
  BY DEF Placed
<1>2. cached.ver \in Clock0 /\ cached.empty \in BOOLEAN
  BY DEF ForkTypes
<1> QED
  BY <1>1, <1>2

\* The text is put in place by a rename, or it is not.
LEMMA PushRenameKeeps == ASSUME ForkInv, NEW answered \in BOOLEAN, PushRename(answered) PROVE ForkInv'
<1>1. ForkTypes /\ TimesApart /\ CallsGo /\ RecordTrue /\ OwedSafe
  BY DEF ForkInv
<1>2. /\ fname' = fname /\ knownAt' = knownAt /\ cached' = cached /\ opened' = opened /\ clock' = clock
      /\ work.pc = "rename" /\ rezstat' = rezstat /\ Placed(answered)
      /\ rdump' = IF answered THEN [rdump EXCEPT ![knownAt] = work.seen] ELSE rdump
      /\ work' = [work EXCEPT !.pc = "record"]
  BY DEF PushRename, Doing
<1>3. work' \in WorkType /\ work'.pc = "record" /\ work'.seen = work.seen /\ work'.from = work.from
      /\ work.seen \in TextType
  BY <1>1, <1>2, WorkFacts, ClockFacts
<1>4. fname \in FileNames /\ knownAt \in FileNames /\ work.from = Gone
  BY <1>1, <1>2 DEF CallsGo, ForkTypes
<1>5. /\ rdump' \in [FileNames -> TextType]
      /\ \A n \in FileNames : rdump'[n] = IF answered /\ n = knownAt THEN work.seen ELSE rdump[n]
  BY <1>1, <1>2, <1>3, <1>4 DEF ForkTypes
<1>6. /\ work.seen.there /\ work.seen.time > 0 /\ work.seen.time <= clock
      /\ work.seen.ver > 0 /\ work.seen.ver <= clock
      /\ \A n \in FileNames : ~(rdump[n].there /\ rdump[n].time = work.seen.time)
  BY <1>1, <1>2 DEF TimesApart
<1>7. /\ owed' \in [ver : Clock0, empty : BOOLEAN] /\ owed'.ver = cached.ver /\ owed'.empty = cached.empty
      /\ parted' \in BOOLEAN /\ (~parted' => answered /\ knownAt = fname)
  BY <1>1, <1>2, PlacedFacts
<1>8. work.seen.ver = cached.ver /\ cached.ver \in Nat /\ ~cached.empty
  BY <1>1, <1>2, NumberFacts DEF CallsGo
<1>10. ForkTypes'
  BY <1>1, <1>2, <1>3, <1>5, <1>7 DEF ForkTypes
<1>11. TimesApart'
  <2>1. \A n \in FileNames : /\ rdump'[n].ver <= clock /\ rdump'[n].time <= clock
                             /\ rdump'[n].there => rdump'[n].ver > 0 /\ rdump'[n].time > 0
    BY <1>1, <1>5, <1>6 DEF TimesApart
  <2>2. \A m, n \in FileNames : rdump'[m].there /\ rdump'[n].there /\ rdump'[m].time = rdump'[n].time => m = n
    <3>1. \A m, n \in FileNames : rdump[m].there /\ rdump[n].there /\ rdump[m].time = rdump[n].time => m = n
      BY <1>1 DEF TimesApart
    <3> QED
      BY <1>5, <1>6, <3>1
  <2>3. \A n \in FileNames : rdump'[n].there /\ rdump'[n].time = work.seen.time => rdump'[n] = work.seen
    BY <1>5, <1>6
  <2>4. cached.ver <= clock /\ rezstat.time <= clock /\ (~cached.empty => cached.ver > 0)
    BY <1>1 DEF TimesApart
  <2> QED
    BY <1>2, <1>3, <1>6, <1>7, <2>1, <2>2, <2>3, <2>4 DEF TimesApart
<1>12. CallsGo'
  BY <1>1, <1>2, <1>3 DEF CallsGo, Pushing
<1>13. RecordTrue'
  BY <1>3 DEF RecordTrue, Pushing
<1>14. OwedSafe'
  <2> SUFFICES ASSUME ~parted' PROVE Holds(rdump'[fname], owed')
    BY <1>2, <1>3 DEF OwedSafe, Holds
  <2>1. rdump'[fname] = work.seen
    BY <1>4, <1>5, <1>7
  <2>2. owed'.empty = FALSE /\ work.seen.there = TRUE
    BY <1>1, <1>3, <1>6, <1>7, <1>8, TextFacts DEF ForkTypes
  <2>3. work.seen.there = ~owed'.empty
    BY <2>2, Zenon
  <2>4. work.seen.ver = owed'.ver /\ owed'.ver \in Nat
    BY <1>7, <1>8
  <2>5. Holds(work.seen, owed')
    BY <2>4, <2>3 DEF Holds
  <2> QED
    BY <2>1, <2>5
<1> QED
  BY <1>10, <1>11, <1>12, <1>13, <1>14 DEF ForkInv

\* What ends a push.
LEMMA PushedFacts ==
  ASSUME ForkTypes, Pushed, opened.open, ~opened.dirty
  PROVE  /\ work' \in WorkType /\ work'.pc = "idle" /\ work'.from = Gone
         /\ opened' \in [open : BOOLEAN, dirty : BOOLEAN] /\ ~opened'.dirty
<1>1. work' = AtRest /\ opened' = IF work.then = "close" THEN Closed ELSE opened
  BY DEF Pushed
<1>2. opened' \in [open : BOOLEAN, dirty : BOOLEAN] /\ ~opened'.dirty
  BY <1>1, CloseFacts DEF ForkTypes
<1> QED
  BY <1>1, <1>2, RestFacts

\* The record of the text that was put in place, or that the host has changed
\* since, or of one that was not put in place.
LEMMA PushRecordKeeps == ASSUME ForkInv, PushRecord PROVE ForkInv'
<1>1. ForkTypes /\ TimesApart /\ CallsGo /\ RecordTrue /\ OwedSafe
  BY DEF ForkInv
<1>2. /\ fname' = fname /\ knownAt' = knownAt /\ cached' = cached /\ rdump' = rdump /\ clock' = clock
      /\ owed' = owed /\ parted' = parted /\ work.pc = "record" /\ rezstat' = RecordOf(work.seen) /\ Pushed
  BY DEF PushRecord
<1>3. /\ opened.open /\ ~opened.dirty /\ fname \in FileNames /\ ~cached.empty /\ work.seen.ver = cached.ver
      /\ work.seen \in TextType
  BY <1>1, <1>2, WorkFacts DEF CallsGo, Pushing, ForkTypes
<1>4. /\ work' \in WorkType /\ work'.pc = "idle" /\ work'.from = Gone
      /\ opened' \in [open : BOOLEAN, dirty : BOOLEAN] /\ ~opened'.dirty
  BY <1>1, <1>2, <1>3, PushedFacts
<1>5. rezstat' \in [there : BOOLEAN, time : Clock0] /\ rezstat'.time = work.seen.time
  BY <1>2, <1>3, TextFacts DEF RecordOf
<1>6. /\ work.seen.there /\ work.seen.time > 0 /\ work.seen.time <= clock
      /\ \A n \in FileNames : rdump[n].there /\ rdump[n].time = work.seen.time => rdump[n] = work.seen
  BY <1>1, <1>2 DEF TimesApart
<1>10. ForkTypes'
  BY <1>1, <1>2, <1>4, <1>5 DEF ForkTypes
<1>11. TimesApart'
  BY <1>1, <1>2, <1>4, <1>5, <1>6 DEF TimesApart
<1>12. CallsGo'
  BY <1>1, <1>2, <1>3, <1>4, ClockFacts DEF CallsGo, Pushing
<1>13. RecordTrue'
  BY <1>2, <1>3, <1>5, <1>6 DEF RecordTrue
<1>14. OwedSafe'
  BY <1>1, <1>2, <1>3, <1>4, ClockFacts DEF OwedSafe, Holds
<1> QED
  BY <1>10, <1>11, <1>12, <1>13, <1>14 DEF ForkInv

\* The text of an empty fork is removed, or it is not.
LEMMA PushUnlinkKeeps == ASSUME ForkInv, NEW answered \in BOOLEAN, PushUnlink(answered) PROVE ForkInv'
<1>1. ForkTypes /\ TimesApart /\ CallsGo /\ RecordTrue /\ OwedSafe
  BY DEF ForkInv
<1>2. /\ fname' = fname /\ knownAt' = knownAt /\ cached' = cached /\ rezstat' = rezstat /\ clock' = clock
      /\ work.pc = "unlink" /\ Pushed /\ Placed(answered)
      /\ rdump' = IF answered THEN [rdump EXCEPT ![knownAt] = [NoText EXCEPT !.ver = cached.ver]] ELSE rdump
  BY DEF PushUnlink
<1>3. /\ opened.open /\ ~opened.dirty /\ fname \in FileNames /\ knownAt \in FileNames /\ cached.empty /\ work.from = Gone
  BY <1>1, <1>2 DEF CallsGo, Pushing, ForkTypes
<1>4. /\ work' \in WorkType /\ work'.pc = "idle" /\ work'.from = Gone
      /\ opened' \in [open : BOOLEAN, dirty : BOOLEAN] /\ ~opened'.dirty
  BY <1>1, <1>2, <1>3, PushedFacts
<1>5. PICK t \in TextType : /\ rdump' = IF answered THEN [rdump EXCEPT ![knownAt] = t] ELSE rdump
                            /\ t.there = FALSE /\ t.ver = cached.ver /\ t.time = 0
  <2> DEFINE t == [NoText EXCEPT !.ver = cached.ver]
  <2>1. t \in TextType /\ t.there = FALSE /\ t.ver = cached.ver /\ t.time = 0
    BY <1>1, ClockFacts DEF ForkTypes, TextType, NoText
  <2> QED
    BY <1>2, <2>1
<1>6. /\ rdump' \in [FileNames -> TextType]
      /\ \A n \in FileNames : rdump'[n] = IF answered /\ n = knownAt THEN t ELSE rdump[n]
  BY <1>1, <1>3, <1>5 DEF ForkTypes
<1>7. cached.ver \in Nat /\ cached.ver <= clock /\ clock \in Nat
  BY <1>1, NumberFacts DEF TimesApart
<1>8. /\ owed' \in [ver : Clock0, empty : BOOLEAN] /\ owed'.ver = cached.ver /\ owed'.empty = cached.empty
      /\ parted' \in BOOLEAN /\ (~parted' => answered /\ knownAt = fname)
  BY <1>1, <1>2, PlacedFacts
<1>10. ForkTypes'
  BY <1>1, <1>2, <1>4, <1>6, <1>8 DEF ForkTypes
<1>11. TimesApart'
  <2>1. \A n \in FileNames : rdump'[n].ver <= clock /\ rdump'[n].time <= clock
    BY <1>1, <1>5, <1>6, <1>7 DEF TimesApart
  <2>2. \A n \in FileNames : rdump'[n].there => rdump'[n] = rdump[n] /\ rdump[n].there
    BY <1>5, <1>6
  <2>3. \A n \in FileNames : rdump'[n].there => rdump'[n].ver > 0 /\ rdump'[n].time > 0
    BY <1>1, <2>2 DEF TimesApart
  <2>4. \A m, n \in FileNames : rdump'[m].there /\ rdump'[n].there /\ rdump'[m].time = rdump'[n].time => m = n
    BY <1>1, <2>2 DEF TimesApart
  <2> QED
    BY <1>1, <1>2, <1>4, <1>7, <1>8, <2>1, <2>3, <2>4 DEF TimesApart
<1>12. CallsGo'
  BY <1>1, <1>2, <1>3, <1>4, ClockFacts DEF CallsGo, Pushing
<1>13. RecordTrue'
  <2>1. rezstat.time = 0 /\ \A n \in FileNames : rdump[n].there => rdump[n].time # 0
    BY <1>1, <1>2, NumberFacts DEF CallsGo, TimesApart
  <2> QED
    BY <1>2, <1>3, <1>5, <1>6, <2>1 DEF RecordTrue
<1>14. OwedSafe'
  <2> SUFFICES ASSUME ~parted' PROVE Holds(rdump'[fname], owed')
    BY <1>2, <1>3, <1>4, ClockFacts DEF OwedSafe, Holds
  <2> QED
    BY <1>3, <1>5, <1>6, <1>8 DEF Holds
<1> QED
  BY <1>10, <1>11, <1>12, <1>13, <1>14 DEF ForkInv

\* move3 renames the file.
LEMMA move3Keeps == ASSUME ForkInv, NEW then \in {"rename", "catmove"}, move3(then) PROVE ForkInv'
<1>1. ForkTypes /\ TimesApart /\ CallsGo /\ RecordTrue /\ OwedSafe
  BY DEF ForkInv
<1>2. /\ rdump' = rdump /\ cached' = cached /\ rezstat' = rezstat /\ opened' = opened /\ clock' = clock
      /\ owed' = owed /\ parted' = parted /\ work.pc = "idle" /\ fname # Gone
  BY DEF move3, Starting
<1>3. /\ fname' \in FileNames \ {fname} /\ knownAt' = fname
      /\ work' = [AtRest EXCEPT !.pc = "movetext", !.then = then, !.from = fname]
  BY DEF move3
<1>4. fname \in FileNames /\ fname' \in FileNames /\ fname' # fname /\ work.from = Gone
  BY <1>1, <1>2, <1>3 DEF ForkTypes, CallsGo
<1>5. work' \in WorkType /\ work'.pc = "movetext" /\ work'.from = fname
  BY <1>3, <1>4, RestFacts, ClockFacts DEF WorkType
<1>10. ForkTypes'
  BY <1>1, <1>2, <1>3, <1>4, <1>5 DEF ForkTypes
<1>11. TimesApart'
  BY <1>1, <1>2, <1>5 DEF TimesApart
<1>12. CallsGo'
  BY <1>1, <1>2, <1>4, <1>5, ClockFacts DEF CallsGo, Pushing
<1>13. RecordTrue'
  BY <1>1, <1>2, <1>5 DEF RecordTrue, Pushing
<1>14. OwedSafe'
  BY <1>1, <1>2, <1>4, <1>5, ClockFacts DEF OwedSafe, Holds, Pushing
<1> QED
  BY <1>10, <1>11, <1>12, <1>13, <1>14 DEF ForkInv

\* move3 renames the text after it.
LEMMA move3TextKeeps == ASSUME ForkInv, NEW answered \in BOOLEAN, move3Text(answered) PROVE ForkInv'
<1>1. ForkTypes /\ TimesApart /\ CallsGo /\ RecordTrue /\ OwedSafe
  BY DEF ForkInv
<1>2. /\ fname' = fname /\ knownAt' \in {knownAt, fname} /\ cached' = cached /\ rezstat' = rezstat /\ opened' = opened /\ clock' = clock
      /\ owed' = owed /\ work.pc = "movetext" /\ work' = AtRest
      /\ parted' = (parted \/ ~answered \/ (~rdump[work.from].there /\ rdump[fname].there))
  BY DEF move3Text
<1>3. fname \in FileNames /\ work.from \in FileNames /\ work.from # fname
  BY <1>1, <1>2 DEF ForkTypes, CallsGo, WorkType
<1>4. work' \in WorkType /\ work'.pc = "idle" /\ work'.from = Gone /\ parted' \in BOOLEAN
  BY <1>2, RestFacts
<1>5. PICK f \in FileNames : f = work.from
  BY <1>3
\* The text has been moved, or not.
<1>6. /\ rdump' \in [FileNames -> TextType]
      /\ \/ \A n \in FileNames : rdump'[n] = IF n = f THEN NoText ELSE IF n = fname THEN rdump[f] ELSE rdump[n]
         \/ rdump' = rdump /\ (~answered \/ (~rdump[f].there /\ rdump[fname].there))
  <2>1. CASE answered /\ (rdump[f].there \/ ~rdump[fname].there)
    <3>1. rdump' = [rdump EXCEPT ![fname] = rdump[f], ![f] = NoText]
      BY <1>5, <2>1 DEF move3Text
    <3>2. rdump \in [FileNames -> TextType] /\ NoText \in TextType
      BY <1>1, RestFacts DEF ForkTypes
    <3> HIDE DEF NoText
    <3> QED
      BY <1>3, <1>5, <3>1, <3>2
  <2>2. CASE ~(answered /\ (rdump[f].there \/ ~rdump[fname].there))
    BY <1>1, <1>5, <2>2 DEF move3Text, ForkTypes
  <2> QED
    BY <2>1, <2>2
<1>7. \A n \in FileNames : rdump'[n] = rdump[n] \/ rdump'[n] = NoText \/ (n = fname /\ rdump'[n] = rdump[f])
  <2>1. CASE \A n \in FileNames : rdump'[n] = IF n = f THEN NoText ELSE IF n = fname THEN rdump[f] ELSE rdump[n]
    <3> HIDE DEF NoText
    <3> QED
      BY <2>1
  <2>2. CASE rdump' = rdump
    BY <2>2
  <2> QED
    BY <1>6, <2>1, <2>2
<1>8. NoText.there = FALSE /\ NoText.ver = 0 /\ NoText.time = 0
  BY DEF NoText
<1>9. \A n \in FileNames : rdump'[n].there =>
        \/ n # f /\ n # fname /\ rdump'[n] = rdump[n]
        \/ n = fname /\ rdump'[n] = rdump[f] /\ rdump'[f] = NoText
        \/ rdump' = rdump
  BY <1>3, <1>5, <1>6, <1>8
<1>10. ForkTypes'
  BY <1>1, <1>2, <1>3, <1>4, <1>6 DEF ForkTypes
<1>11. TimesApart'
  <2>1. \A n \in FileNames : rdump'[n].ver <= clock /\ rdump'[n].time <= clock
    BY <1>1, <1>7, <1>8, NumberFacts DEF TimesApart
  <2>2. \A n \in FileNames : rdump'[n].there => rdump'[n].ver > 0 /\ rdump'[n].time > 0
    BY <1>1, <1>7, <1>8 DEF TimesApart
  <2>3. ASSUME NEW m \in FileNames, NEW n \in FileNames,
               rdump'[m].there /\ rdump'[n].there /\ rdump'[m].time = rdump'[n].time
        PROVE  m = n
    <3>1. \A k, l \in FileNames : rdump[k].there /\ rdump[l].there /\ rdump[k].time = rdump[l].time => k = l
      BY <1>1 DEF TimesApart
    <3>2. CASE rdump' = rdump
      BY <2>3, <3>1, <3>2
    <3>3. CASE rdump' # rdump
      <4>1. /\ (m # f /\ m # fname /\ rdump'[m] = rdump[m]) \/ (m = fname /\ rdump'[m] = rdump[f])
            /\ (n # f /\ n # fname /\ rdump'[n] = rdump[n]) \/ (n = fname /\ rdump'[n] = rdump[f])
        BY <1>9, <2>3, <3>3
      <4> QED
        BY <1>5, <2>3, <3>1, <4>1
    <3> QED
      BY <3>2, <3>3
  <2> QED
    BY <1>1, <1>2, <1>4, <2>1, <2>2, <2>3 DEF TimesApart
<1>12. CallsGo'
  BY <1>1, <1>2, <1>3, <1>4, ClockFacts DEF CallsGo, Pushing
<1>13. RecordTrue'
  BY <1>1, <1>2, <1>5, <1>7, <1>8 DEF RecordTrue, Pushing
<1>14. OwedSafe'
  <2> SUFFICES ASSUME ~parted' PROVE Holds(rdump'[fname], owed)
    BY <1>2, <1>3, <1>4, ClockFacts DEF OwedSafe, Holds
  <2>1. ~parted /\ answered /\ (rdump[f].there \/ ~rdump[fname].there)
    BY <1>2, <1>5
  <2>2. Holds(rdump[f], owed)
    BY <1>1, <1>2, <1>5, <2>1 DEF OwedSafe
  <2>3. rdump'[fname] = rdump[f]
    BY <1>3, <1>5, <1>6, <2>1
  <2> QED
    BY <2>2, <2>3
<1> QED
  BY <1>10, <1>11, <1>12, <1>13, <1>14 DEF ForkInv

\* del3 removes the file.
LEMMA del3Keeps == ASSUME ForkInv, del3 PROVE ForkInv'
<1>1. ForkTypes /\ TimesApart /\ CallsGo /\ RecordTrue /\ OwedSafe
  BY DEF ForkInv
<1>2. /\ rdump' = rdump /\ cached' = cached /\ rezstat' = rezstat /\ opened' = opened /\ clock' = clock
      /\ owed' = owed /\ parted' = parted /\ work.pc = "idle" /\ fname # Gone /\ ~opened.open
      /\ fname' = Gone /\ knownAt' = fname /\ work' = [AtRest EXCEPT !.pc = "deltext", !.from = fname]
  BY DEF del3, Starting
<1>4. fname \in FileNames /\ work.from = Gone /\ ~opened.dirty
  BY <1>1, <1>2 DEF ForkTypes, CallsGo
<1>5. work' \in WorkType /\ work'.pc = "deltext" /\ work'.from = fname
  BY <1>2, <1>4, RestFacts, ClockFacts DEF WorkType
<1>10. ForkTypes'
  BY <1>1, <1>2, <1>4, <1>5 DEF ForkTypes
<1>11. TimesApart'
  BY <1>1, <1>2, <1>5 DEF TimesApart
<1>12. CallsGo'
  BY <1>1, <1>2, <1>4, <1>5, ClockFacts DEF CallsGo, Pushing
<1>13. RecordTrue'
  BY <1>1, <1>2, <1>5 DEF RecordTrue, Pushing
<1>14. OwedSafe'
  BY <1>1, <1>2, <1>4, <1>5, ClockFacts DEF OwedSafe, Holds, Pushing
<1> QED
  BY <1>10, <1>11, <1>12, <1>13, <1>14 DEF ForkInv

\* del3 removes the text after it.
LEMMA del3TextKeeps == ASSUME ForkInv, NEW answered \in BOOLEAN, del3Text(answered) PROVE ForkInv'
<1>1. ForkTypes /\ TimesApart /\ CallsGo /\ RecordTrue /\ OwedSafe
  BY DEF ForkInv
<1>2. /\ fname' = fname /\ knownAt' = knownAt /\ cached' = cached /\ rezstat' = rezstat /\ opened' = opened /\ clock' = clock
      /\ parted' = parted /\ work.pc = "deltext" /\ work' = AtRest
      /\ rdump' = IF answered THEN [rdump EXCEPT ![work.from] = NoText] ELSE rdump
      /\ owed' = [ver |-> 0, empty |-> TRUE]
  BY DEF del3Text
<1>3. PICK f \in FileNames : f = work.from
  BY <1>1, <1>2 DEF ForkTypes, CallsGo, WorkType
<1>4. work' \in WorkType /\ work'.pc = "idle" /\ work'.from = Gone
  BY <1>2, RestFacts
<1>5. fname = Gone /\ ~opened.open /\ ~opened.dirty
  BY <1>1, <1>2 DEF CallsGo, ForkTypes
<1>6. /\ rdump' \in [FileNames -> TextType]
      /\ \A n \in FileNames : rdump'[n] = IF answered /\ n = f THEN NoText ELSE rdump[n]
  <2>1. rdump \in [FileNames -> TextType] /\ NoText \in TextType /\ rdump' = IF answered THEN [rdump EXCEPT ![f] = NoText] ELSE rdump
    BY <1>1, <1>2, <1>3, RestFacts DEF ForkTypes
  <2> HIDE DEF NoText
  <2> QED
    BY <2>1
<1>7. NoText.there = FALSE /\ NoText.ver = 0 /\ NoText.time = 0
  BY DEF NoText
<1>8. owed' \in [ver : Clock0, empty : BOOLEAN] /\ owed'.ver = 0
  BY <1>2, ClockFacts
<1>10. ForkTypes'
  BY <1>1, <1>2, <1>4, <1>6, <1>8 DEF ForkTypes
<1>11. TimesApart'
  <2>1. \A n \in FileNames : rdump'[n].ver <= clock /\ rdump'[n].time <= clock
    BY <1>1, <1>6, <1>7, NumberFacts DEF TimesApart
  <2>2. \A n \in FileNames : rdump'[n].there => rdump'[n] = rdump[n]
    BY <1>6, <1>7
  <2>3. \A n \in FileNames : rdump'[n].there => rdump'[n].ver > 0 /\ rdump'[n].time > 0
    BY <1>1, <2>2 DEF TimesApart
  <2>4. \A m, n \in FileNames : rdump'[m].there /\ rdump'[n].there /\ rdump'[m].time = rdump'[n].time => m = n
    BY <1>1, <2>2 DEF TimesApart
  <2> QED
    BY <1>1, <1>2, <1>4, <1>8, <2>1, <2>3, <2>4, NumberFacts DEF TimesApart
<1>12. CallsGo'
  BY <1>1, <1>2, <1>4, <1>5, ClockFacts DEF CallsGo, Pushing
<1>13. RecordTrue'
  BY <1>1, <1>2, <1>6, <1>7 DEF RecordTrue, Pushing
<1>14. OwedSafe'
  BY <1>2, <1>4, <1>5, ClockFacts DEF OwedSafe
<1> QED
  BY <1>10, <1>11, <1>12, <1>13, <1>14 DEF ForkInv

\* fsCreate of a file that gets the number of a deleted one.
LEMMA CreateKeeps == ASSUME ForkInv, NEW name \in FileNames, Create(name) PROVE ForkInv'
<1>1. ForkTypes /\ TimesApart /\ CallsGo /\ RecordTrue /\ OwedSafe
  BY DEF ForkInv
<1>2. /\ knownAt' = knownAt /\ rdump' = rdump /\ cached' = cached /\ rezstat' = rezstat /\ opened' = opened /\ clock' = clock
      /\ owed' = owed /\ parted' = parted /\ work.pc = "idle" /\ fname = Gone /\ fname' = name /\ work' = work
  BY DEF Create
<1>3. ~opened.open /\ ~opened.dirty /\ work.from = Gone /\ name # Gone
  BY <1>1, <1>2, ClockFacts DEF ForkTypes, CallsGo
<1>10. ForkTypes'
  BY <1>1, <1>2 DEF ForkTypes
<1>11. TimesApart'
  BY <1>1, <1>2 DEF TimesApart
<1>12. CallsGo'
  BY <1>1, <1>2, <1>3 DEF CallsGo, Pushing
<1>13. RecordTrue'
  BY <1>1, <1>2 DEF RecordTrue
<1>14. OwedSafe'
  <2> SUFFICES ASSUME ~parted PROVE Holds(rdump[name], owed)
    BY <1>2, <1>3 DEF OwedSafe, Holds
  <2>1. owed = [ver |-> 0, empty |-> TRUE]
    BY <1>1, <1>2 DEF OwedSafe
  <2>2. rdump[name].there => rdump[name].ver > 0
    BY <1>1 DEF TimesApart
  <2>3. rdump[name].ver \in Nat /\ rdump[name].there \in BOOLEAN
    BY <1>1, NumberFacts
  <2> QED
    BY <2>1, <2>2, <2>3 DEF Holds
<1> QED
  BY <1>10, <1>11, <1>12, <1>13, <1>14 DEF ForkInv

\* The host edits or removes a text, at a time that has not been.
LEMMA HostChangesKeep ==
  ASSUME ForkInv, NEW name \in FileNames, NEW t \in TextType, Later, ComesBetween,
         \A n \in FileNames : rdump'[n] = IF n = name THEN t ELSE rdump[n],
         rdump' \in [FileNames -> TextType],
         t.ver = clock', t.there => t.time = clock' /\ name \in {fname, work.from}, ~t.there => t.time = 0,
         fname' = fname, knownAt' = knownAt, cached' = cached, rezstat' = rezstat, opened' = opened, work' = work, owed' = owed
  PROVE  ForkInv'
<1>1. ForkTypes /\ TimesApart /\ CallsGo /\ RecordTrue /\ OwedSafe
  BY DEF ForkInv
<1>2. clock' \in Clock0 /\ clock' = clock + 1 /\ clock \in Nat /\ clock' \in Nat /\ clock' > 0
  BY <1>1, LaterFacts
<1>3. parted' = (parted \/ work.pc \in {"movetext", "deltext"})
  BY DEF ComesBetween
<1>4. /\ \A n \in FileNames : rdump[n].ver \in Nat /\ rdump[n].time \in Nat /\ rdump[n].there \in BOOLEAN
      /\ cached.ver \in Nat /\ owed.ver \in Nat /\ rezstat.time \in Nat /\ clock \in Nat
  BY <1>1, NumberFacts
<1>5. /\ \A n \in FileNames : rdump[n].ver <= clock /\ rdump[n].time <= clock
      /\ cached.ver <= clock /\ owed.ver <= clock /\ rezstat.time <= clock
  BY <1>1 DEF TimesApart
<1>6. /\ t.ver > cached.ver /\ t.ver > owed.ver /\ t.ver <= clock' /\ t.time <= clock' /\ t.ver > 0
      /\ t.there => t.time > 0 /\ t.time > clock /\ t.time # rezstat.time
  BY <1>2, <1>4, <1>5
<1>10. ForkTypes'
  BY <1>1, <1>2, <1>3 DEF ForkTypes
<1>11. TimesApart'
  <2>1. \A n \in FileNames : rdump'[n].ver <= clock' /\ rdump'[n].time <= clock'
    BY <1>2, <1>4, <1>5, <1>6
  <2>2. \A n \in FileNames : rdump'[n].there => rdump'[n].ver > 0 /\ rdump'[n].time > 0
    BY <1>1, <1>6 DEF TimesApart
  <2>3. \A m, n \in FileNames : rdump'[m].there /\ rdump'[n].there /\ rdump'[m].time = rdump'[n].time => m = n
    <3>1. \A m, n \in FileNames : rdump[m].there /\ rdump[n].there /\ rdump[m].time = rdump[n].time => m = n
      BY <1>1 DEF TimesApart
    <3>2. \A n \in FileNames : t.there => rdump[n].time # t.time
      BY <1>4, <1>5, <1>6
    <3> QED
      BY <3>1, <3>2
  <2>4. cached.ver <= clock' /\ owed.ver <= clock' /\ rezstat.time <= clock' /\ (~cached.empty => cached.ver > 0)
    BY <1>1, <1>2, <1>4, <1>5 DEF TimesApart
  <2>5. ASSUME work.pc \in {"rez", "rename", "record"}
        PROVE  /\ work.seen.there /\ work.seen.time > 0 /\ work.seen.time <= clock'
               /\ work.seen.ver > 0 /\ work.seen.ver <= clock'
               /\ \A n \in FileNames : rdump'[n].there /\ rdump'[n].time = work.seen.time =>
                    work.pc # "rename" /\ rdump'[n] = work.seen /\ (work.pc = "rez" => n = fname)
    <3>1. /\ work.seen.there /\ work.seen.time > 0 /\ work.seen.time <= clock
          /\ work.seen.ver > 0 /\ work.seen.ver <= clock
          /\ \A n \in FileNames : rdump[n].there /\ rdump[n].time = work.seen.time =>
               work.pc # "rename" /\ rdump[n] = work.seen /\ (work.pc = "rez" => n = fname)
      BY <1>1, <2>5 DEF TimesApart
    <3>2. work.seen.time \in Nat /\ work.seen.ver \in Nat
      <4>1. work.seen \in TextType
        BY <1>1, WorkFacts
      <4>2. work.seen.time \in Clock0 /\ work.seen.ver \in Clock0
        BY <4>1 DEF TextType
      <4> QED
        BY <4>2, ForkAssumption DEF Clock0
    <3>3. work.seen.time <= clock' /\ work.seen.ver <= clock' /\ (t.there => t.time # work.seen.time)
      BY <1>2, <1>6, <3>1, <3>2
    <3> QED
      BY <3>1, <3>3
  <2> QED
    BY <2>1, <2>2, <2>3, <2>4, <2>5 DEF TimesApart
<1>12. CallsGo'
  BY <1>1 DEF CallsGo
<1>13. RecordTrue'
  BY <1>1, <1>6 DEF RecordTrue
<1>14. OwedSafe'
  <2> SUFFICES ASSUME ~parted'
               PROVE  /\ fname # Gone => Holds(rdump'[fname], owed)
                      /\ work.pc = "idle" /\ fname = Gone => owed = [ver |-> 0, empty |-> TRUE]
    BY <1>3 DEF OwedSafe, Holds
  <2>1. ~parted /\ work.pc # "movetext"
    BY <1>3
  <2>2. Holds(t, owed)
    BY <1>2, <1>4, <1>6 DEF Holds
  <2>3. fname # Gone => fname \in FileNames /\ Holds(rdump[fname], owed)
    BY <1>1, <2>1 DEF OwedSafe, ForkTypes
  <2> QED
    BY <1>1, <2>1, <2>2, <2>3 DEF OwedSafe
<1> QED
  BY <1>10, <1>11, <1>12, <1>13, <1>14 DEF ForkInv

\* The host edits the text.
LEMMA HostEditsKeeps == ASSUME ForkInv, NEW name \in FileNames, HostEdits(name) PROVE ForkInv'
<1>1. ForkTypes /\ TimesApart /\ CallsGo /\ RecordTrue /\ OwedSafe
  BY DEF ForkInv
<1>2. /\ Later /\ ComesBetween /\ name \in {fname, work.from}
      /\ fname' = fname /\ knownAt' = knownAt /\ cached' = cached /\ rezstat' = rezstat /\ opened' = opened /\ work' = work /\ owed' = owed
      /\ rdump' = [rdump EXCEPT ![name] = [there |-> TRUE, ver |-> clock', time |-> clock', whole |-> TRUE]]
  BY DEF HostEdits
<1>3. PICK t \in TextType : t.there = TRUE /\ t.ver = clock' /\ t.time = clock' /\ rdump' = [rdump EXCEPT ![name] = t]
  <2> DEFINE u == [there |-> TRUE, ver |-> clock', time |-> clock', whole |-> TRUE]
  <2>1. clock' \in Clock0
    BY <1>1, <1>2, LaterFacts
  <2>2. u \in TextType /\ u.there = TRUE /\ u.ver = clock' /\ u.time = clock'
    BY <2>1 DEF TextType
  <2> QED
    BY <1>2, <2>2
<1>4. rdump' \in [FileNames -> TextType] /\ \A n \in FileNames : rdump'[n] = IF n = name THEN t ELSE rdump[n]
  BY <1>1, <1>3 DEF ForkTypes
<1> QED
  BY <1>2, <1>3, <1>4, HostChangesKeep

\* The host removes the text.
LEMMA HostDeletesKeeps == ASSUME ForkInv, NEW name \in FileNames, HostDeletes(name) PROVE ForkInv'
<1>1. ForkTypes /\ TimesApart /\ CallsGo /\ RecordTrue /\ OwedSafe
  BY DEF ForkInv
<1>2. /\ Later /\ ComesBetween
      /\ fname' = fname /\ knownAt' = knownAt /\ cached' = cached /\ rezstat' = rezstat /\ opened' = opened /\ work' = work /\ owed' = owed
      /\ rdump' = [rdump EXCEPT ![name] = [NoText EXCEPT !.ver = clock']]
  BY DEF HostDeletes
<1>3. PICK t \in TextType : t.there = FALSE /\ t.ver = clock' /\ t.time = 0 /\ rdump' = [rdump EXCEPT ![name] = t]
  <2> DEFINE u == [NoText EXCEPT !.ver = clock']
  <2>1. clock' \in Clock0
    BY <1>1, <1>2, LaterFacts
  <2>2. u \in TextType /\ u.there = FALSE /\ u.ver = clock' /\ u.time = 0
    BY <2>1, ClockFacts DEF TextType, NoText
  <2> QED
    BY <1>2, <2>2
<1>4. rdump' \in [FileNames -> TextType] /\ \A n \in FileNames : rdump'[n] = IF n = name THEN t ELSE rdump[n]
  BY <1>1, <1>3 DEF ForkTypes
<1> QED
  BY <1>2, <1>3, <1>4, HostChangesKeep

\* After a restart the cache and the record are gone; the texts are as they
\* were.
LEMMA RestartKeeps == ASSUME ForkInv, Restart PROVE ForkInv'
<1>1. ForkTypes /\ TimesApart /\ CallsGo /\ RecordTrue /\ OwedSafe
  BY DEF ForkInv
<1>2. /\ cached' = NoCache /\ rezstat' = NoRecord /\ opened' = Closed /\ work' = AtRest
      /\ parted' = (parted \/ work.pc \in {"movetext", "deltext"})
      /\ fname' = fname /\ knownAt' = knownAt /\ rdump' = rdump /\ clock' = clock /\ owed' = owed
  BY DEF Restart, ComesBetween
<1>3. /\ cached' \in [ver : Clock0, empty : BOOLEAN, bare : BOOLEAN] /\ cached'.ver = 0 /\ cached'.empty = TRUE
      /\ rezstat' \in [there : BOOLEAN, time : Clock0] /\ rezstat'.there = FALSE /\ rezstat'.time = 0
  BY <1>2, ClockFacts DEF NoCache, NoRecord
<1>4. opened' \in [open : BOOLEAN, dirty : BOOLEAN] /\ opened'.open = FALSE /\ opened'.dirty = FALSE
  BY <1>2, CloseFacts
<1>5. work' \in WorkType /\ work'.pc = "idle" /\ work'.from = Gone
  BY <1>2, RestFacts
<1>6. parted' \in BOOLEAN
  BY <1>1, <1>2 DEF ForkTypes
<1>10. ForkTypes'
  BY <1>1, <1>2, <1>3, <1>4, <1>5, <1>6 DEF ForkTypes
<1>11. TimesApart'
  BY <1>1, <1>2, <1>3, <1>5, NumberFacts DEF TimesApart
<1>12. CallsGo'
  BY <1>2, <1>4, <1>5 DEF CallsGo, Pushing
<1>13. RecordTrue'
  BY <1>3 DEF RecordTrue
<1>14. OwedSafe'
  <2>1. CASE parted'
    BY <1>4, <1>5, <2>1 DEF OwedSafe, Pushing
  <2>2. CASE ~parted'
    <3>1. ~parted /\ work.pc \notin {"movetext", "deltext"} /\ work.from = Gone
      BY <1>1, <1>2, <2>2 DEF CallsGo
    <3>2. fname = Gone => work.pc = "idle"
      BY <1>1, <3>1 DEF CallsGo
    <3> QED
      BY <1>1, <1>2, <1>4, <1>5, <3>1, <3>2 DEF OwedSafe, Pushing, Holds
  <2> QED
    BY <2>1, <2>2
<1> QED
  BY <1>10, <1>11, <1>12, <1>13, <1>14 DEF ForkInv

\* A step of another component changes nothing here.
LEMMA ForkStutters == ASSUME ForkInv, UNCHANGED forkVars PROVE ForkInv'
<1>1. /\ fname' = fname /\ knownAt' = knownAt /\ rdump' = rdump /\ cached' = cached /\ rezstat' = rezstat /\ opened' = opened
      /\ work' = work /\ clock' = clock /\ owed' = owed /\ parted' = parted
  BY DEF forkVars
<1> QED
  BY <1>1 DEF ForkInv, ForkTypes, TimesApart, CallsGo, RecordTrue, OwedSafe, Holds

\* At first there is a file without a text.
LEMMA ForkStarts == ASSUME ForkInit PROVE ForkInv
<1>1. /\ fname \in FileNames /\ knownAt \in FileNames /\ rdump = [n \in FileNames |-> NoText] /\ cached = NoCache /\ rezstat = NoRecord
      /\ opened = Closed /\ work = AtRest /\ clock = 0 /\ parted = FALSE /\ owed = [ver |-> 0, empty |-> TRUE]
  <2>1. \E n \in FileNames : TRUE
    BY ForkAssumption
  <2>2. (CHOOSE n \in FileNames : TRUE) \in FileNames
    BY <2>1
  <2> QED
    BY <2>2 DEF ForkInit
<1>2. /\ cached \in [ver : Clock0, empty : BOOLEAN, bare : BOOLEAN] /\ cached.ver = 0 /\ cached.empty = TRUE
      /\ rezstat \in [there : BOOLEAN, time : Clock0] /\ rezstat.there = FALSE /\ rezstat.time = 0
      /\ owed \in [ver : Clock0, empty : BOOLEAN] /\ owed.ver = 0 /\ owed.empty = TRUE
  BY <1>1, ClockFacts DEF NoCache, NoRecord
<1>3. opened \in [open : BOOLEAN, dirty : BOOLEAN] /\ opened.open = FALSE /\ opened.dirty = FALSE
  BY <1>1, CloseFacts
<1>4. work \in WorkType /\ work.pc = "idle" /\ work.from = Gone
  BY <1>1, RestFacts
<1>5. NoText \in TextType /\ NoText.there = FALSE /\ NoText.ver = 0 /\ NoText.time = 0
  BY RestFacts DEF NoText
<1>6. rdump \in [FileNames -> TextType] /\ \A n \in FileNames : rdump[n] = NoText
  BY <1>1, <1>5
<1>10. ForkTypes
  BY <1>1, <1>2, <1>3, <1>4, <1>6, ClockFacts DEF ForkTypes
<1>11. TimesApart
  BY <1>1, <1>2, <1>4, <1>5, <1>6 DEF TimesApart
<1>12. CallsGo
  BY <1>1, <1>3, <1>4, ClockFacts DEF CallsGo, Pushing
<1>13. RecordTrue
  BY <1>2 DEF RecordTrue
<1>14. OwedSafe
  BY <1>1, <1>2, <1>3, <1>4, <1>5, <1>6, ClockFacts DEF OwedSafe, Pushing, Holds
<1> QED
  BY <1>10, <1>11, <1>12, <1>13, <1>14 DEF ForkInv

\* In every state of the cache of forks no two texts have one time, the record
\* names no text that the cache is not of, and what was pushed is in the text of
\* the file, or a later edit, unless the file was parted from it (multifork-3.c).
THEOREM ForkInvariant == ForkSpec => []ForkInv
<1>1. ForkInit => ForkInv
  BY ForkStarts
<1>2. ForkInv /\ [ForkNext]_forkVars => ForkInv'
  BY StatForkKeeps, PullStatKeeps, PullRezKeeps, write3Keeps, seteof3Keeps, close3Keeps, PushKeeps, PushDeRezKeeps,
     PushRenameKeeps, PushRecordKeeps, PushUnlinkKeeps, move3Keeps, move3TextKeeps, del3Keeps, del3TextKeeps,
     CreateKeeps, HostEditsKeeps, HostDeletesKeeps, RestartKeeps, ForkStutters DEF ForkNext
<1> QED
  BY <1>1, <1>2, PTL DEF ForkSpec

\* Whenever statResourceFork would find a closed fork up to date it is what the
\* text says, no text is ever half written, and what close3 or seteof3 pushed is
\* in the file's text or a later edit of the host's, after any moves and
\* restarts: ForksKept, for any number of places and any clock.  PushedIsSafe says
\* when a file counts as parted from its text, of which nothing is said: a push
\* after a CatMove of the open file, a rename or unlink that the host refused, a
\* move cut in two, and a text found at the new place.
THEOREM ForksStayKept == ForkSpec => []ForksKept
<1>1. ForkInv => ForksKept
  <2> SUFFICES ASSUME ForkInv PROVE ForksKept
    OBVIOUS
  <2>1. ForkTypes /\ TimesApart /\ CallsGo /\ RecordTrue /\ OwedSafe
    BY DEF ForkInv
  <2>2. ForkTypeOK
    <3>1. TextType \subseteq [there : BOOLEAN, ver : 0 .. MaxClock, time : 0 .. MaxClock, whole : BOOLEAN]
      BY DEF TextType, Clock0
    <3>2. rdump \in [FileNames -> [there : BOOLEAN, ver : 0 .. MaxClock, time : 0 .. MaxClock, whole : BOOLEAN]]
      BY <2>1, <3>1 DEF ForkTypes
    <3> QED
      BY <2>1, <3>2 DEF ForkTypes, ForkTypeOK, Clock0
  <2>3. VerdictTrue
    <3> SUFFICES ASSUME AtPeace, Agrees(rdump[fname]), ~cached.bare
                 PROVE  \/ ~rdump[fname].there /\ cached.empty
                        \/ rdump[fname].there /\ cached.ver = rdump[fname].ver
      BY DEF VerdictTrue
    <3>1. work.pc = "idle" /\ fname \in FileNames /\ ~opened.dirty
      BY <2>1 DEF AtPeace, ForkTypes
    <3>2. rezstat.there /\ rezstat.time = IF rdump[fname].there THEN rdump[fname].time ELSE 0
      BY DEF Agrees
    <3> QED
      BY <2>1, <3>1, <3>2 DEF RecordTrue, Pushing
  <2>4. TextWhole
    BY <2>1, TextFacts DEF ForkTypes, TextWhole
  <2>5. PushedIsSafe
    BY <2>1 DEF OwedSafe, Holds, PushedIsSafe
  <2> QED
    BY <2>2, <2>3, <2>4, <2>5 DEF ForksKept
<1> QED
  BY <1>1, ForkInvariant, PTL

-----------------------------------------------------------------------------
(***************************************************************************)
(* Sidecars, for any number of files, folders and titles.                  *)
(***************************************************************************)

On(p, s) == disk[At3(p, s)]
Put(p, s, o)   == [disk EXCEPT ![At3(p, s)] = o]
PutMain(p, o)  == [disk EXCEPT ![At3(p, "")] = o]
Moved(p, q, s) == [disk EXCEPT ![At3(q, s)] = disk[At3(p, s)], ![At3(p, s)] = Nobody]
MovedMain(p, q) == [disk EXCEPT ![At3(q, "")] = disk[At3(p, "")], ![At3(p, "")] = Nobody]
Owners   == Whose \cup {Reserved, Nobody}
SideAt   == SideFolders \X Titles \X SideSuffixes

Calls == {NoCall} \cup [call : {"move"}, step : SideSuffixes, whose : Whose, from : SidePlaces, to : SidePlaces]
                  \cup [call : {"delete"}, step : SideSuffixes, whose : Whose, from : SidePlaces, to : {<<>>}]

SideTypeOK ==
  /\ disk \in [SideAt -> Owners] /\ underway \in Calls
  /\ \A p \in SidePlaces, s \in SideSuffixes \ {""} : On(p, s) \in (Whose \ FolderIds) \cup {Nobody}

\* A sidecar that the call in progress has yet to take after its file.
Left(p, s) ==
  /\ underway # NoCall /\ p = underway.from /\ On(p, s) = underway.whose
  /\ underway.step = ".rdump" \/ (underway.step = ".idump" /\ s = ".idump")

\* A sidecar lies beside its file or has yet to follow it.
Followed ==
  \A p \in SidePlaces, s \in SideSuffixes :
    On(p, s) \in Whose \ torn => On(p, "") = On(p, s) \/ Left(p, s)

\* What a call finds beside the name it was given is its own file's; until it has
\* been moved or deleted it is there; a name reserved stays so, then is the file's.
CallSafe ==
  underway # NoCall =>
    /\ \A s \in SideSuffixes \ {""} : On(underway.from, s) \in Whose \ torn => On(underway.from, s) = underway.whose
    /\ underway.step = "" /\ underway.whose \notin torn => On(underway.from, "") = underway.whose
    /\ underway.call = "move" =>
         /\ underway.from # underway.to
         /\ underway.step = "" => On(underway.to, "") = Reserved
         /\ underway.step # "" /\ underway.whose \notin torn =>
              On(underway.to, "") = underway.whose /\ On(underway.from, "") # underway.whose

SideInv == SideTypeOK /\ Followed /\ CallSafe

\* The catalog knows of a place for each file, or of none.
ListedOK == listedAt \in [Whose \ FolderIds -> SidePlaces \cup {<<>>}]

\* A place and a suffix say where a file of the host is, in one way.
LEMMA PlacesApart ==
  \A p, q \in SidePlaces, s, r \in SideSuffixes :
    At3(p, s) \in SideAt /\ (At3(p, s) = At3(q, r) <=> p = q /\ s = r)
  BY DEF SidePlaces, SideAt, At3

\* What lies where once a sidecar is written.
LEMMA OnePut ==
  ASSUME disk \in [SideAt -> Owners], NEW p \in SidePlaces, NEW s \in SideSuffixes, NEW o \in Owners,
         disk' = Put(p, s, o)
  PROVE  /\ disk' \in [SideAt -> Owners]
         /\ \A q \in SidePlaces, r \in SideSuffixes : On(q, r)' = IF q = p /\ r = s THEN o ELSE On(q, r)
<1>1. At3(p, s) \in SideAt
  BY PlacesApart
<1>2. ASSUME NEW q \in SidePlaces, NEW r \in SideSuffixes
      PROVE  On(q, r)' = IF q = p /\ r = s THEN o ELSE On(q, r)
  <2>1. At3(q, r) \in SideAt /\ (At3(p, s) = At3(q, r) <=> p = q /\ s = r)
    BY PlacesApart
  <2> QED
    BY <1>1, <2>1 DEF On, Put
<1> QED
  BY <1>1, <1>2 DEF Put

\* What lies where once a file, or a reserved name, is put there.
LEMMA MainPut ==
  ASSUME disk \in [SideAt -> Owners], NEW p \in SidePlaces, NEW o \in Owners, disk' = PutMain(p, o)
  PROVE  /\ disk' \in [SideAt -> Owners]
         /\ \A q \in SidePlaces, r \in SideSuffixes : On(q, r)' = IF q = p /\ r = "" THEN o ELSE On(q, r)
<1>1. At3(p, "") \in SideAt
  BY PlacesApart DEF SideSuffixes
<1>2. ASSUME NEW q \in SidePlaces, NEW r \in SideSuffixes
      PROVE  On(q, r)' = IF q = p /\ r = "" THEN o ELSE On(q, r)
  <2>1. At3(q, r) \in SideAt /\ (At3(p, "") = At3(q, r) <=> p = q /\ r = "")
    BY PlacesApart DEF SideSuffixes
  <2> QED
    BY <1>1, <2>1 DEF On, PutMain
<1> QED
  BY <1>1, <1>2 DEF PutMain

\* What lies where once a sidecar is renamed.
LEMMA OneMoved ==
  ASSUME disk \in [SideAt -> Owners], NEW p \in SidePlaces, NEW q \in SidePlaces, NEW s \in SideSuffixes, p # q,
         disk' = Moved(p, q, s)
  PROVE  /\ disk' \in [SideAt -> Owners]
         /\ On(p, s)' = Nobody /\ On(q, s)' = On(p, s)
         /\ \A t \in SidePlaces, r \in SideSuffixes : r # s \/ (t # p /\ t # q) => On(t, r)' = On(t, r)
<1>1. At3(p, s) \in SideAt /\ At3(q, s) \in SideAt /\ At3(p, s) # At3(q, s) /\ Nobody \in Owners
  BY PlacesApart DEF Owners
<1>2. disk' \in [SideAt -> Owners] /\ disk'[At3(p, s)] = Nobody /\ disk'[At3(q, s)] = disk[At3(p, s)]
      /\ \A a \in SideAt : a # At3(p, s) /\ a # At3(q, s) => disk'[a] = disk[a]
  BY <1>1 DEF Moved
<1>3. ASSUME NEW t \in SidePlaces, NEW r \in SideSuffixes, r # s \/ (t # p /\ t # q)
      PROVE  On(t, r)' = On(t, r)
  <2>1. At3(t, r) \in SideAt /\ At3(t, r) # At3(p, s) /\ At3(t, r) # At3(q, s)
    BY <1>3, PlacesApart
  <2> QED
    BY <1>2, <2>1 DEF On
<1> QED
  BY <1>2, <1>3 DEF On

\* What lies where once a file is renamed.
LEMMA MainMoved ==
  ASSUME disk \in [SideAt -> Owners], NEW p \in SidePlaces, NEW q \in SidePlaces, p # q, disk' = MovedMain(p, q)
  PROVE  /\ disk' \in [SideAt -> Owners]
         /\ On(p, "")' = Nobody /\ On(q, "")' = On(p, "")
         /\ \A t \in SidePlaces, r \in SideSuffixes : r # "" \/ (t # p /\ t # q) => On(t, r)' = On(t, r)
<1>1. /\ At3(p, "") \in SideAt /\ At3(q, "") \in SideAt /\ At3(p, "") # At3(q, "") /\ Nobody \in Owners
      /\ "" \in SideSuffixes
  BY PlacesApart DEF Owners, SideSuffixes
<1>2. disk' \in [SideAt -> Owners] /\ disk'[At3(p, "")] = Nobody /\ disk'[At3(q, "")] = disk[At3(p, "")]
      /\ \A a \in SideAt : a # At3(p, "") /\ a # At3(q, "") => disk'[a] = disk[a]
  BY <1>1 DEF MovedMain
<1>3. ASSUME NEW t \in SidePlaces, NEW r \in SideSuffixes, r # "" \/ (t # p /\ t # q)
      PROVE  On(t, r)' = On(t, r)
  <2>1. At3(t, r) \in SideAt /\ (At3(t, r) = At3(p, "") <=> t = p /\ r = "")
    BY PlacesApart DEF SideSuffixes
  <2>2. At3(t, r) = At3(q, "") <=> t = q /\ r = ""
    BY PlacesApart DEF SideSuffixes
  <2> QED
    BY <1>2, <1>3, <2>1, <2>2 DEF On
<1> QED
  BY <1>2, <1>3 DEF On

\* What is known of the call in progress.
LEMMA CallFacts ==
  ASSUME underway \in Calls, underway # NoCall
  PROVE  /\ underway.call \in {"move", "delete"} /\ underway.step \in SideSuffixes /\ underway.whose \in Whose
         /\ underway.from \in SidePlaces /\ (underway.call = "move" => underway.to \in SidePlaces)
         /\ \A t \in SideSuffixes : [underway EXCEPT !.step = t] \in Calls
         /\ \A t \in SideSuffixes : LET u == [underway EXCEPT !.step = t] IN
              /\ u.call = underway.call /\ u.step = t /\ u.whose = underway.whose
              /\ u.from = underway.from /\ u.to = underway.to
  BY DEF Calls

\* That no call is in progress is one of the values of underway.
LEMMA NoCallFacts == NoCall \in Calls /\ NoCall.call = "none"
                     /\ \A u \in Calls : u # NoCall <=> u.call # "none"
<1>1. NoCall \in Calls /\ NoCall.call = "none"
  BY DEF Calls, NoCall
<1>2. \A u \in Calls : u # NoCall => u.call \in {"move", "delete"}
  BY DEF Calls
<1> QED
  BY <1>1, <1>2

\* A reserved name and no file at all are not files of the Macintosh.
LEMMA OwnerFacts == Reserved \in Owners /\ Nobody \in Owners /\ Reserved \notin Whose /\ Nobody \notin Whose
                    /\ Whose \subseteq Owners /\ Reserved # Nobody /\ "" \in SideSuffixes
  BY OwnersAssumption DEF Owners, Reserved, Nobody, SideSuffixes

\* Between calls, what is left beside a file is its own.
LEMMA NoneLeft ==
  ASSUME SideInv, underway = NoCall, NEW p \in SidePlaces, NEW s \in SideSuffixes, On(p, s) \in Whose \ torn
  PROVE  On(p, "") = On(p, s)
  BY DEF SideInv, Followed, Left

\* A name is taken if it has an owner.
LEMMA Presence == \A p, s : Present(disk, At3(p, s)) <=> On(p, s) # Nobody
  BY DEF Present, On

\* A step that touches sidecars only replaces no file.
LEMMA MainsStand ==
  ASSUME \A p \in SidePlaces : On(p, "")' = On(p, "")
  PROVE  \A v \in Whose : Kept(v)
  BY DEF Kept, On

\* fsCreate finds the name taken, or makes a file that no sidecar lies beside.
LEMMA CreateFileKeeps ==
  ASSUME SideInv, NEW w \in Whose, NEW p \in SidePlaces, CreateFile(w, p)
  PROVE  SideInv' /\ \A v \in Whose : Kept(v)
<1>1. underway = NoCall /\ underway' = NoCall /\ torn' = torn /\ taken' = taken
  BY DEF CreateFile, Begins
<1>2. CASE Present(disk, At3(p, ""))
  <2>1. disk' = disk
    BY <1>2 DEF CreateFile
  <2> QED
    BY <1>1, <2>1 DEF SideInv, SideTypeOK, Followed, CallSafe, Left, On, Kept
<1>3. CASE ~Present(disk, At3(p, ""))
  <2>1. disk' = PutMain(p, w) /\ On(p, "") = Nobody
    BY <1>3, Presence DEF CreateFile, PutMain
  <2>2. /\ disk' \in [SideAt -> Owners]
        /\ \A q \in SidePlaces, r \in SideSuffixes : On(q, r)' = IF q = p /\ r = "" THEN w ELSE On(q, r)
    BY <2>1, MainPut, OwnerFacts DEF SideInv, SideTypeOK
  <2>3. SideTypeOK'
    BY <1>1, <2>2 DEF SideInv, SideTypeOK
  <2>4. ASSUME NEW q \in SidePlaces, NEW s \in SideSuffixes, On(q, s)' \in Whose \ torn
        PROVE  On(q, "")' = On(q, s)'
    <3>1. CASE s = ""
      BY <3>1
    <3>2. CASE s # ""
      <4>1. On(q, s)' = On(q, s) /\ On(q, "") = On(q, s)
        BY <1>1, <2>2, <2>4, <3>2, NoneLeft
      <4>2. q # p
        BY <1>1, <2>1, <2>4, <4>1, OwnerFacts
      <4> QED
        BY <2>2, <4>1, <4>2, OwnerFacts
    <3> QED
      BY <3>1, <3>2
  <2>5. Followed'
    BY <1>1, <2>4 DEF Followed
  <2>6. CallSafe'
    BY <1>1 DEF CallSafe
  <2>7. ASSUME NEW v \in Whose, NEW q \in SidePlaces, On(q, "") = v
        PROVE  On(q, "")' = v
    BY <2>1, <2>2, <2>7, OwnerFacts
  <2>8. \A v \in Whose : Kept(v)
    BY <2>7 DEF Kept, On
  <2> QED
    BY <2>3, <2>5, <2>6, <2>8 DEF SideInv
<1> QED
  BY <1>2, <1>3

\* fsDelete: its file is where it was asked for.
LEMMA DeleteBeginsKeeps ==
  ASSUME SideInv, NEW p \in SidePlaces, DeleteBegins(p)
  PROVE  SideInv' /\ \A v \in Whose : Kept(v)
<1>1. underway = NoCall /\ torn' = torn /\ disk' = disk /\ taken' = taken /\ On(p, "") \in Whose
  BY DEF DeleteBegins, Begins, On
<1>2. underway' = [call |-> "delete", step |-> "", whose |-> On(p, ""), from |-> p, to |-> <<>>]
  BY DEF DeleteBegins, NoCall, On
<1>3. /\ underway' \in Calls /\ underway'.call = "delete" /\ underway'.step = ""
      /\ underway'.whose = On(p, "") /\ underway'.from = p
  BY <1>1, <1>2, OwnerFacts DEF Calls
<1>4. \A q, s : On(q, s)' = On(q, s)
  BY <1>1 DEF On
<1>5. SideTypeOK'
  BY <1>1, <1>3, <1>4 DEF SideInv, SideTypeOK
<1>6. Followed'
  BY <1>1, <1>4, NoneLeft DEF Followed
<1>7. CallSafe'
  <2>1. \A s \in SideSuffixes : On(p, s) \in Whose \ torn => On(p, s) = On(p, "")
    BY <1>1, NoneLeft
  <2> QED
    BY <1>1, <1>3, <1>4, <2>1 DEF CallSafe
<1> QED
  BY <1>1, <1>5, <1>6, <1>7 DEF SideInv, Kept

\* fsRename or fsCatMove reserves the new name, beside which no sidecar lies, or
\* finds it taken.
LEMMA ReserveKeeps ==
  ASSUME SideInv, NEW p \in SidePlaces, NEW q \in SidePlaces, Reserve(p, q)
  PROVE  SideInv' /\ \A v \in Whose : Kept(v)
<1>1. underway = NoCall /\ torn' = torn /\ taken' = taken /\ On(p, "") \in Whose
  BY DEF Reserve, Begins, On
<1>2. CASE Present(disk, At3(q, ""))
  <2>1. disk' = disk /\ underway' = underway
    BY <1>2 DEF Reserve
  <2> QED
    BY <1>1, <2>1 DEF SideInv, SideTypeOK, Followed, CallSafe, Left, On, Kept
<1>3. CASE ~Present(disk, At3(q, ""))
  <2>1. disk' = PutMain(q, Reserved) /\ On(q, "") = Nobody /\ p # q
    BY <1>1, <1>3, Presence, OwnerFacts DEF Reserve, PutMain
  <2>2. underway' = [call |-> "move", step |-> "", whose |-> On(p, ""), from |-> p, to |-> q]
    BY <1>3 DEF Reserve, On
  <2>3. /\ underway' \in Calls /\ underway'.call = "move" /\ underway'.step = ""
        /\ underway'.whose = On(p, "") /\ underway'.from = p /\ underway'.to = q
    BY <1>1, <2>2, OwnerFacts DEF Calls
  <2>4. /\ disk' \in [SideAt -> Owners]
        /\ \A t \in SidePlaces, r \in SideSuffixes : On(t, r)' = IF t = q /\ r = "" THEN Reserved ELSE On(t, r)
    BY <2>1, MainPut, OwnerFacts DEF SideInv, SideTypeOK
  <2>5. SideTypeOK'
    BY <2>3, <2>4 DEF SideInv, SideTypeOK
  <2>6. ASSUME NEW t \in SidePlaces, NEW s \in SideSuffixes, On(t, s)' \in Whose \ torn
        PROVE  On(t, "")' = On(t, s)'
    <3>1. CASE s = ""
      BY <3>1
    <3>2. CASE s # ""
      <4>1. On(t, s)' = On(t, s) /\ On(t, "") = On(t, s)
        BY <1>1, <2>4, <2>6, <3>2, NoneLeft
      <4>2. t # q
        BY <1>1, <2>1, <2>6, <4>1, OwnerFacts
      <4> QED
        BY <2>4, <4>1, <4>2, OwnerFacts
    <3> QED
      BY <3>1, <3>2
  <2>7. Followed'
    BY <1>1, <2>6 DEF Followed
  <2>8. CallSafe'
    <3>1. \A s \in SideSuffixes \ {""} : On(p, s)' = On(p, s)
      BY <2>4
    <3>2. On(p, "")' = On(p, "") /\ On(q, "")' = Reserved
      BY <2>1, <2>4, OwnerFacts
    <3>3. \A s \in SideSuffixes : On(p, s) \in Whose \ torn => On(p, s) = On(p, "")
      BY <1>1, NoneLeft
    <3> QED
      BY <1>1, <2>1, <2>3, <3>1, <3>2, <3>3 DEF CallSafe
  <2>9. ASSUME NEW v \in Whose, NEW t \in SidePlaces, On(t, "") = v
        PROVE  On(t, "")' = v
    BY <2>1, <2>4, <2>9, OwnerFacts
  <2>10. \A v \in Whose : Kept(v)
    BY <2>9 DEF Kept, On
  <2> QED
    BY <2>5, <2>7, <2>8, <2>10 DEF SideInv
<1> QED
  BY <1>2, <1>3

\* del3 removes the file, which counts as taken; its sidecars go after it.  If it
\* is refused all stays.
LEMMA UnlinkMainKeeps ==
  ASSUME SideInv, NEW answered \in BOOLEAN, UnlinkMain(answered)
  PROVE  SideInv' /\ \A v \in Whose : Kept(v)
<1>1. /\ underway # NoCall /\ underway.call = "delete" /\ underway.step = "" /\ torn' = torn
      /\ underway \in Calls
  BY NoCallFacts DEF UnlinkMain, SideInv, SideTypeOK
<1>2. PICK f \in SidePlaces, w \in Whose : f = underway.from /\ w = underway.whose
  BY <1>1, CallFacts
<1>3. \A p, t : ~Left(p, t)
  BY <1>1 DEF Left
<1>4. CASE ~answered \/ ~Present(disk, At3(f, ""))
  <2>1. disk' = disk /\ taken' = taken /\ underway' = NoCall
    BY <1>2, <1>4 DEF UnlinkMain, Ends
  <2>2. \A p, t : On(p, t)' = On(p, t)
    BY <2>1 DEF On
  <2>3. SideTypeOK'
    BY <2>1, <2>2, NoCallFacts DEF SideInv, SideTypeOK
  <2>4. Followed'
    BY <1>1, <1>3, <2>2 DEF SideInv, Followed
  <2>5. CallSafe'
    BY <2>1 DEF CallSafe
  <2> QED
    BY <2>1, <2>3, <2>4, <2>5 DEF SideInv, Kept
<1>5. CASE ~(~answered \/ ~Present(disk, At3(f, "")))
  <2>1. disk' = PutMain(f, Nobody) /\ taken' = taken \cup {On(f, "")}
    BY <1>2, <1>5 DEF UnlinkMain, PutMain, On
  <2>2. \/ underway' = NoCall /\ w \in FolderIds
        \/ /\ underway' \in Calls /\ underway'.call = "delete" /\ underway'.from = f /\ underway'.whose = w
           /\ underway'.step = ".rdump" /\ underway' # NoCall
    <3>1. \/ underway' = NoCall /\ w \in FolderIds
          \/ underway' = [underway EXCEPT !.step = ".rdump"]
      BY <1>2, <1>5 DEF UnlinkMain, Ends
    <3>2. CASE underway' = [underway EXCEPT !.step = ".rdump"]
      <4>1. ".rdump" \in SideSuffixes
        BY DEF SideSuffixes
      <4>2. /\ underway' \in Calls /\ underway'.call = "delete" /\ underway'.from = f
            /\ underway'.whose = w /\ underway'.step = ".rdump"
        BY <1>1, <1>2, <3>2, <4>1, CallFacts
      <4> QED
        BY <4>2, NoCallFacts
    <3> QED
      BY <3>1, <3>2
  <2>3. /\ disk' \in [SideAt -> Owners]
        /\ \A q \in SidePlaces, r \in SideSuffixes : On(q, r)' = IF q = f /\ r = "" THEN Nobody ELSE On(q, r)
    BY <1>2, <2>1, MainPut, OwnerFacts DEF SideInv, SideTypeOK
  <2>4. SideTypeOK'
    BY <2>2, <2>3, NoCallFacts DEF SideInv, SideTypeOK
  \* What lies beside the file is the call's own.
  <2>5. \A t \in SideSuffixes \ {""} : On(f, t) \in Whose \ torn => On(f, t) = w /\ w \notin FolderIds
    BY <1>1, <1>2, OwnerFacts DEF SideInv, CallSafe, SideTypeOK
  <2>6. ASSUME NEW q \in SidePlaces, NEW t \in SideSuffixes, On(q, t)' \in Whose \ torn
        PROVE  On(q, "")' = On(q, t)' \/ Left(q, t)'
    <3>1. CASE t = ""
      BY <3>1
    <3>2. CASE t # "" /\ q = f
      <4>1. On(q, t)' = On(q, t) /\ On(q, t) = w /\ w \notin FolderIds
        BY <2>3, <2>5, <2>6, <3>2
      <4> QED
        BY <1>2, <2>2, <3>2, <4>1 DEF Left
    <3>3. CASE t # "" /\ q # f
      BY <1>3, <2>3, <2>6, <3>3, OwnerFacts DEF SideInv, Followed
    <3> QED
      BY <3>1, <3>2, <3>3
  <2>7. Followed'
    BY <1>1, <2>6 DEF Followed
  <2>8. CallSafe'
    BY <1>1, <2>2, <2>3, <2>5, NoCallFacts, OwnerFacts DEF CallSafe
  <2>9. ASSUME NEW v \in Whose, v \notin taken', NEW p \in SidePlaces, On(p, "") = v
        PROVE  On(p, "")' = v
    BY <2>1, <2>3, <2>9, OwnerFacts
  <2>10. \A v \in Whose : Kept(v)
    BY <2>9 DEF Kept, On
  <2> QED
    BY <2>4, <2>7, <2>8, <2>10 DEF SideInv
<1> QED
  BY <1>4, <1>5

\* del3 removes a sidecar, or leaves it and its file counts as torn.
LEMMA UnlinkSidecarKeeps ==
  ASSUME SideInv, NEW answered \in BOOLEAN, UnlinkSidecar(answered)
  PROVE  SideInv' /\ \A v \in Whose : Kept(v)
<1>1. /\ underway # NoCall /\ underway.call = "delete" /\ underway.step # "" /\ taken' = taken
      /\ underway \in Calls
  BY NoCallFacts DEF UnlinkSidecar, SideInv, SideTypeOK
<1>2. PICK f \in SidePlaces, w \in Whose, s \in SideSuffixes :
        f = underway.from /\ w = underway.whose /\ s = underway.step
  BY <1>1, CallFacts
<1>3. s \in {".rdump", ".idump"} /\ s # ""
  BY <1>1, <1>2 DEF SideSuffixes
<1>4. \A t \in SideSuffixes \ {""} : On(f, t) \in Whose \ torn => On(f, t) = w
  BY <1>1, <1>2 DEF SideInv, CallSafe
<1>5. /\ torn' = IF ~answered /\ Present(disk, At3(f, s)) THEN torn \cup {w} ELSE torn
      /\ disk' = IF answered THEN Put(f, s, Nobody) ELSE disk
  BY <1>2 DEF UnlinkSidecar, LeftBehind, Put
<1>6. /\ disk' \in [SideAt -> Owners]
      /\ \A q \in SidePlaces, r \in SideSuffixes :
           On(q, r)' = IF answered /\ q = f /\ r = s THEN Nobody ELSE On(q, r)
  <2>1. disk \in [SideAt -> Owners] /\ Nobody \in Owners
    BY OwnerFacts DEF SideInv, SideTypeOK
  <2>2. CASE answered
    <3>1. disk' = Put(f, s, Nobody)
      BY <1>5, <2>2
    <3> HIDE DEF Nobody
    <3> QED
      BY <1>2, <2>1, <2>2, <3>1, OnePut
  <2>3. CASE ~answered
    BY <1>5, <2>1, <2>3 DEF On
  <2> QED
    BY <2>2, <2>3
<1>7. torn \subseteq torn' /\ On(f, s)' \notin Whose \ torn'
  <2>1. CASE answered
    BY <1>2, <1>5, <1>6, <2>1, OwnerFacts
  <2>2. CASE ~answered
    <3>1. On(f, s)' = On(f, s)
      BY <1>2, <1>6, <2>2
    <3>2. CASE ~Present(disk, At3(f, s))
      BY <1>5, <3>1, <3>2, Presence, OwnerFacts
    <3>3. CASE Present(disk, At3(f, s))
      BY <1>2, <1>3, <1>4, <1>5, <2>2, <3>1, <3>3
    <3> QED
      BY <3>2, <3>3
  <2> QED
    BY <2>1, <2>2
<1>8. \/ underway' = NoCall /\ s = ".idump"
      \/ /\ underway' \in Calls /\ underway'.call = "delete" /\ underway'.from = f /\ underway'.whose = w
         /\ underway'.step = ".idump" /\ underway' # NoCall /\ s = ".rdump"
  <2>1. CASE s = ".rdump"
    <3>1. underway' = [underway EXCEPT !.step = ".idump"]
      BY <1>2, <2>1 DEF UnlinkSidecar
    <3>2. ".idump" \in SideSuffixes
      BY DEF SideSuffixes
    <3>3. /\ underway' \in Calls /\ underway'.call = "delete" /\ underway'.from = f
          /\ underway'.whose = w /\ underway'.step = ".idump"
      BY <1>1, <1>2, <3>1, <3>2, CallFacts
    <3> QED
      BY <2>1, <3>3, NoCallFacts
  <2>2. CASE s = ".idump"
    BY <1>2, <2>2 DEF UnlinkSidecar, Ends
  <2> QED
    BY <1>3, <2>1, <2>2
<1>9. \A q \in SidePlaces : On(q, "")' = On(q, "")
  BY <1>3, <1>6, OwnerFacts
<1>10. SideTypeOK'
  <2>1. underway' \in Calls
    BY <1>8, NoCallFacts
  <2> QED
    BY <1>6, <2>1 DEF SideInv, SideTypeOK
<1>11. ASSUME NEW q \in SidePlaces, NEW t \in SideSuffixes, On(q, t)' \in Whose \ torn'
       PROVE  On(q, "")' = On(q, t)' \/ Left(q, t)'
  <2>1. CASE t = ""
    BY <2>1
  <2>2. CASE t # "" /\ q = f
    <3>1. t # s /\ On(q, t)' = On(q, t) /\ On(q, t) = w
      BY <1>4, <1>6, <1>7, <1>11, <2>2
    <3>2. CASE underway' = NoCall
      <4>1. ~Left(q, t)
        BY <1>2, <1>3, <1>8, <2>2, <3>1, <3>2, NoCallFacts DEF Left
      <4> QED
        BY <1>7, <1>9, <1>11, <3>1, <4>1 DEF SideInv, Followed
    <3>3. CASE underway' # NoCall
      <4>1. t = ".idump"
        BY <1>8, <2>2, <3>1, <3>3 DEF SideSuffixes
      <4> QED
        BY <1>8, <2>2, <3>1, <3>3, <4>1 DEF Left
    <3> QED
      BY <3>2, <3>3
  <2>3. CASE t # "" /\ q # f
    <3>1. ~Left(q, t) /\ On(q, t)' = On(q, t)
      BY <1>2, <1>6, <2>3 DEF Left
    <3> QED
      BY <1>7, <1>9, <1>11, <3>1 DEF SideInv, Followed
  <2> QED
    BY <2>1, <2>2, <2>3
<1>12. Followed'
  BY <1>11 DEF Followed
<1>13. CallSafe'
  <2>1. CASE underway' = NoCall
    BY <2>1 DEF CallSafe
  <2>2. CASE underway' # NoCall
    <3>1. \A t \in SideSuffixes \ {""} : On(f, t)' \in Whose \ torn' => On(f, t)' = w
      BY <1>4, <1>6, <1>7, OwnerFacts
    <3> QED
      BY <1>8, <2>2, <3>1 DEF CallSafe
  <2> QED
    BY <2>1, <2>2
<1> QED
  BY <1>9, <1>10, <1>12, <1>13, MainsStand DEF SideInv

\* Renameat9 of the file, over the reserved name only; its sidecars are left to
\* follow.
LEMMA MoveMainKeeps ==
  ASSUME SideInv, NEW answered \in BOOLEAN, MoveMain(answered)
  PROVE  SideInv' /\ \A v \in Whose : Kept(v)
<1>1. underway # NoCall /\ underway.call = "move" /\ underway.step = "" /\ torn' = torn /\ taken' = taken
      /\ underway \in Calls
  BY NoCallFacts DEF MoveMain, SideInv, SideTypeOK
<1>2. PICK f \in SidePlaces, g \in SidePlaces, w \in Whose :
        f = underway.from /\ g = underway.to /\ w = underway.whose
  BY <1>1, CallFacts
<1>3. /\ f # g /\ On(g, "") = Reserved /\ (w \notin torn => On(f, "") = w)
      /\ \A t \in SideSuffixes \ {""} : On(f, t) \in Whose \ torn => On(f, t) = w
  BY <1>1, <1>2 DEF SideInv, CallSafe
<1>4. \A p, t : ~Left(p, t)
  BY <1>1 DEF Left
<1>5. CASE disk' = disk /\ underway' = NoCall
  <2>1. \A p, t : On(p, t)' = On(p, t)
    BY <1>5 DEF On
  <2>2. SideTypeOK'
    BY <1>5, <2>1, NoCallFacts DEF SideInv, SideTypeOK
  <2>3. Followed'
    BY <1>1, <1>4, <2>1 DEF SideInv, Followed
  <2>4. CallSafe'
    BY <1>5 DEF CallSafe
  <2> QED
    BY <1>1, <1>5, <2>2, <2>3, <2>4 DEF SideInv, Kept
<1>6. CASE disk' = MovedMain(f, g) /\ underway' = [underway EXCEPT !.step = ".rdump"]
  <2>1. /\ underway' \in Calls /\ underway'.call = "move" /\ underway'.step = ".rdump"
        /\ underway'.whose = w /\ underway'.from = f /\ underway'.to = g
    <3>1. ".rdump" \in SideSuffixes
      BY DEF SideSuffixes
    <3> QED
      BY <1>1, <1>2, <1>6, <3>1, CallFacts
  <2>2. /\ disk' \in [SideAt -> Owners] /\ On(f, "")' = Nobody /\ On(g, "")' = On(f, "")
        /\ \A t \in SidePlaces, r \in SideSuffixes : r # "" \/ (t # f /\ t # g) => On(t, r)' = On(t, r)
    BY <1>2, <1>3, <1>6, MainMoved DEF SideInv, SideTypeOK
  <2>3. SideTypeOK'
    BY <2>1, <2>2 DEF SideInv, SideTypeOK
  <2>4. ASSUME NEW q \in SidePlaces, NEW s \in SideSuffixes, On(q, s)' \in Whose \ torn
        PROVE  On(q, "")' = On(q, s)' \/ Left(q, s)'
    <3>1. CASE s = ""
      BY <3>1
    <3>2. CASE s # "" /\ q = f
      <4>1. On(q, s)' = On(q, s) /\ On(q, s) = w
        BY <1>3, <2>2, <2>4, <3>2
      <4>2. underway' # NoCall
        BY <2>1, NoCallFacts
      <4> QED
        BY <2>1, <3>2, <4>1, <4>2 DEF Left
    <3>3. CASE s # "" /\ q # f
      <4>1. On(q, s)' = On(q, s) /\ On(q, "") = On(q, s)
        BY <1>4, <2>2, <2>4, <3>3 DEF SideInv, Followed
      <4>2. q # g
        BY <1>3, <2>4, <4>1, OwnerFacts
      <4> QED
        BY <2>2, <3>3, <4>1, <4>2, OwnerFacts
    <3> QED
      BY <3>1, <3>2, <3>3
  <2>5. Followed'
    BY <1>1, <2>4 DEF Followed
  <2>6. CallSafe'
    <3>1. \A t \in SideSuffixes \ {""} : On(f, t)' \in Whose \ torn => On(f, t)' = w
      BY <1>2, <1>3, <2>2
    <3>2. w \notin torn => On(g, "")' = w
      BY <1>3, <2>2
    <3>3. On(f, "")' # w
      BY <1>2, <2>2, OwnerFacts
    <3> QED
      BY <1>1, <1>3, <2>1, <3>1, <3>2, <3>3 DEF CallSafe
  <2>7. ASSUME NEW v \in Whose, NEW p \in SidePlaces, On(p, "") = v
        PROVE  \E q \in SidePlaces : On(q, "")' = v
    <3>1. CASE p = f
      BY <1>2, <2>2, <2>7, <3>1
    <3>2. CASE p # f
      <4>1. p # g
        BY <1>3, <2>7, OwnerFacts
      <4> QED
        BY <2>2, <2>7, <3>2, <4>1, OwnerFacts
    <3> QED
      BY <3>1, <3>2
  <2>8. \A v \in Whose : Kept(v)
    BY <2>7 DEF Kept, On
  <2> QED
    BY <2>3, <2>5, <2>6, <2>8 DEF SideInv
<1>7. \/ disk' = disk /\ underway' = NoCall
      \/ disk' = MovedMain(f, g) /\ underway' = [underway EXCEPT !.step = ".rdump"]
  BY <1>2 DEF MoveMain, Ends, MovedMain
<1> QED
  BY <1>5, <1>6, <1>7

\* Renameat9 of a sidecar, to beside its file.
LEMMA MoveSidecarKeeps ==
  ASSUME SideInv, NEW answered \in BOOLEAN, MoveSidecar(answered)
  PROVE  SideInv' /\ \A v \in Whose : Kept(v)
<1>1. underway # NoCall /\ underway.call = "move" /\ underway.step # "" /\ taken' = taken
      /\ underway \in Calls
  BY NoCallFacts DEF MoveSidecar, SideInv, SideTypeOK
<1>2. PICK f \in SidePlaces, g \in SidePlaces, w \in Whose, s \in SideSuffixes :
        f = underway.from /\ g = underway.to /\ w = underway.whose /\ s = underway.step
  BY <1>1, CallFacts
<1>3. /\ f # g /\ (w \notin torn => On(g, "") = w /\ On(f, "") # w) /\ s \in {".rdump", ".idump"} /\ s # ""
      /\ \A t \in SideSuffixes \ {""} : On(f, t) \in Whose \ torn => On(f, t) = w
  BY <1>1, <1>2 DEF SideInv, CallSafe, SideSuffixes
\* The sidecar of that suffix has come to the new place, or its file is torn.
<1>4. /\ disk' \in [SideAt -> Owners] /\ torn \subseteq torn'
      /\ On(f, s)' \notin Whose \ torn' /\ On(f, s)' \in {Nobody, On(f, s)}
      /\ On(g, s)' \in {On(f, s), On(g, s)}
      /\ \A t \in SidePlaces, r \in SideSuffixes : r # s \/ (t # f /\ t # g) => On(t, r)' = On(t, r)
  <2>1. torn' = IF ~answered /\ Present(disk, At3(f, s)) THEN torn \cup {w} ELSE torn
    BY <1>2 DEF MoveSidecar, LeftBehind
  <2>2. CASE answered /\ Present(disk, At3(f, s))
    <3>1. disk' = Moved(f, g, s)
      BY <1>2, <2>2 DEF MoveSidecar, Moved
    <3>2. disk \in [SideAt -> Owners] /\ f \in SidePlaces /\ g \in SidePlaces /\ f # g /\ s \in SideSuffixes
      BY <1>2, <1>3 DEF SideInv, SideTypeOK
    <3>3. /\ disk' \in [SideAt -> Owners] /\ On(f, s)' = Nobody /\ On(g, s)' = On(f, s)
          /\ \A t \in SidePlaces, r \in SideSuffixes : r # s \/ (t # f /\ t # g) => On(t, r)' = On(t, r)
      BY <3>1, <3>2, OneMoved
    <3> QED
      BY <2>1, <3>3, OwnerFacts
  <2>3. CASE ~(answered /\ Present(disk, At3(f, s)))
    <3>1. disk' = disk
      BY <1>2, <2>3 DEF MoveSidecar
    <3>2. \A q, r : On(q, r)' = On(q, r)
      BY <3>1 DEF On
    <3>3. On(f, s) \notin Whose \ torn'
      <4>1. CASE ~Present(disk, At3(f, s))
        BY <4>1, Presence, OwnerFacts
      <4>2. CASE Present(disk, At3(f, s))
        BY <1>2, <1>3, <2>1, <2>3, <4>2
      <4> QED
        BY <4>1, <4>2
    <3> QED
      BY <2>1, <3>1, <3>2, <3>3 DEF SideInv, SideTypeOK
  <2> QED
    BY <2>2, <2>3
<1>5. \/ underway' = NoCall /\ s = ".idump"
      \/ /\ underway' \in Calls /\ underway'.call = "move" /\ underway'.from = f /\ underway'.to = g
         /\ underway'.whose = w /\ underway'.step = ".idump" /\ underway' # NoCall /\ s = ".rdump"
  <2>1. CASE s = ".rdump"
    <3>1. underway' = [underway EXCEPT !.step = ".idump"]
      BY <1>2, <2>1 DEF MoveSidecar
    <3>2. ".idump" \in SideSuffixes
      BY DEF SideSuffixes
    <3>3. /\ underway' \in Calls /\ underway'.call = "move" /\ underway'.from = f /\ underway'.to = g
          /\ underway'.whose = w /\ underway'.step = ".idump"
      BY <1>1, <1>2, <3>1, <3>2, CallFacts
    <3>4. underway' # NoCall
      BY <3>3, NoCallFacts
    <3> QED
      BY <2>1, <3>3, <3>4
  <2>2. CASE s = ".idump"
    BY <1>2, <2>2 DEF MoveSidecar, Ends
  <2> QED
    BY <1>3, <2>1, <2>2
<1>6. \A p \in SidePlaces : On(p, "")' = On(p, "")
  BY <1>3, <1>4, OwnerFacts
<1>7. SideTypeOK'
  <2>1. underway' \in Calls
    BY <1>5, NoCallFacts
  <2>2. ASSUME NEW p \in SidePlaces, NEW t \in SideSuffixes \ {""}
        PROVE  On(p, t)' \in (Whose \ FolderIds) \cup {Nobody}
    <3>1. \/ On(p, t)' = On(p, t) \/ On(p, t)' = Nobody \/ On(p, t)' = On(f, t)
      BY <1>4
    <3> QED
      BY <3>1, OwnerFacts DEF SideInv, SideTypeOK
  <2> QED
    BY <1>4, <2>1, <2>2 DEF SideTypeOK
<1>8. ASSUME NEW q \in SidePlaces, NEW t \in SideSuffixes, On(q, t)' \in Whose \ torn'
      PROVE  On(q, "")' = On(q, t)' \/ Left(q, t)'
  <2>1. CASE t = ""
    BY <2>1
  <2>2. CASE t # "" /\ q = f
    <3>1. t # s /\ On(q, t)' = On(q, t) /\ On(q, t) = w
      BY <1>3, <1>4, <1>8, <2>2, OwnerFacts
    <3>2. CASE underway' = NoCall
      <4>1. ~Left(q, t)
        BY <1>2, <1>3, <1>5, <2>2, <3>1, <3>2, NoCallFacts DEF Left
      <4> QED
        BY <1>4, <1>6, <1>8, <3>1, <4>1 DEF SideInv, Followed
    <3>3. CASE underway' # NoCall
      <4>1. t = ".idump"
        BY <1>5, <2>2, <3>1, <3>3 DEF SideSuffixes
      <4> QED
        BY <1>5, <2>2, <3>1, <3>3, <4>1 DEF Left
    <3> QED
      BY <3>2, <3>3
  <2>3. CASE t # "" /\ q # f
    <3>1. ~Left(q, t)
      BY <1>2, <2>3 DEF Left
    <3>2. CASE On(q, t)' = On(q, t)
      BY <1>4, <1>6, <1>8, <3>1, <3>2 DEF SideInv, Followed
    <3>3. CASE On(q, t)' # On(q, t)
      <4>1. q = g /\ t = s /\ On(q, t)' = On(f, s)
        BY <1>4, <2>3, <3>3
      <4>2. On(f, s) = w /\ On(g, "") = w
        BY <1>3, <1>4, <1>8, <4>1
      <4> QED
        BY <1>6, <4>1, <4>2
    <3> QED
      BY <3>2, <3>3
  <2> QED
    BY <2>1, <2>2, <2>3
<1>9. Followed'
  BY <1>8 DEF Followed
<1>10. CallSafe'
  <2>1. CASE underway' = NoCall
    BY <2>1 DEF CallSafe
  <2>2. CASE underway' # NoCall
    <3>1. \A t \in SideSuffixes \ {""} : On(f, t)' \in Whose \ torn' => On(f, t)' = w
      BY <1>3, <1>4, OwnerFacts
    <3> QED
      BY <1>3, <1>4, <1>5, <1>6, <2>2, <3>1 DEF CallSafe
  <2> QED
    BY <2>1, <2>2
<1> QED
  BY <1>6, <1>7, <1>9, <1>10, MainsStand DEF SideInv

\* Between calls a sidecar is written beside its own file, or its file is torn.
LEMMA SidecarPut ==
  ASSUME SideInv, underway = NoCall, underway' = NoCall, NEW p \in SidePlaces, NEW s \in SideSuffixes, s # "",
         NEW o \in Owners, o \in (Whose \ FolderIds) \cup {Nobody}, torn \subseteq torn',
         o = Nobody \/ On(p, "") = o \/ o \in torn',
         /\ disk' \in [SideAt -> Owners]
         /\ \A q \in SidePlaces, r \in SideSuffixes : On(q, r)' = IF q = p /\ r = s THEN o ELSE On(q, r)
  PROVE  SideInv' /\ \A v \in Whose : Kept(v)
<1>1. disk' \in [SideAt -> Owners]
  OBVIOUS
<1>2. \A q \in SidePlaces, r \in SideSuffixes : On(q, r)' = IF q = p /\ r = s THEN o ELSE On(q, r)
  OBVIOUS
<1>3. \A q \in SidePlaces : On(q, "")' = On(q, "")
  BY <1>1, <1>2, OwnerFacts
<1>4. SideTypeOK'
  BY <1>2, NoCallFacts DEF SideInv, SideTypeOK
<1>5. ASSUME NEW q \in SidePlaces, NEW t \in SideSuffixes, On(q, t)' \in Whose \ torn'
      PROVE  On(q, "")' = On(q, t)'
  <2>1. CASE q = p /\ t = s
    BY <1>2, <1>3, <1>5, <2>1, OwnerFacts
  <2>2. CASE ~(q = p /\ t = s)
    <3>1. On(q, t)' = On(q, t)
      BY <1>2, <2>2
    <3> QED
      BY <1>3, <1>5, <3>1, NoneLeft
  <2> QED
    BY <2>1, <2>2
<1>6. Followed' /\ CallSafe'
  BY <1>5 DEF Followed, CallSafe
<1> QED
  BY <1>3, <1>4, <1>6, MainsStand DEF SideInv

\* fsetattr3 writes the Finder information beside the file.
LEMMA SetFInfoKeeps ==
  ASSUME SideInv, ListedOK, NEW p \in SidePlaces, SetFInfo(p)
  PROVE  SideInv' /\ \A v \in Whose : Kept(v)
<1>1. /\ underway = NoCall /\ underway' = NoCall /\ torn' = torn /\ ".idump" \in SideSuffixes \ {""}
      /\ On(p, "") \in Whose \ FolderIds /\ disk' = Put(p, ".idump", On(p, ""))
  BY DEF SetFInfo, On, Put, ListedOK, SideSuffixes
<1>2. PICK o \in Owners : o = On(p, "") /\ o \in Whose \ FolderIds
  BY <1>1, OwnerFacts
<1>3. /\ disk' \in [SideAt -> Owners]
      /\ \A q \in SidePlaces, r \in SideSuffixes :
           On(q, r)' = IF q = p /\ r = ".idump" THEN o ELSE On(q, r)
  <2>1. PICK s \in SideSuffixes : s = ".idump"
    BY <1>1, <1>2
  <2>2. disk \in [SideAt -> Owners] /\ disk' = Put(p, s, o)
    BY <1>1, <1>2, <2>1 DEF SideInv, SideTypeOK
  <2>3. /\ disk' \in [SideAt -> Owners]
        /\ \A q \in SidePlaces, r \in SideSuffixes : On(q, r)' = IF q = p /\ r = s THEN o ELSE On(q, r)
    BY <2>2, OnePut
  <2> QED
    BY <2>1, <2>3
<1> QED
  BY <1>1, <1>2, <1>3, SidecarPut

\* close3 or seteof3 writes the fork where the catalog knows the file to be.
LEMMA PushForkKeeps ==
  ASSUME SideInv, ListedOK, NEW w \in Whose \ FolderIds, NEW text, PushFork(w, text)
  PROVE  SideInv' /\ \A v \in Whose : Kept(v)
<1>1. PICK p \in SidePlaces : p = listedAt[w]
  BY DEF PushFork, ListedOK
<1>2. /\ underway = NoCall /\ underway' = NoCall /\ ".rdump" \in SideSuffixes \ {""} /\ text \in {w, Nobody}
      /\ disk' = Put(p, ".rdump", text)
      /\ torn' = IF On(p, "") = w THEN torn ELSE torn \cup {w}
  BY <1>1 DEF PushFork, On, Put, SideSuffixes
<1>3. PICK o \in Owners : o = text /\ o \in (Whose \ FolderIds) \cup {Nobody}
  BY <1>2, OwnerFacts
<1>4. torn \subseteq torn' /\ (o = Nobody \/ On(p, "") = o \/ o \in torn')
  BY <1>2, <1>3
<1>5. /\ disk' \in [SideAt -> Owners]
      /\ \A q \in SidePlaces, r \in SideSuffixes :
           On(q, r)' = IF q = p /\ r = ".rdump" THEN o ELSE On(q, r)
  <2>1. PICK s \in SideSuffixes : s = ".rdump"
    BY <1>2, <1>3
  <2>2. disk \in [SideAt -> Owners] /\ disk' = Put(p, s, o)
    BY <1>2, <1>3, <2>1 DEF SideInv, SideTypeOK
  <2>3. /\ disk' \in [SideAt -> Owners]
        /\ \A q \in SidePlaces, r \in SideSuffixes : On(q, r)' = IF q = p /\ r = s THEN o ELSE On(q, r)
    BY <2>2, OnePut
  <2> QED
    BY <2>1, <2>3
<1> QED
  BY <1>2, <1>3, <1>4, <1>5, SidecarPut

\* The Macintosh stops in a call: its file counts as torn.
LEMMA StopsMidwayKeeps ==
  ASSUME SideInv, StopsMidway
  PROVE  SideInv' /\ \A v \in Whose : Kept(v)
<1>1. /\ underway # NoCall /\ underway' = NoCall /\ disk' = disk /\ taken' = taken
      /\ torn' = torn \cup {underway.whose}
  BY DEF StopsMidway
<1>2. \A p, t : On(p, t)' = On(p, t)
  BY <1>1 DEF On
<1>3. SideTypeOK' /\ CallSafe'
  BY <1>1, <1>2, NoCallFacts DEF SideInv, SideTypeOK, CallSafe
<1>4. ASSUME NEW p \in SidePlaces, NEW s \in SideSuffixes, On(p, s) \in Whose \ torn'
      PROVE  On(p, "") = On(p, s)
  <2>1. ~Left(p, s)
    BY <1>1, <1>4 DEF Left
  <2> QED
    BY <1>1, <1>4, <2>1 DEF SideInv, Followed
<1>5. Followed'
  BY <1>2, <1>4 DEF Followed
<1> QED
  BY <1>2, <1>3, <1>5, MainsStand DEF SideInv

\* Another program makes a file where nothing is, sidecars neither.
LEMMA HostMakesKeeps ==
  ASSUME SideInv, NEW w \in Whose, NEW p \in SidePlaces, HostMakes(w, p)
  PROVE  SideInv' /\ \A v \in Whose : Kept(v)
<1>1. underway' = underway /\ torn' = torn /\ taken' = taken /\ disk' = PutMain(p, w)
      /\ \A s \in SideSuffixes : On(p, s) = Nobody
  BY Presence DEF HostMakes, PutMain
<1>2. disk \in [SideAt -> Owners] /\ w \in Owners
  BY OwnerFacts DEF SideInv, SideTypeOK
<1>3. /\ disk' \in [SideAt -> Owners]
      /\ \A q \in SidePlaces, r \in SideSuffixes : On(q, r)' = IF q = p /\ r = "" THEN w ELSE On(q, r)
  BY <1>1, <1>2, MainPut
<1>4. \A q \in SidePlaces, s \in SideSuffixes : On(q, s) # w
  <2>1. \A a \in SideAt : disk[a] # w
    BY <1>2 DEF HostMakes
  <2> QED
    BY <2>1, PlacesApart DEF On
<1>5. SideTypeOK'
  BY <1>1, <1>3 DEF SideInv, SideTypeOK
<1>6. ASSUME NEW q \in SidePlaces, NEW s \in SideSuffixes, On(q, s)' \in Whose \ torn
      PROVE  On(q, "")' = On(q, s)' \/ Left(q, s)'
  <2>1. CASE s = ""
    BY <2>1
  <2>2. CASE s # ""
    <3>1. On(q, s)' = On(q, s) /\ q # p
      BY <1>1, <1>3, <1>6, <2>2, OwnerFacts
    <3>2. On(q, "")' = On(q, "")
      BY <1>3, <3>1, OwnerFacts
    <3>3. Left(q, s) => Left(q, s)'
      BY <1>1, <3>1 DEF Left
    <3> QED
      BY <1>6, <3>1, <3>2, <3>3 DEF SideInv, Followed
  <2> QED
    BY <2>1, <2>2
<1>7. Followed'
  BY <1>1, <1>6 DEF Followed
<1>8. CallSafe'
  <2>1. CASE underway = NoCall
    BY <1>1, <2>1 DEF CallSafe
  <2>2. CASE underway # NoCall
    <3>1. underway \in Calls
      BY DEF SideInv, SideTypeOK
    <3>2. underway.whose \in Whose /\ underway.from \in SidePlaces
          /\ (underway.call = "move" => underway.to \in SidePlaces)
      BY <2>2, <3>1, CallFacts
    <3>3. PICK f \in SidePlaces, v \in Whose : f = underway.from /\ v = underway.whose
      BY <3>2
    <3>4. /\ \A s \in SideSuffixes \ {""} : On(f, s) \in Whose \ torn => On(f, s) = v
          /\ underway.step = "" /\ v \notin torn => On(f, "") = v
      BY <2>2, <3>3 DEF SideInv, CallSafe
    <3>5. \A s \in SideSuffixes \ {""} : On(f, s)' \in Whose \ torn => On(f, s)' = v
      BY <1>3, <3>4
    <3>6. underway.step = "" /\ v \notin torn => On(f, "")' = v
      <4>1. CASE f = p
        BY <1>1, <3>4, <4>1, OwnerFacts
      <4>2. CASE f # p
        BY <1>3, <3>4, <4>2, OwnerFacts
      <4> QED
        BY <4>1, <4>2
    <3>7. ASSUME underway.call = "move"
          PROVE  /\ f # underway.to
                 /\ underway.step = "" => On(underway.to, "")' = Reserved
                 /\ underway.step # "" /\ v \notin torn => On(underway.to, "")' = v /\ On(f, "")' # v
      <4>1. PICK g \in SidePlaces : g = underway.to
        BY <3>2, <3>7
      <4>2. /\ f # g /\ (underway.step = "" => On(g, "") = Reserved)
            /\ underway.step # "" /\ v \notin torn => On(g, "") = v /\ On(f, "") # v
        BY <2>2, <3>3, <3>7, <4>1 DEF SideInv, CallSafe
      <4>3. underway.step = "" => On(g, "")' = Reserved
        BY <1>1, <1>3, <4>2, OwnerFacts
      <4>4. underway.step # "" /\ v \notin torn => On(g, "")' = v /\ On(f, "")' # v
        BY <1>1, <1>3, <1>4, <4>2, OwnerFacts
      <4>5. On(underway.to, "")' = On(g, "")'
        BY <1>1, <4>1 DEF On
      <4> QED
        BY <4>1, <4>2, <4>3, <4>4, <4>5
    <3>8. \A s : On(underway.from, s)' = On(f, s)'
      BY <1>1, <3>3 DEF On
    <3> QED
      BY <1>1, <3>3, <3>5, <3>6, <3>7, <3>8 DEF CallSafe
  <2> QED
    BY <2>1, <2>2
<1>9. ASSUME NEW v \in Whose, NEW q \in SidePlaces, On(q, "") = v
      PROVE  On(q, "")' = v
  BY <1>1, <1>3, <1>9, OwnerFacts
<1>10. \A v \in Whose : Kept(v)
  BY <1>9 DEF Kept, On
<1> QED
  BY <1>5, <1>7, <1>8, <1>10 DEF SideInv

\* Another program removes a file with its sidecars: a call in progress is torn.
LEMMA HostTakesKeeps ==
  ASSUME SideInv, NEW p \in SidePlaces, HostTakes(p)
  PROVE  SideInv' /\ \A v \in Whose : Kept(v)
<1>1. /\ underway' = underway /\ taken' = taken \cup {On(p, "")} /\ On(p, "") \in Whose
      /\ torn' = IF underway = NoCall THEN torn ELSE torn \cup {underway.whose}
  BY DEF HostTakes, On
<1>2. disk \in [SideAt -> Owners]
  BY DEF SideInv, SideTypeOK
<1>3. disk' = [q \in SideAt |-> IF <<q[1], q[2]>> = p THEN Nobody ELSE disk[q]]
  BY <1>2 DEF HostTakes
<1>4. /\ disk' \in [SideAt -> Owners]
      /\ \A q \in SidePlaces, r \in SideSuffixes : On(q, r)' = IF q = p THEN Nobody ELSE On(q, r)
  <2>1. ASSUME NEW q \in SidePlaces, NEW r \in SideSuffixes
        PROVE  On(q, r)' = IF q = p THEN Nobody ELSE On(q, r)
    <3>1. At3(q, r) \in SideAt /\ At3(q, r)[1] = q[1] /\ At3(q, r)[2] = q[2] /\ q = <<q[1], q[2]>>
      BY PlacesApart DEF At3, SidePlaces
    <3>2. disk'[At3(q, r)] = IF <<At3(q, r)[1], At3(q, r)[2]>> = p THEN Nobody ELSE disk[At3(q, r)]
      BY <1>3, <3>1
    <3> QED
      BY <3>1, <3>2 DEF On
  <2> QED
    BY <1>2, <1>3, <2>1, OwnerFacts
<1>5. SideTypeOK'
  BY <1>1, <1>4 DEF SideInv, SideTypeOK
<1>6. torn \subseteq torn' /\ (underway # NoCall => underway.whose \in torn')
  BY <1>1
<1>7. ASSUME NEW q \in SidePlaces, NEW s \in SideSuffixes, On(q, s)' \in Whose \ torn'
      PROVE  On(q, "")' = On(q, s)'
  <2>1. q # p /\ On(q, s)' = On(q, s) /\ On(q, "")' = On(q, "")
    BY <1>4, <1>7, OwnerFacts
  <2>2. ~Left(q, s)
    BY <1>6, <1>7, <2>1 DEF Left
  <2> QED
    BY <1>6, <1>7, <2>1, <2>2 DEF SideInv, Followed
<1>8. Followed'
  BY <1>7 DEF Followed
<1>9. CallSafe'
  <2>1. CASE underway = NoCall
    BY <1>1, <2>1 DEF CallSafe
  <2>2. CASE underway # NoCall
    <3>1. underway \in Calls
      BY DEF SideInv, SideTypeOK
    <3>2. underway.whose \in Whose /\ underway.from \in SidePlaces
          /\ (underway.call = "move" => underway.to \in SidePlaces)
      BY <2>2, <3>1, CallFacts
    <3>3. PICK f \in SidePlaces, v \in Whose : f = underway.from /\ v = underway.whose
      BY <3>2
    <3>4. \A s \in SideSuffixes \ {""} : On(f, s)' \in Whose \ torn' => On(f, s)' = v
      <4>1. \A s \in SideSuffixes \ {""} : On(f, s) \in Whose \ torn => On(f, s) = v
        BY <2>2, <3>3 DEF SideInv, CallSafe
      <4> QED
        BY <1>4, <1>6, <4>1, OwnerFacts
    <3>5. ASSUME underway.call = "move"
          PROVE  f # underway.to /\ (underway.step = "" => On(underway.to, "")' = Reserved)
      <4>1. PICK g \in SidePlaces : g = underway.to
        BY <3>2, <3>5
      <4>2. f # g /\ (underway.step = "" => On(g, "") = Reserved)
        BY <2>2, <3>3, <3>5, <4>1 DEF SideInv, CallSafe
      <4>3. underway.step = "" => On(g, "")' = Reserved
        BY <1>1, <1>4, <4>2, OwnerFacts
      <4>4. On(underway.to, "")' = On(g, "")'
        BY <1>1, <4>1 DEF On
      <4> QED
        BY <4>1, <4>2, <4>3, <4>4
    <3>6. \A s : On(underway.from, s)' = On(f, s)'
      BY <1>1, <3>3 DEF On
    <3> QED
      BY <1>1, <1>6, <2>2, <3>3, <3>4, <3>5, <3>6 DEF CallSafe
  <2> QED
    BY <2>1, <2>2
<1>10. ASSUME NEW v \in Whose, v \notin taken', NEW q \in SidePlaces, On(q, "") = v
       PROVE  On(q, "")' = v
  BY <1>1, <1>4, <1>10, OwnerFacts
<1>11. \A v \in Whose : Kept(v)
  BY <1>10 DEF Kept, On
<1> QED
  BY <1>5, <1>8, <1>9, <1>11 DEF SideInv

\* What changes nothing on the disk replaces no file.
LEMMA SideStands ==
  ASSUME SideInv, disk' = disk, underway' = underway, torn' = torn
  PROVE  SideInv' /\ \A v \in Whose : Kept(v)
  BY DEF SideInv, SideTypeOK, Followed, CallSafe, Left, On, Kept

\* A look-up tells the catalog where a file is.
LEMMA ListsKeeps ==
  ASSUME ListedOK, NEW w, NEW p \in SidePlaces, Lists(w, p)
  PROVE  ListedOK'
  BY DEF ListedOK, Lists

\* What the catalog knows is a place or none.
LEMMA ListedStays ==
  ASSUME SideInv, ListedOK, [SideNext]_sideVars
  PROVE  ListedOK'
<1>1. ASSUME UNCHANGED listedAt PROVE ListedOK'
  BY <1>1 DEF ListedOK
<1>2. ASSUME NEW w \in Whose, NEW p \in SidePlaces, CreateFile(w, p) \/ HostMakes(w, p) PROVE ListedOK'
  BY <1>1, <1>2 DEF CreateFile, HostMakes
<1>3. ASSUME NEW p \in SidePlaces, DeleteBegins(p) \/ HostTakes(p) PROVE ListedOK'
  BY <1>1, <1>3 DEF DeleteBegins, HostTakes
<1>4. ASSUME NEW p \in SidePlaces, OpenResFork(p) PROVE ListedOK'
  BY <1>4 DEF OpenResFork, ListedOK
<1>5. ASSUME NEW p \in SidePlaces, SetFInfo(p) PROVE ListedOK'
  BY <1>5, ListsKeeps DEF SetFInfo
<1>6. ASSUME NEW w \in Whose \ FolderIds, CloseResFork(w) PROVE ListedOK'
  BY <1>6 DEF CloseResFork, ListedOK
<1>7. ASSUME NEW w \in Whose \ FolderIds, NEW text, PushFork(w, text) PROVE ListedOK'
  BY <1>1, <1>7 DEF PushFork
<1>8. ASSUME NEW p \in SidePlaces, NEW q \in SidePlaces, Reserve(p, q) PROVE ListedOK'
  BY <1>8, ListsKeeps DEF Reserve
<1>9. ASSUME NEW answered \in BOOLEAN, UnlinkMain(answered) \/ UnlinkSidecar(answered) \/ MoveMain(answered)
      PROVE  ListedOK'
  BY <1>1, <1>9 DEF UnlinkMain, UnlinkSidecar, MoveMain
<1>10. ASSUME NEW answered \in BOOLEAN, MoveSidecar(answered) PROVE ListedOK'
  <2>1. underway.to \in SidePlaces
    <3>1. underway \in Calls /\ underway.call = "move" /\ underway # NoCall
      BY <1>10, NoCallFacts DEF MoveSidecar, SideInv, SideTypeOK
    <3> QED
      BY <3>1, CallFacts
  <2>2. UNCHANGED listedAt \/ Lists(underway.whose, underway.to)
    BY <1>10 DEF MoveSidecar
  <2> QED
    BY <1>1, <2>1, <2>2, ListsKeeps
<1>11. ASSUME StopsMidway PROVE ListedOK'
  BY <1>11 DEF StopsMidway, ListedOK
<1>12. ASSUME UNCHANGED sideVars PROVE ListedOK'
  BY <1>1, <1>12 DEF sideVars
<1> QED
  BY <1>2, <1>3, <1>4, <1>5, <1>6, <1>7, <1>8, <1>9, <1>10, <1>11, <1>12 DEF SideNext

\* Every step keeps the invariant, and every file that is not deleted.
LEMMA SideStepKeeps ==
  ASSUME SideInv, ListedOK, [SideNext]_sideVars
  PROVE  SideInv' /\ ListedOK' /\ \A v \in Whose : Kept(v)
<1>1. CASE UNCHANGED sideVars
  BY <1>1, SideStands, ListedStays DEF sideVars
<1>2. CASE \/ \E p \in SidePlaces : OpenResFork(p)
           \/ \E w \in Whose \ FolderIds : CloseResFork(w)
  BY <1>2, SideStands, ListedStays DEF OpenResFork, CloseResFork
<1>3. CASE SideNext
  BY <1>2, <1>3, ListedStays, CreateFileKeeps, HostMakesKeeps, DeleteBeginsKeeps, HostTakesKeeps, SetFInfoKeeps,
     PushForkKeeps, ReserveKeeps, UnlinkMainKeeps, UnlinkSidecarKeeps, MoveMainKeeps, MoveSidecarKeeps,
     StopsMidwayKeeps DEF SideNext
<1> QED
  BY <1>1, <1>3

\* In every state a sidecar lies beside its own file or is yet to follow it,
\* what a call finds beside its file is that file's, and the name it reserved
\* with O_EXCL is still reserved when the file comes to it (fsRename, fsCatMove,
\* move3, del3), but for the sidecars of the files in torn.
THEOREM SideInvariant == SideSpec => [](SideInv /\ ListedOK)
<1>1. SideInit => SideInv /\ ListedOK
  <2> SUFFICES ASSUME SideInit PROVE SideInv /\ ListedOK
    OBVIOUS
  <2>1. disk = [q \in SideAt |-> Nobody] /\ underway = NoCall /\ torn = {}
    BY DEF SideInit, SideAt
  <2>2. \A p \in SidePlaces, s \in SideSuffixes : On(p, s) = Nobody
    BY <2>1, PlacesApart DEF On
  <2>3. SideTypeOK
    BY <2>1, <2>2, NoCallFacts, OwnerFacts DEF SideTypeOK
  <2>4. Followed /\ CallSafe
    BY <2>1, <2>2, OwnerFacts DEF Followed, CallSafe
  <2>5. ListedOK
    BY DEF SideInit, ListedOK
  <2> QED
    BY <2>3, <2>4, <2>5 DEF SideInv
<1>2. SideInv /\ ListedOK /\ [SideNext]_sideVars => (SideInv /\ ListedOK)'
  BY SideStepKeeps
<1> QED
  BY <1>1, <1>2, PTL DEF SideSpec

\* No step of fsCreate, fsDelete, fsRename or fsCatMove, nor of another program
\* between two of their messages, replaces a file, and none leaves a sidecar
\* beside a file of another, but for the failures that SidecarsFollow names: the
\* action property SidecarsSafe, for any number of files, folders and titles.
THEOREM SidecarsStaySafe == SideSpec => SidecarsSafe
<1>1. SideInv => SidecarsFollow
  <2> SUFFICES ASSUME SideInv, underway = NoCall, NEW p \in SidePlaces, NEW s \in SideSuffixes,
                      disk[At3(p, s)] \in Whose \ torn
               PROVE  disk[At3(p, "")] = disk[At3(p, s)]
    BY DEF SidecarsFollow
  <2> QED
    BY NoneLeft DEF On
<1>a. (SideInv => SidecarsFollow)'
  BY <1>1, PTL
<1>2. SideInv /\ ListedOK /\ [SideNext]_sideVars => [(\A w \in Whose : Kept(w)) /\ SidecarsFollow']_sideVars
  <2> SUFFICES ASSUME SideInv, ListedOK, [SideNext]_sideVars
               PROVE  (\A w \in Whose : Kept(w)) /\ SidecarsFollow'
    OBVIOUS
  <2>1. SideInv' /\ \A w \in Whose : Kept(w)
    BY SideStepKeeps
  <2>2. SidecarsFollow'
    BY <1>a, <2>1
  <2> QED
    BY <2>1, <2>2
<1> QED
  BY <1>2, SideInvariant, PTL DEF SideSpec, SidecarsSafe

-----------------------------------------------------------------------------
(***************************************************************************)
(* FinderInfo, for any codes, any flags and any lines of users.            *)
(***************************************************************************)

\* The sidecar says what it was last given, the Finder has read nothing else.
InfoInv ==
  /\ textToFlags(idump) = Kept4(given)
  /\ setting = <<>> \/ \E info \in Infos : setting = <<info>>
  /\ setting # <<>> => finfo = <<>>
  /\ InfoKept

\* Every colour has a name.
LEMMA ColorNamed ==
  ASSUME NEW C \in SUBSET Color, C # {}
  PROVE  \E n \in DOMAIN FLAGNAMES : FLAGNAMES[n] = C
<1>1. \/ C = {1} \/ C = {2} \/ C = {3} \/ C = {1, 2} \/ C = {1, 3} \/ C = {2, 3} \/ C = {1, 2, 3}
  BY DEF Color
<1> QED
  BY <1>1 DEF FLAGNAMES

\* So has every other flag that the sidecar can hold.
LEMMA BitNamed ==
  ASSUME NEW b \in Named, b \notin Color
  PROVE  \E n \in DOMAIN FLAGNAMES : FLAGNAMES[n] = {b}
<1>1. b \in {6, 7, 8, 10, 11, 12, 13, 14, 15}
  BY DEF Named, FLAGNAMES, Color
<1> QED
  BY <1>1 DEF FLAGNAMES

\* The lines that flags are written as are read as those flags, the nameless
\* ones lost (flagsToText, textToFlags).
LEMMA FlagsComeBack ==
  ASSUME NEW flags
  PROVE  FlagsOf({Full(n) : n \in NamesOf(flags)}) = flags \cap Named
<1> DEFINE lines == {Full(n) : n \in NamesOf(flags)}
<1>1. {k \in lines : k.newline /\ k.name \in DOMAIN FLAGNAMES} = {Full(n) : n \in NamesOf(flags) \cap DOMAIN FLAGNAMES}
  BY DEF Full
<1>2. FlagsOf(lines) = UNION {FLAGNAMES[n] : n \in NamesOf(flags) \cap DOMAIN FLAGNAMES}
  <2> DEFINE K == {k \in lines : k.newline /\ k.name \in DOMAIN FLAGNAMES}
             N == NamesOf(flags) \cap DOMAIN FLAGNAMES
  <2>1. \A n : Full(n).name = n
    BY DEF Full
  <2>2. \A l \in K : l.name \in N
    BY <1>1, <2>1
  <2>3. \A n \in N : Full(n) \in K
    BY <1>1
  <2> HIDE DEF K, N
  <2>4. UNION {FLAGNAMES[l.name] : l \in K} = UNION {FLAGNAMES[n] : n \in N}
    BY <2>1, <2>2, <2>3
  <2> QED
    BY <2>4 DEF K, N, FlagsOf
<1>3. \A n \in NamesOf(flags) \cap DOMAIN FLAGNAMES : FLAGNAMES[n] \subseteq flags
  <2>1. "aoce-letter" \notin DOMAIN FLAGNAMES
    BY DEF FLAGNAMES
  <2> QED
    BY <2>1 DEF NamesOf
<1>4. ASSUME NEW b \in flags \cap Named
      PROVE  \E n \in NamesOf(flags) \cap DOMAIN FLAGNAMES : b \in FLAGNAMES[n]
  <2>1. CASE b \in Color
    <3>1. PICK n \in DOMAIN FLAGNAMES : FLAGNAMES[n] = flags \cap Color
      BY <2>1, ColorNamed
    <3> QED
      BY <2>1, <3>1 DEF NamesOf
  <2>2. CASE b \notin Color
    <3>1. PICK n \in DOMAIN FLAGNAMES : FLAGNAMES[n] = {b}
      BY <2>2, BitNamed
    <3> QED
      BY <2>2, <3>1 DEF NamesOf
  <2> QED
    BY <2>1, <2>2
<1> HIDE DEF lines
<1>5. FlagsOf(lines) = flags \cap Named
  BY <1>2, <1>3, <1>4 DEF Named
<1> QED
  BY <1>5 DEF lines

\* What a text is read as (textToFlags).
LEMMA TextSays ==
  ASSUME NEW t, NEW c, NEW lines
  PROVE  textToFlags(Text(t, c, lines)) = [type |-> Code(t), creator |-> Code(c), flags |-> FlagsOf(lines)]
  BY DEF textToFlags, Text

\* What the sidecar can hold of an information.
LEMMA KeptIs ==
  ASSUME NEW t, NEW c, NEW f
  PROVE  Kept4([type |-> t, creator |-> c, flags |-> f]) =
           [type |-> Code(t), creator |-> Code(c), flags |-> f \cap Named]
<1> DEFINE r == [type |-> t, creator |-> c, flags |-> f]
<1>1. r.type = t /\ r.creator = c /\ r.flags = f
  OBVIOUS
<1>2. Kept4(r) = [r EXCEPT !.type = Code(t), !.creator = Code(c), !.flags = f \cap Named]
  BY <1>1, Zenon DEF Kept4, Code
<1> QED
  BY <1>2

\* A sidecar that is empty or absent says nothing.
LEMMA NothingIsKept == textToFlags(Empty) = Kept4(NoInfo) /\ textToFlags(Absent) = Kept4(NoInfo)
<1>1. Empty.state # "text" /\ Absent.state # "text"
  BY DEF Empty, Absent
<1>2. Kept4(NoInfo) = NoInfo
  <2>1. Code(Zero) = Zero /\ {} \cap Named = {}
    BY FinderInfoAssumption DEF Code
  <2>2. Kept4(NoInfo) = [type |-> Code(Zero), creator |-> Code(Zero), flags |-> {} \cap Named]
    BY KeptIs DEF NoInfo
  <2> QED
    BY <2>1, <2>2 DEF NoInfo
<1> QED
  BY <1>1, <1>2 DEF textToFlags

\* Written and read back, an information is what the sidecar can hold of it
\* (flagsToText, textToFlags).
LEMMA WrittenInfo ==
  ASSUME NEW info \in Infos
  PROVE  textToFlags(flagsToText(info)) = Kept4(info)
<1>1. info = [type |-> info.type, creator |-> info.creator, flags |-> info.flags]
  BY DEF Infos
<1>2. \A x : Code(Shown4(x)) = Code(x)
  BY DEF Code, Shown4
<1>3. textToFlags(flagsToText(info)) =
        [type |-> Code(Shown4(info.type)), creator |-> Code(Shown4(info.creator)),
         flags |-> FlagsOf({Full(n) : n \in NamesOf(info.flags)})]
  BY TextSays DEF flagsToText
<1>4. Kept4(info) = [type |-> Code(info.type), creator |-> Code(info.creator), flags |-> info.flags \cap Named]
  BY <1>1, KeptIs
<1> QED
  <2>1. Code(Shown4(info.type)) = Code(info.type) /\ Code(Shown4(info.creator)) = Code(info.creator)
    BY <1>2
  <2>2. FlagsOf({Full(n) : n \in NamesOf(info.flags)}) = info.flags \cap Named
    BY FlagsComeBack
  <2> QED
    BY <1>3, <1>4, <2>1, <2>2, Zenon

\* Lines mean no flag without a name.
LEMMA FlagsAreNamed == ASSUME NEW lines PROVE FlagsOf(lines) \cap Named = FlagsOf(lines)
  BY DEF FlagsOf, Named

\* A user writes the sidecar.
LEMMA HostWritesKeeps ==
  ASSUME InfoInv, NEW t \in Codes, NEW c \in Codes, NEW h \in HostLines, HostWrites(t, c, h)
  PROVE  InfoInv'
<1>1. /\ idump' = Text(t, c, h.lines) /\ given' = [type |-> t, creator |-> c, flags |-> h.means]
      /\ finfo' = <<>> /\ setting' = setting
  BY DEF HostWrites
<1>2. textToFlags(idump') = [type |-> Code(t), creator |-> Code(c), flags |-> FlagsOf(h.lines)]
  BY <1>1, TextSays
<1>3. Kept4(given') = [type |-> Code(t), creator |-> Code(c), flags |-> h.means \cap Named]
  BY <1>1, KeptIs
<1>4. h.means \cap Named = FlagsOf(h.lines)
  BY LinesAssumption, FlagsAreNamed
<1>5. (textToFlags(idump) = Kept4(given))'
  BY <1>2, <1>3, <1>4 DEF textToFlags, Kept4
<1> QED
  BY <1>1, <1>5 DEF InfoInv, InfoKept

\* The inductive invariant of Finder information: a sidecar is read as what it
\* was last given, and is empty in the middle of being set (fsetattr3).
THEOREM InfoInvariant == InfoSpec => []InfoInv
<1>1. InfoInit => InfoInv
  BY NothingIsKept DEF InfoInit, InfoInv, InfoKept
<1>2. InfoInv /\ [InfoNext]_infoVars => InfoInv'
  <2> SUFFICES ASSUME InfoInv, [InfoNext]_infoVars PROVE InfoInv'
    OBVIOUS
  <2>1. ASSUME NEW info \in Infos, SetTruncates(info) PROVE InfoInv'
    <3>1. idump' = Empty /\ given' = NoInfo /\ finfo' = <<>> /\ setting' = <<info>>
      BY <2>1 DEF SetTruncates
    <3> QED
      BY <3>1, NothingIsKept DEF InfoInv, InfoKept, textToFlags, Kept4
  <2>2. CASE SetWrites
    <3>1. setting # <<>> /\ setting' = <<>> /\ finfo' = finfo
      BY <2>2 DEF SetWrites
    <3>2. PICK info \in Infos : setting = <<info>>
      BY <3>1 DEF InfoInv
    <3>3. finfo' = <<>>
      BY <3>1 DEF InfoInv
    <3>4. setting[1] = info
      BY <3>2
    <3>5. CASE idump' = flagsToText(setting[1]) /\ given' = setting[1]
      <4>1. textToFlags(idump') = Kept4(given')
        BY <3>4, <3>5, WrittenInfo
      <4> QED
        BY <3>1, <3>3, <4>1 DEF InfoInv, InfoKept, textToFlags, Kept4
    <3>6. CASE idump' = idump /\ given' = given
      BY <3>1, <3>3, <3>6 DEF InfoInv, InfoKept, textToFlags, Kept4
    <3> QED
      BY <2>2, <3>5, <3>6 DEF SetWrites
  <2>3. CASE StopsHalfway
    <3>1. setting # <<>> /\ setting' = <<>> /\ finfo' = finfo /\ idump' = idump /\ given' = given
      BY <2>3 DEF StopsHalfway
    <3> QED
      BY <3>1 DEF InfoInv, InfoKept, textToFlags, Kept4
  <2>4. CASE GetInfo
    <3>1. setting = <<>> /\ finfo' = <<textToFlags(idump)>> /\ setting' = setting /\ idump' = idump /\ given' = given
      BY <2>4 DEF GetInfo
    <3>2. finfo'[1] = Kept4(given)
      BY <3>1 DEF InfoInv
    <3> QED
      BY <3>1, <3>2 DEF InfoInv, InfoKept, textToFlags, Kept4
  <2>5. CASE HostRemoves
    <3>1. idump' = Absent /\ given' = NoInfo /\ finfo' = <<>> /\ setting' = setting
      BY <2>5 DEF HostRemoves
    <3> QED
      BY <3>1, NothingIsKept DEF InfoInv, InfoKept, textToFlags, Kept4
  <2>6. CASE UNCHANGED infoVars
    BY <2>6 DEF infoVars, InfoInv, InfoKept, textToFlags, Kept4
  <2> QED
    BY <2>1, <2>2, <2>3, <2>4, <2>5, <2>6, HostWritesKeeps DEF InfoNext
<1> QED
  BY <1>1, <1>2, PTL DEF InfoSpec

\* The Finder gets back what was last given by either side, or nothing where
\* setting was interrupted, for any codes, flags and lines (fsSetFileInfo,
\* fsGetFileInfo).
THEOREM InfoStaysKept == InfoSpec => []InfoKept
<1>1. InfoInv => InfoKept
  BY DEF InfoInv
<1> QED
  BY <1>1, InfoInvariant, PTL

-----------------------------------------------------------------------------
(***************************************************************************)
(* Buf9, for buffers, files and requests of any length.                    *)
(***************************************************************************)

Cells == [1 .. rbufsize -> Int]

\* Cells that hold, from the position of the file on that the first of them is of,
\* what the file holds, and a nul where it ends.
TrueFrom(cells, at) ==
  \A i \in 1 .. rbufsize : /\ at + i - 1 < size => cells[i] = at + i - 1
                           /\ at + i - 1 = size => cells[i] = Nul

\* The buffer is true from the position it is of, if it is of one; the pointer
\* lent is at the position the caller has got to, and stays in the buffer.
ReadInv ==
  /\ size \in Nat \cup {-1} /\ rseek \in Nat /\ rborrow \in Nat
  /\ rgot \in [at : Nat, min : Nat]
  /\ size # -1 => rbuf \in Cells
  /\ rbufat = Poison \/ (rbufat \in Nat /\ size # -1 /\ TrueFrom(rbuf, rbufat))
  /\ rborrow = 0 => rgot = NotLent
  /\ rborrow # 0 =>
       /\ rbufat \in Nat /\ rborrow = 1 + rseek - rbufat
       /\ rgot.at >= rborrow /\ rgot.at + rgot.min <= rbufsize + 1

\* What has been produced is in the file up to the buffer, then in the buffer.
WriteInv ==
  /\ wfile \in Seq(Int) /\ produced \in Seq(Int) /\ wbuf \in [1 .. wbufsize -> Int]
  /\ wbufat \in Nat /\ wseek \in Nat /\ wborrow \in [at : Nat, made : Nat]
  /\ wbufat <= wseek /\ wseek + wborrow.made <= wbufat + wbufsize
  /\ wborrow.at = 0 => wborrow.made = 0
  /\ wborrow.at # 0 => wborrow.at = 1 + wseek - wbufat
  /\ Len(produced) = wseek + wborrow.made
  /\ wbufat <= Len(wfile) /\ Len(wfile) <= Len(produced)
  /\ \A i \in 1 .. Len(produced) :
       produced[i] = IF i > wbufat THEN wbuf[i - wbufat] ELSE wfile[i]

BufInv == ReadInv /\ WriteInv

\* What the two sizes of buffer are (9buf.c's callers choose them), and that the
\* poison is of no position of a file.
LEMMA SizeFacts ==
  /\ rbufsize \in Nat /\ rbufsize > 0 /\ wbufsize \in Nat /\ wbufsize > 0
  /\ Poison \in Int /\ Poison + rbufsize < 0
  /\ Nul \in Int /\ Leftover \in Int
  /\ \A n \in Mins : n \in Nat /\ n > 0 /\ n <= rbufsize
  BY BufAssumption DEF Poison, Nul, Leftover

\* What Read9 leaves is true from a position on if the cells before it were
\* (Gotten, as RBuffer reads).
LEMMA GottenIsTrue ==
  ASSUME NEW cells \in Cells, NEW first \in 1 .. rbufsize + 1, NEW offset \in Nat, NEW get \in Nat,
         NEW at \in Nat, size \in Nat, first + get <= rbufsize + 1, offset = at + first - 1,
         \A i \in 1 .. rbufsize : i < first \/ i >= first + get =>
            /\ at + i - 1 < size => cells[i] = at + i - 1
            /\ at + i - 1 = size => cells[i] = Nul
  PROVE  Gotten(cells, first, offset, get) \in Cells /\ TrueFrom(Gotten(cells, first, offset, get), at)
<1> DEFINE gotten == IF offset >= size THEN 0 ELSE IF size - offset < get THEN size - offset ELSE get
           g == Gotten(cells, first, offset, get)
<1>1. gotten \in Nat /\ gotten <= get
  OBVIOUS
<1>2. \/ gotten = 0 /\ offset >= size
      \/ gotten = size - offset /\ offset < size /\ size - offset < get
      \/ gotten = get /\ offset < size /\ offset + get <= size
  OBVIOUS
<1>3. g = [i \in 1 .. rbufsize |->
             IF i >= first /\ i < first + gotten THEN offset + i - first
             ELSE IF i = first + gotten /\ gotten < get THEN Nul ELSE cells[i]]
  BY DEF Gotten
<1> HIDE DEF g, gotten
<1>4. /\ g \in [1 .. rbufsize -> Int]
      /\ \A i \in 1 .. rbufsize :
           g[i] = IF i >= first /\ i < first + gotten THEN offset + i - first
                  ELSE IF i = first + gotten /\ gotten < get THEN Nul ELSE cells[i]
  BY <1>1, <1>3, SizeFacts DEF Cells
<1>5. ASSUME NEW i \in 1 .. rbufsize
      PROVE  /\ at + i - 1 < size => g[i] = at + i - 1
             /\ at + i - 1 = size => g[i] = Nul
  <2>0. i \in Nat /\ first \in Nat /\ rbufsize \in Nat
    BY SizeFacts
  <2>1. CASE i >= first /\ i < first + gotten
    <3>1. g[i] = offset + i - first
      BY <1>4, <2>1
    <3>2. at + i - 1 < size
      BY <1>1, <1>2, <2>0, <2>1
    <3> QED
      BY <2>0, <3>1, <3>2
  <2>2. CASE i = first + gotten /\ gotten < get
    <3>1. g[i] = Nul
      BY <1>1, <1>4, <2>2
    <3>2. at + i - 1 >= size
      BY <1>1, <1>2, <2>0, <2>2
    <3> QED
      BY <2>0, <3>1, <3>2
  <2>3. CASE ~(i >= first /\ i < first + gotten) /\ ~(i = first + gotten /\ gotten < get)
    <3>1. g[i] = cells[i]
      BY <1>4, <2>3
    <3>2. CASE i < first \/ i >= first + get
      BY <3>1, <3>2
    <3>3. CASE i >= first /\ i < first + get
      <4>1. at + i - 1 > size
        BY <1>1, <1>2, <2>0, <2>3, <3>3
      <4> QED
        BY <2>0, <4>1
    <3> QED
      BY <2>0, <3>2, <3>3
  <2> QED
    BY <2>1, <2>2, <2>3
<1> QED
  BY <1>4, <1>5 DEF g, TrueFrom, Cells

\* The refilled buffer is true from the position asked for, whichever end of
\* what was asked it had (RBuffer's two moves).
LEMMA RefillIsTrue ==
  ASSUME ReadInv, size \in Nat, NEW at \in Nat, NEW min \in Mins, ~InBuffer(at, min)
  PROVE  Refill(at, min) \in Cells /\ TrueFrom(Refill(at, min), at)
<1> DEFINE first == rbufat <= at /\ at < rbufat + rbufsize
           last  == rbufat <= at + min - 1 /\ at + min - 1 < rbufat + rbufsize
           keep  == IF first THEN rbufat + rbufsize - at ELSE at + rbufsize - rbufat
           get   == IF first \/ last THEN rbufsize - keep ELSE rbufsize
           moved == [i \in 1 .. rbufsize |->
                       IF first /\ i <= keep THEN rbuf[i + get]
                       ELSE IF ~first /\ last /\ i > get THEN rbuf[i - get] ELSE rbuf[i]]
<1>0. Refill(at, min) = IF first THEN Gotten(moved, keep + 1, at + keep, get) ELSE Gotten(moved, 1, at, get)
  BY DEF Refill
<1>1. rbuf \in [1 .. rbufsize -> Int] /\ min \in Nat /\ min > 0 /\ min <= rbufsize /\ rbufsize \in Nat
  BY SizeFacts DEF ReadInv, Cells
<1>2. ~ (first /\ last)
  BY <1>1 DEF InBuffer
<1>3. first \/ last => rbufat \in Nat /\ TrueFrom(rbuf, rbufat)
  BY <1>1, SizeFacts DEF ReadInv
<1>4. CASE first
  <2>1. rbufat \in Nat /\ TrueFrom(rbuf, rbufat)
    BY <1>3, <1>4
  <2>2. keep = rbufat + rbufsize - at /\ get = at - rbufat /\ keep \in 1 .. rbufsize /\ get \in Nat
    BY <1>1, <1>4, <2>1
  <2>3. moved = [i \in 1 .. rbufsize |-> IF i <= keep THEN rbuf[i + get] ELSE rbuf[i]]
    BY <1>4
  <2>4. Refill(at, min) = Gotten(moved, keep + 1, at + keep, get)
    BY <1>0, <1>4
  <2> HIDE DEF moved, keep, get
  <2>5. moved \in Cells /\ \A i \in 1 .. rbufsize : moved[i] = IF i <= keep THEN rbuf[i + get] ELSE rbuf[i]
    BY <1>1, <2>1, <2>2, <2>3 DEF Cells
  <2>6. ASSUME NEW i \in 1 .. rbufsize, i < keep + 1 \/ i >= keep + 1 + get
        PROVE  /\ at + i - 1 < size => moved[i] = at + i - 1
               /\ at + i - 1 = size => moved[i] = Nul
    <3>1. i <= keep /\ i + get \in 1 .. rbufsize
      BY <1>1, <2>1, <2>2, <2>6
    <3>2. moved[i] = rbuf[i + get] /\ rbufat + (i + get) - 1 = at + i - 1
      BY <1>1, <2>1, <2>2, <2>5, <3>1
    <3> QED
      BY <2>1, <3>1, <3>2 DEF TrueFrom
  <2>7. /\ keep + 1 \in 1 .. rbufsize + 1 /\ at + keep \in Nat /\ get \in Nat /\ keep + 1 + get <= rbufsize + 1
        /\ at + keep = at + (keep + 1) - 1
    BY <1>1, <2>1, <2>2
  <2> QED
    BY <2>4, <2>5, <2>6, <2>7, GottenIsTrue
<1>5. CASE last
  <2>0. ~first
    BY <1>2, <1>5
  <2>1. rbufat \in Nat /\ TrueFrom(rbuf, rbufat)
    BY <1>3, <1>5
  <2>2. get = rbufat - at /\ get \in 0 .. rbufsize
    BY <1>1, <1>5, <2>0, <2>1
  <2>3. moved = [i \in 1 .. rbufsize |-> IF i > get THEN rbuf[i - get] ELSE rbuf[i]]
    BY <1>5, <2>0
  <2>4. Refill(at, min) = Gotten(moved, 1, at, get)
    BY <1>0, <2>0
  <2> HIDE DEF moved, get
  <2>5. moved \in Cells /\ \A i \in 1 .. rbufsize : moved[i] = IF i > get THEN rbuf[i - get] ELSE rbuf[i]
    BY <1>1, <2>1, <2>2, <2>3 DEF Cells
  <2>6. ASSUME NEW i \in 1 .. rbufsize, i < 1 \/ i >= 1 + get
        PROVE  /\ at + i - 1 < size => moved[i] = at + i - 1
               /\ at + i - 1 = size => moved[i] = Nul
    <3>1. i > get /\ i - get \in 1 .. rbufsize
      BY <1>1, <2>1, <2>2, <2>6
    <3>2. moved[i] = rbuf[i - get] /\ rbufat + (i - get) - 1 = at + i - 1
      BY <1>1, <2>1, <2>2, <2>5, <3>1
    <3> QED
      BY <2>1, <3>1, <3>2 DEF TrueFrom
  <2>7. 1 \in 1 .. rbufsize + 1 /\ get \in Nat /\ 1 + get <= rbufsize + 1 /\ at = at + 1 - 1
    BY <1>1, <2>1, <2>2
  <2> QED
    BY <2>4, <2>5, <2>6, <2>7, GottenIsTrue
<1>6. CASE ~first /\ ~last
  <2>1. moved = [i \in 1 .. rbufsize |-> rbuf[i]] /\ get = rbufsize
    BY <1>6
  <2>2. Refill(at, min) = Gotten(moved, 1, at, get)
    BY <1>0, <1>6
  <2> HIDE DEF moved, get
  <2>3. moved \in Cells
    BY <1>1, <2>1 DEF Cells
  <2>4. /\ 1 \in 1 .. rbufsize + 1 /\ get \in Nat /\ 1 + get <= rbufsize + 1 /\ at = at + 1 - 1
        /\ \A i \in 1 .. rbufsize : ~(i < 1 \/ i >= 1 + get)
    BY <1>1, <2>1
  <2> QED
    BY <2>2, <2>3, <2>4, GottenIsTrue
<1> QED
  BY <1>4, <1>5, <1>6

\* A file to read starts with nothing in the buffer (SetRead).
LEMMA SetReadKeeps == ASSUME ReadInv, NEW s \in Lengths, SetRead(s) PROVE ReadInv'
<1>1. size' \in Nat /\ rseek' = 0 /\ rborrow' = 0 /\ rgot' = NotLent /\ rbufat' = Poison
  BY BufAssumption DEF SetRead
<1>2. rbuf' = [i \in 1 .. rbufsize |-> Leftover]
  BY DEF SetRead
<1>3. rbuf' \in Cells
  BY <1>2, SizeFacts DEF Cells
<1>4. NotLent \in [at : Nat, min : Nat]
  BY DEF NotLent
<1> QED
  BY <1>1, <1>3, <1>4 DEF ReadInv

\* Moving about the file leaves the buffer as it is (RSeek).
LEMMA RSeekKeeps == ASSUME ReadInv, NEW to \in 0 .. size, RSeek(to) PROVE ReadInv'
<1>1. /\ size' = size /\ rbuf' = rbuf /\ rbufat' = rbufat /\ rborrow' = rborrow /\ rgot' = rgot
      /\ rborrow = 0 /\ rseek' = to /\ to \in Nat
  BY DEF RSeek, ReadInv
<1> QED
  BY <1>1 DEF ReadInv, TrueFrom

\* Looking on, going back to the buffer and refilling it all keep it true, and
\* the pointer in it (RBuffer).
LEMMA RBufferKeeps ==
  ASSUME ReadInv, NEW used \in 0 .. rgot.min, NEW min \in {0} \cup Mins, RBuffer(used, min)
  PROVE  ReadInv'
<1>1. size' = size /\ size \in Nat
  BY DEF RBuffer, ReadInv
<1>2. rgot.at \in Nat /\ rgot.min \in Nat /\ used \in Nat /\ used <= rgot.min /\ min \in Nat /\ rseek \in Nat /\ rborrow \in Nat
  BY SizeFacts DEF ReadInv
<1>3. rbufat \in Int /\ rbufsize \in Nat
  BY SizeFacts DEF ReadInv
<1>4. CASE rborrow # 0 /\ min # 0 /\ rgot.at + used + min <= rbufsize + 1
  <2>1. /\ rgot' = [at |-> rgot.at + used, min |-> min]
        /\ rbuf' = rbuf /\ rbufat' = rbufat /\ rseek' = rseek /\ rborrow' = rborrow
    BY <1>4 DEF RBuffer
  <2>2. rgot' \in [at : Nat, min : Nat] /\ rgot'.at = rgot.at + used /\ rgot'.min = min
    BY <1>2, <2>1
  <2> QED
    BY <1>1, <1>2, <1>3, <1>4, <2>1, <2>2 DEF ReadInv, TrueFrom
<1>5. CASE ~(rborrow # 0 /\ min # 0 /\ rgot.at + used + min <= rbufsize + 1)
  <2>1. PICK at : /\ at = IF rborrow # 0 THEN rseek + rgot.at + used - rborrow ELSE rseek
                  /\ rseek' = at
                  /\ IF min = 0
                       THEN rborrow' = 0 /\ rgot' = NotLent /\ UNCHANGED <<rbuf, rbufat>>
                     ELSE IF InBuffer(at, min)
                       THEN /\ rborrow' = 1 + at - rbufat /\ rgot' = [at |-> 1 + at - rbufat, min |-> min]
                            /\ UNCHANGED <<rbuf, rbufat>>
                     ELSE /\ rbuf' = Refill(at, min) /\ rbufat' = at
                          /\ rborrow' = 1 /\ rgot' = [at |-> 1, min |-> min]
    BY <1>5 DEF RBuffer
  <2>2. at \in Nat
    BY <1>2, <2>1 DEF ReadInv
  <2>3. CASE min = 0
    <3>1. NotLent \in [at : Nat, min : Nat]
      BY DEF NotLent
    <3>2. rborrow' = 0 /\ rgot' = NotLent /\ rbuf' = rbuf /\ rbufat' = rbufat /\ rseek' = at
      BY <2>1, <2>3
    <3> QED
      BY <1>1, <2>2, <3>1, <3>2 DEF ReadInv, TrueFrom
  <2>4. CASE min # 0 /\ InBuffer(at, min)
    <3>1. /\ rborrow' = 1 + at - rbufat /\ rgot' = [at |-> 1 + at - rbufat, min |-> min]
          /\ rbuf' = rbuf /\ rbufat' = rbufat /\ rseek' = at
      BY <2>1, <2>4
    <3>2. rbufat <= at /\ at + min - 1 < rbufat + rbufsize
      BY <2>4 DEF InBuffer
    <3>3. rbufat \in Nat
      BY <1>2, <1>3, <2>2, <2>4, <3>2, SizeFacts DEF ReadInv
    <3>4. 1 + at - rbufat \in Nat /\ 1 + at - rbufat > 0
      BY <2>2, <3>2, <3>3
    <3>5. rgot' \in [at : Nat, min : Nat] /\ rgot'.at = 1 + at - rbufat /\ rgot'.min = min
      BY <1>2, <3>1, <3>4
    <3>6. rgot'.at + rgot'.min <= rbufsize + 1
      BY <1>2, <1>3, <2>2, <3>2, <3>5
    <3> QED
      BY <1>1, <2>2, <3>1, <3>3, <3>4, <3>5, <3>6 DEF ReadInv, TrueFrom
  <2>5. CASE min # 0 /\ ~InBuffer(at, min)
    <3>1. rbuf' = Refill(at, min) /\ rbufat' = at /\ rborrow' = 1 /\ rgot' = [at |-> 1, min |-> min] /\ rseek' = at
      BY <2>1, <2>5
    <3>2. min \in Mins
      BY <2>5
    <3>3. Refill(at, min) \in Cells /\ TrueFrom(Refill(at, min), at)
      BY <1>1, <2>2, <2>5, <3>2, RefillIsTrue
    <3>4. rgot' \in [at : Nat, min : Nat] /\ rgot'.at = 1 /\ rgot'.min = min
      BY <1>2, <3>1
    <3>5. 1 + min <= rbufsize + 1
      BY <1>2, <3>2, SizeFacts
    <3>6. rbuf' \in Cells /\ TrueFrom(rbuf, rbufat)'
      BY <1>1, <3>1, <3>3 DEF TrueFrom
    <3> QED
      BY <1>1, <2>2, <3>1, <3>4, <3>5, <3>6 DEF ReadInv
  <2> QED
    BY <2>3, <2>4, <2>5
<1> QED
  BY <1>4, <1>5

\* What is written is no business of the reader's.
LEMMA ReadStutters == ASSUME ReadInv, UNCHANGED rVars PROVE ReadInv'
<1>1. /\ size' = size /\ rbuf' = rbuf /\ rbufat' = rbufat /\ rseek' = rseek /\ rborrow' = rborrow /\ rgot' = rgot
  BY DEF rVars
<1> QED
  BY <1>1 DEF ReadInv, TrueFrom

\* What the caller may look at lies in the buffer, which is true (RBuffer's
\* promise).
LEMMA ReadInvTrue == ASSUME ReadInv PROVE ReadsTrue
<1> SUFFICES ASSUME rborrow # 0, NEW i \in 0 .. rgot.min - 1
             PROVE  LET pos == rseek + rgot.at - rborrow + i
                    IN  /\ pos < size => rbuf[rgot.at + i] = pos
                        /\ pos = size => rbuf[rgot.at + i] = Nul
  BY DEF ReadsTrue
<1>1. /\ rbufat \in Nat /\ rborrow = 1 + rseek - rbufat /\ TrueFrom(rbuf, rbufat)
      /\ rgot.at >= rborrow /\ rgot.at + rgot.min <= rbufsize + 1
      /\ rgot.at \in Nat /\ rgot.min \in Nat /\ rseek \in Nat /\ rborrow \in Nat
  BY SizeFacts DEF ReadInv
<1>2. rgot.at + i \in 1 .. rbufsize
  BY <1>1, SizeFacts
<1>3. rseek + rgot.at - rborrow + i = rbufat + (rgot.at + i) - 1
  BY <1>1
<1> QED
  BY <1>1, <1>2, <1>3 DEF TrueFrom

\* A file after Write9, byte by byte.
LEMMA WrittenIs ==
  ASSUME NEW file \in Seq(Int), NEW at \in Nat, NEW cells \in Seq(Int)
  PROVE  /\ Written(file, at, cells) \in Seq(Int)
         /\ Len(Written(file, at, cells)) =
              IF at + Len(cells) > Len(file) THEN at + Len(cells) ELSE Len(file)
         /\ \A i \in 1 .. Len(Written(file, at, cells)) :
              Written(file, at, cells)[i] =
                IF i > at /\ i <= at + Len(cells) THEN cells[i - at]
                ELSE IF i <= Len(file) THEN file[i] ELSE Nul
<1> DEFINE n == IF at + Len(cells) > Len(file) THEN at + Len(cells) ELSE Len(file)
           w == Written(file, at, cells)
<1>1. Len(cells) \in Nat /\ Len(file) \in Nat /\ n \in Nat
  BY LenProperties
<1>2. w = [i \in 1 .. n |-> IF i > at /\ i <= at + Len(cells) THEN cells[i - at]
                            ELSE IF i <= Len(file) THEN file[i] ELSE Nul]
  BY DEF Written
<1>3. ASSUME NEW i \in 1 .. n
      PROVE  (IF i > at /\ i <= at + Len(cells) THEN cells[i - at]
              ELSE IF i <= Len(file) THEN file[i] ELSE Nul) \in Int
  <2>1. CASE i > at /\ i <= at + Len(cells)
    <3>1. i - at \in 1 .. Len(cells)
      BY <1>1, <2>1
    <3>2. cells[i - at] \in Int
      BY <3>1, ElementOfSeq
    <3> QED
      BY <2>1, <3>2
  <2>2. CASE ~(i > at /\ i <= at + Len(cells)) /\ i <= Len(file)
    <3>1. i \in 1 .. Len(file)
      BY <1>1, <2>2
    <3>2. file[i] \in Int
      BY <3>1, ElementOfSeq
    <3> QED
      BY <2>2, <3>2
  <2>3. CASE ~(i > at /\ i <= at + Len(cells)) /\ ~(i <= Len(file))
    BY <2>3, SizeFacts
  <2> QED
    BY <2>1, <2>2, <2>3
<1> HIDE DEF n
<1>4. w \in [1 .. n -> Int]
  BY <1>2, <1>3
<1>5. w \in Seq(Int) /\ Len(w) = n
  <2> HIDE DEF w
  <2> QED
    BY <1>1, <1>4
<1>6. \A i \in 1 .. n : w[i] = IF i > at /\ i <= at + Len(cells) THEN cells[i - at]
                               ELSE IF i <= Len(file) THEN file[i] ELSE Nul
  BY <1>2
<1> HIDE DEF w
<1> QED
  BY <1>5, <1>6 DEF w, n

\* The first cells of the buffer, which are what WFlush sends.
LEMMA FirstCells ==
  ASSUME wbuf \in [1 .. wbufsize -> Int], NEW k \in 0 .. wbufsize
  PROVE  /\ SubSeq(wbuf, 1, k) \in Seq(Int) /\ Len(SubSeq(wbuf, 1, k)) = k
         /\ \A i \in 1 .. k : SubSeq(wbuf, 1, k)[i] = wbuf[i]
<1>1. wbufsize \in Nat
  BY SizeFacts
<1>2. wbuf \in Seq(Int) /\ Len(wbuf) = wbufsize
  BY <1>1
<1> QED
  BY <1>1, <1>2, SubSeqProperties

\* The file with what is in the buffer is what was produced (what WFlush would
\* leave).
LEMMA FlushedIs ==
  ASSUME WriteInv, NEW seek, seek = wseek + wborrow.made
  PROVE  Written(wfile, wbufat, SubSeq(wbuf, 1, seek - wbufat)) = produced
<1> DEFINE k == seek - wbufat
           c == SubSeq(wbuf, 1, k)
           w == Written(wfile, wbufat, c)
<1>1. /\ wfile \in Seq(Int) /\ produced \in Seq(Int) /\ wbuf \in [1 .. wbufsize -> Int] /\ wbufat \in Nat
      /\ wseek \in Nat /\ wborrow.made \in Nat /\ Len(wfile) \in Nat /\ Len(produced) \in Nat /\ wbufsize \in Nat
      /\ wbufat <= wseek /\ wseek + wborrow.made <= wbufat + wbufsize
      /\ Len(produced) = wseek + wborrow.made /\ wbufat <= Len(wfile) /\ Len(wfile) <= Len(produced)
  BY SizeFacts, LenProperties DEF WriteInv
<1>2. k \in 0 .. wbufsize /\ wbufat + k = Len(produced)
  BY <1>1
<1> HIDE DEF k
<1>3. c \in Seq(Int) /\ Len(c) = k /\ \A i \in 1 .. k : c[i] = wbuf[i]
  BY <1>1, <1>2, FirstCells
<1> HIDE DEF c
<1>4. wfile \in Seq(Int) /\ wbufat \in Nat /\ c \in Seq(Int)
  BY <1>1, <1>3
<1>5. /\ w \in Seq(Int)
      /\ Len(w) = IF wbufat + Len(c) > Len(wfile) THEN wbufat + Len(c) ELSE Len(wfile)
  BY <1>4, WrittenIs DEF w
<1>6. \A i \in 1 .. Len(w) : w[i] = IF i > wbufat /\ i <= wbufat + Len(c) THEN c[i - wbufat]
                                    ELSE IF i <= Len(wfile) THEN wfile[i] ELSE Nul
  BY <1>4, WrittenIs DEF w
<1> HIDE DEF w
<1>7. Len(w) = Len(produced)
  BY <1>1, <1>2, <1>3, <1>5
<1>8. ASSUME NEW i \in 1 .. Len(w) PROVE w[i] = produced[i]
  <2>1. produced[i] = IF i > wbufat THEN wbuf[i - wbufat] ELSE wfile[i]
    BY <1>7 DEF WriteInv
  <2>2. w[i] = IF i > wbufat /\ i <= wbufat + Len(c) THEN c[i - wbufat]
               ELSE IF i <= Len(wfile) THEN wfile[i] ELSE Nul
    BY <1>6
  <2>3. i \in Nat /\ i <= wbufat + k
    BY <1>1, <1>2, <1>7
  <2>4. CASE i > wbufat
    <3>1. i - wbufat \in 1 .. k
      BY <1>1, <1>2, <2>3, <2>4
    <3>2. c[i - wbufat] = wbuf[i - wbufat]
      BY <1>3, <3>1
    <3>3. i <= wbufat + Len(c)
      BY <1>3, <2>3
    <3>4. w[i] = c[i - wbufat]
      BY <2>2, <2>4, <3>3
    <3> QED
      BY <2>1, <2>4, <3>2, <3>4
  <2>5. CASE ~(i > wbufat)
    <3>1. i <= Len(wfile)
      BY <1>1, <2>3, <2>5
    <3>2. w[i] = wfile[i]
      BY <2>2, <2>5, <3>1
    <3> QED
      BY <2>1, <2>5, <3>2
  <2> QED
    BY <2>4, <2>5
<1>9. w = produced
  BY <1>1, <1>5, <1>7, <1>8, SeqEqual
<1> QED
  BY <1>9 DEF w, c, k

\* The file when all that was produced has been flushed (WFlush).
LEMMA FlushKeeps ==
  ASSUME WriteInv, NEW seek \in Nat, seek = wseek + wborrow.made, Flush(seek)
  PROVE  /\ wfile' \in Seq(Int) /\ wbufat' = seek /\ Len(wfile') = seek
         /\ \A i \in 1 .. seek : wfile'[i] = produced[i]
<1>1. /\ Len(produced) = seek /\ wbufat \in Nat /\ wbufat <= seek
      /\ wfile \in Seq(Int) /\ produced \in Seq(Int) /\ Len(wfile) \in Nat /\ wbufat <= Len(wfile) /\ Len(wfile) <= seek
  BY LenProperties DEF WriteInv
<1>2. wbufat' = seek /\ wfile' = IF seek > wbufat THEN Written(wfile, wbufat, SubSeq(wbuf, 1, seek - wbufat)) ELSE wfile
  BY DEF Flush
<1>3. CASE seek > wbufat
  <2>1. Written(wfile, wbufat, SubSeq(wbuf, 1, seek - wbufat)) = produced
    BY FlushedIs
  <2>2. wfile' = produced
    BY <1>2, <1>3, <2>1
  <2> QED
    BY <1>1, <1>2, <2>2
<1>4. CASE ~(seek > wbufat)
  <2>1. wbufat = seek /\ Len(wfile) = seek /\ wfile' = wfile
    BY <1>1, <1>2, <1>4
  <2>2. \A i \in 1 .. seek : wfile[i] = produced[i]
    BY <1>1, <2>1 DEF WriteInv
  <2> QED
    BY <1>1, <1>2, <2>1, <2>2
<1> QED
  BY <1>3, <1>4

\* What is produced goes in the buffer where it comes in the file (what
\* WBuffer's callers do with the pointer).
LEMMA ProduceKeeps ==
  ASSUME WriteInv, NEW made \in Nat, Produce(made)
  PROVE  WriteInv'
<1> DEFINE n == Len(produced)
           a == wborrow.at
           m == wborrow.made
           more == [i \in 1 .. made |-> n + i - 1]
<1>1. /\ wfile \in Seq(Int) /\ produced \in Seq(Int) /\ wbuf \in [1 .. wbufsize -> Int]
      /\ wborrow \in [at : Nat, made : Nat]
  BY DEF WriteInv
<1>2. /\ n \in Nat /\ a \in Nat /\ m \in Nat /\ wbufat \in Nat /\ wseek \in Nat /\ Len(wfile) \in Nat /\ wbufsize \in Nat
      /\ n = wseek + m /\ wbufat <= wseek /\ wbufat <= Len(wfile) /\ Len(wfile) <= n
  BY SizeFacts, LenProperties DEF WriteInv
<1>3. a # 0 /\ a = 1 + wseek - wbufat /\ a + m + made <= wbufsize + 1
  BY DEF WriteInv, Produce
<1>4. wbuf' = [i \in 1 .. wbufsize |-> IF i >= a + m /\ i < a + m + made THEN n + i - a - m ELSE wbuf[i]]
  BY DEF Produce
<1>5. produced' = produced \o more
  BY DEF Produce
<1>6. wborrow' = [wborrow EXCEPT !.made = @ + made]
  BY DEF Produce
<1>7. wfile' = wfile /\ wbufat' = wbufat /\ wseek' = wseek
  BY DEF Produce
<1>8. more \in Seq(Int) /\ Len(more) = made /\ \A i \in 1 .. made : more[i] = n + i - 1
  BY <1>2
<1> HIDE DEF more
<1>9. produced' \in Seq(Int) /\ Len(produced') = n + made
  BY <1>1, <1>5, <1>8, ConcatProperties
<1>10. \A i \in 1 .. n : produced'[i] = produced[i]
  BY <1>1, <1>5, <1>8, ConcatProperties
<1>11. ASSUME NEW i \in 1 .. n + made, i > n PROVE produced'[i] = more[i - n]
  <2>1. \A k \in 1 .. n + Len(more) : (produced \o more)[k] = IF k <= n THEN produced[k] ELSE more[k - n]
    BY <1>1, <1>8, ConcatProperties
  <2>2. i \in 1 .. n + Len(more) /\ ~(i <= n)
    BY <1>2, <1>8, <1>11
  <2> HIDE DEF n
  <2> QED
    BY <1>5, <2>1, <2>2
<1>12. wborrow' \in [at : Nat, made : Nat] /\ wborrow'.at = a /\ wborrow'.made = m + made
  <2>1. wborrow'.at = a /\ wborrow'.made = m + made
    BY <1>1, <1>6
  <2>2. m + made \in Nat
    BY <1>2
  <2> HIDE DEF m
  <2>3. wborrow' = [at |-> a, made |-> m + made]
    BY <1>1, <1>6 DEF m
  <2>4. wborrow' \in [at : Nat, made : Nat]
    BY <1>2, <2>2, <2>3
  <2> QED
    BY <2>1, <2>4
<1>13. ASSUME NEW i \in 1 .. n PROVE produced[i] = IF i > wbufat THEN wbuf[i - wbufat] ELSE wfile[i]
  BY DEF WriteInv
<1> HIDE DEF n, a, m
<1>14. wbuf' \in [1 .. wbufsize -> Int]
  <2>1. ASSUME NEW i \in 1 .. wbufsize
        PROVE  (IF i >= a + m /\ i < a + m + made THEN n + i - a - m ELSE wbuf[i]) \in Int
    BY <1>1, <1>2
  <2> QED
    BY <1>4, <2>1
<1>15. ASSUME NEW i \in 1 .. n + made
       PROVE  produced'[i] = IF i > wbufat THEN wbuf'[i - wbufat] ELSE wfile[i]
  <2>1. CASE i <= n
    <3>1. i \in 1 .. n
      BY <1>2, <2>1
    <3>2. produced'[i] = IF i > wbufat THEN wbuf[i - wbufat] ELSE wfile[i]
      BY <1>10, <1>13, <3>1
    <3>3. CASE i > wbufat
      <4>1. i - wbufat \in 1 .. wbufsize /\ ~(i - wbufat >= a + m)
        BY <1>2, <1>3, <3>1, <3>3
      <4>2. wbuf'[i - wbufat] = wbuf[i - wbufat]
        BY <1>4, <4>1
      <4> QED
        BY <3>2, <3>3, <4>2
    <3> QED
      BY <3>2, <3>3
  <2>2. CASE i > n
    <3>1. i - n \in 1 .. made
      BY <1>2, <2>2
    <3>2. produced'[i] = n + (i - n) - 1
      BY <1>8, <1>11, <2>2, <3>1
    <3>3. i > wbufat /\ i - wbufat \in 1 .. wbufsize
      BY <1>2, <1>3, <2>2
    <3>4. i - wbufat >= a + m /\ i - wbufat < a + m + made
      BY <1>2, <1>3, <2>2
    <3>5. wbuf'[i - wbufat] = n + (i - wbufat) - a - m
      BY <1>4, <3>3, <3>4
    <3>6. n + (i - wbufat) - a - m = n + (i - n) - 1
      BY <1>2, <1>3
    <3> QED
      BY <3>2, <3>3, <3>5, <3>6
  <2> QED
    BY <1>2, <2>1, <2>2
<1>16. wbufat <= wseek /\ wseek + (m + made) <= wbufat + wbufsize
  BY <1>2, <1>3
<1>17. Len(produced') = wseek + (m + made) /\ Len(wfile) <= n + made /\ a # 0
  BY <1>2, <1>3, <1>9
<1>18. \A i \in 1 .. Len(produced') : produced'[i] = IF i > wbufat' THEN wbuf'[i - wbufat'] ELSE wfile'[i]
  BY <1>7, <1>9, <1>15
<1>19. /\ wborrow'.at = 0 => wborrow'.made = 0
       /\ wborrow'.at # 0 => wborrow'.at = 1 + wseek - wbufat
  BY <1>3, <1>12
<1> QED
  BY <1>1, <1>2, <1>7, <1>9, <1>12, <1>14, <1>16, <1>17, <1>18, <1>19 DEF WriteInv

\* Asking for room keeps what has been produced, flushed or not (WBuffer).
LEMMA WBufferKeeps ==
  ASSUME WriteInv, NEW min \in 0 .. rbufsize, WBuffer(min)
  PROVE  WriteInv'
<1> DEFINE seek == wseek + wborrow.made
<1>1. /\ wfile \in Seq(Int) /\ produced \in Seq(Int) /\ wbuf \in [1 .. wbufsize -> Int] /\ wbufat \in Nat
      /\ wseek \in Nat /\ wborrow \in [at : Nat, made : Nat] /\ wborrow.at \in Nat /\ wborrow.made \in Nat
      /\ Len(produced) = seek /\ seek \in Nat /\ Len(wfile) \in Nat /\ wbufsize \in Nat \ {0} /\ min \in Nat
      /\ wbufat <= seek /\ seek <= wbufat + wbufsize /\ wbufat <= Len(wfile) /\ Len(wfile) <= seek
  BY SizeFacts, LenProperties DEF WriteInv
<1>2. wbuf' = wbuf /\ produced' = produced
  BY DEF WBuffer
<1>3. \A i \in 1 .. seek : produced[i] = IF i > wbufat THEN wbuf[i - wbufat] ELSE wfile[i]
  BY <1>1 DEF WriteInv
<1>4. CASE wfile' = wfile /\ wbufat' = wbufat /\ wseek' = wseek /\ wborrow' = wborrow
  BY <1>2, <1>4 DEF WriteInv
<1>5. CASE wseek' = seek /\ wborrow' = NothingLent /\ wfile' = wfile /\ wbufat' = wbufat
  <2>1. wborrow' \in [at : Nat, made : Nat] /\ wborrow'.at = 0 /\ wborrow'.made = 0
    BY <1>5 DEF NothingLent
  <2> HIDE DEF seek
  <2> QED
    BY <1>1, <1>2, <1>3, <1>5, <2>1 DEF WriteInv
<1>6. CASE /\ wseek' = seek /\ seek + min < wbufat + wbufsize
           /\ wborrow' = [at |-> 1 + seek - wbufat, made |-> 0] /\ wfile' = wfile /\ wbufat' = wbufat
  <2> HIDE DEF seek
  <2>1. 1 + seek - wbufat \in Nat /\ 1 + seek - wbufat # 0
    BY <1>1
  <2>2. wborrow'.at = 1 + seek - wbufat /\ wborrow'.made = 0
    BY <1>6
  <2>3. wborrow' \in [at : Nat, made : Nat]
    BY <1>6, <2>1
  <2> QED
    BY <1>1, <1>2, <1>3, <1>6, <2>1, <2>2, <2>3 DEF WriteInv
<1>7. CASE wseek' = seek /\ wborrow' = [at |-> 1, made |-> 0] /\ Flush(seek)
  <2>1. wborrow' \in [at : Nat, made : Nat] /\ wborrow'.at = 1 /\ wborrow'.made = 0
    BY <1>7
  <2>2. /\ wfile' \in Seq(Int) /\ wbufat' = seek /\ Len(wfile') = seek
        /\ \A i \in 1 .. seek : wfile'[i] = produced[i]
    BY <1>1, <1>7, FlushKeeps
  <2>3. \A i \in 1 .. seek : produced'[i] = IF i > wbufat' THEN wbuf'[i - wbufat'] ELSE wfile'[i]
    BY <1>1, <1>2, <2>2
  <2> HIDE DEF seek
  <2> QED
    BY <1>1, <1>2, <1>7, <2>1, <2>2, <2>3 DEF WriteInv
<1>8. \/ wfile' = wfile /\ wbufat' = wbufat /\ wseek' = wseek /\ wborrow' = wborrow
      \/ wseek' = seek /\ wborrow' = NothingLent /\ wfile' = wfile /\ wbufat' = wbufat
      \/ /\ wseek' = seek /\ seek + min < wbufat + wbufsize
         /\ wborrow' = [at |-> 1 + seek - wbufat, made |-> 0] /\ wfile' = wfile /\ wbufat' = wbufat
      \/ wseek' = seek /\ wborrow' = [at |-> 1, made |-> 0] /\ Flush(wseek')
  BY DEF WBuffer
<1>9. wseek' = seek /\ Flush(wseek') => Flush(seek)
  BY DEF Flush
<1> QED
  BY <1>4, <1>5, <1>6, <1>7, <1>8, <1>9

\* So does flushing on demand (WFlush).
LEMMA WFlushKeeps ==
  ASSUME WriteInv, WFlush
  PROVE  WriteInv'
<1>1. /\ produced \in Seq(Int) /\ wbuf \in [1 .. wbufsize -> Int] /\ wseek \in Nat
      /\ wborrow \in [at : Nat, made : Nat] /\ wborrow.at = 0 /\ wborrow.made = 0
      /\ Len(produced) = wseek /\ wseek = wseek + wborrow.made /\ wbufsize \in Nat
  BY SizeFacts DEF WriteInv, WFlush
<1>2. /\ wfile' \in Seq(Int) /\ wbufat' = wseek /\ Len(wfile') = wseek
      /\ \A i \in 1 .. wseek : wfile'[i] = produced[i]
  BY <1>1, FlushKeeps DEF WFlush
<1>3. wbuf' = wbuf /\ wseek' = wseek /\ wborrow' = wborrow /\ produced' = produced
  BY DEF WFlush
<1> QED
  BY <1>1, <1>2, <1>3 DEF WriteInv

\* Bytes rewritten in the buffer and in the file are those of what was produced
\* (Rewrite).
LEMMA RewriteKeeps ==
  ASSUME WriteInv, NEW at \in Nat, NEW cnt \in Nat, Rewrite(at, cnt)
  PROVE  WriteInv'
<1> DEFINE new == New(at, cnt)
<1>1. /\ wfile \in Seq(Int) /\ produced \in Seq(Int) /\ wbuf \in [1 .. wbufsize -> Int]
      /\ wborrow \in [at : Nat, made : Nat] /\ wborrow.at = 0 /\ wborrow.made = 0
  BY DEF WriteInv, Rewrite
<1>2. /\ wbufat \in Nat /\ wseek \in Nat /\ Len(wfile) \in Nat /\ Len(produced) \in Nat /\ wbufsize \in Nat
      /\ wbufat <= wseek /\ wseek <= wbufat + wbufsize /\ Len(produced) = wseek
      /\ wbufat <= Len(wfile) /\ Len(wfile) <= wseek
  BY <1>1, SizeFacts, LenProperties DEF WriteInv
<1>3. at + cnt <= wseek
  BY DEF Rewrite
<1>4. new \in Seq(Int) /\ Len(new) = cnt
  BY DEF New
<1>5. wbuf' = [i \in 1 .. wbufsize |->
                 IF wbufat + i - 1 >= at /\ wbufat + i - 1 < at + cnt /\ wbufat + i - 1 < wseek
                   THEN new[wbufat + i - at] ELSE wbuf[i]]
  BY DEF Rewrite
<1>6. wfile' = IF at >= wbufat THEN wfile ELSE Written(wfile, at, new)
  BY DEF Rewrite
<1>7. produced' = Written(produced, at, new)
  BY DEF Rewrite
<1>8. wbufat' = wbufat /\ wseek' = wseek /\ wborrow' = wborrow
  BY DEF Rewrite
<1>9. ASSUME NEW i \in 1 .. Len(produced) PROVE produced[i] = IF i > wbufat THEN wbuf[i - wbufat] ELSE wfile[i]
  BY DEF WriteInv
<1> HIDE DEF new
<1>10. /\ produced' \in Seq(Int)
       /\ Len(produced') = IF at + Len(new) > Len(produced) THEN at + Len(new) ELSE Len(produced)
  BY <1>1, <1>4, <1>7, WrittenIs
<1>11. \A i \in 1 .. Len(produced') : produced'[i] = IF i > at /\ i <= at + Len(new) THEN new[i - at]
                                                     ELSE IF i <= Len(produced) THEN produced[i] ELSE Nul
  BY <1>1, <1>4, <1>7, WrittenIs
<1>12. Len(produced') = wseek
  BY <1>2, <1>3, <1>4, <1>10
<1>13. ASSUME NEW i \in 1 .. wseek
       PROVE  produced'[i] = IF i > at /\ i <= at + cnt THEN new[i - at] ELSE produced[i]
  <2>1. i \in 1 .. Len(produced') /\ i <= Len(produced)
    BY <1>2, <1>12
  <2> QED
    BY <1>4, <1>11, <2>1
<1>14. wbuf' \in [1 .. wbufsize -> Int]
  <2>1. ASSUME NEW i \in 1 .. wbufsize
        PROVE  (IF wbufat + i - 1 >= at /\ wbufat + i - 1 < at + cnt /\ wbufat + i - 1 < wseek
                  THEN new[wbufat + i - at] ELSE wbuf[i]) \in Int
    <3>1. CASE wbufat + i - 1 >= at /\ wbufat + i - 1 < at + cnt
      <4>1. wbufat + i - at \in 1 .. Len(new)
        BY <1>2, <1>4, <3>1
      <4>2. new[wbufat + i - at] \in Int
        BY <1>4, <4>1, ElementOfSeq
      <4>3. wbuf[i] \in Int
        BY <1>1
      <4> QED
        BY <4>2, <4>3
    <3>2. CASE ~(wbufat + i - 1 >= at /\ wbufat + i - 1 < at + cnt)
      BY <1>1, <3>2
    <3> QED
      BY <3>1, <3>2
  <2> QED
    BY <1>5, <2>1
<1> DEFINE fileOk == /\ wfile' \in Seq(Int) /\ wbufat <= Len(wfile') /\ Len(wfile') <= wseek
                     /\ \A i \in 1 .. wbufat : wfile'[i] = produced'[i]
<1>15. ASSUME at >= wbufat PROVE fileOk
  <2>1. wfile' = wfile
    BY <1>6, <1>15
  <2>2. ASSUME NEW i \in 1 .. wbufat PROVE wfile'[i] = produced'[i]
    <3>1. i \in 1 .. wseek /\ i \in 1 .. Len(produced) /\ ~(i > wbufat) /\ ~(i > at)
      BY <1>2, <1>15
    <3> QED
      BY <1>9, <1>13, <2>1, <3>1
  <2> QED
    BY <1>1, <1>2, <2>1, <2>2
<1>16. ASSUME ~(at >= wbufat) PROVE fileOk
  <2>1. wfile' = Written(wfile, at, new)
    BY <1>6, <1>16
  <2>2. /\ wfile' \in Seq(Int)
        /\ Len(wfile') = IF at + Len(new) > Len(wfile) THEN at + Len(new) ELSE Len(wfile)
    BY <1>1, <1>4, <2>1, WrittenIs
  <2>3. \A i \in 1 .. Len(wfile') : wfile'[i] = IF i > at /\ i <= at + Len(new) THEN new[i - at]
                                                ELSE IF i <= Len(wfile) THEN wfile[i] ELSE Nul
    BY <1>1, <1>4, <2>1, WrittenIs
  <2>4. wbufat <= Len(wfile') /\ Len(wfile') <= wseek
    BY <1>2, <1>3, <1>4, <2>2
  <2>5. ASSUME NEW i \in 1 .. wbufat PROVE wfile'[i] = produced'[i]
    <3>1. i \in 1 .. wseek /\ i \in 1 .. Len(produced) /\ ~(i > wbufat) /\ i <= Len(wfile)
      BY <1>2
    <3>2. i \in 1 .. Len(wfile')
      BY <1>2, <2>2, <2>4
    <3>3. wfile'[i] = IF i > at /\ i <= at + cnt THEN new[i - at] ELSE wfile[i]
      BY <1>4, <2>3, <3>1, <3>2
    <3> QED
      BY <1>9, <1>13, <3>1, <3>3
  <2> QED
    BY <2>2, <2>4, <2>5
<1>17. /\ wfile' \in Seq(Int) /\ wbufat <= Len(wfile') /\ Len(wfile') <= wseek
       /\ \A i \in 1 .. wbufat : wfile'[i] = produced'[i]
  BY <1>15, <1>16
<1>18. ASSUME NEW i \in 1 .. wseek
       PROVE  produced'[i] = IF i > wbufat THEN wbuf'[i - wbufat] ELSE wfile'[i]
  <2>1. CASE i > wbufat
    <3> DEFINE j == i - wbufat
    <3>1. j \in 1 .. wbufsize /\ wbufat + j - 1 = i - 1 /\ wbufat + j - at = i - at
      BY <1>2, <2>1
    <3>2. wbuf'[j] = IF wbufat + j - 1 >= at /\ wbufat + j - 1 < at + cnt /\ wbufat + j - 1 < wseek
                       THEN new[wbufat + j - at] ELSE wbuf[j]
      BY <1>5, <3>1
    <3>3. wbuf'[j] = IF i - 1 >= at /\ i - 1 < at + cnt /\ i - 1 < wseek THEN new[i - at] ELSE wbuf[j]
      BY <3>1, <3>2
    <3>4. (i - 1 >= at <=> i > at) /\ (i - 1 < at + cnt <=> i <= at + cnt) /\ i - 1 < wseek
      BY <1>2
    <3>5. produced[i] = wbuf[j]
      BY <1>2, <1>9, <2>1
    <3> HIDE DEF j
    <3>6. wbuf'[j] = produced'[i]
      BY <1>13, <3>3, <3>4, <3>5
    <3> QED
      BY <2>1, <3>6 DEF j
  <2>2. CASE ~(i > wbufat)
    <3>1. i \in 1 .. wbufat
      BY <1>2, <2>2
    <3> QED
      BY <1>17, <2>2, <3>1
  <2> QED
    BY <2>1, <2>2
<1> QED
  BY <1>1, <1>2, <1>8, <1>10, <1>12, <1>14, <1>17, <1>18 DEF WriteInv

\* The buffers' inductive invariant: the one read is true from the position it
\* is of, the one written goes on where the file stops (9buf.c), for buffers and
\* files of any size.
THEOREM BufInvariant == BufSpec => []BufInv
<1>1. BufInit => BufInv
  <2>1. ASSUME BufInit PROVE ReadInv
    BY <2>1, SizeFacts DEF BufInit, ReadInv, NotLent, Poison
  <2>2. ASSUME BufInit PROVE WriteInv
    <3>1. /\ wfile = <<>> /\ produced = <<>> /\ wbufat = 0 /\ wseek = 0 /\ wborrow = NothingLent
          /\ wbuf = [i \in 1 .. wbufsize |-> Leftover]
      BY <2>2 DEF BufInit
    <3>2. wbuf \in [1 .. wbufsize -> Int]
      BY <3>1 DEF Leftover
    <3>3. wborrow \in [at : Nat, made : Nat] /\ wborrow.at = 0 /\ wborrow.made = 0
      BY <3>1 DEF NothingLent
    <3>4. <<>> \in Seq(Int) /\ Len(<<>>) = 0
      OBVIOUS
    <3> QED
      BY <3>1, <3>2, <3>3, <3>4, SizeFacts DEF WriteInv
  <2> QED
    BY <2>1, <2>2 DEF BufInv
<1>2. BufInv /\ [BufNext]_bufVars => BufInv'
  <2> SUFFICES ASSUME BufInv, [BufNext]_bufVars PROVE BufInv'
    OBVIOUS
  <2>1. ReadInv /\ WriteInv /\ Mins \subseteq Nat \ {0} /\ Mins \subseteq 0 .. rbufsize
    BY BufAssumption DEF BufInv
  <2>2. ASSUME NEW s \in Lengths, SetRead(s) PROVE ReadInv' /\ UNCHANGED wVars
    BY <2>1, <2>2, SetReadKeeps DEF SetRead
  <2>3. ASSUME NEW to \in 0 .. size, RSeek(to) PROVE ReadInv' /\ UNCHANGED wVars
    BY <2>1, <2>3, RSeekKeeps DEF RSeek
  <2>4. ASSUME NEW used \in 0 .. rgot.min, NEW min \in {0} \cup Mins, RBuffer(used, min)
        PROVE  ReadInv' /\ UNCHANGED wVars
    BY <2>1, <2>4, RBufferKeeps DEF RBuffer
  <2>5. ASSUME NEW made \in Mins, Produce(made) PROVE WriteInv' /\ UNCHANGED rVars
    <3>1. made \in Nat
      BY <2>1
    <3> QED
      BY <2>1, <2>5, <3>1, ProduceKeeps DEF Produce
  <2>6. ASSUME NEW min \in {0} \cup Mins, WBuffer(min) PROVE WriteInv' /\ UNCHANGED rVars
    <3>1. min \in 0 .. rbufsize
      BY <2>1, SizeFacts
    <3> QED
      BY <2>1, <2>6, <3>1, WBufferKeeps DEF WBuffer
  <2>7. ASSUME WFlush PROVE WriteInv' /\ UNCHANGED rVars
    BY <2>1, <2>7, WFlushKeeps DEF WFlush
  <2>8. ASSUME NEW at \in 0 .. wseek, NEW cnt \in Mins, Rewrite(at, cnt) PROVE WriteInv' /\ UNCHANGED rVars
    <3>1. at \in Nat /\ cnt \in Nat
      BY <2>1 DEF WriteInv
    <3> QED
      BY <2>1, <2>8, <3>1, RewriteKeeps DEF Rewrite
  <2>9. UNCHANGED wVars => WriteInv'
    BY <2>1 DEF WriteInv, wVars
  <2>10. UNCHANGED rVars => ReadInv'
    BY <2>1, ReadStutters
  <2>11. CASE ReadNext
    BY <2>2, <2>3, <2>4, <2>9, <2>11 DEF ReadNext, BufInv
  <2>12. CASE WriteNext
    BY <2>5, <2>6, <2>7, <2>8, <2>10, <2>12 DEF WriteNext, BufInv
  <2>13. CASE UNCHANGED bufVars
    BY <2>9, <2>10, <2>13 DEF bufVars, BufInv
  <2> QED
    BY <2>11, <2>12, <2>13 DEF BufNext
<1> QED
  BY <1>1, <1>2, PTL DEF BufSpec

\* Nobody sees the buffers: what RBuffer lends is the file, and what the file
\* and the buffer hold is what was produced through WBuffer and Rewrite.
THEOREM BuffersStayTrue == BufSpec => []BuffersTrue
<1>1. BufInv => BuffersTrue
  <2> SUFFICES ASSUME ReadInv, WriteInv PROVE BuffersTrue
    BY DEF BufInv
  <2>1. ReadsTrue
    BY ReadInvTrue
  <2>2. WritesTrue
    <3>1. PICK seek : seek = wseek + wborrow.made
      OBVIOUS
    <3>2. wseek \in Nat /\ wborrow.made \in Nat /\ wbufat \in Nat /\ seek \in Nat
      BY <3>1 DEF WriteInv
    <3>3. Written(wfile, wbufat, SubSeq(wbuf, 1, seek - wbufat)) = produced
      BY <3>1, FlushedIs
    <3> QED
      BY <3>1, <3>2, <3>3 DEF WritesTrue
  <2> QED
    BY <2>1, <2>2 DEF BuffersTrue
<1> QED
  BY <1>1, BufInvariant, PTL
=============================================================================
