------------------------------ MODULE ForkCache ------------------------------
(***************************************************************************)
(* The resource fork of a file (multifork-3.c): a text beside the file on  *)
(* the host, FILE.rdump, that the driver turns into a binary fork of its   *)
(* own when it is asked for (pull) and writes back when the fork has been  *)
(* written to (push), with a record of the text's size and time by which   *)
(* it knows whether the two agree.                                         *)
(*                                                                         *)
(* Contents are version numbers from a clock that also gives the times, so *)
(* two writes of a text never have the same time.  Every message to the    *)
(* host that another party can come between is a step; the host edits or   *)
(* deletes the text at any time, and the machine may restart at any time.  *)
(* The conversion itself (rez.c, derez.c) is taken for exact.              *)
(*                                                                         *)
(* A place is a directory and a name.  Where a fork is pushed to is the    *)
(* place that the catalog knows for the file: every call that looks the    *)
(* file up sets it, and so does a rename that succeeds, but not a CatMove. *)
(* The panics of close3 and seteof3, when the catalog knows of no place or *)
(* the directory has gone, are left out.                                   *)
(***************************************************************************)
EXTENDS Integers

CONSTANTS
  FileNames,   \* the places the file may be at
  Gone,        \* no place: the file is deleted
  MaxClock     \* bound on versions and times

ASSUME ForkAssumption == FileNames # {} /\ Gone \notin FileNames /\ MaxClock \in Nat

VARIABLES
  fname,     \* the place of the file
  knownAt,   \* the place of the file that the catalog knows
  rdump,     \* FILE.rdump, by place of the file
  cached,    \* resforks/N/CNID: its version, whether empty, "bare": only its length was set
  rezstat,   \* resforks/N/CNID-rezstat: none, an empty file, or a time
  opened,    \* of the FCB that has the fork open, DIRTYFLAG
  work,      \* the call in progress
  clock,
  owed,      \* history: the version that a close or a flush last put in place
  parted     \* history: since then the file was parted from its text: see PushedIsSafe

forkVars == <<fname, knownAt, rdump, cached, rezstat, opened, work, clock, owed, parted>>

NoText      == [there |-> FALSE, ver |-> 0, time |-> 0, whole |-> TRUE]
NoCache     == [ver |-> 0, empty |-> TRUE, bare |-> FALSE]
NoRecord    == [there |-> FALSE, time |-> 0]
EmptyRecord == [there |-> TRUE, time |-> 0]
RecordOf(t) == [there |-> TRUE, time |-> t.time]
Closed      == [open |-> FALSE, dirty |-> FALSE]
AtRest      == [pc |-> "idle", then |-> "stat", seen |-> NoText, from |-> Gone]

Doing(pc)       == work' = [work EXCEPT !.pc = pc]
Starting(then)  == work.pc = "idle" /\ fname # Gone
Later           == clock < MaxClock /\ clock' = clock + 1

(***************************************************************************)
(* statResourceFork and pullResourceFork.                                  *)
(***************************************************************************)
\* The record and the text are both empty or absent, or have one time and size.
Agrees(t) == rezstat.there /\ rezstat.time = IF t.there THEN t.time ELSE 0

\* What is done with a fork that is up to date: open3 opens it.
UpToDate(then) == opened' = IF then = "open" THEN [Closed EXCEPT !.open = TRUE] ELSE opened

\* statResourceFork, for fgetattr3 or for open3, when the file has been looked
\* up.  A fork that is open is right.
StatFork(then) ==
  /\ Starting(then)
  /\ then = "open" => ~opened.open
  /\ IF opened.open \/ Agrees(rdump[fname])
       THEN UpToDate(then) /\ UNCHANGED work
       ELSE work' = [AtRest EXCEPT !.pc = "pull", !.then = then] /\ UNCHANGED opened
  /\ knownAt' = fname
  /\ UNCHANGED <<fname, rdump, cached, rezstat, clock, owed, parted>>

\* The text is walked to and its size and time are taken.  If there is none, the
\* fork and the record are emptied.
PullStat ==
  /\ work.pc = "pull"
  /\ IF rdump[fname].there
       THEN work' = [work EXCEPT !.pc = "rez", !.seen = rdump[fname]] /\ UNCHANGED <<cached, rezstat, opened>>
       ELSE /\ cached' = [NoCache EXCEPT !.ver = rdump[fname].ver]
            /\ rezstat' = EmptyRecord
            /\ UpToDate(work.then) /\ work' = AtRest
  /\ UNCHANGED <<fname, knownAt, rdump, clock, owed, parted>>

\* Faulty variant: the size and time are taken when the text has been read.
PullRezStatLast ==
  /\ work.pc = "rez"
  /\ cached' = [ver |-> work.seen.ver, empty |-> FALSE, bare |-> FALSE]
  /\ rezstat' = IF rdump[fname].there THEN RecordOf(rdump[fname]) ELSE RecordOf(work.seen)
  /\ UpToDate(work.then) /\ work' = AtRest
  /\ UNCHANGED <<fname, knownAt, rdump, clock, owed, parted>>

\* Rez reads it, as it was or as it has been edited since; then the record.
PullRez ==
  /\ work.pc = "rez"
  /\ \E t \in {work.seen} \cup {s \in {rdump[fname]} : s.there} :
       cached' = [ver |-> t.ver, empty |-> FALSE, bare |-> FALSE]
  /\ rezstat' = RecordOf(work.seen)
  /\ UpToDate(work.then) /\ work' = AtRest
  /\ UNCHANGED <<fname, knownAt, rdump, clock, owed, parted>>

(***************************************************************************)
(* write3, seteof3, close3.                                                *)
(***************************************************************************)
write3 ==
  /\ Starting("write") /\ opened.open /\ Later
  /\ cached' = [ver |-> clock', empty |-> FALSE, bare |-> cached.bare /\ ~opened.dirty]
  /\ opened' = [opened EXCEPT !.dirty = TRUE]
  /\ UNCHANGED <<fname, knownAt, rdump, rezstat, work, owed, parted>>

\* A length is set, zero or not: a promise that the fork is consistent, so it is
\* pushed if it is marked or empty.
seteof3(zero) ==
  /\ Starting("seteof") /\ opened.open /\ Later
  /\ cached' = [ver |-> clock', empty |-> zero \/ cached.empty,
              bare |-> ~opened.dirty /\ ~zero]
  /\ IF opened.dirty \/ zero
       THEN work' = [AtRest EXCEPT !.pc = "push", !.then = "seteof"] ELSE UNCHANGED work
  /\ opened' = [opened EXCEPT !.dirty = @ /\ ~opened.dirty]
  /\ UNCHANGED <<fname, knownAt, rdump, rezstat, owed, parted>>

close3 ==
  /\ Starting("close") /\ opened.open
  /\ IF opened.dirty
       THEN /\ work' = [AtRest EXCEPT !.pc = "push", !.then = "close"]
            /\ opened' = [opened EXCEPT !.dirty = FALSE]
       ELSE opened' = Closed /\ UNCHANGED work
  /\ UNCHANGED <<fname, knownAt, rdump, cached, rezstat, clock, owed, parted>>

(***************************************************************************)
(* pushResourceFork, to the place that the catalog knows.  What a rename   *)
(* or an unlink there answers is not looked at.                            *)
(***************************************************************************)
Pushed == work' = AtRest /\ opened' = IF work.then = "close" THEN Closed ELSE opened

\* The text of what was pushed is where the file is, or it is not.
Placed(answered) ==
  /\ owed' = [ver |-> cached.ver, empty |-> cached.empty]
  /\ parted' = (~answered \/ knownAt # fname)

\* The record of an empty fork; or FILE.rdump.tmp, not all of it yet.
Push ==
  /\ work.pc = "push"
  /\ IF cached.empty THEN rezstat' = EmptyRecord /\ Doing("unlink")
     ELSE Doing("derez") /\ UNCHANGED rezstat
  /\ UNCHANGED <<fname, knownAt, rdump, cached, opened, clock, owed, parted>>

\* FILE.rdump.tmp is complete and its size and time are taken.
PushDeRez ==
  /\ work.pc = "derez" /\ Later
  /\ work' = [work EXCEPT !.pc = "rename",
                      !.seen = [there |-> TRUE, ver |-> cached.ver, time |-> clock', whole |-> TRUE]]
  /\ UNCHANGED <<fname, knownAt, rdump, cached, rezstat, opened, owed, parted>>

PushRename(answered) ==
  /\ work.pc = "rename"
  /\ rdump' = IF answered THEN [rdump EXCEPT ![knownAt] = work.seen] ELSE rdump
  /\ Placed(answered)
  /\ Doing("record")
  /\ UNCHANGED <<fname, knownAt, cached, rezstat, opened, clock>>

PushRecord ==
  /\ work.pc = "record"
  /\ rezstat' = RecordOf(work.seen)
  /\ Pushed
  /\ UNCHANGED <<fname, knownAt, rdump, cached, clock, owed, parted>>

PushUnlink(answered) ==
  /\ work.pc = "unlink"
  /\ rdump' = IF answered THEN [rdump EXCEPT ![knownAt] = [NoText EXCEPT !.ver = cached.ver]] ELSE rdump
  /\ Placed(answered)
  /\ Pushed
  /\ UNCHANGED <<fname, knownAt, cached, rezstat, clock>>

(***************************************************************************)
(* move3 and del3: the file, then its text.                                *)
(***************************************************************************)
\* For fsRename or fsCatMove, when the file has been looked up.
move3(then) ==
  /\ Starting("move")
  /\ \E place \in FileNames \ {fname} :
       fname' = place /\ work' = [AtRest EXCEPT !.pc = "movetext", !.then = then, !.from = fname]
  /\ knownAt' = fname
  /\ UNCHANGED <<rdump, cached, rezstat, opened, clock, owed, parted>>

\* A text that is not there is not missed, and one left at the new place stays.
\* fsRename tells the catalog if neither this nor the other sidecar's rename
\* failed; fsCatMove never does.
move3Text(answered) ==
  /\ work.pc = "movetext"
  /\ rdump' = IF answered /\ (rdump[work.from].there \/ ~rdump[fname].there)
               THEN [rdump EXCEPT ![fname] = rdump[work.from], ![work.from] = NoText] ELSE rdump
  /\ knownAt' \in {knownAt} \cup (IF answered /\ work.then = "rename" THEN {fname} ELSE {})
  /\ parted' = (parted \/ ~answered \/ (~rdump[work.from].there /\ rdump[fname].there))
  /\ work' = AtRest
  /\ UNCHANGED <<fname, cached, rezstat, opened, clock, owed>>

\* A file that is open is not deleted.
del3 ==
  /\ Starting("delete") /\ ~opened.open
  /\ fname' = Gone /\ work' = [AtRest EXCEPT !.pc = "deltext", !.from = fname]
  /\ knownAt' = fname
  /\ UNCHANGED <<rdump, cached, rezstat, opened, clock, owed, parted>>

\* Best effort: it may be left there.
del3Text(answered) ==
  /\ work.pc = "deltext"
  /\ rdump' = IF answered THEN [rdump EXCEPT ![work.from] = NoText] ELSE rdump
  /\ work' = AtRest
  /\ owed' = [ver |-> 0, empty |-> TRUE]
  /\ UNCHANGED <<fname, knownAt, cached, rezstat, opened, clock, parted>>

\* fsCreate, of a file that gets the same CNID.
Create(name) ==
  /\ work.pc = "idle" /\ fname = Gone
  /\ fname' = name
  /\ UNCHANGED <<knownAt, rdump, cached, rezstat, opened, work, clock, owed, parted>>

(***************************************************************************)
(* The host, and a restart: init3 takes a new directory for the forks.     *)
(***************************************************************************)
ComesBetween == parted' = (parted \/ work.pc \in {"movetext", "deltext"})

HostEdits(name) ==
  /\ Later /\ name \in {fname, work.from}
  /\ rdump' = [rdump EXCEPT ![name] = [there |-> TRUE, ver |-> clock', time |-> clock', whole |-> TRUE]]
  /\ ComesBetween
  /\ UNCHANGED <<fname, knownAt, cached, rezstat, opened, work, owed>>

HostDeletes(name) ==
  /\ Later /\ rdump[name].there
  /\ rdump' = [rdump EXCEPT ![name] = [NoText EXCEPT !.ver = clock']]
  /\ ComesBetween
  /\ UNCHANGED <<fname, knownAt, cached, rezstat, opened, work, owed>>

Restart ==
  /\ cached' = NoCache /\ rezstat' = NoRecord
  /\ opened' = Closed /\ work' = AtRest
  /\ ComesBetween
  /\ UNCHANGED <<fname, knownAt, rdump, clock, owed>>

ForkInit ==
  /\ fname = (CHOOSE n \in FileNames : TRUE) /\ knownAt = fname
  /\ rdump = [n \in FileNames |-> NoText]
  /\ cached = NoCache /\ rezstat = NoRecord /\ opened = Closed /\ work = AtRest
  /\ clock = 0 /\ owed = [ver |-> 0, empty |-> TRUE] /\ parted = FALSE

ForkNext ==
  \/ \E then \in {"stat", "open"} : StatFork(then)
  \/ PullStat \/ PullRez
  \/ write3 \/ (\E zero \in BOOLEAN : seteof3(zero)) \/ close3
  \/ Push \/ PushDeRez \/ PushRecord
  \/ \E then \in {"rename", "catmove"} : move3(then)
  \/ del3
  \/ \E answered \in BOOLEAN :
       PushRename(answered) \/ PushUnlink(answered) \/ move3Text(answered) \/ del3Text(answered)
  \/ \E name \in FileNames : Create(name) \/ HostEdits(name) \/ HostDeletes(name)
  \/ Restart

ForkSpec == ForkInit /\ [][ForkNext]_forkVars

(***************************************************************************)
(* Properties.                                                             *)
(***************************************************************************)
ForkTypeOK ==
  /\ fname \in FileNames \cup {Gone} /\ knownAt \in FileNames
  /\ rdump \in [FileNames -> [there : BOOLEAN, ver : 0 .. MaxClock, time : 0 .. MaxClock, whole : BOOLEAN]]
  /\ cached \in [ver : 0 .. MaxClock, empty : BOOLEAN, bare : BOOLEAN]
  /\ rezstat \in [there : BOOLEAN, time : 0 .. MaxClock]
  /\ opened \in [open : BOOLEAN, dirty : BOOLEAN] /\ (opened.dirty => opened.open)
  /\ clock \in 0 .. MaxClock

AtPeace == work.pc = "idle" /\ fname # Gone /\ ~opened.open

\* The verdict of statResourceFork is right: whenever a closed fork would be
\* found up to date, it is what the text says, whatever the host did between the
\* steps of earlier pulls and pushes.  A length set on a fork not written to is
\* the exception: seteof3 does not push it.
VerdictTrue ==
  AtPeace /\ Agrees(rdump[fname]) /\ ~cached.bare =>
    \/ ~rdump[fname].there /\ cached.empty
    \/ rdump[fname].there /\ cached.ver = rdump[fname].ver

\* At no moment, a restart included, is the text of a fork half written: pushes go
\* to FILE.rdump.tmp and are renamed.
TextWhole == \A name \in FileNames : rdump[name].whole

\* What a close or a flush has pushed is in the file's text, or a later edit of
\* the host's, after any number of restarts and moves, unless since then the file
\* was parted from its text, which is so until it is next pushed to where it is:
\*  - it was pushed when the catalog did not know the file's place: the fork was
\*    open during a CatMove, or a rename that failed half way, and the file was not
\*    looked up before the push (the push goes to the old place);
\*  - the host refused to rename or to unlink the text;
\*  - a restart, or the host, came between the moving of a file and of its text;
\*  - a file with no text was moved to where one of these had left another's.
PushedIsSafe ==
  work.pc = "idle" /\ fname # Gone /\ ~parted =>
    \/ rdump[fname].ver >= owed.ver /\ (rdump[fname].ver = owed.ver => rdump[fname].there = ~owed.empty)
    \/ ~rdump[fname].there /\ owed.empty

\* The three copies of a fork, the cache, the record and the text, agree when
\* they are said to, through pulls, pushes, moves, stops and edits.
ForksKept == ForkTypeOK /\ VerdictTrue /\ TextWhole /\ PushedIsSafe
=============================================================================
