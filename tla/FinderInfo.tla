----------------------------- MODULE FinderInfo -----------------------------
(***************************************************************************)
(* The Finder information of a file in its .idump sidecar: fsSetFileInfo   *)
(* and fsGetFileInfo (device-9p.c) by way of fsetattr3 and fgetattr3       *)
(* (multifork-3.c).  The sidecar is truncated, then written; users edit it *)
(* on the host.                                                            *)
(*                                                                         *)
(* A text is the two codes and the set of the lines after them.  A line is *)
(* the name it ends with, whether other characters stand before the name,  *)
(* and whether a newline ends it.  Flags are a set of bits of finfo's flag *)
(* word.                                                                   *)
(***************************************************************************)
EXTENDS Integers, Sequences

CONSTANTS
  Codes,      \* types and creators, with Zero and Unknown
  Zero,       \* four nul bytes
  Unknown,    \* "????"
  FlagSets,   \* the flags the Finder sets, sets of bits
  HostLines,  \* what users write, [lines, means]: lines and the flags they mean
  MaxInfos    \* bound on the changes

ASSUME FinderInfoAssumption == {Zero, Unknown} \subseteq Codes /\ Zero # Unknown

VARIABLES
  idump,     \* the sidecar
  setting,   \* the information being set: truncated but not written
  given,     \* what the sidecar was last given, by either side
  finfo,     \* what was read since
  infos      \* counter for MaxInfos

infoVars == <<idump, setting, given, finfo, infos>>

FLAGNAMES ==
  [kColor1 |-> {1}, kColor2 |-> {2}, kColor3 |-> {1, 2}, kColor4 |-> {3}, kColor5 |-> {1, 3},
   kColor6 |-> {2, 3}, kColor7 |-> {1, 2, 3}, kIsShared |-> {6}, kHasNoINITs |-> {7},
   kHasBeenInited |-> {8}, kHasCustomIcon |-> {10}, kIsStationery |-> {11}, kNameLocked |-> {12},
   kHasBundle |-> {13}, kIsInvisible |-> {14}, kIsAlias |-> {15}]

Color == {1, 2, 3}
Named == UNION {FLAGNAMES[n] : n \in DOMAIN FLAGNAMES}

NoInfo == [type |-> Zero, creator |-> Zero, flags |-> {}]
Absent == [state |-> "absent"]
Empty  == [state |-> "empty"]
Text(t, c, lines) == [state |-> "text", type |-> t, creator |-> c, lines |-> lines]

Full(name) == [before |-> FALSE, name |-> name, newline |-> TRUE]

\* flagsToText: codes of zero are question marks; the colour and then the flags.
Shown4(code) == IF code = Zero THEN Unknown ELSE code

NamesOf(flags) ==
  {n \in DOMAIN FLAGNAMES : IF FLAGNAMES[n] \subseteq Color THEN FLAGNAMES[n] = flags \cap Color
                            ELSE FLAGNAMES[n] \subseteq flags}
  \cup (IF 9 \in flags THEN {"aoce-letter"} ELSE {})

flagsToText(info) ==
  Text(Shown4(info.type), Shown4(info.creator), {Full(n) : n \in NamesOf(info.flags)})

\* The scan tries the table at every character up to a match, not only where a line
\* begins: what stands before a name is skated over and the name counts all the same,
\* if a newline ends it.
FlagsOf(lines) == UNION {FLAGNAMES[l.name] : l \in {k \in lines : k.newline /\ k.name \in DOMAIN FLAGNAMES}}

\* What users mean by their lines is what the table says of those that count.
ASSUME LinesAssumption == \A h \in HostLines : h.means = FlagsOf(h.lines)

Code(c) == IF c = Unknown THEN Zero ELSE c

\* Faulty variant: question marks stay.
textToFlagsMarked(text) ==
  IF text.state # "text" THEN NoInfo
  ELSE [type |-> text.type, creator |-> text.creator, flags |-> FlagsOf(text.lines)]

\* textToFlags: less than eight bytes are no information.
textToFlags(text) ==
  IF text.state # "text" THEN NoInfo
  ELSE [type |-> Code(text.type), creator |-> Code(text.creator), flags |-> FlagsOf(text.lines)]

(***************************************************************************)
(* Setting and getting.                                                    *)
(***************************************************************************)
Infos == [type : Codes, creator : Codes, flags : FlagSets]

\* What the sidecar can hold of an information.
Kept4(info) == [info EXCEPT !.type = IF @ = Unknown THEN Zero ELSE @,
                            !.creator = IF @ = Unknown THEN Zero ELSE @,
                            !.flags = @ \cap Named]

\* fsetattr3: Lcreate9 with O_TRUNC; if it is refused nothing has changed.
SetTruncates(info) ==
  /\ setting = <<>> /\ infos < MaxInfos
  /\ setting' = <<info>> /\ idump' = Empty /\ given' = NoInfo /\ finfo' = <<>>
  /\ infos' = infos + 1

\* Write9, which may be refused: the call ends with an error.
SetWrites ==
  /\ setting # <<>> /\ setting' = <<>>
  /\ \/ idump' = flagsToText(setting[1]) /\ given' = setting[1]
     \/ UNCHANGED <<idump, given>>
  /\ UNCHANGED <<finfo, infos>>

\* The Macintosh stops between the two.
StopsHalfway ==
  /\ setting # <<>> /\ setting' = <<>>
  /\ UNCHANGED <<idump, given, finfo, infos>>

\* fgetattr3, of the Finder information.
GetInfo ==
  /\ setting = <<>>
  /\ finfo' = <<textToFlags(idump)>>
  /\ UNCHANGED <<idump, setting, given, infos>>

\* A user writes the sidecar, or removes it.
HostWrites(t, c, lines) ==
  /\ setting = <<>> /\ infos < MaxInfos /\ infos' = infos + 1
  /\ idump' = Text(t, c, lines.lines)
  /\ given' = [type |-> t, creator |-> c, flags |-> lines.means]
  /\ finfo' = <<>>
  /\ UNCHANGED setting

HostRemoves ==
  /\ setting = <<>> /\ idump # Absent
  /\ idump' = Absent /\ given' = NoInfo /\ finfo' = <<>>
  /\ UNCHANGED <<setting, infos>>

InfoInit == idump = Absent /\ setting = <<>> /\ given = NoInfo /\ finfo = <<>> /\ infos = 0

InfoNext ==
  \/ \E info \in Infos : SetTruncates(info)
  \/ SetWrites \/ StopsHalfway \/ GetInfo \/ HostRemoves
  \/ \E t, c \in Codes, lines \in HostLines : HostWrites(t, c, lines)

InfoSpec == InfoInit /\ [][InfoNext]_infoVars

(***************************************************************************)
(* Properties.                                                             *)
(***************************************************************************)
\* The Finder gets back what was last given, or, where the sidecar was left
\* half way, nothing: never a mixture.  Question marks are no code.
InfoKept == finfo # <<>> => finfo[1] = Kept4(given)
=============================================================================
