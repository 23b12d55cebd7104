------------------------------ MODULE MacRoman ------------------------------
(***************************************************************************)
(* Names between the host (UTF-8) and the Mac (Mac Roman, 31 characters):  *)
(* unicode.c.  Two tables that nothing keeps in step: utf8char's, from     *)
(* Roman to UTF-8, and the tests of toMacRoman, tried in order.            *)
(*                                                                         *)
(* A name of the host is a sequence of bytes; the tables are written as    *)
(* code points, which Utf8 encodes.                                        *)
(***************************************************************************)
EXTENDS Integers, Sequences
LOCAL INSTANCE SequencesExt
LOCAL INSTANCE FiniteSetsExt

CONSTANTS
  Romans,     \* Mac names to convert to the host's form and back
  Hosts       \* names found on the host, as code points

VARIABLES
  doing,      \* "idle", "converting" in mr31name, "done"
  source,     \* [kind, name]: the name converted, of the Mac or of the host
  next,       \* the bytes that mr31name has still to read
  roman       \* what it has written

romanVars == <<doing, source, next, roman>>

NameMax == 31
Colon   == 58
Slash   == 47

Utf8(cp) ==
  IF cp < 128 THEN <<cp>>
  ELSE IF cp < 2048 THEN <<192 + (cp \div 64), 128 + (cp % 64)>>
  ELSE <<224 + (cp \div 4096), 128 + ((cp \div 64) % 64), 128 + (cp % 64)>>

\* The bytes of a name given as code points.
Encoded(cps) == FlattenSeq([i \in 1 .. Len(cps) |-> Utf8(cps[i])])

(***************************************************************************)
(* From Roman: the table of utf8char, for the characters 128 to 255.       *)
(***************************************************************************)
utf8table == <<
  <<65, 776>>, <<65, 778>>, <<67, 807>>, <<69, 769>>, <<78, 771>>, <<79, 776>>, <<85, 776>>, <<97, 769>>,
  <<97, 768>>, <<97, 770>>, <<97, 776>>, <<97, 771>>, <<97, 778>>, <<99, 807>>, <<101, 769>>, <<101, 768>>,
  <<101, 770>>, <<101, 776>>, <<105, 769>>, <<105, 768>>, <<105, 770>>, <<105, 776>>, <<110, 771>>, <<111, 769>>,
  <<111, 768>>, <<111, 770>>, <<111, 776>>, <<111, 771>>, <<117, 769>>, <<117, 768>>, <<117, 770>>, <<117, 776>>,
  <<8224>>, <<176>>, <<162>>, <<163>>, <<167>>, <<8226>>, <<182>>, <<223>>,
  <<174>>, <<169>>, <<8482>>, <<180>>, <<168>>, <<61, 824>>, <<198>>, <<216>>,
  <<8734>>, <<177>>, <<8804>>, <<8805>>, <<165>>, <<181>>, <<8706>>, <<8721>>,
  <<8719>>, <<960>>, <<8747>>, <<170>>, <<186>>, <<937>>, <<230>>, <<248>>,
  <<191>>, <<161>>, <<172>>, <<8730>>, <<402>>, <<8776>>, <<8710>>, <<171>>,
  <<187>>, <<8230>>, <<160>>, <<65, 768>>, <<65, 771>>, <<79, 771>>, <<338>>, <<339>>,
  <<8211>>, <<8212>>, <<8220>>, <<8221>>, <<8216>>, <<8217>>, <<247>>, <<9674>>,
  <<121, 776>>, <<89, 776>>, <<8260>>, <<8364>>, <<8249>>, <<8250>>, <<64257>>, <<64258>>,
  <<8225>>, <<183>>, <<8218>>, <<8222>>, <<8240>>, <<65, 770>>, <<69, 770>>, <<65, 769>>,
  <<69, 776>>, <<69, 768>>, <<73, 769>>, <<73, 770>>, <<73, 776>>, <<73, 768>>, <<79, 769>>, <<79, 770>>,
  <<63743>>, <<79, 768>>, <<85, 769>>, <<85, 770>>, <<85, 768>>, <<305>>, <<710>>, <<732>>,
  <<175>>, <<728>>, <<729>>, <<730>>, <<184>>, <<733>>, <<731>>, <<711>> >>

utf8char(ch) == IF ch < 128 THEN <<ch>> ELSE utf8table[ch - 127]

\* The Mac's separator is the colon and the host's the slash.
Swapped(cps) == IF cps = <<Slash>> THEN <<Colon>> ELSE IF cps = <<Colon>> THEN <<Slash>> ELSE cps

utf8name(name) == FlattenSeq([i \in 1 .. Len(name) |-> Encoded(Swapped(utf8char(name[i])))])

(***************************************************************************)
(* To Roman: the tests of toMacRoman, each a pattern of bytes and the      *)
(* character it stands for, in the order the code tries them.              *)
(***************************************************************************)
Pattern(cps, ch) == [utf8 |-> Encoded(cps), roman |-> ch]

\* A letter and a mark after it: from 0x80 on without a gap ...
CombinedRun ==
  LET pairs == << <<65, 776>>, <<65, 778>>, <<67, 807>>, <<69, 769>>, <<78, 771>>, <<79, 776>>, <<85, 776>>,
                  <<97, 769>>, <<97, 768>>, <<97, 770>>, <<97, 776>>, <<97, 771>>, <<97, 778>>, <<99, 807>>,
                  <<101, 769>>, <<101, 768>>, <<101, 770>>, <<101, 776>>, <<105, 769>>, <<105, 768>>,
                  <<105, 770>>, <<105, 776>>, <<110, 771>>, <<111, 769>>, <<111, 768>>, <<111, 770>>,
                  <<111, 776>>, <<111, 771>>, <<117, 769>>, <<117, 768>>, <<117, 770>>, <<117, 776>> >>
  IN  [i \in 1 .. 32 |-> Pattern(pairs[i], 127 + i)]

\* ... and the scattered ones.
CombinedRest == <<
  Pattern(<<61, 824>>, 173), Pattern(<<65, 768>>, 203), Pattern(<<65, 771>>, 204), Pattern(<<79, 771>>, 205),
  Pattern(<<121, 776>>, 216), Pattern(<<89, 776>>, 217), Pattern(<<65, 770>>, 229), Pattern(<<69, 770>>, 230),
  Pattern(<<65, 769>>, 231), Pattern(<<69, 776>>, 232), Pattern(<<69, 768>>, 233), Pattern(<<73, 769>>, 234),
  Pattern(<<73, 770>>, 235), Pattern(<<73, 776>>, 236), Pattern(<<73, 768>>, 237), Pattern(<<79, 769>>, 238),
  Pattern(<<79, 770>>, 239), Pattern(<<79, 768>>, 241), Pattern(<<85, 769>>, 242), Pattern(<<85, 770>>, 243),
  Pattern(<<85, 768>>, 244) >>

Ascii == [i \in 1 .. 128 |-> Pattern(<<i - 1>>, i - 1)]

From(ch, cps) == [i \in 1 .. Len(cps) |-> Pattern(<<cps[i]>>, ch + i - 1)]

Composed80 == From(128, <<
  196, 197, 199, 201, 209, 214, 220, 225, 224, 226, 228, 227, 229, 231, 233, 232,
  234, 235, 237, 236, 238, 239, 241, 243, 242, 244, 246, 245, 250, 249, 251, 252>>)

ComposedA0 == From(160, <<
  8224, 176, 162, 163, 167, 8226, 182, 223, 174, 169, 8482, 180, 168, 8800, 198, 216,
  8734, 177, 8804, 8805, 165, 181, 8706, 8721, 8719, 960, 8747, 170, 186, 937, 230, 248>>)

ComposedC0 == From(192, <<
  191, 161, 172, 8730, 402, 8776, 8710, 171, 187, 8230, 160, 192, 195, 213, 338, 339,
  8211, 8212, 8220, 8221, 8216, 8217, 247, 9674, 255, 376, 8260, 8364, 8249, 8250, 64257, 64258>>)

ComposedE0 == From(224, <<
  8225, 183, 8218, 8222, 8240, 194, 202, 193, 203, 200, 205, 206, 207, 204, 211, 212,
  63743, 210, 218, 219, 217, 305, 710, 732, 175, 728, 729, 730, 184, 733, 731, 711>>)

Tests == CombinedRun \o CombinedRest \o Ascii \o Composed80 \o ComposedA0 \o ComposedC0 \o ComposedE0

\* The tests that the bytes pass: the first of them counts.
Passed(bytes) == {i \in 1 .. Len(Tests) : IsPrefix(Tests[i].utf8, bytes)}

(***************************************************************************)
(* mr31name, a character at a time.                                        *)
(***************************************************************************)
Convert(kind, name, bytes) ==
  /\ doing = "idle"
  /\ source' = [kind |-> kind, name |-> name]
  /\ next' = bytes /\ roman' = <<>> /\ doing' = "converting"

\* Faulty variant: a character that the Mac has not ends the name.
toMacRomanCut ==
  /\ doing = "converting" /\ next # <<>> /\ Len(roman) < NameMax
  /\ \E passed \in {Passed(next)} :
       IF passed = {}
         THEN doing' = "done" /\ UNCHANGED <<next, roman>>
         ELSE \E test \in {Tests[Min(passed)]} :
                /\ roman' = Append(roman, IF test.roman = Colon THEN Slash ELSE test.roman)
                /\ next' = SubSeq(next, Len(test.utf8) + 1, Len(next))
                /\ UNCHANGED doing
  /\ UNCHANGED source

\* The next character, if the Mac has it. No name holds the byte that ends it.
toMacRoman ==
  /\ doing = "converting" /\ next # <<>> /\ Len(roman) < NameMax
  /\ \E passed \in {Passed(next)} :
       IF passed = {}
         THEN roman' = <<>> /\ doing' = "done" /\ UNCHANGED next
         ELSE \E test \in {Tests[Min(passed)]} :
                /\ roman' = Append(roman, IF test.roman = Colon THEN Slash ELSE test.roman)
                /\ next' = SubSeq(next, Len(test.utf8) + 1, Len(next))
                /\ UNCHANGED doing
  /\ UNCHANGED source

\* The end of the string, or of the room: then a longer name is refused.
End ==
  /\ doing = "converting" /\ (next = <<>> \/ Len(roman) = NameMax)
  /\ roman' = IF next # <<>> THEN <<>> ELSE roman
  /\ doing' = "done"
  /\ UNCHANGED <<source, next>>

RomanInit == doing = "idle" /\ source = [kind |-> "none", name |-> <<>>] /\ next = <<>> /\ roman = <<>>

RomanNext ==
  \/ \E name \in Romans : Convert("mac", name, utf8name(name))
  \/ \E name \in Hosts : Convert("host", name, Encoded(name))
  \/ toMacRoman
  \/ End

RomanSpec == RomanInit /\ [][RomanNext]_romanVars

(***************************************************************************)
(* Properties.                                                             *)
(***************************************************************************)
\* The Mac's name of a file it has named is the name it gave: the tests read
\* every character that utf8char writes, whatever comes after it.
RomanReturns == doing = "done" /\ source.kind = "mac" => roman = source.name

Composed == Composed80 \o ComposedA0 \o ComposedC0 \o ComposedE0

\* The bytes that utf8char would write for a code point.
Spelling(cp) ==
  LET same == {i \in 1 .. 128 : Composed[i].utf8 = Utf8(cp)}
  IN  Encoded(IF same = {} THEN <<cp>> ELSE utf8table[Min(same)])

Spelled(cps) == FlattenSeq([i \in 1 .. Len(cps) |-> Spelling(cps[i])])

\* The Mac sees a file of the host under its whole name or not at all: never a
\* part of the name, nor the name of another file.
WholeNameOrNone ==
  doing = "done" /\ source.kind = "host" /\ roman # <<>> =>
    utf8name(roman) = Spelled(source.name)

Spellable == {utf8name(name) : name \in Romans}

\* A name that the Mac can spell in 31 characters is not refused.
SpellableShown ==
  doing = "done" /\ source.kind = "host" /\ roman = <<>> => Spelled(source.name) \notin Spellable \ {<<>>}

\* Names go to the host and come back unchanged, and a file of the host has its
\* own name or none.
NamesTrue == RomanReturns /\ WholeNameOrNone /\ SpellableShown
=============================================================================
