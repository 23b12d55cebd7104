------------------------------ MODULE RezForks ------------------------------
(***************************************************************************)
(* A resource fork as Rez text and in its binary form: Rez (rez.c) parses  *)
(* the text of a sidecar file and builds the fork, DeRez (derez.c) reads   *)
(* the fork and writes the text.  The text that Rez is given here is laid  *)
(* out as DeRez lays it out, after an edit on the host, perhaps.           *)
(*                                                                         *)
(* Text is a sequence of entries, one for a resource: the tokens of the    *)
(* header without white space, and lines of bytes with their comments.     *)
(* Letters, types and names are sequences of byte values.                  *)
(***************************************************************************)
EXTENDS Integers, Sequences
LOCAL INSTANCE FiniteSetsExt
LOCAL INSTANCE SequencesExt
LOCAL INSTANCE Bitwise
LOCAL INSTANCE TLC

CONSTANTS
  GivenForks,   \* sequences of resources, no two of a type and id
  Edits    \* what the host does to the text of the last resource

VARIABLES
  wanted,  \* the resources
  edit,    \* the host's edit
  stage,      \* "idle", "rez", "map", "derez", "panic"
  todo,    \* the text that Rez has not read
  wpos,     \* WTell: where Rez writes
  rezzed,  \* Rez's array of struct res
  namelist,\* the names, packed
  binary,    \* what Rez has written
  read     \* the resources DeRez has read and written as text

rezVars == <<wanted, edit, stage, todo, wpos, rezzed, namelist, binary, read>>

(***************************************************************************)
(* Characters in quotes.                                                   *)
(***************************************************************************)
Letters == (8 :> 98) @@ (9 :> 116) @@ (10 :> 114) @@ (11 :> 118) @@ (12 :> 102) @@ (13 :> 110) @@ (127 :> 63)

\* lut, and the mark itself: <<"plain", c, 0>>, <<"letter", c, 0>> after a
\* backslash, or <<"hex", high, low>>.
lutget(c, mark) ==
  CASE c \in DOMAIN Letters            -> <<"letter", Letters[c], 0>>
    [] c \in {92, mark}                -> <<"letter", c, 0>>
    [] c \notin DOMAIN Letters /\ (c < 32 \/ c >= 128) -> <<"hex", c \div 16, c % 16>>
    [] OTHER                           -> <<"plain", c, 0>>

\* quote, of one character: both digits are looked up as high ones.
Unquoted(e) ==
  CASE e[1] = "hex" -> 16 * (e[2] | e[3])
    [] e[1] = "letter" /\ \E c \in DOMAIN Letters : Letters[c] = e[2] ->
         CHOOSE c \in DOMAIN Letters : Letters[c] = e[2]
    [] OTHER -> e[2]

Quoted(s, mark)  == [i \in DOMAIN s |-> lutget(s[i], mark)]
quote(q)         == [i \in DOMAIN q |-> Unquoted(q[i])]

(***************************************************************************)
(* The header of an entry.                                                 *)
(***************************************************************************)
Token(k)     == [k |-> k, v |-> <<>>]
Value(k, v)  == [k |-> k, v |-> v]

Words == <<"sysheap", "purgeable", "locked", "protected", "preload">>
Bit   == [sysheap |-> 64, purgeable |-> 32, locked |-> 16, protected |-> 8, preload |-> 4]

HasBit(attrib, w) == (attrib \div Bit[w]) % 2 = 1

\* Attributes: a number if there is one that has no name.
Attributes(attrib) ==
  IF attrib \div 128 = 1 \/ attrib % 4 # 0
    THEN <<Token(","), Value("$", <<attrib \div 16, attrib % 16>>)>>
    ELSE FlattenSeq([i \in 1 .. 5 |->
           IF HasBit(attrib, Words[i]) THEN <<Token(","), Token(Words[i])>> ELSE <<>>])

NoName == <<-1>>

derezHeader(r) ==
  <<Token("data"), Value("'", Quoted(r.type, 39)), Token("("), Value("int", <<r.id>>)>>
  \o (IF r.name = NoName THEN <<>> ELSE <<Token(","), Value("\"", Quoted(r.name, 34))>>)
  \o Attributes(r.attrib) \o <<Token(")")>>

\* The words of the list of constants, which may end with a comma.
ConstantsOf(tokens) ==
  [ok     |-> /\ \A i \in DOMAIN tokens : tokens[i].k \in {Words[j] : j \in 1 .. 5} \cup {","}
              /\ \A i \in 1 .. Len(tokens) - 1 : "," \in {tokens[i].k, tokens[i + 1].k},
   attrib |-> MapThenSumSet(LAMBDA w : Bit[w], {tokens[i].k : i \in {j \in DOMAIN tokens : tokens[j].k # ","}})]

\* The attributes of a header, up to its closing parenthesis.
AttributesOf(tokens) ==
  IF tokens # <<>> /\ tokens[1].k = "$"
    THEN [ok |-> Len(tokens) = 1, attrib |-> 16 * tokens[1].v[1] + tokens[1].v[2]]
    ELSE ConstantsOf(tokens)

\* Where there may be a name and attributes: after the id.
NameOf(tokens) ==
  IF Len(tokens) >= 2 /\ tokens[1].k = "," /\ tokens[2].k = "\"" THEN quote(tokens[2].v) ELSE NoName

AfterName(tokens) == IF NameOf(tokens) = NoName THEN tokens ELSE SubSeq(tokens, 3, Len(tokens))

\* rezHeader: bad if it returns an error.
rezHeader(h) ==
  LET rest   == AfterName(SubSeq(h, 5, Len(h) - 1))
      attrs  == IF rest = <<>> THEN [ok |-> TRUE, attrib |-> 0]
                ELSE IF rest[1].k # "," THEN [ok |-> FALSE, attrib |-> 0] ELSE AttributesOf(Tail(rest))
      good   == /\ Len(h) >= 5 /\ h[1].k = "data" /\ h[2].k = "'" /\ Len(h[2].v) = 4 /\ h[3].k = "("
                /\ h[4].k = "int" /\ h[4].v[1] \in -32768 .. 32767
                /\ h[Len(h)].k = ")" /\ Len(NameOf(SubSeq(h, 5, Len(h) - 1))) <= 255 /\ attrs.ok
  IN  IF good THEN [ok |-> TRUE, type |-> quote(h[2].v), id |-> h[4].v[1],
                    name |-> NameOf(SubSeq(h, 5, Len(h) - 1)), attrib |-> attrs.attrib]
              ELSE [ok |-> FALSE]

(***************************************************************************)
(* The lines of an entry: 16 bytes in hex, and what they look like in a    *)
(* comment.  A line is 78 characters, the last one shortened in place.     *)
(***************************************************************************)
Wide == 16

Column(i) == 3 + 2 * (i - 1) + (i - 1) \div 2   \* of the first digit of byte i

\* cmtLUT: a slash that would end the comment is shown as a full stop, control
\* characters between it and the star or not.
Shown(src, i) ==
  LET printed == {j \in 1 .. i - 1 : src[j] >= 32}
  IN  IF src[i] < 32 \/ src[i] > 126 THEN 46
      ELSE IF src[i] = 47 /\ printed # {} /\ src[Max(printed)] = 42 THEN 46 ELSE src[i]

\* derezFullLine of 16 bytes of src, shortened by the missing ones: the closing
\* quote goes over the digits from that column on.  A pair cut in two is -1.
Line(src, missing) ==
  LET closing == 42 - (2 * missing + missing \div 2)
      left    == {i \in 1 .. Wide : Column(i) < closing}
  IN  [hex     |-> [i \in 1 .. Cardinality(left) |-> IF Column(i) + 1 < closing THEN src[i] ELSE -1],
       comment |-> [i \in 1 .. Wide - missing |-> Shown(src, i)]]

\* The bytes after the body are the next one's, say slashes.
LinesOf(body) ==
  LET n == (Len(body) + Wide - 1) \div Wide
      src(k) == [i \in 1 .. Wide |-> IF Wide * (k - 1) + i <= Len(body) THEN body[Wide * (k - 1) + i] ELSE 47]
  IN  [k \in 1 .. n |-> Line(src(k), IF k = n THEN (Wide - (Len(body) % Wide)) % Wide ELSE 0)]

\* rezBody panics at a comment that ends before its line does, and at half a byte.
Readable(line) ==
  /\ \A i \in 1 .. Len(line.comment) - 1 : ~(line.comment[i] = 42 /\ line.comment[i + 1] = 47)
  /\ -1 \notin ToSet(line.hex)

rezBody(lines) == FlattenSeq([k \in DOMAIN lines |-> lines[k].hex])

Entry(r) == [head |-> derezHeader(r), lines |-> LinesOf(r.body)]

(***************************************************************************)
(* Rez.                                                                    *)
(***************************************************************************)
\* The host's edits of an entry; only the first leaves it right.
Edited(e, how) ==
  CASE how = "none"        -> e
    [] how = "short type"  -> [e EXCEPT !.head[2].v = Tail(@)]
    [] how = "high id"     -> [e EXCEPT !.head[4].v = <<40000>>]
    [] how = "no comma"    -> [e EXCEPT !.head = InsertAt(@, Len(@), Token("locked"))]
    [] how = "no end"      -> [e EXCEPT !.head = Front(@)]

\* The fork before its map is written: bodies by where they are.
Unwritten == [bodies |-> <<>>, content |-> 0, map |-> 0, length |-> 0, type |-> <<>>, ref |-> <<>>,
           types |-> 0, nameat |-> 0, namesat |-> 0, names |-> <<>>]

PadUp(p) == 4 * ((p + 3) \div 4)

\* A resource: its header, its body behind four bytes of length, padding, name.
RezResource ==
  /\ stage = "rez" /\ todo # <<>>
  /\ \E h \in {rezHeader(Head(todo).head)}, body \in {rezBody(Head(todo).lines)} :
       IF h.ok /\ \A k \in DOMAIN Head(todo).lines : Readable(Head(todo).lines[k])
         THEN /\ rezzed' = Append(rezzed, [type |-> h.type, id |-> h.id, attrib |-> h.attrib, off |-> wpos - 256,
                                           nameoff |-> IF h.name = NoName THEN 65535 ELSE Len(namelist)])
              /\ binary' = [binary EXCEPT !.bodies = (wpos :> body) @@ @]
              /\ wpos' = PadUp(wpos + 4 + Len(body))
              /\ namelist' = IF h.name = NoName THEN namelist ELSE namelist \o <<Len(h.name)>> \o h.name
              /\ todo' = Tail(todo) /\ stage' = stage
         ELSE stage' = "panic" /\ UNCHANGED <<todo, wpos, rezzed, namelist, binary>>
  /\ UNCHANGED <<wanted, edit, read>>

\* Types are compared without a sign, ids with one.
TypeBelow(s, t) == \E i \in 1 .. 4 : s[i] < t[i] /\ \A j \in 1 .. i - 1 : s[j] = t[j]
resorder(a, b)  == TypeBelow(a.type, b.type) \/ (a.type = b.type /\ a.id <= b.id)

\* The type list: of each type the number of its resources less one and the
\* offset of the first.
TypeList(res) ==
  LET last  == {i \in DOMAIN res : i = Len(res) \/ res[i].type # res[i + 1].type}
      ntype == Cardinality(last)
  IN  [k \in 1 .. ntype |->
        LET l == CHOOSE i \in last : Cardinality({j \in last : j <= i}) = k
            before == {j \in last : j < l}
            first  == IF before = {} THEN 1 ELSE Max(before) + 1
        IN  [type |-> res[l].type, ott |-> l - first, base |-> (2 + 8 * ntype + 12 * (first - 1)) % 65536]]

\* The reference list, by offset from the type list.
RefList(res, ntype) ==
  [o \in {2 + 8 * ntype + 12 * (i - 1) : i \in DOMAIN res} |->
     LET r == res[1 + (o - 2 - 8 * ntype) \div 12]
     IN  [id |-> r.id % 65536, nameoff |-> r.nameoff, attrib |-> r.attrib, off |-> r.off]]

\* The end of the text: the map, with its lists, the header and the names.
RezMap ==
  /\ stage = "rez" /\ todo = <<>>
  /\ \E res \in {SortSeq(rezzed, resorder)} : \E types \in {TypeList(res)} :
     \E lsize \in {28 + 2 + 8 * Len(types) + 12 * Len(res)} :
       binary' = [binary EXCEPT !.content = wpos - 256, !.map = wpos, !.length = lsize + Len(namelist),
                            !.types = (Len(types) - 1) % 65536, !.type = types,
                            !.ref = RefList(res, Len(types)),
                            !.nameat = lsize % 65536, !.namesat = lsize, !.names = namelist]
  /\ stage' = "map"
  /\ UNCHANGED <<wanted, edit, todo, wpos, rezzed, namelist, read>>

(***************************************************************************)
(* DeRez.                                                                  *)
(***************************************************************************)
NoResource == [type |-> <<>>, id |-> 0, attrib |-> 0, name |-> NoName, body |-> <<>>]

\* Faulty variant: the id keeps no sign.
ResourceUnsigned(t, j) ==
  LET o == t.base + 12 * j
      r == binary.ref[o]
      n == binary.nameat - binary.namesat + r.nameoff + 1
  IN  IF o \notin DOMAIN binary.ref \/ 256 + binary.ref[o].off \notin DOMAIN binary.bodies THEN NoResource
      ELSE [type |-> t.type, id |-> r.id,
            attrib |-> r.attrib, body |-> binary.bodies[256 + r.off],
            name |-> IF r.nameoff = 65535 THEN NoName ELSE SubSeq(binary.names, n + 1, n + binary.names[n])]

\* Resource j of a type.
Resource(t, j) ==
  LET o == t.base + 12 * j
      r == binary.ref[o]
      n == binary.nameat - binary.namesat + r.nameoff + 1
  IN  IF o \notin DOMAIN binary.ref \/ 256 + binary.ref[o].off \notin DOMAIN binary.bodies THEN NoResource
      ELSE [type |-> t.type, id |-> IF r.id < 32768 THEN r.id ELSE r.id - 65536,
            attrib |-> r.attrib, body |-> binary.bodies[256 + r.off],
            name |-> IF r.nameoff = 65535 THEN NoName ELSE SubSeq(binary.names, n + 1, n + binary.names[n])]

\* The loop over types and resources; no types are 65535 plus 1 in 16 bits.
DeRez ==
  /\ stage = "map"
  /\ read' = FlattenSeq([k \in 1 .. (binary.types + 1) % 65536 |->
               [j \in 1 .. binary.type[k].ott + 1 |-> Resource(binary.type[k], j - 1)]])
  /\ stage' = "derez"
  /\ UNCHANGED <<wanted, edit, todo, wpos, rezzed, namelist, binary>>

\* The text that DeRez has written is given to Rez, unless it was edited twice.
Again ==
  /\ stage = "derez" /\ edit # "again"
  /\ edit' = "again" /\ stage' = "rez"
  /\ todo' = [i \in DOMAIN read |-> Entry(read[i])]
  /\ wpos' = 256 /\ rezzed' = <<>> /\ namelist' = <<>> /\ binary' = Unwritten /\ read' = <<>>
  /\ UNCHANGED wanted

\* The sidecar is there to be read, with the host's edit.
Sidecar ==
  /\ stage = "idle"
  /\ wanted' \in GivenForks /\ edit' \in (IF wanted' = <<>> THEN {"none"} ELSE Edits)
  /\ stage' = "rez"
  /\ todo' = [i \in DOMAIN wanted' |->
               IF i = Len(wanted') THEN Edited(Entry(wanted'[i]), edit') ELSE Entry(wanted'[i])]
  /\ UNCHANGED <<wpos, rezzed, namelist, binary, read>>

RezInit ==
  /\ wanted = <<>> /\ edit = "none" /\ stage = "idle" /\ todo = <<>>
  /\ wpos = 256 /\ rezzed = <<>> /\ namelist = <<>> /\ binary = Unwritten /\ read = <<>>

RezNext == Sidecar \/ RezResource \/ RezMap \/ DeRez \/ Again

RezSpec == RezInit /\ [][RezNext]_rezVars

(***************************************************************************)
(* Properties.                                                             *)
(***************************************************************************)
\* What DeRez finds in the fork that Rez made is what the text said, in order
\* of type and id, with every name, attribute and byte; and again when it is
\* made from DeRez's text.
RoundTrip == stage = "derez" => read = SortSeq(wanted, resorder)

\* Bodies with their lengths lie apart, on words, between the header and the
\* map, so that a body the size of another's never runs into it.
BodiesApart ==
  /\ \A p \in DOMAIN binary.bodies :
       /\ p % 4 = 0 /\ p >= 256 /\ p + 4 + Len(binary.bodies[p]) <= wpos
       /\ \A q \in DOMAIN binary.bodies : p < q => p + 4 + Len(binary.bodies[p]) <= q
  /\ Cardinality(DOMAIN binary.bodies) = Len(rezzed)

\* Rez panics at a text that is not right, and at no other.
OnlyBadTextPanics ==
  /\ stage = "panic" => edit \notin {"none", "again"}
  /\ stage \in {"map", "derez"} => edit \in {"none", "again"}

\* A fork comes back from its text; Rez refuses a text only if somebody has put
\* an error in it, and the fork it writes is laid out soundly.
ForksComeBack == RoundTrip /\ OnlyBadTextPanics /\ BodiesApart
=============================================================================
