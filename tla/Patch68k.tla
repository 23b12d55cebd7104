------------------------------ MODULE Patch68k ------------------------------
(***************************************************************************)
(* Patches of the 68k system (patch68k.c).  Patch68k assembles the text of *)
(* a patch into a block of memory, resolves its branches, adds code by     *)
(* which a patch that falls through removes itself, and puts it into the   *)
(* vector.  The text is modelled as its instructions, each of so many      *)
(* bytes; then calls of the vector run the code.                           *)
(***************************************************************************)
EXTENDS Integers, Sequences

CONSTANTS
  Texts,           \* texts: sequences of [ins, len, to]
  Originals,       \* what a vector may hold: "code", "null" or "ones" (-1)
  MaxVectorCalls   \* bound on calls of the vector

\* The bytes of the first instructions of a text, so many of them.
BytesOf(t) ==
  LET of[k \in 0 .. Len(t)] ==
        IF k = 0 THEN 0 ELSE of[k - 1] + IF t[k].ins = "label" THEN 0 ELSE t[k].len
  IN  of

\* A text this long, with what is added to it, is within reach of a word.
WordReach == 32700
Shorts == {"bra", "bcc"}
Branches == Shorts \cup {"lbcc"}

\* A short branch is a byte and a byte of displacement, a long one two and two.
Instruction(ins) ==
  /\ ins \in [ins : Branches \cup {"plain", "jmp", "jsr", "rts", "label"}, len : Nat, to : {ins.to}]
  /\ ins.len % 2 = 0 /\ (ins.ins # "label" => ins.len > 0)
  /\ ins.ins \in Shorts => ins.len = 2
  /\ ins.ins = "lbcc"   => ins.len = 4

\* A branch names a label, which is in one place; a short one does not go far,
\* nor to where it ends.
LabelOf(t, i, j) == t[j].ins = "label" /\ t[j].to = t[i].to
InReach(t, i, j) == BytesOf(t)[j] - BytesOf(t)[i] \in -128 .. 127 \ {0}

ASSUME PatchAssumption ==
  /\ Originals \subseteq {"code", "null", "ones"}
  /\ \A t \in Texts :
       /\ t \in Seq({t[i] : i \in DOMAIN t}) /\ BytesOf(t)[Len(t)] < WordReach
       /\ \A i \in DOMAIN t :
            /\ Instruction(t[i])
            /\ t[i].ins \in Branches => \E j \in DOMAIN t : LabelOf(t, i, j) /\ (t[i].ins \in Shorts => InReach(t, i, j))
            /\ t[i].ins = "label" => \A j \in DOMAIN t : LabelOf(t, i, j) => j = i

VARIABLES
  patchText, original,   \* of this patch
  nextIns,             \* the next instruction of the text
  codeLen,             \* bytes assembled so far
  ops,              \* the instructions in memory, by their offset
  labels,           \* the offsets of labels
  fixups,           \* displacements not resolved: [at, to]
  disp,             \* displacements, by their offset
  removed,          \* the patch jumps straight to the original
  phase68k,            \* "assembles", "idle", "runs", or how a call ended
  pc,               \* of the 68k, in the block
  aim,              \* history: the label the last branch named
  fell,             \* history: how often the patch fell through
  vectorCalls       \* counter for MaxVectorCalls

patchVars == <<patchText, original, nextIns, codeLen, ops, labels, fixups, disp, removed, phase68k, pc, aim, fell,
               vectorCalls>>

BlockCode == 128     \* unsigned char code[128]
Remover   == 22      \* bytes of the code that removes the patch

Signed(x, w) == LET m == x % w IN IF m >= w \div 2 THEN m - w ELSE m

(***************************************************************************)
(* Assembling.                                                             *)
(***************************************************************************)
\* %o: a JMP to nowhere becomes an RTS, a JSR a branch over its address.
Spared(ins) ==
  IF original = "code" THEN ins
  ELSE CASE ins.ins = "jmp" -> [ins EXCEPT !.ins = "rts"]
         [] ins.ins = "jsr" -> [ins EXCEPT !.ins = "plain"]
         [] OTHER -> ins

WithOp(ins) == [o \in DOMAIN ops \cup {codeLen} |-> IF o = codeLen THEN ins ELSE ops[o]]

Assemble ==
  /\ phase68k = "assembles" /\ nextIns <= Len(patchText)
  /\ nextIns' = nextIns + 1
  /\ \E ins \in {patchText[nextIns]} :
       IF ins.ins = "label"
       THEN labels' = [labels EXCEPT ![ins.to] = codeLen] /\ UNCHANGED <<codeLen, ops, fixups>>
       ELSE /\ ops' = WithOp(Spared(ins))
            /\ codeLen' = codeLen + ins.len
            /\ fixups' = IF ins.ins \in Branches
                         THEN Append(fixups, [at |-> codeLen + ins.len \div 2, to |-> ins.to])
                         ELSE fixups
            /\ UNCHANGED labels
  /\ UNCHANGED <<patchText, original, disp, removed, phase68k, pc, aim, fell, vectorCalls>>

\* Faulty variant: a byte counts from itself, as a word does.
FixupFromItself(f) == Signed(labels[f.to] - f.at, IF f.at % 2 = 1 THEN 256 ELSE 65536)

\* At an odd offset a byte, which counts from the byte after it.
Fixup(f) == IF f.at % 2 = 1 THEN Signed(labels[f.to] - f.at - 1, 256)
                            ELSE Signed(labels[f.to] - f.at, 65536)

\* The rest of Patch68k: branches are resolved, the remover and the jump that
\* it copies are added, and the vector is set.
Install ==
  /\ phase68k = "assembles" /\ nextIns > Len(patchText)
  /\ disp' = [o \in {fixups[i].at : i \in DOMAIN fixups} |->
                Fixup(fixups[CHOOSE i \in DOMAIN fixups : fixups[i].at = o])]
  /\ ops' = WithOp([ins |-> "remove", len |-> Remover, to |-> ""])
  /\ codeLen' = codeLen + Remover + (IF original = "null" THEN 2 ELSE 6)
  /\ phase68k' = "idle"
  /\ UNCHANGED <<patchText, original, nextIns, labels, fixups, removed, pc, aim, fell, vectorCalls>>

(***************************************************************************)
(* Running.                                                                *)
(***************************************************************************)
\* What the block holds at its beginning once it has removed itself.
JumpsTo == CASE original = "code" -> "original" [] original = "null" -> "returned" [] OTHER -> "nowhere"

CallVector ==
  /\ phase68k \in {"idle", "original", "returned"} /\ vectorCalls < MaxVectorCalls
  /\ vectorCalls' = vectorCalls + 1
  /\ phase68k' = IF removed THEN JumpsTo ELSE "runs"
  /\ pc' = 0 /\ aim' = ""
  /\ UNCHANGED <<patchText, original, nextIns, codeLen, ops, labels, fixups, disp, removed, fell>>

\* A byte of 0 makes the 68k take the word that follows instead.
RunBranch ==
  /\ phase68k = "runs" /\ ops[pc].ins \in Branches
  /\ LET short == ops[pc].ins # "lbcc"
         d == disp[IF short THEN pc + 1 ELSE pc + 2]
     IN /\ pc' = pc + 2 + d
        /\ phase68k' = IF (short /\ d = 0) \/ pc + 2 + d \notin DOMAIN ops THEN "astray" ELSE "runs"
  /\ aim' = ops[pc].to
  /\ UNCHANGED <<patchText, original, nextIns, codeLen, ops, labels, fixups, disp, removed, fell, vectorCalls>>

\* Other instructions, and branches on a condition that does not hold.
RunPlain ==
  /\ phase68k = "runs" /\ ops[pc].ins \in {"plain", "jsr", "bcc", "lbcc"}
  /\ pc' = pc + ops[pc].len /\ aim' = ""
  /\ UNCHANGED <<patchText, original, nextIns, codeLen, ops, labels, fixups, disp, removed, phase68k, fell, vectorCalls>>

RunEnd ==
  /\ phase68k = "runs" /\ ops[pc].ins \in {"jmp", "rts"}
  /\ phase68k' = IF ops[pc].ins = "rts" THEN "returned"
              ELSE IF original = "code" THEN "original" ELSE "nowhere"
  /\ aim' = ""
  /\ UNCHANGED <<patchText, original, nextIns, codeLen, ops, labels, fixups, disp, removed, pc, fell, vectorCalls>>

\* Where the remover's second LEA points to, from its own place.
CopiesTo(at) == at + 10 + Signed(-(at + 10), 65536)

\* The patch has fallen through: 12 bytes are copied over its beginning.
RunRemover ==
  /\ phase68k = "runs" /\ ops[pc].ins = "remove"
  /\ removed' = (CopiesTo(pc) = 0)
  /\ fell' = fell + 1 /\ phase68k' = "returned" /\ aim' = ""
  /\ UNCHANGED <<patchText, original, nextIns, codeLen, ops, labels, fixups, disp, pc, vectorCalls>>

PatchInit ==
  /\ patchText \in Texts /\ original \in Originals
  /\ nextIns = 1 /\ codeLen = 0 /\ ops = <<>> /\ fixups = <<>> /\ disp = <<>>
  /\ labels = [l \in {patchText[i].to : i \in DOMAIN patchText} |-> 0]
  /\ removed = FALSE /\ phase68k = "assembles" /\ pc = 0 /\ aim = "" /\ fell = 0 /\ vectorCalls = 0

PatchNext == Assemble \/ Install \/ CallVector \/ RunBranch \/ RunPlain \/ RunEnd \/ RunRemover

PatchSpec == PatchInit /\ [][PatchNext]_patchVars

(***************************************************************************)
(* Properties.                                                             *)
(***************************************************************************)
\* Every branch, forward or back, of a byte or of a word, goes to the
\* instruction its text names.
BranchesLand ==
  /\ phase68k # "astray"
  /\ phase68k = "runs" /\ aim # "" => pc = labels[aim]

\* Nothing jumps to an original that is no address, except the jump that a
\* patch removed leaves behind: only NULL is replaced there.
NowhereOnlyRemoved == phase68k = "nowhere" => removed /\ original = "ones"

\* A patch that falls through is run no more.
FallsThroughOnce == fell <= 1

\* The code is in the block: what follows only makes the block smaller.
BlockShrinks == codeLen <= BlockCode

\* A patch, assembled from its text and run any number of times, does what the
\* text says, and gives way to the original when it is told to.
PatchWorks == BranchesLand /\ NowhereOnlyRemoved /\ FallsThroughOnce
=============================================================================
