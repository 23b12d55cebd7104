----------------------------- MODULE MCPatch68k -----------------------------
(***************************************************************************)
(* The texts of the two patches of the 9P driver, and one with branches of *)
(* both sizes around a call of the original.                               *)
(***************************************************************************)
EXTENDS Patch68k

P(n)    == [ins |-> "plain", len |-> n, to |-> ""]
Ins(i, n) == [ins |-> i, len |-> n, to |-> ""]
B(i, l) == [ins |-> i, len |-> IF i = "lbcc" THEN 4 ELSE 2, to |-> l]
L(l)    == [ins |-> "label", len |-> 0, to |-> l]

\* Straight runs of instructions are taken together.
ToExtFSText ==
  <<B("bra", "S"), P(4), L("S"), P(4), B("bcc", "M"), P(8), B("bcc", "P"), P(4),
    L("G"), P(34), Ins("rts", 2),
    L("M"), P(6), B("bcc", "P"), P(4), L("L"), P(4), B("bcc", "P"), P(8), B("bcc", "L"),
    P(10), B("bcc", "G"), L("P"), Ins("jmp", 6)>>

InitFSText == <<P(4), Ins("jsr", 6), P(4)>>

LoopText == <<B("lbcc", "E"), L("A"), P(2), Ins("jsr", 6), B("bcc", "E"), B("bcc", "A"), P(2), L("E")>>

MCTexts == {ToExtFSText, InitFSText, LoopText}
=============================================================================
