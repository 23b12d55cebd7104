---------------------------- MODULE MCMacRoman ----------------------------
(***************************************************************************)
(* Names for MacRoman: every character of the Mac alone and before others, *)
(* names of the greatest length and one more, and host names with letters, *)
(* marks, colons, and characters the Mac has not.                          *)
(***************************************************************************)
EXTENDS MacRoman

Chars == 1 .. 255 \ {58}

Long(n, ch) == [i \in 1 .. n |-> ch]

MCRomans == {<<>>} \cup {<<a>> : a \in Chars} \cup {<<a, b>> : a \in {47, 61, 65, 121, 128, 173, 240}, b \in Chars}
              \cup {Long(31, ch) : ch \in {65, 128, 173, 240}} \cup {Long(30, 65) \o <<128>>}

Glyphs == {58, 65, 97, 776, 768, 824, 61, 196, 8800, 20013, 63743}

MCHosts == {<<a>> : a \in Glyphs} \cup {<<a, b>> : a \in Glyphs, b \in Glyphs}
             \cup {<<a, b, c>> : a \in {65, 196}, b \in {776, 768}, c \in Glyphs}
             \cup {Long(n, ch) : n \in 30 .. 32, ch \in {65, 58, 196}}
             \cup {Long(30, 65) \o <<a, b>> : a \in {65, 196}, b \in {776, 65}}
=============================================================================
