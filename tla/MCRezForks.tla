----------------------------- MODULE MCRezForks -----------------------------
(***************************************************************************)
(* Forks of up to three resources for the model checker: types and ids on  *)
(* either side of the sign bit, names of every kind of escape, bodies that *)
(* end at every column of a line and hold stars and slashes.               *)
(***************************************************************************)
EXTENDS RezForks, TLC

MCResNames  == {NoName, <<>>, <<65, 34, 39, 92>>, <<13, 127, 9>>}
MCAttribs == {0, 4 + 64, 124, 8 + 128, 16 + 1}

Res(t, i, a, n, b) == [type |-> t, id |-> i, attrib |-> a, name |-> n, body |-> b]

Filled(n) == [i \in 1 .. n |-> IF i % 5 = 0 THEN 42 ELSE IF i % 5 = 1 THEN 47 ELSE 60 + i]

CODE == <<67, 79, 68, 69>>
ABCX == <<65, 39, 34, 47>>
DEL  == <<92, 127, 8, 32>>

Single == {Res(CODE, -1, a, n, Filled(k)) : a \in MCAttribs, n \in MCResNames, k \in 0 .. 34}
          \cup {Res(ABCX, 128, 0, NoName, <<42, c, 47, d>>) : c \in {42, 47, 1, 200}, d \in {42, 47}}

Some == {Res(CODE, 1, 0, NoName, <<>>), Res(CODE, -32768, 4, <<65>>, <<1>>), Res(ABCX, 32767, 129, <<>>, <<1, 2, 3>>),
         Res(ABCX, 0, 0, <<66, 67>>, <<42, 47>>), Res(DEL, 2, 0, NoName, <<1, 2, 3, 4>>)}

MCForks == {<<>>} \cup {<<r>> : r \in Single}
           \cup {f \in Some \X Some \X Some : f[1] # f[2] /\ f[2] # f[3] /\ f[1] # f[3]}

MCEdits == {"none", "short type", "high id", "no comma", "no end"}

\* A name with a letter that is not ASCII: an a with a ring.
MCAccents == {<<Res(CODE, 0, 0, <<140>>, <<>>)>>}
MCNoEdits == {"none"}
=============================================================================
