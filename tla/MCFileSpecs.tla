---------------------------- MODULE MCFileSpecs ----------------------------
(***************************************************************************)
(* A tree of two directories and a file, and all paths of up to four       *)
(* letters and colons, a few longer.  Two letters never follow each other. *)
(***************************************************************************)
EXTENDS FileSpecs

MCHostTree ==
  {[id |-> 3, parent |-> 2, name |-> "a", dir |-> TRUE],
   [id |-> 4, parent |-> 3, name |-> "a", dir |-> TRUE],
   [id |-> 5, parent |-> 3, name |-> "c", dir |-> FALSE]}

MCPathsAsked ==
  {p \in UNION {[1 .. n -> {"a", "c", ":"}] : n \in 0 .. 4} :
     \A i \in 1 .. Len(p) - 1 : p[i] = ":" \/ p[i + 1] = ":"}
  \cup {<<":", "a", ":", ":", "c">>, <<":", "c", ":", ":", "a">>, <<"a", ":", "a", ":", "c">>,
        <<":", "a", ":", "c", ":">>, <<"c", ":", "a", ":", ":", ":", "c">>}
=============================================================================
