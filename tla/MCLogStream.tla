---------------------------- MODULE MCLogStream ----------------------------
(* Instances of LogStream for TLC: one process that writes to its standard *)
(* output and error, and one that writes to its output.                    *)
EXTENDS LogStream

CONSTANTS p, q, out, err, other

OwnerOf == [s \in Streams |-> IF s = other THEN q ELSE p]

\* Whole lines, empty ones, lines of the length of the limit and beyond it,
\* a last line without an end, a character at a cut, and what is no text.
OutputSet ==
  {[s \in Streams |-> CASE s = out -> x [] s = err -> y [] s = other -> z] :
     x \in {<<"a", "\n", "a", "a", "\n">>, <<"a", "a", "a", "a", "\n", "a">>,
            <<"a", "m", "t", "\n">>, <<"x", "\n", "a">>,
            [n \in 1..9 |-> "a"]},
     y \in {<<>>, <<"m", "t">>},
     z \in {<<"\n", "a">>, <<"a", "a", "a">>}}
=============================================================================
