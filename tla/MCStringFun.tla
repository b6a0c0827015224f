---------------------------- MODULE MCStringFun ----------------------------
(***************************************************************************)
(* Strings for the string utility.                                         *)
(***************************************************************************)
EXTENDS StringFun

\* Every string of up to five of a letter, a dot and a space, and some longer
\* ones and some with other characters.
SomeStrings ==
  UNION {[1 .. n -> {"a", Dot, Space}] : n \in 0 .. 5}
    \cup UNION {[1 .. n -> {"a", Space}] : n \in 6 .. 7}
    \cup UNION {[1 .. n -> {"a", "b", "\t"}] : n \in 2 .. 4}

SomeRewrites ==
  {<<"a">>, <<"b">>, <<"a", "b">>, <<Dot>>} \X {<<>>, <<"b">>, <<"b", "a">>}
=============================================================================
