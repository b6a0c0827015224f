------------------------------- MODULE MCDsh -------------------------------
(***************************************************************************)
(* Instances of Dsh for TLC.                                               *)
(***************************************************************************)
EXTENDS Dsh

\* Lines that differ in what the shell does with them.
Single == {<<>>, <<"exit">>, <<"rc">>, <<"prog">>, <<"missing">>, <<"noin">>}
Piped  == {<<"cd", "prog">>, <<"prog", "prog">>, <<"noin", "prog">>, <<"prog", "noout">>,
           <<"prog", "prog", "prog">>, <<"missing", "prog">>, <<"prog", "cd">>}

\* Two lines, not both piped, or two of the more usual ones and a program after
\* them, and two longer scripts.
SomeScripts ==
  {<<a, b>> : a \in Single, b \in Single \cup Piped}
    \cup {<<a, b>> : a \in Piped, b \in Single}
    \cup {<<a, b, <<"prog">>>> : a, b \in {<<"missing">>, <<"prog">>, <<"prog", "prog">>, <<"prog", "missing">>}}
    \cup {<< <<"missing">>, <<"missing">>, <<"missing">>, <<"prog">> >>,
          << <<"missing", "prog">>, <<"rc">>, <<"exit">>, <<"rc">>, <<"rc">> >>}

\* A command that cannot be found behind one that can, and a line after it.
NotFound == {<< <<"prog", "missing">>, <<"prog">> >>}

\* What a program writes may be taken for a command by a second shell.
SomeEcho == {<<"prog">>}
=============================================================================
