----------------------------- MODULE MCCmdParse -----------------------------
(***************************************************************************)
(* Lines for the parser, and what its state says of the abstract answer.   *)
(***************************************************************************)
EXTENDS CmdParse, SequencesExt

\* Every line of up to n characters.
Short(n) == UNION {[1 .. m -> Chars] : m \in 1 .. n}

\* The line in which the words of ws follow one another.
Joined(ws) == FlattenSeq([n \in 1 .. 2 * Len(ws) - 1 |-> IF n % 2 = 1 THEN ws[(n + 1) \div 2] ELSE <<Space>>])

\* Lines with enough words for every limit: up to six of them.
Long ==
  {Joined(ws) : ws \in UNION {[1 .. n -> {<<"a">>, <<"<">>, <<">", ">">>, <<Bar>>}] : n \in 3 .. 6}}

\* Quotes around words, spaces, bars and operators.
Quoted ==
  {<<Quote>> \o s \o <<Quote>> \o t : s, t \in {<<"a">>, <<Space, "a">>, <<">">>, <<Bar, "a">>, <<"a", Space>>}}

SomeLines == Short(4) \cup Long \cup Quoted

\* The string that a pointer of command c points to.
StringAt(c, n) ==
  LET end == Min({m \in n .. Len(line) + 1 : m > c.last \/ m \in c.nul}) IN SubSeq(line, n, end - 1)

\* A pointer to a file name, or NULL.
FileAt(c, n) == IF n = 0 THEN <<>> ELSE StringAt(c, n)

Meaning(c) ==
  [args   |-> [k \in 1 .. c.argc |-> StringAt(c, c.argv[k - 1])],
   input  |-> FileAt(c, c.input_file),
   output |-> FileAt(c, c.output_file),
   append |-> c.append_output]

Abstract ==
  INSTANCE CmdLine WITH
    result <- IF pc = "done" THEN [rc |-> rc, list |-> [k \in DOMAIN list |-> Meaning(list[k])]]
              ELSE [rc |-> "none", list |-> <<>>]

(***************************************************************************)
(* The parser implements the meaning of command lines: which commands,     *)
(* which arguments in which order, which files, and which error for the    *)
(* first command that is wrong (dshlib.c:111-275).                         *)
(***************************************************************************)
ParsesTheLine == Abstract!Spec
=============================================================================
