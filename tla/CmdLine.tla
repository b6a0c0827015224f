------------------------------- MODULE CmdLine -------------------------------
(***************************************************************************)
(* What a command line of the shell means, said without an algorithm: the  *)
(* abstract specification that the parser in CmdParse implements.  A line  *)
(* and a word are sequences of characters.                                 *)
(***************************************************************************)
EXTENDS Integers, Sequences, SequencesExt, Pieces

CONSTANTS CmdMax, ArgvMax, Faults

VARIABLES line,   \* the line
          result  \* None, then what the parser answers

Space == " "
Bar   == "|"
Quote == "\""

None == [rc |-> "none", list |-> <<>>]

\* s without the spaces at both ends, for an s with something else in it.
Trim(s) ==
  LET solid == {n \in DOMAIN s : s[n] # Space} IN SubSeq(s, Min(solid), Max(solid))

IsBlank(s) == \A n \in DOMAIN s : s[n] = Space

\* Bars cut a line into commands, quoted or not; nothing is between two bars.
Segments(s) == Cut(s, {n \in DOMAIN s : s[n] = Bar})

\* Position n of s is inside of quotes.
InQuotes(s, n) == Cardinality({m \in 1 .. n - 1 : s[m] = Quote}) % 2 = 1

\* Quotes, and spaces outside of quotes, cut a command into words.
Words(s) ==
  LET t == Trim(s)
  IN  Cut(t, {n \in DOMAIN t : t[n] = Quote \/ (t[n] = Space /\ ~InQuotes(t, n))})

Operators == {<<"<">>, <<">">>, <<">", ">">>}

\* The command that the words w make: an operator takes the word after it for
\* a file, if there is one, and of several the last one counts.
Command(w) ==
  LET takes[j \in 0 .. Len(w)] ==
        j > 0 /\ j < Len(w) /\ w[j] \in Operators /\ ~takes[j - 1]
      kept     == Ordered({j \in DOMAIN w : ~takes[j] /\ ~takes[j - 1]})
      Uses(op) == {j \in DOMAIN w : takes[j] /\ w[j] \in op}
      File(op) == IF Uses(op) = {} THEN <<>> ELSE w[Max(Uses(op)) + 1]
      outs     == {<<">">>, <<">", ">">>}
  IN  [args   |-> [k \in DOMAIN kept |-> w[kept[k]]],
       input  |-> File({<<"<">>}),
       output |-> File(outs),
       append |-> Uses(outs) # {} /\ w[Max(Uses(outs))] = <<">", ">">>]

\* The meaning of a line, or what is wrong with its first wrong command.
Parsed(s) ==
  LET seg     == Segments(s)
      long(k) == Len(Words(seg[k])) >= ArgvMax - 1
      wrong   == {k \in DOMAIN seg : k > CmdMax \/ IsBlank(seg[k]) \/ long(k)}
      first   == Min(wrong)
      Rejected(code) == [rc |-> code, list |-> <<>>]
  IN  IF wrong = {}
        THEN [rc |-> "OK", list |-> [k \in DOMAIN seg |-> Command(Words(seg[k]))]]
        ELSE CASE first > CmdMax                         -> Rejected("ERR_TOO_MANY_COMMANDS")
               [] first <= CmdMax /\ IsBlank(seg[first]) -> Rejected("WARN_NO_CMDS")
               [] OTHER                                  -> Rejected("ERR_CMD_OR_ARGS_TOO_BIG")

Init == result = None

\* The one answer.
Answer ==
  /\ result = None /\ result' # None
  /\ \/ result' = Parsed(line)
     \/ "nomem" \in Faults /\ result' = [rc |-> "ERR_MEMORY", list |-> <<>>]
  /\ UNCHANGED line

Spec == Init /\ [][Answer]_<<line, result>>
=============================================================================
