------------------------------ MODULE CmdParse ------------------------------
(***************************************************************************)
(* The command line parser of assn-5/dshlib.c: build_cmd_list() cuts a     *)
(* line at the bars, build_cmd_buff() cuts a command into the words that   *)
(* execvp() gets and takes the redirections out of them.                   *)
(*                                                                         *)
(* A pointer into one of the copies of the line that the code makes is the *)
(* position of the same character in the line; 0 is NULL.  The zero bytes  *)
(* that end the words of a copy are the set of their positions.  "a"       *)
(* stands for every character that has no meaning for the parser.          *)
(***************************************************************************)
EXTENDS Integers, Sequences, FiniteSets

CONSTANTS CmdMax,   \* CMD_MAX: commands in a line
          ArgvMax,  \* CMD_ARGV_MAX: entries of argv
          Lines,    \* what the user may type
          Faults    \* "nomem": strdup() may fail

Space == " "
Bar   == "|"
Quote == "\""
Nul   == "\\0"
Chars == {"a", Space, Bar, Quote, "<", ">"}

ASSUME SizeAssumption   == CmdMax \in Nat /\ ArgvMax \in Nat \ {0}
ASSUME LinesAssumption  == Lines \subseteq Seq(Chars)
ASSUME FaultsAssumption == Faults \subseteq {"nomem"}

VARIABLES line,    \* cmd_line
          pc,      \* "token", "scan", "redirect" or "done"
          at,      \* saveptr: where strtok_r() goes on
          list,    \* clist->commands[0 .. total_cmds - 1]
          cmd,     \* clist->commands[total_cmds]
          p,       \* the loop pointer of build_cmd_buff()
          quoted,  \* has_quotes
          i,       \* the counter of the redirection loop
          rc       \* what build_cmd_list() returns

vars == <<line, pc, at, list, cmd, p, quoted, i, rc>>

Spots == 1 .. Len(line)
Index == 0 .. ArgvMax - 1

\* cmd_buff_t after memset().  last is where its copy of the line ends, nul
\* where zero bytes have been written to it, argc the local arg_begin.
Empty == [last |-> 0, nul |-> {}, argv |-> [j \in Index |-> 0], argc |-> 0,
          input_file |-> 0, output_file |-> 0, append_output |-> FALSE]

\* cmd_buff_t.  Its argv has ArgvMax entries and argc is one of their indices:
\* what the code writes to argv is in its bounds (dshlib.c:148, 157, 204).
Cmd == [last : 0 .. Len(line), nul : SUBSET Spots, argv : [Index -> 0 .. Len(line)], argc : Index,
        input_file : 0 .. Len(line), output_file : 0 .. Len(line), append_output : BOOLEAN]

Codes == {"OK", "WARN_NO_CMDS", "ERR_TOO_MANY_COMMANDS", "ERR_CMD_OR_ARGS_TOO_BIG", "ERR_MEMORY"}

\* The type invariant: no index and no pointer of the parser leaves its array
\* (dshlib.c:129-205, 229-271).
TypeOK ==
  /\ line \in Seq(Chars)
  /\ pc \in {"token", "scan", "redirect", "done"}
  /\ at \in 1 .. Len(line) + 1
  /\ list \in Seq(Cmd) /\ Len(list) <= CmdMax
  /\ pc \in {"scan", "redirect"} => Len(list) < CmdMax
  /\ cmd \in Cmd
  /\ p \in 1 .. Len(line) + 1
  /\ quoted \in BOOLEAN
  /\ i \in 0 .. ArgvMax
  /\ rc \in Codes

Init ==
  /\ line \in Lines
  /\ pc = "token"
  /\ at = 1
  /\ list = <<>>
  /\ cmd = Empty
  /\ p = 1
  /\ quoted = FALSE
  /\ i = 0
  /\ rc = "OK"

-----------------------------------------------------------------------------
(***************************************************************************)
(* build_cmd_list(): one command after the other.                          *)
(***************************************************************************)

\* The next strtok_r() gives the characters from .. to: it skips bars first.
IsToken(from, to) ==
  /\ from <= to
  /\ \A n \in at .. from - 1 : line[n] = Bar
  /\ \A n \in from .. to : line[n] # Bar
  /\ to < Len(line) => line[to + 1] = Bar

Blank(from, to) == \A n \in from .. to : line[n] = Space

\* first .. last is from .. to without the spaces at both ends.
Trimmed(from, to, first, last) ==
  /\ line[first] # Space /\ line[last] # Space
  /\ Blank(from, first - 1) /\ Blank(last + 1, to)

\* A return before clist->num is set leaves it 0.
Return(code) ==
  /\ pc' = "done"
  /\ rc' = code
  /\ list' = IF code = "OK" THEN list ELSE <<>>
  /\ UNCHANGED <<line, at, cmd, p, quoted, i>>

\* strtok_r() returns NULL.
LastToken == pc = "token" /\ (\A n \in at .. Len(line) : line[n] = Bar) /\ Return("OK")

TooManyCommands ==
  /\ pc = "token"
  /\ \E from, to \in at .. Len(line) : IsToken(from, to)
  /\ Len(list) >= CmdMax
  /\ Return("ERR_TOO_MANY_COMMANDS")

BlankCommand ==
  /\ pc = "token"
  /\ \E from, to \in at .. Len(line) : IsToken(from, to) /\ Blank(from, to)
  /\ Len(list) < CmdMax
  /\ Return("WARN_NO_CMDS")

\* strdup() of the line, of the command or of its copy fails.
OutOfMemory ==
  /\ "nomem" \in Faults
  /\ pc = "token"
  /\ \/ at = 1
     \/ Len(list) < CmdMax /\ \E from, to \in at .. Len(line) : IsToken(from, to) /\ ~Blank(from, to)
  /\ Return("ERR_MEMORY")

\* Mutant of NextCommand: the limit is noticed one command too late.
NextCommandTooLate ==
  /\ pc = "token"
  /\ Len(list) <= CmdMax
  /\ \E from, to \in at .. Len(line) :
       /\ IsToken(from, to)
       /\ at' = to + 1
       /\ \E first, last \in from .. to :
            /\ Trimmed(from, to, first, last)
            /\ cmd' = [Empty EXCEPT !.last = last]
            /\ p' = first
  /\ pc' = "scan"
  /\ quoted' = FALSE
  /\ UNCHANGED <<line, list, i, rc>>

\* A command with something in it is handed to build_cmd_buff().
NextCommand ==
  /\ pc = "token"
  /\ Len(list) < CmdMax
  /\ \E from, to \in at .. Len(line) :
       /\ IsToken(from, to)
       /\ at' = to + 1
       /\ \E first, last \in from .. to :
            /\ Trimmed(from, to, first, last)
            /\ cmd' = [Empty EXCEPT !.last = last]
            /\ p' = first
  /\ pc' = "scan"
  /\ quoted' = FALSE
  /\ UNCHANGED <<line, list, i, rc>>

-----------------------------------------------------------------------------
(***************************************************************************)
(* build_cmd_buff(), first loop: separators become zero bytes, and a       *)
(* character after one starts an argument.                                 *)
(***************************************************************************)
Scanning == pc = "scan" /\ p <= cmd.last

\* line[p] ends a word: a quote always, a space outside of quotes.
Separates == line[p] = Quote \/ (line[p] = Space /\ ~quoted)

ScanSeparator ==
  /\ Scanning /\ Separates
  /\ cmd' = [cmd EXCEPT !.nul = @ \cup {p}]
  /\ quoted' = IF line[p] = Quote THEN ~quoted ELSE quoted
  /\ p' = p + 1
  /\ UNCHANGED <<line, pc, at, list, i, rc>>

\* argv[arg_begin++] = p is executed.
StartsArg == cmd.argc = 0 \/ p - 1 \in cmd.nul

\* arg_begin when the limit is checked.
ArgsWith == IF StartsArg THEN cmd.argc + 1 ELSE cmd.argc

TooManyArgs ==
  /\ Scanning /\ ~Separates
  /\ ArgsWith >= ArgvMax - 1
  /\ Return("ERR_CMD_OR_ARGS_TOO_BIG")

ScanChar ==
  /\ Scanning /\ ~Separates
  /\ ArgsWith < ArgvMax - 1
  /\ cmd' = IF StartsArg THEN [cmd EXCEPT !.argv[cmd.argc] = p, !.argc = ArgsWith] ELSE cmd
  /\ p' = p + 1
  /\ UNCHANGED <<line, pc, at, list, quoted, i, rc>>

EndOfText ==
  /\ pc = "scan" /\ p > cmd.last
  /\ pc' = "redirect"
  /\ cmd' = [cmd EXCEPT !.argv[cmd.argc] = 0]
  /\ i' = 0
  /\ UNCHANGED <<line, at, list, p, quoted, rc>>

-----------------------------------------------------------------------------
(***************************************************************************)
(* build_cmd_buff(), second loop: an operator and the word after it are    *)
(* taken out of argv.                                                      *)
(***************************************************************************)

\* What a string that points to position n reads there.
CharAt(n) == IF n > cmd.last \/ n \in cmd.nul THEN Nul ELSE line[n]

\* The strcmp() of argv[i] with an operator.
Input    == CharAt(cmd.argv[i]) = "<" /\ CharAt(cmd.argv[i] + 1) = Nul
Truncate == CharAt(cmd.argv[i]) = ">" /\ CharAt(cmd.argv[i] + 1) = Nul
Extend   == /\ CharAt(cmd.argv[i]) = ">" /\ CharAt(cmd.argv[i] + 1) = ">"
            /\ CharAt(cmd.argv[i] + 2) = Nul

\* Mutant of Without: arg_begin stays.
WithoutLess(n) ==
  [cmd EXCEPT !.argv = [j \in Index |-> IF j \in n .. cmd.argc - 3 THEN cmd.argv[j + 2] ELSE cmd.argv[j]]]

\* cmd without the entries n and n + 1 of argv; what was behind moves up.
Without(n) ==
  [cmd EXCEPT !.argc = @ - 2,
              !.argv = [j \in Index |-> IF j \in n .. cmd.argc - 3 THEN cmd.argv[j + 2] ELSE cmd.argv[j]]]

\* Mutant of Redirect: without the i-- the entry that moved up is skipped.
RedirectSkips ==
  /\ pc = "redirect" /\ i + 1 < cmd.argc
  /\ Input \/ Truncate \/ Extend
  /\ LET file == cmd.argv[i + 1] IN
       cmd' = IF Input THEN [Without(i) EXCEPT !.input_file = file]
              ELSE [Without(i) EXCEPT !.output_file = file, !.append_output = Extend]
  /\ i' = i + 1
  /\ UNCHANGED <<line, pc, at, list, p, quoted, rc>>

\* An operator with a word after it.  i-- and the i++ of the loop cancel out.
Redirect ==
  /\ pc = "redirect" /\ i + 1 < cmd.argc
  /\ Input \/ Truncate \/ Extend
  /\ LET file == cmd.argv[i + 1] IN
       cmd' = IF Input THEN [Without(i) EXCEPT !.input_file = file]
              ELSE [Without(i) EXCEPT !.output_file = file, !.append_output = Extend]
  /\ UNCHANGED <<line, pc, at, list, p, quoted, i, rc>>

\* Any other word; an operator that is the last word stays an argument.
KeepArg ==
  /\ pc = "redirect" /\ i < cmd.argc
  /\ i + 1 = cmd.argc \/ ~(Input \/ Truncate \/ Extend)
  /\ i' = i + 1
  /\ UNCHANGED <<line, pc, at, list, cmd, p, quoted, rc>>

\* Mutant of EndOfArgs: argv is not ended again after the redirections.
EndOfArgsOpen ==
  /\ pc = "redirect" /\ i >= cmd.argc
  /\ pc' = "token"
  /\ list' = Append(list, cmd)
  /\ UNCHANGED <<line, at, cmd, p, quoted, i, rc>>

EndOfArgs ==
  /\ pc = "redirect" /\ i >= cmd.argc
  /\ pc' = "token"
  /\ list' = Append(list, [cmd EXCEPT !.argv[cmd.argc] = 0])
  /\ UNCHANGED <<line, at, cmd, p, quoted, i, rc>>

Next ==
  \/ LastToken \/ TooManyCommands \/ BlankCommand \/ OutOfMemory \/ NextCommand
  \/ ScanSeparator \/ TooManyArgs \/ ScanChar \/ EndOfText
  \/ Redirect \/ KeepArg \/ EndOfArgs

\* The loops go on as long as they can.
Spec == Init /\ [][Next]_vars /\ WF_vars(Next)
-----------------------------------------------------------------------------
\* What execvp() relies on: the entries of argv before argc point into the line,
\* and the one at argc is NULL (dshlib.c:157-158, 204-205; 401, 520).
Terminated(c) == (\A j \in 0 .. c.argc - 1 : c.argv[j] # 0) /\ c.argv[c.argc] = 0

\* It holds of every command of the list, whatever was taken out of argv.
ArgvEnded == \A n \in 1 .. Len(list) : Terminated(list[n])

\* The parser gives an answer to every line: it does not loop for ever when
\* arguments are taken out of the array that it walks through.
ParserEnds == <>(pc = "done")
=============================================================================
