--------------------------- MODULE CmdParseProofs ---------------------------
(***************************************************************************)
(* The parser stays inside its arrays and hands execvp() arguments that    *)
(* end, for every size of the arrays and every set of lines.  The          *)
(* strengthening InBounds says where the two loops of build_cmd_buff() are *)
(* and that they keep the entries of argv before argc pointers.            *)
(***************************************************************************)
EXTENDS CmdParse, TLAPS

\* The entries before argc are pointers.
Pointers(c) == \A j \in 0 .. c.argc - 1 : c.argv[j] # 0

InBounds ==
  /\ pc = "scan" => p <= cmd.last + 1
  /\ pc = "redirect" => i <= cmd.argc
  /\ pc \in {"scan", "redirect"} => Pointers(cmd)

IInv == TypeOK /\ ArgvEnded /\ InBounds

-----------------------------------------------------------------------------
\* What the types of a state and of the next one have in common.
LEMMA SameLine ==
  ASSUME UNCHANGED line
  PROVE  Cmd' = Cmd /\ Spots' = Spots
  BY DEF Cmd, Spots

\* A fresh command that ends at position n of the line.
LEMMA FreshCommand ==
  ASSUME line \in Seq(Chars), NEW n \in 0 .. Len(line)
  PROVE  /\ [Empty EXCEPT !.last = n] \in Cmd
         /\ [Empty EXCEPT !.last = n].last = n
         /\ [Empty EXCEPT !.last = n].argc = 0
<1>1. Len(line) \in Nat /\ 0 \in Index /\ 0 \in 0 .. Len(line) BY SizeAssumption DEF Index
<1>2. [j \in Index |-> 0] \in [Index -> 0 .. Len(line)] BY <1>1
<1>3. Empty \in Cmd BY <1>1, <1>2 DEF Empty, Cmd
<1>4. QED BY <1>3 DEF Cmd, Empty

\* A command with one more argument, a pointer, when there is room for it.
LEMMA WithArg ==
  ASSUME NEW c \in Cmd, NEW n \in Spots, Len(line) \in Nat, c.argc + 1 <= ArgvMax - 1, Pointers(c),
         NEW d, d = [c EXCEPT !.argv[c.argc] = n, !.argc = c.argc + 1]
  PROVE  d \in Cmd /\ Pointers(d) /\ d.last = c.last
<1>1. c.argc \in Index /\ c.argc + 1 \in Index BY SizeAssumption DEF Cmd, Index
<1>2. n \in 0 .. Len(line) /\ n # 0 BY DEF Spots
<1>3. [c.argv EXCEPT ![c.argc] = n] \in [Index -> 0 .. Len(line)] BY <1>1, <1>2 DEF Cmd
<1>4. d = [[c EXCEPT !.argv = [c.argv EXCEPT ![c.argc] = n]] EXCEPT !.argc = c.argc + 1] BY DEF Cmd
<1>5. d \in Cmd BY <1>1, <1>3, <1>4 DEF Cmd
<1>6. d.argv = [c.argv EXCEPT ![c.argc] = n] /\ d.argc = c.argc + 1 /\ d.last = c.last BY <1>4 DEF Cmd
<1>7. c.argv \in [Index -> 0 .. Len(line)] BY DEF Cmd
<1>8. ASSUME NEW j \in 0 .. d.argc - 1 PROVE d.argv[j] # 0
  <2>1. j \in Index /\ (j = c.argc \/ j \in 0 .. c.argc - 1) BY <1>1, <1>6, SizeAssumption DEF Index
  <2>2. QED BY <1>2, <1>6, <1>7, <2>1 DEF Pointers
<1>9. QED BY <1>5, <1>6, <1>8 DEF Pointers

\* A command with NULL written behind its arguments.
LEMMA WithEnd ==
  ASSUME NEW c \in Cmd, Len(line) \in Nat, Pointers(c), NEW d, d = [c EXCEPT !.argv[c.argc] = 0]
  PROVE  d \in Cmd /\ Pointers(d) /\ Terminated(d) /\ d.argc = c.argc /\ d.last = c.last
<1>1. c.argc \in Index BY DEF Cmd
<1>2. [c.argv EXCEPT ![c.argc] = 0] \in [Index -> 0 .. Len(line)] BY <1>1 DEF Cmd
<1>3. d = [c EXCEPT !.argv = [c.argv EXCEPT ![c.argc] = 0]] BY DEF Cmd
<1>4. d \in Cmd BY <1>2, <1>3 DEF Cmd
<1>5. d.argv = [c.argv EXCEPT ![c.argc] = 0] /\ d.argc = c.argc /\ d.last = c.last BY <1>3 DEF Cmd
<1>6. Pointers(d) /\ Terminated(d) BY <1>1, <1>5, SizeAssumption DEF Pointers, Terminated, Cmd, Index
<1>7. QED BY <1>4, <1>5, <1>6

\* Taking an operator and its file out of argv leaves pointers before argc.
LEMMA WithoutTwo ==
  ASSUME cmd \in Cmd, Len(line) \in Nat, Pointers(cmd), NEW n \in Nat, n + 1 < cmd.argc
  PROVE  /\ Without(n) \in Cmd
         /\ Pointers(Without(n))
         /\ Without(n).argc = cmd.argc - 2
         /\ Without(n).last = cmd.last
<1> DEFINE moved == [j \in Index |-> IF j \in n .. cmd.argc - 3 THEN cmd.argv[j + 2] ELSE cmd.argv[j]]
<1>1. cmd.argc \in Index /\ cmd.argc - 2 \in Index BY SizeAssumption DEF Cmd, Index
<1>2. moved \in [Index -> 0 .. Len(line)]
  <2>1. cmd.argv \in [Index -> 0 .. Len(line)] BY DEF Cmd
  <2>2. \A j \in n .. cmd.argc - 3 : j + 2 \in Index BY <1>1, SizeAssumption DEF Index
  <2>3. \A j \in Index : (IF j \in n .. cmd.argc - 3 THEN cmd.argv[j + 2] ELSE cmd.argv[j]) \in 0 .. Len(line)
    BY <2>1, <2>2
  <2>4. QED BY <2>3
<1>3. Without(n) = [[cmd EXCEPT !.argc = cmd.argc - 2] EXCEPT !.argv = moved] BY DEF Without
<1>4. Without(n) \in Cmd BY <1>1, <1>2, <1>3 DEF Cmd
<1>5. Without(n).argv = moved /\ Without(n).argc = cmd.argc - 2 /\ Without(n).last = cmd.last
  BY <1>3 DEF Cmd
<1>6. \A j \in 0 .. cmd.argc - 3 : moved[j] # 0 BY <1>1, SizeAssumption DEF Pointers, Index
<1>7. Pointers(Without(n)) BY <1>1, <1>5, <1>6 DEF Pointers, Index
<1>8. QED BY <1>4, <1>5, <1>7

\* Returning keeps the invariant: the list is complete or given up.
LEMMA ReturnInv ==
  ASSUME IInv, NEW code \in Codes, Return(code)
  PROVE  IInv'
<1>1. Cmd' = Cmd /\ Spots' = Spots BY SameLine DEF Return
<1>2. list' \in Seq(Cmd) /\ Len(list') <= CmdMax
  BY SizeAssumption DEF IInv, TypeOK, Return
<1>3. TypeOK' BY <1>1, <1>2 DEF IInv, TypeOK, Return
<1>4. ArgvEnded' BY DEF IInv, ArgvEnded, Return
<1>5. InBounds' BY DEF Return, InBounds
<1>6. QED BY <1>3, <1>4, <1>5 DEF IInv

LEMMA InitInv == Init => IInv
<1> SUFFICES ASSUME Init PROVE IInv OBVIOUS
<1>1. line \in Seq(Chars) /\ Len(line) \in Nat BY LinesAssumption DEF Init
<1>2. Empty \in Cmd
  <2>1. 0 \in Index /\ 0 \in 0 .. Len(line) BY <1>1, SizeAssumption DEF Index
  <2>2. [j \in Index |-> 0] \in [Index -> 0 .. Len(line)] BY <2>1
  <2>3. QED BY <2>1, <2>2 DEF Empty, Cmd
<1>3. list \in Seq(Cmd) /\ Len(list) <= CmdMax BY SizeAssumption DEF Init
<1>4. TypeOK
  <2>1. p \in 1 .. Len(line) + 1 /\ at \in 1 .. Len(line) + 1 /\ i \in 0 .. ArgvMax
    BY <1>1, SizeAssumption DEF Init
  <2>2. QED BY <1>1, <1>2, <1>3, <2>1 DEF Init, TypeOK, Codes
<1>5. ArgvEnded /\ InBounds BY DEF Init, ArgvEnded, InBounds
<1>6. QED BY <1>4, <1>5 DEF IInv

\* Every step of the parser keeps it inside of its arrays.
LEMMA StepInv == IInv /\ [Next]_vars => IInv'
<1> SUFFICES ASSUME IInv, [Next]_vars PROVE IInv' OBVIOUS
<1>1. Len(line) \in Nat /\ ArgvMax \in Nat /\ CmdMax \in Nat BY SizeAssumption DEF IInv, TypeOK
<1>2. cmd \in Cmd /\ cmd.argc \in Nat /\ cmd.argc < ArgvMax /\ cmd.last \in Nat /\ cmd.last <= Len(line)
  BY <1>1 DEF IInv, TypeOK, Cmd, Index
<1>3. CASE LastToken BY <1>3, ReturnInv DEF LastToken, Codes
<1>4. CASE TooManyCommands BY <1>4, ReturnInv DEF TooManyCommands, Codes
<1>5. CASE BlankCommand BY <1>5, ReturnInv DEF BlankCommand, Codes
<1>6. CASE OutOfMemory BY <1>6, ReturnInv DEF OutOfMemory, Codes
<1>7. CASE TooManyArgs BY <1>7, ReturnInv DEF TooManyArgs, Codes
<1>8. CASE NextCommand
  <2>a. PICK from \in at .. Len(line), to \in at .. Len(line) :
          /\ at' = to + 1
          /\ \E first, last \in from .. to :
               /\ Trimmed(from, to, first, last)
               /\ cmd' = [Empty EXCEPT !.last = last]
               /\ p' = first
    BY <1>8 DEF NextCommand
  <2>1. PICK first \in from .. to, last \in from .. to :
          /\ Trimmed(from, to, first, last)
          /\ cmd' = [Empty EXCEPT !.last = last]
          /\ p' = first
    BY <2>a
  <2>2. from \in Nat /\ to \in Nat /\ first \in 1 .. Len(line) /\ last \in 1 .. Len(line)
    BY <1>1 DEF IInv, TypeOK
  <2>3. first <= last BY <2>1, <2>2 DEF Trimmed, Blank
  <2>4. Cmd' = Cmd BY <1>8, SameLine DEF NextCommand
  <2>5. cmd' \in Cmd /\ cmd'.last = last /\ cmd'.argc = 0
    BY <1>1, <2>1, <2>2, FreshCommand DEF IInv, TypeOK
  <2>6. TypeOK'
    <3>1. p' \in 1 .. Len(line) + 1 /\ at' \in 1 .. Len(line) + 1
      BY <1>1, <2>a, <2>1, <2>2 DEF IInv, TypeOK
    <3>2. QED BY <1>8, <2>4, <2>5, <3>1 DEF NextCommand, IInv, TypeOK
  <2>7. InBounds' BY <1>8, <2>1, <2>2, <2>3, <2>5 DEF NextCommand, InBounds, Pointers
  <2>8. ArgvEnded' BY <1>8 DEF NextCommand, IInv, ArgvEnded
  <2>9. QED BY <2>6, <2>7, <2>8 DEF IInv
<1>9. CASE ScanSeparator
  <2>1. Cmd' = Cmd BY <1>9, SameLine DEF ScanSeparator
  <2>2. p \in Spots BY <1>1, <1>2, <1>9 DEF ScanSeparator, Scanning, IInv, TypeOK, Spots
  <2>3. cmd' \in Cmd /\ cmd'.argv = cmd.argv /\ cmd'.argc = cmd.argc /\ cmd'.last = cmd.last
    BY <1>2, <1>9, <2>2 DEF ScanSeparator, Cmd
  <2>4. TypeOK'
    <3>1. p' \in 1 .. Len(line) + 1 BY <1>1, <1>9, <2>2 DEF ScanSeparator, Spots
    <3>2. quoted' \in BOOLEAN BY <1>9 DEF ScanSeparator, IInv, TypeOK
    <3>3. QED BY <1>9, <2>1, <2>3, <3>1, <3>2 DEF ScanSeparator, IInv, TypeOK
  <2>5. InBounds' BY <1>2, <1>9, <2>2, <2>3 DEF ScanSeparator, Scanning, IInv, InBounds, Pointers, Spots
  <2>6. ArgvEnded' BY <1>9 DEF ScanSeparator, IInv, ArgvEnded
  <2>7. QED BY <2>4, <2>5, <2>6 DEF IInv
<1>10. CASE ScanChar
  <2>1. Cmd' = Cmd BY <1>10, SameLine DEF ScanChar
  <2>2. p \in Spots BY <1>1, <1>2, <1>10 DEF ScanChar, Scanning, IInv, TypeOK, Spots
  <2>3. Pointers(cmd) BY <1>10 DEF ScanChar, Scanning, IInv, InBounds
  <2>4. cmd' \in Cmd /\ Pointers(cmd') /\ cmd'.last = cmd.last
    <3>1. CASE StartsArg
      <4>1. cmd.argc + 1 <= ArgvMax - 1 BY <1>1, <1>2, <1>10, <3>1 DEF ScanChar, ArgsWith
      <4>2. cmd' = [cmd EXCEPT !.argv[cmd.argc] = p, !.argc = cmd.argc + 1]
        BY <1>10, <3>1 DEF ScanChar, ArgsWith
      <4>3. QED BY <1>1, <1>2, <2>2, <2>3, <4>1, <4>2, WithArg
    <3>2. CASE ~StartsArg BY <1>2, <1>10, <2>3, <3>2 DEF ScanChar
    <3>3. QED BY <3>1, <3>2
  <2>5. TypeOK' BY <1>1, <1>10, <2>1, <2>2, <2>4 DEF ScanChar, IInv, TypeOK, Spots
  <2>6. InBounds' BY <1>2, <1>10, <2>2, <2>4 DEF ScanChar, Scanning, IInv, InBounds, Spots
  <2>7. ArgvEnded' BY <1>10 DEF ScanChar, IInv, ArgvEnded
  <2>8. QED BY <2>5, <2>6, <2>7 DEF IInv
<1>11. CASE EndOfText
  <2>1. Cmd' = Cmd BY <1>11, SameLine DEF EndOfText
  <2>2. Pointers(cmd) BY <1>11 DEF EndOfText, IInv, InBounds
  <2>3. cmd' = [cmd EXCEPT !.argv[cmd.argc] = 0] BY <1>11 DEF EndOfText
  <2>4. cmd' \in Cmd /\ Pointers(cmd') /\ cmd'.argc = cmd.argc BY <1>1, <1>2, <2>2, <2>3, WithEnd
  <2>5. TypeOK' BY <1>1, <1>11, <2>1, <2>4 DEF EndOfText, IInv, TypeOK
  <2>6. InBounds' BY <1>2, <1>11, <2>4 DEF EndOfText, InBounds
  <2>7. ArgvEnded' BY <1>11 DEF EndOfText, IInv, ArgvEnded
  <2>8. QED BY <2>5, <2>6, <2>7 DEF IInv
<1>12. CASE Redirect
  <2>1. Cmd' = Cmd BY <1>12, SameLine DEF Redirect
  <2>2. Pointers(cmd) /\ i \in Nat /\ i + 1 < cmd.argc
    BY <1>1, <1>12 DEF Redirect, IInv, TypeOK, InBounds
  <2>3. /\ Without(i) \in Cmd /\ Pointers(Without(i))
        /\ Without(i).argc = cmd.argc - 2
    BY <1>1, <1>2, <2>2, WithoutTwo
  <2>4. cmd.argv[i + 1] \in 0 .. Len(line) BY <1>1, <1>2, <2>2, SizeAssumption DEF Cmd, Index
  <2>5. /\ cmd' \in Cmd
        /\ cmd'.argc = cmd.argc - 2
        /\ cmd'.argv = Without(i).argv
    <3>1. CASE Input BY <1>12, <2>3, <2>4, <3>1 DEF Redirect, Cmd
    <3>2. CASE ~Input
      <4>1. Extend \in BOOLEAN BY DEF Extend
      <4>2. QED BY <1>12, <2>3, <2>4, <3>2, <4>1 DEF Redirect, Cmd
    <3>3. QED BY <3>1, <3>2
  <2>6. Pointers(cmd') BY <2>3, <2>5 DEF Pointers
  <2>7. TypeOK' BY <1>1, <1>12, <2>1, <2>5 DEF Redirect, IInv, TypeOK
  <2>8. InBounds' BY <1>2, <1>12, <2>2, <2>5, <2>6 DEF Redirect, InBounds
  <2>9. ArgvEnded' BY <1>12 DEF Redirect, IInv, ArgvEnded
  <2>10. QED BY <2>7, <2>8, <2>9 DEF IInv
<1>13. CASE KeepArg
  <2>1. Cmd' = Cmd BY <1>13, SameLine DEF KeepArg
  <2>2. i \in Nat /\ i + 1 <= cmd.argc BY <1>1, <1>2, <1>13 DEF KeepArg, IInv, TypeOK
  <2>3. TypeOK' BY <1>1, <1>2, <1>13, <2>1, <2>2 DEF KeepArg, IInv, TypeOK
  <2>4. InBounds' BY <1>13, <2>2 DEF KeepArg, IInv, InBounds, Pointers
  <2>5. ArgvEnded' BY <1>13 DEF KeepArg, IInv, ArgvEnded
  <2>6. QED BY <2>3, <2>4, <2>5 DEF IInv
<1>14. CASE EndOfArgs
  <2> DEFINE done == [cmd EXCEPT !.argv[cmd.argc] = 0]
  <2>1. Cmd' = Cmd BY <1>14, SameLine DEF EndOfArgs
  <2>2. Pointers(cmd) BY <1>14 DEF EndOfArgs, IInv, InBounds
  <2>3. done \in Cmd /\ Terminated(done) BY <1>1, <1>2, <2>2, WithEnd
  <2>4. list \in Seq(Cmd) /\ Len(list) < CmdMax BY <1>14 DEF EndOfArgs, IInv, TypeOK
  <2>5. list' = Append(list, done) BY <1>14 DEF EndOfArgs
  <2>6. /\ list' \in Seq(Cmd) /\ Len(list') = Len(list) + 1
        /\ \A n \in 1 .. Len(list') : list'[n] = IF n <= Len(list) THEN list[n] ELSE done
    BY <2>3, <2>4, <2>5
  <2>7. TypeOK' BY <1>1, <1>14, <2>1, <2>4, <2>6 DEF EndOfArgs, IInv, TypeOK
  <2>8. ArgvEnded' BY <2>3, <2>4, <2>6 DEF IInv, ArgvEnded
  <2>9. InBounds' BY <1>14 DEF EndOfArgs, InBounds
  <2>10. QED BY <2>7, <2>8, <2>9 DEF IInv
<1>15. CASE UNCHANGED vars
  <2>1. Cmd' = Cmd BY <1>15, SameLine DEF vars
  <2>2. QED BY <1>15, <2>1 DEF vars, IInv, TypeOK, ArgvEnded, InBounds, Pointers, Terminated
<1>16. QED
  BY <1>3, <1>4, <1>5, <1>6, <1>7, <1>8, <1>9, <1>10, <1>11, <1>12, <1>13, <1>14, <1>15 DEF Next

-----------------------------------------------------------------------------
\* The parser writes only inside of argv and of the array of commands, and its
\* pointers stay inside of the line, for every size of the arrays
\* (dshlib.c:129-205, 229-271).
THEOREM ParserInBounds == Spec => []TypeOK
<1>1. IInv => TypeOK BY DEF IInv
<1>2. QED BY <1>1, InitInv, StepInv, PTL DEF Spec

\* Every command that the parser accepts has an argv of pointers with a NULL
\* behind them, as execvp() needs it (dshlib.c:204-205, 401, 520).
THEOREM ArgvIsTerminated == Spec => []ArgvEnded
<1>1. IInv => ArgvEnded BY DEF IInv
<1>2. QED BY <1>1, InitInv, StepInv, PTL DEF Spec
=============================================================================
