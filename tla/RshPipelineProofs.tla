------------------------- MODULE RshPipelineProofs -------------------------
(***************************************************************************)
(* Pipelines of any number of handlers and commands: the server gives back *)
(* every pipe end, each command runs with its own ends, and the function   *)
(* returns after waiting only when all commands have ended.  IInv says for *)
(* each place of rsh_execute_pipeline() how far its loop can be, which     *)
(* ends the server still holds there, and whom it has waited for.          *)
(***************************************************************************)
EXTENDS RshPipeline, TLAPS

\* The ends of the pipes that the pipeline of h has.
AllEnds(h) == {e \in EndsOf(h) : e[2] < num[h]}

\* The ends that the closing loop of h has still to do.
Unclosed(h) == {Closed(h, i) : i \in k[h] .. 2 * (num[h] - 1) - 1}

\* How far the loop of h can be.
Place(h) ==
  /\ phase[h] = "idle" => k[h] = 0
  /\ phase[h] = "pipe" => k[h] < num[h] - 1
  /\ phase[h] \in {"fork", "wait"} => k[h] < num[h]
  /\ phase[h] \in {"close", "abort"} => k[h] < 2 * (num[h] - 1)

\* What the server holds of the pipeline of h.
Held(h) ==
  /\ phase[h] \in {"idle", "wait"} => held \cap EndsOf(h) = {}
  /\ phase[h] = "pipe" => held \cap EndsOf(h) = {e \in EndsOf(h) : e[2] <= k[h]}
  /\ phase[h] = "fork" => held \cap EndsOf(h) = AllEnds(h)
  /\ phase[h] \in {"close", "abort"} => held \cap EndsOf(h) \subseteq Unclosed(h)

\* Those before the one that h waits for have ended.
Waited(h) == phase[h] = "wait" => \A i \in 1 .. k[h] : ~Alive(<<h, i>>)

\* What a command holds of its own pipeline.
Kept(c) ==
  /\ Alive(c) => c[2] <= num[c[1]]
  /\ cmd[c] = "forked" => ends[c] \cap EndsOf(c[1]) = AllEnds(c[1])
  /\ cmd[c] = "running" => ends[c] \cap EndsOf(c[1]) = Std(c)

IInv ==
  /\ TypeOK
  /\ \A h \in Handlers : Place(h) /\ Held(h) /\ Waited(h)
  /\ \A c \in Cmds : Kept(c)

-----------------------------------------------------------------------------
\* The closing loop goes over every end that the pipeline of h has.
LEMMA LoopCoversEnds ==
  ASSUME NEW h \in Handlers, NEW n \in 1 .. MaxCmds, NEW e \in EndsOf(h), e[2] < n
  PROVE  \E i \in 0 .. 2 * (n - 1) - 1 : e = Closed(h, i)
<1>1. PICK j \in 1 .. MaxCmds - 1, x \in {"r", "w"} : e = <<h, j, x>> BY DEF EndsOf, Ends
<1>2. j \in Nat /\ 1 <= j /\ j < n /\ n \in Nat BY <1>1, SizeAssumption
<1>3. CASE x = "r"
  <2>1. 2 * (j - 1) \in 0 .. 2 * (n - 1) - 1 BY <1>2
  <2>2. (2 * (j - 1)) % 2 = 0 /\ (2 * (j - 1)) \div 2 = j - 1 BY <1>2
  <2>3. e = Closed(h, 2 * (j - 1)) BY <1>1, <1>2, <1>3, <2>2 DEF Closed
  <2>4. QED BY <2>1, <2>3
<1>4. CASE x = "w"
  <2>1. 2 * (j - 1) + 1 \in 0 .. 2 * (n - 1) - 1 BY <1>2
  <2>2. (2 * (j - 1) + 1) % 2 = 1 /\ (2 * (j - 1) + 1) \div 2 = j - 1 BY <1>2
  <2>3. e = Closed(h, 2 * (j - 1) + 1) BY <1>1, <1>2, <1>4, <2>2 DEF Closed
  <2>4. QED BY <2>1, <2>3
<1>5. QED BY <1>3, <1>4

\* Every close() of h is of an end of h.
LEMMA ClosesOwn ==
  ASSUME NEW h \in Handlers, NEW i \in Nat
  PROVE  Closed(h, i)[1] = h
  BY DEF Closed

\* A handler whose loop does not move keeps what it knows, as long as its ends
\* stay and none of its commands comes to life.
LEMMA OtherHandler ==
  ASSUME NEW h \in Handlers, TypeOK, Place(h), Held(h), Waited(h),
         phase'[h] = phase[h], k'[h] = k[h], num'[h] = num[h],
         held' \cap EndsOf(h) = held \cap EndsOf(h),
         \A i \in 1 .. MaxCmds : Alive(<<h, i>>)' => Alive(<<h, i>>)
  PROVE  Place(h)' /\ Held(h)' /\ Waited(h)'
<1>1. Place(h)' BY DEF Place
<1>2. Held(h)' BY DEF Held, AllEnds, Unclosed, EndsOf, Closed
<1>3. Waited(h)'
  <2> SUFFICES ASSUME phase[h] = "wait", NEW i \in 1 .. k[h] PROVE ~Alive(<<h, i>>)'
    BY DEF Waited
  <2>1. i \in 1 .. MaxCmds BY SizeAssumption DEF Place, TypeOK
  <2>2. QED BY <2>1 DEF Waited
<1>4. QED BY <1>1, <1>2, <1>3

\* A command that no step concerns.
LEMMA OtherCommand ==
  ASSUME NEW c \in Cmds, Kept(c), cmd'[c] = cmd[c], ends'[c] = ends[c], num'[c[1]] = num[c[1]]
  PROVE  Kept(c)'
  BY DEF Kept, Alive, AllEnds, Std, In, Out, EndsOf

\* A command that is not alive holds no more.
LEMMA EndedCommand ==
  ASSUME NEW c \in Cmds, cmd'[c] \in {"none", "exited"}
  PROVE  Kept(c)'
  BY DEF Kept, Alive

\* The ends that a command should run with are ends of its pipeline.
LEMMA StdInAll ==
  ASSUME NEW c \in Cmds, TypeOK, c[2] <= num[c[1]]
  PROVE  Std(c) \subseteq AllEnds(c[1])
<1>1. PICK h \in Handlers, i \in 1 .. MaxCmds : c = <<h, i>> BY DEF Cmds
<1>2. num[h] \in 1 .. MaxCmds BY DEF TypeOK
<1>3. i > 1 => In(c) \in AllEnds(h)
  BY <1>1, <1>2, SizeAssumption DEF In, AllEnds, EndsOf, Ends
<1>4. i < num[h] => Out(c) \in AllEnds(h)
  BY <1>1, <1>2, SizeAssumption DEF Out, AllEnds, EndsOf, Ends
<1>5. QED BY <1>1, <1>3, <1>4 DEF Std

LEMMA InitInv == Init => IInv
<1> SUFFICES ASSUME Init PROVE IInv OBVIOUS
<1>1. TypeOK BY SizeAssumption DEF Init, TypeOK
<1>2. ASSUME NEW h \in Handlers PROVE Place(h) /\ Held(h) /\ Waited(h)
  BY DEF Init, Place, Held, Waited
<1>3. ASSUME NEW c \in Cmds PROVE Kept(c)
  BY DEF Init, Kept, Alive
<1>4. QED BY <1>1, <1>2, <1>3 DEF IInv

-----------------------------------------------------------------------------
\* What leaving a loop, or a round of it, does to the handler variables.
LEMMA GotoEffect ==
  ASSUME TypeOK, NEW h \in Handlers,
         NEW where \in {"idle", "pipe", "fork", "close", "abort", "wait"}, Goto(h, where)
  PROVE  /\ phase' \in [Handlers -> {"idle", "pipe", "fork", "close", "abort", "wait"}]
         /\ k' \in [Handlers -> 0 .. 2 * MaxCmds]
         /\ num' = num
         /\ phase'[h] = where /\ k'[h] = 0
         /\ \A g \in Handlers \ {h} : phase'[g] = phase[g] /\ k'[g] = k[g]
  BY SizeAssumption DEF Goto, TypeOK

LEMMA RoundEffect ==
  ASSUME TypeOK, NEW h \in Handlers,
         NEW where \in {"idle", "pipe", "fork", "close", "abort", "wait"},
         NEW n \in 0 .. 2 * MaxCmds, k[h] < n, Round(h, n, where)
  PROVE  /\ phase' \in [Handlers -> {"idle", "pipe", "fork", "close", "abort", "wait"}]
         /\ k' \in [Handlers -> 0 .. 2 * MaxCmds]
         /\ num' = num
         /\ \/ k[h] + 1 = n /\ phase'[h] = where /\ k'[h] = 0
            \/ k[h] + 1 < n /\ phase'[h] = phase[h] /\ k'[h] = k[h] + 1
         /\ \A g \in Handlers \ {h} : phase'[g] = phase[g] /\ k'[g] = k[g]
<1>1. k[h] \in Nat BY DEF TypeOK
<1>2. CASE k[h] + 1 = n BY <1>2, GotoEffect DEF Round
<1>3. CASE k[h] + 1 # n
  <2>1. k' = [k EXCEPT ![h] = @ + 1] /\ phase' = phase /\ num' = num BY <1>3 DEF Round
  <2>2. k[h] + 1 < n /\ k[h] + 1 \in 0 .. 2 * MaxCmds BY <1>1, <1>3, SizeAssumption
  <2>3. QED BY <2>1, <2>2 DEF TypeOK
<1>4. QED BY <1>2, <1>3

\* A step of handler h has only h and the commands to answer for.
LEMMA HandlerStepInv ==
  ASSUME IInv, TypeOK', NEW h \in Handlers,
         \A g \in Handlers \ {h} :
           /\ phase'[g] = phase[g] /\ k'[g] = k[g] /\ num'[g] = num[g]
           /\ held' \cap EndsOf(g) = held \cap EndsOf(g)
           /\ \A i \in 1 .. MaxCmds : Alive(<<g, i>>)' => Alive(<<g, i>>),
         Place(h)', Held(h)', Waited(h)',
         \A c \in Cmds : Kept(c)'
  PROVE  IInv'
<1>1. ASSUME NEW g \in Handlers \ {h} PROVE Place(g)' /\ Held(g)' /\ Waited(g)'
  BY <1>1, OtherHandler DEF IInv
<1>2. QED BY <1>1 DEF IInv

\* A step of a command has only the commands to answer for.
LEMMA CommandStepInv ==
  ASSUME IInv, TypeOK', UNCHANGED <<handlerVars, held>>,
         \A c \in Cmds : (Alive(c)' => Alive(c)) /\ Kept(c)'
  PROVE  IInv'
<1>1. \A h \in Handlers : \A i \in 1 .. MaxCmds : Alive(<<h, i>>)' => Alive(<<h, i>>)
  BY DEF Cmds
<1>2. ASSUME NEW h \in Handlers PROVE Place(h)' /\ Held(h)' /\ Waited(h)'
  BY <1>1, OtherHandler DEF IInv, handlerVars
<1>3. QED BY <1>2 DEF IInv

\* A command is of a handler, and its pipeline has a length.
LEMMA CmdOf ==
  ASSUME NEW c \in Cmds, TypeOK
  PROVE  c[1] \in Handlers /\ c[2] \in 1 .. MaxCmds /\ c = <<c[1], c[2]>> /\ num[c[1]] \in 1 .. MaxCmds
  BY DEF Cmds, TypeOK

-----------------------------------------------------------------------------
LEMMA BeginInv ==
  ASSUME IInv, NEW h \in Handlers, NEW n \in Lengths[h], Begin(h, n)
  PROVE  IInv'
<1>1. n \in 1 .. MaxCmds /\ TypeOK BY LengthsAssumption DEF IInv
<1>2. phase' = [phase EXCEPT ![h] = IF n > 1 THEN "pipe" ELSE "fork"]
      /\ num' = [num EXCEPT ![h] = n] /\ k' = k /\ held' = held /\ ends' = ends
      /\ cmd' = [c \in Cmds |-> IF c[1] = h THEN "none" ELSE cmd[c]]
      /\ reads' = reads /\ left' = left
      /\ buf' = [p \in Pipes |-> IF p[1] = h THEN 0 ELSE buf[p]]
      /\ phase[h] = "idle"
  BY DEF Begin
<1>3. TypeOK'
  <2>1. phase' \in [Handlers -> {"idle", "pipe", "fork", "close", "abort", "wait"}]
        /\ num' \in [Handlers -> 1 .. MaxCmds] /\ k' \in [Handlers -> 0 .. 2 * MaxCmds]
    BY <1>1, <1>2 DEF TypeOK
  <2>2. cmd' \in [Cmds -> {"none", "forked", "running", "exited"}] BY <1>1, <1>2 DEF TypeOK
  <2>3. buf' \in [Pipes -> 0 .. Capacity] BY <1>1, <1>2, SizeAssumption DEF TypeOK
  <2>4. QED BY <1>1, <1>2, <2>1, <2>2, <2>3 DEF TypeOK
<1>4. k[h] = 0 /\ held \cap EndsOf(h) = {} BY <1>2 DEF IInv, Place, Held
<1>5. phase'[h] = (IF n > 1 THEN "pipe" ELSE "fork") /\ num'[h] = n BY <1>1, <1>2 DEF TypeOK
<1>6. Place(h)' BY <1>1, <1>2, <1>4, <1>5, SizeAssumption DEF Place
<1>7. \A e \in EndsOf(h) : e[2] \in Nat /\ e[2] >= 1 BY SizeAssumption DEF EndsOf, Ends
<1>8. Held(h)'
  <2>1. CASE n > 1 BY <1>2, <1>4, <1>5, <1>7, <2>1 DEF Held
  <2>2. CASE n = 1
    <3>1. {e \in EndsOf(h) : e[2] < num'[h]} = {} BY <1>5, <1>7, <2>2
    <3>2. AllEnds(h)' = {} BY <3>1 DEF AllEnds, EndsOf
    <3>3. QED BY <1>2, <1>4, <1>5, <2>2, <3>2 DEF Held, EndsOf
  <2>3. QED BY <1>1, <2>1, <2>2
<1>9. Waited(h)' BY <1>5 DEF Waited
<1>10. ASSUME NEW c \in Cmds PROVE Kept(c)'
  <2>1. CASE c[1] = h BY <1>2, <2>1, EndedCommand
  <2>2. CASE c[1] # h
    <3>1. num'[c[1]] = num[c[1]] /\ cmd'[c] = cmd[c] BY <1>1, <1>2, <2>2, CmdOf DEF TypeOK
    <3>2. QED BY <1>2, <3>1, OtherCommand DEF IInv
  <2>3. QED BY <2>1, <2>2
<1>11. ASSUME NEW g \in Handlers \ {h}
       PROVE  /\ phase'[g] = phase[g] /\ k'[g] = k[g] /\ num'[g] = num[g]
              /\ held' \cap EndsOf(g) = held \cap EndsOf(g)
              /\ \A i \in 1 .. MaxCmds : Alive(<<g, i>>)' => Alive(<<g, i>>)
  <2>1. phase'[g] = phase[g] /\ num'[g] = num[g] BY <1>1, <1>2 DEF TypeOK
  <2>2. ASSUME NEW i \in 1 .. MaxCmds PROVE cmd'[<<g, i>>] = cmd[<<g, i>>]
    BY <1>2 DEF Cmds
  <2>3. QED BY <1>2, <2>1, <2>2 DEF Alive
<1>12. QED BY <1>3, <1>6, <1>8, <1>9, <1>10, <1>11, HandlerStepInv

\* A step that starts or ends no command leaves what the commands keep.
LEMMA SameCommands ==
  ASSUME IInv, UNCHANGED <<cmd, ends, num>>
  PROVE  \A c \in Cmds : Kept(c)' /\ (Alive(c)' <=> Alive(c))
<1>1. ASSUME NEW c \in Cmds PROVE Kept(c)' /\ (Alive(c)' <=> Alive(c))
  <2>1. Kept(c)' BY OtherCommand DEF IInv
  <2>2. QED BY <2>1 DEF Alive
<1>2. QED BY <1>1

LEMMA MakePipeInv ==
  ASSUME IInv, NEW h \in Handlers, MakePipe(h)
  PROVE  IInv'
<1> DEFINE new == {<<h, k[h] + 1, "r">>, <<h, k[h] + 1, "w">>}
<1>1. TypeOK /\ phase[h] = "pipe" /\ k[h] < num[h] - 1 /\ k[h] \in Nat /\ num[h] \in 1 .. MaxCmds
  BY DEF IInv, Place, MakePipe, TypeOK
<1>2. held' = held \cup new /\ UNCHANGED <<cmd, reads, left, ends, buf>> BY DEF MakePipe, cmdVars
<1>3. num[h] - 1 \in 0 .. 2 * MaxCmds BY <1>1, SizeAssumption
<1>4. Round(h, num[h] - 1, "fork") BY DEF MakePipe
<1>5. /\ phase' \in [Handlers -> {"idle", "pipe", "fork", "close", "abort", "wait"}]
      /\ k' \in [Handlers -> 0 .. 2 * MaxCmds]
      /\ num' = num
      /\ \/ k[h] + 1 = num[h] - 1 /\ phase'[h] = "fork" /\ k'[h] = 0
         \/ k[h] + 1 < num[h] - 1 /\ phase'[h] = phase[h] /\ k'[h] = k[h] + 1
      /\ \A g \in Handlers \ {h} : phase'[g] = phase[g] /\ k'[g] = k[g]
  BY <1>1, <1>3, <1>4, RoundEffect
<1>6. new \subseteq EndsOf(h) BY <1>1, SizeAssumption DEF EndsOf, Ends
<1>7. TypeOK'
  <2>1. held' \subseteq Ends BY <1>1, <1>2, <1>6 DEF TypeOK, EndsOf
  <2>2. QED BY <1>1, <1>2, <1>5, <2>1 DEF TypeOK
<1>8. held' \cap EndsOf(h) = {e \in EndsOf(h) : e[2] <= k[h] + 1}
  <2>1. held \cap EndsOf(h) = {e \in EndsOf(h) : e[2] <= k[h]} BY <1>1 DEF IInv, Held
  <2>2. ASSUME NEW e \in EndsOf(h) PROVE e[2] <= k[h] + 1 <=> (e[2] <= k[h] \/ e \in new)
    BY <1>1, SizeAssumption DEF EndsOf, Ends
  <2>3. QED BY <1>2, <1>6, <2>1, <2>2
<1>9. Place(h)' BY <1>1, <1>5 DEF Place
<1>10. Held(h)'
  <2>1. CASE phase'[h] = "pipe" /\ k'[h] = k[h] + 1 BY <1>8, <2>1 DEF Held, EndsOf
  <2>2. CASE k[h] + 1 = num[h] - 1 /\ phase'[h] = "fork"
    <3>1. \A e \in EndsOf(h) : e[2] \in Nat BY DEF EndsOf, Ends
    <3>2. {e \in EndsOf(h) : e[2] <= k[h] + 1} = {e \in EndsOf(h) : e[2] < num[h]}
      BY <1>1, <2>2, <3>1
    <3>3. AllEnds(h)' = {e \in EndsOf(h) : e[2] < num[h]} BY <1>5 DEF AllEnds, EndsOf
    <3>4. QED BY <1>8, <2>2, <3>2, <3>3 DEF Held, EndsOf
  <2>3. QED BY <1>1, <1>5, <2>1, <2>2
<1>11. Waited(h)' BY <1>1, <1>5 DEF Waited
<1>12. ASSUME NEW g \in Handlers \ {h}
       PROVE  /\ phase'[g] = phase[g] /\ k'[g] = k[g] /\ num'[g] = num[g]
              /\ held' \cap EndsOf(g) = held \cap EndsOf(g)
              /\ \A i \in 1 .. MaxCmds : Alive(<<g, i>>)' => Alive(<<g, i>>)
  BY <1>2, <1>5 DEF EndsOf, Alive
<1>13. QED BY <1>2, <1>5, <1>7, <1>9, <1>10, <1>11, <1>12, SameCommands, HandlerStepInv

\* The ends of a pipeline are those the closing loop has before it, when it
\* starts; a single command has none.
LEMMA AllUnclosed ==
  ASSUME NEW h \in Handlers, TypeOK', k'[h] = 0
  PROVE  AllEnds(h)' \subseteq Unclosed(h)'
<1> SUFFICES ASSUME NEW e \in EndsOf(h), e[2] < num'[h]
             PROVE  \E i \in 0 .. 2 * (num'[h] - 1) - 1 : e = Closed(h, i)
  BY DEF AllEnds, Unclosed, EndsOf, Closed
<1>1. num'[h] \in 1 .. MaxCmds BY DEF TypeOK
<1>2. QED BY <1>1, LoopCoversEnds

LEMMA SingleHasNoEnds ==
  ASSUME NEW h \in Handlers, num[h] = 1
  PROVE  AllEnds(h) = {}
<1>1. \A e \in EndsOf(h) : e[2] \in 1 .. MaxCmds - 1 BY DEF EndsOf, Ends
<1>2. QED BY <1>1, SizeAssumption DEF AllEnds

\* Leaving the fork() loop for the closing loop, or past it when there are no pipes.
LEMMA LeavingFork ==
  ASSUME IInv, NEW h \in Handlers, TypeOK', phase[h] = "fork",
         UNCHANGED <<held, num>>, k'[h] = 0,
         NEW where \in {"close", "abort"}, NEW otherwise \in {"wait", "idle"},
         phase'[h] = IfPiped(h, where, otherwise)
  PROVE  Place(h)' /\ Held(h)' /\ Waited(h)'
<1>1. num[h] \in 1 .. MaxCmds /\ num'[h] = num[h] BY DEF IInv, TypeOK
<1>2. held' \cap EndsOf(h)' = AllEnds(h)'
  BY DEF IInv, Held, AllEnds, EndsOf
<1>3. Place(h)' BY <1>1 DEF Place, IfPiped
<1>4. Waited(h)' BY DEF Waited
<1>5. Held(h)'
  <2>1. CASE num[h] > 1
    <3>1. phase'[h] \in {"close", "abort"} BY <2>1 DEF IfPiped
    <3>2. QED BY <1>2, <3>1, AllUnclosed DEF Held
  <2>2. CASE num[h] = 1
    <3>1. phase'[h] \in {"wait", "idle"} BY <2>2 DEF IfPiped
    <3>2. AllEnds(h)' = {} BY <1>1, <2>2, SingleHasNoEnds DEF AllEnds, EndsOf
    <3>3. QED BY <1>2, <3>1, <3>2 DEF Held
  <2>3. QED BY <1>1, <2>1, <2>2
<1>6. QED BY <1>3, <1>4, <1>5

LEMMA ForkInv ==
  ASSUME IInv, NEW h \in Handlers, Fork(h)
  PROVE  IInv'
<1> DEFINE c == <<h, k[h] + 1>>
<1>1. TypeOK /\ phase[h] = "fork" /\ k[h] < num[h] /\ k[h] \in Nat /\ num[h] \in 1 .. MaxCmds
  BY DEF IInv, Place, Fork, TypeOK
<1>2. /\ cmd' = [cmd EXCEPT ![c] = "forked"]
      /\ ends' = [ends EXCEPT ![c] = held]
      /\ Program(c)
      /\ held' = held /\ buf' = buf
      /\ Round(h, num[h], IfPiped(h, "close", "wait"))
  BY DEF Fork
<1>3. num[h] \in 0 .. 2 * MaxCmds BY <1>1, SizeAssumption
<1>4. IfPiped(h, "close", "wait") \in {"idle", "pipe", "fork", "close", "abort", "wait"}
  BY DEF IfPiped
<1>5. /\ phase' \in [Handlers -> {"idle", "pipe", "fork", "close", "abort", "wait"}]
      /\ k' \in [Handlers -> 0 .. 2 * MaxCmds]
      /\ num' = num
      /\ \/ k[h] + 1 = num[h] /\ phase'[h] = IfPiped(h, "close", "wait") /\ k'[h] = 0
         \/ k[h] + 1 < num[h] /\ phase'[h] = phase[h] /\ k'[h] = k[h] + 1
      /\ \A g \in Handlers \ {h} : phase'[g] = phase[g] /\ k'[g] = k[g]
  BY <1>1, <1>2, <1>3, <1>4, RoundEffect
<1>6. c \in Cmds
  <2>1. k[h] + 1 \in 1 .. MaxCmds BY <1>1, SizeAssumption
  <2>2. QED BY <2>1 DEF Cmds
<1>7. TypeOK'
  <2>1. reads' \in [Cmds -> BOOLEAN]
    <3>1. PICK b \in (IF c[2] = 1 THEN FirstReads ELSE BOOLEAN) : reads' = [reads EXCEPT ![c] = b]
      BY <1>2 DEF Program
    <3>2. b \in BOOLEAN BY <3>1, ReadsAssumption
    <3>3. QED BY <1>1, <3>1, <3>2 DEF TypeOK
  <2>2. left' \in [Cmds -> 0 .. Output]
    <3>1. PICK n \in (IF c[2] < num[c[1]] THEN {0, Output} ELSE {0}) : left' = [left EXCEPT ![c] = n]
      BY <1>2 DEF Program
    <3>2. n \in 0 .. Output BY <3>1, SizeAssumption
    <3>3. QED BY <1>1, <3>1, <3>2 DEF TypeOK
  <2>3. cmd' \in [Cmds -> {"none", "forked", "running", "exited"}] BY <1>1, <1>2 DEF TypeOK
  <2>4. ends' \in [Cmds -> SUBSET Ends] BY <1>1, <1>2 DEF TypeOK
  <2>5. QED BY <1>1, <1>2, <1>5, <2>1, <2>2, <2>3, <2>4 DEF TypeOK
<1>8. Place(h)' /\ Held(h)' /\ Waited(h)'
  <2>1. CASE k[h] + 1 = num[h] /\ phase'[h] = IfPiped(h, "close", "wait") /\ k'[h] = 0
    BY <1>1, <1>2, <1>5, <1>7, <2>1, LeavingFork
  <2>2. CASE k[h] + 1 < num[h] /\ phase'[h] = phase[h] /\ k'[h] = k[h] + 1
    <3>1. Place(h)' BY <1>1, <1>5, <2>2 DEF Place
    <3>2. Held(h)' BY <1>1, <1>2, <1>5, <2>2 DEF IInv, Held, AllEnds, EndsOf
    <3>3. Waited(h)' BY <1>1, <2>2 DEF Waited
    <3>4. QED BY <3>1, <3>2, <3>3
  <2>3. QED BY <1>5, <2>1, <2>2
<1>9. ASSUME NEW d \in Cmds PROVE Kept(d)'
  <2>1. CASE d = c
    <3>1. cmd'[d] = "forked" /\ ends'[d] = held BY <1>1, <1>2, <1>6, <2>1 DEF TypeOK
    <3>2. d[1] = h /\ d[2] <= num'[h] BY <1>1, <1>5, <2>1
    <3>3. held \cap EndsOf(h) = AllEnds(h) BY <1>1 DEF IInv, Held
    <3>4. QED BY <1>5, <3>1, <3>2, <3>3 DEF Kept, AllEnds, EndsOf
  <2>2. CASE d # c
    <3>1. cmd'[d] = cmd[d] /\ ends'[d] = ends[d] BY <1>1, <1>2, <2>2 DEF TypeOK
    <3>2. QED BY <1>5, <3>1, OtherCommand DEF IInv
  <2>3. QED BY <2>1, <2>2
<1>10. ASSUME NEW g \in Handlers \ {h}
       PROVE  /\ phase'[g] = phase[g] /\ k'[g] = k[g] /\ num'[g] = num[g]
              /\ held' \cap EndsOf(g) = held \cap EndsOf(g)
              /\ \A i \in 1 .. MaxCmds : Alive(<<g, i>>)' => Alive(<<g, i>>)
  <2>1. ASSUME NEW i \in 1 .. MaxCmds PROVE cmd'[<<g, i>>] = cmd[<<g, i>>]
    <3>1. <<g, i>> \in Cmds /\ <<g, i>> # c BY DEF Cmds
    <3>2. QED BY <1>1, <1>2, <3>1 DEF TypeOK
  <2>2. QED BY <1>2, <1>5, <2>1 DEF Alive
<1>11. QED BY <1>7, <1>8, <1>9, <1>10, HandlerStepInv

LEMMA ForkFailsInv ==
  ASSUME IInv, NEW h \in Handlers, ForkFails(h)
  PROVE  IInv'
<1>1. TypeOK /\ phase[h] = "fork" /\ Goto(h, IfPiped(h, "abort", "idle"))
      /\ held' = held /\ UNCHANGED <<cmd, reads, left, ends, buf>>
  BY DEF IInv, ForkFails, cmdVars
<1>2. IfPiped(h, "abort", "idle") \in {"idle", "pipe", "fork", "close", "abort", "wait"}
  BY DEF IfPiped
<1>3. /\ phase' \in [Handlers -> {"idle", "pipe", "fork", "close", "abort", "wait"}]
      /\ k' \in [Handlers -> 0 .. 2 * MaxCmds]
      /\ num' = num
      /\ phase'[h] = IfPiped(h, "abort", "idle") /\ k'[h] = 0
      /\ \A g \in Handlers \ {h} : phase'[g] = phase[g] /\ k'[g] = k[g]
  BY <1>1, <1>2, GotoEffect
<1>4. TypeOK' BY <1>1, <1>3 DEF TypeOK
<1>5. Place(h)' /\ Held(h)' /\ Waited(h)' BY <1>1, <1>3, <1>4, LeavingFork
<1>6. QED BY <1>1, <1>3, <1>4, <1>5, SameCommands, HandlerStepInv DEF Alive

LEMMA CloseNextInv ==
  ASSUME IInv, NEW h \in Handlers, CloseNext(h)
  PROVE  IInv'
<1> DEFINE e == Closed(h, k[h])
<1> DEFINE last == 2 * (num[h] - 1)
<1>1. /\ TypeOK /\ phase[h] \in {"close", "abort"}
      /\ k[h] < last /\ k[h] \in Nat /\ num[h] \in 1 .. MaxCmds
  BY DEF IInv, Place, CloseNext, TypeOK
<1>2. held' = held \ {e} /\ UNCHANGED <<cmd, reads, left, ends, buf>> BY DEF CloseNext, cmdVars
<1>3. last \in 0 .. 2 * MaxCmds BY <1>1, SizeAssumption
<1> DEFINE where == IF phase[h] = "close" THEN "wait" ELSE "idle"
<1>4. where \in {"idle", "pipe", "fork", "close", "abort", "wait"} OBVIOUS
<1>5. Round(h, last, where) BY DEF CloseNext
<1>6. /\ phase' \in [Handlers -> {"idle", "pipe", "fork", "close", "abort", "wait"}]
      /\ k' \in [Handlers -> 0 .. 2 * MaxCmds]
      /\ num' = num
      /\ \/ k[h] + 1 = last /\ phase'[h] = where /\ k'[h] = 0
         \/ k[h] + 1 < last /\ phase'[h] = phase[h] /\ k'[h] = k[h] + 1
      /\ \A g \in Handlers \ {h} : phase'[g] = phase[g] /\ k'[g] = k[g]
  <2> HIDE DEF last, where
  <2> QED BY <1>1, <1>3, <1>4, <1>5, RoundEffect
<1>7. TypeOK' BY <1>1, <1>2, <1>6 DEF TypeOK
<1>8. held \cap EndsOf(h) \subseteq Unclosed(h) BY <1>1 DEF IInv, Held
<1>9. Place(h)'
  <2>1. CASE k[h] + 1 = last /\ phase'[h] = where /\ k'[h] = 0 BY <1>1, <1>6, <2>1 DEF Place
  <2>2. CASE k[h] + 1 < last /\ phase'[h] = phase[h] /\ k'[h] = k[h] + 1
    BY <1>1, <1>6, <2>2 DEF Place
  <2>3. QED BY <1>6, <2>1, <2>2
<1>10. Held(h)'
  <2>1. CASE k[h] + 1 = last /\ phase'[h] = where /\ k'[h] = 0
    <3>1. k[h] .. last - 1 = {k[h]} BY <1>1, <2>1
    <3>2. Unclosed(h) = {e} BY <3>1 DEF Unclosed
    <3>3. held' \cap EndsOf(h) = {} BY <1>2, <1>8, <3>2
    <3>4. QED BY <2>1, <3>3 DEF Held, EndsOf
  <2>2. CASE k[h] + 1 < last /\ phase'[h] = phase[h] /\ k'[h] = k[h] + 1
    <3>1. Unclosed(h)' = {Closed(h, i) : i \in k[h] + 1 .. last - 1}
      BY <1>6, <2>2 DEF Unclosed, Closed
    <3>2. \A i \in k[h] .. last - 1 : i = k[h] \/ i \in k[h] + 1 .. last - 1 BY <1>1
    <3>3. held' \cap EndsOf(h) \subseteq {Closed(h, i) : i \in k[h] + 1 .. last - 1}
      BY <1>2, <1>8, <3>2 DEF Unclosed
    <3>4. QED BY <1>1, <2>2, <3>1, <3>3 DEF Held, EndsOf
  <2>3. QED BY <1>6, <2>1, <2>2
<1>11. Waited(h)' BY <1>1, <1>6 DEF Waited
<1>12. ASSUME NEW g \in Handlers \ {h}
       PROVE  /\ phase'[g] = phase[g] /\ k'[g] = k[g] /\ num'[g] = num[g]
              /\ held' \cap EndsOf(g) = held \cap EndsOf(g)
              /\ \A i \in 1 .. MaxCmds : Alive(<<g, i>>)' => Alive(<<g, i>>)
  <2>1. e[1] = h BY <1>1, ClosesOwn
  <2>2. held' \cap EndsOf(g) = held \cap EndsOf(g) BY <1>2, <2>1 DEF EndsOf
  <2>3. QED BY <1>2, <1>6, <2>2 DEF Alive
<1>13. QED BY <1>2, <1>6, <1>7, <1>9, <1>10, <1>11, <1>12, SameCommands, HandlerStepInv

\* What the step of waitpid() does to the loop and to the commands.
LEMMA WaitEffect ==
  ASSUME IInv, NEW h \in Handlers, Wait(h)
  PROVE  /\ phase[h] = "wait" /\ k[h] < num[h] /\ k[h] \in Nat /\ num[h] \in 1 .. MaxCmds
         /\ <<h, k[h] + 1>> \in Cmds
         /\ cmd' = [cmd EXCEPT ![<<h, k[h] + 1>>] = "none"]
         /\ UNCHANGED <<held, reads, left, ends, buf>>
         /\ phase' \in [Handlers -> {"idle", "pipe", "fork", "close", "abort", "wait"}]
         /\ k' \in [Handlers -> 0 .. 2 * MaxCmds]
         /\ num' = num
         /\ \/ k[h] + 1 = num[h] /\ phase'[h] = "idle" /\ k'[h] = 0
            \/ k[h] + 1 < num[h] /\ phase'[h] = phase[h] /\ k'[h] = k[h] + 1
         /\ \A g \in Handlers \ {h} : phase'[g] = phase[g] /\ k'[g] = k[g]
<1>1. TypeOK /\ phase[h] = "wait" /\ k[h] < num[h] /\ k[h] \in Nat /\ num[h] \in 1 .. MaxCmds
  BY DEF IInv, Place, Wait, TypeOK
<1>2. num[h] \in 0 .. 2 * MaxCmds BY <1>1, SizeAssumption
<1>3. Round(h, num[h], "idle") /\ cmd' = [cmd EXCEPT ![<<h, k[h] + 1>>] = "none"]
      /\ UNCHANGED <<held, reads, left, ends, buf>>
  BY DEF Wait
<1>4. <<h, k[h] + 1>> \in Cmds
  <2>1. k[h] + 1 \in 1 .. MaxCmds BY <1>1, SizeAssumption
  <2>2. QED BY <2>1 DEF Cmds
<1>5. QED BY <1>1, <1>2, <1>3, <1>4, RoundEffect

\* After waitpid() for the next command, all up to it have ended.
LEMMA WaitedNext ==
  ASSUME IInv, NEW h \in Handlers, Wait(h), NEW i \in 1 .. k[h] + 1
  PROVE  ~Alive(<<h, i>>)'
<1>1. i \in 1 .. MaxCmds /\ k[h] \in Nat
  <2>1. k[h] \in Nat /\ k[h] < num[h] /\ num[h] \in 1 .. MaxCmds BY WaitEffect
  <2>2. QED BY <2>1, SizeAssumption
<1>2. <<h, i>> \in Cmds BY <1>1 DEF Cmds
<1>3. CASE i = k[h] + 1 BY <1>2, <1>3, WaitEffect DEF IInv, TypeOK, Alive
<1>4. CASE i # k[h] + 1
  <2>1. i \in 1 .. k[h] BY <1>1, <1>4
  <2>2. ~Alive(<<h, i>>) BY <2>1, WaitEffect DEF IInv, Waited
  <2>3. cmd'[<<h, i>>] = cmd[<<h, i>>] BY <1>2, <1>4, WaitEffect DEF IInv, TypeOK
  <2>4. QED BY <2>2, <2>3 DEF Alive
<1>5. QED BY <1>3, <1>4

LEMMA WaitInv ==
  ASSUME IInv, NEW h \in Handlers, Wait(h)
  PROVE  IInv'
<1> DEFINE c == <<h, k[h] + 1>>
<1>1. cmd' \in [Cmds -> {"none", "forked", "running", "exited"}]
      /\ cmd'[c] = "none" /\ \A d \in Cmds \ {c} : cmd'[d] = cmd[d]
  BY WaitEffect DEF IInv, TypeOK
<1>2. TypeOK' BY <1>1, WaitEffect DEF IInv, TypeOK
<1>3. Place(h)' BY WaitEffect DEF Place
<1>4. Held(h)' BY WaitEffect DEF IInv, Held, AllEnds, EndsOf
<1>5. Waited(h)' BY WaitEffect, WaitedNext DEF Waited, Alive
<1>6. ASSUME NEW d \in Cmds PROVE Kept(d)'
  <2>1. CASE d = c BY <1>1, <2>1, EndedCommand
  <2>2. CASE d # c BY <1>1, <2>2, WaitEffect, OtherCommand DEF IInv
  <2>3. QED BY <2>1, <2>2
<1>7. ASSUME NEW g \in Handlers \ {h}
      PROVE  /\ phase'[g] = phase[g] /\ k'[g] = k[g] /\ num'[g] = num[g]
             /\ held' \cap EndsOf(g) = held \cap EndsOf(g)
             /\ \A i \in 1 .. MaxCmds : Alive(<<g, i>>)' => Alive(<<g, i>>)
  <2>1. ASSUME NEW i \in 1 .. MaxCmds PROVE cmd'[<<g, i>>] = cmd[<<g, i>>]
    <3>1. <<g, i>> \in Cmds /\ <<g, i>> # c BY DEF Cmds
    <3>2. QED BY <1>1, <3>1
  <2>2. QED BY <2>1, WaitEffect DEF Alive, EndsOf
<1>8. QED BY <1>2, <1>3, <1>4, <1>5, <1>6, <1>7, HandlerStepInv

-----------------------------------------------------------------------------
LEMMA SetupInv ==
  ASSUME IInv, NEW c \in Cmds, Setup(c)
  PROVE  IInv'
<1>1. TypeOK /\ cmd[c] = "forked"
      /\ cmd' = [cmd EXCEPT ![c] = "running"]
      /\ ends' = [ends EXCEPT ![c] = (@ \ EndsOf(c[1])) \cup (@ \cap Std(c))]
      /\ UNCHANGED <<reads, left, phase, num, k, held, buf>>
  BY DEF IInv, Setup, handlerVars
<1>2. cmd'[c] = "running" /\ \A d \in Cmds \ {c} : cmd'[d] = cmd[d] /\ ends'[d] = ends[d]
  BY <1>1 DEF TypeOK
<1>3. ends'[c] = (ends[c] \ EndsOf(c[1])) \cup (ends[c] \cap Std(c)) /\ ends[c] \subseteq Ends
  BY <1>1 DEF TypeOK
<1>4. TypeOK'
  <2>1. ends' \in [Cmds -> SUBSET Ends] BY <1>1, <1>3 DEF TypeOK
  <2>2. cmd' \in [Cmds -> {"none", "forked", "running", "exited"}] BY <1>1 DEF TypeOK
  <2>3. QED BY <1>1, <2>1, <2>2 DEF TypeOK
<1>5. Kept(c)'
  <2>1. c[2] <= num[c[1]] /\ ends[c] \cap EndsOf(c[1]) = AllEnds(c[1])
    BY <1>1 DEF IInv, Kept, Alive
  <2>2. Std(c) \subseteq AllEnds(c[1]) BY <1>1, <2>1, StdInAll
  <2>3. ends'[c] \cap EndsOf(c[1]) = Std(c) BY <1>3, <2>1, <2>2 DEF AllEnds
  <2>4. Std(c)' = Std(c) BY <1>1 DEF Std, In, Out
  <2>5. QED BY <1>1, <1>2, <2>1, <2>3, <2>4 DEF Kept, EndsOf
<1>6. ASSUME NEW d \in Cmds PROVE (Alive(d)' => Alive(d)) /\ Kept(d)'
  <2>1. CASE d = c BY <1>1, <1>5, <2>1 DEF Alive
  <2>2. CASE d # c BY <1>1, <1>2, <2>2, OtherCommand DEF IInv, Alive
  <2>3. QED BY <2>1, <2>2
<1>7. QED BY <1>1, <1>4, <1>6, CommandStepInv DEF handlerVars

\* A program that ends.
LEMMA ExitInv ==
  ASSUME IInv, NEW c \in Cmds, Exit(c), UNCHANGED <<handlerVars, held, buf>>
  PROVE  IInv'
<1>1. TypeOK BY DEF IInv
<1>2. cmd' = [cmd EXCEPT ![c] = "exited"] /\ ends' = [ends EXCEPT ![c] = {}]
      /\ reads' = [reads EXCEPT ![c] = FALSE] /\ left' = [left EXCEPT ![c] = 0]
      /\ UNCHANGED <<phase, num, k, held, buf>>
  BY DEF Exit, handlerVars
<1>3. TypeOK'
  <2>1. cmd' \in [Cmds -> {"none", "forked", "running", "exited"}]
        /\ ends' \in [Cmds -> SUBSET Ends] /\ reads' \in [Cmds -> BOOLEAN]
    BY <1>1, <1>2 DEF TypeOK
  <2>2. left' \in [Cmds -> 0 .. Output] BY <1>1, <1>2, SizeAssumption DEF TypeOK
  <2>3. QED BY <1>1, <1>2, <2>1, <2>2 DEF TypeOK
<1>4. ASSUME NEW d \in Cmds PROVE (Alive(d)' => Alive(d)) /\ Kept(d)'
  <2>1. CASE d = c
    <3>1. cmd'[d] = "exited" BY <1>1, <1>2, <2>1 DEF TypeOK
    <3>2. QED BY <3>1, EndedCommand DEF Alive
  <2>2. CASE d # c
    <3>1. cmd'[d] = cmd[d] /\ ends'[d] = ends[d] BY <1>1, <1>2, <2>2 DEF TypeOK
    <3>2. QED BY <1>2, <3>1, OtherCommand DEF IInv, Alive
  <2>3. QED BY <2>1, <2>2
<1>5. QED BY <1>3, <1>4, CommandStepInv

LEMMA WriteInv ==
  ASSUME IInv, NEW c \in Cmds, Write(c)
  PROVE  IInv'
<1> DEFINE p == <<c[1], c[2]>>
<1>1. TypeOK /\ UNCHANGED <<phase, num, k, held>> /\ left[c] > 0 BY DEF IInv, Write, handlerVars
<1>2. CASE Exit(c) /\ UNCHANGED buf BY <1>1, <1>2, ExitInv DEF handlerVars
<1>3. CASE /\ buf[p] < Capacity
           /\ buf' = [buf EXCEPT ![p] = @ + 1]
           /\ left' = [left EXCEPT ![c] = @ - 1]
           /\ UNCHANGED <<cmd, reads, ends>>
  <2>1. buf' \in [Pipes -> 0 .. Capacity]
    <3>1. CASE p \in Pipes
      <4>1. buf[p] \in 0 .. Capacity BY <1>1, <3>1 DEF TypeOK
      <4>2. buf[p] + 1 \in 0 .. Capacity BY <1>3, <4>1, SizeAssumption
      <4>3. QED BY <1>1, <1>3, <4>2 DEF TypeOK
    <3>2. CASE p \notin Pipes BY <1>1, <1>3, <3>2 DEF TypeOK
    <3>3. QED BY <3>1, <3>2
  <2>2. left' \in [Cmds -> 0 .. Output]
    <3>1. left[c] \in 0 .. Output BY <1>1 DEF TypeOK
    <3>2. left[c] - 1 \in 0 .. Output BY <1>1, <3>1, SizeAssumption
    <3>3. QED BY <1>1, <1>3, <3>2 DEF TypeOK
  <2>3. TypeOK' BY <1>1, <1>3, <2>1, <2>2 DEF TypeOK
  <2>4. QED BY <1>1, <1>3, <2>3, SameCommands, CommandStepInv DEF handlerVars
<1>4. QED BY <1>2, <1>3 DEF Write

LEMMA ReadInv ==
  ASSUME IInv, NEW c \in Cmds, Read(c)
  PROVE  IInv'
<1> DEFINE p == <<c[1], c[2] - 1>>
<1>1. TypeOK /\ UNCHANGED <<cmd, left, ends, phase, num, k, held>>
  BY DEF IInv, Read, handlerVars
<1>2. buf' \in [Pipes -> 0 .. Capacity] /\ reads' \in [Cmds -> BOOLEAN]
  <2>1. CASE buf[p] > 0 /\ buf' = [buf EXCEPT ![p] = @ - 1] /\ UNCHANGED reads
    <3>1. CASE p \in Pipes
      <4>1. buf[p] \in 0 .. Capacity BY <1>1, <3>1 DEF TypeOK
      <4>2. buf[p] - 1 \in 0 .. Capacity BY <2>1, <4>1, SizeAssumption
      <4>3. QED BY <1>1, <2>1, <4>2 DEF TypeOK
    <3>2. CASE p \notin Pipes BY <1>1, <2>1, <3>2 DEF TypeOK
    <3>3. QED BY <3>1, <3>2
  <2>2. CASE reads' = [reads EXCEPT ![c] = FALSE] /\ UNCHANGED buf
    BY <1>1, <2>2 DEF TypeOK
  <2>3. QED BY <2>1, <2>2 DEF Read
<1>3. TypeOK' BY <1>1, <1>2 DEF TypeOK
<1>4. QED BY <1>1, <1>3, SameCommands, CommandStepInv DEF handlerVars

LEMMA FinishInv ==
  ASSUME IInv, NEW c \in Cmds, Finish(c)
  PROVE  IInv'
  BY ExitInv DEF Finish

LEMMA StutterInv ==
  ASSUME IInv, UNCHANGED vars
  PROVE  IInv'
<1>1. UNCHANGED <<phase, num, k, held, cmd, reads, left, ends, buf>>
  BY DEF vars, handlerVars, cmdVars
<1>2. TypeOK' BY <1>1 DEF IInv, TypeOK
<1>3. QED BY <1>1, <1>2, SameCommands, CommandStepInv DEF handlerVars

LEMMA StepInv == IInv /\ [Next]_vars => IInv'
<1> SUFFICES ASSUME IInv, [Next]_vars PROVE IInv' OBVIOUS
<1>1. CASE UNCHANGED vars BY <1>1, StutterInv
<1>2. ASSUME NEW h \in Handlers,
             (\E n \in Lengths[h] : Begin(h, n)) \/ MakePipe(h) \/ Fork(h) \/ ForkFails(h)
             \/ CloseNext(h) \/ Wait(h)
      PROVE  IInv'
  BY <1>2, BeginInv, MakePipeInv, ForkInv, ForkFailsInv, CloseNextInv, WaitInv
<1>3. ASSUME NEW c \in Cmds, Setup(c) \/ Write(c) \/ Read(c) \/ Finish(c)
      PROVE  IInv'
  BY <1>3, SetupInv, WriteInv, ReadInv, FinishInv
<1>4. QED BY <1>1, <1>2, <1>3 DEF Next

\* IInv holds in every state that a server with any handlers reaches.
LEMMA Invariance == Spec => []IInv
  BY InitInv, StepInv, PTL DEF Spec

-----------------------------------------------------------------------------
\* The loops stay inside their arrays, the pipes within their capacity, for any
\* number of handlers and commands.
THEOREM TypeCorrect == Spec => []TypeOK
<1>1. IInv => TypeOK BY DEF IInv
<1>2. QED BY <1>1, Invariance, PTL

\* Every program runs with the two ends of its own pipeline that it should
\* have, wherever the other handlers are in theirs.
THEOREM OwnEndsCorrect == Spec => []OwnEnds
<1>1. IInv => OwnEnds BY DEF IInv, Kept, OwnEnds
<1>2. QED BY <1>1, Invariance, PTL

\* The server keeps no pipe end of a pipeline it waits for or has done with,
\* whichever fork() failed.
THEOREM NoEndIsKept == Spec => []EndsReturned
<1>1. IInv => EndsReturned BY DEF IInv, Held, EndsReturned
<1>2. QED BY <1>1, Invariance, PTL

\* Only the last waitpid() takes a handler from waiting to idle.
LEMMA LeavesByWait ==
  ASSUME IInv, [Next]_vars, NEW h \in Handlers, phase[h] = "wait", phase'[h] = "idle"
  PROVE  Wait(h)
<1>1. ~UNCHANGED vars BY DEF vars, handlerVars
<1>2. ASSUME NEW c \in Cmds, Setup(c) \/ Write(c) \/ Read(c) \/ Finish(c) PROVE FALSE
  BY <1>2 DEF Setup, Write, Read, Finish, handlerVars
<1>3. ASSUME NEW g \in Handlers, g # h,
             (\E n \in Lengths[g] : Begin(g, n)) \/ MakePipe(g) \/ Fork(g) \/ ForkFails(g)
             \/ CloseNext(g) \/ Wait(g)
      PROVE  FALSE
  BY <1>3 DEF IInv, TypeOK, Begin, MakePipe, Fork, ForkFails, CloseNext, Wait, Round, Goto
<1>4. ASSUME (\E n \in Lengths[h] : Begin(h, n)) \/ MakePipe(h) \/ Fork(h) \/ ForkFails(h)
             \/ CloseNext(h)
      PROVE  FALSE
  BY <1>4 DEF Begin, MakePipe, Fork, ForkFails, CloseNext
<1>5. QED BY <1>1, <1>2, <1>3, <1>4 DEF Next

\* The end of the waiting loop means that every command has ended.
THEOREM WaitsForAll == Spec => WaitedForAll
<1> DEFINE A(h) == phase[h] = "wait" /\ phase'[h] = "idle" =>
                     (\A i \in 1 .. MaxCmds : ~Alive(<<h, i>>))'
<1>1. ASSUME IInv, IInv', [Next]_vars, NEW h \in Handlers PROVE A(h)
  <2> SUFFICES ASSUME phase[h] = "wait", phase'[h] = "idle", NEW i \in 1 .. MaxCmds
               PROVE  ~Alive(<<h, i>>)'
    OBVIOUS
  <2>1. Wait(h) BY <1>1, LeavesByWait
  <2>2. k[h] + 1 = num[h] /\ num'[h] = num[h] BY <1>1, <2>1, WaitEffect
  <2>3. CASE i <= num[h]
    <3>1. i \in 1 .. k[h] + 1 BY <2>2, <2>3
    <3>2. QED BY <1>1, <2>1, <3>1, WaitedNext
  <2>4. CASE ~(i <= num[h])
    <3>1. <<h, i>> \in Cmds BY DEF Cmds
    <3>2. Kept(<<h, i>>)' BY <1>1, <3>1 DEF IInv
    <3>3. QED BY <2>2, <2>4, <3>2 DEF Kept
  <2>5. QED BY <2>3, <2>4
<1>2. IInv /\ IInv' /\ [Next]_vars => [\A h \in Handlers : A(h)]_vars BY <1>1
<1>3. QED BY <1>2, Invariance, PTL DEF Spec, WaitedForAll
=============================================================================
