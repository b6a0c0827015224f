--------------------------- MODULE DshLineProofs ---------------------------
(***************************************************************************)
(* The lines that the shells take from their input, for any script and any *)
(* number of processes.  A forked copy of the shell has the read buffer of *)
(* its parent and shares the offset with it.  OneReader says what there is *)
(* while no copy becomes a second shell, Chain what keeps the order when   *)
(* copies do.                                                              *)
(***************************************************************************)
EXTENDS DshProofs

-----------------------------------------------------------------------------
(***************************************************************************)
(* The lines of the input, each of which is taken at most once while no    *)
(* second shell comes into being.                                          *)
(***************************************************************************)

\* No child of a pipeline returns from execute_pipeline().
Plain == \A l \in Lines : ~Doubles(l)

\* Where a shell works at a line.
Working == {"pipe", "fork", "close", "wait"}

\* Only the shell of the user is a shell, and what it and its copies work at
\* is a line of the input.  A child of the first command is not one of a built-in.
Alone(p) ==
  /\ ps[p].pc \in Working \cup {"prompt"} => p = 1
  /\ ps[p].pc \in Working \cup {"child"} => ps[p].job \in Lines
  /\ ps[p].pc = "child" /\ ps[p].idx = 1 => ps[p].job[1] \notin {"exit", "cd", "rc"}

\* The buffer of p holds the lines that follow line k.
Follows(p, k) ==
  /\ k + Len(ps[p].inbuf) <= Len(input)
  /\ \A i \in 1 .. Len(ps[p].inbuf) : ps[p].inbuf[i] = [n |-> k + i, cmds |-> input[k + i]]

\* The shell has taken the lines up to k.  Copies may have moved the offset back,
\* and have not if they cannot; then it has taken each once and no other line.
Taken(k) ==
  /\ Follows(1, k)
  /\ off <= k + Len(ps[1].inbuf)
  /\ \A m \in 1 .. k : times[m] > 0
  /\ ~Rewinds => /\ off = k + Len(ps[1].inbuf)
                 /\ \A m \in 1 .. Len(input) : m > k => times[m] = 0

OneReader ==
  /\ \A p \in Procs : Alone(p)
  /\ ps[1].in = Outside /\ ps[1].pc \in Working \cup {"prompt", "gone"}
  /\ ps[1].pc # "gone" => \E k \in Nat : Taken(k)
  /\ ~Rewinds => LinesOnce

LEMMA ScriptKept ==
  ASSUME UNCHANGED world
  PROVE  /\ input' = input /\ kind' = kind /\ Lines' = Lines /\ Plain' = Plain /\ Rewinds' = Rewinds
<1>1. input' = input /\ kind' = kind BY DEF world
<1>2. Lines' = Lines BY <1>1 DEF Lines
<1>3. Plain' = Plain BY <1>2 DEF Plain, Doubles, NoProgram
<1>4. Rewinds' = Rewinds BY <1>1, <1>2 DEF Rewinds, Fails, NoProgram
<1>5. QED BY <1>1, <1>2, <1>3, <1>4

\* The sizes of what is read.
LEMMA ReadTypes ==
  ASSUME IInv, NEW p \in Procs
  PROVE  /\ ps[p].inbuf \in Seq(Item) /\ Len(ps[p].inbuf) \in Nat
         /\ input \in Seq(CmdLines) /\ Len(input) \in Nat /\ DOMAIN input = 1 .. Len(input)
         /\ off \in 0 .. Len(input) /\ times \in [1 .. Len(input) -> 0 .. 2]
<1>1. ps[p].inbuf \in Seq(Item) BY ProcTypes, Fields
<1>2. input \in Seq(CmdLines) /\ times \in [1 .. Len(input) -> 0 .. 2]
      /\ off \in 0 .. Len(input)
  BY SharedHolds DEF Shared, Given
<1>3. QED BY <1>1, <1>2, LenProperties

\* A step in which no line is taken and the shell of the user keeps its buffer.
LEMMA NothingTaken ==
  ASSUME IInv, IInv', OneReader, UNCHANGED <<world, times>>,
         off' <= off, ~Rewinds => off' = off,
         \A p \in Procs : Alone(p)',
         ps'[1].pc # "gone" => /\ ps[1].pc # "gone" /\ ps'[1].pc \in Working \cup {"prompt"}
                               /\ ps'[1].inbuf = ps[1].inbuf,
         ps'[1].in = Outside
  PROVE  OneReader'
<1>1. /\ input' = input /\ Lines' = Lines /\ Rewinds' = Rewinds /\ times' = times
  BY ScriptKept
<1>2. ASSUME ps'[1].pc # "gone" PROVE \E k \in Nat : Taken(k)'
  <2>1. PICK k \in Nat : Taken(k) BY <1>2 DEF OneReader
  <2>2. ps'[1].inbuf = ps[1].inbuf BY <1>2
  <2>3. 1 \in Procs BY SizeAssumption DEF Procs
  <2>4. Len(ps[1].inbuf) \in Nat /\ off \in Nat BY <2>3, ReadTypes
  <2>5. off' \in Nat BY DEF IInv, TypeOK
  <2>6. Follows(1, k)' BY <1>1, <2>1, <2>2 DEF Taken, Follows
  <2>7. Taken(k)' BY <1>1, <2>1, <2>2, <2>4, <2>5, <2>6 DEF Taken
  <2>8. QED BY <2>7
<1>3. ~Rewinds => LinesOnce' BY <1>1 DEF OneReader, LinesOnce
<1>4. QED BY <1>1, <1>2, <1>3 DEF OneReader

\* Such a step of one process, which it may make a shell only if it is one.
LEMMA OneMoves ==
  ASSUME IInv, IInv', OneReader, NEW p \in Procs, NEW r, ps' = [ps EXCEPT ![p] = r],
         UNCHANGED <<world, off, times>>, r.pc # "child",
         r.pc \in Working \cup {"prompt"} => p = 1,
         r.pc \in Working => r.job \in Lines,
         p = 1 => /\ r.pc \in Working \cup {"prompt"} /\ ps[1].pc # "gone"
                  /\ r.inbuf = ps[1].inbuf /\ r.in = ps[1].in
  PROVE  OneReader'
<1>1. /\ ps \in [Procs -> Proc] /\ 1 \in Procs BY ProcTypes
<1>2. ps'[p] = r /\ \A x \in Procs \ {p} : ps'[x] = ps[x] BY <1>1
<1>3. Lines' = Lines BY ScriptKept
<1>4. ASSUME NEW x \in Procs PROVE Alone(x)'
  <2>1. CASE x = p BY <1>2, <1>3, <2>1 DEF Alone, Working
  <2>2. CASE x # p
    <3>1. Alone(x) /\ ps'[x] = ps[x] BY <1>2, <2>2 DEF OneReader
    <3>2. QED BY <1>3, <3>1 DEF Alone
  <2>3. QED BY <2>1, <2>2
<1>5. ps'[1] = r \/ ps'[1] = ps[1] BY <1>1, <1>2
<1>6. off' = off /\ off \in Nat BY ReadTypes, <1>1
<1>7. CASE p = 1 BY <1>2, <1>4, <1>6, <1>7, NothingTaken DEF OneReader
<1>8. CASE p # 1
  <2>1. ps'[1] = ps[1] BY <1>1, <1>2, <1>8
  <2>2. QED BY <1>4, <1>6, <2>1, NothingTaken DEF OneReader
<1>9. QED BY <1>7, <1>8

\* The end of a process that has moved the offset only where it may.
LEMMA EndedReads ==
  ASSUME IInv, IInv', OneReader, NEW p \in Procs, NEW s \in 0 .. 255, ps' = Ended(p, s),
         UNCHANGED <<world, times>>, off' <= off, p # 1 /\ ~Rewinds => off' = off
  PROVE  OneReader'
<1>1. 1 \in Procs /\ Lines' = Lines BY ProcTypes, ScriptKept
<1>2. ASSUME NEW x \in Procs PROVE Alone(x)'
  <2>1. CASE x = p BY <2>1, EndedSelf DEF Alone, Working
  <2>2. CASE x # p /\ ps[x].parent = p /\ ps[x].pc = "zombie"
    <3>1. ps'[x] = Free BY <2>2, EndedOther
    <3>2. QED BY <3>1 DEF Free, Alone, Working
  <2>3. CASE x # p /\ ~(ps[x].parent = p /\ ps[x].pc = "zombie")
    <3>1. Alike(x) BY <2>3, EndedOther
    <3>2. Alone(x) BY DEF OneReader
    <3>3. QED BY <1>1, <3>1, <3>2 DEF Alone, Alike
  <2>4. QED BY <2>1, <2>2, <2>3
<1>3. CASE p = 1
  <2>1. ps'[1] = [Free EXCEPT !.pc = "gone"] BY <1>1, <1>3 DEF Ended
  <2>2. ps'[1].pc = "gone" /\ ps'[1].in = Outside BY <2>1 DEF Free
  <2>3. ~Rewinds' => LinesOnce'
    <3>1. Rewinds' = Rewinds /\ input' = input /\ times' = times BY ScriptKept
    <3>2. QED BY <3>1 DEF OneReader, LinesOnce
  <2>4. QED BY <1>2, <2>2, <2>3 DEF OneReader
<1>4. CASE p # 1
  <2>1. ps[1].parent # p BY SharedHolds, SizeAssumption DEF First, Procs
  <2>2. ps'[1] = ps[1] BY <1>1, <1>4, <2>1, EndedOther
  <2>3. QED BY <1>2, <1>4, <2>2, NothingTaken DEF OneReader
<1>5. QED BY <1>3, <1>4

\* A process that SIGPIPE kills gives nothing back.
LEMMA KilledReads ==
  ASSUME IInv, IInv', OneReader, NEW p \in Procs, NEW in, Killed(p, in)
  PROVE  OneReader'
<1>1. ps' = Ended(p, 0) /\ UNCHANGED <<world, off, times>> BY DEF Killed
<1>2. off \in Nat /\ 0 \in 0 .. 255 BY ReadTypes
<1>3. QED BY <1>1, <1>2, EndedReads

\* exit() gives back no more than the offset.
LEMMA GivesBack ==
  ASSUME IInv, NEW p \in Procs, NEW in, NEW out, NEW s, Exit(p, in, out, s), ~Killed(p, in)
  PROVE  /\ ps' = Ended(p, s) /\ UNCHANGED <<world, failed, times>>
         /\ off' <= off /\ (kind # "file" \/ in # Outside => off' = off)
<1>1. /\ ps' = Ended(p, s) /\ UNCHANGED <<world, failed, times>>
      /\ off' = IF kind = "file" /\ in = Outside /\ Len(ps[p].inbuf) <= off
                  THEN off - Len(ps[p].inbuf) ELSE off
  BY DEF Exit
<1>2. Len(ps[p].inbuf) \in Nat /\ off \in Nat BY ReadTypes
<1>3. CASE kind = "file" /\ in = Outside /\ Len(ps[p].inbuf) <= off
  <2>1. off' = off - Len(ps[p].inbuf) BY <1>1, <1>3
  <2>2. off' <= off BY <1>2, <2>1
  <2>3. QED BY <1>1, <1>3, <2>1, <2>2
<1>4. CASE ~(kind = "file" /\ in = Outside /\ Len(ps[p].inbuf) <= off)
  <2>1. off' = off BY <1>1, <1>4
  <2>2. off' <= off BY <1>2, <2>1
  <2>3. QED BY <1>1, <2>1, <2>2
<1>5. QED BY <1>3, <1>4

LEMMA ExitReads ==
  ASSUME IInv, IInv', OneReader, NEW p \in Procs, NEW in, NEW out, NEW s \in 0 .. 255,
         Exit(p, in, out, s), p # 1 /\ ~Rewinds => kind # "file"
  PROVE  OneReader'
<1>1. CASE ~Killed(p, in)
  <2>1. /\ ps' = Ended(p, s) /\ UNCHANGED <<world, times>>
        /\ off' <= off /\ (kind # "file" => off' = off)
    BY <1>1, GivesBack
  <2>2. p # 1 /\ ~Rewinds => off' = off BY <2>1
  <2>3. QED BY <2>1, <2>2, EndedReads
<1>2. CASE Killed(p, in) BY <1>2, KilledReads
<1>3. QED BY <1>1, <1>2

LEMMA BrokenPipeReads ==
  ASSUME IInv, IInv', OneReader, NEW p \in Procs, BrokenPipe(p)
  PROVE  OneReader'
<1>1. Killed(p, ps[p].in) BY DEF BrokenPipe
<1>2. QED BY <1>1, KilledReads

\* exit() of a shell that is the user's, or of a child whose line may fail.
LEMMA ChildFails ==
  ASSUME OneReader, NEW c \in Procs, ps[c].pc = "child", Fails(ps[c].job)
  PROVE  ~Rewinds => kind # "file"
<1>1. ps[c].job \in Lines BY DEF OneReader, Alone
<1>2. QED BY <1>1 DEF Rewinds

LEMMA EndOfInputReads ==
  ASSUME IInv, IInv', OneReader, NEW p \in Procs, EndOfInput(p)
  PROVE  OneReader'
<1>1. Exit(p, ps[p].in, ps[p].out, 0) /\ ps[p].pc = "prompt" BY DEF EndOfInput
<1>2. p = 1 BY <1>1 DEF OneReader, Alone
<1>3. QED BY <1>1, <1>2, ExitReads

LEMMA HeadExitReads ==
  ASSUME IInv, IInv', OneReader, NEW p \in Procs, HeadExit(p)
  PROVE  OneReader'
<1>1. Exit(p, ps[p].in, ps[p].out, 0) /\ ps[p].pc = "fork" BY DEF HeadExit, AtBuiltIn
<1>2. p = 1 BY <1>1 DEF OneReader, Alone, Working
<1>3. QED BY <1>1, <1>2, ExitReads

LEMMA FinishReads ==
  ASSUME IInv, IInv', OneReader, NEW p \in Procs, Finish(p)
  PROVE  OneReader'
<1>1. PICK s \in Statuses : ps' = Ended(p, s) BY DEF Finish
<1>2. s \in 0 .. 255 BY StatusAssumption
<1>3. UNCHANGED <<world, off, times>> BY DEF Finish
<1>4. off \in Nat BY ReadTypes
<1>5. QED BY <1>1, <1>2, <1>3, <1>4, EndedReads

\* A shell moves on in its line, or leaves it.
LEMMA WorkReads ==
  ASSUME IInv, IInv', OneReader, NEW p \in Procs, ps[p].pc \in Working,
         NEW r, ps' = [ps EXCEPT ![p] = r], UNCHANGED <<world, off, times>>,
         r.pc \in Working \cup {"prompt"}, r.pc \in Working => r.job = ps[p].job,
         r.inbuf = ps[p].inbuf, r.in = ps[p].in
  PROVE  OneReader'
<1>1. p = 1 /\ ps[p].job \in Lines BY DEF OneReader, Alone
<1>2. r.pc # "child" /\ ps[1].pc # "gone" BY <1>1 DEF Working
<1>3. QED BY <1>1, <1>2, OneMoves

LEMMA LeavesLine ==
  ASSUME IInv, IInv', OneReader, NEW p \in Procs, ps[p].pc \in Working,
         ps' = [ps EXCEPT ![p] = Back(ps[p])], UNCHANGED <<world, off, times>>
  PROVE  OneReader'
<1>1. /\ Back(ps[p]).pc = "prompt" /\ Back(ps[p]).inbuf = ps[p].inbuf /\ Back(ps[p]).in = ps[p].in
  BY ProcTypes, BackIsProc
<1>2. "prompt" \notin Working BY DEF Working
<1>3. QED BY <1>1, <1>2, WorkReads

LEMMA MakePipesReads ==
  ASSUME IInv, IInv', OneReader, NEW p \in Procs, MakePipes(p)
  PROVE  OneReader'
<1> DEFINE r == [ps[p] EXCEPT !.pc = "fork", !.fds = Between(p, ps[p].job)]
<1>1. ps[p] \in Proc /\ ps \in [Procs -> Proc] BY ProcTypes
<1>2. ps[p].pc = "pipe" /\ ps' = [ps EXCEPT ![p] = r] /\ UNCHANGED <<world, off, times>>
  BY <1>1 DEF MakePipes
<1>3. r.pc = "fork" /\ r.job = ps[p].job BY <1>1 DEF Proc
<1>4. r.inbuf = ps[p].inbuf /\ r.in = ps[p].in BY <1>1 DEF Proc
<1> HIDE DEF r
<1>5. QED BY <1>2, <1>3, <1>4, WorkReads DEF Working

LEMMA CloseReads ==
  ASSUME IInv, IInv', OneReader, NEW p \in Procs, Close(p)
  PROVE  OneReader'
<1> DEFINE r == [ps[p] EXCEPT !.pc = "wait", !.fds = {}]
<1>1. ps[p] \in Proc /\ ps \in [Procs -> Proc] BY ProcTypes
<1>2. ps[p].pc = "close" /\ ps' = [ps EXCEPT ![p] = r] /\ UNCHANGED <<world, off, times>>
  BY <1>1 DEF Close
<1>3. r.pc = "wait" /\ r.job = ps[p].job BY <1>1 DEF Proc
<1>4. r.inbuf = ps[p].inbuf /\ r.in = ps[p].in BY <1>1 DEF Proc
<1> HIDE DEF r
<1>5. QED BY <1>2, <1>3, <1>4, WorkReads DEF Working

LEMMA ReturnsRead ==
  ASSUME IInv, IInv', OneReader, NEW p \in Procs, HeadBuiltIn(p) \/ PipeFails(p) \/ ForkFails(p)
  PROVE  OneReader'
<1>1. /\ ps[p].pc \in {"pipe", "fork"} /\ ps' = [ps EXCEPT ![p] = Back(ps[p])]
      /\ UNCHANGED <<world, off, times>>
  BY DEF HeadBuiltIn, PipeFails, ForkFails, AtBuiltIn
<1>2. QED BY <1>1, LeavesLine DEF Working

LEMMA SpeakReads ==
  ASSUME IInv, IInv', OneReader, NEW c \in Procs, Speak(c)
  PROVE  OneReader'
<1> DEFINE r == [ps[c] EXCEPT !.pc = "said"]
<1>1. ps[c] \in Proc /\ ps \in [Procs -> Proc] BY ProcTypes
<1>2. ps[c].pc = "program" /\ ps' = [ps EXCEPT ![c] = r] /\ UNCHANGED <<world, off, times>>
  BY <1>1 DEF Speak
<1>3. r.pc = "said" BY <1>1 DEF Proc
<1>4. c # 1 BY <1>2 DEF OneReader, Working
<1> HIDE DEF r
<1>5. QED BY <1>2, <1>3, <1>4, OneMoves DEF Working

\* A child becomes a program.
LEMMA ExecReads ==
  ASSUME IInv, IInv', OneReader, NEW c \in Procs, ps[c].pc = "child",
         NEW r, r.pc = "program", ps' = [ps EXCEPT ![c] = r], UNCHANGED <<world, off, times>>
  PROVE  OneReader'
<1>1. c # 1 BY DEF OneReader, Working
<1>2. QED BY <1>1, OneMoves DEF Working

LEMMA SingleChildReads ==
  ASSUME IInv, IInv', OneReader, NEW c \in Procs, SingleChild(c)
  PROVE  OneReader'
<1>1. ps[c].pc = "child" /\ Len(ps[c].job) = 1 BY DEF SingleChild
<1>2. ps[c] \in Proc /\ ps[c].job \in CmdLines /\ ps[c].idx \in 1 .. MaxCmds /\ Place(c)
  BY ProcTypes, Fields
<1>3. ps[c].idx = 1 BY <1>1, <1>2, SizeAssumption DEF Place, Shells
<1>4. 1 \in DOMAIN ps[c].job /\ ps[c].job[1] \in Names
  <2>1. DOMAIN ps[c].job = 1 .. 1 /\ ps[c].job \in Seq(Names) BY <1>1, <1>2, LineIsSeq
  <2>2. QED BY <2>1, ElementOfSeq, <1>1
<1>5. ps[c].job[1] \notin {"exit", "cd", "rc"} BY <1>1, <1>3 DEF OneReader, Alone
<1>6. \/ ps[c].job[1] # "prog" /\ \E s \in {1, 2} : Exit(c, ps[c].in, ps[c].out, s)
      \/ Becomes(c, Program(ps[c]))
  BY DEF SingleChild
<1>7. ASSUME ps[c].job[1] # "prog", NEW s \in {1, 2}, Exit(c, ps[c].in, ps[c].out, s)
      PROVE  OneReader'
  <2>1. ps[c].job[1] \in {"missing", "noin", "noout"} BY <1>4, <1>5, <1>7 DEF Names
  <2>2. Fails(ps[c].job) BY <1>4, <2>1 DEF Fails, NoProgram
  <2>3. QED BY <1>1, <1>7, <2>2, ChildFails, ExitReads
<1>8. CASE Becomes(c, Program(ps[c]))
  <2>1. ps' = [ps EXCEPT ![c] = Program(ps[c])] /\ UNCHANGED <<world, off, times>>
    BY <1>8 DEF Becomes
  <2>2. Program(ps[c]).pc = "program" BY <1>2, ProgramIsProc
  <2>3. QED BY <1>1, <2>1, <2>2, ExecReads
<1>9. QED BY <1>6, <1>7, <1>8

LEMMA PipedChildReads ==
  ASSUME IInv, IInv', Plain, OneReader, NEW c \in Procs, PipedChild(c)
  PROVE  OneReader'
<1> DEFINE me    == ps[c]
           owner == (CHOOSE e \in me.fds : TRUE)[1][1]
           in    == IF me.idx > 1 THEN <<owner, me.idx - 1>> ELSE me.in
           out   == IF me.idx < Len(me.job) THEN <<owner, me.idx>> ELSE me.out
           name  == me.job[me.idx]
<1>1. ps[c].pc = "child" /\ Len(ps[c].job) > 1 BY DEF PipedChild
<1>2. me \in Proc /\ me.job \in CmdLines /\ me.idx \in 1 .. MaxCmds /\ Place(c)
  BY ProcTypes, Fields
<1>3. me.idx \in DOMAIN me.job /\ name \in Names /\ me.idx \in 1 .. Len(me.job)
  <2>1. me.idx <= Len(me.job) BY <1>1, <1>2 DEF Place, Shells
  <2>2. DOMAIN me.job = 1 .. Len(me.job) /\ me.job \in Seq(Names) /\ Len(me.job) \in Nat
    BY <1>2, LineIsSeq, SizeAssumption
  <2>3. me.idx \in 1 .. Len(me.job) BY <1>2, <2>1, <2>2, SizeAssumption
  <2>4. QED BY <2>2, <2>3, ElementOfSeq
<1>4. \/ name \in {"noin", "noout"} /\ \E i \in {me.in, in} : Exit(c, i, me.out, 1)
      \/ Becomes(c, [Program(me) EXCEPT !.in = in, !.out = out])
      \/ name \notin {"prog", "noin", "noout"} /\ Becomes(c, [Back(me) EXCEPT !.in = in, !.out = out])
  BY DEF PipedChild
<1> HIDE DEF in, out
<1>5. ASSUME name \in {"noin", "noout"}, NEW i \in {me.in, in}, Exit(c, i, me.out, 1)
      PROVE  OneReader'
  <2>1. Fails(me.job) BY <1>3, <1>5 DEF Fails
  <2>2. QED BY <1>1, <1>5, <2>1, ChildFails, ExitReads
<1>6. CASE Becomes(c, [Program(me) EXCEPT !.in = in, !.out = out])
  <2> DEFINE r == [Program(me) EXCEPT !.in = in, !.out = out]
  <2>1. ps' = [ps EXCEPT ![c] = r] /\ UNCHANGED <<world, off, times>>
    BY <1>6 DEF Becomes
  <2>2. r.pc = "program"
    <3>1. Program(me) \in Proc /\ Program(me).pc = "program" BY <1>2, ProgramIsProc
    <3>2. QED BY <3>1 DEF Proc
  <2> HIDE DEF r
  <2>3. QED BY <1>1, <2>1, <2>2, ExecReads
<1>7. ASSUME name \notin {"prog", "noin", "noout"} PROVE FALSE
  <2>1. me.job \in Lines /\ (me.idx = 1 => name \notin {"exit", "cd", "rc"})
    BY <1>1 DEF OneReader, Alone
  <2>2. me.idx = 1 \/ me.idx > 1 BY <1>3
  <2>3. NoProgram(me.job, me.idx) BY <1>3, <1>7, <2>1, <2>2 DEF NoProgram, Names
  <2>4. Doubles(me.job) BY <1>1, <1>3, <2>3 DEF Doubles
  <2>5. QED BY <2>1, <2>4 DEF Plain
<1>8. QED BY <1>4, <1>5, <1>6, <1>7
LEMMA ForkReads ==
  ASSUME IInv, IInv', OneReader, NEW p \in Procs, Fork(p)
  PROVE  OneReader'
<1>1. PICK c \in Procs \ {1, p} :
        /\ ps'[p].job = ps[p].job /\ ps'[p].inbuf = ps[p].inbuf /\ ps'[p].in = ps[p].in
        /\ ps'[p].pc \in {"fork", "close", "wait"}
        /\ ps'[c].pc = "child" /\ ps'[c].job = ps[p].job /\ ps'[c].idx = ps[p].idx
        /\ \A x \in Procs \ {p, c} : ps'[x] = ps[x]
  <2>1. \E c \in Procs \ {1, p} :
        /\ ps'[p].job = ps[p].job /\ ps'[p].inbuf = ps[p].inbuf /\ ps'[p].in = ps[p].in
        /\ ps'[p].pc \in {"fork", "close", "wait"}
        /\ ps'[c].pc = "child" /\ ps'[c].job = ps[p].job /\ ps'[c].idx = ps[p].idx
        /\ \A x \in Procs \ {p, c} : ps'[x] = ps[x]
    BY ForkEffect
  <2>2. QED BY <2>1
<1>2. ps[p].pc = "fork" /\ ~AtBuiltIn(p) /\ UNCHANGED <<world, off, times>> BY DEF Fork
<1>3. p = 1 /\ ps[p].job \in Lines BY <1>2 DEF OneReader, Alone, Working
<1>4. ps[p].idx = 1 => ps[p].job[1] \notin {"exit", "cd", "rc"} BY <1>2 DEF AtBuiltIn
<1>5. Lines' = Lines /\ off' <= off /\ off' = off
  <2>1. off \in Nat BY ReadTypes
  <2>2. QED BY <1>2, <2>1, ScriptKept
<1>6. ASSUME NEW x \in Procs PROVE Alone(x)'
  <2>1. CASE x = p BY <1>1, <1>3, <1>5, <2>1 DEF Alone, Working
  <2>2. CASE x = c BY <1>1, <1>3, <1>4, <1>5, <2>2 DEF Alone, Working
  <2>3. CASE x \notin {p, c}
    <3>1. Alone(x) /\ ps'[x] = ps[x] BY <1>1, <2>3 DEF OneReader
    <3>2. QED BY <1>5, <3>1 DEF Alone
  <2>4. QED BY <2>1, <2>2, <2>3
<1>7. /\ ps'[1].pc \in Working \cup {"prompt"} /\ ps[1].pc # "gone"
      /\ ps'[1].inbuf = ps[1].inbuf /\ ps'[1].in = Outside
  BY <1>1, <1>2, <1>3 DEF OneReader, Working
<1>8. QED BY <1>2, <1>5, <1>6, <1>7, NothingTaken

LEMMA WaitReads ==
  ASSUME IInv, IInv', OneReader, NEW p \in Procs, Wait(p)
  PROVE  OneReader'
<1>1. PICK c \in Procs \ {1, p} :
        /\ ps'[p].inbuf = ps[p].inbuf /\ ps'[p].in = ps[p].in
        /\ ps'[p].pc = "prompt" \/ (ps'[p].pc = "wait" /\ ps'[p].job = ps[p].job)
        /\ ps'[c] = Free
        /\ \A x \in Procs \ {p, c} : ps'[x] = ps[x]
  <2>1. \E c \in Procs \ {1, p} :
        /\ ps'[p].inbuf = ps[p].inbuf /\ ps'[p].in = ps[p].in
        /\ ps'[p].pc = "prompt" \/ (ps'[p].pc = "wait" /\ ps'[p].job = ps[p].job)
        /\ ps'[c] = Free
        /\ \A x \in Procs \ {p, c} : ps'[x] = ps[x]
    BY WaitEffect
  <2>2. QED BY <2>1
<1>2. ps[p].pc = "wait" /\ UNCHANGED <<world, off, times>> BY DEF Wait
<1>3. p = 1 /\ ps[p].job \in Lines BY <1>2 DEF OneReader, Alone, Working
<1>4. Lines' = Lines /\ off' <= off /\ off' = off
  <2>1. off \in Nat BY ReadTypes
  <2>2. QED BY <1>2, <2>1, ScriptKept
<1>5. ASSUME NEW x \in Procs PROVE Alone(x)'
  <2>1. CASE x = p BY <1>1, <1>3, <1>4, <2>1 DEF Alone, Working
  <2>2. CASE x = c
    <3>1. ps'[x].pc = "free" BY <1>1, <2>2 DEF Free
    <3>2. QED BY <3>1 DEF Alone, Working
  <2>3. CASE x \notin {p, c}
    <3>1. Alone(x) /\ ps'[x] = ps[x] BY <1>1, <2>3 DEF OneReader
    <3>2. QED BY <1>4, <3>1 DEF Alone
  <2>4. QED BY <2>1, <2>2, <2>3
<1>6. /\ ps'[1].pc \in Working \cup {"prompt"} /\ ps[1].pc # "gone"
      /\ ps'[1].inbuf = ps[1].inbuf /\ ps'[1].in = Outside
  BY <1>1, <1>2, <1>3 DEF OneReader, Working
<1>7. QED BY <1>2, <1>4, <1>5, <1>6, NothingTaken

\* What a shell that reads the input gets is the next lines of it, which follow
\* the line k that it took last when its buffer is not empty, and else the offset.
LEMMA GotLines ==
  ASSUME IInv, NEW p \in Procs, ps[p].in = Outside \/ ps[p].inbuf # <<>>,
         NEW k \in Nat, Follows(p, k)
  PROVE  LET fresh == ps[p].inbuf = <<>>
             got   == IF fresh THEN Available(p) ELSE ps[p].inbuf
             from  == IF fresh THEN off ELSE k
         IN  /\ got \in Seq(Item) /\ Len(got) \in Nat /\ from \in Nat
             /\ from + Len(got) <= Len(input)
             /\ fresh /\ kind = "tty" => Len(got) <= 1
             /\ \A i \in 1 .. Len(got) : got[i] = [n |-> from + i, cmds |-> input[from + i]]
<1>1. /\ ps[p].inbuf \in Seq(Item) /\ Len(ps[p].inbuf) \in Nat /\ Len(input) \in Nat
      /\ off \in 0 .. Len(input) /\ off \in Nat
  BY ReadTypes
<1>2. CASE ps[p].inbuf # <<>> BY <1>1, <1>2 DEF Follows
<1>3. CASE ps[p].inbuf = <<>>
  <2> DEFINE most == IF kind = "tty" THEN 1 ELSE Block
             rest == Len(input) - off
             m    == IF rest < most THEN rest ELSE most
  <2>1. Available(p) = [i \in 1 .. m |-> [n |-> off + i, cmds |-> input[off + i]]]
    BY <1>3 DEF Available
  <2>2. m \in Nat /\ m <= rest BY <1>1, SizeAssumption
  <2> HIDE DEF m
  <2>3. Available(p) \in Seq(Item) BY AvailableIsLines
  <2>4. Len(Available(p)) = m
    <3>1. DOMAIN Available(p) = 1 .. m BY <2>1
    <3>2. DOMAIN Available(p) = 1 .. Len(Available(p)) /\ Len(Available(p)) \in Nat
      BY <2>3, LenProperties
    <3>3. QED BY <2>2, <3>1, <3>2
  <2>5. off + m <= Len(input) BY <1>1, <2>2
  <2>6. kind = "tty" => Len(Available(p)) <= 1
    <3>1. kind = "tty" => m <= 1 BY <1>1 DEF m
    <3>2. QED BY <2>4, <3>1
  <2>7. QED BY <1>1, <1>3, <2>1, <2>2, <2>3, <2>4, <2>5, <2>6
<1>4. QED BY <1>2, <1>3
\* A shell takes the first of these lines.
LEMMA TakesNext ==
  ASSUME IInv, NEW p \in Procs, ReadLine(p), ps[p].in = Outside \/ ps[p].inbuf # <<>>,
         NEW k \in Nat, Follows(p, k)
  PROVE  \E from \in Nat :
           /\ from = IF ps[p].inbuf = <<>> THEN off ELSE k
           /\ from + 1 \in 1 .. Len(input) /\ input' = input
           /\ times' = IF times[from + 1] = 2 THEN times
                       ELSE [times EXCEPT ![from + 1] = times[from + 1] + 1]
           /\ Follows(p, from + 1)'
           /\ Len(ps'[p].inbuf) \in Nat
           /\ ps[p].inbuf = <<>> => off' = from + 1 + Len(ps'[p].inbuf)
           /\ ps[p].inbuf = <<>> /\ kind = "tty" => ps'[p].inbuf = <<>>
           /\ ps[p].inbuf # <<>> => off' = off /\ Len(ps[p].inbuf) = Len(ps'[p].inbuf) + 1
           /\ ps'[p].in = ps[p].in /\ ps'[p].job = input[from + 1] /\ ps'[p].idx = ps[p].idx
           /\ ps'[p].parent = ps[p].parent /\ ps'[p].pc \in {"prompt", "fork", "pipe"}
           /\ \A x \in Procs \ {p} : ps'[x] = ps[x]
<1> DEFINE fresh == ps[p].inbuf = <<>>
           got   == IF fresh THEN Available(p) ELSE ps[p].inbuf
           from  == IF fresh THEN off ELSE k
           cmds  == Head(got).cmds
           n     == Head(got).n
           to    == CASE Len(cmds) = 0 -> "prompt" [] Len(cmds) = 1 -> "fork" [] OTHER -> "pipe"
           r     == [ps[p] EXCEPT !.inbuf = Tail(got), !.job = cmds, !.pc = to]
<1>1. ps[p] \in Proc /\ ps \in [Procs -> Proc] BY ProcTypes
<1>2. /\ got # <<>> /\ ps' = [ps EXCEPT ![p] = r]
      /\ times' = IF n = 0 \/ times[n] = 2 THEN times ELSE [times EXCEPT ![n] = times[n] + 1]
      /\ off' = IF fresh THEN off + Len(got) ELSE off
      /\ UNCHANGED world
  <2>1. /\ got # <<>>
        /\ ps' = [ps EXCEPT ![p].inbuf = Tail(got), ![p].job = cmds, ![p].pc = to]
        /\ times' = IF n = 0 \/ times[n] = 2 THEN times ELSE [times EXCEPT ![n] = @ + 1]
        /\ off' = IF fresh /\ ps[p].in = Outside THEN off + Len(got) ELSE off
        /\ UNCHANGED world
    BY Zenon DEF ReadLine
  <2> HIDE DEF cmds, got, to, n
  <2>2. ps' = [ps EXCEPT ![p] = r] BY <1>1, <2>1
  <2>3. QED BY <2>1, <2>2
<1>3. /\ got \in Seq(Item) /\ Len(got) \in Nat /\ from \in Nat
      /\ from + Len(got) <= Len(input)
      /\ fresh /\ kind = "tty" => Len(got) <= 1
      /\ \A i \in 1 .. Len(got) : got[i] = [n |-> from + i, cmds |-> input[from + i]]
  BY GotLines
<1>4. Len(got) >= 1 BY <1>2, <1>3, EmptySeq
<1>5. cmds = input[from + 1] /\ n = from + 1
  <2> HIDE DEF got, from
  <2>1. Head(got) = got[1] BY <1>2, <1>3
  <2>2. 1 \in 1 .. Len(got) BY <1>3, <1>4
  <2>3. got[1] = [n |-> from + 1, cmds |-> input[from + 1]] BY <1>3, <2>2
  <2>4. QED BY <2>1, <2>3
<1>6. /\ Tail(got) \in Seq(Item) /\ Len(Tail(got)) = Len(got) - 1
      /\ \A i \in 1 .. Len(Tail(got)) : Tail(got)[i] = got[i + 1]
  BY <1>2, <1>3, HeadTailProperties
<1>7. \A i \in 1 .. Len(Tail(got)) :
         Tail(got)[i] = [n |-> from + 1 + i, cmds |-> input[from + 1 + i]]
  <2>1. ASSUME NEW i \in 1 .. Len(Tail(got))
        PROVE  i + 1 \in 1 .. Len(got) /\ from + (i + 1) = from + 1 + i
    BY <1>3, <1>6
  <2>2. QED BY <1>3, <1>6, <2>1
<1>8. to \in {"prompt", "fork", "pipe"} OBVIOUS
<1> HIDE DEF to, cmds, n
<1>9. r.pc = to /\ r.job = cmds /\ r.idx = ps[p].idx /\ r.parent = ps[p].parent BY <1>1 DEF Proc
<1>10. r.inbuf = Tail(got) /\ r.in = ps[p].in BY <1>1 DEF Proc
<1> HIDE DEF r
<1>11. ps'[p] = r /\ \A x \in Procs \ {p} : ps'[x] = ps[x] BY <1>1, <1>2
<1>12. input' = input /\ Len(input) \in Nat BY <1>2, ReadTypes, ScriptKept
<1>13. fresh => off' = from + 1 + Len(ps'[p].inbuf)
  BY <1>2, <1>3, <1>6, <1>10, <1>11
<1>14. Len(ps'[p].inbuf) = Len(got) - 1 BY <1>6, <1>10, <1>11
<1>15. ~fresh => off' = off /\ Len(ps[p].inbuf) = Len(ps'[p].inbuf) + 1
  <2>1. ~fresh => got = ps[p].inbuf OBVIOUS
  <2> DEFINE a == Len(got)
             b == Len(ps'[p].inbuf)
  <2>2. b = a - 1 /\ a \in Nat BY <1>3, <1>14
  <2> HIDE DEF a, b
  <2>3. a = b + 1 BY <2>2
  <2>4. QED BY <1>2, <2>1, <2>3 DEF a, b
<1>16. fresh /\ kind = "tty" => ps'[p].inbuf = <<>>
  <2>1. fresh /\ kind = "tty" => Len(Tail(got)) = 0 BY <1>3, <1>4, <1>6
  <2>2. QED BY <1>6, <1>10, <1>11, <2>1, EmptySeq
<1> HIDE DEF got, from, fresh
<1>17. from + 1 \in 1 .. Len(input) BY <1>3, <1>4, <1>12
<1>18. PICK v \in Nat : v = from BY <1>3
<1>19. Follows(p, v + 1)'
  <2>1. from + 1 + Len(ps'[p].inbuf) <= Len(input) BY <1>3, <1>4, <1>12, <1>14
  <2>2. ps'[p].inbuf = Tail(got) BY <1>10, <1>11
  <2> DEFINE b == Tail(got)
  <2>3. /\ from + 1 + Len(b) <= Len(input)
        /\ \A i \in 1 .. Len(b) : b[i] = [n |-> from + 1 + i, cmds |-> input[from + 1 + i]]
    BY <1>7, <2>1, <2>2
  <2> HIDE DEF b
  <2>4. ps'[p].inbuf = b BY <2>2 DEF b
  <2>5. QED BY <1>12, <1>18, <2>3, <2>4 DEF Follows
<1>20. times' = IF times[from + 1] = 2 THEN times
                ELSE [times EXCEPT ![from + 1] = times[from + 1] + 1]
  BY <1>2, <1>3, <1>5
<1>21. Len(ps'[p].inbuf) \in Nat BY <1>3, <1>4, <1>14
<1>22. /\ ps'[p].in = ps[p].in /\ ps'[p].job = input[from + 1] /\ ps'[p].idx = ps[p].idx
       /\ ps'[p].parent = ps[p].parent /\ ps'[p].pc \in {"prompt", "fork", "pipe"}
  BY <1>5, <1>8, <1>9, <1>10, <1>11
<1>23. from = (IF ps[p].inbuf = <<>> THEN off ELSE k) /\ (fresh <=> ps[p].inbuf = <<>>)
  BY DEF from, fresh
<1>24. QED
  BY <1>11, <1>12, <1>13, <1>15, <1>17, <1>19, <1>20, <1>21, <1>22, <1>23, <1>18, <1>16

LEMMA ReadLineReads ==
  ASSUME IInv, IInv', OneReader, NEW p \in Procs, ReadLine(p)
  PROVE  OneReader'
<1>1. p = 1 /\ ps[p].pc = "prompt" /\ ps[p].in = Outside BY DEF ReadLine, OneReader, Alone
<1>2. PICK k \in Nat : Taken(k) BY <1>1 DEF OneReader
<1>3. Follows(p, k) BY <1>1, <1>2 DEF Taken
<1>4. PICK from \in Nat :
        /\ from = IF ps[p].inbuf = <<>> THEN off ELSE k
        /\ from + 1 \in 1 .. Len(input) /\ input' = input
        /\ times' = IF times[from + 1] = 2 THEN times
                    ELSE [times EXCEPT ![from + 1] = times[from + 1] + 1]
        /\ Follows(p, from + 1)'
        /\ Len(ps'[p].inbuf) \in Nat
        /\ ps[p].inbuf = <<>> => off' = from + 1 + Len(ps'[p].inbuf)
        /\ ps[p].inbuf = <<>> /\ kind = "tty" => ps'[p].inbuf = <<>>
        /\ ps[p].inbuf # <<>> => off' = off /\ Len(ps[p].inbuf) = Len(ps'[p].inbuf) + 1
        /\ ps'[p].in = ps[p].in /\ ps'[p].job = input[from + 1] /\ ps'[p].idx = ps[p].idx
        /\ ps'[p].parent = ps[p].parent /\ ps'[p].pc \in {"prompt", "fork", "pipe"}
        /\ \A x \in Procs \ {p} : ps'[x] = ps[x]
  BY <1>1, <1>3, TakesNext
<1>5. /\ off \in Nat /\ Len(ps[p].inbuf) \in Nat /\ Len(input) \in Nat
      /\ times \in [1 .. Len(input) -> 0 .. 2] /\ DOMAIN input = 1 .. Len(input)
  BY ReadTypes
<1>6. UNCHANGED world BY DEF ReadLine
<1>7. Lines' = Lines /\ Rewinds' = Rewinds BY <1>6, ScriptKept
<1>8. ASSUME NEW x \in Procs PROVE Alone(x)'
  <2>1. input[from + 1] \in Lines BY <1>4, <1>5 DEF Lines
  <2>2. CASE x = p BY <1>1, <1>4, <1>7, <2>1, <2>2 DEF Alone, Working
  <2>3. CASE x # p
    <3>1. Alone(x) /\ ps'[x] = ps[x] BY <1>4, <2>3 DEF OneReader
    <3>2. QED BY <1>7, <3>1 DEF Alone
  <2>4. QED BY <2>2, <2>3
<1> DEFINE was == Len(ps[p].inbuf)
           now == Len(ps'[p].inbuf)
<1>9. /\ from <= k
      /\ off' <= from + 1 + now
      /\ ~Rewinds => from = k /\ off' = from + 1 + now
  <2>1. off <= k + was /\ (~Rewinds => off = k + was) BY <1>1, <1>2 DEF Taken
  <2>2. was \in Nat /\ now \in Nat BY <1>4, <1>5
  <2>3. CASE ps[p].inbuf = <<>>
    <3>1. was = 0 BY <2>3, EmptySeq
    <3>2. from = off /\ off' = from + 1 + now BY <1>4, <2>3
    <3> HIDE DEF was, now
    <3>3. QED BY <1>5, <2>1, <2>2, <3>1, <3>2
  <2>4. CASE ps[p].inbuf # <<>>
    <3>1. from = k /\ off' = off /\ was = now + 1 BY <1>4, <2>4
    <3> HIDE DEF was, now
    <3>2. QED BY <1>5, <2>1, <2>2, <3>1
  <2>5. QED BY <2>3, <2>4
<1>10. /\ \A m \in 1 .. Len(input) : m # from + 1 => times'[m] = times[m]
      /\ times'[from + 1] = IF times[from + 1] = 2 THEN 2 ELSE times[from + 1] + 1
  BY <1>4, <1>5
<1>11. times'[from + 1] > 0
  <2>1. times[from + 1] \in 0 .. 2 BY <1>4, <1>5
  <2>2. QED BY <1>10, <2>1
<1>12. Taken(from + 1)'
  <2>1. ASSUME NEW m \in 1 .. from + 1 PROVE times'[m] > 0
    <3>1. CASE m = from + 1 BY <1>11, <3>1
    <3>2. CASE m # from + 1
      <4>1. m \in 1 .. k /\ m \in 1 .. Len(input) BY <1>4, <1>5, <1>9, <3>2
      <4>2. QED BY <1>2, <1>10, <3>2, <4>1 DEF Taken
    <3>3. QED BY <3>1, <3>2
  <2>2. ASSUME ~Rewinds, NEW m \in 1 .. Len(input), m > from + 1 PROVE times'[m] = 0
    <3>1. m > k /\ m # from + 1 BY <1>9, <2>2
    <3>2. QED BY <1>2, <1>10, <2>2, <3>1 DEF Taken
  <2>3. QED BY <1>1, <1>4, <1>7, <1>9, <2>1, <2>2 DEF Taken
<1>13. ASSUME ~Rewinds PROVE LinesOnce'
  <2>1. times[from + 1] = 0
    <3>1. from = k BY <1>9, <1>13
    <3>2. QED BY <1>2, <1>4, <1>13, <3>1 DEF Taken
  <2>2. QED BY <1>4, <1>5, <1>10, <1>13, <2>1 DEF OneReader, LinesOnce
<1>14. /\ ps'[1].in = Outside /\ ps'[1].pc \in Working \cup {"prompt", "gone"}
  BY <1>1, <1>4 DEF Working
<1>15. from + 1 \in Nat BY <1>4
<1>16. QED BY <1>7, <1>8, <1>12, <1>13, <1>14, <1>15 DEF OneReader
\* The input is what it is.
LEMMA WorldStays == [Next]_vars => UNCHANGED world
<1> SUFFICES ASSUME [Next]_vars PROVE UNCHANGED world OBVIOUS
<1>1. CASE UNCHANGED vars BY <1>1 DEF vars
<1>2. ASSUME NEW p \in Procs, NEW in, NEW out, NEW s, Exit(p, in, out, s) PROVE UNCHANGED world
  BY <1>2 DEF Exit, Killed
<1>3. ASSUME NEW p \in Procs, NEW r, Becomes(p, r) \/ Killed(p, r) PROVE UNCHANGED world
  BY <1>3 DEF Becomes, Killed
<1>4. ASSUME NEW p \in Procs, EndOfInput(p) \/ HeadExit(p) \/ SingleChild(p) \/ PipedChild(p)
      PROVE  UNCHANGED world
  BY <1>2, <1>3, <1>4 DEF EndOfInput, HeadExit, SingleChild, PipedChild
<1>5. ASSUME NEW p \in Procs, Step(p) \/ PipeFails(p) \/ ForkFails(p) \/ BrokenPipe(p) \/ Speak(p)
      PROVE  UNCHANGED world
  <2>1. CASE ReadLine(p) BY <2>1 DEF ReadLine
  <2>2. CASE MakePipes(p) BY <2>2 DEF MakePipes
  <2>3. CASE HeadBuiltIn(p) BY <2>3 DEF HeadBuiltIn
  <2>4. CASE Fork(p) BY <2>4 DEF Fork
  <2>5. CASE Close(p) \/ Wait(p) BY <2>5 DEF Close, Wait
  <2>6. CASE Finish(p) BY <2>6 DEF Finish
  <2>7. CASE PipeFails(p) \/ ForkFails(p) BY <2>7 DEF PipeFails, ForkFails
  <2>8. CASE Speak(p) BY <2>8 DEF Speak
  <2>9. CASE BrokenPipe(p) BY <1>3, <2>9 DEF BrokenPipe
  <2>10. QED BY <1>4, <1>5, <2>1, <2>2, <2>3, <2>4, <2>5, <2>6, <2>7, <2>8, <2>9 DEF Step
<1>6. QED BY <1>1, <1>5 DEF Next

LEMMA InitReads == Init => OneReader
<1> SUFFICES ASSUME Init PROVE OneReader OBVIOUS
<1> DEFINE shell == [Free EXCEPT !.pc = "prompt"]
<1>1. IInv BY InitInv
<1>2. 1 \in Procs BY SizeAssumption DEF Procs
<1>3. shell.pc = "prompt" /\ shell.in = Outside /\ shell.inbuf = <<>> BY DEF Free
<1>4. Free.pc = "free" BY DEF Free
<1> HIDE DEF shell
<1>5. ps[1] = shell /\ \A p \in Procs \ {1} : ps[p] = Free BY <1>2 DEF Init, shell
<1>6. \A p \in Procs : Alone(p)
  <2>1. Alone(1) BY <1>3, <1>5 DEF Alone, Working
  <2>2. \A p \in Procs \ {1} : Alone(p) BY <1>4, <1>5 DEF Alone, Working
  <2>3. QED BY <2>1, <2>2
<1>7. Len(input) \in Nat /\ DOMAIN input = 1 .. Len(input) BY <1>1, <1>2, ReadTypes
<1>8. off = 0 /\ times = [n \in 1 .. Len(input) |-> 0] BY DEF Init
<1>9. Len(ps[1].inbuf) = 0 BY <1>3, <1>5, EmptySeq
<1>10. Taken(0)
  <2>1. Follows(1, 0) BY <1>7, <1>9 DEF Follows
  <2>2. QED BY <1>8, <1>9, <2>1 DEF Taken
<1>11. LinesOnce BY <1>7, <1>8 DEF LinesOnce
<1>12. QED BY <1>3, <1>5, <1>6, <1>10, <1>11 DEF OneReader

LEMMA NextReads ==
  ASSUME IInv, IInv', Plain, OneReader, [Next]_vars
  PROVE  OneReader'
<1>1. CASE UNCHANGED vars
  <2>1. UNCHANGED <<world, off, times>> /\ ps' = ps BY <1>1 DEF vars
  <2>2. off \in Nat
    <3>1. 1 \in Procs BY SizeAssumption DEF Procs
    <3>2. QED BY <3>1, ReadTypes
  <2>3. Lines' = Lines /\ off' <= off /\ off' = off BY <2>1, <2>2, ScriptKept
  <2>4. \A p \in Procs : Alone(p)' BY <2>1, <2>3 DEF OneReader, Alone
  <2>5. QED BY <2>1, <2>3, <2>4, NothingTaken DEF OneReader
<1>2. ASSUME NEW p \in Procs, Step(p) \/ PipeFails(p) \/ ForkFails(p) \/ BrokenPipe(p) \/ Speak(p)
      PROVE  OneReader'
  <2>1. CASE ReadLine(p) BY <2>1, ReadLineReads
  <2>2. CASE EndOfInput(p) BY <2>2, EndOfInputReads
  <2>3. CASE MakePipes(p) BY <2>3, MakePipesReads
  <2>4. CASE HeadBuiltIn(p) \/ PipeFails(p) \/ ForkFails(p) BY <2>4, ReturnsRead
  <2>5. CASE HeadExit(p) BY <2>5, HeadExitReads
  <2>6. CASE Fork(p) BY <2>6, ForkReads
  <2>7. CASE Close(p) BY <2>7, CloseReads
  <2>8. CASE Wait(p) BY <2>8, WaitReads
  <2>9. CASE SingleChild(p) BY <2>9, SingleChildReads
  <2>10. CASE PipedChild(p) BY <2>10, PipedChildReads
  <2>11. CASE Finish(p) BY <2>11, FinishReads
  <2>12. CASE Speak(p) BY <2>12, SpeakReads
  <2>13. CASE BrokenPipe(p) BY <2>13, BrokenPipeReads
  <2>14. QED
    BY <1>2, <2>1, <2>2, <2>3, <2>4, <2>5, <2>6, <2>7, <2>8, <2>9, <2>10, <2>11, <2>12, <2>13 DEF Step
<1>3. QED BY <1>1, <1>2 DEF Next

\* There is one reader of the input as long as no child of a pipeline becomes a
\* second shell.
LEMMA OneReaderHolds == Spec => [](Plain => OneReader)
<1>1. Init => (Plain => OneReader) BY InitReads
<1>2. IInv /\ IInv' /\ (Plain => OneReader) /\ [Next]_vars => (Plain => OneReader)'
  <2>1. [Next]_vars => Plain' = Plain BY WorldStays, ScriptKept
  <2>2. QED BY <2>1, NextReads
<1>3. QED BY <1>1, <1>2, Invariance, PTL DEF Spec

\* Each line of the input is run at most once when no child of a pipeline fails
\* to find its program and no failing child moves the offset of the input under
\* the shell: the copies of the read buffer that fork() makes are then harmless
\* (dshlib.c:74, 355, 464).
THEOREM CopiesAreHarmless == Spec => []CopiesHarmless
<1>1. (Plain => OneReader) => CopiesHarmless BY DEF Plain, OneReader, CopiesHarmless
<1>2. QED BY <1>1, OneReaderHolds, PTL

-----------------------------------------------------------------------------
(***************************************************************************)
(* The order of the lines, when copies of the shell share the input.       *)
(***************************************************************************)

\* A process that still is, or may yet become, a shell: it has a read buffer.
Copying == Working \cup {"prompt", "child"}

\* One that can read the input or move its offset.
Reader(p) ==
  /\ ps[p].in = Outside
  /\ ps[p].pc \in Working \cup {"prompt"} \/ (ps[p].pc = "child" /\ ps[p].idx = 1)

\* A reader that does not wait for another one.
Active(p) == Reader(p) /\ \A c \in Procs : ps[c].parent = p => ~Reader(c)

\* Line m has been taken, or lost with a shell that was killed.
Past(m) == times[m] > 0 \/ m \in lost

\* The buffer of p follows line k, and all lines up to k are past.
Known(p, k) == Follows(p, k) /\ \A m \in 1 .. k : Past(m)

\* There are only lines from a pipe in the buffer of p.
NoLines(p) == \A i \in 1 .. Len(ps[p].inbuf) : ps[p].inbuf[i].n = 0

Holds(p) == (\E k \in Nat : Known(p, k)) \/ (ps[p].in # Outside /\ NoLines(p))

AllPast == \A m \in 1 .. off : Past(m)

\* A line before the offset is past or in the buffer of p.
Covers(p) ==
  \E k \in Nat : Known(p, k) /\ (AllPast \/ off = k + Len(ps[p].inbuf))

Texts == \A q \in Pipes : \A i \in 1 .. Len(text[q]) : text[q][i].n = 0

\* What a buffer holds; that of a child is a copy of its parent's.
Buffers ==
  \A p \in Procs :
    /\ ps[p].pc \in Copying => Holds(p)
    /\ Reader(p) /\ kind = "tty" => ps[p].inbuf = <<>>

Copies ==
  \A p \in Procs :
    ps[p].pc = "child" /\ ps[p].parent # 0 => ps[ps[p].parent].inbuf = ps[p].inbuf

\* The readers are a chain, and the last of them is the only one that can act.
Alternate == \A p, q \in Procs : Active(p) /\ Active(q) => p = q

Chain ==
  /\ Texts /\ Buffers /\ Copies /\ Alternate
  /\ \A p \in Procs : Active(p) => Covers(p)

\* A process that has nothing to wait for.
LEMMA Childless ==
  ASSUME IInv, ~failed, NEW p \in Procs, ps[p].pc \notin Shells \/ AtBuiltIn(p)
  PROVE  \A x \in Procs : ps[x].parent # p
<1>1. ps[p] \in Proc /\ Place(p) BY ProcTypes
<1>2. ps[p].kids = <<>> BY <1>1, FirstHasNone DEF Place
<1>3. QED BY <1>2, NoKids

\* The parent of a process has it on its list.
LEMMA ParentWaits ==
  ASSUME IInv, ~failed, NEW x \in Procs, ps[x].parent # 0
  PROVE  ps[x].parent \in Procs /\ ps[ps[x].parent].pc \in Shells
<1>1. ps[x].parent \in Procs BY ProcTypes, Fields, SizeAssumption DEF Procs
<1>2. QED BY <1>1, Childless

\* What x has read ahead is what y had.
From(x, y) ==
  /\ ps[y].pc \in Copying /\ ps'[x].inbuf = ps[y].inbuf
  /\ ps'[x].in = ps[y].in \/ ps'[x].in # Outside
  /\ Reader(x)' => Reader(y)

LEMMA KnownKept ==
  ASSUME NEW x \in Procs, NEW y \in Procs, NEW k \in Nat, Known(y, k), UNCHANGED <<world, times>>,
         lost \subseteq lost', ps'[x].inbuf = ps[y].inbuf
  PROVE  Known(x, k)'
<1>1. input' = input /\ times' = times BY ScriptKept
<1>2. QED BY <1>1 DEF Known, Follows, Past

\* No buffer is read from in a step.
LEMMA BuffersKept ==
  ASSUME Buffers, UNCHANGED <<world, times>>, lost \subseteq lost',
         \A x \in Procs : ps'[x].pc \in Copying => \E y \in Procs : From(x, y)
  PROVE  Buffers'
<1>1. kind' = kind BY ScriptKept
<1>2. ASSUME NEW x \in Procs, ps'[x].pc \in Copying
      PROVE  Holds(x)' /\ (Reader(x)' /\ kind = "tty" => ps'[x].inbuf = <<>>)
  <2>1. PICK y \in Procs : From(x, y) BY <1>2
  <2>2. Holds(y) /\ (Reader(y) /\ kind = "tty" => ps[y].inbuf = <<>>) BY <2>1 DEF Buffers, From
  <2>3. ASSUME NEW k \in Nat, Known(y, k) PROVE Known(x, k)' BY <2>1, <2>3, KnownKept DEF From
  <2>4. ps[y].in # Outside /\ NoLines(y) => ps'[x].in # Outside /\ NoLines(x)'
    BY <2>1 DEF From, NoLines
  <2>5. Holds(x)' BY <2>2, <2>3, <2>4 DEF Holds
  <2>6. QED BY <2>1, <2>2, <2>5 DEF From
<1>3. \A x \in Procs : Reader(x)' => ps'[x].pc \in Copying BY DEF Reader, Copying
<1>4. QED BY <1>1, <1>2, <1>3 DEF Buffers

\* Nor does a new copy come into being.
LEMMA CopiesKept ==
  ASSUME IInv, IInv', ~failed', Copies,
         \A x \in Procs : ps'[x].pc \in Copying => ps'[x].inbuf = ps[x].inbuf,
         \A x \in Procs : ps'[x].pc = "child" => ps[x].pc = "child" /\ ps'[x].parent \in {0, ps[x].parent}
  PROVE  Copies'
<1>1. ASSUME NEW x \in Procs, ps'[x].pc = "child", ps'[x].parent # 0
      PROVE  ps'[ps'[x].parent].inbuf = ps'[x].inbuf
  <2>1. ps[x].pc = "child" /\ ps'[x].parent = ps[x].parent BY <1>1
  <2>2. PICK q \in Procs : q = ps'[x].parent /\ ps[q].inbuf = ps[x].inbuf
    <3>1. ps[x].parent \in 0 .. MaxProcs BY ProcTypes, Fields
    <3>2. ps[x].parent \in Procs BY <1>1, <2>1, <3>1, SizeAssumption DEF Procs
    <3>3. ps[ps[x].parent].inbuf = ps[x].inbuf BY <1>1, <2>1 DEF Copies
    <3>4. QED BY <2>1, <3>2, <3>3
  <2>3. ps'[q].pc \in Shells
    <3>1. ps' \in [Procs -> Proc] /\ Place(q)' /\ Family(q)' BY <2>2 DEF IInv, TypeOK, Local
    <3>2. ps'[q].pc \notin {"free", "zombie", "gone", "child", "program", "said"}
      BY <1>1, <2>2, <3>1 DEF Family
    <3>3. ps'[q].pc \in {"prompt", "pipe"} => ps'[q].kids = <<>> BY <3>1 DEF Place, Shells
    <3>4. ps'[q].pc \in {"prompt", "pipe"} => Unwaited(q)' = {} BY <3>3 DEF Unwaited
    <3>5. ps'[q].pc \notin {"prompt", "pipe"} BY <1>1, <2>2, <3>1, <3>4 DEF Family
    <3>6. ps'[q] \in Proc BY <2>2, <3>1
    <3>7. QED BY <3>2, <3>5, <3>6 DEF Proc, Shells
  <2>4. QED BY <1>1, <2>1, <2>2, <2>3 DEF Copying, Working, Shells
<1>2. QED BY <1>1 DEF Copies

\* Who reads stays the same.
LEMMA SameReaders ==
  ASSUME \A x \in Procs : Reader(x)' <=> Reader(x),
         \A x \in Procs : Reader(x) => ps'[x].parent = ps[x].parent
  PROVE  \A x \in Procs : Active(x)' <=> Active(x)
  BY DEF Active

\* The readers stay, and what they have.
LEMMA StayInOrder ==
  ASSUME IInv, IInv', ~failed, ~failed', lost \subseteq lost', Chain, UNCHANGED <<world, off, times>>, Texts',
         \A x \in Procs : Reader(x)' <=> Reader(x),
         \A x \in Procs : Reader(x) => ps'[x].parent = ps[x].parent,
         \A x \in Procs : ps'[x].pc \in Copying => From(x, x),
         \A x \in Procs : ps'[x].pc = "child" => ps[x].pc = "child" /\ ps'[x].parent \in {0, ps[x].parent}
  PROVE  Chain'
<1>1. Buffers' BY BuffersKept DEF Chain
<1>2. Copies' BY CopiesKept DEF Chain, From
<1>3. \A x \in Procs : Active(x)' <=> Active(x) BY SameReaders
<1>4. Alternate' BY <1>3 DEF Chain, Alternate
<1>5. ASSUME NEW x \in Procs, Active(x)' PROVE Covers(x)'
  <2>1. PICK k \in Nat : Known(x, k) /\ (AllPast \/ off = k + Len(ps[x].inbuf))
    BY <1>3, <1>5 DEF Chain, Covers
  <2>2. ps'[x].inbuf = ps[x].inbuf BY <1>5 DEF Active, Reader, Copying, From
  <2>3. Known(x, k)' BY <2>1, <2>2, KnownKept
  <2>4. off' = off /\ times' = times OBVIOUS
  <2>5. AllPast => AllPast' BY <2>4 DEF AllPast, Past
  <2>6. QED BY <2>1, <2>2, <2>3, <2>4, <2>5 DEF Covers
<1>6. QED BY <1>1, <1>2, <1>4, <1>5 DEF Chain

\* The reader that could act is one no longer: its parent is next.
LEMMA LoseInOrder ==
  ASSUME IInv, IInv', ~failed, ~failed', lost \subseteq lost', Chain, UNCHANGED <<world, times>>, Texts',
         NEW r \in Procs, Active(r),
         \A x \in Procs : Reader(x)' <=> Reader(x) /\ x # r,
         \A x \in Procs \ {r} : ps'[x].parent = ps[x].parent,
         \A x \in Procs : ps'[x].pc \in Copying => From(x, x),
         \A x \in Procs : ps'[x].pc = "child" => ps[x].pc = "child" /\ ps'[x].parent \in {0, ps[x].parent},
         AllPast' \/ (off' = off /\ ps[r].pc = "child")
  PROVE  Chain'
<1>1. Buffers' BY BuffersKept DEF Chain
<1>2. Copies' BY CopiesKept DEF Chain, From
<1>3. ASSUME NEW x \in Procs, Active(x)' PROVE ps[r].parent = x /\ Reader(x)
  <2>1. Reader(x) /\ x # r BY <1>3 DEF Active
  <2>2. ~Active(x) BY <2>1 DEF Chain, Alternate
  <2>3. PICK c \in Procs : ps[c].parent = x /\ Reader(c) BY <2>1, <2>2 DEF Active
  <2>4. c = r
    <3>1. SUFFICES ASSUME c # r PROVE FALSE OBVIOUS
    <3>2. Reader(c)' /\ ps'[c].parent = x BY <2>3, <3>1
    <3>3. QED BY <1>3, <3>2 DEF Active
  <2>5. QED BY <2>1, <2>3, <2>4
<1>4. Alternate' BY <1>3 DEF Alternate
<1>5. ASSUME NEW x \in Procs, Active(x)' PROVE Covers(x)'
  <2>1. ps[r].parent = x /\ Reader(x) BY <1>3, <1>5
  <2>2. ps[x].pc \in Copying /\ ps[x].in = Outside BY <2>1 DEF Reader, Copying
  <2>3. ps'[x].inbuf = ps[x].inbuf BY <1>5 DEF Active, Reader, Copying, From
  <2>4. CASE AllPast'
    <3>1. PICK k \in Nat : Known(x, k) BY <2>2 DEF Chain, Buffers, Holds
    <3>2. Known(x, k)' BY <2>3, <3>1, KnownKept
    <3>3. QED BY <2>4, <3>2 DEF Covers
  <2>5. CASE off' = off /\ ps[r].pc = "child"
    <3>1. PICK k \in Nat : Known(r, k) /\ (AllPast \/ off = k + Len(ps[r].inbuf))
      BY DEF Chain, Covers
    <3>2. x # 0 BY SizeAssumption DEF Procs
    <3>3. ps'[x].inbuf = ps[r].inbuf BY <2>1, <2>3, <2>5, <3>2 DEF Chain, Copies
    <3>4. Known(x, k)' BY <3>1, <3>3, KnownKept
    <3>5. AllPast => AllPast' BY <2>5 DEF AllPast, Past
    <3>6. QED BY <2>5, <3>1, <3>3, <3>4, <3>5 DEF Covers
  <2>6. QED BY <2>4, <2>5
<1>6. QED BY <1>1, <1>2, <1>4, <1>5 DEF Chain
\* One process changes, and reads as it did.
LEMMA OneStays ==
  ASSUME IInv, IInv', ~failed, ~failed', lost \subseteq lost', Chain, NEW p \in Procs, NEW r, ps' = [ps EXCEPT ![p] = r],
         UNCHANGED <<world, off, times>>, Texts', r.parent = ps[p].parent, r.pc # "child",
         r.pc \in Copying => /\ ps[p].pc \in Copying /\ r.inbuf = ps[p].inbuf
                             /\ r.in = ps[p].in \/ r.in # Outside,
         r.in = Outside /\ r.pc \in Copying <=> Reader(p)
  PROVE  Chain'
<1>1. ps \in [Procs -> Proc] BY ProcTypes
<1>2. ps'[p] = r /\ \A x \in Procs \ {p} : ps'[x] = ps[x] BY <1>1
<1>3. Reader(p)' <=> Reader(p) BY <1>2 DEF Reader, Copying
<1>4. \A x \in Procs : Reader(x)' <=> Reader(x) BY <1>2, <1>3 DEF Reader
<1>5. \A x \in Procs : ps'[x].parent = ps[x].parent BY <1>2
<1>6. ASSUME NEW x \in Procs, ps'[x].pc \in Copying PROVE From(x, x)
  <2>1. CASE x = p BY <1>2, <1>3, <1>6, <2>1 DEF From
  <2>2. CASE x # p BY <1>2, <1>4, <1>6, <2>2 DEF From
  <2>3. QED BY <2>1, <2>2
<1>7. \A x \in Procs : ps'[x].pc = "child" => ps[x].pc = "child" BY <1>2
<1>8. QED BY <1>4, <1>5, <1>6, <1>7, StayInOrder

\* A process ends that no other waits for.
LEMMA EndedAlone ==
  ASSUME IInv, NEW p \in Procs, NEW s \in 0 .. 255, ps' = Ended(p, s),
         \A x \in Procs : ps[x].parent # p
  PROVE  /\ \A x \in Procs \ {p} : ps'[x] = ps[x]
         /\ ps'[p].pc \notin Copying
<1>1. \A x \in Procs \ {p} : ps'[x] = ps[x] BY EndedOther
<1>2. ps'[p].pc \in {"gone", "free", "zombie"} BY EndedSelf
<1>3. QED BY <1>1, <1>2 DEF Copying, Working

\* It was one that could not act on the input.
LEMMA OtherEnds ==
  ASSUME IInv, IInv', ~failed, ~failed', lost \subseteq lost', Chain, NEW p \in Procs, NEW s \in 0 .. 255,
         ps' = Ended(p, s), \A x \in Procs : ps[x].parent # p, ~Reader(p),
         UNCHANGED <<world, off, times>>, Texts'
  PROVE  Chain'
<1>1. (\A x \in Procs \ {p} : ps'[x] = ps[x]) /\ ps'[p].pc \notin Copying BY EndedAlone
<1>2. \A x \in Procs : Reader(x)' => ps'[x].pc \in Copying BY DEF Reader, Copying
<1>3. \A x \in Procs : Reader(x)' <=> Reader(x) BY <1>1, <1>2 DEF Reader
<1>4. \A x \in Procs : Reader(x) => ps'[x].parent = ps[x].parent BY <1>1
<1>5. \A x \in Procs : ps'[x].pc \in Copying => From(x, x) BY <1>1, <1>3 DEF From
<1>6. \A x \in Procs : ps'[x].pc = "child" => ps[x].pc = "child" /\ ps'[x].parent \in {0, ps[x].parent}
  BY <1>1 DEF Copying
<1>7. QED BY <1>3, <1>4, <1>5, <1>6, StayInOrder

\* It was the one that could.
LEMMA ReaderEnds ==
  ASSUME IInv, IInv', ~failed, ~failed', lost \subseteq lost', Chain, NEW p \in Procs, NEW s \in 0 .. 255,
         ps' = Ended(p, s), \A x \in Procs : ps[x].parent # p, Reader(p),
         UNCHANGED <<world, times>>, Texts', AllPast'
  PROVE  Chain'
<1>1. (\A x \in Procs \ {p} : ps'[x] = ps[x]) /\ ps'[p].pc \notin Copying BY EndedAlone
<1>2. Active(p) BY DEF Active
<1>3. \A x \in Procs : Reader(x)' => ps'[x].pc \in Copying BY DEF Reader, Copying
<1>4. \A x \in Procs : Reader(x)' <=> Reader(x) /\ x # p BY <1>1, <1>3 DEF Reader
<1>5. \A x \in Procs : ps'[x].pc \in Copying => From(x, x) BY <1>1, <1>4 DEF From
<1>6. \A x \in Procs : ps'[x].pc = "child" => ps[x].pc = "child" /\ ps'[x].parent \in {0, ps[x].parent}
  BY <1>1 DEF Copying
<1>7. QED BY <1>1, <1>2, <1>4, <1>5, <1>6, LoseInOrder

\* What a process writes is not a line of the input.
LEMMA AppendedText ==
  ASSUME IInv, Texts, NEW out, NEW l, text' = [text EXCEPT ![out] = Append(@, [n |-> 0, cmds |-> l])]
  PROVE  Texts'
<1> DEFINE e == [n |-> 0, cmds |-> l]
<1>1. text \in [Pipes -> Seq(Item)] BY SharedHolds DEF Shared
<1>2. text' = [text EXCEPT ![out] = Append(text[out], e)] /\ e.n = 0 OBVIOUS
<1> HIDE DEF e
<1>3. ASSUME NEW q \in Pipes, NEW i \in 1 .. Len(text'[q]) PROVE text'[q][i].n = 0
  <2>1. text[q] \in Seq(Item) BY <1>1
  <2>2. CASE q = out
    <3>1. text'[q] = Append(text[q], e) BY <1>1, <1>2, <2>2
    <3>2. Len(text'[q]) = Len(text[q]) + 1 /\ Len(text[q]) \in Nat BY <2>1, <3>1
    <3>3. CASE i = Len(text[q]) + 1 BY <1>2, <2>1, <3>1, <3>3
    <3>4. CASE i # Len(text[q]) + 1
      <4>1. i \in 1 .. Len(text[q]) BY <3>2, <3>4
      <4>2. text'[q][i] = text[q][i] BY <2>1, <3>1, <4>1
      <4>3. QED BY <4>1, <4>2 DEF Texts
    <3>5. QED BY <3>3, <3>4
  <2>3. CASE q # out
    <3>1. text'[q] = text[q] BY <1>1, <1>2, <2>3
    <3>2. QED BY <3>1 DEF Texts
  <2>4. QED BY <2>2, <2>3
<1>4. QED BY <1>3 DEF Texts

\* A process is killed: the lines that it held, if it was a reader, are lost.
LEMMA KilledInOrder ==
  ASSUME IInv, IInv', ~failed, lost \subseteq lost', Chain, NEW p \in Procs, NEW in, Killed(p, in),
         \A x \in Procs : ps[x].parent # p, Reader(p) <=> in = Outside
  PROVE  Chain'
<1>1. ps' = Ended(p, 0) /\ UNCHANGED <<world, off, text, failed, times>> BY DEF Killed
<1>2. Texts' BY <1>1 DEF Chain, Texts
<1>3. CASE ~Reader(p) BY <1>1, <1>2, <1>3, OtherEnds
<1>4. CASE Reader(p)
  <2>1. Active(p) BY <1>4 DEF Active
  <2>2. PICK k \in Nat : Known(p, k) /\ (AllPast \/ off = k + Len(ps[p].inbuf))
    BY <2>1 DEF Chain, Covers
  <2> DEFINE buf == ps[p].inbuf
             n   == Len(buf)
  <2>3. lost' = lost \cup {buf[i].n : i \in DOMAIN buf} BY <1>4 DEF Killed
  <2>4. DOMAIN buf = 1 .. n /\ n \in Nat /\ off \in Nat BY ReadTypes, LenProperties
  <2>5. AllPast => AllPast' BY <1>1 DEF AllPast, Past
  <2>6. ASSUME NEW i \in 1 .. n PROVE buf[i].n = k + i
    <3>1. buf[i] = [n |-> k + i, cmds |-> input[k + i]] BY <2>2 DEF Known, Follows
    <3>2. QED BY <3>1
  <2>7. \A m \in 1 .. k : Past(m)' BY <1>1, <2>2 DEF Known, Past
  <2>8. ASSUME off = k + n, NEW m \in 1 .. off, ~(m \in 1 .. k) PROVE m \in lost'
    <3> HIDE DEF buf, n
    <3>1. PICK i \in 1 .. n : m = k + i
      <4>1. m - k \in 1 .. n /\ m = k + (m - k) BY <2>4, <2>8
      <4>2. QED BY <4>1
    <3>2. QED BY <2>3, <2>4, <2>6, <3>1
  <2>9. off = k + n => AllPast' BY <1>1, <2>7, <2>8 DEF AllPast, Past
  <2>10. AllPast' BY <2>2, <2>5, <2>9
  <2>11. QED BY <1>1, <1>2, <1>4, <2>10, ReaderEnds
<1>5. QED BY <1>3, <1>4

\* exit() in a copy of the shell: only a reader moves the offset, and then all
\* lines before it are past.
LEMMA ExitInOrder ==
  ASSUME IInv, IInv', ~failed, kind # "pipe", lost \subseteq lost', Chain, NEW p \in Procs, NEW in,
         NEW out \in Pipes \cup {Outside}, NEW s \in 0 .. 255,
         Exit(p, in, out, s), \A x \in Procs : ps[x].parent # p, Reader(p) <=> in = Outside
  PROVE  Chain'
<1> DEFINE note == [n |-> 0, cmds |-> <<"missing">>]
<1>1. CASE Killed(p, in) BY <1>1, KilledInOrder
<1>2. ASSUME ~Killed(p, in)
      PROVE  /\ ps' = Ended(p, s) /\ UNCHANGED <<world, failed, times>>
             /\ off' = IF kind = "file" /\ in = Outside /\ Len(ps[p].inbuf) <= off
                         THEN off - Len(ps[p].inbuf) ELSE off
             /\ text' = [text EXCEPT ![out] = Append(@, note)] \/ text' = text
  BY <1>2 DEF Exit
<1>3. CASE ~Killed(p, in)
  <2>1. /\ ps' = Ended(p, s) /\ UNCHANGED <<world, times>> /\ ~failed'
        /\ off' = IF kind = "file" /\ in = Outside /\ Len(ps[p].inbuf) <= off
                    THEN off - Len(ps[p].inbuf) ELSE off
    BY <1>2, <1>3
  <2>2. Texts'
    <3>1. CASE text' = [text EXCEPT ![out] = Append(@, note)] BY <3>1, AppendedText DEF Chain
    <3>2. CASE text' = text BY <3>2 DEF Chain, Texts
    <3>3. QED BY <1>2, <1>3, <3>1, <3>2
  <2>3. CASE ~Reader(p)
    <3>1. off' = off BY <2>1, <2>3
    <3>2. QED BY <2>1, <2>2, <2>3, <3>1, OtherEnds
  <2>4. CASE Reader(p)
    <3>1. Active(p) BY <2>4 DEF Active
    <3>2. PICK k \in Nat : Known(p, k) /\ (AllPast \/ off = k + Len(ps[p].inbuf))
      BY <3>1 DEF Chain, Covers
    <3>3. /\ Len(ps[p].inbuf) \in Nat /\ off \in Nat
      BY ReadTypes
    <3>4. kind = "file" \/ Len(ps[p].inbuf) = 0
      <4>1. kind = "file" \/ kind = "tty" BY SharedHolds DEF Given
      <4>2. kind = "tty" => ps[p].inbuf = <<>> BY <2>4 DEF Chain, Buffers
      <4>3. QED BY <4>1, <4>2, EmptySeq
    <3> DEFINE n == Len(ps[p].inbuf)
    <3>5. off' = off - n \/ (off' = off /\ ~(n <= off /\ kind = "file")) BY <2>1, <2>4
    <3> HIDE DEF n
    <3>6. AllPast \/ off = k + n BY <3>2 DEF n
    <3>7. CASE AllPast
      <4>1. off' <= off BY <3>3, <3>5 DEF n
      <4>2. off' \in Nat BY DEF IInv, TypeOK
      <4>3. AllPast' BY <2>1, <3>3, <3>7, <4>1, <4>2 DEF AllPast, Past
      <4>4. QED BY <2>1, <2>2, <2>4, <4>3, ReaderEnds
    <3>8. CASE off = k + n
      <4>1. off' = k BY <3>3, <3>4, <3>5, <3>8 DEF n
      <4>2. AllPast' BY <2>1, <3>2, <4>1 DEF AllPast, Known, Past
      <4>3. QED BY <2>1, <2>2, <2>4, <4>2, ReaderEnds
    <3>9. QED BY <3>6, <3>7, <3>8
  <2>5. QED BY <2>3, <2>4
<1>4. QED BY <1>1, <1>3

LEMMA BrokenPipeInOrder ==
  ASSUME IInv, IInv', ~failed, lost \subseteq lost', Chain, NEW p \in Procs, BrokenPipe(p)
  PROVE  Chain'
<1>1. Killed(p, ps[p].in) /\ (ps[p].pc = "prompt" \/ AtBuiltIn(p)) BY DEF BrokenPipe
<1>2. \A x \in Procs : ps[x].parent # p BY <1>1, Childless DEF Shells
<1>3. Reader(p) <=> ps[p].in = Outside BY <1>1 DEF Reader, AtBuiltIn, Working
<1>4. QED BY <1>1, <1>2, <1>3, KilledInOrder

LEMMA EndOfInputInOrder ==
  ASSUME IInv, IInv', ~failed, kind # "pipe", lost \subseteq lost', Chain, NEW p \in Procs, EndOfInput(p)
  PROVE  Chain'
<1>1. Exit(p, ps[p].in, ps[p].out, 0) /\ ps[p].pc = "prompt" BY DEF EndOfInput
<1>2. ps[p].out \in Pipes \cup {Outside} BY ProcTypes, Fields
<1>3. \A x \in Procs : ps[x].parent # p BY <1>1, Childless DEF Shells
<1>4. Reader(p) <=> ps[p].in = Outside BY <1>1 DEF Reader
<1>5. QED BY <1>1, <1>2, <1>3, <1>4, ExitInOrder

LEMMA HeadExitInOrder ==
  ASSUME IInv, IInv', ~failed, kind # "pipe", lost \subseteq lost', Chain, NEW p \in Procs, HeadExit(p)
  PROVE  Chain'
<1>1. Exit(p, ps[p].in, ps[p].out, 0) /\ AtBuiltIn(p) /\ ps[p].pc = "fork"
  BY DEF HeadExit, AtBuiltIn
<1>2. ps[p].out \in Pipes \cup {Outside} BY ProcTypes, Fields
<1>3. \A x \in Procs : ps[x].parent # p BY <1>1, Childless
<1>4. Reader(p) <=> ps[p].in = Outside BY <1>1 DEF Reader, Working
<1>5. QED BY <1>1, <1>2, <1>3, <1>4, ExitInOrder

LEMMA FinishInOrder ==
  ASSUME IInv, IInv', ~failed, lost \subseteq lost', Chain, NEW p \in Procs, Finish(p)
  PROVE  Chain'
<1>1. PICK s \in Statuses : ps' = Ended(p, s) BY DEF Finish
<1>2. s \in 0 .. 255 BY StatusAssumption
<1>3. ps[p].pc \in {"program", "said"} /\ UNCHANGED <<world, off, text, failed, times>> BY DEF Finish
<1>4. \A x \in Procs : ps[x].parent # p BY <1>3, Childless DEF Shells
<1>5. ~Reader(p) BY <1>3 DEF Reader, Working
<1>6. Texts' BY <1>3 DEF Chain, Texts
<1>7. QED BY <1>1, <1>2, <1>3, <1>4, <1>5, <1>6, OtherEnds

\* A shell moves on in its line, or leaves it.
LEMMA WorkInOrder ==
  ASSUME IInv, IInv', ~failed, ~failed', lost \subseteq lost', Chain, NEW p \in Procs, ps[p].pc \in Working,
         NEW r, ps' = [ps EXCEPT ![p] = r], UNCHANGED <<world, off, times>>, Texts',
         r.pc \in Working \cup {"prompt"}, r.parent = ps[p].parent,
         r.inbuf = ps[p].inbuf, r.in = ps[p].in
  PROVE  Chain'
<1>1. r.pc # "child" /\ r.pc \in Copying /\ ps[p].pc \in Copying BY DEF Copying, Working
<1>2. Reader(p) <=> ps[p].in = Outside BY DEF Reader
<1>3. QED BY <1>1, <1>2, OneStays

LEMMA LeavesInOrder ==
  ASSUME IInv, IInv', ~failed, lost \subseteq lost', Chain, NEW p \in Procs, HeadBuiltIn(p) \/ PipeFails(p)
  PROVE  Chain'
<1>1. /\ ps[p].pc \in Working /\ ps' = [ps EXCEPT ![p] = Back(ps[p])]
      /\ UNCHANGED <<world, off, text, failed, times>>
  BY DEF HeadBuiltIn, PipeFails, AtBuiltIn, Working
<1>2. /\ Back(ps[p]).pc = "prompt" /\ Back(ps[p]).inbuf = ps[p].inbuf /\ Back(ps[p]).in = ps[p].in
      /\ Back(ps[p]).parent = ps[p].parent
  BY ProcTypes, BackIsProc
<1>3. Texts' BY <1>1 DEF Chain, Texts
<1>4. QED BY <1>1, <1>2, <1>3, WorkInOrder

LEMMA MakePipesInOrder ==
  ASSUME IInv, IInv', ~failed, lost \subseteq lost', Chain, NEW p \in Procs, MakePipes(p)
  PROVE  Chain'
<1> DEFINE r == [ps[p] EXCEPT !.pc = "fork", !.fds = Between(p, ps[p].job)]
<1>1. ps[p] \in Proc /\ ps \in [Procs -> Proc] BY ProcTypes
<1>2. /\ ps[p].pc = "pipe" /\ ps' = [ps EXCEPT ![p] = r] /\ UNCHANGED <<world, off, times>>
      /\ failed' = failed
      /\ text' = [q \in Pipes |-> IF q[1] = p THEN <<>> ELSE text[q]]
  BY <1>1 DEF MakePipes
<1>3. r.pc = "fork" /\ r.parent = ps[p].parent BY <1>1 DEF Proc
<1>4. r.inbuf = ps[p].inbuf /\ r.in = ps[p].in BY <1>1 DEF Proc
<1> HIDE DEF r
<1>5. Texts'
  <2>1. Len(<<>>) = 0 BY EmptySeq
  <2>2. ASSUME NEW q \in Pipes, NEW i \in 1 .. Len(text'[q]) PROVE text'[q][i].n = 0
    <3>1. CASE q[1] = p
      <4>1. text'[q] = <<>> BY <1>2, <3>1
      <4>2. QED BY <2>1, <2>2, <4>1
    <3>2. CASE q[1] # p
      <4>1. text'[q] = text[q] BY <1>2, <3>2
      <4>2. QED BY <2>2, <4>1 DEF Chain, Texts
    <3>3. QED BY <3>1, <3>2
  <2>3. QED BY <2>2 DEF Texts
<1>6. QED BY <1>2, <1>3, <1>4, <1>5, WorkInOrder DEF Working

LEMMA CloseInOrder ==
  ASSUME IInv, IInv', ~failed, lost \subseteq lost', Chain, NEW p \in Procs, Close(p)
  PROVE  Chain'
<1> DEFINE r == [ps[p] EXCEPT !.pc = "wait", !.fds = {}]
<1>1. ps[p] \in Proc /\ ps \in [Procs -> Proc] BY ProcTypes
<1>2. /\ ps[p].pc = "close" /\ ps' = [ps EXCEPT ![p] = r]
      /\ UNCHANGED <<world, off, text, failed, times>>
  BY <1>1 DEF Close
<1>3. r.pc = "wait" /\ r.parent = ps[p].parent BY <1>1 DEF Proc
<1>4. r.inbuf = ps[p].inbuf /\ r.in = ps[p].in BY <1>1 DEF Proc
<1> HIDE DEF r
<1>5. Texts' BY <1>2 DEF Chain, Texts
<1>6. QED BY <1>2, <1>3, <1>4, <1>5, WorkInOrder DEF Working

LEMMA SpeakInOrder ==
  ASSUME IInv, IInv', ~failed, lost \subseteq lost', Chain, NEW c \in Procs, Speak(c)
  PROVE  Chain'
<1> DEFINE r == [ps[c] EXCEPT !.pc = "said"]
           out == ps[c].out
<1>1. ps[c] \in Proc /\ ps \in [Procs -> Proc] BY ProcTypes
<1>2. PICK l \in Echo : text' = [text EXCEPT ![out] = Append(@, [n |-> 0, cmds |-> l])]
  BY DEF Speak
<1>3. /\ ps[c].pc = "program" /\ ps' = [ps EXCEPT ![c] = r] /\ out # Outside
      /\ UNCHANGED <<world, off, failed, times>>
  BY <1>1 DEF Speak
<1>4. r.pc = "said" /\ r.parent = ps[c].parent BY <1>1 DEF Proc
<1>5. ~Reader(c) BY <1>3 DEF Reader, Working
<1> HIDE DEF r
<1>6. Texts' BY <1>2, AppendedText DEF Chain
<1>7. r.pc \notin Copying BY <1>4 DEF Copying, Working
<1>8. QED BY <1>3, <1>4, <1>5, <1>6, <1>7, OneStays
LEMMA WaitInOrder ==
  ASSUME IInv, IInv', ~failed, lost \subseteq lost', Chain, NEW p \in Procs, Wait(p)
  PROVE  Chain'
<1>1. PICK c \in Procs \ {1, p} :
        /\ ps[c].pc = "zombie" /\ ps'[c] = Free
        /\ \A x \in Procs \ {p, c} : ps'[x] = ps[x]
        /\ ps'[p].parent = ps[p].parent /\ ps'[p].inbuf = ps[p].inbuf /\ ps'[p].in = ps[p].in
        /\ ps'[p].pc \in {"prompt", "wait"}
  <2>1. \E c \in Procs \ {1, p} :
          /\ ps[c].pc = "zombie" /\ ps'[c] = Free
          /\ \A x \in Procs \ {p, c} : ps'[x] = ps[x]
          /\ ps'[p].parent = ps[p].parent /\ ps'[p].inbuf = ps[p].inbuf /\ ps'[p].in = ps[p].in
          /\ ps'[p].pc \in {"prompt", "wait"}
    BY WaitEffect
  <2>2. QED BY <2>1
<1>2. ps[p].pc = "wait" /\ UNCHANGED <<world, off, text, failed, times>> BY DEF Wait
<1>3. ps'[c].pc = "free" BY <1>1 DEF Free
<1>4. Reader(p)' <=> Reader(p) BY <1>1, <1>2 DEF Reader, Working
<1>5. ~Reader(c) /\ ~Reader(c)' BY <1>1, <1>3 DEF Reader, Working
<1>6. \A x \in Procs : Reader(x)' <=> Reader(x) BY <1>1, <1>4, <1>5 DEF Reader
<1>7. \A x \in Procs : Reader(x) => ps'[x].parent = ps[x].parent BY <1>1, <1>5
<1>8. ASSUME NEW x \in Procs, ps'[x].pc \in Copying PROVE From(x, x)
  <2>1. x # c BY <1>3, <1>8 DEF Copying, Working
  <2>2. CASE x = p BY <1>1, <1>2, <1>4, <2>2 DEF From, Copying, Working
  <2>3. CASE x # p
    <3>1. ps'[x] = ps[x] BY <1>1, <2>1, <2>3
    <3>2. QED BY <1>6, <1>8, <3>1 DEF From
  <2>4. QED BY <2>2, <2>3
<1>9. \A x \in Procs : ps'[x].pc = "child" => ps[x].pc = "child" /\ ps'[x].parent \in {0, ps[x].parent}
  BY <1>1, <1>3
<1>10. Texts' BY <1>2 DEF Chain, Texts
<1>11. QED BY <1>2, <1>6, <1>7, <1>8, <1>9, <1>10, StayInOrder

\* fork() for the first command makes the one reader that can act.
LEMMA ForkInOrder ==
  ASSUME IInv, IInv', ~failed, lost \subseteq lost', Chain, NEW p \in Procs, Fork(p)
  PROVE  Chain'
<1>1. PICK c \in Procs \ {1, p} :
        /\ ps[c].pc = "free" /\ \A x \in Procs : ps[x].parent # c
        /\ ps'[p].parent = ps[p].parent /\ ps'[p].inbuf = ps[p].inbuf /\ ps'[p].in = ps[p].in
        /\ ps'[p].pc \in {"fork", "close", "wait"}
        /\ ps'[c].pc = "child" /\ ps'[c].parent = p /\ ps'[c].idx = ps[p].idx
        /\ ps'[c].inbuf = ps[p].inbuf /\ ps'[c].in = ps[p].in
        /\ \A x \in Procs \ {p, c} : ps'[x] = ps[x]
  <2>1. \E c \in Procs \ {1, p} :
          /\ ps[c].pc = "free" /\ \A x \in Procs : ps[x].parent # c
          /\ ps'[p].parent = ps[p].parent /\ ps'[p].inbuf = ps[p].inbuf /\ ps'[p].in = ps[p].in
          /\ ps'[p].pc \in {"fork", "close", "wait"}
          /\ ps'[c].pc = "child" /\ ps'[c].parent = p /\ ps'[c].idx = ps[p].idx
          /\ ps'[c].inbuf = ps[p].inbuf /\ ps'[c].in = ps[p].in
          /\ \A x \in Procs \ {p, c} : ps'[x] = ps[x]
    BY ForkEffect
  <2>2. QED BY <2>1
<1>2. /\ ps[p].pc = "fork" /\ ps \in [Procs -> Proc] /\ Place(p)
      /\ UNCHANGED <<world, off, text, failed, times>>
  BY ProcTypes DEF Fork
<1>3. (Reader(p)' <=> ps[p].in = Outside) /\ (Reader(p) <=> ps[p].in = Outside)
  BY <1>1, <1>2 DEF Reader, Working
<1>4. Reader(c)' <=> ps[p].in = Outside /\ ps[p].idx = 1 BY <1>1 DEF Reader, Working
<1>5. ~Reader(c) BY <1>1 DEF Reader, Working
<1>6. \A x \in Procs \ {p, c} : Reader(x)' <=> Reader(x) BY <1>1 DEF Reader
<1>7. ASSUME NEW x \in Procs, ps'[x].pc \in Copying PROVE \E y \in Procs : From(x, y)
  <2>1. CASE x = p
    <3>1. From(x, p) BY <1>1, <1>2, <1>3, <2>1 DEF From, Copying, Working, Reader
    <3>2. QED BY <3>1
  <2>2. CASE x = c
    <3>1. From(x, p) BY <1>1, <1>2, <1>3, <1>4, <2>2 DEF From, Copying, Working, Reader
    <3>2. QED BY <3>1
  <2>3. CASE x \notin {p, c}
    <3>1. ps'[x] = ps[x] BY <1>1, <2>3
    <3>2. From(x, x) BY <1>6, <1>7, <2>3, <3>1 DEF From
    <3>3. QED BY <3>2
  <2>4. QED BY <2>1, <2>2, <2>3
<1>8. Buffers' BY <1>2, <1>7, BuffersKept DEF Chain
<1>9. Copies'
  <2>1. ASSUME NEW x \in Procs, ps'[x].pc = "child", ps'[x].parent # 0
        PROVE  ps'[ps'[x].parent].inbuf = ps'[x].inbuf
    <3>1. CASE x = c BY <1>1, <3>1
    <3>2. CASE x # c
      <4>1. x # p BY <1>1, <2>1
      <4>2. ps'[x] = ps[x] BY <1>1, <3>2, <4>1
      <4>3. ps[ps[x].parent].inbuf = ps[x].inbuf BY <2>1, <4>2 DEF Chain, Copies
      <4>4. ps[x].parent \in Procs \ {c} BY <1>1, <2>1, <4>2, ParentWaits
      <4>5. ps'[ps[x].parent].inbuf = ps[ps[x].parent].inbuf BY <1>1, <4>4
      <4>6. QED BY <4>2, <4>3, <4>5
    <3>3. QED BY <3>1, <3>2
  <2>2. QED BY <2>1 DEF Copies
<1>10. Texts' BY <1>2 DEF Chain, Texts
<1>11. ASSUME NEW x \in Procs, NEW k \in Nat, Known(x, k), AllPast \/ off = k + Len(ps[x].inbuf),
              NEW y \in Procs, ps'[y].inbuf = ps[x].inbuf
       PROVE  Covers(y)'
  <2>1. Known(y, k)' BY <1>2, <1>11, KnownKept
  <2>2. AllPast => AllPast' BY <1>2 DEF AllPast, Past
  <2>3. QED BY <1>2, <1>11, <2>1, <2>2 DEF Covers
<1>12. CASE Reader(c)'
  <2>1. Active(p)
    <3>1. Len(ps[p].kids) = 0 BY <1>2, <1>4, <1>12 DEF Place
    <3>2. ps[p].kids = <<>> BY <1>2, <3>1, Fields, EmptySeq
    <3>3. QED BY <1>3, <1>4, <1>12, <3>2, NoKids DEF Active
  <2>2. ASSUME NEW x \in Procs, Active(x)' PROVE x = c
    <3>1. SUFFICES ASSUME x # c PROVE FALSE OBVIOUS
    <3>2. x # p BY <1>1, <1>12, <2>2 DEF Active
    <3>3. Reader(x) BY <1>6, <2>2, <3>1, <3>2 DEF Active
    <3>4. ASSUME NEW y \in Procs, ps[y].parent = x, Reader(y) PROVE FALSE
      <4>1. y # c BY <1>5, <3>4
      <4>2. ps'[y].parent = x BY <1>1, <3>4, <4>1
      <4>3. Reader(y)' BY <1>3, <1>6, <3>4, <4>1
      <4>4. QED BY <2>2, <4>2, <4>3 DEF Active
    <3>5. Active(x) BY <3>3, <3>4 DEF Active
    <3>6. QED BY <2>1, <3>2, <3>5 DEF Chain, Alternate
  <2>3. Covers(c)'
    <3>1. PICK k \in Nat : Known(p, k) /\ (AllPast \/ off = k + Len(ps[p].inbuf))
      BY <2>1 DEF Chain, Covers
    <3>2. QED BY <1>1, <1>11, <3>1
  <2>4. Alternate' BY <2>2 DEF Alternate
  <2>5. QED BY <1>8, <1>9, <1>10, <2>2, <2>3, <2>4 DEF Chain
<1>13. CASE ~Reader(c)'
  <2>1. \A x \in Procs : Reader(x)' <=> Reader(x) BY <1>3, <1>5, <1>6, <1>13
  <2>2. \A x \in Procs : Reader(x) => ps'[x].parent = ps[x].parent BY <1>1, <1>5
  <2>3. \A x \in Procs : Active(x)' <=> Active(x) BY <2>1, <2>2, SameReaders
  <2>4. Alternate' BY <2>3 DEF Chain, Alternate
  <2>5. ASSUME NEW x \in Procs, Active(x)' PROVE Covers(x)'
    <3>1. PICK k \in Nat : Known(x, k) /\ (AllPast \/ off = k + Len(ps[x].inbuf))
      BY <2>3, <2>5 DEF Chain, Covers
    <3>2. x # c BY <1>13, <2>5 DEF Active
    <3>3. ps'[x].inbuf = ps[x].inbuf BY <1>1, <3>2
    <3>4. QED BY <1>11, <3>1, <3>3
  <2>6. QED BY <1>8, <1>9, <1>10, <2>4, <2>5 DEF Chain
<1>14. QED BY <1>12, <1>13

\* A child becomes a program: what it has read ahead is still with its parent.
LEMMA ExecInOrder ==
  ASSUME IInv, IInv', ~failed, ~failed', lost \subseteq lost', Chain, NEW c \in Procs, ps[c].pc = "child",
         NEW r, r.pc = "program", r.parent = ps[c].parent, ps' = [ps EXCEPT ![c] = r],
         UNCHANGED <<world, off, times>>, Texts'
  PROVE  Chain'
<1>1. ps \in [Procs -> Proc] BY ProcTypes
<1>2. ps'[c] = r /\ \A x \in Procs \ {c} : ps'[x] = ps[x] BY <1>1
<1>3. r.pc \notin Copying BY DEF Copying, Working
<1>4. CASE ~Reader(c) BY <1>3, <1>4, OneStays
<1>5. CASE Reader(c)
  <2>1. Active(c) BY <1>5, Childless DEF Active, Shells
  <2>2. ~Reader(c)' BY <1>2 DEF Reader, Working
  <2>3. \A x \in Procs : Reader(x)' <=> Reader(x) /\ x # c BY <1>2, <2>2 DEF Reader
  <2>4. \A x \in Procs : ps'[x].pc \in Copying => From(x, x) BY <1>2, <1>3, <2>3 DEF From
  <2>5. /\ \A x \in Procs \ {c} : ps'[x].parent = ps[x].parent
        /\ \A x \in Procs : ps'[x].pc = "child" =>
             ps[x].pc = "child" /\ ps'[x].parent \in {0, ps[x].parent}
    BY <1>2
  <2>6. QED BY <2>1, <2>3, <2>4, <2>5, LoseInOrder
<1>6. QED BY <1>4, <1>5

LEMMA SingleChildInOrder ==
  ASSUME IInv, IInv', ~failed, kind # "pipe", lost \subseteq lost', Chain, NEW c \in Procs, SingleChild(c)
  PROVE  Chain'
<1>1. ps[c].pc = "child" /\ Len(ps[c].job) = 1 BY DEF SingleChild
<1>2. /\ ps[c] \in Proc /\ ps[c].out \in Pipes \cup {Outside} /\ ps[c].idx \in 1 .. MaxCmds
      /\ Place(c)
  BY ProcTypes, Fields
<1>3. ps[c].idx = 1 BY <1>1, <1>2, SizeAssumption DEF Place, Shells
<1>4. \/ \E s \in {1, 2} : Exit(c, ps[c].in, ps[c].out, s)
      \/ Becomes(c, Program(ps[c]))
  BY DEF SingleChild
<1>5. ASSUME NEW s \in {1, 2}, Exit(c, ps[c].in, ps[c].out, s) PROVE Chain'
  <2>1. \A x \in Procs : ps[x].parent # c BY <1>1, Childless DEF Shells
  <2>2. Reader(c) <=> ps[c].in = Outside BY <1>1, <1>3 DEF Reader
  <2>3. QED BY <1>2, <1>5, <2>1, <2>2, ExitInOrder
<1>6. CASE Becomes(c, Program(ps[c]))
  <2>1. ps' = [ps EXCEPT ![c] = Program(ps[c])] /\ UNCHANGED <<world, off, text, failed, times>>
    BY <1>6 DEF Becomes
  <2>2. Program(ps[c]).pc = "program" /\ Program(ps[c]).parent = ps[c].parent BY <1>2, ProgramIsProc
  <2>3. Texts' BY <2>1 DEF Chain, Texts
  <2>4. QED BY <1>1, <2>1, <2>2, <2>3, ExecInOrder
<1>7. QED BY <1>4, <1>5, <1>6

LEMMA PipedChildInOrder ==
  ASSUME IInv, IInv', ~failed, kind # "pipe", lost \subseteq lost', Chain, NEW c \in Procs, PipedChild(c)
  PROVE  Chain'
<1> DEFINE me    == ps[c]
           owner == (CHOOSE e \in me.fds : TRUE)[1][1]
           in    == IF me.idx > 1 THEN <<owner, me.idx - 1>> ELSE me.in
           out   == IF me.idx < Len(me.job) THEN <<owner, me.idx>> ELSE me.out
           name  == me.job[me.idx]
<1>1. ps[c].pc = "child" /\ Len(ps[c].job) > 1 BY DEF PipedChild
<1>2. me \in Proc /\ me.out \in Pipes \cup {Outside} /\ me.idx \in 1 .. MaxCmds
  BY ProcTypes, Fields
<1>3. \/ me.idx = 1 /\ Exit(c, me.in, me.out, 1)
      \/ Exit(c, in, me.out, 1)
      \/ Becomes(c, [Program(me) EXCEPT !.in = in, !.out = out])
      \/ Becomes(c, [Back(me) EXCEPT !.in = in, !.out = out])
  BY DEF PipedChild
<1>4. /\ me.idx = 1 => in = me.in
      /\ me.idx # 1 => in # Outside
  <2>1. me.idx # 1 => me.idx > 1 /\ me.idx - 1 # 0 BY <1>2, SizeAssumption
  <2>2. ASSUME me.idx # 1 PROVE in # Outside
    <3>1. in = <<owner, me.idx - 1>> BY <2>1, <2>2
    <3>2. QED BY <2>1, <2>2, <3>1 DEF Outside
  <2>3. QED BY <2>2
<1>5. Reader(c) <=> in = Outside BY <1>1, <1>4 DEF Reader, Working
<1>6. Reader(c) => me.idx = 1 BY <1>1 DEF Reader, Working
<1>7. \A x \in Procs : ps[x].parent # c BY <1>1, Childless DEF Shells
<1> HIDE DEF in, out
<1>8. CASE me.idx = 1 /\ Exit(c, me.in, me.out, 1) BY <1>2, <1>4, <1>5, <1>7, <1>8, ExitInOrder
<1>9. CASE Exit(c, in, me.out, 1) BY <1>2, <1>5, <1>7, <1>9, ExitInOrder
<1>10. ASSUME Becomes(c, [Program(me) EXCEPT !.in = in, !.out = out]) PROVE Chain'
  <2> DEFINE b == Program(me)
             r == [b EXCEPT !.in = in, !.out = out]
  <2>1. ps' = [ps EXCEPT ![c] = r] /\ UNCHANGED <<world, off, text, failed, times>>
    BY <1>10 DEF Becomes
  <2>2. b \in Proc /\ b.pc = "program" /\ b.parent = me.parent BY <1>2, ProgramIsProc
  <2> HIDE DEF b
  <2>3. r.pc = "program" /\ r.parent = me.parent BY <2>2 DEF Proc
  <2> HIDE DEF r
  <2>4. Texts' BY <2>1 DEF Chain, Texts
  <2>5. QED BY <1>1, <2>1, <2>3, <2>4, ExecInOrder
<1>11. ASSUME Becomes(c, [Back(me) EXCEPT !.in = in, !.out = out]) PROVE Chain'
  <2> DEFINE b == Back(me)
             r == [b EXCEPT !.in = in, !.out = out]
  <2>1. ps' = [ps EXCEPT ![c] = r] /\ UNCHANGED <<world, off, text, failed, times>>
    BY <1>11 DEF Becomes
  <2>2. b \in Proc /\ b.pc = "prompt" /\ b.parent = me.parent /\ b.inbuf = me.inbuf
    BY <1>2, BackIsProc
  <2> HIDE DEF b
  <2>3. r.pc = "prompt" /\ r.parent = me.parent BY <2>2 DEF Proc
  <2>4. r.inbuf = me.inbuf BY <2>2 DEF Proc
  <2>5. r.in = in BY <2>2 DEF Proc
  <2> HIDE DEF r
  <2>6. Texts' BY <2>1 DEF Chain, Texts
  <2>7. "prompt" \in Copying /\ me.pc \in Copying BY <1>1 DEF Copying
  <2>8. r.in = me.in \/ r.in # Outside BY <1>4, <2>5
  <2>9. QED BY <1>5, <2>1, <2>3, <2>4, <2>5, <2>6, <2>7, <2>8, OneStays
<1>12. QED BY <1>3, <1>8, <1>9, <1>10, <1>11
\* A shell reads from its pipe, or takes what it has read from there.
LEMMA TakesEcho ==
  ASSUME IInv, Texts, NEW p \in Procs, ReadLine(p),
         IF ps[p].inbuf = <<>> THEN ps[p].in # Outside ELSE NoLines(p)
  PROVE  /\ UNCHANGED <<world, off, times>>
         /\ NoLines(p)' /\ Len(ps'[p].inbuf) \in Nat
         /\ ps'[p].in = ps[p].in /\ ps'[p].parent = ps[p].parent
         /\ ps'[p].pc \in {"prompt", "fork", "pipe"} /\ ps'[p].idx = ps[p].idx
         /\ \A x \in Procs \ {p} : ps'[x] = ps[x]
<1> DEFINE fresh == ps[p].inbuf = <<>>
           got   == IF fresh THEN Available(p) ELSE ps[p].inbuf
           cmds  == Head(got).cmds
           n     == Head(got).n
           to    == CASE Len(cmds) = 0 -> "prompt" [] Len(cmds) = 1 -> "fork" [] OTHER -> "pipe"
           r     == [ps[p] EXCEPT !.inbuf = Tail(got), !.job = cmds, !.pc = to]
<1>1. ps[p] \in Proc /\ ps \in [Procs -> Proc] BY ProcTypes
<1>2. /\ got # <<>> /\ ps' = [ps EXCEPT ![p] = r]
      /\ times' = IF n = 0 \/ times[n] = 2 THEN times ELSE [times EXCEPT ![n] = @ + 1]
      /\ off' = IF fresh /\ ps[p].in = Outside THEN off + Len(got) ELSE off
      /\ UNCHANGED world
  <2>1. /\ got # <<>>
        /\ ps' = [ps EXCEPT ![p].inbuf = Tail(got), ![p].job = cmds, ![p].pc = to]
        /\ times' = IF n = 0 \/ times[n] = 2 THEN times ELSE [times EXCEPT ![n] = @ + 1]
        /\ off' = IF fresh /\ ps[p].in = Outside THEN off + Len(got) ELSE off
        /\ UNCHANGED world
    BY Zenon DEF ReadLine
  <2> HIDE DEF cmds, got, to, n
  <2>2. ps' = [ps EXCEPT ![p] = r] BY <1>1, <2>1
  <2>3. QED BY <2>1, <2>2
<1>3. got \in Seq(Item) BY <1>1, AvailableIsLines, Fields
<1>4. \A i \in 1 .. Len(got) : got[i].n = 0
  <2>1. CASE ps[p].inbuf # <<>> BY <2>1 DEF NoLines
  <2>2. CASE ps[p].inbuf = <<>>
    <3>1. ps[p].in \in Pipes BY <1>1, <2>2, Fields
    <3>2. got = text[ps[p].in] BY <2>2 DEF Available
    <3>3. QED BY <3>1, <3>2 DEF Texts
  <2>3. QED BY <2>1, <2>2
<1>5. off' = off BY <1>2
<1>6. to \in {"prompt", "fork", "pipe"} OBVIOUS
<1> HIDE DEF got, to, cmds
<1>7. /\ Len(got) \in Nat /\ Len(got) >= 1 /\ Head(got) = got[1] BY <1>2, <1>3, EmptySeq
<1>8. n = 0 BY <1>4, <1>7
<1>9. /\ Tail(got) \in Seq(Item) /\ Len(Tail(got)) = Len(got) - 1
      /\ \A i \in 1 .. Len(Tail(got)) : Tail(got)[i] = got[i + 1]
  BY <1>2, <1>3, HeadTailProperties
<1>10. \A i \in 1 .. Len(Tail(got)) : Tail(got)[i].n = 0
  <2>1. ASSUME NEW i \in 1 .. Len(Tail(got)) PROVE i + 1 \in 1 .. Len(got) BY <1>7, <1>9
  <2>2. QED BY <1>4, <1>9, <2>1
<1>11. Len(Tail(got)) \in Nat BY <1>7, <1>9
<1>12. times' = times BY <1>2, <1>8
<1> HIDE DEF n
<1>13. r.pc = to /\ r.idx = ps[p].idx /\ r.parent = ps[p].parent BY <1>1 DEF Proc
<1>14. r.inbuf = Tail(got) /\ r.in = ps[p].in BY <1>1 DEF Proc
<1> HIDE DEF r
<1>15. ps'[p] = r /\ \A x \in Procs \ {p} : ps'[x] = ps[x] BY <1>1, <1>2
<1>16. NoLines(p)' BY <1>10, <1>14, <1>15 DEF NoLines
<1>17. QED BY <1>2, <1>5, <1>6, <1>11, <1>12, <1>13, <1>14, <1>15, <1>16

\* What is left to show of the order after a line has been taken: the reader that
\* could act still can, nobody else has read, and no line is un-taken.
LEMMA TakenInOrder ==
  ASSUME IInv, IInv', ~failed, ~failed', lost \subseteq lost', Chain, UNCHANGED world, NEW p \in Procs,
         ps[p].pc = "prompt", ps'[p].pc \in {"prompt", "fork", "pipe"},
         ps'[p].in = ps[p].in, ps'[p].parent = ps[p].parent,
         \A x \in Procs \ {p} : ps'[x] = ps[x],
         \A m \in 1 .. Len(input) : times[m] > 0 => times'[m] > 0,
         Texts', Holds(p)', Reader(p) /\ kind = "tty" => ps'[p].inbuf = <<>>,
         IF Reader(p) THEN Covers(p)' ELSE off' = off
  PROVE  Chain'
<1>1. Reader(p)' <=> Reader(p) BY DEF Reader, Working
<1>2. \A x \in Procs : Reader(x)' <=> Reader(x) BY <1>1 DEF Reader
<1>3. \A x \in Procs : ps'[x].parent = ps[x].parent OBVIOUS
<1>4. \A x \in Procs : Active(x)' <=> Active(x) BY <1>2, <1>3, SameReaders
<1>5. Alternate' BY <1>4 DEF Chain, Alternate
<1>6. input' = input /\ kind' = kind BY ScriptKept
<1>7. /\ Len(input) \in Nat /\ off \in 0 .. Len(input) BY ReadTypes
<1>8. ASSUME NEW x \in Procs \ {p}, NEW k \in Nat, Known(x, k) PROVE Known(x, k)'
  <2>1. Len(ps[x].inbuf) \in Nat BY ReadTypes
  <2>2. k + Len(ps[x].inbuf) <= Len(input) BY <1>8 DEF Known, Follows
  <2>3. \A m \in 1 .. k : m \in 1 .. Len(input)
    <3> DEFINE n == Len(ps[x].inbuf)
    <3>1. k + n <= Len(input) /\ n \in Nat BY <2>1, <2>2
    <3> HIDE DEF n
    <3>2. QED BY <1>7, <3>1
  <2>4. Follows(x, k)' BY <1>6, <1>8 DEF Known, Follows
  <2>5. \A m \in 1 .. k : Past(m)' BY <1>8, <2>3 DEF Known, Past
  <2>6. QED BY <2>4, <2>5 DEF Known
<1>9. Buffers'
  <2>1. ASSUME NEW x \in Procs
        PROVE  /\ ps'[x].pc \in Copying => Holds(x)'
               /\ Reader(x)' /\ kind = "tty" => ps'[x].inbuf = <<>>
    <3>1. CASE x = p BY <1>1, <3>1
    <3>2. CASE x # p
      <4>1. ps'[x] = ps[x] BY <3>2
      <4>2. Reader(x) /\ kind = "tty" => ps[x].inbuf = <<>> BY DEF Chain, Buffers
      <4>3. ps[x].pc \in Copying => Holds(x) BY DEF Chain, Buffers
      <4>4. (\E k \in Nat : Known(x, k)) => (\E k \in Nat : Known(x, k)') BY <1>8, <3>2
      <4>5. NoLines(x) => NoLines(x)' BY <4>1 DEF NoLines
      <4>6. Holds(x) => Holds(x)' BY <4>1, <4>4, <4>5 DEF Holds
      <4>7. QED BY <1>2, <4>1, <4>2, <4>3, <4>6
    <3>3. QED BY <3>1, <3>2
  <2>2. QED BY <1>6, <2>1 DEF Buffers
<1>10. Copies'
  <2>1. ASSUME NEW x \in Procs, ps'[x].pc = "child", ps'[x].parent # 0
        PROVE  ps'[ps'[x].parent].inbuf = ps'[x].inbuf
    <3>1. x # p /\ ps'[x] = ps[x] BY <2>1
    <3>2. ps[ps[x].parent].inbuf = ps[x].inbuf BY <2>1, <3>1 DEF Chain, Copies
    <3>3. ps[x].parent \in Procs \ {p} BY <2>1, <3>1, ParentWaits DEF Shells
    <3>4. QED BY <3>1, <3>2, <3>3
  <2>2. QED BY <2>1 DEF Copies
<1>11. ASSUME NEW x \in Procs, Active(x)' PROVE Covers(x)'
  <2>1. CASE Reader(p)
    <3>1. Active(p) BY <2>1, Childless DEF Active, Shells
    <3>2. x = p BY <1>4, <1>11, <3>1 DEF Chain, Alternate
    <3>3. QED BY <2>1, <3>2
  <2>2. CASE ~Reader(p)
    <3>1. x # p /\ ps'[x] = ps[x] BY <1>4, <1>11, <2>2 DEF Active
    <3>2. PICK k \in Nat : Known(x, k) /\ (AllPast \/ off = k + Len(ps[x].inbuf))
      BY <1>4, <1>11 DEF Chain, Covers
    <3>3. Known(x, k)' BY <1>8, <3>1, <3>2
    <3>4. off' = off BY <2>2
    <3>5. AllPast => AllPast' BY <1>7, <3>4 DEF AllPast, Past
    <3>6. QED BY <3>1, <3>2, <3>3, <3>4, <3>5 DEF Covers
  <2>3. QED BY <2>1, <2>2
<1>12. QED BY <1>5, <1>9, <1>10, <1>11 DEF Chain
\* A shell takes the line after those that have been taken, or one of a pipe.
LEMMA TakesInOrder ==
  ASSUME IInv, ~failed, Chain, NEW p \in Procs, ReadLine(p)
  PROVE  \/ IF ps[p].inbuf = <<>> THEN ps[p].in # Outside ELSE NoLines(p)
         \/ /\ ps[p].in = Outside \/ ps[p].inbuf # <<>>
            /\ \E k \in Nat :
                 /\ Follows(p, k)
                 /\ \A m \in 1 .. (IF ps[p].inbuf = <<>> THEN off ELSE k) : Past(m)
                 /\ ps[p].in = Outside => AllPast \/ off = k + Len(ps[p].inbuf)
<1>1. ps[p].pc = "prompt" BY DEF ReadLine
<1>2. CASE ps[p].in = Outside
  <2>1. Active(p) BY <1>1, <1>2, Childless DEF Active, Reader, Shells
  <2>2. PICK k \in Nat : Known(p, k) /\ (AllPast \/ off = k + Len(ps[p].inbuf))
    BY <2>1 DEF Chain, Covers
  <2>3. ps[p].inbuf = <<>> => \A m \in 1 .. off : Past(m)
    <3>1. CASE AllPast BY <3>1 DEF AllPast
    <3>2. CASE off = k + Len(ps[p].inbuf)
      <4>1. ps[p].inbuf = <<>> => off = k BY <3>2, EmptySeq
      <4>2. QED BY <2>2, <4>1 DEF Known
    <3>3. QED BY <2>2, <3>1, <3>2
  <2>4. QED BY <1>2, <2>2, <2>3 DEF Known
<1>3. CASE ps[p].in # Outside
  <2>1. (\E k \in Nat : Known(p, k)) \/ NoLines(p) BY <1>1 DEF Chain, Buffers, Holds, Copying
  <2>2. QED BY <1>3, <2>1 DEF Known
<1>4. QED BY <1>2, <1>3

LEMMA ReadLineInOrder ==
  ASSUME IInv, IInv', ~failed, lost \subseteq lost', Chain, NEW p \in Procs, ReadLine(p)
  PROVE  /\ Chain'
         /\ \A n \in DOMAIN input : times'[n] > times[n] => \A m \in 1 .. n - 1 : Past(m)
<1>1. ps[p].pc = "prompt" /\ UNCHANGED <<world, failed>> BY DEF ReadLine
<1>2. /\ Len(input) \in Nat /\ DOMAIN input = 1 .. Len(input) /\ off \in 0 .. Len(input)
      /\ times \in [1 .. Len(input) -> 0 .. 2] /\ Len(ps[p].inbuf) \in Nat
  BY ReadTypes
<1>3. Texts'
  <2>1. text' = text \/ text' = [text EXCEPT ![ps[p].in] = <<>>] BY DEF ReadLine
  <2>2. text \in [Pipes -> Seq(Item)] BY SharedHolds DEF Shared
  <2>3. ASSUME NEW q \in Pipes, NEW i \in 1 .. Len(text'[q]) PROVE text'[q][i].n = 0
    <3>1. text'[q] = text[q] \/ text'[q] = <<>> BY <2>1, <2>2
    <3>2. text'[q] # <<>> BY <2>3, EmptySeq
    <3>3. QED BY <2>3, <3>1, <3>2 DEF Chain, Texts
  <2>4. QED BY <2>3 DEF Texts
<1>4. Reader(p) <=> ps[p].in = Outside BY <1>1 DEF Reader
<1>5. CASE IF ps[p].inbuf = <<>> THEN ps[p].in # Outside ELSE NoLines(p)
  <2>1. /\ UNCHANGED <<off, times>> /\ NoLines(p)' /\ Len(ps'[p].inbuf) \in Nat
        /\ ps'[p].in = ps[p].in /\ ps'[p].parent = ps[p].parent
        /\ ps'[p].pc \in {"prompt", "fork", "pipe"}
        /\ \A x \in Procs \ {p} : ps'[x] = ps[x]
    BY <1>5, TakesEcho DEF Chain
  <2>2. \A n \in DOMAIN input : ~(times'[n] > times[n]) BY <1>2, <2>1
  <2>3. CASE ps[p].in # Outside
    <3>1. Holds(p)' BY <2>1, <2>3 DEF Holds
    <3>2. QED BY <1>1, <1>2, <1>3, <1>4, <2>1, <2>2, <2>3, <3>1, TakenInOrder
  <2>4. CASE ps[p].in = Outside
    <3>1. PICK k \in Nat : Follows(p, k)
      BY <1>1, <2>4 DEF Chain, Buffers, Holds, Known, Copying
    <3>2. ps[p].inbuf # <<>> /\ NoLines(p) BY <1>5, <2>4
    <3>3. Len(ps[p].inbuf) # 0 BY <1>2, <3>2, ReadTypes, EmptySeq
    <3>4. 1 \in 1 .. Len(ps[p].inbuf) BY <1>2, <3>3
    <3>5. ps[p].inbuf[1] = [n |-> k + 1, cmds |-> input[k + 1]] BY <3>1, <3>4 DEF Follows
    <3>6. ps[p].inbuf[1].n = k + 1 BY <3>5
    <3>7. QED BY <3>2, <3>4, <3>6 DEF NoLines
  <2>5. QED BY <2>3, <2>4
<1>6. ASSUME ps[p].in = Outside \/ ps[p].inbuf # <<>>, NEW k \in Nat, Follows(p, k),
             \A m \in 1 .. (IF ps[p].inbuf = <<>> THEN off ELSE k) : Past(m),
             ps[p].in = Outside => AllPast \/ off = k + Len(ps[p].inbuf)
      PROVE  /\ Chain'
             /\ \A n \in DOMAIN input : times'[n] > times[n] => \A m \in 1 .. n - 1 : Past(m)
  <2>1. PICK from \in Nat :
          /\ from = IF ps[p].inbuf = <<>> THEN off ELSE k
          /\ from + 1 \in 1 .. Len(input) /\ input' = input
          /\ times' = IF times[from + 1] = 2 THEN times
                      ELSE [times EXCEPT ![from + 1] = times[from + 1] + 1]
          /\ Follows(p, from + 1)'
          /\ Len(ps'[p].inbuf) \in Nat
          /\ ps[p].inbuf = <<>> => off' = from + 1 + Len(ps'[p].inbuf)
          /\ ps[p].inbuf = <<>> /\ kind = "tty" => ps'[p].inbuf = <<>>
          /\ ps[p].inbuf # <<>> => off' = off /\ Len(ps[p].inbuf) = Len(ps'[p].inbuf) + 1
          /\ ps'[p].in = ps[p].in /\ ps'[p].job = input[from + 1] /\ ps'[p].idx = ps[p].idx
          /\ ps'[p].parent = ps[p].parent /\ ps'[p].pc \in {"prompt", "fork", "pipe"}
          /\ \A x \in Procs \ {p} : ps'[x] = ps[x]
    BY <1>6, TakesNext
  <2>2. \A m \in 1 .. from : Past(m) BY <1>6, <2>1
  <2>3. /\ \A m \in 1 .. Len(input) : m # from + 1 => times'[m] = times[m]
        /\ times'[from + 1] = IF times[from + 1] = 2 THEN 2 ELSE times[from + 1] + 1
        /\ times[from + 1] \in 0 .. 2
    BY <1>2, <2>1
  <2>4. times'[from + 1] > 0 BY <2>3
  <2>5. ASSUME NEW n \in DOMAIN input, times'[n] > times[n], NEW m \in 1 .. n - 1
        PROVE  Past(m)
    <3>1. n = from + 1
      <4>1. n # from + 1 => times'[n] = times[n] /\ times[n] \in Int BY <1>2, <2>3
      <4>2. QED BY <2>5, <4>1
    <3>2. QED BY <2>1, <2>2, <2>5, <3>1
  <2>6. \A m \in 1 .. Len(input) : times[m] > 0 => times'[m] > 0 BY <2>3, <2>4
  <2>7. ASSUME NEW m \in 1 .. from + 1 PROVE Past(m)'
    <3>1. CASE m = from + 1 BY <2>4, <3>1 DEF Past
    <3>2. CASE m # from + 1
      <4>1. m \in 1 .. from /\ m \in 1 .. Len(input) BY <1>2, <2>1, <3>2
      <4>2. QED BY <2>2, <2>6, <4>1 DEF Past
    <3>3. QED BY <3>1, <3>2
  <2>8. Known(p, from + 1)' BY <2>1, <2>7 DEF Known
  <2>9. from + 1 \in Nat OBVIOUS
  <2>10. Holds(p)' BY <2>8, <2>9 DEF Holds
  <2>11. Reader(p) /\ kind = "tty" => ps'[p].inbuf = <<>>
    <3>1. Reader(p) /\ kind = "tty" => ps[p].inbuf = <<>> BY DEF Chain, Buffers
    <3>2. QED BY <2>1, <3>1
  <2>12. ASSUME Reader(p) PROVE Covers(p)'
    <3>1. CASE ps[p].inbuf = <<>>
      <4>1. off' = from + 1 + Len(ps'[p].inbuf) BY <2>1, <3>1
      <4>2. QED BY <2>8, <2>9, <4>1 DEF Covers
    <3>2. CASE ps[p].inbuf # <<>>
      <4>1. from = k /\ off' = off /\ Len(ps[p].inbuf) = Len(ps'[p].inbuf) + 1 BY <2>1, <3>2
      <4>2. CASE AllPast
        <5>1. AllPast' BY <1>2, <2>6, <4>1, <4>2 DEF AllPast, Past
        <5>2. QED BY <2>8, <2>9, <5>1 DEF Covers
      <4>3. CASE off = k + Len(ps[p].inbuf)
        <5> DEFINE was == Len(ps[p].inbuf)
                   now == Len(ps'[p].inbuf)
        <5>1. off = k + was /\ was = now + 1 /\ now \in Nat BY <2>1, <4>1, <4>3
        <5> HIDE DEF was, now
        <5>2. off = from + 1 + now BY <4>1, <5>1
        <5>3. off' = from + 1 + Len(ps'[p].inbuf) BY <4>1, <5>2 DEF now
        <5>4. QED BY <2>8, <2>9, <5>3 DEF Covers
      <4>4. QED BY <1>4, <1>6, <2>12, <4>2, <4>3
    <3>3. QED BY <3>1, <3>2
  <2>13. ~Reader(p) => off' = off BY <1>4, <1>6, <2>1
  <2>14. Chain'
    BY <1>1, <1>3, <2>1, <2>6, <2>10, <2>11, <2>12, <2>13, TakenInOrder
  <2>15. QED BY <2>5, <2>14
<1>7. QED BY <1>5, <1>6, TakesInOrder
LEMMA InitChain == Init => Chain
<1> SUFFICES ASSUME Init PROVE Chain OBVIOUS
<1> DEFINE shell == [Free EXCEPT !.pc = "prompt"]
<1>1. IInv BY InitInv
<1>2. 1 \in Procs BY SizeAssumption DEF Procs
<1>3. shell.pc = "prompt" /\ shell.in = Outside /\ shell.inbuf = <<>> BY DEF Free
<1>4. Free.pc = "free" BY DEF Free
<1> HIDE DEF shell
<1>5. ps[1] = shell /\ \A p \in Procs \ {1} : ps[p] = Free BY <1>2 DEF Init, shell
<1>6. \A p \in Procs : ps[p].pc \in Copying => p = 1 BY <1>4, <1>5 DEF Copying, Working
<1>7. \A p \in Procs : Reader(p) => p = 1 BY <1>6 DEF Reader, Copying
<1>8. Len(input) \in Nat BY <1>1, <1>2, ReadTypes
<1>9. off = 0 /\ Len(ps[1].inbuf) = 0 BY <1>3, <1>5, EmptySeq DEF Init
<1>10. Known(1, 0) BY <1>8, <1>9 DEF Known, Follows
<1>11. Covers(1) BY <1>9, <1>10 DEF Covers
<1>12. Holds(1) BY <1>10 DEF Holds
<1>13. Buffers BY <1>3, <1>5, <1>6, <1>7, <1>12 DEF Buffers
<1>14. Copies BY <1>3, <1>4, <1>5 DEF Copies
<1>15. Alternate BY <1>7 DEF Alternate, Active
<1>16. Texts
  <2>1. text = [q \in Pipes |-> <<>>] BY DEF Init
  <2>2. \A q \in Pipes : Len(text[q]) = 0 BY <2>1, EmptySeq
  <2>3. QED BY <2>2 DEF Texts
<1>17. QED BY <1>7, <1>11, <1>13, <1>14, <1>15, <1>16 DEF Chain, Active

LEMMA StutterInOrder ==
  ASSUME Chain, UNCHANGED vars
  PROVE  Chain'
<1>1. /\ input' = input /\ kind' = kind /\ off' = off /\ ps' = ps /\ text' = text /\ times' = times
      /\ lost' = lost
  BY DEF vars, world
<1>2. \A p \in Procs : Reader(p)' <=> Reader(p) BY <1>1 DEF Reader
<1>3. \A p \in Procs : Active(p)' <=> Active(p) BY <1>1, <1>2 DEF Active
<1>4. \A p \in Procs, k \in Nat : Known(p, k)' <=> Known(p, k) BY <1>1 DEF Known, Follows, Past
<1>5. \A p \in Procs : Holds(p)' <=> Holds(p) BY <1>1, <1>4 DEF Holds, NoLines
<1>6. \A p \in Procs : Covers(p)' <=> Covers(p) BY <1>1, <1>4 DEF Covers, AllPast, Past
<1>7. QED
  BY <1>1, <1>2, <1>3, <1>5, <1>6 DEF Chain, Texts, Buffers, Copies, Alternate

\* A fork() that has failed is not forgotten, nor a line that is lost.
HistoryStays == (failed => failed') /\ lost \subseteq lost'

LEMMA NextHistory == [Next]_vars => HistoryStays
<1> USE DEF HistoryStays
<1> SUFFICES ASSUME [Next]_vars PROVE HistoryStays OBVIOUS
<1>1. CASE UNCHANGED vars BY <1>1 DEF vars
<1>2. ASSUME NEW p \in Procs, NEW in, NEW out, NEW s, Exit(p, in, out, s) PROVE HistoryStays
  BY <1>2 DEF Exit, Killed
<1>3. ASSUME NEW p \in Procs, NEW r, Becomes(p, r) \/ Killed(p, r) PROVE HistoryStays
  BY <1>3 DEF Becomes, Killed
<1>4. ASSUME NEW p \in Procs, EndOfInput(p) \/ HeadExit(p) \/ SingleChild(p) \/ PipedChild(p)
      PROVE  HistoryStays
  BY <1>2, <1>3, <1>4 DEF EndOfInput, HeadExit, SingleChild, PipedChild
<1>5. ASSUME NEW p \in Procs, Step(p) \/ PipeFails(p) \/ ForkFails(p) \/ BrokenPipe(p) \/ Speak(p)
      PROVE  HistoryStays
  <2>1. CASE ReadLine(p) BY <2>1 DEF ReadLine
  <2>2. CASE MakePipes(p) BY <2>2 DEF MakePipes
  <2>3. CASE HeadBuiltIn(p) BY <2>3 DEF HeadBuiltIn
  <2>4. CASE Fork(p) BY <2>4 DEF Fork
  <2>5. CASE Close(p) \/ Wait(p) BY <2>5 DEF Close, Wait
  <2>6. CASE Finish(p) BY <2>6 DEF Finish
  <2>7. CASE PipeFails(p) \/ ForkFails(p) BY <2>7 DEF PipeFails, ForkFails
  <2>8. CASE Speak(p) BY <2>8 DEF Speak
  <2>9. CASE BrokenPipe(p) BY <1>3, <2>9 DEF BrokenPipe
  <2>10. QED BY <1>4, <1>5, <2>1, <2>2, <2>3, <2>4, <2>5, <2>6, <2>7, <2>8, <2>9 DEF Step
<1>6. QED BY <1>1, <1>5 DEF Next

LEMMA NextChain ==
  ASSUME IInv, IInv', ~failed, kind # "pipe", Chain, [Next]_vars, ~failed'
  PROVE  Chain'
<1> lost \subseteq lost' BY NextHistory DEF HistoryStays
<1>1. CASE UNCHANGED vars BY <1>1, StutterInOrder
<1>2. ASSUME NEW p \in Procs, Step(p) \/ PipeFails(p) \/ ForkFails(p) \/ BrokenPipe(p) \/ Speak(p)
      PROVE  Chain'
  <2>1. CASE ReadLine(p) BY <2>1, ReadLineInOrder
  <2>2. CASE EndOfInput(p) BY <2>2, EndOfInputInOrder
  <2>3. CASE MakePipes(p) BY <2>3, MakePipesInOrder
  <2>4. CASE HeadBuiltIn(p) \/ PipeFails(p) BY <2>4, LeavesInOrder
  <2>5. CASE HeadExit(p) BY <2>5, HeadExitInOrder
  <2>6. CASE Fork(p) BY <2>6, ForkInOrder
  <2>7. CASE Close(p) BY <2>7, CloseInOrder
  <2>8. CASE Wait(p) BY <2>8, WaitInOrder
  <2>9. CASE SingleChild(p) BY <2>9, SingleChildInOrder
  <2>10. CASE PipedChild(p) BY <2>10, PipedChildInOrder
  <2>11. CASE Finish(p) BY <2>11, FinishInOrder
  <2>12. CASE Speak(p) BY <2>12, SpeakInOrder
  <2>13. CASE ForkFails(p)
    <3>1. failed' = TRUE BY <2>13 DEF ForkFails
    <3>2. QED BY <3>1
  <2>14. CASE BrokenPipe(p) BY <2>14, BrokenPipeInOrder
  <2>15. QED
    BY <1>2, <2>1, <2>2, <2>3, <2>4, <2>5, <2>6, <2>7, <2>8, <2>9, <2>10, <2>11, <2>12, <2>13, <2>14
    DEF Step
<1>3. QED BY <1>1, <1>2 DEF Next

\* While no fork() has failed the shells that share a terminal or a file read in turn.
LEMMA ChainHolds == Spec => [](~failed /\ kind # "pipe" => Chain)
<1>1. Init => (~failed /\ kind # "pipe" => Chain) BY InitChain
<1>2. /\ IInv /\ IInv' /\ [Next]_vars
      /\ (~failed /\ kind # "pipe" => Chain)
      => (~failed /\ kind # "pipe" => Chain)'
  <2>1. [Next]_vars => kind' = kind BY WorldStays DEF world
  <2>2. QED BY <2>1, NextHistory, NextChain DEF HistoryStays
<1>3. QED BY <1>1, <1>2, Invariance, PTL DEF Spec

\* Only the command loop takes lines.
LEMMA OnlyReads == [Next]_vars => times' = times \/ \E p \in Procs : ReadLine(p)
<1> SUFFICES ASSUME [Next]_vars, \A p \in Procs : ~ReadLine(p) PROVE times' = times OBVIOUS
<1>1. CASE UNCHANGED vars BY <1>1 DEF vars
<1>2. ASSUME NEW p \in Procs, NEW in, NEW out, NEW s, Exit(p, in, out, s) PROVE times' = times
  BY <1>2 DEF Exit, Killed
<1>3. ASSUME NEW p \in Procs, NEW r, Becomes(p, r) \/ Killed(p, r) PROVE times' = times
  BY <1>3 DEF Becomes, Killed
<1>4. ASSUME NEW p \in Procs, EndOfInput(p) \/ HeadExit(p) \/ SingleChild(p) \/ PipedChild(p)
      PROVE  times' = times
  BY <1>2, <1>3, <1>4 DEF EndOfInput, HeadExit, SingleChild, PipedChild
<1>5. ASSUME NEW p \in Procs, Step(p) \/ PipeFails(p) \/ ForkFails(p) \/ BrokenPipe(p) \/ Speak(p)
      PROVE  times' = times
  <2>1. CASE MakePipes(p) BY <2>1 DEF MakePipes
  <2>2. CASE HeadBuiltIn(p) BY <2>2 DEF HeadBuiltIn
  <2>3. CASE Fork(p) BY <2>3 DEF Fork
  <2>4. CASE Close(p) \/ Wait(p) BY <2>4 DEF Close, Wait
  <2>5. CASE Finish(p) BY <2>5 DEF Finish
  <2>6. CASE PipeFails(p) \/ ForkFails(p) BY <2>6 DEF PipeFails, ForkFails
  <2>7. CASE Speak(p) BY <2>7 DEF Speak
  <2>8. CASE BrokenPipe(p) BY <1>3, <2>8 DEF BrokenPipe
  <2>9. QED BY <1>4, <1>5, <2>1, <2>2, <2>3, <2>4, <2>5, <2>6, <2>7, <2>8 DEF Step
<1>6. QED BY <1>1, <1>5 DEF Next

\* The one reader takes the line after those that it has taken.
LEMMA OneTakesInOrder ==
  ASSUME IInv, OneReader, NEW p \in Procs, ReadLine(p)
  PROVE  \A n \in DOMAIN input : times'[n] > times[n] => \A m \in 1 .. n - 1 : times[m] > 0
<1>1. p = 1 /\ ps[p].pc = "prompt" /\ ps[p].in = Outside BY DEF ReadLine, OneReader, Alone
<1>2. PICK k \in Nat : Taken(k) BY <1>1 DEF OneReader
<1>3. Follows(p, k) BY <1>1, <1>2 DEF Taken
<1>4. PICK from \in Nat :
        /\ from = IF ps[p].inbuf = <<>> THEN off ELSE k
        /\ from + 1 \in 1 .. Len(input) /\ input' = input
        /\ times' = IF times[from + 1] = 2 THEN times
                    ELSE [times EXCEPT ![from + 1] = times[from + 1] + 1]
        /\ Follows(p, from + 1)'
        /\ Len(ps'[p].inbuf) \in Nat
        /\ ps[p].inbuf = <<>> => off' = from + 1 + Len(ps'[p].inbuf)
        /\ ps[p].inbuf = <<>> /\ kind = "tty" => ps'[p].inbuf = <<>>
        /\ ps[p].inbuf # <<>> => off' = off /\ Len(ps[p].inbuf) = Len(ps'[p].inbuf) + 1
        /\ ps'[p].in = ps[p].in /\ ps'[p].job = input[from + 1] /\ ps'[p].idx = ps[p].idx
        /\ ps'[p].parent = ps[p].parent /\ ps'[p].pc \in {"prompt", "fork", "pipe"}
        /\ \A x \in Procs \ {p} : ps'[x] = ps[x]
  BY <1>1, <1>3, TakesNext
<1>5. /\ off \in Nat /\ times \in [1 .. Len(input) -> 0 .. 2] /\ DOMAIN input = 1 .. Len(input)
  BY ReadTypes
<1>6. from <= k
  <2>1. CASE ps[p].inbuf = <<>>
    <3>1. Len(ps[p].inbuf) = 0 BY <2>1, EmptySeq
    <3>2. off <= k BY <1>1, <1>2, <1>5, <3>1 DEF Taken
    <3>3. QED BY <1>4, <2>1, <3>2
  <2>2. CASE ps[p].inbuf # <<>> BY <1>4, <2>2
  <2>3. QED BY <2>1, <2>2
<1>7. ASSUME NEW n \in DOMAIN input, times'[n] > times[n], NEW m \in 1 .. n - 1
      PROVE  times[m] > 0
  <2>1. n = from + 1
    <3>1. n # from + 1 => times'[n] = times[n] /\ times[n] \in Int BY <1>4, <1>5
    <3>2. QED BY <1>7, <3>1
  <2>2. m \in 1 .. k BY <1>6, <1>7, <2>1
  <2>3. QED BY <1>2, <2>2 DEF Taken
<1>8. QED BY <1>7

\* No line is left out but those that a shell had read ahead when SIGPIPE killed
\* it: any other is taken before those behind it, when the copies of the shell
\* share a terminal or a file and no fork() has failed, and when there is no
\* second shell (dshlib.c:73-76, 306, 326, 524).
THEOREM LinesInOrder == Spec => NoLineSkipped
<1> DEFINE A == (kind # "pipe" /\ ~failed) \/ (\A l \in Lines : ~Doubles(l)) =>
                  \A n \in DOMAIN input : times'[n] > times[n] =>
                    \A m \in 1 .. n - 1 : times[m] > 0 \/ m \in lost
<1>1. /\ IInv /\ IInv' /\ [Next]_vars
      /\ ~failed /\ kind # "pipe" => Chain
      /\ Plain => OneReader
      => [A]_vars
  <2> SUFFICES ASSUME IInv, IInv', [Next]_vars, ~failed /\ kind # "pipe" => Chain,
                      Plain => OneReader, (kind # "pipe" /\ ~failed) \/ (\A l \in Lines : ~Doubles(l))
               PROVE  \A n \in DOMAIN input : times'[n] > times[n] =>
                        \A m \in 1 .. n - 1 : times[m] > 0 \/ m \in lost
    OBVIOUS
  <2>1. CASE times' = times
    <3>1. 1 \in Procs BY SizeAssumption DEF Procs
    <3>2. times \in [1 .. Len(input) -> 0 .. 2] /\ DOMAIN input = 1 .. Len(input) BY <3>1, ReadTypes
    <3>3. \A n \in DOMAIN input : times[n] \in Int BY <3>2
    <3>4. QED BY <2>1, <3>3
  <2>2. ASSUME NEW p \in Procs, ReadLine(p)
        PROVE  \A n \in DOMAIN input : times'[n] > times[n] =>
                 \A m \in 1 .. n - 1 : times[m] > 0 \/ m \in lost
    <3>1. CASE kind # "pipe" /\ ~failed
      <4>1. lost' = lost /\ failed' = failed BY <2>2 DEF ReadLine
      <4>2. QED BY <2>2, <3>1, <4>1, ReadLineInOrder DEF Past
    <3>2. CASE Plain BY <2>2, <3>2, OneTakesInOrder
    <3>3. QED BY <3>1, <3>2 DEF Plain
  <2>3. QED BY <2>1, <2>2, OnlyReads
<1> HIDE DEF A
<1>2. Spec => [][A]_vars BY <1>1, Invariance, ChainHolds, OneReaderHolds, PTL DEF Spec
<1>3. QED BY <1>2 DEF A, NoLineSkipped
=============================================================================
