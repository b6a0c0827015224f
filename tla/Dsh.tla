-------------------------------- MODULE Dsh --------------------------------
(***************************************************************************)
(* The local shell of assn-5/dshlib.c: the command loop, built-in          *)
(* commands, exec_cmd() and execute_pipeline(), as processes that share    *)
(* one input.  fork() copies the whole shell, with the lines that stdio    *)
(* has read ahead, so a child that does not become a program still has     *)
(* something of the shell in it.                                           *)
(*                                                                         *)
(* A command line is the sequence of its commands, and <<>> if there is    *)
(* nothing to run (blank, rejected by the parser, only bars).  A command   *)
(* is a built-in name, "prog" (execvp() succeeds), "missing" (it does      *)
(* not), or a program whose "<" or ">" file cannot be opened ("noin",      *)
(* "noout").                                                               *)
(***************************************************************************)
EXTENDS Integers, Sequences, FiniteSets

CONSTANTS MaxProcs,  \* processes that fit at once; fork() fails beyond
          MaxCmds,   \* commands in a pipeline, CMD_MAX in the code
          MaxText,   \* lines that a pipe may hold
          Block,     \* lines that one read() of stdio fetches ahead
          Scripts,   \* what the input may be: sequences of command lines
          Kinds,     \* what it comes from: "file", "pipe" or "tty"
          Echo,      \* lines that a program may write
          Statuses,  \* what programs exit with
          Faults     \* "nofork", "nopipe": the call may fail

Names    == {"exit", "cd", "rc", "prog", "missing", "noin", "noout"}
CmdLines == UNION {[1 .. n -> Names] : n \in 0 .. MaxCmds}

ASSUME SizeAssumption ==
  MaxProcs \in Nat \ {0} /\ MaxCmds \in Nat \ {0} /\ MaxText \in Nat \ {0} /\ Block \in Nat \ {0}
ASSUME ScriptsAssumption == Scripts \subseteq Seq(CmdLines) /\ Echo \subseteq CmdLines
ASSUME KindsAssumption == Kinds \subseteq {"file", "pipe", "tty"}
ASSUME StatusAssumption == Statuses \subseteq 0 .. 255
ASSUME FaultsAssumption == Faults \subseteq {"nofork", "nopipe"}

Procs   == 1 .. MaxProcs              \* 1 is the shell that the user started
Pipes   == Procs \X (1 .. MaxCmds - 1)
Ends    == Pipes \X {"r", "w"}
Outside == <<0, 0>>                   \* the input or the output of shell 1

VARIABLES input,    \* the lines of the input
          kind,     \* what it comes from
          off,      \* the offset of its open file, in lines
          ps,       \* the processes
          text,     \* the lines in each pipe
          failed,   \* history: some fork() has failed
          lost,     \* history: lines that a killed shell had read ahead
          times,    \* history: how often each line was taken, counted to 2
          last      \* history: how the last command of a shell's last
                    \* complete line has ended

world == <<input, kind>>
vars  == <<world, off, ps, text, failed, lost, times, last>>

\* A line in a read buffer: line n of the input, or 0 for one from a pipe.
Item == [n : Nat, cmds : CmdLines]

Free == [pc |-> "free", parent |-> 0, job |-> <<>>, idx |-> 1, kids |-> <<>>, inbuf |-> <<>>,
         in |-> Outside, out |-> Outside, fds |-> {}, code |-> 0, status |-> 0]

Proc == [pc     : {"free", "prompt", "pipe", "fork", "close", "wait", "child",
                   "program", "said", "zombie", "gone"},
         parent : 0 .. MaxProcs,
         job    : CmdLines,         \* clist, while it is executed
         idx    : 1 .. MaxCmds,     \* the loop counter i, from 1
         kids   : Seq(Procs),       \* pids
         inbuf  : Seq(Item),        \* what stdio has read ahead
         in     : Pipes \cup {Outside},
         out    : Pipes \cup {Outside},
         fds    : SUBSET Ends,      \* pipe_fds that are open
         code   : 0 .. 255,         \* last_command_code
         status : 0 .. 255]

TypeOK ==
  /\ off \in 0 .. Len(input)
  /\ ps \in [Procs -> Proc]
  /\ text \in [Pipes -> Seq(Item)]
  /\ \A q \in Pipes : Len(text[q]) <= MaxText
  /\ failed \in BOOLEAN
  /\ \A p \in Procs : Len(ps[p].kids) <= Len(ps[p].job)

Init ==
  /\ input \in Scripts
  /\ kind \in Kinds
  /\ off = 0
  /\ ps = [p \in Procs |-> IF p = 1 THEN [Free EXCEPT !.pc = "prompt"] ELSE Free]
  /\ text = [q \in Pipes |-> <<>>]
  /\ failed = FALSE
  /\ lost = {}
  /\ times = [n \in 1 .. Len(input) |-> 0]
  /\ last = [p \in Procs |-> 0]

-----------------------------------------------------------------------------
Alive(p) == ps[p].pc \notin {"free", "zombie", "gone"}

Frees == {p \in Procs : ps[p].pc = "free"}

\* Some process can write to pipe q.
HasWriter(q) == \E p \in Procs : Alive(p) /\ (ps[p].out = q \/ <<q, "w">> \in ps[p].fds)

\* out is a pipe, and no process can read from it.
Broken(out) ==
  /\ out # Outside
  /\ \A p \in Procs : Alive(p) => ps[p].in # out /\ <<out, "r">> \notin ps[p].fds

\* Some process holds an end of a pipe that p has made.
InUse(p) ==
  \E r \in Procs : /\ Alive(r)
                   /\ \/ ps[r].in[1] = p \/ ps[r].out[1] = p
                      \/ \E e \in ps[r].fds : e[1][1] = p

Lowest(S) == CHOOSE p \in S : \A r \in S : p <= r

\* The ends of the pipes for a job of p.
Between(p, job) == {e \in Ends : e[1][1] = p /\ e[1][2] < Len(job)}

\* A shell with state r after it has left execute_pipeline() and free_cmd_list().
Back(r) == [r EXCEPT !.pc = "prompt", !.job = <<>>, !.idx = 1, !.kids = <<>>, !.fds = {}]

\* What read() returns on the input of p: a line from a terminal, a block
\* from a file or a pipe.
Available(p) ==
  IF ps[p].in # Outside THEN text[ps[p].in]
  ELSE LET most == IF kind = "tty" THEN 1 ELSE Block
           rest == Len(input) - off
       IN  [i \in 1 .. (IF rest < most THEN rest ELSE most) |->
              [n |-> off + i, cmds |-> input[off + i]]]

\* The end of process p with status s: its children lose their parent, and
\* the parent of p can wait for it.
Ended(p, s) ==
  [r \in Procs |->
     IF r = p
       THEN CASE p = 1 -> [Free EXCEPT !.pc = "gone"]
              [] p # 1 /\ ps[p].parent = 0 -> Free
              [] OTHER -> [Free EXCEPT !.pc = "zombie", !.parent = ps[p].parent, !.status = s]
       ELSE IF ps[r].parent # p THEN ps[r]
            ELSE IF ps[r].pc = "zombie" THEN Free ELSE [ps[r] EXCEPT !.parent = 0]]

\* p was the last command of a line whose commands have all been started.
Noted(p, s) ==
  LET r == ps[p].parent IN
    IF r # 0 /\ ps[r].kids # <<>> /\ Len(ps[r].kids) = Len(ps[r].job) /\ p = ps[r].kids[Len(ps[r].kids)]
      THEN [last EXCEPT ![r] = s] ELSE last

\* Mutant of Exit: lines read ahead are not given back, as by _exit().
ExitKeeps(p, in, out, s) ==
  /\ ps' = Ended(p, s)
  /\ last' = Noted(p, s)
  /\ UNCHANGED <<world, off, text, failed, lost, times>>

\* A process is killed when it writes to a pipe that nobody reads (SIGPIPE): it
\* gives nothing back, and the exit code in its status is 0.
Killed(p, in) ==
  /\ ps' = Ended(p, 0)
  /\ last' = Noted(p, 0)
  /\ lost' = IF in = Outside THEN lost \cup {ps[p].inbuf[i].n : i \in DOMAIN ps[p].inbuf} ELSE lost
  /\ UNCHANGED <<world, off, text, failed, times>>

(***************************************************************************)
(* exit() in a process that is a copy of the shell, with its standard      *)
(* input and output as given.  stdio first writes what is left of the      *)
(* output, a prompt at least; if the line came from a terminal the prompt  *)
(* may be out already, and nothing left.  Then it gives back what it has   *)
(* read ahead: it moves the offset of a file, which all copies share, back *)
(* by that much (and by nothing if that would be before the start).        *)
(***************************************************************************)
Exit(p, in, out, s) ==
  \/ Broken(out) /\ Killed(p, in)
  \/ /\ Broken(out) => kind = "tty"
     /\ ps' = Ended(p, s)
     /\ last' = Noted(p, s)
     /\ off' = IF kind = "file" /\ in = Outside /\ Len(ps[p].inbuf) <= off
                 THEN off - Len(ps[p].inbuf) ELSE off
     /\ \/ /\ out # Outside /\ ~Broken(out) /\ Len(text[out]) < MaxText
           /\ text' = [text EXCEPT ![out] = Append(@, [n |-> 0, cmds |-> <<"missing">>])]
        \/ /\ (out # Outside /\ Len(text[out]) < MaxText) => kind = "tty"
           /\ UNCHANGED text
     /\ UNCHANGED <<world, failed, lost, times>>

-----------------------------------------------------------------------------
(***************************************************************************)
(* The shell.                                                              *)
(***************************************************************************)

\* exec_local_cmd_loop(): fgets() and what follows up to execute_pipeline().
ReadLine(p) ==
  /\ ps[p].pc = "prompt"
  /\ LET fresh == ps[p].inbuf = <<>>
         got   == IF fresh THEN Available(p) ELSE ps[p].inbuf
     IN  /\ got # <<>>
         /\ LET cmds == Head(got).cmds
                n    == Head(got).n
            IN  /\ ps' = [ps EXCEPT
                     ![p].inbuf = Tail(got),
                     ![p].job = cmds,
                     ![p].pc = CASE Len(cmds) = 0 -> "prompt"
                                 [] Len(cmds) = 1 -> "fork"
                                 [] OTHER -> "pipe"]
                /\ times' = IF n = 0 \/ times[n] = 2 THEN times ELSE [times EXCEPT ![n] = @ + 1]
         /\ off' = IF fresh /\ ps[p].in = Outside THEN off + Len(got) ELSE off
         /\ text' = IF fresh /\ ps[p].in # Outside THEN [text EXCEPT ![ps[p].in] = <<>>] ELSE text
  /\ UNCHANGED <<world, failed, lost, last>>

\* fgets() returns NULL: the loop, main() and the process end.
EndOfInput(p) ==
  /\ ps[p].pc = "prompt"
  /\ ps[p].inbuf = <<>> /\ Available(p) = <<>>
  /\ ps[p].in # Outside => ~HasWriter(ps[p].in)
  /\ Exit(p, ps[p].in, ps[p].out, 0)

\* pipe() for every two neighbours.  The bound: nothing of an earlier
\* pipeline of p is still running.
MakePipes(p) ==
  /\ ps[p].pc = "pipe"
  /\ ~InUse(p)
  /\ ps' = [ps EXCEPT ![p].pc = "fork", ![p].fds = Between(p, ps[p].job)]
  /\ text' = [q \in Pipes |-> IF q[1] = p THEN <<>> ELSE text[q]]
  /\ UNCHANGED <<world, off, failed, lost, times, last>>

\* One of the pipes cannot be made: those before it are closed.
PipeFails(p) ==
  /\ ps[p].pc = "pipe"
  /\ "nopipe" \in Faults
  /\ ps' = [ps EXCEPT ![p] = Back(@)]
  /\ UNCHANGED <<world, off, text, failed, lost, times, last>>

\* The shell is about to start a command that exec_built_in_cmd() knows.
AtBuiltIn(p) == ps[p].pc = "fork" /\ ps[p].idx = 1 /\ ps[p].job[1] \in {"exit", "cd", "rc"}

\* Mutant of HeadBuiltIn: it returns at once.
HeadBuiltInReturns(p) ==
  /\ AtBuiltIn(p) /\ ps[p].job[1] # "exit"
  /\ ps' = [ps EXCEPT ![p] = [Back(@) EXCEPT !.fds = ps[p].fds]]
  /\ UNCHANGED <<world, off, text, failed, lost, times, last>>

\* cd or rc, alone or at the head of a pipeline, which is then done.
HeadBuiltIn(p) ==
  /\ AtBuiltIn(p) /\ ps[p].job[1] # "exit"
  /\ ps' = [ps EXCEPT ![p] = Back(@)]
  /\ UNCHANGED <<world, off, text, failed, lost, times, last>>

\* exit, as the whole line or parsed, also at the head of a pipeline.
HeadExit(p) ==
  /\ AtBuiltIn(p) /\ ps[p].job[1] = "exit"
  /\ Exit(p, ps[p].in, ps[p].out, 0)

\* A copy of the shell writes a prompt, a message or the answer of rc before its
\* end, when stdio does not keep that back.
BrokenPipe(p) ==
  /\ ps[p].pc = "prompt" \/ AtBuiltIn(p)
  /\ Broken(ps[p].out)
  /\ Killed(p, ps[p].in)

\* Mutant of Fork: the loop goes on to i <= clist->num.
ForkOneMore(p) ==
  /\ ps[p].pc = "fork" /\ ~AtBuiltIn(p)
  /\ Frees # {}
  /\ LET c    == Lowest(Frees)
         n    == Len(ps[p].job)
         done == ps[p].idx = n + 1
     IN  /\ ps' = [ps EXCEPT
              ![p].kids = Append(@, c),
              ![p].idx = IF done THEN 1 ELSE @ + 1,
              ![p].pc = CASE ~done -> "fork" [] done /\ n > 1 -> "close" [] OTHER -> "wait",
              ![c] = [ps[p] EXCEPT !.pc = "child", !.parent = p, !.kids = <<>>]]
         /\ last' = [last EXCEPT ![c] = last[p]]
  /\ UNCHANGED <<world, off, text, failed, lost, times>>

\* fork(): a copy of the shell, with its buffers.
Fork(p) ==
  /\ ps[p].pc = "fork" /\ ~AtBuiltIn(p)
  /\ Frees # {}
  /\ LET c    == Lowest(Frees)
         n    == Len(ps[p].job)
         done == ps[p].idx = n
     IN  /\ ps' = [ps EXCEPT
              ![p].kids = Append(@, c),
              ![p].idx = IF done THEN 1 ELSE @ + 1,
              ![p].pc = CASE ~done -> "fork" [] done /\ n > 1 -> "close" [] OTHER -> "wait",
              ![c] = [ps[p] EXCEPT !.pc = "child", !.parent = p, !.kids = <<>>]]
         /\ last' = [last EXCEPT ![c] = last[p]]
  /\ UNCHANGED <<world, off, text, failed, lost, times>>

\* fork() fails: the pipes are closed, the children started are given up.
ForkFails(p) ==
  /\ ps[p].pc = "fork" /\ ~AtBuiltIn(p)
  /\ "nofork" \in Faults \/ Frees = {}
  /\ failed' = TRUE
  /\ ps' = [ps EXCEPT ![p] = Back(@)]
  /\ UNCHANGED <<world, off, text, lost, times, last>>

\* Mutant of Close: it is left out.
CloseNothing(p) ==
  /\ ps[p].pc = "close"
  /\ ps' = [ps EXCEPT ![p].pc = "wait"]
  /\ UNCHANGED <<world, off, text, failed, lost, times, last>>

\* The shell closes its pipe ends after the last fork().
Close(p) ==
  /\ ps[p].pc = "close"
  /\ ps' = [ps EXCEPT ![p].pc = "wait", ![p].fds = {}]
  /\ UNCHANGED <<world, off, text, failed, lost, times, last>>

\* Mutant of Wait: the status of the first command.
WaitFirst(p) ==
  /\ ps[p].pc = "wait"
  /\ LET c == ps[p].kids[ps[p].idx] IN
       /\ ps[c].pc = "zombie"
       /\ ps' = [ps EXCEPT
            ![c] = Free,
            ![p] = LET r == IF ps[p].idx = 1 THEN [@ EXCEPT !.code = ps[c].status] ELSE @
                   IN  IF @.idx = Len(@.job) THEN Back(r) ELSE [r EXCEPT !.idx = @ + 1]]
  /\ UNCHANGED <<world, off, text, failed, lost, times, last>>

\* Mutant of Wait: only the last command is waited for.
WaitLast(p) ==
  /\ ps[p].pc = "wait"
  /\ LET c == ps[p].kids[Len(ps[p].job)] IN
       /\ ps[c].pc = "zombie"
       /\ ps' = [ps EXCEPT ![c] = Free, ![p] = [Back(@) EXCEPT !.code = ps[c].status]]
  /\ UNCHANGED <<world, off, text, failed, lost, times, last>>

\* waitpid() for each command in order; the status of the last one is kept.
Wait(p) ==
  /\ ps[p].pc = "wait"
  /\ LET c    == ps[p].kids[ps[p].idx]
         next == IF ps[p].idx = Len(ps[p].job) THEN [Back(ps[p]) EXCEPT !.code = ps[c].status]
                 ELSE [ps[p] EXCEPT !.idx = @ + 1]
     IN  /\ ps[c].pc = "zombie"
         /\ ps' = [ps EXCEPT ![c] = Free, ![p] = next]
  /\ UNCHANGED <<world, off, text, failed, lost, times, last>>

-----------------------------------------------------------------------------
(***************************************************************************)
(* The children.                                                           *)
(***************************************************************************)
Becomes(c, r) ==
  /\ ps' = [ps EXCEPT ![c] = r]
  /\ UNCHANGED <<world, off, text, failed, lost, times, last>>

\* execvp(): of the shell only the descriptors 0 and 1 are left.
Program(r) == [Back(r) EXCEPT !.pc = "program", !.inbuf = <<>>]

\* Mutant of SingleChild: it returns when there is no program.
SingleChildReturns(c) ==
  /\ ps[c].pc = "child" /\ Len(ps[c].job) = 1
  /\ CASE ps[c].job[1] \in {"noin", "noout"} -> Exit(c, ps[c].in, ps[c].out, 1)
       [] ps[c].job[1] = "prog" -> Becomes(c, Program(ps[c]))
       [] OTHER -> Becomes(c, Back(ps[c]))

\* The child of exec_cmd().
SingleChild(c) ==
  /\ ps[c].pc = "child" /\ Len(ps[c].job) = 1
  /\ CASE ps[c].job[1] \in {"noin", "noout"} -> Exit(c, ps[c].in, ps[c].out, 1)
       [] ps[c].job[1] = "prog" -> Becomes(c, Program(ps[c]))
       [] OTHER -> Exit(c, ps[c].in, ps[c].out, 2)

(***************************************************************************)
(* A child of execute_pipeline().  Files are opened only at the ends of    *)
(* the pipeline.  A built-in name is a program to look for here.  When     *)
(* execvp() fails the function returns, and the child is a shell.          *)
(***************************************************************************)
PipedChild(c) ==
  /\ ps[c].pc = "child" /\ Len(ps[c].job) > 1
  /\ LET me    == ps[c]
         owner == (CHOOSE e \in me.fds : TRUE)[1][1]
         in    == IF me.idx > 1 THEN <<owner, me.idx - 1>> ELSE me.in
         out   == IF me.idx < Len(me.job) THEN <<owner, me.idx>> ELSE me.out
         name  == me.job[me.idx]
         noin  == me.idx = 1 /\ name = "noin"
         noout == me.idx = Len(me.job) /\ name = "noout"
     IN  \/ noin /\ Exit(c, me.in, me.out, 1)
         \/ noout /\ Exit(c, in, me.out, 1)
         \/ /\ ~noin /\ ~noout /\ name \in {"prog", "noin", "noout"}
            /\ Becomes(c, [Program(me) EXCEPT !.in = in, !.out = out])
         \/ /\ name \notin {"prog", "noin", "noout"}
            /\ Becomes(c, [Back(me) EXCEPT !.in = in, !.out = out])

\* A program may write a line, which matters if it goes to a pipe that somebody
\* reads.
Speak(c) ==
  /\ ps[c].pc = "program" /\ ps[c].out # Outside /\ ~Broken(ps[c].out)
  /\ Len(text[ps[c].out]) < MaxText
  /\ \E l \in Echo : text' = [text EXCEPT ![ps[c].out] = Append(@, [n |-> 0, cmds |-> l])]
  /\ ps' = [ps EXCEPT ![c].pc = "said"]
  /\ UNCHANGED <<world, off, failed, lost, times, last>>

\* A program ends, whatever it has done with its input.
Finish(c) ==
  /\ ps[c].pc \in {"program", "said"}
  /\ \E s \in Statuses : ps' = Ended(c, s) /\ last' = Noted(c, s)
  /\ UNCHANGED <<world, off, text, failed, lost, times>>

Step(p) ==
  \/ ReadLine(p) \/ EndOfInput(p)
  \/ MakePipes(p) \/ HeadBuiltIn(p) \/ HeadExit(p) \/ Fork(p) \/ Close(p) \/ Wait(p)
  \/ SingleChild(p) \/ PipedChild(p) \/ Finish(p)

Next == \E p \in Procs : Step(p) \/ PipeFails(p) \/ ForkFails(p) \/ BrokenPipe(p) \/ Speak(p)

\* The system schedules every process, programs end, and the input does.  A
\* fork() that cannot succeed fails.
Spec == Init /\ [][Next]_vars /\ \A p \in Procs : WF_vars(Step(p) \/ ForkFails(p))

-----------------------------------------------------------------------------
Lines      == {input[n] : n \in DOMAIN input}

\* execvp() fails for command i of line l.
NoProgram(l, i) == l[i] = "missing" \/ (i > 1 /\ l[i] \in {"exit", "cd", "rc"})

\* A line with a child that does not become a program, and one of which such a
\* child stays as a second shell.
Fails(l)   == \E i \in DOMAIN l : NoProgram(l, i) \/ l[i] \in {"noin", "noout"}
Doubles(l) == Len(l) > 1 /\ \E i \in DOMAIN l : NoProgram(l, i)

\* The input comes from a file whose offset a failing child moves.
Rewinds == kind = "file" /\ \E l \in Lines : Fails(l)

\* questions.md:1-3 of assn-5: all child processes complete before the shell
\* continues to accept input.
ChildrenCompleteFirst ==
  \A p, c \in Procs : ps[p].pc = "prompt" => ps[c].pc \notin {"child", "program", "said"}

LinesOnce == \A n \in DOMAIN input : times[n] <= 1

\* Each line is run at most once on the inputs on which no child of a pipeline
\* fails to find its program and no failing child moves the offset of the input
\* under the shell: then the copies of the read buffer that fork() makes are
\* harmless (dshlib.c:74, 355, 464).
CopiesHarmless == ~Rewinds /\ (\A l \in Lines : ~Doubles(l)) => LinesOnce

\* No line is left out, except that of a second shell which SIGPIPE kills at a
\* write the lines that it had read ahead are lost, and its parent goes on behind
\* them.  Any other line is taken only after all before it have been, even when
\* copies of the shell share the input, since from a terminal they read a line at
\* a time and to a file they give back what they have read ahead.  From a pipe
\* that would be lost, but without a second shell nobody reads ahead of the
\* shell.  After a failed fork() two shells may read at the same time, which is
\* not covered (dshlib.c:73-76, 306, 326, 524).
NoLineSkipped ==
  [][(kind # "pipe" /\ ~failed) \/ (\A l \in Lines : ~Doubles(l)) =>
       \A n \in DOMAIN input : times'[n] > times[n] =>
         \A m \in 1 .. n - 1 : times[m] > 0 \/ m \in lost]_vars

\* A shell at its prompt has no children, dead or alive, unless some fork() has
\* failed; so a second shell and its parent never read input at the same time
\* (dshlib.c:407-410, 535-542).
Reaped ==
  ~failed => \A p, c \in Procs : ps[p].pc = "prompt" /\ ps[c].pc # "free" => ps[c].parent # p

\* Nobody but the shell that makes the pipes and the children that have not yet
\* set themselves up holds pipe ends besides its input and output, on every path
\* out of execute_pipeline() (dshlib.c:434-532).
EndsClosed ==
  \A p \in Procs : ps[p].pc \notin {"fork", "close", "child"} => ps[p].fds = {}

\* rc prints how the last command of the last line ended of which all commands
\* could be started, in copies of the shell too (dshlib.c:324-328, 409, 538-541).
RcIsLast == \A p \in Procs : ps[p].pc = "prompt" => ps[p].code = last[p]

\* The shell comes to the end of an input that nobody moves back: it gets
\* every line done, whatever fails, and every second shell ends
\* (dshlib.c:71-107).
InputEnds == ~Rewinds => <>(ps[1].pc = "gone")
=============================================================================
