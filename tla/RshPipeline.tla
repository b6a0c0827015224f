---------------------------- MODULE RshPipeline ----------------------------
(***************************************************************************)
(* rsh_execute_pipeline() of assn-6/rsh_server.c: the processes and pipes  *)
(* of remote command lines.  Handler threads run their pipelines in one    *)
(* server process, so they share its descriptor table, and fork() hands a  *)
(* copy of that whole table to the child.                                  *)
(*                                                                         *)
(* Only the ends of pipes are modelled, as what they refer to and not as   *)
(* descriptor numbers.  A command is named <<h, i>>, the i-th of handler   *)
(* h; pipe j of h leads from command j to command j + 1.                   *)
(***************************************************************************)
EXTENDS Integers, FiniteSets

CONSTANTS Handlers,     \* threads that run rsh_execute_pipeline()
          MaxCmds,      \* commands in a pipeline, CMD_MAX in the code
          Lengths,      \* per handler: how many commands its pipelines have
          Capacity,     \* what a pipe holds before a write to it blocks
          Output,       \* what a program that writes at all writes
          FirstReads,   \* may the first command of a pipeline read its input?
          Faults        \* "nofork": fork() fails

ASSUME SizeAssumption ==
  MaxCmds \in Nat \ {0} /\ Capacity \in Nat \ {0} /\ Output \in Nat
ASSUME LengthsAssumption == Lengths \in [Handlers -> SUBSET (1 .. MaxCmds)]
ASSUME ReadsAssumption == FirstReads \subseteq BOOLEAN
ASSUME FaultsAssumption == Faults \subseteq {"nofork"}

Cmds  == Handlers \X (1 .. MaxCmds)
Pipes == Handlers \X (1 .. MaxCmds - 1)
Ends  == Handlers \X (1 .. MaxCmds - 1) \X {"r", "w"}

VARIABLES phase,  \* per handler: where it is in rsh_execute_pipeline()
          num,    \* per handler: clist->num
          k,      \* per handler: the counter of the loop it is in
          held,   \* the pipe ends in the server's descriptor table
          cmd,    \* per command: "none", "forked", "running", "exited"
          reads,  \* per command: it has to read its input to the end first
          left,   \* per command: what it still has to write
          ends,   \* per command: the pipe ends its process holds
          buf     \* per pipe: how much has been written and not been read

handlerVars == <<phase, num, k>>
cmdVars     == <<cmd, reads, left, ends>>
vars        == <<handlerVars, held, cmdVars, buf>>

TypeOK ==
  /\ phase \in [Handlers -> {"idle", "pipe", "fork", "close", "abort", "wait"}]
  /\ num \in [Handlers -> 1 .. MaxCmds]
  /\ k \in [Handlers -> 0 .. 2 * MaxCmds]
  /\ held \subseteq Ends
  /\ cmd \in [Cmds -> {"none", "forked", "running", "exited"}]
  /\ reads \in [Cmds -> BOOLEAN]
  /\ left \in [Cmds -> 0 .. Output]
  /\ ends \in [Cmds -> SUBSET Ends]
  /\ buf \in [Pipes -> 0 .. Capacity]

Init ==
  /\ phase = [h \in Handlers |-> "idle"]
  /\ num = [h \in Handlers |-> 1]
  /\ k = [h \in Handlers |-> 0]
  /\ held = {}
  /\ cmd = [c \in Cmds |-> "none"]
  /\ reads = [c \in Cmds |-> FALSE]
  /\ left = [c \in Cmds |-> 0]
  /\ ends = [c \in Cmds |-> {}]
  /\ buf = [p \in Pipes |-> 0]

-----------------------------------------------------------------------------
EndsOf(h) == {e \in Ends : e[1] = h}
In(c)     == <<c[1], c[2] - 1, "r">>
Out(c)    == <<c[1], c[2], "w">>

\* The pipe ends that command c should run with.
Std(c) == (IF c[2] > 1 THEN {In(c)} ELSE {}) \cup (IF c[2] < num[c[1]] THEN {Out(c)} ELSE {})

Alive(c) == cmd[c] \in {"forked", "running"}

\* Some process has e open.
Open(e) == e \in held \/ \E c \in Cmds : e \in ends[c]

\* The pipe ends that the i-th close() of the closing loops is about:
\* pipes[j][0] and then pipes[j][1].
Closed(h, i) == IF i % 2 = 0 THEN <<h, i \div 2 + 1, "r">> ELSE <<h, i \div 2 + 1, "w">>

Goto(h, where) ==
  /\ phase' = [phase EXCEPT ![h] = where]
  /\ k' = [k EXCEPT ![h] = 0]
  /\ UNCHANGED num

\* One round of a loop of n rounds, which goes on at where.
Round(h, n, where) ==
  IF k[h] + 1 = n
    THEN Goto(h, where)
    ELSE k' = [k EXCEPT ![h] = @ + 1] /\ UNCHANGED <<phase, num>>

\* A single command has no pipes to make or to close.
IfPiped(h, where, otherwise) == IF num[h] > 1 THEN where ELSE otherwise

-----------------------------------------------------------------------------
(***************************************************************************)
(* The handler thread.                                                     *)
(***************************************************************************)

\* A client has sent a pipeline of n commands.  The bound: none of an earlier
\* pipeline of this handler is still running.
Begin(h, n) ==
  /\ phase[h] = "idle"
  /\ \A i \in 1 .. MaxCmds : ~Alive(<<h, i>>)
  /\ phase' = [phase EXCEPT ![h] = IF n > 1 THEN "pipe" ELSE "fork"]
  /\ num' = [num EXCEPT ![h] = n]
  /\ cmd' = [c \in Cmds |-> IF c[1] = h THEN "none" ELSE cmd[c]]
  /\ buf' = [p \in Pipes |-> IF p[1] = h THEN 0 ELSE buf[p]]
  /\ UNCHANGED <<k, held, reads, left, ends>>

\* Mutant of MakePipe: a pipe for every command.
MakePipeForEach(h) ==
  /\ phase[h] = "pipe"
  /\ held' = held \cup {<<h, k[h] + 1, "r">>, <<h, k[h] + 1, "w">>}
  /\ Round(h, num[h], "fork")
  /\ UNCHANGED <<cmdVars, buf>>

\* pipe(), once for every two neighbours.
MakePipe(h) ==
  /\ phase[h] = "pipe"
  /\ held' = held \cup {<<h, k[h] + 1, "r">>, <<h, k[h] + 1, "w">>}
  /\ Round(h, num[h] - 1, "fork")
  /\ UNCHANGED <<cmdVars, buf>>

\* Any program: one that reads its input to the end like sort, or that does not
\* read like ls; one that writes and one that does not.  What the last one
\* writes goes to the client and never blocks: it is left out.
Program(c) ==
  /\ \E b \in IF c[2] = 1 THEN FirstReads ELSE BOOLEAN : reads' = [reads EXCEPT ![c] = b]
  /\ \E n \in IF c[2] < num[c[1]] THEN {0, Output} ELSE {0} : left' = [left EXCEPT ![c] = n]

\* Mutant of Fork: the server waits for the commands before it closes the pipes.
ForkThenWait(h) ==
  /\ phase[h] = "fork"
  /\ LET c == <<h, k[h] + 1>> IN
       /\ cmd' = [cmd EXCEPT ![c] = "forked"]
       /\ ends' = [ends EXCEPT ![c] = held]
       /\ Program(c)
  /\ Round(h, num[h], "wait")
  /\ UNCHANGED <<held, buf>>

\* fork(): the child starts with every pipe end of the server.
Fork(h) ==
  /\ phase[h] = "fork"
  /\ LET c == <<h, k[h] + 1>> IN
       /\ cmd' = [cmd EXCEPT ![c] = "forked"]
       /\ ends' = [ends EXCEPT ![c] = held]
       /\ Program(c)
  /\ Round(h, num[h], IfPiped(h, "close", "wait"))
  /\ UNCHANGED <<held, buf>>

\* fork() failed: the pipes are closed and the children left to themselves.
ForkFails(h) ==
  /\ phase[h] = "fork"
  /\ "nofork" \in Faults
  /\ Goto(h, IfPiped(h, "abort", "idle"))
  /\ UNCHANGED <<held, cmdVars, buf>>

\* Mutant of CloseNext: the loop leaves out the last close().
CloseFewer(h) ==
  /\ phase[h] \in {"close", "abort"}
  /\ held' = held \ {Closed(h, k[h])}
  /\ Round(h, 2 * (num[h] - 1) - 1, IF phase[h] = "close" THEN "wait" ELSE "idle")
  /\ UNCHANGED <<cmdVars, buf>>

\* One close() of the server, after the last fork() or after a failed one.
CloseNext(h) ==
  /\ phase[h] \in {"close", "abort"}
  /\ held' = held \ {Closed(h, k[h])}
  /\ Round(h, 2 * (num[h] - 1), IF phase[h] = "close" THEN "wait" ELSE "idle")
  /\ UNCHANGED <<cmdVars, buf>>

\* Mutant of Wait: it waits for the last command only.
WaitLast(h) ==
  /\ phase[h] = "wait"
  /\ cmd[<<h, num[h]>>] = "exited"
  /\ cmd' = [cmd EXCEPT ![<<h, num[h]>>] = "none"]
  /\ Goto(h, "idle")
  /\ UNCHANGED <<held, reads, left, ends, buf>>

\* waitpid() for each command in order; then the function returns.
Wait(h) ==
  /\ phase[h] = "wait"
  /\ cmd[<<h, k[h] + 1>>] = "exited"
  /\ cmd' = [cmd EXCEPT ![<<h, k[h] + 1>>] = "none"]
  /\ Round(h, num[h], "idle")
  /\ UNCHANGED <<held, reads, left, ends, buf>>

HandlerStep(h) == MakePipe(h) \/ Fork(h) \/ CloseNext(h) \/ Wait(h)

-----------------------------------------------------------------------------
(***************************************************************************)
(* The children, and the programs they become.                             *)
(***************************************************************************)
Exit(c) ==
  /\ cmd' = [cmd EXCEPT ![c] = "exited"]
  /\ ends' = [ends EXCEPT ![c] = {}]
  /\ reads' = [reads EXCEPT ![c] = FALSE]
  /\ left' = [left EXCEPT ![c] = 0]

\* Mutant of Setup: the child closes none of the ends it was born with.
SetupKeepsAll(c) ==
  /\ cmd[c] = "forked"
  /\ cmd' = [cmd EXCEPT ![c] = "running"]
  /\ UNCHANGED <<ends, reads, left, handlerVars, held, buf>>

\* dup2() of its own ends, close() of all ends of its own pipeline, execvp().
\* A child whose execvp() fails exits: a program that neither reads nor writes.
Setup(c) ==
  /\ cmd[c] = "forked"
  /\ cmd' = [cmd EXCEPT ![c] = "running"]
  /\ ends' = [ends EXCEPT ![c] = (@ \ EndsOf(c[1])) \cup (@ \cap Std(c))]
  /\ UNCHANGED <<reads, left, handlerVars, held, buf>>

\* A write to a pipe blocks when the pipe is full, and is deadly when nobody
\* can read it.
Write(c) ==
  /\ cmd[c] = "running" /\ ~reads[c] /\ left[c] > 0
  /\ LET p == <<c[1], c[2]>> IN
       \/ ~Open(<<c[1], c[2], "r">>) /\ Exit(c) /\ UNCHANGED buf
       \/ /\ Open(<<c[1], c[2], "r">>)
          /\ buf[p] < Capacity
          /\ buf' = [buf EXCEPT ![p] = @ + 1]
          /\ left' = [left EXCEPT ![c] = @ - 1]
          /\ UNCHANGED <<cmd, reads, ends>>
  /\ UNCHANGED <<handlerVars, held>>

\* A read from a pipe, until nobody can write to it.  A first command that
\* reads waits for the client, which waits for the end of the response.
Read(c) ==
  /\ cmd[c] = "running" /\ reads[c]
  /\ In(c) \in ends[c]
  /\ LET p == <<c[1], c[2] - 1>> IN
       \/ /\ buf[p] > 0
          /\ buf' = [buf EXCEPT ![p] = @ - 1]
          /\ UNCHANGED reads
       \/ /\ buf[p] = 0
          /\ ~Open(<<c[1], c[2] - 1, "w">>)
          /\ reads' = [reads EXCEPT ![c] = FALSE]
          /\ UNCHANGED buf
  /\ UNCHANGED <<cmd, left, ends, handlerVars, held>>

\* A program that has done its work.
Finish(c) ==
  /\ cmd[c] = "running" /\ ~reads[c] /\ left[c] = 0
  /\ Exit(c)
  /\ UNCHANGED <<handlerVars, held, buf>>

Next ==
  \/ \E h \in Handlers :
       \/ \E n \in Lengths[h] : Begin(h, n)
       \/ MakePipe(h) \/ Fork(h) \/ ForkFails(h) \/ CloseNext(h) \/ Wait(h)
  \/ \E c \in Cmds : Setup(c) \/ Write(c) \/ Read(c) \/ Finish(c)

\* The system schedules every thread and every process.
Fairness ==
  /\ \A h \in Handlers : WF_vars(HandlerStep(h))
  /\ \A c \in Cmds :
       WF_vars(Setup(c)) /\ WF_vars(Write(c)) /\ WF_vars(Read(c)) /\ WF_vars(Finish(c))

Spec == Init /\ [][Next]_vars /\ Fairness

-----------------------------------------------------------------------------
\* A running command holds, of its own pipeline, the reading end of the pipe
\* before it and the writing end of the pipe after it, and nothing else:
\* every later end of file depends on it (rsh_server.c:628-649).
OwnEnds ==
  \A c \in Cmds : cmd[c] = "running" => ends[c] \cap EndsOf(c[1]) = Std(c)

\* When the function has returned, after a failed fork() too, the server holds
\* no pipe end of it any more (rsh_server.c:620-625, 659-662).
EndsReturned == \A h \in Handlers : phase[h] \in {"idle", "wait"} => held \cap EndsOf(h) = {}

\* No process holds pipe ends of another handler's pipeline.
Isolated == \A c \in Cmds : ends[c] \subseteq EndsOf(c[1])

(***************************************************************************)
(* The server gets every pipeline done, provided that no first command     *)
(* waits for input from the client and that no child has inherited pipe    *)
(* ends of another handler: then end of file and SIGPIPE travel through    *)
(* the pipeline and waitpid() returns (rsh_server.c:614-667).              *)
(***************************************************************************)
IsolatedPipelinesReturn ==
  [](Isolated /\ \A h \in Handlers : ~reads[<<h, 1>>]) =>
    \A h \in Handlers : phase[h] # "idle" ~> phase[h] = "idle"

\* rsh_server.c:369-371: the end of the output is announced to the client
\* after a command has been executed, so rsh_execute_pipeline() must return.
PipelinesReturn == \A h \in Handlers : phase[h] # "idle" ~> phase[h] = "idle"

\* When the function returns after waiting, none of its commands is alive any
\* more: the EOF byte that follows says that the command has been executed
\* (rsh_server.c:508-509, 664-667).
WaitedForAll ==
  [][\A h \in Handlers :
       phase[h] = "wait" /\ phase'[h] = "idle" => (\A i \in 1 .. MaxCmds : ~Alive(<<h, i>>))']_vars
=============================================================================
