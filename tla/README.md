# Specifications of the CS283 programs

This directory is a TLA+ development of the programs in this repository. They are the assignments of one systems
course, each a small C program in a directory of its own: a string utility (`assn-1`), a student database (`assn-2`),
a shell that grows from a parser (`assn-3`) over built-ins and redirection (`assn-4`, `assn-5`) to a remote shell with
a server and clients (`assn-6`). The specifications are written from the C code; comments, tests and `questions.md`
were read as statements of intent; where the code does something else, a run or the list in section 3 says so.

Paths are relative to `src/`. Line numbers without a path refer to the file named in the section.

## 1. Inventory

### Remote shell server, `assn-6/rsh_server.c`

*State.* The listening socket and its backlog; `g_is_threaded`, `g_should_stop` and `g_active_clients` (the last two
under `g_mutex`); one `handle_client()` thread per client in threaded mode; per connection an activation of
`exec_client_requests()` with its I/O buffer and the exit status of the last pipeline.

*Operations.* `start_server`, `boot_server`, `stop_server`, `process_cli_requests` (select with a timeout of a second,
accept, serve or spawn), `exec_client_thread`, `handle_client`, `exec_client_requests` (receive, raw built-ins, parse,
parsed built-ins, pipeline, end-of-response byte), `send_message_eof`, `send_message_string`, `rsh_execute_pipeline`.

*Hard.* The main thread reads the flag and the counter under the lock and acts on them later; a handler counts itself
only when it is scheduled; a detached thread dies with the process; every path must send exactly one 0x04 byte;
a descriptor is closed twice on one error path; `send()` to a dead client raises SIGPIPE.

*Correct when.* The counter equals the handlers that count themselves; each socket has one owner; a stop happens only
on request and only when nobody is served; commands are answered, whatever other users do; a stop request is honoured.

### Remote shell client, `assn-6/rsh_cli.c`

*State.* A socket, two buffers, whether it waits for a response. *Operations.* `exec_remote_cmd_loop`, `start_client`,
`client_cleanup`. *Hard.* It recognises only a plain `exit`; the end of a response is a byte at the end of a received
segment. *Correct when.* It is in step with the server: at its prompt nothing is left over from the last command.

### Socket protocol, `assn-6/rshlib.h` and both sides

Commands are NUL-terminated strings, responses are raw bytes ended by 0x04. There are no lengths or sequence numbers,
so order and the count of 0x04 bytes are all that keeps the sides together.

### Remote pipelines, `rsh_execute_pipeline()`

*State.* The server's descriptor table, which all handlers share; a process per command, each with a copy of that
table; pipes of bounded capacity. *Hard.* `fork()` in a threaded process copies everybody's pipe ends, and a child
closes only those of its own pipeline; end of file depends on who still holds a writing end; `fork()` may fail halfway.
*Correct when.* Every command runs with its own ends, the server keeps none, and the function returns when the programs
are done.

### Local shell, `assn-5/dshlib.c`

*State.* The read buffer of stdio, the parsed command list, `last_command_code`, the working directory; a process per
command. *Operations.* `exec_local_cmd_loop`, `exec_built_in_cmd`, `exec_cmd`, `execute_pipeline`, `free_cmd_list`.
*Hard.* `fork()` copies the read buffer and shares the offset of the input; a child of a pipeline whose `execvp()`
fails returns from `execute_pipeline()` (lines 522-524) and goes on as a second shell; other failing children call
`exit()`, which gives back what stdio had read ahead; early returns after `fork()` failures leave children behind; a
built-in at the head of a pipeline ends it. *Correct when.* Each line is run once and none is left out, all children
are reaped before the next prompt, no pipe end stays open, `rc` tells how the last line ended, and the shell gets to
the end of its input.

### Command line parser, same file

*State.* The command list under construction, the current `cmd_buff_t` with pointers into copies of the line.
*Operations.* `build_cmd_list`, `build_cmd_buff`. *Hard.* Quotes, bars and redirections interact; the loop over `argv`
takes entries out of the array it walks through; limits are checked at several places (`CMD_MAX`, `CMD_ARGV_MAX`).
*Correct when.* The answer is the meaning of the line, and no index leaves its array.

### Other versions of the shell, `assn-3`, `assn-4`, `assn-6/dshlib.c`

Earlier and later states of the same program. The local mode of `assn-6` is that of `assn-5` without redirections; its
`execute_pipeline()` has the same return after a failed `execvp()` (line 412).

### Student database, `assn-2/sdbsc.c`

*State.* A sparse file of 64-byte records indexed by student id; one process per command with its own descriptor, no
lock. *Operations.* `-a`, `-d`, `-f`, `-c`, `-p`, `-x` (a stub), `-z`. *Hard.* Check and write are separate system
calls; `-z` may come between them; scans meet each record at another time; offsets are `int` products; `get_student()`
never compares ids; a failed read looks like a free place. *Correct when.* Records stay at their offset, answers are
true, an add replaces nobody, a delete removes whom it was told to, commands end.

### String utility, `assn-1/stringfun.c`

Squeezes blanks into a 50-byte buffer, then counts, reverses, prints words or replaces text. `setup_buff()` returns the
raw length and not the squeezed one. *Correct when* each operation agrees with its definition on words.

### Not program logic

`assn-4/dragon.c` prints a picture; makefiles, editor settings, debug symbols and the answers to course questions have
no behaviour.

## 2. Modules

| module | what it is | code |
|---|---|---|
| `RshConn` | TCP connections as both sides use them: backlog, message queues, endpoints, close and reset | external |
| `RshClient` | the client processes | `rsh_cli.c` |
| `RshServer` | main thread, handler threads, request loop | `rsh_server.c`, end of `main()` in `dsh_cli.c` |
| `RshSystem` | clients, server and connections composed; fairness; properties; the refinement mapping | both |
| `RshService` | abstract specification: what the server promises, without threads, counters or messages | - |
| `MCRsh` | symmetry of clients for TLC | - |
| `RshProofs` | proofs about `RshSystem`: the inductive invariant, the counter, owners of sockets, the stop | - |
| `RshProtocolProofs` | proofs about `RshSystem`: client and server take turns; it implements `RshService` | - |
| `RshPipeline` | processes and pipe ends of pipelines in one server process | `rsh_execute_pipeline()` |
| `RshPipelineProofs` | proofs about `RshPipeline` | - |
| `MCPipeline` | how long the pipelines of TLC's two handlers are | - |
| `Dsh` | the local shell, its copies and its programs as processes with one input | `assn-5/dshlib.c` |
| `MCDsh` | scripts for TLC | - |
| `DshProofs` | proofs about `Dsh`: places, pipe ends, children, statuses | - |
| `DshLineProofs` | proofs about `Dsh`: the lines of the input, taken once and in order | - |
| `CmdParse` | the parser, character by character | `assn-5/dshlib.c` |
| `CmdLine` | abstract specification: what a command line means | - |
| `MCCmdParse` | lines for TLC; the refinement mapping from `CmdParse` to `CmdLine` | - |
| `CmdParseProofs` | proofs about `CmdParse` | - |
| `StringFun` | the string utility | `assn-1/stringfun.c` |
| `MCStringFun` | strings for TLC | - |
| `StringFunProofs` | proofs about `StringFun` | - |
| `Pieces` | the numbers of a set in order, cutting a sequence at separators, for `CmdLine` and for the reference definitions in `StringFun` | - |
| `StudentDb` | the database file and the processes that run commands on it | `sdbsc.c`, `db.h`, `sdbsc.h` |
| `StudentDbHistory` | `StudentDb` with history variables: who was, and was not, in the file during a command | - |
| `MCStudentDb` | the ids used by TLC | - |
| `StudentDbProofs` | proofs about `StudentDb` and `StudentDbHistory` | - |

Operators whose comment starts with "Mutant of" are plausible mistakes in the operator after them. They are not part
of any specification; `PROJECT.json` pairs each property with one that breaks it.

### Remote shell: how state and actions correspond

A connection is named after its client. `c2s` and `s2c` are the commands and response parts under way; a `recv()` takes
any number of whole messages that have arrived. `srvEnd` and `cliEnd` are the endpoints; bytes sent to an endpoint that
has closed stay in the queue, and `Reset` is the RST they cause. A user's lines are told apart by what the server does
with them: `exit` and `stop-server` are caught on the raw line, the same words after a space only by the parsed
built-ins, `cd` and unparsable lines are answered with a message, all else is a program.

Each thread has a program counter: `main` (`process_cli_requests()` and its callers), `thread[c]` (`handle_client()`)
and `req[c]` (`exec_client_requests()`, run by the main thread or by a handler). A critical section of `g_mutex` is one
step and so is a system call. `CheckStop` reads both globals in its one critical section; `HandlerStart`, `HandlerStop`
and `HandlerLeave` are the three critical sections of a handler. `SpawnFails` is the path on which the descriptor is
closed twice. `SigPipe` is the default action of SIGPIPE; `ExitProcess` ends the process under its detached threads.
`Faults` says which failures an instance has.

A pipeline is one step of `RshServer`, `RunPipeline`, with any output and any of the exit statuses the server tells
apart. Its inside is `RshPipeline`. Nothing obliges it to return: `pipe_deadlock` shows one that does not, and neither does
a first command that waits for its client. The two liveness properties about answers have as a premise that pipelines
return (`PipelinesEnd`). A line whose first command has no word, such as two quotes, ends the process when its NULL name
is compared (716); in the model this is `PipelineExits`.

### Pipelines

A pipe end is a triple `<<handler, pipe, "r" or "w">>`. `held` is the set of those in the server's table, `ends[c]` the
set in the process of command `c`. `Fork` copies `held`; `Setup` is the child's `dup2()`, its closing loop, which goes
over its own pipeline only, and `execvp()`. Programs are arbitrary up to what matters to pipes: does it read to the end
of file first, does it write. `Write` blocks on a full pipe and ends the process on a pipe without readers; `Read` ends
when no process holds a writing end. The loops of the server go one system call at a time, except that one iteration
makes one pipe. A first command that reads waits for its client, which is itself waiting for the response.

### Local shell

`ps[p]` is a process: shell 1, a copy of it, a program, or nothing. A copy has everything the shell has: the job it is
working on and where (`job`, `idx`), the lines stdio has read ahead (`inbuf`), the pipe ends (`fds`), `last_command_code`
(`code`). The input is a file, a pipe or a terminal (`kind`); `off` is its offset, which all copies share. A child
that becomes a program loses all but its two standard descriptors (`Program`). One that fails before that either
calls `exit()` (`Exit`, which flushes a prompt into its output and then moves the offset of a file back by what it had
read ahead) or, in a pipeline, goes back to the prompt with the pipes as its input and output (`PipedChild`): a second
shell, which then takes what it reads from the program before it as command lines. Its output may be a pipe that nobody
reads any more (`Broken`). Then SIGPIPE kills it at the flush in `exit()`, or earlier at a prompt or an answer that stdio
does not keep back (`BrokenPipe`), and what it had read ahead is not given back (`Killed`). `Killed` notes such lines in
`lost`.

A command is told apart by what the shell does with it (`Names`). A line is read, parsed and dispatched in one step,
`ReadLine`, since nobody else sees what happens between; each `fork()`, the closing of the pipes, each `waitpid()` and
each child's way to `execvp()` or to its failure are steps of their own. `times` counts how often a line was run, up to
two, and `last` is the status that `rc` ought to show: both are history variables, and so is `lost`.

### Command line parser

A line is a sequence of characters, one of which, `a`, stands for all that mean nothing to the parser. A pointer is the
position of the character it points to, 0 is NULL, and the zero bytes written into a copy of the line are the set `nul`
of their positions. `strtok_r()` and the trimming that follows are one step per command; the first loop of
`build_cmd_buff()` is one step per character (`ScanSeparator`, `ScanChar`), the second one step per entry of `argv`
(`Redirect`, `KeepArg`). `CmdLine` says what should come out without a loop over characters: segments, words by the
parity of the quotes before a position, and which words are taken for files. `ParsesTheLine` maps the pointers of a
finished parse to the strings they point to and demands that this is the meaning of the line.

### String utility

`mem` is the buffer and, behind it, the memory up to `Top`, with unknown contents (`Unknown`). `setup_buff()` copies a
character per step and fills up with dots; `Dispatch` hands the length of the raw string to the operation. The
operations go one loop round at a time, except `-x`, which is one step; where it reads or writes what C leaves open it
ends in `"undefined"`. `overflow` is the return of `replace_string()` when the result does not fit.

### Student database

`file` is a sequence: record number n is `file[n + 1]` and holes read as `Empty`. A process starts with any command,
opens the file (`Open`, with the range check of `-a` and the `switch` of `main()`), looks its record up (`Get`, the
caller's reaction to the result included), and writes in a later step (`Write`). A scan reads one record per step
(`ScanNext`). `Truncate` is the second `open()` of `-z`. `Offset` is the `int` product: `Span` records, 2^26 in the
code (which is built without optimisation), wrap around.

## 3. Runs

Passing runs:

| run | instance | shows |
|---|---|---|
| `rsh_safety` | 2 clients, backlog 1, both modes, all lines, every fault except a stray 0x04; clients symmetric | `ActiveIsCounted`, `SocketsOwned`, `LockStep`, `OnlyKilledClientsReset`, `OrderlyStop`, and `ServiceSpec`: the server implements `RshService` |
| `rsh_live` | 2 clients, both modes, no faults | if pipelines return, commands are answered (`ThreadedAnswers`; in single mode `AnswersOnceUsersLeave`); a stop takes effect once the clients have left (`StopHonoured`) |
| `pipe_safety` | 2 handlers, one with pipelines of 1 to 3 commands and one with single commands, capacity 1, output 2, failing forks, first commands that read or do not | `OwnEnds`, `EndsReturned`, `WaitedForAll`, and that every pipeline returns whose commands have only their own pipes (`IsolatedPipelinesReturn`) |
| `dsh_safety` | 5 processes, inputs of 1 to 5 lines with built-ins, programs, missing programs, missing files and pipelines up to 3; from a file, a pipe and a terminal; failing `pipe()` and `fork()` | `CopiesHarmless`, `Reaped`, `EndsClosed`, `RcIsLast`, `NoLineSkipped`, `InputEnds` |
| `parse` | every line up to 4 characters, lines of up to 6 words, lines with quotes: 7015 lines; 2 commands, 7 entries of `argv`, failing `strdup()` | `ArgvEnded`, `ParserEnds`, and `ParsesTheLine`: the parser implements `CmdLine` |
| `stringfun` | buffer of 5, 2 cells behind it, strings up to 7, all operations | `SetupIsRight`, `CountIsRight`, `PrintIsRight`, `ReverseIsRight`, `ReplaceIsRight`, `StaysInBuffer` |
| `sdb_safety` | 2 processes, any commands again and again, ids -1 to 3 with `MaxId` 2, GPAs in and out of range, failing opens and writes | `RecordsInPlace`, `AnswersWereTrue`, `CommandsEnd` |

Runs that show a disagreement between code and documentation:

| run | what happens |
|---|---|
| `rsh_abandoned` | a client was accepted, its thread has not counted itself yet, the stop goes ahead and the process exits under it |
| `rsh_sigpipe` | a client dies while its command runs; the next `send()` ends the server for everybody |
| `pipe_deadlock` | two clients start `a \| b` at the same time; each `b` has inherited the other pipeline's writing end, both wait for an end of file, neither command returns |
| `sdb_race` | two adds of one id both find the place free; the second replaces the first and both report success |
| `dsh_second` | `prog \| missing`: the child that finds no program goes back to the prompt, and takes what `prog` writes for a command line while the shell still waits |

*Also seen while modelling, and not made runs.*

- Output whose segment ends in 0x04 ends the client's receive loop early (`assn-6/rsh_cli.c:163`); the fault `eot` of
  `RshSystem` lets it happen, and `LockStep` is then violated.
- After a failed `fork()` of a remote pipeline the end of the response is announced while earlier commands of it still
  run (`assn-6/rsh_server.c:625`, `508-509`). `WaitedForAll` speaks of the other path.
- After `stop-server` the client finds its connection closed and returns `ERR_RDSH_COMMUNICATION`, although
  `assn-6/rsh_cli.c:72-75` promises `OK`.
- `-d` and `-f` pass on what `atoi()` gives without a look at its range (`assn-2/sdbsc.c:558`, `576`), and the offset is
  an `int` product (67): `-d 67108865` removes student 1 and reports student 67108865 deleted. The run's ids do not wrap;
  `RecordsInPlace` is proved for those that do.
- `./dsh < file` with a file that has two unknown programs in it never ends: each failing child's `exit()` moves the
  shared offset back over what it had read ahead. With `nosuch | cat` in the file the lines after it run twice.
- `echo exit | nosuch`: the second shell runs what the program before it wrote.
- `nosuch | prog` in a file, where `prog` has ended before the second shell is done with it: SIGPIPE kills that shell when
  it writes, the lines that it alone had read ahead are run by nobody, and the first shell goes on behind them.
  `NoLineSkipped` names the lines of such a shell as its exception (`lost`).
- A line of bars only is accepted as a list of 0 commands, without the warning (`assn-5/dshlib.c:47`).
- A blank at either end of the string stays in the buffer as a space, where `assn-1/test.sh:28-33` ("remove extra
  spaces") wants none, and a string with a blank behind a text that just fits is rejected. `SetupIsRight` leaves out
  strings with such blanks.
- Behind a replaced text the buffer has zero bytes (`assn-1/stringfun.c:133-134`), where `assn-1/test.sh:72-76` and
  `96-100` want dots. `ReplaceIsRight` demands the new text and that nothing of the old one is behind it, and leaves open
  which of the two fills the buffer.
- The string utility counts the dots it has filled up with as a word if the string ends in a space: the example of
  `assn-1/test.sh:28-33` gives 9 and not 8. For `test.sh:84-94` the buffer should hold as much of a long result as fits;
  `replace_string()` reports an overflow and leaves it as it was (`ReplaceTooLong`). A reversal loses the user's own
  trailing dots; for a raw string longer than the buffer it swaps with memory behind it; `-x` with a target that does not
  occur uses NULL. No output has the square brackets around the buffer that the tests show.

*Why the bounds are enough.* The conflicts in the server are between the main thread and one handler or between two
handlers; with two clients and a backlog of one, one client can be served while another is accepted, waits, is turned
away or arrives during the stop. A client sends any number of commands. With three commands a pipeline has a first, a
middle and a last one; with an output of two and a capacity of one a writer blocks. Two handlers are the least that can
inherit from each other; one with a single command is enough to inherit the ends of a longer pipeline, and in
`pipe_deadlock` both have two. Five processes are a shell with a pipeline of three and a second shell's child; more
make `fork()` fail, as it may. Two lines are the least for one to be repeated, skipped or answered with the other's
status, and a block of two lines the least that stdio reads ahead; the longer scripts let a copy have several left. In
the parser every limit is reached by lines of the instance: a third command, a sixth word, while the five words that
fit leave room for two redirections in a row. A buffer of five takes two words and filling, strings of six and seven
are longer than it raw and shorter squeezed. Two processes are the least that race on a file; with `MaxId` 2 there are
a record before and one after any other, and a place beyond the end of the file. Handlers in `RshPipeline` start again
only when nothing of their last pipeline runs (the bound in `Begin`).

*Deadlock* is checked except where the system really may stop: `dsh_safety`, `dsh_second`, `parse` and `stringfun` model
programs that end; in the pipeline runs two handlers or a first command that reads may wait for ever
(that is the finding); in the others every stop is a named end or a user at a prompt. The cfg of those runs says
`CHECK_DEADLOCK FALSE`.

*Fairness.* Each thread, process and program step is weakly fair because the system schedules it; a client that waits in
`recv()` returns when something is there. A pipeline of a client is not obliged to return (`RunPipeline` is no part of
what is fair): `ThreadedAnswers` and `AnswersOnceUsersLeave` have that as their premise, `PipelinesEnd`. Users are never
obliged to type, to leave or to start a command, and no fault is ever obliged to happen. `select()` comes back after a
second by its timeout, so the main loop is never stuck there. In `Dsh` every process that can go on does, programs end
(what they do with their input is left open), and the input has an end; `InputEnds` excludes inputs that the shell
itself moves back. The parser is sequential code: its loops go on while they can. Nothing is strongly fair.

## 4. Proofs

All theorems hold for every value of the constants under the named assumptions on them in the modules.

*Remote shell* (`RshProofs`). `IInv` is `TypeOK`, `ActiveIsCounted` and `Structure`. `Structure` says who holds what
(`BacklogQueued`, `NotYetAccepted`, `MainHolds`, `HandlerHolds`) and that the stop flag has a cause (`FlagHasCause`):
without it `SocketsOwned` is not inductive, since nothing else excludes that a handler's client is also in the backlog or
with the main thread. `ActiveIsCounted` needs the finiteness of the set of clients and one cardinality lemma per change.
From `Invariance` follow

- `TypeCorrect`, which includes that the counter never becomes negative,
- `CounterCorrect`: `Spec => []ActiveIsCounted`,
- `SocketsHaveOneOwner`: `Spec => []SocketsOwned`,
- `StopIsOrderly`: `Spec => OrderlyStop`, an action property: at the step that ends the loop a zero counter means, by
  the invariant, that no started handler still has a connection.

*Protocol of the remote shell* (`RshProtocolProofs`). `LockStep` is not inductive: it speaks of a client at its prompt,
and what makes it true is how far the response to the last command has got while the client waits. `Turns` says it for
each client: before its command is received the response is empty and the server is at its `recv()`; after that exactly
one 0x04 is still to come, be it in the path the server is on or as the last message of
`s2c`, unless the connection has ended without an answer (`Dismissed`). Underneath lies
`Settled`: a connection that the server has closed has no activation at work, so no path sends after its `close()`.
Both hold for any clients, backlog, lines and faults:

- `ClosedIsSettled`: `Course` and `Settled` are invariants,
- `ClientsTakeTurns`: `Spec => []LockStep` and `OnlyKilledReset`: `Spec => []OnlyKilledClientsReset`, both if
  `"eot"` is not among the faults. That is a hypothesis about programs, not about the server: with output whose segment
  ends in 0x04 TLC finds both properties violated.

*The server implements the service* (also `RshProtocolProofs`). `ServiceImplemented`: `Spec => ServiceSpec`, for every
instance, without that hypothesis. `WhereIs` and `WhereNext` say what a step does to the abstract place of a client.
Each action of the system is then matched with one step of the service:

| step of `RshSystem` | step of `RshService` |
|---|---|
| `Connect` | `Arrive` |
| `HandlerStart`; `Accept` in single mode | `Admit` |
| the return of `OK_EXIT` from the request loop | `Ask` |
| `HandlerClose`, `ServeClose` | `Leave` |
| `SpawnFails`, `StopServer` | `TurnAway` |
| `BootFails`, `AcceptFails` | `Fail` |
| `CheckStop` and `ServeNext` if they end the loop | `Decide` |
| `ExitProcess` | `End` |
| `SigPipe`, `PipelineExits` | `Crash` |
| all others | none |

`Settled` is needed here, for a request that ends on a connection already closed would be no step of the service, and so
is `Course`, for the abstract decision is the concrete return value.

*Student database* (`StudentDbProofs`). `IInv` adds `Checked` to the types and `RecordsInPlace`: what a test before
a system call guarantees after it, although the file may have changed or been emptied in between. From it follow

- `TypeCorrect`: the file never grows beyond the last id, scans stay inside,
- `InPlace`: `Spec => []RecordsInPlace`, for any number of processes and any failures,
- `Truthful`: `HSpec => AnswersWereTrue` if ids fit and no read fails. Its invariant `HInv` adds `Learned`, what a
  command in the middle of its work already knows about the past: a pending add's id has been absent, a pending delete's
  has been present, a scan has met everything before its position. Both assumptions are needed: a read error makes an
  add or a find answer about a student that was never away.

*Remote pipelines* (`RshPipelineProofs`). `IInv` adds to the types, for each place of the function, how far its loop
can be (`Place`), which of its own pipe ends the server holds there (`Held`: none, those made so far, all, or a part of
those the closing loop has still to do), that the commands before the one waited for have ended (`Waited`), and what a
command holds of its own pipeline between `fork()` and its end (`Kept`). `OwnEnds` alone is not inductive: what a child
keeps is cut from what it inherited, and that is all ends of the pipeline only because the server has made all of them
and closed none. The arithmetic of the closing loop, which goes over both ends of each pipe in turn, is the lemma
`LoopCoversEnds`. From it follow, for any number of handlers and commands,

- `TypeCorrect`, `OwnEndsCorrect`: `Spec => []OwnEnds`, `NoEndIsKept`: `Spec => []EndsReturned`,
- `WaitsForAll`: `Spec => WaitedForAll`, from `Waited` at the last `waitpid()` and from `Kept` for the entries beyond
  the pipeline.

*Command line parser* (`CmdParseProofs`). `InBounds` says where the two loops of `build_cmd_buff()` are and that the
entries of `argv` before `argc` are pointers. With it

- `ParserInBounds`: `Spec => []TypeOK`: no index leaves `argv`, no pointer the line, for any limits and lines,
- `ArgvIsTerminated`: `Spec => []ArgvEnded`: every `argv` that `execvp()` gets ends in NULL, whatever was taken out of
  it.

*Local shell* (`DshProofs`). `IInv` adds to the types how far a shell is in its line (`Place`), which pipe ends it
holds there (`Held`), whose child everybody is and that each living child of a shell is among the `kids` that it has
still to wait for (`Family`, unless a `fork()` has failed), and that the status `rc` owes is
what a shell has, or what the last of its children has left for it (`Code`). `Reaped` and `RcIsLast` are not inductive without
`Family`: nothing else excludes that two entries of `kids` are the same process, or that a child of one shell is
waited for by another. New process numbers are free because `fork()` takes the lowest free one, which exists by
well-foundedness of the natural numbers (`WFMin`). For any scripts, kinds of input and number of processes:

- `TypeCorrect`, `ShellReaps`: `Spec => []Reaped`, `ShellCloses`: `Spec => []EndsClosed`,
- `RcCorrect`: `Spec => []RcIsLast`.

*Lines of the input* (`DshLineProofs`). Two invariants beyond that of `DshProofs`. If no child of a pipeline lives on as
a shell (`Plain`), shell 1 is the only reader (`OneReader`): it has taken all lines up to some `k`, its buffer holds
the lines after `k`, and the offset is where the buffer ends, or before that if failing children move it back. If there
are more shells, those which can read the input or move its offset are a chain of parents and children of which only the
last is active (`Chain`); the buffer of a child is a copy of its parent's; a line before the offset has been taken, or is
in the buffer of the active one, or lost (`Past`, `AllPast`); a reader that leaves gives back what it had read ahead, or
had read nothing ahead (terminal), or leaves nothing untaken before the offset, or is killed, and then its lines are
lost; and what came by a pipe of a pipeline is not a line of the input.
TLC finds `Chain` to hold in all states of `dsh_safety` without failed `fork()`. From the two follow

- `CopiesAreHarmless`: `Spec => []CopiesHarmless`,
- `LinesInOrder`: `Spec => NoLineSkipped`, for the active reader by `Chain`, without second shells by `OneReader`. The only
  lines that are skipped are those in `lost`.

Its condition `~failed` is needed for a chain: after a failed `fork()` a shell reads on while its earlier children may
have become second shells.

*String utility* (`StringFunProofs`). What is right is said of the whole text: the squeezed string, its words, its first
target. The loops go over cells. `IInv` has the types and where the loops are (`Given`, `Loops`); each operation has an
invariant of its own that says what the cells up to its counter have of the text.

| theorem | what the invariant says during the loop |
|---|---|
| `TypeCorrect`, `StringStays`: `StaysInBuffer` | `IInv`: `end` is before the raw length, a word starts before `k` |
| `SetupRight`: `Spec => []SetupIsRight` | `Copying`, for all strings, with and without blanks at their ends: the cells hold the squeezed text of the characters read, the flag tells if the last one was a blank |
| `CountRight`: `Spec => []CountIsRight` | `Counting`: the count is the number of word starts in the cells before `k` |
| `PrintRight`: `Spec => []PrintIsRight` | `Printing`: the words printed are those that end before `k`, and one more has started if `start` is set |
| `ReverseRight`: `Spec => []ReverseIsRight` | `Reversing`: behind `end` are dots; then the cells between `k` and `end` hold the text, those outside its mirror image |
| `ReplaceRight`: `Spec => []ReplaceIsRight` | no loop: `ReplacedIs` finds the first place in the text by the one `strstr()` finds in memory, `TempIs` adds up lengths |

The step from one cell to the next is the lemma `OrderedAdd`: a number above all others comes last in the order of a
finite set and changes no place before it. The theorems hold for every buffer size, string and content of the memory
behind the buffer; "not longer than the buffer" is a condition inside of the properties, and it is about the raw length.

*What the proofs changed in the models.* The reference definitions in `CmdLine` and `StringFun` put positions in order
with `Ordered`, which counts, and no longer with `SetToSortSeq`, whose definition goes through an operator parameter
that the prover cannot instantiate; TLC finds the same states with both. A CASE with overlapping guards means, to the
prover, any of the values whose guard holds. Three definitions (`Ended` and `PipedChild` of `Dsh`, `Parsed` of `CmdLine`)
relied on the order in which TLC tries them; their guards now exclude each other, as the code's early returns do.

*Only model-checked.* Everything that needs fairness (`ThreadedAnswers`, `AnswersOnceUsersLeave`, `StopHonoured`,
`CommandsEnd`, `IsolatedPipelinesReturn`, `InputEnds`, `ParserEnds`), which is beyond the prover; and the refinement
`ParsesTheLine`, which relates every prefix of a line to the words and operators found in it.

## 5. What is left out

- Bytes, names, formats and messages; `g_print_mutex`, which guards `printf()` only.
- Segmentation of a single `send()`, except that a program's output may arrive in a segment that ends in 0x04. A client
  that sends several commands ahead cannot exist with this client program.
- Sockets among inherited descriptors: a child of one client's pipeline keeps other clients' sockets open, so a close by
  the server may be seen late. Descriptor numbers: the two `close()` calls on the error path (56 and 328) are one step.
  Both need a descriptor table in the model.
- A pipe that cannot be made ends the server; that is `PipelineExits` in `RshServer` and not in `RshPipeline`.
- `chdir()` of one client moves all of them; `rc` is executed as a program.
- In the database: partial writes, `-h` and wrong argument counts, the printed layout.
- In the local shell: the working directory that `cd` changes, the files redirections write, memory that is not freed,
  lines longer than the buffer (`fgets()` would make two of one), programs killed by a signal, whose `WEXITSTATUS()` is
  0 (SIGPIPE for copies of the shell is modelled), what a shell writes into a pipe before it ends (except that it may
  die of it, and leaves a prompt at its end), and `match_command()`, which nobody calls. What a first or unredirected
  program does with the shell's own input.
- In the string utility: usage messages and the layout of what is printed.
- `assn-3`, `assn-4` and the local mode of `assn-6`: other versions of the shell modelled from `assn-5`.

## 6. Plan

1. Descriptor numbers: `RshPipeline` with the server's table, the failing thread creation and inherited sockets, so that
   the two `close()` calls (56, 328) become two steps and a close that is seen late a state of the model.
2. Proofs: of `ParsesTheLine` the separation of commands and words, with `Ordered` as in `StringFunProofs`.
3. The contents of standard output buffers in `RshPipeline`: what a failing child flushes into the client's socket (651).
