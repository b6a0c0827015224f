----------------------------- MODULE RshServer -----------------------------
(***************************************************************************)
(* The remote shell server of assn-6/rsh_server.c: the accept loop of      *)
(* process_cli_requests(), the handler threads of its multi-threaded mode, *)
(* and exec_client_requests(), which either of them runs for a client.     *)
(*                                                                         *)
(* A critical section of g_mutex is one step: it reads or writes the two   *)
(* shared variables once.  g_print_mutex only guards printf() and is left  *)
(* out.  A pipeline is one step that produces output and an exit status;   *)
(* nothing obliges it to come.                                             *)
(***************************************************************************)
EXTENDS RshConn

CONSTANT None  \* no client

ASSUME NoneAssumption == None \notin Clients

VARIABLES proc,             \* the server process: "running", "exited", "killed"
          main,             \* program counter of the main thread
          cli_socket,       \* the main thread's current client, None if none
          retcode,          \* what process_cli_requests() returned, "" before
          thread,           \* program counter of handle_client(), per client
          req,              \* program counter of exec_client_requests()
          rc,               \* what exec_client_requests() returned, "" before
          cmd_rc,           \* exit status of the pipeline last executed
          g_is_threaded, g_should_stop, g_active_clients

threadVars == <<proc, main, cli_socket, retcode, thread>>
reqVars    == <<req, rc, cmd_rc>>
globalVars == <<g_is_threaded, g_should_stop, g_active_clients>>
serverVars == <<threadVars, reqVars, globalVars>>

\* The exit statuses the server tells apart: EXIT_SC is 100, STOP_SERVER_SC is
\* 200, and 0 stands for every other one.
Status == {0, 100, 200}

\* Main thread: where process_cli_requests() and its callers stand.
MainPC   == {"boot", "check", "select", "spawn", "serve", "served", "stop", "return", "done"}
\* handle_client(): "new" is created and not yet scheduled.
ThreadPC == {"none", "new", "serving", "stopping", "leaving", "done"}
\* exec_client_requests(): "message" and "eof" are the sends of a text reply,
\* "run" and "runeof" the pipeline and the EOF byte after it.
ReqPC    == {"none", "recv", "message", "eof", "run", "runeof", "returned"}

ServerTypeOK ==
  /\ proc \in {"running", "exited", "killed"}
  /\ main \in MainPC
  /\ cli_socket \in Clients \cup {None}
  /\ retcode \in {"", "OK_EXIT", "ERR_RDSH_COMMUNICATION"}
  /\ thread \in [Clients -> ThreadPC]
  /\ req \in [Clients -> ReqPC]
  /\ rc \in [Clients -> {"", "OK", "OK_EXIT", "ERR_RDSH_SERVER"}]
  /\ cmd_rc \in [Clients -> Status]
  /\ g_is_threaded \in BOOLEAN
  /\ g_should_stop \in BOOLEAN
  /\ g_active_clients \in Nat

ServerInit ==
  /\ proc = "running"
  /\ main = "boot"
  /\ cli_socket = None
  /\ retcode = ""
  /\ thread = [c \in Clients |-> "none"]
  /\ req = [c \in Clients |-> "none"]
  /\ rc = [c \in Clients |-> ""]
  /\ cmd_rc = [c \in Clients |-> 0]
  /\ g_is_threaded \in BOOLEAN
  /\ g_should_stop = FALSE
  /\ g_active_clients = 0

-----------------------------------------------------------------------------
(***************************************************************************)
(* exec_client_requests(cli_socket), run by the main thread or a handler.  *)
(***************************************************************************)

\* The process ends: every thread stops and every socket of it closes.
EndProcess(how) ==
  /\ proc' = how
  /\ listening' = FALSE
  /\ backlog' = <<>>
  /\ srvEnd' = Dropped({"queued", "open"})

\* The activation of exec_client_requests() for c returns v.
Return(c, v) ==
  /\ req' = [req EXCEPT ![c] = "returned"]
  /\ rc' = [rc EXCEPT ![c] = v]

Goto(c, pc) == req' = [req EXCEPT ![c] = pc] /\ UNCHANGED rc

\* The call: with no memory for io_buff it returns at once.
CallRequests(c) ==
  /\ \/ Goto(c, "recv")
     \/ "nomem" \in Faults /\ Return(c, "ERR_RDSH_SERVER")
  /\ UNCHANGED cmd_rc

(***************************************************************************)
(* send() without MSG_NOSIGNAL.  A peer that has closed takes no data: the *)
(* first send draws a reset, and a send after the reset raises SIGPIPE,    *)
(* whose default action ends the process.                                  *)
(***************************************************************************)
Send(c, m) ==
  /\ s2c' = [s2c EXCEPT ![c] = Append(@, m)]
  /\ UNCHANGED <<listening, backlog, c2s, cliEnd, srvEnd, threadVars, globalVars>>

SigPipe(c) ==
  /\ Reset(c)
  /\ EndProcess("killed")
  /\ UNCHANGED <<c2s, s2c, cliEnd, main, cli_socket, retcode, thread, reqVars, globalVars>>

\* recv() took k commands; each ends in a NUL, so only the first one is seen.
RecvCommand(c) ==
  /\ proc = "running"
  /\ req[c] = "recv"
  /\ \E k \in 1 .. Len(c2s[c]) :
       c2s' = [c2s EXCEPT ![c] = SubSeq(@, k + 1, Len(@))]
  /\ LET r == Head(c2s[c]) IN
       \/ r \in ExitRequest /\ Return(c, "OK")
       \/ r \in StopRequest /\ Return(c, "OK_EXIT")
       \/ r \in MessageRequest /\ Goto(c, "message")
       \/ r = "program" /\ Goto(c, "run")
  /\ UNCHANGED <<listening, backlog, s2c, cliEnd, srvEnd, threadVars, cmd_rc, globalVars>>

\* Mutant of RecvGone: only a negative result of recv() ends the loop.
RecvGoneIgnored(c) ==
  /\ proc = "running"
  /\ req[c] = "recv"
  /\ c2s[c] = <<>>
  /\ cliEnd[c] = "closed"
  /\ UNCHANGED <<connVars, threadVars, reqVars, globalVars>>

\* recv() returned 0: the client has closed and all it sent has been read.
RecvGone(c) ==
  /\ proc = "running"
  /\ req[c] = "recv"
  /\ c2s[c] = <<>>
  /\ cliEnd[c] = "closed"
  /\ Return(c, "OK")
  /\ UNCHANGED <<connVars, threadVars, cmd_rc, globalVars>>

\* send_message_string(): the text, then send_message_eof().
SendMessage(c) ==
  /\ proc = "running"
  /\ req[c] = "message"
  /\ \/ Send(c, "data") /\ Goto(c, "eof") /\ UNCHANGED cmd_rc
     \/ SigPipe(c)

\* Mutant of SendMessageEof: no `continue` after a text reply.
SendMessageFallsThrough(c) ==
  /\ proc = "running"
  /\ req[c] = "eof"
  /\ \/ Send(c, "eof") /\ Goto(c, "runeof") /\ UNCHANGED cmd_rc
     \/ SigPipe(c)

SendMessageEof(c) ==
  /\ proc = "running"
  /\ req[c] = "eof"
  /\ \/ Send(c, "eof") /\ Goto(c, "recv") /\ UNCHANGED cmd_rc
     \/ SigPipe(c)

(***************************************************************************)
(* rsh_execute_pipeline(): the children write to the client's socket and   *)
(* the server waits for all of them.  Output to a client that has gone     *)
(* ends the child that writes it and not the server.                       *)
(***************************************************************************)
RunPipeline(c) ==
  /\ proc = "running"
  /\ req[c] = "run"
  /\ \E out \in {<<>>, <<"data">>} \cup (IF "eot" \in Faults THEN {<<"eof">>} ELSE {}) :
       s2c' = [s2c EXCEPT ![c] = @ \o out]
  /\ \E st \in Status : cmd_rc' = [cmd_rc EXCEPT ![c] = st]
  /\ Goto(c, "runeof")
  /\ UNCHANGED <<listening, backlog, c2s, cliEnd, srvEnd, threadVars, globalVars>>

\* pipe() failed: rsh_execute_pipeline() calls exit(EXIT_FAILURE).  (A line whose
\* first command has no word, but quotes, ends the process just before that: its
\* NULL is compared with the built-in names.)
PipelineExits(c) ==
  /\ proc = "running"
  /\ req[c] = "run"
  /\ "nopipe" \in Faults
  /\ EndProcess("exited")
  /\ UNCHANGED <<c2s, s2c, cliEnd, main, cli_socket, retcode, thread, reqVars, globalVars>>

\* send_message_eof(), then the exit status may end the connection.
SendPipelineEof(c) ==
  /\ proc = "running"
  /\ req[c] = "runeof"
  /\ \/ /\ Send(c, "eof")
        /\ \/ cmd_rc[c] = 100 /\ Return(c, "OK")
           \/ cmd_rc[c] = 200 /\ Return(c, "OK_EXIT")
           \/ cmd_rc[c] = 0 /\ Goto(c, "recv")
        /\ UNCHANGED cmd_rc
     \/ SigPipe(c)

RequestStep(c) ==
  \/ RecvCommand(c) \/ RecvGone(c)
  \/ SendMessage(c) \/ SendMessageEof(c)
  \/ RunPipeline(c) \/ PipelineExits(c) \/ SendPipelineEof(c)

-----------------------------------------------------------------------------
(***************************************************************************)
(* handle_client(), the body of a handler thread.                          *)
(***************************************************************************)

\* Mutant of HandlerStart: the increment is lost.
HandlerStartUncounted(c) ==
  /\ proc = "running"
  /\ thread[c] = "new"
  /\ thread' = [thread EXCEPT ![c] = "serving"]
  /\ CallRequests(c)
  /\ UNCHANGED <<connVars, proc, main, cli_socket, retcode, globalVars>>

\* The thread is scheduled: it counts itself and starts serving.
HandlerStart(c) ==
  /\ proc = "running"
  /\ thread[c] = "new"
  /\ thread' = [thread EXCEPT ![c] = "serving"]
  /\ g_active_clients' = g_active_clients + 1
  /\ CallRequests(c)
  /\ UNCHANGED <<connVars, proc, main, cli_socket, retcode, g_is_threaded, g_should_stop>>

\* exec_client_requests() has returned: close(cli_socket), look at its result.
HandlerClose(c) ==
  /\ proc = "running"
  /\ thread[c] = "serving"
  /\ req[c] = "returned"
  /\ srvEnd' = [srvEnd EXCEPT ![c] = "closed"]
  /\ thread' = [thread EXCEPT ![c] = IF rc[c] = "OK_EXIT" THEN "stopping" ELSE "leaving"]
  /\ UNCHANGED <<listening, backlog, c2s, s2c, cliEnd, proc, main, cli_socket, retcode,
                 reqVars, globalVars>>

\* Mutant of HandlerStop: the thread returns without its decrement.
HandlerStopReturns(c) ==
  /\ proc = "running"
  /\ thread[c] = "stopping"
  /\ g_should_stop' = TRUE
  /\ thread' = [thread EXCEPT ![c] = "done"]
  /\ UNCHANGED <<connVars, proc, main, cli_socket, retcode, reqVars,
                 g_is_threaded, g_active_clients>>

HandlerStop(c) ==
  /\ proc = "running"
  /\ thread[c] = "stopping"
  /\ g_should_stop' = TRUE
  /\ thread' = [thread EXCEPT ![c] = "leaving"]
  /\ UNCHANGED <<connVars, proc, main, cli_socket, retcode, reqVars,
                 g_is_threaded, g_active_clients>>

\* Mutant of HandlerLeave: the thread never counts itself out.
HandlerLeaveCounted(c) ==
  /\ proc = "running"
  /\ thread[c] = "leaving"
  /\ thread' = [thread EXCEPT ![c] = "done"]
  /\ UNCHANGED <<connVars, proc, main, cli_socket, retcode, reqVars, globalVars>>

HandlerLeave(c) ==
  /\ proc = "running"
  /\ thread[c] = "leaving"
  /\ g_active_clients' = g_active_clients - 1
  /\ thread' = [thread EXCEPT ![c] = "done"]
  /\ UNCHANGED <<connVars, proc, main, cli_socket, retcode, reqVars,
                 g_is_threaded, g_should_stop>>

HandlerStep(c) ==
  HandlerStart(c) \/ HandlerClose(c) \/ HandlerStop(c) \/ HandlerLeave(c)

-----------------------------------------------------------------------------
(***************************************************************************)
(* The main thread: start_server() and process_cli_requests().             *)
(***************************************************************************)

\* boot_server(): the socket listens from here on.
Boot ==
  /\ proc = "running"
  /\ main = "boot"
  /\ main' = "check"
  /\ listening' = TRUE
  /\ UNCHANGED <<backlog, c2s, s2c, cliEnd, srvEnd, proc, cli_socket, retcode, thread,
                 reqVars, globalVars>>

\* boot_server() failed: start_server() returns its error code.
BootFails ==
  /\ proc = "running"
  /\ main = "boot"
  /\ "noboot" \in Faults
  /\ main' = "return"
  /\ retcode' = "ERR_RDSH_COMMUNICATION"
  /\ UNCHANGED <<connVars, proc, cli_socket, thread, reqVars, globalVars>>

\* Mutant of CheckStop: the loop ends without looking at g_active_clients.
CheckStopFlagOnly ==
  /\ proc = "running"
  /\ main = "check"
  /\ IF g_should_stop
       THEN main' = "stop" /\ retcode' = "OK_EXIT"
       ELSE main' = "select" /\ UNCHANGED retcode
  /\ UNCHANGED <<connVars, proc, cli_socket, thread, reqVars, globalVars>>

\* Mutant of CheckStop: the main thread joins the handler it has created.
CheckStopJoins ==
  /\ proc = "running"
  /\ main = "check"
  /\ \A c \in Clients : thread[c] \in {"none", "done"}
  /\ IF g_should_stop /\ g_active_clients = 0
       THEN main' = "stop" /\ retcode' = "OK_EXIT"
       ELSE main' = "select" /\ UNCHANGED retcode
  /\ UNCHANGED <<connVars, proc, cli_socket, thread, reqVars, globalVars>>

\* Top of the loop: both shared variables read under one lock.
CheckStop ==
  /\ proc = "running"
  /\ main = "check"
  /\ IF g_should_stop /\ g_active_clients = 0
       THEN main' = "stop" /\ retcode' = "OK_EXIT"
       ELSE main' = "select" /\ UNCHANGED retcode
  /\ UNCHANGED <<connVars, proc, cli_socket, thread, reqVars, globalVars>>

\* select() with nothing to accept times out after a second.
SelectTimeout ==
  /\ proc = "running"
  /\ main = "select"
  /\ backlog = <<>>
  /\ main' = "check"
  /\ UNCHANGED <<connVars, proc, cli_socket, retcode, thread, reqVars, globalVars>>

\* accept(), then a thread for the client or the main thread itself.
Accept ==
  /\ proc = "running"
  /\ main = "select"
  /\ backlog # <<>>
  /\ LET c == Head(backlog) IN
       /\ cli_socket' = c
       /\ srvEnd' = [srvEnd EXCEPT ![c] = "open"]
       /\ IF g_is_threaded
            THEN main' = "spawn" /\ UNCHANGED reqVars
            ELSE main' = "serve" /\ CallRequests(c)
  /\ backlog' = Tail(backlog)
  /\ UNCHANGED <<listening, c2s, s2c, cliEnd, proc, retcode, thread, globalVars>>

AcceptFails ==
  /\ proc = "running"
  /\ main = "select"
  /\ backlog # <<>>
  /\ "noaccept" \in Faults
  /\ main' = "stop"
  /\ retcode' = "ERR_RDSH_COMMUNICATION"
  /\ UNCHANGED <<connVars, proc, cli_socket, thread, reqVars, globalVars>>

\* exec_client_thread(): the thread exists, but has not run yet.
Spawn ==
  /\ proc = "running"
  /\ main = "spawn"
  /\ thread' = [thread EXCEPT ![cli_socket] = "new"]
  /\ main' = "check"
  /\ cli_socket' = None
  /\ UNCHANGED <<connVars, proc, retcode, reqVars, globalVars>>

\* Mutant of SpawnFails: nobody closes the socket.
SpawnFailsOpen ==
  /\ proc = "running"
  /\ main = "spawn"
  /\ {"nomem", "nothread"} \cap Faults # {}
  /\ main' = "check"
  /\ cli_socket' = None
  /\ UNCHANGED <<connVars, proc, retcode, thread, reqVars, globalVars>>

\* malloc() or pthread_create() failed: the socket is closed, here and again
\* by the caller, and the loop goes on.
SpawnFails ==
  /\ proc = "running"
  /\ main = "spawn"
  /\ {"nomem", "nothread"} \cap Faults # {}
  /\ srvEnd' = [srvEnd EXCEPT ![cli_socket] = "closed"]
  /\ main' = "check"
  /\ cli_socket' = None
  /\ UNCHANGED <<listening, backlog, c2s, s2c, cliEnd, proc, retcode, thread, reqVars, globalVars>>

\* Single-threaded mode: exec_client_requests() has returned, close(cli_socket).
ServeClose ==
  /\ proc = "running"
  /\ main = "serve"
  /\ req[cli_socket] = "returned"
  /\ srvEnd' = [srvEnd EXCEPT ![cli_socket] = "closed"]
  /\ main' = "served"
  /\ UNCHANGED <<listening, backlog, c2s, s2c, cliEnd, proc, cli_socket, retcode, thread,
                 reqVars, globalVars>>

\* Mutant of ServeNext: every negative return code ends the loop.
ServeNextNegative ==
  /\ proc = "running"
  /\ main = "served"
  /\ IF rc[cli_socket] # "OK"
       THEN main' = "stop" /\ retcode' = "OK_EXIT"
       ELSE main' = "check" /\ UNCHANGED retcode
  /\ cli_socket' = None
  /\ UNCHANGED <<connVars, proc, thread, reqVars, globalVars>>

\* OK_EXIT breaks out of the loop; every other return code goes round again.
ServeNext ==
  /\ proc = "running"
  /\ main = "served"
  /\ IF rc[cli_socket] = "OK_EXIT"
       THEN main' = "stop" /\ retcode' = "OK_EXIT"
       ELSE main' = "check" /\ UNCHANGED retcode
  /\ cli_socket' = None
  /\ UNCHANGED <<connVars, proc, thread, reqVars, globalVars>>

\* stop_server(): connections nobody accepted are reset.
StopServer ==
  /\ proc = "running"
  /\ main = "stop"
  /\ main' = "return"
  /\ listening' = FALSE
  /\ backlog' = <<>>
  /\ srvEnd' = Dropped({"queued"})
  /\ UNCHANGED <<c2s, s2c, cliEnd, proc, cli_socket, retcode, thread, reqVars, globalVars>>

\* main() of dsh_cli.c returns: the process ends, with its detached threads.
ExitProcess ==
  /\ proc = "running"
  /\ main = "return"
  /\ main' = "done"
  /\ EndProcess("exited")
  /\ UNCHANGED <<c2s, s2c, cliEnd, cli_socket, retcode, thread, reqVars, globalVars>>

MainStep ==
  \/ Boot \/ BootFails \/ CheckStop \/ SelectTimeout \/ Accept \/ AcceptFails
  \/ Spawn \/ SpawnFails \/ ServeClose \/ ServeNext \/ StopServer \/ ExitProcess
=============================================================================
