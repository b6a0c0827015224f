----------------------------- MODULE RshSystem -----------------------------
(***************************************************************************)
(* The remote shell of assn-6: dsh clients (RshClient) and one server      *)
(* (RshServer) over their TCP connections (RshConn), and the properties of *)
(* the whole.                                                              *)
(***************************************************************************)
EXTENDS RshClient, RshServer

vars == <<connVars, clientVars, serverVars>>

Init == ConnInit /\ ClientInit /\ ServerInit

\* Every process has come to its end.
Finished ==
  /\ proc # "running"
  /\ \A c \in Clients : Gone(c)
  /\ UNCHANGED vars

Next ==
  \/ \E c \in Clients :
       \/ Connect(c) /\ UNCHANGED serverVars
       \/ ConnectFails(c) /\ UNCHANGED serverVars
       \/ (\E r \in Lines : SendCommand(c, r)) /\ UNCHANGED serverVars
       \/ (\E r \in Lines : SendFails(c, r)) /\ UNCHANGED serverVars
       \/ EndOfInput(c) /\ UNCHANGED serverVars
       \/ RecvResponse(c) /\ UNCHANGED serverVars
       \/ RecvClosed(c) /\ UNCHANGED serverVars
       \/ Kill(c) /\ UNCHANGED serverVars
       \/ RecvCommand(c) /\ UNCHANGED clientVars
       \/ RecvGone(c) /\ UNCHANGED clientVars
       \/ SendMessage(c) /\ UNCHANGED clientVars
       \/ SendMessageEof(c) /\ UNCHANGED clientVars
       \/ RunPipeline(c) /\ UNCHANGED clientVars
       \/ PipelineExits(c) /\ UNCHANGED clientVars
       \/ SendPipelineEof(c) /\ UNCHANGED clientVars
       \/ HandlerStart(c) /\ UNCHANGED clientVars
       \/ HandlerClose(c) /\ UNCHANGED clientVars
       \/ HandlerStop(c) /\ UNCHANGED clientVars
       \/ HandlerLeave(c) /\ UNCHANGED clientVars
  \/ Boot /\ UNCHANGED clientVars
  \/ BootFails /\ UNCHANGED clientVars
  \/ CheckStop /\ UNCHANGED clientVars
  \/ SelectTimeout /\ UNCHANGED clientVars
  \/ Accept /\ UNCHANGED clientVars
  \/ AcceptFails /\ UNCHANGED clientVars
  \/ Spawn /\ UNCHANGED clientVars
  \/ SpawnFails /\ UNCHANGED clientVars
  \/ ServeClose /\ UNCHANGED clientVars
  \/ ServeNext /\ UNCHANGED clientVars
  \/ StopServer /\ UNCHANGED clientVars
  \/ ExitProcess /\ UNCHANGED clientVars
  \/ Finished

(***************************************************************************)
(* The operating system schedules every thread of the server, and a client *)
(* that waits in recv() returns from it.  Nothing makes a user type.  And  *)
(* nothing makes a pipeline return: a thread in waitpid() is scheduled, but *)
(* the programs may run for ever, read the client's socket, or wait for an *)
(* end of file that inherited pipe ends keep away (rsh_server.c:664-666).  *)
(***************************************************************************)
Fairness ==
  /\ WF_vars(MainStep /\ UNCHANGED clientVars)
  /\ \A c \in Clients :
       /\ WF_vars(req[c] # "run" /\ RequestStep(c) /\ UNCHANGED clientVars)
       /\ WF_vars(HandlerStep(c) /\ UNCHANGED clientVars)
       /\ WF_vars(ClientReads(c) /\ UNCHANGED serverVars)

Spec == Init /\ [][Next]_vars /\ Fairness

TypeOK == ConnTypeOK /\ ClientTypeOK /\ ServerTypeOK

-----------------------------------------------------------------------------
(***************************************************************************)
(* Safety.                                                                 *)
(***************************************************************************)

\* The handler threads between their increment and their decrement.
Counted == {c \in Clients : thread[c] \in {"serving", "stopping", "leaving"}}

\* g_active_clients is the number of handler threads that have counted
\* themselves and not yet left: no path through handle_client() loses or
\* repeats an update (rsh_server.c:69-71, 91-93).
ActiveIsCounted == g_active_clients = Cardinality(Counted)

\* Every server-side socket that is open has exactly one owner that will
\* close it: the main thread or the handler of that client, never both and
\* never neither, whatever failed on the way (rsh_server.c:48, 56, 73, 333).
SocketsOwned ==
  \A c \in Clients :
    LET byMain    == cli_socket = c /\ main \in {"spawn", "serve"}
        byHandler == thread[c] \in {"new", "serving"}
    IN  srvEnd[c] = "open" => byMain # byHandler

\* Client and server take turns: when a client is at its prompt nothing is
\* left over from its last command, in the network or on the server.  Every
\* branch of exec_client_requests() owes exactly one EOF byte to this
\* (rsh_server.c:435-497, rsh_cli.c:148-169).
LockStep ==
  \A c \in Clients :
    cli[c] = "prompt" =>
      /\ c2s[c] = <<>> /\ s2c[c] = <<>>
      /\ req[c] \in {"none", "recv", "returned"}

\* A send to a client that has left is the only way a message ends the
\* server, and it takes a client killed while it waited for a response: one
\* that leaves by itself has nothing outstanding (rsh_server.c:523, 552).
OnlyKilledClientsReset ==
  \A c \in Clients : Reset(c) => cli[c] = "killed"

\* The accept loop of the multi-threaded server ends in good order only when
\* some client has asked for the stop, and then every handler thread that
\* has started has closed its connection and finished (rsh_server.c:303-306).
OrderlyStop ==
  [][retcode' = "OK_EXIT" /\ retcode = "" =>
       /\ \E c \in Clients : rc[c] = "OK_EXIT" /\ srvEnd[c] = "closed"
       /\ \A c \in Clients : req[c] # "none" => srvEnd[c] = "closed"]_vars

-----------------------------------------------------------------------------
(***************************************************************************)
(* Liveness.                                                               *)
(***************************************************************************)

\* No pipeline runs for ever: a premise, for the server cannot make one return,
\* and two of threaded handlers may keep each other from it (PipelinesReturn of
\* RshPipeline).
PipelinesEnd == \A c \in Clients : []<>(req[c] # "run")

\* With handler threads a command is answered, or the connection ends, however
\* long other users sit at their prompts, provided that pipelines return.  That
\* of another client matters, too: its children have a copy of this client's
\* socket, so that a close by the server shows only when they have ended
\* (rsh_server.c:324-329, 645).
ThreadedAnswers ==
  PipelinesEnd =>
    \A c \in Clients : g_is_threaded /\ cli[c] = "waiting" ~> cli[c] # "waiting"

\* In either mode a command is answered, or the connection ends, provided
\* every user stops coming back to the prompt and every pipeline returns: the
\* single-threaded server gets round to the clients in its backlog
\* (rsh_server.c:291-344).
AnswersOnceUsersLeave ==
  PipelinesEnd /\ (\A d \in Clients : <>[](cli[d] # "prompt")) =>
    \A c \in Clients : cli[c] = "waiting" ~> cli[c] # "waiting"

\* A stop request is not forgotten: the process ends, provided that every
\* client leaves in the end, which one that waits for a pipeline that never
\* returns does not (rsh_server.c:81-84, 299-306, 335-339).
StopHonoured ==
  (\A d \in Clients : <>Gone(d)) =>
    ((\E c \in Clients : rc[c] = "OK_EXIT") ~> proc # "running")

-----------------------------------------------------------------------------
(***************************************************************************)
(* The server implements its abstract specification.                       *)
(***************************************************************************)
ServiceWhere ==
  [c \in Clients |->
     CASE srvEnd[c] = "none"   -> "outside"
       [] srvEnd[c] = "queued" -> "waiting"
       [] srvEnd[c] = "open"   -> IF req[c] = "none" THEN "waiting" ELSE "inService"
       [] srvEnd[c] = "closed" -> "gone"]

ServicePhase ==
  CASE proc = "killed" -> "crashed"
    [] proc = "exited" -> IF main # "done" THEN "crashed"
                          ELSE IF retcode = "OK_EXIT" THEN "stopped" ELSE "failed"
    [] proc = "running" -> IF retcode = "" THEN "up"
                           ELSE IF retcode = "OK_EXIT" THEN "closing" ELSE "failing"

Service == INSTANCE RshService
             WITH where <- ServiceWhere,
                  asked <- \E c \in Clients : rc[c] = "OK_EXIT",
                  phase <- ServicePhase

\* Seen from its clients the server behaves as RshService allows.
ServiceSpec == Service!Spec

-----------------------------------------------------------------------------
(***************************************************************************)
(* What the documentation says and the code does not do.                   *)
(***************************************************************************)

\* rsh_server.c:354-361: the loop that serves a client ends when the client
\* executes exit or stop-server; so an accepted client that is still there
\* does not lose its connection to an orderly stop.
AcceptedAreServed ==
  proc = "exited" /\ retcode = "OK_EXIT" =>
    \A c \in Clients : thread[c] \in {"none", "done"} \/ Gone(c)

\* rsh_server.c:515-516: when send() fails the function returns
\* ERR_RDSH_COMMUNICATION; so the failure of one send does not end the server.
SendErrorsReturn == proc # "killed"
=============================================================================
