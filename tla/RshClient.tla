----------------------------- MODULE RshClient -----------------------------
(***************************************************************************)
(* exec_remote_cmd_loop() of assn-6/rsh_cli.c: one process per client.     *)
(* A client connects, then alternates between its prompt and waiting for   *)
(* the end of the response to the one command it has sent.                 *)
(***************************************************************************)
EXTENDS RshConn

VARIABLES cli,          \* where the client process is
          cmd_buff, \* cmd_buff: the last line sent, "" before the first
          ret           \* what exec_remote_cmd_loop() returned, "" before

clientVars == <<cli, cmd_buff, ret>>

ClientReturn == {"", "OK", "ERR_MEMORY", "ERR_RDSH_CLIENT", "ERR_RDSH_COMMUNICATION"}

ClientTypeOK ==
  /\ cli \in [Clients -> {"away", "prompt", "waiting", "left", "killed"}]
  /\ cmd_buff \in [Clients -> Request \cup {""}]
  /\ ret \in [Clients -> ClientReturn]

ClientInit ==
  /\ cli = [c \in Clients |-> "away"]
  /\ cmd_buff = [c \in Clients |-> ""]
  /\ ret = [c \in Clients |-> ""]

\* The client has no business with the server any more.
Gone(c) == cli[c] \in {"left", "killed"}

\* client_cleanup(): close the socket, free both buffers, hand back v.
CleanUp(c, v) ==
  /\ HangUp(c)
  /\ cli' = [cli EXCEPT ![c] = "left"]
  /\ ret' = [ret EXCEPT ![c] = v]

\* start_client(): the connection is established once it is in the backlog.
Connect(c) ==
  /\ cli[c] = "away"
  /\ listening
  /\ Len(backlog) < Backlog
  /\ backlog' = Append(backlog, c)
  /\ cliEnd' = [cliEnd EXCEPT ![c] = "open"]
  /\ srvEnd' = [srvEnd EXCEPT ![c] = "queued"]
  /\ cli' = [cli EXCEPT ![c] = "prompt"]
  /\ UNCHANGED <<listening, c2s, s2c, cmd_buff, ret>>

\* No memory for the buffers, or nobody listens on the port.
ConnectFails(c) ==
  /\ cli[c] = "away"
  /\ \/ ~listening /\ ret' = [ret EXCEPT ![c] = "ERR_RDSH_CLIENT"]
     \/ "nomem" \in Faults /\ ret' = [ret EXCEPT ![c] = "ERR_MEMORY"]
  /\ cli' = [cli EXCEPT ![c] = "left"]
  /\ UNCHANGED <<connVars, cmd_buff>>

\* fgets() returned a line, send() took it; only a plain `exit` ends the loop.
SendCommand(c, r) ==
  /\ cli[c] = "prompt"
  /\ cmd_buff' = [cmd_buff EXCEPT ![c] = r]
  /\ c2s' = [c2s EXCEPT ![c] = Append(@, r)]
  /\ IF r = "exit"
       THEN CleanUp(c, "OK")
       ELSE /\ cli' = [cli EXCEPT ![c] = "waiting"]
            /\ UNCHANGED <<cliEnd, ret>>
  /\ UNCHANGED <<listening, backlog, s2c, srvEnd>>

\* The server's end is closed and has answered with a reset: send() fails.
SendFails(c, r) ==
  /\ cli[c] = "prompt"
  /\ srvEnd[c] = "closed"
  /\ cmd_buff' = [cmd_buff EXCEPT ![c] = r]
  /\ CleanUp(c, "ERR_RDSH_COMMUNICATION")
  /\ UNCHANGED <<listening, backlog, c2s, s2c, srvEnd>>

\* fgets() returned NULL at the prompt.
EndOfInput(c) ==
  /\ cli[c] = "prompt"
  /\ CleanUp(c, "OK")
  /\ UNCHANGED <<listening, backlog, c2s, s2c, srvEnd, cmd_buff>>

\* Mutant of RecvResponse: one recv() is taken for the whole response.
RecvOnce(c) ==
  /\ cli[c] = "waiting"
  /\ \E k \in 1 .. Len(s2c[c]) :
       s2c' = [s2c EXCEPT ![c] = SubSeq(@, k + 1, Len(@))]
  /\ cli' = [cli EXCEPT ![c] = "prompt"]
  /\ UNCHANGED <<listening, backlog, c2s, cliEnd, srvEnd, cmd_buff, ret>>

(***************************************************************************)
(* One recv() of the response loop takes whatever has arrived, k messages; *)
(* the loop ends if the last byte of them is the EOF character.            *)
(***************************************************************************)
RecvResponse(c) ==
  /\ cli[c] = "waiting"
  /\ \E k \in 1 .. Len(s2c[c]) :
       /\ s2c' = [s2c EXCEPT ![c] = SubSeq(@, k + 1, Len(@))]
       /\ cli' = [cli EXCEPT ![c] = IF s2c[c][k] = "eof" THEN "prompt" ELSE @]
  /\ UNCHANGED <<listening, backlog, c2s, cliEnd, srvEnd, cmd_buff, ret>>

\* recv() returned 0 or an error: "server appeared to terminate".
RecvClosed(c) ==
  /\ cli[c] = "waiting"
  /\ s2c[c] = <<>>
  /\ srvEnd[c] = "closed"
  /\ CleanUp(c, "ERR_RDSH_COMMUNICATION")
  /\ UNCHANGED <<listening, backlog, c2s, s2c, srvEnd, cmd_buff>>

\* The process is killed: the kernel closes its socket, nothing is returned.
Kill(c) ==
  /\ "kill" \in Faults
  /\ cli[c] \in {"prompt", "waiting"}
  /\ HangUp(c)
  /\ cli' = [cli EXCEPT ![c] = "killed"]
  /\ UNCHANGED <<listening, backlog, c2s, s2c, srvEnd, cmd_buff, ret>>

\* The steps a client takes without its user: it reads what arrives.
ClientReads(c) == RecvResponse(c) \/ RecvClosed(c)
=============================================================================
