------------------------------ MODULE RshConn ------------------------------
(***************************************************************************)
(* The TCP connections between dsh clients and the remote shell server of  *)
(* assn-6, as the socket calls of rsh_cli.c and rsh_server.c use them.     *)
(*                                                                         *)
(* A connection is named after the client process that opens it.  A        *)
(* message is one send() of the program; a recv() of the peer returns one  *)
(* or more whole messages, in order.  Bytes sent to a peer that has closed *)
(* are never read: they stay in the queue, and they are what makes that    *)
(* peer answer with a reset.                                               *)
(***************************************************************************)
EXTENDS Integers, Sequences, FiniteSets

CONSTANTS Clients,   \* the dsh client processes, one connection each
          Backlog,   \* the second argument of listen(), 20 in the code
          Lines,     \* the lines users type, a subset of Request
          Faults     \* what the environment does to the two programs

(***************************************************************************)
(* kill: a client process is killed.  nomem: malloc() returns NULL.        *)
(* nothread: pthread_create() fails.  noaccept: accept() fails.  nopipe:   *)
(* pipe() fails.  noboot: socket(), bind() or listen() fails.  eot: what a *)
(* program writes arrives in a segment whose last byte is 0x04.            *)
(***************************************************************************)
FaultKind == {"kill", "nomem", "nothread", "noaccept", "nopipe", "noboot", "eot"}

ASSUME ClientsAssumption == IsFiniteSet(Clients)
ASSUME BacklogAssumption == Backlog \in Nat \ {0}
ASSUME FaultsAssumption == Faults \subseteq FaultKind

VARIABLES listening,  \* the server's listening socket is open
          backlog,    \* connections established and not yet accepted
          c2s, s2c,   \* what each side has sent and the other not received
          cliEnd,     \* the client's endpoint: "none", "open", "closed"
          srvEnd      \* the server's endpoint: "none", "queued", "open", "closed"

connVars == <<listening, backlog, c2s, s2c, cliEnd, srvEnd>>

(***************************************************************************)
(* What a dsh user can type, told apart by what the server does with it.   *)
(* A leading space hides a built-in from the strcmp() tests on the raw     *)
(* line and leaves it to the parsed command list.                          *)
(***************************************************************************)
StopRequest    == {"stop-server", " stop-server"}
ExitRequest    == {"exit", " exit"}
MessageRequest == {"unparsable", "cd"}
Request        == StopRequest \cup ExitRequest \cup MessageRequest \cup {"program"}

ASSUME LinesAssumption == Lines \subseteq Request

\* What the server sends: text, or the end-of-response byte 0x04.
Response == {"data", "eof"}

ConnTypeOK ==
  /\ listening \in BOOLEAN
  /\ backlog \in Seq(Clients)
  /\ c2s \in [Clients -> Seq(Request)]
  /\ s2c \in [Clients -> Seq(Response)]
  /\ cliEnd \in [Clients -> {"none", "open", "closed"}]
  /\ srvEnd \in [Clients -> {"none", "queued", "open", "closed"}]

ConnInit ==
  /\ listening = FALSE
  /\ backlog = <<>>
  /\ c2s = [c \in Clients |-> <<>>]
  /\ s2c = [c \in Clients |-> <<>>]
  /\ cliEnd = [c \in Clients |-> "none"]
  /\ srvEnd = [c \in Clients |-> "none"]

\* Data reached an endpoint nobody reads any more: the peer has sent a reset.
Reset(c) == cliEnd[c] = "closed" /\ s2c[c] # <<>>

\* The client's socket closes, by close() or because its process ended.
HangUp(c) == cliEnd' = [cliEnd EXCEPT ![c] = "closed"]

\* The server's endpoints after those in a state of S are closed.
Dropped(S) ==
  [c \in Clients |-> IF srvEnd[c] \in S THEN "closed" ELSE srvEnd[c]]
=============================================================================
