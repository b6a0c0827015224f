------------------------- MODULE RshProtocolProofs -------------------------
(***************************************************************************)
(* The protocol of the remote shell: client and server take turns, and     *)
(* only a client that was killed resets its connection.  Both hold for any *)
(* number of clients and any backlog, as long as no segment of a program's *)
(* output ends in the byte that ends a response (fault "eot").             *)
(***************************************************************************)
EXTENDS RshProofs

USE DEF connVars, clientVars, threadVars, reqVars, globalVars, serverVars, vars

-----------------------------------------------------------------------------
(***************************************************************************)
(* The course of the server: what the main thread is about to return, and  *)
(* that work for a connection is over when it has been closed.             *)
(***************************************************************************)

\* What the main thread will return, and that only a running server listens.
Course ==
  /\ listening => proc = "running"
  /\ proc = "running" => main # "done"
  /\ main \in {"stop", "return"} <=> retcode # "" /\ main # "done"
  /\ main = "done" => retcode # ""

\* Nobody on a running server works for a connection that is closed.
Settled ==
  \A c \in Clients :
    proc = "running" /\ srvEnd[c] = "closed" =>
      /\ req[c] \in {"none", "returned"}
      /\ thread[c] \notin {"new", "serving"}
      /\ ~(main \in {"spawn", "serve"} /\ cli_socket = c)

\* The main thread has not started and has no result, nobody is connected.
LEMMA CourseInit == Init => Course /\ Settled
BY DEF Init, ConnInit, ServerInit, Course, Settled

\* Only the main thread moves itself; everybody else may end the process.
LEMMA CourseStep ==
  ASSUME Course, [Next]_vars
  PROVE  Course'
<1>1. ASSUME UNCHANGED <<listening, proc, main, retcode>>
      PROVE  Course'
  BY <1>1 DEF Course
<1>2. ASSUME NEW how, how # "running", EndProcess(how), UNCHANGED <<main, retcode>>
      PROVE  Course'
  BY <1>2 DEF Course, EndProcess
<1>3. ASSUME NEW c \in Clients, ClientStep(c), UNCHANGED serverVars
      PROVE  Course'
  BY <1>1, <1>3 DEF ClientStep, Connect, ConnectFails, SendCommand, SendFails, EndOfInput,
     RecvResponse, RecvClosed, Kill
<1>4. ASSUME NEW c \in Clients, RequestStep(c)
      PROVE  Course'
  BY <1>1, <1>2, <1>4 DEF RequestStep, RecvCommand, RecvGone, SendMessage, SendMessageEof,
     RunPipeline, PipelineExits, SendPipelineEof, Send, SigPipe
<1>5. ASSUME NEW c \in Clients, HandlerStep(c)
      PROVE  Course'
  BY <1>1, <1>5 DEF HandlerStep, HandlerStart, HandlerClose, HandlerStop, HandlerLeave
<1>6. CASE MainStep
  <2>1. CASE ExitProcess
    BY <2>1 DEF ExitProcess, EndProcess, Course
  <2>2. CASE Boot \/ BootFails \/ CheckStop \/ SelectTimeout \/ Accept \/ AcceptFails
    BY <2>2 DEF Boot, BootFails, CheckStop, SelectTimeout, Accept, AcceptFails, Course
  <2>3. CASE Spawn \/ SpawnFails \/ ServeClose \/ ServeNext \/ StopServer
    BY <2>3 DEF Spawn, SpawnFails, ServeClose, ServeNext, StopServer, Course
  <2> QED
    BY <1>6, <2>1, <2>2, <2>3 DEF MainStep
<1> QED
  BY <1>1, <1>3, <1>4, <1>5, <1>6, NextCases

\* The steps of one activation of exec_client_requests(): where it stands and
\* what else it may touch.
LEMMA RequestMoves ==
  ASSUME TypeOK, NEW c \in Clients, RequestStep(c)
  PROVE  /\ proc = "running" /\ req[c] \notin {"none", "returned"}
         /\ \A d \in Clients : d # c => req'[d] = req[d]
         /\ UNCHANGED <<main, cli_socket, thread>>
         /\ \/ proc' # "running"
            \/ proc' = "running" /\ UNCHANGED srvEnd
<1>1. ASSUME NEW how, how # "running", EndProcess(how)
      PROVE  proc' # "running"
  BY <1>1 DEF EndProcess
<1>2. ASSUME NEW pc, Goto(c, pc)
      PROVE  \A d \in Clients : d # c => req'[d] = req[d]
  BY <1>2 DEF Goto, TypeOK, ServerTypeOK
<1>3. ASSUME NEW v, Return(c, v)
      PROVE  \A d \in Clients : d # c => req'[d] = req[d]
  BY <1>3 DEF Return, TypeOK, ServerTypeOK
<1>4. CASE RecvCommand(c) \/ RecvGone(c)
  BY <1>2, <1>3, <1>4 DEF RecvCommand, RecvGone
<1>5. CASE SendMessage(c) \/ SendMessageEof(c) \/ SendPipelineEof(c)
  BY <1>1, <1>2, <1>3, <1>5 DEF SendMessage, SendMessageEof, SendPipelineEof, Send, SigPipe
<1>6. CASE RunPipeline(c) \/ PipelineExits(c)
  BY <1>1, <1>2, <1>6 DEF RunPipeline, PipelineExits
<1> QED
  BY <1>4, <1>5, <1>6 DEF RequestStep

\* What accept() takes is a queued connection nobody has served yet.
LEMMA AcceptsQueued ==
  ASSUME TypeOK, Structure, Accept
  PROVE  LET h == Head(backlog) IN
           h \in Clients /\ srvEnd[h] = "queued" /\ thread[h] = "none" /\ req[h] = "none"
<1>1. /\ backlog \in Seq(Clients) /\ Len(backlog) \in Nat /\ Len(backlog) > 0
      /\ Head(backlog) = backlog[1] /\ Head(backlog) \in Clients
  BY HeadTailProperties, LenProperties, EmptySeq, ElementOfSeq
     DEF Accept, TypeOK, ConnTypeOK
<1> QED
  BY <1>1 DEF Structure, BacklogQueued, NotYetAccepted

\* A step of a client never closes the server's end.
LEMMA ClientLeavesServer ==
  ASSUME TypeOK, NEW c \in Clients, ClientStep(c)
  PROVE  \A d \in Clients : srvEnd'[d] = srvEnd[d] \/ srvEnd'[d] = "queued"
BY DEF ClientStep, Connect, ConnectFails, SendCommand, SendFails, EndOfInput, RecvResponse,
       RecvClosed, Kill, TypeOK, ConnTypeOK

\* A handler closes the connection after exec_client_requests() has returned.
LEMMA SettledHandler ==
  ASSUME IInv, Settled, NEW c \in Clients, HandlerStep(c)
  PROVE  Settled'
<1> USE DEF IInv, TypeOK, ConnTypeOK, ServerTypeOK
<1>0. thread[c] # "none" => ~(cli_socket = c /\ main \in {"spawn", "serve", "served"})
  BY HandlerOwns
<1>1. CASE HandlerStart(c)
  <2>1. srvEnd[c] # "closed"
    BY <1>1 DEF HandlerStart, Settled
  <2>2. \A d \in Clients : d # c => req'[d] = req[d] /\ thread'[d] = thread[d]
    BY <1>1 DEF HandlerStart, CallRequests, Goto, Return
  <2> QED
    BY <1>1, <2>1, <2>2 DEF HandlerStart, Settled
<1>2. CASE HandlerClose(c)
  BY <1>0, <1>2 DEF HandlerClose, Settled
<1>3. CASE HandlerStop(c) \/ HandlerLeave(c)
  BY <1>3 DEF HandlerStop, HandlerLeave, Settled
<1> QED
  BY <1>1, <1>2, <1>3 DEF HandlerStep

\* The main thread closes a connection that nobody has started to serve, or
\* one that it has served itself.
LEMMA SettledMain ==
  ASSUME IInv, Settled, MainStep
  PROVE  Settled'
<1> USE DEF IInv, TypeOK, ConnTypeOK, ServerTypeOK
<1>1. CASE Boot \/ BootFails \/ CheckStop \/ SelectTimeout \/ AcceptFails \/ ServeNext
  BY <1>1 DEF Boot, BootFails, CheckStop, SelectTimeout, AcceptFails, ServeNext, Settled
<1>2. CASE Accept
  <2> DEFINE h == Head(backlog)
  <2>1. h \in Clients
    BY <1>2, HeadTailProperties DEF Accept
  <2>2. srvEnd'[h] = "open" /\ cli_socket' = h
          /\ \A d \in Clients : d # h => req'[d] = req[d] /\ srvEnd'[d] = srvEnd[d]
    BY <1>2, <2>1 DEF Accept, CallRequests, Goto, Return
  <2>3. UNCHANGED <<proc, thread>>
    BY <1>2 DEF Accept
  <2> HIDE DEF h
  <2> QED
    BY <2>1, <2>2, <2>3 DEF Settled
<1>3. CASE Spawn
  BY <1>3 DEF Spawn, Settled
<1>4. CASE SpawnFails
  <2>1. cli_socket \in Clients /\ thread[cli_socket] = "none" /\ req[cli_socket] = "none"
    BY <1>4 DEF SpawnFails, Structure, MainHolds
  <2> QED
    BY <1>4, <2>1 DEF SpawnFails, Settled
<1>5. CASE ServeClose
  <2>1. cli_socket \in Clients /\ thread[cli_socket] = "none"
    BY <1>5 DEF ServeClose, Structure, MainHolds
  <2> QED
    BY <1>5, <2>1 DEF ServeClose, Settled
<1>6. CASE StopServer
  BY <1>6 DEF StopServer, Dropped, Settled, Structure, NotYetAccepted
<1>7. CASE ExitProcess
  BY <1>7 DEF ExitProcess, EndProcess, Settled
<1> QED
  BY <1>1, <1>2, <1>3, <1>4, <1>5, <1>6, <1>7 DEF MainStep

\* Every step keeps it: whoever closes a connection has finished with it.
LEMMA SettledStep ==
  ASSUME IInv, Settled, [Next]_vars
  PROVE  Settled'
<1>1. ASSUME NEW c \in Clients, ClientStep(c), UNCHANGED serverVars
      PROVE  Settled'
  BY <1>1, ClientLeavesServer DEF Settled, IInv
<1>2. ASSUME NEW c \in Clients, RequestStep(c)
      PROVE  Settled'
  BY <1>2, RequestMoves DEF Settled, IInv
<1>3. CASE UNCHANGED vars
  BY <1>3 DEF Settled
<1> QED
  BY <1>1, <1>2, <1>3, NextCases, SettledHandler, SettledMain

\* What is known of a running server in every reachable state.
Orders == IInv /\ Course /\ Settled

\* The server's course is an invariant, and so is that a closed connection is
\* done with: no path through rsh_server.c reads from a socket, or sends to it,
\* after its close() (rsh_server.c:48, 56, 73, 333).
THEOREM ClosedIsSettled == Spec => []Orders
<1>1. Init => Course /\ Settled
  BY CourseInit
<1>2. IInv /\ Course /\ Settled /\ [Next]_vars => Course' /\ Settled'
  BY CourseStep, SettledStep
<1> QED
  BY <1>1, <1>2, Invariance, PTL DEF Spec, Orders

-----------------------------------------------------------------------------
(***************************************************************************)
(* Taking turns.  LockStep is not inductive: what is in flight while a     *)
(* client waits must be known as well, down to where in the response the   *)
(* one EOF byte is.                                                        *)
(***************************************************************************)

\* What is under way of a response: text without its end, or up to its end.
Text(s)     == \A i \in 1 .. Len(s) : s[i] = "data"
Complete(s) == s # <<>> /\ s[Len(s)] = "eof" /\ \A i \in 1 .. Len(s) - 1 : s[i] = "data"

\* The activation for c waits for a command, or there is none.
Idle(c) == req[c] \in {"none", "recv", "returned"}

\* The command of c is on its way, is being answered, has been answered, or
\* has ended the connection without an answer.
Sent(c)      == s2c[c] = <<>> /\ Idle(c) /\ \E r \in Request : c2s[c] = <<r>>
Answering(c) == c2s[c] = <<>> /\ Text(s2c[c]) /\ ~Idle(c)
Answered(c)  == c2s[c] = <<>> /\ Complete(s2c[c]) /\ req[c] \in {"recv", "returned"}
Dismissed(c) == c2s[c] = <<>> /\ s2c[c] = <<>> /\ req[c] = "returned"

Turn(c) ==
  /\ cli[c] \in {"away", "prompt"} => c2s[c] = <<>> /\ s2c[c] = <<>> /\ Idle(c)
  /\ cli[c] = "waiting" => Sent(c) \/ Answering(c) \/ Answered(c) \/ Dismissed(c)
  /\ cli[c] \in {"away", "prompt", "waiting"} => cliEnd[c] # "closed"
  /\ cli[c] = "left" =>
       /\ s2c[c] = <<>>
       /\ srvEnd[c] = "closed" \/ (c2s[c] \in {<<>>, <<"exit">>} /\ Idle(c))

Turns == \A c \in Clients : Turn(c)

USE DEF Idle, Turn

\* What is left of a text is text, what is left of a complete response is
\* complete or nothing, and the EOF byte is the last of it.
LEMMA Received ==
  ASSUME NEW s \in Seq(Response), NEW k \in 1 .. Len(s),
         NEW t, t = SubSeq(s, k + 1, Len(s))
  PROVE  /\ Text(s) => s[k] = "data" /\ Text(t)
         /\ Complete(s) => (k < Len(s) /\ s[k] = "data" /\ Complete(t))
                             \/ (k = Len(s) /\ s[k] = "eof" /\ t = <<>>)
<1>1. Len(s) \in Nat /\ k \in Nat /\ 1 <= k /\ k <= Len(s)
  BY LenProperties
<1>2. \A i \in k + 1 .. Len(s) : s[i] \in Response
  BY <1>1, ElementOfSeq
<1>3. /\ t \in Seq(Response) /\ Len(t) = Len(s) - k
      /\ \A i \in 1 .. Len(s) - k : t[i] = s[k + i]
  <2>1. /\ t \in Seq(Response)
        /\ Len(t) = IF k + 1 <= Len(s) THEN Len(s) - (k + 1) + 1 ELSE 0
        /\ \A i \in 1 .. Len(s) - (k + 1) + 1 : t[i] = s[(k + 1) + i - 1]
    BY <1>1, <1>2, SubSeqProperties
  <2> QED
    BY <1>1, <2>1
<1>4. ASSUME Text(s) PROVE s[k] = "data" /\ Text(t)
  BY <1>1, <1>3, <1>4 DEF Text
<1>5. ASSUME Complete(s), k = Len(s) PROVE s[k] = "eof" /\ t = <<>>
  BY <1>1, <1>3, <1>5, EmptySeq DEF Complete
<1>6. ASSUME Complete(s), k < Len(s) PROVE s[k] = "data" /\ Complete(t)
  <2>1. s[k] = "data" /\ k \in 1 .. Len(s) - 1
    BY <1>1, <1>6 DEF Complete
  <2>2. Len(t) \in 1 .. Len(s) - k /\ k + Len(t) = Len(s)
    BY <1>1, <1>3, <1>6
  <2>3. t # <<>> /\ t[Len(t)] = s[Len(s)]
    <3>1. Len(t) # 0
      BY <2>2
    <3> QED
      BY <1>3, <2>2, <3>1, EmptySeq
  <2>4. ASSUME NEW i \in 1 .. Len(t) - 1 PROVE t[i] = "data"
    <3>1. i \in 1 .. Len(s) - k /\ k + i \in 1 .. Len(s) - 1
      BY <1>1, <1>3
    <3> QED
      BY <1>3, <1>6, <3>1 DEF Complete
  <2> QED
    BY <1>6, <2>1, <2>3, <2>4 DEF Complete
<1> QED
  BY <1>1, <1>4, <1>5, <1>6

\* A queue with a position in it is not empty.
LEMMA NotEmpty ==
  ASSUME NEW S, NEW s \in Seq(S), NEW k \in 1 .. Len(s)
  PROVE  s # <<>>
<1>1. Len(s) \in Nat /\ Len(s) # 0
  BY LenProperties
<1> QED
  BY <1>1, EmptySeq

\* Before the first message of a response there is only text.
LEMMA NoText == Text(<<>>)
<1>1. \A i \in 1 .. Len(<<>>) : FALSE
  BY EmptySeq
<1> QED
  BY <1>1 DEF Text

\* Whoever receives from a queue of one message takes that message.
LEMMA OnlyOne ==
  ASSUME NEW r, NEW s, s = <<r>>, NEW k \in 1 .. Len(s)
  PROVE  SubSeq(s, k + 1, Len(s)) = <<>> /\ Head(s) = r
<1>1. s \in Seq({r}) /\ Len(s) = 1 /\ Head(s) = r
  OBVIOUS
<1>2. SubSeq(s, 2, 1) = <<>>
  BY <1>1, SubSeqProperties, EmptySeq
<1> QED
  BY <1>1, <1>2

\* What is appended to nothing is all there is.
LEMMA Single == \A r : Append(<<>>, r) = <<r>>
<1> SUFFICES ASSUME NEW r PROVE Append(<<>>, r) = <<r>>
  OBVIOUS
<1>1. /\ Append(<<>>, r) \in Seq({r}) /\ Len(Append(<<>>, r)) = 1
      /\ Append(<<>>, r)[1] = r
  BY EmptySeq, AppendProperties
<1> QED
  BY <1>1

\* Text may be followed by text, or by the end of the response.
LEMMA Replied ==
  ASSUME NEW s \in Seq(Response), Text(s)
  PROVE  /\ Text(Append(s, "data"))
         /\ Complete(Append(s, "eof"))
         /\ \A out \in {<<>>, <<"data">>} : Text(s \o out)
<1>1. Len(s) \in Nat
  BY LenProperties
<1>2. ASSUME NEW m \in Response
      PROVE  /\ Append(s, m) \in Seq(Response) /\ Len(Append(s, m)) = Len(s) + 1
             /\ Append(s, m)[Len(s) + 1] = m
             /\ \A i \in 1 .. Len(s) : Append(s, m)[i] = s[i]
  BY AppendProperties
<1>3. Text(Append(s, "data"))
  BY <1>1, <1>2 DEF Text, Response
<1>4. Complete(Append(s, "eof"))
  BY <1>1, <1>2, EmptySeq DEF Text, Complete, Response
<1>5. s \o <<>> = s
  OBVIOUS
<1>6. s \o <<"data">> = Append(s, "data")
  OBVIOUS
<1> QED
  BY <1>3, <1>4, <1>5, <1>6

\* Who neither sends nor receives, and whose activation at most begins, stays
\* where he is in the protocol.
LEMMA TurnFrame ==
  ASSUME NEW d \in Clients, Turn(d),
         cli'[d] = cli[d], c2s'[d] = c2s[d], s2c'[d] = s2c[d],
         cliEnd'[d] = cliEnd[d] \/ cliEnd'[d] # "closed",
         srvEnd[d] = "closed" => srvEnd'[d] = "closed",
         req'[d] = req[d] \/ (req[d] = "none" /\ req'[d] \in {"recv", "returned"})
  PROVE  Turn(d)'
BY DEF Sent, Answering, Answered, Dismissed

\* One client is at a time concerned by a step, the others stay where they are.
LEMMA OneTurn ==
  ASSUME Turns, NEW c \in Clients, Turn(c)',
         \A d \in Clients : d # c =>
           /\ cli'[d] = cli[d] /\ c2s'[d] = c2s[d] /\ s2c'[d] = s2c[d] /\ cliEnd'[d] = cliEnd[d]
           /\ srvEnd[d] = "closed" => srvEnd'[d] = "closed"
           /\ req'[d] = req[d]
  PROVE  Turns'
<1>1. ASSUME NEW d \in Clients, d # c
      PROVE  Turn(d)'
  <2>1. Turn(d)
    BY DEF Turns
  <2> HIDE DEF Turn
  <2> QED
    BY <1>1, <2>1, TurnFrame
<1> QED
  BY <1>1 DEF Turns

\* Nobody is in the middle of an exchange.
LEMMA TurnsInit == Init => Turns
<1> SUFFICES ASSUME Init, NEW c \in Clients PROVE Turn(c)
  BY DEF Turns
<1>1. cli[c] = "away" /\ c2s[c] = <<>> /\ s2c[c] = <<>> /\ cliEnd[c] = "none" /\ req[c] = "none"
  BY DEF Init, ConnInit, ClientInit, ServerInit
<1> QED
  BY <1>1

\* A client sends its next command only when it has seen the end of the
\* response to the last, and reads no further than that.
LEMMA TurnsClient ==
  ASSUME TypeOK, Structure, Turns, NEW c \in Clients, ClientStep(c), UNCHANGED serverVars
  PROVE  Turns'
<1> USE DEF TypeOK, ConnTypeOK, ClientTypeOK
<1>0. Turn(c)
  BY DEF Turns
<1>1. \A d \in Clients : d # c =>
        /\ cli'[d] = cli[d] /\ c2s'[d] = c2s[d] /\ s2c'[d] = s2c[d] /\ cliEnd'[d] = cliEnd[d]
        /\ srvEnd'[d] = srvEnd[d] /\ req'[d] = req[d]
  BY DEF ClientStep, Connect, ConnectFails, SendCommand, SendFails, EndOfInput, RecvResponse,
     RecvClosed, Kill, CleanUp, HangUp
<1>2. CASE Connect(c) \/ ConnectFails(c)
  <2>1. Turn(c)'
    BY <1>0, <1>2 DEF Connect, ConnectFails, Structure, NotYetAccepted
  <2> QED
    BY <1>1, <2>1, OneTurn
<1>3. ASSUME NEW r \in Lines, SendCommand(c, r)
      PROVE  Turns'
  <2>1. c2s'[c] = <<r>> /\ r \in Request
    <3>1. Append(<<>>, r) = <<r>>
      BY Single
    <3>2. c2s[c] = <<>> /\ c2s'[c] = Append(c2s[c], r)
      BY <1>0, <1>3 DEF SendCommand
    <3> QED
      BY <3>1, <3>2, LinesAssumption
  <2>2. Turn(c)'
    BY <1>0, <1>3, <2>1 DEF SendCommand, CleanUp, HangUp, Sent
  <2> QED
    BY <1>1, <2>2, OneTurn
<1>4. CASE (\E r \in Lines : SendFails(c, r)) \/ EndOfInput(c) \/ RecvClosed(c) \/ Kill(c)
  <2>1. Turn(c)'
    BY <1>0, <1>4 DEF SendFails, EndOfInput, RecvClosed, Kill, CleanUp, HangUp
  <2> QED
    BY <1>1, <2>1, OneTurn
<1>5. CASE RecvResponse(c)
  <2> DEFINE s == s2c[c]
  <2>1. PICK k \in 1 .. Len(s) :
          /\ s2c' = [s2c EXCEPT ![c] = SubSeq(@, k + 1, Len(@))]
          /\ cli' = [cli EXCEPT ![c] = IF s2c[c][k] = "eof" THEN "prompt" ELSE @]
    BY <1>5 DEF RecvResponse
  <2>2. s2c'[c] = SubSeq(s, k + 1, Len(s)) /\ cli'[c] = IF s[k] = "eof" THEN "prompt" ELSE "waiting"
    BY <1>5, <2>1 DEF RecvResponse
  <2>3. cli[c] = "waiting" /\ s # <<>> /\ s \in Seq(Response)
          /\ c2s'[c] = c2s[c] /\ cliEnd'[c] = cliEnd[c] /\ srvEnd'[c] = srvEnd[c] /\ req'[c] = req[c]
    <3>1. s \in Seq(Response)
      OBVIOUS
    <3>2. s # <<>>
      BY <3>1, NotEmpty
    <3> QED
      BY <1>5, <3>1, <3>2 DEF RecvResponse
  <2>4. Answering(c) \/ Answered(c)
    BY <1>0, <2>3 DEF Sent, Dismissed
  <2> HIDE DEF s
  <2>5. /\ Text(s) => s[k] = "data" /\ Text(s2c'[c])
        /\ Complete(s) => (k < Len(s) /\ s[k] = "data" /\ Complete(s2c'[c]))
                            \/ (k = Len(s) /\ s[k] = "eof" /\ s2c'[c] = <<>>)
    BY <2>2, <2>3, Received
  <2>6. CASE Answering(c)
    <3>1. cli'[c] = "waiting" /\ Answering(c)'
      BY <2>2, <2>3, <2>5, <2>6 DEF Answering, s
    <3>2. Turn(c)'
      BY <1>0, <2>3, <3>1
    <3> QED
      BY <1>1, <3>2, OneTurn
  <2>7. CASE Answered(c)
    <3>1. \/ cli'[c] = "waiting" /\ Answered(c)'
          \/ cli'[c] = "prompt" /\ s2c'[c] = <<>> /\ c2s'[c] = <<>> /\ req'[c] \in {"recv", "returned"}
      BY <2>2, <2>3, <2>5, <2>7 DEF Answered, s
    <3>2. Turn(c)'
      BY <1>0, <2>3, <3>1
    <3> QED
      BY <1>1, <3>2, OneTurn
  <2> QED
    BY <2>4, <2>6, <2>7
<1> QED
  BY <1>2, <1>3, <1>4, <1>5 DEF ClientStep

\* Steps that send and receive nothing, whatever connections they close.
LEMMA TurnsFrame ==
  ASSUME Turns, UNCHANGED <<cli, c2s, s2c, cliEnd>>,
         \A d \in Clients :
           /\ srvEnd[d] = "closed" => srvEnd'[d] = "closed"
           /\ req'[d] = req[d] \/ (req[d] = "none" /\ req'[d] \in {"recv", "returned"})
  PROVE  Turns'
<1>1. ASSUME NEW d \in Clients
      PROVE  Turn(d)'
  <2>1. Turn(d)
    BY DEF Turns
  <2> HIDE DEF Turn
  <2> QED
    BY <2>1, TurnFrame
<1> QED
  BY <1>1 DEF Turns

\* The end of the process sends nothing.
LEMMA TurnsEnd ==
  ASSUME Turns, NEW how, EndProcess(how), UNCHANGED <<cli, c2s, s2c, cliEnd, req>>
  PROVE  Turns'
<1>1. \A d \in Clients : srvEnd[d] = "closed" => srvEnd'[d] = "closed"
  BY DEF EndProcess, Dropped
<1> QED
  BY <1>1, TurnsFrame

\* While the server works on a command, its client waits for the answer or has
\* been killed.
LEMMA AtWork ==
  ASSUME Settled, Turns, NEW c \in Clients, proc = "running", ~Idle(c)
  PROVE  \/ cli[c] = "waiting" /\ Answering(c)
         \/ cli[c] \notin {"away", "prompt", "waiting", "left"}
BY DEF Settled, Turns, Sent, Answered, Dismissed

\* The server reads one command and owes one answer for it, or it leaves.
LEMMA TurnsReceive ==
  ASSUME TypeOK, Settled, Turns, NEW c \in Clients, RecvCommand(c) \/ RecvGone(c),
         UNCHANGED clientVars
  PROVE  Turns'
<1> USE DEF TypeOK, ConnTypeOK, ClientTypeOK, ServerTypeOK
<1>0. Turn(c) /\ srvEnd[c] # "closed" /\ req[c] = "recv"
  BY DEF Turns, Settled, RecvCommand, RecvGone
<1>1. \A d \in Clients : d # c =>
        /\ cli'[d] = cli[d] /\ c2s'[d] = c2s[d] /\ s2c'[d] = s2c[d] /\ cliEnd'[d] = cliEnd[d]
        /\ srvEnd'[d] = srvEnd[d] /\ req'[d] = req[d]
  BY DEF RecvCommand, RecvGone, Return, Goto
<1>2. UNCHANGED <<s2c, cliEnd, srvEnd>>
  BY DEF RecvCommand, RecvGone
<1>3. CASE RecvGone(c)
  <2>1. c2s'[c] = <<>> /\ req'[c] = "returned" /\ cliEnd[c] = "closed" /\ c2s[c] = <<>>
    BY <1>3 DEF RecvGone, Return
  <2>2. Turn(c)'
    BY <1>0, <1>2, <2>1
  <2> QED
    BY <1>1, <2>2, OneTurn
<1>4. CASE RecvCommand(c)
  <2>1. PICK k \in 1 .. Len(c2s[c]) : c2s' = [c2s EXCEPT ![c] = SubSeq(@, k + 1, Len(@))]
    BY <1>4 DEF RecvCommand
  <2>2. c2s[c] # <<>>
    <3>1. c2s[c] \in Seq(Request)
      OBVIOUS
    <3> QED
      BY <3>1, NotEmpty
  <2>3. c2s'[c] = SubSeq(c2s[c], k + 1, Len(c2s[c]))
    BY <2>1
  <2>4. req'[c] \in {"returned", "message", "run"}
    BY <1>4 DEF RecvCommand, Return, Goto
  <2>5. CASE cli[c] = "waiting"
    <3>0. Sent(c)
      BY <1>0, <2>2, <2>5 DEF Answering, Answered, Dismissed
    <3>1. PICK r \in Request : c2s[c] = <<r>>
      BY <3>0 DEF Sent
    <3>2. c2s'[c] = <<>>
      BY <2>3, <3>1, OnlyOne
    <3>3. s2c[c] = <<>>
      BY <3>0 DEF Sent
    <3>4. Answering(c)' \/ Dismissed(c)'
      <4>1. s2c'[c] = <<>> /\ Text(<<>>)
        BY <1>2, <3>3, NoText
      <4> QED
        BY <2>4, <3>2, <4>1 DEF Answering, Dismissed
    <3>5. Turn(c)'
      BY <1>0, <1>2, <2>5, <3>4
    <3> QED
      BY <1>1, <1>2, <3>5, OneTurn
  <2>6. CASE cli[c] = "left"
    <3>1. c2s[c] = <<"exit">>
      BY <1>0, <2>2, <2>6
    <3>2. c2s'[c] = <<>> /\ Head(c2s[c]) = "exit"
      BY <2>3, <3>1, OnlyOne
    <3>3. req'[c] = "returned"
      BY <1>4, <3>2 DEF RecvCommand, Return, StopRequest, MessageRequest
    <3>4. Turn(c)'
      BY <1>0, <1>2, <2>6, <3>2, <3>3
    <3> QED
      BY <1>1, <1>2, <3>4, OneTurn
  <2>7. CASE cli[c] \notin {"waiting", "left"}
    <3>1. Turn(c)'
      BY <1>0, <2>2, <2>7
    <3> QED
      BY <1>1, <1>2, <3>1, OneTurn
  <2> QED
    BY <2>5, <2>6, <2>7
<1> QED
  BY <1>3, <1>4

\* The answer is text and then, once, the byte that ends it.
LEMMA TurnsAnswer ==
  ASSUME TypeOK, Settled, Turns, NEW c \in Clients, proc = "running", ~Idle(c),
         UNCHANGED <<clientVars, c2s, cliEnd, srvEnd>>,
         \A d \in Clients : d # c => s2c'[d] = s2c[d] /\ req'[d] = req[d],
         \/ s2c'[c] = Append(s2c[c], "data") /\ ~Idle(c)'
         \/ (\E out \in {<<>>, <<"data">>} : s2c'[c] = s2c[c] \o out) /\ ~Idle(c)'
         \/ s2c'[c] = Append(s2c[c], "eof") /\ req'[c] \in {"recv", "returned"}
  PROVE  Turns'
<1>1. CASE cli[c] = "waiting" /\ Answering(c)
  <2>1. s2c[c] \in Seq(Response) /\ Text(s2c[c]) /\ c2s'[c] = <<>>
    BY <1>1 DEF Answering, TypeOK, ConnTypeOK
  <2>2. \/ Text(s2c'[c]) /\ ~Idle(c)'
        \/ Complete(s2c'[c]) /\ req'[c] \in {"recv", "returned"}
    BY <2>1, Replied
  <2>3. Answering(c)' \/ Answered(c)'
    BY <2>1, <2>2 DEF Answering, Answered
  <2>4. Turn(c)'
    BY <1>1, <2>3 DEF Turns
  <2> QED
    BY <2>4, OneTurn
<1>2. CASE cli[c] \notin {"away", "prompt", "waiting", "left"}
  <2>1. Turn(c)'
    BY <1>2
  <2> QED
    BY <2>1, OneTurn
<1> QED
  BY <1>1, <1>2, AtWork

\* Every step of exec_client_requests() keeps to the protocol, provided that
\* no output of a program looks like the end of a response.
LEMMA TurnsRequest ==
  ASSUME "eot" \notin Faults, TypeOK, Settled, Turns, NEW c \in Clients, RequestStep(c),
         UNCHANGED clientVars
  PROVE  Turns'
<1> USE DEF TypeOK, ConnTypeOK, ServerTypeOK
<1>1. CASE RecvCommand(c) \/ RecvGone(c)
  BY <1>1, TurnsReceive
<1>2. CASE SigPipe(c)
  BY <1>2, TurnsEnd DEF SigPipe
<1>3. CASE PipelineExits(c)
  BY <1>3, TurnsEnd DEF PipelineExits
<1>4. CASE SendMessage(c) /\ ~SigPipe(c)
  BY <1>4, TurnsAnswer DEF SendMessage, Send, Goto
<1>5. CASE SendMessageEof(c) /\ ~SigPipe(c)
  BY <1>5, TurnsAnswer DEF SendMessageEof, Send, Goto
<1>6. CASE RunPipeline(c)
  BY <1>6, TurnsAnswer DEF RunPipeline, Goto
<1>7. CASE SendPipelineEof(c) /\ ~SigPipe(c)
  <2>1. Send(c, "eof") /\ (Return(c, "OK") \/ Return(c, "OK_EXIT") \/ Goto(c, "recv"))
    BY <1>7 DEF SendPipelineEof
  <2>2. s2c'[c] = Append(s2c[c], "eof") /\ req'[c] \in {"recv", "returned"}
    BY <2>1 DEF Send, Return, Goto
  <2>3. \A d \in Clients : d # c => s2c'[d] = s2c[d] /\ req'[d] = req[d]
    BY <2>1 DEF Send, Return, Goto
  <2>4. UNCHANGED <<c2s, cliEnd, srvEnd>>
    BY <2>1 DEF Send
  <2> QED
    BY <1>7, <2>2, <2>3, <2>4, TurnsAnswer DEF SendPipelineEof
<1> QED
  BY <1>1, <1>2, <1>3, <1>4, <1>5, <1>6, <1>7 DEF RequestStep

\* The call of exec_client_requests() neither sends nor receives.
LEMMA CallTurns ==
  ASSUME TypeOK, NEW c \in Clients, req[c] = "none", CallRequests(c)
  PROVE  \A d \in Clients :
           req'[d] = req[d] \/ (req[d] = "none" /\ req'[d] \in {"recv", "returned"})
BY DEF CallRequests, Goto, Return, TypeOK, ServerTypeOK

\* The handlers and the main thread leave the exchange of messages alone.
LEMMA TurnsOther ==
  ASSUME IInv, Turns, MainStep \/ \E c \in Clients : HandlerStep(c), UNCHANGED clientVars
  PROVE  Turns'
<1> USE DEF IInv
<1>1. UNCHANGED <<cli, c2s, s2c, cliEnd>>
  BY DEF MainStep, Boot, BootFails, CheckStop, SelectTimeout, Accept, AcceptFails, Spawn,
     SpawnFails, ServeClose, ServeNext, StopServer, ExitProcess, HandlerStep, HandlerStart,
     HandlerClose, HandlerStop, HandlerLeave
<1>2. \A d \in Clients : srvEnd[d] = "closed" => srvEnd'[d] = "closed"
  <2>1. CASE Accept
    <3>1. Head(backlog) \in Clients /\ srvEnd[Head(backlog)] = "queued"
      BY <2>1, AcceptsQueued
    <3> QED
      BY <2>1, <3>1 DEF Accept, TypeOK, ConnTypeOK
  <2>2. CASE SpawnFails \/ ServeClose \/ \E c \in Clients : HandlerClose(c)
    BY <2>2 DEF SpawnFails, ServeClose, HandlerClose, TypeOK, ConnTypeOK
  <2>3. CASE StopServer \/ ExitProcess
    BY <2>3 DEF StopServer, ExitProcess, EndProcess, Dropped
  <2>4. CASE UNCHANGED srvEnd
    BY <2>4
  <2> QED
    BY <2>1, <2>2, <2>3, <2>4 DEF MainStep, Boot, BootFails, CheckStop, SelectTimeout, AcceptFails,
       Spawn, ServeNext, HandlerStep, HandlerStart, HandlerStop, HandlerLeave
<1>3. \A d \in Clients :
        req'[d] = req[d] \/ (req[d] = "none" /\ req'[d] \in {"recv", "returned"})
  <2>1. CASE UNCHANGED req
    BY <2>1
  <2>2. ASSUME NEW c \in Clients, req[c] = "none", CallRequests(c)
        PROVE  \A d \in Clients :
                 req'[d] = req[d] \/ (req[d] = "none" /\ req'[d] \in {"recv", "returned"})
    BY <2>2, CallTurns
  <2>3. ASSUME NEW c \in Clients, HandlerStart(c)
        PROVE  req[c] = "none" /\ CallRequests(c)
    BY <2>3 DEF HandlerStart, Structure, HandlerHolds
  <2>4. CASE Accept
    <3>1. Head(backlog) \in Clients /\ req[Head(backlog)] = "none"
      BY <2>4, AcceptsQueued
    <3> QED
      BY <2>1, <2>2, <2>4, <3>1 DEF Accept
  <2> QED
    BY <2>1, <2>2, <2>3, <2>4 DEF MainStep, Boot, BootFails, CheckStop, SelectTimeout, AcceptFails,
       Spawn, SpawnFails, ServeClose, ServeNext, StopServer, ExitProcess, HandlerStep,
       HandlerClose, HandlerStop, HandlerLeave
<1> QED
  BY <1>1, <1>2, <1>3, TurnsFrame

\* Every step keeps to the protocol.
LEMMA TurnsStep ==
  ASSUME "eot" \notin Faults, IInv, Settled, Turns, [Next]_vars
  PROVE  Turns'
<1>1. CASE UNCHANGED vars
  BY <1>1, TurnsFrame
<1> QED
  BY <1>1, NextCases, TurnsClient, TurnsRequest, TurnsOther DEF IInv

-----------------------------------------------------------------------------
(***************************************************************************)
(* The theorems.  Their hypothesis is about the environment: that no       *)
(* program's output arrives in a segment that ends in 0x04.  Without it    *)
(* the client takes such a segment for the end of the response, comes back *)
(* to its prompt early, and both properties fail.                          *)
(***************************************************************************)

\* Each connection is at a known point of the exchange.
LEMMA TurnsAlways ==
  ASSUME "eot" \notin Faults
  PROVE  Spec => [](Orders /\ Turns)
<1>1. Init => Turns
  BY TurnsInit
<1>2. Orders /\ Turns /\ [Next]_vars => Turns'
  BY TurnsStep DEF Orders
<1> QED
  BY <1>1, <1>2, ClosedIsSettled, PTL DEF Spec

\* When a client is at its prompt nothing is left over from its last command,
\* in the network or on the server: each command gets exactly one EOF byte
\* (rsh_server.c:435-497, rsh_cli.c:148-169).
THEOREM ClientsTakeTurns ==
  ASSUME "eot" \notin Faults
  PROVE  Spec => []LockStep
<1>1. Turns => LockStep
  BY DEF Turns, LockStep
<1> QED
  BY <1>1, TurnsAlways, PTL

\* The server can send to a peer that has closed, and die of SIGPIPE, only when
\* the peer was killed: a client that leaves by itself has read all that was
\* sent to it (rsh_server.c:523, 552).
THEOREM OnlyKilledReset ==
  ASSUME "eot" \notin Faults
  PROVE  Spec => []OnlyKilledClientsReset
<1>1. Orders /\ Turns => OnlyKilledClientsReset
  BY DEF Orders, IInv, TypeOK, ClientTypeOK, Turns, OnlyKilledClientsReset, Reset
<1> QED
  BY <1>1, TurnsAlways, PTL

-----------------------------------------------------------------------------
(***************************************************************************)
(* The refinement mapping: what steps do to the three abstract variables.  *)
(***************************************************************************)
Asked == \E c \in Clients : rc[c] = "OK_EXIT"

\* Where the service has a client, by the server's endpoint and activation.
LEMMA WhereIs ==
  ASSUME TypeOK, NEW c \in Clients
  PROVE  /\ srvEnd[c] = "none" <=> ServiceWhere[c] = "outside"
         /\ ServiceWhere[c] = "waiting" <=>
              srvEnd[c] = "queued" \/ (srvEnd[c] = "open" /\ req[c] = "none")
         /\ ServiceWhere[c] = "inService" <=> srvEnd[c] = "open" /\ req[c] # "none"
         /\ srvEnd[c] = "closed" <=> ServiceWhere[c] = "gone"
         /\ ServiceWhere[c] \in {"outside", "waiting", "inService", "gone"}
BY DEF TypeOK, ConnTypeOK, ServiceWhere

\* The same after a step.
LEMMA WhereNext ==
  ASSUME TypeOK', NEW c \in Clients
  PROVE  /\ srvEnd'[c] = "none" <=> ServiceWhere'[c] = "outside"
         /\ ServiceWhere'[c] = "waiting" <=>
              srvEnd'[c] = "queued" \/ (srvEnd'[c] = "open" /\ req'[c] = "none")
         /\ ServiceWhere'[c] = "inService" <=> srvEnd'[c] = "open" /\ req'[c] # "none"
         /\ srvEnd'[c] = "closed" <=> ServiceWhere'[c] = "gone"
         /\ ServiceWhere'[c] \in {"outside", "waiting", "inService", "gone"}
BY DEF TypeOK, ConnTypeOK, ServiceWhere

\* It says so of every client, and of nobody else.
LEMMA WhereType ==
  ASSUME TypeOK
  PROVE  ServiceWhere \in [Clients -> {"outside", "waiting", "inService", "gone"}]
<1>1. \A c \in Clients : srvEnd[c] \in {"none", "queued", "open", "closed"}
  BY DEF TypeOK, ConnTypeOK
<1> QED
  BY <1>1 DEF ServiceWhere

\* The same after a step.
LEMMA WhereTypeNext ==
  ASSUME TypeOK'
  PROVE  ServiceWhere' \in [Clients -> {"outside", "waiting", "inService", "gone"}]
<1>1. \A c \in Clients : srvEnd'[c] \in {"none", "queued", "open", "closed"}
  BY DEF TypeOK, ConnTypeOK
<1> QED
  BY <1>1 DEF ServiceWhere

\* Clients whose endpoint stays, and whose activation does not begin, stay.
LEMMA WhereStays ==
  ASSUME TypeOK, TypeOK', NEW c \in Clients, srvEnd'[c] = srvEnd[c],
         req[c] = "none" <=> req'[c] = "none"
  PROVE  ServiceWhere'[c] = ServiceWhere[c]
BY WhereIs, WhereNext

\* Nobody moves.
LEMMA NobodyMoves ==
  ASSUME TypeOK, TypeOK',
         \A c \in Clients : srvEnd'[c] = srvEnd[c] /\ (req[c] = "none" <=> req'[c] = "none")
  PROVE  UNCHANGED ServiceWhere
<1>1. \A c \in Clients : ServiceWhere'[c] = ServiceWhere[c]
  BY WhereStays
<1> QED
  BY <1>1, WhereType, WhereTypeNext

\* One client moves.
LEMMA WhereMoves ==
  ASSUME TypeOK, TypeOK', NEW c \in Clients, NEW to, ServiceWhere'[c] = to,
         \A d \in Clients : d # c =>
           srvEnd'[d] = srvEnd[d] /\ (req[d] = "none" <=> req'[d] = "none")
  PROVE  ServiceWhere' = [ServiceWhere EXCEPT ![c] = to]
<1>1. \A d \in Clients : d # c => ServiceWhere'[d] = ServiceWhere[d]
  BY WhereStays
<1> QED
  BY <1>1, WhereType, WhereTypeNext

\* A running server is up, or is on its way to stop or to fail.
LEMMA PhaseIs ==
  proc = "running" =>
    /\ ServicePhase = "up" <=> retcode = ""
    /\ ServicePhase = "closing" <=> retcode = "OK_EXIT"
    /\ Service!Alive
BY DEF ServicePhase, Service!Alive

\* The phase of the service changes only with the process and its result.
LEMMA PhaseStays ==
  ASSUME UNCHANGED <<proc, retcode>>, proc = "running" \/ UNCHANGED main
  PROVE  UNCHANGED ServicePhase
BY DEF ServicePhase

\* Whether the stop has been asked for changes only with a result.
LEMMA AskedStays ==
  ASSUME \A c \in Clients : rc'[c] = "OK_EXIT" <=> rc[c] = "OK_EXIT"
  PROVE  Asked' = Asked
BY DEF Asked

\* A step that opens, closes and ends nothing does not show.
LEMMA Stutters ==
  ASSUME TypeOK, TypeOK', UNCHANGED <<srvEnd, proc, retcode>>,
         proc = "running" \/ UNCHANGED main,
         \A c \in Clients : req[c] = "none" <=> req'[c] = "none",
         \A c \in Clients : rc'[c] = "OK_EXIT" <=> rc[c] = "OK_EXIT"
  PROVE  UNCHANGED Service!vars
<1>1. UNCHANGED ServiceWhere
  BY NobodyMoves
<1> QED
  BY <1>1, PhaseStays, AskedStays DEF Asked, Service!vars

\* The end of the process drops whoever is connected.
LEMMA Drops ==
  ASSUME TypeOK, TypeOK', NEW how, EndProcess(how)
  PROVE  Service!Drop
<1>1. \A c \in Clients : srvEnd'[c] = IF srvEnd[c] = "none" THEN "none" ELSE "closed"
  BY DEF EndProcess, Dropped, TypeOK, ConnTypeOK
<1>2. \A c \in Clients : ServiceWhere'[c] = IF ServiceWhere[c] = "outside" THEN "outside" ELSE "gone"
  BY <1>1, WhereIs, WhereNext
<1> QED
  BY <1>2, WhereTypeNext DEF Service!Drop

\* A process that is killed, or exits before its main thread has returned.
LEMMA Crashes ==
  ASSUME TypeOK, TypeOK', Course, proc = "running", NEW how \in {"exited", "killed"},
         EndProcess(how), UNCHANGED <<main, rc>>
  PROVE  Service!Crash
<1>1. ServicePhase' = "crashed"
  BY DEF Course, EndProcess, ServicePhase
<1> QED
  BY <1>1, PhaseIs, Drops DEF Service!Crash

-----------------------------------------------------------------------------
(***************************************************************************)
(* The steps of the system and the steps of the service.                   *)
(***************************************************************************)

\* Connecting is an arrival; nothing else that a client does shows.
LEMMA ServiceClient ==
  ASSUME Orders, TypeOK', NEW c \in Clients, ClientStep(c), UNCHANGED serverVars
  PROVE  [Service!Next]_Service!vars
<1> USE DEF Orders, IInv
<1>1. CASE Connect(c)
  <2>1. srvEnd[c] = "none" /\ srvEnd'[c] = "queued" /\ proc = "running"
          /\ \A d \in Clients : d # c => srvEnd'[d] = srvEnd[d]
    <3>1. srvEnd[c] = "none" /\ proc = "running"
      BY <1>1 DEF Connect, Course, Structure, NotYetAccepted
    <3>2. srvEnd' = [srvEnd EXCEPT ![c] = "queued"]
      BY <1>1 DEF Connect
    <3>3. DOMAIN srvEnd = Clients
      BY DEF TypeOK, ConnTypeOK
    <3> QED
      BY <3>1, <3>2, <3>3
  <2>2. ServiceWhere[c] = "outside" /\ ServiceWhere'[c] = "waiting"
    BY <2>1, WhereIs, WhereNext
  <2>3. ServiceWhere' = [ServiceWhere EXCEPT ![c] = "waiting"]
    BY <2>1, <2>2, WhereMoves
  <2>4. UNCHANGED ServicePhase /\ Asked' = Asked
    BY PhaseStays, AskedStays
  <2>5. Service!Arrive(c)
    BY <2>1, <2>2, <2>3, <2>4, PhaseIs DEF Service!Arrive, Service!Move, Asked
  <2> QED
    BY <2>5 DEF Service!Next
<1>2. CASE ~Connect(c)
  <2>1. UNCHANGED srvEnd
    BY <1>2 DEF ClientStep, ConnectFails, SendCommand, SendFails, EndOfInput, RecvResponse,
       RecvClosed, Kill
  <2> QED
    BY <2>1, Stutters
<1> QED
  BY <1>1, <1>2

\* exec_client_requests() shows when it comes to return OK_EXIT, and when the
\* process ends under it.
LEMMA ServiceRequest ==
  ASSUME Orders, TypeOK', NEW c \in Clients, RequestStep(c), UNCHANGED clientVars
  PROVE  [Service!Next]_Service!vars
<1> USE DEF Orders, IInv
<1>0. proc = "running" /\ req[c] \notin {"none", "returned"} /\ rc[c] = "" /\ srvEnd[c] = "open"
  BY RequestMoves DEF Structure, ResultKept, NotYetAccepted, Settled, TypeOK, ConnTypeOK
<1>1. CASE SigPipe(c) \/ PipelineExits(c)
  <2>1. Service!Crash
    BY <1>0, <1>1, Crashes DEF SigPipe, PipelineExits
  <2> QED
    BY <2>1 DEF Service!Next
<1>2. CASE ~SigPipe(c) /\ ~PipelineExits(c)
  <2>1. /\ UNCHANGED <<srvEnd, proc, retcode, main>>
        /\ (\E pc \in ReqPC \ {"none"} : Goto(c, pc)) \/ (\E v : Return(c, v))
    BY <1>2 DEF RequestStep, RecvCommand, RecvGone, SendMessage, SendMessageEof, RunPipeline,
       SendPipelineEof, Send, ReqPC
  <2>2. /\ \A d \in Clients : req[d] = "none" <=> req'[d] = "none"
        /\ \A d \in Clients : d # c => rc'[d] = rc[d]
    BY <1>0, <2>1 DEF Goto, Return, TypeOK, ServerTypeOK
  <2>3. CASE rc'[c] = "OK_EXIT"
    <3>1. ServiceWhere[c] = "inService"
      BY <1>0, WhereIs
    <3>2. UNCHANGED ServiceWhere
      BY <2>1, <2>2, NobodyMoves
    <3>3. UNCHANGED ServicePhase
      BY <1>0, <2>1, PhaseStays
    <3>4. Service!Ask(c)
      BY <1>0, <2>3, <3>1, <3>2, <3>3, PhaseIs DEF Service!Ask
    <3> QED
      BY <3>4 DEF Service!Next
  <2>4. CASE rc'[c] # "OK_EXIT"
    BY <1>0, <2>1, <2>2, <2>4, Stutters
  <2> QED
    BY <2>3, <2>4
<1> QED
  BY <1>1, <1>2

\* A handler admits its client when it starts and lets it go when it closes.
LEMMA ServiceHandler ==
  ASSUME Orders, TypeOK', NEW c \in Clients, HandlerStep(c), UNCHANGED clientVars
  PROVE  [Service!Next]_Service!vars
<1> USE DEF Orders, IInv
<1>0. /\ proc = "running" /\ UNCHANGED <<proc, retcode>>
      /\ UNCHANGED ServicePhase /\ Service!Alive
  BY PhaseIs, PhaseStays DEF HandlerStep, HandlerStart, HandlerClose, HandlerStop, HandlerLeave
<1>1. thread[c] \in {"new", "serving"} => srvEnd[c] = "open"
  BY <1>0, HandlerOwns DEF Settled, TypeOK, ConnTypeOK
<1>2. CASE HandlerStart(c)
  <2>1. /\ srvEnd[c] = "open" /\ req[c] = "none" /\ rc[c] = "" /\ CallRequests(c)
        /\ UNCHANGED srvEnd
    BY <1>1, <1>2 DEF HandlerStart, Structure, HandlerHolds, ResultKept
  <2>2. /\ req'[c] # "none" /\ rc'[c] # "OK_EXIT"
        /\ \A d \in Clients : d # c => req'[d] = req[d] /\ rc'[d] = rc[d]
    BY <2>1 DEF CallRequests, Goto, Return, TypeOK, ServerTypeOK
  <2>3. ServiceWhere[c] = "waiting" /\ ServiceWhere'[c] = "inService"
    BY <2>1, <2>2, WhereIs, WhereNext
  <2>4. ServiceWhere' = [ServiceWhere EXCEPT ![c] = "inService"]
    BY <2>1, <2>2, <2>3, WhereMoves
  <2>5. Asked' = Asked
    BY <2>1, <2>2, AskedStays
  <2>6. Service!Admit(c)
    BY <1>0, <2>3, <2>4, <2>5 DEF Service!Admit, Service!Move, Asked
  <2> QED
    BY <2>6 DEF Service!Next
<1>3. CASE HandlerClose(c)
  <2>1. /\ srvEnd[c] = "open" /\ req[c] = "returned" /\ UNCHANGED reqVars /\ srvEnd'[c] = "closed"
        /\ \A d \in Clients : d # c => srvEnd'[d] = srvEnd[d]
    BY <1>1, <1>3 DEF HandlerClose, TypeOK, ConnTypeOK
  <2>2. ServiceWhere[c] = "inService" /\ ServiceWhere'[c] = "gone"
    BY <2>1, WhereIs, WhereNext
  <2>3. ServiceWhere' = [ServiceWhere EXCEPT ![c] = "gone"]
    BY <2>1, <2>2, WhereMoves
  <2>4. Asked' = Asked
    BY <2>1, AskedStays
  <2>5. Service!Leave(c)
    BY <1>0, <2>2, <2>3, <2>4 DEF Service!Leave, Service!Move, Asked
  <2> QED
    BY <2>5 DEF Service!Next
<1>4. CASE HandlerStop(c) \/ HandlerLeave(c)
  BY <1>0, <1>4, Stutters DEF HandlerStop, HandlerLeave
<1> QED
  BY <1>2, <1>3, <1>4 DEF HandlerStep

\* The main thread: the ends of boot, accept and stop are those of the service,
\* and in single-threaded mode it admits and dismisses clients itself.
LEMMA ServiceMain ==
  ASSUME Orders, TypeOK', Next, MainStep, UNCHANGED clientVars
  PROVE  [Service!Next]_Service!vars
<1> USE DEF Orders, IInv
<1>0. proc = "running"
  BY DEF MainStep, Boot, BootFails, CheckStop, SelectTimeout, Accept, AcceptFails, Spawn,
     SpawnFails, ServeClose, ServeNext, StopServer, ExitProcess
<1>1. CASE Boot \/ SelectTimeout \/ Spawn
  BY <1>0, <1>1, Stutters DEF Boot, SelectTimeout, Spawn
<1>2. CASE BootFails \/ AcceptFails
  <2>1. /\ retcode = "" /\ retcode' = "ERR_RDSH_COMMUNICATION"
        /\ UNCHANGED <<srvEnd, proc, reqVars>>
    BY <1>0, <1>2 DEF BootFails, AcceptFails, Course
  <2>2. UNCHANGED ServiceWhere /\ Asked' = Asked
    BY <2>1, NobodyMoves, AskedStays
  <2>3. ServicePhase = "up" /\ ServicePhase' = "failing"
    BY <1>0, <2>1 DEF ServicePhase
  <2>4. Service!Fail
    BY <2>2, <2>3 DEF Service!Fail, Asked
  <2> QED
    BY <2>4 DEF Service!Next
<1>3. CASE CheckStop \/ ServeNext
  <2>1. UNCHANGED <<srvEnd, proc, reqVars>> /\ retcode = ""
    BY <1>0, <1>3 DEF CheckStop, ServeNext, Course
  <2>2. CASE retcode' = "OK_EXIT"
    <3>1. /\ Asked
          /\ \A c \in Clients : req[c] # "none" => srvEnd[c] = "closed"
      BY <2>1, <2>2, StopDecided DEF Asked
    <3>2. \A c \in Clients : ServiceWhere[c] # "inService"
      BY <3>1, WhereIs
    <3>3. UNCHANGED ServiceWhere /\ Asked' = Asked
      BY <2>1, NobodyMoves, AskedStays
    <3>4. ServicePhase = "up" /\ ServicePhase' = "closing"
      BY <1>0, <2>1, <2>2 DEF ServicePhase
    <3>5. Service!Decide
      BY <3>1, <3>2, <3>3, <3>4 DEF Service!Decide, Asked
    <3> QED
      BY <3>5 DEF Service!Next
  <2>3. CASE retcode' # "OK_EXIT"
    <3>1. UNCHANGED retcode
      BY <1>3, <2>3 DEF CheckStop, ServeNext
    <3> QED
      BY <1>0, <2>1, <3>1, Stutters
  <2> QED
    BY <2>2, <2>3
<1>4. CASE Accept
  <2> DEFINE h == Head(backlog)
  <2>1. h \in Clients /\ srvEnd[h] = "queued" /\ req[h] = "none" /\ rc[h] = ""
    BY <1>4, AcceptsQueued DEF Structure, ResultKept
  <2>2. /\ srvEnd'[h] = "open" /\ UNCHANGED <<proc, retcode>>
        /\ \A d \in Clients : d # h => srvEnd'[d] = srvEnd[d]
        /\ UNCHANGED reqVars \/ CallRequests(h)
    BY <1>4, <2>1 DEF Accept, TypeOK, ConnTypeOK
  <2> HIDE DEF h
  <2>3. ServiceWhere[h] = "waiting"
    BY <2>1, WhereIs
  <2>4. CASE UNCHANGED reqVars
    <3>1. ServiceWhere'[h] = "waiting"
      BY <2>1, <2>2, <2>4, WhereNext
    <3>2. ServiceWhere' = [ServiceWhere EXCEPT ![h] = "waiting"]
      BY <2>1, <2>2, <2>4, <3>1, WhereMoves
    <3>3. UNCHANGED ServiceWhere
      BY <2>1, <2>3, <3>2, WhereType
    <3> QED
      BY <1>0, <2>2, <2>4, <3>3, PhaseStays, AskedStays DEF Asked, Service!vars
  <2>5. CASE CallRequests(h)
    <3>1. /\ req'[h] # "none" /\ rc'[h] # "OK_EXIT"
          /\ \A d \in Clients : d # h => req'[d] = req[d] /\ rc'[d] = rc[d]
      BY <2>1, <2>5 DEF CallRequests, Goto, Return, TypeOK, ServerTypeOK
    <3>2. ServiceWhere'[h] = "inService"
      BY <2>1, <2>2, <3>1, WhereNext
    <3>3. ServiceWhere' = [ServiceWhere EXCEPT ![h] = "inService"]
      BY <2>1, <2>2, <3>1, <3>2, WhereMoves
    <3>4. Asked' = Asked /\ UNCHANGED ServicePhase
      BY <1>0, <2>1, <2>2, <3>1, AskedStays, PhaseStays
    <3>5. Service!Admit(h)
      BY <1>0, <2>3, <3>3, <3>4, PhaseIs DEF Service!Admit, Service!Move, Asked
    <3> QED
      BY <2>1, <3>5 DEF Service!Next
  <2> QED
    BY <2>2, <2>4, <2>5
<1>5. CASE SpawnFails
  <2> DEFINE h == cli_socket
  <2>1. /\ h \in Clients /\ srvEnd[h] = "open" /\ req[h] = "none" /\ srvEnd'[h] = "closed"
        /\ \A d \in Clients : d # h => srvEnd'[d] = srvEnd[d]
        /\ UNCHANGED <<proc, retcode, reqVars>>
    BY <1>0, <1>5 DEF SpawnFails, Settled, Structure, MainHolds, TypeOK, ConnTypeOK
  <2> HIDE DEF h
  <2>2. ServiceWhere[h] = "waiting" /\ ServiceWhere'[h] = "gone"
    BY <2>1, WhereIs, WhereNext
  <2>3. ServiceWhere' = [ServiceWhere EXCEPT ![h] = "gone"]
    BY <2>1, <2>2, WhereMoves
  <2>4. ServiceWhere' = [c \in Clients |-> IF c \in {h} THEN "gone" ELSE ServiceWhere[c]]
    BY <2>1, <2>3, WhereType
  <2>5. Asked' = Asked /\ UNCHANGED ServicePhase
    BY <1>0, <2>1, AskedStays, PhaseStays
  <2>6. Service!TurnAway({h})
    BY <1>0, <2>2, <2>4, <2>5, PhaseIs DEF Service!TurnAway, Asked
  <2>7. {h} \in SUBSET Clients
    BY <2>1
  <2> QED
    BY <2>6, <2>7 DEF Service!Next
<1>6. CASE ServeClose
  <2> DEFINE h == cli_socket
  <2>1. /\ h \in Clients /\ srvEnd[h] = "open" /\ req[h] = "returned" /\ srvEnd'[h] = "closed"
        /\ \A d \in Clients : d # h => srvEnd'[d] = srvEnd[d]
        /\ UNCHANGED <<proc, retcode, reqVars>>
    BY <1>0, <1>6 DEF ServeClose, Settled, Structure, MainHolds, TypeOK, ConnTypeOK
  <2> HIDE DEF h
  <2>2. ServiceWhere[h] = "inService" /\ ServiceWhere'[h] = "gone"
    BY <2>1, WhereIs, WhereNext
  <2>3. ServiceWhere' = [ServiceWhere EXCEPT ![h] = "gone"]
    BY <2>1, <2>2, WhereMoves
  <2>4. Asked' = Asked /\ UNCHANGED ServicePhase
    BY <1>0, <2>1, AskedStays, PhaseStays
  <2>5. Service!Leave(h)
    BY <1>0, <2>2, <2>3, <2>4, PhaseIs DEF Service!Leave, Service!Move, Asked
  <2> QED
    BY <2>1, <2>5 DEF Service!Next
<1>7. CASE StopServer
  <2> DEFINE S == {c \in Clients : srvEnd[c] = "queued"}
  <2>1. /\ UNCHANGED <<proc, retcode, reqVars>>
        /\ \A c \in Clients : srvEnd'[c] = IF srvEnd[c] = "queued" THEN "closed" ELSE srvEnd[c]
    BY <1>7 DEF StopServer, Dropped
  <2>2. \A c \in S : ServiceWhere[c] = "waiting"
    BY WhereIs
  <2>3. \A c \in Clients : ServiceWhere'[c] = IF c \in S THEN "gone" ELSE ServiceWhere[c]
    BY <2>1, WhereStays, WhereNext
  <2> HIDE DEF S
  <2>4. ServiceWhere' = [c \in Clients |-> IF c \in S THEN "gone" ELSE ServiceWhere[c]]
    BY <2>3, WhereTypeNext
  <2>5. Asked' = Asked /\ UNCHANGED ServicePhase
    BY <1>0, <2>1, AskedStays, PhaseStays
  <2>6. Service!TurnAway(S)
    BY <1>0, <2>2, <2>4, <2>5, PhaseIs DEF Service!TurnAway, Asked
  <2>7. S \in SUBSET Clients
    BY DEF S
  <2> QED
    BY <2>6, <2>7 DEF Service!Next
<1>8. CASE ExitProcess
  <2>1. EndProcess("exited") /\ main = "return" /\ main' = "done" /\ UNCHANGED <<retcode, reqVars>>
    BY <1>8 DEF ExitProcess
  <2>2. retcode \in {"OK_EXIT", "ERR_RDSH_COMMUNICATION"}
    BY <2>1 DEF Course, TypeOK, ServerTypeOK
  <2>3. \/ ServicePhase = "closing" /\ ServicePhase' = "stopped"
        \/ ServicePhase = "failing" /\ ServicePhase' = "failed"
    BY <1>0, <2>1, <2>2 DEF ServicePhase, EndProcess
  <2>4. Service!Drop /\ Asked' = Asked
    BY <2>1, Drops, AskedStays
  <2>5. Service!End
    BY <2>3, <2>4 DEF Service!End, Asked
  <2> QED
    BY <2>5 DEF Service!Next
<1> QED
  BY <1>1, <1>2, <1>3, <1>4, <1>5, <1>6, <1>7, <1>8 DEF MainStep

-----------------------------------------------------------------------------
(***************************************************************************)
(* The theorem.                                                            *)
(***************************************************************************)

\* The server starts as the service does, with nobody there.
LEMMA ServiceInit == Init => Service!Init
<1> SUFFICES ASSUME Init PROVE Service!Init
  OBVIOUS
<1>1. \A c \in Clients : srvEnd[c] = "none" /\ rc[c] = ""
  BY DEF Init, ConnInit, ServerInit
<1>2. ServiceWhere = [c \in Clients |-> "outside"]
  BY <1>1 DEF ServiceWhere
<1>3. ServicePhase = "up"
  BY DEF Init, ServerInit, ServicePhase
<1>4. Asked = FALSE
  BY <1>1 DEF Asked
<1> QED
  BY <1>2, <1>3, <1>4 DEF Service!Init, Asked

\* Each step of the system is a step of the service, or none.
LEMMA ServiceStep ==
  ASSUME Orders, TypeOK', [Next]_vars
  PROVE  [Service!Next]_Service!vars
<1>1. CASE UNCHANGED vars
  BY <1>1, Stutters DEF Orders, IInv
<1>2. CASE Next
  BY <1>2, NextCases, <1>1, ServiceClient, ServiceRequest, ServiceHandler, ServiceMain
<1> QED
  BY <1>1, <1>2

\* The server does for its clients what RshService promises, for any number of
\* them and whatever fails: a client is admitted once and dropped only by its
\* own end, a refusal, or the end of the process, and an orderly stop is decided
\* only on request and with nobody in service (rsh_server.c:291-344, 48-93).
THEOREM ServiceImplemented == Spec => ServiceSpec
<1>1. Orders /\ Orders' /\ [Next]_vars => [Service!Next]_Service!vars
  BY ServiceStep DEF Orders, IInv
<1> QED
  BY <1>1, ServiceInit, ClosedIsSettled, PTL DEF Spec, ServiceSpec, Service!Spec
=============================================================================
