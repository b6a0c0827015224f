----------------------------- MODULE RshProofs -----------------------------
(***************************************************************************)
(* Proofs about RshSystem, for every set of clients, every backlog, every  *)
(* set of lines and every set of faults that the assumptions allow.        *)
(***************************************************************************)
EXTENDS RshSystem, SequenceTheorems, FiniteSetTheorems, TLAPS

USE DEF connVars, clientVars, threadVars, reqVars, globalVars, serverVars, vars

-----------------------------------------------------------------------------
(***************************************************************************)
(* Sequences: what is left after the first k messages have been received.  *)
(***************************************************************************)

\* Receiving a prefix of a queue leaves a queue of the same messages.
LEMMA SuffixType ==
  ASSUME NEW S, NEW s \in Seq(S), NEW k \in 1 .. Len(s)
  PROVE  SubSeq(s, k + 1, Len(s)) \in Seq(S)
<1>1. Len(s) \in Nat
  BY LenProperties
<1>2. \A i \in k + 1 .. Len(s) : s[i] \in S
  BY <1>1, ElementOfSeq
<1> QED
  BY <1>1, <1>2, SubSeqProperties

\* The counter and the set it counts move together.
LEMMA CountedFinite == IsFiniteSet(Counted) /\ Cardinality(Counted) \in Nat
BY ClientsAssumption, FS_Subset, FS_CardinalityType DEF Counted

-----------------------------------------------------------------------------
(***************************************************************************)
(* Types.  The counter stays natural because it counts: HandlerLeave takes *)
(* one away from a number that its own thread has made positive.           *)
(***************************************************************************)
TypeInv == TypeOK /\ ActiveIsCounted

\* The initial state is well typed and no thread is counted.
LEMMA TypeInit == Init => TypeInv
<1> SUFFICES ASSUME Init PROVE TypeInv
  OBVIOUS
<1> USE DEF Init, ConnInit, ClientInit, ServerInit
<1>1. TypeOK
  BY EmptySeq DEF TypeOK, ConnTypeOK, ClientTypeOK, ServerTypeOK, ClientReturn, MainPC,
       ThreadPC, ReqPC, Status
<1>2. ActiveIsCounted
  BY FS_EmptySet DEF ActiveIsCounted, Counted
<1> QED
  BY <1>1, <1>2 DEF TypeInv

\* The steps of a client keep its types and those of its connection.
LEMMA ClientTypeStep ==
  ASSUME ConnTypeOK, ClientTypeOK, NEW c \in Clients,
         \/ Connect(c) \/ ConnectFails(c)
         \/ \E r \in Lines : SendCommand(c, r) \/ SendFails(c, r)
         \/ EndOfInput(c) \/ RecvResponse(c) \/ RecvClosed(c) \/ Kill(c)
  PROVE  ConnTypeOK' /\ ClientTypeOK'
<1> USE DEF ConnTypeOK, ClientTypeOK, ClientReturn, CleanUp, HangUp
<1>1. CASE Connect(c)
  <2>1. backlog' \in Seq(Clients)
    BY <1>1, AppendProperties DEF Connect
  <2> QED
    BY <1>1, <2>1 DEF Connect
<1>2. CASE ConnectFails(c)
  BY <1>2 DEF ConnectFails
<1>3. ASSUME NEW r \in Lines, SendCommand(c, r)
      PROVE  ConnTypeOK' /\ ClientTypeOK'
  <2>1. c2s' \in [Clients -> Seq(Request)] /\ r \in Request
    BY <1>3, LinesAssumption, AppendProperties DEF SendCommand
  <2> QED
    BY <1>3, <2>1 DEF SendCommand
<1>4. ASSUME NEW r \in Lines, SendFails(c, r)
      PROVE  ConnTypeOK' /\ ClientTypeOK'
  BY <1>4, LinesAssumption DEF SendFails
<1>5. CASE EndOfInput(c)
  BY <1>5 DEF EndOfInput
<1>6. CASE RecvResponse(c)
  <2>1. PICK k \in 1 .. Len(s2c[c]) :
          /\ s2c' = [s2c EXCEPT ![c] = SubSeq(@, k + 1, Len(@))]
          /\ cli' = [cli EXCEPT ![c] = IF s2c[c][k] = "eof" THEN "prompt" ELSE @]
    BY <1>6 DEF RecvResponse
  <2>2. SubSeq(s2c[c], k + 1, Len(s2c[c])) \in Seq(Response)
    BY SuffixType
  <2>3. s2c' \in [Clients -> Seq(Response)]
    BY <2>1, <2>2
  <2>4. cli' \in [Clients -> {"away", "prompt", "waiting", "left", "killed"}]
    BY <2>1
  <2> QED
    BY <1>6, <2>3, <2>4 DEF RecvResponse
<1>7. CASE RecvClosed(c)
  BY <1>7 DEF RecvClosed
<1>8. CASE Kill(c)
  BY <1>8 DEF Kill
<1> QED
  BY <1>1, <1>2, <1>3, <1>4, <1>5, <1>6, <1>7, <1>8

RcValue == {"", "OK", "OK_EXIT", "ERR_RDSH_SERVER"}

\* Moving on and returning keep the type of the activation.
LEMMA GotoType ==
  ASSUME ServerTypeOK, NEW c \in Clients, NEW pc \in ReqPC, Goto(c, pc)
  PROVE  req' \in [Clients -> ReqPC] /\ rc' \in [Clients -> RcValue]
BY DEF ServerTypeOK, Goto, RcValue

\* A return keeps the types of the request loop.
LEMMA ReturnType ==
  ASSUME ServerTypeOK, NEW c \in Clients, NEW v \in RcValue, Return(c, v)
  PROVE  req' \in [Clients -> ReqPC] /\ rc' \in [Clients -> RcValue]
BY DEF ServerTypeOK, Return, RcValue, ReqPC

\* So does the call, which may return at once.
LEMMA CallType ==
  ASSUME ServerTypeOK, NEW c \in Clients, CallRequests(c)
  PROVE  req' \in [Clients -> ReqPC] /\ rc' \in [Clients -> RcValue] /\ cmd_rc' = cmd_rc
BY GotoType, ReturnType DEF CallRequests, ReqPC, RcValue

\* What a program's output leaves in the queue of responses.
LEMMA OutputType == <<>> \in Seq(Response) /\ <<"data">> \in Seq(Response) /\ <<"eof">> \in Seq(Response)
<1>1. <<"data">> \in Seq({"data", "eof"})
  OBVIOUS
<1>2. <<"eof">> \in Seq({"data", "eof"})
  OBVIOUS
<1> QED
  BY <1>1, <1>2, EmptySeq DEF Response

\* send() keeps the types of the connection.
LEMMA SendType ==
  ASSUME ConnTypeOK, NEW c \in Clients, NEW m \in Response, Send(c, m)
  PROVE  ConnTypeOK'
BY AppendProperties DEF ConnTypeOK, Send

\* So does the end of the process, with whatever else it leaves alone.
LEMMA EndProcessType ==
  ASSUME ConnTypeOK, NEW how, EndProcess(how), UNCHANGED <<c2s, s2c, cliEnd>>
  PROVE  ConnTypeOK'
BY EmptySeq DEF ConnTypeOK, EndProcess, Dropped

\* The steps of exec_client_requests() keep the types.
LEMMA RequestTypeStep ==
  ASSUME ConnTypeOK, ServerTypeOK, NEW c \in Clients, RequestStep(c)
  PROVE  ConnTypeOK' /\ ServerTypeOK'
<1>0. ASSUME UNCHANGED <<threadVars, globalVars>>, cmd_rc' \in [Clients -> Status],
             \/ \E pc \in ReqPC : Goto(c, pc)
             \/ \E v \in RcValue : Return(c, v)
      PROVE  ServerTypeOK'
  <2>1. req' \in [Clients -> ReqPC] /\ rc' \in [Clients -> RcValue]
    BY <1>0, GotoType, ReturnType
  <2> QED
    BY <1>0, <2>1 DEF ServerTypeOK, RcValue
<1>1. CASE RecvCommand(c)
  <2>1. PICK k \in 1 .. Len(c2s[c]) :
               c2s' = [c2s EXCEPT ![c] = SubSeq(@, k + 1, Len(@))]
    BY <1>1 DEF RecvCommand
  <2>2. SubSeq(c2s[c], k + 1, Len(c2s[c])) \in Seq(Request)
    BY SuffixType DEF ConnTypeOK
  <2>3. ConnTypeOK'
    BY <1>1, <2>1, <2>2 DEF RecvCommand, ConnTypeOK
  <2>4. ServerTypeOK'
    BY <1>0, <1>1 DEF RecvCommand, ServerTypeOK, ReqPC, RcValue
  <2> QED
    BY <2>3, <2>4
<1>2. CASE RecvGone(c)
  BY <1>0, <1>2 DEF RecvGone, ConnTypeOK, ServerTypeOK, RcValue
<1>3. CASE SigPipe(c)
  BY <1>3, EndProcessType DEF SigPipe, EndProcess, ServerTypeOK
<1>4. CASE SendMessage(c)
  <2>1. CASE Send(c, "data") /\ Goto(c, "eof") /\ UNCHANGED cmd_rc
    BY <1>0, <2>1, SendType DEF Send, ServerTypeOK, ReqPC, Response
  <2> QED
    BY <1>3, <1>4, <2>1 DEF SendMessage
<1>5. CASE SendMessageEof(c)
  <2>1. CASE Send(c, "eof") /\ Goto(c, "recv") /\ UNCHANGED cmd_rc
    BY <1>0, <2>1, SendType DEF Send, ServerTypeOK, ReqPC, Response
  <2> QED
    BY <1>3, <1>5, <2>1 DEF SendMessageEof
<1>6. CASE RunPipeline(c)
  <2>1. PICK out \in {<<>>, <<"data">>, <<"eof">>} : s2c' = [s2c EXCEPT ![c] = @ \o out]
    BY <1>6 DEF RunPipeline
  <2>2. out \in Seq(Response)
    BY OutputType
  <2>3. ConnTypeOK'
    BY <1>6, <2>1, <2>2, ConcatProperties DEF RunPipeline, ConnTypeOK
  <2>4. cmd_rc' \in [Clients -> Status]
    BY <1>6 DEF RunPipeline, ServerTypeOK
  <2>5. ServerTypeOK'
    BY <1>0, <1>6, <2>4 DEF RunPipeline, ReqPC
  <2> QED
    BY <2>3, <2>5
<1>7. CASE PipelineExits(c)
  BY <1>7, EndProcessType DEF PipelineExits, EndProcess, ServerTypeOK
<1>8. CASE SendPipelineEof(c)
  <2>1. CASE Send(c, "eof") /\ UNCHANGED cmd_rc /\
             (Return(c, "OK") \/ Return(c, "OK_EXIT") \/ Goto(c, "recv"))
    BY <1>0, <2>1, SendType DEF Send, ServerTypeOK, ReqPC, RcValue, Response
  <2> QED
    BY <1>3, <1>8, <2>1 DEF SendPipelineEof
<1> QED
  BY <1>1, <1>2, <1>4, <1>5, <1>6, <1>7, <1>8 DEF RequestStep

\* The steps of handle_client() keep the types; the thread that counts itself
\* out is one of those counted, so the counter it decrements is positive.
LEMMA HandlerTypeStep ==
  ASSUME ConnTypeOK, ServerTypeOK, ActiveIsCounted, NEW c \in Clients, HandlerStep(c)
  PROVE  ConnTypeOK' /\ ServerTypeOK'
<1>0. g_active_clients \in Nat
  BY DEF ServerTypeOK
<1>1. CASE HandlerStart(c)
  <2>1. CallRequests(c) /\ g_active_clients' = g_active_clients + 1
    BY <1>1 DEF HandlerStart
  <2>2. g_active_clients' \in Nat
    BY <1>0, <2>1
  <2>3. thread' \in [Clients -> ThreadPC]
    BY <1>1 DEF HandlerStart, ServerTypeOK, ThreadPC
  <2>4. UNCHANGED <<connVars, proc, main, cli_socket, retcode, g_is_threaded, g_should_stop>>
    BY <1>1 DEF HandlerStart
  <2> QED
    BY <2>1, <2>2, <2>3, <2>4, CallType DEF ConnTypeOK, ServerTypeOK, RcValue
<1>2. CASE HandlerClose(c)
  BY <1>2 DEF HandlerClose, ConnTypeOK, ServerTypeOK, ThreadPC
<1>3. CASE HandlerStop(c)
  BY <1>3 DEF HandlerStop, ConnTypeOK, ServerTypeOK, ThreadPC
<1>4. CASE HandlerLeave(c)
  <2>1. c \in Counted
    BY <1>4 DEF HandlerLeave, Counted
  <2>2. g_active_clients # 0
    BY <2>1, CountedFinite, FS_EmptySet DEF ActiveIsCounted
  <2>3. g_active_clients' = g_active_clients - 1
    BY <1>4 DEF HandlerLeave
  <2>4. g_active_clients' \in Nat
    BY <1>0, <2>2, <2>3
  <2>5. thread' \in [Clients -> ThreadPC]
    BY <1>4 DEF HandlerLeave, ServerTypeOK, ThreadPC
  <2>6. UNCHANGED <<connVars, proc, main, cli_socket, retcode, reqVars, g_is_threaded, g_should_stop>>
    BY <1>4 DEF HandlerLeave
  <2> QED
    BY <2>4, <2>5, <2>6 DEF ConnTypeOK, ServerTypeOK
<1> QED
  BY <1>1, <1>2, <1>3, <1>4 DEF HandlerStep

\* The steps of the main thread keep the types.
LEMMA MainTypeStep ==
  ASSUME ConnTypeOK, ServerTypeOK, MainStep
  PROVE  ConnTypeOK' /\ ServerTypeOK'
<1>1. CASE Boot
  BY <1>1 DEF Boot, ConnTypeOK, ServerTypeOK, MainPC
<1>2. CASE BootFails
  BY <1>2 DEF BootFails, ConnTypeOK, ServerTypeOK, MainPC
<1>3. CASE CheckStop
  BY <1>3 DEF CheckStop, ConnTypeOK, ServerTypeOK, MainPC
<1>4. CASE SelectTimeout
  BY <1>4 DEF SelectTimeout, ConnTypeOK, ServerTypeOK, MainPC
<1>5. CASE Accept
  <2> DEFINE h == Head(backlog)
  <2>1. h \in Clients /\ Tail(backlog) \in Seq(Clients)
    BY <1>5, HeadTailProperties DEF Accept, ConnTypeOK
  <2>2. ConnTypeOK'
    BY <1>5, <2>1 DEF Accept, ConnTypeOK
  <2>3. UNCHANGED reqVars \/ CallRequests(h)
    BY <1>5 DEF Accept
  <2>4. req' \in [Clients -> ReqPC] /\ rc' \in [Clients -> RcValue] /\ cmd_rc' = cmd_rc
    BY <2>1, <2>3, CallType DEF ServerTypeOK, RcValue
  <2>5. cli_socket' = h /\ main' \in {"spawn", "serve"} /\ UNCHANGED <<proc, retcode, thread, globalVars>>
    BY <1>5 DEF Accept
  <2> QED
    BY <2>1, <2>2, <2>4, <2>5 DEF ServerTypeOK, MainPC, RcValue
<1>6. CASE AcceptFails
  BY <1>6 DEF AcceptFails, ConnTypeOK, ServerTypeOK, MainPC
<1>7. CASE Spawn
  BY <1>7 DEF Spawn, ConnTypeOK, ServerTypeOK, MainPC, ThreadPC
<1>8. CASE SpawnFails
  BY <1>8 DEF SpawnFails, ConnTypeOK, ServerTypeOK, MainPC
<1>9. CASE ServeClose
  BY <1>9 DEF ServeClose, ConnTypeOK, ServerTypeOK, MainPC
<1>10. CASE ServeNext
  BY <1>10 DEF ServeNext, ConnTypeOK, ServerTypeOK, MainPC
<1>11. CASE StopServer
  BY <1>11, EmptySeq DEF StopServer, Dropped, ConnTypeOK, ServerTypeOK, MainPC
<1>12. CASE ExitProcess
  BY <1>12, EndProcessType DEF ExitProcess, EndProcess, ServerTypeOK, MainPC
<1> QED
  BY <1>1, <1>2, <1>3, <1>4, <1>5, <1>6, <1>7, <1>8, <1>9, <1>10, <1>11, <1>12 DEF MainStep

-----------------------------------------------------------------------------
(***************************************************************************)
(* Who holds a connection.  These facts make SocketsOwned and              *)
(* ActiveIsCounted inductive: when the main thread creates a handler, the  *)
(* client has none yet, so no counted handler is overwritten.              *)
(***************************************************************************)

\* The backlog holds each queued connection once.
BacklogQueued ==
  /\ \A i \in 1 .. Len(backlog) : srvEnd[backlog[i]] = "queued"
  /\ \A i, j \in 1 .. Len(backlog) : backlog[i] = backlog[j] => i = j

\* Nothing on the server knows a client before its connection is accepted.
NotYetAccepted ==
  \A c \in Clients :
    /\ cli[c] = "away" => srvEnd[c] = "none"
    /\ srvEnd[c] \in {"none", "queued"} => thread[c] = "none" /\ req[c] = "none"

\* The client in the hands of the main thread has no handler.
MainHolds ==
  /\ main \in {"spawn", "serve", "served"} =>
       /\ cli_socket \in Clients
       /\ thread[cli_socket] = "none"
       /\ srvEnd[cli_socket] \in {"open", "closed"}
  /\ main = "spawn" => req[cli_socket] = "none" /\ g_is_threaded
  /\ main \in {"serve", "served"} => ~g_is_threaded
  /\ main = "served" => srvEnd[cli_socket] = "closed" /\ req[cli_socket] = "returned"

\* Handler threads exist in multi-threaded mode only, and one that has not
\* run yet has not called exec_client_requests().
HandlerHolds ==
  \A c \in Clients :
    /\ thread[c] # "none" => g_is_threaded
    /\ thread[c] = "new" => req[c] = "none"
    /\ thread[c] \in {"stopping", "leaving", "done"} => srvEnd[c] = "closed"
    /\ thread[c] = "stopping" => rc[c] = "OK_EXIT"

\* A result is recorded exactly when exec_client_requests() has returned.
ResultKept == \A c \in Clients : rc[c] # "" <=> req[c] = "returned"

\* The stop flag is the work of a client that asked and has been closed.
FlagHasCause ==
  g_should_stop => \E c \in Clients : rc[c] = "OK_EXIT" /\ srvEnd[c] = "closed"

Structure ==
  BacklogQueued /\ NotYetAccepted /\ MainHolds /\ HandlerHolds /\ ResultKept
    /\ FlagHasCause /\ SocketsOwned

\* Nobody is connected and nothing has been accepted yet.
LEMMA StructureInit == Init => Structure
<1> SUFFICES ASSUME Init PROVE Structure
  OBVIOUS
<1>1. BacklogQueued
  <2>1. backlog = <<>>
    BY DEF Init, ConnInit
  <2>2. \A i \in 1 .. Len(backlog) : FALSE
    BY <2>1, EmptySeq
  <2> QED
    BY <2>2 DEF BacklogQueued
<1> USE DEF Init, ConnInit, ClientInit, ServerInit
<1>2. NotYetAccepted
  BY DEF NotYetAccepted
<1>3. MainHolds
  BY DEF MainHolds
<1>4. HandlerHolds
  BY DEF HandlerHolds
<1>5. ResultKept
  BY DEF ResultKept
<1>6. FlagHasCause /\ SocketsOwned
  BY DEF FlagHasCause, SocketsOwned
<1> QED
  BY <1>1, <1>2, <1>3, <1>4, <1>5, <1>6 DEF Structure

\* Steps that leave the server's side alone and make no client start over.
LEMMA FrameStep ==
  ASSUME TypeOK, Structure, UNCHANGED <<backlog, srvEnd, serverVars>>,
         \A d \in Clients : cli'[d] = "away" => cli[d] = "away"
  PROVE  Structure'
<1>1. BacklogQueued' /\ NotYetAccepted'
  BY DEF Structure, BacklogQueued, NotYetAccepted
<1>2. MainHolds' /\ HandlerHolds'
  BY DEF Structure, MainHolds, HandlerHolds
<1>3. ResultKept' /\ FlagHasCause' /\ SocketsOwned'
  BY DEF Structure, ResultKept, FlagHasCause, SocketsOwned
<1> QED
  BY <1>1, <1>2, <1>3 DEF Structure

\* A step of exec_client_requests() moves one activation that is under way.
LEMMA ActivationStep ==
  ASSUME TypeOK, Structure, NEW c \in Clients, req[c] \notin {"none", "returned"},
         UNCHANGED <<backlog, srvEnd, cli, threadVars, globalVars>>,
         \/ \E pc \in ReqPC \ {"none", "returned"} : Goto(c, pc)
         \/ \E v \in RcValue \ {""} : Return(c, v)
  PROVE  Structure'
<1>0. \A d \in Clients :
        /\ d # c => req'[d] = req[d] /\ rc'[d] = rc[d]
        /\ req'[c] # "none"
        /\ rc'[c] # "" <=> req'[c] = "returned"
        /\ rc[c] = ""
  BY DEF TypeOK, ServerTypeOK, Structure, ResultKept, Goto, Return
<1>1. BacklogQueued' /\ NotYetAccepted'
  <2>1. BacklogQueued'
    BY DEF Structure, BacklogQueued
  <2>2. NotYetAccepted'
    BY <1>0 DEF Structure, NotYetAccepted
  <2> QED
    BY <2>1, <2>2
<1>2. MainHolds' /\ HandlerHolds'
  <2>1. MainHolds'
    BY <1>0 DEF Structure, MainHolds
  <2>2. HandlerHolds'
    BY <1>0 DEF Structure, HandlerHolds
  <2> QED
    BY <2>1, <2>2
<1>3. ResultKept' /\ SocketsOwned'
  BY <1>0 DEF Structure, ResultKept, SocketsOwned
<1>4. FlagHasCause'
  BY <1>0 DEF Structure, FlagHasCause
<1> QED
  BY <1>1, <1>2, <1>3, <1>4 DEF Structure

\* The end of the process closes what was open and changes nothing else.
LEMMA EndStep ==
  ASSUME TypeOK, Structure, NEW how, EndProcess(how),
         UNCHANGED <<cli, cli_socket, thread, reqVars, globalVars>>,
         main' = main \/ main' = "done"
  PROVE  Structure'
<1>0. \A d \in Clients :
        /\ srvEnd'[d] \in {"none", "closed"}
        /\ srvEnd[d] = "none" <=> srvEnd'[d] = "none"
        /\ srvEnd[d] = "closed" => srvEnd'[d] = "closed"
  BY DEF TypeOK, ConnTypeOK, EndProcess, Dropped
<1>1. BacklogQueued'
  BY EmptySeq DEF EndProcess, BacklogQueued
<1>2. NotYetAccepted'
  BY <1>0 DEF Structure, NotYetAccepted
<1>3. MainHolds' /\ HandlerHolds'
  BY <1>0 DEF Structure, MainHolds, HandlerHolds
<1>4. ResultKept' /\ FlagHasCause' /\ SocketsOwned'
  BY <1>0 DEF Structure, ResultKept, FlagHasCause, SocketsOwned
<1> QED
  BY <1>1, <1>2, <1>3, <1>4 DEF Structure

\* A new connection goes to the end of the backlog.
LEMMA ConnectStep ==
  ASSUME TypeOK, Structure, NEW c \in Clients, Connect(c), UNCHANGED serverVars
  PROVE  Structure'
<1>0. /\ srvEnd[c] = "none" /\ srvEnd'[c] = "queued"
      /\ \A d \in Clients : d # c => srvEnd'[d] = srvEnd[d] /\ cli'[d] = cli[d]
      /\ cli'[c] = "prompt"
  BY DEF Connect, TypeOK, ConnTypeOK, ClientTypeOK, Structure, NotYetAccepted
<1>1. BacklogQueued'
  <2>1. backlog \in Seq(Clients) /\ backlog' = Append(backlog, c)
    BY DEF Connect, TypeOK, ConnTypeOK
  <2>2. /\ Len(backlog) \in Nat /\ Len(backlog') = Len(backlog) + 1
        /\ \A i \in 1 .. Len(backlog) : backlog'[i] = backlog[i] /\ backlog[i] \in Clients
        /\ backlog'[Len(backlog) + 1] = c
    BY <2>1, AppendProperties, LenProperties, ElementOfSeq
  <2>3. \A i \in 1 .. Len(backlog) : backlog[i] # c /\ srvEnd[backlog[i]] = "queued"
    BY <1>0, <2>2 DEF Structure, BacklogQueued
  <2>4. \A i \in 1 .. Len(backlog') : i \in 1 .. Len(backlog) \/ i = Len(backlog) + 1
    BY <2>2
  <2>5. \A i \in 1 .. Len(backlog') : srvEnd'[backlog'[i]] = "queued"
    BY <1>0, <2>2, <2>3, <2>4
  <2>6. \A i, j \in 1 .. Len(backlog') : backlog'[i] = backlog'[j] => i = j
    BY <2>2, <2>3, <2>4 DEF Structure, BacklogQueued
  <2> QED
    BY <2>5, <2>6 DEF BacklogQueued
<1>2. NotYetAccepted'
  BY <1>0 DEF Structure, NotYetAccepted
<1>3. MainHolds' /\ HandlerHolds'
  BY <1>0 DEF Structure, MainHolds, HandlerHolds, NotYetAccepted
<1>4. ResultKept' /\ FlagHasCause' /\ SocketsOwned'
  BY <1>0 DEF Structure, ResultKept, FlagHasCause, SocketsOwned
<1> QED
  BY <1>1, <1>2, <1>3, <1>4 DEF Structure

-----------------------------------------------------------------------------
(***************************************************************************)
(* The handler threads.                                                    *)
(***************************************************************************)

\* A handler of c that exists is the only owner of c.
LEMMA HandlerOwns ==
  ASSUME Structure, NEW c \in Clients, thread[c] # "none"
  PROVE  /\ ~(cli_socket = c /\ main \in {"spawn", "serve", "served"})
         /\ srvEnd[c] \notin {"none", "queued"}
BY DEF Structure, MainHolds, NotYetAccepted

\* A scheduled handler calls exec_client_requests() for the first time.
LEMMA HandlerStartStep ==
  ASSUME TypeOK, Structure, NEW c \in Clients, HandlerStart(c), UNCHANGED clientVars
  PROVE  Structure'
<1>0. /\ thread[c] = "new" /\ thread'[c] = "serving" /\ req[c] = "none" /\ rc[c] = ""
      /\ \A d \in Clients : d # c =>
           thread'[d] = thread[d] /\ req'[d] = req[d] /\ rc'[d] = rc[d]
      /\ req'[c] # "none" /\ rc'[c] # "OK_EXIT"
      /\ rc'[c] # "" <=> req'[c] = "returned"
      /\ UNCHANGED <<backlog, srvEnd, cli, main, cli_socket, g_is_threaded, g_should_stop>>
  BY DEF HandlerStart, CallRequests, Goto, Return, TypeOK, ServerTypeOK, Structure,
         HandlerHolds, ResultKept
<1>1. ~(cli_socket = c /\ main \in {"spawn", "serve", "served"}) /\ srvEnd[c] \notin {"none", "queued"}
  BY <1>0, HandlerOwns
<1>2. BacklogQueued' /\ NotYetAccepted'
  <2>1. BacklogQueued'
    BY <1>0 DEF Structure, BacklogQueued
  <2>2. NotYetAccepted'
    BY <1>0, <1>1 DEF Structure, NotYetAccepted
  <2> QED
    BY <2>1, <2>2
<1>3. MainHolds' /\ HandlerHolds'
  BY <1>0, <1>1 DEF Structure, MainHolds, HandlerHolds
<1>4. ResultKept' /\ FlagHasCause'
  BY <1>0 DEF Structure, ResultKept, FlagHasCause
<1>5. SocketsOwned'
  BY <1>0, <1>1 DEF Structure, SocketsOwned
<1> QED
  BY <1>2, <1>3, <1>4, <1>5 DEF Structure

\* After the call its handler closes the connection.
LEMMA HandlerCloseStep ==
  ASSUME TypeOK, Structure, NEW c \in Clients, HandlerClose(c), UNCHANGED clientVars
  PROVE  Structure'
<1>0. /\ thread[c] = "serving" /\ thread'[c] \in {"stopping", "leaving"}
      /\ thread'[c] = "stopping" => rc[c] = "OK_EXIT"
      /\ srvEnd'[c] = "closed"
      /\ \A d \in Clients : d # c => thread'[d] = thread[d] /\ srvEnd'[d] = srvEnd[d]
      /\ UNCHANGED <<backlog, cli, main, cli_socket, reqVars, g_is_threaded, g_should_stop>>
  BY DEF HandlerClose, TypeOK, ConnTypeOK, ServerTypeOK
<1>1. ~(cli_socket = c /\ main \in {"spawn", "serve", "served"}) /\ srvEnd[c] \notin {"none", "queued"}
  BY <1>0, HandlerOwns
<1>2. BacklogQueued'
  <2>1. \A i \in 1 .. Len(backlog) : backlog[i] \in Clients /\ backlog[i] # c
    BY <1>1, ElementOfSeq DEF Structure, BacklogQueued, TypeOK, ConnTypeOK
  <2> QED
    BY <1>0, <2>1 DEF Structure, BacklogQueued
<1>3. NotYetAccepted'
  BY <1>0, <1>1 DEF Structure, NotYetAccepted
<1>4. MainHolds' /\ HandlerHolds'
  BY <1>0, <1>1 DEF Structure, MainHolds, HandlerHolds
<1>5. ResultKept' /\ FlagHasCause' /\ SocketsOwned'
  BY <1>0 DEF Structure, ResultKept, FlagHasCause, SocketsOwned
<1> QED
  BY <1>2, <1>3, <1>4, <1>5 DEF Structure

\* Setting the stop flag and counting out leave connections alone.
LEMMA HandlerLeaveStep ==
  ASSUME TypeOK, Structure, NEW c \in Clients, HandlerStop(c) \/ HandlerLeave(c),
         UNCHANGED clientVars
  PROVE  Structure'
<1>0. /\ thread[c] \in {"stopping", "leaving"} /\ thread'[c] \in {"leaving", "done"}
      /\ \A d \in Clients : d # c => thread'[d] = thread[d]
      /\ UNCHANGED <<backlog, srvEnd, cli, main, cli_socket, reqVars, g_is_threaded>>
      /\ g_should_stop' => g_should_stop \/ thread[c] = "stopping"
  <2>1. CASE HandlerStop(c)
    BY <2>1 DEF HandlerStop, TypeOK, ServerTypeOK
  <2>2. CASE HandlerLeave(c)
    BY <2>2 DEF HandlerLeave, TypeOK, ServerTypeOK
  <2> QED
    BY <2>1, <2>2
<1>1. ~(cli_socket = c /\ main \in {"spawn", "serve", "served"}) /\ srvEnd[c] = "closed"
  BY <1>0, HandlerOwns DEF Structure, HandlerHolds
<1>2. BacklogQueued' /\ NotYetAccepted'
  BY <1>0, <1>1 DEF Structure, BacklogQueued, NotYetAccepted
<1>3. MainHolds' /\ HandlerHolds'
  BY <1>0, <1>1 DEF Structure, MainHolds, HandlerHolds
<1>4. FlagHasCause'
  BY <1>0, <1>1 DEF Structure, HandlerHolds, FlagHasCause
<1>5. ResultKept' /\ SocketsOwned'
  BY <1>0, <1>1 DEF Structure, ResultKept, SocketsOwned
<1> QED
  BY <1>2, <1>3, <1>4, <1>5 DEF Structure

-----------------------------------------------------------------------------
(***************************************************************************)
(* The main thread.                                                        *)
(***************************************************************************)

\* The main thread goes from one state without a client to another.
LEMMA MainIdleStep ==
  ASSUME TypeOK, Structure,
         UNCHANGED <<backlog, srvEnd, cli, cli_socket, thread, reqVars, globalVars>>,
         main \notin {"spawn", "serve"}, main' \notin {"spawn", "serve", "served"}
  PROVE  Structure'
<1>1. BacklogQueued' /\ NotYetAccepted' /\ HandlerHolds'
  BY DEF Structure, BacklogQueued, NotYetAccepted, HandlerHolds
<1>2. MainHolds'
  BY DEF Structure, MainHolds
<1>3. ResultKept' /\ FlagHasCause' /\ SocketsOwned'
  BY DEF Structure, ResultKept, FlagHasCause, SocketsOwned
<1> QED
  BY <1>1, <1>2, <1>3 DEF Structure

\* accept() takes the first connection of the backlog, which occurs there once.
LEMMA AcceptStep ==
  ASSUME TypeOK, Structure, Accept, UNCHANGED clientVars
  PROVE  Structure'
<1> DEFINE h == Head(backlog)
<1>0. /\ backlog \in Seq(Clients) /\ Len(backlog) \in Nat /\ Len(backlog) > 0
      /\ h = backlog[1] /\ h \in Clients
  BY HeadTailProperties, LenProperties, EmptySeq, ElementOfSeq
     DEF Accept, TypeOK, ConnTypeOK
<1>1. srvEnd[h] = "queued" /\ thread[h] = "none" /\ req[h] = "none"
  BY <1>0 DEF Structure, BacklogQueued, NotYetAccepted
<1>2. /\ main = "select" /\ main' \in {"spawn", "serve"} /\ cli_socket' = h
      /\ srvEnd'[h] = "open" /\ (\A d \in Clients : d # h => srvEnd'[d] = srvEnd[d])
      /\ UNCHANGED <<cli, thread, globalVars>>
      /\ backlog' = Tail(backlog)
  BY <1>0 DEF Accept, TypeOK, ConnTypeOK
<1>3. /\ main' = "spawn" => g_is_threaded /\ UNCHANGED reqVars
      /\ main' = "serve" => ~g_is_threaded /\ CallRequests(h)
  BY DEF Accept
<1>4. /\ \A d \in Clients : d # h => req'[d] = req[d] /\ rc'[d] = rc[d]
      /\ rc[h] = "" /\ rc'[h] # "OK_EXIT"
      /\ rc'[h] # "" <=> req'[h] = "returned"
      /\ main' = "spawn" => req'[h] = "none"
  BY <1>0, <1>1, <1>2, <1>3 DEF CallRequests, Goto, Return, TypeOK, ServerTypeOK, Structure,
     ResultKept
<1>5. BacklogQueued'
  <2>1. /\ Len(backlog') = Len(backlog) - 1
        /\ \A i \in 1 .. Len(backlog') : backlog'[i] = backlog[i + 1]
    BY <1>0, <1>2, HeadTailProperties, EmptySeq
  <2>2. \A i \in 1 .. Len(backlog') : i + 1 \in 1 .. Len(backlog) /\ i + 1 # 1
    BY <1>0, <2>1
  <2>3. \A i \in 1 .. Len(backlog') :
          backlog'[i] \in Clients /\ backlog'[i] # h /\ srvEnd[backlog'[i]] = "queued"
    <3> SUFFICES ASSUME NEW i \in 1 .. Len(backlog')
                 PROVE  backlog'[i] \in Clients /\ backlog'[i] # h /\ srvEnd[backlog'[i]] = "queued"
      OBVIOUS
    <3> DEFINE k == i + 1
    <3>1. k \in 1 .. Len(backlog) /\ k # 1 /\ backlog'[i] = backlog[k] /\ 1 \in 1 .. Len(backlog)
      BY <1>0, <2>1, <2>2
    <3>2. backlog[k] \in Clients
      BY <1>0, <3>1, ElementOfSeq
    <3>3. backlog[k] # h /\ srvEnd[backlog[k]] = "queued"
      BY <1>0, <3>1 DEF Structure, BacklogQueued
    <3> QED
      BY <3>1, <3>2, <3>3
  <2>4. \A i, j \in 1 .. Len(backlog') : backlog'[i] = backlog'[j] => i + 1 = j + 1
    BY <2>1, <2>2 DEF Structure, BacklogQueued
  <2>5. \A i, j \in 1 .. Len(backlog') : backlog'[i] = backlog'[j] => i = j
    BY <1>0, <2>1, <2>4
  <2>6. \A i \in 1 .. Len(backlog') : srvEnd'[backlog'[i]] = "queued"
    BY <1>2, <2>3
  <2> QED
    BY <2>5, <2>6 DEF BacklogQueued
<1>6. NotYetAccepted'
  BY <1>0, <1>1, <1>2, <1>4 DEF Structure, NotYetAccepted
<1>7. MainHolds'
  BY <1>0, <1>1, <1>2, <1>3, <1>4 DEF MainHolds
<1>8. HandlerHolds'
  BY <1>1, <1>2, <1>4 DEF Structure, HandlerHolds
<1>9. ResultKept' /\ FlagHasCause'
  BY <1>1, <1>2, <1>4 DEF Structure, ResultKept, FlagHasCause
<1>10. SocketsOwned'
  BY <1>0, <1>1, <1>2 DEF Structure, SocketsOwned
<1> QED
  BY <1>5, <1>6, <1>7, <1>8, <1>9, <1>10 DEF Structure

\* The main thread hands its client to a handler, or closes it.
LEMMA SpawnStep ==
  ASSUME TypeOK, Structure, Spawn \/ SpawnFails, UNCHANGED clientVars
  PROVE  Structure'
<1> DEFINE h == cli_socket
<1>0. /\ main = "spawn" /\ main' = "check" /\ h \in Clients /\ cli_socket' = None
      /\ thread[h] = "none" /\ srvEnd[h] \in {"open", "closed"}
      /\ req[h] = "none" /\ g_is_threaded
      /\ UNCHANGED <<backlog, cli, reqVars, globalVars>>
  BY DEF Spawn, SpawnFails, Structure, MainHolds
<1>1. /\ \A d \in Clients : d # h => thread'[d] = thread[d] /\ srvEnd'[d] = srvEnd[d]
      /\ \/ thread'[h] = "new" /\ srvEnd'[h] = srvEnd[h]
         \/ thread'[h] = "none" /\ srvEnd'[h] = "closed"
  BY <1>0 DEF Spawn, SpawnFails, TypeOK, ConnTypeOK, ServerTypeOK
<1>2. BacklogQueued'
  <2>1. \A i \in 1 .. Len(backlog) : backlog[i] \in Clients /\ backlog[i] # h
    BY <1>0, ElementOfSeq DEF Structure, BacklogQueued, TypeOK, ConnTypeOK
  <2> QED
    BY <1>0, <1>1, <2>1 DEF Structure, BacklogQueued
<1>3. NotYetAccepted'
  BY <1>0, <1>1 DEF Structure, NotYetAccepted
<1>4. MainHolds' /\ HandlerHolds'
  BY <1>0, <1>1 DEF Structure, MainHolds, HandlerHolds
<1>5. ResultKept' /\ FlagHasCause'
  BY <1>0, <1>1 DEF Structure, ResultKept, FlagHasCause
<1>6. SocketsOwned'
  BY <1>0, <1>1, NoneAssumption DEF Structure, SocketsOwned
<1> QED
  BY <1>2, <1>3, <1>4, <1>5, <1>6 DEF Structure

\* The single-threaded server closes the client it has served.
LEMMA ServeCloseStep ==
  ASSUME TypeOK, Structure, ServeClose, UNCHANGED clientVars
  PROVE  Structure'
<1> DEFINE h == cli_socket
<1>0. /\ main = "serve" /\ main' = "served" /\ h \in Clients /\ req[h] = "returned"
      /\ thread[h] = "none" /\ srvEnd[h] \in {"open", "closed"} /\ ~g_is_threaded
      /\ UNCHANGED <<backlog, cli, cli_socket, thread, reqVars, globalVars>>
  BY DEF ServeClose, Structure, MainHolds
<1>1. srvEnd'[h] = "closed" /\ \A d \in Clients : d # h => srvEnd'[d] = srvEnd[d]
  BY <1>0 DEF ServeClose, TypeOK, ConnTypeOK
<1>2. BacklogQueued'
  <2>1. \A i \in 1 .. Len(backlog) : backlog[i] \in Clients /\ backlog[i] # h
    BY <1>0, ElementOfSeq DEF Structure, BacklogQueued, TypeOK, ConnTypeOK
  <2> QED
    BY <1>0, <1>1, <2>1 DEF Structure, BacklogQueued
<1>3. NotYetAccepted'
  BY <1>0, <1>1 DEF Structure, NotYetAccepted
<1>4. MainHolds' /\ HandlerHolds'
  BY <1>0, <1>1 DEF Structure, MainHolds, HandlerHolds
<1>5. ResultKept' /\ FlagHasCause' /\ SocketsOwned'
  BY <1>0, <1>1 DEF Structure, ResultKept, FlagHasCause, SocketsOwned
<1> QED
  BY <1>2, <1>3, <1>4, <1>5 DEF Structure

\* It forgets that client and goes on or stops.
LEMMA ServeNextStep ==
  ASSUME TypeOK, Structure, ServeNext, UNCHANGED clientVars
  PROVE  Structure'
<1>0. /\ main = "served" /\ main' \in {"stop", "check"}
      /\ UNCHANGED <<backlog, srvEnd, cli, thread, reqVars, globalVars>>
  BY DEF ServeNext
<1>1. BacklogQueued' /\ NotYetAccepted' /\ HandlerHolds'
  BY <1>0 DEF Structure, BacklogQueued, NotYetAccepted, HandlerHolds
<1>2. MainHolds' /\ ResultKept' /\ FlagHasCause'
  BY <1>0 DEF Structure, MainHolds, ResultKept, FlagHasCause
<1>3. SocketsOwned'
  BY <1>0 DEF Structure, SocketsOwned
<1> QED
  BY <1>1, <1>2, <1>3 DEF Structure

\* Closing the listening socket drops what nobody has accepted.
LEMMA StopServerStep ==
  ASSUME TypeOK, Structure, StopServer, UNCHANGED clientVars
  PROVE  Structure'
<1>0. /\ main = "stop" /\ main' = "return" /\ backlog' = <<>>
      /\ UNCHANGED <<cli, cli_socket, thread, reqVars, globalVars>>
      /\ \A d \in Clients :
           srvEnd'[d] = IF srvEnd[d] = "queued" THEN "closed" ELSE srvEnd[d]
  BY DEF StopServer, Dropped
<1>1. BacklogQueued'
  <2>1. \A i \in 1 .. Len(backlog') : FALSE
    BY <1>0, EmptySeq
  <2> QED
    BY <2>1 DEF BacklogQueued
<1>2. NotYetAccepted'
  BY <1>0 DEF Structure, NotYetAccepted
<1>3. MainHolds' /\ HandlerHolds'
  BY <1>0 DEF Structure, MainHolds, HandlerHolds
<1>4. ResultKept' /\ FlagHasCause' /\ SocketsOwned'
  BY <1>0 DEF Structure, ResultKept, FlagHasCause, SocketsOwned
<1> QED
  BY <1>1, <1>2, <1>3, <1>4 DEF Structure

-----------------------------------------------------------------------------
(***************************************************************************)
(* Every step of the system.                                               *)
(***************************************************************************)
ClientStep(c) ==
  \/ Connect(c) \/ ConnectFails(c)
  \/ \E r \in Lines : SendCommand(c, r) \/ SendFails(c, r)
  \/ EndOfInput(c) \/ RecvResponse(c) \/ RecvClosed(c) \/ Kill(c)

\* A step belongs to a client, to a request, to a handler or to the main thread.
LEMMA NextCases ==
  ASSUME [Next]_vars
  PROVE  \/ \E c \in Clients : ClientStep(c) /\ UNCHANGED serverVars
         \/ \E c \in Clients : RequestStep(c) /\ UNCHANGED clientVars
         \/ \E c \in Clients : HandlerStep(c) /\ UNCHANGED clientVars
         \/ MainStep /\ UNCHANGED clientVars
         \/ UNCHANGED vars
<1> CASE UNCHANGED vars
  OBVIOUS
<1> CASE Next
  BY DEF Next, Finished, ClientStep, RequestStep, HandlerStep, MainStep
<1> QED
  OBVIOUS

\* Types are kept by every step from a state whose counter counts.
LEMMA TypeStep ==
  ASSUME TypeOK, ActiveIsCounted, [Next]_vars
  PROVE  TypeOK'
<1>1. ASSUME NEW c \in Clients, ClientStep(c), UNCHANGED serverVars
      PROVE  TypeOK'
  <2>1. ConnTypeOK' /\ ClientTypeOK'
    BY <1>1, ClientTypeStep DEF TypeOK, ClientStep
  <2> QED
    BY <1>1, <2>1 DEF TypeOK, ServerTypeOK
<1>2. ASSUME ConnTypeOK', ServerTypeOK', UNCHANGED clientVars
      PROVE  TypeOK'
  BY <1>2 DEF TypeOK, ClientTypeOK
<1>3. CASE UNCHANGED vars
  BY <1>3 DEF TypeOK, ConnTypeOK, ClientTypeOK, ServerTypeOK
<1> QED
  BY <1>1, <1>2, <1>3, NextCases, RequestTypeStep, HandlerTypeStep, MainTypeStep DEF TypeOK

-----------------------------------------------------------------------------
(***************************************************************************)
(* The counter.                                                            *)
(***************************************************************************)

\* Unchanged as long as the same threads count.
LEMMA CountFrame ==
  ASSUME ActiveIsCounted, UNCHANGED g_active_clients,
         \A c \in Clients : thread'[c] \in {"serving", "stopping", "leaving"}
                              <=> thread[c] \in {"serving", "stopping", "leaving"}
  PROVE  ActiveIsCounted'
<1>1. Counted' = Counted
  BY DEF Counted
<1> QED
  BY <1>1 DEF ActiveIsCounted

\* A handler that starts joins the set, one that leaves is taken out of it.
LEMMA CountHandler ==
  ASSUME TypeOK, ActiveIsCounted, NEW c \in Clients, HandlerStep(c)
  PROVE  ActiveIsCounted'
<1>0. IsFiniteSet(Counted) /\ Cardinality(Counted) \in Nat
  BY CountedFinite
<1>1. CASE HandlerStart(c)
  <2>1. c \notin Counted /\ Counted' = Counted \cup {c}
    BY <1>1 DEF HandlerStart, Counted, TypeOK, ServerTypeOK
  <2>2. Cardinality(Counted') = Cardinality(Counted) + 1
    BY <1>0, <2>1, FS_AddElement
  <2>3. g_active_clients' = g_active_clients + 1
    BY <1>1 DEF HandlerStart
  <2> QED
    BY <2>2, <2>3 DEF ActiveIsCounted
<1>2. CASE HandlerClose(c)
  <2>1. UNCHANGED g_active_clients
    BY <1>2 DEF HandlerClose
  <2>2. \A d \in Clients : thread'[d] \in {"serving", "stopping", "leaving"}
                              <=> thread[d] \in {"serving", "stopping", "leaving"}
    BY <1>2 DEF HandlerClose, TypeOK, ServerTypeOK
  <2> QED
    BY <2>1, <2>2, CountFrame
<1>3. CASE HandlerStop(c)
  <2>1. UNCHANGED g_active_clients
    BY <1>3 DEF HandlerStop
  <2>2. \A d \in Clients : thread'[d] \in {"serving", "stopping", "leaving"}
                              <=> thread[d] \in {"serving", "stopping", "leaving"}
    BY <1>3 DEF HandlerStop, TypeOK, ServerTypeOK
  <2> QED
    BY <2>1, <2>2, CountFrame
<1>4. CASE HandlerLeave(c)
  <2>1. c \in Counted /\ Counted' = Counted \ {c}
    BY <1>4 DEF HandlerLeave, Counted, TypeOK, ServerTypeOK
  <2>2. Cardinality(Counted') = Cardinality(Counted) - 1
    BY <1>0, <2>1, FS_RemoveElement
  <2>3. g_active_clients' = g_active_clients - 1
    BY <1>4 DEF HandlerLeave
  <2> QED
    BY <2>2, <2>3 DEF ActiveIsCounted
<1> QED
  BY <1>1, <1>2, <1>3, <1>4 DEF HandlerStep

\* The main thread creates a handler for a client that has none.
LEMMA CountMain ==
  ASSUME TypeOK, Structure, ActiveIsCounted, MainStep
  PROVE  ActiveIsCounted'
<1>1. UNCHANGED g_active_clients
  BY DEF MainStep, Boot, BootFails, CheckStop, SelectTimeout, Accept, AcceptFails, Spawn,
         SpawnFails, ServeClose, ServeNext, StopServer, ExitProcess
<1>2. CASE Spawn
  <2>1. thread[cli_socket] = "none" /\ cli_socket \in Clients
    BY <1>2 DEF Spawn, Structure, MainHolds
  <2>2. \A d \in Clients : thread'[d] \in {"serving", "stopping", "leaving"}
                              <=> thread[d] \in {"serving", "stopping", "leaving"}
    BY <1>2, <2>1 DEF Spawn, TypeOK, ServerTypeOK
  <2> QED
    BY <1>1, <2>2, CountFrame
<1>3. CASE UNCHANGED thread
  BY <1>1, <1>3, CountFrame
<1> QED
  BY <1>2, <1>3 DEF MainStep, Boot, BootFails, CheckStop, SelectTimeout, Accept, AcceptFails,
     SpawnFails, ServeClose, ServeNext, StopServer, ExitProcess

\* Every step keeps the counter equal to the number of counted handlers.
LEMMA CountStep ==
  ASSUME TypeOK, Structure, ActiveIsCounted, [Next]_vars
  PROVE  ActiveIsCounted'
<1>1. ASSUME UNCHANGED <<threadVars, globalVars>>
      PROVE  ActiveIsCounted'
  BY <1>1, CountFrame
<1>2. ASSUME NEW c \in Clients, RequestStep(c)
      PROVE  UNCHANGED <<threadVars, globalVars>> \/ (UNCHANGED thread /\ UNCHANGED g_active_clients)
  BY <1>2 DEF RequestStep, RecvCommand, RecvGone, SendMessage, SendMessageEof, RunPipeline,
     PipelineExits, SendPipelineEof, Send, SigPipe
<1>3. ASSUME UNCHANGED thread, UNCHANGED g_active_clients
      PROVE  ActiveIsCounted'
  BY <1>3, CountFrame
<1> QED
  BY <1>1, <1>2, <1>3, NextCases, CountHandler, CountMain

-----------------------------------------------------------------------------
(***************************************************************************)
(* The structure is kept by every step.                                    *)
(***************************************************************************)

\* A client's own step reaches the server only by connecting.
LEMMA StructureClient ==
  ASSUME TypeOK, Structure, NEW c \in Clients, ClientStep(c), UNCHANGED serverVars
  PROVE  Structure'
<1>1. CASE Connect(c)
  BY <1>1, ConnectStep
<1>2. CASE ~Connect(c)
  <2>1. UNCHANGED <<backlog, srvEnd>>
    BY <1>2 DEF ClientStep, ConnectFails, SendCommand, SendFails, EndOfInput, RecvResponse,
       RecvClosed, Kill
  <2>2. \A d \in Clients : cli'[d] = "away" => cli[d] = "away"
    BY <1>2 DEF ClientStep, ConnectFails, SendCommand, SendFails, EndOfInput, RecvResponse,
       RecvClosed, Kill, CleanUp, TypeOK, ClientTypeOK
  <2> QED
    BY <2>1, <2>2, FrameStep
<1> QED
  BY <1>1, <1>2

\* A step of exec_client_requests() moves its activation or ends the process.
LEMMA StructureRequest ==
  ASSUME TypeOK, Structure, NEW c \in Clients, RequestStep(c), UNCHANGED clientVars
  PROVE  Structure'
<1>1. CASE SigPipe(c)
  BY <1>1, EndStep DEF SigPipe
<1>2. CASE PipelineExits(c)
  BY <1>2, EndStep DEF PipelineExits
<1>3. CASE ~SigPipe(c) /\ ~PipelineExits(c)
  <2>1. req[c] \notin {"none", "returned"}
    BY <1>3 DEF RequestStep, RecvCommand, RecvGone, SendMessage, SendMessageEof, RunPipeline,
       SendPipelineEof
  <2>2. UNCHANGED <<backlog, srvEnd, threadVars, globalVars>>
    BY <1>3 DEF RequestStep, RecvCommand, RecvGone, SendMessage, SendMessageEof, RunPipeline,
       SendPipelineEof, Send
  <2>3. \/ \E pc \in ReqPC \ {"none", "returned"} : Goto(c, pc)
        \/ \E v \in RcValue \ {""} : Return(c, v)
    BY <1>3 DEF RequestStep, RecvCommand, RecvGone, SendMessage, SendMessageEof, RunPipeline,
       SendPipelineEof, ReqPC, RcValue
  <2> QED
    BY <2>1, <2>2, <2>3, ActivationStep
<1> QED
  BY <1>1, <1>2, <1>3

\* A step of the main thread takes, hands on or closes one client.
LEMMA StructureMain ==
  ASSUME TypeOK, Structure, MainStep, UNCHANGED clientVars
  PROVE  Structure'
<1>1. CASE Boot \/ BootFails
  BY <1>1, MainIdleStep DEF Boot, BootFails
<1>2. CASE CheckStop \/ SelectTimeout \/ AcceptFails
  BY <1>2, MainIdleStep DEF CheckStop, SelectTimeout, AcceptFails
<1>3. CASE ExitProcess
  BY <1>3, EndStep DEF ExitProcess
<1> QED
  BY <1>1, <1>2, <1>3, AcceptStep, SpawnStep, ServeCloseStep, ServeNextStep, StopServerStep
     DEF MainStep

\* The structure of the system is kept by every step.
LEMMA StructureStep ==
  ASSUME TypeOK, Structure, [Next]_vars
  PROVE  Structure'
<1>1. CASE UNCHANGED vars
  BY <1>1, FrameStep
<1>2. ASSUME NEW c \in Clients, HandlerStep(c), UNCHANGED clientVars
      PROVE  Structure'
  BY <1>2, HandlerStartStep, HandlerCloseStep, HandlerLeaveStep DEF HandlerStep
<1> QED
  BY <1>1, <1>2, NextCases, StructureClient, StructureRequest, StructureMain

-----------------------------------------------------------------------------
(***************************************************************************)
(* The theorems.                                                           *)
(***************************************************************************)
IInv == TypeOK /\ ActiveIsCounted /\ Structure

\* IInv is an invariant of the system.
THEOREM Invariance == Spec => []IInv
<1>1. Init => IInv
  BY TypeInit, StructureInit DEF TypeInv, IInv
<1>2. IInv /\ [Next]_vars => IInv'
  BY TypeStep, CountStep, StructureStep DEF IInv
<1> QED
  BY <1>1, <1>2, PTL DEF Spec

\* Every variable keeps its type, whatever fails: in particular
\* g_active_clients never goes below zero (rsh_server.c:91-93).
THEOREM TypeCorrect == Spec => []TypeOK
<1>1. IInv => TypeOK
  BY DEF IInv
<1> QED
  BY <1>1, Invariance, PTL

\* g_active_clients is the number of handler threads between their increment
\* and their decrement (rsh_server.c:69-71, 91-93).
THEOREM CounterCorrect == Spec => []ActiveIsCounted
<1>1. IInv => ActiveIsCounted
  BY DEF IInv
<1> QED
  BY <1>1, Invariance, PTL

\* An open connection is owned by the main thread or by its handler, and by
\* one of them only (rsh_server.c:48, 56, 73, 333).
THEOREM SocketsHaveOneOwner == Spec => []SocketsOwned
<1>1. IInv => SocketsOwned
  BY DEF IInv, Structure
<1> QED
  BY <1>1, Invariance, PTL

\* A connection without an owner is not open.
LEMMA NoOwnerNotOpen ==
  ASSUME SocketsOwned, NEW c \in Clients, thread[c] \notin {"new", "serving"},
         main \notin {"spawn", "serve"}
  PROVE  srvEnd[c] # "open"
BY DEF SocketsOwned

\* When the counter is zero nobody is being served by a handler.
LEMMA NobodyServed ==
  ASSUME IInv, g_active_clients = 0, main \notin {"spawn", "serve"},
         NEW c \in Clients, req[c] # "none"
  PROVE  srvEnd[c] = "closed"
<1>1. Counted = {}
  BY CountedFinite, FS_EmptySet DEF IInv, ActiveIsCounted
<1>2. thread[c] \notin {"new", "serving"}
  BY <1>1 DEF Counted, IInv, Structure, HandlerHolds
<1>3. srvEnd[c] # "open"
  BY <1>2, NoOwnerNotOpen DEF IInv, Structure
<1> QED
  BY <1>3 DEF IInv, TypeOK, ConnTypeOK, Structure, NotYetAccepted

\* The step in which the accept loop comes to return OK_EXIT: a client has
\* asked, and nobody is being served.
LEMMA StopDecided ==
  ASSUME IInv, Next, retcode' = "OK_EXIT", retcode = ""
  PROVE  /\ MainStep /\ UNCHANGED clientVars
         /\ CheckStop \/ ServeNext
         /\ \E c \in Clients : rc[c] = "OK_EXIT" /\ srvEnd[c] = "closed"
         /\ \A c \in Clients : req[c] # "none" => srvEnd[c] = "closed"
<1>1. /\ MainStep /\ UNCHANGED clientVars
      /\ (CheckStop /\ g_should_stop /\ g_active_clients = 0)
           \/ (ServeNext /\ rc[cli_socket] = "OK_EXIT")
  <2>1. MainStep /\ UNCHANGED clientVars
    BY NextCases DEF RequestStep, RecvCommand, RecvGone, SendMessage, SendMessageEof,
       RunPipeline, PipelineExits, SendPipelineEof, Send, SigPipe, HandlerStep, HandlerStart,
       HandlerClose, HandlerStop, HandlerLeave
  <2> QED
    BY <2>1 DEF MainStep, Boot, BootFails, CheckStop, SelectTimeout, Accept,
       AcceptFails, Spawn, SpawnFails, ServeClose, ServeNext, StopServer, ExitProcess
<1>2. CASE CheckStop /\ g_should_stop /\ g_active_clients = 0
  BY <1>1, <1>2, NobodyServed DEF CheckStop, IInv, Structure, FlagHasCause
<1>3. CASE ServeNext /\ rc[cli_socket] = "OK_EXIT"
  <2>1. main = "served" /\ ~g_is_threaded /\ cli_socket \in Clients
          /\ srvEnd[cli_socket] = "closed"
    BY <1>3 DEF ServeNext, IInv, Structure, MainHolds
  <2>2. \A c \in Clients : thread[c] = "none"
    BY <2>1 DEF IInv, Structure, HandlerHolds
  <2>3. ASSUME NEW c \in Clients
        PROVE  srvEnd[c] # "open"
    <3>1. thread[c] \notin {"new", "serving"} /\ main \notin {"spawn", "serve"}
      BY <2>1, <2>2
    <3> QED
      BY <3>1, NoOwnerNotOpen DEF IInv, Structure
  <2>4. \A c \in Clients : req[c] # "none" => srvEnd[c] = "closed"
    BY <2>3 DEF IInv, TypeOK, ConnTypeOK, Structure, NotYetAccepted
  <2> QED
    BY <1>1, <1>3, <2>1, <2>4
<1> QED
  BY <1>1, <1>2, <1>3

\* The accept loop returns OK_EXIT only after a client asked for the stop, and
\* with every connection that was ever served closed (rsh_server.c:303-306).
THEOREM StopIsOrderly == Spec => OrderlyStop
<1> DEFINE Orderly == retcode' = "OK_EXIT" /\ retcode = "" =>
       /\ \E c \in Clients : rc[c] = "OK_EXIT" /\ srvEnd[c] = "closed"
       /\ \A c \in Clients : req[c] # "none" => srvEnd[c] = "closed"
<1>1. IInv /\ [Next]_vars => [Orderly]_vars
  BY StopDecided
<1> QED
  BY <1>1, Invariance, PTL DEF Spec, OrderlyStop
=============================================================================
