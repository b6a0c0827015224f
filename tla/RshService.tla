----------------------------- MODULE RshService -----------------------------
(***************************************************************************)
(* What the remote shell server of assn-6 promises to its clients, without *)
(* threads, counters or messages.                                          *)
(*                                                                         *)
(* Each client goes from outside through waiting and in service to gone,   *)
(* never back.  The server decides to stop in an orderly way only after a  *)
(* client in service has asked for it, and only at a moment when no client *)
(* is in service.  From the decision to the end of the process clients may *)
(* still arrive and even be admitted: those are dropped with the process.  *)
(***************************************************************************)
CONSTANT Clients

VARIABLES where,   \* "outside", "waiting", "inService", "gone", per client
          asked,   \* a client in service has asked for the server to stop
          phase    \* "up"; "closing", then "stopped"; "failing", then "failed";
                   \* or "crashed" from any of the first three

vars == <<where, asked, phase>>

Init ==
  /\ where = [c \in Clients |-> "outside"]
  /\ asked = FALSE
  /\ phase = "up"

Alive == phase \in {"up", "closing", "failing"}

Move(c, from, to) == where[c] = from /\ where' = [where EXCEPT ![c] = to]

Arrive(c) == Alive /\ Move(c, "outside", "waiting") /\ UNCHANGED <<asked, phase>>

Admit(c) == Alive /\ Move(c, "waiting", "inService") /\ UNCHANGED <<asked, phase>>

\* A client asks for the stop and is still in service.
Ask(c) ==
  /\ Alive
  /\ where[c] = "inService"
  /\ asked' = TRUE
  /\ UNCHANGED <<where, phase>>

Leave(c) == Alive /\ Move(c, "inService", "gone") /\ UNCHANGED <<asked, phase>>

\* A client is turned away before it was served.
TurnAway(S) ==
  /\ Alive
  /\ \A c \in S : where[c] = "waiting"
  /\ where' = [c \in Clients |-> IF c \in S THEN "gone" ELSE where[c]]
  /\ UNCHANGED <<asked, phase>>

Decide ==
  /\ phase = "up"
  /\ asked
  /\ \A c \in Clients : where[c] # "inService"
  /\ phase' = "closing"
  /\ UNCHANGED <<where, asked>>

Fail == phase = "up" /\ phase' = "failing" /\ UNCHANGED <<where, asked>>

\* The process ends; whoever is still connected loses the connection.
Drop == where' = [c \in Clients |-> IF where[c] = "outside" THEN "outside" ELSE "gone"]

End ==
  /\ \/ phase = "closing" /\ phase' = "stopped"
     \/ phase = "failing" /\ phase' = "failed"
  /\ Drop
  /\ UNCHANGED asked

Crash == Alive /\ phase' = "crashed" /\ Drop /\ UNCHANGED asked

Next ==
  \/ \E c \in Clients : Arrive(c) \/ Admit(c) \/ Ask(c) \/ Leave(c)
  \/ \E S \in SUBSET Clients : TurnAway(S)
  \/ Decide \/ Fail \/ End \/ Crash

Spec == Init /\ [][Next]_vars
=============================================================================
