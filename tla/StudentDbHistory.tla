-------------------------- MODULE StudentDbHistory --------------------------
(***************************************************************************)
(* StudentDb with two history variables: for the command a process is      *)
(* running, which students have been in the file at some time since the    *)
(* command began, and which have not been in it at some time since then.   *)
(***************************************************************************)
EXTENDS StudentDb

VARIABLES present, absent

historyVars == <<vars, present, absent>>

Students(f) == {s \in StudentId : s < Len(f) /\ f[s + 1] # Empty}

HInit ==
  /\ Init
  /\ present = [p \in Procs |-> {}]
  /\ absent = [p \in Procs |-> {}]

\* A new command forgets what the last one saw; a running one sees the file
\* before the step.
Observe ==
  /\ present' = [p \in Procs |->
       IF pc[p] = "idle" THEN {} ELSE present[p] \cup Students(file)]
  /\ absent' = [p \in Procs |->
       IF pc[p] = "idle" THEN {} ELSE absent[p] \cup (StudentId \ Students(file))]

HNext == Next /\ Observe

HSpec == HInit /\ [][HNext]_historyVars /\ \A p \in Procs : WF_vars(Step(p))

HTypeOK == present \in [Procs -> SUBSET StudentId] /\ absent \in [Procs -> SUBSET StudentId]

(***************************************************************************)
(* What a command says was true at some moment while it ran, although      *)
(* nothing keeps other commands out of the file: an add that succeeds met  *)
(* a free place and one that is refused met a student; a delete or a find  *)
(* met the student or did not; a scan reports each student it met, and     *)
(* leaves out only those that were away at some time (sdbsc.c:65-89,       *)
(* 116-144, 168-190, 216-242, 277-308).                                    *)
(***************************************************************************)
AnswersWereTrue ==
  [][\A p \in Procs : pc[p] # "idle" /\ pc'[p] = "idle" =>
       LET id == job[p].id  r == reply'[p] IN
         /\ r = "added" => id \in absent'[p]
         /\ r \in {"duplicate", "deleted", "found"} => id \in present'[p]
         /\ r = "not_found" => id \notin present'[p] \/ id \in absent'[p]
         /\ r = "scanned" => /\ seen[p] \subseteq present'[p]
                             /\ StudentId \ seen[p] \subseteq absent'[p]]_historyVars
=============================================================================
