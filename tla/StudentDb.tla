----------------------------- MODULE StudentDb -----------------------------
(***************************************************************************)
(* The student database of assn-2/sdbsc.c: a file of fixed-size records    *)
(* indexed by student id, and the processes that run one command each on   *)
(* it.  Processes have file descriptors of their own and no lock; what one *)
(* of them does between two system calls is one step.                      *)
(*                                                                         *)
(* Offsets are counted in records.  STUDENT_RECORD_SIZE is 64 and offsets  *)
(* are computed in an int of 32 bits, so Span is 2^26 in the code.         *)
(***************************************************************************)
EXTENDS Integers, Sequences, FiniteSets

CONSTANTS Procs,    \* processes; each runs one command after another
          MaxId,    \* MAX_STD_ID, 100000
          MaxGpa,   \* MAX_STD_GPA, 500
          Span,     \* how many records an int offset reaches before it wraps
          Ids,      \* the ids users type
          Gpas,     \* the GPAs users type
          Faults    \* system calls that may fail

ASSUME LimitsAssumption ==
  /\ MaxId \in Nat \ {0} /\ MaxGpa \in Nat
  /\ Span \in Nat /\ 2 * MaxId < Span
ASSUME InputAssumption == Ids \subseteq Int /\ Gpas \subseteq Int
ASSUME FaultsAssumption == Faults \subseteq {"noopen", "noread", "nowrite"}

StudentId == 1 .. MaxId
Empty     == [id |-> 0, gpa |-> 0]
Record    == [id : StudentId, gpa : 0 .. MaxGpa] \cup {Empty}

\* The commands: -a id gpa, -d id, -f id, -c, -p, -x and -z.
Job == [op : {"a"}, id : Ids, gpa : Gpas]
         \cup [op : {"d", "f"}, id : Ids, gpa : {0}]
         \cup [op : {"c", "p", "x", "z"}, id : {0}, gpa : {0}]

\* What a process has printed when it ends.
Reply == {"", "added", "duplicate", "deleted", "found", "not_found", "range", "scanned",
          "zeroed", "not_impl", "open_error", "read_error", "write_error"}

VARIABLES file,      \* the file: record number n is file[n + 1]
          pc, job,   \* per process: where it is, and its command
          student,   \* the record get_student() read, Empty before
          seen,      \* -c, -p: the records counted or printed so far
          pos,       \* -c, -p: the file position
          reply, exit_code

vars == <<file, pc, job, student, seen, pos, reply, exit_code>>

TypeOK ==
  /\ file \in Seq(Record) /\ Len(file) <= MaxId + 1
  /\ pc \in [Procs -> {"idle", "open", "get", "write", "scan", "truncate"}]
  /\ job \in [Procs -> Job]
  /\ student \in [Procs -> Record]
  /\ seen \in [Procs -> SUBSET StudentId]
  /\ pos \in [Procs -> 0 .. MaxId + 1]
  /\ reply \in [Procs -> Reply]
  /\ exit_code \in [Procs -> {"OK", "FAIL_DB", "FAIL_ARGS"}]

NoJob == [op |-> "c", id |-> 0, gpa |-> 0]

Init ==
  /\ file = <<>>
  /\ pc = [p \in Procs |-> "idle"]
  /\ job = [p \in Procs |-> NoJob]
  /\ student = [p \in Procs |-> Empty]
  /\ seen = [p \in Procs |-> {}]
  /\ pos = [p \in Procs |-> 0]
  /\ reply = [p \in Procs |-> ""]
  /\ exit_code = [p \in Procs |-> "OK"]

-----------------------------------------------------------------------------
\* int offset = id * STUDENT_RECORD_SIZE, in records; lseek() refuses a
\* negative one.
Offset(id) == ((id + Span \div 2) % Span) - Span \div 2

InRange(id, gpa) == id \in 1 .. MaxId /\ gpa \in 0 .. MaxGpa

\* read() at record n: the record, or none at the end of the file and when it
\* fails, which the callers do not tell apart.
Read(n) ==
  (IF n < Len(file) THEN {<<file[n + 1]>>} ELSE {<<>>})
    \cup (IF "noread" \in Faults THEN {<<>>} ELSE {})

\* write() of r at record n of f: a hole before it reads as zero bytes.
Put(f, n, r) ==
  [i \in 1 .. (IF n < Len(f) THEN Len(f) ELSE n + 1) |->
     IF i = n + 1 THEN r ELSE IF i <= Len(f) THEN f[i] ELSE Empty]

\* The process prints its reply and ends; its variables are gone.
Exit(p, r, code) ==
  /\ pc' = [pc EXCEPT ![p] = "idle"]
  /\ reply' = [reply EXCEPT ![p] = r]
  /\ exit_code' = [exit_code EXCEPT ![p] = code]
  /\ job' = [job EXCEPT ![p] = NoJob]
  /\ student' = [student EXCEPT ![p] = Empty]
  /\ seen' = [seen EXCEPT ![p] = {}]
  /\ pos' = [pos EXCEPT ![p] = 0]

\* It goes on with another part of its command.
Goto(p, where) ==
  /\ pc' = [pc EXCEPT ![p] = where]
  /\ UNCHANGED <<job, student, seen, pos, reply, exit_code>>

-----------------------------------------------------------------------------
\* A user runs the program.
Start(p) ==
  /\ pc[p] = "idle"
  /\ \E j \in Job : job' = [job EXCEPT ![p] = j]
  /\ pc' = [pc EXCEPT ![p] = "open"]
  /\ reply' = [reply EXCEPT ![p] = ""]
  /\ exit_code' = [exit_code EXCEPT ![p] = "OK"]
  /\ UNCHANGED <<file, student, seen, pos>>

\* Mutant of Open: -a does not look at the range of its arguments.
OpenUnranged(p) ==
  /\ pc[p] = "open"
  /\ \/ job[p].op \in {"a", "d", "f"} /\ Goto(p, "get")
     \/ job[p].op \in {"c", "p"} /\ Goto(p, "scan")
     \/ job[p].op = "x" /\ Exit(p, "not_impl", "OK")
     \/ job[p].op = "z" /\ Goto(p, "truncate")
  /\ UNCHANGED file

\* open_db() without truncation, then the switch on the option.
Open(p) ==
  /\ pc[p] = "open"
  /\ \/ /\ job[p].op = "a"
        /\ ~InRange(job[p].id, job[p].gpa)
        /\ Exit(p, "range", "FAIL_ARGS")
     \/ job[p].op = "a" /\ InRange(job[p].id, job[p].gpa) /\ Goto(p, "get")
     \/ job[p].op \in {"d", "f"} /\ Goto(p, "get")
     \/ job[p].op \in {"c", "p"} /\ Goto(p, "scan")
     \/ job[p].op = "x" /\ Exit(p, "not_impl", "OK")
     \/ job[p].op = "z" /\ Goto(p, "truncate")
     \/ "noopen" \in Faults /\ Exit(p, "open_error", "FAIL_DB")
  /\ UNCHANGED file

\* What follows get_student(): -a goes on unless it found a student, -d only
\* if it found one, whatever the reason was that it did not.
Found(p, s) ==
  \/ job[p].op = "a" /\ Exit(p, "duplicate", "FAIL_DB")
  \/ /\ job[p].op = "d"
     /\ pc' = [pc EXCEPT ![p] = "write"]
     /\ student' = [student EXCEPT ![p] = s]
     /\ UNCHANGED <<job, seen, pos, reply, exit_code>>
  \/ job[p].op = "f" /\ Exit(p, "found", "OK")

NotFound(p, r) ==
  \/ job[p].op = "a" /\ Goto(p, "write")
  \/ job[p].op = "d" /\ Exit(p, "not_found", "FAIL_DB")
  \/ job[p].op = "f" /\ Exit(p, r, "FAIL_DB")

\* Mutant of Get: a deleted record is not told from a student.
GetDeleted(p) ==
  /\ pc[p] = "get"
  /\ LET n == Offset(job[p].id) IN
       \/ n < 0 /\ NotFound(p, "read_error")
       \/ /\ n >= 0
          /\ \E r \in Read(n) : IF r = <<>> THEN NotFound(p, "not_found") ELSE Found(p, Head(r))
  /\ UNCHANGED file

\* get_student() and the caller's look at its result.
Get(p) ==
  /\ pc[p] = "get"
  /\ LET n == Offset(job[p].id) IN
       \/ n < 0 /\ NotFound(p, "read_error")
       \/ /\ n >= 0
          /\ \E r \in Read(n) :
               IF r \in {<<>>, <<Empty>>} THEN NotFound(p, "not_found") ELSE Found(p, Head(r))
  /\ UNCHANGED file

\* Mutant of Write: -a computes the offset of the id before it.
WriteShifted(p) ==
  /\ pc[p] = "write"
  /\ \/ /\ job[p].op = "a"
        /\ file' = Put(file, Offset(job[p].id - 1), [id |-> job[p].id, gpa |-> job[p].gpa])
        /\ Exit(p, "added", "OK")
     \/ /\ job[p].op = "d"
        /\ file' = Put(file, Offset(job[p].id), Empty)
        /\ Exit(p, "deleted", "OK")

\* The second half of add_student() or del_student().
Write(p) ==
  /\ pc[p] = "write"
  /\ \/ /\ job[p].op = "a"
        /\ file' = Put(file, Offset(job[p].id), [id |-> job[p].id, gpa |-> job[p].gpa])
        /\ Exit(p, "added", "OK")
     \/ /\ job[p].op = "d"
        /\ file' = Put(file, Offset(job[p].id), Empty)
        /\ Exit(p, "deleted", "OK")
     \/ "nowrite" \in Faults /\ Exit(p, "write_error", "FAIL_DB") /\ UNCHANGED file

\* A scan has read one record.
Pass(p, r) ==
  /\ pos' = [pos EXCEPT ![p] = @ + 1]
  /\ seen' = [seen EXCEPT ![p] = IF r = Empty THEN @ ELSE @ \cup {pos[p]}]
  /\ UNCHANGED <<pc, job, student, reply, exit_code>>

\* Mutant of ScanNext: the loop does not end at the end of the file.
ScanForever(p) ==
  /\ pc[p] = "scan"
  /\ \E r \in Read(pos[p]) :
       IF r = <<>> THEN Goto(p, "scan") ELSE Pass(p, Head(r))
  /\ UNCHANGED file

\* One read() of count_db_records() or print_db().
ScanNext(p) ==
  /\ pc[p] = "scan"
  /\ \E r \in Read(pos[p]) :
       IF r = <<>> THEN Exit(p, "scanned", "OK") ELSE Pass(p, Head(r))
  /\ UNCHANGED file

\* -z: the file is closed and opened again with O_TRUNC.
Truncate(p) ==
  /\ pc[p] = "truncate"
  /\ \/ file' = <<>> /\ Exit(p, "zeroed", "OK")
     \/ "noopen" \in Faults /\ Exit(p, "open_error", "FAIL_DB") /\ UNCHANGED file

Step(p) == Open(p) \/ Get(p) \/ Write(p) \/ ScanNext(p) \/ Truncate(p)

Next == \E p \in Procs : Start(p) \/ Step(p)

\* A process that was started runs; nobody has to start one.
Fairness == \A p \in Procs : WF_vars(Step(p))

Spec == Init /\ [][Next]_vars /\ Fairness

-----------------------------------------------------------------------------
\* A record is only ever found at the offset of its own id: get_student()
\* does not compare the id it reads with the one it looks for
\* (sdbsc.c:67-88, 136, 151).
RecordsInPlace ==
  \A i \in 1 .. Len(file) : file[i] # Empty => file[i].id = i - 1

\* Every command ends, whatever the others do to the file meanwhile: a scan
\* is not kept busy by adds at ever higher offsets (sdbsc.c:227, 288).
CommandsEnd == \A p \in Procs : pc[p] # "idle" ~> pc[p] = "idle"

\* sdbsc.c:99-102 and 106-107: a location that holds a student is not written to
\* by an add, the add fails as the student already exists.
AddNeverReplaces ==
  [][\A i \in 1 .. Len(file) :
       i <= Len(file') /\ file[i] # Empty => file'[i] \in {file[i], Empty}]_vars
=============================================================================
