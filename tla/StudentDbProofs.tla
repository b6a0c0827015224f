-------------------------- MODULE StudentDbProofs --------------------------
(***************************************************************************)
(* Proofs about StudentDb, for every number of processes, every limit and  *)
(* every set of ids and GPAs that users type.                              *)
(***************************************************************************)
EXTENDS StudentDbHistory, SequenceTheorems, TLAPS

USE DEF vars

-----------------------------------------------------------------------------
(***************************************************************************)
(* Offsets and the file.                                                   *)
(***************************************************************************)
Half == Span \div 2

\* Half of the range of offsets; every student id lies inside it.
LEMMA HalfType == Half \in Nat /\ MaxId < Span - Half /\ Half <= Span - Half /\ Span - Half \in Nat
<1>1. Span \in Nat /\ MaxId \in Nat /\ MaxId > 0 /\ 2 * MaxId < Span
  BY LimitsAssumption
<1>2. Half \in Nat /\ 2 * Half <= Span /\ Span <= 2 * Half + 1
  BY <1>1 DEF Half
<1> QED
  BY <1>1, <1>2

\* An id that an int offset can reach is not wrapped.
LEMMA OffsetFits ==
  ASSUME NEW id \in Int, -Half <= id, id < Span - Half
  PROVE  Offset(id) = id
<1>1. Span \in Nat /\ Span > 0
  BY LimitsAssumption
<1>2. Half \in Nat /\ 0 <= id + Half /\ id + Half < Span
  BY <1>1, HalfType
<1>3. (id + Half) % Span = id + Half
  BY <1>1, <1>2
<1> QED
  BY <1>2, <1>3 DEF Offset, Half

\* Offsets are integers.
LEMMA OffsetType == ASSUME NEW id \in Int PROVE Offset(id) \in Int
<1>1. Span \in Nat /\ Span > 0
  BY LimitsAssumption
<1>2. Half \in Nat
  BY HalfType
<1>3. (id + Half) % Span \in Int
  BY <1>1, <1>2
<1> QED
  BY <1>2, <1>3 DEF Offset, Half

-----------------------------------------------------------------------------
(***************************************************************************)
(* The inductive invariant.  get_student() never compares ids, so that the *)
(* record it finds is the student at that offset follows only from what    *)
(* all writes together have left in the file; and a write may happen long  *)
(* after the read that allowed it, when the file has been emptied.         *)
(***************************************************************************)
FileTypeOK == file \in Seq(Record) /\ Len(file) <= MaxId + 1

ProcTypeOK ==
  /\ pc \in [Procs -> {"idle", "open", "get", "write", "scan", "truncate"}]
  /\ job \in [Procs -> Job]
  /\ student \in [Procs -> Record]
  /\ seen \in [Procs -> SUBSET StudentId]
  /\ pos \in [Procs -> 0 .. MaxId + 1]
  /\ reply \in [Procs -> Reply]
  /\ exit_code \in [Procs -> {"OK", "FAIL_DB", "FAIL_ARGS"}]

\* What the tests made before a system call guarantee after it.
Checked ==
  \A p \in Procs :
    /\ pc[p] \in {"get", "write"} /\ job[p].op = "a" => InRange(job[p].id, job[p].gpa)
    /\ pc[p] = "write" => job[p].op \in {"a", "d"}
    /\ pc[p] = "write" /\ job[p].op = "d" =>
         Offset(job[p].id) \in StudentId /\ student[p].id = Offset(job[p].id)

IInv == FileTypeOK /\ ProcTypeOK /\ RecordsInPlace /\ Checked

\* The type invariant is that of the file and that of the processes.
LEMMA TypeParts == TypeOK <=> FileTypeOK /\ ProcTypeOK
BY DEF TypeOK, FileTypeOK, ProcTypeOK

\* The ids and GPAs of commands are integers.
LEMMA JobType ==
  ASSUME NEW j \in Job
  PROVE  j.id \in Int /\ j.gpa \in Int
<1>1. CASE j \in [op : {"a"}, id : Ids, gpa : Gpas]
  BY <1>1, InputAssumption
<1>2. CASE j \in [op : {"d", "f"}, id : Ids, gpa : {0}]
  <2>1. j.id \in Int
    BY <1>2, InputAssumption
  <2>2. j.gpa \in Int
    BY <1>2
  <2> QED
    BY <2>1, <2>2
<1>3. CASE j \in [op : {"c", "p", "x", "z"}, id : {0}, gpa : {0}]
  BY <1>3
<1> QED
  BY <1>1, <1>2, <1>3 DEF Job

\* What the record at an offset says.
LEMMA ReadRecord ==
  ASSUME FileTypeOK, RecordsInPlace, NEW n \in Nat, NEW r \in Read(n), r # <<>>
  PROVE  /\ n \in 0 .. MaxId /\ n < Len(file) /\ Head(r) = file[n + 1] /\ Head(r) \in Record
         /\ Head(r) # Empty => Head(r).id = n /\ n \in StudentId
<1>1. n < Len(file) /\ r = <<file[n + 1]>>
  BY DEF Read
<1>2. Len(file) \in Nat /\ Len(file) <= MaxId + 1 /\ MaxId \in Nat
  BY LenProperties, LimitsAssumption DEF FileTypeOK
<1>3. n + 1 \in 1 .. Len(file) /\ n \in 0 .. MaxId
  BY <1>1, <1>2
<1>4. file[n + 1] \in Record
  BY <1>3, ElementOfSeq DEF FileTypeOK
<1>5. file[n + 1] # Empty => file[n + 1].id = n
  <2>1. file[n + 1] # Empty => file[n + 1].id = (n + 1) - 1
    BY <1>3 DEF RecordsInPlace
  <2> QED
    BY <2>1
<1>6. file[n + 1] # Empty => file[n + 1].id \in StudentId
  BY <1>4 DEF Record
<1> QED
  BY <1>1, <1>3, <1>4, <1>5, <1>6

\* The initial state.
LEMMA InitIInv == Init => IInv
<1> SUFFICES ASSUME Init PROVE IInv
  OBVIOUS
<1>1. FileTypeOK /\ RecordsInPlace
  <2>1. file = <<>>
    BY DEF Init
  <2>2. file \in Seq(Record) /\ Len(file) = 0 /\ MaxId \in Nat
    BY <2>1, EmptySeq, LimitsAssumption
  <2> QED
    BY <2>2 DEF FileTypeOK, RecordsInPlace
<1>2. ProcTypeOK
  <2>1. NoJob \in Job /\ Empty \in Record /\ 0 \in 0 .. MaxId + 1
    BY LimitsAssumption DEF NoJob, Job, Empty, Record
  <2> QED
    BY <2>1 DEF Init, ProcTypeOK, Reply
<1>3. Checked
  BY DEF Init, Checked
<1> QED
  BY <1>1, <1>2, <1>3 DEF IInv

\* A process that ends or goes on keeps its types.
LEMMA ExitStep ==
  ASSUME ProcTypeOK, Checked, NEW p \in Procs, NEW r \in Reply,
         NEW code \in {"OK", "FAIL_DB", "FAIL_ARGS"}, Exit(p, r, code)
  PROVE  ProcTypeOK' /\ Checked'
<1>1. NoJob \in Job /\ Empty \in Record /\ 0 \in 0 .. MaxId + 1
  BY LimitsAssumption DEF NoJob, Job, Empty, Record
<1>2. ProcTypeOK'
  BY <1>1 DEF ProcTypeOK, Exit
<1>3. Checked'
  BY DEF ProcTypeOK, Checked, Exit
<1> QED
  BY <1>2, <1>3

\* So does one that goes on with another part of its command.
LEMMA GotoStep ==
  ASSUME ProcTypeOK, Checked, NEW p \in Procs, NEW where \in {"get", "scan", "truncate"},
         Goto(p, where), where = "get" /\ job[p].op = "a" => InRange(job[p].id, job[p].gpa)
  PROVE  ProcTypeOK' /\ Checked'
<1>1. ProcTypeOK'
  BY DEF ProcTypeOK, Goto
<1>2. Checked'
  BY DEF ProcTypeOK, Checked, Goto
<1> QED
  BY <1>1, <1>2

\* Steps of the processes that leave the file alone.
LEMMA FileFrame ==
  ASSUME FileTypeOK, RecordsInPlace, UNCHANGED file
  PROVE  FileTypeOK' /\ RecordsInPlace'
BY DEF FileTypeOK, RecordsInPlace

\* A new command has been checked for nothing yet.
LEMMA StartStep ==
  ASSUME IInv, NEW p \in Procs, Start(p)
  PROVE  IInv'
<1>1. FileTypeOK' /\ RecordsInPlace'
  BY FileFrame DEF IInv, Start
<1>2. ProcTypeOK'
  BY DEF IInv, Start, ProcTypeOK, Reply
<1>3. Checked'
  BY DEF IInv, Start, ProcTypeOK, Checked
<1> QED
  BY <1>1, <1>2, <1>3 DEF IInv

\* An add goes on only with an id and a GPA in range.
LEMMA OpenStep ==
  ASSUME IInv, NEW p \in Procs, Open(p)
  PROVE  IInv'
<1>1. FileTypeOK' /\ RecordsInPlace'
  BY FileFrame DEF IInv, Open
<1>2. ProcTypeOK' /\ Checked'
  BY ExitStep, GotoStep DEF IInv, Open, Reply
<1> QED
  BY <1>1, <1>2 DEF IInv

\* The student a command goes on with is the one at the offset of its id.
LEMMA GetStep ==
  ASSUME IInv, NEW p \in Procs, Get(p)
  PROVE  IInv'
<1> DEFINE n == Offset(job[p].id)
<1>0. n \in Int
  <2>1. job[p].id \in Int
    BY JobType DEF IInv, ProcTypeOK
  <2> QED
    BY <2>1, OffsetType
<1>1. FileTypeOK' /\ RecordsInPlace'
  BY FileFrame DEF IInv, Get
<1>2. pc[p] = "get"
  BY DEF Get
<1>3. ASSUME NEW r \in {"read_error", "not_found"}, NotFound(p, r)
      PROVE  ProcTypeOK' /\ Checked'
  <2>1. CASE job[p].op = "a" /\ Goto(p, "write")
    <3>1. ProcTypeOK'
      BY <2>1 DEF IInv, ProcTypeOK, Goto
    <3>2. Checked'
      BY <1>2, <2>1 DEF IInv, ProcTypeOK, Checked, Goto
    <3> QED
      BY <3>1, <3>2
  <2> QED
    BY <1>3, <2>1, ExitStep DEF IInv, NotFound, Reply
<1>4. ASSUME n \in Nat, NEW r \in Read(n), r \notin {<<>>, <<Empty>>}, Found(p, Head(r))
      PROVE  ProcTypeOK' /\ Checked'
  <2>1. Head(r) \in Record /\ Head(r).id = n /\ n \in StudentId
    <3>1. r = <<Head(r)>>
      BY <1>4 DEF Read
    <3>2. Head(r) # Empty
      BY <1>4, <3>1
    <3> QED
      BY <1>4, <3>2, ReadRecord DEF IInv
  <2>2. CASE job[p].op = "d" /\ pc' = [pc EXCEPT ![p] = "write"]
               /\ student' = [student EXCEPT ![p] = Head(r)]
               /\ UNCHANGED <<job, seen, pos, reply, exit_code>>
    <3>1. ProcTypeOK'
      BY <2>1, <2>2 DEF IInv, ProcTypeOK
    <3>2. Checked'
      BY <1>2, <2>1, <2>2 DEF IInv, ProcTypeOK, Checked
    <3> QED
      BY <3>1, <3>2
  <2> QED
    BY <1>4, <2>2, ExitStep DEF IInv, Found, Reply
<1>5. ProcTypeOK' /\ Checked'
  <2>1. CASE n < 0
    BY <1>0, <1>3, <2>1 DEF Get
  <2>2. CASE n >= 0
    <3>1. n \in Nat
      BY <1>0, <2>2
    <3>2. PICK r \in Read(n) :
            IF r \in {<<>>, <<Empty>>} THEN NotFound(p, "not_found") ELSE Found(p, Head(r))
      BY <1>0, <2>2 DEF Get
    <3> QED
      BY <1>3, <1>4, <3>1, <3>2
  <2> QED
    BY <1>0, <2>1, <2>2
<1> QED
  BY <1>1, <1>5 DEF IInv

\* A write puts a record at the offset of its own id, or an empty one.
LEMMA PutInPlace ==
  ASSUME FileTypeOK, RecordsInPlace, NEW n \in StudentId, NEW r \in Record,
         r # Empty => r.id = n, file' = Put(file, n, r)
  PROVE  FileTypeOK' /\ RecordsInPlace'
<1> DEFINE m == IF n < Len(file) THEN Len(file) ELSE n + 1
<1>1. /\ n \in Nat /\ n + 1 <= MaxId + 1 /\ MaxId \in Nat /\ Len(file) \in Nat
      /\ m \in Nat /\ m <= MaxId + 1 /\ file \in Seq(Record) /\ Empty \in Record
  BY LimitsAssumption, LenProperties DEF StudentId, FileTypeOK, Record
<1>2. file' = [i \in 1 .. m |->
                 IF i = n + 1 THEN r ELSE IF i <= Len(file) THEN file[i] ELSE Empty]
  BY DEF Put
<1>3. \A i \in 1 .. m : i <= Len(file) => file[i] \in Record
  BY <1>1, ElementOfSeq
<1>4. \A i \in 1 .. m :
        (IF i = n + 1 THEN r ELSE IF i <= Len(file) THEN file[i] ELSE Empty) \in Record
  BY <1>1, <1>3
<1>5. file' \in [1 .. m -> Record]
  BY <1>2, <1>4
<1>6. file' \in Seq(Record) /\ Len(file') = m
  BY <1>1, <1>5, SeqDef, LenProperties
<1>7. FileTypeOK'
  BY <1>1, <1>6 DEF FileTypeOK
<1>8. ASSUME NEW i \in 1 .. Len(file'), file'[i] # Empty
      PROVE  file'[i].id = i - 1
  <2>1. i \in 1 .. m
    BY <1>6
  <2>2. CASE i = n + 1
    <3>1. file'[i] = r
      BY <1>2, <2>1, <2>2
    <3> QED
      BY <1>1, <1>8, <2>2, <3>1
  <2>3. CASE i # n + 1
    <3>1. i <= Len(file) /\ file'[i] = file[i]
      BY <1>2, <1>8, <2>1, <2>3
    <3>2. i \in 1 .. Len(file)
      BY <1>1, <2>1, <3>1
    <3> QED
      BY <1>8, <3>1, <3>2 DEF RecordsInPlace
  <2> QED
    BY <2>2, <2>3
<1>9. RecordsInPlace'
  BY <1>8 DEF RecordsInPlace
<1> QED
  BY <1>7, <1>9

\* The write follows a check made earlier, and the offset is still in range.
LEMMA WriteStep ==
  ASSUME IInv, NEW p \in Procs, Write(p)
  PROVE  IInv'
<1>0. job[p].id \in Int /\ job[p].gpa \in Int /\ pc[p] = "write"
  BY JobType DEF IInv, ProcTypeOK, Write
<1>1. ProcTypeOK' /\ Checked'
  BY ExitStep DEF IInv, Write, Reply
<1>2. CASE job[p].op = "a" /\ file' = Put(file, Offset(job[p].id), [id |-> job[p].id, gpa |-> job[p].gpa])
  <2>1. job[p].id \in StudentId /\ job[p].gpa \in 0 .. MaxGpa
    BY <1>0, <1>2 DEF IInv, Checked, InRange, StudentId
  <2>2. Offset(job[p].id) = job[p].id
    <3>1. -Half <= job[p].id /\ job[p].id < Span - Half
      BY <1>0, <2>1, HalfType, LimitsAssumption DEF StudentId
    <3> QED
      BY <1>0, <3>1, OffsetFits
  <2>3. [id |-> job[p].id, gpa |-> job[p].gpa] \in Record
    BY <2>1 DEF Record
  <2>4. FileTypeOK' /\ RecordsInPlace'
    BY <1>2, <2>1, <2>2, <2>3, PutInPlace DEF IInv
  <2> QED
    BY <1>1, <2>4 DEF IInv
<1>3. CASE job[p].op = "d" /\ file' = Put(file, Offset(job[p].id), Empty)
  <2>1. Offset(job[p].id) \in StudentId /\ Empty \in Record
    BY <1>0, <1>3 DEF IInv, Checked, Record
  <2>2. FileTypeOK' /\ RecordsInPlace'
    BY <1>3, <2>1, PutInPlace DEF IInv
  <2> QED
    BY <1>1, <2>2 DEF IInv
<1>4. CASE UNCHANGED file
  BY <1>1, <1>4, FileFrame DEF IInv
<1> QED
  BY <1>2, <1>3, <1>4 DEF Write

\* A scan stays inside the file, and what it has seen are students.
LEMMA ScanStep ==
  ASSUME IInv, NEW p \in Procs, ScanNext(p)
  PROVE  IInv'
<1>0. pos[p] \in Nat
  BY DEF IInv, ProcTypeOK
<1>1. FileTypeOK' /\ RecordsInPlace'
  BY FileFrame DEF IInv, ScanNext
<1>2. PICK r \in Read(pos[p]) : IF r = <<>> THEN Exit(p, "scanned", "OK") ELSE Pass(p, Head(r))
  BY DEF ScanNext
<1>3. CASE r = <<>>
  BY <1>1, <1>2, <1>3, ExitStep DEF IInv, Reply
<1>4. CASE r # <<>>
  <2>1. /\ pos[p] \in 0 .. MaxId
        /\ Head(r) # Empty => pos[p] \in StudentId
    BY <1>0, <1>4, ReadRecord DEF IInv
  <2>2. pos[p] + 1 \in 0 .. MaxId + 1
    BY <2>1, LimitsAssumption
  <2>3. pos' \in [Procs -> 0 .. MaxId + 1]
    BY <1>2, <1>4, <2>2 DEF IInv, ProcTypeOK, Pass
  <2>4. seen' \in [Procs -> SUBSET StudentId]
    <3>1. seen \in [Procs -> SUBSET StudentId]
      BY DEF IInv, ProcTypeOK
    <3>2. \E new \in SUBSET StudentId : seen' = [seen EXCEPT ![p] = new]
      BY <1>2, <1>4, <2>1, <3>1 DEF Pass
    <3> QED
      BY <3>1, <3>2
  <2>5. ProcTypeOK' /\ Checked'
    BY <1>2, <1>4, <2>3, <2>4 DEF IInv, ProcTypeOK, Checked, Pass
  <2> QED
    BY <1>1, <2>5 DEF IInv
<1> QED
  BY <1>3, <1>4

\* An empty file has every record in its place.
LEMMA TruncateStep ==
  ASSUME IInv, NEW p \in Procs, Truncate(p)
  PROVE  IInv'
<1>1. ProcTypeOK' /\ Checked'
  BY ExitStep DEF IInv, Truncate, Reply
<1>2. FileTypeOK' /\ RecordsInPlace'
  <2>1. CASE file' = <<>>
    <3>1. file' \in Seq(Record) /\ Len(file') = 0 /\ MaxId \in Nat
      BY <2>1, EmptySeq, LimitsAssumption
    <3> QED
      BY <3>1 DEF FileTypeOK, RecordsInPlace
  <2>2. CASE UNCHANGED file
    BY <2>2, FileFrame DEF IInv
  <2> QED
    BY <2>1, <2>2 DEF Truncate
<1> QED
  BY <1>1, <1>2 DEF IInv

\* Every step keeps the invariant.
LEMMA IInvStep == IInv /\ [Next]_vars => IInv'
<1> SUFFICES ASSUME IInv, [Next]_vars PROVE IInv'
  OBVIOUS
<1>1. CASE UNCHANGED vars
  BY <1>1 DEF IInv, FileTypeOK, ProcTypeOK, RecordsInPlace, Checked
<1>2. CASE Next
  BY <1>2, StartStep, OpenStep, GetStep, WriteStep, ScanStep, TruncateStep DEF Next, Step
<1> QED
  BY <1>1, <1>2

-----------------------------------------------------------------------------
(***************************************************************************)
(* The theorems about StudentDb.                                           *)
(***************************************************************************)

\* IInv is an invariant of the database.
THEOREM Invariance == Spec => []IInv
BY InitIInv, IInvStep, PTL DEF Spec

\* Files hold whole records and never grow past the last id, and a scan stays
\* inside the file, whatever commands run at once and whatever fails.
THEOREM TypeCorrect == Spec => []TypeOK
<1>1. IInv => TypeOK
  BY TypeParts DEF IInv
<1> QED
  BY <1>1, Invariance, PTL

\* The record at an offset belongs to the id of that offset, for any commands
\* running at once (sdbsc.c:67-88, 136).
THEOREM InPlace == Spec => []RecordsInPlace
<1>1. IInv => RecordsInPlace
  BY DEF IInv
<1> QED
  BY <1>1, Invariance, PTL

-----------------------------------------------------------------------------
(***************************************************************************)
(* What commands answer.  The invariant says what a command that has not   *)
(* ended yet has already learned about the file as it was then.            *)
(***************************************************************************)
NoReadErrors == "noread" \notin Faults

IdsFit == \A id \in Ids : -Half <= id /\ id < Span - Half

Learned ==
  \A p \in Procs :
    /\ pc[p] = "write" /\ job[p].op = "a" => job[p].id \in absent[p]
    /\ pc[p] = "write" /\ job[p].op = "d" => job[p].id \in present[p]
    /\ pc[p] = "scan" =>
         /\ seen[p] \subseteq present[p]
         /\ \A s \in StudentId : s < pos[p] /\ s \notin seen[p] => s \in absent[p]
    /\ pc[p] # "scan" => seen[p] = {} /\ pos[p] = 0

HInv == IInv /\ HTypeOK /\ Learned

\* What the history variables hold after a step of a running command.
LEMMA ObserveStep ==
  ASSUME HTypeOK, Observe
  PROVE  /\ HTypeOK'
         /\ \A p \in Procs : pc[p] # "idle" =>
              /\ present'[p] = present[p] \cup Students(file)
              /\ absent'[p] = absent[p] \cup (StudentId \ Students(file))
BY DEF HTypeOK, Observe, Students

\* An id that fits is its own offset.
LEMMA IdIsOffset ==
  ASSUME IdsFit, IInv, NEW p \in Procs, job[p].op \in {"a", "d", "f"}
  PROVE  job[p].id \in Int /\ Offset(job[p].id) = job[p].id
<1>1. job[p] \in [op : {"a"}, id : Ids, gpa : Gpas] \/ job[p] \in [op : {"d", "f"}, id : Ids, gpa : {0}]
  BY DEF IInv, ProcTypeOK, Job
<1>2. job[p].id \in Ids /\ job[p].id \in Int
  BY <1>1, InputAssumption
<1>3. -Half <= job[p].id /\ job[p].id < Span - Half
  BY <1>2 DEF IdsFit
<1> QED
  BY <1>2, <1>3, OffsetFits

\* Without read errors a read tells whether a student is in the file.
LEMMA ReadTells ==
  ASSUME NoReadErrors, IInv, NEW n \in Nat, NEW r \in Read(n)
  PROVE  /\ r \notin {<<>>, <<Empty>>} => n \in Students(file)
         /\ r \in {<<>>, <<Empty>>} => n \notin Students(file)
<1>1. r = <<>> \/ (n < Len(file) /\ r = <<file[n + 1]>>)
  BY DEF Read
<1>2. r = <<>> => ~(n < Len(file))
  BY DEF Read, NoReadErrors
<1>3. ASSUME r \notin {<<>>, <<Empty>>}
      PROVE  n \in Students(file)
  <2>1. n < Len(file) /\ r = <<file[n + 1]>> /\ file[n + 1] # Empty /\ Head(r) = file[n + 1]
    BY <1>1, <1>3
  <2>2. n \in StudentId
    BY <1>3, <2>1, ReadRecord DEF IInv
  <2> QED
    BY <2>1, <2>2 DEF Students
<1>4. ASSUME r \in {<<>>, <<Empty>>}, n \in Students(file)
      PROVE  FALSE
  <2>1. n < Len(file) /\ file[n + 1] # Empty
    BY <1>4 DEF Students
  <2>2. r = <<file[n + 1]>>
    BY <1>1, <1>2, <2>1
  <2> QED
    BY <1>4, <2>1, <2>2
<1> QED
  BY <1>3, <1>4

\* What ends a lookup was true when it was read.
LEMMA GetLearns ==
  ASSUME NoReadErrors, IdsFit, HInv, NEW p \in Procs, Get(p), Observe,
         job[p].op \in {"a", "d", "f"}
  PROVE  LET id == job[p].id IN
         /\ pc'[p] = "write" /\ job[p].op = "a" => id \in absent'[p]
         /\ pc'[p] = "write" /\ job[p].op = "d" => id \in present'[p]
         /\ pc'[p] = "idle" =>
              \/ reply'[p] \in {"duplicate", "found"} /\ id \in present'[p]
              \/ reply'[p] = "not_found" /\ (id \notin present'[p] \/ id \in absent'[p])
              \/ reply'[p] = "read_error"
         /\ pc'[p] \in {"write", "idle"}
<1> DEFINE id == job[p].id
<1>0. /\ id \in Int /\ Offset(id) = id /\ pc[p] = "get"
      /\ job[p].op = "a" => id \in StudentId
  BY IdIsOffset DEF HInv, IInv, Checked, InRange, StudentId, Get
<1>1. /\ present'[p] = present[p] \cup Students(file) /\ present'[p] \subseteq StudentId
      /\ absent'[p] = absent[p] \cup (StudentId \ Students(file))
  BY <1>0, ObserveStep DEF HInv, HTypeOK
<1>2. ASSUME NEW r \in {"read_error", "not_found"}, NotFound(p, r), id \notin Students(file)
      PROVE  /\ job[p].op = "a" => pc'[p] = "write"
             /\ job[p].op \in {"d", "f"} => pc'[p] = "idle" /\ reply'[p] \in {"not_found", r}
             /\ id \in StudentId => id \in absent'[p]
             /\ id \notin StudentId => id \notin present'[p]
  <2>1. /\ job[p].op = "a" => pc'[p] = "write"
        /\ job[p].op \in {"d", "f"} => pc'[p] = "idle" /\ reply'[p] \in {"not_found", r}
    BY <1>2 DEF NotFound, Exit, Goto, HInv, IInv, ProcTypeOK
  <2> QED
    BY <1>1, <1>2, <2>1
<1>3. ASSUME NEW s, Found(p, s), id \in Students(file)
      PROVE  /\ job[p].op = "d" => pc'[p] = "write"
             /\ job[p].op \in {"a", "f"} => pc'[p] = "idle" /\ reply'[p] \in {"duplicate", "found"}
             /\ id \in present'[p]
  <2>1. /\ job[p].op = "d" => pc'[p] = "write"
        /\ job[p].op \in {"a", "f"} => pc'[p] = "idle" /\ reply'[p] \in {"duplicate", "found"}
    BY <1>3 DEF Found, Exit, Goto, HInv, IInv, ProcTypeOK
  <2> QED
    BY <1>1, <1>3, <2>1
<1>4. CASE id < 0 /\ NotFound(p, "read_error")
  <2>1. id \notin StudentId /\ id \notin Students(file)
    BY <1>0, <1>4 DEF StudentId, Students
  <2> QED
    BY <1>0, <1>2, <1>4, <2>1
<1>5. ASSUME id \in Nat, NEW r \in Read(id), r \in {<<>>, <<Empty>>}, NotFound(p, "not_found")
      PROVE  id \notin Students(file)
  BY <1>5, ReadTells DEF HInv
<1>6. ASSUME id \in Nat, NEW r \in Read(id), r \notin {<<>>, <<Empty>>}, Found(p, Head(r))
      PROVE  id \in Students(file)
  BY <1>6, ReadTells DEF HInv
<1>7. \/ id < 0 /\ NotFound(p, "read_error")
      \/ id \notin Students(file) /\ NotFound(p, "not_found")
      \/ id \in Students(file) /\ \E s : Found(p, s)
  <2>1. \/ id < 0 /\ NotFound(p, "read_error")
        \/ id \in Nat /\ \E r \in Read(id) :
             IF r \in {<<>>, <<Empty>>} THEN NotFound(p, "not_found") ELSE Found(p, Head(r))
    BY <1>0 DEF Get
  <2> QED
    BY <1>5, <1>6, <2>1
<1>8. CASE id \notin Students(file) /\ NotFound(p, "not_found")
  BY <1>0, <1>2, <1>8
<1>9. CASE id \in Students(file) /\ \E s : Found(p, s)
  BY <1>3, <1>9
<1> QED
  BY <1>4, <1>7, <1>8, <1>9

\* What one process has learned, and that what it answers was true.
LearnedBy(p) ==
  /\ pc[p] = "write" /\ job[p].op = "a" => job[p].id \in absent[p]
  /\ pc[p] = "write" /\ job[p].op = "d" => job[p].id \in present[p]
  /\ pc[p] = "scan" => seen[p] \subseteq present[p]
  /\ pc[p] = "scan" => \A s \in StudentId : s < pos[p] /\ s \notin seen[p] => s \in absent[p]
  /\ pc[p] # "scan" => seen[p] = {} /\ pos[p] = 0

AnswerWasTrue(p) ==
  /\ reply'[p] = "added" => job[p].id \in absent'[p]
  /\ reply'[p] \in {"duplicate", "deleted", "found"} => job[p].id \in present'[p]
  /\ reply'[p] = "not_found" => job[p].id \notin present'[p] \/ job[p].id \in absent'[p]
  /\ reply'[p] = "scanned" => seen[p] \subseteq present'[p]
  /\ reply'[p] = "scanned" => StudentId \ seen[p] \subseteq absent'[p]

\* Learned says the same of every process.
LEMMA LearnedParts == Learned <=> \A p \in Procs : LearnedBy(p)
BY DEF Learned, LearnedBy

\* A process that does not move knows what it knew.
LEMMA LearnedFrame ==
  ASSUME HInv, Observe, NEW q \in Procs,
         pc'[q] = pc[q], job'[q] = job[q], seen'[q] = seen[q], pos'[q] = pos[q]
  PROVE  LearnedBy(q)'
<1>1. LearnedBy(q)
  BY LearnedParts DEF HInv
<1>2. pc[q] # "idle" => present[q] \subseteq present'[q] /\ absent[q] \subseteq absent'[q]
  BY ObserveStep DEF HInv
<1> QED
  BY <1>1, <1>2 DEF LearnedBy

\* A step of one process leaves the others where they are.
LEMMA OthersStay ==
  ASSUME HInv, NEW p \in Procs, NEW q \in Procs, q # p, Start(p) \/ Step(p)
  PROVE  pc'[q] = pc[q] /\ job'[q] = job[q] /\ seen'[q] = seen[q] /\ pos'[q] = pos[q]
<1> USE DEF HInv, IInv, ProcTypeOK
<1>1. ASSUME NEW r, NEW code, Exit(p, r, code)
      PROVE  pc'[q] = pc[q] /\ job'[q] = job[q] /\ seen'[q] = seen[q] /\ pos'[q] = pos[q]
  BY <1>1 DEF Exit
<1>2. ASSUME NEW where, Goto(p, where)
      PROVE  pc'[q] = pc[q] /\ job'[q] = job[q] /\ seen'[q] = seen[q] /\ pos'[q] = pos[q]
  BY <1>2 DEF Goto
<1>3. ASSUME NEW s, Found(p, s)
      PROVE  pc'[q] = pc[q] /\ job'[q] = job[q] /\ seen'[q] = seen[q] /\ pos'[q] = pos[q]
  BY <1>1, <1>3 DEF Found
<1>4. ASSUME NEW r, NotFound(p, r)
      PROVE  pc'[q] = pc[q] /\ job'[q] = job[q] /\ seen'[q] = seen[q] /\ pos'[q] = pos[q]
  BY <1>1, <1>2, <1>4 DEF NotFound
<1>5. ASSUME NEW r, Pass(p, r)
      PROVE  pc'[q] = pc[q] /\ job'[q] = job[q] /\ seen'[q] = seen[q] /\ pos'[q] = pos[q]
  BY <1>5 DEF Pass
<1>6. CASE Start(p)
  BY <1>6 DEF Start
<1>7. CASE Open(p)
  BY <1>1, <1>2, <1>7 DEF Open
<1>8. CASE Get(p)
  BY <1>3, <1>4, <1>8 DEF Get
<1>9. CASE Write(p)
  BY <1>1, <1>9 DEF Write
<1>10. CASE ScanNext(p)
  BY <1>1, <1>5, <1>10 DEF ScanNext
<1>11. CASE Truncate(p)
  BY <1>1, <1>11 DEF Truncate
<1> QED
  BY <1>6, <1>7, <1>8, <1>9, <1>10, <1>11 DEF Step

\* The steps that learn nothing.
LEMMA StartLearns ==
  ASSUME HInv, NEW p \in Procs, Start(p)
  PROVE  LearnedBy(p)' /\ pc'[p] # "idle"
<1>1. LearnedBy(p) /\ pc[p] = "idle"
  BY LearnedParts DEF HInv, Start
<1>2. pc'[p] = "open" /\ seen'[p] = seen[p] /\ pos'[p] = pos[p]
  BY DEF HInv, IInv, ProcTypeOK, Start
<1> QED
  BY <1>1, <1>2 DEF LearnedBy

\* A process that ends has nothing left to know.
LEMMA ExitLearns ==
  ASSUME HInv, NEW p \in Procs, NEW r, NEW code, Exit(p, r, code)
  PROVE  LearnedBy(p)' /\ pc'[p] = "idle" /\ reply'[p] = r
<1>1. pc'[p] = "idle" /\ seen'[p] = {} /\ pos'[p] = 0 /\ reply'[p] = r
  BY DEF HInv, IInv, ProcTypeOK, Exit
<1> QED
  BY <1>1 DEF LearnedBy

\* A command that opens the file has not read it yet, and answers nothing about it.
LEMMA OpenLearns ==
  ASSUME HInv, NEW p \in Procs, Open(p)
  PROVE  LearnedBy(p)' /\ (pc'[p] = "idle" => AnswerWasTrue(p))
<1>1. LearnedBy(p) /\ pc[p] = "open"
  BY LearnedParts DEF HInv, Open
<1>2. seen[p] = {} /\ pos[p] = 0
  BY <1>1 DEF LearnedBy
<1>3. ASSUME NEW where \in {"get", "scan", "truncate"}, Goto(p, where)
      PROVE  LearnedBy(p)' /\ pc'[p] # "idle"
  <2>1. pc'[p] = where /\ seen'[p] = {} /\ pos'[p] = 0
    BY <1>2, <1>3 DEF HInv, IInv, ProcTypeOK, Goto
  <2>2. \A s \in StudentId : ~(s < 0)
    BY LimitsAssumption DEF StudentId
  <2> QED
    BY <2>1, <2>2 DEF LearnedBy
<1>4. ASSUME NEW r \in {"range", "not_impl", "open_error"}, NEW code, Exit(p, r, code)
      PROVE  LearnedBy(p)' /\ AnswerWasTrue(p)
  <2>1. LearnedBy(p)' /\ reply'[p] = r
    BY <1>4, ExitLearns
  <2> QED
    BY <2>1 DEF AnswerWasTrue
<1> QED
  BY <1>3, <1>4 DEF Open

\* A lookup.
LEMMA GetKnows ==
  ASSUME NoReadErrors, IdsFit, HInv, NEW p \in Procs, Get(p), Observe
  PROVE  LearnedBy(p)' /\ (pc'[p] = "idle" => AnswerWasTrue(p))
<1>1. LearnedBy(p) /\ pc[p] = "get"
  BY LearnedParts DEF HInv, Get
<1>2. job[p].op \in {"a", "d", "f"}
  BY DEF Get, NotFound, Found
<1>3. /\ pc'[p] = "write" /\ job[p].op = "a" => job[p].id \in absent'[p]
      /\ pc'[p] = "write" /\ job[p].op = "d" => job[p].id \in present'[p]
      /\ pc'[p] = "idle" =>
           \/ reply'[p] \in {"duplicate", "found"} /\ job[p].id \in present'[p]
           \/ reply'[p] = "not_found" /\ (job[p].id \notin present'[p] \/ job[p].id \in absent'[p])
           \/ reply'[p] = "read_error"
      /\ pc'[p] \in {"write", "idle"}
  BY <1>2, GetLearns
<1>4. /\ seen'[p] = {} /\ pos'[p] = 0
      /\ pc'[p] = "write" => job'[p] = job[p]
  <2>1. seen[p] = {} /\ pos[p] = 0
    BY <1>1 DEF LearnedBy
  <2>2. ASSUME NEW r, NEW code, Exit(p, r, code)
        PROVE  seen'[p] = {} /\ pos'[p] = 0 /\ pc'[p] = "idle"
    BY <2>2 DEF Exit, HInv, IInv, ProcTypeOK
  <2>3. ASSUME NEW where, Goto(p, where)
        PROVE  seen'[p] = {} /\ pos'[p] = 0 /\ job'[p] = job[p]
    BY <2>1, <2>3 DEF Goto
  <2>4. ASSUME NEW s, Found(p, s)
        PROVE  seen'[p] = {} /\ pos'[p] = 0 /\ (pc'[p] = "write" => job'[p] = job[p])
    BY <2>1, <2>2, <2>4 DEF Found
  <2>5. ASSUME NEW r, NotFound(p, r)
        PROVE  seen'[p] = {} /\ pos'[p] = 0 /\ (pc'[p] = "write" => job'[p] = job[p])
    BY <2>2, <2>3, <2>5 DEF NotFound
  <2> QED
    BY <2>4, <2>5 DEF Get
<1>5. LearnedBy(p)'
  BY <1>3, <1>4 DEF LearnedBy
<1>6. pc'[p] = "idle" => AnswerWasTrue(p)
  BY <1>3 DEF AnswerWasTrue
<1> QED
  BY <1>5, <1>6

\* A write answers what the lookup before it had learned.
LEMMA WriteKnows ==
  ASSUME HInv, NEW p \in Procs, Write(p), Observe
  PROVE  LearnedBy(p)' /\ AnswerWasTrue(p)
<1>1. /\ job[p].op = "a" => job[p].id \in absent[p]
      /\ job[p].op = "d" => job[p].id \in present[p]
      /\ pc[p] = "write"
  BY LearnedParts DEF HInv, LearnedBy, Write
<1>2. /\ job[p].op = "a" => job[p].id \in absent'[p]
      /\ job[p].op = "d" => job[p].id \in present'[p]
  BY <1>1, ObserveStep DEF HInv
<1>3. \/ job[p].op = "a" /\ Exit(p, "added", "OK")
      \/ job[p].op = "d" /\ Exit(p, "deleted", "OK")
      \/ Exit(p, "write_error", "FAIL_DB")
  BY DEF Write
<1>4. LearnedBy(p)'
  BY <1>3, ExitLearns
<1>5. \/ job[p].op = "a" /\ reply'[p] = "added"
      \/ job[p].op = "d" /\ reply'[p] = "deleted"
      \/ reply'[p] = "write_error"
  BY <1>3, ExitLearns
<1>6. AnswerWasTrue(p)
  BY <1>2, <1>5 DEF AnswerWasTrue
<1> QED
  BY <1>4, <1>6

\* A scan has met every record before its position, each at its time.
LEMMA ScanKnows ==
  ASSUME NoReadErrors, HInv, NEW p \in Procs, ScanNext(p), Observe
  PROVE  LearnedBy(p)' /\ (pc'[p] = "idle" => AnswerWasTrue(p))
<1>0. /\ pos[p] \in Nat /\ pc[p] = "scan" /\ Len(file) \in Nat
  BY LenProperties DEF HInv, IInv, ProcTypeOK, FileTypeOK, ScanNext
<1>1. /\ seen[p] \subseteq present[p]
      /\ \A s \in StudentId : s < pos[p] /\ s \notin seen[p] => s \in absent[p]
  BY <1>0, LearnedParts DEF HInv, LearnedBy
<1>2. /\ present'[p] = present[p] \cup Students(file)
      /\ absent'[p] = absent[p] \cup (StudentId \ Students(file))
  BY <1>0, ObserveStep DEF HInv
<1>3. PICK r \in Read(pos[p]) : IF r = <<>> THEN Exit(p, "scanned", "OK") ELSE Pass(p, Head(r))
  BY DEF ScanNext
<1>4. CASE r = <<>>
  <2>1. LearnedBy(p)' /\ reply'[p] = "scanned"
    BY <1>3, <1>4, ExitLearns
  <2>2. ~(pos[p] < Len(file))
    BY <1>4 DEF Read, NoReadErrors
  <2>3. seen[p] \subseteq present'[p]
    BY <1>1, <1>2
  <2>4. ASSUME NEW s \in StudentId, s \notin seen[p]
        PROVE  s \in absent'[p]
    <3>0. s \in Nat
      BY LimitsAssumption DEF StudentId
    <3>1. CASE s < pos[p]
      BY <1>1, <1>2, <2>4, <3>1
    <3>2. CASE ~(s < pos[p])
      <4>1. ~(s < Len(file))
        BY <1>0, <2>2, <3>0, <3>2
      <4>2. s \notin Students(file)
        BY <4>1 DEF Students
      <4> QED
        BY <1>2, <4>2
    <3> QED
      BY <3>1, <3>2
  <2> QED
    BY <2>1, <2>3, <2>4 DEF AnswerWasTrue
<1>5. CASE r # <<>>
  <2>1. /\ pos'[p] = pos[p] + 1 /\ pc'[p] = "scan"
        /\ Head(r) = Empty => seen'[p] = seen[p]
        /\ Head(r) # Empty => seen'[p] = seen[p] \cup {pos[p]}
    BY <1>0, <1>3, <1>5 DEF Pass, HInv, IInv, ProcTypeOK
  <2>2. r = <<Head(r)>>
    BY <1>5 DEF Read
  <2>3. /\ Head(r) # Empty => pos[p] \in Students(file)
        /\ Head(r) = Empty => pos[p] \notin Students(file)
    <3>1. Head(r) # Empty => r \notin {<<>>, <<Empty>>}
      BY <1>5, <2>2
    <3>2. Head(r) = Empty => r \in {<<>>, <<Empty>>}
      BY <2>2
    <3> QED
      BY <1>0, <3>1, <3>2, ReadTells DEF HInv
  <2>4. seen'[p] \subseteq present'[p] /\ seen[p] \subseteq seen'[p]
    BY <1>1, <1>2, <2>1, <2>3
  <2>5. ASSUME NEW s \in StudentId, s < pos'[p], s \notin seen'[p]
        PROVE  s \in absent'[p]
    <3>0. s \in Nat
      BY LimitsAssumption DEF StudentId
    <3>1. CASE s < pos[p]
      BY <1>1, <1>2, <2>4, <2>5, <3>1
    <3>2. CASE ~(s < pos[p])
      <4>1. s = pos[p]
        BY <1>0, <2>1, <2>5, <3>0, <3>2
      <4>2. Head(r) = Empty
        BY <2>1, <2>5, <4>1
      <4> QED
        BY <1>2, <2>3, <4>1, <4>2
    <3> QED
      BY <3>1, <3>2
  <2>6. LearnedBy(p)'
    BY <2>1, <2>4, <2>5 DEF LearnedBy
  <2> QED
    BY <2>1, <2>6
<1> QED
  BY <1>4, <1>5

\* -z answers nothing about students.
LEMMA TruncateLearns ==
  ASSUME HInv, NEW p \in Procs, Truncate(p)
  PROVE  LearnedBy(p)' /\ AnswerWasTrue(p)
<1>1. Exit(p, "zeroed", "OK") \/ Exit(p, "open_error", "FAIL_DB")
  BY DEF Truncate
<1>2. LearnedBy(p)' /\ reply'[p] \in {"zeroed", "open_error"}
  BY <1>1, ExitLearns
<1> QED
  BY <1>2 DEF AnswerWasTrue

\* All steps together.
LEMMA HistoryStep ==
  ASSUME NoReadErrors, IdsFit, HInv, HNext
  PROVE  /\ HInv'
         /\ \A p \in Procs : pc[p] # "idle" /\ pc'[p] = "idle" => AnswerWasTrue(p)
<1>0. Next /\ Observe
  BY DEF HNext
<1>1. PICK p \in Procs : Start(p) \/ Step(p)
  BY <1>0 DEF Next
<1>2. /\ LearnedBy(p)'
      /\ pc[p] # "idle" /\ pc'[p] = "idle" => AnswerWasTrue(p)
  BY <1>0, <1>1, StartLearns, OpenLearns, GetKnows, WriteKnows, ScanKnows, TruncateLearns DEF Step
<1>3. ASSUME NEW q \in Procs, q # p
      PROVE  LearnedBy(q)' /\ pc'[q] = pc[q]
  BY <1>0, <1>1, <1>3, OthersStay, LearnedFrame
<1>4. \A q \in Procs : LearnedBy(q)'
  BY <1>2, <1>3
<1>5. Learned'
  BY <1>4 DEF Learned, LearnedBy
<1>6. IInv' /\ HTypeOK'
  BY <1>0, IInvStep, ObserveStep DEF HInv
<1>7. \A q \in Procs : pc[q] # "idle" /\ pc'[q] = "idle" => AnswerWasTrue(q)
  BY <1>2, <1>3
<1> QED
  BY <1>5, <1>6, <1>7 DEF HInv

\* At the start no command runs.
LEMMA HistoryInit == HInit => HInv
<1> SUFFICES ASSUME HInit PROVE HInv
  OBVIOUS
<1>1. IInv
  BY InitIInv DEF HInit
<1>2. HTypeOK
  BY DEF HInit, HTypeOK
<1>3. Learned
  BY DEF HInit, Init, Learned
<1> QED
  BY <1>1, <1>2, <1>3 DEF HInv

\* As long as ids fit an int offset and no read fails, what a command answers
\* was true at some moment while it ran, for any other commands running at
\* once and for failing opens and writes (sdbsc.c:116-144, 168-190, 216-308).
THEOREM Truthful ==
  ASSUME NoReadErrors, IdsFit
  PROVE  HSpec => AnswersWereTrue
<1>1. HInv /\ [HNext]_historyVars => HInv'
  <2>1. CASE UNCHANGED historyVars
    BY <2>1 DEF historyVars, HInv, IInv, FileTypeOK, ProcTypeOK, RecordsInPlace, Checked, HTypeOK, Learned
  <2>2. CASE HNext
    BY <2>2, HistoryStep
  <2> QED
    BY <2>1, <2>2
<1>2. HInv /\ [HNext]_historyVars =>
        [\A p \in Procs : pc[p] # "idle" /\ pc'[p] = "idle" =>
           LET id == job[p].id  r == reply'[p] IN
             /\ r = "added" => id \in absent'[p]
             /\ r \in {"duplicate", "deleted", "found"} => id \in present'[p]
             /\ r = "not_found" => id \notin present'[p] \/ id \in absent'[p]
             /\ r = "scanned" => /\ seen[p] \subseteq present'[p]
                                 /\ StudentId \ seen[p] \subseteq absent'[p]]_historyVars
  BY HistoryStep DEF AnswerWasTrue
<1> QED
  BY <1>1, <1>2, HistoryInit, PTL DEF HSpec, AnswersWereTrue
=============================================================================
